CONSTANTS
    c1 = c1  c2 = c2  c3 = c3  c4 = c4  w1 = w1  w2 = w2  field1 = field1  field2 = field2
    Calls = {c1, c2, c3, c4}
    Waiters = {w1, w2}
    Nobody = Nobody
    Fields = {field1, field2}
    OnChange = {field1}
    MaxEdits = 2
    Click = Click
    KeySaves = {enter}
    enter = enter
    None = None
SPECIFICATION Spec
CHECK_DEADLOCK FALSE
INVARIANTS
    TypeOK
    WaitersOnCurrent
    OvertakenNotResolved
    DiscardedStays
PROPERTIES
    Serialized
    CallsEnd
    NeverGoesBack
    StartsLastOnly
    EveryCallSettles
    NewestKept
    SavedIsWritten
