CONSTANTS
    Attachments = {a1, a2}
    Files = {f1, f2}
    Transactions = {t1, t2}
    IOErrors = FALSE
    None = None
SPECIFICATION FilestoreSpec
CHECK_DEADLOCK FALSE
INVARIANT AttachmentsHaveFiles
