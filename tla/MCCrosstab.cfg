CONSTANTS
    Tabs = {1, 2, 3}
    Channels = {channel1, channel2}
    channel1 = channel1  channel2 = channel2
    Messages = {message1, message2}
    message1 = message1  message2 = message2
    MASTER_TAB_HEARTBEAT_PERIOD = 1
    TAB_HEARTBEAT_PERIOD = 2
    HEARTBEAT_OUT_OF_DATE_PERIOD = 1
    HEARTBEAT_KILL_OLD_PERIOD = 3
    Budgets <- MCBudgets
SPECIFICATION FairSpec
CHECK_DEADLOCK FALSE
INVARIANTS
    TypeOK
    NothingSkipped
    OnceWithOneMaster
PROPERTIES
    OneMasterInTheEnd
    EveryTabNotified
    ChannelsPolled
