SPECIFICATION FairSpec
CONSTANTS
    MaxMessages = 4
    MaxOther = 2
    WriteMayFail = FALSE
INVARIANTS
    ByteIndicatesData
    FreedWhenUnowned
PROPERTIES
    ChannelSpec
    MessagesHandled
CHECK_DEADLOCK FALSE
