\* Header of 2 bytes, messages of 3, 2, 5, 4, 3 and 2 bytes, the last of unknown
\* type, and a buffer of 7: messages end at, before and behind the end of the
\* buffer, in every way of cutting.
CONSTANTS
    HeaderSize = 2
    NumMsgs = 6
    Start <- SixMessages
    Unknown = {6}
    BufSize = 7
    TornResponse = TRUE
SPECIFICATION FairSpec
INVARIANTS
    BufferInv
    MessagesIntact
    BufferFollowsWire
    RoomToRead
PROPERTY AllHanded
\* The server's answer ends.
CHECK_DEADLOCK FALSE
