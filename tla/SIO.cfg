SPECIFICATION Spec
CONSTANTS
    Base = 2
    MaxMessageSize = 2
    Unparsable <- DoNotParse
    NoMessage = no_message
    Streams <- UpTo2
    ReadSize = 10
    MaxQueue = 2
INVARIANTS TypeOK WriteOwnsFront OneRead FramesInOrder NothingWaits
PROPERTIES SilentPeerClosed ClosedIsFreed
CHECK_DEADLOCK FALSE
