CONSTANTS
    Reader = {r1, r2}
    MAX_LINES = 1
    SubChan = 1
    RpcChan = 1
    MaxPackets = 2
    None = None
SPECIFICATION FairSpec
INVARIANTS
    TypeOK
    NoGap
    CompleteUnlessLagged
    SnapshotFaithful
PROPERTIES
    HandlerNeverStalls
    StreamsEnd
