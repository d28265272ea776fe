CONSTANTS
    s1 = s1
    reader = reader
    writer = writer
    rival = rival
    Nobody = Nobody
    Tokens = {s1}
    Tasks = {reader, writer, rival}
    Uses <- UsesOne
    MayInterrupt = TRUE
SPECIFICATION FairSpec
INVARIANTS
    NoLostReadiness
    ClosedHasNoReader
PROPERTIES
    ReadyIsPolled
CHECK_DEADLOCK FALSE
