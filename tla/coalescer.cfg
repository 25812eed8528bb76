CONSTANTS
    Streams = {s1, s2}
    NoStream = NoStream
    MaxMessages = 3
    MaxText = 3
SPECIFICATION FairSpec
INVARIANT TextDelivered
PROPERTY ProducersNeverShorten
PROPERTY TextCatchesUp
CHECK_DEADLOCK FALSE
