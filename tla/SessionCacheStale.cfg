\* A file written anew while one of its channels is being decoded.
SPECIFICATION Spec
CONSTANTS
    Callers = {c1, c2}
    Channels = {a, b}
    SecondSource = b
    Source <- SourceOf
    ChannelBytes = 2
    AxisBytes = 1
    DecodeBytes = 3
    EvalBytes = 2
    KeptBytes = 4
    Ceiling = 6
    Samples <- Readings
    NoChannel = NoChannel
    MaxVersion = 2
    c1 = c1
    c2 = c2
    a = a
    b = b
INVARIANT NothingStale
