\* Two callers, a channel of each of two sources; memory is short now and then,
\* the file is written anew once.
SPECIFICATION Spec
CONSTANTS
    Callers = {c1, c2}
    Channels = {a, b}
    SecondSource = b
    Source <- SourceOf
    ChannelBytes = 2
    AxisBytes = 1
    DecodeBytes = 3
    EvalBytes = 2
    KeptBytes = 4
    Ceiling = 6
    Samples <- Readings
    NoChannel = NoChannel
    MaxVersion = 2
    c1 = c1
    c2 = c2
    a = a
    b = b
INVARIANTS LedgerExact GrantsWithinCeiling OneDecodePerChannel OverBudgetOnlyByPins
PROPERTIES BorrowedAxisStays PinnedStays FirstComeFirstServed
