\* Two callers, three evaluations of which the cap holds two at most.
SPECIFICATION FairSpec
CONSTANTS
    Callers = {c1, c2}
    Keys = {k1, k2, k3}
    Size <- SizeOf
    Cap = 3
    Flights = {f1, f2}
    NoFlight = NoFlight
    MaxPins = 1
    c1 = c1
    c2 = c2
    k1 = k1
    k2 = k2
    k3 = k3
    f1 = f1
    f2 = f2
INVARIANTS LedgerExact OneRunPerKey SubscribersCounted
PROPERTIES PinnedStays OverCapOnlyByPins Answered
