\* Two files at a time, a log and its first part among them, an upgrade, a
\* failure, an edit, and the app stopping at any point.
CONSTANTS
    n1 = n1
    n2 = n2
    full = full
    cut = cut
    junk = junk
    ride = ride
    Names = {n1, n2}
    Contents = {full, cut, junk}
    Sessions = {ride}
    SessionOf <- ParsesTo
    None = None
    MaxVersion = 2
    MaxDrops = 3
    MaxEdits = 1
    MaxFaults = 1

SYMMETRY Symmetry
SPECIFICATION Spec

INVARIANT NothingLost
INVARIANT StoredIsWhole
 
