\* Two devices and one item of each class: a sync in each direction, edits,
\* deletions and failures at any point.
CONSTANTS
    Devices = {d1, d2}
    Nobody = Nobody
    Classes = {"track", "bike", "session", "data"}
    Ties = FALSE
    MaxTime = 5

SYMMETRY Symmetry
SPECIFICATION Spec

INVARIANT Converged
INVARIANT PairConverged
 
 
