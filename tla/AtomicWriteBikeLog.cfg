\* Two saves of one bike's log (its form and a sync) at the same time.
SPECIFICATION Spec
CONSTANTS
    Reapply = {}
    Keep = {k1, k2}
    Replace = {}
    External = {}
    MaxAttempts = 3
    RenameTries = 2
    k1 = k1
    k2 = k2
INVARIANT SaveKeepsEdits
