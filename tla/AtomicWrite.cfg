\* Two writers of the program and an editor race for one file; power may be lost
\* at any step.
SPECIFICATION FairSpec
CONSTANTS
    Reapply = {r}
    Keep = {}
    Replace = {p}
    External = {x}
    MaxAttempts = 2
    RenameTries = 2
    r = r
    p = p
    x = x
INVARIANT TargetWhole
 
 
PROPERTY Returns
