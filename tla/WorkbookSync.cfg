\* Two devices that sync in turns.
SPECIFICATION Spec
CONSTANTS
    Devices = {phone, laptop}
    FirstOwner = phone
    TakingTurns = TRUE
    MaxEdits = 3
    MaxInstalls = 5
    phone = phone
    laptop = laptop
INVARIANTS NoEditLost
PROPERTY OnlyDeletedCellsGo
CHECK_DEADLOCK FALSE
