\* Either device may sync again before the other has.
SPECIFICATION Spec
CONSTANTS
    Devices = {phone, laptop}
    FirstOwner = phone
    TakingTurns = FALSE
    MaxEdits = 1
    MaxInstalls = 3
    phone = phone
    laptop = laptop
PROPERTY OnlyDeletedCellsGo
CHECK_DEADLOCK FALSE
