SPECIFICATION Spec
CONSTANTS
    Slots = {1, 2}
    MaxToken = 3
    MaxTrouble = 1
    MaxChanges = 2
    Uses <- AllUses
INVARIANTS
    SettingsTokensHold
PROPERTIES
    OwnEndIsNoticed
    PanelsSettle
CHECK_DEADLOCK FALSE
