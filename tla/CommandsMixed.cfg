SPECIFICATION MCSpec
CONSTANTS
    Custom <- SmallCustom
    Configs <- SmallConfigs
    Edits <- SmallEdits
    Worlds <- SmallWorlds
    Expected = 2
INVARIANTS
    MissedMeansNone
