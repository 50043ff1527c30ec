SPECIFICATION Spec
CONSTANTS
    ITS_MAX_ASSET_SIZE = 512
    Run <- ItsRun
    Uids <- ItsUids
    Capacity = 512
    MaxBoots = 2
    MaxFaults = 1
    Broken = {"none", "any uid", "any flag", "any size", "any offset", "rewrites", "removes", "keeps flags", "keeps data", "remove forgets", "remove corrupts", "no offset", "no short get", "wrong length", "wrong size", "null length", "null info", "null data", "shared"}
INVARIANTS
    NoFalseAlarm
    FaultsSeen
    DefectFound
CHECK_DEADLOCK FALSE
