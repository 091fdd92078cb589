SPECIFICATION FairSpec
CONSTANTS
    p1 = p1
    p2 = p2
    p3 = p3
    Procs = {p1, p2, p3}
    BuildOf <- MCBuildOf
    Since <- MCSince
    MaxFaults = 1
    MaxInits = 1
INVARIANT OpenedIsUsable
PROPERTIES OnlyOverlapLowersMarker UpgradeCompletes
