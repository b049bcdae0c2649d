CONSTANTS
    Builders = {b1}
    Names = {"app"}
    None = None
    NoEntry = NoEntry
    PkgName <- MCPkgName
    Profiles <- MCProfiles
    Functions <- MCFunctions
    FxNames <- MCFxNames
    Requests <- MCRequests
    Sources <- MCSources
    NestedFxs <- MCNestedFxs
    NestedExports <- MCNestedExports
    ManifestEnvSubshell = TRUE
    StackLimit = 3
    MaxPolls = 2
    MaxTime = 2
    Clock <- MCClockMillis
    BuildOS <- MCBuildOS

SPECIFICATION Spec
INVARIANT ProfileRefIsPackageRef
CHECK_DEADLOCK FALSE
