CONSTANTS
    b1 = b1
    b2 = b2
    e1 = e1
    e2 = e2
    Builders = {b1, b2}
    Executors = {e1, e2}
    Names = {"app"}
    None = None
    NoEntry = NoEntry
    PkgName <- MCPkgName
    Profiles <- MCProfiles
    Functions <- MCFunctions
    FxNames <- MCFxNames
    Requests <- MCRequests
    Sources <- MCSources
    NestedFxs <- MCNestedFxs
    NestedExports <- MCNestedExports
    ManifestEnvSubshell = FALSE
    StackLimit = 1
    MaxPolls = 1
    MaxTime = 0
    Clock <- MCClock
    BuildOS <- MCBuildOS
    ExecName <- MCExecName
    ExecFx <- MCExecFx
    ExecOS = "windows"

SPECIFICATION SystemSpec
INVARIANT RunsOnlyExported
CHECK_DEADLOCK FALSE
