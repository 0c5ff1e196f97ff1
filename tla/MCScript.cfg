CONSTANTS
    None = None
    Values <- MCValues
    Pasted <- MCPasted
    Escaped <- MCEscape
    FirstModels = {"missing", "other"}
    Placeholder = "placeholder"
    Example <- MCExample
    FirstEnv <- MCFirstEnv
    Inherited = "b"
    MaxSetups = 2
    Terminals = {t1}
SPECIFICATION Spec
INVARIANTS CompletedSetupIsUsable SetupFailsOnlyIfBlocked SessionUsesStoredToken NothingLeftRunning
PROPERTIES StopEnds
CHECK_DEADLOCK FALSE
