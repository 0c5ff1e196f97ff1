CONSTANTS
    None = None
    Values <- MCValues
    Pasted <- MCPasted
    Escaped <- MCEscape
    FirstModels = {"missing"}
    Placeholder = "placeholder"
    Example <- MCExample
    FirstEnv <- MCFirstEnv
    Inherited = "b"
    MaxSetups = 2
    Terminals = {t1}
SPECIFICATION Spec
INVARIANTS SetupFailsOnlyByAFault
CHECK_DEADLOCK FALSE
