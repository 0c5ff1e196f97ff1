CONSTANTS
    c1 = c1
    c2 = c2
    x1 = x1
    x2 = x2
    x3 = x3
    None = None
    Conns <- TwoConns
    Contexts <- ThreeContexts
    Chunks = {1023, 1024}
    MaxBody = 4200
    InitialCapacity = 1024
    Memory = "short"
SPECIFICATION Spec
INVARIANTS ContextsAreLive BodyFits RequestsUseLiveComponents UsersDieFirst
PROPERTIES AnsweredRequestsFreeTheirContext ShutsDown
CHECK_DEADLOCK FALSE
