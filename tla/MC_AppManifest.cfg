CONSTANTS
    r1 = r1
    r2 = r2
    r3 = r3
    web = web
    db = db
    app = app
    App = app
    Services = {r1, r2, r3}
    SvcName <- MCSvcName
    MaxCalls = 4

SPECIFICATION Spec

INVARIANT InfoContainerRemoved

\* The client stops after MaxCalls loads.
CHECK_DEADLOCK FALSE
