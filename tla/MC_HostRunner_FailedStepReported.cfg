CONSTANT Nil = Nil
CONSTANT Flows <- MCFlows
SPECIFICATION Spec
INVARIANT FailedStepReported
\* a request ends when its handler returns or panics
CHECK_DEADLOCK FALSE
