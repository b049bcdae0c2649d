CONSTANT Nil = Nil
CONSTANT Flows <- MCFlows
SPECIFICATION Spec
INVARIANT TypeOK
INVARIANT TempRemovedOnReturn
INVARIANT OkMeansFlowRan
\* a request ends when its handler returns or panics
CHECK_DEADLOCK FALSE
