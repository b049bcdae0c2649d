CONSTANT NoFile = NoFile
CONSTANT Specs <- MCCollidingSpecs
CONSTANT ValidNames <- MCCollidingNames
SPECIFICATION Spec
INVARIANT RoundTripLossless
\* Export and ImportSpec end, with nil or an error
CHECK_DEADLOCK FALSE
