CONSTANT NoFile = NoFile
CONSTANT Specs <- MCSpecs
CONSTANT ValidNames <- MCValidNames
SPECIFICATION Spec
INVARIANT TypeOK
PROPERTY ImplementsReleaseTransfer
\* Export and ImportSpec end, with nil or an error
CHECK_DEADLOCK FALSE
