CONSTANTS
    bfA = bfA
    bfS = bfS
    bfK = bfK
    mA = mA
    mS = mS
    mK = mK
    n1 = n1
    n2 = n2
    n3 = n3
    a = a
    s = s
    k = k
    f1 = f1
    f2 = f2
    f3 = f3
    fu = fu
    t1 = t1
    NoBinding = NoBinding
    NoObj = NoObj
    Objs <- MCObjs
    Kind <- MCKind
    Name <- MCName
    BFObjs = {bfA, bfS, bfK}
    FxNames = {f1, f2, f3, fu}
    BFFxs = {f1, f2, f3}
    Bindings <- MCBindings
    MFxs = {f1}
    MInput <- MCMInput
    MKeys <- MCMKeys
    CapOptions <- MCCapOptions
    NewKeys <- MCNewKeys
    EnvNames = {a}
    Typed = {t1}
    MaxCalls = 4

SPECIFICATION Spec


INVARIANT ReturnedKeyKept

CHECK_DEADLOCK FALSE
