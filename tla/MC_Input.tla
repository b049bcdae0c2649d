------------------------------ MODULE MC_Input ------------------------------
(* A build file whose Input has a var "a" (set in the environment), a     *)
(* secret "s" and a key "k"; f1 binds all three, f2 only the secret, f3   *)
(* has no binding and fu is not defined.  The manifest exports f1 with    *)
(* its own var, secret and one key; decoded from JSON its key slice has   *)
(* capacity 4, built by hand exactly its length, 1.                        *)
EXTENDS Input

CONSTANTS bfA, bfS, bfK, mA, mS, mK, n1, n2, n3,
          a, s, k, f1, f2, f3, fu, t1

MCObjs == {bfA, bfS, bfK, mA, mS, mK, n1, n2, n3}

MCKind == [o \in MCObjs |-> CASE o \in {bfA, mA} -> "var"
                              [] o \in {bfS, mS} -> "secret"
                              [] OTHER           -> "key"]

MCName == [o \in MCObjs |-> CASE o \in {bfA, mA} -> a
                              [] o \in {bfS, mS} -> s
                              [] OTHER           -> k]

MCBindings == [f \in {f1, f2, f3} |->
                 CASE f = f1 -> [var |-> {a}, secret |-> {s}, key |-> {k}]
                   [] f = f2 -> [var |-> {}, secret |-> {s}, key |-> {}]
                   [] OTHER  -> NoBinding]

MCMInput == [f \in {f1} |-> {mA, mS}]
MCMKeys == [f \in {f1} |-> <<mK>>]
MCCapOptions == [f \in {f1} |-> {1, 4}]

MCNewKeys == <<n1, n2, n3>>

=============================================================================
