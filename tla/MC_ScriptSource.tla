--------------------------- MODULE MC_ScriptSource ---------------------------
(* Two plans the schema server publishes one after the other: the first   *)
(* lists release 1.0 only, the second adds 1.1.  Versions asked for are   *)
(* 1.0, 1.1 and one no plan lists.                                         *)
EXTENDS ScriptSource

CONSTANTS p1, p2, v10, v11, v20

MCLists == [p \in {p1, p2} |-> IF p = p1 THEN {v10} ELSE {v10, v11}]

=============================================================================
