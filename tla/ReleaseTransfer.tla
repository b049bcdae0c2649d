--------------------------- MODULE ReleaseTransfer --------------------------
(***************************************************************************)
(* What exporting an application release specification and importing it  *)
(* elsewhere promises (specification section 3 and scenario C): the       *)
(* packages the spec lists are put at the target one by one; once all of  *)
(* them are there the export is complete; the import then takes each      *)
(* listed package from the target, and it is done only when every listed  *)
(* package has arrived.  Either side may fail at any point before it is   *)
(* done, and what has been put or taken stays.                             *)
(***************************************************************************)
CONSTANTS
    Specs       \* the specs: each the set of packages it lists

VARIABLES
    packages,   \* the packages of the spec being moved
    status,     \* exporting, exported, importing, done or error
    target,     \* the packages at the target location
    imported    \* the packages the importing registry has received

vars == <<packages, status, target, imported>>

Init ==
    /\ packages \in Specs
    /\ status = "exporting"
    /\ target = {}
    /\ imported = {}

(* A listed package is put at the target.                                  *)
Put(v) ==
    /\ status = "exporting"
    /\ v \in packages
    /\ target' = target \cup {v}
    /\ UNCHANGED <<packages, status, imported>>

(* The export is complete once every listed package is at the target.     *)
Exported ==
    /\ status = "exporting"
    /\ packages \subseteq target
    /\ status' = "exported"
    /\ UNCHANGED <<packages, target, imported>>

StartImport ==
    /\ status = "exported"
    /\ status' = "importing"
    /\ UNCHANGED <<packages, target, imported>>

(* The import takes a listed package from the target: that package.        *)
Get(v) ==
    /\ status = "importing"
    /\ v \in packages \cap target
    /\ imported' = imported \cup {v}
    /\ UNCHANGED <<packages, status, target>>

(* The import is done once every listed package has arrived.               *)
Done ==
    /\ status = "importing"
    /\ imported = packages
    /\ status' = "done"
    /\ UNCHANGED <<packages, target, imported>>

Fail ==
    /\ status \in {"exporting", "exported", "importing"}
    /\ status' = "error"
    /\ UNCHANGED <<packages, target, imported>>

Next ==
    \/ \E v \in UNION Specs : Put(v) \/ Get(v)
    \/ Exported \/ StartImport \/ Done \/ Fail

(* A transfer in progress does not stall: it ends done or failed.          *)
Spec == Init /\ [][Next]_vars /\ WF_vars(Next)

=============================================================================
