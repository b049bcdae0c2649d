----------------------------- MODULE MC_Artisan -----------------------------
(* Two builders tagging the same package name from trees whose targets     *)
(* define the same function f1: b1's target exports nothing and is built   *)
(* on Linux, b2's exports f1 and is built on Windows.  Two executions on a *)
(* Windows host run f1 and f2 from that package.                           *)
EXTENDS Artisan, TLC

CONSTANTS b1, b2, e1, e2

Shell == [kind |-> "shell"]

MCProfiles ==
    << [name |-> "build", default |-> TRUE, target |-> TRUE, envsub |-> FALSE,
        run |-> <<Shell>>] >>

MCFunctions == <<>>
MCClock == [t \in 0..MaxTime |-> [sec |-> 0, ns |-> 123456789]]
MCFxNames == {"f1", "f2"}
MCRequests == {None}
MCSources == {[kind |-> "local", git |-> TRUE, commits |-> TRUE]}
MCNestedFxs == [b \in Builders |-> {"f1"}]
MCNestedExports == (b1 :> {} @@ b2 :> {"f1"})
MCBuildOS == (b1 :> "linux" @@ b2 :> "windows")
MCPkgName == [b \in Builders |-> "app"]
MCExecName == [e \in Executors |-> "app"]
MCExecFx == (e1 :> "f1" @@ e2 :> "f2")


=============================================================================
