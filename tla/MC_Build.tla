------------------------------ MODULE MC_Build ------------------------------
(* One builder over a build file with four profiles and a call graph that  *)
(* has a chain (build -> f1 -> f2), a cycle (f3 -> f3) and a call to an    *)
(* undefined function (docs -> f4).                                         *)
EXTENDS Build

Shell == [kind |-> "shell"]
Capture == [kind |-> "capture"]
Call(f) == [kind |-> "call", fx |-> f]

MCProfiles ==
    << [name |-> "build", default |-> FALSE, target |-> TRUE, envsub |-> FALSE,
        run |-> <<Shell, Call("f1"), Shell>>],
       [name |-> "release", default |-> TRUE, target |-> TRUE, envsub |-> TRUE,
        run |-> <<Capture, Call("f2")>>],
       [name |-> "lint", default |-> FALSE, target |-> FALSE, envsub |-> FALSE,
        run |-> <<Call("f3")>>],
       [name |-> "docs", default |-> FALSE, target |-> TRUE, envsub |-> FALSE,
        run |-> <<Call("f4")>>] >>

MCFunctions ==
    [f \in {"f1", "f2", "f3"} |->
        CASE f = "f1" -> <<Capture, Call("f2")>>
          [] f = "f2" -> <<Shell>>
          [] f = "f3" -> <<Shell, Call("f3")>>]

MCFxNames == {"f1", "f2", "f3", "f4"}

MCRequests == {None, "build", "lint", "docs", "missing"}

(* http sources are always git repositories; no git means no commits.      *)
MCSources ==
    {s \in [kind : SourceKinds, git : BOOLEAN, commits : BOOLEAN] :
        /\ s.kind = "http" => s.git
        /\ ~s.git => ~s.commits}

MCNestedFxs == [b \in Builders |-> {"f1", "f2"}]
MCNestedExports == [b \in Builders |-> {"f1"}]
MCPkgName == [b \in Builders |-> "app"]
MCBuildOS == [b \in Builders |-> "linux"]

(* Readings of time.Now() within one second: at 120 ms; with a two-digit  *)
(* nanosecond field; at 120 us, whose stamp equals the first one's.        *)
MCClock == [t \in 0..MaxTime |->
              [sec |-> 0, ns |-> CASE t = 0 -> 120000000
                                   [] t = 1 -> 57
                                   [] OTHER -> 120345]]

(* Readings one millisecond apart, every stamp distinct.                   *)
MCClockMillis == [t \in 0..MaxTime |-> [sec |-> 0, ns |-> 120000000 + t * 1000000]]

=============================================================================
