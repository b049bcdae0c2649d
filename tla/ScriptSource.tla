---------------------------- MODULE ScriptSource ----------------------------
(***************************************************************************)
(* dbman's source of database scripts (dbman/util/scriptSource.go).  A    *)
(* ScriptSource caches the release plan (plan.json) of the schema server  *)
(* in its index field: plan() fetches it when the index is nil and hands  *)
(* the index out; fetchRelease looks the application version up in the   *)
(* plan and then fetches that release's release.json.  The server may    *)
(* publish a new plan at any time.                                         *)
(*                                                                         *)
(* A plan is a model value; Lists gives the application versions it has  *)
(* releases for.  A failed HTTP call and a body that does not decode are  *)
(* both an error result of the fetch.  The calls of one ScriptSource      *)
(* follow one another.                                                     *)
(***************************************************************************)
EXTENDS Naturals

CONSTANTS
    Plans,      \* the plans the server may publish
    Versions,   \* application versions asked for
    Lists,      \* [Plans -> SUBSET Versions]: the versions a plan lists
    Nil,        \* a nil *Plan
    MaxCalls    \* bound on the number of fetchRelease calls

VARIABLES
    server,     \* the plan.json the server currently publishes
    index,      \* info.index: the cached plan, or Nil
    cfgNil,     \* info.cfg is nil (NewScriptSource was given no config)
    cpc,        \* the caller: idle, fetching release.json, or crashed
    want,       \* the application version being fetched
    from,       \* the plan the release information came from
    calls,      \* fetchRelease calls made
    result      \* the outcome of the last call

svars == <<server, index, cfgNil, cpc, want, from, calls, result>>

TypeOK ==
    /\ server \in Plans
    /\ index \in Plans \cup {Nil}
    /\ cfgNil \in BOOLEAN
    /\ cpc \in {"idle", "get", "crashed"}
    /\ want \in Versions
    /\ from \in Plans \cup {Nil}
    /\ cpc = "get" => from \in Plans /\ want \in Lists[from]
    /\ calls \in 0..MaxCalls
    /\ result \in {"none", "ok", "error"}

Init ==
    /\ server \in Plans
    /\ index = Nil
    /\ cfgNil \in BOOLEAN
    /\ cpc = "idle"
    /\ want \in Versions
    /\ from = Nil
    /\ calls = 0
    /\ result = "none"

(* fetchPlan: GET <SchemaURI>/plan.json and decode it; an error of either *)
(* gives a nil plan.  loadPlan stores what it got, nil included.           *)
FetchPlan == {server, Nil}

(* plan(): the cached index, or, when it is nil, what loadPlan stores.    *)
(* The error loadPlan returns is formatted and dropped.                     *)
PlanResult == IF index # Nil THEN {index} ELSE FetchPlan

(* release() that takes a nil plan for one that lists the version.        *)
ReleaseNilAsFound(p, v) ==
    IF p = Nil \/ v \in Lists[p] THEN "found" ELSE "missing"

(* release(appVersion): ranging over plan().Releases dereferences a nil    *)
(* plan (a panic); a version the plan does not list is an error.           *)
Release(p, v) ==
    CASE p = Nil         -> "panic"
      [] v \in Lists[p] -> "found"
      [] OTHER           -> "missing"

(***************************************************************************)
(* fetchRelease(appVersion) up to the request for release.json: a nil     *)
(* config is an error; otherwise release() looks the version up in        *)
(* plan(), which stores what it fetched in the index, and the release     *)
(* information (its path) is taken from that plan.                         *)
(***************************************************************************)
FetchReleaseStart(v) ==
    /\ cpc = "idle"
    /\ calls < MaxCalls
    /\ calls' = calls + 1
    /\ want' = v
    /\ \/ /\ cfgNil
          /\ result' = "error"
          /\ UNCHANGED <<index, cpc, from>>
       \/ /\ ~cfgNil
          /\ \E p \in PlanResult :
                /\ index' = p
                /\ \/ /\ Release(p, v) = "panic"
                      /\ cpc' = "crashed"
                      /\ UNCHANGED <<from, result>>
                   \/ /\ Release(p, v) = "missing"
                      /\ result' = "error"
                      /\ UNCHANGED <<cpc, from>>
                   \/ /\ Release(p, v) = "found"
                      /\ cpc' = "get"
                      /\ from' = p
                      /\ UNCHANGED result
    /\ UNCHANGED <<server, cfgNil>>

(***************************************************************************)
(* fetchRelease, the rest: GET <SchemaURI>/<path>/release.json and decode *)
(* it; an error of either is returned.  The error of closing the body is  *)
(* assigned to a local in a deferred function and lost.                    *)
(***************************************************************************)
FetchReleaseGet ==
    /\ cpc = "get"
    /\ cpc' = "idle"
    /\ result' \in {"ok", "error"}
    /\ UNCHANGED <<server, index, cfgNil, want, from, calls>>

(* The schema server publishes a new plan.json.                            *)
Publish(p) ==
    /\ server' = p
    /\ UNCHANGED <<index, cfgNil, cpc, want, from, calls, result>>

Next ==
    \/ \E v \in Versions : FetchReleaseStart(v)
    \/ FetchReleaseGet
    \/ \E p \in Plans : Publish(p)

(* The caller may stop calling at any point: no fairness.                   *)
Spec == Init /\ [][Next]_svars

=============================================================================
