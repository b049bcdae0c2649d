---------------------------- MODULE AppManifest -----------------------------
(***************************************************************************)
(* Loading application and service manifests (artisan/app/util.go).      *)
(* loadSvcManFromImage reads a service manifest out of a docker image:    *)
(* it creates a stopped container named <service>-info, a random tmp      *)
(* folder, reads the manifest path from an image label, copies the file   *)
(* out, removes the container, reads and decodes the file and removes the *)
(* tmp folder, returning at the first step that fails.  loadFromURL and   *)
(* loadSvcManFromURI fetch the manifest over HTTP with fetchFile.          *)
(*                                                                         *)
(* The docker daemon and the file system outlive the process: the info    *)
(* containers and tmp folders that exist are the state.  A client loads   *)
(* manifests one after another.                                            *)
(***************************************************************************)
EXTENDS Naturals

CONSTANTS
    Services,   \* service references: their names are model values
    SvcName,    \* [Services -> the service's name]
    App,        \* stands for the app manifest in the result of a load
    MaxCalls    \* bound on the number of loads

(* The steps of loadSvcManFromImage in the order they run.                 *)
ImageSteps == <<"create", "tmp", "inspect", "label", "cp", "rm", "read",
                "unmarshal", "rmtmp">>

StepNo(f) == CHOOSE j \in 1..9 : ImageSteps[j] = f

VARIABLES
    containers,  \* names of the <name>-info containers that exist
    tmps,        \* loads whose tmp folder exists
    calls,       \* loads made
    last,        \* [svc, via, result] of the last load
    proc         \* "run", or "crashed" after a panic

avars == <<containers, tmps, calls, last, proc>>

Names == {SvcName[s] : s \in Services}
Results == {"none", "ok", "error"}

TypeOK ==
    /\ containers \subseteq Names
    /\ tmps \subseteq 1..MaxCalls
    /\ calls \in 0..MaxCalls
    /\ last \in [svc : Services \cup {App}, via : {"image", "uri", "url", "file"},
                 result : Results]
    /\ proc \in {"run", "crashed"}

Init ==
    /\ containers = {}
    /\ tmps = {}
    /\ calls = 0
    /\ last \in [svc : Services, via : {"image"}, result : {"none"}]
    /\ proc = "run"

Call == proc = "run" /\ calls < MaxCalls /\ calls' = calls + 1

(***************************************************************************)
(* The steps that can fail: docker create fails whenever a container of   *)
(* that name exists already; every docker command, the tmp folder, the    *)
(* file read and the decode can fail on their own; an empty label is an   *)
(* error too.  "none": nothing fails.                                      *)
(***************************************************************************)
Failing(s) ==
    IF SvcName[s] \in containers THEN {"create"}
    ELSE {ImageSteps[j] : j \in 1..9} \cup {"none"}

(***************************************************************************)
(* loadSvcManFromImage(svcRef): every step before the failing one has     *)
(* taken effect and nothing after it runs.  A failure after docker create *)
(* leaves the container; a failure after tmpPath leaves the folder.  The  *)
(* container is gone once `docker rm -f` succeeded, before the manifest   *)
(* is read and decoded; the folder only when the whole load succeeded.    *)
(***************************************************************************)
LoadSvcManFromImage(s) ==
    /\ Call
    /\ \E f \in Failing(s) :
          LET reached(g) == f = "none" \/ StepNo(g) < StepNo(f) IN
          /\ containers' = (containers \cup (IF reached("create") THEN {SvcName[s]} ELSE {}))
                              \ (IF reached("rm") THEN {SvcName[s]} ELSE {})
          /\ tmps' = IF reached("tmp") /\ f # "none" THEN tmps \cup {calls'} ELSE tmps
          /\ last' = [svc |-> s, via |-> "image", result |-> IF f = "none" THEN "ok" ELSE "error"]
    /\ UNCHANGED proc

(***************************************************************************)
(* fetchFile(url): a request that cannot be built is an error; when the   *)
(* request itself fails, `defer resp.Body.Close()` dereferences the nil   *)
(* response, a panic; a status above 299 and a failed body read are       *)
(* errors.                                                                 *)
(***************************************************************************)
FetchFile == {"error", "panic", "ok"}

(* The result of a load that fetched the manifest over HTTP and decoded   *)
(* it: a panic ends the process, an error or a decode failure is returned. *)
Fetched(what, via) ==
    \E r \in FetchFile :
        \/ /\ r = "panic"
           /\ proc' = "crashed"
           /\ UNCHANGED last
        \/ /\ r = "error"
           /\ last' = [svc |-> what, via |-> via, result |-> "error"]
           /\ UNCHANGED proc
        \/ /\ r = "ok"
           /\ last' \in [svc : {what}, via : {via}, result : {"ok", "error"}]
           /\ UNCHANGED proc

(* loadFromURL(url): fetchFile, then the YAML decode of the app manifest. *)
LoadFromURL ==
    /\ Call
    /\ Fetched(App, "url")
    /\ UNCHANGED <<containers, tmps>>

(* loadSvcManFromURI(svc, credentials): adding the credentials to the URI *)
(* may fail; then fetchFile and the YAML decode of the service manifest.  *)
LoadSvcManFromURI(s) ==
    /\ Call
    /\ \/ /\ last' = [svc |-> s, via |-> "uri", result |-> "error"]
          /\ UNCHANGED proc
       \/ Fetched(s, "uri")
    /\ UNCHANGED <<containers, tmps>>

(* loadFromFile(path): the absolute path, the read of app.yaml and its    *)
(* decode may each fail; nothing on the host changes.                      *)
LoadFromFile ==
    /\ Call
    /\ last' \in [svc : {App}, via : {"file"}, result : {"ok", "error"}]
    /\ UNCHANGED <<containers, tmps, proc>>

Next ==
    \/ \E s \in Services : LoadSvcManFromImage(s) \/ LoadSvcManFromURI(s)
    \/ LoadFromURL
    \/ LoadFromFile

(* The client may stop loading at any point: no fairness.                  *)
Spec == Init /\ [][Next]_avars

(***************************************************************************)
(* Properties                                                              *)
(***************************************************************************)

(* Every return of loadSvcManFromImage removes the <name>-info container  *)
(* it created, as the load's "remove the svc-info container" step intends: *)
(* a container left behind makes docker create fail for every later load  *)
(* of a service of that name.                                              *)
InfoContainerRemoved == containers = {}

=============================================================================
