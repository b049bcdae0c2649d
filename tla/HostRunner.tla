----------------------------- MODULE HostRunner -----------------------------
(***************************************************************************)
(* The artisan host runner (artisan/runner/host/handlers.go): one request *)
(* to one of its entry points, from the read of the request to the        *)
(* handler's return.                                                       *)
(*                                                                         *)
(*   command  executeCommandHandler   POST /host/{cmd-key}                 *)
(*   payload  executeFlowFromPayloadHandler   POST /flow                   *)
(*   webhook  executeWebhookFlowHandler   POST /webhook/{flow-key}/push    *)
(*   event    eventMessageHandler, the MQTT subscription callback          *)
(*                                                                         *)
(* Each request works in a temporary directory of its own and shares no   *)
(* state with other requests, so one request is modelled.  A flow is a    *)
(* sequence of steps; a step may declare an input, may ask for its        *)
(* package to be opened first ("create" clears the directory, "merge"     *)
(* does not) and runs one function, through a runtime or in process.      *)
(* checkErr (not under src/) is modelled by its use: it writes the error  *)
(* to the response and answers whether there was one.  A nil dereference  *)
(* ends the request with a panic and nothing after it runs.               *)
(***************************************************************************)
EXTENDS Naturals, Sequences

CONSTANTS
    Flows,      \* the flows a request may carry
    Nil         \* the value of an unset pointer field

Kinds == {"command", "payload", "webhook", "event"}
FlowKinds == {"payload", "webhook"}
Sources == {"create", "merge", "none"}

VARIABLES
    hpc,          \* step of the handler
    kind,         \* which entry point the request came through
    flow,         \* the flow it carries (payload and webhook)
    temp,         \* the request's temporary directory exists
    i,            \* index of the flow step executeFlow is at
    env,          \* executeFlow's env: 0 (nil) or the step whose input it is
    failed,       \* a step's function has failed (history)
    flowErr,      \* executeFlow returned an error
    errorWritten  \* an error has been written to the response

hvars == <<hpc, kind, flow, temp, i, env, failed, flowErr, errorWritten>>

Steps == [input : BOOLEAN, source : Sources]

TypeOK ==
    /\ hpc \in {"read", "temp", "context", "git", "command", "step", "run",
                "flowret", "done", "crashed"}
    /\ kind \in Kinds
    /\ flow \in Flows
    /\ temp \in BOOLEAN
    /\ i \in 1..(Len(flow.steps) + 1)
    /\ env \in 0..Len(flow.steps)
    /\ failed \in BOOLEAN /\ flowErr \in BOOLEAN /\ errorWritten \in BOOLEAN

ASSUME \A f \in Flows : f.git \in BOOLEAN /\ f.runtimes \in {TRUE, FALSE, Nil}
                        /\ f.steps \in Seq(Steps)

Init ==
    /\ kind \in Kinds
    /\ flow \in Flows
    /\ hpc = IF kind = "event" THEN "temp" ELSE "read"
    /\ temp = FALSE
    /\ i = 1
    /\ env = 0
    /\ failed = FALSE
    /\ flowErr = FALSE
    /\ errorWritten = FALSE

Answer(err) ==
    /\ hpc' = "done"
    /\ errorWritten' = (errorWritten \/ err)

(* A handler reads the request: it goes on, or answers the error.         *)
ReadOrAnswer ==
    /\ hpc = "read"
    /\ \/ /\ hpc' = "temp"
          /\ UNCHANGED errorWritten
       \/ Answer(TRUE)
    /\ UNCHANGED <<kind, flow, temp, i, env, failed, flowErr>>

(* executeCommandHandler reads the request body.                            *)
ReadCommandRequest == kind = "command" /\ ReadOrAnswer

(* executeFlowFromPayloadHandler reads the body and builds the flow from it.*)
ReadPayloadRequest == kind = "payload" /\ ReadOrAnswer

(***************************************************************************)
(* executeWebhookFlowHandler reads the body, parses the push event,       *)
(* fetches the flow spec from the CMDB, builds and validates the flow.    *)
(* Each failure is answered before a temporary directory exists.          *)
(***************************************************************************)
ReadWebhookRequest == kind = "webhook" /\ ReadOrAnswer

(***************************************************************************)
(* core.NewTempDir.  The HTTP handlers answer a failure as an error; the  *)
(* MQTT callback ignores it and goes on with an empty path.               *)
(***************************************************************************)
MakeTempDir ==
    /\ hpc = "temp"
    /\ \/ /\ temp' = TRUE
          /\ hpc' = CASE kind = "command" -> "context"
                      [] kind = "event"   -> "command"
                      [] OTHER            -> "git"
          /\ UNCHANGED errorWritten
       \/ /\ kind = "event"
          /\ hpc' = "command"
          /\ UNCHANGED <<temp, errorWritten>>
       \/ /\ kind # "event"
          /\ Answer(TRUE)
          /\ UNCHANGED temp
    /\ UNCHANGED <<kind, flow, i, env, failed, flowErr>>

(* A failed write of the context answered without removing the directory. *)
WriteContextKeepsDir ==
    /\ hpc = "context"
    /\ \/ /\ hpc' = "command"
          /\ UNCHANGED <<temp, errorWritten>>
       \/ /\ Answer(TRUE)
          /\ UNCHANGED temp
    /\ UNCHANGED <<kind, flow, i, env, failed, flowErr>>

(* executeCommandHandler writes the body to <tmp>/context; on failure the *)
(* directory is removed and the error answered.                            *)
WriteContext ==
    /\ hpc = "context"
    /\ \/ /\ hpc' = "command"
          /\ UNCHANGED <<temp, errorWritten>>
       \/ /\ temp' = FALSE
          /\ Answer(TRUE)
    /\ UNCHANGED <<kind, flow, i, env, failed, flowErr>>

(* gitClone(path, git): PlainClone of the URI (of the branch when one is  *)
(* given, with basic auth when login and password are) into the directory. *)
GitClone == {"ok", "error"}

(***************************************************************************)
(* A flow that requires a git source: the webhook handler first checks    *)
(* the push event's URI and branch against the flow, then gitClone fills  *)
(* the temporary directory.  Every failure removes it and is answered.    *)
(***************************************************************************)
GitSource ==
    /\ hpc = "git"
    /\ \E r \in IF flow.git THEN GitClone \cup {"error"} ELSE {"ok"} :
          \/ /\ r = "ok"
             /\ hpc' = "step"
             /\ UNCHANGED <<temp, errorWritten>>
          \/ /\ r = "error"
             /\ temp' = FALSE
             /\ Answer(TRUE)
    /\ UNCHANGED <<kind, flow, i, env, failed, flowErr>>

(***************************************************************************)
(* executeCommand, then the rest of the handler that called it.  A        *)
(* command that cannot be fetched, or is missing, is returned without     *)
(* removing the path; a failure of the `art exe` process and a success    *)
(* both remove it.  executeCommandHandler answers an error and removes    *)
(* the path again; eventMessageHandler logs the error and removes it.     *)
(***************************************************************************)
ExecuteCommand ==
    /\ hpc = "command"
    /\ temp' = FALSE
    /\ \E err \in BOOLEAN : Answer(err /\ kind = "command")
    /\ UNCHANGED <<kind, flow, i, env, failed, flowErr>>

(* A step whose package cannot be prepared returns its error without      *)
(* writing it to the response.                                             *)
PrepareStepUnreported ==
    LET s == flow.steps[i] IN
    /\ hpc = "step"
    /\ i <= Len(flow.steps)
    /\ env' = IF s.input THEN i ELSE env
    /\ \/ /\ s.source = "none"
          /\ hpc' = "run"
          /\ UNCHANGED <<flowErr, errorWritten>>
       \/ /\ s.source \in {"create", "merge"}
          /\ ~s.input
          /\ hpc' = "crashed"
          /\ UNCHANGED <<flowErr, errorWritten>>
       \/ /\ s.source \in {"create", "merge"}
          /\ \/ s.input
             \/ s.source = "create"
          /\ hpc' = "flowret"
          /\ flowErr' = TRUE
          /\ UNCHANGED errorWritten
       \/ /\ s.source \in {"create", "merge"}
          /\ s.input
          /\ hpc' = "run"
          /\ UNCHANGED <<flowErr, errorWritten>>
    /\ UNCHANGED <<kind, flow, temp, i, failed>>

(* env taken from the step after the one whose input is read.            *)
PrepareStepEnvOffByOne ==
    LET s == flow.steps[i] IN
    /\ hpc = "step"
    /\ i <= Len(flow.steps)
    /\ env' = IF s.input THEN i + 1 ELSE env
    /\ \/ /\ s.source = "none"
          /\ hpc' = "run"
          /\ UNCHANGED <<flowErr, errorWritten>>
       \/ /\ s.source \in {"create", "merge"}
          /\ ~s.input
          /\ hpc' = "crashed"
          /\ UNCHANGED <<flowErr, errorWritten>>
       \/ /\ s.source \in {"create", "merge"}
          /\ \/ s.input
             \/ s.source = "create"
          /\ hpc' = "flowret"
          /\ flowErr' = TRUE
          /\ errorWritten' = TRUE
       \/ /\ s.source \in {"create", "merge"}
          /\ s.input
          /\ hpc' = "run"
          /\ UNCHANGED <<flowErr, errorWritten>>
    /\ UNCHANGED <<kind, flow, temp, i, failed>>

(* deleteFolderContents: RemoveAll of every entry of the directory,      *)
(* returning at the first error.                                           *)
DeleteFolderContents == {"ok", "error"}

(* getCredentials(env): env.Vars of a nil env is a nil dereference; a      *)
(* missing ART_REG_USER or ART_REG_PWD is an error.                        *)
GetCredentials(hasEnv) == IF hasEnv THEN {"ok", "error"} ELSE {"panic"}

(***************************************************************************)
(* openArtisanPackage(path, step): the credentials come from the step's   *)
(* own input; their error is overwritten by that of `art open`, so a      *)
(* missing user or password is not reported as such.                       *)
(***************************************************************************)
OpenArtisanPackage(s) ==
    IF GetCredentials(s.input) = {"panic"} THEN {"panic"} ELSE {"ok", "error"}

(* The preparation of a step's package: "create" clears the directory     *)
(* (returning on an error) and then opens the package, "merge" opens it.  *)
Prepared(s) ==
    (IF s.source = "create" THEN DeleteFolderContents \ {"ok"} ELSE {})
    \cup (IF s.source = "none" THEN {"ok"} ELSE OpenArtisanPackage(s))

(***************************************************************************)
(* executeFlow, before a step's function runs: env becomes the step's     *)
(* input when it declares one and is otherwise left as the previous step  *)
(* set it; then the package is prepared.  A failure is written to the     *)
(* response and returned.                                                  *)
(***************************************************************************)
PrepareStep ==
    LET s == flow.steps[i] IN
    /\ hpc = "step"
    /\ i <= Len(flow.steps)
    /\ env' = IF s.input THEN i ELSE env
    /\ \E r \in Prepared(s) :
          \/ /\ r = "ok"
             /\ hpc' = "run"
             /\ UNCHANGED <<flowErr, errorWritten>>
          \/ /\ r = "panic"
             /\ hpc' = "crashed"
             /\ UNCHANGED <<flowErr, errorWritten>>
          \/ /\ r = "error"
             /\ hpc' = "flowret"
             /\ flowErr' = TRUE
             /\ errorWritten' = TRUE
    /\ UNCHANGED <<kind, flow, temp, i, failed>>

(***************************************************************************)
(* getRunFx of f.UseRuntimes and the function it returns: an unset         *)
(* UseRuntimes is a nil dereference; through a runtime a failure is       *)
(* written to the response and returned; in process (Builder.Run) the     *)
(* error is dropped and the next step runs.                                *)
(***************************************************************************)
RunStep ==
    /\ hpc = "run"
    /\ \/ /\ flow.runtimes = Nil
          /\ hpc' = "crashed"
          /\ UNCHANGED <<i, failed, flowErr, errorWritten>>
       \/ /\ flow.runtimes = TRUE
          /\ hpc' = "step"
          /\ i' = i + 1
          /\ UNCHANGED <<failed, flowErr, errorWritten>>
       \/ /\ flow.runtimes = TRUE
          /\ hpc' = "flowret"
          /\ failed' = TRUE
          /\ flowErr' = TRUE
          /\ errorWritten' = TRUE
          /\ UNCHANGED i
       \/ /\ flow.runtimes = FALSE
          /\ hpc' = "step"
          /\ i' = i + 1
          /\ \E ok \in BOOLEAN : failed' = (failed \/ ~ok)
          /\ UNCHANGED <<flowErr, errorWritten>>
    /\ UNCHANGED <<kind, flow, temp, env>>

(* executeFlow has run every step and returns nil.                         *)
EndFlow ==
    /\ hpc = "step"
    /\ i > Len(flow.steps)
    /\ hpc' = "flowret"
    /\ UNCHANGED <<kind, flow, temp, i, env, failed, flowErr, errorWritten>>

(* executeFlowFromPayloadHandler after executeFlow: its error is answered *)
(* and the directory removed; on success the directory is removed.         *)
PayloadReturn ==
    /\ hpc = "flowret"
    /\ kind = "payload"
    /\ temp' = FALSE
    /\ Answer(flowErr)
    /\ UNCHANGED <<kind, flow, i, env, failed, flowErr>>

(***************************************************************************)
(* executeWebhookFlowHandler after executeFlow: the result is dropped and *)
(* the err of the handler's last successful call (nil) is checked         *)
(* instead; the directory is removed.                                      *)
(***************************************************************************)
WebhookReturn ==
    /\ hpc = "flowret"
    /\ kind = "webhook"
    /\ temp' = FALSE
    /\ Answer(FALSE)
    /\ UNCHANGED <<kind, flow, i, env, failed, flowErr>>

HandlerStep ==
    \/ ReadCommandRequest
    \/ ReadPayloadRequest
    \/ ReadWebhookRequest
    \/ MakeTempDir
    \/ WriteContext
    \/ GitSource
    \/ ExecuteCommand
    \/ PrepareStep
    \/ RunStep
    \/ EndFlow
    \/ PayloadReturn
    \/ WebhookReturn

(* A request ends when its handler returns or panics.                      *)
Spec == Init /\ [][HandlerStep]_hvars /\ WF_hvars(HandlerStep)

(***************************************************************************)
(* Properties                                                              *)
(***************************************************************************)

(* Every handler that returns has removed the request's temporary         *)
(* directory, on each of its error paths and on success, including the    *)
(* paths where executeCommand returns before removing it itself.          *)
TempRemovedOnReturn == hpc = "done" => ~temp

(* A flow request answered without an error ran every step of its flow:   *)
(* executeFlow writes each error it returns to the response, so the       *)
(* webhook handler dropping that error does not turn a cut-short flow     *)
(* into a success.                                                         *)
OkMeansFlowRan ==
    hpc = "done" /\ ~errorWritten /\ kind \in FlowKinds => i > Len(flow.steps)

(* The comment on executeFlow: any error is returned and also posted into *)
(* the HTTP response, so a flow in which a step's function failed is not  *)
(* answered as a success.                                                  *)
FailedStepReported == hpc = "done" /\ failed => errorWritten

=============================================================================
