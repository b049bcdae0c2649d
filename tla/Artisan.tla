------------------------------ MODULE Artisan -------------------------------
(***************************************************************************)
(* Builds and package executions running side by side on one host, the    *)
(* way the host runner's HTTP and MQTT handlers start them: every Build    *)
(* and every Execute (artisan/build/builder.go) is its own process, and    *)
(* the only state they share is the local registry.  Whoever can write     *)
(* the registry directory may also alter a stored archive or seal.         *)
(*                                                                         *)
(* Execute opens the package into a fresh run path (Open verifies the      *)
(* digest before extracting), then reads the package seal from the         *)
(* registry a second time, checks the build OS and that the function is    *)
(* exported, runs it from the extracted build file, removes the run path   *)
(* unless asked to keep it, and calls the post-run hook.                   *)
(***************************************************************************)
EXTENDS Build

CONSTANTS
    Executors,   \* Execute invocations
    ExecName,    \* [Executors -> the package name to execute]
    ExecFx,      \* [Executors -> the function to run]
    ExecOS       \* runtime.GOOS of the executing host

VARIABLES
    epc,         \* [Executors -> step of Execute]
    preserve,    \* [Executors -> the preserveFiles argument]
    extracted,   \* [Executors -> archive and manifest Open verified and extracted]
    eseal,       \* [Executors -> the manifest of the seal read by GetSeal]
    ran,         \* [Executors -> the function run and the archive it came from]
    runDir       \* executors whose run path holds extracted files

execVars == <<epc, preserve, extracted, eseal, ran, runDir>>
allVars == <<vars, execVars>>

ExecSteps == {"open", "seal", "check", "run", "finish"}

SystemTypeOK ==
    /\ TypeOK
    /\ epc \in [Executors -> ExecSteps \cup Terminal]
    /\ preserve \in [Executors -> BOOLEAN]
    /\ extracted \in [Executors -> {None} \cup [archive : ArchiveSet,
                                                  manifest : ManifestSet]]
    /\ eseal \in [Executors -> {None} \cup ManifestSet]
    /\ ran \in [Executors -> {None} \cup [fx : FxNames, archive : ArchiveSet]]
    /\ runDir \subseteq Executors

ExecInit ==
    /\ epc = [e \in Executors |-> "open"]
    /\ preserve \in [Executors -> BOOLEAN]
    /\ extracted = [e \in Executors |-> None]
    /\ eseal = [e \in Executors |-> None]
    /\ ran = [e \in Executors |-> None]
    /\ runDir = {}

SystemInit == Init /\ ExecInit

(***************************************************************************)
(* LocalRegistry.Open (not under src/, modelled from section 4.6 of the   *)
(* specification), called by Execute into a fresh random run path.  Open *)
(* returns no error to Execute: a missing package or a digest that does   *)
(* not verify ends the process before anything is extracted.              *)
(***************************************************************************)
Open(e) ==
    LET entry == registry[ExecName[e]] IN
    /\ epc[e] = "open"
    /\ \/ /\ entry = NoEntry
          /\ epc' = [epc EXCEPT ![e] = "exited"]
          /\ UNCHANGED <<extracted, runDir>>
       \/ /\ entry # NoEntry
          /\ ~Verifies(entry)
          /\ epc' = [epc EXCEPT ![e] = "exited"]
          /\ UNCHANGED <<extracted, runDir>>
       \/ /\ entry # NoEntry
          /\ Verifies(entry)
          /\ extracted' = [extracted EXCEPT ![e] =
                [archive |-> entry.archive, manifest |-> entry.seal.manifest]]
          /\ runDir' = runDir \cup {e}
          /\ epc' = [epc EXCEPT ![e] = "seal"]
    /\ UNCHANGED <<preserve, eseal, ran>>

(***************************************************************************)
(* Execute: FindPackageByName and GetSeal read the registry again after   *)
(* Open; a seal that cannot be read is an error returned to the caller.   *)
(***************************************************************************)
GetSeal(e) ==
    /\ epc[e] = "seal"
    /\ \/ /\ eseal' = [eseal EXCEPT ![e] = registry[ExecName[e]].seal.manifest]
          /\ epc' = [epc EXCEPT ![e] = "check"]
       \/ /\ epc' = [epc EXCEPT ![e] = "error"]
          /\ UNCHANGED eseal
    /\ UNCHANGED <<preserve, extracted, ran, runDir>>

(***************************************************************************)
(* Execute: on Windows a package built on another OS ends the process     *)
(* (core.RaiseErr); a function the seal does not list as exported is an   *)
(* error returned to the caller.                                           *)
(***************************************************************************)
CheckFunction(e) ==
    LET m == eseal[e]
        mismatch == ExecOS = "windows" /\ m.os # "windows"
    IN
    /\ epc[e] = "check"
    /\ \/ /\ mismatch
          /\ epc' = [epc EXCEPT ![e] = "exited"]
       \/ /\ ~mismatch
          /\ ExecFx[e] \notin m.exports
          /\ epc' = [epc EXCEPT ![e] = "error"]
       \/ /\ ~mismatch
          /\ ExecFx[e] \in m.exports
          /\ epc' = [epc EXCEPT ![e] = "run"]
    /\ UNCHANGED <<preserve, extracted, eseal, ran, runDir>>

(***************************************************************************)
(* Builder.Run on the run path: the build file is loaded from the         *)
(* extracted files and runFunction runs the function it defines there.    *)
(* A missing build file or function, or a failing statement, is an error  *)
(* returned by Execute before the run path is removed.                     *)
(***************************************************************************)
RunExtracted(e) ==
    LET archive == extracted[e].archive IN
    /\ epc[e] = "run"
    /\ \/ /\ ExecFx[e] \in archive.fxs
          /\ ran' = [ran EXCEPT ![e] = [fx |-> ExecFx[e], archive |-> archive]]
          /\ \E outcome \in {"finish", "error"} :
                epc' = [epc EXCEPT ![e] = outcome]
       \/ /\ ExecFx[e] \notin archive.fxs
          /\ epc' = [epc EXCEPT ![e] = "error"]
          /\ UNCHANGED ran
    /\ UNCHANGED <<preserve, extracted, eseal, runDir>>

(***************************************************************************)
(* Execute after a successful run: os.RemoveAll of the run path unless    *)
(* preserveFiles, then the post-run hook, whose error is returned.        *)
(***************************************************************************)
FinishExecute(e) ==
    /\ epc[e] = "finish"
    /\ runDir' = IF preserve[e] THEN runDir ELSE runDir \ {e}
    /\ \E outcome \in {"done", "error"} : epc' = [epc EXCEPT ![e] = outcome]
    /\ UNCHANGED <<preserve, extracted, eseal, ran>>

ExecutorStep(e) ==
    \/ Open(e)
    \/ GetSeal(e)
    \/ CheckFunction(e)
    \/ RunExtracted(e)
    \/ FinishExecute(e)

(***************************************************************************)
(* Someone with write access to the registry directory edits a stored     *)
(* archive (adding a function to its build file) or a stored seal         *)
(* (exporting every function), without recomputing the digest.            *)
(***************************************************************************)
TamperArchive(n) ==
    /\ registry[n] # NoEntry
    /\ registry' = [registry EXCEPT ![n].archive.fxs = FxNames]
    /\ UNCHANGED <<pc, src, commit, uid, profileName, selected, stack,
                   profileRef, target, polls, sealOf, ok, tmp, now>>

TamperSeal(n) ==
    /\ registry[n] # NoEntry
    /\ registry' = [registry EXCEPT ![n].seal.manifest.exports = FxNames]
    /\ UNCHANGED <<pc, src, commit, uid, profileName, selected, stack,
                   profileRef, target, polls, sealOf, ok, tmp, now>>

BuilderMove(b) == BuilderStep(b) /\ UNCHANGED execVars

ExecutorMove(e) == ExecutorStep(e) /\ UNCHANGED vars

SystemNext ==
    \/ Next /\ UNCHANGED execVars
    \/ \E n \in Names : (TamperArchive(n) \/ TamperSeal(n)) /\ UNCHANGED execVars
    \/ \E e \in Executors : ExecutorMove(e)

(* Each build and each execution is a process of its own that the        *)
(* scheduler keeps running; nothing is fair about the clock, the tools    *)
(* writing targets or the edits of the registry.                          *)
SystemSpec ==
    /\ SystemInit /\ [][SystemNext]_allVars
    /\ \A b \in Builders : WF_allVars(BuilderMove(b))
    /\ \A e \in Executors : WF_allVars(ExecutorMove(e))

(***************************************************************************)
(* Properties                                                              *)
(***************************************************************************)

(* Sections 4.7 and 8 of the specification: Execute runs only a function  *)
(* that the verified manifest of the package it opened exports.           *)
RunsOnlyExported ==
    \A e \in Executors : ran[e] # None =>
        ran[e].fx \in extracted[e].manifest.exports

=============================================================================
