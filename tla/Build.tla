------------------------------- MODULE Build --------------------------------
(***************************************************************************)
(* Builder.Build (artisan/build/builder.go): one build invocation per      *)
(* builder process.  A build prepares the source, names the package after  *)
(* the clock and the head commit, runs a profile of the build file         *)
(* (runProfile), whose statements may call functions (runFunction,         *)
(* recursively, without cycle detection), waits for the profile target,   *)
(* zips it, seals it and adds it to the local registry shared by all       *)
(* builders, then removes its temporary working directory.                 *)
(*                                                                         *)
(* Data is abstracted: a statement is a shell command, a command with a    *)
(* subshell capture, or a function call; its output is not modelled, only  *)
(* whether it succeeds and whether it writes the build target.  The        *)
(* environment tables are left out; the only builder variable that        *)
(* matters here, ARTISAN_REF, is kept per call frame.                      *)
(***************************************************************************)
EXTENDS Naturals, Sequences, FiniteSets, Registry

CONSTANTS
    Builders,           \* builder processes, one Build invocation each
    Names,              \* package names
    PkgName,            \* [Builders -> Names]: the name each builder tags
    Profiles,           \* the build file's profiles, in declared order
    Functions,          \* [defined function names -> Seq(statement)]
    FxNames,            \* every function name a statement may call
    Requests,           \* profile names a caller may request (None: none)
    Sources,            \* the kinds of source a build may be started from
    NestedFxs,          \* [Builders -> SUBSET FxNames]: functions the target's build.yaml defines
    NestedExports,      \* [Builders -> SUBSET FxNames]: the ones it exports
    ManifestEnvSubshell,\* the build file env holds a subshell capture
    StackLimit,         \* frames before the goroutine stack overflows
    MaxPolls,           \* retries of the wait for the target
    MaxTime,            \* bound of the clock
    Clock,              \* [0..MaxTime -> [sec, ns]]: time.Now() at each tick
    BuildOS,            \* [Builders -> runtime.GOOS of the building host]
    None

ASSUME StackLimit \in Nat \ {0} /\ MaxPolls \in Nat /\ MaxTime \in Nat
ASSUME Clock \in [0..MaxTime -> [sec : Nat, ns : 0..999999999]]
ASSUME \A b \in Builders : NestedExports[b] \subseteq NestedFxs[b]

VARIABLES
    pc,          \* [Builders -> step of Build]
    src,         \* [Builders -> the source the build was started from]
    commit,      \* [Builders -> b.commit]
    uid,         \* [Builders -> b.uniqueIdName, <<time, short hash>>]
    profileName, \* [Builders -> the profileName argument of runProfile]
    selected,    \* [Builders -> index of the profile being run, 0 before]
    stack,       \* [Builders -> call frames of runProfile/runFunction]
    profileRef,  \* [Builders -> ARTISAN_REF in the profile's build env]
    target,      \* [Builders -> "absent" | "pending" | "present"]
    polls,       \* [Builders -> polls made while waiting for the target]
    sealOf,      \* [Builders -> the package seal, None before createSeal]
    ok,          \* [Builders -> no statement has failed] (history)
    tmp,         \* builders whose temporary working directory exists
    registry,    \* [Names -> registry entry or NoEntry], shared
    now          \* the clock read by setUniqueIdName

vars == <<pc, src, commit, uid, profileName, selected, stack, profileRef,
          target, polls, sealOf, ok, tmp, registry, now>>

Terminal == {"done", "error", "exited"}
StmtKinds == {"shell", "capture", "call"}
SourceKinds == {"http", "local", "copy"}
OSes == {"linux", "windows"}

ASSUME \A s \in Sources : s.kind \in SourceKinds /\ s.git \in BOOLEAN
                          /\ s.commits \in BOOLEAN

(***************************************************************************)
(* Helpers                                                                 *)
(***************************************************************************)

(* cloneRepo / openRepo: a repository object exists when the source has   *)
(* git metadata; openRepo discards the error of findGitPath/PlainOpen and *)
(* returns nil otherwise.                                                  *)
Repo(b) == src[b].git

(* strconv.Itoa: the decimal digits of a natural number, most significant *)
(* first.                                                                  *)
RECURSIVE Itoa(_)
Itoa(n) == IF n < 10 THEN <<n>> ELSE Append(Itoa(n \div 10), n % 10)

(* The slice [:3] of the nanosecond digits is out of range, a panic, when *)
(* the nanosecond field has fewer than three digits.                       *)
StampPanics == Len(Itoa(Clock[now].ns)) < 3

(* The timestamp: the fields down to the second, then the first three     *)
(* digits of the nanosecond field, which are milliseconds only when that  *)
(* field has nine digits.                                                  *)
TimeStamp(t) == <<Clock[t].sec, SubSeq(Itoa(Clock[t].ns), 1, 3)>>

(* setUniqueIdName: the timestamp and, when there is a repository, the    *)
(* short hash of its head commit.                                          *)
UniqueIdName(b) == <<TimeStamp(now), IF Repo(b) THEN "head" ELSE "">>

(* BuildFile.DefaultProfile and the fallback of runProfile to the first   *)
(* profile when none is flagged default.                                   *)
DefaultOrFirst ==
    LET defaults == {i \in 1..Len(Profiles) : Profiles[i].default}
    IN  IF defaults = {} THEN 1
        ELSE CHOOSE i \in defaults : \A j \in defaults : i <= j

(* The loop of runProfile over the profiles: the first one whose name is  *)
(* the requested one, 0 when none is.                                      *)
FirstNamed(name) ==
    LET hits == {i \in 1..Len(Profiles) : Profiles[i].name = name}
    IN  IF hits = {} THEN 0 ELSE CHOOSE i \in hits : \A j \in hits : i <= j

Top(b) == stack[b][Len(stack[b])]

(* The statements of a frame: the selected profile's run list for the     *)
(* bottom frame, the function's run list otherwise.                        *)
Body(b, fr) == IF fr.fx = None THEN Profiles[selected[b]].run
               ELSE Functions[fr.fx]

Current(b) == Body(b, Top(b))[Top(b).i + 1]

InProfile(b) == Len(stack[b]) = 1

NextStmt(s) == [s EXCEPT ![Len(s)].i = @ + 1]

(* What a successful statement may do to the target: leave it, write it,  *)
(* or start a tool that writes it after the statement has returned.        *)
TargetEffects(t) == IF t = "absent" THEN {"absent", "present", "pending"}
                    ELSE {t}

(* zipPackage: the archive of the target folder.  Its content is named by *)
(* the builder that produced it and the functions its build.yaml defines. *)
Archive(b) == [from |-> b, fxs |-> NestedFxs[b]]

(* createSeal looks for a build.yaml in path.Join(b.from, MergedTarget):  *)
(* b.from is the URL for a remote source and the original tree for a copy *)
(* build, so only a build in place finds the target's build file; a copy  *)
(* build finds it only if the original tree holds the target as well.     *)
SealExports(b) ==
    CASE src[b].kind = "local" -> {NestedExports[b]}
      [] src[b].kind = "copy"  -> {NestedExports[b], {}}
      [] src[b].kind = "http"  -> {{}}

(* The package manifest createSeal fills in.                               *)
SealManifest(b, exports) ==
    [ref |-> uid[b], commit |-> commit[b], os |-> BuildOS[b],
     profile |-> Profiles[selected[b]].name, exports |-> exports]

Exit(b) == pc' = [pc EXCEPT ![b] = "exited"]

Fail(b) == pc' = [pc EXCEPT ![b] = "error"]

Refs == {TimeStamp(t) : t \in {u \in 0..MaxTime : Len(Itoa(Clock[u].ns)) >= 3}}
        \X {"", "head"}
ProfileNames == {Profiles[i].name : i \in 1..Len(Profiles)}
ManifestSet == [ref : Refs, commit : {"", "head"}, os : OSes,
                profile : ProfileNames, exports : SUBSET FxNames]
ArchiveSet == [from : Builders, fxs : SUBSET FxNames]
Frame == [fx : FxNames \cup {None}, i : Nat, ref : Refs]

TypeOK ==
    /\ pc \in [Builders -> {"prepare", "setref", "profile", "run", "target",
                            "wait", "zip", "add", "unwind"} \cup Terminal]
    /\ src \in [Builders -> Sources]
    /\ commit \in [Builders -> {"", "head"}]
    /\ uid \in [Builders -> Refs \cup {None}]
    /\ profileName \in [Builders -> Requests \cup ProfileNames]
    /\ selected \in [Builders -> 0..Len(Profiles)]
    /\ \A b \in Builders : stack[b] \in Seq(Frame) /\ Len(stack[b]) <= StackLimit
    /\ profileRef \in [Builders -> Refs \cup {None}]
    /\ target \in [Builders -> {"absent", "pending", "present"}]
    /\ polls \in [Builders -> 0..MaxPolls]
    /\ \A b \in Builders : sealOf[b] = None \/ sealOf[b].manifest \in ManifestSet
    /\ ok \in [Builders -> BOOLEAN]
    /\ tmp \subseteq Builders
    /\ \A n \in Names : registry[n] = NoEntry
                        \/ /\ registry[n].archive \in ArchiveSet
                           /\ registry[n].seal.manifest \in ManifestSet
    /\ now \in 0..MaxTime

(***************************************************************************)
(* Initial state: each builder about to run Build with some source and    *)
(* some requested profile.                                                 *)
(***************************************************************************)
Init ==
    /\ pc = [b \in Builders |-> "prepare"]
    /\ src \in [Builders -> Sources]
    /\ commit = [b \in Builders |-> ""]
    /\ uid = [b \in Builders |-> None]
    /\ profileName \in [Builders -> Requests]
    /\ selected = [b \in Builders |-> 0]
    /\ stack = [b \in Builders |-> <<>>]
    /\ profileRef = [b \in Builders |-> None]
    /\ target = [b \in Builders |-> "absent"]
    /\ polls = [b \in Builders |-> 0]
    /\ sealOf = [b \in Builders |-> None]
    /\ ok = [b \in Builders |-> TRUE]
    /\ tmp = {}
    /\ registry = [n \in Names |-> NoEntry]
    /\ now = 0

(***************************************************************************)
(* prepareSource: newWorkingDir creates the temporary working directory,  *)
(* then the source is cloned, copied or opened in place and the build     *)
(* file is loaded from it.  A failed clone removes the working directory  *)
(* before log.Fatal; a failed copy (log.Fatal) and a build file that      *)
(* cannot be loaded (core.CheckErr) end the process and leave it.         *)
(***************************************************************************)
PrepareSource(b) ==
    /\ pc[b] = "prepare"
    /\ \/ /\ pc' = [pc EXCEPT ![b] = "setref"]
          /\ tmp' = tmp \cup {b}
       \/ /\ src[b].kind = "http"
          /\ Exit(b)
          /\ UNCHANGED tmp
       \/ /\ src[b].kind = "copy"
          /\ Exit(b)
          /\ tmp' = tmp \cup {b}
       \/ /\ Exit(b)
          /\ tmp' = tmp \cup {b}
    /\ UNCHANGED <<src, commit, uid, profileName, selected, stack, profileRef,
                   target, polls, sealOf, ok, registry, now>>

(***************************************************************************)
(* setUniqueIdName, called by Build: a repository without a head commit   *)
(* ends the process (core.RaiseErr); without a repository the name has no *)
(* hash and b.commit keeps its value.  The timestamp is taken after the    *)
(* commit: a nanosecond field below 100 panics there.                     *)
(***************************************************************************)
SetUniqueIdName(b) ==
    /\ pc[b] = "setref"
    /\ \/ /\ Repo(b) /\ ~src[b].commits
          /\ Exit(b)
          /\ UNCHANGED <<commit, uid>>
       \/ /\ ~Repo(b) \/ src[b].commits
          /\ commit' = [commit EXCEPT ![b] = IF Repo(b) THEN "head" ELSE @]
          /\ \/ /\ StampPanics
                /\ Exit(b)
                /\ UNCHANGED uid
             \/ /\ ~StampPanics
                /\ uid' = [uid EXCEPT ![b] = UniqueIdName(b)]
                /\ pc' = [pc EXCEPT ![b] = "profile"]
    /\ UNCHANGED <<src, profileName, selected, stack, profileRef, target,
                   polls, sealOf, ok, tmp, registry, now>>

(***************************************************************************)
(* runProfile: the build file env is evaluated (a failing subshell ends   *)
(* the process through core.CheckErr), a build file without profiles ends *)
(* it too (core.RaiseErr), then the profiles are scanned.                 *)
(* Without a requested name runProfile calls itself with the default, or  *)
(* first, profile's name, evaluating the build file env again.  A named   *)
(* profile is entered with its own env evaluated and the builder          *)
(* variables, ARTISAN_REF among them, added; a name no profile has is an  *)
(* error returned to Build.                                                *)
(***************************************************************************)
RunProfile(b) ==
    /\ pc[b] = "profile"
    /\ \/ /\ ManifestEnvSubshell \/ Profiles = <<>>
          /\ Exit(b)
          /\ UNCHANGED <<profileName, selected, stack, profileRef>>
       \/ /\ Profiles # <<>>
          /\ profileName[b] = None
          /\ profileName' = [profileName EXCEPT ![b] = Profiles[DefaultOrFirst].name]
          /\ UNCHANGED <<pc, selected, stack, profileRef>>
       \/ /\ profileName[b] # None
          /\ FirstNamed(profileName[b]) = 0
          /\ Fail(b)
          /\ UNCHANGED <<profileName, selected, stack, profileRef>>
       \/ /\ profileName[b] # None
          /\ FirstNamed(profileName[b]) # 0
          /\ Profiles[FirstNamed(profileName[b])].envsub
          /\ Exit(b)
          /\ UNCHANGED <<profileName, selected, stack, profileRef>>
       \/ /\ profileName[b] # None
          /\ FirstNamed(profileName[b]) # 0
          /\ selected' = [selected EXCEPT ![b] = FirstNamed(profileName[b])]
          /\ stack' = [stack EXCEPT ![b] = <<[fx |-> None, i |-> 0, ref |-> uid[b]]>>]
          /\ profileRef' = [profileRef EXCEPT ![b] = uid[b]]
          /\ pc' = [pc EXCEPT ![b] = "run"]
          /\ UNCHANGED profileName
    /\ UNCHANGED <<src, commit, uid, target, polls, sealOf, ok, tmp, registry, now>>

(***************************************************************************)
(* A run statement of the top frame that is a shell command or carries a  *)
(* subshell capture ($(...)) and succeeds: the next statement follows.    *)
(* It may write the target, or start a tool that writes it later.         *)
(***************************************************************************)
ExecuteStatement(b) ==
    /\ pc[b] = "run"
    /\ Top(b).i < Len(Body(b, Top(b)))
    /\ Current(b).kind \in {"shell", "capture"}
    /\ stack' = [stack EXCEPT ![b] = NextStmt(@)]
    /\ \E t \in TargetEffects(target[b]) : target' = [target EXCEPT ![b] = t]
    /\ UNCHANGED <<pc, src, commit, uid, profileName, selected, profileRef,
                   polls, sealOf, ok, tmp, registry, now>>

(***************************************************************************)
(* A statement that fails.  A failing subshell capture of the profile     *)
(* goes through core.CheckErr and ends the process; every other failure  *)
(* is an error the frame returns: runFunction for its commands and        *)
(* captures, runProfile for a plain command.  Nothing after it runs.      *)
(***************************************************************************)
StatementFails(b) ==
    /\ pc[b] = "run"
    /\ Top(b).i < Len(Body(b, Top(b)))
    /\ Current(b).kind \in {"shell", "capture"}
    /\ ok' = [ok EXCEPT ![b] = FALSE]
    /\ IF Current(b).kind = "capture" /\ InProfile(b)
          THEN Exit(b)
          ELSE pc' = [pc EXCEPT ![b] = "unwind"]
    /\ UNCHANGED <<src, commit, uid, profileName, selected, stack, profileRef,
                   target, polls, sealOf, tmp, registry, now>>

(* runProfile dropping the error runFunction returns and going on with the *)
(* profile's next statement.                                                *)
ReturnErrorDropped(b) ==
    /\ pc[b] = "unwind"
    /\ \/ /\ InProfile(b)
          /\ Fail(b)
          /\ UNCHANGED stack
       \/ /\ Len(stack[b]) = 2
          /\ stack' = [stack EXCEPT ![b] = NextStmt(SubSeq(@, 1, 1))]
          /\ pc' = [pc EXCEPT ![b] = "run"]
       \/ /\ Len(stack[b]) > 2
          /\ stack' = [stack EXCEPT ![b] = SubSeq(@, 1, Len(@) - 1)]
          /\ UNCHANGED pc
    /\ UNCHANGED <<src, commit, uid, profileName, selected, profileRef, target,
                   polls, sealOf, ok, tmp, registry, now>>

(***************************************************************************)
(* The error travels up the call chain one frame at a time: a call        *)
(* statement of runFunction returns runFunction's error (403-405), one of  *)
(* runProfile returns it with a nil profile (460-462), and Build returns  *)
(* runProfile's error (76-77).                                              *)
(***************************************************************************)
ReturnError(b) ==
    /\ pc[b] = "unwind"
    /\ \/ /\ InProfile(b)
          /\ Fail(b)
          /\ UNCHANGED stack
       \/ /\ ~InProfile(b)
          /\ stack' = [stack EXCEPT ![b] = SubSeq(@, 1, Len(@) - 1)]
          /\ UNCHANGED pc
    /\ UNCHANGED <<src, commit, uid, profileName, selected, profileRef, target,
                   polls, sealOf, ok, tmp, registry, now>>

(***************************************************************************)
(* A statement that is a function call: runFunction is entered.  An       *)
(* unknown function is an error returned up the call chain; otherwise     *)
(* runFunction calls setUniqueIdName again, evaluates the build file and  *)
(* function env (a failing subshell ends the process) and builds its own  *)
(* env, ARTISAN_REF taken from the new unique name.  Recursion has no     *)
(* depth bound in the code: past StackLimit frames the goroutine stack    *)
(* overflows and the runtime ends the process.                             *)
(***************************************************************************)
CallFunction(b) ==
    /\ pc[b] = "run"
    /\ Top(b).i < Len(Body(b, Top(b)))
    /\ Current(b).kind = "call"
    /\ \/ /\ Len(stack[b]) = StackLimit
          /\ Exit(b)
          /\ UNCHANGED <<uid, stack, ok>>
       \/ /\ Len(stack[b]) < StackLimit
          /\ Current(b).fx \notin DOMAIN Functions
          /\ pc' = [pc EXCEPT ![b] = "unwind"]
          /\ ok' = [ok EXCEPT ![b] = FALSE]
          /\ UNCHANGED <<uid, stack>>
       \/ /\ Len(stack[b]) < StackLimit
          /\ Current(b).fx \in DOMAIN Functions
          /\ ManifestEnvSubshell
          /\ ~StampPanics
          /\ Exit(b)
          /\ UNCHANGED <<uid, stack, ok>>
       \/ /\ Len(stack[b]) < StackLimit
          /\ Current(b).fx \in DOMAIN Functions
          /\ StampPanics
          /\ Exit(b)
          /\ UNCHANGED <<uid, stack, ok>>
       \/ /\ Len(stack[b]) < StackLimit
          /\ Current(b).fx \in DOMAIN Functions
          /\ ~StampPanics
          /\ uid' = [uid EXCEPT ![b] = UniqueIdName(b)]
          /\ stack' = [stack EXCEPT ![b] =
                Append(@, [fx |-> Current(b).fx, i |-> 0, ref |-> UniqueIdName(b)])]
          /\ UNCHANGED <<pc, ok>>
    /\ UNCHANGED <<src, commit, profileName, selected, profileRef, target,
                   polls, sealOf, tmp, registry, now>>

(***************************************************************************)
(* The top frame has run all its statements: runFunction returns nil and  *)
(* the caller moves past the call, or runProfile returns the profile to   *)
(* Build.                                                                  *)
(***************************************************************************)
ReturnFrame(b) ==
    /\ pc[b] = "run"
    /\ Top(b).i = Len(Body(b, Top(b)))
    /\ \/ /\ InProfile(b)
          /\ stack' = [stack EXCEPT ![b] = <<>>]
          /\ pc' = [pc EXCEPT ![b] = "target"]
       \/ /\ ~InProfile(b)
          /\ stack' = [stack EXCEPT ![b] = NextStmt(SubSeq(@, 1, Len(@) - 1))]
          /\ UNCHANGED pc
    /\ UNCHANGED <<src, commit, uid, profileName, selected, profileRef, target,
                   polls, sealOf, ok, tmp, registry, now>>

(***************************************************************************)
(* Build merges the env into the profile target and reads its first       *)
(* character (workingTarget[0]): a profile without a target panics with   *)
(* an index out of range.                                                  *)
(***************************************************************************)
MergeTarget(b) ==
    /\ pc[b] = "target"
    /\ IF Profiles[selected[b]].target
          THEN pc' = [pc EXCEPT ![b] = "wait"]
          ELSE Exit(b)
    /\ UNCHANGED <<src, commit, uid, profileName, selected, stack, profileRef,
                   target, polls, sealOf, ok, tmp, registry, now>>

(***************************************************************************)
(* waitForTargetToBeCreated (not under src/, modelled from section 4.3.5  *)
(* of the specification): poll for the target with a hard retry cap; the  *)
(* function returns nothing, so running out of retries ends the process.  *)
(***************************************************************************)
(* A wait whose retry cap is checked one poll late.                      *)
WaitForTargetOffByOne(b) ==
    /\ pc[b] = "wait"
    /\ \/ /\ target[b] = "present"
          /\ pc' = [pc EXCEPT ![b] = "zip"]
          /\ UNCHANGED polls
       \/ /\ target[b] # "present"
          /\ polls[b] <= MaxPolls
          /\ polls' = [polls EXCEPT ![b] = @ + 1]
          /\ UNCHANGED pc
       \/ /\ target[b] # "present"
          /\ polls[b] > MaxPolls
          /\ Exit(b)
          /\ UNCHANGED polls
    /\ UNCHANGED <<src, commit, uid, profileName, selected, stack, profileRef,
                   target, sealOf, ok, tmp, registry, now>>

WaitForTarget(b) ==
    /\ pc[b] = "wait"
    /\ \/ /\ target[b] = "present"
          /\ pc' = [pc EXCEPT ![b] = "zip"]
          /\ UNCHANGED polls
       \/ /\ target[b] # "present"
          /\ polls[b] < MaxPolls
          /\ polls' = [polls EXCEPT ![b] = @ + 1]
          /\ UNCHANGED pc
       \/ /\ target[b] # "present"
          /\ polls[b] = MaxPolls
          /\ Exit(b)
          /\ UNCHANGED polls
    /\ UNCHANGED <<src, commit, uid, profileName, selected, stack, profileRef,
                   target, sealOf, ok, tmp, registry, now>>

(***************************************************************************)
(* zipPackage, createSeal (with sProcessor computing the digest) and the  *)
(* write of the seal file next to the zip; a failed write is an error     *)
(* returned to the caller.                                                 *)
(***************************************************************************)
ZipAndSeal(b) ==
    /\ pc[b] = "zip"
    /\ \/ \E ex \in SealExports(b) :
             /\ sealOf' = [sealOf EXCEPT ![b] =
                             NewSeal(Archive(b), SealManifest(b, ex))]
             /\ pc' = [pc EXCEPT ![b] = "add"]
       \/ /\ Fail(b)
          /\ UNCHANGED sealOf
    /\ UNCHANGED <<src, commit, uid, profileName, selected, stack, profileRef,
                   target, polls, ok, tmp, registry, now>>

(***************************************************************************)
(* localReg.Add of the zip and its seal under the package name, then      *)
(* cleanUp removes the working directory.                                  *)
(***************************************************************************)
AddPackage(b) ==
    /\ pc[b] = "add"
    /\ registry' = AddEntry(registry, PkgName[b], Archive(b), sealOf[b])
    /\ tmp' = tmp \ {b}
    /\ pc' = [pc EXCEPT ![b] = "done"]
    /\ UNCHANGED <<src, commit, uid, profileName, selected, stack, profileRef,
                   target, polls, sealOf, ok, now>>

(***************************************************************************)
(* Environment: a tool started by a statement finishes writing the target *)
(* after the statement returned; the clock advances.                       *)
(***************************************************************************)
AsyncTargetWrite(b) ==
    /\ target[b] = "pending"
    /\ target' = [target EXCEPT ![b] = "present"]
    /\ UNCHANGED <<pc, src, commit, uid, profileName, selected, stack,
                   profileRef, polls, sealOf, ok, tmp, registry, now>>

Tick ==
    /\ now < MaxTime
    /\ now' = now + 1
    /\ UNCHANGED <<pc, src, commit, uid, profileName, selected, stack,
                   profileRef, target, polls, sealOf, ok, tmp, registry>>

BuilderStep(b) ==
    \/ PrepareSource(b)
    \/ SetUniqueIdName(b)
    \/ RunProfile(b)
    \/ ExecuteStatement(b)
    \/ StatementFails(b)
    \/ CallFunction(b)
    \/ ReturnFrame(b)
    \/ ReturnError(b)
    \/ MergeTarget(b)
    \/ WaitForTarget(b)
    \/ ZipAndSeal(b)
    \/ AddPackage(b)

Next ==
    \/ Tick
    \/ \E b \in Builders : BuilderStep(b) \/ AsyncTargetWrite(b)

(* Each build runs in its own process, which the scheduler keeps running: *)
(* weak fairness on the builder's own steps, none on the clock or on the  *)
(* tools writing the target.                                               *)
Spec == Init /\ [][Next]_vars /\ \A b \in Builders : WF_vars(BuilderStep(b))

(***************************************************************************)
(* Properties                                                              *)
(***************************************************************************)

(* A package enters the registry only from a build in which no statement, *)
(* of the profile or of any function it called at any depth, failed:      *)
(* each runFunction frame and runProfile hand the error to their caller,   *)
(* and Build returns it before zipping.                                    *)
RegisteredOnlyComplete ==
    \A n \in Names : registry[n] # NoEntry => ok[registry[n].archive.from]

(* Section 6 of the specification: the archive and seal are stored under  *)
(* the generated identifier that the profile's statements see as          *)
(* ARTISAN_REF.                                                            *)
ProfileRefIsPackageRef ==
    \A n \in Names : registry[n] # NoEntry =>
        registry[n].seal.manifest.ref = profileRef[registry[n].archive.from]

(* Section 4.5 of the specification: when the target holds a build file,  *)
(* the seal lists the functions it exports.                                *)
ExportsSealed ==
    \A n \in Names : registry[n] # NoEntry =>
        registry[n].seal.manifest.exports = NestedExports[registry[n].archive.from]

=============================================================================
