# TLA+ models of the Artisan build/seal/registry pipeline and its callers

This directory holds TLA+ models of the code under `src/`. Each model is checked with TLC.

- `PROJECT.json` is the machine-readable index. It lists:
  - the components;
  - the runs;
  - the mutants;
  - the map from every definition to the source lines it translates;
  - the findings;
  - the hazards.
- This file explains the same things for a reader.

## 1. The system

| Part | Source | State | Operations |
|---|---|---|---|
| Build engine | `artisan/build/builder.go` | Per build: `workingDir`, `loadFrom`, `from`, `commit`, `uniqueIdName`, `buildFile`, `env` | `Build` → `prepareSource` (clone, copy or open in place; load `build.yaml`) → `setUniqueIdName` → `runProfile` → the merged target → `waitForTargetToBeCreated` → `zipPackage` → `createSeal` (+ `sProcessor` digest) → seal file write → `localReg.Add` → `cleanUp` |
| Function calls | `runFunction` | Its own env, built from the caller's | Recursive: a run statement is a shell command, a command with a `$(...)` capture, or a call of another function. Every call runs `setUniqueIdName` again. |
| Seal | `createSeal`, `sProcessor` | The manifest (ref, commit, OS, profile, exported functions …) and a digest over zip + manifest | Created once per build |
| Local registry | `registry.LocalRegistry` (not under `src/`) | A directory of archives and seals, one entry per name | `Add` (last writer wins), `Open` (verifies the digest, then extracts), `GetSeal` |
| Execute / Run | `Execute`, `Run` | A run path per execution | `Open` → `GetSeal` again → OS check → export check → `Run` → remove the run path unless `preserveFiles` → post-run hook |
| Host runner | `artisan/runner/host/handlers.go` | A temporary directory per request | HTTP `/host/{cmd-key}`, `/flow`, `/webhook/{flow-key}/push` and the MQTT callback. They shell out to `art exe`, or run flows step by step: open a package, then run a function through a runtime or in process with `Builder.Run`. |
| Release spec | `artisan/export/spec.go` | `spec.yaml` and one `<pkgName>.tar` per package at a target URI | `NewSpec`, `Export`, `ImportSpec` |
| Function inputs | `artisan/data/input.go` | Var/Secret/Key pointers shared with the build file or manifest | `InputFromBuildFile`, `InputFromManifest`, `InputFromURI`, survey, `Encrypt` |
| App manifests | `artisan/app/*.go` | Temporary containers and folders | Load app and service manifests; render docker-compose |
| dbman script source | `dbman/util/scriptSource.go` | A lazily fetched release-plan cache | `plan`, `loadPlan`, `fetchRelease`, `release` |
| Pilot syslog collector | `piloth/core/syslogcollector.go` | A UDP server and a goroutine | Saves each entry as an event |
| CLI commands, generated docs, tests | `art/cmd`, `cmd`, `docs`, `dbman/cmd` | None of their own | Argument checks and calls into other packages |

How the parts interact:

- Builds, executions and host-runner requests each run in their own process or goroutine. Specification §7 says "the only state shared across concurrent invocations is the Registry directory and the temp-build area".
- A build writes a registry entry. An execution reads that entry twice: once in `Open`, once in `GetSeal`.
- Anyone who can write the registry directory can change an archive or a seal between those two reads.
- The host runner starts `art exe` (Execute) and `Builder.Run` on behalf of HTTP and MQTT callers.
- Export and import move registry entries between sites by tar file.

### What is hard, and the properties that say the system is right

| Hazard | Property |
|---|---|
| A failure deep in a recursive call chain must stop the profile and keep the package out of the registry. | `RegisteredOnlyComplete` |
| Every handler that returns must have removed its temporary directory. | `TempRemovedOnReturn` |
| A name computed twice goes stale: ARTISAN_REF versus the seal's ref. | `ProfileRefIsPackageRef` |
| The seal must describe what was built: the exported functions. | `ExportsSealed` |
| A check and its use read different states: Open verifies one seal, and Execute checks exports against a later read. | `RunsOnlyExported` |
| Errors are dropped in the host runner. | `FailedStepReported`, `OkMeansFlowRan` |
| A name conversion that is not injective loses a package on export/import; a partial export must not pass for a complete one. | `ImplementsReleaseTransfer`, `RoundTripLossless` |
| Go slices share backing arrays: a second `InputFromManifest` call for one function writes its key into the spare slot the first returned Input reads. | `ReturnedKeyKept` |
| A multi-step docker load that fails after `docker create` must still remove the container it created. | `InfoContainerRemoved` |

`PROJECT.json` lists every hazard at its source line, with a note where no property covers it yet.

## 2. Modules

| Module | Models | Composes |
|---|---|---|
| `Registry` | The seal digest (`sProcessor`, as an ideal hash), `NewSeal`, the registry's `Add` and `Open` verification. The last two come from the specification (§4.6, §8) because the registry is not under `src/`. | — |
| `Build` | One `Build` invocation per builder process. | EXTENDS `Registry` |
| `Artisan` | Builds and executions side by side, plus edits of the registry directory. | EXTENDS `Build` |
| `HostRunner` | One request to the host runner, from reading the request to the handler's return. | — |
| `ScriptSource` | dbman's `ScriptSource`: `plan`, `loadPlan`, `fetchRelease`, `release`, with the server publishing plans. | — |
| `Input` | `data/input.go`: Inputs taken from a build file, a manifest or a URI, the survey, and `Encrypt`, over shared pointers and Go slice backing arrays. | — |
| `AppManifest` | `app/util.go`: `loadSvcManFromImage` step by step, `loadSvcManFromURI`, `loadFromURL`, `fetchFile`, `loadFromFile`. | — |
| `ReleaseTransfer` | The abstract transfer of a release spec (specification §3, scenario C): packages put at a target, then taken from it; done only when all have arrived. | — |
| `ExportSpec` | `Export` of a spec, then `ImportSpec` of it. `pkgName` is an operator on token sequences. | INSTANCEs `ReleaseTransfer` (refinement) |
| `MC_*` | The constants for TLC: small profile/function tables, sources, flows, package names. | EXTENDS the above |

### Build

**State.** Every variable is a function of the builder:
- `pc` is the step of `Build`.
- `src` is the kind of source and whether it has a repository with commits.
- `commit` and `uid` are `b.commit` and `b.uniqueIdName`.
- `profileName`, `selected` and `stack` hold the call frames of `runProfile`/`runFunction`. Each frame carries the ARTISAN_REF its env was built with.
- `profileRef` is ARTISAN_REF in the profile's env.
- `target` is absent, pending or present.
- `polls` counts the waits for the target.
- `sealOf` is the seal.
- `ok` records that no statement has failed.

Shared between builders:
- `tmp`, the working directories that exist;
- `registry`;
- the clock `now`.

**Actions.**
- `PrepareSource` covers `newWorkingDir`, clone/copy/open and the build-file load, with each failure exit at its place. A failed clone removes the directory; a failed copy or load does not.
- `SetUniqueIdName`: the commit, then the timestamp. `TimeStamp` takes the first three digits of `Itoa` of the nanosecond field, which are milliseconds only for a nine-digit field. `StampPanics` is the out-of-range `[:3]` slice of a field below 100, which ends the process; `CallFunction` has the same panic.
- `RunProfile`:
  - the build-file env subshell may fail;
  - a missing `Profiles` ends the build;
  - the default/first-profile recursion;
  - an unknown name is an error;
  - a profile's env subshell may fail;
  - otherwise the profile is entered.
- Statements:
  - `ExecuteStatement` (success; may write the target now or later);
  - `StatementFails` (a profile capture exits through `CheckErr`; everything else is returned as an error, and the builder starts unwinding);
  - `CallFunction` (stack overflow past `StackLimit`, undefined function (an error, unwinding), env subshell failure, a new unique name, push);
  - `ReturnError`: one step of unwinding. A function frame returns the error to its caller (`runFunction`, 403-405), and the profile frame's `runProfile` returns it to `Build` (460-462), which returns it (76-77): the build ends in `error`;
  - `ReturnFrame`.
- `MergeTarget`: `workingTarget[0]` panics without a target.
- `WaitForTarget`: a bounded poll, from spec §4.3.5, because the function is not under `src/`.
- `ZipAndSeal`, then `AddPackage` (add + `cleanUp`).

**Environment actions.**
- `AsyncTargetWrite`: a tool finishes writing the target after its statement returned.
- `Tick`: the clock advances.

**Abstractions.**
- Env tables are reduced to ARTISAN_REF per frame, plus one constant saying the build-file env holds a subshell that may fail.
- The archive is the builder plus the functions its nested `build.yaml` defines.
- A process-ending error (`RaiseErr`, `CheckErr`, `log.Fatal`, a panic) is the terminal `exited`. A returned error is `error`.

### Artisan

**State.** Per executor:
- `epc`;
- `preserve`;
- `extracted` (archive + manifest that Open verified);
- `eseal` (the manifest read by `GetSeal`);
- `ran`;
- `runDir`.

**Actions.**
- `Open`: a missing entry or a failed digest check ends the process before anything is extracted.
- `GetSeal`: the second read of the registry.
- `CheckFunction`: the OS mismatch ends the process; a function that is not exported is an error.
- `RunExtracted`: `Run` loads the build file of the extracted archive.
- `FinishExecute`: remove the run path unless preserving, then the post-run hook.

**Environment actions.**
- `TamperArchive`: someone with write access adds functions to a stored archive.
- `TamperSeal`: the same for a stored seal's export list.

### HostRunner

**State.**
- `hpc`: the handler step.
- `kind`: the entry point.
- `flow`: git source or not; `UseRuntimes` true, false or unset; steps with or without input and with source create, merge or none.
- `temp`.
- `i` and `env`: `executeFlow`'s step index and the step whose input is its current env.
- `failed`, `flowErr`, `errorWritten`.

**Actions.**
- `ReadCommandRequest`, `ReadPayloadRequest`, `ReadWebhookRequest` (one per HTTP handler), `MakeTempDir` (the MQTT callback ignores its error), `WriteContext`, `GitSource`.
- `ExecuteCommand`: `executeCommand` together with the handler code after it.
- `PrepareStep`:
  - the env assignment;
  - `deleteFolderContents`;
  - `openArtisanPackage` with the nil-env dereference in `getCredentials`.
- `PrepareStep` is built on operators named after the helpers it calls: `DeleteFolderContents`, `GetCredentials`, `OpenArtisanPackage` (whose credential error is overwritten by that of `art open`), and `Prepared`, the preparation of one step. `GitSource` uses `GitClone`.
- `RunStep`:
  - `getRunFx`, with the nil `UseRuntimes` dereference;
  - the runtime path returns errors;
  - the in-process path drops them.
- `EndFlow`; `PayloadReturn` answers `executeFlow`'s error, `WebhookReturn` drops it.

**`checkErr`.** It is not under `src/`. It is modelled from its use: it writes the error to the response and reports whether there was one.

### ExportSpec

**State.**
- `packages`: the spec being exported.
- `phase`.
- `pending` and `ipending`: the packages each map loop has left, visited in any order.
- `specFile`.
- `tars`: the package each tar file holds.
- `imported`.

**Actions.**
- `WriteSpec`.
- `ExportPackage`: `ParseName` failure, write failure, or the write itself, which replaces an existing file.
- `ExportImages`.
- `ImportStart`.
- `ImportPackage`.
- `ImportImages`.

**Refinement.** `Status` maps `phase` to the abstract status (the spec and package phases are "exporting", the failure phases "error"), and `Target` is the set of packages the tar files hold. `ImplementsReleaseTransfer == Transfer!Spec` is checked as a property. It fails when two names share a tar file: the second write replaces the first, and the import later takes a package the export never put.

The image loops call `ExportImage`, `r.Import` and `art exe`, none of which is under `src/`. They are modelled as one step that succeeds or fails.

### ScriptSource

**State.** `server` is the plan.json the schema server serves. `index` is `info.index`. `cfgNil` says the ScriptSource has no config. `cpc` is where the caller is in `fetchRelease`; `want`, `from`, `calls` and `result` describe the current call.

**Actions.**
- `FetchReleaseStart(v)`: a nil config is an error. Otherwise `plan()` returns the index or, when it is nil, whatever `loadPlan` stored (a failed fetch stores nil), and `release` looks the version up. A nil plan is dereferenced (panic); an unlisted version is an error; a listed one goes on.
- `FetchReleaseGet`: the GET of release.json, success or error.
- `Publish(p)`: the server publishes a new plan.

`scriptsource_core` checks only the type invariant: the plan cache keeping its first plan is what `loadPlan` intends, and no document says what a ScriptSource owes a later plan. The run shows the model reaches every call outcome, the panic included.

### Input

**State.**
- `val` and `enc` are functions over pointer identities: the value behind each Var/Secret/Key pointer and how often it has been encrypted. Inputs taken from the same build file share pointers, as the Go code does.
- `karr` and `cap` are the backing array and capacity of each manifest function's key slice; a returned Input reads its keys live from `karr`, so a later append can show through.
- `results` are the Inputs returned; each records in `vkey` the verification key `InputFromManifest` appended for it; `done` the ones encrypted; `ipc` whether the process still runs.

**Actions.**
- `InputFromBuildFile(fx, prompt)`: `getInput`'s bindings, then the survey. A prompted value can end the process.
- `InputFromManifest(fx, prompt)`: a copy of the manifest's Input with each new key appended (in place while the length is below the capacity), then the survey.
- `InputFromURI(prompt)`: the fetch and decode, which may fail, return nil or crash in the prompt.
- `Encrypt(j)`: encrypts, in place, the secrets and keys of returned Input `j`.

### AppManifest

**State.** `containers` holds the `<name>-info` containers on the docker host and `tmps` the loads whose tmp folder remains; both outlive the process. `last` is the source and result of the last load, and `proc` whether the process panicked.

**Actions.**
- `LoadSvcManFromImage(s)`: the nine steps of the function in order (create, tmp, inspect, label, cp, rm, read, unmarshal, rm tmp). The first failing step is chosen; every step before it has taken effect. The container is gone once `docker rm -f` succeeded; an earlier failing step returns with it still there, and the tmp folder remains unless the whole load succeeded. `docker create` always fails for a name whose container exists.
- `LoadSvcManFromURI(s)` and `LoadFromURL`: `fetchFile`, with the panic of its deferred `resp.Body.Close()` on a failed request, then the decode.
- `LoadFromFile`: may fail; it changes nothing on the host.

## 3. Runs

| Run | Config | Expect | What it shows |
|---|---|---|---|
| build_core | `MC_Build.cfg` | pass | Covers every source kind, requested profile (none, named, undefined), call chain, recursion and undefined call, statement outcome, and asynchronous target write. A failure in any frame of the call chain unwinds to `Build`, so only complete builds are registered (`RegisteredOnlyComplete`). |
| build_profile_ref | `MC_Build_ProfileRefIsPackageRef.cfg` | violation | `runFunction` renames the package after the profile saw ARTISAN_REF (builder.go 368 vs 442/547). |
| build_exports_sealed | `MC_Build_ExportsSealed.cfg` | violation | `createSeal` looks for the nested build file under `b.from`, so remote and copied builds lose their exported functions. |
| artisan_core | `MC_Artisan.cfg` | pass | Two builds of one name (different exports, Linux vs Windows), two executions, and registry edits, interleaved over one registry, stay within the modelled states (`SystemTypeOK`); the run fires every action of `Artisan`. |
| artisan_runs_only_exported | `MC_Artisan_RunsOnlyExported.cfg` | violation | Execute's export check uses a seal read after Open (TOCTOU), so it runs a function the extracted package does not export. |
| hostrunner_core | `MC_HostRunner.cfg` | pass | Every handler that returns removed its temp directory (`TempRemovedOnReturn`). A flow answered OK ran all its steps (`OkMeansFlowRan`). |
| hostrunner_failed_step | `MC_HostRunner_FailedStepReported.cfg` | violation | A failed in-process step is answered as success (handlers.go 245). |
| export_core | `MC_ExportSpec.cfg` | pass | In every map order, with names `pkgName` keeps distinct, Export then ImportSpec implements the abstract `ReleaseTransfer` (`ImplementsReleaseTransfer`): no package put at the target is lost, each import takes the package asked for, done means all arrived, and the transfer ends. |
| export_roundtrip | `MC_ExportSpec_RoundTripLossless.cfg` | violation | `acme/app-1` and `acme/app_1` share `acme_app_1.tar`: one package is lost. |
| scriptsource_core | `MC_ScriptSource.cfg` | pass | With the server publishing a new plan between calls, nil configs, failed fetches and unlisted versions, the model reaches every outcome of `fetchRelease`, including the nil-plan panic (`TypeOK`). |
| input_shared_key | `MC_Input.cfg` | violation | Two `InputFromManifest(f1)` calls with capacity 4: the second call's key lands in the slot the first returned Input reads, so that Input loses its verification key (`ReturnedKeyKept`, input.go 85-88). |
| app_info_container | `MC_AppManifest.cfg` | violation | `loadSvcManFromImage` fails at the tmp folder, inspect, label or cp step and returns with its `<name>-info` container still on the host (`InfoContainerRemoved`, util.go 72-91). |

Each property of a passing run has a mutant in `PROJECT.json`. A mutant is an operator written next to the definition it replaces, which changes it the way a plausible bug would:
- `runFunction`'s error dropped by the caller one frame up, so the profile goes on;
- a retry cap checked one poll late;
- a dropped error in the host runner's step preparation, and an env index one step off;
- a skipped `RemoveAll`;
- a missing `pkgName`;
- an import error ignored, so a missing tar file is skipped;
- a nil plan taken for one listing the version.

TLC finds the property violated with each mutant.

### Bounds and why they suffice

**MC_Build.** One builder: builds interact only through the registry, and that is `MC_Artisan`'s job.
- Four profiles:
  - one default;
  - one with an env subshell;
  - one without a target;
  - one calling an undefined function.
- Three functions. The chain f1 → f2 reaches depth 3, and f3 calls itself.
- `StackLimit` = 3 is enough for the chain to complete and for the self-call to overflow.
- `MaxPolls` = 2 lets a target arrive after one or two polls, or never.
- `MaxTime` = 2 lets the clock move between `setUniqueIdName` calls, which is what `ProfileRefIsPackageRef` needs.
- `Clock` gives each tick a second and a nanosecond field. `build_core` uses a reading with a two-digit nanosecond field, where the `[:3]` slice panics, and two readings of one second whose stamps are equal. The violation runs use readings one millisecond apart, so every stamp is distinct.

**MC_Artisan.** Two builders of the same name:
- one builds on Linux and exports nothing;
- the other builds on Windows and exports `f1`;
- so an execution on Windows can meet either seal.

Two executors: one runs the exported `f1`, the other the unexported `f2`. The bounds are smaller here (`StackLimit` 1, `MaxPolls` 1, `MaxTime` 0): the build's own behaviours are covered by `MC_Build`, and this run is about the registry.

**MC_HostRunner.** Four flows. Together they give:
- a git source and none;
- all three `UseRuntimes` values;
- create and merge steps with and without input;
- a step that inherits the previous step's env.

**MC_ExportSpec.**
- A five-package spec, whose names contain each separator.
- A spec with a name `ParseName` rejects.
- An empty spec.
- The violation run uses two names that differ only in `-` versus `_`.

**MC_ScriptSource.** Two plans, one listing one version and the other two, and a version neither lists. Three calls are enough to fetch, publish, and fetch again from the cache.

**MC_Input.** The violation needs two manifest calls for one function with spare capacity. Three build-file functions (binding a var, secret and key; a secret only; nothing), one manifest function with one key and capacity 1 or 4 (so appends both reallocate and write in place), three new keys, and four calls: two Inputs and two Encrypts.

**MC_AppManifest.** Three service references, two of them with the same name, and four loads: enough for a failed load to leave a container that makes a later load of the same name fail.

### Fairness

- Each build, execution, request and export runs in its own process or goroutine. Nothing in the code blocks one on another, so each has weak fairness on its own steps.
- `ScriptSource`, `Input` and `AppManifest` are libraries called by a client that may stop at any point: they have no fairness.
- The only liveness checked is the termination part of `ReleaseTransfer` in `export_core`, under the weak fairness of the export process.
- The clock, tools writing a target, and edits of the registry get no fairness: the code may not rely on them.
- Deadlock checking is off in every config: every process reaches a terminal step and stops there, and the library clients stop after their bound on calls.

## 4. Not modelled, and why

- **Env tables** (`evalSubshell`, `getBuildEnv`, `env.Merge`). The merge and expansion engine (`mergeMaps`, `MergeEnvironmentVars`, `Envar`) is not under `src/`. The disagreements found by reading the code are recorded as hazards: `evalSubshell` resolves into `vars` only, so siblings see unresolved text, and its `${}` merge is discarded. A model would have to restate the engine from the specification.
- **`getIgnored`** is path conversion.
- **The registry's remote operations** are not under `src/`.
- **Compose rendering** (`compose_builder.go`) is text formatting, and the specification puts deployment-descriptor generation out of scope.
- **The survey's prompts** are modelled by their outcome (an answer, or the process exits); the console I/O is not.
- **Findings kept as hazards.** The working directory left by `Build`'s error paths, the empty commit of a tree without git, the temp directory left by a host-runner panic, and the double encryption of a secret shared by two Inputs are recorded as hazards in `PROJECT.json`. Their models remain, but no run states them as properties.
- **The pilot syslog collector** (`piloth/core/syslogcollector.go`) is a loop that receives syslog entries from the UDP server's channel and saves each one as an event. The state that matters lives outside the repository: the channel and server (`go-syslog`), and `NewHostInfo`, `NewEvent` and `Event.Save` (`pilotctl/types`). So whether an entry `NewEvent` rejects reaches `Save` as a nil event that panics cannot be read from the code. That hazard is listed in `PROJECT.json`; the loop itself has no state of its own to check.
- **CLI commands** are argument checks.
- **The swagger docs** are generated.
- **Output text, error messages and logging** are left out of every model.

## 5. Further work

1. **`Env` module**: the variable tables of `runProfile`/`runFunction`/`evalSubshell` as functions from names to values. It needs the merge engine, which is not under `src/`, restated from the specification. It would cover:
   - the in-place `env.Merge` (inputs leaking to sibling calls);
   - map-order dependence in `evalSubshell`;
   - the discarded `${}` merge.
2. **Findings as violation runs**: Execute's error paths (builder.go 693, 701, 718) leave the extracted run path. This is visible in `runDir` of `Artisan` and could be stated as a property, as could the other findings kept as hazards.
