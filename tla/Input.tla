------------------------------- MODULE Input --------------------------------
(***************************************************************************)
(* Function inputs (artisan/data/input.go).  An Input holds slices of     *)
(* pointers to Var, Secret and Key values.  InputFromBuildFile collects    *)
(* the build file's own Var/Secret/Key pointers that a function binds;     *)
(* InputFromManifest copies the exported function's Input struct (its      *)
(* slices keep their backing arrays) and appends a verification key;      *)
(* InputFromURI reads a runtime manifest; surveying writes values through *)
(* the pointers; Encrypt encrypts secret and key values in place.          *)
(*                                                                         *)
(* The pointers are the model values Objs; val and enc are the values     *)
(* they point to.  Only the manifest's key slices are appended to, so     *)
(* they are the only slices modelled with a backing array (karr, of       *)
(* capacity cap).  A client calls the functions one after another.        *)
(***************************************************************************)
EXTENDS Naturals, SequencesExt

CONSTANTS
    Objs,        \* Var, Secret and Key values (pointer identities)
    Kind,        \* [Objs -> {"var", "secret", "key"}]
    Name,        \* [Objs -> Names]
    BFObjs,      \* the pointers in the build file's Input
    FxNames,     \* function names a client asks for
    BFFxs,       \* the functions the build file defines
    Bindings,    \* [BFFxs -> [kind -> SUBSET Names]], or NoBinding
    NoBinding,   \* a function without an input binding (fx.Input nil)
    MFxs,        \* the functions the package manifest exports
    MInput,      \* [MFxs -> the Var and Secret pointers of fx.Input]
    MKeys,       \* [MFxs -> the Key pointers of fx.Input, in order]
    CapOptions,  \* [MFxs -> capacities the decoded key slice may have]
    NewKeys,     \* the Key values InputFromManifest allocates, in order
    EnvNames,    \* names os.Getenv finds set
    Typed,       \* values a user may type at a prompt
    NoObj,       \* an unused slot of a backing array
    MaxCalls     \* bound on the number of calls

Kinds == {"var", "secret", "key"}
Scopes == {"root", "group", "package"}
Values == {"", "env"} \cup Typed \cup Scopes
NilInput == [own |-> {}, kfx |-> NoObj, klen |-> 0, nil |-> TRUE, vkey |-> NoObj]

VARIABLES
    val,      \* [Objs -> the Value field each pointer points to]
    enc,      \* [Objs -> how many times the value was encrypted]
    karr,     \* [MFxs -> backing array of the manifest's key slice]
    cap,      \* [MFxs -> its capacity]
    results,  \* the Inputs returned so far, in call order
    fresh,    \* the next of NewKeys to allocate
    calls,    \* calls made
    done,     \* the returned Inputs the client has encrypted
    ipc       \* "run", or how the process ended

ivars == <<val, enc, karr, cap, results, fresh, calls, done, ipc>>

MaxCap == Max({Len(MKeys[f]) + 1 : f \in MFxs} \cup UNION {CapOptions[f] : f \in MFxs})

(* The pointers a returned Input holds: its own slices, and for a key     *)
(* slice that shares the manifest's backing array, that array's prefix.    *)
KeysOf(r) == IF r.kfx = NoObj THEN {}
             ELSE {karr[r.kfx][j] : j \in 1..r.klen}
ObjsOf(r) == r.own \cup KeysOf(r)

TypeOK ==
    /\ val \in [Objs -> Values]
    /\ enc \in [Objs -> 0..MaxCalls]
    /\ karr \in [MFxs -> [1..MaxCap -> Objs \cup {NoObj}]]
    /\ cap \in [MFxs -> 1..MaxCap]
    /\ \A r \in Range(results) : ObjsOf(r) \subseteq Objs
    /\ \A r \in Range(results) : r.kfx \in MFxs => r.klen <= cap[r.kfx]
    /\ done \subseteq 1..Len(results)
    /\ fresh \in 1..(Len(NewKeys) + 1)
    /\ calls \in 0..MaxCalls
    /\ ipc \in {"run", "exited", "crashed"}

Init ==
    /\ val = [o \in Objs |-> ""]
    /\ enc = [o \in Objs |-> 0]
    /\ karr = [f \in MFxs |-> [j \in 1..MaxCap |->
                 IF j <= Len(MKeys[f]) THEN MKeys[f][j] ELSE NoObj]]
    /\ cap \in {c \in [MFxs -> 1..MaxCap] : \A f \in MFxs : c[f] \in CapOptions[f]}
    /\ results = <<>>
    /\ fresh = 1
    /\ calls = 0
    /\ done = {}
    /\ ipc = "run"

Call == ipc = "run" /\ calls < MaxCalls /\ calls' = calls + 1

(***************************************************************************)
(* surveyVar, surveySecret, surveyKey over the pointers S: a var or a     *)
(* secret whose name is set in the environment takes that value; any      *)
(* other is prompted for, and a key prompts for a key path (keyPathExist  *)
(* accepts only an existing path starting with "/"): "/" is the root     *)
(* keys, "/g" a group's, "/g/p" a package's; a deeper path ends the       *)
(* process (RaiseErr), as do Ctrl-C at a prompt and an unreadable key      *)
(* file (CheckErr).                                                        *)
(***************************************************************************)
Prompted(o) == Kind[o] = "key" \/ Name[o] \notin EnvNames

Answers(o) == CASE Kind[o] = "key"     -> Scopes
                [] Name[o] \in EnvNames -> {"env"}
                [] OTHER               -> Typed

Survey(S) ==
    \/ /\ \E v \in [S -> Values] :
             /\ \A o \in S : v[o] \in Answers(o)
             /\ val' = [o \in Objs |-> IF o \in S THEN v[o] ELSE val[o]]
       /\ UNCHANGED ipc
    \/ /\ \E o \in S : Prompted(o)
       /\ ipc' = "exited"
       /\ UNCHANGED val

(* getInput: for each binding, every pointer of the source Input with    *)
(* that name, appended to a fresh slice; nil when fx.Input is nil.         *)
GetInput(fx) ==
    {o \in BFObjs : Name[o] \in Bindings[fx][Kind[o]]}

(***************************************************************************)
(* InputFromBuildFile: a function the build file does not define ends the *)
(* process; otherwise getInput, surveying each collected pointer when     *)
(* prompt is set.                                                          *)
(***************************************************************************)
InputFromBuildFile(fx, prompt) ==
    /\ Call
    /\ \/ /\ fx \notin BFFxs
          /\ ipc' = "exited"
          /\ UNCHANGED <<val, results>>
       \/ /\ fx \in BFFxs
          /\ Bindings[fx] = NoBinding
          /\ results' = Append(results, NilInput)
          /\ UNCHANGED <<val, ipc>>
       \/ /\ fx \in BFFxs
          /\ Bindings[fx] # NoBinding
          /\ results' = Append(results, [own |-> GetInput(fx), kfx |-> NoObj,
                                          klen |-> 0, nil |-> FALSE, vkey |-> NoObj])
          /\ IF prompt THEN Survey(GetInput(fx)) ELSE UNCHANGED <<val, ipc>>
    /\ UNCHANGED <<enc, karr, cap, fresh, done>>

(***************************************************************************)
(* InputFromManifest: a function the manifest does not export ends the    *)
(* process.  input := *fx.Input copies the struct, so its slices keep the *)
(* manifest's backing arrays; append(input.Key, &Key{...}) stores the new *)
(* verification key in the manifest's array when it has spare capacity    *)
(* and in a new array otherwise.  With prompt, surveyInput surveys every  *)
(* pointer of the copy, which are the manifest's own.                      *)
(***************************************************************************)
InputFromManifest(fx, prompt) ==
    LET l == Len(MKeys[fx])
        k == NewKeys[fresh]
        inPlace == l < cap[fx]
        r == IF inPlace
               THEN [own |-> MInput[fx], kfx |-> fx, klen |-> l + 1, nil |-> FALSE,
                     vkey |-> k]
               ELSE [own |-> MInput[fx] \cup {MKeys[fx][j] : j \in 1..l} \cup {k},
                     kfx |-> NoObj, klen |-> 0, nil |-> FALSE, vkey |-> k]
    IN
    /\ Call
    /\ \/ /\ fx \notin MFxs
          /\ ipc' = "exited"
          /\ UNCHANGED <<val, karr, results, fresh>>
       \/ /\ fx \in MFxs
          /\ fresh <= Len(NewKeys)
          /\ fresh' = fresh + 1
          /\ karr' = IF inPlace THEN [karr EXCEPT ![fx][l + 1] = k] ELSE karr
          /\ results' = Append(results, r)
          /\ IF prompt THEN Survey(MInput[fx] \cup {MKeys[fx][j] : j \in 1..l} \cup {k})
                       ELSE UNCHANGED <<val, ipc>>
    /\ UNCHANGED <<enc, cap, done>>

(***************************************************************************)
(* InputFromURI: a failed GET or body read ends the process (CheckErr);   *)
(* the yaml.Unmarshal error is dropped, so a body that does not decode,   *)
(* like one without an input section, gives a nil Input, and surveying it *)
(* (prompt) dereferences nil.  A decoded Input holds new pointers only.   *)
(***************************************************************************)
InputFromURI(prompt) ==
    /\ Call
    /\ \/ /\ ipc' = "exited"
          /\ UNCHANGED results
       \/ /\ prompt
          /\ ipc' = "crashed"
          /\ UNCHANGED results
       \/ /\ ~prompt
          /\ results' = Append(results, NilInput)
          /\ UNCHANGED ipc
       \/ /\ results' = Append(results, [NilInput EXCEPT !.nil = FALSE])
          /\ UNCHANGED ipc
    /\ UNCHANGED <<val, enc, karr, cap, fresh, done>>

(***************************************************************************)
(* Input.Encrypt (encryptInput), called by the client once on a returned  *)
(* Input: nothing for a nil Input; otherwise each secret and each key     *)
(* value is encrypted in place, and a failure ends the process (CheckErr). *)
(***************************************************************************)
Encrypt(j) ==
    LET S == {o \in ObjsOf(results[j]) : Kind[o] \in {"secret", "key"}} IN
    /\ Call
    /\ j \notin done
    /\ done' = done \cup {j}
    /\ \/ /\ enc' = [o \in Objs |-> IF o \in S THEN enc[o] + 1 ELSE enc[o]]
          /\ UNCHANGED ipc
       \/ /\ S # {}
          /\ ipc' = "exited"
          /\ UNCHANGED enc
    /\ UNCHANGED <<val, karr, cap, results, fresh>>

Next ==
    \/ \E fx \in FxNames, p \in BOOLEAN :
          InputFromBuildFile(fx, p) \/ InputFromManifest(fx, p)
    \/ \E p \in BOOLEAN : InputFromURI(p)
    \/ \E j \in 1..Len(results) : Encrypt(j)

(* A client may stop calling at any point: no fairness.                    *)
Spec == Init /\ [][Next]_ivars

(***************************************************************************)
(* Properties                                                              *)
(***************************************************************************)

(* Every Input InputFromManifest returned still holds the verification   *)
(* key it was returned with.  The copy *fx.Input shares the manifest's    *)
(* key array, and append stores the key in its spare slot: a later call   *)
(* for the same function stores its key in that same slot.                *)
ReturnedKeyKept ==
    \A j \in 1..Len(results) :
        results[j].vkey # NoObj => results[j].vkey \in ObjsOf(results[j])

=============================================================================
