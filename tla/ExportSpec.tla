----------------------------- MODULE ExportSpec -----------------------------
(***************************************************************************)
(* Spec.Export and ImportSpec (artisan/export/spec.go): an application    *)
(* release specification (spec.yaml) lists packages; Export writes        *)
(* spec.yaml and one tar file per package to a target location, and       *)
(* ImportSpec reads spec.yaml back and imports the tar file of each       *)
(* package into the local registry.  Both find a package's tar file by    *)
(* pkgName of its name.  The packages of a spec are the values of a Go    *)
(* map, visited in no fixed order.                                         *)
(*                                                                         *)
(* A package name is a sequence of tokens: the separators "/", "." and    *)
(* "-" and name parts.  The images of the spec (ExportImage, the image     *)
(* import loops) are not under src/; their loops are kept as one step     *)
(* each that succeeds or fails.                                            *)
(***************************************************************************)
EXTENDS Naturals, Sequences, FiniteSets

CONSTANTS
    Specs,       \* the spec files: each the set of package names it lists
    ValidNames,  \* the names core.ParseName accepts
    NoFile       \* the content of a tar name nothing was written to

Separators == {"/", ".", "-"}

(* pkgName: every "/", then every ".", then every "-" replaced by "_".   *)
PkgName(name) == [j \in DOMAIN name |-> IF name[j] \in Separators THEN "_"
                                                                ELSE name[j]]

Names == UNION Specs

TarNames == {PkgName(v) : v \in Names}

VARIABLES
    packages,   \* the packages of the spec being exported
    phase,      \* step of Export, then of ImportSpec
    pending,    \* packages Export has still to write
    specFile,   \* spec.yaml is in the target location
    tars,       \* [TarNames -> the package the tar file holds, or NoFile]
    ipending,   \* packages ImportSpec has still to import
    imported    \* packages the local registry received from tar files

evars == <<packages, phase, pending, specFile, tars, ipending, imported>>

TypeOK ==
    /\ packages \in Specs
    /\ phase \in {"spec", "packages", "exported", "importing", "done", "error"}
    /\ pending \subseteq Names
    /\ specFile \in BOOLEAN
    /\ tars \in [TarNames -> Names \cup {NoFile}]
    /\ ipending \subseteq Names
    /\ imported \subseteq Names

Init ==
    /\ packages \in Specs
    /\ phase = "spec"
    /\ pending = packages
    /\ specFile = FALSE
    /\ tars = [t \in TarNames |-> NoFile]
    /\ ipending = {}
    /\ imported = {}

(* Export first writes spec.yaml to the target; a failure is returned.    *)
WriteSpec ==
    /\ phase = "spec"
    /\ \/ /\ specFile' = TRUE
          /\ phase' = "packages"
       \/ /\ phase' = "error"
          /\ UNCHANGED specFile
    /\ UNCHANGED <<packages, pending, tars, ipending, imported>>

(* A tar file written under the package name itself, not its pkgName.    *)
ExportPackageRawName(v) ==
    /\ phase = "packages"
    /\ v \in pending
    /\ \/ /\ v \notin ValidNames
          /\ phase' = "error"
          /\ UNCHANGED <<pending, tars>>
       \/ /\ v \in ValidNames
          /\ phase' = "error"
          /\ UNCHANGED <<pending, tars>>
       \/ /\ v \in ValidNames
          /\ tars' = [t \in DOMAIN tars \cup {v} |-> IF t = v THEN v ELSE tars[t]]
          /\ pending' = pending \ {v}
          /\ UNCHANGED phase
    /\ UNCHANGED <<packages, specFile, ipending, imported>>

(***************************************************************************)
(* Export, one package of the map: a name ParseName rejects ends Export   *)
(* with an error; otherwise ExportPackage writes <target>/<pkgName>.tar,  *)
(* replacing a file of that name, and a failure ends Export with an error. *)
(* What was written before stays in the target.                           *)
(***************************************************************************)
ExportPackage(v) ==
    /\ phase = "packages"
    /\ v \in pending
    /\ \/ /\ v \notin ValidNames
          /\ phase' = "error"
          /\ UNCHANGED <<pending, tars>>
       \/ /\ v \in ValidNames
          /\ phase' = "error"
          /\ UNCHANGED <<pending, tars>>
       \/ /\ v \in ValidNames
          /\ tars' = [tars EXCEPT ![PkgName(v)] = v]
          /\ pending' = pending \ {v}
          /\ UNCHANGED phase
    /\ UNCHANGED <<packages, specFile, ipending, imported>>

(* Export, after the packages: the images are saved, and a failure is     *)
(* returned; otherwise Export returns nil.                                 *)
ExportImages ==
    /\ phase = "packages"
    /\ pending = {}
    /\ phase' \in {"exported", "error"}
    /\ UNCHANGED <<packages, pending, specFile, tars, ipending, imported>>

(* ImportSpec reads spec.yaml from the target (an error without it) and   *)
(* starts on the packages it lists.                                        *)
ImportStart ==
    /\ phase = "exported"
    /\ \/ /\ specFile
          /\ phase' = "importing"
          /\ ipending' = packages
       \/ /\ phase' = "error"
          /\ UNCHANGED ipending
    /\ UNCHANGED <<packages, pending, specFile, tars, imported>>

(* ImportSpec that drops the error of a failed import and goes on.        *)
ImportPackageErrorIgnored(v) ==
    /\ phase = "importing"
    /\ v \in ipending
    /\ \/ /\ tars[PkgName(v)] # NoFile
          /\ imported' = imported \cup {tars[PkgName(v)]}
       \/ UNCHANGED imported
    /\ ipending' = ipending \ {v}
    /\ UNCHANGED <<packages, pending, specFile, tars, phase>>

(***************************************************************************)
(* ImportSpec, one package of the map: r.Import of <target>/<pkgName>.tar *)
(* adds the package that tar file holds to the local registry; a missing  *)
(* file or a failed import ends ImportSpec with an error.                  *)
(***************************************************************************)
ImportPackage(v) ==
    /\ phase = "importing"
    /\ v \in ipending
    /\ \/ /\ tars[PkgName(v)] # NoFile
          /\ imported' = imported \cup {tars[PkgName(v)]}
          /\ ipending' = ipending \ {v}
          /\ UNCHANGED phase
       \/ /\ phase' = "error"
          /\ UNCHANGED <<ipending, imported>>
    /\ UNCHANGED <<packages, pending, specFile, tars>>

(* ImportSpec, after the packages: the image tar files are imported and   *)
(* `art exe <image> import` runs for each; a failure is returned.          *)
ImportImages ==
    /\ phase = "importing"
    /\ ipending = {}
    /\ phase' \in {"done", "error"}
    /\ UNCHANGED <<packages, pending, specFile, tars, ipending, imported>>

Next ==
    \/ WriteSpec
    \/ \E v \in Names : ExportPackage(v) \/ ImportPackage(v)
    \/ ExportImages
    \/ ImportStart
    \/ ImportImages

(* Export and ImportSpec each run in one goroutine to their end.           *)
Spec == Init /\ [][Next]_evars /\ WF_evars(Next)

(***************************************************************************)
(* Properties                                                              *)
(***************************************************************************)

(* Section 3 and scenario C of the specification: export then import      *)
(* moves the packages losslessly: every package the spec lists reaches    *)
(* the importing registry.                                                 *)
RoundTripLossless == phase = "done" => imported = packages

(* The refinement mapping: the abstract status follows Export's and       *)
(* ImportSpec's steps, and the target holds the packages of the tar files *)
(* written so far.                                                         *)
Status == CASE phase \in {"spec", "packages"} -> "exporting"
            [] phase \in {"exported", "importing", "done"} -> phase
            [] OTHER -> "error"

Target == {tars[t] : t \in {u \in TarNames : tars[u] # NoFile}}

Transfer == INSTANCE ReleaseTransfer
                WITH status <- Status, target <- Target

(* Export followed by ImportSpec implements ReleaseTransfer: a tar file   *)
(* never takes a package away from the target, each import takes the     *)
(* package asked for, and ImportSpec reports done only once every listed  *)
(* package has arrived; and a transfer always ends, done or failed.       *)
ImplementsReleaseTransfer == Transfer!Spec

=============================================================================
