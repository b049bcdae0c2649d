------------------------------ MODULE Registry ------------------------------
(***************************************************************************)
(* The package seal and the local registry.                                *)
(*                                                                         *)
(* A seal binds a package manifest to the archive it describes by a digest *)
(* over both (sProcessor in artisan/build/builder.go).  The registry       *)
(* itself (artisan/registry.LocalRegistry) is not part of the source tree  *)
(* under src/; its Add and its verification on Open are modelled from the  *)
(* specification (sections 4.6 and 8): one entry per package name, archive *)
(* and seal stored together, overwritten by a later Add of the same name,  *)
(* and Open refusing an entry whose digest does not match.                 *)
(***************************************************************************)

CONSTANT NoEntry        \* the value of a name with no registry entry

(* s.DSha256(zip): a hash over the archive bytes and the serialised        *)
(* manifest.  It is modelled as an ideal hash: the pair itself, so two     *)
(* digests are equal exactly when archive and manifest are.                *)
Digest(archive, manifest) == <<archive, manifest>>

(* sProcessor: the seal carries the manifest and the digest written to it. *)
NewSeal(archive, manifest) ==
    [manifest |-> manifest, digest |-> Digest(archive, manifest)]

(* LocalRegistry.Add: register, or overwrite, the entry of a package name; *)
(* the archive and its seal are persisted together.                        *)
AddEntry(reg, name, archive, seal) ==
    [reg EXCEPT ![name] = [archive |-> archive, seal |-> seal]]

(* The verification Open performs before extracting: the digest recorded   *)
(* in the seal is recomputed from the stored archive and manifest.         *)
Verifies(entry) ==
    entry.seal.digest = Digest(entry.archive, entry.seal.manifest)

=============================================================================
