--------------------------- MODULE MC_AppManifest ---------------------------
(* Two service references with the same name (two images of one service) *)
(* and one of another name, loaded up to four times.                       *)
EXTENDS AppManifest

CONSTANTS r1, r2, r3, web, db, app

MCSvcName == [r \in {r1, r2, r3} |-> IF r = r3 THEN db ELSE web]

=============================================================================
