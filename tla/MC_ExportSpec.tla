---------------------------- MODULE MC_ExportSpec ----------------------------
(* Spec files for Export and ImportSpec.  MCSpecs list names that stay     *)
(* distinct under pkgName, one of them a name ParseName rejects;           *)
(* MCCollidingSpecs list two names that differ only in a separator         *)
(* pkgName rewrites.                                                       *)
EXTENDS ExportSpec

App == <<"acme", "/", "app", ":", "v1">>
Web == <<"acme", "/", "web", ".", "ui", ":", "v1">>
Db  == <<"acme", "/", "db", ":", "v1">>
Cli == <<"acme", "/", "cli", ":", "v2", "-", "rc">>
Api == <<"acme", "/", "api", ":", "v1">>
Bad == <<"app">>

MCSpecs == { {App, Web, Db, Cli, Api}, {App, Bad}, {} }

MCValidNames == {App, Web, Db, Cli, Api}

MCCollidingSpecs ==
    { { <<"acme", "/", "app", "-", "1", ":", "v1">>,
        <<"acme", "/", "app", "_", "1", ":", "v1">> } }

MCCollidingNames == UNION MCCollidingSpecs

=============================================================================
