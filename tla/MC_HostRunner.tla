---------------------------- MODULE MC_HostRunner ----------------------------
(* Flows for the host runner: with and without a git source, run through  *)
(* a runtime, in process, or with UseRuntimes unset; steps that open a    *)
(* package with and without an input of their own, and a plain step after *)
(* them that inherits executeFlow's env.                                   *)
EXTENDS HostRunner

MCFlows ==
    { [git |-> TRUE, runtimes |-> FALSE,
       steps |-> << [input |-> TRUE, source |-> "create"],
                    [input |-> FALSE, source |-> "none"] >>],
      [git |-> FALSE, runtimes |-> TRUE,
       steps |-> << [input |-> FALSE, source |-> "merge"],
                    [input |-> TRUE, source |-> "none"] >>],
      [git |-> FALSE, runtimes |-> TRUE,
       steps |-> << [input |-> TRUE, source |-> "merge"],
                    [input |-> FALSE, source |-> "none"] >>],
      [git |-> FALSE, runtimes |-> Nil,
       steps |-> << [input |-> TRUE, source |-> "none"] >>] }

=============================================================================
