----------------------------- MODULE MCCommands -----------------------------
(* Instances of Commands for TLC.  A behaviour keeps to the subcommands of  *)
(* one menu, so that the state spaces of the menus add up.                  *)
EXTENDS Commands

OneProcess(ops) == [ops |-> ops, pids |-> {1}]
TwoProcesses(ops) == [ops |-> ops, pids |-> {1, 2}]

CommandsMenus ==
    {OneProcess({"run", "run_rm", "stop", "kill", "rm", "wait"}),
     OneProcess({"run_d", "start", "rm_f", "wait"}),
     OneProcess({"create", "rename", "prune", "rm"}),
     OneProcess({"start", "pause", "unpause"}), TwoProcesses({"start"}),
     OneProcess({"restart", "stop"}), TwoProcesses({"restart"})}

(* A run in the foreground, and somebody who waits for its container.      *)
WaitMenus == {OneProcess({"run", "wait"})}
=============================================================================
