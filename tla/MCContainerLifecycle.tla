----------------------- MODULE MCContainerLifecycle -----------------------
(* Instances of ContainerLifecycle for TLC: the requests are interchangeable *)
(* and may be permuted in runs that check safety only.                       *)
EXTENDS ContainerLifecycle, TLC

ReqSymmetry == Permutations(Reqs)

(* Everything, with some of the operations and no crash.                   *)
Using(ops) == [ops |-> ops, refs |-> Refs \cup {NoId}, pids |-> Pids, crashes |-> 0]
Crashing(ops) == [Using(ops) EXCEPT !.crashes = 1]

(* The menus of each run.  The safety run has two kinds of behaviours: two  *)
(* processes of a container that is started and restarted, and one process  *)
(* with everything that can be done to its record and to another's.         *)
ProcessMenu == [Using({"start", "restart"}) EXCEPT !.refs = {NoId, 1}]
RecordMenu ==
    [Using({"create", "start", "remove", "remove_force", "prune", "rename", "list",
            "stop", "kill"}) EXCEPT !.pids = {1}]
SafetyMenus == {ProcessMenu, RecordMenu}
SerialMenus ==
    {Crashing({"create", "start", "kill", "remove", "remove_force", "prune", "pause",
               "unpause"})}

(* One container: its name finds what its id finds.  Exits are recorded by *)
(* goroutines; after a crash, or after a pause that writes an old record    *)
(* back, by listing; and after both, with one process.                      *)
RecoveryMenus ==
    {[m EXCEPT !.refs = {NoId, 1}] :
        m \in {Using({"start", "stop", "kill", "remove"}), Crashing({"start", "list"}),
               Using({"start", "list", "pause"}),
               [Crashing({"start", "list", "pause"}) EXCEPT !.pids = {1}]}}

ForceMenus == {Using({"start", "remove_force"})}
StartRemoveMenus == {Using({"start", "remove"})}
=============================================================================
