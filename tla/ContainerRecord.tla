--------------------------- MODULE ContainerRecord ---------------------------
(***************************************************************************)
(* The record cryruss keeps for a container (containers/<id>.json)         *)
(* and the ways its handlers rewrite it.  Only the fields that decide what *)
(* a handler does are kept: the name, State.Status, State.Running and      *)
(* State.Pid.  Timestamps, the configuration and the Paused flag are never *)
(* read by any decision.                                                   *)
(***************************************************************************)
EXTENDS Naturals

CONSTANTS
    Names,      \* the names a user gives to containers
    Pids        \* the process ids the kernel hands out during a behaviour

(* State.Pid = 0 in a record means "no process".                           *)
ASSUME PidsAssumption == Pids \subseteq Nat \ {0}

NoPid == 0

(* "removing" and "dead" are declared too, but no code ever assigns them.  *)
Status == {"created", "running", "stopped", "paused", "exited"}

Record ==
    [name : Names, status : Status, running : BOOLEAN, pid : Pids \cup {NoPid}]

NewRecord(n) ==
    [name |-> n, status |-> "created", running |-> FALSE, pid |-> NoPid]

-----------------------------------------------------------------------------
(* The closures the handlers pass to UpdateState, one operator each.       *)

\* (mutant of MarkRunning: the pid is left for later)
MarkRunningNoPid(c, p) == [c EXCEPT !.status = "running", !.running = TRUE]

\* A start or a restart has launched process p.
MarkRunning(c, p) ==
    [c EXCEPT !.status = "running", !.running = TRUE, !.pid = p]

\* (mutant of MarkExited: only the status is written)
MarkExitedStatus(c) == [c EXCEPT !.status = "exited", !.pid = NoPid]

\* The goroutine a start leaves behind has seen its process exit.
MarkExited(c) ==
    [c EXCEPT !.status = "exited", !.running = FALSE, !.pid = NoPid]

\* (mutants of MarkGone: a status nothing knows; only the status is written)
MarkGoneDead(c) == [c EXCEPT !.status = "dead", !.running = FALSE]
MarkGoneStatus(c) == [c EXCEPT !.status = "exited"]

\* The goroutine of a restart, or the reconciliation in ContainerList, has
\* seen that the process is gone: both leave State.Pid as it was.
MarkGone(c) == [c EXCEPT !.status = "exited", !.running = FALSE]

\* (mutant of MarkStopped: Running is forgotten)
MarkStoppedPid(c) == [c EXCEPT !.status = "stopped", !.pid = NoPid]

\* ContainerStop, after the runtime's Stop has returned.
MarkStopped(c) ==
    [c EXCEPT !.status = "stopped", !.running = FALSE, !.pid = NoPid]

\* The first of the two updates of ContainerRestart: State.Pid is kept.
MarkHalted(c) == [c EXCEPT !.status = "stopped", !.running = FALSE]

\* Pausing and unpausing write the status whatever State.Running says.
MarkPaused(c) == [c EXCEPT !.status = "paused"]

MarkUnpaused(c) == [c EXCEPT !.status = "running"]

Renamed(c, n) == [c EXCEPT !.name = n]
=============================================================================
