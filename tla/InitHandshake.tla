--------------------------- MODULE InitHandshake ---------------------------
(***************************************************************************)
(* One native launch: startNative in the server (the parent), the process  *)
(* it starts as /proc/self/exe (the child, which supervises), and the      *)
(* process that one clones, which becomes the container (the grandchild).  *)
(* Parent and child talk over three pipes; any of them may die at any      *)
(* point, and a pipe whose other end nobody holds reads as ended, or       *)
(* breaks the write.                                                       *)
(*                                                                         *)
(* The configuration is written in pieces, as a pipe that is full takes    *)
(* it.  The newline that ends it comes with the last piece: it may come    *)
(* alone only when a configuration longer than a pipe fills whole pages.   *)
(***************************************************************************)
EXTENDS Naturals

CONSTANTS
    Pieces,     \* bound on the writes it takes to send the configuration
    Capacity    \* pieces of configuration that a pipe holds

ASSUME PiecesAssumption == Pieces \in Nat \ {0}
ASSUME CapacityAssumption == Capacity \in Nat \ {0}

VARIABLES
    size,       \* the writes it takes for this container
    parent,     \* where startNative stands, or how it ended
    child,      \* where ContainerInit stands
    grand,      \* the container's own process
    held,       \* the pipe ends that parent and child hold
    sync, ready, \* is there a message in the pipe?
    config,     \* pieces of configuration in the pipe
    sent, got,  \* pieces the parent has written, and the child has read
    mapped,     \* has the parent tried to write the id maps?
    limited     \* the processes in the container's cgroup

vars == <<size, parent, child, grand, held, sync, ready, config, sent, got, mapped, limited>>
pipes == <<sync, ready, config, sent, got>>

ParentSteps == {"Fork", "Close", "Sync", "Maps", "Go", "Config", "Cgroup"}
Ended == {"Returned", "Failed", "Stopped", "Crashed"}
Handshaking == {"Unshare", "AwaitGo", "Decode", "Clone"}
ChildSteps == Handshaking \cup {"none", "Wait4", "Dead"}
Alive == Handshaking \cup {"Wait4"}
GrandSteps == {"none", "Setup", "Running", "Exited"}
ChildEnds == {"configR", "syncW", "readyR"}
ParentEnds == {"configW", "syncR", "readyW"}
Ends == ChildEnds \cup ParentEnds

Held(e) == e \in held["parent"] \/ e \in held["child"]

(* What the parent does after each part of the handshake.                  *)
\* (mutant of After: the configuration is sent first)
AfterConfigFirst == [Sync |-> "Config", Config |-> "Maps", Maps |-> "Go", Go |-> "Cgroup"]
After == [Sync |-> "Maps", Maps |-> "Go", Go |-> "Config", Config |-> "Cgroup"]

\* The parent goes to step s holding the ends E.
ParentTo(s, E) == parent' = s /\ held' = [held EXCEPT !["parent"] = E]
ChildTo(s, E) == child' = s /\ held' = [held EXCEPT !["child"] = E]

\* SIGKILL, and the ends that the kernel closes.
ChildKilled == IF child \in Alive THEN "Dead" ELSE child
ParentGivesUp ==
    /\ parent' = "Failed"
    /\ child' = ChildKilled
    /\ held' = [parent |-> {}, child |-> {}]

-----------------------------------------------------------------------------
(* The parent: startNative.                                                *)

\* No pipe or no process: every end is closed again.
ForkFails ==
    /\ parent = "Fork"
    /\ ParentTo("Failed", {})
    /\ UNCHANGED <<size, child, grand, pipes, mapped, limited>>

Fork ==
    /\ parent = "Fork"
    /\ parent' = "Close"
    /\ child' = "Unshare"
    /\ held' = [held EXCEPT !["child"] = ChildEnds]
    /\ UNCHANGED <<size, grand, pipes, mapped, limited>>

\* (mutant of Close: the child's end of the sync pipe stays open)
CloseTwo ==
    /\ parent = "Close"
    /\ ParentTo("Sync", ParentEnds \cup {"syncW"})
    /\ UNCHANGED <<size, child, grand, pipes, mapped, limited>>

Close ==
    /\ parent = "Close"
    /\ ParentTo("Sync", ParentEnds)
    /\ UNCHANGED <<size, child, grand, pipes, mapped, limited>>

SyncRead ==
    /\ parent = "Sync"
    /\ sync = 1
    /\ sync' = 0
    /\ ParentTo(After["Sync"], held["parent"] \ {"syncR"})
    /\ UNCHANGED <<size, child, grand, ready, config, sent, got, mapped, limited>>

SyncBroken ==
    /\ parent = "Sync"
    /\ sync = 0
    /\ ~Held("syncW")
    /\ ParentGivesUp
    /\ UNCHANGED <<size, grand, pipes, mapped, limited>>

\* The maps are written or not: their error is ignored.
Maps ==
    /\ parent = "Maps"
    /\ mapped' = TRUE
    /\ parent' = After["Maps"]
    /\ UNCHANGED <<size, child, grand, held, pipes, limited>>

\* (mutants of Go: no word to the child; the pipe stays open)
GoSilent ==
    /\ parent = "Go"
    /\ parent' = After["Go"]
    /\ UNCHANGED <<size, child, grand, held, pipes, mapped, limited>>
GoLeaks ==
    /\ parent = "Go"
    /\ ready' = IF Held("readyR") THEN 1 ELSE ready
    /\ parent' = After["Go"]
    /\ UNCHANGED <<size, child, grand, held, sync, config, sent, got, mapped, limited>>

Go ==
    /\ parent = "Go"
    /\ ready' = IF Held("readyR") THEN 1 ELSE ready
    /\ ParentTo(After["Go"], held["parent"] \ {"readyW"})
    /\ UNCHANGED <<size, child, grand, sync, config, sent, got, mapped, limited>>

\* (mutant of SendPiece: a full pipe does not block)
SendPieceAnyway ==
    /\ parent = "Config"
    /\ sent < size
    /\ Held("configR")
    /\ config' = config + 1
    /\ sent' = sent + 1
    /\ UNCHANGED <<size, parent, child, grand, held, sync, ready, got, mapped, limited>>

SendPiece ==
    /\ parent = "Config"
    /\ sent < size
    /\ config < Capacity
    /\ Held("configR")
    /\ config' = config + 1
    /\ sent' = sent + 1
    /\ UNCHANGED <<size, parent, child, grand, held, sync, ready, got, mapped, limited>>

SendBroken ==
    /\ parent = "Config"
    /\ sent < size
    /\ ~Held("configR")
    /\ ParentGivesUp
    /\ UNCHANGED <<size, grand, pipes, mapped, limited>>

SendDone ==
    /\ parent = "Config"
    /\ sent = size
    /\ ParentTo(After["Config"], held["parent"] \ {"configW"})
    /\ UNCHANGED <<size, child, grand, pipes, mapped, limited>>

\* Only when the child has the configuration is it moved to the cgroup, if
\* the cgroup can be written at all; then the pid file, and Start returns.
Cgroup ==
    /\ parent = "Cgroup"
    /\ limited' \in {limited, IF child \in Alive THEN limited \cup {"child"} ELSE limited}
    /\ parent' = "Returned"
    /\ UNCHANGED <<size, child, grand, held, pipes, mapped>>

\* Stop signals the pid it knows, the child's, and waits for it or kills it.
Stop ==
    /\ parent = "Returned"
    /\ parent' = "Stopped"
    /\ ChildTo(ChildKilled, {})
    /\ UNCHANGED <<size, grand, pipes, mapped, limited>>

Crash ==
    /\ parent # "Crashed"
    /\ ParentTo("Crashed", {})
    /\ UNCHANGED <<size, child, grand, pipes, mapped, limited>>

-----------------------------------------------------------------------------
(* The child: ContainerInit.                                               *)

\* Whatever namespaces it gets, it says so and carries on.
ChildReady ==
    /\ child = "Unshare"
    /\ sync' = IF Held("syncR") THEN 1 ELSE sync
    /\ ChildTo("AwaitGo", held["child"] \ {"syncW"})
    /\ UNCHANGED <<size, parent, grand, ready, config, sent, got, mapped, limited>>

\* The read returns when there is a word, and also when there can be none.
ChildGo ==
    /\ child = "AwaitGo"
    /\ ready = 1 \/ ~Held("readyW")
    /\ ready' = 0
    /\ ChildTo("Decode", held["child"] \ {"readyR"})
    /\ UNCHANGED <<size, parent, grand, sync, config, sent, got, mapped, limited>>

ChildPiece ==
    /\ child = "Decode"
    /\ config > 0
    /\ config' = config - 1
    /\ got' = got + 1
    /\ UNCHANGED <<size, parent, child, grand, held, sync, ready, sent, mapped, limited>>

\* (mutant of ChildDecoded: the first piece will do)
ChildDecodedEarly ==
    /\ child = "Decode"
    /\ got > 0
    /\ ChildTo("Clone", held["child"] \ {"configR"})
    /\ UNCHANGED <<size, parent, grand, pipes, mapped, limited>>

ChildDecoded ==
    /\ child = "Decode"
    /\ got = size
    /\ ChildTo("Clone", held["child"] \ {"configR"})
    /\ UNCHANGED <<size, parent, grand, pipes, mapped, limited>>

\* The configuration ends before it is complete: exit 127.
ChildBroken ==
    /\ child = "Decode"
    /\ got < size
    /\ config = 0
    /\ ~Held("configW")
    /\ ChildTo("Dead", {})
    /\ UNCHANGED <<size, parent, grand, pipes, mapped, limited>>

\* The new process is in the cgroup that its parent is in.
ChildClone ==
    /\ child = "Clone"
    /\ \/ /\ child' = "Wait4"
          /\ grand' = "Setup"
          /\ limited' = IF "child" \in limited THEN limited \cup {"grand"} ELSE limited
          /\ held' = held
       \/ /\ ChildTo("Dead", {})
          /\ UNCHANGED <<grand, limited>>
    /\ UNCHANGED <<size, parent, pipes, mapped>>

ChildReaps ==
    /\ child = "Wait4"
    /\ grand = "Exited"
    /\ ChildTo("Dead", {})
    /\ UNCHANGED <<size, parent, grand, pipes, mapped, limited>>

\* A kill from elsewhere, or Pdeathsig once the parent has died.
ChildDies ==
    /\ child \in Alive
    /\ ChildTo("Dead", {})
    /\ UNCHANGED <<size, parent, grand, pipes, mapped, limited>>

-----------------------------------------------------------------------------
(* The grandchild.  It asks for no Pdeathsig of its own.                   *)

GrandExec ==
    /\ grand = "Setup"
    /\ grand' \in {"Running", "Exited"}
    /\ UNCHANGED <<size, parent, child, held, pipes, mapped, limited>>

GrandExits ==
    /\ grand = "Running"
    /\ grand' = "Exited"
    /\ UNCHANGED <<size, parent, child, held, pipes, mapped, limited>>

-----------------------------------------------------------------------------

Init ==
    /\ size \in 1 .. Pieces
    /\ parent = "Fork"
    /\ child = "none"
    /\ grand = "none"
    /\ held = [parent |-> Ends, child |-> {}]
    /\ sync = 0 /\ ready = 0 /\ config = 0 /\ sent = 0 /\ got = 0
    /\ mapped = FALSE
    /\ limited = {}

ParentStep ==
    \/ ForkFails \/ Fork \/ Close \/ SyncRead \/ SyncBroken \/ Maps \/ Go
    \/ SendPiece \/ SendBroken \/ SendDone \/ Cgroup

ChildStep ==
    \/ ChildReady \/ ChildGo \/ ChildPiece \/ ChildDecoded \/ ChildBroken
    \/ ChildClone \/ ChildReaps

Next == ParentStep \/ ChildStep \/ GrandExec \/ GrandExits \/ Stop \/ Crash \/ ChildDies

Spec == Init /\ [][Next]_vars

(* The parent and the child are scheduled.  Nobody has to stop the         *)
(* container, to crash, to die or to exit.                                 *)
FairSpec == Spec /\ WF_vars(ParentStep) /\ WF_vars(ChildStep)

-----------------------------------------------------------------------------

(* A pipe never holds more than it can, and every step leaves parent,      *)
(* child and grandchild where startNative and ContainerInit may be.        *)
TypeOK ==
    /\ size \in 1 .. Pieces
    /\ parent \in ParentSteps \cup Ended
    /\ child \in ChildSteps
    /\ grand \in GrandSteps
    /\ held \in [{"parent", "child"} -> SUBSET Ends]
    /\ sync \in {0, 1} /\ ready \in {0, 1}
    /\ config \in 0 .. Capacity
    /\ sent \in 0 .. size /\ got \in 0 .. size
    /\ mapped \in BOOLEAN
    /\ limited \in SUBSET {"child", "grand"}

(* The container's process is cloned only after the parent has been at the *)
(* id maps, also when the server dies in the middle of the handshake and   *)
(* the child takes the end of the ready pipe for the word to go on.        *)
MappedFirst == grand # "none" => mapped

(* A start that fails has started nothing: there is no container process,  *)
(* and the child that could still clone one is dead.                       *)
FailureIsClean == parent = "Failed" => grand = "none" /\ child \in {"none", "Dead"}

(* Whichever way startNative returns, it has closed all six pipe ends, and *)
(* the child has closed its own when it clones, so the container gets none.*)
DescriptorsClosed ==
    /\ parent \in Ended => held["parent"] = {}
    /\ child \in {"Clone", "Wait4"} => held["child"] = {}

(* startNative returns, whatever becomes of the child.                     *)
StartReturns == parent \in ParentSteps ~> parent \in Ended

(* The child never stays in the handshake, whatever becomes of the parent. *)
ChildLeaves == child \in Handshaking ~> child \notin Handshaking

-----------------------------------------------------------------------------
(* What users are told.                                                    *)

(* stop: "Stop one or more running containers" (main.go:158).  When Stop   *)
(* has returned, the container runs no more.                               *)
StopEndsContainer == parent = "Stopped" => grand \notin {"Setup", "Running"}

(* --memory: "Memory limit" (main.go:219).  A container that has a cgroup  *)
(* runs inside it once Start has returned.                                 *)
LimitsApply ==
    parent = "Returned" /\ "child" \in limited /\ grand \in {"Setup", "Running"}
        => "grand" \in limited
=============================================================================
