------------------------ MODULE InitHandshakeProofs ------------------------
(***************************************************************************)
(* Proofs about InitHandshake, for a configuration of any length and pipes *)
(* of any capacity.                                                        *)
(***************************************************************************)
EXTENDS InitHandshake, TLAPS

(* Where a process stands says which pipe ends it holds.                   *)
ParentHolds ==
    CASE parent \in {"Fork", "Close"} -> Ends
      [] parent = "Sync"              -> ParentEnds
      [] parent \in {"Maps", "Go"}    -> {"configW", "readyW"}
      [] parent = "Config"            -> {"configW"}
      [] OTHER                        -> {}

ChildHolds ==
    CASE child = "Unshare" -> ChildEnds
      [] child = "AwaitGo" -> {"configR", "readyR"}
      [] child = "Decode"  -> {"configR"}
      [] OTHER             -> {}

Holding == held = [parent |-> ParentHolds, child |-> ChildHolds]

(* The child reads what was sent, which is nothing before the id maps are  *)
(* written, and clones only when it has read everything.                   *)
Transfer ==
    /\ got + config <= sent
    /\ parent \in {"Fork", "Close", "Sync", "Maps", "Go"} => sent = 0
    /\ sent > 0 \/ parent \in {"Go", "Config"} => mapped
    /\ child \in {"Clone", "Wait4"} \/ grand # "none" => got = size

Starting ==
    /\ parent = "Fork" => child = "none"
    /\ child = "none" => grand = "none"

HandshakeInv == TypeOK /\ Holding /\ Transfer /\ Starting /\ FailureIsClean

-----------------------------------------------------------------------------

(* Both hold ends of the three pipes.                                      *)
LEMMA HoldingTyped ==
    /\ [parent |-> ParentHolds, child |-> ChildHolds] \in [{"parent", "child"} -> SUBSET Ends]
    /\ ParentHolds' \in SUBSET Ends /\ ChildHolds' \in SUBSET Ends
    /\ Holding' => held' \in [{"parent", "child"} -> SUBSET Ends]
<1>1. ParentHolds \in SUBSET Ends /\ ChildHolds \in SUBSET Ends
  BY DEF ParentHolds, ChildHolds, Ends, ParentEnds, ChildEnds
<1>2. ParentHolds' \in SUBSET Ends /\ ChildHolds' \in SUBSET Ends
  BY DEF ParentHolds, ChildHolds, Ends, ParentEnds, ChildEnds
<1> QED  BY <1>1, <1>2 DEF Holding

(* The parent holds all ends, and nothing is sent or started.              *)
LEMMA InvInit == Init => HandshakeInv
<1> SUFFICES ASSUME Init PROVE HandshakeInv
  OBVIOUS
<1>1. TypeOK
  <2>1. held \in [{"parent", "child"} -> SUBSET Ends]
    BY DEF Init
  <2>2. config \in 0 .. Capacity /\ sent \in 0 .. size /\ got \in 0 .. size
    BY PiecesAssumption, CapacityAssumption DEF Init
  <2>3. parent \in ParentSteps \cup Ended /\ child \in ChildSteps /\ grand \in GrandSteps
    BY DEF Init, ParentSteps, ChildSteps, GrandSteps
  <2> QED
    BY <2>1, <2>2, <2>3 DEF Init, TypeOK
<1>2. Holding /\ Transfer /\ Starting /\ FailureIsClean
  BY PiecesAssumption
     DEF Init, Holding, ParentHolds, ChildHolds, Transfer, Starting, FailureIsClean
<1> QED  BY <1>1, <1>2 DEF HandshakeInv

(* A process that is killed holds nothing any more.                        *)
LEMMA GivingUp ==
    ASSUME TypeOK, ParentGivesUp
    PROVE  /\ parent' = "Failed"
           /\ child' \in {"none", "Dead"}
           /\ child' = "none" => child = "none"
           /\ Holding'
BY DEF ParentGivesUp, ChildKilled, TypeOK, ChildSteps, Alive, Handshaking, Holding,
       ParentHolds, ChildHolds

(* Every step of parent, child and kernel keeps the invariant.             *)
LEMMA InvNext == HandshakeInv /\ [Next]_vars => HandshakeInv'
<1> SUFFICES ASSUME HandshakeInv, [Next]_vars PROVE HandshakeInv'
  OBVIOUS
<1> USE DEF HandshakeInv
<1> USE PiecesAssumption, CapacityAssumption
<1>1. Holding'
  <2> USE DEF Holding, ParentHolds, ChildHolds, TypeOK, ChildSteps, Handshaking, Alive,
              Ends, ChildEnds, ParentEnds, ParentTo, ChildTo
  <2>1. CASE ForkFails \/ Fork \/ Close
    BY <2>1 DEF ForkFails, Fork, Close, Starting
  <2>2. CASE SyncRead \/ Maps \/ Go \/ SendPiece \/ SendDone \/ Cgroup
    BY <2>2 DEF SyncRead, Maps, Go, SendPiece, SendDone, Cgroup, After
  <2>3. CASE SyncBroken \/ SendBroken
    BY <2>3, GivingUp DEF SyncBroken, SendBroken
  <2>4. CASE Stop \/ Crash
    BY <2>4 DEF Stop, Crash, ChildKilled
  <2>5. CASE ChildReady \/ ChildGo \/ ChildPiece \/ ChildDecoded
    BY <2>5 DEF ChildReady, ChildGo, ChildPiece, ChildDecoded
  <2>6. CASE ChildBroken \/ ChildClone \/ ChildReaps \/ ChildDies
    BY <2>6 DEF ChildBroken, ChildClone, ChildReaps, ChildDies
  <2>7. CASE GrandExec \/ GrandExits \/ UNCHANGED vars
    BY <2>7 DEF GrandExec, GrandExits, vars
  <2> QED
    BY <2>1, <2>2, <2>3, <2>4, <2>5, <2>6, <2>7 DEF Next, ParentStep, ChildStep
<1>2. TypeOK'
  <2> USE DEF TypeOK, ParentSteps, ChildSteps, GrandSteps, Handshaking, Ended, Alive,
              ParentTo, ChildTo, pipes
  <2> held' \in [{"parent", "child"} -> SUBSET Ends]
    BY <1>1, HoldingTyped DEF Holding
  <2>1. CASE ForkFails \/ Fork \/ Close
    BY <2>1 DEF ForkFails, Fork, Close
  <2>2. CASE SyncRead \/ Maps \/ Go \/ SendDone
    BY <2>2 DEF SyncRead, Maps, Go, SendDone, After
  <2>3. CASE SyncBroken \/ SendBroken
    BY <2>3 DEF SyncBroken, SendBroken, ParentGivesUp, ChildKilled
  <2>4. CASE SendPiece
    BY <2>4 DEF SendPiece
  <2>5. CASE Cgroup
    BY <2>5 DEF Cgroup
  <2>6. CASE Stop \/ Crash
    BY <2>6 DEF Stop, Crash, ChildKilled
  <2>7. CASE ChildPiece
    BY <2>7 DEF ChildPiece, Transfer
  <2>8. CASE ChildReady \/ ChildGo \/ ChildDecoded \/ ChildBroken
    BY <2>8 DEF ChildReady, ChildGo, ChildDecoded, ChildBroken
  <2>9. CASE ChildClone
    BY <2>9 DEF ChildClone
  <2>10. CASE ChildReaps \/ ChildDies
    BY <2>10 DEF ChildReaps, ChildDies
  <2>11. CASE GrandExec \/ GrandExits
    BY <2>11 DEF GrandExec, GrandExits
  <2>12. CASE UNCHANGED vars
    BY <2>12 DEF vars
  <2> QED
    BY <2>1, <2>2, <2>3, <2>4, <2>5, <2>6, <2>7, <2>8, <2>9, <2>10, <2>11, <2>12
       DEF Next, ParentStep, ChildStep
<1>3. Transfer'
  <2> USE DEF Transfer, TypeOK, ParentTo, ChildTo, pipes
  <2>1. CASE ForkFails \/ Fork \/ Close
    BY <2>1 DEF ForkFails, Fork, Close
  <2>2. CASE SyncRead \/ Maps \/ Go \/ SendDone \/ Cgroup
    BY <2>2 DEF SyncRead, Maps, Go, SendDone, Cgroup, After
  <2>3. CASE SyncBroken \/ SendBroken
    BY <2>3, GivingUp DEF SyncBroken, SendBroken
  <2>4. CASE SendPiece
    BY <2>4 DEF SendPiece
  <2>5. CASE Stop \/ Crash
    BY <2>5 DEF Stop, Crash, ChildKilled
  <2>6. CASE ChildReady \/ ChildGo \/ ChildPiece \/ ChildDecoded
    BY <2>6 DEF ChildReady, ChildGo, ChildPiece, ChildDecoded
  <2>7. CASE ChildBroken \/ ChildClone \/ ChildReaps \/ ChildDies
    BY <2>7 DEF ChildBroken, ChildClone, ChildReaps, ChildDies
  <2>8. CASE GrandExec \/ GrandExits \/ UNCHANGED vars
    BY <2>8 DEF GrandExec, GrandExits, vars
  <2> QED
    BY <2>1, <2>2, <2>3, <2>4, <2>5, <2>6, <2>7, <2>8 DEF Next, ParentStep, ChildStep
<1>4. Starting' /\ FailureIsClean'
  <2> USE DEF Starting, FailureIsClean, ParentTo, ChildTo
  <2>1. CASE ForkFails \/ Fork \/ Close
    BY <2>1 DEF ForkFails, Fork, Close
  <2>2. CASE SyncRead \/ Maps \/ Go \/ SendPiece \/ SendDone \/ Cgroup
    BY <2>2 DEF SyncRead, Maps, Go, SendPiece, SendDone, Cgroup, After
  (* Nothing has been sent, or not everything: no child has all of it.     *)
  <2>3. CASE SyncBroken \/ SendBroken
    <3>1. sent < size
      BY <2>3 DEF SyncBroken, SendBroken, Transfer, TypeOK
    <3>2. got < size
      BY <3>1 DEF Transfer, TypeOK
    <3>3. grand = "none"
      BY <3>2 DEF Transfer, TypeOK
    <3> QED
      BY <2>3, <3>3, GivingUp DEF SyncBroken, SendBroken
  <2>4. CASE Stop \/ Crash
    BY <2>4 DEF Stop, Crash, ChildKilled, Alive, Handshaking
  <2>5. CASE ChildReady \/ ChildGo \/ ChildPiece \/ ChildDecoded
    BY <2>5 DEF ChildReady, ChildGo, ChildPiece, ChildDecoded
  <2>6. CASE ChildBroken \/ ChildClone \/ ChildReaps \/ ChildDies
    BY <2>6 DEF ChildBroken, ChildClone, ChildReaps, ChildDies, Alive, Handshaking
  <2>7. CASE GrandExec \/ GrandExits \/ UNCHANGED vars
    BY <2>7 DEF GrandExec, GrandExits, vars
  <2> QED
    BY <2>1, <2>2, <2>3, <2>4, <2>5, <2>6, <2>7 DEF Next, ParentStep, ChildStep
<1> QED  BY <1>1, <1>2, <1>3, <1>4

(* It holds in every state.                                                *)
LEMMA InvAlways == Spec => []HandshakeInv
BY InvInit, InvNext, PTL DEF Spec

-----------------------------------------------------------------------------

(* Parent, child, grandchild and pipes keep their types, and no pipe holds *)
(* more than its capacity.                                                 *)
THEOREM HandshakeTyped == Spec => []TypeOK
BY InvAlways, PTL DEF HandshakeInv

(* Whatever the configuration's length, the container's process is cloned  *)
(* only after the parent has been at the id maps.                          *)
THEOREM MapsComeFirst == Spec => []MappedFirst
<1>1. HandshakeInv => MappedFirst
  BY PiecesAssumption DEF HandshakeInv, TypeOK, Transfer, MappedFirst
<1> QED  BY <1>1, InvAlways, PTL

(* A failed start has started nothing, at every point it may fail.         *)
THEOREM FailedStartsNothing == Spec => []FailureIsClean
BY InvAlways, PTL DEF HandshakeInv

(* Every way out of startNative closes the parent's pipe ends.             *)
THEOREM NoDescriptorLeft == Spec => []DescriptorsClosed
<1>1. HandshakeInv => DescriptorsClosed
  BY DEF HandshakeInv, Holding, ParentHolds, ChildHolds, DescriptorsClosed, Ended
<1> QED  BY <1>1, InvAlways, PTL
=============================================================================
