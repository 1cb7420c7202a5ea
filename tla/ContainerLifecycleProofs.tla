---------------------- MODULE ContainerLifecycleProofs ----------------------
(***************************************************************************)
(* Proofs about ContainerLifecycle, for any sets of containers, requests,  *)
(* names and processes, any set of operations and any number of crashes.   *)
(***************************************************************************)
EXTENDS ContainerLifecycle, TLAPS

(* Which handlers can be at which point of the code, and what their local  *)
(* variables then hold.                                                    *)
Shape(q) ==
    /\ q.step = "PrepareRootfs" => q.op = "start" /\ q.made = NoPid
    /\ q.step = "Launch" => q.op \in {"start", "restart"} /\ q.made = NoPid
    /\ q.step = "WritePid" => q.made # NoPid
    /\ q.step = "StopWait" =>
          q.op \in {"stop", "restart", "remove_force", "kill"} /\ q.made = NoPid
    /\ q.step = "Update" =>
          /\ q.op \in {"start", "stop", "restart", "pause", "unpause"}
          /\ q.op = "start" => q.made # NoPid
    /\ q.step = "Each" => q.op \in {"create", "prune", "list"}
    /\ q.step = "DeleteGet" => q.op \in {"remove", "remove_force", "prune"}
    /\ q.step \in {"DeleteDir", "DeleteRecord"} =>
          q.op \in {"create", "remove", "remove_force", "prune"}
    /\ q.step = "CreateSave" => q.op = "create"
    /\ q.made # NoPid => q.op \in {"start", "restart"}
    /\ q.op \in {"start", "stop", "restart", "kill", "remove_force"} => q.id # NoId
    /\ q.op = "create" => q.ref \in Names

TypeInv == TypeOK /\ \A r \in Reqs : Shape(req[r])

-----------------------------------------------------------------------------
(* The operators the actions are built from.                               *)

(* What a handler holds when it starts is well typed.                      *)
LEMMA HandlingType ==
    ASSUME NEW op \in AllOps \cup {"none"}, NEW s \in Steps, NEW x \in Refs \cup {NoId},
           NEW i \in Ids \cup {NoId}, NEW c \in RecordOrNone, NEW p \in Pids \cup {NoPid}
    PROVE  Handling(op, s, x, i, c, p) \in Request
BY DEF Handling, Request, Nothing, RecordOrNone

(* So is a handler that has nothing to do.                                 *)
LEMMA IdleType == Idle \in Request /\ Shape(Idle)
<1>1. Idle \in Request
  BY HandlingType DEF Idle, Steps, RecordOrNone
<1>2. Shape(Idle)
  BY DEF Idle, Handling, Shape, NoPid
<1> QED
  BY <1>1, <1>2

(* A process that nobody waits for yet has a waiter of the type.           *)
LEMMA NoWaiterType == NoWaiter \in Waiter
BY DEF NoWaiter, Waiter, RecordOrNone

(* A lookup finds containers that have a record.                           *)
LEMMA GetType ==
    ASSUME TypeOK, NEW x, NEW i \in Get(x)
    PROVE  i \in Ids /\ i # NoId /\ i \in Stored /\ rec[i] \in Record
BY IdsAssumption DEF TypeOK, Get, Stored, RecordOrNone, NoId

(* A file that exists holds a record.                                      *)
LEMMA StoredType ==
    ASSUME TypeOK, NEW i \in Stored
    PROVE  i \in Ids /\ i # NoId /\ rec[i] \in Record /\ rec[i].pid \in Pids \cup {NoPid}
BY IdsAssumption DEF TypeOK, Stored, RecordOrNone, Record, NoId

(* Whatever a handler does to a record leaves a record.                    *)
LEMMA ChangeType ==
    ASSUME NEW c \in Record, NEW p \in Pids \cup {NoPid}, NEW n \in Names
    PROVE  /\ MarkRunning(c, p) \in Record
           /\ MarkExited(c) \in Record
           /\ MarkGone(c) \in Record
           /\ MarkStopped(c) \in Record
           /\ MarkHalted(c) \in Record
           /\ MarkPaused(c) \in Record
           /\ MarkUnpaused(c) \in Record
           /\ Renamed(c, n) \in Record
           /\ NewRecord(n) \in Record
BY DEF MarkRunning, MarkExited, MarkGone, MarkStopped, MarkHalted, MarkPaused,
       MarkUnpaused, Renamed, NewRecord, Record, Status, NoPid

(* A listing holds records.                                                *)
LEMMA SnapshotType ==
    ASSUME TypeOK, NEW S
    PROVE  Snapshot(S) \in [Ids -> RecordOrNone]
BY DEF TypeOK, Snapshot, RecordOrNone

(* Signals and waits leave every process in a known state.                 *)
LEMMA SignalType ==
    ASSUME TypeOK, NEW p
    PROVE  /\ Killed(p) \in [Pids -> ProcState]
           /\ Suspended(p) \in [Pids -> ProcState]
           /\ Resumed(p) \in [Pids -> ProcState]
           /\ Reaped(p) \in [Pids -> ProcState]
BY DEF TypeOK, Killed, Suspended, Resumed, Reaped, ProcState

(* Replacing, or moving, one handler keeps the others' types.              *)
LEMMA ReqUpdate ==
    ASSUME TypeInv, NEW r \in Reqs, NEW q \in Request, Shape(q),
           req' = [req EXCEPT ![r] = q]
    PROVE  req' \in [Reqs -> Request] /\ \A s \in Reqs : Shape(req'[s])
BY DEF TypeInv, TypeOK

-----------------------------------------------------------------------------
(* Type correctness.                                                       *)

(* Types and shapes hold initially.                                        *)
LEMMA TypeInit == Init => TypeInv
<1> SUFFICES ASSUME Init PROVE TypeInv
  OBVIOUS
<1>1. rec \in [Ids -> RecordOrNone]
  BY ChangeType DEF Init, RecordOrNone, NewRecord, Record, Status, NoPid
<1>2. req \in [Reqs -> Request] /\ \A r \in Reqs : Shape(req[r])
  BY IdleType DEF Init
<1>3. waiter \in [Pids -> Waiter]
  BY NoWaiterType DEF Init
<1> QED
  BY <1>1, <1>2, <1>3, IdsAssumption DEF Init, TypeInv, TypeOK, ProcState, NoPid, NoId

(* The handler a new request starts is well typed and well shaped.         *)
LEMMA TypeBegin ==
    ASSUME TypeInv, NEW r \in Reqs, Begin(r)
    PROVE  TypeInv'
<1> DEFINE Held(q) == q \in Request /\ Shape(q)
<1>0. ASSUME NEW op \in AllOps, op # "create", NEW s \in {"PrepareRootfs", "StopWait", "Update", "Save", "Each", "DeleteGet"},
             NEW x \in Refs \cup {NoId}, NEW i \in Ids \cup {NoId},
             NEW c \in RecordOrNone, NEW p \in Pids \cup {NoPid},
             s \in {"PrepareRootfs"} => op = "start",
             s = "StopWait" => op \in {"stop", "restart", "remove_force", "kill"},
             s = "Update" => op \in {"restart", "pause", "unpause"},
             s = "Each" => op \in {"prune", "list"},
             s = "DeleteGet" => op = "remove",
             op \in {"prune", "list"} \/ i # NoId
      PROVE  Held(Handling(op, s, x, i, c, p))
  <2>1. Handling(op, s, x, i, c, p) \in Request
    BY HandlingType DEF Steps
  <2>2. Shape(Handling(op, s, x, i, c, p))
    BY <1>0 DEF Shape, Handling, NoPid
  <2> QED
    BY <2>1, <2>2
<1>. NoId \in Refs \cup {NoId} /\ NoId \in Ids \cup {NoId} /\ NoPid \in Pids \cup {NoPid}
     /\ NoRecord \in RecordOrNone
  BY DEF RecordOrNone
<1> USE DEF Accept
<1>1. CASE CreateBegin(r)
  <2>1. PICK i \in fresh, n \in Names :
            /\ req' = [req EXCEPT ![r] =
                         [Handling("create", "Each", n, NoId, NoRecord, NoPid)
                             EXCEPT !.new = i, !.todo = Snapshot(Named(n))]]
            /\ fresh' = fresh \ {i}
            /\ UNCHANGED <<rec, dir, pidfile, proc, owner, waiter, crashes, menu>>
    BY <1>1 DEF CreateBegin
  <2>2. Snapshot(Named(n)) \in [Ids -> RecordOrNone] /\ i \in Ids
    BY SnapshotType DEF TypeInv, TypeOK
  <2>3. Held([Handling("create", "Each", n, NoId, NoRecord, NoPid)
                 EXCEPT !.new = i, !.todo = Snapshot(Named(n))])
    BY <2>2 DEF Handling, Request, Shape, Steps, AllOps, Refs, RecordOrNone, NoPid
  <2>4. fresh' \subseteq Ids
    BY <2>1 DEF TypeInv, TypeOK
  <2> QED
    BY <2>1, <2>3, <2>4, ReqUpdate DEF TypeInv, TypeOK
<1>2. CASE StartBegin(r)
  <2>1. PICK i \in Stored : StartBegin(r)!(i)
    BY <1>2 DEF StartBegin
  <2>2. i \in Ids /\ i # NoId /\ rec[i] \in Record /\ rec[i].pid \in Pids \cup {NoPid}
    BY StoredType DEF TypeInv
  <2>3. Held(Handling("start", "PrepareRootfs", NoId, i, NoRecord, NoPid))
    BY <1>0, <2>2 DEF AllOps, RecordOrNone
  <2> QED
    BY <2>1, <2>3, ReqUpdate DEF TypeInv, TypeOK
<1>3. CASE StopBegin(r)
  <2>1. PICK i \in Stored : StopBegin(r)!(i)
    BY <1>3 DEF StopBegin
  <2>2. i \in Ids /\ i # NoId /\ rec[i] \in Record /\ rec[i].pid \in Pids \cup {NoPid}
    BY StoredType DEF TypeInv
  <2>3. Held(Handling("stop", "StopWait", NoId, i, NoRecord, rec[i].pid))
    BY <1>0, <2>2 DEF AllOps, RecordOrNone
  <2> QED
    BY <2>1, <2>3, ReqUpdate DEF TypeInv, TypeOK
<1>4. CASE RestartBegin(r)
  BY <1>4, <1>0, GetType, StoredType, ReqUpdate DEF RestartBegin, TypeInv, TypeOK, AllOps
<1>5. CASE KillBegin(r)
  <2>1. PICK i \in Stored : KillBegin(r)!(i)
    BY <1>5 DEF KillBegin
  <2>2. i \in Ids /\ i # NoId /\ rec[i] \in Record /\ rec[i].pid \in Pids \cup {NoPid}
    BY StoredType DEF TypeInv
  <2>3. Held(Handling("kill", "StopWait", NoId, i, NoRecord, rec[i].pid))
    BY <1>0, <2>2 DEF AllOps, RecordOrNone
  <2> QED
    BY <2>1, <2>3, SignalType, ReqUpdate DEF TypeInv, TypeOK
<1>6. CASE RemoveBegin(r)
  BY <1>6, <1>0, GetType, ReqUpdate DEF RemoveBegin, TypeInv, TypeOK, AllOps
<1>7. CASE RemoveForceBegin(r)
  BY <1>7, <1>0, GetType, StoredType, SignalType, ReqUpdate
     DEF RemoveForceBegin, TypeInv, TypeOK, AllOps
<1>8. CASE PruneBegin(r)
  <2> DEFINE q == [Handling("prune", "Each", NoId, NoId, NoRecord, NoPid)
                      EXCEPT !.todo = Snapshot({i \in Stored : ~rec[i].running})]
  <2>1. Held(q)
    BY SnapshotType
       DEF Shape, Request, Handling, AllOps, Steps, RecordOrNone, TypeInv, NoPid
  <2> QED
    BY <1>8, <2>1, ReqUpdate DEF PruneBegin, TypeInv, TypeOK
<1>9. CASE ListBegin(r)
  <2> DEFINE q == [Handling("list", "Each", NoId, NoId, NoRecord, NoPid)
                      EXCEPT !.todo = Snapshot({i \in Stored : rec[i].running})]
  <2>1. Held(q)
    BY SnapshotType
       DEF Shape, Request, Handling, AllOps, Steps, RecordOrNone, TypeInv, NoPid
  <2> QED
    BY <1>9, <2>1, ReqUpdate DEF ListBegin, TypeInv, TypeOK
<1>10. CASE RenameBegin(r)
  <2>1. PICK i \in Stored, n \in Names : RenameBegin(r)!(i, n)
    BY <1>10 DEF RenameBegin
  <2>2. i \in Ids /\ i # NoId /\ rec[i] \in Record /\ rec[i].pid \in Pids \cup {NoPid}
    BY StoredType DEF TypeInv
  <2>3. Held(Handling("rename", "Save", NoId, i, Renamed(rec[i], n), NoPid))
    BY <1>0, <2>2, ChangeType DEF AllOps, RecordOrNone
  <2> QED
    BY <2>1, <2>3, ReqUpdate DEF TypeInv, TypeOK
<1>11. CASE PauseBegin(r)
  BY <1>11, <1>0, GetType, SignalType, ReqUpdate DEF PauseBegin, TypeInv, TypeOK, AllOps
<1>12. CASE UnpauseBegin(r)
  BY <1>12, <1>0, GetType, SignalType, ReqUpdate DEF UnpauseBegin, TypeInv, TypeOK, AllOps
<1> QED
  BY <1>1, <1>2, <1>3, <1>4, <1>5, <1>6, <1>7, <1>8, <1>9, <1>10, <1>11, <1>12 DEF Begin

(* So is the handler after each of its steps.                              *)
LEMMA TypeStep ==
    ASSUME TypeInv, NEW r \in Reqs, Step(r)
    PROVE  TypeInv'
<1>0. req[r] \in Request /\ Shape(req[r]) /\ Idle \in Request /\ Shape(Idle)
  BY IdleType DEF TypeInv, TypeOK
<1>1. ASSUME NEW s \in Steps, Goto(r, s), Shape([req[r] EXCEPT !.step = s])
      PROVE  req' \in [Reqs -> Request] /\ \A t \in Reqs : Shape(req'[t])
  <2>1. [req[r] EXCEPT !.step = s] \in Request
    BY <1>0 DEF Request
  <2>2. req' = [req EXCEPT ![r] = [req[r] EXCEPT !.step = s]]
    BY <1>1 DEF Goto, TypeInv, TypeOK
  <2> QED
    BY <2>1, <2>2, <1>1, ReqUpdate
<1>2. ASSUME Answer(r)
      PROVE  req' \in [Reqs -> Request] /\ \A t \in Reqs : Shape(req'[t])
  BY <1>2, <1>0, ReqUpdate DEF Answer
<1>3. ASSUME req[r].step = "StopWait", AfterStop(r)
      PROVE  req' \in [Reqs -> Request] /\ \A t \in Reqs : Shape(req'[t])
  <2>1. CASE req[r].op \in {"stop", "restart"}
    BY <2>1, <1>0, <1>1, <1>3 DEF AfterStop, Shape, Request, Steps
  <2>2. CASE req[r].op = "remove_force"
    BY <2>2, <1>0, <1>1, <1>3 DEF AfterStop, Shape, Request, Steps
  <2>3. CASE req[r].op = "kill"
    BY <2>3, <1>2, <1>3 DEF AfterStop
  <2> QED
    BY <2>1, <2>2, <2>3, <1>0, <1>3 DEF Shape
<1>4. ASSUME AfterSave(r)
      PROVE  /\ req' \in [Reqs -> Request] /\ \A t \in Reqs : Shape(req'[t])
             /\ waiter' \in [Pids -> Waiter]
  <2>0. ASSUME NEW st \in Steps
        PROVE  [req[r] EXCEPT !.step = st, !.copy = NoRecord] \in Request
    BY <1>0 DEF Request, RecordOrNone
  <2>1. /\ [req[r] EXCEPT !.step = "Each", !.copy = NoRecord] \in Request
        /\ [req[r] EXCEPT !.step = "Launch", !.copy = NoRecord] \in Request
    BY <2>0 DEF Steps
  <2>2. req[r].op = "list" => Shape([req[r] EXCEPT !.step = "Each", !.copy = NoRecord])
    BY <1>0 DEF Shape, Request
  <2>3. req[r].op = "restart" /\ req[r].made = NoPid =>
            Shape([req[r] EXCEPT !.step = "Launch", !.copy = NoRecord])
    BY <1>0 DEF Shape, Request
  <2>4. req' \in [Reqs -> Request] /\ \A t \in Reqs : Shape(req'[t])
    <3>1. CASE req[r].op = "list"
      BY <3>1, <1>4, <2>1, <2>2, ReqUpdate DEF AfterSave
    <3>2. CASE req[r].op = "restart" /\ req[r].made = NoPid
      BY <3>2, <1>4, <2>1, <2>3, ReqUpdate DEF AfterSave
    <3>3. CASE req[r].op # "list" /\ ~(req[r].op = "restart" /\ req[r].made = NoPid)
      BY <3>3, <1>0, <1>4, ReqUpdate DEF AfterSave
    <3> QED
      BY <3>1, <3>2, <3>3
  <2>5. req[r].made # NoPid =>
            [NoWaiter EXCEPT !.step = "Wait", !.after = req[r].op,
                !.key = IF req[r].op = "restart" THEN req[r].ref ELSE req[r].id] \in Waiter
    BY <1>0 DEF NoWaiter, Waiter, Shape, Request, Refs, RecordOrNone, NoId
  <2>6. waiter' \in [Pids -> Waiter]
    BY <1>4, <2>5 DEF AfterSave, TypeInv, TypeOK
  <2> QED
    BY <2>4, <2>6
<1>5. CASE PrepareRootfs(r)
  <2>1. "Launch" \in Steps /\ Shape([req[r] EXCEPT !.step = "Launch"])
    BY <1>0, <1>5 DEF Shape, Request, Steps, PrepareRootfs
  <2>2. req' \in [Reqs -> Request] /\ \A t \in Reqs : Shape(req'[t])
    BY <1>5, <2>1, <1>1, <1>2 DEF PrepareRootfs
  <2> QED
    BY <1>5, <2>2 DEF PrepareRootfs, TypeInv, TypeOK
<1>6. CASE Launch(r)
  <2>1. PICK p \in Pids :
            /\ proc' = [proc EXCEPT ![p] = "alive"]
            /\ owner' = [owner EXCEPT ![p] = req[r].id]
            /\ req' = [req EXCEPT ![r].step = "WritePid", ![r].made = p]
    BY <1>6 DEF Launch
  <2>2. [req[r] EXCEPT !.step = "WritePid", !.made = p] \in Request
    BY <1>0 DEF Request, Steps
  <2>3. Shape([req[r] EXCEPT !.step = "WritePid", !.made = p])
    BY <1>0, <1>6, PidsAssumption DEF Shape, Request, Launch, NoPid
  <2>4. req' = [req EXCEPT ![r] = [req[r] EXCEPT !.step = "WritePid", !.made = p]]
    BY <2>1 DEF TypeInv, TypeOK
  <2>5. req' \in [Reqs -> Request] /\ \A t \in Reqs : Shape(req'[t])
    BY <2>2, <2>3, <2>4, ReqUpdate
  <2>6. proc' \in [Pids -> ProcState] /\ owner' \in [Pids -> Ids \cup {NoId}]
    BY <2>1, <1>0 DEF TypeInv, TypeOK, ProcState, Request
  <2> QED
    BY <1>6, <2>5, <2>6 DEF Launch, TypeInv, TypeOK
<1>7. CASE LaunchFails(r)
  BY <1>7, <1>2 DEF LaunchFails, TypeInv, TypeOK, ProcState
<1>8. CASE WritePid(r)
  <2>1. "Update" \in Steps /\ Shape([req[r] EXCEPT !.step = "Update"])
    BY <1>0, <1>8 DEF Shape, Request, Steps, WritePid
  <2>2. req' \in [Reqs -> Request] /\ \A t \in Reqs : Shape(req'[t])
    BY <1>8, <2>1, <1>1 DEF WritePid
  <2>3. pidfile' \in [Ids -> Pids \cup {NoPid}]
    BY <1>0, <1>8 DEF WritePid, TypeInv, TypeOK, Request
  <2> QED
    BY <1>8, <2>2, <2>3 DEF WritePid, TypeInv, TypeOK
<1>9. CASE StopExited(r)
  BY <1>9, <1>3, SignalType DEF StopExited, TypeInv, TypeOK
<1>10. CASE StopTimeout(r)
  BY <1>10, <1>3, SignalType DEF StopTimeout, TypeInv, TypeOK
<1>11. CASE Update(r)
  <2>1. PICK i \in Get(UpdateKey(req[r])) :
            req' = [req EXCEPT ![r].step = "Save", ![r].id = i,
                               ![r].copy = Change(req[r], rec[i])]
    BY <1>11 DEF Update
  <2> DEFINE q == [req[r] EXCEPT !.step = "Save", !.id = i,
                                 !.copy = Change(req[r], rec[i])]
  <2>2. i \in Ids /\ i # NoId /\ rec[i] \in Record /\ req[r].made \in Pids \cup {NoPid}
    BY <1>0, GetType DEF TypeInv, Request
  <2>3. req[r].op \in {"start", "stop", "restart", "pause", "unpause"}
    BY <1>0, <1>11 DEF Update, Shape
  <2>4. Change(req[r], rec[i]) \in Record
    BY <2>2, <2>3
       DEF Change, MarkRunning, MarkStopped, MarkHalted, MarkPaused, MarkUnpaused,
           Record, Status, NoPid
  <2>5. q \in Request
    BY <1>0, <2>2, <2>4 DEF Request, Steps, RecordOrNone
  <2>6. Shape(q)
    BY <1>0, <2>2, <2>3 DEF Shape, Request
  <2>7. req' = [req EXCEPT ![r] = q]
    BY <2>1 DEF TypeInv, TypeOK
  <2> QED
    BY <1>11, <2>5, <2>6, <2>7, ReqUpdate DEF Update, TypeInv, TypeOK
<1>12. CASE UpdateMiss(r)
  BY <1>12, <1>4 DEF UpdateMiss, TypeInv, TypeOK
<1>13. CASE Save(r)
  BY <1>0, <1>13, <1>4 DEF Save, TypeInv, TypeOK, Request
<1>14. CASE DeleteGet(r)
  <2>1. PICK i \in Get(req[r].ref) :
            req' = [req EXCEPT ![r].step = "DeleteDir", ![r].id = i]
    BY <1>14 DEF DeleteGet
  <2>2. [req[r] EXCEPT !.step = "DeleteDir", !.id = i] \in Request
    BY <1>0, GetType DEF TypeInv, Request, Steps
  <2>3. Shape([req[r] EXCEPT !.step = "DeleteDir", !.id = i])
    BY <1>0, <1>14, <2>1, GetType DEF Shape, Request, DeleteGet, TypeInv
  <2>4. req' = [req EXCEPT ![r] = [req[r] EXCEPT !.step = "DeleteDir", !.id = i]]
    BY <2>1 DEF TypeInv, TypeOK
  <2> QED
    BY <1>14, <2>2, <2>3, <2>4, ReqUpdate DEF DeleteGet, TypeInv, TypeOK
<1>15. CASE DeleteRefused(r)
  BY <1>15, <1>0, <1>1, <1>2 DEF DeleteRefused, TypeInv, TypeOK, Shape, Request, Steps
<1>16. CASE DeleteDir(r)
  <2>1. "DeleteRecord" \in Steps /\ Shape([req[r] EXCEPT !.step = "DeleteRecord"])
    BY <1>0, <1>16 DEF Shape, Request, Steps, DeleteDir
  <2>2. req' \in [Reqs -> Request] /\ \A t \in Reqs : Shape(req'[t])
    BY <1>16, <2>1, <1>1 DEF DeleteDir
  <2> QED
    BY <1>16, <2>2 DEF DeleteDir, TypeInv, TypeOK
<1>17. CASE DeleteRecord(r)
  BY <1>17, <1>0, <1>1, <1>2
     DEF DeleteRecord, TypeInv, TypeOK, Shape, Request, Steps, RecordOrNone
<1>18. ASSUME NEW s \in {"DeleteDir", "DeleteGet", "Save", "Each"}, NEW i \in Ids,
              NEW x \in Refs \cup {NoId}, NEW c \in RecordOrNone, Take(r, s, i, x, c),
              req[r].op = "create" => x \in Names,
              s = "Each" => req[r].op = "list",
              s = "DeleteGet" => req[r].op = "prune",
              s = "DeleteDir" => req[r].op = "create",
              req[r].op \in {"create", "prune", "list"}
       PROVE  req' \in [Reqs -> Request] /\ \A t \in Reqs : Shape(req'[t])
  <2> DEFINE q == [req[r] EXCEPT !.step = s, !.id = i, !.ref = x, !.copy = c,
                                 !.todo[i] = NoRecord]
  <2>1. q \in Request
    BY <1>0, <1>18 DEF Request, Steps, RecordOrNone
  <2>2. Shape(q)
    BY <1>0, <1>18 DEF Shape, Request
  <2>3. req' = [req EXCEPT ![r] = q]
    BY <1>18 DEF Take
  <2> QED
    BY <2>1, <2>2, <2>3, ReqUpdate
<1>19. /\ NoRecord \in RecordOrNone
       /\ NoId \in Refs \cup {NoId}
       /\ \A i \in Left(req[r]) : i \in Ids /\ req[r].todo[i] \in Record /\ i \in Refs
       /\ req[r].ref \in Refs \cup {NoId}
       /\ req[r].op = "create" => req[r].ref \in Names
  BY <1>0 DEF Left, Request, RecordOrNone, Shape, Refs
<1>20. CASE CreateReplaces(r)
  BY <1>20, <1>18, <1>19 DEF CreateReplaces, IsFirst, TypeInv, TypeOK
<1>21. CASE CreateConflict(r)
  BY <1>21, <1>2 DEF CreateConflict, TypeInv, TypeOK
<1>22. CASE PruneNext(r)
  BY <1>22, <1>18, <1>19 DEF PruneNext, IsFirst, TypeInv, TypeOK
<1>23. CASE ListNext(r)
  <2>1. PICK i \in Ids :
            /\ IsFirst(i, Left(req[r]))
            /\ \/ Take(r, "Save", i, NoId, MarkGone(req[r].todo[i]))
               \/ Take(r, "Each", i, NoId, NoRecord)
    BY <1>23 DEF ListNext
  <2>2. MarkGone(req[r].todo[i]) \in RecordOrNone
    BY <2>1, <1>19 DEF IsFirst, MarkGone, Record, RecordOrNone, Status
  <2> QED
    BY <1>23, <2>1, <2>2, <1>18, <1>19 DEF ListNext, TypeInv, TypeOK
<1>24. CASE EachDone(r)
  BY <1>24, <1>0, <1>1, <1>2 DEF EachDone, TypeInv, TypeOK, Shape, Request, Steps
<1>25. CASE CreateSave(r)
  <2>1. rec' \in [Ids -> RecordOrNone]
    <3>1. req[r].op = "create" => NewRecord(req[r].ref) \in RecordOrNone
      BY <1>19 DEF NewRecord, Record, RecordOrNone, Status, NoPid
    <3> QED
      BY <1>0, <1>25, <3>1 DEF CreateSave, Shape, TypeInv, TypeOK
  <2> QED
    BY <1>25, <2>1, <1>2 DEF CreateSave, TypeInv, TypeOK
<1> QED
  BY <1>5, <1>6, <1>7, <1>8, <1>9, <1>10, <1>11, <1>12, <1>13, <1>14, <1>15, <1>16,
     <1>17, <1>20, <1>21, <1>22, <1>23, <1>24, <1>25 DEF Step

(* And after a step of a waiting goroutine.                                *)
LEMMA TypeWaiter ==
    ASSUME TypeInv, NEW p \in Pids, WaiterStep(p)
    PROVE  TypeInv'
<1>0. waiter[p] \in Waiter
  BY DEF TypeInv, TypeOK
<1>1. CASE WaiterReap(p)
  BY <1>0, <1>1, SignalType DEF WaiterReap, TypeInv, TypeOK, Waiter
<1>2. CASE WaiterGet(p)
  <2>1. PICK i \in Get(waiter[p].key) :
            waiter' = [waiter EXCEPT ![p].step = "Save", ![p].id = i,
                         ![p].copy = IF waiter[p].after = "restart"
                                     THEN MarkGone(rec[i]) ELSE MarkExited(rec[i])]
    BY <1>2 DEF WaiterGet
  <2>2. i \in Ids /\ rec[i] \in Record
    BY GetType DEF TypeInv
  <2>3. MarkGone(rec[i]) \in RecordOrNone /\ MarkExited(rec[i]) \in RecordOrNone
    BY <2>2 DEF MarkGone, MarkExited, Record, Status, RecordOrNone
  <2>4. waiter' \in [Pids -> Waiter]
    BY <1>0, <2>1, <2>2, <2>3 DEF TypeInv, TypeOK, Waiter
  <2> QED
    BY <1>2, <2>4 DEF WaiterGet, TypeInv, TypeOK
<1>3. CASE WaiterMiss(p)
  BY <1>3, NoWaiterType DEF WaiterMiss, TypeInv, TypeOK
<1>4. CASE WaiterSave(p)
  BY <1>0, <1>4, NoWaiterType DEF WaiterSave, TypeInv, TypeOK, Waiter
<1> QED
  BY <1>1, <1>2, <1>3, <1>4 DEF WaiterStep

(* And every step keeps them.                                              *)
LEMMA TypeNext == TypeInv /\ [Next]_vars => TypeInv'
<1> SUFFICES ASSUME TypeInv, [Next]_vars PROVE TypeInv'
  OBVIOUS
<1>1. ASSUME NEW p \in Pids, ProcExit(p) PROVE TypeInv'
  BY <1>1 DEF ProcExit, TypeInv, TypeOK, ProcState
<1>2. CASE Crash
  BY <1>2, IdleType, NoWaiterType DEF Crash, TypeInv, TypeOK, ProcState
<1>3. CASE UNCHANGED vars
  BY <1>3 DEF vars, TypeInv, TypeOK
<1> QED
  BY <1>1, <1>2, <1>3, TypeBegin, TypeStep, TypeWaiter DEF Next

(* The records, the handlers, the goroutines and the processes keep their  *)
(* types whatever the requests, the processes and crashes do.              *)
THEOREM TypeCorrect == Spec => []TypeOK
<1>1. Spec => []TypeInv
  BY TypeInit, TypeNext, PTL DEF Spec
<1>2. TypeInv => TypeOK
  BY DEF TypeInv
<1> QED
  BY <1>1, <1>2, PTL

-----------------------------------------------------------------------------
(* Soundness of the records.  Beside the types it takes that a process a   *)
(* container owns has been launched, so that a launch, which takes a       *)
(* process nobody has launched, takes no process out of a record's hands.  *)

Launched == \A p \in Pids : owner[p] # NoId => proc[p] # "none"

SoundInv == TypeInv /\ Launched /\ RecordSound

(* The handlers' changes keep a record sound; marking it running needs a   *)
(* process of the container.                                               *)
LEMMA SoundMarks ==
    ASSUME NEW c \in Record, NEW i \in Ids, Sound(c, i), NEW n \in Names
    PROVE  /\ Sound(MarkExited(c), i)
           /\ Sound(MarkGone(c), i)
           /\ Sound(MarkStopped(c), i)
           /\ Sound(MarkHalted(c), i)
           /\ Sound(MarkPaused(c), i)
           /\ Sound(MarkUnpaused(c), i)
           /\ Sound(Renamed(c, n), i)
           /\ \A p \in Pids : owner[p] = i => Sound(MarkRunning(c, p), i)
<1>1. c # NoRecord
  BY NoRecordAssumption
<1> QED
  BY <1>1, PidsAssumption, IdsAssumption
     DEF NoId, Sound, MarkExited, MarkGone, MarkStopped, MarkHalted, MarkPaused,
         MarkUnpaused, Renamed, MarkRunning, Record, NoPid

(* An idle handler holds nothing.                                          *)
LEMMA IdleSound == HandlerSound(Idle) /\ WaiterSound(NoWaiter)
BY DEF HandlerSound, WaiterSound, Idle, Handling, Nothing, NoWaiter, Sound, NoPid

(* The records of an earlier session name no process.                      *)
LEMMA SoundInit == Init => SoundInv
<1> SUFFICES ASSUME Init PROVE SoundInv
  OBVIOUS
<1>1. \A i \in Ids : Sound(rec[i], i)
  BY DEF Init, Sound, NewRecord, NoPid
<1>2. RecordSound
  BY <1>1, IdleSound DEF Init, RecordSound
<1> QED
  BY <1>2, TypeInit DEF Init, SoundInv, Launched

(* A lookup by id finds that container or nothing: no container's name is  *)
(* another one's id.                                                       *)
LEMMA GetById ==
    ASSUME TypeOK, NEW j \in Ids \cup {NoId}, NEW i \in Get(j)
    PROVE  i = j
<1>1. j \notin Stored => Named(j) = {}
  BY NamesAssumption DEF Named, Stored, TypeOK, RecordOrNone, Record, NoId
<1> QED
  BY <1>1 DEF Get, IsFirst

(* What a lookup or a listing returns is sound.                            *)
LEMMA StoredSound ==
    ASSUME SoundInv, NEW i \in Stored
    PROVE  i \in Ids /\ rec[i] \in Record /\ Sound(rec[i], i)
BY StoredType DEF SoundInv, TypeInv, RecordSound

(* What a lookup finds is sound.                                           *)
LEMMA GetSound ==
    ASSUME SoundInv, NEW x, NEW i \in Get(x)
    PROVE  i \in Ids /\ rec[i] \in Record /\ Sound(rec[i], i)
BY GetType DEF SoundInv, TypeInv, RecordSound

(* And so is each record of a listing.                                     *)
LEMMA SnapshotSound ==
    ASSUME SoundInv, NEW S, NEW i \in Ids
    PROVE  Sound(Snapshot(S)[i], i)
BY DEF SoundInv, RecordSound, Snapshot, Sound

(* When one handler moves and no process is launched, only what that       *)
(* handler holds has to be looked at again.                                *)
LEMMA HandlerMoves ==
    ASSUME SoundInv, NEW r \in Reqs, NEW q, HandlerSound(q),
           req' = [req EXCEPT ![r] = q], owner' = owner
    PROVE  \A s \in Reqs : HandlerSound(req[s])'
<1> SUFFICES ASSUME NEW s \in Reqs PROVE HandlerSound(req[s])'
  OBVIOUS
<1>1. req'[s] = IF s = r THEN q ELSE req[s]
  BY DEF SoundInv, TypeInv, TypeOK
<1>2. HandlerSound(req[s])
  BY DEF SoundInv, RecordSound
<1>3. CASE s = r
  BY <1>1, <1>3 DEF HandlerSound, Sound
<1>4. CASE s # r
  BY <1>1, <1>2, <1>4 DEF HandlerSound, Sound
<1> QED
  BY <1>3, <1>4

(* When the owners stay, so does the soundness of what is not touched.     *)
LEMMA Untouched ==
    ASSUME SoundInv, owner' = owner
    PROVE  /\ rec' = rec => \A i \in Ids : Sound(rec[i], i)'
           /\ waiter' = waiter => \A p \in Pids : WaiterSound(waiter[p])'
BY DEF SoundInv, RecordSound, WaiterSound, Sound

(* Signals launch nothing and undo no launch.                              *)
LEMMA SignalLaunched ==
    ASSUME SoundInv, NEW p, owner' = owner,
           proc' \in {proc, Killed(p), Suspended(p), Resumed(p), Reaped(p)}
    PROVE  Launched'
BY DEF SoundInv, TypeInv, TypeOK, Launched, Killed, Suspended, Resumed, Reaped, Live

(* A handler that has read no record yet holds nothing unsound.            *)
LEMMA HandlingSound ==
    ASSUME NEW op, NEW st, st # "Save", NEW x, NEW i, NEW p,
           st = "StopWait" /\ p # NoPid => owner[p] = i
    PROVE  HandlerSound(Handling(op, st, x, i, NoRecord, p))
BY DEF HandlerSound, Handling, Nothing, Sound, NoPid

(* A request that begins copies sound records and writes none.             *)
LEMMA SoundBegin ==
    ASSUME SoundInv, NEW r \in Reqs, Begin(r)
    PROVE  Launched' /\ RecordSound'
<1>0. /\ rec' = rec /\ waiter' = waiter /\ owner' = owner
      /\ \E p : proc' \in {proc, Killed(p), Suspended(p), Resumed(p)}
  BY DEF Begin, CreateBegin, StartBegin, StopBegin, RestartBegin, KillBegin, RemoveBegin,
         RemoveForceBegin, PruneBegin, ListBegin, RenameBegin, PauseBegin, UnpauseBegin
<1>a. ASSUME NEW q, req' = [req EXCEPT ![r] = q], HandlerSound(q)
      PROVE  Launched' /\ RecordSound'
  BY <1>0, <1>a, SignalLaunched, HandlerMoves, Untouched DEF RecordSound
<1>b. ASSUME NEW i \in Stored
      PROVE  rec[i].running \in BOOLEAN /\ (rec[i].pid # NoPid => owner[rec[i].pid] = i)
  BY StoredSound, NoRecordAssumption DEF Sound, Record
<1>c. ASSUME NEW op, NEW S
      PROVE  HandlerSound([Handling(op, "Each", NoId, NoId, NoRecord, NoPid)
                              EXCEPT !.todo = Snapshot(S)])
  BY SnapshotSound DEF HandlerSound, Handling, NoPid
<1>d. ASSUME NEW op, NEW st \in {"PrepareRootfs", "Update", "DeleteGet"}, NEW x, NEW i
      PROVE  HandlerSound(Handling(op, st, x, i, NoRecord, NoPid))
  BY HandlingSound
<1>e. ASSUME NEW op, NEW x, NEW i \in Stored
      PROVE  HandlerSound(Handling(op, "StopWait", x, i, NoRecord, rec[i].pid))
  BY <1>b, HandlingSound
<1>1. CASE CreateBegin(r)
  <2>1. PICK i \in fresh, n \in Names :
            req' = [req EXCEPT ![r] =
                      [Handling("create", "Each", n, NoId, NoRecord, NoPid)
                          EXCEPT !.new = i, !.todo = Snapshot(Named(n))]]
    BY <1>1 DEF CreateBegin, Accept
  <2>2. HandlerSound([Handling("create", "Each", n, NoId, NoRecord, NoPid)
                         EXCEPT !.new = i, !.todo = Snapshot(Named(n))])
    BY SnapshotSound DEF HandlerSound, Handling, NoPid
  <2> QED
    BY <1>a, <2>1, <2>2
<1>2. CASE StartBegin(r)
  BY <1>2, <1>a, <1>d DEF StartBegin, Accept
<1>3. CASE StopBegin(r)
  BY <1>3, <1>a, <1>e DEF StopBegin, Accept
<1>4. CASE RestartBegin(r)
  <2>1. PICK x \in Refs : \E i \in Get(x) :
            req' = [req EXCEPT ![r] =
                IF rec[i].running
                THEN Handling("restart", "StopWait", x, i, NoRecord, rec[i].pid)
                ELSE Handling("restart", "Update", x, i, NoRecord, NoPid)]
    BY <1>4 DEF RestartBegin, Accept
  <2>2. PICK i \in Stored :
            req' = [req EXCEPT ![r] =
                IF rec[i].running
                THEN Handling("restart", "StopWait", x, i, NoRecord, rec[i].pid)
                ELSE Handling("restart", "Update", x, i, NoRecord, NoPid)]
    BY <2>1, GetType DEF SoundInv, TypeInv
  <2>3. HandlerSound(Handling("restart", "StopWait", x, i, NoRecord, rec[i].pid))
    BY <1>e
  <2>4. HandlerSound(Handling("restart", "Update", x, i, NoRecord, NoPid))
    BY <1>d
  <2> QED
    BY <2>2, <2>3, <2>4, <1>a
<1>5. CASE KillBegin(r)
  BY <1>5, <1>a, <1>e DEF KillBegin, Accept
<1>6. CASE RemoveBegin(r)
  BY <1>6, <1>a, <1>d DEF RemoveBegin, Accept
<1>7. CASE RemoveForceBegin(r)
  BY <1>7, <1>a, <1>e, GetType DEF RemoveForceBegin, Accept, SoundInv, TypeInv
<1>8. CASE PruneBegin(r)
  BY <1>8, <1>a, <1>c DEF PruneBegin, Accept
<1>9. CASE ListBegin(r)
  BY <1>9, <1>a, <1>c DEF ListBegin, Accept
<1>10. CASE RenameBegin(r)
  <2>1. PICK i \in Stored, n \in Names :
            req' = [req EXCEPT ![r] =
                      Handling("rename", "Save", NoId, i, Renamed(rec[i], n), NoPid)]
    BY <1>10 DEF RenameBegin, Accept
  <2>2. Sound(Renamed(rec[i], n), i)
    BY StoredSound, SoundMarks
  <2>3. HandlerSound(Handling("rename", "Save", NoId, i, Renamed(rec[i], n), NoPid))
    BY <2>2 DEF HandlerSound, Handling, Nothing, Sound, NoPid
  <2> QED
    BY <1>a, <2>1, <2>3
<1>11. CASE PauseBegin(r)
  BY <1>11, <1>a, <1>d DEF PauseBegin, Accept
<1>12. CASE UnpauseBegin(r)
  BY <1>12, <1>a, <1>d DEF UnpauseBegin, Accept
<1> QED
  BY <1>1, <1>2, <1>3, <1>4, <1>5, <1>6, <1>7, <1>8, <1>9, <1>10, <1>11, <1>12 DEF Begin

(* A handler writes what is sound: its copy is, a change keeps it so, and  *)
(* the pid of a launch gets its owner with the launch.                     *)
LEMMA SoundStep ==
    ASSUME SoundInv, NEW r \in Reqs, Step(r)
    PROVE  Launched' /\ RecordSound'
<1>0. /\ req[r] \in Request /\ Shape(req[r]) /\ HandlerSound(req[r])
      /\ req \in [Reqs -> Request]
  BY DEF SoundInv, TypeInv, TypeOK, RecordSound
<1>a. ASSUME NEW q, req' = [req EXCEPT ![r] = q], HandlerSound(q),
             owner' = owner, rec' = rec, waiter' = waiter
      PROVE  RecordSound'
  BY <1>a, HandlerMoves, Untouched DEF RecordSound
<1>b. ASSUME NEW s, s \notin {"Save", "StopWait"}
      PROVE  HandlerSound([req[r] EXCEPT !.step = s])
  BY <1>0, <1>b DEF HandlerSound, Request
<1>c. ASSUME NEW s, s \notin {"Save", "StopWait"}, Goto(r, s) \/ Answer(r),
             owner' = owner, rec' = rec, waiter' = waiter
      PROVE  RecordSound'
  <2>1. CASE Answer(r)
    BY <2>1, <1>c, <1>a, IdleSound DEF Answer
  <2>2. CASE Goto(r, s)
    <3>1. req' = [req EXCEPT ![r] = [req[r] EXCEPT !.step = s]]
      BY <2>2, <1>0 DEF Goto
    <3> QED
      BY <3>1, <1>a, <1>b, <1>c
  <2> QED
    BY <2>1, <2>2, <1>c
<1>d. ASSUME owner' = owner, proc' = proc
      PROVE  Launched'
  BY <1>d DEF SoundInv, Launched
<1>e. ASSUME req[r].step = "StopWait", AfterStop(r),
             owner' = owner, rec' = rec, waiter' = waiter
      PROVE  RecordSound'
  <2>1. req[r].op \in {"stop", "restart", "remove_force", "kill"}
    BY <1>0, <1>e DEF Shape
  <2>2. Goto(r, "Update") \/ Goto(r, "DeleteGet") \/ Answer(r)
    BY <2>1, <1>e DEF AfterStop
  <2> QED
    BY <2>2, <1>c, <1>e
<1>f. ASSUME AfterSave(r), owner' = owner, \A i \in Ids : Sound(rec'[i], i)
      PROVE  RecordSound'
  <2>1. /\ HandlerSound([req[r] EXCEPT !.step = "Each", !.copy = NoRecord])
        /\ HandlerSound([req[r] EXCEPT !.step = "Launch", !.copy = NoRecord])
    BY <1>0 DEF HandlerSound, Request
  <2>2. \A t \in Reqs : HandlerSound(req[t])'
    BY <1>f, <2>1, HandlerMoves, IdleSound DEF AfterSave
  <2>3. \A p \in Pids : WaiterSound(waiter'[p])
    BY <1>f DEF AfterSave, WaiterSound, NoWaiter, SoundInv, TypeInv, TypeOK, RecordSound
  <2> QED
    BY <1>f, <2>2, <2>3 DEF RecordSound, WaiterSound, Sound
<1>g. ASSUME Goto(r, "Each") \/ Answer(r), owner' = owner, waiter' = waiter,
             \A i \in Ids : Sound(rec'[i], i)
      PROVE  RecordSound'
  <2>1. \A t \in Reqs : HandlerSound(req[t])'
    <3>1. CASE Answer(r)
      BY <3>1, <1>g, HandlerMoves, IdleSound DEF Answer
    <3>2. CASE Goto(r, "Each")
      <4>1. req' = [req EXCEPT ![r] = [req[r] EXCEPT !.step = "Each"]]
        BY <3>2, <1>0 DEF Goto
      <4> QED
        BY <4>1, <1>b, <1>g, HandlerMoves
    <3> QED
      BY <3>1, <3>2, <1>g
  <2>2. \A p \in Pids : WaiterSound(waiter[p])'
    BY <1>g, Untouched
  <2> QED
    BY <1>g, <2>1, <2>2 DEF RecordSound, Sound
<1>h. ASSUME NEW s \in {"DeleteDir", "DeleteGet", "Save", "Each"}, NEW i \in Ids,
             NEW x, NEW c, Sound(c, i), Take(r, s, i, x, c), req[r].step = "Each",
             owner' = owner, rec' = rec, waiter' = waiter
      PROVE  RecordSound'
  <2> DEFINE q == [req[r] EXCEPT !.step = s, !.id = i, !.ref = x, !.copy = c,
                                 !.todo[i] = NoRecord]
  <2>1. req[r].made = NoPid
    BY <1>0, <1>h DEF Shape
  <2>2. \A j \in Ids : Sound(q.todo[j], j)
    BY <1>0 DEF HandlerSound, Request, Sound
  <2>3. HandlerSound(q)
    BY <1>0, <1>h, <2>1, <2>2 DEF HandlerSound, Request
  <2> QED
    BY <2>3, <1>a, <1>h DEF Take
<1>1. CASE PrepareRootfs(r)
  BY <1>1, <1>c, <1>d DEF PrepareRootfs
<1>2. CASE Launch(r)
  <2>1. PICK p \in Pids :
            /\ proc[p] = "none"
            /\ proc' = [proc EXCEPT ![p] = "alive"]
            /\ owner' = [owner EXCEPT ![p] = req[r].id]
            /\ req' = [req EXCEPT ![r].step = "WritePid", ![r].made = p]
            /\ rec' = rec /\ waiter' = waiter
    BY <1>2 DEF Launch, IsFirst, Unused
  <2>2. owner[p] = NoId /\ p # NoPid
    BY <2>1, PidsAssumption DEF SoundInv, Launched, NoPid
  <2>3. \A n \in Pids, i \in Ids \cup {NoId} : owner[n] = i /\ i # NoId => owner'[n] = i
    BY <2>1, <2>2 DEF SoundInv, TypeInv, TypeOK
  <2>4. \A c \in RecordOrNone, i \in Ids \cup {NoId} : Sound(c, i) => Sound(c, i)'
    BY <2>3 DEF Sound, Record, RecordOrNone
  <2> DEFINE q == [req[r] EXCEPT !.step = "WritePid", !.made = p]
  <2>5. \A t \in Reqs : HandlerSound(req[t]) /\ req[t] \in Request /\ Shape(req[t])
    BY DEF SoundInv, TypeInv, TypeOK, RecordSound
  <2>6. \A t \in Reqs : t # r => HandlerSound(req[t])'
    <3> SUFFICES ASSUME NEW t \in Reqs, t # r PROVE HandlerSound(req[t])'
      OBVIOUS
    <3>1. req'[t] = req[t]
      BY <2>1, <1>0
    <3>2. req[t].step = "Save" => Sound(req[t].copy, req[t].id)'
      BY <2>4, <2>5, <3>1 DEF HandlerSound, Request
    <3>3. \A i \in Ids : Sound(req[t].todo[i], i)'
      BY <2>5, <2>4, <3>1 DEF HandlerSound, Request
    <3> QED
      BY <2>3, <2>5, <3>1, <3>2, <3>3 DEF HandlerSound, Shape, Request
  <2>7. HandlerSound(req[r])'
    <3>1. req'[r] = q
      BY <2>1, <1>0
    <3>2. \A i \in Ids : Sound(req[r].todo[i], i)'
      BY <1>0, <2>4, <3>1 DEF HandlerSound, Request
    <3>3. owner'[p] = q.id
      BY <1>0, <2>1 DEF Request, SoundInv, TypeInv, TypeOK
    <3> QED
      BY <1>0, <3>1, <3>2, <3>3 DEF HandlerSound, Request
  <2>8. \A i \in Ids : Sound(rec[i], i)'
    BY <2>1, <2>4 DEF SoundInv, TypeInv, TypeOK, RecordSound
  <2>9. \A n \in Pids : WaiterSound(waiter[n])'
    BY <2>1, <2>4 DEF WaiterSound, Waiter, SoundInv, TypeInv, TypeOK, RecordSound
  <2>10. Launched'
    BY <2>1, <2>2 DEF SoundInv, TypeInv, TypeOK, Launched
  <2> QED
    BY <2>6, <2>7, <2>8, <2>9, <2>10 DEF RecordSound
<1>3. CASE LaunchFails(r)
  <2>1. Launched'
    BY <1>3 DEF LaunchFails, SoundInv, TypeInv, TypeOK, Launched
  <2> QED
    BY <2>1, <1>3, <1>c DEF LaunchFails
<1>4. CASE WritePid(r)
  BY <1>4, <1>c, <1>d DEF WritePid
<1>5. CASE StopExited(r)
  BY <1>5, <1>e, SignalLaunched DEF StopExited
<1>6. CASE StopTimeout(r)
  BY <1>6, <1>e, SignalLaunched DEF StopTimeout
<1>7. CASE Update(r)
  <2>1. PICK i \in Get(UpdateKey(req[r])) :
            req' = [req EXCEPT ![r].step = "Save", ![r].id = i,
                               ![r].copy = Change(req[r], rec[i])]
    BY <1>7 DEF Update
  <2> DEFINE q == [req[r] EXCEPT !.step = "Save", !.id = i,
                                 !.copy = Change(req[r], rec[i])]
  <2>2. /\ i \in Ids /\ rec[i] \in Record /\ Sound(rec[i], i)
        /\ req[r].op \in {"start", "stop", "restart", "pause", "unpause"}
        /\ req[r].op = "start" => req[r].made # NoPid
    BY <1>0, <1>7, GetSound DEF Update, Shape
  <2>3. req[r].made # NoPid => i = req[r].id
    BY <1>0, GetById DEF Shape, UpdateKey, Request, SoundInv, TypeInv
  <2>4. req[r].made # NoPid => req[r].made \in Pids /\ owner[req[r].made] = i
    BY <1>0, <2>3 DEF HandlerSound, Request
  <2>5. Sound(Change(req[r], rec[i]), i)
    <3> DEFINE c == rec[i]
               p == req[r].made
    <3>1. /\ Sound(MarkStopped(c), i) /\ Sound(MarkHalted(c), i)
          /\ Sound(MarkPaused(c), i) /\ Sound(MarkUnpaused(c), i)
          /\ p # NoPid => Sound(MarkRunning(c, p), i)
      BY <2>2, <2>4, SoundMarks DEF Record
    <3> QED
      BY <3>1, <2>2 DEF Change
  <2>6. HandlerSound(q)
    BY <1>0, <2>4, <2>5 DEF HandlerSound, Request
  <2>7. req' = [req EXCEPT ![r] = q]
    BY <2>1, <1>0
  <2> QED
    BY <1>7, <2>6, <2>7, <1>a, <1>d DEF Update
<1>8. CASE UpdateMiss(r)
  BY <1>8, <1>d, <1>f, Untouched DEF UpdateMiss, SoundInv, RecordSound
<1>9. CASE Save(r)
  <2>1. \A i \in Ids : Sound(rec'[i], i)
    BY <1>0, <1>9 DEF Save, HandlerSound, SoundInv, TypeInv, TypeOK, RecordSound
  <2> QED
    BY <1>9, <2>1, <1>d, <1>f DEF Save
<1>10. CASE DeleteGet(r)
  <2>1. PICK i \in Get(req[r].ref) :
            req' = [req EXCEPT ![r].step = "DeleteDir", ![r].id = i]
    BY <1>10 DEF DeleteGet
  <2>2. req' = [req EXCEPT ![r] = [req[r] EXCEPT !.step = "DeleteDir", !.id = i]]
    BY <2>1, <1>0
  <2>3. req[r].made = NoPid
    BY <1>0, <1>10 DEF DeleteGet, Shape
  <2>4. HandlerSound([req[r] EXCEPT !.step = "DeleteDir", !.id = i])
    BY <1>0, <2>3 DEF HandlerSound, Request
  <2> QED
    BY <1>10, <2>2, <2>4, <1>a, <1>d DEF DeleteGet
<1>11. CASE DeleteRefused(r)
  BY <1>11, <1>c, <1>d DEF DeleteRefused
<1>12. CASE DeleteDir(r)
  BY <1>12, <1>c, <1>d DEF DeleteDir
<1>13. CASE DeleteRecord(r)
  <2>1. \A i \in Ids : Sound(rec'[i], i)
    BY <1>13 DEF DeleteRecord, Sound, SoundInv, TypeInv, TypeOK, RecordSound
  <2> QED
    BY <1>13, <2>1, <1>d, <1>g DEF DeleteRecord
<1>14. CASE CreateReplaces(r)
  <2>1. PICK i \in Ids : Take(r, "DeleteDir", i, req[r].ref, NoRecord)
    BY <1>14 DEF CreateReplaces
  <2> QED
    BY <1>14, <2>1, <1>d, <1>h DEF CreateReplaces, Sound
<1>15. CASE CreateConflict(r)
  BY <1>15, <1>c, <1>d DEF CreateConflict
<1>16. CASE PruneNext(r)
  <2>1. PICK i \in Ids : Take(r, "DeleteGet", i, i, NoRecord)
    BY <1>16 DEF PruneNext
  <2> QED
    BY <1>16, <2>1, <1>d, <1>h DEF PruneNext, Sound
<1>17. CASE ListNext(r)
  <2>1. PICK i \in Ids :
            /\ IsFirst(i, Left(req[r]))
            /\ \/ Take(r, "Save", i, NoId, MarkGone(req[r].todo[i]))
               \/ Take(r, "Each", i, NoId, NoRecord)
    BY <1>17 DEF ListNext
  <2>2. req[r].todo[i] \in Record /\ Sound(req[r].todo[i], i)
    BY <1>0, <2>1 DEF IsFirst, Left, Request, RecordOrNone, HandlerSound
  <2>3. Sound(MarkGone(req[r].todo[i]), i)
    BY <2>2, NoRecordAssumption DEF MarkGone, Sound, Record
  <2>4. Sound(NoRecord, i)
    BY DEF Sound
  <2> QED
    BY <1>17, <2>1, <2>3, <2>4, <1>d, <1>h DEF ListNext
<1>18. CASE EachDone(r)
  BY <1>18, <1>c, <1>d DEF EachDone
<1>19. CASE CreateSave(r)
  <2>1. \A i \in Ids : Sound(rec'[i], i)
    BY <1>19 DEF CreateSave, NewRecord, NoPid, Sound, SoundInv, TypeInv, TypeOK, RecordSound
  <2> QED
    BY <1>19, <2>1, <1>d, <1>g DEF CreateSave
<1> QED
  BY <1>1, <1>2, <1>3, <1>4, <1>5, <1>6, <1>7, <1>8, <1>9, <1>10, <1>11, <1>12, <1>13,
     <1>14, <1>15, <1>16, <1>17, <1>18, <1>19 DEF Step

(* What the goroutine of a start or restart writes is sound.               *)
LEMMA SoundWaiter ==
    ASSUME SoundInv, NEW p \in Pids, WaiterStep(p)
    PROVE  Launched' /\ RecordSound'
<1>0. waiter[p] \in Waiter /\ WaiterSound(waiter[p]) /\ owner' = owner /\ req' = req
  BY DEF SoundInv, TypeInv, TypeOK, RecordSound, WaiterStep, WaiterReap, WaiterGet,
         WaiterMiss, WaiterSave
<1>1. Launched'
  BY <1>0, SignalLaunched DEF WaiterStep, WaiterReap, WaiterGet, WaiterMiss, WaiterSave
<1>2. \A r \in Reqs : HandlerSound(req[r])'
  BY <1>0 DEF SoundInv, RecordSound, HandlerSound, Sound
<1>a. ASSUME NEW w, waiter' = [waiter EXCEPT ![p] = w], WaiterSound(w)
      PROVE  \A n \in Pids : WaiterSound(waiter[n])'
  BY <1>0, <1>a DEF SoundInv, TypeInv, TypeOK, RecordSound, WaiterSound, Sound
<1>3. CASE WaiterReap(p)
  <2>1. waiter' = [waiter EXCEPT ![p] = [waiter[p] EXCEPT !.step = "Get"]]
    BY <1>3 DEF WaiterReap, SoundInv, TypeInv, TypeOK
  <2>2. WaiterSound([waiter[p] EXCEPT !.step = "Get"])
    BY <1>0 DEF WaiterSound, Waiter
  <2> QED
    BY <1>0, <1>1, <1>2, <1>3, <1>a, <2>1, <2>2, Untouched DEF WaiterReap, RecordSound
<1>4. CASE WaiterGet(p)
  <2>1. PICK i \in Get(waiter[p].key) :
            waiter' = [waiter EXCEPT ![p].step = "Save", ![p].id = i,
                         ![p].copy = IF waiter[p].after = "restart"
                                     THEN MarkGone(rec[i]) ELSE MarkExited(rec[i])]
    BY <1>4 DEF WaiterGet
  <2> DEFINE c == IF waiter[p].after = "restart" THEN MarkGone(rec[i]) ELSE MarkExited(rec[i])
             w == [waiter[p] EXCEPT !.step = "Save", !.id = i, !.copy = c]
  <2>2. Sound(c, i)
    BY GetSound, NoRecordAssumption DEF Sound, MarkGone, MarkExited, Record, NoPid
  <2>3. WaiterSound(w)
    BY <1>0, <2>2 DEF WaiterSound, Waiter
  <2>4. waiter' = [waiter EXCEPT ![p] = w]
    BY <2>1 DEF SoundInv, TypeInv, TypeOK
  <2> QED
    BY <1>0, <1>1, <1>2, <1>4, <1>a, <2>3, <2>4, Untouched DEF WaiterGet, RecordSound
<1>5. CASE WaiterMiss(p)
  BY <1>0, <1>1, <1>2, <1>5, <1>a, IdleSound, Untouched DEF WaiterMiss, RecordSound
<1>6. CASE WaiterSave(p)
  <2>1. \A i \in Ids : Sound(rec[i], i)'
    BY <1>0, <1>6 DEF WaiterSave, WaiterSound, Sound, SoundInv, TypeInv, TypeOK, RecordSound
  <2> QED
    BY <1>0, <1>1, <1>2, <1>6, <1>a, <2>1, IdleSound DEF WaiterSave, RecordSound
<1> QED
  BY <1>3, <1>4, <1>5, <1>6 DEF WaiterStep

(* Every step keeps the records sound.                                     *)
LEMMA SoundNext == SoundInv /\ [Next]_vars => SoundInv'
<1> SUFFICES ASSUME SoundInv, [Next]_vars PROVE Launched' /\ RecordSound'
  BY TypeNext DEF SoundInv
<1>1. ASSUME NEW p \in Pids, ProcExit(p) PROVE Launched' /\ RecordSound'
  <2>1. Launched'
    BY <1>1 DEF ProcExit, SoundInv, TypeInv, TypeOK, Launched
  <2>2. RecordSound'
    BY <1>1 DEF ProcExit, SoundInv, RecordSound, HandlerSound, WaiterSound, Sound
  <2> QED
    BY <2>1, <2>2
<1>2. CASE Crash
  <2>1. Launched'
    BY <1>2 DEF Crash, SoundInv, Launched
  <2>2. \A i \in Ids : Sound(rec[i], i)'
    BY <1>2, Untouched DEF Crash
  <2>3. RecordSound'
    BY <1>2, <2>2, IdleSound DEF Crash, RecordSound, HandlerSound, WaiterSound, Sound
  <2> QED
    BY <2>1, <2>3
<1>3. CASE UNCHANGED vars
  BY <1>3 DEF vars, SoundInv, Launched, RecordSound, HandlerSound, WaiterSound, Sound
<1> QED
  BY <1>1, <1>2, <1>3, SoundBegin, SoundStep, SoundWaiter DEF Next

(* However the handlers' updates of the records overlap, the pid they act  *)
(* on is that of a process launched for the container they act on.         *)
THEOREM RecordsSound == Spec => []RecordSound
<1>1. Spec => []SoundInv
  BY SoundInit, SoundNext, PTL DEF Spec
<1>2. SoundInv => RecordSound
  BY DEF SoundInv
<1> QED
  BY <1>1, <1>2, PTL

-----------------------------------------------------------------------------
(* No child is left unwatched: a handler gives up the process it launched  *)
(* only in exchange for a waiting goroutine.                               *)

WatchInv == SoundInv /\ ChildrenWatched

(* A reaped process stays reaped, whatever is signalled.                   *)
LEMMA ReapedStays ==
    ASSUME TypeOK, NEW p, NEW n \in Pids, proc[n] = "reaped",
           proc' \in {proc, Killed(p), Suspended(p), Resumed(p), Reaped(p)}
    PROVE  proc'[n] = "reaped"
BY DEF TypeOK, Killed, Suspended, Resumed, Reaped, Live

(* The processes handlers hold stay held when the one handler that moves   *)
(* held none, or holds on to it.                                           *)
LEMMA StillHeld ==
    ASSUME WatchInv, NEW r \in Reqs, NEW q, req' = [req EXCEPT ![r] = q],
           req[r].made = NoPid \/ q.made = req[r].made,
           waiter' = waiter, owner' = owner,
           \A n \in Pids : proc[n] = "reaped" => proc'[n] = "reaped"
    PROVE  ChildrenWatched'
<1> SUFFICES ASSUME NEW n \in Pids, owner[n] # NoId, proc'[n] # "reaped"
             PROVE  waiter[n].step = "Wait" \/ \E s \in Reqs : req'[s].made = n
  BY DEF ChildrenWatched
<1>1. waiter[n].step = "Wait" \/ \E s \in Reqs : req[s].made = n
  BY DEF WatchInv, ChildrenWatched
<1>2. req'[r] = q /\ \A s \in Reqs : s # r => req'[s] = req[s]
  BY DEF WatchInv, SoundInv, TypeInv, TypeOK
<1>3. n # NoPid
  BY PidsAssumption DEF NoPid
<1> QED
  BY <1>1, <1>2, <1>3

(* A request that begins launches nothing and ends no waiting.             *)
LEMMA WatchBegin ==
    ASSUME WatchInv, NEW r \in Reqs, Begin(r)
    PROVE  ChildrenWatched'
<1>1. /\ \E q : req[r] = Idle /\ req' = [req EXCEPT ![r] = q]
      /\ waiter' = waiter /\ owner' = owner
      /\ \E p : proc' \in {proc, Killed(p), Suspended(p), Resumed(p)}
  BY DEF Begin, CreateBegin, StartBegin, StopBegin, RestartBegin, KillBegin, RemoveBegin,
         RemoveForceBegin, PruneBegin, ListBegin, RenameBegin, PauseBegin, UnpauseBegin,
         Accept
<1>2. Idle.made = NoPid
  BY DEF Idle, Handling
<1>3. \A n \in Pids : proc[n] = "reaped" => proc'[n] = "reaped"
  BY <1>1, ReapedStays DEF WatchInv, SoundInv, TypeInv
<1> QED
  BY <1>1, <1>2, <1>3, StillHeld

(* A launch leaves its process to the handler until that has started the   *)
(* goroutine which waits for it.                                           *)
LEMMA WatchStep ==
    ASSUME WatchInv, NEW r \in Reqs, Step(r)
    PROVE  ChildrenWatched'
<1>0. /\ req[r] \in Request /\ Shape(req[r]) /\ req \in [Reqs -> Request]
      /\ waiter \in [Pids -> Waiter] /\ proc \in [Pids -> ProcState] /\ TypeOK
  BY DEF WatchInv, SoundInv, TypeInv, TypeOK
<1>1. CASE AfterSave(r) /\ owner' = owner /\ proc' = proc
  <2> SUFFICES ASSUME NEW n \in Pids, owner[n] # NoId, proc[n] # "reaped"
               PROVE  waiter'[n].step = "Wait" \/ \E s \in Reqs : req'[s].made = n
    BY <1>1 DEF ChildrenWatched
  <2>1. waiter[n].step = "Wait" \/ \E s \in Reqs : req[s].made = n
    BY DEF WatchInv, ChildrenWatched
  <2>2. \A s \in Reqs : s # r => req'[s] = req[s]
    BY <1>0, <1>1 DEF AfterSave
  <2>3. n # NoPid
    BY PidsAssumption DEF NoPid
  <2>4. req[r].made # NoPid => waiter'[req[r].made].step = "Wait"
    BY <1>0, <1>1 DEF AfterSave, NoWaiter, Request
  <2>5. waiter[n].step = "Wait" => waiter'[n].step = "Wait"
    BY <1>0, <1>1 DEF AfterSave, NoWaiter
  <2> QED
    BY <2>1, <2>2, <2>3, <2>4, <2>5
<1>2. CASE Launch(r)
  <2>1. PICK p \in Pids :
            /\ proc' = [proc EXCEPT ![p] = "alive"]
            /\ owner' = [owner EXCEPT ![p] = req[r].id]
            /\ req' = [req EXCEPT ![r].step = "WritePid", ![r].made = p]
            /\ waiter' = waiter
            /\ proc[p] = "none"
    BY <1>2 DEF Launch, IsFirst, Unused
  <2>2. req[r].made = NoPid
    BY <1>0, <1>2 DEF Launch, Shape
  <2>3. req'[r].made = p /\ \A s \in Reqs : s # r => req'[s] = req[s]
    BY <1>0, <2>1 DEF Request
  <2> SUFFICES ASSUME NEW n \in Pids, owner'[n] # NoId, proc'[n] # "reaped", n # p
               PROVE  waiter[n].step = "Wait" \/ \E s \in Reqs : req'[s].made = n
    BY <2>1, <2>3 DEF ChildrenWatched
  <2>4. waiter[n].step = "Wait" \/ \E s \in Reqs : req[s].made = n
    BY <1>0, <2>1 DEF WatchInv, ChildrenWatched, TypeOK
  <2>5. n # NoPid
    BY PidsAssumption DEF NoPid
  <2> QED
    BY <2>2, <2>3, <2>4, <2>5
<1>3. ASSUME NEW s, Goto(r, s), waiter' = waiter, owner' = owner,
             \A n \in Pids : proc[n] = "reaped" => proc'[n] = "reaped"
      PROVE  ChildrenWatched'
  <2>1. req' = [req EXCEPT ![r] = [req[r] EXCEPT !.step = s]]
    BY <1>0, <1>3 DEF Goto
  <2>2. [req[r] EXCEPT !.step = s].made = req[r].made
    BY <1>0 DEF Request
  <2> QED
    BY <2>1, <2>2, <1>3, StillHeld
<1>4. ASSUME Answer(r), req[r].made = NoPid, waiter' = waiter, owner' = owner,
             \A n \in Pids : proc[n] = "reaped" => proc'[n] = "reaped"
      PROVE  ChildrenWatched'
  BY <1>4, StillHeld DEF Answer
<1>5. ASSUME req[r].step = "StopWait", AfterStop(r), waiter' = waiter, owner' = owner,
             \A n \in Pids : proc[n] = "reaped" => proc'[n] = "reaped"
      PROVE  ChildrenWatched'
  <2>1. req[r].op \in {"stop", "restart", "remove_force", "kill"} /\ req[r].made = NoPid
    BY <1>0, <1>5 DEF Shape
  <2>2. Goto(r, "Update") \/ Goto(r, "DeleteGet") \/ Answer(r)
    BY <2>1, <1>5 DEF AfterStop
  <2> QED
    BY <2>1, <2>2, <1>3, <1>4, <1>5
<1>6. CASE PrepareRootfs(r)
  BY <1>0, <1>3, <1>4, <1>6 DEF PrepareRootfs, Shape
<1>7. CASE LaunchFails(r)
  <2>1. \A n \in Pids : proc[n] = "reaped" => proc'[n] = "reaped"
    BY <1>0, <1>7 DEF LaunchFails, IsFirst, Unused
  <2> QED
    BY <1>0, <1>4, <1>7, <2>1 DEF LaunchFails, Shape
<1>8. CASE WritePid(r)
  BY <1>3, <1>8 DEF WritePid
<1>9. CASE StopExited(r)
  BY <1>0, <1>5, <1>9, ReapedStays DEF StopExited
<1>10. CASE StopTimeout(r)
  BY <1>0, <1>5, <1>10, ReapedStays DEF StopTimeout
<1>11. CASE Update(r)
  <2>1. PICK i : req' = [req EXCEPT ![r].step = "Save", ![r].id = i,
                                    ![r].copy = Change(req[r], rec[i])]
    BY <1>11 DEF Update
  <2> DEFINE q == [req[r] EXCEPT !.step = "Save", !.id = i,
                                 !.copy = Change(req[r], rec[i])]
  <2>2. req' = [req EXCEPT ![r] = q] /\ q.made = req[r].made
    BY <1>0, <2>1 DEF Request
  <2> QED
    BY <1>11, <2>2, StillHeld DEF Update
<1>12. CASE UpdateMiss(r)
  BY <1>1, <1>12 DEF UpdateMiss
<1>13. CASE Save(r)
  BY <1>1, <1>13 DEF Save
<1>14. CASE DeleteGet(r)
  <2>1. PICK i : req' = [req EXCEPT ![r].step = "DeleteDir", ![r].id = i]
    BY <1>14 DEF DeleteGet
  <2>2. req' = [req EXCEPT ![r] = [req[r] EXCEPT !.step = "DeleteDir", !.id = i]]
    BY <1>0, <2>1
  <2>3. req[r].made = NoPid
    BY <1>0, <1>14 DEF DeleteGet, Shape
  <2> QED
    BY <1>14, <2>2, <2>3, StillHeld DEF DeleteGet
<1>15. CASE DeleteRefused(r)
  BY <1>0, <1>3, <1>4, <1>15 DEF DeleteRefused, Shape
<1>16. CASE DeleteDir(r)
  BY <1>3, <1>16 DEF DeleteDir
<1>17. CASE DeleteRecord(r)
  BY <1>0, <1>3, <1>4, <1>17 DEF DeleteRecord, Shape
<1>18. ASSUME req[r].step = "Each", NEW s, NEW i, NEW x, NEW c, Take(r, s, i, x, c),
              waiter' = waiter, owner' = owner, proc' = proc
       PROVE  ChildrenWatched'
  BY <1>0, <1>18, StillHeld DEF Take, Shape
<1>19. CASE CreateReplaces(r)
  BY <1>18, <1>19 DEF CreateReplaces
<1>20. CASE CreateConflict(r)
  BY <1>0, <1>4, <1>20 DEF CreateConflict, Shape
<1>21. CASE PruneNext(r)
  BY <1>18, <1>21 DEF PruneNext
<1>22. CASE ListNext(r)
  BY <1>18, <1>22 DEF ListNext
<1>23. CASE EachDone(r)
  BY <1>0, <1>3, <1>4, <1>23 DEF EachDone, Shape
<1>24. CASE CreateSave(r)
  BY <1>0, <1>4, <1>24 DEF CreateSave, Shape
<1> QED
  BY <1>2, <1>6, <1>7, <1>8, <1>9, <1>10, <1>11, <1>12, <1>13, <1>14, <1>15, <1>16,
     <1>17, <1>19, <1>20, <1>21, <1>22, <1>23, <1>24 DEF Step

(* Every step keeps the children watched.                                  *)
LEMMA WatchNext == WatchInv /\ [Next]_vars => WatchInv'
<1> SUFFICES ASSUME WatchInv, [Next]_vars PROVE ChildrenWatched'
  BY SoundNext DEF WatchInv
<1>1. ASSUME NEW p \in Pids, ProcExit(p) PROVE ChildrenWatched'
  BY <1>1 DEF ProcExit, WatchInv, SoundInv, TypeInv, TypeOK, ChildrenWatched
<1>2. ASSUME NEW p \in Pids, WaiterStep(p) PROVE ChildrenWatched'
  <2>1. \A n \in Pids : n # p => waiter'[n] = waiter[n] /\ proc'[n] = proc[n]
    BY <1>2 DEF WaiterStep, WaiterReap, WaiterGet, WaiterMiss, WaiterSave, Reaped,
                WatchInv, SoundInv, TypeInv, TypeOK
  <2>2. waiter[p].step = "Wait" => proc'[p] = "reaped"
    BY <1>2 DEF WaiterStep, WaiterReap, WaiterGet, WaiterMiss, WaiterSave, Reaped
  <2>3. proc[p] = "reaped" => proc'[p] = "reaped"
    BY <1>2 DEF WaiterStep, WaiterReap, WaiterGet, WaiterMiss, WaiterSave, Reaped
  <2>4. owner' = owner /\ req' = req
    BY <1>2 DEF WaiterStep, WaiterReap, WaiterGet, WaiterMiss, WaiterSave
  <2> QED
    BY <2>1, <2>2, <2>3, <2>4 DEF WatchInv, ChildrenWatched
<1>3. CASE Crash
  BY <1>3 DEF Crash, ChildrenWatched, WatchInv, SoundInv, Launched
<1>4. CASE UNCHANGED vars
  BY <1>4 DEF vars, WatchInv, ChildrenWatched
<1> QED
  BY <1>1, <1>2, <1>3, <1>4, WatchBegin, WatchStep DEF Next

(* Every process that is not yet reaped has a goroutine waiting for it, or *)
(* a handler that is about to leave one.                                   *)
THEOREM ProcessesWatched == Spec => []ChildrenWatched
<1>1. Init => WatchInv
  BY SoundInit DEF Init, WatchInv, ChildrenWatched
<1>2. Spec => []WatchInv
  BY <1>1, WatchNext, PTL DEF Spec
<1>3. WatchInv => ChildrenWatched
  BY DEF WatchInv
<1> QED
  BY <1>2, <1>3, PTL

-----------------------------------------------------------------------------
(* A handler that has got past Stop has stopped something: no signal, no   *)
(* launch and no other handler brings the process back.                    *)

StopDone(q) ==
    /\ q.pid # NoPid => q.pid \in Pids /\ owner[q.pid] # NoId
    /\ q.step # "StopWait" /\ q.pid # NoPid => proc[q.pid] \notin Live

StopInv == SoundInv /\ \A r \in Reqs : StopDone(req[r])

Gone(n) == owner[n] # NoId /\ proc[n] \notin Live

(* Signals and waits bring no process back.                                *)
LEMMA GoneSignal ==
    ASSUME TypeOK, NEW p, NEW n \in Pids, Gone(n), owner' = owner,
           proc' \in {proc, Killed(p), Suspended(p), Resumed(p), Reaped(p)}
    PROVE  Gone(n)'
BY DEF TypeOK, Gone, Killed, Suspended, Resumed, Reaped, Live

(* What is launched and gone stays gone.                                   *)
LEMMA GoneStays ==
    ASSUME SoundInv, [Next]_vars, NEW n \in Pids
    PROVE  (owner[n] # NoId => owner'[n] # NoId) /\ (Gone(n) => Gone(n)')
<1>0. TypeOK /\ Launched /\ proc \in [Pids -> ProcState] /\ owner \in [Pids -> Ids \cup {NoId}]
  BY DEF SoundInv, TypeInv, TypeOK
<1>1. ASSUME NEW r \in Reqs, Begin(r)
      PROVE  (owner[n] # NoId => owner'[n] # NoId) /\ (Gone(n) => Gone(n)')
  <2>1. /\ owner' = owner
        /\ \E p : proc' \in {proc, Killed(p), Suspended(p), Resumed(p)}
    BY <1>1 DEF Begin, CreateBegin, StartBegin, StopBegin, RestartBegin, KillBegin,
           RemoveBegin, RemoveForceBegin, PruneBegin, ListBegin, RenameBegin, PauseBegin,
           UnpauseBegin
  <2> QED
    BY <1>0, <2>1, GoneSignal
<1>2. ASSUME NEW r \in Reqs, Step(r)
      PROVE  (owner[n] # NoId => owner'[n] # NoId) /\ (Gone(n) => Gone(n)')
  <2>1. CASE Launch(r) \/ LaunchFails(r)
    <3>1. req[r].step = "Launch" => req[r].id # NoId
      BY DEF SoundInv, TypeInv, Shape
    <3>2. owner[n] # NoId => proc[n] # "none"
      BY <1>0 DEF Launched
    <3> QED
      BY <1>0, <2>1, <3>1, <3>2 DEF Launch, LaunchFails, IsFirst, Unused, Gone, Live
  <2>2. CASE ~Launch(r) /\ ~LaunchFails(r)
    <3>1. owner' = owner /\ \E p : proc' \in {proc, Killed(p), Reaped(p)}
      BY <1>2, <2>2
         DEF Step, PrepareRootfs, WritePid, StopExited, StopTimeout, Update, UpdateMiss, Save,
             DeleteGet, DeleteRefused, DeleteDir, DeleteRecord, CreateReplaces,
             CreateConflict, PruneNext, ListNext, EachDone, CreateSave
    <3> QED
      BY <1>0, <3>1, GoneSignal
  <2> QED
    BY <2>1, <2>2
<1>3. ASSUME NEW p \in Pids, ProcExit(p) \/ WaiterStep(p)
      PROVE  (owner[n] # NoId => owner'[n] # NoId) /\ (Gone(n) => Gone(n)')
  BY <1>0, <1>3
     DEF ProcExit, WaiterStep, WaiterReap, WaiterGet, WaiterMiss, WaiterSave, Reaped, Gone, Live
<1>4. CASE Crash
  BY <1>0, <1>4 DEF Crash, Gone, Live
<1>5. CASE UNCHANGED vars
  BY <1>5 DEF vars, Gone
<1> QED
  BY <1>1, <1>2, <1>3, <1>4, <1>5 DEF Next

(* So only the handler that moves has to be looked at.                     *)
LEMMA StopMoves ==
    ASSUME StopInv, [Next]_vars, NEW r \in Reqs, NEW q, req' = [req EXCEPT ![r] = q],
           q.pid # NoPid =>
               q.pid \in Pids /\ owner[q.pid] # NoId /\ (q.step # "StopWait" => Gone(q.pid)')
    PROVE  \A s \in Reqs : StopDone(req[s])'
<1> SUFFICES ASSUME NEW s \in Reqs PROVE StopDone(req[s])'
  OBVIOUS
<1>1. req'[s] = IF s = r THEN q ELSE req[s]
  BY DEF StopInv, SoundInv, TypeInv, TypeOK
<1>2. CASE s = r
  BY <1>1, <1>2, GoneStays DEF StopDone, StopInv, Gone
<1>3. CASE s # r
  BY <1>1, <1>3, GoneStays DEF StopDone, StopInv, Gone
<1> QED
  BY <1>2, <1>3

(* A request that begins has stopped what it says: kill and rm -f with     *)
(* their first step.                                                       *)
LEMMA StopBeginStep ==
    ASSUME StopInv, NEW r \in Reqs, Begin(r)
    PROVE  \A s \in Reqs : StopDone(req[s])'
<1>0. Next
  BY DEF Next
<1>1. ASSUME NEW q, req' = [req EXCEPT ![r] = q], q.pid = NoPid
      PROVE  \A s \in Reqs : StopDone(req[s])'
  BY <1>0, <1>1, StopMoves
<1>2. ASSUME NEW i \in Stored, NEW q, req' = [req EXCEPT ![r] = q],
             q.pid = rec[i].pid, q.step = "StopWait"
      PROVE  \A s \in Reqs : StopDone(req[s])'
  <2>1. rec[i].pid # NoPid => rec[i].pid \in Pids /\ owner[rec[i].pid] # NoId
    BY StoredType, StoredSound, NoRecordAssumption
       DEF Sound, Record, StopInv, SoundInv, TypeInv
  <2> QED
    BY <1>0, <1>2, <2>1, StopMoves
<1>3. ASSUME NEW op, NEW st, NEW x, NEW i, NEW c,
             req' = [req EXCEPT ![r] = Handling(op, st, x, i, c, NoPid)]
      PROVE  \A s \in Reqs : StopDone(req[s])'
  <2>1. Handling(op, st, x, i, c, NoPid).pid = NoPid
    BY DEF Handling
  <2> QED
    BY <1>1, <1>3, <2>1
<1>4. ASSUME NEW op, NEW x, NEW i \in Stored,
             req' = [req EXCEPT ![r] = Handling(op, "StopWait", x, i, NoRecord, rec[i].pid)]
      PROVE  \A s \in Reqs : StopDone(req[s])'
  <2>1. /\ Handling(op, "StopWait", x, i, NoRecord, rec[i].pid).pid = rec[i].pid
        /\ Handling(op, "StopWait", x, i, NoRecord, rec[i].pid).step = "StopWait"
    BY DEF Handling
  <2> QED
    BY <1>2, <1>4, <2>1
<1>5. ASSUME NEW x, NEW i \in Get(x) PROVE i \in Stored
  BY <1>5, GetType DEF StopInv, SoundInv, TypeInv
<1>6. CASE StopBegin(r) \/ KillBegin(r)
  BY <1>4, <1>6 DEF StopBegin, KillBegin, Accept
<1>7. CASE RemoveForceBegin(r)
  BY <1>4, <1>5, <1>7 DEF RemoveForceBegin, Accept
<1>8. CASE RestartBegin(r)
  <2>1. PICK x \in Refs, i \in Stored :
            req' = [req EXCEPT ![r] =
                IF rec[i].running
                THEN Handling("restart", "StopWait", x, i, NoRecord, rec[i].pid)
                ELSE Handling("restart", "Update", x, i, NoRecord, NoPid)]
    BY <1>5, <1>8 DEF RestartBegin, Accept
  <2>2. CASE rec[i].running
    BY <1>4, <2>1, <2>2
  <2>3. CASE ~rec[i].running
    BY <1>3, <2>1, <2>3
  <2> QED
    BY <2>2, <2>3
<1>9. CASE CreateBegin(r)
  <2>1. PICK i, n : req' = [req EXCEPT ![r] =
                      [Handling("create", "Each", n, NoId, NoRecord, NoPid)
                          EXCEPT !.new = i, !.todo = Snapshot(Named(n))]]
    BY <1>9 DEF CreateBegin, Accept
  <2>2. [Handling("create", "Each", n, NoId, NoRecord, NoPid)
            EXCEPT !.new = i, !.todo = Snapshot(Named(n))].pid = NoPid
    BY DEF Handling
  <2> QED
    BY <1>1, <2>1, <2>2
<1>10. ASSUME NEW op, NEW t,
              req' = [req EXCEPT ![r] = [Handling(op, "Each", NoId, NoId, NoRecord, NoPid)
                                            EXCEPT !.todo = t]]
       PROVE  \A s \in Reqs : StopDone(req[s])'
  <2>1. [Handling(op, "Each", NoId, NoId, NoRecord, NoPid) EXCEPT !.todo = t].pid = NoPid
    BY DEF Handling
  <2> QED
    BY <1>1, <1>10, <2>1
<1>11. CASE PruneBegin(r) \/ ListBegin(r)
  BY <1>10, <1>11 DEF PruneBegin, ListBegin, Accept
<1>12. CASE StartBegin(r) \/ RemoveBegin(r) \/ RenameBegin(r) \/ PauseBegin(r)
              \/ UnpauseBegin(r)
  BY <1>3, <1>12 DEF StartBegin, RemoveBegin, RenameBegin, PauseBegin, UnpauseBegin, Accept
<1> QED
  BY <1>6, <1>7, <1>8, <1>9, <1>11, <1>12 DEF Begin

(* A handler past its Stop has stopped it, and no later launch takes the   *)
(* same process.                                                           *)
LEMMA StopStepStep ==
    ASSUME StopInv, NEW r \in Reqs, Step(r)
    PROVE  \A s \in Reqs : StopDone(req[s])'
<1>0. /\ req[r] \in Request /\ StopDone(req[r]) /\ req \in [Reqs -> Request]
      /\ proc \in [Pids -> ProcState] /\ Next /\ Idle.pid = NoPid
  BY DEF StopInv, SoundInv, TypeInv, TypeOK, Next, Idle, Handling
<1>1. ASSUME req[r].step # "StopWait", NEW q, req' = [req EXCEPT ![r] = q],
             q.pid = req[r].pid \/ q.pid = NoPid
      PROVE  \A s \in Reqs : StopDone(req[s])'
  BY <1>0, <1>1, StopMoves, GoneStays DEF StopDone, Gone, StopInv
<1>2. CASE StopExited(r) \/ StopTimeout(r)
  <2>1. ASSUME NEW n \in Pids, n = req[r].pid PROVE Gone(n)'
    <3>1. owner' = owner /\ owner[n] # NoId /\ n # NoPid
      BY <1>0, <1>2, <2>1, PidsAssumption DEF StopExited, StopTimeout, StopDone, NoPid
    <3>2. proc'[n] \notin Live
      BY <1>0, <1>2, <2>1 DEF StopExited, StopTimeout, Killed, Reaped, Live
    <3> QED
      BY <3>1, <3>2 DEF Gone
  <2>2. PICK q : req' = [req EXCEPT ![r] = q] /\ (q.pid = req[r].pid \/ q.pid = NoPid)
    <3>1. req[r].op \in {"stop", "restart", "remove_force", "kill"} /\ AfterStop(r)
      BY <1>2 DEF StopExited, StopTimeout, StopInv, SoundInv, TypeInv, Shape
    <3>2. Answer(r) \/ \E st : Goto(r, st)
      BY <3>1 DEF AfterStop
    <3>3. ASSUME NEW st, Goto(r, st)
          PROVE  req' = [req EXCEPT ![r] = [req[r] EXCEPT !.step = st]]
      BY <1>0, <3>3 DEF Goto
    <3>4. ASSUME NEW st PROVE [req[r] EXCEPT !.step = st].pid = req[r].pid
      BY <1>0 DEF Request
    <3> QED
      BY <1>0, <3>2, <3>3, <3>4 DEF Answer
  <2> QED
    BY <1>0, <2>1, <2>2, StopMoves DEF StopDone
<1>3. ASSUME NEW st, Goto(r, st), req[r].step # "StopWait"
      PROVE  \A s \in Reqs : StopDone(req[s])'
  <2>1. req' = [req EXCEPT ![r] = [req[r] EXCEPT !.step = st]]
    BY <1>0, <1>3 DEF Goto
  <2>2. [req[r] EXCEPT !.step = st].pid = req[r].pid
    BY <1>0 DEF Request
  <2> QED
    BY <2>1, <2>2, <1>1, <1>3
<1>4. ASSUME Answer(r), req[r].step # "StopWait"
      PROVE  \A s \in Reqs : StopDone(req[s])'
  BY <1>0, <1>1, <1>4 DEF Answer
<1>5. ASSUME AfterSave(r), req[r].step # "StopWait"
      PROVE  \A s \in Reqs : StopDone(req[s])'
  <2>1. PICK q : /\ req' = [req EXCEPT ![r] = q]
                 /\ q \in {[req[r] EXCEPT !.step = "Each", !.copy = NoRecord],
                           [req[r] EXCEPT !.step = "Launch", !.copy = NoRecord], Idle}
    BY <1>5 DEF AfterSave
  <2>2. q.pid = req[r].pid \/ q.pid = NoPid
    BY <1>0, <2>1 DEF Request
  <2> QED
    BY <2>1, <2>2, <1>1, <1>5
<1>6. ASSUME NEW s, NEW i, NEW x, NEW c, Take(r, s, i, x, c), req[r].step # "StopWait"
      PROVE  \A t \in Reqs : StopDone(req[t])'
  <2> DEFINE q == [req[r] EXCEPT !.step = s, !.id = i, !.ref = x, !.copy = c,
                                 !.todo[i] = NoRecord]
  <2>1. q.pid = req[r].pid
    BY <1>0 DEF Request
  <2> QED
    BY <2>1, <1>1, <1>6 DEF Take
<1>7. CASE Launch(r)
  <2>1. PICK p : req' = [req EXCEPT ![r].step = "WritePid", ![r].made = p]
    BY <1>7 DEF Launch
  <2>2. req' = [req EXCEPT ![r] = [req[r] EXCEPT !.step = "WritePid", !.made = p]]
    BY <1>0, <2>1
  <2>3. [req[r] EXCEPT !.step = "WritePid", !.made = p].pid = req[r].pid
    BY <1>0 DEF Request
  <2> QED
    BY <1>1, <1>7, <2>2, <2>3 DEF Launch
<1>8. CASE Update(r)
  <2>1. PICK i : req' = [req EXCEPT ![r].step = "Save", ![r].id = i,
                                    ![r].copy = Change(req[r], rec[i])]
    BY <1>8 DEF Update
  <2> DEFINE q == [req[r] EXCEPT !.step = "Save", !.id = i,
                                 !.copy = Change(req[r], rec[i])]
  <2>2. req' = [req EXCEPT ![r] = q] /\ q.pid = req[r].pid
    BY <1>0, <2>1 DEF Request
  <2> QED
    BY <1>1, <1>8, <2>2 DEF Update
<1>9. CASE DeleteGet(r)
  <2>1. PICK i : req' = [req EXCEPT ![r].step = "DeleteDir", ![r].id = i]
    BY <1>9 DEF DeleteGet
  <2>2. req' = [req EXCEPT ![r] = [req[r] EXCEPT !.step = "DeleteDir", !.id = i]]
    BY <1>0, <2>1
  <2>3. [req[r] EXCEPT !.step = "DeleteDir", !.id = i].pid = req[r].pid
    BY <1>0 DEF Request
  <2> QED
    BY <1>1, <1>9, <2>2, <2>3 DEF DeleteGet
<1>10. CASE \/ PrepareRootfs(r) \/ LaunchFails(r) \/ WritePid(r) \/ DeleteRefused(r)
            \/ DeleteDir(r) \/ DeleteRecord(r) \/ CreateConflict(r) \/ EachDone(r)
            \/ CreateSave(r)
  BY <1>10, <1>3, <1>4
     DEF PrepareRootfs, LaunchFails, WritePid, DeleteRefused, DeleteDir, DeleteRecord,
         CreateConflict, EachDone, CreateSave
<1>11. CASE UpdateMiss(r) \/ Save(r)
  BY <1>5, <1>11 DEF UpdateMiss, Save
<1>12. CASE CreateReplaces(r) \/ PruneNext(r) \/ ListNext(r)
  BY <1>6, <1>12 DEF CreateReplaces, PruneNext, ListNext
<1> QED
  BY <1>2, <1>7, <1>8, <1>9, <1>10, <1>11, <1>12 DEF Step

(* Every step keeps that stops have taken effect.                          *)
LEMMA StopNext == StopInv /\ [Next]_vars => StopInv'
<1> SUFFICES ASSUME StopInv, [Next]_vars PROVE \A s \in Reqs : StopDone(req[s])'
  BY SoundNext DEF StopInv
<1>1. CASE req' = req
  BY <1>1, GoneStays DEF StopInv, StopDone, Gone
<1>2. CASE Crash
  BY <1>2 DEF Crash, StopDone, Idle, Handling
<1> QED
  BY <1>1, <1>2, StopBeginStep, StopStepStep
     DEF Next, vars, ProcExit, WaiterStep, WaiterReap, WaiterGet, WaiterMiss, WaiterSave

(* Once a stop, a restart or a forced removal is past Stop, its process    *)
(* runs no more.                                                           *)
THEOREM StopsEffective == Spec => []StopTakesEffect
<1>1. Init => StopInv
  BY SoundInit DEF Init, StopInv, StopDone, Idle, Handling
<1>2. Spec => []StopInv
  BY <1>1, StopNext, PTL DEF Spec
<1>3. StopInv => StopTakesEffect
  BY DEF StopInv, StopDone, StopTakesEffect
<1> QED
  BY <1>2, <1>3, PTL

-----------------------------------------------------------------------------
(* One request at a time keeps the promise of the abstract specification   *)
(* Containers, as long as nobody stops, restarts, lists or renames.  The   *)
(* processes, the goroutines that wait for them and crashes still          *)
(* interleave with every step of that one request.                         *)

Serial ==
    /\ \A r, s \in Reqs : r = s
    /\ \A m \in Menus : m.ops \cap {"stop", "restart", "list", "rename"} = {}

Runs(i) == rec[i] # NoRecord /\ rec[i].running

NamesApart == \A i, j \in Stored : rec[i].name = rec[j].name => i = j

FreshFree == \A i \in fresh : rec[i] = NoRecord

OneLive == \A i \in Ids : \A p, n \in LiveOf(i) : p = n

(* A process that runs is in the record of its container, or still in the  *)
(* hands of the start that launched it.                                    *)
LiveRecorded ==
    \A i \in Ids : \A p \in LiveOf(i) : Runs(i) \/ \E r \in Reqs : req[r].made = p

(* What a handler knows of the store while no other handler is active: a   *)
(* start and a removal work on a record that does not say Running, a copy  *)
(* of a record keeps its name and takes no Running away, and a create has  *)
(* every container of its name on its list.                                *)
HandlerKeeps(q) ==
    /\ q.op \notin {"stop", "restart", "list", "rename"}
    /\ q.op = "start" => rec[q.id] # NoRecord /\ ~Runs(q.id)
    /\ q.step = "Save" =>
          /\ q.id \in Ids /\ rec[q.id] # NoRecord
          /\ q.copy # NoRecord /\ q.copy.name = rec[q.id].name
          /\ Runs(q.id) \/ q.op = "start" => q.copy.running
    /\ q.op = "create" =>
          /\ q.new \in Ids \ fresh /\ rec[q.new] = NoRecord
          /\ \A i \in Named(q.ref) :
                /\ q.step # "CreateSave"
                /\ q.todo[i] # NoRecord \/ (q.step # "Each" /\ i = q.id)
          /\ \A i \in Ids : q.todo[i] # NoRecord /\ ~q.todo[i].running => ~Runs(i)
    /\ q.step \in {"DeleteDir", "DeleteRecord"} => q.id \in Ids /\ ~Runs(q.id)

(* The goroutine behind a start is the only one of its container, which    *)
(* says Running until that goroutine has written that it has exited.       *)
WaiterKeeps(p) ==
    waiter[p].step # "none" =>
        /\ waiter[p].after = "start"
        /\ waiter[p].key \in Ids /\ Runs(waiter[p].key)
        /\ LiveOf(waiter[p].key) \subseteq IF waiter[p].step = "Wait" THEN {p} ELSE {}
        /\ waiter[p].step = "Save" =>
              /\ waiter[p].id = waiter[p].key
              /\ waiter[p].copy # NoRecord /\ ~waiter[p].copy.running
              /\ waiter[p].copy.name = rec[waiter[p].key].name
        /\ \A n \in Pids :
              waiter[n].step # "none" /\ waiter[n].key = waiter[p].key => n = p

Kept ==
    /\ NamesApart /\ FreshFree /\ OneLive /\ LiveRecorded
    /\ \A r \in Reqs : HandlerKeeps(req[r])
    /\ \A p \in Pids : WaiterKeeps(p)

PromiseInv == Serial /\ SoundInv /\ Kept

(* A handler that has nothing to do has nothing to know.                   *)
LEMMA IdleKeeps == HandlerKeeps(Idle)
BY DEF HandlerKeeps, Idle, Handling

(* The containers of an earlier session have names of their own and run    *)
(* nothing.                                                                *)
LEMMA KeptInit == Init => Kept
<1> SUFFICES ASSUME Init PROVE Kept
  OBVIOUS
<1>1. PICK names \in [Existing -> Names] :
        /\ Injective(names)
        /\ rec = [i \in Ids |-> IF i \in Existing THEN NewRecord(names[i]) ELSE NoRecord]
  BY DEF Init
<1>2. \A i \in Stored : i \in Existing /\ rec[i].name = names[i]
  BY <1>1 DEF Stored, NewRecord
<1>3. NamesApart
  BY <1>1, <1>2 DEF NamesApart, Injective
<1>4. FreshFree
  BY <1>1 DEF Init, FreshFree
<1>5. OneLive /\ LiveRecorded
  BY DEF Init, OneLive, LiveRecorded, LiveOf, Live
<1>6. \A r \in Reqs : HandlerKeeps(req[r])
  BY IdleKeeps DEF Init
<1>7. \A p \in Pids : WaiterKeeps(p)
  BY DEF Init, WaiterKeeps, NoWaiter
<1> QED
  BY <1>3, <1>4, <1>5, <1>6, <1>7 DEF Kept

(* Signals and waits start no process.                                     *)
LEMMA SignalLive ==
    ASSUME TypeOK, NEW p, owner' = owner,
           proc' \in {proc, Killed(p), Suspended(p), Resumed(p), Reaped(p)}
    PROVE  \A i \in Ids : /\ LiveOf(i)' \subseteq LiveOf(i)
                          /\ LiveOf(i) \subseteq LiveOf(i)' \cup {p}
BY DEF TypeOK, LiveOf, Killed, Suspended, Resumed, Reaped, Live

(* A handler that moves, and neither writes a record nor launches a        *)
(* process, has only its own knowledge to keep.                            *)
LEMMA Quiet ==
    ASSUME PromiseInv, NEW r \in Reqs, NEW q, req' = [req EXCEPT ![r] = q],
           rec' = rec, waiter' = waiter, \A i \in Ids : LiveOf(i)' \subseteq LiveOf(i),
           req[r].made = NoPid \/ q.made = req[r].made, fresh' \subseteq fresh,
           HandlerKeeps(q)'
    PROVE  Kept'
<1>1. req'[r] = q /\ \A s \in Reqs : s = r
  BY DEF PromiseInv, Serial, SoundInv, TypeInv, TypeOK
<1>2. (NamesApart /\ FreshFree /\ OneLive)'
  BY DEF PromiseInv, Kept, NamesApart, FreshFree, OneLive, Stored
<1>3. LiveRecorded'
  <2> SUFFICES ASSUME NEW i \in Ids, NEW p \in LiveOf(i)'
               PROVE  Runs(i)' \/ q.made = p
    BY <1>1 DEF LiveRecorded
  <2>1. p \in LiveOf(i) /\ p # NoPid
    BY PidsAssumption DEF LiveOf, NoPid
  <2>2. Runs(i) \/ req[r].made = p
    BY <1>1, <2>1 DEF PromiseInv, Kept, LiveRecorded
  <2> QED
    BY <2>1, <2>2 DEF Runs
<1>4. \A s \in Reqs : HandlerKeeps(req[s])'
  BY <1>1
<1>5. \A p \in Pids : WaiterKeeps(p)'
  <2> SUFFICES ASSUME NEW p \in Pids PROVE WaiterKeeps(p)'
    OBVIOUS
  <2>1. WaiterKeeps(p)
    BY DEF PromiseInv, Kept
  <2> QED
    BY <2>1 DEF WaiterKeeps, Runs
<1> QED
  BY <1>2, <1>3, <1>4, <1>5 DEF Kept

(* The handler of a new request starts with what it has to know.           *)
LEMMA KeptBegin ==
    ASSUME PromiseInv, NEW r \in Reqs, Begin(r)
    PROVE  Kept'
<1>0. /\ TypeInv /\ TypeOK /\ rec' = rec /\ waiter' = waiter /\ owner' = owner
      /\ fresh' \subseteq fresh
      /\ \E p : proc' \in {proc, Killed(p), Suspended(p), Resumed(p)}
  BY DEF PromiseInv, SoundInv, TypeInv, TypeOK, Begin, CreateBegin, StartBegin, StopBegin,
         RestartBegin, KillBegin, RemoveBegin, RemoveForceBegin, PruneBegin, ListBegin,
         RenameBegin, PauseBegin, UnpauseBegin
<1>1. \A i \in Ids : LiveOf(i)' \subseteq LiveOf(i)
  BY <1>0, SignalLive
<1>2. ASSUME NEW op, NEW q, Accept(r, op, q), HandlerKeeps(q)'
      PROVE  Kept'
  <2>1. req[r].made = NoPid /\ req' = [req EXCEPT ![r] = q]
    BY <1>2 DEF Accept, Idle, Handling
  <2> QED
    BY <1>0, <1>1, <1>2, <2>1, Quiet
<1>3. ASSUME NEW op \in {"kill", "remove", "remove_force", "prune", "pause", "unpause"},
             NEW s, s \notin {"Save", "DeleteDir", "DeleteRecord"}, NEW x, NEW i, NEW p, NEW l
      PROVE  /\ HandlerKeeps(Handling(op, s, x, i, NoRecord, p))'
             /\ HandlerKeeps([Handling(op, s, x, i, NoRecord, p) EXCEPT !.todo = l])'
  BY <1>3 DEF HandlerKeeps, Handling
<1>4. ASSUME NEW op, NEW q, Accept(r, op, q)
      PROVE  op \notin {"stop", "restart", "list", "rename"}
  BY <1>4 DEF Accept, PromiseInv, SoundInv, TypeInv, TypeOK, Serial
<1>5. CASE CreateBegin(r)
  <2>1. PICK i \in fresh, n \in Names :
          /\ Accept(r, "create",
                    [Handling("create", "Each", n, NoId, NoRecord, NoPid)
                        EXCEPT !.new = i, !.todo = Snapshot(Named(n))])
          /\ fresh' = fresh \ {i}
    BY <1>5 DEF CreateBegin
  <2>q. PICK q : q = [Handling("create", "Each", n, NoId, NoRecord, NoPid)
                        EXCEPT !.new = i, !.todo = Snapshot(Named(n))]
    OBVIOUS
  <2>2. i \in Ids /\ rec[i] = NoRecord
    BY <1>0 DEF TypeOK, PromiseInv, Kept, FreshFree
  <2>3. /\ q.op = "create" /\ q.step = "Each" /\ q.new = i /\ q.ref = n
        /\ \A j \in Ids : q.todo[j] = IF j \in Named(n) THEN rec[j] ELSE NoRecord
    BY <2>q DEF Handling, Snapshot
  <2>4. \A j \in Named(n) : q.todo[j] # NoRecord
    BY <2>3 DEF Named, Stored
  <2>5. \A j \in Ids : q.todo[j] # NoRecord /\ ~q.todo[j].running => ~Runs(j)
    BY <2>3 DEF Runs
  <2>6. (Named(n) = Named(n)') /\ \A j \in Ids : Runs(j)' = Runs(j)
    BY <1>0 DEF Named, Stored, Runs
  <2>7. HandlerKeeps(q)'
    BY <1>0, <2>1, <2>2, <2>3, <2>4, <2>5, <2>6 DEF HandlerKeeps
  <2> QED
    BY <1>2, <2>1, <2>q, <2>7
<1>6. CASE StartBegin(r)
  <2>1. PICK i \in Stored :
          /\ ~rec[i].running
          /\ Accept(r, "start", Handling("start", "PrepareRootfs", NoId, i, NoRecord, NoPid))
    BY <1>6 DEF StartBegin
  <2>2. HandlerKeeps(Handling("start", "PrepareRootfs", NoId, i, NoRecord, NoPid))'
    BY <1>0, <2>1 DEF HandlerKeeps, Handling, Stored, Runs
  <2> QED
    BY <1>2, <2>1, <2>2
<1>7. CASE KillBegin(r)
  BY <1>2, <1>3, <1>7 DEF KillBegin
<1>8. CASE RemoveBegin(r)
  BY <1>2, <1>3, <1>8 DEF RemoveBegin
<1>9. CASE RemoveForceBegin(r)
  BY <1>2, <1>3, <1>9 DEF RemoveForceBegin
<1>10. CASE PruneBegin(r)
  BY <1>2, <1>3, <1>10 DEF PruneBegin
<1>11. CASE PauseBegin(r)
  BY <1>2, <1>3, <1>11 DEF PauseBegin
<1>12. CASE UnpauseBegin(r)
  BY <1>2, <1>3, <1>12 DEF UnpauseBegin
<1>13. ~(StopBegin(r) \/ RestartBegin(r) \/ ListBegin(r) \/ RenameBegin(r))
  BY <1>4 DEF StopBegin, RestartBegin, ListBegin, RenameBegin
<1> QED
  BY <1>5, <1>6, <1>7, <1>8, <1>9, <1>10, <1>11, <1>12, <1>13 DEF Begin

(* A start finds its container running nothing until it has launched.      *)
LEMMA NothingLive ==
    ASSUME PromiseInv, NEW r \in Reqs, NEW i \in Ids, ~Runs(i),
           req[r].made = NoPid \/ req[r].id # i
    PROVE  LiveOf(i) = {}
<1> SUFFICES ASSUME NEW p \in LiveOf(i) PROVE FALSE
  OBVIOUS
<1>1. p # NoPid /\ p \in Pids /\ owner[p] = i
  BY PidsAssumption DEF LiveOf, NoPid
<1>2. req[r].made = p
  BY DEF PromiseInv, Kept, LiveRecorded, Serial
<1>3. owner[p] = req[r].id
  BY <1>1, <1>2 DEF PromiseInv, SoundInv, RecordSound, HandlerSound
<1> QED
  BY <1>1, <1>2, <1>3

(* Steps that write no record and launch nothing.                          *)
LEMMA KeptQuietStep ==
    ASSUME PromiseInv, NEW r \in Reqs,
           \/ PrepareRootfs(r) \/ LaunchFails(r) \/ WritePid(r)
           \/ StopExited(r) \/ StopTimeout(r) \/ Update(r) \/ UpdateMiss(r)
           \/ DeleteGet(r) \/ DeleteRefused(r) \/ DeleteDir(r)
           \/ CreateReplaces(r) \/ CreateConflict(r) \/ PruneNext(r) \/ EachDone(r)
    PROVE  Kept'
<1>0. /\ TypeOK /\ req[r] \in Request /\ Shape(req[r]) /\ HandlerKeeps(req[r])
      /\ req \in [Reqs -> Request]
  BY DEF PromiseInv, SoundInv, TypeInv, TypeOK, Kept
<1>1. rec' = rec /\ owner' = owner /\ fresh' = fresh
  BY DEF PrepareRootfs, LaunchFails, WritePid, StopExited, StopTimeout, Update, UpdateMiss,
         DeleteGet, DeleteRefused, DeleteDir, CreateReplaces, CreateConflict, PruneNext,
         EachDone
<1>2. \A i \in Ids : LiveOf(i)' \subseteq LiveOf(i)
  <2>1. CASE LaunchFails(r)
    <3>1. \A n \in Pids : proc'[n] \in Live => proc[n] \in Live
      BY <1>0, <2>1 DEF LaunchFails, TypeOK, Live
    <3> QED
      BY <1>1, <3>1 DEF LiveOf
  <2>2. CASE ~LaunchFails(r)
    <3>1. \E p : proc' \in {proc, Killed(p), Suspended(p), Resumed(p), Reaped(p)}
      BY <2>2 DEF PrepareRootfs, WritePid, StopExited, StopTimeout, Update, UpdateMiss,
             DeleteGet, DeleteRefused, DeleteDir, CreateReplaces, CreateConflict, PruneNext,
             EachDone
    <3> QED
      BY <1>0, <1>1, <3>1, SignalLive
  <2> QED
    BY <2>1, <2>2
<1>3. ASSUME NEW q, waiter' = waiter, req' = [req EXCEPT ![r] = q], HandlerKeeps(q),
             req[r].made = NoPid \/ q.made = req[r].made
      PROVE  Kept'
  <2>1. HandlerKeeps(q)'
    BY <1>1, <1>3 DEF HandlerKeeps, Runs, Named, Stored
  <2> QED
    BY <1>1, <1>2, <1>3, <2>1, Quiet
<1>4. ASSUME Answer(r), waiter' = waiter, req[r].made = NoPid
      PROVE  Kept'
  BY <1>3, <1>4, IdleKeeps DEF Answer
<1>5. ASSUME NEW s \in Steps, s \notin {"Save", "DeleteDir", "DeleteRecord"}, Goto(r, s),
             req[r].op # "create", waiter' = waiter
      PROVE  Kept'
  <2>1. req' = [req EXCEPT ![r] = [req[r] EXCEPT !.step = s]]
    BY <1>0, <1>5 DEF Goto
  <2>2. HandlerKeeps([req[r] EXCEPT !.step = s])
    BY <1>0, <1>5 DEF HandlerKeeps, Request
  <2> QED
    BY <1>0, <1>3, <1>5, <2>1, <2>2 DEF Request
<1>6. CASE PrepareRootfs(r)
  BY <1>0, <1>4, <1>5, <1>6 DEF PrepareRootfs, Shape, Steps
<1>7. CASE LaunchFails(r)
  BY <1>0, <1>4, <1>7 DEF LaunchFails, Shape
<1>8. CASE WritePid(r)
  BY <1>0, <1>5, <1>8 DEF WritePid, Shape, Steps
<1>9. CASE StopExited(r) \/ StopTimeout(r)
  BY <1>0, <1>4, <1>5, <1>9 DEF StopExited, StopTimeout, AfterStop, Shape, Steps, HandlerKeeps
<1>10. CASE Update(r)
  <2>1. PICK i \in Get(UpdateKey(req[r])) :
          req' = [req EXCEPT ![r].step = "Save", ![r].id = i,
                             ![r].copy = Change(req[r], rec[i])]
    BY <1>10 DEF Update
  <2> DEFINE q == [req[r] EXCEPT !.step = "Save", !.id = i, !.copy = Change(req[r], rec[i])]
  <2>2. req' = [req EXCEPT ![r] = q]
    BY <1>0, <2>1
  <2>3. i \in Ids /\ rec[i] \in Record /\ rec[i] # NoRecord
    BY <1>0, <2>1, GetType DEF Stored
  <2>4. req[r].op \in {"start", "pause", "unpause"}
    BY <1>0, <1>10 DEF Update, Shape, HandlerKeeps
  <2>5. req[r].op = "start" => i = req[r].id
    BY <1>0, <2>1, GetById DEF UpdateKey, Request
  <2>6. /\ Change(req[r], rec[i]) \in Record
        /\ Change(req[r], rec[i]).name = rec[i].name
        /\ Runs(i) \/ req[r].op = "start" => Change(req[r], rec[i]).running
    BY <1>0, <2>3, <2>4, ChangeType
       DEF Change, MarkRunning, MarkPaused, MarkUnpaused, Runs, Record, Request
  <2>7. Change(req[r], rec[i]) # NoRecord
    BY <2>6, NoRecordAssumption
  <2>8. /\ q.step = "Save" /\ q.id = i /\ q.copy = Change(req[r], rec[i])
        /\ q.op = req[r].op /\ q.made = req[r].made
    BY <1>0 DEF Request
  <2> HIDE DEF q
  <2>9. HandlerKeeps(q)
    BY <1>0, <2>3, <2>4, <2>5, <2>6, <2>7, <2>8 DEF HandlerKeeps
  <2> QED
    BY <1>3, <1>10, <2>2, <2>8, <2>9 DEF Update
<1>11. CASE UpdateMiss(r)
  <2>1. req[r].op # "start"
    <3> SUFFICES ASSUME req[r].op = "start" PROVE FALSE
      OBVIOUS
    <3>1. req[r].id \in Get(req[r].id)
      BY <1>0 DEF HandlerKeeps, Shape, Request, Get, Stored
    <3> QED
      BY <1>11, <3>1 DEF UpdateMiss, UpdateKey
  <2>2. req[r].op \in {"pause", "unpause"} /\ req[r].made = NoPid
    BY <1>0, <1>11, <2>1 DEF UpdateMiss, Shape, HandlerKeeps
  <2>3. Answer(r) /\ waiter' = waiter
    BY <1>11, <2>2 DEF UpdateMiss, AfterSave, Answer
  <2> QED
    BY <1>4, <2>2, <2>3
<1>12. CASE DeleteGet(r)
  <2>1. PICK i \in Get(req[r].ref) :
          /\ ~rec[i].running
          /\ req' = [req EXCEPT ![r].step = "DeleteDir", ![r].id = i]
    BY <1>12 DEF DeleteGet
  <2> DEFINE q == [req[r] EXCEPT !.step = "DeleteDir", !.id = i]
  <2>2. req' = [req EXCEPT ![r] = q]
    BY <1>0, <2>1
  <2>3. i \in Ids /\ ~Runs(i)
    BY <1>0, <2>1, GetType DEF Runs
  <2>4. req[r].op \notin {"create", "start"} /\ req[r].made = NoPid
    BY <1>0, <1>12 DEF DeleteGet, Shape
  <2>5. HandlerKeeps(q) /\ q.made = req[r].made
    BY <1>0, <2>3, <2>4 DEF HandlerKeeps, Request
  <2> QED
    BY <1>3, <1>12, <2>2, <2>5 DEF DeleteGet
<1>13. CASE DeleteRefused(r)
  BY <1>0, <1>4, <1>5, <1>13 DEF DeleteRefused, Shape, Steps
<1>14. CASE DeleteDir(r)
  <2>1. req' = [req EXCEPT ![r] = [req[r] EXCEPT !.step = "DeleteRecord"]]
    BY <1>0, <1>14 DEF DeleteDir, Goto
  <2>2. /\ HandlerKeeps([req[r] EXCEPT !.step = "DeleteRecord"])
        /\ [req[r] EXCEPT !.step = "DeleteRecord"].made = req[r].made
    BY <1>0, <1>14 DEF DeleteDir, HandlerKeeps, Request
  <2> QED
    BY <1>3, <1>14, <2>1, <2>2 DEF DeleteDir
<1>15. CASE CreateReplaces(r)
  <2>1. PICK i \in Ids :
          /\ IsFirst(i, Left(req[r])) /\ ~req[r].todo[i].running
          /\ Take(r, "DeleteDir", i, req[r].ref, NoRecord)
    BY <1>15 DEF CreateReplaces
  <2> DEFINE q == [req[r] EXCEPT !.step = "DeleteDir", !.id = i, !.ref = req[r].ref,
                                 !.copy = NoRecord, !.todo[i] = NoRecord]
  <2>2. req' = [req EXCEPT ![r] = q]
    BY <2>1 DEF Take
  <2>3. /\ q.op = "create" /\ q.step = "DeleteDir" /\ q.id = i /\ q.ref = req[r].ref
        /\ q.new = req[r].new /\ q.made = req[r].made
        /\ q.todo = [req[r].todo EXCEPT ![i] = NoRecord]
        /\ req[r].op = "create" /\ req[r].step = "Each"
    BY <1>0, <1>15 DEF Request, CreateReplaces
  <2>4. req[r].todo[i] # NoRecord /\ req[r].todo \in [Ids -> RecordOrNone]
    BY <1>0, <2>1 DEF IsFirst, Left, Request
  <2> HIDE DEF q
  <2>5. ~Runs(i)
    BY <1>0, <2>1, <2>3, <2>4 DEF HandlerKeeps
  <2>6. \A j \in Ids : j # i => q.todo[j] = req[r].todo[j]
    BY <2>3, <2>4
  <2>7. q.todo[i] = NoRecord
    BY <2>3, <2>4
  <2>8. Named(q.ref) \subseteq Ids
    BY DEF Named, Stored
  <2>9. HandlerKeeps(q)
    BY <1>0, <2>3, <2>5, <2>6, <2>7, <2>8 DEF HandlerKeeps
  <2> QED
    BY <1>3, <1>15, <2>2, <2>3, <2>9 DEF CreateReplaces
<1>16. CASE CreateConflict(r)
  BY <1>0, <1>4, <1>16 DEF CreateConflict, Shape
<1>17. CASE PruneNext(r)
  <2>1. PICK i \in Ids : Take(r, "DeleteGet", i, i, NoRecord)
    BY <1>17 DEF PruneNext
  <2> DEFINE q == [req[r] EXCEPT !.step = "DeleteGet", !.id = i, !.ref = i,
                                 !.copy = NoRecord, !.todo[i] = NoRecord]
  <2>2. req' = [req EXCEPT ![r] = q]
    BY <2>1 DEF Take
  <2>3. q.op = "prune" /\ q.step = "DeleteGet" /\ q.made = req[r].made
    BY <1>0, <1>17 DEF PruneNext, Request
  <2> HIDE DEF q
  <2>4. HandlerKeeps(q)
    BY <2>3 DEF HandlerKeeps
  <2> QED
    BY <1>3, <1>17, <2>2, <2>3, <2>4 DEF PruneNext
<1>18. CASE EachDone(r)
  <2>1. req[r].made = NoPid /\ req[r].step = "Each" /\ waiter' = waiter
    BY <1>0, <1>18 DEF EachDone, Shape
  <2>2. CASE req[r].op # "create"
    BY <1>4, <1>18, <2>1, <2>2 DEF EachDone
  <2>3. CASE req[r].op = "create"
    <3> DEFINE q == [req[r] EXCEPT !.step = "CreateSave"]
    <3>1. req' = [req EXCEPT ![r] = q]
      BY <1>0, <1>18, <2>3 DEF EachDone, Goto
    <3>2. /\ q.op = "create" /\ q.step = "CreateSave" /\ q.ref = req[r].ref
          /\ q.new = req[r].new /\ q.made = req[r].made /\ q.todo = req[r].todo
      BY <1>0, <2>3 DEF Request
    <3> HIDE DEF q
    <3>3. \A i \in Ids : req[r].todo[i] = NoRecord
      BY <1>18 DEF EachDone, Left
    <3>4. Named(req[r].ref) = {}
      BY <1>0, <2>1, <2>3, <3>3 DEF HandlerKeeps, Named, Stored
    <3>5. HandlerKeeps(q)
      BY <1>0, <2>3, <3>2, <3>3, <3>4 DEF HandlerKeeps
    <3> QED
      BY <1>3, <2>1, <3>1, <3>2, <3>5
  <2> QED
    BY <2>2, <2>3
<1> QED
  BY <1>6, <1>7, <1>8, <1>9, <1>10, <1>11, <1>12, <1>13, <1>14, <1>15, <1>16, <1>17, <1>18

-----------------------------------------------------------------------------
(* How the changes of the handlers show in the abstract specification.     *)

NameOf(i) == IF rec[i] = NoRecord THEN NoRecord ELSE rec[i].name

NamesKept == \A i \in Ids : NameOf(i)' = NameOf(i)
LiveKept == \A i \in Ids : LiveOf(i)' = LiveOf(i)

(* The abstract state, by container.                                       *)
LEMMA AbstractState ==
    /\ Promise!vars = <<[i \in Ids |-> NameOf(i)], [i \in Ids |-> LiveOf(i)]>>
    /\ Promise!vars' = <<[i \in Ids |-> NameOf(i)'], [i \in Ids |-> LiveOf(i)']>>
BY DEF Promise!vars, NameOf

(* Steps that change no name and nothing that runs show nothing.           *)
LEMMA Stutters ==
    ASSUME NamesKept, LiveKept
    PROVE  [Promise!Next]_Promise!vars
BY AbstractState DEF NamesKept, LiveKept

(* The rest shows as the step of the same name.                            *)
LEMMA Exits ==
    ASSUME NamesKept, NEW i \in Ids, LiveOf(i)' = {},
           \A j \in Ids : j # i => LiveOf(j)' = LiveOf(j)
    PROVE  Promise!Next
<1>1. [j \in Ids |-> LiveOf(j)'] = [[j \in Ids |-> LiveOf(j)] EXCEPT ![i] = {}]
  OBVIOUS
<1>2. [j \in Ids |-> NameOf(j)'] = [j \in Ids |-> NameOf(j)]
  BY DEF NamesKept
<1>3. Promise!Exit(i)
  BY <1>1, <1>2 DEF Promise!Exit, NameOf
<1> QED
  BY <1>3 DEF Promise!Next

(* A process more, for a container that has none, is a Launch of           *)
(* Containers.                                                             *)
LEMMA Launches ==
    ASSUME NamesKept, NEW i \in Ids, NEW p \in Pids, rec[i] # NoRecord, rec[i].name # NoRecord,
           LiveOf(i) = {}, LiveOf(i)' = {p}, \A j \in Ids : j # i => LiveOf(j)' = LiveOf(j)
    PROVE  Promise!Next
<1>1. [j \in Ids |-> LiveOf(j)'] = [[j \in Ids |-> LiveOf(j)] EXCEPT ![i] = {p}]
  OBVIOUS
<1>2. [j \in Ids |-> NameOf(j)'] = [j \in Ids |-> NameOf(j)]
  BY DEF NamesKept
<1>3. Promise!Launch(i, p)
  BY <1>1, <1>2 DEF Promise!Launch, NameOf
<1> QED
  BY <1>3 DEF Promise!Next

(* A name more, which no container has, is a Create of Containers.         *)
LEMMA Creates ==
    ASSUME LiveKept, NEW i \in Ids, NEW n \in Names, rec[i] = NoRecord,
           \A j \in Ids : NameOf(j) # n, NameOf(i)' = n,
           \A j \in Ids : j # i => NameOf(j)' = NameOf(j)
    PROVE  Promise!Next
<1>1. [j \in Ids |-> NameOf(j)'] = [[j \in Ids |-> NameOf(j)] EXCEPT ![i] = n]
  OBVIOUS
<1>2. [j \in Ids |-> LiveOf(j)'] = [j \in Ids |-> LiveOf(j)]
  BY DEF LiveKept
<1>3. Promise!Create(i, n)
  BY <1>1, <1>2 DEF Promise!Create, NameOf
<1> QED
  BY <1>3 DEF Promise!Next

(* A name less, of a container that runs nothing, is a Remove.             *)
LEMMA Removes ==
    ASSUME LiveKept, NEW i \in Ids, rec[i] # NoRecord, rec[i].name # NoRecord, LiveOf(i) = {},
           rec'[i] = NoRecord, \A j \in Ids : j # i => NameOf(j)' = NameOf(j)
    PROVE  Promise!Next
<1>1. [j \in Ids |-> NameOf(j)'] = [[j \in Ids |-> NameOf(j)] EXCEPT ![i] = NoRecord]
  BY DEF NameOf
<1>2. [j \in Ids |-> LiveOf(j)'] = [j \in Ids |-> LiveOf(j)]
  BY DEF LiveKept
<1>3. Promise!Remove(i)
  BY <1>1, <1>2 DEF Promise!Remove, NameOf
<1> QED
  BY <1>3 DEF Promise!Next

(* The end of all processes at once is a Crash.                            *)
LEMMA Crashes ==
    ASSUME NamesKept, \A i \in Ids : LiveOf(i)' = {}
    PROVE  Promise!Next
<1>1. [j \in Ids |-> LiveOf(j)'] = [j \in Ids |-> {}]
  OBVIOUS
<1>2. [j \in Ids |-> NameOf(j)'] = [j \in Ids |-> NameOf(j)]
  BY DEF NamesKept
<1>3. Promise!Crash
  BY <1>1, <1>2 DEF Promise!Crash, NameOf
<1> QED
  BY <1>3 DEF Promise!Next

(* A launch takes a container that runs nothing to one that runs the new   *)
(* process, and touches no other.                                          *)
LEMMA LaunchLive ==
    ASSUME PromiseInv, NEW r \in Reqs, Launch(r)
    PROVE  \E i \in Ids, p \in Pids :
              /\ i = req[r].id /\ rec[i] # NoRecord /\ ~Runs(i)
              /\ req' = [req EXCEPT ![r] = [req[r] EXCEPT !.step = "WritePid", !.made = p]]
              /\ LiveOf(i) = {} /\ LiveOf(i)' = {p}
              /\ \A j \in Ids : j # i => LiveOf(j)' = LiveOf(j)
<1>0. /\ req[r] \in Request /\ Shape(req[r]) /\ HandlerKeeps(req[r])
      /\ req \in [Reqs -> Request] /\ proc \in [Pids -> ProcState]
      /\ owner \in [Pids -> Ids \cup {NoId}]
  BY DEF PromiseInv, SoundInv, TypeInv, TypeOK, Kept
<1>1. PICK i \in Ids : i = req[r].id /\ rec[i] # NoRecord /\ ~Runs(i)
  BY <1>0 DEF Launch, Shape, HandlerKeeps, Request
<1>2. LiveOf(i) = {}
  BY <1>0, <1>1, NothingLive DEF Launch, Shape
<1>3. PICK p \in Pids :
        /\ proc[p] = "none" /\ proc' = [proc EXCEPT ![p] = "alive"]
        /\ owner' = [owner EXCEPT ![p] = i]
        /\ req' = [req EXCEPT ![r].step = "WritePid", ![r].made = p]
  BY <1>1 DEF Launch, IsFirst, Unused
<1>4. owner[p] = NoId
  BY <1>3 DEF PromiseInv, SoundInv, Launched
<1>5. LiveOf(i)' = {p}
  BY <1>0, <1>2, <1>3 DEF LiveOf, Live
<1>6. \A j \in Ids : j # i => LiveOf(j)' = LiveOf(j)
  BY <1>0, <1>3, <1>4, IdsAssumption DEF LiveOf, Live, NoId
<1> QED
  BY <1>0, <1>1, <1>2, <1>3, <1>5, <1>6

(* Only the start that launched it knows of the new process.               *)
LEMMA KeptLaunch ==
    ASSUME PromiseInv, NEW r \in Reqs, Launch(r)
    PROVE  Kept'
<1>0. /\ req[r] \in Request /\ Shape(req[r]) /\ req[r].step = "Launch"
      /\ HandlerKeeps(req[r]) /\ req \in [Reqs -> Request] /\ \A s \in Reqs : s = r
      /\ rec' = rec /\ waiter' = waiter /\ fresh' = fresh
  BY DEF PromiseInv, Serial, SoundInv, TypeInv, TypeOK, Kept, Launch
<1>1. PICK i \in Ids, p \in Pids :
        /\ i = req[r].id /\ rec[i] # NoRecord /\ ~Runs(i)
        /\ req' = [req EXCEPT ![r] = [req[r] EXCEPT !.step = "WritePid", !.made = p]]
        /\ LiveOf(i) = {} /\ LiveOf(i)' = {p}
        /\ \A j \in Ids : j # i => LiveOf(j)' = LiveOf(j)
  BY LaunchLive
<1>2. /\ req[r].made = NoPid
      /\ req'[r].made = p /\ req'[r].op = "start" /\ req'[r].id = i
      /\ req'[r].step = "WritePid"
  BY <1>0, <1>1 DEF Shape, HandlerKeeps, Request
<1>3. (NamesApart /\ FreshFree)'
  BY <1>0 DEF PromiseInv, Kept, NamesApart, FreshFree, Stored
<1>4. OneLive'
  BY <1>1 DEF PromiseInv, Kept, OneLive
<1>5. LiveRecorded'
  <2> SUFFICES ASSUME NEW j \in Ids, NEW n \in LiveOf(j)'
               PROVE  Runs(j)' \/ req'[r].made = n
    BY DEF LiveRecorded
  <2>1. CASE j = i
    BY <1>1, <1>2, <2>1
  <2>2. CASE j # i
    <3>1. n \in LiveOf(j) /\ n # NoPid
      BY <1>1, <2>2, PidsAssumption DEF LiveOf, NoPid
    <3> QED
      BY <1>0, <1>2, <3>1 DEF PromiseInv, Kept, LiveRecorded, Runs
  <2> QED
    BY <2>1, <2>2
<1>6. \A s \in Reqs : HandlerKeeps(req[s])'
  BY <1>0, <1>1, <1>2 DEF HandlerKeeps, Runs
<1>7. \A n \in Pids : WaiterKeeps(n)'
  <2> SUFFICES ASSUME NEW n \in Pids PROVE WaiterKeeps(n)'
    OBVIOUS
  <2>1. WaiterKeeps(n)
    BY DEF PromiseInv, Kept
  <2> QED
    BY <1>0, <1>1, <2>1 DEF WaiterKeeps, Runs
<1> QED
  BY <1>3, <1>4, <1>5, <1>6, <1>7 DEF Kept

(* What a handler saves is the record as it was, but for marks that take   *)
(* no Running away.                                                        *)
LEMMA SaveKeepsNames ==
    ASSUME PromiseInv, NEW r \in Reqs, Save(r)
    PROVE  /\ NamesKept /\ LiveKept /\ Stored' = Stored
           /\ \A i \in Ids : rec[i] # NoRecord => rec'[i] # NoRecord /\ rec'[i].name = rec[i].name
           /\ \A i \in Ids : Runs(i) => Runs(i)'
<1>0. /\ HandlerKeeps(req[r]) /\ rec \in [Ids -> RecordOrNone]
      /\ rec' = [rec EXCEPT ![req[r].id] = req[r].copy] /\ req[r].step = "Save"
      /\ proc' = proc /\ owner' = owner
  BY DEF PromiseInv, SoundInv, TypeInv, TypeOK, Kept, Save
<1>1. \A i \in Ids : rec[i] # NoRecord => rec'[i] # NoRecord /\ rec'[i].name = rec[i].name
  BY <1>0 DEF HandlerKeeps
<1>2. \A i \in Ids : rec[i] = NoRecord => rec'[i] = NoRecord
  BY <1>0 DEF HandlerKeeps
<1>3. NamesKept /\ Stored' = Stored
  BY <1>1, <1>2 DEF NamesKept, NameOf, Stored
<1>4. LiveKept
  BY <1>0 DEF LiveKept, LiveOf
<1>5. \A i \in Ids : Runs(i) => Runs(i)'
  BY <1>0 DEF HandlerKeeps, Runs
<1> QED
  BY <1>1, <1>3, <1>4, <1>5

(* A start that saves hands its process to a goroutine, the only one of    *)
(* its container; a pause or an unpause changes the status alone.          *)
LEMMA KeptSave ==
    ASSUME PromiseInv, NEW r \in Reqs, Save(r)
    PROVE  Kept'
<1>0. /\ req[r] \in Request /\ Shape(req[r]) /\ HandlerKeeps(req[r]) /\ HandlerSound(req[r])
      /\ req \in [Reqs -> Request] /\ rec \in [Ids -> RecordOrNone] /\ waiter \in [Pids -> Waiter]
      /\ (\A s \in Reqs : s = r) /\ req[r].step = "Save"
      /\ rec' = [rec EXCEPT ![req[r].id] = req[r].copy]
      /\ proc' = proc /\ owner' = owner /\ fresh' = fresh
  BY DEF PromiseInv, Serial, SoundInv, TypeInv, TypeOK, RecordSound, Kept, Save
<1>1. req[r].op \notin {"list", "restart"} /\ (req[r].made # NoPid => req[r].op = "start")
  BY <1>0 DEF Shape, HandlerKeeps
<1>2. /\ req' = [req EXCEPT ![r] = Idle]
      /\ waiter' = IF req[r].made = NoPid THEN waiter
                   ELSE [waiter EXCEPT ![req[r].made] =
                           [NoWaiter EXCEPT !.step = "Wait", !.after = "start",
                                            !.key = req[r].id]]
  BY <1>1 DEF Save, AfterSave
<1>3. /\ LiveKept /\ Stored' = Stored
      /\ \A i \in Ids : rec[i] # NoRecord => rec'[i] # NoRecord /\ rec'[i].name = rec[i].name
      /\ \A i \in Ids : Runs(i) => Runs(i)'
  BY SaveKeepsNames
<1>4. NamesApart'
  BY <1>3 DEF PromiseInv, Kept, NamesApart, Stored
<1>5. FreshFree'
  BY <1>0, <1>3 DEF PromiseInv, SoundInv, TypeInv, TypeOK, Kept, FreshFree, Stored
<1>6. OneLive'
  BY <1>3 DEF PromiseInv, Kept, OneLive, LiveKept
<1>7. ASSUME NEW p \in Pids, req[r].made = p
      PROVE  \E i \in Ids : /\ i = req[r].id /\ owner[p] = i /\ ~Runs(i) /\ Runs(i)'
                             /\ LiveOf(i) \subseteq {p}
  <2>0. req[r].op = "start" /\ p # NoPid
    BY <1>1, <1>7, PidsAssumption DEF NoPid
  <2>1. PICK i \in Ids : i = req[r].id
    BY <1>0 DEF HandlerKeeps
  <2>2. owner[p] = i /\ ~Runs(i) /\ Runs(i)'
    BY <1>0, <1>7, <2>0, <2>1 DEF HandlerKeeps, HandlerSound, Runs
  <2>3. LiveOf(i) \subseteq {p}
    BY <1>0, <1>7, <2>2 DEF PromiseInv, Kept, LiveRecorded
  <2> QED
    BY <2>1, <2>2, <2>3
<1>8. LiveRecorded'
  <2> SUFFICES ASSUME NEW i \in Ids, NEW n \in LiveOf(i)'
               PROVE  Runs(i)'
    BY DEF LiveRecorded
  <2>1. n \in LiveOf(i) /\ n \in Pids /\ owner[n] = i
    BY <1>3 DEF LiveKept, LiveOf
  <2>2. Runs(i) \/ req[r].made = n
    BY <1>0, <2>1 DEF PromiseInv, Kept, LiveRecorded
  <2> QED
    BY <1>3, <1>7, <2>1, <2>2
<1>9. \A s \in Reqs : HandlerKeeps(req[s])'
  <2>1. HandlerKeeps(Idle)'
    BY DEF HandlerKeeps, Idle, Handling
  <2> QED
    BY <1>0, <1>2, <2>1
<1>10. \A n \in Pids : WaiterKeeps(n)'
  <2>1. \A n \in Pids : WaiterKeeps(n) /\ n # NoPid
    BY PidsAssumption DEF PromiseInv, Kept, NoPid
  <2>2. CASE req[r].made = NoPid
    BY <1>2, <1>3, <2>1, <2>2 DEF WaiterKeeps, LiveKept, Runs
  <2>3. CASE req[r].made # NoPid
    <3>0. PICK p \in Pids : req[r].made = p
      BY <1>0, <2>3 DEF Request
    <3>1. PICK i \in Ids : /\ i = req[r].id /\ owner[p] = i /\ ~Runs(i) /\ Runs(i)'
                           /\ LiveOf(i) \subseteq {p}
      BY <1>7, <3>0
    <3>2. /\ waiter'[p].step = "Wait" /\ waiter'[p].after = "start" /\ waiter'[p].key = i
          /\ \A n \in Pids : n # p => waiter'[n] = waiter[n]
      BY <1>0, <1>2, <2>3, <3>0, <3>1 DEF NoWaiter
    <3>3. \A n \in Pids : waiter[n].step # "none" => waiter[n].key # i
      BY <2>1, <3>1 DEF WaiterKeeps
    <3>4. WaiterKeeps(p)'
      BY <1>3, <3>1, <3>2, <3>3 DEF WaiterKeeps, LiveKept
    <3>5. ASSUME NEW n \in Pids, n # p PROVE WaiterKeeps(n)'
      <4>1. waiter'[n] = waiter[n] /\ WaiterKeeps(n)
        BY <2>1, <3>2, <3>5
      <4>2. waiter[n].step # "none" =>
              \A m \in Pids : waiter'[m].step # "none" /\ waiter'[m].key = waiter[n].key => m = n
        BY <3>2, <3>3, <4>1 DEF WaiterKeeps
      <4> QED
        BY <1>3, <4>1, <4>2 DEF WaiterKeeps, LiveKept, Runs
    <3> QED
      BY <3>4, <3>5
  <2> QED
    BY <2>2, <2>3
<1> QED
  BY <1>4, <1>5, <1>6, <1>8, <1>9, <1>10 DEF Kept

(* The goroutines of containers that say Running survive a change to a     *)
(* record that does not.                                                   *)
LEMMA WaitersSpared ==
    ASSUME PromiseInv, NEW i \in Ids, ~Runs(i), waiter' = waiter, LiveKept,
           \A j \in Ids : j # i => rec'[j] = rec[j]
    PROVE  \A n \in Pids : WaiterKeeps(n)'
<1> SUFFICES ASSUME NEW n \in Pids PROVE WaiterKeeps(n)'
  OBVIOUS
<1>1. WaiterKeeps(n)
  BY DEF PromiseInv, Kept
<1> QED
  BY <1>1 DEF WaiterKeeps, LiveKept, Runs

(* The record that goes is of a container that does not say Running, so    *)
(* that no goroutine is left with a container that is gone.                *)
LEMMA KeptDeleteRecord ==
    ASSUME PromiseInv, NEW r \in Reqs, DeleteRecord(r)
    PROVE  Kept'
<1>0. /\ req[r] \in Request /\ Shape(req[r]) /\ HandlerKeeps(req[r])
      /\ req \in [Reqs -> Request] /\ rec \in [Ids -> RecordOrNone]
      /\ (\A s \in Reqs : s = r) /\ req[r].step = "DeleteRecord" /\ req[r].made = NoPid
      /\ waiter' = waiter /\ proc' = proc /\ owner' = owner /\ fresh' = fresh
  BY DEF PromiseInv, Serial, SoundInv, TypeInv, TypeOK, Kept, DeleteRecord, Shape
<1>1. PICK i \in Ids : i = req[r].id /\ ~Runs(i) /\ rec' = [rec EXCEPT ![i] = NoRecord]
  BY <1>0 DEF HandlerKeeps, DeleteRecord
<1>2. rec'[i] = NoRecord /\ \A j \in Ids : j # i => rec'[j] = rec[j]
  BY <1>0, <1>1
<1>3. LiveKept
  BY <1>0 DEF LiveKept, LiveOf
<1>4. NamesApart'
  BY <1>2 DEF PromiseInv, Kept, NamesApart, Stored
<1>5. FreshFree'
  BY <1>0, <1>2 DEF PromiseInv, SoundInv, TypeInv, TypeOK, Kept, FreshFree
<1>6. OneLive'
  BY <1>3 DEF PromiseInv, Kept, OneLive, LiveKept
<1>7. LiveRecorded'
  <2> SUFFICES ASSUME NEW j \in Ids, NEW n \in LiveOf(j)'
               PROVE  Runs(j)'
    BY DEF LiveRecorded
  <2>1. n \in LiveOf(j) /\ n # NoPid
    BY <1>3, PidsAssumption DEF LiveKept, LiveOf, NoPid
  <2>2. Runs(j)
    BY <1>0, <2>1 DEF PromiseInv, Kept, LiveRecorded
  <2> QED
    BY <1>1, <1>2, <2>2 DEF Runs
<1>8. \A s \in Reqs : HandlerKeeps(req[s])'
  <2>1. CASE req[r].op \notin {"create", "prune"}
    <3>1. req' = [req EXCEPT ![r] = Idle] /\ HandlerKeeps(Idle)'
      BY <2>1 DEF DeleteRecord, Answer, HandlerKeeps, Idle, Handling
    <3> QED
      BY <1>0, <3>1
  <2>2. CASE req[r].op = "prune"
    <3>1. req'[r].op = "prune" /\ req'[r].step = "Each"
      BY <1>0, <2>2 DEF DeleteRecord, Goto, Request
    <3> QED
      BY <1>0, <3>1 DEF HandlerKeeps
  <2>3. CASE req[r].op = "create"
    <3>1. /\ req'[r].op = "create" /\ req'[r].step = "Each" /\ req'[r].ref = req[r].ref
          /\ req'[r].new = req[r].new /\ req'[r].todo = req[r].todo
      BY <1>0, <2>3 DEF DeleteRecord, Goto, Request
    <3>2. \A j \in Named(req[r].ref)' : j \in Named(req[r].ref) /\ j # i
      BY <1>2, <3>1 DEF Named, Stored
    <3>3. rec'[req[r].new] = NoRecord /\ req[r].new \in Ids \ fresh
      BY <1>0, <1>2, <2>3 DEF HandlerKeeps
    <3>4. \A j \in Ids : Runs(j)' => Runs(j)
      BY <1>2 DEF Runs
    <3>5. HandlerKeeps(req[r])'
      BY <1>0, <1>1, <2>3, <3>1, <3>2, <3>3, <3>4 DEF HandlerKeeps
    <3> QED
      BY <1>0, <3>5
  <2> QED
    BY <2>1, <2>2, <2>3
<1>9. \A n \in Pids : WaiterKeeps(n)'
  BY <1>0, <1>1, <1>2, <1>3, WaitersSpared
<1> QED
  BY <1>4, <1>5, <1>6, <1>7, <1>8, <1>9 DEF Kept

(* What a create is about to write is a container nobody has, by a name    *)
(* nobody has.                                                             *)
LEMMA CreateIsNew ==
    ASSUME PromiseInv, NEW r \in Reqs, CreateSave(r)
    PROVE  \E i \in Ids, n \in Names :
              /\ i \notin fresh /\ rec[i] = NoRecord /\ Named(n) = {}
              /\ rec' = [rec EXCEPT ![i] = NewRecord(n)]
<1>1. Shape(req[r]) /\ HandlerKeeps(req[r]) /\ req[r].step = "CreateSave"
  BY DEF PromiseInv, SoundInv, TypeInv, Kept, CreateSave
<1>2. req[r].op = "create" /\ req[r].ref \in Names
  BY <1>1 DEF Shape
<1>3. Named(req[r].ref) = {}
  BY <1>1, <1>2 DEF HandlerKeeps
<1> QED
  BY <1>1, <1>2, <1>3 DEF HandlerKeeps, CreateSave

(* The new container has the only record of its name and runs nothing.     *)
LEMMA KeptCreateSave ==
    ASSUME PromiseInv, NEW r \in Reqs, CreateSave(r)
    PROVE  Kept'
<1>0. /\ req[r] \in Request /\ Shape(req[r]) /\ req \in [Reqs -> Request]
      /\ rec \in [Ids -> RecordOrNone] /\ fresh \subseteq Ids
      /\ (\A s \in Reqs : s = r) /\ req[r].made = NoPid /\ req' = [req EXCEPT ![r] = Idle]
      /\ waiter' = waiter /\ proc' = proc /\ owner' = owner /\ fresh' = fresh
  BY DEF PromiseInv, Serial, SoundInv, TypeInv, TypeOK, CreateSave, Answer, Shape
<1>1. PICK i \in Ids, n \in Names :
        /\ i \notin fresh /\ rec[i] = NoRecord /\ Named(n) = {}
        /\ rec' = [rec EXCEPT ![i] = NewRecord(n)]
  BY CreateIsNew
<1>2. rec'[i] = NewRecord(n) /\ \A j \in Ids : j # i => rec'[j] = rec[j]
  BY <1>0, <1>1
<1>3. LiveKept /\ ~Runs(i)
  BY <1>0, <1>1 DEF LiveKept, LiveOf, Runs
<1>4. NamesApart'
  BY <1>1, <1>2 DEF PromiseInv, Kept, NamesApart, Named, Stored, NewRecord
<1>5. FreshFree'
  BY <1>0, <1>1, <1>2 DEF PromiseInv, Kept, FreshFree
<1>6. OneLive'
  BY <1>3 DEF PromiseInv, Kept, OneLive, LiveKept
<1>7. LiveRecorded'
  <2> SUFFICES ASSUME NEW j \in Ids, NEW p \in LiveOf(j)'
               PROVE  Runs(j)'
    BY DEF LiveRecorded
  <2>1. p \in LiveOf(j) /\ p # NoPid
    BY <1>3, PidsAssumption DEF LiveKept, LiveOf, NoPid
  <2>2. Runs(j)
    BY <1>0, <2>1 DEF PromiseInv, Kept, LiveRecorded
  <2> QED
    BY <1>2, <1>3, <2>2 DEF Runs
<1>8. \A s \in Reqs : HandlerKeeps(req[s])'
  <2>1. HandlerKeeps(Idle)'
    BY DEF HandlerKeeps, Idle, Handling
  <2> QED
    BY <1>0, <2>1
<1>9. \A p \in Pids : WaiterKeeps(p)'
  BY <1>0, <1>2, <1>3, WaitersSpared
<1> QED
  BY <1>4, <1>5, <1>6, <1>7, <1>8, <1>9 DEF Kept

(* Every step of a handler keeps what the promise needs.                   *)
LEMMA KeptStep ==
    ASSUME PromiseInv, NEW r \in Reqs, Step(r)
    PROVE  Kept'
<1>1. ~ListNext(r)
  BY DEF PromiseInv, Kept, HandlerKeeps, ListNext
<1> QED
  BY <1>1, KeptQuietStep, KeptLaunch, KeptSave, KeptDeleteRecord, KeptCreateSave DEF Step

(* A goroutine goes on when its process is gone, which was the last one.   *)
LEMMA KeptWaiterQuiet ==
    ASSUME PromiseInv, NEW p \in Pids, WaiterReap(p) \/ WaiterGet(p) \/ WaiterMiss(p)
    PROVE  Kept'
<1>0. /\ waiter \in [Pids -> Waiter] /\ TypeOK /\ rec' = rec /\ req' = req
      /\ owner' = owner /\ fresh' = fresh /\ proc' \in {proc, Reaped(p)}
      /\ \A n \in Pids : WaiterKeeps(n)
  BY DEF PromiseInv, SoundInv, TypeInv, TypeOK, Kept, WaiterReap, WaiterGet, WaiterMiss
<1>1. \A i \in Ids : LiveOf(i)' \subseteq LiveOf(i)
  BY <1>0, SignalLive
<1>2. (NamesApart /\ FreshFree /\ OneLive)'
  BY <1>0, <1>1 DEF PromiseInv, Kept, NamesApart, FreshFree, OneLive, Stored
<1>3. LiveRecorded'
  BY <1>0, <1>1 DEF PromiseInv, Kept, LiveRecorded, Runs
<1>4. \A s \in Reqs : HandlerKeeps(req[s])'
  BY <1>0 DEF PromiseInv, Kept, HandlerKeeps, Runs, Named, Stored
<1>5. ASSUME NEW w, waiter' = [waiter EXCEPT ![p] = w],
             w.step = "none" \/ (w.key = waiter[p].key /\ waiter[p].step # "none"),
             w.step # "none" =>
                /\ w.after = "start"
                /\ LiveOf(w.key)' \subseteq IF w.step = "Wait" THEN {p} ELSE {}
                /\ w.step = "Save" =>
                      /\ w.id = w.key /\ w.copy # NoRecord /\ ~w.copy.running
                      /\ w.copy.name = rec[w.key].name
      PROVE  \A n \in Pids : WaiterKeeps(n)'
  <2>1. waiter'[p] = w /\ \A n \in Pids : n # p => waiter'[n] = waiter[n]
    BY <1>0, <1>5
  <2>2. WaiterKeeps(p)'
    BY <1>0, <1>5, <2>1 DEF WaiterKeeps, Runs
  <2>3. ASSUME NEW n \in Pids, n # p PROVE WaiterKeeps(n)'
    <3>1. WaiterKeeps(n) /\ waiter'[n] = waiter[n]
      BY <1>0, <2>1, <2>3
    <3>2. waiter[n].step # "none" =>
            \A m \in Pids : waiter'[m].step # "none" /\ waiter'[m].key = waiter[n].key => m = n
      BY <1>5, <2>1, <3>1 DEF WaiterKeeps
    <3> QED
      BY <1>0, <1>1, <3>1, <3>2 DEF WaiterKeeps, Runs
  <2> QED
    BY <2>2, <2>3
<1>6. CASE WaiterReap(p)
  <2>1. waiter' = [waiter EXCEPT ![p] = [waiter[p] EXCEPT !.step = "Get"]]
    BY <1>0, <1>6 DEF WaiterReap
  <2>2. waiter[p].step = "Wait" /\ waiter[p].after = "start" /\ waiter[p].key \in Ids
    BY <1>0, <1>6 DEF WaiterReap, WaiterKeeps
  <2>3. LiveOf(waiter[p].key) \subseteq {p}
    BY <1>0, <2>2 DEF WaiterKeeps
  <2>4. p \notin LiveOf(waiter[p].key)
    BY <1>6, PidsAssumption DEF WaiterReap, Exited, LiveOf, Live, NoPid
  <2>5. PICK w : w = [waiter[p] EXCEPT !.step = "Get"]
    OBVIOUS
  <2>6. w.step = "Get" /\ w.after = "start" /\ w.key = waiter[p].key
    BY <1>0, <2>2, <2>5 DEF Waiter
  <2>7. LiveOf(w.key)' \subseteq {}
    BY <1>1, <2>2, <2>3, <2>4, <2>6
  <2>8. \A n \in Pids : WaiterKeeps(n)'
    BY <1>5, <2>1, <2>2, <2>5, <2>6, <2>7
  <2> QED
    BY <1>2, <1>3, <1>4, <2>8 DEF Kept
<1>7. CASE WaiterGet(p)
  <2>1. waiter[p].step = "Get" /\ waiter[p].after = "start" /\ waiter[p].key \in Ids
    BY <1>0, <1>7 DEF WaiterGet, WaiterKeeps
  <2>2. PICK i \in Get(waiter[p].key) :
          waiter' = [waiter EXCEPT ![p].step = "Save", ![p].id = i,
                                   ![p].copy = MarkExited(rec[i])]
    BY <1>7, <2>1 DEF WaiterGet
  <2>3. i = waiter[p].key /\ rec[i] \in Record
    BY <1>0, <2>1, <2>2, GetById, GetType
  <2>4. /\ MarkExited(rec[i]) # NoRecord /\ ~MarkExited(rec[i]).running
        /\ MarkExited(rec[i]).name = rec[i].name
    BY <2>3, ChangeType, NoRecordAssumption DEF MarkExited, Record
  <2>5. PICK w : w = [waiter[p] EXCEPT !.step = "Save", !.id = i, !.copy = MarkExited(rec[i])]
    OBVIOUS
  <2>6. /\ w.step = "Save" /\ w.after = "start" /\ w.key = i /\ w.id = i
        /\ w.copy = MarkExited(rec[i])
    BY <1>0, <2>1, <2>3, <2>5 DEF Waiter
  <2>7. LiveOf(i)' \subseteq {}
    BY <1>0, <1>1, <2>1, <2>3 DEF WaiterKeeps
  <2>8. waiter' = [waiter EXCEPT ![p] = w]
    BY <1>0, <2>2, <2>5
  <2>9. \A n \in Pids : WaiterKeeps(n)'
    BY <1>5, <2>1, <2>3, <2>4, <2>6, <2>7, <2>8
  <2> QED
    BY <1>2, <1>3, <1>4, <2>9 DEF Kept
<1>8. CASE WaiterMiss(p)
  <2>1. waiter' = [waiter EXCEPT ![p] = NoWaiter] /\ NoWaiter.step = "none"
    BY <1>8 DEF WaiterMiss, NoWaiter
  <2>2. \A n \in Pids : WaiterKeeps(n)'
    BY <1>5, <2>1
  <2> QED
    BY <1>2, <1>3, <1>4, <2>2 DEF Kept
<1> QED
  BY <1>6, <1>7, <1>8

(* What the goroutine of a container saves changes neither its name nor    *)
(* what runs.                                                              *)
LEMMA WaiterSaves ==
    ASSUME PromiseInv, NEW p \in Pids, WaiterSave(p)
    PROVE  \E i \in Ids, c \in Record :
              /\ i = waiter[p].key /\ rec' = [rec EXCEPT ![i] = c] /\ rec[i] # NoRecord
              /\ c # NoRecord /\ ~c.running /\ c.name = rec[i].name
              /\ LiveOf(i) = {} /\ NamesKept /\ LiveKept /\ Stored' = Stored
<1>1. /\ WaiterKeeps(p) /\ waiter[p].step = "Save" /\ rec \in [Ids -> RecordOrNone]
      /\ waiter[p] \in Waiter
      /\ rec' = [rec EXCEPT ![waiter[p].id] = waiter[p].copy]
      /\ proc' = proc /\ owner' = owner
  BY DEF PromiseInv, SoundInv, TypeInv, TypeOK, Kept, WaiterSave
<1>2. PICK i \in Ids, c \in Record : i = waiter[p].key /\ c = waiter[p].copy
  BY <1>1 DEF WaiterKeeps, Waiter, RecordOrNone
<1>3. /\ rec' = [rec EXCEPT ![i] = c] /\ rec[i] # NoRecord
      /\ c # NoRecord /\ ~c.running /\ c.name = rec[i].name /\ LiveOf(i) = {}
  BY <1>1, <1>2 DEF WaiterKeeps, Runs
<1>4. NamesKept /\ LiveKept /\ Stored' = Stored
  BY <1>1, <1>3 DEF NamesKept, NameOf, LiveKept, LiveOf, Stored
<1> QED
  BY <1>2, <1>3, <1>4

(* No handler that is about to save, to delete or to launch is misled by   *)
(* a goroutine that takes Running away.                                    *)
LEMMA KeptWaiterSave ==
    ASSUME PromiseInv, NEW p \in Pids, WaiterSave(p)
    PROVE  Kept'
<1>0. /\ waiter \in [Pids -> Waiter] /\ rec \in [Ids -> RecordOrNone] /\ fresh \subseteq Ids
      /\ req' = req /\ fresh' = fresh /\ waiter' = [waiter EXCEPT ![p] = NoWaiter]
      /\ waiter[p].step = "Save"
  BY DEF PromiseInv, SoundInv, TypeInv, TypeOK, WaiterSave
<1>1. PICK i \in Ids, c \in Record :
        /\ i = waiter[p].key /\ rec' = [rec EXCEPT ![i] = c] /\ rec[i] # NoRecord
        /\ c # NoRecord /\ ~c.running /\ c.name = rec[i].name
        /\ LiveOf(i) = {} /\ NamesKept /\ LiveKept /\ Stored' = Stored
  BY WaiterSaves
<1>2. rec'[i] = c /\ \A j \in Ids : j # i => rec'[j] = rec[j]
  BY <1>0, <1>1
<1>3. /\ \A j \in Ids : rec[j] # NoRecord => rec'[j] # NoRecord /\ rec'[j].name = rec[j].name
      /\ \A j \in Ids : Runs(j)' <=> Runs(j) /\ j # i
  BY <1>1, <1>2 DEF Runs
<1>4. NamesApart'
  BY <1>1, <1>3 DEF PromiseInv, Kept, NamesApart, Stored
<1>5. FreshFree'
  BY <1>0, <1>1, <1>2 DEF PromiseInv, Kept, FreshFree
<1>6. OneLive'
  BY <1>1 DEF PromiseInv, Kept, OneLive, LiveKept
<1>7. LiveRecorded'
  BY <1>0, <1>1, <1>3 DEF PromiseInv, Kept, LiveRecorded, LiveKept
<1>8. \A s \in Reqs : HandlerKeeps(req[s])'
  <2> SUFFICES ASSUME NEW s \in Reqs PROVE HandlerKeeps(req[s])'
    OBVIOUS
  <2>1. HandlerKeeps(req[s]) /\ req'[s] = req[s]
    BY <1>0 DEF PromiseInv, Kept
  <2>2. \A n : Named(n)' = Named(n)
    BY <1>1, <1>3 DEF Named, Stored
  <2>3. /\ req[s].op = "start" => req[s].id \in Ids
        /\ rec[req[s].new] = NoRecord /\ req[s].new \in Ids => rec'[req[s].new] = NoRecord
    BY <1>1, <1>2 DEF PromiseInv, SoundInv, TypeInv, TypeOK, Shape, Request
  <2> QED
    BY <1>0, <1>3, <2>1, <2>2, <2>3 DEF HandlerKeeps
<1>9. \A n \in Pids : WaiterKeeps(n)'
  <2> SUFFICES ASSUME NEW n \in Pids PROVE WaiterKeeps(n)'
    OBVIOUS
  <2>1. CASE n = p
    BY <1>0, <2>1 DEF WaiterKeeps, NoWaiter
  <2>2. CASE n # p
    <3>1. waiter'[n] = waiter[n] /\ waiter'[p].step = "none"
      BY <1>0, <2>2 DEF NoWaiter
    <3>2. WaiterKeeps(n) /\ WaiterKeeps(p)
      BY DEF PromiseInv, Kept
    <3>3. waiter[n].step # "none" => waiter[n].key # i
      BY <1>0, <1>1, <2>2, <3>2 DEF WaiterKeeps
    <3>4. \A m \in Pids : m # p => waiter'[m] = waiter[m]
      BY <1>0
    <3> QED
      BY <1>1, <1>3, <3>1, <3>2, <3>3, <3>4 DEF WaiterKeeps, LiveKept
  <2> QED
    BY <2>1, <2>2
<1> QED
  BY <1>4, <1>5, <1>6, <1>7, <1>8, <1>9 DEF Kept

(* Every step keeps the invariant.                                         *)
LEMMA PromiseNext == PromiseInv /\ [Next]_vars => PromiseInv'
<1> SUFFICES ASSUME PromiseInv, [Next]_vars PROVE Kept'
  BY SoundNext DEF PromiseInv, Serial
<1>1. ASSUME NEW p \in Pids, ProcExit(p) PROVE Kept'
  <2>1. \A i \in Ids : LiveOf(i)' \subseteq LiveOf(i)
    BY <1>1 DEF ProcExit, LiveOf, Live, PromiseInv, SoundInv, TypeInv, TypeOK
  <2>2. rec' = rec /\ fresh' = fresh /\ req' = req /\ waiter' = waiter
    BY <1>1 DEF ProcExit
  <2> QED
    BY <2>1, <2>2 DEF PromiseInv, Kept, NamesApart, FreshFree, OneLive, LiveRecorded, Stored,
       HandlerKeeps, WaiterKeeps, Runs, Named
<1>2. CASE Crash
  <2>1. \A i \in Ids : LiveOf(i)' = {}
    BY <1>2 DEF Crash, LiveOf, Live
  <2>2. \A r \in Reqs : HandlerKeeps(req[r])'
    BY <1>2 DEF Crash, HandlerKeeps, Idle, Handling
  <2>3. \A p \in Pids : WaiterKeeps(p)'
    BY <1>2 DEF Crash, WaiterKeeps, NoWaiter
  <2>4. (NamesApart /\ FreshFree /\ OneLive /\ LiveRecorded)'
    BY <1>2, <2>1 DEF Crash, PromiseInv, Kept, NamesApart, FreshFree, OneLive, LiveRecorded,
       Stored
  <2> QED
    BY <2>2, <2>3, <2>4 DEF Kept
<1>3. CASE UNCHANGED vars
  BY <1>3 DEF vars, PromiseInv, Kept, NamesApart, FreshFree, OneLive, LiveRecorded, Stored,
     HandlerKeeps, WaiterKeeps, Runs, Named, LiveOf
<1> QED
  BY <1>1, <1>2, <1>3, KeptBegin, KeptStep, KeptWaiterQuiet, KeptWaiterSave
     DEF Next, WaiterStep

-----------------------------------------------------------------------------
(* A step that signals or reaps process p ends what its container runs, or *)
(* shows nothing.                                                          *)
LEMMA SignalShows ==
    ASSUME PromiseInv, NamesKept, NEW p,
           \A i \in Ids : LiveOf(i)' \subseteq LiveOf(i) /\ LiveOf(i) \subseteq LiveOf(i)' \cup {p}
    PROVE  [Promise!Next]_Promise!vars
<1>1. CASE LiveKept
  BY <1>1, Stutters
<1>2. CASE ~LiveKept
  <2>1. PICK i \in Ids : LiveOf(i)' # LiveOf(i)
    BY <1>2 DEF LiveKept
  <2>2. p \in LiveOf(i) /\ p \notin LiveOf(i)'
    BY <2>1
  <2>3. LiveOf(i)' = {}
    BY <2>2 DEF PromiseInv, Kept, OneLive
  <2>4. owner[p] = i
    BY <2>2 DEF LiveOf
  <2>5. \A j \in Ids : j # i => p \notin LiveOf(j)
    BY <2>4 DEF LiveOf
  <2>6. \A j \in Ids : j # i => LiveOf(j)' = LiveOf(j)
    BY <2>5
  <2> QED
    BY <2>3, <2>6, Exits
<1> QED
  BY <1>1, <1>2

(* A request that arrives shows by the signal it sends, if at all.         *)
LEMMA BeginShows ==
    ASSUME PromiseInv, NEW r \in Reqs, Begin(r)
    PROVE  [Promise!Next]_Promise!vars
<1>1. /\ TypeOK /\ rec' = rec /\ owner' = owner
      /\ \E p : proc' \in {proc, Killed(p), Suspended(p), Resumed(p)}
  BY DEF PromiseInv, SoundInv, TypeInv, Begin, CreateBegin, StartBegin, StopBegin,
         RestartBegin, KillBegin, RemoveBegin, RemoveForceBegin, PruneBegin, ListBegin,
         RenameBegin, PauseBegin, UnpauseBegin
<1>2. NamesKept
  BY <1>1 DEF NamesKept, NameOf
<1> QED
  BY <1>1, <1>2, SignalLive, SignalShows

(* A record and a name are told from the absence of a record.              *)
LEMMA NewIsRecord ==
    ASSUME NEW n \in Names
    PROVE  NewRecord(n) # NoRecord /\ NewRecord(n).name = n /\ n # NoRecord
<1>1. NewRecord(n) \in Record
  BY DEF NewRecord, Record, Status, NoPid
<1>2. NewRecord(n).name = n
  BY DEF NewRecord
<1> QED
  BY <1>1, <1>2, NoRecordAssumption

(* A container that is stored has a name.                                  *)
LEMMA NotNoRecord ==
    ASSUME TypeOK, NEW i \in Ids, rec[i] # NoRecord
    PROVE  rec[i].name # NoRecord
BY NoRecordAssumption DEF TypeOK, RecordOrNone, Record

(* Launching, deleting the record and saving the new one are the steps     *)
(* that show as a launch, a removal and a creation; no other one shows but *)
(* by what it signals or reaps.                                            *)
LEMMA StepShows ==
    ASSUME PromiseInv, NEW r \in Reqs, Step(r)
    PROVE  [Promise!Next]_Promise!vars
<1>0. TypeOK /\ HandlerKeeps(req[r]) /\ Shape(req[r]) /\ req[r] \in Request
  BY DEF PromiseInv, SoundInv, TypeInv, TypeOK, Kept
<1>1. CASE \/ PrepareRootfs(r) \/ WritePid(r) \/ StopExited(r) \/ StopTimeout(r)
           \/ Update(r) \/ UpdateMiss(r) \/ DeleteGet(r) \/ DeleteRefused(r) \/ DeleteDir(r)
           \/ CreateReplaces(r) \/ CreateConflict(r) \/ PruneNext(r) \/ ListNext(r)
           \/ EachDone(r)
  <2>1. /\ rec' = rec /\ owner' = owner
        /\ \E p : proc' \in {proc, Killed(p), Suspended(p), Resumed(p), Reaped(p)}
    BY <1>1 DEF PrepareRootfs, WritePid, StopExited, StopTimeout, Update, UpdateMiss,
       DeleteGet, DeleteRefused, DeleteDir, CreateReplaces, CreateConflict, PruneNext,
       ListNext, EachDone
  <2>2. NamesKept
    BY <2>1 DEF NamesKept, NameOf
  <2> QED
    BY <1>0, <2>1, <2>2, SignalLive, SignalShows
<1>2. CASE LaunchFails(r)
  <2>1. rec' = rec /\ owner' = owner /\ \A n \in Pids : proc'[n] \in Live <=> proc[n] \in Live
    BY <1>0, <1>2 DEF LaunchFails, TypeOK, Live, IsFirst, Unused
  <2> QED
    BY <2>1, Stutters DEF NamesKept, NameOf, LiveKept, LiveOf
<1>3. CASE Launch(r)
  <2>1. PICK i \in Ids, p \in Pids :
          /\ i = req[r].id /\ rec[i] # NoRecord /\ LiveOf(i) = {} /\ LiveOf(i)' = {p}
          /\ \A j \in Ids : j # i => LiveOf(j)' = LiveOf(j)
    BY <1>3, LaunchLive
  <2>2. NamesKept
    BY <1>3 DEF Launch, NamesKept, NameOf
  <2> QED
    BY <1>0, <2>1, <2>2, NotNoRecord, Launches
<1>4. CASE Save(r)
  BY <1>4, SaveKeepsNames, Stutters
<1>5. CASE DeleteRecord(r)
  <2>1. PICK i \in Ids : i = req[r].id /\ ~Runs(i) /\ rec' = [rec EXCEPT ![i] = NoRecord]
    BY <1>0, <1>5 DEF HandlerKeeps, DeleteRecord
  <2>2. rec'[i] = NoRecord /\ \A j \in Ids : j # i => rec'[j] = rec[j]
    BY <1>0, <2>1 DEF TypeOK
  <2>3. LiveKept
    BY <1>5 DEF DeleteRecord, LiveKept, LiveOf
  <2>4. LiveOf(i) = {}
    BY <1>0, <1>5, <2>1, NothingLive DEF DeleteRecord, Shape
  <2>5. \A j \in Ids : j # i => NameOf(j)' = NameOf(j)
    BY <2>2 DEF NameOf
  <2>6. CASE rec[i] = NoRecord
    BY <2>2, <2>3, <2>6, Stutters DEF NamesKept, NameOf
  <2>7. CASE rec[i] # NoRecord
    BY <1>0, <2>2, <2>3, <2>4, <2>5, <2>7, NotNoRecord, Removes
  <2> QED
    BY <2>6, <2>7
<1>6. CASE CreateSave(r)
  <2>1. PICK i \in Ids, n \in Names :
          rec[i] = NoRecord /\ Named(n) = {} /\ rec' = [rec EXCEPT ![i] = NewRecord(n)]
    BY <1>6, CreateIsNew
  <2>2. LiveKept
    BY <1>6 DEF CreateSave, LiveKept, LiveOf
  <2>3. rec'[i] = NewRecord(n) /\ \A j \in Ids : j # i => rec'[j] = rec[j]
    BY <1>0, <2>1 DEF TypeOK
  <2>4. NewRecord(n) # NoRecord /\ NewRecord(n).name = n /\ n # NoRecord
    BY NewIsRecord
  <2>5. \A j \in Ids : NameOf(j) # n
    BY <2>1, <2>4 DEF NameOf, Named, Stored
  <2>6. NameOf(i)' = n /\ \A j \in Ids : j # i => NameOf(j)' = NameOf(j)
    BY <2>3, <2>4 DEF NameOf
  <2> QED
    BY <2>1, <2>2, <2>5, <2>6, Creates
<1> QED
  BY <1>1, <1>2, <1>3, <1>4, <1>5, <1>6 DEF Step

(* Every step is one of Containers, or changes neither names nor what      *)
(* lives.                                                                  *)
LEMMA NextShows == PromiseInv /\ [Next]_vars => [Promise!Next]_Promise!vars
<1> SUFFICES ASSUME PromiseInv, [Next]_vars PROVE [Promise!Next]_Promise!vars
  OBVIOUS
<1>0. TypeOK
  BY DEF PromiseInv, SoundInv, TypeInv
<1>1. ASSUME NEW p \in Pids, ProcExit(p) PROVE [Promise!Next]_Promise!vars
  <2>1. \A i \in Ids : LiveOf(i)' \subseteq LiveOf(i) /\ LiveOf(i) \subseteq LiveOf(i)' \cup {p}
    BY <1>0, <1>1 DEF ProcExit, LiveOf, Live, TypeOK
  <2>2. NamesKept
    BY <1>1 DEF ProcExit, NamesKept, NameOf
  <2> QED
    BY <2>1, <2>2, SignalShows
<1>2. ASSUME NEW p \in Pids, WaiterStep(p) PROVE [Promise!Next]_Promise!vars
  <2>1. CASE WaiterSave(p)
    BY <2>1, WaiterSaves, Stutters
  <2>2. CASE WaiterReap(p) \/ WaiterGet(p) \/ WaiterMiss(p)
    <3>1. rec' = rec /\ owner' = owner /\ proc' \in {proc, Reaped(p)}
      BY <2>2 DEF WaiterReap, WaiterGet, WaiterMiss
    <3>2. NamesKept
      BY <3>1 DEF NamesKept, NameOf
    <3> QED
      BY <1>0, <3>1, <3>2, SignalLive, SignalShows
  <2> QED
    BY <1>2, <2>1, <2>2 DEF WaiterStep
<1>3. CASE Crash
  <2>1. NamesKept /\ \A i \in Ids : LiveOf(i)' = {}
    BY <1>3 DEF Crash, NamesKept, NameOf, LiveOf, Live
  <2> QED
    BY <2>1, Crashes
<1>4. CASE UNCHANGED vars
  BY <1>4, Stutters DEF vars, NamesKept, NameOf, LiveKept, LiveOf
<1> QED
  BY <1>1, <1>2, <1>3, <1>4, BeginShows, StepShows DEF Next

(* And the initial states are those of Containers.                         *)
LEMMA InitShows == Init => Promise!Init
<1> SUFFICES ASSUME Init PROVE Promise!Init
  OBVIOUS
<1>1. PICK names \in [Existing -> Names] :
        /\ Injective(names)
        /\ rec = [i \in Ids |-> IF i \in Existing THEN NewRecord(names[i]) ELSE NoRecord]
  BY DEF Init
<1>2. \A i \in Ids : NameOf(i) = IF i \in Existing THEN names[i] ELSE NoRecord
  BY <1>1, NewIsRecord DEF NameOf
<1>3. [i \in Ids |-> NameOf(i)] \in [Ids -> Names \cup {NoRecord}]
  BY <1>1, <1>2
<1>4. \A i, j \in Ids : NameOf(i) = NameOf(j) => i = j \/ NameOf(i) = NoRecord
  BY <1>1, <1>2 DEF Injective
<1>5. \A i \in Ids : LiveOf(i) = {}
  BY DEF Init, LiveOf, Live
<1> QED
  BY <1>3, <1>4, <1>5 DEF Promise!Init, NameOf

(* Requests that come one at a time, none of them a stop, a restart, a     *)
(* listing or a rename, implement the abstract specification: containers   *)
(* keep names of their own, each runs one process at a time, and only one  *)
(* that runs nothing disappears, whatever the processes, the goroutines    *)
(* behind the starts and crashes of the server do between their steps.     *)
THEOREM PromiseKept ==
    ASSUME Serial
    PROVE  Spec => KeepsPromise
<1>1. Init => PromiseInv
  BY SoundInit, KeptInit DEF PromiseInv
<1>2. Spec => []PromiseInv
  BY <1>1, PromiseNext, PTL DEF Spec
<1> QED
  BY <1>2, InitShows, NextShows, PTL DEF Spec, KeepsPromise, Promise!Spec
=============================================================================
