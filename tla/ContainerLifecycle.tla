------------------------- MODULE ContainerLifecycle -------------------------
(***************************************************************************)
(* The life of containers under the API server (`cryruss serve`).  Every   *)
(* HTTP request runs in a goroutine of its own and works on records that   *)
(* are files: the store's lock covers one file operation at a time, so a   *)
(* handler's Get, Save and Delete interleave with those of every other     *)
(* handler, with the goroutine each start leaves behind to wait for its    *)
(* process, with the processes themselves and with a crash of the server.  *)
(*                                                                         *)
(* One step of the model is the code between two file operations or two    *)
(* waits.  A Get that scans the store for a name is one step.  A request   *)
(* that is answered without changing anything (404, 304, 409) is no step.  *)
(* Process ids are not reused.                                             *)
(***************************************************************************)
EXTENDS ContainerRecord

CONSTANTS
    Ids,        \* container ids, ordered as os.ReadDir lists them
    Existing,   \* containers created, and never started, in an earlier session
    Reqs,       \* handler goroutines that may be active at the same time
    Menus,      \* what clients ask for, one of these sets of choices per behaviour
    NoRecord    \* the content of a record file that does not exist

AllOps == {"create", "start", "stop", "restart", "kill", "remove",
           "remove_force", "prune", "list", "rename", "pause", "unpause"}

ASSUME IdsAssumption == Ids \subseteq Nat \ {0} /\ Existing \subseteq Ids
ASSUME NamesAssumption == Names \cap Ids = {} /\ 0 \notin Names
ASSUME NoRecordAssumption == NoRecord \notin Record \cup Names

VARIABLES
    rec,        \* the record files: Ids -> Record, or NoRecord
    fresh,      \* ids that NewID has not generated yet
    dir,        \* each container's directory: none, empty or full rootfs
    pidfile,    \* the pid file inside that directory
    proc,       \* the state of each supervisor process
    owner,      \* the container whose start returned that process
    req,        \* the handler goroutines
    waiter,     \* the goroutine that waits for each process
    crashes,    \* crashes of the server so far
    menu        \* the choices of this behaviour

vars == <<rec, fresh, dir, pidfile, proc, owner, req, waiter, crashes, menu>>

NoId == 0
RecordOrNone == Record \cup {NoRecord}
Refs == Ids \cup Names          \* what a path parameter may hold
Nothing == [i \in Ids |-> NoRecord]

(* Operations, the path parameters that are kept, the processes that can   *)
(* be launched, and a bound on the crashes of the server.                  *)
Menu ==
    [ops : SUBSET AllOps, refs : SUBSET (Refs \cup {NoId}), pids : SUBSET Pids, crashes : Nat]
ASSUME MenusAssumption == Menus \subseteq Menu

ProcState == {"none", "alive", "suspended", "zombie", "reaped"}
Live == {"alive", "suspended"}

(* A handler goroutine.  ref is its path parameter, id the container it is *)
(* working on, copy the record it has read and will write, pid the process *)
(* its Stop signalled, made the process its Start launched, new the id its *)
(* Create generated, todo what is left of the listing it loops over.       *)
Steps == {"Idle", "PrepareRootfs", "Launch", "WritePid", "StopWait",
          "Update", "Save", "Each", "DeleteGet", "DeleteDir",
          "DeleteRecord", "CreateSave"}
Request ==
    [op   : AllOps \cup {"none"}, step : Steps,
     ref  : Refs \cup {NoId},     id   : Ids \cup {NoId},
     copy : RecordOrNone,         pid  : Pids \cup {NoPid},
     made : Pids \cup {NoPid},    new  : Ids \cup {NoId},
     todo : [Ids -> RecordOrNone]]

Handling(op, step, ref, i, c, p) ==
    [op |-> op, step |-> step, ref |-> ref, id |-> i, copy |-> c, pid |-> p,
     made |-> NoPid, new |-> NoId, todo |-> Nothing]
Idle == Handling("none", "Idle", NoId, NoId, NoRecord, NoPid)

(* The goroutine behind a start or a restart; key is what it passes to     *)
(* UpdateState: the container's id for a start, the path parameter of the  *)
(* request for a restart.                                                  *)
Waiter ==
    [step : {"none", "Wait", "Get", "Save"}, after : {"none", "start", "restart"},
     key : Refs \cup {NoId}, id : Ids \cup {NoId}, copy : RecordOrNone]
NoWaiter ==
    [step |-> "none", after |-> "none", key |-> NoId, id |-> NoId, copy |-> NoRecord]

-----------------------------------------------------------------------------
(* The store and the manager's lookups.                                    *)

Stored == {i \in Ids : rec[i] # NoRecord}
IsFirst(i, S) == i \in S /\ \A j \in S : i <= j
Named(n) == {i \in Stored : rec[i].name = n}

\* Manager.Get: an id wins over a name, and of several containers with the
\* same name the first in the listing wins.  Empty when there is none.
Get(x) == {i \in Stored : IF x \in Stored THEN i = x ELSE IsFirst(i, Named(x))}

\* What a handler's listing holds of the containers in S.
Snapshot(S) == [i \in Ids |-> IF i \in S THEN rec[i] ELSE NoRecord]
Left(q) == {i \in Ids : q.todo[i] # NoRecord}

-----------------------------------------------------------------------------
(* Signals.                                                                *)

\* SIGKILL cannot be refused: the process runs no more.
Killed(p) == [proc EXCEPT ![p] = IF @ \in Live THEN "zombie" ELSE @]
Suspended(p) == [proc EXCEPT ![p] = IF @ = "alive" THEN "suspended" ELSE @]
Resumed(p) == [proc EXCEPT ![p] = IF @ = "suspended" THEN "alive" ELSE @]

-----------------------------------------------------------------------------
(* A request arrives: the handler up to its first write or wait.           *)

Accept(r, op, q) ==
    /\ op \in menu.ops /\ q.ref \in menu.refs
    /\ req[r] = Idle
    /\ req' = [req EXCEPT ![r] = q]
Goto(r, s) == req' = [req EXCEPT ![r].step = s]
Answer(r) == req' = [req EXCEPT ![r] = Idle]

\* NewID, then the listing Create looks for its name in.
CreateBegin(r) ==
    \E i \in fresh, n \in Names :
        /\ Accept(r, "create",
                  [Handling("create", "Each", n, NoId, NoRecord, NoPid)
                      EXCEPT !.new = i, !.todo = Snapshot(Named(n))])
        /\ fresh' = fresh \ {i}
        /\ UNCHANGED <<rec, dir, pidfile, proc, owner, waiter, crashes, menu>>

\* (mutant of StartBegin: State.Running is not looked at)
StartBeginUnchecked(r) ==
    \E i \in Stored :
        /\ Accept(r, "start", Handling("start", "PrepareRootfs", NoId, i, NoRecord, NoPid))
        /\ UNCHANGED <<rec, fresh, dir, pidfile, proc, owner, waiter, crashes, menu>>

StartBegin(r) ==
    \E i \in Stored :
        /\ ~rec[i].running
        /\ Accept(r, "start", Handling("start", "PrepareRootfs", NoId, i, NoRecord, NoPid))
        /\ UNCHANGED <<rec, fresh, dir, pidfile, proc, owner, waiter, crashes, menu>>

\* SIGTERM by itself decides nothing: a process may exit at any time anyway.
StopBegin(r) ==
    \E i \in Stored :
        /\ rec[i].running
        /\ Accept(r, "stop", Handling("stop", "StopWait", NoId, i, NoRecord, rec[i].pid))
        /\ UNCHANGED <<rec, fresh, dir, pidfile, proc, owner, waiter, crashes, menu>>

\* (mutant of RestartBegin: the restart does not wait for Stop)
RestartBeginAtOnce(r) ==
    \E x \in Refs : \E i \in Get(x) :
        /\ Accept(r, "restart", Handling("restart", "Update", x, i, NoRecord, rec[i].pid))
        /\ UNCHANGED <<rec, fresh, dir, pidfile, proc, owner, waiter, crashes, menu>>

RestartBegin(r) ==
    \E x \in Refs : \E i \in Get(x) :
        /\ Accept(r, "restart",
                  IF rec[i].running
                  THEN Handling("restart", "StopWait", x, i, NoRecord, rec[i].pid)
                  ELSE Handling("restart", "Update", x, i, NoRecord, NoPid))
        /\ UNCHANGED <<rec, fresh, dir, pidfile, proc, owner, waiter, crashes, menu>>

\* State.Running is not looked at.  The signal is SIGKILL or a softer one.
KillBegin(r) ==
    \E i \in Stored :
        /\ rec[i].pid # NoPid
        /\ Accept(r, "kill", Handling("kill", "StopWait", NoId, i, NoRecord, rec[i].pid))
        /\ proc' \in {proc, Killed(rec[i].pid)}
        /\ UNCHANGED <<rec, fresh, dir, pidfile, owner, waiter, crashes, menu>>

\* Forced or not, the removal of a container that is not running.
RemoveBegin(r) ==
    \E x \in Refs : \E i \in Get(x) :
        /\ ~rec[i].running
        /\ Accept(r, "remove", Handling("remove", "DeleteGet", x, i, NoRecord, NoPid))
        /\ UNCHANGED <<rec, fresh, dir, pidfile, proc, owner, waiter, crashes, menu>>

RemoveForceBegin(r) ==
    \E x \in Refs : \E i \in Get(x) :
        /\ rec[i].running
        /\ Accept(r, "remove_force",
                  Handling("remove_force", "StopWait", x, i, NoRecord, rec[i].pid))
        /\ proc' = Killed(rec[i].pid)
        /\ UNCHANGED <<rec, fresh, dir, pidfile, owner, waiter, crashes, menu>>

PruneBegin(r) ==
    LET down == {i \in Stored : ~rec[i].running} IN
    /\ down # {}
    /\ Accept(r, "prune", [Handling("prune", "Each", NoId, NoId, NoRecord, NoPid)
                              EXCEPT !.todo = Snapshot(down)])
    /\ UNCHANGED <<rec, fresh, dir, pidfile, proc, owner, waiter, crashes, menu>>

ListBegin(r) ==
    LET up == {i \in Stored : rec[i].running} IN
    /\ up # {}
    /\ Accept(r, "list", [Handling("list", "Each", NoId, NoId, NoRecord, NoPid)
                             EXCEPT !.todo = Snapshot(up)])
    /\ UNCHANGED <<rec, fresh, dir, pidfile, proc, owner, waiter, crashes, menu>>

\* Nothing asks whether the new name is taken.
RenameBegin(r) ==
    \E i \in Stored, n \in Names :
        /\ Accept(r, "rename", Handling("rename", "Save", NoId, i, Renamed(rec[i], n), NoPid))
        /\ UNCHANGED <<rec, fresh, dir, pidfile, proc, owner, waiter, crashes, menu>>

PauseBegin(r) ==
    \E x \in Refs : \E i \in Get(x) :
        /\ Accept(r, "pause", Handling("pause", "Update", x, i, NoRecord, NoPid))
        /\ proc' = IF rec[i].pid = NoPid THEN proc ELSE Suspended(rec[i].pid)
        /\ UNCHANGED <<rec, fresh, dir, pidfile, owner, waiter, crashes, menu>>

UnpauseBegin(r) ==
    \E x \in Refs : \E i \in Get(x) :
        /\ Accept(r, "unpause", Handling("unpause", "Update", x, i, NoRecord, NoPid))
        /\ proc' = IF rec[i].pid = NoPid THEN proc ELSE Resumed(rec[i].pid)
        /\ UNCHANGED <<rec, fresh, dir, pidfile, owner, waiter, crashes, menu>>

-----------------------------------------------------------------------------
(* Starting a process.                                                     *)

\* hasRootfs, or else Images.Get and PrepareRootfs, which may fail.
PrepareRootfs(r) ==
    /\ req[r].step = "PrepareRootfs"
    /\ \/ /\ dir' = [dir EXCEPT ![req[r].id] = "full"]
          /\ Goto(r, "Launch")
       \/ /\ dir[req[r].id] # "full"
          /\ dir' = dir
          /\ Answer(r)
    /\ UNCHANGED <<rec, fresh, pidfile, proc, owner, waiter, crashes, menu>>

Unused == {p \in menu.pids : proc[p] = "none"}

Launch(r) ==
    /\ req[r].step = "Launch"
    /\ \E p \in Pids :
        /\ IsFirst(p, Unused)
        /\ proc' = [proc EXCEPT ![p] = "alive"]
        /\ owner' = [owner EXCEPT ![p] = req[r].id]
        /\ req' = [req EXCEPT ![r].step = "WritePid", ![r].made = p]
    /\ UNCHANGED <<rec, fresh, dir, pidfile, waiter, crashes, menu>>

\* No pipe or no process; or a child that broke off the handshake and was
\* killed: nobody waits for that one.
LaunchFails(r) ==
    /\ req[r].step = "Launch"
    /\ Answer(r)
    /\ \/ proc' = proc
       \/ \E p \in Pids :
            IsFirst(p, Unused) /\ proc' = [proc EXCEPT ![p] = "zombie"]
    /\ UNCHANGED <<rec, fresh, dir, pidfile, owner, waiter, crashes, menu>>

\* The write fails unnoticed when the directory is gone.
WritePid(r) ==
    /\ req[r].step = "WritePid"
    /\ pidfile' = IF dir[req[r].id] = "none" THEN pidfile
                  ELSE [pidfile EXCEPT ![req[r].id] = req[r].made]
    /\ Goto(r, "Update")
    /\ UNCHANGED <<rec, fresh, dir, proc, owner, waiter, crashes, menu>>

-----------------------------------------------------------------------------
(* Stop: the answer of the process or the timeout, whichever comes first.  *)

AfterStop(r) ==
    CASE req[r].op \in {"stop", "restart"} -> Goto(r, "Update")
      [] req[r].op = "remove_force" -> Goto(r, "DeleteGet")
      [] req[r].op = "kill" -> Answer(r)

Exited(p) == p # NoPid => proc[p] \in {"zombie", "reaped"}
Reaped(p) == [q \in Pids |-> IF q = p THEN "reaped" ELSE proc[q]]

StopExited(r) ==
    /\ req[r].step = "StopWait"
    /\ Exited(req[r].pid)
    /\ proc' = Reaped(req[r].pid)
    /\ AfterStop(r)
    /\ UNCHANGED <<rec, fresh, dir, pidfile, owner, waiter, crashes, menu>>

\* (mutants of StopTimeout: no kill; no timeout)
StopTimeoutNoKill(r) ==
    /\ req[r].step = "StopWait"
    /\ req[r].pid # NoPid
    /\ AfterStop(r)
    /\ UNCHANGED <<rec, fresh, dir, pidfile, proc, owner, waiter, crashes, menu>>
StopTimeoutNever(r) == req[r].step = "Idle" /\ StopTimeoutNoKill(r)

StopTimeout(r) ==
    /\ req[r].step = "StopWait"
    /\ req[r].pid # NoPid
    /\ proc' = Killed(req[r].pid)
    /\ AfterStop(r)
    /\ UNCHANGED <<rec, fresh, dir, pidfile, owner, waiter, crashes, menu>>

-----------------------------------------------------------------------------
(* Manager.UpdateState: a Get, the handler's change and a Save, with no    *)
(* lock around them.  Its error is ignored everywhere.                     *)

UpdateKey(q) == IF q.op \in {"pause", "unpause"} THEN q.ref ELSE q.id

Change(q, c) ==
    CASE q.op = "start" -> MarkRunning(c, q.made)
      [] q.op = "stop" -> MarkStopped(c)
      [] q.op = "restart" -> IF q.made = NoPid THEN MarkHalted(c)
                                               ELSE MarkRunning(c, q.made)
      [] q.op = "pause" -> MarkPaused(c)
      [] q.op = "unpause" -> MarkUnpaused(c)

Update(r) ==
    /\ req[r].step = "Update"
    /\ \E i \in Get(UpdateKey(req[r])) :
          req' = [req EXCEPT ![r].step = "Save", ![r].id = i,
                             ![r].copy = Change(req[r], rec[i])]
    /\ UNCHANGED <<rec, fresh, dir, pidfile, proc, owner, waiter, crashes, menu>>

\* (mutant of AfterSave: only a start leaves a goroutine behind)
AfterSaveStartOnly(r) ==
    LET q == req[r] IN
    /\ req' = [req EXCEPT ![r] = IF q.op = "restart" /\ q.made = NoPid
                                 THEN [q EXCEPT !.step = "Launch"] ELSE Idle]
    /\ waiter' = IF q.op # "start" THEN waiter
                 ELSE [waiter EXCEPT ![q.made] =
                         [NoWaiter EXCEPT !.step = "Wait", !.after = "start", !.key = q.id]]

\* What follows a Save, or an update that found nothing to update: the
\* handler that launched a process leaves a goroutine behind to wait for it.
AfterSave(r) ==
    LET q == req[r] IN
    /\ req' = [req EXCEPT ![r] =
                  CASE q.op = "list" -> [q EXCEPT !.step = "Each", !.copy = NoRecord]
                    [] q.op = "restart" /\ q.made = NoPid ->
                          [q EXCEPT !.step = "Launch", !.copy = NoRecord]
                    [] OTHER -> Idle]
    /\ waiter' = IF q.made = NoPid THEN waiter
                 ELSE [waiter EXCEPT ![q.made] =
                         [NoWaiter EXCEPT !.step = "Wait", !.after = q.op,
                             !.key = IF q.op = "restart" THEN q.ref ELSE q.id]]

\* (mutant of UpdateMiss: the handler returns the update's error)
UpdateMissReturns(r) ==
    /\ req[r].step = "Update"
    /\ Get(UpdateKey(req[r])) = {}
    /\ Answer(r)
    /\ UNCHANGED <<rec, fresh, dir, pidfile, proc, owner, waiter, crashes, menu>>

UpdateMiss(r) ==
    /\ req[r].step = "Update"
    /\ Get(UpdateKey(req[r])) = {}
    /\ AfterSave(r)
    /\ UNCHANGED <<rec, fresh, dir, pidfile, proc, owner, crashes, menu>>

Save(r) ==
    /\ req[r].step = "Save"
    /\ rec' = [rec EXCEPT ![req[r].id] = req[r].copy]
    /\ AfterSave(r)
    /\ UNCHANGED <<fresh, dir, pidfile, proc, owner, crashes, menu>>

-----------------------------------------------------------------------------
(* Manager.Delete: a Get, the check, then the directory and the record.    *)

DeleteGet(r) ==
    /\ req[r].step = "DeleteGet"
    /\ \E i \in Get(req[r].ref) :
          /\ ~rec[i].running
          /\ req' = [req EXCEPT ![r].step = "DeleteDir", ![r].id = i]
    /\ UNCHANGED <<rec, fresh, dir, pidfile, proc, owner, waiter, crashes, menu>>

\* "no such container", or "cannot remove running container".
DeleteRefused(r) ==
    /\ req[r].step = "DeleteGet"
    /\ \A i \in Get(req[r].ref) : rec[i].running
    /\ IF req[r].op = "prune" THEN Goto(r, "Each") ELSE Answer(r)
    /\ UNCHANGED <<rec, fresh, dir, pidfile, proc, owner, waiter, crashes, menu>>

DeleteDir(r) ==
    /\ req[r].step = "DeleteDir"
    /\ dir' = [dir EXCEPT ![req[r].id] = "none"]
    /\ pidfile' = [pidfile EXCEPT ![req[r].id] = NoPid]
    /\ Goto(r, "DeleteRecord")
    /\ UNCHANGED <<rec, fresh, proc, owner, waiter, crashes, menu>>

DeleteRecord(r) ==
    /\ req[r].step = "DeleteRecord"
    /\ rec' = [rec EXCEPT ![req[r].id] = NoRecord]
    /\ IF req[r].op \in {"create", "prune"} THEN Goto(r, "Each") ELSE Answer(r)
    /\ UNCHANGED <<fresh, dir, pidfile, proc, owner, waiter, crashes, menu>>

-----------------------------------------------------------------------------
(* The loops over a listing.  What they decide on is the listing, which    *)
(* other handlers may meanwhile have made stale.                           *)

\* Turn to container i: its entry leaves the list of what is left to do.
Take(r, s, i, x, c) ==
    req' = [req EXCEPT ![r] = [req[r] EXCEPT !.step = s, !.id = i, !.ref = x,
                                             !.copy = c, !.todo[i] = NoRecord]]

\* Create deletes a stopped container of the same name, unchecked ...
CreateReplaces(r) ==
    /\ req[r].step = "Each" /\ req[r].op = "create"
    /\ \E i \in Ids :
          /\ IsFirst(i, Left(req[r]))
          /\ ~req[r].todo[i].running
          /\ Take(r, "DeleteDir", i, req[r].ref, NoRecord)
    /\ UNCHANGED <<rec, fresh, dir, pidfile, proc, owner, waiter, crashes, menu>>

\* ... and gives up on a running one.
CreateConflict(r) ==
    /\ req[r].step = "Each" /\ req[r].op = "create"
    /\ \E i \in Ids : IsFirst(i, Left(req[r])) /\ req[r].todo[i].running
    /\ Answer(r)
    /\ UNCHANGED <<rec, fresh, dir, pidfile, proc, owner, waiter, crashes, menu>>

PruneNext(r) ==
    /\ req[r].step = "Each" /\ req[r].op = "prune"
    /\ \E i \in Ids :
          IsFirst(i, Left(req[r])) /\ Take(r, "DeleteGet", i, i, NoRecord)
    /\ UNCHANGED <<rec, fresh, dir, pidfile, proc, owner, waiter, crashes, menu>>

\* ContainerList asks the kernel about the pid in the pid file, and writes
\* the record as it was listed.  A zombie still counts as running.
ListNext(r) ==
    /\ req[r].step = "Each" /\ req[r].op = "list"
    /\ \E i \in Ids :
          /\ IsFirst(i, Left(req[r]))
          /\ IF pidfile[i] # NoPid /\ proc[pidfile[i]] = "reaped"
             THEN Take(r, "Save", i, NoId, MarkGone(req[r].todo[i]))
             ELSE Take(r, "Each", i, NoId, NoRecord)
    /\ UNCHANGED <<rec, fresh, dir, pidfile, proc, owner, waiter, crashes, menu>>

EachDone(r) ==
    /\ req[r].step = "Each"
    /\ Left(req[r]) = {}
    /\ IF req[r].op = "create" THEN Goto(r, "CreateSave") ELSE Answer(r)
    /\ UNCHANGED <<rec, fresh, dir, pidfile, proc, owner, waiter, crashes, menu>>

CreateSave(r) ==
    /\ req[r].step = "CreateSave"
    /\ rec' = [rec EXCEPT ![req[r].new] = NewRecord(req[r].ref)]
    /\ dir' = [dir EXCEPT ![req[r].new] = "empty"]
    /\ Answer(r)
    /\ UNCHANGED <<fresh, pidfile, proc, owner, waiter, crashes, menu>>

-----------------------------------------------------------------------------
(* The processes, the goroutines that wait for them, and the server.       *)

ProcExit(p) ==
    /\ proc[p] = "alive"
    /\ proc' = [proc EXCEPT ![p] = "zombie"]
    /\ UNCHANGED <<rec, fresh, dir, pidfile, owner, req, waiter, crashes, menu>>

\* proc.Wait() returns, even when a Stop has reaped the process first.
WaiterReap(p) ==
    /\ waiter[p].step = "Wait"
    /\ Exited(p)
    /\ proc' = Reaped(p)
    /\ waiter' = [waiter EXCEPT ![p].step = "Get"]
    /\ UNCHANGED <<rec, fresh, dir, pidfile, owner, req, crashes, menu>>

WaiterGet(p) ==
    /\ waiter[p].step = "Get"
    /\ \E i \in Get(waiter[p].key) :
          waiter' = [waiter EXCEPT ![p].step = "Save", ![p].id = i,
                       ![p].copy = IF waiter[p].after = "restart"
                                   THEN MarkGone(rec[i]) ELSE MarkExited(rec[i])]
    /\ UNCHANGED <<rec, fresh, dir, pidfile, proc, owner, req, crashes, menu>>

WaiterMiss(p) ==
    /\ waiter[p].step = "Get"
    /\ Get(waiter[p].key) = {}
    /\ waiter' = [waiter EXCEPT ![p] = NoWaiter]
    /\ UNCHANGED <<rec, fresh, dir, pidfile, proc, owner, req, crashes, menu>>

WaiterSave(p) ==
    /\ waiter[p].step = "Save"
    /\ rec' = [rec EXCEPT ![waiter[p].id] = waiter[p].copy]
    /\ waiter' = [waiter EXCEPT ![p] = NoWaiter]
    /\ UNCHANGED <<fresh, dir, pidfile, proc, owner, req, crashes, menu>>

\* The goroutines are gone with the server, the processes die of Pdeathsig,
\* and nothing repairs the records when the server is started again.
Crash ==
    /\ crashes < menu.crashes
    /\ crashes' = crashes + 1
    /\ req' = [r \in Reqs |-> Idle]
    /\ waiter' = [p \in Pids |-> NoWaiter]
    /\ proc' = [p \in Pids |-> IF proc[p] = "none" THEN "none" ELSE "reaped"]
    /\ UNCHANGED <<rec, fresh, dir, pidfile, owner, menu>>

-----------------------------------------------------------------------------

Injective(f) == \A i, j \in DOMAIN f : f[i] = f[j] => i = j

Init ==
    /\ \E names \in [Existing -> Names] :
          /\ Injective(names)
          /\ rec = [i \in Ids |-> IF i \in Existing THEN NewRecord(names[i])
                                                    ELSE NoRecord]
    /\ fresh = Ids \ Existing
    /\ dir = [i \in Ids |-> IF i \in Existing THEN "empty" ELSE "none"]
    /\ pidfile = [i \in Ids |-> NoPid]
    /\ proc = [p \in Pids |-> "none"]
    /\ owner = [p \in Pids |-> NoId]
    /\ req = [r \in Reqs |-> Idle]
    /\ waiter = [p \in Pids |-> NoWaiter]
    /\ crashes = 0
    /\ menu \in Menus

Begin(r) ==
    \/ CreateBegin(r) \/ StartBegin(r) \/ StopBegin(r) \/ RestartBegin(r)
    \/ KillBegin(r) \/ RemoveBegin(r) \/ RemoveForceBegin(r) \/ PruneBegin(r)
    \/ ListBegin(r) \/ RenameBegin(r) \/ PauseBegin(r) \/ UnpauseBegin(r)

Step(r) ==
    \/ PrepareRootfs(r) \/ Launch(r) \/ LaunchFails(r) \/ WritePid(r)
    \/ StopExited(r) \/ StopTimeout(r)
    \/ Update(r) \/ UpdateMiss(r) \/ Save(r)
    \/ DeleteGet(r) \/ DeleteRefused(r) \/ DeleteDir(r) \/ DeleteRecord(r)
    \/ CreateReplaces(r) \/ CreateConflict(r) \/ PruneNext(r) \/ ListNext(r)
    \/ EachDone(r) \/ CreateSave(r)

WaiterStep(p) == WaiterReap(p) \/ WaiterGet(p) \/ WaiterMiss(p) \/ WaiterSave(p)

Next ==
    \/ \E r \in Reqs : Begin(r) \/ Step(r)
    \/ \E p \in Pids : ProcExit(p) \/ WaiterStep(p)
    \/ Crash

Spec == Init /\ [][Next]_vars

(* Goroutines are scheduled; clients, processes and crashes owe nothing.   *)
Fairness ==
    /\ \A r \in Reqs : WF_vars(Step(r))
    /\ \A p \in Pids : WF_vars(WaiterStep(p))
FairSpec == Spec /\ Fairness

-----------------------------------------------------------------------------
(* Safety, whatever the requests do to each other.                         *)

(* Every variable keeps its type: a handler, a goroutine and a record file *)
(* hold what manager.go and handler.go put in them, and nothing else.      *)
TypeOK ==
    /\ rec \in [Ids -> RecordOrNone]
    /\ fresh \in SUBSET Ids
    /\ dir \in [Ids -> {"none", "empty", "full"}]
    /\ pidfile \in [Ids -> Pids \cup {NoPid}]
    /\ proc \in [Pids -> ProcState]
    /\ owner \in [Pids -> Ids \cup {NoId}]
    /\ req \in [Reqs -> Request]
    /\ waiter \in [Pids -> Waiter]
    /\ crashes \in Nat
    /\ menu \in Menus

Sound(c, i) ==
    c # NoRecord =>
        /\ c.running => c.pid # NoPid /\ c.status \in {"running", "paused"}
        /\ c.pid # NoPid => i # NoId /\ owner[c.pid] = i

HandlerSound(q) ==
    /\ q.step = "Save" => Sound(q.copy, q.id)
    /\ \A i \in Ids : Sound(q.todo[i], i)
    /\ q.step = "StopWait" /\ q.pid # NoPid => owner[q.pid] = q.id
    /\ q.made # NoPid => owner[q.made] = q.id

WaiterSound(w) == w.step = "Save" => Sound(w.copy, w.id)

(* No interleaving of read-modify-write updates mixes two containers or    *)
(* two states up: a record that says Running has a pid and a status that   *)
(* agrees, and the pid in a record, in a listing, or in a copy a handler   *)
(* is about to write back, is that of a process launched for that very     *)
(* container.  Pausing, killing and stopping signal that pid unchecked.    *)
RecordSound ==
    /\ \A i \in Ids : Sound(rec[i], i)
    /\ \A r \in Reqs : HandlerSound(req[r])
    /\ \A p \in Pids : WaiterSound(waiter[p])

(* Every process a start has launched and nobody has reaped is watched: by *)
(* the goroutine left behind for it, or by the handler that is about to    *)
(* leave one, even when its container has been removed under it.           *)
ChildrenWatched ==
    \A p \in Pids :
        owner[p] # NoId /\ proc[p] # "reaped" =>
            waiter[p].step = "Wait" \/ \E r \in Reqs : req[r].made = p

(* When a stop, a restart or a forced removal goes on after the runtime's  *)
(* Stop, the process it signalled runs no more, suspended or not, however  *)
(* the answer of the process and the timeout raced.                        *)
StopTakesEffect ==
    \A r \in Reqs :
        req[r].step # "StopWait" /\ req[r].pid # NoPid => proc[req[r].pid] \notin Live

-----------------------------------------------------------------------------
(* What the API promises, as the abstract specification says it.  Requests *)
(* that come one at a time keep the promise, whatever the processes, their *)
(* goroutines and crashes do meanwhile, as long as nobody stops, restarts, *)
(* lists or renames (see the README for what these four break).            *)

LiveOf(i) == {p \in Pids : owner[p] = i /\ proc[p] \in Live}

Promise ==
    INSTANCE Containers WITH
        NoName <- NoRecord,
        name <- [i \in Ids |-> IF rec[i] = NoRecord THEN NoRecord ELSE rec[i].name],
        live <- [i \in Ids |-> LiveOf(i)]

(* ContainerCreate, ContainerStart and ContainerRemove with the goroutines *)
(* of handler.go implement create, launch and remove as single steps.      *)
KeepsPromise == Promise!Spec

(* manager.go refuses to remove a running container ("stop it first"): no  *)
(* record disappears while a process of its container is running.          *)
RunningNotRemoved ==
    [][\A i \in Ids :
          rec[i] # NoRecord /\ rec'[i] = NoRecord => LiveOf(i) = {}]_vars

(* The handler of a removal says to use force for a running container: a   *)
(* forced removal that ends has removed the container.                     *)
ForceRemoves ==
    [][\A r \in Reqs :
          req[r].step = "DeleteGet" /\ req[r].op = "remove_force"
          /\ req'[r] = Idle /\ crashes' = crashes
             => Get(req[r].ref) = {}]_vars

-----------------------------------------------------------------------------
(* Liveness, when goroutines are scheduled.                                *)

(* Every request is answered: no handler waits for ever, not even for a    *)
(* process that ignores SIGTERM or is suspended.                           *)
RequestsEnd == \A r \in Reqs : req[r] # Idle ~> req[r] = Idle

(* Every process that was started and exits is reaped.                     *)
ZombiesReaped ==
    \A p \in Pids : proc[p] = "zombie" /\ owner[p] # NoId ~> proc[p] = "reaped"

Stale(i) == rec[i] # NoRecord /\ rec[i].running /\ LiveOf(i) = {}

(* A record that says Running for a container that runs nothing is put     *)
(* right, or removed, by the goroutines of handler.go alone, although      *)
(* starts, stops, kills and removals write stale copies over each other.   *)
ExitRecorded ==
    \A i \in Ids :
        (Stale(i) /\ menu.crashes = 0 /\ menu.ops \cap {"pause", "list"} = {}) ~> ~Stale(i)

(* The same when pauses and crashes of the server can leave a record       *)
(* behind that nobody watches, provided a client keeps listing: then       *)
(* ContainerList's reconciliation is what repairs it.                      *)
PollingRepairs ==
    []<>(\E r \in Reqs : req[r].op = "list") => \A i \in Ids : Stale(i) ~> ~Stale(i)
=============================================================================
