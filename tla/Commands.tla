------------------------------ MODULE Commands ------------------------------
(***************************************************************************)
(* The life of containers under the command line (cmd/cryruss/main.go).    *)
(* Every `cryruss run`, `stop`, `rm` ... is a process of its own that works *)
(* on the record files of all the others: the lock of a Store is a lock    *)
(* within one process, so here it protects nothing.  A Save truncates the  *)
(* file and then writes it, and what it leaves in between, or when the     *)
(* command dies, no other command can decode.  The processes a command has *)
(* launched natively die with it (Pdeathsig), those under proot do not.    *)
(*                                                                         *)
(* One step of the model is the code between two file operations or waits. *)
(* A command that changes nothing (ps, logs, inspect, exec) is no command. *)
(* A suspended process is one that does not exit.                          *)
(***************************************************************************)
EXTENDS ContainerRecord, RecordFiles

CONSTANTS
    Ids,        \* container ids, ordered as os.ReadDir lists them
    Existing,   \* containers created, and never started, beforehand
    Cmds,       \* commands that may run at the same time
    Menus,      \* what users type and how many start; one of these per behaviour
    MaxDeaths,  \* bound on commands that are killed
    NoCmd

AllOps == {"create", "run", "run_rm", "run_d", "start", "stop", "restart", "kill",
           "pause", "unpause", "rename", "rm", "rm_f", "prune", "wait"}
Creating == {"create", "run", "run_rm", "run_d"}

ASSUME CommandIds == Ids \subseteq Nat \ {0} /\ Existing \subseteq Ids
ASSUME CommandNames == Names \cap Ids = {} /\ 0 \notin Names
ASSUME CommandMenus == Menus \subseteq [ops : SUBSET AllOps, pids : SUBSET Pids]
ASSUME CommandDeaths == MaxDeaths \in Nat
ASSUME CommandValues ==
    NoCmd \notin Cmds /\ NoRecord \notin Record /\ Torn \notin Record \cup {NoRecord}

VARIABLES
    file,       \* the record files
    fresh,      \* ids that NewID has not generated yet
    proc,       \* the supervisor or proot process of each pid
    owner,      \* the container it was launched for
    parent,     \* the command whose end it does not survive
    cmd,        \* the commands
    menu,       \* the subcommands and the processes of this behaviour
    deaths,     \* commands killed so far
    overlapped  \* two commands have worked on the files at the same time

vars == <<file, fresh, proc, owner, parent, cmd, menu, deaths, overlapped>>

NoId == 0
Refs == Ids \cup Names
Content == Record \cup {NoRecord, Torn}

(* A command.  ref is its argument, id the container it works on, copy the *)
(* record it will write, mark the change an update makes, made the process *)
(* it launched, todo the rest of a listing, next the step after a save.    *)
Steps == {"Idle", "Each", "Truncate", "Write", "Launch", "Update", "Wait",
          "Leave", "Start", "Delete", "Unlink", "Poll", "Report"}
Marks == {"none", "running", "exited", "gone", "stopped", "paused", "unpaused"}
Command ==
    [op : AllOps \cup {"none"}, step : Steps, next : Steps, mark : Marks,
     ref : Refs \cup {NoId}, id : Ids \cup {NoId}, copy : Record \cup {NoRecord},
     made : Pids \cup {NoPid}, todo : SUBSET Ids, fd : Descriptors]

Idle ==
    [op |-> "none", step |-> "Idle", next |-> "Idle", mark |-> "none", ref |-> NoId,
     id |-> NoId, copy |-> NoRecord, made |-> NoPid, todo |-> {}, fd |-> "none"]

Typed(op, step, x, i) == [Idle EXCEPT !.op = op, !.step = step, !.ref = x, !.id = i]

-----------------------------------------------------------------------------
(* The store, seen from a command.                                         *)

Present == {i \in Ids : file[i] # NoRecord}
Readable == {i \in Ids : file[i] \in Record}
IsFirst(i, S) == i \in S /\ \A j \in S : i <= j
Named(n) == {i \in Readable : file[i].name = n}

\* Manager.Get: a file that cannot be decoded has no name, but hides behind
\* its id.  Empty when the lookup fails.
Get(x) == {i \in Readable : IF x \in Present THEN i = x ELSE IsFirst(i, Named(x))}

Busy(k) == cmd[k].step \notin {"Idle", "Wait", "Leave", "Poll", "Report"}
Works(k) == overlapped' = (overlapped \/ \E j \in Cmds \ {k} : Busy(j))

Accept(k, c) ==
    /\ cmd[k] = Idle /\ c.op \in menu.ops
    /\ cmd' = [cmd EXCEPT ![k] = c]
    /\ Works(k)

\* Step "Idle" is the end of the command.
At(c, s) == IF s = "Idle" THEN Idle ELSE [c EXCEPT !.step = s]
Goto(k, s) == cmd' = [cmd EXCEPT ![k] = At(cmd[k], s)]

Truncate(k) ==
    LET i == cmd[k].id IN
    /\ cmd[k].step = "Truncate"
    /\ file' = [file EXCEPT ![i] = Torn]
    /\ cmd' = [Noticed(cmd, k, i, "clean") EXCEPT ![k].step = "Write", ![k].fd = "clean"]
    /\ UNCHANGED <<fresh, proc, owner, parent, menu, deaths, overlapped>>

Write(k) ==
    LET c == cmd[k] IN
    /\ c.step = "Write"
    /\ \E x \in Written(c.fd, c.copy, file[c.id]) : file' = [file EXCEPT ![c.id] = x]
    /\ cmd' = [Noticed(cmd, k, c.id, "shared") EXCEPT
                  ![k] = At([c EXCEPT !.fd = "none", !.copy = NoRecord], c.next)]
    /\ UNCHANGED <<fresh, proc, owner, parent, menu, deaths, overlapped>>

\* os.Remove, after which k goes on to step s.
Unlinked(k, i, s) ==
    /\ file' = [file EXCEPT ![i] = NoRecord]
    /\ cmd' = [Noticed(cmd, k, i, "gone") EXCEPT ![k] = At([cmd[k] EXCEPT !.todo = @ \ {i}], s)]
    /\ UNCHANGED <<fresh, proc, owner, parent, menu, deaths, overlapped>>

-----------------------------------------------------------------------------
(* Manager.UpdateState: a lookup, a change and a Save.  Every command      *)
(* ignores its error.                                                      *)

Updating(c, i, m, next) == [c EXCEPT !.step = "Update", !.id = i, !.mark = m, !.next = next]

Change(m, c, p) ==
    CASE m = "running"  -> MarkRunning(c, p)
      [] m = "exited"   -> MarkExited(c)
      [] m = "gone"     -> MarkGone(c)
      [] m = "stopped"  -> MarkStopped(c)
      [] m = "paused"   -> MarkPaused(c)
      [] m = "unpaused" -> MarkUnpaused(c)

Update(k) ==
    LET c == cmd[k] IN
    /\ c.step = "Update"
    /\ cmd' = [cmd EXCEPT ![k] =
                 IF c.id \in Readable
                 THEN [c EXCEPT !.step = "Truncate",
                                !.copy = Change(c.mark, file[c.id], c.made)]
                 ELSE At(c, c.next)]
    /\ UNCHANGED <<file, fresh, proc, owner, parent, menu, deaths, overlapped>>

-----------------------------------------------------------------------------
(* create and run.                                                         *)

\* NewID, and the listing Manager.Create looks for its name in: it removes
\* what it finds, and gives up at the first that is running.
CreateBegin(k) ==
    \E op \in Creating, i \in fresh, n \in Names :
        LET up == {j \in Named(n) : file[j].running} IN
        /\ Accept(k, [Typed(op, "Each", n, i) EXCEPT
                        !.todo = {j \in Named(n) : \A u \in up : j < u},
                        !.copy = NewRecord(n),
                        !.next = IF up # {} THEN "Idle" ELSE "Truncate"])
        /\ fresh' = fresh \ {i}
        /\ UNCHANGED <<file, proc, owner, parent, menu, deaths>>

CreateReplaces(k) ==
    /\ cmd[k].step = "Each" /\ cmd[k].op \in Creating
    /\ \E i \in Ids : IsFirst(i, cmd[k].todo) /\ Unlinked(k, i, "Each")

\* The end of a listing.  A run goes on to launch once its record is saved.
EachDone(k) ==
    LET c == cmd[k] IN
    /\ c.step = "Each" /\ c.todo = {}
    /\ cmd' = [cmd EXCEPT ![k] =
                 At([c EXCEPT !.next = IF c.op = "create" THEN "Idle" ELSE "Launch"], c.next)]
    /\ UNCHANGED <<file, fresh, proc, owner, parent, menu, deaths, overlapped>>

\* PrepareRootfs and the start, natively or under proot.
Launch(k) ==
    LET c == cmd[k] IN
    /\ c.step = "Launch"
    /\ \E p \in Pids, native \in BOOLEAN :
          /\ IsFirst(p, {q \in menu.pids : proc[q] = "none"})
          /\ proc' = [proc EXCEPT ![p] = "alive"]
          /\ owner' = [owner EXCEPT ![p] = c.id]
          /\ parent' = [parent EXCEPT ![p] = IF native THEN k ELSE NoCmd]
          /\ cmd' = [cmd EXCEPT ![k] =
                       Updating([c EXCEPT !.made = p], c.id, "running",
                                IF c.op \in {"run", "run_rm"} THEN "Wait" ELSE "Leave")]
    /\ UNCHANGED <<file, fresh, menu, deaths, overlapped>>

LaunchFails(k) ==
    /\ cmd[k].step = "Launch"
    /\ Goto(k, "Idle")
    /\ UNCHANGED <<file, fresh, proc, owner, parent, menu, deaths, overlapped>>

\* (mutant of Exited: the exit is left to whoever looks next)
ExitedUnrecorded(k) ==
    /\ cmd[k].step = "Wait"
    /\ proc[cmd[k].made] = "gone"
    /\ Goto(k, "Idle")
    /\ Works(k)
    /\ UNCHANGED <<file, fresh, proc, owner, parent, menu, deaths>>

\* A run in the foreground waits for its process and records the exit.
Exited(k) ==
    LET c == cmd[k] IN
    /\ c.step = "Wait"
    /\ proc[c.made] = "gone"
    /\ cmd' = [cmd EXCEPT ![k] =
                 Updating([c EXCEPT !.ref = c.id], c.id, "exited",
                          IF c.op = "run_rm" THEN "Delete" ELSE "Idle")]
    /\ Works(k)
    /\ UNCHANGED <<file, fresh, proc, owner, parent, menu, deaths>>

\* run -d, with --rm or without, and start leave that to a goroutine, which
\* has only the time main takes to return.
GoroutineWakes(k) ==
    LET c == cmd[k] IN
    /\ c.step = "Leave"
    /\ proc[c.made] = "gone"
    /\ \E rm \in {FALSE, c.op = "run_d"} :
          cmd' = [cmd EXCEPT ![k] =
                    Updating([c EXCEPT !.ref = c.id], c.id,
                             IF c.op = "run_d" THEN "exited" ELSE "gone",
                             IF rm THEN "Delete" ELSE "Idle")]
    /\ Works(k)
    /\ UNCHANGED <<file, fresh, proc, owner, parent, menu, deaths>>

-----------------------------------------------------------------------------
(* start, stop, restart and kill.                                          *)

\* (mutant of StartBegin: a running container is launched again)
StartBeginUnchecked(k) ==
    \E x \in Refs : \E i \in Get(x) :
        /\ Accept(k, Typed("start", "Launch", x, i))
        /\ UNCHANGED <<file, fresh, proc, owner, parent, menu, deaths>>

StartBegin(k) ==
    \E x \in Refs : \E i \in Get(x) :
        /\ ~file[i].running
        /\ Accept(k, Typed("start", "Launch", x, i))
        /\ UNCHANGED <<file, fresh, proc, owner, parent, menu, deaths>>

\* What is left of cmdRestart is cmdStart.
RestartStarts(k) ==
    LET down == {i \in Get(cmd[k].ref) : ~file[i].running} IN
    /\ cmd[k].step = "Start"
    /\ \/ \E i \in down : cmd' = [cmd EXCEPT ![k].step = "Launch", ![k].id = i]
       \/ down = {} /\ Goto(k, "Idle")
    /\ UNCHANGED <<file, fresh, proc, owner, parent, menu, deaths, overlapped>>

\* Whether it runs is not asked.  The process is not a child of this command,
\* so Stop's Wait fails at once: the timeout never comes, and what ignores
\* SIGTERM goes on running.
StopBegin(k) ==
    \E op \in {"stop", "restart"}, x \in Refs : \E i \in Get(x) :
        /\ Accept(k, Updating(Typed(op, "Update", x, i), i, "stopped",
                              IF op = "restart" THEN "Start" ELSE "Idle"))
        /\ UNCHANGED <<file, fresh, proc, owner, parent, menu, deaths>>

Killed(p) == IF p = NoPid THEN proc ELSE [proc EXCEPT ![p] = "gone"]

\* SIGKILL, and no change of the record.  A softer signal decides nothing.
KillBegin(k) ==
    \E x \in Refs : \E i \in Get(x) :
        /\ cmd[k] = Idle /\ "kill" \in menu.ops
        /\ Works(k)
        /\ proc' = Killed(file[i].pid)
        /\ UNCHANGED <<file, fresh, owner, parent, cmd, menu, deaths>>

-----------------------------------------------------------------------------
(* pause, unpause, rename, rm, system prune and wait.                      *)

PauseBegin(k) ==
    \E op \in {"pause", "unpause"}, x \in Refs : \E i \in Get(x) :
        /\ Accept(k, Updating(Typed(op, "Update", x, i), i,
                              IF op = "pause" THEN "paused" ELSE "unpaused", "Idle"))
        /\ UNCHANGED <<file, fresh, proc, owner, parent, menu, deaths>>

\* The copy was read before, whatever has been written since.
RenameBegin(k) ==
    \E x \in Refs, n \in Names : \E i \in Get(x) :
        /\ Accept(k, [Typed("rename", "Truncate", x, i) EXCEPT !.copy = Renamed(file[i], n)])
        /\ UNCHANGED <<file, fresh, proc, owner, parent, menu, deaths>>

\* rm refuses a running container; rm -f kills it and goes on.
RmBegin(k) ==
    \E op \in {"rm", "rm_f"}, x \in Refs : \E i \in Get(x) :
        /\ op = "rm" => ~file[i].running
        /\ Accept(k, Typed(op, "Delete", x, i))
        /\ proc' = IF file[i].running THEN Killed(file[i].pid) ELSE proc
        /\ UNCHANGED <<file, fresh, owner, parent, menu, deaths>>

AfterDelete(c) == IF c.op = "prune" THEN "Each" ELSE "Idle"

\* Manager.Delete looks the container up again, and refuses a running one.
Delete(k) ==
    LET c == cmd[k] IN
    /\ c.step = "Delete"
    /\ \/ \E i \in Get(c.ref) :
             /\ ~file[i].running
             /\ cmd' = [cmd EXCEPT ![k].step = "Unlink", ![k].id = i]
       \/ /\ \A i \in Get(c.ref) : file[i].running
          /\ Goto(k, AfterDelete(c))
    /\ UNCHANGED <<file, fresh, proc, owner, parent, menu, deaths, overlapped>>

Unlink(k) == cmd[k].step = "Unlink" /\ Unlinked(k, cmd[k].id, AfterDelete(cmd[k]))

PruneBegin(k) ==
    /\ Accept(k, [Typed("prune", "Each", NoId, NoId) EXCEPT
                    !.todo = {i \in Readable : ~file[i].running}])
    /\ UNCHANGED <<file, fresh, proc, owner, parent, menu, deaths>>

PruneNext(k) ==
    /\ cmd[k].step = "Each" /\ cmd[k].op = "prune"
    /\ \E i \in Ids :
          /\ IsFirst(i, cmd[k].todo)
          /\ cmd' = [cmd EXCEPT ![k].step = "Delete", ![k].ref = i, ![k].todo = @ \ {i}]
    /\ UNCHANGED <<file, fresh, proc, owner, parent, menu, deaths, overlapped>>

WaitBegin(k) ==
    \E x \in Refs : \E i \in Get(x) :
        /\ file[i].running
        /\ Accept(k, Typed("wait", "Poll", x, i))
        /\ UNCHANGED <<file, fresh, proc, owner, parent, menu, deaths>>

\* (mutant of Poll: the container is looked up only once)
PollForgets(k) ==
    /\ cmd[k].step = "Poll"
    /\ UNCHANGED vars

\* Every half second.  A lookup that fails ends the command with a panic:
\* cmdWait dereferences the container it did not get.
Poll(k) ==
    LET found == Get(cmd[k].ref) IN
    /\ cmd[k].step = "Poll"
    /\ \/ \E i \in found :
             \/ file[i].running /\ cmd' = [cmd EXCEPT ![k].id = i]
             \/ ~file[i].running /\ Goto(k, "Report")
       \/ found = {} /\ Goto(k, "Idle")
    /\ UNCHANGED <<file, fresh, proc, owner, parent, menu, deaths, overlapped>>

\* The exit code is printed.
Report(k) ==
    /\ cmd[k].step = "Report"
    /\ Goto(k, "Idle")
    /\ UNCHANGED <<file, fresh, proc, owner, parent, menu, deaths, overlapped>>

-----------------------------------------------------------------------------
(* The ends of commands and processes.                                     *)

\* What k launched natively gets SIGKILL.
Leaves(k) ==
    /\ cmd' = [cmd EXCEPT ![k] = Idle]
    /\ proc' = [p \in Pids |-> IF parent[p] = k THEN "gone" ELSE proc[p]]
    /\ parent' = [p \in Pids |-> IF parent[p] = k THEN NoCmd ELSE parent[p]]

\* Of run -d and start, main has returned: the goroutine is cut short.
MainReturned(c) ==
    c.op \in {"run_d", "start", "restart"} /\ (c.step = "Leave" \/ c.mark \in {"exited", "gone"})

Leave(k) ==
    /\ MainReturned(cmd[k])
    /\ Leaves(k)
    /\ UNCHANGED <<file, fresh, owner, menu, deaths, overlapped>>

\* Ctrl-C, or the kernel: whatever step the command was at.
Die(k) ==
    /\ cmd[k] # Idle
    /\ deaths < MaxDeaths
    /\ deaths' = deaths + 1
    /\ Leaves(k)
    /\ UNCHANGED <<file, fresh, owner, menu, overlapped>>

ProcExit(p) ==
    /\ proc[p] = "alive"
    /\ proc' = [proc EXCEPT ![p] = "gone"]
    /\ UNCHANGED <<file, fresh, owner, parent, cmd, menu, deaths, overlapped>>

-----------------------------------------------------------------------------

Init ==
    /\ \E names \in [Existing -> Names] :
          file = [i \in Ids |-> IF i \in Existing THEN NewRecord(names[i]) ELSE NoRecord]
    /\ fresh = Ids \ Existing
    /\ proc = [p \in Pids |-> "none"]
    /\ owner = [p \in Pids |-> NoId]
    /\ parent = [p \in Pids |-> NoCmd]
    /\ cmd = [k \in Cmds |-> Idle]
    /\ menu \in Menus
    /\ deaths = 0
    /\ overlapped = FALSE

Begin(k) ==
    \/ CreateBegin(k) \/ StartBegin(k) \/ StopBegin(k) \/ KillBegin(k) \/ PauseBegin(k)
    \/ RenameBegin(k) \/ RmBegin(k) \/ PruneBegin(k) \/ WaitBegin(k)

Step(k) ==
    \/ Truncate(k) \/ Write(k) \/ Update(k) \/ CreateReplaces(k) \/ EachDone(k)
    \/ Launch(k) \/ LaunchFails(k) \/ Exited(k) \/ GoroutineWakes(k)
    \/ RestartStarts(k) \/ Delete(k) \/ Unlink(k) \/ PruneNext(k) \/ Poll(k)
    \/ Report(k) \/ Leave(k)

Next ==
    \/ \E k \in Cmds : Begin(k) \/ Step(k) \/ Die(k)
    \/ \E p \in Pids : ProcExit(p)

Spec == Init /\ [][Next]_vars

(* Commands are scheduled; users, processes and signals owe nothing.       *)
FairSpec == Spec /\ \A k \in Cmds : WF_vars(Step(k))

-----------------------------------------------------------------------------

(* Every variable keeps its type: a record file is absent, torn or a       *)
(* record, and a command holds what main.go gives it.                      *)
TypeOK ==
    /\ file \in [Ids -> Content]
    /\ fresh \in SUBSET Ids
    /\ proc \in [Pids -> {"none", "alive", "gone"}]
    /\ owner \in [Pids -> Ids \cup {NoId}]
    /\ parent \in [Pids -> Cmds \cup {NoCmd}]
    /\ cmd \in [Cmds -> Command]
    /\ menu \in Menus
    /\ deaths \in Nat
    /\ overlapped \in BOOLEAN

Sound(c, i) ==
    c \in Record =>
        /\ c.running => c.pid # NoPid /\ c.status \in {"running", "paused"}
        /\ c.pid # NoPid => owner[c.pid] = i

(* Whatever commands do to each other's files, a record that can be read   *)
(* is one some command meant to write: Running goes with a pid and a       *)
(* status, and the pid is that of a process launched for this container,   *)
(* so that stop, kill, pause and rm -f never signal somebody else's.       *)
RecordSound ==
    /\ \A i \in Ids : Sound(file[i], i)
    /\ \A k \in Cmds : Sound(cmd[k].copy, cmd[k].id)

(* As long as no two commands work at once and none is killed, nothing is  *)
(* lost between them: whenever all of them rest, every process that lives  *)
(* is the one its container's record names as running, and every record    *)
(* can be read.  Two exceptions: a process may outlive a stop, and a       *)
(* command that detaches ends while its goroutine may still be writing.    *)
Orderly ==
    (~overlapped /\ deaths = 0 /\ \A k \in Cmds : ~Busy(k)) =>
        /\ menu.ops \cap {"run_d", "start", "restart"} = {} => Present = Readable
        /\ menu.ops \cap {"stop", "restart"} = {} =>
              \A p \in Pids : proc[p] = "alive" =>
                  LET i == owner[p] IN
                  i \in Readable /\ file[i].running /\ file[i].pid = p

(* Liveness is stated for users who run containers in the foreground only, *)
(* and do not rename or pause them: other commands leave records nobody    *)
(* puts right, or write back the one they had read.                        *)
Foreground == menu.ops \subseteq {"create", "run", "run_rm", "stop", "kill", "rm", "rm_f", "wait"}

Stale(i) ==
    i \in Readable /\ file[i].running /\ proc[file[i].pid] = "gone"

\* Saves that overlapped have left the record of i so, and no other Save of it
\* is under way.
TornForGood(i) ==
    overlapped /\ file[i] = Torn /\ \A k \in Cmds : cmd[k].step # "Write" \/ cmd[k].id # i

(* A run in the foreground records the exit of its container: a record     *)
(* that wrongly says Running is removed, or is one day a record that says  *)
(* something else, whatever others do to the file.  There is one way in    *)
(* which the exit is lost: another Save overlaps, and what the two have    *)
(* written between them cannot be decoded.                                 *)
ExitRecorded ==
    \A i \in Ids :
        (Foreground /\ Stale(i) /\ deaths = 0)
            ~> (\/ file[i] = NoRecord \/ (i \in Readable /\ ~Stale(i))
                \/ TornForGood(i) \/ deaths > 0)

(* Once no container has a process any more, a wait finds out and reports  *)
(* the exit code, unless there comes a moment at which the record it polls *)
(* cannot be read: a lookup at that moment is the end of it, see           *)
(* WaitReports.                                                            *)
WaitEnds ==
    \A k \in Cmds :
        (Foreground /\ cmd[k].step = "Poll")
            ~> (\/ cmd[k].step = "Report" \/ Get(cmd[k].ref) = {}
                \/ deaths > 0 \/ \E p \in Pids : proc[p] = "alive")

(* The usage text of main.go says that wait blocks until the container     *)
(* stops and then prints its exit code: a wait that nobody kills does not  *)
(* end before it reports.                                                  *)
WaitReports ==
    [][\A k \in Cmds :
          cmd[k].step = "Poll" /\ cmd'[k] = Idle => deaths' # deaths]_vars
=============================================================================
