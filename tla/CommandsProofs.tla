-------------------------- MODULE CommandsProofs --------------------------
(***************************************************************************)
(* Type correctness of Commands, RecordSound and Orderly, for any          *)
(* containers, commands, names, processes and kills.                       *)
(*                                                                         *)
(* RecordSound is not inductive: it does not say that the process a command*)
(* is about to record is its container's, nor that a pid in a record has   *)
(* been handed out already, so that no later launch gives it to another    *)
(* container.  CmdInv says both, and when a command holds a copy at all.   *)
(*                                                                         *)
(* Orderly speaks of moments at which no command works.  OrdInv, in the    *)
(* second half, says what holds in between: which files are half written,  *)
(* which process has been launched and not yet recorded, and what every    *)
(* command knows of the record it is about to write.                       *)
(***************************************************************************)
EXTENDS Commands, TLAPS

\* A record of container i, where the processes are pr and their owners ow.
SoundIn(c, i, pr, ow) ==
    c \in Record =>
        /\ c.running => c.pid # NoPid /\ c.status \in {"running", "paused"}
        /\ c.pid # NoPid => ow[c.pid] = i /\ pr[c.pid] # "none"

\* What the step of a command says about its other fields.
Shaped(c) ==
    /\ c.step = "Write" <=> c.fd # "none"
    /\ c.step = "Update" => c.mark # "none"
    /\ c.next \notin {"Write", "Update"}
    /\ c.copy # NoRecord => c.step \in {"Each", "Truncate", "Write"}
    /\ c.copy # NoRecord /\ c.step = "Each" =>
          c.op \in Creating /\ c.next \in {"Idle", "Truncate"}

GoodCmd(c, pr, ow) ==
    /\ c \in Command /\ Shaped(c)
    /\ SoundIn(c.copy, c.id, pr, ow)
    /\ c.made # NoPid => pr[c.made] # "none"
    /\ c.step = "Update" /\ c.mark = "running" => c.made # NoPid /\ ow[c.made] = c.id

RestTyped ==
    /\ fresh \in SUBSET Ids
    /\ proc \in [Pids -> {"none", "alive", "gone"}]
    /\ owner \in [Pids -> Ids \cup {NoId}]
    /\ parent \in [Pids -> Cmds \cup {NoCmd}]
    /\ menu \in Menus
    /\ deaths \in Nat
    /\ overlapped \in BOOLEAN

CmdsGood ==
    /\ cmd \in [Cmds -> Command]
    /\ \A k \in Cmds : GoodCmd(cmd[k], proc, owner)

FilesGood ==
    /\ file \in [Ids -> Content]
    /\ \A i \in Ids : SoundIn(file[i], i, proc, owner)

CmdInv == RestTyped /\ CmdsGood /\ FilesGood

\* From (pr, ow) to (pr2, ow2) processes have only been launched or ended.
Later(pr, ow, pr2, ow2) ==
    \A p \in Pids : pr[p] # "none" => pr2[p] # "none" /\ ow2[p] = ow[p]

-----------------------------------------------------------------------------

(* The pid of a record that names no process is none the kernel gives.     *)
LEMMA NoPidIsNone == NoPid \notin Pids
BY PidsAssumption DEF NoPid

(* A sound record stays so while processes are only launched and end.      *)
LEMMA StaysSound ==
    ASSUME NEW c, NEW i, NEW pr, NEW ow, NEW pr2, NEW ow2,
           SoundIn(c, i, pr, ow), Later(pr, ow, pr2, ow2)
    PROVE  SoundIn(c, i, pr2, ow2)
BY DEF SoundIn, Later, Record

(* And so does what a command that takes no step holds.                    *)
LEMMA StaysGood ==
    ASSUME NEW c, NEW pr, NEW ow, NEW pr2, NEW ow2,
           GoodCmd(c, pr, ow), Later(pr, ow, pr2, ow2)
    PROVE  GoodCmd(c, pr2, ow2)
<1>1. c \in Command /\ Shaped(c) /\ SoundIn(c.copy, c.id, pr2, ow2)
  BY StaysSound DEF GoodCmd
<1>2. c.made \in Pids \cup {NoPid}
  BY <1>1 DEF Command
<1> QED
  BY <1>1, <1>2 DEF GoodCmd, Later

(* A command that has not begun holds nothing.                             *)
LEMMA IdleGood == ASSUME NEW pr, NEW ow PROVE GoodCmd(Idle, pr, ow)
<1>1. Idle \in Command
  BY DEF Idle, Command, Steps, Marks, Descriptors
<1>2. Shaped(Idle)
  BY DEF Idle, Shaped
<1>3. SoundIn(Idle.copy, Idle.id, pr, ow)
  BY CommandValues DEF Idle, SoundIn
<1> QED
  BY <1>1, <1>2, <1>3 DEF GoodCmd, Idle

\* A command just typed holds nothing yet.
LEMMA TypedGood ==
    ASSUME NEW op \in AllOps, NEW s \in Steps \ {"Write", "Update"},
           NEW x \in Refs \cup {NoId}, NEW i \in Ids \cup {NoId}, NEW pr, NEW ow
    PROVE  GoodCmd(Typed(op, s, x, i), pr, ow)
<1> DEFINE c == Typed(op, s, x, i)
<1>1. c \in Command
  BY DEF Typed, Idle, Command, Steps, Marks, Descriptors
<1>2. c.copy = NoRecord /\ c.made = NoPid /\ c.step = s /\ c.fd = "none" /\ c.next = "Idle"
  BY DEF Typed, Idle
<1>3. Shaped(c)
  BY <1>2 DEF Shaped
<1>4. SoundIn(c.copy, c.id, pr, ow)
  BY <1>2, CommandValues DEF SoundIn
<1> HIDE DEF c
<1>5. GoodCmd(c, pr, ow)
  BY <1>1, <1>2, <1>3, <1>4 DEF GoodCmd
<1> QED
  BY <1>5 DEF c

\* A command that holds no copy may go on to any step but a write, and to an
\* update of anything but Running: for that it needs a process.
LEMMA GoesOn ==
    ASSUME NEW c, NEW pr, NEW ow, GoodCmd(c, pr, ow), c.copy = NoRecord, c.fd = "none",
           NEW s \in Steps \ {"Write", "Update"}
    PROVE  GoodCmd(At(c, s), pr, ow)
<1>1. CASE s = "Idle"
  BY <1>1, IdleGood DEF At
<1>2. CASE s # "Idle"
  <2>1. At(c, s) = [c EXCEPT !.step = s] /\ c \in Command
    BY <1>2 DEF At, GoodCmd
  <2> DEFINE d == [c EXCEPT !.step = s]
  <2>2. d \in Command /\ d.step = s /\ d.copy = NoRecord /\ d.fd = "none" /\ d.next = c.next
        /\ d.made = c.made
    BY <2>1 DEF Command
  <2>3. Shaped(d)
    BY <2>2 DEF Shaped, GoodCmd
  <2>4. SoundIn(d.copy, d.id, pr, ow)
    BY <2>2, CommandValues DEF SoundIn
  <2> HIDE DEF d
  <2>5. GoodCmd(d, pr, ow)
    BY <2>2, <2>3, <2>4 DEF GoodCmd
  <2> QED
    BY <2>1, <2>5 DEF d
<1> QED
  BY <1>1, <1>2

(* A command that goes on to an update holds no copy yet; to record a      *)
(* launch, it must have launched the process for that container.           *)
LEMMA UpdatingGood ==
    ASSUME NEW c, NEW pr, NEW ow, GoodCmd(c, pr, ow), c.copy = NoRecord, c.fd = "none",
           NEW i \in Ids \cup {NoId}, NEW m \in Marks \ {"none"},
           NEW next \in Steps \ {"Write", "Update"},
           m = "running" => c.made # NoPid /\ ow[c.made] = i
    PROVE  GoodCmd(Updating(c, i, m, next), pr, ow)
<1> DEFINE d == Updating(c, i, m, next)
<1>1. c \in Command /\ "Update" \in Steps
  BY DEF GoodCmd, Steps
<1>2. /\ d \in Command /\ d.step = "Update" /\ d.copy = NoRecord /\ d.fd = "none"
      /\ d.next = next /\ d.made = c.made /\ d.mark = m /\ d.id = i
  BY <1>1 DEF Command, Updating
<1>3. Shaped(d)
  BY <1>2 DEF Shaped
<1>4. SoundIn(d.copy, d.id, pr, ow)
  BY <1>2, CommandValues DEF SoundIn
<1> HIDE DEF d
<1>5. GoodCmd(d, pr, ow)
  BY <1>2, <1>3, <1>4 DEF GoodCmd
<1> QED
  BY <1>5 DEF d

\* Only the descriptor of an open file notices what others do to it.
LEMMA NoticedGood ==
    ASSUME CmdsGood, NEW k \in Cmds, NEW i, NEW s \in {"clean", "shared", "gone"}
    PROVE  LET N == Noticed(cmd, k, i, s) IN
           /\ N \in [Cmds -> Command]
           /\ N[k] = cmd[k]
           /\ \A j \in Cmds : GoodCmd(N[j], proc, owner)
<1> DEFINE N == Noticed(cmd, k, i, s)
<1>1. N = [j \in Cmds |->
              IF j # k /\ cmd[j].id = i /\ cmd[j].fd \in {"clean", "shared"}
              THEN [cmd[j] EXCEPT !.fd = s] ELSE cmd[j]]
  BY DEF Noticed, CmdsGood
<1>2. ASSUME NEW j \in Cmds
      PROVE  N[j] \in Command /\ GoodCmd(N[j], proc, owner)
  <2>1. cmd[j] \in Command /\ GoodCmd(cmd[j], proc, owner) /\ s \in Descriptors
    BY DEF CmdsGood, Descriptors
  <2>2. CASE j # k /\ cmd[j].id = i /\ cmd[j].fd \in {"clean", "shared"}
    <3> DEFINE d == [cmd[j] EXCEPT !.fd = s]
    <3>1. N[j] = d
      BY <1>1, <2>2
    <3>2. /\ d \in Command /\ d.step = cmd[j].step /\ d.fd = s /\ d.mark = cmd[j].mark
          /\ d.next = cmd[j].next /\ d.copy = cmd[j].copy /\ d.op = cmd[j].op
          /\ d.id = cmd[j].id /\ d.made = cmd[j].made
      BY <2>1 DEF Command
    <3> HIDE DEF d
    <3>3. Shaped(d)
      BY <2>1, <2>2, <3>2 DEF Shaped, GoodCmd
    <3>4. GoodCmd(d, proc, owner)
      BY <2>1, <3>2, <3>3 DEF GoodCmd
    <3> QED
      BY <3>1, <3>2, <3>4
  <2>3. CASE ~(j # k /\ cmd[j].id = i /\ cmd[j].fd \in {"clean", "shared"})
    BY <1>1, <2>1, <2>3
  <2> QED
    BY <2>2, <2>3
<1>3. N \in [Cmds -> Command]
  BY <1>1, <1>2
<1>4. N[k] = cmd[k]
  BY <1>1
<1> QED
  BY <1>2, <1>3, <1>4

\* What a step of one command has to establish, when it touches no file.
LEMMA Moved ==
    ASSUME CmdInv, NEW k \in Cmds, NEW d, GoodCmd(d, proc', owner'),
           cmd' = [cmd EXCEPT ![k] = d], file' = file,
           Later(proc, owner, proc', owner'), RestTyped'
    PROVE  CmdInv'
<1>1. d \in Command
  BY DEF GoodCmd
<1>2. CmdsGood'
  <2>1. cmd' \in [Cmds -> Command]
    BY <1>1 DEF CmdInv, CmdsGood
  <2>2. ASSUME NEW j \in Cmds PROVE GoodCmd(cmd'[j], proc', owner')
    <3>1. GoodCmd(cmd[j], proc', owner')
      BY StaysGood DEF CmdInv, CmdsGood
    <3> QED
      BY <3>1 DEF CmdInv, CmdsGood
  <2> QED
    BY <2>1, <2>2 DEF CmdsGood
<1>3. FilesGood'
  <2>1. \A i \in Ids : SoundIn(file[i], i, proc', owner')
    BY StaysSound DEF CmdInv, FilesGood
  <2> QED
    BY <2>1 DEF CmdInv, FilesGood
<1> QED
  BY <1>2, <1>3 DEF CmdInv

\* And what one that writes or removes a file has to establish.
LEMMA Filed ==
    ASSUME CmdInv, NEW k \in Cmds, NEW d, NEW i, NEW x \in Content,
           NEW s \in {"clean", "shared", "gone"},
           GoodCmd(d, proc, owner), SoundIn(x, i, proc, owner),
           cmd' = [Noticed(cmd, k, i, s) EXCEPT ![k] = d],
           file' = [file EXCEPT ![i] = x],
           UNCHANGED <<fresh, proc, owner, parent, menu, deaths, overlapped>>
    PROVE  CmdInv'
<1> DEFINE N == Noticed(cmd, k, i, s)
<1>1. N \in [Cmds -> Command] /\ \A j \in Cmds : GoodCmd(N[j], proc, owner)
  BY NoticedGood DEF CmdInv
<1>2. d \in Command
  BY DEF GoodCmd
<1> HIDE DEF N
<1>3. cmd' = [N EXCEPT ![k] = d]
  BY DEF N
<1>4. CmdsGood'
  <2>1. cmd' \in [Cmds -> Command] /\ \A j \in Cmds : GoodCmd(cmd'[j], proc, owner)
    BY <1>1, <1>2, <1>3
  <2> QED
    BY <2>1 DEF CmdsGood
<1>5. FilesGood'
  BY DEF CmdInv, FilesGood
<1>6. RestTyped'
  BY DEF CmdInv, RestTyped
<1> QED
  BY <1>4, <1>5, <1>6 DEF CmdInv

-----------------------------------------------------------------------------
(* Init, and the steps that begin a command.                               *)

(* Records of an earlier session name no process, and no command is at     *)
(* work.                                                                   *)
LEMMA InitInv == Init => CmdInv
<1> SUFFICES ASSUME Init PROVE CmdInv
  OBVIOUS
<1>1. RestTyped
  BY DEF Init, RestTyped
<1>2. CmdsGood
  <2>1. Idle \in Command
    BY IdleGood DEF GoodCmd
  <2> QED
    BY <2>1, IdleGood DEF CmdsGood, Init
<1>3. FilesGood
  <2>1. PICK names \in [Existing -> Names] :
           file = [i \in Ids |-> IF i \in Existing THEN NewRecord(names[i]) ELSE NoRecord]
    BY DEF Init
  <2>2. ASSUME NEW i \in Ids PROVE file[i] \in Content /\ SoundIn(file[i], i, proc, owner)
    <3>1. CASE i \in Existing
      <4>1. file[i] = NewRecord(names[i]) /\ names[i] \in Names
        BY <2>1, <3>1
      <4> QED
        BY <4>1 DEF NewRecord, Record, Status, Content, SoundIn, NoPid
    <3>2. CASE i \notin Existing
      BY <2>1, <3>2, CommandValues DEF Content, SoundIn
    <3> QED
      BY <3>1, <3>2
  <2> QED
    BY <2>1, <2>2 DEF FilesGood
<1> QED
  BY <1>1, <1>2, <1>3 DEF CmdInv

(* What a lookup finds is a record that can be read, and sound.            *)
LEMMA GetFinds ==
    ASSUME NEW x, NEW i \in Get(x), CmdInv
    PROVE  i \in Ids /\ file[i] \in Record /\ SoundIn(file[i], i, proc, owner)
BY DEF Get, Readable, CmdInv, FilesGood

(* The processes of now are no earlier than those of now.                  *)
LEMMA SameProcesses ==
    ASSUME NEW pr, NEW ow PROVE Later(pr, ow, pr, ow)
BY DEF Later

\* A command that begins with its first file access still to come.
LEMMA Accepted ==
    ASSUME CmdInv, NEW k \in Cmds, NEW c, Accept(k, c), GoodCmd(c, proc', owner'),
           file' = file, Later(proc, owner, proc', owner'),
           fresh' \in SUBSET Ids,
           proc' \in [Pids -> {"none", "alive", "gone"}],
           UNCHANGED <<owner, parent, menu, deaths>>
    PROVE  CmdInv'
<1>1. RestTyped'
  BY DEF Accept, Works, CmdInv, RestTyped
<1>2. cmd' = [cmd EXCEPT ![k] = c]
  BY DEF Accept
<1> QED
  BY <1>1, <1>2, Moved

\* SIGKILL leaves a process gone, and an owner as it was.
LEMMA KillIsLater ==
    ASSUME CmdInv, NEW p \in Pids \cup {NoPid}, proc' = Killed(p), owner' = owner
    PROVE  /\ Later(proc, owner, proc', owner')
           /\ proc' \in [Pids -> {"none", "alive", "gone"}]
BY DEF CmdInv, RestTyped, Killed, Later

(* create and run: the copy is a new record, which names no process.       *)
LEMMA CreateBeginInv ==
    ASSUME CmdInv, NEW k \in Cmds, CreateBegin(k) PROVE CmdInv'
<1>1. PICK op \in Creating, i \in fresh, n \in Names :
        LET up == {j \in Named(n) : file[j].running}
            c == [Typed(op, "Each", n, i) EXCEPT
                    !.todo = {j \in Named(n) : \A u \in up : j < u},
                    !.copy = NewRecord(n),
                    !.next = IF up # {} THEN "Idle" ELSE "Truncate"]
        IN  Accept(k, c) /\ fresh' = fresh \ {i}
  BY DEF CreateBegin
<1> DEFINE up == {j \in Named(n) : file[j].running}
           todo == {j \in Named(n) : \A u \in up : j < u}
           next == IF up # {} THEN "Idle" ELSE "Truncate"
           t == Typed(op, "Each", n, i)
           c == [t EXCEPT !.todo = todo, !.copy = NewRecord(n), !.next = next]
<1>2. UNCHANGED <<file, proc, owner, parent, menu, deaths>>
  BY DEF CreateBegin
<1>3. Accept(k, c) /\ fresh' = fresh \ {i} /\ i \in Ids
  BY <1>1 DEF CmdInv, RestTyped
<1>4. GoodCmd(t, proc, owner) /\ t.op = op /\ t.step = "Each" /\ t.id = i /\ t.made = NoPid
      /\ t.fd = "none"
  <2>1. op \in AllOps /\ n \in Refs /\ "Each" \in Steps \ {"Write", "Update"}
    BY DEF Creating, AllOps, Refs, Steps
  <2>2. GoodCmd(t, proc, owner)
    BY <1>3, <2>1, TypedGood
  <2> QED
    BY <2>2 DEF Typed, Idle
<1>5. todo \in SUBSET Ids /\ next \in {"Idle", "Truncate"} /\ next \in Steps
  BY DEF Named, Readable, Steps
<1>6. NewRecord(n) \in Record /\ SoundIn(NewRecord(n), i, proc, owner)
  BY DEF NewRecord, Record, Status, SoundIn, NoPid
<1> HIDE DEF t, todo, next
<1>7. /\ c \in Command /\ c.op = op /\ c.step = "Each" /\ c.id = i /\ c.made = NoPid
      /\ c.fd = "none" /\ c.copy = NewRecord(n) /\ c.next = next
  BY <1>4, <1>5, <1>6 DEF Command, GoodCmd
<1> HIDE DEF c
<1>8. GoodCmd(c, proc, owner)
  BY <1>5, <1>6, <1>7 DEF GoodCmd, Shaped
<1>9. fresh' \in SUBSET Ids /\ proc' \in [Pids -> {"none", "alive", "gone"}]
  BY <1>2, <1>3 DEF CmdInv, RestTyped
<1> QED
  BY <1>2, <1>3, <1>8, <1>9, Accepted, SameProcesses

(* start: nothing is held before the launch.                               *)
LEMMA StartBeginInv ==
    ASSUME CmdInv, NEW k \in Cmds, StartBegin(k) PROVE CmdInv'
<1>1. PICK x \in Refs : \E i \in Get(x) : Accept(k, Typed("start", "Launch", x, i))
  BY DEF StartBegin
<1>2. PICK i \in Get(x) : Accept(k, Typed("start", "Launch", x, i))
  BY <1>1
<1>3. UNCHANGED <<file, fresh, proc, owner, parent, menu, deaths>>
  BY DEF StartBegin
<1>4. GoodCmd(Typed("start", "Launch", x, i), proc, owner)
  <2>1. "start" \in AllOps /\ "Launch" \in Steps \ {"Write", "Update"} /\ i \in Ids
    BY GetFinds DEF AllOps, Steps
  <2> QED
    BY <2>1, TypedGood
<1>5. fresh' \in SUBSET Ids /\ proc' \in [Pids -> {"none", "alive", "gone"}]
  BY <1>3 DEF CmdInv, RestTyped
<1> QED
  BY <1>2, <1>3, <1>4, <1>5, Accepted, SameProcesses

\* stop, restart, pause and unpause begin with an update.
LEMMA TypedUpdate ==
    ASSUME CmdInv, NEW op \in AllOps, NEW x \in Refs, NEW i \in Ids,
           NEW m \in Marks \ {"none", "running"}, NEW next \in Steps \ {"Write", "Update"}
    PROVE  GoodCmd(Updating(Typed(op, "Update", x, i), i, m, next), proc, owner)
<1> DEFINE t == Typed(op, "Idle", x, i)
<1>1. "Idle" \in Steps \ {"Write", "Update"}
  BY DEF Steps
<1>2. GoodCmd(t, proc, owner) /\ t.copy = NoRecord /\ t.fd = "none"
  <2>1. GoodCmd(t, proc, owner)
    BY <1>1, TypedGood
  <2> QED
    BY <2>1 DEF Typed, Idle
<1>3. Updating(Typed(op, "Update", x, i), i, m, next) = Updating(t, i, m, next)
  BY DEF Typed, Updating, Idle
<1> HIDE DEF t
<1>4. GoodCmd(Updating(t, i, m, next), proc, owner)
  BY <1>2, UpdatingGood
<1> QED
  BY <1>3, <1>4

(* stop and restart: what is to be written is read only by the update.     *)
LEMMA StopBeginInv ==
    ASSUME CmdInv, NEW k \in Cmds, StopBegin(k) PROVE CmdInv'
<1> DEFINE c(op, x, i) == Updating(Typed(op, "Update", x, i), i, "stopped",
                                   IF op = "restart" THEN "Start" ELSE "Idle")
<1>1. PICK op \in {"stop", "restart"}, x \in Refs : \E i \in Get(x) : Accept(k, c(op, x, i))
  BY DEF StopBegin
<1>2. PICK i \in Get(x) : Accept(k, c(op, x, i))
  BY <1>1
<1>3. UNCHANGED <<file, fresh, proc, owner, parent, menu, deaths>>
  BY DEF StopBegin
<1>4. GoodCmd(c(op, x, i), proc, owner)
  <2>1. /\ op \in AllOps /\ i \in Ids /\ "stopped" \in Marks \ {"none", "running"}
        /\ (IF op = "restart" THEN "Start" ELSE "Idle") \in Steps \ {"Write", "Update"}
    BY GetFinds DEF AllOps, Marks, Steps
  <2> QED
    BY <2>1, TypedUpdate
<1> HIDE DEF c
<1>5. fresh' \in SUBSET Ids /\ proc' \in [Pids -> {"none", "alive", "gone"}]
  BY <1>3 DEF CmdInv, RestTyped
<1> QED
  BY <1>2, <1>3, <1>4, <1>5, Accepted, SameProcesses

(* pause and unpause: the same.                                            *)
LEMMA PauseBeginInv ==
    ASSUME CmdInv, NEW k \in Cmds, PauseBegin(k) PROVE CmdInv'
<1> DEFINE c(op, x, i) == Updating(Typed(op, "Update", x, i), i,
                                   IF op = "pause" THEN "paused" ELSE "unpaused", "Idle")
<1>1. PICK op \in {"pause", "unpause"}, x \in Refs : \E i \in Get(x) : Accept(k, c(op, x, i))
  BY DEF PauseBegin
<1>2. PICK i \in Get(x) : Accept(k, c(op, x, i))
  BY <1>1
<1>3. UNCHANGED <<file, fresh, proc, owner, parent, menu, deaths>>
  BY DEF PauseBegin
<1>4. GoodCmd(c(op, x, i), proc, owner)
  <2>1. /\ op \in AllOps /\ i \in Ids /\ "Idle" \in Steps \ {"Write", "Update"}
        /\ (IF op = "pause" THEN "paused" ELSE "unpaused") \in Marks \ {"none", "running"}
    BY GetFinds DEF AllOps, Marks, Steps
  <2> QED
    BY <2>1, TypedUpdate
<1> HIDE DEF c
<1>5. fresh' \in SUBSET Ids /\ proc' \in [Pids -> {"none", "alive", "gone"}]
  BY <1>3 DEF CmdInv, RestTyped
<1> QED
  BY <1>2, <1>3, <1>4, <1>5, Accepted, SameProcesses

(* kill: a process ends and keeps its owner.                               *)
LEMMA KillBeginInv ==
    ASSUME CmdInv, NEW k \in Cmds, KillBegin(k) PROVE CmdInv'
<1>1. PICK x \in Refs : \E i \in Get(x) : proc' = Killed(file[i].pid)
  BY DEF KillBegin
<1>2. PICK i \in Get(x) : proc' = Killed(file[i].pid)
  BY <1>1
<1>3. UNCHANGED <<file, fresh, owner, parent, cmd, menu, deaths>>
  BY DEF KillBegin
<1>4. Later(proc, owner, proc', owner') /\ proc' \in [Pids -> {"none", "alive", "gone"}]
  BY <1>2, <1>3, GetFinds, KillIsLater DEF Record
<1>5. RestTyped'
  BY <1>3, <1>4 DEF KillBegin, Works, CmdInv, RestTyped
<1>6. GoodCmd(cmd[k], proc', owner') /\ cmd' = [cmd EXCEPT ![k] = cmd[k]]
  BY <1>3, <1>4, StaysGood DEF CmdInv, CmdsGood
<1> QED
  BY <1>3, <1>4, <1>5, <1>6, Moved

\* A renamed record is as sound as the one that was read.
LEMMA RenameBeginInv ==
    ASSUME CmdInv, NEW k \in Cmds, RenameBegin(k) PROVE CmdInv'
<1> DEFINE c(x, n, i) == [Typed("rename", "Truncate", x, i) EXCEPT !.copy = Renamed(file[i], n)]
<1>1. PICK x \in Refs, n \in Names : \E i \in Get(x) : Accept(k, c(x, n, i))
  BY DEF RenameBegin
<1>2. PICK i \in Get(x) : Accept(k, c(x, n, i))
  BY <1>1
<1>3. UNCHANGED <<file, fresh, proc, owner, parent, menu, deaths>>
  BY DEF RenameBegin
<1>4. GoodCmd(c(x, n, i), proc, owner)
  <2> DEFINE t == Typed("rename", "Truncate", x, i)
             r == Renamed(file[i], n)
             d == [t EXCEPT !.copy = r]
  <2>1. i \in Ids /\ file[i] \in Record /\ SoundIn(file[i], i, proc, owner)
    BY GetFinds
  <2>2. r \in Record /\ SoundIn(r, i, proc, owner)
    BY <2>1 DEF Renamed, Record, SoundIn
  <2>3. GoodCmd(t, proc, owner) /\ t.step = "Truncate" /\ t.id = i /\ t.made = NoPid
        /\ t.fd = "none" /\ t.next = "Idle"
    <3>1. "rename" \in AllOps /\ "Truncate" \in Steps \ {"Write", "Update"}
      BY DEF AllOps, Steps
    <3>2. GoodCmd(t, proc, owner)
      BY <2>1, <3>1, TypedGood
    <3> QED
      BY <3>2 DEF Typed, Idle
  <2> HIDE DEF t, r
  <2>4. /\ d \in Command /\ d.step = "Truncate" /\ d.id = i /\ d.made = NoPid
        /\ d.fd = "none" /\ d.copy = r /\ d.next = "Idle"
    BY <2>2, <2>3 DEF Command, GoodCmd
  <2> HIDE DEF d
  <2>5. GoodCmd(d, proc, owner)
    BY <2>2, <2>4 DEF GoodCmd, Shaped
  <2> QED
    BY <2>5 DEF d, t, r
<1> HIDE DEF c
<1>5. fresh' \in SUBSET Ids /\ proc' \in [Pids -> {"none", "alive", "gone"}]
  BY <1>3 DEF CmdInv, RestTyped
<1> QED
  BY <1>2, <1>3, <1>4, <1>5, Accepted, SameProcesses

(* rm and rm -f: a process may end, and nothing is held.                   *)
LEMMA RmBeginInv ==
    ASSUME CmdInv, NEW k \in Cmds, RmBegin(k) PROVE CmdInv'
<1>1. PICK op \in {"rm", "rm_f"}, x \in Refs :
        \E i \in Get(x) : /\ Accept(k, Typed(op, "Delete", x, i))
                          /\ proc' = IF file[i].running THEN Killed(file[i].pid) ELSE proc
  BY DEF RmBegin
<1>2. PICK i \in Get(x) : /\ Accept(k, Typed(op, "Delete", x, i))
                          /\ proc' = IF file[i].running THEN Killed(file[i].pid) ELSE proc
  BY <1>1
<1>3. UNCHANGED <<file, fresh, owner, parent, menu, deaths>>
  BY DEF RmBegin
<1>4. i \in Ids /\ file[i] \in Record
  BY GetFinds
<1>5. Later(proc, owner, proc', owner') /\ proc' \in [Pids -> {"none", "alive", "gone"}]
  <2>1. CASE file[i].running
    <3>1. file[i].pid \in Pids \cup {NoPid}
      BY <1>4 DEF Record
    <3> QED
      BY <1>2, <1>3, <2>1, <3>1, KillIsLater
  <2>2. CASE ~file[i].running
    BY <1>2, <1>3, <2>2, SameProcesses DEF CmdInv, RestTyped
  <2> QED
    BY <2>1, <2>2
<1>6. GoodCmd(Typed(op, "Delete", x, i), proc', owner')
  <2>1. op \in AllOps /\ "Delete" \in Steps \ {"Write", "Update"}
    BY DEF AllOps, Steps
  <2> QED
    BY <1>4, <2>1, TypedGood
<1>7. fresh' \in SUBSET Ids
  BY <1>3 DEF CmdInv, RestTyped
<1> QED
  BY <1>2, <1>3, <1>5, <1>6, <1>7, Accepted

(* system prune: a listing of ids holds no record.                         *)
LEMMA PruneBeginInv ==
    ASSUME CmdInv, NEW k \in Cmds, PruneBegin(k) PROVE CmdInv'
<1> DEFINE t == Typed("prune", "Each", NoId, NoId)
           todo == {i \in Readable : ~file[i].running}
           c == [t EXCEPT !.todo = todo]
<1>1. Accept(k, c) /\ UNCHANGED <<file, fresh, proc, owner, parent, menu, deaths>>
  BY DEF PruneBegin
<1>2. GoodCmd(t, proc, owner) /\ t.copy = NoRecord /\ t.fd = "none" /\ t.step = "Each"
      /\ t.made = NoPid /\ t.next = "Idle"
  <2>1. "prune" \in AllOps /\ "Each" \in Steps \ {"Write", "Update"}
    BY DEF AllOps, Steps
  <2>2. GoodCmd(t, proc, owner)
    BY <2>1, TypedGood
  <2> QED
    BY <2>2 DEF Typed, Idle
<1>3. todo \in SUBSET Ids
  BY DEF Readable
<1> HIDE DEF t, todo
<1>4. c \in Command /\ c.copy = NoRecord /\ c.fd = "none" /\ c.step = "Each"
      /\ c.made = NoPid /\ c.next = "Idle"
  BY <1>2, <1>3 DEF Command, GoodCmd
<1> HIDE DEF c
<1>5. GoodCmd(c, proc, owner)
  BY <1>4, CommandValues DEF GoodCmd, Shaped, SoundIn
<1>6. fresh' \in SUBSET Ids /\ proc' \in [Pids -> {"none", "alive", "gone"}]
  BY <1>1 DEF CmdInv, RestTyped
<1> QED
  BY <1>1, <1>5, <1>6, Accepted, SameProcesses

(* wait holds no record.                                                   *)
LEMMA WaitBeginInv ==
    ASSUME CmdInv, NEW k \in Cmds, WaitBegin(k) PROVE CmdInv'
<1>1. PICK x \in Refs : \E i \in Get(x) : Accept(k, Typed("wait", "Poll", x, i))
  BY DEF WaitBegin
<1>2. PICK i \in Get(x) : Accept(k, Typed("wait", "Poll", x, i))
  BY <1>1
<1>3. UNCHANGED <<file, fresh, proc, owner, parent, menu, deaths>>
  BY DEF WaitBegin
<1>4. GoodCmd(Typed("wait", "Poll", x, i), proc, owner)
  <2>1. "wait" \in AllOps /\ "Poll" \in Steps \ {"Write", "Update"} /\ i \in Ids
    BY GetFinds DEF AllOps, Steps
  <2> QED
    BY <2>1, TypedGood
<1>5. fresh' \in SUBSET Ids /\ proc' \in [Pids -> {"none", "alive", "gone"}]
  BY <1>3 DEF CmdInv, RestTyped
<1> QED
  BY <1>2, <1>3, <1>4, <1>5, Accepted, SameProcesses

-----------------------------------------------------------------------------
(* The steps of a command.                                                 *)

(* Truncate: a torn file says nothing, and the copy stays for the write.   *)
LEMMA TruncateInv ==
    ASSUME CmdInv, NEW k \in Cmds, Truncate(k) PROVE CmdInv'
<1> DEFINE c == cmd[k]
           N == Noticed(cmd, k, c.id, "clean")
           d == [c EXCEPT !.step = "Write", !.fd = "clean"]
<1>1. /\ c.step = "Truncate" /\ file' = [file EXCEPT ![c.id] = Torn]
      /\ cmd' = [N EXCEPT ![k].step = "Write", ![k].fd = "clean"]
      /\ UNCHANGED <<fresh, proc, owner, parent, menu, deaths, overlapped>>
  BY DEF Truncate
<1>2. N \in [Cmds -> Command] /\ N[k] = c /\ GoodCmd(c, proc, owner)
  BY NoticedGood DEF CmdInv, CmdsGood
<1> HIDE DEF N, c
<1>3. cmd' = [N EXCEPT ![k] = d]
  BY <1>1, <1>2
<1>4. GoodCmd(d, proc, owner)
  <2>1. c \in Command /\ "Write" \in Steps /\ "clean" \in Descriptors
    BY <1>2 DEF GoodCmd, Steps, Descriptors
  <2>2. /\ d \in Command /\ d.step = "Write" /\ d.fd = "clean" /\ d.id = c.id
        /\ d.copy = c.copy /\ d.made = c.made /\ d.next = c.next
    BY <2>1 DEF Command
  <2> HIDE DEF d
  <2> QED
    BY <1>1, <1>2, <2>2 DEF GoodCmd, Shaped
<1>5. Torn \in Content /\ SoundIn(Torn, c.id, proc, owner)
  BY CommandValues DEF Content, SoundIn
<1> HIDE DEF d
<1> QED
  BY <1>1, <1>3, <1>4, <1>5, Filed DEF N

(* Write: the file is what a sound copy says, torn, or what another wrote. *)
LEMMA WriteInv ==
    ASSUME CmdInv, NEW k \in Cmds, Write(k) PROVE CmdInv'
<1> DEFINE c == cmd[k]
           N == Noticed(cmd, k, c.id, "shared")
           e == [c EXCEPT !.fd = "none", !.copy = NoRecord]
           d == At(e, c.next)
<1>1. /\ c.step = "Write"
      /\ \E x \in Written(c.fd, c.copy, file[c.id]) : file' = [file EXCEPT ![c.id] = x]
      /\ cmd' = [N EXCEPT ![k] = d]
      /\ UNCHANGED <<fresh, proc, owner, parent, menu, deaths, overlapped>>
  BY DEF Write
<1>2. GoodCmd(c, proc, owner)
  BY DEF CmdInv, CmdsGood
<1>3. GoodCmd(d, proc, owner)
  <2>1. e.step = "Write" /\ e.fd = "none" /\ e.copy = NoRecord /\ c.next \in Steps
        /\ c.next \notin {"Write", "Update"} /\ c \in Command /\ "none" \in Descriptors
    BY <1>1, <1>2 DEF Command, GoodCmd, Shaped, Descriptors
  <2>2. CASE c.next = "Idle"
    BY <2>2, IdleGood DEF At
  <2>3. CASE c.next # "Idle"
    <3> DEFINE f == [e EXCEPT !.step = c.next]
    <3>1. d = f
      BY <2>3 DEF At
    <3>2. /\ f \in Command /\ f.step = c.next /\ f.fd = "none" /\ f.copy = NoRecord
          /\ f.made = c.made /\ f.next = c.next
      BY <2>1 DEF Command
    <3> HIDE DEF f, c
    <3>3. GoodCmd(f, proc, owner)
      BY <1>2, <2>1, <3>2, CommandValues DEF GoodCmd, Shaped, SoundIn
    <3> QED
      BY <3>1, <3>3
  <2> QED
    BY <2>2, <2>3
<1>4. PICK x \in Written(c.fd, c.copy, file[c.id]) : file' = [file EXCEPT ![c.id] = x]
  BY <1>1
<1>5. (x \in Content /\ SoundIn(x, c.id, proc, owner)) \/ file' = file
  <2>1. c.fd \in {"clean", "shared", "gone"} /\ c.copy \in Record \cup {NoRecord}
        /\ SoundIn(c.copy, c.id, proc, owner)
    BY <1>1, <1>2 DEF GoodCmd, Shaped, Command, Descriptors
  <2>2. CASE c.fd \in {"clean", "shared"}
    <3>1. x \in {c.copy, Torn}
      BY <1>4, <2>2 DEF Written
    <3> QED
      BY <2>1, <3>1, CommandValues DEF Content, SoundIn
  <2>3. CASE c.fd = "gone"
    <3>1. x = file[c.id]
      BY <1>4, <2>3 DEF Written
    <3> QED
      BY <1>4, <3>1 DEF CmdInv, FilesGood
  <2> QED
    BY <2>1, <2>2, <2>3
<1> HIDE DEF c, d
<1>6. CASE x \in Content /\ SoundIn(x, c.id, proc, owner)
  BY <1>1, <1>3, <1>4, <1>6, Filed DEF N
<1>7. CASE file' = file
  <2> DEFINE y == IF c.id \in Ids THEN file[c.id] ELSE Torn
  <2>1. y \in Content /\ SoundIn(y, c.id, proc, owner)
    BY CommandValues DEF Content, SoundIn, CmdInv, FilesGood
  <2>2. file' = [file EXCEPT ![c.id] = y]
    BY <1>7 DEF CmdInv, FilesGood
  <2> HIDE DEF y
  <2> QED
    BY <1>1, <1>3, <2>1, <2>2, Filed DEF N
<1> QED
  BY <1>5, <1>6, <1>7

\* Every change an update makes keeps a sound record sound.
LEMMA ChangeSound ==
    ASSUME NEW m \in Marks \ {"none"}, NEW c \in Record, NEW p \in Pids \cup {NoPid},
           NEW i, NEW pr, NEW ow, SoundIn(c, i, pr, ow),
           p # NoPid => pr[p] # "none", m = "running" => p # NoPid /\ ow[p] = i
    PROVE  Change(m, c, p) \in Record /\ SoundIn(Change(m, c, p), i, pr, ow)
<1> DEFINE d == Change(m, c, p)
<1>1. CASE m = "running"
  BY <1>1 DEF Change, MarkRunning, Record, Status, SoundIn
<1>2. CASE m = "exited"
  BY <1>2 DEF Change, MarkExited, Record, Status, SoundIn
<1>3. CASE m = "gone"
  BY <1>3 DEF Change, MarkGone, Record, Status, SoundIn
<1>4. CASE m = "stopped"
  BY <1>4 DEF Change, MarkStopped, Record, Status, SoundIn
<1>5. CASE m = "paused"
  BY <1>5 DEF Change, MarkPaused, Record, Status, SoundIn
<1>6. CASE m = "unpaused"
  BY <1>6 DEF Change, MarkUnpaused, Record, Status, SoundIn
<1> QED
  BY <1>1, <1>2, <1>3, <1>4, <1>5, <1>6 DEF Marks

\* What a step of k that changes k alone has to establish.
LEMMA OnlyThis ==
    ASSUME CmdInv, NEW k \in Cmds, NEW d, GoodCmd(d, proc, owner),
           cmd' = [cmd EXCEPT ![k] = d],
           UNCHANGED <<file, fresh, proc, owner, parent, menu, deaths>>,
           overlapped' \in BOOLEAN
    PROVE  CmdInv'
<1>1. RestTyped'
  BY DEF CmdInv, RestTyped
<1> QED
  BY <1>1, Moved, SameProcesses

(* Update: the change of a sound record is sound; of a launch, because the *)
(* process was launched for this container.                                *)
LEMMA UpdateInv ==
    ASSUME CmdInv, NEW k \in Cmds, Update(k) PROVE CmdInv'
<1> DEFINE c == cmd[k]
           r == Change(c.mark, file[c.id], c.made)
           t == [c EXCEPT !.step = "Truncate", !.copy = r]
           d == IF c.id \in Readable THEN t ELSE At(c, c.next)
<1>1. /\ c.step = "Update" /\ cmd' = [cmd EXCEPT ![k] = d]
      /\ UNCHANGED <<file, fresh, proc, owner, parent, menu, deaths, overlapped>>
  BY DEF Update
<1>2. GoodCmd(c, proc, owner) /\ overlapped \in BOOLEAN /\ "Truncate" \in Steps
  BY DEF CmdInv, CmdsGood, RestTyped, Steps
<1> HIDE DEF c
<1>3. c.copy = NoRecord /\ c.fd = "none" /\ c.next \in Steps \ {"Write", "Update"}
      /\ c.mark \in Marks \ {"none"} /\ c.made \in Pids \cup {NoPid}
  BY <1>1, <1>2 DEF GoodCmd, Shaped, Command
<1>4. GoodCmd(d, proc, owner)
  <2>1. CASE c.id \in Readable
    <3>1. file[c.id] \in Record /\ SoundIn(file[c.id], c.id, proc, owner)
      BY <2>1 DEF Readable, CmdInv, FilesGood
    <3>2. r \in Record /\ SoundIn(r, c.id, proc, owner)
      BY <1>1, <1>2, <1>3, <3>1, ChangeSound DEF GoodCmd
    <3> HIDE DEF r
    <3>3. /\ t \in Command /\ t.step = "Truncate" /\ t.copy = r /\ t.id = c.id /\ t.fd = "none"
          /\ t.made = c.made /\ t.next = c.next
      BY <1>2, <1>3, <3>2 DEF Command, GoodCmd
    <3> HIDE DEF t
    <3>4. GoodCmd(t, proc, owner)
      BY <1>2, <1>3, <3>2, <3>3 DEF GoodCmd, Shaped
    <3> QED
      BY <2>1, <3>4
  <2>2. CASE c.id \notin Readable
    BY <1>2, <1>3, <2>2, GoesOn
  <2> QED
    BY <2>1, <2>2
<1> HIDE DEF d
<1> QED
  BY <1>1, <1>2, <1>4, OnlyThis

\* os.Remove, at a step that is not a write.
LEMMA UnlinkedInv ==
    ASSUME CmdInv, NEW k \in Cmds, NEW i, NEW s \in Steps \ {"Write", "Update"}, Unlinked(k, i, s),
           cmd[k].fd = "none", s = cmd[k].step \/ cmd[k].copy = NoRecord
    PROVE  CmdInv'
<1> DEFINE c == cmd[k]
           e == [c EXCEPT !.todo = @ \ {i}]
           d == At(e, s)
<1>1. /\ file' = [file EXCEPT ![i] = NoRecord]
      /\ cmd' = [Noticed(cmd, k, i, "gone") EXCEPT ![k] = d]
      /\ UNCHANGED <<fresh, proc, owner, parent, menu, deaths, overlapped>>
  BY DEF Unlinked
<1>2. GoodCmd(c, proc, owner) /\ c.fd = "none" /\ (s = c.step \/ c.copy = NoRecord)
  BY DEF CmdInv, CmdsGood
<1> HIDE DEF c
<1>3. /\ e \in Command /\ e.step = c.step /\ e.copy = c.copy /\ e.id = c.id /\ e.fd = c.fd
      /\ e.made = c.made /\ e.next = c.next /\ e.mark = c.mark /\ e.op = c.op
  BY <1>2 DEF Command, GoodCmd
<1> HIDE DEF e
<1>4. GoodCmd(e, proc, owner)
  BY <1>2, <1>3 DEF GoodCmd, Shaped
<1>5. GoodCmd(d, proc, owner)
  <2>1. CASE c.copy = NoRecord
    BY <1>2, <1>3, <1>4, <2>1, GoesOn
  <2>2. CASE s = c.step
    <3>1. d = Idle \/ d = e
      BY <1>3, <1>4, <2>2 DEF At, GoodCmd, Command
    <3> QED
      BY <1>4, <3>1, IdleGood
  <2> QED
    BY <1>2, <2>1, <2>2
<1>6. NoRecord \in Content /\ SoundIn(NoRecord, i, proc, owner)
  BY CommandValues DEF Content, SoundIn
<1> HIDE DEF d
<1> QED
  BY <1>1, <1>5, <1>6, Filed

(* CreateReplaces: the file of a namesake says nothing any more.           *)
LEMMA CreateReplacesInv ==
    ASSUME CmdInv, NEW k \in Cmds, CreateReplaces(k) PROVE CmdInv'
<1>1. PICK i \in Ids : Unlinked(k, i, "Each")
  BY DEF CreateReplaces
<1>2. cmd[k].step = "Each" /\ GoodCmd(cmd[k], proc, owner)
  BY DEF CreateReplaces, CmdInv, CmdsGood
<1>3. cmd[k].fd = "none" /\ "Each" \in Steps \ {"Write", "Update"}
  BY <1>2 DEF GoodCmd, Shaped, Command, Steps
<1> QED
  BY <1>1, <1>2, <1>3, UnlinkedInv

(* Unlink: the same of a container that is removed.                        *)
LEMMA UnlinkInv ==
    ASSUME CmdInv, NEW k \in Cmds, Unlink(k) PROVE CmdInv'
<1>1. cmd[k].step = "Unlink" /\ Unlinked(k, cmd[k].id, AfterDelete(cmd[k]))
      /\ GoodCmd(cmd[k], proc, owner)
  BY DEF Unlink, CmdInv, CmdsGood
<1>2. cmd[k].fd = "none" /\ cmd[k].copy = NoRecord
  BY <1>1 DEF GoodCmd, Shaped
<1>3. AfterDelete(cmd[k]) \in Steps \ {"Write", "Update"}
  BY DEF AfterDelete, Steps
<1> QED
  BY <1>1, <1>2, <1>3, UnlinkedInv

(* EachDone: from the list on to the file, the copy is the new record.     *)
LEMMA EachDoneInv ==
    ASSUME CmdInv, NEW k \in Cmds, EachDone(k) PROVE CmdInv'
<1> DEFINE c == cmd[k]
           after == IF c.op = "create" THEN "Idle" ELSE "Launch"
           e == [c EXCEPT !.next = after]
           d == At(e, c.next)
<1>1. c.step = "Each" /\ cmd' = [cmd EXCEPT ![k] = d]
      /\ UNCHANGED <<file, fresh, proc, owner, parent, menu, deaths, overlapped>>
  BY DEF EachDone
<1>2. GoodCmd(c, proc, owner) /\ overlapped \in BOOLEAN
  BY DEF CmdInv, CmdsGood, RestTyped
<1>3. after \in Steps \ {"Write", "Update"}
  BY DEF Steps
<1> HIDE DEF c, after
<1>4. c.fd = "none" /\ c.next \in Steps \ {"Write", "Update"}
  BY <1>1, <1>2 DEF GoodCmd, Shaped, Command
<1>5. GoodCmd(d, proc, owner)
  <2>1. CASE c.next = "Idle"
    BY <2>1, IdleGood DEF At
  <2>2. CASE c.next # "Idle"
    <3> DEFINE f == [e EXCEPT !.step = c.next]
    <3>1. d = f
      BY <2>2 DEF At
    <3>2. /\ f \in Command /\ f.step = c.next /\ f.copy = c.copy /\ f.id = c.id /\ f.fd = "none"
          /\ f.made = c.made /\ f.next = after
      BY <1>2, <1>3, <1>4 DEF Command, GoodCmd
    <3>3. c.copy # NoRecord => c.next = "Truncate"
      BY <1>1, <1>2, <2>2 DEF GoodCmd, Shaped
    <3> HIDE DEF f
    <3>4. GoodCmd(f, proc, owner)
      BY <1>2, <1>3, <1>4, <3>2, <3>3 DEF GoodCmd, Shaped
    <3> QED
      BY <3>1, <3>4
  <2> QED
    BY <2>1, <2>2
<1> HIDE DEF d
<1> QED
  BY <1>1, <1>2, <1>5, OnlyThis

\* No process has been given twice: the one that is launched is in no record.
LEMMA LaunchInv ==
    ASSUME CmdInv, NEW k \in Cmds, Launch(k) PROVE CmdInv'
<1> DEFINE c == cmd[k]
           next == IF c.op \in {"run", "run_rm"} THEN "Wait" ELSE "Leave"
<1>1. PICK p \in Pids, native \in BOOLEAN :
        /\ IsFirst(p, {q \in menu.pids : proc[q] = "none"})
        /\ proc' = [proc EXCEPT ![p] = "alive"]
        /\ owner' = [owner EXCEPT ![p] = c.id]
        /\ parent' = [parent EXCEPT ![p] = IF native THEN k ELSE NoCmd]
        /\ cmd' = [cmd EXCEPT ![k] = Updating([c EXCEPT !.made = p], c.id, "running", next)]
  BY DEF Launch
<1>2. c.step = "Launch" /\ UNCHANGED <<file, fresh, menu, deaths, overlapped>>
  BY DEF Launch
<1>3. proc[p] = "none"
  BY <1>1 DEF IsFirst
<1>4. Later(proc, owner, proc', owner') /\ proc'[p] = "alive" /\ owner'[p] = c.id
  BY <1>1, <1>3 DEF Later, CmdInv, RestTyped
<1>5. GoodCmd(c, proc', owner')
  BY <1>4, StaysGood DEF CmdInv, CmdsGood
<1>6. next \in Steps \ {"Write", "Update"}
  BY DEF Steps
<1> HIDE DEF c, next
<1> DEFINE e == [c EXCEPT !.made = p]
<1>7. /\ e \in Command /\ e.step = c.step /\ e.copy = c.copy /\ e.id = c.id /\ e.fd = c.fd
      /\ e.made = p /\ e.next = c.next /\ e.mark = c.mark /\ e.op = c.op
  BY <1>5 DEF Command, GoodCmd
<1>8. c.copy = NoRecord /\ c.fd = "none" /\ c.id \in Ids \cup {NoId}
  BY <1>2, <1>5 DEF GoodCmd, Shaped, Command
<1> HIDE DEF e
<1>9. GoodCmd(e, proc', owner')
  BY <1>2, <1>4, <1>5, <1>7 DEF GoodCmd, Shaped
<1>10. GoodCmd(Updating(e, c.id, "running", next), proc', owner')
  <2>1. "running" \in Marks \ {"none"} /\ p # NoPid
    BY NoPidIsNone DEF Marks
  <2> QED
    BY <1>4, <1>6, <1>7, <1>8, <1>9, <2>1, UpdatingGood
<1>11. RestTyped'
  <2>1. owner' \in [Pids -> Ids \cup {NoId}] /\ parent' \in [Pids -> Cmds \cup {NoCmd}]
        /\ proc' \in [Pids -> {"none", "alive", "gone"}]
    BY <1>1, <1>8 DEF CmdInv, RestTyped
  <2> QED
    BY <1>2, <2>1 DEF CmdInv, RestTyped
<1>12. cmd' = [cmd EXCEPT ![k] = Updating(e, c.id, "running", next)]
  BY <1>1 DEF e
<1> QED
  BY <1>2, <1>4, <1>10, <1>11, <1>12, Moved

(* LaunchFails: the command ends.                                          *)
LEMMA LaunchFailsInv ==
    ASSUME CmdInv, NEW k \in Cmds, LaunchFails(k) PROVE CmdInv'
<1>1. cmd' = [cmd EXCEPT ![k] = Idle] /\ overlapped' \in BOOLEAN
  BY DEF LaunchFails, Goto, At, CmdInv, RestTyped
<1> QED
  BY <1>1, IdleGood, OnlyThis DEF LaunchFails

(* Exited: the update to come takes a process away and names none.         *)
LEMMA ExitedInv ==
    ASSUME CmdInv, NEW k \in Cmds, Exited(k) PROVE CmdInv'
<1> DEFINE c == cmd[k]
           e == [c EXCEPT !.ref = c.id]
           next == IF c.op = "run_rm" THEN "Delete" ELSE "Idle"
           d == Updating(e, c.id, "exited", next)
<1>1. c.step = "Wait" /\ cmd' = [cmd EXCEPT ![k] = d]
      /\ UNCHANGED <<file, fresh, proc, owner, parent, menu, deaths>>
  BY DEF Exited
<1>2. GoodCmd(c, proc, owner) /\ overlapped' \in BOOLEAN
  BY DEF CmdInv, CmdsGood, RestTyped, Exited, Works
<1>3. next \in Steps \ {"Write", "Update"} /\ "exited" \in Marks \ {"none"}
  BY DEF Steps, Marks
<1> HIDE DEF c, next
<1>4. /\ c.copy = NoRecord /\ c.fd = "none" /\ c.id \in Ids \cup {NoId}
      /\ c.id \in Refs \cup {NoId}
  BY <1>1, <1>2 DEF GoodCmd, Shaped, Command, Refs
<1>5. /\ e \in Command /\ e.step = c.step /\ e.copy = c.copy /\ e.id = c.id /\ e.fd = c.fd
      /\ e.made = c.made /\ e.next = c.next /\ e.mark = c.mark /\ e.op = c.op
  BY <1>2, <1>4 DEF Command, GoodCmd
<1> HIDE DEF e
<1>6. GoodCmd(e, proc, owner)
  BY <1>2, <1>5 DEF GoodCmd, Shaped
<1>7. GoodCmd(d, proc, owner)
  BY <1>3, <1>4, <1>5, <1>6, UpdatingGood
<1> HIDE DEF d
<1> QED
  BY <1>1, <1>2, <1>7, OnlyThis

(* GoroutineWakes: the same of the goroutine of run -d and start.          *)
LEMMA GoroutineWakesInv ==
    ASSUME CmdInv, NEW k \in Cmds, GoroutineWakes(k) PROVE CmdInv'
<1> DEFINE c == cmd[k]
           e == [c EXCEPT !.ref = c.id]
           m == IF c.op = "run_d" THEN "exited" ELSE "gone"
<1>1. PICK rm \in {FALSE, c.op = "run_d"} :
        cmd' = [cmd EXCEPT ![k] = Updating(e, c.id, m, IF rm THEN "Delete" ELSE "Idle")]
  BY DEF GoroutineWakes
<1> DEFINE next == IF rm THEN "Delete" ELSE "Idle"
           d == Updating(e, c.id, m, next)
<1>2. c.step = "Leave" /\ cmd' = [cmd EXCEPT ![k] = d]
      /\ UNCHANGED <<file, fresh, proc, owner, parent, menu, deaths>>
  BY <1>1 DEF GoroutineWakes
<1>3. GoodCmd(c, proc, owner) /\ overlapped' \in BOOLEAN
  BY DEF CmdInv, CmdsGood, RestTyped, GoroutineWakes, Works
<1>4. next \in Steps \ {"Write", "Update"} /\ m \in Marks \ {"none", "running"}
  BY DEF Steps, Marks
<1> HIDE DEF c, m, next
<1>5. /\ c.copy = NoRecord /\ c.fd = "none" /\ c.id \in Ids \cup {NoId}
      /\ c.id \in Refs \cup {NoId}
  BY <1>2, <1>3 DEF GoodCmd, Shaped, Command, Refs
<1>6. /\ e \in Command /\ e.step = c.step /\ e.copy = c.copy /\ e.id = c.id /\ e.fd = c.fd
      /\ e.made = c.made /\ e.next = c.next /\ e.mark = c.mark /\ e.op = c.op
  BY <1>3, <1>5 DEF Command, GoodCmd
<1> HIDE DEF e
<1>7. GoodCmd(e, proc, owner)
  BY <1>3, <1>6 DEF GoodCmd, Shaped
<1>8. GoodCmd(d, proc, owner)
  BY <1>4, <1>5, <1>6, <1>7, UpdatingGood
<1> HIDE DEF d
<1> QED
  BY <1>2, <1>3, <1>8, OnlyThis

\* A command without a copy that takes another container, or another step.
LEMMA TakesUp ==
    ASSUME CmdInv, NEW k \in Cmds, NEW d, cmd[k].copy = NoRecord,
           NEW s \in Steps \ {"Write", "Update"}, NEW i \in Ids, cmd[k].fd = "none",
           d = [cmd[k] EXCEPT !.step = s, !.id = i]
    PROVE  GoodCmd(d, proc, owner)
<1> DEFINE c == cmd[k]
<1>1. GoodCmd(c, proc, owner) /\ c.copy = NoRecord /\ c.fd = "none"
      /\ d = [c EXCEPT !.step = s, !.id = i]
  BY DEF CmdInv, CmdsGood
<1> HIDE DEF c
<1>2. /\ d \in Command /\ d.step = s /\ d.copy = NoRecord /\ d.id = i /\ d.fd = "none"
      /\ d.made = c.made /\ d.next = c.next
  BY <1>1 DEF Command, GoodCmd
<1> QED
  BY <1>1, <1>2, CommandValues DEF GoodCmd, Shaped, SoundIn

\* What a step other than these begins with.
LEMMA EmptyHanded ==
    ASSUME CmdInv, NEW k \in Cmds, cmd[k].step \notin {"Each", "Truncate", "Write"}
    PROVE  /\ GoodCmd(cmd[k], proc, owner) /\ cmd[k].copy = NoRecord /\ cmd[k].fd = "none"
           /\ overlapped \in BOOLEAN
BY DEF CmdInv, CmdsGood, RestTyped, GoodCmd, Shaped

(* RestartStarts: on to the launch, or to the end.                         *)
LEMMA RestartStartsInv ==
    ASSUME CmdInv, NEW k \in Cmds, RestartStarts(k) PROVE CmdInv'
<1> DEFINE c == cmd[k]
<1>1. c.step = "Start" /\ UNCHANGED <<file, fresh, proc, owner, parent, menu, deaths, overlapped>>
  BY DEF RestartStarts
<1>2. GoodCmd(c, proc, owner) /\ c.copy = NoRecord /\ c.fd = "none" /\ overlapped' \in BOOLEAN
  BY <1>1, EmptyHanded
<1>3. "Launch" \in Steps \ {"Write", "Update"}
  BY DEF Steps
<1>4. CASE \E i \in Get(c.ref) : cmd' = [cmd EXCEPT ![k].step = "Launch", ![k].id = i]
  <2>1. PICK i \in Get(c.ref) : cmd' = [cmd EXCEPT ![k].step = "Launch", ![k].id = i]
    BY <1>4
  <2> DEFINE d == [c EXCEPT !.step = "Launch", !.id = i]
  <2>2. cmd' = [cmd EXCEPT ![k] = d]
    BY <2>1 DEF CmdInv, CmdsGood
  <2>3. GoodCmd(d, proc, owner)
    BY <1>2, <1>3, GetFinds, TakesUp
  <2> HIDE DEF d
  <2> QED
    BY <1>1, <1>2, <2>2, <2>3, OnlyThis
<1>5. CASE Goto(k, "Idle")
  <2>1. cmd' = [cmd EXCEPT ![k] = Idle]
    BY <1>5 DEF Goto, At
  <2> QED
    BY <1>1, <1>2, <2>1, IdleGood, OnlyThis
<1> QED
  BY <1>4, <1>5 DEF RestartStarts

(* Delete: on to the removal of what is found, or past it.                 *)
LEMMA DeleteInv ==
    ASSUME CmdInv, NEW k \in Cmds, Delete(k) PROVE CmdInv'
<1> DEFINE c == cmd[k]
<1>1. c.step = "Delete" /\ UNCHANGED <<file, fresh, proc, owner, parent, menu, deaths, overlapped>>
  BY DEF Delete
<1>2. GoodCmd(c, proc, owner) /\ c.copy = NoRecord /\ c.fd = "none" /\ overlapped' \in BOOLEAN
  BY <1>1, EmptyHanded
<1>3. "Unlink" \in Steps \ {"Write", "Update"} /\ AfterDelete(c) \in Steps \ {"Write", "Update"}
  BY DEF Steps, AfterDelete
<1>4. CASE \E i \in Get(c.ref) : cmd' = [cmd EXCEPT ![k].step = "Unlink", ![k].id = i]
  <2>1. PICK i \in Get(c.ref) : cmd' = [cmd EXCEPT ![k].step = "Unlink", ![k].id = i]
    BY <1>4
  <2> DEFINE d == [c EXCEPT !.step = "Unlink", !.id = i]
  <2>2. cmd' = [cmd EXCEPT ![k] = d]
    BY <2>1 DEF CmdInv, CmdsGood
  <2>3. GoodCmd(d, proc, owner)
    BY <1>2, <1>3, GetFinds, TakesUp
  <2> HIDE DEF d
  <2> QED
    BY <1>1, <1>2, <2>2, <2>3, OnlyThis
<1>5. CASE Goto(k, AfterDelete(c))
  <2>1. cmd' = [cmd EXCEPT ![k] = At(c, AfterDelete(c))]
    BY <1>5 DEF Goto
  <2>2. GoodCmd(At(c, AfterDelete(c)), proc, owner)
    BY <1>2, <1>3, GoesOn
  <2> QED
    BY <1>1, <1>2, <2>1, <2>2, OnlyThis
<1> QED
  BY <1>4, <1>5 DEF Delete

(* PruneNext: on to the next of the list.                                  *)
LEMMA PruneNextInv ==
    ASSUME CmdInv, NEW k \in Cmds, PruneNext(k) PROVE CmdInv'
<1> DEFINE c == cmd[k]
<1>1. PICK i \in Ids :
        cmd' = [cmd EXCEPT ![k].step = "Delete", ![k].ref = i, ![k].todo = @ \ {i}]
  BY DEF PruneNext
<1>2. c.step = "Each" /\ c.op = "prune"
      /\ UNCHANGED <<file, fresh, proc, owner, parent, menu, deaths, overlapped>>
  BY DEF PruneNext
<1>3. GoodCmd(c, proc, owner) /\ overlapped' \in BOOLEAN
  BY <1>2 DEF CmdInv, CmdsGood, RestTyped
<1> DEFINE d == [c EXCEPT !.step = "Delete", !.ref = i, !.todo = @ \ {i}]
<1>4. cmd' = [cmd EXCEPT ![k] = d]
  BY <1>1 DEF CmdInv, CmdsGood
<1> HIDE DEF c
<1>5. c.copy = NoRecord /\ c.fd = "none" /\ i \in Refs /\ "Delete" \in Steps
  BY <1>2, <1>3 DEF GoodCmd, Shaped, Creating, Refs, Steps
<1>6. /\ d \in Command /\ d.step = "Delete" /\ d.copy = NoRecord /\ d.fd = "none"
      /\ d.made = c.made /\ d.next = c.next
  BY <1>3, <1>5 DEF Command, GoodCmd
<1> HIDE DEF d
<1>7. GoodCmd(d, proc, owner)
  BY <1>3, <1>6, CommandValues DEF GoodCmd, Shaped, SoundIn
<1> QED
  BY <1>2, <1>3, <1>4, <1>7, OnlyThis

(* Poll: wait goes on, reports or ends.                                    *)
LEMMA PollInv ==
    ASSUME CmdInv, NEW k \in Cmds, Poll(k) PROVE CmdInv'
<1> DEFINE c == cmd[k]
<1>1. c.step = "Poll" /\ UNCHANGED <<file, fresh, proc, owner, parent, menu, deaths, overlapped>>
  BY DEF Poll
<1>2. GoodCmd(c, proc, owner) /\ c.copy = NoRecord /\ c.fd = "none" /\ overlapped' \in BOOLEAN
  BY <1>1, EmptyHanded
<1>3. CASE \E i \in Get(c.ref) : cmd' = [cmd EXCEPT ![k].id = i]
  <2>1. PICK i \in Get(c.ref) : cmd' = [cmd EXCEPT ![k].id = i]
    BY <1>3
  <2> DEFINE d == [c EXCEPT !.step = "Poll", !.id = i]
  <2>2. cmd' = [cmd EXCEPT ![k] = d]
    BY <1>1, <1>2, <2>1 DEF CmdInv, CmdsGood, Command
  <2>3. GoodCmd(d, proc, owner)
    <3>1. "Poll" \in Steps \ {"Write", "Update"}
      BY DEF Steps
    <3> QED
      BY <1>2, <3>1, GetFinds, TakesUp
  <2> HIDE DEF d
  <2> QED
    BY <1>1, <1>2, <2>2, <2>3, OnlyThis
<1>4. ASSUME NEW s \in {"Idle", "Report"}, Goto(k, s) PROVE CmdInv'
  <2>1. cmd' = [cmd EXCEPT ![k] = At(c, s)] /\ s \in Steps \ {"Write", "Update"}
    BY <1>4 DEF Goto, Steps
  <2>2. GoodCmd(At(c, s), proc, owner)
    BY <1>2, <2>1, GoesOn
  <2> QED
    BY <1>1, <1>2, <2>1, <2>2, OnlyThis
<1> QED
  BY <1>3, <1>4 DEF Poll

(* Report: what is left of the command is its end.                         *)
LEMMA ReportInv ==
    ASSUME CmdInv, NEW k \in Cmds, Report(k) PROVE CmdInv'
<1>1. cmd' = [cmd EXCEPT ![k] = Idle] /\ overlapped' \in BOOLEAN
  BY DEF Report, Goto, At, CmdInv, RestTyped
<1> QED
  BY <1>1, IdleGood, OnlyThis DEF Report

\* The end of a command takes the processes along that do not survive it.
LEMMA LeavesInv ==
    ASSUME CmdInv, NEW k \in Cmds, Leaves(k), deaths' \in Nat,
           UNCHANGED <<file, fresh, owner, menu, overlapped>>
    PROVE  CmdInv'
<1>1. /\ cmd' = [cmd EXCEPT ![k] = Idle]
      /\ proc' = [p \in Pids |-> IF parent[p] = k THEN "gone" ELSE proc[p]]
      /\ parent' = [p \in Pids |-> IF parent[p] = k THEN NoCmd ELSE parent[p]]
  BY DEF Leaves
<1>2. Later(proc, owner, proc', owner')
  BY <1>1 DEF Later
<1>3. RestTyped'
  <2>1. proc' \in [Pids -> {"none", "alive", "gone"}]
    BY <1>1 DEF CmdInv, RestTyped
  <2>2. parent' \in [Pids -> Cmds \cup {NoCmd}]
    BY <1>1 DEF CmdInv, RestTyped
  <2> QED
    BY <2>1, <2>2 DEF CmdInv, RestTyped
<1> QED
  BY <1>1, <1>2, <1>3, IdleGood, Moved

(* ProcExit: a process ends and keeps its owner.                           *)
LEMMA ProcExitInv ==
    ASSUME CmdInv, NEW p \in Pids, ProcExit(p) PROVE CmdInv'
<1>1. /\ proc' = [proc EXCEPT ![p] = "gone"]
      /\ UNCHANGED <<file, fresh, owner, parent, cmd, menu, deaths, overlapped>>
  BY DEF ProcExit
<1>2. Later(proc, owner, proc', owner')
  BY <1>1 DEF Later, CmdInv, RestTyped
<1>3. RestTyped'
  BY <1>1 DEF CmdInv, RestTyped
<1>4. FilesGood'
  <2>1. \A i \in Ids : SoundIn(file[i], i, proc', owner')
    BY <1>2, StaysSound DEF CmdInv, FilesGood
  <2> QED
    BY <1>1, <2>1 DEF CmdInv, FilesGood
<1>5. CmdsGood'
  <2>1. \A k \in Cmds : GoodCmd(cmd[k], proc', owner')
    BY <1>2, StaysGood DEF CmdInv, CmdsGood
  <2> QED
    BY <1>1, <2>1 DEF CmdInv, CmdsGood
<1> QED
  BY <1>3, <1>4, <1>5 DEF CmdInv

-----------------------------------------------------------------------------

(* Every step keeps the invariant.                                         *)
LEMMA CmdInvStep == CmdInv /\ [Next]_vars => CmdInv'
<1> SUFFICES ASSUME CmdInv, [Next]_vars PROVE CmdInv'
  OBVIOUS
<1>1. ASSUME NEW k \in Cmds, Begin(k) PROVE CmdInv'
  BY <1>1, CreateBeginInv, StartBeginInv, StopBeginInv, KillBeginInv, PauseBeginInv,
     RenameBeginInv, RmBeginInv, PruneBeginInv, WaitBeginInv DEF Begin
<1>2. ASSUME NEW k \in Cmds, Leave(k) PROVE CmdInv'
  BY <1>2, LeavesInv DEF Leave, CmdInv, RestTyped
<1>3. ASSUME NEW k \in Cmds, Step(k) PROVE CmdInv'
  BY <1>2, <1>3, TruncateInv, WriteInv, UpdateInv, CreateReplacesInv, EachDoneInv, LaunchInv,
     LaunchFailsInv, ExitedInv, GoroutineWakesInv, RestartStartsInv, DeleteInv, UnlinkInv,
     PruneNextInv, PollInv, ReportInv DEF Step
<1>4. ASSUME NEW k \in Cmds, Die(k) PROVE CmdInv'
  BY <1>4, LeavesInv DEF Die, CmdInv, RestTyped
<1>5. ASSUME NEW p \in Pids, ProcExit(p) PROVE CmdInv'
  BY <1>5, ProcExitInv
<1>6. CASE UNCHANGED vars
  BY <1>6 DEF vars, CmdInv, RestTyped, CmdsGood, FilesGood
<1> QED
  BY <1>1, <1>3, <1>4, <1>5, <1>6 DEF Next

(* It holds in every state.                                                *)
LEMMA CommandsInvariant == Spec => []CmdInv
BY InitInv, CmdInvStep, PTL DEF Spec

(* It says what TypeOK says.                                               *)
LEMMA InvTyped == CmdInv => TypeOK
BY DEF CmdInv, RestTyped, CmdsGood, FilesGood, TypeOK

(* And of every file what RecordSound says.                                *)
LEMMA InvSound == CmdInv => RecordSound
BY DEF CmdInv, CmdsGood, FilesGood, GoodCmd, SoundIn, RecordSound, Sound

(* Record files stay absent, torn or records, and the commands what        *)
(* main.go gives them, for any containers, commands, names, processes,     *)
(* menus and number of kills.                                              *)
THEOREM CommandsTyped == Spec => []TypeOK
BY CommandsInvariant, InvTyped, PTL

(* In whatever order commands truncate, write and unlink each other's      *)
(* files, and wherever they are killed, a record that can be read names no *)
(* process of another container, and says it runs only with a pid and a    *)
(* status that go with it.                                                 *)
THEOREM CommandsSound == Spec => []RecordSound
BY CommandsInvariant, InvSound, PTL

-----------------------------------------------------------------------------
(* Orderly says nothing of commands at work.  What follows does, for the   *)
(* behaviours it is about: no two commands at work at once, none killed.   *)

Quiet == ~overlapped /\ deaths = 0
Mild == menu.ops \cap {"run_d", "start", "restart"} = {}
Gentle == menu.ops \cap {"stop", "restart"} = {}
AtFile == {"Truncate", "Write"}
Writing(k, i) == cmd[k].step \in AtFile /\ cmd[k].id = i
Runs(r, p) == r \in Record /\ r.running /\ r.pid = p

\* The record of i, or the one a command is about to write over it, says that
\* p runs.
Told(i, p) ==
    IF \E k \in Cmds : Writing(k, i) THEN \E k \in Cmds : Writing(k, i) /\ Runs(cmd[k].copy, p)
    ELSE Runs(file[i], p)

Resting(i) == file[i] \in Record /\ ~file[i].running
Launched(c) == c.step = "Update" /\ c.mark = "running"
Waits(c) == c.step \in {"Wait", "Leave"} \/ (c.step = "Update" /\ c.mark \in {"exited", "gone"})

\* What a command knows of the files, and of what it has yet to do.
Steady(c) ==
    /\ c.step \in {"Launch", "Unlink"} \/ Launched(c) => c.id \in Ids /\ Resting(c.id)
    /\ c.step = "Each" =>
          \/ c.op = "prune"
          \/ /\ c.op \in Creating /\ c.next \in {"Idle", "Truncate"}
             /\ c.id \in Ids /\ file[c.id] = NoRecord
             /\ c.copy \in Record /\ ~c.copy.running
             /\ \A j \in c.todo : Resting(j)
    /\ c.step = "Update" =>
          \/ c.next \in {"Idle", "Delete"}
          \/ Launched(c) /\ c.next \in {"Wait", "Leave"}
    /\ c.step \in AtFile =>
          /\ c.id \in Ids /\ c.copy \in Record
          /\ c.next \in {"Idle", "Delete", "Launch", "Wait", "Leave"}
          /\ c.next \in {"Wait", "Leave"} => Runs(c.copy, c.made)
          /\ c.next = "Launch" \/ c.mark \in {"exited", "gone"} => ~c.copy.running
    /\ c.op = "prune" => c.next = "Idle" /\ c.step # "Launch"
    /\ c.step # "Start" /\ c.mark # "stopped"
    /\ Waits(c) => c.id \in Ids /\ c.made # NoPid
    /\ Waits(c) /\ c.step = "Update" => proc[c.made] = "gone"

OneBusy == Quiet => \A j, k \in Cmds : Busy(j) /\ Busy(k) => j = k
InMenu == \A k \in Cmds : cmd[k].op \in menu.ops \cup {"none"}
StillFresh == \A i \in fresh : file[i] = NoRecord /\ \A k \in Cmds : cmd[k].id # i
OwnProcess == \A j, k \in Cmds : cmd[j].made = cmd[k].made => j = k \/ cmd[j].made = NoPid
CleanWrites == Quiet => \A k \in Cmds : cmd[k].step = "Write" => cmd[k].fd = "clean"
NoneTorn ==
    Quiet /\ Mild =>
        \A i \in Ids : file[i] = Torn => \E k \in Cmds : cmd[k].step = "Write" /\ cmd[k].id = i
NoneLost ==
    Quiet /\ Gentle =>
        /\ \A p \in Pids : proc[p] = "alive" =>
              /\ owner[p] \in Ids
              /\ \/ Told(owner[p], p)
                 \/ \E k \in Cmds : Launched(cmd[k]) /\ cmd[k].made = p /\ cmd[k].id = owner[p]
        /\ \A k \in Cmds : Steady(cmd[k])
        /\ \A k \in Cmds : Waits(cmd[k]) => Told(cmd[k].id, cmd[k].made)

Always == InMenu /\ StillFresh /\ OwnProcess
OrdInv == Always /\ OneBusy /\ CleanWrites /\ NoneTorn /\ NoneLost

\* Told, where c is of the only command that may be at work.
Tells(c, f, i, p) ==
    IF c.step \in AtFile /\ c.id = i THEN Runs(c.copy, p) ELSE Runs(f, p)
Alone(k) == \A j \in Cmds \ {k} : ~Busy(j)

(* What a step has to keep of the fields that say whose a command is.      *)
LEMMA AlwaysStepped ==
    ASSUME Always, NEW k \in Cmds, NEW c, c = cmd[k], NEW d, cmd'[k] = d, CmdInv,
           \A j \in Cmds \ {k} :
              cmd'[j].op = cmd[j].op /\ cmd'[j].id = cmd[j].id /\ cmd'[j].made = cmd[j].made,
           menu' = menu, d.op \in menu.ops \cup {"none"}, fresh' \subseteq fresh,
           \A i \in fresh' : file'[i] = NoRecord,
           d.id = c.id \/ d.id \notin fresh',
           d.made \in {c.made, NoPid} \/ proc[d.made] = "none"
    PROVE  Always'
<1>1. InMenu'
  BY DEF Always, InMenu
<1>2. StillFresh'
  BY DEF Always, StillFresh
<1>3. OwnProcess'
  <2> SUFFICES ASSUME NEW i \in Cmds, NEW j \in Cmds, cmd'[i].made = cmd'[j].made
               PROVE  i = j \/ cmd'[i].made = NoPid
    BY DEF OwnProcess
  <2>1. CASE i # k /\ j # k
    BY <2>1 DEF Always, OwnProcess
  <2>2. ASSUME NEW h \in Cmds \ {k}, cmd[h].made = d.made, d.made # NoPid PROVE FALSE
    <3>1. proc[d.made] # "none"
      BY <2>2 DEF CmdInv, CmdsGood, GoodCmd
    <3>2. d.made = c.made
      BY <2>2, <3>1
    <3> QED
      BY <2>2, <3>2 DEF Always, OwnProcess
  <2>3. CASE i # k /\ j = k
    BY <2>2, <2>3
  <2>4. CASE i = k /\ j # k
    BY <2>2, <2>4
  <2> QED
    BY <2>1, <2>3, <2>4
<1> QED
  BY <1>1, <1>2, <1>3 DEF Always

(* Nothing else is claimed once two have been at work, or one was killed.  *)
LEMMA Loud == Always' /\ ~Quiet' => OrdInv'
BY DEF OrdInv, OneBusy, CleanWrites, NoneTorn, NoneLost

(* Where only k may be at work, only its copy counts.                      *)
LEMMA ToldIs ==
    ASSUME NEW k \in Cmds, Alone(k), NEW i, NEW p
    PROVE  Told(i, p) <=> Tells(cmd[k], file[i], i, p)
BY DEF Alone, Told, Tells, Writing, Busy, AtFile

(* What a command at rest knows depends on no file.                        *)
LEMMA RestsSteady ==
    ASSUME NEW c, c.step \in {"Idle", "Wait", "Leave", "Poll", "Report"}, Steady(c)
    PROVE  Steady(c)'
BY DEF Steady, Launched, Waits, AtFile

(* A step of the only command at work: c before, d after.                  *)
LEMMA OrdStepped ==
    ASSUME OrdInv, Always', NEW k \in Cmds, NEW c, c = cmd[k], NEW d, cmd'[k] = d,
           menu' = menu, CmdInv,
           Quiet' => Quiet /\ Alone(k) /\ \A j \in Cmds \ {k} : cmd'[j] = cmd[j],
           Quiet' /\ d.step = "Write" => d.fd = "clean",
           Quiet' /\ Mild => \A i \in Ids : file'[i] = Torn =>
              \/ d.step = "Write" /\ d.id = i
              \/ file[i] = Torn /\ c.step # "Write",
           Quiet' /\ Gentle =>
              /\ Steady(d)'
              /\ \A i \in Ids, p \in Pids : Tells(c, file[i], i, p) =>
                    Tells(d, file'[i], i, p) \/ (i = c.id /\ p = c.made /\ proc'[p] # "alive")
              /\ \A p \in Pids : proc'[p] = "alive" =>
                    \/ proc[p] = "alive" /\ owner'[p] = owner[p]
                    \/ Launched(d) /\ d.made = p /\ d.id = owner'[p] /\ owner'[p] \in Ids
              /\ Launched(c) => Tells(d, file'[c.id], c.id, c.made)
              /\ Waits(d) => Tells(d, file'[d.id], d.id, d.made)
    PROVE  OrdInv'
<1>1. CASE ~Quiet'
  BY <1>1, Loud
<1>2. CASE Quiet'
  <2>1. Quiet /\ Alone(k) /\ \A j \in Cmds \ {k} : cmd'[j] = cmd[j]
    BY <1>2
  <2>2. \A j \in Cmds \ {k} : ~Busy(j) /\ ~Busy(j)'
    BY <2>1 DEF Alone, Busy
  <2>3. OneBusy'
    BY <2>2 DEF OneBusy
  <2>4. CleanWrites'
    BY <1>2, <2>1, <2>2 DEF CleanWrites, Busy
  <2>5. NoneTorn'
    <3> SUFFICES ASSUME Mild, NEW i \in Ids, file'[i] = Torn
                 PROVE  \E j \in Cmds : cmd'[j].step = "Write" /\ cmd'[j].id = i
      BY <2>1 DEF NoneTorn, Mild
    <3>1. file[i] = Torn => \E j \in Cmds : cmd[j].step = "Write" /\ cmd[j].id = i
      BY <2>1 DEF OrdInv, NoneTorn
    <3>2. file[i] = Torn => c.step = "Write"
      BY <2>2, <3>1 DEF Busy
    <3> QED
      BY <1>2, <3>2
  <2>6. ASSUME Gentle
        PROVE  /\ \A p \in Pids : proc'[p] = "alive" =>
                     /\ owner'[p] \in Ids
                     /\ \/ Told(owner[p], p)'
                        \/ Launched(d) /\ d.made = p /\ d.id = owner'[p]
               /\ \A j \in Cmds : Steady(cmd[j])'
               /\ \A j \in Cmds : Waits(cmd'[j]) => Told(cmd[j].id, cmd[j].made)'
    <3>1. /\ \A i, p : Told(i, p) <=> Tells(c, file[i], i, p)
          /\ \A i, p : Told(i, p)' <=> Tells(d, file'[i], i, p)
      <4>1. Alone(k)'
        BY <2>2 DEF Alone
      <4>2. \A i, p : Told(i, p) <=> Tells(c, file[i], i, p)
        BY <2>1, ToldIs
      <4>3. \A i, p : Told(i, p)' <=> Tells(d, file'[i], i, p)
        BY <4>1 DEF Alone, Told, Tells, Writing, Busy, AtFile
      <4> QED
        BY <4>2, <4>3
    <3>2. ASSUME NEW p \in Pids, proc'[p] = "alive"
          PROVE  /\ owner'[p] \in Ids
                 /\ \/ Told(owner[p], p)'
                    \/ Launched(d) /\ d.made = p /\ d.id = owner'[p]
      <4>1. CASE Launched(d) /\ d.made = p /\ d.id = owner'[p] /\ owner'[p] \in Ids
        BY <4>1
      <4>2. CASE proc[p] = "alive" /\ owner'[p] = owner[p]
        <5>1. /\ owner[p] \in Ids
              /\ \/ Told(owner[p], p)
                 \/ \E j \in Cmds : Launched(cmd[j]) /\ cmd[j].made = p /\ cmd[j].id = owner[p]
          BY <2>1, <2>6, <4>2 DEF OrdInv, NoneLost
        <5>2. CASE Told(owner[p], p)
          BY <1>2, <2>6, <3>1, <3>2, <4>2, <5>1, <5>2
        <5>3. CASE \E j \in Cmds : Launched(cmd[j]) /\ cmd[j].made = p /\ cmd[j].id = owner[p]
          <6>1. Launched(c) /\ c.made = p /\ c.id = owner[p]
            BY <2>2, <5>3 DEF Launched, Busy
          <6> QED
            BY <1>2, <2>6, <3>1, <4>2, <5>1, <6>1
        <5> QED
          BY <5>1, <5>2, <5>3
      <4> QED
        BY <1>2, <2>6, <3>2, <4>1, <4>2
    <3>3. ASSUME NEW j \in Cmds
          PROVE  Steady(cmd[j])' /\ (Waits(cmd'[j]) => Told(cmd[j].id, cmd[j].made)')
      <4>1. CASE j = k
        BY <1>2, <2>6, <3>1, <4>1
      <4>2. CASE j # k
        <5>1. PICK e : e = cmd[j]
          OBVIOUS
        <5>2. /\ Steady(e) /\ cmd'[j] = e
              /\ e.step \in {"Idle", "Wait", "Leave", "Poll", "Report"}
          BY <2>1, <2>2, <2>6, <4>2, <5>1 DEF OrdInv, NoneLost, Busy
        <5>3. Steady(e)'
          BY <5>2, RestsSteady
        <5>4. Steady(cmd[j])'
          BY <5>2, <5>3
        <5>5. ASSUME Waits(e) PROVE Told(e.id, e.made)'
          <6>1. Told(e.id, e.made) /\ e.id \in Ids /\ e.made # NoPid
            BY <2>1, <2>6, <5>1, <5>2, <5>5 DEF OrdInv, NoneLost, Steady
          <6>2. e.made # c.made
            BY <4>2, <5>1, <6>1 DEF OrdInv, Always, OwnProcess
          <6>3. e.made \in Pids
            BY <5>1, <6>1 DEF CmdInv, CmdsGood, Command
          <6> QED
            BY <1>2, <2>6, <3>1, <6>1, <6>2, <6>3
        <5>6. Waits(e) => Told(cmd[j].id, cmd[j].made)'
          BY <5>2, <5>5
        <5> QED
          BY <5>2, <5>4, <5>6
      <4> QED
        BY <4>1, <4>2
    <3> QED
      BY <3>2, <3>3
  <2>7. NoneLost'
    BY <2>1, <2>6 DEF NoneLost, Gentle
  <2> QED
    BY <2>3, <2>4, <2>5, <2>7 DEF OrdInv
<1> QED
  BY <1>1, <1>2

(* A step that changes no file, of no command that is at one.              *)
LEMMA OrdMoved ==
    ASSUME OrdInv, NEW k \in Cmds, NEW c, c = cmd[k], NEW d, cmd' = [cmd EXCEPT ![k] = d],
           CmdInv, menu' = menu, file' = file, owner' = owner, fresh' \subseteq fresh,
           Quiet' => Quiet /\ Alone(k),
           d.op \in menu.ops \cup {"none"}, d.id = c.id \/ d.id \notin fresh',
           d.made \in {c.made, NoPid},
           \A p \in Pids : proc'[p] = "alive" => proc[p] = "alive",
           d.step \notin AtFile, c.step \notin AtFile, ~Launched(c),
           Quiet' /\ Gentle =>
              Steady(d)' /\ (Waits(d) => Waits(c) /\ d.id = c.id /\ d.made = c.made)
    PROVE  OrdInv'
<1>1. cmd'[k] = d /\ \A j \in Cmds \ {k} : cmd'[j] = cmd[j]
  BY DEF CmdInv, CmdsGood
<1>2. Always'
  BY <1>1, AlwaysStepped DEF OrdInv, Always, StillFresh
<1>3. Quiet' /\ Mild => \A i \in Ids : file'[i] = Torn => file[i] = Torn /\ c.step # "Write"
  BY DEF AtFile
<1>4. \A i, p : Tells(c, file[i], i, p) <=> Tells(d, file'[i], i, p)
  BY DEF Tells
<1>5. Quiet' /\ Gentle /\ Waits(d) => Tells(d, file'[d.id], d.id, d.made)
  <2> SUFFICES ASSUME Quiet', Gentle, Waits(d) PROVE Tells(d, file'[d.id], d.id, d.made)
    OBVIOUS
  <2>1. Told(c.id, c.made) /\ Alone(k)
    BY DEF OrdInv, NoneLost
  <2>2. Tells(c, file[c.id], c.id, c.made)
    BY <2>1, ToldIs
  <2> QED
    BY <1>4, <2>2
<1>6. d.step # "Write"
  BY DEF AtFile
<1>7. Quiet' /\ Gentle => \A p \in Pids : proc'[p] = "alive" =>
                                proc[p] = "alive" /\ owner'[p] = owner[p]
  OBVIOUS
<1>8. Quiet' => Quiet /\ Alone(k) /\ \A j \in Cmds \ {k} : cmd'[j] = cmd[j]
  BY <1>1
<1> HIDE DEF OrdInv, CmdInv, Always
<1>9. cmd'[k] = d
  BY <1>1
<1> QED
  BY <1>2, <1>3, <1>4, <1>5, <1>6, <1>7, <1>8, <1>9, OrdStepped

(* A command that is at work is alone, or others have been before.         *)
LEMMA AtWorkAlone ==
    ASSUME OrdInv, NEW k \in Cmds, Busy(k)
    PROVE  Quiet => Alone(k)
BY DEF OrdInv, OneBusy, Alone

(* So is one that begins to work.                                          *)
LEMMA BeginsAlone ==
    ASSUME NEW k \in Cmds, Works(k), deaths' = deaths
    PROVE  Quiet' => Quiet /\ Alone(k)
BY DEF Works, Quiet, Alone

(* Steps of processes, and of commands that work on nothing.               *)
LEMMA OrdStill ==
    ASSUME OrdInv, CmdInv, CmdInv', Always', UNCHANGED <<file, menu, deaths, owner>>,
           Quiet' => Quiet,
           \A p \in Pids : (proc'[p] = "alive" => proc[p] = "alive")
                           /\ (proc[p] = "gone" => proc'[p] = "gone"),
           \A k \in Cmds : \/ cmd'[k] = cmd[k]
                           \/ /\ ~Busy(k) /\ cmd'[k].step \in {"Idle", "Poll", "Report"}
                              /\ Steady(cmd[k]) => Steady(cmd[k])'
    PROVE  OrdInv'
<1>1. CASE ~Quiet'
  BY <1>1, Loud
<1>2. CASE Quiet'
  <2>1. Quiet
    BY <1>2
  <2>2. \A k \in Cmds : (Busy(k)' <=> Busy(k)) /\ (Busy(k)' => cmd'[k] = cmd[k])
    BY DEF Busy
  <2>3. \A k \in Cmds : \A i : Writing(k, i)' <=> Writing(k, i)
    BY <2>2 DEF Writing, Busy, AtFile
  <2>4. \A i, p : Told(i, p)' <=> Told(i, p)
    <3>1. \A k \in Cmds : \A i : Writing(k, i)' => cmd'[k] = cmd[k]
      BY <2>2 DEF Writing, Busy, AtFile
    <3> QED
      BY <2>3, <3>1 DEF Told
  <2>5. OneBusy'
    BY <2>1, <2>2 DEF OrdInv, OneBusy
  <2>6. CleanWrites'
    BY <2>1, <2>2 DEF OrdInv, CleanWrites, Busy
  <2>7. NoneTorn'
    <3> SUFFICES ASSUME Mild, NEW i \in Ids, file'[i] = Torn
                 PROVE  \E j \in Cmds : cmd'[j].step = "Write" /\ cmd'[j].id = i
      BY <2>1 DEF NoneTorn, Mild
    <3>1. PICK j \in Cmds : cmd[j].step = "Write" /\ cmd[j].id = i
      BY <2>1 DEF OrdInv, NoneTorn
    <3>2. cmd'[j] = cmd[j]
      BY <2>2, <3>1 DEF Busy
    <3> QED
      BY <3>1, <3>2
  <2>8. ASSUME Gentle
        PROVE  /\ \A p \in Pids : proc'[p] = "alive" =>
                     /\ owner'[p] \in Ids
                     /\ \/ Told(owner[p], p)'
                        \/ \E k \in Cmds :
                              Launched(cmd'[k]) /\ cmd'[k].made = p /\ cmd'[k].id = owner'[p]
               /\ \A j \in Cmds : Steady(cmd[j])'
               /\ \A j \in Cmds : Waits(cmd'[j]) => Told(cmd[j].id, cmd[j].made)'
    <3>1. /\ \A p \in Pids : proc[p] = "alive" =>
                /\ owner[p] \in Ids
                /\ \/ Told(owner[p], p)
                   \/ \E k \in Cmds : Launched(cmd[k]) /\ cmd[k].made = p /\ cmd[k].id = owner[p]
          /\ \A k \in Cmds : Steady(cmd[k])
          /\ \A k \in Cmds : Waits(cmd[k]) => Told(cmd[k].id, cmd[k].made)
      BY <2>1, <2>8 DEF OrdInv, NoneLost
    <3>2. \A k \in Cmds : Launched(cmd[k]) => cmd'[k] = cmd[k]
      BY <2>2 DEF Launched, Busy
    <3>3. ASSUME NEW p \in Pids, proc'[p] = "alive"
          PROVE  /\ owner'[p] \in Ids
                 /\ \/ Told(owner[p], p)'
                    \/ \E k \in Cmds :
                          Launched(cmd'[k]) /\ cmd'[k].made = p /\ cmd'[k].id = owner'[p]
      <4>1. CASE Told(owner[p], p)
        BY <2>4, <3>1, <3>3, <4>1
      <4>2. ASSUME NEW k \in Cmds, Launched(cmd[k]), cmd[k].made = p, cmd[k].id = owner[p]
            PROVE  Launched(cmd'[k]) /\ cmd'[k].made = p /\ cmd'[k].id = owner'[p]
        BY <3>2, <4>2
      <4> QED
        BY <3>1, <3>3, <4>1, <4>2
    <3>4. ASSUME NEW j \in Cmds
          PROVE  Steady(cmd[j])'
      <4>1. CASE cmd'[j] = cmd[j]
        <5>1. PICK e : e = cmd[j]
          OBVIOUS
        <5>2. e.made \in Pids \cup {NoPid} /\ Steady(e)
          BY <3>1, <5>1 DEF CmdInv, CmdsGood, Command
        <5>3. Waits(e) => e.made \in Pids
          BY <5>2 DEF Steady
        <5>4. Steady(e)'
          BY <5>2, <5>3 DEF Steady, Resting, Launched, Waits
        <5> QED
          BY <4>1, <5>1, <5>4
      <4> QED
        BY <3>1, <4>1
    <3>5. ASSUME NEW j \in Cmds, Waits(cmd'[j])
          PROVE  Told(cmd[j].id, cmd[j].made)'
      <4>1. cmd'[j] = cmd[j]
        BY <3>5 DEF Waits
      <4> QED
        BY <2>4, <3>1, <3>5, <4>1
    <3> QED
      BY <3>3, <3>4, <3>5
  <2>9. NoneLost'
    BY <2>1, <2>8 DEF NoneLost, Gentle
  <2> QED
    BY <2>5, <2>6, <2>7, <2>9 DEF OrdInv
<1> QED
  BY <1>1, <1>2

(* No command has begun.                                                   *)
LEMMA OrdStart == Init => OrdInv
<1> SUFFICES ASSUME Init PROVE OrdInv
  OBVIOUS
<1>1. \A k \in Cmds : cmd[k] = Idle
  BY DEF Init
<1>2. /\ Idle.step = "Idle" /\ Idle.op = "none" /\ Idle.id = NoId /\ Idle.made = NoPid
      /\ Idle.next = "Idle" /\ Idle.mark = "none"
  BY DEF Idle
<1>3. \A i \in Ids : file[i] # Torn /\ (i \notin Existing => file[i] = NoRecord)
  <2>1. PICK names \in [Existing -> Names] :
           file = [i \in Ids |-> IF i \in Existing THEN NewRecord(names[i]) ELSE NoRecord]
    BY DEF Init
  <2>2. \A n \in Names : NewRecord(n) \in Record
    BY DEF NewRecord, Record, Status
  <2>3. \A i \in Existing : names[i] \in Names
    BY <2>1
  <2> QED
    BY <2>1, <2>2, <2>3, CommandValues, CommandIds
<1>4. Always
  BY <1>1, <1>2, <1>3, CommandIds DEF Always, InMenu, StillFresh, OwnProcess, Init, NoId
<1>5. Steady(Idle) /\ ~Waits(Idle)
  BY <1>2 DEF Steady, Waits, Launched, AtFile
<1>6. OneBusy /\ CleanWrites /\ NoneTorn
  BY <1>1, <1>2, <1>3 DEF OneBusy, Busy, CleanWrites, NoneTorn
<1>7. NoneLost
  BY <1>1, <1>5 DEF NoneLost, Init
<1> QED
  BY <1>4, <1>6, <1>7 DEF OrdInv

-----------------------------------------------------------------------------
(* The steps that begin a command.                                         *)

(* As long as no file changes, what a command knows stays true.            *)
LEMMA SteadySame ==
    ASSUME NEW d, Steady(d), file' = file, ~Waits(d)
    PROVE  Steady(d)'
BY DEF Steady, Resting, Launched, Waits

(* What is found under a reference has long been created.                  *)
LEMMA FoundOld ==
    ASSUME CmdInv, Always, NEW x, NEW i \in Get(x)
    PROVE  i \in Ids /\ i \notin fresh /\ file[i] \in Record
BY GetFinds, CommandValues DEF Always, StillFresh

(* A command that begins and is not yet at a file.                         *)
LEMMA OrdBegun ==
    ASSUME OrdInv, CmdInv, NEW k \in Cmds, NEW d, Accept(k, d),
           UNCHANGED <<file, owner, menu, deaths>>,
           fresh' \subseteq fresh, d.id \notin fresh', d.made = NoPid,
           \A p \in Pids : proc'[p] = "alive" => proc[p] = "alive",
           d.step \notin AtFile, ~Waits(d), Quiet /\ Gentle => Steady(d)
    PROVE  OrdInv'
<1>0. PICK c : c = cmd[k]
  OBVIOUS
<1>1. /\ c = Idle /\ d.op \in menu.ops /\ cmd' = [cmd EXCEPT ![k] = d] /\ Works(k)
  BY <1>0 DEF Accept
<1>2. c.step = "Idle" /\ c.step \notin AtFile /\ ~Launched(c)
  BY <1>1 DEF Idle, AtFile, Launched
<1>3. Quiet' => Quiet /\ Alone(k)
  BY <1>1, BeginsAlone
<1>4. Quiet' /\ Gentle => Steady(d)'
  BY <1>3, SteadySame
<1> QED
  BY <1>0, <1>1, <1>2, <1>3, <1>4, OrdMoved

(* The fields of a command just typed.                                     *)
LEMMA TypedIs ==
    ASSUME NEW op, NEW s, NEW x, NEW i
    PROVE  LET d == Typed(op, s, x, i) IN
           /\ d.op = op /\ d.step = s /\ d.ref = x /\ d.id = i /\ d.made = NoPid
           /\ d.next = "Idle" /\ d.mark = "none" /\ d.todo = {} /\ d.copy = NoRecord
           /\ d.fd = "none"
BY DEF Typed, Idle

(* create and run: alone, every namesake on the list is at rest.           *)
LEMMA CreateBeginOrd ==
    ASSUME OrdInv, CmdInv, NEW k \in Cmds, CreateBegin(k) PROVE OrdInv'
<1>1. PICK op \in Creating, i \in fresh, n \in Names :
        LET up == {j \in Named(n) : file[j].running}
            c == [Typed(op, "Each", n, i) EXCEPT
                    !.todo = {j \in Named(n) : \A u \in up : j < u},
                    !.copy = NewRecord(n),
                    !.next = IF up # {} THEN "Idle" ELSE "Truncate"]
        IN  Accept(k, c) /\ fresh' = fresh \ {i} /\ UNCHANGED <<file, proc, owner, menu, deaths>>
  BY DEF CreateBegin
<1> DEFINE up == {j \in Named(n) : file[j].running}
           todo == {j \in Named(n) : \A u \in up : j < u}
           next == IF up # {} THEN "Idle" ELSE "Truncate"
<1>2. PICK d : d = [Typed(op, "Each", n, i) EXCEPT
                    !.todo = todo, !.copy = NewRecord(n), !.next = next]
  OBVIOUS
<1>3. /\ Accept(k, d) /\ fresh' = fresh \ {i} /\ UNCHANGED <<file, proc, owner, menu, deaths>>
  BY <1>1, <1>2
<1>4. /\ d.op = op /\ d.step = "Each" /\ d.id = i /\ d.made = NoPid /\ d.mark = "none"
      /\ d.todo = todo /\ d.copy = NewRecord(n) /\ d.next = next
  BY <1>2 DEF Typed, Idle
<1>5. next \in {"Idle", "Truncate"}
  OBVIOUS
<1>6. \A j \in todo : Resting(j)
  <2> SUFFICES ASSUME NEW j \in todo PROVE Resting(j)
    OBVIOUS
  <2>1. j \in Named(n) /\ j \in Ids /\ file[j] \in Record /\ \A u \in up : j < u
    BY DEF Named, Readable
  <2>2. j \notin up
    BY <2>1, CommandIds
  <2> QED
    BY <2>1, <2>2 DEF Resting
<1> HIDE DEF todo, next
<1>7. NewRecord(n) \in Record /\ ~NewRecord(n).running
  BY DEF NewRecord, Record, Status
<1>8. i \in Ids /\ file[i] = NoRecord
  BY DEF OrdInv, Always, StillFresh, CmdInv, RestTyped
<1>9. op \in {"create", "run", "run_rm", "run_d"}
  BY DEF Creating
<1>10. Steady(d)
  BY <1>4, <1>5, <1>6, <1>7, <1>8, <1>9 DEF Steady, Launched, Waits, AtFile, Creating
<1>11. ~Waits(d) /\ d.step \notin AtFile
  BY <1>4 DEF Waits, AtFile
<1> QED
  BY <1>3, <1>4, <1>10, <1>11, OrdBegun

(* start: alone, the container it is about to launch is at rest.           *)
LEMMA StartBeginOrd ==
    ASSUME OrdInv, CmdInv, NEW k \in Cmds, StartBegin(k) PROVE OrdInv'
<1>1. PICK x \in Refs : \E i \in Get(x) :
        /\ ~file[i].running /\ Accept(k, Typed("start", "Launch", x, i))
        /\ UNCHANGED <<file, fresh, proc, owner, menu, deaths>>
  BY DEF StartBegin
<1>2. PICK i \in Get(x) :
        /\ ~file[i].running /\ Accept(k, Typed("start", "Launch", x, i))
        /\ UNCHANGED <<file, fresh, proc, owner, menu, deaths>>
  BY <1>1
<1>3. PICK d : d = Typed("start", "Launch", x, i)
  OBVIOUS
<1>4. /\ d.op = "start" /\ d.step = "Launch" /\ d.id = i /\ d.made = NoPid
      /\ d.next = "Idle" /\ d.mark = "none"
  BY <1>3, TypedIs
<1>5. i \in Ids /\ i \notin fresh /\ file[i] \in Record
  BY FoundOld DEF OrdInv
<1>6. Steady(d) /\ ~Waits(d) /\ d.step \notin AtFile
  BY <1>2, <1>4, <1>5 DEF Steady, Resting, Launched, Waits, AtFile
<1> QED
  BY <1>2, <1>3, <1>4, <1>5, <1>6, OrdBegun

(* Of an update that begins, only its mark matters here.                   *)
LEMMA UpdatingIs ==
    ASSUME NEW c \in Command, NEW i, NEW m, NEW next
    PROVE  LET d == Updating(c, i, m, next) IN
           /\ d.op = c.op /\ d.step = "Update" /\ d.ref = c.ref /\ d.id = i /\ d.made = c.made
           /\ d.next = next /\ d.mark = m /\ d.todo = c.todo /\ d.copy = c.copy /\ d.fd = c.fd
BY DEF Updating, Command

(* A command as it is typed is a command.                                  *)
LEMMA TypedCommand ==
    ASSUME NEW op \in AllOps, NEW s \in Steps, NEW x \in Refs \cup {NoId}, NEW i \in Ids \cup {NoId}
    PROVE  Typed(op, s, x, i) \in Command
BY DEF Typed, Idle, Command, Steps, Marks, Descriptors

(* What stop, pause and unpause have in common.                            *)
LEMMA UpdateBegunOrd ==
    ASSUME OrdInv, CmdInv, NEW k \in Cmds, NEW op \in AllOps, NEW x \in Refs, NEW i \in Get(x),
           NEW m \in {"stopped", "paused", "unpaused"}, NEW next,
           Accept(k, Updating(Typed(op, "Update", x, i), i, m, next)),
           UNCHANGED <<file, fresh, proc, owner, menu, deaths>>,
           Gentle => m # "stopped" /\ next = "Idle"
    PROVE  OrdInv'
<1>1. PICK d : d = Updating(Typed(op, "Update", x, i), i, m, next)
  OBVIOUS
<1>2. i \in Ids /\ i \notin fresh
  BY FoundOld DEF OrdInv
<1>3. Typed(op, "Update", x, i) \in Command
  BY <1>2, TypedCommand DEF Steps
<1>4. /\ d.op = op /\ d.step = "Update" /\ d.id = i /\ d.made = NoPid
      /\ d.next = next /\ d.mark = m
  BY <1>1, <1>3, UpdatingIs, TypedIs
<1>5. ~Waits(d) /\ d.step \notin AtFile
  BY <1>4 DEF Waits, AtFile
<1>6. Gentle => Steady(d)
  BY <1>4, <1>5 DEF Steady, Launched, Waits, AtFile
<1> QED
  BY <1>1, <1>2, <1>4, <1>5, <1>6, OrdBegun

(* stop and restart: behaviours that have them claim only whole files.     *)
LEMMA StopBeginOrd ==
    ASSUME OrdInv, CmdInv, NEW k \in Cmds, StopBegin(k) PROVE OrdInv'
<1>1. PICK op \in {"stop", "restart"}, x \in Refs : \E i \in Get(x) :
        /\ Accept(k, Updating(Typed(op, "Update", x, i), i, "stopped",
                              IF op = "restart" THEN "Start" ELSE "Idle"))
        /\ UNCHANGED <<file, fresh, proc, owner, menu, deaths>>
  BY DEF StopBegin
<1>2. PICK i \in Get(x) :
        /\ Accept(k, Updating(Typed(op, "Update", x, i), i, "stopped",
                              IF op = "restart" THEN "Start" ELSE "Idle"))
        /\ UNCHANGED <<file, fresh, proc, owner, menu, deaths>>
  BY <1>1
<1>3. op \in AllOps
  BY DEF AllOps
<1>4. i \in Ids
  BY FoundOld DEF OrdInv
<1>5. ~Gentle
  <2>1. Typed(op, "Update", x, i) \in Command
    BY <1>3, <1>4, TypedCommand DEF Steps
  <2>2. Updating(Typed(op, "Update", x, i), i, "stopped",
                 IF op = "restart" THEN "Start" ELSE "Idle").op = op
    BY <2>1, UpdatingIs, TypedIs
  <2> QED
    BY <1>2, <2>2 DEF Accept, Gentle
<1> QED
  BY <1>2, <1>3, <1>5, UpdateBegunOrd

(* pause and unpause: nothing is launched or ended.                        *)
LEMMA PauseBeginOrd ==
    ASSUME OrdInv, CmdInv, NEW k \in Cmds, PauseBegin(k) PROVE OrdInv'
<1>1. PICK op \in {"pause", "unpause"}, x \in Refs : \E i \in Get(x) :
        /\ Accept(k, Updating(Typed(op, "Update", x, i), i,
                              IF op = "pause" THEN "paused" ELSE "unpaused", "Idle"))
        /\ UNCHANGED <<file, fresh, proc, owner, menu, deaths>>
  BY DEF PauseBegin
<1>2. PICK i \in Get(x) :
        /\ Accept(k, Updating(Typed(op, "Update", x, i), i,
                              IF op = "pause" THEN "paused" ELSE "unpaused", "Idle"))
        /\ UNCHANGED <<file, fresh, proc, owner, menu, deaths>>
  BY <1>1
<1>3. op \in AllOps
  BY DEF AllOps
<1>4. (IF op = "pause" THEN "paused" ELSE "unpaused") \in {"paused", "unpaused"}
  OBVIOUS
<1> QED
  BY <1>2, <1>3, <1>4, UpdateBegunOrd


(* A new name says nothing of the process.                                 *)
LEMMA RenamedIs ==
    ASSUME NEW r \in Record, NEW n \in Names
    PROVE  Renamed(r, n) \in Record /\ \A p : Runs(Renamed(r, n), p) <=> Runs(r, p)
BY DEF Renamed, Record, Runs

(* rename: the copy says of the process what the record says.              *)
LEMMA RenameBeginOrd ==
    ASSUME OrdInv, CmdInv, NEW k \in Cmds, RenameBegin(k) PROVE OrdInv'
<1>1. PICK x \in Refs, n \in Names : \E i \in Get(x) :
        /\ Accept(k, [Typed("rename", "Truncate", x, i) EXCEPT !.copy = Renamed(file[i], n)])
        /\ UNCHANGED <<file, fresh, proc, owner, menu, deaths>>
  BY DEF RenameBegin
<1>2. PICK i \in Get(x) :
        /\ Accept(k, [Typed("rename", "Truncate", x, i) EXCEPT !.copy = Renamed(file[i], n)])
        /\ UNCHANGED <<file, fresh, proc, owner, menu, deaths>>
  BY <1>1
<1>3. PICK d : d = [Typed("rename", "Truncate", x, i) EXCEPT !.copy = Renamed(file[i], n)]
  OBVIOUS
<1>4. /\ d.op = "rename" /\ d.step = "Truncate" /\ d.id = i /\ d.made = NoPid
      /\ d.next = "Idle" /\ d.mark = "none" /\ d.copy = Renamed(file[i], n)
  BY <1>3 DEF Typed, Idle
<1>5. i \in Ids /\ i \notin fresh /\ file[i] \in Record
  BY FoundOld DEF OrdInv
<1>6. d.copy \in Record /\ \A p : Runs(d.copy, p) <=> Runs(file[i], p)
  BY <1>4, <1>5, RenamedIs
<1>7. PICK c : c = cmd[k]
  OBVIOUS
<1>8. /\ c = Idle /\ d.op \in menu.ops /\ cmd' = [cmd EXCEPT ![k] = d] /\ Works(k)
      /\ UNCHANGED <<file, fresh, proc, owner, menu, deaths>>
  BY <1>2, <1>3, <1>7 DEF Accept
<1>9. c.step = "Idle" /\ ~Launched(c) /\ c.step \notin AtFile
  BY <1>8 DEF Idle, Launched, AtFile
<1>10. cmd'[k] = d /\ \A j \in Cmds \ {k} : cmd'[j] = cmd[j]
  BY <1>8 DEF CmdInv, CmdsGood
<1>11. Always'
  BY <1>4, <1>5, <1>7, <1>8, <1>10, AlwaysStepped DEF OrdInv, Always, StillFresh
<1>12. Quiet' => Quiet /\ Alone(k) /\ \A j \in Cmds \ {k} : cmd'[j] = cmd[j]
  BY <1>8, <1>10, BeginsAlone
<1>13. Quiet' /\ d.step = "Write" => d.fd = "clean"
  BY <1>4
<1>14. Quiet' /\ Mild => \A j \in Ids : file'[j] = Torn =>
          \/ d.step = "Write" /\ d.id = j
          \/ file[j] = Torn /\ c.step # "Write"
  BY <1>8, <1>9
<1>15. Steady(d)'
  BY <1>4, <1>5, <1>6 DEF Steady, Launched, Waits, AtFile
<1>16. \A j \in Ids, p \in Pids : Tells(c, file[j], j, p) => Tells(d, file'[j], j, p)
  BY <1>4, <1>6, <1>8, <1>9 DEF Tells
<1>17. ~Waits(d)
  BY <1>4 DEF Waits
<1>18. Quiet' /\ Gentle =>
              /\ Steady(d)'
              /\ \A j \in Ids, p \in Pids : Tells(c, file[j], j, p) =>
                    Tells(d, file'[j], j, p) \/ (j = c.id /\ p = c.made /\ proc'[p] # "alive")
              /\ \A p \in Pids : proc'[p] = "alive" =>
                    \/ proc[p] = "alive" /\ owner'[p] = owner[p]
                    \/ Launched(d) /\ d.made = p /\ d.id = owner'[p] /\ owner'[p] \in Ids
              /\ Launched(c) => Tells(d, file'[c.id], c.id, c.made)
              /\ Waits(d) => Tells(d, file'[d.id], d.id, d.made)
  BY <1>8, <1>9, <1>15, <1>16, <1>17
<1>19. menu' = menu
  BY <1>8
<1> QED
  BY <1>7, <1>10, <1>11, <1>12, <1>13, <1>14, <1>18, <1>19, OrdStepped

(* rm and rm -f: the process that is killed is the one of the record.      *)
LEMMA RmBeginOrd ==
    ASSUME OrdInv, CmdInv, NEW k \in Cmds, RmBegin(k) PROVE OrdInv'
<1>1. PICK op \in {"rm", "rm_f"}, x \in Refs : \E i \in Get(x) :
        /\ Accept(k, Typed(op, "Delete", x, i))
        /\ proc' = IF file[i].running THEN Killed(file[i].pid) ELSE proc
        /\ UNCHANGED <<file, fresh, owner, menu, deaths>>
  BY DEF RmBegin
<1>2. PICK i \in Get(x) :
        /\ Accept(k, Typed(op, "Delete", x, i))
        /\ proc' = IF file[i].running THEN Killed(file[i].pid) ELSE proc
        /\ UNCHANGED <<file, fresh, owner, menu, deaths>>
  BY <1>1
<1>3. PICK d : d = Typed(op, "Delete", x, i)
  OBVIOUS
<1>4. /\ d.op = op /\ d.step = "Delete" /\ d.id = i /\ d.made = NoPid
      /\ d.next = "Idle" /\ d.mark = "none"
  BY <1>3, TypedIs
<1>5. i \in Ids /\ i \notin fresh /\ file[i] \in Record
  BY FoundOld DEF OrdInv
<1>6. Steady(d) /\ ~Waits(d) /\ d.step \notin AtFile
  BY <1>4, <1>5 DEF Steady, Launched, Waits, AtFile
<1>7. \A p \in Pids : proc'[p] = "alive" => proc[p] = "alive"
  BY <1>2 DEF Killed, CmdInv, RestTyped
<1> QED
  BY <1>2, <1>3, <1>4, <1>5, <1>6, <1>7, OrdBegun

(* system prune: processes and files stay.                                 *)
LEMMA PruneBeginOrd ==
    ASSUME OrdInv, CmdInv, NEW k \in Cmds, PruneBegin(k) PROVE OrdInv'
<1>1. PICK todo : todo = {i \in Readable : ~file[i].running}
  OBVIOUS
<1>2. PICK d : d = [Typed("prune", "Each", NoId, NoId) EXCEPT !.todo = todo]
  OBVIOUS
<1>3. Accept(k, d) /\ UNCHANGED <<file, fresh, proc, owner, menu, deaths>>
  BY <1>1, <1>2 DEF PruneBegin
<1>4. /\ d.op = "prune" /\ d.step = "Each" /\ d.id = NoId /\ d.made = NoPid
      /\ d.next = "Idle" /\ d.mark = "none"
  BY <1>2 DEF Typed, Idle
<1>5. NoId \notin fresh
  BY CommandIds DEF NoId, CmdInv, RestTyped
<1>6. Steady(d) /\ ~Waits(d) /\ d.step \notin AtFile
  BY <1>4 DEF Steady, Launched, Waits, AtFile
<1> QED
  BY <1>3, <1>4, <1>5, <1>6, OrdBegun

(* wait: processes and files stay.                                         *)
LEMMA WaitBeginOrd ==
    ASSUME OrdInv, CmdInv, NEW k \in Cmds, WaitBegin(k) PROVE OrdInv'
<1>1. PICK x \in Refs : \E i \in Get(x) :
        /\ Accept(k, Typed("wait", "Poll", x, i))
        /\ UNCHANGED <<file, fresh, proc, owner, menu, deaths>>
  BY DEF WaitBegin
<1>2. PICK i \in Get(x) :
        /\ Accept(k, Typed("wait", "Poll", x, i))
        /\ UNCHANGED <<file, fresh, proc, owner, menu, deaths>>
  BY <1>1
<1>3. PICK d : d = Typed("wait", "Poll", x, i)
  OBVIOUS
<1>4. /\ d.op = "wait" /\ d.step = "Poll" /\ d.id = i /\ d.made = NoPid
      /\ d.next = "Idle" /\ d.mark = "none"
  BY <1>3, TypedIs
<1>5. i \in Ids /\ i \notin fresh /\ file[i] \in Record
  BY FoundOld DEF OrdInv
<1>6. Steady(d) /\ ~Waits(d) /\ d.step \notin AtFile
  BY <1>4, <1>5 DEF Steady, Launched, Waits, AtFile
<1> QED
  BY <1>2, <1>3, <1>4, <1>5, <1>6, OrdBegun

(* No kill revives a process.                                              *)
LEMMA KilledIs ==
    ASSUME CmdInv, NEW q
    PROVE  \A p \in Pids : (Killed(q)[p] = "alive" => proc[p] = "alive")
                           /\ (proc[p] = "gone" => Killed(q)[p] = "gone")
BY DEF Killed, CmdInv, RestTyped

(* kill: a process less that its record has to name.                       *)
LEMMA KillBeginOrd ==
    ASSUME OrdInv, CmdInv, CmdInv', NEW k \in Cmds, KillBegin(k) PROVE OrdInv'
<1>1. PICK x \in Refs : \E i \in Get(x) :
        /\ Works(k) /\ proc' = Killed(file[i].pid)
        /\ UNCHANGED <<file, fresh, owner, cmd, menu, deaths>>
  BY DEF KillBegin
<1>2. PICK i \in Get(x) :
        /\ Works(k) /\ proc' = Killed(file[i].pid)
        /\ UNCHANGED <<file, fresh, owner, cmd, menu, deaths>>
  BY <1>1
<1>3. Always'
  BY <1>2 DEF OrdInv, Always, InMenu, StillFresh, OwnProcess
<1>4. Quiet' => Quiet
  BY <1>2, BeginsAlone
<1>5. PICK q : q = file[i].pid
  OBVIOUS
<1>6. \A p \in Pids : (proc'[p] = "alive" => proc[p] = "alive")
                      /\ (proc[p] = "gone" => proc'[p] = "gone")
  BY <1>2, <1>5, KilledIs
<1>7. \A j \in Cmds : cmd'[j] = cmd[j]
  BY <1>2
<1>8. UNCHANGED <<file, menu, deaths, owner>>
  BY <1>2
<1> QED
  BY <1>3, <1>4, <1>6, <1>7, <1>8, OrdStill

-----------------------------------------------------------------------------
(* The steps that write or remove a file.                                  *)

(* Only a command at a write notices what others do to its file.           *)
LEMMA NoticedIs ==
    ASSUME CmdInv, NEW k \in Cmds, NEW i, NEW s \in {"clean", "shared", "gone"}, NEW d,
           cmd' = [Noticed(cmd, k, i, s) EXCEPT ![k] = d]
    PROVE  /\ cmd'[k] = d
           /\ \A j \in Cmds \ {k} :
                 /\ cmd'[j].op = cmd[j].op /\ cmd'[j].id = cmd[j].id /\ cmd'[j].made = cmd[j].made
                 /\ ~Busy(j) => cmd'[j] = cmd[j]
<1>1. PICK N : N = Noticed(cmd, k, i, s)
  OBVIOUS
<1>2. N \in [Cmds -> Command]
  BY <1>1, NoticedGood DEF CmdInv
<1>3. cmd' = [N EXCEPT ![k] = d]
  BY <1>1
<1>4. cmd'[k] = d /\ \A j \in Cmds \ {k} : cmd'[j] = N[j]
  BY <1>2, <1>3
<1>5. ASSUME NEW j \in Cmds \ {k}
      PROVE  /\ N[j].op = cmd[j].op /\ N[j].id = cmd[j].id /\ N[j].made = cmd[j].made
             /\ ~Busy(j) => N[j] = cmd[j]
  <2>1. cmd[j] \in Command /\ Shaped(cmd[j]) /\ j \in DOMAIN cmd
    BY DEF CmdInv, CmdsGood, GoodCmd
  <2>2. N[j] = IF cmd[j].id = i /\ cmd[j].fd \in {"clean", "shared"}
               THEN [cmd[j] EXCEPT !.fd = s] ELSE cmd[j]
    BY <1>1, <2>1 DEF Noticed
  <2>3. ~Busy(j) => cmd[j].fd = "none"
    BY <2>1 DEF Busy, Shaped
  <2>4. PICK e : e = cmd[j]
    OBVIOUS
  <2>5. [e EXCEPT !.fd = s].op = e.op /\ [e EXCEPT !.fd = s].id = e.id
        /\ [e EXCEPT !.fd = s].made = e.made
    BY <2>1, <2>4 DEF Command
  <2> QED
    BY <2>2, <2>3, <2>4, <2>5
<1> QED
  BY <1>4, <1>5

(* A step of a command at work that changes file i.                        *)
LEMMA OrdFiled ==
    ASSUME OrdInv, CmdInv, NEW k \in Cmds, Busy(k), NEW c, c = cmd[k], NEW d,
           NEW i, NEW x, NEW s \in {"clean", "shared", "gone"},
           cmd' = [Noticed(cmd, k, i, s) EXCEPT ![k] = d], file' = [file EXCEPT ![i] = x],
           UNCHANGED <<fresh, proc, owner, menu, deaths, overlapped>>,
           i \notin fresh \/ x = NoRecord,
           d.op \in menu.ops \cup {"none"}, d.id = c.id \/ d.id \notin fresh,
           d.made \in {c.made, NoPid}, ~Launched(c), c.step = "Write" => c.id = i,
           d.step = "Write" => d.id = i /\ x = Torn /\ d.fd = "clean",
           Quiet /\ x = Torn => d.step = "Write" /\ d.id = i,
           Quiet /\ Gentle =>
              /\ Steady(d)'
              /\ \A j \in Ids, p \in Pids : Tells(c, file[j], j, p) =>
                    Tells(d, file'[j], j, p) \/ (j = c.id /\ p = c.made /\ proc[p] # "alive")
              /\ Waits(d) => Tells(d, file'[d.id], d.id, d.made)
    PROVE  OrdInv'
<1>1. /\ cmd'[k] = d
      /\ \A j \in Cmds \ {k} :
            /\ cmd'[j].op = cmd[j].op /\ cmd'[j].id = cmd[j].id /\ cmd'[j].made = cmd[j].made
            /\ ~Busy(j) => cmd'[j] = cmd[j]
  BY NoticedIs
<1>2. file \in [Ids -> Content]
  BY DEF CmdInv, FilesGood
<1>3. /\ i \in Ids => file'[i] = x
      /\ \A j \in Ids \ {i} : file'[j] = file[j]
  BY <1>2
<1>4. fresh \subseteq Ids
  BY DEF CmdInv, RestTyped
<1>5. \A j \in fresh' : file'[j] = NoRecord
  BY <1>3, <1>4 DEF OrdInv, Always, StillFresh
<1>6. Always'
  BY <1>1, <1>5, AlwaysStepped DEF OrdInv
<1>7. Quiet => Alone(k)
  BY AtWorkAlone
<1>8. Quiet' => Quiet /\ Alone(k) /\ \A j \in Cmds \ {k} : cmd'[j] = cmd[j]
  BY <1>1, <1>7 DEF Quiet, Alone
<1>9. Quiet' /\ d.step = "Write" => d.fd = "clean"
  BY <1>3
<1>10. Quiet' /\ Mild => \A j \in Ids : file'[j] = Torn =>
          \/ d.step = "Write" /\ d.id = j
          \/ file[j] = Torn /\ c.step # "Write"
  <2> SUFFICES ASSUME Quiet', Mild, NEW j \in Ids, file'[j] = Torn,
                      c.step = "Write" \/ file[j] # Torn
               PROVE  d.step = "Write" /\ d.id = j
    OBVIOUS
  <2>1. Quiet /\ Alone(k)
    BY <1>8
  <2>2. file[j] = Torn => c.step = "Write" /\ c.id = j
    BY <2>1 DEF OrdInv, NoneTorn, Alone, Busy
  <2>3. j = i
    BY <1>3, <2>2
  <2> QED
    BY <1>3, <2>1, <2>3
<1>11. Quiet' /\ Gentle =>
              /\ Steady(d)'
              /\ \A j \in Ids, p \in Pids : Tells(c, file[j], j, p) =>
                    Tells(d, file'[j], j, p) \/ (j = c.id /\ p = c.made /\ proc'[p] # "alive")
              /\ \A p \in Pids : proc'[p] = "alive" =>
                    \/ proc[p] = "alive" /\ owner'[p] = owner[p]
                    \/ Launched(d) /\ d.made = p /\ d.id = owner'[p] /\ owner'[p] \in Ids
              /\ Launched(c) => Tells(d, file'[c.id], c.id, c.made)
              /\ Waits(d) => Tells(d, file'[d.id], d.id, d.made)
  BY <1>8
<1>12. menu' = menu
  OBVIOUS
<1> QED
  BY <1>1, <1>6, <1>8, <1>9, <1>10, <1>11, <1>12, OrdStepped

(* Truncate: the copy tells from now on what the record told.              *)
LEMMA TruncateOrd ==
    ASSUME OrdInv, CmdInv, NEW k \in Cmds, Truncate(k) PROVE OrdInv'
<1>1. PICK c : c = cmd[k]
  OBVIOUS
<1>2. PICK N : N = Noticed(cmd, k, c.id, "clean")
  OBVIOUS
<1>3. PICK d : d = [c EXCEPT !.step = "Write", !.fd = "clean"]
  OBVIOUS
<1>4. /\ c.step = "Truncate" /\ file' = [file EXCEPT ![c.id] = Torn]
      /\ cmd' = [N EXCEPT ![k].step = "Write", ![k].fd = "clean"]
      /\ UNCHANGED <<fresh, proc, owner, menu, deaths, overlapped>>
  BY <1>1, <1>2 DEF Truncate
<1>5. N \in [Cmds -> Command] /\ N[k] = c /\ c \in Command
  BY <1>1, <1>2, NoticedGood DEF CmdInv, CmdsGood
<1>6. cmd' = [Noticed(cmd, k, c.id, "clean") EXCEPT ![k] = d]
  BY <1>2, <1>3, <1>4, <1>5
<1>7. /\ d.op = c.op /\ d.step = "Write" /\ d.fd = "clean" /\ d.id = c.id
      /\ d.copy = c.copy /\ d.made = c.made /\ d.next = c.next /\ d.mark = c.mark
  BY <1>3, <1>5 DEF Command
<1>8. ASSUME Quiet, Gentle
      PROVE  /\ Steady(d)'
             /\ \A j \in Ids, p \in Pids : Tells(c, file[j], j, p) => Tells(d, file'[j], j, p)
             /\ ~Waits(d)
  <2>1. Steady(c)
    BY <1>1, <1>8 DEF OrdInv, NoneLost
  <2>2. Steady(d)'
    BY <1>4, <1>7, <2>1 DEF Steady, Launched, Waits, AtFile
  <2>3. \A j \in Ids \ {c.id} : file'[j] = file[j]
    BY <1>4 DEF CmdInv, FilesGood
  <2>4. \A j \in Ids, p \in Pids : Tells(c, file[j], j, p) => Tells(d, file'[j], j, p)
    BY <1>4, <1>7, <2>3 DEF Tells, AtFile
  <2> QED
    BY <1>7, <2>2, <2>4 DEF Waits
<1>9. d.op \in menu.ops \cup {"none"} /\ c.id \notin fresh
  BY <1>1, <1>7 DEF OrdInv, Always, InMenu, StillFresh
<1>10. Busy(k) /\ ~Launched(c) /\ d.made \in {c.made, NoPid}
  BY <1>1, <1>4, <1>7 DEF Busy, Launched
<1> QED
  BY <1>1, <1>4, <1>6, <1>7, <1>8, <1>9, <1>10, OrdFiled

(* The command with its copy written, or whatever it goes on to.           *)
LEMMA AtIs ==
    ASSUME NEW e \in Command, NEW s
    PROVE  LET d == At(e, s) IN
           /\ d.step = s
           /\ s = "Idle" => d = Idle
           /\ s # "Idle" => /\ d.op = e.op /\ d.id = e.id /\ d.made = e.made /\ d.next = e.next
                            /\ d.mark = e.mark /\ d.copy = e.copy /\ d.todo = e.todo /\ d.fd = e.fd
BY DEF At, Idle, Command

(* A command that has ended.                                               *)
LEMMA IdleIs ==
    /\ Idle.op = "none" /\ Idle.step = "Idle" /\ Idle.id = NoId /\ Idle.made = NoPid
    /\ Idle.mark = "none" /\ Idle.next = "Idle" /\ Idle.fd = "none"
BY DEF Idle

(* A command that is not at work knows nothing and waits for nothing.      *)
LEMMA IdleSteady == Steady(Idle) /\ ~Waits(Idle) /\ ~Launched(Idle)
BY IdleIs DEF Steady, Waits, Launched, AtFile

(* No container to be made has the id that stands for none.                *)
LEMMA NoIdIsOld == ASSUME CmdInv PROVE NoId \notin fresh
BY CommandIds DEF NoId, CmdInv, RestTyped

(* Where a command gets to with At, Always does not mind.                  *)
LEMMA AtKeeps ==
    ASSUME OrdInv, CmdInv, NEW k \in Cmds, NEW c, c = cmd[k], NEW e \in Command, NEW s,
           e.op = c.op, e.id = c.id, e.made = c.made
    PROVE  LET d == At(e, s) IN
           /\ d.op \in menu.ops \cup {"none"}
           /\ d.id = c.id \/ d.id \notin fresh
           /\ d.made \in {c.made, NoPid}
BY AtIs, IdleIs, NoIdIsOld DEF OrdInv, Always, InMenu

(* Write: the file is clean, so the record tells what the copy told.       *)
LEMMA WriteOrd ==
    ASSUME OrdInv, CmdInv, NEW k \in Cmds, Write(k) PROVE OrdInv'
<1>1. PICK c : c = cmd[k]
  OBVIOUS
<1>2. PICK e : e = [c EXCEPT !.fd = "none", !.copy = NoRecord]
  OBVIOUS
<1>3. PICK d : d = At(e, c.next)
  OBVIOUS
<1>4. /\ c.step = "Write"
      /\ \E x \in Written(c.fd, c.copy, file[c.id]) : file' = [file EXCEPT ![c.id] = x]
      /\ cmd' = [Noticed(cmd, k, c.id, "shared") EXCEPT ![k] = d]
      /\ UNCHANGED <<fresh, proc, owner, menu, deaths, overlapped>>
  BY <1>1, <1>2, <1>3 DEF Write
<1>5. PICK x \in Written(c.fd, c.copy, file[c.id]) : file' = [file EXCEPT ![c.id] = x]
  BY <1>4
<1>6. c \in Command /\ Shaped(c) /\ SoundIn(c.copy, c.id, proc, owner)
  BY <1>1 DEF CmdInv, CmdsGood, GoodCmd
<1>7. /\ e \in Command /\ e.op = c.op /\ e.id = c.id /\ e.made = c.made
      /\ e.next = c.next /\ e.mark = c.mark
  BY <1>2, <1>6 DEF Command, Descriptors
<1>8. /\ d.step = c.next
      /\ c.next = "Idle" => d = Idle
      /\ c.next # "Idle" => /\ d.op = c.op /\ d.id = c.id /\ d.made = c.made /\ d.next = c.next
                            /\ d.mark = c.mark
  BY <1>3, <1>7, AtIs
<1>9. /\ d.op \in menu.ops \cup {"none"}
      /\ d.id = c.id \/ d.id \notin fresh
      /\ d.made \in {c.made, NoPid}
  BY <1>1, <1>3, <1>7, AtKeeps
<1>10. c.next \notin {"Write", "Update"}
  BY <1>6 DEF Shaped
<1>11. Busy(k) /\ ~Launched(c) /\ c.id \notin fresh
  BY <1>1, <1>4 DEF Busy, Launched, OrdInv, Always, StillFresh
<1>12. Quiet => x = c.copy /\ c.copy # Torn
  <2> SUFFICES ASSUME Quiet PROVE x = c.copy /\ c.copy # Torn
    OBVIOUS
  <2>1. c.fd = "clean"
    BY <1>1, <1>4 DEF OrdInv, CleanWrites
  <2>2. x = c.copy
    BY <1>5, <2>1 DEF Written
  <2> QED
    BY <1>6, <2>2, CommandValues DEF Command
<1>13. ASSUME Quiet, Gentle
       PROVE  /\ Steady(d)'
              /\ \A j \in Ids, p \in Pids : Tells(c, file[j], j, p) => Tells(d, file'[j], j, p)
              /\ Waits(d) => Tells(d, file'[d.id], d.id, d.made)
  <2>1. Steady(c)
    BY <1>1, <1>13 DEF OrdInv, NoneLost
  <2>2. /\ c.id \in Ids /\ c.copy \in Record
        /\ c.next \in {"Idle", "Delete", "Launch", "Wait", "Leave"}
        /\ c.next \in {"Wait", "Leave"} => Runs(c.copy, c.made)
        /\ c.next = "Launch" => ~c.copy.running
        /\ c.op = "prune" => c.next = "Idle"
        /\ c.mark # "stopped"
    BY <1>4, <2>1 DEF Steady, AtFile
  <2>3. file'[c.id] = c.copy /\ \A j \in Ids \ {c.id} : file'[j] = file[j]
    BY <1>5, <1>12, <1>13, <2>2 DEF CmdInv, FilesGood
  <2>4. d.step \in {"Idle", "Delete", "Launch", "Wait", "Leave"} /\ d.step \notin AtFile
    BY <1>8, <2>2 DEF AtFile
  <2>5. \A j \in Ids, p \in Pids : Tells(c, file[j], j, p) => Tells(d, file'[j], j, p)
    BY <1>4, <2>3, <2>4 DEF Tells, AtFile
  <2>6. Waits(d) => /\ d.id = c.id /\ d.made = c.made /\ Runs(c.copy, c.made)
                    /\ d.step \in {"Wait", "Leave"}
    BY <1>8, <2>2, <2>4 DEF Waits
  <2>7. Waits(d) => d.id \in Ids /\ d.made # NoPid
    BY <1>6, <2>2, <2>6 DEF SoundIn, Runs
  <2>8. Waits(d) => Tells(d, file'[d.id], d.id, d.made)
    BY <2>3, <2>4, <2>6 DEF Tells
  <2>9. Steady(d)'
    <3>1. CASE d.step = "Idle"
      BY <1>8, <3>1, IdleSteady, IdleIs DEF Steady, AtFile, Launched, Waits
    <3>2. CASE d.step = "Launch"
      <4>1. Resting(d.id)' /\ d.id \in Ids
        BY <1>8, <2>2, <2>3, <3>2 DEF Resting
      <4> QED
        BY <1>8, <2>2, <3>2, <4>1 DEF Steady, AtFile, Launched, Waits
    <3>3. CASE d.step \in {"Delete", "Wait", "Leave"}
      BY <1>8, <2>2, <2>7, <3>3 DEF Steady, AtFile, Launched, Waits
    <3> QED
      BY <2>4, <3>1, <3>2, <3>3
  <2> QED
    BY <2>5, <2>8, <2>9
<1>14. d.step # "Write"
  BY <1>8, <1>10
<1>15. /\ cmd' = [Noticed(cmd, k, c.id, "shared") EXCEPT ![k] = d]
       /\ file' = [file EXCEPT ![c.id] = x]
       /\ UNCHANGED <<fresh, proc, owner, menu, deaths, overlapped>>
  BY <1>4, <1>5
<1>16. Quiet /\ x = Torn => d.step = "Write" /\ d.id = c.id
  BY <1>12
<1> QED
  BY <1>1, <1>9, <1>11, <1>13, <1>14, <1>15, <1>16, OrdFiled

(* What an update makes of the process its record names.                   *)
LEMMA ChangeIs ==
    ASSUME NEW r \in Record, NEW p \in Pids \cup {NoPid}, NEW m \in Marks \ {"none", "stopped"}
    PROVE  /\ Change(m, r, p) \in Record
           /\ m = "running" => Runs(Change(m, r, p), p)
           /\ m \in {"exited", "gone"} => ~Change(m, r, p).running
           /\ m \in {"paused", "unpaused"} => \A q : Runs(Change(m, r, p), q) <=> Runs(r, q)
<1>1. CASE m = "running"
  BY <1>1 DEF Change, MarkRunning, Record, Status, Runs
<1>2. CASE m = "exited"
  BY <1>2 DEF Change, MarkExited, Record, Status, Runs
<1>3. CASE m = "gone"
  BY <1>3 DEF Change, MarkGone, Record, Status, Runs
<1>4. CASE m = "paused"
  BY <1>4 DEF Change, MarkPaused, Record, Status, Runs
<1>5. CASE m = "unpaused"
  BY <1>5 DEF Change, MarkUnpaused, Record, Status, Runs
<1> QED
  BY <1>1, <1>2, <1>3, <1>4, <1>5 DEF Marks

(* The record is there: the command is about to write what it makes of it. *)
LEMMA UpdateFoundOrd ==
    ASSUME OrdInv, CmdInv, NEW k \in Cmds, NEW c, c = cmd[k], c.step = "Update",
           Quiet, Gentle, c.id \in Readable, UNCHANGED <<file, proc>>,
           NEW d, d.step = "Truncate", d.copy = Change(c.mark, file[c.id], c.made),
           d.op = c.op, d.id = c.id, d.made = c.made, d.next = c.next, d.mark = c.mark
    PROVE  /\ Steady(d)'
           /\ \A j \in Ids, p \in Pids : Tells(c, file[j], j, p) =>
                 Tells(d, file'[j], j, p) \/ (j = c.id /\ p = c.made /\ proc'[p] # "alive")
           /\ Launched(c) => Tells(d, file'[c.id], c.id, c.made)
<1>1. Steady(c) /\ (Waits(c) => Told(c.id, c.made))
  BY DEF OrdInv, NoneLost
<1>2. c \in Command /\ c.mark # "none"
  BY DEF CmdInv, CmdsGood, GoodCmd, Shaped
<1>3. c.id \in Ids /\ file[c.id] \in Record /\ c.mark \in Marks \ {"none", "stopped"}
      /\ c.made \in Pids \cup {NoPid}
  BY <1>1, <1>2 DEF Readable, Steady, Command
<1>4. /\ d.copy \in Record
      /\ c.mark = "running" => Runs(d.copy, c.made)
      /\ c.mark \in {"exited", "gone"} => ~d.copy.running
      /\ c.mark \in {"paused", "unpaused"} => \A q : Runs(d.copy, q) <=> Runs(file[c.id], q)
  BY <1>3, ChangeIs
<1>5. /\ c.next \in {"Idle", "Delete"} \/ (Launched(c) /\ c.next \in {"Wait", "Leave"})
      /\ c.op = "prune" => c.next = "Idle"
      /\ Launched(c) => Resting(c.id)
      /\ Waits(c) => proc[c.made] = "gone" /\ c.made # NoPid
  BY <1>1 DEF Steady
<1>6. Steady(d)'
  BY <1>3, <1>4, <1>5 DEF Steady, Launched, Waits, AtFile
<1>7. Launched(c) => Tells(d, file'[c.id], c.id, c.made)
  BY <1>4 DEF Launched, Tells, AtFile
<1>8. ASSUME NEW p \in Pids, Runs(file[c.id], p)
      PROVE  Runs(d.copy, p) \/ (p = c.made /\ proc'[p] # "alive")
  <2>1. CASE c.mark = "running"
    BY <1>5, <1>8, <2>1 DEF Launched, Resting, Runs
  <2>2. CASE c.mark \in {"exited", "gone"}
    <3>1. Waits(c)
      BY <2>2 DEF Waits
    <3>2. Alone(k)
      BY AtWorkAlone DEF Busy
    <3>3. Tells(c, file[c.id], c.id, c.made)
      BY <1>1, <3>1, <3>2, ToldIs
    <3>4. Runs(file[c.id], c.made)
      BY <3>3 DEF Tells, AtFile
    <3> QED
      BY <1>5, <1>8, <3>1, <3>4 DEF Runs
  <2>3. CASE c.mark \in {"paused", "unpaused"}
    BY <1>4, <1>8, <2>3
  <2> QED
    BY <1>3, <2>1, <2>2, <2>3 DEF Marks
<1>9. ASSUME NEW j \in Ids, NEW p \in Pids, Tells(c, file[j], j, p)
      PROVE  Tells(d, file'[j], j, p) \/ (j = c.id /\ p = c.made /\ proc'[p] # "alive")
  BY <1>8, <1>9 DEF Tells, AtFile
<1> QED
  BY <1>6, <1>7, <1>9

(* The record is gone, or torn: the update is given up.                    *)
LEMMA UpdateLostOrd ==
    ASSUME OrdInv, CmdInv, NEW k \in Cmds, NEW c, c = cmd[k], c.step = "Update",
           Quiet, Gentle, c.id \notin Readable, UNCHANGED <<file, proc>>,
           NEW d, d = At(c, c.next)
    PROVE  /\ Steady(d)' /\ ~Waits(d) /\ ~Launched(c)
           /\ \A j \in Ids, p \in Pids : Tells(c, file[j], j, p) => Tells(d, file'[j], j, p)
<1>1. Steady(c) /\ c \in Command
  BY DEF OrdInv, NoneLost, CmdInv, CmdsGood
<1>2. ~Launched(c)
  BY <1>1 DEF Steady, Resting, Readable
<1>3. c.next \in {"Idle", "Delete"} /\ (c.op = "prune" => c.next = "Idle") /\ c.mark # "stopped"
  BY <1>1, <1>2 DEF Steady
<1>4. /\ d.step = c.next
      /\ d.step = "Idle" => d = Idle
      /\ d.step # "Idle" => d.op = c.op /\ d.mark = c.mark /\ d.next = c.next
  BY <1>1, AtIs
<1>5. Steady(d)' /\ ~Waits(d)
  <2>1. CASE d.step = "Idle"
    BY <1>4, <2>1, IdleIs DEF Steady, AtFile, Launched, Waits
  <2>2. CASE d.step = "Delete"
    BY <1>3, <1>4, <2>2 DEF Steady, AtFile, Launched, Waits
  <2> QED
    BY <1>3, <1>4, <2>1, <2>2
<1>6. ASSUME NEW j \in Ids, NEW p \in Pids, Tells(c, file[j], j, p)
      PROVE  Tells(d, file'[j], j, p)
  BY <1>3, <1>4, <1>6 DEF Tells, AtFile
<1> QED
  BY <1>2, <1>5, <1>6

(* Update: what is told of the process changes by the mark; it is lost     *)
(* only where the process has ended.                                       *)
LEMMA UpdateOrd ==
    ASSUME OrdInv, CmdInv, NEW k \in Cmds, Update(k) PROVE OrdInv'
<1>1. PICK c : c = cmd[k]
  OBVIOUS
<1>2. PICK d : d = IF c.id \in Readable
                   THEN [c EXCEPT !.step = "Truncate",
                                  !.copy = Change(c.mark, file[c.id], c.made)]
                   ELSE At(c, c.next)
  OBVIOUS
<1>3. /\ c.step = "Update" /\ cmd' = [cmd EXCEPT ![k] = d]
      /\ UNCHANGED <<file, fresh, proc, owner, menu, deaths, overlapped>>
  BY <1>1, <1>2 DEF Update
<1>4. c \in Command /\ Shaped(c)
  BY <1>1 DEF CmdInv, CmdsGood, GoodCmd
<1>5. c.id \in Readable =>
        /\ d.step = "Truncate" /\ d.copy = Change(c.mark, file[c.id], c.made)
        /\ d.op = c.op /\ d.id = c.id /\ d.made = c.made /\ d.next = c.next /\ d.mark = c.mark
  BY <1>2, <1>4 DEF Command
<1>6. c.id \notin Readable => d = At(c, c.next) /\ d.step = c.next
  BY <1>2, <1>4, AtIs
<1>7. d.step # "Write"
  BY <1>4, <1>5, <1>6 DEF Shaped
<1>8. /\ d.op \in menu.ops \cup {"none"}
      /\ d.id = c.id \/ d.id \notin fresh
      /\ d.made \in {c.made, NoPid}
  <2>1. CASE c.id \in Readable
    BY <1>1, <1>5, <2>1 DEF OrdInv, Always, InMenu
  <2>2. CASE c.id \notin Readable
    BY <1>1, <1>4, <1>6, <2>2, AtKeeps
  <2> QED
    BY <2>1, <2>2
<1>9. cmd'[k] = d /\ \A j \in Cmds \ {k} : cmd'[j] = cmd[j]
  BY <1>3 DEF CmdInv, CmdsGood
<1>10. Always'
  BY <1>1, <1>3, <1>8, <1>9, AlwaysStepped DEF OrdInv, Always, StillFresh
<1>11. Quiet => Alone(k)
  BY <1>1, <1>3, AtWorkAlone DEF Busy
<1>12. Quiet' => Quiet /\ Alone(k) /\ \A j \in Cmds \ {k} : cmd'[j] = cmd[j]
  BY <1>3, <1>9, <1>11 DEF Quiet
<1>13. Quiet' /\ Mild => \A j \in Ids : file'[j] = Torn =>
          \/ d.step = "Write" /\ d.id = j
          \/ file[j] = Torn /\ c.step # "Write"
  BY <1>3
<1>14. ~Waits(d) \/ ~(Quiet /\ Gentle)
  <2>1. CASE c.id \in Readable
    BY <1>5, <2>1 DEF Waits
  <2>2. CASE c.id \notin Readable
    BY <1>1, <1>3, <1>6, <2>2, UpdateLostOrd
  <2> QED
    BY <2>1, <2>2
<1>15. Quiet /\ Gentle =>
        /\ Steady(d)'
        /\ \A j \in Ids, p \in Pids : Tells(c, file[j], j, p) =>
              Tells(d, file'[j], j, p) \/ (j = c.id /\ p = c.made /\ proc'[p] # "alive")
        /\ Launched(c) => Tells(d, file'[c.id], c.id, c.made)
  <2>1. CASE c.id \in Readable
    BY <1>1, <1>3, <1>5, <2>1, UpdateFoundOrd
  <2>2. CASE c.id \notin Readable
    BY <1>1, <1>3, <1>6, <2>2, UpdateLostOrd
  <2> QED
    BY <2>1, <2>2
<1>16. Quiet' /\ Gentle =>
              /\ Steady(d)'
              /\ \A j \in Ids, p \in Pids : Tells(c, file[j], j, p) =>
                    Tells(d, file'[j], j, p) \/ (j = c.id /\ p = c.made /\ proc'[p] # "alive")
              /\ \A p \in Pids : proc'[p] = "alive" =>
                    \/ proc[p] = "alive" /\ owner'[p] = owner[p]
                    \/ Launched(d) /\ d.made = p /\ d.id = owner'[p] /\ owner'[p] \in Ids
              /\ Launched(c) => Tells(d, file'[c.id], c.id, c.made)
              /\ Waits(d) => Tells(d, file'[d.id], d.id, d.made)
  BY <1>3, <1>12, <1>14, <1>15
<1>17. menu' = menu /\ (Quiet' /\ d.step = "Write" => d.fd = "clean")
  BY <1>3, <1>7
<1> QED
  BY <1>1, <1>9, <1>10, <1>12, <1>13, <1>16, <1>17, OrdStepped

(* A file that is removed is one of a container that does not run.         *)
LEMMA UnlinkedOrd ==
    ASSUME OrdInv, CmdInv, NEW k \in Cmds, NEW c, c = cmd[k], c.step \in {"Each", "Unlink"},
           NEW i, NEW s \in {"Each", "Idle"}, Unlinked(k, i, s),
           s = "Each" => c.step = "Each" \/ c.op = "prune",
           Quiet /\ Gentle => Resting(i)
    PROVE  OrdInv'
<1>1. PICK e : e = [c EXCEPT !.todo = @ \ {i}]
  OBVIOUS
<1>2. PICK d : d = At(e, s)
  OBVIOUS
<1>3. /\ file' = [file EXCEPT ![i] = NoRecord]
      /\ cmd' = [Noticed(cmd, k, i, "gone") EXCEPT ![k] = d]
      /\ UNCHANGED <<fresh, proc, owner, menu, deaths, overlapped>>
  BY <1>1, <1>2 DEF Unlinked
<1>4. c \in Command
  BY DEF CmdInv, CmdsGood
<1>5. /\ e \in Command /\ e.op = c.op /\ e.id = c.id /\ e.made = c.made
      /\ e.next = c.next /\ e.mark = c.mark /\ e.copy = c.copy /\ e.todo = c.todo \ {i}
  BY <1>1, <1>4 DEF Command
<1>6. /\ d.step = s
      /\ s = "Idle" => d = Idle
      /\ s # "Idle" => /\ d.op = c.op /\ d.id = c.id /\ d.made = c.made /\ d.next = c.next
                       /\ d.mark = c.mark /\ d.copy = c.copy /\ d.todo = c.todo \ {i}
  BY <1>2, <1>5, AtIs
<1>7. /\ d.op \in menu.ops \cup {"none"}
      /\ d.id = c.id \/ d.id \notin fresh
      /\ d.made \in {c.made, NoPid}
  BY <1>2, <1>5, AtKeeps
<1>8. Busy(k) /\ ~Launched(c) /\ d.step # "Write" /\ c.step # "Write"
  BY <1>6 DEF Busy, Launched
<1>9. ASSUME Quiet, Gentle
      PROVE  /\ Steady(d)'
             /\ \A j \in Ids, p \in Pids : Tells(c, file[j], j, p) => Tells(d, file'[j], j, p)
             /\ ~Waits(d)
  <2>1. Steady(c)
    BY <1>9 DEF OrdInv, NoneLost
  <2>2. \A j \in Ids : file'[j] = IF j = i THEN NoRecord ELSE file[j]
    BY <1>3 DEF CmdInv, FilesGood
  <2>3. Steady(d)'
    <3>1. CASE s = "Idle"
      BY <1>6, <3>1, IdleIs DEF Steady, AtFile, Launched, Waits
    <3>2. CASE s = "Each" /\ c.op = "prune"
      BY <1>6, <2>1, <3>2 DEF Steady, AtFile, Launched, Waits
    <3>3. CASE s = "Each" /\ c.op # "prune" /\ c.step = "Each"
      <4>1. /\ c.op \in Creating /\ c.next \in {"Idle", "Truncate"}
            /\ c.id \in Ids /\ file[c.id] = NoRecord
            /\ c.copy \in Record /\ ~c.copy.running
            /\ \A j \in c.todo : Resting(j)
            /\ c.mark # "stopped"
        BY <2>1, <3>3 DEF Steady
      <4>2. file'[c.id] = NoRecord
        BY <2>2, <4>1
      <4>3. c.todo \subseteq Ids
        BY <1>4 DEF Command
      <4>4. \A j \in d.todo : Resting(j)'
        BY <1>6, <2>2, <3>3, <4>1, <4>3 DEF Resting
      <4> QED
        BY <1>6, <3>3, <4>1, <4>2, <4>4 DEF Steady, AtFile, Launched, Waits
    <3> QED
      BY <3>1, <3>2, <3>3
  <2>4. \A p : ~Runs(file[i], p)
    BY <1>9 DEF Resting, Runs
  <2>5. \A j \in Ids, p \in Pids : Tells(c, file[j], j, p) => Tells(d, file'[j], j, p)
    BY <1>6, <2>2, <2>4 DEF Tells, AtFile
  <2> QED
    BY <1>6, <2>3, <2>5 DEF Waits
<1>10. Torn # NoRecord
  BY CommandValues
<1> QED
  BY <1>3, <1>7, <1>8, <1>9, <1>10, OrdFiled

(* CreateReplaces: the namesake is at rest, so no process is lost.         *)
LEMMA CreateReplacesOrd ==
    ASSUME OrdInv, CmdInv, NEW k \in Cmds, CreateReplaces(k) PROVE OrdInv'
<1>1. PICK c : c = cmd[k]
  OBVIOUS
<1>2. PICK i \in Ids : i \in c.todo /\ Unlinked(k, i, "Each")
  BY <1>1 DEF CreateReplaces, IsFirst
<1>3. c.step = "Each" /\ c.op \in Creating
  BY <1>1 DEF CreateReplaces
<1>4. Quiet /\ Gentle => Resting(i)
  BY <1>1, <1>2, <1>3 DEF OrdInv, NoneLost, Steady, Creating
<1> QED
  BY <1>1, <1>2, <1>3, <1>4, UnlinkedOrd

(* Unlink: the container is at rest, so no process is lost.                *)
LEMMA UnlinkOrd ==
    ASSUME OrdInv, CmdInv, NEW k \in Cmds, Unlink(k) PROVE OrdInv'
<1>1. PICK c : c = cmd[k]
  OBVIOUS
<1>2. c.step = "Unlink" /\ Unlinked(k, c.id, AfterDelete(c))
  BY <1>1 DEF Unlink
<1>3. AfterDelete(c) \in {"Each", "Idle"} /\ (AfterDelete(c) = "Each" => c.op = "prune")
  BY DEF AfterDelete
<1>4. Quiet /\ Gentle => Resting(c.id)
  BY <1>1, <1>2 DEF OrdInv, NoneLost, Steady
<1> QED
  BY <1>1, <1>2, <1>3, <1>4, UnlinkedOrd

(* EachDone: the new record is about to be written, and runs nothing.      *)
LEMMA EachDoneOrd ==
    ASSUME OrdInv, CmdInv, NEW k \in Cmds, EachDone(k) PROVE OrdInv'
<1>1. PICK c : c = cmd[k]
  OBVIOUS
<1>2. PICK e : e = [c EXCEPT !.next = IF c.op = "create" THEN "Idle" ELSE "Launch"]
  OBVIOUS
<1>3. PICK d : d = At(e, c.next)
  OBVIOUS
<1>4. /\ c.step = "Each" /\ cmd' = [cmd EXCEPT ![k] = d]
      /\ UNCHANGED <<file, fresh, proc, owner, menu, deaths, overlapped>>
  BY <1>1, <1>2, <1>3 DEF EachDone
<1>5. c \in Command /\ Shaped(c)
  BY <1>1 DEF CmdInv, CmdsGood, GoodCmd
<1>6. /\ e \in Command /\ e.op = c.op /\ e.id = c.id /\ e.made = c.made
      /\ e.next \in {"Idle", "Launch"} /\ e.mark = c.mark /\ e.copy = c.copy
  BY <1>2, <1>5 DEF Command, Steps
<1>7. /\ d.step = c.next
      /\ c.next = "Idle" => d = Idle
      /\ c.next # "Idle" => /\ d.op = c.op /\ d.id = c.id /\ d.made = c.made
                            /\ d.next \in {"Idle", "Launch"} /\ d.mark = c.mark /\ d.copy = c.copy
  BY <1>3, <1>6, AtIs
<1>8. /\ d.op \in menu.ops \cup {"none"}
      /\ d.id = c.id \/ d.id \notin fresh
      /\ d.made \in {c.made, NoPid}
  BY <1>1, <1>3, <1>6, AtKeeps
<1>9. d.step # "Write" /\ c.step # "Write" /\ ~Launched(c)
  BY <1>4, <1>5, <1>7 DEF Shaped, Launched
<1>10. cmd'[k] = d /\ \A j \in Cmds \ {k} : cmd'[j] = cmd[j]
  BY <1>4 DEF CmdInv, CmdsGood
<1>11. Always'
  BY <1>1, <1>4, <1>8, <1>10, AlwaysStepped DEF OrdInv, Always, StillFresh
<1>12. Quiet => Alone(k)
  BY <1>1, <1>4, AtWorkAlone DEF Busy
<1>13. Quiet' => Quiet /\ Alone(k) /\ \A j \in Cmds \ {k} : cmd'[j] = cmd[j]
  BY <1>4, <1>10, <1>12 DEF Quiet
<1>14. ASSUME Quiet, Gentle
       PROVE  /\ Steady(d)' /\ ~Waits(d)
              /\ \A j \in Ids, p \in Pids : Tells(c, file[j], j, p) => Tells(d, file'[j], j, p)
  <2>1. Steady(c)
    BY <1>1, <1>14 DEF OrdInv, NoneLost
  <2>2. CASE c.next = "Idle"
    <3>1. Steady(d)' /\ ~Waits(d)
      BY <1>7, <2>2, IdleIs DEF Steady, AtFile, Launched, Waits
    <3> QED
      BY <1>4, <1>7, <2>2, <3>1 DEF Tells, AtFile
  <2>3. CASE c.next # "Idle"
    <3>1. /\ c.op \in Creating /\ c.op # "prune" /\ c.next = "Truncate"
          /\ c.id \in Ids /\ file[c.id] = NoRecord
          /\ c.copy \in Record /\ ~c.copy.running /\ c.mark # "stopped"
      BY <1>4, <2>1, <2>3 DEF Steady
    <3>2. Steady(d)' /\ ~Waits(d)
      BY <1>7, <2>3, <3>1 DEF Steady, AtFile, Launched, Waits
    <3>3. \A p : ~Runs(file[c.id], p)
      BY <3>1, CommandValues DEF Runs
    <3>4. \A j \in Ids, p \in Pids : Tells(c, file[j], j, p) => Tells(d, file'[j], j, p)
      BY <1>4, <1>7, <2>3, <3>1, <3>3 DEF Tells, AtFile
    <3> QED
      BY <3>2, <3>4
  <2> QED
    BY <2>2, <2>3
<1>15. Quiet' /\ Gentle =>
              /\ Steady(d)'
              /\ \A j \in Ids, p \in Pids : Tells(c, file[j], j, p) =>
                    Tells(d, file'[j], j, p) \/ (j = c.id /\ p = c.made /\ proc'[p] # "alive")
              /\ \A p \in Pids : proc'[p] = "alive" =>
                    \/ proc[p] = "alive" /\ owner'[p] = owner[p]
                    \/ Launched(d) /\ d.made = p /\ d.id = owner'[p] /\ owner'[p] \in Ids
              /\ Launched(c) => Tells(d, file'[c.id], c.id, c.made)
              /\ Waits(d) => Tells(d, file'[d.id], d.id, d.made)
  BY <1>4, <1>9, <1>13, <1>14
<1>16. Quiet' /\ Mild => \A j \in Ids : file'[j] = Torn =>
          \/ d.step = "Write" /\ d.id = j
          \/ file[j] = Torn /\ c.step # "Write"
  BY <1>4
<1>17. menu' = menu /\ (Quiet' /\ d.step = "Write" => d.fd = "clean")
  BY <1>4, <1>9
<1> QED
  BY <1>1, <1>10, <1>11, <1>13, <1>15, <1>16, <1>17, OrdStepped

-----------------------------------------------------------------------------
(* The steps that launch and that wait.                                    *)

(* Launch: the process is told by the command that will record it.         *)
LEMMA LaunchOrd ==
    ASSUME OrdInv, CmdInv, NEW k \in Cmds, Launch(k) PROVE OrdInv'
<1>1. PICK c : c = cmd[k]
  OBVIOUS
<1>2. PICK p \in Pids, native \in BOOLEAN :
          /\ IsFirst(p, {q \in menu.pids : proc[q] = "none"})
          /\ proc' = [proc EXCEPT ![p] = "alive"]
          /\ owner' = [owner EXCEPT ![p] = c.id]
          /\ cmd' = [cmd EXCEPT ![k] =
                       Updating([c EXCEPT !.made = p], c.id, "running",
                                IF c.op \in {"run", "run_rm"} THEN "Wait" ELSE "Leave")]
  BY <1>1 DEF Launch
<1>3. PICK next : next = IF c.op \in {"run", "run_rm"} THEN "Wait" ELSE "Leave"
  OBVIOUS
<1>0. PICK e : e = [c EXCEPT !.made = p]
  OBVIOUS
<1>4. PICK d : d = Updating(e, c.id, "running", next)
  OBVIOUS
<1>5. c.step = "Launch" /\ UNCHANGED <<file, fresh, menu, deaths, overlapped>>
  BY <1>1 DEF Launch
<1>6. c \in Command
  BY <1>1 DEF CmdInv, CmdsGood
<1>7. e \in Command /\ e.op = c.op /\ e.made = p
  BY <1>0, <1>6 DEF Command
<1>8. /\ d.op = c.op /\ d.step = "Update" /\ d.id = c.id /\ d.made = p
      /\ d.next = next /\ d.mark = "running"
  BY <1>4, <1>7, UpdatingIs
<1>9. cmd' = [cmd EXCEPT ![k] = d]
  BY <1>0, <1>2, <1>3, <1>4
<1>10. cmd'[k] = d /\ \A j \in Cmds \ {k} : cmd'[j] = cmd[j]
  BY <1>9 DEF CmdInv, CmdsGood
<1>11. proc[p] = "none"
  BY <1>2 DEF IsFirst
<1>12. d.op \in menu.ops \cup {"none"}
  BY <1>1, <1>8 DEF OrdInv, Always, InMenu
<1>13. Always'
  BY <1>1, <1>5, <1>8, <1>10, <1>11, <1>12, AlwaysStepped DEF OrdInv, Always, StillFresh
<1>14. Quiet => Alone(k)
  BY <1>1, <1>5, AtWorkAlone DEF Busy
<1>15. Quiet' => Quiet /\ Alone(k) /\ \A j \in Cmds \ {k} : cmd'[j] = cmd[j]
  BY <1>5, <1>10, <1>14 DEF Quiet
<1>16. ~Launched(c) /\ ~Waits(d) /\ Launched(d)
  BY <1>5, <1>8 DEF Launched, Waits
<1>17. \A q \in Pids \ {p} : proc'[q] = proc[q] /\ owner'[q] = owner[q]
  BY <1>2 DEF CmdInv, RestTyped
<1>18. owner'[p] = c.id
  BY <1>2 DEF CmdInv, RestTyped
<1>19. ASSUME Quiet, Gentle PROVE Steady(d)' /\ c.id \in Ids
  <2>1. Steady(c)
    BY <1>1, <1>19 DEF OrdInv, NoneLost
  <2>2. c.id \in Ids /\ Resting(c.id) /\ c.op # "prune"
    BY <1>5, <2>1 DEF Steady
  <2>3. Resting(d.id)'
    BY <1>5, <1>8, <2>2 DEF Resting
  <2>4. next \in {"Wait", "Leave"}
    BY <1>3
  <2> QED
    BY <1>8, <2>2, <2>3, <2>4 DEF Steady, Launched, Waits, AtFile
<1>20. \A i \in Ids, q \in Pids : Tells(c, file[i], i, q) => Tells(d, file'[i], i, q)
  BY <1>5, <1>8 DEF Tells, AtFile
<1>21. \A q \in Pids : proc'[q] = "alive" =>
          \/ proc[q] = "alive" /\ owner'[q] = owner[q]
          \/ q = p
  BY <1>17
<1>22. Quiet' /\ Gentle =>
              /\ Steady(d)'
              /\ \A i \in Ids, q \in Pids : Tells(c, file[i], i, q) =>
                    Tells(d, file'[i], i, q) \/ (i = c.id /\ q = c.made /\ proc'[q] # "alive")
              /\ \A q \in Pids : proc'[q] = "alive" =>
                    \/ proc[q] = "alive" /\ owner'[q] = owner[q]
                    \/ Launched(d) /\ d.made = q /\ d.id = owner'[q] /\ owner'[q] \in Ids
              /\ Launched(c) => Tells(d, file'[c.id], c.id, c.made)
              /\ Waits(d) => Tells(d, file'[d.id], d.id, d.made)
  BY <1>8, <1>15, <1>16, <1>18, <1>19, <1>20, <1>21
<1>23. Quiet' /\ Mild => \A i \in Ids : file'[i] = Torn =>
          \/ d.step = "Write" /\ d.id = i
          \/ file[i] = Torn /\ c.step # "Write"
  BY <1>5
<1>24. menu' = menu /\ (Quiet' /\ d.step = "Write" => d.fd = "clean")
  BY <1>5, <1>8
<1> QED
  BY <1>1, <1>10, <1>13, <1>15, <1>22, <1>23, <1>24, OrdStepped

(* A command at work that goes on and changes nothing else.                *)
LEMMA OrdOn ==
    ASSUME OrdInv, CmdInv, NEW k \in Cmds, NEW c, c = cmd[k], Busy(k), NEW d,
           cmd' = [cmd EXCEPT ![k] = d],
           UNCHANGED <<file, fresh, proc, owner, menu, deaths, overlapped>>,
           d.op \in menu.ops \cup {"none"}, d.id = c.id \/ d.id \notin fresh,
           d.made \in {c.made, NoPid},
           d.step \notin AtFile, c.step \notin AtFile, ~Launched(c), ~Waits(d),
           Quiet /\ Gentle => Steady(d)
    PROVE  OrdInv'
<1>1. Quiet' => Quiet /\ Alone(k)
  BY AtWorkAlone DEF Quiet
<1>2. Quiet' /\ Gentle => Steady(d)'
  BY <1>1, SteadySame
<1> QED
  BY <1>1, <1>2, OrdMoved

(* A command at work that ends.                                            *)
LEMMA OrdEnds ==
    ASSUME OrdInv, CmdInv, NEW k \in Cmds, NEW c, c = cmd[k], Busy(k),
           cmd' = [cmd EXCEPT ![k] = Idle],
           UNCHANGED <<file, fresh, proc, owner, menu, deaths, overlapped>>,
           c.step \notin AtFile, ~Launched(c)
    PROVE  OrdInv'
<1>1. PICK d : d = Idle
  OBVIOUS
<1>2. d.op = "none" /\ d.step = "Idle" /\ d.id = NoId /\ d.made = NoPid
  BY <1>1, IdleIs
<1>3. d.step \notin AtFile /\ ~Waits(d) /\ Steady(d) /\ NoId \notin fresh
  BY <1>1, <1>2, IdleSteady, NoIdIsOld DEF AtFile
<1> QED
  BY <1>1, <1>2, <1>3, OrdOn

(* The end of a command.                                                   *)
LEMMA GotoIdle == ASSUME NEW k, Goto(k, "Idle") PROVE cmd' = [cmd EXCEPT ![k] = Idle]
BY DEF Goto, At

(* LaunchFails: nothing was launched.                                      *)
LEMMA LaunchFailsOrd ==
    ASSUME OrdInv, CmdInv, NEW k \in Cmds, LaunchFails(k) PROVE OrdInv'
<1>1. PICK c : c = cmd[k]
  OBVIOUS
<1>2. /\ c.step = "Launch" /\ cmd' = [cmd EXCEPT ![k] = Idle]
      /\ UNCHANGED <<file, fresh, proc, owner, menu, deaths, overlapped>>
  BY <1>1, GotoIdle DEF LaunchFails
<1>3. Busy(k) /\ c.step \notin AtFile /\ ~Launched(c)
  BY <1>1, <1>2 DEF Busy, AtFile, Launched
<1> QED
  BY <1>1, <1>2, <1>3, OrdEnds

(* The process is gone: the command records that.                          *)
LEMMA WokenOrd ==
    ASSUME OrdInv, CmdInv, NEW k \in Cmds, NEW c, c = cmd[k], c.step \in {"Wait", "Leave"},
           proc[c.made] = "gone", Works(k), NEW d, cmd' = [cmd EXCEPT ![k] = d],
           UNCHANGED <<file, fresh, proc, owner, menu, deaths>>,
           d.op = c.op, d.step = "Update", d.id = c.id, d.made = c.made,
           d.mark \in {"exited", "gone"}, d.next \in {"Idle", "Delete"},
           c.op = "prune" => d.next = "Idle"
    PROVE  OrdInv'
<1>1. Quiet' => Quiet /\ Alone(k)
  BY BeginsAlone
<1>2. d.op \in menu.ops \cup {"none"} /\ fresh' \subseteq fresh
  BY DEF OrdInv, Always, InMenu
<1>3. d.step \notin AtFile /\ c.step \notin AtFile /\ ~Launched(c) /\ Waits(c)
  BY DEF AtFile, Launched, Waits
<1>4. ASSUME Quiet, Gentle PROVE Steady(d)'
  <2>1. Steady(c)
    BY <1>4 DEF OrdInv, NoneLost
  <2>2. c.id \in Ids /\ c.made # NoPid
    BY <1>3, <2>1 DEF Steady
  <2> QED
    BY <2>2 DEF Steady, Launched, Waits, AtFile
<1>5. Quiet' /\ Gentle => Steady(d)' /\ (Waits(d) => Waits(c) /\ d.id = c.id /\ d.made = c.made)
  BY <1>1, <1>3, <1>4
<1> QED
  BY <1>1, <1>2, <1>3, <1>5, OrdMoved

(* Exited: the process to be taken from the record has ended.              *)
LEMMA ExitedOrd ==
    ASSUME OrdInv, CmdInv, NEW k \in Cmds, Exited(k) PROVE OrdInv'
<1>1. PICK c : c = cmd[k]
  OBVIOUS
<1>2. PICK next : next = IF c.op = "run_rm" THEN "Delete" ELSE "Idle"
  OBVIOUS
<1>3. PICK d : d = Updating([c EXCEPT !.ref = c.id], c.id, "exited", next)
  OBVIOUS
<1>4. /\ c.step = "Wait" /\ proc[c.made] = "gone" /\ cmd' = [cmd EXCEPT ![k] = d]
      /\ Works(k) /\ UNCHANGED <<file, fresh, proc, owner, menu, deaths>>
  BY <1>1, <1>2, <1>3 DEF Exited
<1>5. c \in Command
  BY <1>1 DEF CmdInv, CmdsGood
<1>6. /\ d.op = c.op /\ d.step = "Update" /\ d.id = c.id /\ d.made = c.made
      /\ d.mark = "exited" /\ d.next = next
  BY <1>3, <1>5 DEF Updating, Command
<1>7. next \in {"Idle", "Delete"} /\ (c.op = "prune" => next = "Idle")
  BY <1>2
<1> QED
  BY <1>1, <1>4, <1>6, <1>7, WokenOrd

(* GoroutineWakes: the same of the goroutine of run -d and start.          *)
LEMMA GoroutineWakesOrd ==
    ASSUME OrdInv, CmdInv, NEW k \in Cmds, GoroutineWakes(k) PROVE OrdInv'
<1>1. PICK c : c = cmd[k]
  OBVIOUS
<1>2. PICK m : m = IF c.op = "run_d" THEN "exited" ELSE "gone"
  OBVIOUS
<1>3. PICK rm \in {FALSE, c.op = "run_d"} :
        cmd' = [cmd EXCEPT ![k] = Updating([c EXCEPT !.ref = c.id], c.id, m,
                                           IF rm THEN "Delete" ELSE "Idle")]
  BY <1>1, <1>2 DEF GoroutineWakes
<1>4. PICK next : next = IF rm THEN "Delete" ELSE "Idle"
  OBVIOUS
<1>5. PICK d : d = Updating([c EXCEPT !.ref = c.id], c.id, m, next)
  OBVIOUS
<1>6. /\ c.step = "Leave" /\ proc[c.made] = "gone" /\ cmd' = [cmd EXCEPT ![k] = d]
      /\ Works(k) /\ UNCHANGED <<file, fresh, proc, owner, menu, deaths>>
  BY <1>1, <1>3, <1>4, <1>5 DEF GoroutineWakes
<1>7. c \in Command
  BY <1>1 DEF CmdInv, CmdsGood
<1>8. /\ d.op = c.op /\ d.step = "Update" /\ d.id = c.id /\ d.made = c.made
      /\ d.mark = m /\ d.next = next
  BY <1>5, <1>7 DEF Updating, Command
<1>9. m \in {"exited", "gone"} /\ next \in {"Idle", "Delete"}
  BY <1>2, <1>4
<1>10. c.op = "prune" => next = "Idle"
  BY <1>3, <1>4
<1> QED
  BY <1>1, <1>6, <1>8, <1>9, <1>10, WokenOrd

-----------------------------------------------------------------------------
(* Lookups that go on, and ends.                                           *)

(* A command that has found what it looked for.                            *)
LEMMA FoundIs ==
    ASSUME NEW c \in Command, NEW s, NEW i
    PROVE  LET d == [c EXCEPT !.step = s, !.id = i] IN
           /\ d.op = c.op /\ d.step = s /\ d.id = i /\ d.made = c.made
           /\ d.next = c.next /\ d.mark = c.mark
BY DEF Command

(* RestartStarts: behaviours with a restart claim only whole files.        *)
LEMMA RestartStartsOrd ==
    ASSUME OrdInv, CmdInv, NEW k \in Cmds, RestartStarts(k) PROVE OrdInv'
<1>1. PICK c : c = cmd[k]
  OBVIOUS
<1>2. /\ c.step = "Start"
      /\ \/ \E i \in Get(c.ref) : cmd' = [cmd EXCEPT ![k].step = "Launch", ![k].id = i]
         \/ Goto(k, "Idle")
      /\ UNCHANGED <<file, fresh, proc, owner, menu, deaths, overlapped>>
  BY <1>1 DEF RestartStarts
<1>3. Busy(k) /\ c.step \notin AtFile /\ ~Launched(c)
  BY <1>1, <1>2 DEF Busy, AtFile, Launched
<1>4. CASE Goto(k, "Idle")
  BY <1>1, <1>2, <1>3, <1>4, GotoIdle, OrdEnds
<1>5. ASSUME NEW i \in Get(c.ref), cmd' = [cmd EXCEPT ![k].step = "Launch", ![k].id = i]
      PROVE  OrdInv'
  <2>1. PICK d : d = [c EXCEPT !.step = "Launch", !.id = i]
    OBVIOUS
  <2>2. c \in Command /\ cmd' = [cmd EXCEPT ![k] = d]
    BY <1>1, <1>5, <2>1 DEF CmdInv, CmdsGood
  <2>3. d.op = c.op /\ d.step = "Launch" /\ d.id = i /\ d.made = c.made
    BY <2>1, <2>2, FoundIs
  <2>4. i \notin fresh
    BY FoundOld DEF OrdInv
  <2>5. d.op \in menu.ops \cup {"none"}
    BY <1>1, <2>3 DEF OrdInv, Always, InMenu
  <2>6. d.step \notin AtFile /\ ~Waits(d)
    BY <2>3 DEF AtFile, Waits
  <2>7. ~(Quiet /\ Gentle)
    BY <1>1, <1>2 DEF OrdInv, NoneLost, Steady
  <2> QED
    BY <1>1, <1>2, <1>3, <2>2, <2>3, <2>4, <2>5, <2>6, <2>7, OrdOn
<1> QED
  BY <1>2, <1>4, <1>5

(* Delete: alone, what it is about to remove is at rest.                   *)
LEMMA DeleteOrd ==
    ASSUME OrdInv, CmdInv, NEW k \in Cmds, Delete(k) PROVE OrdInv'
<1>1. PICK c : c = cmd[k]
  OBVIOUS
<1>2. /\ c.step = "Delete"
      /\ \/ \E i \in Get(c.ref) :
               ~file[i].running /\ cmd' = [cmd EXCEPT ![k].step = "Unlink", ![k].id = i]
         \/ Goto(k, AfterDelete(c))
      /\ UNCHANGED <<file, fresh, proc, owner, menu, deaths, overlapped>>
  BY <1>1 DEF Delete
<1>3. Busy(k) /\ c.step \notin AtFile /\ ~Launched(c) /\ c \in Command
  BY <1>1, <1>2 DEF Busy, AtFile, Launched, CmdInv, CmdsGood
<1>4. Quiet /\ Gentle => Steady(c)
  BY <1>1 DEF OrdInv, NoneLost
<1>5. CASE Goto(k, AfterDelete(c))
  <2>1. PICK s : s = AfterDelete(c)
    OBVIOUS
  <2>2. PICK d : d = At(c, s)
    OBVIOUS
  <2>3. cmd' = [cmd EXCEPT ![k] = d]
    BY <1>1, <1>5, <2>1, <2>2 DEF Goto
  <2>4. s \in {"Idle", "Each"} /\ (s = "Each" => c.op = "prune")
    BY <2>1 DEF AfterDelete
  <2>5. /\ d.step = s
        /\ s = "Idle" => d = Idle
        /\ s # "Idle" => d.op = c.op /\ d.next = c.next /\ d.mark = c.mark
    BY <1>3, <2>2, AtIs
  <2>6. /\ d.op \in menu.ops \cup {"none"}
        /\ d.id = c.id \/ d.id \notin fresh
        /\ d.made \in {c.made, NoPid}
    BY <1>1, <1>3, <2>2, AtKeeps
  <2>7. d.step \notin AtFile /\ ~Waits(d)
    BY <2>4, <2>5 DEF AtFile, Waits
  <2>8. Quiet /\ Gentle => Steady(d)
    <3>1. CASE s = "Idle"
      BY <2>5, <3>1, IdleSteady
    <3>2. CASE s = "Each"
      BY <1>4, <2>4, <2>5, <3>2 DEF Steady, AtFile, Launched, Waits
    <3> QED
      BY <2>4, <3>1, <3>2
  <2> QED
    BY <1>1, <1>2, <1>3, <2>3, <2>6, <2>7, <2>8, OrdOn
<1>6. ASSUME NEW i \in Get(c.ref), ~file[i].running,
             cmd' = [cmd EXCEPT ![k].step = "Unlink", ![k].id = i]
      PROVE  OrdInv'
  <2>1. PICK d : d = [c EXCEPT !.step = "Unlink", !.id = i]
    OBVIOUS
  <2>2. cmd' = [cmd EXCEPT ![k] = d]
    BY <1>1, <1>6, <2>1 DEF CmdInv, CmdsGood
  <2>3. /\ d.op = c.op /\ d.step = "Unlink" /\ d.id = i /\ d.made = c.made
        /\ d.next = c.next /\ d.mark = c.mark
    BY <1>3, <2>1, FoundIs
  <2>4. i \in Ids /\ i \notin fresh /\ file[i] \in Record
    BY FoundOld DEF OrdInv
  <2>5. d.op \in menu.ops \cup {"none"}
    BY <1>1, <2>3 DEF OrdInv, Always, InMenu
  <2>6. d.step \notin AtFile /\ ~Waits(d)
    BY <2>3 DEF AtFile, Waits
  <2>7. Quiet /\ Gentle => Steady(d)
    BY <1>4, <1>6, <2>3, <2>4 DEF Steady, Resting, AtFile, Launched, Waits
  <2> QED
    BY <1>1, <1>2, <1>3, <2>2, <2>3, <2>4, <2>5, <2>6, <2>7, OrdOn
<1> QED
  BY <1>2, <1>5, <1>6

(* PruneNext: on to the next of the list.                                  *)
LEMMA PruneNextOrd ==
    ASSUME OrdInv, CmdInv, NEW k \in Cmds, PruneNext(k) PROVE OrdInv'
<1>1. PICK c : c = cmd[k]
  OBVIOUS
<1>2. /\ c.step = "Each" /\ c.op = "prune"
      /\ UNCHANGED <<file, fresh, proc, owner, menu, deaths, overlapped>>
  BY <1>1 DEF PruneNext
<1>3. PICK i \in Ids :
        cmd' = [cmd EXCEPT ![k].step = "Delete", ![k].ref = i, ![k].todo = @ \ {i}]
  BY DEF PruneNext
<1>4. PICK d : d = [c EXCEPT !.step = "Delete", !.ref = i, !.todo = @ \ {i}]
  OBVIOUS
<1>5. c \in Command /\ cmd' = [cmd EXCEPT ![k] = d]
  BY <1>1, <1>3, <1>4 DEF CmdInv, CmdsGood
<1>6. /\ d.op = c.op /\ d.step = "Delete" /\ d.id = c.id /\ d.made = c.made
      /\ d.next = c.next /\ d.mark = c.mark
  BY <1>4, <1>5 DEF Command
<1>7. d.op \in menu.ops \cup {"none"}
  BY <1>1, <1>6 DEF OrdInv, Always, InMenu
<1>8. Busy(k) /\ c.step \notin AtFile /\ d.step \notin AtFile /\ ~Launched(c) /\ ~Waits(d)
  BY <1>1, <1>2, <1>6 DEF Busy, AtFile, Launched, Waits
<1>9. ASSUME Quiet, Gentle PROVE Steady(d)
  <2>1. Steady(c)
    BY <1>1, <1>9 DEF OrdInv, NoneLost
  <2> QED
    BY <1>2, <1>6, <2>1 DEF Steady, AtFile, Launched, Waits
<1> QED
  BY <1>1, <1>2, <1>5, <1>6, <1>7, <1>8, <1>9, OrdOn

(* A wait goes on, or is over: it has never been at work.                  *)
LEMMA WaitOrd ==
    ASSUME OrdInv, CmdInv, CmdInv', NEW k \in Cmds, NEW c, c = cmd[k],
           c.step \in {"Poll", "Report"}, NEW d, cmd' = [cmd EXCEPT ![k] = d],
           d.step \in {"Idle", "Poll", "Report"}, d.op \in {c.op, "none"},
           d.id = c.id \/ d.id \notin fresh, d.made \in {c.made, NoPid},
           Steady(c) => Steady(d)',
           UNCHANGED <<file, fresh, proc, owner, menu, deaths, overlapped>>
    PROVE  OrdInv'
<1>1. cmd'[k] = d /\ \A j \in Cmds \ {k} : cmd'[j] = cmd[j]
  BY DEF CmdInv, CmdsGood
<1>2. d.op \in menu.ops \cup {"none"}
  BY DEF OrdInv, Always, InMenu
<1>3. Always'
  BY <1>1, <1>2, AlwaysStepped DEF OrdInv, Always, StillFresh
<1>4. Quiet' => Quiet
  BY DEF Quiet
<1>5. \A j \in Cmds : \/ cmd'[j] = cmd[j]
                      \/ /\ ~Busy(j) /\ cmd'[j].step \in {"Idle", "Poll", "Report"}
                         /\ Steady(cmd[j]) => Steady(cmd[j])'
  <2>1. ~Busy(k) /\ cmd'[k].step \in {"Idle", "Poll", "Report"}
    BY <1>1 DEF Busy
  <2>2. Steady(cmd[k]) => Steady(cmd[k])'
    BY <1>1
  <2> QED
    BY <1>1, <2>1, <2>2
<1>6. \A p \in Pids : (proc'[p] = "alive" => proc[p] = "alive")
                      /\ (proc[p] = "gone" => proc'[p] = "gone")
  OBVIOUS
<1>7. UNCHANGED <<file, menu, deaths, owner>>
  OBVIOUS
<1> QED
  BY <1>3, <1>4, <1>5, <1>6, <1>7, OrdStill

(* The end of a wait.                                                      *)
LEMMA WaitEndsOrd ==
    ASSUME OrdInv, CmdInv, CmdInv', NEW k \in Cmds, NEW c, c = cmd[k],
           c.step \in {"Poll", "Report"}, cmd' = [cmd EXCEPT ![k] = Idle],
           UNCHANGED <<file, fresh, proc, owner, menu, deaths, overlapped>>
    PROVE  OrdInv'
<1>1. PICK d : d = Idle
  OBVIOUS
<1>2. d.op = "none" /\ d.step = "Idle" /\ d.id = NoId /\ d.made = NoPid
  BY <1>1, IdleIs
<1>3. Steady(d)'
  BY <1>1, <1>2, IdleSteady, RestsSteady
<1>4. cmd' = [cmd EXCEPT ![k] = d] /\ NoId \notin fresh
  BY <1>1, NoIdIsOld
<1> QED
  BY <1>2, <1>3, <1>4, WaitOrd

(* Poll: the wait stays, with what it has found, or reports, or ends.      *)
LEMMA PollOrd ==
    ASSUME OrdInv, CmdInv, CmdInv', NEW k \in Cmds, Poll(k) PROVE OrdInv'
<1>1. PICK c : c = cmd[k]
  OBVIOUS
<1>2. /\ c.step = "Poll"
      /\ \/ \E i \in Get(c.ref) : cmd' = [cmd EXCEPT ![k].id = i]
         \/ Goto(k, "Report")
         \/ Goto(k, "Idle")
      /\ UNCHANGED <<file, fresh, proc, owner, menu, deaths, overlapped>>
  BY <1>1 DEF Poll
<1>3. c \in Command
  BY <1>1 DEF CmdInv, CmdsGood
<1>4. CASE Goto(k, "Idle")
  BY <1>1, <1>2, <1>4, GotoIdle, WaitEndsOrd
<1>5. CASE Goto(k, "Report")
  <2>1. PICK d : d = [c EXCEPT !.step = "Report"]
    OBVIOUS
  <2>2. cmd' = [cmd EXCEPT ![k] = d]
    BY <1>1, <1>5, <2>1 DEF Goto, At
  <2>3. /\ d.op = c.op /\ d.step = "Report" /\ d.id = c.id /\ d.made = c.made
        /\ d.next = c.next /\ d.mark = c.mark
    BY <1>3, <2>1 DEF Command
  <2>4. Steady(c) => Steady(d)'
    BY <1>2, <2>3 DEF Steady, AtFile, Launched, Waits
  <2> QED
    BY <1>1, <1>2, <2>2, <2>3, <2>4, WaitOrd
<1>6. ASSUME NEW i \in Get(c.ref), cmd' = [cmd EXCEPT ![k].id = i] PROVE OrdInv'
  <2>1. PICK d : d = [c EXCEPT !.id = i]
    OBVIOUS
  <2>2. cmd' = [cmd EXCEPT ![k] = d]
    BY <1>1, <1>6, <2>1 DEF CmdInv, CmdsGood
  <2>3. /\ d.op = c.op /\ d.step = "Poll" /\ d.id = i /\ d.made = c.made
        /\ d.next = c.next /\ d.mark = c.mark
    BY <1>2, <1>3, <2>1 DEF Command
  <2>4. i \notin fresh
    BY FoundOld DEF OrdInv
  <2>5. Steady(c) => Steady(d)'
    BY <1>2, <2>3 DEF Steady, AtFile, Launched, Waits
  <2> QED
    BY <1>1, <1>2, <2>2, <2>3, <2>4, <2>5, WaitOrd
<1> QED
  BY <1>2, <1>4, <1>5, <1>6

(* Report: nothing is left to do.                                          *)
LEMMA ReportOrd ==
    ASSUME OrdInv, CmdInv, CmdInv', NEW k \in Cmds, Report(k) PROVE OrdInv'
<1>1. PICK c : c = cmd[k]
  OBVIOUS
<1>2. /\ c.step = "Report" /\ cmd' = [cmd EXCEPT ![k] = Idle]
      /\ UNCHANGED <<file, fresh, proc, owner, menu, deaths, overlapped>>
  BY <1>1, GotoIdle DEF Report
<1> QED
  BY <1>1, <1>2, WaitEndsOrd

(* The end of a command: what it had launched natively ends too.           *)
LEMMA LeavesIs ==
    ASSUME OrdInv, CmdInv, NEW k \in Cmds, Leaves(k), UNCHANGED <<file, fresh, owner, menu>>
    PROVE  /\ cmd'[k] = Idle /\ \A j \in Cmds \ {k} : cmd'[j] = cmd[j]
           /\ \A p \in Pids : (proc'[p] = "alive" => proc[p] = "alive")
                              /\ (proc[p] = "gone" => proc'[p] = "gone")
           /\ Always'
<1>1. cmd'[k] = Idle /\ \A j \in Cmds \ {k} : cmd'[j] = cmd[j]
  BY DEF Leaves, CmdInv, CmdsGood
<1>2. \A p \in Pids : (proc'[p] = "alive" => proc[p] = "alive")
                      /\ (proc[p] = "gone" => proc'[p] = "gone")
  BY DEF Leaves
<1>3. PICK d : d = Idle
  OBVIOUS
<1>4. d.op = "none" /\ d.id = NoId /\ d.made = NoPid /\ NoId \notin fresh /\ cmd'[k] = d
  BY <1>1, <1>3, IdleIs, NoIdIsOld
<1>5. PICK c : c = cmd[k]
  OBVIOUS
<1>6. Always'
  BY <1>1, <1>4, <1>5, AlwaysStepped DEF OrdInv, Always, StillFresh
<1> QED
  BY <1>1, <1>2, <1>6

(* Leave: processes end with the command, and none is left untold.         *)
LEMMA LeaveOrd ==
    ASSUME OrdInv, CmdInv, CmdInv', NEW k \in Cmds, Leave(k) PROVE OrdInv'
<1>1. PICK c : c = cmd[k]
  OBVIOUS
<1>2. /\ c.op \in {"run_d", "start", "restart"}
      /\ c.step = "Leave" \/ c.mark \in {"exited", "gone"}
      /\ Leaves(k) /\ UNCHANGED <<file, fresh, owner, menu, deaths, overlapped>>
  BY <1>1 DEF Leave, MainReturned
<1>3. /\ cmd'[k] = Idle /\ \A j \in Cmds \ {k} : cmd'[j] = cmd[j]
      /\ \A p \in Pids : (proc'[p] = "alive" => proc[p] = "alive")
                         /\ (proc[p] = "gone" => proc'[p] = "gone")
      /\ Always'
  BY <1>2, LeavesIs
<1>4. Quiet' => Quiet
  BY <1>2 DEF Quiet
<1>5. CASE ~Busy(k)
  <2>1. cmd'[k].step \in {"Idle", "Poll"} /\ Steady(cmd[k])'
    <3>1. PICK d : d = Idle
      OBVIOUS
    <3>2. d.step = "Idle" /\ cmd'[k] = d
      BY <1>3, <3>1, IdleIs
    <3>3. Steady(d)'
      BY <3>1, <3>2, IdleSteady, RestsSteady
    <3> QED
      BY <3>2, <3>3
  <2>2. \A j \in Cmds : \/ cmd'[j] = cmd[j]
                        \/ /\ ~Busy(j) /\ cmd'[j].step \in {"Idle", "Poll", "Report"}
                           /\ Steady(cmd[j]) => Steady(cmd[j])'
    BY <1>3, <1>5, <2>1
  <2>3. UNCHANGED <<file, menu, deaths, owner>>
    BY <1>2
  <2> QED
    BY <1>3, <1>4, <2>2, <2>3, OrdStill
<1>6. CASE Busy(k)
  <2>1. PICK d : d = Idle
    OBVIOUS
  <2>2. cmd'[k] = d /\ d.step = "Idle" /\ ~Waits(d) /\ ~Launched(c)
    BY <1>1, <1>2, <1>3, <1>6, <2>1, IdleIs DEF Waits, Launched, Busy
  <2>3. Steady(d)'
    BY <2>1, <2>2, IdleSteady, RestsSteady
  <2>4. Quiet' => Quiet /\ Alone(k) /\ \A j \in Cmds \ {k} : cmd'[j] = cmd[j]
    BY <1>3, <1>4, <1>6, AtWorkAlone
  <2>5. ~Mild
    BY <1>1, <1>2 DEF OrdInv, Always, InMenu, Mild
  <2>6. ASSUME Quiet, Gentle, NEW i \in Ids, NEW p \in Pids, Tells(c, file[i], i, p)
        PROVE  Tells(d, file'[i], i, p)
    <3>1. Steady(c)
      BY <1>1, <2>6 DEF OrdInv, NoneLost
    <3>2. c.step \in AtFile => ~c.copy.running
      BY <1>1, <1>2, <1>6, <3>1 DEF Steady, AtFile
    <3> QED
      BY <1>2, <2>2, <2>6, <3>2 DEF Tells, Runs, AtFile
  <2>7. Quiet' /\ Gentle =>
              /\ Steady(d)'
              /\ \A i \in Ids, p \in Pids : Tells(c, file[i], i, p) =>
                    Tells(d, file'[i], i, p) \/ (i = c.id /\ p = c.made /\ proc'[p] # "alive")
              /\ \A p \in Pids : proc'[p] = "alive" =>
                    \/ proc[p] = "alive" /\ owner'[p] = owner[p]
                    \/ Launched(d) /\ d.made = p /\ d.id = owner'[p] /\ owner'[p] \in Ids
              /\ Launched(c) => Tells(d, file'[c.id], c.id, c.made)
              /\ Waits(d) => Tells(d, file'[d.id], d.id, d.made)
    BY <1>2, <1>3, <1>4, <2>2, <2>3, <2>6
  <2>8. Quiet' /\ Mild => \A i \in Ids : file'[i] = Torn =>
            \/ d.step = "Write" /\ d.id = i
            \/ file[i] = Torn /\ c.step # "Write"
    BY <2>5
  <2>9. menu' = menu /\ (Quiet' /\ d.step = "Write" => d.fd = "clean")
    BY <1>2, <2>2
  <2> QED
    BY <1>1, <1>3, <2>2, <2>4, <2>7, <2>8, <2>9, OrdStepped
<1> QED
  BY <1>5, <1>6

(* Die: a kill, after which nothing is claimed.                            *)
LEMMA DieOrd ==
    ASSUME OrdInv, CmdInv, NEW k \in Cmds, Die(k) PROVE OrdInv'
<1>1. Always'
  BY LeavesIs DEF Die
<1>2. ~Quiet'
  BY DEF Die, Quiet, CmdInv, RestTyped
<1> QED
  BY <1>1, <1>2, Loud

(* ProcExit: a process less that its record has to name.                   *)
LEMMA ProcExitOrd ==
    ASSUME OrdInv, CmdInv, CmdInv', NEW p \in Pids, ProcExit(p) PROVE OrdInv'
<1>1. /\ proc' = [proc EXCEPT ![p] = "gone"]
      /\ UNCHANGED <<file, fresh, owner, cmd, menu, deaths, overlapped>>
  BY DEF ProcExit
<1>2. Always'
  BY <1>1 DEF OrdInv, Always, InMenu, StillFresh, OwnProcess
<1>3. Quiet' => Quiet
  BY <1>1 DEF Quiet
<1>4. \A q \in Pids : (proc'[q] = "alive" => proc[q] = "alive")
                      /\ (proc[q] = "gone" => proc'[q] = "gone")
  BY <1>1 DEF CmdInv, RestTyped
<1>5. \A j \in Cmds : cmd'[j] = cmd[j]
  BY <1>1
<1>6. UNCHANGED <<file, menu, deaths, owner>>
  BY <1>1
<1> QED
  BY <1>2, <1>3, <1>4, <1>5, <1>6, OrdStill

(* Every step of Next keeps OrdInv.                                        *)
LEMMA OrdInvStep == OrdInv /\ CmdInv /\ CmdInv' /\ [Next]_vars => OrdInv'
<1> SUFFICES ASSUME OrdInv, CmdInv, CmdInv', [Next]_vars PROVE OrdInv'
  OBVIOUS
<1>1. ASSUME NEW k \in Cmds, Begin(k) PROVE OrdInv'
  BY <1>1, CreateBeginOrd, StartBeginOrd, StopBeginOrd, KillBeginOrd, PauseBeginOrd,
     RenameBeginOrd, RmBeginOrd, PruneBeginOrd, WaitBeginOrd DEF Begin
<1>2. ASSUME NEW k \in Cmds, Step(k) PROVE OrdInv'
  BY <1>2, TruncateOrd, WriteOrd, UpdateOrd, CreateReplacesOrd, EachDoneOrd, LaunchOrd,
     LaunchFailsOrd, ExitedOrd, GoroutineWakesOrd, RestartStartsOrd, DeleteOrd, UnlinkOrd,
     PruneNextOrd, PollOrd, ReportOrd, LeaveOrd DEF Step
<1>3. ASSUME NEW k \in Cmds, Die(k) PROVE OrdInv'
  BY <1>3, DieOrd
<1>4. ASSUME NEW p \in Pids, ProcExit(p) PROVE OrdInv'
  BY <1>4, ProcExitOrd
<1>5. CASE UNCHANGED vars
  <2>1. UNCHANGED <<file, fresh, proc, owner, cmd, menu, deaths, overlapped>>
    BY <1>5 DEF vars
  <2>2. Always'
    BY <2>1 DEF OrdInv, Always, InMenu, StillFresh, OwnProcess
  <2>3. Quiet' => Quiet
    BY <2>1 DEF Quiet
  <2>4. \A q \in Pids : (proc'[q] = "alive" => proc[q] = "alive")
                        /\ (proc[q] = "gone" => proc'[q] = "gone")
    BY <2>1
  <2>5. \A j \in Cmds : cmd'[j] = cmd[j]
    BY <2>1
  <2>6. UNCHANGED <<file, menu, deaths, owner>>
    BY <2>1
  <2> QED
    BY <2>2, <2>3, <2>4, <2>5, <2>6, OrdStill
<1> QED
  BY <1>1, <1>2, <1>3, <1>4, <1>5 DEF Next

(* Nobody is at work: what OrdInv says of files is what Orderly asks.      *)
LEMMA InvOrderly == CmdInv /\ OrdInv => Orderly
<1> SUFFICES ASSUME CmdInv, OrdInv, ~overlapped, deaths = 0, \A k \in Cmds : ~Busy(k)
             PROVE  /\ menu.ops \cap {"run_d", "start", "restart"} = {} => Present = Readable
                    /\ menu.ops \cap {"stop", "restart"} = {} =>
                          \A p \in Pids : proc[p] = "alive" =>
                              LET i == owner[p] IN
                              i \in Readable /\ file[i].running /\ file[i].pid = p
  BY DEF Orderly
<1>1. Quiet
  BY DEF Quiet
<1>2. ASSUME Mild PROVE Present = Readable
  <2>1. \A i \in Ids : file[i] # Torn
    BY <1>1, <1>2 DEF OrdInv, NoneTorn, Busy
  <2>2. \A i \in Ids : file[i] \in Record \cup {NoRecord, Torn}
    BY DEF CmdInv, FilesGood, Content
  <2> QED
    BY <2>1, <2>2, CommandValues DEF Present, Readable
<1>3. ASSUME Gentle, NEW p \in Pids, proc[p] = "alive"
      PROVE  owner[p] \in Readable /\ file[owner[p]].running /\ file[owner[p]].pid = p
  <2>1. \A k \in Cmds : ~Launched(cmd[k]) /\ cmd[k].step \notin AtFile
    BY DEF Launched, Busy, AtFile
  <2>2. owner[p] \in Ids /\ Told(owner[p], p)
    BY <1>1, <1>3, <2>1 DEF OrdInv, NoneLost
  <2>3. Runs(file[owner[p]], p)
    BY <2>1, <2>2 DEF Told, Writing
  <2> QED
    BY <2>2, <2>3 DEF Runs, Readable
<1> QED
  BY <1>2, <1>3 DEF Mild, Gentle

(* As long as no two commands work at once and none is killed, nothing is  *)
(* lost between them, whatever they do and however many take turns: every  *)
(* record can be read and every process that lives is the one its record   *)
(* names as running, with the exceptions Orderly makes.                    *)
THEOREM CommandsOrderly == Spec => []Orderly
<1>1. Spec => [](CmdInv /\ OrdInv)
  <2>1. Init => CmdInv /\ OrdInv
    BY InitInv, OrdStart
  <2>2. CmdInv /\ OrdInv /\ [Next]_vars => CmdInv' /\ OrdInv'
    BY CmdInvStep, OrdInvStep
  <2> QED
    BY <2>1, <2>2, PTL DEF Spec
<1> QED
  BY <1>1, InvOrderly, PTL
=============================================================================
