------------------------------ MODULE Volumes ------------------------------
(***************************************************************************)
(* Volumes (pkg/volume/volume.go): a record and a directory for each name, *)
(* made and removed one after the other by commands (main.go) and handlers *)
(* (handler.go).  Who uses a volume is asked nowhere.                      *)
(***************************************************************************)
EXTENDS Naturals, RecordFiles

CONSTANTS
    VolNames,   \* the names users give
    VolActors,  \* commands and requests at the same time
    VolMenus,   \* who does what, one of these sets of choices per behaviour
    NoVol

VolOps == {"create", "rm", "prune"}
Volume == [stack : BOOLEAN]     \* of a record, only the label of a stack decides

ASSUME NoVolAssumption == NoVol \notin VolNames
ASSUME VolRecordsAssumption == NoRecord \notin Volume /\ Torn \notin Volume
ASSUME VolMenusAssumption ==
    \A m \in VolMenus :
        m \in [who : SUBSET VolActors, ops : SUBSET VolOps, names : SUBSET VolNames]

VARIABLES
    volFile,    \* the records
    volDir,     \* whether the directory is there
    volCall,    \* what each actor is doing
    volMenu,    \* the choices of this behaviour
    volOverlap, \* two actors have been at work at the same time
    volDied,    \* an actor has been killed
    volTaken    \* somebody has begun to remove a volume

volVars == <<volFile, volDir, volCall, volMenu, volOverlap, volDied, volTaken>>

VolSteps == {"Idle", "Exists", "Mkdir", "Truncate", "Write", "List", "Each", "Get",
             "Rmdir", "Unlink"}
VolIdle ==
    [op |-> "none", step |-> "Idle", id |-> NoVol, stack |-> FALSE, todo |-> {}, fd |-> "none"]
VolCall ==
    [op : VolOps \cup {"none"}, step : VolSteps, id : VolNames \cup {NoVol},
     stack : BOOLEAN, todo : SUBSET VolNames, fd : Descriptors]

VolListed == {n \in VolNames : volFile[n] \in Volume}
VolsIdle == \A k \in VolActors : volCall[k] = VolIdle

VolAt(c, s) == IF s = "Idle" THEN VolIdle ELSE [c EXCEPT !.step = s]
VolGoto(k, c, s) == volCall' = [volCall EXCEPT ![k] = VolAt(c, s)]

VolBegin(k, op, n, stack) ==
    /\ volCall[k] = VolIdle
    /\ VolGoto(k, [VolIdle EXCEPT !.op = op, !.id = n, !.stack = stack],
               CASE op = "create" -> "Exists" [] op = "rm" -> "Get" [] op = "prune" -> "List")
    /\ volOverlap' = (volOverlap \/ \E j \in VolActors : volCall[j] # VolIdle)
    /\ volTaken' = (volTaken \/ op # "create")
    /\ UNCHANGED <<volFile, volDir, volMenu, volDied>>

AskVolCreate(k) == \E n \in volMenu.names : VolBegin(k, "create", n, FALSE)
AskVolRm(k) == \E n \in volMenu.names : VolBegin(k, "rm", n, FALSE)
AskVolPrune(k) == VolBegin(k, "prune", NoVol, FALSE)

VolRequest(k) ==
    /\ k \in volMenu.who
    /\ \/ "create" \in volMenu.ops /\ AskVolCreate(k)
       \/ "rm" \in volMenu.ops /\ AskVolRm(k)
       \/ "prune" \in volMenu.ops /\ AskVolPrune(k)

-----------------------------------------------------------------------------
(* create: a volume that has a file is returned, whatever is in it.        *)

VolExists(k) ==
    LET c == volCall[k] IN
    /\ c.step = "Exists"
    /\ VolGoto(k, c, IF volFile[c.id] # NoRecord THEN "Idle" ELSE "Mkdir")
    /\ UNCHANGED <<volFile, volDir, volMenu, volOverlap, volDied, volTaken>>

VolMkdir(k) ==
    /\ volCall[k].step = "Mkdir"
    /\ volDir' = [volDir EXCEPT ![volCall[k].id] = TRUE]
    /\ VolGoto(k, volCall[k], "Truncate")
    /\ UNCHANGED <<volFile, volMenu, volOverlap, volDied, volTaken>>

VolTruncate(k) ==
    LET n == volCall[k].id IN
    /\ volCall[k].step = "Truncate"
    /\ volFile' = [volFile EXCEPT ![n] = Torn]
    /\ volCall' = [Noticed(volCall, k, n, "clean") EXCEPT ![k].step = "Write", ![k].fd = "clean"]
    /\ UNCHANGED <<volDir, volMenu, volOverlap, volDied, volTaken>>

VolWrite(k) ==
    LET c == volCall[k] IN
    /\ c.step = "Write"
    /\ \E x \in Written(c.fd, [stack |-> c.stack], volFile[c.id]) : volFile' = [volFile EXCEPT ![c.id] = x]
    /\ volCall' = [Noticed(volCall, k, c.id, "shared") EXCEPT ![k] = VolIdle]
    /\ UNCHANGED <<volDir, volMenu, volOverlap, volDied, volTaken>>

-----------------------------------------------------------------------------
(* rm and prune: every volume that can be listed is removed.               *)

VolAfter(c) == IF c.op = "prune" THEN "Each" ELSE "Idle"

VolPrune(k) ==
    LET c == volCall[k] IN
    /\ \/ c.step = "List" /\ VolGoto(k, [c EXCEPT !.todo = VolListed], "Each")
       \/ c.step = "Each" /\ \E n \in c.todo :
             VolGoto(k, [c EXCEPT !.id = n, !.todo = c.todo \ {n}], "Get")
       \/ c.step = "Each" /\ c.todo = {} /\ VolGoto(k, c, "Idle")
    /\ UNCHANGED <<volFile, volDir, volMenu, volOverlap, volDied, volTaken>>

\* A record that cannot be decoded can never be removed again.
VolGet(k) ==
    LET c == volCall[k] IN
    /\ c.step = "Get"
    /\ VolGoto(k, c, IF c.id \in VolListed THEN "Rmdir" ELSE VolAfter(c))
    /\ UNCHANGED <<volFile, volDir, volMenu, volOverlap, volDied, volTaken>>

\* (mutant of VolRmdir: the directory is left to the next create)
VolRmdirNot(k) ==
    /\ volCall[k].step = "Rmdir"
    /\ VolGoto(k, volCall[k], "Unlink")
    /\ UNCHANGED <<volFile, volDir, volMenu, volOverlap, volDied, volTaken>>

VolRmdir(k) ==
    /\ volCall[k].step = "Rmdir"
    /\ volDir' = [volDir EXCEPT ![volCall[k].id] = FALSE]
    /\ VolGoto(k, volCall[k], "Unlink")
    /\ UNCHANGED <<volFile, volMenu, volOverlap, volDied, volTaken>>

VolUnlink(k) ==
    LET c == volCall[k] IN
    /\ c.step = "Unlink"
    /\ volFile' = [volFile EXCEPT ![c.id] = NoRecord]
    /\ volCall' = [Noticed(volCall, k, c.id, "gone") EXCEPT ![k] = VolAt(c, VolAfter(c))]
    /\ UNCHANGED <<volDir, volMenu, volOverlap, volDied, volTaken>>

-----------------------------------------------------------------------------

\* An actor is killed, once in a behaviour, whatever step it was at.
VolDie(k) ==
    /\ volCall[k] # VolIdle /\ ~volDied
    /\ volDied' = TRUE
    /\ volCall' = [volCall EXCEPT ![k] = VolIdle]
    /\ UNCHANGED <<volFile, volDir, volMenu, volOverlap, volTaken>>

VolInit ==
    /\ volFile = [n \in VolNames |-> NoRecord]
    /\ volDir = [n \in VolNames |-> FALSE]
    /\ volCall = [k \in VolActors |-> VolIdle]
    /\ volMenu \in VolMenus
    /\ volOverlap = FALSE
    /\ volDied = FALSE
    /\ volTaken = FALSE

VolStep(k) ==
    \/ VolExists(k) \/ VolMkdir(k) \/ VolTruncate(k) \/ VolWrite(k)
    \/ VolPrune(k) \/ VolGet(k) \/ VolRmdir(k) \/ VolUnlink(k)

VolNext == \E k \in VolActors : VolRequest(k) \/ VolStep(k) \/ VolDie(k)

VolSpec == VolInit /\ [][VolNext]_volVars

-----------------------------------------------------------------------------

(* Files hold a record or nothing that can be read.                        *)
VolTypeOK ==
    /\ volFile \in [VolNames -> Volume \cup {NoRecord, Torn}]
    /\ volDir \in [VolNames -> BOOLEAN]
    /\ volCall \in [VolActors -> VolCall]
    /\ volMenu \in VolMenus
    /\ volOverlap \in BOOLEAN /\ volDied \in BOOLEAN /\ volTaken \in BOOLEAN

(* One command at a time, and none killed: between commands a volume has   *)
(* its record and its directory, or neither.  And until somebody removes a *)
(* volume, a record always has its directory, however many make the same   *)
(* volume at a time, and wherever one of them is killed.                   *)
VolumesWhole ==
    /\ (~volOverlap /\ ~volDied /\ VolsIdle) =>
          \A n \in VolNames : volFile[n] \in IF volDir[n] THEN Volume ELSE {NoRecord}
    /\ ~volTaken => \A n \in VolListed : volDir[n]
=============================================================================
