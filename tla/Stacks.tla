------------------------------- MODULE Stacks -------------------------------
(***************************************************************************)
(* Stacks (cmd/cryruss/main.go): `stack deploy` makes the networks, the    *)
(* volumes and the containers of a compose file, all with the label of the *)
(* stack, and `stack rm` removes what carries the label.  Each is a single *)
(* command, here of one user; its calls on networks and volumes are those  *)
(* of Networks and Volumes, a file operation at a time.                    *)
(*                                                                         *)
(* A call on a container is one step: its own file operations, and what    *)
(* other commands do to them, are the matter of module Commands.           *)
(***************************************************************************)
EXTENDS Networks, Volumes

CONSTANTS
    StackUser,      \* the actor that runs stack commands
    StackNets,      \* what the compose file has
    StackVols,
    Services,
    Imageless,      \* the services of it that name no image
    StackCtrs,      \* ids for containers
    NoCtr

ASSUME StackAssumption ==
    /\ StackUser \in NetActors \cap VolActors
    /\ StackNets \subseteq NetNames /\ StackVols \subseteq VolNames /\ Imageless \subseteq Services
ASSUME NoCtrAssumption == NoCtr \notin StackCtrs

VARIABLES
    stkCtr,     \* containers: service, record says running, process, root file system
    stkCall,    \* the command
    stkLast,    \* the last command that came to its end
    stkRan      \* somebody has started a container

stkVars == <<stkCtr, stkCall, stkLast, stkRan>>

StackCtr ==
    [svc : Services, running : BOOLEAN, alive : BOOLEAN, watched : BOOLEAN,
     rootfs : {"none", "empty", "full"}]
ASSUME StackCtrAssumption == NoCtr \notin StackCtr
StackCall ==
    [step : {"Idle", "Networks", "Volumes", "Services", "Prepare", "Containers", "Stop",
             "Rootfs", "Delete", "NetList", "NetEach", "VolList", "VolEach"},
     nets : SUBSET (Networks \cup NetNames), vols : SUBSET VolNames, svcs : SUBSET Services,
     todo : SUBSET StackCtrs, ran : SUBSET StackCtrs, id : StackCtrs \cup {NoCtr},
     warned : BOOLEAN]
StkIdle ==
    [step |-> "Idle", nets |-> {}, vols |-> {}, svcs |-> {}, todo |-> {}, ran |-> {},
     id |-> NoCtr, warned |-> FALSE]

StkKept == {i \in StackCtrs : stkCtr[i] # NoCtr}
StkGoto(c, s) == stkCall' = [c EXCEPT !.step = s]
StkAt(s) == /\ stkCall.step = s
            /\ netCall[StackUser] = NetIdle /\ volCall[StackUser] = VolIdle
OthersSame == UNCHANGED <<netVars, volVars>>

-----------------------------------------------------------------------------
(* deploy.  What is found under its name is left as it is; the order of    *)
(* the maps is not determined.                                             *)

StkDeploy ==
    /\ StkAt("Idle")
    /\ stkCall' = [StkIdle EXCEPT !.step = "Networks", !.nets = StackNets, !.vols = StackVols,
                                  !.svcs = Services]
    /\ UNCHANGED <<stkCtr, stkLast, stkRan>> /\ OthersSame

StkNetwork ==
    /\ StkAt("Networks") /\ UNCHANGED <<stkCtr, stkLast, stkRan>> /\ UNCHANGED volVars
    /\ \/ \E n \in stkCall.nets :
             /\ StkGoto([stkCall EXCEPT !.nets = @ \ {n}], "Networks")
             /\ IF NetGet(n) # {} THEN UNCHANGED netVars
                ELSE NetBegin(StackUser,
                              [NetIdle EXCEPT !.op = "create", !.name = n, !.stack = TRUE])
       \/ stkCall.nets = {} /\ StkGoto(stkCall, "Volumes") /\ UNCHANGED netVars

StkVolume ==
    /\ StkAt("Volumes") /\ UNCHANGED <<stkCtr, stkLast, stkRan>> /\ UNCHANGED netVars
    /\ \/ \E n \in stkCall.vols :
             /\ StkGoto([stkCall EXCEPT !.vols = @ \ {n}], "Volumes")
             /\ IF n \in VolListed THEN UNCHANGED volVars
                ELSE VolBegin(StackUser, "create", n, TRUE)
       \/ stkCall.vols = {} /\ StkGoto(stkCall, "Services") /\ UNCHANGED volVars

\* (mutant of StkService: the container that has the name is not replaced)
StkServiceAdds ==
    /\ StkAt("Services") /\ UNCHANGED <<stkLast, stkRan>> /\ OthersSame
    /\ \E s \in stkCall.svcs, i \in StackCtrs \ StkKept :
          /\ stkCtr' = [stkCtr EXCEPT ![i] = [svc |-> s, running |-> FALSE, alive |-> FALSE,
                                              watched |-> FALSE, rootfs |-> "empty"]]
          /\ StkGoto([stkCall EXCEPT !.svcs = @ \ {s}, !.id = i], "Prepare")

\* One replica, named after the service (Manager.Create): a container of that
\* name that is not running is replaced; one that is running ends the attempt
\* with a warning, and so does an image that can be neither found nor pulled.
\* Where the service names no image nothing is pulled and nothing is said: the
\* empty name finds an image if the store has one only, and without an image the
\* container is made and no root file system is prepared for it.
StkService ==
    /\ StkAt("Services") /\ UNCHANGED stkRan /\ OthersSame
    /\ \/ \E s \in stkCall.svcs, image \in BOOLEAN :
             LET c == [stkCall EXCEPT !.svcs = @ \ {s}]
                 same == {j \in StkKept : stkCtr[j].svc = s} IN
             /\ UNCHANGED stkLast
             /\ IF (~image /\ s \notin Imageless) \/ \E j \in same : stkCtr[j].running
                THEN StkGoto([c EXCEPT !.warned = TRUE], "Services") /\ UNCHANGED stkCtr
                ELSE \E i \in StackCtrs \ StkKept :
                        /\ stkCtr' = [j \in StackCtrs |->
                              IF j = i THEN [svc |-> s, running |-> FALSE, alive |-> FALSE,
                                             watched |-> FALSE, rootfs |-> "empty"]
                              ELSE IF j \in same THEN NoCtr ELSE stkCtr[j]]
                        /\ IF image THEN StkGoto([c EXCEPT !.id = i], "Prepare")
                           ELSE StkGoto(c, "Services")
       \/ /\ stkCall.svcs = {} /\ stkCall' = StkIdle
          /\ stkLast' = IF stkCall.warned THEN "warned" ELSE "deploy"
          /\ UNCHANGED stkCtr

\* (mutant of StkPrepare: the root file system is left to the first start)
StkPrepareNot ==
    /\ StkAt("Prepare") /\ UNCHANGED <<stkCtr, stkLast, stkRan>> /\ OthersSame
    /\ StkGoto([stkCall EXCEPT !.id = NoCtr], "Services")

\* A root file system that cannot be prepared is a warning too.
StkPrepare ==
    /\ StkAt("Prepare") /\ UNCHANGED <<stkLast, stkRan>> /\ OthersSame
    /\ \/ /\ stkCtr' = [stkCtr EXCEPT ![stkCall.id].rootfs = "full"]
          /\ StkGoto([stkCall EXCEPT !.id = NoCtr], "Services")
       \/ /\ StkGoto([stkCall EXCEPT !.id = NoCtr, !.warned = TRUE], "Services")
          /\ UNCHANGED stkCtr

-----------------------------------------------------------------------------
(* rm.  Containers, then networks, then volumes: each is listed first, and *)
(* then removed one by one.                                                *)

StkRm ==
    /\ StkAt("Idle")
    /\ stkCall' = [StkIdle EXCEPT !.step = "Containers", !.todo = StkKept,
                                  !.ran = {i \in StkKept : stkCtr[i].running}]
    /\ UNCHANGED <<stkCtr, stkLast, stkRan>> /\ OthersSame

\* The steps after "Containers" are for one container of the listing.
StkContainer ==
    /\ StkAt("Containers") /\ UNCHANGED <<stkCtr, stkLast, stkRan>> /\ OthersSame
    /\ \/ \E i \in stkCall.todo :
             StkGoto([stkCall EXCEPT !.todo = @ \ {i}, !.id = i],
                     IF i \in stkCall.ran THEN "Stop" ELSE "Rootfs")
       \/ stkCall.todo = {} /\ StkGoto(stkCall, "NetList")

\* runtime.Stop signals the process; this command, not being its parent, waits
\* for nothing, and it writes no record.
StkStop ==
    /\ StkAt("Stop") /\ UNCHANGED <<stkLast, stkRan>> /\ OthersSame
    /\ \E a \in {FALSE, stkCtr[stkCall.id].alive} :
          stkCtr' = [stkCtr EXCEPT ![stkCall.id].alive = a]
    /\ StkGoto(stkCall, "Rootfs")

StkRootfs ==
    /\ StkAt("Rootfs") /\ UNCHANGED <<stkLast, stkRan>> /\ OthersSame
    /\ stkCtr' = [stkCtr EXCEPT ![stkCall.id].rootfs = "none"]
    /\ StkGoto(stkCall, "Delete")

\* Manager.Delete refuses when the record says running, and nobody asks.
StkDelete ==
    /\ StkAt("Delete") /\ UNCHANGED <<stkLast, stkRan>> /\ OthersSame
    /\ stkCtr' = IF stkCtr[stkCall.id].running THEN stkCtr
                 ELSE [stkCtr EXCEPT ![stkCall.id] = NoCtr]
    /\ StkGoto([stkCall EXCEPT !.id = NoCtr], "Containers")

StkNetworks ==
    /\ UNCHANGED <<stkCtr, stkLast, stkRan>> /\ UNCHANGED volVars
    /\ \/ StkAt("NetList") /\ UNCHANGED netVars
          /\ StkGoto([stkCall EXCEPT !.nets = {i \in Listed : netFile[i].stack}], "NetEach")
       \/ StkAt("NetEach") /\ \E i \in stkCall.nets :
             /\ StkGoto([stkCall EXCEPT !.nets = @ \ {i}], "NetEach")
             /\ NetBegin(StackUser, [NetIdle EXCEPT !.op = "rm_f", !.ref = i])
       \/ StkAt("NetEach") /\ stkCall.nets = {} /\ StkGoto(stkCall, "VolList") /\ UNCHANGED netVars

StkRemoving(vols) ==
    /\ UNCHANGED <<stkCtr, stkRan>> /\ UNCHANGED netVars
    /\ \/ StkAt("VolList") /\ UNCHANGED <<volVars, stkLast>>
          /\ StkGoto([stkCall EXCEPT !.vols = vols], "VolEach")
       \/ StkAt("VolEach") /\ UNCHANGED stkLast /\ \E n \in stkCall.vols :
             /\ StkGoto([stkCall EXCEPT !.vols = @ \ {n}], "VolEach")
             /\ VolBegin(StackUser, "rm", n, FALSE)
       \/ StkAt("VolEach") /\ stkCall.vols = {} /\ UNCHANGED volVars
          /\ stkCall' = StkIdle /\ stkLast' = "rm"

\* (mutant of StkVolumes: the label is not looked at)
StkVolumesAll == StkRemoving(VolListed)

StkVolumes == StkRemoving({n \in VolListed : volFile[n].stack})

-----------------------------------------------------------------------------
(* Somebody starts a container of the stack, and his command stays to      *)
(* watch it or is gone; the process exits; the command that watched        *)
(* records it.  Bound: once, and not where others make volumes.            *)

StkStart(i) ==
    /\ ~stkRan /\ volMenu.who = {}
    /\ i \in StkKept /\ stkCtr[i].rootfs = "full" /\ ~stkCtr[i].running
    /\ \E w \in BOOLEAN :
          stkCtr' = [stkCtr EXCEPT ![i].running = TRUE, ![i].alive = TRUE, ![i].watched = w]
    /\ stkRan' = TRUE
    /\ UNCHANGED <<stkCall, stkLast>> /\ OthersSame

StkExit(i) ==
    /\ i \in StkKept /\ stkCtr[i].alive
    /\ stkCtr' = [stkCtr EXCEPT ![i].alive = FALSE]
    /\ UNCHANGED <<stkCall, stkLast, stkRan>> /\ OthersSame

StkRecorded(i) ==
    /\ i \in StkKept /\ stkCtr[i].watched /\ ~stkCtr[i].alive
    /\ stkCtr' = [stkCtr EXCEPT ![i].running = FALSE, ![i].watched = FALSE]
    /\ UNCHANGED <<stkCall, stkLast, stkRan>> /\ OthersSame

\* The command is killed, once in a behaviour, with the call it is in.
StkDie ==
    /\ stkCall # StkIdle /\ ~netDied
    /\ stkCall' = StkIdle /\ stkLast' = "none"
    /\ netCall' = [netCall EXCEPT ![StackUser] = NetIdle] /\ netDied' = TRUE
    /\ volCall' = [volCall EXCEPT ![StackUser] = VolIdle] /\ volDied' = TRUE
    /\ UNCHANGED <<stkCtr, stkRan, netFile, netFresh, netMenu, netOverlap>>
    /\ UNCHANGED <<volFile, volDir, volMenu, volOverlap, volTaken>>

StkInit ==
    /\ stkCtr = [i \in StackCtrs |-> NoCtr]
    /\ stkCall = StkIdle /\ stkLast = "none" /\ stkRan = FALSE

\* The calls that another user makes on volumes are the menu's.
StkStep ==
    \/ StkNetwork \/ StkVolume \/ StkService \/ StkPrepare
    \/ StkContainer \/ StkStop \/ StkRootfs \/ StkDelete \/ StkNetworks \/ StkVolumes
    \/ \E k \in NetActors : NetStep(k) /\ UNCHANGED <<stkVars, volVars>>
    \/ \E k \in VolActors : (VolRequest(k) \/ VolStep(k)) /\ UNCHANGED <<stkVars, netVars>>

StkNext ==
    \/ StkDeploy \/ StkRm \/ StkStep \/ StkDie
    \/ \E i \in StackCtrs : StkStart(i) \/ StkExit(i) \/ StkRecorded(i)

StkSpec == NetInit /\ VolInit /\ StkInit /\ [][StkNext]_<<netVars, volVars, stkVars>>

-----------------------------------------------------------------------------

(* Containers have a process only if their record says they run.           *)
StkTypeOK ==
    /\ stkCtr \in [StackCtrs -> StackCtr \cup {NoCtr}]
    /\ stkCall \in StackCall
    /\ stkLast \in {"none", "deploy", "warned", "rm"} /\ stkRan \in BOOLEAN

(* A service never has two containers, however often its stack is deployed *)
(* and wherever a deployment was killed.                                   *)
OneContainerEach ==
    \A i, j \in StkKept : stkCtr[i].svc = stkCtr[j].svc => i = j

(* Between commands, none of which was killed: after a deployment the      *)
(* networks and volumes are found, and if it gave no warning, every        *)
(* service has a container, and one that names an image has its root file  *)
(* system too; after a removal no network and no volume is left that       *)
(* carries the label, and no container, unless somebody had started one.   *)
StackSettled ==
    (stkCall = StkIdle /\ ~netDied /\ ~volOverlap) =>
        /\ stkLast \in {"deploy", "warned"} =>
              /\ \A n \in StackNets : NetGet(n) # {}
              /\ StackVols \subseteq VolListed
        /\ stkLast = "deploy" =>
              \A s \in Services : \E i \in StkKept :
                  stkCtr[i].svc = s /\ (s \in Imageless \/ stkCtr[i].rootfs = "full")
        /\ stkLast = "rm" =>
              /\ \A i \in Listed : ~netFile[i].stack
              /\ \A n \in VolListed : ~volFile[n].stack
              /\ ~stkRan => StkKept = {}

(* A removal takes no volume whose record does not carry the label, even   *)
(* if others make volumes of the same name meanwhile, as long as no call   *)
(* on volumes begins before another has ended.  (Others only make them     *)
(* here: who removes a volume of the stack, and makes one of that name     *)
(* after the removal has listed it, loses it.)                             *)
OwnVolumesSpared ==
    [][\A n \in VolNames :
          (stkCall # StkIdle /\ ~volOverlap /\ n \in VolListed /\ ~volFile[n].stack) =>
              volDir'[n] /\ volFile'[n] # NoRecord]_<<stkVars, volVars>>
=============================================================================
