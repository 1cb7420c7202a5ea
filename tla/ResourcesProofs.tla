-------------------------- MODULE ResourcesProofs --------------------------
(***************************************************************************)
(* What stack deploy and stack rm promise, for any compose file and any    *)
(* number of users who make volumes meanwhile: types, one container for    *)
(* each service, StackSettled and OwnVolumesSpared.                        *)
(*                                                                         *)
(* StackSettled speaks of the state between commands, and is not           *)
(* inductive.  StkInv says, of each of containers, networks and volumes,   *)
(* how far a command has come: what a deployment has done away with so far *)
(* exists, is still to come, or is what its call is about; what a removal  *)
(* has not listed does not carry the label.  It stands on the invariants   *)
(* of NetworksProofs and VolumesProofs, since the calls are theirs.        *)
(*                                                                         *)
(* Then the parser that a deployment begins with: what it has read of a    *)
(* compose file of any length (FilesAreRead).  Last, all resources         *)
(* together: the invariants of the components hold of Resources as well.   *)
(***************************************************************************)
EXTENDS Resources, ImagesProofs, NetworksProofs, VolumesProofs

\* The steps of deploy, of rm, and of one container.
Deploying == {"Networks", "Volumes", "Services", "Prepare"}
ForOne == {"Prepare", "Stop", "Rootfs", "Delete"}
Clearing == {"Containers", "Stop", "Rootfs", "Delete"}
Cleared == {"NetList", "NetEach", "VolList", "VolEach"}

(* Service s has its container, or is about to.                            *)
Served(s) ==
    \E i \in StkKept :
        /\ stkCtr[i].svc = s
        /\ \/ s \in Imageless \/ stkCtr[i].rootfs = "full"
           \/ stkCall.step = "Prepare" /\ stkCall.id = i

StkShaped ==
    /\ stkCall.step = "Idle" => stkCall = StkIdle
    /\ stkCall.todo \subseteq StkKept
    /\ IF stkCall.step \in ForOne THEN stkCall.id \in StkKept \ stkCall.todo
       ELSE stkCall.id = NoCtr
    /\ stkCall.step \in Deploying => stkCall.todo = {}

(* How far the command has come with the containers.                       *)
CtrsCome ==
    /\ stkCall.step \in Deploying /\ ~stkCall.warned =>
          \A s \in Services \ stkCall.svcs : Served(s)
    /\ stkCall.step = "Idle" /\ stkLast = "deploy" => \A s \in Services : Served(s)
    /\ ~stkRan =>
          /\ \A i \in StkKept : ~stkCtr[i].running
          /\ stkCall.step \in Clearing => StkKept \subseteq stkCall.todo \cup {stkCall.id}
          /\ stkCall.step \in Cleared => StkKept = {}
          /\ stkCall.step = "Idle" /\ stkLast = "rm" => StkKept = {}

CtrInv == StkTypeOK /\ OneContainerEach /\ StkShaped /\ CtrsCome

-----------------------------------------------------------------------------
\* The call on a network that the command is in.
Asks == netCall[StackUser]

AskShaped(c) ==
    /\ c # NetIdle =>
          \/ c.op = "create" /\ c.stack /\ c.name \in StackNets /\ stkCall.step = "Networks"
          \/ c.op = "rm_f" /\ stkCall.step = "NetEach"
    /\ c.step \in Files =>
          /\ c.id \in NetNames => c.id = c.name
          /\ c.id = Bridge => ~c.copy.stack
          /\ c.id \in Networks => c.next # "Idle"

\* In these behaviours nobody else works on networks.
OnlyStack ==
    /\ ~netOverlap /\ (netDied <=> volDied)
    /\ \A k \in NetActors : k # StackUser => netCall[k] = NetIdle
    /\ AskShaped(Asks)
    /\ Bridge \in Listed => ~netFile[Bridge].stack
    /\ stkCall.step = "Networks" => stkCall.nets \subseteq StackNets
    /\ stkCall.step = "NetEach" => stkCall.nets \subseteq Networks

\* The network that a call is about to remove.
Removing(c, i) ==
    c.op = "rm_f" /\ i = IF c.step \in {"Unname", "Unlink"} THEN c.id ELSE c.ref

(* How far it has come with the networks.                                  *)
NetsCome ==
    CalledByName /\ ~netDied =>
        /\ Asks.step = "Truncate" => netFile[Asks.id] = NoRecord
        /\ stkCall.step \in Deploying =>
              \A n \in StackNets :
                  \/ Target(n) \in Listed
                  \/ stkCall.step = "Networks" /\ n \in stkCall.nets \cup {Asks.name}
        /\ stkCall.step \in {"NetEach", "VolList", "VolEach"} =>
              \A i \in Listed :
                  netFile[i].stack =>
                      stkCall.step = "NetEach" /\ (i \in stkCall.nets \/ Removing(Asks, i))
        /\ stkCall.step = "Idle" /\ stkLast \in {"deploy", "warned"} =>
              \A n \in StackNets : Target(n) \in Listed
        /\ stkCall.step = "Idle" /\ stkLast = "rm" => \A i \in Listed : ~netFile[i].stack

NetsInv == NetInv /\ OnlyStack /\ NetsCome

-----------------------------------------------------------------------------
\* What others may do with volumes.
OthersOnlyMake == volMenu.ops \subseteq {"create"}

\* Only the command removes volumes, and makes some with the label.
WhoAsks ==
    \A k \in VolActors :
        /\ volCall[k].op # "prune"
        /\ volCall[k].op = "rm" => k = StackUser /\ stkCall.step = "VolEach"
        /\ volCall[k].stack => k = StackUser /\ stkCall.step = "Volumes"
        /\ volCall[k].step \in Creates => volCall[k].op = "create"
        /\ volCall[k].step \in {"Get", "Rmdir", "Unlink"} => volCall[k].op = "rm"
        /\ volCall[k].step \notin {"List", "Each"}

(* What a call on a volume knows that nobody disturbs, even after another  *)
(* one was killed.                                                         *)
Safe(c) ==
    /\ c.step \in {"Mkdir", "Truncate"} => volFile[c.id] = NoRecord
    /\ c.step \in {"Truncate", "Write"} => volDir[c.id]
    /\ c.step = "Write" => c.fd = "clean" /\ volFile[c.id] = Torn
    /\ c.op = "rm" => c.id \notin stkCall.vols /\ (c.id \in VolListed => volFile[c.id].stack)

VolsSafe ==
    OthersOnlyMake /\ ~volOverlap =>
        /\ \A k \in VolActors : Safe(volCall[k])
        /\ \A n \in VolListed : ~volFile[n].stack => volDir[n]
        /\ stkCall.step = "VolEach" =>
              \A n \in stkCall.vols : n \in VolListed /\ volFile[n].stack

(* How far it has come with the volumes.                                   *)
VolsCome ==
    OthersOnlyMake /\ ~volOverlap /\ ~volDied =>
        /\ stkCall.step \in Deploying =>
              \A n \in StackVols :
                  \/ n \in VolListed
                  \/ stkCall.step \in {"Networks", "Volumes"} /\ n \in stkCall.vols
                  \/ /\ stkCall.step = "Volumes"
                     /\ volCall[StackUser].op = "create" /\ volCall[StackUser].id = n
        /\ stkCall.step = "VolEach" =>
              \A n \in VolListed :
                  volFile[n].stack =>
                      \/ n \in stkCall.vols
                      \/ volCall[StackUser].op = "rm" /\ volCall[StackUser].id = n
        /\ stkCall.step = "Idle" /\ stkLast \in {"deploy", "warned"} =>
              StackVols \subseteq VolListed
        /\ stkCall.step = "Idle" /\ stkLast = "rm" => \A n \in VolListed : ~volFile[n].stack

VolsInv == VolInv /\ (OthersOnlyMake => WhoAsks) /\ VolsSafe /\ VolsCome
StkInv == CtrInv /\ NetsInv /\ VolsInv

-----------------------------------------------------------------------------
(* Containers.                                                             *)

(* There are no containers at first.                                       *)
LEMMA CtrStarts == StkInit => CtrInv
<1> SUFFICES ASSUME StkInit PROVE CtrInv
  OBVIOUS
<1>1. StkKept = {} /\ stkCall = StkIdle /\ stkLast = "none" /\ stkRan = FALSE
  BY DEF StkInit, StkKept
<1>2. StkIdle \in StackCall
  BY DEF StkIdle, StackCall
<1>3. StkTypeOK
  BY <1>1, <1>2 DEF StkTypeOK, StkInit
<1>4. OneContainerEach /\ StkShaped
  BY <1>1 DEF OneContainerEach, StkShaped, StkIdle, ForOne, Deploying
<1>5. CtrsCome
  BY <1>1 DEF CtrsCome, StkIdle, Deploying, Clearing, Cleared
<1> QED
  BY <1>3, <1>4, <1>5 DEF CtrInv

(* The containers stand still.                                             *)
LEMMA CtrStands ==
    ASSUME CtrInv, UNCHANGED <<stkCtr, stkRan>>, stkCall' \in StackCall,
           stkLast' \in {"none", "deploy", "warned", "rm"},
           StkShaped', CtrsCome'
    PROVE  CtrInv'
<1>1. StkKept' = StkKept
  BY DEF StkKept
<1> QED
  BY <1>1 DEF CtrInv, StkTypeOK, OneContainerEach

(* Nor does the command go on.                                             *)
LEMMA CtrStill ==
    ASSUME CtrInv, UNCHANGED stkVars
    PROVE  CtrInv'
BY DEF CtrInv, stkVars, StkTypeOK, OneContainerEach, StkShaped, CtrsCome, Served, StkKept

(* StkDeploy: every service is still to come.                              *)
LEMMA DeployCtr ==
    ASSUME CtrInv, StkDeploy
    PROVE  CtrInv'
<1> DEFINE d == [StkIdle EXCEPT !.step = "Networks", !.nets = StackNets, !.vols = StackVols,
                                !.svcs = Services]
<1>1. stkCall' = d /\ UNCHANGED <<stkCtr, stkLast, stkRan>> /\ stkCall.step = "Idle"
  BY DEF StkDeploy, StkAt
<1>2. /\ d.step = "Networks" /\ d.nets = StackNets /\ d.vols = StackVols /\ d.svcs = Services
      /\ d.todo = {} /\ d.id = NoCtr /\ d \in StackCall
  BY StackAssumption DEF StkIdle, StackCall
<1> HIDE DEF d
<1>3. StkShaped'
  BY <1>1, <1>2 DEF StkShaped, ForOne, Deploying
<1>4. CtrsCome'
  BY <1>1, <1>2 DEF CtrInv, CtrsCome, Deploying, Clearing, Cleared, StkKept
<1> QED
  BY <1>1, <1>2, <1>3, <1>4, CtrStands DEF CtrInv, StkTypeOK

(* StkRm: every container is listed.                                       *)
LEMMA RmCtr ==
    ASSUME CtrInv, StkRm
    PROVE  CtrInv'
<1> DEFINE d == [StkIdle EXCEPT !.step = "Containers", !.todo = StkKept,
                                !.ran = {i \in StkKept : stkCtr[i].running}]
<1>1. stkCall' = d /\ UNCHANGED <<stkCtr, stkLast, stkRan>> /\ stkCall.step = "Idle"
  BY DEF StkRm, StkAt
<1>2. StkKept \subseteq StackCtrs /\ StkKept' = StkKept
  BY <1>1 DEF StkKept
<1>3. d.step = "Containers" /\ d.todo = StkKept /\ d.id = NoCtr /\ d \in StackCall
  BY <1>2 DEF StkIdle, StackCall
<1> HIDE DEF d
<1>4. StkShaped'
  BY <1>1, <1>2, <1>3 DEF StkShaped, ForOne, Deploying
<1>5. CtrsCome'
  BY <1>1, <1>2, <1>3 DEF CtrInv, CtrsCome, Deploying, Clearing, Cleared
<1> QED
  BY <1>1, <1>3, <1>4, <1>5, CtrStands DEF CtrInv, StkTypeOK

(* A step that only works on networks or volumes.                          *)
Elsewhere(s, d) ==
    /\ d \in StackCall /\ d.step = s
    /\ d.todo = stkCall.todo /\ d.id = stkCall.id
    /\ d.svcs = stkCall.svcs /\ d.warned = stkCall.warned
    /\ \/ stkCall.step \in {"Networks", "Volumes"} /\ s \in {"Networks", "Volumes", "Services"}
       \/ stkCall.step \in Cleared /\ s \in Cleared

(* Such a step leaves what is known of the containers.                     *)
LEMMA ElsewhereCtr ==
    ASSUME CtrInv, NEW s, NEW d, Elsewhere(s, d), stkCall' = d,
           UNCHANGED <<stkCtr, stkLast, stkRan>>
    PROVE  CtrInv'
<1>1. /\ stkCall \in StackCall /\ StkKept' = StkKept
      /\ s \in {"Networks", "Volumes", "Services"} \cup Cleared
  BY DEF CtrInv, StkTypeOK, StkKept, Elsewhere
<1>2. StkShaped'
  BY <1>1 DEF CtrInv, StkShaped, ForOne, Deploying, Cleared, Elsewhere
<1>3. \A t : Served(t) => Served(t)' \/ stkCall.step = "Prepare"
  BY <1>1 DEF Served
<1>4. CtrsCome'
  BY <1>1, <1>3 DEF CtrInv, CtrsCome, Deploying, Clearing, Cleared, Elsewhere
<1> QED
  BY <1>1, <1>2, <1>4, CtrStands DEF CtrInv, StkTypeOK, Elsewhere

(* StkNetwork.                                                             *)
LEMMA NetworkCtr ==
    ASSUME CtrInv, StkNetwork
    PROVE  CtrInv'
<1>1. /\ stkCall \in StackCall /\ stkCall.step = "Networks"
      /\ UNCHANGED <<stkCtr, stkLast, stkRan>>
  BY DEF CtrInv, StkTypeOK, StkNetwork, StkAt
<1>2. ASSUME NEW n, stkCall' = [stkCall EXCEPT !.nets = @ \ {n}, !.step = "Networks"]
      PROVE  CtrInv'
  <2>1. Elsewhere("Networks", stkCall')
    BY <1>1, <1>2 DEF Elsewhere, StackCall
  <2> QED
    BY <1>1, <2>1, ElsewhereCtr
<1>3. ASSUME stkCall' = [stkCall EXCEPT !.step = "Volumes"]
      PROVE  CtrInv'
  <2>1. Elsewhere("Volumes", stkCall')
    BY <1>1, <1>3 DEF Elsewhere, StackCall
  <2> QED
    BY <1>1, <2>1, ElsewhereCtr
<1> QED
  BY <1>2, <1>3 DEF StkNetwork, StkGoto

(* StkVolume.                                                              *)
LEMMA VolumeCtr ==
    ASSUME CtrInv, StkVolume
    PROVE  CtrInv'
<1>1. /\ stkCall \in StackCall /\ stkCall.step = "Volumes"
      /\ UNCHANGED <<stkCtr, stkLast, stkRan>>
  BY DEF CtrInv, StkTypeOK, StkVolume, StkAt
<1>2. ASSUME NEW n, stkCall' = [stkCall EXCEPT !.vols = @ \ {n}, !.step = "Volumes"]
      PROVE  CtrInv'
  <2>1. Elsewhere("Volumes", stkCall')
    BY <1>1, <1>2 DEF Elsewhere, StackCall
  <2> QED
    BY <1>1, <2>1, ElsewhereCtr
<1>3. ASSUME stkCall' = [stkCall EXCEPT !.step = "Services"]
      PROVE  CtrInv'
  <2>1. Elsewhere("Services", stkCall')
    BY <1>1, <1>3 DEF Elsewhere, StackCall
  <2> QED
    BY <1>1, <2>1, ElsewhereCtr
<1> QED
  BY <1>2, <1>3 DEF StkVolume, StkGoto

(* StkNetworks.                                                            *)
LEMMA NetworksCtr ==
    ASSUME CtrInv, StkNetworks
    PROVE  CtrInv'
<1>1. /\ stkCall \in StackCall /\ stkCall.step \in {"NetList", "NetEach"}
      /\ UNCHANGED <<stkCtr, stkLast, stkRan>>
  BY DEF CtrInv, StkTypeOK, StkNetworks, StkAt
<1>2. ASSUME NEW N \in SUBSET Networks, stkCall' = [stkCall EXCEPT !.nets = N, !.step = "NetEach"]
      PROVE  CtrInv'
  <2>1. Elsewhere("NetEach", stkCall')
    BY <1>1, <1>2 DEF Elsewhere, StackCall, Cleared
  <2> QED
    BY <1>1, <2>1, ElsewhereCtr
<1>3. ASSUME NEW n, stkCall' = [stkCall EXCEPT !.nets = @ \ {n}, !.step = "NetEach"]
      PROVE  CtrInv'
  <2>1. Elsewhere("NetEach", stkCall')
    BY <1>1, <1>3 DEF Elsewhere, StackCall, Cleared
  <2> QED
    BY <1>1, <2>1, ElsewhereCtr
<1>4. ASSUME stkCall' = [stkCall EXCEPT !.step = "VolList"]
      PROVE  CtrInv'
  <2>1. Elsewhere("VolList", stkCall')
    BY <1>1, <1>4 DEF Elsewhere, StackCall, Cleared
  <2> QED
    BY <1>1, <2>1, ElsewhereCtr
<1>5. {i \in Listed : netFile[i].stack} \in SUBSET Networks
  BY DEF Listed
<1> QED
  BY <1>2, <1>3, <1>4, <1>5 DEF StkNetworks, StkGoto

(* StkVolumes: with the last volume the removal ends.                      *)
LEMMA VolumesCtr ==
    ASSUME CtrInv, StkVolumes
    PROVE  CtrInv'
<1>1. /\ stkCall \in StackCall /\ stkCall.step \in {"VolList", "VolEach"}
      /\ UNCHANGED <<stkCtr, stkRan>> /\ StkKept' = StkKept
  BY DEF CtrInv, StkTypeOK, StkVolumes, StkRemoving, StkAt, StkKept
<1>2. ASSUME NEW N \in SUBSET VolNames, stkCall' = [stkCall EXCEPT !.vols = N, !.step = "VolEach"],
             UNCHANGED stkLast
      PROVE  CtrInv'
  <2>1. Elsewhere("VolEach", stkCall')
    BY <1>1, <1>2 DEF Elsewhere, StackCall, Cleared
  <2> QED
    BY <1>1, <1>2, <2>1, ElsewhereCtr
<1>3. ASSUME NEW n, stkCall' = [stkCall EXCEPT !.vols = @ \ {n}, !.step = "VolEach"],
             UNCHANGED stkLast
      PROVE  CtrInv'
  <2>1. Elsewhere("VolEach", stkCall')
    BY <1>1, <1>3 DEF Elsewhere, StackCall, Cleared
  <2> QED
    BY <1>1, <1>3, <2>1, ElsewhereCtr
<1>4. ASSUME stkCall' = StkIdle, stkLast' = "rm"
      PROVE  CtrInv'
  <2>1. StkIdle \in StackCall /\ StkIdle.step = "Idle" /\ StkIdle.todo = {} /\ StkIdle.id = NoCtr
    BY DEF StkIdle, StackCall
  <2>2. StkShaped'
    BY <1>4, <2>1 DEF StkShaped, ForOne, Deploying
  <2>3. CtrsCome'
    BY <1>1, <1>4, <2>1 DEF CtrInv, CtrsCome, Deploying, Clearing, Cleared
  <2> QED
    BY <1>1, <1>4, <2>1, <2>2, <2>3, CtrStands
<1>5. {n \in VolListed : volFile[n].stack} \in SUBSET VolNames
  BY DEF VolListed
<1> QED
  BY <1>2, <1>3, <1>4, <1>5 DEF StkVolumes, StkRemoving, StkGoto

(* StkDie: the containers stay as they are.                                *)
LEMMA DieCtr ==
    ASSUME CtrInv, StkDie
    PROVE  CtrInv'
<1>1. StkIdle \in StackCall /\ StkIdle.step = "Idle" /\ StkIdle.todo = {} /\ StkIdle.id = NoCtr
  BY DEF StkIdle, StackCall
<1>2. stkCall' = StkIdle /\ stkLast' = "none" /\ UNCHANGED <<stkCtr, stkRan>> /\ StkKept' = StkKept
  BY DEF StkDie, StkKept
<1>3. StkShaped'
  BY <1>1, <1>2 DEF StkShaped, ForOne, Deploying
<1>4. CtrsCome'
  BY <1>1, <1>2 DEF CtrInv, CtrsCome, Deploying, Clearing, Cleared
<1> QED
  BY <1>1, <1>2, <1>3, <1>4, CtrStands

(* The record of a container changes, not its service.                     *)
LEMMA CtrRecord ==
    ASSUME CtrInv, NEW i \in StkKept, NEW r \in StackCtr, r.svc = stkCtr[i].svc,
           stkCtr' = [stkCtr EXCEPT ![i] = r]
    PROVE  /\ stkCtr' \in [StackCtrs -> StackCtr \cup {NoCtr}] /\ StkKept' = StkKept
           /\ stkCtr'[i] = r /\ \A j \in StkKept \ {i} : stkCtr'[j] = stkCtr[j]
           /\ OneContainerEach'
<1>1. stkCtr \in [StackCtrs -> StackCtr \cup {NoCtr}] /\ i \in StackCtrs /\ r # NoCtr
  BY StackCtrAssumption DEF CtrInv, StkTypeOK, StkKept
<1>2. stkCtr' \in [StackCtrs -> StackCtr \cup {NoCtr}]
  BY <1>1
<1>3. stkCtr'[i] = r /\ \A j \in StackCtrs \ {i} : stkCtr'[j] = stkCtr[j]
  BY <1>1
<1>4. StkKept' = StkKept
  BY <1>1, <1>3 DEF StkKept
<1>5. \A j \in StkKept : stkCtr'[j].svc = stkCtr[j].svc
  BY <1>3 DEF StkKept
<1>6. OneContainerEach'
  BY <1>4, <1>5 DEF CtrInv, OneContainerEach
<1> QED
  BY <1>2, <1>3, <1>4, <1>6 DEF StkKept

(* StkService: whoever had the name is replaced, or keeps it and is a warning.*)
LEMMA ServiceCtr ==
    ASSUME CtrInv, StkService
    PROVE  CtrInv'
<1>1. /\ stkCall \in StackCall /\ stkCall.step = "Services" /\ UNCHANGED stkRan
      /\ stkCtr \in [StackCtrs -> StackCtr \cup {NoCtr}]
      /\ stkLast \in {"none", "deploy", "warned", "rm"}
      /\ stkCall.todo = {} /\ stkCall.id = NoCtr
  BY DEF CtrInv, StkTypeOK, StkShaped, ForOne, Deploying, StkService, StkAt
<1>2. ASSUME NEW s \in stkCall.svcs, UNCHANGED <<stkCtr, stkLast>>,
             stkCall' = [[stkCall EXCEPT !.svcs = @ \ {s}]
                          EXCEPT !.warned = TRUE, !.step = "Services"]
      PROVE  CtrInv'
  <2>1. /\ stkCall' \in StackCall /\ stkCall'.step = "Services" /\ stkCall'.warned
        /\ stkCall'.todo = stkCall.todo
        /\ stkCall'.id = stkCall.id
    BY <1>1, <1>2 DEF StackCall
  <2>2. StkKept' = StkKept
    BY <1>2 DEF StkKept
  <2>3. StkShaped'
    BY <1>1, <2>1, <2>2 DEF StkShaped, ForOne, Deploying
  <2>4. CtrsCome'
    BY <1>1, <1>2, <2>1, <2>2 DEF CtrInv, CtrsCome, Clearing, Cleared
  <2> QED
    BY <1>1, <1>2, <2>1, <2>3, <2>4, CtrStands
<1>3. ASSUME NEW s \in stkCall.svcs, NEW i \in StackCtrs \ StkKept, UNCHANGED stkLast,
             NEW image \in BOOLEAN, image \/ s \in Imageless,
             LET same == {j \in StkKept : stkCtr[j].svc = s} IN
             /\ \A j \in same : ~stkCtr[j].running
             /\ stkCtr' = [j \in StackCtrs |->
                   IF j = i THEN [svc |-> s, running |-> FALSE, alive |-> FALSE,
                                  watched |-> FALSE, rootfs |-> "empty"]
                   ELSE IF j \in same THEN NoCtr ELSE stkCtr[j]],
             LET c == [stkCall EXCEPT !.svcs = @ \ {s}] IN
             stkCall' = IF image THEN [c EXCEPT !.id = i, !.step = "Prepare"]
                        ELSE [c EXCEPT !.step = "Services"]
      PROVE  CtrInv'
  <2> DEFINE same == {j \in StkKept : stkCtr[j].svc = s}
             r == [svc |-> s, running |-> FALSE, alive |-> FALSE, watched |-> FALSE,
                   rootfs |-> "empty"]
  <2>0. s \in Services
    BY <1>1, <1>3 DEF StackCall
  <2>1. /\ r \in StackCtr /\ r.svc = s /\ ~r.running
    BY <2>0 DEF StackCtr
  <2>9. r # NoCtr
    BY <2>1, StackCtrAssumption
  <2>2. stkCtr' = [j \in StackCtrs |-> IF j = i THEN r ELSE IF j \in same THEN NoCtr ELSE stkCtr[j]]
    BY <1>3
  <2> HIDE DEF r, same
  <2>3. stkCtr' \in [StackCtrs -> StackCtr \cup {NoCtr}]
    BY <1>1, <2>1, <2>2
  <2>4. /\ StkKept' = (StkKept \ same) \cup {i} /\ stkCtr'[i] = r
        /\ \A j \in StkKept \ same : j # i /\ stkCtr'[j] = stkCtr[j] /\ stkCtr[j].svc # s
    BY <1>3, <2>1, <2>9, <2>2 DEF StkKept, same
  <2>5. OneContainerEach'
    BY <2>1, <2>4 DEF CtrInv, OneContainerEach
  <2>6. /\ stkCall' \in StackCall /\ stkCall'.todo = stkCall.todo
        /\ IF image THEN stkCall'.step = "Prepare" /\ stkCall'.id = i
           ELSE stkCall'.step = "Services" /\ stkCall'.id = NoCtr /\ s \in Imageless
        /\ stkCall'.svcs = stkCall.svcs \ {s} /\ stkCall'.warned = stkCall.warned
    <3>1. CASE image
      BY <1>1, <1>3, <3>1 DEF StackCall
    <3>2. CASE ~image
      BY <1>1, <1>3, <3>2 DEF StackCall
    <3> QED
      BY <3>1, <3>2
  <2>7. StkShaped'
    BY <1>1, <2>4, <2>6 DEF StkShaped, ForOne, Deploying
  <2>8. CtrsCome'
    <3>1. ASSUME ~stkCall.warned, NEW t \in Services \ (stkCall.svcs \ {s})
          PROVE  Served(t)'
      <4>1. CASE t = s
        BY <2>1, <2>4, <2>6, <4>1 DEF Served
      <4>2. CASE t # s
        <5>1. Served(t)
          BY <1>1, <3>1, <4>2 DEF CtrInv, CtrsCome, Deploying
        <5>2. PICK j \in StkKept :
                  stkCtr[j].svc = t /\ (t \in Imageless \/ stkCtr[j].rootfs = "full")
          BY <1>1, <5>1 DEF Served
        <5>3. j \in StkKept \ same
          BY <4>2, <5>2 DEF same
        <5> QED
          BY <2>4, <5>2, <5>3 DEF Served
      <4> QED
        BY <4>1, <4>2
    <3>2. ~stkRan => \A j \in StkKept' : ~stkCtr'[j].running
      BY <2>1, <2>4 DEF CtrInv, CtrsCome
    <3> QED
      BY <1>1, <2>6, <3>1, <3>2 DEF CtrsCome, Deploying, Clearing, Cleared
  <2> QED
    BY <1>1, <1>3, <2>3, <2>5, <2>6, <2>7, <2>8 DEF CtrInv, StkTypeOK
<1>4. ASSUME stkCall.svcs = {}, stkCall' = StkIdle, UNCHANGED stkCtr,
             stkLast' = IF stkCall.warned THEN "warned" ELSE "deploy"
      PROVE  CtrInv'
  <2>1. StkIdle \in StackCall /\ StkIdle.step = "Idle" /\ StkIdle.todo = {} /\ StkIdle.id = NoCtr
    BY DEF StkIdle, StackCall
  <2>2. StkKept' = StkKept
    BY <1>4 DEF StkKept
  <2>3. StkShaped'
    BY <1>4, <2>1 DEF StkShaped, ForOne, Deploying
  <2>4. \A t : Served(t) => Served(t)'
    BY <1>1, <1>4, <2>2 DEF Served
  <2>5. CtrsCome'
    BY <1>1, <1>4, <2>1, <2>2, <2>4 DEF CtrInv, CtrsCome, Deploying, Clearing, Cleared
  <2> QED
    BY <1>1, <1>4, <2>1, <2>3, <2>5, CtrStands
<1> QED
  BY <1>2, <1>3, <1>4 DEF StkService, StkGoto

(* A step for the container that the command is at: its record may change, *)
(* but not its service, nor whether it runs, nor can its file system go    *)
(* during a deployment.                                                    *)
LEMMA PrepareCtr ==
    ASSUME CtrInv, StkPrepare
    PROVE  CtrInv'
<1> DEFINE i == stkCall.id
<1>1. /\ stkCall \in StackCall /\ stkCall.step = "Prepare" /\ UNCHANGED <<stkLast, stkRan>>
      /\ stkCtr \in [StackCtrs -> StackCtr \cup {NoCtr}] /\ i \in StkKept /\ stkCall.todo = {}
  BY DEF CtrInv, StkTypeOK, StkShaped, ForOne, Deploying, StkPrepare, StkAt
<1>2. stkCtr[i] \in StackCtr
  BY <1>1 DEF StkKept
<1>3. CASE /\ stkCtr' = [stkCtr EXCEPT ![stkCall.id].rootfs = "full"]
           /\ stkCall' = [stkCall EXCEPT !.id = NoCtr, !.step = "Services"]
  <2> DEFINE r == [stkCtr[i] EXCEPT !.rootfs = "full"]
  <2>1. /\ r \in StackCtr /\ r.svc = stkCtr[i].svc /\ r.rootfs = "full"
        /\ r.running = stkCtr[i].running
    BY <1>2 DEF StackCtr
  <2>2. stkCtr' = [stkCtr EXCEPT ![i] = r]
    BY <1>3
  <2> HIDE DEF r, i
  <2>3. /\ stkCtr' \in [StackCtrs -> StackCtr \cup {NoCtr}] /\ StkKept' = StkKept
        /\ stkCtr'[i] = r /\ \A j \in StkKept \ {i} : stkCtr'[j] = stkCtr[j]
        /\ OneContainerEach'
    BY <1>1, <2>1, <2>2, CtrRecord
  <2>4. /\ stkCall' \in StackCall /\ stkCall'.step = "Services"
        /\ stkCall'.todo = {} /\ stkCall'.id = NoCtr
        /\ stkCall'.svcs = stkCall.svcs /\ stkCall'.warned = stkCall.warned
    BY <1>1, <1>3 DEF StackCall
  <2>5. StkShaped'
    BY <2>4 DEF StkShaped, ForOne, Deploying
  <2>6. \A t : Served(t) => Served(t)'
    BY <1>1, <2>1, <2>3 DEF Served, i
  <2>7. CtrsCome'
    BY <1>1, <2>1, <2>3, <2>4, <2>6 DEF CtrInv, CtrsCome, Deploying, Clearing, Cleared
  <2> QED
    BY <1>1, <2>3, <2>4, <2>5, <2>7 DEF CtrInv, StkTypeOK
<1>4. CASE /\ UNCHANGED stkCtr
           /\ stkCall' = [stkCall EXCEPT !.id = NoCtr, !.warned = TRUE, !.step = "Services"]
  <2>1. /\ stkCall' \in StackCall /\ stkCall'.step = "Services"
        /\ stkCall'.todo = {} /\ stkCall'.id = NoCtr
        /\ stkCall'.warned
    BY <1>1, <1>4 DEF StackCall
  <2>2. StkKept' = StkKept
    BY <1>4 DEF StkKept
  <2>3. StkShaped'
    BY <2>1 DEF StkShaped, ForOne, Deploying
  <2>4. CtrsCome'
    BY <1>1, <1>4, <2>1, <2>2 DEF CtrInv, CtrsCome, Clearing, Cleared
  <2> QED
    BY <1>1, <1>4, <2>1, <2>3, <2>4, CtrStands DEF CtrInv, StkTypeOK
<1> QED
  BY <1>3, <1>4 DEF StkPrepare, StkGoto

(* StkContainer: the next of the listing, or the networks.                 *)
LEMMA ContainerCtr ==
    ASSUME CtrInv, StkContainer
    PROVE  CtrInv'
<1>1. /\ stkCall \in StackCall /\ stkCall.step = "Containers"
      /\ UNCHANGED <<stkCtr, stkLast, stkRan>> /\ StkKept' = StkKept
      /\ stkCall.todo \subseteq StkKept /\ StkKept \subseteq StackCtrs /\ stkCall.id = NoCtr
  BY DEF CtrInv, StkTypeOK, StkShaped, ForOne, StkKept, StkContainer, StkAt
<1>2. ASSUME NEW i \in stkCall.todo, NEW s \in {"Stop", "Rootfs"},
             stkCall' = [stkCall EXCEPT !.todo = @ \ {i}, !.id = i, !.step = s]
      PROVE  CtrInv'
  <2>1. /\ stkCall' \in StackCall /\ stkCall'.step = s /\ stkCall'.todo = stkCall.todo \ {i}
        /\ stkCall'.id = i
    BY <1>1, <1>2 DEF StackCall
  <2>2. StkShaped'
    BY <1>1, <2>1 DEF StkShaped, ForOne, Deploying
  <2>3. ~stkRan => StkKept \subseteq stkCall.todo
    BY <1>1, NoCtrAssumption DEF CtrInv, CtrsCome, Clearing
  <2>4. CtrsCome'
    BY <1>1, <2>1, <2>3 DEF CtrInv, CtrsCome, Deploying, Clearing, Cleared
  <2> QED
    BY <1>1, <2>1, <2>2, <2>4, CtrStands DEF CtrInv, StkTypeOK
<1>3. ASSUME stkCall.todo = {}, stkCall' = [stkCall EXCEPT !.step = "NetList"]
      PROVE  CtrInv'
  <2>1. /\ stkCall' \in StackCall /\ stkCall'.step = "NetList"
        /\ stkCall'.todo = {} /\ stkCall'.id = NoCtr
    BY <1>1, <1>3 DEF StackCall
  <2>2. StkShaped'
    BY <2>1 DEF StkShaped, ForOne, Deploying
  <2>3. ~stkRan => StkKept = {}
    BY <1>1, <1>3, NoCtrAssumption DEF CtrInv, CtrsCome, Clearing
  <2>4. CtrsCome'
    BY <1>1, <2>1, <2>3 DEF CtrInv, CtrsCome, Deploying, Clearing, Cleared
  <2> QED
    BY <1>1, <2>1, <2>2, <2>4, CtrStands DEF CtrInv, StkTypeOK
<1> QED
  BY <1>2, <1>3 DEF StkContainer, StkGoto

(* A removal goes on with the container that it is at.                     *)
LEMMA ClearCtr ==
    ASSUME CtrInv, NEW s \in {"Rootfs", "Delete"}, stkCall.step \in {"Stop", "Rootfs"},
           NEW r \in StackCtr, r.svc = stkCtr[stkCall.id].svc,
           r.running = stkCtr[stkCall.id].running,
           stkCtr' = [stkCtr EXCEPT ![stkCall.id] = r],
           stkCall' = [stkCall EXCEPT !.step = s], UNCHANGED <<stkLast, stkRan>>
    PROVE  CtrInv'
<1>1. /\ stkCall \in StackCall /\ stkCall.id \in StkKept \ stkCall.todo
      /\ stkCall.todo \subseteq StkKept
  BY DEF CtrInv, StkTypeOK, StkShaped, ForOne
<1>2. /\ stkCtr' \in [StackCtrs -> StackCtr \cup {NoCtr}] /\ StkKept' = StkKept
      /\ stkCtr'[stkCall.id] = r /\ \A j \in StkKept \ {stkCall.id} : stkCtr'[j] = stkCtr[j]
      /\ OneContainerEach'
  BY <1>1, CtrRecord
<1>3. /\ stkCall' \in StackCall /\ stkCall'.step = s /\ stkCall'.todo = stkCall.todo
      /\ stkCall'.id = stkCall.id
  BY <1>1 DEF StackCall
<1>4. StkShaped'
  BY <1>1, <1>2, <1>3 DEF StkShaped, ForOne, Deploying
<1>5. CtrsCome'
  BY <1>2, <1>3 DEF CtrInv, CtrsCome, Deploying, Clearing, Cleared
<1> QED
  BY <1>2, <1>3, <1>4, <1>5 DEF CtrInv, StkTypeOK

(* StkStop.                                                                *)
LEMMA StopCtr ==
    ASSUME CtrInv, StkStop
    PROVE  CtrInv'
<1>1. /\ stkCall.step = "Stop" /\ UNCHANGED <<stkLast, stkRan>>
      /\ stkCall' = [stkCall EXCEPT !.step = "Rootfs"]
  BY DEF StkStop, StkAt, StkGoto
<1>2. stkCtr[stkCall.id] \in StackCtr
  BY <1>1 DEF CtrInv, StkTypeOK, StkShaped, ForOne, StkKept
<1>3. PICK a \in {FALSE, stkCtr[stkCall.id].alive} :
          stkCtr' = [stkCtr EXCEPT ![stkCall.id].alive = a]
  BY DEF StkStop
<1> DEFINE r == [stkCtr[stkCall.id] EXCEPT !.alive = a]
<1>4. r \in StackCtr /\ r.svc = stkCtr[stkCall.id].svc /\ r.running = stkCtr[stkCall.id].running
  BY <1>2 DEF StackCtr
<1>5. stkCtr' = [stkCtr EXCEPT ![stkCall.id] = r]
  BY <1>3
<1> HIDE DEF r
<1> QED
  BY <1>1, <1>4, <1>5, ClearCtr

(* StkRootfs.                                                              *)
LEMMA RootfsCtr ==
    ASSUME CtrInv, StkRootfs
    PROVE  CtrInv'
<1>1. /\ stkCall.step = "Rootfs" /\ UNCHANGED <<stkLast, stkRan>>
      /\ stkCall' = [stkCall EXCEPT !.step = "Delete"]
  BY DEF StkRootfs, StkAt, StkGoto
<1>2. stkCtr[stkCall.id] \in StackCtr
  BY <1>1 DEF CtrInv, StkTypeOK, StkShaped, ForOne, StkKept
<1> DEFINE r == [stkCtr[stkCall.id] EXCEPT !.rootfs = "none"]
<1>3. r \in StackCtr /\ r.svc = stkCtr[stkCall.id].svc /\ r.running = stkCtr[stkCall.id].running
  BY <1>2 DEF StackCtr
<1>4. stkCtr' = [stkCtr EXCEPT ![stkCall.id] = r]
  BY DEF StkRootfs
<1> HIDE DEF r
<1> QED
  BY <1>1, <1>3, <1>4, ClearCtr

(* StkDelete: the container goes unless its record says it runs.           *)
LEMMA DeleteCtr ==
    ASSUME CtrInv, StkDelete
    PROVE  CtrInv'
<1> DEFINE i == stkCall.id
<1>1. /\ stkCall \in StackCall /\ stkCall.step = "Delete" /\ UNCHANGED <<stkLast, stkRan>>
      /\ stkCtr \in [StackCtrs -> StackCtr \cup {NoCtr}]
      /\ i \in StkKept \ stkCall.todo /\ stkCall.todo \subseteq StkKept
      /\ stkCall' = [stkCall EXCEPT !.id = NoCtr, !.step = "Containers"]
  BY DEF CtrInv, StkTypeOK, StkShaped, ForOne, StkDelete, StkAt, StkGoto
<1>2. /\ stkCall' \in StackCall /\ stkCall'.step = "Containers" /\ stkCall'.todo = stkCall.todo
      /\ stkCall'.id = NoCtr
  BY <1>1 DEF StackCall
<1>3. CASE stkCtr[i].running
  <2>1. stkCtr' = stkCtr /\ StkKept' = StkKept
    BY <1>3 DEF StkDelete, StkKept
  <2>2. StkShaped'
    BY <1>1, <1>2, <2>1 DEF StkShaped, ForOne, Deploying
  <2>3. CtrsCome'
    BY <1>1, <1>2, <1>3, <2>1 DEF CtrInv, CtrsCome, Deploying, Clearing, Cleared
  <2> QED
    BY <1>1, <1>2, <2>1, <2>2, <2>3, CtrStands DEF CtrInv, StkTypeOK
<1>4. CASE ~stkCtr[i].running
  <2>1. stkCtr' = [stkCtr EXCEPT ![i] = NoCtr]
    BY <1>4 DEF StkDelete
  <2> HIDE DEF i
  <2>2. /\ stkCtr' \in [StackCtrs -> StackCtr \cup {NoCtr}] /\ StkKept' = StkKept \ {i}
        /\ \A j \in StkKept \ {i} : stkCtr'[j] = stkCtr[j]
    BY <1>1, <2>1 DEF StkKept
  <2>3. OneContainerEach'
    BY <2>2 DEF CtrInv, OneContainerEach
  <2>4. StkShaped'
    BY <1>1, <1>2, <2>2 DEF StkShaped, ForOne, Deploying
  <2>5. ~stkRan => StkKept' \subseteq stkCall.todo
    BY <1>1, <2>2 DEF CtrInv, CtrsCome, Clearing, i
  <2>6. CtrsCome'
    BY <1>1, <1>2, <2>2, <2>5 DEF CtrInv, CtrsCome, Deploying, Clearing, Cleared
  <2> QED
    BY <1>1, <1>2, <2>2, <2>3, <2>4, <2>6 DEF CtrInv, StkTypeOK
<1> QED
  BY <1>3, <1>4

(* Something happens to a container, and not by the command.               *)
LEMMA HappensCtr ==
    ASSUME CtrInv, NEW i \in StkKept, NEW r \in StackCtr, r.svc = stkCtr[i].svc,
           r.rootfs = stkCtr[i].rootfs, stkRan' \in BOOLEAN, stkRan => stkRan',
           ~stkRan' => (r.running => stkCtr[i].running),
           stkCtr' = [stkCtr EXCEPT ![i] = r], UNCHANGED <<stkCall, stkLast>>
    PROVE  CtrInv'
<1>1. /\ stkCtr' \in [StackCtrs -> StackCtr \cup {NoCtr}] /\ StkKept' = StkKept
      /\ stkCtr'[i] = r /\ \A j \in StkKept \ {i} : stkCtr'[j] = stkCtr[j]
      /\ OneContainerEach'
  BY CtrRecord
<1>2. StkShaped'
  BY <1>1 DEF CtrInv, StkShaped
<1>3. \A s : Served(s) => Served(s)'
  BY <1>1 DEF Served
<1>4. CtrsCome'
  BY <1>1, <1>3 DEF CtrInv, CtrsCome
<1> QED
  BY <1>1, <1>2, <1>4 DEF CtrInv, StkTypeOK

(* StkStart.                                                               *)
LEMMA StartCtr ==
    ASSUME CtrInv, NEW i \in StackCtrs, StkStart(i)
    PROVE  CtrInv'
<1>1. i \in StkKept /\ stkCtr[i] \in StackCtr /\ stkRan' = TRUE /\ UNCHANGED <<stkCall, stkLast>>
  BY DEF CtrInv, StkTypeOK, StkKept, StkStart
<1>2. PICK w \in BOOLEAN :
          stkCtr' = [stkCtr EXCEPT ![i].running = TRUE, ![i].alive = TRUE, ![i].watched = w]
  BY DEF StkStart
<1> DEFINE r == [stkCtr[i] EXCEPT !.running = TRUE, !.alive = TRUE, !.watched = w]
<1>3. r \in StackCtr /\ r.svc = stkCtr[i].svc /\ r.rootfs = stkCtr[i].rootfs
  BY <1>1 DEF StackCtr
<1>4. stkCtr' = [stkCtr EXCEPT ![i] = r]
  BY <1>1, <1>2, <1>3 DEF CtrInv, StkTypeOK, StackCtr
<1> HIDE DEF r
<1> QED
  BY <1>1, <1>3, <1>4, HappensCtr

(* StkExit.                                                                *)
LEMMA ExitCtr ==
    ASSUME CtrInv, NEW i \in StackCtrs, StkExit(i)
    PROVE  CtrInv'
<1>1. /\ i \in StkKept /\ stkCtr[i] \in StackCtr /\ stkRan \in BOOLEAN
      /\ UNCHANGED <<stkCall, stkLast, stkRan>>
  BY DEF CtrInv, StkTypeOK, StkKept, StkExit
<1> DEFINE r == [stkCtr[i] EXCEPT !.alive = FALSE]
<1>2. /\ r \in StackCtr /\ r.svc = stkCtr[i].svc /\ r.rootfs = stkCtr[i].rootfs
      /\ r.running = stkCtr[i].running
  BY <1>1 DEF StackCtr
<1>3. stkCtr' = [stkCtr EXCEPT ![i] = r]
  BY DEF StkExit
<1> HIDE DEF r
<1> QED
  BY <1>1, <1>2, <1>3, HappensCtr

(* StkRecorded.                                                            *)
LEMMA RecordedCtr ==
    ASSUME CtrInv, NEW i \in StackCtrs, StkRecorded(i)
    PROVE  CtrInv'
<1>1. /\ i \in StkKept /\ stkCtr[i] \in StackCtr /\ stkRan \in BOOLEAN
      /\ stkCtr \in [StackCtrs -> StackCtr \cup {NoCtr}]
      /\ UNCHANGED <<stkCall, stkLast, stkRan>>
  BY DEF CtrInv, StkTypeOK, StkKept, StkRecorded
<1> DEFINE r == [stkCtr[i] EXCEPT !.running = FALSE, !.watched = FALSE]
<1>2. /\ r \in StackCtr /\ r.svc = stkCtr[i].svc /\ r.rootfs = stkCtr[i].rootfs /\ ~r.running
  BY <1>1 DEF StackCtr
<1>3. stkCtr' = [stkCtr EXCEPT ![i] = r]
  BY <1>1, <1>2 DEF StkRecorded, StackCtr
<1> HIDE DEF r
<1> QED
  BY <1>1, <1>2, <1>3, HappensCtr

(* Every step.                                                             *)
LEMMA NextCtr == CtrInv /\ [StkNext]_<<netVars, volVars, stkVars>> => CtrInv'
<1> SUFFICES ASSUME CtrInv, [StkNext]_<<netVars, volVars, stkVars>> PROVE CtrInv'
  OBVIOUS
<1>1. CASE StkDeploy \/ StkRm \/ StkDie
  BY <1>1, DeployCtr, RmCtr, DieCtr
<1>2. CASE StkNetwork \/ StkVolume \/ StkService \/ StkPrepare
  BY <1>2, NetworkCtr, VolumeCtr, ServiceCtr, PrepareCtr
<1>3. CASE StkContainer \/ StkStop \/ StkRootfs \/ StkDelete
  BY <1>3, ContainerCtr, StopCtr, RootfsCtr, DeleteCtr
<1>4. CASE StkNetworks \/ StkVolumes
  BY <1>4, NetworksCtr, VolumesCtr
<1>5. CASE UNCHANGED stkVars
  BY <1>5, CtrStill
<1>6. CASE \E i \in StackCtrs : StkStart(i) \/ StkExit(i) \/ StkRecorded(i)
  BY <1>6, StartCtr, ExitCtr, RecordedCtr
<1>7. CASE \/ \E k \in NetActors : NetStep(k) /\ UNCHANGED <<stkVars, volVars>>
           \/ \E k \in VolActors : (VolRequest(k) \/ VolStep(k)) /\ UNCHANGED <<stkVars, netVars>>
  BY <1>5, <1>7
<1> QED
  BY <1>1, <1>2, <1>3, <1>4, <1>5, <1>6, <1>7 DEF StkNext, StkStep

(* And so it always holds.                                                 *)
LEMMA CtrAlways == StkSpec => []CtrInv
<1>1. NetInit /\ VolInit /\ StkInit => CtrInv
  BY CtrStarts
<1> QED
  BY <1>1, NextCtr, PTL DEF StkSpec

(* The state of a stack command and of the containers is typed.            *)
THEOREM StacksTyped == StkSpec => []StkTypeOK
<1>1. CtrInv => StkTypeOK
  BY DEF CtrInv
<1> QED
  BY <1>1, CtrAlways, PTL

(* No service ever has two containers: not when its stack is deployed a    *)
(* second time, not after a deployment was killed between any two of its   *)
(* steps.  For any number of services, containers, networks and volumes.   *)
THEOREM OneEach == StkSpec => []OneContainerEach
<1>1. CtrInv => OneContainerEach
  BY DEF CtrInv
<1> QED
  BY <1>1, CtrAlways, PTL

-----------------------------------------------------------------------------
(* Networks.                                                               *)

(* There are no networks at first.                                         *)
LEMMA NetsStart == NetInit /\ VolInit /\ StkInit => NetsInv
<1> SUFFICES ASSUME NetInit, VolInit, StkInit PROVE NetsInv
  OBVIOUS
<1>1. /\ stkCall.step = "Idle" /\ stkLast = "none" /\ ~netOverlap /\ ~netDied /\ ~volDied
      /\ \A k \in NetActors : netCall[k] = NetIdle
      /\ NetIdle.step = "Idle" /\ StackUser \in NetActors
  BY StackAssumption DEF NetInit, VolInit, StkInit, StkIdle, NetIdle
<1>2. Listed = {}
  BY NetRecordsAssumption DEF NetInit, Listed, Readable, NetFiles
<1>3. OnlyStack
  BY <1>1, <1>2 DEF OnlyStack, AskShaped, Asks, Files
<1>4. NetsCome
  BY <1>1, <1>2 DEF NetsCome, Asks, Deploying
<1> QED
  BY <1>3, <1>4, NetStarts DEF NetsInv

(* What the command goes on to must be true of the networks that stay.     *)
LEMMA NetsStand ==
    ASSUME NetsInv, UNCHANGED <<netVars, volDied>>, Asks = NetIdle,
           stkCall'.step = "Networks" => stkCall'.nets \subseteq StackNets,
           stkCall'.step = "NetEach" => stkCall'.nets \subseteq Networks,
           CalledByName /\ ~netDied =>
              /\ stkCall'.step \in Deploying =>
                    \A n \in StackNets :
                        Target(n) \in Listed \/ (stkCall'.step = "Networks" /\ n \in stkCall'.nets)
              /\ stkCall'.step \in {"NetEach", "VolList", "VolEach"} =>
                    \A i \in Listed :
                        netFile[i].stack => stkCall'.step = "NetEach" /\ i \in stkCall'.nets
              /\ stkCall'.step = "Idle" /\ stkLast' \in {"deploy", "warned"} =>
                    \A n \in StackNets : Target(n) \in Listed
              /\ stkCall'.step = "Idle" /\ stkLast' = "rm" => \A i \in Listed : ~netFile[i].stack
    PROVE  NetsInv'
<1>1. NetInv'
  BY StillNet DEF NetsInv
<1>2. /\ UNCHANGED <<netFile, netCall, netMenu, netOverlap, netDied>>
      /\ Listed' = Listed /\ (CalledByName' <=> CalledByName) /\ Asks' = NetIdle
      /\ \A n : Target(n)' = Target(n)
  BY DEF netVars, Listed, Readable, CalledByName, Asks, Target
<1>3. OnlyStack'
  BY <1>2 DEF NetsInv, OnlyStack, AskShaped, Asks, NetIdle, Files
<1>4. NetsCome'
  BY <1>2 DEF NetsCome, NetIdle
<1> QED
  BY <1>1, <1>3, <1>4 DEF NetsInv

(* What is known of a call that the command makes.                         *)
LEMMA NetsAtWork ==
    ASSUME NetsInv, NEW k \in NetActors, NetStep(k)
    PROVE  /\ k = StackUser /\ Asks \in Call /\ NetShaped(Asks) /\ Asks # NetIdle
           /\ AskShaped(Asks) /\ Asks.op \in {"create", "rm_f"}
           /\ CalledByName => Own(Asks)
           /\ CalledByName /\ ~netDied => Found(Asks)
<1>0. netCall[k].step # "Idle"
  <2>1. CASE ensureDefaults(k) \/ NetTruncate(k) \/ NetWrite(k) \/ NetCreate(k) \/ NetSubnet(k)
    BY <2>1 DEF ensureDefaults, NetTruncate, NetWrite, NetCreate, NetSubnet
  <2>2. CASE NetAlias(k) \/ DeleteForce(k) \/ NetUnname(k) \/ NetUnlink(k)
    BY <2>2 DEF NetAlias, DeleteForce, NetDeleting, NetUnname, NetUnlink
  <2>3. CASE NetPrune(k)
    <3>1. netCall[k].step \in {"List", "Each"}
      BY <2>3, Zenon DEF NetPrune
    <3> QED
      BY <3>1
  <2>4. CASE Connect(k) \/ Disconnect(k)
    BY <2>4 DEF Connect, Disconnect, NetUpdating
  <2> QED
    BY <2>1, <2>2, <2>3, <2>4 DEF NetStep
<1>1. netCall[k] # NetIdle /\ netCall[k].step # "Idle"
  BY <1>0 DEF NetIdle
<1>2. k = StackUser /\ ~netOverlap /\ AskShaped(Asks)
  BY <1>1 DEF NetsInv, OnlyStack
<1>3. Asks.op \in {"create", "rm_f"}
  BY <1>1, <1>2 DEF AskShaped, Asks
<1> QED
  BY <1>1, <1>2, <1>3, NetWorks DEF NetsInv, Asks

(* What such a call must keep: c before the step, d after it.              *)
Keeps(c, d) ==
    /\ d # NetIdle =>
          d.op = c.op /\ d.stack = c.stack /\ (c.op = "create" => d.name = c.name)
    /\ d.step \in Files =>
          /\ d.id \in NetNames => d.id = d.name
          /\ d.id = Bridge => ~d.copy.stack
          /\ d.id \in Networks => d.next # "Idle"

(* A step of the call of the command: c before, d after.                   *)
LEMMA NetsStepped ==
    ASSUME NetsInv, NetInv', NEW c, c = Asks, c # NetIdle, NEW d, netCall'[StackUser] = d,
           \A k \in NetActors \ {StackUser} : netCall'[k] = NetIdle,
           UNCHANGED <<stkVars, volDied, netMenu, netOverlap, netDied>>, Keeps(c, d),
           Bridge \in Listed' => ~netFile'[Bridge].stack,
           CalledByName /\ ~netDied =>
              /\ d.step = "Truncate" => netFile'[d.id] = NoRecord
              /\ c.op = "create" =>
                    \A n \in StackNets :
                        Target(n) \in Listed \/ (n = c.name /\ d = NetIdle) =>
                            (Target(n) \in Listed)'
              /\ c.op = "rm_f" =>
                    \A i \in Listed' :
                        netFile'[i].stack =>
                            i \in Listed /\ netFile[i].stack /\ (Removing(c, i) => Removing(d, i))
    PROVE  NetsInv'
<1>1. /\ Asks' = d /\ (CalledByName' <=> CalledByName) /\ UNCHANGED <<stkCall, stkLast>>
      /\ AskShaped(c)
  BY DEF Asks, CalledByName, stkVars, NetsInv, OnlyStack
<1>2. d # NetIdle =>
          \/ d.op = "create" /\ d.stack /\ d.name \in StackNets /\ stkCall.step = "Networks"
          \/ d.op = "rm_f" /\ stkCall.step = "NetEach"
  BY <1>1 DEF AskShaped, Keeps
<1>3. AskShaped(d)'
  BY <1>1, <1>2 DEF AskShaped, Keeps
<1>4. OnlyStack'
  BY <1>1, <1>3 DEF NetsInv, OnlyStack
<1>5. NetsCome'
  <2> SUFFICES ASSUME CalledByName, ~netDied PROVE NetsCome'
    BY <1>1 DEF NetsCome
  <2>1. d.step = "Truncate" => netFile'[d.id] = NoRecord
    OBVIOUS
  <2>2. CASE c.op = "create"
    <3>1. stkCall.step = "Networks"
      BY <1>1, <2>2 DEF AskShaped
    <3>2. ASSUME NEW n \in StackNets
          PROVE  (Target(n) \in Listed)' \/ n \in stkCall.nets \cup {d.name}
      <4>1. Target(n) \in Listed \/ n \in stkCall.nets \cup {c.name}
        BY <3>1 DEF NetsInv, NetsCome, Deploying
      <4> QED
        BY <2>2, <4>1 DEF Keeps
    <3> QED
      BY <1>1, <2>1, <3>1, <3>2 DEF NetsCome
  <2>3. CASE c.op = "rm_f"
    <3>1. stkCall.step = "NetEach"
      BY <1>1, <2>3 DEF AskShaped
    <3>2. ASSUME NEW i \in Listed', netFile'[i].stack
          PROVE  i \in stkCall.nets \/ Removing(d, i)
      BY <2>3, <3>1, <3>2 DEF NetsInv, NetsCome
    <3> QED
      BY <1>1, <2>1, <3>1, <3>2 DEF NetsCome, Removing, Deploying
  <2> QED
    BY <1>1, <2>2, <2>3 DEF AskShaped
<1> QED
  BY <1>4, <1>5 DEF NetsInv

(* A step that leaves the files alone.                                     *)
LEMMA NetsQuiet ==
    ASSUME NetsInv, NetInv', NEW c, c = Asks, c # NetIdle, NEW d,
           netCall' = [netCall EXCEPT ![StackUser] = d],
           UNCHANGED <<stkVars, volDied, netFile, netMenu, netOverlap, netDied>>, Keeps(c, d),
           CalledByName /\ ~netDied =>
              /\ d.step = "Truncate" => netFile[d.id] = NoRecord
              /\ c.op = "create" /\ d = NetIdle => Target(c.name) \in Listed
              /\ c.op = "rm_f" =>
                    \A i \in Listed : netFile[i].stack /\ Removing(c, i) => Removing(d, i)
    PROVE  NetsInv'
<1>1. /\ netCall'[StackUser] = d
      /\ \A k \in NetActors \ {StackUser} : netCall'[k] = NetIdle
  BY StackAssumption DEF NetsInv, NetInv, NetTypeOK, OnlyStack
<1>2. Listed' = Listed /\ \A n : Target(n)' = Target(n)
  BY DEF Listed, Readable, Target
<1>3. Bridge \in Listed' => ~netFile'[Bridge].stack
  BY <1>2 DEF NetsInv, OnlyStack
<1> QED
  BY <1>1, <1>2, <1>3, NetsStepped

(* ensureDefaults.                                                         *)
LEMMA DefaultsNets ==
    ASSUME NetsInv, ensureDefaults(StackUser), UNCHANGED <<stkVars, volVars>>
    PROVE  NetsInv'
<1>0. PICK c : c = Asks
  OBVIOUS
<1>1. NetStep(StackUser) /\ StackUser \in NetActors
  BY StackAssumption DEF NetStep
<1>2. /\ NetInv' /\ c \in Call /\ NetShaped(c) /\ c # NetIdle /\ c.op \in {"create", "rm_f"}
  BY <1>0, <1>1, StepNet, NetsAtWork DEF NetsInv
<1>3. /\ c.step = "Defaults" /\ c.next \in {"Create", "Delete"}
      /\ netCall' = [netCall EXCEPT ![StackUser] =
                        IF netFile[Bridge] = NoRecord THEN Saving(c, Bridge, BridgeNetwork, c.next)
                        ELSE [c EXCEPT !.step = c.next]]
      /\ UNCHANGED <<netFile, netMenu, netOverlap, netDied, volDied>>
  BY <1>0, <1>2 DEF ensureDefaults, Asks, NetShaped, NetFirst, volVars
<1>4. CASE netFile[Bridge] = NoRecord
  <2> DEFINE d == Saving(c, Bridge, BridgeNetwork, c.next)
  <2>1. /\ d.step = "Truncate" /\ d.id = Bridge /\ d.copy = BridgeNetwork /\ d.next = c.next
        /\ d.op = c.op /\ d.name = c.name /\ d.stack = c.stack /\ d.ref = c.ref
    BY <1>2 DEF Saving, Call
  <2>2. netCall' = [netCall EXCEPT ![StackUser] = d]
    BY <1>3, <1>4
  <2> HIDE DEF d
  <2>3. ~BridgeNetwork.stack
    BY DEF BridgeNetwork, NewNetwork
  <2>4. Keeps(c, d)
    BY <1>3, <2>1, <2>3, Distinct DEF Keeps
  <2>5. \A i : Removing(c, i) => Removing(d, i)
    BY <1>3, <2>1 DEF Removing
  <2>6. d # NetIdle
    BY <2>1 DEF NetIdle
  <2> QED
    BY <1>0, <1>2, <1>3, <1>4, <2>1, <2>2, <2>4, <2>5, <2>6, NetsQuiet
<1>5. CASE netFile[Bridge] # NoRecord
  <2> DEFINE d == [c EXCEPT !.step = c.next]
  <2>1. /\ d.step = c.next /\ d.op = c.op /\ d.name = c.name /\ d.stack = c.stack /\ d.ref = c.ref
    BY <1>2 DEF Call
  <2>2. netCall' = [netCall EXCEPT ![StackUser] = d]
    BY <1>3, <1>5
  <2> HIDE DEF d
  <2>3. Keeps(c, d)
    BY <1>3, <2>1 DEF Keeps, Files
  <2>4. \A i : Removing(c, i) => Removing(d, i)
    BY <1>3, <2>1 DEF Removing
  <2>5. d # NetIdle
    BY <1>3, <2>1 DEF NetIdle
  <2> QED
    BY <1>0, <1>2, <1>3, <2>1, <2>2, <2>3, <2>4, <2>5, NetsQuiet
<1> QED
  BY <1>4, <1>5

(* What there is under the name of a network leads to it.                  *)
LEMMA CreateNets ==
    ASSUME NetsInv, NetCreate(StackUser), UNCHANGED <<stkVars, volVars>>
    PROVE  NetsInv'
<1>0. PICK c : c = Asks
  OBVIOUS
<1>1. NetStep(StackUser) /\ StackUser \in NetActors
  BY StackAssumption DEF NetStep
<1>2. /\ NetInv' /\ c \in Call /\ NetShaped(c) /\ c # NetIdle
      /\ CalledByName /\ ~netDied => Found(c)
  BY <1>0, <1>1, StepNet, NetsAtWork DEF NetsInv
<1>3. /\ c.step = "Create" /\ c.op = "create" /\ c.name \in NetNames
      /\ UNCHANGED <<netFile, netMenu, netOverlap, netDied, volDied>>
  BY <1>0, <1>2 DEF NetCreate, Asks, NetShaped, volVars
<1>4. CASE \E i \in Listed : netFile[i].name = c.name
  <2>1. netCall' = [netCall EXCEPT ![StackUser] = NetIdle]
    BY <1>0, <1>4 DEF NetCreate, NetGoto, NetAt, Asks
  <2>2. Keeps(c, NetIdle) /\ NetIdle.step # "Truncate"
    BY DEF Keeps, NetIdle, Files
  <2>3. ASSUME CalledByName, ~netDied
        PROVE  Target(c.name) \in Listed
    <3>1. PICK i \in Listed : netFile[i].name = c.name
      BY <1>4
    <3>2. i # Bridge
      BY <1>3, <2>3, <3>1, RecordName, Distinct DEF NetsInv
    <3> QED
      BY <1>2, <1>3, <2>3, <3>1, <3>2 DEF Found, Files
  <2> QED
    BY <1>0, <1>2, <1>3, <2>1, <2>2, <2>3, NetsQuiet
<1>5. CASE ~\E i \in Listed : netFile[i].name = c.name
  <2>1. PICK i \in netFresh : netCall' = [netCall EXCEPT ![StackUser] =
                                             [[c EXCEPT !.id = i] EXCEPT !.step = "Subnet"]]
    BY <1>0, <1>5 DEF NetCreate, NetGoto, NetAt, Asks
  <2> DEFINE d == [[c EXCEPT !.id = i] EXCEPT !.step = "Subnet"]
  <2>2. d.step = "Subnet" /\ d.op = c.op /\ d.name = c.name /\ d.stack = c.stack
    BY <1>2 DEF Call
  <2> HIDE DEF d
  <2>3. Keeps(c, d) /\ d # NetIdle
    BY <2>2 DEF Keeps, Files, NetIdle
  <2> QED
    BY <1>0, <1>2, <1>3, <2>1, <2>2, <2>3, NetsQuiet DEF d
<1> QED
  BY <1>4, <1>5

(* NetSubnet.                                                              *)
LEMMA SubnetNets ==
    ASSUME NetsInv, NetSubnet(StackUser), UNCHANGED <<stkVars, volVars>>
    PROVE  NetsInv'
<1>0. PICK c : c = Asks
  OBVIOUS
<1>1. NetStep(StackUser) /\ StackUser \in NetActors
  BY StackAssumption DEF NetStep
<1>2. /\ NetInv' /\ c \in Call /\ NetShaped(c) /\ c # NetIdle
      /\ CalledByName /\ ~netDied => Found(c)
  BY <1>0, <1>1, StepNet, NetsAtWork DEF NetsInv
<1>3. /\ c.step = "Subnet" /\ c.op = "create" /\ c.id \in NetIds
      /\ UNCHANGED <<netFile, netMenu, netOverlap, netDied, volDied>>
  BY <1>0, <1>2 DEF NetSubnet, Asks, NetShaped, volVars
<1>4. PICK b : netCall' = [netCall EXCEPT ![StackUser] =
                              Saving(c, c.id, NewNetwork(c.name, b, c.stack), "Alias")]
  BY <1>0 DEF NetSubnet, Asks
<1> DEFINE d == Saving(c, c.id, NewNetwork(c.name, b, c.stack), "Alias")
<1>5. /\ d.step = "Truncate" /\ d.id = c.id /\ d.next = "Alias"
      /\ d.op = c.op /\ d.name = c.name /\ d.stack = c.stack
  BY <1>2 DEF Saving, Call
<1> HIDE DEF d
<1>6. Keeps(c, d) /\ d # NetIdle
  BY <1>3, <1>5, Distinct DEF Keeps, NetIdle
<1>7. CalledByName /\ ~netDied => netFile[d.id] = NoRecord
  BY <1>2, <1>3, <1>5 DEF Found, Come
<1> QED
  BY <1>0, <1>2, <1>3, <1>4, <1>6, <1>7, NetsQuiet DEF d

(* NetAlias.                                                               *)
LEMMA AliasNets ==
    ASSUME NetsInv, NetAlias(StackUser), UNCHANGED <<stkVars, volVars>>
    PROVE  NetsInv'
<1>0. PICK c : c = Asks
  OBVIOUS
<1>1. NetStep(StackUser) /\ StackUser \in NetActors
  BY StackAssumption DEF NetStep
<1>2. /\ NetInv' /\ c \in Call /\ NetShaped(c) /\ c # NetIdle
      /\ CalledByName /\ ~netDied => Found(c)
  BY <1>0, <1>1, StepNet, NetsAtWork DEF NetsInv
<1>3. /\ c.step = "Alias" /\ c.op = "create" /\ c.name \in NetNames
      /\ UNCHANGED <<netFile, netMenu, netOverlap, netDied, volDied>>
  BY <1>0, <1>2 DEF NetAlias, Asks, NetShaped, volVars
<1>4. netCall' = [netCall EXCEPT ![StackUser] = Saving(c, c.name, [to |-> c.id], "Idle")]
  BY <1>0 DEF NetAlias, Asks
<1> DEFINE d == Saving(c, c.name, [to |-> c.id], "Idle")
<1>5. /\ d.step = "Truncate" /\ d.id = c.name
      /\ d.op = c.op /\ d.name = c.name /\ d.stack = c.stack
  BY <1>2 DEF Saving, Call
<1> HIDE DEF d
<1>6. Keeps(c, d) /\ d # NetIdle
  BY <1>3, <1>5, Distinct DEF Keeps, Networks, NetIdle
<1>7. CalledByName /\ ~netDied => netFile[d.id] = NoRecord
  BY <1>2, <1>3, <1>5 DEF Found, Come
<1> QED
  BY <1>0, <1>2, <1>3, <1>4, <1>6, <1>7, NetsQuiet DEF d

(* A network of the stack that has not gone is found under its id.         *)
LEMMA DeleteNets ==
    ASSUME NetsInv, DeleteForce(StackUser), UNCHANGED <<stkVars, volVars>>
    PROVE  NetsInv'
<1>0. PICK c : c = Asks
  OBVIOUS
<1>1. NetStep(StackUser) /\ StackUser \in NetActors
  BY StackAssumption DEF NetStep
<1>2. /\ NetInv' /\ c \in Call /\ NetShaped(c) /\ c # NetIdle /\ c.op \in {"create", "rm_f"}
  BY <1>0, <1>1, StepNet, NetsAtWork DEF NetsInv
<1> DEFINE found == {g \in NetGet(c.ref) :
                        g.net.name # Bridge /\ (c.op = "rm_f" \/ g.net.ends = {})}
<1>3. /\ c.step = "Delete" /\ c.op = "rm_f"
      /\ \/ \E g \in found : netCall' = [netCall EXCEPT ![StackUser] =
              [[c EXCEPT !.id = g.id, !.name = g.net.name, !.ref = NoNet, !.next = "Idle"]
                  EXCEPT !.step = "Unname"]]
         \/ found = {} /\ netCall' = [netCall EXCEPT ![StackUser] = NetIdle]
      /\ UNCHANGED <<netFile, netMenu, netOverlap, netDied, volDied>>
  BY <1>0, <1>2
  DEF DeleteForce, NetDeleting, NetGoto, NetAt, Asks, NetShaped, Removes, volVars
<1>4. ASSUME CalledByName, c.ref \in Listed, netFile[c.ref].stack
      PROVE  found # {} /\ \A g \in found : g.id = c.ref
  <2>1. c.ref # Bridge
    BY <1>4 DEF NetsInv, OnlyStack
  <2>2. c.ref \in Networks /\ netFile[c.ref] \in Network /\ netFile[c.ref].name \in NetNames
    BY <1>4, <2>1, RecordName DEF NetsInv
  <2>3. netFile[c.ref] # NoRecord
    BY <2>2, NetRecordsAssumption
  <2>4. NetGet(c.ref) = {[id |-> i, net |-> netFile[i]] : i \in Listed \cap {c.ref}}
    BY <2>2, <2>3 DEF NetGet
  <2>5. NetGet(c.ref) = {[id |-> c.ref, net |-> netFile[c.ref]]}
    BY <1>4, <2>4
  <2>6. netFile[c.ref].name # Bridge
    BY <2>2, Distinct
  <2>7. \A g \in NetGet(c.ref) : g.id = c.ref /\ g.net = netFile[c.ref]
    BY <2>5
  <2>8. found = NetGet(c.ref)
    BY <1>3, <2>6, <2>7
  <2> HIDE DEF found
  <2> QED
    BY <2>5, <2>7, <2>8
<1>5. ASSUME NEW g \in found, netCall' = [netCall EXCEPT ![StackUser] =
                [[c EXCEPT !.id = g.id, !.name = g.net.name, !.ref = NoNet, !.next = "Idle"]
                    EXCEPT !.step = "Unname"]]
      PROVE  NetsInv'
  <2> DEFINE d == [[c EXCEPT !.id = g.id, !.name = g.net.name, !.ref = NoNet, !.next = "Idle"]
                      EXCEPT !.step = "Unname"]
  <2>1. d.step = "Unname" /\ d.op = c.op /\ d.stack = c.stack /\ d.id = g.id
    BY <1>2 DEF Call
  <2>2. netCall' = [netCall EXCEPT ![StackUser] = d]
    BY <1>5
  <2> HIDE DEF d, found
  <2>3. Keeps(c, d)
    BY <1>3, <2>1 DEF Keeps, Files
  <2>4. CalledByName =>
          \A i \in Listed : netFile[i].stack /\ Removing(c, i) => Removing(d, i)
    BY <1>3, <1>4, <1>5, <2>1 DEF Removing
  <2> QED
    BY <1>0, <1>2, <1>3, <2>1, <2>2, <2>3, <2>4, NetsQuiet
<1>6. ASSUME found = {}, netCall' = [netCall EXCEPT ![StackUser] = NetIdle]
      PROVE  NetsInv'
  <2>1. Keeps(c, NetIdle) /\ NetIdle.step # "Truncate"
    BY DEF Keeps, NetIdle, Files
  <2>2. CalledByName => \A i \in Listed : netFile[i].stack => ~Removing(c, i)
    BY <1>3, <1>4, <1>6 DEF Removing
  <2> QED
    BY <1>0, <1>2, <1>3, <1>6, <2>1, <2>2, NetsQuiet
<1> QED
  BY <1>3, <1>5, <1>6

(* The steps that change a file: nobody else has a call.                   *)
LEMMA NetsFiled ==
    ASSUME NetsInv, NEW f, NEW s \in {"clean", "shared", "gone"}, NEW d,
           netCall' = [Noticed(netCall, StackUser, f, s) EXCEPT ![StackUser] = d]
    PROVE  /\ netCall'[StackUser] = d
           /\ \A k \in NetActors \ {StackUser} : netCall'[k] = NetIdle
<1> DEFINE N == Noticed(netCall, StackUser, f, s)
<1>1. /\ N \in [NetActors -> Call]
      /\ \A j \in NetActors : netCall[j] = NetIdle => N[j] = NetIdle
  BY StackAssumption, NetNoticed DEF NetsInv, NetInv, SameCall
<1> HIDE DEF N
<1>2. netCall' = [N EXCEPT ![StackUser] = d]
  BY DEF N
<1> QED
  BY <1>1, <1>2, StackAssumption DEF NetsInv, OnlyStack

(* NetTruncate: no file of a network that is listed.                       *)
LEMMA TruncateNets ==
    ASSUME NetsInv, NetTruncate(StackUser), UNCHANGED <<stkVars, volVars>>
    PROVE  NetsInv'
<1>0. PICK c : c = Asks
  OBVIOUS
<1>1. NetStep(StackUser) /\ StackUser \in NetActors
  BY StackAssumption DEF NetStep
<1>2. /\ NetInv' /\ c \in Call /\ NetShaped(c) /\ c # NetIdle /\ AskShaped(c)
  BY <1>0, <1>1, StepNet, NetsAtWork DEF NetsInv
<1>3. /\ c.step = "Truncate" /\ c.id \in NetFiles
      /\ netFile' = [netFile EXCEPT ![c.id] = Torn]
      /\ UNCHANGED <<netMenu, netOverlap, netDied, volDied>>
  BY <1>0, <1>2 DEF NetTruncate, Asks, NetShaped, Files, volVars
<1> DEFINE d == [c EXCEPT !.step = "Write", !.fd = "clean"]
<1>4. netCall' = [Noticed(netCall, StackUser, c.id, "clean") EXCEPT ![StackUser] = d]
  <2> DEFINE N == Noticed(netCall, StackUser, c.id, "clean")
  <2>1. N \in [NetActors -> Call] /\ N[StackUser] = c
    BY <1>0, <1>1, NetNoticed DEF NetsInv, NetInv, Asks
  <2>2. netCall' = [N EXCEPT ![StackUser].step = "Write", ![StackUser].fd = "clean"]
    BY <1>0 DEF NetTruncate, Asks
  <2> HIDE DEF N
  <2> QED
    BY <2>1, <2>2 DEF N
<1>5. /\ d.step = "Write" /\ d.id = c.id /\ d.copy = c.copy /\ d.next = c.next
      /\ d.op = c.op /\ d.name = c.name /\ d.stack = c.stack /\ d.ref = c.ref
  BY <1>2 DEF Call
<1> HIDE DEF d
<1>6. Keeps(c, d) /\ d # NetIdle
  BY <1>2, <1>3, <1>5 DEF Keeps, AskShaped, NetIdle, Files
<1>7. /\ netCall'[StackUser] = d
      /\ \A k \in NetActors \ {StackUser} : netCall'[k] = NetIdle
  BY <1>4, NetsFiled
<1>8. \A f \in NetFiles : netFile'[f] = IF f = c.id THEN Torn ELSE netFile[f]
  BY <1>3 DEF NetsInv, NetInv, NetTypeOK
<1>9. Listed' = Listed \ {c.id}
  BY <1>8, NetRecordsAssumption DEF Listed, Readable, NetFiles
<1>10. Bridge \in Listed' => ~netFile'[Bridge].stack
  BY <1>8, <1>9 DEF NetsInv, OnlyStack, Listed, NetFiles
<1>11. CalledByName /\ ~netDied =>
          /\ \A n \in StackNets : Target(n) \in Listed => (Target(n) \in Listed)'
          /\ \A i \in Listed' : netFile'[i] = netFile[i] /\ i \in Listed
  <2> SUFFICES ASSUME CalledByName, ~netDied
               PROVE  /\ \A n \in StackNets : Target(n) \in Listed => (Target(n) \in Listed)'
                      /\ \A i \in Listed' : netFile'[i] = netFile[i] /\ i \in Listed
    OBVIOUS
  <2>1. netFile[c.id] = NoRecord
    BY <1>0, <1>3 DEF NetsInv, NetsCome
  <2>2. Listed' = Listed /\ c.id \notin Listed
    BY <1>9, <2>1, NetRecordsAssumption DEF Listed, Readable
  <2>3. ASSUME NEW n \in StackNets, Target(n) \in Listed
        PROVE  Target(n)' = Target(n)
    <3>1. netFile[n] \in Alias /\ n \in NetFiles
      BY <2>3, StackAssumption, Distinct DEF Target, Listed, Networks, NetFiles
    <3>2. n # c.id
      BY <2>1, <3>1, NetRecordsAssumption
    <3> QED
      BY <1>8, <3>1, <3>2 DEF Target
  <2> QED
    BY <1>8, <2>2, <2>3 DEF Listed, NetFiles
<1>12. \A i : Removing(c, i) => Removing(d, i)
  BY <1>3, <1>5 DEF Removing
<1> QED
  BY <1>0, <1>2, <1>3, <1>5, <1>6, <1>7, <1>10, <1>11, <1>12, NetsStepped

(* What has been made is found under its name.                             *)
LEMMA WriteNets ==
    ASSUME NetsInv, NetWrite(StackUser), UNCHANGED <<stkVars, volVars>>
    PROVE  NetsInv'
<1>0. PICK c : c = Asks
  OBVIOUS
<1>1. NetStep(StackUser) /\ StackUser \in NetActors
  BY StackAssumption DEF NetStep
<1>2. /\ NetInv' /\ c \in Call /\ NetShaped(c) /\ c # NetIdle /\ AskShaped(c)
      /\ c.op \in {"create", "rm_f"}
      /\ CalledByName => Own(c)
      /\ CalledByName /\ ~netDied => Found(c)
  BY <1>0, <1>1, StepNet, NetsAtWork DEF NetsInv
<1>3. /\ c.step = "Write" /\ c.id \in NetFiles
      /\ UNCHANGED <<netMenu, netOverlap, netDied, volDied>>
  BY <1>0, <1>2 DEF NetWrite, Asks, NetShaped, Files, volVars
<1>4. PICK x \in Written(c.fd, c.copy, netFile[c.id]) : netFile' = [netFile EXCEPT ![c.id] = x]
  BY <1>0 DEF NetWrite, Asks
<1> DEFINE d == NetAt([c EXCEPT !.fd = "none"], c.next)
<1>5. netCall' = [Noticed(netCall, StackUser, c.id, "shared") EXCEPT ![StackUser] = d]
  BY <1>0 DEF NetWrite, Asks
<1>6. IF c.next = "Idle" THEN d = NetIdle
      ELSE /\ d.step = c.next /\ d.op = c.op /\ d.name = c.name /\ d.stack = c.stack
           /\ d.ref = c.ref
  BY <1>2 DEF NetAt, Call
<1> HIDE DEF d
<1>7. c.next \in {"Idle", "Alias", "Create", "Delete"}
  BY <1>2, <1>3 DEF NetShaped, NetFirst, Files
<1>8. d.step \in {"Idle", "Alias", "Create", "Delete"} /\ (c.next # "Idle" => d # NetIdle)
  BY <1>6, <1>7 DEF NetIdle
<1>9. Keeps(c, d)
  BY <1>6, <1>8 DEF Keeps, Files
<1>10. /\ netCall'[StackUser] = d
       /\ \A k \in NetActors \ {StackUser} : netCall'[k] = NetIdle
  BY <1>5, NetsFiled
<1>11. \A f \in NetFiles : netFile'[f] = IF f = c.id THEN x ELSE netFile[f]
  BY <1>4 DEF NetsInv, NetInv, NetTypeOK
<1>12. x \in {c.copy, Torn, netFile[c.id]} /\ (c.fd = "clean" => x = c.copy)
  <2>1. c.fd \in {"clean", "shared", "gone"}
    BY <1>2, <1>3 DEF Call, Descriptors, NetShaped
  <2> QED
    BY <1>4, <2>1 DEF Written
<1>13. Bridge \in Listed' => ~netFile'[Bridge].stack
  <2>1. CASE c.id = Bridge
    BY <1>2, <1>3, <1>11, <1>12, <2>1, NetRecordsAssumption
    DEF NetsInv, OnlyStack, AskShaped, Files, Listed, Readable, NetFiles
  <2>2. CASE c.id # Bridge
    BY <1>11, <2>2 DEF NetsInv, OnlyStack, Listed, Readable, NetFiles, Networks
  <2> QED
    BY <2>1, <2>2
<1>14. ASSUME CalledByName, ~netDied
       PROVE  /\ x = c.copy
              /\ \A i \in Networks : netFile'[i] = IF i = c.id THEN c.copy ELSE netFile[i]
              /\ Listed' = Listed \cup (Networks \cap {c.id})
  <2>1. x = c.copy
    BY <1>2, <1>3, <1>12, <1>14 DEF Own
  <2>2. c.id \in Networks => c.copy \in Network
    BY <1>2, <1>3 DEF NetShaped, Files
  <2>3. \A i \in Networks : netFile'[i] = IF i = c.id THEN c.copy ELSE netFile[i]
    BY <1>11, <2>1 DEF NetFiles
  <2> QED
    BY <2>1, <2>2, <2>3 DEF Listed, Readable
<1>15. ASSUME CalledByName, ~netDied, NEW n \in StackNets,
              Target(n) \in Listed \/ (n = c.name /\ d = NetIdle)
       PROVE  (Target(n) \in Listed)'
  <2>1. n \in NetNames /\ n \in NetFiles /\ n \notin Networks
    BY StackAssumption, Distinct DEF NetFiles, Networks
  <2>2. CASE c.id = n
    <3>1. /\ netFile'[n] = c.copy /\ c.copy \in Alias
          /\ netFile[c.copy.to] \in Network /\ c.copy.to \in Networks
      BY <1>2, <1>3, <1>11, <1>14, <1>15, <2>1, <2>2
      DEF NetShaped, Files, Found, Come, Alias, Networks
    <3>2. c.copy.to \in Listed'
      BY <1>14, <1>15, <3>1 DEF Listed, Readable
    <3> QED
      BY <3>1, <3>2 DEF Target
  <2>3. CASE c.id # n
    <3>1. Target(n)' = Target(n)
      BY <1>11, <2>1, <2>3 DEF Target
    <3>2. Target(n) \in Listed
      <4>1. d = NetIdle => c.next = "Idle"
        BY <1>8
      <4>2. d = NetIdle => c.id = c.name
        BY <1>2, <1>3, <4>1 DEF AskShaped, Files, NetFiles
      <4> QED
        BY <1>15, <2>3, <4>2
    <3> QED
      BY <1>14, <1>15, <3>1, <3>2
  <2> QED
    BY <2>2, <2>3
<1>16. ASSUME CalledByName, ~netDied, c.op = "rm_f", NEW i \in Listed', netFile'[i].stack
       PROVE  i \in Listed /\ netFile[i].stack /\ (Removing(c, i) => Removing(d, i))
  <2>1. c.id = Bridge /\ c.next = "Delete"
    <3>1. c.id \notin NetNames
      BY <1>2, <1>3, <1>16 DEF NetShaped, Files
    <3>2. c.next # "Idle"
      BY <1>2, <1>3, <3>1 DEF AskShaped, Files, NetFiles
    <3> QED
      BY <1>2, <1>3, <1>16, <3>2 DEF NetShaped, Files, NetFirst
  <2>2. i # Bridge /\ i \in Networks
    BY <1>13, <1>16 DEF Listed
  <2>3. Removing(c, i) => Removing(d, i)
    BY <1>3, <1>6, <2>1 DEF Removing
  <2> QED
    BY <1>14, <1>16, <2>1, <2>2, <2>3
<1> QED
  BY <1>0, <1>2, <1>3, <1>8, <1>9, <1>10, <1>13, <1>15, <1>16, NetsStepped

(* NetUnname.                                                              *)
LEMMA UnnameNets ==
    ASSUME NetsInv, NetUnname(StackUser), UNCHANGED <<stkVars, volVars>>
    PROVE  NetsInv'
<1>0. PICK c : c = Asks
  OBVIOUS
<1>1. NetStep(StackUser) /\ StackUser \in NetActors
  BY StackAssumption DEF NetStep
<1>2. /\ NetInv' /\ c \in Call /\ NetShaped(c) /\ c # NetIdle /\ c.op \in {"create", "rm_f"}
  BY <1>0, <1>1, StepNet, NetsAtWork DEF NetsInv
<1>3. /\ c.step = "Unname" /\ c.op = "rm_f"
      /\ UNCHANGED <<netMenu, netOverlap, netDied, volDied>>
  BY <1>0, <1>2 DEF NetUnname, Asks, NetShaped, Removes, volVars
<1> DEFINE d == [c EXCEPT !.step = "Unlink"]
<1>4. d.step = "Unlink" /\ d.op = c.op /\ d.stack = c.stack /\ d.id = c.id
  BY <1>2 DEF Call
<1>5. NetAt(c, "Unlink") = d
  BY DEF NetAt
<1> HIDE DEF d
<1>6. Keeps(c, d) /\ d # NetIdle
  BY <1>3, <1>4 DEF Keeps, NetIdle, Files
<1>7. \A i : Removing(c, i) => Removing(d, i)
  BY <1>3, <1>4 DEF Removing
<1>8. CASE c.name \in NetNames
  <2>1. /\ netFile' = [netFile EXCEPT ![c.name] = NoRecord]
        /\ netCall' = [Noticed(netCall, StackUser, c.name, "gone") EXCEPT ![StackUser] = d]
    BY <1>0, <1>5, <1>8 DEF NetUnname, NetUnlinked, Asks
  <2>2. /\ netCall'[StackUser] = d
        /\ \A k \in NetActors \ {StackUser} : netCall'[k] = NetIdle
    BY <2>1, NetsFiled
  <2>3. \A i \in Networks : netFile'[i] = netFile[i]
    BY <1>8, <2>1, Distinct DEF NetsInv, NetInv, NetTypeOK, Networks
  <2>4. Listed' = Listed
    BY <2>3 DEF Listed, Readable
  <2>5. Bridge \in Listed' => ~netFile'[Bridge].stack
    BY <2>3, <2>4 DEF NetsInv, OnlyStack, Listed
  <2>6. \A i \in Listed' : i \in Listed /\ netFile'[i] = netFile[i]
    BY <2>3, <2>4 DEF Listed
  <2> QED
    BY <1>0, <1>2, <1>3, <1>4, <1>6, <1>7, <2>2, <2>5, <2>6, NetsStepped
<1>9. CASE c.name \notin NetNames
  <2>1. netCall' = [netCall EXCEPT ![StackUser] = d] /\ UNCHANGED netFile
    BY <1>0, <1>5, <1>9 DEF NetUnname, NetGoto, Asks
  <2> QED
    BY <1>0, <1>2, <1>3, <1>4, <1>6, <1>7, <2>1, NetsQuiet
<1> QED
  BY <1>8, <1>9

(* NetUnlink.                                                              *)
LEMMA UnlinkNets ==
    ASSUME NetsInv, NetUnlink(StackUser), UNCHANGED <<stkVars, volVars>>
    PROVE  NetsInv'
<1>0. PICK c : c = Asks
  OBVIOUS
<1>1. NetStep(StackUser) /\ StackUser \in NetActors
  BY StackAssumption DEF NetStep
<1>2. /\ NetInv' /\ c \in Call /\ NetShaped(c) /\ c # NetIdle /\ c.op \in {"create", "rm_f"}
  BY <1>0, <1>1, StepNet, NetsAtWork DEF NetsInv
<1>3. /\ c.step = "Unlink" /\ c.op = "rm_f" /\ c.id \in Networks /\ c.next = "Idle"
      /\ netFile' = [netFile EXCEPT ![c.id] = NoRecord]
      /\ UNCHANGED <<netMenu, netOverlap, netDied, volDied>>
  BY <1>0, <1>2 DEF NetUnlink, NetUnlinked, Asks, NetShaped, Removes, volVars
<1>4. netCall' = [Noticed(netCall, StackUser, c.id, "gone") EXCEPT ![StackUser] = NetIdle]
  BY <1>0, <1>3 DEF NetUnlink, NetUnlinked, NetAt, Asks
<1>5. /\ netCall'[StackUser] = NetIdle
      /\ \A k \in NetActors \ {StackUser} : netCall'[k] = NetIdle
  BY <1>4, NetsFiled
<1>6. \A i \in Networks : netFile'[i] = IF i = c.id THEN NoRecord ELSE netFile[i]
  BY <1>3 DEF NetsInv, NetInv, NetTypeOK, NetFiles
<1>7. Listed' = Listed \ {c.id} /\ \A i \in Listed' : netFile'[i] = netFile[i]
  BY <1>6, NetRecordsAssumption DEF Listed, Readable
<1>8. Bridge \in Listed' => ~netFile'[Bridge].stack
  BY <1>7 DEF NetsInv, OnlyStack
<1>9. \A i \in Listed' : ~Removing(c, i)
  BY <1>3, <1>7 DEF Removing
<1>10. Keeps(c, NetIdle) /\ NetIdle.step # "Truncate"
  BY DEF Keeps, NetIdle, Files
<1> QED
  BY <1>0, <1>2, <1>3, <1>5, <1>7, <1>8, <1>9, <1>10, NetsStepped

(* Every step of a call.                                                   *)
LEMMA StepNets ==
    ASSUME NetsInv, NEW k \in NetActors, NetStep(k), UNCHANGED <<stkVars, volVars>>
    PROVE  NetsInv'
<1>1. k = StackUser /\ NetShaped(Asks) /\ Asks.op \in {"create", "rm_f"}
  BY NetsAtWork
<1>2. ~Connect(k) /\ ~Disconnect(k)
  BY <1>1 DEF Connect, Disconnect, NetUpdating, NetShaped, Asks
<1>3. ~NetPrune(k)
  <2>1. netCall[k].step \notin {"List", "Each"}
    BY <1>1 DEF NetShaped, Asks
  <2> QED
    BY <2>1 DEF NetPrune
<1> QED
  BY <1>1, <1>2, <1>3, DefaultsNets, TruncateNets, WriteNets, CreateNets, SubnetNets, AliasNets,
     DeleteNets, UnnameNets, UnlinkNets DEF NetStep

(* The command begins a call for the next network of its list.             *)
LEMMA NetsBegun ==
    ASSUME NetsInv, NEW n \in stkCall.nets, NEW b \in Call, NetBegin(StackUser, b), b.fd = "none",
           stkCall'.step = stkCall.step, stkCall'.nets = stkCall.nets \ {n}, UNCHANGED volDied,
           \/ /\ stkCall.step = "Networks" /\ b.op = "create" /\ b.stack /\ b.name = n
              /\ b.ref = NoNet /\ b.want = NoSubnet
           \/ stkCall.step = "NetEach" /\ b.op = "rm_f" /\ b.ref = n
    PROVE  NetsInv'
<1>0. StackUser \in NetActors
  BY StackAssumption
<1>1. /\ b.op \in NetOps /\ b.ref # AliasPrefix
      /\ b.op = "create" => b.name \in NetNames /\ b.want \in GivenSubnets \cup {NoSubnet}
  BY StackAssumption, Distinct DEF NetsInv, OnlyStack, NetOps, Networks
<1>2. NetInv'
  BY <1>0, <1>1, BegunNet DEF NetsInv
<1> DEFINE d == [b EXCEPT !.step = "Defaults", !.next = NetFirst[b.op]]
<1>3. /\ netCall[StackUser] = NetIdle /\ netCall' = [netCall EXCEPT ![StackUser] = d]
      /\ netOverlap' = (netOverlap \/ \E j \in NetActors : netCall[j] # NetIdle)
      /\ UNCHANGED <<netFile, netFresh, netMenu, netDied>>
  BY DEF NetBegin
<1>4. /\ d.step = "Defaults" /\ d.op = b.op /\ d.ref = b.ref /\ d.name = b.name
      /\ d.stack = b.stack
  BY DEF Call
<1> HIDE DEF d
<1>5. /\ Asks' = d /\ ~netOverlap' /\ Listed' = Listed /\ (CalledByName' <=> CalledByName)
      /\ \A k \in NetActors \ {StackUser} : netCall'[k] = NetIdle
      /\ \A m : Target(m)' = Target(m)
  BY <1>0, <1>3
  DEF NetsInv, NetInv, NetTypeOK, OnlyStack, Asks, Listed, Readable, CalledByName, Target
<1>6. AskShaped(d)'
  BY <1>4 DEF NetsInv, OnlyStack, AskShaped, Files
<1>7. OnlyStack'
  BY <1>3, <1>5, <1>6 DEF NetsInv, OnlyStack
<1>8. NetsCome'
  <2> SUFFICES ASSUME CalledByName, ~netDied PROVE NetsCome'
    BY <1>3, <1>5 DEF NetsCome
  <2>1. CASE stkCall.step = "Networks" /\ b.name = n
    <3>1. \A m \in StackNets : Target(m) \in Listed \/ m \in stkCall.nets \cup {NetIdle.name}
      BY <1>3, <2>1 DEF NetsInv, NetsCome, Deploying, Asks
    <3>2. NetIdle.name \notin StackNets
      BY StackAssumption, Distinct DEF NetIdle
    <3> QED
      BY <1>4, <1>5, <2>1, <3>1, <3>2 DEF NetsCome
  <2>2. CASE stkCall.step = "NetEach" /\ b.op = "rm_f" /\ b.ref = n
    <3>1. \A i \in Listed : netFile[i].stack => i \in stkCall.nets
      BY <1>3, <2>2 DEF NetsInv, NetsCome, Removing, Asks, NetIdle
    <3>2. Removing(d, n)
      BY <1>4, <2>2 DEF Removing
    <3> QED
      BY <1>3, <1>4, <1>5, <2>2, <3>1, <3>2 DEF NetsCome, Deploying
  <2> QED
    BY <2>1, <2>2
<1> QED
  BY <1>2, <1>7, <1>8 DEF NetsInv

(* StkNetwork: what is found stays, what is not is asked for.              *)
LEMMA NetworkNets ==
    ASSUME StkTypeOK, NetsInv, StkNetwork
    PROVE  NetsInv'
<1>1. /\ stkCall \in StackCall /\ stkCall.step = "Networks" /\ stkCall.nets \subseteq StackNets
      /\ Asks = NetIdle /\ UNCHANGED volDied /\ NetIdle.name \notin StackNets
  BY StackAssumption, Distinct
  DEF NetsInv, OnlyStack, StkTypeOK, StkNetwork, StkAt, volVars, Asks, NetIdle
<1>2. CalledByName /\ ~netDied =>
          \A n \in StackNets : Target(n) \in Listed \/ n \in stkCall.nets
  BY <1>1 DEF NetsInv, NetsCome, Deploying
<1>3. ASSUME NEW n \in stkCall.nets,
             stkCall' = [stkCall EXCEPT !.nets = @ \ {n}, !.step = "Networks"],
             NetGet(n) # {}, UNCHANGED netVars
      PROVE  NetsInv'
  <2>1. stkCall'.step = "Networks" /\ stkCall'.nets = stkCall.nets \ {n}
    BY <1>1, <1>3 DEF StackCall
  <2>2. Target(n) \in Listed
    <3>1. n \in NetNames /\ n \notin Networks /\ n # AliasPrefix
      BY <1>1, <1>3, StackAssumption, Distinct DEF Networks
    <3>2. NetGet(n) = {[id |-> i, net |-> netFile[i]] : i \in {j \in Listed : j = Target(n)}}
      BY <3>1 DEF NetGet
    <3> QED
      BY <1>3, <3>2
  <2> QED
    BY <1>1, <1>2, <1>3, <2>1, <2>2, NetsStand
<1>4. ASSUME NEW n \in stkCall.nets,
             stkCall' = [stkCall EXCEPT !.nets = @ \ {n}, !.step = "Networks"],
             NetBegin(StackUser, [NetIdle EXCEPT !.op = "create", !.name = n, !.stack = TRUE])
      PROVE  NetsInv'
  <2> DEFINE b == [NetIdle EXCEPT !.op = "create", !.name = n, !.stack = TRUE]
  <2>1. stkCall'.step = "Networks" /\ stkCall'.nets = stkCall.nets \ {n}
    BY <1>1, <1>4 DEF StackCall
  <2>2. /\ b.op = "create" /\ b.name = n /\ b.stack /\ b.fd = "none" /\ b.ref = NoNet
        /\ b.want = NoSubnet
    BY DEF NetIdle, NoSubnet
  <2>3. b \in Call
    BY <1>1, <1>4, IdleNet, StackAssumption DEF Call, NetOps
  <2> HIDE DEF b
  <2> QED
    BY <1>1, <1>4, <2>1, <2>2, <2>3, NetsBegun DEF b
<1>5. ASSUME stkCall.nets = {}, stkCall' = [stkCall EXCEPT !.step = "Volumes"], UNCHANGED netVars
      PROVE  NetsInv'
  <2>1. stkCall'.step = "Volumes"
    BY <1>1, <1>5 DEF StackCall
  <2> QED
    BY <1>1, <1>2, <1>5, <2>1, NetsStand
<1> QED
  BY <1>3, <1>4, <1>5 DEF StkNetwork, StkGoto

(* StkNetworks: what carries the label is listed, and then removed.        *)
LEMMA NetworksNets ==
    ASSUME StkTypeOK, NetsInv, StkNetworks
    PROVE  NetsInv'
<1>1. /\ stkCall \in StackCall /\ Asks = NetIdle /\ UNCHANGED volDied
  BY DEF StkTypeOK, StkNetworks, StkAt, volVars, Asks
<1>2. ASSUME stkCall' = [stkCall EXCEPT !.nets = {i \in Listed : netFile[i].stack},
                                        !.step = "NetEach"],
             UNCHANGED netVars
      PROVE  NetsInv'
  <2>1. stkCall'.step = "NetEach" /\ stkCall'.nets = {i \in Listed : netFile[i].stack}
    BY <1>1, <1>2 DEF StackCall
  <2>2. Listed \subseteq Networks
    BY DEF Listed
  <2> QED
    BY <1>1, <1>2, <2>1, <2>2, NetsStand DEF Deploying
<1>3. ASSUME stkCall.step = "NetEach", NEW i \in stkCall.nets,
             stkCall' = [stkCall EXCEPT !.nets = @ \ {i}, !.step = "NetEach"],
             NetBegin(StackUser, [NetIdle EXCEPT !.op = "rm_f", !.ref = i])
      PROVE  NetsInv'
  <2> DEFINE b == [NetIdle EXCEPT !.op = "rm_f", !.ref = i]
  <2>1. stkCall'.step = "NetEach" /\ stkCall'.nets = stkCall.nets \ {i}
    BY <1>1, <1>3 DEF StackCall
  <2>2. b.op = "rm_f" /\ b.ref = i /\ b.fd = "none"
    BY DEF NetIdle
  <2>3. i \in NetRefs
    BY <1>3 DEF NetsInv, OnlyStack, Networks, NetRefs
  <2>4. b \in Call
    BY <2>3, IdleNet DEF Call, NetOps
  <2> HIDE DEF b
  <2> QED
    BY <1>1, <1>3, <2>1, <2>2, <2>4, NetsBegun DEF b
<1>4. ASSUME stkCall.step = "NetEach", stkCall.nets = {},
             stkCall' = [stkCall EXCEPT !.step = "VolList"], UNCHANGED netVars
      PROVE  NetsInv'
  <2>1. stkCall'.step = "VolList"
    BY <1>1, <1>4 DEF StackCall
  <2>2. CalledByName /\ ~netDied => \A i \in Listed : ~netFile[i].stack
    BY <1>1, <1>4 DEF NetsInv, NetsCome, Removing, NetIdle
  <2> QED
    BY <1>1, <1>4, <2>1, <2>2, NetsStand DEF Deploying
<1> QED
  BY <1>2, <1>3, <1>4 DEF StkNetworks, StkGoto, StkAt

(* The other steps of the command, which make no calls on networks.        *)
LEMMA ElseNets ==
    ASSUME StkTypeOK, NetsInv,
           \/ StkDeploy \/ StkVolume \/ StkService \/ StkPrepare \/ StkRm \/ StkContainer \/ StkStop
           \/ StkRootfs \/ StkDelete \/ StkVolumes
    PROVE  NetsInv'
<1>1. stkCall \in StackCall
  BY DEF StkTypeOK
<1>2. CASE StkDeploy
  <2>1. /\ Asks = NetIdle /\ UNCHANGED <<netVars, volDied>>
        /\ stkCall'.step = "Networks" /\ stkCall'.nets = StackNets
    BY <1>2 DEF StkDeploy, StkAt, Asks, OthersSame, volVars, StkIdle
  <2> QED
    BY <2>1, NetsStand
<1>3. CASE StkVolume \/ StkService \/ StkPrepare
  <2>1. /\ Asks = NetIdle /\ UNCHANGED <<netVars, volDied>>
        /\ stkCall.step \in {"Volumes", "Services", "Prepare"}
    BY <1>3
    DEF StkVolume, StkService, StkPrepare, StkAt, Asks, OthersSame, volVars, VolBegin
  <2>2. \/ stkCall'.step \in {"Volumes", "Services", "Prepare"}
        \/ stkCall'.step = "Idle" /\ stkLast' \in {"deploy", "warned"}
    <3>1. CASE StkVolume
      BY <1>1, <3>1 DEF StkVolume, StkGoto, StackCall
    <3>2. CASE StkService
      <4>1. StkIdle.step = "Idle"
        BY DEF StkIdle
      <4> QED
        BY <1>1, <3>2, <4>1 DEF StkService, StkGoto, StackCall
    <3>3. CASE StkPrepare
      BY <1>1, <3>3 DEF StkPrepare, StkGoto, StackCall
    <3> QED
      BY <1>3, <3>1, <3>2, <3>3
  <2>3. CalledByName /\ ~netDied => \A n \in StackNets : Target(n) \in Listed
    BY <2>1 DEF NetsInv, NetsCome, Deploying
  <2> QED
    BY <2>1, <2>2, <2>3, NetsStand
<1>4. CASE StkRm \/ StkContainer \/ StkStop \/ StkRootfs \/ StkDelete
  <2>1. /\ Asks = NetIdle /\ UNCHANGED <<netVars, volDied>>
        /\ stkCall'.step \in {"Containers", "Stop", "Rootfs", "Delete", "NetList"}
    BY <1>1, <1>4
    DEF StkRm, StkContainer, StkStop, StkRootfs, StkDelete, StkAt, Asks, OthersSame, volVars,
        StkGoto, StackCall, StkIdle
  <2> QED
    BY <2>1, NetsStand DEF Deploying
<1>5. CASE StkVolumes
  <2>1. /\ Asks = NetIdle /\ UNCHANGED <<netVars, volDied>>
        /\ stkCall.step \in {"VolList", "VolEach"}
    BY <1>5 DEF StkVolumes, StkRemoving, StkAt, Asks, volVars, VolBegin
  <2>3. stkCall'.step = "VolEach" \/ (stkCall'.step = "Idle" /\ stkLast' = "rm")
    <3>1. StkIdle.step = "Idle"
      BY DEF StkIdle
    <3> QED
      BY <1>1, <1>5, <3>1 DEF StkVolumes, StkRemoving, StkGoto, StackCall
  <2>2. CalledByName /\ ~netDied => \A i \in Listed : ~netFile[i].stack
    BY <2>1 DEF NetsInv, NetsCome
  <2> QED
    BY <2>1, <2>2, <2>3, NetsStand DEF Deploying
<1> QED
  BY <1>2, <1>3, <1>4, <1>5

(* StkDie: nothing is claimed any more.                                    *)
LEMMA DieNets ==
    ASSUME NetsInv, StkDie
    PROVE  NetsInv'
<1>1. NetInv'
  BY StackAssumption, DiedNet DEF NetsInv, StkDie
<1>2. /\ \A k \in NetActors : netCall'[k] = NetIdle
      /\ stkCall'.step = "Idle" /\ netDied' /\ volDied' /\ UNCHANGED <<netFile, netOverlap>>
      /\ StackUser \in NetActors
  BY StackAssumption DEF NetsInv, NetInv, NetTypeOK, OnlyStack, StkDie, StkIdle
<1>3. Listed' = Listed
  BY <1>2 DEF Listed, Readable
<1>6. AskShaped(NetIdle)' /\ Asks' = NetIdle
  BY <1>2 DEF AskShaped, Asks, NetIdle, Files
<1>4. OnlyStack'
  BY <1>2, <1>3, <1>6 DEF NetsInv, OnlyStack
<1>5. NetsCome'
  BY <1>2 DEF NetsCome
<1> QED
  BY <1>1, <1>4, <1>5 DEF NetsInv

(* Nothing happens to the networks, nor does the command go on.            *)
LEMMA StillNets ==
    ASSUME NetsInv, UNCHANGED <<netVars, volDied, stkCall, stkLast>>
    PROVE  NetsInv'
<1>1. NetInv'
  BY StillNet DEF NetsInv
<1>2. /\ UNCHANGED <<netFile, netCall, netMenu, netOverlap, netDied>>
      /\ Listed' = Listed /\ (CalledByName' <=> CalledByName) /\ Asks' = Asks
      /\ \A n : Target(n)' = Target(n)
  BY DEF netVars, Listed, Readable, CalledByName, Asks, Target
<1>3. OnlyStack'
  BY <1>2 DEF NetsInv, OnlyStack, AskShaped
<1>4. NetsCome'
  BY <1>2 DEF NetsInv, NetsCome, Removing
<1> QED
  BY <1>1, <1>3, <1>4 DEF NetsInv

(* Every step.                                                             *)
LEMMA NextNets == StkTypeOK /\ NetsInv /\ [StkNext]_<<netVars, volVars, stkVars>> => NetsInv'
<1> SUFFICES ASSUME StkTypeOK, NetsInv, [StkNext]_<<netVars, volVars, stkVars>> PROVE NetsInv'
  OBVIOUS
<1>1. CASE UNCHANGED <<netVars, volVars, stkVars>>
  BY <1>1, StillNets DEF volVars, stkVars
<1>2. CASE StkDeploy \/ StkRm \/ StkDie
  BY <1>2, ElseNets, DieNets
<1>3. CASE StkNetwork \/ StkVolume \/ StkService \/ StkPrepare
  BY <1>3, NetworkNets, ElseNets
<1>4. CASE StkContainer \/ StkStop \/ StkRootfs \/ StkDelete
  BY <1>4, ElseNets
<1>5. CASE StkNetworks \/ StkVolumes
  BY <1>5, NetworksNets, ElseNets
<1>6. CASE \E i \in StackCtrs : StkStart(i) \/ StkExit(i) \/ StkRecorded(i)
  BY <1>6, StillNets DEF StkStart, StkExit, StkRecorded, OthersSame, volVars
<1>7. CASE \E k \in NetActors : NetStep(k) /\ UNCHANGED <<stkVars, volVars>>
  BY <1>7, StepNets
<1>8. ASSUME NEW k \in VolActors, VolRequest(k) \/ VolStep(k), UNCHANGED <<stkVars, netVars>>
      PROVE  NetsInv'
  <2>1. UNCHANGED volDied
    <3>1. VolRequest(k) => UNCHANGED volDied
      BY DEF VolRequest, AskVolCreate, AskVolRm, AskVolPrune, VolBegin
    <3>2. VolStep(k) => UNCHANGED volDied
      BY DEF VolStep, VolExists, VolMkdir, VolTruncate, VolWrite, VolPrune, VolGet, VolRmdir,
             VolUnlink
    <3> QED
      BY <1>8, <3>1, <3>2
  <2> QED
    BY <1>8, <2>1, StillNets DEF stkVars
<1> QED
  BY <1>1, <1>2, <1>3, <1>4, <1>5, <1>6, <1>7, <1>8 DEF StkNext, StkStep

-----------------------------------------------------------------------------
(* Volumes.                                                                *)

(* An actor that is idle.                                                  *)
LEMMA IdleVols == Safe(VolIdle) /\ VolIdle.op = "none" /\ ~VolIdle.stack /\ VolIdle.step = "Idle"
BY DEF Safe, VolIdle

(* There are no volumes at first.                                          *)
LEMMA VolsStart == NetInit /\ VolInit /\ StkInit => VolsInv
<1> SUFFICES ASSUME VolInit, StkInit PROVE VolsInv
  OBVIOUS
<1>1. /\ stkCall.step = "Idle" /\ stkLast = "none"
      /\ \A k \in VolActors : volCall[k] = VolIdle
  BY DEF VolInit, StkInit, StkIdle
<1>2. VolListed = {}
  BY VolRecordsAssumption DEF VolInit, VolListed
<1>3. WhoAsks
  BY <1>1, IdleVols DEF WhoAsks, Creates
<1>4. VolsSafe
  BY <1>1, <1>2, IdleVols DEF VolsSafe
<1>5. VolsCome
  BY <1>1 DEF VolsCome, Deploying
<1> QED
  BY <1>3, <1>4, <1>5, VolInitInv DEF VolsInv

(* What the command goes on to must be true of the volumes that stay.      *)
LEMMA VolsStand ==
    ASSUME VolsInv, UNCHANGED volVars, volCall[StackUser] = VolIdle,
           OthersOnlyMake /\ ~volOverlap /\ stkCall'.step = "VolEach" =>
              \A n \in stkCall'.vols : n \in VolListed /\ volFile[n].stack,
           OthersOnlyMake /\ ~volOverlap /\ ~volDied =>
              /\ stkCall'.step \in Deploying =>
                    \A n \in StackVols :
                        \/ n \in VolListed
                        \/ stkCall'.step \in {"Networks", "Volumes"} /\ n \in stkCall'.vols
              /\ stkCall'.step = "VolEach" =>
                    \A n \in VolListed : volFile[n].stack => n \in stkCall'.vols
              /\ stkCall'.step = "Idle" /\ stkLast' \in {"deploy", "warned"} =>
                    StackVols \subseteq VolListed
              /\ stkCall'.step = "Idle" /\ stkLast' = "rm" =>
                    \A n \in VolListed : ~volFile[n].stack
    PROVE  VolsInv'
<1>1. VolInv'
  BY StutterInv DEF VolsInv
<1>2. /\ UNCHANGED <<volFile, volDir, volCall, volMenu, volOverlap, volDied>>
      /\ VolListed' = VolListed /\ (OthersOnlyMake' <=> OthersOnlyMake)
  BY DEF volVars, VolListed, OthersOnlyMake
<1>3. OthersOnlyMake => WhoAsks'
  BY <1>2, IdleVols DEF VolsInv, WhoAsks
<1>4. VolsSafe'
  <2> SUFFICES ASSUME OthersOnlyMake, ~volOverlap PROVE VolsSafe'
    BY <1>2 DEF VolsSafe
  <2>1. ASSUME NEW k \in VolActors
        PROVE  Safe(volCall[k])'
    <3>1. Safe(volCall[k]) /\ volCall[k].op # "rm"
      BY IdleVols DEF VolsInv, VolsSafe, WhoAsks
    <3> QED
      BY <1>2, <3>1 DEF Safe
  <2> QED
    BY <1>2, <2>1 DEF VolsInv, VolsSafe
<1>5. VolsCome'
  BY <1>2 DEF VolsCome
<1> QED
  BY <1>1, <1>2, <1>3, <1>4, <1>5 DEF VolsInv

(* Other calls keep who they are of.                                       *)
LEMMA VolsNoticed ==
    ASSUME VolInv, NEW k \in VolActors, NEW n, NEW s \in {"clean", "shared", "gone"}, NEW d,
           volCall' = [Noticed(volCall, k, n, s) EXCEPT ![k] = d]
    PROVE  /\ volCall'[k] = d
           /\ \A j \in VolActors \ {k} :
                 /\ volCall'[j].op = volCall[j].op /\ volCall'[j].step = volCall[j].step
                 /\ volCall'[j].stack = volCall[j].stack
                 /\ volCall[j] = VolIdle => volCall'[j] = VolIdle
<1> DEFINE N == Noticed(volCall, k, n, s)
<1>1. N = [j \in VolActors |->
              IF j # k /\ volCall[j].id = n /\ volCall[j].fd \in {"clean", "shared"}
              THEN [volCall[j] EXCEPT !.fd = s] ELSE volCall[j]]
  BY DEF Noticed, VolInv, VolTypeOK
<1>2. \A j \in VolActors \ {k} : volCall'[j] = N[j]
  BY <1>1
<1>3. volCall'[k] = d
  BY <1>1
<1>4. ASSUME NEW j \in VolActors \ {k}
      PROVE  /\ N[j].op = volCall[j].op /\ N[j].step = volCall[j].step
             /\ N[j].stack = volCall[j].stack
             /\ volCall[j] = VolIdle => N[j] = VolIdle
  <2>1. volCall[j] \in VolCall /\ VolIdle.fd = "none"
    BY DEF VolInv, VolTypeOK, VolIdle
  <2>2. N[j] \in {volCall[j], [volCall[j] EXCEPT !.fd = s]}
    BY <1>1
  <2>3. volCall[j] = VolIdle => N[j] = VolIdle
    BY <1>1, <2>1
  <2> QED
    BY <2>1, <2>2, <2>3 DEF VolCall
<1> QED
  BY <1>2, <1>3, <1>4

(* A step of a call: c before, d after.                                    *)
LEMMA VolsStepped ==
    ASSUME VolsInv, VolInv', NEW k \in VolActors, NEW c, c = volCall[k], c.step # "Idle",
           NEW d, volCall'[k] = d, UNCHANGED <<stkVars, volMenu, volOverlap, volDied>>,
           \A j \in VolActors \ {k} :
              /\ volCall'[j].op = volCall[j].op /\ volCall'[j].step = volCall[j].step
              /\ volCall'[j].stack = volCall[j].stack
              /\ volCall[j] = VolIdle => volCall'[j] = VolIdle,
           \A n \in VolNames \ {c.id} : volFile'[n] = volFile[n] /\ volDir'[n] = volDir[n],
           OthersOnlyMake =>
              d = VolIdle \/ /\ d.op = c.op /\ d.stack = c.stack /\ d.id = c.id
                             /\ d.step \in Creates => c.step \in Creates
                             /\ d.step \in {"Get", "Rmdir", "Unlink"} =>
                                   c.step \in {"Get", "Rmdir", "Unlink"}
                             /\ d.step \notin {"List", "Each"},
           OthersOnlyMake /\ ~volOverlap =>
              /\ Safe(d)'
              /\ c.id \in VolListed' /\ ~volFile'[c.id].stack => volDir'[c.id]
              /\ c.op = "create" /\ c.id \in VolListed => volFile'[c.id] = volFile[c.id]
              /\ c.id \in VolListed' =>
                    volFile'[c.id] = volFile[c.id] \/ volFile'[c.id].stack = c.stack,
           OthersOnlyMake /\ ~volOverlap /\ ~volDied /\ d = VolIdle =>
              /\ c.op = "create" => c.id \in VolListed'
              /\ c.op = "rm" => c.id \notin VolListed'
    PROVE  VolsInv'
<1>1. /\ UNCHANGED <<stkCall, stkLast>> /\ (OthersOnlyMake' <=> OthersOnlyMake)
      /\ c # VolIdle
  BY IdleVols DEF stkVars, OthersOnlyMake
<1>2. ASSUME OthersOnlyMake
      PROVE  WhoAsks'
  <2>1. WhoAsks /\ (c.op = "create" \/ c.op = "rm")
    <3>1. c.step \in Creates \cup {"Get", "Rmdir", "Unlink"} /\ WhoAsks
      BY <1>2 DEF VolsInv, WhoAsks, VolInv, VolTypeOK, VolCall, VolSteps, Creates
    <3> QED
      BY <3>1 DEF WhoAsks
  <2>2. ASSUME NEW j \in VolActors
        PROVE  /\ volCall'[j].op # "prune"
               /\ volCall'[j].op = "rm" => j = StackUser /\ stkCall.step = "VolEach"
               /\ volCall'[j].stack => j = StackUser /\ stkCall.step = "Volumes"
               /\ volCall'[j].step \in Creates => volCall'[j].op = "create"
               /\ volCall'[j].step \in {"Get", "Rmdir", "Unlink"} => volCall'[j].op = "rm"
               /\ volCall'[j].step \notin {"List", "Each"}
    <3>1. CASE j # k
      BY <2>1, <3>1 DEF WhoAsks
    <3>2. CASE j = k /\ d = VolIdle
      BY <3>2, IdleVols DEF Creates
    <3>3. CASE j = k /\ d # VolIdle
      BY <1>2, <2>1, <3>3 DEF WhoAsks
    <3> QED
      BY <3>1, <3>2, <3>3
  <2> QED
    BY <1>1, <2>2 DEF WhoAsks
<1>3. ASSUME OthersOnlyMake, ~volOverlap
      PROVE  \A j \in VolActors \ {k} : volCall[j] = VolIdle /\ volCall'[j] = VolIdle
  BY <1>1, <1>3 DEF VolsInv, VolInv, Alone
<1>4. \A n \in VolNames \ {c.id} : n \in VolListed' <=> n \in VolListed
  BY DEF VolListed
<1>5. VolsSafe'
  <2> SUFFICES ASSUME OthersOnlyMake, ~volOverlap PROVE VolsSafe'
    BY <1>1 DEF VolsSafe
  <2>1. ASSUME NEW j \in VolActors
        PROVE  Safe(volCall[j])'
    <3>1. Safe(VolIdle)'
      BY DEF Safe, VolIdle
    <3> QED
      BY <1>3, <3>1
  <2>2. ASSUME NEW n \in VolListed', ~volFile'[n].stack
        PROVE  volDir'[n]
    <3>1. CASE n = c.id
      BY <2>2, <3>1
    <3>2. CASE n # c.id
      BY <1>4, <2>2, <3>2 DEF VolsInv, VolsSafe, VolListed
    <3> QED
      BY <3>1, <3>2
  <2>3. ASSUME stkCall.step = "VolEach", NEW n \in stkCall.vols
        PROVE  n \in VolListed' /\ volFile'[n].stack
    <3>1. n \in VolListed /\ volFile[n].stack /\ n \in VolNames
      BY <2>3 DEF VolsInv, VolsSafe, VolListed
    <3>2. CASE n # c.id
      BY <1>4, <3>1, <3>2
    <3>3. CASE n = c.id
      <4>1. c.op # "rm"
        BY <2>3, <3>3 DEF VolsInv, VolsSafe, Safe
      <4>2. c.op = "create"
        BY <4>1 DEF VolsInv, WhoAsks, VolInv, VolTypeOK, VolCall, VolSteps, Creates
      <4>3. volFile'[n] = volFile[n]
        BY <3>1, <3>3, <4>2
      <4> QED
        BY <3>1, <4>3 DEF VolListed
    <3> QED
      BY <3>2, <3>3
  <2> QED
    BY <1>1, <2>1, <2>2, <2>3 DEF VolsSafe
<1>6. VolsCome'
  <2> SUFFICES ASSUME OthersOnlyMake, ~volOverlap, ~volDied PROVE VolsCome'
    BY <1>1 DEF VolsCome
  <2>1. /\ volCall'[StackUser] = IF k = StackUser THEN d ELSE VolIdle
        /\ volCall[StackUser] = IF k = StackUser THEN c ELSE VolIdle
        /\ c.op \in {"create", "rm"} /\ WhoAsks
    <3>1. StackUser \in VolActors
      BY StackAssumption
    <3>2. c.op \in {"create", "rm"} /\ WhoAsks
      BY DEF VolsInv, WhoAsks, VolInv, VolTypeOK, VolCall, VolSteps, Creates
    <3> QED
      BY <1>3, <3>1, <3>2
  <2>2. ASSUME c.op = "create", NEW n \in VolListed
        PROVE  n \in VolListed' /\ volFile'[n] = volFile[n]
    <3>1. n \in VolNames
      BY DEF VolListed
    <3> QED
      BY <1>4, <2>2, <3>1 DEF VolListed
  <2>3. ASSUME NEW n \in VolListed', volFile'[n].stack
        PROVE  (n \in VolListed /\ volFile[n].stack) \/ c.stack
    <3>1. n \in VolNames
      BY DEF VolListed
    <3> QED
      BY <1>4, <2>3, <3>1 DEF VolListed
  <2>4. ASSUME stkCall.step \in Deploying, NEW n \in StackVols
        PROVE  \/ n \in VolListed'
               \/ stkCall.step \in {"Networks", "Volumes"} /\ n \in stkCall.vols
               \/ /\ stkCall.step = "Volumes"
                  /\ volCall'[StackUser].op = "create" /\ volCall'[StackUser].id = n
    <3>1. c.op = "create"
      BY <2>1, <2>4 DEF WhoAsks, Deploying
    <3>2. \/ n \in VolListed
          \/ stkCall.step \in {"Networks", "Volumes"} /\ n \in stkCall.vols
          \/ /\ stkCall.step = "Volumes"
             /\ volCall[StackUser].op = "create" /\ volCall[StackUser].id = n
      BY <2>4 DEF VolsInv, VolsCome
    <3> QED
      BY <2>1, <2>2, <3>1, <3>2, IdleVols
  <2>5. ASSUME stkCall.step = "VolEach", NEW n \in VolListed', volFile'[n].stack
        PROVE  n \in stkCall.vols \/ (volCall'[StackUser].op = "rm" /\ volCall'[StackUser].id = n)
    <3>1. n \in VolListed /\ volFile[n].stack
      BY <2>1, <2>3, <2>5 DEF WhoAsks
    <3>2. n \in stkCall.vols \/ (volCall[StackUser].op = "rm" /\ volCall[StackUser].id = n)
      BY <2>5, <3>1 DEF VolsInv, VolsCome
    <3> QED
      BY <2>1, <2>5, <3>2, IdleVols
  <2>6. ASSUME stkCall.step = "Idle", stkLast \in {"deploy", "warned"}, NEW n \in StackVols
        PROVE  n \in VolListed'
    <3>1. c.op = "create"
      BY <2>1, <2>6 DEF WhoAsks
    <3>2. n \in VolListed
      BY <2>6 DEF VolsInv, VolsCome
    <3> QED
      BY <2>2, <3>1, <3>2
  <2>7. ASSUME stkCall.step = "Idle", stkLast = "rm", NEW n \in VolListed'
        PROVE  ~volFile'[n].stack
    BY <2>1, <2>3, <2>7 DEF VolsInv, VolsCome, WhoAsks
  <2> QED
    BY <1>1, <2>4, <2>5, <2>6, <2>7 DEF VolsCome
<1> QED
  BY <1>1, <1>2, <1>5, <1>6 DEF VolsInv

(* What is known of a call at work.                                        *)
LEMMA VolsAtWork ==
    ASSUME VolsInv, NEW k \in VolActors, volCall[k].step # "Idle"
    PROVE  /\ volCall[k] \in VolCall /\ Shaped(volCall[k]) /\ volCall \in [VolActors -> VolCall]
           /\ volFile \in [VolNames -> Volume \cup {NoRecord, Torn}]
           /\ volDir \in [VolNames -> BOOLEAN]
           /\ OthersOnlyMake /\ ~volOverlap => Safe(volCall[k])
           /\ ~volOverlap /\ ~volDied =>
                 Midway(volCall[k])
                 /\ \A n \in VolNames : Whole(n) \/ Excused(volCall[k], n)
BY AtWork DEF VolsInv, VolInv, VolTypeOK, VolShaped, VolsSafe

(* A step of a call that leaves the files alone.                           *)
LEMMA VolsMoved ==
    ASSUME VolsInv, NEW k \in VolActors, NEW d, volCall' = [volCall EXCEPT ![k] = d]
    PROVE  /\ volCall'[k] = d
           /\ \A j \in VolActors \ {k} :
                 /\ volCall'[j].op = volCall[j].op /\ volCall'[j].step = volCall[j].step
                 /\ volCall'[j].stack = volCall[j].stack
                 /\ volCall[j] = VolIdle => volCall'[j] = VolIdle
BY DEF VolsInv, VolInv, VolTypeOK

(* VolExists.                                                              *)
LEMMA ExistsVols ==
    ASSUME VolsInv, NEW k \in VolActors, VolExists(k), UNCHANGED stkVars
    PROVE  VolsInv'
<1>0. PICK c : c = volCall[k]
  OBVIOUS
<1>a. PICK d : d = VolAt(c, IF volFile[c.id] # NoRecord THEN "Idle" ELSE "Mkdir")
  OBVIOUS
<1>1. /\ c.step = "Exists" /\ volCall' = [volCall EXCEPT ![k] = d]
      /\ UNCHANGED <<volFile, volDir, volMenu, volOverlap, volDied>>
  BY <1>0, <1>a DEF VolExists, VolGoto
<1>2. /\ c \in VolCall /\ c.id \in VolNames /\ Shaped(c) /\ VolInv'
      /\ OthersOnlyMake /\ ~volOverlap => Safe(c)
      /\ ~volOverlap /\ ~volDied => Whole(c.id)
  BY <1>0, <1>1, VolsAtWork, ExistsInv DEF VolsInv, Shaped, Creates, Excused
<1>3. \/ d = VolIdle /\ volFile[c.id] # NoRecord
      \/ /\ volFile[c.id] = NoRecord /\ d # VolIdle
         /\ d.step = "Mkdir" /\ d.id = c.id /\ d.op = c.op /\ d.stack = c.stack /\ d.fd = c.fd
  BY <1>2, <1>a DEF VolAt, VolCall, VolIdle
<1>4. OthersOnlyMake => c.op = "create"
  BY <1>0, <1>1 DEF VolsInv, WhoAsks, Creates
<1>5. OthersOnlyMake /\ ~volOverlap => Safe(d)'
  <2>1. Safe(VolIdle)'
    BY DEF Safe, VolIdle
  <2>2. d # VolIdle /\ OthersOnlyMake => Safe(d)'
    BY <1>1, <1>3, <1>4 DEF Safe
  <2> QED
    BY <2>1, <2>2
<1>6. VolListed' = VolListed
  BY <1>1 DEF VolListed
<1>7. OthersOnlyMake /\ ~volOverlap /\ c.id \in VolListed /\ ~volFile[c.id].stack => volDir[c.id]
  BY DEF VolsInv, VolsSafe
<1>8. ~volOverlap /\ ~volDied /\ d = VolIdle => c.id \in VolListed
  BY <1>2, <1>3, VolRecordsAssumption DEF Whole, VolListed
<1>9. /\ volCall'[k] = d
      /\ \A j \in VolActors \ {k} :
            /\ volCall'[j].op = volCall[j].op /\ volCall'[j].step = volCall[j].step
            /\ volCall'[j].stack = volCall[j].stack
            /\ volCall[j] = VolIdle => volCall'[j] = VolIdle
  BY <1>1, VolsMoved
<1>10. /\ k \in VolActors
       /\ \A n \in VolNames \ {c.id} : volFile'[n] = volFile[n] /\ volDir'[n] = volDir[n]
  BY <1>1
<1> QED
  BY <1>0, <1>1, <1>2, <1>3, <1>4, <1>5, <1>6, <1>7, <1>8, <1>9, <1>10, VolsStepped DEF Creates

(* VolMkdir: nobody else has made the record meanwhile.                    *)
LEMMA MkdirVols ==
    ASSUME VolsInv, NEW k \in VolActors, VolMkdir(k), UNCHANGED stkVars
    PROVE  VolsInv'
<1>0. PICK c : c = volCall[k]
  OBVIOUS
<1>a. PICK d : d = VolAt(c, "Truncate")
  OBVIOUS
<1>1. /\ c.step = "Mkdir" /\ volCall' = [volCall EXCEPT ![k] = d]
      /\ volDir' = [volDir EXCEPT ![c.id] = TRUE]
      /\ UNCHANGED <<volFile, volMenu, volOverlap, volDied>>
  BY <1>0, <1>a DEF VolMkdir, VolGoto
<1>2. /\ c \in VolCall /\ c.id \in VolNames /\ Shaped(c) /\ VolInv'
      /\ OthersOnlyMake /\ ~volOverlap => Safe(c)
      /\ volDir \in [VolNames -> BOOLEAN]
  BY <1>0, <1>1, VolsAtWork, MkdirInv DEF VolsInv, Shaped, Creates
<1>3. /\ d # VolIdle /\ d.step = "Truncate" /\ d.id = c.id /\ d.op = c.op /\ d.stack = c.stack
  BY <1>2, <1>a DEF VolAt, VolCall, VolIdle
<1>4. OthersOnlyMake => c.op = "create"
  BY <1>0, <1>1 DEF VolsInv, WhoAsks, Creates
<1>5. volDir'[c.id] /\ \A n \in VolNames \ {c.id} : volDir'[n] = volDir[n]
  BY <1>1, <1>2
<1>6. OthersOnlyMake /\ ~volOverlap => Safe(d)'
  BY <1>1, <1>2, <1>3, <1>4, <1>5 DEF Safe
<1>7. OthersOnlyMake /\ ~volOverlap => c.id \notin VolListed
  BY <1>1, <1>2, VolRecordsAssumption DEF Safe, VolListed
<1>8. VolListed' = VolListed
  BY <1>1 DEF VolListed
<1>9. /\ volCall'[k] = d
      /\ \A j \in VolActors \ {k} :
            /\ volCall'[j].op = volCall[j].op /\ volCall'[j].step = volCall[j].step
            /\ volCall'[j].stack = volCall[j].stack
            /\ volCall[j] = VolIdle => volCall'[j] = VolIdle
  BY <1>1, VolsMoved
<1>10. /\ k \in VolActors
       /\ \A n \in VolNames \ {c.id} : volFile'[n] = volFile[n] /\ volDir'[n] = volDir[n]
  BY <1>1, <1>5
<1>11. OthersOnlyMake =>
          d = VolIdle \/ /\ d.op = c.op /\ d.stack = c.stack /\ d.id = c.id
                         /\ d.step \in Creates => c.step \in Creates
                         /\ d.step \in {"Get", "Rmdir", "Unlink"} =>
                               c.step \in {"Get", "Rmdir", "Unlink"}
                         /\ d.step \notin {"List", "Each"}
  BY <1>1, <1>3 DEF Creates
<1>12. OthersOnlyMake /\ ~volOverlap =>
          /\ Safe(d)'
          /\ c.id \in VolListed' /\ ~volFile'[c.id].stack => volDir'[c.id]
          /\ c.op = "create" /\ c.id \in VolListed => volFile'[c.id] = volFile[c.id]
          /\ c.id \in VolListed' =>
                volFile'[c.id] = volFile[c.id] \/ volFile'[c.id].stack = c.stack
  BY <1>1, <1>5, <1>6
<1>13. c.step # "Idle" /\ VolInv'
  BY <1>1, <1>2
<1>14. UNCHANGED <<stkVars, volMenu, volOverlap, volDied>> /\ d # VolIdle
  BY <1>1, <1>3
<1> QED
  BY <1>0, <1>9, <1>10, <1>11, <1>12, <1>13, <1>14, VolsStepped

(* VolTruncate.                                                            *)
LEMMA TruncateVols ==
    ASSUME VolsInv, NEW k \in VolActors, VolTruncate(k), UNCHANGED stkVars
    PROVE  VolsInv'
<1>0. PICK c : c = volCall[k]
  OBVIOUS
<1> DEFINE d == [c EXCEPT !.step = "Write", !.fd = "clean"]
<1>1. /\ c.step = "Truncate" /\ volFile' = [volFile EXCEPT ![c.id] = Torn]
      /\ UNCHANGED <<volDir, volMenu, volOverlap, volDied>>
  BY <1>0 DEF VolTruncate
<1>2. /\ c \in VolCall /\ c.id \in VolNames /\ Shaped(c) /\ VolInv'
      /\ OthersOnlyMake /\ ~volOverlap => Safe(c)
      /\ volFile \in [VolNames -> Volume \cup {NoRecord, Torn}]
  BY <1>0, <1>1, VolsAtWork, TruncateInv DEF VolsInv, Shaped, Creates
<1>3. volCall' = [Noticed(volCall, k, c.id, "clean") EXCEPT ![k] = d]
  <2> DEFINE N == Noticed(volCall, k, c.id, "clean")
  <2>1. N \in [VolActors -> VolCall] /\ N[k] = c
    BY <1>0, NoticedCalls DEF VolsInv, VolInv
  <2>2. volCall' = [N EXCEPT ![k].step = "Write", ![k].fd = "clean"]
    BY <1>0 DEF VolTruncate
  <2> HIDE DEF N
  <2> QED
    BY <2>1, <2>2 DEF N
<1>4. /\ d # VolIdle /\ d.step = "Write" /\ d.id = c.id /\ d.op = c.op /\ d.stack = c.stack
      /\ d.fd = "clean"
  BY <1>2 DEF VolCall, VolIdle
<1> HIDE DEF d
<1>5. OthersOnlyMake => c.op = "create"
  BY <1>0, <1>1 DEF VolsInv, WhoAsks, Creates
<1>6. volFile'[c.id] = Torn /\ \A n \in VolNames \ {c.id} : volFile'[n] = volFile[n]
  BY <1>1, <1>2
<1>7. OthersOnlyMake /\ ~volOverlap => Safe(d)' /\ c.id \notin VolListed
  BY <1>1, <1>2, <1>4, <1>5, <1>6, VolRecordsAssumption DEF Safe, VolListed
<1>8. c.id \notin VolListed'
  BY <1>6, VolRecordsAssumption DEF VolListed
<1>9. /\ volCall'[k] = d
      /\ \A j \in VolActors \ {k} :
            /\ volCall'[j].op = volCall[j].op /\ volCall'[j].step = volCall[j].step
            /\ volCall'[j].stack = volCall[j].stack
            /\ volCall[j] = VolIdle => volCall'[j] = VolIdle
  BY <1>3, VolsNoticed DEF VolsInv
<1> QED
  BY <1>0, <1>1, <1>2, <1>4, <1>5, <1>6, <1>7, <1>8, <1>9, VolsStepped DEF Creates

(* VolWrite: the record is whole, and its directory is there.              *)
LEMMA WriteVols ==
    ASSUME VolsInv, NEW k \in VolActors, VolWrite(k), UNCHANGED stkVars
    PROVE  VolsInv'
<1>0. PICK c : c = volCall[k]
  OBVIOUS
<1>1. /\ c.step = "Write"
      /\ volCall' = [Noticed(volCall, k, c.id, "shared") EXCEPT ![k] = VolIdle]
      /\ UNCHANGED <<volDir, volMenu, volOverlap, volDied>>
  BY <1>0 DEF VolWrite
<1>2. /\ c \in VolCall /\ c.id \in VolNames /\ Shaped(c) /\ VolInv'
      /\ OthersOnlyMake /\ ~volOverlap => Safe(c)
      /\ volFile \in [VolNames -> Volume \cup {NoRecord, Torn}]
  BY <1>0, <1>1, VolsAtWork, WriteInv DEF VolsInv, Shaped, Creates
<1>3. PICK x \in Written(c.fd, [stack |-> c.stack], volFile[c.id]) :
          volFile' = [volFile EXCEPT ![c.id] = x]
  BY <1>0 DEF VolWrite
<1>4. volFile'[c.id] = x /\ \A n \in VolNames \ {c.id} : volFile'[n] = volFile[n]
  BY <1>2, <1>3
<1>5. OthersOnlyMake => c.op = "create"
  BY <1>0, <1>1 DEF VolsInv, WhoAsks, Creates
<1>6. OthersOnlyMake /\ ~volOverlap =>
          /\ x = [stack |-> c.stack] /\ x \in Volume /\ volDir[c.id] /\ c.id \notin VolListed
  <2>1. [stack |-> c.stack] \in Volume
    BY <1>2 DEF VolCall, Volume
  <2>2. OthersOnlyMake /\ ~volOverlap => c.fd = "clean" /\ volDir[c.id] /\ volFile[c.id] = Torn
    BY <1>1, <1>2 DEF Safe
  <2> QED
    BY <1>3, <2>1, <2>2, VolRecordsAssumption DEF Written, VolListed
<1>7. OthersOnlyMake /\ ~volOverlap =>
          /\ c.id \in VolListed' /\ volDir'[c.id] /\ volFile'[c.id].stack = c.stack
          /\ c.id \notin VolListed
  BY <1>1, <1>2, <1>4, <1>6 DEF VolListed
<1>8. Safe(VolIdle)'
  BY DEF Safe, VolIdle
<1>9. /\ volCall'[k] = VolIdle
      /\ \A j \in VolActors \ {k} :
            /\ volCall'[j].op = volCall[j].op /\ volCall'[j].step = volCall[j].step
            /\ volCall'[j].stack = volCall[j].stack
            /\ volCall[j] = VolIdle => volCall'[j] = VolIdle
  BY <1>1, VolsNoticed DEF VolsInv
<1> QED
  BY <1>0, <1>1, <1>2, <1>4, <1>5, <1>7, <1>8, <1>9, VolsStepped

(* VolGet.                                                                 *)
LEMMA GetVols ==
    ASSUME VolsInv, NEW k \in VolActors, VolGet(k), UNCHANGED stkVars
    PROVE  VolsInv'
<1>0. PICK c : c = volCall[k]
  OBVIOUS
<1>a. PICK d : d = VolAt(c, IF c.id \in VolListed THEN "Rmdir" ELSE VolAfter(c))
  OBVIOUS
<1>1. /\ c.step = "Get" /\ volCall' = [volCall EXCEPT ![k] = d]
      /\ UNCHANGED <<volFile, volDir, volMenu, volOverlap, volDied>>
  BY <1>0, <1>a DEF VolGet, VolGoto
<1>2. /\ c \in VolCall /\ c.id \in VolNames /\ Shaped(c) /\ VolInv'
      /\ OthersOnlyMake /\ ~volOverlap => Safe(c)
  BY <1>0, <1>1, VolsAtWork, GetInv DEF VolsInv, Shaped, Creates
<1>3. OthersOnlyMake => c.op = "rm"
  BY <1>0, <1>1 DEF VolsInv, WhoAsks
<1>4. OthersOnlyMake =>
         \/ d = VolIdle /\ c.id \notin VolListed
         \/ /\ d # VolIdle /\ c.id \in VolListed
            /\ d.step = "Rmdir" /\ d.id = c.id /\ d.op = c.op /\ d.stack = c.stack
  BY <1>2, <1>3, <1>a DEF VolAt, VolAfter, VolCall, VolIdle
<1>5. VolListed' = VolListed
  BY <1>1 DEF VolListed
<1>6. Safe(VolIdle)'
  BY DEF Safe, VolIdle
<1>7. OthersOnlyMake /\ ~volOverlap => Safe(d)'
  <2>1. OthersOnlyMake /\ d # VolIdle /\ ~volOverlap => Safe(d)'
    BY <1>1, <1>2, <1>3, <1>4, <1>5 DEF Safe, stkVars
  <2> QED
    BY <1>6, <2>1
<1>8. OthersOnlyMake /\ ~volOverlap /\ c.id \in VolListed /\ ~volFile[c.id].stack => volDir[c.id]
  BY DEF VolsInv, VolsSafe
<1>9. /\ volCall'[k] = d
      /\ \A j \in VolActors \ {k} :
            /\ volCall'[j].op = volCall[j].op /\ volCall'[j].step = volCall[j].step
            /\ volCall'[j].stack = volCall[j].stack
            /\ volCall[j] = VolIdle => volCall'[j] = VolIdle
  BY <1>1, VolsMoved
<1>10. /\ k \in VolActors
       /\ \A n \in VolNames \ {c.id} : volFile'[n] = volFile[n] /\ volDir'[n] = volDir[n]
  BY <1>1
<1> QED
  BY <1>0, <1>1, <1>2, <1>3, <1>4, <1>5, <1>7, <1>8, <1>9, <1>10, VolsStepped DEF Creates

(* VolRmdir: only of a volume of the stack.                                *)
LEMMA RmdirVols ==
    ASSUME VolsInv, NEW k \in VolActors, VolRmdir(k), UNCHANGED stkVars
    PROVE  VolsInv'
<1>0. PICK c : c = volCall[k]
  OBVIOUS
<1>a. PICK d : d = VolAt(c, "Unlink")
  OBVIOUS
<1>1. /\ c.step = "Rmdir" /\ volCall' = [volCall EXCEPT ![k] = d]
      /\ volDir' = [volDir EXCEPT ![c.id] = FALSE]
      /\ UNCHANGED <<volFile, volMenu, volOverlap, volDied>>
  BY <1>0, <1>a DEF VolRmdir, VolGoto
<1>2. /\ c \in VolCall /\ c.id \in VolNames /\ Shaped(c) /\ VolInv'
      /\ OthersOnlyMake /\ ~volOverlap => Safe(c)
      /\ volDir \in [VolNames -> BOOLEAN]
  BY <1>0, <1>1, VolsAtWork, RmdirInv DEF VolsInv, Shaped, Creates
<1>3. OthersOnlyMake => c.op = "rm"
  BY <1>0, <1>1 DEF VolsInv, WhoAsks
<1>4. d # VolIdle /\ d.step = "Unlink" /\ d.id = c.id /\ d.op = c.op /\ d.stack = c.stack
  BY <1>2, <1>a DEF VolAt, VolCall, VolIdle
<1>5. VolListed' = VolListed
  BY <1>1 DEF VolListed
<1>6. OthersOnlyMake /\ ~volOverlap =>
          Safe(d)' /\ (c.id \in VolListed => volFile[c.id].stack)
  BY <1>1, <1>2, <1>3, <1>4, <1>5 DEF Safe, stkVars
<1>7. \A n \in VolNames \ {c.id} : volDir'[n] = volDir[n]
  BY <1>1, <1>2
<1>9. /\ volCall'[k] = d
      /\ \A j \in VolActors \ {k} :
            /\ volCall'[j].op = volCall[j].op /\ volCall'[j].step = volCall[j].step
            /\ volCall'[j].stack = volCall[j].stack
            /\ volCall[j] = VolIdle => volCall'[j] = VolIdle
  BY <1>1, VolsMoved
<1>10. /\ k \in VolActors
       /\ \A n \in VolNames \ {c.id} : volFile'[n] = volFile[n] /\ volDir'[n] = volDir[n]
  BY <1>1, <1>7
<1>11. OthersOnlyMake =>
          d = VolIdle \/ /\ d.op = c.op /\ d.stack = c.stack /\ d.id = c.id
                         /\ d.step \in Creates => c.step \in Creates
                         /\ d.step \in {"Get", "Rmdir", "Unlink"} =>
                               c.step \in {"Get", "Rmdir", "Unlink"}
                         /\ d.step \notin {"List", "Each"}
  BY <1>1, <1>4 DEF Creates
<1>12. OthersOnlyMake /\ ~volOverlap =>
          /\ Safe(d)'
          /\ c.id \in VolListed' /\ ~volFile'[c.id].stack => volDir'[c.id]
          /\ c.op = "create" /\ c.id \in VolListed => volFile'[c.id] = volFile[c.id]
          /\ c.id \in VolListed' =>
                volFile'[c.id] = volFile[c.id] \/ volFile'[c.id].stack = c.stack
  BY <1>1, <1>5, <1>6
<1>13. c.step # "Idle" /\ VolInv'
  BY <1>1, <1>2
<1>14. UNCHANGED <<stkVars, volMenu, volOverlap, volDied>> /\ d # VolIdle
  BY <1>1, <1>4
<1> QED
  BY <1>0, <1>9, <1>10, <1>11, <1>12, <1>13, <1>14, VolsStepped

(* VolUnlink.                                                              *)
LEMMA UnlinkVols ==
    ASSUME VolsInv, NEW k \in VolActors, VolUnlink(k), UNCHANGED stkVars
    PROVE  VolsInv'
<1>0. PICK c : c = volCall[k]
  OBVIOUS
<1> DEFINE d == VolAt(c, VolAfter(c))
<1>1. /\ c.step = "Unlink" /\ volFile' = [volFile EXCEPT ![c.id] = NoRecord]
      /\ volCall' = [Noticed(volCall, k, c.id, "gone") EXCEPT ![k] = d]
      /\ UNCHANGED <<volDir, volMenu, volOverlap, volDied>>
  BY <1>0 DEF VolUnlink
<1>2. /\ c \in VolCall /\ c.id \in VolNames /\ Shaped(c) /\ VolInv'
      /\ volFile \in [VolNames -> Volume \cup {NoRecord, Torn}]
  BY <1>0, <1>1, VolsAtWork, UnlinkInv DEF VolsInv, Shaped, Creates
<1>3. OthersOnlyMake => c.op = "rm" /\ d = VolIdle
  BY <1>0, <1>1 DEF VolsInv, WhoAsks, VolAt, VolAfter
<1> HIDE DEF d
<1>4. volFile'[c.id] = NoRecord /\ \A n \in VolNames \ {c.id} : volFile'[n] = volFile[n]
  BY <1>1, <1>2
<1>5. c.id \notin VolListed'
  BY <1>4, VolRecordsAssumption DEF VolListed
<1>6. Safe(VolIdle)'
  BY DEF Safe, VolIdle
<1>7. /\ volCall'[k] = d
      /\ \A j \in VolActors \ {k} :
            /\ volCall'[j].op = volCall[j].op /\ volCall'[j].step = volCall[j].step
            /\ volCall'[j].stack = volCall[j].stack
            /\ volCall[j] = VolIdle => volCall'[j] = VolIdle
  BY <1>1, VolsNoticed DEF VolsInv
<1> QED
  BY <1>0, <1>1, <1>2, <1>3, <1>4, <1>5, <1>6, <1>7, VolsStepped

(* Nothing is claimed where others remove volumes too.                     *)
LEMMA VolsFree ==
    ASSUME VolInv', UNCHANGED volMenu, ~OthersOnlyMake
    PROVE  VolsInv'
BY DEF VolsInv, VolsSafe, VolsCome, OthersOnlyMake

(* Every step of a call; others do not prune.                              *)
LEMMA StepVols ==
    ASSUME VolsInv, NEW k \in VolActors, VolStep(k), UNCHANGED stkVars
    PROVE  VolsInv'
<1>1. ASSUME VolPrune(k) PROVE VolsInv'
  <2>1. volCall[k].step \in {"List", "Each"} /\ UNCHANGED volMenu
    BY <1>1 DEF VolPrune
  <2>2. ~OthersOnlyMake
    BY <2>1 DEF VolsInv, WhoAsks
  <2>3. VolInv'
    BY <1>1, PruneInv DEF VolsInv
  <2> QED
    BY <2>1, <2>2, <2>3, VolsFree
<1> QED
  BY <1>1, ExistsVols, MkdirVols, TruncateVols, WriteVols, GetVols, RmdirVols, UnlinkVols
  DEF VolStep

(* What a call begins with.                                                *)
LEMMA VolBegun ==
    ASSUME VolInv, NEW k \in VolActors, NEW op \in {"create", "rm"}, NEW n \in VolNames,
           NEW stack \in BOOLEAN, VolBegin(k, op, n, stack)
    PROVE  /\ volCall[k] = VolIdle
           /\ volCall'[k].op = op /\ volCall'[k].id = n /\ volCall'[k].stack = stack
           /\ volCall'[k].step = IF op = "create" THEN "Exists" ELSE "Get"
           /\ \A j \in VolActors \ {k} : volCall'[j] = volCall[j]
           /\ UNCHANGED <<volFile, volDir, volMenu, volDied>>
           /\ ~volOverlap' => ~volOverlap /\ \A j \in VolActors : volCall[j] = VolIdle
           /\ VolInv'
<1> DEFINE s == IF op = "create" THEN "Exists" ELSE "Get"
           b == [[VolIdle EXCEPT !.op = op, !.id = n, !.stack = stack] EXCEPT !.step = s]
<1>1. /\ volCall[k] = VolIdle /\ volCall' = [volCall EXCEPT ![k] = b]
      /\ volOverlap' = (volOverlap \/ \E j \in VolActors : volCall[j] # VolIdle)
      /\ UNCHANGED <<volFile, volDir, volMenu, volDied>>
  <2>1. VolAt([VolIdle EXCEPT !.op = op, !.id = n, !.stack = stack], s) = b
    BY DEF VolAt
  <2>2. (CASE op = "create" -> "Exists" [] op = "rm" -> "Get" [] op = "prune" -> "List") = s
    OBVIOUS
  <2> QED
    BY <2>1, <2>2 DEF VolBegin, VolGoto
<1>2. b.op = op /\ b.id = n /\ b.stack = stack /\ b.step = s
  BY DEF VolIdle
<1> HIDE DEF b
<1>3. volCall'[k] = b /\ \A j \in VolActors \ {k} : volCall'[j] = volCall[j]
  BY <1>1 DEF VolInv, VolTypeOK
<1>4. VolInv'
  BY BeginInv DEF VolOps
<1> QED
  BY <1>1, <1>2, <1>3, <1>4

(* The command asks for a volume, or to have it removed.                   *)
LEMMA VolsBegun ==
    ASSUME VolsInv, NEW op \in {"create", "rm"}, NEW n \in stkCall.vols, n \in VolNames,
           NEW stack \in BOOLEAN, VolBegin(StackUser, op, n, stack),
           stkCall.step = IF op = "create" THEN "Volumes" ELSE "VolEach",
           op = "rm" => ~stack,
           stkCall'.step = stkCall.step, stkCall'.vols = stkCall.vols \ {n}
    PROVE  VolsInv'
<1>1. StackUser \in VolActors
  BY StackAssumption
<1>2. /\ volCall[StackUser] = VolIdle
      /\ volCall'[StackUser].op = op /\ volCall'[StackUser].id = n
      /\ volCall'[StackUser].stack = stack
      /\ volCall'[StackUser].step = IF op = "create" THEN "Exists" ELSE "Get"
      /\ \A j \in VolActors \ {StackUser} : volCall'[j] = volCall[j]
      /\ UNCHANGED <<volFile, volDir, volMenu, volDied>>
      /\ ~volOverlap' => ~volOverlap /\ \A j \in VolActors : volCall[j] = VolIdle
      /\ VolInv'
  BY <1>1, VolBegun DEF VolsInv
<1>3. VolListed' = VolListed /\ (OthersOnlyMake' <=> OthersOnlyMake)
  BY <1>2 DEF VolListed, OthersOnlyMake
<1>4. OthersOnlyMake => WhoAsks'
  <2> SUFFICES ASSUME OthersOnlyMake, NEW j \in VolActors
               PROVE  /\ volCall'[j].op # "prune"
                      /\ volCall'[j].op = "rm" => j = StackUser /\ stkCall'.step = "VolEach"
                      /\ volCall'[j].stack => j = StackUser /\ stkCall'.step = "Volumes"
                      /\ volCall'[j].step \in Creates => volCall'[j].op = "create"
                      /\ volCall'[j].step \in {"Get", "Rmdir", "Unlink"} => volCall'[j].op = "rm"
                      /\ volCall'[j].step \notin {"List", "Each"}
    BY DEF WhoAsks
  <2>1. CASE j = StackUser
    BY <1>2, <2>1 DEF Creates
  <2>2. CASE j # StackUser
    BY <1>2, <2>2 DEF VolsInv, WhoAsks
  <2> QED
    BY <2>1, <2>2
<1>5. VolsSafe'
  <2> SUFFICES ASSUME OthersOnlyMake, ~volOverlap' PROVE VolsSafe'
    BY <1>3 DEF VolsSafe
  <2>1. Safe(VolIdle)'
    BY DEF Safe, VolIdle
  <2>2. Safe(volCall[StackUser])'
    BY <1>2, <1>3 DEF Safe, VolsInv, VolsSafe
  <2>3. \A k \in VolActors : Safe(volCall[k])'
    BY <1>2, <2>1, <2>2
  <2> QED
    BY <1>2, <1>3, <2>3 DEF VolsInv, VolsSafe
<1>6. VolsCome'
  <2> SUFFICES ASSUME OthersOnlyMake, ~volOverlap', ~volDied PROVE VolsCome'
    BY <1>2, <1>3 DEF VolsCome
  <2>1. VolIdle.op = "none"
    BY IdleVols
  <2> QED
    BY <1>2, <1>3, <2>1 DEF VolsInv, VolsCome, Deploying
<1> QED
  BY <1>2, <1>3, <1>4, <1>5, <1>6 DEF VolsInv

(* Another user makes a volume.                                            *)
LEMMA RequestVols ==
    ASSUME VolsInv, NEW k \in VolActors, VolRequest(k), UNCHANGED stkVars
    PROVE  VolsInv'
<1>1. VolInv' /\ UNCHANGED volMenu
  BY RequestInv DEF VolsInv, VolRequest, AskVolCreate, AskVolRm, AskVolPrune, VolBegin
<1>2. CASE ~OthersOnlyMake
  BY <1>1, <1>2, VolsFree
<1>3. ASSUME OthersOnlyMake
      PROVE  VolsInv'
  <2>1. PICK n \in volMenu.names : VolBegin(k, "create", n, FALSE)
    BY <1>3 DEF VolRequest, AskVolCreate, OthersOnlyMake
  <2>2. n \in VolNames
    BY VolMenusAssumption DEF VolsInv, VolInv, VolTypeOK
  <2>3. /\ volCall[k] = VolIdle
        /\ volCall'[k].op = "create" /\ ~volCall'[k].stack /\ volCall'[k].step = "Exists"
        /\ \A j \in VolActors \ {k} : volCall'[j] = volCall[j]
        /\ UNCHANGED <<volFile, volDir, volMenu, volDied>>
        /\ ~volOverlap' => ~volOverlap /\ \A j \in VolActors : volCall[j] = VolIdle
    BY <2>1, <2>2, VolBegun DEF VolsInv
  <2>4. VolListed' = VolListed /\ (OthersOnlyMake' <=> OthersOnlyMake)
        /\ UNCHANGED <<stkCall, stkLast>> /\ VolIdle.op = "none"
    BY <2>3, IdleVols DEF VolListed, OthersOnlyMake, stkVars
  <2>5. WhoAsks'
    <3> SUFFICES ASSUME NEW j \in VolActors
                 PROVE  /\ volCall'[j].op # "prune"
                        /\ volCall'[j].op = "rm" => j = StackUser /\ stkCall'.step = "VolEach"
                        /\ volCall'[j].stack => j = StackUser /\ stkCall'.step = "Volumes"
                        /\ volCall'[j].step \in Creates => volCall'[j].op = "create"
                        /\ volCall'[j].step \in {"Get", "Rmdir", "Unlink"} => volCall'[j].op = "rm"
                        /\ volCall'[j].step \notin {"List", "Each"}
      BY DEF WhoAsks
    <3>1. CASE j = k
      BY <2>3, <3>1 DEF Creates
    <3>2. CASE j # k
      BY <1>3, <2>3, <2>4, <3>2 DEF VolsInv, WhoAsks
    <3> QED
      BY <3>1, <3>2
  <2>6. VolsSafe'
    <3> SUFFICES ASSUME ~volOverlap' PROVE VolsSafe'
      BY DEF VolsSafe
    <3>1. Safe(VolIdle)'
      BY DEF Safe, VolIdle
    <3>2. Safe(volCall[k])'
      BY <2>3 DEF Safe
    <3>3. \A j \in VolActors : Safe(volCall[j])'
      BY <2>3, <3>1, <3>2
    <3> QED
      BY <1>3, <2>3, <2>4, <3>3 DEF VolsInv, VolsSafe
  <2>7. VolsCome'
    <3> SUFFICES ASSUME ~volOverlap', ~volDied PROVE VolsCome'
      BY <2>3 DEF VolsCome
    <3>1. StackUser \in VolActors /\ volCall[StackUser] = VolIdle
      BY <2>3, StackAssumption
    <3> QED
      BY <1>3, <2>3, <2>4, <3>1 DEF VolsInv, VolsCome
  <2> QED
    BY <1>1, <2>5, <2>6, <2>7 DEF VolsInv
<1> QED
  BY <1>2, <1>3

(* StkVolume: what is listed stays, what is not is asked for.              *)
LEMMA VolumeVols ==
    ASSUME StkTypeOK, VolsInv, StkVolume
    PROVE  VolsInv'
<1>1. /\ stkCall \in StackCall /\ volCall[StackUser] = VolIdle /\ stkCall.step = "Volumes"
      /\ UNCHANGED stkLast
  BY DEF StkTypeOK, StkVolume, StkAt
<1>2. OthersOnlyMake /\ ~volOverlap /\ ~volDied =>
          \A n \in StackVols : n \in VolListed \/ n \in stkCall.vols
  BY <1>1, IdleVols DEF VolsInv, VolsCome, Deploying
<1>3. ASSUME NEW n \in stkCall.vols, n \in VolListed, UNCHANGED volVars,
             stkCall' = [stkCall EXCEPT !.vols = @ \ {n}, !.step = "Volumes"]
      PROVE  VolsInv'
  <2>1. stkCall'.step = "Volumes" /\ stkCall'.vols = stkCall.vols \ {n}
    BY <1>1, <1>3 DEF StackCall
  <2> QED
    BY <1>1, <1>2, <1>3, <2>1, VolsStand
<1>4. ASSUME NEW n \in stkCall.vols, VolBegin(StackUser, "create", n, TRUE),
             stkCall' = [stkCall EXCEPT !.vols = @ \ {n}, !.step = "Volumes"]
      PROVE  VolsInv'
  <2>1. stkCall'.step = "Volumes" /\ stkCall'.vols = stkCall.vols \ {n} /\ n \in VolNames
    BY <1>1, <1>4 DEF StackCall
  <2> QED
    BY <1>1, <1>4, <2>1, VolsBegun
<1>5. ASSUME stkCall.vols = {}, UNCHANGED volVars,
             stkCall' = [stkCall EXCEPT !.step = "Services"]
      PROVE  VolsInv'
  <2>1. stkCall'.step = "Services"
    BY <1>1, <1>5 DEF StackCall
  <2> QED
    BY <1>1, <1>2, <1>5, <2>1, VolsStand
<1> QED
  BY <1>3, <1>4, <1>5 DEF StkVolume, StkGoto

(* StkVolumes: what carries the label is listed, and then removed.         *)
LEMMA VolumesVols ==
    ASSUME StkTypeOK, VolsInv, StkVolumes
    PROVE  VolsInv'
<1>1. /\ stkCall \in StackCall /\ volCall[StackUser] = VolIdle
      /\ stkCall.step \in {"VolList", "VolEach"}
  BY DEF StkTypeOK, StkVolumes, StkRemoving, StkAt
<1>2. ASSUME UNCHANGED volVars,
             stkCall' = [stkCall EXCEPT !.vols = {n \in VolListed : volFile[n].stack},
                                        !.step = "VolEach"]
      PROVE  VolsInv'
  <2>1. stkCall'.step = "VolEach" /\ stkCall'.vols = {n \in VolListed : volFile[n].stack}
    BY <1>1, <1>2 DEF StackCall
  <2> QED
    BY <1>1, <1>2, <2>1, VolsStand DEF Deploying
<1>3. ASSUME NEW n \in stkCall.vols, stkCall.step = "VolEach",
             VolBegin(StackUser, "rm", n, FALSE),
             stkCall' = [stkCall EXCEPT !.vols = @ \ {n}, !.step = "VolEach"]
      PROVE  VolsInv'
  <2>1. stkCall'.step = "VolEach" /\ stkCall'.vols = stkCall.vols \ {n} /\ n \in VolNames
    BY <1>1, <1>3 DEF StackCall
  <2> QED
    BY <1>1, <1>3, <2>1, VolsBegun
<1>4. ASSUME stkCall.step = "VolEach", stkCall.vols = {}, UNCHANGED volVars,
             stkCall' = StkIdle, stkLast' = "rm"
      PROVE  VolsInv'
  <2>1. stkCall'.step = "Idle"
    BY <1>4 DEF StkIdle
  <2>2. OthersOnlyMake /\ ~volOverlap /\ ~volDied => \A n \in VolListed : ~volFile[n].stack
    BY <1>1, <1>4, IdleVols DEF VolsInv, VolsCome
  <2> QED
    BY <1>1, <1>4, <2>1, <2>2, VolsStand DEF Deploying
<1> QED
  BY <1>2, <1>3, <1>4 DEF StkVolumes, StkRemoving, StkGoto, StkAt

(* The other steps of the command, which make no calls on volumes.         *)
LEMMA ElseVols ==
    ASSUME StkTypeOK, VolsInv,
           \/ StkDeploy \/ StkNetwork \/ StkService \/ StkPrepare \/ StkRm \/ StkContainer
           \/ StkStop \/ StkRootfs \/ StkDelete \/ StkNetworks
    PROVE  VolsInv'
<1>1. stkCall \in StackCall
  BY DEF StkTypeOK
<1>2. CASE StkDeploy
  <2>1. /\ volCall[StackUser] = VolIdle /\ UNCHANGED volVars
        /\ stkCall'.step = "Networks" /\ stkCall'.vols = StackVols
    BY <1>2 DEF StkDeploy, StkAt, OthersSame, StkIdle
  <2> QED
    BY <2>1, VolsStand
<1>3. CASE StkNetwork
  <2>1. /\ volCall[StackUser] = VolIdle /\ UNCHANGED volVars
        /\ stkCall.step = "Networks"
    BY <1>3 DEF StkNetwork, StkAt
  <2>2. stkCall'.step \in {"Networks", "Volumes"} /\ stkCall'.vols = stkCall.vols
    BY <1>1, <1>3 DEF StkNetwork, StkGoto, StackCall
  <2>3. OthersOnlyMake /\ ~volOverlap /\ ~volDied =>
            \A n \in StackVols : n \in VolListed \/ n \in stkCall.vols
    BY <2>1 DEF VolsInv, VolsCome, Deploying
  <2> QED
    BY <2>1, <2>2, <2>3, VolsStand
<1>4. CASE StkService \/ StkPrepare
  <2>1. /\ volCall[StackUser] = VolIdle /\ UNCHANGED volVars
        /\ stkCall.step \in {"Services", "Prepare"}
    BY <1>4 DEF StkService, StkPrepare, StkAt, OthersSame
  <2>2. \/ stkCall'.step \in {"Services", "Prepare"}
        \/ stkCall'.step = "Idle" /\ stkLast' \in {"deploy", "warned"}
    <3>1. StkIdle.step = "Idle"
      BY DEF StkIdle
    <3>2. CASE StkService
      BY <1>1, <3>1, <3>2 DEF StkService, StkGoto, StackCall
    <3>3. CASE StkPrepare
      BY <1>1, <3>3 DEF StkPrepare, StkGoto, StackCall
    <3> QED
      BY <1>4, <3>2, <3>3
  <2>3. OthersOnlyMake /\ ~volOverlap /\ ~volDied => StackVols \subseteq VolListed
    BY <2>1 DEF VolsInv, VolsCome, Deploying
  <2> QED
    BY <2>1, <2>2, <2>3, VolsStand
<1>5. CASE StkRm \/ StkContainer \/ StkStop \/ StkRootfs \/ StkDelete \/ StkNetworks
  <2>1. /\ volCall[StackUser] = VolIdle /\ UNCHANGED volVars
    BY <1>5
    DEF StkRm, StkContainer, StkStop, StkRootfs, StkDelete, StkNetworks, StkAt, OthersSame
  <2>2. stkCall'.step \in {"Containers", "Stop", "Rootfs", "Delete",
                       "NetList", "NetEach", "VolList"}
    <3>1. CASE StkNetworks
      BY <1>1, <3>1 DEF StkNetworks, StkGoto, StackCall
    <3>2. CASE ~StkNetworks
      BY <1>1, <1>5, <3>2
      DEF StkRm, StkContainer, StkStop, StkRootfs, StkDelete, StkGoto, StackCall, StkIdle
    <3> QED
      BY <3>1, <3>2
  <2> QED
    BY <2>1, <2>2, VolsStand DEF Deploying
<1> QED
  BY <1>2, <1>3, <1>4, <1>5

(* StkDie: nothing is claimed any more.                                    *)
LEMMA DieVols ==
    ASSUME VolsInv, StkDie
    PROVE  VolsInv'
<1>1. VolInv' /\ StackUser \in VolActors
  BY StackAssumption, DieInv DEF VolsInv, StkDie
<1>2. /\ volCall'[StackUser] = VolIdle
      /\ \A j \in VolActors \ {StackUser} : volCall'[j] = volCall[j]
      /\ UNCHANGED <<volFile, volDir, volMenu, volOverlap>> /\ volDied'
      /\ stkCall'.step = "Idle"
  BY <1>1 DEF VolsInv, VolInv, VolTypeOK, StkDie, StkIdle
<1>3. VolListed' = VolListed /\ (OthersOnlyMake' <=> OthersOnlyMake)
  BY <1>2 DEF VolListed, OthersOnlyMake
<1>4. OthersOnlyMake => WhoAsks'
  BY <1>2, IdleVols DEF VolsInv, WhoAsks, Creates
<1>5. VolsSafe'
  <2> SUFFICES ASSUME OthersOnlyMake, ~volOverlap PROVE VolsSafe'
    BY <1>2, <1>3 DEF VolsSafe
  <2>1. ASSUME NEW j \in VolActors
        PROVE  Safe(volCall[j])'
    <3>1. CASE j = StackUser
      <4>1. Safe(VolIdle)'
        BY DEF Safe, VolIdle
      <4> QED
        BY <1>2, <3>1, <4>1
    <3>2. CASE j # StackUser
      <4>1. Safe(volCall[j]) /\ volCall[j].op # "rm"
        BY <3>2 DEF VolsInv, VolsSafe, WhoAsks
      <4> QED
        BY <1>2, <1>3, <3>2, <4>1 DEF Safe
    <3> QED
      BY <3>1, <3>2
  <2> QED
    BY <1>2, <1>3, <2>1 DEF VolsInv, VolsSafe
<1>6. VolsCome'
  BY <1>2 DEF VolsCome
<1> QED
  BY <1>1, <1>3, <1>4, <1>5, <1>6 DEF VolsInv

(* Nothing happens to the volumes, nor does the command go on.             *)
LEMMA StillVols ==
    ASSUME VolsInv, UNCHANGED <<volVars, stkCall, stkLast>>
    PROVE  VolsInv'
<1>1. VolInv'
  BY StutterInv DEF VolsInv
<1>2. /\ UNCHANGED <<volFile, volDir, volCall, volMenu, volOverlap, volDied>>
      /\ VolListed' = VolListed /\ (OthersOnlyMake' <=> OthersOnlyMake)
  BY DEF volVars, VolListed, OthersOnlyMake
<1>3. OthersOnlyMake => WhoAsks'
  BY <1>2 DEF VolsInv, WhoAsks
<1>4. VolsSafe'
  BY <1>2 DEF VolsInv, VolsSafe, Safe
<1>5. VolsCome'
  BY <1>2 DEF VolsInv, VolsCome
<1> QED
  BY <1>1, <1>2, <1>3, <1>4, <1>5 DEF VolsInv

(* Every step.                                                             *)
LEMMA NextVols == StkTypeOK /\ VolsInv /\ [StkNext]_<<netVars, volVars, stkVars>> => VolsInv'
<1> SUFFICES ASSUME StkTypeOK, VolsInv, [StkNext]_<<netVars, volVars, stkVars>> PROVE VolsInv'
  OBVIOUS
<1>1. CASE UNCHANGED <<netVars, volVars, stkVars>>
  BY <1>1, StillVols DEF stkVars
<1>2. CASE StkDeploy \/ StkRm \/ StkDie
  BY <1>2, ElseVols, DieVols
<1>3. CASE StkNetwork \/ StkVolume \/ StkService \/ StkPrepare
  BY <1>3, VolumeVols, ElseVols
<1>4. CASE StkContainer \/ StkStop \/ StkRootfs \/ StkDelete
  BY <1>4, ElseVols
<1>5. CASE StkNetworks \/ StkVolumes
  BY <1>5, VolumesVols, ElseVols
<1>6. CASE \E i \in StackCtrs : StkStart(i) \/ StkExit(i) \/ StkRecorded(i)
  BY <1>6, StillVols DEF StkStart, StkExit, StkRecorded, OthersSame
<1>7. CASE \E k \in NetActors : NetStep(k) /\ UNCHANGED <<stkVars, volVars>>
  BY <1>7, StillVols DEF stkVars
<1>8. CASE \E k \in VolActors : (VolRequest(k) \/ VolStep(k)) /\ UNCHANGED <<stkVars, netVars>>
  BY <1>8, RequestVols, StepVols
<1> QED
  BY <1>1, <1>2, <1>3, <1>4, <1>5, <1>6, <1>7, <1>8 DEF StkNext, StkStep

(* Every step keeps all of it.                                             *)
LEMMA StkInvStep == StkInv /\ [StkNext]_<<netVars, volVars, stkVars>> => StkInv'
<1> SUFFICES ASSUME StkInv, [StkNext]_<<netVars, volVars, stkVars>> PROVE StkInv'
  OBVIOUS
<1>1. StkTypeOK
  BY DEF StkInv, CtrInv
<1> QED
  BY <1>1, NextCtr, NextNets, NextVols DEF StkInv

(* And so it always holds.                                                 *)
LEMMA StkAlways == StkSpec => []StkInv
<1>1. NetInit /\ VolInit /\ StkInit => StkInv
  BY CtrStarts, NetsStart, VolsStart DEF StkInv
<1> QED
  BY <1>1, StkInvStep, PTL DEF StkSpec

(* The menus of a behaviour stay what they are.                            *)
LEMMA MenusStay == [StkNext]_<<netVars, volVars, stkVars>> => UNCHANGED <<netMenu, volMenu>>
<1> SUFFICES ASSUME [StkNext]_<<netVars, volVars, stkVars>> PROVE UNCHANGED <<netMenu, volMenu>>
  OBVIOUS
<1>1. netVars' = netVars => netMenu' = netMenu
  BY DEF netVars
<1>2. volVars' = volVars => volMenu' = volMenu
  BY DEF volVars
<1>3. \A c : NetBegin(StackUser, c) => netMenu' = netMenu
  BY DEF NetBegin
<1>4. \A op, n, s : VolBegin(StackUser, op, n, s) => volMenu' = volMenu
  BY DEF VolBegin
<1>5. ASSUME NEW k \in NetActors, NetStep(k) PROVE netMenu' = netMenu
  <2>1. CASE ensureDefaults(k) \/ NetTruncate(k) \/ NetWrite(k) \/ NetCreate(k)
    BY <2>1 DEF ensureDefaults, NetTruncate, NetWrite, NetCreate
  <2>2. CASE NetSubnet(k) \/ NetAlias(k) \/ DeleteForce(k) \/ NetUnname(k)
    BY <2>2 DEF NetSubnet, NetAlias, DeleteForce, NetDeleting, NetUnname
  <2>3. CASE NetUnlink(k) \/ NetPrune(k) \/ Connect(k) \/ Disconnect(k)
    BY <2>3 DEF NetUnlink, NetPrune, Connect, Disconnect, NetUpdating
  <2> QED
    BY <1>5, <2>1, <2>2, <2>3 DEF NetStep
<1>6. ASSUME NEW k \in VolActors, VolRequest(k) \/ VolStep(k) PROVE volMenu' = volMenu
  <2>1. VolRequest(k) => volMenu' = volMenu
    BY DEF VolRequest, AskVolCreate, AskVolRm, AskVolPrune, VolBegin
  <2>2. VolStep(k) => volMenu' = volMenu
    BY DEF VolStep, VolExists, VolMkdir, VolTruncate, VolWrite, VolPrune, VolGet,
           VolRmdir, VolUnlink
  <2> QED
    BY <1>6, <2>1, <2>2
<1>7. CASE UNCHANGED <<netVars, volVars, stkVars>>
  BY <1>1, <1>2, <1>7
<1>8. CASE StkDeploy \/ StkRm \/ StkService \/ StkPrepare \/ StkContainer \/ StkStop \/ StkRootfs
             \/ StkDelete
  BY <1>1, <1>2, <1>8
  DEF StkDeploy, StkRm, StkService, StkPrepare, StkContainer, StkStop, StkRootfs, StkDelete,
      OthersSame
<1>9. CASE StkNetwork \/ StkNetworks
  BY <1>1, <1>2, <1>3, <1>9 DEF StkNetwork, StkNetworks
<1>10. CASE StkVolume \/ StkVolumes
  BY <1>1, <1>2, <1>4, <1>10 DEF StkVolume, StkVolumes, StkRemoving
<1>11. CASE StkDie
  BY <1>11 DEF StkDie
<1>12. CASE \E i \in StackCtrs : StkStart(i) \/ StkExit(i) \/ StkRecorded(i)
  BY <1>1, <1>2, <1>12 DEF StkStart, StkExit, StkRecorded, OthersSame
<1>13. CASE \E k \in NetActors : NetStep(k) /\ UNCHANGED <<stkVars, volVars>>
  BY <1>2, <1>5, <1>13
<1>14. CASE \E k \in VolActors : (VolRequest(k) \/ VolStep(k)) /\ UNCHANGED <<stkVars, netVars>>
  BY <1>1, <1>6, <1>14
<1> QED
  BY <1>7, <1>8, <1>9, <1>10, <1>11, <1>12, <1>13, <1>14 DEF StkNext, StkStep

(* What the invariant says between commands, where networks are called by  *)
(* their names and others only make volumes.                               *)
LEMMA StkSettled == StkInv /\ CalledByName /\ OthersOnlyMake => StackSettled
<1> SUFFICES ASSUME StkInv, CalledByName, OthersOnlyMake
             PROVE  StackSettled
  OBVIOUS
<1> SUFFICES ASSUME stkCall = StkIdle, ~netDied, ~volOverlap
             PROVE  /\ stkLast \in {"deploy", "warned"} =>
                          /\ \A n \in StackNets : NetGet(n) # {}
                          /\ StackVols \subseteq VolListed
                    /\ stkLast = "deploy" =>
                          \A s \in Services : \E i \in StkKept :
                              stkCtr[i].svc = s /\ (s \in Imageless \/ stkCtr[i].rootfs = "full")
                    /\ stkLast = "rm" =>
                          /\ \A i \in Listed : ~netFile[i].stack
                          /\ \A n \in VolListed : ~volFile[n].stack
                          /\ ~stkRan => StkKept = {}
  BY DEF StackSettled
<1>1. stkCall.step = "Idle" /\ ~volDied
  BY DEF StkIdle, StkInv, NetsInv, OnlyStack
<1>2. ASSUME stkLast \in {"deploy", "warned"}, NEW n \in StackNets
      PROVE  NetGet(n) # {}
  <2>1. Target(n) \in Listed
    BY <1>1, <1>2 DEF StkInv, NetsInv, NetsCome
  <2>2. n \in NetNames /\ n \notin Networks /\ n # AliasPrefix
    BY StackAssumption, Distinct DEF Networks
  <2>3. NetGet(n) = {[id |-> i, net |-> netFile[i]] : i \in {j \in Listed : j = Target(n)}}
    BY <2>2 DEF NetGet
  <2> QED
    BY <2>1, <2>3
<1>3. stkLast \in {"deploy", "warned"} => StackVols \subseteq VolListed
  BY <1>1 DEF StkInv, VolsInv, VolsCome
<1>4. stkLast = "deploy" =>
          \A s \in Services : \E i \in StkKept :
              stkCtr[i].svc = s /\ (s \in Imageless \/ stkCtr[i].rootfs = "full")
  BY <1>1 DEF StkInv, CtrInv, CtrsCome, Served
<1>5. stkLast = "rm" =>
          /\ \A i \in Listed : ~netFile[i].stack
          /\ \A n \in VolListed : ~volFile[n].stack
          /\ ~stkRan => StkKept = {}
  BY <1>1 DEF StkInv, CtrInv, CtrsCome, NetsInv, NetsCome, VolsInv, VolsCome
<1> QED
  BY <1>2, <1>3, <1>4, <1>5

(* After a deployment that nobody killed, the networks and volumes of the  *)
(* compose file are found, and without a warning every service has its     *)
(* container, with a root file system where it names an image; after a     *)
(* removal nothing is left that carries the label (cmdStackDeploy,         *)
(* cmdStackRm), whatever is in the compose file, as long as others only    *)
(* make volumes.                                                           *)
THEOREM StacksSettle == StkSpec /\ CalledByName /\ OthersOnlyMake => []StackSettled
<1>1. CalledByName /\ OthersOnlyMake /\ [StkNext]_<<netVars, volVars, stkVars>> =>
          CalledByName' /\ OthersOnlyMake'
  BY MenusStay DEF CalledByName, OthersOnlyMake
<1> QED
  BY <1>1, StkSettled, StkAlways, PTL DEF StkSpec

Spares ==
    \A n \in VolNames :
        (stkCall # StkIdle /\ ~volOverlap /\ n \in VolListed /\ ~volFile[n].stack) =>
            volDir'[n] /\ volFile'[n] # NoRecord

(* No step takes a volume that does not carry the label.                   *)
LEMMA StkSpares ==
    ASSUME StkInv, OthersOnlyMake, [StkNext]_<<netVars, volVars, stkVars>>
    PROVE  Spares
<1> SUFFICES ASSUME ~volOverlap, NEW n \in VolNames, n \in VolListed, ~volFile[n].stack
             PROVE  volDir'[n] /\ volFile'[n] # NoRecord
  BY DEF Spares
<1>1. volDir[n] /\ volFile[n] # NoRecord /\ volFile[n] # Torn /\ VolsInv
  BY VolRecordsAssumption DEF StkInv, VolsInv, VolsSafe, VolListed
<1>2. CASE UNCHANGED <<volFile, volDir>>
  BY <1>1, <1>2
<1>3. ASSUME NEW k \in VolActors, VolStep(k)
      PROVE  volDir'[n] /\ volFile'[n] # NoRecord
  <2>0. PICK c : c = volCall[k]
    OBVIOUS
  <2>1. VolExists(k) \/ VolPrune(k) \/ VolGet(k) => UNCHANGED <<volFile, volDir>>
    BY DEF VolExists, VolPrune, VolGet
  <2>2. ASSUME VolMkdir(k) PROVE volDir'[n] /\ volFile' = volFile
    BY <1>1, <2>2 DEF VolMkdir, VolsInv, VolInv, VolTypeOK
  <2>3. VolTruncate(k) \/ VolWrite(k) \/ VolRmdir(k) \/ VolUnlink(k) => c.id # n
    <3>1. Safe(c) /\ (c.step \in {"Rmdir", "Unlink"} => c.op = "rm")
      BY <1>1, <2>0 DEF VolsInv, VolsSafe, WhoAsks
    <3> QED
      BY <1>1, <2>0, <3>1 DEF Safe, VolTruncate, VolWrite, VolRmdir, VolUnlink
  <2>4. VolTruncate(k) => volFile'[n] = volFile[n] /\ volDir' = volDir
    BY <2>0, <2>3 DEF VolTruncate
  <2>5. VolWrite(k) => volFile'[n] = volFile[n] /\ volDir' = volDir
    BY <1>1, <2>0, <2>3 DEF VolWrite, VolsInv, VolInv, VolTypeOK
  <2>6. VolRmdir(k) => volDir'[n] = volDir[n] /\ volFile' = volFile
    BY <1>1, <2>0, <2>3 DEF VolRmdir, VolsInv, VolInv, VolTypeOK
  <2>7. VolUnlink(k) => volFile'[n] = volFile[n] /\ volDir' = volDir
    BY <1>1, <2>0, <2>3 DEF VolUnlink, VolsInv, VolInv, VolTypeOK
  <2> QED
    BY <1>1, <1>2, <1>3, <2>1, <2>2, <2>4, <2>5, <2>6, <2>7 DEF VolStep
<1>4. ASSUME NEW k \in VolActors, VolRequest(k)
      PROVE  UNCHANGED <<volFile, volDir>>
  BY <1>4 DEF VolRequest, AskVolCreate, AskVolRm, AskVolPrune, VolBegin
<1>5. volVars' = volVars => UNCHANGED <<volFile, volDir>>
  BY DEF volVars
<1>6. CASE StkDeploy \/ StkRm \/ StkService \/ StkPrepare \/ StkContainer \/ StkStop \/ StkRootfs
             \/ StkDelete \/ StkNetwork \/ StkNetworks
  BY <1>2, <1>5, <1>6
  DEF StkDeploy, StkRm, StkService, StkPrepare, StkContainer, StkStop, StkRootfs, StkDelete,
      StkNetwork, StkNetworks, OthersSame
<1>7. CASE StkVolume \/ StkVolumes
  BY <1>2, <1>5, <1>7 DEF StkVolume, StkVolumes, StkRemoving, VolBegin
<1>8. CASE StkDie
  BY <1>2, <1>8 DEF StkDie
<1>9. CASE \E i \in StackCtrs : StkStart(i) \/ StkExit(i) \/ StkRecorded(i)
  BY <1>2, <1>5, <1>9 DEF StkStart, StkExit, StkRecorded, OthersSame
<1>10. CASE \E k \in NetActors : NetStep(k) /\ UNCHANGED <<stkVars, volVars>>
  BY <1>2, <1>5, <1>10
<1>11. CASE \E k \in VolActors : (VolRequest(k) \/ VolStep(k)) /\ UNCHANGED <<stkVars, netVars>>
  BY <1>2, <1>3, <1>4, <1>11
<1>12. CASE UNCHANGED <<netVars, volVars, stkVars>>
  BY <1>2, <1>5, <1>12
<1> QED
  BY <1>6, <1>7, <1>8, <1>9, <1>10, <1>11, <1>12 DEF StkNext, StkStep

(* A removal takes no volume that does not carry the label (cmdStackRm),   *)
(* whoever makes volumes of the same name meanwhile, as long as no call on *)
(* volumes begins before another has ended: what it has listed stays, and  *)
(* what a call is about to remove was listed with the label.               *)
THEOREM OwnSpared == StkSpec /\ OthersOnlyMake => OwnVolumesSpared
<1>1. OthersOnlyMake /\ [StkNext]_<<netVars, volVars, stkVars>> => OthersOnlyMake'
  BY MenusStay DEF OthersOnlyMake
<1>2. StkInv /\ OthersOnlyMake /\ [StkNext]_<<netVars, volVars, stkVars>> =>
          [\A n \in VolNames :
               (stkCall # StkIdle /\ ~volOverlap /\ n \in VolListed /\ ~volFile[n].stack) =>
                   volDir'[n] /\ volFile'[n] # NoRecord]_<<stkVars, volVars>>
  BY StkSpares DEF Spares
<1> QED
  BY <1>1, <1>2, StkAlways, PTL DEF StkSpec, OwnVolumesSpared

-----------------------------------------------------------------------------
(* The parser of compose files.                                            *)

CfKeys == {l.key : l \in Line}

Within(s) == Len(cfPath) > 0 /\ cfPath[1] = s
WithinEntry(s) == Len(cfPath) > 1 /\ cfPath[1] = s /\ cfPath[2] = cfName[s]

(* The state of the parser is that of the keys the next line may be under. *)
StateFits ==
    /\ cfState = "root" => Len(cfPath) = 0 \/ Within("other")
    /\ cfState \in Sections => Len(cfPath) = 1 /\ Within(cfState)
    /\ cfState \in {"service", "service_sub", "deploy"} => WithinEntry("services")
    /\ cfState = "network" => WithinEntry("networks")
    /\ cfState = "volume" => WithinEntry("volumes")
    /\ cfState = "deploy" =>
          /\ Len(cfPath) \in {3, 4} /\ cfPath[3] = "deploy"
          /\ <<"services", cfName["services"], "deploy">> \in cfMeant
    /\ cfState \in {"service", "service_sub"} /\ Len(cfPath) \in {3, 4} => cfPath[3] = cfSub

CfInv == CfTypeOK /\ cfPath \in Seq(CfKeys) /\ StateFits /\ ComposeRead

(* Sequences of few keys, written out.                                     *)
LEMMA TwoKeys ==
    ASSUME NEW S, NEW p \in Seq(S), Len(p) = 2 PROVE p = <<p[1], p[2]>>
<1>1. PICK q : q = <<p[1], p[2]>>
  OBVIOUS
<1>2. p[1] \in S /\ p[2] \in S
  BY ElementOfSeq
<1>3. q \in Seq(S) /\ Len(q) = 2 /\ q[1] = p[1] /\ q[2] = p[2]
  BY <1>1, <1>2
<1>4. \A i \in 1..Len(p) : p[i] = q[i]
  BY <1>3
<1> QED
  BY <1>1, <1>3, <1>4, SeqEqual

(* Three of them.                                                          *)
LEMMA ThreeKeys ==
    ASSUME NEW S, NEW p \in Seq(S), Len(p) = 3 PROVE p = <<p[1], p[2], p[3]>>
<1>1. PICK q : q = <<p[1], p[2], p[3]>>
  OBVIOUS
<1>2. \A i \in 1..Len(p) : p[i] \in S
  BY ElementOfSeq
<1>3. q \in Seq(S) /\ Len(q) = 3 /\ q[1] = p[1] /\ q[2] = p[2] /\ q[3] = p[3]
  BY <1>1, <1>2
<1>4. \A i \in 1..Len(p) : p[i] = q[i]
  BY <1>3
<1> QED
  BY <1>1, <1>3, <1>4, SeqEqual

(* What a line is, by its indentation.                                     *)
LEMMA LineIs ==
    ASSUME NEW l \in Line
    PROVE  \/ l.lvl = 0 /\ l.key \in Sections \cup {"other"} /\ l.head = TRUE /\ l.dash = FALSE
           \/ l.lvl = 2 /\ l.key \in CfNames /\ l.head = TRUE /\ l.dash = FALSE
           \/ /\ l.lvl = 4 /\ l.key \in {"environment", "networks", "deploy", "other"}
              /\ l.head = TRUE /\ l.dash = FALSE
           \/ l.lvl = 4 /\ l.key \in {"image", "external"} /\ l.head = FALSE /\ l.dash = FALSE
           \/ l.lvl = 6 /\ l.head \in BOOLEAN /\ l.dash \in BOOLEAN
           \/ l.lvl = 8 /\ l.head \in BOOLEAN /\ l.dash = FALSE
<1>1. ASSUME NEW n, NEW ks, NEW hs, NEW ds, l \in LineOf(n, ks, hs, ds)
      PROVE  l.lvl = n /\ l.key \in ks /\ l.head \in hs /\ l.dash \in ds
  BY <1>1 DEF LineOf
<1>2. \/ l \in LineOf(0, Sections \cup {"other"}, {TRUE}, {FALSE})
      \/ l \in LineOf(2, CfNames, {TRUE}, {FALSE})
      \/ l \in LineOf(4, {"environment", "networks", "deploy", "other"}, {TRUE}, {FALSE})
      \/ l \in LineOf(4, {"image", "external"}, {FALSE}, {FALSE})
      \/ l \in LineOf(6, CfItems, {FALSE}, {TRUE, FALSE})
      \/ l \in LineOf(6, CfItems, {TRUE}, {FALSE})
      \/ l \in LineOf(6, {"replicas"}, {FALSE}, {FALSE})
      \/ l \in LineOf(8, {"aliases"}, {TRUE, FALSE}, {FALSE})
  BY DEF Line
<1>3. CASE l \in LineOf(0, Sections \cup {"other"}, {TRUE}, {FALSE})
  <2>1. l.lvl = 0 /\ l.key \in Sections \cup {"other"} /\ l.head \in {TRUE} /\ l.dash \in {FALSE}
    BY <1>1, <1>3
  <2>2. l.lvl = 0 /\ l.key \in Sections \cup {"other"} /\ l.head = TRUE /\ l.dash = FALSE
    BY <2>1, Zenon
  <2> QED
    BY <2>2, Zenon
<1>4. CASE l \in LineOf(2, CfNames, {TRUE}, {FALSE})
  <2>1. l.lvl = 2 /\ l.key \in CfNames /\ l.head \in {TRUE} /\ l.dash \in {FALSE}
    BY <1>1, <1>4
  <2>2. l.lvl = 2 /\ l.key \in CfNames /\ l.head = TRUE /\ l.dash = FALSE
    BY <2>1, Zenon
  <2> QED
    BY <2>2, Zenon
<1>5. CASE l \in LineOf(4, {"environment", "networks", "deploy", "other"}, {TRUE}, {FALSE})
  <2>1. /\ l.lvl = 4 /\ l.key \in {"environment", "networks", "deploy", "other"}
        /\ l.head \in {TRUE} /\ l.dash \in {FALSE}
    BY <1>1, <1>5
  <2>2. /\ l.lvl = 4 /\ l.key \in {"environment", "networks", "deploy", "other"}
        /\ l.head = TRUE /\ l.dash = FALSE
    BY <2>1, Zenon
  <2> QED
    BY <2>2, Zenon
<1>6. CASE l \in LineOf(4, {"image", "external"}, {FALSE}, {FALSE})
  <2>1. l.lvl = 4 /\ l.key \in {"image", "external"} /\ l.head \in {FALSE} /\ l.dash \in {FALSE}
    BY <1>1, <1>6
  <2>2. l.lvl = 4 /\ l.key \in {"image", "external"} /\ l.head = FALSE /\ l.dash = FALSE
    BY <2>1, Zenon
  <2> QED
    BY <2>2, Zenon
<1>7. CASE l \in LineOf(6, CfItems, {FALSE}, {TRUE, FALSE})
  <2>1. l.lvl = 6 /\ l.head \in {FALSE} /\ l.dash \in {TRUE, FALSE}
    BY <1>1, <1>7
  <2>2. l.lvl = 6 /\ l.head \in BOOLEAN /\ l.dash \in BOOLEAN
    BY <2>1, Zenon
  <2> QED
    BY <2>2, Zenon
<1>8. CASE l \in LineOf(6, CfItems, {TRUE}, {FALSE})
  <2>1. l.lvl = 6 /\ l.head \in {TRUE} /\ l.dash \in {FALSE}
    BY <1>1, <1>8
  <2>2. l.lvl = 6 /\ l.head \in BOOLEAN /\ l.dash \in BOOLEAN
    BY <2>1, Zenon
  <2> QED
    BY <2>2, Zenon
<1>9. CASE l \in LineOf(6, {"replicas"}, {FALSE}, {FALSE})
  <2>1. l.lvl = 6 /\ l.head \in {FALSE} /\ l.dash \in {FALSE}
    BY <1>1, <1>9
  <2>2. l.lvl = 6 /\ l.head \in BOOLEAN /\ l.dash \in BOOLEAN
    BY <2>1, Zenon
  <2> QED
    BY <2>2, Zenon
<1>10. CASE l \in LineOf(8, {"aliases"}, {TRUE, FALSE}, {FALSE})
  <2>1. l.lvl = 8 /\ l.head \in {TRUE, FALSE} /\ l.dash \in {FALSE}
    BY <1>1, <1>10
  <2>2. l.lvl = 8 /\ l.head \in BOOLEAN /\ l.dash = FALSE
    BY <2>1, Zenon
  <2> QED
    BY <2>2, Zenon
<1> QED
  BY <1>2, <1>3, <1>4, <1>5, <1>6, <1>7, <1>8, <1>9, <1>10

(* The indentation of a line, and whether it can have lines under it.      *)
LEMMA LevelIs ==
    ASSUME NEW l \in Line
    PROVE  /\ l.lvl = 0 \/ l.lvl = 2 \/ l.lvl = 4 \/ l.lvl = 6 \/ l.lvl = 8
           /\ l.head = TRUE \/ l.head = FALSE
           /\ l.head = TRUE /\ l.lvl # 8 => Opens(l)
           /\ l.lvl = 8 => ~Opens(l)
           /\ l.lvl = 4 /\ l.head = FALSE => ~Opens(l)
           /\ l.lvl = 0 => l.key \in Sections \cup {"other"} /\ l.head = TRUE
           /\ l.lvl = 2 => l.key \in CfNames /\ l.head = TRUE
           /\ l.lvl = 4 =>
                 \/ l.key \in {"environment", "networks", "deploy", "other"} /\ l.head = TRUE
                 \/ l.key \in {"image", "external"} /\ l.head = FALSE
<1>1. l.lvl = 0 \/ l.lvl = 2 \/ l.lvl = 4 \/ l.lvl = 6 \/ l.lvl = 8
  BY LineIs, Zenon
<1>2. l.head = TRUE \/ l.head = FALSE
  BY LineIs, Zenon
<1>3. l.head = TRUE /\ l.lvl # 8 => Opens(l)
  <2>1. l.lvl # 8 => l.lvl < 8
    BY <1>1
  <2> QED
    BY <2>1, Zenon DEF Opens
<1>4. l.lvl = 8 => ~Opens(l)
  <2>1. l.lvl = 8 => ~(l.lvl < 8)
    OBVIOUS
  <2> QED
    BY <2>1, Zenon DEF Opens
<1>5. CASE l.lvl = 0
  <2>1. l.lvl # 2 /\ l.lvl # 4 /\ l.lvl # 6 /\ l.lvl # 8
    BY <1>5
  <2>2. l.key \in Sections \cup {"other"} /\ l.head = TRUE
    BY <2>1, LineIs, Zenon
  <2> QED
    BY <1>1, <1>2, <1>3, <1>4, <2>1, <2>2, Zenon
<1>6. CASE l.lvl = 2
  <2>1. l.lvl # 0 /\ l.lvl # 4 /\ l.lvl # 6 /\ l.lvl # 8
    BY <1>6
  <2>2. l.key \in CfNames /\ l.head = TRUE
    BY <2>1, LineIs, Zenon
  <2> QED
    BY <1>1, <1>2, <1>3, <1>4, <2>1, <2>2, Zenon
<1>7. CASE l.lvl = 4
  <2>1. l.lvl # 0 /\ l.lvl # 2 /\ l.lvl # 6 /\ l.lvl # 8
    BY <1>7
  <2>2. \/ l.key \in {"environment", "networks", "deploy", "other"} /\ l.head = TRUE
        \/ l.key \in {"image", "external"} /\ l.head = FALSE
    BY <2>1, LineIs, Zenon
  <2>3. l.dash = FALSE
    BY <2>1, LineIs, Zenon
  <2>4. l.head = FALSE => ~Opens(l)
    BY <2>3, Zenon DEF Opens
  <2> QED
    BY <1>1, <1>2, <1>3, <1>4, <2>1, <2>2, <2>4, Zenon
<1>8. CASE l.lvl = 6 \/ l.lvl = 8
  <2>1. l.lvl # 0 /\ l.lvl # 2 /\ l.lvl # 4
    BY <1>8
  <2> QED
    BY <1>1, <1>2, <1>3, <1>4, <2>1, Zenon
<1> QED
  BY <1>1, <1>5, <1>6, <1>7, <1>8, Zenon

(* The path p of a line that is indented n times is what this leaves of the*)
(* last path, and its key; the next line may be under it.                  *)
PathStep(l, p, n) ==
    /\ p \in Seq(CfKeys) /\ Len(p) = n + 1 /\ p[n + 1] = l.key
    /\ Len(cfPath) >= n /\ \A i \in 1..n : p[i] = cfPath[i]
    /\ cfPath' \in Seq(CfKeys)
    /\ Opens(l) => Len(cfPath') = n + 1
    /\ ~Opens(l) => Len(cfPath') = n
    /\ \A i \in 1..Len(cfPath') : cfPath'[i] = p[i]

(* What a line that can be read does to the path, for its indentation.     *)
LEMMA PathIs ==
    ASSUME cfPath \in Seq(CfKeys), NEW l \in Line, Read(l),
           NEW n \in 0..4, l.lvl = 2 * n, NEW p, p = PathTo(l)
    PROVE  PathStep(l, p, n)
<1>1. l.lvl \div 2 = n
  OBVIOUS
<1>2. Len(cfPath) >= n /\ Len(cfPath) \in Nat
  BY <1>1, LenProperties DEF Read, Placed
<1>3. PICK f : f = SubSeq(cfPath, 1, n)
  OBVIOUS
<1>4. f \in Seq(CfKeys) /\ Len(f) = n /\ \A i \in 1..n : f[i] = cfPath[i]
  <2>1. \A i \in 1..n : cfPath[i] \in CfKeys
    BY <1>2, ElementOfSeq
  <2>2. /\ f \in Seq(CfKeys) /\ Len(f) = IF 1 <= n THEN n - 1 + 1 ELSE 0
        /\ \A i \in 1..(n - 1 + 1) : f[i] = cfPath[1 + i - 1]
    BY <1>3, <2>1, SubSeqProperties
  <2> QED
    BY <2>2
<1>5. p = Append(f, l.key) /\ l.key \in CfKeys
  BY <1>1, <1>3 DEF PathTo, CfKeys
<1>6. /\ p \in Seq(CfKeys) /\ Len(p) = n + 1 /\ p[n + 1] = l.key
      /\ \A i \in 1..n : p[i] = f[i]
  BY <1>4, <1>5
<1>7. PICK g : g = SubSeq(p, 1, n)
  OBVIOUS
<1>8. g \in Seq(CfKeys) /\ Len(g) = n /\ \A i \in 1..n : g[i] = p[i]
  <2>1. \A i \in 1..n : p[i] \in CfKeys
    BY <1>6, ElementOfSeq
  <2>2. /\ g \in Seq(CfKeys) /\ Len(g) = IF 1 <= n THEN n - 1 + 1 ELSE 0
        /\ \A i \in 1..(n - 1 + 1) : g[i] = p[1 + i - 1]
    BY <1>7, <2>1, SubSeqProperties
  <2> QED
    BY <2>2
<1>9. cfPath' = IF Opens(l) THEN p ELSE g
  <2>1. Len(p) - 1 = n
    BY <1>6
  <2> QED
    BY <1>7, <2>1 DEF Read
<1>10. Opens(l) => cfPath' = p
  BY <1>9
<1>11. ~Opens(l) => cfPath' = g
  BY <1>9
<1>12. cfPath' = p \/ cfPath' = g
  BY <1>9
<1>13. cfPath' \in Seq(CfKeys) /\ \A i \in 1..Len(cfPath') : cfPath'[i] = p[i]
  <2>1. CASE cfPath' = p
    BY <1>6, <2>1
  <2>2. CASE cfPath' = g
    BY <1>8, <2>2
  <2> QED
    BY <1>12, <2>1, <2>2
<1>14. Opens(l) => Len(cfPath') = n + 1
  BY <1>6, <1>10
<1>15. ~Opens(l) => Len(cfPath') = n
  BY <1>8, <1>11
<1> QED
  BY <1>2, <1>4, <1>6, <1>13, <1>14, <1>15 DEF PathStep

(* A line that is not indented.                                            *)
LEMMA PathAtRoot ==
    ASSUME cfPath \in Seq(CfKeys), NEW l \in Line, Read(l), l.lvl = 0, l.head = TRUE,
           NEW p, p = PathTo(l)
    PROVE  /\ p \in Seq(CfKeys) /\ Len(p) = 1 /\ p[1] = l.key
           /\ Len(cfPath) >= 0
           /\ Len(cfPath') = 1 /\ cfPath'[1] = l.key
<1>1. PICK n \in 0..4 : n = 0 /\ l.lvl = 2 * n
  OBVIOUS
<1>2. PathStep(l, p, n)
  BY <1>1, PathIs
<1>3. Opens(l)
  <2>1. l.lvl # 8
    OBVIOUS
  <2> QED
    BY <2>1, LevelIs
<1>4. /\ p \in Seq(CfKeys) /\ Len(p) = 1 /\ p[1] = l.key /\ Len(cfPath) >= 0
      /\ Opens(l) => Len(cfPath') = 1
      /\ ~Opens(l) => Len(cfPath') = 0
      /\ \A i \in 1..0 : p[i] = cfPath[i]
      /\ \A i \in 1..Len(cfPath') : cfPath'[i] = p[i]
  BY <1>1, <1>2 DEF PathStep
<1>5. 1 \in 1..Len(cfPath') /\ Len(cfPath') = 1
  BY <1>3, <1>4
<1> QED
  BY <1>4, <1>5

(* The name of a service, network or volume.                               *)
LEMMA PathInSection ==
    ASSUME cfPath \in Seq(CfKeys), NEW l \in Line, Read(l), l.lvl = 2, l.head = TRUE,
           NEW p, p = PathTo(l)
    PROVE  /\ p \in Seq(CfKeys) /\ Len(p) = 2 /\ p[2] = l.key
           /\ Len(cfPath) >= 1 /\ p[1] = cfPath[1]
           /\ Len(cfPath') = 2 /\ cfPath'[1] = cfPath[1] /\ cfPath'[2] = l.key
<1>1. PICK n \in 0..4 : n = 1 /\ l.lvl = 2 * n
  OBVIOUS
<1>2. PathStep(l, p, n)
  BY <1>1, PathIs
<1>3. Opens(l)
  <2>1. l.lvl # 8
    OBVIOUS
  <2> QED
    BY <2>1, LevelIs
<1>4. /\ p \in Seq(CfKeys) /\ Len(p) = 2 /\ p[2] = l.key /\ Len(cfPath) >= 1
      /\ \A i \in 1..1 : p[i] = cfPath[i]
      /\ \A i \in 1..Len(cfPath') : cfPath'[i] = p[i]
  BY <1>1, <1>2 DEF PathStep
<1>5. Len(cfPath') = 2
  BY <1>1, <1>2, <1>3 DEF PathStep
<1>6. \A i \in 1..2 : cfPath'[i] = p[i]
  BY <1>4, <1>5
<1> QED
  BY <1>4, <1>5, <1>6

(* A key of one of them.                                                   *)
LEMMA PathInEntry ==
    ASSUME cfPath \in Seq(CfKeys), NEW l \in Line, Read(l), l.lvl = 4,
           NEW p, p = PathTo(l)
    PROVE  /\ p \in Seq(CfKeys) /\ Len(p) = 3 /\ p[3] = l.key
           /\ Len(cfPath) >= 2 /\ p[1] = cfPath[1] /\ p[2] = cfPath[2]
           /\ l.head = TRUE => Len(cfPath') = 3 /\ cfPath'[3] = l.key
           /\ l.head = FALSE => Len(cfPath') = 2
           /\ cfPath'[1] = cfPath[1] /\ cfPath'[2] = cfPath[2]
<1>1. PICK n \in 0..4 : n = 2 /\ l.lvl = 2 * n
  OBVIOUS
<1>2. PathStep(l, p, n)
  BY <1>1, PathIs
<1>3. (l.head = TRUE => Opens(l)) /\ (l.head = FALSE => ~Opens(l))
  <2>1. l.lvl # 8
    OBVIOUS
  <2> QED
    BY <2>1, LevelIs
<1>4. /\ p \in Seq(CfKeys) /\ Len(p) = 3 /\ p[3] = l.key /\ Len(cfPath) >= 2
      /\ Opens(l) => Len(cfPath') = 3
      /\ ~Opens(l) => Len(cfPath') = 2
      /\ \A i \in 1..2 : p[i] = cfPath[i]
      /\ \A i \in 1..Len(cfPath') : cfPath'[i] = p[i]
  BY <1>1, <1>2 DEF PathStep
<1> QED
  BY <1>3, <1>4

(* What a key holds.                                                       *)
LEMMA PathInList ==
    ASSUME cfPath \in Seq(CfKeys), NEW l \in Line, Read(l), l.lvl = 6,
           NEW p, p = PathTo(l)
    PROVE  /\ Len(p) = 4 /\ p[4] = l.key
           /\ Len(cfPath) >= 3 /\ p[1] = cfPath[1] /\ p[2] = cfPath[2] /\ p[3] = cfPath[3]
           /\ Len(cfPath') \in {3, 4} /\ cfPath'[1] = cfPath[1] /\ cfPath'[2] = cfPath[2]
           /\ cfPath'[3] = cfPath[3]
<1>1. PICK n \in 0..4 : n = 3 /\ l.lvl = 2 * n
  OBVIOUS
<1>2. PathStep(l, p, n)
  BY <1>1, PathIs
<1>3. /\ Len(p) = 4 /\ p[4] = l.key /\ Len(cfPath') \in {3, 4}
      /\ Len(cfPath) >= 3 /\ \A i \in 1..3 : p[i] = cfPath[i]
      /\ \A i \in 1..Len(cfPath') : cfPath'[i] = p[i]
  BY <1>1, <1>2 DEF PathStep
<1> QED
  BY <1>3

(* What an entry of a list holds.                                          *)
LEMMA PathInItem ==
    ASSUME cfPath \in Seq(CfKeys), NEW l \in Line, Read(l), l.lvl = 8,
           NEW p, p = PathTo(l)
    PROVE  /\ Len(p) = 5 /\ p[5] = l.key
           /\ Len(cfPath) >= 4 /\ p[1] = cfPath[1] /\ p[2] = cfPath[2] /\ p[3] = cfPath[3]
           /\ Len(cfPath') \in {3, 4} /\ cfPath'[1] = cfPath[1] /\ cfPath'[2] = cfPath[2]
           /\ cfPath'[3] = cfPath[3]
<1>1. PICK n \in 0..4 : n = 4 /\ l.lvl = 2 * n
  OBVIOUS
<1>2. PathStep(l, p, n)
  BY <1>1, PathIs
<1>3. ~Opens(l)
  BY LevelIs
<1>4. /\ Len(p) = 5 /\ p[5] = l.key /\ Len(cfPath') = 4
      /\ Len(cfPath) >= 4 /\ \A i \in 1..4 : p[i] = cfPath[i]
      /\ \A i \in 1..Len(cfPath') : cfPath'[i] = p[i]
  BY <1>1, <1>2, <1>3 DEF PathStep
<1> QED
  BY <1>4

(* Either of them.                                                         *)
LEMMA PathBelow ==
    ASSUME CfInv, NEW l \in Line, Read(l), l.lvl \in {6, 8}, NEW p, p = PathTo(l)
    PROVE  /\ Len(p) \in {4, 5} /\ p[Len(p)] = l.key /\ Len(cfPath) \in {3, 4}
           /\ p[1] = cfPath[1] /\ p[2] = cfPath[2] /\ p[3] = cfPath[3]
           /\ Len(cfPath') \in {3, 4} /\ cfPath'[1] = cfPath[1] /\ cfPath'[2] = cfPath[2]
           /\ cfPath'[3] = cfPath[3]
<1>1. cfPath \in Seq(CfKeys) /\ Len(cfPath) \in Nat /\ Len(cfPath) <= 4
  BY LenProperties DEF CfInv, CfTypeOK
<1>2. \A k \in Nat : k <= 4 /\ k >= 3 => k \in {3, 4}
  OBVIOUS
<1>3. CASE l.lvl = 6
  <2>1. /\ Len(p) = 4 /\ p[4] = l.key
        /\ Len(cfPath) >= 3 /\ p[1] = cfPath[1] /\ p[2] = cfPath[2] /\ p[3] = cfPath[3]
        /\ Len(cfPath') \in {3, 4} /\ cfPath'[1] = cfPath[1] /\ cfPath'[2] = cfPath[2]
        /\ cfPath'[3] = cfPath[3]
    BY <1>1, <1>3, PathInList
  <2> QED
    BY <1>1, <1>2, <2>1
<1>4. CASE l.lvl = 8
  <2>1. /\ Len(p) = 5 /\ p[5] = l.key
        /\ Len(cfPath) >= 4 /\ p[1] = cfPath[1] /\ p[2] = cfPath[2] /\ p[3] = cfPath[3]
        /\ Len(cfPath') \in {3, 4} /\ cfPath'[1] = cfPath[1] /\ cfPath'[2] = cfPath[2]
        /\ cfPath'[3] = cfPath[3]
    BY <1>1, <1>4, PathInItem
  <2>2. Len(cfPath) >= 3
    BY <1>1, <2>1
  <2> QED
    BY <1>1, <1>2, <2>1, <2>2
<1> QED
  BY <1>3, <1>4

(* A line at a time: its path q is read, is read as another one, or is one *)
(* of those that are lost; and nothing else is read.                       *)
LostWith(q, F) ==
    \/ q[1] = "services" /\ Len(q) > 2 /\ q[3] = "deploy"
    \/ /\ q[1] = "services" /\ Len(q) > 2
       /\ q[3] = "image" /\ <<q[1], q[2], "deploy">> \in cfMeant
    \/ \E p \in F : Misread(p, q)

(* A line that is kept, or lost as ComposeRead says, keeps ComposeRead.    *)
LEMMA ReadOn ==
    ASSUME ComposeRead, NEW l, Read(l), NEW q, q = PathTo(l), NEW F, cfFile' = cfFile \cup F,
           CfKept(q) => q \in F \/ LostWith(q, F),
           \A p \in F : CfKept(q) /\ (p = q \/ Misread(p, q))
    PROVE  ComposeRead'
<1>1. cfMeant' = IF CfKept(q) THEN cfMeant \cup {q} ELSE cfMeant
  BY DEF Read
<1>2. cfMeant \subseteq cfMeant' /\ cfFile \subseteq cfFile'
  BY <1>1
<1>3. ASSUME NEW r \in cfMeant' \ cfFile'
      PROVE  \/ r[1] = "services" /\ Len(r) > 2 /\ r[3] = "deploy"
             \/ /\ r[1] = "services" /\ Len(r) > 2
                /\ r[3] = "image" /\ <<r[1], r[2], "deploy">> \in cfMeant'
             \/ \E p \in cfFile' : Misread(p, r)
  <2>1. CASE r \in cfMeant
    BY <1>2, <1>3, <2>1 DEF ComposeRead, LostWith
  <2>2. CASE r \notin cfMeant
    <3>1. r = q /\ CfKept(q) /\ q \notin F
      BY <1>1, <1>3, <2>2
    <3>2. LostWith(q, F)
      BY <3>1
    <3> QED
      BY <1>2, <3>1, <3>2 DEF LostWith
  <2> QED
    BY <2>1, <2>2
<1>4. ASSUME NEW p \in cfFile' \ cfMeant'
      PROVE  \E r \in cfMeant' : Misread(p, r)
  <2>1. CASE p \in cfFile
    BY <1>2, <1>4, <2>1 DEF ComposeRead
  <2>2. CASE p \notin cfFile
    <3>1. p \in F
      BY <1>4, <2>2
    <3>2. q \in cfMeant' /\ (p = q \/ Misread(p, q))
      BY <1>1, <3>1
    <3> QED
      BY <1>4, <3>2
  <2> QED
    BY <2>1, <2>2
<1> QED
  BY <1>3, <1>4 DEF ComposeRead

(* A line leaves the types and the path as they should be.                 *)
LEMMA LineTyped ==
    ASSUME CfInv, NEW l \in Line, Read(l),
           cfState' \in Sections \cup {"root", "service", "service_sub", "deploy", "network",
                                       "volume"},
           cfName' \in [Sections -> CfNames \cup {"none"}]
    PROVE  CfTypeOK' /\ cfPath' \in Seq(CfKeys)
<1>1. PICK n \in 0..4 : l.lvl = 2 * n
  <2>1. l.lvl = 0 \/ l.lvl = 2 \/ l.lvl = 4 \/ l.lvl = 6 \/ l.lvl = 8
    BY LevelIs
  <2> QED
    BY <2>1
<1>2. PathStep(l, PathTo(l), n)
  BY <1>1, PathIs DEF CfInv
<1>3. cfPath' \in Seq(CfKeys)
  BY <1>2 DEF PathStep
<1>4. Len(cfPath') <= 4
  <2>1. CASE Opens(l)
    <3>1. n \in 0..3
      <4>1. l.lvl # 8
        BY <2>1, LevelIs
      <4> QED
        BY <1>1, <4>1
    <3>2. Len(cfPath') = n + 1
      BY <1>2, <2>1 DEF PathStep
    <3> QED
      <4>1. n + 1 <= 4
        BY <3>1
      <4> QED
        BY <3>2, <4>1
  <2>2. CASE ~Opens(l)
    <3>1. Len(cfPath') = n
      BY <1>2, <2>2 DEF PathStep
    <3> QED
      BY <1>1, <3>1
  <2> QED
    BY <2>1, <2>2
<1>5. cfLines' \in 0..MaxLines
  BY MaxLinesAssumption DEF Read, CfInv, CfTypeOK
<1> QED
  BY <1>3, <1>4, <1>5 DEF CfTypeOK

(* A line that is not indented.                                            *)
LEMMA RootLineInv ==
    ASSUME CfInv, NEW l \in Line, RootLine(l) PROVE CfInv'
<1>1. /\ l.lvl = 0 /\ Read(l)
      /\ cfState' = IF l.key \in Sections THEN l.key ELSE "root"
      /\ UNCHANGED <<cfName, cfSub, cfFile>>
  BY DEF RootLine
<1>2. PICK p : p = PathTo(l)
  OBVIOUS
<1>3. l.key \in Sections \cup {"other"} /\ l.head = TRUE
  BY <1>1, LevelIs
<1>4. cfPath \in Seq(CfKeys)
  BY DEF CfInv
<1>6. Len(p) = 1 /\ p[1] = l.key /\ Len(cfPath') = 1 /\ cfPath'[1] = l.key
  BY <1>1, <1>2, <1>3, <1>4, PathAtRoot
<1>7. CfTypeOK' /\ cfPath' \in Seq(CfKeys)
  BY <1>1, LineTyped DEF CfInv, CfTypeOK
<1>8. ComposeRead'
  <2>1. PICK F : F = {}
    OBVIOUS
  <2>2. ~CfKept(p)
    BY <1>6 DEF CfKept
  <2>3. cfFile' = cfFile \cup F
    BY <1>1, <2>1
  <2>4. \A q \in F : FALSE
    BY <2>1
  <2> QED
    BY <1>1, <1>2, <2>2, <2>3, <2>4, ReadOn DEF CfInv
<1>9. StateFits'
  BY <1>1, <1>3, <1>6 DEF StateFits, Within, WithinEntry, Sections
<1> QED
  BY <1>7, <1>8, <1>9 DEF CfInv

(* The name of a service.                                                  *)
LEMMA ServiceLineInv ==
    ASSUME CfInv, NEW l \in Line, ServiceLine(l) PROVE CfInv'
<1>1. /\ InServices /\ l.lvl = 2 /\ Read(l)
      /\ cfName' = [cfName EXCEPT !["services"] = l.key]
      /\ cfFile' = cfFile \cup {<<"services", l.key>>}
      /\ cfState' = "service" /\ cfSub' = "none"
  BY DEF ServiceLine, Filled
<1>2. PICK p : p = PathTo(l)
  OBVIOUS
<1>3. l.key \in CfNames /\ l.head = TRUE
  BY <1>1, LevelIs
<1>4. cfPath \in Seq(CfKeys) /\ cfName \in [Sections -> CfNames \cup {"none"}]
  BY DEF CfInv, CfTypeOK
<1>5. /\ p \in Seq(CfKeys) /\ Len(p) = 2 /\ p[2] = l.key /\ p[1] = cfPath[1]
      /\ Len(cfPath') = 2 /\ cfPath'[1] = cfPath[1] /\ cfPath'[2] = l.key
  BY <1>1, <1>2, <1>3, <1>4, PathInSection
<1>6. cfPath[1] = "services"
  BY <1>1 DEF CfInv, StateFits, Within, WithinEntry, InServices, Sections
<1>7. p = <<"services", l.key>>
  BY <1>5, <1>6, TwoKeys
<1>8. CfTypeOK' /\ cfPath' \in Seq(CfKeys)
  BY <1>1, <1>3, <1>4, LineTyped DEF Sections
<1>9. ComposeRead'
  <2>1. PICK F : F = {p}
    OBVIOUS
  <2>2. CfKept(p)
    BY <1>5, <1>6 DEF CfKept, Sections
  <2>3. cfFile' = cfFile \cup F
    BY <1>1, <1>7, <2>1
  <2>4. p \in F /\ \A q \in F : q = p
    BY <2>1
  <2> QED
    BY <1>1, <1>2, <2>2, <2>3, <2>4, ReadOn DEF CfInv
<1>10. StateFits'
  <2>1. cfName'["services"] = l.key
    BY <1>1, <1>4 DEF Sections
  <2> QED
    BY <1>1, <1>5, <1>6, <2>1 DEF StateFits, Within, WithinEntry, Sections
<1> QED
  BY <1>8, <1>9, <1>10 DEF CfInv

(* A key of a service.                                                     *)
LEMMA KeyLineInv ==
    ASSUME CfInv, NEW l \in Line, KeyLine(l) PROVE CfInv'
<1>1. /\ InServices /\ cfState # "deploy" /\ l.lvl = 4 /\ Read(l)
      /\ cfSub' = l.key
      /\ cfState' = IF l.key = "deploy" THEN "deploy"
                    ELSE IF l.key \in Lists THEN "service_sub" ELSE "service"
      /\ l.key = "image" => cfFile' = cfFile \cup {<<"services", cfName["services"], "image">>}
      /\ l.key # "image" => cfFile' = cfFile
      /\ UNCHANGED cfName
  BY DEF KeyLine, Filled
<1>2. PICK p : p = PathTo(l)
  OBVIOUS
<1>3. \/ /\ l.key \in {"environment", "networks", "deploy", "other"}
         /\ l.head = TRUE
      \/ l.key \in {"image", "external"} /\ l.head = FALSE
  BY <1>1, LevelIs
<1>4. cfPath \in Seq(CfKeys) /\ cfName \in [Sections -> CfNames \cup {"none"}]
  BY DEF CfInv, CfTypeOK
<1>5. /\ p \in Seq(CfKeys) /\ Len(p) = 3 /\ p[3] = l.key
      /\ Len(cfPath) >= 2 /\ p[1] = cfPath[1] /\ p[2] = cfPath[2]
      /\ l.head = TRUE => Len(cfPath') = 3 /\ cfPath'[3] = l.key
      /\ l.head = FALSE => Len(cfPath') = 2
      /\ cfPath'[1] = cfPath[1] /\ cfPath'[2] = cfPath[2]
  BY <1>1, <1>2, <1>4, PathInEntry
<1>6. cfPath[1] = "services" /\ cfPath[2] = cfName["services"]
  BY <1>1, <1>5 DEF CfInv, StateFits, Within, WithinEntry, InServices, Sections
<1>7. p = <<"services", cfName["services"], l.key>>
  BY <1>5, <1>6, ThreeKeys
<1>8. l.key # "external"
  BY <1>1, <1>6 DEF Read, Placed
<1>9. CfTypeOK' /\ cfPath' \in Seq(CfKeys)
  BY <1>1, <1>4, LineTyped
<1>10. cfMeant' = IF CfKept(p) THEN cfMeant \cup {p} ELSE cfMeant
  BY <1>1, <1>2 DEF Read
<1>11. CfKept(p) <=> l.key \in {"image", "deploy"}
  BY <1>5, <1>8 DEF CfKept
<1>12. ComposeRead'
  <2>1. PICK F : F = IF l.key = "image" THEN {p} ELSE {}
    OBVIOUS
  <2>2. l.key = "image" => <<"services", cfName["services"], "image">> = p
    BY <1>7
  <2>3. cfFile' = cfFile \cup F
    BY <1>1, <2>1, <2>2
  <2>4. (p \in F <=> l.key = "image") /\ \A q \in F : q = p
    BY <2>1
  <2>5. CfKept(p) => p \in F \/ LostWith(p, F)
    BY <1>5, <1>6, <1>11, <2>4 DEF LostWith
  <2>6. \A q \in F : CfKept(p) /\ (q = p \/ Misread(q, p))
    BY <1>11, <2>1, <2>4
  <2> QED
    BY <1>1, <1>2, <2>3, <2>5, <2>6, ReadOn DEF CfInv
<1>13. StateFits'
  <2>1. CASE l.key = "deploy"
    <3>1. /\ cfState' = "deploy" /\ Len(cfPath') = 3 /\ cfPath'[3] = "deploy"
          /\ <<"services", cfName["services"], "deploy">> \in cfMeant'
      BY <1>1, <1>3, <1>5, <1>7, <1>10, <1>11, <2>1
    <3> QED
      BY <1>1, <1>5, <1>6, <3>1 DEF StateFits, Within, WithinEntry, Sections
  <2>2. CASE l.key # "deploy"
    <3>1. /\ cfState' \in {"service", "service_sub"}
          /\ Len(cfPath') = 2 \/ (Len(cfPath') = 3 /\ cfPath'[3] = cfSub')
      BY <1>1, <1>3, <1>5, <2>2
    <3> QED
      BY <1>1, <1>5, <1>6, <3>1 DEF StateFits, Within, WithinEntry, Sections
  <2> QED
    BY <2>1, <2>2
<1> QED
  BY <1>9, <1>12, <1>13 DEF CfInv

(* The line that ends what deploy holds.                                   *)
LEMMA DeployLineInv ==
    ASSUME CfInv, NEW l \in Line, DeployLine(l) PROVE CfInv'
<1>1. /\ cfState = "deploy" /\ l.lvl = 4 /\ Read(l)
      /\ cfSub' = l.key /\ cfState' = "service"
      /\ UNCHANGED <<cfName, cfFile>>
  BY DEF DeployLine
<1>2. PICK p : p = PathTo(l)
  OBVIOUS
<1>3. \/ /\ l.key \in {"environment", "networks", "deploy", "other"}
         /\ l.head = TRUE
      \/ l.key \in {"image", "external"} /\ l.head = FALSE
  BY <1>1, LevelIs
<1>4. cfPath \in Seq(CfKeys) /\ cfName \in [Sections -> CfNames \cup {"none"}]
  BY DEF CfInv, CfTypeOK
<1>5. /\ p \in Seq(CfKeys) /\ Len(p) = 3 /\ p[3] = l.key
      /\ Len(cfPath) >= 2 /\ p[1] = cfPath[1] /\ p[2] = cfPath[2]
      /\ l.head = TRUE => Len(cfPath') = 3 /\ cfPath'[3] = l.key
      /\ l.head = FALSE => Len(cfPath') = 2
      /\ cfPath'[1] = cfPath[1] /\ cfPath'[2] = cfPath[2]
  BY <1>1, <1>2, <1>4, PathInEntry
<1>6. /\ cfPath[1] = "services" /\ cfPath[2] = cfName["services"]
      /\ <<"services", cfName["services"], "deploy">> \in cfMeant
  BY <1>1, <1>5 DEF CfInv, StateFits, WithinEntry
<1>7. l.key # "external"
  BY <1>1, <1>6 DEF Read, Placed
<1>8. CfTypeOK' /\ cfPath' \in Seq(CfKeys)
  BY <1>1, <1>4, LineTyped
<1>9. ComposeRead'
  <2>1. PICK F : F = {}
    OBVIOUS
  <2>2. cfFile' = cfFile \cup F
    BY <1>1, <2>1
  <2>3. CfKept(p) => l.key \in {"image", "deploy"}
    BY <1>5, <1>7 DEF CfKept
  <2>4. <<p[1], p[2], "deploy">> \in cfMeant
    BY <1>5, <1>6
  <2>5. CfKept(p) => p \in F \/ LostWith(p, F)
    BY <1>5, <1>6, <2>3, <2>4 DEF LostWith
  <2>6. \A q \in F : CfKept(p) /\ (q = p \/ Misread(q, p))
    BY <2>1
  <2> QED
    BY <1>1, <1>2, <2>2, <2>5, <2>6, ReadOn DEF CfInv
<1>10. StateFits'
  <2>1. Len(cfPath') = 2 \/ (Len(cfPath') = 3 /\ cfPath'[3] = cfSub')
    BY <1>1, <1>3, <1>5
  <2> QED
    BY <1>1, <1>5, <1>6, <2>1 DEF StateFits, Within, WithinEntry, Sections
<1> QED
  BY <1>8, <1>9, <1>10 DEF CfInv

(* What a key of a service holds, and what that holds.                     *)
LEMMA ItemLineInv ==
    ASSUME CfInv, NEW l \in Line, ItemLine(l) PROVE CfInv'
<1>1. /\ cfState \in {"service", "service_sub"} /\ l.lvl \in {6, 8} /\ Read(l)
      /\ UNCHANGED <<cfState, cfName, cfSub>>
  BY DEF ItemLine
<1>2. PICK q : q = PathTo(l)
  OBVIOUS
<1>3. /\ Len(q) \in {4, 5} /\ q[Len(q)] = l.key /\ Len(cfPath) \in {3, 4}
      /\ q[1] = cfPath[1] /\ q[2] = cfPath[2] /\ q[3] = cfPath[3]
      /\ Len(cfPath') \in {3, 4} /\ cfPath'[1] = cfPath[1] /\ cfPath'[2] = cfPath[2]
      /\ cfPath'[3] = cfPath[3]
  BY <1>1, <1>2, PathBelow
<1>4. cfPath[1] = "services" /\ cfPath[2] = cfName["services"] /\ cfPath[3] = cfSub
  BY <1>1, <1>3 DEF CfInv, StateFits, WithinEntry
<1>5. CfTypeOK' /\ cfPath' \in Seq(CfKeys)
  BY <1>1, LineTyped DEF CfInv, CfTypeOK
<1>6. ComposeRead'
  <2>1. CASE cfSub \notin Lists
    <3>1. PICK F : F = {}
      OBVIOUS
    <3>2. cfFile' = cfFile \cup F
      BY <2>1, <3>1 DEF ItemLine
    <3>3. CfKept(q) => q[1] = "services" /\ Len(q) > 2 /\ q[3] = "deploy"
      BY <1>3, <1>4, <2>1 DEF CfKept
    <3>4. CfKept(q) => q \in F \/ LostWith(q, F)
      BY <3>3 DEF LostWith
    <3>5. \A p \in F : CfKept(q) /\ (p = q \/ Misread(p, q))
      BY <3>1
    <3> QED
      BY <1>1, <1>2, <3>2, <3>4, <3>5, ReadOn DEF CfInv
  <2>2. CASE cfSub \in Lists
    <3>1. PICK f : /\ cfFile' = cfFile \cup {f}
                   /\ \/ f = <<"services", cfName["services"], cfSub, l.key, ":">>
                      \/ f = <<"services", cfName["services"], cfSub, l.key>>
      BY <2>2 DEF ItemLine, Filled
    <3>2. Misread(f, q)
      BY <1>3, <1>4, <2>2, <3>1 DEF Misread
    <3>3. CfKept(q)
      BY <1>3, <1>4, <2>2 DEF CfKept
    <3>4. PICK F : F = {f}
      OBVIOUS
    <3>5. LostWith(q, F)
      BY <3>2, <3>4 DEF LostWith
    <3>6. cfFile' = cfFile \cup F /\ \A p \in F : CfKept(q) /\ (p = q \/ Misread(p, q))
      BY <3>1, <3>2, <3>3, <3>4
    <3> QED
      BY <1>1, <1>2, <3>5, <3>6, ReadOn DEF CfInv
  <2> QED
    BY <2>1, <2>2
<1>7. StateFits'
  BY <1>1, <1>3, <1>4 DEF StateFits, Within, WithinEntry, Sections
<1> QED
  BY <1>5, <1>6, <1>7 DEF CfInv

(* A network or a volume, and its keys.                                    *)
LEMMA SectionLineInv ==
    ASSUME CfInv, NEW l \in Line, NEW section, NEW entry,
           <<section, entry>> \in {<<"networks", "network">>, <<"volumes", "volume">>},
           SectionLine(l, section, entry)
    PROVE  CfInv'
<1>1. /\ cfState \in {section, entry} /\ Read(l)
      /\ \/ /\ l.lvl = 2
            /\ cfName' = [cfName EXCEPT ![section] = l.key]
            /\ cfFile' = cfFile \cup {<<section, l.key>>}
            /\ cfState' = entry
         \/ /\ l.lvl = 4 /\ UNCHANGED <<cfState, cfName>>
            /\ l.key = "external" => cfFile' = cfFile \cup {<<section, cfName[section], l.key>>}
            /\ l.key # "external" => cfFile' = cfFile
      /\ UNCHANGED cfSub
  BY DEF SectionLine, Filled
<1>2. PICK p : p = PathTo(l)
  OBVIOUS
<1>3. cfPath \in Seq(CfKeys) /\ cfName \in [Sections -> CfNames \cup {"none"}]
  BY DEF CfInv, CfTypeOK
<1>4. \/ section = "networks" /\ entry = "network"
      \/ section = "volumes" /\ entry = "volume"
  OBVIOUS
<1>5. section \in Sections /\ section \notin {"services", "other"} /\ cfPath[1] = section
  BY <1>1, <1>4 DEF CfInv, StateFits, Within, WithinEntry, Sections
<1>6. PICK F : F = {p}
  OBVIOUS
<1>7. p \in F /\ \A q \in F : q = p
  BY <1>6
<1>8. CASE l.lvl = 2
  <2>1. /\ cfName' = [cfName EXCEPT ![section] = l.key] /\ cfState' = entry
        /\ cfFile' = cfFile \cup {<<section, l.key>>}
    BY <1>1, <1>8
  <2>2. l.key \in CfNames /\ l.head = TRUE
    BY <1>8, LevelIs
  <2>3. /\ p \in Seq(CfKeys) /\ Len(p) = 2 /\ p[2] = l.key /\ p[1] = cfPath[1]
        /\ Len(cfPath') = 2 /\ cfPath'[1] = cfPath[1] /\ cfPath'[2] = l.key
    BY <1>1, <1>2, <1>3, <1>8, <2>2, PathInSection
  <2>4. p = <<section, l.key>>
    BY <1>5, <2>3, TwoKeys
  <2>5. CfTypeOK' /\ cfPath' \in Seq(CfKeys)
    BY <1>1, <1>3, <1>4, <2>1, <2>2, LineTyped
  <2>6. ComposeRead'
    <3>1. CfKept(p)
      BY <1>5, <2>3 DEF CfKept
    <3>2. cfFile' = cfFile \cup F
      BY <1>6, <2>1, <2>4
    <3> QED
      BY <1>1, <1>2, <1>7, <3>1, <3>2, ReadOn DEF CfInv
  <2>7. StateFits'
    <3>1. cfName'[section] = l.key
      BY <1>3, <1>5, <2>1
    <3> QED
      BY <1>4, <1>5, <2>1, <2>3, <3>1 DEF StateFits, Within, WithinEntry, Sections
  <2> QED
    BY <2>5, <2>6, <2>7 DEF CfInv
<1>9. CASE l.lvl = 4
  <2>1. /\ UNCHANGED <<cfState, cfName, cfSub>>
        /\ l.key = "external" => cfFile' = cfFile \cup {<<section, cfName[section], l.key>>}
        /\ l.key # "external" => cfFile' = cfFile
    BY <1>1, <1>9
  <2>2. l.key \in {"external", "other"}
    BY <1>1, <1>5, <1>9 DEF Read, Placed
  <2>3. l.head = TRUE \/ l.head = FALSE
    BY LevelIs
  <2>4. /\ p \in Seq(CfKeys) /\ Len(p) = 3 /\ p[3] = l.key
        /\ Len(cfPath) >= 2 /\ p[1] = cfPath[1] /\ p[2] = cfPath[2]
        /\ Len(cfPath') \in {2, 3} /\ cfPath'[1] = cfPath[1] /\ cfPath'[2] = cfPath[2]
    BY <1>1, <1>2, <1>3, <1>9, <2>3, PathInEntry
  <2>5. cfState = entry /\ cfPath[2] = cfName[section]
    BY <1>1, <1>4, <2>4 DEF CfInv, StateFits, WithinEntry, Sections
  <2>6. p = <<section, cfName[section], l.key>>
    BY <1>5, <2>4, <2>5, ThreeKeys
  <2>7. CfTypeOK' /\ cfPath' \in Seq(CfKeys)
    BY <1>1, <1>3, <2>1, LineTyped DEF CfInv, CfTypeOK
  <2>8. ComposeRead'
    <3>1. CASE l.key = "external"
      <4>1. CfKept(p)
        BY <2>4, <3>1 DEF CfKept
      <4>2. cfFile' = cfFile \cup F
        BY <1>6, <2>1, <2>6, <3>1
      <4> QED
        BY <1>1, <1>2, <1>7, <4>1, <4>2, ReadOn DEF CfInv
    <3>2. CASE l.key = "other"
      <4>1. ~CfKept(p)
        BY <2>4, <3>2 DEF CfKept
      <4>2. PICK G : G = {}
        OBVIOUS
      <4>3. cfFile' = cfFile \cup G
        BY <2>1, <3>2, <4>2
      <4>4. \A q \in G : FALSE
        BY <4>2
      <4> QED
        BY <1>1, <1>2, <4>1, <4>3, <4>4, ReadOn DEF CfInv
    <3> QED
      BY <2>2, <3>1, <3>2
  <2>9. StateFits'
    BY <1>4, <1>5, <2>1, <2>4, <2>5 DEF StateFits, Within, WithinEntry, Sections
  <2> QED
    BY <2>7, <2>8, <2>9 DEF CfInv
<1> QED
  BY <1>1, <1>8, <1>9

(* A line that is passed over: all of them are below a section that is not *)
(* read, below deploy, or below a key of a network or a volume.            *)
LEMMA SkippedLineInv ==
    ASSUME CfInv, NEW l \in Line, SkippedLine(l) PROVE CfInv'
<1>1. /\ Read(l)
      /\ \/ cfState \in {"deploy", "network", "volume"} /\ l.lvl \in {6, 8}
         \/ cfState = "root" /\ l.lvl > 0
      /\ UNCHANGED <<cfState, cfName, cfSub, cfFile>>
  BY DEF SkippedLine
<1>2. PICK p : p = PathTo(l)
  OBVIOUS
<1>3. cfPath \in Seq(CfKeys) /\ Len(cfPath) \in Nat /\ Len(cfPath) <= 4
  BY LenProperties DEF CfInv, CfTypeOK
<1>4. CfTypeOK' /\ cfPath' \in Seq(CfKeys)
  BY <1>1, LineTyped DEF CfInv, CfTypeOK
<1>5. ASSUME CfKept(p) => LostWith(p, {}) PROVE ComposeRead'
  <2>1. PICK F : F = {}
    OBVIOUS
  <2>2. cfFile' = cfFile \cup F
    BY <1>1, <2>1
  <2>3. CfKept(p) => p \in F \/ LostWith(p, F)
    BY <1>5, <2>1
  <2>4. \A q \in F : CfKept(p) /\ (q = p \/ Misread(q, p))
    BY <2>1
  <2> QED
    BY <1>1, <1>2, <2>2, <2>3, <2>4, ReadOn DEF CfInv
<1>6. CASE cfState \in {"deploy", "network", "volume"} /\ l.lvl \in {6, 8}
  <2>1. /\ Len(p) \in {4, 5} /\ p[1] = cfPath[1] /\ p[3] = cfPath[3]
        /\ Len(cfPath') \in {3, 4} /\ cfPath'[1] = cfPath[1] /\ cfPath'[2] = cfPath[2]
        /\ cfPath'[3] = cfPath[3]
    BY <1>1, <1>2, <1>6, PathBelow
  <2>2. cfMeant \subseteq cfMeant'
    BY <1>1 DEF Read
  <2>3. CASE cfState = "deploy"
    <3>1. /\ cfPath[1] = "services" /\ cfPath[2] = cfName["services"] /\ cfPath[3] = "deploy"
          /\ <<"services", cfName["services"], "deploy">> \in cfMeant
      BY <2>3 DEF CfInv, StateFits, WithinEntry
    <3>2. LostWith(p, {})
      BY <2>1, <3>1 DEF LostWith
    <3>3. StateFits'
      BY <1>1, <2>1, <2>2, <2>3, <3>1 DEF StateFits, Within, WithinEntry, Sections
    <3> QED
      BY <1>4, <1>5, <3>2, <3>3 DEF CfInv
  <2>4. CASE cfState \in {"network", "volume"}
    <3>1. /\ cfState = "network" => WithinEntry("networks")
          /\ cfState = "volume" => WithinEntry("volumes")
      BY DEF CfInv, StateFits
    <3>2. cfPath[1] # "services"
      BY <2>4, <3>1 DEF WithinEntry
    <3>3. ~CfKept(p)
      BY <2>1, <3>2 DEF CfKept
    <3>4. StateFits'
      BY <1>1, <2>1, <2>4, <3>1 DEF StateFits, Within, WithinEntry, Sections
    <3> QED
      BY <1>4, <1>5, <3>3, <3>4 DEF CfInv
  <2> QED
    BY <1>6, <2>3, <2>4
<1>7. CASE cfState = "root" /\ l.lvl > 0
  <2>1. Len(cfPath) > 0 => cfPath[1] = "other"
    BY <1>3, <1>7 DEF CfInv, StateFits, Within
  <2>2. ASSUME ~CfKept(p), cfPath'[1] = "other", Len(cfPath') > 0 PROVE CfInv'
    <3>1. StateFits'
      BY <1>1, <1>7, <2>2 DEF StateFits, Within, WithinEntry, Sections
    <3> QED
      BY <1>4, <1>5, <2>2, <3>1 DEF CfInv
  <2>3. CASE l.lvl = 2
    <3>1. /\ Len(p) = 2 /\ Len(cfPath) >= 1 /\ p[1] = cfPath[1]
          /\ Len(cfPath') = 2 /\ cfPath'[1] = cfPath[1]
      BY <1>1, <1>2, <1>3, <2>3, LevelIs, PathInSection
    <3>2. cfPath[1] = "other"
      BY <1>3, <2>1, <3>1
    <3>3. ~CfKept(p)
      BY <3>1, <3>2 DEF CfKept, Sections
    <3> QED
      BY <2>2, <3>1, <3>2, <3>3
  <2>4. CASE l.lvl = 4
    <3>1. /\ Len(p) = 3 /\ p[3] = l.key /\ Len(cfPath) >= 2 /\ p[1] = cfPath[1]
          /\ l.head = TRUE => Len(cfPath') = 3
          /\ l.head = FALSE => Len(cfPath') = 2
          /\ cfPath'[1] = cfPath[1]
      BY <1>1, <1>2, <1>3, <2>4, PathInEntry
    <3>2. cfPath[1] = "other"
      BY <1>3, <2>1, <3>1
    <3>3. l.key = "other"
      BY <1>1, <2>4, <3>2 DEF Read, Placed
    <3>4. ~CfKept(p)
      BY <3>1, <3>3 DEF CfKept
    <3>5. Len(cfPath') > 0
      BY <3>1, LevelIs
    <3> QED
      BY <2>2, <3>1, <3>2, <3>4, <3>5
  <2>5. CASE l.lvl = 6 \/ l.lvl = 8
    <3>1. /\ Len(p) \in {4, 5} /\ Len(cfPath) \in {3, 4} /\ p[1] = cfPath[1]
          /\ Len(cfPath') \in {3, 4} /\ cfPath'[1] = cfPath[1]
      BY <1>1, <1>2, <2>5, PathBelow
    <3>2. cfPath[1] = "other" /\ Len(cfPath') > 0
      BY <2>1, <3>1
    <3>3. ~CfKept(p)
      BY <3>1, <3>2 DEF CfKept
    <3> QED
      BY <2>2, <3>1, <3>2, <3>3
  <2>6. l.lvl = 0 \/ l.lvl = 2 \/ l.lvl = 4 \/ l.lvl = 6 \/ l.lvl = 8
    BY LevelIs
  <2> QED
    BY <1>7, <2>3, <2>4, <2>5, <2>6
<1> QED
  BY <1>1, <1>6, <1>7

(* It holds before the first line.                                         *)
LEMMA CfInvStarts == CfInit => CfInv
<1> SUFFICES ASSUME CfInit PROVE CfInv
  OBVIOUS
<1>1. cfPath = <<>> /\ cfPath \in Seq(CfKeys) /\ Len(cfPath) = 0
  BY DEF CfInit
<1>2. cfState = "root" /\ cfFile = {} /\ cfMeant = {} /\ cfLines = 0
  BY DEF CfInit
<1>3. CfTypeOK
  BY <1>1, <1>2, MaxLinesAssumption DEF CfInit, CfTypeOK
<1>4. StateFits /\ ComposeRead
  BY <1>1, <1>2 DEF StateFits, ComposeRead, Sections
<1> QED
  BY <1>1, <1>3, <1>4 DEF CfInv

(* Every line keeps the invariant.                                         *)
LEMMA CfInvStep == CfInv /\ [CfNext]_cfVars => CfInv'
<1> SUFFICES ASSUME CfInv, [CfNext]_cfVars PROVE CfInv'
  OBVIOUS
<1>1. ASSUME NEW l \in Line, CfLine(l) PROVE CfInv'
  <2>1. CASE NetLine(l)
    BY <2>1, SectionLineInv DEF NetLine
  <2>2. CASE VolLine(l)
    BY <2>2, SectionLineInv DEF VolLine
  <2> QED
    BY <1>1, <2>1, <2>2, RootLineInv, ServiceLineInv, KeyLineInv, DeployLineInv, ItemLineInv,
       SkippedLineInv DEF CfLine
<1>2. CASE UNCHANGED cfVars
  BY <1>2 DEF cfVars, CfInv, CfTypeOK, StateFits, Within, WithinEntry, ComposeRead
<1> QED
  BY <1>1, <1>2 DEF CfNext

(* What has been read of a compose file is what it says, but for what      *)
(* ComposeRead names; for any names, and files of any length.              *)
THEOREM FilesAreRead == CfSpec => []ComposeRead
<1>1. CfInv => ComposeRead
  BY DEF CfInv
<1> QED
  BY <1>1, CfInvStarts, CfInvStep, PTL DEF CfSpec

(* The state of the parser, whatever the file says.                        *)
THEOREM ParserTyped == CfSpec => []CfTypeOK
<1>1. CfInv => CfTypeOK
  BY DEF CfInv
<1> QED
  BY <1>1, CfInvStarts, CfInvStep, PTL DEF CfSpec

-----------------------------------------------------------------------------
(* All resources together.  The component at work takes its own steps, and *)
(* those of stacks are steps of networks and volumes: what each component  *)
(* keeps by itself is kept.                                                *)

ResInv ==
    /\ focus \in Focuses
    /\ NetInv /\ VolInv /\ ImgInv /\ CtrInv /\ RfInv /\ CfInv /\ RefTypeOK
    /\ IF focus = "stacks" THEN StkInv ELSE stkCall = StkIdle /\ stkLast = "none"

(* It holds at first, of every menu.                                       *)
LEMMA ResInvStarts == ResInit => ResInv
<1> SUFFICES ASSUME ResInit PROVE ResInv
  OBVIOUS
<1>1. NetInit /\ VolInit /\ StkInit /\ ImgInit /\ RfInit /\ CfInit /\ RefInit /\ focus \in Focuses
  BY DEF ResInit
<1>2. NetInv /\ VolInv /\ ImgInv /\ CtrInv /\ RfInv /\ CfInv
  BY <1>1, NetStarts, VolInitInv, ImgInvStarts, CtrStarts, RfInvStarts, CfInvStarts
<1>3. RefTypeOK
  BY <1>1 DEF RefInit, RefTypeOK
<1>4. StkInv
  BY <1>1, CtrStarts, NetsStart, VolsStart DEF StkInv
<1>5. stkCall = StkIdle /\ stkLast = "none"
  BY <1>1 DEF StkInit
<1> QED
  BY <1>1, <1>2, <1>3, <1>4, <1>5 DEF ResInv

(* A component that stands still keeps its invariant.                      *)
LEMMA StillInv ==
    /\ NetInv /\ UNCHANGED netVars => NetInv'
    /\ VolInv /\ UNCHANGED volVars => VolInv'
    /\ CtrInv /\ UNCHANGED stkVars => CtrInv'
    /\ ImgInv /\ UNCHANGED imgVars => ImgInv'
    /\ RfInv /\ UNCHANGED rfVars => RfInv'
    /\ CfInv /\ UNCHANGED cfVars => CfInv'
    /\ RefTypeOK /\ UNCHANGED refPulled => RefTypeOK'
<1>1. NetInv /\ UNCHANGED netVars => NetInv'
  BY NextNet
<1>2. VolInv /\ UNCHANGED volVars => VolInv'
  BY VolNextInv
<1>3. CtrInv /\ UNCHANGED stkVars => CtrInv'
  BY CtrStill
<1>4. ImgInv /\ UNCHANGED imgVars => ImgInv'
  BY ImgInvStep
<1>5. RfInv /\ UNCHANGED rfVars => RfInv'
  BY RfInvStep
<1>6. CfInv /\ UNCHANGED cfVars => CfInv'
  BY CfInvStep
<1>7. RefTypeOK /\ UNCHANGED refPulled => RefTypeOK'
  BY RefTypedStep
<1> QED
  BY <1>1, <1>2, <1>3, <1>4, <1>5, <1>6, <1>7

(* Whatever component is at work, it keeps its invariant.                  *)
LEMMA ResInvStep == ResInv /\ [ResNext]_resVars => ResInv'
<1> SUFFICES ASSUME ResInv, [ResNext]_resVars PROVE ResInv'
  OBVIOUS
<1> DEFINE IdleStack == stkCall = StkIdle /\ stkLast = "none"
<1>1. /\ NetInv /\ VolInv /\ ImgInv /\ CtrInv /\ RfInv /\ CfInv /\ RefTypeOK
      /\ focus \in Focuses
      /\ focus = "stacks" => StkInv
      /\ focus # "stacks" => IdleStack
  BY DEF ResInv
<1>2. IdleStack /\ UNCHANGED stkVars => IdleStack'
  BY DEF stkVars
<1> HIDE DEF IdleStack
<1>3. SUFFICES /\ NetInv' /\ VolInv' /\ ImgInv' /\ CtrInv' /\ RfInv' /\ CfInv' /\ RefTypeOK'
               /\ focus' = focus
               /\ focus = "stacks" => StkInv'
               /\ focus # "stacks" => IdleStack'
  BY <1>1 DEF ResInv, IdleStack
<1>4. CASE UNCHANGED resVars
  <2>1. /\ UNCHANGED netVars /\ UNCHANGED volVars /\ UNCHANGED imgVars /\ UNCHANGED stkVars
        /\ UNCHANGED rfVars /\ UNCHANGED cfVars /\ UNCHANGED refPulled /\ focus' = focus
    BY <1>4 DEF resVars
  <2>2. StkInv => StkInv'
    BY <2>1, StkInvStep
  <2> QED
    BY <1>1, <1>2, <2>1, <2>2, StillInv
<1>5. CASE /\ focus' = focus /\ focus = "networks" /\ NetNext /\ UNCHANGED <<volVars, stkVars>>
           /\ ImagesStill /\ FilesStill
  <2>1. /\ UNCHANGED volVars /\ UNCHANGED imgVars /\ UNCHANGED stkVars
        /\ UNCHANGED rfVars /\ UNCHANGED cfVars /\ UNCHANGED refPulled /\ focus # "stacks"
    BY <1>5 DEF ImagesStill, FilesStill
  <2>2. NetInv'
    BY <1>1, <1>5, NextNet
  <2> QED
    BY <1>1, <1>2, <1>5, <2>1, <2>2, StillInv
<1>6. CASE /\ focus' = focus /\ focus = "volumes" /\ VolNext /\ UNCHANGED <<netVars, stkVars>>
           /\ ImagesStill /\ FilesStill
  <2>1. /\ UNCHANGED netVars /\ UNCHANGED imgVars /\ UNCHANGED stkVars
        /\ UNCHANGED rfVars /\ UNCHANGED cfVars /\ UNCHANGED refPulled /\ focus # "stacks"
    BY <1>6 DEF ImagesStill, FilesStill
  <2>2. VolInv'
    BY <1>1, <1>6, VolNextInv
  <2> QED
    BY <1>1, <1>2, <1>6, <2>1, <2>2, StillInv
<1>7. CASE focus' = focus /\ focus = "stacks" /\ StkNext /\ ImagesStill /\ FilesStill
  <2>1. /\ UNCHANGED imgVars /\ UNCHANGED rfVars /\ UNCHANGED cfVars /\ UNCHANGED refPulled
    BY <1>7 DEF ImagesStill, FilesStill
  <2>2. StkInv'
    BY <1>1, <1>7, StkInvStep
  <2>3. NetInv' /\ VolInv' /\ CtrInv'
    BY <2>2 DEF StkInv, NetsInv, VolsInv
  <2> QED
    BY <1>1, <1>7, <2>1, <2>2, <2>3, StillInv
<1>8. CASE /\ focus' = focus /\ focus = "images" /\ ImgNext
           /\ StacksStill /\ FilesStill /\ UNCHANGED refPulled
  <2>1. /\ UNCHANGED netVars /\ UNCHANGED volVars /\ UNCHANGED stkVars
        /\ UNCHANGED rfVars /\ UNCHANGED cfVars /\ focus # "stacks"
    BY <1>8 DEF StacksStill, FilesStill
  <2>2. ImgInv'
    BY <1>1, <1>8, ImgInvStep
  <2> QED
    BY <1>1, <1>2, <1>8, <2>1, <2>2, StillInv
<1>9. CASE /\ focus' = focus /\ focus = "references" /\ RefNext
           /\ StacksStill /\ FilesStill /\ UNCHANGED imgVars
  <2>1. /\ UNCHANGED netVars /\ UNCHANGED volVars /\ UNCHANGED stkVars
        /\ UNCHANGED rfVars /\ UNCHANGED cfVars /\ focus # "stacks"
    BY <1>9 DEF StacksStill, FilesStill
  <2>2. RefTypeOK'
    BY <1>1, <1>9, RefTypedStep
  <2> QED
    BY <1>1, <1>2, <1>9, <2>1, <2>2, StillInv
<1>10. CASE /\ focus' = focus /\ focus = "rootfs" /\ RfNext
            /\ StacksStill /\ ImagesStill /\ UNCHANGED cfVars
  <2>1. /\ UNCHANGED netVars /\ UNCHANGED volVars /\ UNCHANGED stkVars
        /\ UNCHANGED imgVars /\ UNCHANGED refPulled /\ focus # "stacks"
    BY <1>10 DEF StacksStill, ImagesStill
  <2>2. RfInv'
    BY <1>1, <1>10, RfInvStep
  <2> QED
    BY <1>1, <1>2, <1>10, <2>1, <2>2, StillInv
<1>11. CASE /\ focus' = focus /\ focus = "compose" /\ CfNext
            /\ StacksStill /\ ImagesStill /\ UNCHANGED rfVars
  <2>1. /\ UNCHANGED netVars /\ UNCHANGED volVars /\ UNCHANGED stkVars
        /\ UNCHANGED imgVars /\ UNCHANGED refPulled /\ focus # "stacks"
    BY <1>11 DEF StacksStill, ImagesStill
  <2>2. CfInv'
    BY <1>1, <1>11, CfInvStep
  <2> QED
    BY <1>1, <1>2, <1>11, <2>1, <2>2, StillInv
<1> QED
  BY <1>4, <1>5, <1>6, <1>7, <1>8, <1>9, <1>10, <1>11 DEF ResNext

(* And so it always holds.                                                 *)
LEMMA ResAlways == ResSpec => []ResInv
BY ResInvStarts, ResInvStep, PTL DEF ResSpec

(* Whatever component is at work, all of them keep to their types.         *)
THEOREM ResourcesTyped == ResSpec => []ResTypeOK
<1>1. ResInv => ResTypeOK
  BY DEF ResInv, ResTypeOK, NetInv, VolInv, ImgInv, ImgTyped, CtrInv, RfInv, RfTyped, CfInv
<1> QED
  BY <1>1, ResAlways, PTL

(* What holds of each component by itself holds of all of them together,   *)
(* the commands of stacks on networks and volumes included.                *)
THEOREM ResourcesKeepTheirs ==
    ResSpec => [](/\ NamesLeadHome /\ NetworksApart /\ NetworksFound /\ EndpointsSpared
                  /\ VolumesWhole /\ ImagesComplete /\ OneContainerEach
                  /\ RootfsComplete /\ ComposeRead /\ ReferencesTold)
<1>1. ResInv => NamesLeadHome /\ NetworksApart /\ NetworksFound /\ EndpointsSpared
  BY NetShows DEF ResInv
<1>2. ResInv => VolumesWhole /\ ImagesComplete /\ RootfsComplete /\ ReferencesTold
  BY VolShows, InvComplete, RfInvTells, TypedTells DEF ResInv
<1>3. ResInv => OneContainerEach /\ ComposeRead
  BY DEF ResInv, CtrInv, CfInv
<1> QED
  BY <1>1, <1>2, <1>3, ResAlways, PTL

(* No command of a stack connects a container: addresses that were asked   *)
(* for are kept among stacks as well.                                      *)
THEOREM ResourcesKeepAsked == ResSpec => AskedIsKept
<1>1. ResInv /\ [ResNext]_resVars =>
        [\A k \in NetActors, i \in Networks :
          (netCall[k].step = "Connect" /\ netCall'[k].step = "Truncate" /\ netCall'[k].id = i) =>
              \A e, f \in netCall'[k].copy.ends :
                  (e.ip.bare /\ ~f.ip.bare /\ f \notin netFile[i].ends) =>
                      e.ip # [f.ip EXCEPT !.bare = TRUE]]_netVars
  <2> SUFFICES ASSUME ResInv, ResNext, netVars' # netVars
               PROVE
        \A k \in NetActors, i \in Networks :
          (netCall[k].step = "Connect" /\ netCall'[k].step = "Truncate" /\ netCall'[k].id = i) =>
              \A e, f \in netCall'[k].copy.ends :
                  (e.ip.bare /\ ~f.ip.bare /\ f \notin netFile[i].ends) =>
                      e.ip # [f.ip EXCEPT !.bare = TRUE]
    BY DEF resVars
  <2>1. NetNext \/ focus = "stacks"
    BY DEF ResNext, StacksStill
  <2>2. CASE NetNext
    <3>1. NetInv /\ [NetNext]_netVars
      BY <2>2 DEF ResInv
    <3> QED
      BY <3>1, AskedStep
  <2>3. CASE focus = "stacks"
    <3>1. ASSUME NEW k \in NetActors PROVE netCall[k].step # "Connect"
      <4>1. OnlyStack /\ NetShaped(netCall[k])
        BY <2>3 DEF ResInv, StkInv, NetsInv, NetInv, NetShapes
      <4>2. CASE netCall[k] = NetIdle
        BY <4>2 DEF NetIdle
      <4>3. CASE netCall[k] # NetIdle
        BY <4>1, <4>3 DEF OnlyStack, AskShaped, Asks, NetShaped
      <4> QED
        BY <4>2, <4>3
    <3> QED
      BY <3>1
  <2> QED
    BY <2>1, <2>2, <2>3
<1> QED
  BY <1>1, ResAlways, PTL DEF ResSpec, AskedIsKept

\* Networks are called by their names, and others only make volumes.
MenusOfStacks ==
    /\ StackNetMenus # {} /\ \A m \in StackNetMenus : AliasPrefix \notin m.refs
    /\ StackVolMenus # {} /\ \A m \in StackVolMenus : m.ops \subseteq {"create"}

StacksAsMeant == focus = "stacks" => CalledByName /\ OthersOnlyMake

(* The menus of a behaviour of stacks are those that are meant for it.     *)
LEMMA MeantAlways ==
    ASSUME MenusOfStacks
    PROVE  ResSpec => []StacksAsMeant
<1>1. ResInit => StacksAsMeant
  BY DEF ResInit, MenusOf, MenusOfStacks, StacksAsMeant, CalledByName, OthersOnlyMake
<1>2. StacksAsMeant /\ [ResNext]_resVars => StacksAsMeant'
  <2> SUFFICES ASSUME StacksAsMeant, [ResNext]_resVars PROVE StacksAsMeant'
    OBVIOUS
  <2>1. focus' = focus
    BY DEF ResNext, resVars
  <2>2. ASSUME focus = "stacks" PROVE [StkNext]_<<netVars, volVars, stkVars>>
    BY <2>2 DEF ResNext, resVars
  <2> QED
    BY <2>1, <2>2, MenusStay DEF StacksAsMeant, CalledByName, OthersOnlyMake
<1> QED
  BY <1>1, <1>2, PTL DEF ResSpec

(* Stacks settle, and spare the volumes of others, as what they are among  *)
(* all resources.                                                          *)
THEOREM ResourcesSettle ==
    ASSUME MenusOfStacks
    PROVE  ResSpec => []StackSettled /\ OwnVolumesSpared
<1>1. ResInv /\ StacksAsMeant => StackSettled
  <2>1. ResInv /\ StacksAsMeant /\ focus = "stacks" => StackSettled
    BY StkSettled DEF ResInv, StacksAsMeant
  <2>2. ResInv /\ focus # "stacks" => StackSettled
    BY DEF ResInv, StackSettled
  <2> QED
    BY <2>1, <2>2
<1>2. ResInv /\ StacksAsMeant /\ [ResNext]_resVars =>
        [\A n \in VolNames :
            (stkCall # StkIdle /\ ~volOverlap /\ n \in VolListed /\ ~volFile[n].stack) =>
                volDir'[n] /\ volFile'[n] # NoRecord]_<<stkVars, volVars>>
  <2> SUFFICES ASSUME ResInv, StacksAsMeant, ResNext, stkCall # StkIdle
               PROVE  \A n \in VolNames :
                         (stkCall # StkIdle /\ ~volOverlap /\ n \in VolListed
                             /\ ~volFile[n].stack) =>
                           volDir'[n] /\ volFile'[n] # NoRecord
    BY DEF resVars
  <2>1. focus = "stacks"
    BY DEF ResInv
  <2>2. StkInv /\ OthersOnlyMake /\ StkNext
    BY <2>1 DEF ResInv, StacksAsMeant, ResNext
  <2> QED
    BY <2>2, StkSpares DEF Spares
<1> QED
  BY <1>1, <1>2, MeantAlways, ResAlways, PTL DEF ResSpec, OwnVolumesSpared
=============================================================================
