--------------------------- MODULE NetworksProofs ---------------------------
(***************************************************************************)
(* Module Networks keeps its invariants, for any ids, names, users and     *)
(* choices of theirs, any number of commands at work and any one of them   *)
(* killed.                                                                 *)
(*                                                                         *)
(* What a network is called is said by its record, by the file of the name *)
(* and by the copies that commands are about to write; the heart of the    *)
(* argument is that these never disagree (NamesAgree), whoever overwrites  *)
(* whose file.  When commands come one at a time, each also knows that     *)
(* what it looked at is still so (Own), even after others were killed; and *)
(* when none was killed, how much of its work is done (Found).  The        *)
(* lemmas are those of a call that is at work, so that module Stacks,      *)
(* whose commands make the same calls, can use them.                       *)
(***************************************************************************)
EXTENDS Networks, FiniteSetTheorems, WellFoundedInduction, TLAPS

Removes == {"rm", "rm_f", "prune"}
Files == {"Truncate", "Write"}

(* What the step of a call says about its other fields.                    *)
NetShaped(c) ==
    /\ c.step = "Idle" => c = NetIdle
    /\ c.step = "Write" <=> c.fd # "none"
    /\ c.op = "create" => c.name \in NetNames /\ c.want \in GivenSubnets \cup {NoSubnet}
    /\ c.op = "connect" => c.want \in Hosts /\ c.ctr \in Endpoints
    /\ c.step = "Connect" => c.op = "connect"
    /\ c.step = "Disconnect" => c.op = "disconnect"
    /\ c.step = "Defaults" => c.op # "none" /\ c.next = NetFirst[c.op]
    /\ c.step \in {"Create", "Subnet", "Alias"} => c.op = "create"
    /\ c.step \in {"Subnet", "Alias"} => c.id \in NetIds
    /\ c.step \in {"List", "Each"} => c.op = "prune"
    /\ c.step = "Delete" => c.op \in Removes
    /\ c.step \in {"Unname", "Unlink"} =>
          /\ c.op \in Removes /\ c.id \in Networks
          /\ c.next = IF c.op = "prune" THEN "Each" ELSE "Idle"
    /\ c.step \in Files =>
          /\ c.id \in Networks => c.copy \in Network
          /\ c.id \in NetNames => c.copy \in Alias /\ c.next = "Idle" /\ c.op = "create"
          /\ c.id \in NetFiles
          /\ c.next = "Alias" => c.op = "create" /\ c.id \in NetIds /\ c.copy.name = c.name
          /\ c.next \notin {"Alias", "Idle"} =>
                c.op # "none" /\ c.next = NetFirst[c.op] /\ c.id = Bridge

NetAlone ==
    ~netOverlap => \A j, k \in NetActors : netCall[j] # NetIdle /\ netCall[k] # NetIdle => j = k

AnyName == NetNames \cup {Bridge, NoName}

(* Network i is called n: by its record, by the file of the name, or by    *)
(* what a call is about to write.                                          *)
Says(i, n) ==
    \/ netFile[i] \in Network /\ netFile[i].name = n
    \/ n \in NetNames /\ netFile[n] \in Alias /\ netFile[n].to = i
Told(c, i, n) ==
    \/ c.step \in {"Subnet", "Alias"} /\ c.id = i /\ c.name = n
    \/ c.step \in Files /\ c.id = i /\ c.copy.name = n
    \/ c.step \in Files /\ n \in NetNames /\ c.id = n /\ c.copy.to = i
Known(i, n) == Says(i, n) \/ \E k \in NetActors : Told(netCall[k], i, n)

NamesAgree ==
    CalledByName =>
        /\ \A k \in NetActors : netCall[k].ref # AliasPrefix
        /\ \A i \in Networks, m, n \in AnyName : Known(i, m) /\ Known(i, n) => m = n
        /\ \A i \in Networks, n \in AnyName :
              Known(i, n) =>
                  i \notin netFresh /\ (IF i = Bridge THEN n = Bridge ELSE n \in NetNames)

(* Two records are apart: by name, and by an allocated subnet.             *)
ApartFrom(i, r) ==
    /\ netFile[i].name # r.name
    /\ r.subnet \in AutoSubnets \ GivenSubnets => netFile[i].subnet # r.subnet

(* What a call knows that nobody disturbs.                                 *)
Own(c) ==
    /\ c.step = "Write" => c.fd = "clean"
    /\ c.step = "Subnet" => \A i \in Listed : netFile[i].name # c.name
    /\ c.step \in Files /\ c.id \in Networks =>
          \A i \in Listed \ {c.id} : ApartFrom(i, c.copy)
    /\ c.step \in {"Unname", "Unlink"} =>
          /\ netFile[c.id] \in Network /\ c.id \in NetIds
          /\ c.op # "rm_f" => netFile[c.id].ends = {}

Sole ==
    CalledByName /\ ~netOverlap =>
        /\ \A k \in NetActors : Own(netCall[k])
        /\ \A i, j \in Listed : i # j => ApartFrom(i, netFile[j])

(* How far it has come, if nobody has been killed either.                  *)
Come(c) ==
    /\ c.step = "Subnet" => netFile[c.id] = NoRecord /\ netFile[c.name] = NoRecord
    /\ c.step \in Files /\ c.next = "Alias" =>
          /\ netFile[c.name] = NoRecord
          /\ c.step = "Truncate" => netFile[c.id] = NoRecord
    /\ c.step = "Alias" =>
          netFile[c.id] \in Network /\ netFile[c.id].name = c.name /\ netFile[c.name] = NoRecord
    /\ c.step \in Files /\ c.id \in NetNames =>
          netFile[c.copy.to] \in Network /\ netFile[c.copy.to].name = c.id
    /\ c.step \in Files /\ c.id \in NetIds /\ c.next = "Idle" =>
          c.copy.name \in NetNames /\ Target(c.copy.name) = c.id
    /\ c.step = "Unname" => netFile[c.id].name = c.name
    /\ c.step = "Unlink" => netFile[c.id].name = c.name /\ netFile[c.name] = NoRecord

Found(c) ==
    /\ Come(c)
    /\ \A i \in Listed \ {Bridge} :
          \/ Target(netFile[i].name) = i
          \/ c.step \in {"Alias", "Unlink"} /\ c.id = i
          \/ c.step \in Files /\ c.id \in NetNames /\ c.copy.to = i
    /\ \A f \in NetFiles : netFile[f] # Torn \/ (c.step = "Write" /\ c.id = f)
    /\ \A n \in NetNames : netFile[n] # NoRecord =>
          \/ Target(n) \in Listed
          \/ c.step = "Write" /\ c.id \in {n, Target(n)}

NetUndisturbed ==
    CalledByName /\ ~netOverlap /\ ~netDied =>
        /\ \A k \in NetActors : netCall[k] # NetIdle => Found(netCall[k])
        /\ NetsIdle => Found(NetIdle)

(* The addresses users asked for are addresses.                            *)
BareHosts(r) == \A e \in r.ends : e.ip.bare => e.ip.host # NoHost
Addressed ==
    /\ \A i \in Listed : BareHosts(netFile[i])
    /\ \A k \in NetActors :
          netCall[k].step \in Files /\ netCall[k].id \in Networks => BareHosts(netCall[k].copy)

NetShapes == \A k \in NetActors : NetShaped(netCall[k])
NetInv == NetTypeOK /\ NetShapes /\ NetAlone /\ NamesAgree /\ Sole /\ NetUndisturbed /\ Addressed

-----------------------------------------------------------------------------
(* The operators the actions are built from.                               *)

(* Numbers have a least one: what allocateSubnet and allocateContainerIP   *)
(* choose exists.                                                          *)
LEMMA Least ==
    ASSUME NEW S \in SUBSET Nat, S # {}
    PROVE  \E x \in S : \A y \in S : x <= y
<1>1. PICK x \in S : \A y \in S : ~(<<y, x>> \in OpToRel(<, Nat))
  BY NatLessThanWellFounded, WFMin
<1>2. \A y \in S : ~(y < x)
  BY <1>1 DEF OpToRel
<1> QED
  BY <1>2

(* Four things in a set of four are different.                             *)
LEMMA FourDiffer ==
    ASSUME NEW w, NEW x, NEW y, NEW z, Cardinality({w, x, y, z}) = 4
    PROVE  w # x /\ w # y /\ w # z /\ x # y /\ x # z /\ y # z
<1>1. ASSUME NEW a, NEW b, NEW c
      PROVE  Cardinality({a, b, c}) \in 0..3
  <2>1. IsFiniteSet({c}) /\ Cardinality({c}) = 1
    BY FS_Singleton
  <2>2. IsFiniteSet({c} \cup {b}) /\ Cardinality({c} \cup {b}) \in 1..2
    BY <2>1, FS_AddElement
  <2>3. Cardinality(({c} \cup {b}) \cup {a}) \in 1..3
    BY <2>2, FS_AddElement
  <2>4. ({c} \cup {b}) \cup {a} = {a, b, c}
    OBVIOUS
  <2> QED
    BY <2>3, <2>4
<1>2. ASSUME NEW a, NEW b, NEW c, {w, x, y, z} = {a, b, c}
      PROVE  FALSE
  <2>1. Cardinality({w, x, y, z}) = Cardinality({a, b, c})
    BY <1>2, Zenon
  <2>2. Cardinality({a, b, c}) \in 0..3
    BY <1>1
  <2>3. 4 \in 0..3
    BY <2>1, <2>2, Zenon
  <2> QED
    BY <2>3
<1>3. w = x \/ w = y \/ w = z => {w, x, y, z} = {x, y, z}
  OBVIOUS
<1>4. x = y \/ x = z => {w, x, y, z} = {w, y, z}
  OBVIOUS
<1>5. y = z => {w, x, y, z} = {w, x, z}
  OBVIOUS
<1> QED
  BY <1>2, <1>3, <1>4, <1>5

(* Ids, names and the words that stand for nothing are told apart.         *)
LEMMA Distinct ==
    /\ Bridge # NoNet /\ AliasPrefix # NoNet /\ NoName # NoNet
    /\ Bridge # AliasPrefix /\ Bridge # NoName /\ AliasPrefix # NoName
    /\ \A i \in NetIds : i # NoNet /\ i # Bridge /\ i # AliasPrefix /\ i # NoName
    /\ \A n \in NetNames :
          n # NoNet /\ n # Bridge /\ n # AliasPrefix /\ n # NoName /\ n \notin NetIds
<1>1. Cardinality({NoNet, Bridge, AliasPrefix, NoName}) = 4
  BY NetNamesAssumption
<1>2. /\ Bridge # NoNet /\ AliasPrefix # NoNet /\ NoName # NoNet
      /\ Bridge # AliasPrefix /\ Bridge # NoName /\ AliasPrefix # NoName
  BY <1>1, FourDiffer
<1> QED
  BY <1>2, NetIdsAssumption, NetNamesAssumption

(* An actor that does nothing is in order.                               *)
LEMMA IdleNet == NetIdle \in Call /\ NetShaped(NetIdle)
<1>1. NetIdle \in Call
  BY DEF NetIdle, Call, NetSteps, Descriptors, NetContent, NoSubnet
<1>2. NetShaped(NetIdle)
  BY DEF NetIdle, NetShaped, Files, Removes
<1> QED
  BY <1>1, <1>2

(* What is found under a name that is not AliasPrefix is in a record.      *)
LEMMA GetNet ==
    ASSUME NetTypeOK, NEW x, NEW g \in NetGet(x)
    PROVE  /\ g.id \in Networks /\ g.net \in Network
           /\ g.net.ends = {} \/ (g.id \in Listed /\ g.net = netFile[g.id])
           /\ x # AliasPrefix => g.id \in Listed /\ g.net = netFile[g.id]
<1>1. \A i \in Listed : i \in Networks /\ netFile[i] \in Network
  BY DEF Listed, Readable
<1>2. CASE x \in Networks /\ (netFile[x] # NoRecord \/ x = Bridge)
  <2>1. NetGet(x) = {[id |-> i, net |-> netFile[i]] : i \in Listed \cap {x}}
    BY <1>2 DEF NetGet
  <2> QED
    BY <1>1, <2>1
<1>3. CASE ~(x \in Networks /\ (netFile[x] # NoRecord \/ x = Bridge)) /\ x = AliasPrefix
  <2>1. PICK n \in NetNames : /\ Target(n) # NoNet /\ g.id = Target(n)
                              /\ g.net = NewNetwork(NoName, NoSubnet, FALSE)
    <3>1. NetGet(x) = {[id |-> Target(n), net |-> NewNetwork(NoName, NoSubnet, FALSE)] :
                          n \in {m \in NetNames : Target(m) # NoNet}}
      BY <1>3 DEF NetGet
    <3>2. PICK n \in {m \in NetNames : Target(m) # NoNet} :
            g = [id |-> Target(n), net |-> NewNetwork(NoName, NoSubnet, FALSE)]
      BY <3>1, Zenon
    <3> QED
      BY <3>2
  <2>2. Target(n) \in NetIds
    BY <2>1 DEF Target, Alias
  <2>3. g.net \in Network /\ g.net.ends = {}
    BY <2>1 DEF NewNetwork, Network, Subnets
  <2> QED
    BY <1>3, <2>1, <2>2, <2>3 DEF Networks
<1>4. CASE ~(x \in Networks /\ (netFile[x] # NoRecord \/ x = Bridge)) /\ x # AliasPrefix
  BY <1>1, <1>4 DEF NetGet
<1> QED
  BY <1>2, <1>3, <1>4

(* An address that is allocated is one of the network's, and no address    *)
(* that a user has asked for.                                              *)
LEMMA AllocatedIP ==
    ASSUME NEW n \in Network
    PROVE  /\ allocateContainerIP(n) \in Address /\ ~allocateContainerIP(n).bare
           /\ \A e \in n.ends :
                 e.ip.bare /\ e.ip.host # NoHost => e.ip.host # allocateContainerIP(n).host
<1> DEFINE used == {e.ip.host : e \in {f \in n.ends : f.ip.bare}}
           free == {h \in 3..LastHost : h \notin used}
           least == CHOOSE h \in free : \A g \in free : h <= g
<1>1. free # {} => least \in free
  <2> SUFFICES ASSUME free # {} PROVE \E h \in free : \A g \in free : h <= g
    OBVIOUS
  <2>1. free \in SUBSET Nat
    BY HostAssumption
  <2> QED
    BY <2>1, Least
<1>2. allocateContainerIP(n) =
        [host |-> IF n.subnet = NoSubnet \/ free = {} THEN NoHost ELSE least, bare |-> FALSE]
  BY DEF allocateContainerIP
<1>3. \A e \in n.ends : e.ip.bare => e.ip.host \in used
  OBVIOUS
<1> HIDE DEF least
<1>4. allocateContainerIP(n).host \in free \cup {NoHost} /\ allocateContainerIP(n).bare = FALSE
  BY <1>1, <1>2
<1>5. free \subseteq Hosts /\ NoHost \in Hosts
  BY HostAssumption DEF Hosts, NoHost
<1>6. allocateContainerIP(n) \in Address
  BY <1>2, <1>4, <1>5 DEF Address
<1> QED
  BY <1>3, <1>4, <1>6

(* A subnet that is allocated is not in use, unless they are used up.      *)
LEMMA AllocatedSubnet ==
    ASSUME NEW b \in allocateSubnet
    PROVE  b \in Subnets /\ (b \in AutoSubnets => \A i \in Listed : netFile[i].subnet # b)
<1> DEFINE used == {netFile[i].subnet : i \in Listed}
           free == AutoSubnets \ used
<1>1. CASE free = {}
  BY <1>1, SubnetAssumption DEF allocateSubnet, AutoSubnets, RandomSubnets, Subnets
<1>2. CASE free # {}
  <2>1. free \in SUBSET Nat
    BY SubnetAssumption DEF AutoSubnets
  <2>2. \E s \in free : \A c \in free : s <= c
    BY <1>2, <2>1, Least
  <2>3. b = CHOOSE s \in free : \A c \in free : s <= c
    BY <1>2 DEF allocateSubnet
  <2>4. b \in free
    BY <2>2, <2>3
  <2> QED
    BY <2>4 DEF Subnets
<1> QED
  BY <1>1, <1>2

(* What a call keeps when another one does something to its file.          *)
SameCall(c, d) ==
    /\ d.op = c.op /\ d.step = c.step /\ d.next = c.next /\ d.ref = c.ref
    /\ d.id = c.id /\ d.name = c.name /\ d.copy = c.copy
    /\ c = NetIdle => d = NetIdle

(* Doing something to a file moves nobody else's call.                   *)
LEMMA NetNoticed ==
    ASSUME NetTypeOK, NetShapes, NEW k \in NetActors, NEW f,
           NEW s \in {"clean", "shared", "gone"}
    PROVE  LET N == Noticed(netCall, k, f, s) IN
           /\ N \in [NetActors -> Call] /\ N[k] = netCall[k]
           /\ \A j \in NetActors : NetShaped(N[j]) /\ SameCall(netCall[j], N[j])
<1> DEFINE N == Noticed(netCall, k, f, s)
<1>1. N = [j \in NetActors |->
              IF j # k /\ netCall[j].id = f /\ netCall[j].fd \in {"clean", "shared"}
              THEN [netCall[j] EXCEPT !.fd = s] ELSE netCall[j]]
  BY DEF Noticed, NetTypeOK
<1>2. ASSUME NEW j \in NetActors
      PROVE  N[j] \in Call /\ NetShaped(N[j]) /\ SameCall(netCall[j], N[j])
  <2>1. netCall[j] \in Call /\ NetShaped(netCall[j])
    BY DEF NetTypeOK, NetShapes
  <2>2. CASE j # k /\ netCall[j].id = f /\ netCall[j].fd \in {"clean", "shared"}
    <3>1. N[j] = [netCall[j] EXCEPT !.fd = s]
      BY <1>1, <2>2
    <3>2. netCall[j].step = "Write" /\ netCall[j] # NetIdle
      BY <2>1, <2>2 DEF NetShaped, NetIdle
    <3>3. /\ N[j] \in Call /\ N[j].fd = s /\ N[j].want = netCall[j].want
          /\ N[j].ctr = netCall[j].ctr /\ SameCall(netCall[j], N[j])
      BY <2>1, <3>1, <3>2 DEF Call, Descriptors, SameCall
    <3> HIDE DEF N
    <3>4. NetShaped(N[j])
      BY <2>1, <3>2, <3>3 DEF NetShaped, SameCall
    <3> QED
      BY <3>3, <3>4
  <2>3. CASE ~(j # k /\ netCall[j].id = f /\ netCall[j].fd \in {"clean", "shared"})
    BY <1>1, <2>1, <2>3 DEF SameCall
  <2> QED
    BY <2>2, <2>3
<1> QED
  BY <1>1, <1>2

(* The types of the files, and what a step has to show of the call it      *)
(* moves: d is that call afterwards.                                       *)
FilesTyped ==
    /\ \A f \in Networks : netFile[f] \in Network \cup {NoRecord, Torn}
    /\ \A n \in NetNames : netFile[n] \in Alias \cup {NoRecord, Torn}
    /\ DOMAIN netFile = NetFiles

NetMoves(k, d) ==
    /\ netCall' \in [NetActors -> Call] /\ netCall'[k] = d
    /\ NetShaped(d)
    /\ \A j \in NetActors \ {k} : NetShaped(netCall'[j]) /\ SameCall(netCall[j], netCall'[j])
    /\ netMenu' = netMenu /\ netOverlap' = netOverlap /\ netDied' = netDied

(* A call that is alone is.                                                *)
LEMMA NetAtWork ==
    ASSUME NetInv, NEW k \in NetActors, netCall[k] # NetIdle, ~netOverlap
    PROVE  \A j \in NetActors \ {k} : netCall[j] = NetIdle
BY DEF NetInv, NetAlone

(* What a step of a call has to establish.                                 *)
LEMMA NetStepped ==
    ASSUME NetInv, NEW k \in NetActors, netCall[k] # NetIdle, NEW d, NetMoves(k, d),
           FilesTyped', netFresh' \subseteq netFresh, NamesAgree',
           (CalledByName /\ ~netOverlap) =>
               Own(d)' /\ \A i, j \in Listed' : i # j => ApartFrom(i, netFile[j])',
           (CalledByName /\ ~netOverlap /\ ~netDied) => Found(d)',
           \A i \in Listed' : BareHosts(netFile'[i]),
           d.step \in Files /\ d.id \in Networks => BareHosts(d.copy)
    PROVE  NetInv'
<1>0. /\ netMenu' = netMenu /\ netOverlap' = netOverlap /\ netDied' = netDied
      /\ netCall'[k] = d /\ (CalledByName <=> CalledByName')
      /\ \A j \in NetActors \ {k} :
            /\ NetShaped(netCall'[j]) /\ SameCall(netCall[j], netCall'[j])
            /\ ~netOverlap => netCall'[j] = NetIdle
  BY NetAtWork DEF NetMoves, SameCall, CalledByName
<1>1. NetTypeOK'
  BY DEF NetInv, NetTypeOK, NetMoves, FilesTyped
<1>2. NetShapes'
  BY DEF NetShapes, NetMoves
<1>3. NetAlone'
  BY <1>0 DEF NetAlone
<1>4. Sole'
  <2> SUFFICES ASSUME CalledByName, ~netOverlap, NEW j \in NetActors PROVE Own(netCall[j])'
    BY <1>0 DEF Sole
  <2>1. CASE j = k
    BY <1>0, <2>1
  <2>2. CASE j # k
    BY <1>0, <2>2 DEF Own, NetIdle, Files
  <2> QED
    BY <2>1, <2>2
<1>5. NetUndisturbed'
  <2> SUFFICES ASSUME CalledByName, ~netOverlap, ~netDied
               PROVE  /\ \A j \in NetActors : netCall'[j] # NetIdle => Found(netCall[j])'
                      /\ NetsIdle' => Found(NetIdle)'
    BY <1>0 DEF NetUndisturbed
  <2>1. Found(d)' /\ \A j \in NetActors \ {k} : netCall'[j] = NetIdle
    BY <1>0
  <2>2. Found(netCall[k])'
    BY <1>0, <2>1
  <2>3. NetsIdle' => netCall'[k] = NetIdle
    BY DEF NetsIdle
  <2> QED
    BY <1>0, <2>1, <2>2, <2>3
<1>6. Addressed'
  <2>1. \A j \in NetActors \ {k} :
          netCall'[j].step \in Files /\ netCall'[j].id \in Networks => BareHosts(netCall'[j].copy)
    BY <1>0 DEF NetInv, Addressed, SameCall
  <2> QED
    BY <1>0, <2>1 DEF Addressed
<1> QED
  BY <1>1, <1>2, <1>3, <1>4, <1>5, <1>6 DEF NetInv

(* Names agree after a step that calls no network by another name: new are *)
(* that of the built-in network, and that of a network with a new id.      *)
NewlyKnown(d, i, n) ==
    \/ Known(i, n)
    \/ i = Bridge /\ n = Bridge
    \/ i \in netFresh \ netFresh' /\ n = d.name /\ n \in NetNames

(* Names agree afterwards, if what the moved call knows is newly known.  *)
LEMMA NetAgrees ==
    ASSUME NetInv, NEW k \in NetActors, NEW d, NetMoves(k, d), netFresh' \subseteq netFresh,
           CalledByName =>
               /\ d.ref # AliasPrefix
               /\ \A i \in Networks, n \in AnyName :
                     Says(i, n)' \/ Told(d, i, n) => NewlyKnown(d, i, n)
    PROVE  NamesAgree'
<1>1. CalledByName' => CalledByName
  BY DEF CalledByName, NetMoves
<1>2. ASSUME CalledByName
      PROVE  \A j \in NetActors : netCall'[j].ref # AliasPrefix
  BY <1>2 DEF NetMoves, SameCall, NetInv, NamesAgree
<1>3. ASSUME NEW j \in NetActors, NEW i, NEW n, Told(netCall'[j], i, n), j # k
      PROVE  Told(netCall[j], i, n)
  BY <1>3 DEF NetMoves, SameCall, Told
<1>4. ASSUME CalledByName, NEW i \in Networks, NEW n \in AnyName, Known(i, n)'
      PROVE  NewlyKnown(d, i, n)
  <2>1. Says(i, n)' \/ \E j \in NetActors : Told(netCall'[j], i, n)
    BY <1>4 DEF Known, Told, Says
  <2>2. CASE Says(i, n)' \/ Told(d, i, n)
    BY <1>4, <2>2
  <2>3. CASE \E j \in NetActors \ {k} : Told(netCall'[j], i, n)
    BY <1>3, <2>3 DEF Known, NewlyKnown
  <2> QED
    BY <2>1, <2>2, <2>3 DEF NetMoves
<1>5. ASSUME CalledByName
      PROVE  /\ \A i \in Networks, m, n \in AnyName : Known(i, m) /\ Known(i, n) => m = n
             /\ \A i \in Networks, n \in AnyName :
                   Known(i, n) => i \notin netFresh
                                  /\ (IF i = Bridge THEN n = Bridge ELSE n \in NetNames)
  BY <1>5 DEF NetInv, NamesAgree
<1>6. Bridge \notin netFresh
  BY Distinct DEF NetInv, NetTypeOK
<1> SUFFICES ASSUME CalledByName
             PROVE  /\ \A i \in Networks, m, n \in AnyName : Known(i, m)' /\ Known(i, n)' => m = n
                    /\ \A i \in Networks, n \in AnyName :
                          Known(i, n)' => i \notin netFresh'
                                          /\ (IF i = Bridge THEN n = Bridge ELSE n \in NetNames)
  BY <1>1, <1>2 DEF NamesAgree
<1>7. ASSUME NEW i \in Networks, NEW m \in AnyName, NEW n \in AnyName, Known(i, m)', Known(i, n)'
      PROVE  m = n
  BY <1>4, <1>5, <1>6, <1>7 DEF NewlyKnown
<1>8. ASSUME NEW i \in Networks, NEW n \in AnyName, Known(i, n)'
      PROVE  i \notin netFresh' /\ (IF i = Bridge THEN n = Bridge ELSE n \in NetNames)
  BY <1>4, <1>5, <1>6, <1>8 DEF NewlyKnown
<1> QED
  BY <1>7, <1>8

(* A step that leaves the files alone.                                     *)
NetQuiet(k, d) ==
    /\ netCall' = [netCall EXCEPT ![k] = d]
    /\ d \in Call /\ NetShaped(d)
    /\ UNCHANGED <<netFile, netMenu, netOverlap, netDied>>

(* Such a step keeps the invariant, if it does so for the call it moves. *)
LEMMA NetQuietly ==
    ASSUME NetInv, NEW k \in NetActors, netCall[k] # NetIdle, NEW d, NetQuiet(k, d),
           netFresh' \subseteq netFresh,
           CalledByName =>
               /\ d.ref # AliasPrefix
               /\ \A i \in Networks, n \in AnyName : Told(d, i, n) => NewlyKnown(d, i, n),
           CalledByName /\ ~netOverlap => Own(d),
           CalledByName /\ ~netOverlap /\ ~netDied => Found(d),
           d.step \in Files /\ d.id \in Networks => BareHosts(d.copy)
    PROVE  NetInv'
<1>1. NetMoves(k, d)
  BY DEF NetMoves, NetQuiet, NetInv, NetTypeOK, NetShapes, SameCall
<1>2. FilesTyped'
  BY DEF NetQuiet, FilesTyped, NetInv, NetTypeOK
<1>3. netFile' = netFile /\ Listed' = Listed
  BY DEF NetQuiet, Listed, Readable
<1>4. (CalledByName /\ ~netOverlap) =>
          Own(d)' /\ \A i, j \in Listed' : i # j => ApartFrom(i, netFile[j])'
  BY <1>3 DEF NetInv, Sole, Own, ApartFrom
<1>5. (CalledByName /\ ~netOverlap /\ ~netDied) => Found(d)'
  BY <1>3 DEF Found, Come, Target
<1>6. \A i \in Listed' : BareHosts(netFile'[i])
  BY <1>3 DEF NetInv, Addressed
<1>7. \A i, n : Says(i, n)' => NewlyKnown(d, i, n)
  BY <1>3 DEF Says, Known, NewlyKnown
<1>8. NamesAgree'
  BY <1>1, <1>7, NetAgrees
<1> QED
  BY <1>1, <1>2, <1>4, <1>5, <1>6, <1>8, NetStepped

-----------------------------------------------------------------------------
(* The initial states, and the actions one by one.                         *)

(* At first there is no network and no call.                             *)
LEMMA NetStarts == NetInit => NetInv
<1> SUFFICES ASSUME NetInit PROVE NetInv
  OBVIOUS
<1>1. /\ netMenu \in NetMenu /\ netFresh = netMenu.ids /\ netFresh \subseteq NetIds
      /\ \A f \in NetFiles : netFile[f] = NoRecord
      /\ \A k \in NetActors : netCall[k] = NetIdle
  BY NetMenusAssumption DEF NetInit, NetMenu
<1>2. NetTypeOK
  BY <1>1, IdleNet DEF NetInit, NetTypeOK, NetFiles, Networks
<1>3. NetShapes /\ NetAlone
  BY <1>1, IdleNet DEF NetShapes, NetAlone
<1>4. Listed = {} /\ \A n \in NetNames : netFile[n] \notin Alias
  BY <1>1, NetRecordsAssumption DEF Listed, Readable, NetFiles
<1>5. \A i \in Networks, n \in AnyName : ~Known(i, n)
  BY <1>1, <1>4, NetRecordsAssumption DEF Known, Says, Told, NetIdle, Files, Networks, NetFiles
<1>6. NamesAgree
  BY <1>1, <1>5, Distinct DEF NamesAgree, NetIdle
<1>7. Own(NetIdle) /\ Found(NetIdle)
  BY <1>1, <1>4, NetRecordsAssumption DEF Own, Found, Come, NetIdle, Files, NetFiles, Networks
<1>8. Sole /\ NetUndisturbed
  BY <1>1, <1>4, <1>7 DEF Sole, NetUndisturbed
<1>9. Addressed
  BY <1>1, <1>4 DEF Addressed, NetIdle, Files
<1> QED
  BY <1>2, <1>3, <1>6, <1>8, <1>9 DEF NetInv

(* A record has the name of its network.                                   *)
LEMMA RecordName ==
    ASSUME NetInv, CalledByName, NEW i \in Listed
    PROVE  /\ i \in Networks /\ netFile[i] \in Network /\ i \notin netFresh
           /\ Known(i, netFile[i].name)
           /\ IF i = Bridge THEN netFile[i].name = Bridge
              ELSE netFile[i].name \in NetNames /\ i \in NetIds
<1>1. i \in Networks /\ netFile[i] \in Network
  BY DEF Listed, Readable
<1>2. netFile[i].name \in AnyName /\ Known(i, netFile[i].name)
  BY <1>1 DEF Network, AnyName, Known, Says
<1>3. i \notin netFresh /\ (IF i = Bridge THEN netFile[i].name = Bridge
                           ELSE netFile[i].name \in NetNames)
  BY <1>1, <1>2 DEF NetInv, NamesAgree
<1> QED
  BY <1>1, <1>2, <1>3 DEF Networks

(* The built-in network gets its record, or has it.                      *)
LEMMA DefaultsNet ==
    ASSUME NetInv, NEW k \in NetActors, ensureDefaults(k)
    PROVE  NetInv'
<1> DEFINE c == netCall[k]
           d == IF netFile[Bridge] = NoRecord THEN Saving(c, Bridge, BridgeNetwork, c.next)
                ELSE [c EXCEPT !.step = c.next]
<1>1. /\ c.step = "Defaults" /\ c \in Call /\ NetShaped(c)
      /\ c # NetIdle /\ c.op # "none" /\ c.next = NetFirst[c.op]
      /\ netCall' = [netCall EXCEPT ![k] = d]
      /\ UNCHANGED <<netFile, netFresh, netMenu, netOverlap, netDied>>
  BY DEF ensureDefaults, NetInv, NetTypeOK, NetShapes, NetShaped, NetIdle
<1>2. c.next \in {"Create", "Delete", "List", "Connect", "Disconnect"}
  BY <1>1 DEF NetFirst, Call, NetOps
<1>3. BridgeNetwork \in Network /\ BridgeNetwork.name = Bridge /\ BridgeNetwork.ends = {}
      /\ BridgeNetwork.subnet = 17
  BY DEF BridgeNetwork, NewNetwork, Network, Subnets
<1>4. Bridge \in Networks /\ Bridge \notin NetNames /\ Bridge \notin NetIds
  BY Distinct DEF Networks
<1>5. CASE netFile[Bridge] = NoRecord
  <2>1. d = [c EXCEPT !.step = "Truncate", !.id = Bridge, !.copy = BridgeNetwork, !.next = c.next]
    BY <1>5 DEF Saving
  <2>2. /\ d \in Call /\ d.step = "Truncate" /\ d.id = Bridge /\ d.copy = BridgeNetwork
        /\ d.op = c.op /\ d.next = c.next /\ d.name = c.name /\ d.want = c.want
        /\ d.ctr = c.ctr /\ d.fd = c.fd /\ d.ref = c.ref
    <3> HIDE DEF d
    <3>1. BridgeNetwork \in NetContent /\ Bridge \in NetFiles
      BY <1>3, <1>4 DEF NetContent, NetFiles
    <3> QED
      BY <1>1, <2>1, <3>1 DEF Call, NetSteps
  <2> HIDE DEF d
  <2>3. NetShaped(d)
    BY <1>1, <1>2, <1>3, <1>4, <2>2 DEF NetShaped, Files, NetFiles
  <2>4. \A i, n : Told(d, i, n) => NewlyKnown(d, i, n)
    BY <1>3, <1>4, <2>2 DEF Told, Files, NewlyKnown
  <2>5. CalledByName => d.ref # AliasPrefix
    BY <2>2 DEF NetInv, NamesAgree
  <2>6. CalledByName /\ ~netOverlap => Own(d)
    <3> SUFFICES ASSUME CalledByName, NEW i \in Listed, i # Bridge PROVE ApartFrom(i, BridgeNetwork)
      BY <2>2, <1>1 DEF Own, Files
    <3>1. netFile[i].name \in NetNames
      BY RecordName
    <3> QED
      BY <1>3, <3>1, Distinct, SubnetAssumption DEF ApartFrom, AutoSubnets
  <2>7. CalledByName /\ ~netOverlap /\ ~netDied => Found(d)
    <3> SUFFICES ASSUME CalledByName, ~netOverlap, ~netDied PROVE Found(d)
      OBVIOUS
    <3>1. Found(c)
      BY <1>1 DEF NetInv, NetUndisturbed
    <3>2. Come(d)
      BY <1>2, <1>4, <2>2 DEF Come, Files
    <3> QED
      BY <1>1, <3>1, <3>2 DEF Found, Files
  <2>8. BareHosts(d.copy)
    BY <1>3, <2>2 DEF BareHosts
  <2>9. NetQuiet(k, d)
    BY <1>1, <2>2, <2>3 DEF NetQuiet
  <2> QED
    BY <1>1, <2>4, <2>5, <2>6, <2>7, <2>8, <2>9, NetQuietly
<1>6. CASE netFile[Bridge] # NoRecord
  <2>1. d = [c EXCEPT !.step = c.next]
    BY <1>6
  <2>2. /\ d \in Call /\ d.step = c.next /\ d.id = c.id /\ d.copy = c.copy
        /\ d.op = c.op /\ d.next = c.next /\ d.name = c.name /\ d.want = c.want
        /\ d.ctr = c.ctr /\ d.fd = c.fd /\ d.ref = c.ref
    BY <1>1, <1>2, <2>1 DEF Call
  <2> HIDE DEF d
  <2>3. NetShaped(d)
    <3>1. /\ c.next = "Create" => c.op = "create"
          /\ c.next = "Delete" => c.op \in Removes
          /\ c.next = "List" => c.op = "prune"
          /\ c.next = "Connect" => c.op = "connect"
          /\ c.next = "Disconnect" => c.op = "disconnect"
      BY <1>1 DEF NetFirst, Removes, Call, NetOps
    <3>2. /\ c.fd = "none"
          /\ c.op = "create" => c.name \in NetNames /\ c.want \in GivenSubnets \cup {NoSubnet}
          /\ c.op = "connect" => c.want \in Hosts /\ c.ctr \in Endpoints
      BY <1>1 DEF NetShaped
    <3> HIDE DEF c
    <3> QED
      BY <1>2, <2>2, <3>1, <3>2 DEF NetShaped, Files
  <2>4. \A i, n : ~Told(d, i, n)
    BY <1>2, <2>2 DEF Told, Files
  <2>5. CalledByName => d.ref # AliasPrefix
    BY <2>2 DEF NetInv, NamesAgree
  <2>6. Own(d)
    BY <1>2, <2>2 DEF Own, Files
  <2>7. CalledByName /\ ~netOverlap /\ ~netDied => Found(d)
    <3> SUFFICES ASSUME CalledByName, ~netOverlap, ~netDied PROVE Found(d)
      OBVIOUS
    <3>1. Found(c)
      BY <1>1 DEF NetInv, NetUndisturbed
    <3>2. Come(d)
      BY <1>2, <2>2 DEF Come, Files
    <3> QED
      BY <1>1, <3>1, <3>2 DEF Found, Files
  <2>8. d.step \notin Files
    BY <1>2, <2>2 DEF Files
  <2>9. NetQuiet(k, d)
    BY <1>1, <2>2, <2>3 DEF NetQuiet
  <2> QED
    BY <1>1, <2>4, <2>5, <2>6, <2>7, <2>8, <2>9, NetQuietly
<1> QED
  BY <1>5, <1>6

(* A call that is about to write.                                          *)
LEMMA SavingCall ==
    ASSUME NEW c \in Call, NEW f \in NetFiles, NEW r \in NetContent, NEW s \in NetSteps
    PROVE  LET d == Saving(c, f, r, s) IN
           /\ d \in Call /\ d.step = "Truncate" /\ d.id = f /\ d.copy = r /\ d.next = s
           /\ d.op = c.op /\ d.name = c.name /\ d.want = c.want /\ d.fd = c.fd /\ d.ref = c.ref
           /\ d.ctr = c.ctr
<1> DEFINE d == Saving(c, f, r, s)
<1>1. d = [c EXCEPT !.step = "Truncate", !.id = f, !.copy = r, !.next = s]
  BY DEF Saving
<1>2. /\ d.step = "Truncate" /\ d.id = f /\ d.copy = r /\ d.next = s
      /\ d.op = c.op /\ d.name = c.name /\ d.want = c.want /\ d.fd = c.fd /\ d.ref = c.ref
      /\ d.ctr = c.ctr
  BY <1>1 DEF Call
<1>3. d \in Call
  <2>1. f \in NetFiles \cup {NoNet} /\ "Truncate" \in NetSteps
    BY DEF NetSteps
  <2> HIDE DEF d
  <2> QED
    BY <1>1, <2>1 DEF Call
<1> QED
  BY <1>2, <1>3

(* What is known of a call at work.                                        *)
LEMMA NetWorks ==
    ASSUME NetInv, NEW k \in NetActors, netCall[k].step # "Idle"
    PROVE  /\ netCall[k] \in Call /\ NetShaped(netCall[k]) /\ netCall[k] # NetIdle
           /\ CalledByName => netCall[k].ref # AliasPrefix
           /\ CalledByName /\ ~netOverlap => Own(netCall[k])
           /\ CalledByName /\ ~netOverlap /\ ~netDied => Found(netCall[k])
<1>1. netCall[k] # NetIdle
  BY DEF NetIdle
<1> QED
  BY <1>1 DEF NetInv, NetTypeOK, NetShapes, NamesAgree, Sole, NetUndisturbed

Plain == {"Create", "Delete", "List", "Each", "Connect", "Disconnect"}

(* A call that has nothing in hand ends, or goes on to another such step.  *)
LEMMA NetPlainly ==
    ASSUME NetInv, NEW k \in NetActors, netCall[k].step \in Plain, NEW d, NetQuiet(k, d),
           d.step \in Plain \cup {"Idle"}, CalledByName => d.ref # AliasPrefix, UNCHANGED netFresh
    PROVE  NetInv'
<1> DEFINE c == netCall[k]
<1>1. /\ c # NetIdle
      /\ CalledByName /\ ~netOverlap /\ ~netDied => Found(c)
  BY NetWorks DEF Plain
<1>2. \A i, n : ~Told(d, i, n)
  BY DEF Told, Files, Plain
<1>3. Own(d)
  BY DEF Own, Files, Plain
<1>4. CalledByName /\ ~netOverlap /\ ~netDied => Found(d)
  <2> SUFFICES ASSUME CalledByName, ~netOverlap, ~netDied PROVE Found(d)
    OBVIOUS
  <2>1. Come(d)
    BY DEF Come, Files, Plain
  <2> QED
    BY <1>1, <2>1 DEF Found, Files, Plain
<1>5. d.step \notin Files
  BY DEF Files, Plain
<1> QED
  BY <1>1, <1>2, <1>3, <1>4, <1>5, NetQuietly

(* It may just end.                                                      *)
LEMMA NetEnds ==
    ASSUME NetInv, NEW k \in NetActors, netCall[k].step \in Plain,
           netCall' = [netCall EXCEPT ![k] = NetIdle],
           UNCHANGED <<netFile, netFresh, netMenu, netOverlap, netDied>>
    PROVE  NetInv'
<1>1. NetQuiet(k, NetIdle)
  BY IdleNet DEF NetQuiet
<1>2. NetIdle.step = "Idle" /\ NetIdle.ref # AliasPrefix
  BY Distinct DEF NetIdle
<1> HIDE DEF NetIdle
<1> QED
  BY <1>1, <1>2, NetPlainly

(* A name that no record has leads nowhere, and a new id has no file.    *)
LEMMA CreateNet ==
    ASSUME NetInv, NEW k \in NetActors, NetCreate(k)
    PROVE  NetInv'
<1> DEFINE c == netCall[k]
<1>1. /\ c.step = "Create" /\ UNCHANGED <<netFile, netMenu, netOverlap, netDied>>
      /\ IF \E i \in Listed : netFile[i].name = c.name
         THEN NetGoto(k, c, "Idle") /\ UNCHANGED netFresh
         ELSE \E i \in netFresh :
                 /\ netFresh' = netFresh \ {i}
                 /\ NetGoto(k, [c EXCEPT !.id = i], "Subnet")
  BY DEF NetCreate
<1>2. CASE \E i \in Listed : netFile[i].name = c.name
  BY <1>1, <1>2, NetEnds DEF NetGoto, NetAt, Plain
<1>3. CASE \A i \in Listed : netFile[i].name # c.name
  <2>1. PICK i \in netFresh :
          netFresh' = netFresh \ {i} /\ NetGoto(k, [c EXCEPT !.id = i], "Subnet")
    BY <1>1, <1>3
  <2> DEFINE d == [c EXCEPT !.id = i, !.step = "Subnet"]
  <2>2. /\ c \in Call /\ NetShaped(c) /\ c # NetIdle /\ c.op = "create" /\ c.name \in NetNames
        /\ c.want \in GivenSubnets \cup {NoSubnet} /\ c.fd = "none" /\ i \in NetIds
    <3>1. c \in Call /\ NetShaped(c) /\ c # NetIdle
      BY <1>1, NetWorks
    <3> QED
      BY <1>1, <3>1 DEF NetShaped, NetInv, NetTypeOK
  <2>3. netCall' = [netCall EXCEPT ![k] = d]
    BY <2>1 DEF NetGoto, NetAt
  <2>4. /\ d \in Call /\ d.step = "Subnet" /\ d.id = i /\ d.op = c.op /\ d.name = c.name
        /\ d.want = c.want /\ d.fd = c.fd /\ d.ref = c.ref /\ d.ctr = c.ctr
    BY <2>2 DEF Call, NetSteps, NetFiles, Networks
  <2> HIDE DEF d
  <2>5. NetQuiet(k, d)
    BY <1>1, <2>2, <2>3, <2>4 DEF NetQuiet, NetShaped, Files, Removes
  <2>6. \A j, n : Told(d, j, n) => NewlyKnown(d, j, n)
    BY <2>1, <2>2, <2>4 DEF Told, Files, NewlyKnown
  <2>7. Own(d)
    BY <1>3, <2>4 DEF Own, Files
  <2>8. CalledByName /\ ~netOverlap /\ ~netDied => Found(d)
    <3> SUFFICES ASSUME CalledByName, ~netOverlap, ~netDied PROVE Found(d)
      OBVIOUS
    <3>1. Found(c)
      BY <1>1, NetWorks
    <3>2. netFile[i] = NoRecord
      <4>1. i \notin Listed
        BY RecordName
      <4> QED
        BY <1>1, <2>2, <3>1, <4>1
        DEF Found, Listed, Readable, NetInv, NetTypeOK, Networks, NetFiles
    <3>3. netFile[c.name] = NoRecord
      <4> SUFFICES ASSUME netFile[c.name] # NoRecord PROVE FALSE
        OBVIOUS
      <4> DEFINE t == Target(c.name)
      <4>1. t \in Listed
        BY <1>1, <2>2, <3>1 DEF Found
      <4>2. t \in Networks /\ Known(t, netFile[t].name) /\ netFile[t].name \in AnyName
        BY <4>1, RecordName DEF AnyName
      <4>3. netFile[c.name] \in Alias /\ netFile[c.name].to = t
        BY <4>2, Distinct DEF Target, Networks
      <4>4. Known(t, c.name) /\ c.name \in AnyName
        BY <2>2, <4>3 DEF Known, Says, AnyName
      <4>5. netFile[t].name = c.name
        BY <4>2, <4>4 DEF NetInv, NamesAgree
      <4> QED
        BY <1>3, <4>1, <4>5
    <3> QED
      BY <1>1, <2>4, <3>1, <3>2, <3>3 DEF Found, Come, Files
  <2> QED
    BY <2>1, <2>2, <2>4, <2>5, <2>6, <2>7, <2>8, <1>1, NetWorks, NetQuietly DEF Files
<1> QED
  BY <1>2, <1>3

(* The subnet that is allocated is that of no record.                    *)
LEMMA SubnetNet ==
    ASSUME NetInv, NEW k \in NetActors, NetSubnet(k)
    PROVE  NetInv'
<1> DEFINE c == netCall[k]
<1>1. PICK b \in IF c.want # NoSubnet THEN {c.want}
                 ELSE allocateSubnet \cup IF c.stack THEN {} ELSE {NoSubnet} :
        netCall' = [netCall EXCEPT ![k] = Saving(c, c.id, NewNetwork(c.name, b, c.stack), "Alias")]
  BY DEF NetSubnet
<1> DEFINE r == NewNetwork(c.name, b, c.stack)
           d == Saving(c, c.id, r, "Alias")
<1>2. /\ c.step = "Subnet" /\ UNCHANGED <<netFile, netFresh, netMenu, netOverlap, netDied>>
      /\ c \in Call /\ NetShaped(c) /\ c # NetIdle
  BY NetWorks DEF NetSubnet
<1>3. /\ c.op = "create" /\ c.name \in NetNames /\ c.want \in GivenSubnets \cup {NoSubnet}
      /\ c.fd = "none" /\ c.id \in NetIds /\ c.id \in NetFiles /\ c.id \in Networks
      /\ c.id \notin NetNames
  BY <1>2, Distinct DEF NetShaped, NetFiles, Networks
<1>4. b \in Subnets
  BY <1>1, <1>3, AllocatedSubnet DEF Subnets
<1>5. b \in AutoSubnets \ GivenSubnets => \A i \in Listed : netFile[i].subnet # b
  <2> SUFFICES ASSUME b \in AutoSubnets \ GivenSubnets PROVE b \in allocateSubnet
    BY AllocatedSubnet
  <2>1. b # NoSubnet
    BY SubnetAssumption DEF AutoSubnets, NoSubnet
  <2> QED
    BY <1>1, <1>3, <2>1
<1>6. r \in Network /\ r.name = c.name /\ r.subnet = b /\ r.ends = {}
  BY <1>2, <1>3, <1>4 DEF NewNetwork, Network, Call
<1> HIDE DEF r
<1>7. /\ d \in Call /\ d.step = "Truncate" /\ d.id = c.id /\ d.copy = r /\ d.next = "Alias"
      /\ d.op = c.op /\ d.name = c.name /\ d.want = c.want /\ d.fd = c.fd /\ d.ref = c.ref
  <2>1. r \in NetContent
    BY <1>6 DEF NetContent
  <2> QED
    BY <1>2, <1>3, <2>1 DEF Call, NetSteps, Saving
<1>8. netCall' = [netCall EXCEPT ![k] = d]
  BY <1>1 DEF r
<1> HIDE DEF d
<1>9. NetQuiet(k, d)
  BY <1>2, <1>3, <1>6, <1>7, <1>8 DEF NetQuiet, NetShaped, Files, Removes
<1>10. \A j, n : Told(d, j, n) => Known(j, n)
  BY <1>2, <1>3, <1>6, <1>7 DEF Told, Files, Known
<1>11. CalledByName /\ ~netOverlap => Own(d)
  <2> SUFFICES ASSUME CalledByName, ~netOverlap PROVE Own(d)
    OBVIOUS
  <2>1. \A i \in Listed : netFile[i].name # c.name
    BY <1>2, NetWorks DEF Own
  <2> QED
    BY <1>5, <1>6, <1>7, <2>1 DEF Own, Files, ApartFrom
<1>12. CalledByName /\ ~netOverlap /\ ~netDied => Found(d)
  <2> SUFFICES ASSUME CalledByName, ~netOverlap, ~netDied PROVE Found(d)
    OBVIOUS
  <2>1. Found(c)
    BY <1>2, NetWorks
  <2> QED
    BY <1>2, <1>3, <1>7, <2>1 DEF Found, Come, Files
<1>13. BareHosts(d.copy)
  BY <1>6, <1>7 DEF BareHosts
<1> QED
  BY <1>2, <1>7, <1>9, <1>10, <1>11, <1>12, <1>13, NetWorks, NetQuietly DEF NewlyKnown

(* The record is there, and the file of the name comes next.             *)
LEMMA AliasNet ==
    ASSUME NetInv, NEW k \in NetActors, NetAlias(k)
    PROVE  NetInv'
<1> DEFINE c == netCall[k]
           r == [to |-> c.id]
           d == Saving(c, c.name, r, "Idle")
<1>2. /\ c.step = "Alias" /\ UNCHANGED <<netFile, netFresh, netMenu, netOverlap, netDied>>
      /\ c \in Call /\ NetShaped(c) /\ c # NetIdle
  BY NetWorks DEF NetAlias
<1>3. /\ c.op = "create" /\ c.name \in NetNames /\ c.want \in GivenSubnets \cup {NoSubnet}
      /\ c.fd = "none" /\ c.id \in NetIds /\ c.name \in NetFiles /\ c.name \notin Networks
  BY <1>2, Distinct DEF NetShaped, NetFiles, Networks
<1>6. r \in Alias /\ r.to = c.id
  BY <1>3 DEF Alias
<1> HIDE DEF r
<1>7. /\ d \in Call /\ d.step = "Truncate" /\ d.id = c.name /\ d.copy = r /\ d.next = "Idle"
      /\ d.op = c.op /\ d.name = c.name /\ d.want = c.want /\ d.fd = c.fd /\ d.ref = c.ref
  <2>1. r \in NetContent
    BY <1>6 DEF NetContent
  <2> QED
    BY <1>2, <1>3, <2>1 DEF Call, NetSteps, Saving
<1>8. netCall' = [netCall EXCEPT ![k] = d]
  BY DEF r, NetAlias
<1> HIDE DEF d
<1>9. NetQuiet(k, d)
  BY <1>2, <1>3, <1>6, <1>7, <1>8 DEF NetQuiet, NetShaped, Files, Removes
<1>10. \A j \in Networks, n \in AnyName : Told(d, j, n) => Known(j, n)
  BY <1>2, <1>3, <1>6, <1>7 DEF Told, Files, Known
<1>11. Own(d)
  BY <1>3, <1>7 DEF Own, Files
<1>12. CalledByName /\ ~netOverlap /\ ~netDied => Found(d)
  <2> SUFFICES ASSUME CalledByName, ~netOverlap, ~netDied PROVE Found(d)
    OBVIOUS
  <2>1. Found(c)
    BY <1>2, NetWorks
  <2>2. Come(d)
    BY <1>2, <1>3, <1>6, <1>7, <2>1, Distinct DEF Found, Come, Files
  <2> QED
    BY <1>2, <1>3, <1>6, <1>7, <2>1, <2>2 DEF Found, Files
<1> QED
  BY <1>2, <1>3, <1>7, <1>9, <1>10, <1>11, <1>12, NetWorks, NetQuietly DEF NewlyKnown

(* What is about to go is a network by that name.                        *)
LEMMA DeleteNet ==
    ASSUME NetInv, NEW k \in NetActors, DeleteForce(k)
    PROVE  NetInv'
<1> DEFINE c == netCall[k]
           found == {g \in NetGet(c.ref) :
                        g.net.name # Bridge /\ (c.op = "rm_f" \/ g.net.ends = {})}
           next == IF c.op = "prune" THEN "Each" ELSE "Idle"
<1>1. /\ c.step = "Delete" /\ UNCHANGED <<netFile, netFresh, netMenu, netOverlap, netDied>>
      /\ \/ \E g \in found : NetGoto(k, [c EXCEPT !.id = g.id, !.name = g.net.name,
                                                  !.ref = NoNet, !.next = next], "Unname")
         \/ found = {} /\ NetGoto(k, [c EXCEPT !.ref = NoNet], next)
  BY DEF DeleteForce, NetDeleting
<1>2. c \in Call /\ NetShaped(c) /\ c # NetIdle /\ c.op \in Removes /\ c.fd = "none"
  <2>1. c \in Call /\ NetShaped(c) /\ c # NetIdle
    BY <1>1, NetWorks
  <2> QED
    BY <1>1, <2>1 DEF NetShaped
<1>3. ASSUME NEW g \in found,
             NetGoto(k, [c EXCEPT !.id = g.id, !.name = g.net.name,
                                  !.ref = NoNet, !.next = next], "Unname")
      PROVE  NetInv'
  <2> DEFINE d == [c EXCEPT !.id = g.id, !.name = g.net.name, !.ref = NoNet, !.next = next,
                            !.step = "Unname"]
  <2>1. netCall' = [netCall EXCEPT ![k] = d]
    BY <1>3 DEF NetGoto, NetAt
  <2>2. g.id \in Networks /\ g.net \in Network /\ g.net.name \in NetNames \cup {NoName}
    BY GetNet DEF NetInv, Network
  <2>3. /\ d \in Call /\ d.step = "Unname" /\ d.id = g.id /\ d.name = g.net.name
        /\ d.ref = NoNet /\ d.next = next /\ d.op = c.op /\ d.fd = c.fd
    <3>1. g.id \in NetFiles /\ g.net.name \in NetNames \cup {Bridge, NoName} /\ next \in NetSteps
      BY <2>2 DEF NetFiles, NetSteps
    <3>2. "Unname" \in NetSteps /\ NoNet \in NetRefs \cup {NoNet}
      BY DEF NetSteps
    <3> HIDE DEF next, found
    <3>3. /\ d.step = "Unname" /\ d.id = g.id /\ d.name = g.net.name
          /\ d.ref = NoNet /\ d.next = next /\ d.op = c.op /\ d.fd = c.fd
      BY <1>2 DEF Call
    <3>4. d \in Call
      BY <1>2, <3>1, <3>2 DEF Call
    <3> QED
      BY <3>3, <3>4
  <2> HIDE DEF d
  <2>4. NetQuiet(k, d)
    BY <1>1, <1>2, <2>1, <2>2, <2>3 DEF NetQuiet, NetShaped, Files, Removes
  <2>5. \A j, n : ~Told(d, j, n)
    BY <2>3 DEF Told, Files
  <2>6. CalledByName => g.id \in Listed /\ g.net = netFile[g.id] /\ g.id \in NetIds
    <3> SUFFICES ASSUME CalledByName
                 PROVE  g.id \in Listed /\ g.net = netFile[g.id] /\ g.id \in NetIds
      OBVIOUS
    <3>1. g.id \in Listed /\ g.net = netFile[g.id]
      BY <1>1, NetWorks, GetNet DEF NetInv
    <3> QED
      BY <3>1, RecordName
  <2>7. CalledByName /\ ~netOverlap => Own(d)
    BY <2>3, <2>6, <1>2 DEF Own, Files, Listed, Readable
  <2>8. CalledByName /\ ~netOverlap /\ ~netDied => Found(d)
    BY <1>1, <2>3, <2>6, NetWorks DEF Found, Come, Files
  <2> QED
    BY <1>1, <1>2, <2>3, <2>4, <2>5, <2>7, <2>8, Distinct, NetQuietly DEF Files
<1>4. ASSUME NetGoto(k, [c EXCEPT !.ref = NoNet], next)
      PROVE  NetInv'
  <2>1. CASE c.op = "prune"
    <3> DEFINE d == [c EXCEPT !.ref = NoNet, !.step = "Each"]
    <3>1. netCall' = [netCall EXCEPT ![k] = d]
      BY <1>4, <2>1 DEF NetGoto, NetAt
    <3>2. /\ d \in Call /\ d.step = "Each" /\ d.op = c.op /\ d.fd = c.fd /\ d.ref = NoNet
      BY <1>2 DEF Call, NetSteps
    <3> HIDE DEF d
    <3>3. NetQuiet(k, d)
      BY <1>1, <1>2, <2>1, <3>1, <3>2 DEF NetQuiet, NetShaped, Files, Removes
    <3> QED
      BY <1>1, <3>2, <3>3, Distinct, NetPlainly DEF Plain
  <2>2. CASE c.op # "prune"
    BY <1>1, <1>4, <2>2, NetEnds DEF NetGoto, NetAt, Plain
  <2> QED
    BY <2>1, <2>2
<1> QED
  BY <1>1, <1>3, <1>4

(* Prune lists, and deletes one network after the other.                 *)
LEMMA PruneNet ==
    ASSUME NetInv, NEW k \in NetActors, NetPrune(k)
    PROVE  NetInv'
<1> DEFINE c == netCall[k]
           idle == {i \in Listed \ {Bridge} : netFile[i].ends = {}}
<1>1. /\ c.step \in {"List", "Each"}
      /\ UNCHANGED <<netFile, netFresh, netMenu, netOverlap, netDied>>
  BY DEF NetPrune
<1>2. c \in Call /\ NetShaped(c) /\ c # NetIdle /\ c.op = "prune" /\ c.fd = "none"
  <2>1. c \in Call /\ NetShaped(c) /\ c # NetIdle
    BY <1>1, NetWorks
  <2> QED
    BY <1>1, <2>1 DEF NetShaped
<1>3. CASE c.step = "List" /\ NetGoto(k, [c EXCEPT !.todo = idle], "Each")
  <2> DEFINE d == [c EXCEPT !.todo = idle, !.step = "Each"]
  <2>1. netCall' = [netCall EXCEPT ![k] = d]
    BY <1>3 DEF NetGoto, NetAt
  <2>2. idle \subseteq NetIds
    BY DEF Listed, Networks
  <2>3. d \in Call /\ d.step = "Each" /\ d.op = c.op /\ d.fd = c.fd /\ d.ref = c.ref
    <3> HIDE DEF idle
    <3> QED
      BY <1>2, <2>2 DEF Call, NetSteps
  <2> HIDE DEF d
  <2>4. NetQuiet(k, d)
    BY <1>1, <1>2, <2>1, <2>3 DEF NetQuiet, NetShaped, Files, Removes
  <2> QED
    BY <1>1, <2>3, <2>4, NetWorks, NetPlainly DEF Plain
<1>4. ASSUME c.step = "Each", NEW i \in c.todo,
             NetGoto(k, [c EXCEPT !.todo = c.todo \ {i}, !.ref = i], "Delete")
      PROVE  NetInv'
  <2> DEFINE d == [c EXCEPT !.todo = c.todo \ {i}, !.ref = i, !.step = "Delete"]
  <2>1. netCall' = [netCall EXCEPT ![k] = d]
    BY <1>4 DEF NetGoto, NetAt
  <2>2. i \in NetIds
    BY <1>2 DEF Call
  <2>3. d \in Call /\ d.step = "Delete" /\ d.op = c.op /\ d.fd = c.fd /\ d.ref = i
    BY <1>2, <2>2 DEF Call, NetSteps, NetRefs
  <2> HIDE DEF d
  <2>4. NetQuiet(k, d)
    BY <1>1, <1>2, <2>1, <2>3 DEF NetQuiet, NetShaped, Files, Removes
  <2> QED
    BY <1>1, <2>2, <2>3, <2>4, Distinct, NetPlainly DEF Plain
<1>5. CASE c.step = "Each" /\ NetGoto(k, c, "Idle")
  BY <1>1, <1>5, NetEnds DEF NetGoto, NetAt, Plain
<1> QED
  BY <1>3, <1>4, <1>5 DEF NetPrune

(* A record that is read and written back, with other endpoints.           *)
LEMMA UpdatedNet ==
    ASSUME NetInv, NEW k \in NetActors, netCall[k].step \in {"Connect", "Disconnect"},
           NEW g \in NetGet(netCall[k].ref), NEW r \in Network,
           r.name = g.net.name, r.subnet = g.net.subnet, BareHosts(g.net) => BareHosts(r),
           netCall' = [netCall EXCEPT ![k] = Saving(netCall[k], g.id, r, "Idle")],
           UNCHANGED <<netFile, netFresh, netMenu, netOverlap, netDied>>
    PROVE  NetInv'
<1> DEFINE c == netCall[k]
           d == Saving(c, g.id, r, "Idle")
<1>2. c \in Call /\ NetShaped(c) /\ c # NetIdle /\ c.fd = "none"
      /\ c.op \in {"connect", "disconnect"}
  <2>1. c \in Call /\ NetShaped(c) /\ c # NetIdle
    BY NetWorks
  <2> QED
    BY <2>1 DEF NetShaped
<1>3. g.id \in Networks /\ g.id \notin NetNames /\ g.net \in Network
  BY GetNet, Distinct DEF NetInv, Networks
<1>4. CalledByName => g.id \in Listed /\ g.net = netFile[g.id]
  BY NetWorks, GetNet DEF NetInv
<1>5. BareHosts(r)
  BY GetNet DEF NetInv, Addressed, BareHosts
<1>6. /\ d \in Call /\ d.step = "Truncate" /\ d.id = g.id /\ d.copy = r /\ d.next = "Idle"
      /\ d.op = c.op /\ d.name = c.name /\ d.want = c.want /\ d.fd = c.fd /\ d.ref = c.ref
      /\ d.ctr = c.ctr
  <2>1. r \in NetContent /\ g.id \in NetFiles /\ "Idle" \in NetSteps
    BY <1>3 DEF NetContent, NetFiles, NetSteps
  <2> QED
    BY <1>2, <2>1, SavingCall
<1>7. netCall' = [netCall EXCEPT ![k] = d]
  OBVIOUS
<1> HIDE DEF d
<1>8. NetQuiet(k, d)
  BY <1>2, <1>3, <1>6, <1>7 DEF NetQuiet, NetShaped, Files, Removes, NetFiles
<1>9. CalledByName => \A i \in Networks, n \in AnyName : Told(d, i, n) => Known(i, n)
  <2> SUFFICES ASSUME CalledByName, NEW i \in Networks, NEW n \in AnyName, Told(d, i, n)
               PROVE  Known(i, n)
    OBVIOUS
  <2>1. i = g.id /\ n = r.name
    BY <1>3, <1>6 DEF Told, Files
  <2> QED
    BY <1>4, <2>1, RecordName
<1>10. CalledByName /\ ~netOverlap => Own(d)
  <2> SUFFICES ASSUME CalledByName, ~netOverlap,
                      NEW i \in Listed \ {g.id}
               PROVE  ApartFrom(i, r)
    BY <1>6 DEF Own, Files
  <2>1. ApartFrom(i, netFile[g.id])
    BY <1>4 DEF NetInv, Sole
  <2> QED
    BY <1>4, <2>1 DEF ApartFrom
<1>11. CalledByName /\ ~netOverlap /\ ~netDied => Found(d)
  <2> SUFFICES ASSUME CalledByName, ~netOverlap, ~netDied PROVE Found(d)
    OBVIOUS
  <2>1. Found(c)
    BY NetWorks
  <2>2. g.id \in NetIds => r.name \in NetNames /\ Target(r.name) = g.id
    BY <1>4, <2>1, Distinct, RecordName DEF Found, Files
  <2>3. Come(d)
    BY <1>3, <1>6, <2>2 DEF Come, Files
  <2> QED
    BY <1>3, <1>6, <2>1, <2>3 DEF Found, Files
<1> QED
  BY <1>2, <1>5, <1>6, <1>8, <1>9, <1>10, <1>11, NetWorks, NetQuietly DEF NewlyKnown

(* The new endpoint has a good address.                                  *)
LEMMA ConnectNet ==
    ASSUME NetInv, NEW k \in NetActors, Connect(k)
    PROVE  NetInv'
<1> DEFINE c == netCall[k]
           ip(n) == IF c.want # NoHost THEN [host |-> c.want, bare |-> TRUE]
                    ELSE allocateContainerIP(n)
           New(n) == [n EXCEPT !.ends = n.ends \cup {[ctr |-> c.ctr, ip |-> ip(n)]}]
           found == {g \in NetGet(c.ref) : c.ctr \notin Connected(g.net)}
<1>1. /\ c.step = "Connect" /\ UNCHANGED <<netFile, netFresh, netMenu, netOverlap, netDied>>
      /\ \/ \E g \in found : netCall' = [netCall EXCEPT ![k] = Saving(c, g.id, New(g.net), "Idle")]
         \/ found = {} /\ NetGoto(k, c, "Idle")
  BY DEF Connect, NetUpdating
<1>2. c \in Call /\ c.want \in Hosts /\ c.ctr \in Endpoints
  <2>1. c \in Call /\ NetShaped(c)
    BY <1>1, NetWorks
  <2> QED
    BY <1>1, <2>1 DEF NetShaped
<1>3. ASSUME NEW g \in found, netCall' = [netCall EXCEPT ![k] = Saving(c, g.id, New(g.net), "Idle")]
      PROVE  NetInv'
  <2>1. g.net \in Network
    BY GetNet DEF NetInv
  <2> DEFINE e == [ctr |-> c.ctr, ip |-> ip(g.net)]
  <2>2. e \in Endpoint /\ (e.ip.bare => e.ip.host # NoHost)
    <3>1. ip(g.net) \in Address /\ (ip(g.net).bare => ip(g.net).host # NoHost)
      BY <1>2, <2>1, AllocatedIP DEF Address
    <3> HIDE DEF ip
    <3> QED
      BY <1>2, <3>1 DEF Endpoint
  <2>3. New(g.net) = [g.net EXCEPT !.ends = g.net.ends \cup {e}]
    OBVIOUS
  <2> HIDE DEF e, found, New
  <2>4. /\ New(g.net) \in Network /\ New(g.net).name = g.net.name
        /\ New(g.net).subnet = g.net.subnet /\ New(g.net).ends = g.net.ends \cup {e}
    BY <2>1, <2>2, <2>3 DEF Network
  <2>5. BareHosts(g.net) => BareHosts(New(g.net))
    BY <2>2, <2>4 DEF BareHosts
  <2> QED
    BY <1>1, <1>3, <2>4, <2>5, UpdatedNet DEF found
<1>4. CASE NetGoto(k, c, "Idle")
  BY <1>1, <1>4, NetEnds DEF NetGoto, NetAt, Plain
<1> QED
  BY <1>1, <1>3, <1>4

(* Endpoints that stay are those there were.                             *)
LEMMA DisconnectNet ==
    ASSUME NetInv, NEW k \in NetActors, Disconnect(k)
    PROVE  NetInv'
<1> DEFINE c == netCall[k]
           New(n) == [n EXCEPT !.ends = {e \in n.ends : e.ctr # c.ctr}]
           found == {g \in NetGet(c.ref) : c.ctr \in Connected(g.net)}
<1>1. /\ c.step = "Disconnect" /\ UNCHANGED <<netFile, netFresh, netMenu, netOverlap, netDied>>
      /\ \/ \E g \in found : netCall' = [netCall EXCEPT ![k] = Saving(c, g.id, New(g.net), "Idle")]
         \/ found = {} /\ NetGoto(k, c, "Idle")
  BY DEF Disconnect, NetUpdating
<1>2. ASSUME NEW g \in found, netCall' = [netCall EXCEPT ![k] = Saving(c, g.id, New(g.net), "Idle")]
      PROVE  NetInv'
  <2>1. g.net \in Network
    BY GetNet DEF NetInv
  <2>2. /\ New(g.net) \in Network /\ New(g.net).name = g.net.name
        /\ New(g.net).subnet = g.net.subnet /\ New(g.net).ends \subseteq g.net.ends
    BY <2>1 DEF Network
  <2> HIDE DEF New
  <2>3. BareHosts(g.net) => BareHosts(New(g.net))
    BY <2>2 DEF BareHosts
  <2> QED
    BY <1>1, <1>2, <2>2, <2>3, UpdatedNet
<1>3. CASE NetGoto(k, c, "Idle")
  BY <1>1, <1>3, NetEnds DEF NetGoto, NetAt, Plain
<1> QED
  BY <1>1, <1>2, <1>3

-----------------------------------------------------------------------------
(* The steps that change a file.                                           *)

(* A step that does something to a file moves one call.                  *)
LEMMA NetFiled ==
    ASSUME NetInv, NEW k \in NetActors, NEW f, NEW s \in {"clean", "shared", "gone"},
           NEW d \in Call, NetShaped(d),
           netCall' = [Noticed(netCall, k, f, s) EXCEPT ![k] = d],
           UNCHANGED <<netMenu, netOverlap, netDied>>
    PROVE  NetMoves(k, d)
<1> DEFINE N == Noticed(netCall, k, f, s)
<1>1. /\ N \in [NetActors -> Call] /\ N[k] = netCall[k]
      /\ \A j \in NetActors : NetShaped(N[j]) /\ SameCall(netCall[j], N[j])
  BY NetNoticed DEF NetInv
<1> HIDE DEF N
<1>2. netCall' = [N EXCEPT ![k] = d]
  BY DEF N
<1> QED
  BY <1>1, <1>2 DEF NetMoves

(* Two records of one name are one.                                        *)
LEMMA OneName ==
    ASSUME NetInv, CalledByName, ~netOverlap, NEW i \in Listed, NEW j \in Listed,
           netFile[i].name = netFile[j].name
    PROVE  i = j
BY DEF NetInv, Sole, ApartFrom

(* A truncated file says nothing, and its writer is known.               *)
LEMMA TruncateNet ==
    ASSUME NetInv, NEW k \in NetActors, NetTruncate(k)
    PROVE  NetInv'
<1>0. PICK c : c = netCall[k]
  OBVIOUS
<1> DEFINE f == c.id
           d == [c EXCEPT !.step = "Write", !.fd = "clean"]
<1>1. /\ c.step = "Truncate" /\ c \in Call /\ NetShaped(c) /\ c # NetIdle
      /\ netFile' = [netFile EXCEPT ![f] = Torn]
      /\ UNCHANGED <<netFresh, netMenu, netOverlap, netDied>>
  BY <1>0, NetWorks DEF NetTruncate
<1>2. netCall' = [Noticed(netCall, k, f, "clean") EXCEPT ![k] = d]
  <2> DEFINE N == Noticed(netCall, k, f, "clean")
  <2>1. N \in [NetActors -> Call] /\ N[k] = c
    BY <1>0, NetNoticed DEF NetInv
  <2>2. netCall' = [N EXCEPT ![k].step = "Write", ![k].fd = "clean"]
    BY <1>0 DEF NetTruncate
  <2> HIDE DEF N
  <2>3. netCall' = [N EXCEPT ![k] = d]
    BY <2>1, <2>2 DEF Call
  <2> QED
    BY <2>3 DEF N
<1>3. /\ d \in Call /\ d.step = "Write" /\ d.fd = "clean" /\ d.id = f /\ d.copy = c.copy
      /\ d.op = c.op /\ d.name = c.name /\ d.want = c.want /\ d.ref = c.ref /\ d.next = c.next
      /\ d.ctr = c.ctr
  <2>1. /\ d.step = "Write" /\ d.fd = "clean" /\ d.id = f /\ d.copy = c.copy
        /\ d.op = c.op /\ d.name = c.name /\ d.want = c.want /\ d.ref = c.ref
        /\ d.next = c.next /\ d.ctr = c.ctr
    BY <1>1 DEF Call
  <2>2. "Write" \in NetSteps /\ "clean" \in Descriptors
    BY DEF NetSteps, Descriptors
  <2>3. d \in Call
    BY <1>1, <2>2 DEF Call
  <2> QED
    BY <2>1, <2>3
<1> HIDE DEF d
<1>4. NetShaped(d)
  BY <1>1, <1>3 DEF NetShaped, Files, Removes
<1>5. NetMoves(k, d)
  BY <1>1, <1>2, <1>3, <1>4, NetFiled
<1>6. f \in NetFiles /\ DOMAIN netFile = NetFiles
  BY <1>1 DEF NetShaped, Files, NetInv, NetTypeOK
<1>7. /\ \A g \in NetFiles : g # f => netFile'[g] = netFile[g]
      /\ netFile'[f] = Torn /\ DOMAIN netFile' = NetFiles
  BY <1>1, <1>6
<1>8. FilesTyped'
  BY <1>7 DEF FilesTyped, NetInv, NetTypeOK, NetFiles
<1>9. Torn \notin Network /\ Torn \notin Alias /\ Torn # NoRecord
  BY NetRecordsAssumption
<1>10. Listed' = Listed \ {f} /\ \A i \in Listed' : i # f /\ netFile'[i] = netFile[i]
  BY <1>7, <1>9 DEF Listed, Readable, NetFiles, Networks
<1>11. \A i \in Networks, n \in AnyName : Says(i, n)' \/ Told(d, i, n) => Known(i, n)
  <2> SUFFICES ASSUME NEW i \in Networks, NEW n \in AnyName, Says(i, n)' \/ Told(d, i, n)
               PROVE  Says(i, n) \/ Told(c, i, n)
    BY <1>0 DEF Known
  <2>1. CASE Says(i, n)'
    BY <1>7, <1>9, <2>1 DEF Says, NetFiles
  <2>2. CASE Told(d, i, n)
    BY <1>1, <1>3, <2>2 DEF Told, Files
  <2> QED
    BY <2>1, <2>2
<1>12. NamesAgree'
  BY <1>0, <1>1, <1>3, <1>5, <1>11, NetWorks, NetAgrees DEF NewlyKnown
<1>13. (CalledByName /\ ~netOverlap) =>
           Own(d)' /\ \A i, j \in Listed' : i # j => ApartFrom(i, netFile[j])'
  <2> SUFFICES ASSUME CalledByName, ~netOverlap
               PROVE  Own(d)' /\ \A i, j \in Listed' : i # j => ApartFrom(i, netFile[j])'
    OBVIOUS
  <2>1. Own(c)
    BY <1>0, <1>1, NetWorks
  <2>2. Own(d)'
    <3> SUFFICES ASSUME f \in Networks, NEW i \in Listed', i # f
                 PROVE  ApartFrom(i, c.copy)'
      BY <1>3 DEF Own, Files
    <3>1. ApartFrom(i, c.copy)
      BY <1>1, <1>10, <2>1 DEF Own, Files
    <3> QED
      BY <1>10, <3>1 DEF ApartFrom
  <2>3. \A i, j \in Listed' : i # j => ApartFrom(i, netFile[j])'
    BY <1>10 DEF NetInv, Sole, ApartFrom
  <2> QED
    BY <2>2, <2>3
<1>14. (CalledByName /\ ~netOverlap /\ ~netDied) => Found(d)'
  <2> SUFFICES ASSUME CalledByName, ~netOverlap, ~netDied PROVE Found(d)'
    OBVIOUS
  <2>1. Found(c)
    BY <1>0, <1>1, NetWorks
  <2>2. \A n : n # f /\ n \in NetFiles => Target(n)' = Target(n)
    BY <1>7 DEF Target
  <2>3. Come(d)'
    <3>1. c.next = "Alias" => c.name \in NetNames /\ c.id \in NetIds /\ c.name # f
      BY <1>1, Distinct DEF NetShaped, Files
    <3>2. f \in NetNames => c.copy.to \in NetIds /\ c.copy.to # f
      BY <1>1, Distinct DEF NetShaped, Files, Alias
    <3>3. f \in NetIds => c.copy \in Network /\ c.copy.name # f
      BY <1>1, Distinct DEF NetShaped, Files, Network, Networks
    <3>4. f \in NetIds /\ c.next = "Idle" => Target(c.copy.name)' = f
      <4> SUFFICES ASSUME f \in NetIds, c.next = "Idle" PROVE Target(c.copy.name)' = f
        OBVIOUS
      <4>1. PICK n \in NetNames : n = c.copy.name /\ Target(n) = f
        BY <1>1, <2>1 DEF Found, Come, Files
      <4>2. Target(n)' = f
        BY <2>2, <3>3, <4>1 DEF NetFiles
      <4> QED
        BY <1>1, <4>1, <4>2
    <3> QED
      BY <1>1, <1>3, <1>7, <2>1, <3>1, <3>2, <3>4 DEF Found, Come, Files, NetFiles, Networks
  <2>4. \A i \in Listed' \ {Bridge} :
          \/ Target(netFile[i].name)' = i
          \/ f \in NetNames /\ c.copy.to = i
    <3> SUFFICES ASSUME NEW i \in Listed' \ {Bridge}, ~(f \in NetNames /\ c.copy.to = i)
                 PROVE  Target(netFile[i].name)' = i
      OBVIOUS
    <3>1. PICK n : n = netFile[i].name
      OBVIOUS
    <3>2. i \in Listed /\ i # f /\ n \in NetNames /\ netFile'[i].name = n /\ n \in NetFiles
      BY <1>10, <3>1, RecordName DEF NetFiles
    <3>3. Target(n) = i
      BY <1>1, <2>1, <3>1, <3>2 DEF Found, Files
    <3>4. CASE n = f
      <4>1. c.copy.to \in Listed /\ netFile[c.copy.to].name = f
        BY <1>1, <2>1, <3>2, <3>4
        DEF Found, Come, Files, Listed, Readable, NetShaped, Alias, Networks
      <4>2. c.copy.to = i
        BY <3>1, <3>2, <3>4, <4>1, OneName
      <4> QED
        BY <3>2, <3>4, <4>2
    <3>5. CASE n # f
      BY <2>2, <3>2, <3>3, <3>5
    <3> QED
      BY <3>4, <3>5
  <2>5. \A g \in NetFiles : netFile'[g] # Torn \/ f = g
    BY <1>1, <1>7, <2>1 DEF Found
  <2>6. \A n \in NetNames : netFile'[n] # NoRecord =>
          Target(n)' \in Listed' \/ f \in {n, Target(n)'}
    BY <1>1, <1>7, <1>10, <2>1, <2>2 DEF Found, NetFiles
  <2> QED
    BY <1>3, <2>3, <2>4, <2>5, <2>6 DEF Found, Files
<1>15. \A i \in Listed' : BareHosts(netFile'[i])
  BY <1>10 DEF NetInv, Addressed
<1>16. f \in Networks => BareHosts(d.copy)
  BY <1>0, <1>1, <1>3 DEF NetInv, Addressed, Files
<1> QED
  BY <1>0, <1>1, <1>3, <1>5, <1>8, <1>12, <1>13, <1>14, <1>15, <1>16, NetStepped

(* A file that is written says what its writer was told.                 *)
LEMMA WriteNet ==
    ASSUME NetInv, NEW k \in NetActors, NetWrite(k)
    PROVE  NetInv'
<1>0. PICK c : c = netCall[k]
  OBVIOUS
<1> DEFINE f == c.id
           d == NetAt([c EXCEPT !.fd = "none"], c.next)
<1>1. /\ c.step = "Write" /\ c \in Call /\ NetShaped(c) /\ c # NetIdle
      /\ UNCHANGED <<netFresh, netMenu, netOverlap, netDied>>
  BY <1>0, NetWorks DEF NetWrite
<1>2. PICK x \in Written(c.fd, c.copy, netFile[f]) : netFile' = [netFile EXCEPT ![f] = x]
  BY <1>0 DEF NetWrite
<1>3. x \in {c.copy, Torn, netFile[f]} /\ (c.fd = "clean" => x = c.copy)
  BY <1>1 DEF Written, NetShaped, Call, Descriptors
<1>4. netCall' = [Noticed(netCall, k, f, "shared") EXCEPT ![k] = d]
  BY <1>0 DEF NetWrite
<1>5. f \in NetFiles /\ DOMAIN netFile = NetFiles
  BY <1>1 DEF NetShaped, Files, NetInv, NetTypeOK
<1>6. /\ f \in Networks => c.copy \in Network
      /\ f \in NetNames => c.copy \in Alias /\ c.next = "Idle"
      /\ c.next = "Alias" => f \in NetIds /\ c.op = "create" /\ c.copy.name = c.name
                                /\ c.name \in NetNames
      /\ c.next \in {"Idle", "Alias", "Create", "Delete", "List", "Connect", "Disconnect"}
      /\ c.next \notin {"Idle", "Alias"} => c.op # "none" /\ c.next = NetFirst[c.op] /\ f = Bridge
  <2>1. c.next \notin {"Idle", "Alias"} =>
            c.op # "none" /\ c.next = NetFirst[c.op] /\ f = Bridge
    BY <1>1 DEF NetShaped, Files
  <2>2. c.next \in {"Idle", "Alias", "Create", "Delete", "List", "Connect", "Disconnect"}
    BY <1>1, <2>1 DEF NetFirst, Call, NetOps
  <2> QED
    BY <1>1, <2>1, <2>2 DEF NetShaped, Files
<1>7. /\ d \in Call /\ NetShaped(d)
      /\ d.step = c.next
      /\ c.next # "Idle" => /\ d.id = f /\ d.copy = c.copy /\ d.op = c.op /\ d.name = c.name
                            /\ d.ref = c.ref /\ d.next = c.next /\ d.fd = "none"
      /\ c.next = "Idle" => d = NetIdle
  <2>1. CASE c.next = "Idle"
    BY <2>1, IdleNet DEF NetAt, NetIdle
  <2>2. CASE c.next # "Idle"
    <3>1. d = [c EXCEPT !.fd = "none", !.step = c.next]
      BY <2>2 DEF NetAt
    <3>2. "none" \in Descriptors
      BY DEF Descriptors
    <3> HIDE DEF d
    <3>3. d \in Call
      BY <1>1, <3>1, <3>2 DEF Call
    <3>4. /\ d.step = c.next /\ d.id = f /\ d.copy = c.copy /\ d.op = c.op /\ d.name = c.name
          /\ d.ref = c.ref /\ d.next = c.next /\ d.fd = "none" /\ d.want = c.want /\ d.ctr = c.ctr
      BY <1>1, <3>1 DEF Call
    <3>5. NetShaped(d)
      BY <1>1, <1>6, <2>2, <3>4 DEF NetShaped, Files, Removes, NetFirst, Call, NetOps
    <3> QED
      BY <2>2, <3>3, <3>4, <3>5
  <2> QED
    BY <2>1, <2>2
<1> HIDE DEF d
<1>8. NetMoves(k, d)
  BY <1>1, <1>4, <1>7, NetFiled
<1>9. /\ \A g \in NetFiles : g # f => netFile'[g] = netFile[g]
      /\ netFile'[f] = x /\ DOMAIN netFile' = NetFiles
  BY <1>2, <1>5
<1>10. /\ Torn \notin Network /\ Torn \notin Alias /\ Torn # NoRecord
       /\ NoRecord \notin Network /\ NoRecord \notin Alias
  BY NetRecordsAssumption
<1>11. FilesTyped'
  BY <1>3, <1>5, <1>6, <1>9 DEF FilesTyped, NetInv, NetTypeOK, NetFiles
<1>12. /\ Listed' \subseteq Listed \cup {f}
       /\ \A i \in Listed' : i \in Networks /\ (i # f => netFile'[i] = netFile[i])
       /\ f \in Listed' => netFile'[f] \in {c.copy, netFile[f]}
       /\ Listed \ {f} \subseteq Listed'
  BY <1>3, <1>9, <1>10 DEF Listed, Readable, NetFiles, Networks
<1>13. \A i \in Networks, n \in AnyName : Says(i, n)' \/ Told(d, i, n) => Known(i, n)
  <2> SUFFICES ASSUME NEW i \in Networks, NEW n \in AnyName, Says(i, n)' \/ Told(d, i, n)
               PROVE  Says(i, n) \/ Told(c, i, n)
    BY <1>0 DEF Known
  <2>1. CASE Says(i, n)'
    BY <1>1, <1>3, <1>9, <1>10, <2>1 DEF Says, Told, Files, NetFiles
  <2>2. CASE Told(d, i, n)
    BY <1>1, <1>6, <1>7, <2>2 DEF Told, Files
  <2> QED
    BY <2>1, <2>2
<1>14. NamesAgree'
  <2>1. CalledByName => d.ref # AliasPrefix
    BY <1>0, <1>1, <1>7, NetWorks, Distinct DEF NetIdle
  <2> QED
    BY <1>1, <1>8, <1>13, <2>1, NetAgrees DEF NewlyKnown
<1>15. CalledByName /\ ~netOverlap =>
           /\ x = c.copy
           /\ f \in Networks => \A i \in Listed \ {f} : ApartFrom(i, c.copy)
  BY <1>0, <1>1, <1>3, NetWorks DEF Own, Files
<1>16. (CalledByName /\ ~netOverlap) =>
           Own(d)' /\ \A i, j \in Listed' : i # j => ApartFrom(i, netFile[j])'
  <2> SUFFICES ASSUME CalledByName, ~netOverlap
               PROVE  Own(d)' /\ \A i, j \in Listed' : i # j => ApartFrom(i, netFile[j])'
    OBVIOUS
  <2>1. Own(d)'
    BY <1>6, <1>7 DEF Own, Files
  <2>2. ASSUME NEW i \in Listed', NEW j \in Listed', i # j
        PROVE  ApartFrom(i, netFile[j])'
    <3>1. CASE i # f /\ j # f
      BY <1>12, <2>2, <3>1 DEF NetInv, Sole, ApartFrom
    <3>2. CASE j = f
      <4>1. ApartFrom(i, c.copy)
        BY <1>12, <1>15, <2>2, <3>2
      <4> QED
        BY <1>9, <1>12, <1>15, <2>2, <3>2, <4>1 DEF ApartFrom
    <3>3. CASE i = f
      <4>1. ApartFrom(j, c.copy)
        BY <1>12, <1>15, <2>2, <3>3
      <4> QED
        BY <1>9, <1>12, <1>15, <2>2, <3>3, <4>1 DEF ApartFrom
    <3> QED
      BY <3>1, <3>2, <3>3
  <2> QED
    BY <2>1, <2>2
<1>17. (CalledByName /\ ~netOverlap /\ ~netDied) => Found(d)'
  <2> SUFFICES ASSUME CalledByName, ~netOverlap, ~netDied PROVE Found(d)'
    OBVIOUS
  <2>1. Found(c)
    BY <1>0, <1>1, NetWorks
  <2>2. x = c.copy /\ netFile'[f] = c.copy /\ x # Torn
    BY <1>5, <1>6, <1>9, <1>10, <1>15 DEF NetFiles
  <2>3. \A n : n # f /\ n \in NetFiles => Target(n)' = Target(n)
    BY <1>9 DEF Target
  <2>4. f \in Networks => Listed' = Listed \cup {f}
    BY <1>6, <1>12, <2>2 DEF Listed, Readable
  <2>5. f \in NetNames =>
          /\ Listed' = Listed /\ c.copy \in Alias /\ c.copy.to \in Listed
          /\ netFile[c.copy.to].name = f /\ Target(f)' = c.copy.to
    <3> SUFFICES ASSUME f \in NetNames
                 PROVE  /\ Listed' = Listed /\ c.copy \in Alias /\ c.copy.to \in Listed
                        /\ netFile[c.copy.to].name = f /\ Target(f)' = c.copy.to
      OBVIOUS
    <3>1. c.copy \in Alias /\ c.copy.to \in NetIds /\ f \notin Networks
      BY <1>6, Distinct DEF Alias, Networks
    <3>2. netFile[c.copy.to] \in Network /\ netFile[c.copy.to].name = f
      BY <1>1, <2>1 DEF Found, Come, Files
    <3>3. Listed' = Listed
      BY <1>12, <3>1 DEF Listed, Readable
    <3> QED
      BY <2>2, <3>1, <3>2, <3>3 DEF Listed, Readable, Networks, Target
  <2>6. Come(d)'
    <3>1. d.step = "Alias" => /\ netFile'[f] \in Network /\ netFile'[f].name = c.name
                              /\ netFile'[c.name] = NoRecord
      <4> SUFFICES ASSUME c.next = "Alias"
                   PROVE  /\ netFile'[f] \in Network /\ netFile'[f].name = c.name
                          /\ netFile'[c.name] = NoRecord
        BY <1>7
      <4>1. netFile[c.name] = NoRecord /\ c.name \in NetNames /\ c.name # f /\ f \in Networks
        BY <1>1, <1>6, <2>1, Distinct DEF Found, Come, Files, Networks
      <4> QED
        BY <1>6, <1>9, <2>2, <4>1 DEF NetFiles
    <3> QED
      BY <1>6, <1>7, <3>1 DEF Come, Files
  <2>7. \A i \in Listed' \ {Bridge} :
          Target(netFile[i].name)' = i \/ (c.next = "Alias" /\ f = i)
    <3> SUFFICES ASSUME NEW i \in Listed' \ {Bridge}, ~(c.next = "Alias" /\ f = i)
                 PROVE  Target(netFile[i].name)' = i
      OBVIOUS
    <3>1. PICK n : n = netFile'[i].name
      OBVIOUS
    <3>2. CASE i = f
      <4>1. c.next = "Idle" /\ f \in NetIds /\ n = c.copy.name
        BY <1>6, <1>12, <2>2, <3>1, <3>2 DEF Networks
      <4>2. n \in NetNames /\ Target(n) = f
        BY <1>1, <2>1, <4>1 DEF Found, Come, Files
      <4>3. n # f /\ n \in NetFiles
        BY <4>1, <4>2, Distinct DEF NetFiles
      <4> QED
        BY <2>3, <3>1, <3>2, <4>2, <4>3
    <3>3. CASE i # f
      <4>1. i \in Listed /\ n = netFile[i].name /\ n \in NetNames /\ n \in NetFiles
        BY <1>12, <3>1, <3>3, RecordName DEF NetFiles
      <4>2. Target(n) = i \/ (f \in NetNames /\ c.copy.to = i)
        BY <1>1, <2>1, <4>1 DEF Found, Files
      <4>3. CASE n = f
        <5>1. c.copy.to = i
          BY <2>5, <4>1, <4>3, OneName
        <5> QED
          BY <2>5, <3>1, <4>1, <4>3, <5>1
      <4>4. CASE n # f
        <5>1. Target(n) = i
          BY <2>5, <4>1, <4>2, <4>4
        <5> QED
          BY <2>3, <3>1, <4>1, <4>4, <5>1
      <4> QED
        BY <4>3, <4>4
    <3> QED
      BY <3>2, <3>3
  <2>8. \A g \in NetFiles : netFile'[g] # Torn
    BY <1>1, <1>9, <2>1, <2>2 DEF Found
  <2>9. \A n \in NetNames : netFile'[n] # NoRecord => Target(n)' \in Listed'
    <3> SUFFICES ASSUME NEW n \in NetNames, netFile'[n] # NoRecord PROVE Target(n)' \in Listed'
      OBVIOUS
    <3>1. CASE n = f
      BY <2>5, <3>1
    <3>2. CASE n # f
      <4>1. Target(n)' = Target(n) /\ netFile[n] # NoRecord
        BY <1>9, <2>3, <3>2 DEF NetFiles
      <4>2. Target(n) \in Listed \/ Target(n) = f
        BY <1>1, <2>1, <3>2, <4>1 DEF Found
      <4>3. Target(n) \in NetIds \cup {NoNet}
        BY DEF Target, Alias
      <4>4. Target(n) = f => f \in Networks
        BY <1>5, <4>3, Distinct DEF NetFiles, Networks
      <4> QED
        BY <1>5, <2>4, <2>5, <4>1, <4>2, <4>4 DEF NetFiles
    <3> QED
      BY <3>1, <3>2
  <2> QED
    BY <1>7, <2>6, <2>7, <2>8, <2>9 DEF Found
<1>18. \A i \in Listed' : BareHosts(netFile'[i])
  <2>1. f \in Networks => BareHosts(c.copy)
    BY <1>0, <1>1 DEF NetInv, Addressed, Files
  <2>2. \A i \in Listed : BareHosts(netFile[i])
    BY DEF NetInv, Addressed
  <2> QED
    BY <1>3, <1>9, <1>10, <1>12, <2>1, <2>2 DEF Listed, Readable
<1> QED
  BY <1>0, <1>1, <1>6, <1>7, <1>8, <1>11, <1>14, <1>16, <1>17, <1>18, NetStepped DEF Files

(* The name goes first, when the record is still there.                  *)
LEMMA UnnameNet ==
    ASSUME NetInv, NEW k \in NetActors, NetUnname(k)
    PROVE  NetInv'
<1>0. PICK c : c = netCall[k]
  OBVIOUS
<1> DEFINE d == [c EXCEPT !.step = "Unlink"]
<1>1. /\ c.step = "Unname" /\ c \in Call /\ NetShaped(c) /\ c # NetIdle
      /\ UNCHANGED <<netFresh, netMenu, netOverlap, netDied>>
  BY <1>0, NetWorks DEF NetUnname
<1>2. d = NetAt(c, "Unlink")
  BY DEF NetAt
<1>3. /\ d.step = "Unlink" /\ d.id = c.id /\ d.op = c.op /\ d.name = c.name /\ d.fd = c.fd
      /\ d.ref = c.ref /\ d.next = c.next /\ d.want = c.want /\ d.ctr = c.ctr /\ d \in Call
  <2>1. /\ d.step = "Unlink" /\ d.id = c.id /\ d.op = c.op /\ d.name = c.name /\ d.fd = c.fd
        /\ d.ref = c.ref /\ d.next = c.next /\ d.want = c.want /\ d.ctr = c.ctr
    BY <1>1 DEF Call
  <2>2. "Unlink" \in NetSteps
    BY DEF NetSteps
  <2>3. d \in Call
    BY <1>1, <2>2 DEF Call
  <2> QED
    BY <2>1, <2>3
<1> HIDE DEF d
<1>4. NetShaped(d)
  BY <1>1, <1>3 DEF NetShaped, Files, Removes
<1>5. c.op \in Removes /\ c.id \in Networks
  BY <1>1 DEF NetShaped
<1>6. \A i, n : ~Told(d, i, n)
  BY <1>3 DEF Told, Files
<1>7. CalledByName /\ ~netOverlap =>
          /\ netFile[c.id] \in Network /\ c.id \in NetIds /\ c.id \in Listed
          /\ c.op # "rm_f" => netFile[c.id].ends = {}
  BY <1>0, <1>1, <1>5, NetWorks DEF Own, Listed, Readable
<1>8. CASE c.name \in NetNames
  <2> DEFINE f == c.name
  <2>1. /\ netFile' = [netFile EXCEPT ![f] = NoRecord]
        /\ netCall' = [Noticed(netCall, k, f, "gone") EXCEPT ![k] = d]
    BY <1>0, <1>2, <1>8 DEF NetUnname, NetUnlinked
  <2>2. NetMoves(k, d)
    BY <1>1, <1>3, <1>4, <2>1, NetFiled
  <2>3. f \in NetFiles /\ f \notin Networks /\ DOMAIN netFile = NetFiles
    BY <1>8, Distinct DEF NetFiles, Networks, NetInv, NetTypeOK
  <2>4. /\ \A g \in NetFiles : g # f => netFile'[g] = netFile[g]
        /\ netFile'[f] = NoRecord /\ DOMAIN netFile' = NetFiles
    BY <2>1, <2>3
  <2>5. FilesTyped'
    BY <2>4 DEF FilesTyped, NetInv, NetTypeOK, NetFiles
  <2>6. Listed' = Listed /\ \A i \in Networks : netFile'[i] = netFile[i]
    BY <2>3, <2>4 DEF Listed, Readable, NetFiles
  <2>7. \A i \in Networks, n \in AnyName : Says(i, n)' => Known(i, n)
    BY <2>4, <2>6, NetRecordsAssumption DEF Says, Known, NetFiles
  <2>8. NamesAgree'
    BY <1>0, <1>1, <1>3, <1>6, <2>2, <2>7, NetWorks, NetAgrees DEF NewlyKnown
  <2>9. (CalledByName /\ ~netOverlap) =>
            Own(d)' /\ \A i, j \in Listed' : i # j => ApartFrom(i, netFile[j])'
    <3> SUFFICES ASSUME CalledByName, ~netOverlap
                 PROVE  Own(d)' /\ \A i, j \in Listed' : i # j => ApartFrom(i, netFile[j])'
      OBVIOUS
    <3>1. Own(d)'
      BY <1>3, <1>5, <1>7, <2>6 DEF Own, Files
    <3>2. \A i, j \in Listed' : i # j => ApartFrom(i, netFile[j])'
      BY <2>6 DEF NetInv, Sole, ApartFrom, Listed
    <3> QED
      BY <3>1, <3>2
  <2>10. (CalledByName /\ ~netOverlap /\ ~netDied) => Found(d)'
    <3> SUFFICES ASSUME CalledByName, ~netOverlap, ~netDied PROVE Found(d)'
      OBVIOUS
    <3>1. Found(c)
      BY <1>0, <1>1, NetWorks
    <3>2. \A n \in NetNames : n # f => Target(n)' = Target(n)
      BY <2>4 DEF Target, NetFiles
    <3>3. Come(d)'
      BY <1>1, <1>3, <1>5, <2>4, <2>6, <3>1 DEF Come, Files, Found
    <3>4. \A i \in Listed' \ {Bridge} : Target(netFile[i].name)' = i \/ c.id = i
      <4> SUFFICES ASSUME NEW i \in Listed \ {Bridge}, c.id # i
                   PROVE  Target(netFile[i].name)' = i
        BY <2>6
      <4>1. PICK n : n = netFile[i].name
        OBVIOUS
      <4>2. n \in NetNames /\ Target(n) = i /\ netFile'[i].name = n
        BY <1>1, <2>6, <3>1, <4>1, RecordName DEF Found, Files
      <4>3. n # f
        BY <1>1, <1>7, <3>1, <4>1, OneName DEF Found, Come
      <4> QED
        BY <3>2, <4>2, <4>3
    <3> QED
      BY <1>1, <1>3, <2>3, <2>4, <2>6, <3>1, <3>2, <3>3, <3>4, NetRecordsAssumption
      DEF Found, Files, NetFiles
  <2>11. \A i \in Listed' : BareHosts(netFile'[i])
    BY <2>6 DEF NetInv, Addressed, Listed
  <2> QED
    BY <1>0, <1>1, <1>3, <2>2, <2>5, <2>8, <2>9, <2>10, <2>11, NetStepped DEF Files
<1>9. CASE c.name \notin NetNames
  <2>1. netCall' = [netCall EXCEPT ![k] = d] /\ UNCHANGED netFile
    BY <1>0, <1>2, <1>9 DEF NetUnname, NetGoto
  <2>2. NetQuiet(k, d)
    BY <1>1, <1>3, <1>4, <2>1 DEF NetQuiet
  <2>3. CalledByName /\ ~netOverlap => Own(d)
    BY <1>3, <1>7 DEF Own, Files
  <2>4. CalledByName /\ ~netOverlap /\ ~netDied => Found(d)
    <3> SUFFICES ASSUME CalledByName, ~netOverlap, ~netDied PROVE FALSE
      OBVIOUS
    <3>1. netFile[c.id].name = c.name
      BY <1>0, <1>1, NetWorks DEF Found, Come
    <3> QED
      BY <1>7, <1>9, <3>1, RecordName, Distinct
  <2> QED
    BY <1>0, <1>1, <1>3, <1>6, <2>2, <2>3, <2>4, NetWorks, NetQuietly DEF Files
<1> QED
  BY <1>8, <1>9

(* The record goes when no name leads to it.                             *)
LEMMA UnlinkNet ==
    ASSUME NetInv, NEW k \in NetActors, NetUnlink(k)
    PROVE  NetInv'
<1>0. PICK c : c = netCall[k]
  OBVIOUS
<1> DEFINE f == c.id
           d == NetAt(c, c.next)
<1>1. /\ c.step = "Unlink" /\ c \in Call /\ NetShaped(c) /\ c # NetIdle
      /\ UNCHANGED <<netFresh, netMenu, netOverlap, netDied>>
      /\ netFile' = [netFile EXCEPT ![f] = NoRecord]
      /\ netCall' = [Noticed(netCall, k, f, "gone") EXCEPT ![k] = d]
  BY <1>0, NetWorks DEF NetUnlink, NetUnlinked
<1>2. c.op \in Removes /\ f \in Networks /\ c.next = (IF c.op = "prune" THEN "Each" ELSE "Idle")
      /\ c.fd = "none"
  BY <1>1 DEF NetShaped
<1>3. /\ d \in Call /\ NetShaped(d) /\ d.step \in {"Idle", "Each"}
      /\ d.ref = c.ref \/ d = NetIdle
  <2>1. CASE c.next = "Idle"
    BY <2>1, IdleNet DEF NetAt, NetIdle
  <2>2. CASE c.next = "Each"
    <3>1. d = [c EXCEPT !.step = "Each"] /\ c.op = "prune"
      BY <1>2, <2>2 DEF NetAt
    <3> HIDE DEF d
    <3>2. d.step = "Each" /\ d.op = "prune" /\ d.ref = c.ref /\ d.fd = "none"
      BY <1>1, <1>2, <3>1 DEF Call
    <3>3. d \in Call
      BY <1>1, <3>1 DEF Call, NetSteps
    <3> QED
      BY <3>2, <3>3 DEF NetShaped, Files
  <2> QED
    BY <1>2, <2>1, <2>2
<1> HIDE DEF d
<1>4. NetMoves(k, d)
  BY <1>1, <1>3, NetFiled
<1>5. f \in NetFiles /\ f \notin NetNames /\ DOMAIN netFile = NetFiles
  BY <1>2, Distinct DEF NetFiles, Networks, NetInv, NetTypeOK
<1>6. /\ \A g \in NetFiles : g # f => netFile'[g] = netFile[g]
      /\ netFile'[f] = NoRecord /\ DOMAIN netFile' = NetFiles
  BY <1>1, <1>5
<1>7. FilesTyped'
  BY <1>6 DEF FilesTyped, NetInv, NetTypeOK, NetFiles
<1>8. Listed' = Listed \ {f} /\ \A i \in Listed' : netFile'[i] = netFile[i]
  BY <1>6, NetRecordsAssumption DEF Listed, Readable, NetFiles
<1>9. \A i \in Networks, n \in AnyName : Says(i, n)' => Known(i, n)
  BY <1>5, <1>6, NetRecordsAssumption DEF Says, Known, NetFiles
<1>10. NamesAgree'
  <2>1. CalledByName => d.ref # AliasPrefix
    BY <1>0, <1>1, <1>3, NetWorks, Distinct DEF NetIdle
  <2>2. \A i, n : ~Told(d, i, n)
    BY <1>3 DEF Told, Files
  <2> QED
    BY <1>1, <1>4, <1>9, <2>1, <2>2, NetAgrees DEF NewlyKnown
<1>11. (CalledByName /\ ~netOverlap) =>
           Own(d)' /\ \A i, j \in Listed' : i # j => ApartFrom(i, netFile[j])'
  <2>1. Own(d)'
    BY <1>3 DEF Own, Files
  <2>2. CalledByName /\ ~netOverlap => \A i, j \in Listed' : i # j => ApartFrom(i, netFile[j])'
    BY <1>8 DEF NetInv, Sole, ApartFrom
  <2> QED
    BY <2>1, <2>2
<1>12. (CalledByName /\ ~netOverlap /\ ~netDied) => Found(d)'
  <2> SUFFICES ASSUME CalledByName, ~netOverlap, ~netDied PROVE Found(d)'
    OBVIOUS
  <2>1. Found(c) /\ Own(c)
    BY <1>0, <1>1, NetWorks
  <2>2. f \in Listed /\ netFile[f].name = c.name /\ netFile[c.name] = NoRecord
    BY <1>1, <1>2, <2>1 DEF Found, Come, Own, Listed, Readable
  <2>3. \A n \in NetNames : Target(n)' = Target(n) /\ netFile'[n] = netFile[n]
    BY <1>5, <1>6 DEF Target, NetFiles
  <2>4. Come(d)'
    BY <1>3 DEF Come, Files
  <2>5. \A i \in Listed' \ {Bridge} : Target(netFile[i].name)' = i
    <3> SUFFICES ASSUME NEW i \in Listed \ {Bridge}, i # f, netFile'[i] = netFile[i]
                 PROVE  Target(netFile[i].name)' = i
      BY <1>8
    <3>1. PICK n : n = netFile[i].name
      OBVIOUS
    <3>2. n \in NetNames /\ Target(n) = i
      BY <1>1, <2>1, <3>1, RecordName DEF Found, Files
    <3> QED
      BY <2>3, <3>1, <3>2
  <2>6. \A g \in NetFiles : netFile'[g] # Torn
    BY <1>1, <1>6, <2>1, NetRecordsAssumption DEF Found
  <2>7. \A n \in NetNames : netFile'[n] # NoRecord => Target(n)' \in Listed'
    <3> SUFFICES ASSUME NEW n \in NetNames, netFile[n] # NoRecord
                 PROVE  Target(n) \in Listed \ {f}
      BY <1>8, <2>3
    <3>1. Target(n) \in Listed
      BY <1>1, <2>1 DEF Found
    <3>2. ASSUME Target(n) = f PROVE FALSE
      <4>1. netFile[n] \in Alias /\ netFile[n].to = f
        BY <1>2, <3>2, Distinct DEF Target, Networks
      <4>2. Known(f, n) /\ n \in AnyName
        BY <4>1 DEF Known, Says, AnyName
      <4>3. Known(f, c.name) /\ c.name \in AnyName
        BY <2>2, RecordName DEF AnyName
      <4>4. n = c.name
        BY <1>2, <4>2, <4>3 DEF NetInv, NamesAgree
      <4> QED
        BY <2>2, <4>4
    <3> QED
      BY <3>1, <3>2
  <2> QED
    BY <2>4, <2>5, <2>6, <2>7 DEF Found
<1>13. \A i \in Listed' : BareHosts(netFile'[i])
  BY <1>8 DEF NetInv, Addressed
<1> QED
  BY <1>0, <1>1, <1>3, <1>4, <1>7, <1>10, <1>11, <1>12, <1>13, NetStepped DEF Files

-----------------------------------------------------------------------------
(* Calls begin, are killed, and nothing happens.                           *)

(* A call begins with nothing in hand.                                   *)
LEMMA BegunNet ==
    ASSUME NetInv, NEW k \in NetActors, NEW c \in Call, NetBegin(k, c),
           c.op \in NetOps, c.fd = "none", CalledByName => c.ref # AliasPrefix,
           c.op = "create" => c.name \in NetNames /\ c.want \in GivenSubnets \cup {NoSubnet},
           c.op = "connect" => c.want \in Hosts /\ c.ctr \in Endpoints
    PROVE  NetInv'
<1> DEFINE d == [c EXCEPT !.step = "Defaults", !.next = NetFirst[c.op]]
<1>1. /\ netCall[k] = NetIdle /\ netCall' = [netCall EXCEPT ![k] = d]
      /\ netOverlap' = (netOverlap \/ \E j \in NetActors : netCall[j] # NetIdle)
      /\ UNCHANGED <<netFile, netFresh, netMenu, netDied>>
  BY DEF NetBegin
<1>2. /\ d.step = "Defaults" /\ d.next = NetFirst[d.op] /\ d.op = c.op /\ d.ref = c.ref
      /\ d.fd = "none" /\ d.name = c.name /\ d.want = c.want /\ d.ctr = c.ctr
  BY DEF Call
<1>3. d \in Call
  <2>1. "Defaults" \in NetSteps /\ NetFirst[c.op] \in NetSteps
    BY DEF NetSteps, NetFirst, NetOps
  <2> QED
    BY <2>1 DEF Call
<1> HIDE DEF d
<1>4. NetShaped(d)
  BY <1>2 DEF NetShaped, Files, NetOps
<1>5. netCall \in [NetActors -> Call] /\ netCall'[k] = d
  BY <1>1 DEF NetInv, NetTypeOK
<1>6. Listed' = Listed /\ (CalledByName <=> CalledByName')
  BY <1>1 DEF Listed, Readable, CalledByName
<1>7. NetTypeOK'
  BY <1>1, <1>3, <1>5 DEF NetInv, NetTypeOK
<1>8. NetShapes'
  BY <1>1, <1>4, <1>5 DEF NetInv, NetShapes
<1>9. netOverlap' \in BOOLEAN /\ (~netOverlap' => ~netOverlap /\ \A j \in NetActors :
          netCall[j] = NetIdle /\ (j # k => netCall'[j] = NetIdle))
  BY <1>1, <1>5 DEF NetInv, NetTypeOK
<1>10. NetAlone'
  BY <1>9 DEF NetAlone
<1>11. NamesAgree'
  <2>1. \A i, n : Known(i, n)' => Known(i, n)
    <3>1. \A j \in NetActors : \A i, n :
            Told(netCall'[j], i, n) => j # k /\ netCall'[j] = netCall[j]
      BY <1>1, <1>2, <1>5 DEF Told, Files
    <3>2. \A i, n : Says(i, n)' = Says(i, n)
      BY <1>1 DEF Says
    <3> QED
      BY <3>1, <3>2 DEF Known, Told
  <2>2. CalledByName => \A j \in NetActors : netCall'[j].ref # AliasPrefix
    BY <1>1, <1>2, <1>5 DEF NetInv, NamesAgree
  <2> QED
    BY <1>1, <1>6, <2>1, <2>2 DEF NetInv, NamesAgree
<1>12. Sole'
  <2> SUFFICES ASSUME CalledByName, ~netOverlap'
               PROVE  /\ \A j \in NetActors : Own(netCall[j])'
                      /\ \A i, j \in Listed : i # j => ApartFrom(i, netFile[j])'
    BY <1>6 DEF Sole
  <2>1. Own(d)' /\ Own(NetIdle)'
    BY <1>2 DEF Own, NetIdle, Files
  <2>2. \A i, j \in Listed : i # j => ApartFrom(i, netFile[j])'
    BY <1>1, <1>9 DEF NetInv, Sole, ApartFrom
  <2> QED
    BY <1>5, <1>9, <2>1, <2>2
<1>13. NetUndisturbed'
  <2> SUFFICES ASSUME CalledByName, ~netOverlap', ~netDied
               PROVE  /\ \A j \in NetActors : netCall'[j] # NetIdle => Found(netCall[j])'
                      /\ NetsIdle' => Found(NetIdle)'
    BY <1>1, <1>6 DEF NetUndisturbed
  <2>1. Found(NetIdle)
    BY <1>9 DEF NetInv, NetUndisturbed, NetsIdle
  <2>2. Found(d)
    <3>1. Come(d)
      BY <1>2 DEF Come, Files
    <3> QED
      BY <1>2, <2>1, <3>1 DEF Found, NetIdle, Files
  <2>3. Found(d)' /\ Found(NetIdle)'
    BY <1>1, <1>6, <2>1, <2>2 DEF Found, Come, Target
  <2> QED
    BY <1>5, <1>9, <2>3
<1>14. Addressed'
  BY <1>1, <1>2, <1>5, <1>6 DEF NetInv, Addressed, Files
<1> QED
  BY <1>7, <1>8, <1>10, <1>11, <1>12, <1>13, <1>14 DEF NetInv

(* Who is killed leaves the files as they are.                           *)
LEMMA DiedNet ==
    ASSUME NetInv, NEW k \in NetActors, netDied' = TRUE,
           netCall' = [netCall EXCEPT ![k] = NetIdle],
           UNCHANGED <<netFile, netFresh, netMenu, netOverlap>>
    PROVE  NetInv'
<1>1. Listed' = Listed /\ (CalledByName <=> CalledByName')
  BY DEF Listed, Readable, CalledByName
<1>2. \A j \in NetActors : netCall'[j] = IF j = k THEN NetIdle ELSE netCall[j]
  BY DEF NetInv, NetTypeOK
<1>3. NetTypeOK' /\ NetShapes'
  BY <1>2, IdleNet DEF NetInv, NetTypeOK, NetShapes
<1>4. NetAlone'
  BY <1>2 DEF NetInv, NetAlone
<1>5. NamesAgree'
  <2>1. \A i, n : Known(i, n)' => Known(i, n)
    <3>1. \A j \in NetActors : \A i, n : Told(netCall'[j], i, n) => Told(netCall[j], i, n)
      BY <1>2 DEF Told, Files, NetIdle
    <3>2. \A i, n : Says(i, n)' = Says(i, n)
      BY DEF Says
    <3> QED
      BY <3>1, <3>2 DEF Known, Told
  <2>2. CalledByName => \A j \in NetActors : netCall'[j].ref # AliasPrefix
    BY <1>2, Distinct DEF NetInv, NamesAgree, NetIdle
  <2> QED
    BY <1>1, <2>1, <2>2 DEF NetInv, NamesAgree
<1>6. Sole'
  <2> SUFFICES ASSUME CalledByName, ~netOverlap
               PROVE  /\ \A j \in NetActors : Own(netCall[j])'
                      /\ \A i, j \in Listed : i # j => ApartFrom(i, netFile[j])'
    BY <1>1 DEF Sole
  <2>1. Own(NetIdle)'
    BY DEF Own, NetIdle, Files
  <2>2. \A j \in NetActors : Own(netCall[j])'
    BY <1>1, <1>2, <2>1 DEF NetInv, Sole, Own, ApartFrom
  <2>3. \A i, j \in Listed : i # j => ApartFrom(i, netFile[j])'
    BY DEF NetInv, Sole, ApartFrom
  <2> QED
    BY <2>2, <2>3
<1>7. NetUndisturbed'
  BY DEF NetUndisturbed
<1>8. Addressed'
  BY <1>1, <1>2 DEF NetInv, Addressed, NetIdle, Files
<1> QED
  BY <1>3, <1>4, <1>5, <1>6, <1>7, <1>8 DEF NetInv

(* Where nothing happens, nothing is lost.                               *)
LEMMA StillNet == NetInv /\ UNCHANGED netVars => NetInv'
<1> SUFFICES ASSUME NetInv, UNCHANGED netVars PROVE NetInv'
  OBVIOUS
<1> USE DEF netVars
<1>1. Listed' = Listed /\ (CalledByName <=> CalledByName') /\ (NetsIdle <=> NetsIdle')
  BY DEF Listed, Readable, CalledByName, NetsIdle
<1>2. NetTypeOK' /\ NetShapes' /\ NetAlone'
  BY DEF NetInv, NetTypeOK, NetShapes, NetAlone
<1>3. NamesAgree'
  <2>1. \A i, n : Known(i, n)' <=> Known(i, n)
    BY DEF Known, Says, Told
  <2> QED
    BY <1>1, <2>1 DEF NetInv, NamesAgree
<1>4. Sole'
  BY <1>1 DEF NetInv, Sole, Own, ApartFrom
<1>5. NetUndisturbed'
  BY <1>1 DEF NetInv, NetUndisturbed, Found, Come, Target
<1>6. Addressed'
  BY <1>1 DEF NetInv, Addressed
<1> QED
  BY <1>2, <1>3, <1>4, <1>5, <1>6 DEF NetInv

(* The requests of users are such calls.                                 *)
LEMMA RequestNet ==
    ASSUME NetInv, NEW k \in NetActors, NetRequest(k)
    PROVE  NetInv'
<1>1. /\ netMenu.names \subseteq NetNames /\ netMenu.refs \subseteq NetRefs
      /\ netMenu.ctrs \subseteq Endpoints /\ netMenu.hosts \subseteq Hosts
  BY NetMenusAssumption DEF NetInv, NetTypeOK, NetMenu
<1>2. NoHost \in Hosts /\ NetIdle \in Call /\ NetIdle.fd = "none" /\ NetIdle.ref # AliasPrefix
  BY HostAssumption, IdleNet, Distinct DEF Hosts, NoHost, NetIdle
<1>3. CASE AskRm(k)
  <2>1. PICK op \in {"rm", "rm_f"} \cap netMenu.ops, x \in netMenu.refs :
          NetBegin(k, [NetIdle EXCEPT !.op = op, !.ref = x])
    BY <1>3 DEF AskRm
  <2> DEFINE c == [NetIdle EXCEPT !.op = op, !.ref = x]
  <2>2. c \in Call /\ c.op = op /\ c.fd = "none" /\ c.ref = x
    BY <1>1, <1>2, <2>1 DEF Call, NetOps
  <2>3. CalledByName => x # AliasPrefix
    BY <2>1 DEF CalledByName
  <2> HIDE DEF c
  <2> QED
    BY <2>1, <2>2, <2>3, BegunNet DEF c, NetOps
<1>4. CASE AskCreate(k)
  <2>1. PICK n \in netMenu.names, b \in GivenSubnets \cup {NoSubnet} :
          NetBegin(k, [NetIdle EXCEPT !.op = "create", !.name = n, !.want = b])
    BY <1>4 DEF AskCreate
  <2> DEFINE c == [NetIdle EXCEPT !.op = "create", !.name = n, !.want = b]
  <2>2. /\ c \in Call /\ c.op = "create" /\ c.fd = "none" /\ c.ref = NetIdle.ref
        /\ c.name = n /\ c.want = b
    BY <1>1, <1>2, <2>1 DEF Call, NetOps
  <2> HIDE DEF c
  <2> QED
    BY <1>1, <1>2, <2>1, <2>2, BegunNet DEF c, NetOps
<1>5. CASE AskPrune(k)
  <2> DEFINE c == [NetIdle EXCEPT !.op = "prune"]
  <2>1. NetBegin(k, c)
    BY <1>5 DEF AskPrune
  <2>2. c \in Call /\ c.op = "prune" /\ c.fd = "none" /\ c.ref = NetIdle.ref
    BY <1>2 DEF Call, NetOps
  <2> HIDE DEF c
  <2> QED
    BY <1>2, <2>1, <2>2, BegunNet DEF NetOps
<1>6. CASE AskConnect(k)
  <2>1. PICK x \in netMenu.refs, e \in netMenu.ctrs, h \in netMenu.hosts \cup {NoHost} :
          NetBegin(k, [NetIdle EXCEPT !.op = "connect", !.ref = x, !.ctr = e, !.want = h])
    BY <1>6 DEF AskConnect
  <2> DEFINE c == [NetIdle EXCEPT !.op = "connect", !.ref = x, !.ctr = e, !.want = h]
  <2>2. /\ c \in Call /\ c.op = "connect" /\ c.fd = "none" /\ c.ref = x
        /\ c.ctr = e /\ c.want = h
    BY <1>1, <1>2, <2>1 DEF Call, NetOps
  <2>3. CalledByName => x # AliasPrefix
    BY <2>1 DEF CalledByName
  <2> HIDE DEF c
  <2> QED
    BY <1>1, <1>2, <2>1, <2>2, <2>3, BegunNet DEF c, NetOps
<1>7. CASE AskDisconnect(k)
  <2>1. PICK x \in netMenu.refs, e \in netMenu.ctrs :
          NetBegin(k, [NetIdle EXCEPT !.op = "disconnect", !.ref = x, !.ctr = e])
    BY <1>7 DEF AskDisconnect
  <2> DEFINE c == [NetIdle EXCEPT !.op = "disconnect", !.ref = x, !.ctr = e]
  <2>2. c \in Call /\ c.op = "disconnect" /\ c.fd = "none" /\ c.ref = x
    BY <1>1, <1>2, <2>1 DEF Call, NetOps
  <2>3. CalledByName => x # AliasPrefix
    BY <2>1 DEF CalledByName
  <2> HIDE DEF c
  <2> QED
    BY <2>1, <2>2, <2>3, BegunNet DEF c, NetOps
<1> QED
  BY <1>3, <1>4, <1>5, <1>6, <1>7 DEF NetRequest

(* A step of a call, whoever makes it.                                     *)
LEMMA StepNet ==
    ASSUME NetInv, NEW k \in NetActors, NetStep(k)
    PROVE  NetInv'
BY DefaultsNet, TruncateNet, WriteNet, CreateNet, SubnetNet, AliasNet, DeleteNet, UnnameNet,
   UnlinkNet, PruneNet, ConnectNet, DisconnectNet DEF NetStep

(* All steps together.                                                   *)
LEMMA NextNet == NetInv /\ [NetNext]_netVars => NetInv'
<1> SUFFICES ASSUME NetInv, [NetNext]_netVars PROVE NetInv'
  OBVIOUS
<1>1. CASE UNCHANGED netVars
  BY <1>1, StillNet
<1>2. ASSUME NEW k \in NetActors, NetRequest(k) \/ NetStep(k)
      PROVE  NetInv'
  BY <1>2, RequestNet, StepNet
<1>3. ASSUME NEW k \in NetActors, NetDie(k)
      PROVE  NetInv'
  BY <1>3, DiedNet DEF NetDie
<1> QED
  BY <1>1, <1>2, <1>3 DEF NetNext

-----------------------------------------------------------------------------
(* What the invariant says of the properties.                              *)

(* The invariant says what the properties say.                           *)
LEMMA NetShows == NetInv => NamesLeadHome /\ NetworksApart /\ NetworksFound /\ EndpointsSpared
<1> SUFFICES ASSUME NetInv PROVE NamesLeadHome /\ NetworksApart /\ NetworksFound /\ EndpointsSpared
  OBVIOUS
<1>1. NamesLeadHome
  <2> SUFFICES ASSUME CalledByName, NEW n \in NetNames, Target(n) \in Listed
               PROVE  netFile[Target(n)].name = n
    BY DEF NamesLeadHome
  <2>1. PICK t : t = Target(n)
    OBVIOUS
  <2>2. t \in Networks /\ Known(t, netFile[t].name) /\ netFile[t].name \in AnyName
    BY <2>1, RecordName DEF AnyName
  <2>3. netFile[n] \in Alias /\ netFile[n].to = t
    BY <2>1, <2>2, Distinct DEF Target, Networks
  <2>4. Known(t, n) /\ n \in AnyName
    BY <2>3 DEF Known, Says, AnyName
  <2> QED
    BY <2>1, <2>2, <2>4 DEF NetInv, NamesAgree
<1>2. NetworksApart
  BY DEF NetInv, Sole, ApartFrom, NetworksApart
<1>3. NetworksFound
  <2> SUFFICES ASSUME CalledByName, ~netOverlap, ~netDied, NetsIdle
               PROVE  /\ \A i \in Listed \ {Bridge} : Target(netFile[i].name) = i
                      /\ \A f \in NetFiles : netFile[f] # Torn
                      /\ \A n \in NetNames : netFile[n] # NoRecord => Target(n) \in Listed
    BY DEF NetworksFound
  <2>1. Found(NetIdle)
    BY DEF NetInv, NetUndisturbed
  <2> QED
    BY <2>1 DEF Found, NetIdle, Files
<1>4. EndpointsSpared
  BY DEF NetInv, Sole, Own, EndpointsSpared
<1> QED
  BY <1>1, <1>2, <1>3, <1>4

(* Only a step of its own moves a call that is about to connect.           *)
LEMMA OwnStep ==
    ASSUME NetInv, NEW j \in NetActors, NEW k \in NetActors, j # k,
           NetRequest(j) \/ NetStep(j) \/ NetDie(j)
    PROVE  netCall'[k].step = netCall[k].step
<1>0. netCall \in [NetActors -> Call]
  BY DEF NetInv, NetTypeOK
<1>1. ASSUME NEW d, netCall' = [netCall EXCEPT ![j] = d]
      PROVE  netCall'[k].step = netCall[k].step
  BY <1>0, <1>1
<1>2. ASSUME NEW f, NEW s \in {"clean", "shared", "gone"}, NEW d,
             netCall' = [Noticed(netCall, j, f, s) EXCEPT ![j] = d]
      PROVE  netCall'[k].step = netCall[k].step
  <2> DEFINE N == Noticed(netCall, j, f, s)
  <2>1. N \in [NetActors -> Call] /\ N[k].step = netCall[k].step
    BY NetNoticed DEF NetInv, SameCall
  <2> HIDE DEF N
  <2>2. netCall' = [N EXCEPT ![j] = d]
    BY <1>2 DEF N
  <2> QED
    BY <2>1, <2>2
<1>3. CASE NetRequest(j)
  <2>1. \A c : NetBegin(j, c) => netCall'[k].step = netCall[k].step
    BY <1>1 DEF NetBegin
  <2> QED
    BY <1>3, <2>1 DEF NetRequest, AskRm, AskCreate, AskPrune, AskConnect, AskDisconnect
<1>4. CASE NetTruncate(j)
  <2> DEFINE N == Noticed(netCall, j, netCall[j].id, "clean")
  <2>1. N \in [NetActors -> Call] /\ N[k].step = netCall[k].step
    BY NetNoticed DEF NetInv, SameCall
  <2>2. netCall' = [N EXCEPT ![j].step = "Write", ![j].fd = "clean"]
    BY <1>4 DEF NetTruncate
  <2> HIDE DEF N
  <2> QED
    BY <2>1, <2>2
<1>5. CASE NetWrite(j)
  BY <1>2, <1>5 DEF NetWrite
<1>6. CASE NetUnname(j)
  BY <1>1, <1>2, <1>6 DEF NetUnname, NetUnlinked, NetGoto
<1>7. CASE NetUnlink(j)
  BY <1>2, <1>7 DEF NetUnlink, NetUnlinked
<1>8. CASE ensureDefaults(j) \/ NetSubnet(j) \/ NetAlias(j)
  BY <1>1, <1>8 DEF ensureDefaults, NetSubnet, NetAlias
<1>9. CASE NetCreate(j) \/ DeleteForce(j) \/ NetPrune(j)
  BY <1>1, <1>9 DEF NetCreate, DeleteForce, NetDeleting, NetPrune, NetGoto
<1>10. CASE Connect(j) \/ Disconnect(j)
  BY <1>1, <1>10 DEF Connect, Disconnect, NetUpdating, NetGoto
<1>11. CASE NetDie(j)
  BY <1>1, <1>11 DEF NetDie
<1> QED
  BY <1>3, <1>4, <1>5, <1>6, <1>7, <1>8, <1>9, <1>10, <1>11 DEF NetStep

(* The record that is about to be written has no address twice that a user *)
(* has asked for.                                                          *)
LEMMA ConnectKeeps ==
    ASSUME NetInv, NEW k \in NetActors, Connect(k), netCall'[k].step = "Truncate",
           NEW e \in netCall'[k].copy.ends, NEW f \in netCall'[k].copy.ends,
           e.ip.bare, ~f.ip.bare, f \notin netFile[netCall'[k].id].ends
    PROVE  e.ip # [f.ip EXCEPT !.bare = TRUE]
<1> DEFINE c == netCall[k]
           ip(n) == IF c.want # NoHost THEN [host |-> c.want, bare |-> TRUE]
                    ELSE allocateContainerIP(n)
           New(n) == [n EXCEPT !.ends = n.ends \cup {[ctr |-> c.ctr, ip |-> ip(n)]}]
           found == {g \in NetGet(c.ref) : c.ctr \notin Connected(g.net)}
<1>1. /\ c.step = "Connect"
      /\ \/ \E g \in found : netCall' = [netCall EXCEPT ![k] = Saving(c, g.id, New(g.net), "Idle")]
         \/ found = {} /\ NetGoto(k, c, "Idle")
  BY DEF Connect, NetUpdating
<1>2. c \in Call /\ netCall \in [NetActors -> Call]
  BY DEF NetInv, NetTypeOK
<1>3. ~NetGoto(k, c, "Idle")
  BY <1>2 DEF NetGoto, NetAt, NetIdle
<1>4. PICK g \in found : netCall' = [netCall EXCEPT ![k] = Saving(c, g.id, New(g.net), "Idle")]
  BY <1>1, <1>3
<1>5. g.net \in Network /\ (g.net.ends = {} \/ (g.id \in Listed /\ g.net = netFile[g.id]))
  BY GetNet DEF NetInv
<1> DEFINE new == [ctr |-> c.ctr, ip |-> ip(g.net)]
<1>6. New(g.net).ends = g.net.ends \cup {new}
  BY <1>5 DEF Network
<1> HIDE DEF New, new
<1>7. netCall'[k].copy = New(g.net) /\ netCall'[k].id = g.id
  BY <1>2, <1>4 DEF Saving, Call
<1>8. e \in g.net.ends /\ f = new /\ \A x \in g.net.ends : x.ip.bare => x.ip.host # NoHost
  BY <1>5, <1>6, <1>7 DEF NetInv, Addressed, BareHosts
<1>9. f.ip = allocateContainerIP(g.net)
  BY <1>8 DEF new
<1>10. e.ip.host # f.ip.host /\ f.ip \in Address
  BY <1>5, <1>8, <1>9, AllocatedIP
<1> QED
  BY <1>10 DEF Address

(* No step breaks what is asked for.                                     *)
LEMMA AskedStep == NetInv /\ [NetNext]_netVars =>
    [\A k \in NetActors, i \in Networks :
          (netCall[k].step = "Connect" /\ netCall'[k].step = "Truncate" /\ netCall'[k].id = i) =>
              \A e, f \in netCall'[k].copy.ends :
                  (e.ip.bare /\ ~f.ip.bare /\ f \notin netFile[i].ends) =>
                      e.ip # [f.ip EXCEPT !.bare = TRUE]]_netVars
<1> SUFFICES ASSUME NetInv, NetNext,
                    NEW k \in NetActors, netCall[k].step = "Connect", netCall'[k].step = "Truncate",
                    NEW e \in netCall'[k].copy.ends, NEW f \in netCall'[k].copy.ends,
                    e.ip.bare, ~f.ip.bare, f \notin netFile[netCall'[k].id].ends
             PROVE  e.ip # [f.ip EXCEPT !.bare = TRUE]
  OBVIOUS
<1>1. PICK j \in NetActors : NetRequest(j) \/ NetStep(j) \/ NetDie(j)
  BY DEF NetNext
<1>2. j = k
  BY <1>1, OwnStep
<1>3. ~NetRequest(k) /\ ~NetDie(k)
  <2>1. netCall[k] # NetIdle
    BY DEF NetIdle
  <2>2. \A c : ~NetBegin(k, c)
    BY <2>1 DEF NetBegin
  <2>3. ~NetRequest(k)
    BY <2>2 DEF NetRequest, AskRm, AskCreate, AskPrune, AskConnect, AskDisconnect
  <2>4. ~NetDie(k)
    BY DEF NetDie, NetInv, NetTypeOK, NetIdle
  <2> QED
    BY <2>3, <2>4
<1>4. Connect(k)
  BY <1>1, <1>2, <1>3
  DEF NetStep, ensureDefaults, NetTruncate, NetWrite, NetCreate, NetSubnet, NetAlias, DeleteForce,
      NetDeleting, NetUnname, NetUnlink, NetPrune, Disconnect, NetUpdating
<1> QED
  BY <1>4, ConnectKeeps

-----------------------------------------------------------------------------
(* The theorems.                                                           *)

(* The invariant holds.                                                    *)
LEMMA NetInvHolds == NetSpec => []NetInv
<1>1. NetInit => NetInv
  BY NetStarts
<1>2. NetInv /\ [NetNext]_netVars => NetInv'
  BY NextNet
<1> QED
  BY <1>1, <1>2, PTL DEF NetSpec

(* Files and calls keep to their types: a file under the id of a network   *)
(* holds a record of a network, that of a name leads to an id.             *)
THEOREM NetworksTyped == NetSpec => []NetTypeOK
<1>1. NetInv => NetTypeOK
  BY DEF NetInv
<1> QED
  BY <1>1, NetInvHolds, PTL

(* Manager.Create, Delete, Connect and Disconnect (network.go) by any      *)
(* number of commands at once: a name never leads to a network that has    *)
(* another name, torn files, late writes and killed commands included.     *)
THEOREM NameLeadsHome == NetSpec => []NamesLeadHome
BY NetShows, NetInvHolds, PTL

(* Commands one at a time, any of them killed: Create gives no name and no  *)
(* subnet of allocateSubnet to two networks, while some are free.          *)
THEOREM NetworksKeptApart == NetSpec => []NetworksApart
BY NetShows, NetInvHolds, PTL

(* Commands one at a time, none killed: between them, the files of names   *)
(* and of records fit together, nothing torn and nothing left behind.      *)
THEOREM NetworksAreFound == NetSpec => []NetworksFound
BY NetShows, NetInvHolds, PTL

(* Commands one at a time, any of them killed: DeleteForce without force   *)
(* and Prune unlink only records without endpoints.                        *)
THEOREM ConnectedAreSpared == NetSpec => []EndpointsSpared
BY NetShows, NetInvHolds, PTL

(* allocateContainerIP, whatever other commands do meanwhile: no step of   *)
(* Connect prepares a record in which it hands out an address that another *)
(* endpoint of that record has because a user asked for it.                *)
THEOREM AskedKept == NetSpec => AskedIsKept
BY AskedStep, NetInvHolds, PTL DEF AskedIsKept, NetSpec

=============================================================================
