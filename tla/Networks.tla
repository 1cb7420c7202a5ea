------------------------------ MODULE Networks ------------------------------
(***************************************************************************)
(* Networks (pkg/network/network.go): the record of a network, the file    *)
(* "name-<name>" that leads from its name to its id, and the subnets and   *)
(* addresses handed out.  Each call is made by a command of its own        *)
(* (main.go) or by a handler of the server (handler.go), and changes the   *)
(* two files one after the other.                                          *)
(*                                                                         *)
(* One of the three built-in networks stands for all.  A network has a     *)
(* name: an unnamed one, which only the API can create, is not modelled.   *)
(***************************************************************************)
EXTENDS Integers, FiniteSets, RecordFiles

CONSTANTS
    NetIds,         \* what NewID generates
    NetNames,       \* the names users give
    Endpoints,      \* containers, which exist all the time
    NetActors,      \* commands and requests at the same time
    NetMenus,       \* what they do, one of these sets of choices per behaviour
    LastSubnet,     \* 172.18.0.0/16 ... 172.<LastSubnet>.0.0/16 are allocated
    GivenSubnets,   \* subnets users ask for
    LastRandom,     \* and, when they are used up, one of 10.100.0.0/24 ... 10.<LastRandom>.0.0/24
    LastHost,       \* the highest address of a network, its broadcast address
    Bridge, AliasPrefix, NoName

NoNet == 0
NoSubnet == 0
NoHost == 0
AutoSubnets == 18..LastSubnet
RandomSubnets == 100..LastRandom
Subnets == {NoSubnet, 17} \cup AutoSubnets \cup RandomSubnets \cup GivenSubnets
Hosts == 0..LastHost

NetRefs == NetIds \cup NetNames \cup {Bridge, AliasPrefix}
NetOps == {"create", "rm", "rm_f", "prune", "connect", "disconnect"}

\* Who does what, how they call a network, and the addresses they ask for.
NetMenu ==
    [who : SUBSET NetActors, ops : SUBSET NetOps, ids : SUBSET NetIds,
     names : SUBSET NetNames, refs : SUBSET NetRefs, ctrs : SUBSET Endpoints,
     hosts : SUBSET Hosts]

ASSUME NetIdsAssumption == NetIds \subseteq Nat \ {NoNet}
ASSUME NetNamesAssumption ==
    /\ NetNames \cap (NetIds \cup {NoNet, Bridge, AliasPrefix, NoName}) = {}
    /\ Cardinality({NoNet, Bridge, AliasPrefix, NoName}) = 4
    /\ NetIds \cap {Bridge, AliasPrefix, NoName} = {}
ASSUME NetMenusAssumption == \A m \in NetMenus : m \in NetMenu
ASSUME SubnetAssumption ==
    LastSubnet \in 18..31 /\ LastRandom \in 100..199 /\ GivenSubnets \subseteq Nat \ {NoSubnet}
ASSUME HostAssumption == LastHost \in Nat

VARIABLES
    netFile,        \* the files of NetworksDir; that of a name is called by the name
    netFresh,       \* ids that NewID has not generated yet
    netCall,        \* what each actor is doing
    netMenu,        \* the choices of this behaviour
    netOverlap,     \* two actors have been at work at the same time
    netDied         \* an actor has been killed

netVars == <<netFile, netFresh, netCall, netMenu, netOverlap, netDied>>

-----------------------------------------------------------------------------
(* Records.  An address is kept as the user wrote it (bare) or, when it    *)
(* was allocated, with the length of the prefix.                           *)

Address == [host : Hosts, bare : BOOLEAN]
Networks == NetIds \cup {Bridge}
NetFiles == Networks \cup NetNames
Endpoint == [ctr : Endpoints, ip : Address]
Network ==
    [name : NetNames \cup {Bridge, NoName}, subnet : Subnets, ends : SUBSET Endpoint,
     stack : BOOLEAN]       \* whether it carries the label of a stack
Alias == [to : NetIds]
NetContent == Network \cup Alias \cup {NoRecord, Torn}
ASSUME NetRecordsAssumption ==
    /\ {NoRecord, Torn} \cap (Network \cup Alias) = {}
    /\ NoRecord # Torn

NewNetwork(n, b, stack) == [name |-> n, subnet |-> b, ends |-> {}, stack |-> stack]
BridgeNetwork == NewNetwork(Bridge, 17, FALSE)

\* (mutants of allocateContainerIP: the last address is not the last; no
\* endpoint is asked)
NextContainerIP(n) == [host |-> Cardinality(n.ends) + LastHost, bare |-> FALSE]
ThirdContainerIP(n) == [host |-> IF n.subnet = NoSubnet THEN NoHost ELSE 3, bare |-> FALSE]

\* The first address after the third that no endpoint has: but those it gave
\* out itself carry a prefix length, and are not recognised.  NoHost when
\* there is none left, or the network has no subnet.
allocateContainerIP(n) ==
    LET used == {e.ip.host : e \in {f \in n.ends : f.ip.bare}}
        free == {h \in 3..LastHost : h \notin used}
    IN  [host |-> IF n.subnet = NoSubnet \/ free = {} THEN NoHost
                  ELSE CHOOSE h \in free : \A g \in free : h <= g,
         bare |-> FALSE]

-----------------------------------------------------------------------------
(* Lookups.                                                                *)

Readable(f) == netFile[f] \in Network
Listed == {i \in Networks : Readable(i)}
Target(n) == IF netFile[n] \in Alias THEN netFile[n].to ELSE NoNet

\* Manager.Get, as the set of networks, with their records, it may return.  AliasPrefix
\* is a word such as "name", which every "name-<name>" begins with: what is
\* found under it is read as the record of a network without a name.
NetGet(x) ==
    IF x \in Networks /\ (netFile[x] # NoRecord \/ x = Bridge)
    THEN {[id |-> i, net |-> netFile[i]] : i \in Listed \cap {x}}
    ELSE IF x = AliasPrefix
    THEN {[id |-> Target(n), net |-> NewNetwork(NoName, NoSubnet, FALSE)] :
             n \in {m \in NetNames : Target(m) # NoNet}}
    ELSE {[id |-> i, net |-> netFile[i]] : i \in {j \in Listed : x \in NetNames /\ j = Target(x)}}

Connected(n) == {e.ctr : e \in n.ends}

\* (mutant of allocateSubnet: what is in use is not asked)
allocateFirstSubnet == {18}

\* allocateSubnet: what it may return.
allocateSubnet ==
    LET used == {netFile[i].subnet : i \in Listed}
        free == AutoSubnets \ used
    IN  IF free = {} THEN RandomSubnets
        ELSE {CHOOSE b \in free : \A c \in free : b <= c}

-----------------------------------------------------------------------------
(* Calls: what an actor does (op), to which network (ref, id), for which   *)
(* container (ctr) or name, the subnet or address it asks for (want), what *)
(* it will write (copy), the rest of a listing (todo) and the steps to     *)
(* come (step, next).                                                      *)

NetFirst == [create |-> "Create", rm |-> "Delete", rm_f |-> "Delete", prune |-> "List",
          connect |-> "Connect", disconnect |-> "Disconnect"]
NetSteps == {"Idle", "Defaults", "Create", "Subnet", "Alias", "Delete", "Unname",
             "Unlink", "List", "Each", "Connect", "Disconnect", "Truncate", "Write"}
Call ==
    [op : NetOps \cup {"none"}, step : NetSteps, next : NetSteps,
     ref : NetRefs \cup {NoNet}, id : NetFiles \cup {NoNet},
     name : NetNames \cup {Bridge, NoName},
     want : GivenSubnets \cup Hosts \cup {NoSubnet}, ctr : Endpoints \cup {NoName}, stack : BOOLEAN,
     copy : NetContent, todo : SUBSET NetIds, fd : Descriptors]

NetIdle ==
    [op |-> "none", step |-> "Idle", next |-> "Idle", ref |-> NoNet, id |-> NoNet,
     name |-> NoName, want |-> 0, ctr |-> NoName, stack |-> FALSE, copy |-> NoRecord, todo |-> {},
     fd |-> "none"]

NetsIdle == \A k \in NetActors : netCall[k] = NetIdle

NetAt(c, s) == IF s = "Idle" THEN NetIdle ELSE [c EXCEPT !.step = s]
NetGoto(k, c, s) == netCall' = [netCall EXCEPT ![k] = NetAt(c, s)]

\* A Save of r to file f, and the step after it.
Saving(c, f, r, s) ==
    [c EXCEPT !.step = "Truncate", !.id = f, !.copy = r, !.next = s]

NetTruncate(k) ==
    LET f == netCall[k].id IN
    /\ netCall[k].step = "Truncate"
    /\ netFile' = [netFile EXCEPT ![f] = Torn]
    /\ netCall' = [Noticed(netCall, k, f, "clean")
                     EXCEPT ![k].step = "Write", ![k].fd = "clean"]
    /\ UNCHANGED <<netFresh, netMenu, netOverlap, netDied>>

NetWrite(k) ==
    LET c == netCall[k] IN
    /\ c.step = "Write"
    /\ \E x \in Written(c.fd, c.copy, netFile[c.id]) : netFile' = [netFile EXCEPT ![c.id] = x]
    /\ netCall' = [Noticed(netCall, k, c.id, "shared")
                     EXCEPT ![k] = NetAt([c EXCEPT !.fd = "none"], c.next)]
    /\ UNCHANGED <<netFresh, netMenu, netOverlap, netDied>>

NetUnlinked(k, f, s) ==
    /\ netFile' = [netFile EXCEPT ![f] = NoRecord]
    /\ netCall' = [Noticed(netCall, k, f, "gone") EXCEPT ![k] = NetAt(netCall[k], s)]

\* What an actor may be asked to do.
NetBegin(k, c) ==
    /\ netCall[k] = NetIdle
    /\ netCall' = [netCall EXCEPT ![k] = [c EXCEPT !.step = "Defaults", !.next = NetFirst[c.op]]]
    /\ netOverlap' = (netOverlap \/ \E j \in NetActors : netCall[j] # NetIdle)
    /\ UNCHANGED <<netFile, netFresh, netMenu, netDied>>

AskCreate(k) ==
    \E n \in netMenu.names, b \in GivenSubnets \cup {NoSubnet} :
        NetBegin(k, [NetIdle EXCEPT !.op = "create", !.name = n, !.want = b])

AskRm(k) ==
    \E op \in {"rm", "rm_f"} \cap netMenu.ops, x \in netMenu.refs :
        NetBegin(k, [NetIdle EXCEPT !.op = op, !.ref = x])

AskPrune(k) == NetBegin(k, [NetIdle EXCEPT !.op = "prune"])

\* Who asks for an address writes it bare, without a prefix length.
AskConnect(k) ==
    \E x \in netMenu.refs, e \in netMenu.ctrs, h \in netMenu.hosts \cup {NoHost} :
        NetBegin(k, [NetIdle EXCEPT !.op = "connect", !.ref = x, !.ctr = e, !.want = h])

AskDisconnect(k) ==
    \E x \in netMenu.refs, e \in netMenu.ctrs :
        NetBegin(k, [NetIdle EXCEPT !.op = "disconnect", !.ref = x, !.ctr = e])

\* The server creates and removes networks; its handlers for the rest do
\* nothing.
NetRequest(k) ==
    /\ k \in netMenu.who
    /\ \/ AskRm(k)
       \/ "create" \in netMenu.ops /\ AskCreate(k)
       \/ "prune" \in netMenu.ops /\ AskPrune(k)
       \/ "connect" \in netMenu.ops /\ AskConnect(k)
       \/ "disconnect" \in netMenu.ops /\ AskDisconnect(k)

\* NewManager comes first: a file that is there is not looked into.
ensureDefaults(k) ==
    LET c == netCall[k] IN
    /\ c.step = "Defaults"
    /\ netCall' = [netCall EXCEPT ![k] =
                     IF netFile[Bridge] = NoRecord THEN Saving(c, Bridge, BridgeNetwork, c.next)
                     ELSE [c EXCEPT !.step = c.next]]
    /\ UNCHANGED <<netFile, netFresh, netMenu, netOverlap, netDied>>

-----------------------------------------------------------------------------
(* create: two listings, one for the name and one for the subnet, and two  *)
(* files.  A driver other than bridge gets no subnet; stacks use bridge.    *)

NetCreate(k) ==
    LET c == netCall[k] IN
    /\ c.step = "Create"
    /\ IF \E i \in Listed : netFile[i].name = c.name
       THEN NetGoto(k, c, "Idle") /\ UNCHANGED netFresh
       ELSE \E i \in netFresh :
               /\ netFresh' = netFresh \ {i}
               /\ NetGoto(k, [c EXCEPT !.id = i], "Subnet")
    /\ UNCHANGED <<netFile, netMenu, netOverlap, netDied>>

NetSubnet(k) ==
    LET c == netCall[k] IN
    /\ c.step = "Subnet"
    /\ \E b \in IF c.want # NoSubnet THEN {c.want}
               ELSE allocateSubnet \cup IF c.stack THEN {} ELSE {NoSubnet} :
          netCall' = [netCall EXCEPT ![k] =
                        Saving(c, c.id, NewNetwork(c.name, b, c.stack), "Alias")]
    /\ UNCHANGED <<netFile, netFresh, netMenu, netOverlap, netDied>>

\* (mutant of NetAlias: the id is looked up again, and the first one is taken)
NetAliasFirst(k) ==
    LET c == netCall[k] IN
    /\ c.step = "Alias"
    /\ \E i \in Listed \ {Bridge} :
          /\ \A j \in Listed \ {Bridge} : i <= j
          /\ netCall' = [netCall EXCEPT ![k] = Saving(c, c.name, [to |-> i], "Idle")]
    /\ UNCHANGED <<netFile, netFresh, netMenu, netOverlap, netDied>>

NetAlias(k) ==
    LET c == netCall[k] IN
    /\ c.step = "Alias"
    /\ netCall' = [netCall EXCEPT ![k] = Saving(c, c.name, [to |-> c.id], "Idle")]
    /\ UNCHANGED <<netFile, netFresh, netMenu, netOverlap, netDied>>

-----------------------------------------------------------------------------
(* rm and prune: a built-in network is never deleted, one with endpoints   *)
(* only by force, and the file of the name goes first.                     *)

NetDeleting(k, found) ==
    LET c == netCall[k]
        next == IF c.op = "prune" THEN "Each" ELSE "Idle" IN
    /\ c.step = "Delete"
    /\ \/ \E g \in found : NetGoto(k, [c EXCEPT !.id = g.id, !.name = g.net.name,
                                                !.ref = NoNet, !.next = next], "Unname")
       \/ found = {} /\ NetGoto(k, [c EXCEPT !.ref = NoNet], next)
    /\ UNCHANGED <<netFile, netFresh, netMenu, netOverlap, netDied>>

\* (mutant of DeleteForce: whether there are endpoints is not asked)
DeleteAlways(k) == NetDeleting(k, {g \in NetGet(netCall[k].ref) : g.net.name # Bridge})

DeleteForce(k) ==
    NetDeleting(k, {g \in NetGet(netCall[k].ref) :
                       /\ g.net.name # Bridge
                       /\ netCall[k].op = "rm_f" \/ g.net.ends = {}})

\* (mutant of NetUnname: the file of the name stays)
NetUnnameNot(k) ==
    /\ netCall[k].step = "Unname"
    /\ NetGoto(k, netCall[k], "Unlink")
    /\ UNCHANGED <<netFile, netFresh, netMenu, netOverlap, netDied>>

NetUnname(k) ==
    LET c == netCall[k] IN
    /\ c.step = "Unname"
    /\ IF c.name \in NetNames THEN NetUnlinked(k, c.name, "Unlink")
       ELSE NetGoto(k, c, "Unlink") /\ UNCHANGED netFile
    /\ UNCHANGED <<netFresh, netMenu, netOverlap, netDied>>

NetUnlink(k) ==
    /\ netCall[k].step = "Unlink"
    /\ NetUnlinked(k, netCall[k].id, netCall[k].next)
    /\ UNCHANGED <<netFresh, netMenu, netOverlap, netDied>>

NetPrune(k) ==
    LET c == netCall[k] IN
    /\ \/ c.step = "List" /\ NetGoto(k, [c EXCEPT
             !.todo = {i \in Listed \ {Bridge} : netFile[i].ends = {}}], "Each")
       \/ c.step = "Each" /\ \E i \in c.todo :
             NetGoto(k, [c EXCEPT !.todo = c.todo \ {i}, !.ref = i], "Delete")
       \/ c.step = "Each" /\ c.todo = {} /\ NetGoto(k, c, "Idle")
    /\ UNCHANGED <<netFile, netFresh, netMenu, netOverlap, netDied>>

-----------------------------------------------------------------------------
(* connect and disconnect: the record is read, changed and written back.   *)

NetUpdating(k, step, found, New(_)) ==
    LET c == netCall[k] IN
    /\ c.step = step
    /\ \/ \E g \in found : netCall' = [netCall EXCEPT ![k] = Saving(c, g.id, New(g.net), "Idle")]
       \/ found = {} /\ NetGoto(k, c, "Idle")
    /\ UNCHANGED <<netFile, netFresh, netMenu, netOverlap, netDied>>

Connect(k) ==
    LET c == netCall[k]
        ip(n) == IF c.want # NoHost THEN [host |-> c.want, bare |-> TRUE]
                 ELSE allocateContainerIP(n)
    IN  NetUpdating(k, "Connect", {g \in NetGet(c.ref) : c.ctr \notin Connected(g.net)},
                    LAMBDA n : [n EXCEPT !.ends = n.ends \cup {[ctr |-> c.ctr, ip |-> ip(n)]}])

Disconnect(k) ==
    LET c == netCall[k]
    IN  NetUpdating(k, "Disconnect", {g \in NetGet(c.ref) : c.ctr \in Connected(g.net)},
                    LAMBDA n : [n EXCEPT !.ends = {e \in n.ends : e.ctr # c.ctr}])

-----------------------------------------------------------------------------

\* A command is killed, once in a behaviour, whatever step it was at.
NetDie(k) ==
    /\ netCall[k] # NetIdle /\ ~netDied
    /\ netDied' = TRUE
    /\ netCall' = [netCall EXCEPT ![k] = NetIdle]
    /\ UNCHANGED <<netFile, netFresh, netMenu, netOverlap>>

NetInit ==
    /\ netFile = [f \in NetFiles |-> NoRecord]
    /\ netMenu \in NetMenus
    /\ netFresh = netMenu.ids
    /\ netCall = [k \in NetActors |-> NetIdle]
    /\ netOverlap = FALSE
    /\ netDied = FALSE

NetStep(k) ==
    \/ ensureDefaults(k) \/ NetTruncate(k) \/ NetWrite(k) \/ NetCreate(k) \/ NetSubnet(k)
    \/ NetAlias(k) \/ DeleteForce(k) \/ NetUnname(k) \/ NetUnlink(k) \/ NetPrune(k)
    \/ Connect(k) \/ Disconnect(k)

NetNext == \E k \in NetActors : NetRequest(k) \/ NetStep(k) \/ NetDie(k)

NetSpec == NetInit /\ [][NetNext]_netVars

-----------------------------------------------------------------------------

(* Files hold a record, a reference or nothing that can be read.           *)
NetTypeOK ==
    /\ \A f \in Networks : netFile[f] \in Network \cup {NoRecord, Torn}
    /\ \A n \in NetNames : netFile[n] \in Alias \cup {NoRecord, Torn}
    /\ DOMAIN netFile = NetFiles
    /\ netFresh \subseteq NetIds
    /\ netCall \in [NetActors -> Call]
    /\ netMenu \in NetMenus
    /\ netOverlap \in BOOLEAN /\ netDied \in BOOLEAN

\* Nobody in this behaviour calls a network by a word like AliasPrefix: what
\* the next four properties say is broken by a single command that does.
CalledByName == AliasPrefix \notin netMenu.refs

(* Whatever commands do to each other's files, a name never leads to a     *)
(* network of another name.                                                *)
NamesLeadHome ==
    CalledByName => \A n \in NetNames : Target(n) \in Listed => netFile[Target(n)].name = n

(* One command at a time, some of them killed: a name and an allocated     *)
(* subnet are those of one network only, as long as there are subnets and  *)
(* users do not ask for one.                                               *)
NetworksApart ==
    (CalledByName /\ ~netOverlap) =>
        \A i, j \in Listed : i # j =>
            /\ netFile[i].name # netFile[j].name
            /\ netFile[i].subnet \in AutoSubnets \ GivenSubnets =>
                  netFile[i].subnet # netFile[j].subnet

(* One command at a time, and none killed: between commands every network  *)
(* is found under its name, every name leads to a network, and nothing is  *)
(* left of what was removed.                                               *)
NetworksFound ==
    (CalledByName /\ ~netOverlap /\ ~netDied /\ NetsIdle) =>
        /\ \A i \in Listed \ {Bridge} : Target(netFile[i].name) = i
        /\ \A f \in NetFiles : netFile[f] # Torn
        /\ \A n \in NetNames : netFile[n] # NoRecord => Target(n) \in Listed

(* Without force, what is removed is a network nobody is connected to,     *)
(* even after other commands were killed: the endpoints of the record that *)
(* goes are those that were looked at.                                     *)
EndpointsSpared ==
    (CalledByName /\ ~netOverlap) =>
        \A k \in NetActors :
            (netCall[k].step = "Unlink" /\ netCall[k].op \in {"rm", "prune"}) =>
                netFile[netCall[k].id] \in Network /\ netFile[netCall[k].id].ends = {}

(* A bare address that a user asked for, in a record of his own network,   *)
(* is not handed out to another container afterwards: addresses that are   *)
(* equal were either both allocated, or the later one was asked for.       *)
AskedIsKept ==
    [][\A k \in NetActors, i \in Networks :
          (netCall[k].step = "Connect" /\ netCall'[k].step = "Truncate" /\ netCall'[k].id = i) =>
              \A e, f \in netCall'[k].copy.ends :
                  (e.ip.bare /\ ~f.ip.bare /\ f \notin netFile[i].ends) => e.ip # [f.ip EXCEPT !.bare = TRUE]
      ]_netVars
=============================================================================
