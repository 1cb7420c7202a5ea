------------------------------ MODULE Containers ------------------------------
(***************************************************************************)
(* What the container API promises to a user: containers have names of     *)
(* their own, a container runs one process at a time, and only one that    *)
(* runs nothing is removed.  Each operation is a single step here.         *)
(***************************************************************************)
CONSTANTS
    Ids, Names, Pids,
    NoName      \* stands for the name of a container that does not exist

VARIABLES
    name,   \* the name of each container, NoName when there is none
    live    \* the supervisor processes that each container has running

vars == <<name, live>>

Init ==
    /\ name \in [Ids -> Names \cup {NoName}]
    /\ \A i, j \in Ids : name[i] = name[j] => i = j \/ name[i] = NoName
    /\ live = [i \in Ids |-> {}]

Create(i, n) ==
    /\ name[i] = NoName
    /\ \A j \in Ids : name[j] # n
    /\ name' = [name EXCEPT ![i] = n]
    /\ UNCHANGED live

Remove(i) ==
    /\ name[i] # NoName
    /\ live[i] = {}
    /\ name' = [name EXCEPT ![i] = NoName]
    /\ UNCHANGED live

Launch(i, p) ==
    /\ name[i] # NoName
    /\ live[i] = {}
    /\ live' = [live EXCEPT ![i] = {p}]
    /\ UNCHANGED name

Exit(i) ==
    /\ live' = [live EXCEPT ![i] = {}]
    /\ UNCHANGED name

Crash ==
    /\ live' = [i \in Ids |-> {}]
    /\ UNCHANGED name

Next ==
    \/ \E i \in Ids :
          \/ \E n \in Names : Create(i, n)
          \/ Remove(i)
          \/ \E p \in Pids : Launch(i, p)
          \/ Exit(i)
    \/ Crash

Spec == Init /\ [][Next]_vars
=============================================================================
