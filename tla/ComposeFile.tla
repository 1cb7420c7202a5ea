---------------------------- MODULE ComposeFile ----------------------------
(***************************************************************************)
(* How `stack deploy` reads a compose file (parseComposeFile, main.go):    *)
(* line by line, with a state that says which section a line belongs to,   *)
(* next to what the indentation says.  What is read is kept as the set of  *)
(* paths it fills in, such as <<"services", s, "image">>.                  *)
(*                                                                         *)
(* Files are indented by two spaces a level.  Values, comments and quotes  *)
(* are left out; "image" stands for the keys with one value, "environment" *)
(* for those with a list (but "labels", which keeps only the entries with  *)
(* a value), "external" for those of a network or a volume, "aliases" for  *)
(* the keys that an entry of a list has, "other" for keys the parser       *)
(* ignores.  No branch of the parser is for a line that is deeper.         *)
(***************************************************************************)
EXTENDS Naturals, Sequences

CONSTANTS
    CfNames,    \* of services, networks and volumes
    CfItems,    \* what lists hold
    MaxLines    \* bound on the lines of a file

ASSUME MaxLinesAssumption == MaxLines \in Nat

Sections == {"services", "networks", "volumes"}

\* A line: its indentation, its key, whether it ends with the colon (head),
\* and whether it starts with a dash.
LineOf(lvl, keys, heads, dashes) == [lvl : {lvl}, key : keys, head : heads, dash : dashes]
Line ==
    LineOf(0, Sections \cup {"other"}, {TRUE}, {FALSE}) \cup
    LineOf(2, CfNames, {TRUE}, {FALSE}) \cup
    LineOf(4, {"environment", "networks", "deploy", "other"}, {TRUE}, {FALSE}) \cup
    LineOf(4, {"image", "external"}, {FALSE}, {FALSE}) \cup
    LineOf(6, CfItems, {FALSE}, {TRUE, FALSE}) \cup
    LineOf(6, CfItems, {TRUE}, {FALSE}) \cup
    LineOf(6, {"replicas"}, {FALSE}, {FALSE}) \cup
    LineOf(8, {"aliases"}, {TRUE, FALSE}, {FALSE})

VARIABLES
    cfState,    \* state
    cfName,     \* curSvcName, curNetName and curVolName
    cfSub,      \* curSubKey
    cfFile,     \* what has been read
    cfPath,     \* the keys the next line may be under, by its indentation
    cfMeant,    \* what the file says, by its indentation
    cfLines     \* lines so far

cfVars == <<cfState, cfName, cfSub, cfFile, cfPath, cfMeant, cfLines>>

-----------------------------------------------------------------------------
(* What the file says.  A file has no line at a place no key leads to, and *)
(* no key twice.                                                           *)

Lists == {"environment", "networks"}
PathTo(l) == Append(SubSeq(cfPath, 1, l.lvl \div 2), l.key)

Placed(l) ==
    /\ Len(cfPath) >= l.lvl \div 2
    /\ l.lvl = 4 => CASE cfPath[1] = "services" -> l.key # "external"
                      [] cfPath[1] = "other" -> l.key = "other"
                      [] OTHER -> l.key \in {"external", "other"}
    /\ l.lvl = 6 => CASE cfPath[3] = "networks" -> l.key \in CfItems /\ l.dash # l.head
                      [] cfPath[3] = "deploy" -> l.key = "replicas" \/ l.head
                      [] OTHER -> l.key \in CfItems
    /\ PathTo(l) \notin cfMeant

\* The paths that a field of ComposeFile is meant for, and those of the keys
\* that an entry of a list has, for which there is none.
CfKept(p) ==
    CASE Len(p) = 2 -> p[1] \in Sections
      [] Len(p) = 3 -> p[3] \in {"image", "deploy", "external"}
      [] Len(p) = 4 ->
            p[1] = "services" /\ (p[3] \in Lists \/ (p[3] = "deploy" /\ p[4] = "replicas"))
      [] Len(p) = 5 -> p[1] = "services" /\ p[3] \in Lists
      [] OTHER -> FALSE

\* Only a line that ends with its colon, or starts with a dash, can have lines
\* under it.
Opens(l) == l.lvl < 8 /\ (l.head \/ l.dash)
Read(l) ==
    LET p == PathTo(l) IN
    /\ cfLines < MaxLines /\ Placed(l)
    /\ cfLines' = cfLines + 1
    /\ cfPath' = IF Opens(l) THEN p ELSE SubSeq(p, 1, Len(p) - 1)
    /\ cfMeant' = IF CfKept(p) THEN cfMeant \cup {p} ELSE cfMeant

-----------------------------------------------------------------------------
(* What the parser makes of it.                                            *)

InServices == cfState \in {"services", "service", "service_sub", "deploy"}
Filled(p) == cfFile' = cfFile \cup {p}

\* (mutant of RootLine: a key that is not known does not end a section)
RootLineKnown(l) ==
    /\ l.lvl = 0 /\ Read(l)
    /\ cfState' = IF l.key \in Sections THEN l.key ELSE cfState
    /\ UNCHANGED <<cfName, cfSub, cfFile>>

RootLine(l) ==
    /\ l.lvl = 0 /\ Read(l)
    /\ cfState' = IF l.key \in Sections THEN l.key ELSE "root"
    /\ UNCHANGED <<cfName, cfSub, cfFile>>

ServiceLine(l) ==
    /\ InServices /\ l.lvl = 2 /\ Read(l)
    /\ cfName' = [cfName EXCEPT !["services"] = l.key]
    /\ Filled(<<"services", l.key>>)
    /\ cfState' = "service" /\ cfSub' = "none"

KeyLine(l) ==
    /\ InServices /\ cfState # "deploy" /\ l.lvl = 4 /\ Read(l)
    /\ cfSub' = l.key
    /\ cfState' = IF l.key = "deploy" THEN "deploy"
                  ELSE IF l.key \in Lists THEN "service_sub" ELSE "service"
    /\ IF l.key = "image"
       THEN Filled(<<"services", cfName["services"], "image">>)
       ELSE UNCHANGED cfFile
    /\ UNCHANGED cfName

\* The line after "deploy:" with the same indentation: a key of the deploy
\* section is looked for here, where none can be; another loses its value.
DeployLine(l) ==
    /\ cfState = "deploy" /\ l.lvl = 4 /\ Read(l)
    /\ cfSub' = l.key /\ cfState' = "service"
    /\ UNCHANGED <<cfName, cfFile>>

\* What an entry of a list holds is read as one more entry, and an entry that
\* is only a key keeps the colon of its line.
ItemLine(l) ==
    /\ cfState \in {"service", "service_sub"} /\ l.lvl \in {6, 8} /\ Read(l)
    /\ \/ cfSub \in Lists /\ l.head
          /\ Filled(<<"services", cfName["services"], cfSub, l.key, ":">>)
       \/ cfSub \in Lists /\ ~l.head
          /\ Filled(<<"services", cfName["services"], cfSub, l.key>>)
       \/ cfSub \notin Lists /\ UNCHANGED cfFile
    /\ UNCHANGED <<cfState, cfName, cfSub>>

SectionLine(l, section, entry) ==
    /\ cfState \in {section, entry} /\ Read(l)
    /\ \/ /\ l.lvl = 2
          /\ cfName' = [cfName EXCEPT ![section] = l.key]
          /\ Filled(<<section, l.key>>)
          /\ cfState' = entry
       \/ /\ l.lvl = 4 /\ UNCHANGED <<cfState, cfName>>
          /\ IF l.key = "external" THEN Filled(<<section, cfName[section], l.key>>)
             ELSE UNCHANGED cfFile
    /\ UNCHANGED cfSub

NetLine(l) == SectionLine(l, "networks", "network")
VolLine(l) == SectionLine(l, "volumes", "volume")

\* No branch is for the line.
SkippedLine(l) ==
    /\ Read(l)
    /\ \/ cfState \in {"deploy", "network", "volume"} /\ l.lvl \in {6, 8}
       \/ cfState = "root" /\ l.lvl > 0
    /\ UNCHANGED <<cfState, cfName, cfSub, cfFile>>

CfInit ==
    /\ cfState = "root" /\ cfSub = "none"
    /\ cfName = [s \in Sections |-> "none"]
    /\ cfFile = {} /\ cfPath = <<>> /\ cfMeant = {} /\ cfLines = 0

CfLine(l) ==
    \/ RootLine(l) \/ ServiceLine(l) \/ KeyLine(l) \/ DeployLine(l) \/ ItemLine(l)
    \/ NetLine(l) \/ VolLine(l) \/ SkippedLine(l)

CfNext == \E l \in Line : CfLine(l)

CfSpec == CfInit /\ [][CfNext]_cfVars

-----------------------------------------------------------------------------

(* The state is one of the parser's nine.                                  *)
CfTypeOK ==
    /\ cfState \in Sections \cup {"root", "service", "service_sub", "deploy", "network", "volume"}
    /\ cfName \in [Sections -> CfNames \cup {"none"}]
    /\ Len(cfPath) <= 4 /\ cfLines \in 0..MaxLines

(* What the file says at q was read as p: with the colon of its line, or,  *)
(* if q is a key that an entry of a list has, as an entry of that list.    *)
Misread(p, q) ==
    /\ Len(q) \in {4, 5} /\ q[1] = "services" /\ q[3] \in Lists
    /\ p \in {<<q[1], q[2], q[3], q[Len(q)]>>, <<q[1], q[2], q[3], q[Len(q)], ":">>}

(* What has been read is what the file says, but for this: what a deploy   *)
(* section holds is lost, the key that follows "deploy:" is lost if it has *)
(* a value, an entry of a list that is only a key is read with its colon,  *)
(* and what an entry holds is read as further entries.                     *)
ComposeRead ==
    /\ \A q \in cfMeant \ cfFile :
          \/ q[1] = "services" /\ Len(q) > 2 /\ q[3] = "deploy"
          \/ /\ q[1] = "services" /\ Len(q) > 2
             /\ q[3] = "image" /\ <<q[1], q[2], "deploy">> \in cfMeant
          \/ \E p \in cfFile : Misread(p, q)
    /\ \A p \in cfFile \ cfMeant : \E q \in cfMeant : Misread(p, q)
=============================================================================
