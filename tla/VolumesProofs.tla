--------------------------- MODULE VolumesProofs ---------------------------
(***************************************************************************)
(* Type correctness of Volumes, and VolumesWhole, for any number of names, *)
(* commands and requests.                                                  *)
(*                                                                         *)
(* VolumesWhole is not inductive: it says nothing of a volume that is half *)
(* made or half removed.  VolInv says how far each call has come, and that *)
(* only such a call excuses a volume that is not whole.                    *)
(***************************************************************************)
EXTENDS Volumes, TLAPS

Creates == {"Exists", "Mkdir", "Truncate", "Write"}

\* What the step of a call says about its other fields.
Shaped(c) ==
    /\ c.step = "Idle" => c = VolIdle
    /\ c.step \in Creates \cup {"Get", "Rmdir", "Unlink"} => c.id \in VolNames
    /\ c.step = "Write" <=> c.fd # "none"

Whole(n) == volFile[n] \in IF volDir[n] THEN Volume ELSE {NoRecord}

\* How far a call has come that nobody disturbs.
Midway(c) ==
    /\ c.step = "Mkdir" => volFile[c.id] = NoRecord /\ ~volDir[c.id]
    /\ c.step = "Truncate" => volFile[c.id] = NoRecord /\ volDir[c.id]
    /\ c.step = "Write" => volDir[c.id] /\ c.fd = "clean"
    /\ c.step = "Rmdir" => volFile[c.id] \in Volume /\ volDir[c.id]
    /\ c.step = "Unlink" => ~volDir[c.id]

Excused(c, n) == c.id = n /\ c.step \in {"Truncate", "Write", "Unlink"}

VolShaped == \A k \in VolActors : Shaped(volCall[k])
Alone == ~volOverlap => \A j, k \in VolActors : volCall[j] # VolIdle /\ volCall[k] # VolIdle => j = k
Undisturbed ==
    (~volOverlap /\ ~volDied) =>
        /\ \A k \in VolActors : Midway(volCall[k])
        /\ \A n \in VolNames : Whole(n) \/ \E k \in VolActors : Excused(volCall[k], n)
NothingTaken ==
    ~volTaken =>
        /\ \A n \in VolListed : volDir[n]
        /\ \A k \in VolActors :
              /\ volCall[k].step \in Creates \cup {"Idle"}
              /\ volCall[k].step \in {"Truncate", "Write"} => volDir[volCall[k].id]

VolInv == VolTypeOK /\ VolShaped /\ Alone /\ Undisturbed /\ NothingTaken

-----------------------------------------------------------------------------

(* A call that has not begun is of the type.                               *)
LEMMA IdleTyped == VolIdle \in VolCall /\ Shaped(VolIdle)
BY DEF VolIdle, VolCall, VolOps, VolSteps, Descriptors, Shaped, Creates

\* Another call notices what is done to a file, and nothing else.
LEMMA NoticedCalls ==
    ASSUME VolTypeOK, VolShaped, NEW k \in VolActors, NEW n,
           NEW s \in {"clean", "shared", "gone"}
    PROVE  LET N == Noticed(volCall, k, n, s) IN
           /\ N \in [VolActors -> VolCall]
           /\ N[k] = volCall[k]
           /\ \A j \in VolActors :
                 /\ Shaped(N[j])
                 /\ N[j].step = volCall[j].step /\ N[j].id = volCall[j].id
                 /\ volCall[j] = VolIdle => N[j] = VolIdle
                 /\ volCall[j].step # "Write" => N[j] = volCall[j]
                 /\ N[j] = VolIdle => volCall[j] = VolIdle
<1> DEFINE N == Noticed(volCall, k, n, s)
<1>1. N = [j \in VolActors |->
              IF j # k /\ volCall[j].id = n /\ volCall[j].fd \in {"clean", "shared"}
              THEN [volCall[j] EXCEPT !.fd = s] ELSE volCall[j]]
  BY DEF Noticed, VolTypeOK
<1>2. ASSUME NEW j \in VolActors
      PROVE  /\ N[j] \in VolCall /\ Shaped(N[j])
             /\ N[j].step = volCall[j].step /\ N[j].id = volCall[j].id
             /\ volCall[j] = VolIdle => N[j] = VolIdle
             /\ volCall[j].step # "Write" => N[j] = volCall[j]
             /\ N[j] = VolIdle => volCall[j] = VolIdle
  <2>1. volCall[j] \in VolCall /\ Shaped(volCall[j])
    BY DEF VolTypeOK, VolShaped
  <2>2. CASE j # k /\ volCall[j].id = n /\ volCall[j].fd \in {"clean", "shared"}
    <3>1. N[j] = [volCall[j] EXCEPT !.fd = s]
      BY <1>1, <2>2
    <3>2. volCall[j].step = "Write" /\ volCall[j].id \in VolNames /\ volCall[j] # VolIdle
      BY <2>1, <2>2 DEF Shaped, VolIdle, Creates
    <3>3. N[j] \in VolCall /\ N[j].step = "Write" /\ N[j].id = volCall[j].id /\ N[j].fd = s
      BY <2>1, <3>1, <3>2 DEF VolCall, Descriptors
    <3> QED
      BY <3>2, <3>3 DEF Shaped, VolIdle, Creates
  <2>3. CASE ~(j # k /\ volCall[j].id = n /\ volCall[j].fd \in {"clean", "shared"})
    BY <1>1, <2>1, <2>3
  <2> QED
    BY <2>2, <2>3
<1>3. N \in [VolActors -> VolCall]
  BY <1>1, <1>2
<1>4. N[k] = volCall[k]
  BY <1>1
<1> QED
  BY <1>2, <1>3, <1>4

\* A call at work that has not been disturbed answers for every volume.
LEMMA AtWork ==
    ASSUME VolInv, NEW k \in VolActors, volCall[k].step # "Idle", ~volOverlap, ~volDied
    PROVE  /\ Midway(volCall[k])
           /\ \A n \in VolNames : Whole(n) \/ Excused(volCall[k], n)
           /\ \A j \in VolActors \ {k} : volCall[j] = VolIdle
<1>1. volCall[k] # VolIdle
  BY DEF VolIdle
<1>2. \A j \in VolActors \ {k} : volCall[j] = VolIdle
  BY <1>1 DEF VolInv, Alone
<1>3. \A j \in VolActors \ {k}, n \in VolNames : ~Excused(volCall[j], n)
  BY <1>2 DEF Excused, VolIdle
<1> QED
  BY <1>2, <1>3 DEF VolInv, Undisturbed

\* What a step of one call has to establish.
LEMMA OneStep ==
    ASSUME VolInv, NEW k \in VolActors, volCall[k].step # "Idle",
           volMenu' = volMenu, volOverlap' = volOverlap, volDied' = volDied, volTaken' = volTaken,
           \A j \in VolActors \ {k} :
               /\ volCall'[j].step = volCall[j].step /\ volCall'[j].id = volCall[j].id
               /\ volCall[j] = VolIdle => volCall'[j] = VolIdle,
           VolTypeOK', VolShaped',
           (~volOverlap /\ ~volDied) =>
               /\ Midway(volCall[k])'
               /\ \A n \in VolNames : Whole(n)' \/ Excused(volCall[k], n)',
           ~volTaken =>
               /\ volCall'[k].step \in Creates \cup {"Idle"}
               /\ volCall'[k].step \in {"Truncate", "Write"} => volDir'[volCall'[k].id]
               /\ \A n \in VolNames : volDir[n] => volDir'[n]
               /\ \A n \in VolNames : n \in VolListed' => n \in VolListed \/ volDir'[n]
    PROVE  VolInv'
<1>1. Alone'
  <2> SUFFICES ASSUME ~volOverlap'
               PROVE  \A i, j \in VolActors : volCall'[i] # VolIdle /\ volCall'[j] # VolIdle => i = j
    BY DEF Alone
  <2>1. volCall[k] # VolIdle
    BY DEF VolIdle
  <2>2. \A j \in VolActors \ {k} : volCall'[j] = VolIdle
    BY <2>1 DEF VolInv, Alone
  <2> QED
    BY <2>2
<1>2. Undisturbed'
  <2> SUFFICES ASSUME ~volOverlap, ~volDied
               PROVE  /\ \A j \in VolActors : Midway(volCall[j])'
                      /\ \A n \in VolNames : Whole(n)' \/ \E j \in VolActors : Excused(volCall[j], n)'
    BY DEF Undisturbed
  <2>1. \A j \in VolActors \ {k} : volCall'[j] = VolIdle
    BY AtWork
  <2>2. \A j \in VolActors \ {k} : Midway(volCall[j])'
    BY <2>1 DEF Midway, VolIdle
  <2> QED
    BY <2>2
<1>3. NothingTaken'
  <2> SUFFICES ASSUME ~volTaken
               PROVE  /\ \A n \in VolListed' : volDir'[n]
                      /\ \A j \in VolActors :
                            /\ volCall'[j].step \in Creates \cup {"Idle"}
                            /\ volCall'[j].step \in {"Truncate", "Write"} => volDir'[volCall'[j].id]
    BY DEF NothingTaken
  <2>1. /\ \A n \in VolListed : volDir[n]
        /\ \A j \in VolActors :
              /\ volCall[j].step \in Creates \cup {"Idle"}
              /\ volCall[j].step \in {"Truncate", "Write"} => volDir[volCall[j].id]
    BY DEF VolInv, NothingTaken
  <2>2. /\ volCall'[k].step \in Creates \cup {"Idle"}
        /\ volCall'[k].step \in {"Truncate", "Write"} => volDir'[volCall'[k].id]
        /\ \A n \in VolNames : volDir[n] => volDir'[n]
        /\ \A n \in VolNames : n \in VolListed' => n \in VolListed \/ volDir'[n]
    OBVIOUS
  <2>3. \A n \in VolListed' : volDir'[n]
    BY <2>1, <2>2 DEF VolListed
  <2>4. ASSUME NEW j \in VolActors
        PROVE  /\ volCall'[j].step \in Creates \cup {"Idle"}
               /\ volCall'[j].step \in {"Truncate", "Write"} => volDir'[volCall'[j].id]
    <3>1. CASE j = k
      BY <2>2, <3>1
    <3>2. CASE j # k
      <4>1. volCall'[j].step \in {"Truncate", "Write"} => volCall[j].id \in VolNames
        BY <3>2 DEF VolInv, VolShaped, Shaped, Creates
      <4> QED
        BY <2>1, <2>2, <3>2, <4>1
    <3> QED
      BY <3>1, <3>2
  <2> QED
    BY <2>3, <2>4
<1> QED
  BY <1>1, <1>2, <1>3 DEF VolInv

-----------------------------------------------------------------------------

(* No volumes, and no calls.                                               *)
LEMMA VolInitInv == VolInit => VolInv
<1> SUFFICES ASSUME VolInit
             PROVE  VolInv
  OBVIOUS
<1> USE DEF VolInit
<1>1. VolTypeOK
  BY IdleTyped DEF VolTypeOK
<1>2. VolShaped
  BY IdleTyped DEF VolShaped
<1>3. Alone
  BY DEF Alone
<1>4. Undisturbed
  BY DEF Undisturbed, Midway, Whole, VolIdle
<1>5. NothingTaken
  BY VolRecordsAssumption DEF NothingTaken, VolListed, VolIdle
<1> QED
  BY <1>1, <1>2, <1>3, <1>4, <1>5 DEF VolInv

(* A call begins; if others are at work, volOverlap says so.               *)
LEMMA BeginInv ==
    ASSUME VolInv, NEW k \in VolActors, NEW op \in VolOps, NEW n \in VolNames \cup {NoVol},
           NEW stack \in BOOLEAN, op = "prune" \/ n \in VolNames,
           VolBegin(k, op, n, stack)
    PROVE  VolInv'
<1> DEFINE s == CASE op = "create" -> "Exists" [] op = "rm" -> "Get" [] op = "prune" -> "List"
           c == [[VolIdle EXCEPT !.op = op, !.id = n, !.stack = stack] EXCEPT !.step = s]
<1>1. s \in {"Exists", "Get", "List"} /\ (s = "List" <=> op = "prune") /\ (s = "Exists" <=> op = "create")
  BY DEF VolOps
<1>2. volCall' = [volCall EXCEPT ![k] = c]
  <2>1. VolGoto(k, [VolIdle EXCEPT !.op = op, !.id = n, !.stack = stack], s)
    BY DEF VolBegin
  <2> HIDE DEF s
  <2> QED
    BY <1>1, <2>1 DEF VolGoto, VolAt
<1> HIDE DEF s
<1>3. c \in VolCall /\ c.step = s /\ c.id = n /\ c.fd = "none" /\ Shaped(c)
  BY <1>1 DEF VolCall, VolSteps, VolOps, Descriptors, Shaped, Creates, VolIdle
<1> HIDE DEF c
<1>4. VolTypeOK'
  BY <1>2, <1>3 DEF VolBegin, VolInv, VolTypeOK
<1>5. VolShaped'
  BY <1>2, <1>3 DEF VolInv, VolTypeOK, VolShaped
<1>6. Alone'
  BY <1>2 DEF VolBegin, VolInv, VolTypeOK, Alone
<1>7. Undisturbed'
  <2> SUFFICES ASSUME ~volOverlap', ~volDied'
               PROVE  /\ \A j \in VolActors : Midway(volCall[j])'
                      /\ \A m \in VolNames : Whole(m)'
    BY DEF Undisturbed
  <2>1. ~volOverlap /\ ~volDied /\ \A j \in VolActors : volCall[j] = VolIdle
    BY DEF VolBegin
  <2>2. \A m \in VolNames : Whole(m)
    BY <2>1 DEF VolInv, Undisturbed, Excused, VolIdle
  <2>3. volFile' = volFile /\ volDir' = volDir
    BY DEF VolBegin
  <2>4. \A j \in VolActors \ {k} : volCall'[j] = VolIdle
    BY <1>2, <2>1
  <2>5. volCall'[k] = c
    BY <1>2 DEF VolInv, VolTypeOK
  <2> QED
    BY <1>1, <1>3, <2>2, <2>3, <2>4, <2>5 DEF Midway, Whole, VolIdle
<1>8. NothingTaken'
  <2> SUFFICES ASSUME ~volTaken'
               PROVE  NothingTaken'
    BY DEF NothingTaken
  <2>1. ~volTaken /\ op = "create" /\ volFile' = volFile /\ volDir' = volDir
    BY DEF VolBegin
  <2>2. volCall'[k] = c /\ \A j \in VolActors \ {k} : volCall'[j] = volCall[j]
    BY <1>2 DEF VolInv, VolTypeOK
  <2> QED
    BY <1>1, <1>3, <2>1, <2>2 DEF VolInv, NothingTaken, VolListed, Creates
<1> QED
  BY <1>4, <1>5, <1>6, <1>7, <1>8 DEF VolInv

-----------------------------------------------------------------------------
(* One lemma for each step of a call.                                      *)

(* VolExists: alone, what has no file has no directory.                    *)
LEMMA ExistsInv ==
    ASSUME VolInv, NEW k \in VolActors, VolExists(k)
    PROVE  VolInv'
<1> DEFINE c == volCall[k]
           s == IF volFile[c.id] # NoRecord THEN "Idle" ELSE "Mkdir"
           d == VolAt(c, s)
<1>1. c \in VolCall /\ Shaped(c) /\ c.step = "Exists" /\ c.id \in VolNames
  BY DEF VolExists, VolInv, VolTypeOK, VolShaped, Shaped, Creates
<1>2. d \in VolCall /\ Shaped(d) /\ d.step = s /\ (s = "Mkdir" => d.id = c.id)
  BY <1>1, IdleTyped DEF VolAt, VolCall, VolSteps, Shaped, Creates, VolIdle
<1>3. volCall' = [volCall EXCEPT ![k] = d]
  BY DEF VolExists, VolGoto
<1>4. VolTypeOK' /\ VolShaped'
  BY <1>2, <1>3 DEF VolExists, VolInv, VolTypeOK, VolShaped
<1>5. volCall'[k] = d /\ \A j \in VolActors \ {k} : volCall'[j] = volCall[j]
  BY <1>3 DEF VolInv, VolTypeOK
<1>6. volFile' = volFile /\ volDir' = volDir
  BY DEF VolExists
<1> HIDE DEF d
<1>7. ASSUME ~volOverlap, ~volDied
      PROVE  /\ Midway(volCall[k])'
             /\ \A n \in VolNames : Whole(n)' \/ Excused(volCall[k], n)'
  <2>1. \A n \in VolNames : Whole(n)
    BY <1>1, <1>7, AtWork DEF Excused
  <2>2. volFile[c.id] = NoRecord => ~volDir[c.id]
    BY <1>1, <2>1, VolRecordsAssumption DEF Whole
  <2>3. volCall'[k].step = s /\ (s = "Mkdir" => volCall'[k].id = c.id)
    BY <1>2, <1>5
  <2> QED
    BY <1>6, <2>1, <2>2, <2>3 DEF Whole, Midway
<1> QED
  BY <1>1, <1>2, <1>4, <1>5, <1>6, <1>7, OneStep DEF VolExists, VolListed, Creates

(* VolMkdir: the call excuses a directory without a record.                *)
LEMMA MkdirInv ==
    ASSUME VolInv, NEW k \in VolActors, VolMkdir(k)
    PROVE  VolInv'
<1> DEFINE c == volCall[k]
           d == VolAt(c, "Truncate")
<1>1. c \in VolCall /\ Shaped(c) /\ c.step = "Mkdir" /\ c.id \in VolNames
  BY DEF VolMkdir, VolInv, VolTypeOK, VolShaped, Shaped, Creates
<1>2. d \in VolCall /\ Shaped(d) /\ d.step = "Truncate" /\ d.id = c.id
  BY <1>1 DEF VolAt, VolCall, VolSteps, Shaped, Creates, VolIdle
<1>3. volCall' = [volCall EXCEPT ![k] = d]
  BY DEF VolMkdir, VolGoto
<1>4. VolTypeOK' /\ VolShaped'
  BY <1>2, <1>3 DEF VolMkdir, VolInv, VolTypeOK, VolShaped
<1>5. volCall'[k] = d /\ \A j \in VolActors \ {k} : volCall'[j] = volCall[j]
  BY <1>3 DEF VolInv, VolTypeOK
<1>6. /\ volFile' = volFile /\ volDir'[c.id]
      /\ \A n \in VolNames \ {c.id} : volDir'[n] = volDir[n]
  BY <1>1 DEF VolMkdir, VolInv, VolTypeOK
<1>7. ASSUME ~volOverlap, ~volDied
      PROVE  /\ Midway(volCall[k])'
             /\ \A n \in VolNames : Whole(n)' \/ Excused(volCall[k], n)'
  <2>1. Midway(c) /\ \A n \in VolNames : Whole(n)
    BY <1>1, <1>7, AtWork DEF Excused
  <2> QED
    BY <1>1, <1>2, <1>5, <1>6, <2>1 DEF Whole, Midway, Excused
<1> HIDE DEF d
<1> QED
  BY <1>1, <1>2, <1>4, <1>5, <1>6, <1>7, OneStep DEF VolMkdir, VolListed, Creates

(* VolTruncate: and then a record that is torn.                            *)
LEMMA TruncateInv ==
    ASSUME VolInv, NEW k \in VolActors, VolTruncate(k)
    PROVE  VolInv'
<1> DEFINE c == volCall[k]
           N == Noticed(volCall, k, c.id, "clean")
           d == [c EXCEPT !.step = "Write", !.fd = "clean"]
<1>1. c \in VolCall /\ Shaped(c) /\ c.step = "Truncate" /\ c.id \in VolNames
  BY DEF VolTruncate, VolInv, VolTypeOK, VolShaped, Shaped, Creates
<1>2. d \in VolCall /\ Shaped(d) /\ d.step = "Write" /\ d.id = c.id /\ d.fd = "clean"
  BY <1>1 DEF VolCall, VolSteps, Descriptors, Shaped, Creates, VolIdle
<1>3. /\ N \in [VolActors -> VolCall] /\ N[k] = c
      /\ \A j \in VolActors :
            /\ Shaped(N[j])
            /\ N[j].step = volCall[j].step /\ N[j].id = volCall[j].id
            /\ volCall[j] = VolIdle => N[j] = VolIdle
  BY NoticedCalls DEF VolInv
<1> HIDE DEF N
<1>4. volCall' = [N EXCEPT ![k] = d]
  BY <1>3 DEF VolTruncate, N
<1>5. /\ volCall'[k] = d
      /\ \A j \in VolActors \ {k} : volCall'[j] = N[j]
      /\ volCall' \in [VolActors -> VolCall]
  BY <1>2, <1>3, <1>4
<1>6. /\ volDir' = volDir /\ volFile'[c.id] = Torn
      /\ \A n \in VolNames \ {c.id} : volFile'[n] = volFile[n]
      /\ volFile' \in [VolNames -> Volume \cup {NoRecord, Torn}]
  BY <1>1 DEF VolTruncate, VolInv, VolTypeOK
<1>7. VolTypeOK' /\ VolShaped'
  BY <1>2, <1>3, <1>5, <1>6 DEF VolTruncate, VolInv, VolTypeOK, VolShaped
<1>8. ASSUME ~volOverlap, ~volDied
      PROVE  /\ Midway(volCall[k])'
             /\ \A n \in VolNames : Whole(n)' \/ Excused(volCall[k], n)'
  <2>1. Midway(c) /\ \A n \in VolNames : Whole(n) \/ n = c.id
    BY <1>1, <1>8, AtWork DEF Excused
  <2> QED
    BY <1>1, <1>2, <1>5, <1>6, <2>1 DEF Whole, Midway, Excused
<1>9. ~volTaken => volDir[c.id]
  BY <1>1 DEF VolInv, NothingTaken
<1> HIDE DEF d
<1>10. \A n \in VolNames : n \in VolListed' => n \in VolListed
  BY <1>6, VolRecordsAssumption DEF VolListed
<1> QED
  <2>1. volMenu' = volMenu /\ volOverlap' = volOverlap /\ volDied' = volDied /\ volTaken' = volTaken
    BY DEF VolTruncate
  <2>2. \A j \in VolActors \ {k} :
           /\ volCall'[j].step = volCall[j].step /\ volCall'[j].id = volCall[j].id
           /\ volCall[j] = VolIdle => volCall'[j] = VolIdle
    BY <1>3, <1>5
  <2>3. volCall'[k].step = "Write" /\ volCall'[k].id = c.id
    BY <1>2, <1>5
  <2> QED
    BY <1>1, <1>6, <1>7, <1>8, <1>9, <1>10, <2>1, <2>2, <2>3, OneStep DEF Creates

(* VolWrite: with the record, the volume is whole.                         *)
LEMMA WriteInv ==
    ASSUME VolInv, NEW k \in VolActors, VolWrite(k)
    PROVE  VolInv'
<1> DEFINE c == volCall[k]
           N == Noticed(volCall, k, c.id, "shared")
<1>1. c \in VolCall /\ Shaped(c) /\ c.step = "Write" /\ c.id \in VolNames
      /\ c.fd \in {"clean", "shared", "gone"}
  BY DEF VolWrite, VolInv, VolTypeOK, VolShaped, Shaped, Creates, VolCall, Descriptors
<1>2. /\ N \in [VolActors -> VolCall]
      /\ \A j \in VolActors :
            /\ Shaped(N[j])
            /\ N[j].step = volCall[j].step /\ N[j].id = volCall[j].id
            /\ volCall[j] = VolIdle => N[j] = VolIdle
  BY NoticedCalls DEF VolInv
<1> HIDE DEF N
<1>3. volCall' = [N EXCEPT ![k] = VolIdle]
  BY DEF VolWrite, N
<1>4. /\ volCall'[k] = VolIdle
      /\ \A j \in VolActors \ {k} : volCall'[j] = N[j]
      /\ volCall' \in [VolActors -> VolCall]
  BY <1>2, <1>3, IdleTyped
<1>5. PICK x \in Written(c.fd, [stack |-> c.stack], volFile[c.id]) :
          volFile' = [volFile EXCEPT ![c.id] = x]
  BY DEF VolWrite
<1>6. /\ x \in Volume \cup {NoRecord, Torn}
      /\ c.fd = "clean" => x \in Volume
  <2>1. [stack |-> c.stack] \in Volume
    BY <1>1 DEF VolCall, Volume
  <2>2. volFile[c.id] \in Volume \cup {NoRecord, Torn}
    BY <1>1 DEF VolInv, VolTypeOK
  <2> QED
    BY <1>1, <1>5, <2>1, <2>2 DEF Written
<1>7. /\ volDir' = volDir /\ volFile'[c.id] = x
      /\ \A n \in VolNames \ {c.id} : volFile'[n] = volFile[n]
      /\ volFile' \in [VolNames -> Volume \cup {NoRecord, Torn}]
  BY <1>1, <1>5, <1>6 DEF VolWrite, VolInv, VolTypeOK
<1>8. VolTypeOK' /\ VolShaped'
  BY <1>2, <1>4, <1>7, IdleTyped DEF VolWrite, VolInv, VolTypeOK, VolShaped
<1>9. ASSUME ~volOverlap, ~volDied
      PROVE  /\ Midway(volCall[k])'
             /\ \A n \in VolNames : Whole(n)' \/ Excused(volCall[k], n)'
  <2>1. Midway(c) /\ \A n \in VolNames : Whole(n) \/ n = c.id
    BY <1>1, <1>9, AtWork DEF Excused
  <2>2. Midway(VolIdle)'
    BY DEF Midway, VolIdle
  <2> QED
    BY <1>1, <1>4, <1>6, <1>7, <2>1, <2>2 DEF Whole, Midway
<1>10. ~volTaken => volDir[c.id]
  BY <1>1 DEF VolInv, NothingTaken
<1>11. \A n \in VolNames : n \in VolListed' => n \in VolListed \/ n = c.id
  BY <1>7 DEF VolListed
<1>12. VolIdle.step = "Idle"
  BY DEF VolIdle
<1> QED
  BY <1>1, <1>2, <1>4, <1>7, <1>8, <1>9, <1>10, <1>11, <1>12, OneStep DEF VolWrite

(* VolPrune: on to the next of the list.                                   *)
LEMMA PruneInv ==
    ASSUME VolInv, NEW k \in VolActors, VolPrune(k)
    PROVE  VolInv'
<1> DEFINE c == volCall[k]
<1>1. c \in VolCall /\ Shaped(c) /\ c.step \in {"List", "Each"}
  BY DEF VolPrune, VolInv, VolTypeOK, VolShaped
<1>2. PICK d \in VolCall : Shaped(d) /\ d.step \in {"Each", "Get", "Idle"}
                        /\ volCall' = [volCall EXCEPT ![k] = d]
  <2>1. CASE c.step = "List" /\ VolGoto(k, [c EXCEPT !.todo = VolListed], "Each")
    <3> DEFINE d == [[c EXCEPT !.todo = VolListed] EXCEPT !.step = "Each"]
    <3>1. d \in VolCall /\ Shaped(d) /\ d.step = "Each"
      BY <1>1, <2>1 DEF VolCall, VolSteps, VolListed, Shaped, Creates, VolIdle
    <3> QED
      BY <2>1, <3>1 DEF VolGoto, VolAt
  <2>2. CASE c.step = "Each" /\ \E n \in c.todo :
               VolGoto(k, [c EXCEPT !.id = n, !.todo = c.todo \ {n}], "Get")
    <3>1. PICK n \in c.todo : VolGoto(k, [c EXCEPT !.id = n, !.todo = c.todo \ {n}], "Get")
      BY <2>2
    <3> DEFINE d == [[c EXCEPT !.id = n, !.todo = c.todo \ {n}] EXCEPT !.step = "Get"]
    <3>2. d \in VolCall /\ Shaped(d) /\ d.step = "Get"
      BY <1>1, <2>2 DEF VolCall, VolSteps, Shaped, Creates, VolIdle
    <3> QED
      BY <3>1, <3>2 DEF VolGoto, VolAt
  <2>3. CASE c.step = "Each" /\ VolGoto(k, c, "Idle")
    BY <2>3, IdleTyped DEF VolGoto, VolAt, VolIdle
  <2> QED
    BY <2>1, <2>2, <2>3 DEF VolPrune
<1>3. VolTypeOK' /\ VolShaped'
  BY <1>2 DEF VolPrune, VolInv, VolTypeOK, VolShaped
<1>4. volCall'[k] = d /\ \A j \in VolActors \ {k} : volCall'[j] = volCall[j]
  BY <1>2 DEF VolInv, VolTypeOK
<1>5. volFile' = volFile /\ volDir' = volDir
  BY DEF VolPrune
<1>6. ASSUME ~volOverlap, ~volDied
      PROVE  /\ Midway(volCall[k])'
             /\ \A n \in VolNames : Whole(n)' \/ Excused(volCall[k], n)'
  <2>1. \A n \in VolNames : Whole(n)
    BY <1>1, <1>6, AtWork DEF Excused
  <2> QED
    BY <1>2, <1>4, <1>5, <2>1 DEF Whole, Midway
<1>7. volTaken
  BY <1>1 DEF VolInv, NothingTaken, Creates
<1> QED
  BY <1>1, <1>3, <1>4, <1>6, <1>7, OneStep DEF VolPrune

(* VolGet: alone, what can be listed has its directory.                    *)
LEMMA GetInv ==
    ASSUME VolInv, NEW k \in VolActors, VolGet(k)
    PROVE  VolInv'
<1> DEFINE c == volCall[k]
           s == IF c.id \in VolListed THEN "Rmdir" ELSE VolAfter(c)
           d == VolAt(c, s)
<1>1. c \in VolCall /\ Shaped(c) /\ c.step = "Get" /\ c.id \in VolNames
  BY DEF VolGet, VolInv, VolTypeOK, VolShaped, Shaped, Creates
<1>2. s \in {"Rmdir", "Each", "Idle"} /\ (s = "Rmdir" => c.id \in VolListed)
  BY DEF VolAfter
<1>3. volCall' = [volCall EXCEPT ![k] = d]
  BY DEF VolGet, VolGoto
<1> HIDE DEF s
<1>4. d \in VolCall /\ Shaped(d) /\ d.step = s /\ (s # "Idle" => d.id = c.id)
  BY <1>1, <1>2, IdleTyped DEF VolAt, VolCall, VolSteps, Shaped, Creates, VolIdle
<1>5. VolTypeOK' /\ VolShaped'
  BY <1>3, <1>4 DEF VolGet, VolInv, VolTypeOK, VolShaped
<1>6. volCall'[k] = d /\ \A j \in VolActors \ {k} : volCall'[j] = volCall[j]
  BY <1>3 DEF VolInv, VolTypeOK
<1>7. volFile' = volFile /\ volDir' = volDir
  BY DEF VolGet
<1> HIDE DEF d
<1>8. ASSUME ~volOverlap, ~volDied
      PROVE  /\ Midway(volCall[k])'
             /\ \A n \in VolNames : Whole(n)' \/ Excused(volCall[k], n)'
  <2>1. \A n \in VolNames : Whole(n)
    BY <1>1, <1>8, AtWork DEF Excused
  <2>2. c.id \in VolListed => volFile[c.id] \in Volume /\ volDir[c.id]
    BY <1>1, <2>1, VolRecordsAssumption DEF Whole, VolListed
  <2> QED
    BY <1>2, <1>4, <1>6, <1>7, <2>1, <2>2 DEF Whole, Midway
<1>9. volTaken
  BY <1>1 DEF VolInv, NothingTaken, Creates
<1> QED
  BY <1>1, <1>5, <1>6, <1>8, <1>9, OneStep DEF VolGet

(* VolRmdir: the call excuses a record without its directory.              *)
LEMMA RmdirInv ==
    ASSUME VolInv, NEW k \in VolActors, VolRmdir(k)
    PROVE  VolInv'
<1> DEFINE c == volCall[k]
           d == VolAt(c, "Unlink")
<1>1. c \in VolCall /\ Shaped(c) /\ c.step = "Rmdir" /\ c.id \in VolNames
  BY DEF VolRmdir, VolInv, VolTypeOK, VolShaped, Shaped, Creates
<1>2. d \in VolCall /\ Shaped(d) /\ d.step = "Unlink" /\ d.id = c.id
  BY <1>1 DEF VolAt, VolCall, VolSteps, Shaped, Creates, VolIdle
<1>3. volCall' = [volCall EXCEPT ![k] = d]
  BY DEF VolRmdir, VolGoto
<1>4. VolTypeOK' /\ VolShaped'
  BY <1>2, <1>3 DEF VolRmdir, VolInv, VolTypeOK, VolShaped
<1>5. volCall'[k] = d /\ \A j \in VolActors \ {k} : volCall'[j] = volCall[j]
  BY <1>3 DEF VolInv, VolTypeOK
<1>6. /\ volFile' = volFile /\ ~volDir'[c.id]
      /\ \A n \in VolNames \ {c.id} : volDir'[n] = volDir[n]
  BY <1>1 DEF VolRmdir, VolInv, VolTypeOK
<1> HIDE DEF d
<1>7. ASSUME ~volOverlap, ~volDied
      PROVE  /\ Midway(volCall[k])'
             /\ \A n \in VolNames : Whole(n)' \/ Excused(volCall[k], n)'
  <2>1. \A n \in VolNames : Whole(n)
    BY <1>1, <1>7, AtWork DEF Excused
  <2> QED
    BY <1>1, <1>2, <1>5, <1>6, <2>1 DEF Whole, Midway, Excused
<1>8. volTaken
  BY <1>1 DEF VolInv, NothingTaken, Creates
<1> QED
  BY <1>1, <1>4, <1>5, <1>7, <1>8, OneStep DEF VolRmdir

(* VolUnlink: with the record gone, the volume is gone.                    *)
LEMMA UnlinkInv ==
    ASSUME VolInv, NEW k \in VolActors, VolUnlink(k)
    PROVE  VolInv'
<1> DEFINE c == volCall[k]
           N == Noticed(volCall, k, c.id, "gone")
           d == VolAt(c, VolAfter(c))
<1>1. c \in VolCall /\ Shaped(c) /\ c.step = "Unlink" /\ c.id \in VolNames
  BY DEF VolUnlink, VolInv, VolTypeOK, VolShaped, Shaped, Creates
<1>2. d \in VolCall /\ Shaped(d) /\ d.step \in {"Each", "Idle"}
  BY <1>1, IdleTyped DEF VolAt, VolAfter, VolCall, VolSteps, Shaped, Creates, VolIdle
<1>3. /\ N \in [VolActors -> VolCall]
      /\ \A j \in VolActors :
            /\ Shaped(N[j])
            /\ N[j].step = volCall[j].step /\ N[j].id = volCall[j].id
            /\ volCall[j] = VolIdle => N[j] = VolIdle
  BY NoticedCalls DEF VolInv
<1> HIDE DEF N
<1>4. volCall' = [N EXCEPT ![k] = d]
  BY DEF VolUnlink, N
<1> HIDE DEF d
<1>5. /\ volCall'[k] = d
      /\ \A j \in VolActors \ {k} : volCall'[j] = N[j]
      /\ volCall' \in [VolActors -> VolCall]
  BY <1>2, <1>3, <1>4
<1>6. /\ volDir' = volDir /\ volFile'[c.id] = NoRecord
      /\ \A n \in VolNames \ {c.id} : volFile'[n] = volFile[n]
      /\ volFile' \in [VolNames -> Volume \cup {NoRecord, Torn}]
  BY <1>1 DEF VolUnlink, VolInv, VolTypeOK
<1>7. VolTypeOK' /\ VolShaped'
  BY <1>2, <1>3, <1>5, <1>6 DEF VolUnlink, VolInv, VolTypeOK, VolShaped
<1>8. ASSUME ~volOverlap, ~volDied
      PROVE  /\ Midway(volCall[k])'
             /\ \A n \in VolNames : Whole(n)' \/ Excused(volCall[k], n)'
  <2>1. Midway(c) /\ \A n \in VolNames : Whole(n) \/ n = c.id
    BY <1>1, <1>8, AtWork DEF Excused
  <2> QED
    BY <1>1, <1>2, <1>5, <1>6, <2>1 DEF Whole, Midway
<1>9. volTaken
  BY <1>1 DEF VolInv, NothingTaken, Creates
<1>10. volMenu' = volMenu /\ volOverlap' = volOverlap /\ volDied' = volDied /\ volTaken' = volTaken
  BY DEF VolUnlink
<1>11. \A j \in VolActors \ {k} :
          /\ volCall'[j].step = volCall[j].step /\ volCall'[j].id = volCall[j].id
          /\ volCall[j] = VolIdle => volCall'[j] = VolIdle
  BY <1>3, <1>5
<1> QED
  BY <1>1, <1>7, <1>8, <1>9, <1>10, <1>11, OneStep

\* Whatever kills a call leaves the files and the directories.
LEMMA DieInv ==
    ASSUME VolInv, NEW k \in VolActors, volDied' = TRUE,
           volCall' = [volCall EXCEPT ![k] = VolIdle],
           UNCHANGED <<volFile, volDir, volMenu, volOverlap, volTaken>>
    PROVE  VolInv'
<1>1. /\ volCall'[k] = VolIdle
      /\ \A j \in VolActors \ {k} : volCall'[j] = volCall[j]
      /\ volCall' \in [VolActors -> VolCall]
  BY IdleTyped DEF VolInv, VolTypeOK
<1>2. volDied' /\ volFile' = volFile /\ volDir' = volDir
      /\ volMenu' = volMenu /\ volOverlap' = volOverlap /\ volTaken' = volTaken
  OBVIOUS
<1>3. VolTypeOK' /\ VolShaped'
  BY <1>1, <1>2, IdleTyped DEF VolInv, VolTypeOK, VolShaped
<1>4. Alone' /\ Undisturbed'
  BY <1>1, <1>2 DEF VolInv, Alone, Undisturbed
<1>5. VolIdle.step = "Idle"
  BY DEF VolIdle
<1>6. NothingTaken'
  BY <1>1, <1>2, <1>5 DEF VolInv, NothingTaken, VolListed
<1> QED
  BY <1>3, <1>4, <1>6 DEF VolInv

(* create, rm and prune are requested.                                     *)
LEMMA RequestInv ==
    ASSUME VolInv, NEW k \in VolActors, VolRequest(k)
    PROVE  VolInv'
<1>1. volMenu.names \subseteq VolNames
  BY VolMenusAssumption DEF VolInv, VolTypeOK
<1>2. CASE AskVolCreate(k)
  BY <1>1, <1>2, BeginInv DEF AskVolCreate, VolOps
<1>3. CASE AskVolRm(k)
  BY <1>1, <1>3, BeginInv DEF AskVolRm, VolOps
<1>4. CASE AskVolPrune(k)
  BY <1>4, BeginInv DEF AskVolPrune, VolOps
<1> QED
  BY <1>2, <1>3, <1>4 DEF VolRequest

(* Steps elsewhere change nothing here.                                    *)
LEMMA StutterInv ==
    ASSUME VolInv, UNCHANGED volVars
    PROVE  VolInv'
BY DEF VolInv, volVars, VolTypeOK, VolShaped, Alone, Undisturbed, NothingTaken, Whole, Midway,
       Excused, VolListed

(* Every step keeps the invariant.                                         *)
LEMMA VolNextInv == VolInv /\ [VolNext]_volVars => VolInv'
<1> SUFFICES ASSUME VolInv, [VolNext]_volVars
             PROVE  VolInv'
  OBVIOUS
<1>1. ASSUME NEW k \in VolActors, VolStep(k)
      PROVE  VolInv'
  BY <1>1, ExistsInv, MkdirInv, TruncateInv, WriteInv, PruneInv, GetInv, RmdirInv, UnlinkInv
     DEF VolStep
<1> QED
  BY <1>1, RequestInv, DieInv, StutterInv DEF VolNext, VolDie

-----------------------------------------------------------------------------

(* It holds in every state.                                                *)
LEMMA VolInvariant == VolSpec => []VolInv
BY VolInitInv, VolNextInv, PTL DEF VolSpec

\* Files hold a volume's record or nothing that can be read, and calls keep
\* to their fields, whatever users do at the same time.
THEOREM VolumesTyped == VolSpec => []VolTypeOK
BY VolInvariant, PTL DEF VolInv

\* What the invariant says between commands.
LEMMA VolShows == VolInv => VolumesWhole
<1> SUFFICES ASSUME VolInv PROVE VolumesWhole
  OBVIOUS
<1>1. ASSUME ~volOverlap, ~volDied, VolsIdle
      PROVE  \A n \in VolNames : Whole(n)
  BY <1>1 DEF VolInv, Undisturbed, VolsIdle, Excused, VolIdle
<1>2. ~volTaken => \A n \in VolListed : volDir[n]
  BY DEF VolInv, NothingTaken
<1> QED
  BY <1>1, <1>2 DEF VolumesWhole, Whole

\* Volumes are whole between commands that come one by one (Manager.Create,
\* Delete and Prune leave nothing half done), and until somebody removes one,
\* a record that can be read has its directory.
THEOREM VolumesAreWhole == VolSpec => []VolumesWhole
BY VolShows, VolInvariant, PTL
=============================================================================
