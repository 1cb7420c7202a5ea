------------------------------- MODULE Rootfs -------------------------------
(***************************************************************************)
(* From the tar entries of an image's layers to the root file system of a  *)
(* container: extractLayer (pkg/image/registry.go) applies the entries of  *)
(* a layer to a directory of its own, and copyRootfs (pkg/image/manager.go)*)
(* copies one directory after the other over the last.  Next to them, what *)
(* the image format means by the same entries: a marker takes away what    *)
(* the layers below have, and nothing of its own layer.                    *)
(*                                                                         *)
(* Links, devices and modes are not modelled.                              *)
(***************************************************************************)
EXTENDS Naturals, SequencesExt

CONSTANTS
    Paths,          \* sequences of names
    FileData,       \* contents of regular files
    MaxEntries      \* bound on the entries of all layers together

ASSUME PathsAssumption == "dir" \notin FileData /\ MaxEntries \in Nat
ASSUME PathsClosed ==
    /\ Paths \subseteq Seq(UNION {{p[n] : n \in DOMAIN p} : p \in Paths})
    /\ \A p \in Paths : Len(p) > 0 /\ \A n \in 1..Len(p) : SubSeq(p, 1, n) \in Paths

Entry ==
    [kind : {"dir", "whiteout", "opaque"}, path : Paths] \cup
    [kind : {"file"}, path : Paths, data : FileData]

VARIABLES
    rfLayer,    \* the directory of the layer that is being extracted
    rfRoot,     \* the root file system of the container
    rfWalk,     \* what copyDir has not come to yet
    rfPhase,    \* "extract", "copy", or "failed": PrepareRootfs gave up
    rfCount,    \* entries so far
    rfOwn,      \* the entries of the layer, by the image format
    rfMarks,    \* its markers
    rfImage,    \* the root file system, by the image format
    rfMarked,   \* some layer had a marker
    rfLate      \* some marker came after an entry of its own layer that it matches

rfVars == <<rfLayer, rfRoot, rfWalk, rfPhase, rfCount, rfOwn, rfMarks, rfImage, rfMarked, rfLate>>

-----------------------------------------------------------------------------
(* Trees are functions from paths to "dir" or the data of a file.          *)

Parents(p) == {SubSeq(p, 1, n) : n \in 1..(Len(p) - 1)}
Below(p, t) == {q \in DOMAIN t : IsPrefix(p, q)}
RemoveAll(t, S) == Restrict(t, DOMAIN t \ S)

\* Whether v can be made at p: directories only over directories, and
\* files only over files.
Fits(t, p, v) ==
    /\ \A q \in Parents(p) \cap DOMAIN t : t[q] = "dir"
    /\ p \in DOMAIN t => (t[p] = "dir" <=> v = "dir")

\* MkdirAll of the parents comes first.
Put(t, p, v) ==
    [q \in DOMAIN t \cup Parents(p) \cup {p} |->
        IF q = p THEN v ELSE IF q \in DOMAIN t THEN t[q] ELSE "dir"]

Over(t, u) == [p \in DOMAIN t \cup DOMAIN u |-> IF p \in DOMAIN t THEN t[p] ELSE u[p]]

PutEntry(t, e) ==
    LET v == IF e.kind = "dir" THEN "dir" ELSE e.data
    IN  IF Fits(t, e.path, v) THEN Put(t, e.path, v) ELSE t

\* What a marker matches.
Matched(e, t) == Below(e.path, t) \ IF e.kind = "opaque" THEN {e.path} ELSE {}

-----------------------------------------------------------------------------

\* (mutant of extractLayer: the directory of a marker is forgotten)
extractLayerBase(t, e) ==
    IF e.kind \in {"whiteout", "opaque"}
    THEN RemoveAll(t, Matched([e EXCEPT !.path = <<Last(@)>>], t))
    ELSE PutEntry(t, e)

\* An entry that cannot be made is passed over.
extractLayer(t, e) ==
    IF e.kind \in {"whiteout", "opaque"} THEN RemoveAll(t, Matched(e, t)) ELSE PutEntry(t, e)

RfEntry(e) ==
    LET marker == e.kind \in {"whiteout", "opaque"} IN
    /\ rfPhase = "extract" /\ rfCount < MaxEntries
    /\ rfCount' = rfCount + 1
    /\ rfLayer' = extractLayer(rfLayer, e)
    /\ rfOwn' = IF marker THEN rfOwn ELSE PutEntry(rfOwn, e)
    /\ rfMarks' = IF marker THEN rfMarks \cup {e} ELSE rfMarks
    /\ rfMarked' = (rfMarked \/ marker)
    /\ rfLate' = (rfLate \/ (marker /\ Matched(e, rfLayer) # {}))
    /\ UNCHANGED <<rfRoot, rfWalk, rfPhase, rfImage>>

\* What the layers below show through: no marker, and no file of the layer.
Under ==
    LET hidden == UNION {Matched(e, rfImage) : e \in rfMarks}
        files == {p \in DOMAIN rfOwn : rfOwn[p] # "dir"}
    IN  RemoveAll(rfImage, hidden \cup UNION {Below(p, rfImage) : p \in files})

RfCopy ==
    /\ rfPhase = "extract" /\ rfCount > 0
    /\ rfPhase' = "copy"
    /\ rfWalk' = DOMAIN rfLayer
    /\ rfImage' = Over(rfOwn, Under)
    /\ UNCHANGED <<rfLayer, rfRoot, rfCount, rfOwn, rfMarks, rfMarked, rfLate>>

\* One step of the walk: parents come before what they hold.
copyDir ==
    /\ rfPhase = "copy"
    /\ \E p \in rfWalk :
          /\ Parents(p) \cap rfWalk = {}
          /\ rfWalk' = rfWalk \ {p}
          /\ \/ /\ Fits(rfRoot, p, rfLayer[p])
                /\ rfRoot' = Put(rfRoot, p, rfLayer[p])
                /\ UNCHANGED rfPhase
             \/ /\ ~Fits(rfRoot, p, rfLayer[p])
                /\ rfPhase' = "failed"
                /\ UNCHANGED rfRoot
    /\ UNCHANGED <<rfLayer, rfCount, rfOwn, rfMarks, rfImage, rfMarked, rfLate>>

RfLayerDone ==
    /\ rfPhase = "copy" /\ rfWalk = {}
    /\ rfPhase' = "extract"
    /\ rfLayer' = <<>> /\ rfOwn' = <<>> /\ rfMarks' = {}
    /\ UNCHANGED <<rfRoot, rfWalk, rfCount, rfImage, rfMarked, rfLate>>

RfInit ==
    /\ rfLayer = <<>> /\ rfRoot = <<>> /\ rfOwn = <<>> /\ rfImage = <<>>
    /\ rfWalk = {} /\ rfMarks = {}
    /\ rfPhase = "extract" /\ rfCount = 0
    /\ rfMarked = FALSE /\ rfLate = FALSE

RfNext == (\E e \in Entry : RfEntry(e)) \/ RfCopy \/ copyDir \/ RfLayerDone

RfSpec == RfInit /\ [][RfNext]_rfVars

-----------------------------------------------------------------------------

IsTree(t) ==
    /\ DOMAIN t \subseteq Paths
    /\ \A p \in DOMAIN t : t[p] \in FileData \cup {"dir"}

(* Trees are made of files and directories that exist.                     *)
RfTypeOK ==
    /\ IsTree(rfLayer) /\ IsTree(rfRoot) /\ IsTree(rfOwn) /\ IsTree(rfImage)
    /\ rfWalk \subseteq Paths /\ rfMarks \subseteq Entry
    /\ rfPhase \in {"extract", "copy", "failed"} /\ rfCount \in 0..MaxEntries
    /\ rfMarked \in BOOLEAN /\ rfLate \in BOOLEAN

(* The root file system between two layers.  Without markers it is what    *)
(* the image means.  With markers nothing of the image is missing, as long *)
(* as each comes before the entries of its layer that it matches; but what *)
(* they should take away is still there.                                   *)
RootfsComplete ==
    (rfPhase = "extract" /\ rfLayer = <<>> /\ ~rfLate) =>
        /\ ~rfMarked => rfRoot = rfImage
        /\ \A p \in DOMAIN rfImage : p \in DOMAIN rfRoot /\ rfRoot[p] = rfImage[p]
=============================================================================
