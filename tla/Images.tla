------------------------------- MODULE Images -------------------------------
(***************************************************************************)
(* Images (pkg/image/manager.go, pkg/image/registry.go): the record of an  *)
(* image with its tags, and the directories of layers that images share.   *)
(* pull, rmi, tag and the image side of run are commands of their own      *)
(* (main.go) or requests to the server (handler.go).  A layer is extracted *)
(* in place, and is taken to be there as soon as its directory is.         *)
(***************************************************************************)
EXTENDS Naturals, Sequences, RecordFiles

CONSTANTS
    ImgIds,     \* digests of configurations, ordered as os.ReadDir lists them
    LayerIds,
    Manifest,   \* the layers of each image
    Tags,       \* references as Reference.String writes them
    Shorts,     \* other ways to write them, such as "alpine"
    Full,       \* what ParseReference and String make of either
    ImgActors,  \* commands and requests at the same time
    ImgMenus,   \* who does what, one of these sets of choices per behaviour
    NoTag

ImgOps == {"pull", "rmi", "tag", "run"}
NoImg == 0
ImgRefs == Tags \cup Shorts
ImgKeys == ImgRefs \cup ImgIds     \* what an image may be called by

ASSUME ImgIdsAssumption == ImgIds \subseteq Nat \ {NoImg}
ASSUME ManifestAssumption == Manifest \in [ImgIds -> Seq(LayerIds)]
ASSUME FullAssumption == Full \in [ImgRefs -> Tags] /\ \A t \in Tags : Full[t] = t
ASSUME NoTagAssumption == NoTag \notin ImgKeys /\ ImgRefs \cap ImgIds = {}
ASSUME ImgMenusAssumption ==
    \A m \in ImgMenus : m \in [who : SUBSET ImgActors, ops : SUBSET ImgOps, refs : SUBSET ImgKeys]

VARIABLES
    imgFile,    \* the records
    imgLayer,   \* the directories of layers
    imgRemote,  \* the image each tag has in the registry
    imgCall,    \* what each actor is doing
    imgMenu,    \* the choices of this behaviour
    imgOverlap, \* two actors have been at work at the same time
    imgDied,    \* an actor has been killed
    imgBroke    \* an extraction has failed

imgVars == <<imgFile, imgLayer, imgRemote, imgCall, imgMenu, imgOverlap, imgDied, imgBroke>>

Image == [tags : SUBSET ImgRefs]
ImgContent == Image \cup {NoRecord, Torn}

ASSUME ImgRecordsAssumption == NoRecord \notin Image /\ Torn \notin Image

ImgListed == {i \in ImgIds : imgFile[i] \in Image}
ImgTagged(t) == {i \in ImgListed : t \in imgFile[i].tags}

\* Manager.Get of an id, or of a tag as it was typed: the first image that
\* carries it.
ImgGet(x) ==
    IF x \in ImgIds THEN ImgListed \cap {x}
    ELSE {i \in ImgTagged(x) : \A j \in ImgTagged(x) : i <= j}

-----------------------------------------------------------------------------
(* A call.  todo are the layers still to see to, tags the record to write, *)
(* whole says that nobody has removed the layer since its extraction       *)
(* began, lost that a layer was not extracted when it was copied.          *)

ImgSteps == {"Idle", "Find", "Resolve", "Layers", "Fetch", "Extract", "Truncate", "Write",
             "Tag", "Delete", "Unlink", "Copy"}
ImgCall ==
    [op : ImgOps \cup {"none"}, step : ImgSteps, ref : ImgKeys \cup {NoTag},
     new : ImgRefs \cup {NoTag}, id : ImgIds \cup {NoImg}, tags : SUBSET ImgRefs,
     todo : Seq(LayerIds), whole : BOOLEAN, lost : BOOLEAN, fd : Descriptors]
ImgIdle ==
    [op |-> "none", step |-> "Idle", ref |-> NoTag, new |-> NoTag, id |-> NoImg,
     tags |-> {}, todo |-> <<>>, whole |-> TRUE, lost |-> FALSE, fd |-> "none"]

ImgsIdle == \A k \in ImgActors : imgCall[k] = ImgIdle
ImgAt(c, s) == IF s = "Idle" THEN ImgIdle ELSE [c EXCEPT !.step = s]
ImgGoto(k, c, s) == imgCall' = [imgCall EXCEPT ![k] = ImgAt(c, s)]

ImgFirst == [pull |-> "Resolve", rmi |-> "Delete", tag |-> "Tag", run |-> "Find"]

ImgBegin(k, op, x, t) ==
    /\ imgCall[k] = ImgIdle
    /\ ImgGoto(k, [ImgIdle EXCEPT !.op = op, !.ref = x, !.new = t], ImgFirst[op])
    /\ imgOverlap' = (imgOverlap \/ ~ImgsIdle)
    /\ UNCHANGED <<imgFile, imgLayer, imgRemote, imgMenu, imgDied, imgBroke>>

ImgRequest(k) ==
    /\ k \in imgMenu.who
    /\ \E op \in imgMenu.ops, x \in imgMenu.refs :
          \/ op # "tag" /\ ImgBegin(k, op, x, NoTag)
          \/ op = "tag" /\ \E t \in ImgRefs : ImgBegin(k, op, x, t)

ImgTruncate(k) ==
    LET i == imgCall[k].id IN
    /\ imgCall[k].step = "Truncate"
    /\ imgFile' = [imgFile EXCEPT ![i] = Torn]
    /\ imgCall' = [Noticed(imgCall, k, i, "clean") EXCEPT ![k].step = "Write", ![k].fd = "clean"]
    /\ UNCHANGED <<imgLayer, imgRemote, imgMenu, imgOverlap, imgDied, imgBroke>>

ImgWrite(k) ==
    LET c == imgCall[k] IN
    /\ c.step = "Write"
    /\ \E x \in Written(c.fd, [tags |-> c.tags], imgFile[c.id]) :
          imgFile' = [imgFile EXCEPT ![c.id] = x]
    /\ imgCall' = [Noticed(imgCall, k, c.id, "shared") EXCEPT
                     ![k] = ImgAt([c EXCEPT !.fd = "none", !.todo = Manifest[c.id]],
                                  IF c.op = "run" THEN "Copy" ELSE "Idle")]
    /\ UNCHANGED <<imgLayer, imgRemote, imgMenu, imgOverlap, imgDied, imgBroke>>

-----------------------------------------------------------------------------
(* pull.  Token, manifest and configuration come first; then each layer is *)
(* looked for, fetched and extracted; the record comes last, with the tag  *)
(* it was pulled by and no other.                                          *)

Resolve(k) ==
    LET c == imgCall[k] IN
    /\ c.step = "Resolve"
    /\ \/ ImgGoto(k, c, "Idle")
       \/ LET i == imgRemote[Full[c.ref]]
          IN  c.ref \in ImgRefs /\ ImgGoto(k, [c EXCEPT !.id = i, !.todo = Manifest[i]], "Layers")
    /\ UNCHANGED <<imgFile, imgLayer, imgRemote, imgMenu, imgOverlap, imgDied, imgBroke>>

StatLayer(k) ==
    LET c == imgCall[k] IN
    /\ c.step = "Layers"
    /\ IF c.todo = <<>>
       THEN ImgGoto(k, [c EXCEPT !.tags = {Full[c.ref]}], "Truncate")
       ELSE IF imgLayer[Head(c.todo)] # "none"
       THEN ImgGoto(k, [c EXCEPT !.todo = Tail(c.todo)], "Layers")
       ELSE ImgGoto(k, c, "Fetch")
    /\ UNCHANGED <<imgFile, imgLayer, imgRemote, imgMenu, imgOverlap, imgDied, imgBroke>>

FetchFails(k) ==
    /\ imgCall[k].step = "Fetch"
    /\ ImgGoto(k, imgCall[k], "Idle")
    /\ UNCHANGED <<imgFile, imgLayer, imgRemote, imgMenu, imgOverlap, imgDied, imgBroke>>

\* Over what is there already, files are truncated and written again.
Fetch(k) ==
    LET c == imgCall[k] IN
    /\ c.step = "Fetch"
    /\ imgLayer' = [imgLayer EXCEPT ![Head(c.todo)] = "partial"]
    /\ ImgGoto(k, [c EXCEPT !.whole = TRUE], "Extract")
    /\ UNCHANGED <<imgFile, imgRemote, imgMenu, imgOverlap, imgDied, imgBroke>>

\* What an extraction leaves that came to its end: a file, directory or link
\* that it could not make or write is passed over without an error, so that the
\* layer may be short of it.
Completed == {"full", "short"}

AlsoExtracting(k, l) ==
    {j \in ImgActors \ {k} : imgCall[j].step = "Extract" /\ Head(imgCall[j].todo) = l}

\* What an extraction leaves while another goes on, or after another was
\* undone meanwhile, need not be complete.
Extracted(k) ==
    LET c == imgCall[k]
        l == Head(c.todo) IN
    /\ c.step = "Extract"
    /\ \E s \in IF AlsoExtracting(k, l) # {} THEN {"partial"}
                ELSE IF c.whole THEN Completed ELSE {"partial"} \cup Completed :
          imgLayer' = [imgLayer EXCEPT ![l] = s]
    /\ ImgGoto(k, [c EXCEPT !.todo = Tail(c.todo)], "Layers")
    /\ UNCHANGED <<imgFile, imgRemote, imgMenu, imgOverlap, imgDied, imgBroke>>

\* (mutant of ExtractFails: what was extracted stays)
ExtractFailsKept(k) ==
    /\ imgCall[k].step = "Extract"
    /\ ImgGoto(k, imgCall[k], "Idle")
    /\ imgBroke' = TRUE
    /\ UNCHANGED <<imgFile, imgLayer, imgRemote, imgMenu, imgOverlap, imgDied>>

\* The connection breaks, or the client's two minutes are over.
ExtractFails(k) ==
    LET l == Head(imgCall[k].todo) IN
    /\ imgCall[k].step = "Extract"
    /\ imgLayer' = [imgLayer EXCEPT ![l] = "none"]
    /\ imgCall' = [j \in ImgActors |->
                     IF j = k THEN ImgIdle
                     ELSE IF j \in AlsoExtracting(k, l) THEN [imgCall[j] EXCEPT !.whole = FALSE]
                     ELSE imgCall[j]]
    /\ imgBroke' = TRUE
    /\ UNCHANGED <<imgFile, imgRemote, imgMenu, imgOverlap, imgDied>>

-----------------------------------------------------------------------------
(* run: an image that is not found is pulled; its layers are copied into   *)
(* the directory of the container, and one that is missing is skipped.     *)

Find(k) ==
    LET c == imgCall[k] IN
    /\ c.step = "Find"
    /\ \/ \E i \in ImgGet(c.ref) :
             ImgGoto(k, [c EXCEPT !.id = i, !.todo = Manifest[i]], "Copy")
       \/ ImgGet(c.ref) = {} /\ ImgGoto(k, c, "Resolve")
    /\ UNCHANGED <<imgFile, imgLayer, imgRemote, imgMenu, imgOverlap, imgDied, imgBroke>>

copyRootfs(k) ==
    LET c == imgCall[k] IN
    /\ c.step = "Copy"
    /\ IF c.todo = <<>> THEN ImgGoto(k, c, "Idle")
       ELSE ImgGoto(k, [c EXCEPT !.todo = Tail(c.todo),
                                 !.lost = c.lost \/ imgLayer[Head(c.todo)] \notin Completed], "Copy")
    /\ UNCHANGED <<imgFile, imgLayer, imgRemote, imgMenu, imgOverlap, imgDied, imgBroke>>

-----------------------------------------------------------------------------
(* tag and rmi.  A tag is kept as it was typed, and another image that     *)
(* carries it keeps it too; an image goes with all its tags; its layers    *)
(* stay.                                                                   *)

Tag(k) ==
    LET c == imgCall[k]
        found == {i \in ImgGet(c.ref) : c.new \notin imgFile[i].tags} IN
    /\ c.step = "Tag"
    /\ \/ \E i \in found :
             ImgGoto(k, [c EXCEPT !.id = i, !.tags = imgFile[i].tags \cup {c.new}], "Truncate")
       \/ found = {} /\ ImgGoto(k, c, "Idle")
    /\ UNCHANGED <<imgFile, imgLayer, imgRemote, imgMenu, imgOverlap, imgDied, imgBroke>>

Rmi(k) ==
    LET c == imgCall[k] IN
    /\ c.step = "Delete"
    /\ \/ \E i \in ImgGet(c.ref) : ImgGoto(k, [c EXCEPT !.id = i], "Unlink")
       \/ ImgGet(c.ref) = {} /\ ImgGoto(k, c, "Idle")
    /\ UNCHANGED <<imgFile, imgLayer, imgRemote, imgMenu, imgOverlap, imgDied, imgBroke>>

ImgUnlink(k) ==
    LET i == imgCall[k].id IN
    /\ imgCall[k].step = "Unlink"
    /\ imgFile' = [imgFile EXCEPT ![i] = NoRecord]
    /\ imgCall' = [Noticed(imgCall, k, i, "gone") EXCEPT ![k] = ImgIdle]
    /\ UNCHANGED <<imgLayer, imgRemote, imgMenu, imgOverlap, imgDied, imgBroke>>

-----------------------------------------------------------------------------

\* Somebody publishes another image under a tag.
Publish(t, i) ==
    /\ imgRemote' = [imgRemote EXCEPT ![t] = i]
    /\ imgRemote' # imgRemote
    /\ UNCHANGED <<imgFile, imgLayer, imgCall, imgMenu, imgOverlap, imgDied, imgBroke>>

\* An actor is killed, once in a behaviour, whatever step it was at.
ImgDie(k) ==
    /\ imgCall[k] # ImgIdle /\ ~imgDied
    /\ imgDied' = TRUE
    /\ ImgGoto(k, imgCall[k], "Idle")
    /\ UNCHANGED <<imgFile, imgLayer, imgRemote, imgMenu, imgOverlap, imgBroke>>

ImgInit ==
    /\ imgFile = [i \in ImgIds |-> NoRecord]
    /\ imgLayer = [l \in LayerIds |-> "none"]
    /\ \E i \in ImgIds : imgRemote = [t \in Tags |-> i]
    /\ imgCall = [k \in ImgActors |-> ImgIdle]
    /\ imgMenu \in ImgMenus
    /\ imgOverlap = FALSE
    /\ imgDied = FALSE
    /\ imgBroke = FALSE

ImgStep(k) ==
    \/ ImgTruncate(k) \/ ImgWrite(k) \/ Resolve(k) \/ StatLayer(k) \/ FetchFails(k) \/ Fetch(k)
    \/ Extracted(k) \/ ExtractFails(k) \/ Find(k) \/ copyRootfs(k) \/ Tag(k) \/ Rmi(k)
    \/ ImgUnlink(k)

ImgNext ==
    \/ \E k \in ImgActors : ImgRequest(k) \/ ImgStep(k) \/ ImgDie(k)
    \/ \E x \in imgMenu.refs \cap ImgRefs, i \in ImgIds : Publish(Full[x], i)

ImgSpec == ImgInit /\ [][ImgNext]_imgVars

-----------------------------------------------------------------------------

(* Files hold a record or nothing that can be read.                        *)
ImgTypeOK ==
    /\ imgFile \in [ImgIds -> ImgContent]
    /\ imgLayer \in [LayerIds -> {"none", "partial"} \cup Completed]
    /\ imgRemote \in [Tags -> ImgIds]
    /\ imgCall \in [ImgActors -> ImgCall]
    /\ imgMenu \in ImgMenus
    /\ imgOverlap \in BOOLEAN /\ imgDied \in BOOLEAN /\ imgBroke \in BOOLEAN

LayersOf(i) == {Manifest[i][n] : n \in DOMAIN Manifest[i]}

(* One command at a time: an image that is listed has all its layers, each *)
(* extracted to its end, and a container is not started from less.  Only   *)
(* after a command was killed may one of them be cut off, which no later   *)
(* pull notices; none is ever missing, although images share layers and a  *)
(* pull may fail.  And commands at the same time leave every layer         *)
(* extracted to its end, when they have all ended, unless one of them was  *)
(* killed or its extraction failed.  (To its end is not in full: what      *)
(* could not be written, on a full disk say, is not there.)                *)
ImagesComplete ==
    LET states == {imgLayer[l] : l \in UNION {LayersOf(i) : i \in ImgListed}} IN
    /\ ~imgOverlap =>
          /\ states \subseteq IF imgDied THEN {"partial"} \cup Completed ELSE Completed
          /\ \A k \in ImgActors : imgCall[k].lost => imgDied
    /\ (ImgsIdle /\ ~imgDied /\ ~imgBroke) => states \subseteq Completed

(* "Downloaded newer image for ...": after a pull, the tag leads to the    *)
(* image that was pulled, and not to one that had the tag before.          *)
PulledIsFound ==
    [][\A k \in ImgActors, x \in ImgRefs, i \in ImgIds :
          (/\ imgCall[k].op = "pull"
           /\ imgCall[k].step = "Write"
           /\ imgCall[k].ref = x
           /\ imgCall[k].id = i
           /\ ~imgOverlap
           /\ i \in ImgListed')
          => ImgGet(Full[x])' = {i}]_imgVars
=============================================================================
