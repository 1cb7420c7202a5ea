---------------------------- MODULE ImagesProofs ----------------------------
(***************************************************************************)
(* What is proved of images, for any images, shared layers, registry,      *)
(* actors and menus: types (ImagesTyped), and that a listed image has its  *)
(* layers (ImagesAreComplete); of the references they are pulled by, for   *)
(* any words and texts of any length (ReferencesAreTold); and of the root  *)
(* file systems made of their layers, for any paths and any number of      *)
(* layers and entries (RootfsIsComplete).                                  *)
(*                                                                         *)
(* ImagesComplete speaks of the images that are listed, and is not         *)
(* inductive: a pull lists its image last, long after it looked at the     *)
(* layers.  LayersInv says what a call is through with (Covered), that an  *)
(* extraction fills no layer of a listed image (NotListed), and that an    *)
(* incomplete layer is held by an extraction that goes on (PartialHeld).   *)
(* Each part holds under the conditions the code needs for it: that one    *)
(* command ran at a time (Calm), or that no extraction has failed (Spared  *)
(* is either), and that none was killed.                                   *)
(***************************************************************************)
EXTENDS Images, References, Rootfs, TLAPS, SequenceTheorems

-----------------------------------------------------------------------------

Items(s) == {s[n] : n \in DOMAIN s}

OfImage == {"Layers", "Fetch", "Extract", "Truncate", "Write", "Unlink", "Copy"}
AtLayers == {"Layers", "Fetch", "Extract"}
AtLayer == {"Fetch", "Extract"}

\* What the step of a call says about its other fields.
CallShaped(c) ==
    /\ c.step = "Idle" <=> c = ImgIdle
    /\ c.step = "Write" <=> c.fd # "none"
    /\ c.step \in OfImage => c.id \in ImgIds
    /\ c.step \in AtLayers => c.ref \in ImgRefs
    /\ c.step \in AtLayer => c.todo # <<>>
    /\ c.step = "Tag" => c.new \in ImgRefs

ImgTyped == ImgTypeOK /\ \A k \in ImgActors : CallShaped(imgCall[k])

Calm == ~imgOverlap
Spared == Calm \/ ~imgBroke     \* nobody has lost a layer to another's failure
Present(l) == imgLayer[l] # "none"
Extracting(c, l) == c.step = "Extract" /\ Head(c.todo) = l

\* The layers of its image that a call is through with are there.
Covered(c) ==
    /\ c.step \in AtLayers => \A l \in LayersOf(c.id) : l \in Items(c.todo) \/ Present(l)
    /\ c.step \in {"Truncate", "Write", "Copy"} => \A l \in LayersOf(c.id) : Present(l)
    /\ c.step = "Copy" => Items(c.todo) \subseteq LayersOf(c.id)

OneAtWork ==
    Calm => \A j, k \in ImgActors : imgCall[j] # ImgIdle /\ imgCall[k] # ImgIdle => j = k
NoneMissing ==
    Spared => /\ \A i \in ImgListed : \A l \in LayersOf(i) : Present(l)
              /\ \A k \in ImgActors : Covered(imgCall[k])
NotListed(c) == c.step \in AtLayer => \A i \in ImgListed : Head(c.todo) \notin LayersOf(i)
NoneTouched == Calm => \A k \in ImgActors : NotListed(imgCall[k])
PartialHeld ==
    Spared /\ ~imgDied => \A l \in LayerIds : imgLayer[l] = "partial" =>
                             \E k \in ImgActors : Extracting(imgCall[k], l)
AllWhole == Spared => \A k \in ImgActors : imgCall[k].step = "Extract" => imgCall[k].whole
NoneLost == Calm /\ ~imgDied => \A k \in ImgActors : ~imgCall[k].lost

LayersInv == OneAtWork /\ NoneMissing /\ NoneTouched /\ PartialHeld /\ AllWhole /\ NoneLost
ImgInv == ImgTyped /\ LayersInv

-----------------------------------------------------------------------------

(* What is left of a listing once its head is seen to.                     *)
LEMMA ItemsIs ==
    ASSUME NEW S, NEW s \in Seq(S)
    PROVE  /\ Items(s) \subseteq S
           /\ s # <<>> => /\ Head(s) \in S /\ Tail(s) \in Seq(S)
                          /\ Items(s) = {Head(s)} \cup Items(Tail(s))
<1>1. Items(s) \subseteq S
  BY DEF Items
<1>2. ASSUME s # <<>>
      PROVE  Head(s) \in S /\ Tail(s) \in Seq(S) /\ Items(s) = {Head(s)} \cup Items(Tail(s))
  <2>1. /\ Head(s) = s[1] /\ Head(s) \in S /\ Tail(s) \in Seq(S)
        /\ Len(s) \in Nat \ {0} /\ DOMAIN s = 1..Len(s)
        /\ Len(Tail(s)) = Len(s) - 1 /\ DOMAIN Tail(s) = 1..(Len(s) - 1)
        /\ \A n \in 1..(Len(s) - 1) : Tail(s)[n] = s[n + 1]
    BY <1>2, EmptySeq
  <2>2. PICK t : t = Tail(s)
    OBVIOUS
  <2>3. \A x : x \in Items(s) <=> x = s[1] \/ x \in Items(t)
    <3> TAKE x
    <3>1. ASSUME NEW n \in DOMAIN s, x = s[n] PROVE x = s[1] \/ x \in Items(t)
      <4>1. n # 1 => (n - 1) \in DOMAIN t /\ t[n - 1] = s[n]
        BY <2>1, <2>2
      <4> QED
        BY <3>1, <4>1 DEF Items
    <3>2. ASSUME NEW n \in DOMAIN t, x = t[n] PROVE x \in Items(s)
      <4>1. (n + 1) \in DOMAIN s /\ t[n] = s[n + 1]
        BY <2>1, <2>2
      <4> QED
        BY <3>2, <4>1 DEF Items
    <3>3. s[1] \in Items(s)
      BY <2>1 DEF Items
    <3> QED
      BY <3>1, <3>2, <3>3 DEF Items
  <2> QED
    BY <2>1, <2>2, <2>3
<1> QED
  BY <1>1, <1>2

(* An empty list holds nothing.                                            *)
LEMMA NothingLeft == Items(<<>>) = {}
BY DEF Items

(* The layers of an image, as a list and as a set.                         *)
LEMMA LayersAre ==
    ASSUME NEW i \in ImgIds
    PROVE  /\ Manifest[i] \in Seq(LayerIds) /\ Items(Manifest[i]) = LayersOf(i)
           /\ LayersOf(i) \subseteq LayerIds
<1>1. Manifest[i] \in Seq(LayerIds) /\ Items(Manifest[i]) = LayersOf(i)
  BY ManifestAssumption DEF Items, LayersOf
<1> QED
  BY <1>1, ItemsIs

(* A call that has ended.                                                  *)
LEMMA ImgIdleIs ==
    /\ ImgIdle \in ImgCall /\ CallShaped(ImgIdle)
    /\ ImgIdle.step = "Idle" /\ ImgIdle.fd = "none" /\ ~ImgIdle.lost
    /\ ImgIdle.todo = <<>> /\ ImgIdle.id = NoImg
<1>1. ImgIdle \in ImgCall
  BY DEF ImgIdle, ImgCall, ImgOps, ImgSteps, Descriptors
<1>2. /\ ImgIdle.step = "Idle" /\ ImgIdle.fd = "none" /\ ~ImgIdle.lost
      /\ ImgIdle.todo = <<>> /\ ImgIdle.id = NoImg
  BY DEF ImgIdle
<1>3. CallShaped(ImgIdle)
  BY <1>2 DEF CallShaped, OfImage, AtLayers, AtLayer
<1> QED
  BY <1>1, <1>2, <1>3

(* A call that has ended is of no image.                                   *)
LEMMA IdleHolds ==
    ASSUME NEW c, c.step = "Idle" PROVE Covered(c) /\ NotListed(c)
BY DEF Covered, NotListed, AtLayers, AtLayer

(* Where a call gets to.                                                   *)
LEMMA ImgAtIs ==
    ASSUME NEW c \in ImgCall, NEW s \in ImgSteps
    PROVE  LET d == ImgAt(c, s) IN
           /\ d \in ImgCall /\ d.step = s
           /\ s = "Idle" => d = ImgIdle
           /\ s # "Idle" => /\ d.op = c.op /\ d.ref = c.ref /\ d.new = c.new /\ d.id = c.id
                            /\ d.tags = c.tags /\ d.todo = c.todo /\ d.whole = c.whole
                            /\ d.lost = c.lost /\ d.fd = c.fd
<1>1. CASE s = "Idle"
  BY <1>1, ImgIdleIs DEF ImgAt
<1>2. CASE s # "Idle"
  BY <1>2 DEF ImgAt, ImgCall
<1> QED
  BY <1>1, <1>2

(* A call at work is the only one, unless others have been before.         *)
LEMMA AtWorkAlone ==
    ASSUME ImgInv, NEW k \in ImgActors, imgCall[k].step # "Idle"
    PROVE  Calm => \A j \in ImgActors \ {k} : imgCall[j] = ImgIdle
BY ImgIdleIs DEF ImgInv, LayersInv, OneAtWork

(* What the invariant says of one call.                                    *)
LEMMA CallIs ==
    ASSUME ImgInv, NEW k \in ImgActors, NEW c, c = imgCall[k]
    PROVE  /\ c \in ImgCall /\ CallShaped(c)
           /\ Spared => Covered(c)
           /\ Calm => NotListed(c)
           /\ Spared /\ c.step = "Extract" => c.whole
           /\ Calm /\ ~imgDied => ~c.lost
BY DEF ImgInv, ImgTyped, ImgTypeOK, LayersInv, NoneMissing, NoneTouched, AllWhole, NoneLost

(* A step of one call that changes no file and no layer.                   *)
LEMMA ImgMoved ==
    ASSUME ImgInv, NEW k \in ImgActors, NEW c, c = imgCall[k], NEW d \in ImgCall, CallShaped(d),
           imgCall' = [imgCall EXCEPT ![k] = d],
           UNCHANGED <<imgFile, imgLayer, imgRemote, imgMenu, imgBroke>>,
           imgOverlap' \in BOOLEAN, imgDied' \in BOOLEAN, imgDied => imgDied',
           Calm' => Calm /\ \A j \in ImgActors \ {k} : imgCall[j] = ImgIdle,
           c.step = "Extract" => imgDied', d.step # "Extract",
           Spared => Covered(d), Calm => NotListed(d), Calm' /\ ~imgDied' => ~d.lost
    PROVE  ImgInv'
<1>1. imgCall'[k] = d /\ \A j \in ImgActors \ {k} : imgCall'[j] = imgCall[j]
  BY DEF ImgInv, ImgTyped, ImgTypeOK
<1>2. ImgTyped'
  <2>1. imgCall' \in [ImgActors -> ImgCall]
    BY DEF ImgInv, ImgTyped, ImgTypeOK
  <2>2. \A j \in ImgActors : CallShaped(imgCall'[j])
    BY <1>1 DEF ImgInv, ImgTyped
  <2> QED
    BY <2>1, <2>2 DEF ImgInv, ImgTyped, ImgTypeOK
<1>3. (Spared' => Spared) /\ (Calm' => Calm) /\ ImgListed' = ImgListed
  BY DEF Spared, Calm, ImgListed
<1>4. OneAtWork'
  BY <1>1 DEF OneAtWork
<1>5. NoneMissing'
  <2>1. \A e : Covered(e) => Covered(e)'
    BY DEF Covered, Present
  <2>2. \A j \in ImgActors : Spared => Covered(imgCall'[j])
    BY <1>1 DEF ImgInv, LayersInv, NoneMissing
  <2>3. ASSUME NEW j \in ImgActors, Spared' PROVE Covered(imgCall[j])'
    <3>1. PICK e : e = imgCall'[j]
      OBVIOUS
    <3>2. Covered(e)
      BY <1>3, <2>2, <2>3, <3>1
    <3>3. Covered(e)'
      BY <2>1, <3>2
    <3> QED
      BY <3>1, <3>3
  <2> QED
    BY <1>3, <2>3 DEF ImgInv, LayersInv, NoneMissing, Present
<1>6. NoneTouched'
  BY <1>1, <1>3 DEF ImgInv, LayersInv, NoneTouched, NotListed
<1>7. PartialHeld'
  <2> SUFFICES ASSUME Spared', ~imgDied', NEW l \in LayerIds, imgLayer'[l] = "partial"
               PROVE  \E j \in ImgActors : Extracting(imgCall'[j], l)
    BY DEF PartialHeld
  <2>1. PICK j \in ImgActors : Extracting(imgCall[j], l)
    BY <1>3 DEF ImgInv, LayersInv, PartialHeld
  <2>2. j # k
    BY <2>1 DEF Extracting
  <2> QED
    BY <1>1, <2>1, <2>2
<1>8. AllWhole' /\ NoneLost'
  BY <1>1, <1>3 DEF ImgInv, LayersInv, AllWhole, NoneLost
<1> QED
  BY <1>2, <1>4, <1>5, <1>6, <1>7, <1>8 DEF ImgInv, LayersInv

(* As a step of a call at work, which is how most of them go on.           *)
LEMMA ImgGoesOn ==
    ASSUME ImgInv, NEW k \in ImgActors, NEW c, c = imgCall[k], c.step \notin {"Idle", "Extract"},
           NEW e \in ImgCall, NEW s \in ImgSteps, ImgGoto(k, e, s),
           UNCHANGED <<imgFile, imgLayer, imgRemote, imgMenu, imgOverlap, imgDied, imgBroke>>,
           e.fd = "none", s \notin {"Write", "Extract"},
           s \in OfImage => e.id \in ImgIds, s \in AtLayers => e.ref \in ImgRefs,
           s = "Fetch" => e.todo # <<>>, s = "Tag" => e.new \in ImgRefs,
           NEW d, d = ImgAt(e, s), Spared => Covered(d), Calm => NotListed(d),
           Calm /\ ~imgDied => ~e.lost
    PROVE  ImgInv'
<1>1. /\ d \in ImgCall /\ d.step = s
      /\ s = "Idle" => d = ImgIdle
      /\ s # "Idle" => /\ d.op = e.op /\ d.ref = e.ref /\ d.new = e.new /\ d.id = e.id
                       /\ d.tags = e.tags /\ d.todo = e.todo /\ d.whole = e.whole
                       /\ d.lost = e.lost /\ d.fd = e.fd
  BY ImgAtIs
<1>2. CallShaped(d)
  <2>1. CASE s = "Idle"
    BY <1>1, <2>1, ImgIdleIs
  <2>2. CASE s # "Idle"
    BY <1>1, <2>2, ImgIdleIs DEF CallShaped, AtLayer, AtLayers, OfImage
  <2> QED
    BY <2>1, <2>2
<1>3. imgCall' = [imgCall EXCEPT ![k] = d]
  BY DEF ImgGoto
<1>4. Calm' => Calm /\ \A j \in ImgActors \ {k} : imgCall[j] = ImgIdle
  BY AtWorkAlone DEF Calm
<1>5. imgOverlap' \in BOOLEAN /\ imgDied' \in BOOLEAN
  BY DEF ImgInv, ImgTyped, ImgTypeOK
<1>6. Calm' /\ ~imgDied' => ~d.lost
  BY <1>1, ImgIdleIs DEF Calm
<1> QED
  BY <1>1, <1>2, <1>3, <1>4, <1>5, <1>6, ImgMoved

(* A call ends, and what it was through with is no longer held.            *)
LEMMA ImgEnds ==
    ASSUME ImgInv, NEW k \in ImgActors, NEW c, c = imgCall[k], c.step \notin {"Idle", "Extract"},
           NEW e, ImgGoto(k, e, "Idle"),
           UNCHANGED <<imgFile, imgLayer, imgRemote, imgMenu, imgOverlap, imgDied, imgBroke>>
    PROVE  ImgInv'
<1>1. PICK d : d = ImgIdle
  OBVIOUS
<1>2. d \in ImgCall /\ CallShaped(d) /\ d.step = "Idle" /\ ~d.lost
  BY <1>1, ImgIdleIs
<1>3. Covered(d) /\ NotListed(d)
  BY <1>2, IdleHolds
<1>4. imgCall' = [imgCall EXCEPT ![k] = d]
  BY <1>1 DEF ImgGoto, ImgAt
<1>5. Calm' => Calm /\ \A j \in ImgActors \ {k} : imgCall[j] = ImgIdle
  BY AtWorkAlone DEF Calm
<1>6. imgOverlap' \in BOOLEAN /\ imgDied' \in BOOLEAN
  BY DEF ImgInv, ImgTyped, ImgTypeOK
<1> QED
  BY <1>2, <1>3, <1>4, <1>5, <1>6, ImgMoved

(* A request begins: with others at work, Calm is over.                    *)
LEMMA ImgBeginInv ==
    ASSUME ImgInv, NEW k \in ImgActors, NEW op \in ImgOps, NEW x \in ImgKeys, NEW t,
           t \in IF op = "tag" THEN ImgRefs ELSE {NoTag}, ImgBegin(k, op, x, t)
    PROVE  ImgInv'
<1>1. PICK e : e = [ImgIdle EXCEPT !.op = op, !.ref = x, !.new = t]
  OBVIOUS
<1>2. PICK s : s = ImgFirst[op]
  OBVIOUS
<1>3. PICK d : d = ImgAt(e, s)
  OBVIOUS
<1>4. /\ imgCall[k] = ImgIdle /\ imgCall' = [imgCall EXCEPT ![k] = d]
      /\ imgOverlap' = (imgOverlap \/ ~ImgsIdle)
      /\ UNCHANGED <<imgFile, imgLayer, imgRemote, imgMenu, imgDied, imgBroke>>
  BY <1>1, <1>2, <1>3 DEF ImgBegin, ImgGoto
<1>5. s \in {"Resolve", "Delete", "Tag", "Find"} /\ (s = "Tag" => op = "tag")
  BY <1>2 DEF ImgFirst, ImgOps
<1>6. /\ e \in ImgCall /\ e.fd = "none" /\ ~e.lost /\ e.new = t
  BY <1>1, ImgIdleIs DEF ImgCall
<1>7. s \in ImgSteps /\ s # "Idle"
  BY <1>5 DEF ImgSteps
<1>8. d \in ImgCall /\ d.step = s /\ d.fd = "none" /\ ~d.lost /\ d.new = t
  BY <1>3, <1>6, <1>7, ImgAtIs
<1>9. CallShaped(d)
  BY <1>5, <1>8, ImgIdleIs DEF CallShaped, AtLayer, AtLayers, OfImage
<1>10. Covered(d) /\ NotListed(d)
  BY <1>5, <1>8 DEF Covered, NotListed, AtLayer, AtLayers
<1>11. Calm' => Calm /\ \A j \in ImgActors \ {k} : imgCall[j] = ImgIdle
  BY <1>4 DEF Calm, ImgsIdle
<1>12. imgOverlap' \in BOOLEAN /\ imgDied' \in BOOLEAN
  BY <1>4 DEF ImgInv, ImgTyped, ImgTypeOK
<1>13. PICK c : c = imgCall[k]
  OBVIOUS
<1>14. c.step = "Idle"
  BY <1>4, <1>13, ImgIdleIs
<1> QED
  BY <1>4, <1>5, <1>8, <1>9, <1>10, <1>11, <1>12, <1>13, <1>14, ImgMoved

(* pull, rmi, tag and run are requested.                                   *)
LEMMA ImgRequestInv ==
    ASSUME ImgInv, NEW k \in ImgActors, ImgRequest(k) PROVE ImgInv'
<1>1. PICK op \in imgMenu.ops, x \in imgMenu.refs :
          \/ op # "tag" /\ ImgBegin(k, op, x, NoTag)
          \/ op = "tag" /\ \E t \in ImgRefs : ImgBegin(k, op, x, t)
  BY DEF ImgRequest
<1>2. op \in ImgOps /\ x \in ImgKeys
  BY ImgMenusAssumption DEF ImgInv, ImgTyped, ImgTypeOK
<1> QED
  BY <1>1, <1>2, ImgBeginInv

(* Resolve: all layers of the image are still to see to.                   *)
LEMMA ResolveInv ==
    ASSUME ImgInv, NEW k \in ImgActors, Resolve(k) PROVE ImgInv'
<1>1. PICK c : c = imgCall[k]
  OBVIOUS
<1>2. /\ c.step = "Resolve"
      /\ UNCHANGED <<imgFile, imgLayer, imgRemote, imgMenu, imgOverlap, imgDied, imgBroke>>
  BY <1>1 DEF Resolve
<1>3. CASE ImgGoto(k, c, "Idle")
  BY <1>1, <1>2, <1>3, ImgEnds
<1>4. ASSUME c.ref \in ImgRefs, NEW i, i = imgRemote[Full[c.ref]],
             ImgGoto(k, [c EXCEPT !.id = i, !.todo = Manifest[i]], "Layers")
      PROVE  ImgInv'
  <2>1. i \in ImgIds
    BY <1>4, FullAssumption DEF ImgInv, ImgTyped, ImgTypeOK
  <2>2. c \in ImgCall /\ CallShaped(c) /\ (Calm /\ ~imgDied => ~c.lost)
    BY <1>1, CallIs
  <2>3. PICK e : e = [c EXCEPT !.id = i, !.todo = Manifest[i]]
    OBVIOUS
  <2>4. /\ e \in ImgCall /\ e.id = i /\ e.todo = Manifest[i] /\ e.fd = c.fd /\ e.op = c.op
        /\ e.ref = c.ref /\ e.lost = c.lost
    BY <2>1, <2>2, <2>3, LayersAre DEF ImgCall
  <2>5. PICK d : d = ImgAt(e, "Layers")
    OBVIOUS
  <2>6. d.step = "Layers" /\ d.id = i /\ d.todo = Manifest[i]
    BY <2>4, <2>5, ImgAtIs DEF ImgSteps
  <2>7. Covered(d) /\ NotListed(d)
    BY <2>1, <2>6, LayersAre DEF Covered, NotListed, AtLayer, AtLayers
  <2>8. "Layers" \in ImgSteps /\ "Layers" \notin {"Write", "Extract"} /\ e.fd = "none"
    BY <1>2, <2>2, <2>4 DEF ImgSteps, CallShaped
  <2>9. c.step \notin {"Idle", "Extract"}
    BY <1>2
  <2> QED
    BY <1>1, <1>2, <1>4, <2>1, <2>2, <2>3, <2>4, <2>5, <2>7, <2>8, <2>9, ImgGoesOn
<1> QED
  BY <1>1, <1>3, <1>4 DEF Resolve

(* StatLayer: a layer that is there is seen to, one that is not is fetched.*)
LEMMA StatLayerInv ==
    ASSUME ImgInv, NEW k \in ImgActors, StatLayer(k) PROVE ImgInv'
<1>1. PICK c : c = imgCall[k]
  OBVIOUS
<1>2. /\ c.step = "Layers"
      /\ UNCHANGED <<imgFile, imgLayer, imgRemote, imgMenu, imgOverlap, imgDied, imgBroke>>
  BY <1>1 DEF StatLayer
<1>3. /\ c \in ImgCall /\ CallShaped(c) /\ (Spared => Covered(c)) /\ (Calm /\ ~imgDied => ~c.lost)
      /\ c.step \notin {"Idle", "Extract"}
  BY <1>1, <1>2, CallIs
<1>4. c.id \in ImgIds /\ c.ref \in ImgRefs /\ c.fd = "none" /\ c.todo \in Seq(LayerIds)
  BY <1>2, <1>3 DEF CallShaped, OfImage, AtLayers, ImgCall
<1>5. Spared => \A l \in LayersOf(c.id) : l \in Items(c.todo) \/ Present(l)
  BY <1>2, <1>3 DEF Covered, AtLayers
<1>6. CASE c.todo = <<>>
  <2>1. PICK e : e = [c EXCEPT !.tags = {Full[c.ref]}]
    OBVIOUS
  <2>2. Full[c.ref] \in ImgRefs
    BY <1>4, FullAssumption DEF ImgRefs
  <2>3. /\ e \in ImgCall /\ e.id = c.id /\ e.fd = "none" /\ e.lost = c.lost
    BY <1>3, <1>4, <2>1, <2>2 DEF ImgCall
  <2>4. PICK d : d = ImgAt(e, "Truncate")
    OBVIOUS
  <2>5. d.step = "Truncate" /\ d.id = c.id
    BY <2>3, <2>4, ImgAtIs DEF ImgSteps
  <2>6. Spared => Covered(d)
    BY <1>5, <1>6, <2>5, NothingLeft DEF Covered, AtLayers
  <2>7. NotListed(d)
    BY <2>5 DEF NotListed, AtLayer
  <2>8. ImgGoto(k, e, "Truncate")
    BY <1>1, <1>6, <2>1 DEF StatLayer
  <2>9. /\ "Truncate" \in ImgSteps /\ "Truncate" \notin {"Write", "Extract"}
        /\ "Truncate" \notin AtLayers /\ "Truncate" # "Fetch" /\ "Truncate" # "Tag"
    BY DEF ImgSteps, AtLayers
  <2> QED
    BY <1>1, <1>2, <1>3, <1>4, <2>3, <2>4, <2>6, <2>7, <2>8, <2>9, ImgGoesOn
<1>7. CASE c.todo # <<>> /\ imgLayer[Head(c.todo)] # "none"
  <2>1. PICK e : e = [c EXCEPT !.todo = Tail(c.todo)]
    OBVIOUS
  <2>2. Tail(c.todo) \in Seq(LayerIds) /\ Items(c.todo) = {Head(c.todo)} \cup Items(Tail(c.todo))
    BY <1>4, <1>7, ItemsIs
  <2>3. /\ e \in ImgCall /\ e.id = c.id /\ e.fd = "none" /\ e.lost = c.lost /\ e.ref = c.ref
        /\ e.todo = Tail(c.todo)
    BY <1>3, <1>4, <2>1, <2>2 DEF ImgCall
  <2>4. PICK d : d = ImgAt(e, "Layers")
    OBVIOUS
  <2>5. d.step = "Layers" /\ d.id = c.id /\ d.todo = Tail(c.todo)
    BY <2>3, <2>4, ImgAtIs DEF ImgSteps
  <2>6. Spared => Covered(d)
    BY <1>5, <1>7, <2>2, <2>5 DEF Covered, AtLayers, Present
  <2>7. NotListed(d)
    BY <2>5 DEF NotListed, AtLayer
  <2>8. ImgGoto(k, e, "Layers")
    BY <1>1, <1>7, <2>1 DEF StatLayer
  <2>9. "Layers" \in ImgSteps
    BY DEF ImgSteps
  <2> QED
    BY <1>1, <1>2, <1>3, <1>4, <2>3, <2>4, <2>6, <2>7, <2>8, <2>9, ImgGoesOn
<1>8. CASE c.todo # <<>> /\ imgLayer[Head(c.todo)] = "none"
  <2>1. PICK d : d = ImgAt(c, "Fetch")
    OBVIOUS
  <2>2. d.step = "Fetch" /\ d.id = c.id /\ d.todo = c.todo
    BY <1>3, <2>1, ImgAtIs DEF ImgSteps
  <2>3. Spared => Covered(d)
    BY <1>5, <2>2 DEF Covered, AtLayers
  <2>4. Calm => NotListed(d)
    BY <1>8, <2>2
       DEF NotListed, ImgInv, LayersInv, NoneMissing, Present, Calm, Spared
  <2>5. ImgGoto(k, c, "Fetch")
    BY <1>1, <1>8 DEF StatLayer
  <2>6. "Fetch" \in ImgSteps
    BY DEF ImgSteps
  <2> QED
    BY <1>1, <1>2, <1>3, <1>4, <1>8, <2>1, <2>3, <2>4, <2>5, <2>6, ImgGoesOn
<1> QED
  BY <1>6, <1>7, <1>8

(* FetchFails: nothing is filed, so nothing can be missing.                *)
LEMMA FetchFailsInv ==
    ASSUME ImgInv, NEW k \in ImgActors, FetchFails(k) PROVE ImgInv'
<1>1. imgCall[k].step = "Fetch" /\ ImgGoto(k, imgCall[k], "Idle")
      /\ UNCHANGED <<imgFile, imgLayer, imgRemote, imgMenu, imgOverlap, imgDied, imgBroke>>
  BY DEF FetchFails
<1> QED
  BY <1>1, ImgEnds

(* What an image is called leads to one that is listed.                    *)
LEMMA ImgGetFinds ==
    ASSUME NEW x, NEW i \in ImgGet(x)
    PROVE  i \in ImgIds /\ i \in ImgListed /\ imgFile[i] \in Image
BY DEF ImgGet, ImgListed, ImgTagged

(* Find: an image that is found is listed, and its layers are there.       *)
LEMMA FindInv ==
    ASSUME ImgInv, NEW k \in ImgActors, Find(k) PROVE ImgInv'
<1>1. PICK c : c = imgCall[k]
  OBVIOUS
<1>2. /\ c.step = "Find"
      /\ UNCHANGED <<imgFile, imgLayer, imgRemote, imgMenu, imgOverlap, imgDied, imgBroke>>
  BY <1>1 DEF Find
<1>3. /\ c \in ImgCall /\ CallShaped(c) /\ (Calm /\ ~imgDied => ~c.lost)
      /\ c.step \notin {"Idle", "Extract"} /\ c.fd = "none"
  BY <1>1, <1>2, CallIs DEF CallShaped
<1>4. CASE ImgGoto(k, c, "Resolve")
  <2>1. PICK d : d = ImgAt(c, "Resolve")
    OBVIOUS
  <2>2. d.step = "Resolve" /\ "Resolve" \in ImgSteps
    BY <1>3, <2>1, ImgAtIs DEF ImgSteps
  <2>3. Covered(d) /\ NotListed(d)
    BY <2>2 DEF Covered, NotListed, AtLayer, AtLayers
  <2>4. "Resolve" \notin OfImage /\ "Resolve" \notin AtLayers
    BY DEF OfImage, AtLayers
  <2> QED
    BY <1>1, <1>2, <1>3, <1>4, <2>1, <2>2, <2>3, <2>4, ImgGoesOn
<1>5. ASSUME NEW i \in ImgGet(c.ref), ImgGoto(k, [c EXCEPT !.id = i, !.todo = Manifest[i]], "Copy")
      PROVE  ImgInv'
  <2>1. i \in ImgIds /\ i \in ImgListed
    BY ImgGetFinds
  <2>2. PICK e : e = [c EXCEPT !.id = i, !.todo = Manifest[i]]
    OBVIOUS
  <2>3. /\ e \in ImgCall /\ e.id = i /\ e.todo = Manifest[i] /\ e.fd = "none" /\ e.lost = c.lost
    BY <1>3, <2>1, <2>2, LayersAre DEF ImgCall
  <2>4. PICK d : d = ImgAt(e, "Copy")
    OBVIOUS
  <2>5. d.step = "Copy" /\ d.id = i /\ d.todo = Manifest[i] /\ "Copy" \in ImgSteps
    BY <2>3, <2>4, ImgAtIs DEF ImgSteps
  <2>6. Spared => \A l \in LayersOf(i) : Present(l)
    BY <2>1 DEF ImgInv, LayersInv, NoneMissing
  <2>7. Spared => Covered(d)
    BY <2>1, <2>5, <2>6, LayersAre DEF Covered, AtLayers
  <2>8. NotListed(d)
    BY <2>5 DEF NotListed, AtLayer
  <2>9. ImgGoto(k, e, "Copy") /\ "Copy" \notin AtLayers
    BY <1>5, <2>2 DEF AtLayers
  <2> QED
    BY <1>1, <1>2, <1>3, <2>1, <2>3, <2>4, <2>5, <2>7, <2>8, <2>9, ImgGoesOn
<1> QED
  BY <1>1, <1>4, <1>5 DEF Find

(* copyRootfs: alone, a layer is lost only where a command was killed.     *)
LEMMA copyRootfsInv ==
    ASSUME ImgInv, NEW k \in ImgActors, copyRootfs(k) PROVE ImgInv'
<1>1. PICK c : c = imgCall[k]
  OBVIOUS
<1>2. /\ c.step = "Copy"
      /\ UNCHANGED <<imgFile, imgLayer, imgRemote, imgMenu, imgOverlap, imgDied, imgBroke>>
  BY <1>1 DEF copyRootfs
<1>3. /\ c \in ImgCall /\ CallShaped(c) /\ (Spared => Covered(c)) /\ (Calm /\ ~imgDied => ~c.lost)
      /\ c.step \notin {"Idle", "Extract"} /\ c.fd = "none"
  BY <1>1, <1>2, CallIs DEF CallShaped
<1>4. c.id \in ImgIds /\ c.todo \in Seq(LayerIds)
  BY <1>2, <1>3 DEF CallShaped, OfImage, ImgCall
<1>5. CASE c.todo = <<>>
  <2>1. ImgGoto(k, c, "Idle")
    BY <1>1, <1>5 DEF copyRootfs
  <2> QED
    BY <1>1, <1>2, <1>3, <2>1, ImgEnds
<1>6. CASE c.todo # <<>>
  <2>1. PICK e : e = [c EXCEPT !.todo = Tail(c.todo),
                               !.lost = c.lost \/ imgLayer[Head(c.todo)] \notin Completed]
    OBVIOUS
  <2>2. /\ Tail(c.todo) \in Seq(LayerIds) /\ Head(c.todo) \in LayerIds
        /\ Items(c.todo) = {Head(c.todo)} \cup Items(Tail(c.todo))
    BY <1>4, <1>6, ItemsIs
  <2>3. c.lost \in BOOLEAN
    BY <1>3 DEF ImgCall
  <2>4. /\ e \in ImgCall /\ e.id = c.id /\ e.todo = Tail(c.todo) /\ e.fd = "none"
        /\ e.lost <=> c.lost \/ imgLayer[Head(c.todo)] \notin Completed
    BY <1>3, <2>1, <2>2, <2>3 DEF ImgCall
  <2>5. PICK d : d = ImgAt(e, "Copy")
    OBVIOUS
  <2>6. d.step = "Copy" /\ d.id = c.id /\ d.todo = Tail(c.todo) /\ "Copy" \in ImgSteps
    BY <2>4, <2>5, ImgAtIs DEF ImgSteps
  <2>7. Spared => /\ \A l \in LayersOf(c.id) : Present(l)
                  /\ Items(c.todo) \subseteq LayersOf(c.id)
    BY <1>2, <1>3 DEF Covered
  <2>8. Spared => Covered(d)
    BY <2>2, <2>6, <2>7 DEF Covered, AtLayers
  <2>9. NotListed(d)
    BY <2>6 DEF NotListed, AtLayer
  <2>10. ASSUME Calm, ~imgDied PROVE ~e.lost
    <3>1. Spared /\ \A j \in ImgActors \ {k} : imgCall[j] = ImgIdle
      BY <1>1, <1>3, <2>10, AtWorkAlone DEF Spared
    <3>2. \A j \in ImgActors : imgCall[j].step # "Extract"
      BY <1>1, <1>2, <3>1, ImgIdleIs
    <3>3. imgLayer[Head(c.todo)] \in {"none", "partial"} \cup Completed
      BY <2>2 DEF ImgInv, ImgTyped, ImgTypeOK
    <3>4. imgLayer[Head(c.todo)] # "none"
      BY <2>2, <2>7, <3>1 DEF Present
    <3>5. imgLayer[Head(c.todo)] # "partial"
      BY <2>2, <2>10, <3>1, <3>2 DEF ImgInv, LayersInv, PartialHeld, Extracting
    <3> QED
      BY <1>3, <2>4, <2>10, <3>3, <3>4, <3>5
  <2>11. ImgGoto(k, e, "Copy") /\ "Copy" \notin AtLayers
    BY <1>1, <1>6, <2>1 DEF copyRootfs, AtLayers
  <2> QED
    BY <1>1, <1>2, <1>3, <1>4, <2>4, <2>5, <2>6, <2>8, <2>9, <2>10, <2>11, ImgGoesOn
<1> QED
  BY <1>5, <1>6

(* Tag: the record to write is of a listed image.                          *)
LEMMA TagInv ==
    ASSUME ImgInv, NEW k \in ImgActors, Tag(k) PROVE ImgInv'
<1>1. PICK c : c = imgCall[k]
  OBVIOUS
<1>2. /\ c.step = "Tag"
      /\ UNCHANGED <<imgFile, imgLayer, imgRemote, imgMenu, imgOverlap, imgDied, imgBroke>>
  BY <1>1 DEF Tag
<1>3. /\ c \in ImgCall /\ CallShaped(c) /\ (Calm /\ ~imgDied => ~c.lost)
      /\ c.step \notin {"Idle", "Extract"} /\ c.fd = "none" /\ c.new \in ImgRefs
  BY <1>1, <1>2, CallIs DEF CallShaped
<1>4. CASE ImgGoto(k, c, "Idle")
  BY <1>1, <1>2, <1>3, <1>4, ImgEnds
<1>5. ASSUME NEW i \in ImgGet(c.ref),
             ImgGoto(k, [c EXCEPT !.id = i, !.tags = imgFile[i].tags \cup {c.new}], "Truncate")
      PROVE  ImgInv'
  <2>1. i \in ImgIds /\ i \in ImgListed /\ imgFile[i] \in Image
    BY ImgGetFinds
  <2>2. PICK e : e = [c EXCEPT !.id = i, !.tags = imgFile[i].tags \cup {c.new}]
    OBVIOUS
  <2>3. imgFile[i].tags \cup {c.new} \in SUBSET ImgRefs
    BY <1>3, <2>1 DEF Image
  <2>4. /\ e \in ImgCall /\ e.id = i /\ e.fd = "none" /\ e.lost = c.lost
    BY <1>3, <2>1, <2>2, <2>3 DEF ImgCall
  <2>5. PICK d : d = ImgAt(e, "Truncate")
    OBVIOUS
  <2>6. d.step = "Truncate" /\ d.id = i /\ "Truncate" \in ImgSteps
    BY <2>4, <2>5, ImgAtIs DEF ImgSteps
  <2>7. Spared => \A l \in LayersOf(i) : Present(l)
    BY <2>1 DEF ImgInv, LayersInv, NoneMissing
  <2>8. Spared => Covered(d)
    BY <2>6, <2>7 DEF Covered, AtLayers
  <2>9. NotListed(d)
    BY <2>6 DEF NotListed, AtLayer
  <2>10. ImgGoto(k, e, "Truncate") /\ "Truncate" \notin AtLayers
    BY <1>5, <2>2 DEF AtLayers
  <2> QED
    BY <1>1, <1>2, <1>3, <2>1, <2>4, <2>5, <2>6, <2>8, <2>9, <2>10, ImgGoesOn
<1> QED
  BY <1>1, <1>4, <1>5 DEF Tag

(* Rmi: the record to remove is of a listed image.                         *)
LEMMA RmiInv ==
    ASSUME ImgInv, NEW k \in ImgActors, Rmi(k) PROVE ImgInv'
<1>1. PICK c : c = imgCall[k]
  OBVIOUS
<1>2. /\ c.step = "Delete"
      /\ UNCHANGED <<imgFile, imgLayer, imgRemote, imgMenu, imgOverlap, imgDied, imgBroke>>
  BY <1>1 DEF Rmi
<1>3. /\ c \in ImgCall /\ CallShaped(c) /\ (Calm /\ ~imgDied => ~c.lost)
      /\ c.step \notin {"Idle", "Extract"} /\ c.fd = "none"
  BY <1>1, <1>2, CallIs DEF CallShaped
<1>4. CASE ImgGoto(k, c, "Idle")
  BY <1>1, <1>2, <1>3, <1>4, ImgEnds
<1>5. ASSUME NEW i \in ImgGet(c.ref), ImgGoto(k, [c EXCEPT !.id = i], "Unlink")
      PROVE  ImgInv'
  <2>1. i \in ImgIds
    BY ImgGetFinds
  <2>2. PICK e : e = [c EXCEPT !.id = i]
    OBVIOUS
  <2>3. e \in ImgCall /\ e.id = i /\ e.fd = "none" /\ e.lost = c.lost
    BY <1>3, <2>1, <2>2 DEF ImgCall
  <2>4. PICK d : d = ImgAt(e, "Unlink")
    OBVIOUS
  <2>5. d.step = "Unlink" /\ "Unlink" \in ImgSteps
    BY <2>3, <2>4, ImgAtIs DEF ImgSteps
  <2>6. Covered(d) /\ NotListed(d)
    BY <2>5 DEF Covered, NotListed, AtLayer, AtLayers
  <2>7. ImgGoto(k, e, "Unlink") /\ "Unlink" \notin AtLayers
    BY <1>5, <2>2 DEF AtLayers
  <2> QED
    BY <1>1, <1>2, <1>3, <2>1, <2>3, <2>4, <2>5, <2>6, <2>7, ImgGoesOn
<1> QED
  BY <1>1, <1>4, <1>5 DEF Rmi

(* ImgDie: what was being extracted stays incomplete, and imgDied says so. *)
LEMMA ImgDieInv ==
    ASSUME ImgInv, NEW k \in ImgActors, ImgDie(k) PROVE ImgInv'
<1>1. PICK d : d = ImgIdle
  OBVIOUS
<1>2. d \in ImgCall /\ CallShaped(d) /\ d.step = "Idle" /\ ~d.lost
  BY <1>1, ImgIdleIs
<1>3. Covered(d) /\ NotListed(d)
  BY <1>2, IdleHolds
<1>4. /\ imgCall' = [imgCall EXCEPT ![k] = d] /\ imgDied' = TRUE /\ imgCall[k] # ImgIdle
      /\ UNCHANGED <<imgFile, imgLayer, imgRemote, imgMenu, imgOverlap, imgBroke>>
  BY <1>1 DEF ImgDie, ImgGoto, ImgAt
<1>5. Calm' => Calm /\ \A j \in ImgActors \ {k} : imgCall[j] = ImgIdle
  BY <1>4 DEF Calm, ImgInv, LayersInv, OneAtWork
<1>6. imgOverlap' \in BOOLEAN /\ imgDied' \in BOOLEAN
  BY <1>4 DEF ImgInv, ImgTyped, ImgTypeOK
<1> QED
  BY <1>2, <1>3, <1>4, <1>5, <1>6, ImgMoved

-----------------------------------------------------------------------------
(* The steps that change a record.                                         *)

(* Of a call, the others only see its descriptor change.                   *)
LEMMA ImgNoticed ==
    ASSUME ImgTyped, NEW k \in ImgActors, NEW i, NEW s \in {"clean", "shared", "gone"},
           NEW N, N = Noticed(imgCall, k, i, s)
    PROVE  /\ N \in [ImgActors -> ImgCall] /\ N[k] = imgCall[k]
           /\ \A j \in ImgActors :
                 /\ CallShaped(N[j])
                 /\ N[j].step = imgCall[j].step /\ N[j].id = imgCall[j].id
                 /\ N[j].todo = imgCall[j].todo /\ N[j].whole = imgCall[j].whole
                 /\ N[j].lost = imgCall[j].lost
                 /\ N[j] = ImgIdle <=> imgCall[j] = ImgIdle
<1>1. N = [j \in ImgActors |->
              IF j # k /\ imgCall[j].id = i /\ imgCall[j].fd \in {"clean", "shared"}
              THEN [imgCall[j] EXCEPT !.fd = s] ELSE imgCall[j]]
  BY DEF Noticed, ImgTyped, ImgTypeOK
<1>2. ASSUME NEW j \in ImgActors
      PROVE  /\ N[j] \in ImgCall /\ CallShaped(N[j])
             /\ N[j].step = imgCall[j].step /\ N[j].id = imgCall[j].id
             /\ N[j].todo = imgCall[j].todo /\ N[j].whole = imgCall[j].whole
             /\ N[j].lost = imgCall[j].lost
             /\ N[j] = ImgIdle <=> imgCall[j] = ImgIdle
  <2>1. imgCall[j] \in ImgCall /\ CallShaped(imgCall[j])
    BY DEF ImgTyped, ImgTypeOK
  <2>2. CASE j # k /\ imgCall[j].id = i /\ imgCall[j].fd \in {"clean", "shared"}
    <3>1. PICK e : e = imgCall[j]
      OBVIOUS
    <3>2. PICK f : f = [e EXCEPT !.fd = s]
      OBVIOUS
    <3>3. N[j] = f
      BY <1>1, <2>2, <3>1, <3>2
    <3>4. /\ f \in ImgCall /\ f.fd = s /\ f.step = e.step /\ f.id = e.id /\ f.todo = e.todo
          /\ f.whole = e.whole /\ f.lost = e.lost /\ f.op = e.op /\ f.ref = e.ref /\ f.new = e.new
      BY <2>1, <3>1, <3>2 DEF ImgCall, Descriptors
    <3>5. e.step = "Write"
      BY <2>1, <2>2, <3>1 DEF CallShaped
    <3>6. e # ImgIdle /\ f # ImgIdle
      BY <3>4, <3>5, ImgIdleIs
    <3>7. CallShaped(f)
      BY <2>1, <3>1, <3>4, <3>5, <3>6 DEF CallShaped
    <3> QED
      BY <3>1, <3>3, <3>4, <3>6, <3>7
  <2>3. CASE ~(j # k /\ imgCall[j].id = i /\ imgCall[j].fd \in {"clean", "shared"})
    BY <1>1, <2>1, <2>3
  <2> QED
    BY <2>2, <2>3
<1>3. N \in [ImgActors -> ImgCall]
  BY <1>1, <1>2
<1>4. N[k] = imgCall[k]
  BY <1>1
<1> QED
  BY <1>2, <1>3, <1>4

(* A step on the record of a call: what may be listed has its layers.      *)
LEMMA ImgFiled ==
    ASSUME ImgInv, NEW k \in ImgActors, NEW c, c = imgCall[k], NEW d \in ImgCall, CallShaped(d),
           NEW x \in ImgContent, NEW s \in {"clean", "shared", "gone"},
           c.step \in {"Truncate", "Write"} \/ (c.step = "Unlink" /\ x = NoRecord),
           imgCall' = [Noticed(imgCall, k, c.id, s) EXCEPT ![k] = d],
           imgFile' = [imgFile EXCEPT ![c.id] = x],
           UNCHANGED <<imgLayer, imgRemote, imgMenu, imgOverlap, imgDied, imgBroke>>,
           d.step \notin AtLayer, Spared => Covered(d), Calm /\ ~imgDied => ~d.lost
    PROVE  ImgInv'
<1>1. PICK N : N = Noticed(imgCall, k, c.id, s)
  OBVIOUS
<1>2. /\ N \in [ImgActors -> ImgCall]
      /\ \A j \in ImgActors :
            /\ CallShaped(N[j])
            /\ N[j].step = imgCall[j].step /\ N[j].id = imgCall[j].id
            /\ N[j].todo = imgCall[j].todo /\ N[j].whole = imgCall[j].whole
            /\ N[j].lost = imgCall[j].lost
            /\ N[j] = ImgIdle <=> imgCall[j] = ImgIdle
  BY <1>1, ImgNoticed DEF ImgInv
<1>3. imgCall' = [N EXCEPT ![k] = d]
  BY <1>1
<1>4. imgCall'[k] = d /\ \A j \in ImgActors \ {k} : imgCall'[j] = N[j]
  BY <1>2, <1>3
<1>5. c \in ImgCall /\ CallShaped(c) /\ (Spared => Covered(c)) /\ c.id \in ImgIds
      /\ c.step \notin {"Idle", "Extract"}
  BY CallIs DEF CallShaped, OfImage
<1>6. imgFile' \in [ImgIds -> ImgContent]
  BY DEF ImgInv, ImgTyped, ImgTypeOK
<1>7. ImgTyped'
  <2>1. imgCall' \in [ImgActors -> ImgCall]
    BY <1>2, <1>3
  <2>2. \A j \in ImgActors : CallShaped(imgCall'[j])
    BY <1>2, <1>4
  <2> QED
    BY <1>6, <2>1, <2>2 DEF ImgInv, ImgTyped, ImgTypeOK
<1>8. (Spared' <=> Spared) /\ (Calm' <=> Calm) /\ \A l : Present(l)' <=> Present(l)
  BY DEF Spared, Calm, Present
<1>9. \A i \in ImgListed' : i \in ImgListed \/ (i = c.id /\ c.step \in {"Truncate", "Write"})
  <2>1. imgFile' = [i \in ImgIds |-> IF i = c.id THEN x ELSE imgFile[i]]
    BY DEF ImgInv, ImgTyped, ImgTypeOK
  <2> QED
    BY <2>1, ImgRecordsAssumption DEF ImgListed
<1>10. Calm => \A j \in ImgActors \ {k} : imgCall[j] = ImgIdle
  BY <1>5, AtWorkAlone
<1>11. OneAtWork'
  BY <1>2, <1>4, <1>8, <1>10 DEF OneAtWork
<1>12. NoneMissing'
  <2>1. ASSUME Spared', NEW i \in ImgListed', NEW l \in LayersOf(i) PROVE Present(l)'
    <3>1. CASE i \in ImgListed
      BY <1>8, <2>1, <3>1 DEF ImgInv, LayersInv, NoneMissing
    <3>2. CASE i = c.id /\ c.step \in {"Truncate", "Write"}
      BY <1>5, <1>8, <2>1, <3>2 DEF Covered
    <3> QED
      BY <1>9, <3>1, <3>2
  <2>2. ASSUME Spared', NEW j \in ImgActors PROVE Covered(imgCall[j])'
    <3>1. PICK e : e = imgCall'[j]
      OBVIOUS
    <3>2. Covered(e)
      <4>1. CASE j = k
        BY <1>4, <1>8, <2>2, <3>1, <4>1
      <4>2. CASE j # k
        <5>1. e.step = imgCall[j].step /\ e.id = imgCall[j].id /\ e.todo = imgCall[j].todo
          BY <1>2, <1>4, <3>1, <4>2
        <5>2. Covered(imgCall[j])
          BY <1>8, <2>2 DEF ImgInv, LayersInv, NoneMissing
        <5> QED
          BY <5>1, <5>2 DEF Covered
      <4> QED
        BY <4>1, <4>2
    <3>3. Covered(e)'
      BY <1>8, <3>2 DEF Covered
    <3> QED
      BY <3>1, <3>3
  <2> QED
    BY <2>1, <2>2 DEF NoneMissing
<1>13. NoneTouched'
  <2>1. ASSUME Calm, NEW j \in ImgActors PROVE imgCall'[j].step \notin AtLayer
    BY <1>2, <1>4, <1>10, <2>1, ImgIdleIs DEF AtLayer
  <2> QED
    BY <1>8, <2>1 DEF NoneTouched, NotListed
<1>14. PartialHeld'
  <2> SUFFICES ASSUME Spared', ~imgDied', NEW l \in LayerIds, imgLayer'[l] = "partial"
               PROVE  \E j \in ImgActors : Extracting(imgCall'[j], l)
    BY DEF PartialHeld
  <2>1. PICK j \in ImgActors : Extracting(imgCall[j], l)
    BY <1>8 DEF ImgInv, LayersInv, PartialHeld
  <2>2. j # k
    BY <1>5, <2>1 DEF Extracting
  <2> QED
    BY <1>2, <1>4, <2>1, <2>2 DEF Extracting
<1>15. AllWhole' /\ NoneLost'
  BY <1>2, <1>4, <1>8 DEF ImgInv, LayersInv, AllWhole, NoneLost, AtLayer
<1> QED
  BY <1>7, <1>11, <1>12, <1>13, <1>14, <1>15 DEF ImgInv, LayersInv

(* ImgTruncate: the image is not listed for now.                           *)
LEMMA ImgTruncateInv ==
    ASSUME ImgInv, NEW k \in ImgActors, ImgTruncate(k) PROVE ImgInv'
<1>1. PICK c : c = imgCall[k]
  OBVIOUS
<1>2. PICK N : N = Noticed(imgCall, k, c.id, "clean")
  OBVIOUS
<1>3. PICK d : d = [c EXCEPT !.step = "Write", !.fd = "clean"]
  OBVIOUS
<1>4. /\ c.step = "Truncate" /\ imgFile' = [imgFile EXCEPT ![c.id] = Torn]
      /\ imgCall' = [N EXCEPT ![k].step = "Write", ![k].fd = "clean"]
      /\ UNCHANGED <<imgLayer, imgRemote, imgMenu, imgOverlap, imgDied, imgBroke>>
  BY <1>1, <1>2 DEF ImgTruncate
<1>5. N \in [ImgActors -> ImgCall] /\ N[k] = c
  BY <1>1, <1>2, ImgNoticed DEF ImgInv
<1>6. imgCall' = [Noticed(imgCall, k, c.id, "clean") EXCEPT ![k] = d]
  BY <1>2, <1>3, <1>4, <1>5
<1>7. /\ c \in ImgCall /\ CallShaped(c) /\ (Spared => Covered(c))
      /\ Calm /\ ~imgDied => ~c.lost
  BY <1>1, CallIs
<1>8. /\ d \in ImgCall /\ d.step = "Write" /\ d.fd = "clean" /\ d.id = c.id /\ d.lost = c.lost
  BY <1>3, <1>7 DEF ImgCall, ImgSteps, Descriptors
<1>9. c.id \in ImgIds
  BY <1>4, <1>7 DEF CallShaped, OfImage
<1>10. CallShaped(d) /\ d.step \notin AtLayer
  BY <1>8, <1>9, ImgIdleIs DEF CallShaped, OfImage, AtLayers, AtLayer
<1>11. Spared => Covered(d)
  BY <1>4, <1>7, <1>8 DEF Covered, AtLayers
<1>12. Torn \in ImgContent
  BY DEF ImgContent
<1> QED
  BY <1>1, <1>4, <1>6, <1>7, <1>8, <1>10, <1>11, <1>12, ImgFiled

(* ImgWrite: the image is listed, or torn, with its layers there.          *)
LEMMA ImgWriteInv ==
    ASSUME ImgInv, NEW k \in ImgActors, ImgWrite(k) PROVE ImgInv'
<1>1. PICK c : c = imgCall[k]
  OBVIOUS
<1>2. PICK e : e = [c EXCEPT !.fd = "none", !.todo = Manifest[c.id]]
  OBVIOUS
<1>3. PICK s : s = IF c.op = "run" THEN "Copy" ELSE "Idle"
  OBVIOUS
<1>4. PICK d : d = ImgAt(e, s)
  OBVIOUS
<1>5. /\ c.step = "Write"
      /\ \E x \in Written(c.fd, [tags |-> c.tags], imgFile[c.id]) :
            imgFile' = [imgFile EXCEPT ![c.id] = x]
      /\ imgCall' = [Noticed(imgCall, k, c.id, "shared") EXCEPT ![k] = d]
      /\ UNCHANGED <<imgLayer, imgRemote, imgMenu, imgOverlap, imgDied, imgBroke>>
  BY <1>1, <1>2, <1>3, <1>4 DEF ImgWrite
<1>6. PICK x \in Written(c.fd, [tags |-> c.tags], imgFile[c.id]) :
         imgFile' = [imgFile EXCEPT ![c.id] = x]
  BY <1>5
<1>7. /\ c \in ImgCall /\ CallShaped(c) /\ (Spared => Covered(c))
      /\ Calm /\ ~imgDied => ~c.lost
  BY <1>1, CallIs
<1>8. c.id \in ImgIds /\ c.fd \in {"clean", "shared", "gone"} /\ c.tags \in SUBSET ImgRefs
  BY <1>5, <1>7 DEF CallShaped, OfImage, ImgCall, Descriptors
<1>9. x \in ImgContent
  <2>1. [tags |-> c.tags] \in Image /\ imgFile[c.id] \in ImgContent
    BY <1>8 DEF Image, ImgInv, ImgTyped, ImgTypeOK
  <2>2. CASE c.fd \in {"clean", "shared"}
    BY <1>6, <2>1, <2>2 DEF Written, ImgContent
  <2>3. CASE c.fd = "gone"
    BY <1>6, <2>1, <2>3 DEF Written
  <2> QED
    BY <1>8, <2>2, <2>3
<1>10. /\ e \in ImgCall /\ e.fd = "none" /\ e.id = c.id /\ e.lost = c.lost
       /\ e.todo = Manifest[c.id]
  BY <1>2, <1>7, <1>8, LayersAre DEF ImgCall, Descriptors
<1>11. s \in {"Copy", "Idle"} /\ s \in ImgSteps
  BY <1>3 DEF ImgSteps
<1>12. /\ d \in ImgCall /\ d.step = s /\ (s = "Idle" => d = ImgIdle)
       /\ s # "Idle" => /\ d.id = c.id /\ d.todo = Manifest[c.id] /\ d.lost = c.lost
                        /\ d.fd = "none"
  BY <1>4, <1>10, <1>11, ImgAtIs
<1>13. CallShaped(d) /\ d.step \notin AtLayer
  <2>1. CASE s = "Idle"
    BY <1>12, <2>1, ImgIdleIs DEF AtLayer
  <2>2. CASE s = "Copy"
    BY <1>8, <1>12, <2>2, ImgIdleIs DEF CallShaped, OfImage, AtLayers, AtLayer
  <2> QED
    BY <1>11, <2>1, <2>2
<1>14. Spared => Covered(d)
  <2>1. CASE s = "Idle"
    BY <1>12, <2>1, IdleHolds
  <2>2. CASE s = "Copy"
    BY <1>5, <1>7, <1>8, <1>12, <2>2, LayersAre DEF Covered, AtLayers
  <2> QED
    BY <1>11, <2>1, <2>2
<1>15. Calm /\ ~imgDied => ~d.lost
  BY <1>7, <1>11, <1>12, ImgIdleIs
<1>16. c.step \in {"Truncate", "Write"} /\ "shared" \in {"clean", "shared", "gone"}
  BY <1>5
<1>17. UNCHANGED <<imgLayer, imgRemote, imgMenu, imgOverlap, imgDied, imgBroke>>
       /\ imgCall' = [Noticed(imgCall, k, c.id, "shared") EXCEPT ![k] = d]
  BY <1>5
<1> QED
  BY <1>1, <1>6, <1>9, <1>12, <1>13, <1>14, <1>15, <1>16, <1>17, ImgFiled

(* ImgUnlink: one image less is listed.                                    *)
LEMMA ImgUnlinkInv ==
    ASSUME ImgInv, NEW k \in ImgActors, ImgUnlink(k) PROVE ImgInv'
<1>1. PICK c : c = imgCall[k]
  OBVIOUS
<1>2. PICK d : d = ImgIdle
  OBVIOUS
<1>3. /\ c.step = "Unlink" /\ imgFile' = [imgFile EXCEPT ![c.id] = NoRecord]
      /\ imgCall' = [Noticed(imgCall, k, c.id, "gone") EXCEPT ![k] = d]
      /\ UNCHANGED <<imgLayer, imgRemote, imgMenu, imgOverlap, imgDied, imgBroke>>
  BY <1>1, <1>2 DEF ImgUnlink
<1>4. d \in ImgCall /\ CallShaped(d) /\ ~d.lost /\ d.step = "Idle"
  BY <1>2, ImgIdleIs
<1>5. Covered(d) /\ d.step \notin AtLayer
  BY <1>4, IdleHolds DEF AtLayer
<1>6. NoRecord \in ImgContent
  BY DEF ImgContent
<1> QED
  BY <1>1, <1>3, <1>4, <1>5, <1>6, ImgFiled

-----------------------------------------------------------------------------
(* The steps that change a layer.                                          *)

(* A step that fills a layer, which no listed image has if calm.           *)
LEMMA ImgLayered ==
    ASSUME ImgInv, NEW k \in ImgActors, NEW c, c = imgCall[k], c.step \in AtLayer,
           NEW d \in ImgCall, CallShaped(d), imgCall' = [imgCall EXCEPT ![k] = d],
           NEW l, l = Head(c.todo), NEW s \in {"partial"} \cup Completed,
           imgLayer' = [imgLayer EXCEPT ![l] = s],
           UNCHANGED <<imgFile, imgRemote, imgMenu, imgOverlap, imgDied, imgBroke>>,
           Spared => Covered(d)', Calm => NotListed(d), d.lost = c.lost,
           Spared /\ d.step = "Extract" => d.whole,
           Spared /\ s = "partial" =>
              Extracting(d, l) \/ \E j \in ImgActors \ {k} : Extracting(imgCall[j], l)
    PROVE  ImgInv'
<1>1. imgCall'[k] = d /\ \A j \in ImgActors \ {k} : imgCall'[j] = imgCall[j]
  BY DEF ImgInv, ImgTyped, ImgTypeOK
<1>2. /\ c \in ImgCall /\ CallShaped(c) /\ (Calm /\ ~imgDied => ~c.lost)
      /\ c.step # "Idle"
  BY CallIs DEF AtLayer
<1>3. l \in LayerIds
  BY <1>2, ItemsIs DEF CallShaped, ImgCall
<1>4. imgLayer' \in [LayerIds -> {"none", "partial"} \cup Completed] /\ imgLayer'[l] = s
      /\ \A m \in LayerIds \ {l} : imgLayer'[m] = imgLayer[m]
  BY <1>3 DEF ImgInv, ImgTyped, ImgTypeOK
<1>5. ImgTyped'
  <2>1. imgCall' \in [ImgActors -> ImgCall]
    BY DEF ImgInv, ImgTyped, ImgTypeOK
  <2>2. \A j \in ImgActors : CallShaped(imgCall'[j])
    BY <1>1 DEF ImgInv, ImgTyped
  <2> QED
    BY <1>4, <2>1, <2>2 DEF ImgInv, ImgTyped, ImgTypeOK
<1>6. (Spared' <=> Spared) /\ (Calm' <=> Calm) /\ ImgListed' = ImgListed
  BY DEF Spared, Calm, ImgListed
<1>7. \A m \in LayerIds : Present(m) => Present(m)'
  BY <1>4 DEF Present, Completed
<1>8. Calm => \A j \in ImgActors \ {k} : imgCall[j] = ImgIdle
  BY <1>2, AtWorkAlone
<1>9. OneAtWork'
  BY <1>1, <1>6, <1>8 DEF OneAtWork
<1>10. NoneMissing'
  <2>1. ASSUME Spared', NEW i \in ImgListed', NEW m \in LayersOf(i) PROVE Present(m)'
    <3>1. m \in LayerIds
      BY <2>1, LayersAre DEF ImgListed
    <3> QED
      BY <1>6, <1>7, <2>1, <3>1 DEF ImgInv, LayersInv, NoneMissing
  <2>2. ASSUME Spared', NEW j \in ImgActors PROVE Covered(imgCall[j])'
    <3>1. CASE j = k
      BY <1>1, <1>6, <2>2, <3>1
    <3>2. CASE j # k
      <4>1. PICK e : e = imgCall[j]
        OBVIOUS
      <4>2. Covered(e) /\ CallShaped(e)
        BY <1>6, <2>2, <4>1, CallIs
      <4>3. e.step \in OfImage => LayersOf(e.id) \subseteq LayerIds
        BY <4>2, LayersAre DEF CallShaped
      <4>4. Covered(e)'
        BY <1>7, <4>2, <4>3 DEF Covered, OfImage, AtLayers
      <4>5. imgCall'[j] = e
        BY <1>1, <3>2, <4>1
      <4> QED
        BY <4>4, <4>5
    <3> QED
      BY <3>1, <3>2
  <2> QED
    BY <2>1, <2>2 DEF NoneMissing
<1>11. NoneTouched'
  BY <1>1, <1>6 DEF ImgInv, LayersInv, NoneTouched, NotListed
<1>12. PartialHeld'
  <2> SUFFICES ASSUME Spared', ~imgDied', NEW m \in LayerIds, imgLayer'[m] = "partial"
               PROVE  \E j \in ImgActors : Extracting(imgCall'[j], m)
    BY DEF PartialHeld
  <2>1. CASE m = l
    BY <1>1, <1>4, <1>6, <2>1
  <2>2. CASE m # l
    <3>1. PICK j \in ImgActors : Extracting(imgCall[j], m)
      BY <1>4, <1>6, <2>2 DEF ImgInv, LayersInv, PartialHeld
    <3>2. j # k
      BY <2>2, <3>1 DEF Extracting
    <3> QED
      BY <1>1, <3>1, <3>2
  <2> QED
    BY <2>1, <2>2
<1>13. AllWhole' /\ NoneLost'
  BY <1>1, <1>2, <1>6 DEF ImgInv, LayersInv, AllWhole, NoneLost
<1> QED
  BY <1>5, <1>9, <1>10, <1>11, <1>12, <1>13 DEF ImgInv, LayersInv

(* Fetch: the layer is there, incomplete, and its extraction holds it.     *)
LEMMA FetchInv ==
    ASSUME ImgInv, NEW k \in ImgActors, Fetch(k) PROVE ImgInv'
<1>1. PICK c : c = imgCall[k]
  OBVIOUS
<1>2. PICK l : l = Head(c.todo)
  OBVIOUS
<1>3. PICK e : e = [c EXCEPT !.whole = TRUE]
  OBVIOUS
<1>4. PICK d : d = ImgAt(e, "Extract")
  OBVIOUS
<1>5. /\ c.step = "Fetch" /\ imgLayer' = [imgLayer EXCEPT ![l] = "partial"]
      /\ imgCall' = [imgCall EXCEPT ![k] = d]
      /\ UNCHANGED <<imgFile, imgRemote, imgMenu, imgOverlap, imgDied, imgBroke>>
  BY <1>1, <1>2, <1>3, <1>4 DEF Fetch, ImgGoto
<1>6. c \in ImgCall /\ CallShaped(c) /\ (Spared => Covered(c)) /\ (Calm => NotListed(c))
  BY <1>1, CallIs
<1>7. /\ e \in ImgCall /\ e.id = c.id /\ e.fd = c.fd /\ e.lost = c.lost /\ e.ref = c.ref
      /\ e.todo = c.todo /\ e.whole
  BY <1>3, <1>6 DEF ImgCall
<1>8. /\ d \in ImgCall /\ d.step = "Extract" /\ d.id = c.id /\ d.fd = c.fd /\ d.lost = c.lost
      /\ d.ref = c.ref /\ d.todo = c.todo /\ d.whole
  BY <1>4, <1>7, ImgAtIs DEF ImgSteps
<1>9. c.step \in AtLayer /\ CallShaped(d)
  BY <1>5, <1>6, <1>8, ImgIdleIs DEF CallShaped, OfImage, AtLayers, AtLayer
<1>10. Calm => NotListed(d)
  BY <1>5, <1>6, <1>8 DEF NotListed, AtLayer
<1>11. Extracting(d, l)
  BY <1>2, <1>8 DEF Extracting
<1>12. \A m \in LayerIds : Present(m) => Present(m)'
  BY <1>5 DEF Present, ImgInv, ImgTyped, ImgTypeOK
<1>13. c.id \in ImgIds
  BY <1>5, <1>6 DEF CallShaped, OfImage
<1>14. Spared => Covered(d)'
  BY <1>5, <1>6, <1>8, <1>12, <1>13, LayersAre DEF Covered, AtLayers
<1> QED
  BY <1>1, <1>2, <1>5, <1>8, <1>9, <1>10, <1>11, <1>14, ImgLayered

(* Extracted: the layer is complete, unless another is still at it.        *)
LEMMA ExtractedInv ==
    ASSUME ImgInv, NEW k \in ImgActors, Extracted(k) PROVE ImgInv'
<1>1. PICK c : c = imgCall[k]
  OBVIOUS
<1>2. PICK l : l = Head(c.todo)
  OBVIOUS
<1>3. PICK e : e = [c EXCEPT !.todo = Tail(c.todo)]
  OBVIOUS
<1>4. PICK d : d = ImgAt(e, "Layers")
  OBVIOUS
<1>5. /\ c.step = "Extract" /\ imgCall' = [imgCall EXCEPT ![k] = d]
      /\ UNCHANGED <<imgFile, imgRemote, imgMenu, imgOverlap, imgDied, imgBroke>>
  BY <1>1, <1>3, <1>4 DEF Extracted, ImgGoto
<1>6. PICK s \in IF AlsoExtracting(k, l) # {} THEN {"partial"}
                 ELSE IF c.whole THEN Completed ELSE {"partial"} \cup Completed :
         imgLayer' = [imgLayer EXCEPT ![l] = s]
  BY <1>1, <1>2 DEF Extracted
<1>7. /\ c \in ImgCall /\ CallShaped(c) /\ (Spared => Covered(c)) /\ (Spared => c.whole)
  BY <1>1, <1>5, CallIs
<1>8. c.id \in ImgIds /\ c.fd = "none" /\ c.todo \in Seq(LayerIds) /\ c.todo # <<>>
      /\ c.ref \in ImgRefs
  BY <1>5, <1>7 DEF CallShaped, OfImage, AtLayers, AtLayer, ImgCall
<1>9. /\ l \in LayerIds /\ Tail(c.todo) \in Seq(LayerIds)
      /\ Items(c.todo) = {l} \cup Items(Tail(c.todo))
  BY <1>2, <1>8, ItemsIs
<1>10. /\ e \in ImgCall /\ e.id = c.id /\ e.fd = c.fd /\ e.lost = c.lost /\ e.ref = c.ref
       /\ e.todo = Tail(c.todo)
  BY <1>3, <1>7, <1>9 DEF ImgCall
<1>11. /\ d \in ImgCall /\ d.step = "Layers" /\ d.id = c.id /\ d.fd = c.fd /\ d.lost = c.lost
       /\ d.ref = c.ref /\ d.todo = Tail(c.todo)
  BY <1>4, <1>10, ImgAtIs DEF ImgSteps
<1>12. c.step \in AtLayer /\ CallShaped(d)
  BY <1>5, <1>8, <1>11, ImgIdleIs DEF CallShaped, OfImage, AtLayers, AtLayer
<1>13. NotListed(d)
  BY <1>11 DEF NotListed, AtLayer
<1>14. s \in {"partial"} \cup Completed
  BY <1>6
<1>15. Present(l)' /\ \A m \in LayerIds : Present(m) => Present(m)'
  BY <1>6, <1>9, <1>14 DEF Present, Completed, ImgInv, ImgTyped, ImgTypeOK
<1>16. Spared => Covered(d)'
  BY <1>5, <1>7, <1>8, <1>9, <1>11, <1>15, LayersAre DEF Covered, AtLayers
<1>17. Spared /\ s = "partial" => \E j \in ImgActors \ {k} : Extracting(imgCall[j], l)
  BY <1>6, <1>7 DEF AlsoExtracting, Extracting, Completed
<1> QED
  BY <1>1, <1>2, <1>5, <1>6, <1>11, <1>12, <1>13, <1>14, <1>16, <1>17, ImgLayered

(* What one loses by the failure of another is not claimed, and alone it   *)
(* loses nothing but a layer that no listed image has.                     *)
LEMMA ExtractFailsInv ==
    ASSUME ImgInv, NEW k \in ImgActors, ExtractFails(k) PROVE ImgInv'
<1>1. PICK c : c = imgCall[k]
  OBVIOUS
<1>2. PICK l : l = Head(c.todo)
  OBVIOUS
<1>3. /\ c.step = "Extract" /\ imgLayer' = [imgLayer EXCEPT ![l] = "none"]
      /\ imgBroke' = TRUE
      /\ imgCall' = [j \in ImgActors |->
                       IF j = k THEN ImgIdle
                       ELSE IF j \in AlsoExtracting(k, l) THEN [imgCall[j] EXCEPT !.whole = FALSE]
                       ELSE imgCall[j]]
      /\ UNCHANGED <<imgFile, imgRemote, imgMenu, imgOverlap, imgDied>>
  BY <1>1, <1>2 DEF ExtractFails
<1>4. \A j \in ImgActors :
        /\ imgCall'[j] \in ImgCall /\ CallShaped(imgCall'[j])
  <2> TAKE j \in ImgActors
  <2>1. PICK e : e = imgCall[j]
    OBVIOUS
  <2>2. PICK f : f = [e EXCEPT !.whole = FALSE]
    OBVIOUS
  <2>3. e \in ImgCall /\ CallShaped(e)
    BY <2>1 DEF ImgInv, ImgTyped, ImgTypeOK
  <2>4. /\ f \in ImgCall /\ f.step = e.step /\ f.fd = e.fd /\ f.id = e.id /\ f.ref = e.ref
        /\ f.todo = e.todo /\ f.new = e.new
    BY <2>2, <2>3 DEF ImgCall
  <2>5. e.step = "Extract" => CallShaped(f)
    BY <2>3, <2>4, ImgIdleIs DEF CallShaped, OfImage, AtLayers, AtLayer
  <2>6. j \in AlsoExtracting(k, l) => e.step = "Extract"
    BY <2>1 DEF AlsoExtracting
  <2>7. imgCall'[j] \in {ImgIdle, e} \/ (imgCall'[j] = f /\ j \in AlsoExtracting(k, l))
    BY <1>3, <2>1, <2>2
  <2> QED
    BY <2>3, <2>4, <2>5, <2>6, <2>7, ImgIdleIs
<1>5. ImgTyped'
  <2>1. imgCall' \in [ImgActors -> ImgCall]
    BY <1>3, <1>4
  <2>2. imgLayer' \in [LayerIds -> {"none", "partial"} \cup Completed]
    BY <1>3 DEF ImgInv, ImgTyped, ImgTypeOK
  <2> QED
    BY <1>3, <1>4, <2>1, <2>2 DEF ImgInv, ImgTyped, ImgTypeOK
<1>6. (Calm' <=> Calm) /\ (Spared' => Calm) /\ ImgListed' = ImgListed
  BY <1>3 DEF Calm, Spared, ImgListed
<1>7. c \in ImgCall /\ CallShaped(c) /\ (Calm => NotListed(c))
  BY <1>1, CallIs
<1>8. l \in LayerIds
  BY <1>2, <1>3, <1>7, ItemsIs DEF CallShaped, AtLayer, ImgCall
<1>9. ASSUME Calm
      PROVE  \A j \in ImgActors : imgCall'[j] = ImgIdle
  <2>1. \A j \in ImgActors \ {k} : imgCall[j] = ImgIdle
    BY <1>1, <1>3, <1>9, AtWorkAlone
  <2>2. \A j \in ImgActors \ {k} : j \notin AlsoExtracting(k, l)
    BY <2>1, ImgIdleIs DEF AlsoExtracting
  <2> QED
    BY <1>3, <2>1, <2>2
<1>10. OneAtWork'
  BY <1>6, <1>9 DEF OneAtWork
<1>11. NoneMissing'
  <2>1. ASSUME Spared', NEW i \in ImgListed', NEW m \in LayersOf(i) PROVE Present(m)'
    <3>1. Present(m)
      BY <1>6, <2>1 DEF ImgInv, LayersInv, NoneMissing, Spared
    <3>2. m # l
      BY <1>2, <1>3, <1>6, <1>7, <2>1 DEF NotListed, AtLayer
    <3>3. m \in LayerIds
      BY <2>1, LayersAre DEF ImgListed
    <3> QED
      BY <1>3, <3>1, <3>2, <3>3 DEF Present, ImgInv, ImgTyped, ImgTypeOK
  <2>2. ASSUME Spared', NEW j \in ImgActors PROVE Covered(imgCall[j])'
    <3>1. PICK e : e = ImgIdle
      OBVIOUS
    <3>2. imgCall'[j] = e /\ e.step = "Idle"
      BY <1>6, <1>9, <2>2, <3>1, ImgIdleIs
    <3>3. Covered(e)'
      BY <3>2 DEF Covered, AtLayers
    <3> QED
      BY <3>2, <3>3
  <2> QED
    BY <2>1, <2>2 DEF NoneMissing
<1>12. NoneTouched' /\ AllWhole' /\ NoneLost'
  BY <1>6, <1>9, ImgIdleIs DEF NoneTouched, NotListed, AtLayer, AllWhole, NoneLost
<1>13. PartialHeld'
  <2> SUFFICES ASSUME Spared', ~imgDied', NEW m \in LayerIds, imgLayer'[m] = "partial"
               PROVE  FALSE
    BY DEF PartialHeld
  <2>1. m # l /\ imgLayer[m] = "partial"
    BY <1>3, <1>8 DEF ImgInv, ImgTyped, ImgTypeOK
  <2>2. PICK j \in ImgActors : Extracting(imgCall[j], m)
    BY <1>3, <1>6, <2>1 DEF ImgInv, LayersInv, PartialHeld, Spared
  <2>3. imgCall[j] # ImgIdle /\ imgCall[k] # ImgIdle
    BY <1>1, <1>3, <2>2, ImgIdleIs DEF Extracting
  <2>4. j = k
    BY <1>6, <2>3 DEF ImgInv, LayersInv, OneAtWork
  <2> QED
    BY <1>1, <1>2, <2>1, <2>2, <2>4 DEF Extracting
<1> QED
  BY <1>5, <1>10, <1>11, <1>12, <1>13 DEF ImgInv, LayersInv

-----------------------------------------------------------------------------

(* Nobody's records or layers change.                                      *)
LEMMA ImgStill ==
    ASSUME ImgInv, UNCHANGED <<imgFile, imgLayer, imgCall, imgMenu, imgOverlap, imgDied, imgBroke>>,
           imgRemote' \in [Tags -> ImgIds]
    PROVE  ImgInv'
<1>1. ImgTyped'
  BY DEF ImgInv, ImgTyped, ImgTypeOK
<1>2. LayersInv'
  BY DEF ImgInv, LayersInv, OneAtWork, NoneMissing, NoneTouched, PartialHeld, AllWhole, NoneLost,
         Calm, Spared, Present, Covered, NotListed, ImgListed
<1> QED
  BY <1>1, <1>2 DEF ImgInv

(* No images, no layers, no calls.                                         *)
LEMMA ImgInvStarts == ImgInit => ImgInv
<1> SUFFICES ASSUME ImgInit PROVE ImgInv
  OBVIOUS
<1>1. /\ \A i \in ImgIds : imgFile[i] = NoRecord
      /\ \A l \in LayerIds : imgLayer[l] = "none"
      /\ \A k \in ImgActors : imgCall[k] = ImgIdle
      /\ imgMenu \in ImgMenus /\ imgOverlap = FALSE /\ imgDied = FALSE /\ imgBroke = FALSE
  BY DEF ImgInit
<1>2. ImgListed = {}
  BY <1>1, ImgRecordsAssumption DEF ImgListed
<1>3. ImgTyped
  <2>1. ImgIdle \in ImgCall /\ CallShaped(ImgIdle)
    BY ImgIdleIs
  <2>2. imgRemote \in [Tags -> ImgIds]
    BY DEF ImgInit
  <2>3. imgCall \in [ImgActors -> ImgCall]
    BY <2>1 DEF ImgInit
  <2>4. imgFile \in [ImgIds -> ImgContent] /\ imgLayer \in [LayerIds -> {"none", "partial"} \cup Completed]
    BY DEF ImgInit, ImgContent
  <2> QED
    BY <1>1, <2>1, <2>2, <2>3, <2>4 DEF ImgTyped, ImgTypeOK
<1>4. OneAtWork /\ NoneTouched /\ AllWhole /\ NoneLost
  BY <1>1, ImgIdleIs DEF OneAtWork, NoneTouched, NotListed, AtLayer, AllWhole, NoneLost
<1>5. NoneMissing
  <2>1. Covered(ImgIdle)
    BY ImgIdleIs, IdleHolds
  <2> QED
    BY <1>1, <1>2, <2>1 DEF NoneMissing
<1>6. PartialHeld
  BY <1>1 DEF PartialHeld
<1> QED
  BY <1>3, <1>4, <1>5, <1>6 DEF ImgInv, LayersInv

(* Each of the steps above, and what happens elsewhere.                    *)
LEMMA ImgInvStep == ImgInv /\ [ImgNext]_imgVars => ImgInv'
<1> SUFFICES ASSUME ImgInv, [ImgNext]_imgVars PROVE ImgInv'
  OBVIOUS
<1>1. ASSUME NEW k \in ImgActors, ImgRequest(k) \/ ImgStep(k) \/ ImgDie(k) PROVE ImgInv'
  BY <1>1, ImgRequestInv, ImgDieInv, ImgTruncateInv, ImgWriteInv, ResolveInv, StatLayerInv,
     FetchFailsInv, FetchInv, ExtractedInv, ExtractFailsInv, FindInv, copyRootfsInv, TagInv,
     RmiInv, ImgUnlinkInv DEF ImgStep
<1>2. ASSUME NEW t, NEW i \in ImgIds, Publish(t, i) PROVE ImgInv'
  <2>1. imgRemote' \in [Tags -> ImgIds]
    BY <1>2 DEF Publish, ImgInv, ImgTyped, ImgTypeOK
  <2> QED
    BY <1>2, <2>1, ImgStill DEF Publish
<1>3. CASE UNCHANGED imgVars
  <2>1. imgRemote' \in [Tags -> ImgIds]
    BY <1>3 DEF imgVars, ImgInv, ImgTyped, ImgTypeOK
  <2> QED
    BY <1>3, <2>1, ImgStill DEF imgVars
<1> QED
  BY <1>1, <1>2, <1>3 DEF ImgNext

(* The invariant holds in every state.                                     *)
LEMMA ImgAlways == ImgSpec => []ImgInv
BY ImgInvStarts, ImgInvStep, PTL DEF ImgSpec

(* Records stay absent, torn or images with their tags, layers absent,     *)
(* incomplete or whole, for any images, layers, actors and menus.          *)
THEOREM ImagesTyped == ImgSpec => []ImgTypeOK
<1>1. ImgInv => ImgTypeOK
  BY DEF ImgInv, ImgTyped
<1> QED
  BY <1>1, ImgAlways, PTL

(* What the invariant says of the states ImagesComplete speaks of.         *)
LEMMA InvComplete == ImgInv => ImagesComplete
<1> SUFFICES ASSUME ImgInv PROVE ImagesComplete
  OBVIOUS
<1> DEFINE states == {imgLayer[l] : l \in UNION {LayersOf(i) : i \in ImgListed}}
<1>1. ASSUME Spared, NEW i \in ImgListed, NEW l \in LayersOf(i)
      PROVE  /\ imgLayer[l] \in {"partial"} \cup Completed
             /\ ~imgDied /\ imgLayer[l] = "partial" =>
                   \E k \in ImgActors : Extracting(imgCall[k], l)
  <2>1. l \in LayerIds
    BY <1>1, LayersAre DEF ImgListed
  <2>2. imgLayer[l] # "none"
    BY <1>1 DEF ImgInv, LayersInv, NoneMissing, Present
  <2>3. imgLayer[l] \in {"none", "partial"} \cup Completed
    BY <2>1 DEF ImgInv, ImgTyped, ImgTypeOK
  <2> QED
    BY <1>1, <2>1, <2>2, <2>3 DEF ImgInv, LayersInv, PartialHeld
<1>2. ASSUME Calm PROVE states \subseteq IF imgDied THEN {"partial"} \cup Completed ELSE Completed
  <2> SUFFICES ASSUME NEW i \in ImgListed, NEW l \in LayersOf(i)
               PROVE  imgLayer[l] \in IF imgDied THEN {"partial"} \cup Completed ELSE Completed
    OBVIOUS
  <2>1. \A k \in ImgActors : ~Extracting(imgCall[k], l)
    BY <1>2 DEF ImgInv, LayersInv, NoneTouched, NotListed, AtLayer, Extracting
  <2> QED
    BY <1>1, <1>2, <2>1 DEF Spared
<1>3. ASSUME Calm, NEW k \in ImgActors, imgCall[k].lost PROVE imgDied
  BY <1>3 DEF ImgInv, LayersInv, NoneLost
<1>4. ASSUME ImgsIdle, ~imgDied, ~imgBroke PROVE states \subseteq Completed
  <2> SUFFICES ASSUME NEW i \in ImgListed, NEW l \in LayersOf(i)
               PROVE  imgLayer[l] \in Completed
    OBVIOUS
  <2>1. \A k \in ImgActors : ~Extracting(imgCall[k], l)
    BY <1>4, ImgIdleIs DEF ImgsIdle, Extracting
  <2> QED
    BY <1>1, <1>4, <2>1 DEF Spared
<1> QED
  BY <1>2, <1>3, <1>4 DEF ImagesComplete, Calm

(* A listed image has all its layers, complete unless a command was killed,*)
(* as long as one command runs at a time; and whatever ran at the same     *)
(* time, once all have ended and none was killed or failed at a layer.     *)
(* Images may share layers, and a pull fail at any of them.                *)
THEOREM ImagesAreComplete == ImgSpec => []ImagesComplete
BY ImgAlways, InvComplete, PTL

-----------------------------------------------------------------------------
(* References.                                                             *)

(* A text has at least one word.                                           *)
LEMMA TextIs ==
    ASSUME NEW t \in Text
    PROVE  /\ t.path \in Seq(Words) /\ Len(t.path) > 0
           /\ t.tag \in RefTags \cup {Nothing} /\ t.digest \in MaybeDigest
<1>1. PICK n \in 1..MaxWords : t.path \in [1..n -> Words]
  BY DEF Text
<1>2. n \in Nat /\ n > 0
  BY <1>1, MaxWordsAssumption
<1>3. t.path \in Seq(Words) /\ Len(t.path) = n
  BY <1>1, <1>2
<1> QED
  BY <1>2, <1>3 DEF Text

(* A word put in front of others, and taken off again.                     *)
LEMMA WordPushed ==
    ASSUME NEW S, NEW p \in Seq(S), NEW x \in S, NEW q, q = <<x>> \o p
    PROVE  q \in Seq(S) /\ Len(q) = Len(p) + 1 /\ Head(q) = x /\ Tail(q) = p
<1>1. <<x>> \in Seq(S) /\ Len(<<x>>) = 1 /\ <<x>>[1] = x
  OBVIOUS
<1>2. /\ q \in Seq(S) /\ Len(q) = Len(p) + 1 /\ Len(p) \in Nat
      /\ \A i \in 1..(Len(p) + 1) : q[i] = IF i <= 1 THEN <<x>>[i] ELSE p[i - 1]
  BY <1>1, ConcatProperties, LenProperties
<1>3. Head(q) = x
  BY <1>1, <1>2
<1>4. q # <<>>
  BY <1>2, EmptySeq
<1>5. /\ Tail(q) \in Seq(S) /\ Len(Tail(q)) = Len(p)
      /\ \A i \in 1..Len(p) : Tail(q)[i] = q[i + 1]
  BY <1>2, <1>4, HeadTailProperties
<1>6. \A i \in 1..Len(p) : Tail(q)[i] = p[i]
  BY <1>2, <1>5
<1>7. Tail(q) = p
  BY <1>5, <1>6, SeqEqual
<1> QED
  BY <1>2, <1>3, <1>7

(* The first word of some, and the others.                                 *)
LEMMA WordPopped ==
    ASSUME NEW S, NEW p \in Seq(S), Len(p) > 0
    PROVE  /\ Head(p) \in S /\ Tail(p) \in Seq(S) /\ Len(Tail(p)) = Len(p) - 1
           /\ <<Head(p)>> \o Tail(p) = p
<1>1. PICK q : q = <<Head(p)>> \o Tail(p)
  OBVIOUS
<1>2. p # <<>> /\ Len(p) \in Nat
  BY EmptySeq, LenProperties
<1>3. /\ Head(p) \in S /\ Tail(p) \in Seq(S) /\ Len(Tail(p)) = Len(p) - 1
      /\ \A i \in 1..Len(Tail(p)) : Tail(p)[i] = p[i + 1]
  BY <1>2, HeadTailProperties
<1>4. q \in Seq(S) /\ Len(q) = Len(p)
  BY <1>1, <1>2, <1>3, WordPushed
<1>5. \A i \in 1..Len(q) : q[i] = IF i <= 1 THEN <<Head(p)>>[i] ELSE Tail(p)[i - 1]
  <2>1. <<Head(p)>> \in Seq(S) /\ Len(<<Head(p)>>) = 1
    BY <1>3
  <2>2. \A i \in 1..(Len(<<Head(p)>>) + Len(Tail(p))) :
           q[i] = IF i <= Len(<<Head(p)>>) THEN <<Head(p)>>[i] ELSE Tail(p)[i - Len(<<Head(p)>>)]
    BY <1>1, <1>3, <2>1, ConcatProperties
  <2> QED
    BY <1>2, <1>3, <1>4, <2>1, <2>2
<1>6. <<Head(p)>>[1] = p[1]
  BY <1>2
<1>7. \A i \in 1..Len(q) : q[i] = p[i]
  BY <1>2, <1>3, <1>4, <1>5, <1>6
<1> QED
  BY <1>1, <1>3, <1>4, <1>7, SeqEqual

(* Tag and digest of a text are what is read again from the tag that is    *)
(* kept.                                                                   *)
LEMMA VersionKept ==
    ASSUME NEW t \in Text, NEW r, r = ParseReference(t), NEW u, u = String(r),
           NEW v, v = ParseReference(u)
    PROVE  v.inName = r.inName /\ v.digest = r.digest /\ v.tag = r.tag
<1>1. /\ r.inName = IF t.digest # Nothing THEN t.tag ELSE Nothing
      /\ r.tag = IF t.digest # Nothing THEN Nothing
                 ELSE IF t.tag = Nothing THEN "latest" ELSE t.tag
      /\ r.digest = t.digest
  BY DEF ParseReference
<1>2. u.tag = (IF r.digest # Nothing THEN r.inName ELSE r.tag) /\ u.digest = r.digest
  BY DEF String
<1>3. /\ v.inName = IF u.digest # Nothing THEN u.tag ELSE Nothing
      /\ v.tag = IF u.digest # Nothing THEN Nothing
                 ELSE IF u.tag = Nothing THEN "latest" ELSE u.tag
      /\ v.digest = u.digest
  BY DEF ParseReference
<1>4. Nothing # "latest"
  BY NothingAssumption
<1> QED
  BY <1>1, <1>2, <1>3, <1>4

(* Registry and name are read again too, if the name is not blurred.       *)
LEMMA NameKept ==
    ASSUME NEW t \in Text, NEW r, r = ParseReference(t), ~Blurred(r), NEW u, u = String(r),
           NEW v, v = ParseReference(u)
    PROVE  v.registry = r.registry /\ v.name = r.name
<1> DEFINE Far(p) == Len(p) > 1 /\ Head(p) \in DottedWords \cup {"localhost"}
<1>1. PICK p : p = t.path
  OBVIOUS
<1>2. PICK q : q = u.path
  OBVIOUS
<1>3. PICK g : g = r.registry
  OBVIOUS
<1>4. PICK m : m = r.name
  OBVIOUS
<1>5. PICK n : n = IF Len(m) > 1 /\ Head(m) = "library" THEN Tail(m) ELSE m
  OBVIOUS
<1>6. p \in Seq(Words \cup {"library"}) /\ Len(p) \in Nat /\ Len(p) > 0
  BY <1>1, TextIs, SeqMonotonic
<1>7. /\ g = IF Far(p) THEN Head(p) ELSE Hub
      /\ m = IF Far(p) THEN Tail(p) ELSE IF Len(p) = 1 THEN <<"library">> \o p ELSE p
  BY <1>1, <1>3, <1>4 DEF ParseReference
<1>8. q = IF g = Hub THEN n ELSE <<g>> \o n
  BY <1>2, <1>3, <1>4, <1>5 DEF String
<1>9. /\ v.registry = IF Far(q) THEN Head(q) ELSE Hub
      /\ v.name = IF Far(q) THEN Tail(q) ELSE IF Len(q) = 1 THEN <<"library">> \o q ELSE q
  BY <1>2 DEF ParseReference
<1>10. IF g = Hub
       THEN /\ Len(m) # 1
            /\ Head(m) \notin DottedWords \cup {"localhost"}
            /\ ~(Head(m) = "library" /\ Len(m) > 2)
       ELSE ~(Len(m) > 1 /\ Head(m) = "library")
  BY <1>3, <1>4 DEF Blurred
<1>11. \A s : Len(s) = 1 => ~Far(s)
  OBVIOUS
<1>12. Far(p) => Len(p) > 1
  OBVIOUS
<1>13. Head(m) \notin DottedWords \cup {"localhost"} => ~Far(m)
  OBVIOUS
<1> HIDE DEF Far
<1>14. CASE ~Far(p) /\ Len(p) = 1
  <2>1. m = <<"library">> \o p /\ g = Hub
    BY <1>7, <1>14
  <2>2. Len(m) = Len(p) + 1 /\ Head(m) = "library" /\ Tail(m) = p
    BY <1>6, <2>1, WordPushed
  <2>3. n = p
    BY <1>5, <1>14, <2>2
  <2>4. q = p
    BY <1>8, <2>1, <2>3
  <2> QED
    BY <1>3, <1>4, <1>9, <1>14, <2>1, <2>4
<1>15. CASE g = Hub /\ Len(p) # 1
  <2>1. /\ m \in Seq(Words \cup {"library"}) /\ Len(m) \in Nat /\ Len(m) > 1
        /\ Head(m) # "library" \/ Len(m) = 2
    <3>1. m \in Seq(Words \cup {"library"}) /\ Len(m) \in Nat
      BY <1>6, <1>7, <1>15, WordPopped, LenProperties
    <3>2. Len(m) > 0
      <4>1. CASE Far(p)
        <5>1. m = Tail(p) /\ Len(p) > 1 /\ Len(Tail(p)) = Len(p) - 1
          BY <1>6, <1>7, <1>12, <4>1, WordPopped
        <5> QED
          BY <1>6, <5>1
      <4>2. CASE ~Far(p)
        BY <1>6, <1>7, <1>15, <4>2
      <4> QED
        BY <4>1, <4>2
    <3>3. Len(m) # 1 /\ (Head(m) # "library" \/ ~(Len(m) > 2))
      BY <1>10, <1>15
    <3>4. \A k \in Nat : k > 0 /\ k # 1 => k > 1 /\ (k > 2 \/ k = 2)
      OBVIOUS
    <3>5. Len(m) > 1 /\ (Len(m) > 2 \/ Len(m) = 2)
      BY <3>1, <3>2, <3>3, <3>4
    <3> QED
      BY <3>1, <3>3, <3>5
  <2>2. CASE Head(m) = "library"
    <3>1. n = Tail(m)
      BY <1>5, <2>1, <2>2
    <3>2. q = Tail(m)
      BY <1>8, <1>15, <3>1
    <3>3. <<"library">> \o Tail(m) = m /\ Len(Tail(m)) = Len(m) - 1
      BY <2>1, <2>2, WordPopped
    <3>4. Len(q) = 1
      BY <2>1, <2>2, <3>2, <3>3
    <3> QED
      BY <1>3, <1>4, <1>9, <1>11, <1>15, <3>2, <3>3, <3>4
  <2>3. CASE Head(m) # "library"
    <3>1. q = m
      BY <1>5, <1>8, <1>15, <2>3
    <3>2. ~Far(q) /\ Len(q) # 1
      BY <1>10, <1>13, <1>15, <2>1, <3>1
    <3> QED
      BY <1>3, <1>4, <1>9, <1>15, <3>1, <3>2
  <2> QED
    BY <2>2, <2>3
<1>16. CASE g # Hub
  <2>1. Far(p) /\ g = Head(p) /\ m = Tail(p)
    BY <1>7, <1>16
  <2>2. n = m
    BY <1>5, <1>10, <1>16
  <2>3. q = p
    BY <1>6, <1>8, <1>16, <2>1, <2>2, WordPopped
  <2> QED
    BY <1>3, <1>4, <1>9, <2>1, <2>3
<1>17. Far(p) => Len(p) # 1
  BY <1>11
<1> QED
  BY <1>7, <1>14, <1>15, <1>16, <1>17

(* Who types the tag that is kept asks for the same.                       *)
LEMMA AskedAgain ==
    ASSUME NEW t \in Text, ~Blurred(ParseReference(t))
    PROVE  Asked(ParseReference(Kept(t))) = Asked(ParseReference(t))
<1>1. PICK r : r = ParseReference(t)
  OBVIOUS
<1>2. PICK u : u = String(r)
  OBVIOUS
<1>3. PICK v : v = ParseReference(u)
  OBVIOUS
<1>4. v.inName = r.inName /\ v.digest = r.digest /\ v.tag = r.tag
  BY <1>1, <1>2, <1>3, VersionKept
<1>5. v.registry = r.registry /\ v.name = r.name
  BY <1>1, <1>2, <1>3, NameKept
<1>6. Asked(v) = Asked(r)
  BY <1>4, <1>5 DEF Asked
<1> QED
  BY <1>1, <1>2, <1>3, <1>6 DEF Kept

(* The tag that is kept with an image is a text.                           *)
LEMMA RefTyped ==
    ASSUME NEW t \in Text
    PROVE  Kept(t) \in [path : Seq(Words \cup {Hub}), tag : MaybeTag, digest : MaybeDigest]
<1>1. PICK r : r = ParseReference(t)
  OBVIOUS
<1>2. PICK u : u = String(r)
  OBVIOUS
<1>3. PICK p : p = t.path
  OBVIOUS
<1>4. PICK g : g = r.registry
  OBVIOUS
<1>5. PICK m : m = r.name
  OBVIOUS
<1>6. PICK n : n = IF Len(m) > 1 /\ Head(m) = "library" THEN Tail(m) ELSE m
  OBVIOUS
<1>7. /\ p \in Seq(Words) /\ Len(p) \in Nat /\ Len(p) > 0
      /\ t.tag \in RefTags \cup {Nothing} /\ t.digest \in MaybeDigest
  BY <1>3, TextIs
<1>8. /\ r.inName \in MaybeTag /\ r.tag \in MaybeTag /\ r.digest \in MaybeDigest
      /\ g \in {Hub, Head(p)}
      /\ m \in {Tail(p), p, <<"library">> \o p}
  BY <1>1, <1>3, <1>4, <1>5, <1>7 DEF ParseReference, MaybeTag
<1>9. PICK w : w = IF g = Hub THEN n ELSE <<g>> \o n
  OBVIOUS
<1>10. /\ u.tag \in MaybeTag /\ u.digest \in MaybeDigest
       /\ u = [path |-> w, tag |-> u.tag, digest |-> u.digest]
  BY <1>2, <1>4, <1>5, <1>6, <1>8, <1>9 DEF String
<1>11. Head(p) \in Words /\ Tail(p) \in Seq(Words)
  BY <1>7, WordPopped
<1>12. n \in Seq(Words)
  <2>1. CASE m = <<"library">> \o p
    <3>1. p \in Seq(Words \cup {"library"})
      BY <1>7, SeqMonotonic
    <3>2. Len(m) = Len(p) + 1 /\ Head(m) = "library" /\ Tail(m) = p
      BY <2>1, <3>1, WordPushed
    <3>3. n = p
      BY <1>6, <1>7, <3>2
    <3> QED
      BY <1>7, <3>3
  <2>2. CASE m \in Seq(Words)
    <3>1. Len(m) \in Nat /\ (Len(m) > 1 => Len(m) > 0)
      BY <2>2, LenProperties
    <3>2. Len(m) > 1 => Tail(m) \in Seq(Words)
      BY <2>2, <3>1, WordPopped
    <3> QED
      BY <1>6, <2>2, <3>2
  <2> QED
    BY <1>7, <1>8, <1>11, <2>1, <2>2
<1>13. w \in Seq(Words \cup {Hub})
  <2>1. n \in Seq(Words \cup {Hub})
    BY <1>12, SeqMonotonic
  <2>2. g \in Words \cup {Hub}
    BY <1>8, <1>11
  <2>3. <<g>> \o n \in Seq(Words \cup {Hub})
    BY <2>1, <2>2, WordPushed
  <2> QED
    BY <1>9, <2>1, <2>3
<1> QED
  BY <1>1, <1>2, <1>10, <1>13 DEF Kept

(* A pull keeps the types.                                                 *)
LEMMA RefTypedStep == RefTypeOK /\ [RefNext]_refPulled => RefTypeOK'
<1> SUFFICES ASSUME RefTypeOK, [RefNext]_refPulled PROVE RefTypeOK'
  OBVIOUS
<1>1. refPulled' \in SUBSET Text
  BY DEF RefTypeOK, RefNext, RefPull
<1> QED
  BY <1>1, RefTyped DEF RefTypeOK

(* And where they hold, the tags tell what was asked for.                  *)
LEMMA TypedTells == RefTypeOK => ReferencesTold
<1> SUFFICES ASSUME RefTypeOK, NEW t \in refPulled, ~Blurred(ParseReference(t))
             PROVE  /\ Asked(ParseReference(Kept(t))) = Asked(ParseReference(t))
                    /\ \A u \in refPulled :
                          (~Blurred(ParseReference(u)) /\ Kept(u) = Kept(t)) =>
                              Asked(ParseReference(u)) = Asked(ParseReference(t))
  BY DEF ReferencesTold
<1>1. refPulled \subseteq Text
  BY DEF RefTypeOK
<1> QED
  BY <1>1, AskedAgain

(* What is pulled by is a text, and so is what is kept of it, for any      *)
(* words, tags and digests, and texts of any length.                       *)
THEOREM ReferencesTyped == RefSpec => []RefTypeOK
<1>1. RefInit => RefTypeOK
  BY DEF RefInit, RefTypeOK
<1> QED
  BY <1>1, RefTypedStep, PTL DEF RefSpec

(* The tag that is kept with an image leads to what it was pulled by, and  *)
(* no two images that different things were asked for share one, but for   *)
(* the references of Blurred; for any words, and texts of any length.      *)
THEOREM ReferencesAreTold == RefSpec => []ReferencesTold
BY TypedTells, ReferencesTyped, PTL

-----------------------------------------------------------------------------
(* Root file systems.  RootfsComplete speaks of the state between two      *)
(* layers, and is not inductive.  RfInv says how far extraction and copy   *)
(* have come: without late markers the directory of the layer is what the  *)
(* image format means by it, a path of the image is in the root file system*)
(* or in what the walk has not come to, and without markers a path of the  *)
(* root file system is one of the image, or below a file that the walk has *)
(* not come to: where the copy would give up.                              *)

Values == FileData \cup {"dir"}

Tree(t) == DOMAIN t \subseteq Paths /\ t \in [DOMAIN t -> Values]

\* Whatever holds something is a directory.
Grown(t) == \A p \in DOMAIN t : \A q \in Parents(p) : q \in DOMAIN t /\ t[q] = "dir"

RfTyped ==
    /\ RfTypeOK
    /\ Tree(rfLayer) /\ Tree(rfRoot) /\ Tree(rfOwn) /\ Tree(rfImage)
    /\ rfWalk \subseteq DOMAIN rfLayer
    /\ rfPhase = "extract" => rfWalk = {}

\* The file that is still to come takes away what is below it.
Hidden(p) == \E f \in rfWalk : rfOwn[f] # "dir" /\ IsPrefix(f, p)

RfInv ==
    /\ RfTyped
    /\ Grown(rfRoot) /\ Grown(rfOwn)
    /\ rfLate = FALSE => rfLayer = rfOwn
    /\ rfMarked = FALSE => rfLate = FALSE /\ rfMarks = {}
    /\ rfPhase = "copy" =>
          \A p \in DOMAIN rfOwn : p \in DOMAIN rfImage /\ rfImage[p] = rfOwn[p]
    /\ rfLate = FALSE /\ rfPhase # "failed" =>
          \A p \in DOMAIN rfImage :
              p \in rfWalk \/ (p \in DOMAIN rfRoot /\ rfRoot[p] = rfImage[p])
    /\ rfMarked = FALSE /\ rfPhase # "failed" =>
          \A p \in DOMAIN rfRoot : p \in DOMAIN rfImage \/ Hidden(p)

-----------------------------------------------------------------------------
(* Paths and trees.                                                        *)

(* Paths are sequences of names, and none is empty.                        *)
LEMMA PathsAre ==
    ASSUME NEW p \in Paths, NEW S, S = UNION {{q[n] : n \in DOMAIN q} : q \in Paths}
    PROVE  p \in Seq(S) /\ Len(p) \in Nat /\ Len(p) > 0
<1>1. p \in Seq(S) /\ Len(p) > 0
  BY PathsClosed
<1> QED
  BY <1>1, LenProperties

(* The beginnings of a path.                                               *)
LEMMA ParentsAre ==
    ASSUME NEW p \in Paths
    PROVE  /\ Parents(p) \subseteq Paths /\ p \notin Parents(p)
           /\ \A q \in Paths : q \in Parents(p) <=> Len(q) < Len(p) /\ q = SubSeq(p, 1, Len(q))
<1>1. PICK S : S = UNION {{q[n] : n \in DOMAIN q} : q \in Paths}
  OBVIOUS
<1>2. p \in Seq(S) /\ Len(p) \in Nat /\ Len(p) > 0
  BY <1>1, PathsAre
<1>3. ASSUME NEW n \in 1..(Len(p) - 1)
      PROVE  SubSeq(p, 1, n) \in Paths /\ Len(SubSeq(p, 1, n)) = n
  <2>1. \A i \in 1..n : p[i] \in S
    BY <1>2, ElementOfSeq
  <2>2. Len(SubSeq(p, 1, n)) = n
    BY <2>1, SubSeqProperties
  <2> QED
    BY <1>2, <2>2, PathsClosed
<1>4. Parents(p) \subseteq Paths /\ p \notin Parents(p)
  <2>1. ASSUME NEW q \in Parents(p) PROVE q \in Paths /\ q # p
    <3>1. PICK n \in 1..(Len(p) - 1) : q = SubSeq(p, 1, n)
      BY DEF Parents
    <3>2. Len(q) = n /\ q \in Paths
      BY <1>3, <3>1
    <3>3. n # Len(p)
      BY <1>2
    <3> QED
      BY <3>2, <3>3
  <2> QED
    BY <2>1
<1>5. ASSUME NEW q \in Paths
      PROVE  q \in Parents(p) <=> Len(q) < Len(p) /\ q = SubSeq(p, 1, Len(q))
  <2>1. Len(q) \in Nat /\ Len(q) > 0
    BY <1>1, PathsAre
  <2>2. ASSUME q \in Parents(p) PROVE Len(q) < Len(p) /\ q = SubSeq(p, 1, Len(q))
    <3>1. PICK n \in 1..(Len(p) - 1) : q = SubSeq(p, 1, n)
      BY <2>2 DEF Parents
    <3> QED
      BY <1>2, <1>3, <3>1
  <2>3. ASSUME Len(q) < Len(p), q = SubSeq(p, 1, Len(q)) PROVE q \in Parents(p)
    <3>1. Len(q) \in 1..(Len(p) - 1)
      BY <1>2, <2>1, <2>3
    <3> QED
      BY <2>3, <3>1 DEF Parents
  <2> QED
    BY <2>2, <2>3
<1> QED
  BY <1>4, <1>5

(* The beginnings of a path, and the path.                                 *)
LEMMA PrefixIs ==
    ASSUME NEW p \in Paths, NEW q \in Paths
    PROVE  IsPrefix(p, q) <=> p = q \/ p \in Parents(q)
<1>1. PICK S : S = UNION {{r[n] : n \in DOMAIN r} : r \in Paths}
  OBVIOUS
<1>2. /\ p \in Seq(S) /\ Len(p) \in Nat /\ Len(p) > 0
      /\ q \in Seq(S) /\ Len(q) \in Nat
  BY <1>1, PathsAre
<1>3. SubSeq(p, 1, Len(p)) = p /\ SubSeq(q, 1, Len(q)) = q
  BY <1>2, SubSeqFull
<1>4. IsPrefix(p, q) <=> Len(p) <= Len(q) /\ p = SubSeq(q, 1, Len(p))
  BY <1>3 DEF IsPrefix
<1>5. p \in Parents(q) <=> Len(p) < Len(q) /\ p = SubSeq(q, 1, Len(p))
  BY ParentsAre
<1>6. CASE Len(p) = Len(q)
  BY <1>2, <1>3, <1>4, <1>5, <1>6
<1>7. CASE Len(p) # Len(q)
  BY <1>2, <1>4, <1>5, <1>7
<1> QED
  BY <1>6, <1>7

(* The beginnings of a beginning.                                          *)
LEMMA ParentsOfParents ==
    ASSUME NEW q \in Paths, NEW r \in Parents(q), NEW p \in Parents(r)
    PROVE  p \in Parents(q)
<1>1. PICK S : S = UNION {{x[n] : n \in DOMAIN x} : x \in Paths}
  OBVIOUS
<1>2. r \in Paths /\ p \in Paths
  BY ParentsAre
<1>3. /\ p \in Seq(S) /\ Len(p) \in Nat /\ Len(p) > 0
      /\ q \in Seq(S) /\ Len(q) \in Nat /\ r \in Seq(S) /\ Len(r) \in Nat
  BY <1>1, <1>2, PathsAre
<1>4. /\ Len(r) < Len(q) /\ r = SubSeq(q, 1, Len(r))
      /\ Len(p) < Len(r) /\ p = SubSeq(r, 1, Len(p))
  BY <1>2, ParentsAre
<1>5. PICK n \in Nat, m \in Nat : n = Len(r) /\ m = Len(p)
  BY <1>3
<1>6. SubSeq(SubSeq(q, 1, n), 1, m) = SubSeq(q, 1, m)
  <2>1. 1 \in 1..Len(q) /\ n \in 1..Len(q) /\ 1 \in 1..n /\ m \in 1..n
    BY <1>3, <1>4, <1>5
  <2>2. n = n - 1 + 1 /\ 1 = 1 + 1 - 1 /\ m = 1 + m - 1
    OBVIOUS
  <2> QED
    BY <1>3, <2>1, <2>2, SubSeqOfSubSeq
<1>7. Len(p) < Len(q) /\ p = SubSeq(q, 1, Len(p))
  BY <1>3, <1>4, <1>5, <1>6
<1> QED
  BY <1>2, <1>7, ParentsAre

-----------------------------------------------------------------------------

\* The tree u is t with v at p.
PutAs(u, t, p, v) ==
    /\ Tree(u)
    /\ DOMAIN u = DOMAIN t \cup {p} \cup Parents(p)
    /\ u[p] = v
    /\ \A x \in DOMAIN t : x # p => u[x] = t[x]
    /\ \A x \in Parents(p) \ DOMAIN t : u[x] = "dir"

(* What Put makes.                                                         *)
LEMMA PutIs ==
    ASSUME NEW t, Tree(t), NEW p \in Paths, NEW v \in Values
    PROVE  PutAs(Put(t, p, v), t, p, v)
<1>1. Parents(p) \subseteq Paths /\ p \notin Parents(p)
  BY ParentsAre
<1>2. PICK u : u = [x \in DOMAIN t \cup {p} \cup Parents(p) |->
                      IF x = p THEN v ELSE IF x \in DOMAIN t THEN t[x] ELSE "dir"]
  OBVIOUS
<1>3. Put(t, p, v) = u
  BY <1>2 DEF Put
<1>4. /\ DOMAIN u = DOMAIN t \cup {p} \cup Parents(p)
      /\ u[p] = v
      /\ \A x \in DOMAIN t : x # p => u[x] = t[x]
      /\ \A x \in Parents(p) \ DOMAIN t : u[x] = "dir"
  BY <1>1, <1>2
<1>5. "dir" \in Values
  BY DEF Values
<1>6. \A x \in DOMAIN u : u[x] \in Values
  BY <1>1, <1>2, <1>5 DEF Tree
<1>7. Tree(u)
  BY <1>1, <1>2, <1>4, <1>6 DEF Tree
<1> QED
  BY <1>3, <1>4, <1>7 DEF PutAs

(* What Fits lets be made leaves what holds something a directory.         *)
LEMMA PutGrows ==
    ASSUME NEW t, Tree(t), Grown(t), NEW p \in Paths, NEW v \in Values, Fits(t, p, v)
    PROVE  Grown(Put(t, p, v))
<1>1. PICK u : u = Put(t, p, v)
  OBVIOUS
<1>2. /\ DOMAIN u = DOMAIN t \cup {p} \cup Parents(p)
      /\ u[p] = v
      /\ \A x \in DOMAIN t : x # p => u[x] = t[x]
      /\ \A x \in Parents(p) \ DOMAIN t : u[x] = "dir"
  <2>1. PutAs(u, t, p, v)
    BY <1>1, PutIs
  <2> QED
    BY <2>1 DEF PutAs
<1>3. Parents(p) \subseteq Paths /\ p \notin Parents(p)
  BY ParentsAre
<1>4. \A q \in Parents(p) : q \in DOMAIN u /\ u[q] = "dir"
  BY <1>2, <1>3 DEF Fits
<1>5. ASSUME NEW x \in DOMAIN u, NEW q \in Parents(x) PROVE q \in DOMAIN u /\ u[q] = "dir"
  <2>1. CASE x = p
    BY <1>4, <2>1
  <2>2. CASE x \in Parents(p)
    <3>1. q \in Parents(p)
      BY <2>2, ParentsOfParents
    <3> QED
      BY <1>4, <3>1
  <2>3. CASE x \in DOMAIN t
    <3>1. q \in DOMAIN t /\ t[q] = "dir"
      BY <2>3 DEF Grown
    <3>2. CASE q = p
      BY <1>2, <3>1, <3>2 DEF Fits
    <3>3. CASE q # p
      BY <1>2, <3>1, <3>3
    <3> QED
      BY <3>2, <3>3
  <2> QED
    BY <1>2, <2>1, <2>2, <2>3
<1> QED
  BY <1>1, <1>5 DEF Grown

(* What an entry of a layer that is no marker does to a tree.              *)
LEMMA EntryPut ==
    ASSUME NEW t, Tree(t), NEW e \in Entry, e.kind \in {"dir", "file"}
    PROVE  Tree(PutEntry(t, e)) /\ (Grown(t) => Grown(PutEntry(t, e)))
<1>1. PICK v : v = IF e.kind = "dir" THEN "dir" ELSE e.data
  OBVIOUS
<1>2. e.path \in Paths /\ v \in Values
  BY <1>1 DEF Entry, Values
<1>3. PutEntry(t, e) = IF Fits(t, e.path, v) THEN Put(t, e.path, v) ELSE t
  BY <1>1 DEF PutEntry
<1>4. CASE Fits(t, e.path, v)
  <2>1. PutEntry(t, e) = Put(t, e.path, v)
    BY <1>3, <1>4
  <2>2. Tree(Put(t, e.path, v))
    BY <1>2, PutIs DEF PutAs
  <2>3. Grown(t) => Grown(Put(t, e.path, v))
    BY <1>2, <1>4, PutGrows
  <2> QED
    BY <2>1, <2>2, <2>3
<1>5. CASE ~Fits(t, e.path, v)
  BY <1>3, <1>5
<1> QED
  BY <1>4, <1>5

(* What RemoveAll leaves.                                                  *)
LEMMA RemovedIs ==
    ASSUME NEW t, Tree(t), NEW S
    PROVE  /\ Tree(RemoveAll(t, S)) /\ DOMAIN RemoveAll(t, S) = DOMAIN t \ S
           /\ \A p \in DOMAIN t \ S : RemoveAll(t, S)[p] = t[p]
           /\ DOMAIN t \cap S = {} => RemoveAll(t, S) = t
<1>1. PICK u : u = [p \in DOMAIN t \ S |-> t[p]]
  OBVIOUS
<1>2. RemoveAll(t, S) = u
  BY <1>1 DEF RemoveAll, Restrict
<1>3. DOMAIN u = DOMAIN t \ S /\ \A p \in DOMAIN t \ S : u[p] = t[p]
  BY <1>1
<1>4. u \in [DOMAIN u -> Values] /\ DOMAIN u \subseteq Paths
  BY <1>1, <1>3 DEF Tree
<1>5. ASSUME DOMAIN t \cap S = {} PROVE u = t
  <2>1. DOMAIN t \ S = DOMAIN t
    BY <1>5
  <2> QED
    BY <1>1, <2>1 DEF Tree
<1> QED
  BY <1>2, <1>3, <1>4, <1>5 DEF Tree

\* The tree w is t over u.
OverAs(w, t, u) ==
    /\ Tree(w) /\ DOMAIN w = DOMAIN t \cup DOMAIN u
    /\ \A p \in DOMAIN t : w[p] = t[p]
    /\ \A p \in DOMAIN u \ DOMAIN t : w[p] = u[p]

(* What Over makes.                                                        *)
LEMMA OverIs ==
    ASSUME NEW t, Tree(t), NEW u, Tree(u)
    PROVE  OverAs(Over(t, u), t, u)
<1>1. PICK w : w = [x \in DOMAIN t \cup DOMAIN u |-> IF x \in DOMAIN t THEN t[x] ELSE u[x]]
  OBVIOUS
<1>2. Over(t, u) = w
  BY <1>1 DEF Over
<1>3. \A p \in DOMAIN w : w[p] \in Values
  BY <1>1 DEF Tree
<1>4. Tree(w)
  BY <1>1, <1>3 DEF Tree
<1> QED
  BY <1>1, <1>2, <1>4 DEF OverAs

(* The empty tree.                                                         *)
LEMMA NoTree == Tree(<<>>) /\ Grown(<<>>) /\ DOMAIN <<>> = {}
<1>1. DOMAIN <<>> = {} /\ <<>> \in [{} -> Values]
  OBVIOUS
<1> QED
  BY <1>1 DEF Tree, Grown

(* Trees are those of IsTree that are functions.                           *)
LEMMA TreeIs == ASSUME NEW t, Tree(t) PROVE IsTree(t)
BY DEF Tree, IsTree, Values

-----------------------------------------------------------------------------
(* The steps.                                                              *)

(* It holds at first.                                                      *)
LEMMA RfInvStarts == RfInit => RfInv
<1> SUFFICES ASSUME RfInit PROVE RfInv
  OBVIOUS
<1>1. /\ rfLayer = <<>> /\ rfRoot = <<>> /\ rfOwn = <<>> /\ rfImage = <<>>
      /\ rfWalk = {} /\ rfMarks = {} /\ rfPhase = "extract" /\ rfCount = 0
      /\ rfMarked = FALSE /\ rfLate = FALSE
  BY DEF RfInit
<1>2. Tree(rfLayer) /\ Tree(rfRoot) /\ Tree(rfOwn) /\ Tree(rfImage)
  BY <1>1, NoTree
<1>3. Grown(rfRoot) /\ Grown(rfOwn) /\ DOMAIN rfRoot = {} /\ DOMAIN rfImage = {}
  BY <1>1, NoTree
<1>4. RfTypeOK
  <2>1. IsTree(rfLayer) /\ IsTree(rfRoot) /\ IsTree(rfOwn) /\ IsTree(rfImage)
    BY <1>2, TreeIs
  <2>2. rfWalk \subseteq Paths /\ rfMarks \subseteq Entry
    BY <1>1
  <2>3. rfCount \in 0..MaxEntries
    BY <1>1, PathsAssumption
  <2> QED
    BY <1>1, <2>1, <2>2, <2>3 DEF RfTypeOK
<1>5. RfTyped
  BY <1>1, <1>2, <1>4 DEF RfTyped
<1> QED
  BY <1>1, <1>3, <1>5 DEF RfInv

(* An entry is extracted: the layer stays what the image format makes of   *)
(* it, as long as its markers matched nothing that the layer had.          *)
LEMMA RfEntryInv ==
    ASSUME RfInv, NEW e \in Entry, RfEntry(e)
    PROVE  RfInv'
<1>1. PICK layer, own : layer = extractLayer(rfLayer, e) /\ own = PutEntry(rfOwn, e)
  OBVIOUS
<1>2. PICK marker \in BOOLEAN : marker = (e.kind \in {"whiteout", "opaque"})
  <2>1. (e.kind \in {"whiteout", "opaque"}) \in BOOLEAN
    OBVIOUS
  <2> QED
    BY <2>1, Zenon
<1>3. /\ rfPhase = "extract" /\ rfPhase' = "extract" /\ rfCount' = rfCount + 1
      /\ rfCount < MaxEntries
      /\ rfLayer' = layer /\ rfRoot' = rfRoot /\ rfImage' = rfImage /\ rfWalk' = rfWalk
      /\ marker = TRUE => rfOwn' = rfOwn /\ rfMarks' = rfMarks \cup {e} /\ rfMarked' = TRUE
      /\ marker = FALSE => rfOwn' = own /\ rfMarks' = rfMarks /\ rfMarked' = rfMarked
                          /\ rfLate' = rfLate
      /\ rfLate' = FALSE /\ marker = TRUE => Matched(e, rfLayer) = {}
      /\ rfLate' = FALSE => rfLate = FALSE
      /\ rfMarked' \in BOOLEAN /\ rfLate' \in BOOLEAN
  BY <1>1, <1>2 DEF RfEntry, RfInv, RfTyped, RfTypeOK
<1>4. /\ RfTypeOK
      /\ Tree(rfLayer) /\ Tree(rfRoot) /\ Tree(rfOwn) /\ Tree(rfImage)
      /\ rfWalk = {}
      /\ Grown(rfRoot) /\ Grown(rfOwn)
      /\ rfLate = FALSE => rfLayer = rfOwn
      /\ rfMarked = FALSE => rfLate = FALSE /\ rfMarks = {}
  BY <1>3 DEF RfInv, RfTyped
<1>5. /\ e.path \in Paths
      /\ marker = FALSE => e.kind \in {"dir", "file"}
  BY <1>2 DEF Entry
<1>6. Tree(layer) /\ (marker = FALSE => layer = PutEntry(rfLayer, e))
  <2>1. CASE marker = TRUE
    <3>1. layer = RemoveAll(rfLayer, Matched(e, rfLayer))
      BY <1>1, <1>2, <2>1 DEF extractLayer
    <3> QED
      BY <1>4, <2>1, <3>1, RemovedIs
  <2>2. CASE marker = FALSE
    <3>1. layer = PutEntry(rfLayer, e)
      BY <1>1, <1>2, <2>2 DEF extractLayer
    <3> QED
      BY <1>4, <1>5, <2>2, <3>1, EntryPut
  <2> QED
    BY <2>1, <2>2
<1>7. Tree(rfOwn') /\ Grown(rfOwn')
  <2>1. CASE marker = TRUE
    BY <1>3, <1>4, <2>1
  <2>2. CASE marker = FALSE
    <3>1. Tree(own) /\ Grown(own)
      BY <1>1, <1>4, <1>5, <2>2, EntryPut
    <3> QED
      BY <1>3, <2>2, <3>1
  <2> QED
    BY <2>1, <2>2
<1>8. rfLate' = FALSE => rfLayer' = rfOwn'
  <2> SUFFICES ASSUME rfLate' = FALSE PROVE rfLayer' = rfOwn'
    OBVIOUS
  <2>1. rfLayer = rfOwn
    BY <1>3, <1>4
  <2>2. CASE marker = TRUE
    <3>1. layer = RemoveAll(rfLayer, {})
      BY <1>1, <1>2, <1>3, <2>2 DEF extractLayer
    <3>2. RemoveAll(rfLayer, {}) = rfLayer
      <4>1. DOMAIN rfLayer \cap {} = {}
        OBVIOUS
      <4> QED
        BY <1>4, <4>1, RemovedIs
    <3> QED
      BY <1>3, <2>1, <2>2, <3>1, <3>2
  <2>3. CASE marker = FALSE
    BY <1>1, <1>3, <1>6, <2>1, <2>3
  <2> QED
    BY <2>2, <2>3
<1>9. RfTypeOK'
  <2>1. rfCount' \in 0..MaxEntries
    BY <1>3, <1>4, PathsAssumption DEF RfTypeOK
  <2>2. rfMarks' \subseteq Entry
    BY <1>3, <1>4 DEF RfTypeOK
  <2>3. IsTree(rfLayer)' /\ IsTree(rfRoot)' /\ IsTree(rfOwn)' /\ IsTree(rfImage)'
    BY <1>3, <1>4, <1>6, <1>7, TreeIs
  <2> QED
    BY <1>3, <1>4, <2>1, <2>2, <2>3 DEF RfTypeOK
<1>10. RfTyped'
  BY <1>3, <1>4, <1>6, <1>7, <1>9 DEF RfTyped
<1>11. rfMarked' = FALSE => rfMarked = FALSE /\ rfLate' = FALSE /\ rfMarks' = {}
  BY <1>3, <1>4
<1>12. rfLate' = FALSE => \A p \in DOMAIN rfImage : p \in DOMAIN rfRoot /\ rfRoot[p] = rfImage[p]
  BY <1>3, <1>4 DEF RfInv
<1>13. rfMarked' = FALSE => \A p \in DOMAIN rfRoot : p \in DOMAIN rfImage
  BY <1>3, <1>4, <1>11 DEF RfInv, Hidden
<1> QED
  BY <1>3, <1>4, <1>7, <1>8, <1>10, <1>11, <1>12, <1>13 DEF RfInv

(* The copy begins: what it is to bring is what the image means by the     *)
(* layer, and what the layers below show through is there already.         *)
LEMMA RfCopyInv ==
    ASSUME RfInv, RfCopy
    PROVE  RfInv'
<1>1. /\ rfPhase = "extract" /\ rfPhase' = "copy" /\ rfWalk' = DOMAIN rfLayer
      /\ rfImage' = Over(rfOwn, Under)
      /\ rfLayer' = rfLayer /\ rfRoot' = rfRoot /\ rfCount' = rfCount /\ rfOwn' = rfOwn
      /\ rfMarks' = rfMarks /\ rfMarked' = rfMarked /\ rfLate' = rfLate
  BY DEF RfCopy
<1>2. /\ RfTypeOK
      /\ Tree(rfLayer) /\ Tree(rfRoot) /\ Tree(rfOwn) /\ Tree(rfImage)
      /\ rfWalk = {}
      /\ Grown(rfRoot) /\ Grown(rfOwn)
      /\ rfLate = FALSE => rfLayer = rfOwn
      /\ rfMarked = FALSE => rfLate = FALSE /\ rfMarks = {}
  BY <1>1 DEF RfInv, RfTyped
<1>3. PICK files : files = {p \in DOMAIN rfOwn : rfOwn[p] # "dir"}
  OBVIOUS
<1>4. PICK hidden : hidden = UNION {Matched(e, rfImage) : e \in rfMarks}
  OBVIOUS
<1>5. PICK gone : gone = hidden \cup UNION {Below(p, rfImage) : p \in files}
  OBVIOUS
<1>6. PICK under : under = Under
  OBVIOUS
<1>7. under = RemoveAll(rfImage, gone)
  BY <1>3, <1>4, <1>5, <1>6 DEF Under
<1>8. /\ Tree(under) /\ DOMAIN under = DOMAIN rfImage \ gone
      /\ \A p \in DOMAIN under : under[p] = rfImage[p]
  BY <1>2, <1>7, RemovedIs
<1>9. PICK image : image = Over(rfOwn, under)
  OBVIOUS
<1>10. rfImage' = image
  BY <1>1, <1>6, <1>9
<1>11. /\ Tree(image) /\ DOMAIN image = DOMAIN rfOwn \cup DOMAIN under
       /\ \A p \in DOMAIN rfOwn : image[p] = rfOwn[p]
       /\ \A p \in DOMAIN under \ DOMAIN rfOwn : image[p] = under[p]
  <2>1. OverAs(image, rfOwn, under)
    BY <1>2, <1>8, <1>9, OverIs
  <2> QED
    BY <2>1 DEF OverAs
<1>12. rfLate = FALSE => \A p \in DOMAIN image :
           p \in DOMAIN rfLayer \/ (p \in DOMAIN rfRoot /\ rfRoot[p] = image[p])
  <2> SUFFICES ASSUME rfLate = FALSE, NEW p \in DOMAIN image, p \notin DOMAIN rfOwn
               PROVE  p \in DOMAIN rfRoot /\ rfRoot[p] = image[p]
    BY <1>2
  <2>1. p \in DOMAIN rfImage /\ image[p] = rfImage[p]
    BY <1>8, <1>11
  <2>2. p \in DOMAIN rfRoot /\ rfRoot[p] = rfImage[p]
    BY <1>1, <1>2, <2>1 DEF RfInv
  <2> QED
    BY <2>1, <2>2
<1>13. rfMarked = FALSE => \A p \in DOMAIN rfRoot :
           p \in DOMAIN image \/ \E f \in DOMAIN rfLayer : rfOwn[f] # "dir" /\ IsPrefix(f, p)
  <2> SUFFICES ASSUME rfMarked = FALSE, NEW p \in DOMAIN rfRoot, p \notin DOMAIN image
               PROVE  \E f \in DOMAIN rfLayer : rfOwn[f] # "dir" /\ IsPrefix(f, p)
    OBVIOUS
  <2>1. p \in DOMAIN rfImage
    BY <1>1, <1>2 DEF RfInv, Hidden
  <2>2. p \in gone
    BY <1>8, <1>11, <2>1
  <2>3. hidden = {}
    BY <1>2, <1>4
  <2>4. PICK f \in files : p \in Below(f, rfImage)
    BY <1>5, <2>2, <2>3
  <2>5. f \in DOMAIN rfOwn /\ rfOwn[f] # "dir" /\ IsPrefix(f, p)
    BY <1>3, <2>4 DEF Below
  <2>6. rfLayer = rfOwn
    BY <1>2
  <2> QED
    BY <2>5, <2>6
<1>14. RfTypeOK'
  <2>1. IsTree(rfLayer)' /\ IsTree(rfRoot)' /\ IsTree(rfOwn)' /\ IsTree(rfImage)'
    BY <1>1, <1>2, <1>10, <1>11, TreeIs
  <2>2. rfWalk' \subseteq Paths
    BY <1>1, <1>2 DEF Tree
  <2> QED
    BY <1>1, <1>2, <2>1, <2>2 DEF RfTypeOK
<1>15. RfTyped'
  BY <1>1, <1>2, <1>10, <1>11, <1>14 DEF RfTyped
<1>16. Grown(rfRoot)' /\ Grown(rfOwn)'
  BY <1>1, <1>2
<1>17. \A p \in DOMAIN rfOwn' : p \in DOMAIN rfImage' /\ rfImage'[p] = rfOwn'[p]
  BY <1>1, <1>10, <1>11
<1>18. rfLate' = FALSE => \A p \in DOMAIN rfImage' :
           p \in rfWalk' \/ (p \in DOMAIN rfRoot' /\ rfRoot'[p] = rfImage'[p])
  BY <1>1, <1>10, <1>12
<1>19. rfMarked' = FALSE => \A p \in DOMAIN rfRoot' : p \in DOMAIN rfImage' \/ Hidden(p)'
  BY <1>1, <1>10, <1>13 DEF Hidden
<1> QED
  BY <1>1, <1>2, <1>15, <1>16, <1>17, <1>18, <1>19 DEF RfInv

(* A file or directory is copied.  Where a file is, nothing below it was   *)
(* there, or the copy would have given up.                                 *)
LEMMA RfWalkInv ==
    ASSUME RfInv, copyDir
    PROVE  RfInv'
<1>1. PICK p \in rfWalk :
          /\ Parents(p) \cap rfWalk = {}
          /\ rfWalk' = rfWalk \ {p}
          /\ \/ /\ Fits(rfRoot, p, rfLayer[p])
                /\ rfRoot' = Put(rfRoot, p, rfLayer[p])
                /\ rfPhase' = rfPhase
             \/ /\ ~Fits(rfRoot, p, rfLayer[p])
                /\ rfPhase' = "failed"
                /\ rfRoot' = rfRoot
  BY DEF copyDir
<1>2. /\ rfPhase = "copy"
      /\ rfLayer' = rfLayer /\ rfCount' = rfCount /\ rfOwn' = rfOwn /\ rfMarks' = rfMarks
      /\ rfImage' = rfImage /\ rfMarked' = rfMarked /\ rfLate' = rfLate
  BY DEF copyDir
<1>3. /\ RfTypeOK
      /\ Tree(rfLayer) /\ Tree(rfRoot) /\ Tree(rfOwn) /\ Tree(rfImage)
      /\ rfWalk \subseteq DOMAIN rfLayer
      /\ Grown(rfRoot) /\ Grown(rfOwn)
      /\ rfLate = FALSE => rfLayer = rfOwn
      /\ rfMarked = FALSE => rfLate = FALSE /\ rfMarks = {}
      /\ \A x \in DOMAIN rfOwn : x \in DOMAIN rfImage /\ rfImage[x] = rfOwn[x]
  BY <1>2 DEF RfInv, RfTyped
<1>4. p \in Paths /\ p \in DOMAIN rfLayer
  BY <1>3 DEF Tree
<1>5. PICK v : v = rfLayer[p]
  OBVIOUS
<1>6. v \in Values
  BY <1>3, <1>4, <1>5 DEF Tree
<1>7. rfWalk' \subseteq rfWalk
  BY <1>1
<1>8. CASE Fits(rfRoot, p, v)
  <2>1. PICK root : root = Put(rfRoot, p, v)
    OBVIOUS
  <2>2. rfRoot' = root /\ rfPhase' = "copy"
    BY <1>1, <1>2, <1>5, <1>8, <2>1
  <2>3. Tree(root) /\ Grown(root)
    BY <1>3, <1>4, <1>6, <1>8, <2>1, PutIs, PutGrows DEF PutAs
  <2>4. /\ DOMAIN root = DOMAIN rfRoot \cup {p} \cup Parents(p)
        /\ root[p] = v
        /\ \A x \in DOMAIN rfRoot : x # p => root[x] = rfRoot[x]
    <3>1. PutAs(root, rfRoot, p, v)
      BY <1>3, <1>4, <1>6, <2>1, PutIs
    <3> QED
      BY <3>1 DEF PutAs
  <2>5. rfLate = FALSE => \A x \in DOMAIN rfImage :
            x \in rfWalk' \/ (x \in DOMAIN root /\ root[x] = rfImage[x])
    <3> SUFFICES ASSUME rfLate = FALSE, NEW x \in DOMAIN rfImage, x \notin rfWalk'
                 PROVE  x \in DOMAIN root /\ root[x] = rfImage[x]
      OBVIOUS
    <3>1. CASE x = p
      <4>1. p \in DOMAIN rfOwn /\ rfOwn[p] = v
        BY <1>3, <1>4, <1>5
      <4>2. rfImage[p] = v
        BY <1>3, <4>1
      <4> QED
        BY <2>4, <3>1, <4>2
    <3>2. CASE x # p
      <4>1. x \in DOMAIN rfRoot /\ rfRoot[x] = rfImage[x]
        BY <1>1, <1>2, <3>2 DEF RfInv
      <4> QED
        BY <2>4, <3>2, <4>1
    <3> QED
      BY <3>1, <3>2
  <2>6. rfMarked = FALSE => \A x \in DOMAIN root :
            x \in DOMAIN rfImage \/ \E f \in rfWalk' : rfOwn[f] # "dir" /\ IsPrefix(f, x)
    <3> SUFFICES ASSUME rfMarked = FALSE, NEW x \in DOMAIN root, x \notin DOMAIN rfImage
                 PROVE  \E f \in rfWalk' : rfOwn[f] # "dir" /\ IsPrefix(f, x)
      OBVIOUS
    <3>1. rfLayer = rfOwn
      BY <1>3
    <3>2. p \in DOMAIN rfImage /\ \A q \in Parents(p) : q \in DOMAIN rfImage
      BY <1>3, <1>4, <3>1 DEF Grown
    <3>3. x \in DOMAIN rfRoot /\ x # p
      BY <2>4, <3>2
    <3>4. PICK f \in rfWalk : rfOwn[f] # "dir" /\ IsPrefix(f, x)
      BY <1>2, <3>3 DEF RfInv, Hidden
    <3>5. f # p
      <4> SUFFICES ASSUME f = p PROVE FALSE
        OBVIOUS
      <4>1. x \in Paths /\ IsPrefix(p, x) /\ v # "dir"
        BY <1>3, <1>5, <3>1, <3>3, <3>4 DEF Tree
      <4>2. p \in Parents(x)
        BY <1>4, <3>3, <4>1, PrefixIs
      <4>3. p \in DOMAIN rfRoot /\ rfRoot[p] = "dir"
        BY <1>3, <3>3, <4>2 DEF Grown
      <4> QED
        BY <1>8, <4>1, <4>3 DEF Fits
    <3> QED
      BY <1>1, <3>4, <3>5
  <2>7. RfTypeOK'
    <3>1. IsTree(rfLayer)' /\ IsTree(rfRoot)' /\ IsTree(rfOwn)' /\ IsTree(rfImage)'
      BY <1>2, <1>3, <2>2, <2>3, TreeIs
    <3> QED
      BY <1>2, <1>3, <1>7, <2>2, <3>1 DEF RfTypeOK
  <2>8. RfTyped'
    BY <1>2, <1>3, <1>7, <2>2, <2>3, <2>7 DEF RfTyped
  <2>9. rfLate' = FALSE => \A x \in DOMAIN rfImage' :
            x \in rfWalk' \/ (x \in DOMAIN rfRoot' /\ rfRoot'[x] = rfImage'[x])
    BY <1>2, <2>2, <2>5
  <2>10. rfMarked' = FALSE => \A x \in DOMAIN rfRoot' : x \in DOMAIN rfImage' \/ Hidden(x)'
    BY <1>2, <2>2, <2>6 DEF Hidden
  <2>11. Grown(rfRoot)' /\ Grown(rfOwn)'
    BY <1>2, <1>3, <2>2, <2>3
  <2> QED
    BY <1>2, <1>3, <2>8, <2>9, <2>10, <2>11 DEF RfInv
<1>9. CASE ~Fits(rfRoot, p, v)
  <2>1. rfRoot' = rfRoot /\ rfPhase' = "failed"
    BY <1>1, <1>5, <1>9
  <2>2. RfTypeOK'
    <3>1. IsTree(rfLayer)' /\ IsTree(rfRoot)' /\ IsTree(rfOwn)' /\ IsTree(rfImage)'
      BY <1>2, <1>3, <2>1, TreeIs
    <3> QED
      BY <1>2, <1>3, <1>7, <2>1, <3>1 DEF RfTypeOK
  <2>3. RfTyped'
    BY <1>2, <1>3, <1>7, <2>1, <2>2 DEF RfTyped
  <2>4. Grown(rfRoot)' /\ Grown(rfOwn)'
    BY <1>2, <1>3, <2>1
  <2> QED
    BY <1>2, <1>3, <2>1, <2>3, <2>4 DEF RfInv
<1> QED
  BY <1>8, <1>9

(* The copy is done, and nothing is on its way.                            *)
LEMMA RfLayerInv ==
    ASSUME RfInv, RfLayerDone
    PROVE  RfInv'
<1>1. /\ rfPhase = "copy" /\ rfWalk = {} /\ rfPhase' = "extract"
      /\ rfLayer' = <<>> /\ rfOwn' = <<>> /\ rfMarks' = {}
      /\ rfRoot' = rfRoot /\ rfWalk' = rfWalk /\ rfCount' = rfCount /\ rfImage' = rfImage
      /\ rfMarked' = rfMarked /\ rfLate' = rfLate
  BY DEF RfLayerDone
<1>2. /\ RfTypeOK /\ Tree(rfRoot) /\ Tree(rfImage) /\ Grown(rfRoot)
      /\ rfMarked = FALSE => rfLate = FALSE
  BY DEF RfInv, RfTyped
<1>3. Tree(rfLayer') /\ Tree(rfOwn') /\ Grown(rfOwn')
  BY <1>1, NoTree
<1>4. RfTypeOK'
  <2>1. IsTree(rfLayer)' /\ IsTree(rfRoot)' /\ IsTree(rfOwn)' /\ IsTree(rfImage)'
    BY <1>1, <1>2, <1>3, TreeIs
  <2> QED
    BY <1>1, <1>2, <2>1 DEF RfTypeOK
<1>5. RfTyped'
  BY <1>1, <1>2, <1>3, <1>4 DEF RfTyped
<1>6. rfLate = FALSE => \A p \in DOMAIN rfImage : p \in DOMAIN rfRoot /\ rfRoot[p] = rfImage[p]
  BY <1>1 DEF RfInv
<1>7. rfMarked = FALSE => \A p \in DOMAIN rfRoot : p \in DOMAIN rfImage
  BY <1>1 DEF RfInv, Hidden
<1>8. Grown(rfRoot)'
  BY <1>1, <1>2
<1> QED
  BY <1>1, <1>2, <1>3, <1>5, <1>6, <1>7, <1>8 DEF RfInv

(* Every step keeps the invariant.                                         *)
LEMMA RfInvStep == RfInv /\ [RfNext]_rfVars => RfInv'
<1> SUFFICES ASSUME RfInv, [RfNext]_rfVars PROVE RfInv'
  OBVIOUS
<1>1. CASE \E e \in Entry : RfEntry(e)
  BY <1>1, RfEntryInv
<1>2. CASE RfCopy
  BY <1>2, RfCopyInv
<1>3. CASE copyDir
  BY <1>3, RfWalkInv
<1>4. CASE RfLayerDone
  BY <1>4, RfLayerInv
<1>5. CASE UNCHANGED rfVars
  BY <1>5 DEF rfVars, RfInv, RfTyped, RfTypeOK, IsTree, Tree, Grown, Hidden
<1> QED
  BY <1>1, <1>2, <1>3, <1>4, <1>5 DEF RfNext

(* It holds always.                                                        *)
LEMMA RfInvAlways == RfSpec => []RfInv
<1> QED
  BY RfInvStarts, RfInvStep, PTL DEF RfSpec

(* What the invariant says between two layers.                             *)
LEMMA RfInvTells == RfInv => RootfsComplete
<1> SUFFICES ASSUME RfInv, rfPhase = "extract", ~rfLate
             PROVE  /\ ~rfMarked => rfRoot = rfImage
                    /\ \A p \in DOMAIN rfImage : p \in DOMAIN rfRoot /\ rfRoot[p] = rfImage[p]
  BY DEF RootfsComplete
<1>1. rfWalk = {} /\ Tree(rfRoot) /\ Tree(rfImage) /\ rfLate = FALSE /\ rfMarked \in BOOLEAN
  BY DEF RfInv, RfTyped, RfTypeOK
<1>2. \A p \in DOMAIN rfImage : p \in DOMAIN rfRoot /\ rfRoot[p] = rfImage[p]
  BY <1>1 DEF RfInv
<1>3. ASSUME rfMarked = FALSE PROVE rfRoot = rfImage
  <2>1. \A p \in DOMAIN rfRoot : p \in DOMAIN rfImage
    BY <1>1, <1>3 DEF RfInv, Hidden
  <2>2. DOMAIN rfRoot = DOMAIN rfImage
    BY <1>2, <2>1
  <2> QED
    BY <1>1, <1>2, <2>2 DEF Tree
<1> QED
  BY <1>1, <1>2, <1>3

(* The trees of a root file system are trees, whatever the layers hold.    *)
THEOREM RootfsTyped == RfSpec => []RfTypeOK
<1>1. RfInv => RfTypeOK
  BY DEF RfInv, RfTyped
<1> QED
  BY <1>1, RfInvAlways, PTL

(* Between two layers the root file system is what the image means, with   *)
(* the reservations that RootfsComplete makes about markers; for any paths *)
(* and any number of layers and entries.                                   *)
THEOREM RootfsIsComplete == RfSpec => []RootfsComplete
<1> QED
  BY RfInvAlways, RfInvTells, PTL
=============================================================================
