----------------------------- MODULE References -----------------------------
(***************************************************************************)
(* References to images (pkg/image/reference.go): from what a user types   *)
(* to what a registry is asked for (ParseReference), and from there to the *)
(* tag that is kept with the image (String), by which it is found later.   *)
(*                                                                         *)
(* A text is the words between its slashes, and what follows a colon and   *)
(* an at sign.  A registry with a port stands in front only, as one with   *)
(* a dot does.                                                             *)
(***************************************************************************)
EXTENDS Naturals, Sequences, FiniteSets

CONSTANTS
    Words,      \* between slashes
    DottedWords,\* those with a dot in them
    MaxWords,   \* bound on the words of a text
    RefTags,
    RefDigests,
    Nothing     \* no tag, or no digest

Hub == "registry-1.docker.io"

ASSUME WordsAssumption ==
    /\ DottedWords \subseteq Words \ {"library", "localhost"}
    /\ Hub \in Words => Hub \in DottedWords
ASSUME MaxWordsAssumption == MaxWords \in Nat
ASSUME NothingAssumption == Nothing \notin RefTags \cup RefDigests \cup {"latest"}

VARIABLE refPulled      \* the texts that images have been pulled by

MaybeTag == RefTags \cup {"latest", Nothing}
MaybeDigest == RefDigests \cup {Nothing}
Text ==
    [path : UNION {[1..n -> Words] : n \in 1..MaxWords}, tag : RefTags \cup {Nothing},
     digest : MaybeDigest]

-----------------------------------------------------------------------------

\* With a digest, a tag is not looked for: it stays in the name (inName).
ParseReference(t) ==
    LET remote == Len(t.path) > 1 /\ Head(t.path) \in DottedWords \cup {"localhost"}
        digested == t.digest # Nothing
    IN  [registry |-> IF remote THEN Head(t.path) ELSE Hub,
         name |-> IF remote THEN Tail(t.path)
                  ELSE IF Len(t.path) = 1 THEN <<"library">> \o t.path ELSE t.path,
         inName |-> IF digested THEN t.tag ELSE Nothing,
         tag |-> IF digested THEN Nothing ELSE IF t.tag = Nothing THEN "latest" ELSE t.tag,
         digest |-> t.digest]

\* (mutant of String: the registry is left out)
StringShort(r) ==
    [path |-> IF Len(r.name) > 1 /\ Head(r.name) = "library" THEN Tail(r.name) ELSE r.name,
     tag |-> IF r.digest # Nothing THEN r.inName ELSE r.tag,
     digest |-> r.digest]

String(r) ==
    LET name == IF Len(r.name) > 1 /\ Head(r.name) = "library" THEN Tail(r.name) ELSE r.name
    IN  [path |-> IF r.registry = Hub THEN name ELSE <<r.registry>> \o name,
         tag |-> IF r.digest # Nothing THEN r.inName ELSE r.tag,
         digest |-> r.digest]

\* What is asked for, and where.
Asked(r) ==
    [registry |-> r.registry, name |-> r.name, inName |-> r.inName,
     version |-> IF r.digest # Nothing THEN r.digest ELSE r.tag]

Kept(t) == String(ParseReference(t))

RefPull(t) ==
    /\ Cardinality(refPulled) < 2
    /\ refPulled' = refPulled \cup {t}

RefInit == refPulled = {}
RefNext == \E t \in Text : RefPull(t)
RefSpec == RefInit /\ [][RefNext]_refPulled

-----------------------------------------------------------------------------

(* Texts stay texts, and so does what is kept of them.                     *)
RefTypeOK ==
    /\ refPulled \in SUBSET Text
    /\ \A t \in refPulled :
          Kept(t) \in [path : Seq(Words \cup {Hub}), tag : MaybeTag, digest : MaybeDigest]

\* String takes "library/" off any name, and the hub off any: the name that is
\* left may be another one.
Blurred(r) ==
    IF r.registry = Hub
    THEN \/ Len(r.name) = 1
         \/ Head(r.name) \in DottedWords \cup {"localhost"}
         \/ Head(r.name) = "library" /\ Len(r.name) > 2
    ELSE Len(r.name) > 1 /\ Head(r.name) = "library"

(* The tag that is kept with an image leads to it: who types it again asks *)
(* the same registry for the same thing, and no two images that different  *)
(* things were asked for have one tag.  Two kinds of references are not    *)
(* told apart: names under "library/", unless it is the one the hub adds,  *)
(* and names at the hub that spell out the hub.                            *)
ReferencesTold ==
    \A t \in refPulled :
        LET r == ParseReference(t) IN
        ~Blurred(r) =>
            /\ Asked(ParseReference(Kept(t))) = Asked(r)
            /\ \A u \in refPulled :
                  (~Blurred(ParseReference(u)) /\ Kept(u) = Kept(t)) =>
                      Asked(ParseReference(u)) = Asked(r)
=============================================================================
