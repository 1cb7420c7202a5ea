---------------------------- MODULE RecordFiles ----------------------------
(***************************************************************************)
(* How a Store (pkg/store/store.go) treats its files when several          *)
(* processes use it.  Save is os.WriteFile: it opens with O_TRUNC, and     *)
(* later writes.  The lock of a Store is a lock within one process, so     *)
(* others see the file in between, write to it as well, or remove it.      *)
(*                                                                         *)
(* Actors are functions to records with the fields id, the file an actor   *)
(* works on, and fd, what has happened to it since this actor opened it:   *)
(* nothing (clean), somebody wrote to it (shared) or unlinked it (gone).   *)
(***************************************************************************)

CONSTANTS
    NoRecord,   \* no such file
    Torn        \* a file that is empty, or cannot be decoded

Descriptors == {"none", "clean", "shared", "gone"}

\* The actors once k has done to file f what s says.
Noticed(actors, k, f, s) ==
    [j \in DOMAIN actors |->
        IF j # k /\ actors[j].id = f /\ actors[j].fd \in {"clean", "shared"}
        THEN [actors[j] EXCEPT !.fd = s] ELSE actors[j]]

\* What a write of c may leave in a file that holds old.  Over what another
\* actor has written, a shorter record leaves the end of the longer one.
Written(fd, c, old) ==
    CASE fd = "clean"  -> {c}
      [] fd = "shared" -> {c, Torn}
      [] fd = "gone"   -> {old}
=============================================================================
