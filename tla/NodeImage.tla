------------------------------ MODULE NodeImage ------------------------------
(***************************************************************************)
(* What the image keeping of a locally built partner node promises: there  *)
(* is one current image, what the containers of the partner are made from. *)
(* Images are built and proved by running them; only a proved image        *)
(* becomes current, and the current one is never removed.  Diiisco         *)
(* implements it.                                                          *)
(***************************************************************************)
CONSTANTS Images, None

VARIABLES images,   \* those in Docker's store
          proved,   \* those that have answered a probe as they must
          current   \* what `latest` names

vars == <<images, proved, current>>

Init ==
    /\ images \in SUBSET Images
    /\ proved = images
    /\ current \in images \cup {None}

Build(i) ==
    /\ i \notin images \cup proved
    /\ images' = images \cup {i}
    /\ UNCHANGED <<proved, current>>

Prove(i) ==
    /\ i \in images
    /\ proved' = proved \cup {i}
    /\ UNCHANGED <<images, current>>

\* also the way back, when what follows a promotion fails
Promote(i) ==
    /\ i \in images \cap proved
    /\ current' = i
    /\ UNCHANGED <<images, proved>>

\* the removal of a failed candidate, of the image before, of leftovers
Remove(S) ==
    /\ current \notin S
    /\ images' = images \ S
    /\ UNCHANGED <<proved, current>>

Next ==
    \/ \E i \in Images : Build(i) \/ Prove(i) \/ Promote(i)
    \/ \E S \in SUBSET images : Remove(S)

Spec == Init /\ [][Next]_vars
=============================================================================
