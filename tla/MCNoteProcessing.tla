-------------------------- MODULE MCNoteProcessing --------------------------
(* Small instances of NoteProcessing for TLC. *)
EXTENDS NoteProcessing, TLC

\* Interchangeable ids; used by the runs that check no liveness property.
Symmetric == Permutations(Jobs) \cup Permutations(Contents)
                \cup Permutations(Workers)

\* At most four of the six bounded events happen in one behaviour.
FourEvents == left["edit"] + left["crash"] + left["fault"] + left["admin"] >= 2
=============================================================================
