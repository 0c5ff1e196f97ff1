----------------------------- MODULE MCNotesRaces -----------------------------
(* A small instance of NotesRaces for TLC: two processes that write one note. *)
EXTENDS NotesRaces, TLC

CONSTANTS p1, p2, n1, b1, b2, t1

MCProcs    == {p1, p2}
MCIds      == {n1}
MCBodies   == {b1, b2}
MCTagsOf   == [b \in Bodies |-> IF b = b1 THEN Tags ELSE {}]
MCWritable == [p \in Procs |-> Ids]
=============================================================================
