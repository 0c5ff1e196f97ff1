-------------------------- MODULE MCNotesService --------------------------
(* Small instances of NotesService for TLC. *)
EXTENDS NotesService, TLC

CONSTANTS p1, n1, n2, b1, b2, blank, t1

OneProc     == {p1}
OneId       == {n1}
TwoIds      == {n1, n2}
OneBody     == {b1}
ThreeBodies == {b1, b2, blank}
MCTagsOf    == [b \in Bodies |-> IF b = b1 THEN Tags ELSE {}]
AllWritable == [p \in Procs |-> Ids]
=============================================================================
