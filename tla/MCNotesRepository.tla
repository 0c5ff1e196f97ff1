------------------------ MODULE MCNotesRepository ------------------------
(* Small instances of NotesRepository for TLC. *)
EXTENDS NotesRepository, TLC

CONSTANTS p1, p2, n1, n2, b1, b2, t1

OneProc  == {p1}
TwoProcs == {p1, p2}
TwoIds   == {n1, n2}
OneBody  == {b1}
TwoBodies == {b1, b2}

\* b1 carries the tag, b2 does not.
MCTagsOf == [b \in Bodies |-> IF b = b1 THEN Tags ELSE {}]

\* One process serves every note.
AllWritable == [p \in Procs |-> Ids]

\* Each of two processes writes a note of its own.
SplitWritable == [p \in Procs |-> IF p = p1 THEN {n1} ELSE {n2}]

=============================================================================
