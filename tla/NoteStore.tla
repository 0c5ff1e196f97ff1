----------------------------- MODULE NoteStore -----------------------------
(***************************************************************************)
(* What the notes repository promises to its callers: a map from ids to    *)
(* notes.  A create, update, delete or get takes effect at one instant     *)
(* between its call and its return (Decide); an answer other than OK means *)
(* that it changed nothing.  A caller whose process dies learns nothing,   *)
(* and the call has taken effect entirely or not at all.                   *)
(*                                                                         *)
(* The promise is the one of src/notes_repository/api/notes_repository.h:  *)
(* create fails if the note exists, update if it does not.  Listings are   *)
(* not part of it: they are not atomic.                                    *)
(***************************************************************************)
CONSTANTS Procs, Ids, Bodies, Absent

Ops    == {"create", "get", "update", "delete"}
Errors == {"IO_ERROR", "JSON_ERROR", "NO_MEMORY"}

VARIABLES
    notes,    \* notes[id]: the body of the note, or Absent
    call      \* call[p]: phase, op, id and body of p's call, code and value
              \* of its answer

vars == <<notes, call>>

NoCall == [phase |-> "idle", op |-> Absent, id |-> Absent, body |-> Absent,
           code |-> Absent, value |-> Absent]

Init ==
    /\ notes = [id \in Ids |-> Absent]
    /\ call = [p \in Procs |-> NoCall]

Begin(p, op, id, body) ==
    /\ call[p] = NoCall
    /\ call' = [call EXCEPT ![p] = [phase |-> "called", op |-> op, id |-> id,
                   body |-> body, code |-> Absent, value |-> Absent]]
    /\ UNCHANGED notes

Answer(p, code, value) ==
    call' = [call EXCEPT ![p] = [phase |-> "decided", op |-> @.op, id |-> @.id,
                                 body |-> @.body, code |-> code, value |-> value]]

Write(p, op, new) ==
    /\ call[p].op = op
    /\ notes' = [notes EXCEPT ![call[p].id] = new]
    /\ Answer(p, "OK", Absent)

Refuse(p, ops, code) ==
    /\ call[p].op \in ops
    /\ Answer(p, code, Absent)
    /\ UNCHANGED notes

Decide(p) ==
    LET present == notes[call[p].id] # Absent
    IN  /\ call[p].phase = "called"
        /\ \/ ~present /\ Write(p, "create", call[p].body)
           \/ present /\ Write(p, "update", call[p].body)
           \/ present /\ Write(p, "delete", Absent)
           \/ /\ present /\ call[p].op = "get"
              /\ Answer(p, "OK", notes[call[p].id])
              /\ UNCHANGED notes
           \/ present /\ Refuse(p, {"create"}, "ALREADY_EXISTS")
           \/ ~present /\ Refuse(p, {"get", "update", "delete"}, "NOT_FOUND")
           \/ \E code \in Errors : Refuse(p, Ops, code)

Return(p) ==
    /\ call[p].phase = "decided"
    /\ call' = [call EXCEPT ![p] = NoCall]
    /\ UNCHANGED notes

\* The process dies before it can answer.
Lose(p) ==
    /\ call[p] # NoCall
    /\ call' = [call EXCEPT ![p] = NoCall]
    /\ UNCHANGED notes

Next ==
    \E p \in Procs :
       \/ \E op \in Ops, id \in Ids, body \in Bodies \cup {Absent} :
             Begin(p, op, id, body)
       \/ Decide(p)
       \/ Return(p)
       \/ Lose(p)

Spec == Init /\ [][Next]_vars
=============================================================================
