------------------------------ MODULE NotesRaces ------------------------------
(***************************************************************************)
(* NotesRepository with a history of the one race that brings notes back:  *)
(* of several processes that write the same notes, one deletes a note      *)
(* after another's update has seen that it is there.                       *)
(***************************************************************************)
EXTENDS NotesRepository

VARIABLE
    raced     \* the processes in an update whose note was deleted meanwhile

raceVars == <<vars, raced>>

\* p's update has found its note and has not yet renamed its file over it.
Updating(p) == req[p].op = "update" /\ pc[p] \in {"open", "write", "rename"}

\* A delete of the note answers OK in this step.
Removed(id) ==
    \E q \in Procs : /\ req[q].op = "delete" /\ req[q].id = id
                     /\ pc[q] # "done" /\ result'[q].code = "OK"

RaceInit == Init /\ raced = {}

RaceNext ==
    /\ Next
    /\ raced' = {p \in Procs : Updating(p) /\ Updating(p)' /\ (p \in raced \/ Removed(req[p].id))}

RaceSpec     == RaceInit /\ [][RaceNext]_raceVars
RaceFairSpec == RaceSpec /\ Fairness

\* A note that is not there appears only when a create renames its file, or an
\* update does whose note was deleted, by a delete that answered OK, between
\* the update's stat() and its rename() (notes_repository.c:275-286): no other
\* writer's failure, clean-up, crash or stray write brings one back.
AppearsByCreateOrRace ==
    [][\A id \in Ids :
          dir[id] = None /\ dir'[id] # None
             => \E p \in Procs : /\ req[p].id = id /\ pc[p] = "rename" /\ result'[p].code = "OK"
                                 /\ req[p].op = "create" \/ p \in raced]_raceVars
=============================================================================
