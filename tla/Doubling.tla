------------------------------ MODULE Doubling ------------------------------
(***************************************************************************)
(* The sizes of the buffers that server.c lets grow: of the body of a      *)
(* request and of the query string built for it.                           *)
(***************************************************************************)
EXTENDS Integers

\* 1, doubled n times
Doubled[n \in Nat] == IF n = 0 THEN 1 ELSE 2 * Doubled[n - 1]

\* `size` is doubled until it is at least `need`, and not once more.
Enough(size, need) ==
    LET k == CHOOSE n \in 0 .. need :
                /\ size * Doubled[n] >= need
                /\ \A m \in 0 .. n - 1 : size * Doubled[m] < need
    IN  size * Doubled[k]
=============================================================================
