----------------------------- MODULE MCTaskChanges -----------------------------
(* Two instances, a task of two runs. *)
EXTENDS TaskChanges, TLC

Symmetry == Permutations(Process)

\* Any two of an edit, a failure and a crash meet at any point; leases run out early
\* in the first run.
Bounded == edits + faults + crashes <= 2 /\ (lapses > 0 => run = 1)
=============================================================================
