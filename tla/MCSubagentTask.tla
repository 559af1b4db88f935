--------------------------- MODULE MCSubagentTask ---------------------------
(***************************************************************************)
(* Small instances of SubagentTask for TLC.                                *)
(***************************************************************************)
EXTENDS SubagentTask, TLC, FiniteSets

\* Instances and messages are interchangeable; used by the safety runs only.
Symmetry == Permutations(Process) \cup Permutations(QueueMessage)

Sent == {m \in Message : envelope[m] # "none" \/ \E r \in Run : request[r] = m}

\* Any three of two messages, a crash and a fault meet at any point, a cancel with its
\* record in hand standing for two of them; used by the safety run only.
Bounded ==
  Cardinality(Sent) + crashes + faults
    + 2 * Cardinality({p \in Process : canceling[p] # NoSnapshot}) <= 3
=============================================================================
