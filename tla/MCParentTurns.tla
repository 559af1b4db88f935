--------------------------- MODULE MCParentTurns ---------------------------
(* Instances of ParentTurns for TLC: messages are interchangeable in the runs
   that check safety only. *)
EXTENDS ParentTurns

Symmetry == Permutations(Msg)

\* The user's inputs that are queued, claimed or in the conversation.
Heard == Note \cap (ToSet(queue) \cup ToSet(batch) \cup ToSet(consumed) \cup ToSet(refused)
                      \cup ToSet(history))

\* Any two of a crash, a failure, a stop and an input meet at any point.
Bounded == (life - 1) + faults + pauses + Cardinality(Heard) <= 2
=============================================================================
