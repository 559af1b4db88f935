-------------------------- MODULE MCPlanExecution --------------------------
(* Instances of PlanExecution for TLC: a and b can be executed together; a recovery may
   name c and d.  c needs the fourth step: d when it comes after c, and else itself or
   none.  d needs b, by its id and by the order it came with, and step 1: that is c by
   the ids of the recovery, and a by its order once the recovery is merged. *)
EXTENDS PlanExecution

CONSTANTS a, b, c, d

MCStep    == {a, b, c, d}
MCFirst   == <<a, b>>
MCId      == [s \in MCStep |-> CASE s = a -> 11 [] s = b -> 12 [] s = c -> 1 [] s = d -> 2]
MCOrder   == [s \in MCStep |-> IF s = b THEN 3 ELSE 0]
MCNeeds   == [s \in MCStep |-> CASE s = c -> {4} [] s = d -> {1, 3, 12} [] OTHER -> {}]
MCRetries == [s \in MCStep |-> IF s = b THEN 1 ELSE 0]
=============================================================================
