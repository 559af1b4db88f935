-------------------------- MODULE SubagentLifecycle --------------------------
(***************************************************************************)
(* What the sub-agent service promises about one task, with no processes,  *)
(* leases, queues or crashes: its runs are opened one after the other,     *)
(* each is closed once with one verdict, an accepted input is delivered at *)
(* most once unless the task is canceled, success leaves no input behind,  *)
(* and a finished run is reported to the parent at most once.              *)
(***************************************************************************)
EXTENDS Integers

CONSTANTS Run,      \* run numbers, 1 up to a bound
          Message   \* inputs for the task

VARIABLES
  current,    \* the last run opened, 0 before the first
  verdict,    \* of each run: "none", "open" or how it ended
  waiting,    \* inputs accepted and not delivered, of a task not canceled
  delivered,  \* inputs the sub-agent has answered, of a task not canceled
  reported    \* runs whose result the parent was told

vars == <<current, verdict, waiting, delivered, reported>>

Init ==
  /\ current = 0
  /\ verdict = [r \in Run |-> "none"]
  /\ waiting = {}
  /\ delivered = {}
  /\ reported = {}

Finished(r) == verdict[r] \in {"succeeded", "failed"}
IsOpen == current \in Run /\ verdict[current] = "open"

\* The first run, or the next one after a run that was not canceled.
Open ==
  /\ current = 0 \/ Finished(current)
  /\ current + 1 \in Run
  /\ current' = current + 1
  /\ verdict' = [verdict EXCEPT ![current + 1] = "open"]
  /\ UNCHANGED <<waiting, delivered, reported>>

Accept(m) ==
  /\ IsOpen
  /\ m \notin waiting \cup delivered
  /\ waiting' = waiting \cup {m}
  /\ UNCHANGED <<current, verdict, delivered, reported>>

\* The answer to an input may arrive after the run it was given to was closed
\* elsewhere.
Deliver(m) ==
  /\ m \in waiting
  /\ waiting' = waiting \ {m}
  /\ delivered' = delivered \cup {m}
  /\ UNCHANGED <<current, verdict, reported>>

\* A run that is canceled gives up the inputs of its task: what becomes of them is
\* not promised.
Close(v) ==
  /\ IsOpen
  /\ v = "succeeded" => waiting = {}
  /\ verdict' = [verdict EXCEPT ![current] = v]
  /\ waiting' = IF v = "canceled" THEN {} ELSE waiting
  /\ delivered' = IF v = "canceled" THEN {} ELSE delivered
  /\ UNCHANGED <<current, reported>>

Report(r) ==
  /\ Finished(r)
  /\ r \notin reported
  /\ reported' = reported \cup {r}
  /\ UNCHANGED <<current, verdict, waiting, delivered>>

Next ==
  \/ Open
  \/ \E m \in Message : Accept(m) \/ Deliver(m)
  \/ \E v \in {"succeeded", "failed", "canceled"} : Close(v)
  \/ \E r \in Run : Report(r)

Spec == Init /\ [][Next]_vars
=============================================================================
