---------------------------- MODULE JobExecutor ----------------------------
(***************************************************************************)
(* What the scheduler promises to the service that submits executions to   *)
(* it, with no parking and no substitutes: threads come and go, accepted   *)
(* jobs begin in the order of their acceptance, an id is in hand at most   *)
(* once, only a job in hand is canceled, and whoever goes leaves somebody  *)
(* behind who can begin what still waits.  After it was closed nothing is  *)
(* accepted and nobody joins, every job in hand is canceled, and to have   *)
(* returned means that all of them have ended and all threads have gone.   *)
(***************************************************************************)
EXTENDS Integers, Sequences, FiniteSets

CONSTANTS Job, Thread, QueueSize, NoJob

VARIABLES
  waiting,   \* accepted jobs that have not begun
  held,      \* the job each thread runs
  present,   \* threads that exist
  canceled,  \* jobs that were told to stop
  closed,
  returned   \* the call of Close is over

vars == <<waiting, held, present, canceled, closed, returned>>

InHand == {j \in Job : \/ \E i \in 1 .. Len(waiting) : waiting[i] = j
                       \/ \E t \in Thread : held[t] = j}

\* What waits has somebody to begin it, and while it is open so has what may come.
Served == present' # {} \/ (closed /\ waiting = <<>>)

Init ==
  /\ waiting = <<>> /\ canceled = {}
  /\ held = [t \in Thread |-> NoJob]
  /\ present \subseteq Thread /\ present # {}
  /\ closed = FALSE /\ returned = FALSE

Accept(j) ==
  /\ ~closed /\ j \notin InHand /\ Len(waiting) < QueueSize
  /\ waiting' = Append(waiting, j)
  /\ UNCHANGED <<held, present, canceled, closed, returned>>

Abort(j) ==
  /\ j \in InHand
  /\ canceled' = canceled \cup {j}
  /\ UNCHANGED <<waiting, held, present, closed, returned>>

Begin(t) ==
  /\ t \in present /\ held[t] = NoJob /\ waiting # <<>>
  /\ held' = [held EXCEPT ![t] = Head(waiting)]
  /\ waiting' = Tail(waiting)
  /\ UNCHANGED <<present, canceled, closed, returned>>

\* The job ends, and possibly the thread with it.
End(t) ==
  /\ t \in present /\ held[t] # NoJob
  /\ held' = [held EXCEPT ![t] = NoJob]
  /\ canceled' = canceled \ {held[t]}
  /\ present' \in {present, present \ {t}} /\ Served
  /\ UNCHANGED <<waiting, closed, returned>>

Join(t) ==
  /\ ~closed /\ t \notin present
  /\ present' = present \cup {t}
  /\ UNCHANGED <<waiting, held, canceled, closed, returned>>

Quit(t) ==
  /\ t \in present /\ held[t] = NoJob
  /\ present' = present \ {t} /\ Served
  /\ UNCHANGED <<waiting, held, canceled, closed, returned>>

Shut ==
  /\ ~closed /\ closed' = TRUE
  /\ canceled' = InHand
  /\ UNCHANGED <<waiting, held, present, returned>>

Return ==
  /\ closed /\ ~returned
  /\ InHand = {} /\ present = {}
  /\ returned' = TRUE
  /\ UNCHANGED <<waiting, held, present, canceled, closed>>

Next ==
  \/ \E j \in Job : Accept(j) \/ Abort(j)
  \/ \E t \in Thread : Begin(t) \/ End(t) \/ Join(t) \/ Quit(t)
  \/ Shut \/ Return

Spec == Init /\ [][Next]_vars

=============================================================================
