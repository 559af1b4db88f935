-------------------------- MODULE PlanExecutionProofs --------------------------
(***************************************************************************)
(* Proofs about PlanExecution, for any plan, any dependencies and retries, *)
(* and any bounds.                                                         *)
(***************************************************************************)
EXTENDS PlanExecution, SequenceTheorems, FiniteSetTheorems, TLAPS

Phase == {"idle", "approve", "start", "loop", "batch", "judge", "settle", "recover",
          "merge", "done", "error"}

\* The phases in which the results of a batch are still to be judged, and those in
\* which a step of it has failed.
Judging == {"batch", "judge"}
Settling == {"settle", "recover", "merge"}

\* The plans that can come into use: those in memory and in the store, and the copies
\* that wait to be written.
InUse == {live, stored} \cup ToSet(writes) \cup (IF phase = "idle" THEN {} ELSE {plan})

\* What a plan says was earned: a step is done by an answer, or since the plan was
\* captured, and skipped for a recovery, and a plan that is done has no step left.
Sound(p, answers, given) ==
  /\ PlanOK(p)
  /\ \A s \in Step : /\ p.state[s] = "done" => s \in answers \cup p.claimed
                     /\ p.state[s] = "skipped" => s \in given
  /\ p.status = "done" => \A s \in Steps(p) : Finished(p.state[s])

\* The plan of a session is what its execution makes of it, but for the turn of the
\* recovery planner; an execution works on a plan that is not done.
Follows ==
  /\ phase \notin {"idle", "merge"} => live = plan
  /\ phase \notin {"idle", "error"} => plan.status # "done"
  /\ phase = "done" => Unfinished(plan) = {}

\* What the batch is about.
BatchAgrees ==
  phase \in Judging \cup Settling =>
    \A s \in Step :
      /\ outcome[s] \in {"run", "error", "canceled"} => plan.state[s] = "running"
      /\ outcome[s] = "ok" => s \in answered
      /\ outcome[s] = "ok" /\ phase \in Judging => plan.state[s] = "running"

\* A step that was answered is finished, or will be when the batch is judged.
AnswersKept ==
  /\ phase = "idle" => \A s \in answered : Finished(live.state[s])
  /\ phase # "idle" => \A s \in answered :
       Finished(plan.state[s]) \/ (phase \in Judging /\ outcome[s] = "ok")

\* The step an error is about was not answered.
CauseOK == phase = "error" => cause.step = 0 \/ plan.steps[cause.step] \notin answered

\* A recovery is for one step that failed.
OneFailed ==
  phase \in {"recover", "merge"} => Cardinality(Failed) = 1 /\ replans < MaxReplans

IInv ==
  /\ TypeOK /\ (\A p \in InUse : Sound(p, answered, givenUp))
  /\ Follows /\ BatchAgrees /\ AnswersKept /\ CauseOK /\ OneFailed

-----------------------------------------------------------------------------
(* The filter of a list and the least of a set of places.                  *)

\* Every number of places up to their count is the rank of one of them.
LEMMA RanksExhaust ==
  ASSUME NEW n \in Nat, NEW places \in SUBSET (1..n)
  PROVE  /\ IsFiniteSet(places) /\ Cardinality(places) \in Nat
         /\ \A k \in 1..Cardinality(places) : \E i \in places : Rank(places, i) = k
<1> DEFINE upTo(i) == {j \in places : j <= i}
           rank == [i \in places |-> Rank(places, i)]
           size == Cardinality(places)
<1>1. IsFiniteSet(places) /\ size \in Nat
  <2>1. IsFiniteSet(1..n)
    BY FS_Interval
  <2> QED BY <2>1, FS_Subset, FS_CardinalityType, Zenon
<1>2. \A i \in places : rank[i] \in 1..size
  <2> SUFFICES ASSUME NEW i \in places PROVE Rank(places, i) \in 1..size
    OBVIOUS
  <2>1. upTo(i) \in SUBSET places /\ i \in upTo(i)
    OBVIOUS
  <2>2. /\ IsFiniteSet(upTo(i)) /\ Cardinality(upTo(i)) \in Nat
        /\ Cardinality(upTo(i)) <= size /\ Cardinality(upTo(i)) # 0
    BY <1>1, <2>1, FS_Subset, FS_EmptySet, FS_CardinalityType, Zenon
  <2> QED
    BY <1>1, <2>2 DEF Rank
<1>3. ASSUME NEW i \in places, NEW j \in places, i < j PROVE rank[i] < rank[j]
  <2>1. upTo(i) \in SUBSET upTo(j) /\ upTo(j) \in SUBSET places /\ upTo(i) # upTo(j)
    <3>1. i \in Nat /\ j \in Nat /\ \A k \in places : k \in Nat
      OBVIOUS
    <3>2. \A k \in places : k <= i => k <= j
      BY <1>3, <3>1
    <3>3. j \in upTo(j) /\ j \notin upTo(i)
      BY <1>3, <3>1
    <3> QED BY <3>2, <3>3
  <2>2. IsFiniteSet(upTo(j))
    BY <1>1, <2>1, FS_Subset, Zenon
  <2>3. /\ Cardinality(upTo(i)) <= Cardinality(upTo(j))
        /\ Cardinality(upTo(i)) # Cardinality(upTo(j))
    BY <2>1, <2>2, FS_Subset, Zenon
  <2>4. rank[i] = Cardinality(upTo(i)) /\ rank[j] = Cardinality(upTo(j))
    BY DEF Rank
  <2> QED
    BY <1>2, <2>3, <2>4
<1>4. rank \in Injection(places, 1..size)
  <2>1. \A i, j \in places : rank[i] = rank[j] => i = j
    BY <1>2, <1>3
  <2>2. rank \in [places -> 1..size] /\ DOMAIN rank = places
    BY <1>2
  <2> HIDE DEF rank
  <2> QED
    BY <2>1, <2>2 DEF Injection, IsInjective
<1>5. Cardinality(1..size) = size /\ IsFiniteSet(1..size)
  BY <1>1, FS_Interval
<1>6. rank \in Surjection(places, 1..size)
  <2> HIDE DEF rank
  <2> QED BY <1>1, <1>4, <1>5, FS_Injection, Zenon
<1>7. \A k \in 1..size : \E i \in places : rank[i] = k
  <2> HIDE DEF rank
  <2> QED BY <1>6 DEF Surjection
<1> QED
  BY <1>1, <1>7

\* A filter returns a list of what it is asked for.
LEMMA FilterType ==
  ASSUME NEW T, NEW s \in Seq(T), NEW S
  PROVE  Filter(s, S) \in Seq(T \cap S)
<1> DEFINE places == Places(s, S)
           size == Cardinality(places)
           at(k) == CHOOSE i \in places : Rank(places, i) = k
<1>1. Len(s) \in Nat /\ places \in SUBSET (1..Len(s))
  BY LenProperties DEF Places
<1>2. size \in Nat /\ \A k \in 1..size : \E i \in places : Rank(places, i) = k
  BY <1>1, RanksExhaust, Zenon
<1>3. \A k \in 1..size : at(k) \in places
  BY <1>2, Zenon
<1>4. \A i \in places : s[i] \in T \cap S
  BY <1>1, ElementOfSeq DEF Places
<1>5. \A k \in 1..size : s[at(k)] \in T \cap S
  BY <1>3, <1>4
<1>6. [k \in 1..size |-> s[at(k)]] \in [1..size -> T \cap S]
  BY <1>5
<1>7. Filter(s, S) = [k \in 1..size |-> s[at(k)]]
  BY DEF Filter
<1> QED
  <2>1. Seq(T \cap S) = UNION {[1..n -> T \cap S] : n \in Nat}
    BY SeqDef, Zenon
  <2> HIDE DEF size, at
  <2> QED BY <1>2, <1>6, <1>7, <2>1

\* The least of a set of places exists.
LEMMA LeastPlace ==
  ASSUME NEW n \in Nat, NEW places \in SUBSET (1..n), places # {}
  PROVE  Min(places) \in places
<1>1. IsFiniteSet(places) /\ Cardinality(places) \in Nat \ {0}
  BY RanksExhaust, FS_EmptySet
<1>2. PICK i \in places : Rank(places, i) = 1
  BY <1>1, RanksExhaust
<1>3. \A j \in places : i <= j
  <2> SUFFICES ASSUME NEW j \in places, j < i PROVE FALSE
    OBVIOUS
  <2> DEFINE upTo == {k \in places : k <= i}
  <2>1. upTo \in SUBSET places /\ {i, j} \subseteq upTo
    OBVIOUS
  <2>2. IsFiniteSet(upTo) /\ Cardinality(upTo) = 1
    BY <1>1, <1>2, <2>1, FS_Subset DEF Rank
  <2>3. \E x : upTo = {x}
    BY <2>2, FS_Singleton, Zenon
  <2> QED BY <2>1, <2>3
<1> QED
  BY <1>3, Zenon DEF Min

-----------------------------------------------------------------------------
(* Plans and their marks.                                                  *)

\* A plan's steps are steps.
LEMMA StepsOf ==
  ASSUME NEW T, NEW s \in Seq(T)
  PROVE  ToSet(s) \subseteq T /\ \A i \in 1..Len(s) : s[i] \in ToSet(s)
BY LenProperties, ElementOfSeq DEF ToSet

\* What was earned stays earned.
LEMMA SoundGrows ==
  ASSUME NEW p, NEW a, NEW g, NEW b, NEW h, Sound(p, a, g), a \subseteq b, g \subseteq h
  PROVE  Sound(p, b, h)
BY DEF Sound

LEMMA DraftSound ==
  ASSUME NEW r \in Seq(Step), NEW c \in SUBSET ToSet(r), NEW a, NEW g,
         NEW q, q = Draft(r, c)
  PROVE  /\ q \in Plan /\ Sound(q, a, g) /\ q.steps = r /\ q.status = "draft"
         /\ q.claimed = c
         /\ \A s \in Step : q.state[s] = IF s \notin ToSet(r) THEN "absent"
                                         ELSE IF s \in c THEN "done" ELSE "pending"
<1>1. ToSet(r) \subseteq Step /\ Len(r) \in Nat
  BY StepsOf, LenProperties
<1>2. q \in Plan
  BY <1>1 DEF Draft, Plan, PlanStatus, StepStatus
<1>3. \A s \in Step : /\ q.state[s] = IF s \notin ToSet(r) THEN "absent"
                                      ELSE IF s \in c THEN "done" ELSE "pending"
                      /\ q.tries[s] = 0
  BY DEF Draft
<1>4. q.steps = r /\ q.status = "draft" /\ q.claimed = c
  BY DEF Draft
<1>5. \A s \in Step : q.tries[s] <= Retries[s]
  BY <1>3, PlanAssumption
<1>6. PlanOK(q)
  BY <1>2, <1>3, <1>4, <1>5 DEF PlanOK
<1> QED
  BY <1>2, <1>3, <1>4, <1>6 DEF Sound

\* A plan is captured with what it claims, and is done when all of it is.
LEMMA CaptureSound ==
  ASSUME NEW r \in Seq(Step), NEW p \in Captures(r), NEW a, NEW g
  PROVE  Sound(p, a, g) /\ p.steps = r
<1>1. CASE \E c \in SUBSET ToSet(r) : p = Draft(r, c)
  BY <1>1, DraftSound
<1>2. CASE p = [Draft(r, ToSet(r)) EXCEPT !.status = "done"]
  <2>1. PICK q : q = Draft(r, ToSet(r)) /\ ToSet(r) \in SUBSET ToSet(r)
    OBVIOUS
  <2>2. /\ q \in Plan /\ PlanOK(q) /\ q.steps = r /\ q.claimed = ToSet(r)
        /\ \A s \in Step : q.state[s] = IF s \notin ToSet(r) THEN "absent" ELSE "done"
    <3>1. /\ q \in Plan /\ Sound(q, a, g) /\ q.steps = r /\ q.claimed = ToSet(r)
          /\ \A s \in Step : q.state[s] = IF s \notin ToSet(r) THEN "absent"
                                          ELSE IF s \in ToSet(r) THEN "done" ELSE "pending"
      BY <2>1, DraftSound
    <3> QED BY <3>1 DEF Sound
  <2>3. p = [q EXCEPT !.status = "done"]
    BY <1>2, <2>1
  <2>4. /\ p \in Plan /\ p.steps = r /\ p.claimed = ToSet(r)
        /\ p.state = q.state /\ p.tries = q.tries
    BY <2>2, <2>3 DEF Plan, PlanStatus
  <2>5. PlanOK(p)
    BY <2>2, <2>4 DEF PlanOK
  <2>6. ToSet(r) \subseteq Step
    BY StepsOf
  <2> QED BY <2>2, <2>4, <2>5, <2>6 DEF Sound, Steps, Finished
<1> QED
  BY <1>1, <1>2 DEF Captures

\* Another status than "done" asks for nothing.
LEMMA StatusSound ==
  ASSUME NEW p, NEW a, NEW g, Sound(p, a, g), NEW new \in PlanStatus \ {"done"}
  PROVE  LET q == [p EXCEPT !.status = new] IN
         /\ Sound(q, a, g) /\ q.status = new
         /\ q.steps = p.steps /\ q.state = p.state /\ q.tries = p.tries
<1> DEFINE q == [p EXCEPT !.status = new]
<1>1. p \in Plan
  BY DEF Sound, PlanOK
<1>2. /\ q \in Plan /\ q.status = new /\ q.claimed = p.claimed
      /\ q.steps = p.steps /\ q.state = p.state /\ q.tries = p.tries
  BY <1>1 DEF Plan
<1> HIDE DEF q
<1>3. Sound(q, a, g)
  BY <1>2 DEF Sound, PlanOK, Steps
<1> QED
  BY <1>2, <1>3 DEF q

\* What a mark leaves of the plan.
Marked(p, q, steps, state, a, g) ==
  /\ Sound(q, a, g) /\ q.status = p.status /\ q.steps = p.steps /\ q.tries = p.tries
  /\ q.claimed = p.claimed
  /\ \A s \in Step : q.state[s] = IF s \in steps THEN state ELSE p.state[s]

\* A mark on steps of the plan that earned it.
LEMMA MarkSound ==
  ASSUME NEW p, NEW a, NEW g, Sound(p, a, g), NEW steps \in SUBSET Steps(p),
         NEW state \in StepStatus \ {"absent"}, p.status # "done",
         state = "done" => steps \subseteq a, state = "skipped" => steps \subseteq g
  PROVE  Marked(p, Mark(p, steps, state), steps, state, a, g)
<1> DEFINE q == Mark(p, steps, state)
<1>1. p \in Plan /\ PlanOK(p)
  BY DEF Sound, PlanOK
<1>2. /\ q \in Plan /\ q.status = p.status /\ q.steps = p.steps /\ q.tries = p.tries
      /\ q.claimed = p.claimed
      /\ \A s \in Step : q.state[s] = IF s \in steps THEN state ELSE p.state[s]
  BY <1>1 DEF Plan, Mark
<1> HIDE DEF q
<1>3. PlanOK(q)
  BY <1>1, <1>2 DEF PlanOK, Steps
<1>4. Sound(q, a, g)
  BY <1>2, <1>3 DEF Sound
<1> QED
  BY <1>2, <1>4 DEF q, Marked

LEMMA StartSound ==
  ASSUME NEW p, NEW a, NEW g, Sound(p, a, g)
  PROVE  /\ Sound(Start(p), a, g) /\ Start(p).status = "running" /\ Start(p).steps = p.steps
         /\ \A s \in Step : Finished(p.state[s]) => Finished(Start(p).state[s])
<1> DEFINE q == Start(p)
<1>1. p \in Plan /\ PlanOK(p)
  BY DEF Sound, PlanOK
<1>2. /\ q \in Plan /\ q.status = "running" /\ q.steps = p.steps /\ q.tries = p.tries
      /\ q.claimed = p.claimed
      /\ \A s \in Step : q.state[s] = IF s \in Steps(p) /\ ~Finished(p.state[s])
                                      THEN "pending" ELSE p.state[s]
  BY <1>1 DEF Plan, Start, PlanStatus, StepStatus
<1> HIDE DEF q
<1>3. PlanOK(q)
  BY <1>1, <1>2 DEF PlanOK, Steps
<1>4. Sound(q, a, g)
  BY <1>2, <1>3 DEF Sound
<1> QED
  BY <1>2, <1>4 DEF q, Finished

LEMMA PendingSound ==
  ASSUME NEW p, NEW a, NEW g, Sound(p, a, g), NEW steps \in SUBSET Steps(p), p.status # "done"
  PROVE  LET q == Mark(p, steps, "pending") IN
         /\ Sound(q, a, g) /\ q.status = p.status /\ q.steps = p.steps /\ q.tries = p.tries
         /\ q.claimed = p.claimed
         /\ \A s \in Step : q.state[s] = IF s \in steps THEN "pending" ELSE p.state[s]
<1>1. "pending" \in StepStatus \ {"absent"} /\ "pending" # "done" /\ "pending" # "skipped"
  BY DEF StepStatus
<1>2. Marked(p, Mark(p, steps, "pending"), steps, "pending", a, g)
  BY <1>1, MarkSound
<1> QED
  BY <1>2 DEF Marked

LEMMA DoneSound ==
  ASSUME NEW p, NEW a, NEW g, Sound(p, a, g), NEW steps \in SUBSET Steps(p), p.status # "done",
         steps \subseteq a
  PROVE  LET q == Mark(p, steps, "done") IN
         /\ Sound(q, a, g) /\ q.status = p.status /\ q.steps = p.steps /\ q.tries = p.tries
         /\ q.claimed = p.claimed
         /\ \A s \in Step : q.state[s] = IF s \in steps THEN "done" ELSE p.state[s]
<1>1. "done" \in StepStatus \ {"absent"} /\ "done" # "skipped"
  BY DEF StepStatus
<1>2. Marked(p, Mark(p, steps, "done"), steps, "done", a, g)
  BY <1>1, MarkSound
<1> QED
  BY <1>2 DEF Marked

LEMMA RunningSound ==
  ASSUME NEW p, NEW a, NEW g, Sound(p, a, g), NEW steps \in SUBSET Steps(p), p.status # "done"
  PROVE  LET q == Mark(p, steps, "running") IN
         /\ Sound(q, a, g) /\ q.status = p.status /\ q.steps = p.steps /\ q.tries = p.tries
         /\ q.claimed = p.claimed
         /\ \A s \in Step : q.state[s] = IF s \in steps THEN "running" ELSE p.state[s]
<1>1. "running" \in StepStatus \ {"absent"} /\ "running" # "done" /\ "running" # "skipped"
  BY DEF StepStatus
<1>2. Marked(p, Mark(p, steps, "running"), steps, "running", a, g)
  BY <1>1, MarkSound
<1> QED
  BY <1>2 DEF Marked

\* A retry is counted; the step starts again.
LEMMA RetrySound ==
  ASSUME NEW p, NEW a, NEW g, Sound(p, a, g), NEW s \in Steps(p), p.status # "done",
         p.tries[s] < Retries[s]
  PROVE  LET q == MarkStepRetry(p, s) IN
         /\ Sound(q, a, g) /\ q.status = p.status /\ q.steps = p.steps
         /\ \A t \in Step : q.state[t] = IF t = s THEN "pending" ELSE p.state[t]
<1> DEFINE m == Mark(p, {s}, "pending")
           q == MarkStepRetry(p, s)
<1>1. /\ Sound(m, a, g) /\ m.status = p.status /\ m.steps = p.steps /\ m.tries = p.tries
      /\ m.claimed = p.claimed
      /\ \A t \in Step : m.state[t] = IF t = s THEN "pending" ELSE p.state[t]
  <2>1. {s} \in SUBSET Steps(p)
    OBVIOUS
  <2>2. /\ Sound(m, a, g) /\ m.status = p.status /\ m.steps = p.steps /\ m.tries = p.tries
        /\ m.claimed = p.claimed
        /\ \A t \in Step : m.state[t] = IF t \in {s} THEN "pending" ELSE p.state[t]
    <3> HIDE DEF q
    <3> QED BY <2>1, PendingSound, ZenonT(40)
  <2> QED BY <2>2
<1>2. s \in Step /\ m \in Plan /\ PlanOK(m) /\ Retries \in [Step -> Nat]
  <2>1. p \in Plan /\ m \in Plan /\ PlanOK(m)
    BY <1>1 DEF Sound, PlanOK
  <2>2. p.steps \in Seq(Step)
    BY <2>1 DEF Plan
  <2> QED BY <2>1, <2>2, PlanAssumption, StepsOf DEF Steps
<1>3. q = [m EXCEPT !.tries[s] = @ + 1]
  BY DEF MarkStepRetry
<1> HIDE DEF m, q
<1>4. /\ q \in Plan /\ q.status = m.status /\ q.steps = m.steps /\ q.state = m.state
      /\ q.claimed = m.claimed
      /\ \A t \in Step : q.tries[t] = IF t = s THEN m.tries[t] + 1 ELSE m.tries[t]
  <2>1. m.tries \in [Step -> Nat] /\ DOMAIN m = {"status", "steps", "drafted", "state", "tries", "claimed"}
    BY <1>2 DEF Plan
  <2>2. q = [m EXCEPT !.tries = [m.tries EXCEPT ![s] = m.tries[s] + 1]]
    BY <1>2, <1>3, <2>1
  <2>3. [m.tries EXCEPT ![s] = m.tries[s] + 1] \in [Step -> Nat]
    BY <1>2, <2>1
  <2> QED BY <1>2, <2>1, <2>2, <2>3 DEF Plan
<1>5. PlanOK(q)
  <2>1. m.tries \in [Step -> Nat] /\ m.tries[s] < Retries[s]
    BY <1>1, <1>2 DEF Plan
  <2>2. \A t \in Step : q.tries[t] <= Retries[t]
    BY <1>2, <1>4, <2>1 DEF PlanOK
  <2> QED BY <1>2, <1>4, <2>2 DEF PlanOK
<1>6. Sound(q, a, g)
  BY <1>1, <1>4, <1>5 DEF Sound, Steps
<1> QED
  BY <1>1, <1>4, <1>6 DEF q

\* Marks that take a step up again, or give it up, and a status other than "done".
LEMMA RemarkSound ==
  ASSUME NEW p, NEW a, NEW g, Sound(p, a, g), NEW q \in Plan,
         q.steps = p.steps, q.tries = p.tries, q.claimed = p.claimed, q.status # "done",
         \A s \in Step : \/ q.state[s] = p.state[s]
                         \/ s \in Steps(p) /\ q.state[s] \in {"pending", "failed"}
  PROVE  Sound(q, a, g)
<1>1. PlanOK(q)
  BY DEF Sound, PlanOK, Steps
<1> QED
  BY <1>1 DEF Sound

LEMMA CanceledSound ==
  ASSUME NEW p, NEW a, NEW g, Sound(p, a, g)
  PROVE  LET q == MarkCanceled(p) IN
         /\ Sound(q, a, g) /\ q.steps = p.steps
         /\ \A s \in Step : q.state[s] = IF p.state[s] = "running" THEN "pending" ELSE p.state[s]
<1> DEFINE q == MarkCanceled(p)
<1>1. p \in Plan /\ PlanOK(p)
  BY DEF Sound, PlanOK
<1>2. /\ q \in Plan /\ q.steps = p.steps /\ q.tries = p.tries /\ q.status = "canceled"
      /\ q.claimed = p.claimed
      /\ \A s \in Step : q.state[s] = IF p.state[s] = "running" THEN "pending" ELSE p.state[s]
  BY <1>1 DEF MarkCanceled, Mark, Plan, PlanStatus, StepStatus
<1> HIDE DEF q
<1>3. \A s \in Step : p.state[s] = "running" => s \in Steps(p)
  BY <1>1 DEF PlanOK, Steps
<1>4. Sound(q, a, g)
  <2>1. q.status # "done"
    BY <1>2
  <2>2. ASSUME NEW s \in Step PROVE \/ q.state[s] = p.state[s]
                                    \/ s \in Steps(p) /\ q.state[s] \in {"pending", "failed"}
    BY <1>2, <1>3
  <2> QED BY <1>2, <2>1, <2>2, RemarkSound, Zenon
<1> QED
  BY <1>2, <1>4 DEF q

LEMMA FailedSound ==
  ASSUME NEW p, NEW a, NEW g, Sound(p, a, g), NEW i \in 0..Len(p.steps)
  PROVE  LET q == MarkStepFailed(p, i) IN
         /\ Sound(q, a, g) /\ q.steps = p.steps
         /\ \A s \in Step : q.state[s] = IF i # 0 /\ s = p.steps[i] THEN "failed" ELSE p.state[s]
<1> DEFINE q == MarkStepFailed(p, i)
<1>1. p \in Plan /\ PlanOK(p)
  BY DEF Sound, PlanOK
<1>2. /\ q \in Plan /\ q.steps = p.steps /\ q.tries = p.tries /\ q.status = "failed"
      /\ q.claimed = p.claimed
      /\ \A s \in Step : q.state[s] = IF i # 0 /\ s = p.steps[i] THEN "failed" ELSE p.state[s]
  BY <1>1 DEF MarkStepFailed, Mark, Plan, PlanStatus, StepStatus
<1> HIDE DEF q
<1>3. i # 0 => p.steps[i] \in Steps(p)
  BY <1>1, StepsOf DEF Plan, Steps
<1>4. Sound(q, a, g)
  <2>1. q.status # "done"
    BY <1>2
  <2>2. ASSUME NEW s \in Step PROVE \/ q.state[s] = p.state[s]
                                    \/ s \in Steps(p) /\ q.state[s] \in {"pending", "failed"}
    BY <1>2, <1>3
  <2> QED BY <1>2, <2>1, <2>2, RemarkSound, Zenon
<1> QED
  BY <1>2, <1>4 DEF q

LEMMA StepsOfBoth ==
  ASSUME NEW T, NEW s \in Seq(T), NEW t \in Seq(T)
  PROVE  ToSet(s \o t) = ToSet(s) \cup ToSet(t)
<1>1. ToSet(s) = Range(s) /\ ToSet(t) = Range(t) /\ ToSet(s \o t) = Range(s \o t)
  BY DEF ToSet, Range
<1> QED
  BY <1>1, RangeConcatenation

\* What a merge leaves of the plan.
Merged(p, q, failed, a, g) ==
  /\ Sound(q, a, g) /\ q.status = "running" /\ Len(p.steps) <= Len(q.steps)
  /\ \A i \in 1..Len(p.steps) : q.steps[i] = p.steps[i]
  /\ \A s \in Steps(p) : q.state[s] = IF s = failed THEN "skipped" ELSE p.state[s]

\* A merge skips the failed step and adds steps the plan did not have.
LEMMA MergeSound ==
  ASSUME NEW p, NEW a, NEW g, NEW h, Sound(p, a, g), g \subseteq h,
         NEW steps \in Seq(Step), NEW failed \in Steps(p), failed \in h,
         NEW q, q = MergeRecovery(p, steps, failed)
  PROVE  Merged(p, q, failed, a, h)
<1> DEFINE new == Filter(steps, Step \ Steps(p))
           room == IF MaxSteps > Len(p.steps) THEN MaxSteps - Len(p.steps) ELSE 1
           count == IF Len(new) < room THEN Len(new) ELSE room
           more == SubSeq(new, 1, count)
<1>1. p \in Plan /\ PlanOK(p) /\ p.steps \in Seq(Step) /\ Len(p.steps) \in Nat
  BY LenProperties DEF Sound, PlanOK, Plan
<1>2. more \in Seq(Step) /\ ToSet(more) \cap Steps(p) = {}
  <2>1. new \in Seq(Step \cap (Step \ Steps(p)))
    BY FilterType
  <2>2. Len(new) \in Nat /\ room \in Nat
    BY <1>1, <2>1, LenProperties, PlanAssumption
  <2>3. count \in Nat /\ count <= Len(new)
    BY <2>2
  <2> HIDE DEF new, room, count
  <2>4. \A i \in 1..count : new[i] \in Step \cap (Step \ Steps(p))
    BY <2>1, <2>2, <2>3, ElementOfSeq
  <2>5. more \in Seq(Step \cap (Step \ Steps(p)))
    BY <2>3, <2>4, SubSeqProperties
  <2> HIDE DEF more
  <2>6. more \in Seq(Step)
    BY <2>5, SeqMonotonic
  <2> QED BY <2>5, <2>6, StepsOf
<1>3. q = [Mark(Mark(p, {failed}, "skipped"), ToSet(more), "pending") EXCEPT
             !.status = "running", !.steps = @ \o more]
  BY DEF MergeRecovery
<1> HIDE DEF more
<1>4. p.steps \o more \in Seq(Step)
  BY <1>1, <1>2, ConcatProperties
<1>5. /\ q \in Plan /\ q.status = "running" /\ q.steps = p.steps \o more /\ q.tries = p.tries
      /\ q.claimed = p.claimed
      /\ \A s \in Step : q.state[s] = IF s \in ToSet(more) THEN "pending"
                                      ELSE IF s = failed THEN "skipped" ELSE p.state[s]
  <2> DEFINE skip == Mark(p, {failed}, "skipped")
             m == Mark(skip, ToSet(more), "pending")
  <2>1. /\ skip \in Plan /\ skip.steps = p.steps /\ skip.tries = p.tries
        /\ skip.claimed = p.claimed
        /\ \A s \in Step : skip.state[s] = IF s = failed THEN "skipped" ELSE p.state[s]
    BY <1>1 DEF Mark, Plan, StepStatus
  <2> HIDE DEF skip
  <2>2. /\ m \in Plan /\ m.steps = p.steps /\ m.tries = p.tries /\ m.claimed = p.claimed
        /\ \A s \in Step : m.state[s] = IF s \in ToSet(more) THEN "pending" ELSE skip.state[s]
    BY <2>1 DEF Mark, Plan, StepStatus
  <2>3. q = [m EXCEPT !.status = "running", !.steps = @ \o more]
    BY <1>3 DEF skip
  <2> HIDE DEF m
  <2>4. /\ q.status = "running" /\ q.steps = p.steps \o more
        /\ q.tries = m.tries /\ q.claimed = m.claimed /\ q.state = m.state
    BY <2>2, <2>3 DEF Plan
  <2>5. q \in Plan
    <3>1. "running" \in PlanStatus
      BY DEF PlanStatus
    <3>2. q = [m EXCEPT !.status = "running", !.steps = p.steps \o more]
      BY <2>2, <2>3
    <3> QED
      BY <1>4, <2>2, <3>1, <3>2, ZenonT(40) DEF Plan
  <2> QED BY <2>1, <2>2, <2>4, <2>5
<1>6. Steps(q) = Steps(p) \cup ToSet(more)
  BY <1>1, <1>2, <1>5, StepsOfBoth DEF Steps
<1>7. Steps(p) \subseteq Step /\ ToSet(more) \subseteq Step
  BY <1>1, <1>2, StepsOf DEF Steps
<1>8. PlanOK(q)
  BY <1>1, <1>2, <1>5, <1>6 DEF PlanOK, Steps
<1>9. Sound(q, a, h)
  BY <1>5, <1>8 DEF Sound
<1>10. Len(p.steps) <= Len(q.steps) /\ \A i \in 1..Len(p.steps) : q.steps[i] = p.steps[i]
  <2>1. /\ Len(q.steps) = Len(p.steps) + Len(more) /\ Len(more) \in Nat
        /\ \A i \in 1..Len(p.steps) + Len(more) :
             q.steps[i] = IF i <= Len(p.steps) THEN p.steps[i] ELSE more[i - Len(p.steps)]
    BY <1>1, <1>2, <1>5, ConcatProperties, LenProperties
  <2> QED BY <1>1, <2>1
<1>11. \A s \in Steps(p) : q.state[s] = IF s = failed THEN "skipped" ELSE p.state[s]
  BY <1>2, <1>5, <1>7
<1> QED
  BY <1>5, <1>9, <1>10, <1>11 DEF Merged

-----------------------------------------------------------------------------
(* The steps of the execution keep the invariant.                          *)

OKPlan == {p \in Plan : PlanOK(p)}

\* A queued copy is one of the plans that were queued, or the new one.
LEMMA LaterWrites ==
  ASSUME TypeOK, NEW p, PlanOK(p)
  PROVE  /\ Later(p) \in Seq(OKPlan) /\ Len(Later(p)) <= MaxWrites
         /\ ToSet(Later(p)) \subseteq ToSet(writes) \cup {p}
<1>1. p \in OKPlan /\ writes \in Seq(OKPlan) /\ Len(writes) \in Nat /\ MaxWrites \in Nat
  BY LenProperties, PlanAssumption DEF OKPlan, TypeOK, PlanOK
<1>2. /\ Append(writes, p) \in Seq(OKPlan) /\ Len(Append(writes, p)) = Len(writes) + 1
      /\ ToSet(Append(writes, p)) \subseteq ToSet(writes) \cup {p}
  <2>1. /\ Append(writes, p) \in Seq(OKPlan) /\ Len(Append(writes, p)) = Len(writes) + 1
        /\ \A i \in 1..Len(writes) : Append(writes, p)[i] = writes[i]
        /\ Append(writes, p)[Len(writes) + 1] = p
    BY <1>1, AppendProperties
  <2>2. /\ DOMAIN Append(writes, p) = 1..(Len(writes) + 1) /\ DOMAIN writes = 1..Len(writes)
    BY <1>1, <2>1, LenProperties
  <2>3. \A i \in 1..(Len(writes) + 1) : i \in 1..Len(writes) \/ i = Len(writes) + 1
    BY <1>1
  <2> QED BY <2>1, <2>2, <2>3 DEF ToSet
<1>3. CASE Len(writes) < MaxWrites
  BY <1>1, <1>2, <1>3 DEF Later
<1>4. CASE ~(Len(writes) < MaxWrites)
  BY <1>1, <1>4 DEF Later, TypeOK
<1> QED
  BY <1>3, <1>4

\* What savePlanState leaves: the plan in memory, in a state the next step can use.
Saved(p, next, index) ==
  /\ plan' = p /\ live' = p /\ phase' \in {next, "error"}
  /\ phase' = "error" => cause'.step = index
  /\ PlanOK(p) /\ PlanOK(stored') /\ phase' \in Phase
  /\ cause'.step \in 0..Len(p.steps) /\ cause'.canceled \in BOOLEAN
  /\ faults' \in 0..MaxFaults
  /\ writes' \in Seq(OKPlan) /\ Len(writes') <= MaxWrites
  /\ \A q \in InUse' : Sound(q, answered', givenUp')

\* The plan it is given must be sound.
LEMMA SaveKeeps ==
  ASSUME IInv, NEW p, NEW next \in Phase \ {"error"}, NEW index \in 0..Len(p.steps),
         Save(p, next, index), Sound(p, answered', givenUp'), Len(plan.steps) <= Len(p.steps),
         answered \subseteq answered', givenUp \subseteq givenUp',
         writes' = writes \/ writes' = Later(p)
  PROVE  Saved(p, next, index)
<1>1. TypeOK /\ PlanOK(p) /\ \A q \in InUse : Sound(q, answered, givenUp)
  BY DEF IInv, Sound
<1>2. /\ plan' = p /\ live' = p /\ stored' \in {stored, p} /\ phase' \in {next, "error"}
      /\ phase' = "error" => cause'.step = index
  BY DEF Save, Phase
<1>3. cause'.step \in 0..Len(p.steps) /\ cause'.canceled \in BOOLEAN
  <2>1. Len(plan.steps) \in Nat /\ Len(p.steps) \in Nat
    BY <1>1, LenProperties DEF TypeOK, PlanOK, Plan
  <2>2. cause.step \in 0..Len(plan.steps) /\ cause.canceled \in BOOLEAN
    BY <1>1 DEF TypeOK
  <2>3. \/ cause' = cause
        \/ cause' = [step |-> index, canceled |-> TRUE]
        \/ cause' = [step |-> index, canceled |-> FALSE]
    BY DEF Save
  <2>4. \A c : (\E k \in 0..Len(p.steps), b \in BOOLEAN : c = [step |-> k, canceled |-> b])
                => c.step \in 0..Len(p.steps) /\ c.canceled \in BOOLEAN
    OBVIOUS
  <2>5. CASE cause' = cause
    BY <2>1, <2>2, <2>5
  <2>6. CASE cause' # cause
    BY <2>3, <2>4, <2>6
  <2> QED BY <2>5, <2>6
<1>4. faults' \in 0..MaxFaults
  BY <1>1, PlanAssumption, SMTT(30) DEF Save, Fault, TypeOK
<1>5. /\ writes' \in Seq(OKPlan) /\ Len(writes') <= MaxWrites
      /\ ToSet(writes') \subseteq ToSet(writes) \cup {p}
  BY <1>1, LaterWrites DEF TypeOK, OKPlan
<1>6. \A q \in InUse' : q \in InUse \cup {p}
  BY <1>2, <1>5 DEF InUse
<1>7. \A q \in InUse' : Sound(q, answered', givenUp')
  BY <1>1, <1>6, SoundGrows
<1>8. PlanOK(stored')
  BY <1>1, <1>2 DEF TypeOK
<1> QED
  BY <1>1, <1>2, <1>3, <1>4, <1>5, <1>7, <1>8 DEF Phase, Saved

LEMMA StartPlanStep == ASSUME IInv, StartPlan PROVE IInv'
<1> DEFINE p == Start(plan)
<1>1. Sound(plan, answered, givenUp) /\ phase = "start" /\ plan \in InUse
  BY DEF IInv, InUse, StartPlan
<1>2. /\ Sound(p, answered, givenUp) /\ p.status = "running" /\ p.steps = plan.steps
      /\ \A s \in Step : Finished(plan.state[s]) => Finished(p.state[s])
  BY <1>1, StartSound
<1> HIDE DEF p
<1>3. /\ Save(p, "loop", 0) /\ answered' = answered /\ givenUp' = givenUp /\ writes' = writes
      /\ UNCHANGED <<outcome, replacement, replans, canceled, cancels, crashes>>
  BY DEF StartPlan, history, p
<1>4. Len(p.steps) \in Nat /\ 0 \in 0..Len(p.steps) /\ Len(plan.steps) <= Len(p.steps)
  BY <1>2, LenProperties DEF Sound, PlanOK, Plan
<1>5. Saved(p, "loop", 0)
  BY <1>2, <1>3, <1>4, SaveKeeps DEF Phase
<1>6. TypeOK'
  BY <1>3, <1>5 DEF IInv, TypeOK, Phase, OKPlan, Saved
<1>7. (Follows /\ BatchAgrees /\ CauseOK /\ OneFailed)'
  BY <1>2, <1>5 DEF Follows, BatchAgrees, CauseOK, OneFailed, Judging, Settling, Saved
<1>8. AnswersKept'
  <2>1. /\ answered \subseteq Step /\ phase' \notin {"idle"} \cup Judging /\ plan' = p
        /\ \A s \in answered : Finished(plan.state[s])
    BY <1>1, <1>5 DEF IInv, TypeOK, AnswersKept, Judging, Saved
  <2> QED BY <1>2, <1>3, <2>1 DEF AnswersKept
<1> QED
  BY <1>5, <1>6, <1>7, <1>8 DEF IInv, Saved

\* The next batch: steps of the plan that are pending and have what they need.
LEMMA BatchFacts ==
  ASSUME NEW p, PlanOK(p), Ready(p) # {}, NEW width \in Widths(p)
  PROVE  /\ Min(Ready(p)) \in 1..Len(p.steps) /\ p.state[p.steps[Min(Ready(p))]] = "pending"
         /\ p.steps[Min(Ready(p))] \in Step
         /\ Batch(p, width) # {} /\ Batch(p, width) \subseteq Steps(p)
         /\ \A s \in Batch(p, width) : s \in Step /\ p.state[s] = "pending" /\ Satisfied(p, s)
<1>1. p.steps \in Seq(Step) /\ Len(p.steps) \in Nat
  BY LenProperties DEF PlanOK, Plan
<1>2. Ready(p) \in SUBSET (1..Len(p.steps))
  BY DEF Ready
<1>3. \A i \in Ready(p) : /\ i \in 1..Len(p.steps) /\ p.steps[i] \in Step /\ p.steps[i] \in Steps(p)
                          /\ p.state[p.steps[i]] = "pending" /\ Satisfied(p, p.steps[i])
  <2>1. ASSUME NEW i \in Ready(p) PROVE p.steps[i] \in Step /\ p.steps[i] \in Steps(p)
    BY <1>1, <1>2, ElementOfSeq, StepsOf DEF Steps
  <2> QED BY <2>1 DEF Ready
<1>4. Min(Ready(p)) \in Ready(p)
  BY <1>1, <1>2, LeastPlace
<1>5. width \in Nat /\ 1 <= width
  BY PlanAssumption DEF Widths
<1>6. \E i \in Ready(p) : Rank(Ready(p), i) = 1
  <2>1. IsFiniteSet(Ready(p)) /\ Cardinality(Ready(p)) \in Nat
    BY <1>1, <1>2, RanksExhaust
  <2>2. Cardinality(Ready(p)) # 0
    BY <2>1, FS_EmptySet
  <2>3. 1 \in 1..Cardinality(Ready(p))
    BY <2>1, <2>2
  <2> QED BY <1>1, <1>2, <2>3, RanksExhaust
<1>7. Batch(p, width) # {}
  BY <1>5, <1>6 DEF Batch
<1>8. \A s \in Batch(p, width) : \E i \in Ready(p) : s = p.steps[i]
  BY DEF Batch
<1> QED
  BY <1>3, <1>4, <1>7, <1>8

LEMMA StartBatchStep == ASSUME IInv, StartBatch PROVE IInv'
<1>1. /\ Sound(plan, answered, givenUp) /\ PlanOK(plan) /\ plan.status # "done"
      /\ phase = "loop" /\ Ready(plan) # {}
      /\ \A s \in answered : s \in Step /\ Finished(plan.state[s])
  BY DEF IInv, InUse, StartBatch, Sound, Follows, AnswersKept, TypeOK, Judging
<1>2. PICK width \in Widths(plan) :
        LET batch == Batch(plan, width)
            p     == Mark(plan, batch, "running")
        IN  /\ Save(p, "batch", Min(Ready(plan)))
            /\ outcome' = [s \in Step |-> IF s \in batch THEN "run" ELSE "none"]
            /\ writes' = IF phase' = "batch" THEN Later(p) ELSE writes
  BY DEF StartBatch
<1> DEFINE batch == Batch(plan, width)
           p == Mark(plan, batch, "running")
           at == Min(Ready(plan))
<1>3. /\ Save(p, "batch", at) /\ answered' = answered /\ givenUp' = givenUp
      /\ outcome' = [s \in Step |-> IF s \in batch THEN "run" ELSE "none"]
      /\ writes' = IF phase' = "batch" THEN Later(p) ELSE writes
      /\ UNCHANGED <<replacement, replans, canceled, cancels, crashes>>
  BY <1>2 DEF StartBatch, history
<1>4. /\ batch \subseteq Steps(plan) /\ at \in 1..Len(plan.steps)
      /\ plan.steps[at] \in Step /\ plan.state[plan.steps[at]] = "pending"
      /\ \A s \in batch : s \in Step /\ plan.state[s] = "pending"
  BY <1>1, BatchFacts
<1>5. (\A s \in batch : s \notin answered) /\ plan.steps[at] \notin answered
  BY <1>1, <1>4 DEF Finished
<1> HIDE DEF batch, at
<1>6. /\ Sound(p, answered, givenUp) /\ p.status = plan.status /\ p.steps = plan.steps
      /\ \A s \in Step : p.state[s] = IF s \in batch THEN "running" ELSE plan.state[s]
  <2>1. batch \in SUBSET Steps(plan)
    BY <1>4
  <2> QED BY <1>1, <2>1, RunningSound
<1> HIDE DEF p
<1>7. Len(p.steps) \in Nat /\ at \in 0..Len(p.steps) /\ Len(plan.steps) <= Len(p.steps)
  BY <1>4, <1>6, LenProperties DEF Sound, PlanOK, Plan
<1>8. Saved(p, "batch", at)
  BY <1>3, <1>6, <1>7, SaveKeeps DEF Phase
<1>9. TypeOK'
  BY <1>3, <1>8 DEF IInv, TypeOK, Phase, OKPlan, Saved
<1>10. (Follows /\ BatchAgrees /\ CauseOK /\ OneFailed)'
  <2>1. plan' = p /\ live' = p /\ phase' \in {"batch", "error"} /\ (phase' = "error" => cause'.step = at)
    BY <1>8 DEF Saved
  <2>2. Follows' /\ OneFailed'
    BY <1>1, <1>6, <2>1 DEF Follows, OneFailed
  <2>3. BatchAgrees'
    BY <1>3, <1>6, <2>1 DEF BatchAgrees, Judging, Settling
  <2>4. CauseOK'
    BY <1>3, <1>5, <1>6, <2>1 DEF CauseOK
  <2> QED BY <2>2, <2>3, <2>4
<1>11. AnswersKept'
  <2>1. plan' = p /\ phase' # "idle"
    BY <1>8 DEF Saved
  <2>2. \A s \in answered : Finished(p.state[s])
    BY <1>1, <1>5, <1>6
  <2> QED BY <1>3, <2>1, <2>2 DEF AnswersKept
<1> QED
  BY <1>8, <1>9, <1>10, <1>11 DEF IInv, Saved

LEMMA JudgeStep == ASSUME IInv, Judge PROVE IInv'
<1> DEFINE oks == {s \in Step : outcome[s] = "ok"}
           p == Mark(plan, oks, "done")
<1>1. /\ Sound(plan, answered, givenUp) /\ PlanOK(plan) /\ plan.status # "done"
      /\ phase = "judge" /\ answered \subseteq Step
      /\ \A s \in answered : Finished(plan.state[s]) \/ outcome[s] = "ok"
      /\ \A s \in Step : /\ outcome[s] = "ok" => s \in answered /\ plan.state[s] = "running"
                         /\ outcome[s] \in {"run", "error", "canceled"} => plan.state[s] = "running"
  BY DEF IInv, InUse, Judge, Sound, Follows, AnswersKept, BatchAgrees, TypeOK, Judging
<1>2. /\ Save(p, "settle", 0) /\ answered' = answered /\ givenUp' = givenUp /\ writes' = writes
      /\ UNCHANGED <<outcome, replacement, replans, canceled, cancels, crashes>>
  BY DEF Judge, history
<1>3. oks \in SUBSET Steps(plan) /\ oks \subseteq answered
  BY <1>1 DEF PlanOK, Steps
<1> HIDE DEF oks
<1>4. /\ Sound(p, answered, givenUp) /\ p.status = plan.status /\ p.steps = plan.steps
      /\ \A s \in Step : p.state[s] = IF s \in oks THEN "done" ELSE plan.state[s]
  BY <1>1, <1>3, DoneSound
<1> HIDE DEF p
<1>5. Len(p.steps) \in Nat /\ 0 \in 0..Len(p.steps) /\ Len(plan.steps) <= Len(p.steps)
  BY <1>4, LenProperties DEF Sound, PlanOK, Plan
<1>6. Saved(p, "settle", 0)
  BY <1>2, <1>4, <1>5, SaveKeeps DEF Phase
<1>7. TypeOK'
  BY <1>2, <1>6 DEF IInv, TypeOK, Phase, OKPlan, Saved
<1>8. plan' = p /\ live' = p /\ phase' \in {"settle", "error"} /\ (phase' = "error" => cause'.step = 0)
  BY <1>6 DEF Saved
<1>9. Follows' /\ OneFailed' /\ CauseOK'
  BY <1>1, <1>4, <1>8 DEF Follows, OneFailed, CauseOK
<1>10. BatchAgrees'
  BY <1>1, <1>2, <1>4, <1>8 DEF BatchAgrees, Judging, Settling, oks
<1>11. AnswersKept'
  <2>1. \A s \in answered : Finished(p.state[s])
    BY <1>1, <1>4 DEF Finished, oks
  <2> QED BY <1>2, <1>8, <2>1 DEF AnswersKept
<1> QED
  BY <1>6, <1>7, <1>9, <1>10, <1>11 DEF IInv, Saved

\* The steps that failed are steps of the plan, still marked as running, and were not
\* answered.
LEMMA FailedFacts ==
  ASSUME IInv, phase \in Settling, Failed # {}
  PROVE  /\ Min(Failed) \in Failed
         /\ \A i \in Failed : /\ i \in 1..Len(plan.steps) /\ plan.steps[i] \in Steps(plan)
                              /\ plan.steps[i] \in Step
                              /\ plan.state[plan.steps[i]] = "running"
                              /\ plan.steps[i] \notin answered
<1>1. PlanOK(plan) /\ plan.steps \in Seq(Step) /\ Len(plan.steps) \in Nat
  BY LenProperties DEF IInv, TypeOK, PlanOK, Plan
<1>2. Failed \in SUBSET (1..Len(plan.steps))
  BY DEF Failed
<1>3. Min(Failed) \in Failed
  BY <1>1, <1>2, LeastPlace
<1>4. ASSUME NEW i \in Failed
      PROVE  /\ i \in 1..Len(plan.steps) /\ plan.steps[i] \in Steps(plan)
             /\ plan.steps[i] \in Step
             /\ plan.state[plan.steps[i]] = "running"
             /\ plan.steps[i] \notin answered
  <2>1. i \in 1..Len(plan.steps) /\ plan.steps[i] \in Steps(plan) /\ plan.steps[i] \in Step
    BY <1>1, <1>2, ElementOfSeq, StepsOf DEF Steps
  <2>2. plan.state[plan.steps[i]] = "running"
    BY <2>1 DEF Failed, IInv, BatchAgrees
  <2>3. \A s \in answered : Finished(plan.state[s])
    BY DEF IInv, AnswersKept, Judging, Settling
  <2> QED BY <2>1, <2>2, <2>3 DEF Finished
<1> QED
  BY <1>3, <1>4

LEMMA BatchFailedStep == ASSUME IInv, BatchFailed PROVE IInv'
<1>1. /\ Sound(plan, answered, givenUp) /\ PlanOK(plan) /\ plan.status # "done"
      /\ phase = "settle" /\ TypeOK /\ live = plan
      /\ \A s \in answered : s \in Step /\ Finished(plan.state[s])
  BY DEF IInv, InUse, BatchFailed, Sound, Follows, AnswersKept, TypeOK, Judging
<1>2. Len(plan.steps) \in Nat /\ plan.steps \in Seq(Step)
  BY <1>1, LenProperties DEF PlanOK, Plan
<1>3. Failed # {}
  BY FS_EmptySet DEF BatchFailed
<1>4. /\ Min(Failed) \in Failed
      /\ \A i \in Failed : /\ i \in 1..Len(plan.steps) /\ plan.steps[i] \in Steps(plan)
                           /\ plan.steps[i] \in Step
                           /\ plan.state[plan.steps[i]] = "running"
                           /\ plan.steps[i] \notin answered
  BY <1>1, <1>3, FailedFacts DEF Settling
<1>5. CASE canceled
  <2>1. /\ phase' = "error" /\ cause' = WasCanceled
        /\ UNCHANGED <<plan, live, stored, faults, outcome, replacement, replans, canceled,
                       writes, answered, givenUp, cancels, crashes>>
    BY <1>5 DEF BatchFailed, history
  <2>2. cause'.step = Min(Failed) /\ cause'.canceled \in BOOLEAN
    BY <2>1 DEF WasCanceled
  <2>3. TypeOK'
    BY <1>1, <1>2, <1>4, <2>1, <2>2 DEF TypeOK
  <2>4. \A q \in InUse' : Sound(q, answered', givenUp')
    BY <1>1, <2>1 DEF InUse, IInv
  <2>5. Follows' /\ BatchAgrees' /\ OneFailed' /\ AnswersKept' /\ CauseOK'
    BY <1>1, <1>4, <2>1, <2>2
    DEF Follows, BatchAgrees, OneFailed, AnswersKept, CauseOK, Judging, Settling
  <2> QED
    BY <2>3, <2>4, <2>5 DEF IInv
<1>6. CASE ~canceled
  <2> DEFINE failed == {plan.steps[i] : i \in Failed}
             p == [Mark(plan, failed, "failed") EXCEPT !.status = "failed"]
  <2>1. /\ Save(p, "idle", Min(Failed)) /\ answered' = answered /\ givenUp' = givenUp
        /\ writes' = writes
        /\ UNCHANGED <<outcome, replacement, replans, canceled, cancels, crashes>>
    BY <1>6 DEF BatchFailed, history
  <2>2. failed \in SUBSET Steps(plan) /\ \A s \in failed : s \notin answered
    BY <1>4
  <2> HIDE DEF failed
  <2>3. /\ p \in Plan /\ p.status = "failed" /\ p.steps = plan.steps /\ p.tries = plan.tries
        /\ p.claimed = plan.claimed
        /\ \A s \in Step : p.state[s] = IF s \in failed THEN "failed" ELSE plan.state[s]
    BY <1>1 DEF PlanOK, Plan, Mark, PlanStatus, StepStatus
  <2> HIDE DEF p
  <2>4. Sound(p, answered, givenUp)
    <3>1. p.status # "done"
      BY <2>3
    <3>2. \A s \in Step : p.state[s] = plan.state[s]
                          \/ (s \in Steps(plan) /\ p.state[s] \in {"pending", "failed"})
      BY <2>2, <2>3
    <3> QED BY <1>1, <2>3, <3>1, <3>2, RemarkSound, Zenon
  <2>5. Saved(p, "idle", Min(Failed))
    <3>1. Min(Failed) \in 0..Len(p.steps) /\ Len(plan.steps) <= Len(p.steps)
      BY <1>2, <1>4, <2>3
    <3> QED BY <2>1, <2>4, <3>1, SaveKeeps DEF Phase
  <2>6. TypeOK'
    BY <2>1, <2>3, <2>5 DEF IInv, TypeOK, Phase, OKPlan, Saved
  <2>7. /\ plan' = p /\ live' = p /\ phase' \in {"idle", "error"}
        /\ phase' = "error" => cause'.step = Min(Failed)
    BY <2>5 DEF Saved
  <2>8. Follows' /\ OneFailed' /\ BatchAgrees'
    BY <2>7 DEF Follows, OneFailed, BatchAgrees, Judging, Settling
  <2>9. AnswersKept'
    <3>1. \A s \in answered : Finished(p.state[s])
      BY <1>1, <2>2, <2>3
    <3> QED BY <2>1, <2>7, <3>1 DEF AnswersKept
  <2>10. CauseOK'
    BY <1>4, <2>1, <2>3, <2>7 DEF CauseOK
  <2> QED
    BY <2>5, <2>6, <2>8, <2>9, <2>10 DEF IInv, Saved
<1> QED
  BY <1>5, <1>6

\* A single failure: the step is FirstFailed.
LEMMA StepFailedStep == ASSUME IInv, StepFailed PROVE IInv'
<1>1. /\ Sound(plan, answered, givenUp) /\ PlanOK(plan) /\ plan.status # "done"
      /\ phase = "settle" /\ TypeOK /\ live = plan
      /\ \A s \in answered : s \in Step /\ Finished(plan.state[s])
  BY DEF IInv, InUse, StepFailed, Sound, Follows, AnswersKept, TypeOK, Judging
<1>2. Len(plan.steps) \in Nat /\ plan.steps \in Seq(Step)
  BY <1>1, LenProperties DEF PlanOK, Plan
<1>3. Failed # {} /\ Cardinality(Failed) = 1
  BY FS_EmptySet DEF StepFailed
<1>4. /\ Min(Failed) \in 1..Len(plan.steps) /\ FirstFailed = plan.steps[Min(Failed)]
      /\ FirstFailed \in Steps(plan) /\ FirstFailed \in Step
      /\ plan.state[FirstFailed] = "running" /\ FirstFailed \notin answered
  BY <1>1, <1>3, FailedFacts DEF Settling, FirstFailed
<1>5. UNCHANGED <<outcome, replacement, replans, canceled, writes, answered, givenUp, cancels,
                  crashes>>
  BY DEF StepFailed, history
<1>6. CASE /\ CanRetry /\ Save(MarkStepRetry(plan, FirstFailed), "loop", Min(Failed))
  <2> DEFINE p == MarkStepRetry(plan, FirstFailed)
  <2>1. /\ Sound(p, answered, givenUp) /\ p.status = plan.status /\ p.steps = plan.steps
        /\ \A s \in Step : p.state[s] = IF s = FirstFailed THEN "pending" ELSE plan.state[s]
    BY <1>1, <1>4, <1>6, RetrySound DEF CanRetry
  <2> HIDE DEF p
  <2>2. Saved(p, "loop", Min(Failed))
    <3>1. /\ Min(Failed) \in 0..Len(p.steps) /\ Len(plan.steps) <= Len(p.steps)
          /\ Save(p, "loop", Min(Failed))
      BY <1>2, <1>4, <1>6, <2>1 DEF p
    <3> QED BY <1>5, <2>1, <3>1, SaveKeeps DEF Phase
  <2>3. TypeOK'
    BY <1>5, <2>1, <2>2 DEF IInv, TypeOK, Phase, OKPlan, Saved
  <2>4. /\ plan' = p /\ live' = p /\ phase' \in {"loop", "error"}
        /\ phase' = "error" => cause'.step = Min(Failed)
    BY <2>2 DEF Saved
  <2>5. Follows' /\ OneFailed' /\ BatchAgrees'
    BY <1>1, <2>1, <2>4 DEF Follows, OneFailed, BatchAgrees, Judging, Settling
  <2>6. AnswersKept'
    <3>1. \A s \in answered : Finished(p.state[s])
      BY <1>1, <1>4, <2>1
    <3> QED BY <1>5, <2>4, <3>1 DEF AnswersKept
  <2>7. CauseOK'
    BY <1>4, <1>5, <2>1, <2>4 DEF CauseOK
  <2> QED
    BY <2>2, <2>3, <2>5, <2>6, <2>7 DEF IInv, Saved
<1>7. CASE /\ ~CanRetry /\ CanRecover
           /\ phase' = "recover" /\ UNCHANGED <<plan, cause, live, stored, faults>>
  <2>1. TypeOK'
    BY <1>1, <1>5, <1>7 DEF TypeOK
  <2>2. \A q \in InUse' : Sound(q, answered', givenUp')
    BY <1>1, <1>5, <1>7 DEF InUse, IInv
  <2>3. Follows' /\ CauseOK' /\ AnswersKept'
    BY <1>1, <1>5, <1>7 DEF Follows, CauseOK, AnswersKept, Judging
  <2>4. BatchAgrees'
    BY <1>1, <1>5, <1>7 DEF IInv, BatchAgrees, Judging, Settling
  <2>5. OneFailed'
    BY <1>3, <1>5, <1>7 DEF OneFailed, Failed, CanRecover
  <2> QED
    BY <2>1, <2>2, <2>3, <2>4, <2>5 DEF IInv
<1>8. CASE /\ ~CanRetry /\ ~CanRecover
           /\ phase' = "error" /\ cause' = WasCanceled
           /\ UNCHANGED <<plan, live, stored, faults>>
  <2>1. cause'.step = Min(Failed) /\ cause'.canceled \in BOOLEAN
    BY <1>8 DEF WasCanceled
  <2>2. TypeOK'
    BY <1>1, <1>2, <1>4, <1>5, <1>8, <2>1 DEF TypeOK
  <2>3. \A q \in InUse' : Sound(q, answered', givenUp')
    BY <1>1, <1>5, <1>8 DEF InUse, IInv
  <2>4. Follows' /\ BatchAgrees' /\ OneFailed' /\ AnswersKept' /\ CauseOK'
    BY <1>1, <1>4, <1>5, <1>8, <2>1
    DEF Follows, BatchAgrees, OneFailed, AnswersKept, CauseOK, Judging, Settling
  <2> QED
    BY <2>2, <2>3, <2>4 DEF IInv
<1> QED
  BY <1>6, <1>7, <1>8 DEF StepFailed

LEMMA MergeStep == ASSUME IInv, Merge PROVE IInv'
<1> DEFINE p == MergeRecovery(plan, replacement, FirstFailed)
<1>1. /\ Sound(plan, answered, givenUp) /\ PlanOK(plan) /\ phase = "merge" /\ TypeOK
      /\ Cardinality(Failed) = 1 /\ replans < MaxReplans
      /\ \A s \in answered : s \in Step /\ Finished(plan.state[s])
  BY DEF IInv, InUse, Merge, Sound, OneFailed, AnswersKept, TypeOK, Judging
<1>2. Len(plan.steps) \in Nat /\ plan.steps \in Seq(Step) /\ replacement \in Seq(Step)
  BY <1>1, LenProperties DEF PlanOK, Plan, TypeOK
<1>3. Failed # {}
  BY <1>1, FS_EmptySet
<1>4. /\ Min(Failed) \in 1..Len(plan.steps) /\ FirstFailed = plan.steps[Min(Failed)]
      /\ FirstFailed \in Steps(plan) /\ FirstFailed \in Step
      /\ plan.state[FirstFailed] = "running" /\ FirstFailed \notin answered
  BY <1>1, <1>3, FailedFacts DEF Settling, FirstFailed
<1>5. /\ Save(p, "loop", Min(Failed)) /\ answered' = answered /\ writes' = writes
      /\ givenUp' = givenUp \cup {FirstFailed} /\ replans' = replans + 1
      /\ replacement' = <<>> /\ UNCHANGED <<outcome, canceled, cancels, crashes>>
  BY DEF Merge
<1>6. /\ Sound(p, answered, givenUp') /\ p.status = "running" /\ Len(plan.steps) <= Len(p.steps)
      /\ \A i \in 1..Len(plan.steps) : p.steps[i] = plan.steps[i]
      /\ \A s \in Steps(plan) :
           p.state[s] = IF s = FirstFailed THEN "skipped" ELSE plan.state[s]
  <2>1. givenUp \subseteq givenUp' /\ FirstFailed \in givenUp'
    BY <1>5
  <2>2. /\ Sound(plan, answered, givenUp) /\ givenUp \subseteq givenUp'
        /\ replacement \in Seq(Step) /\ FirstFailed \in Steps(plan) /\ FirstFailed \in givenUp'
    BY <1>1, <1>2, <1>4, <2>1
  <2>3. p = MergeRecovery(plan, replacement, FirstFailed)
    OBVIOUS
  <2> HIDE DEF FirstFailed, p
  <2>4. Merged(plan, p, FirstFailed, answered, givenUp')
    BY <2>2, <2>3, MergeSound
  <2> QED BY <2>4 DEF Merged
<1> HIDE DEF p
<1>7. Saved(p, "loop", Min(Failed))
  <2>1. Len(p.steps) \in Nat
    BY <1>6, LenProperties DEF Sound, PlanOK, Plan
  <2>2. Min(Failed) \in 0..Len(p.steps)
    BY <1>2, <1>4, <1>6, <2>1
  <2> QED BY <1>5, <1>6, <2>2, SaveKeeps DEF Phase
<1>8. TypeOK'
  <2>1. replans' \in 0..MaxReplans /\ givenUp' \subseteq Step /\ replacement' \in Seq(Step)
    BY <1>1, <1>4, <1>5, EmptySeq, PlanAssumption DEF TypeOK
  <2> QED BY <1>1, <1>5, <1>7, <2>1 DEF TypeOK, Phase, OKPlan, Saved
<1>9. /\ plan' = p /\ live' = p /\ phase' \in {"loop", "error"}
      /\ phase' = "error" => cause'.step = Min(Failed)
  BY <1>7 DEF Saved
<1>10. Follows' /\ OneFailed' /\ BatchAgrees'
  BY <1>6, <1>9 DEF Follows, OneFailed, BatchAgrees, Judging, Settling
<1>11. AnswersKept'
  <2>1. \A s \in answered : s \in Steps(plan) /\ s # FirstFailed
    BY <1>1, <1>4 DEF PlanOK, Steps, Finished
  <2>2. \A s \in answered : Finished(p.state[s])
    BY <1>1, <1>6, <2>1
  <2> QED BY <1>5, <1>9, <2>2 DEF AnswersKept
<1>12. CauseOK'
  BY <1>4, <1>5, <1>6, <1>9 DEF CauseOK
<1> QED
  BY <1>7, <1>8, <1>10, <1>11, <1>12 DEF IInv, Saved

LEMMA MarkDoneStep == ASSUME IInv, MarkDone PROVE IInv'
<1> DEFINE p == [plan EXCEPT !.status = "done"]
<1>1. /\ Sound(plan, answered, givenUp) /\ PlanOK(plan) /\ phase = "done"
      /\ Unfinished(plan) = {} /\ answered \subseteq Step
      /\ \A s \in answered : Finished(plan.state[s])
  BY DEF IInv, InUse, MarkDone, Sound, Follows, AnswersKept, TypeOK, Judging
<1>2. /\ Save(p, "idle", 0) /\ answered' = answered /\ givenUp' = givenUp /\ writes' = writes
      /\ UNCHANGED <<outcome, replacement, replans, canceled, cancels, crashes>>
  BY DEF MarkDone, history
<1>3. /\ p \in Plan /\ p.status = "done" /\ p.steps = plan.steps /\ p.state = plan.state
      /\ p.tries = plan.tries /\ p.claimed = plan.claimed
  BY <1>1 DEF PlanOK, Plan, PlanStatus
<1>4. \A s \in Steps(plan) : Finished(plan.state[s])
  <2>1. plan.steps \in Seq(Step)
    BY <1>1 DEF PlanOK, Plan
  <2>2. \A s \in Steps(plan) : \E i \in 1..Len(plan.steps) : plan.steps[i] = s
    BY <2>1, LenProperties DEF Steps, ToSet
  <2> QED BY <1>1, <2>2 DEF Unfinished
<1> HIDE DEF p
<1>5. Sound(p, answered, givenUp)
  BY <1>1, <1>3, <1>4 DEF Sound, PlanOK, Steps
<1>6. Len(p.steps) \in Nat /\ 0 \in 0..Len(p.steps) /\ Len(plan.steps) <= Len(p.steps)
  BY <1>3, LenProperties DEF Plan
<1>7. Saved(p, "idle", 0)
  BY <1>2, <1>5, <1>6, SaveKeeps DEF Phase
<1>8. TypeOK'
  BY <1>2, <1>7 DEF IInv, TypeOK, Phase, OKPlan, Saved
<1>9. plan' = p /\ live' = p /\ phase' \in {"idle", "error"} /\ (phase' = "error" => cause'.step = 0)
  BY <1>7 DEF Saved
<1>10. Follows' /\ OneFailed' /\ BatchAgrees' /\ CauseOK' /\ AnswersKept'
  BY <1>1, <1>2, <1>3, <1>9
  DEF Follows, OneFailed, BatchAgrees, CauseOK, AnswersKept, Judging, Settling
<1> QED
  BY <1>7, <1>8, <1>10 DEF IInv, Saved

\* The execution takes up the plan in memory.
LEMMA ExecuteStep == ASSUME IInv, Execute PROVE IInv'
<1>1. /\ TypeOK /\ Sound(live, answered, givenUp) /\ live.status # "done"
      /\ answered \subseteq Step /\ \A s \in answered : Finished(live.state[s])
  BY DEF IInv, InUse, Execute, AnswersKept, TypeOK, IsExecutableStatus
<1>2. /\ plan' = live /\ phase' \in {"start", "approve"} /\ replans' = 0 /\ canceled' = FALSE
      /\ outcome' = [s \in Step |-> "none"] /\ cause' = NoError /\ replacement' = <<>>
      /\ UNCHANGED <<live, stored, writes, answered, givenUp, faults, cancels, crashes>>
  BY DEF Execute, NoOutcome, records, history, counters
<1>3. TypeOK'
  <2>1. cause'.step = 0 /\ cause'.canceled = FALSE /\ Len(live.steps) \in Nat
    BY <1>1, <1>2, LenProperties DEF NoError, TypeOK, PlanOK, Plan
  <2>2. replacement' \in Seq(Step) /\ replans' \in 0..MaxReplans /\ canceled' \in BOOLEAN
    <3>1. <<>> \in Seq(Step) /\ 0 \in 0..MaxReplans
      BY EmptySeq, PlanAssumption
    <3> QED BY <1>2, <3>1
  <2>3. outcome' \in [Step -> {"none", "run", "ok", "error", "canceled"}]
    BY <1>2
  <2>4. PlanOK(plan') /\ PlanOK(live') /\ PlanOK(stored')
    BY <1>1, <1>2 DEF TypeOK
  <2>5. 0 \in 0..Len(live.steps) /\ FALSE \in BOOLEAN
    BY <2>1
  <2>6. cause'.step \in 0..Len(plan'.steps) /\ cause'.canceled \in BOOLEAN
    BY <1>2, <2>1, <2>5, Zenon
  <2> QED BY <1>1, <1>2, <2>2, <2>3, <2>4, <2>6 DEF TypeOK
<1>4. \A q \in InUse' : Sound(q, answered', givenUp')
  BY <1>2 DEF InUse, IInv
<1>5. Follows' /\ OneFailed' /\ BatchAgrees' /\ CauseOK' /\ AnswersKept'
  BY <1>1, <1>2
  DEF Follows, OneFailed, BatchAgrees, CauseOK, AnswersKept, Judging, Settling
<1> QED
  BY <1>3, <1>4, <1>5 DEF IInv

LEMMA ApproveStep == ASSUME IInv, Approve PROVE IInv'
<1> DEFINE p == [plan EXCEPT !.status = "approved"]
<1>1. /\ TypeOK /\ Sound(plan, answered, givenUp) /\ PlanOK(plan) /\ phase = "approve"
      /\ answered \subseteq Step /\ \A s \in answered : Finished(plan.state[s])
  BY DEF IInv, InUse, Approve, AnswersKept, TypeOK, Judging
<1>2. /\ plan' = p /\ live' = p /\ stored' \in {stored, p} /\ phase' \in {"start", "idle"}
      /\ faults' \in 0..MaxFaults
      /\ UNCHANGED <<outcome, cause, replacement, replans, canceled, writes, answered, givenUp,
                     cancels, crashes>>
  <2>1. /\ plan' = p /\ live' = p /\ stored' \in {stored, p} /\ phase' \in {"start", "idle"}
        /\ faults' = faults \/ Fault
        /\ UNCHANGED <<outcome, cause, replacement, replans, canceled, writes, answered, givenUp,
                       cancels, crashes>>
    BY DEF Approve, history
  <2>2. faults' \in 0..MaxFaults
    BY <1>1, <2>1, PlanAssumption, SMTT(30) DEF Fault, TypeOK
  <2> QED BY <2>1, <2>2
<1>3. /\ Sound(p, answered, givenUp) /\ p.status = "approved" /\ p.steps = plan.steps
      /\ p.state = plan.state
  BY <1>1, StatusSound DEF PlanStatus
<1> HIDE DEF p
<1>4. TypeOK'
  BY <1>1, <1>2, <1>3 DEF TypeOK, Sound
<1>5. \A q \in InUse' : Sound(q, answered', givenUp')
  BY <1>2, <1>3 DEF InUse, IInv
<1>6. Follows' /\ OneFailed' /\ BatchAgrees' /\ CauseOK' /\ AnswersKept'
  BY <1>1, <1>2, <1>3
  DEF Follows, OneFailed, BatchAgrees, CauseOK, AnswersKept, Judging, Settling
<1> QED
  BY <1>4, <1>5, <1>6 DEF IInv

LEMMA LeaveLoopStep == ASSUME IInv, LeaveLoop PROVE IInv'
<1>1. /\ TypeOK /\ PlanOK(plan) /\ phase = "loop" /\ live = plan /\ plan.status # "done"
      /\ \A s \in answered : s \in Step /\ Finished(plan.state[s])
  BY DEF IInv, InUse, LeaveLoop, AnswersKept, TypeOK, Judging, Follows
<1>2. Len(plan.steps) \in Nat /\ Unfinished(plan) \in SUBSET (1..Len(plan.steps))
  BY <1>1, LenProperties DEF PlanOK, Plan, Unfinished
<1>3. /\ phase' = "error" => \/ cause' = [step |-> 0, canceled |-> TRUE]
                             \/ /\ cause' = [step |-> Min(Unfinished(plan)), canceled |-> FALSE]
                                /\ Unfinished(plan) # {}
      /\ phase' = "done" => cause' = cause /\ Unfinished(plan) = {}
      /\ phase' \in {"error", "done"}
      /\ UNCHANGED <<plan, outcome, replacement, replans, canceled, live, stored, writes,
                     answered, givenUp, faults, cancels, crashes>>
  BY DEF LeaveLoop, records, history, counters
<1>4. Unfinished(plan) # {} => /\ Min(Unfinished(plan)) \in 1..Len(plan.steps)
                               /\ plan.steps[Min(Unfinished(plan))] \notin answered
  <2>1. Unfinished(plan) # {} => Min(Unfinished(plan)) \in Unfinished(plan)
    BY <1>2, LeastPlace
  <2> QED BY <1>1, <2>1 DEF Unfinished
<1>5. /\ cause'.step \in 0..Len(plan.steps) /\ cause'.canceled \in BOOLEAN
      /\ phase' = "error" => cause'.step = 0 \/ plan.steps[cause'.step] \notin answered
  <2>1. CASE phase' = "done"
    BY <1>1, <1>3, <2>1 DEF TypeOK
  <2>2. CASE cause' = [step |-> 0, canceled |-> TRUE]
    BY <1>2, <2>2
  <2>3. CASE cause' = [step |-> Min(Unfinished(plan)), canceled |-> FALSE] /\ Unfinished(plan) # {}
    BY <1>2, <1>4, <2>3
  <2> QED BY <1>3, <2>1, <2>2, <2>3
<1>6. TypeOK'
  BY <1>1, <1>3, <1>5 DEF TypeOK
<1>7. \A q \in InUse' : Sound(q, answered', givenUp')
  BY <1>1, <1>3 DEF InUse, IInv
<1>8. Follows' /\ OneFailed' /\ BatchAgrees' /\ CauseOK' /\ AnswersKept'
  BY <1>1, <1>3, <1>5
  DEF Follows, OneFailed, BatchAgrees, CauseOK, AnswersKept, Judging, Settling
<1> QED
  BY <1>6, <1>7, <1>8 DEF IInv

LEMMA StepEndsStep == ASSUME IInv, NEW s \in Step, StepEnds(s) PROVE IInv'
<1>1. /\ TypeOK /\ PlanOK(plan) /\ Sound(plan, answered, givenUp) /\ phase = "batch"
      /\ live = plan /\ plan.status # "done" /\ outcome[s] = "run"
      /\ outcome \in [Step -> {"none", "run", "ok", "error", "canceled"}]
      /\ \A t \in answered : t \in Step /\ (Finished(plan.state[t]) \/ outcome[t] = "ok")
      /\ \A t \in Step :
           /\ outcome[t] \in {"run", "error", "canceled"} => plan.state[t] = "running"
           /\ outcome[t] = "ok" => t \in answered /\ plan.state[t] = "running"
  BY DEF IInv, InUse, StepEnds, AnswersKept, BatchAgrees, TypeOK, Judging, Follows
<1>2. /\ phase' \in Judging
      /\ UNCHANGED <<plan, cause, replacement, replans, canceled, live, stored, givenUp,
                     cancels, crashes>>
      /\ \/ /\ outcome' = [outcome EXCEPT ![s] = "ok"] /\ answered' = answered \cup {s}
            /\ writes' = Later(plan) /\ faults' = faults
         \/ /\ outcome' = [outcome EXCEPT ![s] = "error"] /\ Fault
            /\ answered' = answered /\ writes' = writes
         \/ /\ outcome' = [outcome EXCEPT ![s] = "canceled"]
            /\ answered' = answered /\ writes' = writes /\ faults' = faults
  BY DEF StepEnds, Judging
<1>3. /\ writes' \in Seq(OKPlan) /\ Len(writes') <= MaxWrites
      /\ ToSet(writes') \subseteq ToSet(writes) \cup {plan}
  BY <1>1, <1>2, LaterWrites DEF TypeOK, OKPlan
<1>4. TypeOK'
  <2>1. faults \in 0..MaxFaults /\ (faults' = faults \/ Fault)
    BY <1>1, <1>2 DEF TypeOK
  <2>2. faults' \in 0..MaxFaults
    BY <2>1, PlanAssumption DEF Fault
  <2>3. outcome' \in [Step -> {"none", "run", "ok", "error", "canceled"}]
    BY <1>1, <1>2
  <2>4. phase' \in Phase /\ answered' \subseteq Step
    BY <1>1, <1>2 DEF TypeOK, Judging, Phase
  <2> QED BY <1>1, <1>2, <1>3, <2>2, <2>3, <2>4 DEF TypeOK, Phase, OKPlan
<1>5. \A q \in InUse' : Sound(q, answered', givenUp')
  <2>1. \A q \in InUse' : q \in InUse
    BY <1>1, <1>2, <1>3 DEF InUse
  <2>2. answered \subseteq answered' /\ givenUp \subseteq givenUp'
    BY <1>2
  <2> QED BY <2>1, <2>2, SoundGrows DEF IInv
<1>6. BatchAgrees' /\ AnswersKept'
  <2>1. /\ \A t \in answered' : Finished(plan.state[t]) \/ outcome'[t] = "ok"
        /\ \A t \in Step :
             /\ outcome'[t] \in {"run", "error", "canceled"} => plan.state[t] = "running"
             /\ outcome'[t] = "ok" => t \in answered' /\ plan.state[t] = "running"
    BY <1>1, <1>2
  <2> QED BY <1>2, <2>1 DEF BatchAgrees, AnswersKept, Judging
<1>7. Follows' /\ OneFailed' /\ CauseOK'
  BY <1>1, <1>2 DEF Follows, OneFailed, CauseOK, Judging
<1> QED
  BY <1>4, <1>5, <1>6, <1>7 DEF IInv

LEMMA BatchSucceededStep == ASSUME IInv, BatchSucceeded PROVE IInv'
<1>1. /\ phase = "settle" /\ phase' = "loop" /\ outcome' = [s \in Step |-> "none"]
      /\ UNCHANGED <<plan, cause, replacement, replans, canceled, live, stored, writes,
                     answered, givenUp, faults, cancels, crashes>>
  BY DEF BatchSucceeded, NoOutcome, records, history, counters
<1>2. TypeOK'
  BY <1>1 DEF IInv, TypeOK
<1>3. \A q \in InUse' : Sound(q, answered', givenUp')
  BY <1>1 DEF InUse, IInv
<1>4. Follows' /\ OneFailed' /\ BatchAgrees' /\ CauseOK' /\ AnswersKept'
  BY <1>1 DEF IInv, Follows, OneFailed, BatchAgrees, CauseOK, AnswersKept, Judging, Settling
<1> QED
  BY <1>2, <1>3, <1>4 DEF IInv

\* The planner of a recovery answers: its steps become the plan of the session.
LEMMA RecoverStep == ASSUME IInv, Recover PROVE IInv'
<1>1. /\ TypeOK /\ PlanOK(plan) /\ Sound(plan, answered, givenUp) /\ phase = "recover"
      /\ live = plan /\ plan.status # "done" /\ Cardinality(Failed) = 1 /\ replans < MaxReplans
      /\ \A s \in answered : s \in Step /\ Finished(plan.state[s])
  BY DEF IInv, InUse, Recover, Follows, OneFailed, AnswersKept, TypeOK, Judging
<1>2. UNCHANGED <<plan, outcome, replans, canceled, stored, writes, answered, givenUp, cancels,
                  crashes>>
  BY DEF Recover, history
<1>3. CASE phase' = "merge" /\ (\E r \in Replacements : replacement' = r /\ live' \in Captures(r))
           /\ cause' = cause /\ faults' = faults
  <2>1. PICK r \in Replacements : replacement' = r /\ live' \in Captures(r)
    BY <1>3
  <2>2. r \in Seq(Step)
    <3>1. PICK n \in 1..2 : r \in [1..n -> Step]
      BY DEF Replacements
    <3> QED BY <3>1, SeqDef
  <2>3. Sound(live', answered, givenUp) /\ PlanOK(live')
    BY <2>1, <2>2, CaptureSound DEF Sound
  <2>4. TypeOK'
    BY <1>1, <1>2, <1>3, <2>1, <2>2, <2>3 DEF TypeOK
  <2>5. \A q \in InUse' : Sound(q, answered', givenUp')
    BY <1>1, <1>2, <1>3, <2>3 DEF InUse, IInv
  <2>6. Follows' /\ AnswersKept' /\ CauseOK'
    BY <1>1, <1>2, <1>3 DEF Follows, AnswersKept, CauseOK, Judging
  <2>7. BatchAgrees'
    BY <1>1, <1>2, <1>3 DEF IInv, BatchAgrees, Judging, Settling
  <2>8. OneFailed'
    BY <1>1, <1>2 DEF OneFailed, Failed
  <2> QED BY <2>4, <2>5, <2>6, <2>7, <2>8 DEF IInv
<1>4. CASE phase' = "error" /\ cause' = WasCanceled /\ (faults' = faults \/ Fault)
           /\ replacement' = replacement /\ live' = live
  <2>1. Failed # {}
    BY <1>1, FS_EmptySet
  <2>2. Min(Failed) \in 1..Len(plan.steps) /\ plan.steps[Min(Failed)] \notin answered
    BY <1>1, <2>1, FailedFacts DEF Settling
  <2>3. cause'.step = Min(Failed) /\ cause'.canceled \in BOOLEAN
    BY <1>4 DEF WasCanceled
  <2>4. faults' \in 0..MaxFaults
    BY <1>1, <1>4, PlanAssumption, SMTT(30) DEF TypeOK, Fault
  <2>5. Len(plan.steps) \in Nat /\ cause'.step \in 0..Len(plan.steps)
    BY <1>1, <2>2, <2>3, LenProperties DEF PlanOK, Plan
  <2>6. TypeOK'
    BY <1>1, <1>2, <1>4, <2>3, <2>4, <2>5 DEF TypeOK
  <2>7. \A q \in InUse' : Sound(q, answered', givenUp')
    BY <1>1, <1>2, <1>4 DEF InUse, IInv
  <2>8. Follows' /\ BatchAgrees' /\ OneFailed' /\ AnswersKept' /\ CauseOK'
    BY <1>1, <1>2, <1>4, <2>2, <2>3
    DEF Follows, BatchAgrees, OneFailed, AnswersKept, CauseOK, Judging, Settling
  <2> QED BY <2>6, <2>7, <2>8 DEF IInv
<1> QED
  BY <1>3, <1>4 DEF Recover

\* The step the error is about becomes failed, or what was running pending again:
\* neither was answered.
LEMMA FinishWithErrorStep == ASSUME IInv, FinishWithError PROVE IInv'
<1> DEFINE p == IF cause.canceled THEN MarkCanceled(plan) ELSE MarkStepFailed(plan, cause.step)
<1>1. /\ TypeOK /\ PlanOK(plan) /\ Sound(plan, answered, givenUp) /\ phase = "error"
      /\ cause.step \in 0..Len(plan.steps)
      /\ cause.step = 0 \/ plan.steps[cause.step] \notin answered
      /\ \A s \in answered : s \in Step /\ Finished(plan.state[s])
  BY DEF IInv, InUse, FinishWithError, CauseOK, AnswersKept, TypeOK, Judging
<1>2. /\ plan' = p /\ live' = p /\ stored' \in {stored, p} /\ phase' = "idle"
      /\ cause' = NoError /\ (faults' = faults \/ Fault) /\ outcome' = [s \in Step |-> "none"]
      /\ UNCHANGED <<replacement, replans, canceled, writes, answered, givenUp, cancels,
                     crashes>>
  BY DEF FinishWithError, NoOutcome, history
<1>3. /\ Sound(p, answered, givenUp) /\ p.steps = plan.steps
      /\ \A s \in answered : Finished(p.state[s])
  <2>1. CASE cause.canceled
    BY <1>1, <2>1, CanceledSound DEF Finished
  <2>2. CASE ~cause.canceled
    BY <1>1, <2>2, FailedSound DEF Finished
  <2> QED BY <2>1, <2>2
<1> HIDE DEF p
<1>4. faults' \in 0..MaxFaults
  BY <1>1, <1>2, PlanAssumption, SMTT(30) DEF TypeOK, Fault
<1>5. cause'.step \in 0..Len(p.steps) /\ cause'.canceled \in BOOLEAN
  <2>1. Len(plan.steps) \in Nat
    BY <1>1, LenProperties DEF PlanOK, Plan
  <2> QED BY <1>2, <1>3, <2>1 DEF NoError
<1>6. TypeOK'
  BY <1>1, <1>2, <1>3, <1>4, <1>5 DEF TypeOK, Sound
<1>7. \A q \in InUse' : Sound(q, answered', givenUp')
  BY <1>2, <1>3 DEF InUse, IInv
<1>8. Follows' /\ BatchAgrees' /\ OneFailed' /\ AnswersKept' /\ CauseOK'
  BY <1>2, <1>3 DEF Follows, BatchAgrees, OneFailed, AnswersKept, CauseOK, Judging, Settling
<1> QED
  BY <1>6, <1>7, <1>8 DEF IInv

LEMMA CancelStep == ASSUME IInv, Cancel PROVE IInv'
<1>1. /\ canceled' = TRUE /\ cancels < MaxCancels /\ cancels' = cancels + 1
      /\ UNCHANGED <<plan, phase, outcome, cause, replacement, replans, live, stored, writes,
                     answered, givenUp, faults, crashes>>
  BY DEF Cancel, records, history
<1>2. TypeOK'
  BY <1>1, PlanAssumption DEF IInv, TypeOK
<1>3. \A q \in InUse' : Sound(q, answered', givenUp')
  BY <1>1 DEF InUse, IInv
<1>4. Follows' /\ BatchAgrees' /\ OneFailed' /\ AnswersKept' /\ CauseOK'
  BY <1>1 DEF IInv, Follows, BatchAgrees, OneFailed, AnswersKept, CauseOK, Judging, Settling,
              Failed
<1> QED
  BY <1>2, <1>3, <1>4 DEF IInv

\* A copy that waited replaces what is stored.
LEMMA FlushWriteStep == ASSUME IInv, FlushWrite PROVE IInv'
<1>1. /\ writes # <<>> /\ writes' = Tail(writes) /\ stored' \in {stored, Head(writes)}
      /\ faults' = faults \/ Fault
      /\ UNCHANGED <<plan, phase, outcome, cause, replacement, replans, canceled, live, answered,
                     givenUp, cancels, crashes>>
  BY DEF FlushWrite, execution, history
<1>2. TypeOK /\ writes \in Seq(OKPlan)
  BY DEF IInv, TypeOK, OKPlan
<1>3. /\ Head(writes) \in ToSet(writes) /\ PlanOK(Head(writes))
      /\ writes' \in Seq(OKPlan) /\ Len(writes') <= MaxWrites
      /\ ToSet(writes') \subseteq ToSet(writes)
  <2>1. /\ Head(writes) = writes[1] /\ Head(writes) \in OKPlan
        /\ Tail(writes) \in Seq(OKPlan) /\ Len(Tail(writes)) = Len(writes) - 1
        /\ \A i \in 1..Len(Tail(writes)) : Tail(writes)[i] = writes[i + 1]
    BY <1>1, <1>2, HeadTailProperties
  <2>2. Len(writes) \in Nat /\ Len(writes) # 0 /\ DOMAIN writes = 1..Len(writes)
    BY <1>1, <1>2, EmptySeq, LenProperties
  <2>3. DOMAIN Tail(writes) = 1..(Len(writes) - 1)
    BY <2>1, LenProperties
  <2>4. \A i \in 1..(Len(writes) - 1) : i + 1 \in 1..Len(writes) /\ Tail(writes)[i] = writes[i + 1]
    BY <2>1, <2>2
  <2>5. ToSet(Tail(writes)) \subseteq ToSet(writes)
    BY <2>2, <2>3, <2>4 DEF ToSet
  <2>6. Len(Tail(writes)) <= MaxWrites
    BY <1>2, <2>1, <2>2, PlanAssumption DEF TypeOK
  <2> QED BY <1>1, <2>1, <2>2, <2>5, <2>6, StepsOf, <1>2 DEF OKPlan
<1>4. faults' \in 0..MaxFaults
  <2>1. faults' = faults \/ Fault
    BY DEF FlushWrite
  <2>2. faults \in 0..MaxFaults /\ MaxFaults \in Nat
    BY <1>2, PlanAssumption DEF TypeOK
  <2> QED BY <2>1, <2>2, SMTT(30) DEF Fault
<1>5. UNCHANGED <<plan, phase, outcome, cause, replacement, replans, canceled, live, answered,
                  givenUp, cancels, crashes>> /\ stored' \in {stored, Head(writes)}
  BY DEF FlushWrite, execution, history
<1>6. TypeOK'
  BY <1>2, <1>3, <1>4, <1>5 DEF TypeOK, OKPlan
<1>7. \A q \in InUse' : Sound(q, answered', givenUp')
  <2>1. \A q \in InUse' : q \in InUse
    BY <1>3, <1>5 DEF InUse
  <2> QED BY <1>5, <2>1 DEF IInv
<1>8. Follows' /\ BatchAgrees' /\ OneFailed' /\ AnswersKept' /\ CauseOK'
  BY <1>5 DEF IInv, Follows, BatchAgrees, OneFailed, AnswersKept, CauseOK, Judging, Settling,
              Failed
<1> QED
  BY <1>6, <1>7, <1>8 DEF IInv

\* The next life knows of the answers that the stored plan tells of.
LEMMA CrashStep == ASSUME IInv, Crash PROVE IInv'
<1>1. /\ phase' = "idle" /\ cause' = NoError /\ canceled' = FALSE /\ live' = stored
      /\ writes' = <<>> /\ answered' = {s \in answered : stored.state[s] = "done"}
      /\ crashes < MaxCrashes /\ crashes' = crashes + 1
      /\ replacement' = <<>> /\ outcome' = [s \in Step |-> "none"] /\ replans' = 0
      /\ UNCHANGED <<plan, stored, givenUp, faults, cancels>>
  BY DEF Crash, NoOutcome
<1>2. TypeOK /\ Sound(stored, answered, givenUp) /\ PlanOK(plan)
  BY DEF IInv, InUse, TypeOK
<1>3. Sound(stored, answered', givenUp')
  BY <1>1, <1>2 DEF Sound
<1>4. <<>> \in Seq(OKPlan) /\ Len(<<>>) = 0 /\ ToSet(<<>>) = {}
  BY EmptySeq DEF ToSet
<1>5. writes' \in Seq(OKPlan) /\ Len(writes') <= MaxWrites /\ ToSet(writes') = {}
  BY <1>1, <1>4, PlanAssumption
<1>6. cause'.step \in 0..Len(plan.steps) /\ cause'.canceled \in BOOLEAN
  <2>1. Len(plan.steps) \in Nat
    BY <1>2, LenProperties DEF PlanOK, Plan
  <2> QED BY <1>1, <2>1 DEF NoError
<1>7. TypeOK'
  <2>1. crashes \in 0..MaxCrashes /\ crashes < MaxCrashes /\ crashes' = crashes + 1
    BY <1>1, <1>2 DEF TypeOK
  <2>2. crashes' \in 0..MaxCrashes
    BY <2>1, PlanAssumption
  <2>3. canceled' \in BOOLEAN /\ answered' \subseteq Step
    BY <1>1, <1>2 DEF TypeOK
  <2>4. replacement' \in Seq(Step) /\ replans' \in 0..MaxReplans
    BY <1>1, EmptySeq, PlanAssumption
  <2> QED BY <1>1, <1>2, <1>5, <1>6, <2>2, <2>3, <2>4 DEF TypeOK, OKPlan
<1>8. \A q \in InUse' : Sound(q, answered', givenUp')
  BY <1>1, <1>3, <1>5 DEF InUse
<1>9. Follows' /\ BatchAgrees' /\ OneFailed' /\ AnswersKept' /\ CauseOK'
  BY <1>1 DEF Follows, BatchAgrees, OneFailed, AnswersKept, CauseOK, Judging, Settling, Finished
<1> QED
  BY <1>7, <1>8, <1>9 DEF IInv

LEMMA InitInv == ASSUME Init PROVE IInv
<1>1. /\ plan \in Captures(First) /\ live = plan /\ stored = plan /\ phase = "idle"
      /\ outcome = [s \in Step |-> "none"] /\ cause = NoError /\ replacement = <<>>
      /\ replans = 0 /\ canceled = FALSE /\ writes = <<>> /\ answered = {} /\ givenUp = {}
      /\ faults = 0 /\ cancels = 0 /\ crashes = 0
  BY DEF Init, NoOutcome
<1>2. First \in Seq(Step)
  BY PlanAssumption
<1>3. Sound(plan, answered, givenUp) /\ PlanOK(plan)
  BY <1>1, <1>2, CaptureSound DEF Sound
<1>4. <<>> \in Seq(OKPlan) /\ Len(<<>>) = 0 /\ ToSet(<<>>) = {} /\ <<>> \in Seq(Step)
  BY EmptySeq DEF ToSet
<1>5. /\ writes \in Seq(OKPlan) /\ Len(writes) <= MaxWrites /\ ToSet(writes) = {}
      /\ replacement \in Seq(Step)
  BY <1>1, <1>4, PlanAssumption
<1>6. cause.step \in 0..Len(plan.steps) /\ cause.canceled \in BOOLEAN
  <2>1. Len(plan.steps) \in Nat
    BY <1>3, LenProperties DEF PlanOK, Plan
  <2> QED BY <1>1, <2>1 DEF NoError
<1>7. outcome \in [Step -> {"none", "run", "ok", "error", "canceled"}]
  BY <1>1
<1>8. TypeOK
  <2>1. /\ replans \in 0..MaxReplans /\ faults \in 0..MaxFaults /\ cancels \in 0..MaxCancels
        /\ crashes \in 0..MaxCrashes
    BY <1>1, PlanAssumption
  <2>2. PlanOK(live) /\ PlanOK(stored)
    BY <1>1, <1>3
  <2>3. phase = "idle" /\ canceled \in BOOLEAN /\ answered \subseteq Step /\ givenUp \subseteq Step
    BY <1>1
  <2> QED BY <1>3, <1>5, <1>6, <1>7, <2>1, <2>2, <2>3 DEF TypeOK, OKPlan
<1>9. \A q \in InUse : Sound(q, answered, givenUp)
  BY <1>1, <1>3, <1>5 DEF InUse
<1>10. Follows /\ BatchAgrees /\ OneFailed /\ AnswersKept /\ CauseOK
  BY <1>1 DEF Follows, BatchAgrees, OneFailed, AnswersKept, CauseOK, Judging, Settling
<1> QED
  BY <1>8, <1>9, <1>10 DEF IInv

LEMMA StutterStep == ASSUME IInv, UNCHANGED vars PROVE IInv'
BY DEF IInv, TypeOK, InUse, Follows, BatchAgrees, AnswersKept, CauseOK, OneFailed, Failed,
       Unfinished, vars, execution, records, history, counters

LEMMA Inductive == ASSUME IInv, [Next]_vars PROVE IInv'
<1>1. CASE Process
  BY <1>1, ApproveStep, StartPlanStep, LeaveLoopStep, StartBatchStep, StepEndsStep, JudgeStep,
     BatchSucceededStep, BatchFailedStep, StepFailedStep, RecoverStep, MergeStep, MarkDoneStep,
     FinishWithErrorStep DEF Process
<1> QED
  BY <1>1, ExecuteStep, CancelStep, FlushWriteStep, CrashStep, StutterStep DEF Next

LEMMA Invariant == Spec => []IInv
<1>1. Init => IInv
  BY InitInv
<1>2. IInv /\ [Next]_vars => IInv'
  BY Inductive
<1> QED
  BY <1>1, <1>2, PTL DEF Spec

-----------------------------------------------------------------------------
(* The properties.                                                         *)

(* Every plan of the session, the one in memory, the stored one and the copies that
   wait, has a status for exactly the steps that are part of it and no step is retried
   more often than it may (plan.go, state_service.go). *)
THEOREM TypeCorrect == Spec => []TypeOK
<1>1. IInv => TypeOK
  BY DEF IInv
<1> QED
  BY <1>1, Invariant, PTL

(* Each step of a plan that says it is done was answered, or a recovery took its place, or
   it was captured as finished with this plan (execution_service.go:151-263,
   state_service.go:20-35). *)
THEOREM DoneIsEarned == Spec => []HonestDone
<1>1. ASSUME IInv PROVE HonestDone
  <2> SUFFICES ASSUME NEW p \in {live, stored}, p.status = "done", NEW s \in Steps(p)
               PROVE  Finished(p.state[s]) /\ s \in Accounted(p)
    BY DEF HonestDone
  <2>1. Sound(p, answered, givenUp)
    BY <1>1 DEF IInv, InUse
  <2>2. s \in Step
    BY <2>1, StepsOf DEF Sound, PlanOK, Plan, Steps
  <2> QED BY <2>1, <2>2 DEF Sound, Finished, Accounted
<1> QED
  BY <1>1, Invariant, PTL

\* What begins in the loop is a batch: steps that are pending and have what they need.
LEMMA BegunFacts ==
  ASSUME IInv, [Next]_vars, phase = "loop", NEW s \in Begun
  PROVE  plan.state[s] = "pending" /\ Satisfied(plan, s)
<1>1. s \in Step /\ plan' # plan
  BY DEF Begun
<1>2. CASE StartBatch
  <2>1. PICK width \in Widths(plan) : plan' = Mark(plan, Batch(plan, width), "running")
    BY <1>2 DEF StartBatch, Save
  <2>2. PlanOK(plan) /\ Ready(plan) # {}
    BY <1>2 DEF IInv, TypeOK, StartBatch
  <2>3. \A t \in Batch(plan, width) : plan.state[t] = "pending" /\ Satisfied(plan, t)
    BY <2>2, BatchFacts
  <2>4. plan'.state[s] = IF s \in Batch(plan, width) THEN "running" ELSE plan.state[s]
    BY <1>1, <2>1, <2>2 DEF PlanOK, Plan, Mark
  <2> QED BY <2>3, <2>4 DEF Begun
<1>3. CASE ~StartBatch
  BY <1>1, <1>3
  DEF Next, Process, Approve, StartPlan, LeaveLoop, StepEnds, Judge, BatchSucceeded, BatchFailed,
      StepFailed, Recover, Merge, MarkDone, FinishWithError, Execute, Cancel, FlushWrite, Crash,
      vars, execution
<1> QED
  BY <1>2, <1>3

\* What a reference that some step may be meant by means is a step.
LEMMA MeantStep ==
  ASSUME NEW p, PlanOK(p), NEW ref, Matches(p, ref) # {}
  PROVE  Meant(p, ref) \in Step
<1>1. p.steps \in Seq(Step) /\ Len(p.steps) \in Nat
  BY LenProperties DEF PlanOK, Plan
<1>2. Matches(p, ref) \in SUBSET (1..Len(p.steps))
  BY DEF Matches
<1>3. Min(Matches(p, ref)) \in 1..Len(p.steps)
  BY <1>1, <1>2, LeastPlace
<1> QED
  BY <1>1, <1>3, ElementOfSeq DEF Meant

(* A step begins only when each of its references means a step of the plan that was
   answered, given up for a recovery or captured as finished
   (execution_service.go:486-521). *)
THEOREM NothingBeginsEarly == Spec => DependenciesFirst
<1>1. ASSUME IInv, [Next]_vars, phase = "loop", NEW s \in Begun, NEW ref \in Needs[s]
      PROVE  Matches(plan, ref) # {} /\ Meant(plan, ref) \in Accounted(plan)
  <2>1. Sound(plan, answered, givenUp) /\ PlanOK(plan)
    BY <1>1 DEF IInv, InUse, TypeOK
  <2>2. Matches(plan, ref) # {} /\ Finished(plan.state[Meant(plan, ref)])
    BY <1>1, BegunFacts DEF Satisfied
  <2>3. Meant(plan, ref) \in Step
    BY <2>1, <2>2, MeantStep
  <2> QED BY <2>1, <2>2, <2>3 DEF Sound, Finished, Accounted
<1>2. IInv /\ [Next]_vars =>
        (phase = "loop" =>
           \A s \in Begun : \A ref \in Needs[s] :
             Matches(plan, ref) # {} /\ Meant(plan, ref) \in Accounted(plan))
  BY <1>1
<1> QED
  BY <1>2, Invariant, PTL DEF Spec, DependenciesFirst

(* A step that was answered is not executed again in the same life of the process
   (state_service.go:20-35). *)
THEOREM NothingBeginsTwice == Spec => DoneOnce
<1>1. ASSUME IInv, [Next]_vars, phase = "loop" PROVE Begun \cap answered = {}
  <2>1. \A s \in answered : Finished(plan.state[s])
    BY <1>1 DEF IInv, AnswersKept, Judging
  <2>2. \A s \in Begun : plan.state[s] = "pending"
    BY <1>1, BegunFacts
  <2> QED BY <2>1, <2>2 DEF Finished
<1>2. IInv /\ [Next]_vars => (phase = "loop" => Begun \cap answered = {})
  BY <1>1
<1> QED
  BY <1>2, Invariant, PTL DEF Spec, DoneOnce

-----------------------------------------------------------------------------
(* An execution gets on.                                                    *)

\* A batch has steps, and it is judged when no turn is left.
Judged ==
  phase \in Judging =>
    (\E s \in Step : outcome[s] # "none") /\ (phase = "judge" => Running = {})

LEMMA JudgedStep == ASSUME IInv, Judged, [Next]_vars PROVE Judged'
<1>1. CASE StartBatch
  <2>1. PlanOK(plan) /\ Ready(plan) # {}
    BY <1>1 DEF IInv, TypeOK, StartBatch
  <2>2. PICK width \in Widths(plan) :
          /\ phase' \in {"batch", "error"}
          /\ outcome' = [s \in Step |-> IF s \in Batch(plan, width) THEN "run" ELSE "none"]
    BY <1>1 DEF StartBatch, Save
  <2>3. PICK s \in Batch(plan, width) : s \in Step
    BY <2>1, BatchFacts
  <2>4. outcome'[s] # "none"
    BY <2>2, <2>3
  <2> QED BY <2>2, <2>3, <2>4 DEF Judged, Judging
<1>2. ASSUME NEW s \in Step, StepEnds(s) PROVE Judged'
  <2>1. outcome \in [Step -> {"none", "run", "ok", "error", "canceled"}]
    BY DEF IInv, TypeOK
  <2>2. outcome'[s] # "none" /\ (phase' = "judge" => \A t \in Step : outcome'[t] # "run")
    BY <1>2, <2>1 DEF StepEnds
  <2> QED BY <2>2 DEF Judged, Running
<1>3. CASE ~StartBatch /\ ~\E s \in Step : StepEnds(s)
  <2>1. phase' \notin Judging \/ UNCHANGED <<phase, outcome>>
    BY <1>3
    DEF Next, Process, Approve, StartPlan, LeaveLoop, Judge, BatchSucceeded, BatchFailed,
        StepFailed, Recover, Merge, MarkDone, FinishWithError, Execute, Cancel, FlushWrite, Crash,
        Save, Judging, vars, execution
  <2> QED BY <2>1 DEF Judged, Running
<1> QED
  BY <1>1, <1>2, <1>3

LEMMA InvariantJudged == Spec => [](IInv /\ Judged)
<1>1. Init => IInv /\ Judged
  <2>1. Init => Judged
    BY DEF Init, Judged, Judging
  <2> QED BY <2>1, InitInv
<1>2. IInv /\ Judged /\ [Next]_vars => (IInv /\ Judged)'
  BY Inductive, JudgedStep
<1> QED
  BY <1>1, <1>2, PTL DEF Spec

\* A step that goes on in the loop with the same steps of the plan over.
LEMMA LoopGoesOn ==
  ASSUME Ending' = Ending, replans' = replans, plan'.steps = plan.steps,
         plan'.tries = plan.tries, Over' = Over, Place' > Place
  PROVE  Advances
BY DEF Advances

LEMMA SaveAdvances ==
  ASSUME NEW p, NEW next \in Phase, NEW index, Save(p, next, index)
  PROVE  /\ plan' = p /\ phase' \in {next, "error"}
         /\ phase' = "error" /\ phase \notin {"error", "idle"} => Advances
BY DEF Save, Advances, Ending

LEMMA ApproveAdvances == ASSUME IInv, Approve PROVE Advances
<1>1. /\ phase = "approve" /\ phase' \in {"start", "idle"} /\ replans' = replans
      /\ plan' = [plan EXCEPT !.status = "approved"]
  BY DEF Approve
<1>2. CASE phase' = "idle"
  BY <1>1, <1>2 DEF Advances, Ending
<1>3. CASE phase' = "start"
  <2>1. Ending' = Ending /\ Place' > Place
    BY <1>1, <1>3 DEF Ending, Place
  <2>2. /\ plan'.steps = plan.steps /\ plan'.tries = plan.tries /\ plan'.state = plan.state
    BY <1>1 DEF IInv, TypeOK, PlanOK, Plan
  <2> QED BY <1>1, <2>1, <2>2, LoopGoesOn DEF Over, Steps
<1> QED
  BY <1>1, <1>2, <1>3

LEMMA StartPlanAdvances == ASSUME IInv, StartPlan PROVE Advances
<1>1. phase = "start" /\ Save(Start(plan), "loop", 0) /\ replans' = replans
  BY DEF StartPlan
<1>2. plan' = Start(plan) /\ phase' \in {"loop", "error"} /\ (phase' = "error" => Advances)
  BY <1>1, SaveAdvances DEF Phase
<1>3. CASE phase' = "loop"
  <2>1. Ending' = Ending /\ Place' > Place
    BY <1>1, <1>3 DEF Ending, Place
  <2>2. /\ plan'.steps = plan.steps /\ plan'.tries = plan.tries
        /\ plan'.state = [s \in Step |-> IF s \in Steps(plan) /\ ~Finished(plan.state[s])
                                         THEN "pending" ELSE plan.state[s]]
    BY <1>2 DEF Start, IInv, TypeOK, PlanOK, Plan
  <2>3. Steps(plan) \subseteq Step
    BY DEF IInv, TypeOK, PlanOK, Plan, Steps, ToSet
  <2>4. \A s \in Steps(plan) : Finished(plan'.state[s]) <=> Finished(plan.state[s])
    BY <2>2, <2>3 DEF Finished
  <2> QED BY <1>1, <2>1, <2>2, <2>4, LoopGoesOn DEF Over, Steps
<1> QED
  BY <1>2, <1>3

LEMMA StartBatchAdvances == ASSUME IInv, StartBatch PROVE Advances
<1>1. phase = "loop" /\ replans' = replans /\ Ready(plan) # {} /\ PlanOK(plan)
  BY DEF StartBatch, IInv, TypeOK
<1>2. PICK width \in Widths(plan) :
        Save(Mark(plan, Batch(plan, width), "running"), "batch", Min(Ready(plan)))
  BY DEF StartBatch
<1> DEFINE batch == Batch(plan, width)
<1>3. \A s \in batch : s \in Step /\ plan.state[s] = "pending"
  BY <1>1, BatchFacts
<1>4. /\ plan' = Mark(plan, batch, "running") /\ phase' \in {"batch", "error"}
      /\ phase' = "error" => Advances
  BY <1>1, <1>2, SaveAdvances DEF Phase
<1> HIDE DEF batch
<1>5. CASE phase' = "batch"
  <2>1. Ending' = Ending /\ Place' > Place
    BY <1>1, <1>5 DEF Ending, Place
  <2>2. /\ plan'.steps = plan.steps /\ plan'.tries = plan.tries
        /\ plan'.state = [s \in Step |-> IF s \in batch THEN "running" ELSE plan.state[s]]
    BY <1>1, <1>4 DEF Mark, PlanOK, Plan
  <2>3. Steps(plan) \subseteq Step
    BY <1>1 DEF PlanOK, Plan, Steps, ToSet
  <2>4. \A s \in Steps(plan) : Finished(plan'.state[s]) <=> Finished(plan.state[s])
    BY <1>3, <2>2, <2>3 DEF Finished
  <2> QED BY <1>1, <2>1, <2>2, <2>4, LoopGoesOn DEF Over, Steps
<1> QED
  BY <1>4, <1>5

\* The end of a turn leaves fewer of them.
LEMMA StepEndsAdvances == ASSUME IInv, NEW s \in Step, StepEnds(s) PROVE Advances
<1>1. /\ phase = "batch" /\ phase' \in {"batch", "judge"} /\ outcome[s] = "run"
      /\ plan' = plan /\ replans' = replans
      /\ \E result \in {"ok", "error", "canceled"} : outcome' = [outcome EXCEPT ![s] = result]
  BY DEF StepEnds
<1>2. Ending' = Ending /\ Over' = Over /\ plan'.steps = plan.steps /\ plan'.tries = plan.tries
  BY <1>1 DEF Ending, Over, Steps
<1>3. CASE phase' = "judge"
  <2>1. Place' > Place
    BY <1>1, <1>3 DEF Place
  <2> QED BY <1>1, <1>2, <2>1, LoopGoesOn
<1>4. CASE phase' = "batch"
  <2>1. Place' = Place
    BY <1>1, <1>4 DEF Place
  <2>2. outcome \in [Step -> {"none", "run", "ok", "error", "canceled"}]
    BY DEF IInv, TypeOK
  <2>3. \A t \in Step : outcome'[t] = "run" <=> (outcome[t] = "run" /\ t # s)
    BY <1>1, <2>2
  <2>4. StrictSubset(Running', Running)
    BY <1>1, <2>3 DEF StrictSubset, Running
  <2> QED BY <1>1, <1>2, <2>1, <2>4 DEF Advances
<1> QED
  BY <1>1, <1>3, <1>4

\* A batch without a failure has answers, and their steps are over from now on.
LEMMA JudgeAdvances == ASSUME IInv, Judged, Judge PROVE Advances
<1> DEFINE oks == {s \in Step : outcome[s] = "ok"}
           p == Mark(plan, oks, "done")
<1>1. phase = "judge" /\ Save(p, "settle", 0) /\ replans' = replans /\ outcome' = outcome
  BY DEF Judge
<1>2. /\ PlanOK(plan) /\ plan.steps \in Seq(Step) /\ Steps(plan) \subseteq Step
      /\ outcome \in [Step -> {"none", "run", "ok", "error", "canceled"}]
      /\ \A s \in Step : outcome[s] # "none" => plan.state[s] = "running"
  BY <1>1 DEF IInv, TypeOK, PlanOK, Plan, Steps, ToSet, BatchAgrees, Judging
<1>3. plan' = p /\ phase' \in {"settle", "error"} /\ (phase' = "error" => Advances)
  BY <1>1, SaveAdvances DEF Phase
<1>4. CASE phase' = "settle"
  <2>1. Ending' = Ending
    BY <1>1, <1>4 DEF Ending
  <2>2. /\ plan'.steps = plan.steps /\ plan'.tries = plan.tries
        /\ plan'.state = [s \in Step |-> IF s \in oks THEN "done" ELSE plan.state[s]]
    BY <1>2, <1>3 DEF Mark, PlanOK, Plan
  <2>3. Over' = Over \cup (oks \cap Steps(plan))
    BY <1>2, <2>2 DEF Over, Steps, Finished
  <2>4. CASE Failed' # {}
    <3>1. Place' > Place
      BY <1>1, <1>4, <2>4 DEF Place
    <3>2. Over' = Over \/ StrictSubset(Over, Over')
      BY <2>3 DEF StrictSubset
    <3> QED BY <1>1, <2>1, <2>2, <3>1, <3>2 DEF Advances
  <2>5. CASE Failed' = {}
    <3>1. PICK s \in Step : outcome[s] # "none" /\ outcome[s] # "run"
      BY <1>1 DEF Judged, Judging, Running
    <3>2. s \in Steps(plan) /\ plan.state[s] = "running"
      BY <1>2, <3>1 DEF PlanOK, Steps
    <3>3. PICK i \in 1..Len(plan.steps) : plan.steps[i] = s
      BY <1>2, <3>2, LenProperties DEF Steps, ToSet
    <3>4. outcome[s] \notin {"error", "canceled"}
      BY <1>1, <2>2, <2>5, <3>3 DEF Failed
    <3>5. s \in oks /\ s \notin Over
      BY <1>2, <3>1, <3>2, <3>4 DEF Over, Finished
    <3>6. StrictSubset(Over, Over')
      BY <2>3, <3>2, <3>5 DEF StrictSubset
    <3> QED BY <1>1, <2>1, <2>2, <3>6 DEF Advances
  <2> QED BY <2>4, <2>5
<1> QED
  BY <1>3, <1>4

LEMMA BatchEndAdvances == ASSUME IInv, BatchSucceeded \/ BatchFailed PROVE Advances
<1>1. CASE BatchSucceeded
  <2>1. /\ phase = "settle" /\ phase' = "loop" /\ plan' = plan /\ replans' = replans
        /\ Failed = {}
    BY <1>1 DEF BatchSucceeded
  <2>2. Ending' = Ending /\ Place' > Place
    BY <2>1 DEF Ending, Place
  <2> QED BY <2>1, <2>2, LoopGoesOn DEF Over, Steps
<1>2. CASE BatchFailed
  BY <1>2 DEF BatchFailed, Save, Advances, Ending
<1> QED
  BY <1>1, <1>2

LEMMA StepFailedAdvances == ASSUME IInv, StepFailed PROVE Advances
<1>1. phase = "settle" /\ Cardinality(Failed) = 1 /\ replans' = replans /\ outcome' = outcome
  BY DEF StepFailed
<1>2. Failed # {}
  BY <1>1, FS_EmptySet
<1>3. CASE Save(MarkStepRetry(plan, FirstFailed), "loop", Min(Failed))
  <2>1. /\ plan' = MarkStepRetry(plan, FirstFailed) /\ phase' \in {"loop", "error"}
        /\ phase' = "error" => Advances
    BY <1>1, <1>3, SaveAdvances DEF Phase
  <2>2. FirstFailed \in Steps(plan) /\ FirstFailed \in Step
    BY <1>1, <1>2, FailedFacts DEF Settling, FirstFailed
  <2>3. plan \in Plan
    BY DEF IInv, TypeOK, PlanOK
  <2>4. /\ plan'.steps = plan.steps
        /\ plan'.tries = [plan.tries EXCEPT ![FirstFailed] = @ + 1]
        /\ plan.tries \in [Step -> Nat]
    BY <2>1, <2>3 DEF MarkStepRetry, Mark, Plan
  <2>5. RetriesMore
    BY <2>2, <2>4 DEF RetriesMore
  <2>6. CASE phase' = "loop"
    <3>1. Ending' = Ending
      BY <1>1, <2>6 DEF Ending
    <3> QED BY <1>1, <2>4, <2>5, <3>1 DEF Advances
  <2> QED BY <2>1, <2>6
<1>4. CASE phase' = "recover" /\ plan' = plan
  <2>1. Ending' = Ending /\ Place' > Place
    BY <1>1, <1>2, <1>4 DEF Ending, Place
  <2> QED BY <1>1, <1>4, <2>1, LoopGoesOn DEF Over, Steps
<1>5. CASE phase' = "error"
  BY <1>1, <1>5 DEF Advances, Ending
<1> QED
  BY <1>3, <1>4, <1>5 DEF StepFailed

LEMMA RecoveryAdvances == ASSUME IInv, Recover \/ Merge PROVE Advances
<1>1. CASE Recover
  <2>1. phase = "recover" /\ phase' \in {"merge", "error"} /\ plan' = plan /\ replans' = replans
    BY <1>1 DEF Recover
  <2>2. CASE phase' = "merge"
    <3>1. Ending' = Ending /\ Place' > Place
      BY <2>1, <2>2 DEF Ending, Place
    <3> QED BY <2>1, <3>1, LoopGoesOn DEF Over, Steps
  <2>3. CASE phase' = "error"
    BY <2>1, <2>3 DEF Advances, Ending
  <2> QED BY <2>1, <2>2, <2>3
<1>2. CASE Merge
  <2>1. phase = "merge" /\ phase' \in {"loop", "error"} /\ replans' = replans + 1
    BY <1>2 DEF Merge, Save
  <2>2. replans' > replans
    BY <2>1, PlanAssumption DEF IInv, TypeOK
  <2> QED BY <2>1, <2>2 DEF Advances, Ending
<1> QED
  BY <1>1, <1>2

LEMMA EndAdvances == ASSUME LeaveLoop \/ MarkDone \/ FinishWithError PROVE Advances
BY DEF LeaveLoop, MarkDone, FinishWithError, Save, Advances, Ending

(* Every step of an execution takes it on, and nothing takes it back: not a cancel, a
   write that comes late or a crash. The order has no infinite ascent: an execution makes
   at most MaxReplans recoveries; without a new one the plan has the same steps, which
   are retried at most MaxRetries times each and are over once; and the loop has finitely
   many places. So an execution that runs on ends (execution_service.go:151-263). *)
THEOREM ExecutionGetsOn == Spec => ExecutionAdvances
<1>1. ASSUME IInv, Judged, [Next]_vars, phase # "idle"
      PROVE  Advances \/ (UNCHANGED <<plan, phase, outcome, replans>> /\ ~Process)
  <2>1. CASE Process
    BY <1>1, <2>1, ApproveAdvances, StartPlanAdvances, EndAdvances, StartBatchAdvances,
       StepEndsAdvances, JudgeAdvances, BatchEndAdvances, StepFailedAdvances, RecoveryAdvances
    DEF Process
  <2>2. CASE Crash
    BY <1>1, <2>2 DEF Crash, Advances, Ending
  <2>3. CASE ~Process /\ ~Crash
    BY <1>1, <2>3 DEF Next, Execute, Cancel, FlushWrite, vars, execution
  <2> QED BY <2>1, <2>2, <2>3
<1>2. IInv /\ Judged /\ [Next]_vars =>
        (phase # "idle" => Advances \/ (UNCHANGED <<plan, phase, outcome, replans>> /\ ~Process))
  BY <1>1
<1> QED
  BY <1>2, InvariantJudged, PTL DEF Spec, ExecutionAdvances

=============================================================================
