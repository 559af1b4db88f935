--------------------------- MODULE ParentTurnsProofs ---------------------------
(***************************************************************************)
(* Proofs about ParentTurns, for any messages, any length of the queue and *)
(* any bounds on crashes, failures and stops.                              *)
(*                                                                         *)
(* Nothing but what a list holds and what is before what in it matters to  *)
(* the properties: the lemmas of the first part say for each operation on  *)
(* lists what it does to ToSet and Before, and the steps are proved from   *)
(* them.                                                                   *)
(***************************************************************************)
EXTENDS ParentTurns, SequenceTheorems, FiniteSetTheorems, TLAPS

\* x is somewhere before y.
Before(s, x, y) == \E p, q \in DOMAIN s : p < q /\ s[p] = x /\ s[q] = y

\* No message is there twice.
Once(s) == \A m \in Msg : ~Before(s, m, m)

\* The stages in which what the turn drained at its start is not in the conversation.
Unapplied == {"apply", "unwind"}

\* What waits to be appended to the conversation, in the order in which it will be.
Line == (IF stage \in Unapplied THEN batch ELSE <<>>) \o queue

\* Where a turn is tells what it still has to settle.
Shape ==
  /\ turn = "none" <=> stage = "none"
  /\ turn = "worker" => worker = "turn"
  /\ stage = "none" => batch = <<>>
  /\ stage \in {"none", "apply", "unwind", "settle", "settling"} => consumed = <<>>
  /\ stage \notin {"settle", "settling"} => refused = <<>>
  /\ stage \in {"ack", "acking"} => consumed \in Seq(Msg)
  /\ stage \in {"settle", "settling"} => batch \in Seq(Msg)
  /\ stage = "acking" => consumed # <<>>
  /\ stage = "settling" => batch # <<>>
  /\ up = "down" => /\ turn = "none" /\ worker = "none" /\ ~resuming
                    /\ notice.next = "none" /\ writes = <<>> /\ arrived = <<>> /\ queue = <<>>
  /\ notice.next # "none" => notice.msg \in Msg
  /\ refused \in Seq(Msg)

\* A message that was queued is held somewhere.
Held(m) == envelope[m] = "delivered" \/ m \in ToSet(queue) \cup inflight \cup dropped
NoticeHeld == notice.next \in {"schedule", "finish"} => Held(notice.msg)

\* No message is held twice.
OneHolder ==
  /\ Once(queue) /\ Once(batch) /\ Once(consumed) /\ Once(refused)
  /\ MsgsOf(batch) \cap MsgsOf(consumed) = {}
  /\ MsgsOf(batch) \cap MsgsOf(refused) = {}
  /\ MsgsOf(consumed) \cap MsgsOf(refused) = {}

\* What waits to be written is in the conversation and not in the store, and the
\* conversation of this life has all the store has.
Written ==
  /\ Once(history) /\ Once(stored) /\ Once(writes)
  /\ ToSet(writes) \subseteq ToSet(history) /\ MsgsOf(writes) \cap ToSet(stored) = {}
  /\ up # "down" => MsgsOf(stored) \subseteq ToSet(history)

\* What a turn settles is in the conversation.
HasApplied ==
  /\ MsgsOf(consumed) \cup MsgsOf(refused) \subseteq ToSet(history)
  /\ stage \notin Unapplied => MsgsOf(batch) \subseteq ToSet(history)

\* What arrived is in the conversation, was dropped or waits, and waits in order.
InOrder ==
  /\ ToSet(arrived) \subseteq ToSet(history) \cup dropped \cup ToSet(Line)
  /\ \A x, y \in Msg :
       Before(arrived, x, y) /\ y \in ToSet(Line) \ ToSet(history)
         => x \in dropped \cup ToSet(history) \/ Before(Line, x, y)

Contents == InflightExact /\ OneHolder /\ HasApplied /\ InOrder

IInv ==
  /\ TypeOK /\ Shape /\ StopHolds /\ FreshIsWoken /\ NotifiedHeld /\ NoticeHeld
  /\ Contents /\ Written

-----------------------------------------------------------------------------
(* Lists: what they hold and what is before what.                          *)

LEMMA EmptyList ==
  ASSUME NEW T
  PROVE  <<>> \in Seq(T) /\ ToSet(<<>>) = {} /\ \A x, y : ~Before(<<>>, x, y)
<1>1. <<>> \in Seq(T) /\ DOMAIN <<>> = {}
  BY EmptySeq, LenProperties
<1> QED BY <1>1 DEF ToSet, Before

LEMMA SingleList ==
  ASSUME NEW T, NEW e \in T
  PROVE  <<e>> \in Seq(T) /\ ToSet(<<e>>) = {e} /\ \A x, y : ~Before(<<e>>, x, y)
<1>1. <<e>> \in Seq(T) /\ DOMAIN <<e>> = {1} /\ <<e>>[1] = e
  OBVIOUS
<1> QED BY <1>1 DEF ToSet, Before

\* The list c has what s has and then what t has.
Joined(c, s, t) ==
  /\ ToSet(c) = ToSet(s) \cup ToSet(t)
  /\ \A x, y : Before(c, x, y) <=>
       (Before(s, x, y) \/ Before(t, x, y) \/ (x \in ToSet(s) /\ y \in ToSet(t)))

LEMMA ConcatList ==
  ASSUME NEW T, NEW s \in Seq(T), NEW t \in Seq(T)
  PROVE  s \o t \in Seq(T) /\ Joined(s \o t, s, t)
<1> DEFINE c == s \o t
           n == Len(s)
           k == Len(t)
<1>1. /\ n \in Nat /\ k \in Nat /\ DOMAIN s = 1..n /\ DOMAIN t = 1..k
      /\ c \in Seq(T) /\ Len(c) = n + k
      /\ \A i \in 1..(n + k) : c[i] = IF i <= n THEN s[i] ELSE t[i - n]
  BY LenProperties, ConcatProperties
<1>2. DOMAIN c = 1..(n + k)
  BY <1>1, LenProperties
<1> HIDE DEF c, n, k
<1>3. \A i \in 1..n : i \in 1..(n + k) /\ c[i] = s[i]
  BY <1>1
<1>4. \A i \in 1..k : i + n \in 1..(n + k) /\ c[i + n] = t[i]
  BY <1>1
<1>5. \A i \in 1..(n + k) : \/ i \in 1..n /\ c[i] = s[i]
                            \/ i > n /\ i - n \in 1..k /\ c[i] = t[i - n]
  BY <1>1
<1>6. ToSet(c) = ToSet(s) \cup ToSet(t)
  <2>1. ToSet(c) \subseteq ToSet(s) \cup ToSet(t)
    BY <1>1, <1>2, <1>5 DEF ToSet
  <2>2. ToSet(s) \subseteq ToSet(c)
    BY <1>1, <1>2, <1>3 DEF ToSet
  <2>3. ToSet(t) \subseteq ToSet(c)
    BY <1>1, <1>2, <1>4, ZenonT(40) DEF ToSet
  <2> QED BY <2>1, <2>2, <2>3
<1>7. ASSUME NEW x, NEW y, Before(c, x, y)
      PROVE  Before(s, x, y) \/ Before(t, x, y) \/ (x \in ToSet(s) /\ y \in ToSet(t))
  <2>1. PICK p \in 1..(n + k), q \in 1..(n + k) : p < q /\ c[p] = x /\ c[q] = y
    BY <1>2, <1>7 DEF Before
  <2>2. CASE q \in 1..n
    <3>1. p \in 1..n
      BY <1>1, <2>1, <2>2
    <3> QED BY <1>1, <1>3, <2>1, <2>2, <3>1 DEF Before
  <2>3. CASE p \in 1..n /\ q > n
    <3>1. s[p] = x /\ q - n \in 1..k /\ t[q - n] = y
      BY <1>1, <1>3, <1>5, <2>1, <2>3
    <3> QED BY <1>1, <2>3, <3>1 DEF ToSet
  <2>4. CASE p > n
    <3>1. /\ p - n \in 1..k /\ t[p - n] = x /\ q - n \in 1..k /\ t[q - n] = y /\ p - n < q - n
      BY <1>1, <1>5, <2>1, <2>4
    <3> QED BY <1>1, <3>1 DEF Before
  <2> QED BY <1>1, <2>2, <2>3, <2>4, <2>1
<1>8. ASSUME NEW x, NEW y, Before(s, x, y) PROVE Before(c, x, y)
  <2>1. PICK p \in 1..n, q \in 1..n : p < q /\ s[p] = x /\ s[q] = y
    BY <1>1, <1>8 DEF Before
  <2> QED BY <1>2, <1>3, <2>1 DEF Before
<1>9. ASSUME NEW x, NEW y, Before(t, x, y) PROVE Before(c, x, y)
  <2>1. PICK p \in 1..k, q \in 1..k : p < q /\ t[p] = x /\ t[q] = y
    BY <1>1, <1>9 DEF Before
  <2>2. p + n < q + n
    BY <1>1, <2>1
  <2> QED BY <1>2, <1>4, <2>1, <2>2 DEF Before
<1>10. ASSUME NEW x \in ToSet(s), NEW y \in ToSet(t) PROVE Before(c, x, y)
  <2>1. PICK p \in 1..n, q \in 1..k : s[p] = x /\ t[q] = y
    BY <1>1 DEF ToSet
  <2>2. p < q + n
    BY <1>1, <2>1
  <2> QED BY <1>2, <1>3, <1>4, <2>1, <2>2 DEF Before
<1>11. \A x, y : Before(c, x, y) <=>
         (Before(s, x, y) \/ Before(t, x, y) \/ (x \in ToSet(s) /\ y \in ToSet(t)))
  BY <1>7, <1>8, <1>9, <1>10
<1> QED BY <1>1, <1>6, <1>11 DEF c, Joined

LEMMA AppendList ==
  ASSUME NEW T, NEW s \in Seq(T), NEW e \in T
  PROVE  /\ Append(s, e) \in Seq(T) /\ ToSet(Append(s, e)) = ToSet(s) \cup {e}
         /\ \A x, y : Before(Append(s, e), x, y) <=>
              (Before(s, x, y) \/ (x \in ToSet(s) /\ y = e))
<1>1. Append(s, e) = s \o <<e>>
  BY AppendIsConcat
<1>2. <<e>> \in Seq(T) /\ ToSet(<<e>>) = {e} /\ \A x, y : ~Before(<<e>>, x, y)
  BY SingleList
<1>3. s \o <<e>> \in Seq(T) /\ Joined(s \o <<e>>, s, <<e>>)
  BY <1>2, ConcatList
<1> QED BY <1>1, <1>2, <1>3 DEF Joined

LEMMA TailList ==
  ASSUME NEW T, NEW s \in Seq(T), s # <<>>
  PROVE  /\ Head(s) \in T /\ Tail(s) \in Seq(T) /\ ToSet(s) = ToSet(Tail(s)) \cup {Head(s)}
         /\ \A x, y : Before(s, x, y) <=>
              (Before(Tail(s), x, y) \/ (x = Head(s) /\ y \in ToSet(Tail(s))))
<1> DEFINE h == <<Head(s)>>
<1>1. /\ Head(s) \in T /\ Tail(s) \in Seq(T) /\ Len(Tail(s)) = Len(s) - 1
      /\ \A i \in 1..Len(Tail(s)) : Tail(s)[i] = s[i + 1]
      /\ Len(s) \in Nat \ {0} /\ Head(s) = s[1]
  BY HeadTailProperties, EmptySeq
<1>2. h \in Seq(T) /\ ToSet(h) = {Head(s)} /\ (\A x, y : ~Before(h, x, y))
      /\ Len(h) = 1 /\ h[1] = Head(s)
  BY <1>1, SingleList
<1> HIDE DEF h
<1>3. s = h \o Tail(s)
  <2> DEFINE t == Tail(s)
  <2>1. t \in Seq(T) /\ Len(t) = Len(s) - 1 /\ \A i \in 1..(Len(s) - 1) : t[i] = s[i + 1]
    BY <1>1
  <2> HIDE DEF t
  <2>2. /\ h \o t \in Seq(T) /\ Len(h \o t) = Len(s)
        /\ \A i \in 1..Len(s) : (h \o t)[i] = IF i <= 1 THEN h[i] ELSE t[i - 1]
    <3>1. /\ h \o t \in Seq(T) /\ Len(h \o t) = Len(h) + Len(t)
          /\ \A i \in 1..(Len(h) + Len(t)) :
               (h \o t)[i] = IF i <= Len(h) THEN h[i] ELSE t[i - Len(h)]
      BY <1>2, <2>1, ConcatProperties, ZenonT(40)
    <3>2. Len(h) + Len(t) = Len(s)
      BY <1>1, <1>2, <2>1
    <3> QED BY <1>2, <3>1, <3>2
  <2>3. ASSUME NEW i \in 1..Len(s) PROVE s[i] = (h \o t)[i]
    <3>1. i = 1 \/ (i > 1 /\ i - 1 \in 1..(Len(s) - 1) /\ i - 1 + 1 = i)
      BY <1>1
    <3> QED BY <1>1, <1>2, <2>1, <2>2, <3>1
  <2>4. s = h \o t
    BY <1>1, <2>2, <2>3, SeqEqual
  <2> QED BY <2>4 DEF t
<1>4. Joined(s, h, Tail(s))
  BY <1>1, <1>2, <1>3, ConcatList, ZenonT(40)
<1> QED BY <1>1, <1>2, <1>4 DEF Joined

\* A list is its beginning and a rest.
LEMMA PrefixList ==
  ASSUME NEW T, NEW s \in Seq(T), NEW n \in 0..Len(s)
  PROVE  /\ SubSeq(s, 1, n) \in Seq(T)
         /\ \E rest \in Seq(T) : s = SubSeq(s, 1, n) \o rest
<1>1. Len(s) \in Nat /\ n \in Nat /\ n <= Len(s) /\ \A i \in 1..Len(s) : s[i] \in T
  BY LenProperties, ElementOfSeq
<1>2. SubSeq(s, 1, n) \in Seq(T)
  BY <1>1, SubSeqProperties
<1>3. SubSeq(s, n + 1, Len(s)) \in Seq(T)
  BY <1>1, SubSeqProperties
<1>4. SubSeq(s, 1, n) \o SubSeq(s, n + 1, Len(s)) = SubSeq(s, 1, Len(s))
  <2>1. 1 \in 1..(Len(s) + 1) /\ n \in (1 - 1)..Len(s) /\ Len(s) \in n..Len(s)
    BY <1>1
  <2> QED BY <2>1, ConcatAdjacentSubSeq
<1>5. SubSeq(s, 1, Len(s)) = s
  BY SubSeqFull
<1> QED BY <1>2, <1>3, <1>4, <1>5

\* The list f has what s has of S.
Filtered(f, s, S) ==
  /\ ToSet(f) = ToSet(s) \cap S
  /\ \A x, y : Before(f, x, y) <=> (Before(s, x, y) /\ x \in S /\ y \in S)

\* Places are ranked in their order, and every number up to their count is a rank.
LEMMA RanksExhaust ==
  ASSUME NEW n \in Nat, NEW places \in SUBSET (1..n)
  PROVE  /\ Cardinality(places) \in Nat
         /\ \A k \in 1..Cardinality(places) : \E i \in places : Rank(places, i) = k
         /\ \A i \in places : Rank(places, i) \in 1..Cardinality(places)
         /\ \A i, j \in places : i < j => Rank(places, i) < Rank(places, j)
<1> DEFINE upTo(i) == {j \in places : j <= i}
           rank == [i \in places |-> Rank(places, i)]
           size == Cardinality(places)
<1>1. IsFiniteSet(places) /\ size \in Nat
  <2>1. IsFiniteSet(1..n)
    BY FS_Interval
  <2> QED BY <2>1, FS_Subset, FS_CardinalityType, Zenon
<1>2. \A i \in places : rank[i] \in 1..size
  <2> SUFFICES ASSUME NEW i \in places PROVE Rank(places, i) \in 1..size
    OBVIOUS
  <2>1. upTo(i) \in SUBSET places /\ i \in upTo(i)
    OBVIOUS
  <2>2. /\ IsFiniteSet(upTo(i)) /\ Cardinality(upTo(i)) \in Nat
        /\ Cardinality(upTo(i)) <= size /\ Cardinality(upTo(i)) # 0
    BY <1>1, <2>1, FS_Subset, FS_EmptySet, FS_CardinalityType, Zenon
  <2> QED
    BY <1>1, <2>2 DEF Rank
<1>3. ASSUME NEW i \in places, NEW j \in places, i < j PROVE rank[i] < rank[j]
  <2>1. upTo(i) \in SUBSET upTo(j) /\ upTo(j) \in SUBSET places /\ upTo(i) # upTo(j)
    <3>1. i \in Nat /\ j \in Nat /\ \A k \in places : k \in Nat
      OBVIOUS
    <3>2. \A k \in places : k <= i => k <= j
      BY <1>3, <3>1
    <3>3. j \in upTo(j) /\ j \notin upTo(i)
      BY <1>3, <3>1
    <3> QED BY <3>2, <3>3
  <2>2. IsFiniteSet(upTo(j))
    BY <1>1, <2>1, FS_Subset, Zenon
  <2>3. /\ Cardinality(upTo(i)) <= Cardinality(upTo(j))
        /\ Cardinality(upTo(i)) # Cardinality(upTo(j))
    BY <2>1, <2>2, FS_Subset, Zenon
  <2>4. rank[i] = Cardinality(upTo(i)) /\ rank[j] = Cardinality(upTo(j))
    BY DEF Rank
  <2> QED
    BY <1>2, <2>3, <2>4
<1>4. rank \in Injection(places, 1..size)
  <2>1. \A i, j \in places : rank[i] = rank[j] => i = j
    BY <1>2, <1>3
  <2>2. rank \in [places -> 1..size] /\ DOMAIN rank = places
    BY <1>2
  <2> HIDE DEF rank
  <2> QED
    BY <2>1, <2>2 DEF Injection, IsInjective
<1>5. Cardinality(1..size) = size /\ IsFiniteSet(1..size)
  BY <1>1, FS_Interval
<1>6. rank \in Surjection(places, 1..size)
  <2> HIDE DEF rank
  <2> QED BY <1>1, <1>4, <1>5, FS_Injection, Zenon
<1>7. \A k \in 1..size : \E i \in places : rank[i] = k
  <2> HIDE DEF rank
  <2> QED BY <1>6 DEF Surjection
<1> QED
  BY <1>1, <1>2, <1>3, <1>7

LEMMA FilterList ==
  ASSUME NEW T, NEW s \in Seq(T), NEW S
  PROVE  Filter(s, S) \in Seq(T) /\ Filter(s, S) \in Seq(T \cap S) /\ Filtered(Filter(s, S), s, S)
<1> DEFINE places == Places(s, S)
           size == Cardinality(places)
           at(k) == CHOOSE i \in places : Rank(places, i) = k
           f == Filter(s, S)
<1>1. /\ Len(s) \in Nat /\ DOMAIN s = 1..Len(s) /\ places \in SUBSET (1..Len(s))
      /\ places = {i \in 1..Len(s) : s[i] \in S}
  BY LenProperties DEF Places
<1>2. /\ size \in Nat /\ \A k \in 1..size : \E i \in places : Rank(places, i) = k
      /\ \A i \in places : Rank(places, i) \in 1..size
      /\ \A i, j \in places : i < j => Rank(places, i) < Rank(places, j)
  BY <1>1, RanksExhaust, Zenon
<1>3. f = [k \in 1..size |-> s[at(k)]]
  BY DEF Filter
<1> HIDE DEF size, f
<1>4. \A k \in 1..size : at(k) \in places /\ Rank(places, at(k)) = k
  BY <1>2, Zenon
<1> HIDE DEF at, places
<1>5. \A k \in 1..size : at(k) \in 1..Len(s) /\ f[k] = s[at(k)] /\ f[k] \in T \cap S
  BY <1>1, <1>3, <1>4, ElementOfSeq
<1>6. DOMAIN f = 1..size /\ f \in Seq(T \cap S)
  <2>1. f \in [1..size -> T \cap S] /\ DOMAIN f = 1..size
    BY <1>3, <1>5
  <2>2. Seq(T \cap S) = UNION {[1..n -> T \cap S] : n \in Nat}
    BY SeqDef, Zenon
  <2> QED BY <1>2, <2>1, <2>2
<1>7. \A k, l \in 1..size : k < l => at(k) < at(l)
  <2> SUFFICES ASSUME NEW k \in 1..size, NEW l \in 1..size, k < l PROVE at(k) < at(l)
    OBVIOUS
  <2>1. at(k) \in Nat /\ at(l) \in Nat /\ Rank(places, at(k)) = k /\ Rank(places, at(l)) = l
    BY <1>4, <1>5
  <2>2. ~(at(l) < at(k)) /\ at(k) # at(l)
    BY <1>2, <1>4, <2>1
  <2> QED BY <2>1, <2>2
<1>8. ASSUME NEW i \in places PROVE Rank(places, i) \in 1..size /\ f[Rank(places, i)] = s[i]
  <2> DEFINE k == Rank(places, i)
  <2>1. k \in 1..size /\ at(k) \in places /\ Rank(places, at(k)) = k
    BY <1>2, <1>4
  <2>2. i \in Nat /\ at(k) \in Nat
    BY <1>1, <2>1
  <2>3. at(k) = i
    BY <1>2, <2>1, <2>2
  <2> QED BY <1>5, <2>1, <2>3
<1>9. ToSet(f) = ToSet(s) \cap S
  <2>1. \A k \in 1..size : f[k] \in ToSet(s) \cap S
    BY <1>1, <1>5 DEF ToSet
  <2>2. \A i \in 1..Len(s) : s[i] \in S => s[i] \in ToSet(f)
    BY <1>1, <1>6, <1>8 DEF ToSet
  <2> QED BY <1>1, <1>6, <2>1, <2>2 DEF ToSet
<1>10. ASSUME NEW x, NEW y, Before(f, x, y) PROVE Before(s, x, y) /\ x \in S /\ y \in S
  <2>1. PICK k \in 1..size, l \in 1..size : k < l /\ f[k] = x /\ f[l] = y
    BY <1>6, <1>10 DEF Before
  <2>2. /\ at(k) \in DOMAIN s /\ at(l) \in DOMAIN s /\ at(k) < at(l)
        /\ s[at(k)] = x /\ s[at(l)] = y /\ x \in S /\ y \in S
    BY <1>1, <1>5, <1>7, <2>1
  <2> QED BY <2>2 DEF Before
<1>11. ASSUME NEW x \in S, NEW y \in S, Before(s, x, y) PROVE Before(f, x, y)
  <2>1. PICK i \in 1..Len(s), j \in 1..Len(s) : i < j /\ s[i] = x /\ s[j] = y
    BY <1>1, <1>11 DEF Before
  <2>2. i \in places /\ j \in places
    BY <1>1, <2>1
  <2>3. /\ Rank(places, i) < Rank(places, j) /\ f[Rank(places, i)] = x /\ f[Rank(places, j)] = y
        /\ Rank(places, i) \in DOMAIN f /\ Rank(places, j) \in DOMAIN f
    BY <1>2, <1>6, <1>8, <2>1, <2>2
  <2> QED BY <2>3 DEF Before
<1>12. \A x, y : Before(f, x, y) <=> (Before(s, x, y) /\ x \in S /\ y \in S)
  BY <1>10, <1>11
<1>13. f \in Seq(T)
  BY <1>6, SeqMonotonic
<1> QED BY <1>6, <1>9, <1>12, <1>13 DEF Filtered, f

-----------------------------------------------------------------------------
(* What the operations of the application do to the parts of the invariant. *)

\* A delivered message stays delivered.
KeepsDelivered == \A m \in Msg : envelope[m] = "delivered" => envelope'[m] = "delivered"

LEMMA ClaimFacts ==
  ASSUME TypeOK, NEW m \in Msg, NEW lapsed \in BOOLEAN, CanClaim(m, lapsed), Claim(m)
  PROVE  /\ envelope' \in [Msg -> {"none", "pending", "delivering", "delivered"}]
         /\ claimant' \in [Msg -> 0..MaxCrashes + 1] /\ KeepsDelivered
<1>1. life \in 0..MaxCrashes + 1
  BY ParentTurnsAssumption DEF TypeOK
<1>2. claimant' \in [Msg -> 0..MaxCrashes + 1]
  BY <1>1 DEF TypeOK, Claim
<1>3. envelope[m] # "delivered"
  BY DEF CanClaim
<1> QED
  BY <1>2, <1>3 DEF TypeOK, Claim, KeepsDelivered

LEMMA GiveUpFacts ==
  ASSUME TypeOK, NEW m \in Msg, NEW status \in {"pending", "delivered"}, GiveUpClaim(m, status),
         status = "delivered" \/ HoldsClaim(m)
  PROVE  /\ envelope' \in [Msg -> {"none", "pending", "delivering", "delivered"}]
         /\ claimant' \in [Msg -> 0..MaxCrashes + 1] /\ KeepsDelivered
<1>1. 0 \in 0..MaxCrashes + 1
  BY ParentTurnsAssumption
<1>2. claimant' \in [Msg -> 0..MaxCrashes + 1]
  BY <1>1 DEF TypeOK, GiveUpClaim
<1>3. envelope[m] # "delivered" \/ status = "delivered"
  BY DEF HoldsClaim
<1> QED
  BY <1>2, <1>3 DEF TypeOK, GiveUpClaim, KeepsDelivered

LEMMA LineFacts ==
  ASSUME TypeOK
  PROVE  /\ Line \in Seq(Item)
         /\ stage \in Unapplied => Joined(Line, batch, queue)
         /\ stage \notin Unapplied => Line = queue
<1>1. <<>> \in Seq(Item) /\ batch \in Seq(Item) /\ queue \in Seq(Item) /\ <<>> \o queue = queue
  BY EmptyList, ConcatEmptySeq DEF TypeOK
<1> QED BY <1>1, ConcatList DEF Line

LEMMA InflightSets ==
  ASSUME TypeOK
  PROVE  MsgsOf(batch \o consumed \o refused) = MsgsOf(batch) \cup MsgsOf(consumed) \cup MsgsOf(refused)
<1>1. batch \o consumed \in Seq(Item) /\ Joined(batch \o consumed, batch, consumed)
  BY ConcatList DEF TypeOK
<1>2. Joined((batch \o consumed) \o refused, batch \o consumed, refused)
  BY <1>1, ConcatList DEF TypeOK
<1> QED BY <1>1, <1>2 DEF Joined, MsgsOf

\* Another stage with the same lists.
LEMMA StageChange ==
  ASSUME IInv, TypeOK', UNCHANGED <<queue, inflight, batch, consumed, refused, history, arrived, dropped>>,
         stage' \notin Unapplied => stage \notin Unapplied
  PROVE  Contents'
<1>1. TypeOK /\ InflightExact /\ OneHolder /\ HasApplied /\ InOrder
  BY DEF IInv, Contents
<1>2. InflightExact' /\ OneHolder' /\ HasApplied'
  BY <1>1 DEF InflightExact, OneHolder, HasApplied
<1>3. CASE stage \notin Unapplied /\ stage' \in Unapplied
  <2>1. Line = queue /\ Joined(Line', batch, queue)
    <3>1. Line' = batch \o queue
      BY <1>3 DEF Line
    <3>2. Joined(batch \o queue, batch, queue)
      BY <1>1, ConcatList DEF TypeOK
    <3> QED BY <1>1, <1>3, <3>1, <3>2, LineFacts
  <2>2. MsgsOf(batch) \subseteq ToSet(history)
    BY <1>1, <1>3 DEF HasApplied
  <2>3. ToSet(Line') = ToSet(batch) \cup ToSet(queue)
    BY <2>1 DEF Joined
  <2>4. \A x, y \in Msg : Before(Line, x, y) => Before(Line', x, y)
    BY <2>1 DEF Joined
  <2>5. InOrder'
    BY <1>1, <2>1, <2>2, <2>3, <2>4 DEF InOrder, MsgsOf
  <2> QED BY <1>2, <2>5 DEF Contents
<1>4. CASE stage \in Unapplied <=> stage' \in Unapplied
  <2>1. Line' = Line
    BY <1>4 DEF Line
  <2>2. InOrder'
    BY <1>1, <2>1 DEF InOrder
  <2> QED BY <1>2, <2>2 DEF Contents
<1> QED BY <1>3, <1>4

LEMMA SameWritten ==
  ASSUME Written, UNCHANGED <<history, stored, writes>>, up = "down" => up' = "down"
  PROVE  Written'
BY DEF Written

\* What is held stays held.
LEMMA SameHeld ==
  ASSUME KeepsDelivered, ToSet(queue) \cup inflight \cup dropped
                           \subseteq ToSet(queue') \cup inflight' \cup dropped'
  PROVE  \A m \in Msg : Held(m) => Held(m)'
BY DEF KeepsDelivered, Held

-----------------------------------------------------------------------------
(* The steps: notices and recovery.                                        *)

LEMMA TaskEndsStep == ASSUME IInv, NEW m \in Msg, TaskEnds(m) PROVE IInv'
<1>1. TypeOK /\ Shape /\ StopHolds /\ FreshIsWoken /\ NotifiedHeld /\ Written
  BY DEF IInv
<1>2. /\ up = "on" /\ notice = NoNotice /\ envelope[m] = "none"
      /\ envelope' = [envelope EXCEPT ![m] = "pending"] /\ created' = Append(created, m)
      /\ notice' = [by |-> "task", msg |-> m, next |-> "queue"]
      /\ UNCHANGED <<claimant, stopped, stored, life, up, recover, notified, resuming, queue,
                     inflight, worker, requested, paused, canceled, turn, stage, batch, consumed,
                     refused, history, writes, arrived, missed, dropped, faults, pauses>>
  BY DEF TaskEnds, mailbox, waking, control, current, records, counters
<1>3. /\ envelope' \in [Msg -> {"none", "pending", "delivering", "delivered"}]
      /\ created' \in Seq(Msg)
  BY <1>1, <1>2, AppendProperties DEF TypeOK
<1>4. TypeOK'
  BY <1>1, <1>2, <1>3, SMTT(30) DEF TypeOK
<1>5. Shape' /\ StopHolds' /\ FreshIsWoken'
  BY <1>1, <1>2 DEF Shape, StopHolds, FreshIsWoken, NoNotice
<1>6. NotifiedHeld' /\ NoticeHeld'
  <2>1. KeepsDelivered
    BY <1>1, <1>2 DEF TypeOK, KeepsDelivered
  <2> QED BY <1>1, <1>2, <2>1, SameHeld DEF TypeOK, NotifiedHeld, NoticeHeld, Held
<1>7. Contents'
  BY <1>2, <1>4, StageChange
<1>8. Written'
  BY <1>1, <1>2, SameWritten
<1> QED BY <1>4, <1>5, <1>6, <1>7, <1>8 DEF IInv

LEMMA ResumeStep == ASSUME IInv, NEW m \in Msg, Resume(m) PROVE IInv'
<1>1. TypeOK /\ Shape /\ StopHolds /\ FreshIsWoken /\ NotifiedHeld /\ NoticeHeld /\ Written
  BY DEF IInv
<1>2. /\ up = "on" /\ notice = NoNotice
      /\ \/ /\ m \in notified \/ envelope[m] = "delivered"
            /\ notified' = notified \cup {m} /\ resuming' = TRUE /\ notice' = notice
         \/ /\ notice' = [by |-> "resume", msg |-> m, next |-> "queue"]
            /\ notified' = notified /\ resuming' = resuming
      /\ UNCHANGED <<envelope, claimant, created, stopped, stored, life, up, recover, queue,
                     inflight, worker, requested, paused, canceled, turn, stage, batch, consumed,
                     refused, history, writes, arrived, missed, dropped, faults, pauses>>
  BY DEF Resume, durable, mailbox, waking, control, current, records, counters
<1>3. TypeOK'
  <2>1. /\ notice'.by \in {"nobody", "task", "resume", "recovery"}
        /\ notice'.msg \in Msg \cup {Nobody}
        /\ notice'.next \in {"none", "queue", "schedule", "finish"}
    BY <1>2 DEF NoNotice
  <2>2. notified' \subseteq Msg /\ resuming' \in BOOLEAN
    BY <1>1, <1>2 DEF TypeOK
  <2> QED BY <1>1, <1>2, <2>1, <2>2 DEF TypeOK
<1>4. Shape' /\ StopHolds' /\ FreshIsWoken'
  BY <1>1, <1>2 DEF Shape, StopHolds, FreshIsWoken, NoNotice
<1>5. NotifiedHeld' /\ NoticeHeld'
  BY <1>1, <1>2 DEF NotifiedHeld, NoticeHeld, Held
<1>6. Contents'
  BY <1>2, <1>3, StageChange
<1>7. Written'
  BY <1>1, <1>2, SameWritten
<1> QED BY <1>3, <1>4, <1>5, <1>6, <1>7 DEF IInv

LEMMA RecoverNextStep == ASSUME IInv, RecoverNext PROVE IInv'
<1> DEFINE m == Head(recover)
<1>1. TypeOK /\ Shape /\ StopHolds /\ FreshIsWoken /\ NotifiedHeld /\ Written
  BY DEF IInv
<1>2. /\ up = "boot" /\ notice = NoNotice /\ recover # <<>> /\ recover' = Tail(recover)
      /\ \/ /\ \E lapsed \in BOOLEAN : CanClaim(m, lapsed)
            /\ Claim(m) /\ notice' = [by |-> "recovery", msg |-> m, next |-> "queue"]
         \/ UNCHANGED <<envelope, claimant, notice>>
      /\ UNCHANGED <<created, stopped, stored, life, up, notified, resuming, queue,
                     inflight, worker, requested, paused, canceled, turn, stage, batch, consumed,
                     refused, history, writes, arrived, missed, dropped, faults, pauses>>
  BY DEF RecoverNext, mailbox, waking, control, current, records, counters
<1>3. m \in Msg /\ recover' \in Seq(Msg)
  BY <1>1, <1>2, HeadTailProperties DEF TypeOK
<1> HIDE DEF m
<1>4. /\ envelope' \in [Msg -> {"none", "pending", "delivering", "delivered"}]
      /\ claimant' \in [Msg -> 0..MaxCrashes + 1] /\ KeepsDelivered
  <2>1. CASE (\E lapsed \in BOOLEAN : CanClaim(m, lapsed)) /\ Claim(m)
    BY <1>1, <1>3, <2>1, ClaimFacts
  <2>2. CASE UNCHANGED <<envelope, claimant, notice>>
    BY <1>1, <2>2 DEF TypeOK, KeepsDelivered
  <2> QED BY <1>2, <2>1, <2>2
<1>5. TypeOK'
  <2>1. /\ notice'.by \in {"nobody", "task", "resume", "recovery"}
        /\ notice'.msg \in Msg \cup {Nobody}
        /\ notice'.next \in {"none", "queue", "schedule", "finish"}
    BY <1>2, <1>3 DEF NoNotice
  <2> QED BY <1>1, <1>2, <1>3, <1>4, <2>1, ZenonT(60) DEF TypeOK
<1>6. Shape' /\ StopHolds' /\ FreshIsWoken'
  BY <1>1, <1>2, <1>3 DEF Shape, StopHolds, FreshIsWoken, NoNotice
<1>7. NotifiedHeld' /\ NoticeHeld'
  <2>1. \A n \in Msg : Held(n) => Held(n)'
    BY <1>2, <1>4, SameHeld
  <2> QED BY <1>1, <1>2, <2>1 DEF TypeOK, NotifiedHeld, NoticeHeld, NoNotice, Held
<1>8. Contents'
  BY <1>2, <1>5, StageChange
<1>9. Written'
  BY <1>1, <1>2, SameWritten
<1> QED BY <1>5, <1>6, <1>7, <1>8, <1>9 DEF IInv

LEMMA NoticeRefusedStep == ASSUME IInv, NoticeRefused PROVE IInv'
<1>1. TypeOK /\ Shape /\ StopHolds /\ FreshIsWoken /\ NotifiedHeld /\ Written
  BY DEF IInv
<1>2. /\ notice.next = "queue" /\ notice' = NoNotice
      /\ \/ HoldsClaim(notice.msg) /\ GiveUpClaim(notice.msg, "pending")
         \/ UNCHANGED <<envelope, claimant>>
      /\ UNCHANGED <<created, stopped, stored, life, up, recover, notified, resuming, queue,
                     inflight, worker, requested, paused, canceled, turn, stage, batch, consumed,
                     refused, history, writes, arrived, missed, dropped, faults, pauses>>
  BY DEF NoticeRefused, mailbox, waking, control, current, records, counters
<1>3. notice.msg \in Msg
  BY <1>1, <1>2 DEF Shape
<1>4. /\ envelope' \in [Msg -> {"none", "pending", "delivering", "delivered"}]
      /\ claimant' \in [Msg -> 0..MaxCrashes + 1] /\ KeepsDelivered
  <2>1. CASE HoldsClaim(notice.msg) /\ GiveUpClaim(notice.msg, "pending")
    BY <1>1, <1>3, <2>1, GiveUpFacts
  <2>2. CASE UNCHANGED <<envelope, claimant>>
    BY <1>1, <2>2 DEF TypeOK, KeepsDelivered
  <2> QED BY <1>2, <2>1, <2>2
<1>5. TypeOK'
  BY <1>1, <1>2, <1>4, ZenonT(60) DEF TypeOK, NoNotice
<1>6. Shape' /\ StopHolds' /\ FreshIsWoken'
  BY <1>1, <1>2 DEF Shape, StopHolds, FreshIsWoken, NoNotice
<1>7. NotifiedHeld' /\ NoticeHeld'
  <2>1. \A n \in Msg : Held(n) => Held(n)'
    BY <1>2, <1>4, SameHeld
  <2> QED BY <1>1, <1>2, <2>1 DEF TypeOK, NotifiedHeld, NoticeHeld, NoNotice, Held
<1>8. Contents'
  BY <1>2, <1>5, StageChange
<1>9. Written'
  BY <1>1, <1>2, SameWritten
<1> QED BY <1>5, <1>6, <1>7, <1>8, <1>9 DEF IInv

LEMMA NoticeScheduledStep == ASSUME IInv, NoticeScheduled PROVE IInv'
<1>1. TypeOK /\ Shape /\ StopHolds /\ FreshIsWoken /\ NotifiedHeld /\ NoticeHeld /\ Written
  BY DEF IInv
<1>2. /\ notice.next = "schedule" /\ Schedule
      /\ \/ /\ notice.by = "recovery" /\ notice' = [notice EXCEPT !.next = "finish"]
            /\ UNCHANGED <<notified, resuming>>
         \/ /\ notice' = NoNotice /\ notified' = notified \cup {notice.msg}
            /\ resuming' = (resuming \/ notice.by = "resume")
      /\ UNCHANGED <<envelope, claimant, created, stopped, stored, life, up, recover, queue,
                     inflight, paused, canceled, turn, stage, batch, consumed,
                     refused, history, writes, arrived, missed, dropped, faults, pauses>>
  BY DEF NoticeScheduled, durable, mailbox, control, current, records, counters
<1>3. notice.msg \in Msg /\ up # "down"
  BY <1>1, <1>2 DEF Shape
<1>4. /\ notice'.by \in {"nobody", "task", "resume", "recovery"}
      /\ notice'.msg \in Msg \cup {Nobody}
      /\ notice'.next \in {"none", "finish"}
      /\ notice'.next = "finish" => notice'.msg = notice.msg
  <2>1. CASE notice' = NoNotice
    BY <2>1 DEF NoNotice
  <2>2. CASE notice' = [notice EXCEPT !.next = "finish"]
    BY <1>1, <2>2 DEF TypeOK
  <2> QED BY <1>2, <2>1, <2>2
<1>5. /\ worker' \in {"none", "want", "turn", "decide"} /\ requested' \in BOOLEAN
      /\ worker' = "want" \/ requested' = TRUE
      /\ worker = "turn" => worker' = "turn"
  BY <1>1, <1>2 DEF TypeOK, Schedule
<1>6. TypeOK'
  <2>1. notified' \subseteq Msg /\ resuming' \in BOOLEAN
    BY <1>1, <1>2, <1>3 DEF TypeOK
  <2> QED BY <1>1, <1>2, <1>4, <1>5, <2>1 DEF TypeOK
<1>7. Shape' /\ StopHolds' /\ FreshIsWoken'
  BY <1>1, <1>2, <1>3, <1>4, <1>5 DEF Shape, StopHolds, FreshIsWoken
<1>8. NotifiedHeld' /\ NoticeHeld'
  BY <1>1, <1>2, <1>4 DEF NotifiedHeld, NoticeHeld, Held, NoNotice
<1>9. Contents'
  BY <1>2, <1>6, StageChange
<1>10. Written'
  BY <1>1, <1>2, SameWritten
<1> QED BY <1>6, <1>7, <1>8, <1>9, <1>10 DEF IInv

LEMMA RecoveryReleasesStep == ASSUME IInv, RecoveryReleases PROVE IInv'
<1>1. TypeOK /\ Shape /\ StopHolds /\ FreshIsWoken /\ NotifiedHeld /\ NoticeHeld /\ Written
  BY DEF IInv
<1>2. /\ notice.next = "finish" /\ HoldsClaim(notice.msg) /\ GiveUpClaim(notice.msg, "pending")
      /\ notice' = NoNotice /\ notified' = notified \cup {notice.msg}
      /\ UNCHANGED <<created, stopped, stored, life, up, recover, resuming, queue, inflight,
                     worker, requested, paused, canceled, turn, stage, batch, consumed,
                     refused, history, writes, arrived, missed, dropped, faults, pauses>>
  BY DEF RecoveryReleases, mailbox, waking, control, current, records, counters
<1>3. notice.msg \in Msg
  BY <1>1, <1>2 DEF Shape
<1>4. /\ envelope' \in [Msg -> {"none", "pending", "delivering", "delivered"}]
      /\ claimant' \in [Msg -> 0..MaxCrashes + 1] /\ KeepsDelivered
  BY <1>1, <1>2, <1>3, GiveUpFacts
<1>5. TypeOK'
  BY <1>1, <1>2, <1>3, <1>4, SMTT(30) DEF TypeOK, NoNotice
<1>6. Shape' /\ StopHolds' /\ FreshIsWoken'
  BY <1>1, <1>2 DEF Shape, StopHolds, FreshIsWoken, NoNotice
<1>7. NotifiedHeld' /\ NoticeHeld'
  <2>1. \A n \in Msg : Held(n) => Held(n)'
    BY <1>2, <1>4, SameHeld
  <2>2. \A n \in notified' : n \in Msg /\ Held(n)
    BY <1>1, <1>2, <1>3 DEF TypeOK, NotifiedHeld, NoticeHeld, Held
  <2> QED BY <1>2, <2>1, <2>2 DEF NotifiedHeld, NoticeHeld, NoNotice, Held
<1>8. Contents'
  BY <1>2, <1>5, StageChange
<1>9. Written'
  BY <1>1, <1>2, SameWritten
<1> QED BY <1>5, <1>6, <1>7, <1>8, <1>9 DEF IInv

LEMMA BootDoneStep == ASSUME IInv, BootDone PROVE IInv'
<1>1. TypeOK /\ Shape /\ StopHolds /\ FreshIsWoken /\ NotifiedHeld /\ NoticeHeld /\ Written
  BY DEF IInv
<1>2. /\ up = "boot" /\ up' = "on"
      /\ UNCHANGED <<envelope, claimant, created, stopped, stored, life, recover, notice, notified,
                     resuming, queue, inflight, worker, requested, paused, canceled, turn, stage,
                     batch, consumed, refused, history, writes, arrived, missed, dropped, faults,
                     pauses>>
  BY DEF BootDone, durable, mailbox, waking, control, current, records, counters
<1>3. TypeOK'
  BY <1>1, <1>2, SMTT(30) DEF TypeOK
<1>4. Shape' /\ StopHolds' /\ FreshIsWoken' /\ NotifiedHeld' /\ NoticeHeld'
  BY <1>1, <1>2 DEF Shape, StopHolds, FreshIsWoken, NotifiedHeld, NoticeHeld, Held
<1>5. Contents'
  BY <1>2, <1>3, StageChange
<1>6. Written'
  BY <1>1, <1>2, SameWritten
<1> QED BY <1>3, <1>4, <1>5, <1>6 DEF IInv

-----------------------------------------------------------------------------
(* The operations on the lists of the mailbox and of the conversation.     *)

LEMMA BeforeIn ==
  ASSUME NEW s, NEW x, NEW y, Before(s, x, y)
  PROVE  x \in ToSet(s) /\ y \in ToSet(s)
BY DEF Before, ToSet

LEMMA ListOf ==
  ASSUME NEW T, NEW s \in Seq(T)
  PROVE  ToSet(s) \subseteq T
BY LenProperties, ElementOfSeq DEF ToSet

LEMMA ContainsList ==
  ASSUME NEW T, NEW s \in Seq(T), NEW e
  PROVE  Contains(s, e) <=> e \in ToSet(s)
BY LenProperties DEF Contains, ToSet

LEMMA OnceJoined ==
  ASSUME NEW c, NEW s, NEW t, Joined(c, s, t), Once(s), Once(t), MsgsOf(s) \cap MsgsOf(t) = {}
  PROVE  Once(c)
BY DEF Joined, Once, MsgsOf

\* The line and the claim set after a step.
LEMMA NextLists ==
  ASSUME batch' \in Seq(Item), consumed' \in Seq(Item), refused' \in Seq(Item),
         queue' \in Seq(Item)
  PROVE  /\ stage' \in Unapplied => Joined(Line', batch', queue')
         /\ stage' \notin Unapplied => Line' = queue'
         /\ MsgsOf(batch' \o consumed' \o refused')
              = MsgsOf(batch') \cup MsgsOf(consumed') \cup MsgsOf(refused')
<1>1. Joined(batch' \o queue', batch', queue') /\ <<>> \o queue' = queue'
  BY ConcatList, ConcatEmptySeq
<1>2. batch' \o consumed' \in Seq(Item) /\ Joined(batch' \o consumed', batch', consumed')
  BY ConcatList
<1>3. Joined((batch' \o consumed') \o refused', batch' \o consumed', refused')
  BY <1>2, ConcatList
<1>4. /\ stage' \in Unapplied => Line' = batch' \o queue'
      /\ stage' \notin Unapplied => Line' = <<>> \o queue'
  BY DEF Line
<1> QED BY <1>1, <1>2, <1>3, <1>4 DEF Joined, MsgsOf

\* The order of the line is kept if what waits on was in it, and what left it is in
\* the conversation or was dropped.
LEMMA OrderKept ==
  ASSUME TypeOK, InOrder, arrived' = arrived, ToSet(history) \subseteq ToSet(history'),
         dropped \subseteq dropped',
         \A m \in Msg : m \in ToSet(Line) => m \in ToSet(history') \cup dropped' \cup ToSet(Line'),
         \A m \in Msg : m \in ToSet(Line') \ ToSet(history') => m \in ToSet(Line),
         \A x, y \in Msg : Before(Line, x, y) /\ y \in ToSet(Line') \ ToSet(history')
                             => x \in dropped' \cup ToSet(history') \/ Before(Line', x, y)
  PROVE  InOrder'
<1>1. ToSet(arrived) \subseteq Msg
  BY ListOf DEF TypeOK
<1>2. ToSet(arrived') \subseteq ToSet(history') \cup dropped' \cup ToSet(Line')
  BY <1>1 DEF InOrder
<1>3. ASSUME NEW x \in Msg, NEW y \in Msg, Before(arrived', x, y), y \in ToSet(Line') \ ToSet(history')
      PROVE  x \in dropped' \cup ToSet(history') \/ Before(Line', x, y)
  <2>1. Before(arrived, x, y) /\ y \in ToSet(Line) \ ToSet(history)
    BY <1>3
  <2>2. x \in dropped \cup ToSet(history) \/ Before(Line, x, y)
    BY <2>1 DEF InOrder
  <2> QED BY <1>3, <2>2
<1> QED BY <1>2, <1>3 DEF InOrder

\* A message or a note joins the queue.
LEMMA AppendContents ==
  ASSUME IInv, NEW e \in Item, queue' = Append(queue, e),
         UNCHANGED <<inflight, batch, consumed, refused, stage, history, dropped>>,
         e \in Msg => e \notin ToSet(queue) \cup inflight,
         arrived' = IF e \in Note \/ e \in ToSet(arrived) THEN arrived ELSE Append(arrived, e)
  PROVE  Contents' /\ queue' \in Seq(Item) /\ arrived' \in Seq(Msg)
         /\ ToSet(queue') = ToSet(queue) \cup {e}
<1>1. TypeOK /\ InflightExact /\ OneHolder /\ HasApplied /\ InOrder /\ Msg \cap Note = {}
  BY ParentTurnsAssumption DEF IInv, Contents
<1>2. /\ queue' \in Seq(Item) /\ ToSet(queue') = ToSet(queue) \cup {e}
      /\ \A x, y : Before(queue', x, y) <=> (Before(queue, x, y) \/ (x \in ToSet(queue) /\ y = e))
  BY <1>1, AppendList DEF TypeOK
<1>3. /\ arrived' \in Seq(Msg) /\ ToSet(arrived') \subseteq ToSet(arrived) \cup ({e} \cap Msg)
      /\ \A x, y \in Msg : Before(arrived', x, y)
           => Before(arrived, x, y) \/ (x \in ToSet(arrived) /\ y = e)
  <2>1. CASE e \in Note \/ e \in ToSet(arrived)
    BY <1>1, <2>1 DEF TypeOK
  <2>2. CASE ~(e \in Note \/ e \in ToSet(arrived))
    <3>1. e \in Msg /\ arrived' = Append(arrived, e) /\ arrived \in Seq(Msg)
      BY <1>1, <2>2 DEF Item, TypeOK
    <3> QED BY <3>1, AppendList
  <2> QED BY <2>1, <2>2
<1>4. /\ ToSet(Line') = ToSet(Line) \cup {e}
      /\ \A x, y : Before(Line', x, y) <=> (Before(Line, x, y) \/ (x \in ToSet(Line) /\ y = e))
  <2>1. /\ batch' \in Seq(Item) /\ consumed' \in Seq(Item) /\ refused' \in Seq(Item)
        /\ queue' \in Seq(Item)
    BY <1>1, <1>2 DEF TypeOK
  <2>2. CASE stage \in Unapplied
    <3>1. Joined(Line', batch, queue') /\ Joined(Line, batch, queue)
      BY <1>1, <2>1, <2>2, NextLists, LineFacts
    <3> QED BY <1>2, <3>1 DEF Joined
  <2>3. CASE stage \notin Unapplied
    <3>1. Line' = queue' /\ Line = queue
      BY <1>1, <2>1, <2>3, NextLists, LineFacts
    <3> QED BY <1>2, <3>1
  <2> QED BY <2>2, <2>3
<1>5. InflightExact'
  BY <1>1, <1>2 DEF InflightExact, TypeOK, Item
<1>6. OneHolder'
  BY <1>1, <1>2, SMTT(30) DEF OneHolder, Once, TypeOK
<1>7. HasApplied'
  BY <1>1 DEF HasApplied
<1>8. ToSet(arrived') \subseteq ToSet(history') \cup dropped' \cup ToSet(Line')
  BY <1>1, <1>3, <1>4 DEF InOrder
<1>9. ASSUME NEW x \in Msg, NEW y \in Msg, Before(arrived', x, y), y \in ToSet(Line') \ ToSet(history')
      PROVE  x \in dropped' \cup ToSet(history') \/ Before(Line', x, y)
  <2>1. Before(arrived, x, y) => x \in ToSet(arrived)
    BY BeforeIn
  <2>2. CASE y = e
    BY <1>1, <1>3, <1>4, <1>9, <2>1, <2>2 DEF InOrder
  <2>3. CASE y # e
    BY <1>1, <1>3, <1>4, <1>9, <2>3 DEF InOrder
  <2> QED BY <2>2, <2>3
<1>10. InOrder'
  BY <1>8, <1>9 DEF InOrder
<1> QED BY <1>2, <1>3, <1>5, <1>6, <1>7, <1>10 DEF Contents

\* A turn takes what is queued.
LEMMA DrainContents ==
  ASSUME IInv, stage = "none", stage' = "apply", batch' = queue, Drain,
         UNCHANGED <<consumed, refused, history, arrived, dropped>>
  PROVE  Contents' /\ queue' \in Seq(Item) /\ inflight' \subseteq Msg /\ ToSet(queue') = {}
<1>1. /\ TypeOK /\ InflightExact /\ OneHolder /\ HasApplied /\ InOrder
      /\ batch = <<>> /\ consumed = <<>> /\ refused = <<>>
  BY DEF IInv, Contents, Shape
<1>2. <<>> \in Seq(Item) /\ ToSet(<<>>) = {} /\ (\A x, y : ~Before(<<>>, x, y)) /\ MsgsOf(<<>>) = {}
  BY EmptyList DEF MsgsOf
<1>3. /\ queue' = <<>> /\ inflight' = inflight \cup MsgsOf(queue) /\ queue' \in Seq(Item)
  BY <1>2 DEF Drain
<1>4. /\ batch' \in Seq(Item) /\ consumed' \in Seq(Item) /\ refused' \in Seq(Item)
  BY <1>1 DEF TypeOK
<1>5. inflight = {} /\ inflight' = MsgsOf(queue)
  BY <1>1, <1>2, <1>3, InflightSets DEF InflightExact
<1>6. InflightExact' /\ OneHolder' /\ HasApplied'
  BY <1>1, <1>2, <1>3, <1>4, <1>5, NextLists
  DEF InflightExact, OneHolder, HasApplied, Once, Unapplied
<1>7. Line' = Line
  BY <1>1, <1>3, ConcatEmptySeq DEF Line, Unapplied, TypeOK
<1>8. InOrder'
  BY <1>1, <1>7 DEF InOrder
<1> QED BY <1>2, <1>3, <1>5, <1>6, <1>8 DEF Contents, MsgsOf

\* The conversation gets what it does not have.
LEMMA ApplyFacts ==
  ASSUME IInv, NEW items \in Seq(Item), Once(items), Apply(items)
  PROVE  /\ history' \in Seq(Item) /\ writes' \in Seq(Item)
         /\ ToSet(history) \subseteq ToSet(history') /\ MsgsOf(items) \subseteq ToSet(history')
         /\ MsgsOf(history') \subseteq ToSet(history) \cup MsgsOf(items)
         /\ \A x, y \in Msg :
              Before(history', x, y) <=>
                \/ Before(history, x, y)
                \/ Before(items, x, y) /\ x \notin ToSet(history) /\ y \notin ToSet(history)
                \/ x \in ToSet(history) /\ y \in ToSet(items) \ ToSet(history)
         /\ stored' = stored /\ up' = up /\ up # "down" => Written'
<1> DEFINE wanted == Note \cup (Msg \ ToSet(history))
           new == Filter(items, wanted)
<1>1. TypeOK /\ Written /\ Msg \cap Note = {}
  BY ParentTurnsAssumption DEF IInv
<1>2. new \in Seq(Item) /\ Filtered(new, items, wanted)
  BY FilterList
<1>3. history' = history \o new /\ writes' = writes \o new
  BY DEF Apply
<1> HIDE DEF new, wanted
<1>4. /\ history' \in Seq(Item) /\ writes' \in Seq(Item)
      /\ Joined(history', history, new) /\ Joined(writes', writes, new)
  BY <1>1, <1>2, <1>3, ConcatList DEF TypeOK
<1>5. \A m \in Msg : m \in wanted <=> m \notin ToSet(history)
  BY <1>1 DEF wanted
<1>6. MsgsOf(new) = MsgsOf(items) \ ToSet(history)
  BY <1>2, <1>5 DEF Filtered, MsgsOf
<1>7. \A x, y \in Msg : Before(new, x, y) <=>
         (Before(items, x, y) /\ x \notin ToSet(history) /\ y \notin ToSet(history))
  BY <1>2, <1>5 DEF Filtered
<1>8. ToSet(history') = ToSet(history) \cup ToSet(new) /\ ToSet(writes') = ToSet(writes) \cup ToSet(new)
  BY <1>4 DEF Joined
<1>9. \A x, y \in Msg :
        Before(history', x, y) <=>
          \/ Before(history, x, y)
          \/ Before(items, x, y) /\ x \notin ToSet(history) /\ y \notin ToSet(history)
          \/ x \in ToSet(history) /\ y \in ToSet(items) \ ToSet(history)
  BY <1>4, <1>6, <1>7 DEF Joined, MsgsOf
<1>10. ASSUME stored' = stored, up' = up, up # "down" PROVE Written'
  <2>1. Once(new)
    BY <1>7 DEF Once
  <2>2. Once(history')
    <3>1. MsgsOf(history) \cap MsgsOf(new) = {}
      BY <1>6 DEF MsgsOf
    <3> QED BY <1>1, <1>4, <2>1, <3>1, OnceJoined DEF Written
  <2>3. Once(writes')
    <3>1. MsgsOf(writes) \cap MsgsOf(new) = {}
      BY <1>1, <1>6 DEF MsgsOf, Written
    <3> QED BY <1>1, <1>4, <2>1, <3>1, OnceJoined DEF Written
  <2>4. ToSet(writes') \subseteq ToSet(history') /\ MsgsOf(writes') \cap ToSet(stored) = {}
    BY <1>1, <1>6, <1>8, <1>10 DEF Written, MsgsOf
  <2>5. MsgsOf(stored') \subseteq ToSet(history')
    BY <1>1, <1>8, <1>10 DEF Written, MsgsOf
  <2> QED BY <1>1, <1>10, <2>2, <2>3, <2>4, <2>5 DEF Written
<1> QED BY <1>4, <1>6, <1>8, <1>9, <1>10 DEF MsgsOf

\* Items that were claimed go back to the head of the queue, or are dropped.
LEMMA RequeueFacts ==
  ASSUME IInv, NEW items \in Seq(Item), Once(items), MsgsOf(items) \subseteq inflight, Requeue(items)
  PROVE  /\ queue' \in Seq(Item) /\ Len(queue') <= MaxPending /\ Once(queue')
         /\ inflight' = inflight \ MsgsOf(items) /\ missed' = missed \cup MsgsOf(items)
         /\ \/ Joined(queue', items, queue) /\ dropped' = dropped
            \/ queue' = queue /\ dropped' = dropped \cup ToSet(items)
<1> DEFINE free == Note \cup (Msg \ ToSet(queue))
           back == Filter(items, free)
           fits == Len(back) + Len(queue) <= MaxPending
<1>1. TypeOK /\ InflightExact /\ OneHolder /\ Msg \cap Note = {}
  BY ParentTurnsAssumption DEF IInv, Contents
<1>2. back \in Seq(Item) /\ Filtered(back, items, free)
  BY FilterList
<1>3. /\ inflight' = inflight \ MsgsOf(items) /\ missed' = missed \cup MsgsOf(items)
      /\ queue' = IF fits THEN back \o queue ELSE queue
      /\ dropped' = IF fits THEN dropped ELSE dropped \cup ToSet(back)
  BY DEF Requeue
<1> HIDE DEF back
<1>4. ToSet(items) \subseteq Item
  BY ListOf
<1>5. ToSet(items) \subseteq free
  BY <1>1, <1>4 DEF InflightExact, MsgsOf, Item
<1>6. ToSet(back) = ToSet(items) /\ \A x, y : Before(back, x, y) <=> Before(items, x, y)
  BY <1>2, <1>5, BeforeIn DEF Filtered
<1>7. /\ back \o queue \in Seq(Item) /\ Joined(back \o queue, back, queue)
      /\ Len(back \o queue) = Len(back) + Len(queue)
  BY <1>1, <1>2, ConcatList, ConcatProperties DEF TypeOK
<1>8. Joined(back \o queue, items, queue)
  BY <1>6, <1>7 DEF Joined
<1>9. Once(back \o queue)
  <2>1. MsgsOf(items) \cap MsgsOf(queue) = {}
    BY <1>1 DEF InflightExact, MsgsOf
  <2> QED BY <1>1, <1>8, <2>1, OnceJoined DEF OneHolder
<1>10. CASE fits
  BY <1>3, <1>7, <1>8, <1>9, <1>10
<1>11. CASE ~fits
  BY <1>1, <1>3, <1>6, <1>11 DEF TypeOK, OneHolder
<1> QED BY <1>10, <1>11

\* Nothing that was held is lost, and nothing is queued afresh.
LEMMA RequeueHeld ==
  ASSUME IInv, NEW items \in Seq(Item), Once(items), MsgsOf(items) \subseteq inflight, Requeue(items),
         KeepsDelivered
  PROVE  /\ \A m \in Msg : Held(m) => Held(m)'
         /\ \A m \in Msg : m \in ToSet(queue') \ missed' => m \in ToSet(queue) \ missed
         /\ missed' \subseteq Msg /\ dropped' \subseteq Item /\ inflight' \subseteq Msg
         /\ dropped \subseteq dropped'
<1>1. TypeOK
  BY DEF IInv
<1>2. /\ inflight' = inflight \ MsgsOf(items) /\ missed' = missed \cup MsgsOf(items)
      /\ \/ Joined(queue', items, queue) /\ dropped' = dropped
         \/ queue' = queue /\ dropped' = dropped \cup ToSet(items)
  BY RequeueFacts
<1>3. ToSet(items) \subseteq Item
  BY ListOf
<1>4. \A m \in Msg : Held(m) => Held(m)'
  BY <1>2 DEF Held, KeepsDelivered, MsgsOf, Joined
<1>5. \A m \in Msg : m \in ToSet(queue') \ missed' => m \in ToSet(queue) \ missed
  BY <1>2 DEF MsgsOf, Joined
<1> QED BY <1>1, <1>2, <1>3, <1>4, <1>5 DEF TypeOK, MsgsOf

\* Messages of the conversation that go back are not in the order of the line.
LEMMA RequeueOrder ==
  ASSUME IInv, NEW items \in Seq(Item), Once(items), MsgsOf(items) \subseteq inflight, Requeue(items),
         MsgsOf(items) \subseteq ToSet(history), UNCHANGED <<arrived, history>>,
         stage \notin Unapplied, batch' \in Seq(Item), consumed' \in Seq(Item), refused' \in Seq(Item),
         stage' \in Unapplied => MsgsOf(batch') \subseteq ToSet(history)
  PROVE  InOrder'
<1>1. TypeOK /\ InOrder /\ Line = queue
  BY LineFacts DEF IInv, Contents
<1>2. /\ queue' \in Seq(Item)
      /\ \/ Joined(queue', items, queue) /\ dropped' = dropped
         \/ queue' = queue /\ dropped' = dropped \cup ToSet(items)
  BY RequeueFacts
<1>3. /\ ToSet(queue) \subseteq ToSet(queue') /\ dropped \subseteq dropped'
      /\ \A m \in Msg : m \in ToSet(queue') => m \in ToSet(queue) \cup ToSet(history)
      /\ \A x, y : Before(queue, x, y) => Before(queue', x, y)
  BY <1>2 DEF Joined, MsgsOf
<1>4. /\ ToSet(queue) \subseteq ToSet(Line')
      /\ \A m \in Msg : m \in ToSet(Line') => m \in ToSet(queue) \cup ToSet(history)
      /\ \A x, y : Before(queue, x, y) => Before(Line', x, y)
  <2>1. CASE stage' \in Unapplied
    <3>1. Joined(Line', batch', queue')
      BY <1>2, <2>1, NextLists
    <3> QED BY <1>3, <2>1, <3>1 DEF Joined, MsgsOf
  <2>2. CASE stage' \notin Unapplied
    <3>1. Line' = queue'
      BY <1>2, <2>2, NextLists
    <3> QED BY <1>3, <3>1
  <2> QED BY <2>1, <2>2
<1> QED BY <1>1, <1>3, <1>4, OrderKept

\* The loop takes what is queued: the conversation has it at once.
LEMMA LoopContents ==
  ASSUME IInv, stage \in {"run", "last"}, stage' \in {"run", "last"}, Apply(queue),
         consumed' = consumed \o queue, Drain, UNCHANGED <<batch, refused, arrived, dropped>>
  PROVE  Contents' /\ consumed' \in Seq(Item) /\ queue' \in Seq(Item) /\ queue' = <<>>
         /\ inflight' = inflight \cup MsgsOf(queue)
<1>1. /\ TypeOK /\ InflightExact /\ OneHolder /\ HasApplied /\ InOrder /\ Line = queue
      /\ stage \notin Unapplied /\ stage' \notin Unapplied
  BY LineFacts DEF IInv, Contents, Unapplied
<1>2. <<>> \in Seq(Item) /\ ToSet(<<>>) = {} /\ (\A x, y : ~Before(<<>>, x, y))
  BY EmptyList
<1>3. queue' = <<>> /\ inflight' = inflight \cup MsgsOf(queue)
  BY DEF Drain
<1>4. consumed' \in Seq(Item) /\ Joined(consumed', consumed, queue)
  BY <1>1, ConcatList DEF TypeOK
<1>5. batch' \in Seq(Item) /\ refused' \in Seq(Item) /\ queue' \in Seq(Item)
  BY <1>1, <1>2, <1>3 DEF TypeOK
<1>6. inflight = MsgsOf(batch) \cup MsgsOf(consumed) \cup MsgsOf(refused)
  BY <1>1, InflightSets DEF InflightExact
<1>7. MsgsOf(consumed') = MsgsOf(consumed) \cup MsgsOf(queue)
  BY <1>4 DEF Joined, MsgsOf
<1>8. InflightExact'
  BY <1>2, <1>3, <1>4, <1>5, <1>6, <1>7, NextLists DEF InflightExact
<1>9. OneHolder'
  <2>1. inflight \cap ToSet(queue) = {}
    BY <1>1 DEF InflightExact
  <2>2. Once(consumed')
    BY <1>1, <1>4, <1>6, <2>1, OnceJoined DEF OneHolder, MsgsOf
  <2>3. Once(queue')
    BY <1>2, <1>3 DEF Once
  <2> QED BY <1>1, <1>6, <1>7, <2>1, <2>2, <2>3 DEF OneHolder, MsgsOf
<1>10. ToSet(history) \subseteq ToSet(history') /\ MsgsOf(queue) \subseteq ToSet(history')
  BY <1>1, ApplyFacts DEF TypeOK, OneHolder
<1>11. HasApplied'
  BY <1>1, <1>7, <1>10 DEF HasApplied
<1>12. InOrder'
  <2>1. Line' = queue'
    BY <1>1, <1>4, <1>5, NextLists
  <2> QED BY <1>1, <1>2, <1>3, <1>10, <2>1, OrderKept DEF MsgsOf
<1> QED BY <1>3, <1>4, <1>5, <1>8, <1>9, <1>11, <1>12 DEF Contents

\* The items a turn drained at its start are appended, or some of them.
LEMMA BatchContents ==
  ASSUME IInv, stage = "apply", NEW items \in Seq(Item), NEW rest \in Seq(Item),
         batch = items \o rest, Apply(items),
         UNCHANGED <<queue, inflight, batch, consumed, refused, arrived, dropped>>,
         \/ stage' = "run" /\ items = batch
         \/ stage' = "unwind"
  PROVE  Contents' /\ Once(items)
<1>1. /\ TypeOK /\ InflightExact /\ OneHolder /\ HasApplied /\ InOrder /\ stage \in Unapplied
      /\ Joined(Line, batch, queue)
  BY LineFacts DEF IInv, Contents, Unapplied
<1>2. Joined(batch, items, rest)
  BY ConcatList
<1>3. Once(items)
  BY <1>1, <1>2 DEF OneHolder, Once, Joined
<1>4. ToSet(history) \subseteq ToSet(history') /\ MsgsOf(items) \subseteq ToSet(history')
  BY <1>3, ApplyFacts
<1>5. InflightExact' /\ OneHolder'
  BY <1>1 DEF InflightExact, OneHolder
<1>6. HasApplied'
  BY <1>1, <1>4 DEF HasApplied, Unapplied
<1>7. batch' \in Seq(Item) /\ consumed' \in Seq(Item) /\ refused' \in Seq(Item) /\ queue' \in Seq(Item)
  BY <1>1 DEF TypeOK
<1>8. InOrder'
  <2>1. CASE stage' = "unwind"
    <3>1. Line' = Line
      BY <1>1, <2>1 DEF Line, Unapplied
    <3> QED BY <1>1, <1>4, <3>1, OrderKept
  <2>2. CASE stage' = "run" /\ items = batch
    <3>1. Line' = queue
      BY <1>7, <2>2, NextLists DEF Unapplied
    <3>2. \A x, y \in Msg : Before(Line, x, y) /\ y \notin ToSet(history')
                              => x \in ToSet(history') \/ Before(queue, x, y)
      BY <1>1, <1>4, <2>2, BeforeIn DEF Joined, MsgsOf
    <3> QED BY <1>1, <1>4, <2>2, <3>1, <3>2, OrderKept DEF Joined, MsgsOf
  <2> QED BY <2>1, <2>2
<1> QED BY <1>3, <1>5, <1>6, <1>8 DEF Contents

-----------------------------------------------------------------------------
(* The steps: what arrives and the turns that take it.                     *)

LEMMA NoticeQueuedStep == ASSUME IInv, NoticeQueued PROVE IInv'
<1> DEFINE m == notice.msg
<1>1. TypeOK /\ Shape /\ StopHolds /\ FreshIsWoken /\ NotifiedHeld /\ Written /\ InflightExact
  BY DEF IInv, Contents
<1>2. /\ notice.next = "queue" /\ notice' = [notice EXCEPT !.next = "schedule"]
      /\ \/ Known(m) /\ queue' = queue /\ arrived' = arrived
         \/ /\ ~Known(m) /\ Len(queue) < MaxPending /\ queue' = Append(queue, m)
            /\ arrived' = IF Contains(arrived, m) THEN arrived ELSE Append(arrived, m)
      /\ UNCHANGED <<envelope, claimant, created, stopped, stored, life, up, recover, notified,
                     resuming, inflight, worker, requested, paused, canceled, turn, stage, batch,
                     consumed, refused, history, writes, missed, dropped, faults, pauses>>
  BY DEF NoticeQueued, durable, waking, control, current, counters
<1>3. m \in Msg /\ m \in Item /\ m \notin Note
  BY <1>1, <1>2, ParentTurnsAssumption DEF Shape, Item
<1>4. notice'.by = notice.by /\ notice'.msg = m /\ notice'.next = "schedule"
  BY <1>1, <1>2 DEF TypeOK, Shape
<1>5. Known(m) <=> m \in ToSet(queue) \cup inflight
  BY <1>1, ContainsList DEF TypeOK, Known
<1>6. /\ queue' \in Seq(Item) /\ Len(queue') <= MaxPending /\ arrived' \in Seq(Msg)
      /\ ToSet(queue) \subseteq ToSet(queue') /\ ToSet(queue') \subseteq ToSet(queue) \cup {m}
      /\ m \in ToSet(queue') \cup inflight
      /\ TypeOK' => Contents'
  <2>1. CASE Known(m) /\ queue' = queue /\ arrived' = arrived
    BY <1>1, <1>2, <1>5, <2>1, StageChange DEF TypeOK
  <2>2. CASE /\ ~Known(m) /\ Len(queue) < MaxPending /\ queue' = Append(queue, m)
             /\ arrived' = IF Contains(arrived, m) THEN arrived ELSE Append(arrived, m)
    <3>1. arrived' = IF m \in Note \/ m \in ToSet(arrived) THEN arrived ELSE Append(arrived, m)
      BY <1>1, <1>3, <2>2, ContainsList DEF TypeOK
    <3>2. Contents' /\ queue' \in Seq(Item) /\ arrived' \in Seq(Msg)
          /\ ToSet(queue') = ToSet(queue) \cup {m}
      <4> HIDE DEF m
      <4> QED BY <1>2, <1>3, <1>5, <2>2, <3>1, AppendContents
    <3>3. Len(queue') <= MaxPending
      <4>1. queue \in Seq(Item) /\ Len(queue) \in Nat /\ MaxPending \in Nat
        BY <1>1, LenProperties, ParentTurnsAssumption DEF TypeOK
      <4>2. Len(queue') = Len(queue) + 1
        BY <1>3, <2>2, <4>1, AppendProperties
      <4> QED BY <2>2, <4>1, <4>2
    <3> QED BY <3>2, <3>3
  <2> QED BY <1>2, <2>1, <2>2
<1> HIDE DEF m
<1>7. TypeOK'
  BY <1>1, <1>2, <1>3, <1>4, <1>6, SMTT(30) DEF TypeOK
<1>8. Shape' /\ StopHolds'
  BY <1>1, <1>2, <1>3, <1>4 DEF Shape, StopHolds
<1>9. FreshIsWoken'
  BY <1>1, <1>2, <1>4, <1>6 DEF FreshIsWoken
<1>10. NotifiedHeld' /\ NoticeHeld'
  BY <1>1, <1>2, <1>4, <1>6 DEF NotifiedHeld, NoticeHeld, Held
<1>11. Written'
  BY <1>1, <1>2, SameWritten
<1> QED BY <1>6, <1>7, <1>8, <1>9, <1>10, <1>11 DEF IInv

LEMMA NoteArrivesStep == ASSUME IInv, NEW n \in Note, NoteArrives(n) PROVE IInv'
<1>1. /\ TypeOK /\ Shape /\ StopHolds /\ FreshIsWoken /\ NotifiedHeld /\ NoticeHeld /\ Written
      /\ turn = "user"
  BY DEF IInv, NoteArrives
<1>2. /\ Len(queue) < MaxPending /\ queue' = Append(queue, n)
      /\ UNCHANGED <<envelope, claimant, created, stopped, stored, life, up, recover, notice,
                     notified, resuming, inflight, worker, requested, paused, canceled, turn, stage,
                     batch, consumed, refused, history, writes, arrived, missed, dropped, faults,
                     pauses>>
  BY DEF NoteArrives, durable, process, waking, control, current, records, counters
<1>3. n \in Item /\ n \notin Msg
  BY ParentTurnsAssumption DEF Item
<1>4. Contents' /\ queue' \in Seq(Item) /\ ToSet(queue') = ToSet(queue) \cup {n}
  BY <1>2, <1>3, AppendContents
<1>5. Len(queue') <= MaxPending
  <2>1. queue \in Seq(Item) /\ Len(queue) \in Nat /\ MaxPending \in Nat
    BY <1>1, LenProperties, ParentTurnsAssumption DEF TypeOK
  <2>2. Len(queue') = Len(queue) + 1
    BY <1>2, <1>3, <2>1, AppendProperties
  <2> QED BY <1>2, <2>1, <2>2
<1>6. TypeOK'
  BY <1>1, <1>2, <1>4, <1>5, SMTT(30) DEF TypeOK
<1>7. Shape' /\ StopHolds' /\ FreshIsWoken'
  BY <1>1, <1>2, <1>3, <1>4 DEF Shape, StopHolds, FreshIsWoken
<1>8. NotifiedHeld' /\ NoticeHeld'
  BY <1>1, <1>2, <1>4 DEF NotifiedHeld, NoticeHeld, Held
<1>9. Written'
  BY <1>1, <1>2, SameWritten
<1> QED BY <1>4, <1>6, <1>7, <1>8, <1>9 DEF IInv

LEMMA WorkerBeginStep == ASSUME IInv, WorkerBegin PROVE IInv'
<1>1. /\ TypeOK /\ Shape /\ StopHolds /\ FreshIsWoken /\ NotifiedHeld /\ NoticeHeld /\ Written
      /\ worker = "want" /\ turn = "none" /\ stage = "none" /\ up # "down"
  BY DEF IInv, WorkerBegin, Shape
<1>2. UNCHANGED <<envelope, claimant, created, stopped, stored, life, up, recover, notice, notified,
                  resuming, requested, paused, consumed, refused, history, writes, arrived, dropped,
                  pauses>>
  BY DEF WorkerBegin, durable, process
<1>3. Written'
  BY <1>1, <1>2, SameWritten
<1>4. CASE /\ worker' = "decide" /\ missed' \subseteq Msg /\ missed \subseteq missed'
           /\ MsgsOf(queue) \subseteq missed' /\ faults' \in 0..MaxFaults
           /\ UNCHANGED <<queue, inflight, canceled, turn, stage, batch>>
  <2>1. TypeOK'
    BY <1>1, <1>2, <1>4, SMTT(30) DEF TypeOK
  <2>2. Shape' /\ StopHolds' /\ FreshIsWoken'
    BY <1>1, <1>2, <1>4 DEF Shape, StopHolds, FreshIsWoken, MsgsOf
  <2>3. NotifiedHeld' /\ NoticeHeld'
    BY <1>1, <1>2, <1>4 DEF NotifiedHeld, NoticeHeld, Held
  <2>4. Contents'
    BY <1>2, <1>4, <2>1, StageChange
  <2> QED BY <1>3, <2>1, <2>2, <2>3, <2>4 DEF IInv
<1>5. CASE /\ ~paused /\ ~stopped /\ worker' = "turn" /\ turn' = "worker" /\ stage' = "apply"
           /\ batch' = queue /\ Drain /\ canceled' = FALSE /\ missed' = missed /\ faults' = faults
  <2>1. Contents' /\ queue' \in Seq(Item) /\ inflight' \subseteq Msg /\ ToSet(queue') = {}
    BY <1>1, <1>2, <1>5, DrainContents
  <2>2. Len(queue') <= MaxPending
    BY <1>5, EmptySeq, ParentTurnsAssumption DEF Drain
  <2>3. TypeOK'
    BY <1>1, <1>2, <1>5, <2>1, <2>2 DEF TypeOK, Stage
  <2>4. Shape' /\ StopHolds' /\ FreshIsWoken'
    BY <1>1, <1>2, <1>5, <2>1 DEF Shape, StopHolds, FreshIsWoken
  <2>5. NotifiedHeld' /\ NoticeHeld'
    BY <1>1, <1>2, <1>5 DEF NotifiedHeld, NoticeHeld, Held, Drain, MsgsOf, TypeOK, Shape
  <2> QED BY <1>3, <2>1, <2>3, <2>4, <2>5 DEF IInv
<1>6. \/ /\ worker' = "decide" /\ missed' \subseteq Msg /\ missed \subseteq missed'
         /\ MsgsOf(queue) \subseteq missed' /\ faults' \in 0..MaxFaults
         /\ UNCHANGED <<queue, inflight, canceled, turn, stage, batch>>
      \/ /\ ~paused /\ ~stopped /\ worker' = "turn" /\ turn' = "worker" /\ stage' = "apply"
         /\ batch' = queue /\ Drain /\ canceled' = FALSE /\ missed' = missed /\ faults' = faults
  <2>1. CASE /\ paused \/ stopped \/ faults < MaxFaults
             /\ faults' = IF paused \/ stopped THEN faults ELSE faults + 1
             /\ worker' = "decide" /\ missed' = missed \cup MsgsOf(queue)
             /\ UNCHANGED <<mailbox, canceled, turn, stage, batch>>
    <3>1. faults' \in 0..MaxFaults
      BY <1>1, <2>1, ParentTurnsAssumption DEF TypeOK
    <3> QED BY <1>1, <2>1, <3>1 DEF TypeOK, mailbox, MsgsOf
  <2>2. CASE /\ queue = <<>> /\ worker' = "decide"
             /\ UNCHANGED <<mailbox, canceled, turn, stage, batch, missed, faults>>
    <3>1. MsgsOf(queue) = {}
      BY <2>2, EmptyList DEF MsgsOf
    <3> QED BY <1>1, <2>2, <3>1 DEF TypeOK, mailbox
  <2>3. CASE /\ ~paused /\ ~stopped
             /\ worker' = "turn" /\ turn' = "worker" /\ stage' = "apply"
             /\ batch' = queue /\ Drain /\ canceled' = FALSE /\ UNCHANGED <<missed, faults>>
    BY <2>3
  <2> QED BY <2>1, <2>2, <2>3 DEF WorkerBegin
<1> QED BY <1>4, <1>5, <1>6

LEMMA StartUserStep == ASSUME IInv, StartUser PROVE IInv'
<1>1. /\ TypeOK /\ Shape /\ FreshIsWoken /\ NotifiedHeld /\ NoticeHeld /\ Written
  BY DEF IInv
<1>2. /\ up = "on" /\ turn = "none" /\ stopped' = FALSE /\ paused' = FALSE
      /\ turn' = "user" /\ stage' = "run"
      /\ UNCHANGED <<envelope, claimant, created, stored, life, up, recover, notice, notified,
                     resuming, queue, inflight, worker, requested, canceled, batch, consumed,
                     refused, history, writes, arrived, missed, dropped, faults, pauses>>
  BY DEF StartUser, ResumeContinuations, process, mailbox, waking, records, counters
<1>3. TypeOK'
  BY <1>1, <1>2, ZenonT(40) DEF TypeOK, Stage
<1>4. Shape' /\ StopHolds' /\ FreshIsWoken' /\ NotifiedHeld' /\ NoticeHeld'
  BY <1>1, <1>2 DEF Shape, StopHolds, FreshIsWoken, NotifiedHeld, NoticeHeld, Held
<1>5. Contents'
  BY <1>1, <1>2, <1>3, StageChange DEF Shape, Unapplied
<1>6. Written'
  BY <1>1, <1>2, SameWritten
<1> QED BY <1>3, <1>4, <1>5, <1>6 DEF IInv

LEMMA StartResumeStep == ASSUME IInv, StartResume PROVE IInv'
<1>1. /\ TypeOK /\ Shape /\ StopHolds /\ FreshIsWoken /\ NotifiedHeld /\ NoticeHeld /\ Written
      /\ turn = "none" /\ stage = "none" /\ up # "down"
  BY DEF IInv, StartResume, Shape
<1>2. /\ resuming' = FALSE
      /\ UNCHANGED <<envelope, claimant, created, stored, life, up, recover, notice, notified,
                     worker, requested, canceled, consumed, refused, history, writes, arrived,
                     missed, dropped, pauses>>
  BY DEF StartResume, waking, records
<1>3. Written'
  BY <1>1, <1>2, SameWritten
<1>4. CASE /\ faults' = faults \/ Fault
           /\ stopped' \in {stopped, FALSE} /\ paused' \in {paused, FALSE}
           /\ UNCHANGED <<queue, inflight, turn, stage, batch>>
  <2>1. faults' \in 0..MaxFaults
    BY <1>1, <1>4, ParentTurnsAssumption, SMTT(30) DEF TypeOK, Fault
  <2>2. stopped' \in BOOLEAN /\ paused' \in BOOLEAN
    BY <1>1, <1>4 DEF TypeOK
  <2>3. TypeOK'
    BY <1>1, <1>2, <1>4, <2>1, <2>2, ZenonT(40) DEF TypeOK
  <2>4. Shape' /\ StopHolds' /\ FreshIsWoken' /\ NotifiedHeld' /\ NoticeHeld'
    BY <1>1, <1>2, <1>4 DEF Shape, StopHolds, FreshIsWoken, NotifiedHeld, NoticeHeld, Held
  <2>5. Contents'
    BY <1>2, <1>4, <2>3, StageChange
  <2> QED BY <1>3, <2>3, <2>4, <2>5 DEF IInv
<1>5. CASE /\ stopped' = FALSE /\ paused' = FALSE /\ faults' = faults
           /\ turn' = "resume" /\ stage' = "apply" /\ batch' = queue /\ Drain
  <2>1. Contents' /\ queue' \in Seq(Item) /\ inflight' \subseteq Msg /\ ToSet(queue') = {}
    BY <1>1, <1>2, <1>5, DrainContents
  <2>2. Len(queue') <= MaxPending
    BY <1>5, EmptySeq, ParentTurnsAssumption DEF Drain
  <2>3. TypeOK'
    BY <1>1, <1>2, <1>5, <2>1, <2>2, ZenonT(40) DEF TypeOK, Stage
  <2>4. Shape' /\ StopHolds' /\ FreshIsWoken'
    BY <1>1, <1>2, <1>5, <2>1 DEF Shape, StopHolds, FreshIsWoken
  <2>5. NotifiedHeld' /\ NoticeHeld'
    BY <1>1, <1>2, <1>5 DEF NotifiedHeld, NoticeHeld, Held, Drain, MsgsOf, TypeOK, Shape
  <2> QED BY <1>3, <2>1, <2>3, <2>4, <2>5 DEF IInv
<1> QED BY <1>4, <1>5 DEF StartResume, ResumeContinuations, mailbox

\* What the turn drained is appended, or a first part of it.
LEMMA ApplyBatchItems ==
  ASSUME TypeOK, ApplyBatch
  PROVE  \E items \in Seq(Item), rest \in Seq(Item) :
           batch = items \o rest /\ Apply(items) /\ ((stage' = "run" /\ items = batch) \/ stage' = "unwind")
<1>1. CASE stage' = "run" /\ Apply(batch)
  <2>1. batch \in Seq(Item) /\ <<>> \in Seq(Item) /\ batch = batch \o <<>>
    BY EmptyList, ConcatEmptySeq DEF TypeOK
  <2> QED BY <1>1, <2>1
<1>2. CASE stage' = "unwind" /\ \E n \in 0..Len(batch) - 1 : Apply(SubSeq(batch, 1, n))
  <2>1. PICK n \in 0..Len(batch) - 1 : Apply(SubSeq(batch, 1, n))
    BY <1>2
  <2>2. batch \in Seq(Item) /\ n \in 0..Len(batch)
    BY LenProperties DEF TypeOK
  <2> QED BY <1>2, <2>1, <2>2, PrefixList, ZenonT(40)
<1> QED BY <1>1, <1>2 DEF ApplyBatch

LEMMA ApplyBatchStep == ASSUME IInv, ApplyBatch PROVE IInv'
<1>1. /\ TypeOK /\ Shape /\ StopHolds /\ FreshIsWoken /\ NotifiedHeld /\ NoticeHeld
      /\ stage = "apply" /\ up # "down"
  BY DEF IInv, ApplyBatch, Shape
<1>2. /\ \/ stage' = "run" /\ Apply(batch) /\ faults' = faults
         \/ Fault /\ stage' = "unwind" /\ \E n \in 0..Len(batch) - 1 : Apply(SubSeq(batch, 1, n))
      /\ UNCHANGED <<envelope, claimant, created, stopped, stored, life, up, recover, notice,
                     notified, resuming, queue, inflight, worker, requested, paused, canceled, turn,
                     batch, consumed, refused, arrived, missed, dropped, pauses>>
  BY DEF ApplyBatch, durable, process, mailbox, waking, control, records
<1>3. PICK items \in Seq(Item), rest \in Seq(Item) :
         batch = items \o rest /\ Apply(items) /\ ((stage' = "run" /\ items = batch) \/ stage' = "unwind")
  BY <1>1, ApplyBatchItems
<1>4. Contents' /\ Once(items)
  BY <1>1, <1>2, <1>3, BatchContents
<1>5. history' \in Seq(Item) /\ writes' \in Seq(Item) /\ Written'
  BY <1>1, <1>2, <1>3, <1>4, ApplyFacts
<1>6. faults' \in 0..MaxFaults /\ stage' \in {"run", "unwind"}
  <2>1. faults \in 0..MaxFaults /\ (faults' = faults \/ Fault)
    BY <1>1, <1>2 DEF TypeOK
  <2>2. faults' \in 0..MaxFaults
    BY <2>1, ParentTurnsAssumption DEF Fault
  <2> QED BY <1>3, <2>2
<1>7. TypeOK'
  <2>1. /\ TypeOK /\ stage' \in Stage /\ faults' \in 0..MaxFaults
        /\ history' \in Seq(Item) /\ writes' \in Seq(Item)
    BY <1>1, <1>5, <1>6 DEF Stage
  <2>2. /\ created' \in Seq(Msg) /\ stored' \in Seq(Item)
        /\ stopped' \in BOOLEAN /\ paused' \in BOOLEAN /\ canceled' \in BOOLEAN
        /\ requested' \in BOOLEAN /\ resuming' \in BOOLEAN
        /\ life' \in 1..MaxCrashes + 1 /\ up' \in {"down", "boot", "on"}
        /\ recover' \in Seq(Msg) /\ notified' \subseteq Msg
        /\ worker' \in {"none", "want", "turn", "decide"}
        /\ turn' \in {"none", "user", "resume", "worker"}
        /\ arrived' \in Seq(Msg) /\ pauses' \in 0..MaxPauses
    BY <1>2, <2>1 DEF TypeOK
  <2>3. /\ envelope' \in [Msg -> {"none", "pending", "delivering", "delivered"}]
        /\ claimant' \in [Msg -> 0..MaxCrashes + 1]
        /\ batch' \in Seq(Item) /\ consumed' \in Seq(Item) /\ refused' \in Seq(Item)
        /\ queue' \in Seq(Item) /\ Len(queue') <= MaxPending
        /\ inflight' \subseteq Msg /\ missed' \subseteq Msg /\ dropped' \subseteq Item
    BY <1>2, <2>1 DEF TypeOK
  <2>4. /\ notice'.by \in {"nobody", "task", "resume", "recovery"}
        /\ notice'.msg \in Msg \cup {Nobody}
        /\ notice'.next \in {"none", "queue", "schedule", "finish"}
    BY <1>2, <2>1 DEF TypeOK
  <2> QED BY <2>1, <2>2, <2>3, <2>4 DEF TypeOK
<1>8. Shape' /\ StopHolds' /\ FreshIsWoken' /\ NotifiedHeld' /\ NoticeHeld'
  BY <1>1, <1>2, <1>6 DEF Shape, StopHolds, FreshIsWoken, NotifiedHeld, NoticeHeld, Held
<1> QED BY <1>4, <1>5, <1>7, <1>8 DEF IInv

\* A round of the loop, also the last one.
LEMMA LoopStep ==
  ASSUME IInv, stage = "run", stage' \in {"run", "last"}, Apply(queue),
         consumed' = consumed \o queue, Drain,
         UNCHANGED <<durable, process, waking, control, turn, batch, refused, records, counters>>
  PROVE  IInv'
<1>1. /\ TypeOK /\ Shape /\ StopHolds /\ FreshIsWoken /\ NotifiedHeld /\ NoticeHeld /\ Once(queue)
      /\ up # "down"
  BY DEF IInv, Shape, Contents, OneHolder
<1>2. UNCHANGED <<envelope, claimant, created, stopped, stored, life, up, recover, notice,
                  notified, resuming, worker, requested, paused, canceled, turn,
                  batch, refused, arrived, missed, dropped, faults, pauses>>
  BY DEF durable, process, waking, control, records, counters
<1>3. Contents' /\ consumed' \in Seq(Item) /\ queue' \in Seq(Item) /\ queue' = <<>>
      /\ inflight' = inflight \cup MsgsOf(queue)
  BY <1>2, LoopContents
<1>4. history' \in Seq(Item) /\ writes' \in Seq(Item) /\ Written'
  BY <1>1, <1>2, ApplyFacts DEF TypeOK
<1>5. Len(queue') <= MaxPending /\ inflight' \subseteq Msg /\ ToSet(queue') = {}
  BY <1>1, <1>3, EmptySeq, EmptyList, ParentTurnsAssumption DEF TypeOK, MsgsOf
<1>6. TypeOK'
  BY <1>1, <1>2, <1>3, <1>4, <1>5, SMTT(30) DEF TypeOK, Stage
<1>7. Shape' /\ StopHolds' /\ FreshIsWoken'
  BY <1>1, <1>2, <1>5 DEF Shape, StopHolds, FreshIsWoken
<1>8. NotifiedHeld' /\ NoticeHeld'
  BY <1>1, <1>2, <1>3 DEF NotifiedHeld, NoticeHeld, Held, MsgsOf, TypeOK, Shape
<1> QED BY <1>3, <1>4, <1>6, <1>7, <1>8 DEF IInv

-----------------------------------------------------------------------------
(* The end of a turn: what it settles and what it puts back.               *)

\* The lists of a turn as a whole are its claim set.
Settled(claims) ==
  /\ batch' \in Seq(Item) /\ consumed' \in Seq(Item) /\ refused' \in Seq(Item)
  /\ Once(batch') /\ Once(consumed') /\ Once(refused')
  /\ MsgsOf(batch') \cap MsgsOf(consumed') = {}
  /\ MsgsOf(batch') \cap MsgsOf(refused') = {}
  /\ MsgsOf(consumed') \cap MsgsOf(refused') = {}
  /\ claims = MsgsOf(batch') \cup MsgsOf(consumed') \cup MsgsOf(refused')

\* Lists of a turn that change while the queue does not.
LEMMA ListsContents ==
  ASSUME IInv, Settled(inflight'), inflight' \subseteq inflight,
         UNCHANGED <<queue, history, arrived, dropped>>,
         stage \notin Unapplied, stage' \notin Unapplied
  PROVE  Contents'
<1>1. /\ TypeOK /\ InflightExact /\ OneHolder /\ HasApplied /\ InOrder /\ Line = queue
  BY LineFacts DEF IInv, Contents
<1>2. inflight \subseteq ToSet(history)
  BY <1>1, InflightSets DEF InflightExact, HasApplied
<1>3. queue' \in Seq(Item)
  BY <1>1 DEF TypeOK
<1>4. InflightExact' /\ HasApplied' /\ Line' = queue
  BY <1>1, <1>2, <1>3, NextLists DEF InflightExact, HasApplied, Settled
<1>5. OneHolder'
  BY <1>1 DEF OneHolder, Settled
<1>6. InOrder'
  BY <1>1, <1>4 DEF InOrder
<1> QED BY <1>4, <1>5, <1>6 DEF Contents

\* Lists of a turn from which something goes back to the queue.
LEMMA RequeueContents ==
  ASSUME IInv, NEW items \in Seq(Item), Once(items), MsgsOf(items) \subseteq inflight,
         Requeue(items), Settled(inflight \ MsgsOf(items)), history' = history, InOrder',
         MsgsOf(consumed') \cup MsgsOf(refused') \subseteq ToSet(history),
         stage' \notin Unapplied => MsgsOf(batch') \subseteq ToSet(history)
  PROVE  Contents'
<1>1. TypeOK /\ InflightExact
  BY DEF IInv, Contents
<1>2. /\ queue' \in Seq(Item) /\ Once(queue') /\ inflight' = inflight \ MsgsOf(items)
      /\ \A m \in Msg : m \in ToSet(queue') => m \in MsgsOf(items) \cup ToSet(queue)
  BY RequeueFacts DEF Joined, MsgsOf
<1>3. InflightExact'
  BY <1>1, <1>2, NextLists DEF InflightExact, Settled, TypeOK
<1>4. OneHolder' /\ HasApplied'
  BY <1>2 DEF OneHolder, HasApplied, Settled
<1> QED BY <1>3, <1>4 DEF Contents

\* The parts of the mailbox that a requeue types and keeps.
LEMMA RequeueKeeps ==
  ASSUME IInv, NEW items \in Seq(Item), Once(items), MsgsOf(items) \subseteq inflight, Requeue(items),
         KeepsDelivered, UNCHANGED <<notice, notified, requested>>,
         worker = "want" => worker' = "want"
  PROVE  /\ FreshIsWoken' /\ NotifiedHeld' /\ NoticeHeld'
         /\ queue' \in Seq(Item) /\ Len(queue') <= MaxPending
         /\ inflight' \subseteq Msg /\ missed' \subseteq Msg /\ dropped' \subseteq Item
<1>1. TypeOK /\ Shape /\ FreshIsWoken /\ NotifiedHeld /\ NoticeHeld
  BY DEF IInv
<1>2. /\ \A m \in Msg : Held(m) => Held(m)'
      /\ \A m \in Msg : m \in ToSet(queue') \ missed' => m \in ToSet(queue) \ missed
      /\ missed' \subseteq Msg /\ dropped' \subseteq Item /\ inflight' \subseteq Msg
  BY RequeueHeld
<1>3. queue' \in Seq(Item) /\ Len(queue') <= MaxPending
  BY RequeueFacts
<1>4. FreshIsWoken'
  BY <1>1, <1>2 DEF FreshIsWoken
<1>5. NotifiedHeld' /\ NoticeHeld'
  <2>1. \A m \in notified : m \in Msg /\ Held(m)
    BY <1>1 DEF TypeOK, NotifiedHeld, Held
  <2>2. notice.next \in {"schedule", "finish"} => notice.msg \in Msg /\ Held(notice.msg)
    BY <1>1 DEF Shape, NoticeHeld
  <2> QED BY <1>2, <2>1, <2>2 DEF NotifiedHeld, NoticeHeld, Held
<1> QED BY <1>2, <1>3, <1>4, <1>5

\* The lists of the turn, as they are.
LEMMA NowSettled ==
  ASSUME IInv
  PROVE  /\ batch \in Seq(Item) /\ consumed \in Seq(Item) /\ refused \in Seq(Item)
         /\ Once(batch) /\ Once(consumed) /\ Once(refused)
         /\ MsgsOf(batch) \cap MsgsOf(consumed) = {}
         /\ MsgsOf(batch) \cap MsgsOf(refused) = {}
         /\ MsgsOf(consumed) \cap MsgsOf(refused) = {}
         /\ inflight = MsgsOf(batch) \cup MsgsOf(consumed) \cup MsgsOf(refused)
BY InflightSets DEF IInv, Contents, OneHolder, InflightExact, TypeOK

LEMMA EmptySettled == <<>> \in Seq(Item) /\ Once(<<>>) /\ MsgsOf(<<>>) = {} /\ <<>> \in Seq(Msg)
BY EmptyList DEF Once, MsgsOf

LEMMA IdentifiedFacts ==
  ASSUME NEW items \in Seq(Item), Once(items)
  PROVE  /\ Identified(items) \in Seq(Item) /\ Identified(items) \in Seq(Msg)
         /\ Once(Identified(items)) /\ MsgsOf(Identified(items)) = MsgsOf(items)
<1>1. /\ Identified(items) \in Seq(Item) /\ Identified(items) \in Seq(Item \cap Msg)
      /\ Filtered(Identified(items), items, Msg)
  BY FilterList DEF Identified
<1>2. Item \cap Msg = Msg
  BY DEF Item
<1> QED BY <1>1, <1>2 DEF Filtered, Once, MsgsOf

\* The message whose acknowledgement is next.
LEMMA SettleFacts ==
  ASSUME IInv, stage \in {"ack", "acking", "settle", "settling"}, Unsettled # <<>>
  PROVE  LET h == Head(Unsettled) IN
         /\ h \in Msg /\ h \in inflight /\ h \in ToSet(history) /\ h \notin MsgsOf(refused)
         /\ SettleHead =>
              /\ stage \in {"ack", "acking"} => consumed' \in Seq(Msg) /\ stage' = "ack"
              /\ stage \in {"settle", "settling"} => batch' \in Seq(Msg) /\ stage' = "settle"
                                                       /\ consumed' = consumed
              /\ batch' \in Seq(Item) /\ consumed' \in Seq(Item)
              /\ Once(batch') /\ Once(consumed') /\ MsgsOf(batch') \cap MsgsOf(consumed') = {}
              /\ MsgsOf(batch') \cup MsgsOf(consumed')
                   = (MsgsOf(batch) \cup MsgsOf(consumed)) \ {h}
              /\ MsgsOf(batch') \subseteq MsgsOf(batch) /\ MsgsOf(consumed') \subseteq MsgsOf(consumed)
<1> DEFINE h == Head(Unsettled)
           rest == Tail(Unsettled)
<1>1. /\ Shape /\ HasApplied
      /\ batch \in Seq(Item) /\ consumed \in Seq(Item)
      /\ Once(batch) /\ Once(consumed)
      /\ MsgsOf(batch) \cap MsgsOf(consumed) = {}
      /\ MsgsOf(batch) \cap MsgsOf(refused) = {}
      /\ MsgsOf(consumed) \cap MsgsOf(refused) = {}
      /\ inflight = MsgsOf(batch) \cup MsgsOf(consumed) \cup MsgsOf(refused)
  BY NowSettled DEF IInv, Contents
<1>2. /\ Unsettled \in Seq(Msg) /\ Once(Unsettled)
      /\ stage \in {"ack", "acking"} => Unsettled = consumed
      /\ stage \in {"settle", "settling"} => Unsettled = batch
  BY <1>1 DEF Unsettled, Shape
<1>3. /\ h \in Msg /\ rest \in Seq(Msg) /\ ToSet(Unsettled) = ToSet(rest) \cup {h}
      /\ \A x, y : Before(Unsettled, x, y) <=> (Before(rest, x, y) \/ (x = h /\ y \in ToSet(rest)))
  BY <1>2, TailList
<1>4. h \in inflight /\ h \in ToSet(history) /\ h \notin MsgsOf(refused)
  BY <1>1, <1>2, <1>3 DEF MsgsOf, HasApplied, Unapplied
<1>5. /\ Once(rest) /\ MsgsOf(rest) = MsgsOf(Unsettled) \ {h} /\ rest \in Seq(Item)
  <2>1. Once(rest) /\ h \notin ToSet(rest)
    BY <1>2, <1>3 DEF Once
  <2>2. rest \in Seq(Item)
    BY <1>3, SeqMonotonic DEF Item
  <2> QED BY <1>3, <2>1, <2>2 DEF MsgsOf
<1>6. SettleHead => /\ stage \in {"ack", "acking"} => consumed' = rest /\ batch' = batch /\ stage' = "ack"
                    /\ stage \in {"settle", "settling"} =>
                         batch' = rest /\ consumed' = consumed /\ stage' = "settle"
  BY <1>2 DEF SettleHead
<1> HIDE DEF h, rest
<1>7. ASSUME SettleHead, stage \in {"ack", "acking"}
      PROVE  /\ consumed' \in Seq(Msg) /\ stage' = "ack" /\ batch' \in Seq(Item) /\ consumed' \in Seq(Item)
             /\ Once(batch') /\ Once(consumed') /\ MsgsOf(batch') \cap MsgsOf(consumed') = {}
             /\ MsgsOf(batch') \cup MsgsOf(consumed') = (MsgsOf(batch) \cup MsgsOf(consumed)) \ {h}
             /\ MsgsOf(batch') \subseteq MsgsOf(batch) /\ MsgsOf(consumed') \subseteq MsgsOf(consumed)
  <2>1. h \in MsgsOf(consumed)
    BY <1>2, <1>3, <1>7 DEF MsgsOf
  <2>2. consumed' = rest /\ batch' = batch /\ stage' = "ack" /\ Unsettled = consumed
    BY <1>2, <1>6, <1>7
  <2> QED BY <1>1, <1>3, <1>5, <2>1, <2>2
<1>8. ASSUME SettleHead, stage \in {"settle", "settling"}
      PROVE  /\ batch' \in Seq(Msg) /\ stage' = "settle" /\ batch' \in Seq(Item) /\ consumed' \in Seq(Item)
             /\ consumed' = consumed
             /\ Once(batch') /\ Once(consumed') /\ MsgsOf(batch') \cap MsgsOf(consumed') = {}
             /\ MsgsOf(batch') \cup MsgsOf(consumed') = (MsgsOf(batch) \cup MsgsOf(consumed)) \ {h}
             /\ MsgsOf(batch') \subseteq MsgsOf(batch) /\ MsgsOf(consumed') \subseteq MsgsOf(consumed)
  <2>1. h \in MsgsOf(batch)
    BY <1>2, <1>3, <1>8 DEF MsgsOf
  <2>2. batch' = rest /\ consumed' = consumed /\ stage' = "settle" /\ Unsettled = batch
    BY <1>2, <1>6, <1>8
  <2> QED BY <1>1, <1>3, <1>5, <2>1, <2>2
<1> QED BY <1>3, <1>4, <1>7, <1>8 DEF h

\* The number of faults after a step that may fail.
LEMMA FaultBound == ASSUME TypeOK, faults' = faults \/ Fault PROVE faults' \in 0..MaxFaults
BY ParentTurnsAssumption, SMTT(30) DEF TypeOK, Fault

LEMMA AnswerStep == ASSUME IInv, Answer PROVE IInv'
<1>1. /\ TypeOK /\ Shape /\ StopHolds /\ FreshIsWoken /\ NotifiedHeld /\ NoticeHeld /\ Written
      /\ stage \in {"run", "last"} /\ up # "down" /\ turn # "none" /\ refused = <<>>
  BY DEF IInv, Answer, Shape
<1>2. /\ stage' = "ack" /\ consumed' = Identified(consumed)
      /\ UNCHANGED <<envelope, claimant, created, stopped, stored, life, up, recover, notice,
                     notified, resuming, queue, inflight, worker, requested, paused, canceled, turn,
                     batch, refused, history, writes, arrived, missed, dropped, faults, pauses>>
  BY DEF Answer, durable, process, mailbox, waking, control, records, counters
<1>3. /\ consumed' \in Seq(Item) /\ consumed' \in Seq(Msg) /\ Once(consumed')
      /\ MsgsOf(consumed') = MsgsOf(consumed)
  <2>1. consumed \in Seq(Item) /\ Once(consumed)
    BY NowSettled
  <2> QED BY <1>2, <2>1, IdentifiedFacts
<1>4. TypeOK'
  BY <1>1, <1>2, <1>3, SMTT(30) DEF TypeOK, Stage
<1>5. Shape' /\ StopHolds' /\ FreshIsWoken' /\ NotifiedHeld' /\ NoticeHeld'
  BY <1>1, <1>2, <1>3 DEF Shape, StopHolds, FreshIsWoken, NotifiedHeld, NoticeHeld, Held
<1>6. Settled(inflight')
  BY <1>2, <1>3, NowSettled DEF Settled
<1>7. Contents'
  BY <1>1, <1>2, <1>6, ListsContents DEF Unapplied
<1>8. Written'
  BY <1>1, <1>2, SameWritten
<1> QED BY <1>4, <1>5, <1>7, <1>8 DEF IInv

LEMMA TurnFailsStep == ASSUME IInv, TurnFails PROVE IInv'
<1>1. /\ TypeOK /\ Shape /\ StopHolds /\ FreshIsWoken /\ NotifiedHeld /\ NoticeHeld /\ Written
      /\ stage \in {"run", "last"} /\ stage' = "failed" /\ (faults' = faults \/ Fault)
  BY DEF IInv, TurnFails
<1>2. UNCHANGED <<envelope, claimant, created, stopped, stored, life, up, recover, notice,
                  notified, resuming, queue, inflight, worker, requested, paused, canceled, turn,
                  batch, consumed, refused, history, writes, arrived, missed, dropped, pauses>>
  BY DEF TurnFails, durable, process, mailbox, waking, control, records
<1>3. TypeOK'
  <2>1. faults' \in 0..MaxFaults
    BY <1>1, FaultBound
  <2> QED BY <1>1, <1>2, <2>1, SMTT(30) DEF TypeOK, Stage
<1>4. Shape' /\ StopHolds' /\ FreshIsWoken' /\ NotifiedHeld' /\ NoticeHeld'
  BY <1>1, <1>2 DEF Shape, StopHolds, FreshIsWoken, NotifiedHeld, NoticeHeld, Held
<1>5. Contents'
  BY <1>1, <1>2, <1>3, StageChange DEF Unapplied
<1>6. Written'
  BY <1>1, <1>2, SameWritten
<1> QED BY <1>3, <1>4, <1>5, <1>6 DEF IInv

LEMMA AckClaimStep == ASSUME IInv, AckClaim PROVE IInv'
<1> DEFINE h == Head(Unsettled)
<1>1. /\ TypeOK /\ Shape /\ StopHolds /\ FreshIsWoken /\ NotifiedHeld /\ NoticeHeld /\ Written
      /\ stage \in {"ack", "settle"} /\ Unsettled # <<>>
      /\ stage' = IF stage = "ack" THEN "acking" ELSE "settling"
  BY DEF IInv, AckClaim
<1>2. UNCHANGED <<created, stopped, stored, life, up, recover, notice,
                  notified, resuming, queue, inflight, worker, requested, paused, canceled, turn,
                  batch, consumed, refused, history, writes, arrived, missed, dropped, faults, pauses>>
  BY DEF AckClaim, process, mailbox, waking, control, records, counters
<1>3. h \in Msg
  BY <1>1, SettleFacts
<1>4. /\ envelope' \in [Msg -> {"none", "pending", "delivering", "delivered"}]
      /\ claimant' \in [Msg -> 0..MaxCrashes + 1] /\ KeepsDelivered
  <2> HIDE DEF h
  <2>1. PICK lapsed \in BOOLEAN : CanClaim(h, lapsed) /\ Claim(h)
    BY DEF AckClaim, h
  <2> QED BY <1>1, <1>3, <2>1, ClaimFacts
<1>5. TypeOK'
  BY <1>1, <1>2, <1>4, SMTT(30) DEF TypeOK, Stage
<1>6. Shape' /\ StopHolds' /\ FreshIsWoken'
  BY <1>1, <1>2 DEF Shape, StopHolds, FreshIsWoken, Unsettled
<1>7. NotifiedHeld' /\ NoticeHeld'
  <2>1. \A n \in Msg : Held(n) => Held(n)'
    BY <1>2, <1>4, SameHeld
  <2> QED BY <1>1, <1>2, <2>1 DEF TypeOK, Shape, NotifiedHeld, NoticeHeld, Held
<1>8. Contents'
  BY <1>1, <1>2, <1>5, StageChange DEF Unapplied
<1>9. Written'
  BY <1>1, <1>2, SameWritten
<1> QED BY <1>5, <1>6, <1>7, <1>8, <1>9 DEF IInv

LEMMA AckCompleteStep == ASSUME IInv, AckComplete PROVE IInv'
<1> DEFINE h == Head(Unsettled)
<1>1. /\ TypeOK /\ Shape /\ StopHolds /\ FreshIsWoken /\ NotifiedHeld /\ NoticeHeld /\ Written
      /\ stage \in {"acking", "settling"} /\ turn # "none" /\ up # "down" /\ Unsettled # <<>>
      /\ HoldsClaim(h) /\ GiveUpClaim(h, "delivered") /\ inflight' = inflight \ {h} /\ SettleHead
  BY DEF IInv, AckComplete, Shape, Unsettled
<1>2. UNCHANGED <<created, stopped, stored, life, up, recover, notice, notified, resuming, queue,
                  worker, requested, paused, canceled, turn, refused, history, writes, arrived,
                  missed, dropped, faults, pauses>>
  BY DEF AckComplete, process, waking, control, records, counters
<1>3. /\ h \in Msg /\ h \notin MsgsOf(refused)
      /\ stage = "acking" => consumed' \in Seq(Msg) /\ stage' = "ack"
      /\ stage = "settling" => batch' \in Seq(Msg) /\ stage' = "settle" /\ consumed' = consumed
      /\ batch' \in Seq(Item) /\ consumed' \in Seq(Item)
      /\ Once(batch') /\ Once(consumed') /\ MsgsOf(batch') \cap MsgsOf(consumed') = {}
      /\ MsgsOf(batch') \cup MsgsOf(consumed') = (MsgsOf(batch) \cup MsgsOf(consumed)) \ {h}
      /\ MsgsOf(batch') \subseteq MsgsOf(batch) /\ MsgsOf(consumed') \subseteq MsgsOf(consumed)
  BY <1>1, SettleFacts
<1> HIDE DEF h
<1>4. /\ envelope' \in [Msg -> {"none", "pending", "delivering", "delivered"}]
      /\ claimant' \in [Msg -> 0..MaxCrashes + 1] /\ KeepsDelivered
  BY <1>1, <1>3, GiveUpFacts
<1>5. TypeOK'
  <2>1. TypeOK /\ stage' \in Stage /\ inflight' \subseteq Msg
    BY <1>1, <1>3 DEF TypeOK, Stage
  <2>2. batch' \in Seq(Item) /\ consumed' \in Seq(Item)
    BY <1>3
  <2> QED BY <1>2, <1>4, <2>1, <2>2, SMTT(30) DEF TypeOK
<1>6. Shape' /\ StopHolds' /\ FreshIsWoken'
  BY <1>1, <1>2, <1>3 DEF Shape, StopHolds, FreshIsWoken
<1>7. NotifiedHeld' /\ NoticeHeld'
  <2>1. envelope'[h] = "delivered"
    BY <1>1, <1>3 DEF GiveUpClaim, TypeOK
  <2>2. \A n \in Msg : Held(n) => Held(n)'
    BY <1>1, <1>2, <1>4, <2>1 DEF KeepsDelivered, Held
  <2> QED BY <1>1, <1>2, <2>2 DEF TypeOK, Shape, NotifiedHeld, NoticeHeld, Held
<1>8. Settled(inflight')
  BY <1>1, <1>2, <1>3, NowSettled DEF Settled
<1>9. Contents'
  BY <1>1, <1>2, <1>3, <1>8, ListsContents DEF Unapplied
<1>10. Written'
  BY <1>1, <1>2, SameWritten
<1> QED BY <1>5, <1>6, <1>7, <1>9, <1>10 DEF IInv

LEMMA DecideStep == ASSUME IInv, Decide PROVE IInv'
<1>1. /\ TypeOK /\ Shape /\ StopHolds /\ FreshIsWoken /\ NotifiedHeld /\ NoticeHeld /\ Written
      /\ worker = "decide" /\ worker' = (IF requested THEN "want" ELSE "none") /\ requested' = FALSE
      /\ turn # "worker"
  BY DEF IInv, Decide, Shape
<1>2. UNCHANGED <<envelope, claimant, created, stopped, stored, life, up, recover, notice,
                  notified, resuming, queue, inflight, paused, canceled, turn, stage,
                  batch, consumed, refused, history, writes, arrived, missed, dropped, faults, pauses>>
  BY DEF Decide, durable, process, mailbox, control, current, records, counters
<1>3. TypeOK'
  <2>1. TypeOK /\ worker' \in {"none", "want", "turn", "decide"} /\ requested' \in BOOLEAN
    BY <1>1
  <2> QED BY <1>2, <2>1, SMTT(30) DEF TypeOK
<1>4. Shape' /\ StopHolds' /\ FreshIsWoken' /\ NotifiedHeld' /\ NoticeHeld'
  BY <1>1, <1>2 DEF Shape, StopHolds, FreshIsWoken, NotifiedHeld, NoticeHeld, Held
<1>5. Contents'
  BY <1>2, <1>3, StageChange
<1>6. Written'
  BY <1>1, <1>2, SameWritten
<1> QED BY <1>3, <1>4, <1>5, <1>6 DEF IInv

LEMMA PauseStep == ASSUME IInv, Pause PROVE IInv'
<1>1. /\ TypeOK /\ Shape /\ StopHolds /\ FreshIsWoken /\ NotifiedHeld /\ NoticeHeld /\ Written
      /\ up = "on" /\ pauses < MaxPauses /\ pauses' = pauses + 1
      /\ paused' = TRUE /\ canceled' = (turn = "worker")
      /\ stopped' \in {TRUE, stopped} /\ (faults' = faults \/ Fault)
  BY DEF IInv, Pause
<1>2. UNCHANGED <<envelope, claimant, created, stored, life, up, recover, notice, notified,
                  resuming, queue, inflight, worker, requested, turn, stage, batch, consumed,
                  refused, history, writes, arrived, missed, dropped>>
  BY DEF Pause, process, mailbox, waking, current, records
<1>3. TypeOK'
  <2>1. faults' \in 0..MaxFaults
    BY <1>1, FaultBound
  <2>2. pauses' \in 0..MaxPauses
    BY <1>1, ParentTurnsAssumption, SMTT(30) DEF TypeOK
  <2>3. stopped' \in BOOLEAN /\ paused' \in BOOLEAN /\ canceled' \in BOOLEAN
    BY <1>1 DEF TypeOK
  <2> QED BY <1>1, <1>2, <2>1, <2>2, <2>3, SMTT(30) DEF TypeOK
<1>4. Shape' /\ StopHolds' /\ FreshIsWoken' /\ NotifiedHeld' /\ NoticeHeld'
  BY <1>1, <1>2 DEF Shape, StopHolds, FreshIsWoken, NotifiedHeld, NoticeHeld, Held
<1>5. Contents'
  BY <1>2, <1>3, StageChange
<1>6. Written'
  BY <1>1, <1>2, SameWritten
<1> QED BY <1>3, <1>4, <1>5, <1>6 DEF IInv

LEMMA PeerDeliversStep == ASSUME IInv, NEW m \in Msg, PeerDelivers(m) PROVE IInv'
<1>1. /\ TypeOK /\ Shape /\ StopHolds /\ FreshIsWoken /\ NotifiedHeld /\ NoticeHeld /\ Written
      /\ GiveUpClaim(m, "delivered") /\ (faults' = faults \/ Fault)
  BY DEF IInv, PeerDelivers
<1>2. UNCHANGED <<created, stopped, stored, life, up, recover, notice, notified, resuming, queue,
                  inflight, worker, requested, paused, canceled, turn, stage, batch, consumed,
                  refused, history, writes, arrived, missed, dropped, pauses>>
  BY DEF PeerDelivers, process, mailbox, waking, control, current, records
<1>3. /\ envelope' \in [Msg -> {"none", "pending", "delivering", "delivered"}]
      /\ claimant' \in [Msg -> 0..MaxCrashes + 1] /\ KeepsDelivered
  BY <1>1, GiveUpFacts
<1>4. TypeOK'
  <2>1. faults' \in 0..MaxFaults
    BY <1>1, FaultBound
  <2> QED BY <1>1, <1>2, <1>3, <2>1, SMTT(30) DEF TypeOK
<1>5. Shape' /\ StopHolds' /\ FreshIsWoken'
  BY <1>1, <1>2 DEF Shape, StopHolds, FreshIsWoken
<1>6. NotifiedHeld' /\ NoticeHeld'
  <2>1. \A n \in Msg : Held(n) => Held(n)'
    BY <1>2, <1>3, SameHeld
  <2> QED BY <1>1, <1>2, <2>1 DEF TypeOK, Shape, NotifiedHeld, NoticeHeld, Held
<1>7. Contents'
  BY <1>2, <1>4, StageChange
<1>8. Written'
  BY <1>1, <1>2, SameWritten
<1> QED BY <1>4, <1>5, <1>6, <1>7, <1>8 DEF IInv

LEMMA FlushWriteStep == ASSUME IInv, FlushWrite PROVE IInv'
<1> DEFINE e == Head(writes)
<1>1. /\ TypeOK /\ Shape /\ StopHolds /\ FreshIsWoken /\ NotifiedHeld /\ NoticeHeld /\ Written
      /\ writes # <<>> /\ writes' = Tail(writes) /\ (faults' = faults \/ Fault)
      /\ (stored' = Append(stored, e) \/ stored' = stored) /\ up # "down"
  BY DEF IInv, FlushWrite, Shape
<1>2. UNCHANGED <<envelope, claimant, created, stopped, life, up, recover, notice, notified,
                  resuming, queue, inflight, worker, requested, paused, canceled, turn, stage,
                  batch, consumed, refused, history, arrived, missed, dropped, pauses>>
  BY DEF FlushWrite, process, mailbox, waking, control, current, records
<1>3. /\ e \in Item /\ writes' \in Seq(Item) /\ ToSet(writes) = ToSet(writes') \cup {e}
      /\ \A x, y : Before(writes, x, y) <=> (Before(writes', x, y) \/ (x = e /\ y \in ToSet(writes')))
  BY <1>1, TailList DEF TypeOK
<1> HIDE DEF e
<1>4. /\ stored' \in Seq(Item)
      /\ \/ stored' = stored
         \/ /\ ToSet(stored') = ToSet(stored) \cup {e}
            /\ \A x, y : Before(stored', x, y) <=> (Before(stored, x, y) \/ (x \in ToSet(stored) /\ y = e))
  <2>1. CASE stored' = Append(stored, e)
    BY <1>1, <1>3, <2>1, AppendList DEF TypeOK
  <2>2. CASE stored' = stored
    BY <1>1, <2>2 DEF TypeOK
  <2> QED BY <1>1, <2>1, <2>2
<1>5. TypeOK'
  <2>1. faults' \in 0..MaxFaults
    BY <1>1, FaultBound
  <2>2. TypeOK /\ writes' \in Seq(Item) /\ stored' \in Seq(Item)
    BY <1>1, <1>3, <1>4
  <2> QED BY <1>2, <2>1, <2>2, SMTT(30) DEF TypeOK
<1>6. Shape' /\ StopHolds' /\ FreshIsWoken' /\ NotifiedHeld' /\ NoticeHeld'
  BY <1>1, <1>2 DEF Shape, StopHolds, FreshIsWoken, NotifiedHeld, NoticeHeld, Held
<1>7. Contents'
  BY <1>2, <1>5, StageChange
<1>8. Written'
  <2>1. Once(writes') /\ (e \in Msg => e \notin ToSet(writes') /\ e \in ToSet(history) \ ToSet(stored))
    BY <1>1, <1>3 DEF Written, Once, MsgsOf
  <2>2. Once(stored')
    BY <1>1, <1>4, <2>1 DEF Written, Once
  <2>3. ToSet(writes') \subseteq ToSet(history) /\ MsgsOf(writes') \cap ToSet(stored') = {}
    BY <1>1, <1>3, <1>4, <2>1 DEF Written, MsgsOf
  <2>4. MsgsOf(stored') \subseteq ToSet(history)
    BY <1>1, <1>4, <2>1 DEF Written, MsgsOf
  <2> QED BY <1>1, <1>2, <2>1, <2>2, <2>3, <2>4 DEF Written
<1> QED BY <1>5, <1>6, <1>7, <1>8 DEF IInv

LEMMA CommitStep == ASSUME IInv, Commit PROVE IInv'
<1>1. /\ TypeOK /\ Shape /\ StopHolds /\ FreshIsWoken /\ NotifiedHeld /\ NoticeHeld /\ Written
      /\ stage = "ack" /\ consumed = <<>> /\ turn # "none" /\ refused = <<>>
      /\ \/ stage' = "settle" /\ batch' = Identified(batch) /\ faults' = faults
         \/ stage' = "unwind" /\ batch' = batch /\ Fault
  BY DEF IInv, Commit, Shape
<1>2. UNCHANGED <<envelope, claimant, created, stopped, stored, life, up, recover, notice,
                  notified, resuming, queue, inflight, worker, requested, paused, canceled, turn,
                  consumed, refused, history, writes, arrived, missed, dropped, pauses>>
  BY DEF Commit, durable, process, mailbox, waking, control, records
<1>3. /\ Identified(batch) \in Seq(Item) /\ Identified(batch) \in Seq(Msg)
      /\ Once(Identified(batch)) /\ MsgsOf(Identified(batch)) = MsgsOf(batch)
  <2>1. batch \in Seq(Item) /\ Once(batch)
    BY NowSettled
  <2> QED BY <2>1, IdentifiedFacts
<1>4. TypeOK'
  <2>1. TypeOK /\ stage' \in Stage /\ batch' \in Seq(Item)
    BY <1>1, <1>3 DEF TypeOK, Stage
  <2>2. faults' \in 0..MaxFaults
    BY <1>1, FaultBound
  <2> QED BY <1>2, <2>1, <2>2, SMTT(30) DEF TypeOK
<1>5. Shape' /\ StopHolds' /\ FreshIsWoken' /\ NotifiedHeld' /\ NoticeHeld'
  BY <1>1, <1>2, <1>3 DEF Shape, StopHolds, FreshIsWoken, NotifiedHeld, NoticeHeld, Held
<1>6. Contents'
  <2>1. CASE stage' = "settle" /\ batch' = Identified(batch)
    <3>1. Settled(inflight')
      BY <1>2, <1>3, <2>1, NowSettled DEF Settled
    <3> QED BY <1>1, <1>2, <2>1, <3>1, ListsContents DEF Unapplied
  <2>2. CASE stage' = "unwind" /\ batch' = batch
    BY <1>1, <1>2, <1>4, <2>2, StageChange DEF Unapplied
  <2> QED BY <1>1, <2>1, <2>2
<1>7. Written'
  BY <1>1, <1>2, SameWritten
<1> QED BY <1>4, <1>5, <1>6, <1>7 DEF IInv

LEMMA ReleaseConsumedStep == ASSUME IInv, ReleaseConsumed PROVE IInv'
<1>1. /\ TypeOK /\ Shape /\ StopHolds /\ Written /\ HasApplied
      /\ stage = "failed" /\ stage' = "unwind" /\ Requeue(consumed) /\ consumed' = <<>>
      /\ turn # "none" /\ refused = <<>>
  BY DEF IInv, ReleaseConsumed, Shape, Contents
<1>2. UNCHANGED <<envelope, claimant, created, stopped, stored, life, up, recover, notice,
                  notified, resuming, worker, requested, paused, canceled, turn, batch,
                  refused, history, writes, arrived, faults, pauses>>
  BY DEF ReleaseConsumed, durable, process, waking, control, counters
<1>3. /\ consumed \in Seq(Item) /\ Once(consumed) /\ MsgsOf(consumed) \subseteq inflight
      /\ batch' \in Seq(Item) /\ consumed' \in Seq(Item) /\ refused' \in Seq(Item)
      /\ Settled(inflight \ MsgsOf(consumed))
  BY <1>1, <1>2, NowSettled, EmptySettled DEF Settled
<1>4. MsgsOf(consumed) \subseteq ToSet(history) /\ MsgsOf(batch) \subseteq ToSet(history)
  BY <1>1 DEF HasApplied, Unapplied
<1>5. InOrder'
  BY <1>1, <1>2, <1>3, <1>4, RequeueOrder DEF Unapplied
<1>6. Contents'
  BY <1>1, <1>2, <1>3, <1>4, <1>5, EmptySettled, RequeueContents
<1>7. /\ FreshIsWoken' /\ NotifiedHeld' /\ NoticeHeld'
      /\ queue' \in Seq(Item) /\ Len(queue') <= MaxPending
      /\ inflight' \subseteq Msg /\ missed' \subseteq Msg /\ dropped' \subseteq Item
  <2>1. KeepsDelivered
    BY <1>2 DEF KeepsDelivered
  <2> QED BY <1>1, <1>2, <1>3, <2>1, RequeueKeeps
<1>8. TypeOK'
  <2>1. TypeOK /\ stage' \in Stage
    BY <1>1 DEF Stage
  <2> QED BY <1>2, <1>3, <1>7, <2>1, SMTT(30) DEF TypeOK
<1>9. Shape' /\ StopHolds'
  BY <1>1, <1>2 DEF Shape, StopHolds
<1>10. Written'
  BY <1>1, <1>2, SameWritten
<1> QED BY <1>6, <1>7, <1>8, <1>9, <1>10 DEF IInv

\* What ends a turn does to the worker and to the stop.
LEMMA EndTurnFacts ==
  ASSUME IInv, EndTurn, UNCHANGED <<up, notice, resuming, writes, arrived, consumed, paused, stopped>>,
         turn # "none", consumed = <<>>
  PROVE  /\ Shape' /\ StopHolds' /\ stage' \notin Unapplied
         /\ turn' = "none" /\ stage' = "none" /\ canceled' = FALSE
         /\ batch' \in Seq(Item) /\ refused' \in Seq(Item)
         /\ worker' \in {"none", "want", "turn", "decide"} /\ (worker = "want" => worker' = "want")
         /\ Settled({})
<1>1. TypeOK /\ Shape /\ StopHolds
  BY DEF IInv
<1>2. /\ turn' = "none" /\ stage' = "none" /\ batch' = <<>> /\ refused' = <<>> /\ canceled' = FALSE
      /\ worker' = IF turn = "worker" THEN "decide" ELSE worker
  BY DEF EndTurn
<1>3. <<>> \in Seq(Item) /\ Once(<<>>) /\ MsgsOf(<<>>) = {} /\ <<>> \in Seq(Msg)
  BY EmptySettled
<1>4. worker' \in {"none", "want", "turn", "decide"} /\ (worker = "want" => worker' = "want")
  BY <1>1, <1>2 DEF TypeOK, Shape
<1>5. Settled({})
  BY <1>2, <1>3 DEF Settled
<1>6. Shape' /\ StopHolds'
  BY <1>1, <1>2, <1>3 DEF Shape, StopHolds
<1> QED BY <1>2, <1>3, <1>4, <1>5, <1>6 DEF Unapplied

LEMMA ReleaseBatchStep == ASSUME IInv, ReleaseBatch PROVE IInv'
<1>1. /\ TypeOK /\ Shape /\ Written /\ InOrder
      /\ stage = "unwind" /\ Requeue(batch) /\ EndTurn
      /\ turn # "none" /\ refused = <<>> /\ consumed = <<>>
  BY DEF IInv, ReleaseBatch, Shape, Contents
<1>2. UNCHANGED <<envelope, claimant, created, stopped, stored, life, up, recover, notice,
                  notified, resuming, requested, paused, consumed, history, writes, arrived,
                  faults, pauses>>
  BY DEF ReleaseBatch, durable, process, counters
<1>3. /\ batch \in Seq(Item) /\ Once(batch) /\ inflight = MsgsOf(batch) /\ consumed' \in Seq(Item)
  BY <1>1, <1>2, NowSettled, EmptySettled
<1>4. /\ Shape' /\ StopHolds' /\ stage' \notin Unapplied
      /\ turn' = "none" /\ stage' = "none" /\ canceled' = FALSE
      /\ batch' \in Seq(Item) /\ refused' \in Seq(Item)
      /\ worker' \in {"none", "want", "turn", "decide"} /\ (worker = "want" => worker' = "want")
      /\ Settled({})
  BY <1>1, <1>2, EndTurnFacts
<1>5. /\ FreshIsWoken' /\ NotifiedHeld' /\ NoticeHeld'
      /\ queue' \in Seq(Item) /\ Len(queue') <= MaxPending
      /\ inflight' \subseteq Msg /\ missed' \subseteq Msg /\ dropped' \subseteq Item
  <2>1. KeepsDelivered
    BY <1>2 DEF KeepsDelivered
  <2> QED BY <1>1, <1>2, <1>3, <1>4, <2>1, RequeueKeeps
<1>6. InOrder'
  <2>1. \/ Joined(queue', batch, queue) /\ dropped' = dropped
        \/ queue' = queue /\ dropped' = dropped \cup ToSet(batch)
    BY <1>1, <1>3, RequeueFacts
  <2>2. Joined(Line, batch, queue)
    BY <1>1, LineFacts DEF Unapplied
  <2>3. Line' = queue'
    BY <1>2, <1>3, <1>4, <1>5, NextLists
  <2>4. dropped \subseteq dropped' /\ ToSet(queue) \subseteq ToSet(queue')
    BY <2>1 DEF Joined
  <2>5. \A m \in Msg : m \in ToSet(Line) => m \in dropped' \cup ToSet(Line')
    BY <2>1, <2>2, <2>3 DEF Joined
  <2>6. \A m \in Msg : m \in ToSet(Line') => m \in ToSet(Line)
    BY <2>1, <2>2, <2>3 DEF Joined
  <2>7. \A x, y \in Msg : Before(Line, x, y) => x \in dropped' \/ Before(Line', x, y)
    <3>1. \A x, y : Before(batch, x, y) => x \in ToSet(batch)
      BY BeforeIn
    <3> QED BY <2>1, <2>2, <2>3, <3>1 DEF Joined
  <2> QED BY <1>1, <1>2, <2>4, <2>5, <2>6, <2>7, OrderKept
<1>7. Contents'
  <2>1. inflight \ MsgsOf(batch) = {} /\ MsgsOf(batch) \subseteq inflight
    BY <1>3
  <2>2. Settled(inflight \ MsgsOf(batch))
    BY <1>4, <2>1
  <2>3. MsgsOf(consumed') \cup MsgsOf(refused') \subseteq ToSet(history) /\ MsgsOf(batch') \subseteq ToSet(history)
    BY <1>4 DEF Settled
  <2> QED BY <1>1, <1>2, <1>3, <1>6, <2>1, <2>2, <2>3, RequeueContents
<1>8. TypeOK'
  <2>1. TypeOK /\ stage' \in Stage /\ turn' \in {"none", "user", "resume", "worker"} /\ canceled' \in BOOLEAN
    BY <1>1, <1>4 DEF Stage
  <2> QED BY <1>2, <1>3, <1>4, <1>5, <2>1, SMTT(30) DEF TypeOK
<1>9. Written'
  BY <1>1, <1>2, SameWritten
<1> QED BY <1>4, <1>5, <1>7, <1>8, <1>9 DEF IInv

LEMMA FinishTurnStep == ASSUME IInv, FinishTurn PROVE IInv'
<1>1. /\ TypeOK /\ Shape /\ Written /\ HasApplied
      /\ stage = "settle" /\ batch = <<>> /\ Requeue(refused) /\ EndTurn
      /\ turn # "none" /\ consumed = <<>>
  BY DEF IInv, FinishTurn, Shape, Contents
<1>2. UNCHANGED <<envelope, claimant, created, stopped, stored, life, up, recover, notice,
                  notified, resuming, requested, paused, consumed, history, writes, arrived,
                  faults, pauses>>
  BY DEF FinishTurn, durable, process, counters
<1>3. /\ refused \in Seq(Item) /\ Once(refused) /\ inflight = MsgsOf(refused)
      /\ consumed' \in Seq(Item) /\ MsgsOf(refused) \subseteq ToSet(history)
  BY <1>1, <1>2, NowSettled, EmptySettled DEF HasApplied
<1>4. /\ Shape' /\ StopHolds' /\ stage' \notin Unapplied
      /\ turn' = "none" /\ stage' = "none" /\ canceled' = FALSE
      /\ batch' \in Seq(Item) /\ refused' \in Seq(Item)
      /\ worker' \in {"none", "want", "turn", "decide"} /\ (worker = "want" => worker' = "want")
      /\ Settled({})
  BY <1>1, <1>2, EndTurnFacts
<1>5. /\ FreshIsWoken' /\ NotifiedHeld' /\ NoticeHeld'
      /\ queue' \in Seq(Item) /\ Len(queue') <= MaxPending
      /\ inflight' \subseteq Msg /\ missed' \subseteq Msg /\ dropped' \subseteq Item
  <2>1. KeepsDelivered
    BY <1>2 DEF KeepsDelivered
  <2> QED BY <1>1, <1>2, <1>3, <1>4, <2>1, RequeueKeeps
<1>6. InOrder'
  BY <1>1, <1>2, <1>3, <1>4, RequeueOrder DEF Unapplied
<1>7. Contents'
  <2>1. inflight \ MsgsOf(refused) = {} /\ MsgsOf(refused) \subseteq inflight
    BY <1>3
  <2>2. Settled(inflight \ MsgsOf(refused))
    BY <1>4, <2>1
  <2>3. MsgsOf(consumed') \cup MsgsOf(refused') \subseteq ToSet(history) /\ MsgsOf(batch') \subseteq ToSet(history)
    BY <1>4 DEF Settled
  <2> QED BY <1>1, <1>2, <1>3, <1>6, <2>1, <2>2, <2>3, RequeueContents
<1>8. TypeOK'
  <2>1. TypeOK /\ stage' \in Stage /\ turn' \in {"none", "user", "resume", "worker"} /\ canceled' \in BOOLEAN
    BY <1>1, <1>4 DEF Stage
  <2> QED BY <1>2, <1>3, <1>4, <1>5, <2>1, SMTT(30) DEF TypeOK
<1>9. Written'
  BY <1>1, <1>2, SameWritten
<1> QED BY <1>4, <1>5, <1>7, <1>8, <1>9 DEF IInv

LEMMA AckFailsStep == ASSUME IInv, AckFails PROVE IInv'
<1> DEFINE h == Head(Unsettled)
<1>1. /\ TypeOK /\ Shape /\ StopHolds /\ FreshIsWoken /\ NotifiedHeld /\ NoticeHeld /\ Written
      /\ stage \in {"ack", "acking", "settle", "settling"} /\ Unsettled # <<>> /\ SettleHead
      /\ turn # "none" /\ up # "down" /\ refused \in Seq(Msg)
      /\ (faults' = faults \/ Fault)
      /\ UNCHANGED <<envelope, claimant>> \/ GiveUpClaim(h, "delivered")
      /\ \/ stage \in {"ack", "acking"} /\ Requeue(<<h>>) /\ refused' = refused
         \/ /\ stage \in {"settle", "settling"} /\ refused' = Append(refused, h)
            /\ UNCHANGED <<queue, inflight, missed, dropped>>
  BY DEF IInv, AckFails, Shape, mailbox
<1>2. UNCHANGED <<created, stopped, stored, life, up, recover, notice, notified, resuming,
                  worker, requested, paused, canceled, turn, history, writes, arrived, pauses>>
  BY DEF AckFails, process, waking, control
<1>3. /\ h \in Msg /\ h \in inflight /\ h \in ToSet(history) /\ h \notin MsgsOf(refused)
      /\ stage \in {"ack", "acking"} => consumed' \in Seq(Msg) /\ stage' = "ack"
      /\ stage \in {"settle", "settling"} => batch' \in Seq(Msg) /\ stage' = "settle"
                                               /\ consumed' = consumed
      /\ batch' \in Seq(Item) /\ consumed' \in Seq(Item)
      /\ Once(batch') /\ Once(consumed') /\ MsgsOf(batch') \cap MsgsOf(consumed') = {}
      /\ MsgsOf(batch') \cup MsgsOf(consumed') = (MsgsOf(batch) \cup MsgsOf(consumed)) \ {h}
      /\ MsgsOf(batch') \subseteq MsgsOf(batch) /\ MsgsOf(consumed') \subseteq MsgsOf(consumed)
  BY <1>1, SettleFacts
<1> HIDE DEF h
<1>4. /\ envelope' \in [Msg -> {"none", "pending", "delivering", "delivered"}]
      /\ claimant' \in [Msg -> 0..MaxCrashes + 1] /\ KeepsDelivered
  <2>1. CASE UNCHANGED <<envelope, claimant>>
    BY <1>1, <2>1 DEF TypeOK, KeepsDelivered
  <2>2. CASE GiveUpClaim(h, "delivered")
    BY <1>1, <1>3, <2>2, GiveUpFacts
  <2> QED BY <1>1, <2>1, <2>2
<1>5. faults' \in 0..MaxFaults
  BY <1>1, FaultBound
<1>6. stage' \in Stage /\ stage \notin Unapplied /\ stage' \notin Unapplied
  BY <1>1, <1>3 DEF Stage, Unapplied
<1>7. /\ HasApplied /\ refused \in Seq(Item) /\ Once(refused)
      /\ MsgsOf(batch) \cap MsgsOf(refused) = {} /\ MsgsOf(consumed) \cap MsgsOf(refused) = {}
      /\ inflight = MsgsOf(batch) \cup MsgsOf(consumed) \cup MsgsOf(refused)
  BY NowSettled DEF IInv, Contents
<1>8. Written'
  BY <1>1, <1>2, SameWritten
<1>9. CASE stage \in {"ack", "acking"} /\ Requeue(<<h>>) /\ refused' = refused
  <2>1. <<h>> \in Seq(Item) /\ ToSet(<<h>>) = {h} /\ Once(<<h>>) /\ MsgsOf(<<h>>) = {h}
    <3>1. h \in Item
      BY <1>3 DEF Item
    <3>2. <<h>> \in Seq(Item) /\ ToSet(<<h>>) = {h} /\ \A x, y : ~Before(<<h>>, x, y)
      BY <3>1, SingleList
    <3> QED BY <1>3, <3>2 DEF Once, MsgsOf
  <2> DEFINE items == <<h>>
  <2>2. /\ items \in Seq(Item) /\ Once(items) /\ MsgsOf(items) = {h}
        /\ MsgsOf(items) \subseteq inflight /\ Requeue(items)
    BY <1>3, <1>9, <2>1
  <2> HIDE DEF items
  <2>3. /\ MsgsOf(items) \subseteq ToSet(history) /\ refused' \in Seq(Item)
        /\ MsgsOf(consumed') \cup MsgsOf(refused') \subseteq ToSet(history)
        /\ MsgsOf(batch') \subseteq ToSet(history)
    BY <1>3, <1>6, <1>7, <1>9, <2>2 DEF HasApplied
  <2>4. InOrder'
    BY <1>2, <1>3, <1>6, <2>2, <2>3, RequeueOrder
  <2>5. Settled(inflight \ MsgsOf(items))
    BY <1>3, <1>7, <1>9, <2>2, <2>3 DEF Settled
  <2>6. Contents'
    BY <1>2, <2>2, <2>3, <2>4, <2>5, RequeueContents
  <2>7. /\ FreshIsWoken' /\ NotifiedHeld' /\ NoticeHeld'
        /\ queue' \in Seq(Item) /\ Len(queue') <= MaxPending
        /\ inflight' \subseteq Msg /\ missed' \subseteq Msg /\ dropped' \subseteq Item
    BY <1>2, <1>4, <2>2, RequeueKeeps
  <2>8. TypeOK'
    <3>1. /\ TypeOK /\ stage' \in Stage
          /\ batch' \in Seq(Item) /\ consumed' \in Seq(Item) /\ refused' \in Seq(Item)
      BY <1>1, <1>3, <1>6, <2>3
    <3>2. /\ queue' \in Seq(Item) /\ Len(queue') <= MaxPending
          /\ inflight' \subseteq Msg /\ missed' \subseteq Msg /\ dropped' \subseteq Item
      BY <2>7
    <3>3. /\ created' \in Seq(Msg) /\ stored' \in Seq(Item) /\ history' \in Seq(Item)
          /\ stopped' \in BOOLEAN /\ paused' \in BOOLEAN /\ canceled' \in BOOLEAN
          /\ requested' \in BOOLEAN /\ resuming' \in BOOLEAN
          /\ life' \in 1..MaxCrashes + 1 /\ up' \in {"down", "boot", "on"}
          /\ recover' \in Seq(Msg) /\ notified' \subseteq Msg
          /\ worker' \in {"none", "want", "turn", "decide"}
          /\ turn' \in {"none", "user", "resume", "worker"}
          /\ writes' \in Seq(Item) /\ arrived' \in Seq(Msg) /\ pauses' \in 0..MaxPauses
      BY <1>2, <3>1 DEF TypeOK
    <3>4. /\ notice'.by \in {"nobody", "task", "resume", "recovery"}
          /\ notice'.msg \in Msg \cup {Nobody}
          /\ notice'.next \in {"none", "queue", "schedule", "finish"}
      BY <1>2, <3>1 DEF TypeOK
    <3> QED BY <1>4, <1>5, <3>1, <3>2, <3>3, <3>4 DEF TypeOK
  <2>9. Shape' /\ StopHolds'
    BY <1>1, <1>2, <1>3, <1>9 DEF Shape, StopHolds
  <2> QED BY <1>8, <2>6, <2>7, <2>8, <2>9 DEF IInv
<1>10. CASE /\ stage \in {"settle", "settling"} /\ refused' = Append(refused, h)
            /\ UNCHANGED <<queue, inflight, missed, dropped>>
  <2>1. refused' \in Seq(Msg)
    BY <1>1, <1>3, <1>10, AppendProperties
  <2>2. refused' \in Seq(Item) /\ Once(refused') /\ MsgsOf(refused') = MsgsOf(refused) \cup {h}
    <3>1. h \in Item
      BY <1>3 DEF Item
    <3>2. /\ refused' \in Seq(Item) /\ ToSet(refused') = ToSet(refused) \cup {h}
          /\ \A x, y : Before(refused', x, y) <=> (Before(refused, x, y) \/ (x \in ToSet(refused) /\ y = h))
      BY <1>7, <1>10, <3>1, AppendList
    <3> QED BY <1>3, <1>7, <3>2 DEF Once, MsgsOf
  <2>3. Settled(inflight')
    BY <1>3, <1>7, <1>10, <2>2 DEF Settled
  <2>4. Contents'
    BY <1>2, <1>6, <1>10, <2>3, ListsContents
  <2>5. TypeOK'
    <3>1. TypeOK /\ batch' \in Seq(Item) /\ consumed' \in Seq(Item)
      BY <1>1, <1>3
    <3> QED BY <1>2, <1>4, <1>5, <1>6, <1>10, <2>2, <3>1, SMTT(30) DEF TypeOK
  <2>6. Shape' /\ StopHolds' /\ FreshIsWoken'
    BY <1>1, <1>2, <1>3, <1>10, <2>1 DEF Shape, StopHolds, FreshIsWoken
  <2>7. NotifiedHeld' /\ NoticeHeld'
    <3>1. \A n \in Msg : Held(n) => Held(n)'
      BY <1>4, <1>10, SameHeld
    <3> QED BY <1>1, <1>2, <3>1 DEF TypeOK, Shape, NotifiedHeld, NoticeHeld, Held
  <2> QED BY <1>8, <2>4, <2>5, <2>6, <2>7 DEF IInv
<1> QED BY <1>1, <1>9, <1>10

-----------------------------------------------------------------------------
(* The end of the process and its next start.                              *)

LEMMA StopStep ==
  ASSUME IInv, Stop, faults' \in 0..MaxFaults, UNCHANGED <<durable, pauses>>
  PROVE  IInv'
<1>1. TypeOK /\ Written
  BY DEF IInv
<1>2. /\ up' = "down" /\ recover' = <<>> /\ notice' = NoNotice
      /\ notified' = {} /\ resuming' = FALSE /\ queue' = <<>> /\ inflight' = {}
      /\ worker' = "none" /\ requested' = FALSE /\ paused' = FALSE /\ canceled' = FALSE
      /\ turn' = "none" /\ stage' = "none"
      /\ batch' = <<>> /\ consumed' = <<>> /\ refused' = <<>>
      /\ history' = <<>> /\ writes' = <<>>
      /\ arrived' = <<>> /\ missed' = {} /\ dropped' = {}
      /\ UNCHANGED <<life, envelope, claimant, created, stopped, stored, pauses>>
  BY DEF Stop, durable
<1>3. /\ <<>> \in Seq(Item) /\ <<>> \in Seq(Msg) /\ ToSet(<<>>) = {} /\ MsgsOf(<<>>) = {}
      /\ Once(<<>>) /\ (\A x, y : ~Before(<<>>, x, y)) /\ Len(<<>>) = 0 /\ 0 <= MaxPending
  BY EmptyList, EmptySettled, EmptySeq, ParentTurnsAssumption
<1>4. TypeOK'
  <2>1. /\ notice'.by \in {"nobody", "task", "resume", "recovery"}
        /\ notice'.msg \in Msg \cup {Nobody}
        /\ notice'.next \in {"none", "queue", "schedule", "finish"}
    BY <1>2 DEF NoNotice
  <2>2. recover' \in Seq(Msg) /\ arrived' \in Seq(Msg) /\ queue' \in Seq(Item) /\ Len(queue') <= MaxPending
        /\ batch' \in Seq(Item) /\ consumed' \in Seq(Item) /\ refused' \in Seq(Item)
        /\ history' \in Seq(Item) /\ writes' \in Seq(Item)
    BY <1>2, <1>3
  <2> QED BY <1>1, <1>2, <2>1, <2>2 DEF TypeOK, Stage
<1>5. Shape' /\ StopHolds'
  BY <1>2, <1>3 DEF Shape, StopHolds, NoNotice
<1>6. FreshIsWoken' /\ NotifiedHeld' /\ NoticeHeld'
  BY <1>2, <1>3 DEF FreshIsWoken, NotifiedHeld, NoticeHeld, NoNotice
<1>7. Contents'
  <2>1. Line' = <<>> /\ MsgsOf(batch' \o consumed' \o refused') = {}
    BY <1>2, <1>3, NextLists DEF Unapplied
  <2>2. InflightExact' /\ OneHolder' /\ HasApplied'
    BY <1>2, <1>3, <2>1 DEF InflightExact, OneHolder, HasApplied
  <2>3. InOrder'
    BY <1>2, <1>3, <2>1 DEF InOrder
  <2> QED BY <2>2, <2>3 DEF Contents
<1>8. Written'
  BY <1>1, <1>2, <1>3 DEF Written
<1> QED BY <1>4, <1>5, <1>6, <1>7, <1>8 DEF IInv

LEMMA BootStep == ASSUME IInv, Boot PROVE IInv'
<1>1. /\ TypeOK /\ Shape /\ StopHolds /\ FreshIsWoken /\ NotifiedHeld /\ NoticeHeld /\ Written
      /\ InflightExact /\ OneHolder
      /\ up = "down" /\ life <= MaxCrashes /\ life' = life + 1 /\ up' = "boot" /\ history' = stored
      /\ recover' = Filter(created, {m \in Msg : envelope[m] \in {"pending", "delivering"}})
      /\ turn = "none" /\ stage = "none" /\ arrived = <<>> /\ writes = <<>>
      /\ batch = <<>> /\ consumed = <<>> /\ refused = <<>>
  BY DEF IInv, Boot, Shape, Contents
<1>2. UNCHANGED <<envelope, claimant, created, stopped, stored, notice, notified, resuming, queue,
                  inflight, worker, requested, paused, canceled, turn, stage, batch, consumed,
                  refused, writes, arrived, missed, dropped, faults, pauses>>
  BY DEF Boot, durable, mailbox, waking, control, current, records, counters
<1>3. /\ ToSet(<<>>) = {} /\ MsgsOf(<<>>) = {} /\ (\A x, y : ~Before(<<>>, x, y))
  BY EmptyList, EmptySettled
<1>4. TypeOK'
  <2>1. recover' \in Seq(Msg)
    BY <1>1, FilterList DEF TypeOK
  <2>2. life' \in 1..MaxCrashes + 1
    BY <1>1, ParentTurnsAssumption DEF TypeOK
  <2>3. history' \in Seq(Item)
    BY <1>1 DEF TypeOK
  <2> QED BY <1>1, <1>2, <2>1, <2>2, <2>3 DEF TypeOK
<1>5. Shape' /\ StopHolds' /\ FreshIsWoken' /\ NotifiedHeld' /\ NoticeHeld'
  BY <1>1, <1>2 DEF Shape, StopHolds, FreshIsWoken, NotifiedHeld, NoticeHeld, Held
<1>6. Contents'
  <2>1. InflightExact' /\ OneHolder' /\ HasApplied'
    BY <1>1, <1>2, <1>3 DEF InflightExact, OneHolder, HasApplied
  <2>2. InOrder'
    BY <1>1, <1>2, <1>3 DEF InOrder
  <2> QED BY <2>1, <2>2 DEF Contents
<1>7. Written'
  BY <1>1, <1>2, <1>3 DEF Written, MsgsOf
<1> QED BY <1>4, <1>5, <1>6, <1>7 DEF IInv

-----------------------------------------------------------------------------
(* The invariant.                                                          *)

LEMMA InitInv == Init => IInv
<1> SUFFICES ASSUME Init PROVE IInv
  OBVIOUS
<1>1. /\ <<>> \in Seq(Item) /\ <<>> \in Seq(Msg) /\ ToSet(<<>>) = {} /\ MsgsOf(<<>>) = {}
      /\ Once(<<>>) /\ (\A x, y : ~Before(<<>>, x, y)) /\ Len(<<>>) = 0 /\ 0 <= MaxPending
      /\ 1 \in 1..MaxCrashes + 1 /\ 0 \in 0..MaxCrashes + 1 /\ 0 \in 0..MaxFaults /\ 0 \in 0..MaxPauses
  BY EmptyList, EmptySettled, EmptySeq, ParentTurnsAssumption
<1>2. TypeOK
  <2>1. /\ envelope \in [Msg -> {"none", "pending", "delivering", "delivered"}]
        /\ claimant \in [Msg -> 0..MaxCrashes + 1]
    BY <1>1 DEF Init
  <2>2. /\ notice.by \in {"nobody", "task", "resume", "recovery"}
        /\ notice.msg \in Msg \cup {Nobody}
        /\ notice.next \in {"none", "queue", "schedule", "finish"}
    BY DEF Init, NoNotice
  <2> QED BY <1>1, <2>1, <2>2 DEF Init, TypeOK, Stage
<1>3. Shape /\ StopHolds /\ FreshIsWoken /\ NotifiedHeld /\ NoticeHeld
  BY <1>1 DEF Init, Shape, StopHolds, FreshIsWoken, NotifiedHeld, NoticeHeld, NoNotice
<1>4. Contents
  <2>1. MsgsOf(batch \o consumed \o refused) = {} /\ Line = <<>>
    BY <1>1, <1>2, InflightSets, LineFacts DEF Init, Unapplied
  <2> QED BY <1>1, <2>1 DEF Init, Contents, InflightExact, OneHolder, HasApplied, InOrder
<1>5. Written
  BY <1>1 DEF Init, Written
<1> QED BY <1>2, <1>3, <1>4, <1>5 DEF IInv

LEMMA NextInv == ASSUME IInv, Next PROVE IInv'
<1>1. CASE Process
  <2>1. CASE Notify
    BY <2>1, NoticeRefusedStep, NoticeQueuedStep, NoticeScheduledStep, RecoveryReleasesStep
    DEF Notify
  <2>2. CASE Recovery
    <3>1. CASE RecoverPanics
      <4>1. faults' \in 0..MaxFaults
        BY <3>1, FaultBound DEF RecoverPanics, IInv
      <4> QED BY <3>1, <4>1, StopStep DEF RecoverPanics
    <3> QED BY <2>2, <3>1, RecoverNextStep, BootDoneStep DEF Recovery
  <2>3. CASE Generation
    <3>1. CASE LoopDrain
      BY <3>1, LoopStep DEF LoopDrain
    <3>2. CASE LimitDrain
      BY <3>2, LoopStep DEF LimitDrain
    <3> QED BY <2>3, <3>1, <3>2, ApplyBatchStep, AnswerStep, TurnFailsStep DEF Generation
  <2>4. CASE Settlement
    BY <2>4, ReleaseConsumedStep, ReleaseBatchStep, AckClaimStep, AckCompleteStep, AckFailsStep,
       CommitStep, FinishTurnStep DEF Settlement
  <2> QED BY <1>1, <2>1, <2>2, <2>3, <2>4, StartResumeStep, DecideStep, FlushWriteStep DEF Process
<1>2. CASE Crash
  <2>1. faults' \in 0..MaxFaults /\ UNCHANGED <<durable, pauses>> /\ Stop
    BY <1>2 DEF Crash, counters, IInv, TypeOK
  <2> QED BY <2>1, StopStep
<1>3. ASSUME NEW m \in Msg, TaskEnds(m) \/ Resume(m) \/ PeerDelivers(m) PROVE IInv'
  BY <1>3, TaskEndsStep, ResumeStep, PeerDeliversStep
<1>4. ASSUME NEW n \in Note, NoteArrives(n) PROVE IInv'
  BY <1>4, NoteArrivesStep
<1> QED
  BY <1>1, <1>2, <1>3, <1>4, WorkerBeginStep, StartUserStep, PauseStep, BootStep DEF Next

LEMMA StutterInv == ASSUME IInv, UNCHANGED vars PROVE IInv'
<1>1. UNCHANGED <<envelope, claimant, created, stopped, stored, life, up, recover, notice, notified,
                  resuming, queue, inflight, worker, requested, paused, canceled, turn, stage, batch,
                  consumed, refused, history, writes, arrived, missed, dropped, faults, pauses>>
  BY DEF vars, durable, process, mailbox, waking, control, current, records, counters
<1>2. TypeOK /\ Shape /\ StopHolds /\ FreshIsWoken /\ NotifiedHeld /\ NoticeHeld /\ Written
  BY DEF IInv
<1>3. TypeOK'
  <2>1. /\ envelope' \in [Msg -> {"none", "pending", "delivering", "delivered"}]
        /\ claimant' \in [Msg -> 0..MaxCrashes + 1]
        /\ created' \in Seq(Msg) /\ stored' \in Seq(Item) /\ history' \in Seq(Item)
        /\ stopped' \in BOOLEAN /\ paused' \in BOOLEAN /\ canceled' \in BOOLEAN
        /\ requested' \in BOOLEAN /\ resuming' \in BOOLEAN
        /\ life' \in 1..MaxCrashes + 1 /\ up' \in {"down", "boot", "on"}
        /\ recover' \in Seq(Msg) /\ notified' \subseteq Msg
    BY <1>1, <1>2 DEF TypeOK
  <2>2. /\ notice'.by \in {"nobody", "task", "resume", "recovery"}
        /\ notice'.msg \in Msg \cup {Nobody}
        /\ notice'.next \in {"none", "queue", "schedule", "finish"}
    BY <1>1, <1>2 DEF TypeOK
  <2>3. /\ queue' \in Seq(Item) /\ Len(queue') <= MaxPending /\ inflight' \subseteq Msg
        /\ worker' \in {"none", "want", "turn", "decide"}
        /\ turn' \in {"none", "user", "resume", "worker"} /\ stage' \in Stage
        /\ batch' \in Seq(Item) /\ consumed' \in Seq(Item) /\ refused' \in Seq(Item)
        /\ writes' \in Seq(Item) /\ arrived' \in Seq(Msg)
        /\ missed' \subseteq Msg /\ dropped' \subseteq Item
        /\ faults' \in 0..MaxFaults /\ pauses' \in 0..MaxPauses
    BY <1>1, <1>2 DEF TypeOK
  <2> QED BY <2>1, <2>2, <2>3 DEF TypeOK
<1>4. Shape' /\ StopHolds' /\ FreshIsWoken' /\ NotifiedHeld' /\ NoticeHeld'
  BY <1>1, <1>2 DEF Shape, StopHolds, FreshIsWoken, NotifiedHeld, NoticeHeld, Held
<1>5. Contents'
  BY <1>1, <1>3, StageChange
<1>6. Written'
  BY <1>1, <1>2, SameWritten
<1> QED BY <1>3, <1>4, <1>5, <1>6 DEF IInv

LEMMA Invariant == Spec => []IInv
<1>1. IInv /\ [Next]_vars => IInv'
  BY NextInv, StutterInv
<1> QED BY <1>1, InitInv, PTL DEF Spec

-----------------------------------------------------------------------------
(* What holds in every state.                                              *)

(* The types of the state, whatever the bounds: the claims, the mailbox (never over
   MaxPendingMessages, queue.go), the wake-up and the lists of a turn. *)
THEOREM TypeCorrect == Spec => []TypeOK
<1>1. IInv => TypeOK
  BY DEF IInv
<1> QED BY <1>1, Invariant, PTL

(* An explicit stop reaches the background turn that runs, and none begins after it
   (beginContinuation and PauseSessionContinuations, chat_continuation.go:26-90). *)
THEOREM StopReachesTurn == Spec => []StopHolds
<1>1. IInv => StopHolds
  BY DEF IInv
<1> QED BY <1>1, Invariant, PTL

(* Every message that was queued and that no turn has looked at has a wake-up before it
   (schedulePendingTurn and the end of runPendingTurnWorker, chat.go:172-215). *)
THEOREM WakeUpIsComing == Spec => []FreshIsWoken
<1>1. IInv => FreshIsWoken
  BY DEF IInv
<1> QED BY <1>1, Invariant, PTL

(* A result that parentNotified records needs no second Notify in this life: it is
   delivered, or the queue, the claim set or the dropped have it
   (parent_completion.go:53-109). *)
THEOREM NotifiedIsHeld == Spec => []NotifiedHeld
<1>1. IInv => NotifiedHeld
  BY DEF IInv
<1> QED BY <1>1, Invariant, PTL

(* The claim set of the queue is exactly what the turn that runs must still settle,
   and shares no message with the queue (queue.go:110-122, 151-237). *)
THEOREM ClaimsAreExact == Spec => []InflightExact
<1>1. IInv => InflightExact
  BY DEF IInv, Contents
<1> QED BY <1>1, Invariant, PTL

(* No crash, retry or recovery puts a message into the conversation twice, in memory
   or in the store (command_service.go:36-48, agent_loop_service.go:288-306). *)
THEOREM AppliedAtMostOnce == Spec => []AppliedOnce
<1>1. IInv => AppliedOnce
  <2> SUFFICES ASSUME IInv, NEW conversation \in {history, stored},
                      NEW p \in DOMAIN conversation, NEW q \in DOMAIN conversation,
                      conversation[p] = conversation[q], conversation[p] \in Msg
               PROVE  p = q
    BY DEF AppliedOnce
  <2>1. Once(conversation) /\ conversation \in Seq(Item)
    BY DEF IInv, Written, TypeOK
  <2>2. p \in Nat /\ q \in Nat
    BY <2>1, LenProperties
  <2>3. ~(p < q) /\ ~(q < p)
    BY <2>1 DEF Once, Before
  <2> QED BY <2>2, <2>3
<1> QED BY <1>1, Invariant, PTL

-----------------------------------------------------------------------------
(* What no step may do.                                                    *)

LEMMA ClaimSettlesStep ==
  ASSUME IInv, Next, up' # "down", NEW m \in inflight \ inflight'
  PROVE  \/ envelope'[m] = "delivered" /\ m \in ToSet(history)
         \/ m \in ToSet(queue') \cup dropped'
<1>1. TypeOK /\ Shape /\ HasApplied /\ m \in Msg
  BY DEF IInv, Contents, TypeOK
<1>2. ASSUME NEW items \in Seq(Item), Once(items), MsgsOf(items) \subseteq inflight, Requeue(items)
      PROVE  m \in ToSet(queue') \cup dropped'
  <2>1. /\ inflight' = inflight \ MsgsOf(items)
        /\ \/ Joined(queue', items, queue) /\ dropped' = dropped
           \/ queue' = queue /\ dropped' = dropped \cup ToSet(items)
    BY <1>2, RequeueFacts
  <2> QED BY <2>1 DEF Joined, MsgsOf
<1>3. /\ batch \in Seq(Item) /\ consumed \in Seq(Item) /\ refused \in Seq(Item)
      /\ Once(batch) /\ Once(consumed) /\ Once(refused)
      /\ MsgsOf(batch) \subseteq inflight /\ MsgsOf(consumed) \subseteq inflight
      /\ MsgsOf(refused) \subseteq inflight
  BY NowSettled
<1>4. CASE AckComplete
  <2> DEFINE h == Head(Unsettled)
  <2>1. stage \in {"acking", "settling"} /\ Unsettled # <<>> /\ inflight' = inflight \ {h}
        /\ GiveUpClaim(h, "delivered")
    BY <1>1, <1>4 DEF AckComplete, Shape, Unsettled
  <2>2. h \in Msg /\ h \in ToSet(history)
    BY <2>1, SettleFacts
  <2>3. m = h
    BY <2>1
  <2> QED BY <1>1, <2>1, <2>2, <2>3 DEF GiveUpClaim, TypeOK
<1>5. CASE AckFails
  <2> DEFINE h == Head(Unsettled)
             items == <<h>>
  <2>1. /\ stage \in {"ack", "acking", "settle", "settling"} /\ Unsettled # <<>>
        /\ Requeue(items) \/ inflight' = inflight
    BY <1>5 DEF AckFails, mailbox
  <2>2. h \in Msg /\ h \in inflight
    BY <2>1, SettleFacts
  <2>3. items \in Seq(Item) /\ Once(items) /\ MsgsOf(items) \subseteq inflight
    <3>1. h \in Item
      BY <2>2 DEF Item
    <3>2. items \in Seq(Item) /\ ToSet(items) = {h} /\ \A x, y : ~Before(items, x, y)
      BY <3>1, SingleList
    <3> QED BY <2>2, <3>2 DEF Once, MsgsOf
  <2> HIDE DEF items
  <2> QED BY <1>2, <2>1, <2>3
<1>6. CASE ReleaseConsumed \/ ReleaseBatch \/ FinishTurn
  BY <1>2, <1>3, <1>6 DEF ReleaseConsumed, ReleaseBatch, FinishTurn
<1>7. CASE Crash \/ RecoverPanics
  BY <1>7 DEF Crash, RecoverPanics, Stop
<1>8. CASE ApplyBatch \/ LoopDrain \/ LimitDrain \/ Answer \/ TurnFails
  BY <1>8 DEF ApplyBatch, LoopDrain, LimitDrain, Answer, TurnFails, Drain, mailbox
<1>9. CASE AckClaim \/ Commit \/ Decide \/ FlushWrite \/ WorkerBegin \/ StartUser \/ StartResume
  BY <1>9 DEF AckClaim, Commit, Decide, FlushWrite, WorkerBegin, StartUser, StartResume, Drain, mailbox
<1>10. CASE Notify \/ RecoverNext \/ BootDone \/ Pause \/ Boot
  BY <1>10 DEF Notify, NoticeRefused, NoticeQueued, NoticeScheduled, RecoveryReleases, RecoverNext,
     BootDone, Pause, Boot, mailbox
<1>11. ~(\E n \in Msg : TaskEnds(n) \/ Resume(n) \/ PeerDelivers(n)) /\ ~(\E n \in Note : NoteArrives(n))
  BY DEF TaskEnds, Resume, PeerDelivers, NoteArrives, mailbox
<1> QED
  BY <1>4, <1>5, <1>6, <1>7, <1>8, <1>9, <1>10, <1>11
  DEF Next, Process, Recovery, Generation, Settlement

(* A message leaves the claim set, other than in a crash, delivered and in the
   conversation, or back in the queue, or dropped by a full queue
   (agent_loop_service.go:330-363, chat.go:695-722). *)
THEOREM ClaimsSettle == Spec => ClaimSettles
<1>1. IInv /\ [Next]_vars =>
        [up' # "down" => \A m \in inflight \ inflight' :
           \/ envelope'[m] = "delivered" /\ m \in ToSet(history)
           \/ m \in ToSet(queue') \cup dropped']_vars
  BY ClaimSettlesStep
<1> QED BY <1>1, Invariant, PTL DEF Spec, ClaimSettles

\* What the conversation gets of the line is its beginning.
LEMMA ApplyOrder ==
  ASSUME IInv, NEW items \in Seq(Item), NEW rest, Joined(Line, items, rest), Apply(items),
         NEW x \in Msg, NEW y \in Msg, Before(arrived, x, y), y \in ToSet(history') \ ToSet(history)
  PROVE  x \in dropped \/ Before(history', x, y)
<1>1. TypeOK /\ InflightExact /\ OneHolder /\ InOrder
  BY DEF IInv, Contents
<1>2. Once(Line)
  <2>1. CASE stage \in Unapplied
    <3>1. Joined(Line, batch, queue) /\ MsgsOf(batch) \subseteq inflight
      BY <1>1, <2>1, LineFacts, NowSettled
    <3>2. MsgsOf(batch) \cap MsgsOf(queue) = {}
      BY <1>1, <3>1 DEF InflightExact, MsgsOf
    <3> QED BY <1>1, <3>1, <3>2, OnceJoined DEF OneHolder
  <2>2. CASE stage \notin Unapplied
    BY <1>1, <2>2, LineFacts DEF OneHolder
  <2> QED BY <2>1, <2>2
<1>3. Once(items) /\ \A n \in Msg : ~(n \in ToSet(items) /\ n \in ToSet(rest))
  BY <1>2 DEF Once, Joined
<1>4. /\ MsgsOf(history') \subseteq ToSet(history) \cup MsgsOf(items)
      /\ \A u, v \in Msg :
           Before(history', u, v) <=>
             \/ Before(history, u, v)
             \/ Before(items, u, v) /\ u \notin ToSet(history) /\ v \notin ToSet(history)
             \/ u \in ToSet(history) /\ v \in ToSet(items) \ ToSet(history)
  BY <1>3, ApplyFacts
<1>5. y \in ToSet(items) /\ y \in ToSet(Line) \ ToSet(history)
  BY <1>4 DEF MsgsOf, Joined
<1>6. x \in dropped \cup ToSet(history) \/ Before(Line, x, y)
  BY <1>1, <1>5 DEF InOrder
<1>7. CASE Before(Line, x, y)
  <2>1. Before(items, x, y)
    BY <1>3, <1>5, <1>7, BeforeIn DEF Joined
  <2> QED BY <1>4, <1>5, <2>1
<1> QED BY <1>4, <1>5, <1>6, <1>7

LEMMA NoOvertakingStep ==
  ASSUME IInv, Next, up' = up, NEW x \in Msg, NEW y \in Msg, Before(arrived, x, y),
         y \in ToSet(history') \ ToSet(history)
  PROVE  x \in dropped' \/ Before(history', x, y)
<1>1. TypeOK /\ Shape
  BY DEF IInv
<1>2. CASE ApplyBatch
  <2>1. PICK items \in Seq(Item), rest \in Seq(Item) : batch = items \o rest /\ Apply(items)
    BY <1>1, <1>2, ApplyBatchItems
  <2>2. stage = "apply" /\ dropped' = dropped
    BY <1>2 DEF ApplyBatch, records
  <2>3. Joined(Line, items, rest \o queue)
    <3>1. rest \o queue \in Seq(Item) /\ (items \o rest) \o queue = items \o (rest \o queue)
      <4>1. queue \in Seq(Item)
        BY <1>1 DEF TypeOK
      <4> QED BY <4>1, ConcatList, ConcatAssociative
    <3>2. Line = batch \o queue
      BY <2>2 DEF Line, Unapplied
    <3>3. Joined(items \o (rest \o queue), items, rest \o queue)
      BY <3>1, ConcatList
    <3> QED BY <2>1, <3>1, <3>2, <3>3
  <2> DEFINE r == rest \o queue
  <2>4. Joined(Line, items, r)
    BY <2>3
  <2> HIDE DEF r
  <2> QED BY <2>1, <2>2, <2>4, ApplyOrder
<1>3. CASE LoopDrain \/ LimitDrain
  <2>1. stage = "run" /\ Apply(queue) /\ dropped' = dropped /\ queue \in Seq(Item)
    BY <1>1, <1>3 DEF LoopDrain, LimitDrain, records, TypeOK
  <2>2. Joined(Line, queue, <<>>)
    BY <1>1, <2>1, LineFacts, EmptyList DEF Unapplied, Joined
  <2> QED BY <2>1, <2>2, ApplyOrder
<1>4. CASE history' = history
  BY <1>4
<1>5. ~(Crash \/ RecoverPanics \/ Boot)
  BY <1>1 DEF Crash, RecoverPanics, Boot, Stop, Shape
<1>6. CASE Notify \/ RecoverNext \/ BootDone \/ Answer \/ TurnFails
  BY <1>4, <1>6 DEF Notify, NoticeRefused, NoticeQueued, NoticeScheduled, RecoveryReleases, RecoverNext,
     BootDone, Answer, TurnFails
<1>7. CASE Settlement
  BY <1>4, <1>7 DEF Settlement, ReleaseConsumed, ReleaseBatch, AckClaim, AckComplete, AckFails, Commit,
     FinishTurn
<1>8. CASE Decide \/ FlushWrite \/ WorkerBegin \/ StartUser \/ StartResume \/ Pause
  BY <1>4, <1>8 DEF Decide, FlushWrite, WorkerBegin, StartUser, StartResume, Pause
<1>9. CASE (\E n \in Msg : TaskEnds(n) \/ Resume(n) \/ PeerDelivers(n)) \/ (\E n \in Note : NoteArrives(n))
  BY <1>4, <1>9 DEF TaskEnds, Resume, PeerDelivers, NoteArrives
<1> QED
  BY <1>2, <1>3, <1>5, <1>6, <1>7, <1>8, <1>9 DEF Next, Process, Recovery, Generation

(* The conversation gets the messages in the order in which they arrived, also when a
   turn that claimed some of them fails and puts them back (queue.go:231-236). *)
THEOREM ArrivalOrder == Spec => NoOvertaking
<1> DEFINE Body ==
      up' = up => \A i, j \in 1..Len(arrived) :
        i < j /\ arrived[j] \in ToSet(history') \ ToSet(history)
          => \/ arrived[i] \in dropped'
             \/ \E p, q \in 1..Len(history') :
                  p < q /\ history'[p] = arrived[i] /\ history'[q] = arrived[j]
<1>1. ASSUME IInv, Next, up' = up, NEW i \in 1..Len(arrived), NEW j \in 1..Len(arrived), i < j,
             arrived[j] \in ToSet(history') \ ToSet(history)
      PROVE  \/ arrived[i] \in dropped'
             \/ \E p, q \in 1..Len(history') :
                  p < q /\ history'[p] = arrived[i] /\ history'[q] = arrived[j]
  <2>1. arrived \in Seq(Msg) /\ history' \in Seq(Item)
    BY <1>1, NextInv DEF IInv, TypeOK
  <2>2. /\ arrived[i] \in Msg /\ arrived[j] \in Msg /\ Before(arrived, arrived[i], arrived[j])
        /\ DOMAIN history' = 1..Len(history')
    BY <1>1, <2>1, ElementOfSeq, LenProperties DEF Before
  <2>3. arrived[i] \in dropped' \/ Before(history', arrived[i], arrived[j])
    BY <1>1, <2>2, NoOvertakingStep
  <2> QED BY <2>2, <2>3 DEF Before
<1>2. IInv /\ [Next]_vars => [Body]_vars
  BY <1>1
<1> QED BY <1>2, Invariant, PTL DEF Spec, NoOvertaking

-----------------------------------------------------------------------------
(* The application does what ParentInbox promises.                         *)

\* The messages that are on their way to the conversation.
Waiting ==
  MsgsOf(queue) \cup inflight \cup ToSet(recover)
    \cup {m \in Msg : notice.next = "queue" /\ m = notice.msg}

\* Nothing is on its way, in the conversation or in the store that was not sent, and
\* what waits and is delivered is in the conversation, unless another instance has it.
InboxInv ==
  /\ \A m \in Msg : m \in Waiting \cup ToSet(history) \cup ToSet(stored) => envelope[m] # "none"
  /\ faults = 0 => \A m \in Waiting : envelope[m] = "delivered" => m \in ToSet(history)

\* What waits has waited before, or is neither settled nor unknown.
Flows == \A m \in Waiting' : m \in Waiting \/ envelope'[m] \in {"pending", "delivering"}

\* The same messages are sent and settled.
SameStatus ==
  \A m \in Msg : /\ envelope'[m] = "none" <=> envelope[m] = "none"
                 /\ envelope'[m] = "delivered" <=> envelope[m] = "delivered"

\* A step the parent sees nothing of, or a failure.
Quiet ==
  /\ history' = history /\ stored' = stored /\ (up' = "down" <=> up = "down")
  /\ faults' = faults \/ faults' = faults + 1
  /\ Flows /\ SameStatus

Refines == [Inbox!Next]_(Inbox!vars)

LEMMA FaultsCount == ASSUME TypeOK PROVE faults \in Nat
BY ParentTurnsAssumption DEF TypeOK

LEMMA WaitingMsgs == ASSUME TypeOK PROVE Waiting \subseteq Msg
<1>1. ToSet(recover) \subseteq Msg
  BY ListOf DEF TypeOK
<1> QED BY <1>1 DEF TypeOK, Waiting, MsgsOf

\* A step that sends no message twice keeps the invariant if what it adds to the
\* conversation was waiting, and what it settles is in the conversation.
LEMMA InboxKept ==
  ASSUME TypeOK, TypeOK', InboxInv, Flows, faults \in Nat, faults' \in {faults, faults + 1},
         ToSet(history) \subseteq ToSet(history'),
         \A m \in Msg : m \in ToSet(history') \cup ToSet(stored')
                          => m \in Waiting \cup ToSet(history) \cup ToSet(stored),
         \A m \in Msg : envelope[m] # "none" => envelope'[m] # "none",
         faults' = faults => \A m \in Msg : envelope'[m] = "delivered"
                               => envelope[m] = "delivered" \/ m \in ToSet(history')
  PROVE  InboxInv'
<1>1. Waiting \subseteq Msg /\ Waiting' \subseteq Msg
  <2>1. ToSet(recover') \subseteq Msg
    BY ListOf DEF TypeOK
  <2> QED BY <2>1, WaitingMsgs DEF TypeOK, Waiting, MsgsOf
<1>2. \A m \in Msg : m \in Waiting' \cup ToSet(history') \cup ToSet(stored') => envelope'[m] # "none"
  BY DEF InboxInv, Flows
<1>3. ASSUME faults' = 0, NEW m \in Waiting', envelope'[m] = "delivered" PROVE m \in ToSet(history')
  <2>1. faults = 0 /\ faults' = faults
    BY <1>3
  <2>2. m \in Waiting
    BY <1>3 DEF Flows
  <2> QED BY <1>1, <1>3, <2>1, <2>2 DEF InboxInv
<1> QED BY <1>2, <1>3 DEF InboxInv

LEMMA QuietStep ==
  ASSUME IInv, IInv', InboxInv, Quiet
  PROVE  InboxInv' /\ Refines
<1>1. TypeOK /\ TypeOK' /\ faults \in Nat /\ faults' \in {faults, faults + 1}
  BY FaultsCount DEF IInv, Quiet
<1>2. InboxInv'
  <2>1. /\ Flows /\ ToSet(history) \subseteq ToSet(history')
        /\ \A m \in Msg : m \in ToSet(history') \cup ToSet(stored')
                            => m \in Waiting \cup ToSet(history) \cup ToSet(stored)
        /\ \A m \in Msg : envelope[m] # "none" => envelope'[m] # "none"
        /\ \A m \in Msg : envelope'[m] = "delivered" => envelope[m] = "delivered" \/ m \in ToSet(history')
    BY DEF Quiet, SameStatus
  <2> QED BY <1>1, <2>1, InboxKept
<1>3. /\ {m \in Msg : envelope'[m] # "none"} = {m \in Msg : envelope[m] # "none"}
      /\ {m \in Msg : envelope'[m] = "delivered"} = {m \in Msg : envelope[m] = "delivered"}
      /\ (up' # "down") = (up # "down")
  BY DEF Quiet, SameStatus
<1>4. CASE faults' = faults
  BY <1>2, <1>3, <1>4 DEF Quiet, Refines, Inbox!vars
<1>5. CASE faults' = faults + 1
  <2>1. Inbox!Fail
    BY <1>3, <1>5 DEF Quiet, Inbox!Fail
  <2> QED BY <1>2, <2>1 DEF Refines, Inbox!Next
<1> QED BY <1>1, <1>2, <1>4, <1>5

\* The steps of the mailbox do not send, settle or read.
LEMMA QuietControl ==
  ASSUME IInv, \/ StartUser \/ TurnFails \/ Answer \/ Decide \/ Pause \/ Commit \/ BootDone
               \/ UNCHANGED vars
  PROVE  Quiet
<1>1. UNCHANGED <<queue, inflight, recover, notice, envelope, history, stored>>
  BY DEF StartUser, TurnFails, Answer, Decide, Pause, Commit, BootDone, vars, durable, process,
     mailbox
<1>2. Flows /\ SameStatus
  BY <1>1 DEF Flows, Waiting, SameStatus
<1>3. /\ up' = "down" <=> up = "down"
      /\ faults' = faults \/ faults' = faults + 1
  BY DEF StartUser, TurnFails, Answer, Decide, Pause, Commit, BootDone, vars, process, counters, Fault
<1> QED BY <1>1, <1>2, <1>3 DEF Quiet

LEMMA QuietNotices ==
  ASSUME IInv, \/ RecoverNext \/ NoticeRefused \/ NoticeQueued \/ NoticeScheduled \/ RecoveryReleases
               \/ \E m \in Msg : Resume(m)
  PROVE  Quiet
<1>1. TypeOK /\ Shape
  BY DEF IInv
<1>2. UNCHANGED <<history, stored, up, inflight, faults>>
  BY DEF RecoverNext, NoticeRefused, NoticeQueued, NoticeScheduled, RecoveryReleases, Resume, durable,
     mailbox, counters
<1>3. CASE RecoverNext
  <2> DEFINE h == Head(recover)
  <2>1. /\ recover # <<>> /\ recover' = Tail(recover) /\ notice.next = "none" /\ queue' = queue
        /\ \/ /\ \E lapsed \in BOOLEAN : CanClaim(h, lapsed)
              /\ Claim(h) /\ notice' = [by |-> "recovery", msg |-> h, next |-> "queue"]
           \/ UNCHANGED <<envelope, notice>>
    BY <1>3 DEF RecoverNext, NoNotice, mailbox
  <2>2. h \in Msg /\ ToSet(recover) = ToSet(recover') \cup {h}
    BY <1>1, <2>1, TailList DEF TypeOK
  <2> HIDE DEF h
  <2>3. CASE /\ \E lapsed \in BOOLEAN : CanClaim(h, lapsed)
             /\ Claim(h) /\ notice' = [by |-> "recovery", msg |-> h, next |-> "queue"]
    <3>1. envelope[h] \in {"pending", "delivering"} /\ envelope' = [envelope EXCEPT ![h] = "delivering"]
      BY <2>3 DEF CanClaim, Claim
    <3>2. SameStatus
      BY <1>1, <2>2, <3>1 DEF TypeOK, SameStatus
    <3>3. Flows
      BY <1>2, <2>1, <2>2, <2>3 DEF Flows, Waiting
    <3> QED BY <1>2, <3>2, <3>3 DEF Quiet
  <2>4. CASE UNCHANGED <<envelope, notice>>
    BY <1>2, <2>1, <2>2, <2>4 DEF Quiet, Flows, Waiting, SameStatus
  <2> QED BY <2>1, <2>3, <2>4
<1>4. CASE NoticeRefused \/ RecoveryReleases
  <2>1. /\ notice'.next = "none" /\ UNCHANGED <<recover, queue>> /\ notice.msg \in Msg
        /\ \/ HoldsClaim(notice.msg) /\ GiveUpClaim(notice.msg, "pending")
           \/ envelope' = envelope
    BY <1>1, <1>4 DEF NoticeRefused, RecoveryReleases, NoNotice, mailbox, Shape
  <2>2. SameStatus
    BY <1>1, <2>1 DEF TypeOK, SameStatus, HoldsClaim, GiveUpClaim
  <2>3. Flows
    BY <1>2, <2>1 DEF Flows, Waiting
  <2> QED BY <1>2, <2>2, <2>3 DEF Quiet
<1>5. CASE NoticeScheduled
  <2>1. /\ notice' = NoNotice \/ notice' = [notice EXCEPT !.next = "finish"]
        /\ UNCHANGED <<recover, queue, envelope>>
    BY <1>5 DEF NoticeScheduled, mailbox, durable
  <2>2. notice'.next # "queue"
    <3>1. CASE notice' = NoNotice
      BY <3>1 DEF NoNotice
    <3>2. CASE notice' = [notice EXCEPT !.next = "finish"]
      BY <1>1, <3>2 DEF TypeOK
    <3> QED BY <2>1, <3>1, <3>2
  <2> QED BY <1>2, <2>1, <2>2 DEF Quiet, Flows, Waiting, SameStatus
<1>6. CASE NoticeQueued
  <2>1. /\ notice.next = "queue" /\ notice'.next # "queue" /\ notice.msg \in Msg
        /\ UNCHANGED <<recover, envelope>>
        /\ queue' = queue \/ queue' = Append(queue, notice.msg)
    BY <1>1, <1>6 DEF NoticeQueued, durable, TypeOK, Shape
  <2>2. MsgsOf(queue') \subseteq MsgsOf(queue) \cup {notice.msg}
    <3>1. queue \in Seq(Item) /\ notice.msg \in Item
      BY <1>1, <2>1 DEF TypeOK, Item
    <3>2. ToSet(Append(queue, notice.msg)) = ToSet(queue) \cup {notice.msg}
      BY <3>1, AppendList
    <3> QED BY <2>1, <3>2 DEF MsgsOf
  <2>3. Flows
    BY <1>2, <2>1, <2>2 DEF Flows, Waiting
  <2> QED BY <1>2, <2>1, <2>3 DEF Quiet, SameStatus
<1>7. ASSUME NEW m \in Msg, Resume(m) PROVE Quiet
  <2>1. /\ UNCHANGED <<recover, queue, envelope>> /\ envelope[m] # "none"
        /\ notice' = notice \/ (envelope[m] # "delivered" /\ notice'.msg = m)
    BY <1>7 DEF Resume, durable, mailbox
  <2>2. envelope[m] = "delivered" \/ envelope[m] \in {"pending", "delivering"}
    BY <1>1, <2>1 DEF TypeOK
  <2>3. Flows
    BY <1>2, <2>1, <2>2 DEF Flows, Waiting
  <2> QED BY <1>2, <2>1, <2>3 DEF Quiet, SameStatus
<1> QED BY <1>3, <1>4, <1>5, <1>6, <1>7

\* Messages move between the queue and the claim set.
Shuffles == MsgsOf(queue') \cup inflight' \subseteq MsgsOf(queue) \cup inflight

LEMMA ShuffleQuiet ==
  ASSUME IInv, Shuffles, UNCHANGED <<recover, notice, history, stored, up>>, SameStatus,
         faults' = faults \/ Fault
  PROVE  Quiet
<1>1. Flows
  BY DEF Shuffles, Flows, Waiting
<1> QED BY <1>1 DEF Quiet, Fault

LEMMA DrainShuffles == ASSUME Drain PROVE Shuffles
<1>1. MsgsOf(queue') = {}
  BY EmptySettled DEF Drain
<1> QED BY <1>1 DEF Drain, Shuffles

LEMMA RequeueShuffles ==
  ASSUME IInv, NEW items \in Seq(Item), Once(items), MsgsOf(items) \subseteq inflight, Requeue(items)
  PROVE  Shuffles
<1>1. /\ inflight' = inflight \ MsgsOf(items)
      /\ \/ Joined(queue', items, queue)
         \/ queue' = queue
  BY RequeueFacts
<1> QED BY <1>1 DEF Shuffles, Joined, MsgsOf

LEMMA QuietTurns ==
  ASSUME IInv, \/ WorkerBegin \/ StartResume \/ AckClaim \/ ReleaseConsumed \/ ReleaseBatch \/ FinishTurn
               \/ \E n \in Note : NoteArrives(n)
  PROVE  Quiet
<1>1. /\ TypeOK /\ Shape /\ batch \in Seq(Item) /\ consumed \in Seq(Item) /\ refused \in Seq(Item)
      /\ Once(batch) /\ Once(consumed) /\ Once(refused)
      /\ inflight = MsgsOf(batch) \cup MsgsOf(consumed) \cup MsgsOf(refused)
  BY NowSettled DEF IInv
<1>2. UNCHANGED <<recover, notice, history, stored, up>>
  BY DEF WorkerBegin, StartResume, AckClaim, ReleaseConsumed, ReleaseBatch, FinishTurn, NoteArrives,
     durable, process
<1>3. CASE WorkerBegin \/ StartResume
  <2>1. (UNCHANGED mailbox) \/ Drain
    BY <1>3 DEF WorkerBegin, StartResume
  <2>2. Shuffles
    BY <2>1, DrainShuffles DEF mailbox, Shuffles
  <2>3. SameStatus /\ (faults' = faults \/ Fault)
    BY <1>3 DEF WorkerBegin, StartResume, durable, SameStatus, Fault
  <2> QED BY <1>2, <2>2, <2>3, ShuffleQuiet
<1>4. CASE AckClaim
  <2> DEFINE h == Head(Unsettled)
  <2>1. h \in Msg
    BY <1>4, SettleFacts DEF AckClaim
  <2>2. /\ envelope[h] \in {"pending", "delivering"} /\ envelope' = [envelope EXCEPT ![h] = "delivering"]
        /\ UNCHANGED <<queue, inflight, faults>>
    BY <1>4 DEF AckClaim, CanClaim, Claim, mailbox, counters
  <2> HIDE DEF h
  <2>3. SameStatus /\ Shuffles
    BY <1>1, <2>1, <2>2 DEF SameStatus, TypeOK, Shuffles
  <2> QED BY <1>2, <2>2, <2>3, ShuffleQuiet
<1>5. CASE ReleaseConsumed \/ ReleaseBatch \/ FinishTurn
  <2>1. Requeue(consumed) \/ Requeue(batch) \/ Requeue(refused)
    BY <1>5 DEF ReleaseConsumed, ReleaseBatch, FinishTurn
  <2>2. Shuffles
    BY <1>1, <2>1, RequeueShuffles
  <2>3. SameStatus /\ faults' = faults
    BY <1>5 DEF ReleaseConsumed, ReleaseBatch, FinishTurn, durable, counters, SameStatus
  <2> QED BY <1>2, <2>2, <2>3, ShuffleQuiet
<1>6. ASSUME NEW n \in Note, NoteArrives(n) PROVE Quiet
  <2>1. queue \in Seq(Item) /\ n \in Item /\ n \notin Msg
    BY <1>1, ParentTurnsAssumption DEF TypeOK, Item
  <2>2. queue' = Append(queue, n) /\ UNCHANGED <<inflight, envelope, faults>>
    BY <1>6 DEF NoteArrives, durable, counters
  <2>3. ToSet(queue') = ToSet(queue) \cup {n}
    BY <2>1, <2>2, AppendList
  <2>4. SameStatus /\ Shuffles
    BY <2>1, <2>2, <2>3 DEF SameStatus, Shuffles, MsgsOf
  <2> QED BY <1>2, <2>2, <2>4, ShuffleQuiet
<1> QED BY <1>3, <1>4, <1>5, <1>6

\* An acknowledged message is in the conversation, whether the store answers or fails.
LEMMA SettleRefines ==
  ASSUME IInv, IInv', InboxInv, Shuffles, UNCHANGED <<recover, notice, history, stored, up>>,
         up # "down", NEW m \in Msg, m \in ToSet(history), HoldsClaim(m), GiveUpClaim(m, "delivered"),
         faults' = faults \/ Fault
  PROVE  InboxInv' /\ Refines
<1>1. TypeOK /\ TypeOK' /\ faults \in Nat /\ faults' \in {faults, faults + 1}
  BY FaultsCount DEF IInv, Fault
<1>2. /\ envelope[m] = "delivering"
      /\ \A n \in Msg : envelope'[n] = IF n = m THEN "delivered" ELSE envelope[n]
  BY <1>1 DEF TypeOK, HoldsClaim, GiveUpClaim
<1>3. InboxInv'
  <2>1. Flows
    BY DEF Shuffles, Flows, Waiting
  <2>2. /\ ToSet(history) \subseteq ToSet(history')
        /\ \A n \in Msg : n \in ToSet(history') \cup ToSet(stored')
                            => n \in Waiting \cup ToSet(history) \cup ToSet(stored)
        /\ \A n \in Msg : envelope[n] # "none" => envelope'[n] # "none"
        /\ \A n \in Msg : envelope'[n] = "delivered" => envelope[n] = "delivered" \/ n \in ToSet(history')
    BY <1>2
  <2> QED BY <1>1, <2>1, <2>2, InboxKept
<1>4. /\ m \in {n \in Msg : envelope[n] # "none"} \ {n \in Msg : envelope[n] = "delivered"}
      /\ {n \in Msg : envelope'[n] # "none"} = {n \in Msg : envelope[n] # "none"}
      /\ {n \in Msg : envelope'[n] = "delivered"} = {n \in Msg : envelope[n] = "delivered"} \cup {m}
  BY <1>2
<1>5. Inbox!Settle(m)
  BY <1>1, <1>4 DEF Inbox!Settle, Inbox!MayFail, Inbox!ToSet, ToSet
<1> QED BY <1>3, <1>5 DEF Refines, Inbox!Next

LEMMA AckCompleteRefines == ASSUME IInv, IInv', InboxInv, AckComplete PROVE InboxInv' /\ Refines
<1> DEFINE h == Head(Unsettled)
<1>1. /\ Shape /\ stage \in {"acking", "settling"} /\ Unsettled # <<>> /\ up # "down"
      /\ HoldsClaim(h) /\ GiveUpClaim(h, "delivered") /\ inflight' = inflight \ {h}
      /\ UNCHANGED <<recover, notice, history, stored, up, queue, faults>>
  BY DEF IInv, AckComplete, Shape, Unsettled, process, counters
<1>2. h \in Msg /\ h \in ToSet(history)
  BY <1>1, SettleFacts
<1> HIDE DEF h
<1>3. Shuffles
  BY <1>1 DEF Shuffles
<1> QED BY <1>1, <1>2, <1>3, SettleRefines

LEMMA AckFailsRefines == ASSUME IInv, IInv', InboxInv, AckFails PROVE InboxInv' /\ Refines
<1> DEFINE h == Head(Unsettled)
<1>1. /\ Shape /\ stage \in {"ack", "acking", "settle", "settling"} /\ Unsettled # <<>> /\ up # "down"
      /\ faults' = faults \/ Fault
      /\ envelope' = envelope \/ (HoldsClaim(h) /\ GiveUpClaim(h, "delivered"))
      /\ Requeue(<<h>>) \/ UNCHANGED mailbox
      /\ UNCHANGED <<recover, notice, history, stored, up>>
  BY DEF IInv, AckFails, Shape, process
<1>2. h \in Msg /\ h \in ToSet(history) /\ h \in inflight
  BY <1>1, SettleFacts
<1> HIDE DEF h
<1>3. Shuffles
  <2>1. CASE Requeue(<<h>>)
    <3> DEFINE items == <<h>>
    <3>1. items \in Seq(Item) /\ ToSet(items) = {h} /\ \A x, y : ~Before(items, x, y)
      <4>1. h \in Item
        BY <1>2 DEF Item
      <4> QED BY <4>1, SingleList
    <3>2. Once(items) /\ MsgsOf(items) \subseteq inflight /\ Requeue(items)
      BY <1>2, <2>1, <3>1 DEF Once, MsgsOf
    <3> HIDE DEF items
    <3> QED BY <3>1, <3>2, RequeueShuffles
  <2>2. CASE UNCHANGED mailbox
    BY <2>2 DEF mailbox, Shuffles
  <2> QED BY <1>1, <2>1, <2>2
<1>4. CASE envelope' = envelope
  <2>1. Quiet
    BY <1>1, <1>3, <1>4, ShuffleQuiet DEF SameStatus
  <2> QED BY <2>1, QuietStep
<1>5. CASE HoldsClaim(h) /\ GiveUpClaim(h, "delivered")
  BY <1>1, <1>2, <1>3, <1>5, SettleRefines
<1> QED BY <1>1, <1>4, <1>5

\* A list in which no message is twice, by its places.
LEMMA OncePlaces ==
  ASSUME NEW list \in Seq(Item), Once(list)
  PROVE  Inbox!Once(list)
<1>1. DOMAIN list = 1..Len(list) /\ Len(list) \in Nat
  BY LenProperties
<1>2. ASSUME NEW p \in DOMAIN list, NEW q \in DOMAIN list, list[p] = list[q], list[p] \in Msg
      PROVE  p = q
  <2>1. ~(p < q) /\ ~(q < p)
    BY <1>2 DEF Once, Before
  <2> QED BY <1>1, <2>1
<1> QED BY <1>2 DEF Inbox!Once

LEMMA ConcatPrefix ==
  ASSUME NEW s \in Seq(Item), NEW t \in Seq(Item)
  PROVE  Inbox!IsPrefix(s, s \o t)
<1> DEFINE c == s \o t
           n == Len(s)
<1>1. /\ n \in Nat /\ Len(t) \in Nat /\ c \in Seq(Item) /\ Len(c) = n + Len(t)
      /\ \A i \in 1..n + Len(t) : c[i] = IF i <= n THEN s[i] ELSE t[i - n]
  BY LenProperties, ConcatProperties
<1> HIDE DEF c
<1>2. n <= Len(c) /\ \A i \in 1..n : i \in 1..Len(c) /\ i <= n
  BY <1>1
<1>3. \A i \in 1..n : c[i] = s[i] /\ c[i] \in Item
  BY <1>1, <1>2, ElementOfSeq
<1>4. /\ SubSeq(c, 1, n) \in Seq(Item) /\ Len(SubSeq(c, 1, n)) = n
      /\ \A i \in 1..n : SubSeq(c, 1, n)[i] = c[i]
  <2>1. /\ SubSeq(c, 1, n) \in Seq(Item)
        /\ Len(SubSeq(c, 1, n)) = IF 1 <= n THEN n - 1 + 1 ELSE 0
        /\ \A i \in 1..n - 1 + 1 : SubSeq(c, 1, n)[i] = c[1 + i - 1]
    BY <1>1, <1>3, SubSeqProperties
  <2>2. (IF 1 <= n THEN n - 1 + 1 ELSE 0) = n /\ n - 1 + 1 = n /\ \A i \in 1..n : 1 + i - 1 = i
    BY <1>1
  <2> QED BY <2>1, <2>2
<1>5. SubSeq(c, 1, n) = s
  BY <1>3, <1>4, SeqEqual
<1>6. SubSeq(s, 1, n) = s
  BY SubSeqFull
<1>7. Len(s) <= Len(c) /\ SubSeq(s, 1, Len(s)) = SubSeq(c, 1, Len(s))
  BY <1>2, <1>5, <1>6
<1> QED BY <1>7 DEF Inbox!IsPrefix, c

\* What a turn appends was sent, and if nothing failed nobody has settled it.
LEMMA ReadRefines ==
  ASSUME IInv, IInv', InboxInv, up # "down", Shuffles, NEW items \in Seq(Item), Once(items),
         MsgsOf(items) \subseteq Waiting, Apply(items), faults' = faults \/ Fault,
         UNCHANGED <<recover, notice, envelope, stored, up>>
  PROVE  InboxInv' /\ Refines
<1>1. TypeOK /\ TypeOK' /\ Written' /\ faults \in Nat /\ faults' \in {faults, faults + 1}
  BY FaultsCount DEF IInv, Fault
<1>2. /\ history' \in Seq(Item) /\ ToSet(history) \subseteq ToSet(history')
      /\ MsgsOf(history') \subseteq ToSet(history) \cup MsgsOf(items)
  BY ApplyFacts
<1>3. InboxInv'
  <2>1. Flows
    BY DEF Shuffles, Flows, Waiting
  <2>2. \A n \in Msg : n \in ToSet(history') \cup ToSet(stored')
                         => n \in Waiting \cup ToSet(history) \cup ToSet(stored)
    BY <1>2 DEF MsgsOf
  <2> QED BY <1>1, <1>2, <2>1, <2>2, InboxKept
<1>4. Inbox!IsPrefix(history, history')
  <2> DEFINE new == Filter(items, Note \cup (Msg \ ToSet(history)))
  <2>1. history \in Seq(Item) /\ new \in Seq(Item) /\ history' = history \o new
    BY <1>1, FilterList DEF TypeOK, Apply
  <2> HIDE DEF new
  <2> QED BY <2>1, ConcatPrefix
<1>5. Inbox!Once(history') /\ history' \in Seq(Msg \cup Note)
  BY <1>1, <1>2, OncePlaces DEF Written, Item
<1>6. ASSUME NEW m \in Msg \cap (ToSet(history') \ ToSet(history))
      PROVE  envelope[m] # "none" /\ (envelope[m] # "delivered" \/ faults > 0)
  <2>1. m \in Waiting
    BY <1>2, <1>6 DEF MsgsOf
  <2> QED BY <1>1, <1>6, <2>1 DEF InboxInv
<1>7. \A m \in Msg \cap (Inbox!ToSet(history') \ Inbox!ToSet(history)) :
        /\ m \in {n \in Msg : envelope[n] # "none"}
        /\ m \notin {n \in Msg : envelope[n] = "delivered"} \/ faults > 0
  <2>1. \A s : Inbox!ToSet(s) = ToSet(s)
    BY DEF Inbox!ToSet, ToSet
  <2> QED BY <1>6, <2>1
<1>8. Inbox!Read
  BY <1>1, <1>4, <1>5, <1>7 DEF Inbox!Read, Inbox!MayFail
<1> QED BY <1>3, <1>8 DEF Refines, Inbox!Next

LEMMA AppliesRefine ==
  ASSUME IInv, IInv', InboxInv, ApplyBatch \/ LoopDrain \/ LimitDrain
  PROVE  InboxInv' /\ Refines
<1>1. /\ TypeOK /\ Shape /\ Once(queue) /\ Once(batch) /\ MsgsOf(batch) \subseteq inflight
      /\ queue \in Seq(Item)
  BY NowSettled DEF IInv, Contents, OneHolder, TypeOK
<1>2. up # "down" /\ UNCHANGED <<recover, notice, envelope, stored, up>> /\ (faults' = faults \/ Fault)
  BY <1>1 DEF ApplyBatch, LoopDrain, LimitDrain, durable, process, counters, Shape
<1>3. CASE ApplyBatch
  <2>1. PICK items \in Seq(Item), rest \in Seq(Item) : batch = items \o rest /\ Apply(items)
    BY <1>1, <1>3, ApplyBatchItems
  <2>2. Joined(batch, items, rest)
    BY <2>1, ConcatList
  <2>3. Once(items) /\ MsgsOf(items) \subseteq Waiting
    BY <1>1, <2>2 DEF Joined, Once, MsgsOf, Waiting
  <2>4. Shuffles
    BY <1>3 DEF ApplyBatch, mailbox, Shuffles
  <2> QED BY <1>2, <2>1, <2>3, <2>4, ReadRefines
<1>4. CASE LoopDrain \/ LimitDrain
  <2>1. Apply(queue) /\ Drain
    BY <1>4 DEF LoopDrain, LimitDrain
  <2>2. Shuffles /\ MsgsOf(queue) \subseteq Waiting
    BY <2>1, DrainShuffles DEF Waiting
  <2> QED BY <1>1, <1>2, <2>1, <2>2, ReadRefines
<1> QED BY <1>3, <1>4

\* A queued write reaches the store, which does not have it, or is lost.
LEMMA FlushRefines == ASSUME IInv, IInv', InboxInv, FlushWrite PROVE InboxInv' /\ Refines
<1> DEFINE e == Head(writes)
<1>1. /\ TypeOK /\ TypeOK' /\ Written /\ writes # <<>> /\ up # "down" /\ faults \in Nat
      /\ \/ stored' = Append(stored, e) /\ faults' = faults
         \/ stored' = stored /\ Fault
      /\ UNCHANGED <<queue, inflight, recover, notice, envelope, history, up>>
  BY FaultsCount DEF IInv, FlushWrite, Shape, process, mailbox
<1>2. e \in Item /\ e \in ToSet(writes)
  BY <1>1, TailList DEF TypeOK
<1> HIDE DEF e
<1>3. e \in ToSet(history) /\ (e \in Msg => e \notin ToSet(stored))
  BY <1>1, <1>2 DEF Written, MsgsOf
<1>4. Shuffles /\ SameStatus
  BY <1>1 DEF Shuffles, SameStatus
<1>5. CASE stored' = stored /\ Fault
  <2>1. Quiet
    BY <1>1, <1>4, <1>5, ShuffleQuiet
  <2> QED BY <2>1, QuietStep
<1>6. CASE stored' = Append(stored, e) /\ faults' = faults
  <2>1. ToSet(stored') = ToSet(stored) \cup {e}
    BY <1>1, <1>2, <1>6, AppendList, SMTT(30) DEF TypeOK
  <2>2. InboxInv'
    <3>1. Flows
      BY <1>1 DEF Flows, Waiting
    <3>2. /\ \A n \in Msg : n \in ToSet(history') \cup ToSet(stored')
                              => n \in Waiting \cup ToSet(history) \cup ToSet(stored)
          /\ \A n \in Msg : envelope[n] # "none" => envelope'[n] # "none"
          /\ \A n \in Msg : envelope'[n] = "delivered" => envelope[n] = "delivered" \/ n \in ToSet(history')
          /\ ToSet(history) \subseteq ToSet(history') /\ faults' \in {faults, faults + 1}
      BY <1>1, <1>3, <1>6, <2>1
    <3> QED BY <1>1, <3>1, <3>2, InboxKept
  <2>3. Inbox!Keep
    BY <1>1, <1>3, <1>6 DEF Inbox!Keep, Inbox!ToSet, ToSet
  <2> QED BY <2>2, <2>3 DEF Refines, Inbox!Next
<1> QED BY <1>1, <1>5, <1>6

LEMMA TaskEndsRefines ==
  ASSUME IInv, IInv', InboxInv, NEW m \in Msg, TaskEnds(m) PROVE InboxInv' /\ Refines
<1>1. /\ TypeOK /\ TypeOK' /\ faults \in Nat /\ up = "on" /\ envelope[m] = "none"
      /\ envelope' = [envelope EXCEPT ![m] = "pending"] /\ notice'.msg = m
      /\ UNCHANGED <<queue, inflight, recover, history, stored, up, faults>>
  BY FaultsCount DEF IInv, TaskEnds, mailbox, counters, process
<1>2. \A n \in Msg : envelope'[n] = IF n = m THEN "pending" ELSE envelope[n]
  BY <1>1 DEF TypeOK
<1>3. InboxInv'
  <2>1. Flows
    BY <1>1, <1>2 DEF Flows, Waiting
  <2>2. /\ \A n \in Msg : n \in ToSet(history') \cup ToSet(stored')
                            => n \in Waiting \cup ToSet(history) \cup ToSet(stored)
        /\ \A n \in Msg : envelope[n] # "none" => envelope'[n] # "none"
        /\ \A n \in Msg : envelope'[n] = "delivered" => envelope[n] = "delivered" \/ n \in ToSet(history')
        /\ ToSet(history) \subseteq ToSet(history') /\ faults' \in {faults, faults + 1}
    BY <1>1, <1>2
  <2> QED BY <1>1, <2>1, <2>2, InboxKept
<1>4. /\ m \notin {n \in Msg : envelope[n] # "none"}
      /\ {n \in Msg : envelope'[n] # "none"} = {n \in Msg : envelope[n] # "none"} \cup {m}
      /\ {n \in Msg : envelope'[n] = "delivered"} = {n \in Msg : envelope[n] = "delivered"}
  BY <1>1, <1>2
<1>5. Inbox!Send(m)
  BY <1>1, <1>4 DEF Inbox!Send
<1> QED BY <1>3, <1>5 DEF Refines, Inbox!Next

LEMMA PeerRefines ==
  ASSUME IInv, IInv', InboxInv, NEW m \in Msg, PeerDelivers(m) PROVE InboxInv' /\ Refines
<1>1. /\ TypeOK /\ TypeOK' /\ faults \in Nat /\ faults' = faults + 1
      /\ envelope[m] \in {"pending", "delivering"} /\ GiveUpClaim(m, "delivered")
      /\ UNCHANGED <<queue, inflight, recover, notice, history, stored, up>>
  BY FaultsCount DEF IInv, PeerDelivers, Fault, process, mailbox
<1>2. \A n \in Msg : envelope'[n] = IF n = m THEN "delivered" ELSE envelope[n]
  BY <1>1 DEF TypeOK, GiveUpClaim
<1>3. InboxInv'
  <2>1. Flows
    BY <1>1 DEF Flows, Waiting
  <2>2. /\ \A n \in Msg : n \in ToSet(history') \cup ToSet(stored')
                            => n \in Waiting \cup ToSet(history) \cup ToSet(stored)
        /\ \A n \in Msg : envelope[n] # "none" => envelope'[n] # "none"
        /\ ToSet(history) \subseteq ToSet(history') /\ faults' \in {faults, faults + 1}
        /\ faults' # faults
    BY <1>1, <1>2
  <2> QED BY <1>1, <2>1, <2>2, InboxKept
<1>4. /\ m \in {n \in Msg : envelope[n] # "none"} \ {n \in Msg : envelope[n] = "delivered"}
      /\ {n \in Msg : envelope'[n] # "none"} = {n \in Msg : envelope[n] # "none"}
      /\ {n \in Msg : envelope'[n] = "delivered"} = {n \in Msg : envelope[n] = "delivered"} \cup {m}
  BY <1>1, <1>2
<1>5. Inbox!SettledElsewhere(m)
  BY <1>1, <1>4 DEF Inbox!SettledElsewhere
<1> QED BY <1>3, <1>5 DEF Refines, Inbox!Next

\* The end of the process and its next start, which goes on with what the store has.
LEMMA StopRefines ==
  ASSUME IInv, InboxInv, Crash \/ RecoverPanics PROVE InboxInv' /\ Refines
<1>1. /\ up # "down" /\ Stop /\ UNCHANGED <<envelope, stored>> /\ (faults' = faults \/ Fault)
  BY DEF IInv, Shape, Crash, RecoverPanics, durable, counters
<1>2. Waiting' = {} /\ history' = <<>> /\ ToSet(history') = {}
  BY <1>1, EmptyList, EmptySettled DEF Stop, Waiting, NoNotice
<1>3. InboxInv'
  BY <1>1, <1>2 DEF InboxInv
<1>4. Inbox!Sleep
  BY <1>1, <1>2 DEF Inbox!Sleep, Inbox!MayFail, Stop, Fault
<1> QED BY <1>3, <1>4 DEF Refines, Inbox!Next

LEMMA BootRefines == ASSUME IInv, InboxInv, Boot PROVE InboxInv' /\ Refines
<1>1. /\ TypeOK /\ up = "down" /\ up' = "boot" /\ history' = stored
      /\ recover' = Filter(created, {m \in Msg : envelope[m] \in {"pending", "delivering"}})
      /\ UNCHANGED <<envelope, stored, queue, inflight, notice, faults>>
  BY DEF IInv, Boot, durable, mailbox, counters
<1>2. \A m \in ToSet(recover') : m \in Msg /\ envelope[m] \in {"pending", "delivering"}
  <2> DEFINE S == {m \in Msg : envelope[m] \in {"pending", "delivering"}}
  <2>1. created \in Seq(Msg) /\ recover' = Filter(created, S)
    BY <1>1 DEF TypeOK
  <2> HIDE DEF S
  <2>2. Filtered(Filter(created, S), created, S)
    BY <2>1, FilterList
  <2>3. ToSet(recover') \subseteq S
    BY <2>1, <2>2 DEF Filtered
  <2> QED BY <2>3 DEF S
<1>3. /\ MsgsOf(queue') = {} /\ inflight' = {} /\ notice'.next = "none"
  <2>1. queue = <<>> /\ batch = <<>> /\ consumed = <<>> /\ refused = <<>> /\ notice.next = "none"
    BY <1>1 DEF IInv, Shape
  <2>2. inflight = {}
    BY <2>1, NowSettled, EmptySettled
  <2> QED BY <1>1, <2>1, <2>2, EmptySettled
<1>4. \A m \in Waiting' : m \in Msg /\ envelope'[m] \in {"pending", "delivering"}
  BY <1>1, <1>2, <1>3 DEF Waiting
<1>5. InboxInv'
  BY <1>1, <1>4 DEF InboxInv
<1>6. Inbox!Wake
  BY <1>1 DEF Inbox!Wake
<1> QED BY <1>5, <1>6 DEF Refines, Inbox!Next

LEMMA StepRefines == ASSUME IInv, IInv', InboxInv, [Next]_vars PROVE InboxInv' /\ Refines
<1>1. CASE Quiet
  BY <1>1, QuietStep
<1>2. CASE UNCHANGED vars
  BY <1>1, <1>2, QuietControl
<1>3. CASE Process
  <2>1. CASE Notify
    BY <1>1, <2>1, QuietNotices DEF Notify
  <2>2. CASE Recovery
    BY <1>1, <2>2, QuietNotices, QuietControl, StopRefines DEF Recovery
  <2>3. CASE Generation
    BY <1>1, <2>3, AppliesRefine, QuietControl DEF Generation
  <2>4. CASE Settlement
    BY <1>1, <2>4, QuietTurns, QuietControl, AckCompleteRefines, AckFailsRefines DEF Settlement
  <2> QED
    BY <1>1, <1>3, <2>1, <2>2, <2>3, <2>4, QuietTurns, QuietControl, FlushRefines DEF Process
<1>4. CASE WorkerBegin \/ StartUser \/ Pause \/ Crash \/ Boot
  BY <1>1, <1>4, QuietTurns, QuietControl, StopRefines, BootRefines
<1>5. ASSUME NEW m \in Msg, TaskEnds(m) \/ Resume(m) \/ PeerDelivers(m) PROVE InboxInv' /\ Refines
  BY <1>1, <1>5, TaskEndsRefines, QuietNotices, PeerRefines
<1>6. ASSUME NEW n \in Note, NoteArrives(n) PROVE InboxInv' /\ Refines
  BY <1>1, <1>6, QuietTurns
<1> QED BY <1>2, <1>3, <1>4, <1>5, <1>6 DEF Next

(* The queue, the wake-ups, the claims, the recovery and the asynchronous writes, with
   crashes, failures of the store and other instances, do what ParentInbox promises: a
   result is read at most once in a life and kept at most once, only after it was sent
   and, when nothing failed, before it is settled; what is settled stays settled and,
   but for another instance, was read (parent_completion.go:27-255, queue.go:110-272,
   command_service.go:36-48, agent_loop_service.go:288-363). *)
THEOREM Implements == Spec => ImplementsInbox
<1>1. Init => InboxInv /\ Inbox!Init
  <2> SUFFICES ASSUME Init PROVE InboxInv /\ Inbox!Init
    OBVIOUS
  <2>1. ToSet(<<>>) = {} /\ MsgsOf(<<>>) = {}
    BY EmptyList, EmptySettled
  <2>2. InboxInv
    BY <2>1 DEF Init, InboxInv, Waiting, NoNotice
  <2>3. Inbox!Init
    BY DEF Init, Inbox!Init
  <2> QED BY <2>2, <2>3
<1>2. IInv /\ IInv' /\ InboxInv /\ [Next]_vars => InboxInv' /\ [Inbox!Next]_(Inbox!vars)
  BY StepRefines DEF Refines
<1> QED BY <1>1, <1>2, Invariant, PTL DEF Spec, ImplementsInbox, Inbox!Spec

=============================================================================
