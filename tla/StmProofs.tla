----------------------------- MODULE StmProofs ------------------------------
(***************************************************************************)
(* Proofs about the software timers, for every number of control blocks,   *)
(* every width and length of the tick and every set of durations shorter   *)
(* than a turn.                                                            *)
(***************************************************************************)
EXTENDS Stm, SequenceTheorems, WellFoundedInduction, TLAPS

-----------------------------------------------------------------------------
(***************************************************************************)
(* The inductive invariant.  NotEarly relates the milliseconds a timer     *)
(* still has to wait to its expiry: a timer of the current sector that has *)
(* to wait longer than two ticks less two milliseconds expires before the  *)
(* tick wraps, and what it has to wait is covered by the ticks until then, *)
(* less what of the running tick has passed.                               *)
(***************************************************************************)
Early == 2 * (TickMs - 1)

\* The milliseconds of n ticks.
Span(n) == n * TickMs

NotEarly ==
  \A t \in Tid :
    timerCb[t].active /\ timerCb[t].timeSector = timeSector =>
      \/ left[t] <= Early
      \/ /\ timeTick < timerCb[t].time
         /\ left[t] <= Span(timerCb[t].time - timeTick) + Early - phase

IInv == QueueHoldsActive /\ QueueInOrder /\ NotEarly

\* The order in which two control blocks may be queued.
Before(a, b) ==
  \/ a.timeSector = b.timeSector /\ a.time <= b.time
  \/ a.timeSector = timeSector /\ b.timeSector # timeSector

-----------------------------------------------------------------------------
\* A set of natural numbers that is not empty has a smallest element.
LEMMA Smallest ==
  ASSUME NEW S, S \subseteq Nat, S # {}
  PROVE  \E i \in S : \A j \in S : i <= j
<1>1. PICK i \in S : \A j \in S : <<j, i>> \notin OpToRel(<, Nat)
  BY WFMin, NatLessThanWellFounded
<1>2. \A j \in S : ~ (j < i)
  BY <1>1 DEF OpToRel
<1> QED BY <1>2

\* What the scans of STM_StartTimer return.
LEMMA FirstLemma ==
  ASSUME NEW S, S \subseteq Nat \ {0}
  PROVE  /\ S = {} => First(S) = 0
         /\ S # {} => First(S) \in S /\ \A j \in S : First(S) <= j
<1>1. CASE S = {}
  BY <1>1 DEF First
<1>2. CASE S # {}
  <2>1. \E i \in S : \A j \in S : i <= j
    BY <1>2, Smallest
  <2> QED BY <1>2, <2>1 DEF First
<1> QED BY <1>1, <1>2

\* The tick is a counter modulo TickMax + 1.
LEMMA TickMod ==
  \A x \in 0 .. 2 * TickMax + 1 :
    x % (TickMax + 1) = IF x <= TickMax THEN x ELSE x - (TickMax + 1)
<1> TAKE x \in 0 .. 2 * TickMax + 1
<1>1. CASE x <= TickMax
  BY <1>1, StmAssumption
<1>2. CASE x > TickMax
  <2>1. /\ x - (TickMax + 1) \in 0 .. TickMax
        /\ x = (TickMax + 1) * 1 + (x - (TickMax + 1))
    BY <1>2, StmAssumption
  <2> QED BY <1>2, <2>1, StmAssumption
<1> QED BY <1>1, <1>2, StmAssumption

\* Ticks and milliseconds.
LEMMA SpanLemma ==
  /\ \A n \in Int : Span(n) \in Int
  /\ \A n \in Int : Span(n) = Span(n - 1) + TickMs
  /\ \A m, n \in Int : m <= n => Span(m) <= Span(n)
  /\ Span(0) = 0
<1>0. TickMs \in Nat /\ TickMs > 0
  BY StmAssumption
<1>1. ASSUME NEW m \in Int, NEW n \in Int, m <= n
      PROVE  Span(m) <= Span(n)
  <2>1. n - m >= 0 /\ (n - m) * TickMs >= 0
    BY <1>0, <1>1
  <2>2. n * TickMs = m * TickMs + (n - m) * TickMs
    BY <1>0
  <2> QED BY <1>0, <2>1, <2>2 DEF Span
<1> QED BY <1>0, <1>1 DEF Span

\* What STM_MS_TO_TICK keeps of a duration, and that it fits in a turn.
LEMMA DivLemma ==
  ASSUME NEW dur \in 0 .. DurMax
  PROVE  /\ STM_MS_TO_TICK(dur) \in 0 .. TickMax
         /\ dur <= Span(STM_MS_TO_TICK(dur)) + TickMs - 1
<1> DEFINE a == dur \div TickMs
           b == DurMax \div TickMs
<1>0. /\ TickMs \in Nat /\ TickMs > 0 /\ DurMax \in Nat /\ TickMax \in Nat
      /\ b <= TickMax /\ dur \in Nat /\ dur <= DurMax
  BY StmAssumption
<1>1. /\ a \in Nat /\ b \in Nat
      /\ a * TickMs <= dur /\ dur <= a * TickMs + TickMs - 1
      /\ DurMax <= b * TickMs + TickMs - 1
  BY <1>0
<1> HIDE DEF a, b
<1>2. Span(a) <= dur /\ dur <= Span(a) + TickMs - 1 /\ DurMax <= Span(b) + TickMs - 1
  BY <1>1 DEF Span
<1>3. a <= b
  <2> SUFFICES ASSUME a > b PROVE FALSE
    BY <1>1
  <2>1. Span(b + 1) <= Span(a) /\ Span(b + 1) = Span(b) + TickMs
    <3>1. b + 1 \in Int /\ a \in Int /\ b + 1 <= a /\ (b + 1) - 1 = b
      BY <1>1
    <3>2. Span(b + 1) = Span((b + 1) - 1) + TickMs
      BY <3>1, SpanLemma
    <3> QED BY <3>1, <3>2, SpanLemma
  <2>2. Span(a) \in Int /\ Span(b) \in Int
    BY <1>1, SpanLemma
  <2> QED BY <1>0, <1>2, <2>1, <2>2
<1>4. STM_MS_TO_TICK(dur) = a
  BY DEF STM_MS_TO_TICK, a
<1> QED BY <1>0, <1>1, <1>2, <1>3, <1>4

-----------------------------------------------------------------------------
(***************************************************************************)
(* The list operations, position by position.                              *)
(***************************************************************************)
\* r is q with t put at position p, or with position p taken out.
Inserted(q, p, t, r) ==
  /\ r \in Seq(Tid) /\ Len(r) = Len(q) + 1
  /\ \A i \in 1 .. Len(r) : r[i] = IF i < p THEN q[i] ELSE IF i = p THEN t ELSE q[i - 1]

Removed(q, p, r) ==
  /\ r \in Seq(Tid) /\ Len(r) = Len(q) - 1
  /\ \A i \in 1 .. Len(r) : r[i] = IF i < p THEN q[i] ELSE q[i + 1]

\* DLIST_Insert in front of a queued timer, or at the end.
LEMMA EnqueueLemma ==
  ASSUME NEW t \in Tid, timerQueue \in Seq(Tid), NEW place \in 0 .. Len(timerQueue)
  PROVE  Inserted(timerQueue, IF place = 0 THEN Len(timerQueue) + 1 ELSE place, t,
                  Enqueue(t, place))
<1> DEFINE q == timerQueue
<1>0. Len(q) \in Nat /\ \A i \in 1 .. Len(q) : q[i] \in Tid
  BY ElementOfSeq
<1>1. CASE place = 0
  <2>1. /\ Append(q, t) \in Seq(Tid) /\ Len(Append(q, t)) = Len(q) + 1
        /\ \A i \in 1 .. Len(q) : Append(q, t)[i] = q[i]
        /\ Append(q, t)[Len(q) + 1] = t
    BY AppendProperties
  <2> QED BY <1>0, <1>1, <2>1 DEF Enqueue, Inserted
<1>2. CASE place # 0
  <2> DEFINE a == SubSeq(q, 1, place - 1)
             c == SubSeq(q, place, Len(q))
  <2>1. /\ a \in Seq(Tid) /\ Len(a) = place - 1
        /\ \A i \in 1 .. place - 1 : a[i] = q[i]
    BY <1>0, <1>2, SubSeqProperties
  <2>2. /\ c \in Seq(Tid) /\ Len(c) = Len(q) - place + 1
        /\ \A i \in 1 .. Len(q) - place + 1 : c[i] = q[place + i - 1]
    BY <1>0, <1>2, SubSeqProperties
  <2>3. <<t>> \in Seq(Tid) /\ Len(<<t>>) = 1 /\ <<t>>[1] = t
    OBVIOUS
  <2> DEFINE b == a \o <<t>>
  <2>4. /\ b \in Seq(Tid) /\ Len(b) = place
        /\ \A i \in 1 .. place : b[i] = IF i < place THEN q[i] ELSE t
    <3> HIDE DEF a
    <3>1. /\ b \in Seq(Tid) /\ Len(b) = Len(a) + Len(<<t>>)
          /\ \A i \in 1 .. Len(a) + Len(<<t>>) :
               b[i] = IF i <= Len(a) THEN a[i] ELSE <<t>>[i - Len(a)]
      BY <2>1, <2>3, ConcatProperties
    <3> QED BY <1>0, <1>2, <2>1, <2>3, <3>1
  <2> HIDE DEF a, b, c
  <2>5. /\ b \o c \in Seq(Tid) /\ Len(b \o c) = Len(b) + Len(c)
        /\ \A i \in 1 .. Len(b) + Len(c) :
             (b \o c)[i] = IF i <= Len(b) THEN b[i] ELSE c[i - Len(b)]
    BY <2>2, <2>4, ConcatProperties
  <2>6. ASSUME NEW i \in 1 .. Len(q) + 1
        PROVE  (b \o c)[i] = IF i < place THEN q[i] ELSE IF i = place THEN t ELSE q[i - 1]
    <3>1. CASE i <= place
      BY <1>0, <1>2, <2>2, <2>4, <2>5, <3>1
    <3>2. CASE i > place
      <4>1. i - place \in 1 .. Len(q) - place + 1 /\ place + (i - place) - 1 = i - 1
        BY <1>0, <1>2, <3>2
      <4>2. c[i - place] = q[i - 1]
        BY <2>2, <4>1
      <4> QED BY <1>0, <1>2, <2>2, <2>4, <2>5, <3>2, <4>2
    <3>3. i <= place \/ i > place
      BY <1>0
    <3> QED BY <3>1, <3>2, <3>3, Zenon
  <2>7. Enqueue(t, place) = b \o c
    BY <1>2 DEF Enqueue, InsertAt, a, b, c
  <2>8. Len(b \o c) = Len(q) + 1
    BY <1>0, <1>2, <2>2, <2>4, <2>5
  <2> QED BY <1>2, <2>5, <2>6, <2>7, <2>8 DEF Inserted
<1> QED BY <1>1, <1>2

LEMMA RemoveLemma ==
  ASSUME timerQueue \in Seq(Tid), NEW p \in 1 .. Len(timerQueue)
  PROVE  Removed(timerQueue, p, RemoveAt(timerQueue, p))
<1> DEFINE q == timerQueue
           a == SubSeq(q, 1, p - 1)
           c == SubSeq(q, p + 1, Len(q))
<1>0. Len(q) \in Nat /\ \A i \in 1 .. Len(q) : q[i] \in Tid
  BY ElementOfSeq
<1>1. /\ a \in Seq(Tid) /\ Len(a) = p - 1
      /\ \A i \in 1 .. p - 1 : a[i] = q[i]
  BY <1>0, SubSeqProperties
<1>2. /\ c \in Seq(Tid) /\ Len(c) = Len(q) - p
      /\ \A i \in 1 .. Len(q) - p : c[i] = q[p + i]
  BY <1>0, SubSeqProperties
<1> HIDE DEF a, c
<1>3. /\ a \o c \in Seq(Tid) /\ Len(a \o c) = Len(a) + Len(c)
      /\ \A i \in 1 .. Len(a) + Len(c) :
           (a \o c)[i] = IF i <= Len(a) THEN a[i] ELSE c[i - Len(a)]
  BY <1>1, <1>2, ConcatProperties
<1>4. ASSUME NEW i \in 1 .. Len(q) - 1
      PROVE  (a \o c)[i] = IF i < p THEN q[i] ELSE q[i + 1]
  <2>1. CASE i < p
    BY <1>0, <1>1, <1>2, <1>3, <2>1
  <2>2. CASE i >= p
    <3>1. i - (p - 1) \in 1 .. Len(q) - p /\ p + (i - (p - 1)) = i + 1
      BY <1>0, <2>2
    <3>2. c[i - (p - 1)] = q[i + 1]
      BY <1>2, <3>1
    <3>3. (a \o c)[i] = c[i - (p - 1)]
      BY <1>0, <1>1, <1>2, <1>3, <2>2
    <3>4. ~ (i < p)
      BY <1>0, <2>2
    <3> QED BY <3>2, <3>3, <3>4, Zenon
  <2>3. i < p \/ i >= p
    BY <1>0
  <2> QED BY <2>1, <2>2, <2>3, Zenon
<1>5. RemoveAt(q, p) = a \o c
  BY DEF RemoveAt, a, c
<1>6. Len(a \o c) = Len(q) - 1
  BY <1>0, <1>1, <1>2, <1>3
<1> QED BY <1>3, <1>4, <1>5, <1>6 DEF Removed

\* The queue as a set, by positions.
LEMMA QueueView ==
  ASSUME NEW q \in Seq(Tid)
  PROVE  /\ Len(q) \in Nat /\ \A i \in 1 .. Len(q) : q[i] \in Tid
         /\ \A t : t \in ToSet(q) <=> \E i \in 1 .. Len(q) : q[i] = t
         /\ IsInjective(q) <=> \A i, j \in 1 .. Len(q) : q[i] = q[j] => i = j
<1>1. Len(q) \in Nat /\ DOMAIN q = 1 .. Len(q)
  BY LenProperties
<1> QED BY <1>1, ElementOfSeq DEF ToSet, IsInjective

\* A timer joins the queue and becomes active.
LEMMA InsertedSound ==
  ASSUME QueueHoldsActive, NEW t \in Tid, ~timerCb[t].active,
         NEW p \in 1 .. Len(timerQueue) + 1, NEW r, Inserted(timerQueue, p, t, r)
  PROVE  /\ \A u \in Tid : u \in ToSet(r) <=> timerCb[u].active \/ u = t
         /\ IsInjective(r)
<1> DEFINE q == timerQueue
<1>0. /\ q \in Seq(Tid) /\ r \in Seq(Tid) /\ Len(r) = Len(q) + 1 /\ Len(q) \in Nat
      /\ \A i \in 1 .. Len(r) : r[i] = IF i < p THEN q[i] ELSE IF i = p THEN t ELSE q[i - 1]
      /\ \A i \in 1 .. Len(q) : q[i] \in Tid
  BY QueueView DEF QueueHoldsActive, TypeOK, Inserted
<1>1. /\ \A u \in Tid : timerCb[u].active <=> \E i \in 1 .. Len(q) : q[i] = u
      /\ \A i, j \in 1 .. Len(q) : q[i] = q[j] => i = j
  BY <1>0, QueueView DEF QueueHoldsActive
<1>2. \A i \in 1 .. Len(q) : q[i] # t
  BY <1>0, <1>1
<1> HIDE DEF q
<1>3. ASSUME NEW u \in Tid
      PROVE  (\E i \in 1 .. Len(r) : r[i] = u) <=> timerCb[u].active \/ u = t
  <2>1. ASSUME NEW i \in 1 .. Len(r), r[i] = u
        PROVE  timerCb[u].active \/ u = t
    <3>1. CASE i < p
      <4>1. i \in 1 .. Len(q) /\ q[i] = u
        BY <1>0, <2>1, <3>1 DEF q
      <4> QED BY <1>1, <4>1
    <3>2. CASE i = p
      BY <1>0, <2>1, <3>2
    <3>3. CASE i > p
      <4>1. i - 1 \in 1 .. Len(q) /\ q[i - 1] = u
        BY <1>0, <2>1, <3>3 DEF q
      <4> QED BY <1>1, <4>1
    <3>4. i < p \/ i = p \/ i > p
      BY <1>0
    <3> QED BY <3>1, <3>2, <3>3, <3>4
  <2>2. ASSUME timerCb[u].active
        PROVE  \E i \in 1 .. Len(r) : r[i] = u
    <3>1. PICK j \in 1 .. Len(q) : q[j] = u
      BY <1>1, <2>2
    <3>2. CASE j < p
      <4>1. j \in 1 .. Len(r) /\ r[j] = u
        BY <1>0, <3>1, <3>2
      <4> QED BY <4>1
    <3>3. CASE j >= p
      <4>1. j + 1 \in 1 .. Len(r) /\ ~ (j + 1 < p) /\ j + 1 # p /\ (j + 1) - 1 = j
        BY <1>0, <3>3
      <4>2. r[j + 1] = u
        BY <1>0, <3>1, <4>1
      <4> QED BY <4>1, <4>2
    <3>4. j < p \/ j >= p
      BY <1>0
    <3> QED BY <3>2, <3>3, <3>4
  <2>3. p \in 1 .. Len(r) /\ r[p] = t
    BY <1>0 DEF q
  <2> QED BY <2>1, <2>2, <2>3
<1>4. ASSUME NEW i \in 1 .. Len(r), NEW j \in 1 .. Len(r), i < j
      PROVE  r[i] # r[j]
  <2>1. CASE j < p
    <3>1. i \in 1 .. Len(q) /\ j \in 1 .. Len(q) /\ i # j /\ r[i] = q[i] /\ r[j] = q[j]
      BY <1>0, <1>4, <2>1 DEF q
    <3> QED BY <1>1, <3>1
  <2>2. CASE j = p
    <3>1. i \in 1 .. Len(q) /\ r[i] = q[i] /\ r[j] = t
      BY <1>0, <1>4, <2>2 DEF q
    <3> QED BY <1>2, <3>1
  <2>3. CASE j > p /\ i < p
    <3>1. i \in 1 .. Len(q) /\ j - 1 \in 1 .. Len(q) /\ i # j - 1 /\ r[i] = q[i] /\ r[j] = q[j - 1]
      BY <1>0, <1>4, <2>3 DEF q
    <3> QED BY <1>1, <3>1
  <2>4. CASE j > p /\ i = p
    <3>1. j - 1 \in 1 .. Len(q) /\ r[i] = t /\ r[j] = q[j - 1]
      BY <1>0, <1>4, <2>4 DEF q
    <3> QED BY <1>2, <3>1
  <2>5. CASE j > p /\ i > p
    <3>1. i - 1 \in 1 .. Len(q) /\ j - 1 \in 1 .. Len(q) /\ i - 1 # j - 1
      BY <1>0, <1>4, <2>5 DEF q
    <3>2. r[i] = q[i - 1] /\ r[j] = q[j - 1]
      BY <1>0, <1>4, <2>5 DEF q
    <3> QED BY <1>1, <3>1, <3>2
  <2>6. j < p \/ j = p \/ (j > p /\ i < p) \/ (j > p /\ i = p) \/ (j > p /\ i > p)
    BY <1>0
  <2> QED BY <2>1, <2>2, <2>3, <2>4, <2>5, <2>6
<1>5. \A i, j \in 1 .. Len(r) : r[i] = r[j] => i = j
  BY <1>0, <1>4
<1> QED BY <1>0, <1>3, <1>5, QueueView

\* A timer leaves the queue and becomes inactive.
LEMMA RemovedSound ==
  ASSUME QueueHoldsActive, NEW p \in 1 .. Len(timerQueue),
         NEW r, Removed(timerQueue, p, r)
  PROVE  /\ \A u \in Tid : u \in ToSet(r) <=> timerCb[u].active /\ u # timerQueue[p]
         /\ IsInjective(r)
<1> DEFINE q == timerQueue
<1>0. /\ q \in Seq(Tid) /\ r \in Seq(Tid) /\ Len(r) = Len(q) - 1 /\ Len(q) \in Nat
      /\ \A i \in 1 .. Len(r) : r[i] = IF i < p THEN q[i] ELSE q[i + 1]
      /\ p \in 1 .. Len(q)
  BY QueueView DEF QueueHoldsActive, TypeOK, Removed
<1>1. /\ \A u \in Tid : timerCb[u].active <=> \E i \in 1 .. Len(q) : q[i] = u
      /\ \A i, j \in 1 .. Len(q) : q[i] = q[j] => i = j
  BY <1>0, QueueView DEF QueueHoldsActive
<1> HIDE DEF q
<1>2. \A i \in 1 .. Len(r) :
        \E k \in 1 .. Len(q) : k # p /\ r[i] = q[k] /\ k = IF i < p THEN i ELSE i + 1
  BY <1>0
<1>3. \A k \in 1 .. Len(q) : k # p => \E i \in 1 .. Len(r) : r[i] = q[k]
  <2> SUFFICES ASSUME NEW k \in 1 .. Len(q), k # p
               PROVE  \E i \in 1 .. Len(r) : r[i] = q[k]
    OBVIOUS
  <2>1. CASE k < p
    BY <1>0, <2>1
  <2>2. CASE k > p
    <3>1. k - 1 \in 1 .. Len(r) /\ ~ (k - 1 < p) /\ (k - 1) + 1 = k
      BY <1>0, <2>2
    <3> QED BY <1>0, <3>1
  <2> QED BY <1>0, <2>1, <2>2
<1>4. ASSUME NEW u \in Tid
      PROVE  (\E i \in 1 .. Len(r) : r[i] = u) <=> timerCb[u].active /\ u # q[p]
  <2>1. ASSUME NEW i \in 1 .. Len(r), r[i] = u
        PROVE  timerCb[u].active /\ u # q[p]
    <3>1. PICK k \in 1 .. Len(q) : k # p /\ r[i] = q[k]
      BY <1>2
    <3> QED BY <1>0, <1>1, <2>1, <3>1
  <2>2. ASSUME timerCb[u].active, u # q[p]
        PROVE  \E i \in 1 .. Len(r) : r[i] = u
    <3>1. PICK k \in 1 .. Len(q) : q[k] = u
      BY <1>1, <2>2
    <3> QED BY <1>3, <2>2, <3>1
  <2> QED BY <2>1, <2>2
<1>5. \A i, j \in 1 .. Len(r) : r[i] = r[j] => i = j
  <2> SUFFICES ASSUME NEW i \in 1 .. Len(r), NEW j \in 1 .. Len(r), r[i] = r[j]
               PROVE  i = j
    OBVIOUS
  <2>1. PICK k \in 1 .. Len(q) : r[i] = q[k] /\ k = IF i < p THEN i ELSE i + 1
    BY <1>2
  <2>2. PICK l \in 1 .. Len(q) : r[j] = q[l] /\ l = IF j < p THEN j ELSE j + 1
    BY <1>2
  <2>3. k = l
    BY <1>1, <2>1, <2>2
  <2> QED BY <1>0, <2>1, <2>2, <2>3
<1> QED BY <1>0, <1>4, <1>5, QueueView DEF q

-----------------------------------------------------------------------------
(***************************************************************************)
(* The place STM_StartTimer finds: everything in front of it may come      *)
(* first, everything from it on must come later.                           *)
(***************************************************************************)
LEMMA PlaceLemma ==
  ASSUME TypeOK, QueueInOrder, NEW sec \in 0 .. 1, NEW at \in 0 .. TickMax,
         NEW new, new.timeSector = sec, new.time = at
  PROVE  /\ PlaceOf(sec, at) \in 0 .. Len(timerQueue)
         /\ \A i \in Indices :
              IF PlaceOf(sec, at) = 0 \/ i < PlaceOf(sec, at)
                THEN Before(timerCb[timerQueue[i]], new)
                ELSE Before(new, timerCb[timerQueue[i]])
<1> DEFINE cb(i)   == timerCb[timerQueue[i]]
           foreign == {i \in Indices : cb(i).timeSector # timeSector}
           other   == First(foreign)
           inFront == {i \in Indices : cb(i).timeSector = sec /\ at <= cb(i).time}
           current == {i \in inFront : other = 0 \/ i < other}
           later   == {i \in inFront : other # 0 /\ i >= other}
<1>0. /\ Len(timerQueue) \in Nat /\ Indices \subseteq Nat \ {0} /\ TickMax \in Nat
      /\ Indices = 1 .. Len(timerQueue) /\ timeSector \in 0 .. 1
      /\ \A i \in Indices : cb(i).timeSector \in 0 .. 1 /\ cb(i).time \in 0 .. TickMax
  BY QueueView, StmAssumption DEF TypeOK, Indices, Cb
<1>1. \A i, j \in Indices : i < j => Before(cb(i), cb(j))
  BY DEF QueueInOrder, Before
<1>2. /\ foreign = {} => other = 0
      /\ foreign # {} => other \in foreign /\ \A j \in foreign : other <= j
  BY <1>0, FirstLemma
<1>3. /\ current = {} => First(current) = 0
      /\ current # {} => First(current) \in current /\ \A j \in current : First(current) <= j
  BY <1>0, FirstLemma
<1>4. /\ later = {} => First(later) = 0
      /\ later # {} => First(later) \in later /\ \A j \in later : First(later) <= j
  BY <1>0, FirstLemma
<1>5. PlaceOf(sec, at) = IF sec = timeSector
                           THEN IF current # {} THEN First(current) ELSE other
                           ELSE First(later)
  BY DEF PlaceOf
<1> DEFINE c == First(current)
           l == First(later)
<1> HIDE DEF cb, other, c, l
<1>6. CASE sec = timeSector /\ current # {}
  <2>0. PlaceOf(sec, at) = c
    BY <1>5, <1>6 DEF c
  <2>1. /\ c \in Indices /\ cb(c).timeSector = sec /\ at <= cb(c).time
        /\ other = 0 \/ c < other
        /\ \A j \in current : c <= j
    BY <1>3, <1>6 DEF c
  <2>2. ASSUME NEW i \in Indices, i < c
        PROVE  Before(cb(i), new)
    <3>1. other = 0 \/ i < other
      BY <1>0, <1>2, <2>1, <2>2
    <3>2. cb(i).timeSector = timeSector
      BY <1>0, <1>2, <3>1
    <3>3. i \notin current
      BY <1>0, <2>1, <2>2
    <3>4. ~ (at <= cb(i).time)
      BY <1>6, <3>1, <3>2, <3>3
    <3> QED BY <1>0, <1>6, <3>2, <3>4 DEF Before
  <2>3. ASSUME NEW i \in Indices, ~ (i < c)
        PROVE  Before(new, cb(i))
    <3>1. i = c \/ Before(cb(c), cb(i))
      BY <1>0, <1>1, <2>1, <2>3
    <3> QED BY <1>0, <1>6, <2>1, <3>1 DEF Before
  <2>4. c \in 0 .. Len(timerQueue) /\ c # 0
    BY <1>0, <2>1
  <2> QED BY <2>0, <2>2, <2>3, <2>4 DEF cb
<1>7. CASE sec = timeSector /\ current = {}
  <2>0. PlaceOf(sec, at) = other
    BY <1>5, <1>7
  <2>1. ASSUME NEW i \in Indices, other = 0 \/ i < other
        PROVE  Before(cb(i), new)
    <3>1. cb(i).timeSector = timeSector
      BY <1>0, <1>2, <2>1
    <3>2. ~ (at <= cb(i).time)
      BY <1>7, <2>1, <3>1
    <3> QED BY <1>0, <1>7, <3>1, <3>2 DEF Before
  <2>2. ASSUME NEW i \in Indices, ~ (other = 0 \/ i < other)
        PROVE  Before(new, cb(i))
    <3>1. other \in foreign
      BY <1>2, <2>2
    <3>2. i = other \/ Before(cb(other), cb(i))
      BY <1>0, <1>1, <2>2, <3>1
    <3>3. cb(i).timeSector # timeSector
      BY <3>1, <3>2 DEF Before
    <3> QED BY <1>7, <3>3 DEF Before
  <2>3. other \in 0 .. Len(timerQueue)
    BY <1>0, <1>2
  <2> QED BY <2>0, <2>1, <2>2, <2>3 DEF cb
<1>8. CASE sec # timeSector
  <2>0. PlaceOf(sec, at) = l
    BY <1>5, <1>8 DEF l
  <2>1. ASSUME NEW i \in Indices, l = 0 \/ i < l
        PROVE  Before(cb(i), new)
    <3>1. CASE cb(i).timeSector = timeSector
      BY <1>8, <3>1 DEF Before
    <3>2. CASE cb(i).timeSector # timeSector
      <4>1. cb(i).timeSector = sec
        BY <1>0, <1>8, <3>2
      <4>2. other # 0 /\ i >= other
        BY <1>0, <1>2, <3>2
      <4>3. i \notin later
        BY <1>0, <1>4, <2>1 DEF l
      <4>4. ~ (at <= cb(i).time)
        BY <4>1, <4>2, <4>3
      <4> QED BY <1>0, <4>1, <4>4 DEF Before
    <3> QED BY <3>1, <3>2
  <2>2. ASSUME NEW i \in Indices, ~ (l = 0 \/ i < l)
        PROVE  Before(new, cb(i))
    <3>1. l \in later
      BY <1>4, <2>2 DEF l
    <3>2. i = l \/ Before(cb(l), cb(i))
      BY <1>0, <1>1, <2>2, <3>1
    <3> QED BY <1>0, <1>8, <3>1, <3>2 DEF Before
  <2>3. l \in 0 .. Len(timerQueue)
    BY <1>0, <1>4 DEF l
  <2> QED BY <2>0, <2>1, <2>2, <2>3 DEF cb
<1> QED BY <1>6, <1>7, <1>8

-----------------------------------------------------------------------------
(***************************************************************************)
(* The invariant holds initially and every action preserves it.            *)
(***************************************************************************)
\* STM_Init.
LEMMA InitLemma == Init => IInv
<1> SUFFICES ASSUME Init PROVE IInv
  OBVIOUS
<1>1. TypeOK
  BY StmAssumption, EmptySeq DEF Init, TypeOK, Cb
<1>2. Len(timerQueue) = 0
  BY EmptySeq DEF Init
<1>3. QueueHoldsActive
  <2>1. timerQueue \in Seq(Tid)
    BY <1>1 DEF TypeOK
  <2>2. \A t \in Tid : ~timerCb[t].active
    BY DEF Init
  <2>3. \A t : t \notin ToSet(timerQueue)
    BY DEF Init, ToSet
  <2>4. IsInjective(timerQueue)
    BY DEF Init, IsInjective
  <2> QED BY <1>1, <2>2, <2>3, <2>4 DEF QueueHoldsActive
<1>4. QueueInOrder /\ NotEarly
  BY <1>2 DEF Init, QueueInOrder, NotEarly, Indices
<1> QED BY <1>3, <1>4 DEF IInv

\* A millisecond passes, with or without a tick: a timer of the current
\* sector that still has to wait keeps its distance from its expiry.
LEMMA LeftLemma ==
  ASSUME TypeOK, left' = OneLess
  PROVE  /\ left' \in [Tid -> 0 .. DurMax]
         /\ \A t \in Tid : left'[t] = IF left[t] > 0 THEN left[t] - 1 ELSE 0
<1>1. left \in [Tid -> 0 .. DurMax] /\ DurMax \in Nat
  BY StmAssumption DEF TypeOK
<1>2. \A t \in Tid : (IF left[t] > 0 THEN left[t] - 1 ELSE 0) \in 0 .. DurMax
  BY <1>1
<1> QED BY <1>2 DEF OneLess

LEMMA ElapseLemma == ASSUME IInv, Elapse PROVE IInv'
<1>0. /\ TypeOK /\ timeTick \in 0 .. TickMax /\ TickMax \in Nat /\ DurMax \in Nat
      /\ TickMs \in Nat /\ phase \in 0 .. (TickMs - 1)
      /\ \A t \in Tid : timerCb[t].time \in 0 .. TickMax /\ left[t] \in 0 .. DurMax
  BY StmAssumption DEF IInv, QueueHoldsActive, TypeOK, Cb
<1>1. /\ phase' = phase + 1 /\ phase' \in 0 .. (TickMs - 1)
      /\ UNCHANGED <<timeTick, timeSector, timerCb, timerQueue>>
  BY <1>0 DEF Elapse
<1>2. /\ left' \in [Tid -> 0 .. DurMax]
      /\ \A t \in Tid : left'[t] = IF left[t] > 0 THEN left[t] - 1 ELSE 0
  BY <1>0, LeftLemma DEF Elapse
<1>3. QueueHoldsActive'
  BY <1>0, <1>1, <1>2 DEF IInv, QueueHoldsActive, TypeOK
<1>4. QueueInOrder'
  BY <1>1 DEF IInv, QueueInOrder, Indices
<1>5. ASSUME NEW t \in Tid, timerCb[t].active, timerCb[t].timeSector = timeSector
      PROVE  \/ left'[t] <= Early
             \/ /\ timeTick < timerCb[t].time
                /\ left'[t] <= Span(timerCb[t].time - timeTick) + Early - phase'
  <2>1. \/ left[t] <= Early
        \/ /\ timeTick < timerCb[t].time
           /\ left[t] <= Span(timerCb[t].time - timeTick) + Early - phase
    BY <1>5 DEF IInv, NotEarly
  <2>2. Early \in Nat /\ left'[t] = IF left[t] > 0 THEN left[t] - 1 ELSE 0
    BY <1>0, <1>2, StmAssumption DEF Early
  <2>3. Span(timerCb[t].time - timeTick) \in Int
    BY <1>0, SpanLemma
  <2> QED BY <1>0, <1>1, <2>1, <2>2, <2>3
<1>6. NotEarly'
  BY <1>1, <1>5 DEF NotEarly, Span, Early
<1> QED BY <1>3, <1>4, <1>6 DEF IInv

LEMMA TickLemma == ASSUME IInv, Tick PROVE IInv'
<1>0. /\ TypeOK /\ timeTick \in 0 .. TickMax /\ TickMax \in Nat /\ DurMax \in Nat
      /\ TickMs \in Nat /\ TickMs > 0
      /\ \A t \in Tid : timerCb[t].time \in 0 .. TickMax /\ left[t] \in 0 .. DurMax
  BY StmAssumption DEF IInv, QueueHoldsActive, TypeOK, Cb
<1>1. timeTick' = IF timeTick = TickMax THEN 0 ELSE timeTick + 1
  <2>1. timeTick + 1 \in 0 .. 2 * TickMax + 1
    BY <1>0
  <2>2. (timeTick + 1) % (TickMax + 1) =
          IF timeTick + 1 <= TickMax THEN timeTick + 1 ELSE timeTick + 1 - (TickMax + 1)
    BY <1>0, <2>1, TickMod
  <2> QED BY <1>0, <2>2 DEF Tick
<1>2. /\ left' \in [Tid -> 0 .. DurMax]
      /\ \A t \in Tid : left'[t] = IF left[t] > 0 THEN left[t] - 1 ELSE 0
  BY <1>0, LeftLemma DEF Tick
<1>3. /\ phase = TickMs - 1 /\ phase' = 0
      /\ UNCHANGED <<timeSector, timerCb, timerQueue>>
  BY DEF Tick
<1>4. QueueHoldsActive'
  BY <1>0, <1>1, <1>2, <1>3 DEF IInv, QueueHoldsActive, TypeOK
<1>5. QueueInOrder'
  BY <1>3 DEF IInv, QueueInOrder, Indices
<1>6. ASSUME NEW t \in Tid, timerCb[t].active, timerCb[t].timeSector = timeSector
      PROVE  \/ left'[t] <= Early
             \/ /\ timeTick' < timerCb[t].time
                /\ left'[t] <= Span(timerCb[t].time - timeTick') + Early
  <2> DEFINE m == timerCb[t].time - timeTick
  <2>1. \/ left[t] <= Early
        \/ timeTick < timerCb[t].time /\ left[t] <= Span(m) + Early - phase
    BY <1>6 DEF IInv, NotEarly
  <2>2. /\ Early \in Nat /\ Early = 2 * (TickMs - 1)
        /\ left'[t] = IF left[t] > 0 THEN left[t] - 1 ELSE 0
        /\ left[t] \in Nat /\ timerCb[t].time \in 0 .. TickMax /\ m \in Int
    BY <1>0, <1>2 DEF Early
  <2>3. /\ Span(m) \in Int /\ Span(m - 1) \in Int /\ Span(m) = Span(m - 1) + TickMs
        /\ Span(0) = 0
    <3> HIDE DEF m
    <3> QED BY <2>2, SpanLemma
  <2>4. timeTick < timerCb[t].time =>
          timerCb[t].time - timeTick' = m - 1 /\ timeTick' = timeTick + 1
    BY <1>0, <1>1, <2>2
  <2>5. CASE left[t] <= Early
    BY <2>2, <2>5
  <2>6. CASE timeTick < timerCb[t].time /\ left[t] <= Span(m) + Early - phase
    <3>1. left'[t] <= Span(m - 1) + Early
      <4>0. Span(m - 1) >= 0
        <5>1. 0 <= m - 1 /\ m - 1 \in Int
          BY <1>0, <2>2, <2>6
        <5> QED BY <5>1, SpanLemma
      <4> HIDE DEF m
      <4> QED BY <1>0, <1>3, <2>2, <2>3, <2>6, <4>0
    <3>2. CASE m = 1
      <4>1. Span(m - 1) = 0
        BY <2>3, <3>2
      <4> QED BY <2>2, <3>1, <4>1
    <3>3. CASE m # 1
      BY <1>0, <2>2, <2>4, <2>6, <3>1, <3>3
    <3> QED BY <3>2, <3>3
  <2> QED BY <2>1, <2>5, <2>6
<1>7. NotEarly'
  <2>1. ASSUME NEW t \in Tid, timerCb'[t].active, timerCb'[t].timeSector = timeSector'
        PROVE  \/ left'[t] <= Early
               \/ /\ timeTick' < timerCb'[t].time
                  /\ left'[t] <= Span(timerCb'[t].time - timeTick') + Early - phase'
    <3>1. \/ left'[t] <= Early
          \/ /\ timeTick' < timerCb'[t].time
             /\ left'[t] <= Span(timerCb'[t].time - timeTick') + Early
      BY <1>3, <1>6, <2>1
    <3>2. Early \in Nat /\ Span(timerCb'[t].time - timeTick') \in Int
      <4>1. timerCb'[t].time - timeTick' \in Int
        BY <1>0, <1>1, <1>3
      <4> QED BY <1>0, <4>1, SpanLemma DEF Early
    <3> QED BY <1>3, <3>1, <3>2
  <2> QED BY <2>1 DEF NotEarly, Span, Early
<1> QED BY <1>4, <1>5, <1>7 DEF IInv

\* Only the flag of a timer that is not queued changes.
LEMMA ValidLemma ==
  ASSUME IInv, NEW t \in Tid, ~timerCb[t].active, NEW v \in BOOLEAN,
         timerCb' = [timerCb EXCEPT ![t].valid = v],
         UNCHANGED <<timeTick, timeSector, timerQueue, phase, left>>
  PROVE  IInv'
<1>0. timerCb \in [Tid -> Cb] /\ timerQueue \in Seq(Tid)
  BY DEF IInv, QueueHoldsActive, TypeOK
<1>1. timerCb' \in [Tid -> Cb]
  BY <1>0 DEF Cb
<1>2. \A u \in Tid : /\ timerCb'[u].active = timerCb[u].active
                     /\ timerCb'[u].time = timerCb[u].time
                     /\ timerCb'[u].timeSector = timerCb[u].timeSector
                     /\ u # t => timerCb'[u].valid = timerCb[u].valid
  BY <1>0 DEF Cb
<1>3. QueueHoldsActive'
  BY <1>1, <1>2 DEF IInv, QueueHoldsActive, TypeOK
<1>4. QueueInOrder'
  BY <1>0, <1>2, QueueView DEF IInv, QueueInOrder, Indices
<1>5. NotEarly'
  BY <1>2 DEF IInv, NotEarly, Early, Span
<1> QED BY <1>3, <1>4, <1>5 DEF IInv

LEMMA AllocLemma == ASSUME IInv, STM_AllocTimer PROVE IInv'
<1>1. PICK t \in Tid : /\ ~timerCb[t].valid
                       /\ timerCb' = [timerCb EXCEPT ![t].valid = TRUE]
                       /\ UNCHANGED <<timeTick, timeSector, timerQueue, phase, left>>
  BY DEF STM_AllocTimer
<1>2. ~timerCb[t].active
  BY <1>1 DEF IInv, QueueHoldsActive
<1> QED BY <1>1, <1>2, ValidLemma

LEMMA FreeLemma == ASSUME IInv, NEW t \in Tid, STM_FreeTimer(t) PROVE IInv'
BY ValidLemma DEF STM_FreeTimer

\* Two timers of r are queued in q in the same order.
Follows(r, q) ==
  \A i, j \in 1 .. Len(r) : i < j =>
    \E k, l \in 1 .. Len(q) : k < l /\ r[i] = q[k] /\ r[j] = q[l]

\* Taking a timer out does not change the order of the others.
LEMMA RemovedOrder ==
  ASSUME timerQueue \in Seq(Tid), NEW p \in 1 .. Len(timerQueue),
         NEW r, Removed(timerQueue, p, r)
  PROVE  Follows(r, timerQueue)
<1> SUFFICES ASSUME NEW i \in 1 .. Len(r), NEW j \in 1 .. Len(r), i < j
             PROVE  \E k, l \in 1 .. Len(timerQueue) : k < l /\ r[i] = timerQueue[k] /\ r[j] = timerQueue[l]
  BY DEF Follows
<1> DEFINE k == IF i < p THEN i ELSE i + 1
           l == IF j < p THEN j ELSE j + 1
<1>1. Len(timerQueue) \in Nat /\ Len(r) = Len(timerQueue) - 1
  BY QueueView DEF Removed
<1>2. k \in 1 .. Len(timerQueue) /\ l \in 1 .. Len(timerQueue) /\ k < l
  BY <1>1
<1>3. r[i] = timerQueue[k] /\ r[j] = timerQueue[l]
  BY DEF Removed
<1> HIDE DEF k, l
<1> QED BY <1>2, <1>3

\* A timer leaves the queue, by STM_StopTimer or STM_Proc.
LEMMA LeaveLemma ==
  ASSUME IInv, NEW p \in 1 .. Len(timerQueue), NEW t, t = timerQueue[p],
         NEW r, Removed(timerQueue, p, r), timerQueue' = r,
         timerCb' = [timerCb EXCEPT ![t].active = FALSE],
         left' = [left EXCEPT ![t] = 0],
         UNCHANGED <<timeTick, timeSector, phase>>
  PROVE  IInv'
<1>0. /\ timerCb \in [Tid -> Cb] /\ timerQueue \in Seq(Tid) /\ t \in Tid
      /\ r \in Seq(Tid) /\ left \in [Tid -> 0 .. DurMax] /\ 0 \in 0 .. DurMax
  BY QueueView, StmAssumption DEF IInv, QueueHoldsActive, TypeOK, Removed
<1>1. timerCb' \in [Tid -> Cb]
  BY <1>0 DEF Cb
<1>2. left' \in [Tid -> 0 .. DurMax]
  BY <1>0
<1>3. \A u \in Tid : /\ timerCb'[u].active <=> timerCb[u].active /\ u # t
                     /\ timerCb'[u].time = timerCb[u].time
                     /\ timerCb'[u].timeSector = timerCb[u].timeSector
                     /\ timerCb'[u].valid = timerCb[u].valid
  BY <1>0 DEF Cb
<1>4. QueueHoldsActive'
  <2>1. /\ \A u \in Tid : u \in ToSet(r) <=> timerCb[u].active /\ u # t
        /\ IsInjective(r)
    BY RemovedSound DEF IInv
  <2>2. TypeOK'
    BY <1>0, <1>1, <1>2 DEF IInv, QueueHoldsActive, TypeOK
  <2> QED BY <1>3, <2>1, <2>2 DEF IInv, QueueHoldsActive
<1>5. QueueInOrder'
  <2>0. Follows(r, timerQueue)
    BY <1>0, RemovedOrder
  <2>1. ASSUME NEW i \in 1 .. Len(r), NEW j \in 1 .. Len(r), i < j
        PROVE  Before(timerCb[r[i]], timerCb[r[j]])
    <3>1. \E k, l \in 1 .. Len(timerQueue) :
            k < l /\ r[i] = timerQueue[k] /\ r[j] = timerQueue[l]
      BY <2>0, <2>1 DEF Follows
    <3> QED BY <3>1 DEF IInv, QueueInOrder, Indices, Before
  <2>2. \A i \in 1 .. Len(r) : r[i] \in Tid
    BY <1>0, QueueView
  <2> QED BY <1>3, <2>1, <2>2 DEF QueueInOrder, Indices, Before
<1>6. NotEarly'
  BY <1>0, <1>3 DEF IInv, NotEarly, Early, Span
<1> QED BY <1>4, <1>5, <1>6 DEF IInv

LEMMA StopLemma == ASSUME IInv, NEW t \in Tid, STM_StopTimer(t) PROVE IInv'
<1> DEFINE S == {i \in Indices : timerQueue[i] = t}
           p == First(S)
<1>0. timerQueue \in Seq(Tid) /\ Len(timerQueue) \in Nat
  BY QueueView DEF IInv, QueueHoldsActive, TypeOK
<1>1. S # {}
  BY <1>0, QueueView DEF IInv, QueueHoldsActive, STM_StopTimer, Indices
<1>2. p \in S
  BY <1>0, <1>1, FirstLemma DEF Indices
<1>3. p \in 1 .. Len(timerQueue) /\ timerQueue[p] = t
  BY <1>2 DEF Indices
<1>4. Removed(timerQueue, p, timerQueue')
  BY <1>0, <1>3, RemoveLemma DEF STM_StopTimer, Dequeue
<1> HIDE DEF p
<1> QED BY <1>3, <1>4, LeaveLemma DEF STM_StopTimer

LEMMA ProcLemma == ASSUME IInv, STM_Proc PROVE IInv'
<1>0. timerQueue \in Seq(Tid) /\ Len(timerQueue) \in Nat /\ timerQueue # << >>
  BY QueueView DEF IInv, QueueHoldsActive, TypeOK, STM_Proc, Due
<1>1. 1 \in 1 .. Len(timerQueue) /\ Head(timerQueue) = timerQueue[1]
  BY <1>0, EmptySeq
<1>2. Removed(timerQueue, 1, Tail(timerQueue))
  <2>1. /\ Tail(timerQueue) \in Seq(Tid)
        /\ Len(Tail(timerQueue)) = Len(timerQueue) - 1
        /\ \A i \in 1 .. Len(Tail(timerQueue)) : Tail(timerQueue)[i] = timerQueue[i + 1]
    BY <1>0, HeadTailProperties
  <2> QED BY <1>0, <2>1 DEF Removed
<1> QED BY <1>1, <1>2, LeaveLemma DEF STM_Proc

\* Where a timer of r comes from.
FoundAt(q, r, p, i) ==
  IF i < p THEN i \in 1 .. Len(q) /\ r[i] = q[i]
           ELSE i > p => i - 1 \in 1 .. Len(q) /\ r[i] = q[i - 1]

\* STM_StartTimer: the new timer is queued between the timers that expire
\* before it and those that expire after it.
LEMMA StartLemma ==
  ASSUME IInv, NEW t \in Tid, NEW dur \in 0 .. DurMax, STM_StartTimer(t, dur)
  PROVE  IInv'
<1> DEFINE at  == Expiry(dur)
           sec == IF at < timeTick THEN 1 - timeSector ELSE timeSector
           q   == timerQueue
           n   == PlaceOf(sec, at)
           p   == IF n = 0 THEN Len(q) + 1 ELSE n
           r   == Enqueue(t, n)
<1>0. /\ timerCb \in [Tid -> Cb] /\ q \in Seq(Tid) /\ timeSector \in 0 .. 1
      /\ timeTick \in 0 .. TickMax /\ TickMax \in Nat /\ DurMax \in Nat
      /\ left \in [Tid -> 0 .. DurMax] /\ TickMs \in Nat /\ phase \in 0 .. (TickMs - 1)
      /\ TypeOK
  BY StmAssumption DEF IInv, QueueHoldsActive, TypeOK
<1>1. /\ timerCb[t].valid /\ ~timerCb[t].active
      /\ timerCb' = [timerCb EXCEPT ![t].active = TRUE, ![t].time = at, ![t].timeSector = sec]
      /\ timerQueue' = r
      /\ left' = [left EXCEPT ![t] = dur]
      /\ UNCHANGED <<timeTick, timeSector, phase>>
  BY DEF STM_StartTimer
<1>2. /\ at \in 0 .. TickMax
      /\ at >= timeTick => at = timeTick + STM_MS_TO_TICK(dur)
  <2> DEFINE x == timeTick + STM_MS_TO_TICK(dur)
  <2>0. STM_MS_TO_TICK(dur) \in 0 .. TickMax
    BY DivLemma
  <2>1. x \in 0 .. 2 * TickMax + 1 /\ x = timeTick + STM_MS_TO_TICK(dur)
    BY <1>0, <2>0
  <2>2. at = x % (TickMax + 1)
    BY DEF Expiry
  <2> HIDE DEF at, x
  <2>3. x % (TickMax + 1) = IF x <= TickMax THEN x ELSE x - (TickMax + 1)
    BY <2>1, TickMod
  <2>4. at = IF x <= TickMax THEN x ELSE x - (TickMax + 1)
    BY <2>2, <2>3, Zenon
  <2> QED BY <1>0, <2>0, <2>1, <2>4
<1>3. sec \in 0 .. 1 /\ (sec = timeSector => ~ (at < timeTick))
  <2> HIDE DEF at
  <2> QED BY <1>0, <1>2
<1> HIDE DEF at, sec
<1> DEFINE new == [timerCb[t] EXCEPT !.active = TRUE, !.time = at, !.timeSector = sec]
<1>4. /\ new \in Cb /\ new.timeSector = sec /\ new.time = at /\ new.active
      /\ new.valid = timerCb[t].valid
  BY <1>0, <1>2, <1>3 DEF Cb
<1>5. timerCb' = [timerCb EXCEPT ![t] = new]
  BY <1>0, <1>1
<1> HIDE DEF new
<1>6. \A u \in Tid : timerCb'[u] = IF u = t THEN new ELSE timerCb[u]
  BY <1>0, <1>5
<1>7. /\ n \in 0 .. Len(q)
      /\ \A i \in Indices : IF n = 0 \/ i < n THEN Before(timerCb[q[i]], new)
                                              ELSE Before(new, timerCb[q[i]])
  BY <1>0, <1>2, <1>3, <1>4, PlaceLemma DEF IInv
<1> HIDE DEF n
<1>8. Len(q) \in Nat /\ p \in 1 .. Len(q) + 1 /\ Inserted(q, p, t, r)
  BY <1>0, <1>7, EnqueueLemma, QueueView
<1>9. /\ \A i \in 1 .. Len(q) : i < p => Before(timerCb[q[i]], new)
      /\ \A i \in 1 .. Len(q) : ~ (i < p) => Before(new, timerCb[q[i]])
  BY <1>7, <1>8 DEF Indices
<1> HIDE DEF p, r
<1>10. QueueHoldsActive'
  <2>1. /\ \A u \in Tid : u \in ToSet(r) <=> timerCb[u].active \/ u = t
        /\ IsInjective(r)
    BY <1>1, <1>8, InsertedSound DEF IInv
  <2>2. timerCb' \in [Tid -> Cb]
    BY <1>0, <1>4, <1>5
  <2>3. left' \in [Tid -> 0 .. DurMax]
    BY <1>0, <1>1
  <2>4. TypeOK'
    BY <1>0, <1>1, <1>8, <2>2, <2>3 DEF TypeOK, Inserted
  <2>5. \A u \in Tid : timerCb'[u].active <=> timerCb[u].active \/ u = t
    BY <1>4, <1>6
  <2>6. \A u \in Tid : timerCb'[u].active => timerCb'[u].valid
    BY <1>1, <1>4, <1>6 DEF IInv, QueueHoldsActive
  <2> QED BY <1>1, <2>1, <2>4, <2>5, <2>6 DEF QueueHoldsActive
<1>11. QueueInOrder'
  <2>1. /\ r \in Seq(Tid) /\ Len(r) = Len(q) + 1
        /\ \A i \in 1 .. Len(r) : r[i] = IF i < p THEN q[i] ELSE IF i = p THEN t ELSE q[i - 1]
    BY <1>8 DEF Inserted
  <2>2. \A i \in 1 .. Len(r) : FoundAt(q, r, p, i) /\ (i = p => r[i] = t)
    BY <1>8, <2>1 DEF FoundAt
  <2>3. \A i \in 1 .. Len(q) : q[i] \in Tid /\ q[i] # t
    <3>1. \A i \in 1 .. Len(q) : q[i] \in Tid /\ q[i] \in ToSet(q)
      BY <1>0, QueueView
    <3> QED BY <1>1, <3>1 DEF IInv, QueueHoldsActive
  <2>4. \A i \in 1 .. Len(q) : timerCb'[q[i]] = timerCb[q[i]]
    BY <1>6, <2>3
  <2>5. timerCb'[t] = new
    BY <1>6
  <2>6. \A i, j \in 1 .. Len(q) : i < j => Before(timerCb[q[i]], timerCb[q[j]])
    BY DEF IInv, QueueInOrder, Indices, Before
  <2>7. ASSUME NEW i \in 1 .. Len(r), NEW j \in 1 .. Len(r), i < j
        PROVE  Before(timerCb'[r[i]], timerCb'[r[j]])
    <3>1. CASE j < p
      <4>1. i \in 1 .. Len(q) /\ r[i] = q[i] /\ j \in 1 .. Len(q) /\ r[j] = q[j]
        BY <1>8, <2>1, <2>2, <2>7, <3>1 DEF FoundAt
      <4> QED BY <2>4, <2>6, <2>7, <4>1
    <3>2. CASE j = p
      <4>1. i \in 1 .. Len(q) /\ r[i] = q[i] /\ r[j] = t /\ i < p
        BY <1>8, <2>1, <2>2, <2>7, <3>2 DEF FoundAt
      <4> QED BY <1>9, <2>4, <2>5, <4>1
    <3>3. CASE j > p /\ i < p
      <4>1. i \in 1 .. Len(q) /\ r[i] = q[i] /\ j - 1 \in 1 .. Len(q) /\ r[j] = q[j - 1]
        BY <1>8, <2>1, <2>2, <2>7, <3>3 DEF FoundAt
      <4>2. i < j - 1
        BY <1>8, <2>1, <3>3
      <4> QED BY <2>4, <2>6, <4>1, <4>2
    <3>4. CASE j > p /\ i = p
      <4>1. r[i] = t /\ j - 1 \in 1 .. Len(q) /\ r[j] = q[j - 1]
        BY <1>8, <2>1, <2>2, <2>7, <3>4 DEF FoundAt
      <4>2. ~ (j - 1 < p)
        BY <1>8, <2>1, <3>4
      <4> QED BY <1>9, <2>4, <2>5, <4>1, <4>2
    <3>5. CASE j > p /\ i > p
      <4>1. /\ i - 1 \in 1 .. Len(q) /\ r[i] = q[i - 1]
            /\ j - 1 \in 1 .. Len(q) /\ r[j] = q[j - 1]
        BY <1>8, <2>1, <2>2, <2>7, <3>5 DEF FoundAt
      <4>2. i - 1 < j - 1
        BY <1>8, <2>1, <2>7
      <4> QED BY <2>4, <2>6, <4>1, <4>2
    <3>6. j < p \/ j = p \/ (j > p /\ i < p) \/ (j > p /\ i = p) \/ (j > p /\ i > p)
      BY <1>8, <2>1
    <3> QED BY <3>1, <3>2, <3>3, <3>4, <3>5, <3>6
  <2> QED BY <1>1, <2>7 DEF QueueInOrder, Indices, Before
<1>12. NotEarly'
  <2>1. \A u \in Tid : left'[u] = IF u = t THEN dur ELSE left[u]
    BY <1>0, <1>1
  <2>2. sec = timeSector =>
          \/ dur <= Early
          \/ timeTick < at /\ dur <= Span(at - timeTick) + Early - phase
    <3> DEFINE k == STM_MS_TO_TICK(dur)
    <3>1. k \in 0 .. TickMax /\ dur <= Span(k) + TickMs - 1
      BY DivLemma
    <3> HIDE DEF k
    <3>2. Span(k) \in Int /\ Span(0) = 0
      BY <1>0, <3>1, SpanLemma
    <3>3. sec = timeSector => at = timeTick + k /\ at - timeTick = k
      BY <1>0, <1>2, <1>3, <3>1 DEF k
    <3>4. TickMs - 1 <= Early /\ TickMs - 1 <= Early - phase /\ Early \in Nat
      BY <1>0, StmAssumption DEF Early
    <3>5. CASE k = 0
      BY <1>0, <3>1, <3>2, <3>4, <3>5
    <3>6. CASE k # 0
      <4> SUFFICES ASSUME sec = timeSector
                   PROVE  timeTick < at /\ dur <= Span(at - timeTick) + Early - phase
        OBVIOUS
      <4>1. timeTick < at
        BY <1>0, <3>1, <3>3, <3>6
      <4>2. Span(at - timeTick) = Span(k)
        BY <3>3
      <4> QED BY <1>0, <3>1, <3>2, <3>4, <4>1, <4>2
    <3> QED BY <3>5, <3>6
  <2>3. ASSUME NEW u \in Tid, timerCb'[u].active, timerCb'[u].timeSector = timeSector
        PROVE  \/ left'[u] <= Early
               \/ /\ timeTick < timerCb'[u].time
                  /\ left'[u] <= Span(timerCb'[u].time - timeTick) + Early - phase
    <3>1. CASE u = t
      BY <1>4, <1>6, <2>1, <2>2, <2>3, <3>1
    <3>2. CASE u # t
      BY <1>6, <2>1, <2>3, <3>2 DEF IInv, NotEarly
    <3> QED BY <3>1, <3>2
  <2> QED BY <1>1, <2>3 DEF NotEarly, Early, Span
<1> QED BY <1>10, <1>11, <1>12 DEF IInv

LEMMA NextLemma == ASSUME IInv, [Next]_vars PROVE IInv'
<1>0. CASE Elapse
  BY <1>0, ElapseLemma
<1>1. CASE Tick
  BY <1>1, TickLemma
<1>2. CASE STM_AllocTimer
  BY <1>2, AllocLemma
<1>3. ASSUME NEW t \in Tid, STM_FreeTimer(t) PROVE IInv'
  BY <1>3, FreeLemma
<1>4. ASSUME NEW t \in Tid, STM_StopTimer(t) PROVE IInv'
  BY <1>4, StopLemma
<1>5. ASSUME NEW t \in Tid, NEW dur \in 0 .. DurMax, STM_StartTimer(t, dur) PROVE IInv'
  BY <1>5, StartLemma
<1>6. CASE STM_Proc
  BY <1>6, ProcLemma
<1>7. CASE UNCHANGED vars
  BY <1>7 DEF vars, IInv, QueueHoldsActive, TypeOK, QueueInOrder, Indices, NotEarly,
                  Early, Span
<1> QED BY <1>0, <1>1, <1>2, <1>3, <1>4, <1>5, <1>6, <1>7 DEF Next

-----------------------------------------------------------------------------
\* The inductive invariant holds in every reachable state.
THEOREM InvTheorem == Spec => []IInv
BY InitLemma, NextLemma, PTL DEF Spec

\* STM_FreeTimer, STM_StopTimer and STM_Proc never leave a control block in
\* the queue that is not active, nor an active one outside it.
THEOREM QueueTheorem == Spec => []QueueHoldsActive
BY InvTheorem, PTL DEF IInv

\* The insertion of STM_StartTimer keeps the queue in the order in which
\* STM_Proc expects it.
THEOREM OrderTheorem == Spec => []QueueInOrder
BY InvTheorem, PTL DEF IInv

\* STM_Proc fires no timer two ticks or more before its duration has passed:
\* what STM_MS_TO_TICK drops and what had passed of the first tick are all.
THEOREM NotEarlyTheorem == Spec => []LessThanTwoTicksEarly
<1>1. ASSUME IInv PROVE LessThanTwoTicksEarly
  <2> SUFFICES ASSUME Due PROVE left[Head(timerQueue)] <= 2 * (TickMs - 1)
    BY DEF LessThanTwoTicksEarly
  <2> DEFINE h == Head(timerQueue)
  <2>1. /\ timerQueue \in Seq(Tid) /\ timerQueue # << >> /\ Len(timerQueue) \in Nat
        /\ timeTick \in 0 .. TickMax /\ TickMax \in Nat /\ timerCb \in [Tid -> Cb]
    BY <1>1, QueueView, StmAssumption DEF IInv, QueueHoldsActive, TypeOK, Due
  <2>2. 1 \in 1 .. Len(timerQueue) /\ h = timerQueue[1]
    BY <2>1, EmptySeq
  <2>3. h \in Tid /\ h \in ToSet(timerQueue)
    BY <2>1, <2>2, QueueView
  <2>4. timerCb[h].active /\ timerCb[h].timeSector = timeSector /\ timerCb[h].time <= timeTick
    BY <1>1, <2>3 DEF IInv, QueueHoldsActive, Due
  <2>5. left[h] <= Early \/ timeTick < timerCb[h].time
    BY <1>1, <2>3, <2>4 DEF IInv, NotEarly
  <2>6. timerCb[h].time \in Nat
    BY <2>1, <2>3 DEF Cb
  <2> HIDE DEF h
  <2>7. left[h] <= Early
    BY <2>1, <2>4, <2>5, <2>6
  <2> QED BY <2>7 DEF h, Early
<1> QED BY <1>1, InvTheorem, PTL
=============================================================================
