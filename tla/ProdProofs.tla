----------------------------- MODULE ProdProofs -----------------------------
(***************************************************************************)
(* Proofs about the tester, whatever the operator clicks, whatever the     *)
(* boards send and whatever fails, in any order, for every capability of   *)
(* the board, every sweep and every bound: queue and check boxes agree,    *)
(* and all of the state keeps its type.                                    *)
(***************************************************************************)
EXTENDS ProdSystem, SequenceTheorems, FiniteSetTheorems, WellFoundedInduction, TLAPS

-----------------------------------------------------------------------------
Fields ==
  {"q", "box", "status", "testRunning", "sweepTestRunning", "params", "tests",
   "summary", "up", "devicesUP", "listed", "calStatus", "runOn", "stopOn",
   "boxOn", "dead", "run", "planned", "out"}

\* The state of the tool has these fields, whatever their values.
IsTool(h) == h = [f \in Fields |-> h[f]]

Distinct(q) == \A i, j \in 1 .. Len(q) : q[i] = q[j] => i = j

NoTwins(q) == \A i, j \in 1 .. Len(q) : q[i] # Twin(q[j])

\* Queue and boxes agree.
Sound(h) ==
  /\ IsTool(h)
  /\ h.q \in Seq(Test) /\ h.box \in SUBSET Test
  /\ Distinct(h.q) /\ NoTwins(h.q)
  /\ \A i \in 1 .. Len(h.q) : h.q[i] \in h.box

IInv == Sound(tool)

-----------------------------------------------------------------------------
(***************************************************************************)
(* Queues without repetition.                                              *)
(***************************************************************************)
\* A set of natural numbers that is not empty has a smallest element.
LEMMA Smallest ==
  ASSUME NEW S, S \subseteq Nat, S # {}
  PROVE  Min(S) \in S /\ \A j \in S : Min(S) <= j
<1>1. PICK i \in S : \A j \in S : <<j, i>> \notin OpToRel(<, Nat)
  BY WFMin, NatLessThanWellFounded
<1>2. \A j \in S : ~ (j < i)
  BY <1>1 DEF OpToRel
<1>3. \A j \in S : i <= j
  BY <1>2
<1> QED
  BY <1>3 DEF Min

\* Its length is the number of its tests.
LEMMA DistinctCardinality ==
  ASSUME NEW S, NEW q \in Seq(S), Distinct(q)
  PROVE  Cardinality(ToSet(q)) = Len(q)
<1>1. /\ Len(q) \in Nat /\ DOMAIN q = 1 .. Len(q)
      /\ q \in [1 .. Len(q) -> S]
  BY LenProperties
<1>2. q \in [1 .. Len(q) -> ToSet(q)]
  BY <1>1 DEF ToSet
<1>3. ExistsBijection(1 .. Len(q), ToSet(q))
  BY <1>1, <1>2 DEF ExistsBijection, Bijection, Injection, Surjection, IsInjective, ToSet, Distinct
<1> QED
  BY <1>1, <1>3, FS_CountingElements

\* A test that is appended.
LEMMA AppendQueue ==
  ASSUME NEW S, NEW q \in Seq(S), NEW t \in S
  PROVE  /\ Append(q, t) \in Seq(S) /\ Len(Append(q, t)) = Len(q) + 1
         /\ \A i \in 1 .. Len(Append(q, t)) :
              Append(q, t)[i] = IF i = Len(q) + 1 THEN t ELSE q[i]
         /\ \A i \in 1 .. Len(Append(q, t)) : i = Len(q) + 1 \/ i \in 1 .. Len(q)
<1>1. Len(q) \in Nat /\ Append(q, t) \in Seq(S) /\ Len(Append(q, t)) = Len(q) + 1
  BY LenProperties, AppendProperties
<1>2. \A i \in 1 .. Len(Append(q, t)) : i = Len(q) + 1 \/ i \in 1 .. Len(q)
  BY <1>1
<1>3. \A i \in 1 .. Len(q) : Append(q, t)[i] = q[i] /\ i # Len(q) + 1
  BY <1>1, AppendProperties
<1>4. Append(q, t)[Len(q) + 1] = t
  BY <1>1, AppendProperties
<1> QED
  BY <1>1, <1>2, <1>3, <1>4

\* A test that is taken out.
LEMMA RemoveAtQueue ==
  ASSUME NEW S, NEW q \in Seq(S), NEW p \in 1 .. Len(q)
  PROVE  /\ RemoveAt(q, p) \in Seq(S) /\ Len(RemoveAt(q, p)) = Len(q) - 1
         /\ \A i \in 1 .. Len(q) - 1 : RemoveAt(q, p)[i] = IF i < p THEN q[i] ELSE q[i + 1]
<1> DEFINE a == SubSeq(q, 1, p - 1)
           c == SubSeq(q, p + 1, Len(q))
<1>0. Len(q) \in Nat /\ \A i \in 1 .. Len(q) : q[i] \in S
  BY LenProperties, ElementOfSeq
<1>1. /\ a \in Seq(S) /\ Len(a) = p - 1
      /\ \A i \in 1 .. p - 1 : a[i] = q[i]
  BY <1>0, SubSeqProperties
<1>2. /\ c \in Seq(S) /\ Len(c) = Len(q) - p
      /\ \A i \in 1 .. Len(q) - p : c[i] = q[p + i]
  BY <1>0, SubSeqProperties
<1> HIDE DEF a, c
<1>3. /\ a \o c \in Seq(S) /\ Len(a \o c) = Len(a) + Len(c)
      /\ \A i \in 1 .. Len(a) + Len(c) :
           (a \o c)[i] = IF i <= Len(a) THEN a[i] ELSE c[i - Len(a)]
  BY <1>1, <1>2, ConcatProperties
<1>4. ASSUME NEW i \in 1 .. Len(q) - 1
      PROVE  (a \o c)[i] = IF i < p THEN q[i] ELSE q[i + 1]
  <2>1. CASE i < p
    BY <1>0, <1>1, <1>2, <1>3, <2>1
  <2>2. CASE i >= p
    <3>1. i - (p - 1) \in 1 .. Len(q) - p /\ p + (i - (p - 1)) = i + 1
      BY <1>0, <2>2
    <3>2. c[i - (p - 1)] = q[i + 1]
      BY <1>2, <3>1
    <3>3. (a \o c)[i] = c[i - (p - 1)]
      BY <1>0, <1>1, <1>2, <1>3, <2>2
    <3>4. ~ (i < p)
      BY <1>0, <2>2
    <3> QED
      BY <3>2, <3>3, <3>4, Zenon
  <2>3. i < p \/ i >= p
    BY <1>0
  <2> QED
    BY <2>1, <2>2, <2>3, Zenon
<1>5. RemoveAt(q, p) = a \o c
  BY DEF RemoveAt, a, c
<1>6. Len(a \o c) = Len(q) - 1
  BY <1>0, <1>1, <1>2, <1>3
<1> QED
  BY <1>3, <1>4, <1>5, <1>6

\* RemoveFirst takes a test out of a queue that holds it once.
LEMMA RemoveFirstQueue ==
  ASSUME NEW S, NEW q \in Seq(S), Distinct(q), NEW t
  PROVE  /\ RemoveFirst(q, t) \in Seq(S) /\ Distinct(RemoveFirst(q, t))
         /\ \A i \in 1 .. Len(RemoveFirst(q, t)) :
              /\ RemoveFirst(q, t)[i] # t
              /\ \E j \in 1 .. Len(q) : RemoveFirst(q, t)[i] = q[j]
<1>0. Len(q) \in Nat
  BY LenProperties
<1>1. CASE ~ \E i \in 1 .. Len(q) : q[i] = t
  <2>1. RemoveFirst(q, t) = q
    BY <1>1 DEF RemoveFirst
  <2> QED
    BY <1>1, <2>1
<1>2. CASE \E i \in 1 .. Len(q) : q[i] = t
  <2> DEFINE I == {i \in 1 .. Len(q) : q[i] = t}
             p == Min(I)
             r == RemoveAt(q, p)
  <2>1. RemoveFirst(q, t) = r
    BY <1>2 DEF RemoveFirst, SelectInSeq
  <2>2. I # {} /\ I \subseteq Nat
    BY <1>2
  <2>3. p \in I
    <3> HIDE DEF I
    <3> QED
      BY <2>2, Smallest
  <2>4. p \in 1 .. Len(q) /\ q[p] = t
    BY <2>3
  <2> HIDE DEF p
  <2>5. /\ r \in Seq(S) /\ Len(r) = Len(q) - 1
        /\ \A i \in 1 .. Len(q) - 1 : r[i] = IF i < p THEN q[i] ELSE q[i + 1]
    BY <2>4, RemoveAtQueue
  <2> HIDE DEF r
  <2> DEFINE f(i) == IF i < p THEN i ELSE i + 1
  <2>6. ASSUME NEW i \in 1 .. Len(r)
        PROVE  f(i) \in 1 .. Len(q) /\ f(i) # p /\ r[i] = q[f(i)]
    BY <1>0, <2>4, <2>5
  <2>7. \A i, j \in 1 .. Len(r) : f(i) = f(j) => i = j
    BY <1>0, <2>4, <2>5
  <2> HIDE DEF f
  <2>8. Distinct(r)
    BY <2>6, <2>7 DEF Distinct
  <2>9. \A i \in 1 .. Len(r) : r[i] # t /\ \E j \in 1 .. Len(q) : r[i] = q[j]
    BY <2>4, <2>6 DEF Distinct
  <2> QED
    BY <2>1, <2>5, <2>8, <2>9
<1> QED
  BY <1>1, <1>2

-----------------------------------------------------------------------------
(***************************************************************************)
(* The operators of the selection.                                         *)
(***************************************************************************)
LEMMA TestFacts ==
  ASSUME NEW t \in Test
  PROVE  /\ Twin(t) \in Test /\ Twin(t) # t /\ Twin(Twin(t)) = t
         /\ \A u \in Test : t = Twin(u) => u = Twin(t)
<1>1. /\ t.intf \in Intf /\ t.dir \in {"TX", "RX"} /\ t.sweep \in BOOLEAN
      /\ t = [intf |-> t.intf, dir |-> t.dir, sweep |-> t.sweep]
  BY DEF Test
<1>2. ASSUME NEW u \in Test
      PROVE  /\ Twin(u) = [intf |-> u.intf, dir |-> u.dir, sweep |-> ~u.sweep]
             /\ Twin(u) \in Test
  <2>1. /\ u.intf \in Intf /\ u.dir \in {"TX", "RX"} /\ u.sweep \in BOOLEAN
        /\ u = [intf |-> u.intf, dir |-> u.dir, sweep |-> u.sweep]
    BY DEF Test
  <2>2. Twin(u) = [intf |-> u.intf, dir |-> u.dir, sweep |-> ~u.sweep]
    BY <2>1 DEF Twin
  <2>3. (~u.sweep) \in BOOLEAN
    BY <2>1
  <2> QED
    BY <2>1, <2>2, <2>3 DEF Test
<1>3. Twin(t) # t
  BY <1>1, <1>2
<1>4. ASSUME NEW u \in Test PROVE Twin(Twin(u)) = u
  <2>1. u.sweep \in BOOLEAN /\ u = [intf |-> u.intf, dir |-> u.dir, sweep |-> u.sweep]
    BY DEF Test
  <2>2. /\ Twin(u).intf = u.intf /\ Twin(u).dir = u.dir /\ Twin(u).sweep = ~u.sweep
        /\ Twin(u) \in Test
    BY <1>2
  <2>3. Twin(Twin(u)) = [intf |-> u.intf, dir |-> u.dir, sweep |-> ~~u.sweep]
    BY <1>2, <2>2
  <2>4. (~~u.sweep) = u.sweep
    BY <2>1
  <2> QED
    BY <2>1, <2>3, <2>4
<1> QED
  BY <1>2, <1>3, <1>4

\* Another queue and other boxes.
LEMMA Select ==
  ASSUME NEW h, IsTool(h), NEW q, NEW B
  PROVE  LET g == [h EXCEPT !.q = q, !.box = B]
         IN  /\ IsTool(g) /\ g.q = q /\ g.box = B
  BY DEF IsTool, Fields

LEMMA SelectQ ==
  ASSUME NEW h, IsTool(h), NEW q
  PROVE  LET g == [h EXCEPT !.q = q]
         IN  /\ IsTool(g) /\ g.q = q /\ g.box = h.box
  BY DEF IsTool, Fields

LEMMA SelectBox ==
  ASSUME NEW h, IsTool(h), NEW B
  PROVE  LET g == [h EXCEPT !.box = B]
         IN  /\ IsTool(g) /\ g.q = h.q /\ g.box = B
  BY DEF IsTool, Fields

LEMMA CheckedSound ==
  ASSUME NEW h, Sound(h), NEW t \in Test, t \in h.box
  PROVE  Sound(Checked(h, t))
<1>0. /\ IsTool(h) /\ h.q \in Seq(Test) /\ h.box \in SUBSET Test
      /\ Distinct(h.q) /\ NoTwins(h.q) /\ \A i \in 1 .. Len(h.q) : h.q[i] \in h.box
  BY DEF Sound
<1>1. Len(h.q) \in Nat /\ \A i \in 1 .. Len(h.q) : h.q[i] \in Test
  BY <1>0, LenProperties, ElementOfSeq
<1>2. /\ Twin(t) \in Test /\ Twin(t) # t /\ Twin(Twin(t)) = t
      /\ \A u \in Test : t = Twin(u) => u = Twin(t)
  BY TestFacts
<1> DEFINE a == Append(h.q, t)
<1>3. /\ a \in Seq(Test) /\ Len(a) = Len(h.q) + 1
      /\ \A i \in 1 .. Len(a) : a[i] = IF i = Len(h.q) + 1 THEN t ELSE h.q[i]
      /\ \A i \in 1 .. Len(a) : i = Len(h.q) + 1 \/ i \in 1 .. Len(h.q)
  BY <1>0, AppendQueue
<1> HIDE DEF a
<1>4. \A i \in 1 .. Len(a) : a[i] = t \/ \E j \in 1 .. Len(h.q) : j = i /\ a[i] = h.q[j]
  BY <1>3
<1>5. ASSUME ~Contains(h.q, t)
      PROVE  Distinct(a)
  <2>1. ASSUME NEW i \in 1 .. Len(a), NEW j \in 1 .. Len(a), a[i] = a[j] PROVE i = j
    <3>1. CASE i = Len(h.q) + 1 /\ j = Len(h.q) + 1
      BY <3>1
    <3>2. CASE i \in 1 .. Len(h.q) /\ j \in 1 .. Len(h.q)
      BY <3>2, <2>1, <1>0, <1>1, <1>3 DEF Distinct
    <3>3. CASE i = Len(h.q) + 1 /\ j \in 1 .. Len(h.q)
      BY <3>3, <2>1, <1>1, <1>3, <1>5 DEF Contains
    <3>4. CASE j = Len(h.q) + 1 /\ i \in 1 .. Len(h.q)
      BY <3>4, <2>1, <1>1, <1>3, <1>5 DEF Contains
    <3> QED
      BY <3>1, <3>2, <3>3, <3>4, <1>3
  <2> QED
    BY <2>1 DEF Distinct
<1>6. CASE Checked(h, t) = h
  BY <1>6
<1>7. CASE ~Contains(h.q, t) /\ ~Contains(h.q, Twin(t)) /\ Checked(h, t) = [h EXCEPT !.q = a]
  <2>1. NoTwins(a)
    <3>1. ASSUME NEW i \in 1 .. Len(a), NEW j \in 1 .. Len(a), a[i] = Twin(a[j]) PROVE FALSE
      <4>1. CASE a[i] = t /\ a[j] = t
        BY <4>1, <3>1, <1>2
      <4>2. CASE a[i] = t /\ \E k \in 1 .. Len(h.q) : a[j] = h.q[k]
        BY <4>2, <3>1, <1>1, <1>2, <1>7 DEF Contains
      <4>3. CASE a[j] = t /\ \E k \in 1 .. Len(h.q) : a[i] = h.q[k]
        BY <4>3, <3>1, <1>7 DEF Contains
      <4>4. CASE (\E k \in 1 .. Len(h.q) : a[i] = h.q[k]) /\ (\E k \in 1 .. Len(h.q) : a[j] = h.q[k])
        BY <4>4, <3>1, <1>0 DEF NoTwins
      <4> QED
        BY <4>1, <4>2, <4>3, <4>4, <1>4
    <3> QED
      BY <3>1 DEF NoTwins
  <2>2. \A i \in 1 .. Len(a) : a[i] \in h.box
    BY <1>0, <1>4
  <2> QED
    BY <1>0, <1>3, <1>5, <1>7, <2>1, <2>2, SelectQ DEF Sound
<1>8. CASE /\ ~Contains(h.q, t)
           /\ Checked(h, t) = [h EXCEPT !.q = RemoveFirst(a, Twin(t)),
                                        !.box = h.box \ {Twin(t)}]
  <2> DEFINE r == RemoveFirst(a, Twin(t))
  <2>1. /\ r \in Seq(Test) /\ Distinct(r)
        /\ \A i \in 1 .. Len(r) : r[i] # Twin(t) /\ \E j \in 1 .. Len(a) : r[i] = a[j]
    BY <1>3, <1>5, <1>8, RemoveFirstQueue
  <2> HIDE DEF r
  <2>2. \A i \in 1 .. Len(r) :
          r[i] # Twin(t) /\ (r[i] = t \/ \E j \in 1 .. Len(h.q) : r[i] = h.q[j])
    BY <2>1, <1>4
  <2>3. NoTwins(r)
    <3>1. ASSUME NEW i \in 1 .. Len(r), NEW j \in 1 .. Len(r), r[i] = Twin(r[j]) PROVE FALSE
      <4>1. CASE r[j] = t
        BY <4>1, <3>1, <2>2
      <4>2. CASE r[i] = t /\ \E k \in 1 .. Len(h.q) : r[j] = h.q[k]
        BY <4>2, <3>1, <1>1, <1>2, <2>2
      <4>3. CASE (\E k \in 1 .. Len(h.q) : r[i] = h.q[k]) /\ (\E k \in 1 .. Len(h.q) : r[j] = h.q[k])
        BY <4>3, <3>1, <1>0 DEF NoTwins
      <4> QED
        BY <4>1, <4>2, <4>3, <2>2
    <3> QED
      BY <3>1 DEF NoTwins
  <2>4. \A i \in 1 .. Len(r) : r[i] \in h.box \ {Twin(t)}
    BY <2>2, <1>0
  <2>5. Checked(h, t) = [h EXCEPT !.q = r, !.box = h.box \ {Twin(t)}]
    BY <1>8 DEF r
  <2> DEFINE g == Checked(h, t)
             B == h.box \ {Twin(t)}
  <2> HIDE DEF B
  <2>9. LET k == [h EXCEPT !.q = r, !.box = B]
        IN  IsTool(k) /\ k.q = r /\ k.box = B
    BY <1>0 DEF IsTool, Fields
  <2>10. g = [h EXCEPT !.q = r, !.box = B]
    BY <2>5 DEF B
  <2>6. IsTool(g) /\ g.q = r /\ g.box = B
    BY <2>9, <2>10
  <2>7. B \in SUBSET Test /\ \A i \in 1 .. Len(r) : r[i] \in B
    BY <1>0, <2>4 DEF B
  <2> HIDE DEF g
  <2>8. Sound(g)
    BY <2>1, <2>3, <2>6, <2>7 DEF Sound
  <2> QED
    BY <2>8 DEF g
<1> QED
  BY <1>6, <1>7, <1>8 DEF Checked, a

LEMMA SetBoxSound ==
  ASSUME NEW h, Sound(h), NEW t \in Test, NEW v \in BOOLEAN
  PROVE  Sound(SetBox(h, t, v))
<1>0. /\ IsTool(h) /\ h.q \in Seq(Test) /\ h.box \in SUBSET Test
      /\ Distinct(h.q) /\ NoTwins(h.q) /\ \A i \in 1 .. Len(h.q) : h.q[i] \in h.box
  BY DEF Sound
<1>1. CASE v = (t \in h.box)
  BY <1>1 DEF SetBox
<1>2. CASE v # (t \in h.box) /\ v
  <2> DEFINE g == [h EXCEPT !.box = h.box \cup {t}]
  <2>1. SetBox(h, t, v) = Checked(g, t)
    BY <1>2 DEF SetBox
  <2>9. IsTool(g) /\ g.q = h.q /\ g.box = h.box \cup {t}
    BY <1>0, SelectBox
  <2> HIDE DEF g
  <2>10. \A i \in 1 .. Len(g.q) : g.q[i] \in g.box
    BY <1>0, <2>9
  <2>2. Sound(g) /\ t \in g.box
    BY <1>0, <2>9, <2>10 DEF Sound
  <2> QED
    BY <2>1, <2>2, CheckedSound
<1>3. CASE v # (t \in h.box) /\ ~v
  <2> DEFINE g == [h EXCEPT !.box = h.box \ {t}]
             r == RemoveFirst(h.q, t)
  <2>1. IsTool(g) /\ g.q = h.q /\ g.box = h.box \ {t}
    BY <1>0, SelectBox
  <2>2. SetBox(h, t, v) = Unchecked(g, t)
    BY <1>3 DEF SetBox
  <2> HIDE DEF g
  <2>3. SetBox(h, t, v) = [g EXCEPT !.q = r]
    BY <2>1, <2>2 DEF Unchecked
  <2>4. /\ r \in Seq(Test) /\ Distinct(r)
        /\ \A i \in 1 .. Len(r) : r[i] # t /\ \E j \in 1 .. Len(h.q) : r[i] = h.q[j]
    BY <1>0, RemoveFirstQueue
  <2> HIDE DEF r
  <2>5. NoTwins(r)
    BY <2>4, <1>0 DEF NoTwins
  <2>6. \A i \in 1 .. Len(r) : r[i] \in h.box \ {t}
    BY <2>4, <1>0
  <2> DEFINE k == SetBox(h, t, v)
  <2>7. IsTool(k) /\ k.q = r /\ k.box = h.box \ {t}
    BY <2>1, <2>3, SelectQ
  <2> HIDE DEF k
  <2>8. Sound(k)
    BY <1>0, <2>4, <2>5, <2>6, <2>7 DEF Sound
  <2> QED
    BY <2>8 DEF k
<1> QED
  BY <1>1, <1>2, <1>3

LEMMA EnableSound ==
  ASSUME NEW h, Sound(h), NEW t \in Test
  PROVE  Sound(Enable(h, t)) /\ Sound(Disable(h, t)) /\ Sound(Toggle(h, t))
<1>1. Sound(SetBox(h, t, FALSE))
  BY SetBoxSound
<1>2. Sound(SetBox(SetBox(h, t, FALSE), t, TRUE))
  BY <1>1, SetBoxSound
<1>3. (t \notin h.box) \in BOOLEAN
  OBVIOUS
<1>4. Sound(SetBox(h, t, t \notin h.box))
  BY <1>3, SetBoxSound
<1> QED
  BY <1>1, <1>2, <1>4 DEF Enable, Disable, Toggle

LEMMA PlainSweepTests ==
  /\ \A i \in Intf, d \in {"TX", "RX"} : PlainTest(i, d) \in Test /\ SweepTest(i, d) \in Test
  /\ \A d \in {"TX", "RX"}, s \in BOOLEAN : [PlainTest("PLC", d) EXCEPT !.sweep = s] \in Test
  BY DEF Intf, Test, PlainTest, SweepTest

-----------------------------------------------------------------------------
(***************************************************************************)
(* What a handler does to the other fields leaves queue and boxes alone.   *)
(***************************************************************************)
LEMMA Kept ==
  ASSUME NEW h, Sound(h), NEW g, IsTool(g), g.q = h.q, g.box = h.box
  PROVE  Sound(g)
  BY DEF Sound

LEMMA KeepFields ==
  ASSUME NEW h, Sound(h), NEW v, NEW w, NEW x, NEW y, NEW z
  PROVE  /\ Sound([h EXCEPT !.status = v])
         /\ Sound([h EXCEPT !.out = v])
         /\ Sound([h EXCEPT !.tests = v])
         /\ Sound([h EXCEPT !.dead = v])
         /\ Sound([h EXCEPT !.params = v])
         /\ Sound([h EXCEPT !.calStatus = v])
         /\ Sound([h EXCEPT !.sweepTestRunning = v])
         /\ Sound([h EXCEPT !.params = v, !.sweepTestRunning = w])
         /\ Sound([h EXCEPT !.testRunning = v, !.params = w])
         /\ Sound([h EXCEPT !.up = v, !.listed = w])
         /\ Sound([h EXCEPT !.stopOn = v, !.runOn = w, !.boxOn = x])
         /\ Sound([h EXCEPT !.devicesUP = v, !.runOn = w, !.boxOn = x])
         /\ Sound([h EXCEPT !.tests = v, !.summary = w, !.run = x])
         /\ Sound([h EXCEPT !.testRunning = v, !.calStatus = w, !.planned = x])
         /\ Sound([h EXCEPT !.runOn = v, !.up = w, !.devicesUP = x, !.listed = y, !.out = z])
         /\ Sound([h EXCEPT !.summary = v])
<1>0. IsTool(h)
  BY DEF Sound
<1>1. Sound([h EXCEPT !.status = v])
  BY <1>0, Kept DEF IsTool, Fields
<1>2. Sound([h EXCEPT !.out = v])
  BY <1>0, Kept DEF IsTool, Fields
<1>3. Sound([h EXCEPT !.tests = v])
  BY <1>0, Kept DEF IsTool, Fields
<1>4. Sound([h EXCEPT !.dead = v])
  BY <1>0, Kept DEF IsTool, Fields
<1>5. Sound([h EXCEPT !.params = v])
  BY <1>0, Kept DEF IsTool, Fields
<1>6. Sound([h EXCEPT !.calStatus = v])
  BY <1>0, Kept DEF IsTool, Fields
<1>7. Sound([h EXCEPT !.sweepTestRunning = v])
  BY <1>0, Kept DEF IsTool, Fields
<1>8. Sound([h EXCEPT !.params = v, !.sweepTestRunning = w])
  BY <1>0, Kept DEF IsTool, Fields
<1>9. Sound([h EXCEPT !.testRunning = v, !.params = w])
  BY <1>0, Kept DEF IsTool, Fields
<1>10. Sound([h EXCEPT !.up = v, !.listed = w])
  BY <1>0, Kept DEF IsTool, Fields
<1>11. Sound([h EXCEPT !.stopOn = v, !.runOn = w, !.boxOn = x])
  BY <1>0, Kept DEF IsTool, Fields
<1>12. Sound([h EXCEPT !.devicesUP = v, !.runOn = w, !.boxOn = x])
  BY <1>0, Kept DEF IsTool, Fields
<1>13. Sound([h EXCEPT !.tests = v, !.summary = w, !.run = x])
  BY <1>0, Kept DEF IsTool, Fields
<1>14. Sound([h EXCEPT !.testRunning = v, !.calStatus = w, !.planned = x])
  BY <1>0, Kept DEF IsTool, Fields
<1>15. Sound([h EXCEPT !.runOn = v, !.up = w, !.devicesUP = x, !.listed = y, !.out = z])
  BY <1>0, Kept DEF IsTool, Fields
<1>16. Sound([h EXCEPT !.summary = v])
  BY <1>0, Kept DEF IsTool, Fields
<1> QED
  BY <1>1, <1>2, <1>3, <1>4, <1>5, <1>6, <1>7, <1>8, <1>9, <1>10, <1>11, <1>12, <1>13,
     <1>14, <1>15, <1>16, Zenon

LEMMA UISound ==
  ASSUME NEW h, Sound(h)
  PROVE  /\ Sound(setStatusvarNull(h)) /\ Sound(disableUI(h)) /\ Sound(enableUI(h))
         /\ Sound(scan(h)) /\ Sound(Crash(h))
<1>1. Sound(setStatusvarNull(h)) /\ Sound(disableUI(h)) /\ Sound(scan(h)) /\ Sound(Crash(h))
  BY KeepFields DEF setStatusvarNull, disableUI, scan, Crash
<1> DEFINE g0 == [h EXCEPT !.stopOn = FALSE, !.runOn = TRUE, !.boxOn = Test]
           g1 == Disable(g0, PlainTest("RF", "TX"))
           g2 == Disable(g1, PlainTest("RF", "RX"))
           g3 == Disable(g2, PlainTest("PLC", "TX"))
           g4 == Disable(g3, PlainTest("PLC", "RX"))
<1>2. /\ PlainTest("RF", "TX") \in Test /\ PlainTest("RF", "RX") \in Test
      /\ PlainTest("PLC", "TX") \in Test /\ PlainTest("PLC", "RX") \in Test
  BY PlainSweepTests DEF Intf
<1>3. enableUI(h) = g4
  BY DEF enableUI, UncheckPlain
<1>4. Sound(g0)
  BY KeepFields
<1> HIDE DEF g0
<1>5. Sound(g1)
  BY <1>2, <1>4, EnableSound
<1> HIDE DEF g1
<1>6. Sound(g2)
  BY <1>2, <1>5, EnableSound
<1> HIDE DEF g2
<1>7. Sound(g3)
  BY <1>2, <1>6, EnableSound
<1> HIDE DEF g3
<1>8. Sound(g4)
  BY <1>2, <1>7, EnableSound
<1> QED
  BY <1>1, <1>3, <1>8

\* Without enough clients the list of clients is a scan.
LEMMA ListSound ==
  ASSUME NEW h, Sound(h)
  PROVE  /\ Sound(getSelectedClientList(h))
         /\ getSelectedClientList(h).q = h.q /\ getSelectedClientList(h).params = h.params
         /\ getSelectedClientList(h).tests = h.tests
<1>1. Sound(getSelectedClientList(h))
  BY UISound DEF getSelectedClientList
<1>2. scan(h).q = h.q /\ scan(h).params = h.params /\ scan(h).tests = h.tests
  BY DEF Sound, IsTool, Fields, scan
<1> QED
  BY <1>1, <1>2 DEF getSelectedClientList

LEMMA SendSound ==
  ASSUME NEW h, Sound(h), NEW b, NEW cmd, NEW t
  PROVE  Sound(Send(h, b, cmd, t))
<1> DEFINE m == [cmd |-> cmd, test |-> t, ex |-> Execution(h)]
           o == [h.out EXCEPT ![b] = @ \o [i \in 1 .. h.listed[b] |-> m]]
<1>1. Send(h, b, cmd, t) = IF FewClients(h) THEN scan(h) ELSE [h EXCEPT !.out = o]
  BY DEF Send
<1> HIDE DEF o
<1>2. Sound(scan(h))
  BY UISound
<1>3. Sound([h EXCEPT !.out = o])
  BY KeepFields
<1> QED
  BY <1>1, <1>2, <1>3, Zenon

LEMMA BeginTestSound ==
  ASSUME NEW h, Sound(h), NEW t
  PROVE  Sound(BeginTest(h, t))
<1> DEFINE p == [h.params EXCEPT ![t.intf] = @ + SweepLen[t.intf]]
           k == [h EXCEPT !.params = p, !.sweepTestRunning = TRUE]
           g == IF t.sweep THEN k ELSE h
<1>1. BeginTest(h, t) = Send(g, FirstPrepared(t), "PREPARE", PlainOf(t))
  BY DEF BeginTest
<1> HIDE DEF p
<1>2. Sound(k)
  BY KeepFields
<1> HIDE DEF k
<1>3. Sound(g)
  BY <1>2
<1> HIDE DEF g
<1> QED
  BY <1>1, <1>3, SendSound

\* The two sweeps of the next board replace the queue, and are checked.
LEMMA RefillSound ==
  ASSUME NEW h, Sound(h), NEW cap
  PROVE  Sound(Refill(h, cap)) /\ Sound(EnableTests2(h, cap))
<1> DEFINE i == IF cap = "PLC" THEN "PLC" ELSE "RF"
           a == SweepTest(i, "TX")
           c == SweepTest(i, "RX")
<1>1. /\ i \in Intf
      /\ a = [intf |-> i, dir |-> "TX", sweep |-> TRUE]
      /\ c = [intf |-> i, dir |-> "RX", sweep |-> TRUE]
  BY DEF Intf, SweepTest
<1>2. a \in Test /\ c \in Test /\ a # c /\ a.sweep = TRUE /\ c.sweep = TRUE
  <2>1. a \in Test /\ c \in Test
    BY <1>1, PlainSweepTests
  <2>2. a.dir = "TX" /\ c.dir = "RX" /\ a.sweep = TRUE /\ c.sweep = TRUE
    BY <1>1
  <2> QED
    BY <2>1, <2>2
<1> HIDE DEF i, a, c
<1>3. Twin(a).sweep = FALSE /\ Twin(c).sweep = FALSE
  BY <1>1 DEF Twin
<1> DEFINE q == <<a, c>>
           B == h.box \cup ToSet(q)
           g == [h EXCEPT !.q = q, !.box = B]
<1>4. Refill(h, cap) = g
  BY DEF Refill, i, a, c
<1>5. /\ q \in Seq(Test) /\ Len(q) = 2 /\ q[1] = a /\ q[2] = c /\ 1 .. Len(q) = {1, 2}
      /\ ToSet(q) = {a, c}
  BY <1>2 DEF ToSet
<1>6. IsTool(h) /\ h.box \in SUBSET Test
  BY DEF Sound
<1>7. B \in SUBSET Test /\ a \in B /\ c \in B
  BY <1>2, <1>5, <1>6
<1> HIDE DEF q, B
<1>8. IsTool(g) /\ g.q = q /\ g.box = B
  BY <1>6 DEF IsTool, Fields
<1> HIDE DEF g
<1>9. Distinct(q) /\ (\A j \in 1 .. Len(q) : q[j] \in B)
  BY <1>2, <1>5, <1>7 DEF Distinct
<1>10. NoTwins(q)
  <2>1. ASSUME NEW j \in 1 .. Len(q), NEW k \in 1 .. Len(q), q[j] = Twin(q[k]) PROVE FALSE
    BY <2>1, <1>2, <1>3, <1>5
  <2> QED
    BY <2>1 DEF NoTwins
<1>11. Sound(g)
  BY <1>5, <1>7, <1>8, <1>9, <1>10 DEF Sound
<1>12. EnableTests2(h, cap) = SetBox(SetBox(h, a, TRUE), c, TRUE)
  BY DEF EnableTests2, i, a, c
<1>13. Sound(SetBox(h, a, TRUE))
  BY <1>2, SetBoxSound
<1>14. Sound(SetBox(SetBox(h, a, TRUE), c, TRUE))
  BY <1>2, <1>13, SetBoxSound
<1> QED
  BY <1>4, <1>11, <1>12, <1>14

\* What the sub of a test does, and with which status.
LEMMA StepSound ==
  ASSUME NEW h, Sound(h), NEW t, NEW op
  PROVE  Sound(TestStep(h, t, op))
<1>1. /\ Sound(Send(h, h.status.at, op, t)) /\ Sound(Send(h, Receiver(t), op, t))
  BY SendSound
<1>2. Sound(BeginTest(h, Head(h.q))) /\ Sound(Refill(h, Capability))
  BY BeginTestSound, RefillSound
<1>3. CASE op \in {"PREPARE", "START"}
  BY <1>1, <1>3 DEF TestStep
<1>4. CASE op \in {"STOP", "GET_RESULT"}
  BY <1>1, <1>4 DEF TestStep
<1>5. CASE op = "GET_RESULT_CNF"
  BY <1>2, <1>5 DEF TestStep
<1>6. CASE op \notin {"PREPARE", "START", "STOP", "GET_RESULT", "GET_RESULT_CNF"}
  BY <1>6 DEF TestStep
<1> QED
  BY <1>3, <1>4, <1>5, <1>6

LEMMA ExecuteSound ==
  ASSUME NEW h, Sound(h)
  PROVE  /\ Sound(executeTests(h))
         /\ \A t, op, b : Sound(Continue(h, t, op, b))
<1>1. Sound(executeTests(h))
  <2>1. Sound(BeginTest(h, h.status.test)) /\ Sound(TestStep(h, h.status.test, h.status.op))
    BY BeginTestSound, StepSound
  <2> QED
    BY <2>1 DEF executeTests
<1>2. ASSUME NEW t, NEW op, NEW b PROVE Sound(Continue(h, t, op, b))
  <2> DEFINE s == Status(PlainOf(t), op, b)
             g == [h EXCEPT !.status = s]
             p == PlainOf(t)
  <2>1. Continue(h, t, op, b) = TestStep(g, p, op)
    BY DEF Continue
  <2> HIDE DEF s, p
  <2>2. Sound(g)
    BY KeepFields
  <2> HIDE DEF g
  <2> QED
    BY <2>1, <2>2, StepSound
<1> QED
  BY <1>1, <1>2

LEMMA FlashSound ==
  ASSUME NEW h, Sound(h)
  PROVE  Sound(flashParams(h)) /\ Sound(TestsDone(h))
<1>1. ASSUME NEW g, Sound(g) PROVE Sound(flashParams(g))
  <2>1. Sound(Send(g, "DUT", "FLASH_PARAM", NoTest))
    BY <1>1, SendSound
  <2> QED
    BY <1>1, <2>1, ListSound DEF flashParams
<1> DEFINE e == enableUI(h)
<1>2. Sound(e)
  BY UISound
<1> HIDE DEF e
<1> DEFINE d == [e EXCEPT !.summary = "done"]
<1>3. Sound(d)
  BY <1>2, KeepFields
<1>4. TestsDone(h) = IF h.q = <<>> THEN flashParams(d) ELSE h
  BY DEF TestsDone, e
<1> HIDE DEF d
<1> QED
  BY <1>1, <1>3, <1>4

\* The queue without its first test.
LEMMA TailSound ==
  ASSUME NEW h, Sound(h), h.q # <<>>, NEW v, NEW w
  PROVE  Sound([h EXCEPT !.q = Tail(h.q), !.testRunning = v, !.params = w])
<1>0. /\ IsTool(h) /\ h.q \in Seq(Test) /\ h.box \in SUBSET Test
      /\ Distinct(h.q) /\ NoTwins(h.q) /\ \A i \in 1 .. Len(h.q) : h.q[i] \in h.box
  BY DEF Sound
<1> DEFINE r == Tail(h.q)
           g == [h EXCEPT !.q = r, !.testRunning = v, !.params = w]
<1>1. /\ r \in Seq(Test) /\ Len(r) = Len(h.q) - 1 /\ Len(h.q) \in Nat
      /\ \A i \in 1 .. Len(r) : r[i] = h.q[i + 1]
  BY <1>0, HeadTailProperties, LenProperties
<1> HIDE DEF r
<1>2. \A i \in 1 .. Len(r) : i + 1 \in 1 .. Len(h.q)
  BY <1>1
<1>3. Distinct(r)
  BY <1>0, <1>1, <1>2 DEF Distinct
<1>4. NoTwins(r) /\ (\A i \in 1 .. Len(r) : r[i] \in h.box)
  BY <1>0, <1>1, <1>2 DEF NoTwins
<1>5. IsTool(g) /\ g.q = r /\ g.box = h.box
  BY <1>0 DEF IsTool, Fields
<1> HIDE DEF g
<1>6. Sound(g)
  BY <1>0, <1>1, <1>3, <1>4, <1>5 DEF Sound
<1> QED
  BY <1>6 DEF g, r

LEMMA FinishTestSound ==
  ASSUME NEW h, Sound(h), h.q # <<>>
  PROVE  Sound(FinishTest(h))
<1> DEFINE t == Head(h.q)
           p == [h.params EXCEPT ![t.intf] = IF t.sweep THEN 0 ELSE @]
           k == [h EXCEPT !.q = Tail(h.q), !.testRunning = FALSE, !.params = p]
           g == TestsDone(k)
           s == IF t.sweep THEN FALSE ELSE g.sweepTestRunning
           e == [g EXCEPT !.sweepTestRunning = s]
<1>1. FinishTest(h) = Continue(e, t, "GET_RESULT_CNF", "DUT")
  BY DEF FinishTest
<1> HIDE DEF t, p
<1>2. Sound(k)
  BY TailSound
<1> HIDE DEF k
<1>3. Sound(g)
  BY <1>2, FlashSound
<1> HIDE DEF g, s
<1>4. Sound(e)
  BY <1>3, KeepFields
<1> HIDE DEF e
<1> QED
  BY <1>1, <1>4, ExecuteSound

-----------------------------------------------------------------------------
(***************************************************************************)
(* The handlers of the frames.                                             *)
(***************************************************************************)
LEMMA DeviceUpSound ==
  ASSUME NEW h, Sound(h), NEW b, NEW m
  PROVE  Sound(DeviceUp(h, b, m))
<1>1. Sound(incorrectDevUpEvent(h))
  <2> DEFINE g == enableUI(setStatusvarNull(h))
             p == [i \in Intf |-> 0]
             k == [g EXCEPT !.testRunning = FALSE, !.sweepTestRunning = FALSE,
                            !.q = <<>>, !.box = {}, !.params = p, !.runOn = FALSE]
  <2>1. incorrectDevUpEvent(h) = k
    BY DEF incorrectDevUpEvent
  <2>2. Sound(setStatusvarNull(h))
    BY UISound
  <2>3. Sound(g)
    BY <2>2, UISound
  <2> HIDE DEF g, p
  <2>4. IsTool(g)
    BY <2>3 DEF Sound
  <2>5. IsTool(k) /\ k.q = <<>> /\ k.box = {}
    BY <2>4 DEF IsTool, Fields
  <2> HIDE DEF k
  <2>6. /\ <<>> \in Seq(Test) /\ 1 .. Len(<<>>) = {}
    BY EmptySeq
  <2>7. Sound(k)
    BY <2>5, <2>6 DEF Sound, Distinct, NoTwins
  <2> QED
    BY <2>1, <2>7
<1>2. Sound(isDeviceUP(h, b))
  <2> DEFINE u == h.up \cup {b}
             l == [h.listed EXCEPT ![b] = @ + 1]
             g == [h EXCEPT !.up = u, !.listed = l]
             x == g.boxOn \cup TestsOf(Capability)
             k == [g EXCEPT !.devicesUP = TRUE, !.runOn = TRUE, !.boxOn = x]
  <2>1. isDeviceUP(h, b) = IF g.up = Board THEN EnableTests2(k, Capability) ELSE g
    BY DEF isDeviceUP
  <2> HIDE DEF u, l
  <2>2. Sound(g)
    BY KeepFields
  <2> HIDE DEF g, x
  <2>3. Sound(k)
    BY <2>2, KeepFields
  <2> HIDE DEF k
  <2>4. Sound(EnableTests2(k, Capability))
    BY <2>3, RefillSound
  <2> QED
    BY <2>1, <2>2, <2>4, Zenon
<1> QED
  BY <1>1, <1>2 DEF DeviceUp

LEMMA StopSound ==
  ASSUME NEW h, Sound(h), NEW t
  PROVE  Sound(executeTests(issueCmd_StopTest(h, t)))
<1>1. Sound(issueCmd_StopTest(h, t))
  BY KeepFields DEF issueCmd_StopTest
<1> QED
  BY <1>1, ExecuteSound

LEMMA PrepareCnfSound ==
  ASSUME NEW h, Sound(h), NEW b, NEW m
  PROVE  Sound(PrepareCnf(h, b, m))
<1>1. Sound(PrepareNext(h, b))
  BY ExecuteSound DEF PrepareNext
<1>2. Sound(DutCalFailed(h))
  <2> DEFINE k == [h EXCEPT !.calStatus = FALSE]
             k1 == Disable(k, SweepTest("RF", "RX"))
             g == Disable(k1, SweepTest("RF", "TX"))
  <2>1. SweepTest("RF", "RX") \in Test /\ SweepTest("RF", "TX") \in Test
    BY PlainSweepTests DEF Intf
  <2>2. Sound(k)
    BY KeepFields
  <2> HIDE DEF k
  <2>3. Sound(k1)
    BY <2>1, <2>2, EnableSound
  <2> HIDE DEF k1
  <2>4. Sound(g)
    BY <2>1, <2>3, EnableSound
  <2>5. DutCalFailed(h) =
          IF g.q = <<>> THEN setStatusvarNull(g)
          ELSE IF Head(g.q).intf = "RF" THEN executeTests(g)
          ELSE IF Head(g.q).dir = "TX" THEN Continue(g, Head(g.q), "START", "DUT")
          ELSE Continue(g, Head(g.q), "PREPARE", "DUT")
    BY DEF DutCalFailed, k, k1
  <2> HIDE DEF g
  <2>6. Sound(setStatusvarNull(g))
    BY <2>4, UISound
  <2>7. /\ Sound(executeTests(g)) /\ Sound(Continue(g, Head(g.q), "START", "DUT"))
        /\ Sound(Continue(g, Head(g.q), "PREPARE", "DUT"))
    BY <2>4, ExecuteSound
  <2> QED
    BY <2>5, <2>6, <2>7, Zenon
<1>3. Sound(RefCalFailed(h))
  <2> DEFINE g == setStatusvarNull(enableUI(h))
             p == [i \in Intf |-> 0]
  <2>1. Sound(enableUI(h))
    BY UISound
  <2>2. Sound(g)
    BY <2>1, UISound
  <2>3. RefCalFailed(h) = [g EXCEPT !.testRunning = FALSE, !.params = p]
    BY DEF RefCalFailed
  <2> HIDE DEF g, p
  <2>4. Sound([g EXCEPT !.testRunning = FALSE, !.params = p])
    BY <2>2, KeepFields
  <2> QED
    BY <2>3, <2>4
<1>4. Sound(setStatusvarNull(h))
  BY UISound
<1>5. CASE m.rsp = "SUCCESS"
  BY <1>1, <1>4, <1>5 DEF PrepareCnf
<1>6. CASE m.rsp = "CAL_FAILED"
  BY <1>2, <1>3, <1>4, <1>6 DEF PrepareCnf
<1>7. CASE m.rsp # "SUCCESS" /\ m.rsp # "CAL_FAILED"
  BY <1>4, <1>7 DEF PrepareCnf
<1> QED
  BY <1>5, <1>6, <1>7

LEMMA GetResultCnfSound ==
  ASSUME NEW h, Sound(h), NEW b, NEW m, NEW ok
  PROVE  Sound(GetResultCnf(h, b, m, ok))
<1> DEFINE l == getSelectedClientList(h)
<1>0. Sound(l) /\ l.q = h.q /\ l.params = h.params /\ l.tests = h.tests
  BY ListSound
<1>1. CASE h.q = <<>>
  BY <1>0, <1>1, UISound DEF GetResultCnf
<1>2. CASE h.q # <<>>
  <2> DEFINE r == Append(h.tests, [test |-> Head(h.q), ok |-> ok, from |-> m.stats.from,
                                   ex |-> Execution(h)])
             t == Head(h.q)
             g == [l EXCEPT !.tests = r]
             p == [g.params EXCEPT ![t.intf] = @ - 1]
             k == [g EXCEPT !.params = p]
             c == Continue(k, t, "PREPARE", FirstPrepared(t))
  <2>1. GetResultCnf(h, b, m, ok) =
          IF ~t.sweep THEN FinishTest(g)
          ELSE IF h.params[t.intf] = 0 THEN Crash(g)
          ELSE IF h.params[t.intf] = 1 THEN FinishTest(g)
          ELSE c
    BY <1>0, <1>2 DEF GetResultCnf, Record
  <2> HIDE DEF t, r, l
  <2>2. Sound(g)
    BY <1>0, KeepFields
  <2>3. g.q = h.q
    BY <1>0 DEF Sound, IsTool, Fields
  <2> HIDE DEF g, p
  <2>4. Sound(FinishTest(g)) /\ Sound(Crash(g))
    BY <1>2, <2>2, <2>3, FinishTestSound, UISound
  <2>5. Sound(k)
    BY <2>2, KeepFields
  <2> HIDE DEF k
  <2>6. Sound(c)
    BY <2>5, ExecuteSound
  <2> HIDE DEF c
  <2> QED
    BY <2>1, <2>4, <2>6, Zenon
<1> QED
  BY <1>1, <1>2

LEMMA HandledSound ==
  ASSUME NEW h, Sound(h), NEW b, NEW m, NEW ok
  PROVE  Sound(Handled(h, b, m, ok))
<1>1. Sound(DeviceUp(h, b, m)) /\ Sound(PrepareCnf(h, b, m)) /\ Sound(GetResultCnf(h, b, m, ok))
  BY DeviceUpSound, PrepareCnfSound, GetResultCnfSound
<1>2. Sound(TestDone(h, b, m))
  BY StopSound, UISound DEF TestDone
<1>3. Sound(StartCnf(h, b, m)) /\ Sound(StopCnf(h, b, m))
  BY ExecuteSound, UISound DEF StartCnf, StopCnf
<1>4. Sound(FlashParamCnf(h, b, m))
  BY SendSound, UISound DEF FlashParamCnf
<1>5. CASE m.id \in {"DEVICE_UP", "TEST_DONE", "PREPARE_CNF", "START_CNF"}
  BY <1>1, <1>2, <1>3, <1>5 DEF Handled
<1>6. CASE m.id \in {"STOP_CNF", "GET_RESULT_CNF", "FLASH_PARAM_CNF"}
  BY <1>1, <1>3, <1>4, <1>6 DEF Handled
<1>7. CASE m.id \notin {"DEVICE_UP", "TEST_DONE", "PREPARE_CNF", "START_CNF", "STOP_CNF",
                        "GET_RESULT_CNF", "FLASH_PARAM_CNF"}
  BY <1>7 DEF Handled
<1> QED
  BY <1>5, <1>6, <1>7

-----------------------------------------------------------------------------
(***************************************************************************)
(* The tool.                                                               *)
(***************************************************************************)
LEMMA InitSound == ToolInit => Sound(tool)
<1> SUFFICES ASSUME ToolInit PROVE Sound(tool)
  OBVIOUS
<1>1. IsTool(tool) /\ tool.q = <<>> /\ tool.box = {}
  BY DEF ToolInit, IsTool, Fields
<1>2. <<>> \in Seq(Test) /\ 1 .. Len(<<>>) = {}
  BY EmptySeq
<1> QED
  BY <1>1, <1>2 DEF Sound, Distinct, NoTwins

LEMMA FinishSound ==
  ASSUME NEW h, Sound(h), Finish(h)
  PROVE  Sound(tool)'
<1>1. tool' = [h EXCEPT !.out = NoSends]
  BY DEF Finish
<1>2. Sound([h EXCEPT !.out = NoSends])
  BY KeepFields
<1>3. Sound(tool')
  BY <1>1, <1>2
<1> QED
  BY <1>3

LEMMA ForSerialSound ==
  ASSUME NEW h, Sound(h), NEW cap, NEW mod \in BOOLEAN
  PROVE  Sound(ForSerial(h, cap, mod))
<1> DEFINE on(d) == [PlainTest("PLC", d) EXCEPT !.sweep = mod]
           off(d) == [PlainTest("PLC", d) EXCEPT !.sweep = ~mod]
           g1 == Enable(h, on("RX"))
           g2 == Enable(g1, on("TX"))
           g3 == Disable(g2, off("RX"))
           g4 == Disable(g3, off("TX"))
<1>1. ForSerial(h, cap, mod) = IF cap # "RF_PLC" THEN h ELSE g4
  BY DEF ForSerial
<1>2. (~mod) \in BOOLEAN
  OBVIOUS
<1>3. on("RX") \in Test /\ on("TX") \in Test /\ off("RX") \in Test /\ off("TX") \in Test
  BY <1>2, PlainSweepTests
<1> HIDE DEF on, off
<1>4. Sound(g1)
  BY <1>3, EnableSound
<1> HIDE DEF g1
<1>5. Sound(g2)
  BY <1>3, <1>4, EnableSound
<1> HIDE DEF g2
<1>6. Sound(g3)
  BY <1>3, <1>5, EnableSound
<1> HIDE DEF g3
<1>7. Sound(g4)
  BY <1>3, <1>6, EnableSound
<1> HIDE DEF g4
<1> QED
  BY <1>1, <1>7, Zenon

LEMMA RunSound ==
  ASSUME Sound(tool), NEW mod \in Modules, RunTest_Click(mod)
  PROVE  Sound(tool)'
<1> DEFINE r == [tool EXCEPT !.tests = <<>>, !.summary = "new", !.run = @ + 1]
           h == ForSerial(setStatusvarNull(r), Capability, mod)
           t == Head(h.q)
           k == [h EXCEPT !.testRunning = TRUE, !.calStatus = TRUE, !.planned = ToSet(h.q)]
           g == disableUI(k)
           s == Status(t, "PREPARE", FirstPrepared(t))
           e == [g EXCEPT !.status = s]
           f == IF FewClients(h) THEN scan(scan(h)) ELSE IF h.q = <<>> THEN h ELSE executeTests(e)
<1>1. Finish(f)
  BY DEF RunTest_Click
<1>2. mod \in BOOLEAN
  BY ToolAssumption
<1>3. Sound(r)
  BY KeepFields
<1> HIDE DEF r
<1>4. Sound(setStatusvarNull(r))
  BY <1>3, UISound
<1>5. Sound(h)
  BY <1>2, <1>4, ForSerialSound
<1> HIDE DEF h
<1>6. Sound(k)
  BY <1>5, KeepFields
<1> HIDE DEF k
<1>7. Sound(g)
  BY <1>6, UISound
<1> HIDE DEF g, s
<1>8. Sound(e)
  BY <1>7, KeepFields
<1> HIDE DEF e
<1>9. Sound(executeTests(e))
  BY <1>8, ExecuteSound
<1>10. Sound(scan(h))
  BY <1>5, UISound
<1>11. Sound(scan(scan(h)))
  BY <1>10, UISound
<1>12. Sound(f)
  BY <1>5, <1>9, <1>11, Zenon
<1> HIDE DEF f
<1> QED
  BY <1>1, <1>12, FinishSound

LEMMA NextLemma == IInv /\ [Next]_vars => IInv'
<1> SUFFICES ASSUME Sound(tool), [Next]_vars PROVE Sound(tool)'
  BY DEF IInv
<1>1. CASE tool' = tool
  BY <1>1
<1>2. ASSUME NEW b \in Board, ToolReceive(b) PROVE Sound(tool)'
  <2>1. PICK ok : Finish(Handled(tool, b, Head(up[b]), ok))
    BY <1>2 DEF ToolReceive, messageReceived
  <2> QED
    BY <2>1, HandledSound, FinishSound
<1>3. ASSUME NEW mod \in Modules, RunTest_Click(mod) PROVE Sound(tool)'
  BY <1>3, RunSound
<1>4. ASSUME btn_ScanDevices_Click PROVE Sound(tool)'
  <2>1. Finish(scan(tool)) /\ Sound(scan(tool))
    BY <1>4, UISound DEF btn_ScanDevices_Click
  <2> QED
    BY <2>1, FinishSound
<1>5. ASSUME NEW t \in Test, CheckBox_Click(t) PROVE Sound(tool)'
  <2>1. Finish(Toggle(tool, t)) /\ Sound(Toggle(tool, t))
    BY <1>5, EnableSound DEF CheckBox_Click
  <2> QED
    BY <2>1, FinishSound
<1>6. ASSUME btnStopTest_Click PROVE Sound(tool)'
  <2> DEFINE g == executeTests(issueCmd_StopTest(tool, tool.status.test))
  <2>1. Finish(g) /\ Sound(g)
    BY <1>6, StopSound DEF btnStopTest_Click
  <2> HIDE DEF g
  <2> QED
    BY <2>1, FinishSound
<1>7. ASSUME btn_flashParams_Click PROVE Sound(tool)'
  <2>1. Finish(flashParams(tool)) /\ Sound(flashParams(tool))
    BY <1>7, FlashSound DEF btn_flashParams_Click
  <2> QED
    BY <2>1, FinishSound
<1>8. CASE System
  <2>1. PICK b \in Board : ToolReceive(b) \/ RelayRequest(b) \/ RelayConnectFails(b)
                           \/ RelayResponse(b) \/ FwBoot(b) \/ FwTransmit(b)
    BY <1>8 DEF System
  <2>2. ToolReceive(b) \/ tool' = tool
    BY <2>1 DEF RelayRequest, RelayConnectFails, RelayResponse, FwBoot, FwTransmit
  <2> QED
    BY <1>1, <1>2, <2>2
<1>9. CASE Operator
  BY <1>3, <1>4, <1>5, <1>6, <1>7, <1>9 DEF Operator
<1>10. CASE Fault \/ UNCHANGED vars
  BY <1>1, <1>10 DEF Fault, toolVars, vars
<1> QED
  BY <1>8, <1>9, <1>10 DEF Next

\* Queue and boxes agree in every state, whatever the operator clicks, whatever
\* the boards send and however the frames are read: messageReceived and the
\* handlers of the buttons and of the check boxes keep IInv.
THEOREM InvTheorem == Spec => []IInv
<1>1. Init => IInv
  BY InitSound DEF Init, IInv
<1> QED
  BY <1>1, NextLemma, PTL DEF Spec

\* SelectionSound for every capability of the board, sweep and bound: no test is
\* queued twice or next to its sweep, and the box of a queued test is checked.
THEOREM SelectionTheorem == Spec => []SelectionSound
<1>1. IInv => SelectionSound
  <2> SUFFICES ASSUME Sound(tool) PROVE SelectionSound
    BY DEF IInv
  <2>1. /\ tool.q \in Seq(Test) /\ Distinct(tool.q) /\ NoTwins(tool.q)
        /\ \A i \in 1 .. Len(tool.q) : tool.q[i] \in tool.box
    BY DEF Sound
  <2>2. Cardinality(ToSet(tool.q)) = Len(tool.q)
    BY <2>1, DistinctCardinality
  <2>3. \A t \in ToSet(tool.q) : \E i \in 1 .. Len(tool.q) : t = tool.q[i]
    BY <2>1, LenProperties DEF ToSet
  <2>4. \A t \in ToSet(tool.q) : Twin(t) \notin ToSet(tool.q)
    BY <2>1, <2>3 DEF NoTwins
  <2>5. ToSet(tool.q) \subseteq tool.box
    BY <2>1, <2>3
  <2> QED
    BY <2>2, <2>4, <2>5 DEF SelectionSound
<1> QED
  BY <1>1, InvTheorem, PTL

-----------------------------------------------------------------------------
(***************************************************************************)
(* Types.  TypeOK needs the types of what travels between the tool and the *)
(* boards, and that a board that transmits does so for an execution: the   *)
(* executions of the commands are those of the runs the operator started.  *)
(***************************************************************************)
Ops == {"NONE", "PREPARE", "START", "STOP", "GET_RESULT", "GET_RESULT_CNF"}

Plain == {t \in Test : t.sweep = FALSE}

Cmd ==
  [cmd : {"PREPARE", "START", "STOP", "GET_RESULT"}, test : Plain, ex : Executions]
    \cup
  [cmd : {"DEV_SEARCH", "FLASH_PARAM", "SPI_DISCONNECT"}, test : {NoTest}, ex : Executions]

FrameType ==
  [id : {"DEVICE_UP", "TEST_DONE", "PREPARE_CNF", "START_CNF", "STOP_CNF",
         "GET_RESULT_CNF", "FLASH_PARAM_CNF"},
   rsp : {"SUCCESS", "FAILURE", "INVALID_TEST", "CAL_FAILED"},
   intf : Intf \cup {"none"}, stats : Stats]

Result == [test : Test, ok : BOOLEAN, from : SUBSET Executions, ex : Executions]

\* The fields of the tool but for queue and boxes, in run n.
Rest(h, n) ==
  /\ IsTool(h)
  /\ h.status \in Statuses
  /\ h.params \in [Intf -> Nat]
  /\ h.listed \in [Board -> 0 .. ListMax]
  /\ h.tests \in Seq(Result)
  /\ h.out \in [Board -> Seq(Cmd)]
  /\ h.run = n /\ n \in 0 .. Bound["run"]

LEMMA PlainFacts ==
  /\ \A t \in Plain : t \in Test /\ t.sweep = FALSE /\ t.intf \in Intf
  /\ \A t \in Test : t.intf \in Intf /\ t.sweep \in BOOLEAN
  /\ \A t \in Test : t.sweep = FALSE => t \in Plain
  /\ \A t \in Test : PlainOf(t) \in Plain
  /\ NoTest \notin Test
<1>1. ASSUME NEW t \in Test
      PROVE  /\ t.intf \in Intf /\ t.dir \in {"TX", "RX"} /\ t.sweep \in BOOLEAN
             /\ t = [intf |-> t.intf, dir |-> t.dir, sweep |-> t.sweep]
  BY DEF Test
<1>2. \A t \in Plain : t \in Test /\ t.sweep = FALSE /\ t.intf \in Intf
  BY <1>1 DEF Plain
<1>3. \A t \in Test : t.sweep = FALSE => t \in Plain
  BY DEF Plain
<1>4. ASSUME NEW t \in Test PROVE PlainOf(t) \in Plain
  <2>1. /\ t.intf \in Intf /\ t.dir \in {"TX", "RX"} /\ t.sweep \in BOOLEAN
        /\ t = [intf |-> t.intf, dir |-> t.dir, sweep |-> t.sweep]
    BY <1>1
  <2>2. PlainOf(t) = [intf |-> t.intf, dir |-> t.dir, sweep |-> FALSE]
    <3>1. \A f \in BOOLEAN :
            [t EXCEPT !.sweep = f] = [intf |-> t.intf, dir |-> t.dir, sweep |-> f]
      BY <2>1
    <3>2. [t EXCEPT !.sweep = FALSE] = [intf |-> t.intf, dir |-> t.dir, sweep |-> FALSE]
      BY <3>1
    <3> QED
      BY <3>2 DEF PlainOf
  <2>3. PlainOf(t) \in Test
    BY <2>1, <2>2 DEF Test
  <2>4. PlainOf(t).sweep = FALSE
    BY <2>2
  <2> QED
    BY <2>3, <2>4 DEF Plain
<1>5. NoTest \notin Test
  BY DEF NoTest, Test, Intf
<1> QED
  BY <1>1, <1>2, <1>3, <1>4, <1>5

LEMMA BoardFacts ==
  /\ \A b \in Board : Other(b) \in Board
  /\ \A t : Receiver(t) \in Board /\ Transmitter(t) \in Board /\ FirstPrepared(t) \in Board
  BY DEF Board, Other, Receiver, Transmitter, FirstPrepared

LEMMA StatusType ==
  ASSUME NEW t \in Test \cup {NoTest}, NEW op \in Ops, NEW b \in Board
  PROVE  Status(t, op, b) \in Statuses
  BY DEF Status, Statuses, Ops

LEMMA ExecutionType ==
  ASSUME NEW h, NEW n, Rest(h, n)
  PROVE  Execution(h) \in Executions
<1>1. h.run \in 0 .. Bound["run"] /\ Len(h.tests) \in Nat
  BY LenProperties DEF Rest
<1> QED
  BY <1>1 DEF Execution, Executions

LEMMA CmdType ==
  ASSUME NEW e \in Executions
  PROVE  /\ \A t \in Plain, c \in {"PREPARE", "START", "STOP", "GET_RESULT"} :
              [cmd |-> c, test |-> t, ex |-> e] \in Cmd
         /\ \A c \in {"DEV_SEARCH", "FLASH_PARAM", "SPI_DISCONNECT"} :
              [cmd |-> c, test |-> NoTest, ex |-> e] \in Cmd
  BY DEF Cmd

LEMMA KeepRest ==
  ASSUME NEW h, NEW n, Rest(h, n), NEW g, IsTool(g), g.run = h.run,
         g.status \in Statuses, g.params \in [Intf -> Nat],
         g.listed \in [Board -> 0 .. ListMax], g.tests \in Seq(Result),
         g.out \in [Board -> Seq(Cmd)]
  PROVE  Rest(g, n)
  BY DEF Rest

LEMMA RestFields ==
  ASSUME NEW h, NEW n, Rest(h, n), NEW v, NEW w, NEW x,
         NEW st \in Statuses, NEW pa \in [Intf -> Nat], NEW li \in [Board -> 0 .. ListMax],
         NEW te \in Seq(Result), NEW ou \in [Board -> Seq(Cmd)]
  PROVE  /\ Rest([h EXCEPT !.q = v], n)
         /\ Rest([h EXCEPT !.box = v], n)
         /\ Rest([h EXCEPT !.q = v, !.box = w], n)
         /\ Rest([h EXCEPT !.status = st], n)
         /\ Rest([h EXCEPT !.out = ou], n)
         /\ Rest([h EXCEPT !.tests = te], n)
         /\ Rest([h EXCEPT !.dead = v], n)
         /\ Rest([h EXCEPT !.params = pa], n)
         /\ Rest([h EXCEPT !.calStatus = v], n)
         /\ Rest([h EXCEPT !.sweepTestRunning = v], n)
         /\ Rest([h EXCEPT !.params = pa, !.sweepTestRunning = w], n)
         /\ Rest([h EXCEPT !.testRunning = v, !.params = pa], n)
         /\ Rest([h EXCEPT !.q = v, !.testRunning = w, !.params = pa], n)
         /\ Rest([h EXCEPT !.up = v, !.listed = li], n)
         /\ Rest([h EXCEPT !.stopOn = v, !.runOn = w, !.boxOn = x], n)
         /\ Rest([h EXCEPT !.devicesUP = v, !.runOn = w, !.boxOn = x], n)
         /\ Rest([h EXCEPT !.testRunning = v, !.calStatus = w, !.planned = x], n)
         /\ Rest([h EXCEPT !.runOn = v, !.up = w, !.devicesUP = x, !.listed = li, !.out = ou], n)
         /\ Rest([h EXCEPT !.summary = v], n)
<1>0. /\ IsTool(h) /\ h.status \in Statuses /\ h.params \in [Intf -> Nat]
      /\ h.listed \in [Board -> 0 .. ListMax] /\ h.tests \in Seq(Result)
      /\ h.out \in [Board -> Seq(Cmd)]
  BY DEF Rest
<1>1. Rest([h EXCEPT !.q = v], n)
  BY <1>0, KeepRest DEF IsTool, Fields
<1>2. Rest([h EXCEPT !.box = v], n)
  BY <1>0, KeepRest DEF IsTool, Fields
<1>3. Rest([h EXCEPT !.q = v, !.box = w], n)
  BY <1>0, KeepRest DEF IsTool, Fields
<1>4. Rest([h EXCEPT !.status = st], n)
  BY <1>0, KeepRest DEF IsTool, Fields
<1>5. Rest([h EXCEPT !.out = ou], n)
  BY <1>0, KeepRest DEF IsTool, Fields
<1>6. Rest([h EXCEPT !.tests = te], n)
  BY <1>0, KeepRest DEF IsTool, Fields
<1>7. Rest([h EXCEPT !.dead = v], n)
  BY <1>0, KeepRest DEF IsTool, Fields
<1>8. Rest([h EXCEPT !.params = pa], n)
  BY <1>0, KeepRest DEF IsTool, Fields
<1>9. Rest([h EXCEPT !.calStatus = v], n)
  BY <1>0, KeepRest DEF IsTool, Fields
<1>10. Rest([h EXCEPT !.sweepTestRunning = v], n)
  BY <1>0, KeepRest DEF IsTool, Fields
<1>11. Rest([h EXCEPT !.params = pa, !.sweepTestRunning = w], n)
  BY <1>0, KeepRest DEF IsTool, Fields
<1>12. Rest([h EXCEPT !.testRunning = v, !.params = pa], n)
  BY <1>0, KeepRest DEF IsTool, Fields
<1>13. Rest([h EXCEPT !.q = v, !.testRunning = w, !.params = pa], n)
  BY <1>0, KeepRest DEF IsTool, Fields
<1>14. Rest([h EXCEPT !.up = v, !.listed = li], n)
  BY <1>0, KeepRest DEF IsTool, Fields
<1>15. Rest([h EXCEPT !.stopOn = v, !.runOn = w, !.boxOn = x], n)
  BY <1>0, KeepRest DEF IsTool, Fields
<1>16. Rest([h EXCEPT !.devicesUP = v, !.runOn = w, !.boxOn = x], n)
  BY <1>0, KeepRest DEF IsTool, Fields
<1>17. Rest([h EXCEPT !.testRunning = v, !.calStatus = w, !.planned = x], n)
  BY <1>0, KeepRest DEF IsTool, Fields
<1>18. Rest([h EXCEPT !.runOn = v, !.up = w, !.devicesUP = x, !.listed = li, !.out = ou], n)
  BY <1>0, KeepRest DEF IsTool, Fields
<1>19. Rest([h EXCEPT !.summary = v], n)
  BY <1>0, KeepRest DEF IsTool, Fields
<1> QED
  BY <1>1, <1>2, <1>3, <1>4, <1>5, <1>6, <1>7, <1>8, <1>9,
     <1>10, <1>11, <1>12, <1>13, <1>14, <1>15, <1>16, <1>17, <1>18, <1>19, Zenon

LEMMA QueueRest ==
  ASSUME NEW h, NEW n, Rest(h, n), NEW v, NEW w
  PROVE  /\ Rest([h EXCEPT !.q = v], n) /\ Rest([h EXCEPT !.box = v], n)
         /\ Rest([h EXCEPT !.q = v, !.box = w], n)
<1>1. /\ h.status \in Statuses /\ h.params \in [Intf -> Nat]
      /\ h.listed \in [Board -> 0 .. ListMax] /\ h.tests \in Seq(Result)
      /\ h.out \in [Board -> Seq(Cmd)]
  BY DEF Rest
<1> QED
  BY <1>1, RestFields

\* The boxes change the queue and the boxes only.
LEMMA SetBoxRest ==
  ASSUME NEW h, NEW n, Rest(h, n), NEW t, NEW v
  PROVE  Rest(SetBox(h, t, v), n)
<1>1. ASSUME NEW g, Rest(g, n) PROVE Rest(Checked(g, t), n)
  <2> DEFINE q1 == Append(g.q, t)
             q2 == RemoveFirst(Append(g.q, t), Twin(t))
             B  == g.box \ {Twin(t)}
  <2>1. \/ Checked(g, t) = g
        \/ Checked(g, t) = [g EXCEPT !.q = q1]
        \/ Checked(g, t) = [g EXCEPT !.q = q2, !.box = B]
    BY DEF Checked
  <2> HIDE DEF q1, q2, B
  <2>2. Rest([g EXCEPT !.q = q1], n) /\ Rest([g EXCEPT !.q = q2, !.box = B], n)
    BY <1>1, QueueRest
  <2> QED
    BY <1>1, <2>1, <2>2
<1>2. ASSUME NEW g, Rest(g, n) PROVE Rest(Unchecked(g, t), n)
  BY <1>2, QueueRest DEF Unchecked
<1> DEFINE B == h.box \cup {t}
           C == h.box \ {t}
           on == [h EXCEPT !.box = B]
           off == [h EXCEPT !.box = C]
<1>3. SetBox(h, t, v) \in {h, Checked(on, t), Unchecked(off, t)}
  BY DEF SetBox
<1> HIDE DEF B, C
<1>4. Rest(on, n) /\ Rest(off, n)
  BY QueueRest
<1> HIDE DEF on, off
<1>5. Rest(Checked(on, t), n) /\ Rest(Unchecked(off, t), n)
  BY <1>1, <1>2, <1>4
<1> QED
  BY <1>3, <1>5

LEMMA BoxRest ==
  ASSUME NEW h, NEW n, Rest(h, n), NEW t
  PROVE  Rest(Enable(h, t), n) /\ Rest(Disable(h, t), n) /\ Rest(Toggle(h, t), n)
<1>1. Rest(SetBox(h, t, FALSE), n) /\ Rest(SetBox(h, t, t \notin h.box), n)
  BY SetBoxRest
<1>2. Rest(SetBox(SetBox(h, t, FALSE), t, TRUE), n)
  BY <1>1, SetBoxRest
<1> QED
  BY <1>1, <1>2 DEF Enable, Disable, Toggle

LEMMA RefillRest ==
  ASSUME NEW h, NEW n, Rest(h, n), NEW cap
  PROVE  Rest(Refill(h, cap), n) /\ Rest(EnableTests2(h, cap), n)
<1> DEFINE i == IF cap = "PLC" THEN "PLC" ELSE "RF"
           q == <<SweepTest(i, "TX"), SweepTest(i, "RX")>>
           B == h.box \cup ToSet(q)
<1>1. Refill(h, cap) = [h EXCEPT !.q = q, !.box = B]
  BY DEF Refill
<1>2. EnableTests2(h, cap) =
        SetBox(SetBox(h, SweepTest(i, "TX"), TRUE), SweepTest(i, "RX"), TRUE)
  BY DEF EnableTests2
<1> HIDE DEF i, q, B
<1>3. Rest([h EXCEPT !.q = q, !.box = B], n)
  BY QueueRest
<1>4. Rest(SetBox(h, SweepTest(i, "TX"), TRUE), n)
  BY SetBoxRest
<1>5. Rest(SetBox(SetBox(h, SweepTest(i, "TX"), TRUE), SweepTest(i, "RX"), TRUE), n)
  BY <1>4, SetBoxRest
<1> QED
  BY <1>1, <1>2, <1>3, <1>5

LEMMA ForSerialRest ==
  ASSUME NEW h, NEW n, Rest(h, n), NEW cap, NEW mod
  PROVE  Rest(ForSerial(h, cap, mod), n)
<1> DEFINE on(d) == [PlainTest("PLC", d) EXCEPT !.sweep = mod]
           off(d) == [PlainTest("PLC", d) EXCEPT !.sweep = ~mod]
           g1 == Enable(h, on("RX"))
           g2 == Enable(g1, on("TX"))
           g3 == Disable(g2, off("RX"))
           g4 == Disable(g3, off("TX"))
<1>1. ForSerial(h, cap, mod) = IF cap # "RF_PLC" THEN h ELSE g4
  BY DEF ForSerial
<1> HIDE DEF on, off
<1>2. Rest(g1, n)
  BY BoxRest
<1> HIDE DEF g1
<1>3. Rest(g2, n)
  BY <1>2, BoxRest
<1> HIDE DEF g2
<1>4. Rest(g3, n)
  BY <1>3, BoxRest
<1> HIDE DEF g3
<1>5. Rest(g4, n)
  BY <1>4, BoxRest
<1> HIDE DEF g4
<1> QED
  BY <1>1, <1>5, Zenon

LEMMA NoSendsType == NoSends \in [Board -> Seq(Cmd)]
  BY EmptySeq DEF NoSends

LEMMA UIRest ==
  ASSUME NEW h, NEW n, Rest(h, n)
  PROVE  /\ Rest(setStatusvarNull(h), n) /\ Rest(disableUI(h), n) /\ Rest(enableUI(h), n)
         /\ Rest(scan(h), n) /\ Rest(Crash(h), n)
<1>1. /\ h.status \in Statuses /\ h.params \in [Intf -> Nat]
      /\ h.listed \in [Board -> 0 .. ListMax] /\ h.tests \in Seq(Result)
      /\ h.out \in [Board -> Seq(Cmd)]
  BY DEF Rest
<1>2. NullStatus \in Statuses
  BY StatusType DEF NullStatus, Ops, Board
<1>3. Rest(setStatusvarNull(h), n)
  BY <1>1, <1>2, RestFields DEF setStatusvarNull
<1>4. Rest(disableUI(h), n) /\ Rest(Crash(h), n)
  BY <1>1, RestFields DEF disableUI, Crash
<1>5. Rest(scan(h), n)
  <2> DEFINE li == [b \in Board |-> 0]
             m == [cmd |-> "DEV_SEARCH", test |-> NoTest, ex |-> Execution(h)]
             ou == [b \in Board |-> Append(h.out[b], m)]
  <2>1. li \in [Board -> 0 .. ListMax]
    BY ToolAssumption
  <2>2. m \in Cmd
    BY ExecutionType, CmdType
  <2>3. scan(h) = [h EXCEPT !.runOn = FALSE, !.up = {}, !.devicesUP = FALSE,
                            !.listed = li, !.out = ou]
    BY DEF scan
  <2> HIDE DEF m
  <2>4. ou \in [Board -> Seq(Cmd)]
    BY <1>1, <2>2, AppendProperties
  <2> HIDE DEF li, ou
  <2> DEFINE g == scan(h)
  <2>5. IsTool(h)
    BY DEF Rest
  <2>6. /\ IsTool(g) /\ g.run = h.run /\ g.status = h.status /\ g.params = h.params
        /\ g.listed = li /\ g.tests = h.tests /\ g.out = ou
    BY <2>3, <2>5 DEF IsTool, Fields
  <2> HIDE DEF g
  <2>7. Rest(g, n)
    BY <1>1, <2>1, <2>4, <2>6, KeepRest
  <2> QED
    BY <2>7 DEF g
<1>6. Rest(enableUI(h), n)
  <2> DEFINE g0 == [h EXCEPT !.stopOn = FALSE, !.runOn = TRUE, !.boxOn = Test]
             g1 == Disable(g0, PlainTest("RF", "TX"))
             g2 == Disable(g1, PlainTest("RF", "RX"))
             g3 == Disable(g2, PlainTest("PLC", "TX"))
             g4 == Disable(g3, PlainTest("PLC", "RX"))
  <2>1. enableUI(h) = g4
    BY DEF enableUI, UncheckPlain
  <2>2. Rest(g0, n)
    BY <1>1, RestFields
  <2> HIDE DEF g0
  <2>3. Rest(g1, n)
    BY <2>2, BoxRest
  <2> HIDE DEF g1
  <2>4. Rest(g2, n)
    BY <2>3, BoxRest
  <2> HIDE DEF g2
  <2>5. Rest(g3, n)
    BY <2>4, BoxRest
  <2> HIDE DEF g3
  <2>6. Rest(g4, n)
    BY <2>5, BoxRest
  <2> QED
    BY <2>1, <2>6
<1> QED
  BY <1>3, <1>4, <1>5, <1>6

LEMMA SendRest ==
  ASSUME NEW h, NEW n, Rest(h, n), NEW b \in Board, NEW cmd, NEW t,
         [cmd |-> cmd, test |-> t, ex |-> Execution(h)] \in Cmd
  PROVE  Rest(Send(h, b, cmd, t), n)
<1> DEFINE m == [cmd |-> cmd, test |-> t, ex |-> Execution(h)]
           s == [i \in 1 .. h.listed[b] |-> m]
           o == [h.out EXCEPT ![b] = h.out[b] \o s]
<1>1. /\ h.status \in Statuses /\ h.params \in [Intf -> Nat]
      /\ h.listed \in [Board -> 0 .. ListMax] /\ h.tests \in Seq(Result)
      /\ h.out \in [Board -> Seq(Cmd)]
  BY DEF Rest
<1>2. Send(h, b, cmd, t) = IF FewClients(h) THEN scan(h) ELSE [h EXCEPT !.out = o]
  BY DEF Send
<1>3. m \in Cmd
  OBVIOUS
<1> HIDE DEF m
<1>4. h.listed[b] \in Nat
  BY <1>1, ToolAssumption
<1>5. s \in Seq(Cmd)
  BY <1>3, <1>4, IsASeq
<1> HIDE DEF s
<1>6. h.out[b] \o s \in Seq(Cmd)
  BY <1>1, <1>5, ConcatProperties
<1>7. o \in [Board -> Seq(Cmd)]
  BY <1>1, <1>6
<1> HIDE DEF o
<1>8. Rest([h EXCEPT !.out = o], n)
  BY <1>1, <1>7, RestFields
<1>9. Rest(scan(h), n)
  BY UIRest
<1> QED
  BY <1>2, <1>8, <1>9, Zenon

LEMMA SendTypes ==
  ASSUME NEW h, NEW n, Rest(h, n), NEW b \in Board
  PROVE  /\ \A t \in Plain, c \in {"PREPARE", "START", "STOP", "GET_RESULT"} :
              Rest(Send(h, b, c, t), n)
         /\ \A c \in {"FLASH_PARAM", "SPI_DISCONNECT"} : Rest(Send(h, b, c, NoTest), n)
<1>1. Execution(h) \in Executions
  BY ExecutionType
<1>2. ASSUME NEW t \in Plain, NEW c \in {"PREPARE", "START", "STOP", "GET_RESULT"}
      PROVE  Rest(Send(h, b, c, t), n)
  <2>1. [cmd |-> c, test |-> t, ex |-> Execution(h)] \in Cmd
    BY <1>1, CmdType
  <2> QED
    BY <2>1, SendRest
<1>3. ASSUME NEW c \in {"FLASH_PARAM", "SPI_DISCONNECT"}
      PROVE  Rest(Send(h, b, c, NoTest), n)
  <2>1. [cmd |-> c, test |-> NoTest, ex |-> Execution(h)] \in Cmd
    BY <1>1, CmdType
  <2> QED
    BY <2>1, SendRest
<1> QED
  BY <1>2, <1>3

LEMMA BeginTestRest ==
  ASSUME NEW h, NEW n, Rest(h, n), NEW t \in Test
  PROVE  Rest(BeginTest(h, t), n)
<1> DEFINE p == [h.params EXCEPT ![t.intf] = @ + SweepLen[t.intf]]
           k == [h EXCEPT !.params = p, !.sweepTestRunning = TRUE]
           g == IF t.sweep THEN k ELSE h
<1>1. BeginTest(h, t) = Send(g, FirstPrepared(t), "PREPARE", PlainOf(t))
  BY DEF BeginTest
<1>2. /\ h.status \in Statuses /\ h.params \in [Intf -> Nat]
      /\ h.listed \in [Board -> 0 .. ListMax] /\ h.tests \in Seq(Result)
      /\ h.out \in [Board -> Seq(Cmd)]
  BY DEF Rest
<1>3. t.intf \in Intf /\ PlainOf(t) \in Plain /\ FirstPrepared(t) \in Board
  BY PlainFacts, BoardFacts
<1>4. SweepLen[t.intf] \in Nat /\ h.params[t.intf] \in Nat
  BY <1>2, <1>3, ToolAssumption
<1>5. p \in [Intf -> Nat]
  <2> DEFINE y == h.params[t.intf] + SweepLen[t.intf]
  <2>1. p = [h.params EXCEPT ![t.intf] = y] /\ y \in Nat
    BY <1>4
  <2> HIDE DEF p, y
  <2> QED
    BY <1>2, <1>3, <2>1
<1> HIDE DEF p
<1>6. Rest(k, n)
  BY <1>2, <1>5, RestFields
<1> HIDE DEF k
<1>7. Rest(g, n)
  BY <1>6
<1> HIDE DEF g
<1> QED
  BY <1>1, <1>3, <1>7, SendTypes

LEMMA HeadTest ==
  ASSUME NEW h, Sound(h), h.q # <<>>
  PROVE  Head(h.q) \in Test
  BY HeadTailProperties DEF Sound

LEMMA StepRest ==
  ASSUME NEW h, NEW n, Rest(h, n), Sound(h), NEW t \in Plain, NEW op
  PROVE  Rest(TestStep(h, t, op), n)
<1>1. h.status.at \in Board /\ Receiver(t) \in Board
  BY BoardFacts DEF Rest, Statuses
<1>2. ASSUME NEW b \in Board, NEW c \in {"PREPARE", "START", "STOP", "GET_RESULT"}
      PROVE  Rest(Send(h, b, c, t), n)
  BY <1>2, SendTypes
<1>3. h.q # <<>> => Rest(BeginTest(h, Head(h.q)), n)
  BY HeadTest, BeginTestRest
<1>4. Rest(Refill(h, Capability), n)
  BY RefillRest
<1>5. CASE op \in {"PREPARE", "START"}
  BY <1>1, <1>2, <1>5 DEF TestStep
<1>6. CASE op \in {"STOP", "GET_RESULT"}
  BY <1>1, <1>2, <1>6 DEF TestStep
<1>7. CASE op = "GET_RESULT_CNF"
  BY <1>3, <1>4, <1>7 DEF TestStep
<1>8. CASE op \notin {"PREPARE", "START", "STOP", "GET_RESULT", "GET_RESULT_CNF"}
  BY <1>8 DEF TestStep
<1> QED
  BY <1>5, <1>6, <1>7, <1>8

LEMMA ExecuteRest ==
  ASSUME NEW h, NEW n, Rest(h, n), Sound(h)
  PROVE  /\ Rest(executeTests(h), n)
         /\ \A t \in Test, op \in Ops, b \in Board : Rest(Continue(h, t, op, b), n)
<1>1. Rest(executeTests(h), n)
  <2> DEFINE t == h.status.test
  <2>1. t \in Test \cup {NoTest}
    BY DEF Rest, Statuses
  <2> HIDE DEF t
  <2>2. CASE t = NoTest
    BY <2>2 DEF executeTests, t
  <2>3. CASE t \in Test /\ t.sweep
    <3>1. Rest(BeginTest(h, t), n)
      BY <2>3, BeginTestRest
    <3> QED
      BY <2>3, <3>1, PlainFacts DEF executeTests, t
  <2>4. CASE t \in Test /\ ~t.sweep
    <3>1. t.sweep = FALSE
      BY <2>4, PlainFacts
    <3>2. t \in Plain
      BY <2>4, <3>1, PlainFacts
    <3>3. Rest(TestStep(h, t, h.status.op), n)
      BY <3>2, StepRest
    <3> QED
      BY <2>4, <3>3, PlainFacts DEF executeTests, t
  <2> QED
    BY <2>1, <2>2, <2>3, <2>4
<1>2. ASSUME NEW t \in Test, NEW op \in Ops, NEW b \in Board
      PROVE  Rest(Continue(h, t, op, b), n)
  <2> DEFINE p == PlainOf(t)
             s == Status(p, op, b)
             g == [h EXCEPT !.status = s]
  <2>1. Continue(h, t, op, b) = TestStep(g, p, op)
    BY DEF Continue
  <2>2. p \in Plain /\ p \in Test \cup {NoTest}
    BY PlainFacts
  <2> HIDE DEF p
  <2>3. s \in Statuses
    BY <2>2, StatusType
  <2> HIDE DEF s
  <2>4. /\ h.status \in Statuses /\ h.params \in [Intf -> Nat]
        /\ h.listed \in [Board -> 0 .. ListMax] /\ h.tests \in Seq(Result)
        /\ h.out \in [Board -> Seq(Cmd)]
    BY DEF Rest
  <2>5. Rest(g, n) /\ Sound(g)
    BY <2>3, <2>4, RestFields, KeepFields
  <2> HIDE DEF g
  <2> QED
    BY <2>1, <2>2, <2>5, StepRest
<1> QED
  BY <1>1, <1>2

LEMMA FlashRest ==
  ASSUME NEW h, NEW n, Rest(h, n)
  PROVE  Rest(flashParams(h), n) /\ Rest(TestsDone(h), n)
<1>1. ASSUME NEW g, Rest(g, n) PROVE Rest(flashParams(g), n)
  <2>1. Rest(Send(g, "DUT", "FLASH_PARAM", NoTest), n)
    BY <1>1, SendTypes DEF Board
  <2>2. Rest(getSelectedClientList(g), n)
    BY <1>1, UIRest DEF getSelectedClientList
  <2> QED
    BY <1>1, <2>1, <2>2 DEF flashParams
<1> DEFINE e == enableUI(h)
<1>2. Rest(e, n)
  BY UIRest
<1> HIDE DEF e
<1> DEFINE d == [e EXCEPT !.summary = "done"]
<1>3. /\ e.status \in Statuses /\ e.params \in [Intf -> Nat]
      /\ e.listed \in [Board -> 0 .. ListMax] /\ e.tests \in Seq(Result)
      /\ e.out \in [Board -> Seq(Cmd)]
  BY <1>2 DEF Rest
<1>4. Rest(d, n)
  BY <1>2, <1>3, RestFields
<1>5. TestsDone(h) = IF h.q = <<>> THEN flashParams(d) ELSE h
  BY DEF TestsDone, e
<1> HIDE DEF d
<1> QED
  BY <1>1, <1>4, <1>5

LEMMA FinishTestRest ==
  ASSUME NEW h, NEW n, Rest(h, n), Sound(h), h.q # <<>>
  PROVE  Rest(FinishTest(h), n)
<1> DEFINE t == Head(h.q)
           y == IF t.sweep THEN 0 ELSE h.params[t.intf]
           p == [h.params EXCEPT ![t.intf] = y]
           k == [h EXCEPT !.q = Tail(h.q), !.testRunning = FALSE, !.params = p]
           g == TestsDone(k)
           s == IF t.sweep THEN FALSE ELSE g.sweepTestRunning
           e == [g EXCEPT !.sweepTestRunning = s]
<1>1. FinishTest(h) = Continue(e, t, "GET_RESULT_CNF", "DUT")
  BY DEF FinishTest
<1>2. t \in Test /\ t.intf \in Intf
  BY HeadTest, PlainFacts
<1> HIDE DEF t
<1>3. /\ h.status \in Statuses /\ h.params \in [Intf -> Nat]
      /\ h.listed \in [Board -> 0 .. ListMax] /\ h.tests \in Seq(Result)
      /\ h.out \in [Board -> Seq(Cmd)]
  BY DEF Rest
<1>4. y \in Nat
  BY <1>2, <1>3
<1> HIDE DEF y
<1>5. p \in [Intf -> Nat]
  BY <1>2, <1>3, <1>4
<1> HIDE DEF p
<1>6. Rest(k, n) /\ Sound(k)
  BY <1>3, <1>5, RestFields, TailSound
<1> HIDE DEF k
<1>7. Rest(g, n) /\ Sound(g)
  BY <1>6, FlashRest, FlashSound
<1> HIDE DEF g, s
<1>8. /\ g.status \in Statuses /\ g.params \in [Intf -> Nat]
      /\ g.listed \in [Board -> 0 .. ListMax] /\ g.tests \in Seq(Result)
      /\ g.out \in [Board -> Seq(Cmd)]
  BY <1>7 DEF Rest
<1>9. Rest(e, n) /\ Sound(e)
  BY <1>7, <1>8, RestFields, KeepFields
<1> HIDE DEF e
<1> QED
  BY <1>1, <1>2, <1>9, ExecuteRest DEF Ops, Board

LEMMA DeviceUpRest ==
  ASSUME NEW h, NEW n, Rest(h, n), NEW b \in Board, NEW m, h.listed[b] < ListMax
  PROVE  Rest(DeviceUp(h, b, m), n)
<1>0. /\ h.status \in Statuses /\ h.params \in [Intf -> Nat]
      /\ h.listed \in [Board -> 0 .. ListMax] /\ h.tests \in Seq(Result)
      /\ h.out \in [Board -> Seq(Cmd)]
  BY DEF Rest
<1>1. Rest(incorrectDevUpEvent(h), n)
  <2> DEFINE g == enableUI(setStatusvarNull(h))
             p == [i \in Intf |-> 0]
             k == [g EXCEPT !.testRunning = FALSE, !.sweepTestRunning = FALSE,
                            !.q = <<>>, !.box = {}, !.params = p, !.runOn = FALSE]
  <2>1. incorrectDevUpEvent(h) = k
    BY DEF incorrectDevUpEvent
  <2>2. Rest(setStatusvarNull(h), n)
    BY UIRest
  <2>3. Rest(g, n)
    BY <2>2, UIRest
  <2>4. p \in [Intf -> Nat]
    OBVIOUS
  <2> HIDE DEF g, p
  <2>5. /\ IsTool(g) /\ g.status \in Statuses
        /\ g.listed \in [Board -> 0 .. ListMax] /\ g.tests \in Seq(Result)
        /\ g.out \in [Board -> Seq(Cmd)]
    BY <2>3 DEF Rest
  <2>6. /\ IsTool(k) /\ k.run = g.run /\ k.status = g.status /\ k.params = p
        /\ k.listed = g.listed /\ k.tests = g.tests /\ k.out = g.out
    BY <2>5 DEF IsTool, Fields
  <2> HIDE DEF k
  <2>7. Rest(k, n)
    BY <2>3, <2>4, <2>5, <2>6, KeepRest
  <2> QED
    BY <2>1, <2>7
<1>2. Rest(isDeviceUP(h, b), n)
  <2> DEFINE u == h.up \cup {b}
             y == h.listed[b] + 1
             l == [h.listed EXCEPT ![b] = y]
             g == [h EXCEPT !.up = u, !.listed = l]
             x == g.boxOn \cup TestsOf(Capability)
             k == [g EXCEPT !.devicesUP = TRUE, !.runOn = TRUE, !.boxOn = x]
  <2>1. isDeviceUP(h, b) = IF g.up = Board THEN EnableTests2(k, Capability) ELSE g
    BY DEF isDeviceUP
  <2>2. y \in 0 .. ListMax
    BY <1>0, ToolAssumption
  <2> HIDE DEF u, y
  <2>3. l \in [Board -> 0 .. ListMax]
    BY <1>0, <2>2
  <2> HIDE DEF l
  <2>4. Rest(g, n)
    BY <1>0, <2>3, RestFields
  <2> HIDE DEF g, x
  <2>5. /\ g.status \in Statuses /\ g.params \in [Intf -> Nat]
        /\ g.listed \in [Board -> 0 .. ListMax] /\ g.tests \in Seq(Result)
        /\ g.out \in [Board -> Seq(Cmd)]
    BY <2>4 DEF Rest
  <2>6. Rest(k, n)
    BY <2>4, <2>5, RestFields
  <2> HIDE DEF k
  <2>7. Rest(EnableTests2(k, Capability), n)
    BY <2>6, RefillRest
  <2> QED
    BY <2>1, <2>4, <2>7, Zenon
<1> QED
  BY <1>1, <1>2 DEF DeviceUp

LEMMA StopRest ==
  ASSUME NEW h, NEW n, Rest(h, n), Sound(h), NEW t \in Test \cup {NoTest}
  PROVE  Rest(executeTests(issueCmd_StopTest(h, t)), n)
<1> DEFINE u == IF t = NoTest THEN h.status.test ELSE PlainOf(t)
           s == Status(u, "STOP", h.status.at)
           g == [h EXCEPT !.status = s]
<1>0. /\ h.status \in Statuses /\ h.params \in [Intf -> Nat]
      /\ h.listed \in [Board -> 0 .. ListMax] /\ h.tests \in Seq(Result)
      /\ h.out \in [Board -> Seq(Cmd)]
  BY DEF Rest
<1>1. issueCmd_StopTest(h, t) = g
  BY DEF issueCmd_StopTest
<1>2. h.status.test \in Test \cup {NoTest} /\ h.status.at \in Board
  BY <1>0 DEF Statuses
<1>3. u \in Test \cup {NoTest}
  BY <1>2, PlainFacts
<1> HIDE DEF u
<1>4. s \in Statuses
  BY <1>2, <1>3, StatusType DEF Ops
<1> HIDE DEF s
<1>5. Rest(g, n) /\ Sound(g)
  BY <1>0, <1>4, RestFields, KeepFields
<1> HIDE DEF g
<1> QED
  BY <1>1, <1>5, ExecuteRest

LEMMA PrepareCnfRest ==
  ASSUME NEW h, NEW n, Rest(h, n), Sound(h), NEW b \in Board, NEW m
  PROVE  Rest(PrepareCnf(h, b, m), n)
<1>0. /\ h.status \in Statuses /\ h.params \in [Intf -> Nat]
      /\ h.listed \in [Board -> 0 .. ListMax] /\ h.tests \in Seq(Result)
      /\ h.out \in [Board -> Seq(Cmd)]
  BY DEF Rest
<1>1. ASSUME h.q # <<>> PROVE Rest(PrepareNext(h, b), n)
  <2>1. Head(h.q) \in Test /\ Other(b) \in Board
    BY <1>1, HeadTest, BoardFacts
  <2>2. /\ Rest(Continue(h, Head(h.q), "PREPARE", Other(b)), n)
        /\ Rest(Continue(h, Head(h.q), "START", Other(b)), n)
    BY <2>1, ExecuteRest DEF Ops
  <2> QED
    BY <2>2 DEF PrepareNext
<1>2. Rest(DutCalFailed(h), n)
  <2> DEFINE k == [h EXCEPT !.calStatus = FALSE]
             k1 == Disable(k, SweepTest("RF", "RX"))
             g == Disable(k1, SweepTest("RF", "TX"))
  <2>1. SweepTest("RF", "RX") \in Test /\ SweepTest("RF", "TX") \in Test
    BY PlainSweepTests DEF Intf
  <2>2. Sound(k) /\ Rest(k, n)
    BY <1>0, KeepFields, RestFields
  <2> HIDE DEF k
  <2>3. Sound(k1) /\ Rest(k1, n)
    BY <2>1, <2>2, EnableSound, BoxRest
  <2> HIDE DEF k1
  <2>4. Sound(g) /\ Rest(g, n)
    BY <2>1, <2>3, EnableSound, BoxRest
  <2>5. DutCalFailed(h) =
          IF g.q = <<>> THEN setStatusvarNull(g)
          ELSE IF Head(g.q).intf = "RF" THEN executeTests(g)
          ELSE IF Head(g.q).dir = "TX" THEN Continue(g, Head(g.q), "START", "DUT")
          ELSE Continue(g, Head(g.q), "PREPARE", "DUT")
    BY DEF DutCalFailed, k, k1
  <2> HIDE DEF g
  <2>6. Rest(setStatusvarNull(g), n) /\ Rest(executeTests(g), n)
    BY <2>4, UIRest, ExecuteRest
  <2>7. g.q # <<>> => /\ Rest(Continue(g, Head(g.q), "START", "DUT"), n)
                      /\ Rest(Continue(g, Head(g.q), "PREPARE", "DUT"), n)
    BY <2>4, HeadTest, ExecuteRest DEF Ops, Board
  <2> QED
    BY <2>5, <2>6, <2>7, Zenon
<1>3. Rest(RefCalFailed(h), n)
  <2> DEFINE g == setStatusvarNull(enableUI(h))
             p == [i \in Intf |-> 0]
  <2>1. Rest(enableUI(h), n)
    BY UIRest
  <2>2. Rest(g, n)
    BY <2>1, UIRest
  <2>3. RefCalFailed(h) = [g EXCEPT !.testRunning = FALSE, !.params = p]
    BY DEF RefCalFailed
  <2>4. p \in [Intf -> Nat]
    OBVIOUS
  <2> HIDE DEF g, p
  <2>5. /\ g.status \in Statuses /\ g.params \in [Intf -> Nat]
        /\ g.listed \in [Board -> 0 .. ListMax] /\ g.tests \in Seq(Result)
        /\ g.out \in [Board -> Seq(Cmd)]
    BY <2>2 DEF Rest
  <2>6. Rest([g EXCEPT !.testRunning = FALSE, !.params = p], n)
    BY <2>2, <2>4, <2>5, RestFields
  <2> QED
    BY <2>3, <2>6
<1>4. Rest(setStatusvarNull(h), n)
  BY UIRest
<1>5. CASE m.rsp = "SUCCESS"
  BY <1>1, <1>4, <1>5 DEF PrepareCnf
<1>6. CASE m.rsp = "CAL_FAILED"
  BY <1>2, <1>3, <1>4, <1>6 DEF PrepareCnf
<1>7. CASE m.rsp # "SUCCESS" /\ m.rsp # "CAL_FAILED"
  BY <1>4, <1>7 DEF PrepareCnf
<1> QED
  BY <1>5, <1>6, <1>7

LEMMA GetResultCnfRest ==
  ASSUME NEW h, NEW n, Rest(h, n), Sound(h), NEW b, NEW m \in FrameType, NEW ok \in BOOLEAN
  PROVE  Rest(GetResultCnf(h, b, m, ok), n)
<1>0. /\ h.status \in Statuses /\ h.params \in [Intf -> Nat]
      /\ h.listed \in [Board -> 0 .. ListMax] /\ h.tests \in Seq(Result)
      /\ h.out \in [Board -> Seq(Cmd)]
  BY DEF Rest
<1> DEFINE l == getSelectedClientList(h)
<1>3. Sound(l) /\ l.q = h.q /\ l.params = h.params /\ l.tests = h.tests
  BY ListSound
<1>4. Rest(l, n)
  BY UIRest DEF getSelectedClientList
<1>5. /\ l.status \in Statuses /\ l.params \in [Intf -> Nat]
      /\ l.listed \in [Board -> 0 .. ListMax] /\ l.tests \in Seq(Result)
      /\ l.out \in [Board -> Seq(Cmd)]
  BY <1>4 DEF Rest
<1>1. CASE h.q = <<>>
  BY <1>1, <1>4, UIRest DEF GetResultCnf
<1>2. CASE h.q # <<>>
  <2> DEFINE t == Head(h.q)
             x == [test |-> t, ok |-> ok, from |-> m.stats.from, ex |-> Execution(h)]
             r == Append(h.tests, x)
             g == [l EXCEPT !.tests = r]
             y == g.params[t.intf] - 1
             p == [g.params EXCEPT ![t.intf] = y]
             k == [g EXCEPT !.params = p]
             c == Continue(k, t, "PREPARE", FirstPrepared(t))
  <2>1. GetResultCnf(h, b, m, ok) =
          IF ~t.sweep THEN FinishTest(g)
          ELSE IF h.params[t.intf] = 0 THEN Crash(g)
          ELSE IF h.params[t.intf] = 1 THEN FinishTest(g)
          ELSE c
    BY <1>2, <1>3 DEF GetResultCnf, Record
  <2>2. t \in Test /\ t.intf \in Intf
    BY <1>2, HeadTest, PlainFacts
  <2> HIDE DEF t
  <2>3. m.stats.from \in SUBSET Executions
    BY DEF FrameType, Stats
  <2>4. x \in Result
    BY <2>2, <2>3, ExecutionType DEF Result
  <2> HIDE DEF x
  <2>5. r \in Seq(Result)
    BY <1>0, <2>4, AppendProperties
  <2> HIDE DEF r, l
  <2>6. Sound(g) /\ Rest(g, n)
    BY <1>3, <1>4, <1>5, <2>5, KeepFields, RestFields
  <2>7. g.q = h.q /\ g.params = h.params
    BY <1>3 DEF Sound, IsTool, Fields
  <2> HIDE DEF g
  <2>8. Rest(FinishTest(g), n) /\ Rest(Crash(g), n)
    BY <1>2, <2>6, <2>7, FinishTestRest, UIRest
  <2>9. ASSUME h.params[t.intf] # 0 PROVE Rest(c, n)
    <3>1. y \in Nat
      BY <1>0, <2>2, <2>7, <2>9
    <3> HIDE DEF y
    <3>2. p \in [Intf -> Nat]
      BY <1>0, <2>2, <2>7, <3>1
    <3> HIDE DEF p
    <3>3. /\ g.status \in Statuses /\ g.params \in [Intf -> Nat]
          /\ g.listed \in [Board -> 0 .. ListMax] /\ g.tests \in Seq(Result)
          /\ g.out \in [Board -> Seq(Cmd)]
      BY <2>6 DEF Rest
    <3>4. Rest(k, n) /\ Sound(k)
      BY <2>6, <3>2, <3>3, RestFields, KeepFields
    <3> HIDE DEF k
    <3>5. FirstPrepared(t) \in Board
      BY BoardFacts
    <3> QED
      BY <2>2, <3>4, <3>5, ExecuteRest DEF Ops
  <2> HIDE DEF c
  <2> QED
    BY <2>1, <2>8, <2>9, Zenon
<1> QED
  BY <1>1, <1>2

LEMMA HandledRest ==
  ASSUME NEW h, NEW n, Rest(h, n), Sound(h), NEW b \in Board, h.listed[b] < ListMax,
         NEW m \in FrameType, NEW ok \in BOOLEAN
  PROVE  Rest(Handled(h, b, m, ok), n)
<1>1. /\ Rest(DeviceUp(h, b, m), n) /\ Rest(PrepareCnf(h, b, m), n)
      /\ Rest(GetResultCnf(h, b, m, ok), n)
  BY DeviceUpRest, PrepareCnfRest, GetResultCnfRest
<1>2. Rest(setStatusvarNull(h), n) /\ Rest(Crash(h), n)
  BY UIRest
<1>3. ASSUME h.q # <<>>
      PROVE  /\ Rest(executeTests(issueCmd_StopTest(h, Head(h.q))), n)
             /\ Rest(Continue(h, Head(h.q), "START", Transmitter(Head(h.q))), n)
             /\ Rest(Continue(h, Head(h.q), "GET_RESULT", "DUT"), n)
  <2>1. Head(h.q) \in Test /\ Transmitter(Head(h.q)) \in Board /\ "DUT" \in Board
    BY <1>3, HeadTest, BoardFacts DEF Board
  <2> QED
    BY <2>1, StopRest, ExecuteRest DEF Ops
<1>4. Rest(TestDone(h, b, m), n)
  BY <1>2, <1>3 DEF TestDone
<1>5. Rest(StartCnf(h, b, m), n) /\ Rest(StopCnf(h, b, m), n)
  BY <1>2, <1>3 DEF StartCnf, StopCnf
<1>6. Rest(FlashParamCnf(h, b, m), n)
  BY <1>2, SendTypes DEF FlashParamCnf, Board
<1>7. CASE m.id \in {"DEVICE_UP", "TEST_DONE", "PREPARE_CNF", "START_CNF"}
  BY <1>1, <1>4, <1>5, <1>7 DEF Handled
<1>8. CASE m.id \in {"STOP_CNF", "GET_RESULT_CNF", "FLASH_PARAM_CNF"}
  BY <1>1, <1>5, <1>6, <1>8 DEF Handled
<1> QED
  BY <1>7, <1>8 DEF FrameType

\* What a handler sent is appended to the streams.
LEMMA FinishRest ==
  ASSUME NEW h, NEW n, Rest(h, n), Finish(h), down \in [Board -> Seq(Cmd)]
  PROVE  Rest(tool', n) /\ down' \in [Board -> Seq(Cmd)]
<1>0. /\ h.status \in Statuses /\ h.params \in [Intf -> Nat]
      /\ h.listed \in [Board -> 0 .. ListMax] /\ h.tests \in Seq(Result)
      /\ h.out \in [Board -> Seq(Cmd)]
  BY DEF Rest
<1>1. Rest([h EXCEPT !.out = NoSends], n)
  BY <1>0, NoSendsType, RestFields
<1>2. tool' = [h EXCEPT !.out = NoSends] /\ down' = [b \in Board |-> down[b] \o h.out[b]]
  BY DEF Finish
<1>3. \A b \in Board : down[b] \o h.out[b] \in Seq(Cmd)
  BY <1>0, ConcatProperties
<1> QED
  BY <1>1, <1>2, <1>3

LEMMA RunRest ==
  ASSUME NEW n, Rest(tool, n), Sound(tool), n < Bound["run"], NEW mod \in Modules,
         RunTest_Click(mod), down \in [Board -> Seq(Cmd)]
  PROVE  Rest(tool', n + 1) /\ down' \in [Board -> Seq(Cmd)]
<1> DEFINE r == [tool EXCEPT !.tests = <<>>, !.summary = "new", !.run = @ + 1]
           h == ForSerial(setStatusvarNull(r), Capability, mod)
           t == Head(h.q)
           x == ToSet(h.q)
           k == [h EXCEPT !.testRunning = TRUE, !.calStatus = TRUE, !.planned = x]
           g == disableUI(k)
           s == Status(t, "PREPARE", FirstPrepared(t))
           e == [g EXCEPT !.status = s]
           f == IF FewClients(h) THEN scan(scan(h)) ELSE IF h.q = <<>> THEN h ELSE executeTests(e)
<1>1. Finish(f)
  BY DEF RunTest_Click
<1>2. mod \in BOOLEAN
  BY ToolAssumption
<1>3. Rest(r, n + 1) /\ Sound(r)
  <2>1. /\ IsTool(tool) /\ tool.run = n /\ n \in 0 .. Bound["run"]
        /\ tool.status \in Statuses /\ tool.params \in [Intf -> Nat]
        /\ tool.listed \in [Board -> 0 .. ListMax] /\ tool.out \in [Board -> Seq(Cmd)]
    BY DEF Rest
  <2>2. /\ IsTool(r) /\ r.run = tool.run + 1 /\ r.status = tool.status /\ r.params = tool.params
        /\ r.listed = tool.listed /\ r.out = tool.out /\ r.tests = <<>>
    BY <2>1 DEF IsTool, Fields
  <2>3. Sound(r)
    BY KeepFields
  <2> HIDE DEF r
  <2>4. <<>> \in Seq(Result)
    BY EmptySeq
  <2>5. Bound["run"] \in Nat
    BY MaxAssumption
  <2>6. n + 1 \in 0 .. Bound["run"]
    BY <2>1, <2>5
  <2> QED
    BY <2>1, <2>2, <2>3, <2>4, <2>6 DEF Rest
<1> HIDE DEF r
<1>4. Rest(setStatusvarNull(r), n + 1) /\ Sound(setStatusvarNull(r))
  BY <1>3, UIRest, UISound
<1>5. Rest(h, n + 1) /\ Sound(h)
  BY <1>2, <1>4, ForSerialRest, ForSerialSound
<1> HIDE DEF h
<1>6. Rest(scan(h), n + 1)
  BY <1>5, UIRest
<1>7. Rest(scan(scan(h)), n + 1)
  BY <1>6, UIRest
<1>8. ASSUME h.q # <<>> PROVE Rest(executeTests(e), n + 1)
  <2>1. t \in Test /\ FirstPrepared(t) \in Board
    BY <1>5, <1>8, HeadTest, BoardFacts
  <2> HIDE DEF t, x
  <2>2. s \in Statuses
    BY <2>1, StatusType DEF Ops
  <2>3. /\ h.status \in Statuses /\ h.params \in [Intf -> Nat]
        /\ h.listed \in [Board -> 0 .. ListMax] /\ h.tests \in Seq(Result)
        /\ h.out \in [Board -> Seq(Cmd)]
    BY <1>5 DEF Rest
  <2>4. Rest(k, n + 1) /\ Sound(k)
    BY <1>5, <2>3, RestFields, KeepFields
  <2> HIDE DEF k
  <2>5. Rest(g, n + 1) /\ Sound(g)
    BY <2>4, UIRest, UISound
  <2> HIDE DEF g, s
  <2>6. /\ g.status \in Statuses /\ g.params \in [Intf -> Nat]
        /\ g.listed \in [Board -> 0 .. ListMax] /\ g.tests \in Seq(Result)
        /\ g.out \in [Board -> Seq(Cmd)]
    BY <2>5 DEF Rest
  <2>7. Rest(e, n + 1) /\ Sound(e)
    BY <2>2, <2>5, <2>6, RestFields, KeepFields
  <2> HIDE DEF e
  <2> QED
    BY <2>7, ExecuteRest
<1> HIDE DEF e
<1>9. Rest(f, n + 1)
  BY <1>5, <1>7, <1>8, Zenon
<1> HIDE DEF f
<1> QED
  BY <1>1, <1>9, FinishRest

-----------------------------------------------------------------------------
(***************************************************************************)
(* The boards.                                                             *)
(***************************************************************************)
FwFields ==
  {"pc", "prep", "ready", "stats", "plcTx", "rfTx", "timers", "cal", "pending", "started"}

IsFw(f) == f = [x \in FwFields |-> f[x]]

Tx == [left : Nat, ex : Executions \cup {<<>>}]

\* A board that transmits does so for an execution.
FwOK(f) ==
  /\ IsFw(f)
  /\ f.prep \in Plain
  /\ f.stats \in [Intf -> Stats]
  /\ f.plcTx \in Tx /\ f.rfTx \in Tx
  /\ f.timers \in 0 .. TimersMax
  /\ f.pending \in Plain \cup {NoTest}
  /\ f.pc = "plc" => f.plcTx.ex \in Executions
  /\ f.timers > 0 => f.rfTx.ex \in Executions

FwsOK(f) == f = [b \in Board |-> f[b]] /\ \A b \in Board : FwOK(f[b])

SpiOK(s) == s \in [Board -> Seq(FrameType)] /\ \A b \in Board : Len(s[b]) <= 1

LEMMA FwsExcept ==
  ASSUME NEW f, FwsOK(f), NEW b \in Board, NEW g, FwOK(g)
  PROVE  FwsOK([f EXCEPT ![b] = g])
<1> DEFINE e == [f EXCEPT ![b] = g]
<1>1. e = [c \in Board |-> IF c = b THEN g ELSE f[c]]
  BY DEF FwsOK
<1> HIDE DEF e
<1>2. e = [c \in Board |-> e[c]] /\ \A c \in Board : e[c] = IF c = b THEN g ELSE f[c]
  BY <1>1
<1>3. \A c \in Board : FwOK(e[c])
  BY <1>2 DEF FwsOK
<1>4. FwsOK(e)
  BY <1>2, <1>3 DEF FwsOK
<1> QED
  BY <1>4 DEF e

LEMMA StatsType ==
  /\ NoStats \in Stats
  /\ \A st \in Stats, ex \in Executions : [n |-> st.n + 1, from |-> st.from \cup {ex}] \in Stats
  BY DEF NoStats, Stats

LEMMA BootingOK ==
  ASSUME NEW cal, NEW pending \in Plain \cup {NoTest}
  PROVE  FwOK(Booting(cal, pending))
<1> DEFINE f == Booting(cal, pending)
<1>1. /\ IsFw(f) /\ f.pc = "boot" /\ f.prep = PlainTest("PLC", "TX")
      /\ f.stats = [i \in Intf |-> NoStats] /\ f.plcTx = NoTx /\ f.rfTx = NoTx
      /\ f.timers = 0 /\ f.pending = pending
  BY DEF Booting, IsFw, FwFields
<1> HIDE DEF f
<1>2. PlainTest("PLC", "TX") \in Plain
  <2>1. PlainTest("PLC", "TX") \in Test
    BY PlainSweepTests DEF Intf
  <2>2. PlainTest("PLC", "TX").sweep = FALSE
    BY DEF PlainTest
  <2> QED
    BY <2>1, <2>2, PlainFacts
<1>3. NoTx \in Tx
  BY DEF NoTx, Tx
<1>4. f.stats \in [Intf -> Stats]
  BY <1>1, StatsType
<1>5. f.timers \in 0 .. TimersMax /\ ~ (f.timers > 0)
  BY <1>1, FwAssumption
<1>6. f.pc # "plc"
  BY <1>1
<1>7. FwOK(f)
  BY <1>1, <1>2, <1>3, <1>4, <1>5, <1>6 DEF FwOK
<1> QED
  BY <1>7 DEF f

LEMMA FrameTypes ==
  /\ \A id \in {"DEVICE_UP", "TEST_DONE", "PREPARE_CNF", "START_CNF", "STOP_CNF",
                "FLASH_PARAM_CNF"},
        rsp \in {"SUCCESS", "FAILURE", "INVALID_TEST", "CAL_FAILED"} :
       Frame(id, rsp) \in FrameType
  /\ \A i \in Intf, st \in Stats :
       [Frame("GET_RESULT_CNF", "SUCCESS") EXCEPT !.intf = i, !.stats = st] \in FrameType
  BY StatsType DEF Frame, FrameType

LEMMA SendFrame ==
  ASSUME SpiOK(spi), NEW b \in Board, NEW f \in FrameType, gvspi_send(b, f)
  PROVE  SpiOK(spi')
<1> DEFINE x == IF spi[b] = <<>> THEN <<f>> ELSE spi[b]
<1>1. spi' = [spi EXCEPT ![b] = x]
  BY DEF gvspi_send
<1>2. spi \in [Board -> Seq(FrameType)] /\ \A c \in Board : Len(spi[c]) <= 1
  BY DEF SpiOK
<1>3. x \in Seq(FrameType) /\ Len(x) <= 1
  BY <1>2
<1> HIDE DEF x
<1>4. spi' \in [Board -> Seq(FrameType)]
  BY <1>1, <1>2, <1>3
<1>5. \A c \in Board : spi'[c] = IF c = b THEN x ELSE spi[c]
  BY <1>1, <1>2
<1> QED
  BY <1>2, <1>3, <1>4, <1>5 DEF SpiOK

LEMMA ClearSpi ==
  ASSUME SpiOK(spi), NEW b \in Board, spi' = [spi EXCEPT ![b] = <<>>]
  PROVE  SpiOK(spi')
<1>1. spi \in [Board -> Seq(FrameType)] /\ \A c \in Board : Len(spi[c]) <= 1
  BY DEF SpiOK
<1>2. <<>> \in Seq(FrameType) /\ Len(<<>>) <= 1
  BY EmptySeq
<1>3. spi' \in [Board -> Seq(FrameType)]
  BY <1>1, <1>2
<1>4. \A c \in Board : spi'[c] = IF c = b THEN <<>> ELSE spi[c]
  BY <1>1
<1> QED
  BY <1>1, <1>2, <1>3, <1>4 DEF SpiOK

\* What a step does to the record of a board.
LEMMA FwFieldsOK ==
  ASSUME NEW f, FwOK(f), NEW v, NEW pr \in Plain, NEW st \in [Intf -> Stats],
         NEW tx \in Tx, NEW n \in 0 .. TimersMax, NEW pe \in Plain \cup {NoTest}
  PROVE  /\ FwOK([f EXCEPT !.pc = "main"])
         /\ FwOK([f EXCEPT !.pc = "main", !.cal = v])
         /\ FwOK([f EXCEPT !.pc = "main", !.cal = v, !.prep = pr, !.ready = TRUE])
         /\ FwOK([f EXCEPT !.pc = "main", !.cal = v, !.pending = pe])
         /\ FwOK([f EXCEPT !.pending = pe, !.pc = "search"])
         /\ FwOK([f EXCEPT !.prep = pr, !.ready = TRUE, !.stats = st])
         /\ FwOK([f EXCEPT !.prep = pr, !.ready = TRUE])
         /\ FwOK([f EXCEPT !.started = v, !.stats = st])
         /\ FwOK([f EXCEPT !.stats = st])
         /\ tx.ex \in Executions =>
              /\ FwOK([f EXCEPT !.pc = "plc", !.plcTx = tx, !.started = v])
              /\ FwOK([f EXCEPT !.stats = st, !.rfTx = tx, !.timers = n, !.started = v])
         /\ (f.pc = "plc" => tx.ex \in Executions) => FwOK([f EXCEPT !.plcTx = tx])
         /\ (f.timers > 0 => tx.ex \in Executions) => FwOK([f EXCEPT !.rfTx = tx])
         /\ (n > 0 => tx.ex \in Executions) =>
              /\ FwOK([f EXCEPT !.rfTx = tx, !.timers = n])
              /\ FwOK([f EXCEPT !.rfTx = tx, !.timers = n, !.pc = "rf"])
<1>1. FwOK([f EXCEPT !.pc = "main"])
  BY DEF FwOK, IsFw, FwFields
<1>2. FwOK([f EXCEPT !.pc = "main", !.cal = v])
  BY DEF FwOK, IsFw, FwFields
<1>3. FwOK([f EXCEPT !.pc = "main", !.cal = v, !.prep = pr, !.ready = TRUE])
  BY DEF FwOK, IsFw, FwFields
<1>4. FwOK([f EXCEPT !.pc = "main", !.cal = v, !.pending = pe])
  BY DEF FwOK, IsFw, FwFields
<1>5. FwOK([f EXCEPT !.pending = pe, !.pc = "search"])
  BY DEF FwOK, IsFw, FwFields
<1>6. FwOK([f EXCEPT !.prep = pr, !.ready = TRUE, !.stats = st])
  BY DEF FwOK, IsFw, FwFields
<1>7. FwOK([f EXCEPT !.prep = pr, !.ready = TRUE])
  BY DEF FwOK, IsFw, FwFields
<1>8. FwOK([f EXCEPT !.started = v, !.stats = st])
  BY DEF FwOK, IsFw, FwFields
<1>9. FwOK([f EXCEPT !.stats = st])
  BY DEF FwOK, IsFw, FwFields
<1>10. tx.ex \in Executions => FwOK([f EXCEPT !.pc = "plc", !.plcTx = tx, !.started = v])
  BY DEF FwOK, IsFw, FwFields
<1>11. tx.ex \in Executions =>
        FwOK([f EXCEPT !.stats = st, !.rfTx = tx, !.timers = n, !.started = v])
  BY DEF FwOK, IsFw, FwFields
<1>12. (f.pc = "plc" => tx.ex \in Executions) => FwOK([f EXCEPT !.plcTx = tx])
  BY DEF FwOK, IsFw, FwFields
<1>13. (f.timers > 0 => tx.ex \in Executions) => FwOK([f EXCEPT !.rfTx = tx])
  BY DEF FwOK, IsFw, FwFields
<1>14. (n > 0 => tx.ex \in Executions) => FwOK([f EXCEPT !.rfTx = tx, !.timers = n])
  BY DEF FwOK, IsFw, FwFields
<1>15. (n > 0 => tx.ex \in Executions) => FwOK([f EXCEPT !.rfTx = tx, !.timers = n, !.pc = "rf"])
  BY DEF FwOK, IsFw, FwFields
<1> QED
  BY <1>1, <1>2, <1>3, <1>4, <1>5, <1>6, <1>7, <1>8,
     <1>9, <1>10, <1>11, <1>12, <1>13, <1>14, <1>15, Zenon

LEMMA HeardOK ==
  ASSUME NEW f, FwsOK(f), NEW b \in Board, NEW i \in Intf, NEW ex \in Executions, NEW got
  PROVE  FwsOK(Heard(f, b, i, ex, got))
<1> DEFINE r == Other(b)
           y == [n |-> f[r].stats[i].n + 1, from |-> f[r].stats[i].from \cup {ex}]
           st == [f[r].stats EXCEPT ![i] = y]
           g == [f[r] EXCEPT !.stats = st]
<1>1. Heard(f, b, i, ex, got) \in {f, [f EXCEPT ![r] = g]}
  BY DEF Heard
<1>2. r \in Board
  BY BoardFacts
<1> HIDE DEF r
<1>3. FwOK(f[r]) /\ f[r].stats \in [Intf -> Stats]
  BY <1>2 DEF FwsOK, FwOK
<1>4. y \in Stats
  BY <1>3, StatsType
<1> HIDE DEF y
<1>5. st \in [Intf -> Stats]
  BY <1>3, <1>4
<1> HIDE DEF st
<1>6. /\ f[r].prep \in Plain /\ f[r].plcTx \in Tx /\ f[r].timers \in 0 .. TimersMax
      /\ f[r].pending \in Plain \cup {NoTest}
  BY <1>3 DEF FwOK
<1>7. FwOK(g)
  BY <1>3, <1>5, <1>6, FwFieldsOK
<1> HIDE DEF g
<1>8. FwsOK([f EXCEPT ![r] = g])
  BY <1>2, <1>7, FwsExcept
<1> QED
  BY <1>1, <1>8

FwInv == FwsOK(fw) /\ SpiOK(spi)

LEMMA FwOf ==
  ASSUME FwInv, NEW b \in Board
  PROVE  /\ FwOK(fw[b]) /\ fw = [c \in Board |-> fw[c]]
         /\ fw[b].prep \in Plain /\ fw[b].stats \in [Intf -> Stats]
         /\ fw[b].plcTx \in Tx /\ fw[b].rfTx \in Tx /\ fw[b].timers \in 0 .. TimersMax
         /\ fw[b].pending \in Plain \cup {NoTest}
  BY DEF FwInv, FwsOK, FwOK

LEMMA BootFw ==
  ASSUME FwInv, NEW b \in Board, Boot(b)
  PROVE  FwsOK(fw') /\ SpiOK(spi')
<1>0. /\ FwOK(fw[b]) /\ fw = [c \in Board |-> fw[c]]
      /\ fw[b].prep \in Plain /\ fw[b].stats \in [Intf -> Stats]
      /\ fw[b].plcTx \in Tx /\ fw[b].rfTx \in Tx /\ fw[b].timers \in 0 .. TimersMax
      /\ fw[b].pending \in Plain \cup {NoTest}
  BY FwOf
<1>1. FwsOK(fw) /\ SpiOK(spi)
  BY DEF FwInv
<1> DEFINE p == fw[b].pending
           g1(c) == [fw[b] EXCEPT !.pc = "main", !.cal = c]
           g2(c) == [fw[b] EXCEPT !.pc = "main", !.cal = c, !.prep = p, !.ready = TRUE]
           g3(c) == [fw[b] EXCEPT !.pc = "main", !.cal = c, !.pending = NoTest]
<1>2. PICK c : \/ /\ fw' = [fw EXCEPT ![b] = g1(c)]
                  /\ gvspi_send(b, Frame("DEVICE_UP", "SUCCESS"))
               \/ /\ p # NoTest
                  /\ fw' = [fw EXCEPT ![b] = g2(c)]
                  /\ \E ok \in ConfigOk :
                       gvspi_send(b, Frame("PREPARE_CNF", IF ok THEN "SUCCESS"
                                                               ELSE "INVALID_TEST"))
               \/ /\ fw' = [fw EXCEPT ![b] = g3(c)]
                  /\ gvspi_send(b, Frame("PREPARE_CNF", "CAL_FAILED"))
  BY <1>0 DEF Boot
<1>3. FwOK(g1(c)) /\ FwOK(g3(c)) /\ (p # NoTest => FwOK(g2(c)))
  <2>1. p # NoTest => p \in Plain
    BY <1>0
  <2> HIDE DEF p
  <2> QED
    BY <1>0, <2>1, FwFieldsOK
<1> HIDE DEF p, g1, g2, g3
<1>4. FwsOK(fw')
  BY <1>1, <1>2, <1>3, FwsExcept
<1>5. \E id \in {"DEVICE_UP", "PREPARE_CNF"}, rsp \in {"SUCCESS", "INVALID_TEST", "CAL_FAILED"} :
        gvspi_send(b, Frame(id, rsp))
  BY <1>2
<1>6. SpiOK(spi')
  BY <1>1, <1>5, FrameTypes, SendFrame
<1> QED
  BY <1>4, <1>6

LEMMA ResetFw ==
  ASSUME FwInv, NEW b \in Board, BoardReset(b) \/ SpiTimeout(b)
  PROVE  FwsOK(fw') /\ SpiOK(spi')
<1>0. fw[b].pending \in Plain \cup {NoTest} /\ fw = [c \in Board |-> fw[c]]
  BY FwOf
<1>1. FwsOK(fw) /\ SpiOK(spi)
  BY DEF FwInv
<1>2. CASE BoardReset(b)
  <2>1. fw' = [fw EXCEPT ![b] = Booting(fw[b].cal, fw[b].pending)]
    BY <1>2 DEF BoardReset
  <2>2. FwOK(Booting(fw[b].cal, fw[b].pending))
    BY <1>0, BootingOK
  <2>3. FwsOK(fw')
    BY <1>1, <2>1, <2>2, FwsExcept
  <2>4. spi' = [spi EXCEPT ![b] = <<>>]
    BY <1>2 DEF BoardReset
  <2> QED
    BY <1>1, <2>3, <2>4, ClearSpi
<1>3. CASE SpiTimeout(b)
  <2>1. fw' = fw /\ spi' = [spi EXCEPT ![b] = <<>>]
    BY <1>3 DEF SpiTimeout
  <2> QED
    BY <1>1, <2>1, ClearSpi
<1> QED
  BY <1>2, <1>3

LEMMA PrepareFw ==
  ASSUME FwInv, NEW b \in Board, NEW m \in Cmd, PrepareCmd(b, m)
  PROVE  FwsOK(fw') /\ SpiOK(spi')
<1>0. /\ FwOK(fw[b]) /\ fw = [c \in Board |-> fw[c]]
      /\ fw[b].prep \in Plain /\ fw[b].stats \in [Intf -> Stats]
      /\ fw[b].plcTx \in Tx /\ fw[b].rfTx \in Tx /\ fw[b].timers \in 0 .. TimersMax
      /\ fw[b].pending \in Plain \cup {NoTest}
  BY FwOf
<1>1. FwsOK(fw) /\ SpiOK(spi)
  BY DEF FwInv
<1>2. m.test \in Plain
  BY DEF PrepareCmd, Cmd
<1> DEFINE st == [fw[b].stats EXCEPT !["PLC"] = NoStats]
           g1 == [fw[b] EXCEPT !.prep = m.test, !.ready = TRUE, !.stats = st]
           g2 == [fw[b] EXCEPT !.prep = m.test, !.ready = TRUE]
           g3 == Booting(fw[b].cal, m.test)
<1>3. \/ /\ fw' = [fw EXCEPT ![b] = g1] \/ fw' = [fw EXCEPT ![b] = g2]
         /\ \E rsp \in {"SUCCESS", "INVALID_TEST", "CAL_FAILED"} :
              gvspi_send(b, Frame("PREPARE_CNF", rsp))
      \/ fw' = [fw EXCEPT ![b] = g3] /\ spi' = [spi EXCEPT ![b] = <<>>]
  <2>1. /\ [fw EXCEPT ![b].prep = m.test, ![b].ready = TRUE, ![b].stats["PLC"] = NoStats]
             = [fw EXCEPT ![b] = g1]
        /\ [fw EXCEPT ![b].prep = m.test, ![b].ready = TRUE] = [fw EXCEPT ![b] = g2]
        /\ [fw EXCEPT ![b] = Booting(@.cal, m.test)] = [fw EXCEPT ![b] = g3]
    BY <1>0
  <2> HIDE DEF g1, g2, g3
  <2> QED
    BY <2>1, Zenon DEF PrepareCmd
<1>4. st \in [Intf -> Stats]
  BY <1>0, StatsType
<1> HIDE DEF st
<1>5. FwOK(g1) /\ FwOK(g2)
  BY <1>0, <1>2, <1>4, FwFieldsOK
<1>6. FwOK(g3)
  BY <1>2, BootingOK
<1> HIDE DEF g1, g2, g3
<1>7. FwsOK(fw')
  BY <1>1, <1>3, <1>5, <1>6, FwsExcept
<1>8. SpiOK(spi')
  BY <1>1, <1>3, FrameTypes, SendFrame, ClearSpi
<1> QED
  BY <1>7, <1>8

LEMMA StartFw ==
  ASSUME FwInv, NEW b \in Board, NEW m \in Cmd, StartCmd(b, m)
  PROVE  FwsOK(fw') /\ SpiOK(spi')
<1>0. /\ FwOK(fw[b]) /\ fw = [c \in Board |-> fw[c]]
      /\ fw[b].prep \in Plain /\ fw[b].stats \in [Intf -> Stats]
      /\ fw[b].plcTx \in Tx /\ fw[b].rfTx \in Tx /\ fw[b].timers \in 0 .. TimersMax
      /\ fw[b].pending \in Plain \cup {NoTest}
  BY FwOf
<1>1. FwsOK(fw) /\ SpiOK(spi)
  BY DEF FwInv
<1>2. m.ex \in Executions
  BY DEF Cmd
<1> DEFINE tx == [left |-> FrameCount, ex |-> m.ex]
           s1 == [fw[b].stats EXCEPT !["RF"] = NoStats]
           s2 == [fw[b].stats EXCEPT !["RF"] = IF m.test.intf = "RF" THEN NoStats ELSE @]
           n == fw[b].timers + 1
           g1 == [fw[b] EXCEPT !.pc = "plc", !.plcTx = tx, !.started = m.ex]
           g2 == [fw[b] EXCEPT !.stats = s1, !.rfTx = tx, !.timers = n, !.started = m.ex]
           g3 == [fw[b] EXCEPT !.started = m.ex, !.stats = s2]
<1>3. /\ \/ fw' = fw
         \/ fw' = [fw EXCEPT ![b] = g1]
         \/ fw[b].timers < TimersMax /\ fw' = [fw EXCEPT ![b] = g2]
         \/ fw' = [fw EXCEPT ![b] = g3]
      /\ \/ spi' = spi
         \/ \E rsp \in {"SUCCESS", "INVALID_TEST"} : gvspi_send(b, Frame("START_CNF", rsp))
  <2>1. /\ [fw EXCEPT ![b].pc = "plc", ![b].plcTx = tx, ![b].started = m.ex]
             = [fw EXCEPT ![b] = g1]
        /\ [fw EXCEPT ![b].stats["RF"] = NoStats, ![b].rfTx = tx, ![b].timers = @ + 1,
                      ![b].started = m.ex] = [fw EXCEPT ![b] = g2]
        /\ [fw EXCEPT ![b].started = m.ex,
                      ![b].stats["RF"] = IF m.test.intf = "RF" THEN NoStats ELSE @]
             = [fw EXCEPT ![b] = g3]
    BY <1>0
  <2> HIDE DEF g1, g2, g3
  <2> QED
    BY <2>1, Zenon DEF StartCmd, fwVars, tx
<1>4. tx \in Tx /\ tx.ex \in Executions
  BY <1>2, FwAssumption DEF Tx
<1>5. s1 \in [Intf -> Stats] /\ s2 \in [Intf -> Stats]
  BY <1>0, StatsType DEF Intf
<1>6. fw[b].timers < TimersMax => n \in 0 .. TimersMax
  BY <1>0, FwAssumption
<1> HIDE DEF tx, s1, s2, n
<1>7. FwOK(g1) /\ FwOK(g3) /\ (fw[b].timers < TimersMax => FwOK(g2))
  BY <1>0, <1>4, <1>5, <1>6, FwFieldsOK
<1> HIDE DEF g1, g2, g3
<1>8. FwsOK(fw')
  BY <1>1, <1>3, <1>7, FwsExcept
<1>9. SpiOK(spi')
  BY <1>1, <1>3, FrameTypes, SendFrame
<1> QED
  BY <1>8, <1>9

LEMMA OtherCmdFw ==
  ASSUME FwInv, NEW b \in Board, NEW m \in Cmd,
         StopCmd(b, m) \/ GetResultCmd(b, m) \/ DevSearchCmd(b, m) \/ FlashParamCmd(b, m)
  PROVE  FwsOK(fw') /\ SpiOK(spi')
<1>0. /\ FwOK(fw[b]) /\ fw = [c \in Board |-> fw[c]]
      /\ fw[b].prep \in Plain /\ fw[b].stats \in [Intf -> Stats]
      /\ fw[b].plcTx \in Tx /\ fw[b].rfTx \in Tx /\ fw[b].timers \in 0 .. TimersMax
      /\ fw[b].pending \in Plain \cup {NoTest}
  BY FwOf
<1>1. FwsOK(fw) /\ SpiOK(spi)
  BY DEF FwInv
<1>2. CASE StopCmd(b, m) \/ FlashParamCmd(b, m)
  <2>1. /\ fw' = fw
        /\ \E id \in {"STOP_CNF", "FLASH_PARAM_CNF"} : gvspi_send(b, Frame(id, "SUCCESS"))
    BY <1>2 DEF StopCmd, FlashParamCmd
  <2> QED
    BY <1>1, <2>1, FrameTypes, SendFrame
<1>3. CASE GetResultCmd(b, m)
  <2>1. m.test \in Plain
    BY <1>3 DEF GetResultCmd, Cmd
  <2>2. m.test.intf \in Intf
    BY <2>1, PlainFacts
  <2> DEFINE st == fw[b].stats[m.test.intf]
             f == [Frame("GET_RESULT_CNF", "SUCCESS") EXCEPT !.intf = m.test.intf, !.stats = st]
  <2>3. fw' = fw /\ (spi' = spi \/ gvspi_send(b, f))
    BY <1>3 DEF GetResultCmd
  <2>4. st \in Stats
    BY <1>0, <2>2
  <2> HIDE DEF st
  <2>5. f \in FrameType
    BY <2>2, <2>4, FrameTypes
  <2> HIDE DEF f
  <2> QED
    BY <1>1, <2>3, <2>5, SendFrame
<1>4. CASE DevSearchCmd(b, m)
  <2> DEFINE g == [fw[b] EXCEPT !.pending = NoTest, !.pc = "search"]
  <2>1. fw' = [fw EXCEPT ![b] = g] /\ gvspi_send(b, Frame("DEVICE_UP", "SUCCESS"))
    BY <1>0, <1>4 DEF DevSearchCmd
  <2>2. FwOK(g)
    BY <1>0, FwFieldsOK
  <2> HIDE DEF g
  <2>3. FwsOK(fw')
    BY <1>1, <2>1, <2>2, FwsExcept
  <2> QED
    BY <1>1, <2>1, <2>3, FrameTypes, SendFrame
<1> QED
  BY <1>2, <1>3, <1>4

LEMMA TransmitFw ==
  ASSUME FwInv, NEW b \in Board, Transmit(b) \/ SearchDone(b)
  PROVE  FwsOK(fw') /\ SpiOK(spi')
<1>0. /\ FwOK(fw[b]) /\ fw = [c \in Board |-> fw[c]]
      /\ fw[b].prep \in Plain /\ fw[b].stats \in [Intf -> Stats]
      /\ fw[b].plcTx \in Tx /\ fw[b].rfTx \in Tx /\ fw[b].timers \in 0 .. TimersMax
      /\ fw[b].pending \in Plain \cup {NoTest}
  BY FwOf
<1>1. FwsOK(fw) /\ SpiOK(spi)
  BY DEF FwInv
<1>2. /\ fw[b].pc = "plc" => fw[b].plcTx.ex \in Executions
      /\ fw[b].timers > 0 => fw[b].rfTx.ex \in Executions
      /\ \A tx \in Tx : tx.left \in Nat
  BY <1>0 DEF FwOK, Tx
<1>3. ASSUME NEW got \in BOOLEAN, PlcFrame(b, got) PROVE FwsOK(fw') /\ SpiOK(spi')
  <2> DEFINE tx == [fw[b].plcTx EXCEPT !.left = @ - 1]
             g == [fw[b] EXCEPT !.plcTx = tx]
             f == [fw EXCEPT ![b] = g]
  <2>1. /\ fw' = Heard(f, b, "PLC", fw[b].plcTx.ex, got) /\ spi' = spi
        /\ fw[b].pc = "plc" /\ fw[b].plcTx.left > 0
    BY <1>0, <1>3 DEF PlcFrame
  <2>2. tx \in Tx /\ tx.ex = fw[b].plcTx.ex
    BY <1>0, <2>1 DEF Tx
  <2> HIDE DEF tx
  <2>3. FwOK(g)
    BY <1>0, <1>2, <2>2, FwFieldsOK
  <2> HIDE DEF g
  <2>4. FwsOK(f)
    BY <1>1, <2>3, FwsExcept
  <2> HIDE DEF f
  <2>5. FwsOK(Heard(f, b, "PLC", fw[b].plcTx.ex, got))
    BY <1>2, <2>1, <2>4, HeardOK DEF Intf
  <2> QED
    BY <1>1, <2>1, <2>5
<1>4. ASSUME NEW got \in BOOLEAN, NEW newest \in BOOLEAN, RfFrame(b, got, newest)
      PROVE  FwsOK(fw') /\ SpiOK(spi')
  <2> DEFINE l == IF fw[b].rfTx.left > 0 THEN fw[b].rfTx.left - 1 ELSE 0
             tx == [fw[b].rfTx EXCEPT !.left = l]
             n == fw[b].timers - 1
             g1 == [fw[b] EXCEPT !.rfTx = tx]
             g2 == [fw[b] EXCEPT !.rfTx = tx, !.timers = n]
             g3 == [fw[b] EXCEPT !.rfTx = tx, !.timers = n, !.pc = "rf"]
             ex == fw[b].rfTx.ex
  <2>1. /\ fw[b].timers > 0
        /\ \/ fw' = Heard([fw EXCEPT ![b] = g1], b, "RF", ex, got)
           \/ fw' = Heard([fw EXCEPT ![b] = g2], b, "RF", ex, got)
           \/ fw' = Heard([fw EXCEPT ![b] = g3], b, "RF", ex, got)
        /\ spi' = spi
    <3> DEFINE e == [fw EXCEPT ![b].rfTx.left = IF @ > 0 THEN @ - 1 ELSE 0]
    <3>1. [e EXCEPT ![b].timers = IF newest THEN @ ELSE @ - 1]
            = [fw EXCEPT ![b] = IF newest THEN g1 ELSE g2]
      BY <1>0
    <3>2. [e EXCEPT ![b].timers = @ - 1, ![b].pc = "rf"] = [fw EXCEPT ![b] = g3]
      BY <1>0
    <3> HIDE DEF g1, g2, g3
    <3> QED
      BY <1>4, <3>1, <3>2, Zenon DEF RfFrame
  <2>2. l \in Nat
    BY <1>0, <1>2
  <2> HIDE DEF l
  <2>3. tx \in Tx /\ tx.ex = ex
    BY <1>0, <2>2 DEF Tx
  <2>4. ex \in Executions
    BY <1>2, <2>1
  <2>5. n \in 0 .. TimersMax
    BY <1>0, <2>1, FwAssumption
  <2> HIDE DEF tx, n, ex
  <2>6. FwOK(g1) /\ FwOK(g2) /\ FwOK(g3)
    BY <1>0, <2>3, <2>4, <2>5, FwFieldsOK
  <2> HIDE DEF g1, g2, g3
  <2>7. /\ FwsOK([fw EXCEPT ![b] = g1]) /\ FwsOK([fw EXCEPT ![b] = g2])
        /\ FwsOK([fw EXCEPT ![b] = g3])
    BY <1>1, <2>6, FwsExcept
  <2>8. /\ FwsOK(Heard([fw EXCEPT ![b] = g1], b, "RF", ex, got))
        /\ FwsOK(Heard([fw EXCEPT ![b] = g2], b, "RF", ex, got))
        /\ FwsOK(Heard([fw EXCEPT ![b] = g3], b, "RF", ex, got))
    BY <2>4, <2>7, HeardOK DEF Intf
  <2>9. FwsOK(fw')
    BY <2>1, <2>8
  <2>10. SpiOK(spi')
    BY <1>1, <2>1
  <2> QED
    BY <2>9, <2>10
<1>5. ASSUME TxDone(b) \/ SearchDone(b) PROVE FwsOK(fw') /\ SpiOK(spi')
  <2> DEFINE g == [fw[b] EXCEPT !.pc = "main"]
  <2>1. /\ fw' = [fw EXCEPT ![b] = g]
        /\ spi' = spi \/ gvspi_send(b, Frame("TEST_DONE", "SUCCESS"))
    BY <1>0, <1>5 DEF TxDone, SearchDone
  <2>2. FwOK(g)
    BY <1>0, FwFieldsOK
  <2> HIDE DEF g
  <2>3. FwsOK(fw')
    BY <1>1, <2>1, <2>2, FwsExcept
  <2>4. SpiOK(spi')
    BY <1>1, <2>1, FrameTypes, SendFrame
  <2> QED
    BY <2>3, <2>4
<1> QED
  BY <1>3, <1>4, <1>5 DEF Transmit

-----------------------------------------------------------------------------
(***************************************************************************)
(* The tester.                                                             *)
(***************************************************************************)
\* The run number of the tool is the number of Run clicks.
TInv ==
  /\ Sound(tool) /\ Rest(tool, used["run"])
  /\ used \in [DOMAIN Bound -> Nat]
  /\ down \in [Board -> Seq(Cmd)] /\ up \in [Board -> Seq(FrameType)]
  /\ FwInv

LEMMA InitTypes == Init => TInv
<1> SUFFICES ASSUME Init PROVE TInv
  OBVIOUS
<1>1. Sound(tool)
  BY InitSound DEF Init
<1>2. used = [a \in DOMAIN Bound |-> 0] /\ "run" \in DOMAIN Bound /\ Bound["run"] \in Nat
  BY MaxAssumption DEF Init
<1>3. Rest(tool, 0)
  <2>1. /\ IsTool(tool) /\ tool.status = NullStatus /\ tool.params = [i \in Intf |-> 0]
        /\ tool.listed = [b \in Board |-> 0] /\ tool.tests = <<>> /\ tool.out = NoSends
        /\ tool.run = 0
    BY DEF Init, ToolInit, IsTool, Fields
  <2>2. NullStatus \in Statuses
    BY StatusType DEF NullStatus, Ops, Board
  <2>3. tool.params \in [Intf -> Nat] /\ tool.listed \in [Board -> 0 .. ListMax]
    BY <2>1, ToolAssumption
  <2>4. tool.tests \in Seq(Result) /\ tool.out \in [Board -> Seq(Cmd)]
    BY <2>1, EmptySeq, NoSendsType
  <2>5. 0 \in 0 .. Bound["run"]
    BY <1>2
  <2> QED
    BY <2>1, <2>2, <2>3, <2>4, <2>5 DEF Rest
<1>4. down \in [Board -> Seq(Cmd)] /\ up \in [Board -> Seq(FrameType)]
  BY EmptySeq DEF Init, ToolInit, NoSends
<1>5. FwsOK(fw)
  <2>1. fw = [b \in Board |-> Booting(RfCal[b], NoTest)]
    BY DEF Init, FwInit
  <2>2. \A b \in Board : FwOK(Booting(RfCal[b], NoTest))
    BY BootingOK
  <2> QED
    BY <2>1, <2>2 DEF FwsOK
<1>6. SpiOK(spi)
  <2>1. spi = [b \in Board |-> <<>>]
    BY DEF Init, FwInit
  <2>2. <<>> \in Seq(FrameType) /\ Len(<<>>) <= 1
    BY EmptySeq
  <2> QED
    BY <2>1, <2>2 DEF SpiOK
<1>7. Rest(tool, used["run"]) /\ used \in [DOMAIN Bound -> Nat]
  BY <1>2, <1>3
<1> QED
  BY <1>1, <1>4, <1>5, <1>6, <1>7 DEF TInv, FwInv

LEMMA UseTypes ==
  ASSUME used \in [DOMAIN Bound -> Nat], NEW a \in DOMAIN Bound \ {"all"}, Use(a)
  PROVE  /\ used' \in [DOMAIN Bound -> Nat] /\ used[a] < Bound[a]
         /\ used'["run"] = IF a = "run" THEN used["run"] + 1 ELSE used["run"]
<1>1. /\ DOMAIN Bound = {"run", "scan", "click", "stop", "flash", "reset", "spi", "all"}
      /\ \A c \in DOMAIN Bound : Bound[c] \in Nat
  BY MaxAssumption
<1> QED
  BY <1>1 DEF Use

LEMMA SystemTypes ==
  ASSUME TInv, NEW b \in Board,
         ToolReceive(b) \/ RelayRequest(b) \/ RelayConnectFails(b)
           \/ RelayResponse(b) \/ FwBoot(b) \/ FwTransmit(b),
         Sound(tool)'
  PROVE  TInv'
<1>0. /\ Sound(tool) /\ Rest(tool, used["run"]) /\ used \in [DOMAIN Bound -> Nat]
      /\ down \in [Board -> Seq(Cmd)] /\ up \in [Board -> Seq(FrameType)] /\ FwInv
      /\ FwsOK(fw) /\ SpiOK(spi) /\ spi \in [Board -> Seq(FrameType)]
  BY DEF TInv, FwInv, SpiOK
<1>1. CASE ToolReceive(b)
  <2> DEFINE m == Head(up[b])
  <2>1. up[b] # <<>> /\ tool.listed[b] < ListMax /\ UNCHANGED <<fw, spi, used>>
    BY <1>1 DEF ToolReceive, messageReceived
  <2>2. PICK n \in 1 .. ReadMax, ok \in Verdicts(tool, Head(up[b])) :
          /\ n <= Len(up[b])
          /\ up' = [up EXCEPT ![b] = SubSeq(@, n + 1, Len(@))]
          /\ Finish(Handled(tool, b, Head(up[b]), ok))
    BY <1>1 DEF ToolReceive, messageReceived
  <2>3. m \in FrameType
    BY <1>0, <2>1, HeadTailProperties
  <2>4. ok \in BOOLEAN
    <3>1. Verdicts(tool, m) \in SUBSET BOOLEAN
      BY DEF Verdicts
    <3> QED
      BY <2>2, <3>1
  <2> HIDE DEF m
  <2>5. Rest(Handled(tool, b, m, ok), used["run"])
    BY <1>0, <2>1, <2>3, <2>4, HandledRest
  <2>6. Rest(tool', used["run"]) /\ down' \in [Board -> Seq(Cmd)]
    BY <1>0, <2>2, <2>5, FinishRest DEF m
  <2>7. SubSeq(up[b], n + 1, Len(up[b])) \in Seq(FrameType)
    <3>1. up[b] \in Seq(FrameType) /\ Len(up[b]) \in Nat /\ n \in Nat
      BY <1>0, LenProperties, ToolAssumption
    <3>2. \A k \in n + 1 .. Len(up[b]) : up[b][k] \in FrameType
      BY <3>1, ElementOfSeq
    <3> QED
      BY <3>1, <3>2, SubSeqProperties
  <2>8. up' \in [Board -> Seq(FrameType)]
    BY <1>0, <2>2, <2>7
  <2> QED
    BY <1>0, <2>1, <2>6, <2>8 DEF TInv, FwInv
<1>2. CASE RelayRequest(b)
  <2> DEFINE m == Head(down[b])
  <2>1. down[b] # <<>> /\ UNCHANGED <<tool, up, used>>
    BY <1>2 DEF RelayRequest
  <2>2. PICK n \in 1 .. ReadMax : /\ n <= Len(down[b])
                                  /\ down' = [down EXCEPT ![b] = SubSeq(@, n + 1, Len(@))]
    BY <1>2 DEF RelayRequest
  <2>3. m \in Cmd
    BY <1>0, <2>1, HeadTailProperties
  <2>4. UNCHANGED <<fw, spi>> \/ prodTestExecCmd(b, m)
    BY <1>2 DEF RelayRequest, fwVars
  <2> HIDE DEF m
  <2>5. FwsOK(fw') /\ SpiOK(spi')
    BY <1>0, <2>3, <2>4, PrepareFw, StartFw, OtherCmdFw DEF prodTestExecCmd
  <2>6. SubSeq(down[b], n + 1, Len(down[b])) \in Seq(Cmd)
    <3>1. down[b] \in Seq(Cmd) /\ Len(down[b]) \in Nat /\ n \in Nat
      BY <1>0, LenProperties, ToolAssumption
    <3>2. \A k \in n + 1 .. Len(down[b]) : down[b][k] \in Cmd
      BY <3>1, ElementOfSeq
    <3> QED
      BY <3>1, <3>2, SubSeqProperties
  <2>7. down' \in [Board -> Seq(Cmd)]
    BY <1>0, <2>2, <2>6
  <2> QED
    BY <1>0, <2>1, <2>5, <2>7 DEF TInv, FwInv
<1>3. CASE RelayConnectFails(b)
  <2>1. /\ down[b] # <<>> /\ down' = [down EXCEPT ![b] = Tail(@)]
        /\ UNCHANGED <<tool, up, fw, spi, used>>
    BY <1>3 DEF RelayConnectFails
  <2>2. Tail(down[b]) \in Seq(Cmd)
    BY <1>0, <2>1, HeadTailProperties
  <2>3. down' \in [Board -> Seq(Cmd)]
    BY <1>0, <2>1, <2>2
  <2> QED
    BY <1>0, <2>1, <2>3 DEF TInv, FwInv
<1>4. CASE RelayResponse(b)
  <2>1. /\ up' = [up EXCEPT ![b] = @ \o spi[b]] /\ spi' = [spi EXCEPT ![b] = <<>>]
        /\ UNCHANGED <<tool, down, fw, used>>
    BY <1>4 DEF RelayResponse
  <2>2. up[b] \o spi[b] \in Seq(FrameType)
    BY <1>0, ConcatProperties
  <2>3. up' \in [Board -> Seq(FrameType)]
    BY <1>0, <2>1, <2>2
  <2>4. SpiOK(spi')
    BY <1>0, <2>1, ClearSpi
  <2> QED
    BY <1>0, <2>1, <2>3, <2>4 DEF TInv, FwInv
<1>5. CASE FwBoot(b) \/ FwTransmit(b)
  <2>1. UNCHANGED <<tool, down, up, used>> /\ (Boot(b) \/ Transmit(b) \/ SearchDone(b))
    BY <1>5 DEF FwBoot, FwTransmit
  <2>2. FwsOK(fw') /\ SpiOK(spi')
    BY <1>0, <2>1, BootFw, TransmitFw
  <2> QED
    BY <1>0, <2>1, <2>2 DEF TInv, FwInv
<1> QED
  BY <1>1, <1>2, <1>3, <1>4, <1>5

LEMMA OperatorTypes ==
  ASSUME TInv, Operator, Sound(tool)'
  PROVE  TInv'
<1>0. /\ Sound(tool) /\ Rest(tool, used["run"]) /\ used \in [DOMAIN Bound -> Nat]
      /\ down \in [Board -> Seq(Cmd)] /\ up \in [Board -> Seq(FrameType)]
      /\ FwsOK(fw) /\ SpiOK(spi) /\ UNCHANGED <<fw, spi>>
  BY DEF TInv, FwInv, Operator, fwVars
<1>1. DOMAIN Bound = {"run", "scan", "click", "stop", "flash", "reset", "spi", "all"}
  BY MaxAssumption
<1>2. ASSUME NEW a \in {"scan", "click", "stop", "flash"}, Use(a),
             NEW h, Rest(h, used["run"]), Finish(h), UNCHANGED up
      PROVE  TInv'
  <2>1. used' \in [DOMAIN Bound -> Nat] /\ used'["run"] = used["run"]
    BY <1>0, <1>1, <1>2, UseTypes
  <2>2. Rest(tool', used["run"]) /\ down' \in [Board -> Seq(Cmd)]
    BY <1>0, <1>2, FinishRest
  <2> QED
    BY <1>0, <1>2, <2>1, <2>2 DEF TInv, FwInv
<1>3. ASSUME NEW mod \in Modules, RunTest_Click(mod), Use("run") PROVE TInv'
  <2>1. /\ used' \in [DOMAIN Bound -> Nat] /\ used["run"] < Bound["run"]
        /\ used'["run"] = used["run"] + 1
    BY <1>0, <1>1, <1>3, UseTypes
  <2>2. Rest(tool', used["run"] + 1) /\ down' \in [Board -> Seq(Cmd)]
    BY <1>0, <1>3, <2>1, RunRest
  <2>3. up' = up
    BY <1>3 DEF RunTest_Click
  <2> QED
    BY <1>0, <2>1, <2>2, <2>3 DEF TInv, FwInv
<1>4. ASSUME btn_ScanDevices_Click, Use("scan") PROVE TInv'
  <2>1. Finish(scan(tool)) /\ UNCHANGED up /\ Rest(scan(tool), used["run"])
    BY <1>0, <1>4, UIRest DEF btn_ScanDevices_Click
  <2> QED
    BY <1>2, <1>4, <2>1
<1>5. ASSUME NEW t \in Test, CheckBox_Click(t), Use("click") PROVE TInv'
  <2>1. Finish(Toggle(tool, t)) /\ UNCHANGED up /\ Rest(Toggle(tool, t), used["run"])
    BY <1>0, <1>5, BoxRest DEF CheckBox_Click
  <2> QED
    BY <1>2, <1>5, <2>1
<1>6. ASSUME btnStopTest_Click, Use("stop") PROVE TInv'
  <2> DEFINE g == executeTests(issueCmd_StopTest(tool, tool.status.test))
  <2>1. tool.status.test \in Test \cup {NoTest}
    BY <1>0 DEF Rest, Statuses
  <2>2. Finish(g) /\ UNCHANGED up /\ Rest(g, used["run"])
    BY <1>0, <1>6, <2>1, StopRest DEF btnStopTest_Click
  <2> HIDE DEF g
  <2> QED
    BY <1>2, <1>6, <2>2
<1>7. ASSUME btn_flashParams_Click, Use("flash") PROVE TInv'
  <2>1. Finish(flashParams(tool)) /\ UNCHANGED up /\ Rest(flashParams(tool), used["run"])
    BY <1>0, <1>7, FlashRest DEF btn_flashParams_Click
  <2> QED
    BY <1>2, <1>7, <2>1
<1> QED
  BY <1>3, <1>4, <1>5, <1>6, <1>7 DEF Operator

LEMMA FaultTypes ==
  ASSUME TInv, Fault
  PROVE  TInv'
<1>0. /\ Sound(tool) /\ Rest(tool, used["run"]) /\ used \in [DOMAIN Bound -> Nat]
      /\ down \in [Board -> Seq(Cmd)] /\ up \in [Board -> Seq(FrameType)] /\ FwInv
  BY DEF TInv
<1>1. PICK b \in Board : /\ (BoardReset(b) /\ Use("reset")) \/ (SpiTimeout(b) /\ Use("spi"))
                         /\ UNCHANGED <<tool, down, up>>
  BY DEF Fault, toolVars
<1>2. FwsOK(fw') /\ SpiOK(spi')
  BY <1>0, <1>1, ResetFw
<1>3. DOMAIN Bound = {"run", "scan", "click", "stop", "flash", "reset", "spi", "all"}
  BY MaxAssumption
<1>4. used' \in [DOMAIN Bound -> Nat] /\ used'["run"] = used["run"]
  BY <1>0, <1>1, <1>3, UseTypes
<1> QED
  BY <1>0, <1>1, <1>2, <1>4 DEF TInv, FwInv

LEMMA NextTypes == TInv /\ [Next]_vars => TInv'
<1> SUFFICES ASSUME TInv, [Next]_vars PROVE TInv'
  OBVIOUS
<1>1. Sound(tool)'
  BY NextLemma DEF TInv, IInv
<1>2. CASE System
  BY <1>1, <1>2, SystemTypes DEF System
<1>3. CASE Operator
  BY <1>1, <1>3, OperatorTypes
<1>4. CASE Fault
  BY <1>4, FaultTypes
<1>5. CASE UNCHANGED vars
  BY <1>5 DEF vars, TInv, FwInv
<1> QED
  BY <1>2, <1>3, <1>4, <1>5 DEF Next

\* Every field of the tool, of the two boards and of what travels between them
\* keeps its type; a board that transmits does so for a command of a run.
THEOREM TypesTheorem == Spec => []TInv
  BY InitTypes, NextTypes, PTL DEF Spec

\* TypeOK for every value of the constants: at most one frame in the SPI slave
\* (gvspi_send), at most TimersMax RF timers, only plain tests prepared, and
\* statistics only of executions of runs that were started.
THEOREM TypeTheorem == Spec => []TypeOK
<1>1. TInv => TypeOK
  <2> SUFFICES ASSUME TInv PROVE TypeOK
    OBVIOUS
  <2>1. tool.q \in Seq(Test) /\ tool.box \in SUBSET Test
    BY DEF TInv, Sound
  <2>2. /\ tool.status \in Statuses /\ tool.params \in [Intf -> Nat]
        /\ tool.listed \in [Board -> 0 .. ListMax]
    BY DEF TInv, Rest
  <2>3. ASSUME NEW b \in Board
        PROVE  /\ Len(spi[b]) <= 1 /\ fw[b].prep \in Test /\ ~fw[b].prep.sweep
               /\ fw[b].timers \in 0 .. TimersMax
               /\ \A i \in Intf : fw[b].stats[i] \in Stats
    <3>1. FwInv
      BY DEF TInv
    <3>2. /\ fw[b].prep \in Plain /\ fw[b].stats \in [Intf -> Stats]
          /\ fw[b].timers \in 0 .. TimersMax
      BY <3>1, FwOf
    <3>3. fw[b].prep \in Test /\ ~fw[b].prep.sweep
      BY <3>2, PlainFacts
    <3>4. Len(spi[b]) <= 1
      BY <3>1 DEF FwInv, SpiOK
    <3> QED
      BY <3>2, <3>3, <3>4
  <2> QED
    BY <2>1, <2>2, <2>3 DEF TypeOK
<1> QED
  BY <1>1, TypesTheorem, PTL
=============================================================================
