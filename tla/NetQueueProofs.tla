--------------------------- MODULE NetQueueProofs ---------------------------
(***************************************************************************)
(* Proofs about the transmit queues, for lists of every size and when the  *)
(* handler is not interrupted between its steps.                           *)
(***************************************************************************)
EXTENDS NetQueue, TLAPS

-----------------------------------------------------------------------------
(***************************************************************************)
(* The inductive invariant.  The frames that wait are numbered without     *)
(* gaps and lie in consecutive slots: slot i holds frame i + b.            *)
(***************************************************************************)
Based(q, b) ==
  /\ b <= sent[q] /\ sent[q] <= accepted[q]
  /\ accepted[q] <= b + Size[q]
  /\ \A i \in 1 .. Size[q] :
       slots[q][i] = IF sent[q] < i + b /\ i + b <= accepted[q] THEN i + b ELSE 0

InSlots == \A q \in Queues : \E b \in Nat : Based(q, b)

\* The frame taken out of its slot that the count still includes.
Leaving(q) == IF q = que /\ pc \in {"load", "store"} THEN 1 ELSE 0

CountExact == \A q \in Queues : cnt[q] + sent[q] = accepted[q] + Leaving(q)

Loaded == pc = "store" => reg = cnt[que]

IInv == TypeOK /\ InSlots /\ CountExact /\ Loaded /\ CurrentIsOldest /\ NoFrameStranded

-----------------------------------------------------------------------------
\* The scan of gvspi_skb_que_add finds the slot of the newest frame.
LEMMA LastUsedLemma ==
  ASSUME NEW q \in Queues, NEW b \in Nat, TypeOK, Based(q, b),
         sent[q] < accepted[q]
  PROVE  Used(q) # {} /\ LastUsed(q) = accepted[q] - b
PROOF
<1> DEFINE l == accepted[q] - b
<1>0. Size[q] \in Nat /\ sent[q] \in Nat /\ accepted[q] \in Nat
  BY NetQueueAssumption DEF TypeOK
<1>1. l \in 1 .. Size[q] /\ l + b = accepted[q]
  BY <1>0 DEF Based
<1>2. l \in Used(q)
  BY <1>0, <1>1 DEF Based, Used
<1>3. \A j \in Used(q) : j \in Nat /\ j <= l
  BY <1>0, <1>1 DEF Based, Used
<1>4. \A i \in Used(q) : (\A j \in Used(q) : j <= i) => i = l
  BY <1>0, <1>1, <1>2, <1>3
<1>5. LastUsed(q) = l
  BY <1>2, <1>3, <1>4 DEF LastUsed
<1> QED
  BY <1>2, <1>5

\* An empty list has no used slot.
LEMMA EmptyLemma ==
  ASSUME NEW q \in Queues, NEW b \in Nat, TypeOK, Based(q, b),
         sent[q] = accepted[q]
  PROVE  Used(q) = {}
BY NetQueueAssumption DEF TypeOK, Based, Used

\* gvspi_skb_que_get_valid finds the oldest frame.
LEMMA ValidLemma ==
  ASSUME NEW q \in Queues, TypeOK, InSlots, NEW i \in 1 .. Size[q], IsValid(q, i)
  PROVE  slots[q][i] = sent[q] + 1 /\ sent[q] < accepted[q]
PROOF
<1>0. Size[q] \in Nat /\ sent[q] \in Nat /\ accepted[q] \in Nat
  BY NetQueueAssumption DEF TypeOK
<1>1. PICK b \in Nat : Based(q, b)
  BY DEF InSlots
<1>2. sent[q] < i + b /\ i + b <= accepted[q] /\ slots[q][i] = i + b
  BY <1>0, <1>1 DEF IsValid, Used, Based
<1> DEFINE k == sent[q] + 1 - b
<1>3. k \in 1 .. Size[q] /\ k + b = sent[q] + 1
  BY <1>0, <1>1, <1>2 DEF Based
<1>4. k \in Used(q)
  BY <1>0, <1>1, <1>2, <1>3 DEF Based, Used
<1>5. i <= k
  BY <1>4 DEF IsValid
<1> QED
  BY <1>0, <1>2, <1>3, <1>5

-----------------------------------------------------------------------------
LEMMA InitLemma == Init => IInv
PROOF
<1> SUFFICES ASSUME Init PROVE IInv
  OBVIOUS
<1>1. TypeOK
  BY NetQueueAssumption DEF Init, TypeOK, Queues
<1>2. InSlots
  <2> SUFFICES ASSUME NEW q \in Queues PROVE Based(q, 0)
    BY DEF InSlots
  <2> QED
    BY NetQueueAssumption DEF Init, Based
<1>3. CountExact /\ Loaded /\ CurrentIsOldest /\ NoFrameStranded
  BY DEF Init, CountExact, Leaving, Loaded, CurrentIsOldest, NoFrameStranded
<1> QED
  BY <1>1, <1>2, <1>3 DEF IInv

\* A frame goes behind the newest one and into no slot that is in use.
LEMMA XmitLemma ==
  ASSUME Preemptible = FALSE, IInv, NEW q \in Queues, Xmit(q)
  PROVE  IInv'
PROOF
<1> USE DEF IInv
<1>0. /\ \A p \in Queues : Size[p] \in Nat /\ Size[p] >= 3
      /\ \A p \in Queues : sent[p] \in Nat /\ accepted[p] \in Nat /\ cnt[p] \in Nat
  BY NetQueueAssumption DEF TypeOK
<1>1. pc \in {"idle", "tx"} /\ Takes(q)
  BY DEF Xmit, MayXmit
<1>2. PICK b \in Nat : Based(q, b)
  BY DEF InSlots
<1>3. cnt[q] = accepted[q] - sent[q] /\ sent[q] <= accepted[q]
  BY <1>0, <1>1, <1>2 DEF CountExact, Leaving, Based
<1>4. PICK it \in 1 .. Size[q] - 1, c \in Nat :
        it = ItemFor(q) /\ it + c = accepted[q] + 1 /\ c = (IF cnt[q] = 0 THEN accepted[q] ELSE b)
  <2>1. CASE cnt[q] = 0
    BY <1>0, <1>3, <2>1 DEF ItemFor
  <2>2. CASE cnt[q] # 0
    <3>1. sent[q] < accepted[q]
      BY <1>0, <1>3, <2>2
    <3>2. LastUsed(q) = accepted[q] - b
      BY <1>2, <3>1, LastUsedLemma
    <3>3. LastUsed(q) < Size[q] - 1
      BY <1>1, <2>2 DEF Takes
    <3> QED
      BY <1>0, <1>2, <2>2, <3>1, <3>2, <3>3 DEF ItemFor, Based
  <2> QED
    BY <2>1, <2>2
<1>5. /\ slots' = [slots EXCEPT ![q][it] = accepted[q] + 1]
      /\ accepted' = [accepted EXCEPT ![q] = @ + 1]
      /\ cnt' = [cnt EXCEPT ![q] = @ + 1]
      /\ work' = TRUE
      /\ UNCHANGED <<stop, pc, que, cur, reg, sent>>
  BY <1>4 DEF Xmit, handlerVars
<1>6. TypeOK'
  <2>1. DOMAIN slots' = Queues
    BY <1>5 DEF TypeOK
  <2>2. ASSUME NEW p \in Queues PROVE slots'[p] \in [1 .. Size[p] -> Nat]
    <3>1. slots'[p] = IF p = q THEN [slots[q] EXCEPT ![it] = accepted[q] + 1] ELSE slots[p]
      BY <1>5 DEF TypeOK
    <3>2. slots[p] \in [1 .. Size[p] -> Nat] /\ accepted[q] + 1 \in Nat
      BY <1>0 DEF TypeOK
    <3> QED
      BY <3>1, <3>2
  <2>3. cnt' \in [Queues -> Nat] /\ accepted' \in [Queues -> Nat]
    BY <1>5 DEF TypeOK
  <2> QED
    BY <1>5, <2>1, <2>2, <2>3 DEF TypeOK
<1>7. InSlots'
  <2> SUFFICES ASSUME NEW p \in Queues PROVE (\E a \in Nat : Based(p, a))'
    BY DEF InSlots
  <2>1. CASE p = q
    <3>1. accepted'[q] = accepted[q] + 1 /\ sent'[q] = sent[q]
      BY <1>5 DEF TypeOK
    <3>2. \A i \in 1 .. Size[q] :
            slots'[q][i] = IF i = it THEN accepted[q] + 1 ELSE slots[q][i]
      BY <1>5 DEF TypeOK
    <3>3. \A i \in 1 .. Size[q] :
            slots'[q][i] = IF sent[q] < i + c /\ i + c <= accepted[q] + 1 THEN i + c ELSE 0
      BY <1>0, <1>2, <1>3, <1>4, <3>2 DEF Based
    <3>4. Based(q, c)'
      BY <1>0, <1>2, <1>3, <1>4, <3>1, <3>3 DEF Based
    <3> QED
      BY <1>4, <2>1, <3>4
  <2>2. CASE p # q
    <3>1. slots'[p] = slots[p] /\ accepted'[p] = accepted[p] /\ sent'[p] = sent[p]
      BY <1>5, <2>2 DEF TypeOK
    <3> QED
      BY <3>1 DEF InSlots, Based
  <2> QED
    BY <2>1, <2>2
<1>8. CountExact' /\ Loaded'
  <2>1. ASSUME NEW p \in Queues PROVE cnt'[p] + sent'[p] = accepted'[p] + Leaving(p)'
    <3>1. Leaving(p) = 0 /\ Leaving(p)' = 0
      BY <1>1, <1>5 DEF Leaving
    <3>2. cnt[p] + sent[p] = accepted[p]
      BY <1>0, <3>1 DEF CountExact
    <3>3. sent'[p] = sent[p] /\ cnt'[p] = (IF p = q THEN cnt[p] + 1 ELSE cnt[p])
      BY <1>5 DEF TypeOK
    <3>4. accepted'[p] = (IF p = q THEN accepted[p] + 1 ELSE accepted[p])
      BY <1>5 DEF TypeOK
    <3> QED
      BY <1>0, <3>1, <3>2, <3>3, <3>4
  <2>2. Loaded'
    BY <1>1, <1>5 DEF Loaded
  <2> QED
    BY <2>1, <2>2 DEF CountExact
<1>9. CurrentIsOldest'
  <2> SUFFICES ASSUME pc = "tx"
               PROVE  cur \in 1 .. Size[que] /\ slots'[que][cur] = sent[que] + 1
    BY <1>5 DEF CurrentIsOldest
  <2>0. cur \in 1 .. Size[que] /\ slots[que][cur] = sent[que] + 1 /\ que \in Queues
    BY DEF CurrentIsOldest, TypeOK
  <2>1. CASE que # q
    BY <1>5, <2>0, <2>1 DEF TypeOK
  <2>2. CASE que = q
    <3>1. sent[q] + 1 <= accepted[q] /\ cnt[q] # 0
      BY <1>0, <1>2, <1>3, <2>0, <2>2 DEF Based
    <3>2. cur + b = sent[q] + 1
      BY <1>0, <1>2, <2>0, <2>2 DEF Based
    <3>3. cur # it
      BY <1>0, <1>4, <3>1, <3>2, <2>0
    <3> QED
      BY <1>5, <2>0, <2>2, <3>3 DEF TypeOK
  <2> QED
    BY <2>1, <2>2
<1>10. NoFrameStranded'
  BY <1>5 DEF NoFrameStranded
<1> QED
  BY <1>6, <1>7, <1>8, <1>9, <1>10

\* The steps of the handler that touch no slot.
LEMMA QuietLemma ==
  ASSUME IInv, Begin \/ ScanFound \/ ScanEmpty \/ TxFail \/ CntLoad
  PROVE  IInv'
PROOF
<1> USE DEF IInv
<1>0. \A p \in Queues : sent[p] \in Nat /\ accepted[p] \in Nat /\ cnt[p] \in Nat /\ Size[p] \in Nat
  BY NetQueueAssumption DEF TypeOK
<1>1. UNCHANGED <<slots, cnt, stop, accepted, sent>>
  BY DEF Begin, ScanFound, ScanEmpty, TxFail, CntLoad, LeaveLoop
<1>2. InSlots'
  BY <1>1 DEF InSlots, Based
<1>3. CASE Begin
  <2>1. TypeOK' /\ CountExact' /\ Loaded' /\ CurrentIsOldest'
    BY <1>0, <1>3 DEF Begin, TypeOK, CountExact, Leaving, Loaded, CurrentIsOldest, Queues
  <2>2. NoFrameStranded'
    BY <1>3 DEF Begin, NoFrameStranded, Queues
  <2> QED
    BY <1>2, <2>1, <2>2
<1>4. CASE ScanFound
  <2>1. PICK i \in 1 .. Size[que] : IsValid(que, i) /\ cur' = i
    BY <1>4 DEF ScanFound
  <2>2. slots[que][i] = sent[que] + 1
    BY <2>1, ValidLemma DEF TypeOK
  <2>3. pc' = "tx" /\ pc = "scan" /\ que' = que /\ work' = work /\ reg' = reg
    BY <1>4 DEF ScanFound
  <2>4. TypeOK' /\ CountExact' /\ Loaded'
    BY <1>0, <1>1, <2>1, <2>3 DEF TypeOK, CountExact, Leaving, Loaded
  <2>5. CurrentIsOldest'
    BY <1>1, <2>1, <2>2, <2>3 DEF CurrentIsOldest
  <2>6. NoFrameStranded'
    BY <1>1, <2>3 DEF NoFrameStranded
  <2> QED
    BY <1>2, <2>4, <2>5, <2>6
<1>5. CASE ScanEmpty
  <2>1. /\ pc = "scan" /\ pc' = (IF que = "cmd" THEN "scan" ELSE "idle")
        /\ que' = "data" /\ UNCHANGED <<cur, reg, work>>
    BY <1>5 DEF ScanEmpty, LeaveLoop
  <2>2. TypeOK' /\ CountExact' /\ Loaded' /\ CurrentIsOldest'
    BY <1>0, <1>1, <2>1 DEF TypeOK, CountExact, Leaving, Loaded, CurrentIsOldest, Queues
  <2>3. sent[que] = accepted[que]
    <3>1. que \in Queues /\ Used(que) = {}
      BY <1>5 DEF ScanEmpty, TypeOK
    <3>2. PICK b \in Nat : Based(que, b)
      BY <3>1 DEF InSlots
    <3>3. ~ sent[que] < accepted[que]
      BY <3>1, <3>2, LastUsedLemma
    <3> QED
      BY <1>0, <3>1, <3>2, <3>3 DEF Based
  <2>4. NoFrameStranded'
    <3> SUFFICES ASSUME NEW q \in Queues, sent[q] < accepted[q], ~work
                 PROVE  pc' # "idle" /\ (q = "data" \/ que' = "cmd")
      BY <1>1, <2>1 DEF NoFrameStranded
    <3>1. q # que /\ (q = "data" \/ que = "cmd")
      BY <1>0, <2>3 DEF NoFrameStranded
    <3> QED
      BY <2>1, <3>1 DEF Queues, TypeOK
  <2> QED
    BY <1>2, <2>2, <2>4
<1>6. CASE TxFail
  <2>1. /\ pc = "tx" /\ pc' = (IF que = "cmd" THEN "scan" ELSE "idle")
        /\ que' = "data" /\ UNCHANGED <<cur, reg>> /\ work' = TRUE
    BY <1>6 DEF TxFail, LeaveLoop
  <2>2. TypeOK' /\ CountExact' /\ Loaded' /\ CurrentIsOldest'
    BY <1>0, <1>1, <2>1 DEF TypeOK, CountExact, Leaving, Loaded, CurrentIsOldest, Queues
  <2>3. NoFrameStranded'
    BY <2>1 DEF NoFrameStranded
  <2> QED
    BY <1>2, <2>2, <2>3
<1>7. CASE CntLoad
  <2>1. pc = "load" /\ pc' = "store" /\ reg' = cnt[que] /\ UNCHANGED <<que, cur, work>>
    BY <1>7 DEF CntLoad
  <2>2. TypeOK' /\ CountExact' /\ Loaded' /\ CurrentIsOldest'
    BY <1>0, <1>1, <2>1 DEF TypeOK, CountExact, Leaving, Loaded, CurrentIsOldest
  <2>3. NoFrameStranded'
    BY <1>1, <2>1 DEF NoFrameStranded
  <2> QED
    BY <1>2, <2>2, <2>3
<1> QED
  BY <1>3, <1>4, <1>5, <1>6, <1>7

\* The oldest frame leaves its slot.
LEMMA TxOkLemma ==
  ASSUME IInv, TxOk
  PROVE  IInv' /\ sent'[que] = sent[que] + 1 /\ sent[que] < accepted[que]
PROOF
<1> USE DEF IInv
<1>0. /\ \A p \in Queues : Size[p] \in Nat
      /\ \A p \in Queues : sent[p] \in Nat /\ accepted[p] \in Nat /\ cnt[p] \in Nat
      /\ que \in Queues
  BY NetQueueAssumption DEF TypeOK
<1>1. pc = "tx" /\ cur \in 1 .. Size[que] /\ slots[que][cur] = sent[que] + 1
  BY DEF TxOk, CurrentIsOldest
<1>2. PICK b \in Nat : Based(que, b)
  BY <1>0 DEF InSlots
<1>3. cur + b = sent[que] + 1 /\ sent[que] + 1 <= accepted[que]
  BY <1>0, <1>1, <1>2 DEF Based
<1>4. /\ sent' = [sent EXCEPT ![que] = sent[que] + 1]
      /\ slots' = [slots EXCEPT ![que][cur] = 0]
      /\ pc' = "load"
      /\ UNCHANGED <<cnt, stop, work, que, cur, reg, accepted>>
  BY <1>1 DEF TxOk
<1>5. TypeOK'
  BY <1>0, <1>1, <1>4 DEF TypeOK
<1>6. InSlots'
  <2> SUFFICES ASSUME NEW p \in Queues PROVE (\E a \in Nat : Based(p, a))'
    BY DEF InSlots
  <2>1. CASE p = que
    <3>1. sent'[que] = sent[que] + 1 /\ accepted'[que] = accepted[que]
      BY <1>0, <1>4 DEF TypeOK
    <3>2. \A i \in 1 .. Size[que] :
            slots'[que][i] = IF i = cur THEN 0 ELSE slots[que][i]
      BY <1>0, <1>4 DEF TypeOK
    <3>3. \A i \in 1 .. Size[que] :
            slots'[que][i] = IF sent[que] + 1 < i + b /\ i + b <= accepted[que] THEN i + b ELSE 0
      BY <1>0, <1>1, <1>2, <1>3, <3>2 DEF Based
    <3>4. /\ b <= sent[que] + 1 /\ sent[que] + 1 <= accepted[que]
          /\ accepted[que] <= b + Size[que]
      BY <1>0, <1>2, <1>3 DEF Based
    <3>5. Based(p, b)'
      BY <1>4, <2>1, <3>1, <3>3, <3>4 DEF Based
    <3> QED
      BY <3>5
  <2>2. CASE p # que
    <3>1. slots'[p] = slots[p] /\ accepted'[p] = accepted[p] /\ sent'[p] = sent[p]
      BY <1>4, <2>2 DEF TypeOK
    <3> QED
      BY <3>1 DEF InSlots, Based
  <2> QED
    BY <2>1, <2>2
<1>7. CountExact' /\ Loaded' /\ CurrentIsOldest'
  BY <1>0, <1>1, <1>4 DEF CountExact, Leaving, Loaded, CurrentIsOldest, TypeOK
<1>8. NoFrameStranded'
  <2> SUFFICES ASSUME NEW q \in Queues, sent'[q] < accepted[q], ~work
               PROVE  q = "data" \/ que = "cmd"
    BY <1>4 DEF NoFrameStranded
  <2>1. sent[q] < accepted[q]
    BY <1>0, <1>4 DEF TypeOK
  <2> QED
    BY <2>1 DEF NoFrameStranded
<1> QED
  BY <1>0, <1>3, <1>4, <1>5, <1>6, <1>7, <1>8 DEF TypeOK

\* The count follows.
LEMMA CntStoreLemma ==
  ASSUME IInv, CntStore
  PROVE  IInv'
PROOF
<1> USE DEF IInv
<1>0. /\ \A p \in Queues : sent[p] \in Nat /\ accepted[p] \in Nat /\ cnt[p] \in Nat
      /\ que \in Queues
  BY DEF TypeOK
<1>1. /\ pc = "store" /\ pc' = "scan" /\ reg = cnt[que]
      /\ cnt' = [cnt EXCEPT ![que] = IF reg = 0 THEN cnt[que] ELSE reg - 1]
      /\ UNCHANGED <<slots, stop, work, que, cur, reg, accepted, sent>>
  BY DEF CntStore, Loaded
<1>2. InSlots'
  BY <1>1 DEF InSlots, Based
<1>3. reg # 0
  <2>1. \E b \in Nat : Based(que, b)
    BY <1>0 DEF InSlots
  <2>2. sent[que] <= accepted[que]
    BY <2>1 DEF Based
  <2>3. cnt[que] + sent[que] = accepted[que] + 1
    BY <1>0, <1>1 DEF CountExact, Leaving
  <2> QED
    BY <1>0, <1>1, <2>2, <2>3
<1>4. cnt' = [cnt EXCEPT ![que] = cnt[que] - 1] /\ cnt[que] # 0
  BY <1>1, <1>3
<1>5. TypeOK'
  BY <1>0, <1>1, <1>4 DEF TypeOK
<1>6. CountExact'
  BY <1>0, <1>1, <1>4 DEF CountExact, Leaving, TypeOK
<1>7. Loaded' /\ CurrentIsOldest' /\ NoFrameStranded'
  BY <1>1 DEF Loaded, CurrentIsOldest, NoFrameStranded
<1> QED
  BY <1>2, <1>5, <1>6, <1>7

LEMMA NextLemma ==
  ASSUME Preemptible = FALSE, IInv, [Next]_vars
  PROVE  IInv'
PROOF
<1>1. CASE Handler
  BY <1>1, QuietLemma, TxOkLemma, CntStoreLemma DEF Handler
<1>2. CASE \E q \in Queues : Xmit(q)
  BY <1>2, XmitLemma
<1>3. CASE Ioctl
  BY <1>3 DEF Ioctl, handlerVars, IInv, TypeOK, InSlots, Based, CountExact,
     Leaving, Loaded, CurrentIsOldest, NoFrameStranded
<1>4. CASE \E q \in Queues : XmitRefused(q)
  BY <1>4 DEF XmitRefused, handlerVars, IInv, TypeOK, InSlots, Based, CountExact,
     Leaving, Loaded, CurrentIsOldest, NoFrameStranded
<1>5. CASE UNCHANGED vars
  BY <1>5 DEF vars, IInv, TypeOK, InSlots, Based, CountExact,
     Leaving, Loaded, CurrentIsOldest, NoFrameStranded
<1> QED
  BY <1>1, <1>2, <1>3, <1>4, <1>5 DEF Next, Stack

-----------------------------------------------------------------------------
\* The invariant holds in every state of a handler that is not interrupted.
THEOREM InvTheorem ==
  ASSUME Preemptible = FALSE
  PROVE  Spec => []IInv
BY InitLemma, NextLemma, PTL DEF Spec

\* The variables keep their types (Init, gvspi_start_xmit, gvspi_tx_hdlr).
THEOREM TypeTheorem ==
  ASSUME Preemptible = FALSE
  PROVE  Spec => []TypeOK
BY InvTheorem, PTL DEF IInv

\* Every frame gvspi_start_xmit accepted stays in its slot until
\* gvspi_tx_hdlr has sent it.
THEOREM NoFrameLostTheorem ==
  ASSUME Preemptible = FALSE
  PROVE  Spec => []NoFrameLost
PROOF
<1>1. ASSUME IInv PROVE NoFrameLost
  <2> SUFFICES ASSUME NEW q \in Queues, NEW n \in sent[q] + 1 .. accepted[q]
               PROVE  \E i \in 1 .. Size[q] : slots[q][i] = n
    BY DEF NoFrameLost
  <2>0. Size[q] \in Nat /\ sent[q] \in Nat /\ accepted[q] \in Nat
    BY <1>1, NetQueueAssumption DEF IInv, TypeOK
  <2>1. PICK b \in Nat : Based(q, b)
    BY <1>1 DEF IInv, InSlots
  <2>2. n - b \in 1 .. Size[q] /\ (n - b) + b = n
    BY <2>0, <2>1 DEF Based
  <2>3. slots[q][n - b] = n
    BY <2>0, <2>1, <2>2 DEF Based
  <2> QED
    BY <2>2, <2>3
<1> QED
  BY <1>1, InvTheorem, PTL

\* The count that gvspi_skb_que_add tests is the number of waiting frames.
THEOREM CountTheorem ==
  ASSUME Preemptible = FALSE
  PROVE  Spec => []CountIsPending
PROOF
<1>1. ASSUME IInv PROVE CountIsPending
  BY <1>1 DEF IInv, TypeOK, CountExact, Leaving, CountIsPending
<1> QED
  BY <1>1, InvTheorem, PTL

\* The slot whose frame is being sent is not taken over while
\* spi_drv_intf.tx sleeps.
THEOREM CurrentTheorem ==
  ASSUME Preemptible = FALSE
  PROVE  Spec => []CurrentIsOldest
BY InvTheorem, PTL DEF IInv

\* No frame waits without the handler being scheduled.
THEOREM StrandedTheorem ==
  ASSUME Preemptible = FALSE
  PROVE  Spec => []NoFrameStranded
BY InvTheorem, PTL DEF IInv

\* The lists of the driver implement the abstract queue: frames are sent in
\* the order of their acceptance and once.
THEOREM RefinementTheorem ==
  ASSUME Preemptible = FALSE
  PROVE  Spec => ImplementsFifo
PROOF
<1>1. Init => F!Init
  BY DEF Init, F!Init
<1>2. ASSUME IInv, [Next]_vars PROVE [F!Next]_(F!vars)
  <2>1. CASE \E q \in Queues : Xmit(q)
    BY <2>1 DEF Xmit, F!Next, F!Accept
  <2>2. CASE TxOk
    <3>1. que \in Queues /\ sent[que] < accepted[que] /\ slots[que][cur] = sent[que] + 1
      BY <1>2, <2>2, TxOkLemma DEF IInv, TypeOK, TxOk, CurrentIsOldest
    <3>2. F!Send(que)
      BY <2>2, <3>1 DEF TxOk, F!Send
    <3> QED
      BY <3>1, <3>2 DEF F!Next
  <2>3. CASE UNCHANGED <<accepted, sent>>
    BY <2>3 DEF F!vars
  <2> QED
    BY <1>2, <2>1, <2>2, <2>3 DEF Next, Handler, Stack, Begin, ScanFound, ScanEmpty,
       LeaveLoop, TxFail, CntLoad, CntStore, Ioctl, XmitRefused, vars
<1>3. Init /\ []IInv /\ [][Next]_vars => F!Spec
  BY <1>1, <1>2, PTL DEF F!Spec
<1> QED
  BY <1>3, InvTheorem, PTL DEF Spec, ImplementsFifo
=============================================================================
