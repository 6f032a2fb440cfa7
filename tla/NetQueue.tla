------------------------------ MODULE NetQueue ------------------------------
(***************************************************************************)
(* The transmit queues of the Linux network driver gv701x_spi_net.c.       *)
(*                                                                         *)
(* gvspi_start_xmit puts command frames (Ethernet type 0x88e1) and data    *)
(* frames into two lists of fixed slots; the work item gvspi_tx_hdlr sends *)
(* them over SPI, commands first.  A new frame goes into the slot after    *)
(* the last used one, and into the first slot only when the count is zero: *)
(* the lists do not wrap.                                                  *)
(*                                                                         *)
(* gvspi_start_xmit holds tx_lock; gvspi_tx_hdlr takes no lock.  On the    *)
(* single processor of the host they interleave where the handler sleeps,  *)
(* inside spi_drv_intf.tx, and before it starts; when Preemptible is TRUE  *)
(* also between any two steps of the handler (a preemptible kernel, or a   *)
(* frame sent from a soft interrupt).                                      *)
(***************************************************************************)
EXTENDS Naturals

CONSTANTS Size,          \* MAX_GVSPI_CMD_QUE_SIZE and MAX_GVSPI_QUE_SIZE
          Preemptible,   \* gvspi_start_xmit may interrupt gvspi_tx_hdlr
          FramesMax      \* bound: frames accepted per queue

Queues == {"cmd", "data"}

\* A list of two slots or fewer would never take a frame.
ASSUME NetQueueAssumption ==
  /\ Size \in [Queues -> Nat]
  /\ \A q \in Queues : Size[q] >= 3
  /\ Preemptible \in BOOLEAN
  /\ FramesMax \in Nat

VARIABLES slots,      \* the frame in each slot, 0 where index is 0
          cnt,        \* gvspi_cmd_que_cnt, gvspi_que_cnt
          stop,       \* gstop_spi_data > 0
          work,       \* drv_tx_work is scheduled
          pc,         \* where gvspi_tx_hdlr is
          que,        \* the queue its current loop serves
          cur,        \* the slot it sends
          reg,        \* the count it has loaded
          accepted,   \* history: number of the last frame accepted
          sent        \* history: number of the last frame sent

vars == <<slots, cnt, stop, work, pc, que, cur, reg, accepted, sent>>
handlerVars == <<pc, que, cur, reg>>

\* gvspi_skb_que_init: both lists empty.
Init ==
  /\ slots = [q \in Queues |-> [i \in 1 .. Size[q] |-> 0]]
  /\ cnt = [q \in Queues |-> 0]
  /\ stop = FALSE /\ work = FALSE
  /\ pc = "idle" /\ que = "cmd" /\ cur = 1 /\ reg = 0
  /\ accepted = [q \in Queues |-> 0]
  /\ sent = [q \in Queues |-> 0]

-----------------------------------------------------------------------------
(***************************************************************************)
(* The lists.                                                              *)
(***************************************************************************)
Used(q) == {i \in 1 .. Size[q] : slots[q][i] # 0}

\* The slot gvspi_skb_que_add stops at: the last used one.
LastUsed(q) == CHOOSE i \in Used(q) : \A j \in Used(q) : j <= i

\* Whether gvspi_skb_que_add takes the frame: idx < MAX - 1 and item found.
Takes(q) ==
  \/ cnt[q] = 0
  \/ Used(q) # {} /\ LastUsed(q) < Size[q] - 1

(* Mutant: the frame goes into the last used slot. *)
ItemFor_Mutation(q) == IF cnt[q] = 0 THEN 1 ELSE LastUsed(q)

\* The slot it fills.
ItemFor(q) == IF cnt[q] = 0 THEN 1 ELSE LastUsed(q) + 1

(* Mutant: the last frame of the list instead of the first. *)
IsValid_Mutation(q, i) == i \in Used(q) /\ \A j \in Used(q) : j <= i

\* gvspi_skb_que_get_valid returns the first used slot.
IsValid(q, i) == i \in Used(q) /\ \A j \in Used(q) : i <= j

-----------------------------------------------------------------------------
(***************************************************************************)
(* gvspi_start_xmit: a frame of the network stack.  It is dropped while    *)
(* the interface is disconnected or its length is wrong; nothing changes.  *)
(* When the list does not take it, it is freed and the handler scheduled.  *)
(***************************************************************************)
MayXmit == Preemptible \/ pc \in {"idle", "tx"}

(* Mutant: a frame taken while the handler runs does not schedule it. *)
Xmit_Mutation(q) ==
  /\ MayXmit /\ ~stop
  /\ accepted[q] < FramesMax
  /\ Takes(q)
  /\ accepted' = [accepted EXCEPT ![q] = @ + 1]
  /\ slots' = [slots EXCEPT ![q][ItemFor(q)] = accepted[q] + 1]
  /\ cnt' = [cnt EXCEPT ![q] = @ + 1]
  /\ work' = (work \/ pc = "idle")
  /\ UNCHANGED <<stop, handlerVars, sent>>

Xmit(q) ==
  /\ MayXmit /\ ~stop
  /\ accepted[q] < FramesMax
  /\ Takes(q)
  /\ accepted' = [accepted EXCEPT ![q] = @ + 1]
  /\ slots' = [slots EXCEPT ![q][ItemFor(q)] = accepted[q] + 1]
  /\ cnt' = [cnt EXCEPT ![q] = @ + 1]
  /\ work' = TRUE
  /\ UNCHANGED <<stop, handlerVars, sent>>

XmitRefused(q) ==
  /\ MayXmit /\ ~stop
  /\ ~Takes(q)
  /\ work' = TRUE
  /\ UNCHANGED <<slots, cnt, stop, handlerVars, accepted, sent>>

\* gvspi_ioctl: SPI_CONNECT and SPI_DISCONNECT.
Ioctl ==
  /\ MayXmit
  /\ stop' = ~stop
  /\ UNCHANGED <<slots, cnt, work, handlerVars, accepted, sent>>

-----------------------------------------------------------------------------
(***************************************************************************)
(* gvspi_tx_hdlr: a loop over the command list, then one over the data     *)
(* list.  schedule_work of a running work item queues it once more.        *)
(***************************************************************************)
Begin ==
  /\ pc = "idle" /\ work
  /\ work' = FALSE
  /\ pc' = "scan" /\ que' = "cmd"
  /\ UNCHANGED <<slots, cnt, stop, cur, reg, accepted, sent>>

\* get_valid finds a frame; spi_drv_intf.tx is called.
ScanFound ==
  /\ pc = "scan"
  /\ \E i \in 1 .. Size[que] : IsValid(que, i) /\ cur' = i
  /\ pc' = "tx"
  /\ UNCHANGED <<slots, cnt, stop, work, que, reg, accepted, sent>>

\* The command loop ends with break, the data loop with return.
LeaveLoop ==
  /\ pc' = IF que = "cmd" THEN "scan" ELSE "idle"
  /\ que' = "data"
  /\ UNCHANGED <<slots, cnt, stop, cur, reg, accepted, sent>>

ScanEmpty ==
  /\ pc = "scan"
  /\ Used(que) = {}
  /\ LeaveLoop
  /\ UNCHANGED work

(* Mutant: a failed transmission does not schedule the handler again. *)
TxFail_Mutation ==
  /\ pc = "tx"
  /\ LeaveLoop
  /\ UNCHANGED work

\* spi_drv_intf.tx returned an error: the frame stays in its slot.
TxFail ==
  /\ pc = "tx"
  /\ LeaveLoop
  /\ work' = TRUE

\* It succeeded: kfree_skb, and gvspi_skb_que_remove empties the slot.
TxOk ==
  /\ pc = "tx"
  /\ sent' = [sent EXCEPT ![que] = slots[que][cur]]
  /\ slots' = [slots EXCEPT ![que][cur] = 0]
  /\ pc' = "load"
  /\ UNCHANGED <<cnt, stop, work, que, cur, reg, accepted>>

\* if (gvspi_que_cnt) gvspi_que_cnt--, a load and a store.
CntLoad ==
  /\ pc = "load"
  /\ reg' = cnt[que]
  /\ pc' = "store"
  /\ UNCHANGED <<slots, cnt, stop, work, que, cur, accepted, sent>>

(* Mutant: the count is left as it was. *)
CntStore_Mutation ==
  /\ pc = "store"
  /\ pc' = "scan"
  /\ UNCHANGED <<slots, cnt, stop, work, que, cur, reg, accepted, sent>>

CntStore ==
  /\ pc = "store"
  /\ cnt' = [cnt EXCEPT ![que] = IF reg = 0 THEN cnt[que] ELSE reg - 1]
  /\ pc' = "scan"
  /\ UNCHANGED <<slots, stop, work, que, cur, reg, accepted, sent>>

Handler == Begin \/ ScanFound \/ ScanEmpty \/ TxFail \/ TxOk \/ CntLoad \/ CntStore

Stack == Ioctl \/ \E q \in Queues : Xmit(q) \/ XmitRefused(q)

Next == Handler \/ Stack

Spec == Init /\ [][Next]_vars

(***************************************************************************)
(* The work queue runs its items, and a transmission that is tried for     *)
(* ever succeeds in the end; the stack is under no obligation.             *)
(***************************************************************************)
FairSpec == Spec /\ WF_vars(Handler) /\ SF_vars(TxOk)

-----------------------------------------------------------------------------
(***************************************************************************)
(* Properties.                                                             *)
(***************************************************************************)
TypeOK ==
  /\ DOMAIN slots = Queues
  /\ \A q \in Queues : slots[q] \in [1 .. Size[q] -> Nat]
  /\ cnt \in [Queues -> Nat]
  /\ stop \in BOOLEAN /\ work \in BOOLEAN
  /\ pc \in {"idle", "scan", "tx", "load", "store"}
  /\ que \in Queues
  /\ cur \in Nat /\ reg \in Nat
  /\ accepted \in [Queues -> Nat] /\ sent \in [Queues -> Nat]

\* The slots gvspi_skb_que_add fills never overtake the ones the handler
\* frees: every accepted frame that was not sent is still in a slot.
NoFrameLost ==
  \A q \in Queues : \A n \in sent[q] + 1 .. accepted[q] :
    \E i \in 1 .. Size[q] : slots[q][i] = n

\* The count on which gvspi_skb_que_add decides between the first slot and
\* the one after the last is the number of frames that wait, when
\* gvspi_start_xmit may look at it.
CountIsPending ==
  pc \in {"idle", "scan", "tx"} =>
    \A q \in Queues : cnt[q] + sent[q] = accepted[q]

\* While spi_drv_intf.tx sleeps the slot it was called for keeps its frame:
\* what the handler frees afterwards is the frame it has sent.
CurrentIsOldest ==
  pc = "tx" => cur \in 1 .. Size[que] /\ slots[que][cur] = sent[que] + 1

\* No wake-up is lost: while a frame waits, the handler is scheduled or has
\* not yet looked at that frame's list for the last time.
NoFrameStranded ==
  \A q \in Queues :
    sent[q] < accepted[q] =>
      \/ work
      \/ pc # "idle" /\ (q = "data" \/ que = "cmd")

\* The lists implement the abstract queue: frames leave in order, once, and
\* in the end all of them.
F == INSTANCE Fifo
ImplementsFifo == F!Spec
ImplementsFairFifo == F!FairSpec

=============================================================================
