-------------------------------- MODULE Fifo --------------------------------
(***************************************************************************)
(* What the transmit side of a network driver promises its users: frames   *)
(* of one queue leave in the order in which they were accepted, each once, *)
(* and none that was accepted stays behind.  A frame is known by its       *)
(* number: the n-th accepted frame of a queue is n.                        *)
(***************************************************************************)
EXTENDS Naturals

CONSTANT Queues

VARIABLES accepted,   \* [Queues -> Nat], number of the last frame accepted
          sent        \* [Queues -> Nat], number of the last frame sent

vars == <<accepted, sent>>

Init ==
  /\ accepted = [q \in Queues |-> 0]
  /\ sent = [q \in Queues |-> 0]

Accept(q) ==
  /\ accepted' = [accepted EXCEPT ![q] = @ + 1]
  /\ UNCHANGED sent

Send(q) ==
  /\ sent[q] < accepted[q]
  /\ sent' = [sent EXCEPT ![q] = @ + 1]
  /\ UNCHANGED accepted

Next == \E q \in Queues : Accept(q) \/ Send(q)

Spec == Init /\ [][Next]_vars

FairSpec == Spec /\ \A q \in Queues : WF_vars(Send(q))
=============================================================================
