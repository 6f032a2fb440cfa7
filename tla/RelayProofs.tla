----------------------------- MODULE RelayProofs ----------------------------
(***************************************************************************)
(* Proofs about the relay, for every number of descriptors, of frames of   *)
(* the board and of times the tool goes away.                              *)
(***************************************************************************)
EXTENDS Relay, FiniteSetTheorems, WellFoundedInduction, TLAPS

-----------------------------------------------------------------------------
(***************************************************************************)
(* The inductive invariant.                                                *)
(***************************************************************************)
Closing == {"c1", "c2", "c3", "c4"}

\* An actor is in its own code, or in close_eth_socket with calls left.
InCode(a, own, returns) ==
  \/ pc[a] \in own /\ closes[a] = 0
  \/ pc[a] \in Closing /\ closes[a] > 0 /\ ret[a] \in returns

Placed ==
  /\ InCode("eth", {"top", "blocked", "lock", "run", "retry", "socket", "connect", "done"},
                   {"done", "retry", "socket"})
  /\ InCode("spi", {"top", "recv", "lock", "test", "send", "unlock", "done"}, {"unlock"})
  /\ InCode("sig", {"wait", "done"}, {"done"})
  /\ pc["sig"] = "wait" <=> continue

\* Every frame read from the board was sent, not sent, or is in hand.
Counted ==
  log.delivered + log.failed + (IF pc["spi"] \in {"lock", "test", "send"} THEN 1 ELSE 0) =< log.read

(***************************************************************************)
(* Only the Ethernet thread gives eth_sockfd a new socket: where it waits  *)
(* in recv the others can only have taken the socket away, and where it    *)
(* has come from a failed recv or connect there is no live connection to   *)
(* hang up on.                                                             *)
(***************************************************************************)
Sockets ==
  /\ pc["eth"] = "blocked" => file # None /\ Current \in {file, None}
  /\ pc["eth"] = "socket" => sockfd = None
  /\ pc["eth"] = "c4" => Current = None
  /\ pc["eth"] \in {"retry"} \cup Closing /\ continue => ~Usable
  /\ pc["eth"] = "connect" => ~Usable

Leaked == Open \ {sockfd}

\* Each close_eth_socket of the other threads may still cost a descriptor.
Budget ==
  Cardinality(Leaked) + closes["spi"] + closes["sig"]
    =< 4 * log.failed + (IF continue THEN 0 ELSE 1)

\* As long as the tool was there, the relay uses the socket that main opened.
Steady ==
  log.downs = 0 /\ continue =>
    /\ toolUp
    /\ sockfd = 1 /\ fds[1] = 1 /\ link[1] = "up"
    /\ pc["eth"] \in {"top", "blocked", "lock", "run"}
    /\ pc["eth"] = "blocked" => file = 1
    /\ pc["spi"] \in {"top", "recv", "lock", "test", "send", "unlock"}
    /\ log.read = log.delivered + (IF pc["spi"] \in {"lock", "test", "send"} THEN 1 ELSE 0)

IInv == TypeOK /\ Placed /\ Counted /\ Sockets /\ Budget /\ Steady

-----------------------------------------------------------------------------
\* A set of descriptors that is not empty has a smallest one.
LEMMA MinLemma ==
  ASSUME NEW S \in SUBSET Fds, S # {}
  PROVE  Min(S) \in S
<1>1. S \subseteq Nat
  BY RelayAssumption DEF Fds
<1>2. PICK i \in S : \A j \in S : <<j, i>> \notin OpToRel(<, Nat)
  BY <1>1, WFMin, NatLessThanWellFounded
<1>3. \A j \in S : ~ (j < i)
  BY <1>1, <1>2 DEF OpToRel
<1>4. \A j \in S : i <= j
  BY <1>1, <1>3
<1> QED BY <1>4 DEF Min

\* What a call of close_eth_socket or error does to the places.
LEMMA CallLemma ==
  ASSUME TypeOK, NEW a \in Actors, NEW n \in 1 .. 4, NEW p \in Places, Call(a, n, p)
  PROVE  /\ pc' \in [Actors -> Places] /\ closes' \in [Actors -> 0 .. 4] /\ ret' \in [Actors -> Places]
         /\ pc'[a] = "c1" /\ closes'[a] = n /\ ret'[a] = p
         /\ \A b \in Actors : b # a => pc'[b] = pc[b] /\ closes'[b] = closes[b] /\ ret'[b] = ret[b]
BY DEF TypeOK, Call, Places

LEMMA GotoLemma ==
  ASSUME TypeOK, NEW a \in Actors, NEW p \in Places, Goto(a, p)
  PROVE  /\ pc' \in [Actors -> Places] /\ pc'[a] = p
         /\ \A b \in Actors : b # a => pc'[b] = pc[b]
BY DEF TypeOK, Goto

(***************************************************************************)
(* TypeOK, Placed and Counted are preserved.                               *)
(***************************************************************************)
Control == TypeOK /\ Placed /\ Counted

LEMMA CloseControl ==
  ASSUME Control, NEW a \in Actors, Close(a)
  PROVE  Control'
<1>0. TypeOK /\ Placed /\ Counted
  BY DEF Control
<1>1. CASE CloseTest(a)
  <2>1. /\ pc[a] = "c1" /\ UNCHANGED <<sockfd, fds, link, wire, closes, ret, file, mutex, continue, toolUp, log>>
        /\ \E p \in {"c2", "c4"} : Goto(a, p)
    BY <1>1 DEF CloseTest
  <2>2. /\ pc' \in [Actors -> Places] /\ pc'[a] \in {"c2", "c4"}
        /\ \A b \in Actors : b # a => pc'[b] = pc[b]
    BY <1>0, <2>1, GotoLemma DEF Places
  <2>3. TypeOK'
    BY <1>0, <2>1, <2>2 DEF TypeOK
  <2>4. Placed' /\ Counted'
    BY <1>0, <2>1, <2>2 DEF Placed, InCode, Closing, Counted, Actors
  <2> QED BY <2>3, <2>4 DEF Control
<1>2. CASE CloseShutdown(a)
  <2>1. /\ pc[a] = "c2" /\ UNCHANGED <<sockfd, fds, wire, closes, ret, file, mutex, continue, toolUp, log>>
        /\ Goto(a, "c3") /\ link' = [f \in Fds |-> IF f = Current /\ link[f] = "up" THEN "dead" ELSE link[f]]
    BY <1>2 DEF CloseShutdown
  <2>2. /\ pc' \in [Actors -> Places] /\ pc'[a] = "c3"
        /\ \A b \in Actors : b # a => pc'[b] = pc[b]
    BY <1>0, <2>1, GotoLemma DEF Places
  <2>3. TypeOK'
    BY <1>0, <2>1, <2>2 DEF TypeOK
  <2>4. Placed' /\ Counted'
    BY <1>0, <2>1, <2>2 DEF Placed, InCode, Closing, Counted, Actors
  <2> QED BY <2>3, <2>4 DEF Control
<1>3. CASE CloseClose(a)
  <2>1. /\ pc[a] = "c3" /\ UNCHANGED <<sockfd, closes, ret, file, mutex, continue, toolUp, log>>
        /\ Goto(a, "c4")
    BY <1>3 DEF CloseClose
  <2>2. /\ pc' \in [Actors -> Places] /\ pc'[a] = "c4"
        /\ \A b \in Actors : b # a => pc'[b] = pc[b]
    BY <1>0, <2>1, GotoLemma DEF Places
  <2>3. /\ fds' \in [Fds -> Fds \cup {None}] /\ wire' \subseteq Fds
        /\ link' \in [Fds -> {"free", "new", "up", "dead"}]
    BY <1>0, <1>3 DEF CloseClose, TypeOK, Released
  <2>4. TypeOK'
    BY <1>0, <2>1, <2>2, <2>3 DEF TypeOK
  <2>5. Placed' /\ Counted'
    BY <1>0, <2>1, <2>2 DEF Placed, InCode, Closing, Counted, Actors
  <2> QED BY <2>4, <2>5 DEF Control
<1>4. CASE CloseAssign(a)
  <2>1. /\ pc[a] = "c4" /\ sockfd' = None
        /\ UNCHANGED <<fds, link, wire, ret, file, mutex, continue, toolUp, log>>
        /\ Goto(a, IF closes[a] > 1 THEN "c1" ELSE ret[a])
        /\ closes' = [closes EXCEPT ![a] = closes[a] - 1]
    BY <1>4 DEF CloseAssign
  <2>2. closes[a] \in 1 .. 4 /\ ret[a] \in Places
    BY <1>0, <2>1 DEF Placed, InCode, Actors, TypeOK
  <2>3. (IF closes[a] > 1 THEN "c1" ELSE ret[a]) \in Places
    BY <2>2 DEF Places
  <2>4. /\ pc' \in [Actors -> Places] /\ pc'[a] = (IF closes[a] > 1 THEN "c1" ELSE ret[a])
        /\ \A b \in Actors : b # a => pc'[b] = pc[b]
    BY <1>0, <2>1, <2>3, GotoLemma
  <2>5. /\ closes' \in [Actors -> 0 .. 4] /\ closes'[a] = closes[a] - 1
        /\ \A b \in Actors : b # a => closes'[b] = closes[b]
    BY <1>0, <2>1, <2>2 DEF TypeOK
  <2>6. TypeOK'
    BY <1>0, <2>1, <2>4, <2>5 DEF TypeOK
  <2>7. Placed' /\ Counted'
    BY <1>0, <2>1, <2>2, <2>4, <2>5 DEF Placed, InCode, Closing, Counted, Actors
  <2> QED BY <2>6, <2>7 DEF Control
<1> QED BY <1>1, <1>2, <1>3, <1>4 DEF Close

\* The Ethernet thread outside close_eth_socket.
LEMMA EthControl ==
  ASSUME Control, Eth, ~Close("eth")
  PROVE  Control'
<1>0. TypeOK /\ Placed /\ Counted /\ "eth" \in Actors /\ "spi" \in Actors /\ "sig" \in Actors
  BY DEF Control, Actors
<1>1. CASE EthTop
  <2>1. /\ pc["eth"] = "top" /\ UNCHANGED <<sockfd, fds, link, wire, mutex, continue, toolUp, log>>
        /\ file' \in Fds \cup {None}
    BY <1>0, <1>1 DEF EthTop, Current, TypeOK
  <2>2. \/ \E n \in 1 .. 4, p \in {"done", "retry"} : Call("eth", n, p)
        \/ Goto("eth", "blocked") /\ UNCHANGED <<closes, ret>>
    BY <1>1 DEF EthTop, Error
  <2>3. CASE \E n \in 1 .. 4, p \in {"done", "retry"} : Call("eth", n, p)
    <3>1. PICK n \in 1 .. 4, p \in {"done", "retry"} : Call("eth", n, p)
      BY <2>3
    <3>2. /\ pc' \in [Actors -> Places] /\ closes' \in [Actors -> 0 .. 4] /\ ret' \in [Actors -> Places]
          /\ pc'["eth"] = "c1" /\ closes'["eth"] = n /\ ret'["eth"] = p
          /\ \A b \in Actors : b # "eth" => pc'[b] = pc[b] /\ closes'[b] = closes[b] /\ ret'[b] = ret[b]
      BY <1>0, <3>1, CallLemma DEF Places
    <3>3. TypeOK'
      BY <1>0, <2>1, <3>2 DEF TypeOK
    <3>4. Placed' /\ Counted'
      BY <1>0, <2>1, <3>2 DEF Placed, InCode, Closing, Counted
    <3> QED BY <3>3, <3>4 DEF Control
  <2>4. CASE Goto("eth", "blocked") /\ UNCHANGED <<closes, ret>>
    <3>1. /\ pc' \in [Actors -> Places] /\ pc'["eth"] = "blocked"
          /\ \A b \in Actors : b # "eth" => pc'[b] = pc[b]
      BY <1>0, <2>4, GotoLemma DEF Places
    <3>2. TypeOK'
      BY <1>0, <2>1, <2>4, <3>1 DEF TypeOK
    <3>3. Placed' /\ Counted'
      BY <1>0, <2>1, <2>4, <3>1 DEF Placed, InCode, Closing, Counted
    <3> QED BY <3>2, <3>3 DEF Control
  <2> QED BY <2>2, <2>3, <2>4
<1>2. CASE EthReadFrame
  <2>1. /\ pc["eth"] = "blocked" /\ UNCHANGED <<sockfd, fds, closes, ret, mutex, continue, toolUp, log>>
        /\ file' = None /\ link' \in [Fds -> {"free", "new", "up", "dead"}] /\ wire' \subseteq Fds
        /\ \E p \in {"lock", "top"} : Goto("eth", p)
    BY <1>0, <1>2 DEF EthReadFrame, Unblock, Released, TypeOK
  <2>2. /\ pc' \in [Actors -> Places] /\ pc'["eth"] \in {"lock", "top"}
        /\ \A b \in Actors : b # "eth" => pc'[b] = pc[b]
    BY <1>0, <2>1, GotoLemma DEF Places
  <2>3. TypeOK'
    BY <1>0, <2>1, <2>2 DEF TypeOK
  <2>4. Placed' /\ Counted'
    BY <1>0, <2>1, <2>2 DEF Placed, InCode, Closing, Counted
  <2> QED BY <2>3, <2>4 DEF Control
<1>3. CASE EthReadEnd \/ EthRetry \/ EthConnect
  <2>1. /\ pc["eth"] \in {"blocked", "retry", "connect"}
        /\ UNCHANGED <<sockfd, fds, wire, mutex, continue, toolUp, log>>
        /\ file' \in Fds \cup {None}
        /\ link' \in [Fds -> {"free", "new", "up", "dead"}]
    BY <1>0, <1>3 DEF EthReadEnd, EthRetry, EthConnect, Unblock, Released, TypeOK
  <2>2. \/ \E n \in 1 .. 4, p \in {"retry", "socket"} : Call("eth", n, p)
        \/ Goto("eth", "top") /\ UNCHANGED <<closes, ret>>
    BY <1>3 DEF EthReadEnd, EthRetry, EthConnect, Error
  <2>3. CASE \E n \in 1 .. 4, p \in {"retry", "socket"} : Call("eth", n, p)
    <3>1. PICK n \in 1 .. 4, p \in {"retry", "socket"} : Call("eth", n, p)
      BY <2>3
    <3>2. /\ pc' \in [Actors -> Places] /\ closes' \in [Actors -> 0 .. 4] /\ ret' \in [Actors -> Places]
          /\ pc'["eth"] = "c1" /\ closes'["eth"] = n /\ ret'["eth"] = p
          /\ \A b \in Actors : b # "eth" => pc'[b] = pc[b] /\ closes'[b] = closes[b] /\ ret'[b] = ret[b]
      BY <1>0, <3>1, CallLemma DEF Places
    <3>3. TypeOK'
      BY <1>0, <2>1, <3>2 DEF TypeOK
    <3>4. Placed' /\ Counted'
      BY <1>0, <2>1, <3>2 DEF Placed, InCode, Closing, Counted
    <3> QED BY <3>3, <3>4 DEF Control
  <2>4. CASE Goto("eth", "top") /\ UNCHANGED <<closes, ret>>
    <3>1. /\ pc' \in [Actors -> Places] /\ pc'["eth"] = "top"
          /\ \A b \in Actors : b # "eth" => pc'[b] = pc[b]
      BY <1>0, <2>4, GotoLemma DEF Places
    <3>2. TypeOK'
      BY <1>0, <2>1, <2>4, <3>1 DEF TypeOK
    <3>3. Placed' /\ Counted'
      BY <1>0, <2>1, <2>4, <3>1 DEF Placed, InCode, Closing, Counted
    <3> QED BY <3>2, <3>3 DEF Control
  <2> QED BY <2>2, <2>3, <2>4
<1>4. CASE EthLock \/ EthRun
  <2>1. /\ pc["eth"] \in {"lock", "run"} /\ mutex' \in {"free", "eth", "spi"}
        /\ UNCHANGED <<sockfd, fds, link, wire, closes, ret, file, continue, toolUp, log>>
        /\ \E p \in {"run", "top"} : Goto("eth", p)
    BY <1>4 DEF EthLock, EthRun
  <2>2. /\ pc' \in [Actors -> Places] /\ pc'["eth"] \in {"run", "top"}
        /\ \A b \in Actors : b # "eth" => pc'[b] = pc[b]
    BY <1>0, <2>1, GotoLemma DEF Places
  <2>3. TypeOK'
    BY <1>0, <2>1, <2>2 DEF TypeOK
  <2>4. Placed' /\ Counted'
    BY <1>0, <2>1, <2>2 DEF Placed, InCode, Closing, Counted
  <2> QED BY <2>3, <2>4 DEF Control
<1>5. CASE EthSocket
  <2>1. /\ pc["eth"] = "socket" /\ UNCHANGED <<wire, closes, ret, file, mutex, continue, toolUp, log>>
        /\ Goto("eth", "connect")
    BY <1>5 DEF EthSocket
  <2>2. /\ sockfd' \in Fds /\ fds' \in [Fds -> Fds \cup {None}]
        /\ link' \in [Fds -> {"free", "new", "up", "dead"}]
    <3> DEFINE free == {d \in Fds : fds[d] = None}
               new  == {f \in Fds : link[f] = "free"}
    <3>1. Min(free) \in Fds /\ Min(new) \in Fds
      BY <1>5, MinLemma DEF EthSocket
    <3> QED BY <1>0, <1>5, <3>1 DEF EthSocket, TypeOK
  <2>3. /\ pc' \in [Actors -> Places] /\ pc'["eth"] = "connect"
        /\ \A b \in Actors : b # "eth" => pc'[b] = pc[b]
    BY <1>0, <2>1, GotoLemma DEF Places
  <2>4. TypeOK'
    BY <1>0, <2>1, <2>2, <2>3 DEF TypeOK
  <2>5. Placed' /\ Counted'
    BY <1>0, <2>1, <2>3 DEF Placed, InCode, Closing, Counted
  <2> QED BY <2>4, <2>5 DEF Control
<1> QED BY <1>1, <1>2, <1>3, <1>4, <1>5 DEF Eth

\* The GVSPI thread outside close_eth_socket.
LEMMA SpiControl ==
  ASSUME Control, Spi \/ SpiRead, ~Close("spi")
  PROVE  Control'
<1>0. TypeOK /\ Placed /\ Counted /\ "eth" \in Actors /\ "spi" \in Actors /\ "sig" \in Actors
  BY DEF Control, Actors
<1>t. log \in LogType /\ RespMax \in Nat
  BY <1>0, RelayAssumption DEF TypeOK
<1>1. CASE SpiRead
  <2>1. /\ pc["spi"] = "recv"
        /\ UNCHANGED <<sockfd, fds, link, wire, closes, ret, file, mutex, continue, toolUp>>
        /\ \/ /\ Goto("spi", "lock") /\ log.read < RespMax
              /\ log' = [log EXCEPT !.read = log.read + 1]
           \/ Goto("spi", "top") /\ log' = log
    BY <1>1 DEF SpiRead
  <2>2. /\ pc' \in [Actors -> Places] /\ pc'["spi"] \in {"lock", "top"}
        /\ pc'["spi"] = "lock" => log' = [log EXCEPT !.read = log.read + 1] /\ log.read < RespMax
        /\ pc'["spi"] = "top" => log' = log
        /\ \A b \in Actors : b # "spi" => pc'[b] = pc[b]
    BY <1>0, <2>1, GotoLemma DEF Places
  <2>3. /\ log' \in LogType
        /\ log'.read = IF pc'["spi"] = "lock" THEN log.read + 1 ELSE log.read
        /\ log'.delivered = log.delivered /\ log'.failed = log.failed
    BY <1>t, <2>2 DEF LogType
  <2>4. TypeOK'
    BY <1>0, <2>1, <2>2, <2>3 DEF TypeOK
  <2>5. Counted'
    BY <1>0, <1>t, <2>1, <2>2, <2>3 DEF Counted, LogType
  <2>6. Placed'
    BY <1>0, <2>1, <2>2 DEF Placed, InCode, Closing
  <2> QED BY <2>4, <2>5, <2>6 DEF Control
<1>2. CASE SpiTop \/ SpiLock \/ SpiTest \/ SpiUnlock
  <2>1. /\ UNCHANGED <<sockfd, fds, link, wire, closes, ret, file, continue, toolUp, log>>
        /\ mutex' \in {"free", "eth", "spi"}
        /\ \/ pc["spi"] = "top" /\ Goto("spi", "done")
           \/ pc["spi"] = "top" /\ Goto("spi", "recv")
           \/ pc["spi"] = "lock" /\ Goto("spi", "test")
           \/ pc["spi"] = "test" /\ Goto("spi", "unlock")
           \/ pc["spi"] = "test" /\ Goto("spi", "send")
           \/ pc["spi"] = "unlock" /\ Goto("spi", "top")
    BY <1>0, <1>2 DEF SpiTop, SpiLock, SpiTest, SpiUnlock, TypeOK
  <2>2. /\ pc' \in [Actors -> Places]
        /\ <<pc["spi"], pc'["spi"]>> \in {<<"top", "done">>, <<"top", "recv">>, <<"lock", "test">>,
                                         <<"test", "unlock">>, <<"test", "send">>, <<"unlock", "top">>}
        /\ \A b \in Actors : b # "spi" => pc'[b] = pc[b]
    BY <1>0, <2>1, GotoLemma DEF Places
  <2>3. TypeOK'
    BY <1>0, <2>1, <2>2 DEF TypeOK
  <2>4. Counted'
    BY <1>0, <1>t, <2>1, <2>2 DEF Counted, LogType
  <2>5. Placed'
    BY <1>0, <2>1, <2>2 DEF Placed, InCode, Closing
  <2> QED BY <2>3, <2>4, <2>5 DEF Control
<1>3. CASE SpiSend
  <2>1. /\ pc["spi"] = "send" /\ UNCHANGED <<sockfd, fds, link, wire, file, mutex, continue, toolUp>>
        /\ \/ Goto("spi", "unlock") /\ UNCHANGED <<closes, ret>>
              /\ (log' = log \/ log' = [log EXCEPT !.delivered = log.delivered + 1])
           \/ /\ \E n \in 1 .. 4 : Call("spi", n, "unlock")
              /\ log' = [log EXCEPT !.failed = log.failed + 1]
    BY <1>3 DEF SpiSend, Error
  <2>2. log.delivered + log.failed + 1 =< log.read
    BY <1>0, <2>1 DEF Counted
  <2>3. CASE /\ Goto("spi", "unlock") /\ UNCHANGED <<closes, ret>>
             /\ (log' = log \/ log' = [log EXCEPT !.delivered = log.delivered + 1])
    <3>1. /\ pc' \in [Actors -> Places] /\ pc'["spi"] = "unlock"
          /\ \A b \in Actors : b # "spi" => pc'[b] = pc[b]
      BY <1>0, <2>3, GotoLemma DEF Places
    <3>2. /\ log' \in LogType /\ log'.read = log.read /\ log'.failed = log.failed
          /\ log'.delivered \in {log.delivered, log.delivered + 1}
      BY <1>t, <2>2, <2>3 DEF LogType
    <3>3. TypeOK'
      BY <1>0, <2>1, <2>3, <3>1, <3>2 DEF TypeOK
    <3>4. Counted'
      BY <1>t, <2>2, <3>1, <3>2 DEF Counted, LogType
    <3>5. Placed'
      BY <1>0, <2>1, <2>3, <3>1 DEF Placed, InCode, Closing
    <3> QED BY <3>3, <3>4, <3>5 DEF Control
  <2>4. ASSUME NEW n \in 1 .. 4, Call("spi", n, "unlock"), log' = [log EXCEPT !.failed = log.failed + 1]
        PROVE  Control'
    <3>1. /\ pc' \in [Actors -> Places] /\ closes' \in [Actors -> 0 .. 4] /\ ret' \in [Actors -> Places]
          /\ pc'["spi"] = "c1" /\ closes'["spi"] = n /\ ret'["spi"] = "unlock"
          /\ \A b \in Actors : b # "spi" => pc'[b] = pc[b] /\ closes'[b] = closes[b] /\ ret'[b] = ret[b]
      BY <1>0, <2>4, CallLemma DEF Places
    <3>2. /\ log' \in LogType /\ log'.read = log.read /\ log'.delivered = log.delivered
          /\ log'.failed = log.failed + 1
      BY <1>t, <2>2, <2>4 DEF LogType
    <3>3. TypeOK'
      BY <1>0, <2>1, <3>1, <3>2 DEF TypeOK
    <3>4. Counted'
      BY <1>t, <2>2, <3>1, <3>2 DEF Counted, LogType
    <3>5. Placed'
      BY <1>0, <2>1, <3>1 DEF Placed, InCode, Closing
    <3> QED BY <3>3, <3>4, <3>5 DEF Control
  <2> QED BY <2>1, <2>3, <2>4
<1> QED BY <1>1, <1>2, <1>3 DEF Spi

\* The signal handler, the tool, and a step that changes nothing.
LEMMA OtherControl ==
  ASSUME Control, SigTerm \/ ToolDown \/ ToolStart \/ ToolSend \/ UNCHANGED vars
  PROVE  Control'
<1>0. TypeOK /\ Placed /\ Counted /\ "eth" \in Actors /\ "spi" \in Actors /\ "sig" \in Actors
  BY DEF Control, Actors
<1>1. CASE SigTerm
  <2>1. /\ pc["sig"] = "wait" /\ continue' = FALSE /\ Call("sig", 1, "done")
        /\ UNCHANGED <<sockfd, fds, link, wire, file, mutex, toolUp, log>>
    BY <1>1 DEF SigTerm
  <2>2. /\ pc' \in [Actors -> Places] /\ closes' \in [Actors -> 0 .. 4] /\ ret' \in [Actors -> Places]
        /\ pc'["sig"] = "c1" /\ closes'["sig"] = 1 /\ ret'["sig"] = "done"
        /\ \A b \in Actors : b # "sig" => pc'[b] = pc[b] /\ closes'[b] = closes[b] /\ ret'[b] = ret[b]
    BY <1>0, <2>1, CallLemma DEF Places
  <2>3. TypeOK'
    BY <1>0, <2>1, <2>2 DEF TypeOK
  <2>4. Placed' /\ Counted'
    BY <1>0, <2>1, <2>2 DEF Placed, InCode, Closing, Counted
  <2> QED BY <2>3, <2>4 DEF Control
<1>2. CASE ToolDown
  <2>1. /\ UNCHANGED <<sockfd, fds, pc, closes, ret, file, mutex, continue>>
        /\ toolUp' = FALSE /\ wire' \subseteq Fds
        /\ link' \in [Fds -> {"free", "new", "up", "dead"}]
    BY <1>0, <1>2 DEF ToolDown, TypeOK
  <2>2. /\ log' \in LogType /\ log'.read = log.read
        /\ log'.delivered = log.delivered /\ log'.failed = log.failed
    BY <1>0, <1>2, RelayAssumption DEF ToolDown, TypeOK, LogType
  <2>3. TypeOK'
    BY <1>0, <2>1, <2>2 DEF TypeOK
  <2>4. Placed' /\ Counted'
    BY <1>0, <2>1, <2>2 DEF Placed, InCode, Counted
  <2> QED BY <2>3, <2>4 DEF Control
<1>3. CASE ToolStart \/ ToolSend \/ UNCHANGED vars
  <2>1. /\ UNCHANGED <<sockfd, fds, link, pc, closes, ret, file, mutex, continue, log>>
        /\ toolUp' \in BOOLEAN /\ wire' \subseteq Fds
    BY <1>0, <1>3 DEF ToolStart, ToolSend, vars, TypeOK
  <2>2. TypeOK'
    BY <1>0, <2>1 DEF TypeOK
  <2>3. Placed' /\ Counted'
    BY <1>0, <2>1 DEF Placed, InCode, Counted
  <2> QED BY <2>2, <2>3 DEF Control
<1> QED BY <1>1, <1>2, <1>3

LEMMA ControlLemma ==
  ASSUME Control, [Next]_vars
  PROVE  Control'
BY CloseControl, EthControl, SpiControl, OtherControl DEF Next, Eth, Spi, Actors

-----------------------------------------------------------------------------
(***************************************************************************)
(* Sockets is preserved: only eth_socket_init gives a socket, and only its *)
(* connect makes a live connection.                                        *)
(***************************************************************************)
\* The descriptors of a step other than socket(): closed or forgotten.
LEMMA FdsLemma ==
  ASSUME TypeOK, [Next]_vars, ~EthSocket
  PROVE  /\ sockfd' \in {sockfd, None}
         /\ \A d \in Fds : fds'[d] \in {fds[d], None}
         /\ \A d \in Fds : d # sockfd => fds'[d] = fds[d]
<1>1. CASE fds' = fds /\ sockfd' = sockfd
  BY <1>1
<1>2. ASSUME NEW a \in Actors, CloseClose(a) \/ CloseAssign(a)
      PROVE  /\ sockfd' \in {sockfd, None}
             /\ \A d \in Fds : fds'[d] \in {fds[d], None}
             /\ \A d \in Fds : d # sockfd => fds'[d] = fds[d]
  BY <1>2 DEF CloseClose, CloseAssign, TypeOK
<1>3. \/ fds' = fds /\ sockfd' = sockfd
      \/ \E a \in Actors : CloseClose(a) \/ CloseAssign(a)
  <2>1. CASE UNCHANGED vars
    BY <2>1 DEF vars
  <2>2. ASSUME NEW a \in Actors, Close(a) 
        PROVE  (fds' = fds /\ sockfd' = sockfd) \/ CloseClose(a) \/ CloseAssign(a)
    BY <2>2 DEF Close, CloseTest, CloseShutdown
  <2>3. CASE Eth /\ ~Close("eth")
    BY <2>3 DEF Eth, EthTop, EthReadFrame, EthReadEnd, EthLock, EthRun, EthRetry, EthConnect
  <2>4. CASE (Spi \/ SpiRead) /\ ~Close("spi")
    BY <2>4 DEF Spi, SpiRead, SpiTop, SpiLock, SpiTest, SpiSend, SpiUnlock
  <2>5. CASE SigTerm \/ ToolDown \/ ToolStart \/ ToolSend
    BY <2>5 DEF SigTerm, ToolDown, ToolStart, ToolSend
  <2> QED BY <2>1, <2>2, <2>3, <2>4, <2>5 DEF Next, Eth, Spi, Actors
<1> QED BY <1>1, <1>2, <1>3

LEMMA CurrentLemma ==
  ASSUME TypeOK, [Next]_vars, ~EthSocket
  PROVE  Current' \in {Current, None} /\ (sockfd = None => sockfd' = None)
<1>1. sockfd \in Fds \cup {None} /\ None \notin Fds
  BY DEF TypeOK, None, Fds
<1> QED BY <1>1, FdsLemma DEF Current

\* Only connect makes a live connection.
LEMMA LinkLemma ==
  ASSUME TypeOK, [Next]_vars, ~EthConnect
  PROVE  \A f \in Fds : link'[f] = "up" => link[f] = "up"
<1>1. CASE UNCHANGED vars
  BY <1>1 DEF vars
<1>2. ASSUME NEW a \in Actors, Close(a) PROVE \A f \in Fds : link'[f] = "up" => link[f] = "up"
  <2>1. CASE CloseTest(a) \/ CloseAssign(a)
    BY <2>1 DEF CloseTest, CloseAssign
  <2>2. CASE CloseShutdown(a)
    BY <2>2 DEF CloseShutdown
  <2>3. CASE CloseClose(a)
    BY <2>3 DEF CloseClose, Released, TypeOK
  <2> QED BY <1>2, <2>1, <2>2, <2>3 DEF Close
<1>3. CASE EthTop \/ EthLock \/ EthRun \/ EthRetry
  BY <1>3 DEF EthTop, EthLock, EthRun, EthRetry
<1>4. CASE EthReadFrame \/ EthReadEnd
  BY <1>4 DEF EthReadFrame, EthReadEnd, Unblock, Released, TypeOK
<1>5. CASE EthSocket
  BY <1>5 DEF EthSocket, TypeOK
<1>6. CASE (Spi \/ SpiRead) /\ ~Close("spi")
  BY <1>6 DEF Spi, SpiRead, SpiTop, SpiLock, SpiTest, SpiSend, SpiUnlock
<1>7. CASE SigTerm \/ ToolStart \/ ToolSend
  BY <1>7 DEF SigTerm, ToolStart, ToolSend
<1>8. CASE ToolDown
  BY <1>8 DEF ToolDown
<1> QED BY <1>1, <1>2, <1>3, <1>4, <1>5, <1>6, <1>7, <1>8 DEF Next, Eth, Spi, Actors

\* A socket without a live connection does not come to life but by connect.
LEMMA UsableLemma ==
  ASSUME Control, [Next]_vars, ~EthSocket, ~EthConnect, ~Usable
  PROVE  ~Usable'
<1>1. TypeOK /\ TypeOK'
  BY ControlLemma DEF Control
<1>2. Current \in Fds \cup {None} /\ Current' \in {Current, None}
  BY <1>1, CurrentLemma DEF Current, TypeOK
<1> QED BY <1>1, <1>2, LinkLemma DEF Usable

\* The Ethernet thread's own place and its recv are touched by nobody else.
LEMMA OthersLemma ==
  ASSUME Control, [Next]_vars
  PROVE  /\ continue' => continue
         /\ Eth \/ (pc'["eth"] = pc["eth"] /\ file' = file)
<1>0. TypeOK /\ "eth" \in Actors
  BY DEF Control, Actors
<1>1. CASE UNCHANGED vars
  BY <1>1 DEF vars
<1>2. ASSUME NEW a \in {"spi", "sig"}, Close(a)
      PROVE  pc'["eth"] = pc["eth"] /\ UNCHANGED <<file, continue>>
  BY <1>0, <1>2 DEF Close, CloseTest, CloseShutdown, CloseClose, CloseAssign, Goto, TypeOK
<1>3. CASE (Spi \/ SpiRead) /\ ~Close("spi")
  BY <1>0, <1>3 DEF Spi, SpiRead, SpiTop, SpiLock, SpiTest, SpiSend, SpiUnlock, Goto, Error, Call, TypeOK
<1>4. CASE SigTerm \/ ToolDown \/ ToolStart \/ ToolSend
  BY <1>0, <1>4 DEF SigTerm, ToolDown, ToolStart, ToolSend, Call, TypeOK
<1>5. CASE Eth
  BY <1>5 DEF Eth, EthTop, EthReadFrame, EthReadEnd, EthLock, EthRun, EthRetry, EthSocket,
              EthConnect, Close, CloseTest, CloseShutdown, CloseClose, CloseAssign
<1> QED BY <1>1, <1>2, <1>3, <1>4, <1>5 DEF Next, Spi

LEMMA SocketsLemma ==
  ASSUME Control, Sockets, [Next]_vars
  PROVE  Sockets'
<1>0. /\ TypeOK /\ Placed /\ TypeOK' /\ "eth" \in Actors /\ None \notin Fds
      /\ Current \in Fds \cup {None} /\ (continue' => continue)
  BY ControlLemma, OthersLemma DEF Control, Actors, TypeOK, Current, None, Fds
<1>1. CASE ~Eth
  <2>1. ~EthSocket /\ ~EthConnect /\ pc'["eth"] = pc["eth"] /\ file' = file
    BY <1>1, OthersLemma DEF Eth
  <2>2. /\ Current' \in {Current, None} /\ (sockfd = None => sockfd' = None)
        /\ ~Usable => ~Usable'
    BY <1>0, <2>1, CurrentLemma, UsableLemma
  <2> QED BY <1>0, <2>1, <2>2 DEF Sockets, Closing
<1>2. CASE EthTop
  <2>1. /\ Current' = Current /\ (Usable' <=> Usable) /\ continue' = continue
    BY <1>2 DEF EthTop, Current, Usable
  <2>2. \/ ~continue /\ pc'["eth"] = "c1"
        \/ Current = None /\ pc'["eth"] = "c1"
        \/ pc'["eth"] = "blocked" /\ file' = Current /\ Current # None
    BY <1>0, <1>2 DEF EthTop, Error, Call, Goto, TypeOK
  <2> QED BY <2>1, <2>2 DEF Sockets, Closing, Usable
<1>3. CASE EthReadFrame \/ EthLock \/ EthRun
  <2>1. pc'["eth"] \in {"lock", "run", "top"}
    BY <1>0, <1>3 DEF EthReadFrame, EthLock, EthRun, Goto, TypeOK
  <2> QED BY <2>1 DEF Sockets, Closing
<1>4. CASE EthReadEnd \/ EthRetry
  <2>1. ~EthSocket /\ ~EthConnect
    BY <1>4 DEF EthReadEnd, EthRetry, EthSocket, EthConnect
  <2>2. continue => ~Usable
    <3>1. CASE EthReadEnd
      <4>1. pc["eth"] = "blocked" /\ link[file] # "up"
        BY <3>1 DEF EthReadEnd
      <4>2. Current \in {file, None}
        BY <4>1 DEF Sockets
      <4> QED BY <4>1, <4>2 DEF Usable
    <3>2. CASE EthRetry
      BY <3>2 DEF EthRetry, Sockets
    <3> QED BY <1>4, <3>1, <3>2
  <2>3. pc'["eth"] \in {"c1", "top"}
    BY <1>0, <1>4 DEF EthReadEnd, EthRetry, Error, Call, Goto, TypeOK
  <2> QED BY <1>0, <2>1, <2>2, <2>3, UsableLemma DEF Sockets, Closing
<1>5. CASE EthSocket
  <2> DEFINE free == {d \in Fds : fds[d] = None}
             new  == {f \in Fds : link[f] = "free"}
  <2>1. Min(free) \in Fds /\ Min(new) \in Fds
    BY <1>5, MinLemma DEF EthSocket
  <2>2. /\ sockfd' = Min(free) /\ fds' = [fds EXCEPT ![Min(free)] = Min(new)]
        /\ link' = [link EXCEPT ![Min(new)] = "new"]
        /\ pc'["eth"] = "connect"
    BY <1>0, <1>5 DEF EthSocket, Goto, TypeOK
  <2> HIDE DEF free, new
  <2>3. Current' = Min(new) /\ link'[Min(new)] = "new"
    BY <1>0, <2>1, <2>2 DEF Current, TypeOK
  <2> QED BY <2>2, <2>3 DEF Sockets, Usable, Closing
<1>6. CASE EthConnect
  <2>1. \/ pc'["eth"] = "top"
        \/ pc'["eth"] = "c1" /\ UNCHANGED <<link, fds, sockfd>>
    BY <1>0, <1>6 DEF EthConnect, Error, Call, Goto, TypeOK
  <2>2. ~Usable
    BY <1>6 DEF EthConnect, Sockets
  <2>3. UNCHANGED <<link, fds, sockfd>> => ~Usable'
    BY <2>2 DEF Usable, Current
  <2> QED BY <2>1, <2>3 DEF Sockets, Closing
<1>7. CASE Close("eth")
  <2>1. ~EthSocket /\ ~EthConnect /\ (continue => ~Usable)
    BY <1>7 DEF Close, CloseTest, CloseShutdown, CloseClose, CloseAssign, EthSocket, EthConnect,
                Sockets, Closing
  <2>2. continue' => ~Usable'
    BY <1>0, <2>1, UsableLemma
  <2>3. CASE CloseTest("eth")
    <3>1. \/ pc'["eth"] = "c2"
          \/ pc'["eth"] = "c4" /\ sockfd = None /\ UNCHANGED <<sockfd, fds>>
      BY <1>0, <2>3 DEF CloseTest, Goto, TypeOK
    <3> QED BY <2>2, <3>1 DEF Sockets, Closing, Current
  <2>4. CASE CloseShutdown("eth")
    <3>1. pc'["eth"] = "c3"
      BY <1>0, <2>4 DEF CloseShutdown, Goto, TypeOK
    <3> QED BY <2>2, <3>1 DEF Sockets, Closing
  <2>5. CASE CloseClose("eth")
    <3>1. pc'["eth"] = "c4"
      BY <1>0, <2>5 DEF CloseClose, Goto, TypeOK
    <3>2. Current' = None
      BY <1>0, <2>5 DEF CloseClose, Current, TypeOK
    <3> QED BY <2>2, <3>1, <3>2 DEF Sockets, Closing
  <2>6. CASE CloseAssign("eth")
    <3>1. pc'["eth"] \in {"c1", "done", "retry", "socket"} /\ sockfd' = None
      BY <1>0, <2>6 DEF CloseAssign, Goto, TypeOK, Placed, InCode
    <3> QED BY <2>2, <3>1 DEF Sockets, Closing
  <2> QED BY <1>7, <2>3, <2>4, <2>5, <2>6 DEF Close
<1> QED BY <1>1, <1>2, <1>3, <1>4, <1>5, <1>6, <1>7 DEF Eth

-----------------------------------------------------------------------------
(***************************************************************************)
(* Budget is preserved.                                                    *)
(***************************************************************************)
LEMMA LeakedFinite ==
  ASSUME NEW S, S \subseteq Fds
  PROVE  IsFiniteSet(S) /\ Cardinality(S) \in Nat
<1>1. IsFiniteSet(Fds)
  BY RelayAssumption, FS_Interval DEF Fds
<1>2. IsFiniteSet(S)
  BY <1>1, FS_Subset
<1> QED BY <1>2, FS_CardinalityType

\* A descriptor is lost only where another thread than that of
\* eth_socket_init overwrites eth_sockfd, and then one.
LEMMA LeakedLemma ==
  ASSUME Control, Sockets, [Next]_vars
  PROVE  \/ Leaked' = Leaked
         \/ \E a \in {"spi", "sig"} : CloseAssign(a) /\ Leaked' \subseteq Leaked \cup {sockfd}
<1>0. TypeOK /\ None \notin Fds /\ "eth" \in Actors
  BY DEF Control, None, Fds, Actors
<1>1. CASE EthSocket
  <2> DEFINE free == {d \in Fds : fds[d] = None}
             new  == {f \in Fds : link[f] = "free"}
  <2>1. Min(free) \in free /\ Min(new) \in Fds
    BY <1>1, MinLemma DEF EthSocket
  <2>2. sockfd' = Min(free) /\ fds' = [fds EXCEPT ![Min(free)] = Min(new)] /\ sockfd = None
    BY <1>1 DEF EthSocket, Sockets
  <2>3. \A m \in Fds : fds[m] = None /\ sockfd' = m /\ fds' = [fds EXCEPT ![m] = Min(new)] => Leaked' = Leaked
    BY <1>0, <2>1, <2>2 DEF Leaked, Open, TypeOK
  <2> QED BY <2>1, <2>2, <2>3
<1>2. CASE ~EthSocket /\ sockfd' = sockfd
  <2>1. \A d \in Fds : d # sockfd => fds'[d] = fds[d]
    BY <1>0, <1>2, FdsLemma
  <2> QED BY <1>2, <2>1 DEF Leaked, Open
<1>3. CASE ~EthSocket /\ sockfd' # sockfd
  <2>1. PICK a \in Actors : CloseAssign(a)
    <3>1. CASE Eth /\ ~Close("eth")
      BY <1>3, <3>1 DEF Eth, EthTop, EthReadFrame, EthReadEnd, EthLock, EthRun, EthRetry, EthConnect
    <3>2. CASE (Spi \/ SpiRead) /\ ~Close("spi")
      BY <1>3, <3>2 DEF Spi, SpiRead, SpiTop, SpiLock, SpiTest, SpiSend, SpiUnlock
    <3>3. CASE SigTerm \/ ToolDown \/ ToolStart \/ ToolSend \/ UNCHANGED vars
      BY <1>3, <3>3 DEF SigTerm, ToolDown, ToolStart, ToolSend, vars
    <3>4. ASSUME NEW a \in Actors, Close(a) PROVE CloseAssign(a)
      BY <1>3, <3>4 DEF Close, CloseTest, CloseShutdown, CloseClose
    <3> QED BY <3>1, <3>2, <3>3, <3>4 DEF Next, Eth, Spi, Actors
  <2>2. pc[a] = "c4" /\ sockfd' = None /\ fds' = fds
    BY <2>1 DEF CloseAssign
  <2>3. Leaked' = Open
    BY <1>0, <2>2 DEF Leaked, Open
  <2>4. CASE a = "eth"
    <3>1. sockfd \notin Open
      BY <1>0, <2>2, <2>4 DEF Sockets, Current, Open
    <3> QED BY <2>3, <3>1 DEF Leaked
  <2>5. CASE a \in {"spi", "sig"}
    BY <2>1, <2>3, <2>5 DEF Leaked
  <2> QED BY <2>4, <2>5 DEF Actors
<1> QED BY <1>1, <1>2, <1>3

\* What a step other than those changes of the calls left and of the costs.
LEMMA CostLemma ==
  ASSUME Control, [Next]_vars, ~CloseAssign("spi"), ~CloseAssign("sig")
  PROVE  /\ closes'["spi"] - 4 * log'.failed =< closes["spi"] - 4 * log.failed
         /\ closes'["sig"] - (IF continue' THEN 0 ELSE 1) =< closes["sig"] - (IF continue THEN 0 ELSE 1)
<1>0. /\ TypeOK /\ Placed /\ "spi" \in Actors /\ "sig" \in Actors /\ "eth" \in Actors
      /\ closes["spi"] \in 0 .. 4 /\ closes["sig"] \in 0 .. 4
      /\ log \in LogType /\ log.failed \in Nat /\ continue \in BOOLEAN
  BY RelayAssumption DEF Control, Actors, TypeOK, LogType
<1> DEFINE Same == /\ closes'["spi"] = closes["spi"] /\ closes'["sig"] = closes["sig"]
                   /\ log'.failed = log.failed /\ continue' = continue
<1>1. CASE SigTerm
  <2>1. /\ closes'["spi"] = closes["spi"] /\ closes'["sig"] = 1 /\ closes["sig"] = 0
        /\ continue /\ ~continue' /\ log' = log
    BY <1>0, <1>1 DEF SigTerm, Call, TypeOK, Placed, InCode, Closing
  <2> QED BY <1>0, <2>1
<1>2. CASE SpiSend
  <2>1. /\ closes'["sig"] = closes["sig"] /\ continue' = continue
        /\ \/ closes'["spi"] = closes["spi"] /\ log'.failed = log.failed
           \/ closes'["spi"] \in 1 .. 4 /\ closes["spi"] = 0 /\ log'.failed = log.failed + 1
    <3>1. closes["spi"] = 0
      BY <1>0, <1>2 DEF SpiSend, Placed, InCode, Closing
    <3> QED BY <1>0, <1>2, <3>1 DEF SpiSend, Error, Call, TypeOK, LogType
  <2> QED BY <1>0, <2>1
<1>3. CASE Same
  BY <1>0, <1>3
<1>4. CASE Close("eth")
  <2>1. Same
    BY <1>0, <1>4 DEF Close, CloseTest, CloseShutdown, CloseClose, CloseAssign, TypeOK
  <2> QED BY <1>3, <2>1
<1>5. CASE Eth /\ ~Close("eth")
  <2>1. Same
    BY <1>0, <1>5 DEF Eth, EthTop, EthReadFrame, EthReadEnd, EthLock, EthRun, EthRetry, EthSocket,
                      EthConnect, Error, Call, TypeOK
  <2> QED BY <1>3, <2>1
<1>6. ASSUME NEW a \in {"spi", "sig"}, Close(a) PROVE Same
  BY <1>6 DEF Close, CloseTest, CloseShutdown, CloseClose
<1>7. CASE (Spi \/ SpiRead) /\ ~Close("spi") /\ ~SpiSend
  <2>1. Same
    BY <1>0, <1>7 DEF Spi, SpiRead, SpiTop, SpiLock, SpiTest, SpiUnlock, LogType
  <2> QED BY <1>3, <2>1
<1>8. CASE ToolDown \/ ToolStart \/ ToolSend \/ UNCHANGED vars
  <2>1. Same
    BY <1>0, <1>8 DEF ToolDown, ToolStart, ToolSend, vars, LogType
  <2> QED BY <1>3, <2>1
<1> HIDE DEF Same
<1> QED BY <1>1, <1>2, <1>3, <1>4, <1>5, <1>6, <1>7, <1>8 DEF Next, Spi

LEMMA BudgetLemma ==
  ASSUME Control, Sockets, Budget, [Next]_vars
  PROVE  Budget'
<1>0. /\ TypeOK /\ TypeOK' /\ "spi" \in Actors /\ "sig" \in Actors
      /\ closes["spi"] \in 0 .. 4 /\ closes["sig"] \in 0 .. 4
      /\ closes'["spi"] \in 0 .. 4 /\ closes'["sig"] \in 0 .. 4
      /\ log.failed \in Nat /\ log'.failed \in Nat
  BY ControlLemma, RelayAssumption DEF Control, Actors, TypeOK, LogType
<1>1. /\ IsFiniteSet(Leaked) /\ Cardinality(Leaked) \in Nat
      /\ IsFiniteSet(Leaked') /\ Cardinality(Leaked') \in Nat
  <2>1. Leaked \subseteq Fds /\ Leaked' \subseteq Fds
    BY DEF Leaked, Open
  <2> QED BY <2>1, LeakedFinite
<1>2. ASSUME NEW a \in {"spi", "sig"}, CloseAssign(a)
      PROVE  Budget'
  <2>1. /\ closes'[a] = closes[a] - 1 /\ UNCHANGED <<log, continue>>
        /\ \A b \in {"spi", "sig"} : b # a => closes'[b] = closes[b]
    BY <1>0, <1>2 DEF CloseAssign, TypeOK
  <2>2. Leaked' \subseteq Leaked \cup {sockfd}
    BY LeakedLemma
  <2>3. /\ IsFiniteSet(Leaked \cup {sockfd}) /\ Cardinality(Leaked \cup {sockfd}) \in Nat
        /\ Cardinality(Leaked \cup {sockfd}) =< Cardinality(Leaked) + 1
    <3>1. /\ IsFiniteSet(Leaked \cup {sockfd})
          /\ Cardinality(Leaked \cup {sockfd})
               = IF sockfd \in Leaked THEN Cardinality(Leaked) ELSE Cardinality(Leaked) + 1
      BY <1>1, FS_AddElement
    <3> QED BY <1>1, <3>1
  <2>4. Cardinality(Leaked') =< Cardinality(Leaked \cup {sockfd})
    BY <2>2, <2>3, FS_Subset
  <2>5. closes'["spi"] + closes'["sig"] = closes["spi"] + closes["sig"] - 1
    BY <1>0, <2>1
  <2> QED BY <1>0, <1>1, <2>1, <2>3, <2>4, <2>5 DEF Budget
<1>3. CASE ~CloseAssign("spi") /\ ~CloseAssign("sig")
  <2>1. Leaked' = Leaked
    BY <1>3, LeakedLemma
  <2>2. /\ closes'["spi"] - 4 * log'.failed =< closes["spi"] - 4 * log.failed
        /\ closes'["sig"] - (IF continue' THEN 0 ELSE 1) =< closes["sig"] - (IF continue THEN 0 ELSE 1)
    BY <1>3, CostLemma
  <2>3. Cardinality(Leaked') = Cardinality(Leaked)
    BY <2>1
  <2> QED BY <1>0, <1>1, <2>2, <2>3 DEF Budget
<1> QED BY <1>2, <1>3

-----------------------------------------------------------------------------
(***************************************************************************)
(* Steady is preserved: the first socket stays as long as the tool does.   *)
(***************************************************************************)
LEMMA SteadyLemma ==
  ASSUME Control, Steady, [Next]_vars
  PROVE  Steady'
<1>0. /\ TypeOK /\ Placed /\ "eth" \in Actors /\ "spi" \in Actors /\ "sig" \in Actors
      /\ 1 \in Fds /\ 1 # None /\ log \in LogType /\ log' \in LogType
  BY ControlLemma, RelayAssumption DEF Control, Actors, TypeOK, Fds, None
<1> SUFFICES ASSUME log'.downs = 0, continue' PROVE Steady'
  BY DEF Steady
<1>1. log.downs = 0 /\ continue
  <2>1. continue
    BY OthersLemma
  <2>2. log.downs = 0
    <3>1. CASE ToolDown
      BY <1>0, <3>1, RelayAssumption DEF ToolDown, LogType
    <3>2. CASE SpiRead \/ SpiSend
      BY <1>0, <3>2 DEF SpiRead, SpiSend, LogType
    <3>3. CASE log' = log
      BY <3>3
    <3>4. ASSUME NEW a \in Actors, Close(a) PROVE log' = log
      BY <3>4 DEF Close, CloseTest, CloseShutdown, CloseClose, CloseAssign
    <3>5. CASE Eth /\ ~Close("eth")
      BY <3>3, <3>5 DEF Eth, EthTop, EthReadFrame, EthReadEnd, EthLock, EthRun, EthRetry, EthSocket, EthConnect
    <3>6. CASE Spi /\ ~Close("spi") /\ ~SpiSend
      BY <3>3, <3>6 DEF Spi, SpiTop, SpiLock, SpiTest, SpiUnlock
    <3>7. CASE SigTerm \/ ToolStart \/ ToolSend \/ UNCHANGED vars
      BY <3>3, <3>7 DEF SigTerm, ToolStart, ToolSend, vars
    <3> QED BY <3>1, <3>2, <3>3, <3>4, <3>5, <3>6, <3>7 DEF Next, Eth, Spi, Actors
  <2> QED BY <2>1, <2>2
<1>2. /\ toolUp /\ sockfd = 1 /\ fds[1] = 1 /\ link[1] = "up" /\ Current = 1
      /\ pc["eth"] \in {"top", "blocked", "lock", "run"}
      /\ pc["eth"] = "blocked" => file = 1
      /\ pc["spi"] \in {"top", "recv", "lock", "test", "send", "unlock"}
      /\ log.read = log.delivered + (IF pc["spi"] \in {"lock", "test", "send"} THEN 1 ELSE 0)
      /\ pc["sig"] = "wait"
  BY <1>0, <1>1 DEF Steady, Placed, Current
<1>3. ASSUME NEW a \in Actors, Close(a) PROVE FALSE
  <2>1. pc[a] \in Closing
    BY <1>3 DEF Close, CloseTest, CloseShutdown, CloseClose, CloseAssign, Closing
  <2> QED BY <1>2, <2>1 DEF Actors, Closing
<1>4. CASE Eth
  <2>1. EthTop \/ EthReadFrame \/ EthLock \/ EthRun
    <3>1. ~EthReadEnd
      BY <1>2 DEF EthReadEnd
    <3>2. ~EthRetry /\ ~EthSocket /\ ~EthConnect
      BY <1>2 DEF EthRetry, EthSocket, EthConnect
    <3> QED BY <1>0, <1>3, <1>4, <3>1, <3>2 DEF Eth
  <2>2. /\ UNCHANGED <<sockfd, fds, toolUp, log>>
        /\ pc'["spi"] = pc["spi"]
    BY <1>0, <1>1, <1>2, <2>1 DEF EthTop, EthReadFrame, EthLock, EthRun, Goto, TypeOK
  <2>3. /\ pc'["eth"] \in {"top", "blocked", "lock", "run"}
        /\ pc'["eth"] = "blocked" => file' = 1
    BY <1>0, <1>1, <1>2, <2>1 DEF EthTop, EthReadFrame, EthLock, EthRun, Goto, TypeOK
  <2>4. link'[1] = "up"
    <3>1. CASE EthReadFrame
      BY <1>0, <1>2, <3>1 DEF EthReadFrame, Unblock
    <3>2. CASE EthTop \/ EthLock \/ EthRun
      BY <1>2, <3>2 DEF EthTop, EthLock, EthRun
    <3> QED BY <2>1, <3>1, <3>2
  <2> QED BY <1>2, <2>2, <2>3, <2>4 DEF Steady
<1>5. CASE Spi \/ SpiRead
  <2>0. /\ UNCHANGED <<sockfd, fds, link, file, toolUp>>
        /\ pc'["eth"] = pc["eth"]
    <3>1. ~Close("spi")
      BY <1>0, <1>3
    <3> QED BY <1>0, <1>5, <3>1 DEF Spi, SpiRead, SpiTop, SpiLock, SpiTest, SpiSend, SpiUnlock,
                 Goto, Error, Call, TypeOK
  <2>1. /\ pc'["spi"] \in {"top", "recv", "lock", "test", "send", "unlock"}
        /\ log'.read = log'.delivered + (IF pc'["spi"] \in {"lock", "test", "send"} THEN 1 ELSE 0)
    <3>1. CASE SpiRead
      <4>1. /\ pc["spi"] = "recv" /\ pc'["spi"] \in {"lock", "top"}
            /\ pc'["spi"] = "lock" => log' = [log EXCEPT !.read = log.read + 1]
            /\ pc'["spi"] = "top" => log' = log
        BY <1>0, <3>1 DEF SpiRead, Goto, TypeOK
      <4>2. /\ log'.read = IF pc'["spi"] = "lock" THEN log.read + 1 ELSE log.read
            /\ log'.delivered = log.delivered
        BY <1>0, <4>1 DEF LogType
      <4> QED BY <1>0, <1>2, <4>1, <4>2 DEF LogType
    <3>2. CASE SpiTop \/ SpiLock \/ SpiTest \/ SpiUnlock
      <4>1. /\ log' = log
            /\ \/ pc["spi"] = "top" /\ pc'["spi"] = "recv"
               \/ pc["spi"] = "lock" /\ pc'["spi"] = "test"
               \/ pc["spi"] = "test" /\ pc'["spi"] = "send"
               \/ pc["spi"] = "unlock" /\ pc'["spi"] = "top"
        BY <1>0, <1>1, <1>2, <3>2 DEF SpiTop, SpiLock, SpiTest, SpiUnlock, Goto, TypeOK
      <4> QED BY <1>2, <4>1
    <3>3. CASE SpiSend
      <4>1. /\ pc["spi"] = "send" /\ pc'["spi"] = "unlock"
            /\ log' = [log EXCEPT !.delivered = log.delivered + 1]
        BY <1>0, <1>2, <3>3 DEF SpiSend, Goto, TypeOK
      <4>2. log'.read = log.read /\ log'.delivered = log.delivered + 1
        BY <1>0, <4>1 DEF LogType
      <4> QED BY <1>0, <1>2, <4>1, <4>2 DEF LogType
    <3>4. ~Close("spi")
      BY <1>0, <1>3
    <3> QED BY <1>5, <3>1, <3>2, <3>3, <3>4 DEF Spi
  <2> QED BY <1>2, <2>0, <2>1 DEF Steady
<1>6. CASE ToolDown
  BY <1>0, <1>1, <1>6, RelayAssumption DEF ToolDown, LogType
<1>7. CASE SigTerm \/ ToolStart
  BY <1>2, <1>7 DEF SigTerm, ToolStart
<1>8. CASE ToolSend \/ UNCHANGED vars
  <2>1. UNCHANGED <<sockfd, fds, link, pc, file, toolUp, log>>
    BY <1>8 DEF ToolSend, vars
  <2> QED BY <1>2, <2>1 DEF Steady
<1> QED BY <1>0, <1>3, <1>4, <1>5, <1>6, <1>7, <1>8 DEF Next

-----------------------------------------------------------------------------
(***************************************************************************)
(* The results.                                                            *)
(***************************************************************************)
LEMMA InitLemma == Init => IInv
<1> SUFFICES ASSUME Init PROVE IInv
  OBVIOUS
<1>0. 1 \in Fds /\ None \notin Fds /\ RespMax \in Nat /\ DownMax \in Nat
  BY RelayAssumption DEF Fds, None
<1>1. TypeOK
  BY <1>0 DEF Init, TypeOK, Places, LogType
<1>2. Placed /\ Counted
  BY DEF Init, Placed, InCode, Counted, Actors
<1>3. Sockets /\ Steady
  BY <1>0 DEF Init, Sockets, Steady, Closing, Actors
<1>4. Budget
  <2>1. Leaked = {}
    BY <1>0 DEF Init, Leaked, Open, None
  <2>2. Cardinality(Leaked) = 0
    BY <2>1, FS_EmptySet
  <2> QED BY <2>2 DEF Init, Budget, Actors
<1> QED BY <1>1, <1>2, <1>3, <1>4 DEF IInv

LEMMA NextLemma == IInv /\ [Next]_vars => IInv'
BY ControlLemma, SocketsLemma, BudgetLemma, SteadyLemma DEF IInv, Control

\* The inductive invariant holds for every number of descriptors, of frames
\* and of times the tool goes away.
THEOREM InvTheorem == Spec => []IInv
BY InitLemma, NextLemma, PTL DEF Spec

\* The reconnect loop around eth_socket_init leaks no descriptor: each one
\* lost was lost to a close_eth_socket of a failed send or of SIGTERM.
THEOREM LeaksTheorem == Spec => []LeaksArePaidFor
<1>1. IInv => LeaksArePaidFor
  <2> SUFFICES ASSUME IInv PROVE LeaksArePaidFor
    OBVIOUS
  <2>1. /\ closes["spi"] \in 0 .. 4 /\ closes["sig"] \in 0 .. 4 /\ log.failed \in Nat
    BY RelayAssumption DEF IInv, TypeOK, Actors, LogType
  <2>2. Cardinality(Leaked) \in Nat
    BY LeakedFinite DEF Leaked, Open
  <2>3. Cardinality(Leaked) =< 4 * log.failed + (IF continue THEN 0 ELSE 1)
    BY <2>1, <2>2 DEF IInv, Budget
  <2> QED BY <2>3 DEF LeaksArePaidFor, Leaked, IInv
<1> QED BY <1>1, InvTheorem, PTL

\* As long as the tool has been there, every frame of the board that the
\* GVSPI thread has read was delivered by eth_socketSend.
THEOREM AnswersTheorem == Spec => []AnswersReachTheTool
<1>1. IInv => AnswersReachTheTool
  <2> SUFFICES ASSUME IInv, log.downs = 0, continue, pc["spi"] \in {"top", "recv"}
               PROVE  log.delivered = log.read
    BY DEF AnswersReachTheTool
  <2>1. log.delivered \in Nat
    BY RelayAssumption DEF IInv, TypeOK, LogType
  <2> QED BY <2>1 DEF IInv, Steady
<1> QED BY <1>1, InvTheorem, PTL

\* A step that ends a live connection while the tool is there.
Kills(f) == link[f] = "up" /\ link'[f] # "up" /\ toolUp'

Excused(f) == ~continue \/ pc["spi"] \in {"c2", "c3"} \/ (f = file /\ Stranded)

LEMMA KillLemma ==
  ASSUME IInv, Next, NEW f \in Fds, Kills(f)
  PROVE  Excused(f)
<1>0. TypeOK /\ Placed /\ Sockets /\ None \notin Fds
  BY DEF IInv, None, Fds
<1>1. CASE link' = link
  BY <1>1 DEF Kills
<1>2. ASSUME NEW a \in Actors, Close(a) PROVE Excused(f)
  <2>1. CASE CloseTest(a) \/ CloseAssign(a)
    BY <2>1, <1>1 DEF CloseTest, CloseAssign
  <2>2. CASE CloseShutdown(a) \/ CloseClose(a)
    <3>1. pc[a] \in {"c2", "c3"} /\ Current = f
      BY <1>0, <2>2 DEF CloseShutdown, CloseClose, Released, Kills, TypeOK
    <3>2. Usable
      BY <1>0, <3>1 DEF Usable, Kills
    <3>3. CASE a = "eth"
      BY <3>1, <3>2, <3>3 DEF Sockets, Closing, IInv, Excused
    <3>4. CASE a = "spi"
      BY <3>1, <3>4 DEF Excused
    <3>5. CASE a = "sig"
      BY <1>0, <3>1, <3>5 DEF Placed, Excused
    <3> QED BY <3>3, <3>4, <3>5 DEF Actors
  <2> QED BY <1>2, <2>1, <2>2 DEF Close
<1>3. CASE EthReadFrame \/ EthReadEnd
  <2>1. pc["eth"] = "blocked" /\ Unblock
    BY <1>3 DEF EthReadFrame, EthReadEnd
  <2>2. f = file /\ ~ \E d \in Fds : fds[d] = file
    BY <1>0, <2>1 DEF Unblock, Released, Kills, TypeOK
  <2>3. Current # file
    BY <1>0, <2>2 DEF Current, TypeOK
  <2> QED BY <2>1, <2>2, <2>3 DEF Excused, Stranded, Kills
<1>4. CASE EthTop \/ EthLock \/ EthRun \/ EthRetry
  BY <1>1, <1>4 DEF EthTop, EthLock, EthRun, EthRetry
<1>5. CASE EthSocket
  <2> DEFINE new == {g \in Fds : link[g] = "free"}
  <2>1. Min(new) \in new
    BY <1>5, MinLemma DEF EthSocket
  <2> QED BY <1>0, <1>5, <2>1 DEF EthSocket, Kills, TypeOK
<1>6. CASE EthConnect
  BY <1>0, <1>6 DEF EthConnect, Kills, TypeOK, Current
<1>7. CASE (Spi \/ SpiRead) /\ ~Close("spi")
  BY <1>1, <1>7 DEF Spi, SpiRead, SpiTop, SpiLock, SpiTest, SpiSend, SpiUnlock
<1>8. CASE ToolDown
  BY <1>8 DEF ToolDown, Kills
<1>9. CASE SigTerm \/ ToolStart \/ ToolSend
  BY <1>1, <1>9 DEF SigTerm, ToolStart, ToolSend
<1> QED BY <1>2, <1>3, <1>4, <1>5, <1>6, <1>7, <1>8, <1>9 DEF Next, Eth, Spi, Actors

\* The Ethernet thread never hangs up on a tool that is there: a live
\* connection ends by SIGTERM, in the close of a failed send, or when its
\* descriptor had been taken while recv waited.
THEOREM KilledTheorem == Spec => KilledOnlyByStaleClose
<1>1. IInv /\ [Next]_vars =>
        [\A f \in Fds : link[f] = "up" /\ link'[f] # "up" /\ toolUp' =>
           \/ ~continue
           \/ pc["spi"] \in {"c2", "c3"}
           \/ f = file /\ Stranded]_vars
  BY KillLemma DEF Kills, Excused
<1> QED BY <1>1, InvTheorem, PTL DEF Spec, KilledOnlyByStaleClose
=============================================================================
