---------------------------- MODULE SpiLinkProofs ---------------------------
(***************************************************************************)
(* Proofs about the SPI handshake, for every number of frames, of retries, *)
(* of disconnections and of transmissions without a buffer.                *)
(***************************************************************************)
EXTENDS SpiLink, TLAPS

-----------------------------------------------------------------------------
Writes == {"wh", "wp"}
Reads  == {"rh", "rp"}

Has(q, op) == \E i \in 1 .. Len(q) : q[i] = op

\* At most one write and at most one read.
OneEach(q) ==
  \A i, j \in 1 .. Len(q) : (q[i] \in Writes <=> q[j] \in Writes) => i = j

\* kernel_write and the reception each wait for their own transfer.
BusOwned ==
  /\ OneEach(bus)
  /\ host.pc = "header" <=> Has(bus, "wh")
  /\ host.pc = "payload" <=> Has(bus, "wp")
  /\ host.rxActive <=> Has(bus, "rh") \/ Has(bus, "rp")
  /\ host.pc # "idle" => log.written < HostMax

\* What the slave has taken for transmission and what became of it.
Sendings ==
  /\ log.given =< log.accepted
  /\ slave.txs # "none" => log.given < log.accepted
  /\ slave.pc \in {"txReady", "txLoad"} => log.accepted < SlaveMax

\* What was delivered is older than what is on its way.
ToSlaveInOrder ==
  /\ Increasing(log.toSlave)
  /\ slave.pay \notin {0, Bad} => slave.pay =< log.written
  /\ \A i \in 1 .. Len(log.toSlave) :
       /\ log.toSlave[i] =< log.written
       /\ slave.pay \notin {0, Bad} => log.toSlave[i] < slave.pay

ToHostInOrder ==
  /\ Increasing(log.toHost)
  /\ \A i \in 1 .. Len(log.toHost) :
       /\ log.toHost[i] =< log.accepted
       /\ slave.txs \in {"full", "hdr"} => log.toHost[i] < log.accepted

IInv == TypeOK /\ BusOwned /\ Sendings /\ ToSlaveInOrder /\ ToHostInOrder

-----------------------------------------------------------------------------
(***************************************************************************)
(* The queue of the SPI controller and the delivered frames.               *)
(***************************************************************************)
\* A transfer may be queued when none of its direction is.
LEMMA AppendOp ==
  ASSUME NEW q \in Seq(Ops), OneEach(q), NEW op \in Ops,
         \A p \in Ops : (p \in Writes <=> op \in Writes) => ~Has(q, p)
  PROVE  /\ Append(q, op) \in Seq(Ops) /\ OneEach(Append(q, op))
         /\ Has(Append(q, op), op)
         /\ \A p \in Ops : p # op => (Has(Append(q, op), p) <=> Has(q, p))
<1> DEFINE a == Append(q, op)
<1>1. /\ a \in Seq(Ops) /\ Len(a) = Len(q) + 1 /\ a[Len(q) + 1] = op
      /\ \A i \in 1 .. Len(q) : a[i] = q[i] /\ q[i] \in Ops
  OBVIOUS
<1>2. Len(q) \in Nat
  OBVIOUS
<1>3. \A i \in 1 .. Len(a) : i = Len(a) \/ i \in 1 .. Len(q)
  BY <1>1, <1>2
<1>4. \A i \in 1 .. Len(q) : ~(a[i] \in Writes <=> op \in Writes)
  BY <1>1 DEF Has
<1>5. OneEach(a)
  <2> HIDE DEF a
  <2> SUFFICES ASSUME NEW i \in 1 .. Len(a), NEW j \in 1 .. Len(a),
                      a[i] \in Writes <=> a[j] \in Writes
               PROVE  i = j
    BY DEF OneEach
  <2>1. CASE i \in 1 .. Len(q) /\ j \in 1 .. Len(q)
    BY <2>1, <1>1 DEF OneEach
  <2>2. CASE i = Len(a) /\ j \in 1 .. Len(q)
    BY <2>2, <1>1, <1>2, <1>4
  <2>3. CASE j = Len(a) /\ i \in 1 .. Len(q)
    BY <2>3, <1>1, <1>2, <1>4
  <2> QED
    BY <2>1, <2>2, <2>3, <1>3
<1>6. Has(a, op)
  <2> HIDE DEF a
  <2>1. Len(a) \in 1 .. Len(a) /\ a[Len(a)] = op
    BY <1>1, <1>2
  <2> QED
    BY <2>1 DEF Has
<1>7. \A p \in Ops : p # op => (Has(a, p) <=> Has(q, p))
  <2> HIDE DEF a
  <2>1. \A i \in 1 .. Len(q) : i \in 1 .. Len(a)
    BY <1>1, <1>2
  <2> QED
    BY <2>1, <1>1, <1>2, <1>3 DEF Has
<1> QED
  BY <1>1, <1>5, <1>6, <1>7

\* The first transfer is done.
LEMMA TailOp ==
  ASSUME NEW q \in Seq(Ops), OneEach(q), q # <<>>
  PROVE  /\ Head(q) \in Ops /\ Has(q, Head(q))
         /\ Tail(q) \in Seq(Ops) /\ OneEach(Tail(q))
         /\ ~Has(Tail(q), Head(q))
         /\ \A p \in Ops : p # Head(q) => (Has(Tail(q), p) <=> Has(q, p))
<1> DEFINE t == Tail(q)
<1>1. /\ t \in Seq(Ops) /\ Len(q) \in Nat /\ Len(q) >= 1 /\ Len(t) = Len(q) - 1
      /\ \A i \in 1 .. Len(t) : t[i] = q[i + 1]
      /\ Head(q) = q[1]
  OBVIOUS
<1>2. \A i \in 1 .. Len(t) : i + 1 \in 1 .. Len(q) /\ i \in Nat
  BY <1>1
<1>3. 1 \in 1 .. Len(q) /\ q[1] \in Ops
  BY <1>1
<1>4. Has(q, Head(q))
  BY <1>1, <1>3 DEF Has
<1>5. OneEach(t)
  <2> HIDE DEF t
  <2> SUFFICES ASSUME NEW i \in 1 .. Len(t), NEW j \in 1 .. Len(t),
                      t[i] \in Writes <=> t[j] \in Writes
               PROVE  i = j
    BY DEF OneEach
  <2>1. q[i + 1] \in Writes <=> q[j + 1] \in Writes
    BY <1>1
  <2>2. i + 1 = j + 1
    BY <2>1, <1>2 DEF OneEach
  <2> QED
    BY <2>2, <1>2
<1>6. ~Has(t, Head(q))
  <2> HIDE DEF t
  <2> SUFFICES ASSUME NEW i \in 1 .. Len(t), t[i] = Head(q)
               PROVE  FALSE
    BY DEF Has
  <2>1. q[i + 1] = q[1]
    BY <1>1
  <2>2. i + 1 = 1
    BY <2>1, <1>2, <1>3 DEF OneEach
  <2> QED
    BY <2>2, <1>2, <1>1
<1>7. ASSUME NEW p \in Ops, p # Head(q)
      PROVE  Has(t, p) <=> Has(q, p)
  <2> HIDE DEF t
  <2>1. ASSUME Has(t, p) PROVE Has(q, p)
    BY <2>1, <1>1, <1>2 DEF Has
  <2>2. ASSUME NEW i \in 1 .. Len(q), q[i] = p PROVE Has(t, p)
    <3>1. i # 1
      BY <2>2, <1>1, <1>7
    <3>2. i - 1 \in 1 .. Len(t) /\ (i - 1) + 1 = i
      BY <3>1, <1>1
    <3>3. t[i - 1] = q[i]
      BY <3>2, <1>1
    <3> QED
      BY <3>2, <3>3, <2>2 DEF Has
  <2> QED
    BY <2>1, <2>2 DEF Has
<1> QED
  BY <1>1, <1>3, <1>4, <1>5, <1>6, <1>7

LEMMA Element ==
  ASSUME NEW S, NEW s \in Seq(S), NEW i \in 1 .. Len(s)
  PROVE  s[i] \in S
  OBVIOUS

\* A frame younger than all before it keeps the order.
LEMMA AppendIncreasing ==
  ASSUME NEW m \in Nat, NEW s \in Seq(1 .. m), Increasing(s), NEW n \in 1 .. m,
         \A i \in 1 .. Len(s) : s[i] < n
  PROVE  /\ Append(s, n) \in Seq(1 .. m) /\ Increasing(Append(s, n))
         /\ \A i \in 1 .. Len(Append(s, n)) : Append(s, n)[i] =< n
<1> DEFINE a == Append(s, n)
<1>1. /\ a \in Seq(1 .. m) /\ Len(s) \in Nat /\ Len(a) = Len(s) + 1 /\ a[Len(s) + 1] = n
      /\ \A i \in 1 .. Len(s) : a[i] = s[i] /\ s[i] \in 1 .. m
  OBVIOUS
<1>2. \A i \in 1 .. Len(a) : i = Len(a) \/ i \in 1 .. Len(s)
  BY <1>1
<1> HIDE DEF a
<1>3. ASSUME NEW i \in 1 .. Len(s)
      PROVE  a[i] < n /\ a[i] =< n /\ i < Len(a)
  <2>1. s[i] < n /\ a[i] = s[i] /\ s[i] \in 1 .. m
    BY <1>1
  <2> QED
    BY <2>1, <1>1
<1>4. \A i \in 1 .. Len(a) : a[i] =< n
  BY <1>1, <1>2, <1>3
<1>5. ASSUME NEW i \in 1 .. Len(a), NEW j \in 1 .. Len(a), i < j
      PROVE  a[i] < a[j]
  <2>1. i \in 1 .. Len(s)
    BY <1>5, <1>2, <1>1
  <2>2. CASE j \in 1 .. Len(s)
    BY <2>1, <2>2, <1>5, <1>1 DEF Increasing
  <2>3. CASE j = Len(a)
    BY <2>1, <2>3, <1>1, <1>3
  <2> QED
    BY <2>2, <2>3, <1>2
<1> QED
  BY <1>1, <1>4, <1>5 DEF a, Increasing

-----------------------------------------------------------------------------
LEMMA InitLemma == ASSUME Init PROVE IInv
<1>1. TypeOK
  <2>0. 0 \in 0 .. HostMax /\ 0 \in 0 .. SlaveMax /\ 0 \in 0 .. TriesMax /\ 0 \in 0 .. Bad
        /\ 0 \in 0 .. StopsMax /\ 0 \in 0 .. FailsMax
    BY SpiLinkAssumption DEF Bad
  <2>1. host \in HostType
    BY <2>0 DEF Init, HostType
  <2>2. slave \in SlaveType
    BY <2>0 DEF Init, SlaveType
  <2>3. log \in LogType
    BY <2>0 DEF Init, LogType
  <2>4. masterTx \in BOOLEAN /\ cmdRdy \in BOOLEAN /\ edge \in BOOLEAN
    BY DEF Init
  <2>5. bus \in Seq(Ops)
    BY DEF Init
  <2> QED
    BY <2>1, <2>2, <2>3, <2>4, <2>5 DEF TypeOK
<1>2. BusOwned
  BY DEF Init, BusOwned, OneEach, Has
<1>3. Sendings
  BY DEF Init, Sendings
<1>4. ToSlaveInOrder /\ ToHostInOrder
  BY DEF Init, ToSlaveInOrder, ToHostInOrder, Increasing
<1> QED
  BY <1>1, <1>2, <1>3, <1>4 DEF IInv

LEMMA WriteBeginLemma == ASSUME IInv, WriteBegin PROVE IInv'
<1>1. TypeOK'
  <2>1. host' \in HostType
    <3>1. 0 \in 0 .. TriesMax
      BY SpiLinkAssumption
    <3> QED
      BY <3>1 DEF IInv, TypeOK, HostType, WriteBegin
  <2>2. slave' \in SlaveType
    BY SpiLinkAssumption DEF IInv, TypeOK, SlaveType, Bad, WriteBegin
  <2>3. log' \in LogType
    BY SpiLinkAssumption DEF IInv, TypeOK, LogType, WriteBegin
  <2>4. masterTx' \in BOOLEAN /\ cmdRdy' \in BOOLEAN /\ edge' \in BOOLEAN
    BY DEF IInv, TypeOK, WriteBegin
  <2>5. bus' \in Seq(Ops)
    BY DEF IInv, TypeOK, Ops, WriteBegin
  <2> QED
    BY <2>1, <2>2, <2>3, <2>4, <2>5 DEF TypeOK
<1>2. BusOwned'
  BY DEF IInv, TypeOK, HostType, SlaveType, LogType, Bad, BusOwned, WriteBegin
<1>3. Sendings'
  BY DEF IInv, TypeOK, SlaveType, LogType, Sendings, WriteBegin
<1>4. ToSlaveInOrder'
  BY DEF IInv, TypeOK, SlaveType, LogType, ToSlaveInOrder, WriteBegin
<1>5. ToHostInOrder'
  BY DEF IInv, TypeOK, SlaveType, LogType, ToHostInOrder, WriteBegin
<1> QED
  BY <1>1, <1>2, <1>3, <1>4, <1>5 DEF IInv

LEMMA WriteSignalLemma == ASSUME IInv, WriteSignal PROVE IInv'
<1>1. TypeOK'
  <2>1. host' \in HostType
    BY SpiLinkAssumption DEF IInv, TypeOK, HostType, WriteSignal
  <2>2. slave' \in SlaveType
    BY SpiLinkAssumption DEF IInv, TypeOK, SlaveType, Bad, WriteSignal
  <2>3. log' \in LogType
    BY SpiLinkAssumption DEF IInv, TypeOK, LogType, WriteSignal
  <2>4. masterTx' \in BOOLEAN /\ cmdRdy' \in BOOLEAN /\ edge' \in BOOLEAN
    BY DEF IInv, TypeOK, WriteSignal
  <2>5. bus' \in Seq(Ops)
    BY DEF IInv, TypeOK, Ops, WriteSignal
  <2> QED
    BY <2>1, <2>2, <2>3, <2>4, <2>5 DEF TypeOK
<1>2. BusOwned'
  BY DEF IInv, TypeOK, HostType, SlaveType, LogType, Bad, BusOwned, WriteSignal
<1>3. Sendings'
  BY DEF IInv, TypeOK, SlaveType, LogType, Sendings, WriteSignal
<1>4. ToSlaveInOrder'
  BY DEF IInv, TypeOK, SlaveType, LogType, ToSlaveInOrder, WriteSignal
<1>5. ToHostInOrder'
  BY DEF IInv, TypeOK, SlaveType, LogType, ToHostInOrder, WriteSignal
<1> QED
  BY <1>1, <1>2, <1>3, <1>4, <1>5 DEF IInv

LEMMA WriteCheckLemma == ASSUME IInv, WriteCheck PROVE IInv'
<1>1. TypeOK'
  <2>1. host' \in HostType
    BY SpiLinkAssumption DEF IInv, TypeOK, HostType, WriteCheck
  <2>2. slave' \in SlaveType
    BY SpiLinkAssumption DEF IInv, TypeOK, SlaveType, Bad, WriteCheck
  <2>3. log' \in LogType
    BY SpiLinkAssumption DEF IInv, TypeOK, LogType, WriteCheck
  <2>4. masterTx' \in BOOLEAN /\ cmdRdy' \in BOOLEAN /\ edge' \in BOOLEAN
    BY DEF IInv, TypeOK, WriteCheck
  <2>5. bus' \in Seq(Ops)
    BY DEF IInv, TypeOK, Ops, WriteCheck
  <2> QED
    BY <2>1, <2>2, <2>3, <2>4, <2>5 DEF TypeOK
<1>2. BusOwned'
  BY DEF IInv, TypeOK, HostType, LogType, BusOwned, WriteCheck
<1>3. Sendings'
  BY DEF IInv, TypeOK, SlaveType, LogType, Sendings, WriteCheck
<1>4. ToSlaveInOrder'
  BY DEF IInv, TypeOK, SlaveType, LogType, ToSlaveInOrder, WriteCheck
<1>5. ToHostInOrder'
  BY DEF IInv, TypeOK, SlaveType, LogType, ToHostInOrder, WriteCheck
<1> QED
  BY <1>1, <1>2, <1>3, <1>4, <1>5 DEF IInv

LEMMA WriteHeaderLemma == ASSUME IInv, WriteHeader PROVE IInv'
<1>1. TypeOK'
  <2>1. host' \in HostType
    BY SpiLinkAssumption DEF IInv, TypeOK, HostType, WriteHeader
  <2>2. slave' \in SlaveType
    BY SpiLinkAssumption DEF IInv, TypeOK, SlaveType, Bad, WriteHeader
  <2>3. log' \in LogType
    BY SpiLinkAssumption DEF IInv, TypeOK, LogType, WriteHeader
  <2>4. masterTx' \in BOOLEAN /\ cmdRdy' \in BOOLEAN /\ edge' \in BOOLEAN
    BY DEF IInv, TypeOK, WriteHeader
  <2>5. bus' \in Seq(Ops)
    BY DEF IInv, TypeOK, Ops, WriteHeader
  <2> QED
    BY <2>1, <2>2, <2>3, <2>4, <2>5 DEF TypeOK
<1>2. BusOwned'
  <2>1. /\ bus \in Seq(Ops) /\ OneEach(bus) /\ ~Has(bus, "wh") /\ ~Has(bus, "wp")
        /\ host \in HostType
    BY DEF IInv, TypeOK, BusOwned, WriteHeader
  <2>2. /\ bus' = Append(bus, "wh") /\ host' = [host EXCEPT !.pc = "header", !.txActive = 11]
        /\ log' = log
    BY DEF WriteHeader
  <2>3. /\ OneEach(bus') /\ Has(bus', "wh")
        /\ \A p \in Ops : p # "wh" => (Has(bus', p) <=> Has(bus, p))
    BY <2>1, <2>2, AppendOp DEF Ops, Writes
  <2> QED
    BY <2>1, <2>2, <2>3 DEF IInv, HostType, BusOwned, WriteHeader, Ops
<1>3. Sendings'
  BY DEF IInv, TypeOK, SlaveType, LogType, Sendings, WriteHeader
<1>4. ToSlaveInOrder'
  BY DEF IInv, TypeOK, SlaveType, LogType, ToSlaveInOrder, WriteHeader
<1>5. ToHostInOrder'
  BY DEF IInv, TypeOK, SlaveType, LogType, ToHostInOrder, WriteHeader
<1> QED
  BY <1>1, <1>2, <1>3, <1>4, <1>5 DEF IInv

LEMMA WritePayloadLemma == ASSUME IInv, WritePayload PROVE IInv'
<1>1. TypeOK'
  <2>1. host' \in HostType
    BY SpiLinkAssumption DEF IInv, TypeOK, HostType, WritePayload
  <2>2. slave' \in SlaveType
    BY SpiLinkAssumption DEF IInv, TypeOK, SlaveType, Bad, WritePayload
  <2>3. log' \in LogType
    BY SpiLinkAssumption DEF IInv, TypeOK, LogType, WritePayload
  <2>4. masterTx' \in BOOLEAN /\ cmdRdy' \in BOOLEAN /\ edge' \in BOOLEAN
    BY DEF IInv, TypeOK, WritePayload
  <2>5. bus' \in Seq(Ops)
    BY DEF IInv, TypeOK, Ops, WritePayload
  <2> QED
    BY <2>1, <2>2, <2>3, <2>4, <2>5 DEF TypeOK
<1>2. BusOwned'
  <2>1. /\ bus \in Seq(Ops) /\ OneEach(bus) /\ ~Has(bus, "wh") /\ ~Has(bus, "wp")
        /\ host \in HostType
    BY DEF IInv, TypeOK, BusOwned, WritePayload
  <2>2. /\ bus' = Append(bus, "wp") /\ log' = log
        /\ host' = [host EXCEPT !.pc = "payload", !.payloadRdy = FALSE, !.txActive = 10]
    BY DEF WritePayload
  <2>3. /\ OneEach(bus') /\ Has(bus', "wp")
        /\ \A p \in Ops : p # "wp" => (Has(bus', p) <=> Has(bus, p))
    BY <2>1, <2>2, AppendOp DEF Ops, Writes
  <2> QED
    BY <2>1, <2>2, <2>3 DEF IInv, HostType, BusOwned, WritePayload, Ops
<1>3. Sendings'
  BY DEF IInv, TypeOK, SlaveType, LogType, Sendings, WritePayload
<1>4. ToSlaveInOrder'
  BY DEF IInv, TypeOK, SlaveType, LogType, ToSlaveInOrder, WritePayload
<1>5. ToHostInOrder'
  BY DEF IInv, TypeOK, SlaveType, LogType, ToHostInOrder, WritePayload
<1> QED
  BY <1>1, <1>2, <1>3, <1>4, <1>5 DEF IInv

LEMMA WriteTimeoutLemma == ASSUME IInv, WriteTimeout PROVE IInv'
<1>1. TypeOK'
  <2>1. host' \in HostType
    <3>1. host \in HostType
      BY DEF IInv, TypeOK
    <3>2. CASE host.tries < TriesMax
      <4>1. host.tries + 1 \in 0 .. TriesMax
        BY <3>1, <3>2, SpiLinkAssumption DEF HostType
      <4>2. host' = [host EXCEPT !.pc = "header", !.tries = host.tries + 1]
        BY <3>2 DEF WriteTimeout
      <4> QED
        BY <3>1, <4>1, <4>2 DEF HostType
    <3>3. CASE ~(host.tries < TriesMax)
      BY <3>1, <3>3 DEF HostType, WriteTimeout
    <3> QED
      BY <3>2, <3>3
  <2>2. slave' \in SlaveType
    BY SpiLinkAssumption DEF IInv, TypeOK, SlaveType, Bad, WriteTimeout
  <2>3. log' \in LogType
    BY SpiLinkAssumption DEF IInv, TypeOK, LogType, WriteTimeout
  <2>4. masterTx' \in BOOLEAN /\ cmdRdy' \in BOOLEAN /\ edge' \in BOOLEAN
    BY DEF IInv, TypeOK, WriteTimeout
  <2>5. bus' \in Seq(Ops)
    BY DEF IInv, TypeOK, Ops, WriteTimeout
  <2> QED
    BY <2>1, <2>2, <2>3, <2>4, <2>5 DEF TypeOK
<1>2. BusOwned'
  <2>1. /\ bus \in Seq(Ops) /\ OneEach(bus) /\ ~Has(bus, "wh") /\ ~Has(bus, "wp")
        /\ host \in HostType
    BY DEF IInv, TypeOK, BusOwned, WriteTimeout
  <2>2. CASE host.tries < TriesMax
    <3>1. /\ bus' = Append(bus, "wh") /\ log' = log
          /\ host' = [host EXCEPT !.pc = "header", !.tries = host.tries + 1]
      BY <2>2 DEF WriteTimeout
    <3>2. /\ OneEach(bus') /\ Has(bus', "wh")
          /\ \A p \in Ops : p # "wh" => (Has(bus', p) <=> Has(bus, p))
      BY <2>1, <3>1, AppendOp DEF Ops, Writes
    <3> QED
      BY <2>1, <3>1, <3>2 DEF IInv, HostType, BusOwned, WriteTimeout, Ops
  <2>3. CASE ~(host.tries < TriesMax)
    BY <2>1, <2>3 DEF IInv, HostType, BusOwned, WriteTimeout
  <2> QED
    BY <2>2, <2>3
<1>3. Sendings'
  BY DEF IInv, TypeOK, SlaveType, LogType, Sendings, WriteTimeout
<1>4. ToSlaveInOrder'
  BY DEF IInv, TypeOK, SlaveType, LogType, ToSlaveInOrder, WriteTimeout
<1>5. ToHostInOrder'
  BY DEF IInv, TypeOK, SlaveType, LogType, ToHostInOrder, WriteTimeout
<1> QED
  BY <1>1, <1>2, <1>3, <1>4, <1>5 DEF IInv

LEMMA InterruptLemma == ASSUME IInv, Interrupt PROVE IInv'
<1>1. TypeOK'
  <2>1. host' \in HostType
    BY SpiLinkAssumption DEF IInv, TypeOK, HostType, Interrupt, RxHeader
  <2>2. slave' \in SlaveType
    BY SpiLinkAssumption DEF IInv, TypeOK, SlaveType, Bad, Interrupt
  <2>3. log' \in LogType
    BY SpiLinkAssumption DEF IInv, TypeOK, LogType, Interrupt
  <2>4. masterTx' \in BOOLEAN /\ cmdRdy' \in BOOLEAN /\ edge' \in BOOLEAN
    BY DEF IInv, TypeOK, Interrupt
  <2>5. bus' \in Seq(Ops)
    BY DEF IInv, TypeOK, Ops, Interrupt, RxHeader
  <2> QED
    BY <2>1, <2>2, <2>3, <2>4, <2>5 DEF TypeOK
<1>2. BusOwned'
  <2>1. bus \in Seq(Ops) /\ OneEach(bus) /\ host \in HostType /\ log' = log
    BY DEF IInv, TypeOK, BusOwned, Interrupt
  <2>2. CASE bus' = bus /\ host'.pc = host.pc /\ host'.rxActive = host.rxActive
    BY <2>1, <2>2 DEF IInv, BusOwned
  <2>3. CASE RxHeader(host, bus) /\ ~host.rxActive
    <3>1. /\ bus' = Append(bus, "rh") /\ host' = [host EXCEPT !.rxActive = TRUE]
          /\ ~Has(bus, "rh") /\ ~Has(bus, "rp")
      BY <2>3 DEF RxHeader, IInv, BusOwned
    <3>2. /\ OneEach(bus') /\ Has(bus', "rh")
          /\ \A p \in Ops : p # "rh" => (Has(bus', p) <=> Has(bus, p))
      BY <2>1, <3>1, AppendOp DEF Ops, Writes
    <3> QED
      BY <2>1, <3>1, <3>2 DEF IInv, HostType, BusOwned, Ops
  <2> QED
    BY <2>1, <2>2, <2>3 DEF Interrupt, HostType
<1>3. Sendings'
  BY DEF IInv, TypeOK, SlaveType, LogType, Sendings, Interrupt
<1>4. ToSlaveInOrder'
  BY DEF IInv, TypeOK, SlaveType, LogType, ToSlaveInOrder, Interrupt
<1>5. ToHostInOrder'
  BY DEF IInv, TypeOK, SlaveType, LogType, ToHostInOrder, Interrupt
<1> QED
  BY <1>1, <1>2, <1>3, <1>4, <1>5 DEF IInv

LEMMA IoctlLemma == ASSUME IInv, Ioctl PROVE IInv'
<1>1. TypeOK'
  <2>1. host' \in HostType
    BY SpiLinkAssumption DEF IInv, TypeOK, HostType, Ioctl
  <2>2. slave' \in SlaveType
    BY SpiLinkAssumption DEF IInv, TypeOK, SlaveType, Bad, Ioctl
  <2>3. log' \in LogType
    <3>1. log \in LogType /\ log.stops \in 0 .. StopsMax
      BY DEF IInv, TypeOK, LogType
    <3>2. log.stops < StopsMax => log.stops + 1 \in 0 .. StopsMax
      BY <3>1, SpiLinkAssumption
    <3> QED
      BY <3>1, <3>2 DEF LogType, Ioctl
  <2>4. masterTx' \in BOOLEAN /\ cmdRdy' \in BOOLEAN /\ edge' \in BOOLEAN
    BY DEF IInv, TypeOK, Ioctl
  <2>5. bus' \in Seq(Ops)
    BY DEF IInv, TypeOK, Ops, Ioctl
  <2> QED
    BY <2>1, <2>2, <2>3, <2>4, <2>5 DEF TypeOK
<1>2. BusOwned'
  BY DEF IInv, TypeOK, HostType, SlaveType, LogType, Bad, BusOwned, Ioctl
<1>3. Sendings'
  BY DEF IInv, TypeOK, SlaveType, LogType, Sendings, Ioctl
<1>4. ToSlaveInOrder'
  BY DEF IInv, TypeOK, SlaveType, LogType, ToSlaveInOrder, Ioctl
<1>5. ToHostInOrder'
  BY DEF IInv, TypeOK, SlaveType, LogType, ToHostInOrder, Ioctl
<1> QED
  BY <1>1, <1>2, <1>3, <1>4, <1>5 DEF IInv

LEMMA RxCommandLemma == ASSUME IInv, RxCommand PROVE IInv'
<1>1. TypeOK'
  <2>1. host' \in HostType
    BY SpiLinkAssumption DEF IInv, TypeOK, HostType, RxCommand
  <2>2. slave' \in SlaveType
    <3>1. slave \in SlaveType /\ 0 \in 0 .. Bad
      BY SpiLinkAssumption DEF IInv, TypeOK, Bad
    <3> QED
      BY <3>1 DEF SlaveType, RxCommand
  <2>3. log' \in LogType
    BY SpiLinkAssumption DEF IInv, TypeOK, LogType, RxCommand
  <2>4. masterTx' \in BOOLEAN /\ cmdRdy' \in BOOLEAN /\ edge' \in BOOLEAN
    BY DEF IInv, TypeOK, RxCommand
  <2>5. bus' \in Seq(Ops)
    BY DEF IInv, TypeOK, Ops, RxCommand
  <2> QED
    BY <2>1, <2>2, <2>3, <2>4, <2>5 DEF TypeOK
<1>2. BusOwned'
  BY DEF IInv, TypeOK, HostType, SlaveType, LogType, Bad, BusOwned, RxCommand
<1>3. Sendings'
  BY DEF IInv, TypeOK, SlaveType, LogType, Sendings, RxCommand
<1>4. ToSlaveInOrder'
  BY DEF IInv, TypeOK, SlaveType, LogType, ToSlaveInOrder, RxCommand
<1>5. ToHostInOrder'
  BY DEF IInv, TypeOK, SlaveType, LogType, ToHostInOrder, RxCommand
<1> QED
  BY <1>1, <1>2, <1>3, <1>4, <1>5 DEF IInv

LEMMA RxTimeoutLemma == ASSUME IInv, RxTimeout PROVE IInv'
<1>1. TypeOK'
  <2>1. host' \in HostType
    BY SpiLinkAssumption DEF IInv, TypeOK, HostType, RxTimeout
  <2>2. slave' \in SlaveType
    BY SpiLinkAssumption DEF IInv, TypeOK, SlaveType, Bad, RxTimeout
  <2>3. log' \in LogType
    BY SpiLinkAssumption DEF IInv, TypeOK, LogType, RxTimeout
  <2>4. masterTx' \in BOOLEAN /\ cmdRdy' \in BOOLEAN /\ edge' \in BOOLEAN
    BY DEF IInv, TypeOK, RxTimeout
  <2>5. bus' \in Seq(Ops)
    BY DEF IInv, TypeOK, Ops, RxTimeout
  <2> QED
    BY <2>1, <2>2, <2>3, <2>4, <2>5 DEF TypeOK
<1>2. BusOwned'
  BY DEF IInv, TypeOK, HostType, SlaveType, LogType, Bad, BusOwned, RxTimeout
<1>3. Sendings'
  BY DEF IInv, TypeOK, SlaveType, LogType, Sendings, RxTimeout
<1>4. ToSlaveInOrder'
  BY DEF IInv, TypeOK, SlaveType, LogType, ToSlaveInOrder, RxTimeout
<1>5. ToHostInOrder'
  BY DEF IInv, TypeOK, SlaveType, LogType, ToHostInOrder, RxTimeout
<1> QED
  BY <1>1, <1>2, <1>3, <1>4, <1>5 DEF IInv

LEMMA TxCheckLemma == ASSUME IInv, TxCheck PROVE IInv'
<1>1. TypeOK'
  <2>1. host' \in HostType
    BY SpiLinkAssumption DEF IInv, TypeOK, HostType, TxCheck
  <2>2. slave' \in SlaveType
    BY SpiLinkAssumption DEF IInv, TypeOK, SlaveType, Bad, TxCheck
  <2>3. log' \in LogType
    BY SpiLinkAssumption DEF IInv, TypeOK, LogType, TxCheck
  <2>4. masterTx' \in BOOLEAN /\ cmdRdy' \in BOOLEAN /\ edge' \in BOOLEAN
    BY DEF IInv, TypeOK, TxCheck
  <2>5. bus' \in Seq(Ops)
    BY DEF IInv, TypeOK, Ops, TxCheck
  <2> QED
    BY <2>1, <2>2, <2>3, <2>4, <2>5 DEF TypeOK
<1>2. BusOwned'
  BY DEF IInv, TypeOK, HostType, SlaveType, LogType, Bad, BusOwned, TxCheck
<1>3. Sendings'
  BY DEF IInv, TypeOK, SlaveType, LogType, Sendings, TxCheck
<1>4. ToSlaveInOrder'
  BY DEF IInv, TypeOK, SlaveType, LogType, ToSlaveInOrder, TxCheck
<1>5. ToHostInOrder'
  BY DEF IInv, TypeOK, SlaveType, LogType, ToHostInOrder, TxCheck
<1> QED
  BY <1>1, <1>2, <1>3, <1>4, <1>5 DEF IInv

LEMMA TxAbandonedLemma == ASSUME IInv, TxAbandoned PROVE IInv'
<1>1. TypeOK'
  <2>1. host' \in HostType
    BY SpiLinkAssumption DEF IInv, TypeOK, HostType, TxAbandoned
  <2>2. slave' \in SlaveType
    BY SpiLinkAssumption DEF IInv, TypeOK, SlaveType, Bad, TxAbandoned
  <2>3. log' \in LogType
    <3>1. log \in LogType /\ log.fails \in 0 .. FailsMax
      BY DEF IInv, TypeOK, LogType
    <3>2. log.fails < FailsMax => log.fails + 1 \in 0 .. FailsMax
      BY <3>1, SpiLinkAssumption
    <3> QED
      BY <3>1, <3>2 DEF LogType, TxAbandoned
  <2>4. masterTx' \in BOOLEAN /\ cmdRdy' \in BOOLEAN /\ edge' \in BOOLEAN
    BY DEF IInv, TypeOK, TxAbandoned
  <2>5. bus' \in Seq(Ops)
    BY DEF IInv, TypeOK, Ops, TxAbandoned
  <2> QED
    BY <2>1, <2>2, <2>3, <2>4, <2>5 DEF TypeOK
<1>2. BusOwned'
  BY DEF IInv, TypeOK, HostType, SlaveType, LogType, Bad, BusOwned, TxAbandoned
<1>3. Sendings'
  BY DEF IInv, TypeOK, SlaveType, LogType, Sendings, TxAbandoned
<1>4. ToSlaveInOrder'
  BY DEF IInv, TypeOK, SlaveType, LogType, ToSlaveInOrder, TxAbandoned
<1>5. ToHostInOrder'
  BY DEF IInv, TypeOK, SlaveType, LogType, ToHostInOrder, TxAbandoned
<1> QED
  BY <1>1, <1>2, <1>3, <1>4, <1>5 DEF IInv

LEMMA TxDrainLemma == ASSUME IInv, TxDrain PROVE IInv'
<1>1. TypeOK'
  <2>1. host' \in HostType
    BY SpiLinkAssumption DEF IInv, TypeOK, HostType, TxDrain
  <2>2. slave' \in SlaveType
    BY SpiLinkAssumption DEF IInv, TypeOK, SlaveType, Bad, TxDrain
  <2>3. log' \in LogType
    BY SpiLinkAssumption DEF IInv, TypeOK, LogType, TxDrain
  <2>4. masterTx' \in BOOLEAN /\ cmdRdy' \in BOOLEAN /\ edge' \in BOOLEAN
    BY DEF IInv, TypeOK, TxDrain
  <2>5. bus' \in Seq(Ops)
    BY DEF IInv, TypeOK, Ops, TxDrain
  <2> QED
    BY <2>1, <2>2, <2>3, <2>4, <2>5 DEF TypeOK
<1>2. BusOwned'
  BY DEF IInv, TypeOK, HostType, SlaveType, LogType, Bad, BusOwned, TxDrain
<1>3. Sendings'
  BY DEF IInv, TypeOK, SlaveType, LogType, Sendings, TxDrain
<1>4. ToSlaveInOrder'
  BY DEF IInv, TypeOK, SlaveType, LogType, ToSlaveInOrder, TxDrain
<1>5. ToHostInOrder'
  BY DEF IInv, TypeOK, SlaveType, LogType, ToHostInOrder, TxDrain
<1> QED
  BY <1>1, <1>2, <1>3, <1>4, <1>5 DEF IInv

LEMMA TxTimeoutLemma == ASSUME IInv, TxTimeout PROVE IInv'
<1>1. TypeOK'
  <2>1. host' \in HostType
    BY SpiLinkAssumption DEF IInv, TypeOK, HostType, TxTimeout, Rearmed
  <2>2. slave' \in SlaveType
    BY SpiLinkAssumption DEF IInv, TypeOK, SlaveType, Bad, TxTimeout, Rearmed
  <2>3. log' \in LogType
    BY SpiLinkAssumption DEF IInv, TypeOK, LogType, TxTimeout, Rearmed
  <2>4. masterTx' \in BOOLEAN /\ cmdRdy' \in BOOLEAN /\ edge' \in BOOLEAN
    BY DEF IInv, TypeOK, TxTimeout, Rearmed
  <2>5. bus' \in Seq(Ops)
    BY DEF IInv, TypeOK, Ops, TxTimeout, Rearmed
  <2> QED
    BY <2>1, <2>2, <2>3, <2>4, <2>5 DEF TypeOK
<1>2. BusOwned'
  BY DEF IInv, TypeOK, HostType, SlaveType, LogType, Bad, BusOwned, TxTimeout, Rearmed
<1>3. Sendings'
  BY DEF IInv, TypeOK, SlaveType, LogType, Sendings, TxTimeout, Rearmed
<1>4. ToSlaveInOrder'
  BY DEF IInv, TypeOK, SlaveType, LogType, ToSlaveInOrder, TxTimeout, Rearmed
<1>5. ToHostInOrder'
  BY DEF IInv, TypeOK, SlaveType, LogType, ToHostInOrder, TxTimeout, Rearmed
<1> QED
  BY <1>1, <1>2, <1>3, <1>4, <1>5 DEF IInv

-----------------------------------------------------------------------------
(***************************************************************************)
(* Transfers.                                                              *)
(***************************************************************************)
\* What a transfer may change in the slave.
LEMMA ClockLemma ==
  ASSUME TypeOK, NEW op \in Ops
  PROVE  /\ Clock(op) \in SlaveType
         /\ Clock(op).pc = slave.pc /\ Clock(op).engine = slave.engine
         /\ Clock(op).rxPending = slave.rxPending /\ Clock(op).txFlag = slave.txFlag
         /\ \/ Clock(op).pay \in {slave.pay, Bad}
            \/ op = "wp" /\ slave.pay = 0 /\ Clock(op).pay = log.written + 1
         /\ Clock(op).txs = "none" <=> slave.txs = "none"
         /\ Clock(op).txs \in {"full", "hdr"} => slave.txs \in {"full", "hdr"}
<1> DEFINE h == IF slave.engine # "cmd" THEN slave.hdr ELSE IF op = "wh" THEN "good" ELSE "bad"
           p == IF slave.engine # "pay" THEN slave.pay
                ELSE IF op = "wp" /\ slave.pay = 0 THEN log.written + 1 ELSE Bad
           t == CASE slave.engine # "tx" \/ slave.txs = "none" -> slave.txs
                  [] slave.engine = "tx" /\ op = "rh" /\ slave.txs = "full" -> "hdr"
                  [] slave.engine = "tx" /\ op = "rp" /\ slave.txs = "hdr" -> "read"
                  [] OTHER -> "spoiled"
<1>1. slave \in SlaveType /\ log.written \in 0 .. HostMax
  BY DEF TypeOK, LogType
<1>2. Clock(op) = [slave EXCEPT !.hdr = h, !.pay = p, !.txs = t]
  BY DEF Clock
<1>3. h \in {"none", "good", "bad"}
  BY <1>1 DEF SlaveType
<1>4. p \in 0 .. Bad
  BY <1>1, SpiLinkAssumption DEF SlaveType, Bad
<1>5. t \in {"none", "full", "hdr", "read", "spoiled"}
  BY <1>1 DEF SlaveType
<1>6. t = "none" <=> slave.txs = "none"
  BY <1>1 DEF SlaveType
<1>7. t \in {"full", "hdr"} => slave.txs \in {"full", "hdr"}
  BY <1>1 DEF SlaveType
<1>8. \/ p \in {slave.pay, Bad}
      \/ op = "wp" /\ slave.pay = 0 /\ p = log.written + 1
  OBVIOUS
<1> HIDE DEF h, p, t
<1> QED
  BY <1>1, <1>2, <1>3, <1>4, <1>5, <1>6, <1>7, <1>8 DEF SlaveType

LEMMA TransferWriteLemma == ASSUME IInv, TransferWrite PROVE IInv'
<1> DEFINE op == Head(bus)
<1>0. /\ TypeOK /\ bus \in Seq(Ops) /\ OneEach(bus) /\ bus # <<>> /\ op \in {"wh", "wp"}
      /\ op \in Ops /\ host \in HostType /\ slave \in SlaveType /\ log \in LogType
  BY DEF IInv, TypeOK, BusOwned, TransferWrite, Ops
<1>1. /\ Has(bus, op) /\ Tail(bus) \in Seq(Ops) /\ OneEach(Tail(bus)) /\ ~Has(Tail(bus), op)
      /\ \A p \in Ops : p # op => (Has(Tail(bus), p) <=> Has(bus, p))
  BY <1>0, TailOp
<1>2. /\ bus' = Tail(bus) /\ slave' = Clock(op)
      /\ host' = [host EXCEPT !.pc = IF host.pc = "header" THEN "wait" ELSE "idle"]
      /\ log' = [log EXCEPT !.written = IF op = "wp" THEN log.written + 1 ELSE log.written]
      /\ UNCHANGED <<masterTx, cmdRdy, edge>>
  BY DEF TransferWrite
<1>3. /\ slave' \in SlaveType /\ slave'.pc = slave.pc
      /\ \/ slave'.pay \in {slave.pay, Bad}
         \/ op = "wp" /\ slave.pay = 0 /\ slave'.pay = log.written + 1
      /\ slave'.txs = "none" <=> slave.txs = "none"
      /\ slave'.txs \in {"full", "hdr"} => slave.txs \in {"full", "hdr"}
  BY <1>0, <1>2, ClockLemma
<1>4. op = "wp" => host.pc = "payload" /\ log.written < HostMax
  BY <1>0, <1>1 DEF IInv, BusOwned
<1>5. op = "wh" => host.pc = "header"
  BY <1>0, <1>1 DEF IInv, BusOwned
<1> HIDE DEF op
<1>6. log' \in LogType
  <2>1. log.written \in 0 .. HostMax /\ (op = "wp" => log.written + 1 \in 0 .. HostMax)
    BY <1>0, <1>4, SpiLinkAssumption DEF LogType
  <2> QED
    BY <2>1, <1>0, <1>2 DEF LogType
<1>7. TypeOK'
  <2>1. host' \in HostType
    BY <1>0, <1>2 DEF HostType
  <2>2. masterTx' \in BOOLEAN /\ cmdRdy' \in BOOLEAN /\ edge' \in BOOLEAN
    BY <1>0, <1>2 DEF TypeOK
  <2> QED
    BY <2>1, <2>2, <1>1, <1>2, <1>3, <1>6 DEF TypeOK
<1>8. BusOwned'
  <2>1. host.pc = "header" <=> Has(bus, "wh")
    BY DEF IInv, BusOwned
  <2>2. host.pc = "payload" <=> Has(bus, "wp")
    BY DEF IInv, BusOwned
  <2>3. host'.pc \in {"wait", "idle"} /\ (host'.pc = "wait" <=> op = "wh") /\ host'.rxActive = host.rxActive
    BY <1>0, <1>2, <1>4, <1>5 DEF HostType
  <2>4. ~Has(bus', "wh") /\ ~Has(bus', "wp")
    BY <2>1, <2>2, <1>0, <1>1, <1>2, <1>4, <1>5 DEF Ops
  <2>5. host'.rxActive <=> Has(bus', "rh") \/ Has(bus', "rp")
    BY <2>3, <1>0, <1>1, <1>2 DEF Ops, IInv, BusOwned
  <2>6. host'.pc # "idle" => log'.written < HostMax
    BY <2>3, <1>0, <1>2, <1>5 DEF IInv, BusOwned, LogType
  <2> QED
    BY <1>1, <1>2, <2>3, <2>4, <2>5, <2>6 DEF BusOwned
<1>9. Sendings'
  BY <1>0, <1>2, <1>3 DEF IInv, Sendings, LogType
<1>10. ToSlaveInOrder'
  <2>1. /\ log'.toSlave = log.toSlave /\ log.toSlave \in Seq(1 .. HostMax + 1)
        /\ log.written \in Nat /\ log'.written \in {log.written, log.written + 1}
        /\ (op = "wp" => log'.written = log.written + 1)
    BY <1>0, <1>2 DEF LogType
  <2>2. slave'.pay \notin {0, Bad} => slave'.pay =< log'.written
    BY <2>1, <1>0, <1>3 DEF IInv, ToSlaveInOrder, SlaveType
  <2>3. ASSUME NEW i \in 1 .. Len(log.toSlave)
        PROVE  /\ log.toSlave[i] =< log'.written
               /\ slave'.pay \notin {0, Bad} => log.toSlave[i] < slave'.pay
    <3>1. /\ log.toSlave[i] =< log.written
          /\ slave.pay \notin {0, Bad} => log.toSlave[i] < slave.pay
      BY DEF IInv, ToSlaveInOrder
    <3>2. log.toSlave[i] \in 1 .. HostMax + 1
      BY <2>1, Element
    <3> QED
      BY <3>1, <3>2, <2>1, <1>3, SpiLinkAssumption
  <2> QED
    BY <2>1, <2>2, <2>3 DEF IInv, ToSlaveInOrder
<1>11. ToHostInOrder'
  <2>1. log'.toHost = log.toHost /\ log'.accepted = log.accepted
    BY <1>0, <1>2 DEF LogType
  <2> QED
    BY <2>1, <1>3 DEF IInv, ToHostInOrder
<1> QED
  BY <1>7, <1>8, <1>9, <1>10, <1>11 DEF IInv

LEMMA TransferHeaderLemma == ASSUME IInv, TransferHeader PROVE IInv'
<1>0. /\ TypeOK /\ bus \in Seq(Ops) /\ OneEach(bus) /\ bus # <<>> /\ Head(bus) = "rh"
      /\ host \in HostType /\ slave \in SlaveType /\ log \in LogType
  BY DEF IInv, TypeOK, BusOwned, TransferHeader
<1>1. /\ Has(bus, "rh") /\ Tail(bus) \in Seq(Ops) /\ OneEach(Tail(bus)) /\ ~Has(Tail(bus), "rh")
      /\ \A p \in Ops : p # "rh" => (Has(Tail(bus), p) <=> Has(bus, p))
  BY <1>0, TailOp
<1>2. slave' = Clock("rh") /\ log' = log /\ UNCHANGED <<masterTx, cmdRdy, edge>>
  BY DEF TransferHeader
<1>3. /\ slave' \in SlaveType /\ slave'.pc = slave.pc /\ slave'.pay \in {slave.pay, Bad}
      /\ slave'.txs = "none" <=> slave.txs = "none"
      /\ slave'.txs \in {"full", "hdr"} => slave.txs \in {"full", "hdr"}
  <2>1. "rh" \in Ops /\ "rh" # "wp"
    BY DEF Ops
  <2> QED
    BY <2>1, <1>0, <1>2, ClockLemma
<1>4. ~Has(bus, "rp")
  <2>1. \A i, j \in 1 .. Len(bus) : bus[i] = "rh" /\ bus[j] = "rp" => i = j
    BY <1>0 DEF OneEach, Writes
  <2> QED
    BY <1>1, <2>1 DEF Has
<1>5. host' \in HostType /\ bus' \in Seq(Ops) /\ BusOwned'
  <2>1. CASE bus' = Append(Tail(bus), "rp") /\ host' = host
    <3>0. "rp" \in Ops /\ \A p \in Ops : (p \in Writes <=> "rp" \in Writes) => ~Has(Tail(bus), p)
      BY <1>1, <1>4 DEF Ops, Writes
    <3>1. /\ bus' \in Seq(Ops) /\ OneEach(bus') /\ Has(bus', "rp")
          /\ \A p \in Ops : p # "rp" => (Has(bus', p) <=> Has(Tail(bus), p))
      BY <2>1, <3>0, <1>1, AppendOp
    <3> QED
      BY <2>1, <3>1, <1>0, <1>1, <1>2 DEF IInv, BusOwned, Ops
  <2>2. CASE bus' = Tail(bus) /\ host' = [host EXCEPT !.rxActive = FALSE]
    BY <2>2, <1>0, <1>1, <1>2, <1>4 DEF IInv, BusOwned, Ops, HostType
  <2> QED
    BY <2>1, <2>2 DEF TransferHeader
<1>6. TypeOK'
  <2>1. masterTx' \in BOOLEAN /\ cmdRdy' \in BOOLEAN /\ edge' \in BOOLEAN /\ log' \in LogType
    BY <1>0, <1>2 DEF TypeOK
  <2> QED
    BY <2>1, <1>3, <1>5 DEF TypeOK
<1>7. Sendings'
  BY <1>2, <1>3 DEF IInv, Sendings
<1>8. ToSlaveInOrder'
  BY <1>2, <1>3 DEF IInv, ToSlaveInOrder
<1>9. ToHostInOrder'
  BY <1>2, <1>3 DEF IInv, ToHostInOrder
<1> QED
  BY <1>5, <1>6, <1>7, <1>8, <1>9 DEF IInv

LEMMA TransferPayloadLemma == ASSUME IInv, TransferPayload PROVE IInv'
<1>0. /\ TypeOK /\ bus \in Seq(Ops) /\ OneEach(bus) /\ bus # <<>> /\ Head(bus) = "rp"
      /\ host \in HostType /\ slave \in SlaveType /\ log \in LogType
  BY DEF IInv, TypeOK, BusOwned, TransferPayload
<1>1. /\ Has(bus, "rp") /\ Tail(bus) \in Seq(Ops) /\ OneEach(Tail(bus)) /\ ~Has(Tail(bus), "rp")
      /\ \A p \in Ops : p # "rp" => (Has(Tail(bus), p) <=> Has(bus, p))
  BY <1>0, TailOp
<1>2. /\ slave' = Clock("rp") /\ UNCHANGED <<masterTx, cmdRdy, edge>>
      /\ log' = IF slave'.txs = "read" /\ slave.txs = "hdr"
                THEN [log EXCEPT !.toHost = Append(log.toHost, log.accepted)] ELSE log
  BY DEF TransferPayload
<1>3. /\ slave' \in SlaveType /\ slave'.pc = slave.pc /\ slave'.pay \in {slave.pay, Bad}
      /\ slave'.txs = "none" <=> slave.txs = "none"
      /\ slave'.txs \in {"full", "hdr"} => slave.txs \in {"full", "hdr"}
  <2>1. "rp" \in Ops /\ "rp" # "wp"
    BY DEF Ops
  <2> QED
    BY <2>1, <1>0, <1>2, ClockLemma
<1>4. ~Has(bus, "rh")
  <2>1. \A i, j \in 1 .. Len(bus) : bus[i] = "rh" /\ bus[j] = "rp" => i = j
    BY <1>0 DEF OneEach, Writes
  <2> QED
    BY <1>1, <2>1 DEF Has
<1>5. /\ log' \in LogType /\ ToHostInOrder'
      /\ \A f \in {"written", "toSlave", "accepted", "given", "met"} : log'[f] = log[f]
  <2>1. CASE slave'.txs = "read" /\ slave.txs = "hdr"
    <3>1. log' = [log EXCEPT !.toHost = Append(log.toHost, log.accepted)]
      BY <2>1, <1>2
    <3>2. /\ log.accepted \in 0 .. SlaveMax /\ log.toHost \in Seq(1 .. SlaveMax)
          /\ log.given \in Nat /\ log.given < log.accepted
      BY <2>1, <1>0 DEF IInv, Sendings, LogType
    <3>3. log.accepted \in 1 .. SlaveMax /\ SlaveMax \in Nat
      BY <3>2, SpiLinkAssumption
    <3>4. Increasing(log.toHost) /\ \A i \in 1 .. Len(log.toHost) : log.toHost[i] < log.accepted
      BY <2>1 DEF IInv, ToHostInOrder
    <3> DEFINE a == Append(log.toHost, log.accepted)
    <3>5. /\ a \in Seq(1 .. SlaveMax) /\ Increasing(a)
          /\ \A i \in 1 .. Len(a) : a[i] =< log.accepted
      BY <3>2, <3>3, <3>4, AppendIncreasing
    <3> HIDE DEF a
    <3>6. log' = [log EXCEPT !.toHost = a]
      BY <3>1 DEF a
    <3> QED
      BY <2>1, <3>5, <3>6, <1>0 DEF ToHostInOrder, LogType
  <2>2. CASE ~(slave'.txs = "read" /\ slave.txs = "hdr")
    BY <2>2, <1>0, <1>2, <1>3 DEF IInv, ToHostInOrder
  <2> QED
    BY <2>1, <2>2
<1>6. host' \in HostType /\ bus' \in Seq(Ops) /\ BusOwned'
  <2>1. CASE RxHeader([host EXCEPT !.rxPending = FALSE], Tail(bus))
    <3>1. /\ bus' = Append(Tail(bus), "rh")
          /\ host' = [[host EXCEPT !.rxPending = FALSE] EXCEPT !.rxActive = TRUE]
      BY <2>1 DEF RxHeader
    <3>0. "rh" \in Ops /\ \A p \in Ops : (p \in Writes <=> "rh" \in Writes) => ~Has(Tail(bus), p)
      BY <1>1, <1>4 DEF Ops, Writes
    <3>2. /\ bus' \in Seq(Ops) /\ OneEach(bus') /\ Has(bus', "rh")
          /\ \A p \in Ops : p # "rh" => (Has(bus', p) <=> Has(Tail(bus), p))
      BY <3>1, <3>0, <1>1, AppendOp
    <3> QED
      BY <3>1, <3>2, <1>0, <1>1, <1>5 DEF IInv, BusOwned, Ops, HostType
  <2>2. CASE bus' = Tail(bus) /\ host' = [host EXCEPT !.rxActive = FALSE]
    BY <2>2, <1>0, <1>1, <1>4, <1>5 DEF IInv, BusOwned, Ops, HostType
  <2> QED
    BY <2>1, <2>2 DEF TransferPayload
<1>7. TypeOK'
  <2>1. masterTx' \in BOOLEAN /\ cmdRdy' \in BOOLEAN /\ edge' \in BOOLEAN
    BY <1>0, <1>2 DEF TypeOK
  <2> QED
    BY <2>1, <1>3, <1>5, <1>6 DEF TypeOK
<1>8. Sendings'
  BY <1>5, <1>3 DEF IInv, Sendings
<1>9. ToSlaveInOrder'
  BY <1>5, <1>3 DEF IInv, ToSlaveInOrder
<1> QED
  BY <1>5, <1>6, <1>7, <1>8, <1>9 DEF IInv

-----------------------------------------------------------------------------
(***************************************************************************)
(* Frames taken and given by the slave.                                    *)
(***************************************************************************)
LEMMA RxFrameLemma == ASSUME IInv, RxFrame PROVE IInv'
<1>0. /\ TypeOK /\ slave \in SlaveType /\ log \in LogType /\ slave.pay # 0
      /\ UNCHANGED <<host, masterTx, edge, bus>> /\ cmdRdy' = TRUE
      /\ slave' = [slave EXCEPT !.pay = 0, !.rxPending = FALSE, !.engine = "cmd"]
  BY DEF IInv, TypeOK, RxFrame, Rearmed, SlaveType
<1>1. /\ slave' \in SlaveType /\ slave'.pay = 0 /\ slave'.pc = slave.pc
      /\ slave'.txs = slave.txs
  <2>1. 0 \in 0 .. Bad
    BY SpiLinkAssumption DEF Bad
  <2> QED
    BY <2>1, <1>0 DEF SlaveType
<1>2. /\ log' \in LogType /\ Increasing(log'.toSlave)
      /\ \A i \in 1 .. Len(log'.toSlave) : log'.toSlave[i] =< log.written
      /\ \A f \in {"written", "toHost", "accepted", "given", "met"} : log'[f] = log[f]
  <2>1. CASE slave.pay # Bad
    <3> DEFINE a == Append(log.toSlave, slave.pay)
    <3>1. log' = [log EXCEPT !.toSlave = a]
      BY <2>1 DEF RxFrame
    <3>2. /\ log.toSlave \in Seq(1 .. HostMax + 1) /\ log.written \in Nat
          /\ slave.pay \in 1 .. HostMax + 1 /\ HostMax + 1 \in Nat
      BY <1>0, SpiLinkAssumption DEF LogType, SlaveType, Bad
    <3>3. /\ Increasing(log.toSlave) /\ slave.pay =< log.written
          /\ \A i \in 1 .. Len(log.toSlave) : log.toSlave[i] < slave.pay
      BY <2>1, <1>0 DEF IInv, ToSlaveInOrder
    <3>4. /\ a \in Seq(1 .. HostMax + 1) /\ Increasing(a)
          /\ \A i \in 1 .. Len(a) : a[i] =< slave.pay
      BY <3>2, <3>3, AppendIncreasing
    <3> HIDE DEF a
    <3>5. ASSUME NEW i \in 1 .. Len(a) PROVE a[i] =< log.written
      <4>1. a[i] =< slave.pay /\ a[i] \in 1 .. HostMax + 1
        BY <3>4, Element
      <4> QED
        BY <4>1, <3>2, <3>3
    <3> QED
      BY <3>1, <3>4, <3>5, <1>0 DEF LogType
  <2>2. CASE slave.pay = Bad
    BY <2>2, <1>0 DEF RxFrame, IInv, ToSlaveInOrder
  <2> QED
    BY <2>1, <2>2
<1>3. TypeOK'
  <2>1. masterTx' \in BOOLEAN /\ cmdRdy' \in BOOLEAN /\ edge' \in BOOLEAN
    BY <1>0 DEF TypeOK
  <2> QED
    BY <2>1, <1>0, <1>1, <1>2 DEF TypeOK
<1>4. BusOwned'
  BY <1>0, <1>2 DEF IInv, BusOwned
<1>5. Sendings'
  BY <1>1, <1>2 DEF IInv, Sendings
<1>6. ToSlaveInOrder'
  BY <1>1, <1>2 DEF ToSlaveInOrder
<1>7. ToHostInOrder'
  BY <1>1, <1>2 DEF IInv, ToHostInOrder
<1> QED
  BY <1>3, <1>4, <1>5, <1>6, <1>7 DEF IInv

LEMMA TxStartLemma == ASSUME IInv, TxStart PROVE IInv'
<1>1. TypeOK'
  <2>1. host' \in HostType
    BY SpiLinkAssumption DEF IInv, TypeOK, HostType, TxStart
  <2>2. slave' \in SlaveType
    BY SpiLinkAssumption DEF IInv, TypeOK, SlaveType, Bad, TxStart
  <2>3. log' \in LogType
    BY SpiLinkAssumption DEF IInv, TypeOK, LogType, TxStart
  <2>4. masterTx' \in BOOLEAN /\ cmdRdy' \in BOOLEAN /\ edge' \in BOOLEAN
    BY DEF IInv, TypeOK, TxStart
  <2>5. bus' \in Seq(Ops)
    BY DEF IInv, TypeOK, Ops, TxStart
  <2> QED
    BY <2>1, <2>2, <2>3, <2>4, <2>5 DEF TypeOK
<1>2. BusOwned'
  BY DEF IInv, TypeOK, HostType, SlaveType, LogType, Bad, BusOwned, TxStart
<1>3. Sendings'
  BY DEF IInv, TypeOK, SlaveType, LogType, Sendings, TxStart
<1>4. ToSlaveInOrder'
  BY DEF IInv, TypeOK, SlaveType, LogType, ToSlaveInOrder, TxStart
<1>5. ToHostInOrder'
  BY DEF IInv, TypeOK, SlaveType, LogType, ToHostInOrder, TxStart
<1> QED
  BY <1>1, <1>2, <1>3, <1>4, <1>5 DEF IInv

LEMMA TxLoadedLemma == ASSUME IInv, TxLoaded PROVE IInv'
<1>0. /\ TypeOK /\ slave \in SlaveType /\ log \in LogType
      /\ UNCHANGED <<host, masterTx, cmdRdy, bus>> /\ edge' = TRUE
      /\ slave' = [slave EXCEPT !.pc = "idle", !.txs = "full", !.txFlag = TRUE]
      /\ log' = [log EXCEPT !.accepted = log.accepted + 1]
  BY DEF IInv, TypeOK, TxLoaded
<1>1. /\ log.accepted \in 0 .. SlaveMax /\ log.given \in 0 .. SlaveMax
      /\ log.accepted < SlaveMax /\ log.given =< log.accepted
      /\ SlaveMax \in Nat
  BY <1>0, SpiLinkAssumption DEF IInv, LogType, Sendings, TxLoaded
<1>2. log' \in LogType
  <2>1. log.accepted + 1 \in 0 .. SlaveMax
    BY <1>1
  <2> QED
    BY <2>1, <1>0 DEF LogType
<1>3. slave' \in SlaveType /\ slave'.pay = slave.pay
  BY <1>0 DEF SlaveType
<1>4. TypeOK'
  <2>1. masterTx' \in BOOLEAN /\ cmdRdy' \in BOOLEAN /\ edge' \in BOOLEAN
    BY <1>0 DEF TypeOK
  <2>2. host' \in HostType /\ bus' \in Seq(Ops)
    BY <1>0 DEF TypeOK
  <2> QED
    BY <2>1, <2>2, <1>2, <1>3 DEF TypeOK
<1>5. log'.written = log.written /\ log'.toSlave = log.toSlave /\ log'.toHost = log.toHost
      /\ log'.accepted = log.accepted + 1
  BY <1>0 DEF LogType
<1>6. BusOwned'
  BY <1>0, <1>5 DEF IInv, BusOwned
<1>7. Sendings'
  BY <1>0, <1>1 DEF Sendings, LogType, SlaveType
<1>8. ToSlaveInOrder'
  BY <1>3, <1>5 DEF IInv, ToSlaveInOrder
<1>9. ToHostInOrder'
  <2>1. ASSUME NEW i \in 1 .. Len(log.toHost)
        PROVE  log.toHost[i] =< log'.accepted /\ log.toHost[i] < log'.accepted
    <3>1. log.toHost[i] =< log.accepted
      BY DEF IInv, ToHostInOrder
    <3>2. log.toHost \in Seq(1 .. SlaveMax)
      BY <1>0 DEF LogType
    <3>3. log.toHost[i] \in 1 .. SlaveMax
      BY <3>2, Element
    <3> QED
      BY <3>1, <3>3, <1>1, <1>5
  <2> QED
    BY <2>1, <1>5 DEF IInv, ToHostInOrder
<1> QED
  BY <1>4, <1>6, <1>7, <1>8, <1>9 DEF IInv

LEMMA TxDoneLemma == ASSUME IInv, TxDone PROVE IInv'
<1>0. /\ TypeOK /\ slave \in SlaveType /\ log \in LogType /\ slave.txs # "none"
      /\ UNCHANGED <<host, masterTx, edge, bus>> /\ cmdRdy' = TRUE
      /\ slave' = [slave EXCEPT !.pc = "idle", !.txFlag = FALSE, !.txs = "none", !.engine = "cmd"]
      /\ log' = [log EXCEPT !.given = log.given + 1]
  BY DEF IInv, TypeOK, TxDone, Rearmed, SlaveType
<1>1. /\ log.accepted \in 0 .. SlaveMax /\ log.given \in 0 .. SlaveMax /\ log.given < log.accepted
      /\ SlaveMax \in Nat
  BY <1>0, SpiLinkAssumption DEF IInv, LogType, Sendings
<1>2. log' \in LogType /\ log'.given = log.given + 1
  <2>1. log.given + 1 \in 0 .. SlaveMax
    BY <1>1
  <2> QED
    BY <2>1, <1>0 DEF LogType
<1>3. slave' \in SlaveType /\ slave'.pay = slave.pay /\ slave'.txs = "none" /\ slave'.pc = "idle"
  BY <1>0 DEF SlaveType
<1>4. TypeOK'
  <2>1. masterTx' \in BOOLEAN /\ cmdRdy' \in BOOLEAN /\ edge' \in BOOLEAN
    BY <1>0 DEF TypeOK
  <2>2. host' \in HostType /\ bus' \in Seq(Ops)
    BY <1>0 DEF TypeOK
  <2> QED
    BY <2>1, <2>2, <1>2, <1>3 DEF TypeOK
<1>5. \A f \in {"written", "toSlave", "toHost", "accepted", "met"} : log'[f] = log[f]
  BY <1>0 DEF LogType
<1>6. BusOwned'
  BY <1>0, <1>5 DEF IInv, BusOwned
<1>7. Sendings'
  BY <1>1, <1>2, <1>3, <1>5 DEF Sendings
<1>8. ToSlaveInOrder'
  BY <1>3, <1>5 DEF IInv, ToSlaveInOrder
<1>9. ToHostInOrder'
  BY <1>3, <1>5 DEF IInv, ToHostInOrder
<1> QED
  BY <1>4, <1>6, <1>7, <1>8, <1>9 DEF IInv

LEMMA NextLemma == ASSUME IInv, [Next]_vars PROVE IInv'
<1>1. CASE UNCHANGED vars
  <2>1. /\ host' = host /\ slave' = slave /\ masterTx' = masterTx /\ cmdRdy' = cmdRdy
        /\ edge' = edge /\ bus' = bus /\ log' = log
    BY <1>1 DEF vars
  <2> QED
    BY <2>1 DEF IInv, TypeOK, BusOwned, Sendings, ToSlaveInOrder, ToHostInOrder
<1>2. CASE HostStep
  BY <1>2, WriteBeginLemma, WriteSignalLemma, WriteCheckLemma, WriteHeaderLemma, WritePayloadLemma,
     WriteTimeoutLemma, InterruptLemma, TransferWriteLemma, TransferHeaderLemma,
     TransferPayloadLemma DEF HostStep
<1>3. CASE SlaveStep
  BY <1>3, RxCommandLemma, RxFrameLemma, TxStartLemma, TxLoadedLemma, TxDoneLemma DEF SlaveStep
<1>4. CASE TxTimeout \/ RxTimeout \/ TxCheck \/ TxAbandoned \/ TxDrain \/ Ioctl
  BY <1>4, TxTimeoutLemma, RxTimeoutLemma, TxCheckLemma, TxAbandonedLemma, TxDrainLemma,
     IoctlLemma
<1> QED
  BY <1>1, <1>2, <1>3, <1>4 DEF Next

\* Every transfer belongs to the writer or to the reception, and what was
\* delivered is older than what is on its way, on every link.
THEOREM InvTheorem == Spec => []IInv
<1>1. Init => IInv
  BY InitLemma
<1>2. IInv /\ [Next]_vars => IInv'
  BY NextLemma
<1> QED
  BY <1>1, <1>2, PTL DEF Spec

\* Retries, late interrupts, meetings and disconnections never deliver a
\* frame twice or out of order, for any number of frames.
THEOREM OrderTheorem == Spec => []DeliveredOnceInOrder
<1>1. IInv => DeliveredOnceInOrder
  BY DEF IInv, DeliveredOnceInOrder, ToSlaveInOrder, ToHostInOrder
<1> QED
  BY <1>1, InvTheorem, PTL

-----------------------------------------------------------------------------
(***************************************************************************)
(* The handshake.  As long as the two sides never met, the link is in one  *)
(* of three phases; a phase says who owns the wires and what is not yet    *)
(* delivered.                                                              *)
(***************************************************************************)
\* What the writer's progress says about its flags.
Pins ==
  /\ masterTx <=> host.pc \in {"check", "build", "header", "wait"}
  /\ host.txActive = 11 <=> host.pc \in {"header", "wait"}
  /\ log.stops = 0 => ~host.stop

\* Something will be clocked into the slave without a timeout.
Coming == edge \/ bus # <<>> \/ (host.pc = "wait" /\ host.payloadRdy)

\* spi_payload_rx_pending is set while a payload is expected, and on a link
\* that was never disconnected something comes in its place.
Expecting ==
  log.stops = 0 =>
    /\ slave.rxPending <=> slave.engine = "pay"
    /\ slave.engine = "pay" =>
         /\ slave.hdr = "none" /\ slave.txs = "none" /\ slave.pc \notin {"txReady", "txLoad"}
         /\ slave.pay = 0 => Coming

\* Nothing but the host's header may be on its way.
Quiet ==
  /\ slave.pc \in {"idle", "txReady", "txLoad"} /\ slave.engine \in {"cmd", "tx"}
  /\ slave.pc = "txLoad" => slave.engine = "tx"
  /\ slave.engine = "tx" => slave.hdr = "none" /\ host.pc \in {"idle", "signal", "check"}
  /\ slave.pay = 0 /\ slave.txs = "none" /\ ~slave.rxPending /\ ~slave.txFlag
  /\ cmdRdy <=> slave.engine = "cmd"
  /\ ~edge /\ ~host.rxActive /\ ~host.payloadRdy /\ host.pc # "payload"
  /\ slave.hdr # "none" => slave.hdr = "good" /\ host.pc = "wait"
  /\ Len(log.toSlave) = log.written /\ Len(log.toHost) = log.given

\* The slave expects a payload.
Receiving ==
  /\ slave.pc = "idle" /\ slave.engine = "pay"
  /\ slave.hdr = "none" /\ slave.txs = "none" /\ slave.rxPending /\ ~slave.txFlag
  /\ ~cmdRdy /\ ~host.rxActive /\ host.pc \notin {"signal", "check", "build"}
  /\ edge => slave.pay = 0 /\ host.pc = "wait" /\ ~host.payloadRdy
  /\ host.payloadRdy => slave.pay = 0 /\ host.pc = "wait"
  /\ slave.pay # 0 => host.pc \in {"idle", "wait"}
  /\ Len(log.toSlave) + (IF slave.pay \in {0, Bad} THEN 0 ELSE 1) = log.written
  /\ Len(log.toHost) = log.given

\* The slave offers a frame.
Sending ==
  /\ slave.pc \in {"idle", "drain"} /\ slave.engine = "tx"
  /\ slave.hdr = "none" /\ slave.pay = 0 /\ ~slave.rxPending /\ slave.txFlag
  /\ ~cmdRdy /\ ~host.payloadRdy /\ host.pc \in {"idle", "signal", "check"}
  /\ slave.txs \in {"full", "hdr", "read"}
  /\ edge => slave.txs = "full" /\ ~host.rxActive
  /\ slave.txs = "full" => ~Has(bus, "rp")
  /\ slave.txs = "hdr" => Has(bus, "rp")
  /\ slave.txs = "read" => ~host.rxActive
  /\ slave.txs = "full" /\ log.stops = 0 => edge \/ host.rxActive
  /\ Len(log.toSlave) = log.written
  /\ Len(log.toHost) = log.given + (IF slave.txs = "read" THEN 1 ELSE 0)

Phase == ~log.met => ~host.rxPending /\ (Quiet \/ Receiving \/ Sending)

HInv == Pins /\ Expecting /\ Phase

LEMMA EmptyHasNone == ASSUME NEW op, bus = <<>> PROVE ~Has(bus, op)
  BY DEF Has

LEMMA AppendSome == ASSUME NEW q \in Seq(Ops), NEW op \in Ops PROVE Append(q, op) # <<>>
<1>1. Len(Append(q, op)) = Len(q) + 1 /\ Len(q) \in Nat
  OBVIOUS
<1> QED
  BY <1>1

\* A transfer by the mode of the slave's engine.
LEMMA ClockModes ==
  ASSUME TypeOK, NEW op \in Ops
  PROVE  /\ slave.engine # "cmd" => Clock(op).hdr = slave.hdr
         /\ slave.engine = "cmd" => Clock(op).hdr = IF op = "wh" THEN "good" ELSE "bad"
         /\ slave.engine # "pay" => Clock(op).pay = slave.pay
         /\ slave.engine = "pay" =>
              Clock(op).pay = IF op = "wp" /\ slave.pay = 0 THEN log.written + 1 ELSE Bad
         /\ slave.engine # "tx" \/ slave.txs = "none" => Clock(op).txs = slave.txs
         /\ slave.engine = "tx" /\ slave.txs = "full" /\ op = "rh" => Clock(op).txs = "hdr"
         /\ slave.engine = "tx" /\ slave.txs = "hdr" /\ op = "rp" => Clock(op).txs = "read"
<1>1. slave \in SlaveType
  BY DEF TypeOK
<1>2. /\ slave.engine # "cmd" => Clock(op).hdr = slave.hdr
      /\ slave.engine = "cmd" => Clock(op).hdr = IF op = "wh" THEN "good" ELSE "bad"
  BY <1>1 DEF Clock, SlaveType
<1>3. /\ slave.engine # "pay" => Clock(op).pay = slave.pay
      /\ slave.engine = "pay" =>
           Clock(op).pay = IF op = "wp" /\ slave.pay = 0 THEN log.written + 1 ELSE Bad
  BY <1>1 DEF Clock, SlaveType
<1>4. slave.engine # "tx" \/ slave.txs = "none" => Clock(op).txs = slave.txs
  BY <1>1 DEF Clock, SlaveType
<1>5. slave.engine = "tx" /\ slave.txs = "full" /\ op = "rh" => Clock(op).txs = "hdr"
  BY <1>1 DEF Clock, SlaveType
<1>6. slave.engine = "tx" /\ slave.txs = "hdr" /\ op = "rp" => Clock(op).txs = "read"
  BY <1>1 DEF Clock, SlaveType
<1> QED
  BY <1>2, <1>3, <1>4, <1>5, <1>6

LEMMA HInit == ASSUME Init PROVE HInv
<1>1. Pins /\ Expecting
  BY DEF Init, Pins, Expecting
<1>2. Quiet
  BY DEF Init, Quiet
<1> QED
  BY <1>1, <1>2 DEF Init, HInv, Phase

LEMMA WriteBeginPhase == ASSUME IInv, HInv, WriteBegin PROVE HInv'
<1>0. /\ TypeOK /\ BusOwned /\ host \in HostType /\ slave \in SlaveType /\ log \in LogType
      /\ Pins /\ Expecting /\ Phase
  BY DEF IInv, TypeOK, HInv
<1>1. Pins'
  BY <1>0 DEF Pins, HostType, LogType, WriteBegin
<1>2. Expecting'
  BY <1>0 DEF Expecting, Coming, Pins, HostType, SlaveType, LogType, WriteBegin
<1>3. ASSUME ~log'.met PROVE ~host'.rxPending /\ (Quiet \/ Receiving \/ Sending)'
  <2>1. ~log.met /\ ~host.rxPending /\ (Quiet \/ Receiving \/ Sending)
    BY <1>0, <1>3 DEF Phase, WriteBegin, LogType
  <2>2. CASE Quiet
    BY <1>0, <2>1, <2>2 DEF Quiet, Pins, HostType, SlaveType, LogType, WriteBegin
  <2>3. CASE Receiving
    BY <1>0, <2>1, <2>3 DEF Receiving, Pins, HostType, SlaveType, LogType, WriteBegin
  <2>4. CASE Sending
    BY <1>0, <2>1, <2>4 DEF Sending, Pins, HostType, SlaveType, LogType, WriteBegin
  <2> QED
    BY <2>1, <2>2, <2>3, <2>4
<1> QED
  BY <1>1, <1>2, <1>3 DEF HInv, Phase

LEMMA WriteSignalPhase == ASSUME IInv, HInv, WriteSignal PROVE HInv'
<1>0. /\ TypeOK /\ BusOwned /\ host \in HostType /\ slave \in SlaveType /\ log \in LogType
      /\ Pins /\ Expecting /\ Phase
  BY DEF IInv, TypeOK, HInv
<1>1. Pins'
  BY <1>0 DEF Pins, HostType, LogType, WriteSignal
<1>2. Expecting'
  BY <1>0 DEF Expecting, Coming, Pins, HostType, SlaveType, LogType, WriteSignal
<1>3. ASSUME ~log'.met PROVE ~host'.rxPending /\ (Quiet \/ Receiving \/ Sending)'
  <2>1. ~log.met /\ ~host.rxPending /\ (Quiet \/ Receiving \/ Sending)
    BY <1>0, <1>3 DEF Phase, WriteSignal, LogType
  <2>2. CASE Quiet
    BY <1>0, <2>1, <2>2 DEF Quiet, Pins, HostType, SlaveType, LogType, WriteSignal
  <2>3. CASE Receiving
    BY <1>0, <2>1, <2>3 DEF Receiving, Pins, HostType, SlaveType, LogType, WriteSignal
  <2>4. CASE Sending
    BY <1>0, <2>1, <2>4 DEF Sending, Pins, HostType, SlaveType, LogType, WriteSignal
  <2> QED
    BY <2>1, <2>2, <2>3, <2>4
<1> QED
  BY <1>1, <1>2, <1>3 DEF HInv, Phase

LEMMA WriteCheckPhase == ASSUME IInv, HInv, WriteCheck PROVE HInv'
<1>0. /\ TypeOK /\ BusOwned /\ host \in HostType /\ slave \in SlaveType /\ log \in LogType
      /\ Pins /\ Expecting /\ Phase
  BY DEF IInv, TypeOK, HInv
<1>1. Pins'
  BY <1>0 DEF Pins, HostType, LogType, WriteCheck
<1>2. Expecting'
  BY <1>0 DEF Expecting, Coming, Pins, HostType, SlaveType, LogType, WriteCheck
<1>3. ASSUME ~log'.met PROVE ~host'.rxPending /\ (Quiet \/ Receiving \/ Sending)'
  <2>1. ~log.met /\ ~host.rxPending /\ (Quiet \/ Receiving \/ Sending)
    BY <1>0, <1>3 DEF Phase, WriteCheck, LogType
  <2>2. CASE Quiet
    BY <1>0, <2>1, <2>2 DEF Quiet, Pins, HostType, SlaveType, LogType, WriteCheck
  <2>3. CASE Receiving
    BY <1>0, <2>1, <2>3 DEF Receiving, Pins, HostType, SlaveType, LogType, WriteCheck
  <2>4. CASE Sending
    BY <1>0, <2>1, <2>4 DEF Sending, Pins, HostType, SlaveType, LogType, WriteCheck
  <2> QED
    BY <2>1, <2>2, <2>3, <2>4
<1> QED
  BY <1>1, <1>2, <1>3 DEF HInv, Phase

LEMMA WriteHeaderPhase == ASSUME IInv, HInv, WriteHeader PROVE HInv'
<1>0. /\ TypeOK /\ BusOwned /\ host \in HostType /\ slave \in SlaveType /\ log \in LogType
      /\ Pins /\ Expecting /\ Phase
  BY DEF IInv, TypeOK, HInv
<1>1. Pins'
  BY <1>0 DEF Pins, HostType, LogType, WriteHeader
<1>2. Expecting'
  <2>1. "wh" \in Ops /\ bus \in Seq(Ops)
    BY <1>0 DEF Ops, TypeOK
  <2>2. bus' # <<>> /\ slave' = slave /\ log' = log
    BY <2>1, AppendSome DEF WriteHeader
  <2> QED
    BY <1>0, <2>2 DEF Expecting, Coming
<1>3. ASSUME ~log'.met PROVE ~host'.rxPending /\ (Quiet \/ Receiving \/ Sending)'
  <2>1. ~log.met /\ ~host.rxPending /\ (Quiet \/ Receiving \/ Sending)
    BY <1>0, <1>3 DEF Phase, WriteHeader, LogType
  <2>2. CASE Quiet
    BY <1>0, <2>1, <2>2 DEF Quiet, Pins, HostType, SlaveType, LogType, WriteHeader
  <2>3. CASE Receiving
    BY <1>0, <2>1, <2>3 DEF Receiving, Pins, HostType, SlaveType, LogType, WriteHeader
  <2>4. CASE Sending
    BY <1>0, <2>1, <2>4 DEF Sending, Pins, HostType, SlaveType, LogType, WriteHeader
  <2> QED
    BY <2>1, <2>2, <2>3, <2>4
<1> QED
  BY <1>1, <1>2, <1>3 DEF HInv, Phase

LEMMA WritePayloadPhase == ASSUME IInv, HInv, WritePayload PROVE HInv'
<1>0. /\ TypeOK /\ BusOwned /\ host \in HostType /\ slave \in SlaveType /\ log \in LogType
      /\ Pins /\ Expecting /\ Phase
  BY DEF IInv, TypeOK, HInv
<1>1. Pins'
  BY <1>0 DEF Pins, HostType, LogType, WritePayload
<1>2. Expecting'
  BY <1>0 DEF Expecting, Coming, Pins, HostType, SlaveType, LogType, WritePayload
<1>3. ASSUME ~log'.met PROVE ~host'.rxPending /\ (Quiet \/ Receiving \/ Sending)'
  <2>1. ~log.met /\ ~host.rxPending /\ (Quiet \/ Receiving \/ Sending)
    BY <1>0, <1>3 DEF Phase, WritePayload, LogType
  <2>2. CASE Quiet
    BY <1>0, <2>1, <2>2 DEF Quiet, Pins, HostType, SlaveType, LogType, WritePayload
  <2>3. CASE Receiving
    BY <1>0, <2>1, <2>3 DEF Receiving, Pins, HostType, SlaveType, LogType, WritePayload
  <2>4. CASE Sending
    BY <1>0, <2>1, <2>4 DEF Sending, Pins, HostType, SlaveType, LogType, WritePayload
  <2> QED
    BY <2>1, <2>2, <2>3, <2>4
<1> QED
  BY <1>1, <1>2, <1>3 DEF HInv, Phase

LEMMA WriteTimeoutPhase == ASSUME IInv, HInv, WriteTimeout PROVE HInv'
<1>0. /\ TypeOK /\ BusOwned /\ host \in HostType /\ slave \in SlaveType /\ log \in LogType
      /\ Pins /\ Expecting /\ Phase
  BY DEF IInv, TypeOK, HInv
<1>1. Pins'
  <2>1. CASE host.tries < TriesMax
    BY <1>0, <2>1 DEF Pins, HostType, WriteTimeout
  <2>2. CASE ~(host.tries < TriesMax)
    <3>1. host' = [host EXCEPT !.pc = "idle", !.txActive = 10] /\ masterTx' = FALSE /\ log' = log
      BY <2>2 DEF WriteTimeout
    <3>2. host'.pc = "idle" /\ host'.txActive = 10 /\ host'.stop = host.stop
      BY <1>0, <3>1 DEF HostType
    <3> QED
      BY <1>0, <3>1, <3>2 DEF Pins
  <2> QED
    BY <2>1, <2>2
<1>2. Expecting'
  BY <1>0 DEF Expecting, Coming, Pins, HostType, SlaveType, LogType, WriteTimeout, Stalled
<1>3. ASSUME ~log'.met PROVE ~host'.rxPending /\ (Quiet \/ Receiving \/ Sending)'
  <2>1. ~log.met /\ ~host.rxPending /\ (Quiet \/ Receiving \/ Sending)
    BY <1>0, <1>3 DEF Phase, WriteTimeout, Stalled, LogType
  <2>2. CASE Quiet
    BY <1>0, <2>1, <2>2 DEF Quiet, Pins, HostType, SlaveType, LogType, WriteTimeout, Stalled
  <2>3. CASE Receiving
    <3>1. /\ ~edge /\ slave.pay = 0 /\ ~host.payloadRdy
          /\ UNCHANGED <<slave, cmdRdy, edge, log>>
      BY <2>3 DEF WriteTimeout, Stalled, Receiving
    <3>2. /\ host'.pc \in {"header", "idle"} /\ host'.rxActive = host.rxActive
          /\ host'.payloadRdy = host.payloadRdy /\ host'.rxPending = host.rxPending
      <4>1. CASE host.tries < TriesMax
        BY <1>0, <4>1 DEF HostType, WriteTimeout
      <4>2. CASE ~(host.tries < TriesMax)
        BY <1>0, <4>2 DEF HostType, WriteTimeout
      <4> QED
        BY <4>1, <4>2
    <3> QED
      BY <2>1, <2>3, <3>1, <3>2 DEF Receiving
  <2>4. CASE Sending
    BY <1>0, <2>1, <2>4 DEF Sending, Pins, HostType, SlaveType, LogType, WriteTimeout, Stalled
  <2> QED
    BY <2>1, <2>2, <2>3, <2>4
<1> QED
  BY <1>1, <1>2, <1>3 DEF HInv, Phase

LEMMA InterruptPhase == ASSUME IInv, HInv, Interrupt PROVE HInv'
<1>0. /\ TypeOK /\ BusOwned /\ host \in HostType /\ slave \in SlaveType /\ log \in LogType
      /\ Pins /\ Expecting /\ Phase
  BY DEF IInv, TypeOK, HInv
<1>1. Pins'
  BY <1>0 DEF Pins, HostType, LogType, Interrupt, RxHeader
<1>2. Expecting'
  <2>1. ASSUME log.stops = 0 PROVE bus' # <<>> \/ (host'.pc = "wait" /\ host'.payloadRdy)
    <3>1. ~host.stop
      BY <1>0, <2>1 DEF Pins
    <3>2. CASE host.txActive = 11
      <4>1. host' = [host EXCEPT !.payloadRdy = TRUE] /\ bus' = bus
        BY <3>1, <3>2 DEF Interrupt
      <4>2. CASE host.pc = "wait"
        BY <1>0, <4>1, <4>2 DEF HostType
      <4>3. CASE host.pc = "header"
        BY <1>0, <4>1, <4>3, EmptyHasNone DEF BusOwned
      <4> QED
        BY <1>0, <3>2, <4>2, <4>3 DEF Pins
    <3>3. CASE host.txActive = 10 /\ host.rxActive
      BY <1>0, <3>1, <3>3, EmptyHasNone DEF Interrupt, BusOwned
    <3>4. CASE host.txActive = 10 /\ ~host.rxActive
      <4>1. bus' = Append(bus, "rh")
        BY <3>1, <3>4 DEF Interrupt, RxHeader
      <4>2. "rh" \in Ops /\ bus \in Seq(Ops)
        BY <1>0 DEF Ops, TypeOK
      <4> QED
        BY <4>1, <4>2, AppendSome
    <3> QED
      BY <1>0, <3>2, <3>3, <3>4 DEF HostType
  <2>2. slave' = slave /\ log' = log
    BY DEF Interrupt
  <2> QED
    BY <1>0, <2>1, <2>2 DEF Expecting, Coming
<1>3. ASSUME ~log'.met PROVE ~host'.rxPending /\ (Quiet \/ Receiving \/ Sending)'
  <2>1. ~log.met /\ ~host.rxPending /\ (Quiet \/ Receiving \/ Sending)
    BY <1>0, <1>3 DEF Phase, Interrupt, RxHeader, LogType
  <2>2. CASE Quiet
    BY <1>0, <2>1, <2>2 DEF Quiet, Pins, HostType, SlaveType, LogType, Interrupt, RxHeader
  <2>3. CASE Receiving
    BY <1>0, <2>1, <2>3 DEF Receiving, Pins, HostType, SlaveType, LogType, Interrupt, RxHeader
  <2>4. CASE Sending
    <3>1. /\ slave' = slave /\ log' = log /\ cmdRdy' = cmdRdy /\ ~edge' /\ slave.txs = "full"
          /\ ~host.rxActive /\ host.txActive = 10 /\ bus \in Seq(Ops) /\ OneEach(bus)
      BY <1>0, <2>4 DEF Sending, Interrupt, Pins, HostType, TypeOK, BusOwned
    <3>2. CASE host.stop
      <4>1. host' = host /\ bus' = bus /\ log.stops # 0
        BY <1>0, <3>2 DEF Interrupt, Pins
      <4> QED
        BY <2>1, <2>4, <3>1, <4>1 DEF Sending
    <3>3. CASE ~host.stop
      <4>1. host' = [host EXCEPT !.rxActive = TRUE] /\ bus' = Append(bus, "rh")
        BY <3>1, <3>3 DEF Interrupt, RxHeader
      <4>2. "rh" \in Ops /\ \A p \in Ops : (p \in Writes <=> "rh" \in Writes) => ~Has(bus, p)
        BY <1>0, <3>1 DEF BusOwned, Ops, Writes
      <4>3. \A p \in Ops : p # "rh" => (Has(bus', p) <=> Has(bus, p))
        BY <3>1, <4>1, <4>2, AppendOp
      <4>4. ~Has(bus', "rp")
        BY <2>4, <3>1, <4>3 DEF Sending, Ops
      <4>5. /\ host'.pc = host.pc /\ host'.rxActive /\ host'.rxPending = host.rxPending
            /\ host'.payloadRdy = host.payloadRdy
        BY <1>0, <4>1 DEF HostType
      <4> QED
        BY <2>1, <2>4, <3>1, <4>4, <4>5 DEF Sending
    <3> QED
      BY <3>2, <3>3
  <2> QED
    BY <2>1, <2>2, <2>3, <2>4
<1> QED
  BY <1>1, <1>2, <1>3 DEF HInv, Phase

LEMMA IoctlPhase == ASSUME IInv, HInv, Ioctl PROVE HInv'
<1>0. /\ TypeOK /\ BusOwned /\ host \in HostType /\ slave \in SlaveType /\ log \in LogType
      /\ Pins /\ Expecting /\ Phase
  BY DEF IInv, TypeOK, HInv
<1>1. Pins'
  BY <1>0 DEF Pins, HostType, LogType, Ioctl
<1>2. Expecting'
  BY <1>0 DEF Expecting, Coming, Pins, HostType, SlaveType, LogType, Ioctl
<1>3. ASSUME ~log'.met PROVE ~host'.rxPending /\ (Quiet \/ Receiving \/ Sending)'
  <2>1. ~log.met /\ ~host.rxPending /\ (Quiet \/ Receiving \/ Sending)
    BY <1>0, <1>3 DEF Phase, Ioctl, LogType
  <2>2. CASE Quiet
    BY <1>0, <2>1, <2>2 DEF Quiet, Pins, HostType, SlaveType, LogType, Ioctl
  <2>3. CASE Receiving
    BY <1>0, <2>1, <2>3 DEF Receiving, Pins, HostType, SlaveType, LogType, Ioctl
  <2>4. CASE Sending
    BY <1>0, <2>1, <2>4 DEF Sending, Pins, HostType, SlaveType, LogType, Ioctl
  <2> QED
    BY <2>1, <2>2, <2>3, <2>4
<1> QED
  BY <1>1, <1>2, <1>3 DEF HInv, Phase

LEMMA TransferWritePhase == ASSUME IInv, HInv, TransferWrite PROVE HInv'
<1>0. /\ TypeOK /\ BusOwned /\ host \in HostType /\ slave \in SlaveType /\ log \in LogType
      /\ Pins /\ Expecting /\ Phase
  BY DEF IInv, TypeOK, HInv
<1> DEFINE op == Head(bus)
<1>a. /\ bus \in Seq(Ops) /\ OneEach(bus) /\ bus # <<>> /\ op \in {"wh", "wp"} /\ op \in Ops
      /\ slave' = Clock(op) /\ UNCHANGED <<masterTx, cmdRdy, edge>>
      /\ host' = [host EXCEPT !.pc = IF host.pc = "header" THEN "wait" ELSE "idle"]
      /\ log' = [log EXCEPT !.written = IF op = "wp" THEN log.written + 1 ELSE log.written]
  BY <1>0 DEF TypeOK, BusOwned, TransferWrite, Ops
<1>b. Has(bus, op)
  BY <1>a, TailOp
<1>c. (op = "wh" => host.pc = "header") /\ (op = "wp" => host.pc = "payload")
  BY <1>0, <1>b DEF BusOwned
<1>d. /\ slave'.pc = slave.pc /\ slave'.engine = slave.engine
      /\ slave'.rxPending = slave.rxPending /\ slave'.txFlag = slave.txFlag
  BY <1>0, <1>a, ClockLemma
<1>e. /\ slave.engine # "cmd" => slave'.hdr = slave.hdr
      /\ slave.engine = "cmd" => slave'.hdr = IF op = "wh" THEN "good" ELSE "bad"
      /\ slave.engine # "pay" => slave'.pay = slave.pay
      /\ slave.engine = "pay" =>
           slave'.pay = IF op = "wp" /\ slave.pay = 0 THEN log.written + 1 ELSE Bad
      /\ slave.engine # "tx" \/ slave.txs = "none" => slave'.txs = slave.txs
  BY <1>0, <1>a, ClockModes
<1> HIDE DEF op
<1>f. /\ \A f \in {"rxActive", "txActive", "payloadRdy", "rxPending", "stop"} : host'[f] = host[f]
      /\ host'.pc = IF op = "wh" THEN "wait" ELSE "idle"
      /\ \A f \in {"toSlave", "toHost", "given", "met", "stops"} : log'[f] = log[f]
      /\ log'.written = IF op = "wp" THEN log.written + 1 ELSE log.written
      /\ log.written \in 0 .. HostMax
  BY <1>0, <1>a, <1>c DEF HostType, LogType
<1>1. Pins'
  BY <1>0, <1>a, <1>c, <1>f DEF Pins
<1>2. Expecting'
  <2>1. log.written + 1 # 0 /\ Bad # 0
    BY <1>f, SpiLinkAssumption DEF Bad
  <2> QED
    BY <1>0, <1>d, <1>e, <1>f, <2>1 DEF Expecting
<1>3. ASSUME ~log'.met PROVE ~host'.rxPending /\ (Quiet \/ Receiving \/ Sending)'
  <2>1. ~log.met /\ ~host.rxPending /\ (Quiet \/ Receiving \/ Sending)
    BY <1>0, <1>3 DEF Phase, TransferWrite, LogType
  <2>2. CASE Quiet
    <3>1. op = "wh"
      BY <1>a, <1>c, <2>2 DEF Quiet
    <3>2. log'.written = log.written
      BY <1>f, <3>1
    <3> QED
      BY <1>a, <1>c, <1>d, <1>e, <1>f, <2>1, <2>2, <3>1, <3>2 DEF Quiet
  <2>3. CASE Receiving
    <3>0. /\ slave.pay = 0 /\ ~edge /\ ~host.payloadRdy /\ slave'.txs = "none"
          /\ slave'.hdr = "none" /\ Len(log.toSlave) = log.written
          /\ log.written < HostMax
      BY <1>0, <1>a, <1>c, <1>e, <2>3, SpiLinkAssumption DEF Receiving, LogType, BusOwned
    <3>1. CASE op = "wh"
      <4>1. slave'.pay = Bad /\ log'.written = log.written /\ host'.pc = "wait"
        BY <1>e, <1>f, <2>3, <3>1 DEF Receiving
      <4> QED
        BY <1>a, <1>d, <1>f, <2>1, <2>3, <3>0, <4>1 DEF Receiving
    <3>2. CASE op = "wp"
      <4>1. /\ slave'.pay = log.written + 1 /\ log'.written = log.written + 1
            /\ host'.pc = "idle"
        BY <1>e, <1>f, <2>3, <3>0, <3>2 DEF Receiving
      <4>2. slave'.pay \notin {0, Bad}
        BY <1>f, <3>0, <4>1, SpiLinkAssumption DEF Bad
      <4> QED
        BY <1>a, <1>d, <1>f, <2>1, <2>3, <3>0, <4>1, <4>2 DEF Receiving
    <3> QED
      BY <1>a, <3>1, <3>2
  <2>4. CASE Sending
    BY <1>a, <1>c, <2>4 DEF Sending
  <2> QED
    BY <2>1, <2>2, <2>3, <2>4
<1> QED
  BY <1>1, <1>2, <1>3 DEF HInv, Phase

LEMMA TransferHeaderPhase == ASSUME IInv, HInv, TransferHeader PROVE HInv'
<1>0. /\ TypeOK /\ BusOwned /\ host \in HostType /\ slave \in SlaveType /\ log \in LogType
      /\ Pins /\ Expecting /\ Phase
  BY DEF IInv, TypeOK, HInv
<1>a. /\ bus \in Seq(Ops) /\ OneEach(bus) /\ bus # <<>> /\ Head(bus) = "rh" /\ "rh" \in Ops
      /\ slave' = Clock("rh") /\ UNCHANGED <<masterTx, cmdRdy, edge>>
  BY <1>0 DEF TypeOK, BusOwned, TransferHeader, Ops
<1>b. Has(bus, "rh") /\ host.rxActive
  BY <1>0, <1>a, TailOp DEF BusOwned
<1>d. /\ slave'.pc = slave.pc /\ slave'.engine = slave.engine
      /\ slave'.rxPending = slave.rxPending /\ slave'.txFlag = slave.txFlag
  BY <1>0, <1>a, ClockLemma
<1>e. /\ slave.engine # "cmd" => slave'.hdr = slave.hdr
      /\ slave.engine # "pay" => slave'.pay = slave.pay
      /\ slave.engine = "pay" => slave'.pay = Bad
      /\ slave.engine # "tx" \/ slave.txs = "none" => slave'.txs = slave.txs
      /\ slave.engine = "tx" /\ slave.txs = "full" => slave'.txs = "hdr"
  BY <1>0, <1>a, ClockModes
<1>1. Pins'
  BY <1>0 DEF Pins, HostType, LogType, TransferHeader
<1>2. Expecting'
  <2>1. log'.stops = log.stops /\ Bad # 0
    BY <1>0, SpiLinkAssumption DEF Bad, TransferHeader, LogType
  <2> QED
    BY <1>0, <1>d, <1>e, <2>1 DEF Expecting
<1>3. ASSUME ~log'.met PROVE ~host'.rxPending /\ (Quiet \/ Receiving \/ Sending)'
  <2>1. ~log.met /\ ~host.rxPending /\ (Quiet \/ Receiving \/ Sending)
    BY <1>0, <1>3 DEF Phase, TransferHeader, LogType
  <2>2. CASE Quiet
    BY <1>b, <2>2 DEF Quiet
  <2>3. CASE Receiving
    BY <1>b, <2>3 DEF Receiving
  <2>4. CASE Sending
    <3>1. slave.txs = "full"
      <4>1. \A i, j \in 1 .. Len(bus) : ~(bus[i] = "rh" /\ bus[j] = "rp")
        BY <1>a DEF OneEach, Writes
      <4> QED
        BY <1>b, <2>4, <4>1 DEF Sending, Has
    <3>2. slave'.txs = "hdr" /\ slave'.hdr = "none" /\ slave'.pay = 0
      BY <1>e, <2>4, <3>1 DEF Sending
    <3>3. bus' = Append(Tail(bus), "rp") /\ host' = host /\ log' = log
      BY <3>1, <3>2 DEF TransferHeader
    <3>4. Has(bus', "rp")
      <4>1. Tail(bus) \in Seq(Ops) /\ Len(Tail(bus)) \in Nat
        BY <1>a, TailOp
      <4>2. Len(bus') \in 1 .. Len(bus') /\ bus'[Len(bus')] = "rp"
        BY <3>3, <4>1
      <4> QED
        BY <4>2 DEF Has
    <3> QED
      BY <1>a, <1>b, <1>d, <2>1, <2>4, <3>2, <3>3, <3>4 DEF Sending
  <2> QED
    BY <2>1, <2>2, <2>3, <2>4
<1> QED
  BY <1>1, <1>2, <1>3 DEF HInv, Phase

LEMMA TransferPayloadPhase == ASSUME IInv, HInv, TransferPayload PROVE HInv'
<1>0. /\ TypeOK /\ BusOwned /\ host \in HostType /\ slave \in SlaveType /\ log \in LogType
      /\ Pins /\ Expecting /\ Phase
  BY DEF IInv, TypeOK, HInv
<1>a. /\ bus \in Seq(Ops) /\ OneEach(bus) /\ bus # <<>> /\ Head(bus) = "rp" /\ "rp" \in Ops
      /\ slave' = Clock("rp") /\ UNCHANGED <<masterTx, cmdRdy, edge>>
  BY <1>0 DEF TypeOK, BusOwned, TransferPayload, Ops
<1>b. Has(bus, "rp") /\ host.rxActive
  BY <1>0, <1>a, TailOp DEF BusOwned
<1>d. /\ slave'.pc = slave.pc /\ slave'.engine = slave.engine
      /\ slave'.rxPending = slave.rxPending /\ slave'.txFlag = slave.txFlag
  BY <1>0, <1>a, ClockLemma
<1>e. /\ slave.engine # "cmd" => slave'.hdr = slave.hdr
      /\ slave.engine # "pay" => slave'.pay = slave.pay
      /\ slave.engine = "pay" => slave'.pay = Bad
      /\ slave.engine # "tx" \/ slave.txs = "none" => slave'.txs = slave.txs
      /\ slave.engine = "tx" /\ slave.txs = "hdr" => slave'.txs = "read"
  BY <1>0, <1>a, ClockModes
<1>1. Pins'
  BY <1>0 DEF Pins, HostType, LogType, TransferPayload, RxHeader
<1>2. Expecting'
  <2>1. log'.stops = log.stops /\ Bad # 0
    BY <1>0, SpiLinkAssumption DEF Bad, TransferPayload, LogType
  <2> QED
    BY <1>0, <1>d, <1>e, <2>1 DEF Expecting
<1>3. ASSUME ~log'.met PROVE ~host'.rxPending /\ (Quiet \/ Receiving \/ Sending)'
  <2>1. ~log.met /\ ~host.rxPending /\ (Quiet \/ Receiving \/ Sending)
    BY <1>0, <1>3 DEF Phase, TransferPayload, RxHeader, LogType
  <2>2. CASE Quiet
    BY <1>b, <2>2 DEF Quiet
  <2>3. CASE Receiving
    BY <1>b, <2>3 DEF Receiving
  <2>4. CASE Sending
    <3>1. slave.txs = "hdr"
      BY <1>b, <2>4 DEF Sending
    <3>2. slave'.txs = "read" /\ slave'.hdr = "none" /\ slave'.pay = 0 /\ ~edge
      BY <1>e, <2>4, <3>1 DEF Sending
    <3>3. /\ host' = [host EXCEPT !.rxActive = FALSE]
          /\ log' = [log EXCEPT !.toHost = Append(log.toHost, log.accepted)]
      BY <2>1, <3>1, <3>2 DEF TransferPayload
    <3>4. /\ \A f \in {"toSlave", "written", "given", "stops"} : log'[f] = log[f]
          /\ Len(log'.toHost) = Len(log.toHost) + 1 /\ log.given \in Nat
      BY <1>0, <3>3 DEF LogType
    <3>5. /\ host'.pc = host.pc /\ ~host'.rxActive /\ host'.rxPending = host.rxPending
          /\ host'.payloadRdy = host.payloadRdy
      BY <1>0, <3>3 DEF HostType
    <3>6. Len(log'.toHost) = log'.given + 1
      BY <2>4, <3>1, <3>4 DEF Sending
    <3>7. Len(log'.toSlave) = log'.written
      BY <2>4, <3>4 DEF Sending
    <3> QED
      BY <1>a, <1>d, <2>1, <2>4, <3>2, <3>5, <3>6, <3>7 DEF Sending
  <2> QED
    BY <2>1, <2>2, <2>3, <2>4
<1> QED
  BY <1>1, <1>2, <1>3 DEF HInv, Phase

LEMMA RxCommandPhase == ASSUME IInv, HInv, RxCommand PROVE HInv'
<1>0. /\ TypeOK /\ BusOwned /\ host \in HostType /\ slave \in SlaveType /\ log \in LogType
      /\ Pins /\ Expecting /\ Phase
  BY DEF IInv, TypeOK, HInv
<1>1. Pins'
  BY <1>0 DEF Pins, HostType, LogType, RxCommand
<1>2. Expecting'
  BY <1>0 DEF Expecting, Coming, Pins, HostType, SlaveType, LogType, RxCommand
<1>3. ASSUME ~log'.met PROVE ~host'.rxPending /\ (Quiet \/ Receiving \/ Sending)'
  <2>1. ~log.met /\ ~host.rxPending /\ (Quiet \/ Receiving \/ Sending)
    BY <1>0, <1>3 DEF Phase, RxCommand, LogType
  <2>2. CASE Quiet
    <3>1. slave.hdr = "good" /\ slave.pc = "idle" /\ host.pc = "wait"
      BY <2>2 DEF Quiet, RxCommand
    <3>2. /\ slave' = [slave EXCEPT !.hdr = "none", !.pay = 0, !.rxPending = TRUE,
                                    !.engine = "pay", !.txs = "none"]
          /\ cmdRdy' = FALSE /\ edge' = TRUE /\ UNCHANGED <<host, masterTx, bus, log>>
      BY <3>1 DEF RxCommand
    <3>3. Len(log.toSlave) + 0 = Len(log.toSlave)
      BY <1>0 DEF LogType
    <3>4. /\ slave'.hdr = "none" /\ slave'.pay = 0 /\ slave'.rxPending /\ slave'.engine = "pay"
          /\ slave'.txs = "none" /\ slave'.pc = "idle" /\ slave'.txFlag = slave.txFlag
      BY <1>0, <3>1, <3>2 DEF SlaveType
    <3> QED
      BY <2>1, <2>2, <3>1, <3>2, <3>3, <3>4 DEF Quiet, Receiving
  <2>3. CASE Receiving
    BY <1>0, <2>1, <2>3 DEF Receiving, Pins, HostType, SlaveType, LogType, RxCommand
  <2>4. CASE Sending
    BY <1>0, <2>1, <2>4 DEF Sending, Pins, HostType, SlaveType, LogType, RxCommand
  <2> QED
    BY <2>1, <2>2, <2>3, <2>4
<1> QED
  BY <1>1, <1>2, <1>3 DEF HInv, Phase

LEMMA RxFramePhase == ASSUME IInv, HInv, RxFrame PROVE HInv'
<1>0. /\ TypeOK /\ BusOwned /\ host \in HostType /\ slave \in SlaveType /\ log \in LogType
      /\ Pins /\ Expecting /\ Phase
  BY DEF IInv, TypeOK, HInv
<1>1. Pins'
  BY <1>0 DEF Pins, HostType, LogType, RxFrame, Rearmed
<1>2. Expecting'
  BY <1>0 DEF Expecting, Coming, Pins, HostType, SlaveType, LogType, RxFrame, Rearmed
<1>3. ASSUME ~log'.met PROVE ~host'.rxPending /\ (Quiet \/ Receiving \/ Sending)'
  <2>1. ~log.met /\ ~host.rxPending /\ (Quiet \/ Receiving \/ Sending)
    BY <1>0, <1>3 DEF Phase, RxFrame, Rearmed, LogType
  <2>2. CASE Quiet
    BY <1>0, <2>1, <2>2 DEF Quiet, Pins, HostType, SlaveType, LogType, RxFrame, Rearmed
  <2>3. CASE Receiving
    <3>1. /\ slave.pay # 0 /\ UNCHANGED <<host, masterTx, edge, bus>> /\ cmdRdy' = TRUE
          /\ ~edge /\ ~host.payloadRdy /\ host.pc \in {"idle", "wait"}
      BY <2>3 DEF RxFrame, Receiving
    <3>2. /\ slave'.hdr = "none" /\ slave'.pay = 0 /\ ~slave'.rxPending /\ slave'.engine = "cmd"
          /\ slave'.txs = "none" /\ slave'.pc = "idle" /\ slave'.txFlag = slave.txFlag
      BY <1>0, <2>3 DEF SlaveType, RxFrame, Rearmed, Receiving
    <3>3. /\ Len(log'.toSlave) = log'.written /\ log'.toHost = log.toHost
          /\ log'.given = log.given
      <4>1. CASE slave.pay = Bad
        BY <1>0, <2>3, <4>1 DEF RxFrame, Receiving, LogType
      <4>2. CASE slave.pay # Bad
        <5>1. log' = [log EXCEPT !.toSlave = Append(log.toSlave, slave.pay)]
          BY <4>2 DEF RxFrame
        <5>2. Len(log.toSlave) + 1 = log.written
          BY <2>3, <3>1, <4>2 DEF Receiving
        <5>3. Len(Append(log.toSlave, slave.pay)) = Len(log.toSlave) + 1
          BY <1>0 DEF LogType
        <5> QED
          BY <1>0, <5>1, <5>2, <5>3 DEF LogType
      <4> QED
        BY <4>1, <4>2
    <3> QED
      BY <2>1, <2>3, <3>1, <3>2, <3>3 DEF Quiet, Receiving
  <2>4. CASE Sending
    BY <1>0, <2>1, <2>4 DEF Sending, Pins, HostType, SlaveType, LogType, RxFrame, Rearmed
  <2> QED
    BY <2>1, <2>2, <2>3, <2>4
<1> QED
  BY <1>1, <1>2, <1>3 DEF HInv, Phase

LEMMA RxTimeoutPhase == ASSUME IInv, HInv, RxTimeout PROVE HInv'
<1>0. /\ TypeOK /\ BusOwned /\ host \in HostType /\ slave \in SlaveType /\ log \in LogType
      /\ Pins /\ Expecting /\ Phase
  BY DEF IInv, TypeOK, HInv
<1>1. Pins'
  BY <1>0 DEF Pins, HostType, LogType, RxTimeout, Stalled
<1>2. Expecting'
  BY <1>0 DEF Expecting, Coming, Pins, HostType, SlaveType, LogType, RxTimeout, Stalled
<1>3. ASSUME ~log'.met PROVE ~host'.rxPending /\ (Quiet \/ Receiving \/ Sending)'
  <2>1. ~log.met /\ ~host.rxPending /\ (Quiet \/ Receiving \/ Sending)
    BY <1>0, <1>3 DEF Phase, RxTimeout, Stalled, LogType
  <2>2. CASE Quiet
    BY <1>0, <2>1, <2>2 DEF Quiet, Pins, HostType, SlaveType, LogType, RxTimeout, Stalled
  <2>3. CASE Receiving
    BY <1>0, <2>1, <2>3 DEF Receiving, Pins, HostType, SlaveType, LogType, RxTimeout, Stalled
  <2>4. CASE Sending
    BY <1>0, <2>1, <2>4 DEF Sending, Pins, HostType, SlaveType, LogType, RxTimeout, Stalled
  <2> QED
    BY <2>1, <2>2, <2>3, <2>4
<1> QED
  BY <1>1, <1>2, <1>3 DEF HInv, Phase

LEMMA TxCheckPhase == ASSUME IInv, HInv, TxCheck PROVE HInv'
<1>0. /\ TypeOK /\ BusOwned /\ host \in HostType /\ slave \in SlaveType /\ log \in LogType
      /\ Pins /\ Expecting /\ Phase
  BY DEF IInv, TypeOK, HInv
<1>1. Pins'
  BY <1>0 DEF Pins, HostType, LogType, TxCheck, MayTransmit
<1>2. Expecting'
  BY <1>0 DEF Expecting, Coming, Pins, HostType, SlaveType, LogType, TxCheck, MayTransmit
<1>3. ASSUME ~log'.met PROVE ~host'.rxPending /\ (Quiet \/ Receiving \/ Sending)'
  <2>1. ~log.met /\ ~host.rxPending /\ (Quiet \/ Receiving \/ Sending)
    BY <1>0, <1>3 DEF Phase, TxCheck, MayTransmit, LogType
  <2>2. CASE Quiet
    BY <1>0, <2>1, <2>2 DEF Quiet, Pins, HostType, SlaveType, LogType, TxCheck, MayTransmit
  <2>3. CASE Receiving
    BY <1>0, <2>1, <2>3 DEF Receiving, Pins, HostType, SlaveType, LogType, TxCheck, MayTransmit
  <2>4. CASE Sending
    BY <1>0, <2>1, <2>4 DEF Sending, Pins, HostType, SlaveType, LogType, TxCheck, MayTransmit
  <2> QED
    BY <2>1, <2>2, <2>3, <2>4
<1> QED
  BY <1>1, <1>2, <1>3 DEF HInv, Phase

LEMMA TxStartPhase == ASSUME IInv, HInv, TxStart PROVE HInv'
<1>0. /\ TypeOK /\ BusOwned /\ host \in HostType /\ slave \in SlaveType /\ log \in LogType
      /\ Pins /\ Expecting /\ Phase
  BY DEF IInv, TypeOK, HInv
<1>1. Pins'
  BY <1>0 DEF Pins, HostType, LogType, TxStart
<1>2. Expecting'
  BY <1>0 DEF Expecting, Coming, Pins, HostType, SlaveType, LogType, TxStart
<1>3. ASSUME ~log'.met PROVE ~host'.rxPending /\ (Quiet \/ Receiving \/ Sending)'
  <2>1. ~log.met /\ ~host.rxPending /\ (Quiet \/ Receiving \/ Sending)
    BY <1>0, <1>3 DEF Phase, TxStart, LogType
  <2>2. CASE Quiet
    <3>1. ~masterTx
      BY <1>0, <1>3 DEF TxStart, LogType
    <3>2. host.pc \in {"idle", "signal"} /\ slave.hdr = "none"
      BY <1>0, <2>2, <3>1 DEF Pins, Quiet, HostType
    <3> QED
      BY <1>0, <2>1, <2>2, <3>2 DEF Quiet, SlaveType, LogType, TxStart
  <2>3. CASE Receiving
    BY <1>0, <2>1, <2>3 DEF Receiving, Pins, HostType, SlaveType, LogType, TxStart
  <2>4. CASE Sending
    BY <1>0, <2>1, <2>4 DEF Sending, Pins, HostType, SlaveType, LogType, TxStart
  <2> QED
    BY <2>1, <2>2, <2>3, <2>4
<1> QED
  BY <1>1, <1>2, <1>3 DEF HInv, Phase

LEMMA TxLoadedPhase == ASSUME IInv, HInv, TxLoaded PROVE HInv'
<1>0. /\ TypeOK /\ BusOwned /\ host \in HostType /\ slave \in SlaveType /\ log \in LogType
      /\ Pins /\ Expecting /\ Phase
  BY DEF IInv, TypeOK, HInv
<1>1. Pins'
  BY <1>0 DEF Pins, HostType, LogType, TxLoaded
<1>2. Expecting'
  BY <1>0 DEF Expecting, Coming, Pins, HostType, SlaveType, LogType, TxLoaded
<1>3. ASSUME ~log'.met PROVE ~host'.rxPending /\ (Quiet \/ Receiving \/ Sending)'
  <2>1. ~log.met /\ ~host.rxPending /\ (Quiet \/ Receiving \/ Sending)
    BY <1>0, <1>3 DEF Phase, TxLoaded, LogType
  <2>2. CASE Quiet
    <3>1. host.pc \in {"idle", "signal", "check"} /\ slave.hdr = "none" /\ slave.engine = "tx"
      BY <2>2 DEF Quiet, TxLoaded
    <3>2. /\ slave'.hdr = "none" /\ slave'.pay = 0 /\ slave'.rxPending = slave.rxPending
          /\ slave'.engine = "tx" /\ slave'.txs = "full" /\ slave'.pc = "idle" /\ slave'.txFlag
      BY <1>0, <2>2, <3>1 DEF SlaveType, TxLoaded, Quiet
    <3>3. /\ \A f \in {"toSlave", "toHost", "written", "given", "stops"} : log'[f] = log[f]
          /\ log.given + 0 = log.given
      BY <1>0 DEF LogType, TxLoaded
    <3>4. UNCHANGED <<host, masterTx, cmdRdy, bus>> /\ edge'
      BY DEF TxLoaded
    <3>5. ~Has(bus', "rp")
      BY <1>0, <2>2, <3>4 DEF BusOwned, Quiet
    <3> QED
      BY <2>1, <2>2, <3>1, <3>2, <3>3, <3>4, <3>5 DEF Quiet, Sending
  <2>3. CASE Receiving
    BY <1>0, <2>1, <2>3 DEF Receiving, Pins, HostType, SlaveType, LogType, TxLoaded
  <2>4. CASE Sending
    BY <1>0, <2>1, <2>4 DEF Sending, Pins, HostType, SlaveType, LogType, TxLoaded
  <2> QED
    BY <2>1, <2>2, <2>3, <2>4
<1> QED
  BY <1>1, <1>2, <1>3 DEF HInv, Phase

LEMMA TxAbandonedPhase == ASSUME IInv, HInv, TxAbandoned PROVE HInv'
<1>0. /\ TypeOK /\ BusOwned /\ host \in HostType /\ slave \in SlaveType /\ log \in LogType
      /\ Pins /\ Expecting /\ Phase
  BY DEF IInv, TypeOK, HInv
<1>1. Pins'
  BY <1>0 DEF Pins, HostType, LogType, TxAbandoned
<1>2. Expecting'
  BY <1>0 DEF Expecting, Coming, Pins, HostType, SlaveType, LogType, TxAbandoned
<1>3. ASSUME ~log'.met PROVE ~host'.rxPending /\ (Quiet \/ Receiving \/ Sending)'
  <2>1. ~log.met /\ ~host.rxPending /\ (Quiet \/ Receiving \/ Sending)
    BY <1>0, <1>3 DEF Phase, TxAbandoned, LogType
  <2>2. CASE Quiet
    BY <1>0, <2>1, <2>2 DEF Quiet, Pins, HostType, SlaveType, LogType, TxAbandoned
  <2>3. CASE Receiving
    BY <1>0, <2>1, <2>3 DEF Receiving, Pins, HostType, SlaveType, LogType, TxAbandoned
  <2>4. CASE Sending
    BY <1>0, <2>1, <2>4 DEF Sending, Pins, HostType, SlaveType, LogType, TxAbandoned
  <2> QED
    BY <2>1, <2>2, <2>3, <2>4
<1> QED
  BY <1>1, <1>2, <1>3 DEF HInv, Phase

LEMMA TxDrainPhase == ASSUME IInv, HInv, TxDrain PROVE HInv'
<1>0. /\ TypeOK /\ BusOwned /\ host \in HostType /\ slave \in SlaveType /\ log \in LogType
      /\ Pins /\ Expecting /\ Phase
  BY DEF IInv, TypeOK, HInv
<1>1. Pins'
  BY <1>0 DEF Pins, HostType, LogType, TxDrain
<1>2. Expecting'
  BY <1>0 DEF Expecting, Coming, Pins, HostType, SlaveType, LogType, TxDrain
<1>3. ASSUME ~log'.met PROVE ~host'.rxPending /\ (Quiet \/ Receiving \/ Sending)'
  <2>1. ~log.met /\ ~host.rxPending /\ (Quiet \/ Receiving \/ Sending)
    BY <1>0, <1>3 DEF Phase, TxDrain, LogType
  <2>2. CASE Quiet
    BY <1>0, <2>1, <2>2 DEF Quiet, Pins, HostType, SlaveType, LogType, TxDrain
  <2>3. CASE Receiving
    BY <1>0, <2>1, <2>3 DEF Receiving, Pins, HostType, SlaveType, LogType, TxDrain
  <2>4. CASE Sending
    BY <1>0, <2>1, <2>4 DEF Sending, Pins, HostType, SlaveType, LogType, TxDrain
  <2> QED
    BY <2>1, <2>2, <2>3, <2>4
<1> QED
  BY <1>1, <1>2, <1>3 DEF HInv, Phase

LEMMA TxDonePhase == ASSUME IInv, HInv, TxDone PROVE HInv'
<1>0. /\ TypeOK /\ BusOwned /\ host \in HostType /\ slave \in SlaveType /\ log \in LogType
      /\ Pins /\ Expecting /\ Phase
  BY DEF IInv, TypeOK, HInv
<1>1. Pins'
  BY <1>0 DEF Pins, HostType, LogType, TxDone, Rearmed
<1>2. Expecting'
  BY <1>0 DEF Expecting, Coming, Pins, HostType, SlaveType, LogType, TxDone, Rearmed
<1>3. ASSUME ~log'.met PROVE ~host'.rxPending /\ (Quiet \/ Receiving \/ Sending)'
  <2>1. ~log.met /\ ~host.rxPending /\ (Quiet \/ Receiving \/ Sending)
    BY <1>0, <1>3 DEF Phase, TxDone, Rearmed, LogType
  <2>2. CASE Quiet
    BY <1>0, <2>1, <2>2 DEF Quiet, Pins, HostType, SlaveType, LogType, TxDone, Rearmed
  <2>3. CASE Receiving
    BY <1>0, <2>1, <2>3 DEF Receiving, Pins, HostType, SlaveType, LogType, TxDone, Rearmed
  <2>4. CASE Sending
    <3>1. slave.txs = "read" /\ ~edge /\ ~host.rxActive
      BY <2>4 DEF Sending, TxDone
    <3>2. /\ slave'.hdr = "none" /\ slave'.pay = 0 /\ slave'.rxPending = slave.rxPending
          /\ slave'.engine = "cmd" /\ slave'.txs = "none" /\ slave'.pc = "idle" /\ ~slave'.txFlag
      BY <1>0, <2>4 DEF SlaveType, TxDone, Rearmed, Sending
    <3>3. /\ \A f \in {"toSlave", "toHost", "written"} : log'[f] = log[f]
          /\ log'.given = log.given + 1
      BY <1>0 DEF LogType, TxDone
    <3>4. UNCHANGED <<host, masterTx, edge, bus>> /\ cmdRdy'
      BY DEF TxDone
    <3> QED
      BY <2>1, <2>4, <3>1, <3>2, <3>3, <3>4 DEF Quiet, Sending
  <2> QED
    BY <2>1, <2>2, <2>3, <2>4
<1> QED
  BY <1>1, <1>2, <1>3 DEF HInv, Phase

LEMMA TxTimeoutPhase == ASSUME IInv, HInv, TxTimeout PROVE HInv'
<1>0. /\ TypeOK /\ BusOwned /\ host \in HostType /\ slave \in SlaveType /\ log \in LogType
      /\ Pins /\ Expecting /\ Phase
  BY DEF IInv, TypeOK, HInv
<1>1. Pins'
  BY <1>0 DEF Pins, HostType, LogType, TxTimeout, Stalled, Rearmed
<1>2. Expecting'
  BY <1>0 DEF Expecting, Coming, Pins, HostType, SlaveType, LogType, TxTimeout, Stalled, Rearmed
<1>3. ASSUME ~log'.met PROVE ~host'.rxPending /\ (Quiet \/ Receiving \/ Sending)'
  <2>1. ~log.met /\ ~host.rxPending /\ (Quiet \/ Receiving \/ Sending)
    BY <1>0, <1>3 DEF Phase, TxTimeout, Stalled, Rearmed, LogType
  <2>2. CASE Quiet
    BY <1>0, <2>1, <2>2 DEF Quiet, Pins, HostType, SlaveType, LogType, TxTimeout, Stalled, Rearmed
  <2>3. CASE Receiving
    BY <1>0, <2>1, <2>3 DEF Receiving, Pins, HostType, SlaveType, LogType, TxTimeout, Stalled, Rearmed
  <2>4. CASE Sending
    <3>1. ~edge /\ bus = <<>> /\ slave.txs \in {"full", "hdr"} /\ slave.pc = "idle"
      BY <2>4 DEF Sending, TxTimeout, Stalled
    <3>2. ~host.rxActive
      BY <1>0, <3>1, EmptyHasNone DEF BusOwned
    <3>3. /\ slave'.hdr = "none" /\ slave'.pay = 0 /\ slave'.rxPending = slave.rxPending
          /\ slave'.engine = "cmd" /\ slave'.txs = "none" /\ slave'.pc = "idle" /\ ~slave'.txFlag
      BY <1>0, <2>4, <3>1 DEF SlaveType, TxTimeout, Rearmed, Sending
    <3>4. UNCHANGED <<host, masterTx, edge, bus, log>> /\ cmdRdy'
      BY DEF TxTimeout
    <3>5. log.given + 0 = log.given
      BY <1>0 DEF LogType
    <3> QED
      BY <2>1, <2>4, <3>1, <3>2, <3>3, <3>4, <3>5 DEF Quiet, Sending
  <2> QED
    BY <2>1, <2>2, <2>3, <2>4
<1> QED
  BY <1>1, <1>2, <1>3 DEF HInv, Phase

LEMMA HNext == ASSUME IInv, HInv, [Next]_vars PROVE HInv'
<1>1. CASE UNCHANGED vars
  <2>1. /\ host' = host /\ slave' = slave /\ masterTx' = masterTx /\ cmdRdy' = cmdRdy
        /\ edge' = edge /\ bus' = bus /\ log' = log
    BY <1>1 DEF vars
  <2>2. Pins' /\ Expecting'
    BY <2>1 DEF HInv, Pins, Expecting, Coming
  <2>3. (Quiet' <=> Quiet) /\ (Receiving' <=> Receiving) /\ (Sending' <=> Sending)
    BY <2>1 DEF Quiet, Receiving, Sending
  <2> QED
    BY <2>1, <2>2, <2>3 DEF HInv, Phase
<1>2. CASE HostStep
  BY <1>2, WriteBeginPhase, WriteSignalPhase, WriteCheckPhase, WriteHeaderPhase, WritePayloadPhase,
     WriteTimeoutPhase, InterruptPhase, TransferWritePhase, TransferHeaderPhase,
     TransferPayloadPhase DEF HostStep
<1>3. CASE SlaveStep
  BY <1>3, RxCommandPhase, RxFramePhase, TxStartPhase, TxLoadedPhase, TxDonePhase DEF SlaveStep
<1>4. CASE TxTimeout \/ RxTimeout \/ TxCheck \/ TxAbandoned \/ TxDrain \/ Ioctl
  BY <1>4, TxTimeoutPhase, RxTimeoutPhase, TxCheckPhase, TxAbandonedPhase, TxDrainPhase,
     IoctlPhase
<1> QED
  BY <1>1, <1>2, <1>3, <1>4 DEF Next

\* The phases of the handshake hold on every link as long as the two sides
\* did not meet; what spi_payload_rx_pending means holds as long as the host
\* was not disconnected.
THEOREM HandshakeTheorem == Spec => [](IInv /\ HInv)
<1>1. Init => IInv /\ HInv
  BY InitLemma, HInit
<1>2. IInv /\ HInv /\ [Next]_vars => (IInv /\ HInv)'
  BY NextLemma, HNext
<1> QED
  BY <1>1, <1>2, PTL DEF Spec

\* Without a meeting no frame that kernel_write reported as sent, and none
\* the slave's transmitter was emptied of, is lost: whatever is retried,
\* timed out, abandoned or disconnected.
THEOREM LossTheorem == Spec => []NothingLostUnlessMet
<1>1. ASSUME HInv, AtRest, ~log.met
      PROVE  Len(log.toSlave) = log.written /\ Len(log.toHost) = log.given
  <2>1. Quiet
    BY <1>1 DEF HInv, Phase, AtRest, Receiving, Sending
  <2> QED
    BY <2>1 DEF Quiet
<1>2. IInv /\ HInv => NothingLostUnlessMet
  BY <1>1 DEF NothingLostUnlessMet
<1> QED
  BY <1>2, HandshakeTheorem, PTL

\* A slave left mute has met the host and the host was disconnected: neither
\* alone leaves spi_payload_rx_pending set.
THEOREM MuteTheorem == Spec => []MuteOnlyAfterMeeting
<1>1. ASSUME IInv, HInv, AtRest, slave.rxPending
      PROVE  log.met /\ log.stops > 0
  <2>1. log.stops # 0
    BY <1>1 DEF HInv, Expecting, AtRest
  <2>2. log.met
    BY <1>1 DEF HInv, Phase, AtRest, Quiet, Receiving, Sending
  <2>3. log.stops \in Nat
    BY <1>1 DEF IInv, TypeOK, LogType
  <2> QED
    BY <2>1, <2>2, <2>3
<1>2. IInv /\ HInv => MuteOnlyAfterMeeting
  BY <1>1 DEF MuteOnlyAfterMeeting
<1> QED
  BY <1>2, HandshakeTheorem, PTL

\* The wait of the command handlers without a timeout ends, unless the host
\* was disconnected or the two met.
THEOREM DrainTheorem == Spec => []DrainNeedsHost
<1>1. ASSUME IInv, HInv, Wedged, log.stops = 0, ~log.met
      PROVE  FALSE
  <2>1. /\ ~edge /\ bus = <<>> /\ slave.pc = "drain"
        /\ slave.txs \notin {"read", "spoiled"}
    BY <1>1 DEF Wedged, Stalled
  <2>2. Sending
    BY <1>1, <2>1 DEF HInv, Phase, Quiet, Receiving
  <2>3. ~Has(bus, "rh") /\ ~Has(bus, "rp")
    BY <2>1, EmptyHasNone
  <2>4. ~host.rxActive
    BY <1>1, <2>3 DEF IInv, BusOwned
  <2> QED
    BY <1>1, <2>1, <2>2, <2>3, <2>4 DEF Sending
<1>2. ASSUME IInv, HInv PROVE DrainNeedsHost
  <2>1. log.stops \in Nat
    BY <1>2 DEF IInv, TypeOK, LogType
  <2> QED
    BY <1>1, <1>2, <2>1 DEF DrainNeedsHost
<1>3. IInv /\ HInv => DrainNeedsHost
  BY <1>2
<1> QED
  BY <1>3, HandshakeTheorem, PTL
=============================================================================
