------------------------------ MODULE SpiLink -------------------------------
(***************************************************************************)
(* The three-wire handshake between the host's SPI driver                  *)
(* (gv701x_spi_intf.c) and the SPI slave of the firmware (hal_spi.c).      *)
(*                                                                         *)
(* The host clocks every transfer.  MASTER_TX (masterTx) says that it is   *)
(* about to write; RX_CMDLEN_RDY (cmdRdy) that the slave would take a      *)
(* header; an edge on RX_PAYLOAD_RDY means "the slave has a frame for you" *)
(* while tx_active is 10, and "send the payload" while it is 11.  A frame  *)
(* is a header and a payload, each one transfer.  The slave raises cmdRdy  *)
(* again before it handles the frame, so an answer and the host's next     *)
(* frame may meet.                                                         *)
(*                                                                         *)
(* What the slave's shift register does with a transfer meant for another  *)
(* mode is not in the source; Clock states what the drivers rely on: such  *)
(* a transfer is recognised by its command word or its CRC.                *)
(*                                                                         *)
(* After a frame hal_spi.c raises RX_CMDLEN_RDY only if HOST_DATA_QUEUE is *)
(* empty.  The production build never fills it: its opMode is LOWER_MAC    *)
(* (hal_common.c, HPGP_HAL_TEST), so the frame task frees what the power   *)
(* line delivers (FrameTask.c), and the test is left out.                  *)
(***************************************************************************)
EXTENDS Naturals, Sequences

CONSTANTS HostMax,    \* bound: frames the host writes
          SlaveMax,   \* bound: frames the slave sends
          TriesMax,   \* headers sent again after a timeout (10 in the code)
          StopsMax,   \* bound: SPI_DISCONNECTs
          FailsMax    \* bound: transmissions without a cell buffer

ASSUME SpiLinkAssumption ==
  /\ HostMax \in Nat /\ SlaveMax \in Nat /\ TriesMax \in Nat
  /\ StopsMax \in Nat /\ FailsMax \in Nat

VARIABLES host,       \* the driver, see Init
          slave,      \* the firmware
          masterTx,   \* pin, driven by the host
          cmdRdy,     \* pin, driven by the slave
          edge,       \* an interrupt of the host that is not yet served
          bus,        \* transfers queued in the host's SPI controller
          log         \* history: frames sent and delivered, collisions

vars == <<host, slave, masterTx, cmdRdy, edge, bus, log>>

\* Transfers: write header, write payload, read header, read payload.
Ops == {"wh", "wp", "rh", "rp"}

HostType ==
  [pc : {"idle", "signal", "check", "build", "header", "wait", "payload"},
   txActive : {10, 11}, rxActive : BOOLEAN, rxPending : BOOLEAN,
   payloadRdy : BOOLEAN, tries : 0 .. TriesMax, stop : BOOLEAN]

\* slave.pay: 0 for no payload, the number of the frame, or Bad.
Bad == HostMax + 1

SlaveType ==
  [pc : {"idle", "txReady", "txLoad", "drain"}, engine : {"cmd", "pay", "tx"},
   hdr : {"none", "good", "bad"}, pay : 0 .. Bad,
   rxPending : BOOLEAN, txFlag : BOOLEAN,
   txs : {"none", "full", "hdr", "read", "spoiled"}]

LogType ==
  [written : 0 .. HostMax, toSlave : Seq(1 .. HostMax + 1),
   accepted : 0 .. SlaveMax, toHost : Seq(1 .. SlaveMax),
   given : 0 .. SlaveMax, met : BOOLEAN, stops : 0 .. StopsMax, fails : 0 .. FailsMax]

\* gv701x_spi_intf_kernel_init and hal_spi_init.
Init ==
  /\ host = [pc |-> "idle", txActive |-> 10, rxActive |-> FALSE, rxPending |-> FALSE,
             payloadRdy |-> FALSE, tries |-> 0, stop |-> FALSE]
  /\ slave = [pc |-> "idle", engine |-> "cmd", hdr |-> "none", pay |-> 0,
              rxPending |-> FALSE, txFlag |-> FALSE, txs |-> "none"]
  /\ masterTx = FALSE /\ cmdRdy = TRUE /\ edge = FALSE /\ bus = <<>>
  /\ log = [written |-> 0, toSlave |-> <<>>, accepted |-> 0, toHost |-> <<>>,
            given |-> 0, met |-> FALSE, stops |-> 0, fails |-> 0]

-----------------------------------------------------------------------------
(***************************************************************************)
(* gv701x_spi_intf_kernel_write.  It fails, and the queue above calls it   *)
(* again with the same frame, at every return to "idle" but the last.      *)
(***************************************************************************)
\* No reception is active and cmdRdy was seen in time.
WriteBegin ==
  /\ host.pc = "idle" /\ log.written < HostMax
  /\ ~host.rxActive /\ ~masterTx /\ cmdRdy
  /\ host' = [host EXCEPT !.pc = "signal", !.tries = 0]
  /\ UNCHANGED <<slave, masterTx, cmdRdy, edge, bus, log>>

WriteSignal ==
  /\ host.pc = "signal"
  /\ masterTx' = ~host.rxActive
  /\ host' = [host EXCEPT !.pc = IF host.rxActive THEN "idle" ELSE "check"]
  /\ UNCHANGED <<slave, cmdRdy, edge, bus, log>>

(* Mutant: cmdRdy is not read again once masterTx is high. *)
WriteCheck_Mutation ==
  /\ host.pc = "check"
  /\ host' = [host EXCEPT !.pc = "build"]
  /\ UNCHANGED <<slave, masterTx, cmdRdy, edge, bus, log>>

WriteCheck ==
  /\ host.pc = "check"
  /\ masterTx' = cmdRdy
  /\ host' = [host EXCEPT !.pc = IF cmdRdy THEN "build" ELSE "idle"]
  /\ UNCHANGED <<slave, cmdRdy, edge, bus, log>>

\* Frame, CRC and header are built with tx_active still at 10: an interrupt
\* served meanwhile is taken for a frame of the slave's.
WriteHeader ==
  /\ host.pc = "build"
  /\ host' = [host EXCEPT !.pc = "header", !.txActive = 11]
  /\ bus' = Append(bus, "wh")
  /\ UNCHANGED <<slave, masterTx, cmdRdy, edge, log>>

\* The slave is ready for the payload.
WritePayload ==
  /\ host.pc = "wait" /\ host.payloadRdy
  /\ host' = [host EXCEPT !.pc = "payload", !.payloadRdy = FALSE, !.txActive = 10]
  /\ masterTx' = FALSE
  /\ bus' = Append(bus, "wp")
  /\ UNCHANGED <<slave, cmdRdy, edge, log>>

\* Neither side has a step to do that takes no timeout: the timeouts, one and
\* three seconds, are longer than any interrupt latency or transfer.
Stalled ==
  /\ ~edge /\ bus = <<>>
  /\ host.pc \in {"idle", "wait"} /\ ~(host.pc = "wait" /\ host.payloadRdy)
  /\ \/ slave.pc = "idle" /\ slave.hdr = "none" /\ slave.pay = 0
     \/ slave.pc = "drain" /\ slave.txs \notin {"read", "spoiled"}

\* Three seconds without an answer: the header again, or failure.
WriteTimeout ==
  /\ host.pc = "wait" /\ Stalled
  /\ IF host.tries < TriesMax
     THEN /\ host' = [host EXCEPT !.pc = "header", !.tries = @ + 1]
          /\ bus' = Append(bus, "wh")
          /\ UNCHANGED masterTx
     ELSE /\ host' = [host EXCEPT !.pc = "idle", !.txActive = 10]
          /\ masterTx' = FALSE
          /\ UNCHANGED bus
  /\ UNCHANGED <<slave, cmdRdy, edge, log>>

-----------------------------------------------------------------------------
(***************************************************************************)
(* Reception by the host: interrupt handler and completion callbacks.      *)
(***************************************************************************)
\* gv701x_spi_intf_rx_header, as a change of host and bus.
RxHeader(h, q) ==
  /\ host' = [h EXCEPT !.rxActive = TRUE]
  /\ bus' = Append(q, "rh")

(* Mutant: the pin is tested, not tx_active, which follows it later. *)
Interrupt_Mutation ==
  /\ edge /\ edge' = FALSE
  /\ CASE host.stop -> UNCHANGED <<host, bus>>
       [] ~host.stop /\ masterTx ->
            host' = [host EXCEPT !.payloadRdy = TRUE] /\ UNCHANGED bus
       [] ~host.stop /\ ~masterTx /\ host.rxActive ->
            host' = [host EXCEPT !.rxPending = TRUE] /\ UNCHANGED bus
       [] OTHER -> RxHeader(host, bus)
  /\ UNCHANGED <<slave, masterTx, cmdRdy, log>>

\* gv701x_spi_intf_interrupt_handler.
Interrupt ==
  /\ edge /\ edge' = FALSE
  /\ CASE host.stop -> UNCHANGED <<host, bus>>
       [] ~host.stop /\ host.txActive = 11 ->
            host' = [host EXCEPT !.payloadRdy = TRUE] /\ UNCHANGED bus
       [] ~host.stop /\ host.txActive = 10 /\ host.rxActive ->
            host' = [host EXCEPT !.rxPending = TRUE] /\ UNCHANGED bus
       [] OTHER -> RxHeader(host, bus)
  /\ UNCHANGED <<slave, masterTx, cmdRdy, log>>

\* gvspi_ioctl.
Ioctl ==
  /\ host.stop \/ log.stops < StopsMax
  /\ host' = [host EXCEPT !.stop = ~@]
  /\ log' = [log EXCEPT !.stops = IF host.stop THEN @ ELSE @ + 1]
  /\ UNCHANGED <<slave, masterTx, cmdRdy, edge, bus>>

-----------------------------------------------------------------------------
(***************************************************************************)
(* A transfer.  What reaches the slave depends on the mode of its engine.  *)
(***************************************************************************)
Clock(op) ==
  [slave EXCEPT
     !.hdr = IF slave.engine # "cmd" THEN @ ELSE IF op = "wh" THEN "good" ELSE "bad",
     !.pay = IF slave.engine # "pay" THEN @
             ELSE IF op = "wp" /\ @ = 0 THEN log.written + 1 ELSE Bad,
     !.txs = CASE slave.engine # "tx" \/ @ = "none" -> @
               [] slave.engine = "tx" /\ op = "rh" /\ @ = "full" -> "hdr"
               [] slave.engine = "tx" /\ op = "rp" /\ @ = "hdr" -> "read"
               [] OTHER -> "spoiled"]

TransferWrite ==
  /\ bus # <<>> /\ Head(bus) \in {"wh", "wp"}
  /\ bus' = Tail(bus)
  /\ slave' = Clock(Head(bus))
  /\ host' = [host EXCEPT !.pc = IF @ = "header" THEN "wait" ELSE "idle"]
  /\ log' = [log EXCEPT !.written = IF Head(bus) = "wp" THEN @ + 1 ELSE @]
  /\ UNCHANGED <<masterTx, cmdRdy, edge>>

\* gv701x_spi_intf_rx_payload: the header has arrived.
TransferHeader ==
  /\ bus # <<>> /\ Head(bus) = "rh"
  /\ slave' = Clock("rh")
  /\ IF slave'.txs = "hdr" /\ slave.txs = "full"
     THEN bus' = Append(Tail(bus), "rp") /\ UNCHANGED host
     ELSE bus' = Tail(bus) /\ host' = [host EXCEPT !.rxActive = FALSE]
  /\ UNCHANGED <<masterTx, cmdRdy, edge, log>>

\* gv701x_spi_intf_rx_payload_complete: CRC, delivery, the pending request.
TransferPayload ==
  /\ bus # <<>> /\ Head(bus) = "rp"
  /\ slave' = Clock("rp")
  /\ log' = IF slave'.txs = "read" /\ slave.txs = "hdr"
            THEN [log EXCEPT !.toHost = Append(@, log.accepted)] ELSE log
  /\ IF host.rxPending
     THEN RxHeader([host EXCEPT !.rxPending = FALSE], Tail(bus))
     ELSE host' = [host EXCEPT !.rxActive = FALSE] /\ bus' = Tail(bus)
  /\ UNCHANGED <<masterTx, cmdRdy, edge>>

-----------------------------------------------------------------------------
(***************************************************************************)
(* The firmware: one loop, so its handlers do not interrupt each other.    *)
(***************************************************************************)
\* hal_spi_prepare_rx_cmd_engine.
Rearmed(s) == [s EXCEPT !.engine = "cmd"]

\* hal_spi_rx_done_handler, SPI_CMD_LEN_EXPECT.
RxCommand ==
  /\ slave.pc = "idle" /\ slave.hdr # "none"
  /\ IF slave.hdr = "good"
     THEN /\ slave' = [slave EXCEPT !.hdr = "none", !.pay = 0, !.rxPending = TRUE,
                                    !.engine = "pay", !.txs = "none"]
          /\ cmdRdy' = FALSE /\ edge' = TRUE
     ELSE /\ slave' = [slave EXCEPT !.hdr = "none", !.rxPending = FALSE]
          /\ cmdRdy' = TRUE /\ UNCHANGED edge
  /\ UNCHANGED <<host, masterTx, bus, log>>

(* Mutant: the received frame is handled, not taken. *)
RxFrame_Mutation ==
  /\ slave.pc = "idle" /\ slave.pay # 0
  /\ slave' = Rearmed([slave EXCEPT !.rxPending = FALSE])
  /\ cmdRdy' = TRUE
  /\ Len(log.toSlave) < HostMax
  /\ log' = IF slave.pay # Bad THEN [log EXCEPT !.toSlave = Append(@, slave.pay)] ELSE log
  /\ UNCHANGED <<host, masterTx, edge, bus>>

(* Mutant: spi_payload_rx_pending stays set. *)
RxFrame_Pending_Mutation ==
  /\ slave.pc = "idle" /\ slave.pay # 0
  /\ slave' = Rearmed([slave EXCEPT !.pay = 0])
  /\ cmdRdy' = TRUE
  /\ log' = IF slave.pay # Bad THEN [log EXCEPT !.toSlave = Append(@, slave.pay)] ELSE log
  /\ UNCHANGED <<host, masterTx, edge, bus>>

\* hal_spi_frame_rx, or the error branch of hal_spi_rx_done_handler.
RxFrame ==
  /\ slave.pc = "idle" /\ slave.pay # 0
  /\ slave' = Rearmed([slave EXCEPT !.pay = 0, !.rxPending = FALSE])
  /\ cmdRdy' = TRUE
  /\ log' = IF slave.pay # Bad THEN [log EXCEPT !.toSlave = Append(@, slave.pay)] ELSE log
  /\ UNCHANGED <<host, masterTx, edge, bus>>

\* SPI_STATUS_RX_TIME_OUT: the payload does not come.
RxTimeout ==
  /\ slave.pc = "idle" /\ slave.engine = "pay" /\ Stalled
  /\ slave' = [slave EXCEPT !.pay = Bad]
  /\ UNCHANGED <<host, masterTx, cmdRdy, edge, bus, log>>

\* The tests of hal_spi_tx_dma.
MayTransmit == ~masterTx /\ ~slave.txFlag /\ ~slave.rxPending

TxCheck ==
  /\ slave.pc = "idle" /\ log.accepted < SlaveMax
  /\ MayTransmit
  /\ slave' = [slave EXCEPT !.pc = "txReady"]
  /\ UNCHANGED <<host, masterTx, cmdRdy, edge, bus, log>>

\* The rest of hal_spi_tx_dma: RX_CMDLEN_RDY falls and the slave goes to
\* transmit mode; met records that MASTER_TX was high by then.
TxStart ==
  /\ slave.pc = "txReady"
  /\ slave' = [slave EXCEPT !.pc = "txLoad", !.engine = "tx"]
  /\ cmdRdy' = FALSE
  /\ log' = [log EXCEPT !.met = @ \/ masterTx]
  /\ UNCHANGED <<host, masterTx, edge, bus>>

\* The frame is in the cell buffers: spi_tx_flag and the host's interrupt.
TxLoaded ==
  /\ slave.pc = "txLoad"
  /\ slave' = [slave EXCEPT !.pc = "idle", !.txs = "full", !.txFlag = TRUE]
  /\ edge' = TRUE
  /\ log' = [log EXCEPT !.accepted = @ + 1]
  /\ UNCHANGED <<host, masterTx, cmdRdy, bus>>

\* CHAL_RequestCP has no cell buffer: hal_spi_tx_dma returns with the slave in
\* transmit mode and cmdRdy low; without spi_tx_flag no timeout follows.
TxAbandoned ==
  /\ slave.pc = "txLoad" /\ log.fails < FailsMax
  /\ slave' = [slave EXCEPT !.pc = "idle"]
  /\ log' = [log EXCEPT !.fails = @ + 1]
  /\ UNCHANGED <<host, masterTx, cmdRdy, edge, bus>>

\* The command handler waits for its frame to be fetched: while (spi_tx_flag)
\* checkSPITxDone().  Neither the timeout nor a reception is served meanwhile.
TxDrain ==
  /\ slave.pc = "idle" /\ slave.txFlag
  /\ slave' = [slave EXCEPT !.pc = "drain"]
  /\ UNCHANGED <<host, masterTx, cmdRdy, edge, bus, log>>

\* hal_spi_tx_done_handler.
TxDone ==
  /\ slave.pc \in {"idle", "drain"} /\ slave.txs \in {"read", "spoiled"}
  /\ slave' = Rearmed([slave EXCEPT !.pc = "idle", !.txFlag = FALSE, !.txs = "none"])
  /\ cmdRdy' = TRUE
  /\ log' = [log EXCEPT !.given = @ + 1]
  /\ UNCHANGED <<host, masterTx, edge, bus>>

(* Mutant: RX_CMDLEN_RDY is not raised again. *)
TxTimeout_Mutation ==
  /\ slave.pc = "idle" /\ slave.txFlag /\ slave.txs \notin {"read", "spoiled"} /\ Stalled
  /\ slave' = Rearmed([slave EXCEPT !.txFlag = FALSE, !.txs = "none"])
  /\ UNCHANGED <<host, masterTx, cmdRdy, edge, bus, log>>

\* MAX_SPI_TX_TIMEOUT in the main loop: the frame is given up.
TxTimeout ==
  /\ slave.pc = "idle" /\ slave.txFlag /\ slave.txs \notin {"read", "spoiled"} /\ Stalled
  /\ slave' = Rearmed([slave EXCEPT !.txFlag = FALSE, !.txs = "none"])
  /\ cmdRdy' = TRUE
  /\ UNCHANGED <<host, masterTx, edge, bus, log>>

-----------------------------------------------------------------------------
HostStep ==
  \/ WriteBegin \/ WriteSignal \/ WriteCheck \/ WriteHeader \/ WritePayload \/ WriteTimeout
  \/ Interrupt \/ TransferWrite \/ TransferHeader \/ TransferPayload

SlaveStep == RxCommand \/ RxFrame \/ TxStart \/ TxLoaded \/ TxDone

Next == HostStep \/ SlaveStep \/ TxTimeout \/ RxTimeout \/ TxCheck \/ TxAbandoned
        \/ TxDrain \/ Ioctl

Spec == Init /\ [][Next]_vars

(***************************************************************************)
(* Driver and firmware loop keep running and timeouts expire; the firmware *)
(* need not send and the user need not disconnect.                         *)
(***************************************************************************)
FairSpec ==
  Spec /\ WF_vars(HostStep) /\ WF_vars(SlaveStep) /\ WF_vars(TxTimeout) /\ WF_vars(RxTimeout)

-----------------------------------------------------------------------------
(***************************************************************************)
(* Properties.                                                             *)
(***************************************************************************)
TypeOK ==
  /\ host \in HostType /\ slave \in SlaveType
  /\ masterTx \in BOOLEAN /\ cmdRdy \in BOOLEAN /\ edge \in BOOLEAN
  /\ bus \in Seq(Ops) /\ log \in LogType

\* No transfer or handler is under way.
AtRest ==
  /\ host.pc = "idle" /\ bus = <<>> /\ ~edge
  /\ slave.pc = "idle" /\ slave.engine = "cmd" /\ slave.hdr = "none" /\ slave.pay = 0

\* The interrupt line has two meanings, and both sides agree on them as long
\* as hal_spi_tx_dma never commits while the host raises MASTER_TX: then
\* what kernel_write reports as sent reached the firmware, and what the
\* slave's transmitter was emptied of reached the driver.
NothingLostUnlessMet ==
  AtRest /\ ~log.met =>
    Len(log.toSlave) = log.written /\ Len(log.toHost) = log.given

Increasing(s) == \A i, j \in 1 .. Len(s) : i < j => s[i] < s[j]

\* Retries of kernel_write and of its header, late edges and pending
\* receptions never deliver a frame twice or out of order, in either
\* direction, collisions included.
DeliveredOnceInOrder ==
  TypeOK /\ Increasing(log.toSlave) /\ Increasing(log.toHost)

\* spi_payload_rx_pending makes hal_spi_tx_dma refuse every frame.  It is
\* left set on an idle link only when a collision and a disconnection
\* coincide.
MuteOnlyAfterMeeting ==
  AtRest /\ slave.rxPending => log.met /\ log.stops > 0

\* The firmware waits for ever: its transmission is not done and neither the
\* host nor an interrupt has anything on its way.
Wedged == slave.pc = "drain" /\ Stalled /\ host.pc = "idle"

\* An abandoned transmission has left the slave deaf.
Deaf == slave.engine = "tx" /\ ~slave.txFlag

\* Whatever happened on the link, a host that stays connected gets all its
\* frames out, unless the firmware waits in while (spi_tx_flag) for ever or
\* a transmission abandoned for want of a cell buffer was the last.
HostGetsThrough ==
  <>[](~host.stop) => <>(log.written = HostMax) \/ <>[](slave.pc = "drain") \/ <>[]Deaf

\* That loop has no timeout; it is left unless the host was disconnected or
\* the two met: a host that keeps reading is enough.
DrainNeedsHost == Wedged => log.stops > 0 \/ log.met
=============================================================================
