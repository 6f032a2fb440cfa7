# Verification of the Greenvity production tester

The tester checks PLC/RF boards at the end of the production line and writes
a MAC address and a serial number into the boards that pass. This directory
holds TLA+ models of its control logic, from the check boxes of the tool down
to the SPI handshake, TLC configurations that check them on small instances,
and TLAPS proofs about the calibration of a board, its timers, the host
driver's queues, the SPI handshake, the threads of relay and tool, the test
selection of the composed tester, and the sequencing of its undisturbed runs.

## The system

    tool (VB.NET, TCP server)  <->  gvhost relay  <->  GHDD  <-SPI->  firmware of the DUT
                               <->  gvhost relay  <->  GHDD  <-SPI->  firmware of the REF

GHDD is the Linux driver pair of the relay's host: `gvspi_net` queues frames
of the network stack, `gvspi_intf` moves them over the three-wire handshake.

A *test* sends frames from one board to the other: a TX test sends from the
device under test (DUT) to the reference board (REF), an RX test the other
way; each over PLC or over RF; a *sweep* repeats it for a list of frame
lengths (PLC) or channels (RF). For every test the tool sends PREPARE to the
receiver, PREPARE to the transmitter, START to the receiver, START to the
transmitter, waits for TEST_DONE, sends STOP and GET_RESULT to the receiver,
records the verdict, and goes on with the next test of its queue. When the
queue is empty and everything passed, it sends FLASH_PARAM.

| Component | State | Operations | Module |
|---|---|---|---|
| Calibration and production profile (`hal_main.C`, `gv701x_cfg.c`, `hal_prod_tst.c`, `hal_rf_prod_test.c`) | `gProdFlashProfile`, PROD_CONFIG_SECTOR, `prod_dco_cal_failed` | boot, calibrate, write sector, RF PREPARE with chip reset, DEV_SEARCH, power cut | `RfProfile`, `RfBoot`, `RfBootProofs` |
| Software timers (`stm.c`, `interrupt.c`) | `Stm.timerCb`, `timerQueue`, `timeTick`, `timeSector` | alloc, free, start, stop, tick, `STM_Proc` | `Stm`, `StmProofs` |
| Test commands and transmission (`hal_prod_tst.c`, `hal_rf_prod_test.c`, `hal_spi.c`) | `prepProdCmd`, statistics, running transmission, `spi_tx_flag` | the commands of `prodTestExecCmd`, frames sent and heard, TEST_DONE | `ProdFw` |
| Test selection (`HomeScreen.vb`) | `qExecStatus`, eight check boxes | check, uncheck, enableTests2, selection by serial number | `TestQueue`, `ProdProofs` |
| Sequencer (`HomeScreen.vb`, `ConnectedClient.vb`) | `status`, parameter lists, results, buttons | buttons, `messageReceived`, `executeTests`, flash | `HomeScreen` |
| The whole tester | TCP streams, SPI slaves | forward request, drop it, forward response | `ProdSystem`, `ProdMC`, `ProdProofs`, `NominalProofs`; abstract: `ProductionRun` |
| Relay (`src/gvhost`) | `eth_sockfd`, the mutex, two thread flags | recv, reconnect, send, close, SIGTERM | `Relay`, `RelayProofs` |
| Client connections of the tool (`ConnectedClient.vb`, `HomeScreen.vb`) | `clients`, one `lockObj` per client, `objForUI` | accept, read, send, `Me.Invoke`, scan | `Clients`, `ClientsProofs` |
| Driver queues (`gv701x_spi_net.c`) | command and data list, their counts, the work item | `gvspi_start_xmit`, `gvspi_tx_hdlr`, `gvspi_ioctl` | `NetQueue`, `NetQueueMC`, `NetQueueProofs`; abstract: `Fifo` |
| SPI handshake (`gv701x_spi_intf.c`, `hal_spi.c`) | `tx_active`, `rx_active`, MASTER_TX, RX_CMDLEN_RDY, `spi_tx_flag`, `spi_payload_rx_pending` | write, interrupt, transfer completions, slave receive and transmit, four timeouts | `SpiLink`, `SpiLinkProofs` |

What is hard here: a PREPARE is answered by the boot *after* the chip reset
it causes; the flash sector is erased before it is programmed; an 8-bit
counter starts at 255 and is incremented in two places; the SPI slave holds
one frame and drops the next; one TCP read may return several frames of
which only the first is parsed; two reader threads run the same handler
without a lock; the tool has no timeout, so one lost frame stops a run; check
box handlers set each other's boxes. Below the tool: two threads and a signal
handler share one socket descriptor without a lock; the reader threads of the
tool take their clients' locks and the lock of the user interface in
different orders; the driver's work item shares its lists with
`gvspi_start_xmit` without a lock; one interrupt line has two meanings, and
host and slave may start to transmit at the same time. `PROJECT.json` lists each of these
hazards at its line, with the properties that watch it.

## Models

**RfBoot** is one board. `pc` is where the firmware is, `prof` the RAM
profile, `flash` the sector. Every step between two flash operations is an
action; a power cut may follow any of them. A sector write is an erase
(`BeginWrite`, the sector is `Corrupt`) and the end of the byte loop
(`EndWrite`). The calibration is modelled reading by reading (`MeasureGood`,
`MeasureBad`); whether a reading is good is a free choice. `owed`, `start`
and `bad` are history variables. `RfProfile` holds the profile and also the
closed form `CalOutcome` of a whole calibration run.

**Stm** is the timer manager. `PlaceOf` is the result of the two scans of
`STM_StartTimer`. The tick wraps at `TickMax`, and as in the compiled branch
of `timer_handler` the time sector is never toggled. Durations are
milliseconds; `STM_MS_TO_TICK` divides them by the length of the tick and drops
the rest. `phase` is the hardware timer, the milliseconds since its last
interrupt; `left` is history: the milliseconds a timer still has to wait.

**TestQueue** has no variables: operators on a record of queue and boxes.
Assigning a box its own value raises no event, any other assignment runs the
handler; that is `SetBox`, and the enable/disable subs are built on it.

**ProdFw** is the firmware of both boards at the level of commands. A PLC
transmission blocks the main loop, an RF transmission runs from the timer
while commands are still taken. The calibration is reduced to CALIBRATED,
GIVEN_UP and RETRY, with the outcomes `RfBoot` allows (`BootCal`).

**HomeScreen** is the tool. A handler is one step: operators take and return
the record `tool`, the commands sent are collected in `out` and appended to
the streams by `Finish`. A command is sent once per line of `lvClients`,
because that is what the code does; a board that announces itself twice has
two lines. The end of a test is one step too, although `enableUI` allows the
next click before the reader thread has refilled the queue: a click inside the
handler is taken to come behind it. `summary` says how far the result summary
`s` is filled in: a new one has no serial number, and until the last result has
come a flash click ends in an exception before anything is sent.

**ProdSystem** composes tool, relays and boards. `System` is what machines do,
`Operator` the buttons, `Fault` a board reset or a response the SPI slave
gives up. `used` counts the operator's and the fault actions against `Bound`.
`RelayConnectFails` allows for a driver that refuses SPI_CONNECT while its board
boots, an answer `gvhost` provides for; the driver at hand never gives it.

**ProductionRun** is what the tester promises for calibrated boards: a run
works off the tests it was started with, is over when the last one has its
results, and parameters are flashed only after a run that is over.
`ProdSystem` maps the Stop button, the planned tests without all their results
and a FLASH_PARAM on its way to it (`ImplementsRun`).

**NetQueue** has the two slot lists of the driver as they are: fixed slots,
no wrap-around, a count that decides where the next frame goes. The handler
is cut at every point where `gvspi_start_xmit` can come in between: inside
`spi_drv_intf.tx`, and, with `Preemptible`, between any two of its memory
accesses. Frames are numbered by the history variables `accepted` and `sent`,
which are also the variables of **Fifo**, the abstract queue.

**SpiLink** is one host and one slave. A frame is a header and a payload, each
one transfer in `bus`. `edge` is the interrupt line, `txActive` decides what
it means. The slave's steps are those of its main loop; `hal_spi_tx_dma` is
three: `TxCheck`, `TxStart`, which lowers RX_CMDLEN_RDY, and `TxLoaded`, which
raises the interrupt. The host may raise MASTER_TX before the second (a
*meeting*, kept in `log.met`). `kernel_write` is cut in the same way: it reads
RX_CMDLEN_RDY in `WriteCheck` and sets `tx_active` in `WriteHeader`, and an
interrupt served in between is taken for a frame of the slave. After a frame
`hal_spi.c` raises RX_CMDLEN_RDY only while HOST_DATA_QUEUE is empty. That is
always so here: the production build runs in mode LOWER_MAC (`HPGP_HAL_TEST` in
`hal_common.c`), in which `fwdAgent_handleData` frees every frame of the power
line instead of queueing it for the host. A timeout fires only when nothing
else on the link can move (`Stalled`): timeouts are seconds, transfers
microseconds. What the shift register does with a transfer of the other mode
is external (`Clock`). The loop `while (spi_tx_flag)` of the command handlers
is `TxDrain`; a transmission that ends without cell buffer is `TxAbandoned`.

**Relay** has the Ethernet thread, the GVSPI thread and the SIGTERM handler.
Every access to `eth_sockfd` is a step, so `close_eth_socket` is four. A
descriptor names an open file, which lives on while `recv` is blocked on it.
`error` closes behind each of three tests of `err_num` and once more at its end.
The tests exclude each other, but both threads overwrite that global without a
lock, so `Error` is one to four closes.

**Clients** has one reader thread per board, the listener and the user
interface thread. A handler is the list of its blocking steps: take
`objForUI`, send under the other client's lock, `Me.Invoke`. A reader that
runs a handler holds its own client's lock, as `doRead` does. `odd` counts
frames and clicks that come out of turn.

Every definition that stands for code is listed in the `map` of
`PROJECT.json` with the lines it translates. Definitions marked as a mutant
in their comment are deliberately wrong variants; no specification uses them.
They show that the property they are paired with can fail.

## What the runs show

| Run | Instance | States | Shows |
|---|---|---|---|
| `RfBoot` | the real 20 attempts and 8-bit counter | 94 thousand | the profile in flash is what the host was told; no PREPARE is forgotten; calibrated boards have measured registers and stay calibrated; the loop equals its closed form; every PREPARE is answered unless the power fails for ever |
| `Stm` | 3 timers, tick 0..4 of 3 ms, durations up to 8 ms | 787 thousand | queue and active flags agree, the queue is ordered, a timer fires less than two ticks early, across tick overflow |
| `ProdNominal` | two runs, reads of up to two frames, lossy medium | 116 thousand | one board at a time is active, results count only their own frames, the receiver is started first, no exception; the tester implements `ProductionRun` |
| `ProdClicks` | one run, two clicks on any enabled box, frames read one by one | 382 thousand | queue and boxes agree; a flash still needs every planned test; the run ends when frames are read one by one |
| `ProdUncalibrated` | DUT given up, REF resets itself to calibrate | 5 thousand | the run of a non-module board ends in every outcome |
| `ProdDisturbed` | one run, one operator action or fault of any kind, failing configuration | 673 thousand | selection and buffers keep their shape |
| `NetQueue` | lists of 3 and 5 slots, 6 frames each | 43 thousand | no accepted frame is lost, overwritten or stranded; counts and slots agree; the lists implement a fair FIFO |
| `SpiLink` | 3 frames each way, one header retry, one disconnection, one abandoned transmission | 220 thousand | frames arrive once and in order; none is lost without a meeting; a mute slave takes a meeting and a disconnection; the firmware's unbounded wait ends while the host reads and nothing met; a connected host gets through unless the firmware waits for ever or was left deaf |
| `Relay` | 6 descriptors, 1 answer, the tool goes down once | 255 thousand | only a failed send or SIGTERM costs descriptors or a live connection; answers reach a tool that was never away; the relay reconnects and SIGTERM ends its Ethernet thread, unless a failed send left it stranded |
| `Clients` | 2 boards, 2 frames per stream, 2 events out of turn | 100 thousand | no deadlock while everyone waits for his turn; every deadlock is one of two kinds; handlers end unless there is one |

Bounds. The attempt counter has its real range, so its wrap is reached after
hundreds of failed boots. Three timers are the fewest with one inserted
between two others, and a tick that wraps at 5 with durations of up to two
whole ticks puts timers in both sectors in every order. A tick of 3 ms and
durations of 0 to 8 ms have every remainder at every phase of the tick, and the
bound of `LessThanTwoTicksEarly` is reached: with one millisecond less it fails. Two frames per
test distinguish none, some and all received. A PLC sweep has two entries
and an RF sweep one: a sweep that goes on to its next entry and one whose
first entry is its last. Two runs make stale results
of an earlier run possible. `ListMax`, `StreamMax` and `ResultMax` cut only
the message storms that doubled client lines produce; the undisturbed runs
never reach them. `TimersMax` bounds RF timers that run side by side.

A list of three slots is the shortest that takes a frame when it is not
empty; its last slot is never used, so one of five holds three frames behind
the one being sent. Six frames per list use each slot again. Three frames each way let a link recover
from a meeting, fail and recover again. One retry of a header stands for the
ten of the code: the state after each is the same. Six descriptors are as many
as can be open at once with one answer (four closes of a failed send, one of
SIGTERM, the connection in use), so `socket()` never runs out; with three in
place of four closes `LeaksArePaidFor` fails.

Deadlock is not checked in the Prod runs: a tester whose operator does
nothing, and one that waits for a lost frame, really stops. The same holds
for `SpiLink` when all frames are sent, for `Relay` after SIGTERM, and for
`Clients`, whose deadlocks are the subject of its properties.

### Disagreements with the code's own words

Two runs expect a violation; each states what a comment or message of the
code says, and the finding in `PROJECT.json` quotes it.

* `Prod_PlcIsTested`: one click and one press of Run leave a direction of the
  PLC without a test (`HomeScreen.vb` line 2308). For a board with both
  interfaces that is not a module, `btnRunTest_Click` enables the plain PLC tests
  before it disables the PLC sweeps. A plain test gives way to a queued sweep, so
  if the operator has checked one, that direction is tested neither way although
  its box is checked; with only the PLC sweeps selected the queue ends up empty.
  A module is not affected, because a sweep drives its plain test out
  (`ModuleHolds`).
* `Stm_OverflowedTimerExpires`: a timer started across the tick overflow never
  expires.

Further observations, seen while modelling and without a run of their own:

* `testRunning` is false between the tests of a run, so a DEV_UP there does
  not reset the run.
* After a failed calibration a PLC sweep continues without its parameter list
  and `Dequeue` throws.
* The pending flag of a calibrated board is cleared only by DEV_SEARCH; after
  a power cut such a board repeats its PREPARE_CNF instead of announcing
  itself.
* `hal_spi_tx_dma` tests MASTER_TX before it lowers RX_CMDLEN_RDY. In between
  the host may begin to write, and frames of both directions are lost:
  `NothingLostUnlessMet` fails without the condition `~log.met`.
* With `Preemptible = TRUE`, `NetQueue` loses a frame: the decrement of the
  count, which takes no lock, overwrites the increment of `gvspi_start_xmit`,
  and the next frame is put into the first slot.
* A transmission abandoned for want of a cell buffer leaves RX_CMDLEN_RDY low;
  only a later transmission of the firmware raises it again.
* A close of the GVSPI thread may take the descriptor of the connection the
  Ethernet thread has just made; that thread then waits on a connection
  nobody can reach until the tool closes it.

### What does not survive a disturbance

The sequencing properties of `ProdNominal` are stated for runs nobody
interferes with. One press of Stop forks two chains of commands, and a board
reset in mid-run can make the tool use an empty queue; `OneBoardAtATime`,
`ReceiverFirst` and `NoCrash` then fail in the model. `RunEnds` fails when
TEST_DONE and START_CNF are read together, and when Run is pressed while
FLASH_PARAM_CNF still sits in the SPI slave. The code makes no statement
about these cases, so they are recorded as hazards rather than findings.

Three further observations have no run of their own.

* With every box of a PLC or RF board unchecked, Run clears the results and
  starts nothing. A flash click that follows finds a list without a failure and
  gets as far as the serial number of the new summary, which is Nothing: the
  exception is all that keeps a board without results from being flashed. If a
  FLASH_PARAM_CNF of the board before is still on its way, it finds TEST_NONE,
  whose interface -1 is no byte, and the tool ends. `NoCrash` and
  `FlashedAfterAllTests` fail then; the runs, with at most two clicks and one
  press of Run after them, do not reach this, and the theorems exclude it.
* `AfterBad` counts the last reading of a board that had already failed twice
  (`gv701x_cfg.c` line 793, while the sibling branch says the count is already updated).
* `DutCalFailed` takes only the RF sweeps out of the queue although the log
  says that the RF tests were removed.

## Fairness

`RfBoot`: the processor executes (`WF` of `Step`) and a board is switched on
again (`WF` of `PowerOn`); nothing obliges the power to fail or the host to
send. `Stm`: the hardware timer ticks and the main loop calls `STM_Proc`.
`FairSpec` of `ProdSystem`: each reader thread, each relay direction and each
firmware loop keeps running, one weak fairness condition per board; all of
them are endless loops in the code. The operator and the faults are under no
obligation.

`NetQueue`: the kernel runs scheduled work (`WF` of `Handler`); `SF` of `TxOk`
says that a transmission tried again and again succeeds in the end. `SpiLink`
justifies that for a connected host, apart from the two cases
`HostGetsThrough` names. `SpiLink`: driver, firmware loop and the two
timeouts of the slave; the firmware need not send. `Relay`: the threads and a
signal handler that has begun are scheduled; the board's next frame, the
signal and the tool are not obliged. `Clients` uses strong fairness of each
thread: `doRead` sleeps 5 ms after it has released its lock, so a thread that
waits for a lock gets it although it is taken again and again.

## Proofs

`RfBootProofs` proves, for every even maximum and modulus with
`CalTryMax + 1 < CalMod` (`CalAssumption`, satisfied by 20 and 256), that
`Spec` implies `TypeOK`, `PrepareAnswered`, `SettledInMain`,
`FlashIsCurrent`, `CalibratedHasRegs`, `CalibrationMatchesClosedForm`,
`ReadingsBounded` and the action property `CalibrationKept` (`TypeTheorem`,
`PrepareAnsweredTheorem`, `SettledTheorem`, `FlashTheorem`, `RegsTheorem`,
`ClosedFormTheorem`, `ReadingsTheorem` and `CalibrationKeptTheorem`, all from
`InvTheorem`).

None of them is inductive alone. The invariant `IInv` adds: `ProfileSound`
(which combinations of status, counter and pending flag a profile may have;
in particular the counter of a board that failed during a pending PREPARE is
below the maximum or odd, which is why both numbers must be even),
`FlashSynced` (RAM and sector agree outside a write), `Measuring` (the
counter is the start value plus the bad readings, modulo the counter's
range), `Calibrated` and `Settled` (what is known at each program point).
The proof of `IInv /\ [Next]_vars => IInv'` has one lemma per action. The
parity argument is what excludes the silent branches of PREPARE and of
`prodTest_init`: the counter of a board with a pending PREPARE never wraps
to a value below the maximum.

`NetQueueProofs` proves, for lists of any length from three slots and any
number of frames, on a host where the handler is not interrupted
(`Preemptible = FALSE`, the hypothesis of every theorem), that `Spec` implies
`TypeOK`, `NoFrameLost`, `CountIsPending`, `CurrentIsOldest`,
`NoFrameStranded` and the abstract queue `ImplementsFifo`. The invariant
`IInv` joins `TypeOK`, `CurrentIsOldest` and `NoFrameStranded` with `InSlots`
(frame `n` waits in slot `n - b`, for one base `b` per list, exactly when it
is in `sent + 1 .. accepted`), `CountExact` (what the count is at each point of the handler, between
the emptied slot and the decrement too) and `Loaded` (the count the handler
has loaded is still the count). The refinement follows step by step: `Xmit`
is `Accept`, `TxOk` is `Send` because the frame sent is the oldest, and all
other actions stutter.

`StmProofs` proves `QueueHoldsActive`, `QueueInOrder` and
`LessThanTwoTicksEarly` for any number of control blocks, any width and any
length of the tick, with durations of at most one turn (`StmAssumption`; the
tick has 32 bits). `NotEarly` is the part that had to be added: a timer of the
current sector has at most `2 * (TickMs - 1)` milliseconds to wait, or expires
before the tick wraps and so many ticks from now that no more will be left then.
Half of that bound is what `STM_MS_TO_TICK` drops of the duration, the other half
what had passed of the tick in which the timer was started. With ticks of one
millisecond no timer fires early at all. The order of the queue is what makes
`STM_Proc` right to look at its head only, and `FirstLemma` says where the two
scans of `STM_StartTimer` stop.

`ClientsProofs` proves `UndisturbedNeverDeadlocks` and `DeadlockHasTwoShapes`
for every finite set of boards whose names are not those of the other threads
(`ClientsAssumption`). `Orderly` says that each thread is at a place of one of
its handlers and that `objForUI` is kept only by a reader inside
DEVICE_UP. `OneAtATime` is the argument that the code relies on: as long as
nothing came out of turn, the tool is `Searching`, and no reader has anything
to send, or `Testing`, and one thread or board at most has the `Turn`. The two
shapes follow from minimality: who waits for a client's lock waits for a reader
that is itself blocked, and following the blocked readers one either stays
among senders or comes to an `Invoke`, hence to the user interface.

`RelayProofs` proves `LeaksArePaidFor`, `AnswersReachTheTool` and the action
property `KilledOnlyByStaleClose` for any number of descriptors, frames and
absences of the tool. `Placed` and `Counted` are the bookkeeping of the three
actors; `Sockets` says that only the Ethernet thread opens sockets and what it
may find where; `Budget` strengthens the first property by the closes still
to come (`closes["spi"] + closes["sig"]`), each of which may cost a descriptor;
`Steady` says that the relay of a tool that never went away still uses the
first socket.

`SpiLinkProofs` proves the four invariants of `SpiLink` for any number of
frames, retries, disconnections and abandoned transmissions
(`SpiLinkAssumption` only gives the bounds their type). `DeliveredOnceInOrder`
needs `IInv`: each transfer on the bus is the one its owner waits for
(`BusOwned`), and the numbers of the delivered frames are below those on their
way. The other three need the handshake itself, `HInv`: while host and slave
have not met (`~met`), the link is in one of the phases `Quiet`,
`Receiving` and `Sending`, each a conjunction over both pins, the interrupt,
the bus and both state machines; while the host was not disconnected
(`stops = 0`), `spi_payload_rx_pending` is set exactly when the engine expects
a payload, and something is on its way (`Expecting`). Once the slave has lowered RX_CMDLEN_RDY without a meeting
(`TxStart`), a host that raises MASTER_TX finds it low in `WriteCheck` and gives
way; this is the part of `Quiet` about an engine in transmit mode. Both were
checked with TLC on the run's instance before they were proved.

`ProdProofs` is about the composed tester, with every operator action and
every fault, and no hypothesis but the types of the constants. `SelectionSound`
is inductive together with the shape of the record `tool` (`Sound`): lemmas on
`SetBox`, `Enable`, `Refill`, ... carry it through the handlers that set each
other's boxes, and from there through every handler of a frame or a button.
`TypeOK` needs `TInv`: the types of commands and frames in the streams, that
the run number of the tool counts the Run clicks, and that a board in the
middle of a transmission was started by a command (`FwOK`), because what is on
the air is what the other board counts.

`NominalProofs` is about the same tester left undisturbed (`Undisturbed`): both
boards arrive calibrated, nobody presses Scan or Stop, no board is reset and no
response is given up. `ProdNominal` and `ProdClicks` are instances of it.
Everything else stays arbitrary: capability, sweep lengths,
module types, frames sent and heard, a failing RF configuration, reads that
return several frames of which all but the first are lost, frames dropped by
an occupied SPI slave, and any number of runs, clicks and flashes. It proves
`NoCrash`, `OneBoardAtATime`, `ReceiverFirst`, `ResultsAreOwn`,
`FlashedAfterAllTests` and the refinement `ImplementsRun`.

None of these says where the run is, so none is inductive. `NInv` adds that: a
run is one *token*, a command on its way to a board, an answer on its way back
or a transmission. The token is in one of the stages `FirstPrepare`,
`SecondPrepare`, `ReceiverStart`, `Transmission`, `Stopping` and `Fetching`, and
each stage says what the tool's `status`, both streams, both SPI slaves and both
firmwares hold; when the token was dropped with a coalesced read or at an
occupied slave the run is at a `Standstill`. Only the commands and answers of
the flash button travel beside it, which is why each stage speaks of frames in
front of the token. Before the first run `StartUp` follows the two DEV_UP. The
proof moves the token once per action of tool, relay and firmware.
`OneBoardAtATime` and `ReceiverFirst` are read off the stages, and so is that no
test or parameter is taken from an empty list. `NoCrash` also needs `AliveInv`: a
tool without a test selected has no summary yet, and nothing travels that could
bring a FLASH_PARAM_CNF. `ResultsAreOwn`
follows because what `Fetching` brings back was counted since the receiver's
PREPARE (PLC) or START (RF); it needs `NeededFrames > 0`, since with zero an
execution passes without a frame.

`FlashedAfterAllTests` and `ImplementsRun` also need the books of a run, `CInv`: tests that left the queue
have all their results, waiting tests none, and for the sweep at the head
results and parameters left add up to the length of its list. A press of Run
with nothing selected clears the results and ruins the books, so `BooksTheorem`
assumes that Run is pressed only with a test selected (`SelectedRun`).
`SelectedTheorem` discharges that assumption in two cases (`AlwaysSelected`):
when no box is clicked, since the default sweep is then in the queue between
runs (`QInv`), and for modules with both interfaces after any clicks, since Run
selects their PLC sweeps itself (`ModuleHolds`). `NoCrashTheorem`,
`FlashedTheorem` and `ImplementsRunTheorem` have this hypothesis;
`NoCrashSelectedTheorem` and `FlashedSelectedTheorem` are for all boards and all
clicks and keep the assumption on Run. The refinement goes step
by step: a press of Run is `Start`, the result that completes a test is
`Complete`, the flash button is `Flash`, the relay that takes the last
FLASH_PARAM is `Taken`, and everything else stutters.
`NInv` and `CInv` were checked with TLC before they were proved.

Only model-checked is liveness, which is out of the prover's reach:
`PrepareIsAnswered`, `RunEnds`, `ImplementsFairFifo`, `HostGetsThrough`,
`Reconnects`, `TermEndsEth` and `HandlersEnd`. Of the disturbed tester
`ProdProofs` proves type correctness and the selection; the sequencing
properties do not hold there. `ReadingsBounded` is proved without a run.

## Not modelled

Contents of the frames and test parameters, serial number parsing (the
operator types a valid number and leaves MAC configuration checked), report
and settings files, boot code and the flash tool. TOOL_CMD_DEV_RESET is left
out because the only button that sends it is disabled.

Of the SPI path: descriptors left behind by an abandoned transmission, the
variant `hal_spi_tx_dma_cp` and the driver's character device, which
no command of the production test uses. Of the relay: identifiers outside the protocol and
several requests in one `recv`.

By size the repository is almost entirely something else: the MAC layers of
HPGP and 802.15.4, which the production test bypasses (it sends raw frames
from `hal_prod_tst.c`), two further copies of the firmware, two further
copies of the tool, and vendored libraries and headers. The models cover the code the tester
runs; modelling one of the copies again would add lines and no behaviour. The
HPGP network state machines (`nsm_*.c`) would be a project of their own.

## Plan

1. `FlashParam`: the MAC and LED sectors across a power cut.
2. Refinement of the abstract calibration of `ProdFw` by `RfBoot`, and of its
   one-place response buffer by `SpiLink`.
