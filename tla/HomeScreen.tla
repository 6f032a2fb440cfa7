----------------------------- MODULE HomeScreen -----------------------------
(***************************************************************************)
(* The production tool: the operator's buttons, the handler of the frames  *)
(* the two boards send (messageReceived) and the sequencer that issues the *)
(* next command (executeTests).  A handler is one step.                    *)
(*                                                                         *)
(* tool is a record:                                                       *)
(*   q, box           qExecStatus and the checked boxes: see TestQueue     *)
(*   status           the global execState: test, operation, board         *)
(*   testRunning, sweepTestRunning                                         *)
(*   params           length of sweepParamList (PLC) and of                *)
(*                    RFChannelParamList (RF)                              *)
(*   tests, summary   s.tests and how far s is filled in: "none" before    *)
(*                    the first run, "new" without a serial number, "done" *)
(*   up, devicesUP    boards whose DEVICE_UP was seen since the last scan  *)
(*   listed           lines of each board in lvClients: every command is   *)
(*                    sent once per line                                   *)
(*   calStatus, runOn, stopOn, boxOn   calStatus, btnRunTest.Enabled,      *)
(*                    btnStopTest.Enabled and the enabled check boxes; the *)
(*                    flash and scan buttons are enabled when Stop is not  *)
(*   dead             an unhandled exception ended the process             *)
(*   run, planned     history: number of the run, tests it started with    *)
(*   out              commands the current handler has sent; empty between *)
(*                    two steps                                            *)
(* down[b], up[b] are the TCP streams to and from the relay of board b.    *)
(***************************************************************************)
EXTENDS TestQueue

CONSTANTS Capability,   \* capability of the device under test
          SweepLen,     \* lengths of FrmLenArr (PLC) and RFChannelList (RF)
          NeededFrames, \* frames a passing result has: count less threshold
          ListMax,      \* bound on lvClients lines per board, param lists
          StreamMax,    \* bound on the commands in a TCP stream
          ResultMax,    \* bound on the results of a run
          ReadMax,      \* frames one read of the socket may return together
          Modules       \* serial numbers in use: of modules (TRUE) or not

ASSUME ToolAssumption ==
  /\ Capability \in {"PLC", "RF", "RF_PLC"}
  /\ SweepLen \in [Intf -> Nat \ {0}]
  /\ NeededFrames \in Nat
  /\ ListMax \in Nat
  /\ StreamMax \in Nat \ {0}
  /\ ResultMax \in Nat \ {0}
  /\ ReadMax \in Nat \ {0}
  /\ Modules \in SUBSET BOOLEAN

VARIABLES tool, down, up

toolVars == <<tool, down, up>>

NoSends == [b \in Board |-> <<>>]

Status(t, op, b) == [test |-> t, op |-> op, at |-> b]

NullStatus == Status(NoTest, "NONE", "DUT")

ToolInit ==
  /\ tool = [q |-> <<>>, box |-> {}, status |-> NullStatus,
             testRunning |-> FALSE, sweepTestRunning |-> FALSE,
             params |-> [i \in Intf |-> 0], tests |-> <<>>,
             summary |-> "none", up |-> {}, devicesUP |-> FALSE,
             listed |-> [b \in Board |-> 0], calStatus |-> TRUE,
             runOn |-> FALSE, stopOn |-> FALSE, boxOn |-> {}, dead |-> FALSE,
             run |-> 0, planned |-> {}, out |-> NoSends]
  /\ down = NoSends
  /\ up = NoSends

(* The execution a command belongs to (history): the run and the number of *)
(* results it has so far.                                                  *)
Execution(h) == <<h.run, Len(h.tests)>>

(* The end of every handler: what it sent goes to the streams.             *)
Finish(h) ==
  /\ tool' = [h EXCEPT !.out = NoSends]
  /\ down' = [b \in Board |-> down[b] \o h.out[b]]

setStatusvarNull(h) == [h EXCEPT !.status = NullStatus]

disableUI(h) == [h EXCEPT !.stopOn = TRUE, !.runOn = FALSE, !.boxOn = {}]

(* Plain boxes are unchecked, which takes their tests out of the queue.    *)
enableUI(h) ==
  UncheckPlain([h EXCEPT !.stopOn = FALSE, !.runOn = TRUE, !.boxOn = Test])

(* scan: sends to the connected clients, not to the lines of lvClients.    *)
scan(h) ==
  [h EXCEPT !.runOn = FALSE, !.up = {}, !.devicesUP = FALSE,
            !.listed = [b \in Board |-> 0],
            !.out = [b \in Board |->
                       Append(@[b], [cmd |-> "DEV_SEARCH", test |-> NoTest,
                                     ex |-> Execution(h)])]]

(* lvClients.Items.Count <= 1                                              *)
FewClients(h) == h.listed["DUT"] + h.listed["REF"] <= 1

(* The lines of lvClients, or a scan when there are too few of them.       *)
getSelectedClientList(h) == IF FewClients(h) THEN scan(h) ELSE h

(* For Each cl In getSelectedClientList(): beginSend to every line of this *)
(* device type.                                                            *)
Send(h, b, cmd, t) ==
  LET m == [cmd |-> cmd, test |-> t, ex |-> Execution(h)]
  IN  IF FewClients(h)
        THEN scan(h)
        ELSE [h EXCEPT !.out[b] = @ \o [i \in 1 .. h.listed[b] |-> m]]

-----------------------------------------------------------------------------
(* executeTests and the eight _test_ subs.                                 *)

(* The board that is prepared first, and started first: the receiver.      *)
FirstPrepared(t) == Receiver(t)

(* Mutant: a sweep begins without its parameters.                          *)
BeginTest_NoParams(h, t) ==
  Send([h EXCEPT !.sweepTestRunning = t.sweep \/ @],
       FirstPrepared(t), "PREPARE", PlainOf(t))

(* A plain test begins with PREPARE; a sweep first fills its parameters.   *)
BeginTest(h, t) ==
  LET g == IF t.sweep
             THEN [h EXCEPT !.params[t.intf] = @ + SweepLen[t.intf],
                            !.sweepTestRunning = TRUE]
             ELSE h
  IN  Send(g, FirstPrepared(t), "PREPARE", PlainOf(t))

(* One state of _test_plcTX, _test_plcRX, _test_RFTX or _test_RFRX: STOP   *)
(* and GET_RESULT go to the receiver; after the result the next test of    *)
(* the queue begins, or the queue is refilled for the next board.          *)
TestStep(h, t, op) ==
  CASE op \in {"PREPARE", "START"} -> Send(h, h.status.at, op, t)
    [] op \in {"STOP", "GET_RESULT"} -> Send(h, Receiver(t), op, t)
    [] op = "GET_RESULT_CNF" ->
         IF h.q # <<>>
           THEN BeginTest(h, Head(h.q))
           ELSE Refill(h, Capability)
    [] OTHER -> h

executeTests(h) ==
  LET t == h.status.test
  IN  IF t = NoTest THEN h
      ELSE IF t.sweep THEN BeginTest(h, t)
      ELSE TestStep(h, t, h.status.op)

(* Set the global status and execute it: the sub of the plain test runs.   *)
Continue(h, t, op, b) ==
  TestStep([h EXCEPT !.status = Status(PlainOf(t), op, b)], PlainOf(t), op)

-----------------------------------------------------------------------------
(* Results and the flash. *)

AllPassed(h) == \A i \in 1 .. Len(h.tests) : h.tests[i].ok

(* flashParams and btn_flashParams_Click: an empty list of results passes, *)
(* but a new summary has no serial number, whose Length getPayload reads:  *)
(* the exception ends the click and nothing is sent.                       *)
flashParams(h) ==
  IF h.summary = "none" \/ ~AllPassed(h) THEN h
  ELSE IF h.summary = "new" THEN getSelectedClientList(h)
  ELSE Send(h, "DUT", "FLASH_PARAM", NoTest)

(* updatemetadata and decideTestStatus: a result without enough frames     *)
(* fails.                                                                  *)
Record(h, m, ok) ==
  [getSelectedClientList(h) EXCEPT
     !.tests = Append(@, [test |-> Head(h.q), ok |-> ok,
                          from |-> m.stats.from, ex |-> Execution(h)])]

(* What decideTestStatus may make of the statistics; those of the other    *)
(* interface are read through the wrong structure.                         *)
Verdicts(h, m) ==
  IF h.q # <<>> /\ m.intf = Head(h.q).intf
    THEN {m.stats.n >= NeededFrames}
    ELSE BOOLEAN

(* Mutant: the board is flashed whenever its tests are over.               *)
TestsDone_FlashAnyway(h) ==
  IF h.q = <<>> THEN Send(enableUI(h), "DUT", "FLASH_PARAM", NoTest) ELSE h

(* The last test of the queue: enableUI, then tests_done_update_summary,   *)
(* which fills in the summary.                                             *)
TestsDone(h) ==
  IF h.q = <<>> THEN flashParams([enableUI(h) EXCEPT !.summary = "done"])
                ELSE h

(* The test at the head of the queue is over.  One step: a click on what   *)
(* enableUI has just enabled comes after the rest of the handler.          *)
FinishTest(h) ==
  LET t == Head(h.q)
      g == TestsDone([h EXCEPT !.q = Tail(@), !.testRunning = FALSE,
                               !.params[t.intf] = IF t.sweep THEN 0 ELSE @])
  IN  Continue([g EXCEPT !.sweepTestRunning = IF t.sweep THEN FALSE ELSE @],
               t, "GET_RESULT_CNF", "DUT")

-----------------------------------------------------------------------------
(* messageReceived: one operator per frame.                                *)

(* Both boards are up: the tests are configured.                           *)
isDeviceUP(h, b) ==
  LET g == [h EXCEPT !.up = @ \cup {b}, !.listed[b] = @ + 1]
  IN  IF g.up = Board
        THEN EnableTests2([g EXCEPT !.devicesUP = TRUE, !.runOn = TRUE,
                                    !.boxOn = @ \cup TestsOf(Capability)],
                          Capability)
        ELSE g

incorrectDevUpEvent(h) ==
  [enableUI(setStatusvarNull(h)) EXCEPT
     !.testRunning = FALSE, !.sweepTestRunning = FALSE, !.q = <<>>,
     !.box = {}, !.params = [i \in Intf |-> 0], !.runOn = FALSE]

DeviceUp(h, b, m) ==
  IF h.testRunning \/ h.sweepTestRunning
    THEN incorrectDevUpEvent(h)
    ELSE isDeviceUP(h, b)

(* qExecStatus.First throws on an empty queue; nothing catches it.         *)
Crash(h) == [h EXCEPT !.dead = TRUE]

issueCmd_StopTest(h, t) ==
  [h EXCEPT !.status = Status(IF t = NoTest THEN @.test ELSE PlainOf(t),
                              "STOP", @.at)]

TestDone(h, b, m) ==
  IF m.rsp # "SUCCESS" THEN h
  ELSE IF h.q = <<>> THEN Crash(h)
  ELSE executeTests(issueCmd_StopTest(h, Head(h.q)))

(* Mutant: the transmitter is started first.                               *)
PrepareNext_StartsTransmitter(h, b) ==
  LET t == Head(h.q)
  IN  IF b = FirstPrepared(t)
        THEN Continue(h, t, "PREPARE", Other(b))
        ELSE Continue(h, t, "START", b)

(* The first board is prepared: prepare the other; both are: start.        *)
PrepareNext(h, b) ==
  LET t == Head(h.q)
  IN  IF b = FirstPrepared(t)
        THEN Continue(h, t, "PREPARE", Other(b))
        ELSE Continue(h, t, "START", Other(b))

(* PREPARE_DUT_CNF with a failed calibration: the RF sweeps are dropped    *)
(* and the PLC test that is now first goes on from the wrong state when it *)
(* is a TX test.                                                           *)
DutCalFailed(h) ==
  LET g == Disable(Disable([h EXCEPT !.calStatus = FALSE], SweepTest("RF", "RX")),
                   SweepTest("RF", "TX"))
  IN  IF g.q = <<>> THEN setStatusvarNull(g)
      ELSE LET t == Head(g.q)
           IN  IF t.intf = "RF" THEN executeTests(g)
               ELSE IF t.dir = "TX" THEN Continue(g, t, "START", "DUT")
               ELSE Continue(g, t, "PREPARE", "DUT")

(* Mutant: the buttons are not enabled again.                              *)
RefCalFailed_KeepsUI(h) ==
  [setStatusvarNull(h) EXCEPT
     !.testRunning = FALSE, !.params = [i \in Intf |-> 0]]

(* PREPARE_REFERENCE_CNF with a failed calibration ends the run.           *)
RefCalFailed(h) ==
  [setStatusvarNull(enableUI(h)) EXCEPT
     !.testRunning = FALSE, !.params = [i \in Intf |-> 0]]

PrepareCnf(h, b, m) ==
  IF ~h.devicesUP THEN setStatusvarNull(h)
  ELSE CASE m.rsp = "SUCCESS" ->
              IF h.q = <<>> THEN setStatusvarNull(h) ELSE PrepareNext(h, b)
         [] m.rsp = "CAL_FAILED" ->
              IF b = "DUT" THEN DutCalFailed(h) ELSE RefCalFailed(h)
         [] OTHER -> h

(* Mutant: the confirm of the transmitter starts it once more.             *)
StartCnf_AnyBoard(h, b, m) ==
  IF m.rsp # "SUCCESS" THEN h
  ELSE IF h.q = <<>> THEN setStatusvarNull(h)
  ELSE Continue(h, Head(h.q), "START", Transmitter(Head(h.q)))

(* The receiver is ready: start the transmitter.                           *)
StartCnf(h, b, m) ==
  IF m.rsp # "SUCCESS" THEN h
  ELSE IF h.q = <<>> THEN setStatusvarNull(h)
  ELSE LET t == Head(h.q)
       IN  IF b = Receiver(t) THEN Continue(h, t, "START", Transmitter(t))
                              ELSE h

StopCnf(h, b, m) ==
  IF m.rsp # "SUCCESS" THEN h
  ELSE IF h.q = <<>> THEN setStatusvarNull(h)
  ELSE Continue(h, Head(h.q), "GET_RESULT", "DUT")

(* Mutant: the end of a sweep is detected one entry too early.             *)
GetResultCnf_ShortSweep(h, b, m, ok) ==
  IF h.q = <<>> THEN Crash(getSelectedClientList(h))
  ELSE LET t == Head(h.q)
           g == Record(h, m, ok)
       IN  IF ~t.sweep \/ h.params[t.intf] <= 2
             THEN FinishTest(g)
             ELSE Continue([g EXCEPT !.params[t.intf] = @ - 1],
                           t, "PREPARE", FirstPrepared(t))

(* The result is logged; the test is over unless its sweep has parameters  *)
(* left.  Dequeue throws on an empty list.                                 *)
GetResultCnf(h, b, m, ok) ==
  IF h.q = <<>> THEN Crash(getSelectedClientList(h))
  ELSE LET t == Head(h.q)
           g == Record(h, m, ok)
       IN  IF ~t.sweep THEN FinishTest(g)
           ELSE IF h.params[t.intf] = 0 THEN Crash(g)
           ELSE IF h.params[t.intf] = 1 THEN FinishTest(g)
           ELSE Continue([g EXCEPT !.params[t.intf] = @ - 1],
                         t, "PREPARE", FirstPrepared(t))

(* board_disconnect_cmd: the interface of TEST_NONE is -1, which does not  *)
(* fit in the byte of the message: nothing catches the exception.          *)
FlashParamCnf(h, b, m) ==
  IF h.status.test = NoTest /\ ~FewClients(h) /\ h.listed["DUT"] > 0
    THEN Crash(h)
    ELSE Send(h, "DUT", "SPI_DISCONNECT", NoTest)

Handled(h, b, m, ok) ==
  CASE m.id = "DEVICE_UP"       -> DeviceUp(h, b, m)
    [] m.id = "TEST_DONE"       -> TestDone(h, b, m)
    [] m.id = "PREPARE_CNF"     -> PrepareCnf(h, b, m)
    [] m.id = "START_CNF"       -> StartCnf(h, b, m)
    [] m.id = "STOP_CNF"        -> StopCnf(h, b, m)
    [] m.id = "GET_RESULT_CNF"  -> GetResultCnf(h, b, m, ok)
    [] m.id = "FLASH_PARAM_CNF" -> FlashParamCnf(h, b, m)
    [] OTHER                    -> h

(* doRead: one read returns everything that has arrived, and only the      *)
(* first frame of it is looked at.                                         *)
messageReceived(b) ==
  /\ ~tool.dead
  /\ up[b] # <<>>
  /\ tool.listed[b] < ListMax
  /\ \A c \in Board : Len(down[c]) < StreamMax
  /\ Len(tool.tests) < ResultMax
  /\ \A i \in Intf : tool.params[i] < ListMax
  /\ \E n \in 1 .. ReadMax, ok \in Verdicts(tool, Head(up[b])) :
       /\ n <= Len(up[b])
       /\ up' = [up EXCEPT ![b] = SubSeq(@, n + 1, Len(@))]
       /\ Finish(Handled(tool, b, Head(up[b]), ok))

-----------------------------------------------------------------------------
(* The operator. *)

Idle == ~tool.dead /\ ~tool.stopOn

btn_ScanDevices_Click ==
  /\ Idle
  /\ Finish(scan(tool))
  /\ UNCHANGED up

(* A click on one of the eight boxes.                                      *)
CheckBox_Click(t) ==
  /\ ~tool.dead
  /\ t \in tool.boxOn
  /\ Finish(Toggle(tool, t))
  /\ UNCHANGED up

(* btnRunTest_Click with a valid serial number.                            *)
RunTest_Click(mod) ==
  LET h == ForSerial(setStatusvarNull([tool EXCEPT !.tests = <<>>,
                                                   !.summary = "new",
                                                   !.run = @ + 1]),
                     Capability, mod)
      t == Head(h.q)
      g == disableUI([h EXCEPT !.testRunning = TRUE, !.calStatus = TRUE,
                               !.planned = ToSet(h.q)])
  IN  /\ ~tool.dead
      /\ tool.runOn
      /\ Finish(IF FewClients(h) THEN scan(scan(h))
                ELSE IF h.q = <<>> THEN h
                ELSE executeTests([g EXCEPT !.status =
                                     Status(t, "PREPARE", FirstPrepared(t))]))
      /\ UNCHANGED up

btnStopTest_Click ==
  /\ ~tool.dead
  /\ tool.stopOn
  /\ Finish(executeTests(issueCmd_StopTest(tool, tool.status.test)))
  /\ UNCHANGED up

btn_flashParams_Click ==
  /\ Idle
  /\ Finish(flashParams(tool))
  /\ UNCHANGED up
=============================================================================
