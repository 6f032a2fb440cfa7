----------------------------- MODULE ProdSystem -----------------------------
(***************************************************************************)
(* The tester: the tool, the two gvhost relays and the two boards.  The    *)
(* relay of a board hands a command to the firmware when its main loop     *)
(* takes one, and a frame of the SPI slave to the tool's TCP stream.       *)
(*                                                                         *)
(* The operator acts, and the power or the SPI fails, a bounded number of  *)
(* times: used[a] counts the uses of action a, at most Bound[a], and       *)
(* used["all"] those of all actions.                                       *)
(***************************************************************************)
EXTENDS HomeScreen, ProdFw

CONSTANT Bound          \* bounds on the operator's actions

ASSUME MaxAssumption ==
  Bound \in [{"run", "scan", "click", "stop", "flash", "reset", "spi",
             "all"} -> Nat]

VARIABLE used

vars == <<tool, down, up, fw, spi, used>>

Init ==
  /\ ToolInit
  /\ FwInit
  /\ used = [a \in DOMAIN Bound |-> 0]

Use(a) ==
  /\ used[a] < Bound[a]
  /\ used["all"] < Bound["all"]
  /\ used' = [used EXCEPT ![a] = @ + 1, !["all"] = @ + 1]

-----------------------------------------------------------------------------
(* gvhost: run_through_state_machine on a request.  One recv returns what  *)
(* has arrived and only its first header is parsed.  SPI_DISCONNECT is for *)
(* the driver.                                                             *)
RelayRequest(b) ==
  /\ down[b] # <<>>
  /\ \E n \in 1 .. ReadMax :
       /\ n <= Len(down[b])
       /\ down' = [down EXCEPT ![b] = SubSeq(@, n + 1, Len(@))]
  /\ LET m == Head(down[b])
     IN  \/ /\ m.cmd = "SPI_DISCONNECT"
            /\ UNCHANGED fwVars
         \/ prodTestExecCmd(b, m)
  /\ UNCHANGED <<tool, up, used>>

(* gvhost drops a request when its SPI_CONNECT ioctl fails.  The driver at *)
(* hand always answers SUCCESS: the step allows for one that refuses while *)
(* its board is booting.                                                   *)
RelayConnectFails(b) ==
  /\ down[b] # <<>>
  /\ fw[b].pc = "boot"
  /\ Head(down[b]).cmd # "SPI_DISCONNECT"
  /\ down' = [down EXCEPT ![b] = Tail(@)]
  /\ UNCHANGED <<tool, up, fw, spi, used>>

(* ... and on an event or a response of the board.                         *)
RelayResponse(b) ==
  /\ spi[b] # <<>>
  /\ up' = [up EXCEPT ![b] = @ \o spi[b]]
  /\ spi' = [spi EXCEPT ![b] = <<>>]
  /\ UNCHANGED <<tool, down, fw, used>>

-----------------------------------------------------------------------------
ToolReceive(b) == messageReceived(b) /\ UNCHANGED <<fw, spi, used>>

FwBoot(b) == Boot(b) /\ UNCHANGED <<tool, down, up, used>>

FwTransmit(b) ==
  /\ Transmit(b) \/ SearchDone(b)
  /\ UNCHANGED <<tool, down, up, used>>

(* What the machines do by themselves.                                     *)
System ==
  \E b \in Board :
    \/ ToolReceive(b)
    \/ RelayRequest(b)
    \/ RelayConnectFails(b)
    \/ RelayResponse(b)
    \/ FwBoot(b)
    \/ FwTransmit(b)

(* What the operator does.                                                 *)
Operator ==
  /\ \/ \E mod \in Modules : RunTest_Click(mod) /\ Use("run")
     \/ btn_ScanDevices_Click /\ Use("scan")
     \/ \E t \in Test : CheckBox_Click(t) /\ Use("click")
     \/ btnStopTest_Click /\ Use("stop")
     \/ btn_flashParams_Click /\ Use("flash")
  /\ UNCHANGED fwVars

(* What goes wrong.                                                        *)
Fault ==
  \E b \in Board :
    /\ \/ BoardReset(b) /\ Use("reset")
       \/ SpiTimeout(b) /\ Use("spi")
    /\ UNCHANGED toolVars

Next == System \/ Operator \/ Fault

Spec == Init /\ [][Next]_vars

(* The machines run on; the operator need not do anything.                 *)
FairSpec == Spec /\ \A b \in Board :
                      /\ WF_vars(ToolReceive(b))
                      /\ WF_vars(RelayRequest(b))
                      /\ WF_vars(RelayResponse(b))
                      /\ WF_vars(FwBoot(b))
                      /\ WF_vars(FwTransmit(b))

-----------------------------------------------------------------------------
(* Properties *)

Statuses == [test : Test \cup {NoTest}, at : Board,
             op : {"NONE", "PREPARE", "START", "STOP", "GET_RESULT",
                   "GET_RESULT_CNF"}]

Executions == (0 .. Bound["run"]) \X Nat

Stats == [n : Nat, from : SUBSET Executions]

(* Shape of the state of the tool, the streams and the boards.             *)
TypeOK ==
  /\ tool.q \in Seq(Test) /\ tool.box \in SUBSET Test
  /\ tool.status \in Statuses
  /\ tool.params \in [Intf -> Nat]
  /\ tool.listed \in [Board -> 0 .. ListMax]
  /\ \A b \in Board :
       /\ Len(spi[b]) <= 1
       /\ fw[b].prep \in Test /\ ~fw[b].prep.sweep
       /\ fw[b].timers \in 0 .. TimersMax
       /\ \A i \in Intf : fw[b].stats[i] \in Stats

(* A run is under way: Stop is enabled.                                    *)
Running == tool.stopOn

(* The check boxes and the queue agree: nothing is queued twice, a test    *)
(* and its sweep are never both queued, and what is queued is checked.     *)
SelectionSound ==
  /\ Cardinality(ToSet(tool.q)) = Len(tool.q)
  /\ \A t \in ToSet(tool.q) : Twin(t) \notin ToSet(tool.q)
  /\ ToSet(tool.q) \subseteq tool.box

(* A board has something of a test to do or to say.                        *)
Busy(b) ==
  LET flash == {"FLASH_PARAM", "SPI_DISCONNECT"}
  IN  \/ \E i \in 1 .. Len(down[b]) : down[b][i].cmd \notin flash
      \/ \E i \in 1 .. Len(spi[b]) : spi[b][i].id # "FLASH_PARAM_CNF"
      \/ \E i \in 1 .. Len(up[b]) : up[b][i].id # "FLASH_PARAM_CNF"
      \/ fw[b].pc \in {"plc", "rf"}
      \/ fw[b].timers > 0

(* messageReceived runs on the reader thread of each client and takes no   *)
(* lock for status and qExecStatus.  During a run only one board at a time *)
(* has anything under way, so the two threads do not meet in it.           *)
OneBoardAtATime == Running => ~(Busy("DUT") /\ Busy("REF"))

(* Every recorded result counts only frames that were sent for this        *)
(* execution of the test: no statistics of an earlier test, of an earlier  *)
(* sweep entry or of an earlier run.                                       *)
ResultsAreOwn ==
  \A i \in 1 .. Len(tool.tests) :
    /\ tool.tests[i].from \subseteq {tool.tests[i].ex}
    /\ tool.tests[i].ok => tool.tests[i].from # {}

(* No frame of a test is on the air before the receiver was started for    *)
(* the same execution.                                                     *)
ReceiverFirst ==
  \A b \in Board :
    /\ fw[b].pc = "plc" => fw[Other(b)].started = fw[b].plcTx.ex
    /\ fw[b].timers > 0 => fw[Other(b)].started = fw[b].rfTx.ex

(* Results of test t recorded in this run.                                 *)
ResultsOf(t) == {i \in 1 .. Len(tool.tests) : tool.tests[i].test = t}

FlashSent ==
  \E b \in Board : \E i \in 1 .. Len(down[b]) :
    down[b][i].cmd = "FLASH_PARAM"

(* A board gets its MAC address only after every test the run was started  *)
(* with has its full number of results, all of them passes; without a      *)
(* calibrated RF part the PLC tests count.                                 *)
FlashedAfterAllTests ==
  FlashSent /\ ~Running =>
    /\ AllPassed(tool)
    /\ \A t \in tool.planned :
         tool.calStatus \/ t.intf = "PLC" =>
           Cardinality(ResultsOf(t)) = IF t.sweep THEN SweepLen[t.intf] ELSE 1

(* Tests of the run that do not yet have all their results.                *)
Todo ==
  {t \in tool.planned :
     Cardinality(ResultsOf(t)) < IF t.sweep THEN SweepLen[t.intf] ELSE 1}

(* With calibrated boards the queue, the sweep lists and the flags of the  *)
(* buttons implement the abstract run: no test is skipped or repeated, the *)
(* buttons come back with the last result, no flash during a run.          *)
Run == INSTANCE ProductionRun
         WITH Tests <- Test, running <- Running, todo <- Todo, flash <- FlashSent
ImplementsRun == Run!Spec

(* No handler ends the process: qExecStatus.First and Dequeue are never    *)
(* applied to an empty list, and FLASH_PARAM_CNF never finds TEST_NONE.    *)
NoCrash == ~tool.dead

(* A run comes to its end: results of all tests, or the board that cannot  *)
(* be calibrated is reported.                                              *)
RunEnds == Running ~> ~Running

(* "Enable only PLC TX RX with 100 bytes & no sweep test" or the PLC       *)
(* sweeps: btnRunTest_Click gives every run of a RF_PLC board a PLC test   *)
(* of each direction.                                                      *)
PlcIsTested ==
  Running /\ Capability = "RF_PLC" =>
    \A d \in {"TX", "RX"} : \E t \in tool.planned : t.intf = "PLC" /\ t.dir = d
=============================================================================
