------------------------------- MODULE ProdFw -------------------------------
(***************************************************************************)
(* The production firmware of the two boards: prodTestExecCmd, the two     *)
(* ways a test is transmitted, the statistics of the receiver and the      *)
(* frames handed to the SPI slave.  One command is one step; a PLC test    *)
(* blocks the main loop until its TEST_DONE, an RF test runs from the      *)
(* timer callback while the main loop goes on taking commands.             *)
(*                                                                         *)
(* fw[b] is a record:                                                      *)
(*   pc      boot, main, plc (inside HHT_SimulateTx), rf (the end of the   *)
(*           last timer callback) or search (the end of DEV_SEARCH); the   *)
(*           last two wait for spi_tx_flag, as does the end of plc         *)
(*   prep    prepProdCmd.testId; after a boot the BSS value 0, PLC_TX      *)
(*   ready   prepProdCmd.cmdId is that of a PREPARE                        *)
(*   stats   halStats (PLC) and gRfStats (RF): frames counted, and from    *)
(*           which executions (history)                                    *)
(*   plcTx, rfTx   frames left to send, for which execution (history)      *)
(*   timers  timers that will still call prod_rf_test_timer_cb             *)
(*   cal     CALIBRATED, GIVEN_UP (FAILED, no attempts left) or RETRY      *)
(*           (not calibrated, attempts left): see RfBoot                   *)
(*   pending the RF test of testActionPreparePending, or NoTest            *)
(*   started history: the execution whose START was accepted last          *)
(* spi[b] is the frame in the SPI slave of board b: spi_tx_flag.           *)
(***************************************************************************)
EXTENDS TestQueue

CONSTANTS FrameCount,   \* frames of a test
          TimersMax,    \* bound on the RF timers running at once
          RfCal,        \* calibration of each board when it arrives
          ConfigFails   \* may config_rf_test_parameters fail?

ASSUME FwAssumption ==
  /\ FrameCount \in Nat \ {0}
  /\ TimersMax \in Nat \ {0}
  /\ RfCal \in [Board -> {"CALIBRATED", "GIVEN_UP", "RETRY"}]
  /\ ConfigFails \in BOOLEAN

(* Results of config_rf_test_parameters.                                   *)
ConfigOk == IF ConfigFails THEN BOOLEAN ELSE {TRUE}

VARIABLES fw, spi

fwVars == <<fw, spi>>

NoStats == [n |-> 0, from |-> {}]

NoTx == [left |-> 0, ex |-> <<>>]

(* A frame to the host: identifier, status, and the statistics of a        *)
(* GET_RESULT_CNF.                                                         *)
Frame(id, rsp) == [id |-> id, rsp |-> rsp, intf |-> "none", stats |-> NoStats]

(* RAM after a reset; the flash profile survives.                          *)
Booting(cal, pending) ==
  [pc |-> "boot", prep |-> PlainTest("PLC", "TX"), ready |-> FALSE,
   stats |-> [i \in Intf |-> NoStats],
   plcTx |-> NoTx, rfTx |-> NoTx, timers |-> 0,
   cal |-> cal, pending |-> pending, started |-> <<>>]

FwInit ==
  /\ fw = [b \in Board |-> Booting(RfCal[b], NoTest)]
  /\ spi = [b \in Board |-> <<>>]

(* Mutant: the slave is not asked whether it is free.                      *)
gvspi_send_Queues(b, f) == spi' = [spi EXCEPT ![b] = Append(@, f)]

(* gvspi_send: a frame offered while the last one is still in the slave is *)
(* dropped.                                                                *)
gvspi_send(b, f) == spi' = [spi EXCEPT ![b] = IF @ = <<>> THEN <<f>> ELSE @]

-----------------------------------------------------------------------------
(* Boot.  What one run of the calibration does to the status; a board that *)
(* was reset by a PREPARE does not come back with attempts left.           *)
BootCal(f) ==
  CASE f.cal = "CALIBRATED" -> {"CALIBRATED"}
    [] f.cal = "RETRY"      -> {"CALIBRATED", "GIVEN_UP"}
    [] f.cal = "GIVEN_UP"   -> IF f.pending = NoTest
                                 THEN {"CALIBRATED", "GIVEN_UP", "RETRY"}
                                 ELSE {"CALIBRATED", "GIVEN_UP"}

(* main() up to the loop, with prodTest_init(0): DEVICE_UP, or the answer  *)
(* to the PREPARE that reset the chip.                                     *)
Boot(b) ==
  /\ fw[b].pc = "boot"
  /\ \E c \in BootCal(fw[b]) :
       \/ /\ fw[b].pending = NoTest
          /\ fw' = [fw EXCEPT ![b].pc = "main", ![b].cal = c]
          /\ gvspi_send(b, Frame("DEVICE_UP", "SUCCESS"))
       \/ /\ fw[b].pending # NoTest
          /\ c = "CALIBRATED"
          /\ fw' = [fw EXCEPT ![b].pc = "main", ![b].cal = c,
                              ![b].prep = fw[b].pending, ![b].ready = TRUE]
          /\ \E ok \in ConfigOk :
               gvspi_send(b, Frame("PREPARE_CNF", IF ok THEN "SUCCESS"
                                                       ELSE "INVALID_TEST"))
       \/ /\ fw[b].pending # NoTest
          /\ c = "GIVEN_UP"
          /\ fw' = [fw EXCEPT ![b].pc = "main", ![b].cal = c,
                              ![b].pending = NoTest]
          /\ gvspi_send(b, Frame("PREPARE_CNF", "CAL_FAILED"))

(* Power lost and restored, or the reset button of the board.              *)
BoardReset(b) ==
  /\ fw' = [fw EXCEPT ![b] = Booting(@.cal, @.pending)]
  /\ spi' = [spi EXCEPT ![b] = <<>>]

(* The main loop: a frame the host has not fetched within                  *)
(* MAX_SPI_TX_TIMEOUT is given up.                                         *)
SpiTimeout(b) ==
  /\ fw[b].pc = "main"
  /\ spi[b] # <<>>
  /\ spi' = [spi EXCEPT ![b] = <<>>]
  /\ UNCHANGED fw

-----------------------------------------------------------------------------
(* prodTestExecCmd: one operator per command, m is the command.            *)

(* Mutant: the PLC statistics survive a PREPARE.                           *)
PrepareCmd_KeepsStats(b, m) ==
  /\ m.cmd = "PREPARE"
  /\ fw' = [fw EXCEPT ![b].prep = m.test, ![b].ready = TRUE]
  /\ gvspi_send(b, Frame("PREPARE_CNF", "SUCCESS"))

(* TOOL_CMD_PREPARE_DUT, TOOL_CMD_PREPARE_REF.                             *)
PrepareCmd(b, m) ==
  /\ m.cmd = "PREPARE"
  /\ \/ /\ m.test.intf = "PLC"
        /\ fw' = [fw EXCEPT ![b].prep = m.test, ![b].ready = TRUE,
                            ![b].stats["PLC"] = NoStats]
        /\ gvspi_send(b, Frame("PREPARE_CNF", "SUCCESS"))
     \/ /\ m.test.intf = "RF"
        /\ FALSE \in ConfigOk
        /\ fw' = [fw EXCEPT ![b].prep = m.test, ![b].ready = TRUE]
        /\ gvspi_send(b, Frame("PREPARE_CNF", "INVALID_TEST"))
     \/ /\ m.test.intf = "RF"
        /\ fw[b].cal = "RETRY"
        /\ fw' = [fw EXCEPT ![b] = Booting(@.cal, m.test)]
        /\ spi' = [spi EXCEPT ![b] = <<>>]
     \/ /\ m.test.intf = "RF"
        /\ fw[b].cal # "RETRY"
        /\ fw' = [fw EXCEPT ![b].prep = m.test, ![b].ready = TRUE]
        /\ gvspi_send(b, Frame("PREPARE_CNF",
                               IF fw[b].cal = "CALIBRATED" THEN "SUCCESS"
                                                           ELSE "CAL_FAILED"))

(* TOOL_CMD_START_TEST: the confirm goes out before the test runs; silent  *)
(* if nothing was prepared since the boot.                                 *)
StartCmd(b, m) ==
  LET t == m.test
      tx == [left |-> FrameCount, ex |-> m.ex]
      accepted == fw[b].ready /\ fw[b].prep = t
  IN  /\ m.cmd = "START"
      /\ \/ /\ ~fw[b].ready
            /\ UNCHANGED fwVars
         \/ /\ fw[b].ready
            /\ fw[b].prep # t
            /\ gvspi_send(b, Frame("START_CNF", "INVALID_TEST"))
            /\ UNCHANGED fw
         \/ /\ accepted
            /\ b = Transmitter(t)
            /\ t.intf = "PLC"
            /\ gvspi_send(b, Frame("START_CNF", "SUCCESS"))
            /\ fw' = [fw EXCEPT ![b].pc = "plc", ![b].plcTx = tx,
                                ![b].started = m.ex]
         \/ /\ accepted
            /\ b = Transmitter(t)
            /\ t.intf = "RF"
            /\ fw[b].timers < TimersMax
            /\ gvspi_send(b, Frame("START_CNF", "SUCCESS"))
            /\ fw' = [fw EXCEPT ![b].stats["RF"] = NoStats, ![b].rfTx = tx,
                                ![b].timers = @ + 1, ![b].started = m.ex]
         \/ /\ accepted
            /\ b = Receiver(t)
            /\ gvspi_send(b, Frame("START_CNF", "SUCCESS"))
            /\ fw' = [fw EXCEPT ![b].started = m.ex,
                                ![b].stats["RF"] = IF t.intf = "RF"
                                                     THEN NoStats ELSE @]

(* TOOL_CMD_STOP_TEST: STM_FreeTimer refuses a running timer, so an RF     *)
(* transmission goes on.                                                   *)
StopCmd(b, m) ==
  /\ m.cmd = "STOP"
  /\ gvspi_send(b, Frame("STOP_CNF", "SUCCESS"))
  /\ UNCHANGED fw

(* TOOL_CMD_GET_RESULT: silent if another interface was prepared.          *)
GetResultCmd(b, m) ==
  LET i == m.test.intf
  IN  /\ m.cmd = "GET_RESULT"
      /\ IF fw[b].prep.intf = i
           THEN gvspi_send(b, [Frame("GET_RESULT_CNF", "SUCCESS") EXCEPT
                                 !.intf = i, !.stats = fw[b].stats[i]])
           ELSE UNCHANGED spi
      /\ UNCHANGED fw

(* TOOL_CMD_DEV_SEARCH: prodTest_init(1), then while(spi_tx_flag).         *)
DevSearchCmd(b, m) ==
  /\ m.cmd = "DEV_SEARCH"
  /\ fw' = [fw EXCEPT ![b].pending = NoTest, ![b].pc = "search"]
  /\ gvspi_send(b, Frame("DEVICE_UP", "SUCCESS"))

SearchDone(b) ==
  /\ fw[b].pc = "search"
  /\ spi[b] = <<>>
  /\ fw' = [fw EXCEPT ![b].pc = "main"]
  /\ UNCHANGED spi

(* TOOL_CMD_DEVICE_FLASH_PARAM                                             *)
FlashParamCmd(b, m) ==
  /\ m.cmd = "FLASH_PARAM"
  /\ gvspi_send(b, Frame("FLASH_PARAM_CNF", "SUCCESS"))
  /\ UNCHANGED fw

prodTestExecCmd(b, m) ==
  /\ fw[b].pc = "main"
  /\ \/ PrepareCmd(b, m)
     \/ StartCmd(b, m)
     \/ StopCmd(b, m)
     \/ GetResultCmd(b, m)
     \/ DevSearchCmd(b, m)
     \/ FlashParamCmd(b, m)

-----------------------------------------------------------------------------
(* Transmission.  A frame of execution ex on interface i reaches the other *)
(* board or is lost; the receiver counts whatever it hears.                *)
Heard(f, b, i, ex, got) ==
  LET r == Other(b)
  IN  IF got /\ f[r].pc # "boot"
        THEN [f EXCEPT ![r].stats[i] = [n    |-> @.n + 1,
                                        from |-> @.from \cup {ex}]]
        ELSE f

(* One frame of HHT_SimulateTx.                                            *)
PlcFrame(b, got) ==
  /\ fw[b].pc = "plc"
  /\ fw[b].plcTx.left > 0
  /\ fw' = Heard([fw EXCEPT ![b].plcTx.left = @ - 1],
                 b, "PLC", fw[b].plcTx.ex, got)
  /\ UNCHANGED spi

(* prod_rf_test_timer_cb of a timer.  newest: it is prod_test_rf_timer,    *)
(* the one the callback restarts.  From another timer the restart finds it *)
(* running, which STM_StartTimer takes for success, and one timer is less. *)
RfFrame(b, got, newest) ==
  LET sent == [fw EXCEPT ![b].rfTx.left = IF @ > 0 THEN @ - 1 ELSE 0]
      last == sent[b].rfTx.left = 0
  IN  /\ fw[b].pc = "main"
      /\ fw[b].timers > 0
      /\ newest \/ fw[b].timers > 1
      /\ \/ /\ ~last
            /\ fw' = Heard([sent EXCEPT ![b].timers = IF newest THEN @ ELSE @ - 1],
                           b, "RF", fw[b].rfTx.ex, got)
            /\ UNCHANGED spi
         \/ /\ last
            /\ fw' = Heard([sent EXCEPT ![b].timers = @ - 1, ![b].pc = "rf"],
                           b, "RF", fw[b].rfTx.ex, got)
            /\ UNCHANGED spi

(* The last frame is out.                                                  *)
Sent(b) ==
  \/ fw[b].pc = "plc" /\ fw[b].plcTx.left = 0
  \/ fw[b].pc = "rf"

(* Mutant: TEST_DONE is offered without waiting for spi_tx_flag.           *)
TxDone_NoWait(b) ==
  /\ Sent(b)
  /\ fw' = [fw EXCEPT ![b].pc = "main"]
  /\ gvspi_send(b, Frame("TEST_DONE", "SUCCESS"))

(* while(spi_tx_flag), then TEST_DONE.                                     *)
TxDone(b) ==
  /\ Sent(b)
  /\ spi[b] = <<>>
  /\ fw' = [fw EXCEPT ![b].pc = "main"]
  /\ gvspi_send(b, Frame("TEST_DONE", "SUCCESS"))

Transmit(b) ==
  \/ \E got \in BOOLEAN : PlcFrame(b, got)
  \/ \E got, newest \in BOOLEAN : RfFrame(b, got, newest)
  \/ TxDone(b)
=============================================================================
