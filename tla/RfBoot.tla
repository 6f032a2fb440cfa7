------------------------------- MODULE RfBoot -------------------------------
(***************************************************************************)
(* Power-up, RF calibration and the persistent production profile of one   *)
(* board.  The board may lose power at any step.  Writing a flash sector   *)
(* is two steps (spiflash_eraseSector, then the byte loop), because a      *)
(* power cut between them leaves a sector with a bad signature or CRC.     *)
(*                                                                         *)
(* pc      where the firmware is:                                          *)
(*           off      no power                                             *)
(*           boot     main() is about to read the profile                  *)
(*           mac_init the calibration is about to start                    *)
(*           measure  between two readings of the calibration              *)
(*           init     prodTest_init(0)                                     *)
(*           main     main loop, waiting for a command                     *)
(*           write    a sector is erased and being programmed              *)
(*           reset    after GV701x_Chip_Reset(), in while(1)               *)
(*           dev_up, cnf_failed   about to send that frame                 *)
(* cont    where the firmware goes once the sector is programmed           *)
(* dco     prod_dco_cal_failed                                             *)
(* prof    gProdFlashProfile                                               *)
(* flash   PROD_CONFIG_SECTOR                                              *)
(* sent    the frame this step put on the SPI, or "none"                   *)
(* owed    history: a PREPARE was accepted and no frame was sent since     *)
(* start   history: the profile the current calibration started from       *)
(* bad     history: bad readings of the current calibration                *)
(***************************************************************************)
EXTENDS RfProfile

VARIABLES pc, cont, dco, prof, flash, sent, owed, start, bad

vars == <<pc, cont, dco, prof, flash, sent, owed, start, bad>>
hist == <<start, bad>>

Frame == {"DEVICE_UP", "CNF_SUCCESS", "CNF_FAILURE", "CNF_INVALID"}

PC == {"off", "boot", "mac_init", "measure", "init", "main", "write",
       "reset", "dev_up", "cnf_failed"}

Cont == {"mac_init", "init", "reset", "dev_up", "cnf_failed"}

TypeOK ==
  /\ pc \in PC
  /\ cont \in Cont
  /\ dco \in Attempts
  /\ prof \in Profile
  /\ flash \in Sector
  /\ sent \in Frame \cup {"none"}
  /\ owed \in BOOLEAN
  /\ start \in Profile
  /\ bad \in 0 .. (CalTryMax + 1)

(* A board that comes to the tester for the first time.                    *)
Init ==
  /\ pc = "off"
  /\ cont = "init"
  /\ dco = 0
  /\ prof = DefaultProfile
  /\ flash = Corrupt
  /\ sent = "none"
  /\ owed = FALSE
  /\ start = DefaultProfile
  /\ bad = 0

-----------------------------------------------------------------------------
(* Gv701x_FlashWriteProdProfile: the erase.  The caller says what RAM      *)
(* profile is being written and where it goes on afterwards.               *)
BeginWrite(p, next) ==
  /\ prof' = p
  /\ flash' = Corrupt
  /\ pc' = "write"
  /\ cont' = next

(* ... and the end of the byte loop.                                       *)
EndWrite ==
  /\ pc = "write"
  /\ flash' = prof
  /\ pc' = cont
  /\ sent' = "none"
  /\ UNCHANGED <<cont, dco, prof, owed, hist>>

(* A frame handed to gvspi_send; any frame tells the host where it stands. *)
Send(f) ==
  /\ sent' = f
  /\ owed' = FALSE

Quiet ==
  /\ sent' = "none"
  /\ UNCHANGED owed

-----------------------------------------------------------------------------
(* Boot *)

PowerOn ==
  /\ pc = "off"
  /\ pc' = "boot"
  /\ Quiet
  /\ UNCHANGED <<cont, dco, prof, flash, hist>>

(* RAM is lost; a sector that was being programmed stays Corrupt.          *)
PowerCut ==
  /\ pc # "off"
  /\ pc' = "off"
  /\ prof' = DefaultProfile
  /\ Quiet
  /\ UNCHANGED <<cont, dco, flash, hist>>

(* main(): read the sector; wrong signature or CRC means a default profile *)
(* that is written back at once.                                           *)
LoadProfile ==
  /\ pc = "boot"
  /\ Quiet
  /\ \/ /\ flash = Corrupt
        /\ BeginWrite(DefaultProfile, "mac_init")
     \/ /\ flash # Corrupt
        /\ prof' = flash
        /\ pc' = "mac_init"
        /\ UNCHANGED <<cont, flash>>
  /\ UNCHANGED <<dco, hist>>

(* The start of gv701x_zb_lo_leakage_calibration_start.  A calibrated      *)
(* board restores its registers and writes nothing.                        *)
CalStart ==
  /\ pc = "mac_init"
  /\ Quiet
  /\ start' = prof
  /\ bad' = 0
  /\ \/ /\ prof.cal = "CALIBRATED"
        /\ pc' = "init"
        /\ UNCHANGED dco
     \/ /\ prof.cal # "CALIBRATED"
        /\ dco' = DcoStart(prof)
        /\ pc' = "measure"
  /\ UNCHANGED <<cont, prof, flash>>

(* Mutant: the measured registers are not written to the flash.            *)
MeasureGood_NoWrite ==
  /\ pc = "measure"
  /\ Quiet
  /\ prof' = AfterGood(prof)
  /\ pc' = "init"
  /\ UNCHANGED <<cont, flash, dco, hist>>

(* Mutant: a success resets the attempt counter.                           *)
MeasureGood_ResetsCount ==
  /\ pc = "measure"
  /\ Quiet
  /\ BeginWrite([AfterGood(prof) EXCEPT !.att = 0], "init")
  /\ UNCHANGED <<dco, hist>>

(* A reading that is good enough: registers stored, status CALIBRATED,     *)
(* the attempt counter keeps what the bad readings left in it.             *)
MeasureGood ==
  /\ pc = "measure"
  /\ Quiet
  /\ BeginWrite(AfterGood(prof), "init")
  /\ UNCHANGED <<dco, hist>>

(* A bad reading: the u8 counter goes up and is copied to the profile;     *)
(* below the maximum the reading is repeated, otherwise the run is over.   *)
MeasureBad ==
  LET d == (dco + 1) % CalMod
      p == [prof EXCEPT !.att = d]
  IN  /\ pc = "measure"
      /\ Quiet
      /\ dco' = d
      /\ bad' = bad + 1
      /\ \/ /\ d < CalTryMax
            /\ prof' = p
            /\ UNCHANGED <<pc, cont, flash>>
         \/ /\ d >= CalTryMax
            /\ BeginWrite(AfterBad(p), "init")
      /\ UNCHANGED start

(* Mutant: the failed confirm leaves testActionPreparePending set.         *)
ProdTestInit_KeepsPending(ok) ==
  /\ pc = "init"
  /\ \/ /\ ~prof.pending
        /\ Send("DEVICE_UP")
     \/ /\ prof.pending
        /\ prof.cal = "CALIBRATED"
        /\ Send(IF ok THEN "CNF_SUCCESS" ELSE "CNF_INVALID")
     \/ /\ prof.pending
        /\ GivenUp(prof)
        /\ Send("CNF_FAILURE")
  /\ pc' = "main"
  /\ UNCHANGED <<cont, prof, flash, dco, hist>>

(* Mutant: instead of the failed confirm the chip is reset for another     *)
(* try, as the disabled code of the calibration would do.                  *)
ProdTestInit_ResetAgain(ok) ==
  /\ pc = "init"
  /\ \/ /\ ~prof.pending
        /\ Send("DEVICE_UP")
        /\ pc' = "main"
     \/ /\ prof.pending
        /\ prof.cal = "CALIBRATED"
        /\ Send(IF ok THEN "CNF_SUCCESS" ELSE "CNF_INVALID")
        /\ pc' = "main"
     \/ /\ prof.pending
        /\ prof.cal # "CALIBRATED"
        /\ Quiet
        /\ pc' = "reset"
  /\ UNCHANGED <<cont, prof, flash, dco, hist>>

(* prodTest_init(0): announce the board, or answer the PREPARE that was    *)
(* pending when the chip was reset.  ok: config_rf_test_parameters.        *)
ProdTestInit(ok) ==
  /\ pc = "init"
  /\ \/ /\ ~prof.pending
        /\ Send("DEVICE_UP")
        /\ pc' = "main"
        /\ UNCHANGED <<cont, prof, flash>>
     \/ /\ prof.pending
        /\ prof.cal = "CALIBRATED"
        /\ Send(IF ok THEN "CNF_SUCCESS" ELSE "CNF_INVALID")
        /\ pc' = "main"
        /\ UNCHANGED <<cont, prof, flash>>
     \/ /\ prof.pending
        /\ GivenUp(prof)
        /\ Quiet
        /\ BeginWrite([prof EXCEPT !.pending = FALSE], "cnf_failed")
     \/ /\ prof.pending
        /\ prof.cal # "CALIBRATED"
        /\ ~GivenUp(prof)
        /\ Quiet
        /\ pc' = "main"
        /\ UNCHANGED <<cont, prof, flash>>
  /\ UNCHANGED <<dco, hist>>

SendCnfFailed ==
  /\ pc = "cnf_failed"
  /\ Send("CNF_FAILURE")
  /\ pc' = "main"
  /\ UNCHANGED <<cont, dco, prof, flash, hist>>

-----------------------------------------------------------------------------
(* Commands *)

(* PREPARE_DUT / PREPARE_REF for the RF interface.                         *)
PrepareRf(t, ok) ==
  /\ pc = "main"
  /\ \/ /\ ~ok
        /\ Send("CNF_INVALID")
        /\ UNCHANGED <<pc, cont, prof, flash>>
     \/ /\ ok
        /\ RetryAtBoot(prof)
        /\ sent' = "none"
        /\ owed' = TRUE
        /\ BeginWrite(SavedForRetry(prof, t), "reset")
     \/ /\ ok
        /\ GivenUp(prof)
        /\ Send("CNF_FAILURE")
        /\ UNCHANGED <<pc, cont, prof, flash>>
     \/ /\ ok
        /\ ~RetryAtBoot(prof)
        /\ ~GivenUp(prof)
        /\ IF prof.cal = "CALIBRATED"
             THEN Send("CNF_SUCCESS")
             ELSE /\ sent' = "none"
                  /\ owed' = TRUE
        /\ UNCHANGED <<pc, cont, prof, flash>>
  /\ UNCHANGED <<dco, hist>>

(* GV701x_Chip_Reset pulls the reset pin through a GPIO.                   *)
ChipReset ==
  /\ pc = "reset"
  /\ pc' = "boot"
  /\ Quiet
  /\ UNCHANGED <<cont, dco, prof, flash, hist>>

(* Mutant: a device search resets the whole profile.                       *)
DevSearch_Defaults ==
  /\ pc = "main"
  /\ Quiet
  /\ BeginWrite(DefaultProfile, "dev_up")
  /\ UNCHANGED <<dco, hist>>

(* TOOL_CMD_DEV_SEARCH: prodTest_init(1) drops a pending PREPARE, writes   *)
(* the profile and announces the board.                                    *)
DevSearch ==
  /\ pc = "main"
  /\ Quiet
  /\ BeginWrite([prof EXCEPT !.pending = FALSE], "dev_up")
  /\ UNCHANGED <<dco, hist>>

SendDevUp ==
  /\ pc = "dev_up"
  /\ Send("DEVICE_UP")
  /\ pc' = "main"
  /\ UNCHANGED <<cont, dco, prof, flash, hist>>

-----------------------------------------------------------------------------
Step ==
  \/ EndWrite
  \/ LoadProfile
  \/ CalStart
  \/ MeasureGood
  \/ MeasureBad
  \/ \E ok \in BOOLEAN : ProdTestInit(ok)
  \/ SendCnfFailed
  \/ ChipReset
  \/ SendDevUp

Next ==
  \/ Step
  \/ PowerOn
  \/ PowerCut
  \/ DevSearch
  \/ \E t \in RfTest, ok \in BOOLEAN : PrepareRf(t, ok)

(* The firmware keeps executing while it has power, the operator switches  *)
(* a board on again, and a run of the calibration is bounded by the        *)
(* counter; power cuts and commands are under no obligation.               *)
Spec == Init /\ [][Next]_vars /\ WF_vars(Step) /\ WF_vars(PowerOn)
-----------------------------------------------------------------------------
(* Properties *)

(* PREPARE_DUT_CNF / PREPARE_REF_CNF is never forgotten: when the firmware *)
(* is back in its main loop, every PREPARE it accepted has been followed   *)
(* by a frame to the host, although PREPARE may write the flash, reset the *)
(* chip and leave the answer to prodTest_init of the next boot.            *)
PrepareAnswered == pc = "main" => ~owed

(* A board in its main loop has settled its calibration: it is calibrated  *)
(* or has given up, and only a calibrated board still carries              *)
(* testActionPreparePending.  The silent ends of the PREPARE handlers and  *)
(* of prodTest_init are the other combinations.                            *)
SettledInMain ==
  pc = "main" =>
    /\ prof.cal # "NOT_CALIBRATED"
    /\ prof.pending => prof.cal = "CALIBRATED"

(* Whenever the firmware waits for a command or for the chip reset, the    *)
(* sector holds exactly the RAM profile: nothing that a power cut now      *)
(* would take back has been announced to the host.                         *)
FlashIsCurrent == pc \in {"main", "reset"} => flash = prof

(* A calibrated board never runs with the register values 0xff that        *)
(* PREPARE stores before it resets the chip, neither now nor after its     *)
(* next boot.                                                              *)
CalibratedHasRegs ==
  /\ prof.cal = "CALIBRATED" => prof.regs = "measured"
  /\ flash # Corrupt /\ flash.cal = "CALIBRATED" => flash.regs = "measured"

(* The reading-by-reading loop of gv701x_zb_lo_leakage_calibration_start   *)
(* and the status update of its caller leave one of the profiles of the    *)
(* closed form CalOutcome, counter wrap included.                          *)
CalibrationMatchesClosedForm ==
  pc = "write" /\ cont = "init" => prof \in CalOutcome(start)

(* goto zb_txlo_cal is taken a bounded number of times.                    *)
ReadingsBounded ==
  pc = "measure" => bad < ReadingsMax(DcoStart(start))

(* Once a board is calibrated it stays calibrated as long as it has power: *)
(* no command and no chip reset takes the calibration back.                *)
CalibrationKept ==
  [][pc' # "off" /\ pc \notin {"off", "boot"} /\ prof.cal = "CALIBRATED"
       => prof'.cal = "CALIBRATED" /\ prof'.regs = "measured"]_vars

(* Every accepted PREPARE is answered, on a board whose power supply does  *)
(* not fail for ever.                                                      *)
PrepareIsAnswered == []<>(pc = "off") \/ (owed ~> ~owed)

=============================================================================
