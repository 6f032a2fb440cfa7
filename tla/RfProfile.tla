----------------------------- MODULE RfProfile -----------------------------
(***************************************************************************)
(* The production profile of one board (sProdConfigProfile), as it lives   *)
(* in RAM (gProdFlashProfile) and in the PROD_CONFIG_SECTOR of the serial  *)
(* flash, and the operators the firmware applies to it: the default        *)
(* profile written over a corrupt sector, what a PREPARE command saves     *)
(* before the chip reset, and what one run of the LO-leakage calibration   *)
(* can make of it.                                                         *)
(*                                                                         *)
(* The attempt counter is a u8.  CalMod is its modulus (256 in the code),  *)
(* CalTryMax is TXLO_CAL_TRY_MAX (20 in the code).                         *)
(***************************************************************************)
EXTENDS Integers

CONSTANTS CalTryMax,    \* TXLO_CAL_TRY_MAX
          CalMod        \* modulus of the u8 attempt counter

(* What the proofs use of the two numbers; 20 and 256 satisfy it.  Both    *)
(* are even: the counter of a board that failed during a pending PREPARE   *)
(* is odd from then on, so it never wraps to 0.                            *)
ASSUME CalAssumption ==
  /\ CalTryMax \in Nat
  /\ CalMod \in Nat
  /\ CalTryMax > 0
  /\ CalTryMax % 2 = 0
  /\ CalMod % 2 = 0
  /\ CalTryMax + 1 < CalMod

RfTest == {"RF_TX", "RF_RX"}

CalStatus == {"NOT_CALIBRATED", "FAILED", "CALIBRATED"}

Attempts == 0 .. (CalMod - 1)

(* rfCalStatus, rfCalAttemptCount, testActionPreparePending, testId and    *)
(* the pair reg23/reg24 (with autoCalibrated, which is always written      *)
(* together with them).                                                    *)
Profile == [cal     : CalStatus,
            att     : Attempts,
            pending : BOOLEAN,
            test    : RfTest \cup {"none"},
            regs    : {"default", "measured"}]

DefaultProfile == [cal     |-> "NOT_CALIBRATED",
                   att     |-> 0,
                   pending |-> FALSE,
                   test    |-> "none",
                   regs    |-> "default"]

(* A sector whose signature or CRC is wrong: erased, half written, or      *)
(* never written.  Its contents do not matter.                             *)
Corrupt == [DefaultProfile EXCEPT !.cal = "CORRUPT"]

Sector == Profile \cup {Corrupt}

(* Mutant: PREPARE does not look at the calibration status.                *)
RetryAtBoot_AnyStatus(p) == p.att < CalTryMax

(* The four copies of the same test in the PREPARE handlers: the profile   *)
(* is saved and the chip reset, so that the boot tries to calibrate again. *)
RetryAtBoot(p) ==
  /\ p.cal \in {"NOT_CALIBRATED", "FAILED"}
  /\ p.att < CalTryMax

(* Mutant: the boundary of the attempt counter is off by one.              *)
GivenUp_OffByOne(p) ==
  /\ p.cal = "FAILED"
  /\ p.att > CalTryMax

GivenUp(p) ==
  /\ p.cal = "FAILED"
  /\ p.att >= CalTryMax

(* What PREPARE stores in the profile before the chip reset.               *)
SavedForRetry(p, t) ==
  [p EXCEPT !.pending = TRUE, !.test = t, !.regs = "default"]

-----------------------------------------------------------------------------
(* One run of the calibration.                                             *)

(* The counter a run starts from: prod_dco_cal_failed.                     *)
DcoStart(p) == IF p.cal = "NOT_CALIBRATED" THEN CalMod - 1 ELSE p.att

(* A good reading ends the run with the measured register values.          *)
AfterGood(p) == [p EXCEPT !.cal = "CALIBRATED", !.regs = "measured"]

(* Mutant: the caller's increment does not wrap.                           *)
AfterBad_NoWrap(p) ==
  IF p.cal = "NOT_CALIBRATED"
    THEN [p EXCEPT !.cal = "FAILED"]
    ELSE [p EXCEPT !.att = @ + 1]

(* The bad reading that ends the run: a board that was already FAILED has  *)
(* its counter incremented once more by the caller.                        *)
AfterBad(p) ==
  IF p.cal = "NOT_CALIBRATED"
    THEN [p EXCEPT !.cal = "FAILED"]
    ELSE [p EXCEPT !.att = (@ + 1) % CalMod]

(* Closed form of the run, used where the readings are not modelled one by *)
(* one: how many bad readings end it, and the profiles it can leave.       *)
ReadingsMax(d) ==
  IF d = CalMod - 1 THEN CalTryMax + 1
  ELSE IF d < CalTryMax THEN CalTryMax - d
  ELSE 1

AfterReadings(p, k) ==
  IF k = 0 THEN p ELSE [p EXCEPT !.att = (DcoStart(p) + k) % CalMod]

CalOutcome(p) ==
  LET n == ReadingsMax(DcoStart(p))
  IN  IF p.cal = "CALIBRATED" THEN {p}
      ELSE {AfterGood(AfterReadings(p, k)) : k \in 0 .. (n - 1)}
             \cup {AfterBad(AfterReadings(p, n))}
=============================================================================
