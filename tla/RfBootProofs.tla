---------------------------- MODULE RfBootProofs ----------------------------
(***************************************************************************)
(* Proofs about RfBoot for every CalTryMax and CalMod that satisfy         *)
(* CalAssumption.                                                          *)
(*                                                                         *)
(* PrepareAnswered is not inductive.  The firmware stays silent when a     *)
(* PREPARE is pending on a board that is FAILED with fewer than CalTryMax  *)
(* attempts after its calibration run, and it is the parity of the counter *)
(* that excludes this: a PREPARE is left pending only below CalTryMax, the *)
(* first run after it ends at CalTryMax + 1, and every later failing boot  *)
(* adds two, so the counter of a pending FAILED board is odd, reaches      *)
(* CalMod - 1 and never wraps to an even value below CalTryMax.            *)
(***************************************************************************)
EXTENDS RfBoot, TLAPS

(* At q, or writing the flash on the way to q.                             *)
Bound(q) == pc = q \/ (pc = "write" /\ cont = q)

(* A pending PREPARE survives a power cut, so this holds of RAM and flash. *)
PendingParity(p) ==
  p.pending => /\ p.cal # "NOT_CALIBRATED"
               /\ p.cal = "FAILED" => p.att < CalTryMax \/ p.att % 2 = 1

RegsKept(p) == p.cal = "CALIBRATED" => p.regs = "measured"

ProfileSound ==
  /\ PendingParity(prof) /\ RegsKept(prof)
  /\ flash # Corrupt => PendingParity(flash) /\ RegsKept(flash)

FlashSynced ==
  pc \in {"mac_init", "init", "main", "reset", "dev_up", "cnf_failed"}
    => flash = prof

(* The counter, the profile and the number of readings, in the middle of a *)
(* calibration run.                                                        *)
Measuring ==
  pc = "measure" =>
    /\ start.cal # "CALIBRATED"
    /\ PendingParity(start)
    /\ bad = 0 => dco = DcoStart(start) /\ prof = start
    /\ bad > 0 => /\ dco < CalTryMax
                  /\ prof = [start EXCEPT !.att = dco]
                  /\ IF DcoStart(start) = CalMod - 1
                       THEN bad = dco + 1
                       ELSE bad = dco - DcoStart(start)

Calibrated ==
  Bound("init") => /\ prof.cal # "NOT_CALIBRATED"
                   /\ prof.pending /\ prof.cal = "FAILED"
                        => prof.att >= CalTryMax

Settled ==
  /\ pc = "main" \/ Bound("dev_up") \/ Bound("cnf_failed")
       => /\ prof.cal # "NOT_CALIBRATED"
          /\ prof.pending => prof.cal = "CALIBRATED"
  /\ pc = "main" => ~owed

IInv ==
  /\ TypeOK
  /\ ProfileSound
  /\ FlashSynced
  /\ Measuring
  /\ Calibrated
  /\ Settled
  /\ CalibrationMatchesClosedForm

-----------------------------------------------------------------------------
(* Lemmas about the operators of RfProfile *)

(* The u8 counter, without the modulus.                                    *)
LEMMA ByteMod ==
  \A x \in 0 .. (2 * CalMod - 1) :
     /\ x % CalMod = IF x < CalMod THEN x ELSE x - CalMod
     /\ x % CalMod \in Attempts
<1> TAKE x \in 0 .. (2 * CalMod - 1)
<1>1. CASE x < CalMod
  BY <1>1, CalAssumption, SMT DEF Attempts
<1>2. CASE x >= CalMod
  <2>1. /\ x - CalMod \in 0 .. (CalMod - 1)
        /\ x = CalMod * 1 + (x - CalMod)
    BY <1>2, CalAssumption, SMT
  <2>2. x % CalMod = x - CalMod
    BY <2>1, CalAssumption, SMT
  <2> QED BY <1>2, <2>1, <2>2, CalAssumption DEF Attempts
<1> QED BY <1>1, <1>2, CalAssumption

(* The increment of the u8 counter.                                        *)
LEMMA ByteIncrement ==
  ASSUME NEW x \in Attempts
  PROVE  /\ (x + 1) % CalMod = IF x = CalMod - 1 THEN 0 ELSE x + 1
         /\ (x + 1) % CalMod \in Attempts
<1>1. x + 1 \in 0 .. (2 * CalMod - 1)
  BY CalAssumption DEF Attempts
<1>2. /\ (x + 1) % CalMod = IF x + 1 < CalMod THEN x + 1 ELSE x + 1 - CalMod
      /\ (x + 1) % CalMod \in Attempts
  BY <1>1, ByteMod, CalAssumption DEF Attempts
<1> QED BY <1>2, CalAssumption DEF Attempts

(* The default profile, a sector read back and a profile saved by PREPARE  *)
(* are profiles.                                                           *)
LEMMA ProfileClosed ==
  /\ DefaultProfile \in Profile
  /\ \A p \in Profile : p # Corrupt
  /\ \A p \in Profile, t \in RfTest : SavedForRetry(p, t) \in Profile
  /\ \A p \in Profile, b \in BOOLEAN : [p EXCEPT !.pending = b] \in Profile
  /\ \A p \in Profile, a \in Attempts : [p EXCEPT !.att = a] \in Profile
  /\ \A p \in Profile : AfterGood(p) \in Profile
  /\ \A p \in Profile : AfterBad(p) \in Profile
<1>0. 0 \in Attempts
  BY CalAssumption DEF Attempts
<1>1. DefaultProfile \in Profile
  BY <1>0 DEF DefaultProfile, Profile, CalStatus
<1>2. \A p \in Profile : p # Corrupt
  BY DEF Profile, Corrupt, DefaultProfile, CalStatus
<1>3. \A p \in Profile, t \in RfTest : SavedForRetry(p, t) \in Profile
  BY DEF Profile, SavedForRetry
<1>4. \A p \in Profile, b \in BOOLEAN : [p EXCEPT !.pending = b] \in Profile
  BY DEF Profile
<1>5. \A p \in Profile, a \in Attempts : [p EXCEPT !.att = a] \in Profile
  BY DEF Profile
<1>6. \A p \in Profile : AfterGood(p) \in Profile
  BY DEF Profile, AfterGood, CalStatus
<1>7. \A p \in Profile : AfterBad(p) \in Profile
  <2> TAKE p \in Profile
  <2>1. (p.att + 1) % CalMod \in Attempts
    BY ByteIncrement DEF Profile
  <2> QED BY <2>1 DEF Profile, AfterBad, CalStatus
<1> QED BY <1>1, <1>2, <1>3, <1>4, <1>5, <1>6, <1>7

(* In the middle of a run the profile is the closed form of the readings   *)
(* so far, and the run is not over.                                        *)
LEMMA MidRun ==
  ASSUME TypeOK, Measuring, pc = "measure"
  PROVE  /\ dco = (DcoStart(start) + bad) % CalMod
         /\ prof = AfterReadings(start, bad)
         /\ bad < ReadingsMax(DcoStart(start))
<1> DEFINE D == DcoStart(start)
<1>0. D \in Attempts /\ bad \in 0 .. (CalTryMax + 1) /\ dco \in Attempts
  BY CalAssumption DEF TypeOK, DcoStart, Profile, Attempts
<1>1. CASE bad = 0
  <2>1. D \in 0 .. (2 * CalMod - 1) /\ D < CalMod
    BY <1>0, CalAssumption DEF Attempts
  <2>2. D % CalMod = D
    BY <2>1, ByteMod
  <2>3. dco = D /\ prof = start
    BY <1>1 DEF Measuring
  <2>4. D + bad = D
    BY <1>0, <1>1 DEF Attempts
  <2>5. 0 < ReadingsMax(D)
    BY <1>0, CalAssumption DEF ReadingsMax, Attempts
  <2> QED BY <1>1, <2>2, <2>3, <2>4, <2>5 DEF AfterReadings
<1>2. CASE bad # 0
  <2>1. /\ dco < CalTryMax
        /\ prof = [start EXCEPT !.att = dco]
        /\ IF D = CalMod - 1 THEN bad = dco + 1 ELSE bad = dco - D
    BY <1>0, <1>2 DEF Measuring
  <2>2. D + bad \in 0 .. (2 * CalMod - 1)
    BY <1>0, CalAssumption DEF Attempts
  <2>3. (D + bad) % CalMod = IF D + bad < CalMod THEN D + bad
                                                 ELSE D + bad - CalMod
    BY <2>2, <1>0, ByteMod, CalAssumption DEF Attempts
  <2>4. (D + bad) % CalMod = dco
    BY <1>0, <2>1, <2>3, CalAssumption DEF Attempts
  <2>5. bad < ReadingsMax(D)
    BY <1>0, <1>2, <2>1, CalAssumption DEF ReadingsMax, Attempts
  <2> QED BY <1>2, <2>1, <2>4, <2>5 DEF AfterReadings
<1> QED BY <1>1, <1>2

(* A bad reading at or above CalTryMax is the last one of the closed form. *)
LEMMA LastReading ==
  ASSUME TypeOK, Measuring, pc = "measure",
         (dco + 1) % CalMod >= CalTryMax
  PROVE  /\ bad + 1 = ReadingsMax(DcoStart(start))
         /\ [prof EXCEPT !.att = (dco + 1) % CalMod]
              = AfterReadings(start, bad + 1)
<1> DEFINE D == DcoStart(start)
           d == (dco + 1) % CalMod
<1>0. D \in Attempts /\ bad \in 0 .. (CalTryMax + 1) /\ dco \in Attempts
  BY CalAssumption DEF TypeOK, DcoStart, Profile, Attempts
<1>1. d = (IF dco = CalMod - 1 THEN 0 ELSE dco + 1) /\ d \in Attempts
  BY <1>0, ByteIncrement
<1>2. dco + 1 = d /\ dco < CalMod - 1
  BY <1>0, <1>1, CalAssumption DEF Attempts
<1>3. /\ bad = 0 => dco = D /\ prof = start
      /\ bad > 0 => /\ dco < CalTryMax
                    /\ prof = [start EXCEPT !.att = dco]
                    /\ IF D = CalMod - 1 THEN bad = dco + 1 ELSE bad = dco - D
  BY DEF Measuring
<1>4. bad + 1 = ReadingsMax(D)
  BY <1>0, <1>2, <1>3, CalAssumption DEF ReadingsMax, Attempts
<1>5. D + (bad + 1) \in 0 .. (2 * CalMod - 1)
  BY <1>0, CalAssumption DEF Attempts
<1>6. (D + (bad + 1)) % CalMod = IF D + (bad + 1) < CalMod
                                   THEN D + (bad + 1)
                                   ELSE D + (bad + 1) - CalMod
  <2>1. PICK y \in 0 .. (2 * CalMod - 1) : y = D + (bad + 1)
    BY <1>5
  <2>2. y % CalMod = IF y < CalMod THEN y ELSE y - CalMod
    BY <2>1, ByteMod
  <2> QED BY <2>1, <2>2, <1>0, CalAssumption DEF Attempts
<1>7. (D + (bad + 1)) % CalMod = d
  BY <1>0, <1>2, <1>3, <1>6, CalAssumption DEF Attempts
<1>8. [prof EXCEPT !.att = d] = [start EXCEPT !.att = d]
  BY <1>0, <1>3 DEF TypeOK, Profile
<1>9. bad + 1 # 0
  BY <1>0
<1> QED BY <1>4, <1>7, <1>8, <1>9 DEF AfterReadings

-----------------------------------------------------------------------------
(* The inductive invariant *)

(* Init establishes the inductive invariant.                               *)
LEMMA InitInv == Init => IInv
<1> SUFFICES ASSUME Init PROVE IInv
  OBVIOUS
<1> USE DEF Init
<1>1. TypeOK
  <2>1. DefaultProfile \in Profile
    BY ProfileClosed
  <2>2. dco \in Attempts /\ bad \in 0 .. (CalTryMax + 1)
    BY CalAssumption DEF Attempts
  <2>3. prof \in Profile /\ start \in Profile /\ flash \in Sector
    BY <2>1 DEF Sector
  <2> QED BY <2>2, <2>3 DEF TypeOK, PC, Cont, Frame
<1>2. ProfileSound
  BY DEF ProfileSound, PendingParity, RegsKept, DefaultProfile
<1>3. FlashSynced /\ Measuring /\ Calibrated /\ Settled
  BY DEF FlashSynced, Measuring, Calibrated, Settled, Bound
<1>4. CalibrationMatchesClosedForm
  BY DEF CalibrationMatchesClosedForm
<1> QED BY <1>1, <1>2, <1>3, <1>4 DEF IInv

(* Every action preserves the inductive invariant; one lemma per action,   *)
(* one step per conjunct.                                                  *)
(* The end of a flash write.                                               *)
LEMMA EndWriteInv ==
  ASSUME IInv, EndWrite
  PROVE  IInv'
<1> USE DEF IInv, EndWrite, Quiet, Send, BeginWrite, hist
<1>1. TypeOK'
  BY ProfileClosed, CalAssumption DEF TypeOK, PC, Cont, Sector, Frame
<1>2. ProfileSound'
  BY ProfileClosed DEF TypeOK, ProfileSound, PendingParity, RegsKept,
     DefaultProfile, Profile, Sector
<1>3. FlashSynced'
  BY DEF TypeOK, FlashSynced, Cont
<1>4. Measuring'
  BY DEF Measuring, TypeOK, Cont
<1>5. Calibrated'
  BY DEF TypeOK, Calibrated, Bound, Cont
<1>6. Settled'
  BY DEF TypeOK, Settled, Bound, Cont
<1>7. CalibrationMatchesClosedForm'
  BY DEF CalibrationMatchesClosedForm, TypeOK, Cont
<1> QED BY <1>1, <1>2, <1>3, <1>4, <1>5, <1>6, <1>7

(* Power-on.                                                               *)
LEMMA PowerOnInv ==
  ASSUME IInv, PowerOn
  PROVE  IInv'
<1> USE DEF IInv, PowerOn, Quiet, Send, BeginWrite, hist
<1>1. TypeOK'
  BY ProfileClosed, CalAssumption DEF TypeOK, PC, Cont, Sector, Frame
<1>2. ProfileSound'
  BY ProfileClosed DEF TypeOK, ProfileSound, PendingParity, RegsKept,
     DefaultProfile, Profile, Sector
<1>3. FlashSynced'
  BY DEF TypeOK, FlashSynced, Cont
<1>4. Measuring'
  BY DEF Measuring
<1>5. Calibrated'
  BY DEF TypeOK, Calibrated, Bound, Cont
<1>6. Settled'
  BY DEF TypeOK, Settled, Bound, Cont
<1>7. CalibrationMatchesClosedForm'
  BY DEF CalibrationMatchesClosedForm, TypeOK, Cont
<1> QED BY <1>1, <1>2, <1>3, <1>4, <1>5, <1>6, <1>7

(* A power cut in any state.                                               *)
LEMMA PowerCutInv ==
  ASSUME IInv, PowerCut
  PROVE  IInv'
<1> USE DEF IInv, PowerCut, Quiet, Send, BeginWrite, hist
<1>1. TypeOK'
  BY ProfileClosed, CalAssumption DEF TypeOK, PC, Cont, Sector, Frame
<1>2. ProfileSound'
  BY ProfileClosed DEF TypeOK, ProfileSound, PendingParity, RegsKept,
     DefaultProfile, Profile, Sector
<1>3. FlashSynced'
  BY DEF TypeOK, FlashSynced, Cont
<1>4. Measuring'
  BY DEF Measuring
<1>5. Calibrated'
  BY DEF TypeOK, Calibrated, Bound, Cont
<1>6. Settled'
  BY DEF TypeOK, Settled, Bound, Cont
<1>7. CalibrationMatchesClosedForm'
  BY DEF CalibrationMatchesClosedForm, TypeOK, Cont
<1> QED BY <1>1, <1>2, <1>3, <1>4, <1>5, <1>6, <1>7

(* Reading the profile at boot.                                            *)
LEMMA LoadProfileInv ==
  ASSUME IInv, LoadProfile
  PROVE  IInv'
<1> USE DEF IInv, LoadProfile, Quiet, Send, BeginWrite, hist
<1>1. TypeOK'
  BY ProfileClosed, CalAssumption DEF TypeOK, PC, Cont, Sector, Frame
<1>2. ProfileSound'
  BY ProfileClosed DEF TypeOK, ProfileSound, PendingParity, RegsKept,
     DefaultProfile, Profile, Sector
<1>3. FlashSynced'
  BY DEF TypeOK, FlashSynced, Cont
<1>4. Measuring'
  BY DEF Measuring
<1>5. Calibrated'
  BY DEF TypeOK, Calibrated, Bound, Cont
<1>6. Settled'
  BY DEF TypeOK, Settled, Bound, Cont
<1>7. CalibrationMatchesClosedForm'
  BY DEF CalibrationMatchesClosedForm, TypeOK, Cont
<1> QED BY <1>1, <1>2, <1>3, <1>4, <1>5, <1>6, <1>7

(* The start of a calibration run.                                         *)
LEMMA CalStartInv ==
  ASSUME IInv, CalStart
  PROVE  IInv'
<1> USE DEF IInv, CalStart, Quiet, Send, BeginWrite, hist
<1>1. TypeOK'
  <2>1. DcoStart(prof) \in Attempts
    BY CalAssumption DEF TypeOK, DcoStart, Profile, Attempts
  <2> QED BY <2>1, CalAssumption DEF TypeOK, PC
<1>2. ProfileSound'
  BY ProfileClosed DEF TypeOK, ProfileSound, PendingParity, RegsKept,
     DefaultProfile, Profile, Sector
<1>3. FlashSynced'
  BY DEF TypeOK, FlashSynced, Cont
<1>4. Measuring'
  BY DEF Measuring, ProfileSound, PendingParity
<1>5. Calibrated'
  BY DEF TypeOK, Calibrated, Bound, Cont
<1>6. Settled'
  BY DEF TypeOK, Settled, Bound, Cont
<1>7. CalibrationMatchesClosedForm'
  BY DEF CalibrationMatchesClosedForm, TypeOK, Cont
<1> QED BY <1>1, <1>2, <1>3, <1>4, <1>5, <1>6, <1>7

(* A good reading; the profile written is one of the closed form.          *)
LEMMA MeasureGoodInv ==
  ASSUME IInv, MeasureGood
  PROVE  IInv'
<1> USE DEF IInv, MeasureGood, Quiet, Send, BeginWrite, hist
<1>1. TypeOK'
  BY ProfileClosed, CalAssumption DEF TypeOK, PC, Cont, Sector, Frame
<1>2. ProfileSound'
  BY ProfileClosed DEF TypeOK, ProfileSound, PendingParity, RegsKept,
     AfterGood, Profile, Sector
<1>3. FlashSynced'
  BY DEF TypeOK, FlashSynced, Cont
<1>4. Measuring'
  BY DEF Measuring
<1>5. Calibrated'
  BY DEF TypeOK, Calibrated, Bound, AfterGood, Profile
<1>6. Settled'
  BY DEF TypeOK, Settled, Bound, Cont
<1>7. CalibrationMatchesClosedForm'
  <2>1. /\ prof = AfterReadings(start, bad)
        /\ bad < ReadingsMax(DcoStart(start))
    BY MidRun
  <2>2. start.cal # "CALIBRATED"
    BY DEF Measuring
  <2>3. bad \in 0 .. (ReadingsMax(DcoStart(start)) - 1)
    BY <2>1, CalAssumption
    DEF TypeOK, ReadingsMax, DcoStart, Profile, Attempts
  <2>4. AfterGood(prof) \in CalOutcome(start)
    BY <2>1, <2>2, <2>3 DEF CalOutcome
  <2> QED BY <2>4 DEF CalibrationMatchesClosedForm
<1> QED BY <1>1, <1>2, <1>3, <1>4, <1>5, <1>6, <1>7

(* The failed confirm after a given-up PREPARE.                            *)
LEMMA SendCnfFailedInv ==
  ASSUME IInv, SendCnfFailed
  PROVE  IInv'
<1> USE DEF IInv, SendCnfFailed, Quiet, Send, BeginWrite, hist
<1>1. TypeOK'
  BY ProfileClosed, CalAssumption DEF TypeOK, PC, Cont, Sector, Frame
<1>2. ProfileSound'
  BY ProfileClosed DEF TypeOK, ProfileSound, PendingParity, RegsKept,
     DefaultProfile, Profile, Sector
<1>3. FlashSynced'
  BY DEF TypeOK, FlashSynced, Cont
<1>4. Measuring'
  BY DEF Measuring
<1>5. Calibrated'
  BY DEF TypeOK, Calibrated, Bound, Cont
<1>6. Settled'
  BY DEF TypeOK, Settled, Bound, Cont
<1>7. CalibrationMatchesClosedForm'
  BY DEF CalibrationMatchesClosedForm, TypeOK, Cont
<1> QED BY <1>1, <1>2, <1>3, <1>4, <1>5, <1>6, <1>7

(* The chip reset.                                                         *)
LEMMA ChipResetInv ==
  ASSUME IInv, ChipReset
  PROVE  IInv'
<1> USE DEF IInv, ChipReset, Quiet, Send, BeginWrite, hist
<1>1. TypeOK'
  BY ProfileClosed, CalAssumption DEF TypeOK, PC, Cont, Sector, Frame
<1>2. ProfileSound'
  BY ProfileClosed DEF TypeOK, ProfileSound, PendingParity, RegsKept,
     DefaultProfile, Profile, Sector
<1>3. FlashSynced'
  BY DEF TypeOK, FlashSynced, Cont
<1>4. Measuring'
  BY DEF Measuring
<1>5. Calibrated'
  BY DEF TypeOK, Calibrated, Bound, Cont
<1>6. Settled'
  BY DEF TypeOK, Settled, Bound, Cont
<1>7. CalibrationMatchesClosedForm'
  BY DEF CalibrationMatchesClosedForm, TypeOK, Cont
<1> QED BY <1>1, <1>2, <1>3, <1>4, <1>5, <1>6, <1>7

(* DEV_SEARCH.                                                             *)
LEMMA DevSearchInv ==
  ASSUME IInv, DevSearch
  PROVE  IInv'
<1> USE DEF IInv, DevSearch, Quiet, Send, BeginWrite, hist
<1>1. TypeOK'
  BY ProfileClosed, CalAssumption DEF TypeOK, PC, Cont, Sector, Frame
<1>2. ProfileSound'
  BY ProfileClosed DEF TypeOK, ProfileSound, PendingParity, RegsKept,
     DefaultProfile, Profile, Sector
<1>3. FlashSynced'
  BY DEF TypeOK, FlashSynced, Cont
<1>4. Measuring'
  BY DEF Measuring
<1>5. Calibrated'
  BY DEF TypeOK, Calibrated, Bound, Cont
<1>6. Settled'
  BY DEF TypeOK, Settled, Bound, Cont
<1>7. CalibrationMatchesClosedForm'
  BY DEF CalibrationMatchesClosedForm, TypeOK, Cont
<1> QED BY <1>1, <1>2, <1>3, <1>4, <1>5, <1>6, <1>7

(* DEVICE_UP after DEV_SEARCH.                                             *)
LEMMA SendDevUpInv ==
  ASSUME IInv, SendDevUp
  PROVE  IInv'
<1> USE DEF IInv, SendDevUp, Quiet, Send, BeginWrite, hist
<1>1. TypeOK'
  BY ProfileClosed, CalAssumption DEF TypeOK, PC, Cont, Sector, Frame
<1>2. ProfileSound'
  BY ProfileClosed DEF TypeOK, ProfileSound, PendingParity, RegsKept,
     DefaultProfile, Profile, Sector
<1>3. FlashSynced'
  BY DEF TypeOK, FlashSynced, Cont
<1>4. Measuring'
  BY DEF Measuring
<1>5. Calibrated'
  BY DEF TypeOK, Calibrated, Bound, Cont
<1>6. Settled'
  BY DEF TypeOK, Settled, Bound, Cont
<1>7. CalibrationMatchesClosedForm'
  BY DEF CalibrationMatchesClosedForm, TypeOK, Cont
<1> QED BY <1>1, <1>2, <1>3, <1>4, <1>5, <1>6, <1>7

(* prodTest_init(0); its silent branch is excluded by Calibrated.          *)
LEMMA ProdTestInitInv ==
  ASSUME IInv, NEW ok \in BOOLEAN, ProdTestInit(ok)
  PROVE  IInv'
<1> USE DEF IInv, ProdTestInit, Quiet, Send, BeginWrite, hist
<1>1. TypeOK'
  BY ProfileClosed, CalAssumption DEF TypeOK, PC, Cont, Sector, Frame
<1>2. ProfileSound'
  BY ProfileClosed DEF TypeOK, ProfileSound, PendingParity, RegsKept,
     DefaultProfile, Profile, Sector
<1>3. FlashSynced'
  BY DEF TypeOK, FlashSynced, Cont
<1>4. Measuring'
  BY DEF Measuring
<1>5. Calibrated'
  BY DEF TypeOK, Calibrated, Bound, Cont
<1>6. Settled'
  BY DEF TypeOK, Settled, Bound, Cont, Calibrated, GivenUp, Profile, CalStatus
<1>7. CalibrationMatchesClosedForm'
  BY DEF CalibrationMatchesClosedForm, TypeOK, Cont
<1> QED BY <1>1, <1>2, <1>3, <1>4, <1>5, <1>6, <1>7

(* PREPARE; its silent branch is excluded by Settled.                      *)
LEMMA PrepareRfInv ==
  ASSUME IInv, NEW t \in RfTest, NEW ok \in BOOLEAN, PrepareRf(t, ok)
  PROVE  IInv'
<1> USE DEF IInv, PrepareRf, Quiet, Send, BeginWrite, hist
<1>1. TypeOK'
  BY ProfileClosed, CalAssumption DEF TypeOK, PC, Cont, Sector, Frame
<1>2. ProfileSound'
  <2>1. CASE ok /\ RetryAtBoot(prof)
    <3>1. prof' = SavedForRetry(prof, t) /\ flash' = Corrupt
      BY <2>1, CalAssumption
      DEF GivenUp, RetryAtBoot, TypeOK, Profile, Attempts
    <3>2. /\ prof.cal = "FAILED"
          /\ prof.att < CalTryMax
      BY <2>1 DEF Settled, RetryAtBoot
    <3>3. /\ prof'.cal = "FAILED"
          /\ prof'.att < CalTryMax
      BY <3>1, <3>2 DEF SavedForRetry, TypeOK, Profile
    <3> QED BY <3>1, <3>3 DEF ProfileSound, PendingParity, RegsKept
  <2>2. CASE ~(ok /\ RetryAtBoot(prof))
    BY <2>2 DEF ProfileSound
  <2> QED BY <2>1, <2>2
<1>3. FlashSynced'
  BY DEF TypeOK, FlashSynced, Cont
<1>4. Measuring'
  BY DEF Measuring
<1>5. Calibrated'
  BY DEF TypeOK, Calibrated, Bound, Cont
<1>6. Settled'
  <2>1. prof.cal \in {"FAILED", "CALIBRATED"}
    BY DEF TypeOK, Settled, Profile, CalStatus
  <2>2. prof.cal = "FAILED" => RetryAtBoot(prof) \/ GivenUp(prof)
    BY CalAssumption DEF RetryAtBoot, GivenUp, TypeOK, Profile, Attempts
  <2>3. CASE ok /\ RetryAtBoot(prof)
    <3>1. ~GivenUp(prof)
      BY <2>3, CalAssumption
      DEF GivenUp, RetryAtBoot, TypeOK, Profile, Attempts
    <3> QED BY <2>3, <3>1 DEF Settled, Bound
  <2>4. CASE ~(ok /\ RetryAtBoot(prof))
    BY <2>1, <2>2, <2>4 DEF Settled, Bound
  <2> QED BY <2>3, <2>4
<1>7. CalibrationMatchesClosedForm'
  BY DEF CalibrationMatchesClosedForm, TypeOK, Cont
<1> QED BY <1>1, <1>2, <1>3, <1>4, <1>5, <1>6, <1>7

(* A bad reading; this is where the parity argument is made.               *)
LEMMA MeasureBadInv ==
  ASSUME IInv, MeasureBad
  PROVE  IInv'
<1> USE DEF IInv
<1> DEFINE d == (dco + 1) % CalMod
           p == [prof EXCEPT !.att = d]
<1>1. /\ pc = "measure"
      /\ dco' = d /\ bad' = bad + 1 /\ start' = start
      /\ \/ /\ d < CalTryMax
            /\ prof' = p /\ pc' = "measure" /\ flash' = flash /\ cont' = cont
         \/ /\ d >= CalTryMax
            /\ prof' = AfterBad(p) /\ flash' = Corrupt
            /\ pc' = "write" /\ cont' = "init"
      /\ sent' = "none" /\ owed' = owed
  BY DEF MeasureBad, Quiet, BeginWrite
<1>2. /\ d = (IF dco = CalMod - 1 THEN 0 ELSE dco + 1)
      /\ d \in Attempts /\ dco \in Attempts /\ p \in Profile
  BY ByteIncrement, ProfileClosed DEF TypeOK
<1>3. bad < ReadingsMax(DcoStart(start)) /\ bad \in Nat
  BY <1>1, MidRun, CalAssumption DEF TypeOK
<1> HIDE DEF d, p
<1>4. p.att = d /\ p.cal = prof.cal /\ p.pending = prof.pending
      /\ p.regs = prof.regs
  BY <1>2 DEF p, TypeOK, Profile
<1>5. TypeOK'
  <2>1. AfterBad(p) \in Profile
    BY <1>2, ProfileClosed
  <2>2. ReadingsMax(DcoStart(start)) \in 0 .. (CalTryMax + 1)
    BY CalAssumption DEF ReadingsMax, DcoStart, TypeOK, Profile, Attempts
  <2>3. bad + 1 \in 0 .. (CalTryMax + 1)
    BY <1>3, <2>2, CalAssumption
  <2> QED BY <1>1, <1>2, <2>1, <2>3 DEF TypeOK, PC, Cont, Sector, Frame
<1>6. CASE d < CalTryMax
  <2>1. prof' = p /\ pc' = "measure" /\ flash' = flash
    BY <1>1, <1>2, <1>6, CalAssumption DEF Attempts
  <2>2. ProfileSound'
    BY <1>4, <1>6, <2>1 DEF ProfileSound, PendingParity, RegsKept
  <2>3. Measuring'
    <3> DEFINE D == DcoStart(start)
    <3>1. D \in Attempts
      BY CalAssumption DEF DcoStart, TypeOK, Profile, Attempts
    <3>2. start.cal # "CALIBRATED" /\ PendingParity(start)
      BY <1>1 DEF Measuring
    <3>3. p = [start EXCEPT !.att = d]
      BY <1>1, <1>3 DEF Measuring, p, TypeOK, Profile
    <3>4. IF D = CalMod - 1 THEN bad + 1 = d + 1 ELSE bad + 1 = d - D
      <4>1. CASE bad = 0
        BY <1>1, <1>2, <1>6, <3>1, <4>1, CalAssumption DEF Measuring, Attempts
      <4>2. CASE bad > 0
        BY <1>1, <1>2, <1>3, <1>6, <3>1, <4>2, CalAssumption
        DEF Measuring, Attempts
      <4> QED BY <1>3, <4>1, <4>2
    <3>5. bad + 1 > 0
      BY <1>3
    <3> QED BY <1>1, <1>6, <2>1, <3>2, <3>3, <3>4, <3>5 DEF Measuring
  <2> QED BY <1>1, <1>5, <2>1, <2>2, <2>3
          DEF FlashSynced, Calibrated, Settled, Bound,
              CalibrationMatchesClosedForm
<1>7. CASE d >= CalTryMax
  <2>1. /\ prof' = AfterBad(p) /\ flash' = Corrupt
        /\ pc' = "write" /\ cont' = "init"
    BY <1>1, <1>2, <1>7, CalAssumption DEF Attempts
  <2>2. prof.cal # "CALIBRATED" /\ PendingParity(prof)
    BY <1>1, <1>3 DEF Measuring, ProfileSound, TypeOK, Profile
  <2>3. /\ AfterBad(p).cal = "FAILED"
        /\ AfterBad(p).pending = prof.pending
        /\ prof.cal = "FAILED" => AfterBad(p).att = (d + 1) % CalMod
    BY <1>2, <1>4, <2>2 DEF AfterBad, TypeOK, Profile, CalStatus
  <2>4. prof.pending => prof.cal = "FAILED"
    BY <2>2 DEF PendingParity, TypeOK, Profile, CalStatus
  <2>5. prof.pending => ((d + 1) % CalMod) % 2 = 1 /\ (d + 1) % CalMod >= CalTryMax
    <3> SUFFICES ASSUME prof.pending
                 PROVE  ((d + 1) % CalMod) % 2 = 1 /\ (d + 1) % CalMod >= CalTryMax
      OBVIOUS
    <3>1. dco + 1 = d /\ dco < CalMod - 1
      BY <1>2, <1>7, CalAssumption DEF Attempts
    <3>2. prof.att = dco
      BY <1>1, <1>3, <2>2, <2>4
      DEF Measuring, TypeOK, Profile, DcoStart
    <3>3. dco = CalTryMax - 1 \/ (dco >= CalTryMax /\ dco % 2 = 1)
      BY <1>2, <1>7, <2>2, <2>4, <3>1, <3>2, CalAssumption
      DEF PendingParity, Attempts
    <3>4. d % 2 = 0 /\ d < CalMod - 1
      BY <1>2, <3>1, <3>3, CalAssumption DEF Attempts
    <3>5. (d + 1) % CalMod = d + 1
      BY <1>2, <3>4, ByteIncrement, CalAssumption DEF Attempts
    <3> QED BY <1>2, <1>7, <3>4, <3>5, CalAssumption DEF Attempts
  <2>6. ProfileSound' /\ Calibrated'
    BY <2>1, <2>3, <2>4, <2>5
    DEF ProfileSound, PendingParity, RegsKept, Calibrated
  <2>7. CalibrationMatchesClosedForm'
    <3>1. /\ bad + 1 = ReadingsMax(DcoStart(start))
          /\ p = AfterReadings(start, bad + 1)
      BY <1>1, <1>7, LastReading DEF d, p
    <3>2. start.cal # "CALIBRATED"
      BY <1>1 DEF Measuring
    <3>3. AfterBad(p) \in CalOutcome(start)
      BY <3>1, <3>2 DEF CalOutcome
    <3> QED BY <1>1, <2>1, <3>3 DEF CalibrationMatchesClosedForm
  <2> QED BY <1>5, <2>1, <2>6, <2>7
          DEF FlashSynced, Measuring, Settled, Bound
<1>8. d < CalTryMax \/ d >= CalTryMax
  BY <1>2, CalAssumption DEF Attempts
<1> QED BY <1>6, <1>7, <1>8

(* Stuttering and Next preserve the inductive invariant.                   *)
LEMMA NextInv == IInv /\ [Next]_vars => IInv'
<1> SUFFICES ASSUME IInv, [Next]_vars PROVE IInv'
  OBVIOUS
<1>1. CASE UNCHANGED vars
  BY <1>1 DEF IInv, vars, TypeOK, ProfileSound, FlashSynced, Measuring,
     Calibrated, Settled, Bound, CalibrationMatchesClosedForm
<1>2. CASE Next
  BY <1>2, EndWriteInv, PowerOnInv, PowerCutInv, LoadProfileInv,
     CalStartInv, MeasureGoodInv, MeasureBadInv, SendCnfFailedInv,
     ChipResetInv, DevSearchInv, SendDevUpInv, ProdTestInitInv, PrepareRfInv
  DEF Next, Step
<1> QED BY <1>1, <1>2

-----------------------------------------------------------------------------
(* Theorems *)

(* The inductive invariant holds of every behaviour of the board.          *)
THEOREM InvTheorem == Spec => []IInv
BY InitInv, NextInv, PTL DEF Spec

(* The variables of the boot and calibration model keep their types; in    *)
(* particular the u8 counter stays below its modulus and a calibration run *)
(* takes at most CalTryMax + 1 readings.                                   *)
THEOREM TypeTheorem == Spec => []TypeOK
<1>1. IInv => TypeOK
  BY DEF IInv
<1> QED BY <1>1, InvTheorem, PTL

(* Every PREPARE the firmware accepts is answered before it is back in the *)
(* main loop, across flash writes, chip resets and power cuts, for every   *)
(* even CalTryMax and CalMod.                                              *)
THEOREM PrepareAnsweredTheorem == Spec => []PrepareAnswered
<1>1. IInv => PrepareAnswered
  BY DEF IInv, Settled, PrepareAnswered
<1> QED BY <1>1, InvTheorem, PTL

(* A board in its main loop has settled its calibration.                   *)
THEOREM SettledTheorem == Spec => []SettledInMain
<1>1. IInv => SettledInMain
  BY DEF IInv, Settled, SettledInMain
<1> QED BY <1>1, InvTheorem, PTL

(* What the firmware has announced is already in the flash.                *)
THEOREM FlashTheorem == Spec => []FlashIsCurrent
<1>1. IInv => FlashIsCurrent
  BY DEF IInv, FlashSynced, FlashIsCurrent
<1> QED BY <1>1, InvTheorem, PTL

(* A calibrated board has measured registers, in RAM and in flash.         *)
THEOREM RegsTheorem == Spec => []CalibratedHasRegs
<1>1. IInv => CalibratedHasRegs
  BY DEF IInv, ProfileSound, RegsKept, CalibratedHasRegs
<1> QED BY <1>1, InvTheorem, PTL

(* The calibration loop implements its closed form CalOutcome.             *)
THEOREM ClosedFormTheorem == Spec => []CalibrationMatchesClosedForm
<1>1. IInv => CalibrationMatchesClosedForm
  BY DEF IInv
<1> QED BY <1>1, InvTheorem, PTL

(* The retry loop of the calibration is bounded.                           *)
THEOREM ReadingsTheorem == Spec => []ReadingsBounded
<1>1. IInv => ReadingsBounded
  BY MidRun DEF IInv, ReadingsBounded
<1> QED BY <1>1, InvTheorem, PTL

(* A calibrated board stays calibrated while it has power.                 *)
THEOREM CalibrationKeptTheorem == Spec => CalibrationKept
<1>1. ASSUME IInv, [Next]_vars
      PROVE  [pc' # "off" /\ pc \notin {"off", "boot"}
                /\ prof.cal = "CALIBRATED"
                => prof'.cal = "CALIBRATED" /\ prof'.regs = "measured"]_vars
  <2> SUFFICES ASSUME Next, pc' # "off", pc \notin {"off", "boot"},
                      prof.cal = "CALIBRATED"
               PROVE  prof'.cal = "CALIBRATED" /\ prof'.regs = "measured"
    BY <1>1
  <2>1. prof \in Profile /\ prof.regs = "measured" /\ RegsKept(prof)'
    BY <1>1, NextInv DEF IInv, TypeOK, ProfileSound, RegsKept
  <2>2. pc # "measure"
    BY <1>1 DEF IInv, Measuring, TypeOK, Profile
  <2>3. prof' = prof \/ prof' = [prof EXCEPT !.pending = FALSE]
    BY <2>1, <2>2
    DEF Next, Step, EndWrite, PowerOn, PowerCut, LoadProfile, CalStart,
        MeasureGood, MeasureBad, ProdTestInit, SendCnfFailed, ChipReset,
        DevSearch, SendDevUp, PrepareRf, BeginWrite, RetryAtBoot
  <2> QED BY <2>1, <2>3 DEF Profile
<1> QED BY <1>1, InvTheorem, PTL DEF Spec, CalibrationKept
=============================================================================
