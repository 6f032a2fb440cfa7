----------------------------- MODULE TestQueue -----------------------------
(***************************************************************************)
(* The tests of the production tool, the execution queue qExecStatus and   *)
(* the eight check boxes of the home screen that fill it.  Assigning a box *)
(* the value it already has raises no CheckedChanged event; any other      *)
(* assignment runs the handler of that box, which edits the queue.         *)
(*                                                                         *)
(* A selection is a record with the fields q, the queue, and box, the      *)
(* checked boxes; its other fields are left alone.                         *)
(***************************************************************************)
EXTENDS Integers, SequencesExt

Board == {"DUT", "REF"}

Other(b) == IF b = "DUT" THEN "REF" ELSE "DUT"

Intf == {"PLC", "RF"}

(* TEST_ID_PLC_TX ... TEST_ID_RF_RX_SWEEP.                                 *)
Test == [intf : Intf, dir : {"TX", "RX"}, sweep : BOOLEAN]

PlainTest(i, d) == [intf |-> i, dir |-> d, sweep |-> FALSE]

SweepTest(i, d) == [intf |-> i, dir |-> d, sweep |-> TRUE]

NoTest == [intf |-> "none", dir |-> "none", sweep |-> FALSE]

PlainOf(t) == [t EXCEPT !.sweep = FALSE]

(* The plain test of a sweep, the sweep of a plain test.                   *)
Twin(t) == [t EXCEPT !.sweep = ~@]

(* A TX test sends from the device under test, an RX test to it.           *)
Transmitter(t) == IF t.dir = "TX" THEN "DUT" ELSE "REF"

Receiver(t) == Other(Transmitter(t))

-----------------------------------------------------------------------------
(* Mutant: a sweep is queued next to its plain test.                       *)
Checked_KeepsPlain(s, t) ==
  IF t.sweep
    THEN IF Contains(s.q, t) THEN s ELSE [s EXCEPT !.q = Append(@, t)]
    ELSE IF Contains(s.q, t) \/ Contains(s.q, Twin(t))
           THEN s
           ELSE [s EXCEPT !.q = Append(@, t)]

(* The handler of a box that was just checked.  A sweep drives out its     *)
(* plain test, whose box is unchecked; a plain test gives way to its sweep *)
(* although its own box stays checked.                                     *)
Checked(s, t) ==
  IF t.sweep
    THEN IF Contains(s.q, t)
           THEN s
           ELSE IF Contains(s.q, Twin(t))
                  THEN [s EXCEPT !.q = RemoveFirst(Append(@, t), Twin(t)),
                                 !.box = @ \ {Twin(t)}]
                  ELSE [s EXCEPT !.q = Append(@, t)]
    ELSE IF Contains(s.q, t) \/ Contains(s.q, Twin(t))
           THEN s
           ELSE [s EXCEPT !.q = Append(@, t)]

(* Mutant: the queue keeps the test of a box that was just unchecked.      *)
Unchecked_KeepsQueue(s, t) == s

(* The handler of a box that was just unchecked.                           *)
Unchecked(s, t) == [s EXCEPT !.q = RemoveFirst(@, t)]

(* chkbx.Checked = v                                                       *)
SetBox(s, t, v) ==
  IF v = (t \in s.box) THEN s
  ELSE IF v THEN Checked([s EXCEPT !.box = @ \cup {t}], t)
  ELSE Unchecked([s EXCEPT !.box = @ \ {t}], t)

(* enablePLCTX ... enableRFRXSweep, disablePLCTX ... disableRFRXSweep      *)
Enable(s, t) == SetBox(SetBox(s, t, FALSE), t, TRUE)

Disable(s, t) == SetBox(s, t, FALSE)

(* The operator clicks a box.                                              *)
Toggle(s, t) == SetBox(s, t, t \notin s.box)

-----------------------------------------------------------------------------
(* The tests whose boxes enableTests2 enables.                             *)
TestsOf(cap) == {t \in Test : cap = "RF_PLC" \/ t.intf = cap}

(* enableTests2: what is checked when both devices are up.  In the build   *)
(* with LED_BOARD_TEST = "NULL" a RF_PLC board gets only its RF sweeps.    *)
EnableTests2(s, cap) ==
  LET i == IF cap = "PLC" THEN "PLC" ELSE "RF"
  IN  SetBox(SetBox(s, SweepTest(i, "TX"), TRUE), SweepTest(i, "RX"), TRUE)

(* The end of _test_plcTX ... _test_RFRX when the queue is empty: the two  *)
(* sweeps of the next board are enabled, each through its box.             *)
Refill(s, cap) ==
  LET i == IF cap = "PLC" THEN "PLC" ELSE "RF"
      tests == <<SweepTest(i, "TX"), SweepTest(i, "RX")>>
  IN  [s EXCEPT !.q = tests, !.box = @ \cup ToSet(tests)]

(* btnRunTest_Click adapts the PLC tests of a RF_PLC board to the first    *)
(* digit of the serial number: mod is BOARD_TYPE_GV7011_MOD.               *)
ForSerial(s, cap, mod) ==
  IF cap # "RF_PLC" THEN s
  ELSE LET on(d)  == [PlainTest("PLC", d) EXCEPT !.sweep = mod]
           off(d) == [PlainTest("PLC", d) EXCEPT !.sweep = ~mod]
       IN  Disable(Disable(Enable(Enable(s, on("RX")), on("TX")), off("RX")),
                   off("TX"))

(* The four plain boxes that enableUI unchecks.                            *)
UncheckPlain(s) ==
  LET rf == Disable(Disable(s, PlainTest("RF", "TX")), PlainTest("RF", "RX"))
  IN  Disable(Disable(rf, PlainTest("PLC", "TX")), PlainTest("PLC", "RX"))
=============================================================================
