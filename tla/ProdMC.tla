------------------------------- MODULE ProdMC -------------------------------
(***************************************************************************)
(* Values for the constants of ProdSystem.                                 *)
(***************************************************************************)
EXTENDS ProdSystem

OneEntry == [i \in Intf |-> 1]

SweepLengths == [i \in Intf |-> IF i = "PLC" THEN 2 ELSE 1]

BothCalibrated == [b \in Board |-> "CALIBRATED"]

(* The device under test arrives given up, the reference board can retry.  *)
Uncalibrated == [BothCalibrated EXCEPT !["DUT"] = "GIVEN_UP",
                                       !["REF"] = "RETRY"]

Nothing ==
  [a \in {"run", "scan", "click", "stop", "flash", "reset", "spi",
          "all"} |->
     IF a = "all" THEN 3 ELSE 0]

OneRun == [Nothing EXCEPT !["run"] = 1]

TwoRuns == [Nothing EXCEPT !["run"] = 2, !["flash"] = 1]

OneClick == [Nothing EXCEPT !["run"] = 1, !["click"] = 1]

Clicks == [Nothing EXCEPT !["run"] = 1, !["click"] = 2]

(* One run and one disturbance of any kind.                                *)
Disturbed == [a \in DOMAIN Nothing |-> IF a = "all" THEN 2 ELSE 1]
=============================================================================
