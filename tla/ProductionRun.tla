--------------------------- MODULE ProductionRun ----------------------------
(***************************************************************************)
(* What the tester promises for calibrated boards: a run works off the     *)
(* tests it was started with, one after the other, is over exactly when    *)
(* the last of them has its results, and parameters are flashed only       *)
(* between runs, after a run that is over.                                 *)
(***************************************************************************)
CONSTANT Tests

VARIABLES running,   \* a run is under way
          todo,      \* its tests whose results are not complete
          flash      \* a command to flash is on its way

vars == <<running, todo, flash>>

Init == ~running /\ todo = {} /\ ~flash

Start ==
  /\ ~running /\ running'
  /\ todo' \in (SUBSET Tests) \ {{}}
  /\ UNCHANGED flash

\* A test is complete; the last one ends the run and may be followed by the flash.
Complete ==
  /\ running
  /\ \E t \in todo : todo' = todo \ {t}
  /\ running' = (todo' # {})
  /\ flash' => flash \/ ~running'

\* The operator asks for the flash again.
Flash == ~running /\ todo = {} /\ flash' /\ UNCHANGED <<running, todo>>

Taken == flash /\ ~flash' /\ UNCHANGED <<running, todo>>

Next == Start \/ Complete \/ Flash \/ Taken

Spec == Init /\ [][Next]_vars
=============================================================================
