--------------------------- MODULE ClientsProofs ----------------------------
(***************************************************************************)
(* Proofs about the threads of the tool, for every finite set of boards.   *)
(***************************************************************************)
EXTENDS Clients, FiniteSetTheorems, SequenceTheorems, TLAPS

-----------------------------------------------------------------------------
(***************************************************************************)
(* What can be left of the handler of a reader.                            *)
(***************************************************************************)
UpBegin   == <<Lock, Invoke, Bar>>
UpKeep    == <<Invoke, Bar>>
Done      == <<Bar>>
Ask(c)    == <<Bar, Send(c, "test"), Bar>>
AskNow(c) == <<Send(c, "test"), Bar>>

UpRest  == {UpBegin, UpKeep}
EndRest == {<<>>, Done}
AskRest == {Ask(c) : c \in Client} \cup {AskNow(c) : c \in Client}

UiSteps == {Bar} \cup {Send(c, r) : c \in Client, r \in {"search", "test"}}

(***************************************************************************)
(* The inductive invariant.  Orderly says in which handlers the threads    *)
(* can be and that objForUI is kept only by a reader that is in Me.Invoke  *)
(* or past it.                                                             *)
(***************************************************************************)
Orderly ==
  /\ \A c \in Client : prog[c] \in UpRest \cup AskRest \cup EndRest
  /\ prog["listen"] \in {<<>>, <<Invoke>>}
  /\ prog["ui"] \in Seq(UiSteps)
  /\ uiOwner \in Client \cup {"none"}
  /\ \A c \in Client : /\ uiOwner = c => prog[c] \in {UpKeep, Done}
                       /\ prog[c] = UpKeep => uiOwner = c

(***************************************************************************)
(* Without clicks and frames out of turn the tool is either searching, and *)
(* the boards still to be asked are undisturbed, or it is testing, and     *)
(* there is one thing under way at most: a request to be sent, a request   *)
(* to be answered, or a last answer to be read.                            *)
(***************************************************************************)
InTouch == \A c \in Client : conn[c] # "heard" => owed[c] = "none" /\ inbox[c] = <<>>

Undisturbed(c) == prog[c] = <<>> /\ owed[c] = "none" /\ inbox[c] = <<>>

ReadersUp ==
  \A c \in Client : /\ prog[c] \in UpRest \cup EndRest
                    /\ owed[c] # "test"
                    /\ \A i \in 1 .. Len(inbox[c]) : inbox[c][i] = "up"

UiSearch ==
  /\ \A i \in 1 .. Len(prog["ui"]) :
       \/ prog["ui"][i] = Bar /\ i = 1 /\ \A c \in Client : Undisturbed(c)
       \/ \E c \in Client : prog["ui"][i] = Send(c, "search") /\ Undisturbed(c)
  /\ \A i, j \in 1 .. Len(prog["ui"]) : prog["ui"][i] = prog["ui"][j] => i = j

Searching == ReadersUp /\ UiSearch

\* Thread t has a request to send; board c owes an answer; c has sent its last.
Asking(t) == prog[t] \in AskRest
Owes(c)   == c \in Client /\ owed[c] # "none"
LastIn(c) == c \in Client /\ \E i \in 1 .. Len(inbox[c]) : inbox[c][i] = "last"

Turn(t) == Asking(t) \/ Owes(t) \/ LastIn(t)

Testing ==
  /\ \A t \in Client \cup {"ui"} : prog[t] \in AskRest \cup EndRest
  /\ \A c \in Client :
       /\ owed[c] # "search"
       /\ \A i \in 1 .. Len(inbox[c]) :
            /\ inbox[c][i] # "up"
            /\ inbox[c][i] = "last" => i = Len(inbox[c])
       /\ ~ (Asking(c) /\ Owes(c)) /\ ~ (Asking(c) /\ LastIn(c)) /\ ~ (Owes(c) /\ LastIn(c))
  /\ \A t, u \in Client \cup {"ui"} : Turn(t) /\ Turn(u) => t = u
  /\ uiOwner = "none"

OneAtATime == odd = 0 => InTouch /\ (Searching \/ Testing)

IInv == TypeOK /\ Orderly /\ OneAtATime

-----------------------------------------------------------------------------
(***************************************************************************)
(* Steps and handlers.                                                     *)
(***************************************************************************)
\* The steps of a handler are told apart by their name.
LEMMA StepNames ==
  /\ Bar[1] = "bar" /\ Lock[1] = "lock" /\ Invoke[1] = "invoke"
  /\ Bar # Lock /\ Bar # Invoke /\ Lock # Invoke
  /\ \A c, r : /\ Send(c, r)[1] = "send" /\ Send(c, r)[2] = c /\ Send(c, r)[3] = r
               /\ Send(c, r) # Bar /\ Send(c, r) # Lock /\ Send(c, r) # Invoke
BY DEF Bar, Lock, Invoke, Send

\* First step and rest of each handler of a reader.
LEMMA Rests ==
  /\ UpBegin # <<>> /\ Head(UpBegin) = Lock /\ Tail(UpBegin) = UpKeep /\ Len(UpBegin) = 3
  /\ UpKeep # <<>> /\ Head(UpKeep) = Invoke /\ Tail(UpKeep) = Done /\ Len(UpKeep) = 2
  /\ Done # <<>> /\ Head(Done) = Bar /\ Tail(Done) = <<>> /\ Len(Done) = 1
  /\ \A c : /\ Ask(c) # <<>> /\ Head(Ask(c)) = Bar /\ Tail(Ask(c)) = AskNow(c) /\ Len(Ask(c)) = 3
            /\ AskNow(c) # <<>> /\ Head(AskNow(c)) = Send(c, "test")
            /\ Tail(AskNow(c)) = Done /\ Len(AskNow(c)) = 2
<1>1. UpBegin # <<>> /\ Head(UpBegin) = Lock /\ Tail(UpBegin) = UpKeep /\ Len(UpBegin) = 3
  BY DEF UpBegin, UpKeep
<1>2. UpKeep # <<>> /\ Head(UpKeep) = Invoke /\ Tail(UpKeep) = Done /\ Len(UpKeep) = 2
  BY DEF Done, UpKeep
<1>3. Done # <<>> /\ Head(Done) = Bar /\ Tail(Done) = <<>> /\ Len(Done) = 1
  BY DEF Done
<1>4. \A c : Ask(c) # <<>> /\ Head(Ask(c)) = Bar /\ Tail(Ask(c)) = AskNow(c) /\ Len(Ask(c)) = 3
  BY DEF Ask, AskNow
<1>5. \A c : /\ AskNow(c) # <<>> /\ Head(AskNow(c)) = Send(c, "test")
             /\ Tail(AskNow(c)) = Done /\ Len(AskNow(c)) = 2
  BY DEF AskNow, Done
<1> QED BY <1>1, <1>2, <1>3, <1>4, <1>5

\* All of them are handlers, and different.
LEMMA RestsTyped ==
  /\ UpRest \cup AskRest \cup EndRest \subseteq Seq(Steps)
  /\ {<<>>, <<Invoke>>} \subseteq Seq(Steps)
  /\ Seq(UiSteps) \subseteq Seq(Steps)
  /\ AskRest \cup EndRest \subseteq Seq(UiSteps)
<1>1. UpBegin \in Seq(Steps) /\ UpKeep \in Seq(Steps)
  BY DEF UpBegin, UpKeep, Steps
<1>2. {<<>>, <<Invoke>>} \subseteq Seq(Steps)
  BY DEF Steps
<1>3. <<>> \in Seq(UiSteps) /\ Done \in Seq(UiSteps)
  BY DEF Done, UiSteps
<1>4. \A c \in Client : Ask(c) \in Seq(UiSteps)
  BY DEF Ask, UiSteps
<1>5. \A c \in Client : AskNow(c) \in Seq(UiSteps)
  BY DEF AskNow, UiSteps
<1>6. Seq(UiSteps) \subseteq Seq(Steps)
  BY DEF UiSteps, Steps
<1>7. AskRest \cup EndRest \subseteq Seq(UiSteps)
  BY <1>3, <1>4, <1>5 DEF AskRest, EndRest
<1> QED BY <1>1, <1>2, <1>6, <1>7 DEF UpRest

\* A handler that sends is neither at its end nor that of a DEVICE_UP.
LEMMA RestsApart ==
  /\ UpBegin # UpKeep /\ UpBegin # Done /\ UpKeep # Done
  /\ \A c : /\ Ask(c) \notin UpRest \cup EndRest
            /\ AskNow(c) \notin UpRest \cup EndRest
  /\ \A c, d : Ask(c) # AskNow(d)
<1>1. UpBegin # UpKeep /\ UpBegin # Done /\ UpKeep # Done
  BY Rests
<1>2. \A c : Ask(c) \notin UpRest \cup EndRest
  BY Rests, StepNames DEF UpRest, EndRest
<1>3. \A c : AskNow(c) \notin UpRest \cup EndRest
  BY Rests, StepNames DEF UpRest, EndRest
<1>4. \A c, d : Ask(c) # AskNow(d)
  BY Rests, StepNames
<1> QED BY <1>1, <1>2, <1>3, <1>4

-----------------------------------------------------------------------------
(***************************************************************************)
(* Who waits for whom.                                                     *)
(***************************************************************************)
\* The names of the threads are different.
LEMMA Names ==
  /\ "ui" \notin Client /\ "listen" \notin Client /\ "none" \notin Client
  /\ "ui" \in Threads /\ "listen" \in Threads /\ Client \subseteq Threads
BY ClientsAssumption DEF Threads

\* A reader waits for the user interface thread only in Me.Invoke, for
\* another reader only where it sends, and otherwise for objForUI.
LEMMA ReaderWaits ==
  ASSUME NEW c \in Client
  PROVE  /\ prog[c] = <<>> => WaitsFor(c) = {}
         /\ prog[c] = UpKeep => WaitsFor(c) \subseteq {"ui"}
         /\ prog[c] = UpBegin => WaitsFor(c) = {uiOwner} \ {"none", c}
         /\ prog[c] = Done => WaitsFor(c) = {uiOwner} \ {"none", c}
         /\ \A d : prog[c] = Ask(d) => WaitsFor(c) = {uiOwner} \ {"none", c}
         /\ \A d : prog[c] = AskNow(d) => WaitsFor(c) = {e \in Client : e = d /\ ~Idle(e)} \ {c}
<1>1. prog[c] = <<>> => WaitsFor(c) = {}
  BY DEF WaitsFor, Idle
<1>2. \A s : prog[c] # <<>> /\ Head(prog[c]) = s => WaitsFor(c) = Holder(c, s)
  BY DEF WaitsFor, Idle
<1>3. Holder(c, Invoke) \subseteq {"ui"}
  BY StepNames DEF Holder
<1>4. Holder(c, Lock) = {uiOwner} \ {"none", c} /\ Holder(c, Bar) = {uiOwner} \ {"none", c}
  BY StepNames DEF Holder
<1>5. \A d : Holder(c, Send(d, "test")) = {e \in Client : e = d /\ ~Idle(e)} \ {c}
  BY StepNames DEF Holder
<1> QED BY <1>1, <1>2, <1>3, <1>4, <1>5, Rests

\* The user interface thread waits for objForUI or where it sends.
LEMMA UiWaits ==
  /\ prog["ui"] = <<>> => WaitsFor("ui") = {}
  /\ Head(prog["ui"]) = Bar => WaitsFor("ui") \subseteq {uiOwner} \ {"none", "ui"}
  /\ \A d, r : Head(prog["ui"]) = Send(d, r) => WaitsFor("ui") \subseteq {e \in Client : e = d /\ ~Idle(e)}
<1>1. prog["ui"] = <<>> => WaitsFor("ui") = {}
  BY DEF WaitsFor, Idle
<1>2. \A s : Head(prog["ui"]) = s => WaitsFor("ui") \subseteq Holder("ui", s)
  BY DEF WaitsFor
<1>3. Holder("ui", Bar) = {uiOwner} \ {"none", "ui"}
  BY StepNames DEF Holder
<1>4. \A d, r : Holder("ui", Send(d, r)) \subseteq {e \in Client : e = d /\ ~Idle(e)}
  BY StepNames DEF Holder
<1> QED BY <1>1, <1>2, <1>3, <1>4

\* The first step of the user interface thread and what is left of its click.
LEMMA UiHead ==
  ASSUME Orderly, prog["ui"] # <<>>
  PROVE  /\ Len(prog["ui"]) \in Nat \ {0} /\ Head(prog["ui"]) = prog["ui"][1]
         /\ \/ Head(prog["ui"]) = Bar
            \/ \E d \in Client, r \in {"search", "test"} : Head(prog["ui"]) = Send(d, r)
         /\ Tail(prog["ui"]) \in Seq(UiSteps)
         /\ Len(Tail(prog["ui"])) = Len(prog["ui"]) - 1
         /\ \A i \in 1 .. Len(Tail(prog["ui"])) : Tail(prog["ui"])[i] = prog["ui"][i + 1]
<1> DEFINE q == prog["ui"]
<1>1. q \in Seq(UiSteps)
  BY DEF Orderly
<1> HIDE DEF q
<1>2. /\ Head(q) \in UiSteps /\ Tail(q) \in Seq(UiSteps)
      /\ Len(q) \in Nat \ {0} /\ Head(q) = q[1]
      /\ Len(Tail(q)) = Len(q) - 1
      /\ \A i \in 1 .. Len(Tail(q)) : Tail(q)[i] = q[i + 1]
  <2>1. q # <<>>
    BY DEF q
  <2> QED BY <1>1, <2>1
<1> QED BY <1>2 DEF q, UiSteps

\* The listener waits for the user interface thread only, and nobody for it.
LEMMA ListenerWaits ==
  ASSUME Orderly
  PROVE  /\ WaitsFor("listen") \subseteq {"ui"}
         /\ WaitsFor("ui") \subseteq Client
         /\ \A c \in Client : WaitsFor(c) \subseteq Client \cup {"ui"}
<1>1. WaitsFor("listen") \subseteq {"ui"}
  <2>1. Holder("listen", Invoke) \subseteq {"ui"}
    BY StepNames DEF Holder
  <2>2. prog["listen"] = <<>> \/ Head(prog["listen"]) = Invoke
    BY DEF Orderly
  <2> QED BY <2>1, <2>2 DEF WaitsFor, Idle
<1>2. WaitsFor("ui") \subseteq Client
  BY UiWaits, UiHead DEF Orderly
<1>3. ASSUME NEW c \in Client PROVE WaitsFor(c) \subseteq Client \cup {"ui"}
  <2>1. uiOwner \in Client \cup {"none"}
    BY DEF Orderly
  <2> QED BY <2>1, ReaderWaits DEF Orderly, UpRest, AskRest, EndRest
<1> QED BY <1>1, <1>2, <1>3

\* The reader that keeps objForUI waits for the user interface thread or not at all.
LEMMA OwnerWaits ==
  ASSUME Orderly, NEW c \in Client, uiOwner = c
  PROVE  WaitsFor(c) \subseteq {"ui"}
BY ReaderWaits DEF Orderly

\* Readers that wait for each other all wait where they send.
LEMMA ReadersMeet ==
  ASSUME Orderly, NEW S, S \subseteq Client, Deadlock(S), NEW c \in S
  PROVE  \E d \in S : prog[c] = AskNow(d) /\ d # c
<1>1. \A t \in S : WaitsFor(t) \cap S # {}
  BY DEF Deadlock
<1>2. "ui" \notin S
  BY Names
<1>3. uiOwner \notin S
  BY <1>1, <1>2, OwnerWaits
<1>4. WaitsFor(c) # {} /\ ~ (WaitsFor(c) \subseteq {"ui"}) /\ ~ (WaitsFor(c) \subseteq {uiOwner})
  BY <1>1, <1>2, <1>3
<1>5. PICK d \in Client : prog[c] = AskNow(d)
  BY <1>4, ReaderWaits DEF Orderly, UpRest, AskRest, EndRest
<1>6. WaitsFor(c) \subseteq {d} \ {c}
  BY <1>5, ReaderWaits
<1> QED BY <1>1, <1>5, <1>6

(***************************************************************************)
(* The argument: without the user interface thread, readers wait for each  *)
(* other only where they send; with it, a reader of the cycle must wait in *)
(* Me.Invoke, or the threads other than it would be a smaller deadlock.    *)
(***************************************************************************)
LEMMA ShapesLemma ==
  ASSUME Orderly
  PROVE  DeadlockHasTwoShapes
<1> SUFFICES ASSUME NEW S \in SUBSET Threads, Deadlock(S),
                    \A R \in SUBSET S : Deadlock(R) => R = S
             PROVE  \/ S \subseteq Client /\ \A c \in S : Head(prog[c])[1] = "send"
                    \/ "ui" \in S /\ \E c \in S \cap Client : Head(prog[c]) = Invoke /\ uiOwner = c
  BY DEF DeadlockHasTwoShapes
<1>1. S # {} /\ \A t \in S : WaitsFor(t) \cap S # {}
  BY DEF Deadlock
<1>2. "listen" \notin S
  <2> SUFFICES ASSUME "listen" \in S PROVE FALSE
    OBVIOUS
  <2> DEFINE R == S \ {"listen"}
  <2>1. "ui" \in R
    BY <1>1, ListenerWaits
  <2>2. \A t \in R : "listen" \notin WaitsFor(t)
    BY ListenerWaits, Names DEF Threads
  <2>3. \A t \in R : WaitsFor(t) \cap R # {}
    BY <1>1, <2>2
  <2>4. Deadlock(R)
    BY <2>1, <2>3, Zenon DEF Deadlock
  <2> QED BY <2>4
<1>3. S \subseteq Client \cup {"ui"}
  BY <1>2 DEF Threads
<1>4. CASE "ui" \notin S
  <2>1. S \subseteq Client
    BY <1>3, <1>4
  <2>2. ASSUME NEW c \in S PROVE Head(prog[c])[1] = "send"
    BY <2>1, ReadersMeet, Rests, StepNames
  <2> QED BY <2>1, <2>2
<1>5. CASE "ui" \in S
  <2>1. CASE \E c \in S \cap Client : prog[c] = UpKeep
    BY <1>5, <2>1, Rests DEF Orderly
  <2>2. CASE \A c \in S \cap Client : prog[c] # UpKeep
    <3> DEFINE R == S \ {"ui"}
    <3>1. ASSUME NEW c \in R PROVE "ui" \notin WaitsFor(c)
      <4>1. c \in Client /\ prog[c] # UpKeep
        BY <1>3, <2>2
      <4>2. uiOwner # "ui"
        BY Names DEF Orderly
      <4> QED BY <4>1, <4>2, ReaderWaits, Names DEF Orderly, UpRest, AskRest, EndRest
    <3>2. R # {}
      BY <1>1, <1>5, ListenerWaits, Names
    <3>3. \A t \in R : WaitsFor(t) \cap R # {}
      BY <1>1, <3>1
    <3>4. Deadlock(R)
      BY <3>2, <3>3, Zenon DEF Deadlock
    <3> QED BY <1>5, <3>4
  <2> QED BY <2>1, <2>2
<1> QED BY <1>4, <1>5

(***************************************************************************)
(* While the tool searches nothing keeps the user interface thread; while  *)
(* it tests at most one reader has something to send, and nobody keeps     *)
(* objForUI.                                                               *)
(***************************************************************************)
LEMMA UndisturbedLemma ==
  ASSUME Orderly, Searching \/ Testing
  PROVE  ~Deadlocked
<1> SUFFICES ASSUME NEW S \in SUBSET Threads, Deadlock(S)
             PROVE  FALSE
  BY DEF Deadlocked
<1>1. S # {} /\ \A t \in S : WaitsFor(t) \cap S # {}
  BY DEF Deadlock
<1>2. "listen" \in S => "ui" \in S
  BY <1>1, ListenerWaits
<1>3. "ui" \notin S => S \subseteq Client
  BY <1>2 DEF Threads
<1>4. CASE Searching
  <2>1. WaitsFor("ui") = {}
    <3>1. CASE prog["ui"] = <<>>
      BY <3>1, UiWaits
    <3>2. CASE prog["ui"] # <<>>
      <4>1. /\ Head(prog["ui"]) = prog["ui"][1] /\ 1 \in 1 .. Len(prog["ui"])
        BY <3>2, UiHead
      <4>2. CASE prog["ui"][1] = Bar /\ \A c \in Client : Undisturbed(c)
        <5>1. uiOwner = "none"
          BY <4>2, Rests DEF Orderly, Undisturbed
        <5> QED BY <4>1, <4>2, <5>1, UiWaits
      <4>3. CASE \E c \in Client : prog["ui"][1] = Send(c, "search") /\ Undisturbed(c)
        BY <4>1, <4>3, UiWaits DEF Undisturbed, Idle
      <4> QED BY <1>4, <4>1, <4>2, <4>3 DEF Searching, UiSearch
    <3> QED BY <3>1, <3>2
  <2>2. S \subseteq Client
    BY <1>1, <1>3, <2>1
  <2>3. PICK c \in S : TRUE
    BY <1>1
  <2>4. PICK d \in Client : prog[c] = AskNow(d)
    BY <2>2, <2>3, ReadersMeet
  <2> QED BY <1>4, <2>2, <2>4, RestsApart DEF Searching, ReadersUp
<1>5. CASE Testing
  <2>1. \A c \in S \cap Client : \E d \in S \cap Client : c # d /\ prog[c] = AskNow(d)
    <3> TAKE c \in S \cap Client
    <3>1. prog[c] # UpKeep /\ prog[c] # UpBegin
      BY <1>5, RestsApart, Rests DEF Testing, UpRest, EndRest, AskRest
    <3>2. PICK d \in Client : prog[c] = AskNow(d)
      <4>1. WaitsFor(c) # {} /\ ~ (WaitsFor(c) \subseteq {uiOwner} \ {"none"})
        BY <1>1, <1>5 DEF Testing
      <4>2. prog[c] \in AskRest \cup EndRest
        BY <1>5 DEF Testing
      <4> QED BY <4>1, <4>2, ReaderWaits DEF AskRest, EndRest
    <3>3. WaitsFor(c) \subseteq {d} \ {c}
      BY <3>2, ReaderWaits
    <3> QED BY <1>1, <3>2, <3>3
  <2>2. \A c \in S \cap Client : Turn(c)
    BY <2>1 DEF Turn, Asking, AskRest
  <2>3. S \cap Client = {}
    BY <1>5, <2>1, <2>2 DEF Testing
  <2>4. "ui" \notin S
    BY <1>1, <2>3, ListenerWaits
  <2> QED BY <1>1, <1>3, <2>3, <2>4
<1> QED BY <1>4, <1>5

-----------------------------------------------------------------------------
(***************************************************************************)
(* What one step of a thread does.                                         *)
(***************************************************************************)
\* Thread t goes on from one rest of its handler to the next.
Advance(t, from, to) ==
  /\ prog[t] = from
  /\ prog' = [prog EXCEPT ![t] = to]

Request(d, r) == owed' = IF conn[d] = "heard" THEN [owed EXCEPT ![d] = r] ELSE owed

LEMMA ReaderStep ==
  ASSUME Orderly, NEW c \in Client, Step(c)
  PROVE  /\ UNCHANGED <<conn, inbox, odd>>
         /\ \/ Advance(c, UpBegin, UpKeep) /\ uiOwner = "none" /\ uiOwner' = c /\ owed' = owed
            \/ Advance(c, UpKeep, Done) /\ prog["ui"] = <<>> /\ UNCHANGED <<uiOwner, owed>>
            \/ Advance(c, Done, <<>>) /\ uiOwner \in {"none", c} /\ uiOwner' = "none" /\ owed' = owed
            \/ \E d \in Client : Advance(c, Ask(d), AskNow(d)) /\ UNCHANGED <<uiOwner, owed>>
            \/ \E d \in Client : Advance(c, AskNow(d), Done) /\ uiOwner' = uiOwner /\ Request(d, "test")
<1> DEFINE s == Head(prog[c])
<1>1. /\ prog[c] # <<>>
      /\ Holder(c, s) = {}
      /\ prog' = [prog EXCEPT ![c] = Tail(prog[c])]
      /\ s = Lock => uiOwner' = c
      /\ s # Lock /\ uiOwner = c /\ Len(prog[c]) = 1 => uiOwner' = "none"
      /\ s # Lock /\ ~ (uiOwner = c /\ Len(prog[c]) = 1) => uiOwner' = uiOwner
      /\ owed' = IF s[1] = "send" /\ conn[s[2]] = "heard"
                  THEN [owed EXCEPT ![s[2]] = s[3]] ELSE owed
      /\ UNCHANGED <<conn, inbox, odd>>
  <2>1. uiOwner' = CASE s = Lock -> c
                     [] uiOwner = c /\ Len(prog[c]) = 1 -> "none"
                     [] OTHER -> uiOwner
    BY DEF Step
  <2>2. s # Lock \/ uiOwner # c
    BY Rests, RestsApart, StepNames DEF Orderly
  <2>3. /\ s = Lock => uiOwner' = c
        /\ s # Lock /\ uiOwner = c /\ Len(prog[c]) = 1 => uiOwner' = "none"
        /\ s # Lock /\ ~ (uiOwner = c /\ Len(prog[c]) = 1) => uiOwner' = uiOwner
    <3> HIDE DEF s
    <3> QED BY <2>1, <2>2
  <2> QED BY <2>3 DEF Step, Idle
<1> HIDE DEF s
<1>2. CASE prog[c] = UpBegin
  <2>1. s = Lock /\ uiOwner # c
    BY <1>2, Rests, RestsApart DEF s, Orderly
  <2>2. uiOwner = "none"
    BY <1>1, <2>1, StepNames DEF Holder
  <2> QED BY <1>1, <1>2, <2>1, <2>2, Rests, StepNames DEF Advance
<1>3. CASE prog[c] = UpKeep
  <2>1. s = Invoke
    BY <1>3, Rests DEF s
  <2>2. prog["ui"] = <<>>
    BY <1>1, <2>1, StepNames DEF Holder, Idle
  <2> QED BY <1>1, <1>3, <2>1, <2>2, Rests, StepNames DEF Advance
<1>4. CASE prog[c] = Done
  <2>1. s = Bar
    BY <1>4, Rests DEF s
  <2>2. uiOwner \in {"none", c}
    BY <1>1, <2>1, StepNames DEF Holder
  <2> QED BY <1>1, <1>4, <2>1, <2>2, Rests, StepNames DEF Advance
<1>5. ASSUME NEW d \in Client, prog[c] = Ask(d)
      PROVE  Advance(c, Ask(d), AskNow(d)) /\ UNCHANGED <<uiOwner, owed>>
  <2>1. s = Bar /\ uiOwner # c
    BY <1>5, Rests, RestsApart DEF s, Orderly, UpRest, EndRest
  <2> QED BY <1>1, <1>5, <2>1, Rests, StepNames DEF Advance
<1>6. ASSUME NEW d \in Client, prog[c] = AskNow(d)
      PROVE  Advance(c, AskNow(d), Done) /\ uiOwner' = uiOwner /\ Request(d, "test")
  <2>1. s = Send(d, "test") /\ uiOwner # c
    BY <1>6, Rests, RestsApart DEF s, Orderly, UpRest, EndRest
  <2>2. s # Lock /\ s[1] = "send" /\ s[2] = d /\ s[3] = "test"
    BY <2>1, StepNames
  <2> QED BY <1>1, <1>6, <2>1, <2>2, Rests DEF Advance, Request
<1> QED BY <1>1, <1>2, <1>3, <1>4, <1>5, <1>6 DEF Orderly, UpRest, AskRest, EndRest

LEMMA UiStep ==
  ASSUME Orderly, Step("ui")
  PROVE  /\ UNCHANGED <<conn, inbox, odd, uiOwner>>
         /\ prog["ui"] # <<>> /\ prog' = [prog EXCEPT !["ui"] = Tail(prog["ui"])]
         /\ \/ Head(prog["ui"]) = Bar /\ owed' = owed
            \/ \E d \in Client, r \in {"search", "test"} :
                 Head(prog["ui"]) = Send(d, r) /\ Request(d, r)
<1> DEFINE s == Head(prog["ui"])
<1>1. s # Lock /\ uiOwner # "ui"
  <2>1. prog["ui"] # <<>>
    BY DEF Step, Idle
  <2> QED BY <2>1, UiHead, StepNames, Names DEF Orderly
<1>2. /\ prog["ui"] # <<>>
      /\ prog' = [prog EXCEPT !["ui"] = Tail(prog["ui"])]
      /\ uiOwner' = uiOwner
      /\ owed' = IF s[1] = "send" /\ conn[s[2]] = "heard"
                  THEN [owed EXCEPT ![s[2]] = s[3]] ELSE owed
      /\ UNCHANGED <<conn, inbox, odd>>
  BY <1>1 DEF Step, Idle
<1>3. \/ s = Bar
      \/ \E d \in Client, r \in {"search", "test"} : s = Send(d, r)
  BY <1>2, UiHead
<1> HIDE DEF s
<1>4. \/ s = Bar /\ owed' = owed
      \/ \E d \in Client, r \in {"search", "test"} : s = Send(d, r) /\ Request(d, r)
  <2>1. ASSUME NEW d \in Client, NEW r \in {"search", "test"}, s = Send(d, r)
        PROVE  Request(d, r)
    <3>1. s[1] = "send" /\ s[2] = d /\ s[3] = r
      BY <2>1, StepNames
    <3> QED BY <1>2, <3>1 DEF Request
  <2> QED BY <1>2, <1>3, <2>1, StepNames
<1> QED BY <1>2, <1>4 DEF s

LEMMA ListenerStep ==
  ASSUME Orderly, Step("listen")
  PROVE  /\ UNCHANGED <<conn, inbox, odd, uiOwner, owed>>
         /\ prog' = [prog EXCEPT !["listen"] = <<>>]
<1> DEFINE s == Head(prog["listen"])
<1>1. prog["listen"] = <<Invoke>>
  BY DEF Step, Idle, Orderly
<1>2. s = Invoke /\ Tail(prog["listen"]) = <<>> /\ uiOwner # "listen"
  BY <1>1, Names DEF Orderly
<1>3. s # Lock /\ s[1] # "send"
  BY <1>2, StepNames
<1> QED BY <1>2, <1>3 DEF Step

-----------------------------------------------------------------------------
(***************************************************************************)
(* Every step preserves the invariant.                                     *)
(***************************************************************************)
LEMMA Advanced ==
  ASSUME TypeOK, NEW t \in Threads, NEW p \in Seq(Steps), prog' = [prog EXCEPT ![t] = p]
  PROVE  /\ prog' \in [Threads -> Seq(Steps)]
         /\ prog'[t] = p
         /\ \A u \in Threads : u # t => prog'[u] = prog[u]
BY DEF TypeOK

LEMMA Requested ==
  ASSUME TypeOK, NEW d \in Client, NEW r \in {"search", "test"}, Request(d, r)
  PROVE  /\ owed' \in [Client -> {"none", "search", "test"}]
         /\ owed'[d] = IF conn[d] = "heard" THEN r ELSE owed[d]
         /\ \A c \in Client : c # d => owed'[c] = owed[c]
BY DEF TypeOK, Request

LEMMA InitLemma == Init => IInv
<1> SUFFICES ASSUME Init PROVE IInv
  OBVIOUS
<1>1. TypeOK
  <2>1. <<>> \in Seq(Steps) /\ <<>> \in Seq(Frames) /\ OddMax \in Nat
    BY ClientsAssumption
  <2> QED BY <2>1 DEF Init, TypeOK
<1>2. /\ \A t \in Threads : prog[t] = <<>>
      /\ \A c \in Client : owed[c] = "none" /\ inbox[c] = <<>>
      /\ uiOwner = "none"
  BY DEF Init
<1>3. Orderly
  <2>1. <<>> \in Seq(UiSteps)
    OBVIOUS
  <2> QED BY <1>2, <2>1, Names, Rests DEF Orderly, EndRest
<1>4. OneAtATime
  BY <1>2, Names DEF OneAtATime, InTouch, Searching, ReadersUp, UiSearch, EndRest
<1> QED BY <1>1, <1>3, <1>4 DEF IInv

\* A search goes on as long as the boards still to be asked are left alone.
LEMMA SearchKept ==
  ASSUME UiSearch, prog'["ui"] = prog["ui"],
         \A d \in Client : Undisturbed(d) => Undisturbed(d)'
  PROVE  UiSearch'
BY DEF UiSearch

\* While the tool tests, a thread that sends passes its turn to the board.
TestStep(t) ==
  \/ Advance(t, Done, <<>>) /\ owed' = owed
  \/ \E d \in Client : Advance(t, Ask(d), AskNow(d)) /\ owed' = owed
  \/ \E d \in Client : Advance(t, AskNow(d), Done) /\ Request(d, "test")

LEMMA TestKept ==
  ASSUME TypeOK, InTouch, Testing, NEW t \in Client \cup {"ui"}, TestStep(t),
         UNCHANGED <<conn, inbox>>, uiOwner' = "none"
  PROVE  InTouch' /\ Testing'
<1>0. /\ t \in Threads /\ Client \cup {"ui"} \subseteq Threads
      /\ Done \in EndRest /\ <<>> \in EndRest
      /\ Done \notin AskRest /\ <<>> \notin AskRest
      /\ \A d \in Client : Ask(d) \in AskRest /\ AskNow(d) \in AskRest
      /\ AskRest \cup EndRest \subseteq Seq(Steps)
  BY Names, RestsApart, RestsTyped DEF AskRest, EndRest
<1> USE DEF Advance
<1>1. /\ prog'[t] \in AskRest \cup EndRest
      /\ \A u \in Client \cup {"ui"} : u # t => prog'[u] = prog[u]
  <2>1. CASE Advance(t, Done, <<>>)
    BY <1>0, <2>1, Advanced
  <2>2. CASE \E d \in Client : Advance(t, Ask(d), AskNow(d))
    BY <1>0, <2>2, Advanced
  <2>3. CASE \E d \in Client : Advance(t, AskNow(d), Done)
    BY <1>0, <2>3, Advanced
  <2> QED BY <2>1, <2>2, <2>3 DEF TestStep
<1>2. \A u \in Client \cup {"ui"} : prog'[u] \in AskRest \cup EndRest
  BY <1>1 DEF Testing
<1>3. \A u \in Client \cup {"ui"} : LastIn(u)' <=> LastIn(u)
  BY DEF LastIn
<1>4. CASE owed' = owed /\ (prog'[t] \in AskRest => prog[t] \in AskRest)
  <2>1. \A u \in Client \cup {"ui"} : (Asking(u)' => Asking(u)) /\ (Owes(u)' <=> Owes(u))
    BY <1>1, <1>4 DEF Asking, Owes
  <2>2. Testing'
    BY <1>2, <1>3, <1>4, <2>1 DEF Testing, Turn
  <2>3. InTouch'
    BY <1>4 DEF InTouch
  <2> QED BY <2>2, <2>3
<1>5. ASSUME NEW d \in Client, Advance(t, AskNow(d), Done), Request(d, "test")
      PROVE  InTouch' /\ Testing'
  <2>1. /\ owed'[d] = IF conn[d] = "heard" THEN "test" ELSE owed[d]
        /\ \A c \in Client : c # d => owed'[c] = owed[c]
    BY <1>5, Requested
  <2>2. Asking(t) /\ ~Asking(t)'
    <3>1. prog'[t] = Done /\ prog[t] = AskNow(d)
      BY <1>0, <1>5, Advanced
    <3> QED BY <1>0, <3>1 DEF Asking
  <2>3. /\ \A u \in Client \cup {"ui"} : u # t => ~Turn(u)
        /\ ~Owes(t) /\ ~LastIn(t)
    <3>1. ~Owes(t) /\ ~LastIn(t)
      BY <2>2 DEF Testing, Owes, LastIn
    <3> QED BY <2>2, <3>1 DEF Testing, Turn
  <2>4. \A u \in Client \cup {"ui"} : ~Asking(u)' /\ ~LastIn(u)'
    BY <1>1, <1>3, <2>2, <2>3 DEF Turn, Asking
  <2>5. \A u \in Client \cup {"ui"} : Owes(u)' => u = d
    BY <2>1, <2>3 DEF Turn, Owes
  <2>6. \A c \in Client : owed'[c] # "search"
    BY <2>1 DEF Testing
  <2>7. Testing'
    BY <1>2, <2>4, <2>5, <2>6 DEF Testing, Turn
  <2>8. InTouch'
    BY <2>1 DEF InTouch
  <2> QED BY <2>7, <2>8
<1>6. CASE Advance(t, Done, <<>>) /\ owed' = owed
  BY <1>0, <1>4, <1>6, Advanced
<1>7. CASE \E d \in Client : Advance(t, Ask(d), AskNow(d)) /\ owed' = owed
  BY <1>0, <1>4, <1>7, Advanced
<1> QED BY <1>5, <1>6, <1>7 DEF TestStep

\* A step of a reader.
LEMMA ReaderStepLemma ==
  ASSUME IInv, NEW c \in Client, Step(c)
  PROVE  IInv'
<1>0. TypeOK /\ Orderly /\ c \in Threads /\ c # "ui" /\ c # "listen" /\ c # "none"
  BY Names DEF IInv
<1>1. UNCHANGED <<conn, inbox, odd>>
  BY <1>0, ReaderStep
<1>2. /\ UpKeep \in Seq(Steps) /\ Done \in Seq(Steps) /\ <<>> \in Seq(Steps)
      /\ \A d \in Client : AskNow(d) \in Seq(Steps)
  BY RestsTyped DEF UpRest, EndRest, AskRest
<1>3. CASE Advance(c, UpBegin, UpKeep) /\ uiOwner = "none" /\ uiOwner' = c /\ owed' = owed
  <2>1. /\ prog' \in [Threads -> Seq(Steps)] /\ prog[c] = UpBegin /\ prog'[c] = UpKeep
        /\ \A u \in Threads : u # c => prog'[u] = prog[u]
    BY <1>0, <1>2, <1>3, Advanced DEF Advance
  <2>2. TypeOK'
    BY <1>0, <1>1, <1>3, <2>1 DEF TypeOK
  <2>3. Orderly'
    BY <1>0, <1>3, <2>1, Names, RestsApart DEF Orderly, UpRest
  <2>4. OneAtATime'
    <3> SUFFICES ASSUME odd = 0 PROVE InTouch' /\ Searching'
      BY <1>1 DEF OneAtATime
    <3>1. ~Testing
      BY <2>1, RestsApart, Rests DEF Testing, AskRest, UpRest, EndRest
    <3>2. InTouch /\ Searching
      BY <3>1 DEF IInv, OneAtATime
    <3>3. InTouch'
      BY <1>1, <1>3, <3>2 DEF InTouch
    <3>4. \A d \in Client : Undisturbed(d) => Undisturbed(d)'
      BY <1>1, <1>3, <2>1, Names, Rests DEF Undisturbed
    <3>5. prog'["ui"] = prog["ui"]
      BY <1>0, <2>1, Names
    <3>6. ReadersUp'
      BY <1>1, <1>3, <2>1, <3>2, Names DEF Searching, ReadersUp, UpRest
    <3> QED BY <3>2, <3>3, <3>4, <3>5, <3>6, SearchKept DEF Searching
  <2> QED BY <2>2, <2>3, <2>4 DEF IInv
<1>4. CASE Advance(c, UpKeep, Done) /\ prog["ui"] = <<>> /\ UNCHANGED <<uiOwner, owed>>
  <2>1. /\ prog' \in [Threads -> Seq(Steps)] /\ prog[c] = UpKeep /\ prog'[c] = Done
        /\ \A u \in Threads : u # c => prog'[u] = prog[u]
    BY <1>0, <1>2, <1>4, Advanced DEF Advance
  <2>2. TypeOK'
    BY <1>0, <1>1, <1>4, <2>1 DEF TypeOK
  <2>3. Orderly'
    BY <1>0, <1>4, <2>1, Names, RestsApart DEF Orderly, EndRest
  <2>4. OneAtATime'
    <3> SUFFICES ASSUME odd = 0 PROVE InTouch' /\ Searching'
      BY <1>1 DEF OneAtATime
    <3>1. ~Testing
      BY <2>1, RestsApart, Rests DEF Testing, AskRest, UpRest, EndRest
    <3>2. InTouch /\ Searching
      BY <3>1 DEF IInv, OneAtATime
    <3>3. InTouch'
      BY <1>1, <1>4, <3>2 DEF InTouch
    <3>5. prog'["ui"] = <<>>
      BY <1>0, <1>4, <2>1, Names
    <3>6. ReadersUp'
      BY <1>1, <1>4, <2>1, <3>2, Names DEF Searching, ReadersUp, EndRest
    <3>7. UiSearch'
      BY <3>5 DEF UiSearch
    <3> QED BY <3>3, <3>6, <3>7 DEF Searching
  <2> QED BY <2>2, <2>3, <2>4 DEF IInv
<1>5. CASE Advance(c, Done, <<>>) /\ uiOwner \in {"none", c} /\ uiOwner' = "none" /\ owed' = owed
  <2>1. /\ prog' \in [Threads -> Seq(Steps)] /\ prog[c] = Done /\ prog'[c] = <<>>
        /\ \A u \in Threads : u # c => prog'[u] = prog[u]
    BY <1>0, <1>2, <1>5, Advanced DEF Advance
  <2>2. TypeOK'
    BY <1>0, <1>1, <1>5, <2>1 DEF TypeOK
  <2>3. Orderly'
    BY <1>0, <1>5, <2>1, Names, Rests DEF Orderly, EndRest
  <2>4. OneAtATime'
    <3> SUFFICES ASSUME odd = 0 PROVE InTouch' /\ (Searching' \/ Testing')
      BY <1>1 DEF OneAtATime
    <3>2. InTouch /\ (Searching \/ Testing)
      BY DEF IInv, OneAtATime
    <3>3. InTouch'
      BY <1>1, <1>5, <3>2 DEF InTouch
    <3>4. \A d \in Client : Undisturbed(d) => Undisturbed(d)'
      BY <1>1, <1>5, <2>1, Names DEF Undisturbed
    <3>5. prog'["ui"] = prog["ui"]
      BY <1>0, <2>1, Names
    <3>6. CASE Searching
      <4>1. ReadersUp'
        BY <1>1, <1>5, <2>1, <3>6, Names DEF Searching, ReadersUp, EndRest
      <4> QED BY <3>3, <3>4, <3>5, <3>6, <4>1, SearchKept DEF Searching
    <3>7. CASE Testing
      BY <1>0, <1>1, <1>5, <3>2, <3>7, TestKept DEF TestStep
    <3> QED BY <3>2, <3>6, <3>7
  <2> QED BY <2>2, <2>3, <2>4 DEF IInv
<1>6. ASSUME NEW d \in Client,
             \/ Advance(c, Ask(d), AskNow(d)) /\ UNCHANGED <<uiOwner, owed>>
             \/ Advance(c, AskNow(d), Done) /\ uiOwner' = uiOwner /\ Request(d, "test")
      PROVE  IInv'
  <2>1. /\ prog' \in [Threads -> Seq(Steps)] /\ prog[c] \in AskRest
        /\ prog'[c] \in AskRest \cup EndRest /\ prog'[c] # UpKeep
        /\ \A u \in Threads : u # c => prog'[u] = prog[u]
    <3>1. CASE Advance(c, Ask(d), AskNow(d))
      BY <1>0, <1>2, <3>1, Advanced, RestsApart DEF Advance, AskRest, UpRest
    <3>2. CASE Advance(c, AskNow(d), Done)
      BY <1>0, <1>2, <3>2, Advanced, RestsApart DEF Advance, AskRest, EndRest
    <3> QED BY <1>6, <3>1, <3>2
  <2>2. TypeOK'
    <3>1. owed' \in [Client -> {"none", "search", "test"}]
      BY <1>0, <1>6, Requested DEF TypeOK
    <3> QED BY <1>0, <1>1, <1>6, <2>1, <3>1 DEF TypeOK
  <2>3. Orderly'
    <3>1. uiOwner # c
      BY <1>0, <2>1, RestsApart DEF Orderly, AskRest, UpRest, EndRest
    <3> QED BY <1>0, <1>6, <2>1, <3>1, Names DEF Orderly
  <2>4. OneAtATime'
    <3> SUFFICES ASSUME odd = 0 PROVE InTouch' /\ Testing'
      BY <1>1 DEF OneAtATime
    <3>1. ~Searching
      BY <2>1, RestsApart DEF Searching, ReadersUp, AskRest
    <3>2. InTouch /\ Testing
      BY <3>1 DEF IInv, OneAtATime
    <3>3. uiOwner' = "none"
      BY <1>6, <3>2 DEF Testing
    <3>4. TestStep(c)
      BY <1>6 DEF TestStep
    <3> QED BY <1>0, <1>1, <3>2, <3>3, <3>4, TestKept
  <2> QED BY <2>2, <2>3, <2>4 DEF IInv
<1> QED BY <1>0, <1>3, <1>4, <1>5, <1>6, ReaderStep

\* A step of the user interface thread.
LEMMA UiStepLemma ==
  ASSUME IInv, Step("ui")
  PROVE  IInv'
<1>0. TypeOK /\ Orderly /\ "ui" \in Threads /\ "ui" \notin Client
  BY Names DEF IInv
<1> DEFINE q == prog["ui"]
<1>1. /\ UNCHANGED <<conn, inbox, odd, uiOwner>>
      /\ q # <<>> /\ prog' = [prog EXCEPT !["ui"] = Tail(q)]
      /\ \/ Head(q) = Bar /\ owed' = owed
         \/ \E d \in Client, r \in {"search", "test"} : Head(q) = Send(d, r) /\ Request(d, r)
  BY <1>0, UiStep
<1>2. /\ Len(q) \in Nat \ {0} /\ Head(q) = q[1]
      /\ Tail(q) \in Seq(UiSteps) /\ Len(Tail(q)) = Len(q) - 1
      /\ \A i \in 1 .. Len(Tail(q)) : Tail(q)[i] = q[i + 1]
  BY <1>0, <1>1, UiHead
<1>3. /\ prog' \in [Threads -> Seq(Steps)] /\ prog'["ui"] = Tail(q)
      /\ \A u \in Threads : u # "ui" => prog'[u] = prog[u]
  BY <1>0, <1>1, <1>2, Advanced, RestsTyped
<1>4. \A c \in Client : prog'[c] = prog[c]
  BY <1>3, Names
<1>5. TypeOK'
  <2>1. owed' \in [Client -> {"none", "search", "test"}]
    BY <1>0, <1>1, Requested DEF TypeOK
  <2> QED BY <1>0, <1>1, <1>3, <2>1 DEF TypeOK
<1>6. Orderly'
  BY <1>0, <1>1, <1>2, <1>3, <1>4, Names DEF Orderly
<1>7. OneAtATime'
  <2> SUFFICES ASSUME odd = 0 PROVE InTouch' /\ (Searching' \/ Testing')
    BY <1>1 DEF OneAtATime
  <2>1. InTouch /\ (Searching \/ Testing)
    BY DEF IInv, OneAtATime
  <2>2. CASE Searching
    <3>1. PICK d \in Client \cup {"none"} :
            /\ d = "none" => owed' = owed
            /\ d \in Client => q[1] = Send(d, "search") /\ Request(d, "search")
      <4>1. CASE Head(q) = Bar /\ owed' = owed
        BY <4>1, Names
      <4>2. ASSUME NEW d \in Client, NEW r \in {"search", "test"}, Head(q) = Send(d, r), Request(d, r)
            PROVE  r = "search"
        <5>1. PICK c \in Client : q[1] = Send(c, "search")
          BY <1>2, <2>2, <4>2, StepNames DEF Searching, UiSearch
        <5> QED BY <1>2, <4>2, <5>1, StepNames
      <4> QED BY <1>1, <1>2, <4>1, <4>2, Names
    <3>2. /\ \A c \in Client : c # d => owed'[c] = owed[c]
          /\ \A c \in Client : owed'[c] \in {owed[c], "search"}
          /\ \A c \in Client : conn[c] # "heard" => owed'[c] = owed[c]
      <4>1. CASE d = "none"
        BY <3>1, <4>1
      <4>2. CASE d \in Client
        BY <1>0, <3>1, <4>2, Requested
      <4> QED BY <4>1, <4>2
    <3>3. InTouch'
      BY <1>1, <2>1, <3>2 DEF InTouch
    <3>4. ReadersUp'
      BY <1>1, <1>4, <2>2, <3>2 DEF Searching, ReadersUp
    <3>5. \A i \in 1 .. Len(Tail(q)) :
            \E c \in Client : Tail(q)[i] = Send(c, "search") /\ Undisturbed(c)'
      <4> TAKE i \in 1 .. Len(Tail(q))
      <4>1. i + 1 \in 1 .. Len(q) /\ i + 1 # 1 /\ 1 \in 1 .. Len(q)
        BY <1>2
      <4>2. PICK c \in Client : q[i + 1] = Send(c, "search") /\ Undisturbed(c)
        BY <2>2, <4>1 DEF Searching, UiSearch
      <4>3. c # d
        BY <2>2, <3>1, <4>1, <4>2 DEF Searching, UiSearch
      <4>4. Undisturbed(c)'
        BY <1>1, <1>4, <3>2, <4>2, <4>3 DEF Undisturbed
      <4> QED BY <1>2, <4>2, <4>4
    <3>6. \A i, j \in 1 .. Len(Tail(q)) : Tail(q)[i] = Tail(q)[j] => i = j
      <4> TAKE i, j \in 1 .. Len(Tail(q))
      <4>1. i + 1 \in 1 .. Len(q) /\ j + 1 \in 1 .. Len(q)
        BY <1>2
      <4>2. q[i + 1] = q[j + 1] => i + 1 = j + 1
        BY <2>2, <4>1 DEF Searching, UiSearch
      <4> QED BY <1>2, <4>2
    <3>7. UiSearch'
      BY <1>3, <3>5, <3>6 DEF UiSearch
    <3> QED BY <3>3, <3>4, <3>7 DEF Searching
  <2>3. CASE Testing
    <3>1. q \in {Done} \cup {Ask(d) : d \in Client} \cup {AskNow(d) : d \in Client}
      BY <1>1, <2>3 DEF Testing, AskRest, EndRest
    <3>2. TestStep("ui")
      <4>1. CASE q = Done
        <5>1. Head(q) = Bar /\ Tail(q) = <<>>
          BY <4>1, Rests
        <5>2. owed' = owed
          BY <1>1, <5>1, StepNames
        <5> QED BY <1>1, <4>1, <5>1, <5>2 DEF TestStep, Advance
      <4>2. ASSUME NEW d \in Client, q = Ask(d) PROVE TestStep("ui")
        <5>1. Head(q) = Bar /\ Tail(q) = AskNow(d)
          BY <4>2, Rests
        <5>2. owed' = owed
          BY <1>1, <5>1, StepNames
        <5> QED BY <1>1, <4>2, <5>1, <5>2 DEF TestStep, Advance
      <4>3. ASSUME NEW d \in Client, q = AskNow(d) PROVE TestStep("ui")
        <5>1. Head(q) = Send(d, "test") /\ Tail(q) = Done
          BY <4>3, Rests
        <5>2. PICK e \in Client, r \in {"search", "test"} : Send(d, "test") = Send(e, r) /\ Request(e, r)
          BY <1>1, <5>1, StepNames
        <5>3. e = d /\ r = "test"
          BY <5>2, StepNames
        <5> QED BY <1>1, <4>3, <5>1, <5>2, <5>3 DEF TestStep, Advance
      <4> QED BY <3>1, <4>1, <4>2, <4>3
    <3>3. uiOwner' = "none"
      BY <1>1, <2>3 DEF Testing
    <3> QED BY <1>0, <1>1, <2>1, <2>3, <3>2, <3>3, TestKept
  <2> QED BY <2>1, <2>2, <2>3
<1> QED BY <1>5, <1>6, <1>7 DEF IInv

\* Steps that leave readers, user interface and the boards' answers alone.
LEMMA OthersKept ==
  ASSUME InTouch, Searching \/ Testing, UNCHANGED <<owed, inbox, uiOwner>>,
         \A t \in Client \cup {"ui"} : prog'[t] = prog[t],
         \A c \in Client : conn'[c] # "heard" => conn[c] # "heard" \/ (owed[c] = "none" /\ inbox[c] = <<>>)
  PROVE  InTouch' /\ (Searching' \/ Testing')
<1>1. InTouch'
  BY DEF InTouch
<1>2. CASE Searching
  <2>1. ReadersUp'
    BY <1>2 DEF Searching, ReadersUp
  <2>2. \A d \in Client : Undisturbed(d) => Undisturbed(d)'
    BY DEF Undisturbed
  <2> QED BY <1>1, <1>2, <2>1, <2>2, SearchKept DEF Searching
<1>3. CASE Testing
  <2>1. \A t \in Client \cup {"ui"} : /\ Asking(t)' <=> Asking(t)
                                      /\ Owes(t)' <=> Owes(t)
                                      /\ LastIn(t)' <=> LastIn(t)
    BY DEF Asking, Owes, LastIn
  <2> QED BY <1>1, <1>3, <2>1 DEF Testing, Turn
<1> QED BY <1>2, <1>3

\* The listener is not part of the exchange of requests and answers.
LEMMA ListenLemma ==
  ASSUME IInv,
         \/ Step("listen")
         \/ \E c \in Client : Accept(c) \/ AddHandler(c)
  PROVE  IInv'
<1>0. TypeOK /\ Orderly /\ "listen" \in Threads
  BY Names DEF IInv
<1> DEFINE Effect ==
      /\ UNCHANGED <<owed, inbox, uiOwner, odd>>
      /\ conn' \in [Client -> {"absent", "deaf", "heard", "gone"}]
      /\ \A c \in Client : conn'[c] # "heard" => conn[c] # "heard"
      /\ \E p \in {<<>>, <<Invoke>>} : prog' = [prog EXCEPT !["listen"] = p]
<1>1. Effect
  <2>1. CASE Step("listen")
    BY <1>0, <2>1, ListenerStep DEF TypeOK
  <2>2. ASSUME NEW c \in Client, Accept(c) PROVE Effect
    <3>1. prog' = [prog EXCEPT !["listen"] = <<>>]
      BY <1>0, <2>2 DEF Accept, Idle, TypeOK
    <3> QED BY <1>0, <2>2, <3>1 DEF Accept, TypeOK
  <2>3. ASSUME NEW c \in Client, AddHandler(c) PROVE Effect
    BY <1>0, <2>3 DEF AddHandler, TypeOK
  <2> QED BY <2>1, <2>2, <2>3
<1>2. PICK p \in {<<>>, <<Invoke>>} : prog' = [prog EXCEPT !["listen"] = p]
  BY <1>1
<1>3. /\ prog' \in [Threads -> Seq(Steps)] /\ prog'["listen"] = p
      /\ \A u \in Threads : u # "listen" => prog'[u] = prog[u]
  <2>1. p \in Seq(Steps)
    BY RestsTyped
  <2> QED BY <1>0, <1>2, <2>1, Advanced
<1>4. \A t \in Client \cup {"ui"} : prog'[t] = prog[t]
  BY <1>3, Names
<1>5. TypeOK'
  BY <1>0, <1>1, <1>3 DEF TypeOK
<1>6. Orderly'
  BY <1>0, <1>1, <1>3, <1>4 DEF Orderly
<1>7. OneAtATime'
  BY <1>1, <1>4, OthersKept DEF IInv, OneAtATime
<1> QED BY <1>5, <1>6, <1>7 DEF IInv

\* A board that hangs up takes its unanswered request with it.
LEMMA ClearLemma ==
  ASSUME IInv, NEW c \in Client, ClearConnection(c)
  PROVE  IInv'
<1>0. TypeOK /\ Orderly
  BY DEF IInv
<1>1. /\ UNCHANGED <<prog, uiOwner, inbox, odd>>
      /\ inbox[c] = <<>> /\ owed'[c] = "none"
      /\ \A d \in Client : d # c => owed'[d] = owed[d] /\ conn'[d] = conn[d]
      /\ owed' \in [Client -> {"none", "search", "test"}]
      /\ conn' \in [Client -> {"absent", "deaf", "heard", "gone"}]
  BY <1>0 DEF ClearConnection, TypeOK
<1>2. TypeOK' /\ Orderly'
  BY <1>0, <1>1 DEF TypeOK, Orderly
<1>3. OneAtATime'
  <2> SUFFICES ASSUME odd = 0 PROVE InTouch' /\ (Searching' \/ Testing')
    BY <1>1 DEF OneAtATime
  <2>1. InTouch /\ (Searching \/ Testing)
    BY DEF IInv, OneAtATime
  <2>2. InTouch'
    BY <1>1, <2>1 DEF InTouch
  <2>3. CASE Searching
    <3>1. ReadersUp'
      BY <1>1, <2>3 DEF Searching, ReadersUp
    <3>2. \A d \in Client : Undisturbed(d) => Undisturbed(d)'
      BY <1>1 DEF Undisturbed
    <3> QED BY <1>1, <2>2, <2>3, <3>1, <3>2, SearchKept DEF Searching
  <2>4. CASE Testing
    <3>1. \A t \in Client \cup {"ui"} : /\ Asking(t)' <=> Asking(t)
                                        /\ Owes(t)' => Owes(t)
                                        /\ LastIn(t)' <=> LastIn(t)
      BY <1>1 DEF Asking, Owes, LastIn
    <3>2. \A d \in Client : owed'[d] # "search"
      BY <1>1, <2>4 DEF Testing
    <3> QED BY <1>1, <2>2, <2>4, <3>1, <3>2 DEF Testing, Turn
  <2> QED BY <2>1, <2>3, <2>4
<1> QED BY <1>2, <1>3 DEF IInv

\* What scan puts together: the bar first, then one search for each board.
LEMMA ScanProg ==
  ASSUME NEW order \in SetToSeqs(Listed)
  PROVE  LET p == <<Bar>> \o [i \in DOMAIN order |-> Send(order[i], "search")]
         IN  /\ p \in Seq(UiSteps)
             /\ Len(p) \in Nat \ {0} /\ p[1] = Bar
             /\ \A i \in 1 .. Len(p) : i # 1 => \E c \in Client : p[i] = Send(c, "search")
             /\ \A i, j \in 1 .. Len(p) : p[i] = p[j] => i = j
<1> DEFINE n == Cardinality(Listed)
           r == [i \in DOMAIN order |-> Send(order[i], "search")]
           p == <<Bar>> \o r
<1>1. n \in Nat
  <2>1. Listed \subseteq Client /\ IsFiniteSet(Client)
    BY ClientsAssumption DEF Listed
  <2>2. IsFiniteSet(Listed)
    BY <2>1, FS_Subset
  <2> QED BY <2>2, FS_CardinalityType
<1>2. /\ order \in [1 .. n -> Listed]
      /\ \A i, j \in 1 .. n : i # j => order[i] # order[j]
  BY DEF SetToSeqs
<1> HIDE DEF n
<1>3. r \in Seq(UiSteps) /\ Len(r) = n /\ \A i \in 1 .. n : r[i] = Send(order[i], "search")
  <2>1. r \in [1 .. n -> UiSteps]
    BY <1>2 DEF UiSteps, Listed
  <2> QED BY <1>1, <1>2, <2>1
<1> HIDE DEF r
<1>4. <<Bar>> \in Seq(UiSteps) /\ Len(<<Bar>>) = 1 /\ <<Bar>>[1] = Bar
  BY DEF UiSteps
<1>5. /\ p \in Seq(UiSteps) /\ Len(p) = n + 1 /\ p[1] = Bar
      /\ \A i \in 1 .. n + 1 : i # 1 => p[i] = r[i - 1]
  BY <1>1, <1>3, <1>4, ConcatProperties
<1> HIDE DEF p
<1>6. ASSUME NEW i \in 1 .. Len(p), i # 1
      PROVE  i - 1 \in 1 .. n /\ p[i] = Send(order[i - 1], "search") /\ order[i - 1] \in Client
  BY <1>1, <1>2, <1>3, <1>5, <1>6 DEF Listed
<1>7. ASSUME NEW i \in 1 .. Len(p), NEW j \in 1 .. Len(p), p[i] = p[j]
      PROVE  i = j
  <2>1. CASE i # 1 /\ j # 1
    <3>1. order[i - 1] = order[j - 1]
      BY <1>6, <1>7, <2>1, StepNames
    <3> QED BY <1>1, <1>2, <1>5, <1>6, <2>1, <3>1
  <2>2. CASE i = 1 \/ j = 1
    BY <1>5, <1>6, <1>7, <2>2, StepNames
  <2> QED BY <2>1, <2>2
<1>8. /\ p \in Seq(UiSteps)
      /\ Len(p) \in Nat \ {0} /\ p[1] = Bar
      /\ \A i \in 1 .. Len(p) : i # 1 => \E c \in Client : p[i] = Send(c, "search")
      /\ \A i, j \in 1 .. Len(p) : p[i] = p[j] => i = j
  BY <1>1, <1>5, <1>6, <1>7
<1> QED BY <1>8 DEF p, r

\* A click: in turn it finds everything at rest.
LEMMA ClickLemma ==
  ASSUME IInv, NEW p \in Seq(UiSteps), Click(p),
         \/ \E c \in Client : p = Ask(c)
         \/ /\ p[1] = Bar
            /\ \A i \in 1 .. Len(p) : i # 1 => \E c \in Client : p[i] = Send(c, "search")
            /\ \A i, j \in 1 .. Len(p) : p[i] = p[j] => i = j
  PROVE  IInv'
<1>0. TypeOK /\ Orderly /\ "ui" \in Threads
  BY Names DEF IInv
<1>1. /\ prog' = [prog EXCEPT !["ui"] = p]
      /\ UNCHANGED <<conn, uiOwner, owed, inbox>>
      /\ Quiet \/ odd < OddMax
      /\ odd' = IF Quiet THEN odd ELSE odd + 1
  BY DEF Click
<1>2. /\ prog' \in [Threads -> Seq(Steps)] /\ prog'["ui"] = p
      /\ \A u \in Threads : u # "ui" => prog'[u] = prog[u]
  BY <1>0, <1>1, Advanced, RestsTyped
<1>3. /\ \A c \in Client : prog'[c] = prog[c]
      /\ prog'["listen"] = prog["listen"]
  BY <1>2, Names
<1>4. TypeOK'
  <2>1. odd' \in 0 .. OddMax
    BY <1>0, <1>1, ClientsAssumption DEF TypeOK
  <2> QED BY <1>0, <1>1, <1>2, <2>1 DEF TypeOK
<1>5. Orderly'
  BY <1>0, <1>1, <1>2, <1>3 DEF Orderly
<1>6. OneAtATime'
  <2> SUFFICES ASSUME odd' = 0 PROVE InTouch' /\ (Searching' \/ Testing')
    BY DEF OneAtATime
  <2>1. Quiet /\ odd = 0
    BY <1>0, <1>1 DEF TypeOK
  <2>2. \A c \in Client : Undisturbed(c) /\ Undisturbed(c)'
    <3>1. \A c \in Client : prog[c] = <<>> /\ owed[c] = "none" /\ inbox[c] = <<>>
      BY <2>1, Names DEF Quiet, Idle
    <3> QED BY <1>1, <1>3, <3>1 DEF Undisturbed
  <2>3. InTouch'
    BY <2>2 DEF InTouch, Undisturbed
  <2>4. uiOwner' = "none"
    BY <1>0, <1>1, <2>2, Rests DEF Orderly, Undisturbed
  <2>5. CASE \E c \in Client : p = Ask(c)
    <3>1. \A t \in Client : ~Turn(t)'
      <4>1. <<>> \notin AskRest
        BY RestsApart DEF AskRest, EndRest
      <4> QED BY <2>2, <4>1 DEF Undisturbed, Turn, Asking, Owes, LastIn
    <3>2. \A t \in Client \cup {"ui"} : prog'[t] \in AskRest \cup EndRest
      BY <1>2, <2>2, <2>5 DEF AskRest, EndRest, Undisturbed
    <3>3. Testing'
      BY <2>2, <2>4, <3>1, <3>2 DEF Testing, Undisturbed, Turn
    <3> QED BY <2>3, <3>3
  <2>6. CASE /\ p[1] = Bar
             /\ \A i \in 1 .. Len(p) : i # 1 => \E c \in Client : p[i] = Send(c, "search")
             /\ \A i, j \in 1 .. Len(p) : p[i] = p[j] => i = j
    <3>1. ReadersUp'
      BY <2>2 DEF ReadersUp, Undisturbed, EndRest
    <3>2. UiSearch'
      BY <1>2, <2>2, <2>6 DEF UiSearch
    <3> QED BY <2>3, <3>1, <3>2 DEF Searching
  <2> QED BY <2>5, <2>6
<1> QED BY <1>4, <1>5, <1>6 DEF IInv

LEMMA ScanLemma ==
  ASSUME IInv, Scan \/ RunTest
  PROVE  IInv'
<1>1. CASE Scan
  <2>1. PICK order \in SetToSeqs(Listed) :
          Click(<<Bar>> \o [i \in DOMAIN order |-> Send(order[i], "search")])
    BY <1>1 DEF Scan
  <2> DEFINE p == <<Bar>> \o [i \in DOMAIN order |-> Send(order[i], "search")]
  <2>2. /\ p \in Seq(UiSteps)
        /\ p[1] = Bar
        /\ \A i \in 1 .. Len(p) : i # 1 => \E c \in Client : p[i] = Send(c, "search")
        /\ \A i, j \in 1 .. Len(p) : p[i] = p[j] => i = j
    BY ScanProg
  <2>3. Click(p)
    BY <2>1
  <2> HIDE DEF p
  <2> QED BY <2>2, <2>3, ClickLemma
<1>2. CASE RunTest
  <2>1. PICK c \in Client : Click(Ask(c))
    BY <1>2 DEF RunTest, Listed, Ask
  <2>2. Ask(c) \in Seq(UiSteps)
    BY RestsTyped DEF AskRest
  <2> QED BY <2>1, <2>2, ClickLemma
<1> QED BY <1>1, <1>2

-----------------------------------------------------------------------------
\* The handlers that a frame can start.
LEMMA HandlersLemma ==
  /\ Handlers("up") = {UpBegin} /\ Handlers("mid") = {Done}
  /\ Handlers("last") = {Done} \cup {Ask(d) : d \in Client}
BY DEF Handlers, UpBegin, Done, Ask

\* The frames a read leaves behind.
LEMMA ReadRest ==
  ASSUME NEW q \in Seq(Frames), q # <<>>, NEW n \in 1 .. Len(q)
  PROVE  LET r == SubSeq(q, n + 1, Len(q))
         IN  /\ r \in Seq(Frames) /\ Len(r) = Len(q) - n
             /\ \A i \in 1 .. Len(r) : r[i] = q[i + n] /\ i + n \in 1 .. Len(q)
             /\ Head(q) = q[1] /\ Head(q) \in Frames /\ Len(q) \in Nat \ {0}
<1> DEFINE r == SubSeq(q, n + 1, Len(q))
<1>1. Len(q) \in Nat \ {0} /\ Head(q) = q[1] /\ Head(q) \in Frames
  OBVIOUS
<1>2. r \in Seq(Frames) /\ Len(r) = Len(q) - n /\ \A i \in 1 .. Len(r) : r[i] = q[n + 1 + i - 1]
  BY <1>1, SubSeqProperties
<1>3. \A i \in 1 .. Len(r) : n + 1 + i - 1 = i + n /\ i + n \in 1 .. Len(q)
  BY <1>1, <1>2
<1>4. \A i \in 1 .. Len(r) : r[i] = q[i + n]
  BY <1>2, <1>3
<1> QED BY <1>1, <1>2, <1>3, <1>4

\* A read: DEVICE_UP while the tool searches, an answer while it tests; the
\* last answer lets its reader ask next.
LEMMA ReadLemma ==
  ASSUME IInv, NEW c \in Client, Read(c)
  PROVE  IInv'
<1>0. TypeOK /\ Orderly /\ c \in Threads
  BY Names DEF IInv
<1> DEFINE q == inbox[c]
<1>1. PICK n \in 1 .. Len(q) : inbox' = [inbox EXCEPT ![c] = SubSeq(q, n + 1, Len(q))]
  BY DEF Read
<1> DEFINE r == SubSeq(q, n + 1, Len(q))
<1>2. /\ prog[c] = <<>> /\ q # <<>> /\ UNCHANGED <<conn, uiOwner, owed, odd>>
      /\ conn[c] = "deaf" => prog' = prog
      /\ conn[c] # "deaf" => \E h \in Handlers(Head(q)) : prog' = [prog EXCEPT ![c] = h]
  BY DEF Read, Idle
<1>3. /\ r \in Seq(Frames) /\ Len(r) = Len(q) - n
      /\ \A i \in 1 .. Len(r) : r[i] = q[i + n] /\ i + n \in 1 .. Len(q)
      /\ Head(q) = q[1] /\ Head(q) \in Frames /\ Len(q) \in Nat \ {0} /\ n \in 1 .. Len(q)
  <2>1. q \in Seq(Frames)
    BY <1>0 DEF TypeOK
  <2> HIDE DEF q
  <2> QED BY <1>2, <2>1, ReadRest
<1>4. /\ inbox' \in [Client -> Seq(Frames)] /\ inbox'[c] = r
      /\ \A d \in Client : d # c => inbox'[d] = inbox[d]
  <2> HIDE DEF r
  <2> QED BY <1>0, <1>1, <1>3 DEF TypeOK, r
<1> HIDE DEF r, q
<1>5. PICK h \in {<<>>, UpBegin, Done} \cup {Ask(d) : d \in Client} :
        /\ prog' = [prog EXCEPT ![c] = h]
        /\ conn[c] # "deaf" => h \in Handlers(Head(q))
  <2>1. CASE conn[c] = "deaf"
    <3>1. prog' = [prog EXCEPT ![c] = <<>>]
      BY <1>0, <1>2, <2>1 DEF TypeOK
    <3> QED BY <2>1, <3>1
  <2>2. CASE conn[c] # "deaf"
    <3>1. Handlers(Head(q)) \subseteq {UpBegin, Done} \cup {Ask(d) : d \in Client}
      BY <1>3, HandlersLemma DEF Frames
    <3> QED BY <1>2, <2>2, <3>1
  <2> QED BY <2>1, <2>2
<1>6. h \in UpRest \cup AskRest \cup EndRest /\ h # UpKeep
  BY RestsApart, Rests DEF UpRest, AskRest, EndRest
<1>7. /\ prog' \in [Threads -> Seq(Steps)] /\ prog'[c] = h
      /\ \A u \in Threads : u # c => prog'[u] = prog[u]
  <2>1. h \in Seq(Steps)
    BY <1>6, RestsTyped
  <2> QED BY <1>0, <1>5, <2>1, Advanced
<1>8. TypeOK'
  BY <1>0, <1>2, <1>4, <1>7 DEF TypeOK
<1>9. Orderly'
  <2>1. uiOwner # c
    BY <1>0, <1>2, Rests DEF Orderly
  <2> QED BY <1>0, <1>2, <1>6, <1>7, <2>1, Names DEF Orderly
<1>10. OneAtATime'
  <2> SUFFICES ASSUME odd = 0 PROVE InTouch' /\ (Searching' \/ Testing')
    BY <1>2 DEF OneAtATime
  <2>1. InTouch /\ (Searching \/ Testing)
    BY DEF IInv, OneAtATime
  <2>2. conn[c] = "heard" /\ h \in Handlers(Head(q))
    BY <1>2, <1>5, <2>1 DEF InTouch, q
  <2>3. InTouch'
    BY <1>2, <1>4, <2>1, <2>2 DEF InTouch
  <2>4. prog'["ui"] = prog["ui"]
    BY <1>7, Names
  <2>5. CASE Searching
    <3>1. Head(q) = "up" /\ \A i \in 1 .. Len(r) : r[i] = "up"
      BY <1>3, <2>5 DEF Searching, ReadersUp, q
    <3>2. h = UpBegin
      BY <2>2, <3>1, HandlersLemma
    <3>3. ReadersUp'
      <4>1. \A d \in Client : prog'[d] \in UpRest \cup EndRest
        BY <1>7, <2>5, <3>2, Names DEF Searching, ReadersUp, UpRest
      <4>2. \A d \in Client : \A i \in 1 .. Len(inbox'[d]) : inbox'[d][i] = "up"
        BY <1>4, <2>5, <3>1 DEF Searching, ReadersUp
      <4> QED BY <1>2, <2>5, <4>1, <4>2 DEF Searching, ReadersUp
    <3>4. \A d \in Client : Undisturbed(d) => Undisturbed(d)'
      BY <1>2, <1>4, <1>7, Names DEF Undisturbed, q
    <3> QED BY <2>3, <2>4, <2>5, <3>3, <3>4, SearchKept DEF Searching
  <2>6. CASE Testing
    <3>1. \A i \in 1 .. Len(q) : q[i] # "up" /\ (q[i] = "last" => i = Len(q))
      BY <2>6 DEF Testing, q
    <3>2. \A i \in 1 .. Len(r) : r[i] # "up" /\ (r[i] = "last" => i = Len(r))
      BY <1>3, <3>1
    <3>3. Head(q) \in {"mid", "last"}
      BY <1>3, <3>1 DEF Frames
    <3>4. h \in AskRest \cup EndRest
      BY <2>2, <3>3, HandlersLemma DEF AskRest, EndRest
    <3>5. /\ \A t \in Client \cup {"ui"} : prog'[t] \in AskRest \cup EndRest
          /\ \A t \in Client \cup {"ui"} : t # c => prog'[t] = prog[t]
      BY <1>7, <2>6, <3>4, Names DEF Testing
    <3>6. \A d \in Client : \A i \in 1 .. Len(inbox'[d]) :
            inbox'[d][i] # "up" /\ (inbox'[d][i] = "last" => i = Len(inbox'[d]))
      BY <1>4, <2>6, <3>2 DEF Testing
    <3>7. \A t \in Client \cup {"ui"} : Owes(t)' <=> Owes(t)
      BY <1>2 DEF Owes
    <3>8. \A t \in Client \cup {"ui"} : t # c => (Asking(t)' <=> Asking(t)) /\ (LastIn(t)' <=> LastIn(t))
      BY <1>4, <3>5 DEF Asking, LastIn
    <3>9. LastIn(c)' => LastIn(c)
      BY <1>3, <1>4 DEF LastIn, q
    <3>10. (Asking(c)' => LastIn(c)) /\ ~ (Asking(c)' /\ LastIn(c)')
      <4>1. CASE Head(q) = "mid"
        <5>1. h = Done /\ Done \notin AskRest
          BY <2>2, <4>1, HandlersLemma, RestsApart DEF AskRest, EndRest
        <5> QED BY <1>7, <5>1 DEF Asking
      <4>2. CASE Head(q) = "last"
        <5>0. 1 \in 1 .. Len(q) /\ q[1] = "last"
          BY <1>3, <4>2
        <5>1. 1 = Len(q) /\ LastIn(c)
          BY <3>1, <5>0 DEF LastIn, q
        <5>2. n \in 1 .. Len(q) /\ Len(r) = Len(q) - n
          BY <1>3
        <5>3. Len(r) = 0
          BY <5>1, <5>2
        <5> QED BY <1>4, <5>1, <5>3 DEF LastIn
      <4> QED BY <3>3, <4>1, <4>2
    <3>11. \A t \in Client \cup {"ui"} : Turn(t)' => Turn(t)
      BY <3>7, <3>8, <3>9, <3>10 DEF Turn
    <3>12. \A d \in Client : ~ (Asking(d) /\ Owes(d))' /\ ~ (Asking(d) /\ LastIn(d))' /\ ~ (Owes(d) /\ LastIn(d))'
      BY <2>6, <3>7, <3>8, <3>9, <3>10 DEF Testing
    <3>13. Testing'
      BY <1>2, <2>6, <3>5, <3>6, <3>11, <3>12 DEF Testing
    <3> QED BY <2>3, <3>13
  <2> QED BY <2>1, <2>5, <2>6
<1> QED BY <1>8, <1>9, <1>10 DEF IInv

\* A frame appended to a stream.
LEMMA AppendFrame ==
  ASSUME TypeOK, NEW c \in Client, NEW f \in Frames, inbox' = [inbox EXCEPT ![c] = Append(inbox[c], f)]
  PROVE  /\ inbox' \in [Client -> Seq(Frames)]
         /\ \A d \in Client : d # c => inbox'[d] = inbox[d]
         /\ Len(inbox[c]) \in Nat /\ Len(inbox'[c]) = Len(inbox[c]) + 1
         /\ \A i \in 1 .. Len(inbox'[c]) :
              IF i = Len(inbox'[c]) THEN inbox'[c][i] = f
                                    ELSE i \in 1 .. Len(inbox[c]) /\ inbox'[c][i] = inbox[c][i]
<1> DEFINE q == inbox[c]
           r == Append(q, f)
<1>1. q \in Seq(Frames)
  BY DEF TypeOK
<1> HIDE DEF q
<1>2. /\ r \in Seq(Frames) /\ Len(q) \in Nat /\ Len(r) = Len(q) + 1
      /\ \A i \in 1 .. Len(r) : IF i = Len(r) THEN r[i] = f
                                ELSE i \in 1 .. Len(q) /\ r[i] = q[i]
  BY <1>1
<1> HIDE DEF r
<1>3. /\ inbox' \in [Client -> Seq(Frames)] /\ inbox'[c] = r
      /\ \A d \in Client : d # c => inbox'[d] = inbox[d]
  BY <1>2 DEF TypeOK, r, q
<1> QED BY <1>2, <1>3 DEF q

\* An answer of a board passes its turn to its reader.
LEMMA AnswerLemma ==
  ASSUME IInv, NEW c \in Client, Answer(c)
  PROVE  IInv'
<1>0. TypeOK /\ Orderly
  BY DEF IInv
<1>1. PICK f \in {"up", "mid", "last"} :
        /\ f = "up" <=> owed[c] = "search"
        /\ inbox' = [inbox EXCEPT ![c] = Append(inbox[c], f)]
        /\ owed' = [owed EXCEPT ![c] = IF f = "mid" THEN owed[c] ELSE "none"]
        /\ owed[c] # "none" /\ UNCHANGED <<conn, prog, uiOwner, odd>>
  BY DEF Answer
<1>2. /\ inbox' \in [Client -> Seq(Frames)]
      /\ \A d \in Client : d # c => inbox'[d] = inbox[d]
      /\ Len(inbox[c]) \in Nat /\ Len(inbox'[c]) = Len(inbox[c]) + 1
      /\ \A i \in 1 .. Len(inbox'[c]) :
           IF i = Len(inbox'[c]) THEN inbox'[c][i] = f
                                 ELSE i \in 1 .. Len(inbox[c]) /\ inbox'[c][i] = inbox[c][i]
  BY <1>0, <1>1, AppendFrame DEF Frames
<1>3. /\ owed' \in [Client -> {"none", "search", "test"}]
      /\ owed'[c] = IF f = "mid" THEN owed[c] ELSE "none"
      /\ \A d \in Client : d # c => owed'[d] = owed[d]
  BY <1>0, <1>1 DEF TypeOK
<1>4. TypeOK' /\ Orderly'
  BY <1>0, <1>1, <1>2, <1>3 DEF TypeOK, Orderly
<1>5. OneAtATime'
  <2> SUFFICES ASSUME odd = 0 PROVE InTouch' /\ (Searching' \/ Testing')
    BY <1>1 DEF OneAtATime
  <2>1. InTouch /\ (Searching \/ Testing)
    BY DEF IInv, OneAtATime
  <2>2. InTouch'
    BY <1>1, <1>2, <1>3, <2>1 DEF InTouch
  <2>3. CASE Searching
    <3>1. f = "up"
      BY <1>0, <1>1, <2>3 DEF Searching, ReadersUp, TypeOK
    <3>2. \A d \in Client : \A i \in 1 .. Len(inbox'[d]) : inbox'[d][i] = "up"
      BY <1>2, <2>3, <3>1 DEF Searching, ReadersUp
    <3>3. ReadersUp'
      BY <1>1, <1>3, <2>3, <3>2 DEF Searching, ReadersUp
    <3>4. \A d \in Client : Undisturbed(d) => Undisturbed(d)'
      BY <1>1, <1>2, <1>3 DEF Undisturbed
    <3> QED BY <1>1, <2>2, <2>3, <3>3, <3>4, SearchKept DEF Searching
  <2>4. CASE Testing
    <3>1. f \in {"mid", "last"} /\ Owes(c) /\ ~Asking(c) /\ ~LastIn(c)
      BY <1>1, <2>4 DEF Testing, Owes
    <3>2. \A i \in 1 .. Len(inbox[c]) : inbox[c][i] # "last" /\ inbox[c][i] # "up"
      BY <2>4, <3>1 DEF Testing, LastIn
    <3>3. \A d \in Client : \A i \in 1 .. Len(inbox'[d]) :
            inbox'[d][i] # "up" /\ (inbox'[d][i] = "last" => i = Len(inbox'[d]))
      BY <1>2, <2>4, <3>1, <3>2 DEF Testing
    <3>4. \A t \in Client \cup {"ui"} : /\ Asking(t)' <=> Asking(t)
                                        /\ Owes(t)' => Owes(t)
                                        /\ t # c => (LastIn(t)' <=> LastIn(t))
      BY <1>1, <1>2, <1>3 DEF Asking, Owes, LastIn
    <3>5. ~ (Owes(c)' /\ LastIn(c)')
      <4>1. CASE f = "mid"
        BY <1>2, <3>2, <4>1 DEF LastIn
      <4>2. CASE f = "last"
        BY <1>3, <4>2 DEF Owes
      <4> QED BY <3>1, <4>1, <4>2
    <3>6. \A d \in Client : ~ (Asking(d) /\ Owes(d))' /\ ~ (Asking(d) /\ LastIn(d))' /\ ~ (Owes(d) /\ LastIn(d))'
      BY <2>4, <3>1, <3>4, <3>5 DEF Testing
    <3>7. \A t \in Client \cup {"ui"} : Turn(t)' => Turn(t)
      BY <3>1, <3>4 DEF Turn
    <3>8. \A d \in Client : owed'[d] # "search"
      BY <1>3, <2>4 DEF Testing
    <3>9. Testing'
      BY <1>1, <2>4, <3>3, <3>6, <3>7, <3>8 DEF Testing
    <3> QED BY <2>2, <3>9
  <2> QED BY <2>1, <2>3, <2>4
<1> QED BY <1>4, <1>5 DEF IInv

\* A frame out of turn is counted.
LEMMA UnaskedLemma ==
  ASSUME IInv, NEW c \in Client, Unasked(c)
  PROVE  IInv'
<1>0. TypeOK /\ Orderly
  BY DEF IInv
<1>1. PICK f \in Frames : inbox' = [inbox EXCEPT ![c] = Append(inbox[c], f)]
  BY DEF Unasked
<1>2. inbox' \in [Client -> Seq(Frames)]
  BY <1>0, <1>1, AppendFrame
<1>3. /\ UNCHANGED <<conn, prog, uiOwner, owed>>
      /\ odd' \in 0 .. OddMax /\ odd' # 0
  BY <1>0, ClientsAssumption DEF Unasked, TypeOK
<1>4. TypeOK' /\ Orderly' /\ OneAtATime'
  BY <1>0, <1>2, <1>3 DEF TypeOK, Orderly, OneAtATime
<1> QED BY <1>4 DEF IInv

LEMMA NextLemma ==
  ASSUME IInv, [Next]_vars
  PROVE  IInv'
<1>1. CASE Next
  <2>1. ASSUME NEW t \in Threads, Step(t) PROVE IInv'
    BY <2>1, ReaderStepLemma, UiStepLemma, ListenLemma DEF Threads
  <2>2. ASSUME NEW c \in Client,
               Accept(c) \/ AddHandler(c) \/ Read(c) \/ ClearConnection(c) \/ Answer(c) \/ Unasked(c)
        PROVE  IInv'
    BY <2>2, ListenLemma, ReadLemma, ClearLemma, AnswerLemma, UnaskedLemma
  <2>3. CASE Scan \/ RunTest
    BY <2>3, ScanLemma
  <2> QED BY <1>1, <2>1, <2>2, <2>3 DEF Next
<1>2. CASE UNCHANGED vars
  <2>1. TypeOK' /\ Orderly'
    BY <1>2 DEF IInv, vars, TypeOK, Orderly
  <2>2. OneAtATime'
    BY <1>2, OthersKept DEF IInv, vars, OneAtATime
  <2> QED BY <2>1, <2>2 DEF IInv
<1> QED BY <1>1, <1>2

-----------------------------------------------------------------------------
(***************************************************************************)
(* The results.                                                            *)
(***************************************************************************)
\* The inductive invariant holds for every finite set of boards, whatever
\* the operator and the boards do.
THEOREM InvTheorem == Spec => []IInv
BY InitLemma, NextLemma, PTL DEF Spec

\* SyncLock of lockObj and objForUI: as long as boards only answer and the
\* operator clicks only when nothing is under way, no set of threads waits
\* for each other.
THEOREM NeverDeadlocksTheorem == Spec => []UndisturbedNeverDeadlocks
<1>1. IInv => UndisturbedNeverDeadlocks
  <2> SUFFICES ASSUME IInv PROVE UndisturbedNeverDeadlocks
    OBVIOUS
  <2>1. odd = 0 => ~Deadlocked
    BY UndisturbedLemma DEF IInv, OneAtATime
  <2> QED BY <2>1 DEF IInv, UndisturbedNeverDeadlocks, TypeOK
<1> QED BY <1>1, InvTheorem, PTL

\* Every smallest deadlock is one of two: readers that send to each other
\* under their own lockObj, or a DEVICE_UP handler in Me.Invoke for a user
\* interface thread that waits for it.
THEOREM TwoShapesTheorem == Spec => []DeadlockHasTwoShapes
<1>1. IInv => DeadlockHasTwoShapes
  BY ShapesLemma DEF IInv
<1> QED BY <1>1, InvTheorem, PTL
=============================================================================
