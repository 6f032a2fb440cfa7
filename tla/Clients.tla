------------------------------ MODULE Clients -------------------------------
(***************************************************************************)
(* The threads of the tool and the locks between them: the user interface  *)
(* thread, the listener, and a reader thread per connected board.          *)
(*                                                                         *)
(* doRead of a ConnectedClient raises dataReceived under the lockObj of    *)
(* its client, and the handler sends to the same or to the other board     *)
(* under that one's lockObj.  objForUI guards the progress bar and the     *)
(* message box; the DEVICE_UP handler keeps it while Me.Invoke waits for   *)
(* the user interface thread.  SyncLock is reentrant.                      *)
(*                                                                         *)
(* prog[t] is what thread t still has to do in the handler it is in; a     *)
(* reader holds its lockObj as long as its program is not empty.  Which    *)
(* request follows which is the matter of HomeScreen; here a handler may   *)
(* send any one request.                                                   *)
(***************************************************************************)
EXTENDS Naturals, Sequences, SequencesExt, FiniteSets

CONSTANTS Client,      \* boards
          StreamMax,   \* bound: frames in a TCP stream
          OddMax       \* bound: clicks and frames that come out of turn

ASSUME ClientsAssumption ==
  /\ IsFiniteSet(Client) /\ Client \cap {"ui", "listen", "none"} = {}
  /\ StreamMax \in Nat /\ OddMax \in Nat

Threads == Client \cup {"ui", "listen"}

VARIABLES conn,        \* per board: state of its ConnectedClient
          prog,        \* per thread: the rest of its handler
          uiOwner,     \* the thread that keeps objForUI, or "none"
          owed,        \* per board: the request it has not answered
          inbox,       \* per board: frames in the TCP stream
          odd          \* history: clicks and frames that came out of turn

vars == <<conn, prog, uiOwner, owed, inbox, odd>>

(***************************************************************************)
(* The steps of a handler.  "bar" is updateBar, clearBar or dumpMsg, which *)
(* take objForUI and give it back; "lock" keeps it to the end of prog[t].  *)
(***************************************************************************)
Bar == <<"bar">>
Lock == <<"lock">>
Invoke == <<"invoke">>
Send(c, request) == <<"send", c, request>>

Steps == {Bar, Lock, Invoke} \cup {Send(c, r) : c \in Client, r \in {"search", "test"}}

Frames == {"up", "mid", "last"}   \* DEVICE_UP, a confirmation with more to come, the end

Init ==
  /\ conn = [c \in Client |-> "absent"]
  /\ prog = [t \in Threads |-> <<>>]
  /\ uiOwner = "none"
  /\ owed = [c \in Client |-> "none"] /\ inbox = [c \in Client |-> <<>>]
  /\ odd = 0

Idle(t) == prog[t] = <<>>

\* Nothing is asked, answered or handled.
Quiet ==
  /\ \A t \in Threads \ {"listen"} : Idle(t)
  /\ \A c \in Client : owed[c] = "none" /\ inbox[c] = <<>>

-----------------------------------------------------------------------------
\* The threads that keep thread t from its step s.
Holder(t, s) ==
  CASE s[1] \in {"bar", "lock"} -> {uiOwner} \ {"none", t}
    [] s[1] = "send"            -> {c \in Client : c = s[2] /\ ~Idle(c)} \ {t}
    [] s[1] = "invoke"          -> IF Idle("ui") THEN {} ELSE {"ui"}
    [] OTHER                    -> {}

(* Mutant: objForUI is not released at the end. *)
Step_Mutation(t) ==
  /\ ~Idle(t)
  /\ LET s == Head(prog[t])
     IN /\ Holder(t, s) = {}
        /\ prog' = [prog EXCEPT ![t] = Tail(@)]
        /\ uiOwner' = IF s = Lock THEN t ELSE uiOwner
        /\ owed' = IF s[1] = "send" /\ conn[s[2]] = "heard"
                   THEN [owed EXCEPT ![s[2]] = s[3]] ELSE owed
  /\ UNCHANGED <<conn, inbox, odd>>

\* SendMessage writes to a connected board; an exception is only reported.
Step(t) ==
  /\ ~Idle(t)
  /\ LET s == Head(prog[t])
     IN /\ Holder(t, s) = {}
        /\ prog' = [prog EXCEPT ![t] = Tail(@)]
        /\ uiOwner' = CASE s = Lock -> t
                        [] uiOwner = t /\ Len(prog[t]) = 1 -> "none"
                        [] OTHER -> uiOwner
        /\ owed' = IF s[1] = "send" /\ conn[s[2]] = "heard"
                   THEN [owed EXCEPT ![s[2]] = s[3]] ELSE owed
  /\ UNCHANGED <<conn, inbox, odd>>

-----------------------------------------------------------------------------
(***************************************************************************)
(* doListen: the reader thread starts in the constructor, before           *)
(* AddHandler; then the client is listed and its address shown.            *)
(***************************************************************************)
Accept(c) ==
  /\ Idle("listen") /\ \A d \in Client : conn[d] # "deaf"
  /\ conn[c] \in {"absent", "gone"}
  /\ conn' = [conn EXCEPT ![c] = "deaf"]
  /\ UNCHANGED <<prog, uiOwner, owed, inbox, odd>>

(* Mutant: objForUI is held around Me.Invoke here too. *)
AddHandler_Mutation(c) ==
  /\ conn[c] = "deaf"
  /\ conn' = [conn EXCEPT ![c] = "heard"]
  /\ prog' = [prog EXCEPT !["listen"] = <<Lock, Invoke>>]
  /\ UNCHANGED <<uiOwner, owed, inbox, odd>>

AddHandler(c) ==
  /\ conn[c] = "deaf"
  /\ conn' = [conn EXCEPT ![c] = "heard"]
  /\ prog' = [prog EXCEPT !["listen"] = <<Invoke>>]
  /\ UNCHANGED <<uiOwner, owed, inbox, odd>>

(***************************************************************************)
(* doRead and messageReceived.  A read takes all that has arrived and the  *)
(* handler parses the first frame of it; without a handler it is lost.     *)
(***************************************************************************)
Handlers(f) ==
  CASE f = "up"   -> {<<Lock, Invoke, Bar>>}
    [] f = "mid"  -> {<<Bar>>}
    [] f = "last" -> {<<Bar>>} \cup
                     {<<Bar, Send(c, "test"), Bar>> : c \in Client}

Read(c) ==
  /\ Idle(c) /\ inbox[c] # <<>> /\ conn[c] \in {"deaf", "heard"}
  /\ \E n \in 1 .. Len(inbox[c]) :
       inbox' = [inbox EXCEPT ![c] = SubSeq(@, n + 1, Len(@))]
  /\ IF conn[c] = "deaf" THEN UNCHANGED prog
     ELSE \E h \in Handlers(Head(inbox[c])) : prog' = [prog EXCEPT ![c] = h]
  /\ UNCHANGED <<conn, uiOwner, owed, odd>>

\* A read of nothing: clearConnection ends the thread, the client stays listed.
ClearConnection(c) ==
  /\ Idle(c) /\ inbox[c] = <<>> /\ conn[c] = "heard" /\ conn' = [conn EXCEPT ![c] = "gone"]
  /\ owed' = [owed EXCEPT ![c] = "none"]
  /\ UNCHANGED <<prog, uiOwner, inbox, odd>>

-----------------------------------------------------------------------------
(***************************************************************************)
(* The user interface thread: scan, and the buttons that send a request.   *)
(***************************************************************************)
Listed == {c \in Client : conn[c] = "heard"}

Click(p) ==
  /\ Idle("ui")
  /\ prog' = [prog EXCEPT !["ui"] = p]
  /\ Quiet \/ odd < OddMax
  /\ odd' = IF Quiet THEN odd ELSE odd + 1
  /\ UNCHANGED <<conn, uiOwner, owed, inbox>>

(* Mutant: the message box is cleared after the requests. *)
Scan_Mutation ==
  /\ Listed # {}
  /\ \E order \in SetToSeqs(Listed) :
       Click([i \in DOMAIN order |-> Send(order[i], "search")] \o <<Bar>>)

Scan ==
  /\ Listed # {}
  /\ \E order \in SetToSeqs(Listed) :
       Click(<<Bar>> \o [i \in DOMAIN order |-> Send(order[i], "search")])

RunTest == \E c \in Listed : Click(<<Bar, Send(c, "test"), Bar>>)

-----------------------------------------------------------------------------
\* The boards behind their relays (external).  DEVICE_SEARCH is answered by
\* DEVICE_UP; a test request by a confirmation and perhaps an event after it.
Answer(c) ==
  /\ owed[c] # "none" /\ Len(inbox[c]) < StreamMax
  /\ \E f \in IF owed[c] = "search" THEN {"up"} ELSE {"mid", "last"} :
       /\ inbox' = [inbox EXCEPT ![c] = Append(@, f)]
       /\ owed' = [owed EXCEPT ![c] = IF f = "mid" THEN @ ELSE "none"]
  /\ UNCHANGED <<conn, prog, uiOwner, odd>>

\* A board that was reset, or a confirmation that comes late.
Unasked(c) ==
  /\ conn[c] \in {"deaf", "heard"} /\ Len(inbox[c]) < StreamMax
  /\ \E f \in Frames : inbox' = [inbox EXCEPT ![c] = Append(@, f)]
  /\ odd < OddMax /\ odd' = odd + 1
  /\ UNCHANGED <<conn, prog, uiOwner, owed>>

Next ==
  \/ \E t \in Threads : Step(t)
  \/ \E c \in Client : \/ Accept(c) \/ AddHandler(c) \/ Read(c) \/ ClearConnection(c)
                       \/ Answer(c) \/ Unasked(c)
  \/ Scan \/ RunTest

(***************************************************************************)
(* Threads are scheduled, and a thread gets a lock that comes free again   *)
(* and again: doRead sleeps 5 ms after it has released its lockObj.        *)
(* Boards and operator do as they like.                                    *)
(***************************************************************************)
Spec == Init /\ [][Next]_vars /\ \A t \in Threads : SF_vars(Step(t))

-----------------------------------------------------------------------------
(***************************************************************************)
(* Properties                                                              *)
(***************************************************************************)
TypeOK ==
  /\ conn \in [Client -> {"absent", "deaf", "heard", "gone"}]
  /\ prog \in [Threads -> Seq(Steps)]
  /\ uiOwner \in Threads \cup {"none"}
  /\ owed \in [Client -> {"none", "search", "test"}]
  /\ inbox \in [Client -> Seq(Frames)]
  /\ odd \in 0 .. OddMax

WaitsFor(t) == IF Idle(t) THEN {} ELSE Holder(t, Head(prog[t]))

\* The threads of S wait for each other.
Deadlock(S) == S # {} /\ \A t \in S : WaitsFor(t) \cap S # {}

Deadlocked == \E S \in SUBSET Threads : Deadlock(S)

\* Handlers take lockObj and objForUI in conflicting orders, but as long as
\* boards only answer and the operator clicks only when nothing is under way,
\* no order of the threads makes them wait for each other.
UndisturbedNeverDeadlocks == TypeOK /\ (Deadlocked => odd > 0)

\* Two readers meet in each other's lockObj, or a reader waits in Me.Invoke
\* for a user interface thread that waits for it: there is no third way, and
\* the listener is never part of it.
DeadlockHasTwoShapes ==
  \A S \in SUBSET Threads :
    Deadlock(S) /\ (\A R \in SUBSET S : Deadlock(R) => R = S) =>
      \/ S \subseteq Client /\ \A c \in S : Head(prog[c])[1] = "send"
      \/ "ui" \in S /\ \E c \in S \cap Client : Head(prog[c]) = Invoke /\ uiOwner = c

\* A handler that has begun comes to its end, or there is a deadlock.
HandlersEnd == \A t \in Threads : ~Idle(t) ~> (Idle(t) \/ Deadlocked)
=============================================================================
