-------------------------------- MODULE Stm --------------------------------
(***************************************************************************)
(* The software timer manager: STM_AllocTimer, STM_FreeTimer,              *)
(* STM_StartTimer, STM_StopTimer, STM_Proc and the tick interrupt of the   *)
(* production build (timer_handler), which increments a 32-bit tick and    *)
(* never toggles timeSector.                                               *)
(*                                                                         *)
(* The tick runs over 0 .. TickMax (STM_TIME_TICK_MAX) and lasts TickMs    *)
(* milliseconds.  A duration is at most DurMax milliseconds, less than a   *)
(* turn of the tick.  Interrupts are off while a timer is queued or        *)
(* removed, so each call is one step and ticks happen between the steps.   *)
(*                                                                         *)
(* Two variables are not the firmware's: phase is the hardware timer, the  *)
(* milliseconds since its last interrupt, and left[t] is history, the      *)
(* milliseconds still to go before timer t has waited as long as it was    *)
(* asked to.                                                               *)
(***************************************************************************)
EXTENDS Integers, SequencesExt

CONSTANTS TimerMax,    \* STM_TIMER_MAX: number of control blocks
          TickMax,     \* STM_TIME_TICK_MAX
          TickMs,      \* milliseconds per tick: 10, or 25 on the FPGA
          DurMax       \* bound on the durations that are started

ASSUME StmAssumption ==
  /\ TimerMax \in Nat \ {0}
  /\ TickMax \in Nat
  /\ TickMs \in Nat \ {0}
  /\ DurMax \in Nat /\ DurMax \div TickMs <= TickMax

Tid == 0 .. (TimerMax - 1)

VARIABLES timeTick, timeSector, timerCb, timerQueue, phase, left

vars == <<timeTick, timeSector, timerCb, timerQueue, phase, left>>

Cb == [valid : BOOLEAN, active : BOOLEAN, time : 0 .. TickMax, timeSector : 0 .. 1]

TypeOK ==
  /\ timeTick \in 0 .. TickMax
  /\ timeSector \in 0 .. 1
  /\ timerCb \in [Tid -> Cb]
  /\ timerQueue \in Seq(Tid)
  /\ phase \in 0 .. (TickMs - 1)
  /\ left \in [Tid -> 0 .. DurMax]

(* STM_Init *)
Init ==
  /\ timeTick = 0
  /\ timeSector = 0
  /\ timerCb = [t \in Tid |-> [valid |-> FALSE, active |-> FALSE,
                               time |-> 0, timeSector |-> 0]]
  /\ timerQueue = << >>
  /\ phase = 0
  /\ left = [t \in Tid |-> 0]

-----------------------------------------------------------------------------
(* A millisecond passes.                                                   *)
OneLess == [t \in Tid |-> IF left[t] > 0 THEN left[t] - 1 ELSE 0]

(* The hardware timer counts, without an interrupt.                        *)
Elapse ==
  /\ phase < TickMs - 1
  /\ phase' = phase + 1
  /\ left' = OneLess
  /\ UNCHANGED <<timeTick, timeSector, timerCb, timerQueue>>

(* timer_handler, the tick interrupt of the production build.              *)
Tick ==
  /\ phase = TickMs - 1
  /\ phase' = 0
  /\ left' = OneLess
  /\ timeTick' = (timeTick + 1) % (TickMax + 1)
  /\ UNCHANGED <<timeSector, timerCb, timerQueue>>

(* The first control block that is not valid; none left returns            *)
(* STM_TIMER_ID_NULL and changes nothing.                                  *)
STM_AllocTimer ==
  \E t \in Tid :
    /\ ~timerCb[t].valid
    /\ \A u \in Tid : u < t => timerCb[u].valid
    /\ timerCb' = [timerCb EXCEPT ![t].valid = TRUE]
    /\ UNCHANGED <<timeTick, timeSector, timerQueue, phase, left>>

(* Mutant: an active timer is freed as well.                               *)
STM_FreeTimer_Active(t) ==
  /\ timerCb[t].valid
  /\ timerCb' = [timerCb EXCEPT ![t].valid = FALSE, ![t].active = FALSE]
  /\ UNCHANGED <<timeTick, timeSector, timerQueue, phase, left>>

(* STATUS_FAILURE, and nothing happens, for an active timer.               *)
STM_FreeTimer(t) ==
  /\ timerCb[t].valid
  /\ ~timerCb[t].active
  /\ timerCb' = [timerCb EXCEPT ![t].valid = FALSE]
  /\ UNCHANGED <<timeTick, timeSector, timerQueue, phase, left>>

-----------------------------------------------------------------------------
(* STM_StartTimer *)

(* The smallest index of a set of indices, or 0.                           *)
First(S) == IF S = {} THEN 0 ELSE CHOOSE i \in S : \A j \in S : i <= j

Indices == 1 .. Len(timerQueue)

(* Mutant: a timer of this sector is appended behind those of the next.    *)
PlaceOf_NoSector(sec, at) ==
  First({i \in Indices : at <= timerCb[timerQueue[i]].time})

(* The division of the C macro drops what is left of the duration.         *)
STM_MS_TO_TICK(x) == x \div TickMs

(* Mutant: the tick that is running counts as a whole one.                 *)
Expiry_Short(dur) ==
  (timeTick + (IF dur < TickMs THEN 0 ELSE STM_MS_TO_TICK(dur) - 1)) % (TickMax + 1)

(* The queued timer that a timer with this expiry goes in front of:        *)
(* sec is its time sector, at its tick; 0 is the end of the queue.         *)
PlaceOf(sec, at) ==
  LET cb(i)   == timerCb[timerQueue[i]]
      \* where the scan of the current time sector ends
      other   == First({i \in Indices : cb(i).timeSector # timeSector})
      inFront == {i \in Indices : cb(i).timeSector = sec /\ at <= cb(i).time}
      current == {i \in inFront : other = 0 \/ i < other}
  IN  IF sec = timeSector
        THEN IF current # {} THEN First(current) ELSE other
        ELSE First({i \in inFront : other # 0 /\ i >= other})

(* timer->time: a u32 addition.                                            *)
Expiry(dur) == (timeTick + STM_MS_TO_TICK(dur)) % (TickMax + 1)

Enqueue(t, place) ==
  IF place = 0 THEN Append(timerQueue, t) ELSE InsertAt(timerQueue, place, t)

(* An invalid timer is refused and an active one left alone.  A tick that  *)
(* overflows puts the timer into the other time sector.                    *)
STM_StartTimer(t, dur) ==
  LET at  == Expiry(dur)
      sec == IF at < timeTick THEN 1 - timeSector ELSE timeSector
  IN  /\ timerCb[t].valid
      /\ ~timerCb[t].active
      /\ timerCb' = [timerCb EXCEPT ![t].active = TRUE, ![t].time = at,
                                    ![t].timeSector = sec]
      /\ timerQueue' = Enqueue(t, PlaceOf(sec, at))
      /\ left' = [left EXCEPT ![t] = dur]
      /\ UNCHANGED <<timeTick, timeSector, phase>>

(* DLIST_Remove: the links around t are joined.                            *)
Dequeue(t) == RemoveAt(timerQueue, First({i \in Indices : timerQueue[i] = t}))

STM_StopTimer(t) ==
  /\ timerCb[t].active
  /\ timerCb' = [timerCb EXCEPT ![t].active = FALSE]
  /\ timerQueue' = Dequeue(t)
  /\ left' = [left EXCEPT ![t] = 0]
  /\ UNCHANGED <<timeTick, timeSector, phase>>

(* One turn of the loop of STM_Proc: the head of the queue is fired when   *)
(* it belongs to the current time sector and is due.  The handler runs     *)
(* after the timer was removed and may start or free it again, which is a  *)
(* step of its own.                                                        *)
Due ==
  /\ timerQueue # << >>
  /\ timerCb[Head(timerQueue)].timeSector = timeSector
  /\ timerCb[Head(timerQueue)].time <= timeTick

STM_Proc ==
  /\ Due
  /\ timerQueue' = Tail(timerQueue)
  /\ timerCb' = [timerCb EXCEPT ![Head(timerQueue)].active = FALSE]
  /\ left' = [left EXCEPT ![Head(timerQueue)] = 0]
  /\ UNCHANGED <<timeTick, timeSector, phase>>

-----------------------------------------------------------------------------
Next ==
  \/ Elapse
  \/ Tick
  \/ STM_AllocTimer
  \/ \E t \in Tid : STM_FreeTimer(t) \/ STM_StopTimer(t)
  \/ \E t \in Tid, dur \in 0 .. DurMax : STM_StartTimer(t, dur)
  \/ STM_Proc

(* The hardware timer runs and the main loop keeps calling STM_Proc;       *)
(* nobody has to start or stop a timer.                                    *)
Spec == Init /\ [][Next]_vars /\ WF_vars(Elapse \/ Tick) /\ WF_vars(STM_Proc)

-----------------------------------------------------------------------------
(* The queue holds exactly the active timers, each of them once, and they  *)
(* are all allocated: DLIST_Remove never meets a timer that is not linked, *)
(* and a control block handed out by STM_AllocTimer is not queued.         *)
QueueHoldsActive ==
  /\ TypeOK
  /\ \A t \in Tid : timerCb[t].active => timerCb[t].valid
  /\ \A t \in Tid : timerCb[t].active <=> t \in ToSet(timerQueue)
  /\ IsInjective(timerQueue)

(* STM_StartTimer keeps the timers of the current sector first and each    *)
(* sector "in the increasing order", whatever happened since the queued    *)
(* timers were started; STM_Proc relies on it when it stops at the first   *)
(* timer that is not due.                                                  *)
QueueInOrder ==
  \A i, j \in Indices : i < j =>
    LET a == timerCb[timerQueue[i]]
        b == timerCb[timerQueue[j]]
    IN  \/ a.timeSector = b.timeSector /\ a.time <= b.time
        \/ a.timeSector = timeSector /\ b.timeSector # timeSector

(* STM_MS_TO_TICK drops up to TickMs - 1 milliseconds of a duration, and   *)
(* the first tick that is counted was already running, for up to           *)
(* TickMs - 1 milliseconds.  A timer fires no earlier than that before its *)
(* duration has passed, so always less than two ticks early, the overflow  *)
(* of the tick included.  With TickMs = 1 no timer fires early at all.     *)
LessThanTwoTicksEarly == Due => left[Head(timerQueue)] <= 2 * (TickMs - 1)

(* Comment in STM_StartTimer, of a timer whose tick overflows: it "will    *)
(* expires in the next the time sector instead of the current time         *)
(* sector".                                                                *)
OverflowedTimerExpires ==
  \A t \in Tid :
    timerCb[t].active /\ timerCb[t].timeSector # timeSector
      ~> ~timerCb[t].active
=============================================================================
