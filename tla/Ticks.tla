------------------------------- MODULE Ticks --------------------------------
(***************************************************************************)
(* How the threads of a VM get the processor: the timer of TickTimer ticks *)
(* while the VM runs, the interpreter takes note of the tick and has the   *)
(* running thread yield, and the scheduler of RunQueue picks the next one. *)
(* Every VM has run queues of its own, with one thread when it starts; the *)
(* timers are the process's and outlive it.                                *)
(***************************************************************************)
EXTENDS RunQueue, TickTimer

ticksVars == <<vars, timerVars>>

TicksInit ==
  /\ TimerInit
  /\ queue = NoRing /\ count = NoCount /\ phase = "idle"
  /\ current \in Thread /\ priority \in [Thread -> Priority]

(* Timers and VMs. *)
Clock  == Elapse /\ UNCHANGED vars
Expire == gb300_check_timers /\ UNCHANGED vars

Start ==
  /\ StartVM
  /\ FirstThread

(* The threads are gone with the VM. *)
Gone ==
  /\ EndVM \/ LeaveVM \/ StartFails
  /\ queue' = NoRing /\ count' = NoCount /\ phase' = "idle"
  /\ UNCHANGED <<current, priority>>

(* Threads: the running one yields because it calls Thread.yield, or       *)
(* because it takes note of a tick ...                                     *)
CallYield == vm = "running" /\ Yield /\ UNCHANGED timerVars
TickYield == Yield /\ TakeTick

(* ... or it gives the processor away, or does something to others.        *)
Schedule(step) == vm = "running" /\ step /\ UNCHANGED timerVars

PickNext == Schedule(Pick)
GoIdle   == Schedule(Idle)

TicksNext ==
  \/ Clock \/ Expire
  \/ Start \/ Gone
  \/ CallYield \/ TickYield
  \/ PickNext \/ GoIdle
  \/ Schedule(Block)
  \/ \E t \in Thread : Schedule(Wake(t))
  \/ \E t \in Settable, p \in Priority : Schedule(set_priority(t, p))

(* The clock goes on, and a VM that runs checks the timers in its          *)
(* interpreter loop, at every screen flush and whenever it yields; the     *)
(* scheduler goes on, and a tick is remembered until the thread that runs  *)
(* Java takes note of it.  Nothing is assumed of what the threads do.      *)
TicksFairness ==
  /\ WF_ticksVars(Clock) /\ WF_ticksVars(Expire)
  /\ WF_ticksVars(PickNext) /\ WF_ticksVars(GoIdle) /\ WF_ticksVars(TickYield)

TicksSpec == TicksInit /\ [][TicksNext]_ticksVars

TicksFairSpec == TicksSpec /\ TicksFairness

-----------------------------------------------------------------------------
(* Every active thread runs again, whatever its priority and whatever the  *)
(* others do, provided that from some time on no thread blocks or changes  *)
(* priority (Scheduler.cpp 226 and 285, without the starvation that comes  *)
(* of blocking): the ticks give everyone a turn.                           *)
OnlyYields ==
  /\ vm = "running" /\ vm' = "running"
  /\ ~Block
  /\ \A t \in Settable, p \in Priority : ~set_priority(t, p)

TicksShare ==
  (<>[][OnlyYields]_ticksVars) =>
    \A t \in Thread : t \in Active ~> (Running(t) \/ vm # "running")
=============================================================================
