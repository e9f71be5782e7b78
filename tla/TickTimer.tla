------------------------------ MODULE TickTimer ------------------------------
(***************************************************************************)
(* The software timers of the port (psp_mips/midp/time.c) and their only   *)
(* user in this build, the tick timer of the CLDC scheduler                *)
(* (OS_javacall.cpp), over the VMs that one process runs.  The ticks make  *)
(* the interpreter hand the processor from thread to thread.  A VM that    *)
(* the pause menu leaves by longjmp keeps its slot, and a VM that gets no  *)
(* slot fails to start and runs the whole clean-up on the statics of the   *)
(* last one.                                                               *)
(***************************************************************************)
EXTENDS Naturals, FiniteSets

CONSTANTS
  MaxTimers,   \* MAX_TIMERS (5)
  Interval     \* TickInterval, in units of the clock

ASSUME TimerAssumption ==
  /\ MaxTimers \in Nat \ {0}
  /\ Interval \in Nat \ {0}

VARIABLES
  taken,     \* the slots i with timer_slots[i] # 0
  active_timers_count,
  left,      \* target_time_ms of a slot as the time until then, 0 when past
  handle,    \* tick_timer_handle: the slot the last successful start took
  ticked,    \* _timer_has_ticked and _rt_timer_ticks
  vm         \* "none" at first, "running", "stopped", "failed" or "left"

slotVars  == <<taken, active_timers_count, left>>
timerVars == <<slotVars, handle, ticked, vm>>

Slot == 0 .. MaxTimers - 1

TimerInit ==
  /\ taken = {}
  /\ active_timers_count = 0
  /\ left = [i \in Slot |-> 0]
  /\ handle = 0
  /\ ticked = FALSE
  /\ vm = "none"

-----------------------------------------------------------------------------
(* get_free_timer_slot: the first one. *)
FirstFree(i)  == i \in Slot \ taken /\ \A j \in Slot \ taken : i <= j

javacall_time_initialize_timer(i) ==
  /\ FirstFree(i)
  /\ taken' = taken \cup {i}
  /\ active_timers_count' = active_timers_count + 1
  /\ left' = [left EXCEPT ![i] = Interval]

(* The slot may be free already.  CountsTwice does not look whether it is. *)
CountsTwice(i) ==
  /\ taken' = taken \ {i}
  /\ active_timers_count' = IF active_timers_count > 0
                            THEN active_timers_count - 1 ELSE 0
  /\ UNCHANGED left

javacall_time_finalize_timer(i) ==
  /\ taken' = taken \ {i}
  /\ active_timers_count' = IF i \in taken /\ active_timers_count > 0
                            THEN active_timers_count - 1 ELSE active_timers_count
  /\ UNCHANGED left

(* The clock advances; gb300_check_timers calls tick_timer_func for every  *)
(* slot that is due, and starts its next period now, as the timers are all *)
(* cyclic.  The mutant takes them for one-shot timers.                     *)
Elapse ==
  /\ left' = [i \in Slot |-> IF left[i] > 0 THEN left[i] - 1 ELSE 0]
  /\ UNCHANGED <<taken, active_timers_count, handle, ticked, vm>>

Due == {i \in taken : left[i] = 0}

FiresOnce ==
  /\ taken' = taken \ Due
  /\ active_timers_count' = active_timers_count - Cardinality(Due)

Reschedule == UNCHANGED <<taken, active_timers_count>>

gb300_check_timers ==
  /\ active_timers_count > 0
  /\ Due # {}
  /\ ticked' = TRUE
  /\ left' = [i \in Slot |-> IF i \in Due THEN Interval ELSE left[i]]
  /\ Reschedule
  /\ UNCHANGED <<handle, vm>>

-----------------------------------------------------------------------------
(* Os::start_ticks, in Scheduler::initialize in Universe::bootstrap. *)
StartVM ==
  /\ vm # "running"
  /\ \E i \in Slot :
       /\ javacall_time_initialize_timer(i)
       /\ handle' = i
  /\ vm' = "running"
  /\ UNCHANGED ticked

(* There is no heap, or no slot: JVM::start cleans up all the same, and    *)
(* Os::stop_ticks finalizes the handle of the last VM that had one.  The   *)
(* mutant cleans up nothing.                                               *)
CleansNothing == UNCHANGED slotVars
StopTicks     == javacall_time_finalize_timer(handle)

StartFails ==
  /\ vm # "running"
  /\ StopTicks
  /\ vm' = "failed"
  /\ UNCHANGED <<handle, ticked>>

(* JVM::start returns: Universe::apocalypse, Scheduler::dispose. *)
EndVM ==
  /\ vm = "running"
  /\ StopTicks
  /\ vm' = "stopped"
  /\ UNCHANGED <<handle, ticked>>

(* The longjmp of the pause menu. *)
LeaveVM ==
  /\ vm = "running"
  /\ vm' = "left"
  /\ UNCHANGED <<slotVars, handle, ticked>>

(* The interpreter's timer_tick and the scheduler clear their flags. *)
TakeTick ==
  /\ vm = "running"
  /\ ticked
  /\ ticked' = FALSE
  /\ UNCHANGED <<slotVars, handle, vm>>

TimerNext ==
  \/ Elapse
  \/ gb300_check_timers
  \/ StartVM
  \/ StartFails
  \/ EndVM
  \/ LeaveVM
  \/ TakeTick

TimerSpec == TimerInit /\ [][TimerNext]_timerVars

-----------------------------------------------------------------------------
TimerTypeOK ==
  /\ taken \subseteq Slot
  /\ active_timers_count \in 0 .. MaxTimers
  /\ left \in [Slot -> 0 .. Interval]
  /\ handle \in Slot
  /\ ticked \in BOOLEAN
  /\ vm \in {"none", "running", "stopped", "failed", "left"}

(* gb300_check_timers does nothing when active_timers_count is zero: were  *)
(* it to drift from the slots, the ticks would stop for good.              *)
CountExact == active_timers_count = Cardinality(taken)

(* However many VMs were left, failed or ended before: nobody gives back   *)
(* the slot of the VM that runs.                                           *)
TickerHeld == vm = "running" => handle \in taken

(* A VM that finds no slot makes room for the next one by finalizing the   *)
(* timer of a VM that was left: two starts in a row never fail for that.   *)
FailureHeals == vm = "failed" => taken # Slot

(* A running VM is ticked again and again, so its threads are switched.    *)
TicksKeepComing == []<>(ticked \/ vm # "running")
=============================================================================
