--------------------------- MODULE NativeEventQueue ---------------------------
(***************************************************************************)
(* The native MIDP event queue of one isolate (midpEvents.c): a circular   *)
(* buffer filled by the VM thread and drained by one Java thread, the      *)
(* native event monitor.  When the buffer is empty the monitor blocks in   *)
(* waitForNativeEvent; the next stored event unblocks it and the VM runs   *)
(* the native method again from the start (async_redo).                    *)
(*                                                                         *)
(* The queue outlives the VM: the libretro front end leaves a game with a  *)
(* longjmp that runs none of the finalizers, so a second VM may find the   *)
(* queue as the first one left it (AbandonVM).                             *)
(***************************************************************************)
EXTENDS Naturals, Sequences

CONSTANTS
  MaxEvents,   \* MAX_EVENTS, the slots of the circular buffer (20 in this build)
  Event,       \* what can be stored
  NoEvent      \* an initialised, empty slot (MIDP_EVENT_INITIALIZE)

ASSUME QueueAssumption ==
  /\ MaxEvents \in Nat \ {0}
  /\ NoEvent \notin Event

VARIABLES
  events,            \* the slots
  numEvents,         \* number of events in the queue
  eventIn,           \* slot the next event is stored in
  eventOut,          \* slot the next event is read from
  isMonitorBlocked,  \* the native side believes the monitor thread is blocked
  special,           \* the VM remembers the monitor as its special thread
  monitor,           \* what the monitor thread really does
  result,            \* the event last copied into a Java NativeEvent
  outcome            \* how the last store or read ended

bufferVars  == <<events, numEvents, eventIn, eventOut>>
monitorVars == <<isMonitorBlocked, special, monitor>>
queueVars   == <<bufferVars, monitorVars, result, outcome>>

Slot == 0 .. MaxEvents - 1

(* The circular increment of eventIn and eventOut; TestsFirst compares      *)
(* before it increments.                                                   *)
TestsFirst(i) == IF i = MaxEvents THEN 0 ELSE i + 1
NextSlot(i) == IF i + 1 = MaxEvents THEN 0 ELSE i + 1

Init ==
  /\ events = [i \in Slot |-> NoEvent]
  /\ numEvents = 0
  /\ eventIn = 0
  /\ eventOut = 0
  /\ isMonitorBlocked = FALSE
  /\ special = FALSE
  /\ monitor = "absent"
  /\ result = NoEvent
  /\ outcome = "none"

-----------------------------------------------------------------------------
(* Storing an event unblocks the monitor when it is flagged as blocked and *)
(* the VM still knows it; a flag with no special thread is only reported.  *)
(* Mutants: the flag stays set, and the unblocking is forgotten.           *)
UnblockKeepsFlag ==
  /\ monitor' = IF isMonitorBlocked /\ special THEN "running" ELSE monitor
  /\ UNCHANGED <<isMonitorBlocked, special>>

NeverUnblocks == UNCHANGED monitorVars

UnblockMonitor ==
  IF isMonitorBlocked /\ special
  THEN /\ monitor' = "running"
       /\ isMonitorBlocked' = FALSE
       /\ UNCHANGED special
  ELSE UNCHANGED monitorVars

StoreMIDPEventInVmThread(e) ==
  \/ /\ numEvents # MaxEvents
     /\ events' = [events EXCEPT ![eventIn] = e]
     /\ eventIn' = NextSlot(eventIn)
     /\ numEvents' = numEvents + 1
     /\ UnblockMonitor
     /\ outcome' = "stored"
     /\ UNCHANGED <<eventOut, result>>
  \/ /\ numEvents = MaxEvents
     /\ outcome' = "refused"
     /\ UNCHANGED <<bufferVars, monitorVars, result>>

(* One event leaves the queue, and its slot is emptied so that it is not   *)
(* freed twice; TakeKeepsSlot leaves it filled.                            *)
TakeKeepsSlot ==
  /\ numEvents # 0
  /\ result' = events[eventOut]
  /\ numEvents' = numEvents - 1
  /\ eventOut' = NextSlot(eventOut)
  /\ outcome' = "taken"
  /\ UNCHANGED <<events, eventIn>>

GetPendingMIDPEvent ==
  /\ numEvents # 0
  /\ result' = events[eventOut]
  /\ events' = [events EXCEPT ![eventOut] = NoEvent]
  /\ numEvents' = numEvents - 1
  /\ eventOut' = NextSlot(eventOut)
  /\ outcome' = "taken"
  /\ UNCHANGED eventIn

(* waitForNativeEvent: read an event, or register the calling thread as    *)
(* the special thread and block it.  BlocksUnflagged tells nobody.         *)
BlocksUnflagged ==
  /\ monitor = "running"
  /\ \/ GetPendingMIDPEvent /\ UNCHANGED monitorVars
     \/ /\ numEvents = 0
        /\ special' = TRUE
        /\ monitor' = "blocked"
        /\ outcome' = "empty"
        /\ UNCHANGED <<bufferVars, isMonitorBlocked, result>>

WaitForNativeEvent ==
  /\ monitor = "running"
  /\ \/ GetPendingMIDPEvent /\ UNCHANGED monitorVars
     \/ /\ numEvents = 0
        /\ special' = TRUE
        /\ monitor' = "blocked"
        /\ isMonitorBlocked' = TRUE
        /\ outcome' = "empty"
        /\ UNCHANGED <<bufferVars, result>>

ReadNativeEvent ==
  /\ monitor = "running"
  /\ \/ GetPendingMIDPEvent
     \/ /\ numEvents = 0
        /\ outcome' = "empty"
        /\ UNCHANGED <<bufferVars, result>>
  /\ UNCHANGED monitorVars

(* The buffer after getPendingMIDPEvent was called until it was empty: the *)
(* indices meet where eventIn stands.  DrainKeepsOut leaves them apart.    *)
DrainKeepsOut ==
  /\ events' = [i \in Slot |-> NoEvent]
  /\ numEvents' = 0
  /\ UNCHANGED <<eventIn, eventOut>>

DrainBuffer ==
  /\ events' = [i \in Slot |-> NoEvent]
  /\ numEvents' = 0
  /\ eventOut' = eventIn
  /\ UNCHANGED eventIn

(* resetEventQueue, called by EventQueue.shutdown, start and finalize. *)
ResetEventQueue ==
  /\ isMonitorBlocked' = FALSE
  /\ DrainBuffer
  /\ UNCHANGED <<special, monitor, result, outcome>>

(* EventQueue.start: the queue is reset before the new VM's monitor thread *)
(* runs for the first time.                                                *)
StartEventQueue ==
  /\ monitor = "absent"
  /\ isMonitorBlocked' = FALSE
  /\ DrainBuffer
  /\ monitor' = "running"
  /\ UNCHANGED <<special, result, outcome>>

(* An orderly end of the VM frees the queues (FinalizeEvents) and the next *)
(* start allocates and clears them (InitializeEvents).                     *)
FinalizeEvents ==
  /\ events' = [i \in Slot |-> NoEvent]
  /\ numEvents' = 0
  /\ eventIn' = 0
  /\ eventOut' = 0
  /\ isMonitorBlocked' = FALSE
  /\ special' = FALSE
  /\ monitor' = "absent"
  /\ UNCHANGED <<result, outcome>>

(* The pause menu's longjmp drops the VM with all its threads, and the     *)
(* task that remembered the special thread.  The next VM does not call     *)
(* InitializeEvents, since midpInit's initLevel still says that it was     *)
(* done (midpInit.c), and finds the queue as it is.                        *)
AbandonVM ==
  /\ monitor' = "absent"
  /\ special' = FALSE
  /\ UNCHANGED <<bufferVars, isMonitorBlocked, result, outcome>>

Next ==
  \/ \E e \in Event : StoreMIDPEventInVmThread(e)
  \/ WaitForNativeEvent
  \/ ReadNativeEvent
  \/ monitor # "absent" /\ ResetEventQueue
  \/ StartEventQueue
  \/ FinalizeEvents
  \/ AbandonVM

Spec == Init /\ [][Next]_queueVars

-----------------------------------------------------------------------------
BufferTypeOK ==
  /\ events \in [Slot -> Event \cup {NoEvent}]
  /\ numEvents \in 0 .. MaxEvents
  /\ eventIn \in Slot
  /\ eventOut \in Slot
  /\ result \in Event \cup {NoEvent}
  /\ outcome \in {"none", "stored", "refused", "taken", "empty"}

MonitorTypeOK ==
  /\ isMonitorBlocked \in BOOLEAN
  /\ special \in BOOLEAN
  /\ monitor \in {"absent", "running", "blocked"}

(* The fields of EventQueue stay in their ranges: eventIn and eventOut     *)
(* never leave the array and numEvents never passes MAX_EVENTS.            *)
TypeOK == BufferTypeOK /\ MonitorTypeOK

(* The slot n places after slot o, and after the read position. *)
SlotAfter(o, n) == IF o + n < MaxEvents THEN o + n ELSE o + n - MaxEvents
SlotAt(n)       == SlotAfter(eventOut, n)

(* The three counters of the circular buffer always describe the same      *)
(* window: numEvents slots from eventOut on hold events, every other slot  *)
(* is empty, and eventIn is the first slot after the window.               *)
WindowConsistent ==
  /\ eventIn = SlotAt(numEvents)
  /\ \A n \in Slot : (events[SlotAt(n)] # NoEvent) <=> (n < numEvents)

(* StoreMIDPEventInVmThread hands a thread to midp_thread_unblock only     *)
(* when that thread is blocked: unblocking a running thread would take it  *)
(* from a list it is not in (GUARANTEE in Scheduler::unblock_thread).      *)
FlagMeansBlocked == isMonitorBlocked /\ special => monitor = "blocked"

(* A blocked monitor that no store can reach any more. *)
Stranded == monitor = "blocked" /\ ~isMonitorBlocked

(* The monitor is never left blocked with events waiting for it, except    *)
(* after a reset took its flag away under it, which OnlyResetStrands says. *)
NoLostWakeup == monitor = "blocked" /\ numEvents > 0 => Stranded

(* Only resetEventQueue can strand the monitor, and only the end of the VM *)
(* releases it.                                                            *)
OnlyResetStrands ==
  [][/\ ~Stranded /\ Stranded' => ResetEventQueue
     /\ Stranded /\ ~Stranded' => monitor' = "absent"]_queueVars

(* The queue implements the bounded FIFO: the window read from eventOut is *)
(* the abstract queue.                                                     *)
Contents == [n \in 1 .. numEvents |-> events[SlotAt(n - 1)]]

Fifo == INSTANCE BoundedFifo WITH
          Element <- Event, Nothing <- NoEvent, Capacity <- MaxEvents,
          q <- Contents, got <- result, outcome <- outcome

ImplementsFifo == Fifo!Spec
=============================================================================
