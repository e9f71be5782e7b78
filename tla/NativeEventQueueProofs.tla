------------------------ MODULE NativeEventQueueProofs ------------------------
(***************************************************************************)
(* NativeEventQueue for every number of slots and every set of events.     *)
(***************************************************************************)
EXTENDS NativeEventQueue, SequenceTheorems, TLAPS

-----------------------------------------------------------------------------
(* A function over 1..n is a sequence of length n. *)
LEMMA FunctionIsSeq ==
  ASSUME NEW S, NEW n \in Nat, NEW f \in [1 .. n -> S]
  PROVE  f \in Seq(S) /\ Len(f) = n
OBVIOUS

(* A function that agrees with f and goes one further appends its last     *)
(* value to f.                                                             *)
LEMMA OneMoreAppends ==
  ASSUME NEW S, NEW n \in Nat,
         NEW f \in [1 .. n -> S], NEW g \in [1 .. n + 1 -> S],
         \A i \in 1 .. n : g[i] = f[i]
  PROVE  g = Append(f, g[n + 1])
<1>1. f \in Seq(S) /\ Len(f) = n /\ g \in Seq(S) /\ Len(g) = n + 1
  BY FunctionIsSeq
<1>2. g[n + 1] \in S
  OBVIOUS
<1>3. /\ Append(f, g[n + 1]) \in Seq(S)
      /\ Len(Append(f, g[n + 1])) = n + 1
      /\ \A i \in 1 .. n : Append(f, g[n + 1])[i] = f[i]
      /\ Append(f, g[n + 1])[n + 1] = g[n + 1]
  BY <1>1, <1>2, AppendProperties
<1>4. \A i \in 1 .. n + 1 : g[i] = Append(f, g[n + 1])[i]
  BY <1>3
<1>5. QED
  BY <1>1, <1>3, <1>4, SeqEqual

(* A function that is f moved down by one place is the tail of f. *)
LEMMA ShiftIsTail ==
  ASSUME NEW S, NEW n \in Nat \ {0},
         NEW f \in [1 .. n -> S], NEW g \in [1 .. n - 1 -> S],
         \A i \in 1 .. n - 1 : g[i] = f[i + 1]
  PROVE  f # <<>> /\ Head(f) = f[1] /\ g = Tail(f)
<1>1. f \in Seq(S) /\ Len(f) = n /\ g \in Seq(S) /\ Len(g) = n - 1
  BY FunctionIsSeq
<1>2. f # <<>>
  BY <1>1
<1>3. /\ Tail(f) \in Seq(S)
      /\ Len(Tail(f)) = n - 1
      /\ \A i \in 1 .. n - 1 : Tail(f)[i] = f[i + 1]
  BY <1>1, <1>2, HeadTailProperties
<1>4. g = Tail(f)
  BY <1>1, <1>3, SeqEqual
<1>5. Head(f) = f[1]
  BY <1>1, <1>2
<1>6. QED
  BY <1>2, <1>4, <1>5

(* The function over 1..0 is the empty sequence. *)
LEMMA NoneIsEmpty ==
  ASSUME NEW S, NEW f \in [1 .. 0 -> S]
  PROVE  f = <<>>
<1>1. f \in Seq(S) /\ Len(f) = 0
  BY FunctionIsSeq
<1>2. QED
  BY <1>1, EmptySeq

-----------------------------------------------------------------------------
(* The circular increment stays inside the array. *)
LEMMA NextSlotInArray ==
  ASSUME NEW i \in Slot
  PROVE  NextSlot(i) \in Slot
BY QueueAssumption DEF QueueAssumption, Slot, NextSlot

LEMMA BufferTypeInvariant == Spec => []BufferTypeOK
<1>1. Init => BufferTypeOK
  BY QueueAssumption DEF QueueAssumption, Init, BufferTypeOK, Slot
<1>2. BufferTypeOK /\ [Next]_queueVars => BufferTypeOK'
  <2> SUFFICES ASSUME BufferTypeOK, [Next]_queueVars PROVE BufferTypeOK'
    OBVIOUS
  <2> USE QueueAssumption, NextSlotInArray DEF QueueAssumption, BufferTypeOK
  <2>1. ASSUME NEW e \in Event, StoreMIDPEventInVmThread(e) PROVE BufferTypeOK'
    BY <2>1 DEF StoreMIDPEventInVmThread, UnblockMonitor, bufferVars, monitorVars
  <2>2. CASE WaitForNativeEvent
    BY <2>2 DEF WaitForNativeEvent, GetPendingMIDPEvent, bufferVars, monitorVars
  <2>3. CASE ReadNativeEvent
    BY <2>3 DEF ReadNativeEvent, GetPendingMIDPEvent, bufferVars, monitorVars
  <2>4. CASE ResetEventQueue
    BY <2>4 DEF ResetEventQueue, DrainBuffer
  <2>5. CASE StartEventQueue
    BY <2>5 DEF StartEventQueue, DrainBuffer
  <2>6. CASE FinalizeEvents
    BY <2>6 DEF FinalizeEvents, Slot
  <2>7. CASE AbandonVM
    BY <2>7 DEF AbandonVM, bufferVars
  <2>8. CASE UNCHANGED queueVars
    BY <2>8 DEF queueVars, bufferVars, monitorVars
  <2>9. QED
    BY <2>1, <2>2, <2>3, <2>4, <2>5, <2>6, <2>7, <2>8 DEF Next
<1>3. QED
  BY <1>1, <1>2, PTL DEF Spec

LEMMA MonitorTypeInvariant == Spec => []MonitorTypeOK
<1>1. Init => MonitorTypeOK
  BY DEF Init, MonitorTypeOK
<1>2. MonitorTypeOK /\ [Next]_queueVars => MonitorTypeOK'
  <2> SUFFICES ASSUME MonitorTypeOK, [Next]_queueVars PROVE MonitorTypeOK'
    OBVIOUS
  <2> USE DEF MonitorTypeOK
  <2>1. ASSUME NEW e \in Event, StoreMIDPEventInVmThread(e) PROVE MonitorTypeOK'
    BY <2>1 DEF StoreMIDPEventInVmThread, UnblockMonitor, bufferVars, monitorVars
  <2>2. CASE WaitForNativeEvent
    BY <2>2 DEF WaitForNativeEvent, GetPendingMIDPEvent, bufferVars, monitorVars
  <2>3. CASE ReadNativeEvent
    BY <2>3 DEF ReadNativeEvent, GetPendingMIDPEvent, bufferVars, monitorVars
  <2>4. CASE ResetEventQueue
    BY <2>4 DEF ResetEventQueue, DrainBuffer
  <2>5. CASE StartEventQueue
    BY <2>5 DEF StartEventQueue, DrainBuffer
  <2>6. CASE FinalizeEvents
    BY <2>6 DEF FinalizeEvents
  <2>7. CASE AbandonVM
    BY <2>7 DEF AbandonVM, bufferVars
  <2>8. CASE UNCHANGED queueVars
    BY <2>8 DEF queueVars, bufferVars, monitorVars
  <2>9. QED
    BY <2>1, <2>2, <2>3, <2>4, <2>5, <2>6, <2>7, <2>8 DEF Next
<1>3. QED
  BY <1>1, <1>2, PTL DEF Spec

(* Every field keeps its type: in particular eventIn and eventOut never    *)
(* leave the array, and numEvents never passes MAX_EVENTS.                 *)
THEOREM TypeCorrect == Spec => []TypeOK
BY BufferTypeInvariant, MonitorTypeInvariant, PTL DEF TypeOK

-----------------------------------------------------------------------------
(* What makes the wake-up sound: a blocked monitor is always the special   *)
(* thread, a raised flag the VM can act on means a blocked monitor, and a  *)
(* reachable blocked monitor has nothing to read.                          *)
Handshake ==
  /\ FlagMeansBlocked
  /\ monitor = "blocked" => special
  /\ NoLostWakeup

LEMMA HandshakeInvariant == Spec => []Handshake
<1>1. Init => Handshake
  BY DEF Init, Handshake, FlagMeansBlocked, NoLostWakeup, Stranded
<1>2. BufferTypeOK /\ Handshake /\ [Next]_queueVars => Handshake'
  <2> SUFFICES ASSUME BufferTypeOK, Handshake, [Next]_queueVars PROVE Handshake'
    OBVIOUS
  <2> USE DEF Handshake, FlagMeansBlocked, NoLostWakeup, Stranded
  <2>1. ASSUME NEW e \in Event, StoreMIDPEventInVmThread(e) PROVE Handshake'
    BY <2>1 DEF StoreMIDPEventInVmThread, UnblockMonitor, BufferTypeOK,
                bufferVars, monitorVars
  <2>2. CASE WaitForNativeEvent
    BY <2>2 DEF WaitForNativeEvent, GetPendingMIDPEvent, BufferTypeOK,
                bufferVars, monitorVars
  <2>3. CASE ReadNativeEvent
    BY <2>3 DEF ReadNativeEvent, GetPendingMIDPEvent, BufferTypeOK,
                bufferVars, monitorVars
  <2>4. CASE ResetEventQueue
    BY <2>4 DEF ResetEventQueue, DrainBuffer
  <2>5. CASE StartEventQueue
    BY <2>5 DEF StartEventQueue, DrainBuffer
  <2>6. CASE FinalizeEvents
    BY <2>6 DEF FinalizeEvents
  <2>7. CASE AbandonVM
    BY <2>7 DEF AbandonVM
  <2>8. CASE UNCHANGED queueVars
    BY <2>8 DEF queueVars, bufferVars, monitorVars
  <2>9. QED
    BY <2>1, <2>2, <2>3, <2>4, <2>5, <2>6, <2>7, <2>8 DEF Next
<1>3. QED
  BY <1>1, <1>2, BufferTypeInvariant, PTL DEF Spec

(* The VM thread never unblocks a monitor thread that is not blocked.      *)
THEOREM NeverUnblocksRunning == Spec => []FlagMeansBlocked
<1>1. Handshake => FlagMeansBlocked
  BY DEF Handshake
<1>2. QED
  BY <1>1, HandshakeInvariant, PTL

(* No event waits behind a blocked monitor that a store could still wake.  *)
THEOREM NoWakeupIsLost == Spec => []NoLostWakeup
<1>1. Handshake => NoLostWakeup
  BY DEF Handshake
<1>2. QED
  BY <1>1, HandshakeInvariant, PTL

(* A reset is the only step that leaves a blocked monitor with no flag for *)
(* a store to see, and nothing but the end of the VM gets it out again.    *)
THEOREM StrandedOnlyByReset == Spec => OnlyResetStrands
<1>1. ASSUME MonitorTypeOK, [Next]_queueVars
      PROVE  /\ ~Stranded /\ Stranded' => ResetEventQueue
             /\ Stranded /\ ~Stranded' => monitor' = "absent"
  <2> USE <1>1 DEF MonitorTypeOK, Stranded
  <2>1. ASSUME NEW e \in Event, StoreMIDPEventInVmThread(e)
        PROVE  (~Stranded /\ ~Stranded') \/ UNCHANGED monitorVars
    BY <2>1 DEF StoreMIDPEventInVmThread, UnblockMonitor, monitorVars
  <2>2. CASE WaitForNativeEvent
    BY <2>2 DEF WaitForNativeEvent, monitorVars
  <2>3. CASE ReadNativeEvent
    BY <2>3 DEF ReadNativeEvent, monitorVars
  <2>4. CASE ResetEventQueue
    BY <2>4 DEF ResetEventQueue
  <2>5. CASE StartEventQueue
    BY <2>5 DEF StartEventQueue
  <2>6. CASE FinalizeEvents \/ AbandonVM
    BY <2>6 DEF FinalizeEvents, AbandonVM
  <2>7. CASE UNCHANGED queueVars
    BY <2>7 DEF queueVars, monitorVars
  <2>8. QED
    BY <2>1, <2>2, <2>3, <2>4, <2>5, <2>6, <2>7 DEF Next, monitorVars
<1>2. QED
  BY <1>1, MonitorTypeInvariant, PTL DEF Spec, OnlyResetStrands

-----------------------------------------------------------------------------
(* The arithmetic of the circular buffer. *)
LEMMA SlotAfterArithmetic ==
  ASSUME NEW o \in Slot
  PROVE  /\ \A n \in Slot : SlotAfter(o, n) \in Slot
         /\ \A n \in Slot : NextSlot(SlotAfter(o, n)) = SlotAfter(o, n + 1)
         /\ \A n \in Slot : SlotAfter(NextSlot(o), n) = SlotAfter(o, n + 1)
         /\ \A m, n \in Slot : SlotAfter(o, m) = SlotAfter(o, n) => m = n
         /\ SlotAfter(o, 0) = o
         /\ SlotAfter(o, MaxEvents) = o
BY QueueAssumption DEF QueueAssumption, Slot, SlotAfter, NextSlot

(* What a store and a read do to the window. *)
LEMMA StoreMovesWindow ==
  ASSUME BufferTypeOK, WindowConsistent, NEW e \in Event, numEvents # MaxEvents,
         events' = [events EXCEPT ![eventIn] = e],
         eventIn' = NextSlot(eventIn), numEvents' = numEvents + 1,
         eventOut' = eventOut
  PROVE  /\ WindowConsistent'
         /\ \A n \in 0 .. numEvents - 1 : events'[SlotAt(n)] = events[SlotAt(n)]
         /\ events'[SlotAt(numEvents)] = e
<1> USE DEF BufferTypeOK
<1>1. numEvents \in Slot /\ numEvents \in Nat /\ e # NoEvent
  BY QueueAssumption DEF QueueAssumption, Slot
<1>2. \A n \in Slot : SlotAt(n) \in Slot /\ (SlotAt(n) = eventIn <=> n = numEvents)
  BY <1>1, SlotAfterArithmetic DEF SlotAt, WindowConsistent
<1>3. \A n \in Slot : events'[SlotAt(n)] = IF n = numEvents THEN e ELSE events[SlotAt(n)]
  BY <1>2
<1>4. eventIn' = SlotAfter(eventOut, numEvents + 1)
  BY <1>1, SlotAfterArithmetic DEF WindowConsistent, SlotAt
<1>5. \A n \in Slot : (events'[SlotAt(n)] # NoEvent) <=> (n < numEvents + 1)
  BY <1>1, <1>3 DEF WindowConsistent, Slot
<1>6. WindowConsistent'
  BY <1>4, <1>5 DEF WindowConsistent, SlotAt
<1>7. \A n \in 0 .. numEvents - 1 : n \in Slot /\ n # numEvents
  BY <1>1, QueueAssumption DEF QueueAssumption, Slot
<1>8. QED
  BY <1>1, <1>3, <1>6, <1>7

LEMMA TakeMovesWindow ==
  ASSUME BufferTypeOK, WindowConsistent, numEvents # 0,
         events' = [events EXCEPT ![eventOut] = NoEvent],
         eventOut' = NextSlot(eventOut), numEvents' = numEvents - 1,
         eventIn' = eventIn
  PROVE  /\ WindowConsistent'
         /\ \A n \in 0 .. numEvents - 2 : events'[SlotAt(n)'] = events[SlotAt(n + 1)]
<1> USE DEF BufferTypeOK
<1>1. numEvents - 1 \in Slot /\ MaxEvents - 1 \in Slot
  BY QueueAssumption DEF QueueAssumption, Slot
<1>2. \A n \in Slot : SlotAt(n)' = SlotAfter(eventOut, n + 1)
  BY SlotAfterArithmetic DEF SlotAt
<1>3. eventIn' = SlotAfter(eventOut', numEvents - 1)
  <2>1. SlotAfter(eventOut', numEvents - 1) = SlotAfter(eventOut, numEvents - 1 + 1)
    BY <1>1, SlotAfterArithmetic
  <2>2. numEvents - 1 + 1 = numEvents
    BY QueueAssumption DEF QueueAssumption
  <2>3. QED
    BY <2>1, <2>2 DEF WindowConsistent, SlotAt
<1>4. ASSUME NEW n \in Slot, n # MaxEvents - 1
      PROVE  SlotAt(n)' = SlotAt(n + 1) /\ SlotAt(n)' # eventOut /\ n + 1 \in Slot
  <2>1. n + 1 \in Slot /\ 0 \in Slot /\ n + 1 # 0
    BY <1>4, QueueAssumption DEF QueueAssumption, Slot
  <2>2. QED
    BY <1>2, <2>1, SlotAfterArithmetic DEF SlotAt
<1>5. SlotAfter(eventOut', MaxEvents - 1) = eventOut
  BY <1>1, <1>2, SlotAfterArithmetic, QueueAssumption DEF QueueAssumption
<1>6. \A n \in Slot : (events'[SlotAt(n)'] # NoEvent) <=> (n < numEvents - 1)
  <2> TAKE n \in Slot
  <2>1. CASE n = MaxEvents - 1
    BY <2>1, <1>5, QueueAssumption DEF QueueAssumption, SlotAt
  <2>2. CASE n # MaxEvents - 1
    <3>1. SlotAt(n + 1) \in Slot
      BY <1>4, <2>2, SlotAfterArithmetic DEF SlotAt
    <3>2. events'[SlotAt(n)'] = events[SlotAt(n + 1)]
      BY <1>4, <2>2, <3>1
    <3>3. (events[SlotAt(n + 1)] # NoEvent) <=> (n + 1 < numEvents)
      BY <1>4, <2>2 DEF WindowConsistent
    <3>4. QED
      BY <3>2, <3>3 DEF Slot
  <2>3. QED
    BY <2>1, <2>2
<1>7. WindowConsistent'
  BY <1>3, <1>6 DEF WindowConsistent, SlotAt
<1>8. ASSUME NEW n \in 0 .. numEvents - 2
      PROVE  events'[SlotAt(n)'] = events[SlotAt(n + 1)]
  <2>1. n \in Slot /\ n # MaxEvents - 1 /\ n + 1 \in Slot
    BY QueueAssumption DEF QueueAssumption, Slot
  <2>2. SlotAt(n + 1) \in Slot
    BY <2>1, SlotAfterArithmetic DEF SlotAt
  <2>3. QED
    BY <1>4, <2>1, <2>2
<1>9. QED
  BY <1>7, <1>8

(* An empty queue has a consistent window wherever its indices meet. *)
LEMMA EmptyWindow ==
  ASSUME NEW o \in Slot, numEvents' = 0, eventIn' = o, eventOut' = o,
         events' = [i \in Slot |-> NoEvent]
  PROVE  WindowConsistent'
<1>1. \A n \in Slot : SlotAfter(o, n) \in Slot
  BY SlotAfterArithmetic
<1>2. SlotAfter(o, 0) = o
  BY SlotAfterArithmetic
<1>3. \A n \in Slot : events'[SlotAt(n)'] = NoEvent /\ ~(n < 0)
  BY <1>1 DEF SlotAt, Slot
<1>4. QED
  BY <1>2, <1>3 DEF WindowConsistent, SlotAt

(* The three counters describe the same window in every reachable state.   *)
THEOREM WindowInvariant == Spec => []WindowConsistent
<1>1. Init => WindowConsistent
  <2>1. \A n \in Slot : SlotAfter(0, n) \in Slot /\ SlotAfter(0, 0) = 0
    BY QueueAssumption DEF QueueAssumption, Slot, SlotAfter
  <2>2. 0 \in Slot /\ \A n \in Slot : ~(n < 0)
    BY QueueAssumption DEF QueueAssumption, Slot
  <2>3. QED
    BY <2>1, <2>2 DEF Init, WindowConsistent, SlotAt
<1>2. BufferTypeOK /\ WindowConsistent /\ [Next]_queueVars => WindowConsistent'
  <2> SUFFICES ASSUME BufferTypeOK, WindowConsistent, [Next]_queueVars
               PROVE  WindowConsistent'
    OBVIOUS
  <2>1. CASE UNCHANGED bufferVars
    BY <2>1 DEF bufferVars, WindowConsistent, SlotAt
  <2>2. ASSUME NEW e \in Event, StoreMIDPEventInVmThread(e) PROVE WindowConsistent'
    BY <2>1, <2>2, StoreMovesWindow DEF StoreMIDPEventInVmThread
  <2>3. CASE GetPendingMIDPEvent
    BY <2>3, TakeMovesWindow DEF GetPendingMIDPEvent
  <2>4. CASE DrainBuffer
    BY <2>4, EmptyWindow DEF DrainBuffer, BufferTypeOK
  <2>5. CASE FinalizeEvents
    <3>1. 0 \in Slot
      BY QueueAssumption DEF QueueAssumption, Slot
    <3>2. QED
      BY <2>5, <3>1, EmptyWindow DEF FinalizeEvents
  <2>6. CASE WaitForNativeEvent
    BY <2>1, <2>3, <2>6 DEF WaitForNativeEvent
  <2>7. CASE ReadNativeEvent
    BY <2>1, <2>3, <2>7 DEF ReadNativeEvent
  <2>8. CASE ResetEventQueue \/ StartEventQueue
    BY <2>4, <2>8 DEF ResetEventQueue, StartEventQueue
  <2>9. CASE AbandonVM \/ UNCHANGED queueVars
    BY <2>1, <2>9 DEF AbandonVM, queueVars
  <2>10. QED
    BY <2>2, <2>5, <2>6, <2>7, <2>8, <2>9 DEF Next
<1>3. QED
  BY <1>1, <1>2, BufferTypeInvariant, PTL DEF Spec

-----------------------------------------------------------------------------
(* The window, read from eventOut, is a sequence of events. *)
ContentsOK == Contents \in [1 .. numEvents -> Event]

LEMMA WindowIsContents == BufferTypeOK /\ WindowConsistent => ContentsOK
<1> SUFFICES ASSUME BufferTypeOK, WindowConsistent PROVE ContentsOK
  OBVIOUS
<1>1. \A n \in 1 .. numEvents : n - 1 \in Slot /\ n - 1 < numEvents
  BY QueueAssumption DEF QueueAssumption, BufferTypeOK, Slot
<1>2. \A n \in Slot : SlotAt(n) \in Slot
  BY SlotAfterArithmetic DEF SlotAt, BufferTypeOK
<1>3. \A n \in 1 .. numEvents : events[SlotAt(n - 1)] \in Event
  BY <1>1, <1>2 DEF WindowConsistent, BufferTypeOK
<1>4. QED
  BY <1>3 DEF Contents, ContentsOK

LEMMA ContentsInvariant == Spec => []ContentsOK
BY WindowIsContents, BufferTypeInvariant, WindowInvariant, PTL

(* A store appends to the queue, a read takes its head, and whatever       *)
(* empties the buffer empties the queue.                                   *)
LEMMA StoreAppends ==
  ASSUME BufferTypeOK, WindowConsistent, ContentsOK, ContentsOK',
         NEW e \in Event, numEvents # MaxEvents,
         events' = [events EXCEPT ![eventIn] = e],
         eventIn' = NextSlot(eventIn), numEvents' = numEvents + 1,
         eventOut' = eventOut
  PROVE  Len(Contents) < MaxEvents /\ Contents' = Append(Contents, e)
<1>1. numEvents \in Nat /\ numEvents < MaxEvents
  BY QueueAssumption DEF QueueAssumption, BufferTypeOK
<1>2. Len(Contents) = numEvents
  BY <1>1, FunctionIsSeq DEF ContentsOK
<1>3. /\ \A n \in 0 .. numEvents - 1 : events'[SlotAt(n)] = events[SlotAt(n)]
      /\ events'[SlotAt(numEvents)] = e
  BY StoreMovesWindow
<1>4. Contents' = [n \in 1 .. numEvents + 1 |-> events'[SlotAt(n - 1)]]
  BY DEF Contents, SlotAt
<1>5. \A n \in 1 .. numEvents : Contents'[n] = Contents[n]
  BY <1>1, <1>3, <1>4 DEF Contents
<1>6. Contents'[numEvents + 1] = e
  <2>1. numEvents + 1 \in 1 .. numEvents + 1 /\ numEvents + 1 - 1 = numEvents
    BY <1>1
  <2>2. Contents'[numEvents + 1] = events'[SlotAt(numEvents + 1 - 1)]
    BY <1>1, <1>4, <2>1 DEF SlotAt
  <2>3. QED
    BY <1>3, <2>1, <2>2
<1>7. Contents' = Append(Contents, Contents'[numEvents + 1])
  BY <1>1, <1>5, OneMoreAppends DEF ContentsOK
<1>8. QED
  BY <1>1, <1>2, <1>6, <1>7

LEMMA TakeIsHead ==
  ASSUME BufferTypeOK, WindowConsistent, ContentsOK, ContentsOK',
         numEvents # 0,
         events' = [events EXCEPT ![eventOut] = NoEvent],
         eventOut' = NextSlot(eventOut), numEvents' = numEvents - 1,
         eventIn' = eventIn
  PROVE  /\ Contents # <<>>
         /\ events[eventOut] = Head(Contents)
         /\ Contents' = Tail(Contents)
<1>1. numEvents \in Nat \ {0}
  BY QueueAssumption DEF QueueAssumption, BufferTypeOK
<1>2. \A n \in 0 .. numEvents - 2 : events'[SlotAt(n)'] = events[SlotAt(n + 1)]
  BY TakeMovesWindow
<1>3. Contents' = [n \in 1 .. numEvents - 1 |-> events'[SlotAfter(eventOut', n - 1)]]
  BY DEF Contents, SlotAt
<1>4. \A n \in 1 .. numEvents - 1 : Contents'[n] = Contents[n + 1]
  <2> TAKE n \in 1 .. numEvents - 1
  <2>1. n - 1 \in 0 .. numEvents - 2 /\ n + 1 \in 1 .. numEvents /\ (n - 1) + 1 = (n + 1) - 1
    BY <1>1
  <2>2. Contents'[n] = events[SlotAt((n - 1) + 1)]
    BY <1>2, <1>3, <2>1 DEF SlotAt
  <2>3. Contents[n + 1] = events[SlotAt((n + 1) - 1)]
    BY <2>1 DEF Contents
  <2>4. QED
    BY <2>1, <2>2, <2>3
<1>5. Contents # <<>> /\ Head(Contents) = Contents[1] /\ Contents' = Tail(Contents)
  BY <1>1, <1>4, ShiftIsTail DEF ContentsOK
<1>6. Contents[1] = events[eventOut]
  <2>1. 1 \in 1 .. numEvents /\ 1 - 1 = 0 /\ SlotAfter(eventOut, 0) = eventOut
    BY <1>1, SlotAfterArithmetic DEF BufferTypeOK
  <2>2. QED
    BY <2>1 DEF Contents, SlotAt
<1>7. QED
  BY <1>5, <1>6

LEMMA EmptyContents ==
  ASSUME ContentsOK, numEvents = 0
  PROVE  Contents = <<>>
BY NoneIsEmpty DEF ContentsOK

LEMMA EmptiedContents ==
  ASSUME ContentsOK', numEvents' = 0
  PROVE  Contents' = <<>>
BY NoneIsEmpty DEF ContentsOK

-----------------------------------------------------------------------------
(* The circular buffer with its counters, its blocked reader and its       *)
(* restarts implements the bounded FIFO.                                   *)
THEOREM QueueImplementsFifo == Spec => ImplementsFifo
<1>1. Init /\ ContentsOK => Fifo!Init
  BY EmptyContents DEF Init, Fifo!Init
<1>2. /\ BufferTypeOK /\ WindowConsistent /\ ContentsOK /\ ContentsOK'
      /\ [Next]_queueVars
      => [Fifo!Next]_(Fifo!vars)
  <2> SUFFICES ASSUME BufferTypeOK, WindowConsistent, ContentsOK, ContentsOK',
                      [Next]_queueVars
               PROVE  [Fifo!Next]_(Fifo!vars)
    OBVIOUS
  <2> USE DEF Fifo!Next, Fifo!vars
  <2>1. UNCHANGED bufferVars => Contents' = Contents
    BY DEF bufferVars, Contents, SlotAt
  <2>2. Len(Contents) = numEvents /\ numEvents \in Nat
    BY FunctionIsSeq, QueueAssumption DEF QueueAssumption, ContentsOK, BufferTypeOK
  <2>3. ASSUME NEW e \in Event, StoreMIDPEventInVmThread(e) PROVE Fifo!Put(e)
    <3>1. CASE numEvents # MaxEvents
      BY <2>3, <3>1, StoreAppends DEF StoreMIDPEventInVmThread, Fifo!Put
    <3>2. CASE numEvents = MaxEvents
      BY <2>1, <2>2, <2>3, <3>2 DEF StoreMIDPEventInVmThread, Fifo!Put
    <3>3. QED
      BY <3>1, <3>2
  <2>4. GetPendingMIDPEvent => Fifo!Take
    BY TakeIsHead DEF GetPendingMIDPEvent, Fifo!Take
  <2>5. numEvents = 0 /\ outcome' = "empty" /\ UNCHANGED <<bufferVars, result>> => Fifo!Take
    BY <2>1, EmptyContents DEF Fifo!Take
  <2>6. CASE WaitForNativeEvent
    BY <2>4, <2>5, <2>6 DEF WaitForNativeEvent
  <2>7. CASE ReadNativeEvent
    BY <2>4, <2>5, <2>7 DEF ReadNativeEvent
  <2>8. numEvents' = 0 /\ UNCHANGED <<result, outcome>> => Fifo!Clear
    BY EmptiedContents DEF Fifo!Clear
  <2>9. CASE ResetEventQueue \/ StartEventQueue \/ FinalizeEvents
    BY <2>8, <2>9 DEF ResetEventQueue, StartEventQueue, FinalizeEvents, DrainBuffer
  <2>10. CASE AbandonVM
    BY <2>1, <2>10 DEF AbandonVM
  <2>11. CASE UNCHANGED queueVars
    BY <2>1, <2>11 DEF queueVars
  <2>12. QED
    BY <2>3, <2>6, <2>7, <2>9, <2>10, <2>11 DEF Next
<1>3. QED
  BY <1>1, <1>2, BufferTypeInvariant, WindowInvariant, ContentsInvariant, PTL
     DEF Spec, ImplementsFifo, Fifo!Spec
=============================================================================
