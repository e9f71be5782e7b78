--------------------------- MODULE EventRingProofs ---------------------------
(***************************************************************************)
(* EventRing for every number of mailboxes and every set of events.        *)
(***************************************************************************)
EXTENDS EventRing, SequenceTheorems, TLAPS

-----------------------------------------------------------------------------
(* A function over 1..n is a sequence of length n. *)
LEMMA FunctionIsSeq ==
  ASSUME NEW S, NEW n \in Nat, NEW f \in [1 .. n -> S]
  PROVE  f \in Seq(S) /\ Len(f) = n
OBVIOUS

(* A function that agrees with f and goes one further appends its last     *)
(* value to f.                                                             *)
LEMMA OneMoreAppends ==
  ASSUME NEW S, NEW n \in Nat,
         NEW f \in [1 .. n -> S], NEW g \in [1 .. n + 1 -> S],
         \A i \in 1 .. n : g[i] = f[i]
  PROVE  g = Append(f, g[n + 1])
<1>1. f \in Seq(S) /\ Len(f) = n /\ g \in Seq(S) /\ Len(g) = n + 1
  BY FunctionIsSeq
<1>2. g[n + 1] \in S
  OBVIOUS
<1>3. /\ Append(f, g[n + 1]) \in Seq(S)
      /\ Len(Append(f, g[n + 1])) = n + 1
      /\ \A i \in 1 .. n : Append(f, g[n + 1])[i] = f[i]
      /\ Append(f, g[n + 1])[n + 1] = g[n + 1]
  BY <1>1, <1>2, AppendProperties
<1>4. \A i \in 1 .. n + 1 : g[i] = Append(f, g[n + 1])[i]
  BY <1>3
<1>5. QED
  BY <1>1, <1>3, <1>4, SeqEqual

(* A function that is f moved down by one place is the tail of f. *)
LEMMA ShiftIsTail ==
  ASSUME NEW S, NEW n \in Nat \ {0},
         NEW f \in [1 .. n -> S], NEW g \in [1 .. n - 1 -> S],
         \A i \in 1 .. n - 1 : g[i] = f[i + 1]
  PROVE  f # <<>> /\ Head(f) = f[1] /\ g = Tail(f)
<1>1. f \in Seq(S) /\ Len(f) = n /\ g \in Seq(S) /\ Len(g) = n - 1
  BY FunctionIsSeq
<1>2. f # <<>>
  BY <1>1
<1>3. /\ Tail(f) \in Seq(S)
      /\ Len(Tail(f)) = n - 1
      /\ \A i \in 1 .. n - 1 : Tail(f)[i] = f[i + 1]
  BY <1>1, <1>2, HeadTailProperties
<1>4. g = Tail(f)
  BY <1>1, <1>3, SeqEqual
<1>5. Head(f) = f[1]
  BY <1>1, <1>2
<1>6. QED
  BY <1>2, <1>4, <1>5

(* The function over 1..0 is the empty sequence. *)
LEMMA NoneIsEmpty ==
  ASSUME NEW S, NEW f \in [1 .. 0 -> S]
  PROVE  f = <<>>
<1>1. f \in Seq(S) /\ Len(f) = 0
  BY FunctionIsSeq
<1>2. QED
  BY <1>1, EmptySeq

-----------------------------------------------------------------------------
(* The arithmetic of the ring. *)
LEMMA NextSlotInArray ==
  ASSUME NEW i \in Slot
  PROVE  NextSlot(i) \in Slot
BY RingAssumption DEF RingAssumption, Slot, NextSlot

LEMMA SlotAfterArithmetic ==
  ASSUME NEW o \in Slot
  PROVE  /\ \A n \in Slot : SlotAfter(o, n) \in Slot
         /\ \A m, n \in Slot : SlotAfter(o, m) = SlotAfter(o, n) => m = n
         /\ \A n \in Slot : n + 1 \in Slot => SlotAfter(NextSlot(o), n) = SlotAfter(o, n + 1)
         /\ SlotAfter(NextSlot(o), NumMbx - 1) = o
         /\ SlotAfter(o, 0) = o
BY RingAssumption DEF RingAssumption, Slot, SlotAfter, NextSlot

LEMMA DistanceArithmetic ==
  ASSUME NEW o \in Slot, NEW i \in Slot
  PROVE  /\ Distance(o, i) \in Slot
         /\ Distance(o, i) = 0 <=> o = i
         /\ SlotAfter(o, Distance(o, i)) = i
         /\ NextSlot(i) = o <=> Distance(o, i) = NumMbx - 1
         /\ NextSlot(i) # o => Distance(o, NextSlot(i)) = Distance(o, i) + 1
         /\ o # i => Distance(NextSlot(o), i) = Distance(o, i) - 1
BY RingAssumption DEF RingAssumption, Slot, SlotAfter, Distance, NextSlot

LEMMA SlotFacts ==
  /\ Slot \subseteq Nat
  /\ 0 \in Slot
  /\ NumMbx - 1 \in Slot
  /\ NumMbx \in Nat
  /\ \A n \in Slot : n = NumMbx - 1 \/ n + 1 \in Slot
  /\ \A n \in Slot : \A m \in 0 .. n : m \in Slot
BY RingAssumption DEF RingAssumption, Slot

(* Mailboxes that hold at most one message. *)
LEMMA OneMessage ==
  ASSUME NEW b \in Seq(Event), NEW e \in Event
  PROVE  /\ Append(b, e) \in Seq(Event)
         /\ Len(b) = 0 => Len(Append(b, e)) = 1 /\ Head(Append(b, e)) = e
         /\ b # <<>> => Tail(b) \in Seq(Event) /\ Head(b) \in Event
         /\ b # <<>> => Len(Tail(b)) = Len(b) - 1
         /\ Len(b) \in Nat
         /\ b = <<>> <=> Len(b) = 0
<1>1. Len(b) \in Nat /\ (b # <<>> => Len(b) # 0) /\ Len(<<>>) = 0
  BY EmptySeq, LenProperties
<1>2. Append(b, e) \in Seq(Event) /\ Len(Append(b, e)) = Len(b) + 1
  BY AppendProperties
<1>3. Len(b) = 0 => Head(Append(b, e)) = e
  BY <1>1, HeadTailAppend
<1>4. b # <<>> => Tail(b) \in Seq(Event) /\ Head(b) \in Event /\ Len(Tail(b)) = Len(b) - 1
  BY HeadTailProperties
<1>5. QED
  BY <1>1, <1>2, <1>3, <1>4

-----------------------------------------------------------------------------
LEMMA RingTypeInvariant == Spec => []RingTypeOK
<1>1. Init => RingTypeOK
  BY SlotFacts, EmptySeq, RingAssumption
     DEF RingAssumption, Init, RingTypeOK, EmptyBoxes
<1>2. RingTypeOK /\ [Next]_vars => RingTypeOK'
  <2> SUFFICES ASSUME RingTypeOK, [Next]_vars PROVE RingTypeOK'
    OBVIOUS
  <2> USE RingAssumption DEF RingAssumption, RingTypeOK
  <2>1. ASSUME NEW e \in Event, javacall_event_send(e) PROVE RingTypeOK'
    <3>1. CASE UNCHANGED <<box, send>>
      BY <2>1, <3>1 DEF javacall_event_send, callVars
    <3>2. CASE Store(e)
      <4>1. Append(box[send], e) \in Seq(Event)
        BY OneMessage
      <4>2. box' \in [Slot -> Seq(Event)]
        BY <3>2, <4>1 DEF Store, SendMbx
      <4>3. send' \in Slot
        BY <3>2, NextSlotInArray DEF Store
      <4>4. QED
        BY <2>1, <4>2, <4>3 DEF javacall_event_send, callVars
    <3>3. QED
      BY <2>1, <3>1, <3>2 DEF javacall_event_send
  <2>2. CASE javacall_events_init
    BY <2>2 DEF javacall_events_init
  <2>3. ASSUME Deliver PROVE /\ box' \in [Slot -> Seq(Event)] /\ recv' \in Slot
                             /\ send' \in Slot /\ got' \in Event
    <3>1. Tail(box[recv]) \in Seq(Event) /\ Head(box[recv]) \in Event
      BY <2>3, HeadTailProperties DEF Deliver, ReceiveMbx
    <3>2. QED
      BY <2>3, <3>1, NextSlotInArray DEF Deliver, ReceiveMbx
  <2>4. ASSUME NEW t \in Timeout, javacall_event_receive(t) PROVE RingTypeOK'
    <3>1. busy_count' \in 0 .. BusyLimit + 1
      BY <2>4 DEF javacall_event_receive, PollsInARow, Waits, Timeout
    <3>2. QED
      BY <2>3, <2>4, <3>1 DEF javacall_event_receive, ringVars
  <2>5. CASE YieldReturns
    BY <2>3, <2>5 DEF YieldReturns, ringVars
  <2>6. CASE PauseMenuJumps
    BY <2>6 DEF PauseMenuJumps, ringVars
  <2>7. CASE javacall_events_finalize
    BY <2>7, SlotFacts, EmptySeq DEF javacall_events_finalize, EmptyBoxes
  <2>8. CASE UNCHANGED vars
    BY <2>8 DEF vars, ringVars, callVars
  <2>9. QED
    BY <2>1, <2>2, <2>4, <2>5, <2>6, <2>7, <2>8 DEF Next, Receive
<1>3. QED
  BY <1>1, <1>2, PTL DEF Spec

CallTypeOK ==
  /\ inited \in BOOLEAN
  /\ receiver \in {"absent", "idle", "yielding"}
  /\ timeout \in Timeout
  /\ outcome \in {"none", "stored", "refused", "no memory", "taken", "empty"}

LEMMA CallTypeInvariant == Spec => []CallTypeOK
<1>1. Init => CallTypeOK
  BY DEF Init, CallTypeOK, Timeout
<1>2. CallTypeOK /\ [Next]_vars => CallTypeOK'
  <2> SUFFICES ASSUME CallTypeOK, [Next]_vars PROVE CallTypeOK'
    OBVIOUS
  <2> USE DEF CallTypeOK
  <2>1. ASSUME NEW e \in Event, javacall_event_send(e) PROVE CallTypeOK'
    BY <2>1 DEF javacall_event_send, Store, callVars
  <2>2. CASE javacall_events_init
    BY <2>2 DEF javacall_events_init
  <2>3. ASSUME NEW t \in Timeout, javacall_event_receive(t) PROVE CallTypeOK'
    BY <2>3 DEF javacall_event_receive, Deliver, ringVars
  <2>4. CASE YieldReturns
    BY <2>4 DEF YieldReturns, Deliver, ringVars
  <2>5. CASE PauseMenuJumps
    BY <2>5 DEF PauseMenuJumps, ringVars
  <2>6. CASE javacall_events_finalize
    BY <2>6 DEF javacall_events_finalize
  <2>7. CASE UNCHANGED vars
    BY <2>7 DEF vars, ringVars, callVars
  <2>8. QED
    BY <2>1, <2>2, <2>3, <2>4, <2>5, <2>6, <2>7 DEF Next, Receive
<1>3. QED
  BY <1>1, <1>2, PTL DEF Spec

(* Every variable keeps its type: the indices stay inside the array, and   *)
(* the poll counter never passes its limit by more than one.               *)
THEOREM TypeCorrect == Spec => []TypeOK
<1>1. RingTypeOK /\ CallTypeOK => TypeOK
  BY DEF TypeOK, CallTypeOK
<1>2. QED
  BY <1>1, RingTypeInvariant, CallTypeInvariant, PTL

-----------------------------------------------------------------------------
(* A send fills the mailbox after the window and lengthens the window; a   *)
(* receive empties the first mailbox of the window and shortens it.        *)
LEMMA StoreMovesWindow ==
  ASSUME RingTypeOK, WindowConsistent, NEW e \in Event,
         NextSlot(send) # recv, Store(e), recv' = recv
  PROVE  /\ WindowConsistent'
         /\ Count' = Count + 1
         /\ \A n \in 0 .. Count - 1 : box'[SlotAt(n)] = box[SlotAt(n)]
         /\ Head(box'[SlotAt(Count)]) = e
<1> USE DEF RingTypeOK
<1>1. Count \in Slot /\ Count \in Nat /\ SlotAt(Count) = send /\ Count' = Count + 1
  BY DistanceArithmetic, SlotFacts DEF Count, SlotAt, Store
<1>2. \A n \in Slot : SlotAt(n) \in Slot /\ (SlotAt(n) = send <=> n = Count)
  BY <1>1, SlotAfterArithmetic DEF SlotAt
<1>3. Len(box[send]) = 0
  BY <1>1 DEF WindowConsistent
<1>4. Len(Append(box[send], e)) = 1 /\ Head(Append(box[send], e)) = e
  BY <1>3, OneMessage
<1>5. \A n \in Slot : box'[SlotAt(n)] = IF n = Count THEN Append(box[send], e)
                                                      ELSE box[SlotAt(n)]
  BY <1>2 DEF Store, SendMbx
<1>6. \A n \in Slot : Len(box'[SlotAt(n)]) = IF n < Count + 1 THEN 1 ELSE 0
  <2> TAKE n \in Slot
  <2>1. CASE n = Count
    <3>1. box'[SlotAt(n)] = Append(box[send], e)
      BY <1>5, <2>1
    <3>2. n < Count + 1
      BY <1>1, <2>1
    <3>3. QED
      BY <1>4, <3>1, <3>2
  <2>2. CASE n # Count
    <3>1. n < Count + 1 <=> n < Count
      BY <1>1, <2>2, SlotFacts
    <3>2. QED
      BY <1>5, <2>2, <3>1 DEF WindowConsistent
  <2>3. QED
    BY <2>1, <2>2
<1>7. WindowConsistent'
  BY <1>1, <1>6 DEF WindowConsistent, SlotAt
<1>8. \A n \in 0 .. Count - 1 : n \in Slot /\ n # Count
  BY <1>1, SlotFacts
<1>9. QED
  BY <1>1, <1>4, <1>5, <1>7, <1>8

LEMMA TakeMovesWindow ==
  ASSUME RingTypeOK, WindowConsistent, Deliver
  PROVE  /\ WindowConsistent'
         /\ Count \in Nat \ {0}
         /\ Count' = Count - 1
         /\ \A n \in 0 .. Count - 2 : box'[SlotAt(n)'] = box[SlotAt(n + 1)]
         /\ got' = Head(box[SlotAt(0)])
<1> USE DEF RingTypeOK
<1>1. SlotAt(0) = recv /\ 0 \in Slot /\ Count \in Slot /\ Count \in Nat
  BY SlotFacts, SlotAfterArithmetic, DistanceArithmetic DEF SlotAt, Count
<1>2. box[recv] # <<>> /\ recv' = NextSlot(recv) /\ send' = send
      /\ box' = [box EXCEPT ![recv] = Tail(box[recv])] /\ got' = Head(box[recv])
  BY DEF Deliver, ReceiveMbx
<1>3. Len(box[recv]) # 0
  BY <1>2, EmptySeq, LenProperties
<1>4. Count # 0 /\ Len(box[recv]) = 1
  <2>1. Len(box[recv]) = IF 0 < Count THEN 1 ELSE 0
    BY <1>1 DEF WindowConsistent
  <2>2. QED
    BY <1>1, <1>3, <2>1
<1>5. Count' = Count - 1
  BY <1>2, <1>4, DistanceArithmetic DEF Count
<1>6. Len(Tail(box[recv])) = 0
  BY <1>2, <1>4, HeadTailProperties
<1>7. ASSUME NEW n \in Slot, n # NumMbx - 1
      PROVE  /\ n + 1 \in Slot
             /\ SlotAfter(recv', n) = SlotAt(n + 1)
             /\ box'[SlotAfter(recv', n)] = box[SlotAt(n + 1)]
  <2>1. n + 1 \in Slot /\ n + 1 # 0
    BY <1>7, SlotFacts
  <2>2. SlotAt(n + 1) \in Slot /\ SlotAt(n + 1) # recv
    BY <1>1, <2>1, SlotAfterArithmetic DEF SlotAt
  <2>3. SlotAfter(recv', n) = SlotAt(n + 1)
    BY <1>2, <2>1, SlotAfterArithmetic DEF SlotAt
  <2>4. QED
    BY <1>2, <2>1, <2>2, <2>3
<1>8. box'[SlotAfter(recv', NumMbx - 1)] = Tail(box[recv])
  BY <1>2, SlotAfterArithmetic
<1>9. \A n \in Slot : Len(box'[SlotAfter(recv', n)]) = IF n < Count - 1 THEN 1 ELSE 0
  <2> TAKE n \in Slot
  <2>1. CASE n = NumMbx - 1
    <3>1. ~(n < Count - 1)
      BY <1>1, <2>1, SlotFacts DEF Slot
    <3>2. QED
      BY <1>6, <1>8, <2>1, <3>1
  <2>2. CASE n # NumMbx - 1
    <3>1. Len(box[SlotAt(n + 1)]) = IF n + 1 < Count THEN 1 ELSE 0
      BY <1>7, <2>2 DEF WindowConsistent
    <3>2. n + 1 < Count <=> n < Count - 1
      BY <1>1, SlotFacts
    <3>3. QED
      BY <1>7, <2>2, <3>1, <3>2
  <2>3. QED
    BY <2>1, <2>2
<1>10. WindowConsistent'
  BY <1>5, <1>9 DEF WindowConsistent, SlotAt
<1>11. \A n \in 0 .. Count - 2 : n \in Slot /\ n # NumMbx - 1
  BY <1>1, SlotFacts DEF Slot
<1>12. QED
  BY <1>1, <1>2, <1>4, <1>5, <1>7, <1>10, <1>11 DEF SlotAt

(* Empty mailboxes between equal indices are a consistent window. *)
LEMMA EmptyWindow ==
  /\ box = EmptyBoxes /\ recv = 0 /\ send = 0 => WindowConsistent /\ Count = 0
  /\ box' = EmptyBoxes /\ recv' = 0 /\ send' = 0 => WindowConsistent' /\ Count' = 0
<1>1. \A n \in Slot : SlotAfter(0, n) \in Slot /\ Len(EmptyBoxes[SlotAfter(0, n)]) = 0
  BY SlotFacts, SlotAfterArithmetic, EmptySeq DEF EmptyBoxes
<1>2. Distance(0, 0) = 0 /\ \A n \in Slot : ~(n < 0)
  BY SlotFacts, DistanceArithmetic
<1>3. QED
  BY <1>1, <1>2 DEF WindowConsistent, SlotAt, Count

(* The two indices say which mailboxes hold a message, one each, in every  *)
(* reachable state: across yields, jumps out of a yield and restarts.      *)
THEOREM WindowInvariant == Spec => []WindowConsistent
<1>1. Init => WindowConsistent
  BY EmptyWindow DEF Init
<1>2. RingTypeOK /\ WindowConsistent /\ [Next]_vars => WindowConsistent'
  <2> SUFFICES ASSUME RingTypeOK, WindowConsistent, [Next]_vars
               PROVE  WindowConsistent'
    OBVIOUS
  <2>1. CASE UNCHANGED <<box, recv, send>>
    BY <2>1 DEF WindowConsistent, SlotAt, Count
  <2>2. ASSUME NEW e \in Event, javacall_event_send(e) PROVE WindowConsistent'
    BY <2>1, <2>2, StoreMovesWindow DEF javacall_event_send
  <2>3. CASE Deliver
    BY <2>3, TakeMovesWindow
  <2>4. CASE Receive \/ YieldReturns
    BY <2>1, <2>3, <2>4 DEF Receive, javacall_event_receive, YieldReturns, ringVars
  <2>5. CASE javacall_events_finalize
    BY <2>5, EmptyWindow DEF javacall_events_finalize
  <2>6. CASE javacall_events_init \/ PauseMenuJumps \/ UNCHANGED vars
    BY <2>1, <2>6 DEF javacall_events_init, PauseMenuJumps, vars, ringVars
  <2>7. QED
    BY <2>2, <2>4, <2>5, <2>6 DEF Next
<1>3. QED
  BY <1>1, <1>2, RingTypeInvariant, PTL DEF Spec

-----------------------------------------------------------------------------
(* The window, read from the receive index, is a sequence of events. *)
ContentsOK == Contents \in [1 .. Count -> Event]

LEMMA ContentsInvariant == Spec => []ContentsOK
<1>1. RingTypeOK /\ WindowConsistent => ContentsOK
  <2> SUFFICES ASSUME RingTypeOK, WindowConsistent PROVE ContentsOK
    OBVIOUS
  <2>1. Count \in Slot /\ Count \in Nat
    BY DistanceArithmetic, SlotFacts DEF Count, RingTypeOK
  <2>2. \A n \in 1 .. Count : n - 1 \in Slot /\ n - 1 < Count
    <3> TAKE n \in 1 .. Count
    <3>1. n - 1 \in 0 .. Count /\ n - 1 < Count
      BY <2>1
    <3>2. QED
      BY <2>1, <3>1, SlotFacts
  <2>3. \A n \in Slot : SlotAt(n) \in Slot /\ box[SlotAt(n)] \in Seq(Event)
    BY SlotAfterArithmetic DEF SlotAt, RingTypeOK
  <2>4. \A n \in Slot : n < Count => box[SlotAt(n)] # <<>>
    BY <2>3, EmptySeq DEF WindowConsistent
  <2>5. \A n \in 1 .. Count : Head(box[SlotAt(n - 1)]) \in Event
    BY <2>2, <2>3, <2>4, HeadTailProperties
  <2>6. QED
    BY <2>5 DEF Contents, ContentsOK
<1>2. QED
  BY <1>1, RingTypeInvariant, WindowInvariant, PTL

(* A send appends to the queue; a receive takes its head. *)
LEMMA StoreAppends ==
  ASSUME RingTypeOK, WindowConsistent, ContentsOK, ContentsOK',
         NEW e \in Event, NextSlot(send) # recv, Store(e), recv' = recv
  PROVE  Len(Contents) < NumMbx - 1 /\ Contents' = Append(Contents, e)
<1>1. Count \in Nat /\ Count < NumMbx - 1 /\ Count' = Count + 1
  <2>1. Count \in Slot /\ Count # NumMbx - 1
    BY DistanceArithmetic DEF Count, RingTypeOK
  <2>2. Count \in Nat /\ Count < NumMbx - 1
    BY <2>1, RingAssumption DEF RingAssumption, Slot
  <2>3. QED
    BY <2>2, StoreMovesWindow
<1>2. Len(Contents) = Count
  BY <1>1, FunctionIsSeq DEF ContentsOK
<1>3. /\ \A n \in 0 .. Count - 1 : box'[SlotAt(n)] = box[SlotAt(n)]
      /\ Head(box'[SlotAt(Count)]) = e
  BY StoreMovesWindow
<1>4. Contents' = [n \in 1 .. Count + 1 |-> Head(box'[SlotAt(n - 1)])]
  BY <1>1 DEF Contents, SlotAt
<1>5. \A n \in 1 .. Count : Contents'[n] = Contents[n]
  BY <1>1, <1>3, <1>4 DEF Contents
<1>6. Contents'[Count + 1] = e
  <2>1. Count + 1 \in 1 .. Count + 1 /\ Count + 1 - 1 = Count
    BY <1>1
  <2>2. Contents'[Count + 1] = Head(box'[SlotAt(Count + 1 - 1)])
    BY <1>1, <1>4, <2>1 DEF SlotAt
  <2>3. QED
    BY <1>3, <2>1, <2>2
<1>7. Contents' = Append(Contents, Contents'[Count + 1])
  BY <1>1, <1>5, OneMoreAppends DEF ContentsOK
<1>8. QED
  BY <1>1, <1>2, <1>6, <1>7

LEMMA TakeIsHead ==
  ASSUME RingTypeOK, WindowConsistent, ContentsOK, ContentsOK', Deliver
  PROVE  /\ Contents # <<>>
         /\ got' = Head(Contents)
         /\ Contents' = Tail(Contents)
<1>1. Count \in Nat \ {0} /\ Count' = Count - 1 /\ got' = Head(box[SlotAt(0)])
  BY TakeMovesWindow
<1>2. \A n \in 0 .. Count - 2 : box'[SlotAt(n)'] = box[SlotAt(n + 1)]
  BY TakeMovesWindow
<1>3. Contents' = [n \in 1 .. Count - 1 |-> Head(box'[SlotAfter(recv', n - 1)])]
  BY <1>1 DEF Contents, SlotAt
<1>4. \A n \in 1 .. Count - 1 : Contents'[n] = Contents[n + 1]
  <2> TAKE n \in 1 .. Count - 1
  <2>1. n - 1 \in 0 .. Count - 2 /\ n + 1 \in 1 .. Count /\ (n - 1) + 1 = (n + 1) - 1
    BY <1>1
  <2>2. Contents'[n] = Head(box[SlotAt((n - 1) + 1)])
    BY <1>2, <1>3, <2>1 DEF SlotAt
  <2>3. Contents[n + 1] = Head(box[SlotAt((n + 1) - 1)])
    BY <2>1 DEF Contents
  <2>4. QED
    BY <2>1, <2>2, <2>3
<1>5. Contents # <<>> /\ Head(Contents) = Contents[1] /\ Contents' = Tail(Contents)
  BY <1>1, <1>4, ShiftIsTail DEF ContentsOK
<1>6. Contents[1] = Head(box[SlotAt(0)])
  <2>1. 1 \in 1 .. Count /\ 1 - 1 = 0
    BY <1>1
  <2>2. QED
    BY <2>1 DEF Contents
<1>7. QED
  BY <1>1, <1>5, <1>6

(* The ring implements the bounded FIFO with one place less than it has    *)
(* mailboxes.                                                              *)
THEOREM RingImplementsFifo == Spec => ImplementsFifo
<1>1. Init /\ ContentsOK => Fifo!Init
  BY EmptyWindow, NoneIsEmpty DEF Init, Fifo!Init, ContentsOK
<1>2. /\ RingTypeOK /\ WindowConsistent /\ ContentsOK /\ ContentsOK'
      /\ [Next]_vars
      => [Fifo!Next]_(Fifo!vars)
  <2> SUFFICES ASSUME RingTypeOK, WindowConsistent, ContentsOK, ContentsOK',
                      [Next]_vars
               PROVE  [Fifo!Next]_(Fifo!vars)
    OBVIOUS
  <2> USE DEF Fifo!Next, Fifo!vars
  <2>1. UNCHANGED <<box, recv, send>> => Contents' = Contents
    BY DEF Contents, Count, SlotAt
  <2>2. Len(Contents) = Count /\ Count \in Nat
    <3>1. Count \in Nat
      BY DistanceArithmetic, SlotFacts DEF RingTypeOK, Count
    <3>2. QED
      BY <3>1, FunctionIsSeq DEF ContentsOK
  <2>3. ASSUME NEW e \in Event, javacall_event_send(e) PROVE Fifo!Put(e)
    <3>1. CASE outcome' = "no memory" /\ UNCHANGED <<box, send>>
      BY <2>1, <2>3, <3>1 DEF javacall_event_send, Fifo!Put
    <3>2. CASE NextSlot(send) = recv /\ outcome' = "refused" /\ UNCHANGED <<box, send>>
      <4>1. Len(Contents) = NumMbx - 1
        BY <2>2, <3>2, DistanceArithmetic DEF Count, RingTypeOK
      <4>2. QED
        BY <2>1, <2>3, <3>2, <4>1 DEF javacall_event_send, Fifo!Put
    <3>3. CASE NextSlot(send) # recv /\ Store(e)
      BY <2>3, <3>3, StoreAppends DEF javacall_event_send, Store, Fifo!Put
    <3>4. QED
      BY <2>3, <3>1, <3>2, <3>3 DEF javacall_event_send
  <2>4. Deliver => Fifo!Take
    BY TakeIsHead DEF Deliver, Fifo!Take
  <2>5. ASSUME box[recv] = <<>> PROVE Contents = <<>>
    <3>1. SlotAt(0) = recv /\ 0 \in Slot
      BY SlotFacts, SlotAfterArithmetic DEF SlotAt, RingTypeOK
    <3>2. ~(0 < Count)
      BY <2>5, <3>1, EmptySeq DEF WindowConsistent
    <3>3. QED
      BY <2>2, <3>2, NoneIsEmpty DEF ContentsOK
  <2>6. box[recv] = <<>> /\ outcome' = "empty" /\ UNCHANGED <<box, recv, send, got>>
        => Fifo!Take
    BY <2>1, <2>5 DEF Fifo!Take
  <2>7. CASE Receive
    BY <2>1, <2>4, <2>6, <2>7 DEF Receive, javacall_event_receive, ringVars
  <2>8. CASE YieldReturns
    BY <2>4, <2>6, <2>8 DEF YieldReturns, ringVars
  <2>9. CASE javacall_events_finalize
    BY <2>9, EmptyWindow, NoneIsEmpty DEF javacall_events_finalize, ContentsOK, Fifo!Clear
  <2>10. CASE javacall_events_init \/ PauseMenuJumps \/ UNCHANGED vars
    BY <2>1, <2>10 DEF javacall_events_init, PauseMenuJumps, vars, ringVars
  <2>11. QED
    BY <2>3, <2>7, <2>8, <2>9, <2>10 DEF Next
<1>3. QED
  BY <1>1, <1>2, RingTypeInvariant, WindowInvariant, ContentsInvariant, PTL
     DEF Spec, ImplementsFifo, Fifo!Spec
=============================================================================
