---------------------------- MODULE RepaintEvents ----------------------------
(***************************************************************************)
(* The repaint events of LCDUI (RepaintEventProducer.java).  Any Java      *)
(* thread may schedule the repaint of a region; requests that come before  *)
(* the queued event is processed are merged into it.  The dispatch thread  *)
(* processes the event: it paints.  serviceRepaints lets a thread wait     *)
(* until what it requested is painted.                                     *)
(*                                                                         *)
(* Three event objects are used again and again.  The dispatch thread      *)
(* reads the fields of the event without the producer's lock, field by     *)
(* field, while other threads fill the spare event and merge into the      *)
(* queued one.                                                             *)
(***************************************************************************)
EXTENDS Naturals, Sequences, FiniteSets

CONSTANTS
  Thread,       \* application threads other than the dispatch thread
  Display,      \* the displays that request repaints
  Null,         \* the null reference
  MaxRequests   \* bound on the requests made

ASSUME RepaintAssumption ==
  /\ Null \notin Display
  /\ Null \notin 1 .. 3
  /\ MaxRequests \in Nat

Event   == 1 .. 3
Request == 1 .. MaxRequests

VARIABLES
  pool,            \* <<pooledEvent1, pooledEvent2, pooledEvent3>>
  display,         \* RepaintEvent.display of each event
  region,          \* its paint rectangle: the requests it stands for
  perUseID,        \* RepaintEvent.perUseID
  queuedEvent,
  eventInProcess,
  queue,           \* the repaint events in the Java event queue
  disp,            \* dispatch thread: "take", "taken", "display", "region",
                   \* "paint"; each is the next thing it does
  other,           \* is it inside the listener of another event?
  current,         \* process: the parameter event
  painting,        \* the display and region handleRepaintEvent was given
  call,            \* serviceRepaints of each thread: "idle", "check", "wait"
  awaited,         \* waitForCurrentRepaintEvents: eventToWaitFor
  awaitedID,       \* and currentEventUseID
  asked,           \* requests made so far
  askedBy,         \* the display each was made for
  painted,         \* requests that were painted
  superseded,      \* requests overwritten by those of another display
  owed             \* requests not yet painted when a thread called
                   \* serviceRepaints

eventVars    == <<pool, display, region>>
producerVars == <<queuedEvent, eventInProcess>>
dispVars     == <<disp, other, current, painting>>
callVars     == <<call, awaited, awaitedID, owed>>
ghostVars    == <<asked, askedBy, painted, superseded>>
vars == <<eventVars, perUseID, producerVars, queue, dispVars, callVars, ghostVars>>

Nothing == [display |-> Null, region |-> {}]

Init ==
  /\ pool = <<1, 2, 3>>
  /\ display = [e \in Event |-> Null]
  /\ region = [e \in Event |-> {}]
  /\ perUseID = [e \in Event |-> 0]
  /\ queuedEvent = Null
  /\ eventInProcess = Null
  /\ queue = <<>>
  /\ disp = "take"
  /\ other = FALSE
  /\ current = Null
  /\ painting = Nothing
  /\ call = [t \in Thread |-> "idle"]
  /\ awaited = [t \in Thread |-> Null]
  /\ awaitedID = [t \in Thread |-> 0]
  /\ asked = 0
  /\ askedBy = [n \in Request |-> Null]
  /\ painted = {}
  /\ superseded = {}
  /\ owed = [t \in Thread |-> {}]

-----------------------------------------------------------------------------
Pending == (1 .. asked) \ (painted \cup superseded)

(* The three events change places when one is queued; RotateTwo forgets    *)
(* the third.                                                              *)
RotateTwo == <<pool[2], pool[1], pool[3]>>
Rotate    == <<pool[2], pool[3], pool[1]>>

(* The three outcomes of scheduleRepaint of display d: the spare event is  *)
(* filled in and queued (QueueAgain: whether or not one is queued), ...    *)
QueueAgain(d, n) ==
  /\ pool' = Rotate
  /\ queuedEvent' = pool[1]
  /\ queue' = Append(queue, pool[1])
  /\ display' = [display EXCEPT ![pool[1]] = d]
  /\ region' = [region EXCEPT ![pool[1]] = {n}]
  /\ UNCHANGED superseded

Queue(d, n) ==
  /\ queuedEvent = Null
  /\ pool' = Rotate
  /\ queuedEvent' = pool[1]
  /\ queue' = Append(queue, pool[1])
  /\ display' = [display EXCEPT ![pool[1]] = d]
  /\ region' = [region EXCEPT ![pool[1]] = {n}]
  /\ UNCHANGED superseded

(* ... or the queued event is overwritten, if it is for another display ... *)
Overwrite(d, n) ==
  /\ queuedEvent # Null
  /\ display[queuedEvent] # d
  /\ display' = [display EXCEPT ![pool[1]] = d, ![queuedEvent] = d]
  /\ region' = [region EXCEPT ![pool[1]] = {n}, ![queuedEvent] = {n}]
  /\ superseded' = superseded \cup region[queuedEvent]
  /\ UNCHANGED <<pool, queuedEvent, queue>>

(* ... or its rectangle grows; Replace assigns where it should grow. *)
Replace(d, n) ==
  /\ queuedEvent # Null
  /\ display[queuedEvent] = d
  /\ display' = [display EXCEPT ![pool[1]] = d]
  /\ region' = [region EXCEPT ![pool[1]] = {n}, ![queuedEvent] = {n}]
  /\ UNCHANGED <<pool, queuedEvent, queue, superseded>>

Merge(d, n) ==
  /\ queuedEvent # Null
  /\ display[queuedEvent] = d
  /\ display' = [display EXCEPT ![pool[1]] = d]
  /\ region' = [region EXCEPT ![pool[1]] = {n}, ![queuedEvent] = @ \cup {n}]
  /\ UNCHANGED <<pool, queuedEvent, queue, superseded>>

ScheduleRepaint(d) ==
  /\ asked < MaxRequests
  /\ asked' = asked + 1
  /\ askedBy' = [askedBy EXCEPT ![asked + 1] = d]
  /\ \/ Queue(d, asked + 1)
     \/ Overwrite(d, asked + 1)
     \/ Merge(d, asked + 1)
  /\ UNCHANGED <<perUseID, eventInProcess, dispVars, callVars, painted>>

(* An application thread asks for a repaint; so do listeners and the       *)
(* application's paint, on the dispatch thread.                            *)
ThreadSchedules(t, d) == call[t] = "idle" /\ ScheduleRepaint(d)

DispatchSchedules(d) ==
  /\ disp = "paint" \/ (disp = "take" /\ other)
  /\ ScheduleRepaint(d)

-----------------------------------------------------------------------------
(* EventQueue.run: the dispatch thread takes a repaint event ... *)
Take ==
  /\ disp = "take" /\ ~other
  /\ queue # <<>>
  /\ current' = Head(queue)
  /\ queue' = Tail(queue)
  /\ disp' = "taken"
  /\ UNCHANGED <<eventVars, perUseID, producerVars, other, painting, callVars, ghostVars>>

(* ... or any other event, whose listener runs application code ... *)
TakeOther ==
  /\ disp = "take" /\ ~other
  /\ other' = TRUE
  /\ UNCHANGED <<eventVars, perUseID, producerVars, queue, disp, current, painting,
                 callVars, ghostVars>>

OtherReturns ==
  /\ disp = "take" /\ other
  /\ other' = FALSE
  /\ UNCHANGED <<eventVars, perUseID, producerVars, queue, disp, current, painting,
                 callVars, ghostVars>>

(* ... which may call serviceRepaints: on the dispatch thread that removes *)
(* the oldest repaint event and processes it.  In the middle of a paint    *)
(* the call returns at once.                                               *)
ServiceOnDispatch ==
  /\ disp = "take" /\ other
  /\ eventInProcess = Null
  /\ queue # <<>>
  /\ current' = Head(queue)
  /\ queue' = Tail(queue)
  /\ disp' = "taken"
  /\ UNCHANGED <<eventVars, perUseID, producerVars, other, painting, callVars, ghostVars>>

(* process: the first synchronized block.  KeepQueued leaves queuedEvent.  *)
KeepQueued ==
  /\ disp = "taken"
  /\ eventInProcess' = current
  /\ disp' = "display"
  /\ UNCHANGED <<eventVars, perUseID, queuedEvent, queue, other, current, painting,
                 callVars, ghostVars>>

Process ==
  /\ disp = "taken"
  /\ queuedEvent' = Null
  /\ eventInProcess' = current
  /\ disp' = "display"
  /\ UNCHANGED <<eventVars, perUseID, queue, other, current, painting, callVars, ghostVars>>

(* The fields are read without the lock: the display first, then the       *)
(* rectangle.                                                              *)
ReadDisplay ==
  /\ disp = "display"
  /\ painting' = [Nothing EXCEPT !.display = display[current]]
  /\ disp' = "region"
  /\ UNCHANGED <<eventVars, perUseID, producerVars, queue, other, current, callVars, ghostVars>>

ReadRegion ==
  /\ disp = "region"
  /\ painting' = [painting EXCEPT !.region = region[current]]
  /\ disp' = "paint"
  /\ UNCHANGED <<eventVars, perUseID, producerVars, queue, other, current, callVars, ghostVars>>

(* The paint returns, and the second synchronized block tells the waiting  *)
(* threads.  FinishSilently forgets notifyAll.                             *)
NotifyAll == call' = [t \in Thread |-> IF call[t] = "wait" THEN "check" ELSE call[t]]

FinishSilently ==
  /\ disp = "paint"
  /\ painted' = painted \cup painting.region
  /\ perUseID' = [perUseID EXCEPT ![eventInProcess] = @ + 1]
  /\ eventInProcess' = Null
  /\ disp' = "take"
  /\ current' = Null
  /\ painting' = Nothing
  /\ UNCHANGED <<eventVars, queuedEvent, queue, other, callVars, asked, askedBy, superseded>>

Finish ==
  /\ disp = "paint"
  /\ painted' = painted \cup painting.region
  /\ perUseID' = [perUseID EXCEPT ![eventInProcess] = @ + 1]
  /\ eventInProcess' = Null
  /\ NotifyAll
  /\ disp' = "take"
  /\ current' = Null
  /\ painting' = Nothing
  /\ UNCHANGED <<eventVars, queuedEvent, queue, other, awaited, awaitedID, owed,
                 asked, askedBy, superseded>>

-----------------------------------------------------------------------------
(* waitForCurrentRepaintEvents: the queued event first, because it is      *)
(* processed after the one in process.  ProcessedFirst is the other way    *)
(* round.                                                                  *)
ProcessedFirst == IF eventInProcess # Null THEN eventInProcess ELSE queuedEvent
ToWaitFor      == IF queuedEvent # Null THEN queuedEvent ELSE eventInProcess

(* serviceRepaints on an application thread: it returns when there is      *)
(* nothing to wait for ...                                                 *)
ServiceRepaints(t) ==
  /\ call[t] = "idle"
  /\ ToWaitFor # Null
  /\ awaited' = [awaited EXCEPT ![t] = ToWaitFor]
  /\ awaitedID' = [awaitedID EXCEPT ![t] = perUseID[ToWaitFor]]
  /\ owed' = [owed EXCEPT ![t] = Pending]
  /\ call' = [call EXCEPT ![t] = "check"]
  /\ UNCHANGED <<eventVars, perUseID, producerVars, queue, dispVars, ghostVars>>

(* ... and else waits until the event's use is over, or it is interrupted. *)
Wait(t) ==
  /\ call[t] = "check"
  /\ perUseID[awaited[t]] = awaitedID[t]
  /\ call' = [call EXCEPT ![t] = "wait"]
  /\ UNCHANGED <<eventVars, perUseID, producerVars, queue, dispVars,
                 awaited, awaitedID, owed, ghostVars>>

Return(t) ==
  /\ call[t] = "check"
  /\ perUseID[awaited[t]] # awaitedID[t]
  /\ call' = [call EXCEPT ![t] = "idle"]
  /\ awaited' = [awaited EXCEPT ![t] = Null]
  /\ awaitedID' = [awaitedID EXCEPT ![t] = 0]
  /\ owed' = [owed EXCEPT ![t] = {}]
  /\ UNCHANGED <<eventVars, perUseID, producerVars, queue, dispVars, ghostVars>>

Interrupted(t) ==
  /\ call[t] = "wait"
  /\ call' = [call EXCEPT ![t] = "idle"]
  /\ awaited' = [awaited EXCEPT ![t] = Null]
  /\ awaitedID' = [awaitedID EXCEPT ![t] = 0]
  /\ owed' = [owed EXCEPT ![t] = {}]
  /\ UNCHANGED <<eventVars, perUseID, producerVars, queue, dispVars, ghostVars>>

-----------------------------------------------------------------------------
DispatchStep == Take \/ ServiceOnDispatch \/ Process \/ ReadDisplay \/ ReadRegion \/ Finish

Next ==
  \/ \E t \in Thread, d \in Display : ThreadSchedules(t, d)
  \/ \E d \in Display : DispatchSchedules(d)
  \/ TakeOther
  \/ OtherReturns
  \/ DispatchStep
  \/ \E t \in Thread : ServiceRepaints(t) \/ Wait(t) \/ Return(t) \/ Interrupted(t)

Spec == Init /\ [][Next]_vars

(* Assumed: the Java threads are scheduled fairly, listeners and paint     *)
(* return, and the queue is served in order, so a repaint event is taken   *)
(* although other events keep coming.  Nobody is forced to ask for         *)
(* anything or to interrupt.                                               *)
Fairness ==
  /\ WF_vars(OtherReturns)
  /\ SF_vars(Take)
  /\ WF_vars(Process \/ ReadDisplay \/ ReadRegion \/ Finish)
  /\ \A t \in Thread : WF_vars(Wait(t) \/ Return(t))

FairSpec == Spec /\ Fairness

-----------------------------------------------------------------------------
OrNull(S) == S \cup {Null}

TypeOK ==
  /\ pool \in [1 .. 3 -> Event]
  /\ display \in [Event -> OrNull(Display)]
  /\ region \in [Event -> SUBSET Request]
  /\ perUseID \in [Event -> Nat]
  /\ queuedEvent \in OrNull(Event)
  /\ eventInProcess \in OrNull(Event)
  /\ queue \in Seq(Event)
  /\ disp \in {"take", "taken", "display", "region", "paint"}
  /\ other \in BOOLEAN
  /\ current \in OrNull(Event)
  /\ painting \in [display : OrNull(Display), region : SUBSET Request]
  /\ call \in [Thread -> {"idle", "check", "wait"}]
  /\ awaited \in [Thread -> OrNull(Event)]
  /\ awaitedID \in [Thread -> Nat]
  /\ asked \in 0 .. MaxRequests
  /\ askedBy \in [Request -> OrNull(Display)]
  /\ painted \subseteq Request
  /\ superseded \subseteq Request
  /\ owed \in [Thread -> SUBSET Request]

(* The spare event that scheduleRepaint fills in is not one that is in the *)
(* queue, on its way to be processed, or being painted: its fields may be  *)
(* written while the dispatch thread reads those of the others.            *)
SpareUnshared == pool[1] \notin {queue[i] : i \in DOMAIN queue} \cup {queuedEvent, current}

(* serviceRepaints on the dispatch thread relies on it (line 231): there   *)
(* is at most one repaint event in the queue, it is the queued event, and  *)
(* an event object is never linked into the queue twice.                   *)
OneInQueue ==
  /\ Len(queue) <= 1
  /\ queue # <<>> => queuedEvent = queue[1]

(* A paint never mixes two requests of different displays, and never shows *)
(* a rectangle with the display of another use of the event.               *)
NoTornPaint == \A n \in painting.region : askedBy[n] = painting.display

(* No request is lost: one that was neither painted nor overwritten is in  *)
(* the event that is queued or in the one in process.                      *)
NoRequestLost ==
  Pending \subseteq
    (IF queuedEvent # Null THEN region[queuedEvent] ELSE {}) \cup
    (IF eventInProcess # Null THEN region[eventInProcess] ELSE {})

(* When serviceRepaints of an application thread returns, what had been    *)
(* requested before the call has been painted, unless another display took *)
(* its place.                                                              *)
ServedWhenReturned ==
  [][\A t \in Thread : Return(t) => owed[t] \subseteq painted \cup superseded]_vars

(* serviceRepaints returns: a thread that waits is told when its event is  *)
(* done, however often the event objects are used again.                   *)
ServiceReturns == \A t \in Thread : call[t] # "idle" ~> call[t] = "idle"

(* Every repaint that was asked for is painted, or overwritten by one of   *)
(* another display.                                                        *)
EventuallyPainted == \A n \in Request : n <= asked ~> n \in painted \cup superseded
=============================================================================
