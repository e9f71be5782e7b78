------------------------- MODULE RepaintEventsProofs -------------------------
(***************************************************************************)
(* The safety of RepaintEvents for any number of threads and displays.     *)
(* The argument is about the roles that the three event objects play: the  *)
(* first of the pool is spare, the last is the queued one, and an event in *)
(* use by the dispatch thread has moved on to the second place when        *)
(* another one is queued.  As the dispatch thread works on one event at a  *)
(* time and the next cannot be queued twice, it never gets to the first.   *)
(***************************************************************************)
EXTENDS RepaintEvents, TLAPS

(* The dispatch thread is between the two synchronized blocks of process.  *)
InProcess == disp \in {"display", "region", "paint"}

Roles ==
  /\ pool[1] # pool[2] /\ pool[1] # pool[3] /\ pool[2] # pool[3]
  /\ queuedEvent \in {Null, pool[3]}
  /\ queue = IF queuedEvent = Null \/ disp = "taken" THEN <<>> ELSE <<queuedEvent>>
  /\ disp = "take" => current = Null
  /\ disp = "taken" => current = queuedEvent /\ queuedEvent # Null
  /\ InProcess => current = IF queuedEvent = Null THEN pool[3] ELSE pool[2]
  /\ eventInProcess = IF InProcess THEN current ELSE Null

(* What an event stands for was asked for by its display, and what is      *)
(* painted is what the event still holds.                                  *)
Contents ==
  /\ \A e \in Event : \A n \in region[e] : n <= asked /\ askedBy[n] = display[e]
  /\ painting.region # {} => disp = "paint"
  /\ disp \in {"region", "paint"} => painting.display = display[current]
  /\ disp = "paint" => painting.region = region[current]

(* A thread in serviceRepaints either sees that its event has been used,   *)
(* and then all it is owed is done, or waits for the queued event, or for  *)
(* the one in process, and then that one holds the rest.                   *)
Done == painted \cup superseded

Waiting(t) ==
  /\ awaited[t] \in Event
  /\ owed[t] \subseteq 1 .. asked
  /\ awaitedID[t] <= perUseID[awaited[t]]
  /\ awaitedID[t] # perUseID[awaited[t]] => owed[t] \subseteq Done
  /\ awaitedID[t] = perUseID[awaited[t]] =>
       \/ awaited[t] = queuedEvent
       \/ awaited[t] = eventInProcess /\ owed[t] \subseteq Done \cup region[eventInProcess]

Service == \A t \in Thread : call[t] # "idle" => Waiting(t)

IInv == TypeOK /\ Roles /\ Contents /\ NoRequestLost /\ Service

(* The initial state: nothing is queued and nobody waits. *)
LEMMA InitIInv == Init => IInv
<1> SUFFICES ASSUME Init PROVE IInv
  OBVIOUS
<1>1. TypeOK
  <2>1. pool \in [1 .. 3 -> Event] /\ queue \in Seq(Event)
    BY DEF Init, Event
  <2>2. asked \in 0 .. MaxRequests /\ painted \subseteq Request /\ superseded \subseteq Request
    BY RepaintAssumption DEF Init, Request
  <2> QED
    BY <2>1, <2>2 DEF Init, TypeOK, OrNull, Nothing
<1>2. Roles
  BY RepaintAssumption DEF Init, Roles, InProcess
<1>3. Contents
  BY DEF Init, Contents, Nothing
<1>4. NoRequestLost
  BY DEF Init, NoRequestLost, Pending
<1>5. Service
  BY DEF Init, Service
<1> QED
  BY <1>1, <1>2, <1>3, <1>4, <1>5 DEF IInv

(* What the type and the roles say of the events in numbers. *)
LEMMA EventFacts ==
  ASSUME TypeOK, Roles
  PROVE  /\ Null \notin Event
         /\ pool[1] \in Event /\ pool[2] \in Event /\ pool[3] \in Event
         /\ current # pool[1] /\ queuedEvent # pool[1] /\ eventInProcess # pool[1]
         /\ InProcess => current \in Event /\ current # queuedEvent
         /\ eventInProcess # Null => eventInProcess # queuedEvent
<1>1. Null \notin Event /\ pool \in [1 .. 3 -> Event]
  BY RepaintAssumption DEF Event, TypeOK
<1>2. pool[1] \in Event /\ pool[2] \in Event /\ pool[3] \in Event
  BY <1>1
<1>3. disp \in {"take", "taken"} \/ InProcess
  BY DEF TypeOK, InProcess
<1> QED
  BY <1>1, <1>2, <1>3 DEF Roles, InProcess

-----------------------------------------------------------------------------
(* The new request is the last one. *)
LEMMA AskedFacts ==
  ASSUME TypeOK, NEW d \in Display, ScheduleRepaint(d)
  PROVE  /\ asked + 1 \in Request /\ asked + 1 \notin 1 .. asked
         /\ asked' = asked + 1 /\ asked' \in 0 .. MaxRequests
         /\ 1 .. asked' = (1 .. asked) \cup {asked + 1}
         /\ askedBy' = [askedBy EXCEPT ![asked + 1] = d]
         /\ askedBy' \in [Request -> OrNull(Display)]
  BY RepaintAssumption DEF ScheduleRepaint, TypeOK, Request, OrNull

(* What it does to the fields of the events, field by field: the spare     *)
(* event is filled in, the queued one may change, no other does.           *)
LEMMA ScheduleFields ==
  ASSUME TypeOK, Roles, NEW d \in Display, ScheduleRepaint(d)
  PROVE  /\ display' \in [Event -> OrNull(Display)]
         /\ region' \in [Event -> SUBSET Request]
         /\ superseded' \in SUBSET Request /\ superseded \subseteq superseded'
         /\ \A e \in Event : e # pool[1] /\ e # queuedEvent =>
              display'[e] = display[e] /\ region'[e] = region[e]
         /\ display'[pool[1]] = d /\ region'[pool[1]] = {asked + 1}
         /\ queuedEvent # Null =>
              /\ display'[queuedEvent] = d
              /\ asked + 1 \in region'[queuedEvent]
              /\ \A m \in region'[queuedEvent] :
                   m = asked + 1 \/ (m \in region[queuedEvent] /\ display[queuedEvent] = d)
              /\ region[queuedEvent] \subseteq region'[queuedEvent] \cup superseded'
<1> USE DEF TypeOK, OrNull
<1>1. /\ asked + 1 \in Request /\ pool[1] \in Event /\ pool[1] # queuedEvent
      /\ d \in OrNull(Display) /\ {asked + 1} \in SUBSET Request
  BY AskedFacts, EventFacts
<1>2. CASE Queue(d, asked + 1)
  BY <1>1, <1>2 DEF Queue
<1>3. CASE Overwrite(d, asked + 1)
  <2>1. queuedEvent \in Event
    BY <1>3 DEF Overwrite
  <2>2. superseded' \in SUBSET Request /\ superseded \subseteq superseded'
    BY <1>3, <2>1 DEF Overwrite
  <2> QED
    BY <1>1, <1>3, <2>1, <2>2 DEF Overwrite
<1>4. CASE Merge(d, asked + 1)
  <2>1. queuedEvent \in Event
    BY <1>4 DEF Merge
  <2>2. region[queuedEvent] \cup {asked + 1} \in SUBSET Request
    BY <1>1, <2>1
  <2>3. region' = [region EXCEPT ![pool[1]] = {asked + 1},
                                 ![queuedEvent] = region[queuedEvent] \cup {asked + 1}]
    BY <1>1, <1>4, <2>1 DEF Merge
  <2> QED
    <3>1. /\ display' = [display EXCEPT ![pool[1]] = d]
          /\ display[queuedEvent] = d /\ superseded' = superseded
      BY <1>4 DEF Merge
    <3>2. display' \in [Event -> OrNull(Display)] /\ region' \in [Event -> SUBSET Request]
      BY <1>1, <2>1, <2>2, <2>3, <3>1
    <3>3. \A e \in Event : e # pool[1] /\ e # queuedEvent =>
            display'[e] = display[e] /\ region'[e] = region[e]
      BY <2>3, <3>1
    <3>4. display'[pool[1]] = d /\ region'[pool[1]] = {asked + 1}
      BY <1>1, <2>3, <3>1
    <3>5. display'[queuedEvent] = d /\ region'[queuedEvent] = region[queuedEvent] \cup {asked + 1}
      BY <1>1, <2>1, <2>3, <3>1
    <3> QED
      BY <3>1, <3>2, <3>3, <3>4, <3>5
<1> QED
  BY <1>2, <1>3, <1>4 DEF ScheduleRepaint

(* scheduleRepaint queues the spare event, which makes the second one      *)
(* spare, or changes only the spare and the queued event.                  *)
LEMMA ScheduleTypeOK ==
  ASSUME TypeOK, Roles, NEW d \in Display, ScheduleRepaint(d)
  PROVE  TypeOK'
<1>1. pool' \in [1 .. 3 -> Event] /\ queuedEvent' \in OrNull(Event) /\ queue' \in Seq(Event)
  <2>1. CASE Queue(d, asked + 1)
    <3>1. pool' \in [1 .. 3 -> Event]
      BY <2>1, EventFacts DEF Queue, Rotate
    <3>2. queue' \in Seq(Event)
      BY <2>1, EventFacts DEF Queue, TypeOK
    <3> QED
      BY <2>1, <3>1, <3>2, EventFacts DEF Queue, OrNull
  <2>2. CASE UNCHANGED <<pool, queuedEvent, queue>>
    BY <2>2 DEF TypeOK
  <2> QED
    BY <2>1, <2>2 DEF ScheduleRepaint, Overwrite, Merge
<1> QED
  BY <1>1, ScheduleFields, AskedFacts DEF ScheduleRepaint, dispVars, callVars, TypeOK

LEMMA ScheduleRoles ==
  ASSUME TypeOK, Roles, NEW d \in Display, ScheduleRepaint(d)
  PROVE  Roles'
<1>1. UNCHANGED <<disp, current, eventInProcess>>
  BY DEF ScheduleRepaint, dispVars
<1>2. CASE Queue(d, asked + 1)
  <2>1. pool'[1] = pool[2] /\ pool'[2] = pool[3] /\ pool'[3] = pool[1]
    BY <1>2 DEF Queue, Rotate
  <2>2. queuedEvent = Null /\ queuedEvent' = pool[1] /\ queue' = Append(queue, pool[1])
    BY <1>2 DEF Queue
  <2>3. queue = <<>> /\ disp # "taken"
    BY <2>2 DEF Roles
  <2>4. queue' = <<pool[1]>>
    BY <2>2, <2>3
  <2> QED
    <3>1. queuedEvent' = pool'[3] /\ queuedEvent' # Null /\ queue' = <<queuedEvent'>>
      BY <2>1, <2>2, <2>4, EventFacts
    <3>2. InProcess => current = pool'[2]
      BY <2>1, <2>2 DEF Roles
    <3> QED
      BY <1>1, <2>1, <2>2, <2>3, <3>1, <3>2, EventFacts DEF Roles, InProcess
<1>3. CASE UNCHANGED <<pool, queuedEvent, queue>>
  BY <1>1, <1>3 DEF Roles, InProcess
<1> QED
  BY <1>2, <1>3 DEF ScheduleRepaint, Overwrite, Merge

LEMMA ScheduleContents ==
  ASSUME TypeOK, Roles, Contents, NEW d \in Display, ScheduleRepaint(d)
  PROVE  Contents'
<1>1. UNCHANGED <<disp, current, painting>>
  BY DEF ScheduleRepaint, dispVars
<1>2. \A e \in Event : \A m \in region'[e] : m <= asked' /\ askedBy'[m] = display'[e]
  <2>1. \A e \in Event : \A m \in region[e] :
          m \in Request /\ m <= asked' /\ askedBy'[m] = display[e]
    <3> SUFFICES ASSUME NEW e \in Event, NEW m \in region[e]
                 PROVE  m \in Request /\ m <= asked' /\ askedBy'[m] = display[e]
      OBVIOUS
    <3>1. m \in Request /\ m <= asked /\ askedBy[m] = display[e]
      BY DEF TypeOK, Contents
    <3>2. m # asked + 1
      BY <3>1 DEF TypeOK, Request
    <3> QED
      <4>1. askedBy'[m] = askedBy[m]
        BY <3>1, <3>2, AskedFacts DEF TypeOK
      <4>2. m <= asked'
        BY <3>1, AskedFacts DEF TypeOK, Request
      <4> QED
        BY <3>1, <4>1, <4>2
  <2>2. askedBy'[asked + 1] = d
    BY AskedFacts DEF TypeOK
  <2> QED
    <3>1. asked + 1 <= asked'
      BY AskedFacts DEF TypeOK
    <3> SUFFICES ASSUME NEW e \in Event, NEW m \in region'[e]
                 PROVE  m <= asked' /\ askedBy'[m] = display'[e]
      OBVIOUS
    <3>2. CASE e = pool[1]
      BY <2>2, <3>1, <3>2, ScheduleFields
    <3>3. CASE e = queuedEvent
      <4>1. m = asked + 1 \/ (m \in region[e] /\ display[e] = d)
        BY <3>3, ScheduleFields, EventFacts
      <4>2. display'[e] = d
        BY <3>3, ScheduleFields, EventFacts
      <4> QED
        BY <2>1, <2>2, <3>1, <4>1, <4>2
    <3>4. CASE e # pool[1] /\ e # queuedEvent
      <4>1. m \in region[e] /\ display'[e] = display[e]
        BY <3>4, ScheduleFields
      <4> QED
        BY <2>1, <4>1
    <3> QED
      BY <3>2, <3>3, <3>4
<1>3. disp \in {"region", "paint"} =>
        region'[current] = region[current] /\ display'[current] = display[current]
  BY EventFacts, ScheduleFields DEF InProcess
<1> QED
  BY <1>1, <1>2, <1>3 DEF Contents

LEMMA ScheduleKeeps ==
  ASSUME TypeOK, Roles, NoRequestLost, NEW d \in Display, ScheduleRepaint(d)
  PROVE  NoRequestLost'
<1>1. eventInProcess' = eventInProcess /\ painted' = painted
  BY DEF ScheduleRepaint
<1>2. Pending' \subseteq (Pending \ superseded') \cup {asked + 1}
  BY <1>1, AskedFacts DEF Pending, ScheduleRepaint, Queue, Overwrite, Merge
<1>3. eventInProcess # Null => region'[eventInProcess] = region[eventInProcess]
  BY EventFacts DEF ScheduleRepaint, Queue, Overwrite, Merge, TypeOK, OrNull
<1>4. queuedEvent' # Null /\ asked + 1 \in region'[queuedEvent']
  BY EventFacts DEF ScheduleRepaint, Queue, Overwrite, Merge, TypeOK, OrNull
<1>5. queuedEvent # Null => region[queuedEvent] \subseteq region'[queuedEvent'] \cup superseded'
  BY EventFacts DEF ScheduleRepaint, Queue, Overwrite, Merge, TypeOK, OrNull
<1> QED
  BY <1>1, <1>2, <1>3, <1>4, <1>5 DEF NoRequestLost

LEMMA ScheduleService ==
  ASSUME TypeOK, Roles, Service, NEW d \in Display, ScheduleRepaint(d)
  PROVE  Service'
<1>1. UNCHANGED <<call, awaited, awaitedID, owed, perUseID, eventInProcess, painted>>
  BY DEF ScheduleRepaint, callVars
<1>2. superseded \subseteq superseded' /\ 1 .. asked \subseteq 1 .. asked'
  BY AskedFacts DEF ScheduleRepaint, Queue, Overwrite, Merge
<1>3. eventInProcess # Null => region'[eventInProcess] = region[eventInProcess]
  BY EventFacts DEF ScheduleRepaint, Queue, Overwrite, Merge, TypeOK, OrNull
<1>4. queuedEvent # Null => queuedEvent' = queuedEvent
  BY DEF ScheduleRepaint, Queue, Overwrite, Merge
<1>5. Null \notin Event
  BY EventFacts
<1> QED
  BY <1>1, <1>2, <1>3, <1>4, <1>5 DEF Service, Waiting, Done

LEMMA ScheduleIInv ==
  ASSUME IInv, NEW d \in Display, ScheduleRepaint(d)
  PROVE  IInv'
BY ScheduleTypeOK, ScheduleRoles, ScheduleContents, ScheduleKeeps, ScheduleService DEF IInv

-----------------------------------------------------------------------------
(* The dispatch thread takes the queued event from the queue. *)
LEMMA TakeIInv ==
  ASSUME IInv, Take \/ ServiceOnDispatch
  PROVE  IInv'
<1> USE DEF IInv
<1>1. /\ disp = "take" /\ disp' = "taken" /\ queue # <<>>
      /\ current' = Head(queue) /\ queue' = Tail(queue)
      /\ UNCHANGED <<eventVars, perUseID, producerVars, other, painting, callVars, ghostVars>>
  BY DEF Take, ServiceOnDispatch
<1>2. queuedEvent # Null /\ current' = queuedEvent /\ queue' = <<>>
  BY <1>1 DEF Roles
<1>3. TypeOK'
  BY <1>1, <1>2 DEF TypeOK, OrNull, eventVars, producerVars, callVars, ghostVars
<1>4. Roles'
  BY <1>1, <1>2 DEF Roles, InProcess, eventVars, producerVars
<1>5. Contents'
  BY <1>1 DEF Contents, eventVars, ghostVars
<1>6. NoRequestLost'
  BY <1>1 DEF NoRequestLost, Pending, eventVars, producerVars, ghostVars
<1>7. Service'
  BY <1>1 DEF Service, Waiting, Done, eventVars, producerVars, callVars, ghostVars
<1> QED
  BY <1>3, <1>4, <1>5, <1>6, <1>7

(* The first synchronized block of process: the event is in process and no *)
(* longer queued.  A thread that waits for it is owed only what it holds.  *)
LEMMA ProcessIInv ==
  ASSUME IInv, Process
  PROVE  IInv'
<1> USE DEF IInv
<1>1. /\ disp = "taken" /\ disp' = "display" /\ queuedEvent' = Null
      /\ eventInProcess' = current
      /\ UNCHANGED <<eventVars, perUseID, queue, other, current, painting, callVars, ghostVars>>
  BY DEF Process
<1>2. /\ current = queuedEvent /\ queuedEvent # Null /\ queuedEvent = pool[3]
      /\ eventInProcess = Null /\ queue = <<>>
  BY <1>1 DEF Roles, InProcess
<1>3. TypeOK'
  BY <1>1 DEF TypeOK, OrNull, eventVars, callVars, ghostVars
<1>4. Roles'
  BY <1>1, <1>2 DEF Roles, InProcess, eventVars
<1>5. Contents'
  BY <1>1 DEF Contents, eventVars, ghostVars
<1>6. NoRequestLost'
  BY <1>1, <1>2 DEF NoRequestLost, Pending, eventVars, ghostVars
<1>7. Service'
  <2> SUFFICES ASSUME NEW t \in Thread, call'[t] # "idle" PROVE Waiting(t)'
    BY DEF Service
  <2>1. Waiting(t)
    BY <1>1 DEF Service, callVars
  <2>2. owed[t] \subseteq Done \cup region[queuedEvent]
    BY <1>2, <2>1 DEF Waiting, Done, NoRequestLost, Pending
  <2>3. Null \notin Event
    BY EventFacts
  <2> QED
    BY <1>1, <1>2, <2>1, <2>2, <2>3 DEF Waiting, Done, eventVars, callVars, ghostVars
<1> QED
  BY <1>3, <1>4, <1>5, <1>6, <1>7

(* The unlocked reads: nobody writes the event that is in process. *)
LEMMA ReadIInv ==
  ASSUME IInv, ReadDisplay \/ ReadRegion
  PROVE  IInv'
<1> USE DEF IInv
<1>1. /\ disp \in {"display", "region"} /\ disp' \in {"region", "paint"}
      /\ UNCHANGED <<eventVars, perUseID, producerVars, queue, other, current, callVars, ghostVars>>
  BY DEF ReadDisplay, ReadRegion
<1>2. current \in Event
  BY <1>1, EventFacts DEF InProcess
<1>3. painting' \in [display : OrNull(Display), region : SUBSET Request]
  BY <1>2 DEF ReadDisplay, ReadRegion, Nothing, TypeOK, OrNull
<1>4. TypeOK'
  BY <1>1, <1>3 DEF TypeOK, eventVars, producerVars, callVars, ghostVars
<1>5. Roles'
  BY <1>1 DEF Roles, InProcess, eventVars, producerVars
<1>6. Contents'
  <2>1. CASE ReadDisplay
    BY <2>1 DEF ReadDisplay, Contents, Nothing, eventVars, ghostVars
  <2>2. CASE ReadRegion
    <3>1. painting'.region = region[current] /\ painting'.display = painting.display
      BY <2>2 DEF ReadRegion, TypeOK
    <3> QED
      BY <2>2, <3>1 DEF ReadRegion, Contents, eventVars, ghostVars
  <2> QED
    BY <2>1, <2>2
<1>7. NoRequestLost'
  BY <1>1 DEF NoRequestLost, Pending, eventVars, producerVars, ghostVars
<1>8. Service'
  BY <1>1 DEF Service, Waiting, Done, eventVars, producerVars, callVars, ghostVars
<1> QED
  BY <1>4, <1>5, <1>6, <1>7, <1>8

(* The paint is over: what the event held is painted, and the threads that *)
(* wait for this use of it see that its identification has changed.        *)
LEMMA FinishIInv ==
  ASSUME IInv, Finish
  PROVE  IInv'
<1> USE DEF IInv
<1>1. /\ disp = "paint" /\ disp' = "take" /\ eventInProcess' = Null
      /\ painted' = painted \cup painting.region /\ painting' = Nothing /\ current' = Null
      /\ perUseID' = [perUseID EXCEPT ![eventInProcess] = perUseID[eventInProcess] + 1]
      /\ UNCHANGED <<eventVars, queuedEvent, queue, other, awaited, awaitedID, owed, asked,
                     askedBy, superseded>>
  BY DEF Finish
<1>2. /\ current \in Event /\ eventInProcess = current /\ current # queuedEvent
      /\ painting.region = region[current]
  BY <1>1, EventFacts DEF Roles, InProcess, Contents
<1>3. call' \in [Thread -> {"idle", "check", "wait"}] /\ \A t \in Thread :
        call'[t] # "idle" => call[t] # "idle"
  BY DEF Finish, NotifyAll, TypeOK
<1>4. TypeOK'
  <2>1. painted' \subseteq Request /\ painting' \in [display : OrNull(Display), region : SUBSET Request]
    BY <1>1, <1>2 DEF TypeOK, Nothing, OrNull
  <2>2. perUseID' \in [Event -> Nat]
    BY <1>1, <1>2 DEF TypeOK
  <2> QED
    BY <1>1, <1>3, <2>1, <2>2 DEF TypeOK, OrNull, eventVars
<1>5. Roles'
  BY <1>1 DEF Roles, InProcess, eventVars
<1>6. Contents'
  BY <1>1 DEF Contents, Nothing, eventVars
<1>7. NoRequestLost'
  BY <1>1, <1>2 DEF NoRequestLost, Pending, eventVars
<1>8. Service'
  <2> SUFFICES ASSUME NEW t \in Thread, call'[t] # "idle" PROVE Waiting(t)'
    BY DEF Service
  <2>1. Waiting(t)
    BY <1>3 DEF Service
  <2>2. awaitedID[t] \in Nat /\ perUseID \in [Event -> Nat]
    BY DEF TypeOK
  <2>3. CASE awaited[t] = current
    <3>1. perUseID'[awaited[t]] = perUseID[awaited[t]] + 1
      BY <1>1, <1>2, <2>2, <2>3
    <3>2. owed[t] \subseteq Done'
      BY <1>1, <1>2, <2>1, <2>3 DEF Waiting, Done
    <3> QED
      BY <1>1, <2>1, <2>2, <3>1, <3>2 DEF Waiting
  <2>4. CASE awaited[t] # current
    <3>1. perUseID'[awaited[t]] = perUseID[awaited[t]]
      BY <1>1, <1>2, <2>1, <2>2, <2>4 DEF Waiting
    <3> QED
      BY <1>1, <1>2, <2>1, <2>4, <3>1 DEF Waiting, Done
  <2> QED
    BY <2>3, <2>4
<1> QED
  BY <1>4, <1>5, <1>6, <1>7, <1>8

-----------------------------------------------------------------------------
(* serviceRepaints waits for the queued event if there is one: as it comes *)
(* after the one in process, nothing that is owed is left when it is done. *)
LEMMA ServiceRepaintsIInv ==
  ASSUME IInv, NEW t \in Thread, ServiceRepaints(t)
  PROVE  IInv'
<1> USE DEF IInv
<1>1. /\ ToWaitFor # Null
      /\ awaited' = [awaited EXCEPT ![t] = ToWaitFor]
      /\ awaitedID' = [awaitedID EXCEPT ![t] = perUseID[ToWaitFor]]
      /\ owed' = [owed EXCEPT ![t] = Pending]
      /\ call' = [call EXCEPT ![t] = "check"]
      /\ UNCHANGED <<eventVars, perUseID, producerVars, queue, dispVars, ghostVars>>
  BY DEF ServiceRepaints
<1>2. ToWaitFor \in Event /\ Pending \subseteq Request /\ Pending \subseteq 1 .. asked
  BY <1>1, RepaintAssumption DEF ToWaitFor, TypeOK, OrNull, Pending, Request
<1>3. TypeOK'
  BY <1>1, <1>2 DEF TypeOK, OrNull, eventVars, producerVars, dispVars, ghostVars
<1>4. Roles' /\ Contents' /\ NoRequestLost'
  BY <1>1 DEF Roles, InProcess, Contents, NoRequestLost, Pending,
              eventVars, producerVars, dispVars, ghostVars
<1>5. Service'
  <2> SUFFICES ASSUME NEW u \in Thread, call'[u] # "idle" PROVE Waiting(u)'
    BY DEF Service
  <2>1. CASE u = t
    <3>1. awaited'[u] = ToWaitFor /\ awaitedID'[u] = perUseID[ToWaitFor] /\ owed'[u] = Pending
      BY <1>1, <2>1 DEF TypeOK
    <3>2. ToWaitFor = queuedEvent \/
            (ToWaitFor = eventInProcess /\ Pending \subseteq region[eventInProcess])
      BY <1>1 DEF ToWaitFor, NoRequestLost
    <3>3. perUseID' = perUseID /\ perUseID[ToWaitFor] \in Nat
      BY <1>1, <1>2 DEF TypeOK
    <3>4. /\ asked' = asked /\ queuedEvent' = queuedEvent /\ eventInProcess' = eventInProcess
          /\ region' = region
      BY <1>1 DEF eventVars, producerVars, ghostVars
    <3>5. /\ awaited'[u] \in Event /\ owed'[u] \subseteq 1 .. asked'
          /\ awaitedID'[u] = perUseID'[awaited'[u]] /\ perUseID'[awaited'[u]] \in Nat
      BY <1>2, <3>1, <3>3, <3>4
    <3>6. \/ awaited'[u] = queuedEvent'
          \/ awaited'[u] = eventInProcess' /\ owed'[u] \subseteq Done' \cup region'[eventInProcess']
      BY <3>1, <3>2, <3>4
    <3> QED
      BY <3>5, <3>6 DEF Waiting
  <2>2. CASE u # t
    <3>1. UNCHANGED <<awaited[u], awaitedID[u], owed[u], call[u]>>
      BY <1>1, <2>2 DEF TypeOK
    <3> QED
      BY <1>1, <3>1 DEF Service, Waiting, Done, eventVars, producerVars, ghostVars
  <2> QED
    BY <2>1, <2>2
<1> QED
  BY <1>3, <1>4, <1>5

(* Waiting, and returning from serviceRepaints, is nobody else's concern. *)
LEMMA WaitIInv ==
  ASSUME IInv, NEW t \in Thread, Wait(t) \/ Return(t) \/ Interrupted(t)
  PROVE  IInv'
<1> USE DEF IInv
<1>1. UNCHANGED <<eventVars, perUseID, producerVars, queue, dispVars, ghostVars>>
  BY DEF Wait, Return, Interrupted
<1>2. TypeOK'
  <2>1. /\ call' \in [Thread -> {"idle", "check", "wait"}]
        /\ awaited' \in [Thread -> OrNull(Event)]
        /\ awaitedID' \in [Thread -> Nat]
        /\ owed' \in [Thread -> SUBSET Request]
    <3>1. CASE Wait(t)
      BY <3>1 DEF Wait, TypeOK
    <3>2. CASE Return(t) \/ Interrupted(t)
      <4>1. /\ call' = [call EXCEPT ![t] = "idle"]
            /\ awaited' = [awaited EXCEPT ![t] = Null]
            /\ awaitedID' = [awaitedID EXCEPT ![t] = 0]
            /\ owed' = [owed EXCEPT ![t] = {}]
        BY <3>2 DEF Return, Interrupted
      <4>2. Null \in OrNull(Event) /\ 0 \in Nat /\ {} \in SUBSET Request
        BY DEF OrNull
      <4> QED
        BY <4>1, <4>2 DEF TypeOK
    <3> QED
      BY <3>1, <3>2
  <2> QED
    BY <1>1, <2>1 DEF TypeOK, eventVars, producerVars, dispVars, ghostVars
<1>3. Roles' /\ Contents' /\ NoRequestLost'
  BY <1>1 DEF Roles, InProcess, Contents, NoRequestLost, Pending,
              eventVars, producerVars, dispVars, ghostVars
<1>4. Service'
  <2> SUFFICES ASSUME NEW u \in Thread, call'[u] # "idle" PROVE Waiting(u)'
    BY DEF Service
  <2>1. call[u] # "idle" /\ UNCHANGED <<awaited[u], awaitedID[u], owed[u]>>
    BY DEF Wait, Return, Interrupted, TypeOK
  <2> QED
    BY <1>1, <2>1 DEF Service, Waiting, Done, eventVars, producerVars, ghostVars
<1> QED
  BY <1>2, <1>3, <1>4

(* The listener of another event touches nothing here. *)
LEMMA OtherIInv ==
  ASSUME IInv, TakeOther \/ OtherReturns
  PROVE  IInv'
<1> USE DEF IInv
<1>1. /\ other' \in BOOLEAN
      /\ UNCHANGED <<eventVars, perUseID, producerVars, queue, disp, current, painting,
                     callVars, ghostVars>>
  BY DEF TakeOther, OtherReturns
<1>2. TypeOK'
  BY <1>1 DEF TypeOK, eventVars, producerVars, callVars, ghostVars
<1>3. Roles' /\ Contents' /\ NoRequestLost'
  BY <1>1 DEF Roles, InProcess, Contents, NoRequestLost, Pending,
              eventVars, producerVars, ghostVars
<1>4. Service'
  BY <1>1 DEF Service, Waiting, Done, eventVars, producerVars, callVars, ghostVars
<1> QED
  BY <1>2, <1>3, <1>4

(* So no operation of a thread or of the dispatch thread breaks the        *)
(* invariant.                                                              *)
LEMMA NextIInv == IInv /\ [Next]_vars => IInv'
<1> SUFFICES ASSUME IInv, [Next]_vars PROVE IInv'
  OBVIOUS
<1>1. ASSUME NEW t \in Thread, NEW d \in Display, ThreadSchedules(t, d) PROVE IInv'
  BY <1>1, ScheduleIInv DEF ThreadSchedules
<1>2. ASSUME NEW d \in Display, DispatchSchedules(d) PROVE IInv'
  BY <1>2, ScheduleIInv DEF DispatchSchedules
<1>3. CASE TakeOther \/ OtherReturns
  BY <1>3, OtherIInv
<1>4. CASE DispatchStep
  BY <1>4, TakeIInv, ProcessIInv, ReadIInv, FinishIInv DEF DispatchStep
<1>5. ASSUME NEW t \in Thread, ServiceRepaints(t) \/ Wait(t) \/ Return(t) \/ Interrupted(t)
      PROVE  IInv'
  BY <1>5, ServiceRepaintsIInv, WaitIInv
<1>6. CASE UNCHANGED vars
  BY <1>6 DEF vars, IInv, TypeOK, Roles, InProcess, Contents, NoRequestLost, Pending,
              Service, Waiting, Done, eventVars, producerVars, dispVars, callVars, ghostVars
<1> QED
  BY <1>1, <1>2, <1>3, <1>4, <1>5, <1>6 DEF Next

LEMMA Invariant == Spec => []IInv
  BY InitIInv, NextIInv, PTL DEF Spec

-----------------------------------------------------------------------------
(* The event that scheduleRepaint fills in is never one that the dispatch  *)
(* thread has or will get: three objects are enough, however many threads  *)
(* request repaints while it paints.                                       *)
THEOREM SpareIsUnshared == Spec => []SpareUnshared
<1>1. IInv => SpareUnshared
  <2> SUFFICES ASSUME IInv PROVE SpareUnshared
    OBVIOUS
  <2>1. queue = <<>> \/ queue = <<queuedEvent>>
    BY DEF IInv, Roles
  <2>2. {queue[i] : i \in DOMAIN queue} \subseteq {queuedEvent}
    BY <2>1
  <2> QED
    BY <2>2, EventFacts DEF IInv, SpareUnshared
<1> QED
  BY <1>1, Invariant, PTL

(* There is at most one repaint event in the queue, and it is the queued   *)
(* one, as serviceRepaints on the dispatch thread assumes.                 *)
THEOREM OneIsInQueue == Spec => []OneInQueue
<1>1. IInv => OneInQueue
  BY DEF IInv, Roles, OneInQueue
<1> QED
  BY <1>1, Invariant, PTL

(* Although the fields are read one by one and without the lock, what is   *)
(* painted belongs to one display.                                         *)
THEOREM NoPaintIsTorn == Spec => []NoTornPaint
<1>1. IInv => NoTornPaint
  <2> SUFFICES ASSUME IInv, painting.region # {} PROVE NoTornPaint
    BY DEF NoTornPaint
  <2>1. /\ disp = "paint" /\ painting.display = display[current]
        /\ painting.region = region[current]
    BY DEF IInv, Contents
  <2>2. current \in Event
    BY <2>1, EventFacts DEF IInv, InProcess
  <2> QED
    BY <2>1, <2>2 DEF IInv, Contents, NoTornPaint
<1> QED
  BY <1>1, Invariant, PTL

(* No request for a repaint is lost. *)
THEOREM RequestsAreKept == Spec => []NoRequestLost
<1>1. IInv => NoRequestLost
  BY DEF IInv
<1> QED
  BY <1>1, Invariant, PTL

(* serviceRepaints returns only when all that was requested before it was  *)
(* called has been painted, unless another display took over.              *)
THEOREM ServiceIsDone == Spec => ServedWhenReturned
<1>1. IInv /\ [Next]_vars =>
        [\A t \in Thread : Return(t) => owed[t] \subseteq painted \cup superseded]_vars
  <2> SUFFICES ASSUME IInv, NEW t \in Thread, Return(t)
               PROVE  owed[t] \subseteq painted \cup superseded
    OBVIOUS
  <2>1. call[t] # "idle" /\ perUseID[awaited[t]] # awaitedID[t]
    BY DEF Return
  <2> QED
    BY <2>1 DEF IInv, Service, Waiting, Done
<1> QED
  BY <1>1, Invariant, PTL DEF Spec, ServedWhenReturned
=============================================================================
