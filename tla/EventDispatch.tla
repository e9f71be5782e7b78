---------------------------- MODULE EventDispatch ----------------------------
(***************************************************************************)
(* The way of an event through one VM (EventQueue.jpp): the VM thread      *)
(* stores it in the native queue, the native event monitor thread copies   *)
(* it into a pooled NativeEvent and posts that, and the dispatch thread    *)
(* takes it from the Java queue and gives it to its listener, which may    *)
(* remove other events.  Other Java threads post events of their own, and  *)
(* one of them shuts the queue down.                                       *)
(*                                                                         *)
(* The Java threads are green threads the VM switches between bytecodes;   *)
(* a step here is a synchronized block or a native call.  The one block    *)
(* that is several steps is the monitor's drain loop, because the native   *)
(* queue does not use the Java lock.                                       *)
(***************************************************************************)
EXTENDS Naturals, Sequences, FiniteSets

CONSTANTS
  MaxEvents, NoEvent,   \* of NativeEventQueue
  Type,                 \* event types that have a listener
  OnlyOne,              \* those whose listener vetoes an event while one waits
  Obj, Null,            \* Java Event objects, more than are in use at a time,
                        \* and the null reference
  PoolSize,             \* NativeEventPool.DEFAULT_SIZE (20)
  MaxStores, MaxPosts   \* bounds on native events and on events of Java threads

ASSUME DispatchAssumption ==
  /\ MaxEvents \in Nat \ {0}
  /\ OnlyOne \subseteq Type
  /\ "shutdown" \notin Type
  /\ IsFiniteSet(Obj) /\ Null \notin Obj
  /\ Cardinality(Obj) >= MaxStores + MaxPosts + PoolSize + 2
  /\ PoolSize \in Nat
  /\ MaxStores \in Nat
  /\ MaxPosts \in Nat

VARIABLES
  events, numEvents, eventIn, eventOut,          \* the native queue: see
  isMonitorBlocked, special, monitor,            \* NativeEventQueue
  result, outcome,
  content,     \* the fields of each Event object
  next,        \* its link
  nextEvent,   \* head and tail of the Java queue
  lastEvent,
  waiting,     \* DispatchData.waitingEvent of each type
  pool,        \* the free NativeEvent objects, a stack
  alive,
  mon,         \* the monitor thread: "get", "wait", "post" or "drain"
  hand,        \* the object it holds
  pending,     \* eventsStillPending
  disp,        \* the dispatch thread: "absent", "new" (started, has not run),
               \* "take", "waiting", "process", "ended"
  current,     \* the object it processes
  shut,        \* the shutdown caller: "idle", "check", "waiting", "reset", "done"
  lastId,      \* ids given to native events so far
  posts,       \* events posted by other Java threads so far
  shutdownId,  \* the id of a shutdown event that was stored, or 0
  processed,   \* ids in the order their listeners processed them
  gone,        \* ids vetoed, removed, refused, or stored before the start
  discarded    \* ids thrown away by shutdown's reset

nativeVars   == <<events, numEvents, eventIn, eventOut, isMonitorBlocked,
                  special, monitor, result, outcome>>
listVars     == <<next, nextEvent, lastEvent, waiting>>
monVars      == <<mon, hand, pending>>
dispVars     == <<disp, current, alive, processed>>
shutVars     == <<shut, shutdownId, discarded>>
countVars    == <<lastId, posts>>
vars == <<nativeVars, listVars, content, pool, monVars, dispVars, shutVars,
          countVars, gone>>

Shutdown  == "shutdown"
NativeId  == 1 .. MaxStores + 1
JavaId    == MaxStores + 2 .. MaxStores + MaxPosts + 1
EventData == [type : Type \cup {Shutdown}, id : NativeId \cup JavaId]
Blank     == [type |-> "none", id |-> 0]

ASSUME NoEventAssumption == NoEvent \notin EventData

Native == INSTANCE NativeEventQueue WITH Event <- EventData

Init ==
  /\ Native!Init
  /\ content = [o \in Obj |-> Blank]
  /\ next = [o \in Obj |-> Null]
  /\ nextEvent = Null
  /\ lastEvent = Null
  /\ waiting = [t \in Type |-> Null]
  /\ pool = <<>>
  /\ alive = FALSE
  /\ mon = "get"
  /\ hand = Null
  /\ pending = 0
  /\ disp = "absent"
  /\ current = Null
  /\ shut = "idle"
  /\ shutdownId = 0
  /\ lastId = 0
  /\ posts = 0
  /\ processed = <<>>
  /\ gone = {}
  /\ discarded = {}

-----------------------------------------------------------------------------
(* The Java queue read along its links: the object at each place, or Null. *)
Follow(o) == IF o = Null THEN Null ELSE next[o]

Chain[n \in 0 .. Cardinality(Obj)] ==
  IF n = 0 THEN nextEvent ELSE Follow(Chain[n - 1])

Queued    == LET c == Chain IN {c[n] : n \in DOMAIN c} \ {Null}
JavaQueue == LET c == Chain IN [n \in 1 .. Cardinality(Queued) |-> c[n - 1]]
NativeIds == {Native!Contents[n].id : n \in 1 .. numEvents}

(* NativeEventPool.get: the top of the stack, or a new object, one that    *)
(* nothing refers to any more.                                             *)
Fresh  == Obj \ (Queued \cup {hand, current} \cup {pool[i] : i \in DOMAIN pool})
NewObj == CHOOSE o \in Fresh : TRUE

PoolTop == IF pool = <<>> THEN NewObj ELSE pool[Len(pool)]

Peeked == pool     \* mutant: eventsInPool is not decremented
Popped == IF pool = <<>> THEN pool ELSE SubSeq(pool, 1, Len(pool) - 1)

(* NativeEventPool.putBack: a full pool leaves the object to the garbage   *)
(* collector.                                                              *)
PutBack(o) == pool' = IF Len(pool) < PoolSize THEN Append(pool, o) ELSE pool

(* The lock of the queue is held across steps only by the drain loop. *)
LockFree == mon # "drain"

(* notifyAll on the lock. *)
NotifyAll ==
  /\ disp' = IF disp = "waiting" THEN "take" ELSE disp
  /\ shut' = IF shut = "waiting" THEN "check" ELSE shut

(* EventQueue.post of object o with fields e, by a thread that holds the   *)
(* lock: the listener may veto the event because one like it waits.  A     *)
(* vetoed object is garbage; garbage counts as blank.  Every type of Type  *)
(* has a listener: events of other types are dropped before (313 to 346).  *)
Vetoed(e) == e.type \in OnlyOne /\ waiting[e.type] # Null

LinkFirst(o, e) ==   \* mutant: the new event goes to the head
  /\ next' = [next EXCEPT ![o] = nextEvent]
  /\ nextEvent' = o
  /\ lastEvent' = IF lastEvent = Null THEN o ELSE lastEvent
  /\ waiting' = IF e.type = Shutdown THEN waiting ELSE [waiting EXCEPT ![e.type] = o]

Link(o, e) ==
  /\ next' = IF lastEvent = Null THEN next ELSE [next EXCEPT ![lastEvent] = o]
  /\ nextEvent' = IF lastEvent = Null THEN o ELSE nextEvent
  /\ lastEvent' = o
  /\ waiting' = IF e.type = Shutdown THEN waiting ELSE [waiting EXCEPT ![e.type] = o]

Post(o, e) ==
  IF Vetoed(e)
  THEN /\ gone' = gone \cup {e.id}
       /\ content' = [content EXCEPT ![o] = Blank]
       /\ UNCHANGED <<listVars, disp, shut>>
  ELSE /\ Link(o, e)
       /\ content' = [content EXCEPT ![o] = e]
       /\ NotifyAll
       /\ UNCHANGED gone

-----------------------------------------------------------------------------
(* EventQueue.start, from the static initializer.  Whatever was stored     *)
(* before is thrown away.                                                  *)
Start ==
  /\ disp = "absent"
  /\ Native!StartEventQueue
  /\ disp' = "new"
  /\ gone' = gone \cup NativeIds
  /\ UNCHANGED <<listVars, content, pool, monVars, current, alive, processed,
                 shutVars, countVars>>

(* The VM thread stores an event; a full queue drops it.  The listeners of *)
(* native event types veto nothing.                                        *)
VMStores(t) ==
  /\ t \notin OnlyOne
  /\ lastId < MaxStores
  /\ Native!StoreMIDPEventInVmThread([type |-> t, id |-> lastId + 1])
  /\ lastId' = lastId + 1
  /\ gone' = IF outcome' = "refused" THEN gone \cup {lastId + 1} ELSE gone
  /\ UNCHANGED <<listVars, content, pool, monVars, dispVars, shutVars, posts>>

MonitorGets ==
  /\ monitor = "running"
  /\ mon = "get"
  /\ mon' = "wait"
  /\ hand' = PoolTop
  /\ pool' = Popped
  /\ UNCHANGED <<nativeVars, listVars, content, pending, dispVars, shutVars,
                 countVars, gone>>

(* waitForNativeEvent tells how many events are left behind the one it     *)
(* read, or blocks the thread and runs again when it is unblocked.         *)
MonitorWaits ==
  /\ mon = "wait"
  /\ Native!WaitForNativeEvent
  /\ IF outcome' = "taken"
     THEN /\ content' = [content EXCEPT ![hand] = result']
          /\ pending' = numEvents'
          /\ mon' = "post"
     ELSE UNCHANGED <<content, pending, mon>>
  /\ UNCHANGED <<listVars, pool, hand, dispVars, shutVars, countVars, gone>>

(* The synchronized block: the first event is posted, then as many as were *)
(* left behind it, unless a reset has taken them away in the meantime.     *)
MonitorPosts ==
  /\ mon = "post"
  /\ Post(hand, content[hand])
  /\ mon' = IF pending > 0 THEN "drain" ELSE "get"
  /\ hand' = Null
  /\ UNCHANGED <<nativeVars, pool, pending, current, alive, processed,
                 shutdownId, discarded, countVars>>

MonitorDrains ==
  /\ mon = "drain"
  /\ pool' = Popped
  /\ Native!ReadNativeEvent
  /\ IF outcome' = "taken"
     THEN /\ Post(PoolTop, result')
          /\ pending' = pending - 1
          /\ mon' = IF pending > 1 THEN "drain" ELSE "get"
     ELSE /\ mon' = "get"
          /\ pending' = 0
          /\ UNCHANGED <<content, listVars, disp, shut, gone>>
  /\ UNCHANGED <<hand, current, alive, processed, shutdownId, discarded, countVars>>

(* post, called by another Java thread. *)
JavaPosts(t) ==
  LET e == [type |-> t, id |-> MaxStores + 2 + posts] IN
  /\ disp # "absent"
  /\ LockFree
  /\ posts < MaxPosts
  /\ posts' = posts + 1
  /\ Post(NewObj, e)
  /\ UNCHANGED <<nativeVars, pool, monVars, current, alive, processed,
                 shutdownId, discarded, lastId>>

(* remove, called by the dispatch thread in the middle of a process (this  *)
(* is RepaintEventProducer.serviceRepaints): the first event of a type is  *)
(* unlinked.                                                               *)
Places(q, t) == {i \in DOMAIN q : content[q[i]].type = t}

TailMovesUp(o, prev) == IF o = lastEvent THEN prev ELSE lastEvent

Remove(t) ==
  /\ disp = "process"
  /\ LockFree
  /\ LET q    == JavaQueue
         i    == CHOOSE i \in Places(q, t) : \A j \in Places(q, t) : i <= j
         o    == q[i]
         prev == IF i = 1 THEN Null ELSE q[i - 1]
     IN  /\ Places(q, t) # {}
         /\ waiting' = IF waiting[t] = o THEN [waiting EXCEPT ![t] = Null] ELSE waiting
         /\ nextEvent' = IF o = nextEvent THEN next[o] ELSE nextEvent
         /\ lastEvent' = TailMovesUp(o, prev)
         /\ next' = [x \in Obj |-> IF x = o THEN Null
                                   ELSE IF x = prev THEN next[o] ELSE next[x]]
         /\ gone' = gone \cup {content[o].id}
         /\ content' = [content EXCEPT ![o] = Blank]
  /\ UNCHANGED <<nativeVars, pool, monVars, dispVars, shutVars, countVars>>

-----------------------------------------------------------------------------
DispatcherStarts ==
  /\ disp = "new"
  /\ alive' = TRUE
  /\ disp' = "take"
  /\ UNCHANGED <<nativeVars, listVars, content, pool, monVars, current,
                 processed, shutVars, countVars, gone>>

(* run: wait for an event, unlink it and, if its type waits for it, say    *)
(* that it waits no longer; a shutdown event ends the thread.              *)
DispatcherWaits ==
  /\ disp = "take"
  /\ LockFree
  /\ nextEvent = Null
  /\ disp' = "waiting"
  /\ UNCHANGED <<nativeVars, listVars, content, pool, monVars, current, alive,
                 processed, shutVars, countVars, gone>>

TailSurvives ==   \* mutant: lastEvent is not cleared with the last event
  /\ nextEvent' = next[nextEvent]
  /\ next' = [next EXCEPT ![nextEvent] = Null]
  /\ UNCHANGED lastEvent

UnlinkHead ==
  /\ nextEvent' = next[nextEvent]
  /\ next' = [next EXCEPT ![nextEvent] = Null]
  /\ lastEvent' = IF next[nextEvent] = Null THEN Null ELSE lastEvent

StillWaiting == UNCHANGED waiting   \* mutant: waitingEvent keeps the event

ForgetWaiting ==
  LET t == content[nextEvent].type IN
  waiting' = IF t # Shutdown /\ waiting[t] = nextEvent
             THEN [waiting EXCEPT ![t] = Null] ELSE waiting

EndsQuietly ==   \* mutant: the waiting shutdown is not notified
  /\ alive' = FALSE
  /\ disp' = "ended"
  /\ UNCHANGED shut

EndDispatch ==
  /\ alive' = FALSE
  /\ disp' = "ended"
  /\ shut' = IF shut = "waiting" THEN "check" ELSE shut

DispatcherTakes ==
  /\ disp = "take"
  /\ LockFree
  /\ nextEvent # Null
  /\ UnlinkHead
  /\ ForgetWaiting
  /\ IF content[nextEvent].type = Shutdown
     THEN /\ EndDispatch
          /\ processed' = Append(processed, content[nextEvent].id)
          /\ content' = [content EXCEPT ![nextEvent] = Blank]
          /\ UNCHANGED current
     ELSE /\ current' = nextEvent
          /\ disp' = "process"
          /\ UNCHANGED <<alive, shut, processed, content>>
  /\ UNCHANGED <<nativeVars, pool, monVars, shutdownId, discarded, countVars, gone>>

(* The listener's process, then NativeEventPool.putBack for a native       *)
(* event.  A listener that throws ends the whole VM (handleFatalError).    *)
DispatcherProcesses ==
  /\ disp = "process"
  /\ disp' = "take"
  /\ current' = Null
  /\ processed' = Append(processed, content[current].id)
  /\ content' = [content EXCEPT ![current] = Blank]
  /\ IF content[current].id \in NativeId THEN PutBack(current) ELSE UNCHANGED pool
  /\ UNCHANGED <<nativeVars, listVars, monVars, alive, shutVars, countVars, gone>>

-----------------------------------------------------------------------------
(* shutdown, called by a thread that is not the dispatcher. *)
ShutdownSends ==
  /\ shut = "idle"
  /\ disp # "absent"
  /\ Native!StoreMIDPEventInVmThread([type |-> Shutdown, id |-> lastId + 1])
  /\ shut' = "check"
  /\ lastId' = lastId + 1
  /\ IF outcome' = "refused"
     THEN gone' = gone \cup {lastId + 1} /\ UNCHANGED shutdownId
     ELSE shutdownId' = lastId + 1 /\ UNCHANGED gone
  /\ UNCHANGED <<discarded, listVars, content, pool, monVars, dispVars, posts>>

ShutdownNeverWaits ==   \* mutant: shutdown resets the queue at once
  /\ shut = "check"
  /\ LockFree
  /\ shut' = "reset"
  /\ UNCHANGED <<nativeVars, listVars, content, pool, monVars, dispVars,
                 shutdownId, discarded, countVars, gone>>

ShutdownChecks ==
  /\ shut = "check"
  /\ LockFree
  /\ shut' = IF alive THEN "waiting" ELSE "reset"
  /\ UNCHANGED <<nativeVars, listVars, content, pool, monVars, dispVars,
                 shutdownId, discarded, countVars, gone>>

ShutdownResets ==
  /\ shut = "reset"
  /\ Native!ResetEventQueue
  /\ shut' = "done"
  /\ discarded' = discarded \cup NativeIds
  /\ UNCHANGED <<listVars, content, pool, monVars, dispVars, shutdownId, countVars, gone>>

Next ==
  \/ Start
  \/ \E t \in Type : VMStores(t) \/ JavaPosts(t) \/ Remove(t)
  \/ MonitorGets
  \/ MonitorWaits
  \/ MonitorPosts
  \/ MonitorDrains
  \/ DispatcherStarts
  \/ DispatcherWaits
  \/ DispatcherTakes
  \/ DispatcherProcesses
  \/ ShutdownSends
  \/ ShutdownChecks
  \/ ShutdownResets

Spec == Init /\ [][Next]_vars

(* Assumed of the VM's scheduler: every thread that can run gets a turn.   *)
(* RunQueue (NoStarvation) shows when it does not.                         *)
FairSpec ==
  /\ Spec
  /\ WF_vars(MonitorGets)
  /\ WF_vars(MonitorWaits)
  /\ WF_vars(MonitorPosts)
  /\ WF_vars(MonitorDrains)
  /\ WF_vars(DispatcherStarts)
  /\ WF_vars(DispatcherWaits)
  /\ WF_vars(DispatcherTakes)
  /\ WF_vars(DispatcherProcesses)
  /\ WF_vars(ShutdownChecks)
  /\ WF_vars(ShutdownResets)

-----------------------------------------------------------------------------
Ids(s)      == {s[i] : i \in DOMAIN s}
QueuedIds   == LET q == JavaQueue IN [n \in DOMAIN q |-> content[q[n]].id]
InFlight    == (IF disp = "process" THEN <<content[current].id>> ELSE <<>>)
               \o QueuedIds
               \o (IF mon = "post" THEN <<content[hand].id>> ELSE <<>>)
               \o [n \in 1 .. numEvents |-> Native!Contents[n].id]
Handled     == Ids(processed) \cup gone

(* The references and program counters of the Java side stay in range.     *)
TypeOK ==
  /\ Native!TypeOK
  /\ content \in [Obj -> EventData \cup {Blank}]
  /\ next \in [Obj -> Obj \cup {Null}]
  /\ {nextEvent, lastEvent, hand, current} \subseteq Obj \cup {Null}
  /\ waiting \in [Type -> Obj \cup {Null}]
  /\ Ids(pool) \subseteq Obj /\ Len(pool) <= PoolSize
  /\ pending \in 0 .. MaxEvents
  /\ mon \in {"get", "wait", "post", "drain"}
  /\ disp \in {"absent", "new", "take", "waiting", "process", "ended"}
  /\ shut \in {"idle", "check", "waiting", "reset", "done"}
  /\ alive \in BOOLEAN

(* The links of the Java queue end, and they end at lastEvent: a stale     *)
(* tail would make post append to an event nobody will reach.              *)
ListWellFormed ==
  LET q == JavaQueue IN
  /\ nextEvent = Null <=> lastEvent = Null
  /\ nextEvent # Null => q[Len(q)] = lastEvent /\ next[lastEvent] = Null

(* The waitingEvent a listener is shown is still in the queue: a listener  *)
(* that vetoes a new event because one waits can rely on that one, and the *)
(* queue never holds two events of such a type.                            *)
WaitingIsQueued ==
  LET q == JavaQueue IN
  \A t \in Type :
    /\ waiting[t] # Null => \E i \in Places(q, t) : q[i] = waiting[t]
    /\ t \in OnlyOne => Cardinality(Places(q, t)) <= 1

(* An object in the pool is in nobody's hands and only once in the pool:   *)
(* the monitor never writes into an event that is queued or processed.     *)
PoolUnshared ==
  /\ Cardinality(Ids(pool)) = Len(pool)
  /\ Ids(pool) \cap (Queued \cup {hand, current}) = {}

(* From the native store to the listener, over two queues and two threads, *)
(* events keep the order they were stored in and none is there twice.      *)
PipelineOrdered ==
  LET s == processed \o InFlight IN
  \A i, j \in DOMAIN s :
    i < j /\ {s[i], s[j]} \subseteq NativeId => s[i] < s[j]

(* Every stored event is on its way, or handled, or was discarded by the   *)
(* reset at the end of a shutdown.                                         *)
NothingLost ==
  1 .. lastId \subseteq Ids(InFlight) \cup Handled \cup discarded

(* Nobody waits for what has already happened: the dispatcher waits only   *)
(* on an empty queue, and shutdown only on a queue that is alive.          *)
NoLostNotify ==
  /\ disp = "waiting" => nextEvent = Null
  /\ shut = "waiting" => alive

(* shutdown: "Shuts down the event queue after process any posted events." *)
(* When it goes on to reset the native queue, everything stored before it  *)
(* has been handled, unless it found a dispatcher that had not begun.      *)
ShutdownDrains ==
  [][shut # "reset" /\ shut' = "reset" /\ disp # "new"
       => \A id \in 1 .. shutdownId : id \in Handled]_vars

(* An event in a started queue reaches its listener, as long as nobody     *)
(* shuts the queue down.                                                   *)
EventuallyHandled ==
  \A id \in 1 .. MaxStores :
    lastId >= id /\ disp # "absent" ~> id \in Handled \/ shut # "idle"

(* A shutdown whose event was stored comes to its end. *)
ShutdownCompletes == shutdownId # 0 ~> shut = "done"

(* shutdown: "Will block until the queue is shut down."                    *)
ShutdownMeansStopped == shut = "done" => disp = "ended"
=============================================================================
