------------------------------ MODULE Monitors ------------------------------
(***************************************************************************)
(* Waiting, sleeping and blocked threads of the VM and the monitors they   *)
(* wait for (Scheduler.cpp, Synchronizer.cpp).  One thread of the VM runs  *)
(* Java at a time.  When it blocks, or a timer tick makes it yield, the    *)
(* scheduler polls for events, goes through the lists of the threads that  *)
(* wait or sleep to wake those whose time has come, and picks the thread   *)
(* that runs next (RunQueue says which; here it is any active one).        *)
(*                                                                         *)
(* The lists are linked by two fields of the thread: next links the        *)
(* threads that wait on one object, nextWaiting the first threads of these *)
(* lists, and also the threads that queue for a monitor.  The scheduler is *)
(* entered again from within: a thread that is woken by its own yield and  *)
(* finds the monitor taken yields once more, in the middle of the pass     *)
(* over the lists.  vm is the stack of these passes.                       *)
(***************************************************************************)
EXTENDS Naturals, Sequences, FiniteSets

CONSTANTS
  Thread, Obj,
  Null,         \* the null reference, also wakeup_time 0
  Anchor,       \* Universe::scheduler_waiting(), the head of all the lists
  TimedObj,     \* objects that threads wait on with a timeout
  Interruptible,\* threads that Thread.interrupt is called for
  Blocking,     \* threads that call native methods that block
  MaxTimeout    \* bound on timeouts, in units of time

ASSUME MonitorsAssumption ==
  /\ Null \notin Thread \cup Obj \cup Nat
  /\ Anchor \notin Thread \cup {Null}
  /\ TimedObj \subseteq Obj
  /\ Interruptible \cup Blocking \subseteq Thread
  /\ MaxTimeout \in Nat \ {0}

VARIABLES
  active,      \* threads in a run queue
  async,       \* threads blocked in a native method
  next, nextWaiting, tail,   \* the links, and global_next of the anchor
  waitObj,     \* Thread.wait_obj
  wakeup,      \* Thread.wakeup_time: the time left, or Null
  lockOwner,   \* StackLock.thread of the lock installed on each object
  waiters,     \* StackLock.waiters
  interrupted, \* threads with a pending interrupt
  thrown,      \* threads with a pending InterruptedException
  current,     \* Thread::current()
  vm           \* the VM's own stack; empty while Java runs

listVars == <<next, nextWaiting, tail>>
lockVars == <<lockOwner, waiters>>
intrVars == <<interrupted, thrown>>
vars == <<active, async, listVars, waitObj, wakeup, lockVars, intrVars, current, vm>>

Poll   == [at |-> "poll"]
NotifyAllFrom(t) == [at |-> "notify", thr |-> t]

Init ==
  /\ active = Thread
  /\ async = {}
  /\ next = [t \in Thread \cup {Anchor} |-> Null]
  /\ nextWaiting = [t \in Thread \cup {Anchor} |-> Null]
  /\ tail = Anchor
  /\ waitObj = [t \in Thread |-> Null]
  /\ wakeup = [t \in Thread |-> Null]
  /\ lockOwner = [o \in Obj |-> Null]
  /\ waiters = [o \in Obj |-> Null]
  /\ interrupted = {}
  /\ thrown = {}
  /\ current \in Thread
  /\ vm = <<>>

-----------------------------------------------------------------------------
(* The threads from t along the links f, at most one turn round a ring. *)
Chain(f, t) ==
  LET from[u \in Thread \cup {Anchor, Null}, n \in Nat] ==
        IF u = Null \/ n = 0 THEN <<>> ELSE <<u>> \o from[f[u], n - 1]
  IN  from[t, Cardinality(Thread) + 1]

Members(s) == {s[i] : i \in DOMAIN s}
Last(s)    == s[Len(s)]

Heads    == Chain(nextWaiting, nextWaiting[Anchor])
Sleepers == Chain(next, next[Anchor])

find_waiting_thread(o) ==
  IF \E h \in Members(Heads) : waitObj[h] = o
  THEN CHOOSE h \in Members(Heads) : waitObj[h] = o
  ELSE Null

Waiters(o)  == Chain(next, find_waiting_thread(o))
Queueing(o) == Chain(nextWaiting, waiters[o])
AllWaiting  == Members(Sleepers) \cup UNION {Members(Waiters(o)) : o \in Obj}

(* The lists as one value, and its changes.  add_waiting_thread: t joins   *)
(* the list of o, or starts it at the tail.                                *)
Lists == [next |-> next, nextWaiting |-> nextWaiting, tail |-> tail]

add_waiting_thread(l, t, o) ==
  LET h == find_waiting_thread(o)
  IN  IF h = Null
      THEN [next |-> [l.next EXCEPT ![t] = Null],
            nextWaiting |-> [l.nextWaiting EXCEPT ![l.tail] = t, ![t] = Null],
            tail |-> t]
      ELSE [l EXCEPT !.next[Last(Waiters(o))] = t, !.next[t] = Null,
                     !.nextWaiting[t] = Null]

add_to_sleeping(l, t) ==
  [l EXCEPT !.next[IF Sleepers = <<>> THEN Anchor ELSE Last(Sleepers)] = t,
            !.next[t] = Null]

add_sync_thread(l, t, o) ==
  IF waiters[o] = Null
  THEN [l EXCEPT !.next[t] = Null, !.nextWaiting[t] = Null]
  ELSE [l EXCEPT !.next[t] = Null, !.nextWaiting[Last(Queueing(o))] = t,
                 !.nextWaiting[t] = Null]

(* remove_waiting_thread.  The head of an object's list is replaced by the *)
(* next of that list or, if it was alone, leaves the list of heads; both   *)
(* may move the tail.  KeepsTail forgets that.                             *)
Before(s, t) == LET i == CHOOSE i \in DOMAIN s : s[i] = t IN s[i - 1]

Unlinked(l, t) == [l EXCEPT !.next[t] = Null, !.nextWaiting[t] = Null]

RemoveFromMiddle(l, t, list) ==
  Unlinked([l EXCEPT !.next[Before(Chain(next, list), t)] = next[t]], t)

RemoveHead(l, t) ==
  LET prev == Before(<<Anchor>> \o Heads, t)
  IN  IF next[t] = Null
      THEN Unlinked([l EXCEPT !.nextWaiting[prev] = nextWaiting[t],
                              !.tail = IF @ = t THEN prev ELSE @], t)
      ELSE Unlinked([l EXCEPT !.nextWaiting[prev] = next[t],
                              !.nextWaiting[next[t]] = nextWaiting[t],
                              !.tail = IF @ = t THEN next[t] ELSE @], t)

KeepsTail(l, t) ==
  LET o == waitObj[t]
  IN  IF o = Null THEN RemoveFromMiddle(l, t, Anchor)
      ELSE IF find_waiting_thread(o) = t
           THEN [RemoveHead(l, t) EXCEPT !.tail = l.tail]
           ELSE RemoveFromMiddle(l, t, find_waiting_thread(o))

remove_waiting_thread(l, t) ==
  LET o == waitObj[t]
  IN  IF o = Null THEN RemoveFromMiddle(l, t, Anchor)
      ELSE IF find_waiting_thread(o) = t THEN RemoveHead(l, t)
      ELSE RemoveFromMiddle(l, t, find_waiting_thread(o))

SetLists(l) == next' = l.next /\ nextWaiting' = l.nextWaiting /\ tail' = l.tail

-----------------------------------------------------------------------------
(* Synchronizer::exit and signal_waiters: the monitor is handed to the     *)
(* first thread that queues for it, with the rest of the queue.  a is the  *)
(* set of active threads the caller leaves.  DropsQueue loses the rest.    *)
DropsQueue(o, a) ==
  LET first == waiters[o]
  IN  /\ lockOwner' = [lockOwner EXCEPT ![o] = first]
      /\ waiters' = [waiters EXCEPT ![o] = Null]
      /\ active' = IF first = Null THEN a ELSE a \cup {first}

HandOver(o, a) ==
  LET first == waiters[o]
  IN  /\ lockOwner' = [lockOwner EXCEPT ![o] = first]
      /\ waiters' = [waiters EXCEPT ![o] = IF first = Null THEN Null ELSE nextWaiting[first]]
      /\ active' = IF first = Null THEN a ELSE a \cup {first}

Forget(o) == IF waiters[o] = Null THEN waitObj ELSE [waitObj EXCEPT ![waiters[o]] = Null]

(* Synchronizer::enter of t, the lists being l: it gets the monitor, or    *)
(* queues for it without a timeout.                                        *)
GetMonitor(l, t, o) ==
  /\ lockOwner[o] = Null
  /\ lockOwner' = [lockOwner EXCEPT ![o] = t]
  /\ waiters' = [waiters EXCEPT ![o] = Null]
  /\ waitObj' = [waitObj EXCEPT ![t] = Null]
  /\ active' = active \cup {t}
  /\ SetLists(l)
  /\ UNCHANGED wakeup

QueueForMonitor(l, t, o) ==
  /\ lockOwner[o] # Null
  /\ waiters' = [waiters EXCEPT ![o] = IF @ = Null THEN t ELSE @]
  /\ waitObj' = [waitObj EXCEPT ![t] = o]
  /\ wakeup' = [wakeup EXCEPT ![t] = Null]
  /\ active' = active \ {t}
  /\ SetLists(add_sync_thread(l, t, o))
  /\ UNCHANGED lockOwner

Blocks(t, o) == o # Null /\ lockOwner[o] # Null

(* remove_waiting_thread and notify_wakeup of t: a sleeper is active, a    *)
(* waiter needs the monitor first.                                         *)
Wake(t) ==
  LET l == remove_waiting_thread(Lists, t)
      o == waitObj[t]
  IN  IF o = Null
      THEN /\ active' = active \cup {t}
           /\ SetLists(l)
           /\ UNCHANGED <<waitObj, wakeup, lockVars>>
      ELSE GetMonitor(l, t, o) \/ QueueForMonitor(l, t, o)

-----------------------------------------------------------------------------
(* Java runs: the operations of the current thread. *)
Java == vm = <<>> /\ current \notin thrown

(* monitorenter.  A thread that has the monitor enters it again without    *)
(* the scheduler.                                                          *)
Enter(o) ==
  /\ Java
  /\ lockOwner[o] # current
  /\ GetMonitor(Lists, current, o) \/ QueueForMonitor(Lists, current, o)
  /\ vm' = IF Blocks(current, o) THEN <<Poll>> ELSE <<>>
  /\ UNCHANGED <<async, intrVars, current>>

(* monitorexit *)
Exit(o) ==
  /\ Java
  /\ lockOwner[o] = current
  /\ HandOver(o, active)
  /\ waitObj' = Forget(o)
  /\ UNCHANGED <<async, listVars, wakeup, intrVars, current, vm>>

(* Object.wait, for ever or for k. *)
WaitFor(o, k) ==
  /\ Java
  /\ current \notin interrupted
  /\ lockOwner[o] = current
  /\ HandOver(o, active \ {current})
  /\ SetLists(add_waiting_thread(Lists, current, o))
  /\ waitObj' = [Forget(o) EXCEPT ![current] = o]
  /\ wakeup' = [wakeup EXCEPT ![current] = k]
  /\ vm' = <<Poll>>
  /\ UNCHANGED <<async, intrVars, current>>

(* Object.notify and notifyAll; NotifyAllFrom goes on in StepNotify. *)
Notify(o) ==
  /\ Java
  /\ lockOwner[o] = current
  /\ find_waiting_thread(o) # Null
  /\ Wake(find_waiting_thread(o))
  /\ UNCHANGED <<async, intrVars, current, vm>>

NotifyAll(o) ==
  /\ Java
  /\ lockOwner[o] = current
  /\ find_waiting_thread(o) # Null
  /\ vm' = <<NotifyAllFrom(find_waiting_thread(o))>>
  /\ UNCHANGED <<active, async, listVars, waitObj, wakeup, lockVars, intrVars, current>>

(* Thread.sleep; its time may have passed when the first pass begins. *)
Sleep(k) ==
  /\ Java
  /\ current \notin interrupted
  /\ active' = active \ {current}
  /\ SetLists(add_to_sleeping(Lists, current))
  /\ wakeup' = [wakeup EXCEPT ![current] = k]
  /\ vm' = <<Poll>>
  /\ UNCHANGED <<async, waitObj, lockVars, intrVars, current>>

(* SNI_BlockThread and the switch of threads after the native method. *)
BlockInNative ==
  /\ Java
  /\ current \in Blocking
  /\ active' = active \ {current}
  /\ async' = async \cup {current}
  /\ vm' = <<Poll>>
  /\ UNCHANGED <<listVars, waitObj, wakeup, lockVars, intrVars, current>>

(* Thread.yield, or a timer tick. *)
Yield ==
  /\ vm = <<>>
  /\ vm' = <<Poll>>
  /\ UNCHANGED <<active, async, listVars, waitObj, wakeup, lockVars, intrVars, current>>

(* Thread.interrupt: a thread that waits or sleeps is woken with an        *)
(* exception; for any other, even one with such an exception that has not  *)
(* run since, it is remembered ...                                         *)
InterruptWaiting(t) ==
  /\ Java
  /\ t \in Interruptible \cap AllWaiting
  /\ Wake(t)
  /\ thrown' = thrown \cup {t}
  /\ UNCHANGED <<async, interrupted, current, vm>>

InterruptOther(t) ==
  /\ Java
  /\ t \in Interruptible \ AllWaiting
  /\ interrupted' = interrupted \cup {t}
  /\ UNCHANGED <<active, async, listVars, waitObj, wakeup, lockVars, thrown, current, vm>>

(* ... until its next wait or sleep. *)
handle_pending_interrupt ==
  /\ Java
  /\ current \in interrupted
  /\ interrupted' = interrupted \ {current}
  /\ thrown' = thrown \cup {current}
  /\ UNCHANGED <<active, async, listVars, waitObj, wakeup, lockVars, current, vm>>

Catch ==
  /\ vm = <<>>
  /\ current \in thrown
  /\ thrown' = thrown \ {current}
  /\ UNCHANGED <<active, async, listVars, waitObj, wakeup, lockVars, interrupted, current, vm>>

-----------------------------------------------------------------------------
(* The VM runs: the pass on top of the stack. *)
Top        == vm[Len(vm)]
At(w)      == vm # <<>> /\ Top.at = w
Replace(f) == [vm EXCEPT ![Len(vm)] = f]
Drop       == SubSeq(vm, 1, Len(vm) - 1)

(* One waiter of notifyAll after the other: the next is read before this   *)
(* one is taken from the list.  The current thread has the monitor, so     *)
(* that they all queue for it.                                             *)
StepNotify ==
  /\ At("notify")
  /\ Wake(Top.thr)
  /\ vm' = IF next[Top.thr] = Null THEN Drop ELSE Replace(NotifyAllFrom(next[Top.thr]))
  /\ UNCHANGED <<async, intrVars, current>>

(* Time passes.  It is read where a pass begins and where a timeout is     *)
(* set, so it need not pass anywhere else.                                 *)
Tick ==
  /\ vm = <<>> \/ At("poll")
  /\ \E t \in Thread : wakeup[t] \in Nat \ {0}
  /\ wakeup' = [t \in Thread |-> IF wakeup[t] \in Nat \ {0} THEN wakeup[t] - 1 ELSE wakeup[t]]
  /\ UNCHANGED <<active, async, listVars, waitObj, lockVars, intrVars, current, vm>>

(* check_blocked_threads: an event makes a blocked thread active. *)
unblock_thread(t) ==
  /\ At("poll")
  /\ t \in async
  /\ async' = async \ {t}
  /\ active' = active \cup {t}
  /\ UNCHANGED <<listVars, waitObj, wakeup, lockVars, intrVars, current, vm>>

(* wake_up_timed_out_sleepers: the time is read and the first list, that   *)
(* of the sleepers, begins.  thr is this_thread, list is next_waiting.     *)
BeginPass ==
  /\ At("poll")
  /\ vm' = Replace([at |-> "scan", thr |-> Anchor, list |-> nextWaiting[Anchor],
                    due |-> {t \in Thread : wakeup[t] = 0}])
  /\ UNCHANGED <<active, async, listVars, waitObj, wakeup, lockVars, intrVars, current>>

(* Threads whose time has not come are passed over; the next one whose     *)
(* time has come is taken from the list and woken, and the one after it is *)
(* read before that.  If it is the current thread and finds the monitor    *)
(* taken, wait_for yields: another pass begins inside this one.            *)
DueFrom(t) == SelectSeq(Chain(next, t), LAMBDA u : u \in Top.due /\ wakeup[u] = 0)
Due        == At("scan") /\ DueFrom(Top.thr) # <<>>
NextDue    == Head(DueFrom(Top.thr))

WakeDue ==
  /\ Due
  /\ Wake(NextDue)
  /\ vm' = Replace([Top EXCEPT !.thr = next[NextDue]]) \o
           (IF NextDue = current /\ Blocks(current, waitObj[current]) THEN <<Poll>> ELSE <<>>)
  /\ UNCHANGED <<async, intrVars, current>>

(* Then the next list with such a thread. *)
LaterLists == SelectSeq(Chain(nextWaiting, Top.list), LAMBDA h : DueFrom(h) # <<>>)

NextList ==
  /\ At("scan")
  /\ ~Due
  /\ LaterLists # <<>>
  /\ vm' = Replace([Top EXCEPT !.thr = Head(LaterLists), !.list = nextWaiting[Head(LaterLists)]])
  /\ UNCHANGED <<active, async, listVars, waitObj, wakeup, lockVars, intrVars, current>>

(* FirstListDone ends the pass with the first list: mutant. *)
FirstListDone == At("scan") /\ ~Due
PassDone      == At("scan") /\ ~Due /\ LaterLists = <<>>

(* The end of yield: the inner yield returns into the outer pass, the      *)
(* outer one switches threads.  The wakeup_time of a thread that is in no  *)
(* list is set before it is read again, and is forgotten here.             *)
Return ==
  /\ PassDone
  /\ active # {}
  /\ Len(vm) > 1
  /\ vm' = Drop
  /\ UNCHANGED <<active, async, listVars, waitObj, wakeup, lockVars, intrVars, current>>

SwitchThread ==
  /\ PassDone
  /\ Len(vm) = 1
  /\ current' \in active
  /\ wakeup' = [t \in Thread |-> IF t \in active THEN Null ELSE wakeup[t]]
  /\ vm' = <<>>
  /\ UNCHANGED <<active, async, listVars, waitObj, lockVars, intrVars>>

(* No thread is active: wait_for_event_or_timer and another pass, or, if   *)
(* nothing can come, the return from an inner yield or sleep_forever.      *)
Idle ==
  /\ PassDone
  /\ active = {}
  /\ vm' = IF /\ async = {}
              /\ \A t \in AllWaiting : wakeup[t] = Null
              /\ Len(vm) > 1
           THEN Drop ELSE Replace(Poll)
  /\ UNCHANGED <<active, async, listVars, waitObj, wakeup, lockVars, intrVars, current>>

-----------------------------------------------------------------------------
JavaStep ==
  \/ \E o \in Obj : Enter(o) \/ Exit(o) \/ WaitFor(o, Null) \/ Notify(o) \/ NotifyAll(o)
  \/ \E o \in TimedObj, k \in 1 .. MaxTimeout : WaitFor(o, k)
  \/ \E k \in 1 .. MaxTimeout : Sleep(k)
  \/ BlockInNative
  \/ Yield
  \/ \E t \in Thread : InterruptWaiting(t) \/ InterruptOther(t)
  \/ handle_pending_interrupt
  \/ Catch

VMStep == StepNotify \/ BeginPass \/ WakeDue \/ NextList \/ Return \/ SwitchThread \/ Idle

Next == JavaStep \/ VMStep \/ Tick \/ \E t \in Thread : unblock_thread(t)

Spec == Init /\ [][Next]_vars

(* Time passes, the VM goes on, and timer ticks make every thread yield.   *)
(* Nothing is assumed of the events that native methods wait for, nor of   *)
(* what the application does.                                              *)
Fairness == SF_vars(Tick) /\ WF_vars(VMStep) /\ WF_vars(Yield)

FairSpec == Spec /\ Fairness

-----------------------------------------------------------------------------
TypeOK ==
  LET ThreadOrNull == Thread \cup {Null}
  IN  /\ active \subseteq Thread
      /\ async \subseteq Thread
      /\ next \in [Thread \cup {Anchor} -> ThreadOrNull]
      /\ nextWaiting \in [Thread \cup {Anchor} -> ThreadOrNull]
      /\ tail \in Thread \cup {Anchor}
      /\ waitObj \in [Thread -> Obj \cup {Null}]
      /\ wakeup \in [Thread -> 0 .. MaxTimeout \cup {Null}]
      /\ lockOwner \in [Obj -> ThreadOrNull]
      /\ waiters \in [Obj -> ThreadOrNull]
      /\ interrupted \subseteq Thread
      /\ thrown \subseteq Thread
      /\ current \in Thread

(* Every thread is in one place: active, blocked in a native method,       *)
(* asleep, waiting on one object or queueing for one monitor; and the tail *)
(* is where the next list of waiters will be linked.  A thread in no place *)
(* would never run again, one in two would run while it waits.             *)
Places ==
  {<<"active", Null, active>>, <<"native", Null, async>>, <<"asleep", Null, Members(Sleepers)>>}
  \cup {<<"waiting", o, Members(Waiters(o))>> : o \in Obj}
  \cup {<<"queueing", o, Members(Queueing(o))>> : o \in Obj}

OnePlace ==
  /\ \A t \in Thread : Cardinality({p \in Places : t \in p[3]}) = 1
  /\ tail = Last(<<Anchor>> \o Heads)

(* The GUARANTEEs of notify_wakeup ("Must not be active", line 1035) and   *)
(* of remove_waiting_thread ("Waiting thread not in list", line 551) where *)
(* a pass is about to wake a thread.  It does not hold where threads wait  *)
(* with timeouts on two objects (MCMonitorsReentrant.cfg).                 *)
WokenNotActive == Due => NextDue \in AllWaiting \ active

(* The lists, links and handed over locks implement the monitors of        *)
(* JavaMonitor.                                                            *)
JM == INSTANCE JavaMonitor WITH
        owner   <- lockOwner,
        entry   <- [o \in Obj |-> Queueing(o)],
        waitset <- [o \in Obj |-> Waiters(o)],
        timed   <- {t \in UNION {Members(Waiters(o)) : o \in Obj} : wakeup[t] # Null}

ImplementsMonitors == JM!Spec

(* A thread that sleeps or waits with a timeout does not stay in its list  *)
(* for ever, whatever the other threads do.                                *)
TimeoutsEnd ==
  \A t \in Thread : (t \in AllWaiting /\ wakeup[t] # Null) ~> t \notin AllWaiting
=============================================================================
