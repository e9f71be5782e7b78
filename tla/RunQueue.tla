------------------------------ MODULE RunQueue ------------------------------
(***************************************************************************)
(* Which thread of the VM runs (Scheduler.cpp).  Each priority has a ring  *)
(* of active threads.  When the running thread yields, is made to yield by *)
(* a timer tick, or blocks, the next one is picked from the ring of the    *)
(* highest priority that has not used up its quota.                        *)
(*                                                                         *)
(* A ring is the sequence of its threads from the head that priority_queue *)
(* points to; the place before the head is the end of the sequence.  Why a *)
(* thread leaves the rings and comes back (wait, sleep, a taken monitor, a *)
(* native method, exit and start) is the subject of Monitors: here it      *)
(* blocks and is woken.  The bits of priority_queue_valid are the rings    *)
(* that are not empty, and as last_priority_queue only says where to begin *)
(* the search, neither is a variable.                                      *)
(***************************************************************************)
EXTENDS Integers, Sequences, SequencesExt

CONSTANTS
  Thread,
  Settable,     \* threads that Thread.setPriority is called for
  Slots         \* NUM_PRIORITY_SLOTS, 10 in the code

ASSUME RunQueueAssumption ==
  /\ Settable \subseteq Thread
  /\ Slots \in Nat \ {0}

Priority == 1 .. Slots

VARIABLES
  queue,        \* Task.priority_queue: the ring of each priority
  count,        \* _thread_execute_counts
  priority,     \* Thread.priority
  current,      \* the running thread
  phase         \* "run": Java runs; "yield": in yield, called with a thread
                \* to yield from; "idle": in its loop, no thread was active

vars == <<queue, count, priority, current, phase>>

(* One thread runs, the others have not been started. *)
RingOf(t, at) == [p \in Priority |-> IF p = at THEN <<t>> ELSE <<>>]
NoRing        == [p \in Priority |-> <<>>]
NoCount       == [p \in Priority |-> 0]

Init ==
  /\ current \in Thread
  /\ priority \in [Thread -> Priority]
  /\ queue = RingOf(current, priority[current])
  /\ count = NoCount
  /\ phase = "run"

(* So it is again when the next VM starts. *)
FirstThread ==
  /\ current' \in Thread
  /\ priority' \in [Thread -> Priority]
  /\ queue' = RingOf(current', priority'[current'])
  /\ count' = NoCount
  /\ phase' = "run"

-----------------------------------------------------------------------------
Active == UNION {ToSet(queue[p]) : p \in Priority}

(* adjust_priority_list: a thread is added before the head, so that all    *)
(* others of the ring come first; when the head is removed, the next one   *)
(* becomes the head.                                                       *)
add_to_list(q, t)      == Append(q, t)
remove_from_list(q, t) == RemoveAt(q, CHOOSE i \in DOMAIN q : q[i] = t)

(* The running thread leaves the rings: it waits, sleeps, queues for a     *)
(* monitor, blocks in a native method or exits.  All of these yield.       *)
Block ==
  /\ phase = "run"
  /\ queue' = [queue EXCEPT ![priority[current]] = remove_from_list(@, current)]
  /\ phase' = "yield"
  /\ UNCHANGED <<count, priority, current>>

(* Thread.yield, and a timer tick. *)
Yield ==
  /\ phase = "run"
  /\ phase' = "yield"
  /\ UNCHANGED <<queue, count, priority, current>>

(* Another thread is made active: by the running thread (start, notify,    *)
(* monitorexit) or by the pass over the waiting threads in yield.  That    *)
(* pass may also wake the thread that has just blocked, if its time has    *)
(* come already or the event it needs is there.                            *)
Wake(t) ==
  /\ t \notin Active
  /\ queue' = [queue EXCEPT ![priority[t]] = add_to_list(@, t)]
  /\ UNCHANGED <<count, priority, current, phase>>

(* Thread.setPriority.  A thread that is not active is added to its new    *)
(* ring when it becomes active.  StaysInOldRing forgets to remove it.      *)
StaysInOldRing(t, p) ==
  /\ phase = "run"
  /\ priority' = [priority EXCEPT ![t] = p]
  /\ queue' = IF t \in Active THEN [queue EXCEPT ![p] = add_to_list(@, t)] ELSE queue
  /\ UNCHANGED <<count, current, phase>>

set_priority(t, p) ==
  /\ phase = "run"
  /\ priority' = [priority EXCEPT ![t] = p]
  /\ LET left == [queue EXCEPT ![priority[t]] = remove_from_list(@, t)]
     IN  queue' = IF t \in Active THEN [left EXCEPT ![p] = add_to_list(@, t)] ELSE queue
  /\ UNCHANGED <<count, current, phase>>

-----------------------------------------------------------------------------
(* get_next_runnable_thread: the highest priority with an active thread    *)
(* that is within its quota.  If none is, the counts start again and the   *)
(* highest wins.  NotCounted forgets to count the thread that runs.        *)
Ready       == {p \in Priority : queue[p] # <<>>}
WithinQuota == {p \in Ready : count[p] <= 2 * p}

Candidates  == IF WithinQuota # {} THEN WithinQuota ELSE Ready
Counts      == IF WithinQuota # {} THEN count ELSE NoCount

NotCounted(p, c, ring) ==
  /\ queue' = [queue EXCEPT ![p] = ring]
  /\ current' = Head(ring)
  /\ count' = c
  /\ phase' = "run"
  /\ UNCHANGED priority

RunFrom(p, c, ring) ==
  /\ queue' = [queue EXCEPT ![p] = ring]
  /\ current' = Head(ring)
  /\ count' = [c EXCEPT ![p] = @ + 1]
  /\ phase' = "run"
  /\ UNCHANGED priority

(* In a yield the thread after the head is taken and becomes the head,     *)
(* whether or not the head is the thread that yields; in the idle loop the *)
(* head is taken.                                                          *)
Advanced(ring) == IF phase = "yield" THEN Append(Tail(ring), Head(ring)) ELSE ring

Pick ==
  /\ phase # "run"
  /\ \E p \in Candidates :
       /\ \A x \in Candidates : x <= p
       /\ RunFrom(p, Counts, Advanced(queue[p]))

Idle ==
  /\ phase = "yield"
  /\ Ready = {}
  /\ phase' = "idle"
  /\ UNCHANGED <<queue, count, priority, current>>

-----------------------------------------------------------------------------
Next ==
  \/ Block
  \/ Yield
  \/ \E t \in Thread : Wake(t)
  \/ \E t \in Settable, p \in Priority : set_priority(t, p)
  \/ Pick
  \/ Idle

Spec == Init /\ [][Next]_vars

(* One VM by itself, with ticks that come again and again while Java runs. *)
Fairness == WF_vars(Pick) /\ WF_vars(Idle) /\ SF_vars(Yield)

FairSpec == Spec /\ Fairness

-----------------------------------------------------------------------------
TypeOK ==
  /\ queue \in [Priority -> Seq(Thread)]
  /\ count \in [Priority -> Nat]
  /\ priority \in [Thread -> Priority]
  /\ current \in Thread
  /\ phase \in {"run", "yield", "idle"}

Running(t) == phase = "run" /\ current = t

(* The rings hold each active thread once, at its priority, and the thread *)
(* that runs Java is one of them: a thread whose links are in two rings    *)
(* would join them into one.                                               *)
RingsDisjoint ==
  /\ \A p \in Priority : IsInjective(queue[p]) /\ \A t \in ToSet(queue[p]) : priority[t] = p
  /\ phase = "run" => current \in Active

(* What the comments on lines 226 and 285 give as the reason for where     *)
(* threads are added: no active thread starves.  It does not hold          *)
(* (MCRunQueueStarvation.cfg): a thread that blocks in its turn can keep   *)
(* another one out of it.                                                  *)
NoStarvation == \A t \in Thread : t \in Active ~> Running(t)
=============================================================================
