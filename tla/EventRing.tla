------------------------------ MODULE EventRing ------------------------------
(***************************************************************************)
(* The javacall event queue of the port (psp_mips/common/events.c): a ring *)
(* of NUM_MBX mailboxes with a send and a receive index.  Front-end        *)
(* callbacks and VM code send; the VM (checkForSystemSignal) and JavaTask  *)
(* receive.  There is one thread: a receive that would have to wait yields *)
(* to the front end once, which may send, and looks at the ring again.     *)
(***************************************************************************)
EXTENDS Naturals, Sequences

CONSTANTS
  NumMbx,      \* NUM_MBX, the mailboxes of the ring (10)
  Event,       \* what can be sent
  NoEvent,     \* nothing received yet
  BusyLimit    \* polls in a row after which a poll waits (40)

ASSUME RingAssumption ==
  /\ NumMbx \in Nat \ {0, 1}
  /\ NoEvent \notin Event
  /\ BusyLimit \in Nat

VARIABLES
  box,          \* the messages in each mailbox
  recv,         \* _mbxid_recv
  send,         \* _mbxid_send
  inited,       \* _events_inited
  busy_count,   \* polls since the last waiting receive
  receiver,     \* "absent" without a JavaTask, "idle", or "yielding" in a receive
  timeout,      \* the timeout argument of the receive that yields
  got,          \* the event last copied to a caller's buffer
  outcome       \* how the last send or receive ended

ringVars == <<box, recv, send, inited>>
callVars == <<busy_count, receiver, timeout>>
vars     == <<ringVars, callVars, got, outcome>>

Slot == 0 .. NumMbx - 1

(* The NEXT macro; WrapsLate steps on at the last mailbox but one too.     *)
WrapsLate(i) == IF i >= NumMbx THEN 0 ELSE i + 1
NextSlot(i)  == IF i >= NumMbx - 1 THEN 0 ELSE i + 1

EmptyBoxes == [i \in Slot |-> <<>>]

(* The timeout argument of a receive: 0 polls, every other value waits.    *)
Timeout == {"poll", "timed", "forever"}

Init ==
  /\ box = EmptyBoxes
  /\ recv = 0
  /\ send = 0
  /\ inited = FALSE
  /\ busy_count = 0
  /\ receiver = "absent"
  /\ timeout = "poll"
  /\ got = NoEvent
  /\ outcome = "none"

-----------------------------------------------------------------------------
(* The mailboxes of the kernel the code was written for, as psp_compat.h   *)
(* emulates them.                                                          *)
SendMbx(i, e) == box' = [box EXCEPT ![i] = Append(@, e)]

ReceiveMbx(i) ==
  /\ box[i] # <<>>
  /\ got' = Head(box[i])
  /\ box' = [box EXCEPT ![i] = Tail(@)]

(* JavaTask sets the ring up before its loop.  A ring that a longjmp left  *)
(* behind, or one a sender has set up, stays as it is.                     *)
javacall_events_init ==
  /\ receiver = "absent"
  /\ receiver' = "idle"
  /\ inited' = TRUE
  /\ UNCHANGED <<box, recv, send, busy_count, timeout, got, outcome>>

(* At any time, from the front end's callbacks or from VM code.  The       *)
(* mutants miss the test for a full ring, and make it one mailbox early.   *)
Store(e) ==
  /\ SendMbx(send, e)
  /\ send' = NextSlot(send)
  /\ outcome' = "stored"

FullIsNotSeen(e) ==
  /\ inited' = TRUE
  /\ Store(e)
  /\ UNCHANGED <<recv, callVars, got>>

RefusesEarly(e) ==
  /\ inited' = TRUE
  /\ IF NextSlot(send) = recv \/ NextSlot(NextSlot(send)) = recv
     THEN outcome' = "refused" /\ UNCHANGED <<box, send>>
     ELSE Store(e)
  /\ UNCHANGED <<recv, callVars, got>>

javacall_event_send(e) ==
  /\ inited' = TRUE
  /\ \/ outcome' = "no memory" /\ UNCHANGED <<box, send>>
     \/ NextSlot(send) = recv /\ outcome' = "refused" /\ UNCHANGED <<box, send>>
     \/ NextSlot(send) # recv /\ Store(e)
  /\ UNCHANGED <<recv, callVars, got>>

(* What both looks at the ring do with an event; TakeLeavesIndex forgets   *)
(* to move the receive index.  A buffer too small for the event fails the  *)
(* call and loses it: both receivers bring one that is large enough        *)
(* (BINARY_BUFFER_MAX_LEN, 4096 bytes).                                    *)
TakeLeavesIndex ==
  /\ ReceiveMbx(recv)
  /\ receiver' = "idle"
  /\ outcome' = "taken"
  /\ UNCHANGED <<send, inited, recv>>

Deliver ==
  /\ ReceiveMbx(recv)
  /\ recv' = NextSlot(recv)
  /\ receiver' = "idle"
  /\ outcome' = "taken"
  /\ UNCHANGED <<send, inited>>

(* A caller that only ever polls is made to wait from time to time.        *)
Waits(t) == t # "poll" \/ busy_count > BusyLimit

EveryCallResets(t) == 0
PollsInARow(t)     == IF Waits(t) THEN 0 ELSE busy_count + 1

(* The first look at the ring.  A poll ends there; any other receive that  *)
(* finds nothing yields to the front end, whatever the timeout says.       *)
javacall_event_receive(t) ==
  /\ receiver = "idle"
  /\ timeout' = t
  /\ busy_count' = PollsInARow(t)
  /\ \/ Deliver
     \/ /\ box[recv] = <<>>
        /\ Waits(t)
        /\ receiver' = "yielding"
        /\ UNCHANGED <<ringVars, got, outcome>>
     \/ /\ box[recv] = <<>>
        /\ ~Waits(t)
        /\ outcome' = "empty"
        /\ UNCHANGED <<ringVars, receiver, got>>

(* gb300_jvm_yield came back: the second look is the last.                 *)
YieldReturns ==
  /\ receiver = "yielding"
  /\ \/ Deliver
     \/ /\ box[recv] = <<>>
        /\ receiver' = "idle"
        /\ outcome' = "empty"
        /\ UNCHANGED <<ringVars, got>>
  /\ UNCHANGED <<busy_count, timeout>>

(* The pause menu leaves with a longjmp out of JavaTask, from the yield of *)
(* a receive (which then never returns) or from another poll of the        *)
(* buttons, in the interpreter loop or a screen flush: nothing is          *)
(* finalized.                                                              *)
PauseMenuJumps ==
  /\ receiver # "absent"
  /\ receiver' = "absent"
  /\ UNCHANGED <<ringVars, busy_count, timeout, got, outcome>>

(* JavaTask's orderly end. *)
javacall_events_finalize ==
  /\ receiver = "idle"
  /\ receiver' = "absent"
  /\ box' = EmptyBoxes
  /\ recv' = 0
  /\ send' = 0
  /\ inited' = FALSE
  /\ UNCHANGED <<busy_count, timeout, got, outcome>>

Receive == \E t \in Timeout : javacall_event_receive(t)

Next ==
  \/ \E e \in Event : javacall_event_send(e)
  \/ javacall_events_init
  \/ Receive
  \/ YieldReturns
  \/ PauseMenuJumps
  \/ javacall_events_finalize

Spec == Init /\ [][Next]_vars

(* A running VM looks for events again and again (Scheduler::yield and     *)
(* Scheduler::wait call checkForSystemSignal), and the yield comes back.   *)
FairSpec == Spec /\ WF_vars(Receive) /\ WF_vars(YieldReturns)

-----------------------------------------------------------------------------
RingTypeOK ==
  /\ box \in [Slot -> Seq(Event)]
  /\ recv \in Slot
  /\ send \in Slot
  /\ busy_count \in 0 .. BusyLimit + 1
  /\ got \in Event \cup {NoEvent}

(* The indices stay inside the array of mailboxes and the poll counter     *)
(* never passes its limit by more than one.                                *)
TypeOK ==
  /\ RingTypeOK
  /\ inited \in BOOLEAN
  /\ receiver \in {"absent", "idle", "yielding"}
  /\ timeout \in Timeout
  /\ outcome \in {"none", "stored", "refused", "no memory", "taken", "empty"}

(* The mailbox n places after mailbox o, and how many lie from o up to i;  *)
(* counted from the receive index, and up to the send index.               *)
SlotAfter(o, n) == IF o + n < NumMbx THEN o + n ELSE o + n - NumMbx
Distance(o, i)  == IF i >= o THEN i - o ELSE i + NumMbx - o
SlotAt(n)       == SlotAfter(recv, n)
Count           == Distance(recv, send)

(* The two indices tell which mailboxes hold a message: exactly those from *)
(* recv up to send, one message each; NEXT(send) == recv leaves one free.  *)
WindowConsistent ==
  \A n \in Slot : Len(box[SlotAt(n)]) = IF n < Count THEN 1 ELSE 0

(* The ring implements the bounded FIFO with one place less than it has    *)
(* mailboxes, through both looks of a receive, yields, jumps and restarts. *)
Contents == [n \in 1 .. Count |-> Head(box[SlotAt(n - 1)])]

Fifo == INSTANCE BoundedFifo WITH
          Element <- Event, Nothing <- NoEvent, Capacity <- NumMbx - 1,
          q <- Contents

ImplementsFifo == Fifo!Spec

(* What is in a mailbox is received in the end, unless the VM is gone.     *)
EventuallyReceived ==
  \A i \in Slot : box[i] # <<>> ~> (box[i] = <<>> \/ receiver = "absent")

(* A VM that polls a ring that stays empty waits from time to time: every  *)
(* run of polls passes the limit and yields to the front end.              *)
PollingYields == []<>(receiver # "idle" \/ send # recv)

(* checkForSystemSignal: "-1 = Do not timeout. Block until a signal is     *)
(* sent to MIDP."                                                          *)
ForeverBlocks ==
  [][timeout = "forever" /\ YieldReturns => outcome' # "empty"]_vars
=============================================================================
