----------------------------- MODULE JavaMonitor -----------------------------
(***************************************************************************)
(* What the monitors of Java objects promise: one owner at a time; threads *)
(* that find a monitor taken queue up for it and are served in their order *)
(* the moment it is given up; a thread that waits has given the monitor up *)
(* and queues for it again when it is notified (the one that waits longest *)
(* first, by the owner), when its timeout ends, or when it is interrupted. *)
(***************************************************************************)
EXTENDS Sequences, SequencesExt

CONSTANTS Thread, Obj, Null

VARIABLES
  owner,      \* the owner of each object's monitor, or Null
  entry,      \* the threads that queue for it
  waitset,    \* the threads that wait on the object
  timed,      \* those of them that wait with a timeout
  thrown      \* the threads with an InterruptedException to throw

monitorVars == <<owner, entry, waitset, timed, thrown>>

Init ==
  /\ owner = [o \in Obj |-> Null]
  /\ entry = [o \in Obj |-> <<>>]
  /\ waitset = [o \in Obj |-> <<>>]
  /\ timed = {}
  /\ thrown = {}

Stopped == UNION {ToSet(entry[o]) \cup ToSet(waitset[o]) : o \in Obj}

(* The monitor of o is given up: the first in its queue has it. *)
Release(o) ==
  IF entry[o] = <<>>
  THEN /\ owner' = [owner EXCEPT ![o] = Null]
       /\ UNCHANGED entry
  ELSE /\ owner' = [owner EXCEPT ![o] = Head(entry[o])]
       /\ entry' = [entry EXCEPT ![o] = Tail(entry[o])]

(* Thread t wants the monitor of o: it has it, or joins the queue. *)
Request(t, o) ==
  IF owner[o] = Null
  THEN /\ owner' = [owner EXCEPT ![o] = t]
       /\ UNCHANGED entry
  ELSE /\ entry' = [entry EXCEPT ![o] = Append(@, t)]
       /\ UNCHANGED owner

Enter(t, o) ==
  /\ owner[o] # t
  /\ Request(t, o)
  /\ t \notin Stopped
  /\ UNCHANGED <<waitset, timed, thrown>>

Exit(t, o) ==
  /\ owner[o] = t
  /\ t \notin Stopped
  /\ Release(o)
  /\ UNCHANGED <<waitset, timed, thrown>>

Wait(t, o) ==
  /\ owner[o] = t
  /\ t \notin Stopped
  /\ Release(o)
  /\ waitset' = [waitset EXCEPT ![o] = Append(@, t)]
  /\ timed' \in {timed, timed \cup {t}}
  /\ UNCHANGED thrown

(* Thread t leaves the wait set of o. *)
Leave(t, o) ==
  /\ t \in ToSet(waitset[o])
  /\ waitset' = [waitset EXCEPT ![o] = SelectSeq(@, LAMBDA w : w # t)]
  /\ timed' = timed \ {t}
  /\ Request(t, o)

Notify(t, o) ==
  /\ owner[o] = t
  /\ t \notin Stopped
  /\ waitset[o] # <<>>
  /\ Leave(Head(waitset[o]), o)
  /\ UNCHANGED thrown

Expire(t, o) ==
  /\ t \in timed
  /\ Leave(t, o)
  /\ UNCHANGED thrown

Interrupt(t, o) ==
  /\ Leave(t, o)
  /\ thrown' = thrown \cup {t}

(* Threads are also interrupted before they wait and while they sleep. *)
Throw(t) ==
  /\ thrown' = thrown \cup {t}
  /\ t \notin Stopped
  /\ UNCHANGED <<owner, entry, waitset, timed>>

Catch(t) ==
  /\ thrown' = thrown \ {t}
  /\ t \notin Stopped
  /\ UNCHANGED <<owner, entry, waitset, timed>>

Next ==
  \/ \E t \in Thread : Throw(t) \/ Catch(t)
  \/ \E t \in Thread, o \in Obj :
       \/ Exit(t, o) \/ Wait(t, o) \/ Enter(t, o)
       \/ Notify(t, o) \/ Expire(t, o) \/ Interrupt(t, o)

Spec == Init /\ [][Next]_monitorVars
=============================================================================
