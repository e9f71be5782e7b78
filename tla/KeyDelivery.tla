----------------------------- MODULE KeyDelivery -----------------------------
(***************************************************************************)
(* Key events from the buttons to the VM, over the games that one process  *)
(* plays: Keypad sends them into the bounded event ring (EventRing is      *)
(* shown to be such a queue), which also carries the START event of each   *)
(* game.  JavaTask throws away what is in front of START; the VM it starts *)
(* receives what comes after it.  The senders ignore what the ring answers *)
(* so that whatever it refuses is gone for good.  A game ends by itself,   *)
(* and the ring is emptied, or is left by the pause menu's longjmp, and    *)
(* the ring stays as it is; in both cases retro_run polls on.              *)
(***************************************************************************)
EXTENDS Keypad

CONSTANT Capacity   \* events the ring can hold (NUM_MBX - 1, that is 9)

ASSUME DeliveryAssumption == Capacity \in Nat \ {0}

VARIABLES
  phase,   \* how far the game is: see Phase
  queue,   \* the events in the ring
  down,    \* what a game that follows the events believes is held down
  early,   \* history: keys held since before START was sent
  refused, \* history: the ring refused START or an event after it
  stale    \* history: START was sent with one of another game in the ring

historyVars == <<early, refused, stale>>
vars        == <<keypadVars, phase, queue, down, historyVars>>

(* Nothing loaded; loaded, with the boot screen on once retro_run is       *)
(* called; inside JavaTask, which waits for START; inside the VM; and out  *)
(* of JavaTask again.  s_can_exit_jmp is set in the two Running phases.    *)
Phase   == {"none", "boot", "task", "vm", "over"}
Running == phase \in {"task", "vm"}

Start == [key |-> NoKey, type |-> "start"]

HeldKeys == {k \in Key : Holders(k) # {}}

DeliveryInit ==
  /\ Init
  /\ phase = "none"
  /\ queue = <<>>
  /\ down = {}
  /\ early = {}
  /\ refused = FALSE
  /\ stale = FALSE

(* Sending events one by one: the ring is filled and the rest is refused.  *)
(* Mutants: nothing is ever refused; new events overtake the queued ones.  *)
FirstFit(s)   == SubSeq(s, 1, IF Len(s) < Capacity THEN Len(s) ELSE Capacity)
SendsAll(s)   == queue \o s
Overtakes(s)  == FirstFit(s \o queue)
SendEvents(s) == FirstFit(queue \o s)

Refuses(s) == Len(queue) + Len(s) > Capacity

-----------------------------------------------------------------------------
retro_load_game ==
  /\ phase \in {"none", "over"}
  /\ phase' = "boot"
  /\ gb300_input_load_config
  /\ down' = {}
  /\ early' = {}
  /\ refused' = FALSE
  /\ stale' = FALSE
  /\ UNCHANGED queue

retro_unload_game ==
  /\ phase = "over"
  /\ phase' = "none"
  /\ UNCHANGED <<keypadVars, queue, down, historyVars>>

(* The end of the boot screen in retro_run: START is sent and JavaTask     *)
(* entered, stored or not.                                                 *)
SendStart ==
  /\ phase = "boot"
  /\ phase' = "task"
  /\ queue' = SendEvents(<<Start>>)
  /\ early' = HeldKeys
  /\ refused' = Refuses(<<Start>>)
  /\ stale' = \E i \in DOMAIN queue : queue[i] = Start
  /\ UNCHANGED <<keypadVars, down>>

(* A poll: from the boot screen, the yield, the interpreter loop, a screen *)
(* flush, or retro_run after the end.  The pause menu can only leave a     *)
(* game that is Running.                                                   *)
Poll(b) ==
  /\ phase # "none"
  /\ gb300_poll_events(b)
  /\ queue' = SendEvents(Events(b))
  /\ early' = {k \in early : Holders(k)' # {}}
  /\ refused' = (refused \/ (Running /\ Refuses(Events(b))))
  /\ phase' = IF Running /\ menu' = "leave" THEN "over" ELSE phase
  /\ UNCHANGED <<down, stale>>

(* JavaTask's loop.  That it finds no memory for the VM (79 to 82) and     *)
(* returns to retro_run without one is left out.                           *)
JavaTask ==
  /\ phase = "task"
  /\ queue # <<>>
  /\ queue' = Tail(queue)
  /\ phase' = IF Head(queue) = Start THEN "vm" ELSE "task"
  /\ UNCHANGED <<keypadVars, down, historyVars>>

(* The game's view of the keys after event e; a START event is ignored. *)
After(d, e) ==
  CASE e.type = "pressed"  -> d \cup {e.key}
    [] e.type = "released" -> d \ {e.key}
    [] e.type = "start"    -> d

checkForSystemSignal ==
  /\ phase = "vm"
  /\ queue # <<>>
  /\ down' = After(down, Head(queue))
  /\ queue' = Tail(queue)
  /\ UNCHANGED <<keypadVars, phase, historyVars>>

(* JavaTaskImpl returns and JavaTask finalizes the ring. *)
VMEnds ==
  /\ phase = "vm"
  /\ phase' = "over"
  /\ queue' = <<>>
  /\ UNCHANGED <<keypadVars, down, historyVars>>

DeliveryNext ==
  \/ retro_load_game
  \/ retro_unload_game
  \/ SendStart
  \/ \E b \in SUBSET Button : Poll(b)
  \/ JavaTask
  \/ checkForSystemSignal
  \/ VMEnds

DeliverySpec == DeliveryInit /\ [][DeliveryNext]_vars

-----------------------------------------------------------------------------
DeliveryTypeOK ==
  /\ TypeOK
  /\ phase \in Phase
  /\ \A i \in DOMAIN queue :
       queue[i] \in [key : Key, type : {"pressed", "released"}] \cup {Start}
  /\ Len(queue) <= Capacity
  /\ down \subseteq Key
  /\ early \subseteq Key
  /\ refused \in BOOLEAN
  /\ stale \in BOOLEAN

(* What a game that believes d will believe after the events s: of a key   *)
(* the last event counts.                                                  *)
Believed(d, s) ==
  {k \in Key :
     \/ k \in d /\ \A i \in DOMAIN s : s[i].key # k
     \/ \E i \in DOMAIN s : /\ s[i] = [key |-> k, type |-> "pressed"]
                            /\ \A j \in i + 1 .. Len(s) : s[j].key # k}

(* The events the VM has still to receive: those after START when it does  *)
(* not run yet.  With them the game will believe View.                     *)
Heard ==
  IF phase = "vm" THEN queue
  ELSE LET starts == {i \in DOMAIN queue : queue[i] = Start}
       IN  IF starts = {} THEN <<>>
           ELSE SubSeq(queue, Min(starts) + 1, Len(queue))

View == Believed(down, Heard)

Clean == ~refused /\ ~stale

(* As long as nothing was refused, no key stays down in the game without   *)
(* a button that holds it: in whatever order polls and receives happen,    *)
(* and whatever the boot screen and earlier games left in the ring.        *)
NoStuckKey == Running /\ Clean => \A k \in View : Holders(k) # {}

(* No key can be held by two buttons: as their own or as that of a combo.  *)
KeysOf(p) ==
  {keymap.key[p]} \cup
  {keymap.combo[m][p] : m \in {x \in Modifier : p \in ComboButtons[x]}}

KeysUnshared ==
  \A p, q \in Button : p # q => KeysOf(p) \cap KeysOf(q) \subseteq {NoKey}

(* Then the game also sees every key that is held, except those that are   *)
(* held since the boot screen: presses and releases never overtake each    *)
(* other, and what JavaTask throws away is older than START.               *)
HeldKeysSeen ==
  Running /\ Clean /\ KeysUnshared => View = HeldKeys \ early

(* input.c: the release of a key goes out "to cleanly release the exact    *)
(* key that was pressed".  A game sees no key down when no button is.      *)
ReleasesArrive ==
  phase = "vm" /\ ~stale /\ last_buttons = {} /\ queue = <<>> => down = {}

(* javanotify_start_java_with_arbitrary_args, after its send: "Event sent  *)
(* successfully."  JavaTask is entered with START in the ring.             *)
StartSent ==
  [][phase = "boot" /\ phase' = "task" => queue' = Append(queue, Start)]_vars
=============================================================================
