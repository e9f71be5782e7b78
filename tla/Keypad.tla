------------------------------- MODULE Keypad -------------------------------
(***************************************************************************)
(* The buttons of the handheld (platform_gb300/input.c): every poll        *)
(* compares the buttons with those of the last poll and sends key events   *)
(* of a phone keypad.  SELECT and START are modifiers: with one of them    *)
(* held some buttons send another key, and a modifier that was held and    *)
(* released for nothing else taps a key of its own.  Both together open    *)
(* the pause menu (gb300_poll_events in platform.c).                       *)
(***************************************************************************)
EXTENDS Naturals, Sequences, FiniteSets, SequencesExt

CONSTANTS
  Table,         \* the buttons in the order of btn_configs
  ComboButtons,  \* the buttons each modifier gives another key
  Key, NoKey,    \* phone keys, and JAVACALL_KEY_INVALID
  Keymaps        \* what load_config may find: records of Keymap

Modifier == {"SELECT", "START"}
Button   == Range(Table)
Plain    == Button \ Modifier

Keymap == [key    : [Button -> Key \cup {NoKey}],      \* current_jkey
           combo  : [Modifier -> [Plain -> Key \cup {NoKey}]],
           combos : BOOLEAN]                           \* s_enable_combos

ASSUME KeypadAssumption ==
  /\ Table \in Seq(Button) /\ IsInjective(Table)
  /\ Modifier \subseteq Button
  /\ ComboButtons \in [Modifier -> SUBSET Plain]
  /\ NoKey \notin Key
  /\ Keymaps \subseteq Keymap

VARIABLES
  keymap,        \* the configuration in force
  last_buttons,  \* the buttons held at the last poll
  held,          \* s_select_held and s_start_held
  combo_used,    \* s_select_combo_used and s_start_combo_used
  active,        \* s_active_jkey
  menu,          \* the answer of the pause menu, when the last poll opened it
  balance,       \* history: presses sent minus releases sent, of each key
  combined       \* history: modifiers that gave a combo since they are held

keypadVars == <<keymap, last_buttons, held, combo_used, active, menu, balance,
                combined>>

FreshInput(m) ==
  /\ keymap' = m
  /\ last_buttons' = {}
  /\ held' = [x \in Modifier |-> FALSE]
  /\ combo_used' = [x \in Modifier |-> FALSE]
  /\ active' = [p \in Plain |-> NoKey]
  /\ menu' = "closed"
  /\ balance' = [k \in Key |-> 0]
  /\ combined' = {}

Init ==
  /\ keymap \in Keymaps
  /\ last_buttons = {}
  /\ held = [x \in Modifier |-> FALSE]
  /\ combo_used = [x \in Modifier |-> FALSE]
  /\ active = [p \in Plain |-> NoKey]
  /\ menu = "closed"
  /\ balance = [k \in Key |-> 0]
  /\ combined = {}

(* A game is loaded: everything starts afresh under the keymap found.      *)
gb300_input_load_config == \E m \in Keymaps : FreshInput(m)

-----------------------------------------------------------------------------
(* javanotify_key_event; a button without a key sends nothing. *)
Send(k, t) == IF k = NoKey THEN <<>> ELSE <<[key |-> k, type |-> t]>>
Press(k)   == Send(k, "pressed")
Release(k) == Send(k, "released")

Pressed(b)  == b \ last_buttons
Released(b) == last_buttons \ b

(* First the modifiers: their state after this poll, and the tap of a      *)
(* modifier let go without a combo.                                        *)
HeldAfter(b, m) == IF m \in Pressed(b) \cup Released(b) THEN m \in b ELSE held[m]

TapsAlways(b, m) ==   \* mutant: a used modifier taps as well
  IF m \in Released(b) THEN Press(keymap.key[m]) \o Release(keymap.key[m]) ELSE <<>>

Tap(b, m) ==
  IF m \in Released(b) /\ ~combo_used[m]
  THEN Press(keymap.key[m]) \o Release(keymap.key[m])
  ELSE <<>>

(* Then the other buttons.  SELECT is asked before START whether a button  *)
(* that goes down is part of a combo; NONE is.                             *)
ComboOf(b, p) ==
  IF HeldAfter(b, "SELECT") /\ p \in ComboButtons["SELECT"] THEN "SELECT"
  ELSE IF HeldAfter(b, "START") /\ p \in ComboButtons["START"] THEN "START"
  ELSE "none"

KeyOf(b, p) ==
  IF ComboOf(b, p) \in Modifier THEN keymap.combo[ComboOf(b, p)][p] ELSE keymap.key[p]

ReleasedKeyNow(b, p) == KeyOf(b, p)   \* mutant: asks the modifiers again
ReleasedKey(b, p)    == active[p]

ComboEvents(b) ==
  Tap(b, "SELECT") \o Tap(b, "START") \o
  FlattenSeq([i \in DOMAIN Table |->
    LET p == Table[i] IN
    IF p \in Modifier THEN <<>>
    ELSE IF p \in Pressed(b) THEN Press(KeyOf(b, p))
    ELSE IF p \in Released(b) THEN Release(ReleasedKey(b, p))
    ELSE <<>>])

(* With the combos switched off every button sends its own key. *)
PlainEvents(b) ==
  FlattenSeq([i \in DOMAIN Table |->
    LET p == Table[i] IN
    IF p \in Pressed(b) THEN Press(keymap.key[p])
    ELSE IF p \in Released(b) THEN Release(keymap.key[p])
    ELSE <<>>])

IgnoresCombos(b) == PlainEvents(b)   \* mutant

(* The key events a poll that sees buttons b sends, in their order. *)
Events(b) == IF keymap.combos THEN ComboEvents(b) ELSE PlainEvents(b)

Times(s, k, t) == Cardinality({i \in DOMAIN s : s[i] = [key |-> k, type |-> t]})

UsedAfter(b, m) ==
  IF m \in Pressed(b) \cup Released(b)
  THEN \E p \in Pressed(b) \ Modifier : ComboOf(b, p) = m
  ELSE combo_used[m] \/ \E p \in Pressed(b) \ Modifier : ComboOf(b, p) = m

gb300_input_poll(b) ==
  /\ last_buttons' = b
  /\ LET s == Events(b) IN
     balance' = [k \in Key |-> balance[k] + Times(s, k, "pressed")
                                         - Times(s, k, "released")]
  /\ IF keymap.combos
     THEN /\ held' = [m \in Modifier |-> HeldAfter(b, m)]
          /\ combo_used' = [m \in Modifier |-> UsedAfter(b, m)]
          /\ active' = [p \in Plain |->
                          IF p \in Pressed(b) THEN KeyOf(b, p)
                          ELSE IF p \in Released(b) THEN NoKey ELSE active[p]]
          /\ combined' = {m \in b \cap Modifier :
                            \/ m \in combined
                            \/ \E p \in Pressed(b) \ Modifier : ComboOf(b, p) = m}
     ELSE UNCHANGED <<held, combo_used, active, combined>>
  /\ UNCHANGED keymap

(* gb300_poll_events: the poll, then the pause menu when both modifiers    *)
(* are down, however long they are.  The menu resumes the game or leaves   *)
(* it.  The 60 Hz throttle only decides when a poll happens; the timers    *)
(* and the audio feed of the same function touch none of this state.       *)
gb300_poll_events(b) ==
  /\ gb300_input_poll(b)
  /\ IF Modifier \subseteq b THEN menu' \in {"resume", "leave"} ELSE menu' = "closed"

Next == gb300_input_load_config \/ \E b \in SUBSET Button : gb300_poll_events(b)

Spec == Init /\ [][Next]_keypadVars

-----------------------------------------------------------------------------
TypeOK ==
  /\ keymap \in Keymaps
  /\ last_buttons \subseteq Button
  /\ held \in [Modifier -> BOOLEAN]
  /\ combo_used \in [Modifier -> BOOLEAN]
  /\ active \in [Plain -> Key \cup {NoKey}]
  /\ menu \in {"closed", "resume", "leave"}
  /\ balance \in [Key -> 0 .. Cardinality(Button)]
  /\ combined \subseteq Modifier

(* The buttons that hold down key k: those whose active key it is. *)
Holders(k) ==
  IF keymap.combos
  THEN {p \in Plain \cap last_buttons : active[p] = k}
  ELSE {p \in last_buttons : keymap.key[p] = k}

(* s_active_jkey: "to cleanly release the exact key that was pressed".     *)
(* Whatever happens to the modifiers while a button is down, the presses   *)
(* of a key that were not yet released are those of the buttons that are   *)
(* held and hold that key.                                                 *)
Balanced == \A k \in Key : balance[k] = Cardinality(Holders(k))

(* A modifier that is let go and has a key of its own has either given a   *)
(* combo since it was pressed or taps that key now, never both and never   *)
(* nothing.                                                                *)
ModifierServesOnce ==
  [][\A m \in Modifier :
       keymap.combos /\ keymap' = keymap /\ keymap.key[m] # NoKey
         /\ m \in last_buttons \ last_buttons'
         => (m \in combined <=> Tap(last_buttons', m) = <<>>)]_keypadVars

(* gb300_poll_events: "Swallow the combo: run_emulator_menu() polls input  *)
(* itself and a still-held SELECT+START would immediately re-trigger."     *)
PauseNotRetriggered ==
  [][menu = "resume" /\ Modifier \subseteq last_buttons => menu' = "closed"]_keypadVars
=============================================================================
