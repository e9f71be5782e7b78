---------------------------- MODULE AudioPlayers ----------------------------
(***************************************************************************)
(* The sound players of the games: the table g_wav of audio.c with its     *)
(* budgets of raw data and of decoded samples, the Java players above it   *)
(* (BasicPlayer, DirectPlayer), and gb300_audio_read, which the front end  *)
(* calls from every poll to top up the MIDI tracks and to mix.             *)
(*                                                                         *)
(* Lengths are counted in units of what one read plays.  A mono unit costs *)
(* one unit of the sample budget, a stereo unit two.  The events of a MIDI *)
(* track are one unit apart.  Volume, muting and tones are left out: they  *)
(* touch none of this state; and so are nPause and nResume, which          *)
(* DirectPlayer calls for rtsp streams only.                               *)
(***************************************************************************)
EXTENDS Integers, FiniteSets, FiniteSetsExt

CONSTANTS
  Slots,         \* WAV_MAX_PLAYERS
  MaxPcm,        \* WAV_MAX_PCM_TOTAL
  MaxRaw,        \* WAV_MAX_RAW_PER_PLAYER
  MaxRawTotal,   \* WAV_MAX_RAW_TOTAL
  Second,        \* one second: the length of a track is known in whole ones
  Prefix,        \* what midi_stream_open renders
  Chunk,         \* MIDI_TOPUP_MAX
  PerRead,       \* MIDI_BUDGET_PER_READ
  Ahead,         \* two seconds: how far a track is rendered ahead
  Quarter,       \* a quarter of a second: when a looping track starts again
  Cap,           \* five minutes: the longest buffer of a track
  Waves,         \* lengths of sound effects
  Tracks,        \* lengths of MIDI tracks
  MaxSeeks       \* bound: how often the games call setMediaTime

Slot == 1 .. Slots

ASSUME AudioAssumption ==
  /\ {Slots, Second, Prefix, Chunk, PerRead, Ahead, Quarter, Cap} \subseteq Nat \ {0}
  /\ {MaxPcm, MaxRaw, MaxRawTotal, MaxSeeks} \subseteq Nat
  /\ Waves \cup Tracks \subseteq Nat \ {0}

VARIABLES
  g_wav,             \* the players
  g_wav_raw_total,   \* raw data held by all of them
  g_wav_pcm_total,   \* samples charged to the budget
  java,              \* the Java player of each slot
  seeks,             \* how often setMediaTime was called
  soundfont,         \* g_fl_synth: was the file of the soundfont there?
  read               \* gb300_audio_read: the player it has come to (0 between two
                     \* reads), what is left of g_midi_budget, g_midi_synth_used

totals    == <<g_wav_raw_total, g_wav_pcm_total>>
audioVars == <<g_wav, totals, java, seeks, soundfont, read>>

NotReading == [at |-> 0, budget |-> 0, synthUsed |-> FALSE]

NoStream == [nev |-> 0, ev_i |-> 0]

Unused == [used |-> FALSE, raw |-> 0, pcm |-> FALSE, channels |-> 2, pcmFrames |-> 0,
           pos |-> 0, playing |-> FALSE, midi |-> NoStream, loopMidi |-> FALSE]

Init ==
  /\ g_wav = [h \in Slot |-> Unused]
  /\ g_wav_raw_total = 0
  /\ g_wav_pcm_total = 0
  /\ java = [h \in Slot |-> "none"]
  /\ seeks = 0
  /\ soundfont \in BOOLEAN
  /\ read = NotReading

Samples(p) == p.pcmFrames * p.channels

(* The games and the front end share one thread: no call of a game comes in *)
(* the middle of a read.                                                   *)
Goes(h, from, to) ==
  /\ read = NotReading /\ UNCHANGED <<read, seeks, soundfont>>
  /\ java[h] \in from /\ java' = [java EXCEPT ![h] = to]

-----------------------------------------------------------------------------
(* wav_unload gives back what the player holds.  UnloadsStereo takes every *)
(* buffer for a stereo one.                                                *)
UnloadsStereo(h) ==
  /\ g_wav_raw_total' = g_wav_raw_total - g_wav[h].raw
  /\ g_wav_pcm_total' = g_wav_pcm_total - g_wav[h].pcmFrames * 2

wav_unload(h) ==
  /\ g_wav_raw_total' = g_wav_raw_total - g_wav[h].raw
  /\ g_wav_pcm_total' = g_wav_pcm_total - Samples(g_wav[h])

(* realize: nInit takes the first free slot; without one it fails. *)
nInit ==
  \E h \in Slot :
    /\ ~g_wav[h].used /\ \A k \in 1 .. h - 1 : g_wav[k].used
    /\ wav_unload(h)
    /\ g_wav' = [g_wav EXCEPT ![h] = [Unused EXCEPT !.used = TRUE]]
    /\ Goes(h, {"none"}, "loading")

(* readAndBuffering: the data in pieces; what does not fit is left out. *)
nBuffering(h) ==
  /\ Goes(h, {"loading"}, "loading")
  /\ g_wav[h].raw < MaxRaw /\ g_wav_raw_total < MaxRawTotal
  /\ g_wav' = [g_wav EXCEPT ![h].raw = @ + 1]
  /\ g_wav_raw_total' = g_wav_raw_total + 1
  /\ UNCHANGED g_wav_pcm_total

(* midi_stream_render: n more units of the track of p, as far as the       *)
(* budget goes; total is what is charged to it.                            *)
Render(p, n, total) ==
  LET want == Min({p.pcmFrames + n, MaxPcm - total + p.pcmFrames})
      upto == Min({want, Cap})
      new  == upto - p.pcmFrames
  IN  IF want <= p.pcmFrames THEN [ok |-> FALSE, p |-> p, total |-> total]
      ELSE [ok    |-> TRUE,
            p     |-> [p EXCEPT !.pcm = TRUE, !.pcmFrames = upto,
                                !.midi.ev_i = Min({p.midi.nev, @ + new})],
            total |-> total + new]

(* The end of the data.  A sound effect is decoded as far as the budget    *)
(* goes, of a track the first units are rendered.                          *)
Decoded(p, f) ==
  LET out == Min({f, (MaxPcm - g_wav_pcm_total) \div 2})
  IN  IF out <= 0 THEN p ELSE [p EXCEPT !.pcm = TRUE, !.pcmFrames = out, !.channels = 2]

(* A track loops if it is longer than what was rendered, as far as its     *)
(* length is known: one of less than a second does not, though most of it  *)
(* is still to be rendered.                                               *)
TotalFrames(nev) == (nev \div Second) * Second

Opened(p, nev) ==
  LET total  == TotalFrames(nev)
      prefix == IF total > 0 THEN Min({Prefix, total}) ELSE Prefix
      q      == Render([p EXCEPT !.midi = [nev |-> nev, ev_i |-> 0], !.channels = 1],
                       prefix, g_wav_pcm_total).p
  IN  [q EXCEPT !.loopMidi = total > q.pcmFrames]

Content(p) ==
  IF p.raw = 0 THEN {p}
  ELSE {p}                                          \* not understood
       \cup {Decoded(p, f) : f \in Waves}
       \cup {Opened(p, nev) : nev \in Tracks}

nBufferingEnd(h) ==
  /\ Goes(h, {"loading"}, "ready")
  /\ \E p \in Content(g_wav[h]) :
       /\ g_wav' = [g_wav EXCEPT ![h] = [p EXCEPT !.raw = 0]]
       /\ g_wav_pcm_total' = g_wav_pcm_total + Samples(p)
  /\ g_wav_raw_total' = g_wav_raw_total - g_wav[h].raw

(* The data cannot be read: realize throws, and only close is left. *)
LoadFails(h) ==
  /\ Goes(h, {"loading"}, "failed")
  /\ UNCHANGED <<g_wav, totals>>

-----------------------------------------------------------------------------
(* start seeks to where the player was stopped and then calls nStart, which*)
(* begins at the beginning.  A player that is STARTED, also one that has   *)
(* come to its end, ignores it.                                            *)
start(h) ==
  /\ Goes(h, {"ready"}, "started")
  /\ g_wav' = [g_wav EXCEPT ![h].playing = TRUE, ![h].pos = 0]
  /\ UNCHANGED totals

stop(h) ==
  /\ Goes(h, {"started"}, "ready")
  /\ g_wav' = [g_wav EXCEPT ![h].playing = FALSE, ![h].pos = 0]
  /\ UNCHANGED totals

setMediaTime(h) ==
  /\ read = NotReading /\ java[h] \in {"ready", "started"}
  /\ seeks < MaxSeeks /\ seeks' = seeks + 1
  /\ \E t \in 0 .. g_wav[h].pcmFrames : g_wav' = [g_wav EXCEPT ![h].pos = t]
  /\ UNCHANGED <<totals, java, soundfont, read>>

(* close: nFlushBuffer and nTerm, which unloads the player.  TermsOnly     *)
(* does not.                                                               *)
TermsOnly(p) == [p EXCEPT !.used = FALSE]
Termed(p)    == Unused

close(h) ==
  /\ Goes(h, {"ready", "started", "failed"}, "none")
  /\ wav_unload(h)
  /\ g_wav' = [g_wav EXCEPT ![h] = Termed(@)]

(* The game ends or is left: nobody closes its players. *)
GameEnds ==
  /\ read = NotReading
  /\ java' = [h \in Slot |-> "none"]
  /\ UNCHANGED <<g_wav, totals, seeks, soundfont, read>>

-----------------------------------------------------------------------------
(* gb300_audio_read: a fresh budget, then the players one after the other, *)
(* then the mixing.  BeginsUsed does not clear the flag of the soundfont.  *)
BeginsUsed ==
  /\ read = NotReading
  /\ read' = [at |-> 1, budget |-> PerRead, synthUsed |-> soundfont]
  /\ UNCHANGED <<g_wav, totals, java, seeks, soundfont>>

ReadBegins ==
  /\ read = NotReading
  /\ read' = [at |-> 1, budget |-> PerRead, synthUsed |-> FALSE]
  /\ UNCHANGED <<g_wav, totals, java, seeks, soundfont>>

Done(p) == p.midi.ev_i = p.midi.nev

(* A track that loops and whose last quarter of a second has come starts   *)
(* again in an empty buffer.                                               *)
Rewound(p) ==
  IF Done(p) /\ p.loopMidi /\ p.pcmFrames - p.pos \in 1 .. Quarter - 1
  THEN [p EXCEPT !.midi.ev_i = 0, !.pcmFrames = 0, !.pos = 0]
  ELSE p

(* With the soundfont one track may synthesise in a read. *)
MaySynthesise == ~soundfont \/ ~read.synthUsed

wav_topup_midi ==
  LET h     == read.at
      p     == Rewound(g_wav[h])
      ahead == p.pcmFrames - p.pos
      n     == Min({Ahead - ahead, Chunk, read.budget})
      more  == Render(p, n, g_wav_pcm_total)
      plays == p.used /\ p.playing /\ p.midi # NoStream /\ p.pcm
      synthesises == /\ plays /\ ~Done(p) /\ read.budget > 0 /\ MaySynthesise
                     /\ ahead < Ahead /\ more.ok
  IN  /\ h \in Slot
      /\ \/ /\ synthesises
            /\ g_wav' = [g_wav EXCEPT ![h] = more.p]
            /\ g_wav_pcm_total' = more.total
            /\ read' = [at |-> h + 1, budget |-> read.budget - n, synthUsed |-> TRUE]
         \/ /\ ~synthesises
            /\ g_wav' = [g_wav EXCEPT ![h] = IF plays THEN p ELSE @]
            /\ read' = [read EXCEPT !.at = h + 1]
            /\ UNCHANGED g_wav_pcm_total
      /\ UNCHANGED <<g_wav_raw_total, java, seeks, soundfont>>

(* wav_mix_frame, for one unit.  A sound effect ends with its last unit, a *)
(* track when there is nothing left to play and it does not loop.          *)
(* EndsLate looks for the end of a sound effect one unit too late.         *)
Heard(p) == p.used /\ p.playing /\ p.pcm

Ended(p) == [p EXCEPT !.playing = FALSE, !.pos = 0]

EndsLate(p, pos) == IF p.midi = NoStream /\ pos > p.pcmFrames THEN Ended(p)
                    ELSE [p EXCEPT !.pos = Min({pos, p.pcmFrames - 1})]

Played(p, pos) == IF p.midi = NoStream /\ pos >= p.pcmFrames THEN Ended(p)
                  ELSE [p EXCEPT !.pos = pos]

Mixed(p) ==
  LET over == p.pos >= p.pcmFrames
      q    == IF over THEN [p EXCEPT !.pos = 0] ELSE p
  IN  IF ~Heard(p) THEN p
      ELSE IF over /\ (p.midi = NoStream \/ ~p.loopMidi) THEN Ended(p)
      ELSE IF q.pos < q.pcmFrames THEN Played(q, q.pos + 1)
      ELSE q

wav_mix_frame ==
  /\ read.at > Slots
  /\ g_wav' = [h \in Slot |-> Mixed(g_wav[h])]
  /\ read' = NotReading
  /\ UNCHANGED <<totals, java, seeks, soundfont>>

gb300_audio_read == ReadBegins \/ wav_topup_midi \/ wav_mix_frame

Next ==
  \/ nInit
  \/ \E h \in Slot :
       \/ nBuffering(h) \/ nBufferingEnd(h) \/ LoadFails(h)
       \/ start(h) \/ stop(h) \/ setMediaTime(h) \/ close(h)
  \/ GameEnds
  \/ gb300_audio_read

Spec == Init /\ [][Next]_audioVars

(* Time goes on: sooner or later a poll comes that reads.  A poll reads    *)
(* when the last read is 20 to 100 ms ago; after a longer pause it only    *)
(* takes the time (platform.c 322 to 326), and the next one may read.      *)
FairSpec == Spec /\ WF_audioVars(gb300_audio_read)

-----------------------------------------------------------------------------
TypeOK ==
  /\ g_wav \in [Slot -> [used : BOOLEAN, raw : 0 .. MaxRaw, pcm : BOOLEAN,
                         channels : {1, 2}, pcmFrames : Nat, pos : Nat,
                         playing : BOOLEAN, midi : [nev : Nat, ev_i : Nat],
                         loopMidi : BOOLEAN]]
  /\ g_wav_raw_total \in 0 .. MaxRawTotal
  /\ g_wav_pcm_total \in 0 .. MaxPcm
  /\ java \in [Slot -> {"none", "loading", "failed", "ready", "started"}]
  /\ seeks \in 0 .. MaxSeeks
  /\ soundfont \in BOOLEAN
  /\ read \in [at : 0 .. Slots + 1, budget : 0 .. PerRead, synthUsed : BOOLEAN]

Total(f) ==
  LET sum[h \in 0 .. Slots] == IF h = 0 THEN 0 ELSE sum[h - 1] + f[h] IN sum[Slots]

(* Whatever is loaded, rendered, looped, closed and left in between: the   *)
(* buffers of all players together never exceed what is charged to the     *)
(* budget, nor that the budget; the raw data is accounted for exactly.     *)
BudgetKept ==
  /\ Total([h \in Slot |-> Samples(g_wav[h])]) <= g_wav_pcm_total
  /\ g_wav_pcm_total <= MaxPcm
  /\ Total([h \in Slot |-> g_wav[h].raw]) = g_wav_raw_total
  /\ g_wav_raw_total <= MaxRawTotal

(* Nothing is heard from a player that its game has stopped or closed, and *)
(* no buffer is read beyond its end.                                       *)
StoppedIsSilent ==
  \A h \in Slot :
    /\ g_wav[h].playing => g_wav[h].used /\ java[h] \in {"started", "none"}
    /\ g_wav[h].pos <= g_wav[h].pcmFrames
    /\ java[h] # "none" => g_wav[h].used

(* A sound that does not loop comes to its end, however often it is sought *)
(* (but not for ever).                                                     *)
OneShot(h) == Heard(g_wav[h]) /\ ~g_wav[h].loopMidi

SoundsEnd == \A h \in Slot : OneShot(h) ~> ~OneShot(h)

(* "Top up MIDI buffers for active players": of the tracks that play and   *)
(* have room for more, the one in the lowest slot is synthesised to its    *)
(* end, whatever the others take of the budget and of the synthesiser.     *)
Waiting(h) ==
  /\ Heard(g_wav[h]) /\ g_wav[h].midi # NoStream /\ ~Done(g_wav[h])
  /\ g_wav_pcm_total < MaxPcm /\ g_wav[h].pcmFrames < Cap

Turn(h) == Waiting(h) /\ \A k \in 1 .. h - 1 : ~Waiting(k)

TurnServed == \A h \in Slot : Turn(h) ~> ~Turn(h)

(* The same of every track.  It does not hold (MCAudioPlayersFluid.cfg):   *)
(* with the soundfont a track waits for ever for one of a lower slot that  *)
(* loops.                                                                  *)
TracksServed == \A h \in Slot : Waiting(h) ~> ~Waiting(h)

(* wav_topup_midi: "rewind if looping"; midi_stream_rewind: "Restart a     *)
(* finished stream so looping players can play again".  A track that loops *)
(* is synthesised to its end again each time, as long as it plays.         *)
Partial(h) == Heard(g_wav[h]) /\ g_wav[h].loopMidi /\ ~Done(g_wav[h])

LoopsWhole == \A h \in Slot : Partial(h) ~> ~Partial(h)
=============================================================================
