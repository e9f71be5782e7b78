------------------------- MODULE AudioPlayersProofs -------------------------
(***************************************************************************)
(* AudioPlayers for every number of players, every budget and all lengths: *)
(* what a game has stopped or closed is silent, and no buffer is read      *)
(* beyond its end.                                                         *)
(***************************************************************************)
EXTENDS AudioPlayers, WellFoundedInduction, NaturalsInduction, TLAPS

Player ==
  [used : BOOLEAN, raw : Nat, pcm : BOOLEAN, channels : {1, 2}, pcmFrames : Nat,
   pos : Nat, playing : BOOLEAN, midi : [nev : Nat, ev_i : Nat], loopMidi : BOOLEAN]

-----------------------------------------------------------------------------
(* The operators of the module on numbers and players. *)
LEMMA MinOfTwo ==
  ASSUME NEW a \in Int, NEW b \in Int
  PROVE  Min({a, b}) \in {a, b} /\ Min({a, b}) <= a /\ Min({a, b}) <= b
<1>1. \E x \in {a, b} : \A y \in {a, b} : x <= y
  <2>1. CASE a <= b
    BY <2>1
  <2>2. CASE b <= a
    BY <2>2
  <2> QED BY <2>1, <2>2
<1> QED BY <1>1 DEF Min

LEMMA MinOfNats ==
  ASSUME NEW a \in Nat, NEW b \in Nat
  PROVE  Min({a, b}) \in Nat
BY MinOfTwo

LEMMA MinOfThree ==
  ASSUME NEW a \in Int, NEW b \in Int, NEW c \in Int
  PROVE  Min({a, b, c}) \in Int /\ Min({a, b, c}) <= c
<1>1. \E x \in {a, b, c} : \A y \in {a, b, c} : x <= y
  <2>1. CASE a <= b /\ a <= c
    BY <2>1
  <2>2. CASE b <= a /\ b <= c
    BY <2>2
  <2>3. CASE c <= a /\ c <= b
    BY <2>3
  <2> QED BY <2>1, <2>2, <2>3
<1> QED BY <1>1 DEF Min

(* Rendering only makes a buffer longer, up to Cap. *)
LEMMA RenderProperties ==
  ASSUME NEW p \in Player, NEW n \in Int, NEW total \in Int, p.pcmFrames <= Cap
  PROVE  LET r == Render(p, n, total)
         IN  /\ r.p \in Player /\ r.total \in Int
             /\ p.pcmFrames <= r.p.pcmFrames /\ r.p.pcmFrames <= Cap
             /\ r.p.pos = p.pos /\ r.p.used = p.used /\ r.p.playing = p.playing
             /\ r.p.midi.nev = p.midi.nev /\ r.p.channels = p.channels
             /\ r.p.raw = p.raw
             /\ r.total = total + (r.p.pcmFrames - p.pcmFrames)
             /\ total <= MaxPcm => r.total <= MaxPcm
<1> DEFINE want == Min({p.pcmFrames + n, MaxPcm - total + p.pcmFrames})
           upto == Min({want, Cap})
           new  == upto - p.pcmFrames
           ev   == Min({p.midi.nev, p.midi.ev_i + new})
           q    == [p EXCEPT !.pcm = TRUE, !.pcmFrames = upto, !.midi.ev_i = ev]
           r    == Render(p, n, total)
<1>1. Cap \in Nat /\ MaxPcm \in Nat /\ p.pcmFrames \in Nat
      /\ p.midi.nev \in Nat /\ p.midi.ev_i \in Nat
  BY AudioAssumption DEF AudioAssumption, Player
<1>2. r = IF want <= p.pcmFrames THEN [ok |-> FALSE, p |-> p, total |-> total]
          ELSE [ok |-> TRUE, p |-> q, total |-> total + new]
  BY DEF Render
<1>3. want \in Int
  <2>1. p.pcmFrames + n \in Int /\ MaxPcm - total + p.pcmFrames \in Int
    BY <1>1
  <2> QED BY <2>1, MinOfTwo
<1>4. CASE want <= p.pcmFrames
  <2>1. r.p = p /\ r.total = total
    BY <1>2, <1>4
  <2> HIDE DEF r
  <2>2. p.pcmFrames <= p.pcmFrames /\ total + (p.pcmFrames - p.pcmFrames) = total
    BY <1>1
  <2> QED BY <2>1, <2>2 DEF r
<1>5. CASE want > p.pcmFrames
  <2> HIDE DEF want
  <2>1. upto \in Nat /\ p.pcmFrames <= upto /\ upto <= Cap
    BY <1>1, <1>3, <1>5, MinOfTwo
  <2> HIDE DEF upto
  <2>2. ev \in Nat
    <3>1. p.midi.nev \in Nat /\ p.midi.ev_i + new \in Nat
      BY <1>1, <2>1
    <3> QED BY <3>1, MinOfNats
  <2> HIDE DEF ev
  <2>3. /\ q \in Player /\ q.pcmFrames = upto
        /\ q.pos = p.pos /\ q.used = p.used /\ q.playing = p.playing
        /\ q.midi.nev = p.midi.nev /\ q.channels = p.channels /\ q.raw = p.raw
    BY <2>1, <2>2 DEF Player
  <2>4. r.p = q /\ r.total = total + (upto - p.pcmFrames)
    BY <1>2, <1>3, <1>5, <1>1
  <2>5. total <= MaxPcm => total + (upto - p.pcmFrames) <= MaxPcm
    <3>1. want <= MaxPcm - total + p.pcmFrames
      <4>1. p.pcmFrames + n \in Int /\ MaxPcm - total + p.pcmFrames \in Int
        BY <1>1
      <4> QED BY <4>1, MinOfTwo DEF want
    <3>2. upto <= want
      <4>1. want \in Int /\ Cap \in Int
        BY <1>1, <1>3
      <4> QED BY <4>1, MinOfTwo DEF upto
    <3> QED BY <3>1, <3>2, <2>1, <1>1, <1>3
  <2>6. total + (upto - p.pcmFrames) \in Int
    BY <2>1, <1>1
  <2> HIDE DEF q, r
  <2> QED BY <2>1, <2>3, <2>4, <2>5, <2>6 DEF r
<1> HIDE DEF want
<1> QED BY <1>1, <1>3, <1>4, <1>5

-----------------------------------------------------------------------------
(* A set of natural numbers that is not empty has a least element. *)
LEMMA LeastElement ==
  ASSUME NEW T, T \subseteq Nat, T # {}
  PROVE  \E n \in T : \A m \in T : n <= m
<1>1. PICK n \in T : \A m \in T : ~(<<m, n>> \in OpToRel(<, Nat))
  BY WFMin, NatLessThanWellFounded, Zenon
<1>2. ASSUME NEW m \in T PROVE n <= m
  <2>1. m \in Nat /\ n \in Nat
    OBVIOUS
  <2>2. ~(m < n)
    BY <1>1, <2>1, Zenon DEF OpToRel
  <2> QED BY <2>1, <2>2
<1> QED BY <1>2

(* What is in a set that has 0, and n + 1 whenever it has n: all numbers   *)
(* up to N.                                                                *)
LEMMA UpTo ==
  ASSUME NEW N \in Nat, NEW T, 0 \in T, \A n \in 1 .. N : n - 1 \in T => n \in T
  PROVE  0 .. N \subseteq T
<1> DEFINE U == (0 .. N) \ T
<1> SUFFICES ASSUME U # {} PROVE FALSE
  OBVIOUS
<1>1. PICK n \in U : \A m \in U : n <= m
  <2>1. U \subseteq Nat
    OBVIOUS
  <2> HIDE DEF U
  <2> QED BY <2>1, LeastElement
<1>2. n \in 1 .. N /\ n - 1 \in 0 .. N /\ ~(n <= n - 1)
  BY <1>1
<1> QED BY <1>1, <1>2

(* A recursion along 1..N over the values S has a solution. *)
Solvable(N, S, b, step) ==
  \E g \in [0 .. N -> S] : g[0] = b /\ \A i \in 1 .. N : g[i] = step[i][g[i - 1]]

LEMMA Recursion ==
  ASSUME NEW N \in Nat, NEW S, NEW b \in S, NEW step \in [1 .. N -> [S -> S]]
  PROVE  Solvable(N, S, b, step)
<1> DEFINE Solves(g, n) == g[0] = b /\ \A i \in 1 .. n : g[i] = step[i][g[i - 1]]
           T == {n \in 0 .. N : \E g \in [0 .. n -> S] : Solves(g, n)}
<1>1. 0 \in T
  <2> DEFINE g == [i \in 0 .. 0 |-> b]
  <2>1. g \in [0 .. 0 -> S] /\ Solves(g, 0)
    OBVIOUS
  <2>2. 0 \in 0 .. N
    OBVIOUS
  <2> HIDE DEF g, Solves
  <2> QED BY <2>1, <2>2
<1>2. ASSUME NEW n \in 1 .. N, n - 1 \in T PROVE n \in T
  <2>1. PICK g \in [0 .. n - 1 -> S] : Solves(g, n - 1)
    BY <1>2
  <2> DEFINE h == [i \in 0 .. n |-> IF i = n THEN step[n][g[n - 1]] ELSE g[i]]
  <2>2. \A i \in 0 .. n : i # n => i \in 0 .. n - 1
    OBVIOUS
  <2>3. n - 1 \in 0 .. n - 1 /\ step[n][g[n - 1]] \in S
    OBVIOUS
  <2>4. h \in [0 .. n -> S]
    BY <2>2, <2>3
  <2>5. h[0] = b
    BY <2>1
  <2>6. ASSUME NEW i \in 1 .. n PROVE h[i] = step[i][h[i - 1]]
    <3>1. i - 1 \in 0 .. n /\ i - 1 # n /\ h[i - 1] = g[i - 1]
      OBVIOUS
    <3>2. CASE i = n
      BY <3>1, <3>2
    <3>3. CASE i # n
      <4>1. i \in 1 .. n - 1 /\ h[i] = g[i]
        BY <3>3
      <4> QED BY <4>1, <3>1, <2>1
    <3> QED BY <3>2, <3>3
  <2> HIDE DEF h
  <2>7. Solves(h, n) /\ n \in 0 .. N
    BY <2>5, <2>6
  <2> QED BY <2>4, <2>7
<1>3. N \in T
  <2> HIDE DEF T
  <2>1. 0 .. N \subseteq T
    BY <1>1, <1>2, UpTo
  <2> QED BY <2>1
<1> QED BY <1>3 DEF Solvable

(* Total is a sum along the slots: where one value changes, it changes by  *)
(* as much.                                                                *)
Sums(f, g) ==
  g \in [0 .. Slots -> Nat] /\ g[0] = 0 /\ \A n \in Slot : g[n] = g[n - 1] + f[n]

LEMMA TotalIsSum ==
  ASSUME NEW f \in [Slot -> Nat]
  PROVE  \E g : Sums(f, g) /\ Total(f) = g[Slots]
<1>1. Slots \in Nat
  BY AudioAssumption DEF AudioAssumption
<1> DEFINE step == [n \in 1 .. Slots |-> [x \in Nat |-> x + f[n]]]
           Rule(g) == [n \in 0 .. Slots |-> IF n = 0 THEN 0 ELSE g[n - 1] + f[n]]
           T == CHOOSE g : g = Rule(g)
<1>2. step \in [1 .. Slots -> [Nat -> Nat]]
  <2>1. \A n \in 1 .. Slots : \A x \in Nat : x + f[n] \in Nat
    BY DEF Slot
  <2> QED BY <2>1
<1>3. PICK g \in [0 .. Slots -> Nat] :
        g[0] = 0 /\ \A n \in 1 .. Slots : g[n] = step[n][g[n - 1]]
  <2>1. PICK S, N, b, s : S = Nat /\ N = Slots /\ b = 0 /\ s = step
    OBVIOUS
  <2>2. N \in Nat /\ b \in S /\ s \in [1 .. N -> [S -> S]]
    BY <1>1, <1>2, <2>1
  <2>3. Solvable(N, S, b, s)
    BY <2>2, Recursion
  <2> HIDE DEF step
  <2> QED BY <2>1, <2>3 DEF Solvable
<1>4. \A n \in 1 .. Slots : g[n - 1] \in Nat /\ g[n] = g[n - 1] + f[n]
  <2>1. ASSUME NEW n \in 1 .. Slots PROVE g[n - 1] \in Nat /\ g[n] = g[n - 1] + f[n]
    <3>1. n - 1 \in 0 .. Slots
      BY <1>1
    <3>2. g[n - 1] \in Nat
      BY <3>1
    <3> QED BY <3>2, <1>3
  <2> QED BY <2>1
<1>5. g = Rule(g)
  <2>1. \A n \in 0 .. Slots : g[n] = Rule(g)[n]
    BY <1>1, <1>3, <1>4
  <2>2. Rule(g) = [n \in 0 .. Slots |-> Rule(g)[n]] /\ g = [n \in 0 .. Slots |-> g[n]]
    OBVIOUS
  <2> HIDE DEF Rule
  <2> QED BY <2>1, <2>2
<1>6. T = Rule(T)
  <2> HIDE DEF Rule
  <2> QED BY <1>5
<1>7. T[Slots] = g[Slots]
  <2> HIDE DEF T
  <2> DEFINE U == {n \in 0 .. Slots : T[n] = g[n]}
  <2>1. 0 \in U
    BY <1>1, <1>3, <1>6
  <2>2. ASSUME NEW n \in 1 .. Slots, n - 1 \in U PROVE n \in U
    <3>1. T[n] = T[n - 1] + f[n]
      BY <1>1, <1>6
    <3> QED BY <3>1, <2>2, <1>4
  <2>3. 0 .. Slots \subseteq U
    <3> HIDE DEF U
    <3> QED BY <1>1, <2>1, <2>2, UpTo
  <2> QED BY <1>1, <2>3
<1>8. Total(f) = T[Slots]
  BY DEF Total
<1>9. Sums(f, g)
  BY <1>3, <1>4 DEF Sums, Slot
<1> QED BY <1>7, <1>8, <1>9

LEMMA TotalUpdate ==
  ASSUME NEW f \in [Slot -> Nat], NEW e \in [Slot -> Nat], NEW h \in Slot,
         \A k \in Slot : k # h => e[k] = f[k]
  PROVE  Total(f) \in Nat /\ Total(e) \in Nat /\ Total(e) = Total(f) - f[h] + e[h]
<1>1. Slots \in Nat
  BY AudioAssumption DEF AudioAssumption
<1>2. PICK g : Sums(f, g) /\ Total(f) = g[Slots]
  BY TotalIsSum
<1>3. PICK d : Sums(e, d) /\ Total(e) = d[Slots]
  BY TotalIsSum
<1> DEFINE U == {n \in 0 .. Slots : d[n] = g[n] + IF h <= n THEN e[h] - f[h] ELSE 0}
<1>4. h \in 1 .. Slots /\ h \in Nat /\ f[h] \in Nat /\ e[h] \in Nat
  BY <1>1 DEF Slot
<1>5. 0 \in U
  BY <1>1, <1>2, <1>3, <1>4 DEF Sums
<1>6. ASSUME NEW n \in 1 .. Slots, n - 1 \in U PROVE n \in U
  <2>1. /\ g[n] = g[n - 1] + f[n] /\ d[n] = d[n - 1] + e[n]
        /\ g[n - 1] \in Nat /\ f[n] \in Nat /\ e[n] \in Nat /\ n \in Nat
    <3>1. n - 1 \in 0 .. Slots /\ n \in Slot /\ n \in Nat
      BY <1>1 DEF Slot
    <3> QED BY <3>1, <1>2, <1>3 DEF Sums
  <2>2. d[n - 1] = g[n - 1] + IF h <= n - 1 THEN e[h] - f[h] ELSE 0
    BY <1>6
  <2>3. n # h => e[n] = f[n]
    BY DEF Slot
  <2>4. d[n] = g[n] + IF h <= n THEN e[h] - f[h] ELSE 0
    <3>1. CASE n = h
      BY <3>1, <2>1, <2>2, <1>4
    <3>2. CASE n # h
      BY <3>2, <2>1, <2>2, <2>3, <1>4
    <3> QED BY <3>1, <3>2
  <2> QED BY <2>4
<1>7. Slots \in U
  <2> HIDE DEF U
  <2>1. 0 .. Slots \subseteq U
    BY <1>1, <1>5, <1>6, UpTo
  <2> QED BY <2>1, <1>1
<1>8. g[Slots] \in Nat /\ d[Slots] \in Nat
  BY <1>1, <1>2, <1>3 DEF Sums
<1> QED BY <1>1, <1>2, <1>3, <1>4, <1>7, <1>8

-----------------------------------------------------------------------------
(* The inductive invariant.  Sound: the position is in the buffer, and the *)
(* buffer of a track is not longer than Cap, without which rendering could *)
(* make it shorter.  Agrees: a player is as its Java player believes, and  *)
(* empty while it is loaded.                                               *)
Sound(p) ==
  /\ p.pos <= p.pcmFrames
  /\ p.midi # NoStream => p.pcmFrames <= Cap /\ p.channels = 1

Agrees(p, j) ==
  /\ p.playing => p.used /\ j \in {"started", "none"}
  /\ j # "none" => p.used
  /\ j = "loading" => p.pcmFrames = 0 /\ p.pos = 0 /\ p.midi = NoStream /\ ~p.playing

Good(p, j) == p \in Player /\ Sound(p) /\ Agrees(p, j)

IInv ==
  /\ g_wav_pcm_total \in Int
  /\ DOMAIN g_wav = Slot /\ g_wav = [h \in Slot |-> g_wav[h]]
  /\ java \in [Slot -> {"none", "loading", "failed", "ready", "started"}]
  /\ read \in [at : Nat, budget : Nat, synthUsed : BOOLEAN]
  /\ \A h \in Slot : Good(g_wav[h], java[h])

LEMMA UnusedIsGood == Good(Unused, "none")
  BY DEF Good, Sound, Agrees, Player, Unused, NoStream

(* One player and its Java player change. *)
LEMMA OneChanges ==
  ASSUME IInv, NEW h \in Slot, NEW p,
         NEW j \in {"none", "loading", "failed", "ready", "started"},
         Good(p, j),
         g_wav' = [g_wav EXCEPT ![h] = p], java' = [java EXCEPT ![h] = j],
         g_wav_pcm_total' \in Int, read' = read
  PROVE  IInv'
<1>1. \A k \in Slot : g_wav'[k] = (IF k = h THEN p ELSE g_wav[k])
                      /\ java'[k] = (IF k = h THEN j ELSE java[k])
  BY DEF IInv
<1>2. \A k \in Slot : Good(g_wav'[k], java'[k])
  BY <1>1 DEF IInv
<1> QED BY <1>2 DEF IInv, Good

LEMMA InitIInv == Init => IInv
<1> SUFFICES ASSUME Init PROVE IInv
  OBVIOUS
<1>1. \A h \in Slot : g_wav[h] = Unused /\ java[h] = "none"
  BY DEF Init
<1>2. \A h \in Slot : Good(g_wav[h], java[h])
  BY <1>1, UnusedIsGood
<1> QED BY <1>2 DEF Init, IInv, NotReading

-----------------------------------------------------------------------------
(* Unloading gives back a whole number of samples. *)
LEMMA UnloadTotals ==
  ASSUME IInv, NEW h \in Slot, wav_unload(h)
  PROVE  g_wav_pcm_total' \in Int
<1>1. g_wav[h].pcmFrames \in Nat /\ g_wav[h].channels \in {1, 2}
  BY DEF IInv, Good, Player
<1>2. Samples(g_wav[h]) \in Int
  <2>1. CASE g_wav[h].channels = 1
    BY <1>1, <2>1 DEF Samples
  <2>2. CASE g_wav[h].channels = 2
    BY <1>1, <2>2 DEF Samples
  <2> QED BY <1>1, <2>1, <2>2
<1> QED BY <1>2 DEF wav_unload, IInv

LEMMA InitKeepsIInv == IInv /\ nInit => IInv'
<1> SUFFICES ASSUME IInv, nInit PROVE IInv'
  OBVIOUS
<1> DEFINE p == [Unused EXCEPT !.used = TRUE]
<1>1. PICK h \in Slot :
        wav_unload(h) /\ g_wav' = [g_wav EXCEPT ![h] = p] /\ Goes(h, {"none"}, "loading")
  BY DEF nInit
<1>2. Good(p, "loading")
  <2>1. p \in Player
    BY DEF Player, Unused, NoStream
  <2>2. p.used /\ ~p.playing /\ p.pcmFrames = 0 /\ p.pos = 0 /\ p.midi = NoStream
    BY DEF Unused
  <2> HIDE DEF p
  <2> QED BY <2>1, <2>2 DEF Good, Sound, Agrees
<1>3. g_wav_pcm_total' \in Int
  BY <1>1, UnloadTotals
<1> HIDE DEF p
<1> QED BY <1>1, <1>2, <1>3, OneChanges DEF Goes

LEMMA BufferingKeepsIInv ==
  ASSUME IInv, NEW h \in Slot, nBuffering(h)
  PROVE  IInv'
<1> DEFINE p == [g_wav[h] EXCEPT !.raw = @ + 1]
<1>1. Good(g_wav[h], "loading")
  BY DEF IInv, nBuffering, Goes
<1>2. Good(p, "loading")
  BY <1>1 DEF Good, Sound, Agrees, Player
<1>3. g_wav' = [g_wav EXCEPT ![h] = p]
  BY DEF nBuffering
<1>4. g_wav_pcm_total' \in Int /\ Goes(h, {"loading"}, "loading")
  BY DEF nBuffering, IInv
<1> HIDE DEF p
<1> QED BY <1>2, <1>3, <1>4, OneChanges DEF Goes

(* What is rendered of a track when it is loaded. *)
FirstFrames(nev) ==
  IF TotalFrames(nev) > 0 THEN Min({Prefix, TotalFrames(nev)}) ELSE Prefix

LEMMA FirstFramesInt ==
  ASSUME NEW nev \in Nat
  PROVE  FirstFrames(nev) \in Int
<1>1. Second \in Nat \ {0} /\ Prefix \in Int
  BY AudioAssumption DEF AudioAssumption
<1>2. TotalFrames(nev) \in Int
  BY <1>1 DEF TotalFrames
<1> QED BY <1>1, <1>2, MinOfTwo DEF FirstFrames

(* What an empty player may hold when its data has come to its end. *)
LEMMA ContentIsGood ==
  ASSUME IInv, NEW p, Good(p, "loading"), NEW q \in Content(p)
  PROVE  q \in Player /\ Sound(q) /\ q.used /\ ~q.playing
<1>1. p \in Player /\ p.pcmFrames = 0 /\ p.pos = 0 /\ p.midi = NoStream
      /\ p.used /\ ~p.playing
  BY DEF Good, Agrees
<1>2. MaxPcm \in Nat /\ Cap \in Nat /\ Prefix \in Nat /\ g_wav_pcm_total \in Int
  BY AudioAssumption DEF AudioAssumption, IInv
<1>3. CASE q = p
  BY <1>1, <1>2, <1>3 DEF Sound, Player
<1>4. CASE \E f \in Waves : q = Decoded(p, f)
  <2>1. PICK f \in Waves : q = Decoded(p, f)
    BY <1>4
  <2> DEFINE rest == (MaxPcm - g_wav_pcm_total) \div 2
             out  == Min({f, rest})
  <2>2. f \in Int /\ rest \in Int
    BY <1>2, AudioAssumption DEF AudioAssumption
  <2> HIDE DEF rest
  <2>3. out \in Int
    BY <2>2, MinOfTwo
  <2>4. q = IF out <= 0 THEN p
            ELSE [p EXCEPT !.pcm = TRUE, !.pcmFrames = out, !.channels = 2]
    BY <2>1 DEF Decoded, rest
  <2> HIDE DEF out
  <2>5. CASE out <= 0
    BY <2>4, <2>5, <1>3
  <2>6. CASE out > 0
    <3>1. q = [p EXCEPT !.pcm = TRUE, !.pcmFrames = out, !.channels = 2]
      BY <2>3, <2>4, <2>6
    <3>2. q \in Player
      <4>1. out \in Nat /\ p \in Player
        BY <2>3, <2>6, <1>1
      <4> QED BY <3>1, <4>1 DEF Player
    <3>3. /\ q.pcmFrames = out /\ q.pos = 0 /\ q.midi = NoStream
          /\ q.used = p.used /\ q.playing = p.playing
      BY <3>1, <1>1 DEF Player
    <3> QED BY <3>2, <3>3, <2>3, <2>6, <1>1 DEF Sound
  <2> QED BY <2>3, <2>5, <2>6
<1>5. CASE \E nev \in Tracks : q = Opened(p, nev)
  <2>1. PICK nev \in Tracks : q = Opened(p, nev)
    BY <1>5
  <2> DEFINE s == [p EXCEPT !.midi = [nev |-> nev, ev_i |-> 0], !.channels = 1]
             n == FirstFrames(nev)
             o == Render(s, n, g_wav_pcm_total).p
  <2>2. nev \in Nat
    BY AudioAssumption DEF AudioAssumption
  <2>3. /\ s \in Player /\ s.pcmFrames = 0 /\ s.pos = 0 /\ s.used /\ ~s.playing
        /\ s.channels = 1
    BY <1>1, <2>2 DEF Player
  <2>4. n \in Int
    BY <2>2, FirstFramesInt
  <2>5. q = [o EXCEPT !.loopMidi = TotalFrames(nev) > o.pcmFrames]
    BY <2>1 DEF Opened, FirstFrames
  <2> HIDE DEF s, n
  <2>6. /\ o \in Player /\ 0 <= o.pcmFrames /\ o.pcmFrames <= Cap
        /\ o.pos = 0 /\ o.used /\ ~o.playing /\ o.channels = 1
    <3>1. s.pcmFrames <= Cap
      BY <1>2, <2>3
    <3> QED BY <3>1, <2>3, <2>4, <1>2, RenderProperties
  <2> HIDE DEF o
  <2> QED BY <2>5, <2>6 DEF Sound, Player
<1> QED BY <1>3, <1>4, <1>5 DEF Content

LEMMA BufferingEndKeepsIInv ==
  ASSUME IInv, NEW h \in Slot, nBufferingEnd(h)
  PROVE  IInv'
<1>1. Good(g_wav[h], "loading")
  BY DEF IInv, nBufferingEnd, Goes
<1>2. PICK q \in Content(g_wav[h]) :
        /\ g_wav' = [g_wav EXCEPT ![h] = [q EXCEPT !.raw = 0]]
        /\ g_wav_pcm_total' = g_wav_pcm_total + Samples(q)
  BY DEF nBufferingEnd
<1>3. q \in Player /\ Sound(q) /\ q.used /\ ~q.playing
  BY <1>1, <1>2, ContentIsGood
<1> DEFINE p == [q EXCEPT !.raw = 0]
<1>4. Good(p, "ready")
  BY <1>3 DEF Good, Sound, Agrees, Player
<1>5. Samples(q) \in Int
  <2>1. q.pcmFrames \in Nat /\ q.channels \in {1, 2}
    BY <1>3 DEF Player
  <2>2. CASE q.channels = 1
    BY <2>1, <2>2 DEF Samples
  <2>3. CASE q.channels = 2
    BY <2>1, <2>3 DEF Samples
  <2> QED BY <2>1, <2>2, <2>3
<1>6. g_wav_pcm_total' \in Int
  BY <1>2, <1>5 DEF IInv
<1>7. g_wav' = [g_wav EXCEPT ![h] = p] /\ Goes(h, {"loading"}, "ready")
  BY <1>2 DEF nBufferingEnd
<1> HIDE DEF p
<1> QED BY <1>4, <1>6, <1>7, OneChanges DEF Goes

-----------------------------------------------------------------------------
(* The calls of a game on a player that is loaded. *)
LEMMA FailKeepsIInv ==
  ASSUME IInv, NEW h \in Slot, LoadFails(h)
  PROVE  IInv'
<1>1. Good(g_wav[h], "loading")
  BY DEF IInv, LoadFails, Goes
<1>2. Good(g_wav[h], "failed")
  BY <1>1 DEF Good, Agrees
<1>3. g_wav' = [g_wav EXCEPT ![h] = g_wav[h]]
  BY DEF IInv, LoadFails
<1> QED BY <1>2, <1>3, OneChanges DEF LoadFails, Goes, IInv, totals

LEMMA StartKeepsIInv ==
  ASSUME IInv, NEW h \in Slot, start(h)
  PROVE  IInv'
<1> DEFINE p == [g_wav[h] EXCEPT !.playing = TRUE, !.pos = 0]
<1>1. Good(g_wav[h], "ready")
  BY DEF IInv, start, Goes
<1>2. Good(p, "started")
  <2>1. g_wav[h] \in Player /\ g_wav[h].used /\ Sound(g_wav[h])
    BY <1>1 DEF Good, Agrees
  <2>2. /\ p \in Player /\ p.pos = 0 /\ p.used /\ p.playing = TRUE
        /\ p.pcmFrames = g_wav[h].pcmFrames /\ p.midi = g_wav[h].midi
        /\ p.channels = g_wav[h].channels
    BY <2>1 DEF Player
  <2>3. p.pcmFrames \in Nat
    BY <2>2 DEF Player
  <2> HIDE DEF p
  <2> QED BY <2>1, <2>2, <2>3 DEF Good, Sound, Agrees
<1>3. g_wav' = [g_wav EXCEPT ![h] = p]
  BY DEF start
<1> HIDE DEF p
<1> QED BY <1>2, <1>3, OneChanges DEF start, Goes, IInv, totals

LEMMA StopKeepsIInv ==
  ASSUME IInv, NEW h \in Slot, stop(h)
  PROVE  IInv'
<1> DEFINE p == [g_wav[h] EXCEPT !.playing = FALSE, !.pos = 0]
<1>1. Good(g_wav[h], "started")
  BY DEF IInv, stop, Goes
<1>2. Good(p, "ready")
  <2>1. g_wav[h] \in Player /\ g_wav[h].used /\ Sound(g_wav[h])
    BY <1>1 DEF Good, Agrees
  <2>2. /\ p \in Player /\ p.pos = 0 /\ p.used /\ p.playing = FALSE
        /\ p.pcmFrames = g_wav[h].pcmFrames /\ p.midi = g_wav[h].midi
        /\ p.channels = g_wav[h].channels
    BY <2>1 DEF Player
  <2>3. p.pcmFrames \in Nat
    BY <2>2 DEF Player
  <2> HIDE DEF p
  <2> QED BY <2>1, <2>2, <2>3 DEF Good, Sound, Agrees
<1>3. g_wav' = [g_wav EXCEPT ![h] = p]
  BY DEF stop
<1> HIDE DEF p
<1> QED BY <1>2, <1>3, OneChanges DEF stop, Goes, IInv, totals

LEMMA SeekKeepsIInv ==
  ASSUME IInv, NEW h \in Slot, setMediaTime(h)
  PROVE  IInv'
<1>1. PICK t \in 0 .. g_wav[h].pcmFrames : g_wav' = [g_wav EXCEPT ![h].pos = t]
  BY DEF setMediaTime
<1> DEFINE p == [g_wav[h] EXCEPT !.pos = t]
<1>2. Good(g_wav[h], java[h]) /\ java[h] # "loading"
  BY DEF IInv, setMediaTime
<1>3. Good(p, java[h])
  BY <1>1, <1>2 DEF Good, Sound, Agrees, Player
<1>4. g_wav' = [g_wav EXCEPT ![h] = p] /\ java' = [java EXCEPT ![h] = java[h]]
  BY <1>1 DEF setMediaTime, IInv
<1>5. java[h] \in {"none", "loading", "failed", "ready", "started"}
  BY DEF IInv
<1> HIDE DEF p
<1> QED BY <1>3, <1>4, <1>5, OneChanges DEF setMediaTime, IInv, totals

LEMMA CloseKeepsIInv ==
  ASSUME IInv, NEW h \in Slot, close(h)
  PROVE  IInv'
<1>1. g_wav' = [g_wav EXCEPT ![h] = Unused]
  BY DEF close, Termed
<1>2. g_wav_pcm_total' \in Int
  BY UnloadTotals DEF close
<1> QED BY <1>1, <1>2, UnusedIsGood, OneChanges DEF close, Goes

LEMMA GameEndsKeepsIInv == IInv /\ GameEnds => IInv'
<1> SUFFICES ASSUME IInv, GameEnds PROVE IInv'
  OBVIOUS
<1>1. \A h \in Slot : g_wav'[h] = g_wav[h] /\ java'[h] = "none"
  BY DEF GameEnds
<1>2. \A h \in Slot : Good(g_wav'[h], java'[h])
  BY <1>1 DEF IInv, Good, Agrees
<1> QED BY <1>2 DEF GameEnds, IInv, totals

-----------------------------------------------------------------------------
(* A read touches the position and the buffer of players that play. *)
LEMMA RewoundIsGood ==
  ASSUME NEW p, NEW j, Good(p, j), p.playing
  PROVE  /\ Good(Rewound(p), j)
         /\ Rewound(p).playing /\ Rewound(p).midi.nev = p.midi.nev
         /\ p.midi # NoStream => Rewound(p).pcmFrames <= Cap
         /\ Rewound(p).raw = p.raw /\ Rewound(p).channels = p.channels
         /\ Rewound(p).pcmFrames \in {0, p.pcmFrames}
<1>1. p \in Player /\ Cap \in Nat
  BY AudioAssumption DEF AudioAssumption, Good
<1> DEFINE q == [p EXCEPT !.midi.ev_i = 0, !.pcmFrames = 0, !.pos = 0]
<1>2. /\ q \in Player /\ q.pcmFrames = 0 /\ q.pos = 0 /\ q.playing = p.playing
      /\ q.used = p.used /\ q.midi.nev = p.midi.nev
      /\ q.raw = p.raw /\ q.channels = p.channels
  BY <1>1 DEF Player
<1>3. Rewound(p) = q \/ Rewound(p) = p
  BY DEF Rewound
<1> HIDE DEF q
<1>4. j # "loading" /\ (p.midi = NoStream => q.midi = NoStream)
  BY <1>1 DEF Good, Agrees, Player, NoStream, q
<1>5. Good(q, j)
  BY <1>1, <1>2, <1>4 DEF Good, Sound, Agrees
<1>6. CASE Rewound(p) = q
  <2>1. Good(q, j) /\ q.playing /\ q.midi.nev = p.midi.nev /\ q.pcmFrames <= Cap
        /\ q.raw = p.raw /\ q.channels = p.channels /\ q.pcmFrames \in {0, p.pcmFrames}
    BY <1>1, <1>2, <1>5
  <2> QED BY <1>6, <2>1
<1>7. CASE Rewound(p) = p
  <2>1. p.midi # NoStream => p.pcmFrames <= Cap
    BY DEF Good, Sound
  <2> QED BY <1>7, <2>1
<1> QED BY <1>3, <1>6, <1>7

(* The player a read has come to changes, in a way its Java player does    *)
(* not see.                                                                *)
LEMMA ReadChangesOne ==
  ASSUME IInv, NEW h \in Slot, NEW p, Good(p, java[h]),
         g_wav' = [g_wav EXCEPT ![h] = p], java' = java,
         g_wav_pcm_total' \in Int,
         read' \in [at : Nat, budget : Nat, synthUsed : BOOLEAN]
  PROVE  IInv'
<1>1. \A k \in Slot : g_wav'[k] = (IF k = h THEN p ELSE g_wav[k])
  BY DEF IInv
<1>2. \A k \in Slot : Good(g_wav'[k], java'[k])
  BY <1>1 DEF IInv
<1> QED BY <1>2 DEF IInv

LEMMA TopupKeepsIInv == IInv /\ wav_topup_midi => IInv'
<1> SUFFICES ASSUME IInv, wav_topup_midi PROVE IInv'
  OBVIOUS
<1> DEFINE h     == read.at
           p     == Rewound(g_wav[h])
           n     == Min({Ahead - (p.pcmFrames - p.pos), Chunk, read.budget})
           more  == Render(p, n, g_wav_pcm_total)
           plays == /\ p.used /\ p.playing /\ p.midi # NoStream /\ p.pcm
<1>1. h \in Slot /\ Good(g_wav[h], java[h]) /\ java' = java
  BY DEF wav_topup_midi, IInv
<1>2. Ahead \in Nat /\ Chunk \in Nat /\ Cap \in Nat /\ Slots \in Nat
  BY AudioAssumption DEF AudioAssumption
<1>3. h \in Nat /\ read.budget \in Nat /\ read.synthUsed \in BOOLEAN
  BY DEF IInv
<1>4. plays => g_wav[h].playing
  BY DEF Rewound
<1>5. CASE /\ plays
           /\ g_wav' = [g_wav EXCEPT ![h] = more.p]
           /\ g_wav_pcm_total' = more.total
           /\ read' = [at |-> h + 1, budget |-> read.budget - n, synthUsed |-> TRUE]
  <2>1. Good(p, java[h]) /\ p.playing /\ p.midi # NoStream
    BY <1>1, <1>4, <1>5, RewoundIsGood
  <2>2. p \in Player /\ p.pcmFrames <= Cap /\ p.pcmFrames \in Nat /\ p.pos \in Nat
    BY <2>1 DEF Good, Sound, Player
  <2>3. n \in Int /\ n <= read.budget
    <3>1. Ahead - (p.pcmFrames - p.pos) \in Int /\ Chunk \in Int /\ read.budget \in Int
      BY <2>2, <1>2, <1>3
    <3> QED BY <3>1, MinOfThree
  <2> HIDE DEF n, p
  <2>4. /\ more.p \in Player /\ more.total \in Int
        /\ p.pcmFrames <= more.p.pcmFrames /\ more.p.pcmFrames <= Cap
        /\ more.p.pos = p.pos /\ more.p.used = p.used /\ more.p.playing = p.playing
        /\ more.p.channels = p.channels
    BY <2>2, <2>3, RenderProperties DEF IInv
  <2> HIDE DEF more
  <2>5. Good(more.p, java[h])
    <3>1. java[h] # "loading"
      BY <2>1 DEF Good, Agrees
    <3>2. p.pos <= more.p.pcmFrames
      <4>1. p.pos <= p.pcmFrames /\ more.p.pcmFrames \in Nat
        BY <2>1, <2>4 DEF Good, Sound, Player
      <4> QED BY <4>1, <2>2, <2>4
    <3> QED BY <3>1, <3>2, <2>1, <2>4 DEF Good, Sound, Agrees
  <2>6. read.budget - n \in Nat /\ h + 1 \in Nat
    BY <2>3, <1>3
  <2> HIDE DEF h
  <2>7. read' \in [at : Nat, budget : Nat, synthUsed : BOOLEAN]
    BY <2>6, <1>5
  <2> QED BY <1>1, <1>5, <2>4, <2>5, <2>7, ReadChangesOne
<1>6. CASE /\ g_wav' = [g_wav EXCEPT ![h] = IF plays THEN p ELSE @]
           /\ read' = [read EXCEPT !.at = h + 1]
           /\ g_wav_pcm_total' = g_wav_pcm_total
  <2> DEFINE q == IF plays THEN p ELSE g_wav[h]
  <2>1. Good(q, java[h])
    BY <1>1, <1>4, RewoundIsGood
  <2>2. g_wav' = [g_wav EXCEPT ![h] = q]
    BY <1>6
  <2>3. read' \in [at : Nat, budget : Nat, synthUsed : BOOLEAN]
    BY <1>3, <1>6 DEF IInv
  <2>4. g_wav_pcm_total' \in Int
    BY <1>6 DEF IInv
  <2> HIDE DEF q
  <2> QED BY <1>1, <2>1, <2>2, <2>3, <2>4, ReadChangesOne
<1> QED BY <1>5, <1>6 DEF wav_topup_midi

LEMMA MixedIsGood ==
  ASSUME NEW p, NEW j, Good(p, j)
  PROVE  Good(Mixed(p), j)
<1>1. p \in Player /\ p.pos \in Nat /\ p.pcmFrames \in Nat /\ p.pos <= p.pcmFrames
  BY DEF Good, Sound, Player
<1> DEFINE e(q) == [q EXCEPT !.playing = FALSE, !.pos = 0]
           z    == [p EXCEPT !.pos = 0]
           a(x) == [p EXCEPT !.pos = x]
<1>2. Good(e(p), j)
  <2>1. /\ e(p) \in Player /\ e(p).pos = 0 /\ ~e(p).playing
        /\ e(p).pcmFrames = p.pcmFrames /\ e(p).midi = p.midi /\ e(p).used = p.used
        /\ e(p).channels = p.channels
    BY <1>1 DEF Player
  <2> HIDE DEF e
  <2> QED BY <2>1, <1>1 DEF Good, Sound, Agrees
<1>3. ASSUME NEW x \in Nat, x <= p.pcmFrames PROVE Good(a(x), j) \/ j = "loading"
  BY <1>3 DEF Good, Sound, Agrees, Player
<1>4. CASE ~Heard(p)
  BY <1>4 DEF Mixed
<1>5. CASE Heard(p) /\ p.pos >= p.pcmFrames /\ (p.midi = NoStream \/ ~p.loopMidi)
  BY <1>2, <1>5 DEF Mixed, Ended
<1>6. CASE Heard(p) /\ ~(p.pos >= p.pcmFrames /\ (p.midi = NoStream \/ ~p.loopMidi))
  <2>1. j # "loading"
    BY <1>6 DEF Good, Agrees, Heard
  <2> DEFINE x == IF p.pos >= p.pcmFrames THEN 0 ELSE p.pos
             q == IF p.pos >= p.pcmFrames THEN z ELSE p
  <2>2. x \in Nat /\ q = a(x)
    BY <1>1 DEF Player
  <2>3. /\ q.pos = x /\ q.pcmFrames = p.pcmFrames /\ x <= p.pcmFrames
        /\ [q EXCEPT !.pos = x + 1] = a(x + 1) /\ e(q) = e(p)
    <3>1. q.pos = x /\ q.pcmFrames = p.pcmFrames
      BY <1>1 DEF Player
    <3>2. x <= p.pcmFrames
      BY <1>1
    <3>3. [q EXCEPT !.pos = x + 1] = a(x + 1) /\ e(q) = e(p)
      <4>1. CASE p.pos >= p.pcmFrames
        BY <4>1, <1>1 DEF Player
      <4>2. CASE ~(p.pos >= p.pcmFrames)
        BY <4>2
      <4> QED BY <4>1, <4>2
    <3> QED BY <3>1, <3>2, <3>3
  <2>4. Mixed(p) = IF q.pos < q.pcmFrames THEN Played(q, q.pos + 1) ELSE q
    BY <1>6 DEF Mixed, Heard
  <2>5. Played(q, x + 1) \in {e(p), a(x + 1)}
    BY <2>3 DEF Played, Ended
  <2>6. Good(a(x), j)
    BY <1>3, <2>1, <2>2, <2>3
  <2>7. x < p.pcmFrames => Good(a(x + 1), j)
    <3>1. ASSUME x < p.pcmFrames PROVE x + 1 \in Nat /\ x + 1 <= p.pcmFrames
      BY <3>1, <2>2, <1>1
    <3> QED BY <3>1, <1>3, <2>1
  <2> HIDE DEF x, q, a, e
  <2> QED BY <1>2, <2>2, <2>3, <2>4, <2>5, <2>6, <2>7
<1> QED BY <1>4, <1>5, <1>6

LEMMA ReadKeepsIInv == IInv /\ gb300_audio_read => IInv'
<1> SUFFICES ASSUME IInv, gb300_audio_read PROVE IInv'
  OBVIOUS
<1>1. CASE ReadBegins
  <2>1. PerRead \in Nat
    BY AudioAssumption DEF AudioAssumption
  <2> QED BY <1>1, <2>1 DEF ReadBegins, IInv, totals
<1>2. CASE wav_topup_midi
  BY <1>2, TopupKeepsIInv
<1>3. CASE wav_mix_frame
  <2>1. /\ g_wav' = [k \in Slot |-> Mixed(g_wav[k])]
        /\ java' = java /\ g_wav_pcm_total' = g_wav_pcm_total /\ read' = NotReading
    BY <1>3 DEF wav_mix_frame, totals
  <2>2. \A k \in Slot : Good(g_wav'[k], java'[k])
    BY <2>1, MixedIsGood DEF IInv
  <2>3. DOMAIN g_wav' = Slot /\ g_wav' = [k \in Slot |-> g_wav'[k]]
    BY <2>1
  <2> QED BY <2>1, <2>2, <2>3 DEF IInv, NotReading
<1> QED BY <1>1, <1>2, <1>3 DEF gb300_audio_read

-----------------------------------------------------------------------------
(* The budgets.  What a step charges or gives back is what it changes in   *)
(* the one player it touches.                                              *)
LEMMA SamplesAreNat ==
  ASSUME NEW p \in Player
  PROVE  /\ Samples(p) \in Nat /\ p.raw \in Nat
         /\ p.channels = 1 => Samples(p) = p.pcmFrames
         /\ p.channels = 2 => Samples(p) = p.pcmFrames + p.pcmFrames
         /\ p.pcmFrames = 0 => Samples(p) = 0
<1>1. p.pcmFrames \in Nat /\ p.channels \in {1, 2} /\ p.raw \in Nat
  BY DEF Player
<1>2. CASE p.channels = 1
  BY <1>1, <1>2 DEF Samples
<1>3. CASE p.channels = 2
  BY <1>1, <1>3 DEF Samples
<1> QED BY <1>1, <1>2, <1>3

Raws == [h \in Slot |-> g_wav[h].raw]
Pcms == [h \in Slot |-> Samples(g_wav[h])]

LEMMA TotalsChange ==
  ASSUME IInv, NEW h \in Slot, NEW p \in Player, g_wav' = [g_wav EXCEPT ![h] = p]
  PROVE  /\ Total(Raws) \in Nat /\ Total(Pcms) \in Nat
         /\ Total(Raws') = Total(Raws) - g_wav[h].raw + p.raw
         /\ Total(Pcms') = Total(Pcms) - Samples(g_wav[h]) + Samples(p)
<1>1. \A k \in Slot : g_wav[k] \in Player /\ g_wav'[k] = IF k = h THEN p ELSE g_wav[k]
  BY DEF IInv, Good
<1>2. PICK r, s : r = Raws' /\ s = Pcms'
  OBVIOUS
<1>3. r = [k \in Slot |-> g_wav'[k].raw] /\ s = [k \in Slot |-> Samples(g_wav'[k])]
  BY <1>2 DEF Raws, Pcms, Samples
<1>4. Raws \in [Slot -> Nat] /\ r \in [Slot -> Nat]
  BY <1>1, <1>3, SamplesAreNat DEF Raws
<1>5. Pcms \in [Slot -> Nat] /\ s \in [Slot -> Nat]
  BY <1>1, <1>3, SamplesAreNat DEF Pcms
<1>6. \A k \in Slot : k # h => r[k] = Raws[k] /\ s[k] = Pcms[k]
  BY <1>1, <1>3 DEF Raws, Pcms
<1>7. /\ r[h] = p.raw /\ Raws[h] = g_wav[h].raw
      /\ s[h] = Samples(p) /\ Pcms[h] = Samples(g_wav[h])
  BY <1>1, <1>3 DEF Raws, Pcms
<1>8. Total(Raws) \in Nat /\ Total(r) = Total(Raws) - Raws[h] + r[h]
  BY <1>4, <1>6, TotalUpdate
<1>9. Total(Pcms) \in Nat /\ Total(s) = Total(Pcms) - Pcms[h] + s[h]
  BY <1>5, <1>6, TotalUpdate
<1> HIDE DEF Raws, Pcms
<1> QED BY <1>2, <1>7, <1>8, <1>9

Budget ==
  /\ Total(Raws) = g_wav_raw_total /\ g_wav_raw_total <= MaxRawTotal
  /\ Total(Pcms) <= g_wav_pcm_total /\ g_wav_pcm_total <= MaxPcm

(* A player becomes p: the raw data changes by as much as the total, the   *)
(* samples by no more.                                                     *)
LEMMA BudgetStep ==
  ASSUME IInv, Budget, NEW h \in Slot, NEW p \in Player, g_wav' = [g_wav EXCEPT ![h] = p],
         NEW d \in Int, g_wav_raw_total' = g_wav_raw_total + d,
         p.raw = g_wav[h].raw + d, g_wav_raw_total' <= MaxRawTotal,
         NEW c \in Int, g_wav_pcm_total' = g_wav_pcm_total + c,
         Samples(p) <= Samples(g_wav[h]) + c, g_wav_pcm_total' <= MaxPcm
  PROVE  Budget'
<1>1. g_wav[h] \in Player /\ g_wav_pcm_total \in Int
  BY DEF IInv, Good
<1>2. /\ Samples(p) \in Nat /\ Samples(g_wav[h]) \in Nat
      /\ p.raw \in Nat /\ g_wav[h].raw \in Nat
  BY <1>1, SamplesAreNat
<1>3. /\ Total(Raws) \in Nat /\ Total(Pcms) \in Nat
      /\ Total(Raws') = Total(Raws) - g_wav[h].raw + p.raw
      /\ Total(Pcms') = Total(Pcms) - Samples(g_wav[h]) + Samples(p)
  BY TotalsChange
<1>4. Total(Raws') = g_wav_raw_total' /\ Total(Pcms') <= g_wav_pcm_total'
  BY <1>1, <1>2, <1>3 DEF Budget
<1>5. Total(Raws)' = Total(Raws') /\ Total(Pcms)' = Total(Pcms')
  BY DEF Total
<1> QED BY <1>4, <1>5 DEF Budget

LEMMA SameBudget ==
  ASSUME Budget, Raws' = Raws, Pcms' = Pcms, UNCHANGED totals
  PROVE  Budget'
<1>1. Total(Raws)' = Total(Raws) /\ Total(Pcms)' = Total(Pcms)
  BY DEF Total
<1> QED BY <1>1 DEF Budget, totals

LEMMA BudgetFacts ==
  ASSUME IInv, Budget
  PROVE  /\ g_wav_pcm_total \in Int /\ g_wav_pcm_total <= MaxPcm /\ MaxPcm \in Nat
         /\ g_wav_raw_total <= MaxRawTotal /\ MaxRawTotal \in Nat
         /\ \A h \in Slot : /\ g_wav_raw_total \in Nat
                            /\ g_wav[h] \in Player
                            /\ Samples(g_wav[h]) \in Nat /\ g_wav[h].raw \in Nat
<1>1. MaxPcm \in Nat /\ MaxRawTotal \in Nat
  BY AudioAssumption DEF AudioAssumption
<1>2. ASSUME NEW h \in Slot
      PROVE  /\ g_wav_raw_total \in Nat /\ g_wav[h] \in Player
             /\ Samples(g_wav[h]) \in Nat /\ g_wav[h].raw \in Nat
  <2>1. g_wav[h] \in Player
    BY DEF IInv, Good
  <2>2. Raws \in [Slot -> Nat]
    BY SamplesAreNat DEF IInv, Good, Raws
  <2>3. Total(Raws) \in Nat
    BY <2>2, TotalUpdate
  <2> QED BY <2>1, <2>3, SamplesAreNat DEF Budget
<1> QED BY <1>1, <1>2 DEF Budget, IInv

(* Unloading a player gives back all it holds. *)
LEMMA UnloadBudget ==
  ASSUME IInv, Budget, NEW h \in Slot, wav_unload(h), NEW p \in Player,
         g_wav' = [g_wav EXCEPT ![h] = p], p.raw = 0, p.pcmFrames = 0
  PROVE  Budget'
<1>1. PICK a, b : a = g_wav[h].raw /\ b = Samples(g_wav[h])
  OBVIOUS
<1>2. /\ a \in Nat /\ b \in Nat /\ Samples(p) = 0
      /\ g_wav_raw_total \in Nat /\ g_wav_raw_total <= MaxRawTotal /\ MaxRawTotal \in Nat
      /\ g_wav_pcm_total \in Int /\ g_wav_pcm_total <= MaxPcm /\ MaxPcm \in Nat
  BY <1>1, BudgetFacts, SamplesAreNat
<1>3. g_wav_raw_total' = g_wav_raw_total - a /\ g_wav_pcm_total' = g_wav_pcm_total - b
  BY <1>1 DEF wav_unload
<1>4. PICK d \in Int, c \in Int : d = 0 - a /\ c = 0 - b
  BY <1>2
<1>5. /\ g_wav_raw_total' = g_wav_raw_total + d /\ p.raw = a + d
      /\ g_wav_raw_total' <= MaxRawTotal
      /\ g_wav_pcm_total' = g_wav_pcm_total + c /\ Samples(p) <= b + c
      /\ g_wav_pcm_total' <= MaxPcm
  BY <1>2, <1>3, <1>4
<1> QED BY <1>1, <1>5, BudgetStep

LEMMA InitKeepsBudget == IInv /\ Budget /\ nInit => Budget'
<1> SUFFICES ASSUME IInv, Budget, nInit PROVE Budget'
  OBVIOUS
<1> DEFINE p == [Unused EXCEPT !.used = TRUE]
<1>1. PICK h \in Slot : wav_unload(h) /\ g_wav' = [g_wav EXCEPT ![h] = p]
  BY DEF nInit
<1>2. p \in Player /\ p.raw = 0 /\ p.pcmFrames = 0
  BY DEF Player, Unused, NoStream
<1> HIDE DEF p
<1> QED BY <1>1, <1>2, UnloadBudget

LEMMA CloseKeepsBudget ==
  ASSUME IInv, Budget, NEW h \in Slot, close(h)
  PROVE  Budget'
<1>1. wav_unload(h) /\ g_wav' = [g_wav EXCEPT ![h] = Unused]
  BY DEF close, Termed
<1>2. Unused \in Player /\ Unused.raw = 0 /\ Unused.pcmFrames = 0
  BY DEF Player, Unused, NoStream
<1> QED BY <1>1, <1>2, UnloadBudget

LEMMA BufferingKeepsBudget ==
  ASSUME IInv, Budget, NEW h \in Slot, nBuffering(h)
  PROVE  Budget'
<1> DEFINE p == [g_wav[h] EXCEPT !.raw = @ + 1]
<1>1. /\ g_wav' = [g_wav EXCEPT ![h] = p] /\ g_wav_raw_total < MaxRawTotal
      /\ g_wav_raw_total' = g_wav_raw_total + 1 /\ g_wav_pcm_total' = g_wav_pcm_total
  BY DEF nBuffering
<1>2. /\ g_wav[h] \in Player /\ Samples(g_wav[h]) \in Nat
      /\ g_wav_raw_total \in Nat /\ g_wav_raw_total <= MaxRawTotal /\ MaxRawTotal \in Nat
      /\ g_wav_pcm_total \in Int /\ g_wav_pcm_total <= MaxPcm
  BY BudgetFacts
<1>3. p \in Player /\ p.raw = g_wav[h].raw + 1 /\ Samples(p) = Samples(g_wav[h])
  BY <1>2 DEF Player, Samples
<1> HIDE DEF p
<1>4. /\ g_wav_raw_total' <= MaxRawTotal /\ g_wav_pcm_total' = g_wav_pcm_total + 0
      /\ Samples(p) <= Samples(g_wav[h]) + 0 /\ g_wav_pcm_total' <= MaxPcm
  BY <1>1, <1>2, <1>3
<1>5. 1 \in Int /\ 0 \in Int
  OBVIOUS
<1>6. PICK d \in Int, c \in Int : d = 1 /\ c = 0
  BY <1>5
<1> QED BY <1>1, <1>3, <1>4, <1>6, BudgetStep

(* What an empty player comes to hold fits into the budget. *)
LEMMA ContentFits ==
  ASSUME IInv, Budget, NEW p, Good(p, "loading"), NEW q \in Content(p)
  PROVE  q \in Player /\ g_wav_pcm_total + Samples(q) <= MaxPcm
<1>1. /\ p \in Player /\ p.pcmFrames = 0 /\ q \in Player
      /\ g_wav_pcm_total \in Int /\ g_wav_pcm_total <= MaxPcm /\ MaxPcm \in Nat
  BY ContentIsGood, AudioAssumption DEF Good, Agrees, IInv, Budget, AudioAssumption
<1>2. /\ Cap \in Nat /\ Prefix \in Nat /\ Waves \subseteq Nat /\ Tracks \subseteq Nat
  BY AudioAssumption DEF AudioAssumption
<1>3. CASE q = p
  <2>1. Samples(q) = 0
    BY <1>1, <1>3, SamplesAreNat
  <2> QED BY <2>1, <1>1
<1>4. CASE \E f \in Waves : q = Decoded(p, f)
  <2>1. PICK f \in Waves : q = Decoded(p, f)
    BY <1>4
  <2> DEFINE rest == (MaxPcm - g_wav_pcm_total) \div 2
             out  == Min({f, rest})
  <2>2. f \in Int /\ rest \in Int /\ rest + rest <= MaxPcm - g_wav_pcm_total
    BY <1>1, <1>2
  <2> HIDE DEF rest
  <2>3. out \in Int /\ out <= rest
    BY <2>2, MinOfTwo
  <2>4. q = IF out <= 0 THEN p
            ELSE [p EXCEPT !.pcm = TRUE, !.pcmFrames = out, !.channels = 2]
    BY <2>1 DEF Decoded, rest
  <2> HIDE DEF out
  <2>5. CASE out <= 0
    BY <2>4, <2>5, <1>3
  <2>6. CASE out > 0
    <3>1. q.pcmFrames = out /\ q.channels = 2
      BY <2>3, <2>4, <2>6, <1>1 DEF Player
    <3>2. Samples(q) = out + out
      BY <3>1, <1>1, SamplesAreNat
    <3> QED BY <3>2, <2>2, <2>3, <1>1
  <2> QED BY <2>3, <2>5, <2>6
<1>5. CASE \E nev \in Tracks : q = Opened(p, nev)
  <2>1. PICK nev \in Tracks : q = Opened(p, nev)
    BY <1>5
  <2> DEFINE s == [p EXCEPT !.midi = [nev |-> nev, ev_i |-> 0], !.channels = 1]
             n == FirstFrames(nev)
             o == Render(s, n, g_wav_pcm_total)
  <2>2. nev \in Nat
    BY <1>2
  <2>3. s \in Player /\ s.pcmFrames = 0 /\ s.channels = 1
    BY <1>1, <2>2 DEF Player
  <2>4. n \in Int
    BY <2>2, FirstFramesInt
  <2>5. q = [o.p EXCEPT !.loopMidi = TotalFrames(nev) > o.p.pcmFrames]
    BY <2>1 DEF Opened, FirstFrames
  <2> HIDE DEF s, n
  <2>6. /\ o.p \in Player /\ o.p.channels = 1
        /\ o.total = g_wav_pcm_total + (o.p.pcmFrames - 0) /\ o.total <= MaxPcm
    <3>1. s.pcmFrames <= Cap
      BY <1>2, <2>3
    <3>2. /\ o.p \in Player /\ o.p.channels = s.channels
          /\ o.total = g_wav_pcm_total + (o.p.pcmFrames - s.pcmFrames) /\ o.total <= MaxPcm
      BY <3>1, <2>3, <2>4, <1>1, RenderProperties
    <3> HIDE DEF o
    <3> QED BY <3>2, <2>3
  <2> HIDE DEF o
  <2>7. q.channels = 1 /\ q.pcmFrames = o.p.pcmFrames /\ q.pcmFrames \in Nat
    BY <2>5, <2>6 DEF Player
  <2>8. Samples(q) = q.pcmFrames
    BY <2>7, <1>1, SamplesAreNat
  <2> QED BY <2>6, <2>7, <2>8, <1>1
<1> QED BY <1>1, <1>3, <1>4, <1>5 DEF Content

LEMMA BufferingEndKeepsBudget ==
  ASSUME IInv, Budget, NEW h \in Slot, nBufferingEnd(h)
  PROVE  Budget'
<1>1. Good(g_wav[h], "loading")
  BY DEF IInv, nBufferingEnd, Goes
<1>2. PICK q \in Content(g_wav[h]) :
        /\ g_wav' = [g_wav EXCEPT ![h] = [q EXCEPT !.raw = 0]]
        /\ g_wav_pcm_total' = g_wav_pcm_total + Samples(q)
        /\ g_wav_raw_total' = g_wav_raw_total - g_wav[h].raw
  BY DEF nBufferingEnd
<1> DEFINE p == [q EXCEPT !.raw = 0]
<1>3. q \in Player /\ g_wav_pcm_total + Samples(q) <= MaxPcm
  BY <1>1, <1>2, ContentFits
<1>4. p \in Player /\ p.raw = 0 /\ Samples(p) = Samples(q) /\ Samples(q) \in Nat
  BY <1>3, SamplesAreNat DEF Player, Samples
<1>5. Samples(g_wav[h]) = 0
  BY <1>1, SamplesAreNat DEF Good, Agrees
<1> HIDE DEF p
<1>6. PICK a \in Nat, d \in Int, c \in Int :
        a = g_wav[h].raw /\ d = 0 - a /\ c = Samples(q)
  BY <1>4, BudgetFacts
<1>7. /\ g_wav_raw_total \in Nat /\ g_wav_raw_total <= MaxRawTotal /\ MaxRawTotal \in Nat
      /\ g_wav_pcm_total \in Int /\ g_wav_pcm_total <= MaxPcm
  BY BudgetFacts
<1>8. /\ g_wav_raw_total' = g_wav_raw_total + d /\ p.raw = a + d
      /\ g_wav_raw_total' <= MaxRawTotal
      /\ g_wav_pcm_total' = g_wav_pcm_total + c /\ Samples(p) <= 0 + c
      /\ g_wav_pcm_total' <= MaxPcm
  BY <1>2, <1>3, <1>4, <1>6, <1>7
<1>9. g_wav' = [g_wav EXCEPT ![h] = p]
  BY <1>2 DEF p
<1> QED BY <1>4, <1>5, <1>6, <1>8, <1>9, BudgetStep

(* Starting, stopping and seeking only move the position. *)
LEMMA MovesKeepBudget ==
  ASSUME IInv, Budget, NEW h \in Slot, start(h) \/ stop(h) \/ setMediaTime(h)
  PROVE  Budget'
<1>1. PICK p : /\ g_wav' = [g_wav EXCEPT ![h] = p] /\ p.raw = g_wav[h].raw
               /\ p.pcmFrames = g_wav[h].pcmFrames /\ p.channels = g_wav[h].channels
               /\ UNCHANGED totals
  <2>1. g_wav[h] \in Player
    BY DEF IInv, Good
  <2>2. CASE start(h)
    BY <2>1, <2>2 DEF start, Player
  <2>3. CASE stop(h)
    BY <2>1, <2>3 DEF stop, Player
  <2>4. CASE setMediaTime(h)
    BY <2>1, <2>4 DEF setMediaTime, Player
  <2> QED BY <2>2, <2>3, <2>4
<1>2. \A k \in Slot : g_wav'[k].raw = g_wav[k].raw /\ Samples(g_wav'[k]) = Samples(g_wav[k])
  BY <1>1 DEF IInv, Samples
<1>3. Raws' = Raws /\ Pcms' = Pcms
  BY <1>2 DEF Raws, Pcms, Samples
<1> QED BY <1>1, <1>3, SameBudget

(* A read renders what fits; a track that starts again frees nothing.      *)
LEMMA TopupKeepsBudget == IInv /\ Budget /\ wav_topup_midi => Budget'
<1> SUFFICES ASSUME IInv, Budget, wav_topup_midi PROVE Budget'
  OBVIOUS
<1> DEFINE h     == read.at
           p     == Rewound(g_wav[h])
           n     == Min({Ahead - (p.pcmFrames - p.pos), Chunk, read.budget})
           more  == Render(p, n, g_wav_pcm_total)
           plays == /\ p.used /\ p.playing /\ p.midi # NoStream /\ p.pcm
<1>1. h \in Slot /\ Good(g_wav[h], java[h]) /\ g_wav_raw_total' = g_wav_raw_total
  BY DEF wav_topup_midi, IInv
<1>2. Ahead \in Nat /\ Chunk \in Nat /\ Cap \in Nat /\ read.budget \in Nat
  BY AudioAssumption DEF AudioAssumption, IInv
<1>3. plays => g_wav[h].playing
  BY DEF Rewound
<1>4. /\ g_wav_raw_total \in Nat /\ g_wav_raw_total <= MaxRawTotal /\ MaxRawTotal \in Nat
      /\ g_wav_pcm_total \in Int /\ g_wav_pcm_total <= MaxPcm
      /\ g_wav[h] \in Player /\ Samples(g_wav[h]) \in Nat /\ g_wav[h].raw \in Nat
  BY <1>1, BudgetFacts
<1>5. g_wav_raw_total' = g_wav_raw_total + 0 /\ g_wav[h].raw = g_wav[h].raw + 0
      /\ g_wav_raw_total' <= MaxRawTotal /\ 0 \in Int
  BY <1>1, <1>4
<1>6. ASSUME plays
      PROVE  /\ p \in Player /\ p.raw = g_wav[h].raw /\ p.pcmFrames <= Cap
             /\ p.pcmFrames \in Nat /\ p.pos \in Nat /\ p.channels = 1
             /\ Samples(p) = p.pcmFrames /\ Samples(p) <= Samples(g_wav[h])
  <2>1. /\ Good(p, java[h]) /\ p.midi # NoStream /\ p.raw = g_wav[h].raw
        /\ p.channels = g_wav[h].channels /\ p.pcmFrames \in {0, g_wav[h].pcmFrames}
    BY <1>1, <1>3, <1>6, RewoundIsGood
  <2> HIDE DEF p, h
  <2>2. p \in Player /\ p.pcmFrames <= Cap /\ p.channels = 1
    BY <2>1 DEF Good, Sound
  <2>3. p.pcmFrames \in Nat /\ p.pos \in Nat /\ Samples(p) = p.pcmFrames
    BY <2>2, SamplesAreNat DEF Player
  <2>4. Samples(g_wav[h]) = g_wav[h].pcmFrames /\ g_wav[h].pcmFrames \in Nat
    BY <1>4, <2>1, <2>2, SamplesAreNat DEF Player
  <2> QED BY <2>1, <2>2, <2>3, <2>4
<1>7. CASE /\ plays
           /\ g_wav' = [g_wav EXCEPT ![h] = more.p]
           /\ g_wav_pcm_total' = more.total
  <2>1. n \in Int
    <3>1. Ahead - (p.pcmFrames - p.pos) \in Int /\ Chunk \in Int /\ read.budget \in Int
      BY <1>2, <1>6, <1>7
    <3> QED BY <3>1, MinOfThree
  <2> HIDE DEF n, p, h
  <2>2. /\ p \in Player /\ p.raw = g_wav[h].raw /\ p.pcmFrames <= Cap
        /\ p.pcmFrames \in Nat /\ p.channels = 1
        /\ Samples(p) = p.pcmFrames /\ Samples(p) <= Samples(g_wav[h])
    BY <1>6, <1>7
  <2>3. /\ more.p \in Player /\ more.p.channels = p.channels /\ more.p.raw = p.raw
        /\ more.total = g_wav_pcm_total + (more.p.pcmFrames - p.pcmFrames)
        /\ more.total <= MaxPcm
    BY <2>1, <2>2, <1>4, RenderProperties
  <2> HIDE DEF more
  <2>4. Samples(more.p) = more.p.pcmFrames /\ Samples(more.p) \in Nat
    BY <2>2, <2>3, SamplesAreNat
  <2>5. PICK c \in Int : c = Samples(more.p) - Samples(p)
    BY <2>2, <2>4
  <2>6. /\ g_wav_pcm_total' = g_wav_pcm_total + c
        /\ Samples(more.p) <= Samples(g_wav[h]) + c /\ g_wav_pcm_total' <= MaxPcm
    BY <2>2, <2>3, <2>4, <2>5, <1>4, <1>7
  <2>7. PICK d \in Int : d = 0
    OBVIOUS
  <2>8. more.p.raw = g_wav[h].raw + d /\ g_wav_raw_total' = g_wav_raw_total + d
    BY <2>2, <2>3, <2>7, <1>5
  <2> QED BY <1>1, <1>5, <1>7, <2>3, <2>6, <2>8, BudgetStep
<1>8. CASE /\ g_wav' = [g_wav EXCEPT ![h] = IF plays THEN p ELSE @]
           /\ g_wav_pcm_total' = g_wav_pcm_total
  <2> DEFINE q == IF plays THEN p ELSE g_wav[h]
  <2>1. q \in Player /\ q.raw = g_wav[h].raw /\ Samples(q) <= Samples(g_wav[h])
    <3>1. CASE plays
      BY <1>6, <3>1
    <3>2. CASE ~plays
      BY <1>4, <3>2
    <3> QED BY <3>1, <3>2
  <2>2. g_wav' = [g_wav EXCEPT ![h] = q]
    BY <1>8
  <2> HIDE DEF q, h
  <2>3. PICK d \in Int : d = 0
    OBVIOUS
  <2>4. /\ g_wav_raw_total' = g_wav_raw_total + d /\ q.raw = g_wav[h].raw + d
        /\ g_wav_pcm_total' = g_wav_pcm_total + d
        /\ Samples(q) <= Samples(g_wav[h]) + d /\ g_wav_pcm_total' <= MaxPcm
    <3>1. Samples(q) \in Nat
      BY <2>1, SamplesAreNat
    <3> QED BY <3>1, <2>1, <2>3, <1>4, <1>5, <1>8
  <2> QED BY <1>1, <1>5, <2>1, <2>2, <2>4, BudgetStep
<1> QED BY <1>7, <1>8 DEF wav_topup_midi

LEMMA MixingKeepsSamples ==
  ASSUME NEW p \in Player
  PROVE  Mixed(p).raw = p.raw /\ Samples(Mixed(p)) = Samples(p)
<1>1. \A x, b : LET q == [p EXCEPT !.playing = b, !.pos = x]
                IN  q.raw = p.raw /\ q.pcmFrames = p.pcmFrames /\ q.channels = p.channels
  BY DEF Player
<1>2. \E x, b : Mixed(p) = [p EXCEPT !.playing = b, !.pos = x]
  <2> DEFINE V(x, b) == [p EXCEPT !.playing = b, !.pos = x]
             z == [p EXCEPT !.pos = 0]
             q == IF p.pos >= p.pcmFrames THEN z ELSE p
  <2>1. p = V(p.pos, p.playing) /\ z = V(0, p.playing)
    BY DEF Player
  <2>2. Ended(p) = V(0, FALSE) /\ Ended(z) = V(0, FALSE)
    BY DEF Player, Ended
  <2>3. \A x : [p EXCEPT !.pos = x] = V(x, p.playing) /\ [z EXCEPT !.pos = x] = V(x, p.playing)
    BY DEF Player
  <2>4. \/ Mixed(p) \in {p, q, Ended(p), Ended(q)}
        \/ Mixed(p) = [q EXCEPT !.pos = q.pos + 1]
    BY DEF Mixed, Played
  <2>5. q = p \/ q = z
    OBVIOUS
  <2> HIDE DEF V, z, q
  <2>6. PICK e, y, m : e = Ended(p) /\ y = q.pos + 1 /\ m = Mixed(p)
    OBVIOUS
  <2>7. \E x, b : m = V(x, b)
    <3>1. Ended(q) = V(0, FALSE)
      BY <2>2, <2>5
    <3>2. [q EXCEPT !.pos = y] = V(y, p.playing)
      BY <2>3, <2>5
    <3>3. m \in {p, z, e, Ended(q), [q EXCEPT !.pos = y]}
      BY <2>4, <2>5, <2>6
    <3>4. m \in {V(p.pos, p.playing), V(0, p.playing), V(0, FALSE), V(y, p.playing)}
      BY <3>1, <3>2, <3>3, <2>1, <2>2, <2>6, Zenon
    <3> QED BY <3>4
  <2> QED BY <2>6, <2>7 DEF V
<1> QED BY <1>1, <1>2 DEF Samples

LEMMA RestKeepsBudget ==
  ASSUME IInv, Budget,
         \/ \E h \in Slot : LoadFails(h)
         \/ GameEnds \/ ReadBegins \/ wav_mix_frame \/ UNCHANGED audioVars
  PROVE  Budget'
<1>1. UNCHANGED totals
  BY DEF LoadFails, GameEnds, ReadBegins, wav_mix_frame, audioVars, totals
<1>2. \A k \in Slot : g_wav'[k].raw = g_wav[k].raw /\ Samples(g_wav'[k]) = Samples(g_wav[k])
  <2>1. CASE g_wav' = g_wav
    BY <2>1 DEF Samples
  <2>2. CASE wav_mix_frame
    BY <2>2, MixingKeepsSamples DEF wav_mix_frame, IInv, Good
  <2> QED BY <2>1, <2>2 DEF LoadFails, GameEnds, ReadBegins, audioVars
<1>3. Raws' = Raws /\ Pcms' = Pcms
  BY <1>2 DEF Raws, Pcms, Samples
<1> QED BY <1>1, <1>3, SameBudget

LEMMA InitBudget == Init => Budget
<1> SUFFICES ASSUME Init PROVE Budget
  OBVIOUS
<1> DEFINE z == [h \in Slot |-> 0]
<1>1. Raws = z /\ Pcms = z
  BY DEF Init, Raws, Pcms, Samples, Unused
<1>2. z \in [Slot -> Nat] /\ \A h \in Slot : z[h] = 0
  OBVIOUS
<1>3. PICK g : Sums(z, g) /\ Total(z) = g[Slots]
  BY <1>2, TotalIsSum
<1>4. Slots \in Nat /\ MaxPcm \in Nat /\ MaxRawTotal \in Nat
  BY AudioAssumption DEF AudioAssumption
<1> DEFINE U == {n \in 0 .. Slots : g[n] = 0}
<1>5. 0 \in U
  BY <1>3, <1>4 DEF Sums
<1>6. ASSUME NEW n \in 1 .. Slots, n - 1 \in U PROVE n \in U
  BY <1>2, <1>3, <1>6 DEF Sums, Slot
<1>7. 0 .. Slots \subseteq U
  <2> HIDE DEF U
  <2> QED BY <1>4, <1>5, <1>6, UpTo
<1>8. Total(z) = 0
  BY <1>3, <1>4, <1>7
<1> HIDE DEF z
<1> QED BY <1>1, <1>4, <1>8 DEF Init, Budget

-----------------------------------------------------------------------------
(* Every call and every read keep the inductive invariant. *)
LEMMA IInvInductive == IInv /\ [Next]_audioVars => IInv'
<1> SUFFICES ASSUME IInv, [Next]_audioVars PROVE IInv'
  OBVIOUS
<1>1. CASE nInit
  BY <1>1, InitKeepsIInv
<1>2. ASSUME NEW h \in Slot, \/ nBuffering(h) \/ nBufferingEnd(h) \/ LoadFails(h)
                             \/ start(h) \/ stop(h) \/ setMediaTime(h) \/ close(h)
      PROVE  IInv'
  BY <1>2, BufferingKeepsIInv, BufferingEndKeepsIInv, FailKeepsIInv, StartKeepsIInv,
     StopKeepsIInv, SeekKeepsIInv, CloseKeepsIInv
<1>3. CASE GameEnds
  BY <1>3, GameEndsKeepsIInv
<1>4. CASE gb300_audio_read
  BY <1>4, ReadKeepsIInv
<1>5. CASE UNCHANGED audioVars
  BY <1>5 DEF audioVars, totals, IInv
<1> QED BY <1>1, <1>2, <1>3, <1>4, <1>5 DEF Next

LEMMA BudgetInductive == IInv /\ Budget /\ [Next]_audioVars => Budget'
<1> SUFFICES ASSUME IInv, Budget, [Next]_audioVars PROVE Budget'
  OBVIOUS
<1>1. CASE nInit
  BY <1>1, InitKeepsBudget
<1>2. ASSUME NEW h \in Slot, \/ nBuffering(h) \/ nBufferingEnd(h) \/ LoadFails(h)
                             \/ start(h) \/ stop(h) \/ setMediaTime(h) \/ close(h)
      PROVE  Budget'
  BY <1>2, BufferingKeepsBudget, BufferingEndKeepsBudget, RestKeepsBudget,
     MovesKeepBudget, CloseKeepsBudget
<1>3. CASE GameEnds \/ UNCHANGED audioVars
  BY <1>3, RestKeepsBudget
<1>4. CASE gb300_audio_read
  BY <1>4, TopupKeepsBudget, RestKeepsBudget DEF gb300_audio_read
<1> QED BY <1>1, <1>2, <1>3, <1>4 DEF Next

(* Whatever games and reads do, a player that is stopped or closed does    *)
(* not play, and the position of each stays in its buffer (wav_mix_frame   *)
(* reads pcm at pos).                                                      *)
THEOREM StoppedStaysSilent == Spec => []StoppedIsSilent
<1>1. IInv => StoppedIsSilent
  BY DEF IInv, Good, Sound, Agrees, StoppedIsSilent
<1> QED BY <1>1, InitIInv, IInvInductive, PTL DEF Spec

(* The players together never hold more samples than are charged to        *)
(* g_wav_pcm_total, nor that more than WAV_MAX_PCM_TOTAL, and the raw data *)
(* is accounted for exactly: however players are loaded, rendered, looped, *)
(* closed, and left behind by games.                                       *)
THEOREM BudgetIsKept == Spec => []BudgetKept
<1>1. Budget => BudgetKept
  BY DEF Budget, BudgetKept, Raws, Pcms
<1>2. Init => Budget
  BY InitBudget
<1> QED BY <1>1, <1>2, InitIInv, IInvInductive, BudgetInductive, PTL DEF Spec
=============================================================================
