------------------------- MODULE KeyDeliveryProofs -------------------------
(***************************************************************************)
(* Keypad and KeyDelivery for every set of buttons, keys and keymaps and   *)
(* every capacity of the ring: releases match presses, and no game is left *)
(* with a key that no button holds.                                        *)
(***************************************************************************)
EXTENDS KeyDelivery, FiniteSetTheorems, SequenceTheorems, WellFoundedInduction,
        NaturalsInduction, TLAPS

-----------------------------------------------------------------------------
(* Induction along 1..N, by the least number where a claim fails. *)
LEMMA LeastElement ==
  ASSUME NEW T, T \subseteq Nat, T # {}
  PROVE  \E n \in T : \A m \in T : n <= m
<1>1. PICK n \in T : \A m \in T : ~(<<m, n>> \in OpToRel(<, Nat))
  BY WFMin, NatLessThanWellFounded, Zenon
<1>2. ASSUME NEW m \in T PROVE n <= m
  <2>1. m \in Nat /\ n \in Nat
    OBVIOUS
  <2>2. ~(m < n)
    BY <1>1, <2>1, Zenon DEF OpToRel
  <2> QED BY <2>1, <2>2
<1> QED BY <1>2

LEMMA UpTo ==
  ASSUME NEW N \in Nat, NEW T, 0 \in T, \A n \in 1 .. N : n - 1 \in T => n \in T
  PROVE  0 .. N \subseteq T
<1> DEFINE U == (0 .. N) \ T
<1> SUFFICES ASSUME U # {} PROVE FALSE
  OBVIOUS
<1>1. PICK n \in U : \A m \in U : n <= m
  <2>1. U \subseteq Nat
    OBVIOUS
  <2> HIDE DEF U
  <2> QED BY <2>1, LeastElement
<1>2. n \in 1 .. N /\ n - 1 \in 0 .. N /\ ~(n <= n - 1)
  BY <1>1
<1> QED BY <1>1, <1>2

-----------------------------------------------------------------------------
(* FlattenSeq puts the pieces F[1], ..., F[n] one after the other: g[i] is *)
(* what there is after the first i of them.                                *)
Grows(E, n, F, t, g) ==
  /\ g \in [0 .. n -> Seq(E)] /\ g[0] = t
  /\ \A i \in 1 .. n : g[i] = g[i - 1] \o F[i]

LEMMA PiecesGrow ==
  ASSUME NEW E, NEW n \in Nat, NEW F \in [1 .. n -> Seq(E)], NEW t \in Seq(E)
  PROVE  \E g : Grows(E, n, F, t, g)
<1> DEFINE T == {m \in 0 .. n : \E g : Grows(E, m, F, t, g)}
<1>1. 0 \in T
  <2> DEFINE g == [i \in 0 .. 0 |-> t]
  <2>1. Grows(E, 0, F, t, g)
    BY DEF Grows
  <2>2. 0 \in 0 .. n
    OBVIOUS
  <2> HIDE DEF g
  <2> QED BY <2>1, <2>2
<1>2. ASSUME NEW m \in 1 .. n, m - 1 \in T PROVE m \in T
  <2>1. PICK g : Grows(E, m - 1, F, t, g)
    BY <1>2
  <2> DEFINE h == [i \in 0 .. m |-> IF i = m THEN g[m - 1] \o F[m] ELSE g[i]]
  <2>2. /\ \A i \in 0 .. m : i # m => i \in 0 .. m - 1
        /\ m - 1 \in 0 .. m - 1 /\ F[m] \in Seq(E)
    OBVIOUS
  <2>3. g[m - 1] \in Seq(E)
    BY <2>1, <2>2 DEF Grows
  <2>4. g[m - 1] \o F[m] \in Seq(E)
    BY <2>2, <2>3, ConcatProperties
  <2>5. h \in [0 .. m -> Seq(E)] /\ h[0] = t
    BY <2>1, <2>2, <2>4 DEF Grows
  <2>6. ASSUME NEW i \in 1 .. m PROVE h[i] = h[i - 1] \o F[i]
    <3>1. i - 1 \in 0 .. m /\ i - 1 # m /\ h[i - 1] = g[i - 1]
      OBVIOUS
    <3>2. CASE i = m
      BY <3>1, <3>2
    <3>3. CASE i # m
      <4>1. i \in 1 .. m - 1 /\ h[i] = g[i]
        BY <3>3
      <4> QED BY <4>1, <3>1, <2>1 DEF Grows
    <3> QED BY <3>2, <3>3
  <2> HIDE DEF h
  <2>7. \A i \in 1 .. m : h[i] = h[i - 1] \o F[i]
    BY <2>6
  <2>8. Grows(E, m, F, t, h)
    BY <2>5, <2>7, Zenon DEF Grows
  <2>9. m \in 0 .. n
    OBVIOUS
  <2> QED BY <2>8, <2>9
<1>3. n \in T
  <2> HIDE DEF T
  <2>1. 0 .. n \subseteq T
    BY <1>1, <1>2, UpTo
  <2> QED BY <2>1
<1> QED BY <1>3

LEMMA FlattenIsGrowth ==
  ASSUME NEW E, NEW n \in Nat, NEW F \in [1 .. n -> Seq(E)], NEW g, Grows(E, n, F, <<>>, g)
  PROVE  FlattenSeq(F) = g[n]
<1>1. Len(F) = n /\ F \in Seq(Seq(E))
  OBVIOUS
<1>2. CASE n = 0
  <2>1. F = <<>>
    BY <1>1, <1>2
  <2> QED BY <1>1, <1>2, <2>1 DEF FlattenSeq, Grows
<1>3. CASE n # 0
  <2> DEFINE Rule(f) == [i \in 1 .. n |-> IF i = 1 THEN F[i] ELSE f[i - 1] \o F[i]]
             C == CHOOSE f : f = Rule(f)
             h == [i \in 1 .. n |-> g[i]]
  <2>1. FlattenSeq(F) = C[n]
    BY <1>1, <1>3 DEF FlattenSeq
  <2>2. ASSUME NEW i \in 1 .. n PROVE h[i] = Rule(h)[i]
    <3>1. CASE i = 1
      <4>1. 1 \in 1 .. n /\ 1 - 1 = 0 /\ F[1] \in Seq(E)
        BY <3>1
      <4>2. g[1] = g[1 - 1] \o F[1] /\ g[0] = <<>>
        BY <4>1, Zenon DEF Grows
      <4>3. <<>> \o F[1] = F[1]
        BY <4>1, ConcatEmptySeq
      <4> QED BY <3>1, <4>1, <4>2, <4>3
    <3>2. CASE i # 1
      <4>1. i - 1 \in 1 .. n /\ h[i - 1] = g[i - 1]
        BY <3>2
      <4> QED BY <3>2, <4>1 DEF Grows
    <3> QED BY <3>1, <3>2
  <2>3. h = Rule(h)
    <3>1. Rule(h) = [i \in 1 .. n |-> Rule(h)[i]] /\ h = [i \in 1 .. n |-> h[i]]
      OBVIOUS
    <3> HIDE DEF Rule, h
    <3> QED BY <2>2, <3>1
  <2>4. C = Rule(C)
    <3> HIDE DEF Rule, h
    <3> QED BY <2>3
  <2> HIDE DEF C
  <2> DEFINE U == {i \in 0 .. n : i # 0 => C[i] = h[i]}
  <2>5. 0 \in U
    OBVIOUS
  <2>6. ASSUME NEW i \in 1 .. n, i - 1 \in U PROVE i \in U
    <3>1. C[i] = IF i = 1 THEN F[i] ELSE C[i - 1] \o F[i]
      BY <2>4
    <3>2. h[i] = IF i = 1 THEN F[i] ELSE h[i - 1] \o F[i]
      BY <2>3
    <3>3. i # 1 => C[i - 1] = h[i - 1]
      BY <2>6
    <3> HIDE DEF h
    <3> QED BY <3>1, <3>2, <3>3
  <2>7. n \in U
    <3> HIDE DEF U
    <3>1. 0 .. n \subseteq U
      BY <2>5, <2>6, UpTo
    <3> QED BY <3>1
  <2> QED BY <1>3, <2>1, <2>7
<1> QED BY <1>2, <1>3

(* The same behind a prefix t. *)
LEMMA PrefixGrows ==
  ASSUME NEW E, NEW n \in Nat, NEW F \in [1 .. n -> Seq(E)], NEW t \in Seq(E)
  PROVE  \E g : Grows(E, n, F, t, g) /\ t \o FlattenSeq(F) = g[n]
<1>1. <<>> \in Seq(E)
  OBVIOUS
<1>2. PICK f : Grows(E, n, F, <<>>, f)
  BY <1>1, PiecesGrow
<1>3. FlattenSeq(F) = f[n]
  BY <1>2, FlattenIsGrowth
<1> DEFINE g == [i \in 0 .. n |-> t \o f[i]]
<1>4. g \in [0 .. n -> Seq(E)] /\ g[0] = t
  <2>1. \A i \in 0 .. n : t \o f[i] \in Seq(E)
    BY <1>2, ConcatProperties DEF Grows
  <2>2. t \o f[0] = t
    BY <1>2, ConcatEmptySeq DEF Grows
  <2> QED BY <2>1, <2>2
<1>5. ASSUME NEW i \in 1 .. n PROVE g[i] = g[i - 1] \o F[i]
  <2>1. i - 1 \in 0 .. n /\ i \in 0 .. n /\ F[i] \in Seq(E)
    OBVIOUS
  <2>2. f[i - 1] \in Seq(E) /\ f[i] = f[i - 1] \o F[i]
    BY <1>2, <2>1 DEF Grows
  <2>3. PICK u \in Seq(E), v \in Seq(E) : u = f[i - 1] /\ v = F[i]
    BY <2>1, <2>2
  <2>4. t \o (u \o v) = (t \o u) \o v
    BY ConcatAssociative
  <2>5. g[i] = t \o f[i] /\ g[i - 1] = t \o f[i - 1]
    BY <2>1
  <2> HIDE DEF g
  <2> QED BY <2>2, <2>3, <2>4, <2>5
<1>6. g[n] = t \o f[n]
  OBVIOUS
<1> HIDE DEF g
<1> QED BY <1>3, <1>4, <1>5, <1>6 DEF Grows

-----------------------------------------------------------------------------
Event == [key : Key, type : {"pressed", "released"}]
Entry == Event \cup {Start}

(* One event more. *)
LEMMA LastOfConcat ==
  ASSUME NEW s \in Seq(Entry), NEW e \in Entry
  PROVE  /\ s \o <<e>> \in Seq(Entry)
         /\ Len(s \o <<e>>) = Len(s) + 1
         /\ \A i \in 1 .. Len(s) : (s \o <<e>>)[i] = s[i]
         /\ (s \o <<e>>)[Len(s) + 1] = e
<1>1. <<e>> \in Seq(Entry) /\ Len(<<e>>) = 1 /\ <<e>>[1] = e
  OBVIOUS
<1>2. PICK u \in Seq(Entry) : u = <<e>>
  BY <1>1
<1>3. /\ s \o u \in Seq(Entry)
      /\ Len(s \o u) = Len(s) + Len(u)
      /\ \A i \in 1 .. Len(s) + Len(u) :
           (s \o u)[i] = IF i <= Len(s) THEN s[i] ELSE u[i - Len(s)]
  BY ConcatProperties
<1>4. Len(s) \in Nat
  OBVIOUS
<1> QED BY <1>1, <1>2, <1>3, <1>4

LEMMA BelievedOne ==
  ASSUME NEW d \in SUBSET Key, NEW s \in Seq(Entry), NEW e \in Event
  PROVE  /\ e.type = "pressed" => Believed(d, s \o <<e>>) = Believed(d, s) \cup {e.key}
         /\ e.type = "released" => Believed(d, s \o <<e>>) = Believed(d, s) \ {e.key}
<1>1. PICK q \in Key, t \in {"pressed", "released"} : q = e.key /\ t = e.type
  BY DEF Event
<1>2. PICK u : u = s \o <<e>>
  OBVIOUS
<1>3. PICK n \in Nat : n = Len(s)
  OBVIOUS
<1>4. /\ Len(u) = n + 1 /\ DOMAIN u = 1 .. n + 1 /\ DOMAIN s = 1 .. n
      /\ \A i \in 1 .. n : u[i] = s[i]
      /\ u[n + 1] = e
  BY <1>2, <1>3, LastOfConcat DEF Entry
<1>5. e.key = q /\ e.type = t /\ e = [key |-> q, type |-> t]
  BY <1>1 DEF Event
<1>6. q \in Believed(d, u) <=> t = "pressed"
  <2>1. n + 1 \in DOMAIN u /\ u[n + 1].key = q
    BY <1>4, <1>5
  <2>2. ASSUME q \in Believed(d, u) PROVE t = "pressed"
    <3>1. PICK i \in DOMAIN u : /\ u[i] = [key |-> q, type |-> "pressed"]
                                /\ \A j \in i + 1 .. Len(u) : u[j].key # q
      BY <2>1, <2>2 DEF Believed
    <3>2. i = n + 1
      BY <1>4, <2>1, <3>1
    <3>3. u[i].type = "pressed"
      BY <3>1
    <3> QED BY <1>4, <1>5, <3>2, <3>3
  <2>3. ASSUME t = "pressed" PROVE q \in Believed(d, u)
    <3>1. u[n + 1] = [key |-> q, type |-> "pressed"]
      BY <1>4, <1>5, <2>3
    <3>2. \A j \in n + 1 + 1 .. Len(u) : u[j].key # q
      BY <1>4
    <3> QED BY <2>1, <3>1, <3>2 DEF Believed
  <2> QED BY <2>2, <2>3
<1>7. ASSUME NEW k \in Key, k # q PROVE k \in Believed(d, u) <=> k \in Believed(d, s)
  <2>1. (\A i \in DOMAIN u : u[i].key # k) <=> (\A i \in DOMAIN s : s[i].key # k)
    BY <1>4, <1>5, <1>7
  <2>2. PICK g : g = [key |-> k, type |-> "pressed"]
    OBVIOUS
  <2>3. u[n + 1] # g
    BY <1>4, <1>5, <1>7, <2>2
  <2>4. ASSUME NEW i \in 1 .. n
        PROVE  (\A j \in i + 1 .. Len(u) : u[j].key # k)
                 <=> (\A j \in i + 1 .. Len(s) : s[j].key # k)
    BY <1>3, <1>4, <1>5, <1>7
  <2>5. (\E i \in DOMAIN u : u[i] = g /\ \A j \in i + 1 .. Len(u) : u[j].key # k)
          <=> (\E i \in DOMAIN s : s[i] = g /\ \A j \in i + 1 .. Len(s) : s[j].key # k)
    <3>1. \A i \in DOMAIN u : i \in 1 .. n \/ i = n + 1
      BY <1>4
    <3>2. DOMAIN s = 1 .. n /\ (1 .. n) \subseteq DOMAIN u /\ \A i \in 1 .. n : u[i] = s[i]
      BY <1>4
    <3> QED BY <2>3, <2>4, <3>1, <3>2
  <2> QED BY <2>1, <2>2, <2>5 DEF Believed
<1>8. Believed(d, u) \subseteq Key /\ Believed(d, s) \subseteq Key
  BY DEF Believed
<1> QED BY <1>1, <1>2, <1>6, <1>7, <1>8

LEMMA EventsAreEntries == Seq(Event) \subseteq Seq(Entry)
<1>1. Event \subseteq Entry
  BY DEF Entry
<1> QED BY <1>1

LEMMA SendTyped ==
  /\ <<>> \in Seq(Event) /\ <<>> \in Seq(Entry)
  /\ \A q \in Key \cup {NoKey} : /\ Press(q) \in Seq(Event) /\ Release(q) \in Seq(Event)
                                 /\ Press(q) \in Seq(Entry) /\ Release(q) \in Seq(Entry)
<1>1. <<>> \in Seq(Event)
  OBVIOUS
<1>2. ASSUME NEW q \in Key \cup {NoKey}, NEW t \in {"pressed", "released"}
      PROVE  Send(q, t) \in Seq(Event)
  <2>1. CASE q = NoKey
    BY <1>1, <2>1 DEF Send
  <2>2. CASE q # NoKey
    <3>1. PICK e \in Event : e = [key |-> q, type |-> t]
      BY <2>2 DEF Event
    <3>2. <<e>> \in Seq(Event) /\ Send(q, t) = <<e>>
      BY <2>2, <3>1 DEF Send
    <3> QED BY <3>2
  <2> QED BY <2>1, <2>2
<1>3. \A q \in Key \cup {NoKey} : Press(q) \in Seq(Event) /\ Release(q) \in Seq(Event)
  BY <1>2 DEF Press, Release
<1> QED BY <1>1, <1>3, EventsAreEntries

LEMMA BelievedSend ==
  ASSUME NEW d \in SUBSET Key, NEW s \in Seq(Entry), NEW q \in Key \cup {NoKey}, NEW k \in Key
  PROVE  /\ k \in Believed(d, s \o Press(q)) <=> k \in Believed(d, s) \/ k = q
         /\ k \in Believed(d, s \o Release(q)) <=> k \in Believed(d, s) /\ k # q
<1>1. CASE q = NoKey
  <2>1. Press(q) = <<>> /\ Release(q) = <<>>
    BY <1>1 DEF Press, Release, Send
  <2>2. s \o <<>> = s
    BY ConcatEmptySeq
  <2>3. k # q
    BY <1>1, KeypadAssumption DEF KeypadAssumption
  <2> QED BY <2>1, <2>2, <2>3
<1>2. CASE q \in Key
  <2>1. q # NoKey
    BY <1>2, KeypadAssumption DEF KeypadAssumption
  <2>2. PICK e \in Event, f \in Event : /\ e = [key |-> q, type |-> "pressed"]
                                        /\ f = [key |-> q, type |-> "released"]
    BY <1>2 DEF Event
  <2>3. Press(q) = <<e>> /\ Release(q) = <<f>>
    BY <2>1, <2>2 DEF Press, Release, Send
  <2>4. e \in Event /\ e.key = q /\ e.type = "pressed"
    BY <2>2
  <2>5. f \in Event /\ f.key = q /\ f.type = "released"
    BY <2>2
  <2>6. Believed(d, s \o <<e>>) = Believed(d, s) \cup {q}
    BY <2>4, BelievedOne, Zenon
  <2>7. Believed(d, s \o <<f>>) = Believed(d, s) \ {q}
    BY <2>5, BelievedOne, Zenon
  <2> QED BY <2>3, <2>6, <2>7
<1> QED BY <1>1, <1>2

(* Receiving the first event changes nothing of what will be believed. *)
LEMMA BelievedHead ==
  ASSUME NEW d \in SUBSET Key, NEW s \in Seq(Entry), s # <<>>
  PROVE  Believed(After(d, Head(s)), Tail(s)) = Believed(d, s)
<1>1. PICK e \in Entry : e = Head(s)
  BY HeadTailProperties
<1>2. PICK n \in Nat : Len(s) = n + 1
  BY EmptySeq
<1>3. PICK u \in Seq(Entry) : u = Tail(s)
  BY HeadTailProperties
<1>4. /\ DOMAIN s = 1 .. n + 1 /\ DOMAIN u = 1 .. n /\ Len(u) = n
      /\ s[1] = e /\ \A i \in 1 .. n : u[i] = s[i + 1]
  BY <1>1, <1>2, <1>3, HeadTailProperties
<1>5. ASSUME NEW k \in Key PROVE k \in Believed(After(d, e), u) <=> k \in Believed(d, s)
  <2>1. PICK g : g = [key |-> k, type |-> "pressed"]
    OBVIOUS
  <2> DEFINE Never(v) == \A i \in DOMAIN v : v[i].key # k
             Pressing(v) == \E i \in DOMAIN v : v[i] = g /\ \A j \in i + 1 .. Len(v) : v[j].key # k
  <2>2. Never(s) <=> e.key # k /\ Never(u)
    <3>1. ASSUME NEW i \in DOMAIN s, i # 1 PROVE i - 1 \in DOMAIN u /\ s[i] = u[i - 1]
      BY <1>4, <3>1
    <3>2. ASSUME NEW i \in DOMAIN u PROVE i + 1 \in DOMAIN s /\ s[i + 1] = u[i]
      BY <1>4
    <3>3. 1 \in DOMAIN s /\ s[1] = e
      BY <1>4
    <3>4. ASSUME Never(s) PROVE e.key # k /\ Never(u)
      BY <3>2, <3>3, <3>4
    <3>5. ASSUME e.key # k, Never(u) PROVE Never(s)
      BY <3>1, <3>3, <3>5
    <3> QED BY <3>4, <3>5
  <2>3. Pressing(s) <=> Pressing(u) \/ (e = g /\ Never(u))
    <3>1. ASSUME NEW i \in 1 .. n
          PROVE  (\A j \in i + 1 .. Len(u) : u[j].key # k)
                   <=> (\A j \in i + 1 + 1 .. Len(s) : s[j].key # k)
      <4>1. ASSUME NEW j \in i + 1 .. n PROVE j + 1 \in i + 1 + 1 .. n + 1 /\ u[j] = s[j + 1]
        BY <1>4
      <4>2. ASSUME NEW j \in i + 1 + 1 .. n + 1 PROVE j - 1 \in i + 1 .. n /\ u[j - 1] = s[j]
        BY <1>4
      <4> QED BY <1>2, <1>4, <4>1, <4>2
    <3>2. (\A j \in 1 + 1 .. Len(s) : s[j].key # k) <=> Never(u)
      <4>1. ASSUME NEW j \in 1 .. n PROVE j + 1 \in 1 + 1 .. n + 1 /\ u[j] = s[j + 1]
        BY <1>4
      <4>2. ASSUME NEW j \in 1 + 1 .. n + 1 PROVE j - 1 \in 1 .. n /\ u[j - 1] = s[j]
        BY <1>4
      <4>3. DOMAIN u = 1 .. n /\ Len(s) = n + 1
        BY <1>2, <1>4
      <4>4. PICK J, I : J = 1 + 1 .. n + 1 /\ I = 1 .. n
        OBVIOUS
      <4>5. (\A j \in J : s[j].key # k) => \A j \in I : u[j].key # k
        BY <4>1, <4>4
      <4>6. (\A j \in I : u[j].key # k) => \A j \in J : s[j].key # k
        BY <4>2, <4>4
      <4> QED BY <4>3, <4>4, <4>5, <4>6
    <3>3. ASSUME Pressing(s) PROVE Pressing(u) \/ (e = g /\ Never(u))
      <4>1. PICK i \in DOMAIN s : s[i] = g /\ \A j \in i + 1 .. Len(s) : s[j].key # k
        BY <3>3
      <4>2. CASE i = 1
        BY <1>4, <3>2, <4>1, <4>2
      <4>3. CASE i # 1
        <5>1. PICK h \in 1 .. n : h + 1 = i
          <6>1. i - 1 \in 1 .. n /\ (i - 1) + 1 = i
            BY <1>4, <4>3
          <6> QED BY <6>1
        <5>2. u[h] = g /\ \A j \in h + 1 .. Len(u) : u[j].key # k
          BY <1>4, <3>1, <4>1, <5>1
        <5> QED BY <1>4, <5>2
      <4> QED BY <4>2, <4>3
    <3>4. ASSUME Pressing(u) PROVE Pressing(s)
      <4>1. PICK i \in DOMAIN u : u[i] = g /\ \A j \in i + 1 .. Len(u) : u[j].key # k
        BY <3>4
      <4>2. i + 1 \in DOMAIN s /\ s[i + 1] = g
        BY <1>4, <4>1
      <4>3. \A j \in i + 1 + 1 .. Len(s) : s[j].key # k
        BY <1>4, <3>1, <4>1
      <4> QED BY <4>2, <4>3
    <3>5. ASSUME e = g, Never(u) PROVE Pressing(s)
      <4>1. 1 \in DOMAIN s /\ s[1] = g /\ \A j \in 1 + 1 .. Len(s) : s[j].key # k
        BY <1>4, <3>2, <3>5
      <4> QED BY <4>1
    <3> QED BY <3>3, <3>4, <3>5
  <2>4. k \in Believed(d, s) <=> (k \in d /\ Never(s)) \/ Pressing(s)
    BY <2>1 DEF Believed
  <2>5. k \in Believed(After(d, e), u) <=> (k \in After(d, e) /\ Never(u)) \/ Pressing(u)
    BY <2>1 DEF Believed
  <2>6. /\ e = g => k \in After(d, e) /\ e.key = k
        /\ e # g /\ e.key = k => k \notin After(d, e)
        /\ e.key # k => (k \in After(d, e) <=> k \in d)
    <3>1. CASE e = Start
      BY <2>1, <3>1, KeypadAssumption DEF After, Start, KeypadAssumption
    <3>2. CASE e \in Event
      <4>1. e = [key |-> e.key, type |-> e.type] /\ e.type \in {"pressed", "released"}
        BY <3>2 DEF Event
      <4>2. CASE e.type = "pressed"
        BY <2>1, <4>1, <4>2 DEF After
      <4>3. CASE e.type = "released"
        BY <2>1, <4>1, <4>3 DEF After
      <4> QED BY <4>1, <4>2, <4>3
    <3> QED BY <3>1, <3>2 DEF Entry
  <2> HIDE DEF Never, Pressing
  <2> QED BY <2>2, <2>3, <2>4, <2>5, <2>6
<1>6. Believed(d, s) \subseteq Key /\ Believed(After(d, e), u) \subseteq Key
  BY DEF Believed
<1> QED BY <1>1, <1>3, <1>5, <1>6

-----------------------------------------------------------------------------
(* Presses minus releases of a key. *)
Net(s, k) == Times(s, k, "pressed") - Times(s, k, "released")

LEMMA TimesOne ==
  ASSUME NEW s \in Seq(Entry), NEW e \in Entry, NEW k, NEW t
  PROVE  /\ Times(s, k, t) \in Nat
         /\ Times(s \o <<e>>, k, t)
              = IF e = [key |-> k, type |-> t] THEN Times(s, k, t) + 1 ELSE Times(s, k, t)
<1>1. PICK g : g = [key |-> k, type |-> t]
  OBVIOUS
<1>2. PICK n \in Nat : n = Len(s)
  OBVIOUS
<1>3. PICK u : u = s \o <<e>>
  OBVIOUS
<1>4. /\ DOMAIN u = 1 .. n + 1 /\ DOMAIN s = 1 .. n
      /\ \A i \in 1 .. n : u[i] = s[i]
      /\ u[n + 1] = e
  BY <1>2, <1>3, LastOfConcat
<1> DEFINE X == {i \in DOMAIN s : s[i] = g}
           Y == {i \in DOMAIN u : u[i] = g}
<1>5. IsFiniteSet(X) /\ Cardinality(X) \in Nat /\ n + 1 \notin X
  <2>1. IsFiniteSet(1 .. n) /\ X \subseteq 1 .. n /\ n + 1 \notin 1 .. n
    BY <1>4, FS_Interval
  <2> HIDE DEF X
  <2> QED BY <2>1, FS_Subset, FS_CardinalityType
<1>6. Y = IF e = g THEN X \cup {n + 1} ELSE X
  <2>1. ASSUME NEW i \in 1 .. n + 1 PROVE i \in 1 .. n \/ i = n + 1
    OBVIOUS
  <2>2. 1 .. n \subseteq 1 .. n + 1 /\ n + 1 \in 1 .. n + 1
    OBVIOUS
  <2>3. Y \subseteq X \cup {n + 1} /\ X \subseteq Y
    BY <1>4, <2>1, <2>2
  <2>4. n + 1 \in Y <=> e = g
    BY <1>4, <2>2
  <2>5. n + 1 \notin X
    BY <1>5
  <2> HIDE DEF X, Y
  <2>6. ASSUME e = g PROVE Y = X \cup {n + 1}
    BY <2>3, <2>4, <2>6
  <2>7. ASSUME e # g PROVE Y = X
    BY <2>3, <2>4, <2>5, <2>7
  <2> QED BY <2>6, <2>7
<1>7. Cardinality(X \cup {n + 1}) = Cardinality(X) + 1
  <2> HIDE DEF X
  <2> QED BY <1>5, FS_AddElement
<1>8. Times(s, k, t) = Cardinality(X) /\ Times(u, k, t) = Cardinality(Y)
  BY <1>1 DEF Times
<1> HIDE DEF X, Y
<1> QED BY <1>1, <1>3, <1>5, <1>6, <1>7, <1>8

LEMMA NetSend ==
  ASSUME NEW s \in Seq(Entry), NEW q \in Key \cup {NoKey}, NEW k \in Key
  PROVE  /\ Net(s, k) \in Int
         /\ Net(s \o Press(q), k) = IF q = k THEN Net(s, k) + 1 ELSE Net(s, k)
         /\ Net(s \o Release(q), k) = IF q = k THEN Net(s, k) - 1 ELSE Net(s, k)
<1>1. PICK x \in Nat, y \in Nat : x = Times(s, k, "pressed") /\ y = Times(s, k, "released")
  <2>1. PICK e \in Entry : e = Start
    BY DEF Entry
  <2> QED BY <2>1, TimesOne
<1>2. CASE q = NoKey
  <2>1. Press(q) = <<>> /\ Release(q) = <<>>
    BY <1>2 DEF Press, Release, Send
  <2>2. s \o <<>> = s
    BY ConcatEmptySeq
  <2>3. q # k
    BY <1>2, KeypadAssumption DEF KeypadAssumption
  <2>4. Net(s, k) = x - y
    BY <1>1 DEF Net
  <2> QED BY <2>1, <2>2, <2>3, <2>4
<1>3. CASE q \in Key
  <2>1. q # NoKey
    BY <1>3, KeypadAssumption DEF KeypadAssumption
  <2>2. PICK e \in Entry, f \in Entry : /\ e = [key |-> q, type |-> "pressed"]
                                        /\ f = [key |-> q, type |-> "released"]
    BY <1>3 DEF Entry, Event
  <2>3. Press(q) = <<e>> /\ Release(q) = <<f>>
    BY <2>1, <2>2 DEF Press, Release, Send
  <2>4. /\ e = [key |-> k, type |-> "pressed"] <=> q = k
        /\ e # [key |-> k, type |-> "released"]
        /\ f = [key |-> k, type |-> "released"] <=> q = k
        /\ f # [key |-> k, type |-> "pressed"]
    BY <2>2
  <2>5. /\ Times(s \o <<e>>, k, "pressed") = IF q = k THEN x + 1 ELSE x
        /\ Times(s \o <<e>>, k, "released") = y
    BY <1>1, <2>4, TimesOne
  <2>6. /\ Times(s \o <<f>>, k, "released") = IF q = k THEN y + 1 ELSE y
        /\ Times(s \o <<f>>, k, "pressed") = x
    BY <1>1, <2>4, TimesOne
  <2>7. Net(s, k) = x - y
    BY <1>1 DEF Net
  <2>8. Net(s \o <<e>>, k) = IF q = k THEN x - y + 1 ELSE x - y
    BY <2>5 DEF Net
  <2>9. Net(s \o <<f>>, k) = IF q = k THEN x - y - 1 ELSE x - y
    BY <2>6 DEF Net
  <2> QED BY <2>3, <2>7, <2>8, <2>9
<1> QED BY <1>2, <1>3

-----------------------------------------------------------------------------
(* A poll as a walk along the buttons.  Sending are those that send events *)
(* of their own, HoldKey the key such a button holds, NewKey the one it    *)
(* presses when it goes down, Piece what it sends.                         *)
Sending      == IF keymap.combos THEN Plain ELSE Button
HoldKey(p)   == IF keymap.combos THEN active[p] ELSE keymap.key[p]
NewKey(b, p) == IF keymap.combos THEN KeyOf(b, p) ELSE keymap.key[p]

Piece(b, i) ==
  IF Table[i] \in Sending /\ Table[i] \in Pressed(b) THEN Press(NewKey(b, Table[i]))
  ELSE IF Table[i] \in Sending /\ Table[i] \in Released(b) THEN Release(HoldKey(Table[i]))
  ELSE <<>>

Pieces(b) == [i \in 1 .. Len(Table) |-> Piece(b, i)]
Taps(b)   == IF keymap.combos THEN Tap(b, "SELECT") \o Tap(b, "START") ELSE <<>>

(* The types that the walk needs. *)
KeysTyped ==
  /\ keymap \in Keymaps
  /\ last_buttons \subseteq Button
  /\ active \in [Plain -> Key \cup {NoKey}]

LEMMA KeysOfButtons ==
  ASSUME KeysTyped, NEW b \in SUBSET Button
  PROVE  /\ keymap \in Keymap
         /\ Sending \subseteq Button
         /\ \A m \in Modifier : keymap.key[m] \in Key \cup {NoKey}
         /\ \A p \in Sending : HoldKey(p) \in Key \cup {NoKey} /\ NewKey(b, p) \in Key \cup {NoKey}
<1>1. keymap \in Keymap /\ Modifier \subseteq Button
  BY KeypadAssumption DEF KeysTyped, KeypadAssumption
<1>2. /\ keymap.key \in [Button -> Key \cup {NoKey}]
      /\ keymap.combo \in [Modifier -> [Plain -> Key \cup {NoKey}]]
      /\ keymap.combos \in BOOLEAN
  BY <1>1 DEF Keymap
<1>3. Sending \subseteq Button
  BY DEF Sending, Plain
<1>4. ASSUME NEW p \in Sending
      PROVE  HoldKey(p) \in Key \cup {NoKey} /\ NewKey(b, p) \in Key \cup {NoKey}
  <2>1. p \in Button /\ keymap.key[p] \in Key \cup {NoKey}
    BY <1>2, <1>3
  <2>2. CASE keymap.combos
    <3>1. p \in Plain /\ HoldKey(p) = active[p] /\ NewKey(b, p) = KeyOf(b, p)
      BY <2>2 DEF Sending, HoldKey, NewKey
    <3>2. active[p] \in Key \cup {NoKey}
      BY <3>1 DEF KeysTyped
    <3>3. \A m \in Modifier : keymap.combo[m][p] \in Key \cup {NoKey}
      BY <1>2, <3>1
    <3>4. KeyOf(b, p) \in Key \cup {NoKey}
      BY <2>1, <3>3 DEF KeyOf
    <3> QED BY <3>1, <3>2, <3>4
  <2>3. CASE ~keymap.combos
    BY <2>1, <2>3 DEF HoldKey, NewKey
  <2> QED BY <2>2, <2>3
<1> QED BY <1>1, <1>2, <1>3, <1>4

LEMMA Regroup ==
  ASSUME NEW s \in Seq(Entry), NEW t \in Seq(Entry), NEW u \in Seq(Entry)
  PROVE  (s \o t) \o u = s \o (t \o u)
BY ConcatAssociative

LEMMA TapTyped ==
  ASSUME KeysTyped, NEW b \in SUBSET Button, NEW m \in Modifier
  PROVE  Tap(b, m) \in Seq(Event) /\ Tap(b, m) \in Seq(Entry)
<1>1. PICK q \in Key \cup {NoKey} : q = keymap.key[m]
  BY KeysOfButtons
<1>2. PICK u \in Seq(Event), v \in Seq(Event) : u = Press(q) /\ v = Release(q)
  BY SendTyped
<1>3. u \o v \in Seq(Event)
  BY ConcatProperties
<1>4. Tap(b, m) \in Seq(Event)
  BY <1>1, <1>2, <1>3, SendTyped DEF Tap
<1> QED BY <1>4, EventsAreEntries

LEMMA PollIsWalk ==
  ASSUME KeysTyped, NEW b \in SUBSET Button, NEW s \in Seq(Entry)
  PROVE  /\ Events(b) \in Seq(Event)
         /\ s \o Taps(b) \in Seq(Entry)
         /\ \E g : /\ Grows(Entry, Len(Table), Pieces(b), s \o Taps(b), g)
                   /\ s \o Events(b) = g[Len(Table)]
<1>1. PICK n \in Nat : n = Len(Table) /\ DOMAIN Table = 1 .. n
  BY KeypadAssumption DEF KeypadAssumption
<1>2. \A i \in 1 .. n : Table[i] \in Button
  BY <1>1, KeypadAssumption DEF KeypadAssumption
<1>3. PICK F \in [1 .. n -> Seq(Event)] : F = Pieces(b)
  <2>1. ASSUME NEW i \in 1 .. n PROVE Piece(b, i) \in Seq(Event)
    <3>1. CASE Table[i] \in Sending
      <4>1. NewKey(b, Table[i]) \in Key \cup {NoKey} /\ HoldKey(Table[i]) \in Key \cup {NoKey}
        BY <3>1, KeysOfButtons
      <4> QED BY <4>1, SendTyped DEF Piece
    <3>2. CASE Table[i] \notin Sending
      BY <3>2, SendTyped DEF Piece
    <3> QED BY <3>1, <3>2
  <2> QED BY <1>1, <2>1 DEF Pieces
<1>4. PICK t \in Seq(Event) : t = Taps(b)
  <2>1. PICK x \in Seq(Event), y \in Seq(Event) : x = Tap(b, "SELECT") /\ y = Tap(b, "START")
    BY TapTyped DEF Modifier
  <2>2. x \o y \in Seq(Event)
    BY ConcatProperties
  <2> QED BY <2>1, <2>2, SendTyped DEF Taps
<1>5. PICK w \in Seq(Event) : w = FlattenSeq(F)
  <2>1. PICK none \in Seq(Event) : none = <<>>
    BY SendTyped
  <2>2. PICK f : Grows(Event, n, F, none, f)
    BY PiecesGrow
  <2>3. FlattenSeq(F) = f[n]
    BY <2>1, <2>2, FlattenIsGrowth
  <2> QED BY <2>2, <2>3 DEF Grows
<1>6. Events(b) = t \o w
  <2>1. CASE keymap.combos
    <3>1. [i \in DOMAIN Table |->
             LET p == Table[i] IN
             IF p \in Modifier THEN <<>>
             ELSE IF p \in Pressed(b) THEN Press(KeyOf(b, p))
             ELSE IF p \in Released(b) THEN Release(ReleasedKey(b, p))
             ELSE <<>>] = Pieces(b)
      <4>1. \A i \in 1 .. n : Table[i] \in Sending <=> Table[i] \notin Modifier
        BY <1>2, <2>1 DEF Sending, Plain
      <4>2. \A p : NewKey(b, p) = KeyOf(b, p) /\ HoldKey(p) = ReleasedKey(b, p)
        BY <2>1 DEF NewKey, HoldKey, ReleasedKey
      <4> QED BY <1>1, <4>1, <4>2 DEF Pieces, Piece
    <3>2. ComboEvents(b) = Tap(b, "SELECT") \o Tap(b, "START") \o w
      BY <1>3, <1>5, <3>1, Zenon DEF ComboEvents
    <3>3. t = Tap(b, "SELECT") \o Tap(b, "START")
      BY <1>4, <2>1 DEF Taps
    <3> QED BY <2>1, <3>2, <3>3, Zenon DEF Events
  <2>2. CASE ~keymap.combos
    <3>1. [i \in DOMAIN Table |->
             LET p == Table[i] IN
             IF p \in Pressed(b) THEN Press(keymap.key[p])
             ELSE IF p \in Released(b) THEN Release(keymap.key[p])
             ELSE <<>>] = Pieces(b)
      <4>1. \A i \in 1 .. n : Table[i] \in Sending
        BY <1>2, <2>2 DEF Sending
      <4>2. \A p : NewKey(b, p) = keymap.key[p] /\ HoldKey(p) = keymap.key[p]
        BY <2>2 DEF NewKey, HoldKey
      <4> QED BY <1>1, <4>1, <4>2 DEF Pieces, Piece
    <3>2. PlainEvents(b) = w
      BY <1>3, <1>5, <3>1, Zenon DEF PlainEvents
    <3>3. t = <<>> /\ <<>> \o w = w
      BY <1>4, <2>2, ConcatEmptySeq DEF Taps
    <3> QED BY <2>2, <3>2, <3>3, Zenon DEF Events
  <2> QED BY <2>1, <2>2
<1>7. Events(b) \in Seq(Event)
  BY <1>6, ConcatProperties
<1>8. PICK x \in Seq(Entry), y \in Seq(Entry) : x = t /\ y = w
  BY EventsAreEntries
<1>9. PICK v \in Seq(Entry) : v = s \o x
  BY ConcatProperties
<1>10. PICK G \in [1 .. n -> Seq(Entry)] : G = F
  BY EventsAreEntries
<1>11. PICK g : Grows(Entry, n, G, v, g) /\ v \o FlattenSeq(G) = g[n]
  BY PrefixGrows
<1>12. s \o (x \o y) = (s \o x) \o y
  BY Regroup
<1>13. s \o Events(b) = g[n]
  BY <1>5, <1>6, <1>8, <1>9, <1>10, <1>11, <1>12
<1> QED BY <1>1, <1>3, <1>4, <1>7, <1>8, <1>9, <1>10, <1>11, <1>13, Zenon

(* The taps come one after the other. *)
LEMMA TapsInOrder ==
  ASSUME KeysTyped, NEW b \in SUBSET Button, NEW s \in Seq(Entry)
  PROVE  s \o Taps(b) = IF keymap.combos THEN (s \o Tap(b, "SELECT")) \o Tap(b, "START") ELSE s
<1>1. PICK x \in Seq(Entry), y \in Seq(Entry) : x = Tap(b, "SELECT") /\ y = Tap(b, "START")
  BY TapTyped DEF Modifier
<1>2. (s \o x) \o y = s \o (x \o y)
  BY Regroup
<1>3. s \o <<>> = s
  BY ConcatEmptySeq
<1> QED BY <1>1, <1>2, <1>3 DEF Taps

-----------------------------------------------------------------------------
(* Who holds key k when the walk is past the first i buttons: the buttons  *)
(* passed are as they are now, the others as they were.                    *)
Holding(b, i, k, p) ==
  IF \E j \in 1 .. i : p = Table[j]
  THEN p \in b /\ k = IF p \in last_buttons THEN HoldKey(p) ELSE NewKey(b, p)
  ELSE p \in last_buttons /\ k = HoldKey(p)

Mix(b, i, k) == {p \in Sending : Holding(b, i, k, p)}

(* One button further, p: what a piece does to the holders. *)
MixChange(b, i, k, p, q) ==
  \/ /\ Piece(b, i) = <<>>
     /\ Mix(b, i, k) = Mix(b, i - 1, k)
  \/ /\ p \in Sending \cap (b \ last_buttons)
     /\ Piece(b, i) = Press(q) /\ q = NewKey(b, p)
     /\ p \notin Mix(b, i - 1, k)
     /\ Mix(b, i, k) = Mix(b, i - 1, k) \cup (IF q = k THEN {p} ELSE {})
  \/ /\ p \in Sending \cap (last_buttons \ b)
     /\ Piece(b, i) = Release(q) /\ q = HoldKey(p)
     /\ p \in Mix(b, i - 1, k) <=> q = k
     /\ Mix(b, i, k) = Mix(b, i - 1, k) \ (IF q = k THEN {p} ELSE {})

LEMMA MixStep ==
  ASSUME KeysTyped, NEW b \in SUBSET Button, NEW i \in 1 .. Len(Table), NEW k \in Key
  PROVE  \E p \in Button, q \in Key \cup {NoKey} : MixChange(b, i, k, p, q)
<1>1. PICK p \in Button : p = Table[i]
  BY KeypadAssumption DEF KeypadAssumption
<1>2. \A j \in 1 .. i - 1 : Table[j] # p
  <2>1. \A x, y \in DOMAIN Table : Table[x] = Table[y] => x = y
    BY KeypadAssumption DEF KeypadAssumption, IsInjective
  <2>2. DOMAIN Table = 1 .. Len(Table) /\ Len(Table) \in Nat
    BY KeypadAssumption DEF KeypadAssumption
  <2> QED BY <1>1, <2>1, <2>2
<1>3. \A x : x # p => (Holding(b, i, k, x) <=> Holding(b, i - 1, k, x))
  <2>1. \A j \in 1 .. i : j \in 1 .. i - 1 \/ j = i
    OBVIOUS
  <2>2. 1 .. i - 1 \subseteq 1 .. i
    OBVIOUS
  <2>3. ASSUME NEW x, x # p
        PROVE  (\E j \in 1 .. i : x = Table[j]) <=> (\E j \in 1 .. i - 1 : x = Table[j])
    BY <1>1, <2>1, <2>2, <2>3
  <2> QED BY <2>3, Zenon DEF Holding
<1>4. Holding(b, i - 1, k, p) <=> p \in last_buttons /\ k = HoldKey(p)
  BY <1>2 DEF Holding
<1>5. Holding(b, i, k, p) <=>
        p \in b /\ k = IF p \in last_buttons THEN HoldKey(p) ELSE NewKey(b, p)
  <2>1. i \in 1 .. i
    OBVIOUS
  <2> QED BY <1>1, <2>1 DEF Holding
<1>6. CASE p \notin Sending
  <2>1. Piece(b, i) = <<>>
    BY <1>1, <1>6 DEF Piece
  <2>2. Mix(b, i, k) = Mix(b, i - 1, k)
    BY <1>3, <1>6 DEF Mix
  <2> QED BY <2>1, <2>2 DEF MixChange
<1>7. CASE p \in Sending /\ p \in b \ last_buttons
  <2>1. PICK q \in Key \cup {NoKey} : q = NewKey(b, p)
    BY <1>7, KeysOfButtons
  <2>2. Piece(b, i) = Press(q)
    BY <1>1, <1>7, <2>1 DEF Piece, Pressed
  <2>3. p \notin Mix(b, i - 1, k)
    BY <1>4, <1>7 DEF Mix
  <2>4. Holding(b, i, k, p) <=> q = k
    BY <1>5, <1>7, <2>1
  <2>5. Mix(b, i, k) = Mix(b, i - 1, k) \cup (IF q = k THEN {p} ELSE {})
    BY <1>3, <1>7, <2>3, <2>4 DEF Mix
  <2> QED BY <1>7, <2>1, <2>2, <2>3, <2>5 DEF MixChange
<1>8. CASE p \in Sending /\ p \in last_buttons \ b
  <2>1. PICK q \in Key \cup {NoKey} : q = HoldKey(p)
    BY <1>8, KeysOfButtons
  <2>2. Piece(b, i) = Release(q)
    BY <1>1, <1>8, <2>1 DEF Piece, Pressed, Released
  <2>3. p \in Mix(b, i - 1, k) <=> q = k
    BY <1>4, <1>8, <2>1 DEF Mix
  <2>4. ~Holding(b, i, k, p)
    BY <1>5, <1>8
  <2>5. Mix(b, i, k) = Mix(b, i - 1, k) \ (IF q = k THEN {p} ELSE {})
    BY <1>3, <1>8, <2>3, <2>4 DEF Mix
  <2> QED BY <1>8, <2>1, <2>2, <2>3, <2>5 DEF MixChange
<1>9. CASE p \in Sending /\ (p \in b <=> p \in last_buttons)
  <2>1. Piece(b, i) = <<>>
    BY <1>1, <1>9 DEF Piece, Pressed, Released
  <2>2. Holding(b, i, k, p) <=> Holding(b, i - 1, k, p)
    BY <1>4, <1>5, <1>9
  <2>3. Mix(b, i, k) = Mix(b, i - 1, k)
    BY <1>3, <2>2 DEF Mix
  <2> QED BY <2>1, <2>3 DEF MixChange
<1> QED BY <1>6, <1>7, <1>8, <1>9

(* The holders at the ends of the walk. *)
LEMMA MixEnds ==
  ASSUME KeysTyped, NEW b \in SUBSET Button, NEW k \in Key
  PROVE  /\ Mix(b, 0, k) = Holders(k)
         /\ gb300_input_poll(b) => Holders(k)' = Mix(b, Len(Table), k)
         /\ \A i : Mix(b, i, k) \subseteq Button
<1>1. \A p \in Sending : p \in Button
  BY DEF Sending, Plain
<1>2. Mix(b, 0, k) = Holders(k)
  <2>1. \A p : Holding(b, 0, k, p) <=> p \in last_buttons /\ k = HoldKey(p)
    <3>1. 1 .. 0 = {}
      OBVIOUS
    <3> QED BY <3>1 DEF Holding
  <2>2. CASE keymap.combos
    BY <2>1, <2>2 DEF Mix, Holders, HoldKey, Sending
  <2>3. CASE ~keymap.combos
    BY <2>1, <2>3 DEF Mix, Holders, HoldKey, Sending, KeysTyped
  <2> QED BY <2>2, <2>3
<1>3. ASSUME gb300_input_poll(b) PROVE Holders(k)' = Mix(b, Len(Table), k)
  <2>1. keymap' = keymap /\ last_buttons' = b
    BY <1>3 DEF gb300_input_poll
  <2>2. ASSUME NEW p \in Button
        PROVE  Holding(b, Len(Table), k, p) <=>
                 p \in b /\ k = IF p \in last_buttons THEN HoldKey(p) ELSE NewKey(b, p)
    <3>1. \E j \in 1 .. Len(Table) : p = Table[j]
      BY KeypadAssumption DEF KeypadAssumption, Button, Range
    <3> QED BY <3>1 DEF Holding
  <2>3. CASE keymap.combos
    <3>1. active' = [p \in Plain |->
                       IF p \in Pressed(b) THEN KeyOf(b, p)
                       ELSE IF p \in Released(b) THEN NoKey ELSE active[p]]
      BY <1>3, <2>3 DEF gb300_input_poll
    <3>2. ASSUME NEW p \in Plain, p \in b
          PROVE  active'[p] = IF p \in last_buttons THEN HoldKey(p) ELSE NewKey(b, p)
      BY <2>3, <3>1, <3>2 DEF Pressed, Released, HoldKey, NewKey
    <3>3. Holders(k)' = {p \in Plain \cap b : active'[p] = k}
      BY <2>1, <2>3 DEF Holders
    <3>4. Mix(b, Len(Table), k) = {p \in Plain : Holding(b, Len(Table), k, p)}
      BY <2>3 DEF Mix, Sending
    <3>5. Plain \subseteq Button
      BY DEF Plain
    <3> QED BY <2>2, <3>2, <3>3, <3>4, <3>5
  <2>4. CASE ~keymap.combos
    <3>1. Holders(k)' = {p \in b : keymap.key[p] = k}
      BY <2>1, <2>4 DEF Holders
    <3>2. Mix(b, Len(Table), k) = {p \in Button : Holding(b, Len(Table), k, p)}
      BY <2>4 DEF Mix, Sending
    <3>3. \A p : HoldKey(p) = keymap.key[p] /\ NewKey(b, p) = keymap.key[p]
      BY <2>4 DEF HoldKey, NewKey
    <3> QED BY <2>2, <3>1, <3>2, <3>3
  <2> QED BY <2>3, <2>4
<1> QED BY <1>1, <1>2, <1>3 DEF Mix

-----------------------------------------------------------------------------
(* Keypad: the events of a poll change the balance of a key by as many as  *)
(* there are more holders of it.                                           *)
LEMMA FiniteButtons == IsFiniteSet(Button)
<1>1. DOMAIN Table = 1 .. Len(Table) /\ Len(Table) \in Nat
  BY KeypadAssumption DEF KeypadAssumption
<1>2. IsFiniteSet(DOMAIN Table)
  BY <1>1, FS_Interval
<1>3. Table \in Surjection(DOMAIN Table, Button)
  <2>1. Table \in [DOMAIN Table -> Button]
    BY KeypadAssumption DEF KeypadAssumption
  <2>2. \A p \in Button : \E j \in DOMAIN Table : Table[j] = p
    BY DEF Button, Range
  <2> QED BY <2>1, <2>2 DEF Surjection
<1> QED BY <1>2, <1>3, FS_Surjection

LEMMA NetTap ==
  ASSUME KeysTyped, NEW b \in SUBSET Button, NEW s \in Seq(Entry), NEW m \in Modifier,
         NEW k \in Key
  PROVE  s \o Tap(b, m) \in Seq(Entry) /\ Net(s \o Tap(b, m), k) = Net(s, k)
<1>1. PICK q \in Key \cup {NoKey} : q = keymap.key[m]
  BY KeysOfButtons
<1>2. s \o <<>> = s
  BY ConcatEmptySeq
<1>3. CASE Tap(b, m) = <<>>
  BY <1>2, <1>3
<1>4. CASE Tap(b, m) = Press(q) \o Release(q)
  <2>1. PICK u \in Seq(Entry), v \in Seq(Entry) : u = Press(q) /\ v = Release(q)
    BY SendTyped
  <2>2. (s \o u) \o v = s \o (u \o v)
    BY ConcatAssociative
  <2>3. PICK x \in Seq(Entry) : x = s \o u
    BY ConcatProperties
  <2>4. x \o v \in Seq(Entry)
    BY ConcatProperties
  <2>5. Net(s, k) \in Int /\ Net(s \o Press(q), k) = IF q = k THEN Net(s, k) + 1 ELSE Net(s, k)
    BY NetSend
  <2>6. Net(x \o Release(q), k) = IF q = k THEN Net(x, k) - 1 ELSE Net(x, k)
    BY NetSend
  <2>7. Net(x \o v, k) = Net(s, k)
    <3>1. Net(x, k) = IF q = k THEN Net(s, k) + 1 ELSE Net(s, k)
      BY <2>1, <2>3, <2>5
    <3>2. Net(x \o v, k) = IF q = k THEN Net(x, k) - 1 ELSE Net(x, k)
      BY <2>1, <2>6
    <3> QED BY <2>5, <3>1, <3>2
  <2>8. s \o Tap(b, m) = x \o v
    BY <1>4, <2>1, <2>2, <2>3
  <2> QED BY <2>4, <2>7, <2>8
<1> QED BY <1>1, <1>3, <1>4 DEF Tap

LEMMA PollBalances ==
  ASSUME KeysTyped, NEW b \in SUBSET Button, gb300_input_poll(b), NEW k \in Key
  PROVE  /\ Cardinality(Holders(k)) \in Nat /\ Cardinality(Holders(k)') \in Nat
         /\ Net(Events(b), k) = Cardinality(Holders(k)') - Cardinality(Holders(k))
<1>1. PICK n \in Nat : n = Len(Table)
  BY KeypadAssumption DEF KeypadAssumption
<1>2. PICK s \in Seq(Entry) : s = <<>>
  BY SendTyped
<1>3. PICK t \in Seq(Entry) : t = s \o Taps(b)
  BY PollIsWalk
<1>4. PICK g : Grows(Entry, n, Pieces(b), t, g) /\ s \o Events(b) = g[n]
  BY <1>1, <1>3, PollIsWalk
<1>5. s \o Events(b) = Events(b)
  BY <1>2, PollIsWalk, ConcatEmptySeq
<1>6. Net(t, k) = 0
  <2>1. Net(s, k) = 0
    <3>1. Times(s, k, "pressed") = 0 /\ Times(s, k, "released") = 0
      <4>1. \A r : {i \in DOMAIN s : s[i] = r} = {}
        BY <1>2
      <4> QED BY <4>1, FS_EmptySet DEF Times
    <3> QED BY <3>1 DEF Net
  <2>2. CASE keymap.combos
    <3>1. PICK x \in Seq(Entry) : x = s \o Tap(b, "SELECT") /\ Net(x, k) = Net(s, k)
      BY NetTap DEF Modifier
    <3>2. Net(x \o Tap(b, "START"), k) = Net(x, k)
      BY NetTap DEF Modifier
    <3>3. t = x \o Tap(b, "START")
      BY <1>3, <2>2, <3>1, TapsInOrder
    <3> QED BY <2>1, <3>1, <3>2, <3>3
  <2>3. CASE ~keymap.combos
    BY <1>3, <2>1, <2>3, TapsInOrder
  <2> QED BY <2>2, <2>3
<1>7. ASSUME NEW i PROVE IsFiniteSet(Mix(b, i, k)) /\ Cardinality(Mix(b, i, k)) \in Nat
  BY MixEnds, FiniteButtons, FS_Subset, FS_CardinalityType
<1> DEFINE T == {i \in 0 .. n : Net(g[i], k) = Cardinality(Mix(b, i, k)) - Cardinality(Mix(b, 0, k))}
<1>8. 0 \in T
  BY <1>4, <1>6, <1>7 DEF Grows
<1>9. ASSUME NEW i \in 1 .. n, i - 1 \in T PROVE i \in T
  <2>1. PICK p \in Button, q \in Key \cup {NoKey} : MixChange(b, i, k, p, q)
    BY <1>1, MixStep
  <2>2. PICK u \in Seq(Entry) : u = g[i - 1]
    BY <1>4 DEF Grows
  <2>3. g[i] = u \o Piece(b, i)
    <3>1. i \in 1 .. Len(Table)
      BY <1>1
    <3> QED BY <1>4, <2>2, <3>1 DEF Grows, Pieces
  <2>4. PICK A, B : A = Mix(b, i - 1, k) /\ B = Mix(b, i, k)
    OBVIOUS
  <2>5. PICK x \in Nat, y \in Nat, z \in Nat :
          x = Cardinality(A) /\ y = Cardinality(B) /\ z = Cardinality(Mix(b, 0, k))
    BY <1>7, <2>4
  <2>6. Net(u, k) = x - z
    BY <1>9, <2>2, <2>4, <2>5
  <2>7. IsFiniteSet(A)
    BY <1>7, <2>4
  <2>8. Net(g[i], k) = y - z
    <3>1. CASE Piece(b, i) = <<>> /\ B = A
      <4>1. u \o <<>> = u
        BY ConcatEmptySeq
      <4> QED BY <2>3, <2>5, <2>6, <3>1, <4>1
    <3>2. CASE Piece(b, i) = Press(q) /\ p \notin A /\ B = A \cup (IF q = k THEN {p} ELSE {})
      <4>1. Net(g[i], k) = IF q = k THEN x - z + 1 ELSE x - z
        <5>1. Net(u \o Press(q), k) = IF q = k THEN Net(u, k) + 1 ELSE Net(u, k)
          BY NetSend
        <5> QED BY <2>3, <2>6, <3>2, <5>1
      <4>2. CASE q = k
        <5>1. Cardinality(A \cup {p}) = Cardinality(A) + 1
          BY <2>7, <3>2, FS_AddElement
        <5>2. B = A \cup {p}
          BY <3>2, <4>2
        <5>3. y = x + 1
          BY <2>5, <5>1, <5>2
        <5> QED BY <4>1, <4>2, <5>3
      <4>3. CASE q # k
        <5>1. B = A
          BY <3>2, <4>3
        <5> QED BY <2>5, <4>1, <4>3, <5>1
      <4> QED BY <4>2, <4>3
    <3>3. CASE Piece(b, i) = Release(q) /\ (p \in A <=> q = k) /\ B = A \ (IF q = k THEN {p} ELSE {})
      <4>1. Net(g[i], k) = IF q = k THEN x - z - 1 ELSE x - z
        <5>1. Net(u \o Release(q), k) = IF q = k THEN Net(u, k) - 1 ELSE Net(u, k)
          BY NetSend
        <5> QED BY <2>3, <2>6, <3>3, <5>1
      <4>2. CASE q = k
        <5>1. Cardinality(A \ {p}) = Cardinality(A) - 1
          BY <2>7, <3>3, <4>2, FS_RemoveElement
        <5>2. B = A \ {p}
          BY <3>3, <4>2
        <5>3. y = x - 1
          BY <2>5, <5>1, <5>2
        <5> QED BY <4>1, <4>2, <5>3
      <4>3. CASE q # k
        <5>1. B = A
          BY <3>3, <4>3
        <5> QED BY <2>5, <4>1, <4>3, <5>1
      <4> QED BY <4>2, <4>3
    <3> QED BY <2>1, <2>4, <3>1, <3>2, <3>3 DEF MixChange
  <2>9. i \in 0 .. n
    OBVIOUS
  <2> QED BY <2>4, <2>5, <2>8, <2>9
<1>10. n \in T
  <2> HIDE DEF T
  <2>1. 0 .. n \subseteq T
    BY <1>8, <1>9, UpTo
  <2> QED BY <2>1
<1>11. Mix(b, 0, k) = Holders(k) /\ Holders(k)' = Mix(b, n, k)
  BY <1>1, MixEnds
<1> QED BY <1>4, <1>5, <1>7, <1>10, <1>11

-----------------------------------------------------------------------------
(* The invariant of Keypad.  While combos are on, combo_used tells of a    *)
(* modifier that is held whether it gave a combo, and the key a button     *)
(* holds is its own or that of one of its combos.                          *)
ModifiersTracked ==
  keymap.combos =>
    /\ combined \subseteq last_buttons
    /\ \A m \in Modifier \cap last_buttons : m \in combined <=> combo_used[m]

ActiveIsOwn ==
  keymap.combos => \A p \in Plain \cap last_buttons : active[p] \in KeysOf(p)

KeypadInv ==
  /\ KeysTyped
  /\ held \in [Modifier -> BOOLEAN]
  /\ combo_used \in [Modifier -> BOOLEAN]
  /\ menu \in {"closed", "resume", "leave"}
  /\ combined \subseteq Modifier
  /\ balance \in [Key -> Int]
  /\ Balanced
  /\ ModifiersTracked
  /\ ActiveIsOwn

LEMMA KeypadStart == Init => KeypadInv
<1> SUFFICES ASSUME Init PROVE KeypadInv
  OBVIOUS
<1>1. KeysTyped
  BY DEF Init, KeysTyped
<1>2. Balanced
  <2>1. ASSUME NEW k \in Key PROVE Holders(k) = {}
    BY DEF Init, Holders
  <2> QED BY <2>1, FS_EmptySet DEF Init, Balanced
<1>3. ModifiersTracked /\ ActiveIsOwn
  BY DEF Init, ModifiersTracked, ActiveIsOwn
<1> QED BY <1>1, <1>2, <1>3 DEF Init, KeypadInv

LEMMA NewKeyIsOwn ==
  ASSUME NEW b, NEW p \in Plain
  PROVE  NewKey(b, p) \in KeysOf(p)
<1>1. ASSUME ComboOf(b, p) \in Modifier PROVE p \in ComboButtons[ComboOf(b, p)]
  BY <1>1 DEF ComboOf, Modifier
<1> QED BY <1>1 DEF NewKey, KeyOf, KeysOf

LEMMA PollKeepsKeypadInv ==
  ASSUME KeypadInv, NEW b \in SUBSET Button, gb300_input_poll(b),
         menu' \in {"closed", "resume", "leave"}
  PROVE  KeypadInv'
<1>1. keymap' = keymap /\ last_buttons' = b /\ KeysTyped
  BY DEF gb300_input_poll, KeypadInv
<1>2. KeysTyped'
  <2>1. CASE keymap.combos
    <3>1. active' = [p \in Plain |->
                       IF p \in Pressed(b) THEN KeyOf(b, p)
                       ELSE IF p \in Released(b) THEN NoKey ELSE active[p]]
      BY <2>1 DEF gb300_input_poll
    <3>2. ASSUME NEW p \in Plain PROVE active'[p] \in Key \cup {NoKey}
      <4>1. KeyOf(b, p) \in Key \cup {NoKey} /\ active[p] \in Key \cup {NoKey}
        BY <1>1, <2>1, KeysOfButtons DEF Sending, NewKey, HoldKey
      <4> QED BY <3>1, <4>1
    <3> QED BY <1>1, <3>1, <3>2 DEF KeysTyped
  <2>2. CASE ~keymap.combos
    BY <1>1, <2>2 DEF KeysTyped, gb300_input_poll
  <2> QED BY <2>1, <2>2
<1>3. /\ held' \in [Modifier -> BOOLEAN] /\ combo_used' \in [Modifier -> BOOLEAN]
      /\ combined' \subseteq Modifier
  <2>1. CASE keymap.combos
    <3>1. /\ held' = [m \in Modifier |-> HeldAfter(b, m)]
          /\ combo_used' = [m \in Modifier |-> UsedAfter(b, m)]
          /\ combined' \subseteq Modifier
      BY <2>1 DEF gb300_input_poll
    <3>2. ASSUME NEW m \in Modifier PROVE HeldAfter(b, m) \in BOOLEAN /\ UsedAfter(b, m) \in BOOLEAN
      <4>1. held[m] \in BOOLEAN /\ combo_used[m] \in BOOLEAN
        BY DEF KeypadInv
      <4>2. HeldAfter(b, m) \in BOOLEAN
        <5>1. (m \in b) \in BOOLEAN
          OBVIOUS
        <5>2. HeldAfter(b, m) = (m \in b) \/ HeldAfter(b, m) = held[m]
          BY Zenon DEF HeldAfter
        <5> QED BY <4>1, <5>1, <5>2, Zenon
      <4>3. UsedAfter(b, m) \in BOOLEAN
        <5> DEFINE used == \E p \in Pressed(b) \ Modifier : ComboOf(b, p) = m
        <5>1. UsedAfter(b, m) = IF m \in Pressed(b) \cup Released(b) THEN used
                                ELSE combo_used[m] \/ used
          BY Zenon DEF UsedAfter
        <5>2. used \in BOOLEAN
          OBVIOUS
        <5> HIDE DEF used
        <5> QED BY <4>1, <5>1, <5>2
      <4> QED BY <4>2, <4>3
    <3> QED BY <3>1, <3>2
  <2>2. CASE ~keymap.combos
    BY <2>2 DEF gb300_input_poll, KeypadInv
  <2> QED BY <2>1, <2>2
<1>4. balance' \in [Key -> Int] /\ Balanced'
  <2>1. balance' = [k \in Key |-> balance[k] + Times(Events(b), k, "pressed")
                                             - Times(Events(b), k, "released")]
    BY Zenon DEF gb300_input_poll
  <2>2. ASSUME NEW k \in Key
        PROVE  balance'[k] \in Int /\ balance'[k] = Cardinality(Holders(k)')
    <3>1. PICK x \in Nat, y \in Nat : /\ x = Cardinality(Holders(k)) /\ y = Cardinality(Holders(k)')
                                      /\ Net(Events(b), k) = y - x
      BY <1>1, PollBalances
    <3>2. balance[k] = x
      BY <3>1 DEF KeypadInv, Balanced
    <3>3. PICK e \in Entry : e = Start
      BY DEF Entry
    <3>4. Events(b) \in Seq(Entry)
      BY <1>1, PollIsWalk, SendTyped, EventsAreEntries
    <3>5. PICK u \in Nat, v \in Nat : /\ u = Times(Events(b), k, "pressed")
                                      /\ v = Times(Events(b), k, "released")
      BY <3>3, <3>4, TimesOne
    <3>6. u - v = y - x
      BY <3>1, <3>5 DEF Net
    <3>7. balance'[k] = x + u - v
      BY <2>1, <3>2, <3>5
    <3> QED BY <3>1, <3>6, <3>7
  <2>3. balance' \in [Key -> Int]
    BY <2>1, <2>2
  <2> QED BY <2>2, <2>3 DEF Balanced
<1>5. ModifiersTracked'
  <2> SUFFICES ASSUME keymap.combos
               PROVE  /\ combined' \subseteq b
                      /\ \A m \in Modifier \cap b : m \in combined' <=> combo_used'[m]
    BY <1>1 DEF ModifiersTracked
  <2>1. /\ combo_used' = [m \in Modifier |-> UsedAfter(b, m)]
        /\ combined' = {m \in b \cap Modifier :
                          \/ m \in combined
                          \/ \E p \in Pressed(b) \ Modifier : ComboOf(b, p) = m}
    BY DEF gb300_input_poll
  <2>2. ASSUME NEW m \in Modifier \cap b PROVE m \in combined' <=> combo_used'[m]
    <3> DEFINE used == \E p \in Pressed(b) \ Modifier : ComboOf(b, p) = m
    <3>1. (m \in combined' <=> (m \in combined \/ used)) /\ combo_used'[m] = UsedAfter(b, m)
      BY <2>1
    <3>2. CASE m \in last_buttons
      <4>1. (m \in combined <=> combo_used[m]) /\ m \notin Pressed(b) \cup Released(b)
        BY <3>2 DEF KeypadInv, ModifiersTracked, Pressed, Released
      <4>2. UsedAfter(b, m) = (combo_used[m] \/ used)
        BY <4>1, Zenon DEF UsedAfter
      <4> HIDE DEF used
      <4> QED BY <3>1, <4>1, <4>2
    <3>3. CASE m \notin last_buttons
      <4>1. m \notin combined /\ m \in Pressed(b) \cup Released(b)
        BY <3>3 DEF KeypadInv, ModifiersTracked, Pressed, Released
      <4>2. UsedAfter(b, m) = used
        BY <4>1, Zenon DEF UsedAfter
      <4> HIDE DEF used
      <4> QED BY <3>1, <4>1, <4>2
    <3> QED BY <3>2, <3>3
  <2> QED BY <2>1, <2>2
<1>6. ActiveIsOwn'
  <2> SUFFICES ASSUME keymap.combos, NEW p \in Plain \cap b
               PROVE  active'[p] \in KeysOf(p)
    BY <1>1 DEF ActiveIsOwn, KeysOf
  <2>1. active'[p] = IF p \in Pressed(b) THEN KeyOf(b, p)
                     ELSE IF p \in Released(b) THEN NoKey ELSE active[p]
    BY DEF gb300_input_poll
  <2>2. CASE p \in last_buttons
    BY <2>1, <2>2 DEF Pressed, Released, KeypadInv, ActiveIsOwn
  <2>3. CASE p \notin last_buttons
    <3>1. active'[p] = NewKey(b, p)
      BY <2>1, <2>3 DEF Pressed, NewKey
    <3> QED BY <3>1, NewKeyIsOwn
  <2> QED BY <2>2, <2>3
<1> QED BY <1>2, <1>3, <1>4, <1>5, <1>6 DEF KeypadInv

LEMMA KeypadStep == KeypadInv /\ [Next]_keypadVars => KeypadInv'
<1> SUFFICES ASSUME KeypadInv, [Next]_keypadVars PROVE KeypadInv'
  OBVIOUS
<1>1. ASSUME gb300_input_load_config PROVE KeypadInv'
  <2>1. PICK m \in Keymaps : FreshInput(m)
    BY <1>1 DEF gb300_input_load_config
  <2>2. /\ keymap' \in Keymaps /\ last_buttons' = {}
        /\ held' = [x \in Modifier |-> FALSE] /\ combo_used' = [x \in Modifier |-> FALSE]
        /\ active' = [p \in Plain |-> NoKey] /\ menu' = "closed"
        /\ balance' = [k \in Key |-> 0] /\ combined' = {}
    BY <2>1 DEF FreshInput
  <2>3. KeysTyped'
    BY <2>2 DEF KeysTyped
  <2>4. Balanced'
    <3>1. ASSUME NEW k \in Key PROVE Holders(k)' = {}
      BY <2>2 DEF Holders
    <3> QED BY <2>2, <3>1, FS_EmptySet DEF Balanced
  <2>5. ModifiersTracked' /\ ActiveIsOwn'
    BY <2>2 DEF ModifiersTracked, ActiveIsOwn
  <2> QED BY <2>2, <2>3, <2>4, <2>5 DEF KeypadInv
<1>2. ASSUME NEW b \in SUBSET Button, gb300_poll_events(b) PROVE KeypadInv'
  <2>1. gb300_input_poll(b) /\ menu' \in {"closed", "resume", "leave"}
    BY <1>2 DEF gb300_poll_events
  <2> QED BY <2>1, PollKeepsKeypadInv
<1>3. ASSUME UNCHANGED keypadVars PROVE KeypadInv'
  <2>1. /\ keymap' = keymap /\ last_buttons' = last_buttons /\ held' = held
        /\ combo_used' = combo_used /\ active' = active /\ menu' = menu
        /\ balance' = balance /\ combined' = combined
    BY <1>3 DEF keypadVars
  <2>2. KeysTyped'
    BY <2>1 DEF KeypadInv, KeysTyped
  <2>3. Balanced'
    BY <2>1 DEF KeypadInv, Balanced, Holders
  <2>4. ModifiersTracked'
    BY <2>1 DEF KeypadInv, ModifiersTracked
  <2>5. ActiveIsOwn'
    BY <2>1 DEF KeypadInv, ActiveIsOwn, KeysOf
  <2> QED BY <2>1, <2>2, <2>3, <2>4, <2>5 DEF KeypadInv
<1> QED BY <1>1, <1>2, <1>3 DEF Next

LEMMA KeypadInvariant == Spec => []KeypadInv
BY KeypadStart, KeypadStep, PTL DEF Spec

LEMMA KeypadTypes == KeypadInv => TypeOK
<1> SUFFICES ASSUME KeypadInv PROVE TypeOK
  OBVIOUS
<1>1. /\ keymap \in Keymaps /\ last_buttons \subseteq Button
      /\ active \in [Plain -> Key \cup {NoKey}]
  BY DEF KeypadInv, KeysTyped
<1>2. ASSUME NEW k \in Key PROVE balance[k] \in 0 .. Cardinality(Button)
  <2>1. Holders(k) \subseteq Button
    BY <1>1 DEF Holders
  <2>2. /\ Cardinality(Holders(k)) \in Nat /\ Cardinality(Button) \in Nat
        /\ Cardinality(Holders(k)) <= Cardinality(Button)
    BY <2>1, FiniteButtons, FS_Subset, FS_CardinalityType
  <2>3. balance[k] = Cardinality(Holders(k))
    BY DEF KeypadInv, Balanced
  <2> QED BY <2>2, <2>3
<1>3. balance \in [Key -> 0 .. Cardinality(Button)]
  <2>1. balance \in [Key -> Int]
    BY DEF KeypadInv
  <2> QED BY <1>2, <2>1
<1> QED BY <1>1, <1>3 DEF KeypadInv, TypeOK

(* A modifier serves once whatever the step is: the invariant alone says   *)
(* when it taps.                                                           *)
LEMMA ServesOnceStep ==
  ASSUME KeypadInv, NEW m \in Modifier, NEW b, keymap.combos,
         keymap.key[m] # NoKey, m \in last_buttons \ b
  PROVE  m \in combined <=> Tap(b, m) = <<>>
<1>1. m \in combined <=> combo_used[m]
  BY DEF KeypadInv, ModifiersTracked
<1>2. PICK e, f : Press(keymap.key[m]) = <<e>> /\ Release(keymap.key[m]) = <<f>>
  BY DEF Press, Release, Send
<1>3. <<e>> \o <<f>> # <<>>
  OBVIOUS
<1>4. Tap(b, m) = IF ~combo_used[m] THEN <<e>> \o <<f>> ELSE <<>>
  BY <1>2 DEF Tap, Released
<1> QED BY <1>1, <1>3, <1>4

(* Every key is down as often as buttons hold it, whatever happens to the  *)
(* modifiers while a button is down.                                       *)
THEOREM PressesMatchReleases == Spec => []TypeOK /\ []Balanced
<1>1. KeypadInv => TypeOK /\ Balanced
  BY KeypadTypes DEF KeypadInv
<1> QED BY <1>1, KeypadInvariant, PTL

(* A modifier that is let go has either given a combo or taps its key.     *)
THEOREM ModifiersServeOnce == Spec => ModifierServesOnce
<1>1. KeypadInv /\ [Next]_keypadVars =>
        [\A m \in Modifier :
           keymap.combos /\ keymap' = keymap /\ keymap.key[m] # NoKey
             /\ m \in last_buttons \ last_buttons'
             => (m \in combined <=> Tap(last_buttons', m) = <<>>)]_keypadVars
  <2> SUFFICES ASSUME KeypadInv, NEW m \in Modifier, keymap.combos,
                      keymap.key[m] # NoKey, m \in last_buttons \ last_buttons'
               PROVE  m \in combined <=> Tap(last_buttons', m) = <<>>
    OBVIOUS
  <2>1. PICK b : b = last_buttons'
    OBVIOUS
  <2>2. m \in combined <=> Tap(b, m) = <<>>
    BY <2>1, ServesOnceStep
  <2> QED BY <2>1, <2>2
<1> QED BY <1>1, KeypadInvariant, PTL DEF Spec, ModifierServesOnce

-----------------------------------------------------------------------------
(* What a game that follows the events believes, over a poll. *)
LEMMA BelievedTap ==
  ASSUME KeysTyped, NEW b \in SUBSET Button, NEW m \in Modifier,
         NEW d \in SUBSET Key, NEW s \in Seq(Entry), NEW k \in Key
  PROVE  /\ k \in Believed(d, s \o Tap(b, m)) => k \in Believed(d, s)
         /\ k \in Believed(d, s) => k \in Believed(d, s \o Tap(b, m)) \/ k = keymap.key[m]
<1>1. PICK q \in Key \cup {NoKey} : q = keymap.key[m]
  BY KeysOfButtons
<1>2. s \o <<>> = s
  BY ConcatEmptySeq
<1>3. CASE Tap(b, m) = <<>>
  BY <1>2, <1>3
<1>4. CASE Tap(b, m) = Press(q) \o Release(q)
  <2>1. PICK u \in Seq(Entry), v \in Seq(Entry) : u = Press(q) /\ v = Release(q)
    BY SendTyped
  <2>2. (s \o u) \o v = s \o (u \o v)
    BY ConcatAssociative
  <2>3. PICK x \in Seq(Entry) : x = s \o u
    BY ConcatProperties
  <2>4. k \in Believed(d, s \o Press(q)) <=> k \in Believed(d, s) \/ k = q
    BY BelievedSend
  <2>5. k \in Believed(d, x \o Release(q)) <=> k \in Believed(d, x) /\ k # q
    BY BelievedSend
  <2>6. s \o Tap(b, m) = x \o Release(q)
    BY <1>4, <2>1, <2>2, <2>3
  <2> QED BY <1>1, <2>1, <2>3, <2>4, <2>5, <2>6
<1> QED BY <1>1, <1>3, <1>4 DEF Tap

LEMMA BelievedTaps ==
  ASSUME KeysTyped, NEW b \in SUBSET Button, NEW d \in SUBSET Key, NEW s \in Seq(Entry),
         NEW k \in Key
  PROVE  /\ k \in Believed(d, s \o Taps(b)) => k \in Believed(d, s)
         /\ k \in Believed(d, s) =>
              \/ k \in Believed(d, s \o Taps(b))
              \/ keymap.combos /\ \E m \in Modifier : k = keymap.key[m]
<1>1. CASE keymap.combos
  <2>1. PICK x \in Seq(Entry) : x = s \o Tap(b, "SELECT")
    BY TapTyped, ConcatProperties DEF Modifier
  <2>2. s \o Taps(b) = x \o Tap(b, "START")
    BY <1>1, <2>1, TapsInOrder
  <2>3. PICK m \in Modifier, l \in Modifier : m = "SELECT" /\ l = "START"
    BY DEF Modifier
  <2>4. /\ k \in Believed(d, x) => k \in Believed(d, s)
        /\ k \in Believed(d, s) => k \in Believed(d, x) \/ k = keymap.key[m]
    BY <2>1, <2>3, BelievedTap
  <2>5. /\ k \in Believed(d, x \o Tap(b, l)) => k \in Believed(d, x)
        /\ k \in Believed(d, x) => k \in Believed(d, x \o Tap(b, l)) \/ k = keymap.key[l]
    BY BelievedTap
  <2> QED BY <1>1, <2>2, <2>3, <2>4, <2>5
<1>2. CASE ~keymap.combos
  <2>1. s \o Taps(b) = s
    BY <1>2, TapsInOrder
  <2> QED BY <2>1
<1> QED BY <1>1, <1>2

LEMMA PollLeavesNoneStuck ==
  ASSUME KeysTyped, NEW b \in SUBSET Button, gb300_input_poll(b),
         NEW d \in SUBSET Key, NEW s \in Seq(Entry), NEW k \in Key,
         k \in Believed(d, s) => Holders(k) # {}
  PROVE  k \in Believed(d, s \o Events(b)) => Holders(k)' # {}
<1>1. PICK n \in Nat : n = Len(Table)
  BY KeypadAssumption DEF KeypadAssumption
<1>2. PICK t \in Seq(Entry) : t = s \o Taps(b)
  BY PollIsWalk
<1>3. PICK g : Grows(Entry, n, Pieces(b), t, g) /\ s \o Events(b) = g[n]
  BY <1>1, <1>2, PollIsWalk
<1> DEFINE T == {i \in 0 .. n : k \in Believed(d, g[i]) => Mix(b, i, k) # {}}
<1>4. 0 \in T
  <2>1. k \in Believed(d, t) => Mix(b, 0, k) # {}
    BY <1>2, BelievedTaps, MixEnds
  <2>2. g[0] = t
    BY <1>3 DEF Grows
  <2> QED BY <2>1, <2>2
<1>5. ASSUME NEW i \in 1 .. n, i - 1 \in T PROVE i \in T
  <2>1. PICK p \in Button, q \in Key \cup {NoKey} : MixChange(b, i, k, p, q)
    BY <1>1, MixStep
  <2>2. PICK u \in Seq(Entry) : u = g[i - 1]
    BY <1>3 DEF Grows
  <2>3. g[i] = u \o Piece(b, i)
    <3>1. i \in 1 .. Len(Table)
      BY <1>1
    <3> QED BY <1>3, <2>2, <3>1 DEF Grows, Pieces
  <2>4. PICK A, B : A = Mix(b, i - 1, k) /\ B = Mix(b, i, k)
    OBVIOUS
  <2>5. k \in Believed(d, u) => A # {}
    BY <1>5, <2>2, <2>4
  <2>6. k \in Believed(d, g[i]) => B # {}
    <3>1. CASE Piece(b, i) = <<>> /\ B = A
      <4>1. u \o <<>> = u
        BY ConcatEmptySeq
      <4> QED BY <2>3, <2>5, <3>1, <4>1
    <3>2. CASE Piece(b, i) = Press(q) /\ B = A \cup (IF q = k THEN {p} ELSE {})
      <4>1. k \in Believed(d, u \o Press(q)) <=> k \in Believed(d, u) \/ k = q
        BY BelievedSend
      <4> QED BY <2>3, <2>5, <3>2, <4>1
    <3>3. CASE Piece(b, i) = Release(q) /\ B = A \ (IF q = k THEN {p} ELSE {})
      <4>1. k \in Believed(d, u \o Release(q)) <=> k \in Believed(d, u) /\ k # q
        BY BelievedSend
      <4> QED BY <2>3, <2>5, <3>3, <4>1
    <3> QED BY <2>1, <2>4, <3>1, <3>2, <3>3 DEF MixChange
  <2>7. i \in 0 .. n
    OBVIOUS
  <2> QED BY <2>4, <2>6, <2>7
<1>6. n \in T
  <2> HIDE DEF T
  <2>1. 0 .. n \subseteq T
    BY <1>4, <1>5, UpTo
  <2> QED BY <2>1
<1>7. Holders(k)' = Mix(b, n, k)
  BY <1>1, MixEnds
<1> QED BY <1>3, <1>6, <1>7

LEMMA OwnKeysApart ==
  ASSUME KeysUnshared, NEW k \in Key, NEW p \in Button, NEW x \in Button,
         k \in KeysOf(p), k \in KeysOf(x)
  PROVE  p = x
BY KeypadAssumption DEF KeysUnshared, KeypadAssumption

LEMMA MixOwns ==
  ASSUME KeysTyped, ActiveIsOwn, NEW b \in SUBSET Button, NEW i, NEW k \in Key,
         NEW x \in Mix(b, i, k)
  PROVE  x \in Button /\ k \in KeysOf(x)
<1>1. x \in Sending /\ Holding(b, i, k, x)
  BY DEF Mix
<1>2. x \in Button
  BY <1>1, KeysOfButtons
<1>3. NewKey(b, x) \in KeysOf(x)
  BY <1>1, NewKeyIsOwn DEF Sending, NewKey, KeysOf
<1>4. x \in last_buttons => HoldKey(x) \in KeysOf(x)
  BY <1>1 DEF Sending, HoldKey, ActiveIsOwn, KeysOf
<1> QED BY <1>1, <1>2, <1>3, <1>4 DEF Holding

LEMMA PollKeepsSight ==
  ASSUME KeysTyped, ActiveIsOwn, KeysUnshared, NEW b \in SUBSET Button, gb300_input_poll(b),
         NEW d \in SUBSET Key, NEW s \in Seq(Entry), NEW E \in SUBSET HeldKeys, NEW k \in Key,
         k \in Believed(d, s) <=> Holders(k) # {} /\ k \notin E
  PROVE  k \in Believed(d, s \o Events(b)) <=> Holders(k)' # {} /\ k \notin E
<1>1. PICK n \in Nat : n = Len(Table)
  BY KeypadAssumption DEF KeypadAssumption
<1>2. PICK t \in Seq(Entry) : t = s \o Taps(b)
  BY PollIsWalk
<1>3. PICK g : Grows(Entry, n, Pieces(b), t, g) /\ s \o Events(b) = g[n]
  BY <1>1, <1>2, PollIsWalk
<1>4. \A x \in Holders(k) : x \in Sending /\ x \in last_buttons /\ x \in Button /\ k \in KeysOf(x)
  <2>1. Mix(b, 0, k) = Holders(k)
    BY MixEnds
  <2> QED BY <2>1, MixOwns DEF Mix, Holders
<1> DEFINE T == {i \in 0 .. n : k \in Believed(d, g[i]) <=> Mix(b, i, k) # {} /\ k \notin E}
<1>5. 0 \in T
  <2>1. ASSUME k \in Believed(d, s), keymap.combos, NEW m \in Modifier, k = keymap.key[m]
        PROVE  FALSE
    <3>1. PICK x \in Holders(k) : x \in Sending
      BY <1>4, <2>1
    <3>2. m \in Button /\ k \in KeysOf(m)
      BY <2>1, KeypadAssumption DEF KeypadAssumption, KeysOf
    <3>3. x = m
      BY <1>4, <3>1, <3>2, OwnKeysApart
    <3> QED BY <2>1, <3>1, <3>3 DEF Sending, Plain
  <2>2. k \in Believed(d, t) <=> k \in Believed(d, s)
    BY <1>2, <2>1, BelievedTaps
  <2>3. g[0] = t /\ Mix(b, 0, k) = Holders(k)
    BY <1>3, MixEnds DEF Grows
  <2> QED BY <2>2, <2>3
<1>6. ASSUME NEW i \in 1 .. n, i - 1 \in T PROVE i \in T
  <2>1. PICK p \in Button, q \in Key \cup {NoKey} : MixChange(b, i, k, p, q)
    BY <1>1, MixStep
  <2>2. PICK u \in Seq(Entry) : u = g[i - 1]
    BY <1>3 DEF Grows
  <2>3. g[i] = u \o Piece(b, i)
    <3>1. i \in 1 .. Len(Table)
      BY <1>1
    <3> QED BY <1>3, <2>2, <3>1 DEF Grows, Pieces
  <2>4. PICK A, B : A = Mix(b, i - 1, k) /\ B = Mix(b, i, k)
    OBVIOUS
  <2>5. k \in Believed(d, u) <=> A # {} /\ k \notin E
    BY <1>6, <2>2, <2>4
  <2>6. k \in Believed(d, g[i]) <=> B # {} /\ k \notin E
    <3>1. CASE Piece(b, i) = <<>> /\ B = A
      <4>1. u \o <<>> = u
        BY ConcatEmptySeq
      <4> QED BY <2>3, <2>5, <3>1, <4>1
    <3>2. CASE /\ p \in Sending \cap (b \ last_buttons)
               /\ Piece(b, i) = Press(q) /\ q = NewKey(b, p)
               /\ B = A \cup (IF q = k THEN {p} ELSE {})
      <4>1. k \in Believed(d, u \o Press(q)) <=> k \in Believed(d, u) \/ k = q
        BY BelievedSend
      <4>2. ASSUME q = k, k \in E PROVE FALSE
        <5>1. PICK x \in Holders(k) : x \in last_buttons /\ x \in Button /\ k \in KeysOf(x)
          BY <1>4, <4>2 DEF HeldKeys
        <5>2. k \in KeysOf(p)
          BY <3>2, <4>2, NewKeyIsOwn DEF Sending, NewKey, KeysOf
        <5>3. x = p
          BY <5>1, <5>2, OwnKeysApart
        <5> QED BY <3>2, <5>1, <5>3
      <4> QED BY <2>3, <2>5, <3>2, <4>1, <4>2
    <3>3. CASE /\ p \in Sending \cap (last_buttons \ b)
               /\ Piece(b, i) = Release(q) /\ q = HoldKey(p)
               /\ B = A \ (IF q = k THEN {p} ELSE {})
      <4>1. k \in Believed(d, u \o Release(q)) <=> k \in Believed(d, u) /\ k # q
        BY BelievedSend
      <4>2. ASSUME q = k PROVE B = {}
        <5>1. k \in KeysOf(p)
          BY <3>3, <4>2 DEF Sending, HoldKey, ActiveIsOwn, KeysOf
        <5>2. ASSUME NEW x \in A PROVE x = p
          BY <2>4, <5>1, MixOwns, OwnKeysApart
        <5> QED BY <3>3, <4>2, <5>2
      <4> QED BY <2>3, <2>5, <3>3, <4>1, <4>2
    <3> QED BY <2>1, <2>4, <3>1, <3>2, <3>3 DEF MixChange
  <2>7. i \in 0 .. n
    OBVIOUS
  <2> QED BY <2>4, <2>6, <2>7
<1>7. n \in T
  <2> HIDE DEF T
  <2>1. 0 .. n \subseteq T
    BY <1>5, <1>6, UpTo
  <2> QED BY <2>1
<1>8. Holders(k)' = Mix(b, n, k)
  BY <1>1, MixEnds
<1> QED BY <1>3, <1>7, <1>8

-----------------------------------------------------------------------------
(* KeyDelivery uses Keypad as it is specified. *)
LEMMA DeliveryStepsKeypad == [DeliveryNext]_vars => [Next]_keypadVars
<1> SUFFICES ASSUME [DeliveryNext]_vars PROVE [Next]_keypadVars
  OBVIOUS
<1>1. ASSUME retro_load_game PROVE Next
  BY <1>1 DEF retro_load_game, Next
<1>2. ASSUME NEW b \in SUBSET Button, Poll(b) PROVE Next
  BY <1>2 DEF Poll, Next
<1>3. ASSUME \/ retro_unload_game \/ SendStart \/ JavaTask \/ checkForSystemSignal \/ VMEnds
             \/ UNCHANGED vars
      PROVE  UNCHANGED keypadVars
  BY <1>3 DEF retro_unload_game, SendStart, JavaTask, checkForSystemSignal, VMEnds, vars
<1> QED BY <1>1, <1>2, <1>3 DEF DeliveryNext

(* The buttons of every game of the process follow Keypad. *)
THEOREM DeliveryIsKeypad == DeliverySpec => Spec
<1>1. DeliveryInit => Init
  BY DEF DeliveryInit
<1> QED BY <1>1, DeliveryStepsKeypad, PTL DEF DeliverySpec, Spec

(* What the two theorems on Keypad say holds over all the games. *)
THEOREM GamesKeepBalance == DeliverySpec => []TypeOK /\ []Balanced /\ ModifierServesOnce
BY DeliveryIsKeypad, PressesMatchReleases, ModifiersServeOnce, PTL

-----------------------------------------------------------------------------
(* The ring. *)
LEMMA FittingIsAll ==
  ASSUME NEW s \in Seq(Entry), Len(s) <= Capacity
  PROVE  FirstFit(s) = s
<1>1. Len(s) \in Nat /\ Capacity \in Nat
  BY DeliveryAssumption DEF DeliveryAssumption
<1>2. PICK n \in Nat : n = Len(s) /\ n = IF Len(s) < Capacity THEN Len(s) ELSE Capacity
  BY <1>1
<1>3. FirstFit(s) = SubSeq(s, 1, n)
  BY <1>2 DEF FirstFit
<1>4. /\ SubSeq(s, 1, n) \in Seq(Entry) /\ Len(SubSeq(s, 1, n)) = n
      /\ \A i \in 1 .. n : SubSeq(s, 1, n)[i] = s[i]
  BY <1>2, SubSeqProperties
<1> QED BY <1>2, <1>3, <1>4, SeqEqual

LEMMA FitTyped ==
  ASSUME NEW s \in Seq(Entry)
  PROVE  FirstFit(s) \in Seq(Entry) /\ Len(FirstFit(s)) <= Capacity
<1>1. Len(s) \in Nat /\ Capacity \in Nat
  BY DeliveryAssumption DEF DeliveryAssumption
<1>2. PICK n \in Nat : /\ n <= Len(s) /\ n <= Capacity
                       /\ n = IF Len(s) < Capacity THEN Len(s) ELSE Capacity
  BY <1>1
<1>3. FirstFit(s) = SubSeq(s, 1, n)
  BY <1>2 DEF FirstFit
<1>4. SubSeq(s, 1, n) \in Seq(Entry) /\ Len(SubSeq(s, 1, n)) = n
  BY <1>1, <1>2, SubSeqProperties
<1> QED BY <1>2, <1>3, <1>4

(* The only START of q, at m. *)
OnlyStart(q, m) ==
  /\ m \in 1 .. Len(q) /\ q[m] = Start
  /\ \A i \in 1 .. Len(q) : q[i] = Start => i = m

(* Heard in another phase and of another queue. *)
HeardIn(ph, q) ==
  IF ph = "vm" THEN q
  ELSE LET starts == {i \in DOMAIN q : q[i] = Start}
       IN  IF starts = {} THEN <<>>
           ELSE SubSeq(q, Min(starts) + 1, Len(q))

LEMMA HeardAfterStart ==
  ASSUME NEW ph, ph # "vm", NEW q \in Seq(Entry), NEW m, OnlyStart(q, m)
  PROVE  HeardIn(ph, q) = SubSeq(q, m + 1, Len(q))
<1>1. m \in 1 .. Len(q) /\ Len(q) \in Nat /\ DOMAIN q = 1 .. Len(q)
  BY DEF OnlyStart
<1>2. {i \in DOMAIN q : q[i] = Start} = {m}
  BY <1>1 DEF OnlyStart
<1>3. Min({m}) = m
  BY <1>1 DEF Min
<1>4. {m} # {}
  OBVIOUS
<1>5. PICK D : D = {i \in DOMAIN q : q[i] = Start}
  OBVIOUS
<1>6. HeardIn(ph, q) = IF D = {} THEN <<>> ELSE SubSeq(q, Min(D) + 1, Len(q))
  BY <1>5 DEF HeardIn
<1> QED BY <1>2, <1>3, <1>4, <1>5, <1>6

LEMMA WhatFollows ==
  ASSUME NEW q \in Seq(Entry), NEW m \in 1 .. Len(q)
  PROVE  /\ SubSeq(q, m + 1, Len(q)) \in Seq(Entry)
         /\ Len(SubSeq(q, m + 1, Len(q))) = Len(q) - m
         /\ \A i \in 1 .. Len(q) - m : SubSeq(q, m + 1, Len(q))[i] = q[m + i]
<1>1. PICK n \in Nat, k \in Nat : n = Len(q) /\ k = m + 1 /\ k <= n + 1
  OBVIOUS
<1>2. \A i \in k .. n : q[i] \in Entry
  BY <1>1
<1>3. PICK a : a = SubSeq(q, k, n)
  OBVIOUS
<1>4. /\ a \in Seq(Entry)
      /\ Len(a) = IF k <= n THEN n - k + 1 ELSE 0
      /\ \A i \in 1 .. n - k + 1 : a[i] = q[k + i - 1]
  BY <1>2, <1>3, SubSeqProperties
<1>5. n - m = n - k + 1 /\ Len(a) = n - m
  BY <1>1, <1>4
<1>6. ASSUME NEW i \in 1 .. n - m PROVE a[i] = q[m + i]
  <2>1. k + i - 1 = m + i
    BY <1>1
  <2> QED BY <1>4, <1>5, <2>1
<1> QED BY <1>1, <1>3, <1>4, <1>5, <1>6

(* More events behind: they are heard as well. *)
LEMMA HeardGrows ==
  ASSUME NEW q \in Seq(Entry), NEW e \in Seq(Event), NEW m, OnlyStart(q, m)
  PROVE  /\ OnlyStart(q \o e, m)
         /\ SubSeq(q \o e, m + 1, Len(q \o e)) = SubSeq(q, m + 1, Len(q)) \o e
         /\ SubSeq(q, m + 1, Len(q)) \in Seq(Entry)
<1>1. PICK n \in Nat, l \in Nat : n = Len(q) /\ l = Len(e)
  OBVIOUS
<1>2. m \in 1 .. n
  BY <1>1 DEF OnlyStart
<1>3. PICK f \in Seq(Entry) : f = e
  BY EventsAreEntries
<1>4. PICK r \in Seq(Entry) : r = q \o f
  BY ConcatProperties
<1>5. Len(r) = n + l /\ \A i \in 1 .. n + l : r[i] = IF i <= n THEN q[i] ELSE f[i - n]
  BY <1>1, <1>3, <1>4, ConcatProperties
<1>6. \A i \in 1 .. l : f[i] # Start
  <2>1. \A i \in 1 .. l : e[i] \in Event
    BY <1>1
  <2>2. Start \notin Event
    BY DEF Start, Event
  <2> QED BY <1>3, <2>1, <2>2
<1>7. OnlyStart(r, m)
  <2>1. m \in 1 .. n + l /\ r[m] = Start
    BY <1>1, <1>2, <1>5 DEF OnlyStart
  <2>2. ASSUME NEW i \in 1 .. n + l, r[i] = Start PROVE i = m
    <3>1. CASE i <= n
      BY <1>1, <1>5, <2>2, <3>1 DEF OnlyStart
    <3>2. CASE ~(i <= n)
      <4>1. i - n \in 1 .. l /\ r[i] = f[i - n]
        BY <1>5, <3>2
      <4> QED BY <1>6, <2>2, <4>1
    <3> QED BY <3>1, <3>2
  <2> QED BY <1>5, <2>1, <2>2 DEF OnlyStart
<1>8. PICK a \in Seq(Entry) : /\ a = SubSeq(q, m + 1, n) /\ Len(a) = n - m
                              /\ \A i \in 1 .. n - m : a[i] = q[m + i]
  BY <1>1, <1>2, WhatFollows
<1>9. Len(r) = n + l /\ m \in 1 .. Len(r)
  BY <1>2, <1>5
<1>10. PICK c : c = SubSeq(r, m + 1, Len(r))
  OBVIOUS
<1>11. /\ c \in Seq(Entry) /\ Len(c) = Len(r) - m
       /\ \A i \in 1 .. Len(r) - m : c[i] = r[m + i]
  BY <1>9, <1>10, WhatFollows
<1>12. /\ c \in Seq(Entry) /\ Len(c) = n + l - m
      /\ \A i \in 1 .. n + l - m : c[i] = r[m + i]
  BY <1>9, <1>11
<1>13. /\ a \o f \in Seq(Entry) /\ Len(a \o f) = (n - m) + l
       /\ \A i \in 1 .. (n - m) + l : (a \o f)[i] = IF i <= n - m THEN a[i] ELSE f[i - (n - m)]
  BY <1>1, <1>3, <1>8, ConcatProperties
<1>14. ASSUME NEW i \in 1 .. n + l - m PROVE c[i] = (a \o f)[i]
  <2>1. m + i \in 1 .. n + l /\ c[i] = r[m + i] /\ i \in 1 .. (n - m) + l
    BY <1>2, <1>12
  <2>2. CASE i <= n - m
    <3>1. m + i <= n /\ i \in 1 .. n - m
      BY <1>2, <2>2
    <3> QED BY <1>5, <1>8, <1>13, <2>1, <2>2, <3>1
  <2>3. CASE ~(i <= n - m)
    <3>1. ~(m + i <= n) /\ (m + i) - n = i - (n - m)
      BY <1>2, <2>3
    <3> QED BY <1>5, <1>13, <2>1, <2>3, <3>1
  <2> QED BY <2>2, <2>3
<1>15. n + l - m = (n - m) + l
  BY <1>2
<1>16. c = a \o f
  BY <1>12, <1>13, <1>14, <1>15, SeqEqual
<1> QED BY <1>1, <1>3, <1>4, <1>7, <1>8, <1>16, <1>10

(* JavaTask takes the first event; the START behind it moves up. *)
LEMMA HeardFromTail ==
  ASSUME NEW q \in Seq(Entry), NEW m, OnlyStart(q, m)
  PROVE  /\ q # <<>>
         /\ Head(q) = Start => m = 1 /\ SubSeq(q, m + 1, Len(q)) = Tail(q)
         /\ Head(q) # Start => /\ OnlyStart(Tail(q), m - 1)
                               /\ SubSeq(Tail(q), m - 1 + 1, Len(Tail(q))) = SubSeq(q, m + 1, Len(q))
<1>1. PICK n \in Nat : n + 1 = Len(q) /\ m \in 1 .. n + 1
  <2>1. Len(q) \in Nat /\ m \in 1 .. Len(q) /\ Len(q) - 1 \in Nat
    BY DEF OnlyStart
  <2> QED BY <2>1
<1>2. q # <<>>
  BY <1>1
<1>3. PICK u \in Seq(Entry) : u = Tail(q)
  BY <1>2, HeadTailProperties
<1>4. Len(u) = n /\ \A i \in 1 .. n : u[i] = q[i + 1]
  BY <1>1, <1>2, <1>3, HeadTailProperties
<1>5. Head(q) = q[1]
  BY <1>2
<1>6. PICK a : a = SubSeq(q, m + 1, Len(q))
  OBVIOUS
<1>7. /\ a \in Seq(Entry) /\ Len(a) = Len(q) - m
       /\ \A i \in 1 .. Len(q) - m : a[i] = q[m + i]
  BY <1>1, <1>6, WhatFollows
<1>8. /\ a \in Seq(Entry) /\ Len(a) = n + 1 - m
      /\ \A i \in 1 .. n + 1 - m : a[i] = q[m + i]
  BY <1>1, <1>7
<1>9. ASSUME q[1] = Start PROVE m = 1 /\ a = u
  <2>1. m = 1
    BY <1>1, <1>9 DEF OnlyStart
  <2>2. \A i \in 1 .. n : a[i] = u[i]
    BY <1>4, <1>8, <2>1
  <2>3. Len(a) = n
    BY <1>8, <2>1
  <2> QED BY <1>4, <1>8, <2>1, <2>2, <2>3, SeqEqual
<1>10. ASSUME q[1] # Start
      PROVE  OnlyStart(u, m - 1) /\ SubSeq(u, m - 1 + 1, Len(u)) = a
  <2>1. m # 1
    BY <1>10 DEF OnlyStart
  <2>2. PICK l \in 1 .. n : l = m - 1 /\ l + 1 = m
    <3>1. m - 1 \in 1 .. n /\ (m - 1) + 1 = m
      BY <1>1, <2>1
    <3> QED BY <3>1
  <2>3. OnlyStart(u, l)
    <3>1. u[l] = Start
      BY <1>4, <2>2 DEF OnlyStart
    <3>2. ASSUME NEW i \in 1 .. n, u[i] = Start PROVE i = l
      <4>1. q[i + 1] = Start /\ i + 1 \in 1 .. Len(q)
        BY <1>1, <1>4, <3>2
      <4>2. i + 1 = m
        BY <4>1 DEF OnlyStart
      <4> QED BY <2>2, <4>2
    <3> QED BY <1>4, <3>1, <3>2 DEF OnlyStart
  <2>4. PICK c \in Seq(Entry) : /\ c = SubSeq(u, l + 1, Len(u)) /\ Len(c) = n - l
                                /\ \A i \in 1 .. n - l : c[i] = u[l + i]
    BY <1>4, <2>2, WhatFollows
  <2>5. n - l = n + 1 - m
    BY <2>2
  <2>6. ASSUME NEW i \in 1 .. n - l PROVE c[i] = a[i]
    <3>1. l + i \in 1 .. n /\ (l + i) + 1 = m + i
      <4>1. n \in Nat /\ l \in Nat /\ i \in Nat /\ 1 <= i /\ i <= n - l
        OBVIOUS
      <4>2. m = l + 1
        BY <2>2
      <4> QED BY <4>1, <4>2
    <3>2. c[i] = q[m + i]
      BY <1>4, <2>4, <3>1
    <3> QED BY <1>8, <2>5, <3>2
  <2>7. c = a
    BY <1>8, <2>4, <2>5, <2>6, SeqEqual
  <2> QED BY <2>2, <2>3, <2>4, <2>7
<1> QED BY <1>2, <1>3, <1>5, <1>9, <1>10, <1>6

-----------------------------------------------------------------------------
(* The invariant of KeyDelivery.  As long as all is clean JavaTask has     *)
(* exactly one START before it, and until it has taken it the game has     *)
(* seen no key.                                                            *)
DeliveryTypes ==
  /\ phase \in Phase
  /\ queue \in Seq(Entry) /\ Len(queue) <= Capacity
  /\ down \in SUBSET Key
  /\ refused \in BOOLEAN /\ stale \in BOOLEAN

OneStart == Clean /\ phase = "task" => \E m : OnlyStart(queue, m)

DeliveryInv ==
  /\ KeypadInv
  /\ DeliveryTypes
  /\ phase \in {"boot", "task"} => down = {}
  /\ early \subseteq HeldKeys
  /\ OneStart
  /\ NoStuckKey
  /\ HeldKeysSeen

LEMMA HeardIsHeardIn == Heard = HeardIn(phase, queue)
BY Zenon DEF Heard, HeardIn

LEMMA HeardTyped ==
  ASSUME DeliveryTypes, OneStart, Running, Clean
  PROVE  Heard \in Seq(Entry)
<1>1. CASE phase = "vm"
  BY <1>1 DEF Heard, DeliveryTypes
<1>2. CASE phase = "task"
  <2>1. PICK m : OnlyStart(queue, m)
    BY <1>2 DEF OneStart
  <2>2. queue \in Seq(Entry) /\ phase # "vm"
    BY <1>2 DEF DeliveryTypes
  <2>3. Heard = SubSeq(queue, m + 1, Len(queue))
    BY <2>1, <2>2, HeardAfterStart, HeardIsHeardIn
  <2>4. m \in 1 .. Len(queue)
    BY <2>1 DEF OnlyStart
  <2>5. SubSeq(queue, m + 1, Len(queue)) \in Seq(Entry)
    BY <2>2, <2>4, WhatFollows
  <2> QED BY <2>3, <2>5
<1> QED BY <1>1, <1>2 DEF Running

(* A poll puts all its events behind what is still to be heard. *)
LEMMA PollIsHeard ==
  ASSUME DeliveryInv, NEW b \in SUBSET Button, Poll(b), Running', Clean'
  PROVE  /\ Running /\ Clean /\ phase' = phase
         /\ Heard' = Heard \o Events(b)
         /\ phase = "task" => \E m : OnlyStart(queue', m)
<1>1. phase' = phase /\ Running
  BY DEF Poll, Running
<1>2. ~refused' /\ ~stale' /\ stale' = stale /\ refused' = (refused \/ Refuses(Events(b)))
  BY <1>1, Zenon DEF Poll, Clean
<1>3. Clean /\ ~Refuses(Events(b))
  BY <1>2 DEF Clean
<1>4. PICK q \in Seq(Entry) : q = queue
  BY DEF DeliveryInv, DeliveryTypes
<1>5. PICK e \in Seq(Event) : e = Events(b)
  BY SendTyped, PollIsWalk DEF DeliveryInv, KeypadInv
<1>6. PICK r : r = q \o e
  OBVIOUS
<1>7. queue' = r
  <2>1. PICK f \in Seq(Entry) : f = e
    BY EventsAreEntries
  <2>2. r \in Seq(Entry) /\ Len(r) = Len(q) + Len(f)
    BY <1>6, <2>1, ConcatProperties
  <2>3. Len(r) <= Capacity
    <3>1. ~(Len(q) + Len(f) > Capacity)
      BY <1>3, <1>4, <1>5, <2>1 DEF Refuses
    <3>2. Len(q) \in Nat /\ Len(f) \in Nat /\ Capacity \in Nat
      BY DeliveryAssumption DEF DeliveryAssumption
    <3> QED BY <2>2, <3>1, <3>2
  <2>4. FirstFit(r) = r
    BY <2>2, <2>3, FittingIsAll
  <2>5. queue' = FirstFit(r)
    BY <1>4, <1>5, <1>6 DEF Poll, SendEvents
  <2> QED BY <2>4, <2>5
<1>8. CASE phase = "vm"
  <2>1. Heard = q /\ Heard' = r
    BY <1>1, <1>4, <1>7, <1>8 DEF Heard
  <2> QED BY <1>1, <1>3, <1>5, <1>6, <1>8, <2>1
<1>9. CASE phase = "task"
  <2>1. PICK m : OnlyStart(q, m)
    BY <1>3, <1>4, <1>9 DEF DeliveryInv, OneStart
  <2>2. PICK ph : ph = phase /\ ph # "vm"
    BY <1>9
  <2>3. /\ OnlyStart(r, m)
        /\ SubSeq(r, m + 1, Len(r)) = SubSeq(q, m + 1, Len(q)) \o e
    BY <1>6, <2>1, HeardGrows
  <2>4. HeardIn(ph, q) = SubSeq(q, m + 1, Len(q))
    BY <2>1, <2>2, HeardAfterStart
  <2>5. r \in Seq(Entry)
    <3>1. PICK f \in Seq(Entry) : f = e
      BY EventsAreEntries
    <3> QED BY <1>6, <3>1, ConcatProperties
  <2>6. HeardIn(ph, r) = SubSeq(r, m + 1, Len(r))
    BY <2>2, <2>3, <2>5, HeardAfterStart
  <2>7. Heard = HeardIn(ph, q) /\ Heard' = HeardIn(ph, r)
    BY <1>1, <1>4, <1>7, <2>2, Zenon DEF Heard, HeardIn
  <2> QED BY <1>1, <1>3, <1>5, <1>7, <2>3, <2>4, <2>6, <2>7
<1> QED BY <1>1, <1>8, <1>9 DEF Running

LEMMA PollKeepsViews ==
  ASSUME DeliveryInv, NEW b \in SUBSET Button, Poll(b)
  PROVE  OneStart' /\ NoStuckKey' /\ HeldKeysSeen'
<1>1. gb300_input_poll(b) /\ KeysTyped /\ ActiveIsOwn /\ keymap' = keymap /\ down' = down
  BY DEF Poll, gb300_poll_events, gb300_input_poll, DeliveryInv, KeypadInv
<1>2. OneStart'
  <2> SUFFICES ASSUME Clean', phase' = "task" PROVE \E m : OnlyStart(queue', m)
    BY DEF OneStart
  <2>1. Running'
    BY DEF Running
  <2> QED BY <2>1, PollIsHeard
<1>3. ASSUME Running', Clean'
      PROVE  /\ Running /\ Clean
             /\ \E d \in SUBSET Key, s \in Seq(Entry) :
                  View = Believed(d, s) /\ View' = Believed(d, s \o Events(b))
  <2>1. Running /\ Clean /\ Heard' = Heard \o Events(b)
    BY <1>3, PollIsHeard
  <2>2. Heard \in Seq(Entry)
    BY <2>1, HeardTyped DEF DeliveryInv
  <2>3. PICK d \in SUBSET Key : d = down
    BY DEF DeliveryInv, DeliveryTypes
  <2>4. View = Believed(d, Heard) /\ View' = Believed(d, Heard \o Events(b))
    BY <1>1, <2>1, <2>3 DEF View
  <2> QED BY <2>1, <2>2, <2>4
<1>4. NoStuckKey'
  <2> SUFFICES ASSUME Running', Clean', NEW k \in View' PROVE Holders(k)' # {}
    BY DEF NoStuckKey
  <2>1. PICK d \in SUBSET Key, s \in Seq(Entry) :
          View = Believed(d, s) /\ View' = Believed(d, s \o Events(b))
    BY <1>3
  <2>2. k \in Key /\ k \in Believed(d, s \o Events(b))
    BY <2>1 DEF Believed
  <2>3. k \in Believed(d, s) => Holders(k) # {}
    BY <1>3, <2>1 DEF DeliveryInv, NoStuckKey
  <2> QED BY <1>1, <2>2, <2>3, PollLeavesNoneStuck
<1>5. HeldKeysSeen'
  <2> SUFFICES ASSUME Running', Clean', KeysUnshared'
               PROVE  View' = HeldKeys' \ early'
    BY DEF HeldKeysSeen
  <2>1. PICK d \in SUBSET Key, s \in Seq(Entry) :
          View = Believed(d, s) /\ View' = Believed(d, s \o Events(b))
    BY <1>3
  <2>2. KeysUnshared
    <3>1. \A p : KeysOf(p)' = KeysOf(p)
      BY <1>1 DEF KeysOf
    <3> QED BY <3>1, Zenon DEF KeysUnshared
  <2>3. View = HeldKeys \ early
    BY <1>3, <2>2 DEF DeliveryInv, HeldKeysSeen
  <2>4. PICK E \in SUBSET HeldKeys : E = early
    BY DEF DeliveryInv
  <2>5. ASSUME NEW k \in Key PROVE k \in View' <=> Holders(k)' # {} /\ k \notin E
    <3>1. k \in Believed(d, s) <=> Holders(k) # {} /\ k \notin E
      BY <2>1, <2>3, <2>4 DEF HeldKeys
    <3> QED BY <1>1, <2>1, <2>2, <3>1, PollKeepsSight
  <2>6. early' = {k \in E : Holders(k)' # {}}
    BY <2>4 DEF Poll
  <2>7. HeldKeys' = {k \in Key : Holders(k)' # {}}
    BY DEF HeldKeys
  <2>8. View' \subseteq Key
    BY <2>1 DEF Believed
  <2> QED BY <2>5, <2>6, <2>7, <2>8
<1> QED BY <1>2, <1>4, <1>5

LEMMA PollKeepsDeliveryInv ==
  ASSUME DeliveryInv, NEW b \in SUBSET Button, Poll(b)
  PROVE  DeliveryInv'
<1>1. gb300_input_poll(b) /\ menu' \in {"closed", "resume", "leave"}
  BY DEF Poll, gb300_poll_events
<1>2. KeypadInv'
  BY <1>1, PollKeepsKeypadInv DEF DeliveryInv
<1>3. DeliveryTypes'
  <2>1. phase' \in Phase /\ down' \in SUBSET Key /\ stale' \in BOOLEAN
    BY DEF Poll, DeliveryInv, DeliveryTypes, Phase
  <2>2. refused' \in BOOLEAN
    <3>1. refused \in BOOLEAN
      BY DEF DeliveryInv, DeliveryTypes
    <3>2. refused' = (refused \/ (Running /\ Refuses(Events(b))))
      BY Zenon DEF Poll
    <3> QED BY <3>1, <3>2 DEF Running, Refuses
  <2>3. PICK q \in Seq(Entry), e \in Seq(Entry) : q = queue /\ e = Events(b)
    BY PollIsWalk, EventsAreEntries DEF DeliveryInv, DeliveryTypes, KeypadInv
  <2>4. q \o e \in Seq(Entry)
    BY ConcatProperties
  <2>5. queue' = FirstFit(q \o e)
    BY <2>3 DEF Poll, SendEvents
  <2>6. queue' \in Seq(Entry) /\ Len(queue') <= Capacity
    BY <2>4, <2>5, FitTyped
  <2> QED BY <2>1, <2>2, <2>6 DEF DeliveryTypes
<1>4. phase' \in {"boot", "task"} => down' = {}
  BY DEF Poll, DeliveryInv
<1>5. early' \subseteq HeldKeys'
  <2>1. early \subseteq Key
    BY DEF DeliveryInv, HeldKeys
  <2>2. early' = {k \in early : Holders(k)' # {}}
    BY DEF Poll
  <2> QED BY <2>1, <2>2 DEF HeldKeys
<1> QED BY <1>2, <1>3, <1>4, <1>5, PollKeepsViews DEF DeliveryInv

(* Nothing is promised of a game that does not run. *)
LEMMA NotRunning ==
  ASSUME phase' \notin {"task", "vm"}
  PROVE  OneStart' /\ NoStuckKey' /\ HeldKeysSeen'
BY DEF OneStart, NoStuckKey, HeldKeysSeen, Running

(* The steps that leave the buttons alone. *)
LEMMA KeypadStays ==
  ASSUME KeypadInv, UNCHANGED keypadVars
  PROVE  /\ KeypadInv'
         /\ \A k : Holders(k)' = Holders(k)
         /\ HeldKeys' = HeldKeys
         /\ KeysUnshared' <=> KeysUnshared
<1>1. KeypadInv'
  BY KeypadStep
<1>2. keymap' = keymap /\ last_buttons' = last_buttons /\ active' = active
  BY DEF keypadVars
<1>3. \A k : Holders(k)' = Holders(k)
  BY <1>2 DEF Holders
<1>4. HeldKeys' = HeldKeys
  BY <1>3 DEF HeldKeys
<1>5. \A p : KeysOf(p)' = KeysOf(p)
  BY <1>2 DEF KeysOf
<1>6. KeysUnshared' <=> KeysUnshared
  BY <1>5, Zenon DEF KeysUnshared
<1> QED BY <1>1, <1>3, <1>4, <1>6

(* Receiving events, by JavaTask or by the VM, leaves the view alone.      *)
LEMMA SameViewKeepsInv ==
  ASSUME DeliveryInv, UNCHANGED <<keypadVars, historyVars>>, Running, Clean => View' = View
  PROVE  NoStuckKey' /\ HeldKeysSeen'
<1>1. /\ \A k : Holders(k)' = Holders(k)
      /\ HeldKeys' = HeldKeys
      /\ KeysUnshared' <=> KeysUnshared
  BY KeypadStays DEF DeliveryInv
<1>2. early' = early /\ (Clean' <=> Clean)
  BY DEF historyVars, Clean
<1>3. NoStuckKey'
  BY <1>1, <1>2 DEF DeliveryInv, NoStuckKey
<1>4. HeldKeysSeen'
  BY <1>1, <1>2 DEF DeliveryInv, HeldKeysSeen
<1> QED BY <1>3, <1>4

LEMMA TailFits ==
  ASSUME NEW q \in Seq(Entry), q # <<>>, Len(q) <= Capacity
  PROVE  Tail(q) \in Seq(Entry) /\ Len(Tail(q)) <= Capacity
<1>1. Tail(q) \in Seq(Entry) /\ Len(Tail(q)) = Len(q) - 1 /\ Len(q) \in Nat
  BY HeadTailProperties
<1>2. Capacity \in Nat
  BY DeliveryAssumption DEF DeliveryAssumption
<1> QED BY <1>1, <1>2

LEMMA DeliveryStep == DeliveryInv /\ [DeliveryNext]_vars => DeliveryInv'
<1> SUFFICES ASSUME DeliveryInv, [DeliveryNext]_vars PROVE DeliveryInv'
  OBVIOUS
<1>1. ASSUME retro_load_game PROVE DeliveryInv'
  <2>1. gb300_input_load_config /\ phase' = "boot" /\ down' = {} /\ early' = {}
        /\ refused' = FALSE /\ stale' = FALSE /\ queue' = queue
    BY <1>1 DEF retro_load_game
  <2>2. KeypadInv'
    BY <2>1, KeypadStep DEF Next, DeliveryInv
  <2>3. DeliveryTypes'
    BY <2>1 DEF DeliveryInv, DeliveryTypes, Phase
  <2>4. OneStart' /\ NoStuckKey' /\ HeldKeysSeen'
    BY <2>1, NotRunning
  <2> QED BY <2>1, <2>2, <2>3, <2>4 DEF DeliveryInv
<1>2. ASSUME retro_unload_game PROVE DeliveryInv'
  <2>1. /\ UNCHANGED keypadVars /\ phase' = "none"
        /\ queue' = queue /\ down' = down /\ early' = early
        /\ refused' = refused /\ stale' = stale
    BY <1>2 DEF retro_unload_game, historyVars
  <2>2. KeypadInv' /\ HeldKeys' = HeldKeys
    BY <2>1, KeypadStays DEF DeliveryInv
  <2>3. DeliveryTypes'
    BY <2>1 DEF DeliveryInv, DeliveryTypes, Phase
  <2>4. OneStart' /\ NoStuckKey' /\ HeldKeysSeen'
    BY <2>1, NotRunning
  <2>5. early' \subseteq HeldKeys' /\ phase' \notin {"boot", "task"}
    BY <2>1, <2>2 DEF DeliveryInv
  <2> QED BY <2>2, <2>3, <2>4, <2>5 DEF DeliveryInv
<1>3. ASSUME SendStart PROVE DeliveryInv'
  <2>1. /\ UNCHANGED keypadVars /\ phase = "boot" /\ phase' = "task"
        /\ down' = down /\ early' = HeldKeys
    BY <1>3 DEF SendStart
  <2>2. down = {}
    BY <2>1 DEF DeliveryInv
  <2>3. KeypadInv' /\ HeldKeys' = HeldKeys
    BY <2>1, KeypadStays DEF DeliveryInv
  <2>4. PICK q \in Seq(Entry), e \in Entry : q = queue /\ e = Start
    BY DEF DeliveryInv, DeliveryTypes, Entry
  <2>5. PICK r \in Seq(Entry) : r = q \o <<e>>
    BY LastOfConcat
  <2>6. queue' = FirstFit(r) /\ queue' \in Seq(Entry) /\ Len(queue') <= Capacity
    BY <1>3, <2>4, <2>5, FitTyped DEF SendStart, SendEvents
  <2>7. DeliveryTypes'
    <3>1. refused' \in BOOLEAN /\ stale' \in BOOLEAN
      BY <1>3 DEF SendStart, Refuses
    <3> QED BY <2>1, <2>6, <3>1 DEF DeliveryInv, DeliveryTypes, Phase
  <2>8. ASSUME Clean' PROVE OnlyStart(queue', Len(q) + 1) /\ Heard' = <<>>
    <3>1. ~refused' /\ ~stale'
      BY <2>8 DEF Clean
    <3>2. ~(Len(q) + Len(<<e>>) > Capacity) /\ \A i \in DOMAIN q : q[i] # e
      BY <1>3, <2>4, <3>1 DEF SendStart, Refuses
    <3>3. PICK n \in Nat : n = Len(q)
      OBVIOUS
    <3>4. /\ Len(r) = n + 1 /\ r[n + 1] = e
          /\ \A i \in 1 .. n : r[i] = q[i]
      BY <2>5, <3>3, LastOfConcat
    <3>5. queue' = r
      <4>1. Len(r) <= Capacity
        BY <3>2, <3>3, <3>4, DeliveryAssumption DEF DeliveryAssumption
      <4> QED BY <2>6, <4>1, FittingIsAll
    <3>6. OnlyStart(r, n + 1)
      <4>1. \A i \in 1 .. n + 1 : i \in 1 .. n \/ i = n + 1
        OBVIOUS
      <4>2. \A i \in 1 .. n : r[i] # e
        BY <3>2, <3>3, <3>4
      <4> QED BY <2>4, <3>4, <4>1, <4>2 DEF OnlyStart
    <3>7. HeardIn("task", r) = SubSeq(r, n + 1 + 1, Len(r))
      <4>1. PICK ph : ph = "task" /\ ph # "vm"
        OBVIOUS
      <4> QED BY <3>6, <4>1, HeardAfterStart
    <3>8. SubSeq(r, n + 1 + 1, Len(r)) = <<>>
      BY <3>4, SubSeqEmpty
    <3>9. Heard' = HeardIn("task", r)
      BY <2>1, <3>5, Zenon DEF Heard, HeardIn
    <3> QED BY <3>3, <3>5, <3>6, <3>7, <3>8, <3>9
  <2>9. ASSUME Clean' PROVE View' = {}
    <3>1. View' = Believed({}, <<>>)
      BY <2>1, <2>2, <2>8, <2>9 DEF View
    <3>2. Believed({}, <<>>) = {}
      BY DEF Believed
    <3> QED BY <3>1, <3>2
  <2>10. OneStart'
    BY <2>8 DEF OneStart
  <2>11. NoStuckKey' /\ HeldKeysSeen'
    BY <2>1, <2>3, <2>9 DEF NoStuckKey, HeldKeysSeen
  <2>12. early' \subseteq HeldKeys' /\ down' = {}
    BY <2>1, <2>2, <2>3
  <2> QED BY <2>3, <2>7, <2>10, <2>11, <2>12 DEF DeliveryInv
<1>4. ASSUME NEW b \in SUBSET Button, Poll(b) PROVE DeliveryInv'
  BY <1>4, PollKeepsDeliveryInv
<1>5. ASSUME JavaTask PROVE DeliveryInv'
  <2>1. /\ UNCHANGED keypadVars /\ phase = "task" /\ queue # <<>> /\ queue' = Tail(queue)
        /\ phase' = IF Head(queue) = Start THEN "vm" ELSE "task"
        /\ down' = down /\ early' = early /\ refused' = refused /\ stale' = stale
    BY <1>5 DEF JavaTask, historyVars
  <2>2. KeypadInv' /\ HeldKeys' = HeldKeys
    BY <2>1, KeypadStays DEF DeliveryInv
  <2>3. PICK q \in Seq(Entry) : q = queue
    BY DEF DeliveryInv, DeliveryTypes
  <2>4. DeliveryTypes'
    BY <2>1, <2>3, TailFits DEF DeliveryInv, DeliveryTypes, Phase
  <2>5. ASSUME Clean
        PROVE  Heard' = Heard /\ (phase' = "task" => \E m : OnlyStart(queue', m))
    <3>1. PICK m : OnlyStart(q, m)
      BY <2>1, <2>3, <2>5 DEF DeliveryInv, OneStart
    <3>2. Heard = SubSeq(q, m + 1, Len(q))
      <4>1. phase # "vm"
        BY <2>1
      <4> QED BY <2>3, <3>1, <4>1, HeardAfterStart, HeardIsHeardIn
    <3>3. CASE Head(q) = Start
      <4>1. phase' = "vm" /\ SubSeq(q, m + 1, Len(q)) = Tail(q)
        BY <2>1, <2>3, <3>1, <3>3, HeardFromTail
      <4>2. Heard' = Tail(q)
        BY <2>1, <2>3, <4>1 DEF Heard
      <4> QED BY <3>2, <4>1, <4>2
    <3>4. CASE Head(q) # Start
      <4>1. PICK u \in Seq(Entry) : u = Tail(q)
        BY <2>1, <2>3, HeadTailProperties
      <4>2. /\ OnlyStart(u, m - 1)
            /\ SubSeq(u, m - 1 + 1, Len(u)) = SubSeq(q, m + 1, Len(q))
        BY <3>1, <3>4, <4>1, HeardFromTail
      <4>3. PICK ph : ph = "task" /\ ph # "vm"
        OBVIOUS
      <4>4. HeardIn(ph, u) = SubSeq(u, m - 1 + 1, Len(u))
        BY <4>2, <4>3, HeardAfterStart
      <4>5. Heard' = HeardIn(ph, u)
        BY <2>1, <2>3, <3>4, <4>1, <4>3, Zenon DEF Heard, HeardIn
      <4>6. queue' = u
        BY <2>1, <2>3, <4>1
      <4> QED BY <3>2, <4>2, <4>4, <4>5, <4>6
    <3> QED BY <3>3, <3>4
  <2>6. Clean => View' = View
    BY <2>1, <2>5 DEF View
  <2>7. NoStuckKey' /\ HeldKeysSeen'
    <3>1. UNCHANGED <<keypadVars, historyVars>> /\ Running
      BY <2>1 DEF historyVars, Running
    <3> QED BY <2>6, <3>1, SameViewKeepsInv
  <2>8. OneStart'
    BY <2>1, <2>5 DEF OneStart, Clean
  <2>9. early' \subseteq HeldKeys' /\ down' = {}
    BY <2>1, <2>2 DEF DeliveryInv
  <2> QED BY <2>2, <2>4, <2>7, <2>8, <2>9 DEF DeliveryInv
<1>6. ASSUME checkForSystemSignal PROVE DeliveryInv'
  <2>1. /\ UNCHANGED keypadVars /\ phase = "vm" /\ phase' = phase
        /\ queue # <<>> /\ queue' = Tail(queue) /\ down' = After(down, Head(queue))
        /\ early' = early /\ refused' = refused /\ stale' = stale
    BY <1>6 DEF checkForSystemSignal, historyVars
  <2>2. KeypadInv' /\ HeldKeys' = HeldKeys
    BY <2>1, KeypadStays DEF DeliveryInv
  <2>3. PICK q \in Seq(Entry), d \in SUBSET Key : q = queue /\ d = down
    BY DEF DeliveryInv, DeliveryTypes
  <2>4. down' \in SUBSET Key
    <3>1. PICK e \in Entry : e = Head(q)
      BY <2>1, <2>3, HeadTailProperties
    <3>2. CASE e = Start
      BY <2>1, <2>3, <3>1, <3>2 DEF After, Start
    <3>3. CASE e \in Event
      <4>1. e.key \in Key /\ e.type \in {"pressed", "released"}
        BY <3>3 DEF Event
      <4>2. e.type = "pressed" => After(d, e) = d \cup {e.key}
        BY DEF After
      <4>3. e.type = "released" => After(d, e) = d \ {e.key}
        BY DEF After
      <4> QED BY <2>1, <2>3, <3>1, <4>1, <4>2, <4>3
    <3> QED BY <3>2, <3>3 DEF Entry
  <2>5. DeliveryTypes'
    BY <2>1, <2>3, <2>4, TailFits DEF DeliveryInv, DeliveryTypes
  <2>6. View' = View
    <3>1. View = Believed(d, q) /\ View' = Believed(After(d, Head(q)), Tail(q))
      BY <2>1, <2>3 DEF View, Heard
    <3> QED BY <2>1, <2>3, <3>1, BelievedHead
  <2>7. NoStuckKey' /\ HeldKeysSeen'
    <3>1. UNCHANGED <<keypadVars, historyVars>> /\ Running
      BY <2>1 DEF historyVars, Running
    <3> QED BY <2>6, <3>1, SameViewKeepsInv
  <2>8. OneStart'
    BY <2>1 DEF OneStart
  <2>9. early' \subseteq HeldKeys' /\ phase' \notin {"boot", "task"}
    BY <2>1, <2>2 DEF DeliveryInv
  <2> QED BY <2>2, <2>5, <2>7, <2>8, <2>9 DEF DeliveryInv
<1>7. ASSUME VMEnds PROVE DeliveryInv'
  <2>1. /\ UNCHANGED keypadVars /\ phase' = "over"
        /\ queue' = <<>> /\ down' = down /\ early' = early
        /\ refused' = refused /\ stale' = stale
    BY <1>7 DEF VMEnds, historyVars
  <2>2. KeypadInv' /\ HeldKeys' = HeldKeys
    BY <2>1, KeypadStays DEF DeliveryInv
  <2>3. DeliveryTypes'
    <3>1. queue' \in Seq(Entry) /\ Len(queue') <= Capacity
      BY <2>1, DeliveryAssumption DEF DeliveryAssumption
    <3> QED BY <2>1, <3>1 DEF DeliveryInv, DeliveryTypes, Phase
  <2>4. OneStart' /\ NoStuckKey' /\ HeldKeysSeen'
    BY <2>1, NotRunning
  <2>5. early' \subseteq HeldKeys' /\ phase' \notin {"boot", "task"}
    BY <2>1, <2>2 DEF DeliveryInv
  <2> QED BY <2>2, <2>3, <2>4, <2>5 DEF DeliveryInv
<1>8. ASSUME UNCHANGED vars PROVE DeliveryInv'
  <2>1. /\ UNCHANGED keypadVars /\ phase' = phase /\ queue' = queue /\ down' = down
        /\ early' = early /\ refused' = refused /\ stale' = stale
    BY <1>8 DEF vars, historyVars
  <2>2. KeypadInv' /\ HeldKeys' = HeldKeys
    BY <2>1, KeypadStays DEF DeliveryInv
  <2>3. DeliveryTypes' /\ OneStart'
    BY <2>1 DEF DeliveryInv, DeliveryTypes, OneStart, Clean
  <2>4. NoStuckKey' /\ HeldKeysSeen'
    <3>1. CASE Running
      <4>1. View' = View
        BY <2>1 DEF View, Heard
      <4>2. UNCHANGED <<keypadVars, historyVars>>
        BY <2>1 DEF historyVars
      <4> QED BY <3>1, <4>1, <4>2, SameViewKeepsInv
    <3>2. CASE ~Running
      BY <2>1, <3>2 DEF NoStuckKey, HeldKeysSeen, Running
    <3> QED BY <3>1, <3>2
  <2>5. early' \subseteq HeldKeys' /\ (phase' \in {"boot", "task"} => down' = {})
    BY <2>1, <2>2 DEF DeliveryInv
  <2> QED BY <2>2, <2>3, <2>4, <2>5 DEF DeliveryInv
<1> QED BY <1>1, <1>2, <1>3, <1>4, <1>5, <1>6, <1>7, <1>8 DEF DeliveryNext

LEMMA DeliveryStart == DeliveryInit => DeliveryInv
<1> SUFFICES ASSUME DeliveryInit PROVE DeliveryInv
  OBVIOUS
<1>1. KeypadInv
  BY KeypadStart DEF DeliveryInit
<1>2. DeliveryTypes
  <2>1. queue \in Seq(Entry) /\ Len(queue) = 0
    BY SendTyped DEF DeliveryInit
  <2>2. Len(queue) <= Capacity
    BY <2>1, DeliveryAssumption DEF DeliveryAssumption
  <2>3. /\ phase \in Phase /\ down \in SUBSET Key
        /\ refused \in BOOLEAN /\ stale \in BOOLEAN
    BY DEF DeliveryInit, Phase
  <2> QED BY <2>1, <2>2, <2>3 DEF DeliveryTypes
<1>3. OneStart /\ NoStuckKey /\ HeldKeysSeen
  BY DEF DeliveryInit, OneStart, NoStuckKey, HeldKeysSeen, Running
<1> QED BY <1>1, <1>2, <1>3 DEF DeliveryInit, DeliveryInv

LEMMA DeliveryInvariant == DeliverySpec => []DeliveryInv
BY DeliveryStart, DeliveryStep, PTL DEF DeliverySpec

(* The phases, what the ring carries and how much of it, and the histories *)
(* keep their types.                                                       *)
THEOREM DeliveryTypeCorrect == DeliverySpec => []DeliveryTypeOK
<1>1. DeliveryInv => DeliveryTypeOK
  <2> SUFFICES ASSUME DeliveryInv PROVE DeliveryTypeOK
    OBVIOUS
  <2>1. TypeOK
    BY KeypadTypes DEF DeliveryInv
  <2>2. \A i \in DOMAIN queue : queue[i] \in Entry
    BY DEF DeliveryInv, DeliveryTypes
  <2>3. early \subseteq Key
    BY DEF DeliveryInv, HeldKeys
  <2> QED BY <2>1, <2>2, <2>3 DEF DeliveryInv, DeliveryTypes, DeliveryTypeOK, Entry, Event
<1> QED BY <1>1, DeliveryInvariant, PTL

(* As long as the ring refused nothing, no game is left with a key down    *)
(* that no button holds, in whatever order polls and receives come.        *)
THEOREM NoKeySticks == DeliverySpec => []NoStuckKey
<1>1. DeliveryInv => NoStuckKey
  BY DEF DeliveryInv
<1> QED BY <1>1, DeliveryInvariant, PTL

(* With keys that no two buttons share a game sees exactly the keys that   *)
(* are held and were not held before its START.                            *)
THEOREM HeldKeysAreSeen == DeliverySpec => []HeldKeysSeen
<1>1. DeliveryInv => HeldKeysSeen
  BY DEF DeliveryInv
<1> QED BY <1>1, DeliveryInvariant, PTL
=============================================================================
