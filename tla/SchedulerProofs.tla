--------------------------- MODULE SchedulerProofs ---------------------------
(***************************************************************************)
(* The scheduler's rings (RunQueue) and its tick timer (TickTimer), over   *)
(* the VMs that run one after the other (Ticks).  For                      *)
(* every set of threads and every number of priorities no thread is in two *)
(* rings, or twice in one; for every number of slots and every interval    *)
(* the running VM keeps its timer and the slots are counted exactly.       *)
(***************************************************************************)
EXTENDS Ticks, FiniteSetTheorems, SequenceTheorems, TLAPS

-----------------------------------------------------------------------------
(* A ring is a sequence of threads without repetition. *)
Ring(q) == q \in Seq(Thread) /\ IsInjective(q)

(* A thread that was in no ring is added to this one. *)
LEMMA AddToRing ==
  ASSUME NEW q, Ring(q), NEW t \in Thread, t \notin ToSet(q)
  PROVE  /\ Ring(add_to_list(q, t))
         /\ ToSet(add_to_list(q, t)) = ToSet(q) \cup {t}
<1> DEFINE r == add_to_list(q, t)
<1>1. q \in Seq(Thread) /\ \A i, j \in 1 .. Len(q) : q[i] = q[j] => i = j
  BY DEF Ring, IsInjective
<1>2. /\ r \in Seq(Thread) /\ Len(r) = Len(q) + 1
      /\ \A i \in 1 .. Len(q) : r[i] = q[i]
      /\ r[Len(q) + 1] = t
  BY <1>1, AppendProperties DEF add_to_list
<1>3. \A i \in 1 .. Len(q) : q[i] # t
  BY <1>1 DEF ToSet
<1>4. IsInjective(r)
  BY <1>1, <1>2, <1>3 DEF IsInjective
<1>5. ToSet(r) = ToSet(q) \cup {t}
  <2>1. DOMAIN r = DOMAIN q \cup {Len(q) + 1}
    BY <1>1, <1>2
  <2> QED BY <2>1, <1>1, <1>2 DEF ToSet
<1> QED BY <1>2, <1>4, <1>5 DEF Ring

(* A thread of the ring is removed from it; the others stay. *)
LEMMA RemoveFromRing ==
  ASSUME NEW q, Ring(q), NEW t \in ToSet(q)
  PROVE  /\ Ring(remove_from_list(q, t))
         /\ ToSet(remove_from_list(q, t)) = ToSet(q) \ {t}
<1> DEFINE k == CHOOSE i \in DOMAIN q : q[i] = t
           r == remove_from_list(q, t)
           a == SubSeq(q, 1, k - 1)
           b == SubSeq(q, k + 1, Len(q))
<1>1. q \in Seq(Thread) /\ \A i, j \in 1 .. Len(q) : q[i] = q[j] => i = j
  BY DEF Ring, IsInjective
<1>2. Len(q) \in Nat /\ \A i \in 1 .. Len(q) : q[i] \in Thread
  BY <1>1
<1>3. k \in 1 .. Len(q) /\ q[k] = t
  BY <1>1 DEF ToSet
<1> HIDE DEF k
<1>4. a \in Seq(Thread) /\ Len(a) = k - 1 /\ \A i \in 1 .. k - 1 : a[i] = q[i]
  <2>1. \A i \in 1 .. k - 1 : q[i] \in Thread
    BY <1>2, <1>3
  <2>2. /\ a \in Seq(Thread)
        /\ Len(a) = IF 1 <= k - 1 THEN (k - 1) - 1 + 1 ELSE 0
        /\ \A i \in 1 .. (k - 1) - 1 + 1 : a[i] = q[1 + i - 1]
    BY <2>1, <1>3, SubSeqProperties
  <2> QED BY <2>2, <1>2, <1>3
<1>5. /\ b \in Seq(Thread) /\ Len(b) = Len(q) - k
      /\ \A i \in 1 .. Len(q) - k : b[i] = q[k + i]
  <2>1. \A i \in k + 1 .. Len(q) : q[i] \in Thread
    BY <1>2, <1>3
  <2>2. /\ b \in Seq(Thread)
        /\ Len(b) = IF k + 1 <= Len(q) THEN Len(q) - (k + 1) + 1 ELSE 0
        /\ \A i \in 1 .. Len(q) - (k + 1) + 1 : b[i] = q[(k + 1) + i - 1]
    BY <2>1, <1>2, <1>3, SubSeqProperties
  <2> QED BY <2>2, <1>2, <1>3
<1>6. /\ r \in Seq(Thread) /\ Len(r) = Len(q) - 1
      /\ \A i \in 1 .. Len(q) - 1 : r[i] = IF i < k THEN q[i] ELSE q[i + 1]
  <2> HIDE DEF a, b
  <2>1. r = a \o b
    BY DEF remove_from_list, RemoveAt, a, b, k
  <2>2. /\ r \in Seq(Thread) /\ Len(r) = Len(a) + Len(b)
        /\ \A i \in 1 .. Len(a) + Len(b) :
             r[i] = IF i <= Len(a) THEN a[i] ELSE b[i - Len(a)]
    BY <2>1, <1>4, <1>5, ConcatProperties
  <2>3. Len(r) = Len(q) - 1
    BY <2>2, <1>2, <1>3, <1>4, <1>5
  <2>4. ASSUME NEW i \in 1 .. Len(q) - 1
        PROVE  r[i] = IF i < k THEN q[i] ELSE q[i + 1]
    <3>1. CASE i < k
      <4>1. i \in 1 .. Len(a) + Len(b) /\ i <= Len(a) /\ i \in 1 .. k - 1
        BY <3>1, <1>2, <1>3, <1>4, <1>5
      <4>2. r[i] = a[i]
        BY <4>1, <2>2
      <4> QED BY <3>1, <4>1, <4>2, <1>4
    <3>2. CASE ~(i < k)
      <4>1. i - (k - 1) \in 1 .. Len(q) - k /\ k + (i - (k - 1)) = i + 1
        BY <3>2, <1>2, <1>3
      <4>2. i \in 1 .. Len(a) + Len(b) /\ ~(i <= Len(a))
        BY <3>2, <1>2, <1>3, <1>4, <1>5
      <4>3. r[i] = b[i - (k - 1)]
        BY <4>2, <2>2, <1>4
      <4> QED BY <3>2, <4>1, <4>3, <1>5
    <3> QED BY <3>1, <3>2
  <2> QED BY <2>2, <2>3, <2>4
<1> HIDE DEF r
<1>7. IsInjective(r)
  <2>1. DOMAIN r = 1 .. Len(q) - 1
    BY <1>6
  <2>2. ASSUME NEW i \in 1 .. Len(q) - 1, NEW j \in 1 .. Len(q) - 1, r[i] = r[j] PROVE i = j
    <3> DEFINE at(m) == IF m < k THEN m ELSE m + 1
    <3>1. /\ at(i) \in 1 .. Len(q) /\ at(j) \in 1 .. Len(q)
          /\ at(i) = at(j) => i = j
      BY <1>2, <1>3
    <3>2. r[i] = q[at(i)] /\ r[j] = q[at(j)]
      BY <1>6
    <3> HIDE DEF at
    <3> QED BY <1>1, <2>2, <3>1, <3>2
  <2> QED BY <2>1, <2>2 DEF IsInjective
<1>8. ToSet(r) = ToSet(q) \ {t}
  <2>1. ASSUME NEW x \in ToSet(r) PROVE x \in ToSet(q) \ {t}
    <3>1. PICK i \in 1 .. Len(q) - 1 : x = r[i]
      BY <1>6 DEF ToSet
    <3> QED BY <3>1, <1>1, <1>2, <1>3, <1>6 DEF ToSet
  <2>2. ASSUME NEW x \in ToSet(q) \ {t} PROVE x \in ToSet(r)
    <3>1. PICK i \in 1 .. Len(q) : x = q[i]
      BY <1>1 DEF ToSet
    <3>2. CASE i < k
      <4>1. i \in 1 .. Len(q) - 1 /\ r[i] = x
        BY <3>1, <3>2, <1>2, <1>3, <1>6
      <4> QED BY <4>1, <1>6 DEF ToSet
    <3>3. CASE i > k
      <4>1. i - 1 \in 1 .. Len(q) - 1 /\ r[i - 1] = x
        BY <3>1, <3>3, <1>2, <1>3, <1>6
      <4> QED BY <4>1, <1>6 DEF ToSet
    <3> QED BY <3>1, <3>2, <3>3, <1>2, <1>3
  <2> QED BY <2>1, <2>2
<1> QED BY <1>6, <1>7, <1>8 DEF Ring, r

(* The head of a ring moves on. *)
LEMMA AdvanceRing ==
  ASSUME NEW q, Ring(q), q # <<>>
  PROVE  /\ Ring(Advanced(q)) /\ Advanced(q) # <<>>
         /\ ToSet(Advanced(q)) = ToSet(q)
<1> DEFINE u == Tail(q)
           r == Append(u, q[1])
<1>1. q \in Seq(Thread) /\ \A i, j \in 1 .. Len(q) : q[i] = q[j] => i = j
  BY DEF Ring, IsInjective
<1>2. Head(q) = q[1] /\ q[1] \in Thread /\ Len(q) \in Nat \ {0}
  BY <1>1, HeadTailProperties
<1>3. /\ u \in Seq(Thread) /\ Len(u) = Len(q) - 1
      /\ \A i \in 1 .. Len(q) - 1 : u[i] = q[i + 1]
  BY <1>1, <1>2, HeadTailProperties
<1> HIDE DEF u
<1>4. /\ r \in Seq(Thread) /\ r # <<>> /\ Len(r) = Len(q)
      /\ \A i \in 1 .. Len(q) : r[i] = IF i = Len(q) THEN q[1] ELSE q[i + 1]
  <2>1. /\ r \in Seq(Thread) /\ r # <<>> /\ Len(r) = Len(u) + 1
        /\ \A i \in 1 .. Len(u) : r[i] = u[i]
        /\ r[Len(u) + 1] = q[1]
    BY <1>2, <1>3, AppendProperties
  <2> QED BY <2>1, <1>2, <1>3
<1> HIDE DEF r
<1>5. IsInjective(r)
  BY <1>1, <1>2, <1>4 DEF IsInjective
<1>6. ToSet(r) = ToSet(q)
  <2>1. ToSet(r) \subseteq ToSet(q)
    <3> SUFFICES ASSUME NEW i \in 1 .. Len(r) PROVE r[i] \in ToSet(q)
      BY DEF ToSet
    <3>1. \E k \in 1 .. Len(q) : r[i] = q[k]
      <4>1. 1 \in 1 .. Len(q) /\ (i # Len(q) => i + 1 \in 1 .. Len(q))
        BY <1>2, <1>4
      <4> QED BY <4>1, <1>4
    <3> QED BY <3>1 DEF ToSet
  <2>2. ASSUME NEW i \in 1 .. Len(q) PROVE q[i] \in ToSet(r)
    <3>1. CASE i = 1
      <4>1. Len(q) \in 1 .. Len(r) /\ r[Len(q)] = q[i]
        BY <3>1, <1>2, <1>4
      <4> QED BY <4>1, <1>4 DEF ToSet
    <3>2. CASE i # 1
      <4>1. i - 1 \in 1 .. Len(r) /\ r[i - 1] = q[i]
        BY <3>2, <1>2, <1>4
      <4> QED BY <4>1, <1>4 DEF ToSet
    <3> QED BY <3>1, <3>2
  <2>3. ToSet(q) \subseteq ToSet(r)
    <3>1. ASSUME NEW x \in ToSet(q) PROVE \E i \in 1 .. Len(q) : x = q[i]
      BY <1>1 DEF ToSet
    <3> QED BY <2>2, <3>1
  <2> QED BY <2>1, <2>3
<1>7. Advanced(q) = IF phase = "yield" THEN r ELSE q
  BY <1>2 DEF Advanced, r, u
<1> QED BY <1>1, <1>4, <1>5, <1>6, <1>7 DEF Ring

-----------------------------------------------------------------------------
(* RingsDisjoint in terms of rings. *)
Rings ==
  /\ \A p \in Priority : Ring(queue[p]) /\ \A t \in ToSet(queue[p]) : priority[t] = p
  /\ phase = "run" => current \in ToSet(queue[priority[current]])

LEMMA RingsAreDisjoint ==
  ASSUME TypeOK
  PROVE  Rings <=> RingsDisjoint
<1>1. \A p \in Priority : Ring(queue[p]) <=> IsInjective(queue[p])
  BY DEF TypeOK, Ring
<1>2. priority[current] \in Priority
  BY DEF TypeOK
<1>3. ASSUME \A p \in Priority : \A t \in ToSet(queue[p]) : priority[t] = p
      PROVE  current \in Active <=> current \in ToSet(queue[priority[current]])
  BY <1>2, <1>3 DEF Active
<1> QED BY <1>1, <1>3 DEF Rings, RingsDisjoint

IInv == TypeOK /\ Rings

(* With no thread, and with one.                                           *)
NoThread ==
  /\ queue = NoRing /\ count = NoCount /\ phase = "idle"
  /\ current \in Thread /\ priority \in [Thread -> Priority]

OneThread ==
  /\ queue = RingOf(current, priority[current]) /\ count = NoCount /\ phase = "run"
  /\ current \in Thread /\ priority \in [Thread -> Priority]

LEMMA NoThreadRings == NoThread => IInv
<1> SUFFICES ASSUME NoThread PROVE IInv
  OBVIOUS
<1> USE DEF NoThread
<1>1. Ring(<<>>) /\ ToSet(<<>>) = {}
  BY DEF Ring, IsInjective, ToSet
<1>2. \A p \in Priority : queue[p] = <<>>
  BY DEF NoRing
<1>3. TypeOK
  BY DEF NoRing, NoCount, TypeOK
<1>4. Rings
  BY <1>1, <1>2 DEF Rings
<1> QED BY <1>3, <1>4 DEF IInv

LEMMA OneThreadRings == OneThread => IInv
<1> SUFFICES ASSUME OneThread PROVE IInv
  OBVIOUS
<1> USE DEF OneThread
<1>1. \A p \in Priority : queue[p] = IF p = priority[current] THEN <<current>> ELSE <<>>
  BY DEF RingOf
<1>2. Ring(<<current>>) /\ ToSet(<<current>>) = {current}
  BY DEF Ring, IsInjective, ToSet
<1>3. Ring(<<>>) /\ ToSet(<<>>) = {}
  BY DEF Ring, IsInjective, ToSet
<1>4. TypeOK
  BY DEF RingOf, NoCount, TypeOK
<1>5. Rings
  BY <1>1, <1>2, <1>3 DEF Rings
<1> QED BY <1>4, <1>5 DEF IInv

-----------------------------------------------------------------------------
(* A ring is replaced by one with the same threads, or less one that is    *)
(* made inactive, or plus one of the same priority that was not active.    *)
LEMMA BlockKeepsRings == IInv /\ Block => IInv'
<1> SUFFICES ASSUME IInv, Block PROVE IInv'
  OBVIOUS
<1> DEFINE p == priority[current]
           r == remove_from_list(queue[p], current)
<1>1. p \in Priority /\ Ring(queue[p]) /\ current \in ToSet(queue[p])
  BY DEF IInv, TypeOK, Rings, Block
<1>2. Ring(r) /\ ToSet(r) = ToSet(queue[p]) \ {current}
  BY <1>1, RemoveFromRing
<1> HIDE DEF r
<1>3. /\ queue' = [queue EXCEPT ![p] = r]
      /\ phase' = "yield"
      /\ count' = count /\ priority' = priority /\ current' = current
  BY DEF Block, r
<1>4. TypeOK'
  BY <1>2, <1>3 DEF IInv, TypeOK, Ring
<1>5. Rings'
  <2>1. ASSUME NEW x \in Priority
        PROVE  Ring(queue'[x]) /\ \A t \in ToSet(queue'[x]) : priority'[t] = x
    BY <1>1, <1>2, <1>3 DEF IInv, TypeOK, Rings
  <2> QED BY <2>1, <1>3 DEF Rings
<1> QED BY <1>4, <1>5 DEF IInv

LEMMA WakeKeepsRings ==
  ASSUME IInv, NEW t \in Thread, Wake(t)
  PROVE  IInv'
<1> DEFINE p == priority[t]
           r == add_to_list(queue[p], t)
<1>1. p \in Priority /\ Ring(queue[p]) /\ t \notin ToSet(queue[p])
  BY DEF IInv, TypeOK, Rings, Wake, Active
<1>2. Ring(r) /\ ToSet(r) = ToSet(queue[p]) \cup {t}
  BY <1>1, AddToRing
<1> HIDE DEF r
<1>3. /\ queue' = [queue EXCEPT ![p] = r]
      /\ count' = count /\ priority' = priority /\ current' = current /\ phase' = phase
  BY DEF Wake, r
<1>4. TypeOK'
  BY <1>2, <1>3 DEF IInv, TypeOK, Ring
<1>5. Rings'
  <2>1. ASSUME NEW x \in Priority
        PROVE  Ring(queue'[x]) /\ \A u \in ToSet(queue'[x]) : priority'[u] = x
    BY <1>1, <1>2, <1>3 DEF IInv, TypeOK, Rings
  <2>2. phase = "run" => current \in ToSet(queue'[priority[current]])
    BY <1>1, <1>2, <1>3 DEF IInv, TypeOK, Rings
  <2> QED BY <2>1, <2>2, <1>3 DEF Rings
<1> QED BY <1>4, <1>5 DEF IInv

(* A thread that changes its priority leaves the ring of the old one       *)
(* before it joins that of the new one, which may be the same.             *)
LEMMA SetPriorityKeepsRings ==
  ASSUME IInv, NEW t \in Thread, NEW p \in Priority, set_priority(t, p)
  PROVE  IInv'
<1> DEFINE o == priority[t]
           l == remove_from_list(queue[o], t)
           gone == [queue EXCEPT ![o] = l]
           r == add_to_list(gone[p], t)
<1>1. o \in Priority /\ Ring(queue[o])
  BY DEF IInv, TypeOK, Rings
<1>2. /\ priority' = [priority EXCEPT ![t] = p]
      /\ count' = count /\ current' = current /\ phase' = phase
  BY DEF set_priority
<1>3. CASE t \notin Active
  <2>1. queue' = queue
    BY <1>3 DEF set_priority
  <2>2. TypeOK'
    BY <2>1, <1>2 DEF IInv, TypeOK
  <2>3. \A x \in Priority : t \notin ToSet(queue[x])
    BY <1>3 DEF Active
  <2>4. \A x \in Priority : ToSet(queue[x]) \subseteq Thread
    BY DEF IInv, TypeOK, ToSet
  <2>5. phase = "run" => current # t
    BY <2>3, <1>1 DEF IInv, Rings
  <2>6. Rings'
    BY <2>1, <2>3, <2>4, <2>5, <1>2 DEF IInv, TypeOK, Rings
  <2> QED BY <2>2, <2>6 DEF IInv
<1>4. CASE t \in Active
  <2>1. t \in ToSet(queue[o])
    BY <1>4 DEF Active, IInv, Rings
  <2>2. Ring(l) /\ ToSet(l) = ToSet(queue[o]) \ {t}
    BY <2>1, <1>1, RemoveFromRing
  <2>3. queue' = [gone EXCEPT ![p] = r]
    BY <1>4 DEF set_priority
  <2> HIDE DEF l
  <2>4. gone \in [Priority -> Seq(Thread)]
    BY <1>1, <2>2 DEF IInv, TypeOK, Ring
  <2>5. \A x \in Priority :
          Ring(gone[x]) /\ t \notin ToSet(gone[x]) /\ \A u \in ToSet(gone[x]) : priority[u] = x
    BY <1>1, <2>2 DEF IInv, TypeOK, Rings
  <2>6. \A u \in Thread : u # t => \A x \in Priority : u \in ToSet(queue[x]) => u \in ToSet(gone[x])
    BY <1>1, <2>2 DEF IInv, TypeOK
  <2> HIDE DEF gone
  <2>7. Ring(r) /\ ToSet(r) = ToSet(gone[p]) \cup {t}
    BY <2>5, AddToRing
  <2> HIDE DEF r
  <2>8. TypeOK'
    BY <2>3, <2>4, <2>7, <1>2 DEF IInv, TypeOK, Ring
  <2>9. \A x \in Priority : ToSet(gone[x]) \subseteq Thread
    BY <2>4 DEF ToSet
  <2>10. ASSUME NEW x \in Priority
         PROVE  Ring(queue'[x]) /\ \A u \in ToSet(queue'[x]) : priority'[u] = x
    <3>1. CASE x = p
      BY <3>1, <2>3, <2>4, <2>5, <2>7, <2>9, <1>2 DEF IInv, TypeOK
    <3>2. CASE x # p
      BY <3>2, <2>3, <2>4, <2>5, <2>9, <1>2 DEF IInv, TypeOK
    <3> QED BY <3>1, <3>2
  <2>11. ASSUME phase = "run"
         PROVE  current \in ToSet(queue'[priority'[current]])
    <3>1. current \in Thread /\ priority[current] \in Priority
      BY DEF IInv, TypeOK
    <3>2. CASE current = t
      BY <3>2, <2>3, <2>4, <2>7, <1>2 DEF IInv, TypeOK
    <3>3. CASE current # t
      <4>1. priority'[current] = priority[current]
        BY <3>1, <3>3, <1>2 DEF IInv, TypeOK
      <4>2. current \in ToSet(gone[priority[current]])
        BY <3>1, <3>3, <2>6, <2>11 DEF IInv, Rings
      <4> QED BY <3>1, <4>1, <4>2, <2>3, <2>4, <2>7
    <3> QED BY <3>2, <3>3
  <2> QED BY <2>8, <2>10, <2>11, <1>2 DEF IInv, Rings
<1> QED BY <1>3, <1>4

(* The thread that is picked is the head of its ring. *)
LEMMA PickKeepsRings == IInv /\ Pick => IInv'
<1> SUFFICES ASSUME IInv, Pick PROVE IInv'
  OBVIOUS
<1>1. PICK p \in Candidates : RunFrom(p, Counts, Advanced(queue[p]))
  BY DEF Pick
<1> DEFINE r == Advanced(queue[p])
<1>2. p \in Priority /\ queue[p] # <<>> /\ Ring(queue[p])
  BY DEF Candidates, WithinQuota, Ready, IInv, Rings
<1>3. Ring(r) /\ r # <<>> /\ ToSet(r) = ToSet(queue[p])
  BY <1>2, AdvanceRing
<1> HIDE DEF r
<1>4. /\ queue' = [queue EXCEPT ![p] = r]
      /\ current' = Head(r)
      /\ count' = [Counts EXCEPT ![p] = @ + 1]
      /\ priority' = priority
  BY <1>1 DEF RunFrom, r
<1>5. phase' = "run"
  BY <1>1 DEF RunFrom
<1>6. Head(r) \in Thread /\ Head(r) \in ToSet(r)
  <2>1. r \in Seq(Thread) /\ Head(r) = r[1] /\ 1 \in DOMAIN r
    BY <1>3, HeadTailProperties DEF Ring
  <2> QED BY <2>1 DEF ToSet
<1>7. Counts \in [Priority -> Nat]
  BY DEF Counts, NoCount, IInv, TypeOK
<1>8. TypeOK'
  <2>1. count' \in [Priority -> Nat]
    BY <1>2, <1>4, <1>7
  <2>2. queue' \in [Priority -> Seq(Thread)]
    BY <1>3, <1>4 DEF IInv, TypeOK, Ring
  <2> QED BY <1>4, <1>5, <1>6, <2>1, <2>2 DEF IInv, TypeOK
<1>9. \A x \in Priority : Ring(queue'[x]) /\ \A t \in ToSet(queue'[x]) : priority'[t] = x
  BY <1>2, <1>3, <1>4 DEF IInv, TypeOK, Rings
<1>10. current' \in ToSet(queue'[priority'[current']])
  <2>1. priority[Head(r)] = p
    BY <1>2, <1>3, <1>6 DEF IInv, Rings
  <2> QED BY <2>1, <1>2, <1>4, <1>6 DEF IInv, TypeOK
<1> QED BY <1>8, <1>9, <1>10 DEF IInv, Rings

(* Every VM starts with sound rings, and every step of its threads keeps   *)
(* them; a step of the timers leaves them alone.                           *)
LEMMA StepKeepsRings == IInv /\ [TicksNext]_ticksVars => IInv'
<1> SUFFICES ASSUME IInv, [TicksNext]_ticksVars PROVE IInv'
  OBVIOUS
<1>1. CASE UNCHANGED vars
  BY <1>1 DEF vars, IInv, TypeOK, Rings
<1>2. CASE Start
  <2>1. OneThread'
    BY <1>2 DEF Start, FirstThread, OneThread
  <2> QED BY <2>1, OneThreadRings, PTL
<1>3. CASE Gone
  <2>1. NoThread'
    BY <1>3 DEF Gone, IInv, TypeOK, NoThread
  <2> QED BY <2>1, NoThreadRings, PTL
<1>4. CASE Block
  BY <1>4, BlockKeepsRings
<1>5. CASE Yield
  BY <1>5 DEF Yield, IInv, TypeOK, Rings
<1>6. CASE \E t \in Thread : Wake(t)
  BY <1>6, WakeKeepsRings
<1>7. CASE \E t \in Settable, p \in Priority : set_priority(t, p)
  BY <1>7, SetPriorityKeepsRings, RunQueueAssumption DEF RunQueueAssumption
<1>8. CASE Pick
  BY <1>8, PickKeepsRings
<1>9. CASE Idle
  BY <1>9 DEF Idle, IInv, TypeOK, Rings
<1> QED
  BY <1>1, <1>2, <1>3, <1>4, <1>5, <1>6, <1>7, <1>8, <1>9
  DEF TicksNext, ticksVars, Clock, Expire, CallYield, TickYield, PickNext, GoIdle, Schedule

(* No thread is in two rings, or twice in one, and the running thread is   *)
(* in one (add_to_list, remove_from_list, adjust_priority_list), in every  *)
(* VM that a process runs.                                                 *)
THEOREM RingsStayDisjoint == TicksSpec => []RingsDisjoint
<1>1. TicksInit => IInv
  BY NoThreadRings DEF TicksInit, NoThread
<1>2. IInv => RingsDisjoint
  BY RingsAreDisjoint DEF IInv
<1> QED BY <1>1, <1>2, StepKeepsRings, PTL DEF TicksSpec

-----------------------------------------------------------------------------
(* The invariants of TickTimer are inductive together: the count is exact  *)
(* because a slot is only counted down when it is taken, its bound follows *)
(* from that, and the handle of a running VM stays taken because only a VM *)
(* that ends or fails to start finalizes, and always the last handle.      *)
TimerInv == TimerTypeOK /\ CountExact /\ TickerHeld /\ FailureHeals

(* The slots are finite and as many as MaxTimers, so that whatever is      *)
(* taken (timer_slots) can be counted.                                     *)
LEMMA SlotsFinite ==
  /\ IsFiniteSet(Slot)
  /\ Cardinality(Slot) = MaxTimers
  /\ \A S \in SUBSET Slot : IsFiniteSet(S) /\ Cardinality(S) \in 0 .. MaxTimers
<1>1. IsFiniteSet(Slot) /\ Cardinality(Slot) = MaxTimers
  BY FS_Interval, TimerAssumption DEF Slot
<1>2. ASSUME NEW S \in SUBSET Slot
      PROVE  IsFiniteSet(S) /\ Cardinality(S) \in 0 .. MaxTimers
  <2>1. IsFiniteSet(S) /\ Cardinality(S) <= MaxTimers
    BY <1>1, FS_Subset
  <2>2. Cardinality(S) \in Nat
    BY <2>1, FS_CardinalityType
  <2> QED
    BY <2>1, <2>2, TimerAssumption
<1> QED
  BY <1>1, <1>2

(* javacall_time_finalize_timer, of a slot that is taken or not, frees the *)
(* slot and keeps the count exact.                                         *)
LEMMA FinalizeKeepsCount ==
  ASSUME TimerTypeOK, CountExact, NEW i \in Slot, javacall_time_finalize_timer(i)
  PROVE  /\ taken' \in SUBSET Slot
         /\ i \notin taken'
         /\ CountExact'
         /\ active_timers_count' \in 0 .. MaxTimers
<1>1. taken' = taken \ {i} /\ taken \in SUBSET Slot
  BY DEF javacall_time_finalize_timer, TimerTypeOK
<1>2. Cardinality(taken') = IF i \in taken THEN Cardinality(taken) - 1
                            ELSE Cardinality(taken)
  BY <1>1, SlotsFinite, FS_RemoveElement
<1>3. i \in taken => active_timers_count > 0
  <2> SUFFICES ASSUME i \in taken PROVE active_timers_count > 0
    OBVIOUS
  <2>1. Cardinality(taken) # 0
    BY <1>1, SlotsFinite, FS_EmptySet
  <2> QED
    BY <2>1 DEF CountExact, TimerTypeOK
<1>4. active_timers_count' = Cardinality(taken')
  BY <1>2, <1>3 DEF javacall_time_finalize_timer, CountExact
<1> QED
  BY <1>1, <1>4, SlotsFinite DEF CountExact

(* javacall_time_initialize_timer counts the slot it takes.                *)
LEMMA InitializeKeepsCount ==
  ASSUME TimerTypeOK, CountExact, NEW i \in Slot, javacall_time_initialize_timer(i)
  PROVE  /\ taken' \in SUBSET Slot
         /\ i \in taken'
         /\ CountExact'
         /\ active_timers_count' \in 0 .. MaxTimers
         /\ left' \in [Slot -> 0 .. Interval]
<1>1. taken' = taken \cup {i} /\ i \notin taken /\ taken \in SUBSET Slot
  BY DEF javacall_time_initialize_timer, FirstFree, TimerTypeOK
<1>2. Cardinality(taken') = Cardinality(taken) + 1
  BY <1>1, SlotsFinite, FS_AddElement
<1>3. active_timers_count' = Cardinality(taken')
  BY <1>2 DEF javacall_time_initialize_timer, CountExact
<1>4. left' \in [Slot -> 0 .. Interval]
  BY TimerAssumption DEF javacall_time_initialize_timer, TimerTypeOK
<1> QED
  BY <1>1, <1>3, <1>4, SlotsFinite DEF CountExact

(* Every VM starts from an empty table of timers.                          *)
LEMMA TimerInitInv == TimerInit => TimerInv
<1> SUFFICES ASSUME TimerInit PROVE TimerInv
  OBVIOUS
<1>1. CountExact
  BY FS_EmptySet DEF TimerInit, CountExact
<1>2. left \in [Slot -> 0 .. Interval]
  BY TimerAssumption DEF TimerInit
<1>3. handle \in Slot /\ active_timers_count \in 0 .. MaxTimers
  BY TimerAssumption DEF TimerInit, Slot
<1> QED
  BY <1>1, <1>2, <1>3 DEF TimerInit, TimerInv, TimerTypeOK, TickerHeld, FailureHeals

(* No operation of the timers or of a VM breaks the invariant.             *)
LEMMA TimerNextInv == TimerInv /\ [TimerNext]_timerVars => TimerInv'
<1> SUFFICES ASSUME TimerInv, [TimerNext]_timerVars PROVE TimerInv'
  OBVIOUS
<1> USE DEF TimerInv
<1>1. CASE Elapse
  <2>1. left' \in [Slot -> 0 .. Interval]
    BY <1>1, TimerAssumption DEF Elapse, TimerTypeOK
  <2> QED
    BY <1>1, <2>1
    DEF Elapse, TimerTypeOK, CountExact, TickerHeld, FailureHeals
<1>2. CASE gb300_check_timers
  <2>1. left' \in [Slot -> 0 .. Interval]
    BY <1>2, TimerAssumption DEF gb300_check_timers, TimerTypeOK
  <2> QED
    BY <1>2, <2>1
    DEF gb300_check_timers, Reschedule, TimerTypeOK, CountExact, TickerHeld, FailureHeals
<1>3. CASE StartVM
  <2>1. PICK i \in Slot : javacall_time_initialize_timer(i) /\ handle' = i
    BY <1>3 DEF StartVM
  <2> QED
    BY <1>3, <2>1, InitializeKeepsCount
    DEF StartVM, TimerTypeOK, TickerHeld, FailureHeals
<1>4. CASE StartFails
  <2>1. javacall_time_finalize_timer(handle) /\ handle \in Slot
    BY <1>4 DEF StartFails, StopTicks, TimerTypeOK
  <2>2. taken' # Slot
    BY <2>1, FinalizeKeepsCount
  <2> QED
    BY <1>4, <2>1, <2>2, FinalizeKeepsCount
    DEF StartFails, javacall_time_finalize_timer, TimerTypeOK, TickerHeld, FailureHeals
<1>5. CASE EndVM
  <2>1. javacall_time_finalize_timer(handle) /\ handle \in Slot
    BY <1>5 DEF EndVM, StopTicks, TimerTypeOK
  <2> QED
    BY <1>5, <2>1, FinalizeKeepsCount
    DEF EndVM, javacall_time_finalize_timer, TimerTypeOK, TickerHeld, FailureHeals
<1>6. CASE LeaveVM
  BY <1>6 DEF LeaveVM, slotVars, TimerTypeOK, CountExact, TickerHeld, FailureHeals
<1>7. CASE TakeTick
  BY <1>7 DEF TakeTick, slotVars, TimerTypeOK, CountExact, TickerHeld, FailureHeals
<1>8. CASE UNCHANGED timerVars
  BY <1>8 DEF timerVars, slotVars, TimerTypeOK, CountExact, TickerHeld, FailureHeals
<1> QED
  BY <1>1, <1>2, <1>3, <1>4, <1>5, <1>6, <1>7, <1>8 DEF TimerNext

(* Threads leave the timers alone, but for taking note of a tick.          *)
LEMMA TimerStep == [TicksNext]_ticksVars => [TimerNext]_timerVars
  BY DEF TicksNext, ticksVars, TimerNext, Clock, Expire, Start, Gone, CallYield, TickYield,
         PickNext, GoIdle, Schedule

LEMMA TimerInvariant == TicksSpec => []TimerInv
<1>1. TicksInit => TimerInv
  BY TimerInitInv DEF TicksInit
<1>2. TimerInv /\ [TicksNext]_ticksVars => TimerInv'
  BY TimerStep, TimerNextInv
<1> QED BY <1>1, <1>2, PTL DEF TicksSpec

(* active_timers_count is the number of slots in use, through ends and     *)
(* failed starts that finalize a handle twice and VMs that are left: it    *)
(* cannot reach zero while a timer is due.                                 *)
THEOREM CountIsExact == TicksSpec => [](TimerTypeOK /\ CountExact)
<1>1. TimerInv => TimerTypeOK /\ CountExact
  BY DEF TimerInv
<1> QED
  BY <1>1, TimerInvariant, PTL

(* The slot of the VM that runs is never given back by the clean-up of     *)
(* another one, so its threads are ticked.                                 *)
THEOREM TickerIsHeld == TicksSpec => []TickerHeld
<1>1. TimerInv => TickerHeld
  BY DEF TimerInv
<1> QED
  BY <1>1, TimerInvariant, PTL

(* After a start that failed there is a free slot, for every number of     *)
(* slots and of VMs that were left.                                        *)
THEOREM FailuresHeal == TicksSpec => []FailureHeals
<1>1. TimerInv => FailureHeals
  BY DEF TimerInv
<1> QED
  BY <1>1, TimerInvariant, PTL
=============================================================================
