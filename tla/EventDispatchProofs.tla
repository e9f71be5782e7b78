------------------------ MODULE EventDispatchProofs ------------------------
(***************************************************************************)
(* EventDispatch for every size of the native queue and of the pool, every *)
(* set of event types and any number of events.                            *)
(***************************************************************************)
EXTENDS EventDispatch, FiniteSetTheorems, WellFoundedInduction, NaturalsInduction,
        SequenceTheorems, TLAPS

NP == INSTANCE NativeEventQueueProofs WITH Event <- EventData

-----------------------------------------------------------------------------
(* A set of natural numbers that is not empty has a least element. *)
LEMMA LeastElement ==
  ASSUME NEW T, T \subseteq Nat, T # {}
  PROVE  \E n \in T : \A m \in T : n <= m
<1>1. PICK n \in T : \A m \in T : ~(<<m, n>> \in OpToRel(<, Nat))
  BY WFMin, NatLessThanWellFounded, Zenon
<1>2. ASSUME NEW m \in T PROVE n <= m
  <2>1. m \in Nat /\ n \in Nat
    OBVIOUS
  <2>2. ~(m < n)
    BY <1>1, <2>1, Zenon DEF OpToRel
  <2> QED BY <2>1, <2>2
<1> QED BY <1>2

(* The size of a union, and of the values of a function over 1..n. *)
LEMMA UnionBound ==
  ASSUME NEW S, IsFiniteSet(S), NEW T, IsFiniteSet(T)
  PROVE  /\ IsFiniteSet(S \cup T) /\ Cardinality(S \cup T) \in Nat
         /\ Cardinality(S \cup T) <= Cardinality(S) + Cardinality(T)
<1>1. IsFiniteSet(S \cup T) /\ IsFiniteSet(S \cap T)
  BY FS_Union, FS_Intersection
<1>2. /\ Cardinality(S) \in Nat /\ Cardinality(T) \in Nat
      /\ Cardinality(S \cap T) \in Nat /\ Cardinality(S \cup T) \in Nat
  BY <1>1, FS_CardinalityType
<1>3. Cardinality(S \cup T) = Cardinality(S) + Cardinality(T) - Cardinality(S \cap T)
  BY FS_Union
<1> QED BY <1>1, <1>2, <1>3

Members(n, f) == {f[i] : i \in 1 .. n}

LEMMA MembersCounted ==
  ASSUME NEW n \in Nat, NEW S, NEW f \in [1 .. n -> S],
         \A i, j \in 1 .. n : f[i] = f[j] => i = j
  PROVE  IsFiniteSet(Members(n, f)) /\ Cardinality(Members(n, f)) = n
<1>1. f \in Bijection(1 .. n, Members(n, f))
  <2>1. f \in [1 .. n -> Members(n, f)]
    BY DEF Members
  <2> QED BY <2>1 DEF Bijection, Injection, IsInjective, Surjection, Members
<1>2. IsFiniteSet(1 .. n) /\ Cardinality(1 .. n) = n
  BY FS_Interval
<1> QED BY <1>1, <1>2, FS_Bijection DEF ExistsBijection

-----------------------------------------------------------------------------
(* The Java queue is a linked list: its k objects are q, in this order. An *)
(* object that is not in it has no link.                                   *)
Listed(k, q) ==
  /\ k \in Nat /\ q \in [1 .. k -> Obj]
  /\ \A i, j \in 1 .. k : q[i] = q[j] => i = j
  /\ nextEvent = IF k = 0 THEN Null ELSE q[1]
  /\ lastEvent = IF k = 0 THEN Null ELSE q[k]
  /\ next \in [Obj -> Obj \cup {Null}]
  /\ \A i \in 1 .. k : next[q[i]] = IF i = k THEN Null ELSE q[i + 1]
  /\ \A o \in Obj : o \notin Members(k, q) => next[o] = Null

(* Following the links from nextEvent visits the objects of the list. *)
LEMMA ChainFollowsList ==
  ASSUME NEW k, NEW q, Listed(k, q)
  PROVE  /\ k <= Cardinality(Obj) /\ Cardinality(Obj) \in Nat
         /\ Chain = [n \in 0 .. Cardinality(Obj) |-> IF n < k THEN q[n + 1] ELSE Null]
<1> DEFINE N == Cardinality(Obj)
           g == [n \in 0 .. N |-> IF n < k THEN q[n + 1] ELSE Null]
<1>1. N \in Nat /\ IsFiniteSet(Obj) /\ Null \notin Obj
  BY DispatchAssumption, FS_CardinalityType DEF DispatchAssumption
<1>2. k \in Nat /\ q \in [1 .. k -> Obj]
  BY DEF Listed
<1>3. k <= N
  <2>1. q \in Injection(1 .. k, Obj)
    BY DEF Listed, Injection, IsInjective
  <2>2. Cardinality(1 .. k) <= N
    BY <2>1, <1>1, FS_Injection
  <2> QED BY <2>2, <1>2, FS_Interval
<1>4. \A n \in 0 .. N : g[n] = IF n = 0 THEN nextEvent ELSE Follow(g[n - 1])
  <2> SUFFICES ASSUME NEW n \in 0 .. N
               PROVE  g[n] = IF n = 0 THEN nextEvent ELSE Follow(g[n - 1])
    OBVIOUS
  <2>1. CASE n = 0
    BY <2>1, <1>1, <1>2 DEF Listed
  <2>2. CASE n # 0
    <3>1. n - 1 \in 0 .. N /\ g[n - 1] = IF n - 1 < k THEN q[n] ELSE Null
      BY <2>2, <1>1
    <3>2. CASE n - 1 < k
      <4>1. n \in 1 .. k /\ g[n - 1] = q[n] /\ q[n] # Null
        BY <3>1, <3>2, <2>2, <1>1, <1>2
      <4>2. Follow(g[n - 1]) = next[q[n]]
        BY <4>1 DEF Follow
      <4>3. next[q[n]] = IF n = k THEN Null ELSE q[n + 1]
        BY <4>1 DEF Listed
      <4>4. g[n] = IF n = k THEN Null ELSE q[n + 1]
        BY <4>1, <1>2
      <4> QED BY <4>2, <4>3, <4>4, <2>2
    <3>3. CASE ~(n - 1 < k)
      <4>1. ~(n < k) /\ g[n - 1] = Null
        BY <3>1, <3>3, <1>1, <1>2
      <4> QED BY <4>1, <2>2 DEF Follow
    <3> QED BY <3>2, <3>3
  <2> QED BY <2>1, <2>2
<1>5. g = [n \in 0 .. N |-> IF n = 0 THEN nextEvent ELSE Follow(g[n - 1])]
  <2> DEFINE r == [n \in 0 .. N |-> IF n = 0 THEN nextEvent ELSE Follow(g[n - 1])]
  <2>1. \A n \in 0 .. N : g[n] = r[n]
    BY <1>4
  <2>2. DOMAIN g = 0 .. N /\ g = [n \in 0 .. N |-> g[n]]
    OBVIOUS
  <2> HIDE DEF g
  <2> QED BY <2>1, <2>2
<1> HIDE DEF g
<1>6. Chain = [n \in 0 .. N |-> IF n = 0 THEN nextEvent ELSE Follow(Chain[n - 1])]
  BY <1>5 DEF Chain
<1>7. \A n \in 0 .. N : Chain[n] = g[n]
  <2> DEFINE T == {n \in 0 .. N : Chain[n] # g[n]}
  <2> SUFFICES ASSUME T # {} PROVE FALSE
    OBVIOUS
  <2>1. PICK n \in T : \A m \in T : n <= m
    <3>1. T \subseteq Nat
      BY <1>1
    <3> HIDE DEF T
    <3> QED BY <3>1, LeastElement
  <2>2. n \in 0 .. N /\ Chain[n] # g[n]
    BY <2>1
  <2>3. CASE n = 0
    BY <2>2, <2>3, <1>4, <1>6
  <2>4. CASE n # 0
    <3>1. n - 1 \in 0 .. N /\ ~(n <= n - 1)
      BY <2>2, <2>4, <1>1
    <3>2. Chain[n - 1] = g[n - 1]
      BY <3>1, <2>1
    <3>3. Chain[n] = Follow(Chain[n - 1]) /\ g[n] = Follow(g[n - 1])
      BY <2>2, <2>4, <1>4, <1>6
    <3> QED BY <3>2, <3>3, <2>2
  <2> QED BY <2>3, <2>4
<1>8. Chain = g
  <2>1. Chain = [n \in 0 .. N |-> Chain[n]] /\ g = [n \in 0 .. N |-> g[n]]
    BY <1>6, <1>5
  <2> QED BY <2>1, <1>7
<1> QED BY <1>1, <1>3, <1>8 DEF g

LEMMA QueueIsList ==
  ASSUME NEW k, NEW q, Listed(k, q)
  PROVE  Queued = Members(k, q) /\ JavaQueue = q
<1> DEFINE N == Cardinality(Obj)
<1>1. k \in Nat /\ q \in [1 .. k -> Obj] /\ Null \notin Obj
  BY DispatchAssumption DEF DispatchAssumption, Listed
<1>2. k <= N /\ N \in Nat
  BY ChainFollowsList
<1>3. Chain = [n \in 0 .. N |-> IF n < k THEN q[n + 1] ELSE Null]
  BY ChainFollowsList
<1> HIDE DEF N
<1>4. Queued = Members(k, q)
  <2>1. Queued = {Chain[n] : n \in 0 .. N} \ {Null}
    BY <1>3 DEF Queued
  <2>2. ASSUME NEW n \in 0 .. N, Chain[n] # Null PROVE Chain[n] \in Members(k, q)
    <3>1. n + 1 \in 1 .. k /\ Chain[n] = q[n + 1]
      BY <2>2, <1>1, <1>2, <1>3
    <3> QED BY <3>1 DEF Members
  <2>3. ASSUME NEW i \in 1 .. k PROVE q[i] \in {Chain[n] : n \in 0 .. N} \ {Null}
    <3>1. i - 1 \in 0 .. N /\ Chain[i - 1] = q[i] /\ q[i] # Null
      BY <1>1, <1>2, <1>3
    <3> QED BY <3>1
  <2> QED BY <2>1, <2>2, <2>3 DEF Members
<1>5. Cardinality(Queued) = k
  BY <1>1, <1>4, MembersCounted DEF Listed
<1>6. JavaQueue = [n \in 1 .. k |-> Chain[n - 1]]
  BY <1>5 DEF JavaQueue
<1>7. \A n \in 1 .. k : Chain[n - 1] = q[n]
  BY <1>1, <1>2, <1>3
<1>8. JavaQueue = [n \in 1 .. k |-> q[n]]
  BY <1>6, <1>7
<1> QED BY <1>1, <1>4, <1>8

-----------------------------------------------------------------------------
(* What the operations do to the list: Link puts an object at its end,     *)
(* UnlinkHead takes the first one, Remove one from anywhere.               *)
Added(k, q, o) == [i \in 1 .. k + 1 |-> IF i = k + 1 THEN o ELSE q[i]]
Without(k, q, p) == [i \in 1 .. k - 1 |-> IF i < p THEN q[i] ELSE q[i + 1]]

LEMMA AddedMembers ==
  ASSUME NEW k \in Nat, NEW q \in [1 .. k -> Obj],
         \A i, j \in 1 .. k : q[i] = q[j] => i = j,
         NEW o \in Obj, o \notin Members(k, q)
  PROVE  LET r == Added(k, q, o)
         IN  /\ r \in [1 .. k + 1 -> Obj]
             /\ \A i, j \in 1 .. k + 1 : r[i] = r[j] => i = j
             /\ r[k + 1] = o /\ \A i \in 1 .. k : r[i] = q[i]
             /\ Members(k + 1, r) = Members(k, q) \cup {o}
<1> DEFINE r == Added(k, q, o)
<1>1. r \in [1 .. k + 1 -> Obj] /\ r[k + 1] = o /\ \A i \in 1 .. k : r[i] = q[i]
  BY DEF Added
<1>2. \A i \in 1 .. k : r[i] # o
  BY <1>1 DEF Members
<1>3. \A i \in 1 .. k + 1 : i \in 1 .. k \/ i = k + 1
  OBVIOUS
<1>4. k + 1 \in 1 .. k + 1 /\ \A i \in 1 .. k : i \in 1 .. k + 1
  OBVIOUS
<1> HIDE DEF r
<1>5. \A i, j \in 1 .. k + 1 : r[i] = r[j] => i = j
  BY <1>1, <1>2, <1>3
<1>6. Members(k + 1, r) = Members(k, q) \cup {o}
  BY <1>1, <1>3, <1>4 DEF Members
<1> QED BY <1>1, <1>5, <1>6 DEF r

LEMMA WithoutMembers ==
  ASSUME NEW k \in Nat, NEW q \in [1 .. k -> Obj],
         \A i, j \in 1 .. k : q[i] = q[j] => i = j,
         NEW p \in 1 .. k
  PROVE  LET r == Without(k, q, p)
         IN  /\ k - 1 \in Nat /\ r \in [1 .. k - 1 -> Obj]
             /\ \A i, j \in 1 .. k - 1 : r[i] = r[j] => i = j
             /\ Members(k - 1, r) = Members(k, q) \ {q[p]}
<1> DEFINE r == Without(k, q, p)
<1>1. /\ k - 1 \in Nat /\ r \in [1 .. k - 1 -> Obj]
      /\ \A i \in 1 .. k - 1 : r[i] = IF i < p THEN q[i] ELSE q[i + 1]
  BY DEF Without
<1> HIDE DEF r
<1>2. \A i, j \in 1 .. k - 1 : r[i] = r[j] => i = j
  BY <1>1
<1>3. ASSUME NEW i \in 1 .. k - 1 PROVE r[i] \in Members(k, q) \ {q[p]}
  <2>1. CASE i < p
    BY <2>1, <1>1 DEF Members
  <2>2. CASE ~(i < p)
    <3>1. i + 1 \in 1 .. k /\ i + 1 # p /\ r[i] = q[i + 1]
      BY <2>2, <1>1
    <3> QED BY <3>1 DEF Members
  <2> QED BY <2>1, <2>2
<1>4. ASSUME NEW i \in 1 .. k, i # p PROVE q[i] \in Members(k - 1, r)
  <2>1. CASE i < p
    <3>1. i \in 1 .. k - 1 /\ r[i] = q[i]
      BY <2>1, <1>1
    <3> QED BY <3>1 DEF Members
  <2>2. CASE i > p
    <3>1. i - 1 \in 1 .. k - 1 /\ r[i - 1] = q[i]
      BY <2>2, <1>1
    <3> QED BY <3>1 DEF Members
  <2> QED BY <2>1, <2>2, <1>4
<1>5. Members(k - 1, r) = Members(k, q) \ {q[p]}
  BY <1>3, <1>4 DEF Members
<1> QED BY <1>1, <1>2, <1>5 DEF r

LEMMA LinkAdds ==
  ASSUME NEW k, NEW q, Listed(k, q), NEW o \in Obj, o \notin Members(k, q), NEW e,
         Link(o, e)
  PROVE  Listed(k + 1, Added(k, q, o))'
<1> DEFINE r == Added(k, q, o)
<1>1. /\ k \in Nat /\ q \in [1 .. k -> Obj] /\ Null \notin Obj
      /\ \A i, j \in 1 .. k : q[i] = q[j] => i = j
      /\ next \in [Obj -> Obj \cup {Null}]
  BY DispatchAssumption DEF DispatchAssumption, Listed
<1>2. /\ r \in [1 .. k + 1 -> Obj]
      /\ \A i, j \in 1 .. k + 1 : r[i] = r[j] => i = j
      /\ r[k + 1] = o /\ \A i \in 1 .. k : r[i] = q[i]
      /\ Members(k + 1, r) = Members(k, q) \cup {o}
  BY <1>1, AddedMembers
<1> HIDE DEF r
<1>3. next[o] = Null
  BY DEF Listed
<1>4. CASE k = 0
  <2>1. nextEvent' = o /\ lastEvent' = o /\ next' = next
    BY <1>4 DEF Listed, Link
  <2>2. Members(k, q) = {}
    BY <1>4 DEF Members
  <2>3. \A x \in Obj : x \notin Members(k + 1, r) => next'[x] = Null
    BY <2>1, <2>2, <1>2 DEF Listed
  <2>4. \A i \in 1 .. k + 1 : next'[r[i]] = IF i = k + 1 THEN Null ELSE r[i + 1]
    BY <2>1, <1>2, <1>3, <1>4
  <2>5. /\ k + 1 \in Nat /\ next' \in [Obj -> Obj \cup {Null}]
        /\ nextEvent' = IF k + 1 = 0 THEN Null ELSE r[1]
        /\ lastEvent' = IF k + 1 = 0 THEN Null ELSE r[k + 1]
    BY <2>1, <1>1, <1>2, <1>4
  <2> QED BY <2>3, <2>4, <2>5, <1>2 DEF Listed, r
<1>5. CASE k > 0
  <2>1. k \in 1 .. k /\ q[k] \in Obj /\ lastEvent = q[k] /\ nextEvent = q[1]
    BY <1>1, <1>5 DEF Listed
  <2>2. nextEvent' = nextEvent /\ lastEvent' = o /\ next' = [next EXCEPT ![q[k]] = o]
    BY <2>1, <1>1 DEF Link
  <2>3. \A x \in Obj : next'[x] = IF x = q[k] THEN o ELSE next[x]
    BY <2>1, <2>2, <1>1
  <2>4. ASSUME NEW i \in 1 .. k + 1
        PROVE  next'[r[i]] = IF i = k + 1 THEN Null ELSE r[i + 1]
    <3>1. CASE i = k + 1
      <4>1. o # q[k]
        BY <2>1 DEF Members
      <4> QED BY <3>1, <4>1, <2>3, <1>2, <1>3
    <3>2. CASE i = k
      BY <3>2, <2>1, <2>3, <1>1, <1>2
    <3>3. CASE i \in 1 .. k - 1
      <4>1. i \in 1 .. k /\ i + 1 \in 1 .. k /\ i # k /\ i # k + 1
        BY <3>3, <1>1
      <4>2. next[q[i]] = q[i + 1]
        BY <4>1 DEF Listed
      <4>3. q[i] # q[k] /\ q[i] \in Obj
        BY <4>1, <2>1, <1>1
      <4> QED BY <4>1, <4>2, <4>3, <2>3, <1>2
    <3> QED BY <3>1, <3>2, <3>3, <1>1
  <2>5. \A x \in Obj : x \notin Members(k + 1, r) => next'[x] = Null
    <3>1. q[k] \in Members(k, q)
      BY <2>1 DEF Members
    <3> QED BY <3>1, <2>3, <1>2 DEF Listed
  <2>6. next' \in [Obj -> Obj \cup {Null}]
    BY <2>2, <1>1
  <2>7. /\ k + 1 \in Nat
        /\ nextEvent' = IF k + 1 = 0 THEN Null ELSE r[1]
        /\ lastEvent' = IF k + 1 = 0 THEN Null ELSE r[k + 1]
    <3>1. r[1] = q[1] /\ k + 1 # 0 /\ k + 1 \in Nat
      BY <1>1, <1>2, <1>5
    <3> QED BY <3>1, <2>1, <2>2, <1>2
  <2> QED BY <2>4, <2>5, <2>6, <2>7, <1>2 DEF Listed, r
<1> QED BY <1>1, <1>4, <1>5 DEF r

LEMMA UnlinkTakesFirst ==
  ASSUME NEW k, NEW q, Listed(k, q), nextEvent # Null, UnlinkHead
  PROVE  k > 0 /\ nextEvent = q[1] /\ Listed(k - 1, Without(k, q, 1))'
<1> DEFINE r == Without(k, q, 1)
<1>1. /\ k \in Nat /\ q \in [1 .. k -> Obj] /\ Null \notin Obj
      /\ \A i, j \in 1 .. k : q[i] = q[j] => i = j
      /\ next \in [Obj -> Obj \cup {Null}]
  BY DispatchAssumption DEF DispatchAssumption, Listed
<1>2. k > 0 /\ nextEvent = q[1] /\ lastEvent = q[k]
  BY <1>1 DEF Listed
<1>3. 1 \in 1 .. k /\ k \in 1 .. k /\ q[1] \in Obj
  BY <1>1, <1>2
<1>4. /\ k - 1 \in Nat /\ r \in [1 .. k - 1 -> Obj]
      /\ \A i, j \in 1 .. k - 1 : r[i] = r[j] => i = j
      /\ Members(k - 1, r) = Members(k, q) \ {q[1]}
  BY <1>1, <1>3, WithoutMembers
<1>5. \A i \in 1 .. k - 1 : r[i] = q[i + 1]
  BY <1>1 DEF Without
<1> HIDE DEF r
<1>6. next[q[1]] = IF k = 1 THEN Null ELSE q[2]
  BY <1>3 DEF Listed
<1>7. /\ nextEvent' = IF k - 1 = 0 THEN Null ELSE r[1]
      /\ lastEvent' = IF k - 1 = 0 THEN Null ELSE r[k - 1]
  <2>1. nextEvent' = next[q[1]]
        /\ lastEvent' = IF next[q[1]] = Null THEN Null ELSE lastEvent
    BY <1>2 DEF UnlinkHead
  <2>2. CASE k = 1
    BY <2>1, <2>2, <1>6
  <2>3. CASE k # 1
    <3>1. 1 \in 1 .. k - 1 /\ k - 1 \in 1 .. k - 1 /\ 2 \in 1 .. k /\ k - 1 # 0
      BY <2>3, <1>1, <1>2
    <3>2. r[1] = q[2] /\ r[k - 1] = q[k] /\ q[2] # Null
      BY <3>1, <1>1, <1>5
    <3> QED BY <3>1, <3>2, <2>1, <2>3, <1>2, <1>6
  <2> QED BY <2>2, <2>3
<1>8. /\ next' \in [Obj -> Obj \cup {Null}]
      /\ \A x \in Obj : next'[x] = IF x = q[1] THEN Null ELSE next[x]
  BY <1>1, <1>2, <1>3 DEF UnlinkHead
<1>9. ASSUME NEW i \in 1 .. k - 1
      PROVE  next'[r[i]] = IF i = k - 1 THEN Null ELSE r[i + 1]
  <2>1. i + 1 \in 1 .. k /\ r[i] = q[i + 1] /\ q[i + 1] # q[1] /\ q[i + 1] \in Obj
    BY <1>1, <1>3, <1>5
  <2>2. next'[r[i]] = IF i + 1 = k THEN Null ELSE q[i + 1 + 1]
    BY <2>1, <1>8 DEF Listed
  <2>3. CASE i = k - 1
    BY <2>2, <2>3, <1>1
  <2>4. CASE i # k - 1
    <3>1. i + 1 \in 1 .. k - 1 /\ i + 1 # k
      BY <2>4, <1>1
    <3> QED BY <3>1, <2>2, <2>4, <1>5
  <2> QED BY <2>3, <2>4
<1>10. \A x \in Obj : x \notin Members(k - 1, r) => next'[x] = Null
  BY <1>4, <1>8 DEF Listed
<1> HIDE DEF Members
<1> QED BY <1>2, <1>4, <1>7, <1>8, <1>9, <1>10 DEF Listed, r

LEMMA NewList ==
  ASSUME NEW n \in Nat, NEW r \in [1 .. n -> Obj],
         \A i, j \in 1 .. n : r[i] = r[j] => i = j,
         nextEvent' = IF n = 0 THEN Null ELSE r[1],
         lastEvent' = IF n = 0 THEN Null ELSE r[n],
         next' \in [Obj -> Obj \cup {Null}],
         \A i \in 1 .. n : next'[r[i]] = IF i = n THEN Null ELSE r[i + 1],
         \A x \in Obj : x \notin Members(n, r) => next'[x] = Null
  PROVE  Listed(n, r)'
BY DEF Listed

LEMMA RemoveUnlinks ==
  ASSUME NEW k, NEW q, Listed(k, q), NEW t, Remove(t)
  PROVE  \E p \in 1 .. k :
           /\ content[q[p]].type = t
           /\ waiting' = IF waiting[t] = q[p] THEN [waiting EXCEPT ![t] = Null] ELSE waiting
           /\ content' = [content EXCEPT ![q[p]] = Blank]
           /\ gone' = gone \cup {content[q[p]].id}
           /\ Listed(k - 1, Without(k, q, p))'
<1>1. /\ k \in Nat /\ q \in [1 .. k -> Obj] /\ Null \notin Obj
      /\ \A i, j \in 1 .. k : q[i] = q[j] => i = j
      /\ next \in [Obj -> Obj \cup {Null}]
  BY DispatchAssumption DEF DispatchAssumption, Listed
<1> DEFINE Before(p) == IF p = 1 THEN Null ELSE q[p - 1]
           Removed(p) ==
             /\ waiting' = IF waiting[t] = q[p] THEN [waiting EXCEPT ![t] = Null] ELSE waiting
             /\ nextEvent' = IF q[p] = nextEvent THEN next[q[p]] ELSE nextEvent
             /\ lastEvent' = IF q[p] = lastEvent THEN Before(p) ELSE lastEvent
             /\ next' = [x \in Obj |-> IF x = q[p] THEN Null
                                       ELSE IF x = Before(p) THEN next[q[p]] ELSE next[x]]
             /\ content' = [content EXCEPT ![q[p]] = Blank]
             /\ gone' = gone \cup {content[q[p]].id}
<1>2. \E p \in Places(q, t) : Removed(p)
  <2> DEFINE p == CHOOSE i \in Places(q, t) : \A j \in Places(q, t) : i <= j
  <2>1. JavaQueue = q
    BY QueueIsList
  <2>2. Places(q, t) # {} /\ Removed(p)
    BY <2>1 DEF Remove, TailMovesUp
  <2>3. Places(q, t) \subseteq Nat
    BY <1>1 DEF Places
  <2>4. \E i \in Places(q, t) : \A j \in Places(q, t) : i <= j
    BY <2>2, <2>3, LeastElement
  <2>5. p \in Places(q, t)
    BY <2>4
  <2> HIDE DEF p, Removed
  <2> QED BY <2>2, <2>5
<1>3. PICK p \in 1 .. k : content[q[p]].type = t /\ Removed(p)
  <2> HIDE DEF Removed
  <2> QED BY <1>1, <1>2 DEF Places
<1> DEFINE prev == Before(p)
           r    == Without(k, q, p)
<1>4. /\ k - 1 \in Nat /\ r \in [1 .. k - 1 -> Obj]
      /\ \A i, j \in 1 .. k - 1 : r[i] = r[j] => i = j
      /\ Members(k - 1, r) = Members(k, q) \ {q[p]}
  BY <1>1, <1>3, WithoutMembers
<1>5. \A i \in 1 .. k - 1 : r[i] = IF i < p THEN q[i] ELSE q[i + 1]
  BY <1>1, <1>3 DEF Without
<1> HIDE DEF r
<1>6. /\ next[q[p]] = IF p = k THEN Null ELSE q[p + 1]
      /\ nextEvent = q[1] /\ lastEvent = q[k]
      /\ (q[p] = nextEvent <=> p = 1) /\ (q[p] = lastEvent <=> p = k)
      /\ q[p] \in Obj
  BY <1>1, <1>3 DEF Listed
<1>7. nextEvent' = IF k - 1 = 0 THEN Null ELSE r[1]
  <2>1. CASE p = 1
    <3>1. nextEvent' = IF k = 1 THEN Null ELSE q[2]
      BY <2>1, <1>3, <1>6
    <3>2. k # 1 => 1 \in 1 .. k - 1
      BY <1>1, <1>3
    <3> QED BY <2>1, <3>1, <3>2, <1>1, <1>3, <1>5
  <2>2. CASE p # 1
    <3>1. 1 \in 1 .. k - 1 /\ 1 < p /\ k - 1 # 0
      BY <2>2, <1>1, <1>3
    <3> QED BY <3>1, <2>2, <1>3, <1>5, <1>6
  <2> QED BY <2>1, <2>2
<1>8. lastEvent' = IF k - 1 = 0 THEN Null ELSE r[k - 1]
  <2>1. CASE p = k
    <3>1. lastEvent' = prev
      BY <2>1, <1>3, <1>6
    <3>2. k # 1 => k - 1 \in 1 .. k - 1 /\ k - 1 < p
      BY <2>1, <1>1, <1>3
    <3> QED BY <2>1, <3>1, <3>2, <1>1, <1>3, <1>5
  <2>2. CASE p # k
    <3>1. k - 1 \in 1 .. k - 1 /\ ~(k - 1 < p) /\ k - 1 # 0 /\ k - 1 + 1 = k
      BY <2>2, <1>1, <1>3
    <3>2. r[k - 1] = q[k]
      BY <3>1, <1>5
    <3> QED BY <3>1, <3>2, <2>2, <1>3, <1>6
  <2> QED BY <2>1, <2>2
<1>9. /\ \A x \in Obj : next'[x] = IF x = q[p] THEN Null
                                   ELSE IF x = prev THEN next[q[p]] ELSE next[x]
      /\ next' \in [Obj -> Obj \cup {Null}]
  <2>1. next[q[p]] \in Obj \cup {Null}
    BY <1>1, <1>6
  <2>2. next' = [x \in Obj |-> IF x = q[p] THEN Null
                              ELSE IF x = prev THEN next[q[p]] ELSE next[x]]
    BY <1>3
  <2> HIDE DEF prev
  <2> QED BY <2>1, <2>2, <1>1
<1>10. ASSUME NEW i \in 1 .. k - 1
       PROVE  next'[r[i]] = IF i = k - 1 THEN Null ELSE r[i + 1]
  <2>1. CASE i = p - 1
    <3>1. i \in 1 .. k /\ p # 1 /\ i < p /\ i # p
      BY <2>1, <1>1, <1>3
    <3>2. r[i] = q[i] /\ prev = q[i] /\ q[i] # q[p] /\ q[i] \in Obj
      BY <2>1, <3>1, <1>1, <1>3, <1>5
    <3>3. next'[r[i]] = IF p = k THEN Null ELSE q[p + 1]
      BY <3>2, <1>6, <1>9
    <3>4. p # k => i + 1 \in 1 .. k - 1 /\ r[i + 1] = q[p + 1]
      BY <2>1, <1>1, <1>3, <1>5
    <3> QED BY <3>3, <3>4, <2>1, <1>1, <1>3
  <2>2. CASE i < p - 1
    <3>1. /\ i \in 1 .. k /\ i + 1 \in 1 .. k - 1 /\ i < p /\ i + 1 < p
          /\ i # p /\ i # k /\ i # k - 1 /\ (p # 1 => i # p - 1)
      BY <2>2, <1>1, <1>3
    <3>2. r[i] = q[i] /\ r[i + 1] = q[i + 1] /\ q[i] # q[p] /\ q[i] \in Obj
      BY <3>1, <1>1, <1>3, <1>5
    <3>3. q[i] # prev
      <4>1. p # 1 => p - 1 \in 1 .. k
        BY <1>1, <1>3
      <4> QED BY <3>1, <3>2, <4>1, <1>1
    <3>4. next[q[i]] = q[i + 1]
      BY <3>1 DEF Listed
    <3> HIDE DEF prev
    <3> QED BY <3>1, <3>2, <3>3, <3>4, <1>9
  <2>3. CASE i >= p
    <3>1. i + 1 \in 1 .. k /\ ~(i < p) /\ i + 1 # p /\ (p # 1 => i + 1 # p - 1)
      BY <2>3, <1>1, <1>3
    <3>2. r[i] = q[i + 1] /\ q[i + 1] # q[p] /\ q[i + 1] \in Obj
      BY <3>1, <1>1, <1>3, <1>5
    <3>3. q[i + 1] # prev
      <4>1. p # 1 => p - 1 \in 1 .. k
        BY <1>1, <1>3
      <4> QED BY <3>1, <3>2, <4>1, <1>1
    <3>4. next[q[i + 1]] = IF i + 1 = k THEN Null ELSE q[i + 1 + 1]
      BY <3>1 DEF Listed
    <3>5. next'[r[i]] = IF i + 1 = k THEN Null ELSE q[i + 1 + 1]
      <4> HIDE DEF prev
      <4> QED BY <3>2, <3>3, <3>4, <1>9
    <3>6. i # k - 1 => i + 1 # k /\ r[i + 1] = q[i + 1 + 1]
      <4>1. i # k - 1 => i + 1 \in 1 .. k - 1 /\ ~(i + 1 < p) /\ i + 1 # k
        BY <2>3, <1>1, <1>3
      <4> QED BY <4>1, <1>5
    <3>7. i = k - 1 => i + 1 = k
      BY <1>1
    <3> QED BY <3>5, <3>6, <3>7
  <2> QED BY <2>1, <2>2, <2>3, <1>1, <1>3
<1>11. ASSUME NEW x \in Obj, x \notin Members(k - 1, r) PROVE next'[x] = Null
  <2>1. CASE x = q[p]
    BY <2>1, <1>9
  <2>2. CASE x # q[p]
    <3>1. x \notin Members(k, q)
      BY <2>2, <1>4, <1>11
    <3>2. next[x] = Null
      BY <3>1 DEF Listed
    <3>3. x # prev
      <4>1. p # 1 => p - 1 \in 1 .. k
        BY <1>1, <1>3
      <4> QED BY <3>1, <4>1, DispatchAssumption DEF DispatchAssumption, Members
    <3> HIDE DEF prev
    <3> QED BY <2>2, <3>2, <3>3, <1>9
  <2> QED BY <2>1, <2>2
<1>12. Listed(k - 1, r)'
  <2>1. next' \in [Obj -> Obj \cup {Null}]
    BY <1>9
  <2> HIDE DEF prev, Members
  <2> QED BY <2>1, <1>4, <1>7, <1>8, <1>10, <1>11, NewList
<1> HIDE DEF prev, Before
<1> QED BY <1>3, <1>12 DEF r

-----------------------------------------------------------------------------
(* The dispatch threads use the native queue as its specification says.    *)
(* It is started once, and reset only when it has been started.            *)
Startup ==
  /\ disp = "absent" <=> monitor = "absent"
  /\ shut # "idle" => disp # "absent"
  /\ monitor = "absent" => ~special
  /\ lastId \in 0 .. (IF shut = "idle" THEN MaxStores ELSE MaxStores + 1)

LEMMA StartupInvariant == Spec => []Startup
<1>1. Init => Startup
  BY DispatchAssumption DEF DispatchAssumption, Init, Native!Init, Startup
<1>2. Startup /\ [Next]_vars => Startup'
  <2> SUFFICES ASSUME Startup, [Next]_vars PROVE Startup'
    OBVIOUS
  <2> USE DispatchAssumption DEF DispatchAssumption, Startup, countVars
  <2>1. CASE Start
    BY <2>1 DEF Start, Native!StartEventQueue, shutVars
  <2>2. ASSUME NEW t \in Type, VMStores(t) PROVE Startup'
    BY <2>2 DEF VMStores, Native!StoreMIDPEventInVmThread, Native!UnblockMonitor,
       Native!monitorVars, dispVars, shutVars
  <2>3. ASSUME NEW t \in Type, JavaPosts(t) PROVE Startup'
    BY <2>3 DEF JavaPosts, Post, NotifyAll, nativeVars
  <2>4. ASSUME NEW t \in Type, Remove(t) PROVE Startup'
    BY <2>4 DEF Remove, nativeVars, dispVars, shutVars
  <2>5. CASE MonitorGets
    BY <2>5 DEF MonitorGets, nativeVars, dispVars, shutVars
  <2>6. CASE MonitorWaits
    BY <2>6 DEF MonitorWaits, Native!WaitForNativeEvent, Native!monitorVars, dispVars,
       shutVars
  <2>7. CASE MonitorPosts
    BY <2>7 DEF MonitorPosts, Post, NotifyAll, nativeVars
  <2>8. CASE MonitorDrains
    BY <2>8 DEF MonitorDrains, Native!ReadNativeEvent, Native!monitorVars, Post, NotifyAll
  <2>9. CASE DispatcherStarts \/ DispatcherWaits \/ DispatcherProcesses
    BY <2>9 DEF DispatcherStarts, DispatcherWaits, DispatcherProcesses, nativeVars, shutVars
  <2>10. CASE DispatcherTakes
    BY <2>10 DEF DispatcherTakes, EndDispatch, nativeVars
  <2>11. CASE ShutdownSends
    BY <2>11 DEF ShutdownSends, Native!StoreMIDPEventInVmThread, Native!UnblockMonitor,
       Native!monitorVars, dispVars
  <2>12. CASE ShutdownChecks
    BY <2>12 DEF ShutdownChecks, nativeVars, dispVars
  <2>13. CASE ShutdownResets
    BY <2>13 DEF ShutdownResets, Native!ResetEventQueue, dispVars
  <2>14. CASE UNCHANGED vars
    BY <2>14 DEF vars, nativeVars, dispVars, shutVars
  <2> QED BY <2>1, <2>2, <2>3, <2>4, <2>5, <2>6, <2>7, <2>8, <2>9, <2>10, <2>11, <2>12,
             <2>13, <2>14 DEF Next
<1> QED BY <1>1, <1>2, PTL DEF Spec

(* Every step of the threads is a step of the native queue or none to it.  *)
THEOREM NativeQueueIsUsed == Spec => Native!Spec
<1>1. Init => Native!Init
  BY DEF Init
<1>2. ASSUME Startup, [Next]_vars PROVE [Native!Next]_(Native!queueVars)
  <2> USE DEF Native!Next
  <2>1. ASSUME nativeVars' = nativeVars PROVE UNCHANGED Native!queueVars
    BY <2>1 DEF nativeVars, Native!queueVars, Native!bufferVars, Native!monitorVars
  <2>2. \A e \in EventData :
          Native!StoreMIDPEventInVmThread(e) => [Native!Next]_(Native!queueVars)
    OBVIOUS
  <2>3. lastId \in Nat /\ (lastId < MaxStores \/ shut = "idle" => lastId + 1 \in NativeId)
    BY <1>2, DispatchAssumption DEF DispatchAssumption, Startup, NativeId
  <2>4. CASE Start
    BY <2>4 DEF Start
  <2>5. ASSUME NEW t \in Type, VMStores(t) PROVE [Native!Next]_(Native!queueVars)
    <3>1. [type |-> t, id |-> lastId + 1] \in EventData
      BY <2>3, <2>5 DEF VMStores, EventData
    <3> QED BY <2>2, <2>5, <3>1 DEF VMStores
  <2>6. ASSUME NEW t \in Type, JavaPosts(t) \/ Remove(t) PROVE nativeVars' = nativeVars
    BY <2>6 DEF JavaPosts, Remove
  <2>7. CASE MonitorWaits
    BY <2>7 DEF MonitorWaits
  <2>8. CASE MonitorDrains
    BY <2>8 DEF MonitorDrains
  <2>9. CASE MonitorGets \/ MonitorPosts \/ DispatcherStarts \/ DispatcherWaits
             \/ DispatcherTakes \/ DispatcherProcesses \/ ShutdownChecks
    <3>1. nativeVars' = nativeVars
      BY <2>9 DEF MonitorGets, MonitorPosts, DispatcherStarts, DispatcherWaits,
         DispatcherTakes, DispatcherProcesses, ShutdownChecks
    <3> QED BY <2>1, <3>1
  <2>10. CASE ShutdownSends
    <3>1. [type |-> Shutdown, id |-> lastId + 1] \in EventData
      BY <2>3, <2>10 DEF ShutdownSends, EventData
    <3> QED BY <2>2, <2>10, <3>1 DEF ShutdownSends
  <2>11. CASE ShutdownResets
    BY <1>2, <2>11 DEF ShutdownResets, Startup
  <2>12. CASE UNCHANGED vars
    BY <2>1, <2>12 DEF vars
  <2> QED BY <1>2, <2>1, <2>4, <2>5, <2>6, <2>7, <2>8, <2>9, <2>10, <2>11, <2>12 DEF Next
<1> QED BY <1>1, <1>2, StartupInvariant, PTL DEF Spec, Native!Spec

(* What NativeEventQueueProofs proves holds of the native queue here, too. *)
LEMMA NativeQueueIsTyped ==
  Spec => [](NP!TypeOK /\ NP!BufferTypeOK /\ NP!WindowConsistent)
<1>1. NP!QueueAssumption
  BY DispatchAssumption, NoEventAssumption
     DEF DispatchAssumption, NoEventAssumption, NP!QueueAssumption
<1>2. Native!Spec => NP!Spec
  <2>1. Native!Init => NP!Init
    BY DEF Native!Init, NP!Init, Native!Slot, NP!Slot
  <2>2. [Native!Next]_(Native!queueVars) => [NP!Next]_(NP!queueVars)
    BY DEF
      Native!StoreMIDPEventInVmThread, NP!StoreMIDPEventInVmThread,
      Native!UnblockMonitor, NP!UnblockMonitor, Native!WaitForNativeEvent,
      NP!WaitForNativeEvent, Native!ReadNativeEvent, NP!ReadNativeEvent,
      Native!GetPendingMIDPEvent, NP!GetPendingMIDPEvent, Native!ResetEventQueue,
      NP!ResetEventQueue, Native!StartEventQueue, NP!StartEventQueue,
      Native!FinalizeEvents, NP!FinalizeEvents, Native!AbandonVM, NP!AbandonVM,
      Native!DrainBuffer, NP!DrainBuffer, Native!NextSlot, NP!NextSlot,
      Native!Slot, NP!Slot, Native!bufferVars, NP!bufferVars, Native!monitorVars,
      NP!monitorVars, Native!queueVars, NP!queueVars, Native!Next, NP!Next
  <2> QED BY <2>1, <2>2, PTL DEF Native!Spec, NP!Spec
<1> QED BY <1>1, <1>2, NativeQueueIsUsed, NP!TypeCorrect, NP!BufferTypeInvariant,
           NP!WindowInvariant, PTL

-----------------------------------------------------------------------------
(* The inductive invariant.  Basics: the program counters say whether a    *)
(* thread has an object in its hands.  For some list, the one that         *)
(* nextEvent begins, Marks: waitingEvent marks objects in it.  Apart: the  *)
(* pool, the list and the hands of both threads have no object in common.  *)
(* Counts: events take objects, and there are only so many events.         *)
Basics ==
  /\ mon \in {"get", "wait", "post", "drain"}
  /\ disp \in {"absent", "new", "take", "waiting", "process", "ended"}
  /\ hand \in Obj \cup {Null} /\ (hand = Null <=> mon \in {"get", "drain"})
  /\ current \in Obj \cup {Null} /\ (current = Null <=> disp # "process")
  /\ mon = "post" => content[hand] \in EventData

Marks(k, q) ==
  /\ content \in [Obj -> EventData \cup {Blank}]
  /\ waiting \in [Type -> Obj \cup {Null}]
  /\ \A i \in 1 .. k : content[q[i]] \in EventData
  /\ \A t \in Type : waiting[t] # Null =>
       \E i \in 1 .. k : q[i] = waiting[t] /\ content[q[i]].type = t
  /\ \A t \in OnlyOne : \A i \in 1 .. k : content[q[i]].type = t => q[i] = waiting[t]

Apart(M) ==
  /\ pool \in Seq(Obj) /\ Len(pool) <= PoolSize
  /\ \A i, j \in 1 .. Len(pool) : pool[i] = pool[j] => i = j
  /\ Ids(pool) \cap (M \cup {hand, current}) = {}
  /\ M \cap {hand, current} = {}
  /\ hand = current => hand = Null

Counts(k) ==
  /\ {numEvents, lastId, posts} \subseteq Nat
  /\ k + (IF disp = "process" THEN 1 ELSE 0) + (IF mon = "post" THEN 1 ELSE 0)
       + numEvents <= lastId + posts
  /\ lastId <= MaxStores + (IF shut = "idle" THEN 0 ELSE 1)
  /\ posts <= MaxPosts

State(k, q) == Listed(k, q) /\ Marks(k, q) /\ Apart(Members(k, q)) /\ Counts(k)

IInv == Basics /\ \E k \in Nat : \E q \in [1 .. k -> Obj] : State(k, q)

(* An object that nothing refers to can always be found. *)
LEMMA ObjectsSuffice ==
  ASSUME Basics, NEW k, NEW q, State(k, q),
         (pool = <<>> /\ hand = Null) \/ posts < MaxPosts
  PROVE  NewObj \in Obj \ (Members(k, q) \cup {hand, current} \cup Ids(pool))
<1> DEFINE M == Members(k, q)
           P == Ids(pool)
           H == {hand} \ {Null}
           C == {current} \ {Null}
<1>1. /\ k \in Nat /\ PoolSize \in Nat /\ MaxStores \in Nat /\ MaxPosts \in Nat
      /\ IsFiniteSet(Obj) /\ Null \notin Obj /\ Cardinality(Obj) \in Nat
      /\ Cardinality(Obj) >= MaxStores + MaxPosts + PoolSize + 2
  BY DispatchAssumption, FS_CardinalityType DEF DispatchAssumption, State, Listed
<1>2. Fresh = Obj \ (M \cup {hand, current} \cup P)
  BY QueueIsList DEF Fresh, State, Ids
<1>3. IsFiniteSet(M) /\ Cardinality(M) = k
  BY MembersCounted DEF State, Listed
<1>4. IsFiniteSet(P) /\ Cardinality(P) = Len(pool) /\ Len(pool) \in Nat
  <2>1. /\ Len(pool) \in Nat /\ pool \in [1 .. Len(pool) -> Obj]
        /\ \A i, j \in 1 .. Len(pool) : pool[i] = pool[j] => i = j
    BY DEF State, Apart
  <2>2. P = Members(Len(pool), pool)
    BY <2>1 DEF Ids, Members
  <2>3. /\ IsFiniteSet(Members(Len(pool), pool))
        /\ Cardinality(Members(Len(pool), pool)) = Len(pool)
    BY <2>1, MembersCounted
  <2> QED BY <2>1, <2>2, <2>3
<1>5. /\ IsFiniteSet(H) /\ Cardinality(H) = IF hand = Null THEN 0 ELSE 1
      /\ IsFiniteSet(C) /\ Cardinality(C) = IF current = Null THEN 0 ELSE 1
  <2>1. \A x : IsFiniteSet({x} \ {Null})
               /\ Cardinality({x} \ {Null}) = IF x = Null THEN 0 ELSE 1
    <3> TAKE x
    <3>1. CASE x = Null
      <4>1. {x} \ {Null} = {}
        BY <3>1
      <4> QED BY <4>1, <3>1, FS_EmptySet
    <3>2. CASE x # Null
      <4>1. {x} \ {Null} = {x}
        BY <3>2
      <4> QED BY <4>1, <3>2, FS_Singleton
    <3> QED BY <3>1, <3>2
  <2> QED BY <2>1
<1> DEFINE U == ((M \cup P) \cup H) \cup C
<1>6. IsFiniteSet(U) /\ Cardinality(U) \in Nat
      /\ Cardinality(U) <= k + Len(pool) + Cardinality(H) + Cardinality(C)
  <2> HIDE DEF M, P, H, C
  <2>1. IsFiniteSet(M \cup P) /\ Cardinality(M \cup P) \in Nat
        /\ Cardinality(M \cup P) <= k + Len(pool)
    BY <1>3, <1>4, UnionBound
  <2>2. IsFiniteSet((M \cup P) \cup H) /\ Cardinality((M \cup P) \cup H) \in Nat
        /\ Cardinality((M \cup P) \cup H) <= Cardinality(M \cup P) + Cardinality(H)
    BY <1>5, <2>1, UnionBound
  <2>3. IsFiniteSet(U) /\ Cardinality(U) \in Nat
        /\ Cardinality(U) <= Cardinality((M \cup P) \cup H) + Cardinality(C)
    BY <1>5, <2>2, UnionBound
  <2>4. Cardinality(H) \in Nat /\ Cardinality(C) \in Nat
    BY <1>5
  <2> QED BY <1>1, <1>4, <2>1, <2>2, <2>3, <2>4
<1>7. Cardinality(U) < Cardinality(Obj)
  <2> HIDE DEF U, H, C
  <2>1. /\ {numEvents, lastId, posts} \subseteq Nat
        /\ k + (IF disp = "process" THEN 1 ELSE 0) + (IF mon = "post" THEN 1 ELSE 0)
             + numEvents <= lastId + posts
        /\ lastId <= MaxStores + 1 /\ posts <= MaxPosts /\ Len(pool) <= PoolSize
    BY <1>1 DEF State, Counts, Apart
  <2>2. Cardinality(C) = IF disp = "process" THEN 1 ELSE 0
    BY <1>5 DEF Basics
  <2>3. k + Cardinality(C) <= lastId + posts
    BY <1>1, <2>1, <2>2
  <2>4. CASE pool = <<>> /\ hand = Null
    <3>1. Cardinality(H) = 0 /\ Len(pool) = 0
      BY <1>5, <2>4
    <3> QED BY <1>1, <1>6, <2>1, <2>2, <2>3, <3>1
  <2>5. CASE posts < MaxPosts
    <3>1. Cardinality(H) \in {0, 1}
      BY <1>5
    <3>2. k \in Nat /\ Cardinality(C) \in Nat /\ Len(pool) \in Nat /\ lastId + posts \in Nat
      BY <1>1, <1>4, <2>1, <2>2
    <3>3. Cardinality(U) <= lastId + posts + Len(pool) + 1
      BY <1>6, <2>3, <3>1, <3>2
    <3>4. lastId + posts + 1 <= MaxStores + 1 + MaxPosts
      BY <1>1, <2>1, <2>5
    <3>5. lastId \in Nat /\ posts \in Nat /\ Len(pool) <= PoolSize
      BY <2>1
    <3>6. Cardinality(U) <= MaxStores + 1 + MaxPosts + PoolSize
      BY <1>1, <1>6, <3>2, <3>3, <3>4, <3>5
    <3> QED BY <1>1, <1>6, <3>6
  <2> QED BY <2>4, <2>5
<1>8. Fresh # {}
  <2> SUFFICES ASSUME Fresh = {} PROVE FALSE
    OBVIOUS
  <2>1. Obj \subseteq U
    BY <1>1, <1>2
  <2> HIDE DEF U
  <2>2. Cardinality(Obj) <= Cardinality(U)
    BY <1>6, <2>1, FS_Subset
  <2> QED BY <1>1, <1>6, <1>7, <2>2
<1>9. NewObj \in Fresh
  BY <1>8 DEF NewObj
<1> QED BY <1>2, <1>9

(* What the pool hands out is in no other place. *)
LEMMA PoolHandsOut ==
  ASSUME Basics, NEW k, NEW q, State(k, q), hand = Null
  PROVE  /\ PoolTop \in Obj \ (Members(k, q) \cup {hand, current} \cup Ids(Popped))
         /\ Popped \in Seq(Obj) /\ Len(Popped) <= PoolSize
         /\ \A i, j \in 1 .. Len(Popped) : Popped[i] = Popped[j] => i = j
         /\ Ids(Popped) \subseteq Ids(pool)
<1>1. /\ pool \in Seq(Obj) /\ Len(pool) <= PoolSize /\ Len(pool) \in Nat
      /\ \A i, j \in 1 .. Len(pool) : pool[i] = pool[j] => i = j
      /\ Ids(pool) \cap (Members(k, q) \cup {hand, current}) = {}
  BY DEF State, Apart
<1>2. PoolSize \in Nat
  BY DispatchAssumption DEF DispatchAssumption
<1>3. CASE pool = <<>>
  <2>1. PoolTop = NewObj /\ Popped = pool
    BY <1>3 DEF PoolTop, Popped
  <2> QED BY <1>1, <1>3, <2>1, ObjectsSuffice
<1>4. CASE pool # <<>>
  <2> DEFINE n == Len(pool)
             r == SubSeq(pool, 1, n - 1)
  <2>1. n \in Nat \ {0}
    BY <1>1, <1>4, EmptySeq
  <2>2. PoolTop = pool[n] /\ Popped = r
    BY <1>4 DEF PoolTop, Popped
  <2>3. r \in Seq(Obj) /\ Len(r) = n - 1 /\ \A i \in 1 .. n - 1 : r[i] = pool[i]
    <3>1. \A i \in 1 .. n - 1 : pool[i] \in Obj
      BY <1>1
    <3>2. /\ r \in Seq(Obj)
          /\ Len(r) = IF 1 <= n - 1 THEN n - 1 - 1 + 1 ELSE 0
          /\ \A i \in 1 .. n - 1 - 1 + 1 : r[i] = pool[1 + i - 1]
      BY <2>1, <3>1, SubSeqProperties
    <3> HIDE DEF n, r
    <3> QED BY <2>1, <3>2
  <2> HIDE DEF r
  <2>4. DOMAIN r = 1 .. n - 1 /\ DOMAIN pool = 1 .. n /\ n \in 1 .. n /\ pool[n] \in Obj
    BY <1>1, <2>1, <2>3
  <2>5. pool[n] \in Ids(pool) /\ pool[n] \notin Ids(r) /\ Ids(r) \subseteq Ids(pool)
    BY <1>1, <2>1, <2>3, <2>4 DEF Ids
  <2>6. \A i, j \in 1 .. Len(r) : r[i] = r[j] => i = j
    BY <1>1, <2>1, <2>3
  <2>7. Len(r) <= PoolSize
    BY <1>1, <1>2, <2>1, <2>3
  <2> HIDE DEF n
  <2> QED BY <1>1, <2>2, <2>3, <2>4, <2>5, <2>6, <2>7
<1> QED BY <1>3, <1>4

-----------------------------------------------------------------------------
(* The list, its marks and its separateness when a step leaves them alone. *)
LEMMA ListStays ==
  ASSUME NEW k, NEW q, Listed(k, q), UNCHANGED <<next, nextEvent, lastEvent>>
  PROVE  Listed(k, q)'
BY DEF Listed

LEMMA MarksStay ==
  ASSUME NEW k, NEW q, Listed(k, q), Marks(k, q), waiting' = waiting,
         content' \in [Obj -> EventData \cup {Blank}],
         \A x \in Members(k, q) : content'[x] = content[x]
  PROVE  Marks(k, q)'
<1>1. \A i \in 1 .. k : content'[q[i]] = content[q[i]]
  BY DEF Members
<1> QED BY <1>1 DEF Marks

LEMMA ApartStays ==
  ASSUME NEW M, NEW N, Apart(M), N \subseteq M, pool' = pool, hand' = hand,
         current' = current
  PROVE  Apart(N)'
BY DEF Apart

(* One object, not in the list, gets other fields. *)
LEMMA OneIsWritten ==
  ASSUME NEW k, NEW q, Listed(k, q), Marks(k, q), NEW o \in Obj, o \notin Members(k, q),
         NEW e \in EventData \cup {Blank}, content' = [content EXCEPT ![o] = e],
         waiting' = waiting
  PROVE  Marks(k, q)'
<1>1. content' \in [Obj -> EventData \cup {Blank}]
  BY DEF Marks
<1>2. \A x \in Obj : x # o => content'[x] = content[x]
  BY DEF Marks
<1>3. Members(k, q) \subseteq Obj
  BY DEF Members, Listed
<1> QED BY <1>1, <1>2, <1>3, MarksStay

(* post either drops the event or adds its object to the list. *)
LEMMA PostAdds ==
  ASSUME NEW k, NEW q, Listed(k, q), Marks(k, q), NEW o \in Obj, o \notin Members(k, q),
         NEW e \in EventData, Post(o, e)
  PROVE  \E n \in {k, k + 1} : \E r \in [1 .. n -> Obj] :
           /\ Listed(n, r)' /\ Marks(n, r)'
           /\ Members(n, r) \subseteq Members(k, q) \cup {o}
<1>1. k \in Nat /\ q \in [1 .. k -> Obj] /\ \A i, j \in 1 .. k : q[i] = q[j] => i = j
  BY DEF Listed
<1>2. CASE Vetoed(e)
  <2>1. /\ content' = [content EXCEPT ![o] = Blank]
        /\ UNCHANGED <<next, nextEvent, lastEvent>> /\ waiting' = waiting
    BY <1>2 DEF Post, listVars
  <2>2. Listed(k, q)' /\ Marks(k, q)'
    BY <2>1, ListStays, OneIsWritten
  <2> QED BY <1>1, <2>2
<1>3. CASE ~Vetoed(e)
  <2> DEFINE n == k + 1
             r == Added(k, q, o)
  <2>1. /\ Link(o, e) /\ content' = [content EXCEPT ![o] = e]
        /\ waiting' = IF e.type = Shutdown THEN waiting ELSE [waiting EXCEPT ![e.type] = o]
    BY <1>3 DEF Post, Link
  <2>2. Listed(n, r)'
    BY <2>1, LinkAdds
  <2>3. /\ r \in [1 .. n -> Obj] /\ r[n] = o /\ \A i \in 1 .. k : r[i] = q[i]
        /\ Members(n, r) = Members(k, q) \cup {o}
    BY <1>1, AddedMembers
  <2>4. /\ n \in 1 .. n /\ \A i \in 1 .. n : i \in 1 .. k \/ i = n
        /\ \A i \in 1 .. k : i \in 1 .. n
    BY <1>1
  <2> HIDE DEF n, r
  <2>5. /\ content' \in [Obj -> EventData \cup {Blank}]
        /\ \A x \in Obj : content'[x] = IF x = o THEN e ELSE content[x]
    BY <2>1 DEF Marks
  <2>6. \A i \in 1 .. k : q[i] \in Obj /\ q[i] # o
    BY <1>1 DEF Members
  <2>7. content'[r[n]] = e /\ \A i \in 1 .. k : content'[r[i]] = content[q[i]]
    BY <2>3, <2>5, <2>6
  <2>8. e.type \in Type \cup {Shutdown} /\ Shutdown \notin Type /\ OnlyOne \subseteq Type
    BY DispatchAssumption DEF DispatchAssumption, EventData, Shutdown
  <2>9. /\ waiting' \in [Type -> Obj \cup {Null}]
        /\ \A t \in Type : waiting'[t] = IF t = e.type THEN o ELSE waiting[t]
    BY <2>1, <2>8 DEF Marks
  <2>10. \A i \in 1 .. n : content'[r[i]] \in EventData
    BY <2>4, <2>7 DEF Marks
  <2>11. ASSUME NEW t \in Type, waiting'[t] # Null
         PROVE  \E i \in 1 .. n : r[i] = waiting'[t] /\ content'[r[i]].type = t
    <3>1. CASE t = e.type
      BY <3>1, <2>3, <2>4, <2>7, <2>9
    <3>2. CASE t # e.type
      <4>1. PICK i \in 1 .. k : q[i] = waiting[t] /\ content[q[i]].type = t
        BY <3>2, <2>9, <2>11 DEF Marks
      <4> QED BY <3>2, <4>1, <2>3, <2>4, <2>7, <2>9
    <3> QED BY <3>1, <3>2
  <2>12. ASSUME NEW t \in OnlyOne, NEW i \in 1 .. n, content'[r[i]].type = t
         PROVE  r[i] = waiting'[t]
    <3>1. t \in Type
      BY <2>8
    <3>2. CASE i = n
      BY <3>1, <3>2, <2>3, <2>7, <2>9, <2>12
    <3>3. CASE i \in 1 .. k
      <4>1. q[i] = waiting[t] /\ r[i] = q[i]
        BY <3>3, <2>3, <2>7, <2>12 DEF Marks
      <4>2. t # e.type
        <5>1. waiting[t] # Null
          BY <4>1, <2>6, <3>3, DispatchAssumption DEF DispatchAssumption
        <5> QED BY <5>1, <1>3 DEF Vetoed
      <4> QED BY <3>1, <4>1, <4>2, <2>9
    <3> QED BY <3>2, <3>3, <2>4
  <2>13. Marks(n, r)'
    BY <2>5, <2>9, <2>10, <2>11, <2>12 DEF Marks
  <2> QED BY <2>2, <2>3, <2>13 DEF n
<1> QED BY <1>2, <1>3

-----------------------------------------------------------------------------
(* Every step keeps the invariant: those that only store or reset, those   *)
(* of the monitor thread, of the Java threads and of the dispatcher.       *)
LEMMA StateAfter ==
  ASSUME Basics', NEW k, NEW q, State(k, q)'
  PROVE  IInv'
<1>1. k \in Nat /\ q \in [1 .. k -> Obj]
  BY DEF State, Listed
<1> QED BY <1>1 DEF IInv

(* Nothing but the native queue and the counters changes. *)
LEMMA OnlyCounted ==
  ASSUME IInv, UNCHANGED <<listVars, content, pool, monVars, dispVars>>,
         \A k \in Nat : Counts(k) => Counts(k)'
  PROVE  IInv'
<1> USE DEF listVars, monVars, dispVars
<1>1. PICK k \in Nat : \E q \in [1 .. k -> Obj] : State(k, q)
  BY DEF IInv
<1>2. PICK q \in [1 .. k -> Obj] : State(k, q)
  BY <1>1
<1>3. Listed(k, q)' /\ Marks(k, q)' /\ Apart(Members(k, q))'
  BY <1>2, ListStays, MarksStay, ApartStays DEF State, Marks
<1>4. Counts(k)'
  BY <1>2 DEF State
<1>5. Basics'
  BY DEF IInv, Basics
<1> QED BY <1>3, <1>4, <1>5, StateAfter DEF State

LEMMA StartKeeps == IInv /\ Start => IInv'
<1> SUFFICES ASSUME IInv, Start PROVE IInv'
  OBVIOUS
<1> USE DEF listVars, monVars, shutVars, countVars
<1>1. /\ numEvents' = 0 /\ disp = "absent" /\ disp' = "new" /\ current' = current
      /\ UNCHANGED <<listVars, content, pool, monVars, shut, lastId, posts>>
  BY DEF Start, Native!StartEventQueue, Native!DrainBuffer
<1>2. PICK k \in Nat : \E q \in [1 .. k -> Obj] : State(k, q)
  BY DEF IInv
<1>3. PICK q \in [1 .. k -> Obj] : State(k, q)
  BY <1>2
<1>4. Listed(k, q)' /\ Marks(k, q)' /\ Apart(Members(k, q))'
  BY <1>1, <1>3, ListStays, MarksStay, ApartStays DEF State, Marks
<1>5. Counts(k)'
  BY <1>1, <1>3 DEF State, Counts
<1>6. Basics'
  BY <1>1 DEF IInv, Basics
<1> QED BY <1>4, <1>5, <1>6, StateAfter DEF State

LEMMA StoreKeeps ==
  ASSUME IInv, NEW t \in Type, VMStores(t)
  PROVE  IInv'
<1> USE DEF listVars, monVars, dispVars, shutVars
<1>1. /\ lastId < MaxStores /\ lastId' = lastId + 1
      /\ numEvents' = numEvents + 1 \/ numEvents' = numEvents
      /\ UNCHANGED <<listVars, content, pool, monVars, dispVars, shut, posts>>
  BY DEF VMStores, Native!StoreMIDPEventInVmThread, Native!bufferVars
<1>2. MaxStores \in Nat
  BY DispatchAssumption DEF DispatchAssumption
<1>3. \A k \in Nat : Counts(k) => Counts(k)'
  BY <1>1, <1>2 DEF Counts
<1> QED BY <1>1, <1>3, OnlyCounted

LEMMA ShutdownKeeps == IInv /\ (ShutdownSends \/ ShutdownChecks \/ ShutdownResets) => IInv'
<1> SUFFICES ASSUME IInv, ShutdownSends \/ ShutdownChecks \/ ShutdownResets PROVE IInv'
  OBVIOUS
<1> USE DEF listVars, monVars, dispVars, nativeVars, countVars
<1>1. MaxStores \in Nat
  BY DispatchAssumption DEF DispatchAssumption
<1>2. CASE ShutdownSends
  <2>1. /\ lastId' = lastId + 1 /\ shut = "idle" /\ shut' = "check"
        /\ numEvents' = numEvents + 1 \/ numEvents' = numEvents
        /\ UNCHANGED <<listVars, content, pool, monVars, dispVars, posts>>
    BY <1>2 DEF ShutdownSends, Native!StoreMIDPEventInVmThread, Native!bufferVars
  <2>2. \A k \in Nat : Counts(k) => Counts(k)'
    BY <1>1, <2>1 DEF Counts
  <2> QED BY <2>1, <2>2, OnlyCounted
<1>3. CASE ShutdownChecks
  <2>1. /\ shut = "check" /\ shut' # "idle"
        /\ UNCHANGED <<listVars, content, pool, monVars, dispVars, numEvents, lastId, posts>>
    BY <1>3 DEF ShutdownChecks
  <2>2. \A k \in Nat : Counts(k) => Counts(k)'
    BY <2>1 DEF Counts
  <2> QED BY <2>1, <2>2, OnlyCounted
<1>4. CASE ShutdownResets
  <2>1. /\ shut = "reset" /\ shut' = "done" /\ numEvents' = 0
        /\ UNCHANGED <<listVars, content, pool, monVars, dispVars, lastId, posts>>
    BY <1>4 DEF ShutdownResets, Native!ResetEventQueue, Native!DrainBuffer
  <2>2. \A k \in Nat : Counts(k) => Counts(k)'
    BY <2>1 DEF Counts
  <2> QED BY <2>1, <2>2, OnlyCounted
<1> QED BY <1>2, <1>3, <1>4

LEMMA GetKeeps == IInv /\ MonitorGets => IInv'
<1> SUFFICES ASSUME IInv, MonitorGets PROVE IInv'
  OBVIOUS
<1> USE DEF listVars, dispVars, shutVars, nativeVars, countVars
<1>1. /\ mon = "get" /\ mon' = "wait" /\ hand' = PoolTop /\ pool' = Popped
      /\ UNCHANGED <<listVars, content, dispVars, shut, numEvents, lastId, posts>>
  BY DEF MonitorGets
<1>2. PICK k \in Nat : \E q \in [1 .. k -> Obj] : State(k, q)
  BY DEF IInv
<1>3. PICK q \in [1 .. k -> Obj] : State(k, q)
  BY <1>2
<1>4. Listed(k, q)' /\ Marks(k, q)'
  BY <1>1, <1>3, ListStays, MarksStay DEF State, Marks
<1>5. Counts(k)'
  BY <1>1, <1>3 DEF State, Counts
<1>6. hand = Null /\ Null \notin Obj
  BY <1>1, DispatchAssumption DEF DispatchAssumption, IInv, Basics
<1>7. /\ PoolTop \in Obj \ (Members(k, q) \cup {hand, current} \cup Ids(Popped))
      /\ Popped \in Seq(Obj) /\ Len(Popped) <= PoolSize
      /\ \A i, j \in 1 .. Len(Popped) : Popped[i] = Popped[j] => i = j
      /\ Ids(Popped) \subseteq Ids(pool)
  BY <1>3, <1>6, PoolHandsOut DEF IInv
<1>8. Ids(pool') \subseteq Ids(pool) /\ hand' \notin Ids(pool')
  BY <1>1, <1>7
<1>9. Apart(Members(k, q))'
  BY <1>1, <1>3, <1>7, <1>8 DEF State, Apart
<1>10. Basics'
  BY <1>1, <1>6, <1>7 DEF IInv, Basics
<1> QED BY <1>4, <1>5, <1>9, <1>10, StateAfter DEF State

LEMMA GetStateOut ==
  ASSUME IInv
  PROVE  \E k \in Nat : \E q \in [1 .. k -> Obj] :
           /\ State(k, q) /\ Members(k, q) \subseteq Obj
           /\ Null \notin Obj /\ Null \notin Members(k, q)
<1>1. PICK k \in Nat : \E q \in [1 .. k -> Obj] : State(k, q)
  BY DEF IInv
<1>2. PICK q \in [1 .. k -> Obj] : State(k, q)
  BY <1>1
<1>3. Members(k, q) \subseteq Obj
  BY DEF Members
<1> QED BY <1>2, <1>3, DispatchAssumption DEF DispatchAssumption

(* What leaves the native queue is an event: the slot at eventOut is full. *)
LEMMA TakenIsEvent ==
  ASSUME NP!BufferTypeOK, NP!WindowConsistent, Native!GetPendingMIDPEvent
  PROVE  result' \in EventData /\ numEvents \in Nat /\ numEvents' = numEvents - 1
         /\ numEvents' \in Nat
<1>1. MaxEvents \in Nat \ {0}
  BY DispatchAssumption DEF DispatchAssumption
<1>2. /\ numEvents \in 0 .. MaxEvents /\ numEvents # 0 /\ numEvents' = numEvents - 1
      /\ result' = events[eventOut] /\ eventOut \in 0 .. MaxEvents - 1
      /\ events \in [0 .. MaxEvents - 1 -> EventData \cup {NoEvent}]
  BY DEF Native!GetPendingMIDPEvent, NP!BufferTypeOK, NP!Slot
<1>3. 0 \in NP!Slot /\ NP!SlotAt(0) = eventOut /\ 0 < numEvents
  BY <1>1, <1>2 DEF NP!Slot, NP!SlotAt, NP!SlotAfter
<1>4. events[eventOut] # NoEvent
  BY <1>3 DEF NP!WindowConsistent
<1> QED BY <1>1, <1>2, <1>4

LEMMA WaitKeeps == IInv /\ NP!BufferTypeOK /\ NP!WindowConsistent /\ MonitorWaits => IInv'
<1> SUFFICES ASSUME IInv, NP!BufferTypeOK, NP!WindowConsistent, MonitorWaits PROVE IInv'
  OBVIOUS
<1> USE DEF listVars, dispVars, shutVars, countVars
<1>1. /\ mon = "wait" /\ Native!WaitForNativeEvent
      /\ UNCHANGED <<listVars, pool, hand, dispVars, shut, lastId, posts>>
  BY DEF MonitorWaits
<1>2. CASE Native!GetPendingMIDPEvent
  <2>1. content' = [content EXCEPT ![hand] = result'] /\ mon' = "post"
    BY <1>2 DEF MonitorWaits, Native!GetPendingMIDPEvent
  <2>2. result' \in EventData /\ numEvents \in Nat /\ numEvents' = numEvents - 1
        /\ numEvents' \in Nat
    BY <1>2, TakenIsEvent
  <2>3. PICK k \in Nat : \E q \in [1 .. k -> Obj] :
           /\ State(k, q) /\ Members(k, q) \subseteq Obj
           /\ Null \notin Obj /\ Null \notin Members(k, q)
    BY GetStateOut
  <2>4. PICK q \in [1 .. k -> Obj] :
           /\ State(k, q) /\ Members(k, q) \subseteq Obj
           /\ Null \notin Obj /\ Null \notin Members(k, q)
    BY <2>3
  <2>5. hand \in Obj /\ hand \notin Members(k, q)
    BY <1>1, <2>4 DEF IInv, Basics, State, Apart
  <2>6. Listed(k, q)' /\ Apart(Members(k, q))'
    BY <1>1, <2>4, ListStays, ApartStays DEF State
  <2>7. PICK e \in EventData : e = result'
    BY <2>2
  <2>8. Marks(k, q)'
    BY <1>1, <2>1, <2>4, <2>5, <2>7, OneIsWritten DEF State
  <2>9. Counts(k)'
    BY <1>1, <2>1, <2>2, <2>4 DEF State, Counts
  <2>10. content'[hand] \in EventData
    BY <2>1, <2>2, <2>4, <2>5 DEF State, Marks
  <2>11. Basics'
    BY <1>1, <2>1, <2>10 DEF IInv, Basics
  <2> QED BY <2>6, <2>8, <2>9, <2>11, StateAfter DEF State
<1>3. CASE ~Native!GetPendingMIDPEvent
  <2>1. outcome' = "empty" /\ numEvents' = numEvents
    BY <1>1, <1>3 DEF Native!WaitForNativeEvent, Native!bufferVars
  <2>2. UNCHANGED <<listVars, content, pool, monVars, dispVars>>
    BY <1>1, <2>1 DEF MonitorWaits, monVars
  <2>3. \A k \in Nat : Counts(k) => Counts(k)'
    BY <1>1, <2>1, <2>2 DEF Counts, monVars
  <2> QED BY <2>2, <2>3, OnlyCounted
<1> QED BY <1>2, <1>3

(* What post leaves alone: other objects, and the threads it does not wake. *)
LEMMA PostTouches ==
  ASSUME NEW o \in Obj, NEW e, Post(o, e), content \in [Obj -> EventData \cup {Blank}]
  PROVE  /\ disp' = disp \/ (disp = "waiting" /\ disp' = "take")
         /\ shut' = shut \/ (shut = "waiting" /\ shut' = "check")
         /\ \A x \in Obj : x # o => content'[x] = content[x]
BY DEF Post, NotifyAll

(* The separateness after an object o has gone into the list. *)
LEMMA ApartAfterPost ==
  ASSUME NEW M, NEW N, Apart(M), M \subseteq Obj, NEW o \in Obj, N \subseteq M \cup {o},
         pool' \in Seq(Obj), Len(pool') <= PoolSize,
         \A i, j \in 1 .. Len(pool') : pool'[i] = pool'[j] => i = j,
         Ids(pool') \subseteq Ids(pool), o \notin Ids(pool'), o # current,
         current' = current, hand' = Null \/ (hand' = hand /\ o # hand)
  PROVE  Apart(N)'
<1>1. Null \notin Obj
  BY DispatchAssumption DEF DispatchAssumption
<1>2. Ids(pool) \subseteq Obj
  BY DEF Apart, Ids
<1> HIDE DEF Ids
<1> QED BY <1>1, <1>2 DEF Apart

LEMMA PostsKeeps == IInv /\ MonitorPosts => IInv'
<1> SUFFICES ASSUME IInv, MonitorPosts PROVE IInv'
  OBVIOUS
<1> USE DEF nativeVars, countVars
<1>1. /\ mon = "post" /\ Post(hand, content[hand]) /\ mon' \in {"drain", "get"}
      /\ hand' = Null
      /\ UNCHANGED <<pool, current, numEvents, lastId, posts>>
  BY DEF MonitorPosts
<1>2. PICK k \in Nat : \E q \in [1 .. k -> Obj] :
         /\ State(k, q) /\ Members(k, q) \subseteq Obj
         /\ Null \notin Obj /\ Null \notin Members(k, q)
  BY GetStateOut
<1>3. PICK q \in [1 .. k -> Obj] :
         /\ State(k, q) /\ Members(k, q) \subseteq Obj
         /\ Null \notin Obj /\ Null \notin Members(k, q)
  BY <1>2
<1>4. /\ hand \in Obj /\ hand \notin Members(k, q) /\ hand # current
      /\ hand \notin Ids(pool) /\ content[hand] \in EventData
  BY <1>1, <1>3 DEF IInv, Basics, State, Apart
<1>5. PICK n \in {k, k + 1} : \E r \in [1 .. n -> Obj] :
         Listed(n, r)' /\ Marks(n, r)' /\ Members(n, r) \subseteq Members(k, q) \cup {hand}
  BY <1>1, <1>3, <1>4, PostAdds DEF State
<1>6. PICK r \in [1 .. n -> Obj] :
         Listed(n, r)' /\ Marks(n, r)' /\ Members(n, r) \subseteq Members(k, q) \cup {hand}
  BY <1>5
<1>7. /\ disp' = disp \/ (disp = "waiting" /\ disp' = "take")
      /\ shut' = shut \/ (shut = "waiting" /\ shut' = "check")
  BY <1>1, <1>3, <1>4, PostTouches DEF State, Marks
<1>8. Apart(Members(n, r))'
  <2>1. /\ pool' \in Seq(Obj) /\ Len(pool') <= PoolSize
        /\ \A i, j \in 1 .. Len(pool') : pool'[i] = pool'[j] => i = j
    BY <1>1, <1>3 DEF State, Apart
  <2>2. Ids(pool') = Ids(pool)
    BY <1>1
  <2> QED BY <1>1, <1>3, <1>4, <1>6, <2>1, <2>2, ApartAfterPost DEF State
<1>9. Counts(n)'
  BY <1>1, <1>3, <1>5, <1>7 DEF State, Counts
<1>10. Basics'
  BY <1>1, <1>7 DEF IInv, Basics
<1> QED BY <1>6, <1>8, <1>9, <1>10, StateAfter DEF State

LEMMA DrainKeeps == IInv /\ NP!BufferTypeOK /\ NP!WindowConsistent /\ MonitorDrains => IInv'
<1> SUFFICES ASSUME IInv, NP!BufferTypeOK, NP!WindowConsistent, MonitorDrains PROVE IInv'
  OBVIOUS
<1> USE DEF countVars
<1>1. /\ mon = "drain" /\ pool' = Popped /\ Native!ReadNativeEvent
      /\ UNCHANGED <<hand, current, lastId, posts>>
  BY DEF MonitorDrains
<1>2. PICK k \in Nat : \E q \in [1 .. k -> Obj] :
         /\ State(k, q) /\ Members(k, q) \subseteq Obj
         /\ Null \notin Obj /\ Null \notin Members(k, q)
  BY GetStateOut
<1>3. PICK q \in [1 .. k -> Obj] :
         /\ State(k, q) /\ Members(k, q) \subseteq Obj
         /\ Null \notin Obj /\ Null \notin Members(k, q)
  BY <1>2
<1>4. hand = Null
  BY <1>1 DEF IInv, Basics
<1>5. /\ PoolTop \in Obj \ (Members(k, q) \cup {hand, current} \cup Ids(Popped))
      /\ Popped \in Seq(Obj) /\ Len(Popped) <= PoolSize
      /\ \A i, j \in 1 .. Len(Popped) : Popped[i] = Popped[j] => i = j
      /\ Ids(Popped) \subseteq Ids(pool)
  BY <1>3, <1>4, PoolHandsOut DEF IInv
<1>6. /\ pool' \in Seq(Obj) /\ Len(pool') <= PoolSize
      /\ \A i, j \in 1 .. Len(pool') : pool'[i] = pool'[j] => i = j
      /\ Ids(pool') \subseteq Ids(pool) /\ PoolTop \notin Ids(pool')
  BY <1>1, <1>5
<1>7. CASE Native!GetPendingMIDPEvent
  <2>1. result' \in EventData /\ numEvents \in Nat /\ numEvents' = numEvents - 1
        /\ numEvents' \in Nat
    BY <1>7, TakenIsEvent
  <2>2. Post(PoolTop, result') /\ mon' \in {"drain", "get"}
    BY <1>7 DEF MonitorDrains, Native!GetPendingMIDPEvent
  <2>3. PICK e \in EventData : e = result'
    BY <2>1
  <2>4. PICK o \in Obj : o = PoolTop
    BY <1>5
  <2>5. Post(o, e) /\ o \notin Members(k, q) /\ o # current /\ o \notin Ids(pool')
    BY <1>5, <1>6, <2>2, <2>3, <2>4
  <2>6. PICK n \in {k, k + 1} : \E r \in [1 .. n -> Obj] :
           Listed(n, r)' /\ Marks(n, r)' /\ Members(n, r) \subseteq Members(k, q) \cup {o}
    BY <1>3, <2>5, PostAdds DEF State
  <2>7. PICK r \in [1 .. n -> Obj] :
           Listed(n, r)' /\ Marks(n, r)' /\ Members(n, r) \subseteq Members(k, q) \cup {o}
    BY <2>6
  <2>8. /\ disp' = disp \/ (disp = "waiting" /\ disp' = "take")
        /\ shut' = shut \/ (shut = "waiting" /\ shut' = "check")
    BY <1>3, <2>5, PostTouches DEF State, Marks
  <2>9. Apart(Members(n, r))'
    BY <1>1, <1>3, <1>4, <1>6, <2>5, <2>7, ApartAfterPost DEF State
  <2>10. Counts(n)'
    BY <1>1, <1>3, <2>1, <2>2, <2>6, <2>8 DEF State, Counts
  <2>11. Basics'
    BY <1>1, <1>4, <2>2, <2>8 DEF IInv, Basics
  <2> QED BY <2>7, <2>9, <2>10, <2>11, StateAfter DEF State
<1>8. CASE ~Native!GetPendingMIDPEvent
  <2>1. outcome' = "empty" /\ numEvents' = numEvents
    BY <1>1, <1>8 DEF Native!ReadNativeEvent, Native!bufferVars
  <2>2. mon' = "get" /\ UNCHANGED <<content, listVars, disp, shut>>
    BY <2>1 DEF MonitorDrains
  <2>3. Listed(k, q)' /\ Marks(k, q)'
    BY <1>3, <2>2, ListStays, MarksStay DEF State, Marks, listVars
  <2>4. Apart(Members(k, q))'
    BY <1>1, <1>3, <1>6 DEF State, Apart
  <2>5. Counts(k)'
    BY <1>1, <1>3, <2>1, <2>2 DEF State, Counts
  <2>6. Basics'
    BY <1>1, <2>2 DEF IInv, Basics
  <2> QED BY <2>3, <2>4, <2>5, <2>6, StateAfter DEF State
<1> QED BY <1>7, <1>8

LEMMA JavaPostKeeps ==
  ASSUME IInv, NEW t \in Type, JavaPosts(t)
  PROVE  IInv'
<1> USE DEF nativeVars, monVars
<1> DEFINE d == [type |-> t, id |-> MaxStores + 2 + posts]
<1>1. /\ posts < MaxPosts /\ posts' = posts + 1 /\ Post(NewObj, d) /\ mon # "drain"
      /\ UNCHANGED <<mon, hand, pool, current, numEvents, lastId>>
  BY DEF JavaPosts, LockFree
<1>2. PICK k \in Nat : \E q \in [1 .. k -> Obj] :
         /\ State(k, q) /\ Members(k, q) \subseteq Obj
         /\ Null \notin Obj /\ Null \notin Members(k, q)
  BY GetStateOut
<1>3. PICK q \in [1 .. k -> Obj] :
         /\ State(k, q) /\ Members(k, q) \subseteq Obj
         /\ Null \notin Obj /\ Null \notin Members(k, q)
  BY <1>2
<1>4. NewObj \in Obj \ (Members(k, q) \cup {hand, current} \cup Ids(pool))
  BY <1>1, <1>3, ObjectsSuffice DEF IInv
<1>5. posts \in Nat /\ d \in EventData
  <2>1. posts \in Nat
    BY <1>3 DEF State, Counts
  <2>2. MaxStores \in Nat /\ MaxPosts \in Nat
    BY DispatchAssumption DEF DispatchAssumption
  <2>3. MaxStores + 2 + posts \in JavaId
    BY <1>1, <2>1, <2>2 DEF JavaId
  <2> QED BY <2>1, <2>3 DEF EventData
<1>6. PICK e \in EventData : e = d
  BY <1>5
<1>7. PICK o \in Obj : o = NewObj
  BY <1>4
<1>8. /\ Post(o, e) /\ o \notin Members(k, q) /\ o # hand /\ o # current
      /\ o \notin Ids(pool)
  BY <1>1, <1>4, <1>6, <1>7
<1> HIDE DEF d
<1>9. PICK n \in {k, k + 1} : \E r \in [1 .. n -> Obj] :
         Listed(n, r)' /\ Marks(n, r)' /\ Members(n, r) \subseteq Members(k, q) \cup {o}
  BY <1>3, <1>8, PostAdds DEF State
<1>10. PICK r \in [1 .. n -> Obj] :
         Listed(n, r)' /\ Marks(n, r)' /\ Members(n, r) \subseteq Members(k, q) \cup {o}
  BY <1>9
<1>11. /\ disp' = disp \/ (disp = "waiting" /\ disp' = "take")
       /\ shut' = shut \/ (shut = "waiting" /\ shut' = "check")
       /\ \A x \in Obj : x # o => content'[x] = content[x]
  BY <1>3, <1>8, PostTouches DEF State, Marks
<1>12. Apart(Members(n, r))'
  <2>1. /\ pool' \in Seq(Obj) /\ Len(pool') <= PoolSize
        /\ \A i, j \in 1 .. Len(pool') : pool'[i] = pool'[j] => i = j
    BY <1>1, <1>3 DEF State, Apart
  <2>2. Ids(pool') = Ids(pool)
    BY <1>1
  <2> QED BY <1>1, <1>3, <1>8, <1>10, <2>1, <2>2, ApartAfterPost DEF State
<1>13. Counts(n)'
  <2>1. MaxPosts \in Nat
    BY DispatchAssumption DEF DispatchAssumption
  <2> QED BY <1>1, <1>3, <1>5, <1>9, <1>11, <2>1 DEF State, Counts
<1>14. Basics'
  BY <1>1, <1>8, <1>11 DEF IInv, Basics
<1> QED BY <1>10, <1>12, <1>13, <1>14, StateAfter DEF State

(* The marks after the object at place p has left the list. *)
Unmarks(t, o) ==
  waiting' = IF t # Shutdown /\ waiting[t] = o THEN [waiting EXCEPT ![t] = Null] ELSE waiting

LEMMA MarksAfterUnlink ==
  ASSUME NEW k, NEW q, Listed(k, q), Marks(k, q), NEW p \in 1 .. k,
         NEW n \in Nat, NEW r \in [1 .. n -> Obj],
         Members(n, r) = Members(k, q) \ {q[p]}, NEW t, t = content[q[p]].type,
         Unmarks(t, q[p]),
         content' \in [Obj -> EventData \cup {Blank}],
         \A x \in Obj : x # q[p] => content'[x] = content[x]
  PROVE  Marks(n, r)'
<1> USE DEF Unmarks
<1>1. /\ k \in Nat /\ q \in [1 .. k -> Obj] /\ Null \notin Obj
      /\ Shutdown \notin Type /\ OnlyOne \subseteq Type
  BY DispatchAssumption DEF DispatchAssumption, Listed, Shutdown
<1>2. /\ waiting \in [Type -> Obj \cup {Null}]
      /\ \A i \in 1 .. k : content[q[i]] \in EventData
      /\ \A u \in Type : waiting[u] # Null =>
           \E i \in 1 .. k : q[i] = waiting[u] /\ content[q[i]].type = u
      /\ \A u \in OnlyOne : \A i \in 1 .. k : content[q[i]].type = u => q[i] = waiting[u]
  BY DEF Marks
<1>3. t # Shutdown => t \in Type
  BY <1>2 DEF EventData
<1>4. /\ waiting' \in [Type -> Obj \cup {Null}]
      /\ \A u \in Type : waiting'[u] = IF u = t /\ waiting[u] = q[p] THEN Null ELSE waiting[u]
  BY <1>1, <1>2, <1>3
<1>5. \A j \in 1 .. n : \E i \in 1 .. k : r[j] = q[i] /\ q[i] # q[p]
  <2>1. ASSUME NEW j \in 1 .. n PROVE \E i \in 1 .. k : r[j] = q[i] /\ q[i] # q[p]
    <3>1. r[j] \in Members(k, q) \ {q[p]}
      BY DEF Members
    <3> QED BY <3>1 DEF Members
  <2> QED BY <2>1
<1>6. \A i \in 1 .. k : q[i] # q[p] => \E j \in 1 .. n : r[j] = q[i]
  <2>1. ASSUME NEW i \in 1 .. k, q[i] # q[p] PROVE \E j \in 1 .. n : r[j] = q[i]
    <3>1. q[i] \in Members(n, r)
      BY <2>1 DEF Members
    <3> QED BY <3>1 DEF Members
  <2> QED BY <2>1
<1>7. \A j \in 1 .. n : content'[r[j]] = content[r[j]]
  BY <1>1, <1>5
<1>8. \A j \in 1 .. n : content'[r[j]] \in EventData
  BY <1>2, <1>5, <1>7
<1>9. ASSUME NEW u \in Type, waiting'[u] # Null
      PROVE  \E j \in 1 .. n : r[j] = waiting'[u] /\ content'[r[j]].type = u
  <2>1. waiting'[u] = waiting[u] /\ waiting[u] # Null
    BY <1>4, <1>9
  <2>2. PICK i \in 1 .. k : q[i] = waiting[u] /\ content[q[i]].type = u
    BY <1>2, <2>1
  <2>3. q[i] # q[p]
    BY <1>4, <1>9, <2>2
  <2>4. PICK j \in 1 .. n : r[j] = q[i]
    BY <1>6, <2>3
  <2> QED BY <1>7, <2>1, <2>2, <2>4
<1>10. ASSUME NEW u \in OnlyOne, NEW j \in 1 .. n, content'[r[j]].type = u
       PROVE  r[j] = waiting'[u]
  <2>1. PICK i \in 1 .. k : r[j] = q[i] /\ q[i] # q[p]
    BY <1>5
  <2>2. content[q[i]].type = u
    BY <1>7, <1>10, <2>1
  <2>3. q[i] = waiting[u]
    BY <1>2, <2>2
  <2> QED BY <1>1, <1>4, <2>1, <2>3
<1> QED BY <1>4, <1>8, <1>9, <1>10 DEF Marks

LEMMA RemoveKeeps ==
  ASSUME IInv, NEW t \in Type, Remove(t)
  PROVE  IInv'
<1> USE DEF monVars, dispVars, shutVars, countVars, nativeVars
<1>1. UNCHANGED <<monVars, dispVars, pool, shut, numEvents, lastId, posts>>
  BY DEF Remove
<1>2. PICK k \in Nat : \E q \in [1 .. k -> Obj] :
         /\ State(k, q) /\ Members(k, q) \subseteq Obj
         /\ Null \notin Obj /\ Null \notin Members(k, q)
  BY GetStateOut
<1>3. PICK q \in [1 .. k -> Obj] :
         /\ State(k, q) /\ Members(k, q) \subseteq Obj
         /\ Null \notin Obj /\ Null \notin Members(k, q)
  BY <1>2
<1>4. PICK p \in 1 .. k :
           /\ content[q[p]].type = t
           /\ waiting' = IF waiting[t] = q[p] THEN [waiting EXCEPT ![t] = Null] ELSE waiting
           /\ content' = [content EXCEPT ![q[p]] = Blank]
           /\ Listed(k - 1, Without(k, q, p))'
  BY <1>3, RemoveUnlinks DEF State
<1>5. \A i, j \in 1 .. k : q[i] = q[j] => i = j
  BY <1>3 DEF State, Listed
<1>6. PICK n \in Nat : n = k - 1
  BY <1>4
<1>7. /\ Without(k, q, p) \in [1 .. n -> Obj]
      /\ Members(n, Without(k, q, p)) = Members(k, q) \ {q[p]}
  BY <1>5, <1>6, WithoutMembers
<1>8. PICK r \in [1 .. n -> Obj] : r = Without(k, q, p)
  BY <1>7
<1>9. Listed(n, r)' /\ Members(n, r) = Members(k, q) \ {q[p]} /\ q[p] \in Members(k, q)
  <2>1. q[p] \in Members(k, q)
    BY DEF Members
  <2> QED BY <1>4, <1>6, <1>7, <1>8, <2>1
<1>10. /\ content' \in [Obj -> EventData \cup {Blank}]
       /\ \A x \in Obj : x # q[p] => content'[x] = content[x]
  BY <1>3, <1>4 DEF State, Marks
<1>11. Marks(n, r)'
  <2>1. t # Shutdown
    BY DispatchAssumption DEF DispatchAssumption, Shutdown
  <2>2. Unmarks(t, q[p])
    BY <1>4, <2>1 DEF Unmarks
  <2>3. t = content[q[p]].type /\ Listed(k, q) /\ Marks(k, q)
    BY <1>3, <1>4 DEF State
  <2> HIDE DEF Members
  <2> QED BY <1>9, <1>10, <2>2, <2>3, MarksAfterUnlink
<1>12. Apart(Members(n, r))'
  BY <1>1, <1>3, <1>9, ApartStays DEF State
<1>13. Counts(n)'
  BY <1>1, <1>3, <1>6 DEF State, Counts
<1>14. Basics'
  <2>1. hand # Null => hand \in Obj /\ hand # q[p]
    BY <1>3, <1>9 DEF State, Apart, IInv, Basics
  <2> QED BY <1>1, <1>10, <2>1 DEF IInv, Basics
<1> QED BY <1>9, <1>11, <1>12, <1>13, <1>14, StateAfter DEF State

-----------------------------------------------------------------------------
LEMMA DispatcherIdles == IInv /\ (DispatcherStarts \/ DispatcherWaits) => IInv'
<1> SUFFICES ASSUME IInv, DispatcherStarts \/ DispatcherWaits PROVE IInv'
  OBVIOUS
<1> USE DEF listVars, monVars, shutVars, countVars, nativeVars
<1>1. /\ disp # "process" /\ disp' \in {"take", "waiting"}
      /\ UNCHANGED <<listVars, content, pool, monVars, current, shut, numEvents, lastId, posts>>
  BY DEF DispatcherStarts, DispatcherWaits
<1>2. PICK k \in Nat : \E q \in [1 .. k -> Obj] : State(k, q)
  BY DEF IInv
<1>3. PICK q \in [1 .. k -> Obj] : State(k, q)
  BY <1>2
<1>4. Listed(k, q)' /\ Marks(k, q)' /\ Apart(Members(k, q))'
  BY <1>1, <1>3, ListStays, MarksStay, ApartStays DEF State, Marks
<1>5. Counts(k)'
  BY <1>1, <1>3 DEF State, Counts
<1>6. Basics'
  BY <1>1 DEF IInv, Basics
<1> QED BY <1>4, <1>5, <1>6, StateAfter DEF State

LEMMA PoolOfObjects ==
  ASSUME NEW M, Apart(M)
  PROVE  Ids(pool) \subseteq Obj /\ Null \notin Ids(pool)
<1>1. pool \in Seq(Obj)
  BY DEF Apart
<1>2. \A i \in DOMAIN pool : pool[i] \in Obj
  BY <1>1
<1>3. Ids(pool) \subseteq Obj
  BY <1>2 DEF Ids
<1> QED BY <1>3, DispatchAssumption DEF DispatchAssumption

LEMMA TakeKeeps == IInv /\ DispatcherTakes => IInv'
<1> SUFFICES ASSUME IInv, DispatcherTakes PROVE IInv'
  OBVIOUS
<1> USE DEF monVars, countVars, nativeVars
<1>1. /\ disp = "take" /\ nextEvent # Null /\ UnlinkHead /\ ForgetWaiting
      /\ UNCHANGED <<monVars, pool, numEvents, lastId, posts>>
      /\ \/ /\ content' = [content EXCEPT ![nextEvent] = Blank]
            /\ disp' = "ended" /\ current' = current
            /\ shut' = IF shut = "waiting" THEN "check" ELSE shut
         \/ /\ content' = content /\ disp' = "process" /\ current' = nextEvent
            /\ shut' = shut
  BY DEF DispatcherTakes, EndDispatch
<1>2. PICK k \in Nat : \E q \in [1 .. k -> Obj] :
         /\ State(k, q) /\ Members(k, q) \subseteq Obj
         /\ Null \notin Obj /\ Null \notin Members(k, q)
  BY GetStateOut
<1>3. PICK q \in [1 .. k -> Obj] :
         /\ State(k, q) /\ Members(k, q) \subseteq Obj
         /\ Null \notin Obj /\ Null \notin Members(k, q)
  BY <1>2
<1>4. k > 0 /\ nextEvent = q[1] /\ Listed(k - 1, Without(k, q, 1))'
  BY <1>1, <1>3, UnlinkTakesFirst DEF State
<1>5. (\A i, j \in 1 .. k : q[i] = q[j] => i = j) /\ 1 \in 1 .. k
  BY <1>3, <1>4 DEF State, Listed
<1>6. PICK n \in Nat : n = k - 1
  BY <1>4
<1>7. /\ Without(k, q, 1) \in [1 .. n -> Obj]
      /\ Members(n, Without(k, q, 1)) = Members(k, q) \ {q[1]}
  BY <1>5, <1>6, WithoutMembers
<1>8. PICK r \in [1 .. n -> Obj] : r = Without(k, q, 1)
  BY <1>7
<1>9. Listed(n, r)' /\ Members(n, r) = Members(k, q) \ {q[1]} /\ q[1] \in Members(k, q)
  <2>1. q[1] \in Members(k, q)
    BY <1>5 DEF Members
  <2> QED BY <1>4, <1>6, <1>7, <1>8, <2>1
<1>10. q[1] \in Obj /\ q[1] # hand /\ q[1] # Null /\ q[1] \notin Ids(pool) /\ current = Null
  BY <1>1, <1>3, <1>9 DEF State, Apart, IInv, Basics
<1>11. /\ content' \in [Obj -> EventData \cup {Blank}]
       /\ \A x \in Obj : x # q[1] => content'[x] = content[x]
  <2>1. content \in [Obj -> EventData \cup {Blank}]
    BY <1>3 DEF State, Marks
  <2> QED BY <1>1, <1>4, <1>10, <2>1
<1>12. Marks(n, r)'
  <2>1. PICK t : t = content[q[1]].type
    OBVIOUS
  <2>2. Unmarks(t, q[1])
    BY <1>1, <1>4, <2>1 DEF ForgetWaiting, Unmarks
  <2> QED BY <1>3, <1>5, <1>9, <1>11, <2>1, <2>2, MarksAfterUnlink DEF State
<1>13. Apart(Members(n, r))'
  <2>1. /\ pool' = pool /\ hand' = hand /\ current' \in {Null, q[1]}
    BY <1>1, <1>4, <1>10
  <2>2. Apart(Members(k, q)) /\ Null \notin Ids(pool)
    BY <1>3, PoolOfObjects DEF State
  <2> HIDE DEF Ids, Members
  <2> QED BY <1>3, <1>9, <1>10, <2>1, <2>2 DEF Apart
<1>14. Counts(n)'
  BY <1>1, <1>3, <1>6 DEF State, Counts
<1>15. Basics'
  BY <1>1, <1>4, <1>10, <1>11 DEF IInv, Basics
<1> QED BY <1>9, <1>12, <1>13, <1>14, <1>15, StateAfter DEF State

LEMMA ProcessKeeps == IInv /\ DispatcherProcesses => IInv'
<1> SUFFICES ASSUME IInv, DispatcherProcesses PROVE IInv'
  OBVIOUS
<1> USE DEF listVars, monVars, shutVars, countVars, nativeVars
<1>1. /\ disp = "process" /\ disp' = "take" /\ current' = Null
      /\ content' = [content EXCEPT ![current] = Blank]
      /\ UNCHANGED <<listVars, monVars, shut, numEvents, lastId, posts>>
      /\ pool' = pool \/ (Len(pool) < PoolSize /\ pool' = Append(pool, current))
  BY DEF DispatcherProcesses, PutBack
<1>2. PICK k \in Nat : \E q \in [1 .. k -> Obj] :
         /\ State(k, q) /\ Members(k, q) \subseteq Obj
         /\ Null \notin Obj /\ Null \notin Members(k, q)
  BY GetStateOut
<1>3. PICK q \in [1 .. k -> Obj] :
         /\ State(k, q) /\ Members(k, q) \subseteq Obj
         /\ Null \notin Obj /\ Null \notin Members(k, q)
  BY <1>2
<1>4. /\ current \in Obj /\ current \notin Members(k, q) /\ current # hand
      /\ current \notin Ids(pool)
  BY <1>1, <1>3 DEF IInv, Basics, State, Apart
<1>5. Listed(k, q)'
  BY <1>1, <1>3, ListStays DEF State
<1>6. Marks(k, q)'
  BY <1>1, <1>3, <1>4, OneIsWritten DEF State
<1>7. PoolSize \in Nat
  BY DispatchAssumption DEF DispatchAssumption
<1>8. /\ pool' \in Seq(Obj) /\ Len(pool') <= PoolSize
      /\ \A i, j \in 1 .. Len(pool') : pool'[i] = pool'[j] => i = j
      /\ Ids(pool') \subseteq Ids(pool) \cup {current}
  <2>1. /\ pool \in Seq(Obj) /\ Len(pool) <= PoolSize /\ Len(pool) \in Nat
        /\ \A i, j \in 1 .. Len(pool) : pool[i] = pool[j] => i = j
    BY <1>3 DEF State, Apart
  <2>2. CASE pool' = pool
    BY <2>1, <2>2
  <2>3. CASE Len(pool) < PoolSize /\ pool' = Append(pool, current)
    <3>1. /\ pool' \in Seq(Obj) /\ Len(pool') = Len(pool) + 1
          /\ pool'[Len(pool) + 1] = current
          /\ \A i \in 1 .. Len(pool) : pool'[i] = pool[i]
      BY <1>4, <2>1, <2>3, AppendProperties
    <3>2. \A i \in 1 .. Len(pool) : pool[i] # current
      BY <1>4, <2>1 DEF Ids
    <3>3. \A i \in 1 .. Len(pool) + 1 : i \in 1 .. Len(pool) \/ i = Len(pool) + 1
      BY <2>1
    <3>4. \A i, j \in 1 .. Len(pool') : pool'[i] = pool'[j] => i = j
      BY <2>1, <3>1, <3>2, <3>3
    <3>5. DOMAIN pool' = 1 .. Len(pool) + 1 /\ DOMAIN pool = 1 .. Len(pool)
      BY <2>1, <3>1
    <3>6. Ids(pool') \subseteq Ids(pool) \cup {current}
      BY <3>1, <3>3, <3>5 DEF Ids
    <3> QED BY <1>7, <2>1, <2>3, <3>1, <3>4, <3>6
  <2> QED BY <1>1, <2>2, <2>3
<1>9. Apart(Members(k, q))'
  <2>1. Apart(Members(k, q)) /\ Null \notin Ids(pool)
    BY <1>3, PoolOfObjects DEF State
  <2> HIDE DEF Ids, Members
  <2> QED BY <1>1, <1>3, <1>4, <1>8, <2>1 DEF Apart
<1>10. Counts(k)'
  BY <1>1, <1>3 DEF State, Counts
<1>11. Basics'
  <2>1. content \in [Obj -> EventData \cup {Blank}]
    BY <1>3 DEF State, Marks
  <2> QED BY <1>1, <1>4, <2>1 DEF IInv, Basics
<1> QED BY <1>5, <1>6, <1>9, <1>10, <1>11, StateAfter DEF State

-----------------------------------------------------------------------------
LEMMA InitIInv == Init => IInv
<1> SUFFICES ASSUME Init PROVE IInv
  OBVIOUS
<1> USE DEF Init
<1>1. Null \notin Obj /\ MaxStores \in Nat /\ MaxPosts \in Nat /\ PoolSize \in Nat
  BY DispatchAssumption DEF DispatchAssumption
<1>2. PICK q \in [1 .. 0 -> Obj] : TRUE
  <2>1. [i \in 1 .. 0 |-> Null] \in [1 .. 0 -> Obj]
    OBVIOUS
  <2> QED BY <2>1
<1>3. Listed(0, q)
  BY DEF Listed
<1>4. Marks(0, q)
  <2>1. content \in [Obj -> EventData \cup {Blank}]
    BY DEF Blank
  <2>2. \A t \in OnlyOne : t \in Type
    BY DispatchAssumption DEF DispatchAssumption
  <2> QED BY <2>1, <2>2 DEF Marks
<1>5. Apart(Members(0, q))
  BY <1>1, EmptySeq DEF Apart, Members, Ids
<1>6. Counts(0)
  BY <1>1 DEF Counts, Native!Init
<1>7. Basics
  BY <1>1 DEF Basics
<1> QED BY <1>3, <1>4, <1>5, <1>6, <1>7 DEF IInv, State

LEMMA StutterKeeps == IInv /\ UNCHANGED vars => IInv'
<1> SUFFICES ASSUME IInv, UNCHANGED vars PROVE IInv'
  OBVIOUS
<1>1. /\ UNCHANGED <<listVars, content, pool, monVars, dispVars>>
      /\ UNCHANGED <<numEvents, lastId, posts, shut, disp, mon>>
  BY DEF vars, nativeVars, dispVars, shutVars, countVars, monVars
<1>2. \A k \in Nat : Counts(k) => Counts(k)'
  BY <1>1 DEF Counts
<1> QED BY <1>1, <1>2, OnlyCounted

LEMMA ListInvariant == Spec => []IInv
<1>1. IInv /\ NP!BufferTypeOK /\ NP!WindowConsistent /\ [Next]_vars => IInv'
  BY StartKeeps, StoreKeeps, JavaPostKeeps, RemoveKeeps, GetKeeps, WaitKeeps, PostsKeeps,
     DrainKeeps, DispatcherIdles, TakeKeeps, ProcessKeeps, ShutdownKeeps, StutterKeeps
     DEF Next
<1> QED BY <1>1, InitIInv, NativeQueueIsTyped, PTL DEF Spec

-----------------------------------------------------------------------------
(* An object in the pool is nobody's: whatever the two threads and the     *)
(* other posters do, NativeEventPool.get never hands out an event that is  *)
(* queued or that a listener looks at.                                     *)
THEOREM PoolIsUnshared == Spec => []PoolUnshared
<1>1. IInv => PoolUnshared
  <2> SUFFICES ASSUME IInv PROVE PoolUnshared
    OBVIOUS
  <2>1. PICK k \in Nat : \E q \in [1 .. k -> Obj] : State(k, q)
    BY DEF IInv
  <2>2. PICK q \in [1 .. k -> Obj] : State(k, q)
    BY <2>1
  <2>3. /\ Len(pool) \in Nat /\ pool \in [1 .. Len(pool) -> Obj]
        /\ \A i, j \in 1 .. Len(pool) : pool[i] = pool[j] => i = j
    BY <2>2 DEF State, Apart
  <2>4. Ids(pool) = Members(Len(pool), pool)
    BY <2>3 DEF Ids, Members
  <2>5. Cardinality(Members(Len(pool), pool)) = Len(pool)
    BY <2>3, MembersCounted
  <2>6. Queued = Members(k, q)
    BY <2>2, QueueIsList DEF State
  <2>7. Ids(pool) \cap (Members(k, q) \cup {hand, current}) = {}
    BY <2>2 DEF State, Apart
  <2> QED BY <2>4, <2>5, <2>6, <2>7 DEF PoolUnshared
<1> QED BY <1>1, ListInvariant, PTL

(* The head and the tail of the Java queue belong to one chain of links:   *)
(* post never appends to an event that nobody will reach.                  *)
THEOREM QueueEndsAtTail == Spec => []ListWellFormed
<1>1. IInv => ListWellFormed
  <2> SUFFICES ASSUME IInv PROVE ListWellFormed
    OBVIOUS
  <2>1. PICK k \in Nat : \E q \in [1 .. k -> Obj] : State(k, q)
    BY DEF IInv
  <2>2. PICK q \in [1 .. k -> Obj] : State(k, q)
    BY <2>1
  <2>3. JavaQueue = q
    BY <2>2, QueueIsList DEF State
  <2>4. /\ nextEvent = IF k = 0 THEN Null ELSE q[1]
        /\ lastEvent = IF k = 0 THEN Null ELSE q[k]
        /\ \A i \in 1 .. k : next[q[i]] = IF i = k THEN Null ELSE q[i + 1]
    BY <2>2 DEF State, Listed
  <2>5. Null \notin Obj
    BY DispatchAssumption DEF DispatchAssumption
  <2>6. k # 0 => q[1] # Null /\ q[k] # Null /\ next[q[k]] = Null
    BY <2>4, <2>5
  <2>7. Len(q) = k
    <3>1. q \in Seq(Obj) /\ DOMAIN q = 1 .. k
      BY SeqDef
    <3> QED BY <3>1, LenProperties
  <2> QED BY <2>3, <2>4, <2>6, <2>7 DEF ListWellFormed
<1> QED BY <1>1, ListInvariant, PTL

(* A listener that vetoes an event because one waits can rely on that one: *)
(* it is still queued, and it is the only one of its type.                 *)
THEOREM WaitingStaysQueued == Spec => []WaitingIsQueued
<1>1. IInv => WaitingIsQueued
  <2> SUFFICES ASSUME IInv PROVE WaitingIsQueued
    OBVIOUS
  <2>1. PICK k \in Nat : \E q \in [1 .. k -> Obj] : State(k, q)
    BY DEF IInv
  <2>2. PICK q \in [1 .. k -> Obj] : State(k, q)
    BY <2>1
  <2>3. JavaQueue = q
    BY <2>2, QueueIsList DEF State
  <2>4. /\ \A i, j \in 1 .. k : q[i] = q[j] => i = j
        /\ \A t \in Type : waiting[t] # Null =>
             \E i \in 1 .. k : q[i] = waiting[t] /\ content[q[i]].type = t
        /\ \A t \in OnlyOne : \A i \in 1 .. k : content[q[i]].type = t => q[i] = waiting[t]
    BY <2>2 DEF State, Marks, Listed
  <2>5. \A t : Places(q, t) = {i \in 1 .. k : content[q[i]].type = t}
    BY DEF Places
  <2>6. ASSUME NEW t \in OnlyOne PROVE Cardinality(Places(q, t)) <= 1
    <3>1. \A i, j \in Places(q, t) : i = j
      BY <2>4, <2>5
    <3>2. CASE Places(q, t) = {}
      BY <3>2, FS_EmptySet
    <3>3. CASE Places(q, t) # {}
      <4>1. PICK i \in Places(q, t) : TRUE
        BY <3>3
      <4>2. Places(q, t) = {i}
        BY <3>1, <4>1
      <4>3. Cardinality({i}) = 1
        BY FS_Singleton
      <4> QED BY <4>2, <4>3
    <3> QED BY <3>2, <3>3
  <2>7. ASSUME NEW t \in Type, waiting[t] # Null
        PROVE  \E i \in Places(q, t) : q[i] = waiting[t]
    BY <2>4, <2>5, <2>7
  <2> QED BY <2>3, <2>6, <2>7 DEF WaitingIsQueued
<1> QED BY <1>1, ListInvariant, PTL

(* Nobody sleeps over what has happened: while the dispatcher waits there  *)
(* is nothing to take, while shutdown waits the queue is alive.            *)
THEOREM NotifyIsNotLost == Spec => []NoLostNotify
<1>1. Init => NoLostNotify
  BY DEF Init, NoLostNotify
<1>2. NoLostNotify /\ [Next]_vars => NoLostNotify'
  <2> SUFFICES ASSUME NoLostNotify, [Next]_vars PROVE NoLostNotify'
    OBVIOUS
  <2> USE DEF NoLostNotify, listVars, dispVars, shutVars
  <2>1. ASSUME NEW o, NEW e, Post(o, e), alive' = alive PROVE NoLostNotify'
    BY <2>1 DEF Post, NotifyAll
  <2>2. CASE Start
    BY <2>2 DEF Start
  <2>3. ASSUME NEW t \in Type, VMStores(t) PROVE NoLostNotify'
    BY <2>3 DEF VMStores
  <2>4. ASSUME NEW t \in Type, JavaPosts(t) PROVE NoLostNotify'
    BY <2>1, <2>4 DEF JavaPosts
  <2>5. ASSUME NEW t \in Type, Remove(t) PROVE NoLostNotify'
    BY <2>5 DEF Remove
  <2>6. CASE MonitorGets \/ MonitorWaits
    BY <2>6 DEF MonitorGets, MonitorWaits
  <2>7. CASE MonitorPosts
    BY <2>1, <2>7 DEF MonitorPosts
  <2>8. CASE MonitorDrains
    BY <2>1, <2>8 DEF MonitorDrains
  <2>9. CASE DispatcherStarts \/ DispatcherWaits \/ DispatcherProcesses
    BY <2>9 DEF DispatcherStarts, DispatcherWaits, DispatcherProcesses
  <2>10. CASE DispatcherTakes
    BY <2>10 DEF DispatcherTakes, EndDispatch
  <2>11. CASE ShutdownSends \/ ShutdownChecks \/ ShutdownResets
    BY <2>11 DEF ShutdownSends, ShutdownChecks, ShutdownResets
  <2>12. CASE UNCHANGED vars
    BY <2>12 DEF vars
  <2> QED BY <2>2, <2>3, <2>4, <2>5, <2>6, <2>7, <2>8, <2>9, <2>10, <2>11, <2>12 DEF Next
<1> QED BY <1>1, <1>2, PTL DEF Spec

-----------------------------------------------------------------------------
(* What the type invariant says beyond the list and the native queue; the  *)
(* drain loop goes on only while it has something left to read.            *)
ControlOK ==
  /\ pending \in 0 .. MaxEvents
  /\ mon = "drain" => pending > 0
  /\ shut \in {"idle", "check", "waiting", "reset", "done"}
  /\ alive \in BOOLEAN

LEMMA ControlInvariant == Spec => []ControlOK
<1>1. Init => ControlOK
  <2> SUFFICES ASSUME Init PROVE ControlOK
    OBVIOUS
  <2>1. pending = 0 /\ mon = "get" /\ shut = "idle" /\ alive = FALSE
    BY DEF Init
  <2>2. MaxEvents \in Nat
    BY DispatchAssumption DEF DispatchAssumption
  <2>3. pending \in 0 .. MaxEvents
    BY <2>1, <2>2
  <2>4. alive \in BOOLEAN
    BY <2>1, Zenon
  <2> QED BY <2>1, <2>3, <2>4 DEF ControlOK
<1>2. ControlOK /\ NP!BufferTypeOK /\ [Next]_vars /\ NP!BufferTypeOK' => ControlOK'
  <2> SUFFICES ASSUME ControlOK, NP!BufferTypeOK, [Next]_vars, NP!BufferTypeOK'
               PROVE  ControlOK'
    OBVIOUS
  <2> USE DispatchAssumption DEF DispatchAssumption, ControlOK, monVars, dispVars, shutVars
  <2>1. ASSUME NEW o, NEW e, Post(o, e)
        PROVE  shut' \in {"idle", "check", "waiting", "reset", "done"}
    BY <2>1 DEF Post, NotifyAll
  <2>2. CASE Start
    BY <2>2 DEF Start
  <2>3. ASSUME NEW t \in Type, VMStores(t) \/ JavaPosts(t) \/ Remove(t) PROVE ControlOK'
    <3>1. UNCHANGED <<pending, mon, alive>>
      BY <2>3 DEF VMStores, JavaPosts, Remove
    <3>2. shut' \in {"idle", "check", "waiting", "reset", "done"}
      BY <2>1, <2>3 DEF VMStores, JavaPosts, Remove
    <3> QED BY <3>1, <3>2
  <2>4. CASE MonitorGets
    BY <2>4 DEF MonitorGets
  <2>5. CASE MonitorWaits
    BY <2>5 DEF MonitorWaits, NP!BufferTypeOK
  <2>6. CASE MonitorPosts
    <3>1. shut' \in {"idle", "check", "waiting", "reset", "done"}
      BY <2>1, <2>6 DEF MonitorPosts
    <3>2. alive' = alive /\ pending' = pending /\ (mon' = "drain" => pending > 0)
      BY <2>6 DEF MonitorPosts
    <3> QED BY <3>1, <3>2
  <2>7. CASE MonitorDrains
    <3>1. shut' \in {"idle", "check", "waiting", "reset", "done"}
      BY <2>1, <2>7 DEF MonitorDrains
    <3>2. alive' = alive /\ pending' \in 0 .. MaxEvents /\ (mon' = "drain" => pending' > 0)
      BY <2>7 DEF MonitorDrains
    <3> QED BY <3>1, <3>2
  <2>8. CASE DispatcherStarts \/ DispatcherWaits \/ DispatcherProcesses
    BY <2>8 DEF DispatcherStarts, DispatcherWaits, DispatcherProcesses
  <2>9. CASE DispatcherTakes
    BY <2>9 DEF DispatcherTakes, EndDispatch
  <2>10. CASE ShutdownSends \/ ShutdownChecks \/ ShutdownResets
    BY <2>10 DEF ShutdownSends, ShutdownChecks, ShutdownResets
  <2>11. CASE UNCHANGED vars
    BY <2>11 DEF vars
  <2> QED BY <2>2, <2>3, <2>4, <2>5, <2>6, <2>7, <2>8, <2>9, <2>10, <2>11 DEF Next
<1> QED BY <1>1, <1>2, NativeQueueIsTyped, PTL DEF Spec

(* References, program counters and the native queue stay in range.        *)
THEOREM DispatchTypeCorrect == Spec => []TypeOK
<1>1. IInv /\ ControlOK /\ NP!TypeOK => TypeOK
  <2> SUFFICES ASSUME IInv, ControlOK, NP!TypeOK PROVE TypeOK
    OBVIOUS
  <2>1. Native!TypeOK
    BY DEF NP!TypeOK, Native!TypeOK, NP!BufferTypeOK, Native!BufferTypeOK,
       NP!MonitorTypeOK, Native!MonitorTypeOK, NP!Slot, Native!Slot
  <2>2. PICK k \in Nat : \E q \in [1 .. k -> Obj] : State(k, q)
    BY DEF IInv
  <2>3. PICK q \in [1 .. k -> Obj] : State(k, q)
    BY <2>2
  <2>4. /\ content \in [Obj -> EventData \cup {Blank}]
        /\ next \in [Obj -> Obj \cup {Null}]
        /\ waiting \in [Type -> Obj \cup {Null}]
        /\ nextEvent \in Obj \cup {Null} /\ lastEvent \in Obj \cup {Null}
    BY <2>3 DEF State, Marks, Listed
  <2>5. Ids(pool) \subseteq Obj /\ Len(pool) <= PoolSize
    <3>1. Apart(Members(k, q))
      BY <2>3 DEF State
    <3> QED BY <3>1, PoolOfObjects DEF Apart
  <2>6. Basics
    BY DEF IInv
  <2> QED BY <2>1, <2>4, <2>5, <2>6 DEF TypeOK, Basics, ControlOK
<1> QED BY <1>1, ListInvariant, ControlInvariant, NativeQueueIsTyped, PTL

-----------------------------------------------------------------------------
(* The way of the native events: those that were processed, the one being  *)
(* processed, those in the Java queue, the one the monitor holds and those *)
(* in the native queue. Each group is in order and before the next; the    *)
(* events of other Java threads are nowhere in that order.                 *)
Earlier(A, B) == \A a \in A \cap NativeId, b \in B \cap NativeId : a < b

Rising(n, f) ==
  \A i, j \in 1 .. n : i < j /\ f[i] \in NativeId /\ f[j] \in NativeId => f[i] < f[j]

Layered(P, C, L, H, N, z) ==
  /\ Earlier(P, C \cup L \cup H \cup N)
  /\ Earlier(C, L \cup H \cup N)
  /\ Earlier(L, H \cup N)
  /\ Earlier(H, N)
  /\ \A a \in (P \cup C \cup L \cup H \cup N) \cap NativeId : a <= z

Idle(k, q)  == [i \in 1 .. k |-> content[q[i]].id]
Stored      == [n \in 1 .. numEvents |-> Native!Contents[n].id]

Done        == Members(Len(processed), processed)
Now         == IF disp = "process" THEN {content[current].id} ELSE {}
Waits(k, q) == Members(k, Idle(k, q))
Held        == IF mon = "post" THEN {content[hand].id} ELSE {}
InStore     == Members(numEvents, Stored)

Flow(k, q) ==
  /\ processed \in Seq(Nat) /\ lastId \in Nat
  /\ Rising(Len(processed), processed)
  /\ Rising(k, Idle(k, q))
  /\ Rising(numEvents, Stored)
  /\ Layered(Done, Now, Waits(k, q), Held, InStore, lastId)
  /\ 1 .. lastId \subseteq Done \cup Now \cup Waits(k, q) \cup Held \cup InStore
                            \cup gone \cup discarded

FlowInv == \E k \in Nat : \E q \in [1 .. k -> Obj] : Listed(k, q) /\ Flow(k, q)

LEMMA EarlierShrinks ==
  ASSUME NEW A, NEW B, Earlier(A, B), NEW A2, NEW B2, A2 \cap NativeId \subseteq A,
         B2 \cap NativeId \subseteq B
  PROVE  Earlier(A2, B2)
BY DEF Earlier

(* How a step may move one id from group to group. *)
LEMMA LayersShrink ==
  ASSUME NEW P, NEW C, NEW L, NEW H, NEW N, NEW z \in Nat, Layered(P, C, L, H, N, z),
         NEW P2, NEW C2, NEW L2, NEW H2, NEW N2, NEW y \in Nat, z <= y,
         P2 \cap NativeId \subseteq P, C2 \cap NativeId \subseteq C,
         L2 \cap NativeId \subseteq L, H2 \cap NativeId \subseteq H,
         N2 \cap NativeId \subseteq N
  PROVE  Layered(P2, C2, L2, H2, N2, y)
<1>1. NativeId \subseteq Nat
  BY DEF NativeId
<1>2. \A a \in (P2 \cup C2 \cup L2 \cup H2 \cup N2) \cap NativeId : a <= y
  <2>1. \A a \in (P2 \cup C2 \cup L2 \cup H2 \cup N2) \cap NativeId : a <= z /\ a \in Nat
    BY <1>1 DEF Layered
  <2> QED BY <2>1
<1>3. Earlier(P2, C2 \cup L2 \cup H2 \cup N2)
  BY EarlierShrinks DEF Layered
<1>4. Earlier(C2, L2 \cup H2 \cup N2)
  BY EarlierShrinks DEF Layered
<1>5. Earlier(L2, H2 \cup N2)
  BY EarlierShrinks DEF Layered
<1>6. Earlier(H2, N2)
  BY EarlierShrinks DEF Layered
<1> QED BY <1>2, <1>3, <1>4, <1>5, <1>6 DEF Layered

LEMMA LayersGrow ==
  ASSUME NEW P, NEW C, NEW L, NEW H, NEW N, NEW z \in Nat, Layered(P, C, L, H, N, z)
  PROVE  Layered(P, C, L, H, N \cup {z + 1}, z + 1)
<1>1. NativeId \subseteq Nat
  BY DEF NativeId
<1>2. \A a \in (P \cup C \cup L \cup H \cup N) \cap NativeId :
         a <= z /\ a < z + 1 /\ a <= z + 1
  <2>1. \A a \in (P \cup C \cup L \cup H \cup N) \cap NativeId : a <= z /\ a \in Nat
    BY <1>1 DEF Layered
  <2> QED BY <2>1
<1>3. z + 1 <= z + 1
  OBVIOUS
<1> QED BY <1>2, <1>3 DEF Layered, Earlier

LEMMA LayersRead ==
  ASSUME NEW P, NEW C, NEW L, NEW N, NEW z, Layered(P, C, L, {}, N, z),
         NEW x \in N, NEW M, M \subseteq N, Earlier({x}, M)
  PROVE  Layered(P, C, L, {x}, M, z) /\ Layered(P, C, L \cup {x}, {}, M, z)
BY DEF Layered, Earlier

LEMMA LayersPost ==
  ASSUME NEW P, NEW C, NEW L, NEW N, NEW z, NEW x, Layered(P, C, L, {x}, N, z)
  PROVE  Layered(P, C, L \cup {x}, {}, N, z)
BY DEF Layered, Earlier

LEMMA LayersTake ==
  ASSUME NEW P, NEW L, NEW H, NEW N, NEW z, Layered(P, {}, L, H, N, z),
         NEW x \in L, NEW M, M \subseteq L, Earlier({x}, M)
  PROVE  Layered(P, {x}, M, H, N, z) /\ Layered(P \cup {x}, {}, M, H, N, z)
BY DEF Layered, Earlier

LEMMA LayersProcess ==
  ASSUME NEW P, NEW x, NEW L, NEW H, NEW N, NEW z, Layered(P, {x}, L, H, N, z)
  PROVE  Layered(P \cup {x}, {}, L, H, N, z)
BY DEF Layered, Earlier

(* A sequence in order that gets a later element, or an element that is    *)
(* not native, or loses one.                                               *)
LEMMA RisingGrows ==
  ASSUME NEW n \in Nat, NEW f, Rising(n, f), NEW g, \A i \in 1 .. n : g[i] = f[i],
         Earlier(Members(n, f), {g[n + 1]})
  PROVE  Rising(n + 1, g) /\ Members(n + 1, g) = Members(n, f) \cup {g[n + 1]}
<1>1. \A i \in 1 .. n + 1 : i \in 1 .. n \/ i = n + 1
  OBVIOUS
<1>2. n + 1 \in 1 .. n + 1 /\ \A i \in 1 .. n : i \in 1 .. n + 1 /\ ~(n + 1 < i)
  OBVIOUS
<1>3. Members(n + 1, g) = Members(n, f) \cup {g[n + 1]}
  BY <1>1, <1>2 DEF Members
<1>4. ASSUME NEW i \in 1 .. n + 1, NEW j \in 1 .. n + 1, i < j, g[i] \in NativeId,
             g[j] \in NativeId
      PROVE  g[i] < g[j]
  <2>1. i \in 1 .. n
    BY <1>4
  <2>2. CASE j \in 1 .. n
    BY <2>1, <2>2, <1>4 DEF Rising
  <2>3. CASE j = n + 1
    BY <2>1, <2>3, <1>4 DEF Earlier, Members
  <2> QED BY <1>1, <2>2, <2>3
<1> QED BY <1>3, <1>4 DEF Rising

LEMMA RisingLoses ==
  ASSUME NEW n \in Nat, NEW f, Rising(n, f), NEW p \in 1 .. n, NEW g,
         \A i \in 1 .. n - 1 : g[i] = IF i < p THEN f[i] ELSE f[i + 1]
  PROVE  /\ Rising(n - 1, g) /\ Members(n - 1, g) \subseteq Members(n, f)
         /\ Members(n, f) = Members(n - 1, g) \cup {f[p]}
         /\ p = 1 => Earlier({f[1]}, Members(n - 1, g))
<1>1. \A i \in 1 .. n - 1 : i \in 1 .. n /\ i + 1 \in 1 .. n
  OBVIOUS
<1>2. ASSUME NEW i \in 1 .. n - 1, NEW j \in 1 .. n - 1, i < j, g[i] \in NativeId,
             g[j] \in NativeId
      PROVE  g[i] < g[j]
  <2>1. PICK a \in 1 .. n : a = IF i < p THEN i ELSE i + 1
    BY <1>1
  <2>2. PICK b \in 1 .. n : b = IF j < p THEN j ELSE j + 1
    BY <1>1
  <2>3. a < b /\ g[i] = f[a] /\ g[j] = f[b]
    BY <2>1, <2>2, <1>2
  <2> QED BY <2>3, <1>2 DEF Rising
<1>3. Members(n - 1, g) \subseteq Members(n, f)
  BY <1>1 DEF Members
<1>4. ASSUME NEW i \in 1 .. n, i # p PROVE f[i] \in Members(n - 1, g)
  <2>1. CASE i < p
    <3>1. i \in 1 .. n - 1 /\ g[i] = f[i]
      BY <2>1
    <3> QED BY <3>1 DEF Members
  <2>2. CASE i > p
    <3>1. i - 1 \in 1 .. n - 1 /\ ~(i - 1 < p) /\ i - 1 + 1 = i
      BY <2>2
    <3>2. g[i - 1] = f[i]
      BY <3>1
    <3> QED BY <3>1, <3>2 DEF Members
  <2> QED BY <2>1, <2>2, <1>4
<1>5. Members(n, f) = Members(n - 1, g) \cup {f[p]}
  BY <1>3, <1>4 DEF Members
<1>6. ASSUME p = 1, NEW i \in 1 .. n - 1, f[1] \in NativeId, g[i] \in NativeId
      PROVE  f[1] < g[i]
  <2>1. g[i] = f[i + 1] /\ 1 \in 1 .. n /\ i + 1 \in 1 .. n /\ 1 < i + 1
    BY <1>1, <1>6
  <2> QED BY <2>1, <1>6 DEF Rising
<1>7. p = 1 => Earlier({f[1]}, Members(n - 1, g))
  BY <1>6 DEF Earlier, Members
<1> QED BY <1>2, <1>3, <1>5, <1>7 DEF Rising

-----------------------------------------------------------------------------
(* What a step does to the groups. *)
QueueFacts == NP!BufferTypeOK /\ NP!WindowConsistent /\ NP!ContentsOK

LEMMA ContentsAgree ==
  /\ NP!Contents = Native!Contents
  /\ (NP!Contents)' = (Native!Contents)'
BY DEF NP!Contents, Native!Contents, NP!SlotAt, Native!SlotAt, NP!SlotAfter,
       Native!SlotAfter

LEMMA StoreGrows ==
  ASSUME QueueFacts, QueueFacts', NEW e \in EventData,
         Native!StoreMIDPEventInVmThread(e), outcome' # "refused"
  PROVE  /\ numEvents \in Nat /\ numEvents' = numEvents + 1
         /\ \A i \in 1 .. numEvents : (Native!Contents)'[i] = Native!Contents[i]
         /\ (Native!Contents)'[numEvents + 1] = e
<1>0. NP!QueueAssumption
  BY DispatchAssumption, NoEventAssumption
     DEF DispatchAssumption, NoEventAssumption, NP!QueueAssumption
<1>1. /\ numEvents # MaxEvents
      /\ events' = [events EXCEPT ![eventIn] = e]
      /\ eventIn' = NP!NextSlot(eventIn) /\ numEvents' = numEvents + 1
      /\ eventOut' = eventOut
  BY DEF Native!StoreMIDPEventInVmThread, Native!NextSlot, NP!NextSlot
<1>2. numEvents \in Nat
  BY DispatchAssumption DEF DispatchAssumption, QueueFacts, NP!BufferTypeOK
<1>3. (NP!Contents)' = Append(NP!Contents, e)
  BY <1>0, <1>1, NP!StoreAppends DEF QueueFacts
<1>4. NP!Contents \in Seq(EventData) /\ Len(NP!Contents) = numEvents
  <2>1. NP!Contents \in [1 .. numEvents -> EventData]
    BY DEF QueueFacts, NP!ContentsOK
  <2>2. NP!Contents \in Seq(EventData) /\ DOMAIN NP!Contents = 1 .. numEvents
    BY <1>2, <2>1, SeqDef
  <2> QED BY <1>2, <2>2, LenProperties
<1>5. /\ \A i \in 1 .. numEvents : (NP!Contents)'[i] = NP!Contents[i]
      /\ (NP!Contents)'[numEvents + 1] = e
  BY <1>3, <1>4, AppendProperties
<1> QED BY <1>1, <1>2, <1>5, ContentsAgree

LEMMA StoreShrinks ==
  ASSUME QueueFacts, QueueFacts', Native!GetPendingMIDPEvent
  PROVE  /\ numEvents \in Nat \ {0} /\ numEvents' = numEvents - 1
         /\ result' = Native!Contents[1] /\ result' \in EventData
         /\ \A i \in 1 .. numEvents - 1 : (Native!Contents)'[i] = Native!Contents[i + 1]
<1>0. NP!QueueAssumption
  BY DispatchAssumption, NoEventAssumption
     DEF DispatchAssumption, NoEventAssumption, NP!QueueAssumption
<1>1. /\ numEvents # 0 /\ result' = events[eventOut]
      /\ events' = [events EXCEPT ![eventOut] = NoEvent]
      /\ eventOut' = NP!NextSlot(eventOut) /\ numEvents' = numEvents - 1
      /\ eventIn' = eventIn
  BY DEF Native!GetPendingMIDPEvent, Native!NextSlot, NP!NextSlot
<1>2. numEvents \in Nat \ {0}
  BY <1>1, DispatchAssumption DEF DispatchAssumption, QueueFacts, NP!BufferTypeOK
<1>3. /\ NP!Contents # <<>>
      /\ events[eventOut] = Head(NP!Contents)
      /\ (NP!Contents)' = Tail(NP!Contents)
  BY <1>0, <1>1, NP!TakeIsHead DEF QueueFacts
<1>4. /\ NP!Contents \in [1 .. numEvents -> EventData]
      /\ NP!Contents \in Seq(EventData) /\ Len(NP!Contents) = numEvents
  <2>1. NP!Contents \in [1 .. numEvents -> EventData]
    BY DEF QueueFacts, NP!ContentsOK
  <2>2. NP!Contents \in Seq(EventData) /\ DOMAIN NP!Contents = 1 .. numEvents
    BY <1>2, <2>1, SeqDef
  <2> QED BY <1>2, <2>1, <2>2, LenProperties
<1>5. /\ Head(NP!Contents) = NP!Contents[1] /\ NP!Contents[1] \in EventData
      /\ \A i \in 1 .. numEvents - 1 : (NP!Contents)'[i] = NP!Contents[i + 1]
  BY <1>2, <1>3, <1>4, HeadTailProperties
<1> QED BY <1>1, <1>2, <1>3, <1>5, ContentsAgree

LEMMA SameStore ==
  ASSUME UNCHANGED nativeVars
  PROVE  numEvents' = numEvents /\ Stored' = Stored /\ InStore' = InStore
BY DEF nativeVars, Stored, InStore, Native!Contents, Native!SlotAt, Native!SlotAfter

LEMMA EmptyStore ==
  ASSUME numEvents' = 0
  PROVE  Rising(numEvents, Stored)' /\ InStore' = {}
BY DEF Rising, InStore, Members

LEMMA SameGroups ==
  ASSUME NEW k, NEW q, UNCHANGED content
  PROVE  Idle(k, q)' = Idle(k, q) /\ Waits(k, q)' = Waits(k, q)
BY DEF Idle, Waits

LEMMA SameWaits ==
  ASSUME NEW k, NEW q, \A x \in Members(k, q) : content'[x] = content[x]
  PROVE  Idle(k, q)' = Idle(k, q) /\ Waits(k, q)' = Waits(k, q)
<1>1. \A i \in 1 .. k : content'[q[i]] = content[q[i]]
  BY DEF Members
<1>2. Idle(k, q)' = Idle(k, q)
  BY <1>1 DEF Idle
<1> QED BY <1>2 DEF Waits

LEMMA DoneGrows ==
  ASSUME processed \in Seq(Nat), NEW x \in Nat, processed' = Append(processed, x),
         Rising(Len(processed), processed), Earlier(Done, {x})
  PROVE  /\ processed' \in Seq(Nat) /\ Rising(Len(processed), processed)'
         /\ Done' = Done \cup {x}
<1>1. /\ processed' \in Seq(Nat) /\ Len(processed) \in Nat
      /\ Len(processed') = Len(processed) + 1
      /\ processed'[Len(processed) + 1] = x
      /\ \A i \in 1 .. Len(processed) : processed'[i] = processed[i]
  BY AppendProperties
<1>2. PICK n, f, g : n = Len(processed) /\ f = processed /\ g = processed'
  BY <1>1
<1>3. /\ n \in Nat /\ Rising(n, f) /\ Earlier(Members(n, f), {g[n + 1]})
      /\ \A i \in 1 .. n : g[i] = f[i]
  BY <1>1, <1>2 DEF Done
<1>4. Rising(n + 1, g) /\ Members(n + 1, g) = Members(n, f) \cup {g[n + 1]}
  BY <1>3, RisingGrows
<1> QED BY <1>1, <1>2, <1>4 DEF Done

-----------------------------------------------------------------------------
(* Storing, reading and posting keep the way in order. *)
LEMMA StoreFlows ==
  ASSUME QueueFacts, QueueFacts', NEW k, NEW q, Flow(k, q), NEW e \in EventData,
         e.id = lastId + 1, Native!StoreMIDPEventInVmThread(e), lastId' = lastId + 1,
         UNCHANGED <<content, processed, Now, Held, discarded>>,
         gone' = IF outcome' = "refused" THEN gone \cup {lastId + 1} ELSE gone
  PROVE  Flow(k, q)'
<1>1. /\ processed \in Seq(Nat) /\ lastId \in Nat
      /\ Rising(Len(processed), processed) /\ Rising(k, Idle(k, q))
      /\ Rising(numEvents, Stored)
      /\ Layered(Done, Now, Waits(k, q), Held, InStore, lastId)
      /\ 1 .. lastId \subseteq Done \cup Now \cup Waits(k, q) \cup Held \cup InStore
                                \cup gone \cup discarded
  BY DEF Flow
<1>2. /\ Done' = Done /\ Idle(k, q)' = Idle(k, q) /\ Waits(k, q)' = Waits(k, q)
  BY SameGroups DEF Done
<1>3. 1 .. lastId' \subseteq 1 .. lastId \cup {lastId + 1} /\ lastId' \in Nat
  BY <1>1
<1>4. CASE outcome' = "refused"
  <2>1. numEvents' = numEvents /\ Stored' = Stored /\ InStore' = InStore
    BY <1>4 DEF Native!StoreMIDPEventInVmThread, Native!bufferVars, Stored, InStore,
       Native!Contents, Native!SlotAt, Native!SlotAfter
  <2>2. lastId <= lastId'
    BY <1>1
  <2>3. Layered(Done, Now, Waits(k, q), Held, InStore, lastId')
    <3> HIDE DEF Done, Now, Waits, Held, InStore
    <3> QED BY <1>1, <1>3, <2>2, LayersShrink
  <2> HIDE DEF Done, Now, Waits, Held, InStore, Idle, Stored
  <2> QED BY <1>1, <1>2, <1>3, <1>4, <2>1, <2>3 DEF Flow
<1>5. CASE outcome' # "refused"
  <2>1. /\ numEvents \in Nat /\ numEvents' = numEvents + 1
        /\ \A i \in 1 .. numEvents : (Native!Contents)'[i] = Native!Contents[i]
        /\ (Native!Contents)'[numEvents + 1] = e
    BY <1>5, StoreGrows
  <2>2. \A i \in 1 .. numEvents' : Stored'[i] = (Native!Contents)'[i].id
    BY DEF Stored
  <2>3. \A i \in 1 .. numEvents : Stored[i] = Native!Contents[i].id
    BY DEF Stored
  <2>4. \A i \in 1 .. numEvents : i \in 1 .. numEvents'
    BY <2>1
  <2>5. \A i \in 1 .. numEvents : Stored'[i] = Stored[i]
    BY <2>1, <2>2, <2>3, <2>4
  <2>6. Stored'[numEvents + 1] = lastId + 1
    <3>1. numEvents + 1 \in 1 .. numEvents'
      BY <2>1
    <3> QED BY <2>1, <2>2, <3>1
  <2>7. Earlier(Members(numEvents, Stored), {lastId + 1})
    <3>1. \A a \in InStore \cap NativeId : a <= lastId /\ a \in Nat
      BY <1>1 DEF Layered, NativeId
    <3>2. \A a \in InStore \cap NativeId : a < lastId + 1
      BY <1>1, <3>1
    <3> QED BY <3>2 DEF Earlier, InStore
  <2>8. PICK n, f, g : n \in Nat /\ n = numEvents /\ f = Stored /\ g = Stored'
    BY <2>1
  <2>9. Rising(n + 1, g) /\ Members(n + 1, g) = Members(n, f) \cup {g[n + 1]}
    BY <1>1, <2>5, <2>6, <2>7, <2>8, RisingGrows
  <2>10. Rising(numEvents, Stored)' /\ InStore' = InStore \cup {lastId + 1}
    BY <2>1, <2>6, <2>8, <2>9 DEF InStore
  <2>11. Layered(Done, Now, Waits(k, q), Held, InStore \cup {lastId + 1}, lastId + 1)
    BY <1>1, LayersGrow
  <2> HIDE DEF Done, Now, Waits, Held, InStore, Idle, Stored
  <2> QED BY <1>1, <1>2, <1>3, <1>5, <2>10, <2>11 DEF Flow
<1> QED BY <1>4, <1>5

(* What is read was the first in the native queue. *)
LEMMA ReadShrinks ==
  ASSUME QueueFacts, QueueFacts', Native!GetPendingMIDPEvent, Rising(numEvents, Stored)
  PROVE  /\ result' \in EventData /\ result'.id \in InStore
         /\ Rising(numEvents, Stored)' /\ InStore' \subseteq InStore
         /\ InStore = InStore' \cup {result'.id}
         /\ Earlier({result'.id}, InStore')
<1>1. /\ numEvents \in Nat \ {0} /\ numEvents' = numEvents - 1
      /\ result' = Native!Contents[1] /\ result' \in EventData
      /\ \A i \in 1 .. numEvents - 1 : (Native!Contents)'[i] = Native!Contents[i + 1]
  BY StoreShrinks
<1>2. \A i \in 1 .. numEvents' : Stored'[i] = (Native!Contents)'[i].id
  BY DEF Stored
<1>3. \A i \in 1 .. numEvents : Stored[i] = Native!Contents[i].id
  BY DEF Stored
<1>4. \A i \in 1 .. numEvents - 1 : i \in 1 .. numEvents' /\ i + 1 \in 1 .. numEvents
  BY <1>1
<1>5. 1 \in 1 .. numEvents /\ \A i \in 1 .. numEvents - 1 : ~(i < 1)
  BY <1>1
<1>6. Stored[1] = result'.id
  BY <1>1, <1>3, <1>5
<1>7. \A i \in 1 .. numEvents - 1 : Stored'[i] = IF i < 1 THEN Stored[i] ELSE Stored[i + 1]
  BY <1>1, <1>2, <1>3, <1>4, <1>5
<1>8. PICK n, f, g : n \in Nat \ {0} /\ n = numEvents /\ f = Stored /\ g = Stored'
  BY <1>1
<1>9. PICK p \in 1 .. n : p = 1
  BY <1>5, <1>8
<1>10. /\ Rising(n, f) /\ n \in Nat
       /\ \A i \in 1 .. n - 1 : g[i] = IF i < p THEN f[i] ELSE f[i + 1]
  BY <1>7, <1>8, <1>9
<1>11. /\ Rising(n - 1, g) /\ Members(n - 1, g) \subseteq Members(n, f)
       /\ Members(n, f) = Members(n - 1, g) \cup {f[1]}
       /\ Earlier({f[1]}, Members(n - 1, g))
  <2>1. /\ Rising(n - 1, g) /\ Members(n - 1, g) \subseteq Members(n, f)
        /\ Members(n, f) = Members(n - 1, g) \cup {f[p]}
        /\ p = 1 => Earlier({f[1]}, Members(n - 1, g))
    BY <1>10, RisingLoses
  <2> QED BY <1>9, <2>1
<1>12. n - 1 = numEvents' /\ InStore = Members(n, f) /\ InStore' = Members(n - 1, g)
  BY <1>1, <1>8 DEF InStore
<1> HIDE DEF InStore
<1> QED BY <1>1, <1>6, <1>8, <1>11, <1>12

(* post puts the event at the end of the Java queue or drops it. *)
LEMMA PostFlows ==
  ASSUME NEW k, NEW q, Listed(k, q), Marks(k, q), NEW o \in Obj, o \notin Members(k, q),
         NEW e \in EventData, Post(o, e), Rising(k, Idle(k, q)),
         Earlier(Waits(k, q), {e.id})
  PROVE  \E n \in Nat : \E r \in [1 .. n -> Obj] :
           /\ Listed(n, r)' /\ Rising(n, Idle(n, r))'
           /\ \/ Waits(n, r)' = Waits(k, q) \cup {e.id} /\ gone' = gone
              \/ Waits(n, r)' = Waits(k, q) /\ gone' = gone \cup {e.id}
<1>1. k \in Nat /\ q \in [1 .. k -> Obj] /\ \A i, j \in 1 .. k : q[i] = q[j] => i = j
  BY DEF Listed
<1>2. CASE Vetoed(e)
  <2>1. /\ content' = [content EXCEPT ![o] = Blank] /\ gone' = gone \cup {e.id}
        /\ UNCHANGED <<next, nextEvent, lastEvent>>
    BY <1>2 DEF Post, listVars
  <2>2. Listed(k, q)'
    BY <2>1, ListStays
  <2>3. \A x \in Members(k, q) : content'[x] = content[x]
    BY <1>1, <2>1 DEF Marks, Members
  <2>4. Idle(k, q)' = Idle(k, q) /\ Waits(k, q)' = Waits(k, q)
    BY <2>3, SameWaits
  <2> HIDE DEF Idle, Waits
  <2> QED BY <1>1, <2>1, <2>2, <2>4
<1>3. CASE ~Vetoed(e)
  <2>1. Link(o, e) /\ content' = [content EXCEPT ![o] = e] /\ gone' = gone
    BY <1>3 DEF Post
  <2>2. PICK n \in Nat : n = k + 1
    BY <1>1
  <2>3. /\ Added(k, q, o) \in [1 .. n -> Obj] /\ Added(k, q, o)[n] = o
        /\ \A i \in 1 .. k : Added(k, q, o)[i] = q[i]
    BY <1>1, <2>2, AddedMembers
  <2>4. PICK r \in [1 .. n -> Obj] : r = Added(k, q, o)
    BY <2>3
  <2>5. Listed(n, r)'
    BY <2>1, <2>2, <2>4, LinkAdds
  <2>6. \A x \in Obj : content'[x] = IF x = o THEN e ELSE content[x]
    BY <2>1 DEF Marks
  <2>7. \A i \in 1 .. k : q[i] \in Obj /\ q[i] # o /\ i \in 1 .. n
    BY <1>1, <2>2 DEF Members
  <2>8. /\ \A i \in 1 .. n : Idle(n, r)'[i] = content'[r[i]].id
        /\ \A i \in 1 .. k : Idle(k, q)[i] = content[q[i]].id
    BY DEF Idle
  <2>9. \A i \in 1 .. k : Idle(n, r)'[i] = Idle(k, q)[i]
    BY <2>3, <2>4, <2>6, <2>7, <2>8
  <2>10. Idle(n, r)'[n] = e.id
    BY <1>1, <2>2, <2>3, <2>4, <2>6, <2>8
  <2>11. PICK f, g : f = Idle(k, q) /\ g = Idle(n, r)'
    OBVIOUS
  <2>12. Earlier(Members(k, f), {g[k + 1]}) /\ \A i \in 1 .. k : g[i] = f[i]
    BY <2>2, <2>9, <2>10, <2>11 DEF Waits
  <2>13. k \in Nat /\ Rising(k, f)
    BY <1>1, <2>11
  <2>14. Rising(k + 1, g) /\ Members(k + 1, g) = Members(k, f) \cup {g[k + 1]}
    BY <2>12, <2>13, RisingGrows
  <2>15. Rising(n, Idle(n, r))' /\ Waits(n, r)' = Waits(k, q) \cup {e.id}
    BY <2>2, <2>10, <2>11, <2>14 DEF Waits
  <2> HIDE DEF Idle, Waits
  <2> QED BY <2>1, <2>5, <2>15
<1> QED BY <1>2, <1>3

(* A step that changes the fields of object o at most. *)
Untouched(o) == \A x \in Obj : x # o => content'[x] = content[x]

LEMMA UnlinkFlows ==
  ASSUME NEW k, NEW q, Listed(k, q), Rising(k, Idle(k, q)), NEW p \in 1 .. k,
         NEW n \in Nat, n = k - 1, NEW r, r = Without(k, q, p),
         Untouched(q[p])
  PROVE  /\ Rising(n, Idle(n, r))' /\ Waits(n, r)' \subseteq Waits(k, q)
         /\ Waits(k, q) = Waits(n, r)' \cup {content[q[p]].id}
         /\ p = 1 => Earlier({content[q[p]].id}, Waits(n, r)')
<1>1. k \in Nat /\ q \in [1 .. k -> Obj] /\ \A i, j \in 1 .. k : q[i] = q[j] => i = j
  BY DEF Listed
<1>2. \A i \in 1 .. n : r[i] = IF i < p THEN q[i] ELSE q[i + 1]
  BY <1>1 DEF Without
<1>3. /\ \A i \in 1 .. n : Idle(n, r)'[i] = content'[r[i]].id
      /\ \A i \in 1 .. k : Idle(k, q)[i] = content[q[i]].id
  BY DEF Idle
<1>4. \A i \in 1 .. n : /\ i \in 1 .. k /\ i + 1 \in 1 .. k
                        /\ i < p => i # p
                        /\ ~(i < p) => i + 1 # p
  BY <1>1
<1>5. \A i \in 1 .. n : Idle(n, r)'[i] = IF i < p THEN Idle(k, q)[i] ELSE Idle(k, q)[i + 1]
  <2> TAKE i \in 1 .. n
  <2>1. PICK j \in 1 .. k : j = (IF i < p THEN i ELSE i + 1) /\ j # p
    BY <1>4
  <2>2. r[i] = q[j] /\ q[j] \in Obj /\ q[j] # q[p]
    BY <1>1, <1>2, <2>1
  <2>3. Idle(n, r)'[i] = Idle(k, q)[j]
    BY <1>3, <2>2 DEF Untouched
  <2> QED BY <2>1, <2>3
<1>6. PICK f, g : f = Idle(k, q) /\ g = Idle(n, r)'
  OBVIOUS
<1>7. \A i \in 1 .. k - 1 : g[i] = IF i < p THEN f[i] ELSE f[i + 1]
  BY <1>5, <1>6
<1>8. /\ Rising(k - 1, g) /\ Members(k - 1, g) \subseteq Members(k, f)
      /\ Members(k, f) = Members(k - 1, g) \cup {f[p]}
      /\ p = 1 => Earlier({f[1]}, Members(k - 1, g))
  <2>1. Rising(k, f)
    BY <1>6
  <2> QED BY <1>1, <1>7, <2>1, RisingLoses
<1>9. f[p] = content[q[p]].id
  BY <1>3, <1>6
<1>10. Waits(n, r)' = Members(k - 1, g) /\ Waits(k, q) = Members(k, f)
  BY <1>6 DEF Waits
<1>11. Rising(n, Idle(n, r))'
  BY <1>6, <1>8
<1> QED BY <1>8, <1>9, <1>10, <1>11

-----------------------------------------------------------------------------
LEMMA ListUnique ==
  ASSUME NEW k, NEW q, Listed(k, q), NEW n, NEW r, Listed(n, r)
  PROVE  k = n /\ q = r
<1>1. q = JavaQueue /\ r = JavaQueue
  BY QueueIsList
<1>2. k \in Nat /\ n \in Nat /\ DOMAIN q = 1 .. k /\ DOMAIN r = 1 .. n
  BY DEF Listed
<1>3. 1 .. k = 1 .. n
  BY <1>1, <1>2
<1>4. k = n
  BY <1>2, <1>3
<1> QED BY <1>1, <1>4

LEMMA GetFlowOut ==
  ASSUME IInv, FlowInv
  PROVE  \E k \in Nat : \E q \in [1 .. k -> Obj] :
           /\ State(k, q) /\ Flow(k, q) /\ Members(k, q) \subseteq Obj
           /\ Null \notin Obj /\ Null \notin Members(k, q)
<1>1. PICK k \in Nat : \E q \in [1 .. k -> Obj] :
           /\ State(k, q) /\ Members(k, q) \subseteq Obj
           /\ Null \notin Obj /\ Null \notin Members(k, q)
  BY GetStateOut
<1>2. PICK q \in [1 .. k -> Obj] :
           /\ State(k, q) /\ Members(k, q) \subseteq Obj
           /\ Null \notin Obj /\ Null \notin Members(k, q)
  BY <1>1
<1>3. PICK n \in Nat : \E r \in [1 .. n -> Obj] : Listed(n, r) /\ Flow(n, r)
  BY DEF FlowInv
<1>4. PICK r \in [1 .. n -> Obj] : Listed(n, r) /\ Flow(n, r)
  BY <1>3
<1>5. k = n /\ q = r
  BY <1>2, <1>4, ListUnique DEF State
<1> QED BY <1>2, <1>4, <1>5

LEMMA FlowAfter ==
  ASSUME NEW k, NEW q, Listed(k, q)', Flow(k, q)'
  PROVE  FlowInv'
<1>1. k \in Nat /\ q \in [1 .. k -> Obj]
  BY DEF Listed
<1> QED BY <1>1 DEF FlowInv

(* Steps that move no event, and steps that empty the native queue. *)
LEMMA QuietFlow ==
  ASSUME FlowInv, Now' = Now, Held' = Held,
         UNCHANGED <<next, nextEvent, lastEvent, content, processed, lastId, gone, discarded,
                     nativeVars>>
  PROVE  FlowInv'
<1>1. PICK k \in Nat : \E q \in [1 .. k -> Obj] : Listed(k, q) /\ Flow(k, q)
  BY DEF FlowInv
<1>2. PICK q \in [1 .. k -> Obj] : Listed(k, q) /\ Flow(k, q)
  BY <1>1
<1>3. Listed(k, q)'
  BY <1>2, ListStays
<1>4. /\ numEvents' = numEvents /\ Stored' = Stored /\ InStore' = InStore
      /\ Idle(k, q)' = Idle(k, q) /\ Waits(k, q)' = Waits(k, q) /\ Done' = Done
  BY SameStore, SameGroups DEF Done
<1>5. Flow(k, q)'
  BY <1>2, <1>4 DEF Flow
<1> QED BY <1>3, <1>5, FlowAfter

LEMMA EmptiedFlow ==
  ASSUME FlowInv, Now' = Now, Held' = Held, numEvents' = 0,
         UNCHANGED <<next, nextEvent, lastEvent, content, processed, lastId>>,
         InStore \cup gone \cup discarded \subseteq gone' \cup discarded'
  PROVE  FlowInv'
<1>1. PICK k \in Nat : \E q \in [1 .. k -> Obj] : Listed(k, q) /\ Flow(k, q)
  BY DEF FlowInv
<1>2. PICK q \in [1 .. k -> Obj] : Listed(k, q) /\ Flow(k, q)
  BY <1>1
<1>3. Listed(k, q)'
  BY <1>2, ListStays
<1>4. /\ Rising(numEvents, Stored)' /\ InStore' = {}
      /\ Idle(k, q)' = Idle(k, q) /\ Waits(k, q)' = Waits(k, q) /\ Done' = Done
  BY EmptyStore, SameGroups DEF Done
<1>5. Layered(Done, Now, Waits(k, q), Held, {}, lastId)
  <2>1. lastId \in Nat /\ lastId <= lastId /\ Layered(Done, Now, Waits(k, q), Held, InStore, lastId)
    BY <1>2 DEF Flow
  <2> HIDE DEF Done, Now, Waits, Held, InStore
  <2> QED BY <2>1, LayersShrink
<1>6. Flow(k, q)'
  <2> HIDE DEF Done, Now, Waits, Held, InStore, Idle, Stored
  <2> QED BY <1>2, <1>4, <1>5 DEF Flow
<1> QED BY <1>3, <1>6, FlowAfter

-----------------------------------------------------------------------------
(* Every step keeps the way in order. *)
LEMMA QuietSteps ==
  ASSUME FlowInv, MonitorGets \/ DispatcherStarts \/ DispatcherWaits \/ ShutdownChecks
                  \/ UNCHANGED vars
  PROVE  FlowInv'
<1>1. UNCHANGED <<next, nextEvent, lastEvent, content, processed, lastId, gone, discarded,
                  nativeVars, current>>
  BY DEF MonitorGets, DispatcherStarts, DispatcherWaits, ShutdownChecks, vars, listVars,
     dispVars, shutVars, countVars
<1>2. disp' = disp \/ (disp # "process" /\ disp' # "process")
  BY DEF MonitorGets, DispatcherStarts, DispatcherWaits, ShutdownChecks, vars, dispVars
<1>3. (mon' = mon /\ hand' = hand) \/ (mon # "post" /\ mon' # "post")
  BY DEF MonitorGets, DispatcherStarts, DispatcherWaits, ShutdownChecks, vars, monVars
<1>4. Now' = Now /\ Held' = Held
  BY <1>1, <1>2, <1>3 DEF Now, Held
<1> QED BY <1>1, <1>4, QuietFlow

LEMMA EmptyingSteps ==
  ASSUME FlowInv, Start \/ ShutdownResets
  PROVE  FlowInv'
<1>1. /\ UNCHANGED <<next, nextEvent, lastEvent, content, processed, lastId, current, mon, hand>>
      /\ numEvents' = 0
      /\ gone' \cup discarded' = gone \cup discarded \cup NativeIds
  BY DEF Start, ShutdownResets, Native!StartEventQueue, Native!ResetEventQueue,
     Native!DrainBuffer, listVars, monVars, dispVars, shutVars, countVars
<1>2. disp' = disp \/ (disp # "process" /\ disp' # "process")
  BY DEF Start, ShutdownResets, dispVars
<1>3. Now' = Now /\ Held' = Held
  BY <1>1, <1>2 DEF Now, Held
<1>4. InStore = NativeIds
  BY DEF InStore, Stored, NativeIds, Members
<1> QED BY <1>1, <1>3, <1>4, EmptiedFlow

LEMMA StoringSteps ==
  ASSUME IInv, Startup, FlowInv, QueueFacts, QueueFacts',
         ShutdownSends \/ \E t \in Type : VMStores(t)
  PROVE  FlowInv'
<1>1. /\ UNCHANGED <<listVars, content, monVars, dispVars, discarded>>
      /\ lastId' = lastId + 1
      /\ gone' = IF outcome' = "refused" THEN gone \cup {lastId + 1} ELSE gone
  BY DEF ShutdownSends, VMStores, shutVars
<1>2. PICK e \in EventData : e.id = lastId + 1 /\ Native!StoreMIDPEventInVmThread(e)
  <2>1. lastId \in Nat /\ (lastId < MaxStores \/ shut = "idle" => lastId + 1 \in NativeId)
    BY DispatchAssumption DEF DispatchAssumption, Startup, NativeId
  <2>2. CASE ShutdownSends
    <3>1. [type |-> Shutdown, id |-> lastId + 1] \in EventData
      BY <2>1, <2>2 DEF ShutdownSends, EventData
    <3> QED BY <2>2, <3>1 DEF ShutdownSends
  <2>3. ASSUME NEW t \in Type, VMStores(t)
        PROVE  \E e \in EventData : e.id = lastId + 1 /\ Native!StoreMIDPEventInVmThread(e)
    <3>1. [type |-> t, id |-> lastId + 1] \in EventData
      BY <2>1, <2>3 DEF VMStores, EventData
    <3> QED BY <2>3, <3>1 DEF VMStores
  <2> QED BY <2>2, <2>3
<1>3. PICK k \in Nat : \E q \in [1 .. k -> Obj] : Listed(k, q) /\ Flow(k, q)
  BY DEF FlowInv
<1>4. PICK q \in [1 .. k -> Obj] : Listed(k, q) /\ Flow(k, q)
  BY <1>3
<1>5. Listed(k, q)'
  BY <1>1, <1>4, ListStays DEF listVars
<1>6. Now' = Now /\ Held' = Held /\ content' = content /\ processed' = processed
  BY <1>1 DEF Now, Held, monVars, dispVars
<1>7. Flow(k, q)'
  <2> HIDE DEF Now, Held, Flow
  <2> QED BY <1>1, <1>2, <1>4, <1>6, StoreFlows
<1> QED BY <1>5, <1>7, FlowAfter

LEMMA WaitFlows ==
  ASSUME IInv, FlowInv, QueueFacts, QueueFacts', MonitorWaits
  PROVE  FlowInv'
<1> USE DEF listVars, dispVars, shutVars, countVars
<1>1. /\ mon = "wait" /\ Native!WaitForNativeEvent
      /\ UNCHANGED <<listVars, hand, disp, current, processed, lastId, gone, discarded>>
  BY DEF MonitorWaits
<1>2. CASE Native!GetPendingMIDPEvent
  <2>1. content' = [content EXCEPT ![hand] = result'] /\ mon' = "post"
    BY <1>2 DEF MonitorWaits, Native!GetPendingMIDPEvent
  <2>2. PICK k \in Nat : \E q \in [1 .. k -> Obj] :
           /\ State(k, q) /\ Flow(k, q) /\ Members(k, q) \subseteq Obj
           /\ Null \notin Obj /\ Null \notin Members(k, q)
    BY GetFlowOut
  <2>3. PICK q \in [1 .. k -> Obj] :
           /\ State(k, q) /\ Flow(k, q) /\ Members(k, q) \subseteq Obj
           /\ Null \notin Obj /\ Null \notin Members(k, q)
    BY <2>2
  <2>4. hand \in Obj /\ hand \notin Members(k, q) /\ hand # current
    BY <1>1, <2>3 DEF IInv, Basics, State, Apart
  <2>5. /\ content'[hand] = result' /\ \A x \in Obj : x # hand => content'[x] = content[x]
    BY <2>1, <2>3, <2>4 DEF State, Marks
  <2>6. Listed(k, q)'
    BY <1>1, <2>3, ListStays DEF State
  <2>7. Idle(k, q)' = Idle(k, q) /\ Waits(k, q)' = Waits(k, q)
    BY <2>3, <2>4, <2>5, SameWaits
  <2>8. /\ result' \in EventData /\ result'.id \in InStore
        /\ Rising(numEvents, Stored)' /\ InStore' \subseteq InStore
        /\ InStore = InStore' \cup {result'.id}
        /\ Earlier({result'.id}, InStore')
    BY <1>2, <2>3, ReadShrinks DEF Flow
  <2>9. Held = {} /\ Held' = {result'.id} /\ Done' = Done
    BY <1>1, <2>1, <2>5 DEF Held, Done
  <2>10. Now' = Now
    <3>1. disp = "process" => current \in Obj
      BY DEF IInv, Basics
    <3> QED BY <1>1, <2>4, <2>5, <3>1 DEF Now
  <2>11. Layered(Done, Now, Waits(k, q), {}, InStore, lastId)
    BY <2>3, <2>9 DEF Flow
  <2>12. PICK x, M : x \in InStore /\ x = result'.id /\ M = InStore'
    BY <2>8
  <2>13. Layered(Done, Now, Waits(k, q), {x}, M, lastId)
    <3>1. M \subseteq InStore /\ Earlier({x}, M)
      BY <2>8, <2>12
    <3> HIDE DEF Done, Now, Waits, InStore
    <3> QED BY <2>11, <2>12, <3>1, LayersRead
  <2>14. Flow(k, q)'
    <3> HIDE DEF Done, Now, Waits, Held, InStore, Idle, Stored
    <3> QED BY <1>1, <2>3, <2>7, <2>8, <2>9, <2>10, <2>12, <2>13 DEF Flow
  <2> QED BY <2>6, <2>14, FlowAfter
<1>3. CASE ~Native!GetPendingMIDPEvent
  <2>1. outcome' = "empty" /\ UNCHANGED <<events, numEvents, eventOut>>
    BY <1>1, <1>3 DEF Native!WaitForNativeEvent, Native!bufferVars
  <2>2. content' = content /\ mon' = mon
    BY <2>1 DEF MonitorWaits
  <2>3. Now' = Now /\ Held' = Held
    BY <1>1, <2>2 DEF Now, Held
  <2>4. numEvents = 0
    BY <1>1, <1>3 DEF Native!WaitForNativeEvent
  <2>5. InStore = {}
    BY <2>4 DEF InStore, Members
  <2> QED BY <1>1, <2>1, <2>2, <2>3, <2>4, <2>5, EmptiedFlow
<1> QED BY <1>2, <1>3

(* The end of every posting step: the list after it and the one id that    *)
(* was put behind it or was dropped.                                       *)
LEMMA PostedFlow ==
  ASSUME NEW k, NEW q, Flow(k, q), NEW n, NEW r, Listed(n, r)', Rising(n, Idle(n, r))',
         UNCHANGED <<processed, Now, lastId, discarded>>, NEW x,
         \/ Waits(n, r)' = Waits(k, q) \cup {x} /\ gone' = gone
         \/ Waits(n, r)' = Waits(k, q) /\ gone' = gone \cup {x},
         Held' = {}, Rising(numEvents, Stored)',
         Held \cup InStore \subseteq InStore' \cup {x},
         Layered(Done, Now, Waits(k, q) \cup {x}, {}, InStore', lastId)
  PROVE  FlowInv'
<1>1. Done' = Done
  BY DEF Done
<1>2. lastId \in Nat /\ lastId <= lastId
  BY DEF Flow
<1>3. PICK M : M = InStore'
  OBVIOUS
<1>4. Layered(Done, Now, Waits(k, q), {}, M, lastId)
  <2> HIDE DEF Done, Now, Waits
  <2> QED BY <1>2, <1>3, LayersShrink
<1>5. Layered(Done, Now, Waits(n, r)', {}, M, lastId)
  <2> HIDE DEF Done, Now, Waits
  <2> QED BY <1>3, <1>4
<1>6. Flow(n, r)'
  <2> HIDE DEF Done, Now, Waits, Held, InStore, Idle, Stored
  <2> QED BY <1>1, <1>3, <1>5 DEF Flow
<1> QED BY <1>6, FlowAfter

LEMMA NowStays ==
  ASSUME Basics, disp' = disp \/ (disp # "process" /\ disp' # "process"),
         current' = current, NEW o, o # current, \A x \in Obj : x # o => content'[x] = content[x]
  PROVE  Now' = Now
<1>1. disp = "process" => current \in Obj
  BY DEF Basics
<1> QED BY <1>1 DEF Now

LEMMA PostsFlow == IInv /\ FlowInv /\ MonitorPosts => FlowInv'
<1> SUFFICES ASSUME IInv, FlowInv, MonitorPosts PROVE FlowInv'
  OBVIOUS
<1> USE DEF countVars
<1>1. /\ mon = "post" /\ Post(hand, content[hand]) /\ mon' \in {"drain", "get"}
      /\ UNCHANGED <<nativeVars, current, processed, lastId, discarded>>
  BY DEF MonitorPosts
<1>2. PICK k \in Nat : \E q \in [1 .. k -> Obj] :
         /\ State(k, q) /\ Flow(k, q) /\ Members(k, q) \subseteq Obj
         /\ Null \notin Obj /\ Null \notin Members(k, q)
  BY GetFlowOut
<1>3. PICK q \in [1 .. k -> Obj] :
         /\ State(k, q) /\ Flow(k, q) /\ Members(k, q) \subseteq Obj
         /\ Null \notin Obj /\ Null \notin Members(k, q)
  BY <1>2
<1>4. /\ hand \in Obj /\ hand \notin Members(k, q) /\ hand # current
      /\ content[hand] \in EventData
  BY <1>1, <1>3 DEF IInv, Basics, State, Apart
<1>5. PICK o \in Obj, e \in EventData : o = hand /\ e = content[hand]
  BY <1>4
<1>6. Held = {e.id} /\ Held' = {}
  BY <1>1, <1>5 DEF Held
<1>7. Layered(Done, Now, Waits(k, q), {e.id}, InStore, lastId)
  BY <1>3, <1>6 DEF Flow
<1>8. Earlier(Waits(k, q), {e.id})
  BY <1>7 DEF Layered, Earlier
<1>9. PICK n \in Nat : \E r \in [1 .. n -> Obj] :
           /\ Listed(n, r)' /\ Rising(n, Idle(n, r))'
           /\ \/ Waits(n, r)' = Waits(k, q) \cup {e.id} /\ gone' = gone
              \/ Waits(n, r)' = Waits(k, q) /\ gone' = gone \cup {e.id}
  <2>1. Rising(k, Idle(k, q)) /\ Listed(k, q) /\ Marks(k, q)
    BY <1>3 DEF Flow, State
  <2>2. Post(o, e) /\ o \notin Members(k, q)
    BY <1>1, <1>4, <1>5
  <2> HIDE DEF Waits, Idle
  <2> QED BY <1>8, <2>1, <2>2, PostFlows
<1>10. PICK r \in [1 .. n -> Obj] :
           /\ Listed(n, r)' /\ Rising(n, Idle(n, r))'
           /\ \/ Waits(n, r)' = Waits(k, q) \cup {e.id} /\ gone' = gone
              \/ Waits(n, r)' = Waits(k, q) /\ gone' = gone \cup {e.id}
  BY <1>9
<1>11. /\ disp' = disp \/ (disp = "waiting" /\ disp' = "take")
       /\ \A x \in Obj : x # hand => content'[x] = content[x]
  BY <1>1, <1>3, <1>4, PostTouches DEF State, Marks
<1>12. Now' = Now
  BY <1>1, <1>4, <1>11, NowStays DEF IInv
<1>13. numEvents' = numEvents /\ Stored' = Stored /\ InStore' = InStore
  BY <1>1, SameStore
<1>14. Rising(numEvents, Stored)'
  BY <1>3, <1>13 DEF Flow
<1>15. Layered(Done, Now, Waits(k, q) \cup {e.id}, {}, InStore', lastId)
  BY <1>7, <1>13, LayersPost
<1>16. Held \cup InStore \subseteq InStore' \cup {e.id}
  BY <1>6, <1>13
<1> HIDE DEF Done, Now, Waits, Held, InStore, Idle, Stored
<1> QED BY <1>1, <1>3, <1>6, <1>10, <1>12, <1>14, <1>15, <1>16, PostedFlow

LEMMA JavaPostFlows ==
  ASSUME IInv, FlowInv, NEW t \in Type, JavaPosts(t)
  PROVE  FlowInv'
<1> USE DEF monVars
<1> DEFINE d == [type |-> t, id |-> MaxStores + 2 + posts]
<1>1. /\ posts < MaxPosts /\ Post(NewObj, d)
      /\ UNCHANGED <<nativeVars, mon, hand, current, processed, lastId, discarded>>
  BY DEF JavaPosts
<1>2. PICK k \in Nat : \E q \in [1 .. k -> Obj] :
         /\ State(k, q) /\ Flow(k, q) /\ Members(k, q) \subseteq Obj
         /\ Null \notin Obj /\ Null \notin Members(k, q)
  BY GetFlowOut
<1>3. PICK q \in [1 .. k -> Obj] :
         /\ State(k, q) /\ Flow(k, q) /\ Members(k, q) \subseteq Obj
         /\ Null \notin Obj /\ Null \notin Members(k, q)
  BY <1>2
<1>4. NewObj \in Obj \ (Members(k, q) \cup {hand, current} \cup Ids(pool))
  BY <1>1, <1>3, ObjectsSuffice DEF IInv
<1>5. d \in EventData /\ d.id \notin NativeId
  <2>1. posts \in Nat /\ MaxStores \in Nat /\ MaxPosts \in Nat
    BY <1>3, DispatchAssumption DEF DispatchAssumption, State, Counts
  <2>2. MaxStores + 2 + posts \in JavaId /\ MaxStores + 2 + posts \notin NativeId
    BY <1>1, <2>1 DEF JavaId, NativeId
  <2> QED BY <2>2 DEF EventData
<1>6. PICK e \in EventData : e = d
  BY <1>5
<1>7. PICK o \in Obj : o = NewObj
  BY <1>4
<1>8. /\ Post(o, e) /\ o \notin Members(k, q) /\ o # hand /\ o # current
      /\ e.id \notin NativeId
  BY <1>1, <1>4, <1>5, <1>6, <1>7
<1> HIDE DEF d
<1>9. Earlier(Waits(k, q), {e.id})
  BY <1>8 DEF Earlier
<1>10. PICK n \in Nat : \E r \in [1 .. n -> Obj] :
           /\ Listed(n, r)' /\ Rising(n, Idle(n, r))'
           /\ \/ Waits(n, r)' = Waits(k, q) \cup {e.id} /\ gone' = gone
              \/ Waits(n, r)' = Waits(k, q) /\ gone' = gone \cup {e.id}
  <2>1. Rising(k, Idle(k, q)) /\ Listed(k, q) /\ Marks(k, q)
    BY <1>3 DEF Flow, State
  <2> HIDE DEF Waits, Idle
  <2> QED BY <1>8, <1>9, <2>1, PostFlows
<1>11. PICK r \in [1 .. n -> Obj] :
           /\ Listed(n, r)' /\ Rising(n, Idle(n, r))'
           /\ \/ Waits(n, r)' = Waits(k, q) \cup {e.id} /\ gone' = gone
              \/ Waits(n, r)' = Waits(k, q) /\ gone' = gone \cup {e.id}
  BY <1>10
<1>12. /\ disp' = disp \/ (disp = "waiting" /\ disp' = "take")
       /\ \A x \in Obj : x # o => content'[x] = content[x]
  BY <1>3, <1>8, PostTouches DEF State, Marks
<1>13. Now' = Now
  BY <1>1, <1>8, <1>12, NowStays DEF IInv
<1>14. Held' = Held
  <2>1. mon = "post" => hand \in Obj
    BY DEF IInv, Basics
  <2> QED BY <1>1, <1>8, <1>12, <2>1 DEF Held
<1>15. /\ Stored' = Stored /\ InStore' = InStore /\ Done' = Done
       /\ Rising(numEvents, Stored)'
  BY <1>1, <1>3, SameStore DEF Flow, Done
<1>16. Layered(Done, Now, Waits(n, r)', Held, InStore, lastId)
  <2>1. lastId \in Nat /\ lastId <= lastId /\ Layered(Done, Now, Waits(k, q), Held, InStore, lastId)
    BY <1>3 DEF Flow
  <2>2. PICK L : L = Waits(n, r)'
    OBVIOUS
  <2>3. L \cap NativeId \subseteq Waits(k, q)
    BY <1>8, <1>11, <2>2
  <2>4. Layered(Done, Now, L, Held, InStore, lastId)
    <3> HIDE DEF Done, Now, Waits, Held, InStore
    <3> QED BY <2>1, <2>3, LayersShrink
  <2> QED BY <2>2, <2>4
<1>17. Flow(n, r)'
  <2> HIDE DEF Done, Now, Waits, Held, InStore, Idle, Stored
  <2> QED BY <1>1, <1>3, <1>11, <1>13, <1>14, <1>15, <1>16 DEF Flow
<1> QED BY <1>11, <1>17, FlowAfter

LEMMA DrainFlows ==
  ASSUME IInv, FlowInv, QueueFacts, QueueFacts', MonitorDrains
  PROVE  FlowInv'
<1> USE DEF countVars
<1>1. /\ mon = "drain" /\ Native!ReadNativeEvent
      /\ UNCHANGED <<hand, current, processed, lastId, discarded>>
  BY DEF MonitorDrains
<1>2. PICK k \in Nat : \E q \in [1 .. k -> Obj] :
         /\ State(k, q) /\ Flow(k, q) /\ Members(k, q) \subseteq Obj
         /\ Null \notin Obj /\ Null \notin Members(k, q)
  BY GetFlowOut
<1>3. PICK q \in [1 .. k -> Obj] :
         /\ State(k, q) /\ Flow(k, q) /\ Members(k, q) \subseteq Obj
         /\ Null \notin Obj /\ Null \notin Members(k, q)
  BY <1>2
<1>4. hand = Null /\ Held = {}
  BY <1>1 DEF IInv, Basics, Held
<1>5. CASE Native!GetPendingMIDPEvent
  <2>1. Post(PoolTop, result') /\ mon' \in {"drain", "get"}
    BY <1>5 DEF MonitorDrains, Native!GetPendingMIDPEvent
  <2>2. /\ result' \in EventData /\ result'.id \in InStore
        /\ Rising(numEvents, Stored)' /\ InStore' \subseteq InStore
        /\ InStore = InStore' \cup {result'.id}
        /\ Earlier({result'.id}, InStore')
    BY <1>3, <1>5, ReadShrinks DEF Flow
  <2>3. PICK e \in EventData : e = result'
    BY <2>2
  <2>4. PoolTop \in Obj /\ PoolTop \notin Members(k, q) /\ PoolTop # current
    BY <1>3, <1>4, PoolHandsOut DEF IInv
  <2>5. PICK o \in Obj : o = PoolTop
    BY <2>4
  <2>6. Post(o, e) /\ o \notin Members(k, q) /\ o # current
    BY <2>1, <2>3, <2>4, <2>5
  <2>7. Layered(Done, Now, Waits(k, q), {}, InStore, lastId)
    BY <1>3, <1>4 DEF Flow
  <2>8. PICK x, M :
         x \in InStore /\ x = e.id /\ M = InStore' /\ M \subseteq InStore /\ Earlier({x}, M)
    BY <2>2, <2>3
  <2>9. /\ Layered(Done, Now, Waits(k, q) \cup {x}, {}, M, lastId)
        /\ Earlier(Waits(k, q), {x})
    <3>1. Earlier(Waits(k, q), {x})
      BY <2>7, <2>8 DEF Layered, Earlier
    <3> HIDE DEF Done, Now, Waits, InStore
    <3> QED BY <2>7, <2>8, <3>1, LayersRead
  <2>10. PICK n \in Nat : \E r \in [1 .. n -> Obj] :
           /\ Listed(n, r)' /\ Rising(n, Idle(n, r))'
           /\ \/ Waits(n, r)' = Waits(k, q) \cup {x} /\ gone' = gone
              \/ Waits(n, r)' = Waits(k, q) /\ gone' = gone \cup {x}
    <3>1. Rising(k, Idle(k, q)) /\ Listed(k, q) /\ Marks(k, q)
      BY <1>3 DEF Flow, State
    <3>2. Earlier(Waits(k, q), {e.id})
      BY <2>8, <2>9
    <3> HIDE DEF Waits, Idle
    <3> QED BY <2>6, <2>8, <3>1, <3>2, PostFlows
  <2>11. PICK r \in [1 .. n -> Obj] :
           /\ Listed(n, r)' /\ Rising(n, Idle(n, r))'
           /\ \/ Waits(n, r)' = Waits(k, q) \cup {x} /\ gone' = gone
              \/ Waits(n, r)' = Waits(k, q) /\ gone' = gone \cup {x}
    BY <2>10
  <2>12. /\ disp' = disp \/ (disp = "waiting" /\ disp' = "take")
         /\ \A y \in Obj : y # o => content'[y] = content[y]
    BY <1>3, <2>6, PostTouches DEF State, Marks
  <2>13. Now' = Now
    BY <1>1, <2>6, <2>12, NowStays DEF IInv
  <2>14. Held' = {}
    BY <2>1 DEF Held
  <2>15. Held \cup InStore \subseteq InStore' \cup {x}
    BY <1>4, <2>2, <2>3, <2>8
  <2>16. Layered(Done, Now, Waits(k, q) \cup {x}, {}, InStore', lastId)
    BY <2>8, <2>9
  <2> HIDE DEF Done, Now, Waits, Held, InStore, Idle, Stored
  <2> QED BY <1>1, <1>3, <2>2, <2>11, <2>13, <2>14, <2>15, <2>16, PostedFlow
<1>6. CASE ~Native!GetPendingMIDPEvent
  <2>1. outcome' = "empty" /\ numEvents = 0 /\ numEvents' = 0
    BY <1>1, <1>6 DEF Native!ReadNativeEvent, Native!bufferVars
  <2>2. mon' = "get" /\ UNCHANGED <<content, listVars, disp, gone>>
    BY <2>1 DEF MonitorDrains
  <2>3. Now' = Now /\ Held' = Held
    BY <1>1, <2>2 DEF Now, Held
  <2>4. InStore = {}
    BY <2>1 DEF InStore, Members
  <2> QED BY <1>1, <2>1, <2>2, <2>3, <2>4, EmptiedFlow DEF listVars
<1> QED BY <1>5, <1>6

LEMMA RemoveFlows ==
  ASSUME IInv, FlowInv, NEW t \in Type, Remove(t)
  PROVE  FlowInv'
<1> USE DEF monVars, dispVars, shutVars, countVars
<1>1. UNCHANGED <<nativeVars, mon, hand, disp, current, processed, discarded, lastId>>
  BY DEF Remove
<1>2. PICK k \in Nat : \E q \in [1 .. k -> Obj] :
         /\ State(k, q) /\ Flow(k, q) /\ Members(k, q) \subseteq Obj
         /\ Null \notin Obj /\ Null \notin Members(k, q)
  BY GetFlowOut
<1>3. PICK q \in [1 .. k -> Obj] :
         /\ State(k, q) /\ Flow(k, q) /\ Members(k, q) \subseteq Obj
         /\ Null \notin Obj /\ Null \notin Members(k, q)
  BY <1>2
<1>4. PICK p \in 1 .. k :
           /\ content' = [content EXCEPT ![q[p]] = Blank]
           /\ gone' = gone \cup {content[q[p]].id}
           /\ Listed(k - 1, Without(k, q, p))'
  BY <1>3, RemoveUnlinks DEF State
<1>5. PICK n \in Nat : n = k - 1
  BY <1>4
<1>6. PICK r : r = Without(k, q, p)
  OBVIOUS
<1>7. q[p] \in Members(k, q) /\ \A x \in Obj : x # q[p] => content'[x] = content[x]
  BY <1>3, <1>4 DEF State, Marks, Members
<1>8. /\ Rising(n, Idle(n, r))' /\ Waits(n, r)' \subseteq Waits(k, q)
      /\ Waits(k, q) = Waits(n, r)' \cup {content[q[p]].id}
  <2>1. Listed(k, q) /\ Rising(k, Idle(k, q))
    BY <1>3 DEF State, Flow
  <2> HIDE DEF Idle, Waits
  <2>2. Untouched(q[p])
    BY <1>7 DEF Untouched
  <2>3. n = k - 1 /\ r = Without(k, q, p)
    BY <1>5, <1>6
  <2> QED BY <2>1, <2>2, <2>3, UnlinkFlows
<1>9. Now' = Now
  <2>1. q[p] # current
    BY <1>3, <1>7 DEF State, Apart
  <2> QED BY <1>1, <1>7, <2>1, NowStays DEF IInv
<1>10. Held' = Held
  <2>1. mon = "post" => hand \in Obj /\ hand # q[p]
    BY <1>3, <1>7 DEF State, Apart, IInv, Basics
  <2> QED BY <1>1, <1>7, <2>1 DEF Held
<1>11. /\ Stored' = Stored /\ InStore' = InStore /\ Done' = Done
       /\ Rising(numEvents, Stored)'
  BY <1>1, <1>3, SameStore DEF Flow, Done
<1>12. Layered(Done, Now, Waits(n, r)', Held, InStore, lastId)
  <2>1. lastId \in Nat /\ lastId <= lastId /\ Layered(Done, Now, Waits(k, q), Held, InStore, lastId)
    BY <1>3 DEF Flow
  <2>2. PICK L : L = Waits(n, r)' /\ L \subseteq Waits(k, q)
    BY <1>8
  <2>3. Layered(Done, Now, L, Held, InStore, lastId)
    <3> HIDE DEF Done, Now, Waits, Held, InStore
    <3> QED BY <2>1, <2>2, LayersShrink
  <2> QED BY <2>2, <2>3
<1>13. Flow(n, r)' /\ Listed(n, r)'
  <2> HIDE DEF Done, Now, Waits, Held, InStore, Idle, Stored
  <2> QED BY <1>1, <1>3, <1>4, <1>5, <1>6, <1>8, <1>9, <1>10, <1>11, <1>12 DEF Flow
<1> QED BY <1>13, FlowAfter

LEMMA TakeFlows == IInv /\ FlowInv /\ DispatcherTakes => FlowInv'
<1> SUFFICES ASSUME IInv, FlowInv, DispatcherTakes PROVE FlowInv'
  OBVIOUS
<1> USE DEF monVars, countVars
<1>1. /\ disp = "take" /\ nextEvent # Null /\ UnlinkHead
      /\ UNCHANGED <<nativeVars, mon, hand, lastId, discarded, gone>>
  BY DEF DispatcherTakes
<1>2. PICK k \in Nat : \E q \in [1 .. k -> Obj] :
         /\ State(k, q) /\ Flow(k, q) /\ Members(k, q) \subseteq Obj
         /\ Null \notin Obj /\ Null \notin Members(k, q)
  BY GetFlowOut
<1>3. PICK q \in [1 .. k -> Obj] :
         /\ State(k, q) /\ Flow(k, q) /\ Members(k, q) \subseteq Obj
         /\ Null \notin Obj /\ Null \notin Members(k, q)
  BY <1>2
<1>4. k > 0 /\ nextEvent = q[1] /\ Listed(k - 1, Without(k, q, 1))'
  BY <1>1, <1>3, UnlinkTakesFirst DEF State
<1>5. PICK p \in 1 .. k : p = 1
  BY <1>4
<1>6. PICK n \in Nat : n = k - 1
  BY <1>4
<1>7. PICK r : r = Without(k, q, p)
  OBVIOUS
<1>8. PICK o \in Obj : o = q[p]
  OBVIOUS
<1>9. PICK x : x = content[o].id
  OBVIOUS
<1>10. /\ content[o] \in EventData /\ x \in Nat /\ o \in Members(k, q)
  <2>1. content[q[p]] \in EventData /\ q[p] \in Members(k, q)
    BY <1>3 DEF State, Marks, Members
  <2>2. MaxStores \in Nat /\ MaxPosts \in Nat
    BY DispatchAssumption DEF DispatchAssumption
  <2>3. x \in NativeId \cup JavaId
    BY <1>8, <1>9, <2>1 DEF EventData
  <2> QED BY <1>8, <2>1, <2>2, <2>3 DEF NativeId, JavaId
<1>11. \/ /\ content' = [content EXCEPT ![o] = Blank] /\ disp' = "ended"
          /\ processed' = Append(processed, x)
       \/ /\ content' = content /\ disp' = "process" /\ current' = o
          /\ processed' = processed
  BY <1>4, <1>5, <1>8, <1>9 DEF DispatcherTakes, EndDispatch
<1>12. \A y \in Obj : y # o => content'[y] = content[y]
  BY <1>3, <1>11 DEF State, Marks
<1>13. /\ Rising(n, Idle(n, r))' /\ Waits(n, r)' \subseteq Waits(k, q)
       /\ Waits(k, q) = Waits(n, r)' \cup {x} /\ Earlier({x}, Waits(n, r)')
  <2>1. Listed(k, q) /\ Rising(k, Idle(k, q))
    BY <1>3 DEF State, Flow
  <2> HIDE DEF Idle, Waits
  <2>2. Untouched(q[p])
    BY <1>8, <1>12 DEF Untouched
  <2>3. /\ Rising(n, Idle(n, r))' /\ Waits(n, r)' \subseteq Waits(k, q)
        /\ Waits(k, q) = Waits(n, r)' \cup {content[q[p]].id}
        /\ p = 1 => Earlier({content[q[p]].id}, Waits(n, r)')
    BY <1>6, <1>7, <2>1, <2>2, UnlinkFlows
  <2> QED BY <1>5, <1>8, <1>9, <2>3
<1>14. Held' = Held
  <2>1. mon = "post" => hand \in Obj /\ hand # o
    BY <1>3, <1>10 DEF State, Apart, IInv, Basics
  <2> QED BY <1>1, <1>12, <2>1 DEF Held
<1>15. /\ Stored' = Stored /\ InStore' = InStore /\ Rising(numEvents, Stored)'
  BY <1>1, <1>3, SameStore DEF Flow
<1>16. Now = {}
  BY <1>1 DEF Now
<1>17. PICK L : L = Waits(n, r)' /\ L \subseteq Waits(k, q) /\ Earlier({x}, L)
  BY <1>13
<1>18. /\ Layered(Done, {x}, L, Held, InStore, lastId)
       /\ Layered(Done \cup {x}, {}, L, Held, InStore, lastId)
       /\ Earlier(Done, {x})
  <2>1. Layered(Done, {}, Waits(k, q), Held, InStore, lastId) /\ x \in Waits(k, q)
    BY <1>3, <1>13, <1>16 DEF Flow
  <2>2. Earlier(Done, {x})
    BY <2>1 DEF Layered, Earlier
  <2> HIDE DEF Done, Now, Waits, Held, InStore
  <2> QED BY <1>17, <2>1, <2>2, LayersTake
<1>19. Listed(n, r)'
  BY <1>4, <1>5, <1>6, <1>7
<1>20. CASE processed' = processed
  <2>1. Done' = Done
    BY <1>20 DEF Done
  <2>2. processed' # Append(processed, x)
    BY <1>3, <1>10, <1>20, AppendProperties DEF Flow
  <2>3. Now' = {x}
    BY <1>9, <1>11, <2>2 DEF Now
  <2>4. Flow(n, r)'
    <3> HIDE DEF Done, Now, Waits, Held, InStore, Idle, Stored
    <3> QED BY <1>1, <1>3, <1>13, <1>14, <1>15, <1>16, <1>17, <1>18, <1>20, <2>1, <2>3 DEF Flow
  <2> QED BY <1>19, <2>4, FlowAfter
<1>21. CASE disp' = "ended" /\ processed' = Append(processed, x)
  <2>1. Now' = {}
    BY <1>21 DEF Now
  <2>2. /\ processed' \in Seq(Nat) /\ Rising(Len(processed), processed)'
        /\ Done' = Done \cup {x}
    <3> HIDE DEF Done
    <3> QED BY <1>3, <1>10, <1>18, <1>21, DoneGrows DEF Flow
  <2>3. Flow(n, r)'
    <3> HIDE DEF Done, Now, Waits, Held, InStore, Idle, Stored
    <3> QED BY <1>1, <1>3, <1>13, <1>14, <1>15, <1>16, <1>17, <1>18, <2>1, <2>2 DEF Flow
  <2> QED BY <1>19, <2>3, FlowAfter
<1> QED BY <1>11, <1>20, <1>21

LEMMA ProcessFlows == IInv /\ FlowInv /\ DispatcherProcesses => FlowInv'
<1> SUFFICES ASSUME IInv, FlowInv, DispatcherProcesses PROVE FlowInv'
  OBVIOUS
<1> USE DEF listVars, monVars, shutVars, countVars
<1>1. /\ disp = "process" /\ disp' = "take"
      /\ content' = [content EXCEPT ![current] = Blank]
      /\ processed' = Append(processed, content[current].id)
      /\ UNCHANGED <<listVars, mon, hand, nativeVars, lastId, gone, discarded>>
  BY DEF DispatcherProcesses
<1>2. PICK k \in Nat : \E q \in [1 .. k -> Obj] :
         /\ State(k, q) /\ Flow(k, q) /\ Members(k, q) \subseteq Obj
         /\ Null \notin Obj /\ Null \notin Members(k, q)
  BY GetFlowOut
<1>3. PICK q \in [1 .. k -> Obj] :
         /\ State(k, q) /\ Flow(k, q) /\ Members(k, q) \subseteq Obj
         /\ Null \notin Obj /\ Null \notin Members(k, q)
  BY <1>2
<1>4. /\ current \in Obj /\ current \notin Members(k, q) /\ current # hand
  BY <1>1, <1>3 DEF IInv, Basics, State, Apart
<1>5. PICK o, x : o \in Obj /\ o = current /\ x = content[o].id
  BY <1>4
<1>6. x \in Nat
  <2>1. content[o] \in EventData \cup {Blank}
    BY <1>3, <1>5 DEF State, Marks
  <2>2. MaxStores \in Nat /\ MaxPosts \in Nat
    BY DispatchAssumption DEF DispatchAssumption
  <2>3. x \in NativeId \cup JavaId \cup {0}
    BY <1>5, <2>1 DEF EventData, Blank
  <2> QED BY <2>2, <2>3 DEF NativeId, JavaId
<1>7. \A y \in Obj : y # o => content'[y] = content[y]
  BY <1>1, <1>3, <1>5 DEF State, Marks
<1>8. Listed(k, q)'
  BY <1>1, <1>3, ListStays DEF State
<1>9. Idle(k, q)' = Idle(k, q) /\ Waits(k, q)' = Waits(k, q)
  BY <1>3, <1>4, <1>5, <1>7, SameWaits
<1>10. Held' = Held
  <2>1. mon = "post" => hand \in Obj /\ hand # o
    BY <1>4, <1>5 DEF IInv, Basics
  <2> QED BY <1>1, <1>7, <2>1 DEF Held
<1>11. /\ Stored' = Stored /\ InStore' = InStore /\ Rising(numEvents, Stored)'
  BY <1>1, <1>3, SameStore DEF Flow
<1>12. Now = {x} /\ Now' = {}
  BY <1>1, <1>5 DEF Now
<1>13. /\ Layered(Done \cup {x}, {}, Waits(k, q), Held, InStore, lastId)
       /\ Earlier(Done, {x})
  <2>1. Layered(Done, {x}, Waits(k, q), Held, InStore, lastId)
    BY <1>3, <1>12 DEF Flow
  <2>2. Earlier(Done, {x})
    BY <2>1 DEF Layered, Earlier
  <2> HIDE DEF Done, Now, Waits, Held, InStore
  <2> QED BY <2>1, <2>2, LayersProcess
<1>14. /\ processed' \in Seq(Nat) /\ Rising(Len(processed), processed)'
       /\ Done' = Done \cup {x}
  <2> HIDE DEF Done
  <2> QED BY <1>1, <1>3, <1>5, <1>6, <1>13, DoneGrows DEF Flow
<1>15. Flow(k, q)'
  <2> HIDE DEF Done, Now, Waits, Held, InStore, Idle, Stored
  <2> QED BY <1>1, <1>3, <1>9, <1>10, <1>11, <1>12, <1>13, <1>14 DEF Flow
<1> QED BY <1>8, <1>15, FlowAfter

LEMMA InitFlow == Init => FlowInv
<1> SUFFICES ASSUME Init PROVE FlowInv
  OBVIOUS
<1>1. /\ numEvents = 0 /\ processed = <<>> /\ disp = "absent" /\ mon = "get" /\ lastId = 0
      /\ nextEvent = Null /\ lastEvent = Null /\ next = [o \in Obj |-> Null]
  BY DEF Init, Native!Init
<1>2. PICK q \in [1 .. 0 -> Obj] : TRUE
  <2>1. [i \in 1 .. 0 |-> Null] \in [1 .. 0 -> Obj]
    OBVIOUS
  <2> QED BY <2>1
<1>3. Listed(0, q)
  BY <1>1 DEF Listed
<1>4. processed \in Seq(Nat) /\ Len(processed) = 0
  BY <1>1, EmptySeq
<1>5. \A f : Rising(0, f) /\ Members(0, f) = {}
  BY DEF Rising, Members
<1>6. Done = {} /\ Now = {} /\ Waits(0, q) = {} /\ Held = {} /\ InStore = {}
  BY <1>1, <1>4, <1>5 DEF Done, Now, Waits, Held, InStore
<1>7. Layered({}, {}, {}, {}, {}, 0) /\ 1 .. 0 = {}
  BY DEF Layered, Earlier
<1>8. Flow(0, q)
  <2> HIDE DEF Done, Now, Waits, Held, InStore, Idle, Stored
  <2> QED BY <1>1, <1>4, <1>5, <1>6, <1>7 DEF Flow
<1> QED BY <1>3, <1>8 DEF FlowInv

LEMMA NativeQueueIsRead == Spec => []QueueFacts
<1>1. NP!QueueAssumption
  BY DispatchAssumption, NoEventAssumption
     DEF DispatchAssumption, NoEventAssumption, NP!QueueAssumption
<1>2. NP!BufferTypeOK /\ NP!WindowConsistent => NP!ContentsOK
  BY <1>1, NP!WindowIsContents
<1>3. NP!TypeOK /\ NP!BufferTypeOK /\ NP!WindowConsistent => QueueFacts
  BY <1>2 DEF QueueFacts
<1> QED BY <1>3, NativeQueueIsTyped, PTL

LEMMA FlowInvariant == Spec => []FlowInv
<1>1. /\ IInv /\ Startup /\ FlowInv /\ QueueFacts /\ QueueFacts' /\ [Next]_vars
      => FlowInv'
  <2> SUFFICES ASSUME IInv, Startup, FlowInv, QueueFacts, QueueFacts', [Next]_vars
               PROVE  FlowInv'
    OBVIOUS
  <2>1. CASE Start \/ ShutdownResets
    BY <2>1, EmptyingSteps
  <2>2. CASE ShutdownSends \/ \E t \in Type : VMStores(t)
    BY <2>2, StoringSteps
  <2>3. CASE \E t \in Type : JavaPosts(t) \/ Remove(t)
    BY <2>3, JavaPostFlows, RemoveFlows
  <2>4. CASE MonitorGets \/ DispatcherStarts \/ DispatcherWaits \/ ShutdownChecks
             \/ UNCHANGED vars
    BY <2>4, QuietSteps
  <2>5. CASE MonitorWaits \/ MonitorPosts \/ MonitorDrains
    BY <2>5, WaitFlows, PostsFlow, DrainFlows
  <2>6. CASE DispatcherTakes \/ DispatcherProcesses
    BY <2>6, TakeFlows, ProcessFlows
  <2> QED BY <2>1, <2>2, <2>3, <2>4, <2>5, <2>6 DEF Next
<1> QED BY <1>1, InitFlow, ListInvariant, StartupInvariant, NativeQueueIsRead, PTL DEF Spec

-----------------------------------------------------------------------------
(* The groups one behind the other are the sequence that runs from the     *)
(* first event that was processed to the last one in the native queue.     *)
InSeq(s, M) == s \in Seq(Nat) /\ Rising(Len(s), s) /\ M = Members(Len(s), s)

LEMMA JoinInSeq ==
  ASSUME NEW s, NEW M, InSeq(s, M), NEW t, NEW N, InSeq(t, N), Earlier(M, N)
  PROVE  InSeq(s \o t, M \cup N)
<1> DEFINE m == Len(s)
           n == Len(t)
           u == s \o t
<1>1. s \in Seq(Nat) /\ t \in Seq(Nat) /\ m \in Nat /\ n \in Nat
  BY DEF InSeq
<1>2. /\ u \in Seq(Nat) /\ Len(u) = m + n
      /\ \A i \in 1 .. m + n : u[i] = IF i <= m THEN s[i] ELSE t[i - m]
  BY <1>1, ConcatProperties
<1> HIDE DEF u
<1> HIDE DEF m, n
<1>3. \A i \in 1 .. m : i \in 1 .. m + n /\ u[i] = s[i]
  <2> TAKE i \in 1 .. m
  <2>1. i \in 1 .. m + n /\ i <= m
    BY <1>1
  <2> QED BY <1>2, <2>1
<1>4. \A i \in 1 .. n : i + m \in 1 .. m + n /\ u[i + m] = t[i]
  <2> TAKE i \in 1 .. n
  <2>1. i + m \in 1 .. m + n /\ ~(i + m <= m) /\ (i + m) - m = i
    BY <1>1
  <2>2. u[i + m] = t[(i + m) - m]
    BY <1>2, <2>1
  <2> QED BY <2>1, <2>2
<1>5. \A i \in 1 .. m + n : i \in 1 .. m \/ (i - m \in 1 .. n /\ u[i] = t[i - m])
  <2> TAKE i \in 1 .. m + n
  <2>1. i \in 1 .. m \/ (i - m \in 1 .. n /\ ~(i <= m))
    BY <1>1
  <2>2. ~(i <= m) => u[i] = t[i - m]
    BY <1>2
  <2> QED BY <2>1, <2>2
<1>6. Members(m + n, u) = M \cup N
  <2>1. M = Members(m, s) /\ N = Members(n, t)
    BY DEF InSeq, m, n
  <2>2. ASSUME NEW i \in 1 .. m PROVE s[i] \in Members(m + n, u)
    BY <1>3 DEF Members
  <2>3. ASSUME NEW i \in 1 .. n PROVE t[i] \in Members(m + n, u)
    BY <1>4 DEF Members
  <2>4. ASSUME NEW i \in 1 .. m + n PROVE u[i] \in M \cup N
    BY <1>3, <1>5, <2>1 DEF Members
  <2> QED BY <2>1, <2>2, <2>3, <2>4 DEF Members
<1>7. Rising(m + n, u)
  <2> SUFFICES ASSUME NEW i \in 1 .. m + n, NEW j \in 1 .. m + n, i < j,
                      u[i] \in NativeId, u[j] \in NativeId
               PROVE  u[i] < u[j]
    BY DEF Rising
  <2>1. Rising(m, s) /\ Rising(n, t) /\ M = Members(m, s) /\ N = Members(n, t)
    BY DEF InSeq, m, n
  <2>2. CASE i \in 1 .. m /\ j \in 1 .. m
    BY <1>3, <2>1, <2>2 DEF Rising
  <2>3. CASE i \notin 1 .. m
    <3>1. /\ i - m \in 1 .. n /\ j - m \in 1 .. n /\ i - m < j - m
          /\ u[i] = t[i - m] /\ u[j] = t[j - m]
      BY <1>1, <1>5, <2>3 DEF m, n
    <3> QED BY <2>1, <3>1 DEF Rising
  <2>4. CASE i \in 1 .. m /\ j \notin 1 .. m
    <3>1. u[i] = s[i] /\ j - m \in 1 .. n /\ u[j] = t[j - m]
      BY <1>3, <1>5, <2>4
    <3>2. u[i] \in M /\ u[j] \in N
      BY <2>1, <2>4, <3>1 DEF Members
    <3> QED BY <3>2 DEF Earlier
  <2> QED BY <2>2, <2>3, <2>4
<1> QED BY <1>2, <1>6, <1>7 DEF InSeq, m, n, u

LEMMA OneInSeq ==
  ASSUME NEW c \in BOOLEAN, NEW x, c => x \in Nat
  PROVE  InSeq(IF c THEN <<x>> ELSE <<>>, IF c THEN {x} ELSE {})
<1>1. CASE c
  <2>1. <<x>> \in Seq(Nat) /\ Len(<<x>>) = 1 /\ <<x>>[1] = x
    BY <1>1
  <2>2. Members(1, <<x>>) = {x}
    BY <2>1 DEF Members
  <2>3. Rising(1, <<x>>)
    BY DEF Rising
  <2> QED BY <1>1, <2>1, <2>2, <2>3 DEF InSeq
<1>2. CASE ~c
  <2>1. <<>> \in Seq(Nat) /\ Len(<<>>) = 0
    OBVIOUS
  <2> QED BY <1>2, <2>1 DEF InSeq, Rising, Members
<1> QED BY <1>1, <1>2

LEMMA FunctionInSeq ==
  ASSUME NEW n \in Nat, NEW f \in [1 .. n -> Nat], Rising(n, f)
  PROVE  InSeq(f, Members(n, f))
<1>1. f \in Seq(Nat) /\ DOMAIN f = 1 .. n
  BY SeqDef
<1>2. Len(f) = n
  BY <1>1, LenProperties
<1> QED BY <1>1, <1>2 DEF InSeq

LEMMA WholeWay ==
  ASSUME IInv, FlowInv, QueueFacts
  PROVE  \E M : /\ InSeq(processed \o InFlight, M) /\ M = Done \cup Ids(InFlight)
                /\ 1 .. lastId \subseteq M \cup gone \cup discarded
<1>1. PICK k \in Nat : \E q \in [1 .. k -> Obj] :
         /\ State(k, q) /\ Flow(k, q) /\ Members(k, q) \subseteq Obj
         /\ Null \notin Obj /\ Null \notin Members(k, q)
  BY GetFlowOut
<1>2. PICK q \in [1 .. k -> Obj] :
         /\ State(k, q) /\ Flow(k, q) /\ Members(k, q) \subseteq Obj
         /\ Null \notin Obj /\ Null \notin Members(k, q)
  BY <1>1
<1>3. \A e \in EventData \cup {Blank} : e.id \in Nat
  <2>1. MaxStores \in Nat /\ MaxPosts \in Nat
    BY DispatchAssumption DEF DispatchAssumption
  <2>2. \A e \in EventData \cup {Blank} : e.id \in NativeId \cup JavaId \cup {0}
    BY DEF EventData, Blank
  <2>3. NativeId \cup JavaId \cup {0} \subseteq Nat
    BY <2>1 DEF NativeId, JavaId
  <2>4. ASSUME NEW e \in EventData \cup {Blank} PROVE e.id \in Nat
    BY <2>2, <2>3
  <2> QED BY <2>4
<1>4. content \in [Obj -> EventData \cup {Blank}]
  BY <1>2 DEF State, Marks
<1> DEFINE a == IF disp = "process" THEN <<content[current].id>> ELSE <<>>
           b == Idle(k, q)
           c == IF mon = "post" THEN <<content[hand].id>> ELSE <<>>
           d == Stored
<1>5. InFlight = ((a \o b) \o c) \o d
  <2>1. JavaQueue = q
    BY <1>2, QueueIsList DEF State
  <2>2. QueuedIds = b
    BY <2>1 DEF QueuedIds, Idle
  <2> QED BY <2>2 DEF InFlight, Stored
<1>6. InSeq(a, Now)
  <2>1. disp = "process" => content[current].id \in Nat
    BY <1>3, <1>4 DEF IInv, Basics
  <2>2. (disp = "process") \in BOOLEAN
    OBVIOUS
  <2> QED BY <2>1, <2>2, OneInSeq DEF Now
<1>7. InSeq(c, Held)
  <2>1. mon = "post" => content[hand].id \in Nat
    BY <1>3 DEF IInv, Basics
  <2>2. (mon = "post") \in BOOLEAN
    OBVIOUS
  <2> QED BY <2>1, <2>2, OneInSeq DEF Held
<1>8. InSeq(b, Waits(k, q))
  <2>1. b \in [1 .. k -> Nat]
    BY <1>3, <1>4 DEF Idle
  <2> QED BY <1>2, <2>1, FunctionInSeq DEF Flow, Waits
<1>9. InSeq(d, InStore)
  <2>1. numEvents \in Nat
    BY DispatchAssumption DEF DispatchAssumption, QueueFacts, NP!BufferTypeOK
  <2>2. Native!Contents \in [1 .. numEvents -> EventData]
    BY ContentsAgree DEF QueueFacts, NP!ContentsOK
  <2>3. Stored \in [1 .. numEvents -> Nat]
    BY <1>3, <2>2 DEF Stored
  <2> QED BY <1>2, <2>1, <2>3, FunctionInSeq DEF Flow, InStore
<1>10. InSeq(processed, Done)
  BY <1>2 DEF Flow, Done, InSeq
<1>11. Layered(Done, Now, Waits(k, q), Held, InStore, lastId)
  BY <1>2 DEF Flow
<1> HIDE DEF a, b, c, d
<1>12. InSeq(((a \o b) \o c) \o d, ((Now \cup Waits(k, q)) \cup Held) \cup InStore)
  <2>1. Earlier(Now, Waits(k, q)) /\ Earlier(Now \cup Waits(k, q), Held)
        /\ Earlier((Now \cup Waits(k, q)) \cup Held, InStore)
    BY <1>11 DEF Layered, Earlier
  <2>2. InSeq(a \o b, Now \cup Waits(k, q))
    BY <1>6, <1>8, <2>1, JoinInSeq
  <2>3. InSeq((a \o b) \o c, (Now \cup Waits(k, q)) \cup Held)
    BY <1>7, <2>1, <2>2, JoinInSeq
  <2> QED BY <1>9, <2>1, <2>3, JoinInSeq
<1> DEFINE N == ((Now \cup Waits(k, q)) \cup Held) \cup InStore
<1>13. InSeq(InFlight, N)
  BY <1>5, <1>12
<1>14. InSeq(processed \o InFlight, Done \cup N)
  <2>1. Earlier(Done, N)
    BY <1>11 DEF Layered, Earlier
  <2> HIDE DEF N
  <2> QED BY <1>10, <1>13, <2>1, JoinInSeq
<1>15. N = Ids(InFlight)
  <2>1. InFlight \in Seq(Nat) /\ N = Members(Len(InFlight), InFlight)
    BY <1>13 DEF InSeq
  <2>2. DOMAIN InFlight = 1 .. Len(InFlight)
    BY <2>1, LenProperties
  <2> HIDE DEF N
  <2> QED BY <2>1, <2>2 DEF Ids, Members
<1>16. 1 .. lastId \subseteq (Done \cup N) \cup gone \cup discarded
  BY <1>2 DEF Flow
<1> HIDE DEF N
<1> QED BY <1>14, <1>15, <1>16

(* Native events reach their listeners in the order the VM thread stored   *)
(* them in, and each of them once: neither the drain loop, nor a listener  *)
(* that removes events, nor other posters can reorder the two queues.      *)
THEOREM EventsKeepOrder == Spec => []PipelineOrdered
<1>1. IInv /\ FlowInv /\ QueueFacts => PipelineOrdered
  <2> SUFFICES ASSUME IInv, FlowInv, QueueFacts PROVE PipelineOrdered
    OBVIOUS
  <2> DEFINE s == processed \o InFlight
  <2>1. s \in Seq(Nat) /\ Rising(Len(s), s)
    BY WholeWay DEF InSeq
  <2>2. DOMAIN s = 1 .. Len(s)
    BY <2>1, LenProperties
  <2> QED BY <2>1, <2>2 DEF PipelineOrdered, Rising
<1> QED BY <1>1, ListInvariant, FlowInvariant, NativeQueueIsRead, PTL

(* A stored event is in one of the two queues or in a thread's hands until *)
(* a listener has had it, or it was refused, vetoed, removed or reset.     *)
THEOREM NoEventIsLost == Spec => []NothingLost
<1>1. IInv /\ FlowInv /\ QueueFacts => NothingLost
  <2> SUFFICES ASSUME IInv, FlowInv, QueueFacts PROVE NothingLost
    OBVIOUS
  <2>1. 1 .. lastId \subseteq (Done \cup Ids(InFlight)) \cup gone \cup discarded
    BY WholeWay
  <2>2. processed \in Seq(Nat)
    BY DEF FlowInv, Flow
  <2>3. DOMAIN processed = 1 .. Len(processed)
    BY <2>2, LenProperties
  <2>4. Done = Ids(processed)
    BY <2>3 DEF Done, Ids, Members
  <2> QED BY <2>1, <2>4 DEF NothingLost, Handled
<1> QED BY <1>1, ListInvariant, FlowInvariant, NativeQueueIsRead, PTL

-----------------------------------------------------------------------------
(* There is at most one shutdown event, and the dispatcher ends only when  *)
(* it has taken that one.                                                  *)
ShutdownKnown ==
  /\ shut = "idle" => shutdownId = 0
  /\ shutdownId \in 0 .. lastId
  /\ disp = "ended" => shut # "idle" /\ shutdownId \in Done
  /\ alive <=> disp \in {"take", "waiting", "process"}
  /\ discarded # {} => shut = "done"

OneShutdownHere  == \A o \in Obj : content[o].type = Shutdown => content[o].id = shutdownId
OneShutdownThere == \A n \in 1 .. numEvents : Native!Contents[n].type = Shutdown
                                              => Native!Contents[n].id = shutdownId

ShutdownInv == ShutdownKnown /\ OneShutdownHere /\ OneShutdownThere

LEMMA IdsArePositive == \A d \in EventData : d.id \in Nat /\ d.id # 0
<1>1. MaxStores \in Nat /\ MaxPosts \in Nat
  BY DispatchAssumption DEF DispatchAssumption
<1>2. \A i \in NativeId \cup JavaId : i \in Nat /\ i # 0
  BY <1>1 DEF NativeId, JavaId
<1>3. \A d \in EventData : d.id \in NativeId \cup JavaId
  BY DEF EventData
<1> QED BY <1>2, <1>3

LEMMA ContentTyped ==
  ASSUME IInv
  PROVE  /\ content \in [Obj -> EventData \cup {Blank}]
         /\ nextEvent # Null => nextEvent \in Obj /\ content[nextEvent] \in EventData
         /\ mon \in {"wait", "post"} => hand \in Obj
         /\ mon = "post" => content[hand] \in EventData
         /\ hand = Null => PoolTop \in Obj
         /\ posts < MaxPosts => NewObj \in Obj
<1>1. PICK k \in Nat : \E q \in [1 .. k -> Obj] : State(k, q)
  BY DEF IInv
<1>2. PICK q \in [1 .. k -> Obj] : State(k, q)
  BY <1>1
<1>3. content \in [Obj -> EventData \cup {Blank}]
  BY <1>2 DEF State, Marks
<1>4. nextEvent # Null => nextEvent \in Obj /\ content[nextEvent] \in EventData
  <2>1. nextEvent # Null => nextEvent = q[1] /\ 1 \in 1 .. k
    BY <1>2 DEF State, Listed
  <2> QED BY <2>1, <1>2 DEF State, Marks
<1>5. hand = Null => PoolTop \in Obj
  BY <1>2, PoolHandsOut DEF IInv
<1>6. posts < MaxPosts => NewObj \in Obj
  BY <1>2, ObjectsSuffice DEF IInv
<1> QED BY <1>3, <1>4, <1>5, <1>6 DEF IInv, Basics

(* Writing the fields of one object. *)
Harmless(e) == e.type = Shutdown => e.id = shutdownId

LEMMA BlankHarmless == Harmless(Blank)
BY DEF Harmless, Blank, Shutdown

LEMMA HereWritten ==
  ASSUME IInv, OneShutdownHere, shutdownId' = shutdownId, NEW o \in Obj, NEW e,
         Harmless(e), content' = [content EXCEPT ![o] = e]
  PROVE  OneShutdownHere'
<1>1. \A x \in Obj : content'[x] = IF x = o THEN e ELSE content[x]
  BY ContentTyped
<1> QED BY <1>1 DEF OneShutdownHere, Harmless

LEMMA HerePosted ==
  ASSUME IInv, OneShutdownHere, shutdownId' = shutdownId, NEW o \in Obj, NEW e,
         Harmless(e), Post(o, e)
  PROVE  OneShutdownHere'
<1>1. content' = [content EXCEPT ![o] = e] \/ content' = [content EXCEPT ![o] = Blank]
  BY DEF Post
<1> QED BY <1>1, BlankHarmless, HereWritten

LEMMA HereStays ==
  ASSUME OneShutdownHere, UNCHANGED <<content, shutdownId>>
  PROVE  OneShutdownHere'
BY DEF OneShutdownHere

LEMMA ThereStays ==
  ASSUME OneShutdownThere, shutdownId' = shutdownId, numEvents' = 0 \/ UNCHANGED nativeVars
  PROVE  OneShutdownThere'
BY DEF OneShutdownThere, nativeVars, Native!Contents, Native!SlotAt, Native!SlotAfter

LEMMA ThereTaken ==
  ASSUME OneShutdownThere, shutdownId' = shutdownId, QueueFacts, QueueFacts',
         Native!GetPendingMIDPEvent
  PROVE  OneShutdownThere' /\ Harmless(result')
<1>1. /\ numEvents \in Nat \ {0} /\ numEvents' = numEvents - 1
      /\ result' = Native!Contents[1]
      /\ \A i \in 1 .. numEvents - 1 : (Native!Contents)'[i] = Native!Contents[i + 1]
  BY StoreShrinks
<1>2. 1 \in 1 .. numEvents /\ \A i \in 1 .. numEvents' : i \in 1 .. numEvents - 1
                                                         /\ i + 1 \in 1 .. numEvents
  BY <1>1
<1> QED BY <1>1, <1>2 DEF OneShutdownThere, Harmless

LEMMA ThereStored ==
  ASSUME OneShutdownThere, QueueFacts, QueueFacts', NEW e \in EventData,
         Native!StoreMIDPEventInVmThread(e),
         \/ shutdownId' = shutdownId /\ e.type # Shutdown
         \/ shutdownId' = shutdownId /\ outcome' = "refused"
         \/ shutdownId = 0 /\ shutdownId' = e.id /\ outcome' # "refused"
  PROVE  OneShutdownThere'
<1>1. CASE outcome' = "refused"
  BY <1>1 DEF Native!StoreMIDPEventInVmThread, Native!bufferVars, OneShutdownThere,
     Native!Contents, Native!SlotAt, Native!SlotAfter
<1>2. CASE outcome' # "refused"
  <2>1. /\ numEvents \in Nat /\ numEvents' = numEvents + 1
        /\ \A i \in 1 .. numEvents : (Native!Contents)'[i] = Native!Contents[i]
        /\ (Native!Contents)'[numEvents + 1] = e
    BY <1>2, StoreGrows
  <2>2. \A i \in 1 .. numEvents' : i \in 1 .. numEvents \/ i = numEvents + 1
    BY <2>1
  <2>3. \A i \in 1 .. numEvents : Native!Contents[i].id # 0
    <3>1. Native!Contents \in [1 .. numEvents -> EventData]
      BY ContentsAgree DEF QueueFacts, NP!ContentsOK
    <3>2. \A d \in EventData : d.id # 0
      BY IdsArePositive
    <3> QED BY <3>1, <3>2
  <2>4. \A i \in 1 .. numEvents : Native!Contents[i].type = Shutdown
                                  => Native!Contents[i].id = shutdownId'
    BY <1>2, <2>3 DEF OneShutdownThere
  <2>5. e.type = Shutdown => e.id = shutdownId'
    BY <1>2
  <2> QED BY <2>1, <2>2, <2>4, <2>5 DEF OneShutdownThere
<1> QED BY <1>1, <1>2

LEMMA OneShutdownKeeps ==
  ASSUME IInv, Startup, ShutdownInv, QueueFacts, QueueFacts', [Next]_vars
  PROVE  OneShutdownHere' /\ OneShutdownThere'
<1> USE DEF shutVars, countVars
<1>0. OneShutdownHere /\ OneShutdownThere
  BY DEF ShutdownInv
<1>1. CASE Start \/ ShutdownResets
  <2>1. /\ UNCHANGED <<content, shutdownId>> /\ numEvents' = 0
    BY <1>1 DEF Start, ShutdownResets, Native!StartEventQueue, Native!ResetEventQueue,
       Native!DrainBuffer
  <2> QED BY <1>0, <2>1, HereStays, ThereStays
<1>2. ASSUME NEW t \in Type, VMStores(t) PROVE OneShutdownHere' /\ OneShutdownThere'
  <2>1. PICK e : e = [type |-> t, id |-> lastId + 1]
    OBVIOUS
  <2>2. e \in EventData /\ e.type # Shutdown
    <3>1. lastId + 1 \in NativeId
      BY <1>2, DispatchAssumption DEF DispatchAssumption, Startup, NativeId, VMStores
    <3> QED BY <2>1, <3>1, DispatchAssumption DEF DispatchAssumption, EventData, Shutdown
  <2>3. /\ UNCHANGED <<content, shutdownId>> /\ Native!StoreMIDPEventInVmThread(e)
    BY <1>2, <2>1 DEF VMStores
  <2> QED BY <1>0, <2>2, <2>3, HereStays, ThereStored
<1>3. CASE ShutdownSends
  <2>1. PICK e : e = [type |-> Shutdown, id |-> lastId + 1]
    OBVIOUS
  <2>2. e \in EventData /\ e.id = lastId + 1
    <3>1. lastId + 1 \in NativeId
      BY <1>3, DispatchAssumption DEF DispatchAssumption, Startup, NativeId, ShutdownSends
    <3> QED BY <2>1, <3>1 DEF EventData
  <2>3. /\ content' = content /\ Native!StoreMIDPEventInVmThread(e) /\ shutdownId = 0
        /\ \/ shutdownId' = shutdownId /\ outcome' = "refused"
           \/ shutdownId' = e.id /\ outcome' # "refused"
    BY <1>3, <2>1, <2>2 DEF ShutdownSends, ShutdownInv, ShutdownKnown
  <2>4. OneShutdownThere'
    BY <1>0, <2>2, <2>3, ThereStored
  <2>5. \A o \in Obj : content[o].type # Shutdown
    <3>1. content \in [Obj -> EventData \cup {Blank}]
      BY ContentTyped
    <3>2. Blank.type # Shutdown
      BY DEF Blank, Shutdown
    <3> QED BY <1>0, <2>3, <3>1, <3>2, IdsArePositive DEF OneShutdownHere
  <2>6. OneShutdownHere'
    BY <2>3, <2>5 DEF OneShutdownHere
  <2> QED BY <2>4, <2>6
<1>4. ASSUME NEW t \in Type, JavaPosts(t) PROVE OneShutdownHere' /\ OneShutdownThere'
  <2>1. PICK e : e = [type |-> t, id |-> MaxStores + 2 + posts]
    OBVIOUS
  <2>2. Harmless(e)
    BY <2>1, DispatchAssumption DEF DispatchAssumption, Harmless, Shutdown
  <2>3. /\ shutdownId' = shutdownId /\ Post(NewObj, e) /\ UNCHANGED nativeVars
        /\ posts < MaxPosts
    BY <1>4, <2>1 DEF JavaPosts
  <2>4. NewObj \in Obj
    BY <2>3, ContentTyped
  <2> QED BY <1>0, <2>2, <2>3, <2>4, HerePosted, ThereStays
<1>5. ASSUME NEW t \in Type, Remove(t) PROVE OneShutdownHere' /\ OneShutdownThere'
  <2>1. shutdownId' = shutdownId /\ UNCHANGED nativeVars
    BY <1>5 DEF Remove
  <2>2. PICK k \in Nat : \E q \in [1 .. k -> Obj] : State(k, q)
    BY DEF IInv
  <2>3. PICK q \in [1 .. k -> Obj] : State(k, q)
    BY <2>2
  <2>4. PICK p \in 1 .. k : content' = [content EXCEPT ![q[p]] = Blank]
    BY <1>5, <2>3, RemoveUnlinks DEF State
  <2> QED BY <1>0, <2>1, <2>4, BlankHarmless, HereWritten, ThereStays
<1>6. CASE MonitorGets \/ DispatcherStarts \/ DispatcherWaits \/ ShutdownChecks
           \/ UNCHANGED vars
  <2>1. UNCHANGED <<content, shutdownId, nativeVars>>
    BY <1>6 DEF MonitorGets, DispatcherStarts, DispatcherWaits, ShutdownChecks, vars
  <2> QED BY <1>0, <2>1, HereStays, ThereStays
<1>7. CASE MonitorWaits
  <2>1. mon = "wait" /\ shutdownId' = shutdownId
    BY <1>7 DEF MonitorWaits
  <2>2. CASE Native!GetPendingMIDPEvent
    <3>1. content' = [content EXCEPT ![hand] = result'] /\ hand \in Obj
      BY <1>7, <2>1, <2>2, ContentTyped DEF MonitorWaits, Native!GetPendingMIDPEvent
    <3> QED BY <1>0, <2>1, <2>2, <3>1, HereWritten, ThereTaken
  <2>3. CASE ~Native!GetPendingMIDPEvent
    <3>1. outcome' = "empty" /\ numEvents' = 0
      BY <1>7, <2>3 DEF MonitorWaits, Native!WaitForNativeEvent, Native!bufferVars
    <3>2. content' = content
      BY <1>7, <3>1 DEF MonitorWaits
    <3> QED BY <1>0, <2>1, <3>1, <3>2, HereStays, ThereStays
  <2> QED BY <2>2, <2>3
<1>8. CASE MonitorPosts
  <2>1. /\ shutdownId' = shutdownId /\ Post(hand, content[hand]) /\ UNCHANGED nativeVars
        /\ hand \in Obj
    BY <1>8, ContentTyped DEF MonitorPosts
  <2>2. PICK e : e = content[hand]
    OBVIOUS
  <2>3. Harmless(e) /\ Post(hand, e)
    BY <1>0, <2>1, <2>2 DEF OneShutdownHere, Harmless
  <2> QED BY <1>0, <2>1, <2>3, HerePosted, ThereStays
<1>9. CASE MonitorDrains
  <2>1. shutdownId' = shutdownId /\ PoolTop \in Obj
    BY <1>9, ContentTyped DEF MonitorDrains, IInv, Basics
  <2>2. CASE Native!GetPendingMIDPEvent
    <3>1. Post(PoolTop, result')
      BY <1>9, <2>2 DEF MonitorDrains, Native!GetPendingMIDPEvent
    <3>2. OneShutdownThere' /\ Harmless(result')
      BY <1>0, <2>1, <2>2, ThereTaken
    <3>3. PICK o, e : o \in Obj /\ o = PoolTop /\ e = result' /\ Harmless(e)
      BY <2>1, <3>2
    <3> QED BY <1>0, <2>1, <3>1, <3>2, <3>3, HerePosted
  <2>3. CASE ~Native!GetPendingMIDPEvent
    <3>1. outcome' = "empty" /\ numEvents' = 0
      BY <1>9, <2>3 DEF MonitorDrains, Native!ReadNativeEvent, Native!bufferVars
    <3>2. content' = content
      BY <1>9, <3>1 DEF MonitorDrains
    <3> QED BY <1>0, <2>1, <3>1, <3>2, HereStays, ThereStays
  <2> QED BY <2>2, <2>3
<1>10. CASE DispatcherTakes
  <2>1. /\ UNCHANGED <<shutdownId, nativeVars>> /\ nextEvent \in Obj
        /\ content' = content \/ content' = [content EXCEPT ![nextEvent] = Blank]
    BY <1>10, ContentTyped DEF DispatcherTakes
  <2> QED BY <1>0, <2>1, BlankHarmless, HereWritten, HereStays, ThereStays
<1>11. CASE DispatcherProcesses
  <2>1. /\ UNCHANGED <<shutdownId, nativeVars>> /\ current \in Obj
        /\ content' = [content EXCEPT ![current] = Blank]
    BY <1>11 DEF DispatcherProcesses, IInv, Basics
  <2> QED BY <1>0, <2>1, BlankHarmless, HereWritten, ThereStays
<1> QED BY <1>1, <1>2, <1>3, <1>4, <1>5, <1>6, <1>7, <1>8, <1>9, <1>10, <1>11 DEF Next

LEMMA ShutdownKnownKeeps ==
  ASSUME IInv, Startup, FlowInv, ShutdownInv, [Next]_vars
  PROVE  ShutdownKnown'
<1> USE DEF ShutdownKnown, listVars, dispVars, shutVars, countVars
<1>0. ShutdownKnown /\ lastId \in Nat /\ processed \in Seq(Nat)
  BY DEF ShutdownInv, FlowInv, Flow
<1>1. ASSUME processed' = processed PROVE Done' = Done
  BY <1>1 DEF Done
<1>2. ASSUME NEW o, NEW e, Post(o, e)
      PROVE  /\ disp' = disp \/ (disp = "waiting" /\ disp' = "take")
             /\ shut' = shut \/ (shut = "waiting" /\ shut' = "check")
  BY <1>2 DEF Post, NotifyAll
<1>3. ASSUME NEW o, NEW e, Post(o, e),
             UNCHANGED <<alive, processed, shutdownId, discarded, lastId>>
      PROVE  ShutdownKnown'
  <2> HIDE DEF Done
  <2> QED BY <1>0, <1>1, <1>2, <1>3
<1>4. CASE Start
  <2>1. /\ disp = "absent" /\ disp' = "new"
        /\ UNCHANGED <<alive, processed, shut, shutdownId, discarded, lastId>>
    BY <1>4 DEF Start
  <2> QED BY <1>0, <2>1
<1>5. ASSUME NEW t \in Type, VMStores(t) PROVE ShutdownKnown'
  <2>1. /\ UNCHANGED <<alive, disp, processed, shut, shutdownId, discarded>>
        /\ lastId' = lastId + 1
    BY <1>5 DEF VMStores
  <2> QED BY <1>0, <1>1, <2>1
<1>6. ASSUME NEW t \in Type, JavaPosts(t) \/ Remove(t) PROVE ShutdownKnown'
  <2>1. CASE JavaPosts(t)
    BY <1>3, <2>1 DEF JavaPosts
  <2>2. CASE Remove(t)
    BY <1>0, <1>1, <2>2 DEF Remove
  <2> QED BY <1>6, <2>1, <2>2
<1>7. CASE MonitorGets \/ MonitorWaits \/ UNCHANGED vars
  BY <1>0, <1>1, <1>7 DEF MonitorGets, MonitorWaits, vars
<1>8. CASE MonitorPosts
  BY <1>3, <1>8 DEF MonitorPosts
<1>9. CASE MonitorDrains
  <2>1. UNCHANGED <<alive, processed, shutdownId, discarded, lastId>>
    BY <1>9 DEF MonitorDrains
  <2>2. (\E o, e : Post(o, e)) \/ UNCHANGED <<disp, shut>>
    BY <1>9 DEF MonitorDrains
  <2> QED BY <1>0, <1>1, <1>3, <2>1, <2>2
<1>10. CASE DispatcherStarts \/ DispatcherWaits
  <2>1. /\ UNCHANGED <<processed, shut, shutdownId, discarded, lastId>>
        /\ disp' \in {"take", "waiting"} /\ (alive' = TRUE \/ (disp = "take" /\ alive' = alive))
    BY <1>10 DEF DispatcherStarts, DispatcherWaits
  <2> QED BY <1>0, <1>1, <2>1
<1>11. CASE DispatcherProcesses
  <2>1. /\ UNCHANGED <<alive, shut, shutdownId, discarded, lastId>>
        /\ disp = "process" /\ disp' = "take"
    BY <1>11 DEF DispatcherProcesses
  <2> QED BY <1>0, <2>1
<1>12. CASE DispatcherTakes
  <2>1. UNCHANGED <<shutdownId, discarded, lastId>> /\ disp = "take" /\ nextEvent # Null
    BY <1>12 DEF DispatcherTakes
  <2>2. CASE content[nextEvent].type # Shutdown
    <3>1. UNCHANGED <<alive, shut>> /\ disp' = "process"
      BY <1>12, <2>2 DEF DispatcherTakes
    <3> QED BY <1>0, <2>1, <3>1
  <2>3. CASE content[nextEvent].type = Shutdown
    <3>1. /\ alive' = FALSE /\ disp' = "ended"
          /\ shut' = IF shut = "waiting" THEN "check" ELSE shut
          /\ processed' = Append(processed, content[nextEvent].id)
      BY <1>12, <2>3 DEF DispatcherTakes, EndDispatch
    <3>2. /\ content[nextEvent].id = shutdownId /\ shutdownId # 0 /\ shutdownId \in Nat
      BY <2>1, <2>3, ContentTyped, IdsArePositive DEF ShutdownInv, OneShutdownHere
    <3>3. shut # "idle" /\ shut' # "idle"
      BY <1>0, <3>1, <3>2
    <3>4. shutdownId' \in Done'
      <4>1. /\ Len(processed') = Len(processed) + 1 /\ Len(processed) \in Nat
            /\ processed'[Len(processed) + 1] = shutdownId
        BY <1>0, <3>1, <3>2, AppendProperties
      <4>2. Len(processed) + 1 \in 1 .. Len(processed')
        BY <4>1
      <4> QED BY <2>1, <4>1, <4>2 DEF Done, Members
    <3>5. shut' = "done" <=> shut = "done"
      BY <3>1
    <3> HIDE DEF Done
    <3> QED BY <1>0, <2>1, <3>1, <3>3, <3>4, <3>5
  <2> QED BY <2>2, <2>3
<1>13. CASE ShutdownSends
  <2>1. /\ shut = "idle" /\ shut' = "check" /\ lastId' = lastId + 1
        /\ shutdownId' = shutdownId \/ shutdownId' = lastId + 1
        /\ UNCHANGED <<discarded, alive, disp, processed>>
    BY <1>13 DEF ShutdownSends
  <2> QED BY <1>0, <2>1
<1>14. CASE ShutdownChecks
  <2>1. /\ shut = "check" /\ shut' \in {"waiting", "reset"}
        /\ UNCHANGED <<discarded, alive, disp, processed, shutdownId, lastId>>
    BY <1>14 DEF ShutdownChecks
  <2> QED BY <1>0, <1>1, <2>1
<1>15. CASE ShutdownResets
  <2>1. /\ shut = "reset" /\ shut' = "done"
        /\ UNCHANGED <<alive, disp, processed, shutdownId, lastId>>
    BY <1>15 DEF ShutdownResets
  <2> QED BY <1>0, <1>1, <2>1
<1> QED BY <1>4, <1>5, <1>6, <1>7, <1>8, <1>9, <1>10, <1>11, <1>12, <1>13, <1>14, <1>15 DEF Next

LEMMA ShutdownInvariant == Spec => []ShutdownInv
<1>1. Init => ShutdownInv
  <2> SUFFICES ASSUME Init PROVE ShutdownInv
    OBVIOUS
  <2>1. ShutdownKnown
    <3>1. alive = FALSE /\ disp = "absent" /\ shut = "idle" /\ shutdownId = 0 /\ lastId = 0
          /\ discarded = {}
      BY DEF Init
    <3> QED BY <3>1 DEF ShutdownKnown
  <2>2. OneShutdownHere /\ OneShutdownThere
    BY DEF Init, Native!Init, OneShutdownHere, OneShutdownThere, Blank, Shutdown
  <2> QED BY <2>1, <2>2 DEF ShutdownInv
<1>2. /\ IInv /\ Startup /\ FlowInv /\ QueueFacts /\ QueueFacts' /\ ShutdownInv /\ [Next]_vars
      => ShutdownInv'
  BY OneShutdownKeeps, ShutdownKnownKeeps DEF ShutdownInv
<1> QED BY <1>1, <1>2, ListInvariant, StartupInvariant, FlowInvariant, NativeQueueIsRead, PTL
        DEF Spec

(* When shutdown goes on to reset the native queue, what was stored before *)
(* its own event has been handled: the dispatcher ended with that event,   *)
(* and everything older was before it.                                     *)
THEOREM ShutdownEmptiesQueues == Spec => ShutdownDrains
<1>1. /\ IInv /\ Startup /\ FlowInv /\ QueueFacts /\ ShutdownInv /\ [Next]_vars
      => (shut # "reset" /\ shut' = "reset" /\ disp # "new"
            => \A id \in 1 .. shutdownId : id \in Handled)
  <2> SUFFICES ASSUME IInv, Startup, FlowInv, QueueFacts, ShutdownInv, [Next]_vars,
                      shut # "reset", shut' = "reset", disp # "new",
                      NEW id \in 1 .. shutdownId
               PROVE  id \in Handled
    OBVIOUS
  <2>1. ShutdownChecks
    <3>1. ASSUME NEW o, NEW e, Post(o, e) PROVE shut' # "reset"
      BY <3>1 DEF Post, NotifyAll
    <3>2. ~(\E t \in Type : VMStores(t) \/ JavaPosts(t) \/ Remove(t))
      BY <3>1 DEF VMStores, JavaPosts, Remove, shutVars
    <3>3. ~(Start \/ MonitorGets \/ MonitorWaits \/ DispatcherStarts \/ DispatcherWaits
            \/ DispatcherProcesses \/ UNCHANGED vars)
      BY DEF Start, MonitorGets, MonitorWaits, DispatcherStarts, DispatcherWaits,
         DispatcherProcesses, vars, shutVars
    <3>4. ~MonitorPosts
      BY <3>1 DEF MonitorPosts
    <3>5. ~MonitorDrains
      BY <3>1 DEF MonitorDrains
    <3>6. ~(DispatcherTakes \/ ShutdownSends \/ ShutdownResets)
      BY DEF DispatcherTakes, EndDispatch, ShutdownSends, ShutdownResets
    <3> QED BY <3>2, <3>3, <3>4, <3>5, <3>6 DEF Next
  <2>2. ~alive /\ shut = "check"
    BY <2>1 DEF ShutdownChecks
  <2>3. disp = "ended" /\ discarded = {} /\ shutdownId \in Done /\ shutdownId \in 0 .. lastId
    <3>1. disp # "absent" /\ disp \in {"absent", "new", "take", "waiting", "process", "ended"}
      BY <2>2 DEF Startup, IInv, Basics
    <3> QED BY <2>2, <3>1 DEF ShutdownInv, ShutdownKnown
  <2>4. lastId \in Nat /\ lastId <= MaxStores + 1 /\ MaxStores \in Nat
    BY <2>2, DispatchAssumption DEF DispatchAssumption, Startup
  <2>5. /\ id \in 1 .. lastId /\ id \in NativeId /\ shutdownId \in NativeId
        /\ id <= shutdownId
    BY <2>3, <2>4 DEF NativeId
  <2>6. PICK k \in Nat : \E q \in [1 .. k -> Obj] : Listed(k, q) /\ Flow(k, q)
    BY DEF FlowInv
  <2>7. PICK q \in [1 .. k -> Obj] : Listed(k, q) /\ Flow(k, q)
    BY <2>6
  <2>8. id \in Done \/ id \in Now \cup Waits(k, q) \cup Held \cup InStore \/ id \in gone
    BY <2>3, <2>5, <2>7 DEF Flow
  <2>9. id \notin Now \cup Waits(k, q) \cup Held \cup InStore
    <3>1. SUFFICES ASSUME id \in Now \cup Waits(k, q) \cup Held \cup InStore PROVE FALSE
      OBVIOUS
    <3>2. shutdownId < id
      BY <2>3, <2>5, <2>7, <3>1 DEF Flow, Layered, Earlier
    <3> QED BY <2>3, <2>4, <2>5, <3>2
  <2>10. Done = Ids(processed)
    <3>1. DOMAIN processed = 1 .. Len(processed)
      BY <2>7, LenProperties DEF Flow
    <3> QED BY <3>1 DEF Done, Ids, Members
  <2> QED BY <2>8, <2>9, <2>10 DEF Handled
<1> QED BY <1>1, ListInvariant, StartupInvariant, FlowInvariant, NativeQueueIsRead,
           ShutdownInvariant, PTL DEF Spec, ShutdownDrains
=============================================================================
