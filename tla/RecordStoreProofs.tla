-------------------------- MODULE RecordStoreProofs --------------------------
(***************************************************************************)
(* RecordStore for every limit, number of handles and of records, and for  *)
(* all contents of records, those that look like headers of blocks among   *)
(* them: as long as no data was taken for a block, the file is consistent, *)
(* lookups find what it holds, and it implements the table of records.     *)
(***************************************************************************)
EXTENDS RecordStore, FiniteSetTheorems, FunctionTheorems, SequenceTheorems,
        WellFoundedInduction, NaturalsInduction, TLAPS

Headers == [nextId : Nat, numLive : Int, dataSize : Nat, freeSize : Nat]
Stores == [cells : Seq(Cell), disk : Headers, hdr : Headers,
           cache : {Null} \cup [Id -> Nat], last : Nat,
           images : Seq([cells : Seq(Cell), disk : Headers])]

(* What a game stores is data, whatever it looks like. *)
LEMMA DataIs ==
  ASSUME NEW d \in Data
  PROVE  /\ d \in Seq(Cell) /\ Len(d) \in Nat
         /\ \A k \in 1 .. Len(d) : d[k].data = TRUE
<1> DEFINE S == [id : Int, len : Nat, data : {TRUE}]
<1>1. d \in Seq(S)
  BY StoreAssumption
<1>2. S \subseteq Cell
  BY DEF Cell
<1>3. \A x \in S : x.data = TRUE
  OBVIOUS
<1> HIDE DEF S
<1>4. Len(d) \in Nat /\ \A k \in 1 .. Len(d) : d[k] \in S
  BY <1>1, LenProperties, ElementOfSeq
<1>5. d \in Seq(Cell)
  BY <1>1, <1>2
<1> QED BY <1>3, <1>4, <1>5

-----------------------------------------------------------------------------
(* Numbers. *)

(* A set of natural numbers that is not empty has a least element. *)
LEMMA LeastElement ==
  ASSUME NEW T, T \subseteq Nat, T # {}
  PROVE  \E n \in T : \A m \in T : n <= m
<1>1. PICK n \in T : \A m \in T : ~(<<m, n>> \in OpToRel(<, Nat))
  BY WFMin, NatLessThanWellFounded, Zenon
<1>2. ASSUME NEW m \in T PROVE n <= m
  <2>1. m \in Nat /\ n \in Nat
    OBVIOUS
  <2>2. ~(m < n)
    BY <1>1, <2>1, Zenon DEF OpToRel
  <2> QED BY <2>1, <2>2
<1> QED BY <1>2

(* One with an upper bound has a greatest. *)
LEMMA GreatestElement ==
  ASSUME NEW T, T \subseteq Nat, T # {}, NEW N \in Nat, \A n \in T : n <= N
  PROVE  \E n \in T : \A m \in T : m <= n
<1> DEFINE U == {N - n : n \in T}
<1>1. U \subseteq Nat /\ U # {}
  <2>1. \A n \in T : N - n \in Nat
    OBVIOUS
  <2> QED BY <2>1
<1>2. PICK u \in U : \A v \in U : u <= v
  <2> HIDE DEF U
  <2> QED BY <1>1, LeastElement
<1>3. PICK n \in T : u = N - n
  BY <1>2
<1>4. ASSUME NEW m \in T PROVE m <= n
  <2>1. N - m \in U
    OBVIOUS
  <2>2. N - n <= N - m /\ m \in Nat /\ n \in Nat
    BY <1>2, <1>3, <2>1
  <2> QED BY <2>2
<1> QED BY <1>4

(* What is in a set that has a, and n + 1 whenever it has n: all numbers   *)
(* from a to b.                                                            *)
LEMMA UpTo ==
  ASSUME NEW a \in Nat, NEW b \in Nat, NEW T, a \in T,
         \A n \in a + 1 .. b : n - 1 \in T => n \in T
  PROVE  a .. b \subseteq T
<1> DEFINE U == (a .. b) \ T
<1> SUFFICES ASSUME U # {} PROVE FALSE
  OBVIOUS
<1>1. PICK n \in U : \A m \in U : n <= m
  <2>1. U \subseteq Nat
    OBVIOUS
  <2> HIDE DEF U
  <2> QED BY <2>1, LeastElement
<1>2. n \in a + 1 .. b /\ n - 1 \in a .. b /\ ~(n <= n - 1)
  BY <1>1
<1> QED BY <1>1, <1>2

(* What CHOOSE makes of Min and Max. *)
LEMMA MinOfSet ==
  ASSUME NEW T, T \subseteq Nat, T # {}
  PROVE  Min(T) \in T /\ \A m \in T : Min(T) <= m
<1>1. \E n \in T : \A m \in T : n <= m
  BY LeastElement
<1> QED BY <1>1 DEF Min

LEMMA MaxOfSet ==
  ASSUME NEW T, T \subseteq Nat, T # {}, NEW N \in Nat, \A n \in T : n <= N
  PROVE  Max(T) \in T /\ \A m \in T : m <= Max(T)
<1>1. \E n \in T : \A m \in T : m <= n
  BY GreatestElement
<1> QED BY <1>1 DEF Max

-----------------------------------------------------------------------------
(* Blocks.  After is where the block after the one at i begins.  A layout  *)
(* of D cells: B is where the blocks begin that cover them.                *)
After(c, i) == i + BlockSize(c[i].len)

Layout(c, D, B) ==
  /\ B \subseteq 1 .. D
  /\ D \in 0 .. Len(c)
  /\ D > 0 => 1 \in B
  /\ \A i \in B : After(c, i) \in B \cup {D + 1}
  /\ \A i, j \in B : i < j => After(c, i) <= j

(* The recursion of Blocks has a solution: from i it reaches what is in    *)
(* every set with i that is closed under After.                            *)
From(c, upto, f) ==
  [i \in Nat \ {0} |->
     IF i > upto \/ i > Len(c) THEN {} ELSE {i} \cup f[i + BlockSize(c[i].len)]]

LEMMA FromHasSolution ==
  ASSUME NEW c \in Seq(Cell), NEW upto \in Nat
  PROVE  \E f : f = From(c, upto, f)
<1> DEFINE P == Nat \ {0}
           Ok(k) == k <= upto /\ k <= Len(c)
           IsClosed(S) == \A k \in S : Ok(k) => After(c, k) \in S
           R(i, j) == \A S \in SUBSET P : i \in S /\ IsClosed(S) => j \in S
           f == [i \in P |-> {j \in P : Ok(j) /\ R(i, j)}]
<1>1. \A k \in P : Ok(k) => After(c, k) \in P
  <2> SUFFICES ASSUME NEW k \in P, Ok(k) PROVE After(c, k) \in P
    OBVIOUS
  <2>1. k \in 1 .. Len(c)
    BY LenProperties
  <2>2. c[k] \in Cell
    BY <2>1, ElementOfSeq
  <2> QED BY <2>2 DEF Cell, After, BlockSize
<1>2. ASSUME NEW i \in P PROVE f[i] = From(c, upto, f)[i]
  <2>1. CASE ~Ok(i)
    <3>1. IsClosed({i}) /\ {i} \in SUBSET P
      BY <2>1
    <3>2. f[i] = {}
      <4> SUFFICES ASSUME NEW j \in f[i] PROVE FALSE
        OBVIOUS
      <4>1. Ok(j) /\ R(i, j)
        OBVIOUS
      <4>2. j = i
        BY <4>1, <3>1
      <4> QED BY <4>1, <4>2, <2>1
    <3>3. From(c, upto, f)[i] = {}
      <4>1. Len(c) \in Nat
        BY LenProperties
      <4> QED BY <2>1, <4>1 DEF From
    <3> QED BY <3>2, <3>3
  <2>2. CASE Ok(i)
    <3> DEFINE n == After(c, i)
    <3>1. n \in P
      BY <1>1, <2>2
    <3>2. From(c, upto, f)[i] = {i} \cup f[n]
      <4>1. Len(c) \in Nat
        BY LenProperties
      <4> QED BY <2>2, <4>1 DEF From, After
    <3>3. \A S \in SUBSET P : i \in S /\ IsClosed(S) => n \in S
      BY <2>2
    <3>4. ASSUME NEW j \in P, R(i, j), j # i PROVE R(n, j)
      <4> SUFFICES ASSUME NEW S \in SUBSET P, n \in S, IsClosed(S) PROVE j \in S
        OBVIOUS
      <4>1. S \cup {i} \in SUBSET P /\ IsClosed(S \cup {i})
        OBVIOUS
      <4>2. j \in S \cup {i}
        BY <4>1, <3>4
      <4> QED BY <4>2, <3>4
    <3> HIDE DEF n
    <3>5. \A j \in P : R(i, j) <=> (j = i \/ R(n, j))
      <4> SUFFICES ASSUME NEW j \in P PROVE R(i, j) <=> (j = i \/ R(n, j))
        OBVIOUS
      <4>1. R(n, j) => R(i, j)
        BY <3>3
      <4>2. R(i, i)
        OBVIOUS
      <4> HIDE DEF R
      <4> QED BY <4>1, <4>2, <3>4
    <3> HIDE DEF R
    <3>6. f[i] = {i} \cup f[n]
      BY <3>5, <3>1, <2>2
    <3> QED BY <3>2, <3>6
  <2> QED BY <2>1, <2>2
<1>3. f = From(c, upto, f)
  <2> DEFINE g == From(c, upto, f)
  <2>1. g = [i \in P |-> g[i]]
    BY DEF From
  <2>2. f = [i \in P |-> f[i]]
    OBVIOUS
  <2> HIDE DEF f, g
  <2>3. \A i \in P : f[i] = g[i]
    BY <1>2 DEF g
  <2> QED BY <2>1, <2>2, <2>3 DEF g
<1> QED BY <1>3

(* In a layout it finds the blocks. *)
LEMMA BlocksFrom ==
  ASSUME NEW s, NEW B, NEW D, s.cells \in Seq(Cell), Layout(s.cells, D, B),
         NEW from \in B \cup {D + 1}
  PROVE  Blocks(s, from, D) = {i \in B : i >= from}
<1> DEFINE c == s.cells
           at == CHOOSE f : f = From(c, D, f)
           U == {i \in B \cup {D + 1} : at[i] # {j \in B : j >= i}}
<1>0. D \in Nat /\ B \subseteq Nat \ {0} /\ Len(c) \in Nat /\ B \subseteq 1 .. Len(c)
      /\ \A i \in B : i <= D
  BY LenProperties DEF Layout
<1>1. at = From(c, D, at)
  BY <1>0, FromHasSolution
<1>2. Blocks(s, from, D) = at[from]
  BY DEF Blocks, From
<1> HIDE DEF at
<1> SUFFICES ASSUME U # {} PROVE FALSE
  BY <1>2
<1>3. PICK i \in U : \A j \in U : j <= i
  <2>1. U \subseteq Nat /\ \A j \in U : j <= D + 1
    <3>1. \A j \in B \cup {D + 1} : j \in Nat /\ j <= D + 1
      BY <1>0
    <3> QED BY <3>1
  <2>2. D + 1 \in Nat
    BY <1>0
  <2> HIDE DEF U
  <2> QED BY <2>1, <2>2, GreatestElement
<1>4. CASE i = D + 1
  <2>1. at[i] = {}
    <3>1. D + 1 \in Nat \ {0} /\ D + 1 > D
      BY <1>0
    <3> QED BY <3>1, <1>4, <1>1 DEF From
  <2>2. {j \in B : j >= D + 1} = {}
    <3>1. \A j \in B : ~(j >= D + 1)
      BY <1>0
    <3> QED BY <3>1
  <2> QED BY <2>1, <2>2, <1>3, <1>4
<1>5. CASE i \in B
  <2> DEFINE n == After(c, i)
  <2>1. n \in B \cup {D + 1} /\ n > i /\ n \in Nat
    <3>1. c[i] \in Cell
      BY <1>0, <1>5, ElementOfSeq
    <3>2. n \in B \cup {D + 1}
      BY <1>5 DEF Layout
    <3>3. c[i].len \in Nat /\ i \in Nat /\ n = i + (c[i].len + 1)
      BY <3>1, <1>0, <1>5 DEF Cell, After, BlockSize
    <3> HIDE DEF n
    <3> QED BY <3>2, <3>3, <1>0
  <2>2. at[n] = {j \in B : j >= n}
    <3>1. n \notin U
      BY <1>3, <2>1, <1>0, <1>5
    <3> QED BY <3>1, <2>1
  <2>3. at[i] = {i} \cup at[n]
    <3>1. i \in Nat \ {0} /\ ~(i > D \/ i > Len(c))
      BY <1>0, <1>5
    <3> QED BY <3>1, <1>1 DEF From, After
  <2>4. \A j \in B : j >= i <=> (j = i \/ j >= n)
    <3>1. \A j \in B : i < j => n <= j
      BY <1>5 DEF Layout
    <3> HIDE DEF n
    <3> QED BY <3>1, <2>1, <1>0, <1>5
  <2> QED BY <2>2, <2>3, <2>4, <1>5, <1>3
<1> QED BY <1>3, <1>4, <1>5

LEMMA BlocksAre ==
  ASSUME NEW s, NEW B, s.cells \in Seq(Cell), Layout(s.cells, s.hdr.dataSize, B)
  PROVE  AllBlocks(s) = B
<1> DEFINE D == s.hdr.dataSize
<1>1. 1 \in B \cup {D + 1} /\ \A i \in B : i >= 1
  BY DEF Layout
<1>2. Blocks(s, 1, D) = {i \in B : i >= 1}
  BY <1>1, BlocksFrom
<1> QED BY <1>1, <1>2 DEF AllBlocks

-----------------------------------------------------------------------------
(* Writes.  e is c with the cells of new from at on. *)
Written(c, e, at, new) ==
  /\ e \in Seq(Cell)
  /\ Len(c) <= Len(e) /\ at + Len(new) - 1 <= Len(e)
  /\ Len(e) = Len(c) \/ Len(e) = at + Len(new) - 1
  /\ \A p \in 1 .. Len(e) :
       e[p] = IF p \in at .. at + Len(new) - 1 THEN new[p - at + 1] ELSE c[p]

LEMMA MaxOfTwo ==
  ASSUME NEW a \in Nat, NEW b \in Nat
  PROVE  Max({a, b}) = IF a >= b THEN a ELSE b
<1> DEFINE T == {a, b}
           N == IF a >= b THEN a ELSE b
<1>1. T \subseteq Nat /\ T # {} /\ N \in Nat /\ \A n \in T : n <= N
  OBVIOUS
<1>2. Max(T) \in T /\ \A m \in T : m <= Max(T)
  <2> HIDE DEF T, N
  <2> QED BY <1>1, MaxOfSet
<1> QED BY <1>2

LEMMA ImageIsStore ==
  ASSUME NEW s \in Stores
  PROVE  /\ Image(s) \in Stores
         /\ Image(s).cells = s.cells /\ Image(s).disk = s.disk /\ Image(s).hdr = s.hdr
         /\ Image(s).cache = s.cache /\ Image(s).last = s.last
<1> DEFINE I == [cells : Seq(Cell), disk : Headers]
           i == [cells |-> s.cells, disk |-> s.disk]
<1>1. s.images \in Seq(I) /\ i \in I
  BY DEF Stores
<1>2. Append(s.images, i) \in Seq(I)
  <2> HIDE DEF I, i
  <2> QED BY <1>1, AppendProperties
<1>3. Image(s) = [s EXCEPT !.images = Append(s.images, i)]
  BY DEF Image
<1> HIDE DEF i
<1> QED BY <1>2, <1>3 DEF Stores

LEMMA CellsWritten ==
  ASSUME NEW s \in Stores, NEW at \in 1 .. Len(s.cells) + 1, NEW new \in Seq(Cell)
  PROVE  LET w == WriteCells(s, at, new)
         IN  /\ w \in Stores
             /\ Written(s.cells, w.cells, at, new)
             /\ w.disk = s.disk /\ w.hdr = s.hdr /\ w.cache = s.cache /\ w.last = s.last
<1> DEFINE w == WriteCells(s, at, new)
           c == s.cells
           n == Max({Len(c), at + Len(new) - 1})
           e == [i \in 1 .. n |-> IF i \in at .. at + Len(new) - 1 THEN new[i - at + 1] ELSE c[i]]
           v == [s EXCEPT !.cells = e]
<1>1. c \in Seq(Cell) /\ Len(c) \in Nat /\ Len(new) \in Nat /\ at \in Nat \ {0}
  <2>1. c \in Seq(Cell)
    BY DEF Stores
  <2> QED BY <2>1, LenProperties
<1>2. CASE new = <<>>
  <2>1. w = s /\ Len(new) = 0
    BY <1>2, EmptySeq DEF WriteCells
  <2>2. Written(c, c, at, new)
    BY <1>1, <2>1 DEF Written
  <2> QED BY <2>1, <2>2
<1>3. CASE new # <<>>
  <2>1. w = Image(v)
    BY <1>3 DEF WriteCells
  <2>2. n \in Nat /\ n >= Len(c) /\ n >= at + Len(new) - 1
        /\ (n = Len(c) \/ n = at + Len(new) - 1)
    <3>1. at + Len(new) - 1 \in Nat
      BY <1>1
    <3> QED BY <3>1, <1>1, MaxOfTwo
  <2> HIDE DEF n
  <2>3. \A i \in 1 .. n : (IF i \in at .. at + Len(new) - 1 THEN new[i - at + 1] ELSE c[i]) \in Cell
    <3> SUFFICES ASSUME NEW i \in 1 .. n
                 PROVE  (IF i \in at .. at + Len(new) - 1 THEN new[i - at + 1] ELSE c[i]) \in Cell
      OBVIOUS
    <3>1. CASE i \in at .. at + Len(new) - 1
      <4>1. i - at + 1 \in 1 .. Len(new)
        BY <1>1, <3>1
      <4> QED BY <3>1, <4>1, ElementOfSeq
    <3>2. CASE i \notin at .. at + Len(new) - 1
      <4>1. i \in 1 .. Len(c)
        BY <1>1, <3>2, <2>2
      <4> QED BY <3>2, <4>1, <1>1, ElementOfSeq
    <3> QED BY <3>1, <3>2
  <2>4. e \in Seq(Cell) /\ Len(e) = n
    BY <2>2, <2>3
  <2>5. Written(c, e, at, new)
    BY <2>2, <2>4 DEF Written
  <2> HIDE DEF e
  <2>6. v \in Stores /\ v.cells = e /\ v.disk = s.disk /\ v.hdr = s.hdr
        /\ v.cache = s.cache /\ v.last = s.last
    BY <2>4 DEF Stores
  <2> HIDE DEF v, w, c
  <2> QED BY <2>1, <2>5, <2>6, ImageIsStore DEF w, c
<1> QED BY <1>2, <1>3

LEMMA HeaderWritten ==
  ASSUME NEW s \in Stores, NEW fields
  PROVE  LET w == WriteHeader(s, fields)
         IN  /\ w \in Stores
             /\ w.cells = s.cells /\ w.hdr = s.hdr /\ w.cache = s.cache /\ w.last = s.last
             /\ w.disk.nextId = IF "nextId" \in fields THEN s.hdr.nextId ELSE s.disk.nextId
             /\ w.disk.numLive = IF "numLive" \in fields THEN s.hdr.numLive ELSE s.disk.numLive
             /\ w.disk.dataSize = IF "dataSize" \in fields THEN s.hdr.dataSize ELSE s.disk.dataSize
             /\ w.disk.freeSize = IF "freeSize" \in fields THEN s.hdr.freeSize ELSE s.disk.freeSize
<1> DEFINE w == WriteHeader(s, fields)
           d == [f \in DOMAIN s.disk |-> IF f \in fields THEN s.hdr[f] ELSE s.disk[f]]
           v == [s EXCEPT !.disk = d]
<1>1. s.disk \in Headers /\ s.hdr \in Headers
  BY DEF Stores
<1>2. DOMAIN s.disk = {"nextId", "numLive", "dataSize", "freeSize"}
  BY <1>1 DEF Headers
<1>3. /\ d.nextId = IF "nextId" \in fields THEN s.hdr.nextId ELSE s.disk.nextId
      /\ d.numLive = IF "numLive" \in fields THEN s.hdr.numLive ELSE s.disk.numLive
      /\ d.dataSize = IF "dataSize" \in fields THEN s.hdr.dataSize ELSE s.disk.dataSize
      /\ d.freeSize = IF "freeSize" \in fields THEN s.hdr.freeSize ELSE s.disk.freeSize
  BY <1>2
<1>4. d = [nextId |-> d.nextId, numLive |-> d.numLive, dataSize |-> d.dataSize,
           freeSize |-> d.freeSize]
  BY <1>2
<1>5. d \in Headers
  <2> HIDE DEF d
  <2>1. d.nextId \in Nat /\ d.numLive \in Int /\ d.dataSize \in Nat /\ d.freeSize \in Nat
    BY <1>1, <1>3 DEF Headers
  <2>2. [nextId |-> d.nextId, numLive |-> d.numLive, dataSize |-> d.dataSize,
         freeSize |-> d.freeSize] \in Headers
    BY <2>1 DEF Headers
  <2> QED BY <2>2, <1>4
<1>6. w = Image(v)
  BY DEF WriteHeader
<1> HIDE DEF d
<1>7. v \in Stores /\ v.cells = s.cells /\ v.disk = d /\ v.hdr = s.hdr
      /\ v.cache = s.cache /\ v.last = s.last
  BY <1>5 DEF Stores
<1> HIDE DEF v, w
<1> QED BY <1>3, <1>6, <1>7, ImageIsStore DEF w

(* A header of which all fields are written is the one in memory. *)
LEMMA HeadersEqual ==
  ASSUME NEW g \in Headers, NEW h \in Headers, g.nextId = h.nextId, g.numLive = h.numLive,
         g.dataSize = h.dataSize, g.freeSize = h.freeSize
  PROVE  g = h
BY DEF Headers

-----------------------------------------------------------------------------
(* writeBlock: e is c with a block of data at at, whose header may say     *)
(* more than the data needs (a block that is freed keeps its length).      *)
BlockIn(c, e, at, id, len, data) ==
  /\ e \in Seq(Cell)
  /\ Len(c) <= Len(e) /\ at + Len(data) <= Len(e)
  /\ Len(e) = Len(c) \/ Len(e) = at + Len(data)
  /\ e[at].id = id /\ e[at].len = len /\ e[at].data = FALSE
  /\ \A p \in 1 .. Len(e) :
       p # at => e[p] = IF p \in at + 1 .. at + Len(data) THEN data[p - at] ELSE c[p]

(* The index then has the record at at. *)
Indexed(index, id, at) ==
  IF index = Null \/ id = IsFree THEN index ELSE [index EXCEPT ![id] = at]

LEMMA BlockWritten ==
  ASSUME NEW s \in Stores, NEW at \in 1 .. Len(s.cells) + 1, NEW id \in Id \cup {IsFree},
         NEW len \in Nat, NEW data \in Seq(Cell)
  PROVE  LET w == writeBlock(s, at, id, len, data)
         IN  /\ w \in Stores
             /\ BlockIn(s.cells, w.cells, at, id, len, data)
             /\ w.disk = s.disk /\ w.hdr = s.hdr /\ w.last = s.last
             /\ w.cache = Indexed(s.cache, id, at)
<1> DEFINE w == writeBlock(s, at, id, len, data)
           c == s.cells
           b == Header(id, len)
           u == WriteCells(s, at, <<b>>)
           v == WriteCells(u, at + 1, data)
<1>1. c \in Seq(Cell) /\ Len(c) \in Nat /\ Len(data) \in Nat /\ at \in Nat \ {0}
  <2>1. c \in Seq(Cell)
    BY DEF Stores
  <2> QED BY <2>1, LenProperties
<1>2. /\ id \in Int /\ b \in Cell /\ <<b>> \in Seq(Cell) /\ Len(<<b>>) = 1 /\ <<b>>[1] = b
      /\ b.id = id /\ b.len = len /\ b.data = FALSE
  BY StoreAssumption DEF Id, IsFree, Cell, Header
<1> HIDE DEF b
<1>3. /\ u \in Stores /\ Written(c, u.cells, at, <<b>>)
      /\ u.disk = s.disk /\ u.hdr = s.hdr /\ u.cache = s.cache /\ u.last = s.last
  BY <1>2, CellsWritten
<1> HIDE DEF u
<1>4. /\ u.cells \in Seq(Cell) /\ Len(u.cells) \in Nat
      /\ Len(c) <= Len(u.cells) /\ at <= Len(u.cells)
      /\ Len(u.cells) = Len(c) \/ Len(u.cells) = at
      /\ \A p \in 1 .. Len(u.cells) : u.cells[p] = IF p = at THEN b ELSE c[p]
  <2>1. u.cells \in Seq(Cell) /\ Len(u.cells) \in Nat
    BY <1>3, LenProperties DEF Written
  <2>2. at .. at + Len(<<b>>) - 1 = {at} /\ at + Len(<<b>>) - 1 = at
    BY <1>1, <1>2
  <2>3. at - at + 1 = 1
    BY <1>1
  <2> QED BY <1>2, <1>3, <2>1, <2>2, <2>3 DEF Written
<1>5. /\ v \in Stores /\ Written(u.cells, v.cells, at + 1, data)
      /\ v.disk = s.disk /\ v.hdr = s.hdr /\ v.cache = s.cache /\ v.last = s.last
  <2>1. at + 1 \in 1 .. Len(u.cells) + 1
    BY <1>1, <1>4
  <2>2. u \in Stores /\ data \in Seq(Cell)
    BY <1>3
  <2>3. /\ v \in Stores /\ Written(u.cells, v.cells, at + 1, data)
        /\ v.disk = u.disk /\ v.hdr = u.hdr /\ v.cache = u.cache /\ v.last = u.last
    BY <2>1, <2>2, CellsWritten
  <2> HIDE DEF v
  <2> QED BY <1>3, <2>3
<1> HIDE DEF v
<1>6. BlockIn(c, v.cells, at, id, len, data)
  <2>1. /\ v.cells \in Seq(Cell) /\ Len(v.cells) \in Nat
        /\ Len(u.cells) <= Len(v.cells) /\ at + Len(data) <= Len(v.cells)
        /\ Len(v.cells) = Len(u.cells) \/ Len(v.cells) = at + Len(data)
        /\ \A p \in 1 .. Len(v.cells) : v.cells[p] =
             IF p \in at + 1 .. at + Len(data) THEN data[p - at] ELSE u.cells[p]
    <3> DEFINE top == at + 1 + Len(data) - 1
    <3>1. top = at + Len(data)
      BY <1>1
    <3>2. v.cells \in Seq(Cell) /\ Len(v.cells) \in Nat
      BY <1>5, LenProperties DEF Written
    <3>3. /\ Len(u.cells) <= Len(v.cells) /\ top <= Len(v.cells)
          /\ Len(v.cells) = Len(u.cells) \/ Len(v.cells) = top
          /\ \A p \in 1 .. Len(v.cells) : v.cells[p] =
               IF p \in at + 1 .. top THEN data[p - (at + 1) + 1] ELSE u.cells[p]
      BY <1>5, Zenon DEF Written
    <3> HIDE DEF top, c
    <3>4. \A p \in 1 .. Len(v.cells) : p - (at + 1) + 1 = p - at
      BY <1>1, <3>2
    <3> QED BY <3>1, <3>2, <3>3, <3>4
  <2>2. v.cells[at] = b
    <3>1. at \in 1 .. Len(v.cells) /\ at \notin at + 1 .. at + Len(data)
      BY <2>1, <1>1, <1>4
    <3> QED BY <3>1, <2>1, <1>4, <1>1
  <2>3. b.id = id /\ b.len = len /\ b.data = FALSE
    BY <1>2
  <2>4. ASSUME NEW p \in 1 .. Len(v.cells), p # at, p \notin at + 1 .. at + Len(data)
        PROVE  v.cells[p] = c[p]
    <3>1. v.cells[p] = u.cells[p]
      BY <2>1, <2>4
    <3>2. p \in 1 .. Len(u.cells)
      BY <2>1, <2>4, <1>1, <1>4
    <3> QED BY <3>1, <3>2, <1>4, <2>4
  <2>5. Len(c) <= Len(v.cells) /\ (Len(v.cells) = Len(c) \/ Len(v.cells) = at + Len(data))
    BY <2>1, <1>4, <1>1
  <2> QED BY <2>1, <2>2, <2>3, <2>4, <2>5 DEF BlockIn
<1>7. w = updateBlock(v, at, id)
  BY DEF writeBlock, u, v, b
<1>8. CASE s.cache = Null \/ id = IsFree
  BY <1>5, <1>6, <1>7, <1>8 DEF updateBlock, Indexed
<1>9. CASE ~(s.cache = Null \/ id = IsFree)
  <2>1. w = [v EXCEPT !.cache = [v.cache EXCEPT ![id] = at]]
    BY <1>5, <1>7, <1>9 DEF updateBlock
  <2>2. v.cache \in [Id -> Nat]
    BY <1>5, <1>9 DEF Stores
  <2>3. [v.cache EXCEPT ![id] = at] \in [Id -> Nat]
    BY <2>2, <1>1
  <2>4. w \in Stores /\ w.cells = v.cells /\ w.disk = v.disk /\ w.hdr = v.hdr
        /\ w.last = v.last /\ w.cache = [v.cache EXCEPT ![id] = at]
    BY <2>1, <2>3, <1>5 DEF Stores
  <2> HIDE DEF w
  <2> QED BY <2>4, <1>5, <1>6, <1>9 DEF w, Indexed
<1> QED BY <1>8, <1>9

-----------------------------------------------------------------------------
(* Sound files.  Live blocks hold records, each of another identifier, and *)
(* the cells that begin no block are data.                                 *)
Live(c, B) == {i \in B : c[i].id # IsFree}

Unused(c, B) == UNION {i .. i + c[i].len : i \in {j \in B : c[j].id = IsFree}}

FileSound(c, D, B) ==
  /\ c \in Seq(Cell)
  /\ Layout(c, D, B)
  /\ \A i \in Live(c, B) : c[i].id \in Id
  /\ \A i, j \in Live(c, B) : c[i].id = c[j].id => i = j
  /\ \A i \in B : c[i].data = FALSE
  /\ \A p \in (1 .. D) \ B : c[p].data = TRUE

(* The records as a set of pairs. *)
DataAt(c, i) == SubSeq(c, i + 1, i + c[i].len)

Held(c, B) == {<<c[i].id, DataAt(c, i)>> : i \in Live(c, B)}

(* What is at a place of a layout. *)
LEMMA BlockFacts ==
  ASSUME NEW c \in Seq(Cell), NEW D, NEW B, Layout(c, D, B), NEW i \in B
  PROVE  /\ i \in Nat \ {0} /\ D \in Nat /\ Len(c) \in Nat /\ i \in 1 .. Len(c)
         /\ c[i] \in Cell /\ c[i].id \in Int /\ c[i].len \in Nat
         /\ i + c[i].len <= D /\ D <= Len(c)
         /\ i + c[i].len + 1 \in B \cup {D + 1}
         /\ \A j \in B : i < j => i + c[i].len < j
<1>1. B \subseteq 1 .. D /\ D \in 0 .. Len(c) /\ After(c, i) \in B \cup {D + 1}
      /\ \A j \in B : i < j => After(c, i) <= j
  BY DEF Layout
<1>2. Len(c) \in Nat
  BY LenProperties
<1>3. i \in 1 .. Len(c) /\ D \in Nat
  BY <1>1, <1>2
<1>4. c[i] \in Cell
  BY <1>3, ElementOfSeq
<1>5. c[i].len \in Nat /\ c[i].id \in Int
  BY <1>4 DEF Cell
<1>6. After(c, i) = i + c[i].len + 1
  BY <1>3, <1>5 DEF After, BlockSize
<1> HIDE DEF After
<1>7. i + c[i].len <= D
  BY <1>1, <1>3, <1>5, <1>6
<1>8. \A j \in B : i < j => i + c[i].len < j
  BY <1>1, <1>3, <1>5, <1>6
<1> QED BY <1>1, <1>2, <1>3, <1>4, <1>5, <1>6, <1>7, <1>8

(* All cells in a block but its first are data. *)
LEMMA InBlock ==
  ASSUME NEW c, NEW D, NEW B, FileSound(c, D, B), NEW i \in B,
         NEW p \in i .. i + c[i].len, p # i
  PROVE  p \in 1 .. D /\ p \notin B /\ c[p].data = TRUE
<1>1. c \in Seq(Cell) /\ Layout(c, D, B)
  BY DEF FileSound
<1>2. /\ i \in Nat \ {0} /\ D \in Nat /\ c[i].len \in Nat /\ i + c[i].len <= D
      /\ \A j \in B : i < j => i + c[i].len < j
  BY <1>1, BlockFacts
<1>3. p \in 1 .. D /\ i < p /\ ~(i + c[i].len < p)
  BY <1>2
<1>4. p \notin B
  BY <1>2, <1>3
<1> QED BY <1>3, <1>4 DEF FileSound

(* The n elements after the one at i. *)
LEMMA Slice ==
  ASSUME NEW S, NEW c \in Seq(S), NEW i \in Nat, NEW n \in Nat, i + n <= Len(c)
  PROVE  /\ SubSeq(c, i + 1, i + n) \in Seq(S)
         /\ Len(SubSeq(c, i + 1, i + n)) = n
         /\ \A k \in 1 .. n : SubSeq(c, i + 1, i + n)[k] = c[i + k]
<1> DEFINE first == i + 1
           final == i + n
           t == SubSeq(c, first, final)
<1>1. /\ first \in Int /\ final \in Int /\ final - first + 1 = n
      /\ (IF first <= final THEN final - first + 1 ELSE 0) = n
      /\ \A k \in 1 .. n : first + k - 1 = i + k
  OBVIOUS
<1>2. \A k \in first .. final : c[k] \in S
  <2>1. Len(c) \in Nat /\ \A k \in first .. final : k \in 1 .. Len(c)
    BY LenProperties
  <2> QED BY <2>1, ElementOfSeq
<1> HIDE DEF first, final
<1>3. /\ t \in Seq(S) /\ Len(t) = IF first <= final THEN final - first + 1 ELSE 0
      /\ \A k \in 1 .. final - first + 1 : t[k] = c[first + k - 1]
  BY <1>1, <1>2, SubSeqProperties
<1> HIDE DEF t
<1>4. t \in Seq(S) /\ Len(t) = n /\ \A k \in 1 .. n : t[k] = c[i + k]
  BY <1>1, <1>3
<1> QED BY <1>4 DEF first, final, t

(* Data that a change leaves alone, and data that a block was given. *)
LEMMA SameData ==
  ASSUME NEW c \in Seq(Cell), NEW e \in Seq(Cell), NEW i \in Nat \ {0}, NEW j \in Nat \ {0},
         c[i].len \in Nat, e[j].len = c[i].len,
         i + c[i].len <= Len(c), j + c[i].len <= Len(e),
         \A k \in 1 .. c[i].len : e[j + k] = c[i + k]
  PROVE  DataAt(e, j) = DataAt(c, i)
<1> DEFINE n == c[i].len
<1>0. n \in Nat /\ i + n <= Len(c) /\ j + n <= Len(e) /\ \A k \in 1 .. n : e[j + k] = c[i + k]
      /\ c[i].len = n /\ e[j].len = n
  OBVIOUS
<1> HIDE DEF n
<1>1. Len(c) \in Nat /\ Len(e) \in Nat
  BY LenProperties
<1> DEFINE s == SubSeq(c, i + 1, i + n)
           t == SubSeq(e, j + 1, j + n)
<1>2. s \in Seq(Cell) /\ Len(s) = n /\ \A k \in 1 .. n : s[k] = c[i + k]
  BY <1>0, Slice
<1>3. t \in Seq(Cell) /\ Len(t) = n /\ \A k \in 1 .. n : t[k] = e[j + k]
  BY <1>0, Slice
<1> HIDE DEF s, t
<1>4. s = t
  <2>1. Len(s) = Len(t) /\ \A k \in 1 .. Len(s) : s[k] = t[k]
    <3>1. \A k \in 1 .. n : s[k] = t[k]
      BY <1>0, <1>2, <1>3
    <3> QED BY <1>2, <1>3, <3>1
  <2> QED BY <1>2, <1>3, <2>1, SeqEqual
<1>5. DataAt(c, i) = s
  BY Zenon DEF n, s, DataAt
<1>6. DataAt(e, j) = t
  BY Zenon DEF n, t, DataAt
<1> QED BY <1>4, <1>5, <1>6, Zenon

LEMMA GivenData ==
  ASSUME NEW e \in Seq(Cell), NEW d \in Seq(Cell), NEW i \in Nat \ {0},
         e[i].len = Len(d), i + Len(d) <= Len(e),
         \A p \in i + 1 .. i + Len(d) : e[p] = d[p - i]
  PROVE  DataAt(e, i) = d
<1>1. Len(e) \in Nat /\ Len(d) \in Nat
  BY LenProperties
<1> DEFINE n == Len(d)
           t == SubSeq(e, i + 1, i + n)
<1>2. t \in Seq(Cell) /\ Len(t) = n /\ \A k \in 1 .. n : t[k] = e[i + k]
  BY <1>1, Slice
<1>3. \A k \in 1 .. n : t[k] = d[k]
  <2> SUFFICES ASSUME NEW k \in 1 .. n PROVE t[k] = d[k]
    OBVIOUS
  <2>1. i + k \in i + 1 .. i + n /\ (i + k) - i = k
    BY <1>1
  <2> HIDE DEF t
  <2> QED BY <2>1, <1>2
<1> HIDE DEF t
<1>4. t = d
  BY <1>2, <1>3, SeqEqual
<1> QED BY <1>4 DEF t, DataAt

(* Other blocks and their data are not within a block. *)
LEMMA BlocksApart ==
  ASSUME NEW c \in Seq(Cell), NEW D, NEW B, Layout(c, D, B), NEW i \in B, NEW j \in B, i # j
  PROVE  \A p \in j .. j + c[j].len : p \in 1 .. D /\ p \notin i .. i + c[i].len
<1>1. /\ i \in Nat \ {0} /\ c[i].len \in Nat /\ (i < j => i + c[i].len < j)
      /\ j \in Nat \ {0} /\ c[j].len \in Nat /\ (j < i => j + c[j].len < i)
      /\ D \in Nat /\ j + c[j].len <= D
  BY BlockFacts
<1> QED BY <1>1

(* A layout in which the block at i is replaced by those that begin at N.  *)
LEMMA LayoutReplaced ==
  ASSUME NEW c \in Seq(Cell), NEW e \in Seq(Cell), NEW D, NEW B, Layout(c, D, B), NEW i \in B,
         Len(e) = Len(c), NEW N, i \in N, N \subseteq i .. i + c[i].len,
         \A p \in 1 .. D : p \notin i .. i + c[i].len => e[p] = c[p],
         \A n \in N : After(e, n) \in N \cup {After(c, i)},
         \A m, n \in N : m < n => After(e, m) <= n
  PROVE  Layout(e, D, (B \ {i}) \cup N)
<1> DEFINE C == (B \ {i}) \cup N
<1>1. /\ i \in Nat \ {0} /\ D \in Nat /\ c[i].len \in Nat /\ i + c[i].len <= D
      /\ After(c, i) = i + c[i].len + 1 /\ After(c, i) \in B \cup {D + 1}
      /\ After(c, i) # i
      /\ B \subseteq 1 .. D /\ D \in 0 .. Len(c) /\ Len(c) \in Nat
  <2>1. /\ i \in Nat \ {0} /\ D \in Nat /\ c[i].len \in Nat /\ i + c[i].len <= D
        /\ Len(c) \in Nat
    BY BlockFacts
  <2>2. After(c, i) = i + c[i].len + 1
    BY <2>1 DEF After, BlockSize
  <2>3. After(c, i) # i
    BY <2>1, <2>2
  <2> QED BY <2>1, <2>2, <2>3 DEF Layout
<1>2. \A j \in B \ {i} : e[j] = c[j] /\ After(e, j) = After(c, j)
  <2> SUFFICES ASSUME NEW j \in B \ {i} PROVE e[j] = c[j]
    BY DEF After
  <2>1. j \in j .. j + c[j].len
    <3>1. j \in Nat /\ c[j].len \in Nat
      BY BlockFacts
    <3> QED BY <3>1
  <2> QED BY <2>1, BlocksApart
<1>3. C \subseteq 1 .. D
  BY <1>1
<1>4. D > 0 => 1 \in C
  BY DEF Layout
<1>5. \A j \in C : After(e, j) \in C \cup {D + 1}
  <2> SUFFICES ASSUME NEW j \in C PROVE After(e, j) \in C \cup {D + 1}
    OBVIOUS
  <2>1. CASE j \in N
    BY <2>1, <1>1
  <2>2. CASE j \in B \ {i}
    BY <2>2, <1>2 DEF Layout
  <2> QED BY <2>1, <2>2
<1>6. \A j, k \in C : j < k => After(e, j) <= k
  <2> SUFFICES ASSUME NEW j \in C, NEW k \in C, j < k PROVE After(e, j) <= k
    OBVIOUS
  <2>1. CASE j \in N /\ k \in N
    BY <2>1
  <2>2. CASE j \in N /\ k \in B \ {i}
    <3>1. i <= j /\ j \in Nat /\ k \in Nat
      <4>1. k \in 1 .. D /\ j \in i .. i + c[i].len
        BY <2>2, <1>1
      <4> QED BY <4>1, <1>1
    <3>2. i < k
      BY <3>1, <1>1
    <3>3. After(c, i) <= k
      BY <3>2, <2>2 DEF Layout
    <3>4. After(e, j) \in Nat /\ After(e, j) <= After(c, i) /\ After(c, i) \in Nat
      <4>1. After(e, j) \in N \cup {After(c, i)}
        BY <2>2
      <4>2. \A n \in N : n <= After(c, i) /\ n \in Nat
        BY <1>1
      <4>3. After(c, i) \in Nat
        BY <1>1
      <4>4. CASE After(e, j) \in N
        BY <4>2, <4>3, <4>4
      <4>5. CASE After(e, j) = After(c, i)
        BY <4>3, <4>5
      <4> QED BY <4>1, <4>4, <4>5
    <3> QED BY <3>1, <3>3, <3>4
  <2>3. CASE j \in B \ {i} /\ k \in N
    <3>1. j \in Nat /\ i \in Nat /\ c[j].len \in Nat /\ j # i
          /\ (i < j => i + c[i].len < j) /\ (j < i => After(c, j) <= i)
      <4>1. j \in Nat /\ c[j].len \in Nat /\ (i < j => i + c[i].len < j)
        BY <2>3, BlockFacts
      <4> QED BY <4>1, <1>1, <2>3 DEF Layout
    <3>2. k \in Nat /\ i <= k /\ k <= i + c[i].len
      BY <2>3, <1>1
    <3>3. After(c, j) \in Nat
      BY <3>1 DEF After, BlockSize
    <3>4. After(e, j) = After(c, j)
      BY <2>3, <1>2
    <3> QED BY <1>1, <3>1, <3>2, <3>3, <3>4
  <2>4. CASE j \in B \ {i} /\ k \in B \ {i}
    BY <2>4, <1>2 DEF Layout
  <2> QED BY <2>1, <2>2, <2>3, <2>4
<1> QED BY <1>1, <1>3, <1>4, <1>5, <1>6 DEF Layout

(* A sound file stays one, and what it holds and leaves unused changes by  *)
(* that block alone.  Of the new blocks only the first may hold a record.  *)
NewBlocks(c, e, D, B, i, N) ==
  /\ c \in Seq(Cell) /\ e \in Seq(Cell) /\ Len(e) = Len(c)
  /\ i \in B /\ i \in N /\ N \subseteq i .. i + c[i].len
  /\ \A p \in 1 .. D : p \notin i .. i + c[i].len => e[p] = c[p]
  /\ \A n \in N : After(e, n) \in N \cup {After(c, i)}
  /\ \A m, n \in N : m < n => After(e, m) <= n
  /\ \A n \in N \ {i} : e[n].id = IsFree
  /\ e[i].id # IsFree =>
       e[i].id \in Id /\ \A j \in Live(c, B \ {i}) : c[j].id # e[i].id
  /\ \A n \in N : e[n].data = FALSE
  /\ \A p \in i .. i + c[i].len : p \notin N => e[p].data = TRUE

Replaced(c, e, D, B, i, N) ==
  LET C == (B \ {i}) \cup N
  IN  /\ FileSound(e, D, C)
      /\ Held(e, C) = Held(c, B \ {i}) \cup Held(e, {i})
      /\ Unused(e, C) = Unused(c, B \ {i}) \cup Unused(e, N)

LEMMA BlockReplaced ==
  ASSUME NEW c, NEW e, NEW D, NEW B, NEW i, NEW N,
         FileSound(c, D, B), NewBlocks(c, e, D, B, i, N)
  PROVE  Replaced(c, e, D, B, i, N)
<1> USE DEF NewBlocks
<1> DEFINE A == B \ {i}
           C == A \cup N
<1>1. Layout(c, D, B)
  BY DEF FileSound
<1>2. Layout(e, D, C)
  BY <1>1, LayoutReplaced
<1>3. /\ D \in Nat /\ Len(c) \in Nat /\ D <= Len(c) /\ B \subseteq 1 .. D
      /\ i \in Nat \ {0} /\ c[i].len \in Nat
  <2>1. D \in Nat /\ Len(c) \in Nat /\ D <= Len(c) /\ i \in Nat \ {0} /\ c[i].len \in Nat
    BY <1>1, BlockFacts
  <2> QED BY <1>1, <2>1 DEF Layout
<1>4. ASSUME NEW j \in A
      PROVE  e[j] = c[j] /\ DataAt(e, j) = DataAt(c, j)
  <2>1. j \in Nat \ {0} /\ c[j].len \in Nat /\ j + c[j].len <= D
    BY <1>1, BlockFacts
  <2>2. \A p \in j .. j + c[j].len : e[p] = c[p]
    BY <1>1, BlocksApart
  <2>3. e[j] = c[j]
    BY <2>1, <2>2
  <2>4. \A k \in 1 .. c[j].len : e[j + k] = c[j + k]
    <3>1. \A k \in 1 .. c[j].len : j + k \in j .. j + c[j].len
      BY <2>1
    <3> QED BY <2>2, <3>1
  <2>5. j + c[j].len <= Len(c) /\ j + c[j].len <= Len(e)
    BY <1>3, <2>1
  <2>6. DataAt(e, j) = DataAt(c, j)
    <3>1. /\ c \in Seq(Cell) /\ e \in Seq(Cell) /\ j \in Nat \ {0}
          /\ c[j].len \in Nat /\ e[j].len = c[j].len
      BY <2>1, <2>3
    <3> HIDE DEF NewBlocks
    <3> QED BY <2>4, <2>5, <3>1, SameData
  <2> QED BY <2>3, <2>5, <2>6
<1>5. Live(e, C) = Live(c, A) \cup Live(e, {i})
  BY <1>4 DEF Live
<1>6. Held(e, C) = Held(c, A) \cup Held(e, {i})
  <2>1. \A j \in Live(c, A) : <<c[j].id, DataAt(c, j)>> = <<e[j].id, DataAt(e, j)>>
    BY <1>4 DEF Live
  <2>2. {<<e[j].id, DataAt(e, j)>> : j \in Live(c, A)} = Held(c, A)
    <3> HIDE DEF A
    <3> QED BY <2>1 DEF Held
  <2> QED BY <1>5, <2>2 DEF Held
<1>7. Unused(e, C) = Unused(c, A) \cup Unused(e, N)
  <2> DEFINE Free(x, S) == {j \in S : x[j].id = IsFree}
  <2>1. Free(e, C) = Free(c, A) \cup Free(e, N)
    BY <1>4
  <2>2. \A j \in Free(c, A) : j .. j + e[j].len = j .. j + c[j].len
    BY <1>4
  <2>3. UNION {j .. j + e[j].len : j \in Free(c, A)} = UNION {j .. j + c[j].len : j \in Free(c, A)}
    <3>1. {j .. j + e[j].len : j \in Free(c, A)} = {j .. j + c[j].len : j \in Free(c, A)}
      <4> HIDE DEF Free, A
      <4> QED BY <2>2
    <3> QED BY <3>1, Zenon
  <2>4. \A S, T : UNION {j .. j + e[j].len : j \in S \cup T}
                    = (UNION {j .. j + e[j].len : j \in S}) \cup UNION {j .. j + e[j].len : j \in T}
    OBVIOUS
  <2>5. \A x, S : Unused(x, S) = UNION {j .. j + x[j].len : j \in Free(x, S)}
    BY DEF Unused
  <2> HIDE DEF Free, A, C, NewBlocks
  <2>6. UNION {j .. j + e[j].len : j \in Free(e, C)}
          = (UNION {j .. j + e[j].len : j \in Free(c, A)}) \cup UNION {j .. j + e[j].len : j \in Free(e, N)}
    BY <2>1, <2>4
  <2> QED BY <2>3, <2>5, <2>6
<1>8. \A j \in Live(e, C) : e[j].id \in Id
  <2> SUFFICES ASSUME NEW j \in Live(e, C) PROVE e[j].id \in Id
    OBVIOUS
  <2>1. CASE j \in Live(c, A)
    BY <2>1, <1>4 DEF Live, FileSound
  <2>2. CASE j \in Live(e, {i})
    BY <2>2 DEF Live
  <2> QED BY <1>5, <2>1, <2>2
<1>9. \A j, k \in Live(e, C) : e[j].id = e[k].id => j = k
  <2> SUFFICES ASSUME NEW j \in Live(e, C), NEW k \in Live(e, C), e[j].id = e[k].id PROVE j = k
    OBVIOUS
  <2>1. \A m \in Live(c, A) : m \in A /\ e[m] = c[m] /\ m \in Live(c, B)
    BY <1>4 DEF Live
  <2>2. \A m \in Live(e, {i}) : m = i /\ e[i].id # IsFree
    BY DEF Live
  <2>3. \A m \in Live(e, {i}), n \in Live(c, A) : e[m].id # e[n].id
    BY <2>1, <2>2
  <2>4. CASE j \in Live(c, A) /\ k \in Live(c, A)
    <3>1. j \in Live(c, B) /\ k \in Live(c, B) /\ c[j].id = c[k].id
      BY <2>1, <2>4
    <3>2. \A m, n \in Live(c, B) : c[m].id = c[n].id => m = n
      BY DEF FileSound
    <3> QED BY <3>1, <3>2
  <2>5. CASE ~(j \in Live(c, A) /\ k \in Live(c, A))
    BY <1>5, <2>2, <2>3, <2>5
  <2> QED BY <2>4, <2>5
<1>10. \A p \in (1 .. D) \ C : e[p].data = TRUE
  <2> SUFFICES ASSUME NEW p \in (1 .. D) \ C PROVE e[p].data = TRUE
    OBVIOUS
  <2>1. CASE p \in i .. i + c[i].len
    BY <2>1
  <2>2. CASE p \notin i .. i + c[i].len
    <3>1. i \in i .. i + c[i].len
      BY <1>3
    <3>2. e[p] = c[p] /\ p \notin B
      BY <2>2, <3>1
    <3> QED BY <3>2 DEF FileSound
  <2> QED BY <2>1, <2>2
<1>11. \A j \in C : e[j].data = FALSE
  <2>1. \A j \in A : e[j].data = FALSE
    BY <1>4 DEF FileSound
  <2> QED BY <2>1
<1>12. FileSound(e, D, C)
  BY <1>2, <1>8, <1>9, <1>10, <1>11 DEF FileSound
<1> QED BY <1>6, <1>7, <1>12 DEF Replaced

(* A layout with a block more at its end, and what is before it as it was. *)
NewAtEnd(c, e, D, B, id, n) ==
  /\ c \in Seq(Cell) /\ e \in Seq(Cell) /\ D \in Nat /\ n \in Nat /\ D + 1 + n <= Len(e)
  /\ \A p \in 1 .. D : e[p] = c[p]
  /\ id \in Id /\ e[D + 1].id = id /\ e[D + 1].len = n /\ e[D + 1].data = FALSE
  /\ \A j \in Live(c, B) : c[j].id # id
  /\ \A p \in D + 2 .. D + 1 + n : e[p].data = TRUE

Extended(c, e, D, B, id, n) ==
  LET C == B \cup {D + 1}
  IN  /\ FileSound(e, D + 1 + n, C)
      /\ Held(e, C) = Held(c, B) \cup {<<id, DataAt(e, D + 1)>>}
      /\ Unused(e, C) = Unused(c, B)

LEMMA BlockAtEnd ==
  ASSUME NEW c, NEW e, NEW D, NEW B, NEW id, NEW n,
         FileSound(c, D, B), NewAtEnd(c, e, D, B, id, n)
  PROVE  Extended(c, e, D, B, id, n)
<1> USE DEF NewAtEnd
<1> DEFINE i == D + 1
           C == B \cup {i}
           E == D + 1 + n
<1>1. /\ Layout(c, D, B) /\ B \subseteq 1 .. D /\ Len(c) \in Nat /\ D <= Len(c)
      /\ e[i].id # IsFree /\ i \in Nat \ {0} /\ i \notin B /\ Len(e) \in Nat
  <2>1. Layout(c, D, B) /\ Len(c) \in Nat /\ Len(e) \in Nat
    BY LenProperties DEF FileSound
  <2>2. B \subseteq 1 .. D /\ D <= Len(c)
    BY <2>1 DEF Layout
  <2>3. e[i].id # IsFree
    BY StoreAssumption DEF Id, IsFree
  <2>4. i \in Nat \ {0} /\ i \notin 1 .. D
    OBVIOUS
  <2> QED BY <2>1, <2>2, <2>3, <2>4
<1>2. ASSUME NEW j \in B
      PROVE  e[j] = c[j] /\ DataAt(e, j) = DataAt(c, j) /\ j < i
  <2>1. j \in Nat \ {0} /\ c[j].len \in Nat /\ j + c[j].len <= D
    BY <1>1, BlockFacts
  <2>2. \A p \in j .. j + c[j].len : e[p] = c[p]
    <3>1. \A p \in j .. j + c[j].len : p \in 1 .. D
      BY <2>1
    <3> QED BY <3>1
  <2>3. e[j] = c[j]
    BY <2>1, <2>2
  <2>4. \A k \in 1 .. c[j].len : e[j + k] = c[j + k]
    <3>1. \A k \in 1 .. c[j].len : j + k \in j .. j + c[j].len
      BY <2>1
    <3> QED BY <2>2, <3>1
  <2>5. j + c[j].len <= Len(c) /\ j + c[j].len <= Len(e) /\ j < i
    BY <1>1, <2>1
  <2>6. DataAt(e, j) = DataAt(c, j)
    BY <2>1, <2>3, <2>4, <2>5, SameData
  <2> QED BY <2>3, <2>5, <2>6
<1>3. Layout(e, E, C)
  <2>1. C \subseteq 1 .. E /\ E \in 0 .. Len(e) /\ 1 \in C
    <3>1. D = 0 => i = 1
      OBVIOUS
    <3>2. D > 0 => 1 \in B
      BY <1>1 DEF Layout
    <3>3. 1 .. D \subseteq 1 .. E /\ i \in 1 .. E /\ E \in 0 .. Len(e)
      BY <1>1
    <3>4. C \subseteq 1 .. E
      BY <1>1, <3>3
    <3> QED BY <3>1, <3>2, <3>3, <3>4
  <2>2. After(e, i) = E + 1 /\ \A j \in B : After(e, j) = After(c, j)
    <3>1. i + (n + 1) = E + 1
      OBVIOUS
    <3> QED BY <1>2, <3>1 DEF After, BlockSize
  <2>3. \A j \in B : After(c, j) \in C /\ After(c, j) <= i
    <3> SUFFICES ASSUME NEW j \in B PROVE After(c, j) \in C /\ After(c, j) <= i
      OBVIOUS
    <3>1. After(c, j) \in B \cup {D + 1}
      BY <1>1 DEF Layout
    <3>2. \A k \in B \cup {D + 1} : k <= i
      BY <1>1
    <3> QED BY <3>1, <3>2
  <2>4. \A j, k \in C : j < k => After(e, j) <= k
    <3> SUFFICES ASSUME NEW j \in C, NEW k \in C, j < k PROVE After(e, j) <= k
      OBVIOUS
    <3>1. j \in B
      <4>1. \A m \in C : ~(i < m)
        BY <1>1
      <4> QED BY <4>1
    <3>2. CASE k \in B
      BY <3>1, <3>2, <1>1, <2>2 DEF Layout
    <3>3. CASE k = i
      BY <3>1, <3>3, <2>2, <2>3
    <3> QED BY <3>2, <3>3
  <2> QED BY <2>1, <2>2, <2>3, <2>4 DEF Layout
<1>4. Live(e, C) = Live(c, B) \cup {i}
  BY <1>1, <1>2 DEF Live
<1>5. Held(e, C) = Held(c, B) \cup {<<e[i].id, DataAt(e, i)>>}
  <2>1. \A j \in Live(c, B) : <<c[j].id, DataAt(c, j)>> = <<e[j].id, DataAt(e, j)>>
    BY <1>2 DEF Live
  <2>2. {<<e[j].id, DataAt(e, j)>> : j \in Live(c, B)} = Held(c, B)
    <3> HIDE DEF NewAtEnd
    <3> QED BY <2>1 DEF Held
  <2> HIDE DEF i, C, NewAtEnd
  <2> QED BY <1>4, <2>2 DEF Held
<1>6. Unused(e, C) = Unused(c, B)
  <2>1. {j \in C : e[j].id = IsFree} = {j \in B : c[j].id = IsFree}
    BY <1>1, <1>2
  <2>2. \A j \in {k \in B : c[k].id = IsFree} : j .. j + e[j].len = j .. j + c[j].len
    BY <1>2
  <2> DEFINE F == {k \in B : c[k].id = IsFree}
  <2>3. UNION {j .. j + e[j].len : j \in F} = UNION {j .. j + c[j].len : j \in F}
    <3> HIDE DEF F
    <3>1. \A j \in F : j .. j + e[j].len = j .. j + c[j].len
      BY <2>2 DEF F
    <3>2. {j .. j + e[j].len : j \in F} = {j .. j + c[j].len : j \in F}
      BY <3>1, Zenon
    <3> QED BY <3>2
  <2> QED BY <2>1, <2>3 DEF Unused
<1>7. \A j \in Live(c, B) : e[j].id = c[j].id /\ c[j].id \in Id
  BY <1>2 DEF Live, FileSound
<1>8. \A j \in Live(e, C) : e[j].id \in Id
  BY <1>4, <1>7
<1>9. \A j, k \in Live(e, C) : e[j].id = e[k].id => j = k
  <2> HIDE DEF i, C
  <2>1. \A j, k \in Live(c, B) : c[j].id = c[k].id => j = k
    BY DEF FileSound
  <2>2. \A j \in Live(c, B) : c[j].id # e[i].id
    BY DEF i
  <2> QED BY <1>4, <1>7, <2>1, <2>2
<1>10. \A p \in (1 .. E) \ C : e[p].data = TRUE
  <2> SUFFICES ASSUME NEW p \in (1 .. E) \ C PROVE e[p].data = TRUE
    OBVIOUS
  <2>1. CASE p \in 1 .. D
    BY <2>1 DEF FileSound
  <2>2. CASE p \notin 1 .. D
    <3>1. p \in D + 2 .. D + 1 + n
      BY <2>2
    <3> QED BY <3>1
  <2> QED BY <2>1, <2>2
<1>11. \A j \in C : e[j].data = FALSE
  <2>1. \A j \in B : e[j].data = FALSE
    BY <1>2 DEF FileSound
  <2> QED BY <2>1
<1>12. FileSound(e, E, C)
  BY <1>3, <1>8, <1>9, <1>10, <1>11 DEF FileSound
<1> QED BY <1>5, <1>6, <1>12 DEF Extended

-----------------------------------------------------------------------------
(* Sound stores.  What the index remembers lies in the file, the last      *)
(* search ended at a block, and behind the data no header that a           *)
(* compaction left there is where the index has its record.                *)
IndexSound(s, B) ==
  /\ s.last \in B \cup {0}
  /\ s.cache = Null => s.last = 0
  /\ s.cache # Null =>
       /\ s.cache \in [Id -> 0 .. Len(s.cells)]
       /\ \A p \in s.hdr.dataSize + 1 .. Len(s.cells) :
            s.cells[p].id \in Id /\ s.cells[p].data = FALSE => s.cache[s.cells[p].id] # p

(* The index has a record where it is, or does not have it; but for the    *)
(* one that a search is looking for.                                       *)
Remembers(s, B, but) ==
  s.cache # Null =>
    \A i \in Live(s.cells, B) : s.cells[i].id # but => s.cache[s.cells[i].id] \in {0, i}

SoundBut(s, B, but) ==
  /\ s \in Stores
  /\ s.disk = s.hdr
  /\ FileSound(s.cells, s.hdr.dataSize, B)
  /\ IndexSound(s, B)
  /\ Remembers(s, B, but)
  /\ Cardinality(Unused(s.cells, B)) <= s.hdr.freeSize

Sound(s, B) == SoundBut(s, B, IsFree)

Without(H, id) == {h \in H : h[1] # id}

With(H, id, d) == Without(H, id) \cup {<<id, d>>}

LEMMA HeldWithout ==
  ASSUME NEW c, NEW D, NEW B, FileSound(c, D, B), NEW i \in B
  PROVE  Held(c, B \ {i}) = IF c[i].id = IsFree THEN Held(c, B)
                            ELSE Without(Held(c, B), c[i].id)
<1>1. CASE c[i].id = IsFree
  <2>1. Live(c, B \ {i}) = Live(c, B)
    BY <1>1 DEF Live
  <2> QED BY <1>1, <2>1 DEF Held
<1>2. CASE c[i].id # IsFree
  <2>1. \A j \in Live(c, B) : j \in Live(c, B \ {i}) <=> c[j].id # c[i].id
    <3>1. i \in Live(c, B) /\ i \notin Live(c, B \ {i})
      BY <1>2 DEF Live
    <3>2. \A j \in Live(c, B) : j # i => j \in Live(c, B \ {i})
      BY DEF Live
    <3> QED BY <3>1, <3>2 DEF FileSound
  <2>2. Live(c, B \ {i}) \subseteq Live(c, B)
    BY DEF Live
  <2>3. \A j : <<c[j].id, DataAt(c, j)>>[1] = c[j].id
    OBVIOUS
  <2>4. Held(c, B \ {i}) = {<<c[j].id, DataAt(c, j)>> : j \in {k \in Live(c, B) : c[k].id # c[i].id}}
    <3>1. Live(c, B \ {i}) = {k \in Live(c, B) : c[k].id # c[i].id}
      BY <2>1, <2>2
    <3> QED BY <3>1 DEF Held
  <2>5. ASSUME NEW h
        PROVE  h \in Held(c, B \ {i}) <=> h \in Without(Held(c, B), c[i].id)
    <3>1. h \in Held(c, B \ {i}) <=>
            \E j \in Live(c, B) : c[j].id # c[i].id /\ h = <<c[j].id, DataAt(c, j)>>
      BY <2>4
    <3>2. h \in Without(Held(c, B), c[i].id) <=>
            h[1] # c[i].id /\ \E j \in Live(c, B) : h = <<c[j].id, DataAt(c, j)>>
      BY DEF Held, Without
    <3> QED BY <2>3, <3>1, <3>2
  <2> QED BY <1>2, <2>5
<1> QED BY <1>1, <1>2

LEMMA NotHeld ==
  ASSUME NEW c, NEW B, NEW id, \A j \in Live(c, B) : c[j].id # id
  PROVE  Without(Held(c, B), id) = Held(c, B)
<1>1. \A h \in Held(c, B) : h[1] # id
  BY DEF Held
<1> QED BY <1>1 DEF Without

(* Unused cells can be counted. *)
LEMMA UnusedCells ==
  ASSUME NEW c, NEW D, NEW B, FileSound(c, D, B)
  PROVE  /\ Unused(c, B) \subseteq 1 .. D
         /\ IsFiniteSet(Unused(c, B)) /\ Cardinality(Unused(c, B)) \in Nat
<1>1. c \in Seq(Cell) /\ Layout(c, D, B)
  BY DEF FileSound
<1>2. D \in Int
  BY <1>1 DEF Layout
<1>3. Unused(c, B) \subseteq 1 .. D
  <2> SUFFICES ASSUME NEW j \in B, NEW p \in j .. j + c[j].len PROVE p \in 1 .. D
    BY DEF Unused
  <2>1. j \in Nat \ {0} /\ c[j].len \in Nat /\ j + c[j].len <= D
    BY <1>1, BlockFacts
  <2> QED BY <1>2, <2>1
<1>4. IsFiniteSet(1 .. D)
  BY <1>2, FS_Interval
<1> QED BY <1>3, <1>4, FS_Subset, FS_CardinalityType

LEMMA MoreUnused ==
  ASSUME NEW U, NEW V, IsFiniteSet(U), NEW a \in Nat, NEW n \in Nat,
         V \subseteq U \cup (a .. a + n)
  PROVE  Cardinality(V) <= Cardinality(U) + n + 1
<1> DEFINE W == a .. a + n
<1>1. IsFiniteSet(W) /\ Cardinality(W) = n + 1
  <2>1. a \in Int /\ a + n \in Int /\ a <= a + n /\ (a + n) - a + 1 = n + 1
    OBVIOUS
  <2> QED BY <2>1, FS_Interval
<1> HIDE DEF W
<1>2. IsFiniteSet(U \cup W) /\ Cardinality(U \cup W) = Cardinality(U) + Cardinality(W) - Cardinality(U \cap W)
  BY <1>1, FS_Union
<1>3. Cardinality(V) <= Cardinality(U \cup W) /\ IsFiniteSet(V)
  BY <1>2, FS_Subset DEF W
<1>4. Cardinality(U \cap W) \in Nat
  <2>1. IsFiniteSet(U \cap W)
    BY FS_Intersection
  <2> QED BY <2>1, FS_CardinalityType
<1>5. Cardinality(V) \in Nat /\ Cardinality(U) \in Nat /\ Cardinality(U \cup W) \in Nat
  BY <1>2, <1>3, FS_CardinalityType
<1> QED BY <1>1, <1>2, <1>3, <1>4, <1>5

LEMMA HeaderSet ==
  ASSUME NEW s \in Stores, NEW h \in Headers
  PROVE  LET w == [s EXCEPT !.hdr = h]
         IN  /\ w \in Stores
             /\ w.cells = s.cells /\ w.disk = s.disk /\ w.hdr = h
             /\ w.cache = s.cache /\ w.last = s.last
BY DEF Stores

(* freeBlock: the block and what it adds to the size of the free blocks. *)
LEMMA FreeWritten ==
  ASSUME NEW s \in Stores, s.disk = s.hdr, NEW at \in 1 .. Len(s.cells) + 1, NEW len \in Nat
  PROVE  LET t == freeBlock(s, at, len)
         IN  /\ t \in Stores
             /\ BlockIn(s.cells, t.cells, at, IsFree, len, <<>>)
             /\ t.cache = s.cache /\ t.last = s.last /\ t.disk = t.hdr
             /\ t.hdr.nextId = s.hdr.nextId /\ t.hdr.numLive = s.hdr.numLive
             /\ t.hdr.dataSize = s.hdr.dataSize /\ t.hdr.freeSize = s.hdr.freeSize + len + 1
<1> DEFINE none == <<>>
           w == writeBlock(s, at, IsFree, len, none)
           h == [w.hdr EXCEPT !.freeSize = @ + BlockSize(len)]
           v == [w EXCEPT !.hdr = h]
           t == WriteHeader(v, {"freeSize"})
<1>1. none \in Seq(Cell) /\ IsFree \in Id \cup {IsFree}
  OBVIOUS
<1>2. /\ w \in Stores /\ BlockIn(s.cells, w.cells, at, IsFree, len, none)
      /\ w.disk = s.disk /\ w.hdr = s.hdr /\ w.last = s.last /\ w.cache = s.cache
  <2> HIDE DEF none
  <2>1. /\ w \in Stores /\ BlockIn(s.cells, w.cells, at, IsFree, len, none)
        /\ w.disk = s.disk /\ w.hdr = s.hdr /\ w.last = s.last
        /\ w.cache = Indexed(s.cache, IsFree, at)
    BY <1>1, BlockWritten
  <2> QED BY <2>1 DEF Indexed
<1>3. t = freeBlock(s, at, len)
  BY DEF freeBlock
<1> HIDE DEF w
<1>4. w.hdr \in Headers
  BY <1>2 DEF Stores
<1>5. /\ h \in Headers /\ h.nextId = s.hdr.nextId /\ h.numLive = s.hdr.numLive
      /\ h.dataSize = s.hdr.dataSize /\ h.freeSize = s.hdr.freeSize + len + 1
  <2>1. s.hdr.freeSize \in Nat /\ s.hdr.freeSize + (len + 1) = s.hdr.freeSize + len + 1
    BY <1>2, <1>4 DEF Headers
  <2> DEFINE g == w.hdr
  <2>2. h = [g EXCEPT !.freeSize = g.freeSize + (len + 1)]
    BY Zenon DEF BlockSize
  <2>3. g \in Headers /\ g = s.hdr /\ g.freeSize \in Int /\ g.freeSize + (len + 1) \in Nat
    BY <1>2, <1>4, <2>1 DEF Headers
  <2> HIDE DEF g, h
  <2>4. /\ h \in Headers /\ h.nextId = g.nextId /\ h.numLive = g.numLive
        /\ h.dataSize = g.dataSize /\ h.freeSize = g.freeSize + (len + 1)
    BY <2>2, <2>3 DEF Headers
  <2> QED BY <2>1, <2>3, <2>4
<1> HIDE DEF h
<1>6. /\ v \in Stores /\ v.cells = w.cells /\ v.disk = w.disk /\ v.hdr = h
      /\ v.cache = w.cache /\ v.last = w.last
  BY <1>2, <1>5, HeaderSet
<1> HIDE DEF v
<1>7. /\ t \in Stores /\ t.cells = v.cells /\ t.hdr = v.hdr /\ t.cache = v.cache /\ t.last = v.last
      /\ t.disk.nextId = v.disk.nextId /\ t.disk.numLive = v.disk.numLive
      /\ t.disk.dataSize = v.disk.dataSize /\ t.disk.freeSize = v.hdr.freeSize
  BY <1>6, HeaderWritten
<1> HIDE DEF t
<1>8. t.disk \in Headers /\ t.hdr \in Headers
  BY <1>7 DEF Stores
<1>9. t.disk = t.hdr
  BY <1>2, <1>5, <1>6, <1>7, <1>8, HeadersEqual
<1> QED BY <1>2, <1>3, <1>5, <1>6, <1>7, <1>9

(* The block of a record is freed. *)
LEMMA FreeSound ==
  ASSUME NEW s, NEW B, Sound(s, B), NEW i \in Live(s.cells, B)
  PROVE  LET t == freeBlock(s, i, s.cells[i].len)
         IN  /\ Sound(t, B) /\ t.cache = s.cache
             /\ Held(t.cells, B) = Without(Held(s.cells, B), s.cells[i].id)
             /\ t.hdr.nextId = s.hdr.nextId /\ t.hdr.numLive = s.hdr.numLive
<1> DEFINE c == s.cells
           D == s.hdr.dataSize
           len == c[i].len
           t == freeBlock(s, i, len)
           e == t.cells
           N == {i}
<1>1. /\ s \in Stores /\ s.disk = s.hdr /\ FileSound(c, D, B) /\ c \in Seq(Cell)
      /\ Layout(c, D, B) /\ i \in B /\ c[i].id # IsFree
  BY DEF Sound, SoundBut, FileSound, Live
<1>2. /\ i \in Nat \ {0} /\ D \in Nat /\ len \in Nat /\ i \in 1 .. Len(c) /\ Len(c) \in Nat
      /\ i + len <= D /\ D <= Len(c)
  BY <1>1, BlockFacts
<1>3. /\ t \in Stores /\ BlockIn(c, e, i, IsFree, len, <<>>)
      /\ t.cache = s.cache /\ t.last = s.last /\ t.disk = t.hdr
      /\ t.hdr.nextId = s.hdr.nextId /\ t.hdr.numLive = s.hdr.numLive
      /\ t.hdr.dataSize = D /\ t.hdr.freeSize = s.hdr.freeSize + len + 1
  <2>1. i \in 1 .. Len(c) + 1
    BY <1>2
  <2> HIDE DEF D
  <2> QED BY <1>1, <1>2, <2>1, FreeWritten DEF D
<1> HIDE DEF t
<1>4. /\ e \in Seq(Cell) /\ Len(e) = Len(c) /\ e[i].id = IsFree /\ e[i].len = len
      /\ e[i].data = FALSE
      /\ \A p \in 1 .. Len(c) : p # i => e[p] = c[p]
  <2>1. Len(<<>>) = 0 /\ i + 0 <= Len(c) /\ i + 0 = i /\ i + 1 .. i = {}
    BY <1>2
  <2>2. e \in Seq(Cell) /\ Len(e) \in Nat
    BY <1>3, LenProperties DEF BlockIn
  <2> HIDE DEF e, c, len
  <2>3. Len(e) = Len(c)
    BY <1>2, <1>3, <2>1, <2>2 DEF BlockIn
  <2> QED BY <1>3, <2>1, <2>2, <2>3 DEF BlockIn
<1> HIDE DEF e
<1>5. /\ FileSound(e, D, B)
      /\ Held(e, B) = Held(c, B \ {i}) \cup Held(e, {i})
      /\ Unused(e, B) = Unused(c, B \ {i}) \cup Unused(e, {i})
  <2>1. i \in i .. i + len /\ \A p \in 1 .. D : p \in 1 .. Len(c)
    BY <1>2
  <2>2. \A p \in 1 .. D : p \notin i .. i + len => e[p] = c[p]
    BY <1>4, <2>1
  <2>3. \A n \in N : After(e, n) \in N \cup {After(c, i)}
    BY <1>4 DEF After
  <2>4. \A m, n \in N : m < n => After(e, m) <= n
    BY <1>2
  <2>5. \A p \in i .. i + len : p \notin N => e[p].data = TRUE
    <3> SUFFICES ASSUME NEW p \in i .. i + len, p # i PROVE e[p].data = TRUE
      OBVIOUS
    <3>1. p \in 1 .. D /\ c[p].data = TRUE
      <4> HIDE DEF c, D
      <4> QED BY <1>1, InBlock
    <3>2. e[p] = c[p]
      BY <1>2, <1>4, <3>1
    <3> QED BY <3>1, <3>2
  <2>6. /\ i \in N /\ N \subseteq i .. i + len /\ \A n \in N \ {i} : e[n].id = IsFree
        /\ \A n \in N : e[n].data = FALSE
    BY <1>4, <2>1
  <2>7. (B \ {i}) \cup N = B
    BY <1>1
  <2> HIDE DEF D, c, N
  <2>8. Replaced(c, e, D, B, i, N)
    <3>1. c \in Seq(Cell) /\ FileSound(c, D, B) /\ i \in B /\ e \in Seq(Cell) /\ Len(e) = Len(c)
          /\ (e[i].id # IsFree =>
                e[i].id \in Id /\ \A j \in Live(c, B \ {i}) : c[j].id # e[i].id)
      BY <1>1, <1>4
    <3>2. NewBlocks(c, e, D, B, i, N)
      BY <2>2, <2>3, <2>4, <2>5, <2>6, <3>1 DEF NewBlocks
    <3> QED BY <3>1, <3>2, BlockReplaced
  <2> QED BY <2>7, <2>8 DEF N, Replaced
<1>6. Held(e, B) = Without(Held(c, B), c[i].id)
  <2>1. Held(e, {i}) = {}
    BY <1>4 DEF Held, Live
  <2>2. FileSound(c, D, B) /\ i \in B /\ c[i].id # IsFree
    BY <1>1
  <2>3. Held(c, B \ {i}) = Without(Held(c, B), c[i].id)
    <3> HIDE DEF c, D
    <3> QED BY <2>2, HeldWithout
  <2> HIDE DEF c
  <2> QED BY <1>5, <2>1, <2>3
<1>7. Cardinality(Unused(e, B)) <= t.hdr.freeSize
  <2>1. Unused(e, {i}) \subseteq i .. i + len
    BY <1>4 DEF Unused
  <2>2. Unused(c, B \ {i}) \subseteq Unused(c, B)
    BY DEF Unused
  <2>3. Unused(e, B) \subseteq Unused(c, B) \cup (i .. i + len)
    BY <1>5, <2>1, <2>2
  <2>4. Cardinality(Unused(e, B)) <= Cardinality(Unused(c, B)) + len + 1
    <3> HIDE DEF len, c, D
    <3>1. IsFiniteSet(Unused(c, B))
      BY <1>1, UnusedCells
    <3> QED BY <1>2, <2>3, <3>1, MoreUnused
  <2>5. /\ Cardinality(Unused(c, B)) <= s.hdr.freeSize /\ s.hdr.freeSize \in Nat
        /\ Cardinality(Unused(c, B)) \in Nat /\ Cardinality(Unused(e, B)) \in Nat
    BY <1>1, <1>5, UnusedCells DEF Sound, SoundBut, Stores, Headers
  <2> HIDE DEF len, c
  <2> QED BY <1>2, <1>3, <2>4, <2>5
<1>8. IndexSound(t, B)
  <2>1. i \notin D + 1 .. Len(c) /\ \A p \in D + 1 .. Len(c) : p \in 1 .. Len(c)
    BY <1>2
  <2>2. \A p \in D + 1 .. Len(c) : e[p] = c[p]
    BY <1>4, <2>1
  <2>3. IndexSound(s, B)
    BY DEF Sound, SoundBut
  <2> QED BY <1>3, <1>4, <2>2, <2>3 DEF IndexSound, e
<1>9. Remembers(t, B, IsFree)
  <2>1. \A j \in Live(e, B) : e[j] = c[j] /\ j \in Live(c, B)
    <3>1. B \subseteq 1 .. Len(c)
      <4>1. 1 .. D \subseteq 1 .. Len(c)
        BY <1>2
      <4> QED BY <1>1, <4>1 DEF Layout
    <3> HIDE DEF c
    <3> QED BY <1>4, <3>1 DEF Live
  <2>2. Remembers(s, B, IsFree)
    BY DEF Sound, SoundBut
  <2> QED BY <1>3, <2>1, <2>2 DEF Remembers, e
<1> QED BY <1>1, <1>3, <1>5, <1>6, <1>7, <1>8, <1>9 DEF Sound, SoundBut, e, t

(* A block is given another content.  What splitBlock writes:              *)
SplitIn(s, t, i, id, len, d) ==
  LET c == s.cells
      e == t.cells
      j == i + Len(d) + 1
      left == len - Len(d) - 1
  IN  /\ t \in Stores /\ t.disk = t.hdr
      /\ t.cache = Indexed(s.cache, id, i) /\ t.last = s.last
      /\ e \in Seq(Cell) /\ Len(e) = Len(c)
      /\ e[i].id = id /\ e[i].len = Len(d) /\ e[i].data = FALSE
      /\ \A p \in i + 1 .. i + Len(d) : e[p] = d[p - i]
      /\ left >= 0 => e[j].id = IsFree /\ e[j].len = left /\ e[j].data = FALSE
      /\ \A p \in 1 .. Len(c) :
           p \notin i .. i + Len(d) /\ (left >= 0 => p # j) => e[p] = c[p]
      /\ t.hdr.nextId = s.hdr.nextId /\ t.hdr.numLive = s.hdr.numLive
      /\ t.hdr.dataSize = s.hdr.dataSize
      /\ t.hdr.freeSize = s.hdr.freeSize + IF left >= 0 THEN left + 1 ELSE 0

LEMMA SplitWritten ==
  ASSUME NEW s \in Stores, s.disk = s.hdr, NEW i \in 1 .. Len(s.cells), NEW len \in Nat,
         i + len <= Len(s.cells), NEW id \in Id, NEW d \in Seq(Cell), Len(d) <= len
  PROVE  SplitIn(s, splitBlock(s, i, id, len, d), i, id, len, d)
<1> DEFINE c == s.cells
           n == Len(d)
           w == writeBlock(s, i, id, n, d)
           f == w.cells
           j == i + n + 1
           left == len - n - 1
           u == freeBlock(w, j, left)
           g == u.cells
<1>1. c \in Seq(Cell) /\ Len(c) \in Nat /\ n \in Nat /\ i \in Nat \ {0} /\ i \in 1 .. Len(c) + 1
      /\ i + n <= Len(c) /\ n <= len
  <2>1. c \in Seq(Cell)
    BY DEF Stores
  <2>2. Len(c) \in Nat /\ n \in Nat
    BY <2>1, LenProperties
  <2> QED BY <2>1, <2>2
<1>2. /\ w \in Stores /\ BlockIn(c, f, i, id, n, d)
      /\ w.disk = s.disk /\ w.hdr = s.hdr /\ w.last = s.last
      /\ w.cache = Indexed(s.cache, id, i)
  <2>1. i \in 1 .. Len(s.cells) + 1 /\ id \in Id \cup {IsFree} /\ n \in Nat
    BY <1>1
  <2> HIDE DEF n
  <2> QED BY <2>1, BlockWritten
<1> HIDE DEF w
<1>3. /\ f \in Seq(Cell) /\ Len(f) = Len(c) /\ f[i].id = id /\ f[i].len = n
      /\ f[i].data = FALSE
      /\ \A p \in 1 .. Len(c) :
           p # i => f[p] = IF p \in i + 1 .. i + n THEN d[p - i] ELSE c[p]
  <2>1. Len(f) \in Nat /\ f \in Seq(Cell)
    BY <1>2, LenProperties DEF BlockIn
  <2> HIDE DEF f, c
  <2>2. Len(f) = Len(c)
    BY <1>1, <1>2, <2>1 DEF BlockIn
  <2> QED BY <1>2, <2>1, <2>2 DEF BlockIn
<1>4. CASE left < 0
  <2>1. splitBlock(s, i, id, len, d) = w
    BY <1>1, <1>4 DEF splitBlock, w
  <2>2. \A p \in i + 1 .. i + n : p \in 1 .. Len(c) /\ p # i
    BY <1>1
  <2>3. \A p \in 1 .. Len(c) : p \notin i .. i + n => p # i /\ p \notin i + 1 .. i + n
    BY <1>1
  <2>4. s.hdr.freeSize = s.hdr.freeSize + 0
    BY DEF Stores, Headers
  <2>5. ~(left >= 0)
    BY <1>1, <1>4
  <2> HIDE DEF f, c, n, left
  <2> QED BY <1>2, <1>3, <2>1, <2>2, <2>3, <2>4, <2>5 DEF f, c, n, left, SplitIn
<1>5. CASE left >= 0
  <2>1. splitBlock(s, i, id, len, d) = u
    <3>1. i + (n + 1) = j
      BY <1>1
    <3> QED BY <1>5, <3>1 DEF splitBlock, w, BlockSize
  <2>2. left \in Nat /\ j \in Nat \ {0} /\ j \in 1 .. Len(c) /\ j \in 1 .. Len(f) + 1
    <3>1. left \in Nat /\ j \in Nat \ {0}
      BY <1>1, <1>5
    <3>2. i + len <= Len(c)
      OBVIOUS
    <3>3. j <= Len(c)
      <4> HIDE DEF c, n
      <4> QED BY <1>1, <1>5, <3>2
    <3> HIDE DEF c, n, left, j, f
    <3> QED BY <1>1, <1>3, <3>1, <3>3
  <2>3. /\ u \in Stores /\ BlockIn(f, g, j, IsFree, left, <<>>)
        /\ u.cache = w.cache /\ u.last = w.last /\ u.disk = u.hdr
        /\ u.hdr.nextId = w.hdr.nextId /\ u.hdr.numLive = w.hdr.numLive
        /\ u.hdr.dataSize = w.hdr.dataSize /\ u.hdr.freeSize = w.hdr.freeSize + left + 1
    <3>1. w.disk = w.hdr
      BY <1>2
    <3> HIDE DEF left, j
    <3> QED BY <1>2, <2>2, <3>1, FreeWritten
  <2> HIDE DEF u
  <2>4. /\ g \in Seq(Cell) /\ Len(g) = Len(c) /\ g[j].id = IsFree /\ g[j].len = left
        /\ g[j].data = FALSE
        /\ \A p \in 1 .. Len(c) : p # j => g[p] = f[p]
    <3>1. g \in Seq(Cell) /\ Len(g) \in Nat /\ Len(<<>>) = 0
      BY <2>3, LenProperties DEF BlockIn
    <3>2. j + 0 = j /\ j + 1 .. j = {} /\ j <= Len(c)
      BY <2>2, <1>1
    <3> HIDE DEF g, f, c, left, j
    <3>3. Len(g) = Len(c)
      BY <1>1, <1>3, <2>2, <2>3, <3>1, <3>2 DEF BlockIn
    <3> QED BY <2>3, <3>1, <3>2, <3>3 DEF BlockIn
  <2>5. j # i /\ i \in 1 .. Len(c) /\ \A p \in i + 1 .. i + n : p \in 1 .. Len(c) /\ p # i /\ p # j
    BY <1>1
  <2>6. \A p \in 1 .. Len(c) : p \notin i .. i + n => p # i /\ p \notin i + 1 .. i + n
    BY <1>1
  <2>7. w.hdr.freeSize + left + 1 = s.hdr.freeSize + (left + 1)
    <3>1. w.hdr \in Headers
      BY <1>2 DEF Stores
    <3>2. w.hdr.freeSize = s.hdr.freeSize /\ w.hdr.freeSize \in Nat /\ left \in Nat
      BY <1>2, <2>2, <3>1 DEF Headers
    <3>3. \A x \in Nat : x + left + 1 = x + (left + 1)
      <4> HIDE DEF left
      <4> QED BY <3>2
    <3> HIDE DEF left, w
    <3> QED BY <3>2, <3>3
  <2> HIDE DEF f, c, n, left, g, j
  <2> QED BY <1>2, <1>3, <1>5, <2>1, <2>3, <2>4, <2>5, <2>6, <2>7 DEF f, c, n, left, g, j, SplitIn
<1>6. left < 0 \/ left >= 0
  <2>1. left \in Int
    BY <1>1
  <2> HIDE DEF left
  <2> QED BY <2>1
<1> QED BY <1>4, <1>5, <1>6, Zenon

LEMMA SplitSound ==
  ASSUME NEW s, NEW B, Sound(s, B), NEW i \in B, NEW id \in Id, NEW d \in Data,
         Len(d) <= s.cells[i].len, s.cells[i].id \in {IsFree, id},
         \A j \in Live(s.cells, B \ {i}) : s.cells[j].id # id
  PROVE  LET t == splitBlock(s, i, id, s.cells[i].len, d)
         IN  /\ \E C : Sound(t, C) /\ Held(t.cells, C) = With(Held(s.cells, B), id, d)
             /\ t.hdr.nextId = s.hdr.nextId /\ t.hdr.numLive = s.hdr.numLive
<1> DEFINE c == s.cells
           D == s.hdr.dataSize
           len == c[i].len
           n == Len(d)
           t == splitBlock(s, i, id, len, d)
           e == t.cells
           j == i + n + 1
           left == len - n - 1
           N == IF left >= 0 THEN {i, j} ELSE {i}
           C == (B \ {i}) \cup N
<1>1. /\ s \in Stores /\ s.disk = s.hdr /\ FileSound(c, D, B) /\ c \in Seq(Cell)
      /\ Layout(c, D, B) /\ d \in Seq(Cell) /\ n \in Nat /\ IndexSound(s, B)
      /\ id # IsFree /\ n <= len
  <2>1. id # IsFree
    BY StoreAssumption DEF Id, IsFree
  <2>2. d \in Seq(Cell) /\ n \in Nat
    BY DataIs
  <2> QED BY <2>1, <2>2 DEF Sound, SoundBut, FileSound
<1>2. /\ i \in Nat \ {0} /\ D \in Nat /\ len \in Nat /\ i \in 1 .. Len(c) /\ Len(c) \in Nat
      /\ i + len <= D /\ D <= Len(c) /\ After(c, i) = i + len + 1
  <2>1. /\ i \in Nat \ {0} /\ D \in Nat /\ len \in Nat /\ i \in 1 .. Len(c) /\ Len(c) \in Nat
        /\ i + len <= D /\ D <= Len(c)
    <3> HIDE DEF c, D
    <3> QED BY <1>1, BlockFacts
  <2> QED BY <2>1 DEF After, BlockSize
<1>3. left \in Int /\ j \in Nat /\ (left < 0 => n = len)
  BY <1>1, <1>2
<1>4. /\ t \in Stores /\ t.disk = t.hdr
      /\ t.cache = Indexed(s.cache, id, i) /\ t.last = s.last
      /\ e \in Seq(Cell) /\ Len(e) = Len(c)
      /\ e[i].id = id /\ e[i].len = n /\ e[i].data = FALSE
      /\ \A p \in i + 1 .. i + n : e[p] = d[p - i]
      /\ left >= 0 => e[j].id = IsFree /\ e[j].len = left /\ e[j].data = FALSE
      /\ \A p \in 1 .. Len(c) :
           p \notin i .. i + n /\ (left >= 0 => p # j) => e[p] = c[p]
      /\ t.hdr.nextId = s.hdr.nextId /\ t.hdr.numLive = s.hdr.numLive
      /\ t.hdr.dataSize = D
      /\ t.hdr.freeSize = s.hdr.freeSize + IF left >= 0 THEN left + 1 ELSE 0
  <2>1. /\ s \in Stores /\ s.disk = s.hdr /\ i \in 1 .. Len(s.cells) /\ len \in Nat
        /\ i + len <= Len(s.cells) /\ d \in Seq(Cell) /\ Len(d) <= len
    BY <1>1, <1>2
  <2>2. SplitIn(s, t, i, id, len, d)
    <3> HIDE DEF len
    <3> QED BY <2>1, SplitWritten
  <2> HIDE DEF t
  <2> QED BY <2>2 DEF SplitIn
<1> HIDE DEF t
<1>5. NewBlocks(c, e, D, B, i, N)
  <2>0. /\ i \in Nat \ {0} /\ n \in Nat /\ len \in Nat /\ n <= len /\ D \in Nat
        /\ D <= Len(c) /\ Len(c) \in Nat /\ j \in Nat /\ i <= j
        /\ (left >= 0 => j <= i + len)
    BY <1>1, <1>2
  <2>1. N \subseteq i .. i + len /\ i \in N
    <3>1. i \in i .. i + len /\ (left >= 0 => j \in i .. i + len)
      <4> HIDE DEF j, len, left
      <4> QED BY <2>0
    <3> HIDE DEF j, len, left
    <3> QED BY <3>1
  <2>2. \A p \in 1 .. D : p \notin i .. i + len => e[p] = c[p]
    <3> SUFFICES ASSUME NEW p \in 1 .. D, p \notin i .. i + len PROVE e[p] = c[p]
      OBVIOUS
    <3>1. p \in 1 .. Len(c) /\ p \notin i .. i + n /\ (left >= 0 => p # j)
      <4> HIDE DEF c, D, n, len, j, left
      <4> QED BY <2>0
    <3> QED BY <1>4, <3>1
  <2>3. After(e, i) = j /\ (left < 0 => j = After(c, i))
    <3> HIDE DEF c, len, n, e
    <3> QED BY <1>1, <1>2, <1>3, <1>4 DEF After, BlockSize
  <2>4. left >= 0 => After(e, j) = After(c, i) /\ i < j
    <3>1. j + (left + 1) = i + len + 1 /\ i < j
      BY <1>1, <1>2
    <3> HIDE DEF left, j, c, e
    <3> QED BY <1>2, <1>4, <3>1 DEF After, BlockSize
  <2>5. \A m \in N : After(e, m) \in N \cup {After(c, i)}
    <3> HIDE DEF c, e, j, left
    <3> QED BY <1>3, <2>3, <2>4
  <2>6. \A m, p \in N : m < p => After(e, m) <= p
    <3> HIDE DEF c, e, left
    <3>1. \A m, p \in N : m < p => left >= 0 /\ m = i /\ p = j
      BY <1>1, <1>2, <1>3
    <3> QED BY <1>1, <1>2, <2>3, <3>1
  <2>7. (\A m \in N \ {i} : e[m].id = IsFree) /\ \A m \in N : e[m].data = FALSE
    BY <1>4
  <2>8. \A p \in i .. i + len : p \notin N => e[p].data = TRUE
    <3> SUFFICES ASSUME NEW p \in i .. i + len, p \notin N PROVE e[p].data = TRUE
      OBVIOUS
    <3>1. p # i /\ (left >= 0 => p # j)
      OBVIOUS
    <3>2. CASE p \in i + 1 .. i + n
      <4>1. p - i \in 1 .. n
        BY <1>1, <1>2, <3>2
      <4>2. d[p - i].data = TRUE
        BY <4>1, DataIs
      <4> QED BY <1>4, <3>2, <4>2
    <3>3. CASE p \notin i + 1 .. i + n
      <4>1. p \in 1 .. Len(c) /\ p \notin i .. i + n
        BY <1>1, <1>2, <3>1, <3>3
      <4>2. e[p] = c[p]
        BY <1>4, <3>1, <4>1
      <4>3. c[p].data = TRUE
        <5> HIDE DEF c, D
        <5> QED BY <1>1, <3>1, InBlock
      <4> QED BY <4>2, <4>3
    <3> QED BY <3>2, <3>3
  <2> HIDE DEF c, D, N, e
  <2> QED BY <1>1, <1>4, <2>1, <2>2, <2>5, <2>6, <2>7, <2>8 DEF NewBlocks, c
<1>6. /\ FileSound(e, D, C)
      /\ Held(e, C) = Held(c, B \ {i}) \cup Held(e, {i})
      /\ Unused(e, C) = Unused(c, B \ {i}) \cup Unused(e, N)
  <2> HIDE DEF c, D, N, e
  <2>1. Replaced(c, e, D, B, i, N)
    BY <1>1, <1>5, BlockReplaced
  <2> QED BY <2>1 DEF Replaced
<1> HIDE DEF N
<1>7. Held(e, C) = With(Held(c, B), id, d)
  <2>1. Held(e, {i}) = {<<id, DataAt(e, i)>>}
    <3>1. Live(e, {i}) = {i}
      BY <1>1, <1>4 DEF Live
    <3> QED BY <1>4, <3>1 DEF Held
  <2>2. DataAt(e, i) = d
    <3>1. i + n <= Len(e)
      <4> HIDE DEF c, D, len, n, e
      <4> QED BY <1>1, <1>2, <1>4
    <3> HIDE DEF e
    <3> QED BY <1>1, <1>2, <1>4, <3>1, GivenData
  <2>3. Held(c, B \ {i}) = Without(Held(c, B), id)
    <3>1. CASE c[i].id = IsFree
      <4>1. \A k \in Live(c, B) : c[k].id # id
        BY <3>1 DEF Live
      <4>2. Held(c, B \ {i}) = Held(c, B)
        BY <1>1, <3>1, HeldWithout
      <4> QED BY <4>1, <4>2, NotHeld
    <3>2. CASE c[i].id # IsFree
      <4>1. c[i].id = id
        BY <3>2
      <4>2. FileSound(c, D, B)
        BY <1>1
      <4> HIDE DEF c, D
      <4>3. Held(c, B \ {i}) = Without(Held(c, B), c[i].id)
        BY <3>2, <4>2, HeldWithout
      <4> QED BY <4>1, <4>3
    <3> QED BY <3>1, <3>2
  <2> QED BY <1>6, <2>1, <2>2, <2>3 DEF With
<1>8. Cardinality(Unused(e, C)) <= t.hdr.freeSize
  <2>1. Unused(c, B \ {i}) \subseteq Unused(c, B)
    BY DEF Unused
  <2>2. /\ Cardinality(Unused(c, B)) <= s.hdr.freeSize /\ s.hdr.freeSize \in Nat
        /\ Cardinality(Unused(c, B)) \in Nat /\ Cardinality(Unused(e, C)) \in Nat
        /\ IsFiniteSet(Unused(c, B))
    <3> HIDE DEF c, D, C, e
    <3>1. Cardinality(Unused(c, B)) <= s.hdr.freeSize /\ s.hdr.freeSize \in Nat
      BY <1>1 DEF Sound, SoundBut, Stores, Headers, c
    <3> QED BY <1>1, <1>6, <3>1, UnusedCells
  <2>3. CASE left >= 0
    <3>1. Unused(e, N) \subseteq j .. j + left
      <4>1. \A m \in N : e[m].id = IsFree => m = j
        BY <1>1, <1>4, <2>3 DEF N
      <4> HIDE DEF j, left, e
      <4> QED BY <1>4, <2>3, <4>1 DEF Unused
    <3>2. Unused(e, C) \subseteq Unused(c, B) \cup (j .. j + left)
      BY <1>6, <2>1, <3>1
    <3>3. left \in Nat
      BY <1>3, <2>3
    <3>4. Cardinality(Unused(e, C)) <= Cardinality(Unused(c, B)) + left + 1
      <4> HIDE DEF j, left, e, C, c
      <4> QED BY <1>3, <2>2, <3>2, <3>3, MoreUnused
    <3> HIDE DEF left, e, C, c
    <3> QED BY <1>4, <2>2, <2>3, <3>3, <3>4
  <2>4. CASE left < 0
    <3>1. Unused(e, N) = {}
      <4>1. e[i].id = id /\ id # IsFree
        BY <1>1, <1>4
      <4>2. N = {i}
        <5>1. ~(left >= 0)
          <6> HIDE DEF left
          <6> QED BY <1>3, <2>4
        <5> QED BY <5>1 DEF N
      <4> HIDE DEF N, e
      <4>3. {m \in N : e[m].id = IsFree} = {}
        BY <4>1, <4>2
      <4> QED BY <4>3 DEF Unused
    <3>2. Unused(e, C) \subseteq Unused(c, B)
      BY <1>6, <2>1, <3>1
    <3>3. Cardinality(Unused(e, C)) <= Cardinality(Unused(c, B))
      BY <2>2, <3>2, FS_Subset
    <3>4. ~(left >= 0)
      BY <1>3, <2>4
    <3> HIDE DEF left, e, C, c
    <3> QED BY <1>4, <2>2, <3>3, <3>4
  <2> QED BY <1>3, <2>3, <2>4
<1>9. IndexSound(t, C)
  <2>1. B \subseteq C /\ t.last \in C \cup {0}
    <3>1. i \in N
      BY DEF N
    <3> QED BY <1>1, <1>4, <3>1 DEF IndexSound
  <2>2. CASE s.cache = Null
    <3>1. t.cache = Null /\ t.last = 0
      BY <1>1, <1>4, <2>2 DEF IndexSound, Indexed
    <3> QED BY <2>1, <3>1 DEF IndexSound
  <2>3. CASE s.cache # Null
    <3>1. /\ s.cache \in [Id -> 0 .. Len(c)]
          /\ \A p \in D + 1 .. Len(c) : c[p].id \in Id /\ c[p].data = FALSE => s.cache[c[p].id] # p
      BY <1>1, <2>3 DEF IndexSound
    <3>2. t.cache = [s.cache EXCEPT ![id] = i]
      BY <1>1, <1>4, <2>3 DEF Indexed
    <3>3. t.cache \in [Id -> 0 .. Len(e)]
      BY <1>2, <1>4, <3>1, <3>2
    <3>4. t.cache # Null
      <4>1. t.cache \in [Id -> Nat]
        BY <3>3
      <4> QED BY <4>1, StoreAssumption
    <3>5. \A p \in D + 1 .. Len(c) : e[p] = c[p] /\ p # i
      <4> SUFFICES ASSUME NEW p \in D + 1 .. Len(c) PROVE e[p] = c[p] /\ p # i
        OBVIOUS
      <4>1. /\ p \in Nat /\ D < p /\ p <= Len(c)
            /\ i \in Nat \ {0} /\ n \in Nat /\ n <= len /\ len \in Nat /\ i + len <= D /\ D \in Nat
        BY <1>1, <1>2
      <4>2. left >= 0 => j <= i + len
        BY <1>1, <1>2
      <4> HIDE DEF c, e, D, n, len, j, left
      <4>3. p \in 1 .. Len(c) /\ p \notin i .. i + n /\ p # i /\ (left >= 0 => p # j)
        BY <1>2, <1>3, <4>1, <4>2
      <4> QED BY <1>4, <4>3
    <3>6. \A p \in D + 1 .. Len(e) : e[p].id \in Id /\ e[p].data = FALSE => t.cache[e[p].id] # p
      <4> HIDE DEF c, D, e
      <4> QED BY <1>4, <3>1, <3>2, <3>5
    <3> QED BY <1>4, <2>1, <3>3, <3>4, <3>6 DEF IndexSound
  <2> QED BY <2>2, <2>3
<1>10. Remembers(t, C, IsFree)
  <2> SUFFICES ASSUME s.cache # Null, NEW m \in Live(e, C)
               PROVE  t.cache[e[m].id] \in {0, m}
    BY <1>4 DEF Remembers, Indexed, e
  <2>1. t.cache = [s.cache EXCEPT ![id] = i] /\ s.cache \in [Id -> 0 .. Len(c)]
    BY <1>1, <1>4 DEF Indexed, IndexSound
  <2>2. CASE m = i
    <3>1. t.cache[id] = i
      <4> HIDE DEF c
      <4> QED BY <2>1
    <3> QED BY <1>4, <2>2, <3>1
  <2>3. CASE m # i
    <3>1. m \in B \ {i} /\ e[m].id # IsFree
      BY <1>4, <2>3 DEF Live, N
    <3>2. e[m] = c[m]
      <4>1. m \in m .. m + c[m].len
        <5>1. m \in Nat /\ c[m].len \in Nat
          <6> HIDE DEF c, D
          <6> QED BY <1>1, <3>1, BlockFacts
        <5> QED BY <5>1
      <4>2. m \in 1 .. D /\ m \notin i .. i + c[i].len
        <5> HIDE DEF c, D
        <5> QED BY <1>1, <3>1, <4>1, BlocksApart
      <4> HIDE DEF e, c, D, N
      <4> QED BY <1>5, <4>2 DEF NewBlocks
    <3>3. m \in Live(c, B) /\ c[m].id # id /\ c[m].id \in Id
      <4>1. m \in Live(c, B \ {i}) /\ m \in Live(c, B)
        <5> HIDE DEF c, e
        <5> QED BY <3>1, <3>2 DEF Live
      <4>2. c[m].id \in Id
        <5> HIDE DEF c, D
        <5> QED BY <1>1, <4>1 DEF FileSound
      <4> QED BY <4>1, <4>2
    <3>4. s.cache[c[m].id] \in {0, m}
      BY <3>3, StoreAssumption DEF Sound, SoundBut, Remembers, Id, IsFree
    <3> HIDE DEF c, e
    <3> QED BY <2>1, <3>2, <3>3, <3>4
  <2> QED BY <2>2, <2>3
<1>11. Sound(t, C)
  BY <1>4, <1>6, <1>8, <1>9, <1>10 DEF Sound, SoundBut
<1> QED BY <1>4, <1>7, <1>11 DEF t

(* A block is written after the others. *)
AtEnd(s, id, d) ==
  LET w == writeBlock(s, s.hdr.dataSize + 1, id, Len(d), d)
  IN  WriteHeader([w EXCEPT !.hdr.dataSize = @ + BlockSize(Len(d))], {"dataSize"})

LEMMA AtEndWritten ==
  ASSUME NEW s \in Stores, s.disk = s.hdr, s.hdr.dataSize <= Len(s.cells),
         NEW id \in Id, NEW d \in Seq(Cell)
  PROVE  LET t == AtEnd(s, id, d)
         IN  /\ t \in Stores /\ t.disk = t.hdr
             /\ BlockIn(s.cells, t.cells, s.hdr.dataSize + 1, id, Len(d), d)
             /\ t.cache = Indexed(s.cache, id, s.hdr.dataSize + 1) /\ t.last = s.last
             /\ t.hdr.nextId = s.hdr.nextId /\ t.hdr.numLive = s.hdr.numLive
             /\ t.hdr.dataSize = s.hdr.dataSize + 1 + Len(d) /\ t.hdr.freeSize = s.hdr.freeSize
<1> DEFINE D == s.hdr.dataSize
           n == Len(d)
           w == writeBlock(s, D + 1, id, n, d)
           h == [w.hdr EXCEPT !.dataSize = @ + BlockSize(n)]
           v == [w EXCEPT !.hdr = h]
           t == WriteHeader(v, {"dataSize"})
<1>1. D \in Nat /\ n \in Nat /\ D + 1 \in 1 .. Len(s.cells) + 1
  <2>1. D \in Nat /\ s.cells \in Seq(Cell) /\ s.hdr \in Headers
    BY DEF Stores, Headers
  <2>2. Len(s.cells) \in Nat /\ n \in Nat
    BY <2>1, LenProperties
  <2> QED BY <2>1, <2>2
<1>2. /\ w \in Stores /\ BlockIn(s.cells, w.cells, D + 1, id, n, d)
      /\ w.disk = s.disk /\ w.hdr = s.hdr /\ w.last = s.last
      /\ w.cache = Indexed(s.cache, id, D + 1)
  <2> HIDE DEF D, n
  <2> QED BY <1>1, BlockWritten DEF D
<1>3. t = AtEnd(s, id, d)
  BY DEF AtEnd
<1> HIDE DEF w
<1>4. w.hdr \in Headers
  BY <1>2 DEF Stores
<1>5. /\ h \in Headers /\ h.nextId = s.hdr.nextId /\ h.numLive = s.hdr.numLive
      /\ h.freeSize = s.hdr.freeSize /\ h.dataSize = D + 1 + n
  <2>1. D + (n + 1) = D + 1 + n /\ D + 1 + n \in Nat
    BY <1>1
  <2> QED BY <1>2, <1>4, <2>1 DEF Headers, BlockSize
<1> HIDE DEF h
<1>6. /\ v \in Stores /\ v.cells = w.cells /\ v.disk = w.disk /\ v.hdr = h
      /\ v.cache = w.cache /\ v.last = w.last
  BY <1>2, <1>5, HeaderSet
<1> HIDE DEF v
<1>7. /\ t \in Stores /\ t.cells = v.cells /\ t.hdr = v.hdr /\ t.cache = v.cache /\ t.last = v.last
      /\ t.disk.nextId = v.disk.nextId /\ t.disk.numLive = v.disk.numLive
      /\ t.disk.dataSize = v.hdr.dataSize /\ t.disk.freeSize = v.disk.freeSize
  BY <1>6, HeaderWritten
<1> HIDE DEF t
<1>8. t.disk \in Headers /\ t.hdr \in Headers
  BY <1>7 DEF Stores
<1>9. t.disk = t.hdr
  BY <1>2, <1>5, <1>6, <1>7, <1>8, HeadersEqual
<1> QED BY <1>2, <1>3, <1>5, <1>6, <1>7, <1>9

LEMMA AtEndSound ==
  ASSUME NEW s, NEW B, Sound(s, B), NEW id \in Id, NEW d \in Data,
         \A j \in Live(s.cells, B) : s.cells[j].id # id
  PROVE  LET t == AtEnd(s, id, d)
         IN  /\ \E C : Sound(t, C) /\ Held(t.cells, C) = With(Held(s.cells, B), id, d)
             /\ t.hdr.nextId = s.hdr.nextId /\ t.hdr.numLive = s.hdr.numLive
<1> DEFINE c == s.cells
           D == s.hdr.dataSize
           n == Len(d)
           t == AtEnd(s, id, d)
           e == t.cells
           i == D + 1
           E == D + 1 + n
           C == B \cup {i}
<1>1. /\ s \in Stores /\ s.disk = s.hdr /\ FileSound(c, D, B) /\ c \in Seq(Cell)
      /\ d \in Seq(Cell) /\ IndexSound(s, B)
      /\ D \in Nat /\ n \in Nat /\ Len(c) \in Nat /\ D <= Len(c)
  <2>1. d \in Seq(Cell) /\ n \in Nat
    BY DataIs
  <2>2. FileSound(c, D, B) /\ c \in Seq(Cell) /\ s \in Stores /\ s.disk = s.hdr /\ IndexSound(s, B)
    BY DEF Sound, SoundBut, FileSound
  <2>3. D \in 0 .. Len(c) /\ Len(c) \in Nat
    BY <2>2, LenProperties DEF FileSound, Layout
  <2> QED BY <2>1, <2>2, <2>3
<1>2. /\ t \in Stores /\ t.disk = t.hdr /\ BlockIn(c, e, i, id, n, d)
      /\ t.cache = Indexed(s.cache, id, i) /\ t.last = s.last
      /\ t.hdr.nextId = s.hdr.nextId /\ t.hdr.numLive = s.hdr.numLive
      /\ t.hdr.dataSize = E /\ t.hdr.freeSize = s.hdr.freeSize
  BY <1>1, AtEndWritten
<1> HIDE DEF t
<1>3. /\ e \in Seq(Cell) /\ Len(e) \in Nat /\ Len(c) <= Len(e) /\ E <= Len(e)
      /\ (Len(e) = Len(c) \/ Len(e) = E) /\ e[i].id = id /\ e[i].len = n /\ e[i].data = FALSE
      /\ \A p \in 1 .. Len(e) :
           p # i => e[p] = IF p \in i + 1 .. i + n THEN d[p - i] ELSE c[p]
  <2>1. e \in Seq(Cell) /\ Len(e) \in Nat
    BY <1>2, LenProperties DEF BlockIn
  <2>2. i + n = E
    BY <1>1
  <2> HIDE DEF e, c, i, E
  <2> QED BY <1>2, <2>1, <2>2 DEF BlockIn
<1>4. \A p \in 1 .. Len(e) : p \notin i .. E => e[p] = c[p]
  <2>1. \A p \in 1 .. Len(e) : p \notin i .. E => p # i /\ p \notin i + 1 .. i + n
    BY <1>1
  <2> HIDE DEF e, c, n, i, E
  <2> QED BY <1>3, <2>1
<1>5. NewAtEnd(c, e, D, B, id, n)
  <2>1. \A p \in 1 .. D : e[p] = c[p]
    <3>1. \A p \in 1 .. D : p \in 1 .. Len(e) /\ p \notin i .. E
      BY <1>1, <1>3
    <3> QED BY <1>4, <3>1
  <2>2. \A p \in D + 2 .. D + 1 + n : e[p].data = TRUE
    <3> SUFFICES ASSUME NEW p \in D + 2 .. D + 1 + n PROVE e[p].data = TRUE
      OBVIOUS
    <3>1. p \in i + 1 .. i + n /\ p # i /\ p \in 1 .. Len(e) /\ p - i \in 1 .. n
      <4> HIDE DEF e, c, n, D
      <4> QED BY <1>1, <1>3
    <3>2. e[p] = d[p - i]
      BY <1>3, <3>1
    <3> QED BY <3>1, <3>2, DataIs
  <2> HIDE DEF e, n
  <2> QED BY <1>1, <1>3, <2>1, <2>2 DEF NewAtEnd
<1>6. /\ FileSound(e, E, C)
      /\ Held(e, C) = Held(c, B) \cup {<<id, DataAt(e, i)>>}
      /\ Unused(e, C) = Unused(c, B)
  <2> HIDE DEF c, D, e, n
  <2>1. Extended(c, e, D, B, id, n)
    BY <1>1, <1>5, BlockAtEnd
  <2> QED BY <2>1 DEF Extended
<1>7. Held(e, C) = With(Held(c, B), id, d)
  <2>1. DataAt(e, i) = d
    <3>1. i + n <= Len(e) /\ i \in Nat \ {0}
      BY <1>1, <1>3
    <3>2. \A p \in i + 1 .. i + n : e[p] = d[p - i]
      <4>1. \A p \in i + 1 .. i + n : p # i /\ p \in 1 .. Len(e)
        <5> HIDE DEF e, i, n
        <5> QED BY <1>1, <1>3, <3>1
      <4> HIDE DEF e
      <4> QED BY <1>3, <4>1
    <3> HIDE DEF e, i
    <3> QED BY <1>1, <1>3, <3>1, <3>2, GivenData
  <2>2. Without(Held(c, B), id) = Held(c, B)
    BY NotHeld
  <2> QED BY <1>6, <2>1, <2>2 DEF With
<1>8. IndexSound(t, C)
  <2>1. t.last \in C \cup {0} /\ i \in Nat /\ i <= Len(e)
    BY <1>1, <1>2, <1>3 DEF IndexSound
  <2>2. CASE s.cache = Null
    <3>1. t.cache = Null /\ t.last = 0
      BY <1>1, <1>2, <2>2 DEF IndexSound, Indexed
    <3> QED BY <2>1, <3>1 DEF IndexSound
  <2>3. CASE s.cache # Null
    <3>1. /\ s.cache \in [Id -> 0 .. Len(c)]
          /\ \A p \in D + 1 .. Len(c) : c[p].id \in Id /\ c[p].data = FALSE => s.cache[c[p].id] # p
      BY <1>1, <2>3 DEF IndexSound
    <3>2. id # IsFree
      BY StoreAssumption DEF Id, IsFree
    <3>3. t.cache = [s.cache EXCEPT ![id] = i]
      BY <1>2, <2>3, <3>2 DEF Indexed
    <3>4. t.cache \in [Id -> 0 .. Len(e)]
      <4> HIDE DEF e, i, c
      <4> QED BY <1>1, <1>3, <2>1, <3>1, <3>3
    <3>5. t.cache # Null
      <4>1. t.cache \in [Id -> Nat]
        BY <3>4
      <4> QED BY <4>1, StoreAssumption
    <3>6. \A p \in E + 1 .. Len(e) : e[p] = c[p] /\ p # i /\ p \in D + 1 .. Len(c)
      <4>1. \A p \in E + 1 .. Len(e) : p \in 1 .. Len(e) /\ p \notin i .. E /\ p # i
                                       /\ p \in D + 1 .. Len(c)
        <5> HIDE DEF e, c
        <5> QED BY <1>1, <1>3
      <4> QED BY <1>4, <4>1
    <3>7. \A p \in E + 1 .. Len(e) : e[p].id \in Id /\ e[p].data = FALSE => t.cache[e[p].id] # p
      <4> HIDE DEF c, D, e, i, E
      <4> QED BY <3>1, <3>3, <3>6
    <3> QED BY <1>2, <2>1, <3>4, <3>5, <3>7 DEF IndexSound
  <2> QED BY <2>2, <2>3
<1>9. Sound(t, C)
  <2>1. Cardinality(Unused(e, C)) <= t.hdr.freeSize
    BY <1>2, <1>6 DEF Sound, SoundBut
  <2>2. Remembers(t, C, IsFree)
    <3> SUFFICES ASSUME s.cache # Null, NEW m \in Live(e, C)
                 PROVE  t.cache[e[m].id] \in {0, m}
      BY <1>2 DEF Remembers, Indexed, e
    <3>1. t.cache = [s.cache EXCEPT ![id] = i] /\ s.cache \in [Id -> 0 .. Len(c)]
      <4>1. id # IsFree
        BY StoreAssumption DEF Id, IsFree
      <4> HIDE DEF c, i
      <4> QED BY <1>1, <1>2, <4>1 DEF Indexed, IndexSound, c
    <3>2. CASE m = i
      <4>1. t.cache[id] = i
        <5> HIDE DEF c
        <5> QED BY <3>1
      <4> QED BY <1>3, <3>2, <4>1
    <3>3. CASE m # i
      <4>1. m \in B /\ e[m].id # IsFree
        BY <3>3 DEF Live
      <4>2. e[m] = c[m]
        <5>1. m \in 1 .. D
          BY <1>1, <4>1 DEF FileSound, Layout
        <5> HIDE DEF e, c, D, n
        <5> QED BY <1>5, <5>1 DEF NewAtEnd
      <4>3. m \in Live(c, B)
        <5> HIDE DEF c, e
        <5> QED BY <4>1, <4>2 DEF Live
      <4>4. c[m].id # id /\ c[m].id \in Id
        <5>1. c[m].id # id
          BY <4>3
        <5> HIDE DEF c, D
        <5> QED BY <1>1, <4>3, <5>1 DEF FileSound
      <4>5. s.cache[c[m].id] \in {0, m}
        BY <4>3, <4>4, StoreAssumption DEF Sound, SoundBut, Remembers, Id, IsFree
      <4> HIDE DEF c, e
      <4> QED BY <3>1, <4>2, <4>4, <4>5
    <3> QED BY <3>2, <3>3
  <2> QED BY <1>2, <1>6, <1>8, <2>1, <2>2 DEF Sound, SoundBut
<1> QED BY <1>2, <1>7, <1>9 DEF t

-----------------------------------------------------------------------------
(* Lookups.  at is where the record is among the blocks T, if it is there. *)
IsAt(c, T, id, at) ==
  IF \E i \in T : c[i].id = id THEN at \in T /\ c[at].id = id ELSE at = 0

(* Data that looks like the block of a record there is not. *)
IsStray(c, B, id, at) ==
  /\ at \in 1 .. Len(c) /\ c[at].id = id /\ c[at].data = TRUE
  /\ \A i \in B : c[i].id # id

(* A lookup only changes the index. *)
Looked(s, t, B, but) ==
  /\ SoundBut(t, B, but) /\ t.cache # Null
  /\ t.cells = s.cells /\ t.hdr = s.hdr

LEMMA SoundIsSoundBut ==
  ASSUME NEW s, NEW B, Sound(s, B), NEW id
  PROVE  SoundBut(s, B, id)
BY DEF Sound, SoundBut, Remembers, Live

LEMMA SearchFromSound ==
  ASSUME NEW s, NEW B, NEW id \in Id, SoundBut(s, B, id), s.cache # Null,
         NEW from \in B \cup {s.hdr.dataSize + 1}
  PROVE  LET r == SearchFrom(s, id, from)
         IN  /\ IsAt(s.cells, {i \in B : i >= from}, id, r.at)
             /\ Looked(s, r.s, B, id)
             /\ r.at # 0 => r.s.cache[id] = r.at
<1> DEFINE c == s.cells
           D == s.hdr.dataSize
           seen == {i \in B : i >= from}
           found == {i \in seen : c[i].id = id}
           stop == IF found # {} THEN Min(found) ELSE IF seen # {} THEN Max(seen) ELSE 0
           t == [s EXCEPT !.cache = [s.cache EXCEPT ![id] = stop], !.last = stop]
           r == SearchFrom(s, id, from)
<1>1. /\ s \in Stores /\ FileSound(c, D, B) /\ c \in Seq(Cell) /\ Layout(c, D, B)
      /\ IndexSound(s, B) /\ D \in Nat /\ Len(c) \in Nat /\ D <= Len(c) /\ B \subseteq 1 .. D
  <2>1. /\ s \in Stores /\ FileSound(c, D, B) /\ c \in Seq(Cell) /\ Layout(c, D, B)
        /\ IndexSound(s, B)
    BY DEF Sound, SoundBut, FileSound
  <2>2. D \in 0 .. Len(c) /\ Len(c) \in Nat /\ B \subseteq 1 .. D
    BY <2>1, LenProperties DEF Layout
  <2> QED BY <2>1, <2>2
<1>2. Blocks(s, from, D) = seen
  <2> HIDE DEF D
  <2> QED BY <1>1, BlocksFrom DEF D
<1>3. r = [at |-> IF found # {} THEN stop ELSE 0, s |-> IF stop = 0 THEN s ELSE t]
  BY <1>2 DEF SearchFrom
<1>4. /\ seen \subseteq Nat \ {0} /\ found \subseteq Nat \ {0}
      /\ found # {} => stop \in found
      /\ stop \in B \cup {0}
  <2>1. seen \subseteq Nat \ {0} /\ found \subseteq seen /\ \A i \in seen : i <= D
    <3>1. \A i \in B : i \in Nat \ {0} /\ i <= D
      <4> HIDE DEF D, c
      <4> QED BY <1>1
    <3> QED BY <3>1
  <2>2. found # {} => Min(found) \in found
    <3> HIDE DEF found
    <3> QED BY <2>1, MinOfSet
  <2>3. seen # {} => Max(seen) \in seen
    <3> HIDE DEF seen
    <3> QED BY <1>1, <2>1, MaxOfSet
  <2> QED BY <2>1, <2>2, <2>3
<1> HIDE DEF stop
<1>5. IsAt(c, seen, id, r.at)
  <2>1. (\E i \in seen : c[i].id = id) <=> found # {}
    OBVIOUS
  <2> HIDE DEF seen, c
  <2> QED BY <1>3, <1>4, <2>1 DEF IsAt
<1>6. CASE stop = 0
  <2>1. r.s = s /\ r.at = 0
    BY <1>3, <1>6
  <2> QED BY <1>5, <2>1 DEF Looked
<1>7. CASE stop # 0
  <2>1. r.s = t /\ stop \in B /\ stop \in 1 .. D /\ stop \in 0 .. Len(c)
    BY <1>1, <1>3, <1>4, <1>7
  <2>2. /\ s.cache \in [Id -> 0 .. Len(c)]
        /\ \A p \in D + 1 .. Len(c) : c[p].id \in Id /\ c[p].data = FALSE => s.cache[c[p].id] # p
    BY <1>1 DEF IndexSound
  <2> DEFINE index == [s.cache EXCEPT ![id] = stop]
  <2>3. index \in [Id -> 0 .. Len(c)] /\ index \in [Id -> Nat] /\ index # Null
    <3>1. index \in [Id -> 0 .. Len(c)]
      BY <2>1, <2>2
    <3>2. index \in [Id -> Nat]
      BY <3>1
    <3> QED BY <3>1, <3>2, StoreAssumption
  <2>4. \A p \in D + 1 .. Len(c) : c[p].id \in Id /\ c[p].data = FALSE => index[c[p].id] # p
    <3>1. \A p \in D + 1 .. Len(c) : p # stop
      BY <2>1, <1>1
    <3> QED BY <2>2, <3>1
  <2>8. index[id] = stop /\ \A m \in Id : m # id => index[m] = s.cache[m]
    BY <2>2
  <2> HIDE DEF index
  <2>5. /\ t.cells = c /\ t.hdr = s.hdr /\ t.disk = s.disk /\ t.cache = index /\ t.last = stop
        /\ t \in Stores
    <3>1. t = [s EXCEPT !.cache = index, !.last = stop]
      BY DEF index
    <3>2. stop \in Nat
      BY <2>1
    <3> HIDE DEF t
    <3> QED BY <1>1, <2>3, <3>1, <3>2 DEF Stores
  <2> HIDE DEF t
  <2>6. IndexSound(t, B)
    BY <2>1, <2>3, <2>4, <2>5 DEF IndexSound
  <2>7. SoundBut(t, B, id)
    <3>1. Remembers(s, B, id) /\ \A i \in Live(s.cells, B) : s.cells[i].id \in Id
      BY DEF SoundBut, FileSound
    <3>2. Remembers(t, B, id)
      BY <2>5, <2>8, <3>1 DEF Remembers
    <3> QED BY <2>5, <2>6, <3>2 DEF SoundBut
  <2>9. r.at # 0 => r.at = stop
    BY <1>3
  <2> QED BY <1>5, <2>1, <2>3, <2>5, <2>7, <2>8, <2>9 DEF Looked
<1> QED BY <1>6, <1>7

(* The second search, from the first block on, is of all blocks: if it     *)
(* does not find the record, there is none, and else the index has it.     *)
LEMMA FoundOrNone ==
  ASSUME NEW c, NEW s, NEW t, NEW B, NEW id \in Id, NEW at, s.cells = c,
         Looked(s, t, B, id), IsAt(c, B, id, at), at # 0 => t.cache[id] = at
  PROVE  Looked(s, t, B, IsFree)
<1> SUFFICES ASSUME NEW i \in Live(c, B), c[i].id = id PROVE t.cache[id] = i
  BY DEF Looked, SoundBut, Remembers
<1>1. i \in B /\ FileSound(c, t.hdr.dataSize, B)
  BY DEF Live, Looked, SoundBut
<1>2. at \in B /\ c[at].id = id
  BY <1>1 DEF IsAt
<1>3. at \in Live(c, B)
  BY <1>2 DEF Live
<1>4. at = i
  BY <1>1, <1>2, <1>3 DEF FileSound
<1>5. i # 0
  BY <1>1 DEF FileSound, Layout
<1> QED BY <1>4, <1>5

LEMMA SearchSound ==
  ASSUME NEW s, NEW B, Sound(s, B), s.cache # Null, NEW id \in Id
  PROVE  LET r == Search(s, id)
         IN  IsAt(s.cells, B, id, r.at) /\ Looked(s, r.s, B, IsFree)
<1> DEFINE near == SearchFrom(s, id, s.last)
<1>1. /\ Layout(s.cells, s.hdr.dataSize, B) /\ s.last \in B \cup {0}
      /\ s.hdr.dataSize \in Nat /\ B \subseteq 1 .. s.hdr.dataSize
      /\ SoundBut(s, B, id)
  <2>1. Layout(s.cells, s.hdr.dataSize, B) /\ s.last \in B \cup {0}
        /\ s.hdr.dataSize \in Nat
    BY DEF Sound, SoundBut, FileSound, IndexSound, Stores, Headers
  <2> QED BY <2>1, SoundIsSoundBut DEF Layout
<1>2. 1 \in B \cup {s.hdr.dataSize + 1} /\ {i \in B : i >= 1} = B
  <2>1. 1 \in B \cup {s.hdr.dataSize + 1}
    BY <1>1 DEF Layout
  <2>2. \A i \in B : i >= 1
    BY <1>1
  <2> QED BY <2>1, <2>2
<1>3. CASE s.last = 0
  <2> DEFINE r == SearchFrom(s, id, 1)
  <2>1. Search(s, id) = r
    BY <1>3 DEF Search
  <2>2. /\ IsAt(s.cells, {i \in B : i >= 1}, id, r.at) /\ Looked(s, r.s, B, id)
        /\ r.at # 0 => r.s.cache[id] = r.at
    BY <1>1, <1>2, SearchFromSound
  <2> HIDE DEF r
  <2>3. Looked(s, r.s, B, IsFree)
    BY <1>2, <2>2, FoundOrNone
  <2> QED BY <1>2, <2>1, <2>2, <2>3
<1>4. CASE s.last # 0
  <2>1. s.last \in B
    BY <1>1, <1>4
  <2>2. /\ IsAt(s.cells, {i \in B : i >= s.last}, id, near.at) /\ Looked(s, near.s, B, id)
        /\ near.at # 0 => near.s.cache[id] = near.at
    BY <1>1, <2>1, SearchFromSound
  <2>3. CASE near.at # 0
    <3>1. Search(s, id) = near
      BY <1>4, <2>3 DEF Search
    <3>2. IsAt(s.cells, B, id, near.at)
      BY <2>2, <2>3 DEF IsAt
    <3> HIDE DEF near
    <3>3. Looked(s, near.s, B, IsFree)
      BY <2>2, <2>3, <3>2, FoundOrNone
    <3> QED BY <3>1, <3>2, <3>3
  <2>4. CASE near.at = 0
    <3> DEFINE t == near.s
    <3>1. Search(s, id) = SearchFrom(t, id, 1)
      BY <1>4, <2>4 DEF Search
    <3>2. SoundBut(t, B, id) /\ t.cache # Null /\ t.cells = s.cells /\ t.hdr = s.hdr
      BY <2>2 DEF Looked
    <3> HIDE DEF t, near
    <3> DEFINE r == SearchFrom(t, id, 1)
    <3>3. 1 \in B \cup {t.hdr.dataSize + 1}
      BY <1>2, <3>2
    <3>4. /\ IsAt(t.cells, {i \in B : i >= 1}, id, r.at) /\ Looked(t, r.s, B, id)
          /\ r.at # 0 => r.s.cache[id] = r.at
      BY <3>2, <3>3, SearchFromSound
    <3> HIDE DEF r
    <3>5. /\ IsAt(s.cells, B, id, r.at) /\ Looked(s, r.s, B, id)
          /\ r.at # 0 => r.s.cache[id] = r.at
      BY <1>2, <3>2, <3>4 DEF Looked
    <3>6. Looked(s, r.s, B, IsFree)
      BY <3>5, FoundOrNone
    <3> QED BY <3>1, <3>5, <3>6 DEF r
  <2> QED BY <2>3, <2>4
<1> QED BY <1>3, <1>4

LEMMA LookupSound ==
  ASSUME NEW s, NEW B, Sound(s, B), NEW id \in Id
  PROVE  LET r == getRecordHeader(s, id)
         IN  /\ IsAt(s.cells, B, id, r.at) \/ IsStray(s.cells, B, id, r.at)
             /\ Looked(s, r.s, B, IsFree)
<1> DEFINE c == s.cells
           D == s.hdr.dataSize
           at == IF s.cache = Null THEN 0 ELSE s.cache[id]
           v == [s EXCEPT !.cache = EmptyCache, !.last = 0]
<1>1. /\ s \in Stores /\ FileSound(c, D, B) /\ D \in Nat /\ Len(c) \in Nat /\ D <= Len(c)
      /\ IndexSound(s, B) /\ B \subseteq 1 .. D
  <2>1. s \in Stores /\ FileSound(c, D, B) /\ IndexSound(s, B)
    BY DEF Sound, SoundBut
  <2>2. D \in 0 .. Len(c) /\ Len(c) \in Nat /\ B \subseteq 1 .. D
    BY <2>1, LenProperties DEF FileSound, Layout
  <2> QED BY <2>1, <2>2
<1>2. CASE s.cache = Null
  <2>1. at = 0
    BY <1>2
  <2>2. getRecordHeader(s, id) = Search(v, id)
    BY <1>2, <2>1 DEF getRecordHeader
  <2>3. EmptyCache \in [Id -> 0 .. Len(c)] /\ EmptyCache \in [Id -> Nat] /\ EmptyCache # Null
    <3>1. EmptyCache \in [Id -> 0 .. Len(c)] /\ EmptyCache \in [Id -> Nat]
      BY <1>1 DEF EmptyCache
    <3> QED BY <3>1, StoreAssumption
  <2>4. \A p \in D + 1 .. Len(c) : c[p].id \in Id /\ c[p].data = FALSE => EmptyCache[c[p].id] # p
    BY <1>1 DEF EmptyCache
  <2>5. /\ v.cells = c /\ v.hdr = s.hdr /\ v.disk = s.disk /\ v.cache = EmptyCache /\ v.last = 0
        /\ v \in Stores
    BY <1>1, <2>3 DEF Stores
  <2> HIDE DEF v
  <2>6. Sound(v, B)
    <3>1. IndexSound(v, B)
      BY <2>3, <2>4, <2>5 DEF IndexSound
    <3>2. Remembers(v, B, IsFree)
      <4>1. \A i \in Live(c, B) : c[i].id \in Id
        BY <1>1 DEF FileSound
      <4> QED BY <2>5, <4>1 DEF Remembers, EmptyCache
    <3> QED BY <2>5, <3>1, <3>2 DEF Sound, SoundBut
  <2> DEFINE r == Search(v, id)
  <2>7. IsAt(v.cells, B, id, r.at) /\ Looked(v, r.s, B, IsFree)
    BY <2>3, <2>5, <2>6, SearchSound
  <2> HIDE DEF r
  <2>8. IsAt(c, B, id, r.at) /\ Looked(s, r.s, B, IsFree)
    BY <2>5, <2>7 DEF Looked
  <2> QED BY <2>2, <2>8 DEF r
<1>3. CASE s.cache # Null
  <2>1. /\ at = s.cache[id] /\ at \in 0 .. Len(c) /\ ~(at > Len(c))
        /\ \A p \in D + 1 .. Len(c) : c[p].id \in Id /\ c[p].data = FALSE => s.cache[c[p].id] # p
    <3>1. /\ s.cache \in [Id -> 0 .. Len(c)]
          /\ \A p \in D + 1 .. Len(c) : c[p].id \in Id /\ c[p].data = FALSE => s.cache[c[p].id] # p
      BY <1>1, <1>3 DEF IndexSound
    <3> QED BY <1>1, <1>3, <3>1
  <2>2. CASE at # 0 /\ c[at].id = id
    <3>1. getRecordHeader(s, id) = [at |-> at, s |-> s]
      BY <2>1, <2>2 DEF getRecordHeader
    <3>2. at \in 1 .. Len(c) /\ c[at].id = id /\ c[at].data \in BOOLEAN
      <4>1. at \in 1 .. Len(c)
        <5> HIDE DEF at, c
        <5> QED BY <1>1, <2>1, <2>2
      <4>2. c[at] \in Cell
        <5> HIDE DEF at
        <5> QED BY <1>1, <4>1, ElementOfSeq DEF FileSound
      <4> HIDE DEF at, c
      <4> QED BY <2>2, <4>1, <4>2 DEF Cell
    <3>3. CASE c[at].data = FALSE
      <4>1. at \notin D + 1 .. Len(c)
        <5> HIDE DEF at
        <5> QED BY <2>1, <2>2, <3>3
      <4>2. at \in 1 .. D
        <5> HIDE DEF at, c, D
        <5> QED BY <1>1, <2>1, <2>2, <4>1
      <4>3. at \in B
        <5> HIDE DEF at, c, D
        <5> QED BY <1>1, <3>3, <4>2 DEF FileSound
      <4>4. IsAt(c, B, id, at)
        BY <2>2, <4>3 DEF IsAt
      <4>5. Looked(s, s, B, IsFree)
        BY <1>3 DEF Sound, Looked
      <4> HIDE DEF at
      <4> QED BY <3>1, <4>4, <4>5
    <3>4. CASE c[at].data = TRUE
      <4>1. at \notin B
        <5> HIDE DEF at, c, D
        <5> QED BY <1>1, <3>4 DEF FileSound
      <4>2. \A i \in B : c[i].id # id
        <5> SUFFICES ASSUME NEW i \in B, c[i].id = id PROVE FALSE
          OBVIOUS
        <5>1. id # IsFree
          BY StoreAssumption DEF Id, IsFree
        <5>2. i \in Live(c, B)
          BY <5>1 DEF Live
        <5>3. s.cache[id] \in {0, i}
          BY <1>3, <5>1, <5>2 DEF Sound, SoundBut, Remembers
        <5> HIDE DEF at, c
        <5> QED BY <2>1, <2>2, <4>1, <5>3
      <4>3. IsStray(c, B, id, at)
        <5> HIDE DEF at, c
        <5> QED BY <3>2, <3>4, <4>2 DEF IsStray
      <4>4. Looked(s, s, B, IsFree)
        BY <1>3 DEF Sound, Looked
      <4> HIDE DEF at
      <4> QED BY <3>1, <4>3, <4>4
    <3> QED BY <3>2, <3>3, <3>4
  <2>3. CASE ~(at # 0 /\ c[at].id = id)
    <3>1. getRecordHeader(s, id) = Search(s, id)
      BY <1>3, <2>1, <2>3 DEF getRecordHeader
    <3> QED BY <1>3, <3>1, SearchSound
  <2> QED BY <2>2, <2>3
<1> QED BY <1>2, <1>3

-----------------------------------------------------------------------------
(* compactRecords.  Its recursion has a solution, first up to each n. *)
MovingTo(s, B, n, f) ==
  [m \in 0 .. n |->
     IF m = 0 THEN [by |-> 0, s |-> s]
     ELSE IF m \in B THEN MoveUp(f[m - 1], m) ELSE f[m - 1]]

LEMMA MovingHasSolution ==
  ASSUME NEW s, NEW B, NEW D \in Nat
  PROVE  \E f : f = MovingTo(s, B, D, f)
<1> DEFINE T == {n \in 0 .. D : \E f : f = MovingTo(s, B, n, f)}
<1>1. 0 \in T
  <2> DEFINE f == [m \in 0 .. 0 |-> [by |-> 0, s |-> s]]
  <2>1. \A m \in 0 .. 0 : m = 0
    OBVIOUS
  <2>2. f = MovingTo(s, B, 0, f)
    BY <2>1 DEF MovingTo
  <2> HIDE DEF f
  <2> QED BY <2>2
<1>2. ASSUME NEW n \in 0 + 1 .. D, n - 1 \in T PROVE n \in T
  <2>1. PICK f : f = MovingTo(s, B, n - 1, f)
    BY <1>2
  <2> DEFINE last == IF n \in B THEN MoveUp(f[n - 1], n) ELSE f[n - 1]
             g == [m \in 0 .. n |-> IF m = n THEN last ELSE f[m]]
             h == MovingTo(s, B, n, g)
  <2>2. ASSUME NEW m \in 0 .. n PROVE g[m] = h[m]
    <3>1. CASE m = n
      <4>1. m # 0 /\ m - 1 \in 0 .. n /\ m - 1 # n
        BY <3>1
      <4>2. g[m - 1] = f[m - 1]
        BY <4>1
      <4>3. h[m] = IF m \in B THEN MoveUp(g[m - 1], m) ELSE g[m - 1]
        BY <4>1 DEF MovingTo
      <4>4. g[m] = last
        BY <3>1
      <4> HIDE DEF g, h
      <4> QED BY <3>1, <4>2, <4>3, <4>4
    <3>2. CASE m # n
      <4>1. m \in 0 .. n - 1 /\ (m # 0 => m - 1 \in 0 .. n /\ m - 1 # n)
        BY <3>2
      <4>2. g[m] = f[m] /\ (m # 0 => g[m - 1] = f[m - 1])
        BY <3>2, <4>1
      <4> DEFINE k == MovingTo(s, B, n - 1, f)
      <4>3. k[m] = IF m = 0 THEN [by |-> 0, s |-> s]
                   ELSE IF m \in B THEN MoveUp(f[m - 1], m) ELSE f[m - 1]
        BY <4>1 DEF MovingTo
      <4>4. h[m] = IF m = 0 THEN [by |-> 0, s |-> s]
                   ELSE IF m \in B THEN MoveUp(g[m - 1], m) ELSE g[m - 1]
        BY DEF MovingTo
      <4>5. f[m] = k[m]
        <5> HIDE DEF k
        <5> QED BY <2>1 DEF k
      <4> HIDE DEF g, h, k
      <4> QED BY <4>2, <4>3, <4>4, <4>5
    <3> QED BY <3>1, <3>2
  <2>3. h = [m \in 0 .. n |-> h[m]] /\ g = [m \in 0 .. n |-> g[m]]
    BY DEF MovingTo
  <2> HIDE DEF g, h
  <2>4. g = h
    BY <2>2, <2>3
  <2>5. n \in 0 .. D
    OBVIOUS
  <2> QED BY <2>4, <2>5 DEF h
<1>3. D \in 0 .. D
  OBVIOUS
<1>4. 0 .. D \subseteq T
  <2> HIDE DEF T
  <2> QED BY <1>1, <1>2, UpTo
<1> QED BY <1>3, <1>4

(* The blocks of s that begin before the one at e have moved, by acc.by    *)
(* cells in the end, and the records among them now begin at T.  From      *)
(* there on the file is as it was.  The index has each of them at its      *)
(* new place, unless it did not move.                                      *)
Moved(s, B, e, acc, T) ==
  LET a == acc.s.cells
      by == acc.by
  IN  /\ acc = [by |-> by, s |-> acc.s] /\ by \in Nat /\ by < e
      /\ acc.s \in Stores /\ acc.s.hdr = s.hdr /\ acc.s.disk = s.disk
      /\ Len(a) = Len(s.cells)
      /\ \A p \in 1 .. Len(a) : p >= e - by => a[p] = s.cells[p]
      /\ FileSound(a, e - 1 - by, T)
      /\ \A t \in T : a[t].id # IsFree
      /\ Held(a, T) = Held(s.cells, {j \in B : j < e})
      /\ acc.s.last \in {0, s.last} /\ (by > 0 => acc.s.last = 0)
      /\ acc.s.cache = Null <=> s.cache = Null
      /\ s.cache # Null =>
           /\ \A id \in Id : \/ acc.s.cache[id] = s.cache[id]
                             \/ acc.s.cache[id] \in T /\ a[acc.s.cache[id]].id = id
           /\ \A t \in T : acc.s.cache[a[t].id] = t \/ (t \in B /\ s.cells[t].id = a[t].id)

(* A free block makes the way longer. *)
LEMMA MovedOverFree ==
  ASSUME NEW s, NEW B, Sound(s, B), NEW i \in B, s.cells[i].id = IsFree,
         NEW acc, NEW T, Moved(s, B, i, acc, T)
  PROVE  Moved(s, B, After(s.cells, i), MoveUp(acc, i), T)
<1> DEFINE c == s.cells
           D == s.hdr.dataSize
           a == acc.s.cells
           by == acc.by
           len == c[i].len
           e == After(c, i)
           x == MoveUp(acc, i)
<1>1. /\ c \in Seq(Cell) /\ FileSound(c, D, B) /\ Layout(c, D, B) /\ IndexSound(s, B)
  BY DEF Sound, SoundBut, FileSound
<1>2. /\ i \in Nat \ {0} /\ len \in Nat /\ i \in 1 .. Len(c) /\ e = i + len + 1
      /\ \A j \in B : j \in Nat /\ (i < j => i + len < j)
  <2>1. i \in Nat \ {0} /\ len \in Nat /\ i \in 1 .. Len(c) /\ \A j \in B : i < j => i + len < j
    <3> HIDE DEF c, D
    <3> QED BY <1>1, BlockFacts
  <2>2. \A j \in B : j \in Nat
    BY <1>1 DEF Layout
  <2> QED BY <2>1, <2>2 DEF After, BlockSize
<1>3. a[i] = c[i] /\ by \in Nat /\ by < i
  BY <1>2 DEF Moved
<1>4. x = [by |-> by + (len + 1), s |-> removeBlock(acc.s)] /\ x = [by |-> x.by, s |-> x.s]
  BY <1>3 DEF MoveUp, BlockSize
<1>5. /\ x.s \in Stores /\ x.s.cells = a /\ x.s.hdr = s.hdr /\ x.s.disk = s.disk
      /\ x.s.cache = acc.s.cache /\ x.s.last = 0
  <2>1. acc.s \in Stores /\ acc.s.hdr = s.hdr /\ acc.s.disk = s.disk
        /\ (acc.s.cache = Null => s.cache = Null) /\ acc.s.last \in {0, s.last}
    BY DEF Moved
  <2>2. acc.s.cache = Null => acc.s.last = 0
    BY <1>1, <2>1 DEF IndexSound
  <2>3. x.s = IF acc.s.cache = Null THEN acc.s ELSE [acc.s EXCEPT !.last = 0]
    BY <1>4 DEF removeBlock
  <2>4. CASE acc.s.cache = Null
    BY <2>1, <2>2, <2>3, <2>4
  <2>5. CASE acc.s.cache # Null
    <3> DEFINE v == [acc.s EXCEPT !.last = 0]
    <3>1. /\ v \in Stores /\ v.cells = acc.s.cells /\ v.hdr = acc.s.hdr /\ v.disk = acc.s.disk
          /\ v.cache = acc.s.cache /\ v.last = 0
      BY <2>1 DEF Stores
    <3> HIDE DEF v
    <3>2. x.s = v
      BY <2>3, <2>5 DEF v
    <3> QED BY <2>1, <3>1, <3>2
  <2> QED BY <2>4, <2>5
<1>6. x.by = by + len + 1 /\ x.by \in Nat /\ x.by < e /\ e - x.by = i - by /\ e - 1 - x.by = i - 1 - by
  <2>1. x.by = by + (len + 1)
    BY <1>4
  <2> HIDE DEF x, by, len, e
  <2> QED BY <1>2, <1>3, <2>1
<1> HIDE DEF x
<1>7. Held(c, {j \in B : j < e}) = Held(c, {j \in B : j < i})
  <2>1. \A j \in B : c[j].id # IsFree => (j < e <=> j < i)
    <3> SUFFICES ASSUME NEW j \in B, c[j].id # IsFree PROVE j < e <=> j < i
      OBVIOUS
    <3>1. j # i /\ j \in Nat /\ (i < j => i + len < j)
      BY <1>2
    <3>2. i \in Nat /\ len \in Nat /\ e = i + len + 1
      BY <1>2
    <3> HIDE DEF c, len, e
    <3> QED BY <3>1, <3>2
  <2>2. Live(c, {j \in B : j < e}) = Live(c, {j \in B : j < i})
    <3> HIDE DEF e, c
    <3> QED BY <2>1 DEF Live
  <2> QED BY <2>2 DEF Held
<1> HIDE DEF e
<1> QED BY <1>4, <1>5, <1>6, <1>7 DEF Moved, x, e

(* The block of a record moves up behind those that have. *)
BlockMoved(s, i, acc, x) ==
  LET c == s.cells
      a == acc.s.cells
      f == x.s.cells
      by == acc.by
  IN  /\ x = [by |-> by, s |-> x.s] /\ x.s \in Stores
      /\ x.s.hdr = acc.s.hdr /\ x.s.disk = acc.s.disk /\ x.s.last = acc.s.last
      /\ Len(f) = Len(a)
      /\ \A p \in 1 .. Len(a) :
           f[p] = IF p \in i - by .. i - by + c[i].len THEN c[p + by] ELSE a[p]
      /\ \/ x.s.cache = Indexed(acc.s.cache, c[i].id, i - by)
         \/ by = 0 /\ x.s.cache = acc.s.cache

LEMMA MovedWithBlock ==
  ASSUME NEW s, NEW B, Sound(s, B), NEW i \in B, s.cells[i].id # IsFree,
         NEW acc, NEW T, Moved(s, B, i, acc, T), NEW x, BlockMoved(s, i, acc, x)
  PROVE  Moved(s, B, After(s.cells, i), x, T \cup {i - acc.by})
<1> DEFINE c == s.cells
           D == s.hdr.dataSize
           a == acc.s.cells
           f == x.s.cells
           by == acc.by
           len == c[i].len
           id == c[i].id
           j == i - by
           e == After(c, i)
           S == T \cup {j}
<1>1. /\ c \in Seq(Cell) /\ FileSound(c, D, B) /\ Layout(c, D, B) /\ IndexSound(s, B)
      /\ id \in Id /\ id # IsFree
  <2>1. FileSound(c, D, B) /\ IndexSound(s, B)
    BY DEF Sound, SoundBut
  <2>2. id \in Id
    BY <2>1 DEF FileSound, Live
  <2> QED BY <2>1, <2>2 DEF FileSound
<1>2. /\ i \in Nat \ {0} /\ len \in Nat /\ i \in 1 .. Len(c) /\ e = i + len + 1
      /\ D \in Nat /\ i + len <= D /\ D <= Len(c) /\ Len(c) \in Nat
      /\ \A k \in B : k \in Nat /\ (i < k => i + len < k)
  <2>1. /\ i \in Nat \ {0} /\ len \in Nat /\ i \in 1 .. Len(c) /\ \A k \in B : i < k => i + len < k
        /\ D \in Nat /\ i + len <= D /\ D <= Len(c) /\ Len(c) \in Nat
    <3> HIDE DEF c, D
    <3> QED BY <1>1, BlockFacts
  <2>2. \A k \in B : k \in Nat
    BY <1>1 DEF Layout
  <2> QED BY <2>1, <2>2 DEF After, BlockSize
<1>3. /\ by \in Nat /\ by < i /\ acc.s \in Stores /\ acc.s.hdr = s.hdr /\ acc.s.disk = s.disk
      /\ Len(a) = Len(c) /\ (\A p \in 1 .. Len(a) : p >= i - by => a[p] = c[p])
      /\ FileSound(a, i - 1 - by, T) /\ (\A t \in T : a[t].id # IsFree)
      /\ Held(a, T) = Held(c, {k \in B : k < i})
      /\ acc.s.last \in {0, s.last} /\ (by > 0 => acc.s.last = 0)
      /\ (acc.s.cache = Null <=> s.cache = Null)
  BY DEF Moved
<1>4. /\ x.by = by /\ x = [by |-> x.by, s |-> x.s] /\ x.s \in Stores
      /\ x.s.hdr = acc.s.hdr /\ x.s.disk = acc.s.disk /\ x.s.last = acc.s.last
      /\ Len(f) = Len(a)
      /\ \A p \in 1 .. Len(a) :
           f[p] = IF p \in j .. j + len THEN c[p + by] ELSE a[p]
      /\ \/ x.s.cache = Indexed(acc.s.cache, id, j)
         \/ by = 0 /\ x.s.cache = acc.s.cache
  BY DEF BlockMoved
<1>5. /\ j \in Nat \ {0} /\ j + len <= Len(a) /\ e - by = j + len + 1
      /\ e - 1 - by = (j - 1) + 1 + len /\ i - 1 - by = j - 1 /\ j - 1 \in Nat
      /\ (j - 1) + 1 = j /\ (j - 1) + 2 = j + 1
  <2> HIDE DEF c, D, a, by, len, e
  <2> QED BY <1>2, <1>3
<1>6. a \in Seq(Cell) /\ f \in Seq(Cell) /\ Layout(a, j - 1, T) /\ T \subseteq 1 .. j - 1
  <2>1. FileSound(a, j - 1, T)
    BY <1>3, <1>5
  <2>2. f \in Seq(Cell)
    BY <1>4 DEF Stores
  <2> QED BY <2>1, <2>2 DEF FileSound, Layout
<1>7. \A k \in 0 .. len : f[j + k] = c[i + k]
  <2> SUFFICES ASSUME NEW k \in 0 .. len PROVE f[j + k] = c[i + k]
    OBVIOUS
  <2>1. j + k \in 1 .. Len(a) /\ j + k \in j .. j + len /\ j + k + by = i + k
    <3> HIDE DEF a, c, len, by
    <3> QED BY <1>2, <1>3, <1>5
  <2> HIDE DEF f, c, a, j, by, len
  <2> QED BY <1>4, <2>1
<1>8. f[j] = c[i] /\ f[j].id = id /\ f[j].len = len /\ f[j].data = FALSE
  <2>1. 0 \in 0 .. len /\ j + 0 = j /\ i + 0 = i
    BY <1>2, <1>5
  <2>2. f[j] = c[i]
    <3> HIDE DEF f, c, j
    <3> QED BY <1>7, <2>1
  <2>3. c[i].data = FALSE
    <3> HIDE DEF c, D
    <3> QED BY <1>1 DEF FileSound
  <2> QED BY <2>2, <2>3
<1>9. \A p \in 1 .. Len(a) : p \notin j .. j + len => f[p] = a[p]
  BY <1>4
<1>10. \A p \in 1 .. j - 1 : f[p] = a[p]
  <2>1. \A p \in 1 .. j - 1 : p \in 1 .. Len(a) /\ p \notin j .. j + len
    <3>1. Len(a) \in Nat /\ len \in Nat /\ j \in Nat /\ j + len <= Len(a)
      BY <1>2, <1>3, <1>5
    <3> HIDE DEF a, len, j
    <3> QED BY <3>1
  <2> QED BY <1>9, <2>1
<1>11. \A p \in 1 .. Len(f) : p >= e - by => f[p] = c[p]
  <2> SUFFICES ASSUME NEW p \in 1 .. Len(f), p >= e - by PROVE f[p] = c[p]
    OBVIOUS
  <2>1. p \in 1 .. Len(a) /\ p \notin j .. j + len /\ p >= i - by
    <3>1. Len(f) = Len(a) /\ Len(a) \in Nat /\ p \in 1 .. Len(f)
      BY <1>2, <1>3, <1>4
    <3>2. /\ len \in Nat /\ j \in Nat /\ i \in Nat /\ by \in Nat /\ e = i + len + 1
          /\ e - by = j + len + 1
      BY <1>2, <1>3, <1>5
    <3>3. p >= e - by
      OBVIOUS
    <3> HIDE DEF a, f, len, by, e, j
    <3> QED BY <3>1, <3>2, <3>3
  <2> HIDE DEF a, f, c
  <2> QED BY <1>3, <1>9, <2>1
<1>12. NewAtEnd(a, f, j - 1, T, id, len)
  <2>1. \A k \in Live(a, T) : a[k].id # id
    <3> SUFFICES ASSUME NEW k \in Live(a, T), a[k].id = id PROVE FALSE
      OBVIOUS
    <3>1. <<a[k].id, DataAt(a, k)>> \in Held(c, {m \in B : m < i})
      BY <1>3 DEF Held
    <3>2. PICK m \in Live(c, {n \in B : n < i}) : <<a[k].id, DataAt(a, k)>> = <<c[m].id, DataAt(c, m)>>
      BY <3>1 DEF Held
    <3>3. c[m].id = id /\ m \in Live(c, B) /\ i \in Live(c, B) /\ m # i
      <4>1. m \in B /\ m < i /\ c[m].id # IsFree
        BY DEF Live
      <4>2. m # i
        BY <1>2, <4>1
      <4>3. c[m].id = a[k].id
        BY <3>2
      <4> HIDE DEF c, a
      <4> QED BY <3>2, <4>1, <4>2, <4>3, <1>1 DEF Live
    <3> QED BY <3>3, <1>1 DEF FileSound
  <2>2. \A p \in j + 1 .. j + len : f[p].data = TRUE
    <3> SUFFICES ASSUME NEW p \in j + 1 .. j + len PROVE f[p].data = TRUE
      OBVIOUS
    <3>1. p - j \in 0 .. len /\ j + (p - j) = p /\ i + (p - j) \in i .. i + len /\ i + (p - j) # i
      <4> HIDE DEF j, len
      <4> QED BY <1>2, <1>5
    <3>2. f[p] = c[i + (p - j)]
      <4> HIDE DEF f, c, len, j
      <4> QED BY <1>7, <3>1
    <3>3. c[i + (p - j)].data = TRUE
      <4> DEFINE q == i + (p - j)
      <4> HIDE DEF q, c, D
      <4>1. q \in i .. i + c[i].len /\ q # i
        BY <3>1 DEF q
      <4>2. c[q].data = TRUE
        <5>1. FileSound(c, D, B) /\ i \in B
          BY <1>1
        <5> QED BY <4>1, <5>1, InBlock
      <4> QED BY <4>2 DEF q
    <3> QED BY <3>2, <3>3
  <2>3. (j - 1) + 1 + len <= Len(f)
    <3> HIDE DEF f, a, len, j
    <3> QED BY <1>2, <1>4, <1>5
  <2> HIDE DEF f, a, id, len, j
  <2> QED BY <1>1, <1>2, <1>5, <1>6, <1>8, <1>10, <2>1, <2>2, <2>3 DEF NewAtEnd
<1>13. /\ FileSound(f, e - 1 - by, S)
       /\ Held(f, S) = Held(a, T) \cup {<<id, DataAt(f, j)>>}
  <2> HIDE DEF f, a, id, len, j, e
  <2>1. Extended(a, f, j - 1, T, id, len)
    BY <1>3, <1>5, <1>12, BlockAtEnd
  <2> QED BY <1>5, <2>1 DEF Extended
<1>14. Held(f, S) = Held(c, {k \in B : k < e})
  <2>1. DataAt(f, j) = DataAt(c, i)
    <3>1. \A k \in 1 .. len : f[j + k] = c[i + k]
      <4>1. \A k \in 1 .. len : k \in 0 .. len
        BY <1>2
      <4> HIDE DEF f, c, len, j
      <4> QED BY <1>7, <4>1
    <3>2. i + len <= Len(c) /\ j + len <= Len(f)
      <4> HIDE DEF f, c, a, D, len, j
      <4> QED BY <1>2, <1>4, <1>5
    <3> HIDE DEF f, c, j
    <3>3. /\ c \in Seq(Cell) /\ f \in Seq(Cell) /\ i \in Nat \ {0} /\ j \in Nat \ {0}
          /\ c[i].len \in Nat /\ f[j].len = c[i].len
      BY <1>1, <1>2, <1>5, <1>6, <1>8
    <3> QED BY <3>1, <3>2, <3>3, SameData
  <2>2. {k \in B : k < e} = {k \in B : k < i} \cup {i}
    <3>1. \A k \in B : k < e <=> (k < i \/ k = i)
      <4> HIDE DEF c, len, e
      <4> QED BY <1>2
    <3> HIDE DEF e
    <3> QED BY <3>1
  <2> DEFINE A == {k \in B : k < i}
  <2>3. Live(c, A \cup {i}) = Live(c, A) \cup {i}
    BY <1>1 DEF Live
  <2>4. Held(c, A \cup {i}) = Held(c, A) \cup {<<id, DataAt(c, i)>>}
    <3> HIDE DEF A, c
    <3> QED BY <2>3 DEF Held
  <2> HIDE DEF A, c, f, j, e, id, S
  <2> QED BY <1>3, <1>13, <2>1, <2>2, <2>4 DEF A
<1>15. \A t \in T : f[t] = a[t] /\ t # j
  <2>1. \A t \in T : t \in 1 .. j - 1 /\ t # j
    BY <1>5, <1>6
  <2> HIDE DEF f, a, j
  <2> QED BY <1>10, <2>1
<1>16. \A t \in S : f[t].id # IsFree
  <2> HIDE DEF f, a, j, id
  <2> QED BY <1>1, <1>3, <1>8, <1>15
<1>17. x.s.cache = Null <=> s.cache = Null
  <2>1. CASE x.s.cache = acc.s.cache
    BY <1>3, <2>1
  <2>2. CASE x.s.cache = Indexed(acc.s.cache, id, j) /\ acc.s.cache = Null
    BY <1>3, <2>2 DEF Indexed
  <2>3. CASE x.s.cache = Indexed(acc.s.cache, id, j) /\ acc.s.cache # Null
    <3>1. acc.s.cache \in [Id -> Nat]
      BY <1>3, <2>3 DEF Stores
    <3>2. x.s.cache = [acc.s.cache EXCEPT ![id] = j]
      BY <1>1, <2>3 DEF Indexed
    <3> HIDE DEF j, id
    <3>3. x.s.cache \in [Id -> Nat]
      BY <1>5, <3>1, <3>2
    <3> QED BY <1>3, <2>3, <3>3, StoreAssumption
  <2> QED BY <1>4, <2>1, <2>2, <2>3
<1>18. ASSUME s.cache # Null
       PROVE  /\ \A m \in Id : \/ x.s.cache[m] = s.cache[m]
                               \/ x.s.cache[m] \in S /\ f[x.s.cache[m]].id = m
              /\ \A t \in S : x.s.cache[f[t].id] = t \/ (t \in B /\ c[t].id = f[t].id)
  <2>1. /\ \A m \in Id : \/ acc.s.cache[m] = s.cache[m]
                         \/ acc.s.cache[m] \in T /\ a[acc.s.cache[m]].id = m
        /\ \A t \in T : acc.s.cache[a[t].id] = t \/ (t \in B /\ c[t].id = a[t].id)
        /\ acc.s.cache # Null /\ acc.s.cache \in [Id -> Nat]
    <3>1. acc.s.cache # Null
      BY <1>3, <1>18
    <3> QED BY <1>3, <1>18, <3>1 DEF Moved, Stores
  <2>2. CASE by = 0 /\ x.s.cache = acc.s.cache
    <3>1. j = i
      BY <1>2, <2>2
    <3> HIDE DEF j, f, c, a, id
    <3> QED BY <1>8, <1>15, <2>1, <2>2, <3>1
  <2>3. CASE x.s.cache = Indexed(acc.s.cache, id, j)
    <3>1. x.s.cache = [acc.s.cache EXCEPT ![id] = j]
      BY <1>1, <2>1, <2>3 DEF Indexed
    <3>2. x.s.cache[id] = j /\ \A m \in Id : m # id => x.s.cache[m] = acc.s.cache[m]
      <4> HIDE DEF j, id
      <4> QED BY <1>1, <2>1, <3>1
    <3>3. \A t \in T : a[t].id \in Id /\ a[t].id # id
      <4>1. \A t \in T : t \in Live(a, T)
        BY <1>3 DEF Live
      <4> HIDE DEF a, id, f, j, len
      <4> QED BY <1>3, <1>12, <4>1 DEF FileSound, NewAtEnd
    <3> HIDE DEF j, f, c, a, id
    <3>4. \A m \in Id : \/ x.s.cache[m] = s.cache[m]
                        \/ x.s.cache[m] \in S /\ f[x.s.cache[m]].id = m
      BY <1>8, <1>15, <2>1, <3>2
    <3>5. ASSUME NEW t \in S PROVE x.s.cache[f[t].id] = t \/ (t \in B /\ c[t].id = f[t].id)
      <4>1. CASE t = j
        BY <1>8, <3>2, <4>1
      <4>2. CASE t \in T
        BY <1>15, <2>1, <3>2, <3>3, <4>2
      <4> QED BY <4>1, <4>2
    <3> QED BY <3>4, <3>5
  <2> QED BY <1>4, <2>2, <2>3
<1>19. x.by < e
  <2> HIDE DEF e, by, len, c
  <2> QED BY <1>2, <1>3, <1>4
<1> HIDE DEF e, S
<1> QED BY <1>3, <1>4, <1>11, <1>13, <1>14, <1>16, <1>17, <1>18, <1>19 DEF Moved, e, S

LEMMA MoveUpMoves ==
  ASSUME NEW s, NEW B, Sound(s, B), NEW i \in B, s.cells[i].id # IsFree,
         NEW acc, NEW T, Moved(s, B, i, acc, T)
  PROVE  BlockMoved(s, i, acc, MoveUp(acc, i))
<1> DEFINE c == s.cells
           D == s.hdr.dataSize
           a == acc.s.cells
           by == acc.by
           len == c[i].len
           id == c[i].id
           j == i - by
           x == MoveUp(acc, i)
           new == SubSeq(a, i, i + len)
           w == WriteCells(acc.s, j, new)
           f == w.cells
           y == updateBlock(w, j, id)
<1>1. /\ c \in Seq(Cell) /\ FileSound(c, D, B) /\ Layout(c, D, B) /\ id \in Id /\ id # IsFree
  <2>1. FileSound(c, D, B)
    BY DEF Sound, SoundBut
  <2>2. id \in Id
    BY <2>1 DEF FileSound, Live
  <2> QED BY <2>1, <2>2 DEF FileSound
<1>2. /\ i \in Nat \ {0} /\ len \in Nat /\ i \in 1 .. Len(c)
      /\ D \in Nat /\ i + len <= D /\ D <= Len(c) /\ Len(c) \in Nat
  <2> HIDE DEF c, D
  <2> QED BY <1>1, BlockFacts
<1>3. /\ acc = [by |-> by, s |-> acc.s]
      /\ by \in Nat /\ by < i /\ acc.s \in Stores /\ Len(a) = Len(c)
      /\ \A p \in 1 .. Len(a) : p >= j => a[p] = c[p]
  BY DEF Moved
<1>4. a[i] = c[i] /\ a \in Seq(Cell)
  <2>1. i >= j /\ i \in 1 .. Len(a)
    <3> HIDE DEF a, c
    <3> QED BY <1>2, <1>3
  <2>2. a[i] = c[i]
    <3> HIDE DEF a, c, j
    <3> QED BY <1>3, <2>1
  <2> QED BY <1>3, <2>2 DEF Stores
<1>5. x = IF by = 0 THEN acc ELSE [acc EXCEPT !.s = y]
  BY <1>1, <1>4 DEF MoveUp
<1>6. ASSUME NEW p \in j .. j + len
      PROVE  p + by \in i .. i + len /\ c[p + by] = a[p + by] /\ (p + by) - i + 1 = p - j + 1
  <2>1. p + by \in i .. i + len /\ p + by >= j /\ p + by \in 1 .. Len(a)
        /\ (p + by) - i + 1 = p - j + 1
    <3> HIDE DEF a, c, by, len
    <3> QED BY <1>2, <1>3
  <2> HIDE DEF a, c, j, len, by
  <2> QED BY <1>3, <2>1
<1>7. CASE by = 0
  <2>1. x = acc
    BY <1>5, <1>7
  <2>2. \A p \in 1 .. Len(a) : a[p] = IF p \in i - by .. i - by + len THEN c[p + by] ELSE a[p]
    <3> SUFFICES ASSUME NEW p \in j .. j + len PROVE a[p] = c[p + by]
      OBVIOUS
    <3>1. p + by = p
      BY <1>7, <1>2
    <3> HIDE DEF a, c, j, len, by
    <3> QED BY <1>6, <3>1
  <2> HIDE DEF x
  <2> QED BY <1>3, <1>7, <2>1, <2>2 DEF BlockMoved, x
<1>8. CASE by # 0
  <2>1. x = [acc EXCEPT !.s = y]
    BY <1>5, <1>8
  <2>2. /\ new \in Seq(Cell) /\ Len(new) = len + 1
        /\ \A k \in 1 .. len + 1 : new[k] = a[i + k - 1]
    <3>1. \A k \in i .. i + len : a[k] \in Cell
      <4> SUFFICES ASSUME NEW k \in i .. i + len PROVE a[k] \in Cell
        OBVIOUS
      <4>1. k \in 1 .. Len(a)
        <5> HIDE DEF a, c, len
        <5> QED BY <1>2, <1>3
      <4> QED BY <1>4, <4>1, ElementOfSeq
    <3>2. i \in Int /\ i + len \in Int /\ i <= i + len /\ (i + len) - i + 1 = len + 1
      BY <1>2
    <3>3. /\ new \in Seq(Cell) /\ Len(new) = IF i <= i + len THEN (i + len) - i + 1 ELSE 0
          /\ \A k \in 1 .. (i + len) - i + 1 : new[k] = a[i + k - 1]
      <4> HIDE DEF len, a
      <4> QED BY <1>4, <3>1, <3>2, SubSeqProperties
    <3> HIDE DEF new, len, a
    <3> QED BY <3>2, <3>3
  <2> HIDE DEF new
  <2>3. j \in Nat \ {0} /\ j \in 1 .. Len(a) + 1 /\ j + len \in Nat /\ j + len <= Len(a)
        /\ j + Len(new) - 1 = j + len
    <3> HIDE DEF a, c, len, by
    <3> QED BY <1>2, <1>3, <2>2
  <2>4. /\ w \in Stores /\ Written(a, f, j, new)
        /\ w.disk = acc.s.disk /\ w.hdr = acc.s.hdr /\ w.cache = acc.s.cache
        /\ w.last = acc.s.last
    <3> HIDE DEF j
    <3> QED BY <1>3, <2>2, <2>3, CellsWritten
  <2> HIDE DEF w
  <2>5. /\ Len(f) = Len(a)
        /\ \A p \in 1 .. Len(a) : f[p] = IF p \in j .. j + len THEN new[p - j + 1] ELSE a[p]
    <3>1. Len(f) \in Nat /\ Len(a) \in Nat
      BY <1>4, <2>4, LenProperties DEF Written
    <3> HIDE DEF f, a, j, len
    <3>2. Len(f) = Len(a)
      BY <2>3, <2>4, <3>1 DEF Written
    <3> QED BY <2>3, <2>4, <3>2 DEF Written
  <2>6. \A p \in 1 .. Len(a) : f[p] = IF p \in j .. j + len THEN c[p + by] ELSE a[p]
    <3> SUFFICES ASSUME NEW p \in j .. j + len PROVE new[p - j + 1] = c[p + by]
      BY <2>5
    <3>1. p - j + 1 \in 1 .. len + 1 /\ i + (p - j + 1) - 1 = p + by
      <4> HIDE DEF c, len, by
      <4> QED BY <1>2, <1>3
    <3>2. new[p - j + 1] = a[p + by]
      <4> HIDE DEF a, len, j, by
      <4> QED BY <2>2, <3>1
    <3> HIDE DEF a, c, len, j, by
    <3> QED BY <1>6, <3>2
  <2>7. /\ y \in Stores /\ y.cells = f /\ y.disk = acc.s.disk /\ y.hdr = acc.s.hdr
        /\ y.last = acc.s.last /\ y.cache = Indexed(acc.s.cache, id, j)
    <3>1. CASE w.cache = Null
      BY <2>4, <3>1 DEF updateBlock, Indexed
    <3>2. CASE w.cache # Null
      <4> DEFINE index == [w.cache EXCEPT ![id] = j]
      <4>1. index \in [Id -> Nat] /\ index = Indexed(acc.s.cache, id, j)
        <5>1. w.cache \in [Id -> Nat]
          BY <2>4, <3>2 DEF Stores
        <5> HIDE DEF j, id
        <5> QED BY <1>1, <2>3, <2>4, <3>2, <5>1 DEF Indexed
      <4>2. y = [w EXCEPT !.cache = index]
        BY <1>1, <3>2 DEF updateBlock
      <4> HIDE DEF index, y
      <4> QED BY <2>4, <4>1, <4>2 DEF Stores
    <3> QED BY <3>1, <3>2
  <2> HIDE DEF y
  <2>8. x = [by |-> by, s |-> y]
    BY <1>3, <2>1
  <2> HIDE DEF x, f
  <2> QED BY <2>5, <2>6, <2>7, <2>8 DEF BlockMoved, x, f
<1> QED BY <1>7, <1>8

(* At the end of the recursion all blocks have moved. *)
LEMMA AllMoved ==
  ASSUME NEW s, NEW B, Sound(s, B), NEW f, f = MovingTo(s, B, s.hdr.dataSize, f)
  PROVE  \E T : Moved(s, B, s.hdr.dataSize + 1, f[s.hdr.dataSize], T)
<1> DEFINE c == s.cells
           D == s.hdr.dataSize
           Between(n, e) == n < e /\ \A b \in B : b <= n \/ b >= e
           Done(n) == \A e \in B \cup {D + 1} : Between(n, e) => \E T : Moved(s, B, e, f[n], T)
           U == {n \in 0 .. D : Done(n)}
<1>1. /\ s \in Stores /\ c \in Seq(Cell) /\ FileSound(c, D, B) /\ Layout(c, D, B)
      /\ IndexSound(s, B) /\ D \in Nat /\ B \subseteq 1 .. D /\ D <= Len(c) /\ Len(c) \in Nat
  <2>1. s \in Stores /\ c \in Seq(Cell) /\ FileSound(c, D, B) /\ Layout(c, D, B) /\ IndexSound(s, B)
    BY DEF Sound, SoundBut, FileSound
  <2>2. D \in 0 .. Len(c) /\ B \subseteq 1 .. D /\ Len(c) \in Nat
    BY <2>1, LenProperties DEF Layout
  <2> QED BY <2>1, <2>2
<1>2. ASSUME NEW n \in 0 .. D
      PROVE  f[n] = IF n = 0 THEN [by |-> 0, s |-> s]
                    ELSE IF n \in B THEN MoveUp(f[n - 1], n) ELSE f[n - 1]
  <2> DEFINE g == MovingTo(s, B, D, f)
  <2>1. g[n] = IF n = 0 THEN [by |-> 0, s |-> s]
               ELSE IF n \in B THEN MoveUp(f[n - 1], n) ELSE f[n - 1]
    BY DEF MovingTo
  <2> HIDE DEF g
  <2>2. f = g
    BY DEF g
  <2> QED BY <2>1, <2>2
<1>3. 0 \in U
  <2> SUFFICES ASSUME NEW e \in B \cup {D + 1}, Between(0, e)
               PROVE  \E T : Moved(s, B, e, f[0], T)
    BY <1>1
  <2>1. e = 1
    <3>1. D > 0 => 1 \in B
      BY <1>1 DEF Layout
    <3>2. e \in Nat /\ e > 0
      <4> HIDE DEF D
      <4> QED BY <1>1
    <3>3. D > 0 => 1 >= e
      <4> HIDE DEF D
      <4> QED BY <1>1, <3>1
    <3>4. D = 0 => B = {} /\ e = 1
      <4> HIDE DEF D
      <4> QED BY <1>1
    <3> HIDE DEF D
    <3> QED BY <1>1, <3>2, <3>3, <3>4
  <2> DEFINE acc == [by |-> 0, s |-> s]
  <2>2. f[0] = acc
    BY <1>1, <1>2
  <2>3. {j \in B : j < 1} = {}
    <3>1. \A j \in B : ~(j < 1)
      BY <1>1
    <3> QED BY <3>1
  <2>4. FileSound(c, 0, {}) /\ Held(c, {}) = {}
    <3>1. Layout(c, 0, {})
      BY <1>1 DEF Layout
    <3>2. Live(c, {}) = {} /\ (1 .. 0) \ {} = {}
      BY DEF Live
    <3> HIDE DEF c
    <3> QED BY <1>1, <3>1, <3>2 DEF FileSound, Held
  <2>5. /\ acc = [by |-> acc.by, s |-> acc.s] /\ acc.by = 0 /\ acc.s = s
        /\ 1 - acc.by = 1 /\ 1 - 1 - acc.by = 0
    OBVIOUS
  <2>6. s.last \in {0, s.last}
    OBVIOUS
  <2> HIDE DEF acc
  <2>7. Moved(s, B, 1, acc, {})
    <3>1. FileSound(acc.s.cells, 1 - 1 - acc.by, {})
      BY <2>4, <2>5
    <3>2. Held(acc.s.cells, {}) = Held(s.cells, {j \in B : j < 1})
      BY <2>3, <2>5
    <3>3. ~(acc.by > 0) /\ acc.by \in Nat /\ acc.by < 1
      BY <2>5
    <3>4. acc.s.hdr = s.hdr /\ acc.s.disk = s.disk /\ acc.s.cells = s.cells
          /\ acc.s.cache = s.cache /\ acc.s.last = s.last /\ acc.s \in Stores
      BY <1>1, <2>5
    <3> QED BY <2>5, <2>6, <3>1, <3>2, <3>3, <3>4 DEF Moved
  <2> QED BY <2>1, <2>2, <2>7
<1>4. ASSUME NEW n \in 0 + 1 .. D, n - 1 \in U PROVE n \in U
  <2>1. n # 0 /\ n \in 0 .. D /\ n \in Nat /\ n - 1 \in Nat /\ Done(n - 1)
    <3> HIDE DEF D, Done
    <3> QED BY <1>1, <1>4
  <2> SUFFICES ASSUME NEW e \in B \cup {D + 1}, Between(n, e)
               PROVE  \E T : Moved(s, B, e, f[n], T)
    BY <2>1
  <2>2. e \in Nat /\ \A b \in B : b \in Nat
    <3> HIDE DEF D
    <3> QED BY <1>1
  <2>3. CASE n \notin B
    <3>1. f[n] = f[n - 1]
      BY <1>2, <2>1, <2>3
    <3>2. Between(n - 1, e)
      <4>1. n - 1 < e
        BY <2>1, <2>2
      <4>2. ASSUME NEW b \in B PROVE b <= n - 1 \/ b >= e
        <5>1. b <= n \/ b >= e
          OBVIOUS
        <5>2. b # n /\ b \in Nat
          BY <2>2, <2>3
        <5> QED BY <2>1, <5>1, <5>2
      <4> QED BY <4>1, <4>2
    <3> QED BY <2>1, <3>1, <3>2
  <2>4. CASE n \in B
    <3>1. Between(n - 1, n)
      BY <2>1, <2>2
    <3>2. PICK T : Moved(s, B, n, f[n - 1], T)
      BY <2>1, <2>4, <3>1
    <3>3. f[n] = MoveUp(f[n - 1], n)
      BY <1>2, <2>1, <2>4
    <3>4. e = After(c, n)
      <4>1. After(c, n) \in B \cup {D + 1}
        BY <1>1, <2>4 DEF Layout
      <4>2. After(c, n) > n /\ After(c, n) \in Nat
        <5>1. n \in Nat /\ c[n].len \in Nat
          <6> HIDE DEF c, D
          <6> QED BY <1>1, <2>4, BlockFacts
        <5> QED BY <5>1 DEF After, BlockSize
      <4>3. e \in B => After(c, n) <= e
        BY <1>1, <2>4 DEF Layout
      <4> HIDE DEF D, c
      <4>4. After(c, n) \in B => After(c, n) >= e
        <5> SUFFICES ASSUME After(c, n) \in B PROVE After(c, n) >= e
          OBVIOUS
        <5>1. After(c, n) <= n \/ After(c, n) >= e
          OBVIOUS
        <5> QED BY <2>1, <4>2, <5>1
      <4>5. \A b \in B \cup {D + 1} : b <= D + 1 /\ b \in Nat
        BY <1>1
      <4> QED BY <1>1, <2>2, <4>1, <4>2, <4>3, <4>4, <4>5
    <3>5. CASE c[n].id = IsFree
      BY <2>4, <3>2, <3>3, <3>4, <3>5, MovedOverFree
    <3>6. CASE c[n].id # IsFree
      <4>1. BlockMoved(s, n, f[n - 1], MoveUp(f[n - 1], n))
        BY <2>4, <3>2, <3>6, MoveUpMoves
      <4> QED BY <2>4, <3>2, <3>3, <3>4, <3>6, <4>1, MovedWithBlock
    <3> QED BY <3>5, <3>6
  <2> QED BY <2>3, <2>4
<1>5. D \in U
  <2>1. 0 .. D \subseteq U
    <3> HIDE DEF U, D
    <3> QED BY <1>1, <1>3, <1>4, UpTo
  <2> HIDE DEF U, D
  <2> QED BY <1>1, <2>1
<1>6. Between(D, D + 1)
  BY <1>1
<1> HIDE DEF Between
<1> QED BY <1>5, <1>6

LEMMA CompactSound ==
  ASSUME NEW s, NEW B, Sound(s, B)
  PROVE  LET t == compactRecords(s)
         IN  /\ \E C : Sound(t, C) /\ Held(t.cells, C) = Held(s.cells, B)
             /\ t.hdr.nextId = s.hdr.nextId /\ t.hdr.numLive = s.hdr.numLive
<1> DEFINE c == s.cells
           D == s.hdr.dataSize
           after == CHOOSE f : f = MovingTo(s, B, D, f)
           acc == after[D]
           a == acc.s.cells
           by == acc.by
           E == D - by
           h == [acc.s.hdr EXCEPT !.dataSize = @ - by, !.freeSize = 0]
           v == [acc.s EXCEPT !.hdr.dataSize = @ - by, !.hdr.freeSize = 0]
           w == WriteHeader(v, {"dataSize", "freeSize"})
           t == compactRecords(s)
<1>1. /\ s \in Stores /\ c \in Seq(Cell) /\ FileSound(c, D, B) /\ Layout(c, D, B)
      /\ IndexSound(s, B) /\ D \in Nat /\ B \subseteq 1 .. D /\ D <= Len(c) /\ Len(c) \in Nat
      /\ s.disk = s.hdr /\ s.hdr \in Headers
  <2>1. s \in Stores /\ c \in Seq(Cell) /\ FileSound(c, D, B) /\ Layout(c, D, B)
        /\ IndexSound(s, B) /\ s.disk = s.hdr /\ s.hdr \in Headers
    BY DEF Sound, SoundBut, FileSound, Stores
  <2>2. D \in 0 .. Len(c) /\ B \subseteq 1 .. D /\ Len(c) \in Nat
    BY <2>1, LenProperties DEF Layout
  <2> QED BY <2>1, <2>2
<1>2. AllBlocks(s) = B
  BY <1>1, BlocksAre
<1>3. t = IF s.hdr.freeSize = 0 \/ by = 0 THEN s ELSE w
  <2> DEFINE f0 == CHOOSE f : f = MovingTo(s, AllBlocks(s), D, f)
             x == f0[D]
             u == [x.s EXCEPT !.hdr.dataSize = @ - x.by, !.hdr.freeSize = 0]
  <2>1. t = IF s.hdr.freeSize = 0 \/ x.by = 0 THEN s
            ELSE WriteHeader(u, {"dataSize", "freeSize"})
    BY DEF compactRecords, MovingTo
  <2>2. f0 = after
    BY <1>2
  <2> HIDE DEF f0, after, t
  <2> QED BY <2>1, <2>2
<1>4. after = MovingTo(s, B, D, after)
  <2>1. \E f : f = MovingTo(s, B, D, f)
    BY <1>1, MovingHasSolution
  <2> QED BY <2>1
<1> HIDE DEF after
<1>5. PICK T : Moved(s, B, D + 1, acc, T)
  BY <1>4, AllMoved
<1>6. CASE s.hdr.freeSize = 0 \/ by = 0
  BY <1>3, <1>6
<1>7. CASE ~(s.hdr.freeSize = 0 \/ by = 0)
  <2> HIDE DEF acc
  <2>1. /\ by \in Nat /\ by < D + 1 /\ acc.s \in Stores /\ acc.s.hdr = s.hdr /\ acc.s.disk = s.disk
        /\ Len(a) = Len(c) /\ (\A p \in 1 .. Len(a) : p >= (D + 1) - by => a[p] = c[p])
        /\ FileSound(a, (D + 1) - 1 - by, T) /\ (\A k \in T : a[k].id # IsFree)
        /\ Held(a, T) = Held(c, {j \in B : j < D + 1})
        /\ (by > 0 => acc.s.last = 0) /\ (acc.s.cache = Null <=> s.cache = Null)
    BY <1>5 DEF Moved
  <2>2. s.cache # Null =>
          /\ \A id \in Id : \/ acc.s.cache[id] = s.cache[id]
                            \/ acc.s.cache[id] \in T /\ a[acc.s.cache[id]].id = id
          /\ \A k \in T : acc.s.cache[a[k].id] = k \/ (k \in B /\ c[k].id = a[k].id)
    BY <1>5 DEF Moved
  <2>3. E \in Nat /\ (D + 1) - 1 - by = E /\ (D + 1) - by = E + 1 /\ by > 0 /\ E <= Len(a)
    <3> HIDE DEF D, by, c, a
    <3> QED BY <1>1, <1>7, <2>1
  <2>4. {j \in B : j < D + 1} = B
    <3>1. \A j \in B : j < D + 1
      <4> HIDE DEF D
      <4> QED BY <1>1
    <3> QED BY <3>1
  <2>5. FileSound(a, E, T) /\ Held(a, T) = Held(c, B) /\ acc.s.last = 0
        /\ (\A p \in 1 .. Len(a) : p >= E + 1 => a[p] = c[p])
    <3> HIDE DEF E, D, by, a, c
    <3> QED BY <2>1, <2>3, <2>4
  <2>6. T \subseteq 1 .. E /\ Layout(a, E, T)
    BY <2>5 DEF FileSound, Layout
  <2>7. /\ h \in Headers /\ h.nextId = s.hdr.nextId /\ h.numLive = s.hdr.numLive
        /\ h.dataSize = E /\ h.freeSize = 0
    BY <1>1, <2>1, <2>3 DEF Headers
  <2> HIDE DEF h
  <2>8. /\ v \in Stores /\ v.cells = a /\ v.disk = acc.s.disk /\ v.hdr = h
        /\ v.cache = acc.s.cache /\ v.last = acc.s.last
    <3>1. v = [acc.s EXCEPT !.hdr = h]
      BY <2>1 DEF h, Stores
    <3> HIDE DEF v
    <3> QED BY <2>1, <2>7, <3>1, HeaderSet
  <2> HIDE DEF v
  <2>9. /\ w \in Stores /\ w.cells = v.cells /\ w.hdr = v.hdr /\ w.cache = v.cache /\ w.last = v.last
        /\ w.disk.nextId = v.disk.nextId /\ w.disk.numLive = v.disk.numLive
        /\ w.disk.dataSize = v.hdr.dataSize /\ w.disk.freeSize = v.hdr.freeSize
    BY <2>8, HeaderWritten
  <2> HIDE DEF w
  <2>10. w.disk = w.hdr
    <3>1. w.disk \in Headers /\ w.hdr \in Headers
      BY <2>9 DEF Stores
    <3> QED BY <1>1, <2>1, <2>7, <2>8, <2>9, <3>1, HeadersEqual
  <2>11. Unused(a, T) = {} /\ Cardinality(Unused(a, T)) <= 0
    <3>1. Unused(a, T) = {}
      BY <2>1 DEF Unused
    <3> QED BY <3>1, FS_EmptySet
  <2>12. ASSUME s.cache # Null
         PROVE  /\ acc.s.cache \in [Id -> 0 .. Len(a)]
                /\ \A p \in E + 1 .. Len(a) : a[p].id \in Id /\ a[p].data = FALSE => acc.s.cache[a[p].id] # p
    <3>1. /\ s.cache \in [Id -> 0 .. Len(c)]
          /\ \A p \in D + 1 .. Len(c) : c[p].id \in Id /\ c[p].data = FALSE => s.cache[c[p].id] # p
      BY <1>1, <2>12 DEF IndexSound
    <3>2. acc.s.cache \in [Id -> Nat]
      BY <2>1, <2>12 DEF Stores
    <3>3. \A id \in Id : acc.s.cache[id] \in 0 .. Len(a)
      <4>1. \A k \in T : k \in 0 .. Len(a)
        <5> HIDE DEF E, a
        <5> QED BY <1>1, <2>1, <2>3, <2>6
      <4> HIDE DEF a, c
      <4> QED BY <2>1, <2>2, <2>12, <3>1, <4>1
    <3>4. ASSUME NEW p \in E + 1 .. Len(a), a[p].id \in Id, a[p].data = FALSE, acc.s.cache[a[p].id] = p
          PROVE  FALSE
      <4> DEFINE id == a[p].id
      <4>1. p \in 1 .. Len(a) /\ p >= E + 1 /\ p \notin 1 .. E /\ p \in Nat
        <5> HIDE DEF E, a
        <5> QED BY <2>3
      <4>2. a[p] = c[p] /\ p \notin T
        <5> HIDE DEF E, a, c
        <5> QED BY <2>5, <2>6, <4>1
      <4>3. s.cache[id] = p
        BY <2>2, <2>12, <3>4, <4>2
      <4>4. p \notin D + 1 .. Len(c)
        <5> HIDE DEF D, c
        <5> QED BY <3>1, <3>4, <4>2, <4>3
      <4>5. p \in 1 .. D
        <5> HIDE DEF D, c, a
        <5> QED BY <1>1, <2>1, <4>1, <4>4
      <4>6. p \in Live(c, B) /\ c[p].id = id /\ id \in Id
        <5>1. id # IsFree
          BY <3>4, StoreAssumption DEF Id, IsFree
        <5>2. p \in B
          <6>1. c[p].data = FALSE /\ FALSE # TRUE
            BY <3>4, <4>2
          <6> HIDE DEF c, D
          <6> QED BY <1>1, <4>5, <6>1 DEF FileSound
        <5> HIDE DEF a, c
        <5> QED BY <3>4, <4>2, <5>1, <5>2 DEF Live
      <4> HIDE DEF id
      <4>7. <<id, DataAt(c, p)>> \in Held(a, T)
        BY <2>5, <4>6 DEF Held
      <4>8. PICK k \in Live(a, T) : <<id, DataAt(c, p)>> = <<a[k].id, DataAt(a, k)>>
        BY <4>7 DEF Held
      <4>9. k \in T /\ a[k].id = id
        BY <4>8 DEF Live
      <4>10. acc.s.cache[id] = p
        BY <3>4 DEF id
      <4>11. k \in B /\ c[k].id = id
        <5> HIDE DEF a, c
        <5> QED BY <2>2, <2>12, <4>2, <4>9, <4>10
      <4>12. k \in Live(c, B)
        <5> HIDE DEF c
        <5> QED BY <4>6, <4>11 DEF Live
      <4>13. k = p
        <5> HIDE DEF c, D
        <5> QED BY <1>1, <4>6, <4>11, <4>12 DEF FileSound
      <4> QED BY <4>2, <4>9, <4>13
    <3> QED BY <3>2, <3>3, <3>4
  <2>13. IndexSound(w, T)
    <3>1. w.last = 0 /\ w.cache = acc.s.cache /\ w.cells = a /\ w.hdr.dataSize = E
      BY <2>5, <2>7, <2>8, <2>9
    <3> HIDE DEF a, E
    <3>2. w.last \in T \cup {0} /\ (w.cache = Null => w.last = 0)
      BY <3>1
    <3> QED BY <2>1, <2>12, <3>1, <3>2 DEF IndexSound
  <2>14. Sound(w, T) /\ Held(w.cells, T) = Held(c, B)
    <3>1. w.cells = a /\ w.hdr.dataSize = E /\ w.hdr.freeSize = 0
      BY <2>7, <2>8, <2>9
    <3>2. Remembers(w, T, IsFree)
      <4> SUFFICES ASSUME s.cache # Null, NEW k \in Live(a, T)
                   PROVE  acc.s.cache[a[k].id] \in {0, k}
        BY <2>1, <2>8, <2>9 DEF Remembers
      <4> DEFINE id == a[k].id
      <4>1. k \in T /\ id \in Id /\ \A j \in T : a[j].id = id => j = k
        BY <2>1, <2>5 DEF Live, FileSound
      <4>2. CASE acc.s.cache[id] = k
        BY <4>2
      <4>3. CASE acc.s.cache[id] # k
        <5> HIDE DEF id
        <5>1. acc.s.cache[id] = s.cache[id]
          <6> HIDE DEF a
          <6> QED BY <2>2, <4>1, <4>3
        <5>2. k \in B /\ c[k].id = id
          BY <2>2, <4>1, <4>3 DEF id
        <5>3. k \in Live(c, B) /\ id # IsFree
          <6>1. id # IsFree
            BY <4>1, StoreAssumption DEF Id, IsFree
          <6> QED BY <5>2, <6>1 DEF Live
        <5>4. s.cache[id] \in {0, k}
          BY <5>2, <5>3 DEF Sound, SoundBut, Remembers
        <5> QED BY <5>1, <5>4 DEF id
      <4> QED BY <4>2, <4>3
    <3> HIDE DEF a, E, c
    <3> QED BY <2>5, <2>9, <2>10, <2>11, <2>13, <3>1, <3>2 DEF Sound, SoundBut
  <2>15. w.hdr.nextId = s.hdr.nextId /\ w.hdr.numLive = s.hdr.numLive
    BY <2>7, <2>8, <2>9
  <2>16. t = w
    BY <1>3, <1>7
  <2> HIDE DEF t
  <2> QED BY <2>14, <2>15, <2>16 DEF t
<1> QED BY <1>6, <1>7

-----------------------------------------------------------------------------
(* Operations.  s is sound after one, and holds the records H. *)
Outcome(s, H, nextId, numLive) ==
  \E B : /\ Sound(s, B) /\ Held(s.cells, B) = H
         /\ s.hdr.nextId = nextId /\ s.hdr.numLive = numLive

NotIn(H, id) == \A h \in H : h[1] # id

LEMMA NoneHas ==
  ASSUME NEW c, NEW B, NEW id, NotIn(Held(c, B), id)
  PROVE  \A j \in Live(c, B) : c[j].id # id
<1> SUFFICES ASSUME NEW j \in Live(c, B), c[j].id = id PROVE FALSE
  OBVIOUS
<1>1. <<c[j].id, DataAt(c, j)>> \in Held(c, B)
  BY DEF Held
<1>2. <<c[j].id, DataAt(c, j)>>[1] = c[j].id
  OBVIOUS
<1> QED BY <1>1, <1>2 DEF NotIn

(* addBlock for an identifier without a block. *)
LEMMA AddSound ==
  ASSUME NEW s, NEW H, NEW nextId, NEW numLive, Outcome(s, H, nextId, numLive),
         NEW id \in Id, NEW d \in Data, NotIn(H, id)
  PROVE  Outcome(addBlock(s, id, d), With(H, id, d), nextId, numLive)
<1>1. PICK B : /\ Sound(s, B) /\ Held(s.cells, B) = H
               /\ s.hdr.nextId = nextId /\ s.hdr.numLive = numLive
  BY DEF Outcome
<1>2. \A j \in Live(s.cells, B) : s.cells[j].id # id
  BY <1>1, NoneHas
<1> DEFINE fit == {i \in AllBlocks(s) : s.cells[i].id = IsFree /\ s.cells[i].len >= Len(d)}
           at == IF s.hdr.freeSize >= BlockSize(Len(d)) THEN getFreeBlock(s, Len(d)) ELSE 0
           room == IF Available(s) < BlockSize(Len(d)) THEN compactRecords(s) ELSE s
<1>3. AllBlocks(s) = B /\ B \subseteq Nat \ {0}
  <2>1. s.cells \in Seq(Cell) /\ Layout(s.cells, s.hdr.dataSize, B)
    BY <1>1 DEF Sound, SoundBut, FileSound
  <2>2. AllBlocks(s) = B
    BY <2>1, BlocksAre
  <2>3. s.hdr.dataSize \in Nat
    BY <1>1 DEF Sound, SoundBut, Stores, Headers
  <2> QED BY <2>1, <2>2, <2>3 DEF Layout
<1>4. CASE at > 0
  <2>1. at \in fit
    <3>1. at = IF fit = {} THEN 0 ELSE Min(fit)
      BY <1>4 DEF getFreeBlock
    <3>2. fit # {}
      BY <1>4, <3>1
    <3>3. fit \subseteq Nat
      BY <1>3
    <3> HIDE DEF fit, at
    <3> QED BY <3>1, <3>2, <3>3, MinOfSet
  <2> HIDE DEF at
  <2>2. /\ at \in B /\ Len(d) <= s.cells[at].len /\ s.cells[at].id \in {IsFree, id}
        /\ \A j \in Live(s.cells, B \ {at}) : s.cells[j].id # id
    <3>1. at \in B /\ s.cells[at].id = IsFree /\ s.cells[at].len >= Len(d)
      BY <1>3, <2>1
    <3>2. s.cells[at].len \in Nat /\ Len(d) \in Nat
      <4>1. s.cells \in Seq(Cell) /\ Layout(s.cells, s.hdr.dataSize, B)
        BY <1>1 DEF Sound, SoundBut, FileSound
      <4>2. Len(d) \in Nat
        BY DataIs
      <4> QED BY <3>1, <4>1, <4>2, BlockFacts
    <3>3. Live(s.cells, B \ {at}) \subseteq Live(s.cells, B)
      BY DEF Live
    <3> QED BY <1>2, <3>1, <3>2, <3>3
  <2> DEFINE t == splitBlock(s, at, id, s.cells[at].len, d)
  <2>3. addBlock(s, id, d) = t
    BY <1>4 DEF addBlock, at
  <2>4. /\ \E C : Sound(t, C) /\ Held(t.cells, C) = With(Held(s.cells, B), id, d)
        /\ t.hdr.nextId = s.hdr.nextId /\ t.hdr.numLive = s.hdr.numLive
    BY <1>1, <2>2, SplitSound
  <2> HIDE DEF t
  <2>5. Outcome(t, With(H, id, d), nextId, numLive)
    BY <1>1, <2>4 DEF Outcome
  <2> QED BY <2>3, <2>5
<1>5. CASE ~(at > 0)
  <2>1. addBlock(s, id, d) = AppendBlock(s, id, d)
    BY <1>5 DEF addBlock
  <2>2. AppendBlock(s, id, d) = AtEnd(room, id, d)
    BY DEF AppendBlock, AtEnd
  <2>3. PICK C : /\ Sound(room, C) /\ Held(room.cells, C) = H
                 /\ room.hdr.nextId = nextId /\ room.hdr.numLive = numLive
    <3>1. CASE Available(s) < BlockSize(Len(d))
      <4> DEFINE t == compactRecords(s)
      <4>1. /\ \E C : Sound(t, C) /\ Held(t.cells, C) = Held(s.cells, B)
            /\ t.hdr.nextId = s.hdr.nextId /\ t.hdr.numLive = s.hdr.numLive
        BY <1>1, CompactSound
      <4>2. room = t
        BY <3>1
      <4> HIDE DEF t, room
      <4> QED BY <1>1, <4>1, <4>2
    <3>2. CASE ~(Available(s) < BlockSize(Len(d)))
      <4>1. room = s
        BY <3>2
      <4> HIDE DEF room
      <4> QED BY <1>1, <4>1
    <3> QED BY <3>1, <3>2
  <2> HIDE DEF room
  <2>4. \A j \in Live(room.cells, C) : room.cells[j].id # id
    BY <2>3, NoneHas
  <2> DEFINE t == AtEnd(room, id, d)
  <2>5. /\ \E A : Sound(t, A) /\ Held(t.cells, A) = With(Held(room.cells, C), id, d)
        /\ t.hdr.nextId = room.hdr.nextId /\ t.hdr.numLive = room.hdr.numLive
    BY <2>3, <2>4, AtEndSound
  <2> HIDE DEF t
  <2>6. Outcome(t, With(H, id, d), nextId, numLive)
    BY <2>3, <2>5 DEF Outcome
  <2> QED BY <2>1, <2>2, <2>6 DEF t
<1> QED BY <1>4, <1>5

(* The count of records and the next identifier are written, or the count. *)
LEMMA CountSound ==
  ASSUME NEW s, NEW B, Sound(s, B), NEW h \in Headers, NEW fields,
         h.dataSize = s.hdr.dataSize, h.freeSize = s.hdr.freeSize,
         "numLive" \in fields, "nextId" \in fields \/ h.nextId = s.hdr.nextId
  PROVE  LET t == WriteHeader([s EXCEPT !.hdr = h], fields)
         IN  Sound(t, B) /\ t.cells = s.cells /\ t.hdr = h
<1> DEFINE v == [s EXCEPT !.hdr = h]
           t == WriteHeader(v, fields)
<1>1. s \in Stores /\ s.disk = s.hdr
  BY DEF Sound, SoundBut
<1>2. /\ v \in Stores /\ v.cells = s.cells /\ v.disk = s.disk /\ v.hdr = h
      /\ v.cache = s.cache /\ v.last = s.last
  BY <1>1, HeaderSet
<1> HIDE DEF v
<1>3. /\ t \in Stores
      /\ t.cells = v.cells /\ t.hdr = v.hdr /\ t.cache = v.cache /\ t.last = v.last
      /\ t.disk.nextId = (IF "nextId" \in fields THEN v.hdr.nextId ELSE v.disk.nextId)
      /\ t.disk.numLive = (IF "numLive" \in fields THEN v.hdr.numLive ELSE v.disk.numLive)
      /\ t.disk.dataSize = (IF "dataSize" \in fields THEN v.hdr.dataSize ELSE v.disk.dataSize)
      /\ t.disk.freeSize = (IF "freeSize" \in fields THEN v.hdr.freeSize ELSE v.disk.freeSize)
  BY <1>2, HeaderWritten
<1> HIDE DEF t
<1>4. t.disk = t.hdr
  <2>1. t.disk \in Headers /\ t.hdr \in Headers
    BY <1>3 DEF Stores
  <2> QED BY <1>1, <1>2, <1>3, <2>1, HeadersEqual
<1>5. IndexSound(t, B)
  <2>1. IndexSound(s, B)
    BY DEF Sound, SoundBut
  <2> QED BY <1>2, <1>3, <2>1 DEF IndexSound
<1>6. Sound(t, B)
  <2>1. Remembers(t, B, IsFree)
    BY <1>2, <1>3 DEF Sound, SoundBut, Remembers
  <2> QED BY <1>2, <1>3, <1>4, <1>5, <2>1 DEF Sound, SoundBut
<1> QED BY <1>2, <1>3, <1>6 DEF t, v

(* The index forgets a record. *)
LEMMA ForgetSound ==
  ASSUME NEW s, NEW B, Sound(s, B), NEW id \in Id
  PROVE  LET t == deleteRecordIndex(s, id)
         IN  Sound(t, B) /\ t.cells = s.cells /\ t.hdr = s.hdr
<1> DEFINE index == [s.cache EXCEPT ![id] = 0]
           t == [s EXCEPT !.cache = index]
<1>1. CASE s.cache = Null
  BY <1>1 DEF deleteRecordIndex
<1>2. CASE s.cache # Null
  <2>1. s \in Stores /\ IndexSound(s, B) /\ s.cells \in Seq(Cell) /\ s.hdr.dataSize \in Nat
    BY DEF Sound, SoundBut, FileSound, Stores, Headers
  <2>2. Len(s.cells) \in Nat
    BY <2>1, LenProperties
  <2>3. /\ s.cache \in [Id -> 0 .. Len(s.cells)]
        /\ \A p \in s.hdr.dataSize + 1 .. Len(s.cells) :
             s.cells[p].id \in Id /\ s.cells[p].data = FALSE => s.cache[s.cells[p].id] # p
    BY <1>2, <2>1 DEF IndexSound
  <2>4. index \in [Id -> 0 .. Len(s.cells)] /\ index \in [Id -> Nat] /\ index # Null
    <3>1. index \in [Id -> 0 .. Len(s.cells)]
      BY <2>2, <2>3
    <3>2. index \in [Id -> Nat]
      BY <3>1
    <3> QED BY <3>1, <3>2, StoreAssumption
  <2>5. \A p \in s.hdr.dataSize + 1 .. Len(s.cells) :
          s.cells[p].id \in Id /\ s.cells[p].data = FALSE => index[s.cells[p].id] # p
    <3>1. \A p \in s.hdr.dataSize + 1 .. Len(s.cells) : p # 0
      BY <2>1
    <3> QED BY <2>3, <3>1
  <2> HIDE DEF index
  <2>6. /\ t \in Stores /\ t.cells = s.cells /\ t.hdr = s.hdr /\ t.disk = s.disk
        /\ t.cache = index /\ t.last = s.last
    BY <2>1, <2>4 DEF Stores
  <2>7. deleteRecordIndex(s, id) = t
    BY <1>2 DEF deleteRecordIndex, index
  <2> HIDE DEF t
  <2>8. IndexSound(t, B)
    BY <2>1, <2>4, <2>5, <2>6 DEF IndexSound
  <2>9. Sound(t, B)
    <3>1. Remembers(s, B, IsFree) /\ \A i \in Live(s.cells, B) : s.cells[i].id \in Id
      BY DEF Sound, SoundBut, FileSound
    <3>2. \A m \in Id : index[m] = s.cache[m] \/ index[m] = 0
      BY <2>3 DEF index
    <3>3. Remembers(t, B, IsFree)
      BY <1>2, <2>6, <3>1, <3>2 DEF Remembers
    <3> QED BY <2>6, <2>8, <3>3 DEF Sound, SoundBut
  <2> QED BY <2>6, <2>7, <2>9
<1> QED BY <1>1, <1>2

-----------------------------------------------------------------------------
(* The inductive invariant.  As long as no data was taken for a block, the *)
(* file is sound and its records have identifiers below the next one.  In  *)
(* memory is what is in the file, or nothing.                              *)
Content == Held(cells, AllBlocks(File))

Inside ==
  /\ Sound(File, AllBlocks(File))
  /\ disk.nextId \in 1 .. MaxAdds + 1
  /\ \A h \in Content : h[1] < disk.nextId
  /\ open => dbHeader = disk

Outer ==
  /\ exists \in BOOLEAN /\ open \in BOOLEAN /\ leaked \in 0 .. Handles /\ misled \in BOOLEAN
  /\ open => exists /\ leaked < Handles
  /\ ~open => cache = Null /\ lastSeen = 0 /\ dbHeader = FreshHeader
  /\ ~exists => cells = <<>> /\ disk = FreshHeader /\ misled = FALSE

IInv == Outer /\ (~misled => Inside)

FileOf(c, d, index, last) ==
  [cells |-> c, disk |-> d, hdr |-> d, cache |-> index, last |-> last, images |-> <<>>]

LEMMA FileIs ==
  /\ File = FileOf(cells, disk, cache, lastSeen)
  /\ dbHeader = disk => Store = File
BY DEF File, Store, FileOf

(* What a sound store leaves in the file, with its index or without. *)
LEMMA FileOfSound ==
  ASSUME NEW s, NEW B, Sound(s, B), NEW index, NEW last,
         (index = s.cache /\ last = s.last) \/ (index = Null /\ last = 0)
  PROVE  LET f == FileOf(s.cells, s.disk, index, last)
         IN  Sound(f, B) /\ AllBlocks(f) = B
<1> DEFINE f == FileOf(s.cells, s.disk, index, last)
<1>1. /\ f.cells = s.cells /\ f.disk = s.disk /\ f.hdr = s.disk
      /\ f.cache = index /\ f.last = last
  BY DEF FileOf
<1>2. s \in Stores /\ s.disk = s.hdr /\ FileSound(s.cells, s.hdr.dataSize, B) /\ IndexSound(s, B)
  BY DEF Sound, SoundBut
<1>3. f \in Stores
  <2>1. <<>> \in Seq([cells : Seq(Cell), disk : Headers])
    OBVIOUS
  <2>2. s.cells \in Seq(Cell) /\ s.disk \in Headers /\ index \in {Null} \cup [Id -> Nat] /\ last \in Nat
    BY <1>2 DEF Stores
  <2> QED BY <2>1, <2>2 DEF FileOf, Stores
<1>4. IndexSound(f, B)
  <2> HIDE DEF f
  <2> QED BY <1>1, <1>2 DEF IndexSound
<1>5. Sound(f, B)
  <2> HIDE DEF f
  <2>1. Cardinality(Unused(s.cells, B)) <= s.hdr.freeSize
    BY DEF Sound, SoundBut
  <2>2. Remembers(f, B, IsFree)
    BY <1>1 DEF Sound, SoundBut, Remembers
  <2> QED BY <1>1, <1>2, <1>3, <1>4, <2>1, <2>2 DEF Sound, SoundBut
<1>6. AllBlocks(f) = B
  <2> HIDE DEF f
  <2>1. f.cells \in Seq(Cell) /\ Layout(f.cells, f.hdr.dataSize, B)
    BY <1>5 DEF Sound, SoundBut, FileSound
  <2> QED BY <2>1, BlocksAre
<1> QED BY <1>5, <1>6

(* The records have different identifiers. *)
OnePerId(H) == \A g, h \in H : g[1] = h[1] => g = h

LEMMA HeldIs ==
  ASSUME NEW c, NEW D, NEW B, FileSound(c, D, B)
  PROVE  OnePerId(Held(c, B)) /\ \A h \in Held(c, B) : h[1] \in Id
<1> DEFINE L == Live(c, B)
<1>1. \A i, j \in L : c[i].id = c[j].id => i = j
  BY DEF FileSound
<1>2. \A i : <<c[i].id, DataAt(c, i)>>[1] = c[i].id
  OBVIOUS
<1>3. \A h \in Held(c, B) : \E i \in L : h = <<c[i].id, DataAt(c, i)>> /\ h[1] = c[i].id
  BY <1>2 DEF Held
<1>4. \A i \in L : c[i].id \in Id
  BY DEF FileSound
<1> HIDE DEF L
<1> QED BY <1>1, <1>3, <1>4 DEF OnePerId

-----------------------------------------------------------------------------
(* What the operations make of an open store. *)
LEMMA OpenStore ==
  ASSUME Inside, open
  PROVE  LET B == AllBlocks(File)
         IN  /\ Sound(Store, B) /\ Held(cells, B) = Content
             /\ Store.cells = cells /\ Store.hdr = disk /\ dbHeader = disk
             /\ disk \in Headers
<1> DEFINE B == AllBlocks(File)
<1>1. dbHeader = disk /\ Store = File /\ Sound(File, B)
  BY FileIs DEF Inside
<1>2. Store.cells = cells /\ Store.hdr = disk /\ Held(cells, B) = Content
  BY <1>1 DEF Store, Content
<1>3. disk \in Headers
  <2>1. File.disk = disk
    BY DEF File, Store
  <2> QED BY <1>1, <2>1 DEF Sound, SoundBut, Stores
<1> QED BY <1>1, <1>2, <1>3

LEMMA ContentIs ==
  ASSUME Inside
  PROVE  OnePerId(Content) /\ \A h \in Content : h[1] \in Id
<1>1. FileSound(cells, disk.dataSize, AllBlocks(File))
  <2>1. File.cells = cells /\ File.hdr = disk
    BY DEF File, Store
  <2> QED BY <2>1 DEF Inside, Sound, SoundBut
<1> QED BY <1>1, HeldIs DEF Content

(* A lookup finds the record, or data that looks like one there is not. *)
LEMMA FoundIs ==
  ASSUME Inside, open, NEW id \in Id
  PROVE  LET r == getRecordHeader(Store, id)
             B == AllBlocks(File)
         IN  /\ Sound(r.s, B) /\ r.s.cells = cells /\ r.s.hdr = disk
             /\ \/ IsAt(cells, B, id, r.at)
                \/ IsStray(cells, B, id, r.at) /\ Misled(id)
<1> DEFINE r == getRecordHeader(Store, id)
           B == AllBlocks(File)
<1>1. Sound(Store, B) /\ Store.cells = cells /\ Store.hdr = disk
  BY OpenStore
<1>2. /\ IsAt(Store.cells, B, id, r.at) \/ IsStray(Store.cells, B, id, r.at)
      /\ Looked(Store, r.s, B, IsFree)
  <2> HIDE DEF B
  <2> QED BY <1>1, LookupSound
<1>3. Find(id) = r.at
  BY DEF Find
<1> HIDE DEF r, B
<1>4. Sound(r.s, B) /\ r.s.cells = cells /\ r.s.hdr = disk
  BY <1>1, <1>2 DEF Looked, Sound
<1>5. ASSUME IsStray(cells, B, id, r.at) PROVE Misled(id)
  <2>1. r.at # 0 /\ cells[r.at].data = TRUE
    BY <1>5 DEF IsStray
  <2> QED BY <1>3, <2>1 DEF Misled
<1>6. IsAt(cells, B, id, r.at) \/ IsStray(cells, B, id, r.at)
  BY <1>1, <1>2
<1> QED BY <1>4, <1>5, <1>6 DEF r, B

LEMMA FoundRecord ==
  ASSUME Inside, open, NEW id \in Id, Find(id) # 0, ~Misled(id)
  PROVE  LET r == getRecordHeader(Store, id)
             B == AllBlocks(File)
         IN  /\ Sound(r.s, B) /\ r.s.cells = cells /\ r.s.hdr = disk
             /\ r.at \in Live(r.s.cells, B) /\ r.s.cells[r.at].id = id
             /\ ~NotIn(Content, id)
<1> DEFINE r == getRecordHeader(Store, id)
           B == AllBlocks(File)
<1>1. /\ Sound(r.s, B) /\ r.s.cells = cells /\ r.s.hdr = disk /\ IsAt(cells, B, id, r.at)
  BY FoundIs
<1>2. Held(cells, B) = Content
  BY DEF Content
<1>3. r.at # 0
  BY DEF Find
<1> HIDE DEF r, B
<1>4. r.at \in B /\ cells[r.at].id = id
  BY <1>1, <1>3 DEF IsAt
<1>5. id # IsFree
  BY StoreAssumption DEF Id, IsFree
<1>6. r.at \in Live(cells, B)
  BY <1>4, <1>5 DEF Live
<1>7. ~NotIn(Content, id)
  <2>1. <<id, DataAt(cells, r.at)>> \in Held(cells, B)
    BY <1>4, <1>6 DEF Held
  <2>2. <<id, DataAt(cells, r.at)>>[1] = id
    OBVIOUS
  <2> QED BY <1>2, <2>1, <2>2 DEF NotIn
<1> QED BY <1>1, <1>4, <1>6, <1>7 DEF r, B

LEMMA LookupOutcome ==
  ASSUME Inside, open, NEW id \in Id
  PROVE  Outcome(getRecordHeader(Store, id).s, Content, disk.nextId, disk.numLive)
<1> DEFINE r == getRecordHeader(Store, id)
           B == AllBlocks(File)
<1>1. Sound(r.s, B) /\ r.s.cells = cells /\ r.s.hdr = disk
  BY FoundIs
<1>2. Held(cells, B) = Content
  BY DEF Content
<1> HIDE DEF r, B
<1>3. Outcome(r.s, Content, disk.nextId, disk.numLive)
  BY <1>1, <1>2 DEF Outcome
<1> QED BY <1>3 DEF r

LEMMA CompactOutcome ==
  ASSUME Inside, open
  PROVE  Outcome(compactRecords(Store), Content, disk.nextId, disk.numLive)
<1> DEFINE t == compactRecords(Store)
           B == AllBlocks(File)
<1>1. /\ Sound(Store, B) /\ Held(cells, B) = Content /\ Store.cells = cells /\ Store.hdr = disk
  BY OpenStore
<1>2. /\ \E C : Sound(t, C) /\ Held(t.cells, C) = Held(Store.cells, B)
      /\ t.hdr.nextId = Store.hdr.nextId /\ t.hdr.numLive = Store.hdr.numLive
  <2> HIDE DEF B
  <2> QED BY <1>1, CompactSound
<1> HIDE DEF t, B
<1>3. Outcome(t, Content, disk.nextId, disk.numLive)
  BY <1>1, <1>2 DEF Outcome
<1> QED BY <1>3 DEF t

LEMMA FreedSound ==
  ASSUME Inside, open, NEW id \in Id, Find(id) # 0, ~Misled(id)
  PROVE  LET t == Freed(id)
             B == AllBlocks(File)
         IN  /\ Sound(t, B) /\ Held(t.cells, B) = Without(Content, id)
             /\ t.hdr.nextId = disk.nextId /\ t.hdr.numLive = disk.numLive
<1> DEFINE r == getRecordHeader(Store, id)
           t == freeBlock(r.s, r.at, r.s.cells[r.at].len)
           B == AllBlocks(File)
<1>1. /\ Sound(r.s, B) /\ r.s.cells = cells /\ r.s.hdr = disk
      /\ r.at \in Live(r.s.cells, B) /\ r.s.cells[r.at].id = id
  BY FoundRecord
<1>2. Held(cells, B) = Content
  BY DEF Content
<1> HIDE DEF r, B
<1>3. /\ Sound(t, B) /\ Held(t.cells, B) = Without(Held(r.s.cells, B), r.s.cells[r.at].id)
      /\ t.hdr.nextId = r.s.hdr.nextId /\ t.hdr.numLive = r.s.hdr.numLive
  BY <1>1, FreeSound
<1>4. Freed(id) = t
  BY DEF Freed, r
<1> HIDE DEF t
<1> QED BY <1>1, <1>2, <1>3, <1>4 DEF B

LEMMA DeletedOutcome ==
  ASSUME Inside, open, NEW id \in Id, Find(id) # 0, ~Misled(id)
  PROVE  Outcome(Deleted(id), Without(Content, id), disk.nextId, disk.numLive - 1)
<1> DEFINE t == Freed(id)
           B == AllBlocks(File)
           f == deleteRecordIndex(t, id)
           h == [f.hdr EXCEPT !.numLive = @ - 1]
           w == WriteHeader([f EXCEPT !.hdr = h], {"numLive"})
<1>1. /\ Sound(t, B) /\ Held(t.cells, B) = Without(Content, id)
      /\ t.hdr.nextId = disk.nextId /\ t.hdr.numLive = disk.numLive
  BY FreedSound
<1>2. Deleted(id) = w
  BY DEF Deleted, Freed
<1> HIDE DEF t, B
<1>3. Sound(f, B) /\ f.cells = t.cells /\ f.hdr = t.hdr
  BY <1>1, ForgetSound
<1> HIDE DEF f
<1>4. /\ h \in Headers /\ h.nextId = f.hdr.nextId /\ h.numLive = disk.numLive - 1
      /\ h.dataSize = f.hdr.dataSize /\ h.freeSize = f.hdr.freeSize
  <2>1. f.hdr \in Headers
    BY <1>3 DEF Sound, SoundBut, Stores
  <2> QED BY <1>1, <1>3, <2>1 DEF Headers
<1> HIDE DEF h
<1>5. Sound(w, B) /\ w.cells = f.cells /\ w.hdr = h
  <2>1. "numLive" \in {"numLive"}
    OBVIOUS
  <2> DEFINE fields == {"numLive"}
  <2> HIDE DEF fields
  <2> QED BY <1>3, <1>4, <2>1, CountSound DEF fields
<1> HIDE DEF w
<1>6. Outcome(w, Without(Content, id), disk.nextId, disk.numLive - 1)
  BY <1>1, <1>3, <1>4, <1>5 DEF Outcome
<1> QED BY <1>2, <1>6

LEMMA SetInPlaceOutcome ==
  ASSUME Inside, open, NEW id \in Id, Find(id) # 0, ~Misled(id), NEW d \in Data, Fits(id, d)
  PROVE  Outcome(SetInPlace(id, d), With(Content, id, d), disk.nextId, disk.numLive)
<1> DEFINE r == getRecordHeader(Store, id)
           s == r.s
           i == r.at
           B == AllBlocks(File)
           t == splitBlock(s, i, id, s.cells[i].len, d)
<1>1. /\ Sound(s, B) /\ s.cells = cells /\ s.hdr = disk
      /\ i \in Live(s.cells, B) /\ s.cells[i].id = id
  BY FoundRecord
<1>2. Held(cells, B) = Content /\ Len(d) <= s.cells[i].len
  BY DEF Content, Fits
<1>3. SetInPlace(id, d) = t
  BY DEF SetInPlace
<1> HIDE DEF r, s, i, B
<1>4. \A j \in Live(s.cells, B \ {i}) : s.cells[j].id # id
  <2>1. \A j \in Live(s.cells, B \ {i}) : j \in Live(s.cells, B) /\ j # i
    BY DEF Live
  <2> QED BY <1>1, <2>1 DEF Sound, SoundBut, FileSound
<1>5. i \in B /\ s.cells[i].id \in {IsFree, id}
  BY <1>1 DEF Live
<1>6. /\ \E C : Sound(t, C) /\ Held(t.cells, C) = With(Held(s.cells, B), id, d)
      /\ t.hdr.nextId = s.hdr.nextId /\ t.hdr.numLive = s.hdr.numLive
  <2>1. Sound(s, B) /\ i \in B /\ Len(d) <= s.cells[i].len /\ s.cells[i].id \in {IsFree, id}
    BY <1>1, <1>2, <1>5
  <2> QED BY <1>4, <2>1, SplitSound
<1> HIDE DEF t
<1>7. Outcome(t, With(Content, id, d), disk.nextId, disk.numLive)
  BY <1>1, <1>2, <1>6 DEF Outcome
<1> QED BY <1>3, <1>7

LEMMA SetElsewhereOutcome ==
  ASSUME Inside, open, NEW id \in Id, Find(id) # 0, ~Misled(id), NEW d \in Data
  PROVE  Outcome(SetElsewhere(id, d), With(Content, id, d), disk.nextId, disk.numLive)
<1>1. Outcome(Freed(id), Without(Content, id), disk.nextId, disk.numLive)
  BY FreedSound DEF Outcome
<1>2. NotIn(Without(Content, id), id)
  BY DEF NotIn, Without
<1>3. With(Without(Content, id), id, d) = With(Content, id, d)
  BY DEF With, Without
<1>4. Outcome(addBlock(Freed(id), id, d), With(Without(Content, id), id, d),
              disk.nextId, disk.numLive)
  BY <1>1, <1>2, AddSound
<1> QED BY <1>3, <1>4 DEF SetElsewhere

LEMMA AddedOutcome ==
  ASSUME Inside, open, NEW d \in Data, dbHeader.nextId <= MaxAdds
  PROVE  /\ Outcome(Added(d), With(Content, disk.nextId, d), disk.nextId + 1, disk.numLive + 1)
         /\ disk.nextId \in Id /\ NotIn(Content, disk.nextId)
<1> DEFINE B == AllBlocks(File)
           id == dbHeader.nextId
           t == addBlock(Store, id, d)
           h == [t.hdr EXCEPT !.nextId = @ + 1, !.numLive = @ + 1]
           v == [t EXCEPT !.hdr.nextId = @ + 1, !.hdr.numLive = @ + 1]
           fields == {"nextId", "numLive"}
           w == WriteHeader(v, fields)
<1>1. /\ Sound(Store, B) /\ Held(cells, B) = Content /\ Store.cells = cells /\ Store.hdr = disk
      /\ dbHeader = disk
  BY OpenStore
<1>2. id = disk.nextId /\ id \in Id /\ NotIn(Content, id)
  <2>1. disk.nextId \in 1 .. MaxAdds + 1 /\ \A k \in Content : k[1] < disk.nextId
    BY DEF Inside
  <2>2. disk.nextId \in Id
    BY <1>1, <2>1, StoreAssumption DEF Id
  <2>3. NotIn(Content, disk.nextId)
    <3>1. \A k \in Content : k[1] \in Id
      BY ContentIs
    <3>2. \A m \in Id : m < disk.nextId => m # disk.nextId
      BY <2>2 DEF Id
    <3> QED BY <2>1, <3>1, <3>2 DEF NotIn
  <2> QED BY <1>1, <2>2, <2>3
<1>3. Outcome(Store, Content, disk.nextId, disk.numLive)
  BY <1>1 DEF Outcome
<1>4. Outcome(t, With(Content, id, d), disk.nextId, disk.numLive)
  <2> HIDE DEF id
  <2> QED BY <1>2, <1>3, AddSound
<1>5. Added(d) = w
  BY DEF Added
<1> HIDE DEF t, id
<1>6. PICK C : /\ Sound(t, C) /\ Held(t.cells, C) = With(Content, id, d)
               /\ t.hdr.nextId = disk.nextId /\ t.hdr.numLive = disk.numLive
  BY <1>4 DEF Outcome
<1>7. t \in Stores /\ t.hdr \in Headers
  BY <1>6 DEF Sound, SoundBut, Stores
<1>8. /\ h \in Headers /\ h.nextId = disk.nextId + 1 /\ h.numLive = disk.numLive + 1
      /\ h.dataSize = t.hdr.dataSize /\ h.freeSize = t.hdr.freeSize
  <2> DEFINE g == t.hdr
  <2>1. g \in Headers /\ g.nextId = disk.nextId /\ g.numLive = disk.numLive
    BY <1>6, <1>7
  <2> HIDE DEF g
  <2>2. g.nextId + 1 \in Nat /\ g.numLive + 1 \in Int
    BY <2>1 DEF Headers
  <2>3. /\ h \in Headers /\ h.nextId = g.nextId + 1 /\ h.numLive = g.numLive + 1
        /\ h.dataSize = g.dataSize /\ h.freeSize = g.freeSize
    <3>1. h = [g EXCEPT !.nextId = @ + 1, !.numLive = @ + 1]
      BY DEF g
    <3> HIDE DEF h
    <3> QED BY <2>1, <2>2, <3>1 DEF Headers
  <2> QED BY <2>1, <2>3 DEF g
<1>9. v = [t EXCEPT !.hdr = h]
  BY <1>7 DEF Stores
<1> HIDE DEF h
<1>10. Sound(w, C) /\ w.cells = t.cells /\ w.hdr = h
  <2>1. "numLive" \in fields /\ "nextId" \in fields
    OBVIOUS
  <2> HIDE DEF v, fields
  <2> QED BY <1>6, <1>8, <1>9, <2>1, CountSound
<1> HIDE DEF w
<1>11. Outcome(w, With(Content, id, d), disk.nextId + 1, disk.numLive + 1)
  BY <1>6, <1>8, <1>10 DEF Outcome
<1> QED BY <1>2, <1>5, <1>11

-----------------------------------------------------------------------------
(* Every step keeps the invariant. *)
LEMMA FileAfter ==
  ASSUME NEW s, NEW B, Sound(s, B), cells' = s.cells, disk' = s.disk,
         (cache' = s.cache /\ lastSeen' = s.last) \/ (cache' = Null /\ lastSeen' = 0)
  PROVE  /\ Sound(File, AllBlocks(File))' /\ AllBlocks(File)' = B
         /\ Content' = Held(s.cells, B) /\ disk' = s.hdr
<1> DEFINE f == FileOf(s.cells, s.disk, cache', lastSeen')
<1>1. File' = f
  BY DEF File, Store, FileOf
<1>2. Sound(f, B) /\ AllBlocks(f) = B
  BY FileOfSound
<1>3. s.disk = s.hdr
  BY DEF Sound, SoundBut
<1> HIDE DEF f
<1>4. AllBlocks(File') = B
  BY <1>1, <1>2
<1>5. Sound(File', AllBlocks(File'))
  BY <1>1, <1>2
<1> QED BY <1>3, <1>4, <1>5 DEF Content

LEMMA StoredKeeps ==
  ASSUME Inside, open, NEW s, NEW H, NEW nextId \in 1 .. MaxAdds + 1, NEW numLive,
         Outcome(s, H, nextId, numLive), Stored(s), \A h \in H : h[1] < nextId
  PROVE  Inside' /\ Content' = H /\ disk'.nextId = nextId /\ disk'.numLive = numLive
<1>1. PICK B : Sound(s, B) /\ Held(s.cells, B) = H /\ s.hdr.nextId = nextId /\ s.hdr.numLive = numLive
  BY DEF Outcome
<1>2. /\ Sound(File, AllBlocks(File))' /\ Content' = H /\ disk' = s.hdr
  BY <1>1, FileAfter DEF Stored
<1>3. dbHeader' = disk'
  BY <1>2 DEF Stored
<1> QED BY <1>1, <1>2, <1>3 DEF Inside

LEMMA AddKeeps ==
  ASSUME Inside, NEW d \in Data, addRecord(d)
  PROVE  /\ Inside' /\ Content' = With(Content, disk.nextId, d)
         /\ disk'.nextId = disk.nextId + 1 /\ disk'.numLive = disk.numLive + 1
<1> DEFINE id == disk.nextId
<1>1. open /\ dbHeader.nextId <= MaxAdds /\ Stored(Added(d))
  BY DEF addRecord
<1>2. /\ Outcome(Added(d), With(Content, id, d), id + 1, disk.numLive + 1)
      /\ id \in Id /\ NotIn(Content, id)
  BY <1>1, AddedOutcome
<1>3. \A h \in Content : h[1] < id
  BY DEF Inside
<1>4. \A h \in Content : h[1] \in Id
  BY ContentIs
<1> HIDE DEF id
<1>5. id + 1 \in 1 .. MaxAdds + 1 /\ \A m \in Id : m < id => m < id + 1
  BY <1>2, StoreAssumption DEF Id
<1>6. \A h \in With(Content, id, d) : h[1] < id + 1
  <2>1. <<id, d>>[1] = id /\ id < id + 1
    BY <1>2 DEF Id
  <2> QED BY <1>3, <1>4, <1>5, <2>1 DEF With, Without
<1> DEFINE s == Added(d)
           H == With(Content, id, d)
           n == id + 1
           m == disk.numLive + 1
<1> HIDE DEF s, H, n, m
<1>7. /\ Outcome(s, H, n, m) /\ Stored(s) /\ n \in 1 .. MaxAdds + 1
      /\ \A h \in H : h[1] < n
  BY <1>1, <1>2, <1>5, <1>6 DEF s, H, n, m
<1> QED BY <1>1, <1>7, StoredKeeps DEF H, n, m, id

LEMMA GetKeeps ==
  ASSUME Inside, NEW id \in Id, getRecord(id)
  PROVE  /\ Inside' /\ Content' = Content
         /\ disk'.nextId = disk.nextId /\ disk'.numLive = disk.numLive
<1> DEFINE s == getRecordHeader(Store, id).s
           n == disk.nextId
           m == disk.numLive
<1>1. open /\ Stored(s)
  BY DEF getRecord
<1>2. Outcome(s, Content, n, m)
  BY <1>1, LookupOutcome
<1>3. n \in 1 .. MaxAdds + 1 /\ \A h \in Content : h[1] < n
  BY DEF Inside
<1> HIDE DEF s, n, m
<1> QED BY <1>1, <1>2, <1>3, StoredKeeps DEF n, m

LEMMA IdsBelow ==
  ASSUME Inside, NEW id \in Id, ~NotIn(Content, id)
  PROVE  /\ \A d : \A h \in With(Content, id, d) : h[1] < disk.nextId
         /\ \A h \in Without(Content, id) : h[1] < disk.nextId
<1>1. \A h \in Content : h[1] < disk.nextId
  BY DEF Inside
<1>2. id < disk.nextId
  BY <1>1 DEF NotIn
<1>3. ASSUME NEW d PROVE \A h \in With(Content, id, d) : h[1] < disk.nextId
  <2>1. <<id, d>>[1] = id
    OBVIOUS
  <2> QED BY <1>1, <1>2, <2>1 DEF With, Without
<1> QED BY <1>1, <1>3 DEF Without

LEMMA DeleteKeeps ==
  ASSUME Inside, NEW id \in Id, deleteRecord(id), ~Misled(id)
  PROVE  /\ Inside' /\ Content' = Without(Content, id) /\ ~NotIn(Content, id)
         /\ disk'.nextId = disk.nextId /\ disk'.numLive = disk.numLive - 1
<1> DEFINE s == Deleted(id)
           H == Without(Content, id)
           n == disk.nextId
           m == disk.numLive - 1
<1>1. open /\ Find(id) # 0 /\ Stored(s)
  BY DEF deleteRecord
<1>2. Outcome(s, H, n, m)
  BY <1>1, DeletedOutcome
<1>3. n \in 1 .. MaxAdds + 1
  BY DEF Inside
<1>4. ~NotIn(Content, id)
  BY <1>1, FoundRecord
<1>5. \A h \in H : h[1] < n
  BY <1>4, IdsBelow
<1> HIDE DEF s, H, n, m
<1> QED BY <1>1, <1>2, <1>3, <1>4, <1>5, StoredKeeps DEF n, m, H

LEMMA SetKeeps ==
  ASSUME Inside, NEW id \in Id, NEW d \in Data, setRecord(id, d), ~Misled(id)
  PROVE  /\ Inside' /\ Content' = With(Content, id, d) /\ ~NotIn(Content, id)
         /\ disk'.nextId = disk.nextId /\ disk'.numLive = disk.numLive
<1> DEFINE H == With(Content, id, d)
           n == disk.nextId
           m == disk.numLive
<1>1. open /\ Find(id) # 0
  BY DEF setRecord
<1>2. PICK s : Outcome(s, H, n, m) /\ Stored(s)
  <2>1. CASE Fits(id, d) /\ Stored(SetInPlace(id, d))
    BY <1>1, <2>1, SetInPlaceOutcome
  <2>2. CASE Stored(SetElsewhere(id, d))
    BY <1>1, <2>2, SetElsewhereOutcome
  <2> QED BY <2>1, <2>2 DEF setRecord
<1>3. n \in 1 .. MaxAdds + 1
  BY DEF Inside
<1>4. ~NotIn(Content, id)
  BY <1>1, FoundRecord
<1>5. \A h \in H : h[1] < n
  BY <1>4, IdsBelow
<1> HIDE DEF H, n, m
<1> QED BY <1>1, <1>2, <1>3, <1>4, <1>5, StoredKeeps DEF n, m, H

LEMMA SetFullKeeps ==
  ASSUME Inside, NEW id \in Id, NEW d \in Data, setRecordFull(id, d), ~Misled(id)
  PROVE  /\ Inside' /\ Content' = Without(Content, id) /\ ~NotIn(Content, id)
         /\ disk'.nextId = disk.nextId /\ disk'.numLive = disk.numLive
<1> DEFINE s == Freed(id)
           H == Without(Content, id)
           n == disk.nextId
           m == disk.numLive
<1>1. open /\ Find(id) # 0 /\ Stored(s)
  BY DEF setRecordFull
<1>2. Outcome(s, H, n, m)
  BY <1>1, FreedSound DEF Outcome
<1>3. n \in 1 .. MaxAdds + 1
  BY DEF Inside
<1>4. ~NotIn(Content, id)
  BY <1>1, FoundRecord
<1>5. \A h \in H : h[1] < n
  BY <1>4, IdsBelow
<1> HIDE DEF s, H, n, m
<1> QED BY <1>1, <1>2, <1>3, <1>4, <1>5, StoredKeeps DEF n, m, H

LEMMA Emptied ==
  LET f == FileOf(<<>>, FreshHeader, Null, 0)
  IN  /\ Sound(f, AllBlocks(f)) /\ Held(<<>>, AllBlocks(f)) = {}
      /\ FreshHeader.nextId = 1 /\ FreshHeader.numLive = 0
<1> DEFINE f == FileOf(<<>>, FreshHeader, Null, 0)
<1>1. f.cells = <<>> /\ f.disk = FreshHeader /\ f.hdr = FreshHeader /\ f.cache = Null /\ f.last = 0
  BY DEF FileOf
<1>2. /\ FreshHeader \in Headers /\ FreshHeader.dataSize = 0 /\ FreshHeader.freeSize = 0
      /\ FreshHeader.nextId = 1 /\ FreshHeader.numLive = 0
  BY DEF FreshHeader, Headers
<1>3. <<>> \in Seq(Cell) /\ Len(<<>>) = 0 /\ <<>> \in Seq([cells : Seq(Cell), disk : Headers])
  OBVIOUS
<1>4. f \in Stores
  <2> HIDE DEF FreshHeader
  <2> QED BY <1>2, <1>3 DEF FileOf, Stores
<1>5. Live(<<>>, {}) = {} /\ Unused(<<>>, {}) = {} /\ Held(<<>>, {}) = {}
  BY DEF Live, Unused, Held
<1> HIDE DEF f
<1>6. Layout(<<>>, 0, {})
  BY <1>3 DEF Layout
<1>7. FileSound(<<>>, 0, {})
  <2>1. \A p : p \notin 1 .. 0
    OBVIOUS
  <2> QED BY <1>3, <1>5, <1>6, <2>1 DEF FileSound
<1>8. IndexSound(f, {})
  BY <1>1 DEF IndexSound
<1>9. Cardinality({}) = 0
  BY FS_EmptySet
<1>10. Sound(f, {})
  <2>1. f.hdr.dataSize = 0 /\ f.hdr.freeSize = 0
    BY <1>1, <1>2
  <2>2. Cardinality(Unused(f.cells, {})) <= f.hdr.freeSize
    <3>1. Unused(f.cells, {}) = {}
      BY DEF Unused
    <3>2. Cardinality(Unused(f.cells, {})) = 0
      BY <1>9, <3>1
    <3> QED BY <2>1, <3>2
  <2>3. Remembers(f, {}, IsFree)
    BY DEF Remembers, Live
  <2> QED BY <1>1, <1>4, <1>7, <1>8, <2>1, <2>2, <2>3 DEF Sound, SoundBut
<1>11. AllBlocks(f) = {}
  BY <1>1, <1>2, <1>3, <1>6, BlocksAre
<1> QED BY <1>2, <1>5, <1>10, <1>11 DEF f

LEMMA EmptyIs ==
  /\ cells = <<>> /\ disk = FreshHeader /\ cache = Null /\ lastSeen = 0
       => Sound(File, AllBlocks(File)) /\ Content = {}
  /\ cells' = <<>> /\ disk' = FreshHeader /\ cache' = Null /\ lastSeen' = 0
       => Sound(File, AllBlocks(File))' /\ Content' = {}
<1> DEFINE f == FileOf(<<>>, FreshHeader, Null, 0)
<1>1. Sound(f, AllBlocks(f)) /\ Held(<<>>, AllBlocks(f)) = {}
  BY Emptied
<1>2. ASSUME cells = <<>>, disk = FreshHeader, cache = Null, lastSeen = 0
      PROVE  Sound(File, AllBlocks(File)) /\ Content = {}
  <2>1. File = f
    BY <1>2, FileIs
  <2> HIDE DEF f
  <2> QED BY <1>1, <1>2, <2>1 DEF Content
<1>3. ASSUME cells' = <<>>, disk' = FreshHeader, cache' = Null, lastSeen' = 0
      PROVE  Sound(File, AllBlocks(File))' /\ Content' = {}
  <2>1. File' = f
    BY <1>3 DEF File, Store, FileOf
  <2> HIDE DEF f
  <2> QED BY <1>1, <1>3, <2>1 DEF Content
<1> QED BY <1>2, <1>3

LEMMA InitSound == Init => IInv /\ Inside /\ Content = {}
<1> SUFFICES ASSUME Init PROVE IInv /\ Inside /\ Content = {}
  OBVIOUS
<1>1. Sound(File, AllBlocks(File)) /\ Content = {}
  BY EmptyIs DEF Init
<1>2. disk.nextId = 1
  BY Emptied DEF Init
<1>3. disk.nextId \in 1 .. MaxAdds + 1 /\ leaked \in 0 .. Handles
  BY <1>2, StoreAssumption DEF Init
<1>4. \A h \in Content : h[1] < disk.nextId
  BY <1>1
<1> QED BY <1>1, <1>3, <1>4 DEF Init, IInv, Inside, Outer

LEMMA OpenKeeps ==
  ASSUME Outer, Inside, openRecordStore
  PROVE  Inside' /\ Content' = Content /\ disk' = disk
<1> DEFINE B == AllBlocks(File)
<1>1. Sound(File, B) /\ File.cells = cells /\ File.disk = disk /\ File.hdr = disk
  BY DEF Inside, File, Store
<1>2. /\ cells' = cells /\ disk' = disk /\ cache' = Null /\ lastSeen' = 0 /\ dbHeader' = disk'
  BY DEF openRecordStore, Outer
<1>3. Sound(File, AllBlocks(File))' /\ Content' = Held(File.cells, B)
  <2> DEFINE s == File
  <2>1. Sound(s, B) /\ cells' = s.cells /\ disk' = s.disk
    BY <1>1, <1>2
  <2> HIDE DEF s, B
  <2>2. Sound(File, AllBlocks(File))' /\ Content' = Held(s.cells, B)
    BY <1>2, <2>1, FileAfter
  <2> QED BY <2>2 DEF s
<1>4. Content' = Content
  BY <1>1, <1>3 DEF Content
<1> QED BY <1>2, <1>3, <1>4 DEF Inside

LEMMA LeaveKeeps ==
  ASSUME Inside, Leave
  PROVE  Inside' /\ Content' = Content /\ disk' = disk
<1> DEFINE B == AllBlocks(File)
<1>1. Sound(File, B) /\ File.cells = cells /\ File.disk = disk /\ File.hdr = disk
  BY DEF Inside, File, Store
<1>2. /\ cells' = cells /\ disk' = disk /\ cache' = Null /\ lastSeen' = 0 /\ open' = FALSE
  BY DEF Leave, Closed, fileVars
<1>3. Sound(File, AllBlocks(File))' /\ Content' = Held(File.cells, B)
  <2> DEFINE s == File
  <2>1. Sound(s, B) /\ cells' = s.cells /\ disk' = s.disk
    BY <1>1, <1>2
  <2> HIDE DEF s, B
  <2>2. Sound(File, AllBlocks(File))' /\ Content' = Held(s.cells, B)
    BY <1>2, <2>1, FileAfter
  <2> QED BY <2>2 DEF s
<1>4. Content' = Content
  BY <1>1, <1>3 DEF Content
<1> QED BY <1>2, <1>3, <1>4 DEF Inside

LEMMA CloseKeeps ==
  ASSUME Inside, closeRecordStore
  PROVE  /\ Inside' /\ Content' = Content
         /\ disk'.nextId = disk.nextId /\ disk'.numLive = disk.numLive
<1> DEFINE s == compactRecords(Store)
<1>1. /\ open /\ cells' = s.cells /\ disk' = s.disk /\ cache' = Null /\ lastSeen' = 0
      /\ open' = FALSE
  BY DEF closeRecordStore, Closed
<1>2. Outcome(s, Content, disk.nextId, disk.numLive)
  BY <1>1, CompactOutcome
<1> HIDE DEF s
<1>3. PICK B : /\ Sound(s, B) /\ Held(s.cells, B) = Content /\ s.hdr.nextId = disk.nextId
               /\ s.hdr.numLive = disk.numLive
  BY <1>2 DEF Outcome
<1>4. Sound(File, AllBlocks(File))' /\ Content' = Content /\ disk' = s.hdr
  BY <1>1, <1>3, FileAfter
<1> QED BY <1>1, <1>3, <1>4 DEF Inside

(* A store that is deleted is sound again, whatever it was. *)
LEMMA DeleteStoreKeeps ==
  ASSUME Outer, deleteRecordStore
  PROVE  Inside' /\ Content' = {} /\ disk'.nextId = 1 /\ disk'.numLive = 0
<1>1. /\ cells' = <<>> /\ disk' = FreshHeader /\ ~open
      /\ open' = open /\ cache' = cache /\ lastSeen' = lastSeen
  BY DEF deleteRecordStore, storeVars
<1>2. cache' = Null /\ lastSeen' = 0
  BY <1>1 DEF Outer
<1>3. Sound(File, AllBlocks(File))' /\ Content' = {}
  BY <1>1, <1>2, EmptyIs
<1>4. disk'.nextId = 1 /\ disk'.numLive = 0
  BY <1>1, Emptied
<1>5. disk'.nextId \in 1 .. MaxAdds + 1
  BY <1>4, StoreAssumption
<1>6. \A h \in Content' : h[1] < disk'.nextId
  BY <1>3
<1> QED BY <1>1, <1>3, <1>4, <1>5, <1>6 DEF Inside

LEMMA StutterKeeps ==
  ASSUME IInv, UNCHANGED vars
  PROVE  IInv'
<1>1. /\ exists' = exists /\ cells' = cells /\ disk' = disk /\ open' = open /\ dbHeader' = dbHeader
      /\ cache' = cache /\ lastSeen' = lastSeen /\ leaked' = leaked /\ misled' = misled
  BY DEF vars, fileVars, storeVars
<1>2. File' = File
  BY <1>1 DEF File, Store
<1>3. Content' = Content
  BY <1>1, <1>2 DEF Content
<1>4. Inside' = Inside
  BY <1>1, <1>2, <1>3 DEF Inside
<1> QED BY <1>1, <1>4 DEF IInv, Outer

LEMMA OuterKeeps == Outer /\ Next => Outer'
<1> SUFFICES ASSUME Outer, Next PROVE Outer'
  OBVIOUS
<1>1. ASSUME Keep, open, misled' \in BOOLEAN PROVE Outer'
  BY <1>1 DEF Keep, Outer
<1>2. \A id : (misled \/ Misled(id)) \in BOOLEAN
  OBVIOUS
<1>3. CASE \E d \in Data : addRecord(d)
  <2>1. open /\ Keep /\ misled' = misled
    BY <1>3 DEF addRecord
  <2> QED BY <1>1, <2>1 DEF Outer
<1>4. CASE \E id \in Id : deleteRecord(id)
  BY <1>1, <1>2, <1>4 DEF deleteRecord
<1>5. CASE \E id \in Id : getRecord(id)
  <2>1. open /\ Keep /\ misled' = misled
    BY <1>5 DEF getRecord
  <2> QED BY <1>1, <2>1 DEF Outer
<1>6. CASE \E id \in Id, d \in Data : setRecord(id, d)
  BY <1>1, <1>2, <1>6 DEF setRecord
<1>7. CASE \E id \in Id, d \in Data : setRecordFull(id, d)
  BY <1>1, <1>2, <1>7 DEF setRecordFull
<1>8. CASE openRecordStore
  BY <1>8 DEF openRecordStore, Outer
<1>9. CASE OpenFails
  BY <1>9 DEF OpenFails, vars, fileVars, storeVars, Outer
<1>10. CASE closeRecordStore
  BY <1>10 DEF closeRecordStore, Closed, Outer
<1>11. CASE deleteRecordStore
  BY <1>11 DEF deleteRecordStore, storeVars, Outer
<1>12. CASE Leave
  <2>1. leaked + 1 \in 0 .. Handles /\ exists
    BY <1>12, StoreAssumption DEF Leave, Outer
  <2> QED BY <1>12, <2>1 DEF Leave, Closed, fileVars, Outer
<1> QED BY <1>3, <1>4, <1>5, <1>6, <1>7, <1>8, <1>9, <1>10, <1>11, <1>12 DEF Next

(* Data once taken for a block, the file is not sound again but by being   *)
(* deleted.                                                                *)
LEMMA MisledStays ==
  ASSUME Next, ~misled'
  PROVE  /\ misled = FALSE \/ ~misled \/ deleteRecordStore
         /\ \A id \in Id : deleteRecord(id) => ~misled /\ ~Misled(id)
         /\ \A id \in Id, d \in Data : setRecord(id, d) => ~misled /\ ~Misled(id)
         /\ \A id \in Id, d \in Data : setRecordFull(id, d) => ~misled /\ ~Misled(id)
<1>1. \A id \in Id : deleteRecord(id) => ~misled /\ ~Misled(id)
  BY DEF deleteRecord
<1>2. \A id \in Id, d \in Data : setRecord(id, d) => ~misled /\ ~Misled(id)
  BY DEF setRecord
<1>3. \A id \in Id, d \in Data : setRecordFull(id, d) => ~misled /\ ~Misled(id)
  BY DEF setRecordFull
<1>4. ~misled \/ deleteRecordStore
  BY <1>1, <1>2, <1>3 DEF Next, addRecord, getRecord, openRecordStore, OpenFails, vars,
     closeRecordStore, Leave
<1> QED BY <1>1, <1>2, <1>3, <1>4

LEMMA NextKeeps == IInv /\ [Next]_vars => IInv'
<1> SUFFICES ASSUME IInv, [Next]_vars PROVE IInv'
  OBVIOUS
<1>1. CASE UNCHANGED vars
  BY <1>1, StutterKeeps
<1>2. CASE Next
  <2>1. Outer'
    BY <1>2, OuterKeeps DEF IInv
  <2>2. ASSUME ~misled' PROVE Inside'
    <3>1. CASE deleteRecordStore
      BY <3>1, DeleteStoreKeeps DEF IInv
    <3>2. CASE ~deleteRecordStore
      <4>1. Outer /\ Inside
        BY <1>2, <2>2, <3>2, MisledStays DEF IInv
      <4>2. CASE \E d \in Data : addRecord(d)
        BY <4>1, <4>2, AddKeeps
      <4>3. CASE \E id \in Id : deleteRecord(id)
        BY <1>2, <2>2, <4>1, <4>3, DeleteKeeps, MisledStays
      <4>4. CASE \E id \in Id : getRecord(id)
        BY <4>1, <4>4, GetKeeps
      <4>5. CASE \E id \in Id, d \in Data : setRecord(id, d)
        BY <1>2, <2>2, <4>1, <4>5, SetKeeps, MisledStays
      <4>6. CASE \E id \in Id, d \in Data : setRecordFull(id, d)
        BY <1>2, <2>2, <4>1, <4>6, SetFullKeeps, MisledStays
      <4>7. CASE openRecordStore
        BY <4>1, <4>7, OpenKeeps
      <4>8. CASE OpenFails
        BY <2>2, <4>8, StutterKeeps DEF OpenFails, IInv
      <4>9. CASE closeRecordStore
        BY <4>1, <4>9, CloseKeeps
      <4>10. CASE Leave
        BY <4>1, <4>10, LeaveKeeps
      <4> QED BY <1>2, <3>2, <4>2, <4>3, <4>4, <4>5, <4>6, <4>7, <4>8, <4>9, <4>10 DEF Next
    <3> QED BY <3>1, <3>2
  <2> QED BY <2>1, <2>2 DEF IInv
<1> QED BY <1>1, <1>2

(* Whatever the records hold, the file stays sound through every           *)
(* addRecord, setRecord, deleteRecord and compaction, openings, ends and   *)
(* left VMs, until an operation takes data for a block; and a store that   *)
(* is deleted is sound again.                                              *)
THEOREM InvariantHolds == Spec => []IInv
<1>1. Init => IInv
  BY InitSound
<1>2. IInv /\ [Next]_vars => IInv'
  BY NextKeeps
<1> QED BY <1>1, <1>2, PTL DEF Spec

-----------------------------------------------------------------------------
(* The properties follow.                                                  *)
LEMMA SoundIsConsistent == IInv => FileConsistent
<1> SUFFICES ASSUME Inside PROVE ~misled => FileConsistent
  BY DEF IInv, FileConsistent
<1> DEFINE B == AllBlocks(File)
           c == cells
           D == disk.dataSize
<1>1. /\ File \in Stores /\ FileSound(c, D, B) /\ Cardinality(Unused(c, B)) <= disk.freeSize
  <2>1. File.cells = cells /\ File.hdr = disk
    BY DEF File, Store
  <2> HIDE DEF B
  <2> QED BY <2>1 DEF Inside, Sound, SoundBut, B
<1>2. c \in Seq(Cell) /\ Layout(c, D, B)
  BY <1>1 DEF FileSound
<1>3. D = 0 \/ \E i \in B : i + c[i].len = D
  <2> HIDE DEF B, c, D
  <2>1. SUFFICES ASSUME D # 0 PROVE \E i \in B : i + c[i].len = D
    OBVIOUS
  <2>2. D \in Nat /\ B \subseteq Nat /\ B # {} /\ \A i \in B : i <= D
    BY <1>2, <2>1 DEF Layout
  <2>3. PICK i \in B : \A j \in B : j <= i
    BY <2>2, GreatestElement
  <2>4. /\ i \in Nat /\ c[i].len \in Nat /\ i + c[i].len + 1 \in B \cup {D + 1}
    BY <1>2, BlockFacts
  <2>5. ~(i + c[i].len + 1 <= i)
    BY <2>4
  <2>6. i + c[i].len + 1 = D + 1
    BY <2>3, <2>4, <2>5
  <2> QED BY <2>2, <2>4, <2>6
<1>4. \A i, j \in B : i # j /\ c[i].id = c[j].id => c[i].id = IsFree
  <2> HIDE DEF B, c
  <2> QED BY <1>1 DEF FileSound, Live
<1>5. /\ disk.nextId \in Int /\ ~(disk.nextId <= IsFree)
      /\ \A h \in Content : h[1] < disk.nextId
  BY StoreAssumption DEF Inside, IsFree
<1>6. \A i \in B : ~c[i].data /\ c[i].id < disk.nextId
  <2> SUFFICES ASSUME NEW i \in B PROVE ~c[i].data /\ c[i].id < disk.nextId
    OBVIOUS
  <2>1. ~c[i].data
    <3> HIDE DEF B, c
    <3> QED BY <1>1 DEF FileSound
  <2>2. CASE c[i].id = IsFree
    BY <1>5, <2>1, <2>2 DEF IsFree
  <2>3. CASE c[i].id # IsFree
    <3>1. <<c[i].id, DataAt(c, i)>> \in Content
      BY <2>3 DEF Content, Held, Live
    <3>2. <<c[i].id, DataAt(c, i)>>[1] = c[i].id
      OBVIOUS
    <3> QED BY <1>5, <2>1, <3>1, <3>2
  <2> QED BY <2>2, <2>3
<1>7. disk.freeSize >= FreeCells
  <2>1. FreeCells = Cardinality(Unused(c, B))
    BY DEF FreeCells, Unused
  <2>2. Cardinality(Unused(c, B)) \in Nat
    <3> HIDE DEF B, c, D
    <3> QED BY <1>1, UnusedCells
  <2>3. disk.freeSize \in Nat
    <3>1. File.disk = disk
      BY DEF File, Store
    <3> QED BY <1>1, <3>1 DEF Stores, Headers
  <2> HIDE DEF B, c, D
  <2> QED BY <1>1, <2>1, <2>2, <2>3
<1>8. open => disk = dbHeader
  BY DEF Inside
<1> QED BY <1>3, <1>4, <1>6, <1>7, <1>8 DEF FileConsistent

LEMMA SoundIsFound == IInv => LookupCorrect
<1> SUFFICES ASSUME Inside, open, NEW id \in Id
             PROVE  Find(id) = RecordAt(id) \/ (RecordAt(id) = 0 /\ Misled(id))
  BY DEF IInv, LookupCorrect
<1> DEFINE B == AllBlocks(File)
           at == getRecordHeader(Store, id).at
           T == {i \in B : cells[i].id = id}
<1>1. FileSound(cells, disk.dataSize, B)
  <2>1. Sound(Store, B) /\ Store.cells = cells /\ Store.hdr = disk
    BY OpenStore
  <2> QED BY <2>1 DEF Sound, SoundBut
<1>2. IsAt(cells, B, id, at) \/ (IsStray(cells, B, id, at) /\ Misled(id))
  BY FoundIs
<1>3. Find(id) = at
  BY DEF Find
<1>4. RecordAt(id) = IF T = {} THEN 0 ELSE Min(T)
  BY DEF RecordAt
<1> HIDE DEF at, B
<1>5. id # IsFree
  BY StoreAssumption DEF Id, IsFree
<1>6. \A i, j \in T : i = j
  BY <1>1, <1>5 DEF FileSound, Live
<1>7. T \subseteq Nat
  <2> DEFINE D == disk.dataSize
  <2>1. B \subseteq 1 .. D /\ D \in 0 .. Len(cells) /\ Len(cells) \in Nat
    BY <1>1 DEF FileSound, Layout
  <2> HIDE DEF D
  <2>2. 1 .. D \subseteq Nat
    BY <2>1
  <2>3. T \subseteq B
    OBVIOUS
  <2> QED BY <2>1, <2>2, <2>3
<1>8. CASE T = {}
  <2>1. RecordAt(id) = 0
    BY <1>4, <1>8
  <2>2. IsAt(cells, B, id, at) => at = 0
    BY <1>8 DEF IsAt
  <2> QED BY <1>2, <1>3, <2>1, <2>2
<1>9. CASE T # {}
  <2>1. ~IsStray(cells, B, id, at)
    BY <1>9 DEF IsStray
  <2>2. at \in T
    BY <1>2, <1>9, <2>1 DEF IsAt
  <2> HIDE DEF T
  <2>3. Min(T) \in T
    BY <1>7, <1>9, MinOfSet
  <2> QED BY <1>3, <1>4, <1>6, <1>9, <2>2, <2>3
<1> QED BY <1>8, <1>9

LEMMA SoundIsTyped == IInv => TypeOK
<1>1. ASSUME Inside
      PROVE  /\ cells \in Seq(Cell) /\ lastSeen \in 0 .. Len(cells)
             /\ cache = Null \/ cache \in [Id -> 0 .. Len(cells)]
  <2> DEFINE B == AllBlocks(File)
             D == disk.dataSize
  <2>1. /\ File.cells = cells /\ File.hdr = disk /\ File.cache = cache /\ File.last = lastSeen
    BY DEF File, Store
  <2>2. FileSound(cells, D, B) /\ IndexSound(File, B)
    BY <1>1, <2>1 DEF Inside, Sound, SoundBut
  <2>3. cells \in Seq(Cell) /\ B \subseteq 1 .. D /\ D \in 0 .. Len(cells) /\ Len(cells) \in Nat
    BY <2>2 DEF FileSound, Layout
  <2> HIDE DEF D
  <2>4. lastSeen \in B \cup {0}
    BY <2>1, <2>2 DEF IndexSound
  <2> HIDE DEF B
  <2>5. lastSeen \in 0 .. Len(cells)
    BY <2>3, <2>4
  <2>6. cache = Null \/ cache \in [Id -> 0 .. Len(cells)]
    BY <2>1, <2>2 DEF IndexSound
  <2> QED BY <2>3, <2>5, <2>6
<1> QED BY <1>1 DEF IInv, Outer, TypeOK

(* Handles that left VMs keep stay in the table of MAX_RMS_HANDLES; and    *)
(* until data is taken for a block, what is cached of offsets, and the     *)
(* place where the last search ended, stay in the file.                    *)
THEOREM StoreTypeCorrect == Spec => []TypeOK
<1>1. IInv => TypeOK
  BY SoundIsTyped
<1>2. Spec => []IInv
  BY InvariantHolds
<1> QED BY <1>1, <1>2, PTL

(* Until data is taken for a block, the header and the blocks of the file  *)
(* agree after every operation: compactRecords, splitBlock and freeBlock   *)
(* leave no gap and forget no free block, no block begins within data,     *)
(* and identifiers are used once.                                          *)
THEOREM FileIsConsistent == Spec => []FileConsistent
<1>1. IInv => FileConsistent
  BY SoundIsConsistent
<1>2. Spec => []IInv
  BY InvariantHolds
<1> QED BY <1>1, <1>2, PTL

(* getRecordHeader finds a record where it is, whatever the records hold   *)
(* and whatever offsets RecordStoreIndex remembers; an identifier without  *)
(* a record is not found, but for data at a remembered offset that looks   *)
(* like the record's block -- and that is the one way in which data is     *)
(* ever taken for a block.                                                 *)
THEOREM RecordsAreFound == Spec => []LookupCorrect
<1>1. IInv => LookupCorrect
  BY SoundIsFound
<1>2. Spec => []IInv
  BY InvariantHolds
<1> QED BY <1>1, <1>2, PTL

-----------------------------------------------------------------------------
(* Refinement.  The table that a set of pairs is, if it is one. *)
IsTable(f, H) ==
  /\ f = [id \in DOMAIN f |-> f[id]]
  /\ DOMAIN f = {h[1] : h \in H}
  /\ \A h \in H : f[h[1]] = h[2]

LEMMA TablesEqual ==
  ASSUME NEW f, NEW g, NEW H, IsTable(f, H), IsTable(g, H)
  PROVE  f = g
<1>1. DOMAIN f = {h[1] : h \in H} /\ DOMAIN g = {h[1] : h \in H}
  BY DEF IsTable
<1>2. ASSUME NEW id \in DOMAIN f PROVE f[id] = g[id]
  BY <1>1 DEF IsTable
<1>3. f = [id \in DOMAIN f |-> f[id]] /\ g = [id \in DOMAIN g |-> g[id]]
  BY DEF IsTable
<1> QED BY <1>1, <1>2, <1>3

LEMMA RecordsOf ==
  ASSUME NEW c, NEW B, OnePerId(Held(c, B))
  PROVE  LET used == {i \in B : c[i].id # IsFree}
             f    == [id \in {c[i].id : i \in used} |->
                        LET at == CHOOSE i \in used : c[i].id = id
                        IN  SubSeq(c, at + 1, at + c[at].len)]
         IN  IsTable(f, Held(c, B))
<1> DEFINE used == {i \in B : c[i].id # IsFree}
           ids == {c[i].id : i \in used}
           At(id) == CHOOSE i \in used : c[i].id = id
           f == [id \in ids |-> DataAt(c, At(id))]
<1>1. /\ \A i \in used : <<c[i].id, DataAt(c, i)>> \in Held(c, B)
      /\ \A h \in Held(c, B) : \E i \in used : h = <<c[i].id, DataAt(c, i)>>
  BY DEF Held, Live
<1>2. \A i : <<c[i].id, DataAt(c, i)>>[1] = c[i].id /\ <<c[i].id, DataAt(c, i)>>[2] = DataAt(c, i)
  OBVIOUS
<1>3. \A h \in Held(c, B) : \E i \in used :
         h = <<c[i].id, DataAt(c, i)>> /\ h[1] = c[i].id /\ h[2] = DataAt(c, i)
  BY <1>1, <1>2
<1> HIDE DEF used
<1>4. DOMAIN f = {h[1] : h \in Held(c, B)}
  <2>1. ids \subseteq {h[1] : h \in Held(c, B)}
    BY <1>1, <1>2
  <2>2. {h[1] : h \in Held(c, B)} \subseteq ids
    BY <1>3
  <2> QED BY <2>1, <2>2
<1>5. ASSUME NEW h \in Held(c, B) PROVE f[h[1]] = h[2]
  <2>1. PICK i \in used : h[1] = c[i].id
    BY <1>3
  <2> DEFINE j == At(h[1])
  <2>2. j \in used /\ c[j].id = h[1]
    BY <2>1
  <2>3. f[h[1]] = DataAt(c, j)
    BY <2>1
  <2> HIDE DEF j, f
  <2>4. <<c[j].id, DataAt(c, j)>> = h
    BY <1>1, <1>2, <2>2 DEF OnePerId
  <2>5. h[2] = DataAt(c, j)
    BY <1>2, <2>4
  <2> QED BY <2>3, <2>5
<1>6. f = [id \in DOMAIN f |-> f[id]]
  OBVIOUS
<1>7. IsTable(f, Held(c, B))
  <2> HIDE DEF f
  <2> QED BY <1>4, <1>5, <1>6 DEF IsTable
<1> QED BY <1>7 DEF DataAt, used

LEMMA RecordsAre ==
  /\ Inside => IsTable(Records, Content)
  /\ Inside' => IsTable(Records', Content')
<1>1. ASSUME Inside PROVE IsTable(Records, Content)
  <2>1. OnePerId(Held(cells, AllBlocks(File)))
    BY <1>1, ContentIs DEF Content
  <2> DEFINE B == AllBlocks(File)
  <2> HIDE DEF B
  <2>2. OnePerId(Held(cells, B))
    BY <2>1 DEF B
  <2> QED BY <2>2, RecordsOf DEF Records, Content, B
<1>2. ASSUME Inside' PROVE IsTable(Records', Content')
  <2>1. (Inside => IsTable(Records, Content))'
    BY <1>1, PTL
  <2> QED BY <1>2, <2>1
<1> QED BY <1>1, <1>2

(* The steps of the table. *)
Gets(f, id, d) == [i \in DOMAIN f \cup {id} |-> IF i = id THEN d ELSE f[i]]

LEMMA TableWith ==
  ASSUME NEW f, NEW g, NEW H, NEW id, NEW d, IsTable(f, H), IsTable(g, With(H, id, d))
  PROVE  g = Gets(f, id, d)
<1> DEFINE e == [i \in DOMAIN f \cup {id} |-> IF i = id THEN d ELSE f[i]]
           W == With(H, id, d)
<1>1. <<id, d>>[1] = id /\ <<id, d>>[2] = d
  OBVIOUS
<1>2. DOMAIN f = {h[1] : h \in H} /\ \A h \in H : f[h[1]] = h[2]
  BY DEF IsTable
<1>3. \A h : h \in W <=> (h \in H /\ h[1] # id) \/ h = <<id, d>>
  BY DEF With, Without
<1> HIDE DEF W
<1>4. DOMAIN e = {h[1] : h \in W}
  <2>1. ASSUME NEW i \in DOMAIN f \cup {id} PROVE \E h \in W : h[1] = i
    <3>1. CASE i = id
      BY <1>1, <1>3, <3>1
    <3>2. CASE i # id
      BY <1>2, <1>3, <3>2
    <3> QED BY <3>1, <3>2
  <2>2. ASSUME NEW h \in W PROVE h[1] \in DOMAIN f \cup {id}
    BY <1>1, <1>2, <1>3
  <2> QED BY <2>1, <2>2
<1>5. ASSUME NEW h \in W PROVE e[h[1]] = h[2]
  BY <1>1, <1>2, <1>3
<1>6. e = [i \in DOMAIN e |-> e[i]]
  OBVIOUS
<1> HIDE DEF e
<1>7. IsTable(e, W)
  BY <1>4, <1>5, <1>6 DEF IsTable
<1>8. g = e
  BY <1>7, TablesEqual DEF W
<1> QED BY <1>8 DEF e, Gets

LEMMA TableWithout ==
  ASSUME NEW f, NEW g, NEW H, NEW id, IsTable(f, H), IsTable(g, Without(H, id))
  PROVE  g = [i \in DOMAIN f \ {id} |-> f[i]]
<1> DEFINE e == [i \in DOMAIN f \ {id} |-> f[i]]
           W == Without(H, id)
<1>1. DOMAIN f = {h[1] : h \in H} /\ \A h \in H : f[h[1]] = h[2]
  BY DEF IsTable
<1>2. \A h : h \in W <=> h \in H /\ h[1] # id
  BY DEF Without
<1> HIDE DEF W
<1>3. DOMAIN e = {h[1] : h \in W}
  BY <1>1, <1>2
<1>4. ASSUME NEW h \in W PROVE e[h[1]] = h[2]
  BY <1>1, <1>2
<1>5. e = [i \in DOMAIN e |-> e[i]]
  OBVIOUS
<1> HIDE DEF e
<1>6. IsTable(e, W)
  BY <1>3, <1>4, <1>5 DEF IsTable
<1>7. g = e
  BY <1>6, TablesEqual DEF W
<1> QED BY <1>7 DEF e

LEMMA TableEmpty ==
  ASSUME NEW f, IsTable(f, {})
  PROVE  f = Table!NoRecords
BY DEF IsTable, Table!NoRecords

LEMMA TableInit == Init => Table!Init
<1> SUFFICES ASSUME Init PROVE Table!Init
  OBVIOUS
<1>1. Inside /\ Content = {}
  BY InitSound
<1>2. Records = Table!NoRecords
  BY <1>1, RecordsAre, TableEmpty
<1>3. disk.nextId = 1 /\ disk.numLive = 0
  BY Emptied DEF Init
<1> QED BY <1>2, <1>3 DEF Table!Init

LEMMA TableNext == IInv /\ [Next]_vars => [~misled' => AsPromised]_vars
<1> SUFFICES ASSUME IInv, Next, ~misled', ~UNCHANGED vars PROVE AsPromised
  OBVIOUS
<1>1. CASE deleteRecordStore
  <2>1. Inside' /\ Content' = {} /\ disk'.nextId = 1 /\ disk'.numLive = 0
    BY <1>1, DeleteStoreKeeps DEF IInv
  <2>2. Records' = Table!NoRecords
    BY <2>1, RecordsAre, TableEmpty
  <2> QED BY <1>1, <2>1, <2>2 DEF AsPromised, Table!deleteRecordStore
<1>2. CASE ~deleteRecordStore
  <2>1. Outer /\ Inside
    BY <1>2, MisledStays DEF IInv
  <2>2. Inside'
    BY NextKeeps DEF IInv
  <2>3. IsTable(Records, Content) /\ IsTable(Records', Content')
    BY <2>1, <2>2, RecordsAre
  <2>4. ASSUME Content' = Content, disk'.nextId = disk.nextId, disk'.numLive = disk.numLive
        PROVE  Table!Same
    BY <2>3, <2>4, TablesEqual DEF Table!Same
  <2>5. ASSUME NEW id, ~NotIn(Content, id) PROVE id \in DOMAIN Records
    BY <2>3, <2>5 DEF NotIn, IsTable
  <2>6. ASSUME NEW id, NEW d, Content' = With(Content, id, d) PROVE Records' = Table!With(id, d)
    <3> DEFINE f == Records
               g == Records'
               H == Content
    <3>1. IsTable(f, H) /\ IsTable(g, With(H, id, d))
      BY <2>3, <2>6
    <3> HIDE DEF f, g, H
    <3>2. g = Gets(f, id, d)
      BY <3>1, TableWith
    <3> QED BY <3>2 DEF Table!With, Gets, f, g
  <2>7. ASSUME NEW id, Content' = Without(Content, id) PROVE Records' = Table!Without(id)
    BY <2>3, <2>7, TableWithout DEF Table!Without
  <2>8. CASE \E d \in Data : addRecord(d)
    <3>1. PICK d \in Data : addRecord(d)
      BY <2>8
    <3>2. /\ Records' = Table!With(disk.nextId, d)
          /\ disk'.nextId = disk.nextId + 1 /\ disk'.numLive = disk.numLive + 1
      BY <2>1, <2>6, <3>1, AddKeeps
    <3> QED BY <3>1, <3>2 DEF AsPromised, Table!addRecord
  <2>9. CASE \E id \in Id : deleteRecord(id)
    <3>1. PICK id \in Id : deleteRecord(id)
      BY <2>9
    <3>2. ~Misled(id)
      BY <3>1, MisledStays
    <3>3. /\ Records' = Table!Without(id) /\ id \in DOMAIN Records
          /\ disk'.nextId = disk.nextId /\ disk'.numLive = disk.numLive - 1
      BY <2>1, <2>5, <2>7, <3>1, <3>2, DeleteKeeps
    <3> QED BY <3>1, <3>3 DEF AsPromised, Table!deleteRecord
  <2>10. CASE \E id \in Id, d \in Data : setRecord(id, d)
    <3>1. PICK id \in Id, d \in Data : setRecord(id, d)
      BY <2>10
    <3>2. ~Misled(id)
      BY <3>1, MisledStays
    <3>3. /\ Records' = Table!With(id, d) /\ id \in DOMAIN Records
          /\ disk'.nextId = disk.nextId /\ disk'.numLive = disk.numLive
      BY <2>1, <2>5, <2>6, <3>1, <3>2, SetKeeps
    <3> QED BY <3>1, <3>3 DEF AsPromised, Table!setRecord
  <2>11. CASE \E id \in Id, d \in Data : setRecordFull(id, d)
    <3>1. PICK id \in Id, d \in Data : setRecordFull(id, d)
      BY <2>11
    <3>2. ~Misled(id)
      BY <3>1, MisledStays
    <3>3. /\ Records' = Table!Without(id) /\ id \in DOMAIN Records
          /\ disk'.nextId = disk.nextId /\ disk'.numLive = disk.numLive
      BY <2>1, <2>5, <2>7, <3>1, <3>2, SetFullKeeps
    <3> QED BY <3>1, <3>3 DEF AsPromised, Table!setRecordFull
  <2>12. CASE \E id \in Id : getRecord(id)
    <3>1. Table!Same
      BY <2>1, <2>4, <2>12, GetKeeps
    <3> QED BY <2>12, <3>1 DEF AsPromised
  <2>13. CASE openRecordStore
    <3>1. Table!Same
      BY <2>1, <2>4, <2>13, OpenKeeps
    <3> QED BY <2>13, <3>1 DEF AsPromised
  <2>14. CASE closeRecordStore
    <3>1. Table!Same
      BY <2>1, <2>4, <2>14, CloseKeeps
    <3> QED BY <2>14, <3>1 DEF AsPromised
  <2>15. CASE Leave
    <3>1. Table!Same
      BY <2>1, <2>4, <2>15, LeaveKeeps
    <3> QED BY <2>15, <3>1 DEF AsPromised
  <2>16. ~OpenFails
    BY DEF OpenFails
  <2> QED BY <1>2, <2>8, <2>9, <2>10, <2>11, <2>12, <2>13, <2>14, <2>15, <2>16 DEF Next
<1> QED BY <1>1, <1>2

(* The file, its free blocks, splits and compactions implement the table   *)
(* of records: each operation does to it what RecordStore.java promises,   *)
(* but for the setRecord that finds no room and loses its record, and      *)
(* looking up, opening, closing and leaving do nothing to it -- until data *)
(* is taken for a block.                                                   *)
THEOREM StoreIsTable == Spec => ImplementsTable
<1>1. Init => Table!Init
  BY TableInit
<1>2. IInv /\ [Next]_vars => [~misled' => AsPromised]_vars
  BY TableNext
<1>3. Spec => []IInv
  BY InvariantHolds
<1> QED BY <1>1, <1>2, <1>3, PTL DEF Spec, ImplementsTable
=============================================================================
