----------------------------- MODULE RecordStore -----------------------------
(***************************************************************************)
(* One record store of a game: a file that RecordStoreImpl.java reads and  *)
(* writes block by block, with the linear index of RecordStoreIndex.java.  *)
(*                                                                         *)
(* The file is a header and then blocks, each of a block header (the       *)
(* record's identifier or -1 for a free block, and the length) and data.   *)
(* Everything is a multiple of eight bytes, the size of a block header:    *)
(* a cell.  A game may store any bytes, so a cell of data may look like a  *)
(* block header, and the code cannot tell the two apart; what the cell was *)
(* written as is a history kept beside its contents.  The header of the    *)
(* file is kept in memory as well (dbHeader) and written field by field.   *)
(*                                                                         *)
(* An operation runs under rsLock from its first to its last file access,  *)
(* so it is one step that applies all its writes; when the pause menu      *)
(* leaves the VM by longjmp, or the device is switched off, in the middle, *)
(* only the first of them are done (LeaveMidway).                          *)
(***************************************************************************)
EXTENDS Integers, Sequences, FiniteSets, FiniteSetsExt, SequencesExt

CONSTANTS
  Data,        \* the contents of records: sequences of cells
  Null,        \* no index cache yet
  Limit,       \* cells of data a store may have (STORAGE_SUITE_LIMIT)
  Handles,     \* MAX_RMS_HANDLES, 64 in the code
  MaxAdds      \* bound on the records added

Id      == 1 .. MaxAdds
IsFree  == -1
Cell    == [id : Int, len : Nat, data : BOOLEAN]   \* data: history
Header(id, len) == [id |-> id, len |-> len, data |-> FALSE]

ASSUME StoreAssumption ==
  /\ Limit \in Nat /\ Handles \in Nat \ {0} /\ MaxAdds \in Nat
  /\ Data \subseteq Seq([id : Int, len : Nat, data : {TRUE}])
  /\ Null \notin [Id -> Nat]

VARIABLES
  exists,      \* is there a file of this store?
  cells,       \* its cells after the header; never made fewer (rms_posix.c
               \* 395 to 400: the device's build has no ftruncate)
  disk,        \* its header
  open,        \* is the store open?
  dbHeader,    \* its header in memory
  cache,       \* recordIdOffsets: a cell for each identifier, 0 for none
  lastSeen,    \* recordIdOffsets.LastSeenOffset
  leaked,      \* file handles that left VMs did not give back
  misled       \* history: data was freed or overwritten as if it were a block

fileVars  == <<exists, cells, disk>>
storeVars == <<open, dbHeader, cache, lastSeen>>
vars      == <<fileVars, storeVars, leaked, misled>>

FreshHeader == [nextId |-> 1, numLive |-> 0, dataSize |-> 0, freeSize |-> 0]

Init ==
  /\ exists = FALSE
  /\ cells = <<>>
  /\ disk = FreshHeader
  /\ open = FALSE
  /\ dbHeader = FreshHeader
  /\ cache = Null
  /\ lastSeen = 0
  /\ leaked = 0
  /\ misled = FALSE

-----------------------------------------------------------------------------
(* The state of an open store while an operation works on it.  images is   *)
(* what is in the file after each of its writes.                           *)
Store == [cells |-> cells, disk |-> disk, hdr |-> dbHeader, cache |-> cache,
          last |-> lastSeen, images |-> <<>>]

BlockSize(len) == len + 1

Image(s) == [s EXCEPT !.images = Append(@, [cells |-> s.cells, disk |-> s.disk])]

WriteCells(s, at, new) ==
  IF new = <<>> THEN s
  ELSE Image([s EXCEPT !.cells =
         [i \in 1 .. Max({Len(@), at + Len(new) - 1}) |->
            IF i \in at .. at + Len(new) - 1 THEN new[i - at + 1] ELSE s.cells[i]]])

WriteHeader(s, fields) ==
  Image([s EXCEPT !.disk = [f \in DOMAIN @ |-> IF f \in fields THEN s.hdr[f] ELSE @[f]]])

(* Where the blocks from one on begin, as far as the data goes; what is    *)
(* read beyond the end of the file is nothing.                             *)
Blocks(s, from, upto) ==
  LET at[i \in Nat \ {0}] ==
        IF i > upto \/ i > Len(s.cells) THEN {}
        ELSE {i} \cup at[i + BlockSize(s.cells[i].len)]
  IN  at[from]

AllBlocks(s) == Blocks(s, 1, s.hdr.dataSize)

-----------------------------------------------------------------------------
(* RecordStoreIndex.  updateBlock and deleteRecordIndex keep the cache,    *)
(* removeBlock forgets where the last search ended.                        *)
updateBlock(s, at, id) ==
  IF s.cache = Null \/ id = IsFree THEN s ELSE [s EXCEPT !.cache[id] = at]

removeBlock(s) == IF s.cache = Null THEN s ELSE [s EXCEPT !.last = 0]

deleteRecordIndex(s, id) == IF s.cache = Null THEN s ELSE [s EXCEPT !.cache[id] = 0]

(* getRecordHeader_SearchFromTo: the search stops at the record, or at the *)
(* last block, and remembers under the identifier where it stopped.        *)
SearchFrom(s, id, from) ==
  LET seen  == Blocks(s, from, s.hdr.dataSize)
      found == {i \in seen : s.cells[i].id = id}
      stop  == IF found # {} THEN Min(found) ELSE IF seen # {} THEN Max(seen) ELSE 0
  IN  [at |-> IF found # {} THEN stop ELSE 0,
       s  |-> IF stop = 0 THEN s ELSE [s EXCEPT !.cache[id] = stop, !.last = stop]]

Search(s, id) ==
  LET near == SearchFrom(s, id, s.last)
  IN  IF s.last = 0 THEN SearchFrom(s, id, 1)
      ELSE IF near.at # 0 THEN near ELSE SearchFrom(near.s, id, 1)

(* getRecordHeader: first where the cache says, if the identifier is there.*)
EmptyCache == [id \in Id |-> 0]

getRecordHeader(s, id) ==
  LET at     == IF s.cache = Null THEN 0 ELSE s.cache[id]
      beyond == at > Len(s.cells)
  IN  IF at # 0 /\ ~beyond /\ s.cells[at].id = id THEN [at |-> at, s |-> s]
      ELSE IF s.cache = Null \/ beyond
           THEN Search([s EXCEPT !.cache = EmptyCache, !.last = 0], id)
           ELSE Search(s, id)

(* getFreeBlock: the first that is large enough, or 0. *)
getFreeBlock(s, len) ==
  LET fit == {i \in AllBlocks(s) : s.cells[i].id = IsFree /\ s.cells[i].len >= len}
  IN  IF fit = {} THEN 0 ELSE Min(fit)

-----------------------------------------------------------------------------
(* RecordStoreImpl: blocks. *)
writeBlock(s, at, id, len, data) ==
  updateBlock(WriteCells(WriteCells(s, at, <<Header(id, len)>>), at + 1, data), at, id)

freeBlock(s, at, len) ==
  LET w == writeBlock(s, at, IsFree, len, <<>>)
  IN  WriteHeader([w EXCEPT !.hdr.freeSize = @ + BlockSize(len)], {"freeSize"})

(* The block at at, of length len, gets the data; what is left of it, if   *)
(* it has room for a block header, becomes a free block.  SplitsLate wants *)
(* room for data as well.                                                  *)
SplitsLate(s, at, id, len, data) ==
  LET w    == writeBlock(s, at, id, Len(data), data)
      left == len - Len(data) - 1
  IN  IF left > 0 THEN freeBlock(w, at + BlockSize(Len(data)), left) ELSE w

splitBlock(s, at, id, len, data) ==
  LET w    == writeBlock(s, at, id, Len(data), data)
      left == len - Len(data) - 1
  IN  IF left >= 0 THEN freeBlock(w, at + BlockSize(Len(data)), left) ELSE w

(* compactRecords: the records move up over the free blocks before them.   *)
(* The data size becomes smaller, the file does not.  MovesSilently does   *)
(* not tell the index, MovesShort leaves the last cell of the data behind. *)
MovesSilently(acc, at) ==
  LET b == acc.s.cells[at]
  IN  IF b.id = IsFree THEN [by |-> acc.by + BlockSize(b.len), s |-> removeBlock(acc.s)]
      ELSE IF acc.by = 0 THEN acc
      ELSE [acc EXCEPT !.s = WriteCells(@, at - acc.by, SubSeq(@.cells, at, at + b.len))]

MovesShort(acc, at) ==
  LET b == acc.s.cells[at]
  IN  IF b.id = IsFree THEN [by |-> acc.by + BlockSize(b.len), s |-> removeBlock(acc.s)]
      ELSE IF acc.by = 0 THEN acc
      ELSE [acc EXCEPT !.s =
              updateBlock(WriteCells(@, at - acc.by, SubSeq(@.cells, at, at + b.len - 1)),
                          at - acc.by, b.id)]

MoveUp(acc, at) ==
  LET b == acc.s.cells[at]
  IN  IF b.id = IsFree THEN [by |-> acc.by + BlockSize(b.len), s |-> removeBlock(acc.s)]
      ELSE IF acc.by = 0 THEN acc
      ELSE [acc EXCEPT !.s =
              updateBlock(WriteCells(@, at - acc.by, SubSeq(@.cells, at, at + b.len)),
                          at - acc.by, b.id)]

compactRecords(s) ==
  LET blocks == AllBlocks(s)
      after[n \in 0 .. s.hdr.dataSize] ==   \* when the blocks up to n have moved
        IF n = 0 THEN [by |-> 0, s |-> s]
        ELSE IF n \in blocks THEN MoveUp(after[n - 1], n) ELSE after[n - 1]
      moved == after[s.hdr.dataSize]
  IN  IF s.hdr.freeSize = 0 \/ moved.by = 0 THEN s
      ELSE WriteHeader([moved.s EXCEPT !.hdr.dataSize = @ - moved.by, !.hdr.freeSize = 0],
                       {"dataSize", "freeSize"})

(* addBlock: a free block, or the end of the data, if need be after making *)
(* room there.                                                             *)
Available(s) == Max({Limit - s.hdr.dataSize, 0})

Full(s, data) ==
  /\ s.hdr.freeSize < BlockSize(Len(data)) \/ getFreeBlock(s, Len(data)) = 0
  /\ Available(s) < BlockSize(Len(data))
  /\ Available(s) + s.hdr.freeSize < BlockSize(Len(data))

AppendBlock(s, id, data) ==
  LET room == IF Available(s) < BlockSize(Len(data)) THEN compactRecords(s) ELSE s
      w    == writeBlock(room, room.hdr.dataSize + 1, id, Len(data), data)
  IN  WriteHeader([w EXCEPT !.hdr.dataSize = @ + BlockSize(Len(data))], {"dataSize"})

addBlock(s, id, data) ==
  LET at == IF s.hdr.freeSize >= BlockSize(Len(data)) THEN getFreeBlock(s, Len(data)) ELSE 0
  IN  IF at > 0 THEN splitBlock(s, at, id, s.cells[at].len, data) ELSE AppendBlock(s, id, data)

-----------------------------------------------------------------------------
(* What an operation on the open store does to it: the outcome s when all  *)
(* its writes are done.  AddsUncounted forgets to count the record.        *)
AddsUncounted(d) ==
  LET w == addBlock(Store, dbHeader.nextId, d)
  IN  WriteHeader([w EXCEPT !.hdr.nextId = @ + 1], {"nextId", "numLive"})

Added(d) ==
  LET w == addBlock(Store, dbHeader.nextId, d)
  IN  WriteHeader([w EXCEPT !.hdr.nextId = @ + 1, !.hdr.numLive = @ + 1], {"nextId", "numLive"})

Deleted(id) ==
  LET r == getRecordHeader(Store, id)
      f == deleteRecordIndex(freeBlock(r.s, r.at, r.s.cells[r.at].len), id)
  IN  WriteHeader([f EXCEPT !.hdr.numLive = @ - 1], {"numLive"})

(* setRecord: in the old block if the data fits, else the old block is     *)
(* freed first.                                                            *)
Fits(id, d) == LET r == getRecordHeader(Store, id) IN Len(d) <= r.s.cells[r.at].len

SetInPlace(id, d) ==
  LET r == getRecordHeader(Store, id)
  IN  splitBlock(r.s, r.at, id, r.s.cells[r.at].len, d)

Freed(id) ==
  LET r == getRecordHeader(Store, id) IN freeBlock(r.s, r.at, r.s.cells[r.at].len)

SetElsewhere(id, d) == addBlock(Freed(id), id, d)

Stored(s) ==
  /\ cells' = s.cells
  /\ disk' = s.disk
  /\ dbHeader' = s.hdr
  /\ cache' = s.cache
  /\ lastSeen' = s.last

Find(id) == getRecordHeader(Store, id).at

(* What is taken for the block of the record is data. *)
Misled(id) == Find(id) # 0 /\ cells[Find(id)].data

Keep == UNCHANGED <<exists, open, leaked>>

addRecord(d) ==
  /\ open
  /\ dbHeader.nextId <= MaxAdds
  /\ ~Full(Store, d)
  /\ Stored(Added(d))
  /\ Keep /\ UNCHANGED misled

deleteRecord(id) ==
  /\ open
  /\ Find(id) # 0
  /\ Stored(Deleted(id))
  /\ misled' = (misled \/ Misled(id))
  /\ Keep

setRecord(id, d) ==
  /\ open
  /\ Find(id) # 0
  /\ \/ Fits(id, d) /\ Stored(SetInPlace(id, d))
     \/ ~Fits(id, d) /\ ~Full(Freed(id), d) /\ Stored(SetElsewhere(id, d))
  /\ misled' = (misled \/ Misled(id))
  /\ Keep

(* RecordStoreFullException: the old block has been freed by then. *)
setRecordFull(id, d) ==
  /\ open
  /\ Find(id) # 0
  /\ ~Fits(id, d) /\ Full(Freed(id), d)
  /\ Stored(Freed(id))
  /\ misled' = (misled \/ Misled(id))
  /\ Keep

(* getRecord only changes the index, and so do deleteRecord and setRecord  *)
(* of an identifier without a record.                                      *)
getRecord(id) ==
  /\ open
  /\ Stored(getRecordHeader(Store, id).s)
  /\ Keep /\ UNCHANGED misled

-----------------------------------------------------------------------------
(* The header of the file is read, or written if there is no file yet.     *)
(* Without a handle the file that open has just created is deleted again.  *)
openRecordStore ==
  /\ ~open
  /\ leaked < Handles
  /\ open' = TRUE
  /\ exists' = TRUE
  /\ disk' = IF exists THEN disk ELSE FreshHeader
  /\ dbHeader' = disk'
  /\ cache' = Null
  /\ lastSeen' = 0
  /\ UNCHANGED <<cells, leaked, misled>>

OpenFails ==
  /\ ~open
  /\ leaked = Handles
  /\ UNCHANGED vars

Closed ==
  /\ open' = FALSE
  /\ dbHeader' = FreshHeader
  /\ cache' = Null
  /\ lastSeen' = 0

closeRecordStore ==
  /\ open
  /\ LET s == compactRecords(Store) IN cells' = s.cells /\ disk' = s.disk
  /\ Closed
  /\ UNCHANGED <<exists, leaked, misled>>

deleteRecordStore ==
  /\ exists /\ ~open
  /\ exists' = FALSE
  /\ cells' = <<>>
  /\ disk' = FreshHeader
  /\ misled' = FALSE
  /\ UNCHANGED <<storeVars, leaked>>

(* The VM is left between two operations. *)
Leave ==
  /\ open
  /\ Closed
  /\ leaked' = leaked + 1
  /\ UNCHANGED <<fileVars, misled>>

Next ==
  \/ \E d \in Data : addRecord(d)
  \/ \E id \in Id : deleteRecord(id) \/ getRecord(id)
  \/ \E id \in Id, d \in Data : setRecord(id, d) \/ setRecordFull(id, d)
  \/ openRecordStore \/ OpenFails
  \/ closeRecordStore \/ deleteRecordStore
  \/ Leave

Spec == Init /\ [][Next]_vars

(* The VM is left in an operation, after any one of its writes. *)
Outcomes ==
  {Added(d) : d \in {x \in Data : dbHeader.nextId <= MaxAdds /\ ~Full(Store, x)}}
  \cup {Deleted(id) : id \in {x \in Id : Find(x) # 0}}
  \cup {SetInPlace(x[1], x[2]) : x \in {y \in Id \X Data : Find(y[1]) # 0 /\ Fits(y[1], y[2])}}
  \cup {SetElsewhere(x[1], x[2]) : x \in {y \in Id \X Data :
           Find(y[1]) # 0 /\ ~Fits(y[1], y[2]) /\ ~Full(Freed(y[1]), y[2])}}
  \cup {compactRecords(Store)}

LeaveMidway ==
  /\ open
  /\ \E s \in Outcomes : \E i \in DOMAIN s.images :
       cells' = s.images[i].cells /\ disk' = s.images[i].disk
  /\ Closed
  /\ leaked' = leaked + 1
  /\ UNCHANGED <<exists, misled>>

MidwaySpec == Init /\ [][Next \/ LeaveMidway]_vars

-----------------------------------------------------------------------------
(* The records that are in the file. *)
File == [Store EXCEPT !.hdr = disk]

RecordAt(id) ==
  LET at == {i \in AllBlocks(File) : cells[i].id = id} IN IF at = {} THEN 0 ELSE Min(at)

Records ==
  LET used == {i \in AllBlocks(File) : cells[i].id # IsFree}
  IN  [id \in {cells[i].id : i \in used} |->
         LET at == CHOOSE i \in used : cells[i].id = id
         IN  SubSeq(cells, at + 1, at + cells[at].len)]

TypeOK ==
  /\ exists \in BOOLEAN /\ open \in BOOLEAN
  /\ leaked \in 0 .. Handles
  /\ misled \in BOOLEAN
  /\ ~misled =>
       /\ cells \in Seq(Cell)
       /\ cache = Null \/ cache \in [Id -> 0 .. Len(cells)]
       /\ lastSeen \in 0 .. Len(cells)

(* Whatever the index remembers of earlier searches, the free blocks that  *)
(* were used, split and moved over since: a record is found where it is,   *)
(* whatever the records hold.  An identifier without a record is not found *)
(* -- unless the index remembers a cell for it that by now is data and     *)
(* looks like that record's block; only then is data taken for a block.    *)
LookupCorrect ==
  open /\ ~misled =>
    \A id \in Id : Find(id) = RecordAt(id) \/ (RecordAt(id) = 0 /\ Misled(id))

FreeCells ==
  Cardinality(UNION {i .. i + cells[i].len : i \in {j \in AllBlocks(File) : cells[j].id = IsFree}})

(* The blocks cover the data to its last cell, none of them begins with    *)
(* data, no identifier is used twice and the next one is new, and no free  *)
(* block is forgotten.  All that an operation changed in the header is in  *)
(* the file when it ends, so that a VM left between two operations takes   *)
(* nothing along.                                                          *)
FileConsistent ==
  LET blocks == AllBlocks(File) IN
  ~misled =>
    /\ disk.dataSize = 0 \/ \E i \in blocks : i + cells[i].len = disk.dataSize
    /\ \A i \in blocks : ~cells[i].data /\ cells[i].id < disk.nextId
    /\ \A i, j \in blocks : i # j /\ cells[i].id = cells[j].id => cells[i].id = IsFree
    /\ disk.freeSize >= FreeCells
    /\ open => disk = dbHeader

(* RecordStoreIndex.getRecordIDs, what an enumeration is built from: as    *)
(* many identifiers as the store counts records, 0 for what it did not     *)
(* find.  The end of the data is noticed one block late, so that a block   *)
(* left over from before a compaction is read as well.                     *)
getRecordIDs ==
  LET seen == IF disk.dataSize = 0 THEN {} ELSE Blocks(File, 1, disk.dataSize + 1)
      live == SetToSortSeq({i \in seen : cells[i].id > 0}, <)
  IN  [n \in 1 .. disk.numLive |-> IF n <= Len(live) THEN cells[live[n]].id ELSE 0]

(* Every record is enumerated: the count of records is never too small.    *)
EnumeratesAll ==
  open /\ ~misled => DOMAIN Records \subseteq Range(getRecordIDs)

(* The table of records that the file holds.  Each operation does to it    *)
(* what its name says; looking up, opening, closing with its compaction,   *)
(* and leaving between two operations do nothing to it.                    *)
Table == INSTANCE RecordTable
           WITH records <- Records, nextId <- disk.nextId, count <- disk.numLive

AsPromised ==
  \/ \E d \in Data : addRecord(d) /\ Table!addRecord(d)
  \/ \E id \in Id : deleteRecord(id) /\ Table!deleteRecord(id)
  \/ \E id \in Id, d \in Data :
       \/ setRecord(id, d) /\ Table!setRecord(id, d)
       \/ setRecordFull(id, d) /\ Table!setRecordFull(id)
  \/ deleteRecordStore /\ Table!deleteRecordStore
  \/ /\ openRecordStore \/ closeRecordStore \/ Leave \/ \E id \in Id : getRecord(id)
     /\ Table!Same

ImplementsTable == Table!Init /\ [][~misled' => AsPromised]_vars

(* "Finds the record header for the given record" (RecordStoreIndex.java   *)
(* 190): what is found is a record.  It does not hold                       *)
(* (MCRecordStoreStale.cfg): data may look like a record that was deleted. *)
LookupStrict == open => \A id \in Id : Find(id) = RecordAt(id)

(* "Returns all of the recordId's currently in the record store index"     *)
(* (RecordStoreIndex.java 140): and no others.  It does not hold           *)
(* (MCRecordStoreLost.cfg): a record that setRecord lost is still counted. *)
EnumeratesOnly == open => Range(getRecordIDs) \subseteq DOMAIN Records

(* RecordStore.java: "Records are uniquely identified within a given       *)
(* record store by their recordId".                                        *)
IdsUnique ==
  \A i, j \in AllBlocks(File) :
    i # j /\ cells[i].id = cells[j].id => cells[i].id = IsFree

(* addBlock: if what is available "is less than the block size to be       *)
(* added, RecordStoreFullException is thrown" (RecordStoreImpl.java 918 to *)
(* 920), so that a store does not grow beyond its limit.  It does not hold *)
(* (MCRecordStoreLimit.cfg): freeSize counts free blocks that were used    *)
(* again.                                                                  *)
WithinLimit == disk.dataSize <= Limit
=============================================================================
