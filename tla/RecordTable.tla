----------------------------- MODULE RecordTable -----------------------------
(***************************************************************************)
(* What a record store promises (RecordStore.java): records are found by   *)
(* the identifier they were given when they were added, 1, 2, 3 and so on, *)
(* and counted; an operation without room does nothing -- except that a    *)
(* setRecord without room, as RecordStoreImpl has it, loses the record and *)
(* goes on counting it (setRecordFull).                                    *)
(***************************************************************************)
EXTENDS Integers

CONSTANT Data      \* what a record may hold

VARIABLES
  records,         \* the data of each record
  nextId,          \* the identifier of the next one
  count            \* getNumRecords

NoRecords == [id \in {} |-> <<>>]

Init == records = NoRecords /\ nextId = 1 /\ count = 0

With(id, d) ==
  [i \in DOMAIN records \cup {id} |-> IF i = id THEN d ELSE records[i]]

Without(id) == [i \in DOMAIN records \ {id} |-> records[i]]

addRecord(d) ==
  /\ records' = With(nextId, d)
  /\ nextId' = nextId + 1
  /\ count' = count + 1

deleteRecord(id) ==
  /\ id \in DOMAIN records
  /\ records' = Without(id)
  /\ count' = count - 1
  /\ UNCHANGED nextId

setRecord(id, d) ==
  /\ id \in DOMAIN records
  /\ records' = With(id, d)
  /\ UNCHANGED <<nextId, count>>

setRecordFull(id) ==
  /\ id \in DOMAIN records
  /\ records' = Without(id)
  /\ UNCHANGED <<nextId, count>>

(* The store may be made again. *)
deleteRecordStore == records' = NoRecords /\ nextId' = 1 /\ count' = 0

Same == UNCHANGED <<records, nextId, count>>

Next ==
  \/ \E d \in Data : addRecord(d)
  \/ \E id \in DOMAIN records : deleteRecord(id) \/ setRecordFull(id)
  \/ \E id \in DOMAIN records, d \in Data : setRecord(id, d)
  \/ deleteRecordStore

Spec == Init /\ [][Next]_<<records, nextId, count>>
=============================================================================
