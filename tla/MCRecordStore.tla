---------------------------- MODULE MCRecordStore ----------------------------
EXTENDS RecordStore

Content(id, len) == [id |-> id, len |-> len, data |-> TRUE]
Plain    == Content(0, 0)
AsFree   == Content(IsFree, 0)
AsRecord == Content(2, 1)     \* looks like the block of the second record

(* Contents that are not, and contents that are, like the code's own       *)
(* headers.                                                                *)
Contents  == {<<>>, <<Plain>>, <<AsFree, Plain>>}
Lookalike == {<<>>, <<AsRecord>>, <<AsFree, AsRecord>>}

(* The step that takes data for a block is checked; what follows is not.   *)
NotMisled == ~misled
=============================================================================
