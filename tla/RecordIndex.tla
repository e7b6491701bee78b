---------------------------- MODULE RecordIndex ----------------------------
(***************************************************************************)
(* What the record-hash and dedupe files promise: for every hash a growing *)
(* sequence of values, of which a lookup takes the first.  A pool of       *)
(* records is put group by group, and any groups of it may stay behind     *)
(* when the process dies.  Records are kept as they were handed over.      *)
(***************************************************************************)
EXTENDS RecordLists

CONSTANTS Hash, Group, GroupOf(_), MaxIndex

VARIABLES
    values,   \* for every hash, what was recorded for it, in order
    pool,     \* the records being put, in the order of the pool
    missing   \* the groups of the pool that are not put yet

vars == <<values, pool, missing>>

Init ==
    /\ values = [h \in Hash |-> <<>>]
    /\ pool = <<>> /\ missing = {}

Take ==
    /\ missing = {}
    /\ \E n \in 1 .. MaxIndex :
         pool' \in [1 .. n -> [hash : Hash, index : 0 .. MaxIndex]]
    /\ missing' = {GroupOf(pool'[i].hash) : i \in DOMAIN pool'}
    /\ UNCHANGED values

PutGroup ==
    \E g \in missing :
        /\ missing' = missing \ {g}
        /\ values' = [h \in Hash |->
                        IF GroupOf(h) = g THEN values[h] \o IndicesOf(h, pool, Len(pool)) ELSE values[h]]
        /\ UNCHANGED pool

GiveUp == missing' = {} /\ pool' = <<>> /\ UNCHANGED values

Next == Take \/ PutGroup \/ GiveUp

Spec == Init /\ [][Next]_vars
=============================================================================
