---------------------------- MODULE RecordLists ----------------------------
(***************************************************************************)
(* The indices that a sequence of records has for one hash, in order.      *)
(***************************************************************************)
EXTENDS Naturals, Sequences

\* Those among the first n records.
IndicesOf(h, rs, n) ==
    LET own[k \in 0 .. Len(rs)] ==
          IF k = 0 THEN <<>>
          ELSE IF rs[k].hash = h THEN Append(own[k - 1], rs[k].index) ELSE own[k - 1]
    IN  own[n]
=============================================================================
