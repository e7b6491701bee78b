------------------------------- MODULE CTLog -------------------------------
(***************************************************************************)
(* What itko promises its users, with nothing about how it is done: a log  *)
(* that only grows, whose leaves are numbered by their positions, and      *)
(* signed certificate timestamps (SCTs) that are handed out only for       *)
(* leaves the published tree head already covers.  The README states it    *)
(* as "the actual MMD of the log is zero": there is no delay between the   *)
(* promise and the publication, the publication comes first.               *)
(***************************************************************************)
EXTENDS Naturals, Sequences, SequencesExt

CONSTANT Leaf   \* the MerkleTreeLeaf values, records with an index field idx

VARIABLES log,      \* the leaves below the published tree head
          promised  \* the leaves an SCT was signed for

vars == <<log, promised>>

Init == log = <<>> /\ promised = {}

\* A new tree head covers more leaves, each numbered by its position.
Publish ==
    /\ log' \in Seq(Leaf)
    /\ IsPrefix(log, log')
    /\ \A i \in Len(log) + 1 .. Len(log') : log'[i].idx = i - 1
    /\ UNCHANGED promised

\* An SCT is signed for a leaf of the published log.
Promise ==
    /\ \E i \in 1 .. Len(log) : promised' = promised \cup {log[i]}
    /\ UNCHANGED log

Next == Publish \/ Promise

Spec == Init /\ [][Next]_vars
=============================================================================
