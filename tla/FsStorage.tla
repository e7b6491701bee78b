----------------------------- MODULE FsStorage -----------------------------
(***************************************************************************)
(* itko-submit on a directory.  FsStorage.Set is os.WriteFile: the file is *)
(* truncated and then written, so that who stops in between leaves it      *)
(* empty or short, and who reads it meanwhile finds it so.  The process is *)
(* started again by the supervisor, or with the whole container, whose     *)
(* entry point puts {} into get-sth where that is missing or empty.        *)
(*                                                                         *)
(* A pool is empty or has one leaf.  One tile file for each tree size      *)
(* stands for the tiles a pool writes, one file for the record hashes (and *)
(* the dedupe records, which are kept alike), one for the issuers.  The    *)
(* checkpoint is left out: it is written behind the tree head in the same  *)
(* way, and no process reads it.                                           *)
(***************************************************************************)
EXTENDS Integers, Sequences

CONSTANTS
    MaxSize,  \* bound: leaves of the log
    MaxRuns   \* bound: starts of the process

ASSUME FsStorageAssumption == MaxSize \in Nat /\ MaxRuns \in Nat

Sth == <<"get-sth", 0>>
Issuer == <<"issuer", 0>>
Hashes == <<"hashes", 0>>
Tile(n) == <<"tile", n>>
File == {Sth, Issuer, Hashes} \cup {Tile(n) : n \in 1 .. MaxSize}

Leaf == [index : 0 .. MaxSize - 1, run : 1 .. MaxRuns]

VARIABLES
    shape,    \* disk: each file is absent, empty, short or whole
    says,     \* disk: the leaves that the tree head or a tile, if it is whole, is of
    records,  \* disk: the leaves that the file of record hashes has
    dirs,     \* disk: the files whose directory exists
    pc,       \* where the process is
    run,      \* its number
    tree,     \* the leaves its edge tiles stand for
    pool,     \* the leaves it publishes
    mem,      \* the record hashes it has in memory
    todo,     \* the files it still has to write before it goes on
    opened,   \* those of them that are truncated and not yet written
    scts,     \* the leaves an SCT was given for (history)
    torn,     \* the files a process left when it stopped (history)
    reset     \* an empty get-sth was replaced by {} (history)

disk == <<shape, says, records, dirs>>
vars == <<disk, pc, run, tree, pool, mem, todo, opened, scts, torn, reset>>

Init ==
    /\ shape = [k \in File |-> "absent"]
    /\ says = [k \in File |-> <<>>]
    /\ records = {}
    /\ dirs = {Sth}
    /\ pc = "down" /\ run = 0
    /\ tree = <<>> /\ pool = {} /\ mem = {} /\ todo = {} /\ opened = {}
    /\ scts = {} /\ torn = {} /\ reset = FALSE

-----------------------------------------------------------------------------
\* FsStorage.Set

\* The first write into a directory fails; it is made and the write tried again.
MkdirAll(k) ==
    /\ k \in todo \ dirs
    /\ dirs' = dirs \cup {k}
    /\ UNCHANGED <<shape, says, records, pc, run, tree, pool, mem, todo, opened, scts, torn, reset>>

\* os.WriteFile truncates the file.
OpenFile(k) ==
    /\ k \in (todo \cap dirs) \ opened
    /\ shape' = [shape EXCEPT ![k] = "empty"]
    /\ says' = [says EXCEPT ![k] = <<>>]
    /\ records' = IF k = Hashes THEN {} ELSE records
    /\ opened' = opened \cup {k}
    /\ UNCHANGED <<dirs, pc, run, tree, pool, mem, todo, scts, torn, reset>>

\* It writes some of the data, which may be where it ends ...
WriteSome(k) ==
    /\ k \in opened
    /\ shape' = [shape EXCEPT ![k] = "short"]
    /\ records' \in IF k = Hashes THEN SUBSET mem ELSE {records}
    /\ UNCHANGED <<says, dirs, pc, run, tree, pool, mem, todo, opened, scts, torn, reset>>

\* ... or all of it.
WriteAll(k) ==
    /\ k \in opened
    /\ shape' = [shape EXCEPT ![k] = "whole"]
    /\ says' = [says EXCEPT ![k] = tree]
    /\ records' = IF k = Hashes THEN mem ELSE records
    /\ todo' = todo \ {k} /\ opened' = opened \ {k}
    /\ UNCHANGED <<dirs, pc, run, tree, pool, mem, scts, torn, reset>>

-----------------------------------------------------------------------------
\* stageTwo

\* An issuer is not written if it exists, whatever is in the file.
IssuerTodo == IF shape[Issuer] = "absent" THEN {Issuer} ELSE {}

\* A pool with a leaf: tiles, record hashes and issuers, in parallel.  What the
\* file of record hashes has is taken as it is.
TakePool ==
    /\ pc = "ready" /\ Len(tree) < MaxSize
    /\ LET leaf == [index |-> Len(tree), run |-> run]
       IN  tree' = Append(tree, leaf) /\ pool' = {leaf} /\ mem' = records \cup {leaf}
    /\ todo' = {Tile(Len(tree) + 1), Hashes} \cup IssuerTodo
    /\ pc' = "upload"
    /\ UNCHANGED <<disk, run, opened, scts, torn, reset>>

\* The timer closes a pool without leaves: the tree head is written again.
TakeEmptyPool ==
    /\ pc = "ready"
    /\ todo' = {Sth} /\ pc' = "head"
    /\ UNCHANGED <<disk, run, tree, pool, mem, opened, scts, torn, reset>>

\* Mutation: the tree head is not held back until the uploads have ended.
UploadsStarted ==
    /\ pc = "upload"
    /\ todo' = todo \cup {Sth} /\ pc' = "head"
    /\ UNCHANGED <<disk, run, tree, pool, mem, opened, scts, torn, reset>>
\* Or it is written as soon as one of them has.
UploadsAbandoned ==
    /\ pc = "upload"
    /\ todo' = {Sth} /\ pc' = "head"
    /\ UNCHANGED <<disk, run, tree, pool, mem, opened, scts, torn, reset>>
UploadsDone ==
    /\ pc = "upload" /\ todo = {}
    /\ todo' = {Sth} /\ pc' = "head"
    /\ UNCHANGED <<disk, run, tree, pool, mem, opened, scts, torn, reset>>

Answer ==
    /\ pc = "head" /\ todo = {}
    /\ scts' = scts \cup pool
    /\ pool' = {} /\ pc' = "ready"
    /\ UNCHANGED <<disk, run, tree, mem, todo, opened, torn, reset>>

-----------------------------------------------------------------------------
\* Stops and starts

\* A write fails, or the process dies.
Stop ==
    /\ pc \in {"load", "ready", "upload", "head"}
    /\ pc' = "down"
    /\ torn' = torn \cup opened
    /\ tree' = <<>> /\ pool' = {} /\ mem' = {} /\ todo' = {} /\ opened' = {}
    /\ UNCHANGED <<disk, run, scts, reset>>

Supervisor ==
    /\ pc = "down" /\ run < MaxRuns
    /\ pc' = "load" /\ run' = run + 1
    /\ UNCHANGED <<disk, tree, pool, mem, todo, opened, scts, torn, reset>>

\* `test -s` is false of a missing and of an empty file.
NoHead == shape[Sth] \in {"absent", "empty"}
EntryPoint ==
    /\ pc = "down" /\ run < MaxRuns
    /\ shape' = IF NoHead THEN [shape EXCEPT ![Sth] = "whole"] ELSE shape
    /\ says' = IF NoHead THEN [says EXCEPT ![Sth] = <<>>] ELSE says
    /\ reset' = (reset \/ shape[Sth] = "empty")
    /\ pc' = "load" /\ run' = run + 1
    /\ UNCHANGED <<records, dirs, tree, pool, mem, todo, opened, scts, torn>>

\* The tiles of the tree head are there and verify against it.
Verified(head) ==
    head # <<>> => shape[Tile(Len(head))] = "whole" /\ says[Tile(Len(head))] = head

\* Mutation: the error of the JSON decoder is not looked at.
LoadsUnparsed == shape[Sth] # "absent" /\ Verified(says[Sth])
Loads == shape[Sth] = "whole" /\ Verified(says[Sth])

LoadLog ==
    /\ pc = "load"
    /\ \/ Loads /\ pc' = "ready" /\ tree' = says[Sth]
       \/ ~Loads /\ pc' = "down" /\ tree' = tree
    /\ UNCHANGED <<disk, run, pool, mem, todo, opened, scts, torn, reset>>

Next ==
    \/ \E k \in File : MkdirAll(k) \/ OpenFile(k) \/ WriteSome(k) \/ WriteAll(k)
    \/ TakePool \/ TakeEmptyPool \/ UploadsDone \/ Answer
    \/ Stop \/ Supervisor \/ EntryPoint \/ LoadLog

Spec == Init /\ [][Next]_vars

-----------------------------------------------------------------------------
\* Properties

Shape == {"absent", "empty", "short", "whole"}

\* Types; no file is truncated but those the process has to write.
TypeOK ==
    /\ shape \in [File -> Shape] /\ says \in [File -> Seq(Leaf)]
    /\ \A k \in File : Len(says[k]) <= MaxSize
    /\ records \subseteq Leaf /\ mem \subseteq Leaf
    /\ pool \subseteq Leaf /\ scts \subseteq Leaf
    /\ dirs \subseteq File /\ opened \subseteq todo /\ todo \subseteq File
    /\ torn \subseteq File
    /\ pc \in {"down", "load", "ready", "upload", "head"}
    /\ run \in 0 .. MaxRuns /\ reset \in BOOLEAN
    /\ tree \in Seq(Leaf) /\ Len(tree) <= MaxSize

Has(head, leaf) == leaf.index < Len(head) /\ head[leaf.index + 1] = leaf

\* Every SCT is of a leaf of the tree head that is on disk: the merge delay is zero
\* also for who stops and starts.
SctIncluded ==
    shape[Sth] = "whole" => \A leaf \in scts : Has(says[Sth], leaf)

\* Only one thing takes the leaf of an SCT out of the log: a process has stopped
\* between truncating and writing get-sth, and the container was started again.
\* The supervisor alone, a short file or a torn tile never do.
LostByResetOnly == SctIncluded \/ (reset /\ Sth \in torn)

\* A tree head that is whole can be loaded again, and what it covers has its record
\* hash and its issuers: unless a process stopped while it wrote that very file, or
\* is writing it.  (Nothing mends such a file: an issuer that exists is not written
\* again, the records of a short file are taken for all.)
Serves(head) ==
    /\ Verified(head)
    /\ \A i \in 1 .. Len(head) :
          /\ head[i] \in records \/ Hashes \in torn \cup opened
          /\ shape[Issuer] = "whole" \/ Issuer \in torn
ServedUnlessTorn == shape[Sth] = "whole" => Serves(says[Sth])

-----------------------------------------------------------------------------
\* The inductive invariant.

\* The process between two steps: what it has done for the tree head to come.
UploadsFor(head) ==
    /\ Tile(Len(head)) \in todo \/ Verified(head)
    /\ \A i \in 1 .. Len(head) :
          /\ head[i] \in mem \/ Hashes \in torn
          /\ Hashes \in todo \/ head[i] \in records \/ Hashes \in torn
    /\ Issuer \in todo \/ shape[Issuer] = "whole" \/ Issuer \in torn
Extends(log, head) ==
    Len(log) = Len(head) + 1 /\ \A i \in 1 .. Len(head) : log[i] = head[i]

Phase ==
    /\ pc \in {"down", "load"} => tree = <<>> /\ pool = {} /\ todo = {}
    /\ pc = "ready" =>
          shape[Sth] = "whole" /\ says[Sth] = tree /\ pool = {} /\ todo = {}
    /\ pc = "upload" =>
          /\ shape[Sth] = "whole" /\ Extends(tree, says[Sth])
          /\ todo \subseteq {Tile(Len(tree)), Hashes, Issuer}
          /\ UploadsFor(tree)
          /\ Issuer \in todo => says[Sth] = <<>> \/ Issuer \in torn
    /\ pc = "head" =>
          /\ todo \subseteq {Sth} /\ Serves(tree)
          /\ todo = {} => shape[Sth] = "whole" /\ says[Sth] = tree

\* Where the SCTs are while get-sth is written.
SctsKept ==
    \/ reset /\ Sth \in torn
    \/ /\ pc \in {"ready", "upload", "head"} => \A leaf \in scts : Has(tree, leaf)
       /\ shape[Sth] = "absent" => scts = {}
       /\ SctIncluded

RunStarted == pc # "down" => run > 0

IInv ==
    /\ RunStarted
    /\ TypeOK /\ Phase /\ SctsKept /\ ServedUnlessTorn
    /\ \A leaf \in pool : Has(tree, leaf)
    /\ \A k \in {Sth, Issuer} : shape[k] \in {"empty", "short"} => k \in torn \cup opened
=============================================================================
