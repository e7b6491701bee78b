------------------------------ MODULE Records ------------------------------
(***************************************************************************)
(* The files below int/hashes/ and int/dedupe/.  A file holds the records  *)
(* of every hash with one prefix, sorted by hash; a pool's records are     *)
(* merged into the files by reading them, inserting the records in memory  *)
(* one after the other and writing the files back in parallel.  There is   *)
(* no other protection against a lost update than that only stageTwo does  *)
(* this, one pool after the other.                                         *)
(*                                                                         *)
(* PutRecordHashes and PutDedupeEntries are the same procedure on records  *)
(* of 21 and 29 bytes; the index stands for what follows the hash.  A hash *)
(* is a number, compared as its bytes are.                                 *)
(***************************************************************************)
EXTENDS Integers, RecordLists

CONSTANTS
    Hash,        \* the 16-byte hashes
    PrefixSize,  \* how many hashes share a prefix
    IndexLimit,  \* the indices that fit in a record (2^40)
    MaxIndex,    \* bound: indices
    MaxPool,     \* bound: records in a pool
    MaxRestarts  \* bound: restarts after an error or a crash

ASSUME RecordsAssumption ==
    /\ Hash \subseteq Nat
    /\ PrefixSize \in Nat \ {0}
    /\ IndexLimit \in Nat /\ MaxIndex \in Nat /\ MaxPool \in Nat
    /\ MaxRestarts \in Nat
    /\ MaxIndex <= IndexLimit

VARIABLES
    files,     \* bucket: the records of every path, none if there is no file
    pc,        \* where stageTwo is in the procedure, "down" after an error
    pool,      \* the records to put
    todo,      \* those that are not inserted yet
    f,         \* the files in memory, by path, as far as they are read
    unwritten, \* the paths that are not written back yet
    next,      \* the next leaf index
    restarts,  \* how often a process was started again
    done       \* the records of calls that returned without an error (history)

vars == <<files, pc, pool, todo, f, unwritten, next, restarts, done>>

Record == [hash : Hash, index : 0 .. MaxIndex - 1]

-----------------------------------------------------------------------------
\* KAnonHashPath: the first digits of the hash.
KAnonHashPath(h) == h \div PrefixSize
Path == {KAnonHashPath(h) : h \in Hash}

\* A record as its bytes keep it, and read again: the lower 40 bits of the index.
\* Mutation: a byte less of it.
ToBytesShort(r) == [hash |-> r.hash, index |-> r.index % (IndexLimit \div 2)]
ToBytes(r) == [hash |-> r.hash, index |-> r.index % IndexLimit]

Init ==
    /\ files = [p \in Path |-> <<>>]
    /\ pc = "idle"
    /\ pool = <<>> /\ todo = <<>> /\ f = <<>> /\ unwritten = {}
    /\ next = 0 /\ restarts = 0 /\ done = {}

\* stageTwo hands over the records of a pool, with consecutive indices.
Call ==
    /\ pc = "idle"
    /\ \E n \in 1 .. MaxPool : \E hs \in [1 .. n -> Hash] :
         /\ next + n <= MaxIndex
         /\ pool' = [i \in 1 .. n |-> [hash |-> hs[i], index |-> next + i - 1]]
         /\ next' = next + n
    /\ todo' = pool'
    /\ f' = <<>>
    /\ unwritten' = {KAnonHashPath(pool'[i].hash) : i \in DOMAIN pool'}
    /\ pc' = "get"
    /\ UNCHANGED <<files, restarts, done>>

\* The files are read in the order of the records, each once; one that is not
\* found is empty.
UnreadPath(p) ==
    \E i \in DOMAIN pool :
        /\ p = KAnonHashPath(pool[i].hash) /\ p \notin DOMAIN f
        /\ \A j \in 1 .. i - 1 : KAnonHashPath(pool[j].hash) \in DOMAIN f
WithFile(p, rs) == [q \in DOMAIN f \cup {p} |-> IF q = p THEN rs ELSE f[q]]

\* Mutation: any error of the read is taken for a file that does not exist.
GetFileOrEmpty ==
    /\ pc = "get"
    /\ \E p \in Path : UnreadPath(p) /\ (f' = WithFile(p, files[p]) \/ f' = WithFile(p, <<>>))
    /\ UNCHANGED <<files, pc, pool, todo, unwritten, next, restarts, done>>

GetFile ==
    /\ pc = "get"
    /\ \E p \in Path : UnreadPath(p) /\ f' = WithFile(p, files[p])
    /\ UNCHANGED <<files, pc, pool, todo, unwritten, next, restarts, done>>

AllRead ==
    /\ pc = "get"
    /\ unwritten = DOMAIN f
    /\ pc' = "insert"
    /\ UNCHANGED <<files, pool, todo, f, unwritten, next, restarts, done>>

\* The search stops at the first record with a greater hash, or at the end: the
\* new one goes behind the first i records.
\* Mutation: it stops at an equal hash, or does not stop.
InsertIndexUnstable(i, rs, h) ==
    /\ \A j \in 1 .. i : rs[j].hash < h
    /\ i < Len(rs) => h <= rs[i + 1].hash
InsertIndexNoBreak(i, rs, h) ==
    /\ \A j \in i + 2 .. Len(rs) : rs[j].hash <= h
    /\ i < Len(rs) => h < rs[i + 1].hash
InsertIndex(i, rs, h) ==
    /\ \A j \in 1 .. i : rs[j].hash <= h
    /\ i < Len(rs) => h < rs[i + 1].hash

InsertAt(rs, i, r) ==
    [k \in 1 .. Len(rs) + 1 |->
       IF k <= i THEN rs[k] ELSE IF k = i + 1 THEN r ELSE rs[k - 1]]

InsertRecord ==
    /\ pc = "insert" /\ todo # <<>>
    /\ LET r == Head(todo)
           p == KAnonHashPath(r.hash)
       IN  \E i \in 0 .. Len(f[p]) :
             /\ InsertIndex(i, f[p], r.hash)
             /\ f' = [f EXCEPT ![p] = InsertAt(f[p], i, ToBytes(r))]
    /\ todo' = Tail(todo)
    /\ UNCHANGED <<files, pc, pool, unwritten, next, restarts, done>>

\* The files are written in parallel.
PutFile ==
    /\ pc = "insert" /\ todo = <<>>
    /\ \E p \in unwritten :
         /\ files' = [files EXCEPT ![p] = f[p]]
         /\ unwritten' = unwritten \ {p}
    /\ UNCHANGED <<pc, pool, todo, f, next, restarts, done>>

Return ==
    /\ pc = "insert" /\ todo = <<>> /\ unwritten = {}
    /\ pc' = "idle"
    /\ done' = done \cup {pool[i] : i \in DOMAIN pool}
    /\ f' = <<>> /\ pool' = <<>>
    /\ UNCHANGED <<files, todo, unwritten, next, restarts>>

\* An error of a read or of a put ends stageTwo; the process may die at any time.
\* What it had in memory is gone.
Die ==
    /\ pc # "down"
    /\ pc' = "down"
    /\ pool' = <<>> /\ todo' = <<>> /\ f' = <<>> /\ unwritten' = {}
    /\ UNCHANGED <<files, next, restarts, done>>

\* The next process numbers from the tree head, which may be behind the indices of
\* any records: they are put before it, and it may not have been written.
Restart ==
    /\ pc = "down" /\ restarts < MaxRestarts
    /\ pc' = "idle" /\ restarts' = restarts + 1
    /\ next' \in 0 .. next
    /\ UNCHANGED <<files, pool, todo, f, unwritten, done>>

Next == \/ Call \/ GetFile \/ AllRead \/ InsertRecord \/ PutFile \/ Return
        \/ Die \/ Restart

Spec == Init /\ [][Next]_vars

-----------------------------------------------------------------------------
\* GetRecordHash, GetDedupeEntry and the monitor's getIndexForHash read the file
\* from the start: the first record of a hash, if there is one.
IsFirst(rs, i, h) ==
    /\ i \in 1 .. Len(rs) /\ rs[i].hash = h
    /\ \A j \in 1 .. i - 1 : rs[j].hash # h

HasRecord(rs, r) == \E i \in DOMAIN rs : rs[i] = r
Found(rs, h, r) == \E i \in 1 .. Len(rs) : IsFirst(rs, i, h) /\ rs[i] = r

-----------------------------------------------------------------------------
\* Properties

\* Types; a file that is read and not written back is one of the pool's.
TypeOK ==
    /\ files \in [Path -> Seq(Record)]
    /\ pc \in {"idle", "get", "insert", "down"}
    /\ pool \in Seq(Record) /\ todo \in Seq(Record)
    /\ DOMAIN f \subseteq Path /\ f \in [DOMAIN f -> Seq(Record)]
    /\ unwritten \subseteq Path
    /\ next \in 0 .. MaxIndex /\ restarts \in 0 .. MaxRestarts
    /\ done \subseteq Record

Sorted(rs) == \A i \in 1 .. Len(rs) : \A j \in i .. Len(rs) : rs[i].hash <= rs[j].hash
OfPath(rs, p) == \A i \in 1 .. Len(rs) : KAnonHashPath(rs[i].hash) = p

\* Every file is sorted by hash and has only the hashes of its path, whatever
\* pools were merged into it or cut off by a crash.
FilesSorted == \A p \in Path : Sorted(files[p]) /\ OfPath(files[p], p)

\* A record is found for ever once the call that put it has returned: no merge of
\* other hashes into its file, by this process or a later one, loses it.
RecordsKept ==
    \A r \in done : HasRecord(files[KAnonHashPath(r.hash)], r)

\* The record a lookup finds for a hash never changes.
FirstMatchStays ==
    [][\A p \in Path : \A h \in Hash : \A r \in Record :
          Found(files[p], h, r) => Found(files'[p], h, r)]_files

-----------------------------------------------------------------------------
\* The inductive invariant: a file in memory extends the one in the bucket by the
\* pool's records inserted so far.

\* Every record of a file is in another, and lookups find there what they found.
Extends(new, old) ==
    /\ \A i \in DOMAIN old : HasRecord(new, old[i])
    /\ \A h \in Hash : \A r \in Record : Found(old, h, r) => Found(new, h, r)

\* The records before those to do are in memory.
PoolInMemory ==
    /\ Len(todo) <= Len(pool)
    /\ \A k \in 1 .. Len(todo) : todo[k] = pool[Len(pool) - Len(todo) + k]
    /\ \A k \in 1 .. Len(pool) - Len(todo) :
          /\ KAnonHashPath(pool[k].hash) \in DOMAIN f
          /\ HasRecord(f[KAnonHashPath(pool[k].hash)], pool[k])

\* A file in memory is merged from the one in the bucket, until it is that one.
MemoryExtendsFiles ==
    \A p \in DOMAIN f :
        /\ Sorted(f[p]) /\ OfPath(f[p], p)
        /\ IF p \in unwritten THEN Extends(f[p], files[p]) ELSE files[p] = f[p]

Phase ==
    /\ pc \in {"idle", "down"} => pool = <<>> /\ todo = <<>> /\ f = <<>> /\ unwritten = {}
    /\ pc = "get" =>
          /\ todo = pool /\ DOMAIN f \subseteq unwritten
          /\ \A k \in 1 .. Len(pool) : KAnonHashPath(pool[k].hash) \in unwritten
    /\ pc = "insert" =>
          /\ unwritten \subseteq DOMAIN f
          /\ \A k \in 1 .. Len(pool) : KAnonHashPath(pool[k].hash) \in DOMAIN f
          /\ todo # <<>> => unwritten = DOMAIN f

FilesFit ==
    /\ TypeOK /\ FilesSorted /\ RecordsKept
    /\ PoolInMemory /\ MemoryExtendsFiles /\ Phase

\* To every hash, a file in memory is the list of the bucket and then that of the
\* pool's records inserted so far.
ListOf(h, rs) == IndicesOf(h, rs, Len(rs))
ListsMerged ==
    \A h \in Hash :
        LET p == KAnonHashPath(h)
        IN  p \in unwritten \cap DOMAIN f =>
              ListOf(h, f[p]) =
                ListOf(h, files[p]) \o IndicesOf(h, pool, Len(pool) - Len(todo))

IInv == FilesFit /\ ListsMerged

-----------------------------------------------------------------------------
\* To each hash the files are a sequence of its own, which only grows: that other
\* hashes share them cannot be told.
ValuesOf(h) == ListOf(h, files[KAnonHashPath(h)])
Index == INSTANCE RecordIndex WITH
           Group <- Path, GroupOf <- KAnonHashPath, values <- [h \in Hash |-> ValuesOf(h)],
           missing <- unwritten
ImplementsRecordIndex == Index!Spec
=============================================================================
