------------------------------- MODULE Submit -------------------------------
(***************************************************************************)
(* One itko-submit process and the bucket it writes to.  A handler         *)
(* goroutine per request (stageZero) looks the certificate up in the       *)
(* dedupe files and otherwise sends it to stageOne, which numbers entries  *)
(* and closes them into pools; stageTwo publishes one pool at a time and   *)
(* then answers its entries on their return paths.  The process dies on    *)
(* any failure of stageTwo, or at any other moment, and is started again   *)
(* by its supervisor; only the bucket survives.                            *)
(*                                                                         *)
(* The tiles are abstracted here to the sequence of entries they hold      *)
(* (module Tiles has them); certificates, chains and clocks are members of *)
(* small sets.  Record hashes and dedupe files are written one key at a    *)
(* time, the finest grain at which a crash can cut the uploads.            *)
(***************************************************************************)
EXTENDS Naturals, Sequences, FiniteSets, SequencesExt

CONSTANTS
    Request,      \* requests to add-chain and add-pre-chain, one handler each
    Fp,           \* certificate fingerprints
    Body,         \* what a MerkleTreeLeaf says of a certificate
    Issuer,       \* certificates of the chains
    EntryOf,      \* the entry stageZero builds from a request
    Timestamp,    \* readings of the clock
    StageOneCap,  \* capacity of stageOneCommChan (200)
    StageTwoCap,  \* capacity of stageTwoCommChan (2)
    MaxPool,      \* MAX_POOL_SIZE (255)
    FlushInterval \* FLUSH_INTERVAL, in ticks of the clock

UnsequencedEntry == [fp : Fp, body : Body, chain : SUBSET Issuer]

ASSUME SubmitAssumption ==
    /\ EntryOf \in [Request -> UnsequencedEntry]
    /\ StageOneCap \in Nat \ {0}
    /\ StageTwoCap \in Nat \ {0}
    /\ MaxPool \in Nat \ {0}
    /\ FlushInterval \in Nat \ {0}

VARIABLES
    up,          \* whether the process runs and has loaded the log
    pc,          \* where each handler is
    returnPath,  \* the channel of capacity 1 each handler makes
    stageOne,    \* the channel to stageOne, of requests
    sequence,    \* the index stageOne gives next
    pool,        \* the entries stageOne has numbered and not yet handed over
    pc1,         \* whether stageOne selects or is blocked sending its pool
    sinceFlush,  \* ticks since lastFlushTime
    sinceArm,    \* ticks since the select armed its time.After
    stageTwo,    \* the channel to stageTwo, of pools
    pc2,         \* the upload stageTwo does next
    batch,       \* the pool stageTwo works on
    tree,        \* the entries the edge tiles in memory stand for
    treeSize,    \* treeSize of stageTwoData
    dedupeTodo,  \* fingerprints whose dedupe file is still to be written
    sth,         \* bucket: the entries the tree head get-sth covers
    checkpoint,  \* bucket: the entries the checkpoint covers (none at first)
    hashes,      \* bucket: the leaves that int/hashes maps to their index
    issuers,     \* bucket: the certificates under issuer/
    dedupe,      \* bucket: the records of each fingerprint, in file order
    issued       \* the SCTs signed so far, with the request each answers

handlers == <<pc, returnPath, issued>>
timers == <<sinceFlush, sinceArm>>
stage1 == <<sequence, pool, pc1, timers>>
stage2 == <<pc2, batch, tree, treeSize, dedupeTodo>>
front == <<up, handlers, stageOne, stage1>>
process == <<stageOne, stage1, stageTwo, stage2>>
bucket == <<sth, checkpoint, hashes, issuers, dedupe>>
vars == <<up, handlers, process, bucket>>

-----------------------------------------------------------------------------
\* Entries

LogEntry == [cert : UnsequencedEntry, idx : Nat, ts : Timestamp]
Leaf == [body : Body, idx : Nat, ts : Timestamp]
LogEntryWithReturnPath == [entry : LogEntry, returnPath : Request]
DedupeRecord == [idx : Nat, ts : Timestamp]

Sequence(e, i, t) == [cert |-> e, idx |-> i, ts |-> t]

\* What an SCT is signed over and what the tree hashes: no fingerprint, no chain.
MerkleTreeLeaf(e) == [body |-> e.cert.body, idx |-> e.idx, ts |-> e.ts]

Entries(p) == [i \in 1 .. Len(p) |-> p[i].entry]
Leaves(p) == {MerkleTreeLeaf(p[i].entry) : i \in 1 .. Len(p)}
Chains(p) == UNION {p[i].entry.cert.chain : i \in 1 .. Len(p)}
Fps(p) == {p[i].entry.cert.fp : i \in 1 .. Len(p)}

\* The positions of a fingerprint in a pool, in the order of the pool (the set
\* has one member).
PoolOrder(p, f) ==
    LET mine == {i \in 1 .. Len(p) : p[i].entry.cert.fp = f}
    IN  {o \in [1 .. Cardinality(mine) -> mine] :
           \A j, k \in DOMAIN o : j < k => o[j] < o[k]}

ToDedupeRecord(e) == [idx |-> e.idx, ts |-> e.ts]
ToDedupeRecords(p, o) == [k \in DOMAIN o |-> ToDedupeRecord(p[o[k]].entry)]

Sct(r, e) == [req |-> r, leaf |-> MerkleTreeLeaf(e)]

-----------------------------------------------------------------------------
Init ==
    /\ up = FALSE
    /\ pc = [r \in Request |-> "idle"]
    /\ returnPath = [r \in Request |-> <<>>]
    /\ stageOne = <<>> /\ stageTwo = <<>>
    /\ sequence = 0
    /\ pool = <<>> /\ pc1 = "select"
    /\ sinceFlush = 0 /\ sinceArm = 0
    /\ batch = <<>> /\ pc2 = "recv"
    /\ tree = <<>> /\ treeSize = 0
    /\ dedupeTodo = {}
    /\ sth = <<>> /\ checkpoint = <<>>
    /\ hashes = {} /\ issuers = {}
    /\ dedupe = [f \in Fp |-> <<>>]
    /\ issued = {}

\* The tree a new process takes over is the one of the tree head.
LatestTreeFromCheckpoint == checkpoint   \* mutation
LatestTree == sth

\* The process takes everything it knows from the tree head in the bucket.
LoadLog ==
    /\ ~up
    /\ up' = TRUE
    /\ sequence' = Len(LatestTree)
    /\ treeSize' = Len(LatestTree)
    /\ tree' = LatestTree
    /\ UNCHANGED <<handlers, stageOne, pool, pc1, timers, stageTwo, pc2, batch,
                   dedupeTodo, bucket>>

-----------------------------------------------------------------------------
\* stageZero: one handler per request

\* A duplicate is answered from the first record of its dedupe file.
AnswerDuplicate(r) ==
    /\ up /\ pc[r] = "idle"
    /\ dedupe[EntryOf[r].fp] # <<>>
    /\ LET d == Head(dedupe[EntryOf[r].fp])
       IN  issued' = issued \cup {Sct(r, Sequence(EntryOf[r], d.idx, d.ts))}
    /\ pc' = [pc EXCEPT ![r] = "done"]
    /\ UNCHANGED <<up, returnPath, process, bucket>>

\* Without a record, and after any error of the lookup, the entry is new.
MissDuplicate(r) ==
    /\ up /\ pc[r] = "idle"
    /\ pc' = [pc EXCEPT ![r] = "send"]
    /\ UNCHANGED <<up, returnPath, issued, process, bucket>>

\* The send to stageOne blocks while the channel is full; no timer runs yet.
Enqueue(r) ==
    /\ up /\ pc[r] = "send"
    /\ Len(stageOne) < StageOneCap
    /\ stageOne' = Append(stageOne, r)
    /\ pc' = [pc EXCEPT ![r] = "wait"]
    /\ UNCHANGED <<up, returnPath, issued, stage1, stageTwo, stage2, bucket>>

Respond(r) ==
    /\ up /\ pc[r] = "wait"
    /\ returnPath[r] # <<>>
    /\ issued' = issued \cup {Sct(r, Head(returnPath[r]))}
    /\ returnPath' = [returnPath EXCEPT ![r] = Tail(@)]
    /\ pc' = [pc EXCEPT ![r] = "done"]
    /\ UNCHANGED <<up, process, bucket>>

\* After five seconds the answer is 503, whether or not the entry is logged.
Timeout(r) ==
    /\ up /\ pc[r] = "wait"
    /\ pc' = [pc EXCEPT ![r] = "refused"]
    /\ UNCHANGED <<up, returnPath, issued, process, bucket>>

-----------------------------------------------------------------------------
\* stageOne: numbering and pooling

\* Mutation: the entry is numbered without counting on.
NextSequenceStuck == sequence
NextSequence == sequence + 1

\* Whether the pool is full once the received entry is in it.
\* Mutation: the length is taken before the append.
PoolFullLate == Len(pool) >= MaxPool
PoolFull == Len(pool) + 1 >= MaxPool

\* Mutation: the age of the pool is left to the timer.
FlushDueNever == FALSE

\* Whether the last flush is FLUSH_INTERVAL or more ago.
FlushDue == sinceFlush >= FlushInterval

\* The pool goes to stageTwo, and lastFlushTime is taken when it has gone: no
\* age counts while stageOne is blocked.
ClosePool == pc1' = "send" /\ sinceFlush' = 0

\* An entry that is received ends the select, and the next one arms its timer
\* anew.
StageOneReceive ==
    /\ up /\ pc1 = "select" /\ stageOne # <<>>
    /\ \E t \in Timestamp :
         pool' = Append(pool,
                   [entry |-> Sequence(EntryOf[Head(stageOne)], sequence, t),
                    returnPath |-> Head(stageOne)])
    /\ IF PoolFull \/ FlushDue THEN ClosePool
                             ELSE pc1' = "select" /\ UNCHANGED sinceFlush
    /\ sinceArm' = 0
    /\ stageOne' = Tail(stageOne)
    /\ sequence' = NextSequence
    /\ UNCHANGED <<up, handlers, stageTwo, stage2, bucket>>

\* Mutation: nothing is flushed while there is nothing to publish.
StageOneTimerNonEmpty ==
    /\ up /\ pc1 = "select" /\ sinceArm >= FlushInterval /\ pool # <<>>
    /\ ClosePool /\ sinceArm' = 0
    /\ UNCHANGED <<up, handlers, stageOne, sequence, pool, stageTwo, stage2,
                   bucket>>

\* The timer closes the pool even when it is empty.
StageOneTimer ==
    /\ up /\ pc1 = "select" /\ sinceArm >= FlushInterval
    /\ ClosePool /\ sinceArm' = 0
    /\ UNCHANGED <<up, handlers, stageOne, sequence, pool, stageTwo, stage2,
                   bucket>>

\* Mutation: a pool is dropped when the channel is full.
StageOneSendOrDrop ==
    /\ up /\ pc1 = "send"
    /\ stageTwo' = IF Len(stageTwo) < StageTwoCap THEN Append(stageTwo, pool)
                                                  ELSE stageTwo
    /\ pool' = <<>> /\ pc1' = "select"
    /\ UNCHANGED <<up, handlers, stageOne, sequence, timers, stage2, bucket>>

StageOneSend ==
    /\ up /\ pc1 = "send"
    /\ Len(stageTwo) < StageTwoCap
    /\ stageTwo' = Append(stageTwo, pool)
    /\ pool' = <<>> /\ pc1' = "select"
    /\ UNCHANGED <<up, handlers, stageOne, sequence, timers, stage2, bucket>>

\* Time passes for an open pool.  Beyond twice the interval, and beyond it for
\* the timer, an age makes no more difference.
Older(age, bound) == IF age < bound THEN age + 1 ELSE age
Tick ==
    /\ up /\ pc1 = "select"
    /\ sinceFlush' = Older(sinceFlush, 2 * FlushInterval)
    /\ sinceArm' = Older(sinceArm, FlushInterval)
    /\ UNCHANGED <<up, handlers, stageOne, sequence, pool, pc1, stageTwo, stage2,
                   bucket>>

-----------------------------------------------------------------------------
\* stageTwo: publication of one pool

\* The tiles in memory are extended before anything is uploaded.
StageTwoReceive ==
    /\ up /\ pc2 = "recv" /\ stageTwo # <<>>
    /\ batch' = Head(stageTwo)
    /\ stageTwo' = Tail(stageTwo)
    /\ tree' = tree \o Entries(Head(stageTwo))
    /\ pc2' = IF Head(stageTwo) = <<>> THEN "sth" ELSE "upload"
    /\ UNCHANGED <<front, treeSize, dedupeTodo, bucket>>

\* The uploads of one pool run in parallel.
PutRecordHash ==
    /\ up /\ pc2 = "upload"
    /\ \E l \in Leaves(batch) \ hashes : hashes' = hashes \cup {l}
    /\ UNCHANGED <<front, stageTwo, stage2, sth, checkpoint, issuers, dedupe>>

SetIssuer ==
    /\ up /\ pc2 = "upload"
    /\ \E c \in Chains(batch) \ issuers : issuers' = issuers \cup {c}
    /\ UNCHANGED <<front, stageTwo, stage2, sth, checkpoint, hashes, dedupe>>

\* Mutation: the uploads are started and not waited for.
UploadsStarted ==
    /\ up /\ pc2 = "upload"
    /\ pc2' = "sth"
    /\ UNCHANGED <<front, stageTwo, batch, tree, treeSize, dedupeTodo, bucket>>

\* g.Wait() returns once all of them are done.
UploadsDone ==
    /\ up /\ pc2 = "upload"
    /\ Leaves(batch) \subseteq hashes
    /\ Chains(batch) \subseteq issuers
    /\ pc2' = "sth"
    /\ UNCHANGED <<front, stageTwo, batch, tree, treeSize, dedupeTodo, bucket>>

UpdatedTreeSize ==
    IF batch = <<>> THEN treeSize ELSE Last(batch).entry.idx + 1

\* Mutation: an error of the upload is logged and not returned.
SetSthErrorIgnored ==
    /\ up /\ pc2 = "sth"
    /\ UpdatedTreeSize <= Len(tree)
    /\ sth' \in {sth, SubSeq(tree, 1, UpdatedTreeSize)}
    /\ pc2' = "checkpoint"
    /\ UNCHANGED <<front, stageTwo, batch, tree, treeSize, dedupeTodo,
                   checkpoint, hashes, issuers, dedupe>>

\* Mutation: tree head and checkpoint are uploaded in parallel.
SetSthAndCheckpoint ==
    /\ up /\ pc2 = "sth"
    /\ UpdatedTreeSize <= Len(tree)
    /\ \/ /\ sth' = SubSeq(tree, 1, UpdatedTreeSize)
          /\ pc2' = "checkpoint"
          /\ UNCHANGED checkpoint
       \/ /\ checkpoint' = SubSeq(tree, 1, UpdatedTreeSize)
          /\ UNCHANGED <<sth, pc2>>
    /\ UNCHANGED <<front, stageTwo, batch, tree, treeSize, dedupeTodo, hashes,
                   issuers, dedupe>>

\* TreeHash needs the hashes of every leaf below the new size.
SetSth ==
    /\ up /\ pc2 = "sth"
    /\ UpdatedTreeSize <= Len(tree)
    /\ sth' = SubSeq(tree, 1, UpdatedTreeSize)
    /\ pc2' = "checkpoint"
    /\ UNCHANGED <<front, stageTwo, batch, tree, treeSize, dedupeTodo,
                   checkpoint, hashes, issuers, dedupe>>

SetCheckpoint ==
    /\ up /\ pc2 = "checkpoint"
    /\ checkpoint' = SubSeq(tree, 1, UpdatedTreeSize)
    /\ treeSize' = UpdatedTreeSize
    /\ dedupeTodo' = Fps(batch)
    /\ pc2' = "dedupe"
    /\ UNCHANGED <<front, stageTwo, batch, tree, sth, hashes, issuers, dedupe>>

\* Mutation: a new record goes before its equals.
InsertRecordsBefore(old, new) == new \o old

\* A new record goes behind the records of its fingerprint.
InsertRecords(old, new) == old \o new

PutDedupeEntry ==
    /\ up /\ pc2 = "dedupe"
    /\ \E f \in dedupeTodo : \E o \in PoolOrder(batch, f) :
         /\ dedupe' = [dedupe EXCEPT ![f] =
                          InsertRecords(@, ToDedupeRecords(batch, o))]
         /\ dedupeTodo' = dedupeTodo \ {f}
    /\ UNCHANGED <<front, stageTwo, pc2, batch, tree, treeSize, sth,
                   checkpoint, hashes, issuers>>

\* Mutation: the dedupe files are not waited for.
DedupeStarted ==
    /\ up /\ pc2 = "dedupe"
    /\ pc2' = "return"
    /\ UNCHANGED <<front, stageTwo, batch, tree, treeSize, dedupeTodo, bucket>>

DedupeDone ==
    /\ up /\ pc2 = "dedupe" /\ dedupeTodo = {}
    /\ pc2' = "return"
    /\ UNCHANGED <<front, stageTwo, batch, tree, treeSize, dedupeTodo, bucket>>

\* Mutation: an unbuffered return path, a send that waits for its receiver.
ReturnUnbuffered ==
    /\ up /\ pc2 = "return" /\ batch # <<>>
    /\ LET r == Head(batch).returnPath
       IN  /\ pc[r] = "wait" /\ returnPath[r] = <<>>
           /\ returnPath' = [returnPath EXCEPT ![r] = <<Head(batch).entry>>]
    /\ batch' = Tail(batch)
    /\ UNCHANGED <<up, pc, issued, stageOne, stage1, stageTwo, pc2, tree,
                   treeSize, dedupeTodo, bucket>>

\* The answer waits in the channel, also for a handler that has given up.
Return ==
    /\ up /\ pc2 = "return" /\ batch # <<>>
    /\ LET r == Head(batch).returnPath
       IN  /\ returnPath[r] = <<>>
           /\ returnPath' = [returnPath EXCEPT ![r] = <<Head(batch).entry>>]
    /\ batch' = Tail(batch)
    /\ UNCHANGED <<up, pc, issued, stageOne, stage1, stageTwo, pc2, tree,
                   treeSize, dedupeTodo, bucket>>

BatchDone ==
    /\ up /\ pc2 = "return" /\ batch = <<>>
    /\ pc2' = "recv"
    /\ UNCHANGED <<front, stageTwo, batch, tree, treeSize, dedupeTodo, bucket>>

\* Any error ends stageTwo.  An upload that failed may have reached the bucket:
\* that is this action after the upload's own.
Fail ==
    /\ up /\ pc2 \in {"upload", "sth", "checkpoint", "dedupe"}
    /\ pc2' = "exit"
    /\ UNCHANGED <<front, stageTwo, batch, tree, treeSize, dedupeTodo, bucket>>

-----------------------------------------------------------------------------
\* The process ends: memory and open requests are gone, the bucket stays.
Die ==
    /\ up' = FALSE
    /\ pc' = [r \in Request |-> IF pc[r] \in {"send", "wait"}
                                THEN "lost" ELSE pc[r]]
    /\ returnPath' = [r \in Request |-> <<>>]
    /\ stageOne' = <<>> /\ stageTwo' = <<>>
    /\ sequence' = 0
    /\ pool' = <<>> /\ pc1' = "select"
    /\ sinceFlush' = 0 /\ sinceArm' = 0
    /\ batch' = <<>> /\ pc2' = "recv"
    /\ tree' = <<>> /\ treeSize' = 0
    /\ dedupeTodo' = {}
    /\ UNCHANGED <<bucket, issued>>

\* Mutation: stageTwo ends without releasing the lock.
ExitStageOneOnly == up /\ pc1 = "exit" /\ Die

\* A dead stage releases the lock, and the loss of the lock is fatal.
Exit == up /\ pc2 = "exit" /\ Die

Crash == up /\ pc2 # "exit" /\ Die

Next ==
    \/ LoadLog
    \/ \E r \in Request :
         \/ AnswerDuplicate(r) \/ MissDuplicate(r) \/ Enqueue(r)
         \/ Respond(r) \/ Timeout(r)
    \/ StageOneReceive \/ StageOneTimer \/ StageOneSend \/ Tick
    \/ StageTwoReceive \/ PutRecordHash \/ SetIssuer \/ UploadsDone
    \/ SetSth \/ SetCheckpoint \/ PutDedupeEntry \/ DedupeDone
    \/ Return \/ BatchDone \/ Fail
    \/ Exit \/ Crash

Spec == Init /\ [][Next]_vars

\* Goroutines run, time passes and the supervisor restarts the process; clients
\* need not come, and nothing has to fail.  stageOne's select takes one of its
\* ready cases at random, so the timer cannot pass over a waiting entry forever;
\* an entry that is received does take the timer its turn.
Fairness ==
    /\ WF_vars(LoadLog) /\ WF_vars(Exit)
    /\ \A r \in Request : WF_vars(Enqueue(r)) /\ WF_vars(Respond(r))
                          /\ WF_vars(Timeout(r))
    /\ SF_vars(StageOneReceive) /\ WF_vars(StageOneTimer)
    /\ WF_vars(StageOneSend) /\ WF_vars(Tick)
    /\ WF_vars(StageTwoReceive) /\ WF_vars(PutRecordHash) /\ WF_vars(SetIssuer)
    /\ WF_vars(UploadsDone) /\ WF_vars(SetSth) /\ WF_vars(SetCheckpoint)
    /\ WF_vars(PutDedupeEntry) /\ WF_vars(DedupeDone)
    /\ WF_vars(Return) /\ WF_vars(BatchDone)

FairSpec == Spec /\ Fairness

-----------------------------------------------------------------------------
\* Properties

HandlersTypeOK ==
    /\ up \in BOOLEAN
    /\ pc \in [Request -> {"idle", "send", "wait", "done", "refused", "lost"}]
    /\ returnPath \in [Request -> Seq(LogEntry)]
    /\ \A r \in Request : Len(returnPath[r]) <= 1
    /\ issued \subseteq [req : Request, leaf : Leaf]
StageOneTypeOK ==
    /\ stageOne \in Seq(Request) /\ Len(stageOne) <= StageOneCap
    /\ sequence \in Nat
    /\ pool \in Seq(LogEntryWithReturnPath) /\ Len(pool) <= MaxPool
    /\ pc1 \in {"select", "send"} /\ (pc1 = "select" => Len(pool) < MaxPool)
    /\ sinceFlush \in 0 .. 2 * FlushInterval /\ sinceArm \in 0 .. FlushInterval
StageTwoTypeOK ==
    /\ stageTwo \in Seq(Seq(LogEntryWithReturnPath))
    /\ Len(stageTwo) <= StageTwoCap
    /\ pc2 \in {"recv", "upload", "sth", "checkpoint", "dedupe", "return",
                "exit"}
    /\ batch \in Seq(LogEntryWithReturnPath)
    /\ tree \in Seq(LogEntry) /\ treeSize \in Nat
    /\ dedupeTodo \subseteq Fp
BucketTypeOK ==
    /\ sth \in Seq(LogEntry) /\ checkpoint \in Seq(LogEntry)
    /\ hashes \subseteq Leaf /\ issuers \subseteq Issuer
    /\ dedupe \in [Fp -> Seq(DedupeRecord)]

\* Every variable has its type; the channels and the pool keep their limits.
TypeOK == HandlersTypeOK /\ StageOneTypeOK /\ StageTwoTypeOK /\ BucketTypeOK

\* A certificate fingerprint fixes what is logged.  It does for certificates;
\* a precertificate's leaf also takes the issuer key of the submitted chain.
FpDeterminesBody ==
    \A r, s \in Request : EntryOf[r].fp = EntryOf[s].fp
                           => EntryOf[r].body = EntryOf[s].body

\* An SCT, answered from the pool or from a dedupe record, across crashes, is
\* signed over the very leaf that the published tree head has at that index,
\* and that leaf is of the certificate that was submitted (zero MMD).
SctIncluded ==
    \A s \in issued :
        /\ s.leaf.idx < Len(sth)
        /\ s.leaf = MerkleTreeLeaf(sth[s.leaf.idx + 1])
        /\ s.leaf.body = EntryOf[s.req].body

\* What get-proof-by-hash and the chains of get-entries need is in the bucket
\* before the tree head covers the leaf, whatever upload failed or was cut off.
PublishedIsServed ==
    \A i \in 1 .. Len(sth) :
        /\ MerkleTreeLeaf(sth[i]) \in hashes
        /\ sth[i].cert.chain \subseteq issuers

\* The two signed tree heads never disagree: the checkpoint, written second,
\* covers a prefix of what get-sth covers.
CheckpointBehindSth == IsPrefix(checkpoint, sth)

\* A dedupe record points at a published leaf of its certificate: an SCT
\* answered from it promises nothing new.
DedupeRefersToTree ==
    \A f \in Fp : \A k \in 1 .. Len(dedupe[f]) :
        LET d == dedupe[f][k]
        IN  /\ d.idx < Len(sth)
            /\ sth[d.idx + 1].cert.fp = f
            /\ sth[d.idx + 1].ts = d.ts

\* Once a client holds an SCT, a resubmission finds a record whatever crashes
\* in between: the dedupe files are written before the answers are given.
AnsweredIsDeduped == \A s \in issued : dedupe[EntryOf[s.req].fp] # <<>>

\* The answer to a duplicate never changes, although the race of two copies
\* leaves several records for one certificate.
DedupeStable ==
    [][\A f \in Fp : dedupe[f] # <<>>
          => dedupe'[f] # <<>> /\ Head(dedupe'[f]) = Head(dedupe[f])]_vars

\* The tree head in the bucket only ever grows, by any process, across restarts.
SthAppendOnly == [][IsPrefix(sth, sth')]_vars

\* The bucket and the SCTs behave as a log with a zero merge delay.
Promised == {s.leaf : s \in issued}
Published == [i \in 1 .. Len(sth) |-> MerkleTreeLeaf(sth[i])]
Abstract == INSTANCE CTLog WITH log <- Published, promised <- Promised
ImplementsCTLog == Abstract!Spec

\* No entry waits in the open pool for two intervals, although every entry that
\* comes arms the timer anew: while the timer is not due, the last flush is less
\* than an interval and the age of the timer ago.
OpenPoolIsFlushedInTime ==
    pc1 = "select" /\ pool # <<>> /\ sinceArm < FlushInterval
        => sinceFlush < FlushInterval + sinceArm

\* The inductive invariant behind the safety properties, part by part.

\* A process that is down has no memory.
DownIsEmpty ==
    ~up => /\ stageOne = <<>> /\ pool = <<>> /\ stageTwo = <<>>
           /\ batch = <<>> /\ pc2 = "recv"
           /\ \A r \in Request : returnPath[r] = <<>>

\* What the tiles in memory stand for, relative to the tree head.
Running == up /\ pc2 # "exit"
TreeIsTreeHead ==
    Running => tree = IF pc2 \in {"upload", "sth"} THEN sth \o Entries(batch)
                                                 ELSE sth
TreeSizeIsTreeHead ==
    Running => /\ pc2 # "checkpoint" => treeSize = Len(sth)
               /\ pc2 = "checkpoint" => UpdatedTreeSize = Len(sth)
               /\ pc2 = "recv" => batch = <<>>
               /\ pc2 = "upload" => batch # <<>>

\* Leaf indices are positions, in memory and in the bucket.
Indexed(t) == \A i \in 1 .. Len(t) : t[i].idx = i - 1
IndexIsPosition == Indexed(sth) /\ (Running => Indexed(tree))

\* A pool's entries continue a tree of a given size.
Continues(p, size) == \A j \in 1 .. Len(p) : p[j].entry.idx = size + j - 1

\* Closed pools and the open one behind them continue a tree of a given size up
\* to the next index, without a gap: off[p] is the size before pool p.
Contiguous(off, pools, open, size, next) ==
    /\ off[1] = size
    /\ \A p \in 1 .. Len(pools) : /\ off[p + 1] = off[p] + Len(pools[p])
                                 /\ Continues(pools[p], off[p])
    /\ off[Len(pools) + 1] + Len(open) = next
    /\ Continues(open, off[Len(pools) + 1])

\* The pools on their way to stageTwo continue the tiles in memory.
PoolsContinueTree ==
    Running => \E off \in [1 .. Len(stageTwo) + 1 -> 0 .. sequence] :
                  Contiguous(off, stageTwo, pool, Len(tree), sequence)

\* An entry is the submission of the handler its return path leads to.
Routed(p) == \A i \in 1 .. Len(p) : p[i].entry.cert = EntryOf[p[i].returnPath]
PoolsRouted ==
    /\ Routed(pool) /\ Routed(batch)
    /\ \A p \in 1 .. Len(stageTwo) : Routed(stageTwo[p])
Submitted(t) == \A i \in 1 .. Len(t) : \E r \in Request : t[i].cert = EntryOf[r]
TreeSubmitted == Submitted(sth) /\ (Running => Submitted(tree))

\* An entry that a tree holds at its index.
InTree(e, t) == e.idx < Len(t) /\ t[e.idx + 1] = e
PublishedBatch ==
    pc2 \in {"checkpoint", "dedupe", "return"}
        => \A i \in 1 .. Len(batch) : InTree(batch[i].entry, sth)
AnswersPublished ==
    \A r \in Request : \A i \in 1 .. Len(returnPath[r]) :
        InTree(returnPath[r][i], sth) /\ returnPath[r][i].cert = EntryOf[r]

UploadsPrecedeTreeHead ==
    pc2 = "sth" => Leaves(batch) \subseteq hashes /\ Chains(batch) \subseteq issuers

\* A pool's certificates have their dedupe records before its answers are given.
HasRecord(i) == dedupe[batch[i].entry.cert.fp] # <<>>
BatchDeduped ==
    /\ pc2 = "dedupe" =>
          /\ dedupeTodo \subseteq Fps(batch)
          /\ \A i \in 1 .. Len(batch) :
                batch[i].entry.cert.fp \in dedupeTodo \/ HasRecord(i)
    /\ pc2 = "return" => \A i \in 1 .. Len(batch) : HasRecord(i)
AnswersDeduped ==
    \A r \in Request : returnPath[r] # <<>> => dedupe[EntryOf[r].fp] # <<>>

\* All parts together: what the proofs carry from step to step.
IInv ==
    /\ TypeOK
    /\ DownIsEmpty /\ TreeIsTreeHead /\ TreeSizeIsTreeHead
    /\ IndexIsPosition /\ PoolsContinueTree /\ OpenPoolIsFlushedInTime
    /\ PoolsRouted /\ TreeSubmitted /\ PublishedBatch /\ AnswersPublished
    /\ UploadsPrecedeTreeHead /\ PublishedIsServed
    /\ CheckpointBehindSth /\ DedupeRefersToTree
    /\ BatchDeduped /\ AnswersDeduped /\ AnsweredIsDeduped
    /\ FpDeterminesBody => SctIncluded

\* Two SCTs for one index are the same SCT, as the deterministic signature of
\* a duplicate's SCT is meant to make them.
DuplicateSctIdentical ==
    \A s, t \in issued : s.leaf.idx = t.leaf.idx => s.leaf = t.leaf

\* A handler that waits to send or to be answered comes to an end: neither the
\* full channel nor a dead stageTwo holds it forever.
HandlersEnd ==
    \A r \in Request : pc[r] \in {"send", "wait"}
                         ~> pc[r] \in {"done", "refused", "lost"}

\* stageTwo gets through every pool, or the process ends: no handler that has
\* given up can block its answers.
PoolsEnd == pc2 # "recv" ~> (pc2 = "recv" \/ ~up)

\* Every numbered entry is published at its index with its timestamp, or the
\* process dies with it.  No request is numbered twice, so an index is less than
\* the number of requests.
NumberedEntry ==
    {Sequence(EntryOf[r], n, t) :
        r \in Request, n \in 0 .. Cardinality(Request) - 1, t \in Timestamp}
SequencedIsPublished ==
    \A e \in NumberedEntry :
        (\E i \in 1 .. Len(pool) : pool[i].entry = e) ~> (~up \/ InTree(e, sth))

\* A process that keeps running brings the checkpoint up to the tree head, even
\* if its predecessor died between the two and nobody submits any more.
CheckpointCatchesUp == <>[]up => []<>(checkpoint = sth)
=============================================================================
