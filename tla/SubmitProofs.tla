---------------------------- MODULE SubmitProofs ----------------------------
(***************************************************************************)
(* Proofs about Submit, for any requests, entries, clocks and capacities.  *)
(***************************************************************************)
EXTENDS Submit, SequenceTheorems, FiniteSetTheorems, TLAPS

USE SubmitAssumption

-----------------------------------------------------------------------------
\* Lemmas about the operators of the model

\* Sequence makes a log entry of what a request submits.
LEMMA SequenceType ==
    ASSUME NEW r \in Request, NEW i \in Nat, NEW t \in Timestamp
    PROVE  Sequence(EntryOf[r], i, t) \in LogEntry
BY DEF Sequence, LogEntry

LEMMA MerkleTreeLeafType ==
    ASSUME NEW e \in LogEntry
    PROVE  MerkleTreeLeaf(e) \in Leaf
BY DEF MerkleTreeLeaf, Leaf, LogEntry, UnsequencedEntry

\* The entries of a pool, its fingerprints, leaves and chains.
LEMMA PoolTypes ==
    ASSUME NEW p \in Seq(LogEntryWithReturnPath)
    PROVE  /\ Entries(p) \in Seq(LogEntry)
           /\ Len(Entries(p)) = Len(p)
           /\ \A i \in 1 .. Len(p) : Entries(p)[i] = p[i].entry
           /\ Fps(p) \subseteq Fp
           /\ Leaves(p) \subseteq Leaf
           /\ Chains(p) \subseteq Issuer
<1>1. \A i \in 1 .. Len(p) : p[i].entry \in LogEntry
  <2>1. \A i \in 1 .. Len(p) : p[i] \in LogEntryWithReturnPath
    BY ElementOfSeq
  <2> QED BY <2>1 DEF LogEntryWithReturnPath
<1>2. Entries(p) \in [1 .. Len(p) -> LogEntry] /\ Len(p) \in Nat
  BY <1>1 DEF Entries
<1>3. Entries(p) \in Seq(LogEntry) /\ Len(Entries(p)) = Len(p)
  BY <1>2, IsASeq
<1>4. Leaves(p) \subseteq Leaf
  BY <1>1, MerkleTreeLeafType DEF Leaves
<1>5. Fps(p) \subseteq Fp
  BY <1>1 DEF Fps, LogEntry, UnsequencedEntry
<1>6. Chains(p) \subseteq Issuer
  BY <1>1 DEF Chains, LogEntry, UnsequencedEntry
<1> QED BY <1>2, <1>3, <1>4, <1>5, <1>6 DEF Entries

\* The records a dedupe file gets are records of entries of the pool.
LEMMA NewDedupeRecords ==
    ASSUME NEW p \in Seq(LogEntryWithReturnPath), NEW f, NEW o \in PoolOrder(p, f)
    PROVE  /\ ToDedupeRecords(p, o) \in Seq(DedupeRecord)
           /\ \A k \in 1 .. Len(ToDedupeRecords(p, o)) : \E i \in 1 .. Len(p) :
                /\ p[i].entry.cert.fp = f
                /\ ToDedupeRecords(p, o)[k] = ToDedupeRecord(p[i].entry)
<1> DEFINE new == ToDedupeRecords(p, o)
<1> DEFINE mine == {i \in 1 .. Len(p) : p[i].entry.cert.fp = f}
<1> DEFINE n == Cardinality(mine)
<1>1. IsFiniteSet(mine) /\ n \in Nat
  <2>1. IsFiniteSet(1 .. Len(p))
    BY FS_Interval, LenProperties
  <2> QED BY <2>1, FS_Subset, FS_CardinalityType
<1>2. o \in [1 .. n -> mine]
  BY DEF PoolOrder
<1>3. \A i \in mine : ToDedupeRecord(p[i].entry) \in DedupeRecord
  <2>1. \A i \in 1 .. Len(p) : p[i] \in LogEntryWithReturnPath
    BY ElementOfSeq
  <2> QED BY <2>1 DEF ToDedupeRecord, DedupeRecord, LogEntryWithReturnPath, LogEntry
<1> HIDE DEF mine, n
<1>4. new \in [1 .. n -> DedupeRecord]
  BY <1>2, <1>3 DEF ToDedupeRecords
<1>5. new \in Seq(DedupeRecord) /\ Len(new) = n
  BY <1>1, <1>4, IsASeq
<1>6. \A k \in 1 .. n : o[k] \in mine /\ new[k] = ToDedupeRecord(p[o[k]].entry)
  BY <1>2 DEF ToDedupeRecords
<1> QED BY <1>5, <1>6 DEF mine

\* The size of the tree after a batch is a number.
LEMMA UpdatedTreeSizeType ==
    ASSUME TypeOK PROVE UpdatedTreeSize \in Nat
<1>1. CASE batch = <<>>
  BY <1>1 DEF UpdatedTreeSize, TypeOK, StageTwoTypeOK
<1>2. CASE batch # <<>>
  <2>1. batch \in Seq(LogEntryWithReturnPath) /\ Len(batch) \in 1 .. Len(batch)
    BY <1>2, LenProperties, EmptySeq DEF TypeOK, StageTwoTypeOK
  <2>2. Last(batch) \in LogEntryWithReturnPath
    BY <2>1, ElementOfSeq DEF Last
  <2> QED BY <1>2, <2>2 DEF UpdatedTreeSize, LogEntry, LogEntryWithReturnPath
<1> QED BY <1>1, <1>2

-----------------------------------------------------------------------------
\* Type correctness

\* The empty sequence is a value of every sequence variable.
LEMMA EmptySeqs ==
    /\ <<>> \in Seq(LogEntry) /\ <<>> \in Seq(Request)
    /\ <<>> \in Seq(LogEntryWithReturnPath)
    /\ <<>> \in Seq(Seq(LogEntryWithReturnPath))
    /\ <<>> \in Seq(DedupeRecord)
    /\ Len(<<>>) = 0
OBVIOUS

\* What a checkpoint is signed for lies within the tiles in memory.
SizeInTree == pc2 = "checkpoint" => up /\ UpdatedTreeSize <= Len(tree)

LEMMA InitSizeInTree == Init => SizeInTree
BY DEF Init, SizeInTree

LEMMA NextSizeInTree == SizeInTree /\ [Next]_vars => SizeInTree'
<1> SUFFICES ASSUME SizeInTree, [Next]_vars PROVE SizeInTree'
  OBVIOUS
<1> USE DEF handlers, stage1, stage2, front, process, bucket
<1>1. CASE pc2' = "checkpoint" /\ pc2 # "checkpoint"
  <2>1. SetSth
    BY <1>1 DEF Next, LoadLog, AnswerDuplicate, MissDuplicate, Enqueue, Respond,
      Timeout, StageOneReceive, StageOneTimer, Tick, StageOneSend, StageTwoReceive,
      PutRecordHash, SetIssuer, UploadsDone, SetCheckpoint, PutDedupeEntry,
      DedupeDone, Return, BatchDone, Fail, Exit, Crash, Die, vars
  <2> QED BY <2>1 DEF SetSth, SizeInTree, UpdatedTreeSize
<1>2. CASE pc2' = "checkpoint" /\ pc2 = "checkpoint"
  <2>1. UNCHANGED <<up, batch, tree, treeSize>>
    BY <1>2 DEF SizeInTree, Next, LoadLog, AnswerDuplicate, MissDuplicate, Enqueue, Respond,
      Timeout, StageOneReceive, StageOneTimer, Tick, StageOneSend, StageTwoReceive,
      PutRecordHash, SetIssuer, UploadsDone, SetSth, SetCheckpoint,
      PutDedupeEntry, DedupeDone, Return, BatchDone, Fail, Exit, Crash, Die, vars
  <2> QED BY <1>2, <2>1 DEF SizeInTree, UpdatedTreeSize
<1> QED BY <1>1, <1>2 DEF SizeInTree

\* The variables start with their types.
LEMMA InitTypeOK == Init => TypeOK
<1> SUFFICES ASSUME Init PROVE TypeOK
  OBVIOUS
<1>1. HandlersTypeOK
  <2>1. \A r \in Request : returnPath[r] = <<>> /\ Len(returnPath[r]) <= 1
    BY DEF Init
  <2>2. returnPath \in [Request -> Seq(LogEntry)]
    BY EmptySeqs DEF Init
  <2> QED BY <2>1, <2>2 DEF Init, HandlersTypeOK
<1>2. StageOneTypeOK
  BY EmptySeqs DEF Init, StageOneTypeOK
<1>3. StageTwoTypeOK
  BY EmptySeqs DEF Init, StageTwoTypeOK
<1>4. BucketTypeOK
  BY EmptySeqs DEF Init, BucketTypeOK
<1> QED BY <1>1, <1>2, <1>3, <1>4 DEF TypeOK

\* The handlers' state keeps its type.
LEMMA NextHandlersTypeOK == TypeOK /\ [Next]_vars => HandlersTypeOK'
<1> SUFFICES ASSUME TypeOK, [Next]_vars PROVE HandlersTypeOK'
  OBVIOUS
<1> USE DEF handlers, front, HandlersTypeOK
<1>1. ASSUME NEW r \in Request, AnswerDuplicate(r) PROVE HandlersTypeOK'
  <2>1. EntryOf[r].fp \in Fp
    BY DEF UnsequencedEntry
  <2>2. Head(dedupe[EntryOf[r].fp]) \in DedupeRecord
    BY <1>1, <2>1, HeadTailProperties DEF TypeOK, BucketTypeOK, AnswerDuplicate
  <2> DEFINE d == Head(dedupe[EntryOf[r].fp])
  <2>3. Sct(r, Sequence(EntryOf[r], d.idx, d.ts)) \in [req : Request, leaf : Leaf]
    BY <2>2, SequenceType, MerkleTreeLeafType DEF Sct, DedupeRecord
  <2> QED BY <1>1, <2>3 DEF AnswerDuplicate, TypeOK
<1>2. ASSUME NEW r \in Request, MissDuplicate(r) \/ Enqueue(r) \/ Timeout(r)
      PROVE  HandlersTypeOK'
  BY <1>2 DEF MissDuplicate, Enqueue, Timeout, TypeOK
<1>3. ASSUME NEW r \in Request, Respond(r) PROVE HandlersTypeOK'
  <2>1. returnPath[r] \in Seq(LogEntry) /\ returnPath[r] # <<>>
    BY <1>3 DEF Respond, TypeOK
  <2>2. Head(returnPath[r]) \in LogEntry /\ Tail(returnPath[r]) \in Seq(LogEntry)
        /\ Len(Tail(returnPath[r])) = Len(returnPath[r]) - 1
        /\ Len(returnPath[r]) \in Nat
    BY <2>1, HeadTailProperties, LenProperties
  <2>3. Sct(r, Head(returnPath[r])) \in [req : Request, leaf : Leaf]
    BY <2>2, MerkleTreeLeafType DEF Sct
  <2> QED BY <1>3, <2>2, <2>3 DEF Respond, TypeOK
<1>4. CASE Return
  <2>1. batch \in Seq(LogEntryWithReturnPath) /\ batch # <<>>
    BY <1>4 DEF Return, TypeOK, StageTwoTypeOK
  <2>2. Head(batch) \in LogEntryWithReturnPath
    BY <2>1, HeadTailProperties
  <2>3. <<Head(batch).entry>> \in Seq(LogEntry) /\ Len(<<Head(batch).entry>>) = 1
        /\ Head(batch).returnPath \in Request
    BY <2>2 DEF LogEntryWithReturnPath
  <2> QED BY <1>4, <2>3 DEF Return, TypeOK
<1>5. CASE Die
  <2>1. \A r \in Request : returnPath'[r] = <<>> /\ Len(returnPath'[r]) <= 1
    BY <1>5 DEF Die
  <2>2. returnPath' \in [Request -> Seq(LogEntry)]
    BY <1>5, EmptySeqs DEF Die
  <2>3. pc' \in [Request -> {"idle", "send", "wait", "done", "refused", "lost"}]
    BY <1>5 DEF Die, TypeOK
  <2> QED BY <1>5, <2>1, <2>2, <2>3 DEF Die, TypeOK
<1>6. CASE LoadLog
  BY <1>6 DEF LoadLog, TypeOK
<1>7. CASE UNCHANGED <<up, handlers>>
  BY <1>7 DEF TypeOK
<1> QED
  BY <1>1, <1>2, <1>3, <1>4, <1>5, <1>6, <1>7
  DEF Next, StageOneReceive, StageOneTimer, Tick, StageOneSend, StageTwoReceive,
    PutRecordHash, SetIssuer, UploadsDone, SetSth, SetCheckpoint,
    PutDedupeEntry, DedupeDone, BatchDone, Fail, Exit, Crash, vars

\* stageOne's state keeps its type, its channel and its pool their limits.
LEMMA NextStageOneTypeOK == TypeOK /\ [Next]_vars => StageOneTypeOK'
<1> SUFFICES ASSUME TypeOK, [Next]_vars PROVE StageOneTypeOK'
  OBVIOUS
<1> USE DEF stage1, process, front, StageOneTypeOK
<1>1. CASE LoadLog
  <2>1. Len(sth) \in Nat
    BY LenProperties DEF TypeOK, BucketTypeOK
  <2> QED BY <1>1, <2>1 DEF LoadLog, LatestTree, timers, TypeOK
<1>2. ASSUME NEW r \in Request, Enqueue(r) PROVE StageOneTypeOK'
  <2>1. stageOne' \in Seq(Request) /\ Len(stageOne') = Len(stageOne) + 1
        /\ Len(stageOne) \in Nat
    BY <1>2, AppendProperties, LenProperties DEF Enqueue, TypeOK
  <2> QED BY <1>2, <2>1 DEF Enqueue, timers, TypeOK
<1>3. CASE StageOneReceive
  <2>1. stageOne \in Seq(Request) /\ stageOne # <<>>
    BY <1>3 DEF StageOneReceive, TypeOK
  <2>2. Head(stageOne) \in Request /\ Tail(stageOne) \in Seq(Request)
        /\ Len(Tail(stageOne)) = Len(stageOne) - 1 /\ Len(stageOne) \in Nat
    BY <2>1, HeadTailProperties, LenProperties
  <2>3. PICK t \in Timestamp :
           pool' = Append(pool,
                [entry |-> Sequence(EntryOf[Head(stageOne)], sequence, t),
                 returnPath |-> Head(stageOne)])
    BY <1>3 DEF StageOneReceive
  <2>4. /\ pc1' \in {"select", "send"} /\ (pc1' = "select" => ~ PoolFull)
        /\ sinceFlush' \in {0, sinceFlush} /\ sinceArm' = 0
    BY <1>3 DEF StageOneReceive, ClosePool
  <2>5. [entry |-> Sequence(EntryOf[Head(stageOne)], sequence, t),
         returnPath |-> Head(stageOne)] \in LogEntryWithReturnPath
    BY <2>2, SequenceType DEF LogEntryWithReturnPath, TypeOK
  <2>6. pool' \in Seq(LogEntryWithReturnPath) /\ Len(pool') = Len(pool) + 1
        /\ Len(pool) \in Nat
    BY <2>3, <2>5, AppendProperties, LenProperties DEF TypeOK
  <2>7. Len(pool) < MaxPool
    BY <1>3 DEF StageOneReceive, TypeOK
  <2>8. Len(pool') <= MaxPool
        /\ pc1' \in {"select", "send"} /\ (pc1' = "select" => Len(pool') < MaxPool)
    BY <2>4, <2>6, <2>7 DEF PoolFull
  <2>9. stageOne' = Tail(stageOne) /\ sequence' \in Nat
    BY <1>3 DEF StageOneReceive, NextSequence, TypeOK
  <2>10. Len(stageOne') <= StageOneCap
    BY <2>2, <2>9 DEF TypeOK
  <2>11. sinceFlush' \in 0 .. 2 * FlushInterval /\ sinceArm' \in 0 .. FlushInterval
    BY <2>4 DEF TypeOK
  <2> QED BY <2>2, <2>6, <2>8, <2>9, <2>10, <2>11
<1>4. CASE StageOneTimer
  BY <1>4 DEF StageOneTimer, ClosePool, TypeOK
<1>5. CASE StageOneSend
  BY <1>5, EmptySeqs DEF StageOneSend, timers, TypeOK
<1>6. CASE Die
  BY <1>6, EmptySeqs DEF Die, TypeOK
<1>7. CASE UNCHANGED <<stageOne, stage1>>
  BY <1>7 DEF timers, TypeOK
<1>8. CASE Tick
  <2>1. sinceFlush' \in 0 .. 2 * FlushInterval /\ sinceArm' \in 0 .. FlushInterval
    BY <1>8 DEF Tick, Older, TypeOK
  <2> QED BY <1>8, <2>1 DEF Tick, TypeOK
<1> QED
  BY <1>1, <1>2, <1>3, <1>4, <1>5, <1>6, <1>7, <1>8
  DEF Next, AnswerDuplicate, MissDuplicate, Respond, Timeout, StageTwoReceive,
    PutRecordHash, SetIssuer, UploadsDone, SetSth, SetCheckpoint,
    PutDedupeEntry, DedupeDone, Return, BatchDone, Fail, Exit, Crash, vars

\* stageTwo's state keeps its type.
LEMMA NextStageTwoTypeOK == TypeOK /\ [Next]_vars => StageTwoTypeOK'
<1> SUFFICES ASSUME TypeOK, [Next]_vars PROVE StageTwoTypeOK'
  OBVIOUS
<1> USE DEF stage2, process, front, StageTwoTypeOK
<1>1. CASE LoadLog
  <2>1. Len(sth) \in Nat
    BY LenProperties DEF TypeOK, BucketTypeOK
  <2> QED BY <1>1, <2>1 DEF LoadLog, LatestTree, TypeOK, BucketTypeOK
<1>2. CASE StageOneSend
  <2>1. stageTwo' \in Seq(Seq(LogEntryWithReturnPath))
        /\ Len(stageTwo') = Len(stageTwo) + 1 /\ Len(stageTwo) \in Nat
    BY <1>2, AppendProperties, LenProperties
    DEF StageOneSend, TypeOK, StageOneTypeOK
  <2>2. Len(stageTwo') <= StageTwoCap
    BY <1>2, <2>1 DEF StageOneSend, TypeOK
  <2> QED BY <1>2, <2>1, <2>2 DEF StageOneSend, TypeOK
<1>3. CASE StageTwoReceive
  <2>1. stageTwo \in Seq(Seq(LogEntryWithReturnPath)) /\ stageTwo # <<>>
    BY <1>3 DEF StageTwoReceive, TypeOK
  <2>2. /\ Head(stageTwo) \in Seq(LogEntryWithReturnPath)
        /\ Tail(stageTwo) \in Seq(Seq(LogEntryWithReturnPath))
        /\ Len(Tail(stageTwo)) = Len(stageTwo) - 1 /\ Len(stageTwo) \in Nat
    BY <2>1, HeadTailProperties, LenProperties
  <2>3. tree' \in Seq(LogEntry)
    BY <1>3, <2>2, PoolTypes, ConcatProperties DEF StageTwoReceive, TypeOK
  <2>4. Len(stageTwo') <= StageTwoCap
    BY <1>3, <2>2 DEF StageTwoReceive, TypeOK
  <2>5. pc2' \in {"sth", "upload"} /\ batch' = Head(stageTwo)
        /\ stageTwo' = Tail(stageTwo) /\ UNCHANGED <<treeSize, dedupeTodo>>
    BY <1>3 DEF StageTwoReceive
  <2> QED BY <2>2, <2>3, <2>4, <2>5 DEF TypeOK
<1>4. CASE UploadsDone \/ SetSth \/ DedupeDone \/ BatchDone \/ Fail
  BY <1>4 DEF UploadsDone, SetSth, DedupeDone, BatchDone, Fail, TypeOK
<1>5. CASE SetCheckpoint
  <2>1. Fps(batch) \subseteq Fp
    BY PoolTypes DEF TypeOK
  <2> QED BY <1>5, <2>1, UpdatedTreeSizeType DEF SetCheckpoint, TypeOK
<1>6. CASE PutDedupeEntry
  BY <1>6 DEF PutDedupeEntry, TypeOK
<1>7. CASE Return
  <2>1. batch \in Seq(LogEntryWithReturnPath) /\ batch # <<>>
    BY <1>7 DEF Return, TypeOK
  <2>2. Tail(batch) \in Seq(LogEntryWithReturnPath)
    BY <2>1, HeadTailProperties
  <2> QED BY <1>7, <2>2 DEF Return, TypeOK
<1>8. CASE Die
  BY <1>8, EmptySeqs DEF Die, TypeOK
<1>9. CASE UNCHANGED <<stageTwo, stage2>>
  BY <1>9 DEF TypeOK
<1> QED
  BY <1>1, <1>2, <1>3, <1>4, <1>5, <1>6, <1>7, <1>8, <1>9
  DEF Next, AnswerDuplicate, MissDuplicate, Enqueue, Respond, Timeout,
    StageOneReceive, StageOneTimer, Tick, PutRecordHash, SetIssuer, Exit, Crash, vars

\* The bucket keeps its type.
LEMMA NextBucketTypeOK == TypeOK /\ SizeInTree /\ [Next]_vars => BucketTypeOK'
<1> SUFFICES ASSUME TypeOK, SizeInTree, [Next]_vars PROVE BucketTypeOK'
  OBVIOUS
<1> USE DEF bucket, BucketTypeOK
<1>1. CASE PutRecordHash
  BY <1>1, PoolTypes DEF PutRecordHash, TypeOK, StageTwoTypeOK
<1>2. CASE SetIssuer
  BY <1>2, PoolTypes DEF SetIssuer, TypeOK, StageTwoTypeOK
<1>3. ASSUME UpdatedTreeSize <= Len(tree)
      PROVE  SubSeq(tree, 1, UpdatedTreeSize) \in Seq(LogEntry)
  <2>1. tree \in Seq(LogEntry) /\ UpdatedTreeSize \in Nat /\ Len(tree) \in Nat
    BY UpdatedTreeSizeType, LenProperties DEF TypeOK, StageTwoTypeOK
  <2>2. \A i \in 1 .. UpdatedTreeSize : i \in 1 .. Len(tree)
    BY <1>3, <2>1
  <2> QED BY <2>1, <2>2, SubSeqProperties
<1>4. CASE SetSth
  BY <1>3, <1>4 DEF SetSth, TypeOK
<1>5. CASE SetCheckpoint
  BY <1>3, <1>5 DEF SetCheckpoint, SizeInTree, TypeOK
<1>6. CASE PutDedupeEntry
  <2>1. PICK f \in dedupeTodo : \E o \in PoolOrder(batch, f) :
          dedupe' = [dedupe EXCEPT ![f] = InsertRecords(@, ToDedupeRecords(batch, o))]
    BY <1>6 DEF PutDedupeEntry
  <2>2. PICK o \in PoolOrder(batch, f) :
          dedupe' = [dedupe EXCEPT ![f] = dedupe[f] \o ToDedupeRecords(batch, o)]
    BY <2>1 DEF InsertRecords
  <2> DEFINE new == ToDedupeRecords(batch, o)
  <2>3. new \in Seq(DedupeRecord)
    BY NewDedupeRecords DEF TypeOK, StageTwoTypeOK
  <2>4. dedupe' = [dedupe EXCEPT ![f] = dedupe[f] \o new]
    BY <2>2
  <2> HIDE DEF new
  <2>5. f \in Fp /\ dedupe[f] \o new \in Seq(DedupeRecord)
    BY <2>3, ConcatProperties DEF TypeOK, StageTwoTypeOK
  <2> QED BY <1>6, <2>4, <2>5 DEF PutDedupeEntry, TypeOK
<1>7. CASE UNCHANGED bucket
  BY <1>7 DEF TypeOK
<1> QED
  BY <1>1, <1>2, <1>4, <1>5, <1>6, <1>7
  DEF Next, LoadLog, AnswerDuplicate, MissDuplicate, Enqueue, Respond, Timeout,
    StageOneReceive, StageOneTimer, Tick, StageOneSend, StageTwoReceive, UploadsDone,
    DedupeDone, Return, BatchDone, Fail, Die, Exit, Crash, vars

\* The model is type correct, and no channel and no pool outgrows its limit.
THEOREM TypeCorrect == Spec => []TypeOK
<1>1. TypeOK /\ SizeInTree /\ [Next]_vars => TypeOK' /\ SizeInTree'
  BY NextHandlersTypeOK, NextStageOneTypeOK, NextStageTwoTypeOK,
     NextBucketTypeOK, NextSizeInTree DEF TypeOK
<1> QED BY <1>1, InitTypeOK, InitSizeInTree, PTL DEF Spec

-----------------------------------------------------------------------------
\* The inductive invariant

\* Before the tree head is uploaded the tiles hold the published entries and
\* behind them those of the batch.
LEMMA TreeWithBatch ==
    ASSUME TypeOK, TreeIsTreeHead, up, pc2 \in {"upload", "sth"}
    PROVE  /\ Len(sth) \in Nat /\ Len(batch) \in Nat
           /\ Len(tree) = Len(sth) + Len(batch)
           /\ \A i \in 1 .. Len(sth) : tree[i] = sth[i]
           /\ \A i \in 1 .. Len(batch) : tree[Len(sth) + i] = batch[i].entry
<1>1. sth \in Seq(LogEntry) /\ batch \in Seq(LogEntryWithReturnPath)
  BY DEF TypeOK, BucketTypeOK, StageTwoTypeOK
<1>2. tree = sth \o Entries(batch)
  BY DEF TreeIsTreeHead, Running
<1>3. /\ Entries(batch) \in Seq(LogEntry) /\ Len(Entries(batch)) = Len(batch)
      /\ \A i \in 1 .. Len(batch) : Entries(batch)[i] = batch[i].entry
  BY <1>1, PoolTypes
<1>4. Len(sth) \in Nat /\ Len(batch) \in Nat
  BY <1>1, LenProperties
<1>5. Len(tree) = Len(sth) + Len(batch)
  BY <1>1, <1>2, <1>3, ConcatProperties
<1>6. \A i \in 1 .. Len(tree) :
         tree[i] = IF i <= Len(sth) THEN sth[i] ELSE Entries(batch)[i - Len(sth)]
  BY <1>1, <1>2, <1>3, <1>5, ConcatProperties
<1>7. \A i \in 1 .. Len(sth) : tree[i] = sth[i]
  BY <1>4, <1>5, <1>6
<1>8. ASSUME NEW i \in 1 .. Len(batch) PROVE tree[Len(sth) + i] = batch[i].entry
  <2>1. Len(sth) + i \in 1 .. Len(tree) /\ ~(Len(sth) + i <= Len(sth))
        /\ (Len(sth) + i) - Len(sth) = i
    BY <1>4, <1>5
  <2> QED BY <1>3, <1>6, <2>1
<1> QED BY <1>4, <1>5, <1>7, <1>8

\* The size signed into the tree head is that of the tiles.
LEMMA UpdatedIsTreeLength ==
    ASSUME TypeOK, TreeIsTreeHead, TreeSizeIsTreeHead, IndexIsPosition, up,
           pc2 \in {"upload", "sth"}
    PROVE  UpdatedTreeSize = Len(tree)
<1>1. CASE batch = <<>>
  BY <1>1, TreeWithBatch DEF TreeSizeIsTreeHead, Running, UpdatedTreeSize
<1>2. CASE batch # <<>>
  <2>1. Len(batch) \in 1 .. Len(batch)
    BY <1>2, LenProperties, EmptySeq DEF TypeOK, StageTwoTypeOK
  <2>2. Last(batch).entry = tree[Len(tree)] /\ Len(tree) \in 1 .. Len(tree)
    BY <2>1, TreeWithBatch DEF Last
  <2>3. Last(batch).entry.idx = Len(tree) - 1
    BY <2>2 DEF IndexIsPosition, Indexed, Running
  <2> QED BY <1>2, <2>2, <2>3 DEF UpdatedTreeSize
<1> QED BY <1>1, <1>2

\* The new tree head covers the tree of the tiles: the old one's entries, then
\* the batch's, each at its index.
LEMMA SetSthExtends ==
    ASSUME TypeOK, TreeIsTreeHead, TreeSizeIsTreeHead, IndexIsPosition, SetSth
    PROVE  /\ sth' = tree
           /\ Len(sth') = Len(sth) + Len(batch)
           /\ Len(sth) \in Nat /\ Len(batch) \in Nat
           /\ \A i \in 1 .. Len(sth) : sth'[i] = sth[i]
           /\ \A i \in 1 .. Len(batch) :
                /\ sth'[Len(sth) + i] = batch[i].entry
                /\ batch[i].entry.idx = Len(sth) + i - 1
<1>1. up /\ pc2 = "sth" /\ sth' = SubSeq(tree, 1, UpdatedTreeSize)
  BY DEF SetSth
<1>2. tree \in Seq(LogEntry)
  BY DEF TypeOK, StageTwoTypeOK
<1>3. sth' = tree
  BY <1>1, <1>2, UpdatedIsTreeLength, SubSeqFull
<1>4. ASSUME NEW i \in 1 .. Len(batch)
      PROVE  batch[i].entry.idx = Len(sth) + i - 1
  <2>1. Len(sth) + i \in 1 .. Len(tree)
    BY <1>1, TreeWithBatch
  <2>2. tree[Len(sth) + i].idx = Len(sth) + i - 1
    BY <1>1, <2>1 DEF IndexIsPosition, Indexed, Running
  <2> QED BY <1>1, <2>2, TreeWithBatch
<1> QED BY <1>1, <1>3, <1>4, TreeWithBatch

\* Nothing but SetSth writes the tree head, and SetSth only adds to it.
LEMMA TreeHeadGrows ==
    ASSUME TypeOK, TreeIsTreeHead, TreeSizeIsTreeHead, IndexIsPosition, [Next]_vars
    PROVE  /\ Len(sth) \in Nat /\ Len(sth') \in Nat /\ Len(sth) <= Len(sth')
           /\ \A i \in 1 .. Len(sth) : sth'[i] = sth[i]
<1>1. Len(sth) \in Nat
  BY LenProperties DEF TypeOK, BucketTypeOK
<1>2. CASE SetSth
  BY <1>1, <1>2, SetSthExtends
<1>3. CASE UNCHANGED sth
  BY <1>1, <1>3
<1> QED
  BY <1>2, <1>3
  DEF Next, LoadLog, AnswerDuplicate, MissDuplicate, Enqueue, Respond, Timeout,
    StageOneReceive, StageOneTimer, Tick, StageOneSend, StageTwoReceive,
    PutRecordHash, SetIssuer, UploadsDone, SetCheckpoint, PutDedupeEntry,
    DedupeDone, Return, BatchDone, Fail, Die, Exit, Crash, vars, bucket

\* An entry in the published tree stays there.
LEMMA InTreeStays ==
    ASSUME TypeOK, TreeIsTreeHead, TreeSizeIsTreeHead, IndexIsPosition,
           [Next]_vars, NEW e \in LogEntry, InTree(e, sth)
    PROVE  InTree(e, sth')
<1>1. e.idx \in Nat
  BY DEF LogEntry
<1>2. e.idx + 1 \in 1 .. Len(sth)
  BY <1>1, TreeHeadGrows DEF InTree
<1> QED BY <1>1, <1>2, TreeHeadGrows DEF InTree

-----------------------------------------------------------------------------
\* The parts of the invariant, each kept by every step

\* A process that ends leaves nothing in memory, and none starts with anything.
LEMMA NextDownIsEmpty == DownIsEmpty /\ [Next]_vars => DownIsEmpty'
<1> SUFFICES ASSUME DownIsEmpty, [Next]_vars, ~up' PROVE DownIsEmpty'
  BY DEF DownIsEmpty
<1>1. Die \/ UNCHANGED vars
  BY DEF Next, LoadLog, AnswerDuplicate, MissDuplicate, Enqueue, Respond,
    Timeout, StageOneReceive, StageOneTimer, Tick, StageOneSend, StageTwoReceive,
    PutRecordHash, SetIssuer, UploadsDone, SetSth, SetCheckpoint,
    PutDedupeEntry, DedupeDone, Return, BatchDone, Fail, Exit, Crash, front
<1>2. CASE Die
  BY <1>2 DEF Die, DownIsEmpty
<1>3. CASE UNCHANGED vars
  BY <1>3 DEF vars, handlers, process, stage1, stage2, DownIsEmpty
<1> QED BY <1>1, <1>2, <1>3

\* The tiles in memory follow the tree head.
LEMMA NextTreeIsTreeHead ==
    TypeOK /\ DownIsEmpty /\ TreeIsTreeHead /\ TreeSizeIsTreeHead
      /\ IndexIsPosition /\ [Next]_vars => TreeIsTreeHead'
<1> SUFFICES ASSUME TypeOK, DownIsEmpty, TreeIsTreeHead, TreeSizeIsTreeHead,
                    IndexIsPosition, [Next]_vars, Running'
             PROVE  tree' = IF pc2' \in {"upload", "sth"}
                            THEN sth' \o Entries(batch') ELSE sth'
  BY DEF TreeIsTreeHead, Entries
<1> USE DEF Running, front, bucket, process, stage2
<1>1. CASE LoadLog
  BY <1>1 DEF LoadLog, LatestTree, DownIsEmpty
<1>2. CASE StageTwoReceive
  BY <1>2 DEF StageTwoReceive, TreeIsTreeHead
<1>3. CASE UploadsDone
  BY <1>3 DEF UploadsDone, TreeIsTreeHead
<1>4. CASE SetSth
  BY <1>4, SetSthExtends DEF SetSth
<1>5. CASE SetCheckpoint \/ DedupeDone \/ Return \/ BatchDone
  BY <1>5 DEF SetCheckpoint, DedupeDone, Return, BatchDone, TreeIsTreeHead
<1>6. CASE UNCHANGED <<up, pc2, tree, batch, sth>>
  BY <1>6 DEF TreeIsTreeHead
<1>7. CASE Fail \/ Die
  BY <1>7 DEF Fail, Die
<1> QED
  BY <1>1, <1>2, <1>3, <1>4, <1>5, <1>6, <1>7
  DEF Next, AnswerDuplicate, MissDuplicate, Enqueue, Respond, Timeout,
    StageOneReceive, StageOneTimer, Tick, StageOneSend, PutRecordHash, SetIssuer,
    PutDedupeEntry, Exit, Crash, vars

\* So does the size, and the batch is there exactly while it is worked on.
LEMMA NextTreeSizeIsTreeHead ==
    TypeOK /\ DownIsEmpty /\ TreeIsTreeHead /\ TreeSizeIsTreeHead
      /\ IndexIsPosition /\ [Next]_vars => TreeSizeIsTreeHead'
<1> SUFFICES ASSUME TypeOK, DownIsEmpty, TreeIsTreeHead, TreeSizeIsTreeHead,
                    IndexIsPosition, [Next]_vars, Running'
             PROVE  TreeSizeIsTreeHead'
  BY DEF TreeSizeIsTreeHead
<1> USE DEF Running, front, bucket, process, stage2
<1>1. CASE LoadLog
  BY <1>1 DEF LoadLog, LatestTree, DownIsEmpty, TreeSizeIsTreeHead
<1>2. CASE StageTwoReceive
  BY <1>2 DEF StageTwoReceive, TreeSizeIsTreeHead
<1>3. CASE UploadsDone
  BY <1>3 DEF UploadsDone, TreeSizeIsTreeHead
<1>4. CASE SetSth
  <2>1. UpdatedTreeSize = Len(sth')
    BY <1>4, SetSthExtends, UpdatedIsTreeLength DEF SetSth
  <2>2. UpdatedTreeSize' = UpdatedTreeSize /\ pc2' = "checkpoint"
    BY <1>4 DEF SetSth, UpdatedTreeSize
  <2> QED BY <2>1, <2>2 DEF TreeSizeIsTreeHead
<1>5. CASE SetCheckpoint \/ DedupeDone \/ Return \/ BatchDone \/ PutDedupeEntry
  BY <1>5 DEF SetCheckpoint, DedupeDone, Return, BatchDone, PutDedupeEntry,
    TreeSizeIsTreeHead
<1>6. CASE UNCHANGED <<up, pc2, treeSize, batch, sth>>
  BY <1>6 DEF TreeSizeIsTreeHead, UpdatedTreeSize
<1>7. CASE Fail \/ Die
  BY <1>7 DEF Fail, Die
<1> QED
  BY <1>1, <1>2, <1>3, <1>4, <1>5, <1>6, <1>7
  DEF Next, AnswerDuplicate, MissDuplicate, Enqueue, Respond, Timeout,
    StageOneReceive, StageOneTimer, Tick, StageOneSend, PutRecordHash, SetIssuer,
    Exit, Crash, vars

\* What stageTwo receives continues its tree.
LEMMA ReceiveContinues ==
    ASSUME TypeOK, PoolsContinueTree, up, pc2 = "recv", stageTwo # <<>>
    PROVE  /\ stageTwo[1] = Head(stageTwo) /\ Len(stageTwo) \in Nat \ {0}
           /\ Head(stageTwo) \in Seq(LogEntryWithReturnPath)
           /\ Continues(Head(stageTwo), Len(tree))
<1>1. /\ stageTwo \in Seq(Seq(LogEntryWithReturnPath))
      /\ Len(stageTwo) \in Nat \ {0}
  BY EmptySeq DEF TypeOK, StageTwoTypeOK
<1>2. stageTwo[1] = Head(stageTwo)
      /\ Head(stageTwo) \in Seq(LogEntryWithReturnPath)
  BY <1>1, HeadTailProperties
<1>3. 1 \in 1 .. Len(stageTwo)
  BY <1>1
<1>4. Continues(stageTwo[1], Len(tree))
  BY <1>3 DEF PoolsContinueTree, Contiguous, Running
<1> QED BY <1>1, <1>2, <1>4

\* Leaf indices stay positions.
LEMMA NextIndexIsPosition ==
    TypeOK /\ DownIsEmpty /\ TreeIsTreeHead /\ TreeSizeIsTreeHead
      /\ IndexIsPosition /\ PoolsContinueTree /\ [Next]_vars => IndexIsPosition'
<1> SUFFICES ASSUME TypeOK, DownIsEmpty, TreeIsTreeHead, TreeSizeIsTreeHead,
                    IndexIsPosition, PoolsContinueTree, [Next]_vars
             PROVE  IndexIsPosition'
  OBVIOUS
<1> USE DEF Running, front, bucket, process, stage2
<1>1. CASE LoadLog
  BY <1>1 DEF LoadLog, LatestTree, IndexIsPosition, Indexed
<1>2. CASE StageTwoReceive
  <2> DEFINE p == Head(stageTwo)
  <2>1. up /\ pc2 = "recv" /\ stageTwo # <<>> /\ tree' = tree \o Entries(p)
        /\ UNCHANGED sth
    BY <1>2 DEF StageTwoReceive
  <2>2. p \in Seq(LogEntryWithReturnPath) /\ Continues(p, Len(tree))
    BY <2>1, ReceiveContinues
  <2>3. tree \in Seq(LogEntry) /\ Len(tree) \in Nat /\ Len(p) \in Nat
    BY <2>2, LenProperties DEF TypeOK, StageTwoTypeOK
  <2> HIDE DEF p
  <2>4. /\ Entries(p) \in Seq(LogEntry) /\ Len(Entries(p)) = Len(p)
        /\ \A i \in 1 .. Len(p) : Entries(p)[i] = p[i].entry
    BY <2>2, PoolTypes
  <2>5. Len(tree') = Len(tree) + Len(p)
    BY <2>1, <2>3, <2>4, ConcatProperties
  <2>6. ASSUME NEW i \in 1 .. Len(tree') PROVE tree'[i].idx = i - 1
    <3>1. CASE i <= Len(tree)
      BY <2>1, <2>3, <2>4, <2>5, <3>1, ConcatProperties
      DEF IndexIsPosition, Indexed
    <3>2. CASE ~(i <= Len(tree))
      <4>1. i - Len(tree) \in 1 .. Len(p)
        BY <2>3, <2>5, <3>2
      <4>2. tree'[i] = Entries(p)[i - Len(tree)]
        BY <2>1, <2>3, <2>4, <2>5, <3>2, ConcatProperties
      <4>3. tree'[i] = p[i - Len(tree)].entry
        BY <2>4, <4>1, <4>2
      <4> QED BY <2>2, <2>3, <4>1, <4>3 DEF Continues
    <3> QED BY <3>1, <3>2
  <2> QED BY <2>1, <2>6 DEF IndexIsPosition, Indexed
<1>3. CASE SetSth
  <2>1. sth' = tree /\ UNCHANGED tree /\ Indexed(tree)
    BY <1>3, SetSthExtends DEF SetSth, IndexIsPosition
  <2> QED BY <2>1 DEF IndexIsPosition, Indexed
<1>4. CASE UNCHANGED <<tree, sth>> /\ (Running' => Running)
  BY <1>4 DEF IndexIsPosition, Indexed
<1>5. CASE Die
  BY <1>5 DEF Die, IndexIsPosition, Indexed
<1> QED
  BY <1>1, <1>2, <1>3, <1>4, <1>5
  DEF Next, AnswerDuplicate, MissDuplicate, Enqueue, Respond, Timeout,
    StageOneReceive, StageOneTimer, Tick, StageOneSend, PutRecordHash, SetIssuer,
    UploadsDone, SetCheckpoint, PutDedupeEntry, DedupeDone, Return, BatchDone,
    Fail, Exit, Crash, vars

\* The lengths of what the invariant speaks of are numbers.
LEMMA Lengths ==
    ASSUME TypeOK
    PROVE  /\ Len(stageTwo) \in Nat /\ Len(pool) \in Nat /\ Len(tree) \in Nat
           /\ Len(sth) \in Nat /\ Len(batch) \in Nat /\ sequence \in Nat
           /\ \A p \in 1 .. Len(stageTwo) :
                 stageTwo[p] \in Seq(LogEntryWithReturnPath) /\ Len(stageTwo[p]) \in Nat
<1>1. \A p \in 1 .. Len(stageTwo) : stageTwo[p] \in Seq(LogEntryWithReturnPath)
  BY ElementOfSeq DEF TypeOK, StageTwoTypeOK
<1> QED
  BY <1>1, LenProperties
  DEF TypeOK, StageOneTypeOK, StageTwoTypeOK, BucketTypeOK

\* A process that has just loaded the log has nothing in flight.
LEMMA LoadLogContinues ==
    ASSUME TypeOK, DownIsEmpty, LoadLog PROVE PoolsContinueTree'
<1>1. /\ stageTwo' = <<>> /\ pool' = <<>> /\ tree' = sth /\ sequence' = Len(sth)
  BY DEF LoadLog, LatestTree, DownIsEmpty
<1>2. Len(sth) \in Nat /\ Len(<<>>) = 0
  BY Lengths
<1> DEFINE off == [p \in 1 .. 1 |-> Len(sth)]
<1>3. off \in [1 .. 1 -> 0 .. Len(sth)] /\ off[1] = Len(sth)
  BY <1>2
<1> HIDE DEF off
<1>4. Contiguous(off, <<>>, <<>>, Len(sth), Len(sth))
  BY <1>2, <1>3 DEF Contiguous, Continues
<1> QED BY <1>1, <1>2, <1>3, <1>4 DEF PoolsContinueTree

\* stageOne numbers the next entry of the open pool.
LEMMA StageOneReceiveContinues ==
    ASSUME TypeOK, PoolsContinueTree, StageOneReceive, Running
    PROVE  PoolsContinueTree'
<1>1. PICK off \in [1 .. Len(stageTwo) + 1 -> 0 .. sequence] :
         Contiguous(off, stageTwo, pool, Len(tree), sequence)
  BY DEF PoolsContinueTree
<1>2. PICK t \in Timestamp : pool' = Append(pool,
         [entry |-> Sequence(EntryOf[Head(stageOne)], sequence, t),
          returnPath |-> Head(stageOne)])
  BY DEF StageOneReceive
<1> DEFINE e == [entry |-> Sequence(EntryOf[Head(stageOne)], sequence, t),
                 returnPath |-> Head(stageOne)]
<1>3. stageOne \in Seq(Request) /\ stageOne # <<>>
  BY DEF StageOneReceive, TypeOK, StageOneTypeOK
<1>4. e \in LogEntryWithReturnPath /\ e.entry.idx = sequence
  <2>1. Head(stageOne) \in Request
    BY <1>3, HeadTailProperties
  <2> QED
    BY <2>1, SequenceType
    DEF Sequence, LogEntryWithReturnPath, TypeOK, StageOneTypeOK
<1>5. /\ UNCHANGED <<stageTwo, tree>> /\ sequence' = sequence + 1
      /\ pool' = Append(pool, e)
  BY <1>2 DEF StageOneReceive, NextSequence, stage2
<1> HIDE DEF e
<1>6. /\ Len(pool') = Len(pool) + 1 /\ pool'[Len(pool) + 1] = e
      /\ \A i \in 1 .. Len(pool) : pool'[i] = pool[i]
  BY <1>4, <1>5, AppendProperties DEF TypeOK, StageOneTypeOK
<1> DEFINE last == off[Len(stageTwo) + 1]
<1>7. last \in Nat /\ last + Len(pool) = sequence
  BY Lengths, <1>1 DEF Contiguous
<1>8. Continues(pool', last)
  <2> SUFFICES ASSUME NEW j \in 1 .. Len(pool')
               PROVE  pool'[j].entry.idx = last + j - 1
    BY DEF Continues
  <2>1. CASE j \in 1 .. Len(pool)
    BY <1>1, <1>6, <2>1 DEF Contiguous, Continues
  <2>2. CASE j = Len(pool) + 1
    BY <1>4, <1>6, <1>7, <2>2, Lengths
  <2> QED BY <2>1, <2>2, <1>6, Lengths
<1>9. off \in [1 .. Len(stageTwo) + 1 -> 0 .. sequence + 1]
  BY Lengths
<1>10. Contiguous(off, stageTwo, pool', Len(tree), sequence + 1)
  BY <1>1, <1>6, <1>7, <1>8, Lengths DEF Contiguous
<1> QED BY <1>5, <1>9, <1>10 DEF PoolsContinueTree

\* stageOne hands its pool over: the next one starts at the running number.
LEMMA StageOneSendContinues ==
    ASSUME TypeOK, PoolsContinueTree, StageOneSend, Running
    PROVE  PoolsContinueTree'
<1>1. PICK off \in [1 .. Len(stageTwo) + 1 -> 0 .. sequence] :
         Contiguous(off, stageTwo, pool, Len(tree), sequence)
  BY DEF PoolsContinueTree
<1>2. /\ UNCHANGED <<tree, sequence>> /\ pool' = <<>>
      /\ stageTwo' = Append(stageTwo, pool)
  BY DEF StageOneSend, stage2
<1> DEFINE n == Len(stageTwo)
<1>3. /\ Len(stageTwo') = n + 1 /\ stageTwo'[n + 1] = pool
      /\ \A p \in 1 .. n : stageTwo'[p] = stageTwo[p]
  BY <1>2, AppendProperties DEF TypeOK, StageOneTypeOK, StageTwoTypeOK
<1> DEFINE new == [p \in 1 .. n + 2 |-> IF p = n + 2 THEN sequence ELSE off[p]]
<1>4. n \in Nat /\ sequence \in Nat /\ Len(pool) \in Nat
  BY Lengths
<1>5. /\ off \in [1 .. n + 1 -> 0 .. sequence]
      /\ off[n + 1] + Len(pool) = sequence /\ Continues(pool, off[n + 1])
      /\ off[1] = Len(tree)
      /\ \A p \in 1 .. n : off[p + 1] = off[p] + Len(stageTwo[p])
                          /\ Continues(stageTwo[p], off[p])
  BY <1>1 DEF Contiguous
<1> HIDE DEF n
<1>6. /\ new \in [1 .. n + 2 -> 0 .. sequence]
      /\ new[1] = Len(tree) /\ new[n + 2] = sequence
      /\ \A p \in 1 .. n + 1 : new[p] = off[p]
  BY <1>4, <1>5
<1> HIDE DEF new
<1>7. ASSUME NEW p \in 1 .. n + 1
      PROVE  /\ new[p + 1] = new[p] + Len(stageTwo'[p])
             /\ Continues(stageTwo'[p], new[p])
  <2>1. CASE p = n + 1
    BY <1>3, <1>4, <1>5, <1>6, <2>1
  <2>2. CASE p \in 1 .. n
    <3>1. new[p] = off[p] /\ new[p + 1] = off[p + 1] /\ stageTwo'[p] = stageTwo[p]
      BY <1>3, <1>4, <1>6, <2>2
    <3> QED BY <3>1, <1>5, <2>2
  <2> QED BY <2>1, <2>2, <1>4
<1>8. Len(<<>>) = 0 /\ Continues(<<>>, sequence)
  BY DEF Continues
<1>9. Contiguous(new, stageTwo', <<>>, Len(tree), sequence)
  BY <1>3, <1>4, <1>6, <1>7, <1>8 DEF Contiguous
<1>10. new \in [1 .. Len(stageTwo') + 1 -> 0 .. sequence]
  BY <1>3, <1>4, <1>6
<1> QED BY <1>2, <1>9, <1>10 DEF PoolsContinueTree

\* stageTwo takes the first pool off the channel and into its tiles.
LEMMA StageTwoReceiveContinues ==
    ASSUME TypeOK, PoolsContinueTree, StageTwoReceive, Running
    PROVE  PoolsContinueTree'
<1>1. PICK off \in [1 .. Len(stageTwo) + 1 -> 0 .. sequence] :
         Contiguous(off, stageTwo, pool, Len(tree), sequence)
  BY DEF PoolsContinueTree
<1>2. /\ up /\ pc2 = "recv" /\ stageTwo # <<>>
      /\ UNCHANGED <<pool, sequence>> /\ stageTwo' = Tail(stageTwo)
      /\ tree' = tree \o Entries(Head(stageTwo))
  BY DEF StageTwoReceive, front, stage1
<1> DEFINE n == Len(stageTwo)
<1>3. /\ n \in Nat \ {0} /\ stageTwo[1] = Head(stageTwo)
      /\ Head(stageTwo) \in Seq(LogEntryWithReturnPath)
  BY <1>2, ReceiveContinues
<1>4. /\ Len(stageTwo') = n - 1
      /\ \A p \in 1 .. n - 1 : stageTwo'[p] = stageTwo[p + 1]
  BY <1>2, HeadTailProperties DEF TypeOK, StageTwoTypeOK
<1>5. Len(tree') = Len(tree) + Len(stageTwo[1])
  <2> DEFINE es == Entries(Head(stageTwo))
  <2>1. es \in Seq(LogEntry) /\ Len(es) = Len(stageTwo[1])
    BY <1>3, PoolTypes
  <2>2. tree \in Seq(LogEntry) /\ tree' = tree \o es
    BY <1>2 DEF TypeOK, StageTwoTypeOK
  <2> HIDE DEF es
  <2>3. Len(tree \o es) = Len(tree) + Len(es)
    BY <2>1, <2>2, ConcatProperties
  <2> QED BY <2>1, <2>2, <2>3
<1> DEFINE new == [p \in 1 .. n |-> off[p + 1]]
<1>6. /\ off[n + 1] + Len(pool) = sequence /\ Continues(pool, off[n + 1])
      /\ off[1] = Len(tree) /\ off \in [1 .. n + 1 -> 0 .. sequence]
      /\ \A p \in 1 .. n : off[p + 1] = off[p] + Len(stageTwo[p])
                          /\ Continues(stageTwo[p], off[p])
  BY <1>1 DEF Contiguous
<1> HIDE DEF n
<1>7. new \in [1 .. n -> 0 .. sequence] /\ \A p \in 1 .. n : new[p] = off[p + 1]
  BY <1>3, <1>6
<1> HIDE DEF new
<1>8. new[1] = Len(tree') /\ new[n] = off[n + 1]
  BY <1>3, <1>5, <1>6, <1>7
<1>9. ASSUME NEW p \in 1 .. n - 1
      PROVE  /\ new[p + 1] = new[p] + Len(stageTwo'[p])
             /\ Continues(stageTwo'[p], new[p])
  <2>1. p + 1 \in 1 .. n /\ p \in 1 .. n
    BY <1>3
  <2>2. new[p] = off[p + 1] /\ new[p + 1] = off[(p + 1) + 1]
        /\ stageTwo'[p] = stageTwo[p + 1]
    BY <1>4, <1>7, <2>1
  <2> QED BY <1>6, <2>1, <2>2
<1>10. Contiguous(new, stageTwo', pool, Len(tree'), sequence)
  BY <1>3, <1>4, <1>6, <1>8, <1>9 DEF Contiguous
<1>11. new \in [1 .. Len(stageTwo') + 1 -> 0 .. sequence]
  BY <1>3, <1>4, <1>7
<1> QED BY <1>2, <1>10, <1>11 DEF PoolsContinueTree

\* No step leaves a gap in the numbering.
LEMMA NextPoolsContinueTree ==
    TypeOK /\ DownIsEmpty /\ PoolsContinueTree /\ [Next]_vars => PoolsContinueTree'
<1> SUFFICES ASSUME TypeOK, DownIsEmpty, PoolsContinueTree, [Next]_vars
             PROVE  PoolsContinueTree'
  OBVIOUS
<1> USE DEF front, stage1, stage2, process, bucket
<1>1. CASE LoadLog
  BY <1>1, LoadLogContinues
<1>2. CASE ~Running'
  BY <1>2 DEF PoolsContinueTree
<1>3. CASE Running /\ UNCHANGED <<stageTwo, pool, tree, sequence>>
  BY <1>3 DEF PoolsContinueTree
<1>4. CASE Running /\ (StageOneReceive \/ StageOneSend \/ StageTwoReceive)
  BY <1>4, StageOneReceiveContinues, StageOneSendContinues,
     StageTwoReceiveContinues
<1>5. ASSUME Running', ~Running PROVE LoadLog \/ UNCHANGED vars
  BY <1>5
  DEF Running, Next, AnswerDuplicate, MissDuplicate, Enqueue, Respond, Timeout,
    StageOneReceive, StageOneTimer, Tick, StageOneSend, StageTwoReceive,
    PutRecordHash, SetIssuer, UploadsDone, SetSth, SetCheckpoint,
    PutDedupeEntry, DedupeDone, Return, BatchDone, Fail, Die, Exit, Crash
<1>6. ASSUME UNCHANGED vars PROVE PoolsContinueTree'
  BY <1>6 DEF vars, PoolsContinueTree, Running
<1>7. ASSUME Running, Running', Next
      PROVE  \/ UNCHANGED <<stageTwo, pool, tree, sequence>>
             \/ StageOneReceive \/ StageOneSend \/ StageTwoReceive
  BY <1>7
  DEF Running, Next, LoadLog, AnswerDuplicate, MissDuplicate, Enqueue, Respond,
    Timeout, StageOneTimer, Tick, PutRecordHash, SetIssuer, UploadsDone, SetSth,
    SetCheckpoint, PutDedupeEntry, DedupeDone, Return, BatchDone, Fail, Die,
    Exit, Crash
<1> QED BY <1>1, <1>2, <1>3, <1>4, <1>5, <1>6, <1>7

\* An entry stays with the return path of the handler that submitted it.
LEMMA NextPoolsRouted == TypeOK /\ PoolsRouted /\ [Next]_vars => PoolsRouted'
<1> SUFFICES ASSUME TypeOK, PoolsRouted, [Next]_vars PROVE PoolsRouted'
  OBVIOUS
<1> USE DEF front, stage1, stage2, process
<1>1. CASE StageOneReceive
  <2>1. PICK t \in Timestamp : pool' = Append(pool,
           [entry |-> Sequence(EntryOf[Head(stageOne)], sequence, t),
            returnPath |-> Head(stageOne)])
    BY <1>1 DEF StageOneReceive
  <2> DEFINE e == [entry |-> Sequence(EntryOf[Head(stageOne)], sequence, t),
                   returnPath |-> Head(stageOne)]
  <2>2. e.entry.cert = EntryOf[e.returnPath]
    BY DEF Sequence
  <2>3. Head(stageOne) \in Request
    BY <1>1, HeadTailProperties DEF StageOneReceive, TypeOK, StageOneTypeOK
  <2>4. e \in LogEntryWithReturnPath
    BY <2>3, SequenceType DEF LogEntryWithReturnPath, TypeOK, StageOneTypeOK
  <2> HIDE DEF e
  <2>5. /\ Len(pool') = Len(pool) + 1 /\ pool'[Len(pool) + 1] = e
        /\ \A i \in 1 .. Len(pool) : pool'[i] = pool[i]
    BY <2>1, <2>4, AppendProperties DEF e, TypeOK, StageOneTypeOK
  <2>6. Routed(pool')
    <3>1. Len(pool) \in Nat
      BY Lengths
    <3>2. \A i \in 1 .. Len(pool') : i \in 1 .. Len(pool) \/ i = Len(pool) + 1
      BY <2>5, <3>1
    <3>3. \A i \in 1 .. Len(pool) : pool[i].entry.cert = EntryOf[pool[i].returnPath]
      BY DEF PoolsRouted, Routed
    <3> QED BY <2>2, <2>5, <3>2, <3>3 DEF Routed
  <2> QED BY <1>1, <2>6 DEF StageOneReceive, PoolsRouted, Routed
<1>2. CASE StageOneSend
  <2>1. /\ Len(stageTwo') = Len(stageTwo) + 1 /\ stageTwo'[Len(stageTwo) + 1] = pool
        /\ \A p \in 1 .. Len(stageTwo) : stageTwo'[p] = stageTwo[p]
    BY <1>2, AppendProperties
    DEF StageOneSend, TypeOK, StageOneTypeOK, StageTwoTypeOK
  <2>2. \A p \in 1 .. Len(stageTwo') : Routed(stageTwo'[p])
    <3>1. Len(stageTwo) \in Nat
      BY Lengths
    <3>2. \A p \in 1 .. Len(stageTwo') : p \in 1 .. Len(stageTwo) \/ p = Len(stageTwo) + 1
      BY <2>1, <3>1
    <3>3. Routed(pool) /\ \A p \in 1 .. Len(stageTwo) : Routed(stageTwo[p])
      BY DEF PoolsRouted
    <3> QED BY <2>1, <3>2, <3>3
  <2>3. Routed(pool') /\ UNCHANGED batch
    BY <1>2 DEF StageOneSend, Routed
  <2> QED BY <2>2, <2>3 DEF PoolsRouted, Routed
<1>3. CASE StageTwoReceive
  <2>1. stageTwo # <<>> /\ batch' = Head(stageTwo) /\ stageTwo' = Tail(stageTwo)
        /\ UNCHANGED pool
    BY <1>3 DEF StageTwoReceive
  <2>2. /\ Len(stageTwo) \in Nat \ {0} /\ Head(stageTwo) = stageTwo[1]
        /\ Len(Tail(stageTwo)) = Len(stageTwo) - 1
        /\ \A p \in 1 .. Len(stageTwo) - 1 : Tail(stageTwo)[p] = stageTwo[p + 1]
    BY <2>1, HeadTailProperties, EmptySeq DEF TypeOK, StageTwoTypeOK
  <2>3. Routed(batch')
    BY <2>1, <2>2 DEF PoolsRouted, Routed
  <2>4. \A p \in 1 .. Len(stageTwo') : Routed(stageTwo'[p])
    BY <2>1, <2>2 DEF PoolsRouted, Routed
  <2> QED BY <2>1, <2>3, <2>4 DEF PoolsRouted, Routed
<1>4. CASE Return
  <2>1. batch # <<>> /\ batch' = Tail(batch) /\ UNCHANGED <<pool, stageTwo>>
    BY <1>4 DEF Return
  <2>2. /\ Len(batch') = Len(batch) - 1 /\ Len(batch) \in Nat
        /\ \A i \in 1 .. Len(batch) - 1 : batch'[i] = batch[i + 1]
    BY <2>1, HeadTailProperties, Lengths DEF TypeOK, StageTwoTypeOK
  <2>3. Routed(batch')
    BY <2>2 DEF PoolsRouted, Routed
  <2> QED BY <2>1, <2>3 DEF PoolsRouted, Routed
<1>5. CASE Die
  BY <1>5 DEF Die, PoolsRouted, Routed
<1>6. CASE UNCHANGED <<pool, batch, stageTwo>>
  BY <1>6 DEF PoolsRouted, Routed
<1> QED
  BY <1>1, <1>2, <1>3, <1>4, <1>5, <1>6
  DEF Next, LoadLog, AnswerDuplicate, MissDuplicate, Enqueue, Respond, Timeout,
    StageOneTimer, Tick, PutRecordHash, SetIssuer, UploadsDone, SetSth,
    SetCheckpoint, PutDedupeEntry, DedupeDone, BatchDone, Fail, Exit, Crash,
    vars

\* Every logged certificate was submitted.
LEMMA NextTreeSubmitted ==
    TypeOK /\ TreeIsTreeHead /\ TreeSizeIsTreeHead /\ IndexIsPosition
      /\ PoolsRouted /\ TreeSubmitted /\ [Next]_vars => TreeSubmitted'
<1> SUFFICES ASSUME TypeOK, TreeIsTreeHead, TreeSizeIsTreeHead, IndexIsPosition,
                    PoolsRouted, TreeSubmitted, [Next]_vars
             PROVE  TreeSubmitted'
  OBVIOUS
<1> USE DEF Running, front, bucket, process, stage2
<1>1. CASE LoadLog
  BY <1>1 DEF LoadLog, LatestTree, TreeSubmitted, Submitted
<1>2. CASE StageTwoReceive
  <2> DEFINE p == Head(stageTwo)
  <2>1. up /\ pc2 = "recv" /\ stageTwo # <<>> /\ tree' = tree \o Entries(p)
        /\ UNCHANGED sth
    BY <1>2 DEF StageTwoReceive
  <2>2. p \in Seq(LogEntryWithReturnPath) /\ p = stageTwo[1]
        /\ Len(stageTwo) \in Nat \ {0}
    BY <2>1, HeadTailProperties, EmptySeq DEF TypeOK, StageTwoTypeOK
  <2>3. Routed(p)
    BY <2>2 DEF PoolsRouted
  <2>4. tree \in Seq(LogEntry) /\ Len(tree) \in Nat /\ Len(p) \in Nat
    BY <2>2, LenProperties DEF TypeOK, StageTwoTypeOK
  <2> HIDE DEF p
  <2>5. \A i \in 1 .. Len(p) : p[i].returnPath \in Request
    <3>1. \A i \in 1 .. Len(p) : p[i] \in LogEntryWithReturnPath
      BY <2>2, ElementOfSeq
    <3> QED BY <3>1 DEF LogEntryWithReturnPath
  <2>6. /\ Entries(p) \in Seq(LogEntry) /\ Len(Entries(p)) = Len(p)
        /\ \A i \in 1 .. Len(p) : Entries(p)[i] = p[i].entry
    BY <2>2, PoolTypes
  <2>7. ASSUME NEW i \in 1 .. Len(tree')
        PROVE  \E r \in Request : tree'[i].cert = EntryOf[r]
    <3>1. CASE i <= Len(tree)
      BY <2>1, <2>4, <2>6, <3>1, ConcatProperties DEF TreeSubmitted, Submitted
    <3>2. CASE ~(i <= Len(tree))
      <4>1. i - Len(tree) \in 1 .. Len(p) /\ tree'[i] = Entries(p)[i - Len(tree)]
        BY <2>1, <2>4, <2>6, <3>2, ConcatProperties
      <4>2. tree'[i].cert = EntryOf[p[i - Len(tree)].returnPath]
        BY <4>1, <2>3, <2>6 DEF Routed
      <4> QED BY <4>1, <4>2, <2>5
    <3> QED BY <3>1, <3>2
  <2> QED BY <2>1, <2>7 DEF TreeSubmitted, Submitted
<1>3. CASE SetSth
  <2>1. sth' = tree /\ UNCHANGED tree /\ Submitted(tree)
    BY <1>3, SetSthExtends DEF SetSth, TreeSubmitted
  <2> QED BY <2>1 DEF TreeSubmitted, Submitted
<1>4. CASE UNCHANGED <<tree, sth>> /\ (Running' => Running)
  BY <1>4 DEF TreeSubmitted, Submitted
<1>5. CASE Die
  BY <1>5 DEF Die, TreeSubmitted, Submitted
<1> QED
  BY <1>1, <1>2, <1>3, <1>4, <1>5
  DEF Next, AnswerDuplicate, MissDuplicate, Enqueue, Respond, Timeout,
    StageOneReceive, StageOneTimer, Tick, StageOneSend, PutRecordHash, SetIssuer,
    UploadsDone, SetCheckpoint, PutDedupeEntry, DedupeDone, Return, BatchDone,
    Fail, Exit, Crash, vars

\* After the tree head the batch's entries are the published ones.
LEMMA NextPublishedBatch ==
    TypeOK /\ TreeIsTreeHead /\ TreeSizeIsTreeHead /\ IndexIsPosition
      /\ PublishedBatch /\ [Next]_vars => PublishedBatch'
<1> SUFFICES ASSUME TypeOK, TreeIsTreeHead, TreeSizeIsTreeHead, IndexIsPosition,
                    PublishedBatch, [Next]_vars
             PROVE  PublishedBatch'
  OBVIOUS
<1> USE DEF front, bucket, process, stage2
<1>1. CASE SetSth
  <2>1. \A i \in 1 .. Len(batch) :
           /\ batch[i].entry.idx < Len(sth')
           /\ sth'[batch[i].entry.idx + 1] = batch[i].entry
    <3> SUFFICES ASSUME NEW i \in 1 .. Len(batch)
                 PROVE  /\ batch[i].entry.idx < Len(sth')
                        /\ sth'[batch[i].entry.idx + 1] = batch[i].entry
      OBVIOUS
    <3>1. batch[i].entry.idx = Len(sth) + i - 1
          /\ sth'[Len(sth) + i] = batch[i].entry
      BY <1>1, SetSthExtends
    <3>2. batch[i].entry.idx + 1 = Len(sth) + i
          /\ batch[i].entry.idx < Len(sth) + Len(batch)
      BY <3>1, Lengths
    <3> QED BY <1>1, <3>1, <3>2, SetSthExtends
  <2> QED BY <1>1, <2>1 DEF SetSth, PublishedBatch, InTree
<1>2. CASE Return
  <2>1. /\ Len(batch') = Len(batch) - 1 /\ Len(batch) \in Nat
        /\ \A i \in 1 .. Len(batch) - 1 : batch'[i] = batch[i + 1]
    BY <1>2, HeadTailProperties, Lengths DEF Return, TypeOK, StageTwoTypeOK
  <2> QED BY <1>2, <2>1 DEF Return, PublishedBatch, InTree
<1>3. CASE UNCHANGED <<batch, sth>> /\ pc2 \in {"checkpoint", "dedupe", "return"}
  BY <1>3 DEF PublishedBatch, InTree
<1>4. CASE pc2' \notin {"checkpoint", "dedupe", "return"}
  BY <1>4 DEF PublishedBatch
<1>5. CASE LoadLog \/ Die
  BY <1>5 DEF LoadLog, Die, PublishedBatch, InTree
<1> QED
  BY <1>1, <1>2, <1>3, <1>4, <1>5
  DEF Next, AnswerDuplicate, MissDuplicate, Enqueue, Respond, Timeout,
    StageOneReceive, StageOneTimer, Tick, StageOneSend, StageTwoReceive,
    PutRecordHash, SetIssuer, UploadsDone, SetCheckpoint, PutDedupeEntry,
    DedupeDone, BatchDone, Fail, Exit, Crash, vars

\* What waits on a return path is published, and the handler's own.
LEMMA NextAnswersPublished ==
    TypeOK /\ TreeIsTreeHead /\ TreeSizeIsTreeHead /\ IndexIsPosition
      /\ PoolsRouted /\ PublishedBatch /\ AnswersPublished /\ [Next]_vars
    => AnswersPublished'
<1> SUFFICES ASSUME TypeOK, TreeIsTreeHead, TreeSizeIsTreeHead, IndexIsPosition,
                    PoolsRouted, PublishedBatch, AnswersPublished, [Next]_vars,
                    NEW r \in Request, NEW i \in 1 .. Len(returnPath'[r])
             PROVE  InTree(returnPath'[r][i], sth')
                    /\ returnPath'[r][i].cert = EntryOf[r]
  BY DEF AnswersPublished, InTree
<1> USE DEF handlers, front, bucket
<1>0. returnPath \in [Request -> Seq(LogEntry)]
  BY DEF TypeOK, HandlersTypeOK
<1>1. CASE Return
  <2> DEFINE e == Head(batch).entry
  <2>1. batch # <<>> /\ batch \in Seq(LogEntryWithReturnPath)
        /\ returnPath' = [returnPath EXCEPT ![Head(batch).returnPath] = <<e>>]
        /\ pc2 = "return" /\ UNCHANGED sth
    BY <1>1 DEF Return, TypeOK, StageTwoTypeOK
  <2>2. Head(batch) = batch[1] /\ 1 \in 1 .. Len(batch)
    BY <2>1, HeadTailProperties, EmptySeq
  <2>3. InTree(e, sth) /\ e.cert = EntryOf[Head(batch).returnPath]
    BY <2>1, <2>2 DEF PublishedBatch, PoolsRouted, Routed
  <2> HIDE DEF e
  <2>4. CASE r = Head(batch).returnPath
    <3>1. returnPath'[r] = <<e>>
      BY <1>0, <2>1, <2>4
    <3>2. i = 1 /\ returnPath'[r][i] = e
      BY <3>1
    <3> QED BY <2>1, <2>3, <2>4, <3>2 DEF InTree
  <2>5. CASE r # Head(batch).returnPath
    <3>1. returnPath'[r] = returnPath[r]
      BY <1>0, <2>1, <2>5
    <3> QED BY <2>1, <3>1 DEF AnswersPublished, InTree
  <2> QED BY <2>4, <2>5
<1>2. ASSUME NEW q \in Request, Respond(q)
      PROVE  InTree(returnPath'[r][i], sth') /\ returnPath'[r][i].cert = EntryOf[r]
  <2>1. returnPath' = [returnPath EXCEPT ![q] = Tail(@)] /\ UNCHANGED sth
        /\ returnPath[q] # <<>>
    BY <1>2 DEF Respond
  <2>2. CASE r = q
    <3>1. returnPath'[r] = Tail(returnPath[r]) /\ returnPath[r] # <<>>
          /\ returnPath[r] \in Seq(LogEntry)
      BY <1>0, <2>1, <2>2
    <3>2. Len(returnPath[r]) \in Nat /\ i + 1 \in 1 .. Len(returnPath[r])
          /\ returnPath'[r][i] = returnPath[r][i + 1]
      BY <3>1, HeadTailProperties, LenProperties
    <3> QED BY <2>1, <3>2 DEF AnswersPublished, InTree
  <2>3. CASE r # q
    BY <1>0, <2>1, <2>3 DEF AnswersPublished, InTree
  <2> QED BY <2>2, <2>3
<1>3. CASE UNCHANGED returnPath
  <2>1. returnPath[r] \in Seq(LogEntry) /\ i \in 1 .. Len(returnPath[r])
    BY <1>0, <1>3
  <2>2. returnPath[r][i] \in LogEntry
    BY <2>1, ElementOfSeq
  <2>3. InTree(returnPath[r][i], sth) /\ returnPath[r][i].cert = EntryOf[r]
    BY <2>1 DEF AnswersPublished
  <2> DEFINE e == returnPath[r][i]
  <2>4. e.idx \in Nat /\ e.idx < Len(sth) /\ sth[e.idx + 1] = e
    BY <2>2, <2>3 DEF InTree, LogEntry
  <2>5. e.idx + 1 \in 1 .. Len(sth)
    BY <2>4, TreeHeadGrows
  <2>6. e.idx < Len(sth') /\ sth'[e.idx + 1] = e
    BY <2>4, <2>5, TreeHeadGrows
  <2>7. returnPath'[r][i] = e
    BY <1>3
  <2> QED BY <2>3, <2>6, <2>7 DEF InTree
<1>4. CASE Die
  BY <1>4 DEF Die
<1> QED
  BY <1>1, <1>2, <1>3, <1>4
  DEF Next, LoadLog, AnswerDuplicate, MissDuplicate, Enqueue, Timeout,
    StageOneReceive, StageOneTimer, Tick, StageOneSend, StageTwoReceive,
    PutRecordHash, SetIssuer, UploadsDone, SetSth, SetCheckpoint,
    PutDedupeEntry, DedupeDone, BatchDone, Fail, Exit, Crash, vars

\* The tree head is not written before the uploads are done.
LEMMA NextUploadsPrecedeTreeHead ==
    UploadsPrecedeTreeHead /\ [Next]_vars => UploadsPrecedeTreeHead'
<1> SUFFICES ASSUME UploadsPrecedeTreeHead, [Next]_vars, pc2' = "sth"
             PROVE  Leaves(batch') \subseteq hashes' /\ Chains(batch') \subseteq issuers'
  BY DEF UploadsPrecedeTreeHead, Leaves, Chains
<1> USE DEF front, bucket, process, stage2
<1>1. CASE StageTwoReceive
  <2>1. batch' = <<>>
    BY <1>1 DEF StageTwoReceive
  <2> QED BY <2>1 DEF Leaves, Chains
<1>2. CASE UploadsDone
  BY <1>2 DEF UploadsDone
<1>3. CASE UNCHANGED <<pc2, batch, hashes, issuers>>
  BY <1>3 DEF UploadsPrecedeTreeHead
<1> QED
  BY <1>1, <1>2, <1>3
  DEF Next, LoadLog, AnswerDuplicate, MissDuplicate, Enqueue, Respond, Timeout,
    StageOneReceive, StageOneTimer, Tick, StageOneSend, PutRecordHash, SetIssuer,
    SetSth, SetCheckpoint, PutDedupeEntry, DedupeDone, Return, BatchDone, Fail,
    Die, Exit, Crash, vars

\* What is published stays servable: the uploads come first, and nothing is
\* deleted.
LEMMA NextPublishedIsServed ==
    TypeOK /\ TreeIsTreeHead /\ TreeSizeIsTreeHead /\ IndexIsPosition
      /\ UploadsPrecedeTreeHead /\ PublishedIsServed /\ [Next]_vars
    => PublishedIsServed'
<1> SUFFICES ASSUME TypeOK, TreeIsTreeHead, TreeSizeIsTreeHead, IndexIsPosition,
                    UploadsPrecedeTreeHead, PublishedIsServed, [Next]_vars
             PROVE  PublishedIsServed'
  OBVIOUS
<1> USE DEF bucket
<1>1. hashes \subseteq hashes' /\ issuers \subseteq issuers'
  BY DEF Next, LoadLog, AnswerDuplicate, MissDuplicate, Enqueue, Respond, Timeout,
    StageOneReceive, StageOneTimer, Tick, StageOneSend, StageTwoReceive,
    PutRecordHash, SetIssuer, UploadsDone, SetSth, SetCheckpoint, PutDedupeEntry,
    DedupeDone, Return, BatchDone, Fail, Die, Exit, Crash, vars
<1>2. CASE SetSth
  <2>1. Leaves(batch) \subseteq hashes /\ Chains(batch) \subseteq issuers
    BY <1>2 DEF SetSth, UploadsPrecedeTreeHead
  <2> SUFFICES ASSUME NEW i \in 1 .. Len(sth')
               PROVE  /\ MerkleTreeLeaf(sth'[i]) \in hashes'
                      /\ sth'[i].cert.chain \subseteq issuers'
    BY DEF PublishedIsServed, MerkleTreeLeaf
  <2>2. CASE i <= Len(sth)
    <3>1. i \in 1 .. Len(sth) /\ sth'[i] = sth[i]
      BY <1>2, <2>2, SetSthExtends
    <3>2. MerkleTreeLeaf(sth[i]) \in hashes /\ sth[i].cert.chain \subseteq issuers
      BY <3>1 DEF PublishedIsServed
    <3>3. MerkleTreeLeaf(sth'[i]) = MerkleTreeLeaf(sth[i])
      BY <3>1 DEF MerkleTreeLeaf
    <3> QED BY <1>1, <3>1, <3>2, <3>3
  <2>3. CASE ~(i <= Len(sth))
    <3> DEFINE j == i - Len(sth)
    <3>1. j \in 1 .. Len(batch) /\ i = Len(sth) + j
      BY <1>2, <2>3, SetSthExtends
    <3>2. sth'[i] = batch[j].entry
      BY <1>2, <3>1, SetSthExtends
    <3> HIDE DEF j
    <3>3. MerkleTreeLeaf(batch[j].entry) \in Leaves(batch)
      BY <3>1 DEF Leaves
    <3>4. batch[j].entry.cert.chain \subseteq Chains(batch)
      BY <3>1 DEF Chains
    <3>5. MerkleTreeLeaf(sth'[i]) = MerkleTreeLeaf(batch[j].entry)
      BY <3>2 DEF MerkleTreeLeaf
    <3> QED BY <1>1, <2>1, <3>2, <3>3, <3>4, <3>5
  <2> QED BY <2>2, <2>3
<1>3. CASE UNCHANGED sth
  BY <1>1, <1>3 DEF PublishedIsServed, MerkleTreeLeaf
<1> QED
  BY <1>2, <1>3
  DEF Next, LoadLog, AnswerDuplicate, MissDuplicate, Enqueue, Respond, Timeout,
    StageOneReceive, StageOneTimer, Tick, StageOneSend, StageTwoReceive,
    PutRecordHash, SetIssuer, UploadsDone, SetCheckpoint, PutDedupeEntry,
    DedupeDone, Return, BatchDone, Fail, Die, Exit, Crash, vars

\* A prefix, entry by entry.
LEMMA PrefixPointwise ==
    ASSUME NEW s \in Seq(LogEntry), NEW t \in Seq(LogEntry)
    PROVE  IsPrefix(s, t) <=> /\ Len(s) <= Len(t)
                              /\ \A i \in 1 .. Len(s) : s[i] = t[i]
<1>1. Len(s) \in Nat /\ Len(t) \in Nat
  BY LenProperties
<1>2. SubSeq(s, 1, Len(s)) = s
  BY SubSeqFull
<1>3. CASE Len(s) <= Len(t)
  <2>1. /\ SubSeq(t, 1, Len(s)) \in Seq(LogEntry)
        /\ Len(SubSeq(t, 1, Len(s))) = Len(s)
        /\ \A i \in 1 .. Len(s) : SubSeq(t, 1, Len(s))[i] = t[i]
    <3>1. \A i \in 1 .. Len(s) : t[i] \in LogEntry
      BY <1>1, <1>3, ElementOfSeq
    <3> QED BY <1>1, <3>1, SubSeqProperties
  <2>2. s = SubSeq(t, 1, Len(s)) <=> \A i \in 1 .. Len(s) : s[i] = t[i]
    BY <2>1, SeqEqual
  <2> QED BY <1>2, <1>3, <2>2 DEF IsPrefix
<1>4. CASE ~(Len(s) <= Len(t))
  BY <1>4 DEF IsPrefix
<1> QED BY <1>3, <1>4

\* The checkpoint is written after the tree head, from the same tiles.
LEMMA NextCheckpointBehindSth ==
    TypeOK /\ TypeOK' /\ TreeIsTreeHead /\ TreeSizeIsTreeHead /\ IndexIsPosition
      /\ CheckpointBehindSth /\ [Next]_vars => CheckpointBehindSth'
<1> SUFFICES ASSUME TypeOK, TypeOK', TreeIsTreeHead, TreeSizeIsTreeHead,
                    IndexIsPosition, CheckpointBehindSth, [Next]_vars
             PROVE  CheckpointBehindSth'
  OBVIOUS
<1>0. /\ sth \in Seq(LogEntry) /\ checkpoint \in Seq(LogEntry)
      /\ sth' \in Seq(LogEntry) /\ checkpoint' \in Seq(LogEntry)
  BY DEF TypeOK, BucketTypeOK
<1>1. CASE SetCheckpoint
  <2>1. up /\ pc2 = "checkpoint" /\ UNCHANGED sth
        /\ checkpoint' = SubSeq(tree, 1, UpdatedTreeSize)
    BY <1>1 DEF SetCheckpoint
  <2>2. tree = sth /\ UpdatedTreeSize = Len(sth)
    BY <2>1 DEF TreeIsTreeHead, TreeSizeIsTreeHead, Running
  <2>3. checkpoint' = sth'
    BY <1>0, <2>1, <2>2, SubSeqFull
  <2> QED BY <1>0, <2>3, PrefixPointwise, LenProperties DEF CheckpointBehindSth
<1>2. CASE UNCHANGED checkpoint
  <2>1. Len(checkpoint) <= Len(sth) /\ \A i \in 1 .. Len(checkpoint) : checkpoint[i] = sth[i]
    BY <1>0, PrefixPointwise DEF CheckpointBehindSth
  <2>2. Len(checkpoint) <= Len(sth') /\ \A i \in 1 .. Len(checkpoint) : checkpoint[i] = sth'[i]
    BY <1>0, <2>1, TreeHeadGrows, LenProperties
  <2> QED BY <1>0, <1>2, <2>2, PrefixPointwise DEF CheckpointBehindSth
<1> QED
  BY <1>1, <1>2
  DEF Next, LoadLog, AnswerDuplicate, MissDuplicate, Enqueue, Respond, Timeout,
    StageOneReceive, StageOneTimer, Tick, StageOneSend, StageTwoReceive,
    PutRecordHash, SetIssuer, UploadsDone, SetSth, PutDedupeEntry,
    DedupeDone, Return, BatchDone, Fail, Die, Exit, Crash, vars, bucket

\* What a record of f says of a tree.
RefersTo(d, f, t) ==
    d.idx < Len(t) /\ t[d.idx + 1].cert.fp = f /\ t[d.idx + 1].ts = d.ts

\* Dedupe records are written from entries the tree head covers.
LEMMA NextDedupeRefersToTree ==
    TypeOK /\ TreeIsTreeHead /\ TreeSizeIsTreeHead /\ IndexIsPosition
      /\ PublishedBatch /\ DedupeRefersToTree /\ [Next]_vars
    => DedupeRefersToTree'
<1> SUFFICES ASSUME TypeOK, TreeIsTreeHead, TreeSizeIsTreeHead, IndexIsPosition,
                    PublishedBatch, DedupeRefersToTree, [Next]_vars,
                    NEW f \in Fp, NEW k \in 1 .. Len(dedupe'[f])
             PROVE  RefersTo(dedupe'[f][k], f, sth')
  BY DEF DedupeRefersToTree, RefersTo
<1>0. dedupe \in [Fp -> Seq(DedupeRecord)] /\ dedupe[f] \in Seq(DedupeRecord)
      /\ Len(dedupe[f]) \in Nat
  BY LenProperties DEF TypeOK, BucketTypeOK
<1>1. \A j \in 1 .. Len(dedupe[f]) : RefersTo(dedupe[f][j], f, sth)
  BY DEF DedupeRefersToTree, RefersTo
<1>2. \A j \in 1 .. Len(dedupe[f]) : RefersTo(dedupe[f][j], f, sth')
  <2> SUFFICES ASSUME NEW j \in 1 .. Len(dedupe[f])
               PROVE  RefersTo(dedupe[f][j], f, sth')
    OBVIOUS
  <2> DEFINE d == dedupe[f][j]
  <2>1. d \in DedupeRecord
    BY <1>0, ElementOfSeq
  <2>2. d.idx \in Nat /\ d.idx < Len(sth)
    BY <1>1, <2>1 DEF RefersTo, DedupeRecord
  <2>3. d.idx + 1 \in 1 .. Len(sth) /\ d.idx < Len(sth')
    BY <2>2, TreeHeadGrows
  <2> QED BY <1>1, <2>3, TreeHeadGrows DEF RefersTo
<1>3. CASE PutDedupeEntry
  <2>1. PICK g \in dedupeTodo : \E o \in PoolOrder(batch, g) :
          dedupe' = [dedupe EXCEPT ![g] = InsertRecords(@, ToDedupeRecords(batch, o))]
    BY <1>3 DEF PutDedupeEntry
  <2>2. PICK o \in PoolOrder(batch, g) :
          dedupe' = [dedupe EXCEPT ![g] = dedupe[g] \o ToDedupeRecords(batch, o)]
    BY <2>1 DEF InsertRecords
  <2> DEFINE new == ToDedupeRecords(batch, o)
  <2>3. /\ new \in Seq(DedupeRecord)
        /\ \A j \in 1 .. Len(new) : \E i \in 1 .. Len(batch) :
              batch[i].entry.cert.fp = g /\ new[j] = ToDedupeRecord(batch[i].entry)
    BY NewDedupeRecords DEF TypeOK, StageTwoTypeOK
  <2>4. dedupe' = [dedupe EXCEPT ![g] = dedupe[g] \o new]
    BY <2>2
  <2> HIDE DEF new
  <2>5. pc2 = "dedupe" /\ UNCHANGED sth
    BY <1>3 DEF PutDedupeEntry
  <2>6. CASE f # g
    BY <1>0, <1>2, <2>4, <2>6
  <2>7. CASE f = g
    <3>1. dedupe'[f] = dedupe[f] \o new /\ Len(new) \in Nat
      BY <1>0, <2>3, <2>4, <2>7, LenProperties
    <3>2. CASE k <= Len(dedupe[f])
      <4>1. k \in 1 .. Len(dedupe[f]) /\ dedupe'[f][k] = dedupe[f][k]
        BY <1>0, <2>3, <3>1, <3>2, ConcatProperties
      <4> QED BY <1>2, <4>1
    <3>3. CASE ~(k <= Len(dedupe[f]))
      <4>1. /\ k - Len(dedupe[f]) \in 1 .. Len(new)
            /\ dedupe'[f][k] = new[k - Len(dedupe[f])]
        BY <1>0, <2>3, <3>1, <3>3, ConcatProperties
      <4>2. PICK i \in 1 .. Len(batch) :
              batch[i].entry.cert.fp = f /\ dedupe'[f][k] = ToDedupeRecord(batch[i].entry)
        BY <2>3, <2>7, <4>1
      <4>3. InTree(batch[i].entry, sth)
        BY <2>5 DEF PublishedBatch
      <4> QED BY <2>5, <4>2, <4>3 DEF InTree, RefersTo, ToDedupeRecord
    <3> QED BY <3>2, <3>3
  <2> QED BY <2>6, <2>7
<1>4. CASE UNCHANGED dedupe
  BY <1>2, <1>4
<1> QED
  BY <1>3, <1>4
  DEF Next, LoadLog, AnswerDuplicate, MissDuplicate, Enqueue, Respond, Timeout,
    StageOneReceive, StageOneTimer, Tick, StageOneSend, StageTwoReceive,
    PutRecordHash, SetIssuer, UploadsDone, SetSth, SetCheckpoint,
    DedupeDone, Return, BatchDone, Fail, Die, Exit, Crash, vars, bucket

\* What an SCT says of a tree: the tree has the leaf at that index, and the
\* leaf is of the certificate that was submitted.
Included(s, t) ==
    /\ s.leaf.idx < Len(t)
    /\ s.leaf = MerkleTreeLeaf(t[s.leaf.idx + 1])
    /\ s.leaf.body = EntryOf[s.req].body

\* An entry of the tree that is logged for the certificate of a request makes
\* an included SCT.
LEMMA InTreeIncluded ==
    ASSUME NEW r \in Request, NEW e, NEW t, InTree(e, t), e.cert = EntryOf[r]
    PROVE  Included(Sct(r, e), t)
BY DEF InTree, Included, Sct, MerkleTreeLeaf

\* A dedupe record of the request's certificate makes the SCT of the leaf it
\* points at, when a fingerprint fixes what is logged.
LEMMA DuplicateIncluded ==
    ASSUME TypeOK, IndexIsPosition, TreeSubmitted, FpDeterminesBody,
           NEW r \in Request, NEW d \in DedupeRecord,
           RefersTo(d, EntryOf[r].fp, sth)
    PROVE  Included(Sct(r, Sequence(EntryOf[r], d.idx, d.ts)), sth)
<1> DEFINE e == sth[d.idx + 1]
<1>1. d.idx \in Nat /\ d.idx < Len(sth) /\ e.cert.fp = EntryOf[r].fp /\ e.ts = d.ts
  BY DEF RefersTo, DedupeRecord
<1>2. d.idx + 1 \in 1 .. Len(sth) /\ sth \in Seq(LogEntry) /\ Len(sth) \in Nat
  BY <1>1, LenProperties DEF TypeOK, BucketTypeOK
<1>3. e.idx = d.idx
  BY <1>1, <1>2 DEF IndexIsPosition, Indexed
<1>4. PICK q \in Request : e.cert = EntryOf[q]
  BY <1>2 DEF TreeSubmitted, Submitted
<1>5. e.cert.body = EntryOf[r].body
  BY <1>1, <1>4 DEF FpDeterminesBody
<1> HIDE DEF e
<1>6. MerkleTreeLeaf(e) = [body |-> EntryOf[r].body, idx |-> d.idx, ts |-> d.ts]
  BY <1>1, <1>3, <1>5 DEF MerkleTreeLeaf
<1>7. Sct(r, Sequence(EntryOf[r], d.idx, d.ts))
        = [req |-> r, leaf |-> [body |-> EntryOf[r].body, idx |-> d.idx, ts |-> d.ts]]
  BY DEF Sct, Sequence, MerkleTreeLeaf
<1> QED BY <1>1, <1>6, <1>7 DEF Included, e

\* An SCT is signed for a published leaf, and published leaves stay.
LEMMA NextSctIncluded ==
    TypeOK /\ TreeIsTreeHead /\ TreeSizeIsTreeHead /\ IndexIsPosition
      /\ TreeSubmitted /\ AnswersPublished /\ DedupeRefersToTree
      /\ FpDeterminesBody /\ SctIncluded /\ [Next]_vars => SctIncluded'
<1> SUFFICES ASSUME TypeOK, TreeIsTreeHead, TreeSizeIsTreeHead, IndexIsPosition,
                    TreeSubmitted, AnswersPublished, DedupeRefersToTree,
                    FpDeterminesBody, SctIncluded, [Next]_vars, NEW s \in issued'
             PROVE  Included(s, sth')
  BY DEF SctIncluded, Included, MerkleTreeLeaf
<1> USE DEF handlers, front, bucket
<1>1. CASE s \in issued
  <2>1. Included(s, sth)
    BY <1>1 DEF SctIncluded, Included
  <2>2. s.leaf \in Leaf
    BY <1>1 DEF TypeOK, HandlersTypeOK
  <2>3. s.leaf.idx \in Nat /\ s.leaf.idx < Len(sth)
    BY <2>1, <2>2 DEF Included, Leaf
  <2>4. s.leaf.idx + 1 \in 1 .. Len(sth) /\ s.leaf.idx < Len(sth')
    BY <2>3, TreeHeadGrows
  <2>5. sth'[s.leaf.idx + 1] = sth[s.leaf.idx + 1]
    BY <2>4, TreeHeadGrows
  <2> QED BY <2>1, <2>4, <2>5 DEF Included
<1>2. ASSUME NEW r \in Request, AnswerDuplicate(r), s \notin issued
      PROVE  Included(s, sth')
  <2> DEFINE d == Head(dedupe[EntryOf[r].fp])
  <2>1. dedupe[EntryOf[r].fp] # <<>> /\ UNCHANGED sth
        /\ issued' = issued \cup {Sct(r, Sequence(EntryOf[r], d.idx, d.ts))}
    BY <1>2 DEF AnswerDuplicate
  <2>2. EntryOf[r].fp \in Fp /\ dedupe[EntryOf[r].fp] \in Seq(DedupeRecord)
    BY DEF TypeOK, BucketTypeOK, UnsequencedEntry
  <2>3. d = dedupe[EntryOf[r].fp][1] /\ d \in DedupeRecord
        /\ 1 \in 1 .. Len(dedupe[EntryOf[r].fp])
    BY <2>1, <2>2, HeadTailProperties, EmptySeq, LenProperties
  <2>4. s = Sct(r, Sequence(EntryOf[r], d.idx, d.ts))
    BY <1>2, <2>1
  <2> HIDE DEF d
  <2>5. RefersTo(d, EntryOf[r].fp, sth)
    BY <2>2, <2>3 DEF DedupeRefersToTree, RefersTo
  <2>6. Included(s, sth)
    BY <2>3, <2>4, <2>5, DuplicateIncluded
  <2> QED BY <2>1, <2>6
<1>3. ASSUME NEW r \in Request, Respond(r), s \notin issued
      PROVE  Included(s, sth')
  <2> DEFINE e == Head(returnPath[r])
  <2>1. returnPath[r] # <<>> /\ UNCHANGED sth /\ issued' = issued \cup {Sct(r, e)}
    BY <1>3 DEF Respond
  <2>2. returnPath[r] \in Seq(LogEntry)
    BY DEF TypeOK, HandlersTypeOK
  <2>3. e = returnPath[r][1] /\ 1 \in 1 .. Len(returnPath[r])
    BY <2>1, <2>2, HeadTailProperties, EmptySeq, LenProperties
  <2>4. s = Sct(r, e)
    BY <1>3, <2>1
  <2> HIDE DEF e
  <2>5. InTree(e, sth) /\ e.cert = EntryOf[r]
    BY <2>3 DEF AnswersPublished
  <2> QED BY <2>1, <2>4, <2>5, InTreeIncluded
<1>4. CASE UNCHANGED issued
  BY <1>1, <1>4
<1> QED
  BY <1>1, <1>2, <1>3, <1>4
  DEF Next, LoadLog, MissDuplicate, Enqueue, Timeout, StageOneReceive,
    StageOneTimer, Tick, StageOneSend, StageTwoReceive, PutRecordHash, SetIssuer,
    UploadsDone, SetSth, SetCheckpoint, PutDedupeEntry, DedupeDone, Return,
    BatchDone, Fail, Die, Exit, Crash, vars

\* A step keeps the first record of a dedupe file.
LEMMA NextFirstRecord ==
    TypeOK /\ [Next]_vars
      => \A f \in Fp : dedupe[f] # <<>>
            => dedupe'[f] # <<>> /\ Head(dedupe'[f]) = Head(dedupe[f])
<1> SUFFICES ASSUME TypeOK, [Next]_vars, NEW f \in Fp, dedupe[f] # <<>>
             PROVE  dedupe'[f] # <<>> /\ Head(dedupe'[f]) = Head(dedupe[f])
  OBVIOUS
<1>1. CASE PutDedupeEntry
  <2>1. PICK g \in dedupeTodo : \E o \in PoolOrder(batch, g) :
          dedupe' = [dedupe EXCEPT ![g] = InsertRecords(@, ToDedupeRecords(batch, o))]
    BY <1>1 DEF PutDedupeEntry
  <2>2. PICK o \in PoolOrder(batch, g) :
          dedupe' = [dedupe EXCEPT ![g] = dedupe[g] \o ToDedupeRecords(batch, o)]
    BY <2>1 DEF InsertRecords
  <2> DEFINE new == ToDedupeRecords(batch, o)
  <2>3. new \in Seq(DedupeRecord)
    BY NewDedupeRecords DEF TypeOK, StageTwoTypeOK
  <2>4. dedupe' = [dedupe EXCEPT ![g] = dedupe[g] \o new]
    BY <2>2
  <2>5. dedupe \in [Fp -> Seq(DedupeRecord)] /\ dedupe[f] \in Seq(DedupeRecord)
    BY DEF TypeOK, BucketTypeOK
  <2> HIDE DEF new
  <2>6. CASE f = g
    <3>1. dedupe'[f] = dedupe[f] \o new
      BY <2>4, <2>5, <2>6
    <3>2. Len(dedupe[f]) \in Nat \ {0} /\ Len(new) \in Nat
      BY <2>3, <2>5, EmptySeq, LenProperties
    <3>3. /\ dedupe'[f] \in Seq(DedupeRecord)
          /\ Len(dedupe'[f]) = Len(dedupe[f]) + Len(new)
          /\ dedupe'[f][1] = dedupe[f][1]
      BY <2>3, <2>5, <3>1, <3>2, ConcatProperties
    <3>4. dedupe'[f] # <<>>
      BY <3>2, <3>3, EmptySeq
    <3> QED BY <2>5, <3>3, <3>4, HeadTailProperties
  <2>7. CASE f # g
    BY <2>4, <2>5, <2>7
  <2> QED BY <2>6, <2>7
<1>2. CASE UNCHANGED dedupe
  BY <1>2
<1> QED
  BY <1>1, <1>2
  DEF Next, LoadLog, AnswerDuplicate, MissDuplicate, Enqueue, Respond, Timeout,
    StageOneReceive, StageOneTimer, Tick, StageOneSend, StageTwoReceive,
    PutRecordHash, SetIssuer, UploadsDone, SetSth, SetCheckpoint, DedupeDone,
    Return, BatchDone, Fail, Die, Exit, Crash, vars, bucket

\* The records of a certificate of the pool are not empty.
LEMMA DedupeRecordsOfPool ==
    ASSUME NEW p \in Seq(LogEntryWithReturnPath), NEW f \in Fps(p), NEW o \in PoolOrder(p, f)
    PROVE  Len(ToDedupeRecords(p, o)) \in Nat \ {0}
<1> DEFINE mine == {i \in 1 .. Len(p) : p[i].entry.cert.fp = f}
<1> DEFINE n == Cardinality(mine)
<1>1. IsFiniteSet(mine) /\ n \in Nat /\ mine # {}
  <2>1. IsFiniteSet(1 .. Len(p))
    BY FS_Interval, LenProperties
  <2>2. mine # {}
    BY DEF Fps
  <2> QED BY <2>1, <2>2, FS_Subset, FS_CardinalityType
<1>2. n # 0
  BY <1>1, FS_EmptySet
<1>3. o \in [1 .. n -> mine]
  BY DEF PoolOrder
<1>4. ToDedupeRecords(p, o) \in [1 .. n -> {ToDedupeRecord(p[i].entry) : i \in mine}]
  BY <1>3 DEF ToDedupeRecords
<1> HIDE DEF mine, n
<1> QED BY <1>1, <1>2, <1>4, IsASeq

\* PutDedupeEntry gives its certificate a record.
LEMMA PutDedupeEntryRecords ==
    ASSUME TypeOK, BatchDeduped, PutDedupeEntry
    PROVE  \E g \in dedupeTodo : dedupeTodo' = dedupeTodo \ {g} /\ dedupe'[g] # <<>>
<1>1. PICK g \in dedupeTodo : \E o \in PoolOrder(batch, g) :
        /\ dedupe' = [dedupe EXCEPT ![g] = dedupe[g] \o ToDedupeRecords(batch, o)]
        /\ dedupeTodo' = dedupeTodo \ {g}
  BY DEF PutDedupeEntry, InsertRecords
<1>2. PICK o \in PoolOrder(batch, g) :
        /\ dedupe' = [dedupe EXCEPT ![g] = dedupe[g] \o ToDedupeRecords(batch, o)]
        /\ dedupeTodo' = dedupeTodo \ {g}
  BY <1>1
<1> DEFINE new == ToDedupeRecords(batch, o)
<1>3. g \in Fps(batch) /\ g \in Fp
  BY DEF BatchDeduped, PutDedupeEntry, TypeOK, StageTwoTypeOK
<1>4. new \in Seq(DedupeRecord) /\ Len(new) \in Nat \ {0}
  BY <1>3, NewDedupeRecords, DedupeRecordsOfPool DEF TypeOK, StageTwoTypeOK
<1>5. dedupe \in [Fp -> Seq(DedupeRecord)] /\ dedupe[g] \in Seq(DedupeRecord)
  BY <1>3 DEF TypeOK, BucketTypeOK
<1> HIDE DEF new
<1>6. dedupe'[g] = dedupe[g] \o new
  BY <1>2, <1>3, <1>5 DEF new
<1>7. Len(dedupe[g]) \in Nat /\ Len(dedupe'[g]) = Len(dedupe[g]) + Len(new)
  BY <1>4, <1>5, <1>6, ConcatProperties, LenProperties
<1>8. dedupe'[g] \in Seq(DedupeRecord)
  BY <1>4, <1>5, <1>6, ConcatProperties
<1>9. dedupe'[g] # <<>>
  BY <1>4, <1>7, <1>8, EmptySeq
<1> QED BY <1>2, <1>9

\* The certificates of a pool have their records before its answers are given.
LEMMA NextBatchDeduped == TypeOK /\ BatchDeduped /\ [Next]_vars => BatchDeduped'
<1> SUFFICES ASSUME TypeOK, BatchDeduped, [Next]_vars PROVE BatchDeduped'
  OBVIOUS
<1> USE DEF front, process, stage2, bucket
<1>0. \A i \in 1 .. Len(batch) : batch[i].entry.cert.fp \in Fps(batch) /\ Fps(batch) \subseteq Fp
  BY PoolTypes DEF Fps, TypeOK, StageTwoTypeOK
<1>1. CASE SetCheckpoint
  BY <1>0, <1>1 DEF SetCheckpoint, BatchDeduped, HasRecord, Fps
<1>2. CASE PutDedupeEntry
  <2>1. PICK g \in dedupeTodo : dedupeTodo' = dedupeTodo \ {g} /\ dedupe'[g] # <<>>
    BY <1>2, PutDedupeEntryRecords
  <2>2. pc2 = "dedupe" /\ UNCHANGED <<pc2, batch>>
    BY <1>2 DEF PutDedupeEntry
  <2>3. dedupeTodo' \subseteq Fps(batch)
    BY <2>1, <2>2 DEF BatchDeduped
  <2>4. ASSUME NEW i \in 1 .. Len(batch)
        PROVE  batch[i].entry.cert.fp \in dedupeTodo' \/ dedupe'[batch[i].entry.cert.fp] # <<>>
    BY <1>0, <2>1, <2>2, NextFirstRecord DEF BatchDeduped, HasRecord
  <2> QED BY <2>2, <2>3, <2>4 DEF BatchDeduped, HasRecord, Fps
<1>3. CASE DedupeDone
  BY <1>3 DEF DedupeDone, BatchDeduped, HasRecord
<1>4. CASE Return
  <2>1. /\ Len(batch') = Len(batch) - 1 /\ Len(batch) \in Nat
        /\ \A i \in 1 .. Len(batch) - 1 : batch'[i] = batch[i + 1]
    BY <1>4, HeadTailProperties, Lengths DEF Return, TypeOK, StageTwoTypeOK
  <2> QED BY <1>4, <2>1 DEF Return, BatchDeduped, HasRecord
<1>5. CASE pc2' \notin {"dedupe", "return"}
  BY <1>5 DEF BatchDeduped
<1>6. CASE UNCHANGED <<pc2, batch, dedupeTodo, dedupe>>
  BY <1>6 DEF BatchDeduped, HasRecord, Fps
<1> QED
  BY <1>1, <1>2, <1>3, <1>4, <1>5, <1>6
  DEF Next, LoadLog, AnswerDuplicate, MissDuplicate, Enqueue, Respond, Timeout,
    StageOneReceive, StageOneTimer, Tick, StageOneSend, StageTwoReceive,
    PutRecordHash, SetIssuer, UploadsDone, SetSth, BatchDone, Fail, Die, Exit,
    Crash, vars

\* Who is answered has a dedupe record: what waits on its return path ...
LEMMA NextAnswersDeduped ==
    TypeOK /\ PoolsRouted /\ BatchDeduped /\ AnswersDeduped /\ [Next]_vars
    => AnswersDeduped'
<1> SUFFICES ASSUME TypeOK, PoolsRouted, BatchDeduped, AnswersDeduped, [Next]_vars,
                    NEW r \in Request, returnPath'[r] # <<>>
             PROVE  dedupe'[EntryOf[r].fp] # <<>>
  BY DEF AnswersDeduped
<1> USE DEF handlers, front, bucket
<1>0. /\ returnPath \in [Request -> Seq(LogEntry)]
      /\ EntryOf[r].fp \in Fp
  BY SubmitAssumption DEF TypeOK, HandlersTypeOK, UnsequencedEntry
<1>1. CASE Return
  <2>1. batch # <<>> /\ batch \in Seq(LogEntryWithReturnPath)
        /\ pc2 = "return" /\ UNCHANGED dedupe
    BY <1>1 DEF Return, TypeOK, StageTwoTypeOK
  <2>2. Head(batch) = batch[1] /\ 1 \in 1 .. Len(batch)
    BY <2>1, HeadTailProperties, EmptySeq
  <2>3. dedupe[EntryOf[Head(batch).returnPath].fp] # <<>>
    BY <2>1, <2>2 DEF BatchDeduped, HasRecord, PoolsRouted, Routed
  <2>4. r # Head(batch).returnPath => returnPath'[r] = returnPath[r]
    BY <1>0, <1>1 DEF Return
  <2> QED BY <2>1, <2>3, <2>4 DEF AnswersDeduped
<1>2. ASSUME returnPath[r] # <<>> PROVE dedupe'[EntryOf[r].fp] # <<>>
  BY <1>0, <1>2, NextFirstRecord DEF AnswersDeduped
<1>3. ASSUME NEW q \in Request, Respond(q) PROVE returnPath[r] # <<>>
  BY <1>0, <1>3 DEF Respond
<1>4. CASE Die
  BY <1>4 DEF Die
<1> QED
  BY <1>1, <1>2, <1>3, <1>4
  DEF Next, LoadLog, AnswerDuplicate, MissDuplicate, Enqueue, Timeout,
    StageOneReceive, StageOneTimer, Tick, StageOneSend, StageTwoReceive,
    PutRecordHash, SetIssuer, UploadsDone, SetSth, SetCheckpoint,
    PutDedupeEntry, DedupeDone, BatchDone, Fail, Exit, Crash, vars

\* ... and what was sent.
LEMMA NextAnsweredIsDeduped ==
    TypeOK /\ AnswersDeduped /\ AnsweredIsDeduped /\ [Next]_vars => AnsweredIsDeduped'
<1> SUFFICES ASSUME TypeOK, AnswersDeduped, AnsweredIsDeduped, [Next]_vars,
                    NEW s \in issued'
             PROVE  dedupe'[EntryOf[s.req].fp] # <<>>
  BY DEF AnsweredIsDeduped
<1> USE DEF handlers, front, bucket
<1>1. CASE s \in issued
  <2>1. EntryOf[s.req].fp \in Fp
    BY <1>1, SubmitAssumption DEF TypeOK, HandlersTypeOK, UnsequencedEntry
  <2> QED BY <1>1, <2>1, NextFirstRecord DEF AnsweredIsDeduped
<1>2. ASSUME NEW r \in Request, AnswerDuplicate(r), s \notin issued
      PROVE  dedupe'[EntryOf[s.req].fp] # <<>>
  BY <1>2 DEF AnswerDuplicate, Sct
<1>3. ASSUME NEW r \in Request, Respond(r), s \notin issued
      PROVE  dedupe'[EntryOf[s.req].fp] # <<>>
  BY <1>3 DEF Respond, Sct, AnswersDeduped
<1> QED
  BY <1>1, <1>2, <1>3
  DEF Next, LoadLog, MissDuplicate, Enqueue, Timeout, StageOneReceive,
    StageOneTimer, Tick, StageOneSend, StageTwoReceive, PutRecordHash, SetIssuer,
    UploadsDone, SetSth, SetCheckpoint, PutDedupeEntry, DedupeDone, Return,
    BatchDone, Fail, Die, Exit, Crash, vars

\* The check of the last flush bounds what re-arming the timer adds.
LEMMA NextOpenPool ==
    TypeOK /\ OpenPoolIsFlushedInTime /\ [Next]_vars => OpenPoolIsFlushedInTime'
<1> SUFFICES ASSUME TypeOK, OpenPoolIsFlushedInTime, [Next]_vars
             PROVE  OpenPoolIsFlushedInTime'
  OBVIOUS
<1> USE DEF OpenPoolIsFlushedInTime, stage1, timers, process, front
<1>0. sinceFlush \in Nat /\ sinceArm \in Nat
  BY DEF TypeOK, StageOneTypeOK
<1>1. CASE StageOneReceive
  <2>1. sinceArm' = 0 /\ (pc1' = "select" => ~ FlushDue /\ sinceFlush' = sinceFlush)
    BY <1>1 DEF StageOneReceive, ClosePool
  <2> QED BY <1>0, <2>1 DEF FlushDue
<1>2. CASE Tick
  <2>1. UNCHANGED <<pc1, pool>>
    BY <1>2 DEF Tick
  <2>2. sinceFlush' \in Nat /\ sinceArm' \in Nat /\ sinceFlush' <= sinceFlush + 1
    BY <1>0, <1>2 DEF Tick, Older
  <2>3. sinceArm' < FlushInterval => sinceArm' = sinceArm + 1
    BY <1>0, <1>2 DEF Tick, Older
  <2> QED BY <1>0, <2>1, <2>2, <2>3
<1>3. CASE StageOneTimer \/ StageOneSend \/ Die
  BY <1>3 DEF StageOneTimer, ClosePool, StageOneSend, Die
<1>4. CASE UNCHANGED <<pool, pc1, timers>>
  BY <1>4
<1> QED
  BY <1>1, <1>2, <1>3, <1>4
  DEF Next, LoadLog, AnswerDuplicate, MissDuplicate, Enqueue, Respond, Timeout,
    StageTwoReceive, PutRecordHash, SetIssuer, UploadsDone, SetSth,
    SetCheckpoint, PutDedupeEntry, DedupeDone, Return, BatchDone, Fail, Exit,
    Crash, vars

\* The parts of the invariant hold at first.
LEMMA InitIInv == Init => IInv
<1> SUFFICES ASSUME Init PROVE IInv
  OBVIOUS
<1>1. TypeOK
  BY InitTypeOK
<1>2. /\ DownIsEmpty /\ TreeIsTreeHead /\ TreeSizeIsTreeHead /\ IndexIsPosition
      /\ PoolsContinueTree /\ UploadsPrecedeTreeHead
  BY DEF Init, DownIsEmpty, TreeIsTreeHead, TreeSizeIsTreeHead, IndexIsPosition,
    Indexed, PoolsContinueTree, UploadsPrecedeTreeHead, Running
<1>3. PoolsRouted /\ TreeSubmitted /\ PublishedBatch
  BY DEF Init, PoolsRouted, Routed, TreeSubmitted, Submitted, PublishedBatch, Running
<1>4. AnswersPublished /\ DedupeRefersToTree
  BY DEF Init, AnswersPublished, DedupeRefersToTree
<1>5. PublishedIsServed /\ SctIncluded
  BY DEF Init, PublishedIsServed, SctIncluded
<1>6. OpenPoolIsFlushedInTime
  BY DEF Init, OpenPoolIsFlushedInTime
<1>7. BatchDeduped /\ AnswersDeduped /\ AnsweredIsDeduped
  BY DEF Init, BatchDeduped, AnswersDeduped, AnsweredIsDeduped
<1>8. CheckpointBehindSth
  <2>1. sth = checkpoint /\ sth \in Seq(LogEntry) /\ Len(sth) \in Nat
    BY <1>1, LenProperties DEF Init, TypeOK, BucketTypeOK
  <2> QED BY <2>1, PrefixPointwise DEF CheckpointBehindSth
<1> QED BY <1>1, <1>2, <1>3, <1>4, <1>5, <1>6, <1>7, <1>8 DEF IInv

\* Every step keeps every part.
LEMMA NextIInv == IInv /\ TypeOK' /\ [Next]_vars => IInv'
<1> SUFFICES ASSUME IInv, TypeOK', [Next]_vars PROVE IInv'
  OBVIOUS
<1>1. DownIsEmpty' /\ TreeIsTreeHead' /\ TreeSizeIsTreeHead' /\ IndexIsPosition'
  BY NextDownIsEmpty, NextTreeIsTreeHead, NextTreeSizeIsTreeHead,
     NextIndexIsPosition DEF IInv
<1>2. PoolsContinueTree' /\ PoolsRouted' /\ TreeSubmitted'
  BY NextPoolsContinueTree, NextPoolsRouted, NextTreeSubmitted DEF IInv
<1>3. PublishedBatch' /\ AnswersPublished' /\ UploadsPrecedeTreeHead'
  BY NextPublishedBatch, NextAnswersPublished, NextUploadsPrecedeTreeHead DEF IInv
<1>4. PublishedIsServed' /\ CheckpointBehindSth' /\ DedupeRefersToTree'
  BY NextPublishedIsServed, NextCheckpointBehindSth, NextDedupeRefersToTree DEF IInv
<1>5. FpDeterminesBody' => SctIncluded'
  <2>1. FpDeterminesBody' <=> FpDeterminesBody
    BY DEF FpDeterminesBody
  <2> QED BY <2>1, NextSctIncluded DEF IInv
<1>7. OpenPoolIsFlushedInTime'
  BY NextOpenPool DEF IInv
<1>6. BatchDeduped' /\ AnswersDeduped' /\ AnsweredIsDeduped'
  BY NextBatchDeduped, NextAnswersDeduped, NextAnsweredIsDeduped DEF IInv
<1> QED BY <1>1, <1>2, <1>3, <1>4, <1>5, <1>6, <1>7 DEF IInv

-----------------------------------------------------------------------------
\* The safety theorems

\* The inductive invariant: the tiles in memory, the pools in flight and the
\* bucket of one process fit together in every state, whatever fails.
THEOREM Inductive == Spec => []IInv
<1>1. IInv /\ []TypeOK /\ [][Next]_vars => []IInv
  BY NextIInv, PTL
<1> QED BY <1>1, InitIInv, TypeCorrect, PTL DEF Spec

\* Zero merge delay: an SCT is signed over a leaf the tree head already covers.
\* It takes that a fingerprint fixes what is logged; SubmitPrecert shows why.
THEOREM ZeroMergeDelay == Spec => [](FpDeterminesBody => SctIncluded)
<1>1. IInv => (FpDeterminesBody => SctIncluded)
  BY DEF IInv
<1> QED BY <1>1, Inductive, PTL

\* Then two SCTs for one index are one SCT, whoever asked and whenever: what the
\* deterministic signatures are for.
THEOREM SameIndexSameSct == Spec => [](FpDeterminesBody => DuplicateSctIdentical)
<1>1. SctIncluded => DuplicateSctIdentical
  BY DEF SctIncluded, DuplicateSctIdentical
<1>2. (FpDeterminesBody => SctIncluded) => (FpDeterminesBody => DuplicateSctIdentical)
  BY <1>1
<1> QED BY <1>2, ZeroMergeDelay, PTL

\* Record hashes and issuers are there before the tree head needs them.
THEOREM Served == Spec => []PublishedIsServed
<1>1. IInv => PublishedIsServed
  BY DEF IInv
<1> QED BY <1>1, Inductive, PTL

\* The checkpoint never runs ahead of the tree head, nor off its history.
THEOREM CheckpointConsistent == Spec => []CheckpointBehindSth
<1>1. IInv => CheckpointBehindSth
  BY DEF IInv
<1> QED BY <1>1, Inductive, PTL

\* A dedupe record never points at a leaf that is not published.
THEOREM DedupePublished == Spec => []DedupeRefersToTree
<1>1. IInv => DedupeRefersToTree
  BY DEF IInv
<1> QED BY <1>1, Inductive, PTL

\* Append only, over every crash and restart.
THEOREM AppendOnly == Spec => SthAppendOnly
<1>1. IInv /\ TypeOK' /\ [Next]_vars => IsPrefix(sth, sth')
  <2> SUFFICES ASSUME IInv, TypeOK', [Next]_vars PROVE IsPrefix(sth, sth')
    OBVIOUS
  <2>1. sth \in Seq(LogEntry) /\ sth' \in Seq(LogEntry)
    BY DEF IInv, TypeOK, BucketTypeOK
  <2>2. Len(sth) <= Len(sth') /\ \A i \in 1 .. Len(sth) : sth[i] = sth'[i]
    BY TreeHeadGrows DEF IInv
  <2> QED BY <2>1, <2>2, PrefixPointwise
<1>2. IInv /\ TypeOK' /\ [Next]_vars => [IsPrefix(sth, sth')]_vars
  BY <1>1
<1> QED BY <1>2, Inductive, TypeCorrect, PTL DEF Spec, SthAppendOnly

\* The first record of a dedupe file, the one duplicates are answered from,
\* never changes, whatever is appended and wherever a process dies.
THEOREM FirstRecordStays == Spec => DedupeStable
<1>1. TypeOK /\ [Next]_vars
      => [\A f \in Fp : dedupe[f] # <<>>
            => dedupe'[f] # <<>> /\ Head(dedupe'[f]) = Head(dedupe[f])]_vars
  BY NextFirstRecord
<1> QED BY <1>1, TypeCorrect, PTL DEF Spec, DedupeStable

\* Whoever has an SCT is answered from a dedupe record when it comes again.
THEOREM AnsweredDeduped == Spec => []AnsweredIsDeduped
<1>1. IInv => AnsweredIsDeduped
  BY DEF IInv
<1> QED BY <1>1, Inductive, PTL

\* An open pool is never two intervals old, however entries come and however
\* often they arm the timer anew.
THEOREM FlushedInTime == Spec => []OpenPoolIsFlushedInTime
<1>1. IInv => OpenPoolIsFlushedInTime
  BY DEF IInv
<1> QED BY <1>1, Inductive, PTL

-----------------------------------------------------------------------------
\* The process implements the abstract log

\* A grown tree head is a publication of CTLog.
LEMMA SetSthPublishes ==
    ASSUME IInv, IInv', [Next]_vars, SetSth
    PROVE  Abstract!Publish
<1>1. /\ sth \in Seq(LogEntry) /\ sth' \in Seq(LogEntry)
      /\ Len(sth) \in Nat /\ Len(sth') \in Nat /\ Len(sth) <= Len(sth')
      /\ \A i \in 1 .. Len(sth) : sth'[i] = sth[i]
  BY TreeHeadGrows DEF IInv, TypeOK, BucketTypeOK
<1>2. \A i \in 1 .. Len(sth') : sth'[i] \in LogEntry /\ sth'[i].idx = i - 1
  BY <1>1, ElementOfSeq DEF IInv, IndexIsPosition, Indexed
<1>3. /\ Published' \in Seq(Leaf) /\ Len(Published') = Len(sth')
      /\ \A i \in 1 .. Len(sth') : Published'[i] = MerkleTreeLeaf(sth'[i])
  <2>1. Published' = [i \in 1 .. Len(sth') |-> MerkleTreeLeaf(sth'[i])]
    BY DEF Published, MerkleTreeLeaf
  <2>2. Published' \in [1 .. Len(sth') -> Leaf]
    BY <1>2, <2>1, MerkleTreeLeafType
  <2> QED BY <1>1, <2>1, <2>2, IsASeq
<1>4. /\ Published \in Seq(Leaf) /\ Len(Published) = Len(sth)
      /\ \A i \in 1 .. Len(sth) : Published[i] = MerkleTreeLeaf(sth[i])
  <2>1. \A i \in 1 .. Len(sth) : MerkleTreeLeaf(sth[i]) \in Leaf
    BY <1>1, ElementOfSeq, MerkleTreeLeafType
  <2>2. Published \in [1 .. Len(sth) -> Leaf]
    BY <2>1 DEF Published
  <2> QED BY <1>1, <2>2, IsASeq DEF Published
<1>5. IsPrefix(Published, Published')
  <2>1. ASSUME NEW i \in 1 .. Len(sth) PROVE Published[i] = Published'[i]
    <3>1. i \in 1 .. Len(sth') /\ sth'[i] = sth[i]
      BY <1>1
    <3> QED BY <1>3, <1>4, <3>1
  <2>2. /\ SubSeq(Published', 1, Len(Published)) \in Seq(Leaf)
        /\ Len(SubSeq(Published', 1, Len(Published))) = Len(Published)
        /\ \A i \in 1 .. Len(Published) :
             SubSeq(Published', 1, Len(Published))[i] = Published'[i]
    <3>1. \A i \in 1 .. Len(Published) : Published'[i] \in Leaf
      BY <1>1, <1>3, <1>4, ElementOfSeq
    <3> QED BY <1>1, <1>4, <3>1, SubSeqProperties
  <2>3. SubSeq(Published', 1, Len(Published)) = Published
    BY <1>4, <2>1, <2>2, SeqEqual
  <2>4. SubSeq(Published, 1, Len(Published)) = Published
    BY <1>4, SubSeqFull
  <2> QED BY <1>1, <1>3, <1>4, <2>3, <2>4 DEF IsPrefix
<1>6. \A i \in Len(Published) + 1 .. Len(Published') : Published'[i].idx = i - 1
  <2>1. \A i \in 1 .. Len(sth') : MerkleTreeLeaf(sth'[i]).idx = i - 1
    BY <1>2 DEF MerkleTreeLeaf
  <2> QED BY <1>1, <1>3, <1>4, <2>1
<1>7. UNCHANGED Promised
  BY DEF SetSth, front, handlers, Promised
<1> QED BY <1>3, <1>5, <1>6, <1>7 DEF Abstract!Publish, Abstract!IsPrefix, IsPrefix

\* A new SCT is a promise of CTLog.
LEMMA IssuePromises ==
    ASSUME IInv, IInv', FpDeterminesBody, UNCHANGED sth,
           NEW s \in issued', issued' = issued \cup {s}
    PROVE  Abstract!Promise
<1>1. Included(s, sth) /\ s.leaf \in Leaf
  <2>1. FpDeterminesBody'
    BY DEF FpDeterminesBody
  <2>2. SctIncluded' /\ HandlersTypeOK'
    BY <2>1 DEF IInv, TypeOK
  <2>3. s.leaf \in Leaf
    BY <2>2 DEF HandlersTypeOK
  <2>4. Included(s, sth')
    BY <2>2 DEF SctIncluded, Included, MerkleTreeLeaf
  <2> QED BY <2>3, <2>4
<1>2. Len(sth) \in Nat
  BY LenProperties DEF IInv, TypeOK, BucketTypeOK
<1> DEFINE i == s.leaf.idx + 1
<1>3. i \in 1 .. Len(sth) /\ s.leaf = MerkleTreeLeaf(sth[i])
  BY <1>1, <1>2 DEF Included, Leaf
<1> HIDE DEF i
<1>4. Published = [j \in 1 .. Len(sth) |-> MerkleTreeLeaf(sth[j])]
  BY DEF Published
<1>5. Len(Published) = Len(sth) /\ Published[i] = s.leaf
  BY <1>2, <1>3, <1>4
<1>6. Promised' = Promised \cup {s.leaf}
  BY DEF Promised
<1>7. UNCHANGED Published
  BY DEF Published, MerkleTreeLeaf
<1> QED BY <1>3, <1>5, <1>6, <1>7 DEF Abstract!Promise

\* Every step of the process and every crash is a publication, a promise for a
\* published leaf, or nothing: the bucket is a log with a zero merge delay.
THEOREM Implementation == ASSUME FpDeterminesBody PROVE Spec => ImplementsCTLog
<1>1. Init => Abstract!Init
  BY DEF Init, Abstract!Init, Published, Promised
<1>2. IInv /\ IInv' /\ [Next]_vars => [Abstract!Next]_(Abstract!vars)
  <2> SUFFICES ASSUME IInv, IInv', [Next]_vars
               PROVE  [Abstract!Next]_(Abstract!vars)
    OBVIOUS
  <2>1. CASE SetSth
    BY <2>1, SetSthPublishes DEF Abstract!Next
  <2>2. ASSUME NEW r \in Request, AnswerDuplicate(r) \/ Respond(r)
        PROVE  Abstract!Next
    <3>1. PICK e : issued' = issued \cup {Sct(r, e)}
      BY <2>2 DEF AnswerDuplicate, Respond
    <3>2. UNCHANGED sth
      BY <2>2 DEF AnswerDuplicate, Respond, bucket
    <3> QED BY <3>1, <3>2, IssuePromises DEF Abstract!Next
  <2>3. CASE UNCHANGED <<sth, issued>>
    BY <2>3 DEF Abstract!vars, Published, Promised, MerkleTreeLeaf
  <2> QED
    BY <2>1, <2>2, <2>3
    DEF Next, LoadLog, MissDuplicate, Enqueue, Timeout, StageOneReceive,
      StageOneTimer, Tick, StageOneSend, StageTwoReceive, PutRecordHash, SetIssuer,
      UploadsDone, SetCheckpoint, PutDedupeEntry, DedupeDone, Return,
      BatchDone, Fail, Die, Exit, Crash, vars, bucket, handlers, front
<1> QED BY <1>1, <1>2, Inductive, PTL DEF Spec, ImplementsCTLog, Abstract!Spec
=============================================================================
