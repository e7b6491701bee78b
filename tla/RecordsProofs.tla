--------------------------- MODULE RecordsProofs ---------------------------
(***************************************************************************)
(* Proofs about Records: files stay sorted, no record is lost, and the     *)
(* first record of a hash stays the first, for any hashes, prefixes and    *)
(* pools and over any crash.                                               *)
(***************************************************************************)
EXTENDS Records, SequenceTheorems, WellFoundedInduction, TLAPS

-----------------------------------------------------------------------------
\* Lemmas

\* A record with an index below the limit is read as it was put.
LEMMA BytesKeepRecord ==
    ASSUME NEW r \in Record
    PROVE  ToBytes(r) = r
<1>1. r = [hash |-> r.hash, index |-> r.index] /\ r.index \in 0 .. MaxIndex - 1
  BY DEF Record
<1>2. r.index \in Nat /\ r.index < IndexLimit /\ IndexLimit \in Nat
  BY <1>1, RecordsAssumption
<1>3. r.index % IndexLimit = r.index
  BY <1>2
<1> QED BY <1>1, <1>3 DEF ToBytes

\* Hashes are numbers.
LEMMA HashesCompare ==
    ASSUME NEW r \in Record
    PROVE  r.hash \in Nat /\ r.hash \in Hash
BY RecordsAssumption DEF Record

\* The longer file: what is before the place stays, what is behind it moves by one.
LEMMA InsertShape ==
    ASSUME NEW rs \in Seq(Record), NEW r \in Record, NEW i \in 0 .. Len(rs)
    PROVE  /\ InsertAt(rs, i, r) \in Seq(Record)
           /\ Len(InsertAt(rs, i, r)) = Len(rs) + 1 /\ Len(rs) \in Nat
           /\ \A k \in 1 .. i : InsertAt(rs, i, r)[k] = rs[k]
           /\ InsertAt(rs, i, r)[i + 1] = r
           /\ \A k \in i + 1 .. Len(rs) : InsertAt(rs, i, r)[k + 1] = rs[k]
<1>1. Len(rs) \in Nat
  BY LenProperties
<1> DEFINE e(k) == IF k <= i THEN rs[k] ELSE IF k = i + 1 THEN r ELSE rs[k - 1]
<1>2. ASSUME NEW k \in 1 .. Len(rs) + 1 PROVE e(k) \in Record
  <2>1. CASE k <= i
    BY <1>1, <2>1, ElementOfSeq
  <2>2. CASE k > i + 1
    <3>1. k - 1 \in 1 .. Len(rs)
      BY <1>1, <2>2
    <3> QED BY <1>1, <2>2, <3>1, ElementOfSeq
  <2> QED BY <1>1, <2>1, <2>2
<1>3. InsertAt(rs, i, r) = [k \in 1 .. Len(rs) + 1 |-> e(k)]
  BY DEF InsertAt
<1> HIDE DEF e
<1>4. InsertAt(rs, i, r) \in Seq(Record)
  BY <1>1, <1>2, <1>3, IsASeq
<1>5. Len(InsertAt(rs, i, r)) = Len(rs) + 1
  BY <1>1, <1>3, <1>4, LenProperties
<1>6. \A k \in 1 .. Len(rs) + 1 : InsertAt(rs, i, r)[k] = e(k)
  BY <1>3
<1> QED BY <1>1, <1>4, <1>5, <1>6 DEF e

\* An inserted record keeps the file sorted.
LEMMA InsertSorted ==
    ASSUME NEW rs \in Seq(Record), NEW r \in Record, NEW i \in 0 .. Len(rs),
           Sorted(rs), InsertIndex(i, rs, r.hash)
    PROVE  Sorted(InsertAt(rs, i, r))
<1> DEFINE new == InsertAt(rs, i, r)
<1>1. /\ Len(new) = Len(rs) + 1 /\ Len(rs) \in Nat
      /\ \A k \in 1 .. i : new[k] = rs[k]
      /\ new[i + 1] = r
      /\ \A k \in i + 1 .. Len(rs) : new[k + 1] = rs[k]
  BY InsertShape
<1> HIDE DEF new
<1>2. \A k \in 1 .. Len(rs) : rs[k].hash \in Nat
  BY <1>1, ElementOfSeq, HashesCompare
<1>3. r.hash \in Nat
  BY HashesCompare
<1>4. ASSUME NEW k \in i + 1 .. Len(rs) PROVE r.hash <= rs[k].hash
  <2>1. i + 1 \in 1 .. Len(rs) /\ k \in 1 .. Len(rs) /\ k \in i + 1 .. Len(rs)
    BY <1>1, <1>4
  <2>2. r.hash < rs[i + 1].hash
    BY <1>1, <2>1 DEF InsertIndex
  <2>3. rs[i + 1].hash <= rs[k].hash
    BY <2>1 DEF Sorted
  <2> QED BY <1>2, <1>3, <2>1, <2>2, <2>3
<1>5. \A k \in 1 .. i : rs[k].hash <= r.hash
  BY DEF InsertIndex
<1>6. ASSUME NEW a \in 1 .. Len(new), NEW b \in a .. Len(new)
      PROVE  new[a].hash <= new[b].hash
  <2>1. CASE a <= i /\ b <= i
    <3>1. a \in 1 .. Len(rs) /\ b \in a .. Len(rs) /\ new[a] = rs[a] /\ new[b] = rs[b]
      BY <1>1, <2>1
    <3> QED BY <3>1 DEF Sorted
  <2>2. CASE a <= i /\ b = i + 1
    BY <1>1, <1>5, <2>2
  <2>3. CASE a <= i /\ b > i + 1
    <3>1. /\ a \in 1 .. i /\ a \in 1 .. Len(rs) /\ b - 1 \in i + 1 .. Len(rs)
          /\ b - 1 \in 1 .. Len(rs)
          /\ (b - 1) + 1 = b
      BY <1>1, <2>3
    <3>2. new[a] = rs[a] /\ new[b] = rs[b - 1]
      BY <1>1, <3>1
    <3>3. rs[a].hash <= r.hash /\ r.hash <= rs[b - 1].hash
      BY <1>4, <1>5, <3>1
    <3> QED BY <1>2, <1>3, <3>1, <3>2, <3>3
  <2>4. CASE a = i + 1 /\ b = i + 1
    BY <1>1, <1>3, <2>4
  <2>5. CASE a = i + 1 /\ b > i + 1
    <3>1. b - 1 \in i + 1 .. Len(rs) /\ (b - 1) + 1 = b
      BY <1>1, <2>5
    <3>2. new[b] = rs[b - 1]
      BY <1>1, <3>1
    <3> QED BY <1>1, <1>4, <2>5, <3>1, <3>2
  <2>6. CASE a > i + 1
    <3>1. /\ a - 1 \in i + 1 .. Len(rs) /\ (a - 1) + 1 = a
          /\ b - 1 \in i + 1 .. Len(rs) /\ (b - 1) + 1 = b
          /\ a - 1 \in 1 .. Len(rs) /\ b - 1 \in a - 1 .. Len(rs)
      BY <1>1, <2>6
    <3>2. new[a] = rs[a - 1] /\ new[b] = rs[b - 1]
      BY <1>1, <3>1
    <3> QED BY <3>1, <3>2 DEF Sorted
  <2> QED BY <1>1, <2>1, <2>2, <2>3, <2>4, <2>5, <2>6
<1> QED BY <1>6 DEF Sorted, new

\* It is in the file, of whose records none is lost, and the first record of every
\* hash that had one stays the first: the new one goes behind its equals.
LEMMA InsertExtends ==
    ASSUME NEW rs \in Seq(Record), NEW r \in Record, NEW i \in 0 .. Len(rs),
           Sorted(rs), InsertIndex(i, rs, r.hash)
    PROVE  HasRecord(InsertAt(rs, i, r), r) /\ Extends(InsertAt(rs, i, r), rs)
<1> DEFINE new == InsertAt(rs, i, r)
<1>1. /\ new \in Seq(Record)
      /\ Len(new) = Len(rs) + 1 /\ Len(rs) \in Nat
      /\ \A k \in 1 .. i : new[k] = rs[k]
      /\ new[i + 1] = r
      /\ \A k \in i + 1 .. Len(rs) : new[k + 1] = rs[k]
  BY InsertShape
<1> HIDE DEF new
<1>2. DOMAIN new = 1 .. Len(rs) + 1 /\ DOMAIN rs = 1 .. Len(rs)
  BY <1>1, LenProperties
<1>3. HasRecord(new, r)
  BY <1>1, <1>2 DEF HasRecord
<1>4. ASSUME NEW k \in DOMAIN rs PROVE HasRecord(new, rs[k])
  <2>1. CASE k <= i
    BY <1>1, <1>2, <2>1 DEF HasRecord
  <2>2. CASE k > i
    <3>1. k \in i + 1 .. Len(rs) /\ k + 1 \in DOMAIN new
      BY <1>1, <1>2, <2>2
    <3> QED BY <1>1, <3>1 DEF HasRecord
  <2> QED BY <1>1, <1>2, <2>1, <2>2
<1>5. ASSUME NEW h \in Hash, NEW q \in Record, Found(rs, h, q) PROVE Found(new, h, q)
  <2>1. PICK k \in 1 .. Len(rs) : IsFirst(rs, k, h) /\ rs[k] = q
    BY <1>5 DEF Found
  <2>2. CASE k <= i
    <3>1. k \in 1 .. Len(new) /\ new[k] = q /\ \A j \in 1 .. k - 1 : new[j] = rs[j]
      BY <1>1, <2>1, <2>2
    <3> QED BY <2>1, <3>1 DEF Found, IsFirst
  <2>3. CASE k > i
    <3>1. /\ k \in i + 1 .. Len(rs) /\ k + 1 \in 1 .. Len(new)
          /\ i + 1 \in 1 .. Len(rs) /\ k \in i + 1 .. Len(rs)
      BY <1>1, <2>1, <2>3
    <3>2. new[k + 1] = q
      BY <1>1, <2>1, <3>1
    <3>3. r.hash # h
      <4>1. r.hash < rs[i + 1].hash
        BY <1>1, <3>1 DEF InsertIndex
      <4>2. rs[i + 1].hash <= rs[k].hash
        BY <3>1 DEF Sorted
      <4>3. rs[k].hash = h
        BY <2>1 DEF IsFirst
      <4>4. r.hash \in Nat /\ rs[i + 1].hash \in Nat /\ rs[k].hash \in Nat
        BY <3>1, ElementOfSeq, HashesCompare
      <4> QED BY <4>1, <4>2, <4>3, <4>4
    <3>4. ASSUME NEW j \in 1 .. k PROVE new[j].hash # h
      <4>1. CASE j <= i
        <5>1. j \in 1 .. i /\ j \in 1 .. k - 1
          BY <2>3, <4>1
        <5> QED BY <1>1, <2>1, <5>1 DEF IsFirst
      <4>2. CASE j = i + 1
        BY <1>1, <3>3, <4>2
      <4>3. CASE j > i + 1
        <5>1. j - 1 \in i + 1 .. Len(rs) /\ (j - 1) + 1 = j /\ j - 1 \in 1 .. k - 1
          BY <2>1, <4>3
        <5>2. new[j] = rs[j - 1]
          BY <1>1, <5>1
        <5> QED BY <2>1, <5>1, <5>2 DEF IsFirst
      <4> QED BY <4>1, <4>2, <4>3
    <3>5. \A j \in 1 .. (k + 1) - 1 : new[j].hash # h
      BY <3>4
    <3>6. q.hash = h
      BY <2>1 DEF IsFirst
    <3> QED BY <3>1, <3>2, <3>5, <3>6 DEF Found, IsFirst
  <2> QED BY <2>1, <2>2, <2>3
<1> QED BY <1>3, <1>4, <1>5 DEF Extends, new

\* Files that extend one another, one after the other.
LEMMA ExtendsTransitive ==
    ASSUME NEW a, NEW b, NEW c, Extends(b, a), Extends(c, b)
    PROVE  Extends(c, a)
BY DEF Extends, HasRecord

LEMMA ExtendsReflexive ==
    ASSUME NEW a
    PROVE  Extends(a, a)
BY DEF Extends, HasRecord

-----------------------------------------------------------------------------
\* The inductive invariant

\* The path of a record's hash.
LEMMA PathOfRecord ==
    ASSUME NEW r \in Record
    PROVE  KAnonHashPath(r.hash) \in Path
BY HashesCompare DEF Path

LEMMA InitInv == Init => FilesFit
<1> SUFFICES ASSUME Init PROVE FilesFit
  OBVIOUS
<1>1. \A p \in Path : files[p] = <<>> /\ Len(files[p]) = 0
  BY EmptySeq DEF Init
<1>2. TypeOK
  <2>1. files \in [Path -> Seq(Record)] /\ pool \in Seq(Record) /\ todo \in Seq(Record)
    BY EmptySeq DEF Init
  <2>2. DOMAIN f = {} /\ f \in [DOMAIN f -> Seq(Record)]
    BY DEF Init
  <2>3. next \in 0 .. MaxIndex /\ restarts \in 0 .. MaxRestarts
    BY RecordsAssumption DEF Init
  <2> QED BY <2>1, <2>2, <2>3 DEF TypeOK, Init
<1>3. FilesSorted
  BY <1>1 DEF FilesSorted, Sorted, OfPath
<1>4. RecordsKept
  BY DEF Init, RecordsKept
<1>5. PoolInMemory
  BY EmptySeq DEF Init, PoolInMemory
<1>6. MemoryExtendsFiles
  BY DEF Init, MemoryExtendsFiles
<1>7. Phase
  BY DEF Init, Phase
<1> QED BY <1>2, <1>3, <1>4, <1>5, <1>6, <1>7 DEF FilesFit

\* A pool has consecutive indices, which it numbers below the bound.
LEMMA CallPool ==
    ASSUME TypeOK, Call
    PROVE  pool' \in Seq(Record) /\ next' \in 0 .. MaxIndex
<1>1. PICK n \in 1 .. MaxPool : \E hs \in [1 .. n -> Hash] :
        /\ next + n <= MaxIndex
        /\ pool' = [i \in 1 .. n |-> [hash |-> hs[i], index |-> next + i - 1]]
        /\ next' = next + n
  BY DEF Call
<1>0. PICK hs \in [1 .. n -> Hash] :
        /\ next + n <= MaxIndex
        /\ pool' = [i \in 1 .. n |-> [hash |-> hs[i], index |-> next + i - 1]]
        /\ next' = next + n
  BY <1>1
<1>2. n \in Nat /\ next \in 0 .. MaxIndex /\ MaxIndex \in Nat
  BY RecordsAssumption DEF TypeOK
<1> DEFINE e(i) == [hash |-> hs[i], index |-> next + i - 1]
<1>3. \A i \in 1 .. n : e(i) \in Record
  <2> SUFFICES ASSUME NEW i \in 1 .. n PROVE e(i) \in Record
    OBVIOUS
  <2>1. next + i - 1 \in 0 .. MaxIndex - 1
    BY <1>0, <1>2
  <2>2. hs[i] \in Hash
    BY <1>0
  <2> QED BY <2>1, <2>2 DEF Record
<1>4. pool' = [i \in 1 .. n |-> e(i)]
  BY <1>0
<1> HIDE DEF e
<1>5. pool' \in Seq(Record)
  BY <1>2, <1>3, <1>4, IsASeq
<1> QED BY <1>0, <1>2, <1>5

LEMMA CallInv == ASSUME FilesFit, Call PROVE FilesFit'
<1>1. TypeOK
  BY DEF FilesFit
<1>2. pool' \in Seq(Record) /\ next' \in 0 .. MaxIndex
  BY <1>1, CallPool
<1>3. /\ pc = "idle" /\ pc' = "get" /\ todo' = pool' /\ f' = <<>>
      /\ unwritten' = {KAnonHashPath(pool'[i].hash) : i \in DOMAIN pool'}
      /\ files' = files /\ restarts' = restarts /\ done' = done
  BY DEF Call
<1>4. DOMAIN pool' = 1 .. Len(pool') /\ Len(pool') \in Nat
  BY <1>2, LenProperties
<1>5. unwritten' \subseteq Path
  BY <1>2, <1>3, <1>4, PathOfRecord, ElementOfSeq
<1>6. DOMAIN f' = {} /\ f' \in [DOMAIN f' -> Seq(Record)]
  BY <1>3
<1>7. TypeOK'
  BY <1>1, <1>2, <1>3, <1>5, <1>6 DEF TypeOK
<1>8. FilesSorted' /\ RecordsKept'
  BY <1>3 DEF FilesFit, FilesSorted, RecordsKept
<1>9. PoolInMemory'
  BY <1>3, <1>4 DEF PoolInMemory
<1>10. MemoryExtendsFiles'
  BY <1>6 DEF MemoryExtendsFiles
<1>11. Phase'
  BY <1>3, <1>4, <1>6 DEF Phase
<1> QED BY <1>7, <1>8, <1>9, <1>10, <1>11 DEF FilesFit

LEMMA GetFileInv == ASSUME FilesFit, GetFile PROVE FilesFit'
<1>1. PICK p \in Path : UnreadPath(p) /\ f' = WithFile(p, files[p])
  BY DEF GetFile
<1>2. /\ pc = "get" /\ pc' = pc /\ files' = files /\ pool' = pool /\ todo' = todo
      /\ unwritten' = unwritten /\ next' = next /\ restarts' = restarts /\ done' = done
  BY DEF GetFile
<1>3. /\ DOMAIN f' = DOMAIN f \cup {p} /\ f'[p] = files[p]
      /\ p \notin DOMAIN f /\ \A q \in DOMAIN f : f'[q] = f[q]
  BY <1>1 DEF WithFile, UnreadPath
<1>4. files[p] \in Seq(Record)
  BY DEF FilesFit, TypeOK
<1>5. p \in unwritten
  <2>1. PICK i \in DOMAIN pool : p = KAnonHashPath(pool[i].hash)
    BY <1>1 DEF UnreadPath
  <2>2. DOMAIN pool = 1 .. Len(pool)
    BY LenProperties DEF FilesFit, TypeOK
  <2> QED BY <1>2, <2>1, <2>2 DEF FilesFit, Phase
<1>6. TypeOK'
  <2>1. DOMAIN f' \subseteq Path
    BY <1>3 DEF FilesFit, TypeOK
  <2>2. f' \in [DOMAIN f' -> Seq(Record)]
    <3>1. \A q \in DOMAIN f' : f'[q] \in Seq(Record)
      BY <1>3, <1>4 DEF FilesFit, TypeOK
    <3>2. f' = [q \in DOMAIN f' |-> f'[q]]
      BY <1>1 DEF WithFile
    <3> QED BY <3>1, <3>2
  <2> QED BY <1>2, <2>1, <2>2 DEF FilesFit, TypeOK
<1>7. FilesSorted' /\ RecordsKept'
  BY <1>2 DEF FilesFit, FilesSorted, RecordsKept
<1>8. PoolInMemory'
  BY <1>2, <1>3 DEF FilesFit, PoolInMemory
<1>9. MemoryExtendsFiles'
  <2> SUFFICES ASSUME NEW q \in DOMAIN f'
               PROVE  /\ Sorted(f'[q]) /\ OfPath(f'[q], q)
                      /\ IF q \in unwritten THEN Extends(f'[q], files[q]) ELSE files[q] = f'[q]
    BY <1>2 DEF MemoryExtendsFiles
  <2>1. CASE q = p
    BY <1>3, <1>5, <2>1, ExtendsReflexive DEF FilesFit, FilesSorted
  <2>2. CASE q \in DOMAIN f
    BY <1>3, <2>2 DEF FilesFit, MemoryExtendsFiles
  <2> QED BY <1>3, <2>1, <2>2
<1>10. Phase'
  BY <1>2, <1>3, <1>5 DEF FilesFit, Phase
<1> QED BY <1>6, <1>7, <1>8, <1>9, <1>10 DEF FilesFit

LEMMA AllReadInv == ASSUME FilesFit, AllRead PROVE FilesFit'
<1>1. /\ pc = "get" /\ pc' = "insert" /\ unwritten = DOMAIN f
      /\ UNCHANGED <<files, pool, todo, f, unwritten, next, restarts, done>>
  BY DEF AllRead
<1>2. TypeOK' /\ FilesSorted' /\ RecordsKept' /\ PoolInMemory' /\ MemoryExtendsFiles'
  BY <1>1 DEF FilesFit, TypeOK, FilesSorted, RecordsKept, PoolInMemory, MemoryExtendsFiles
<1>3. Phase'
  BY <1>1 DEF FilesFit, Phase
<1> QED BY <1>2, <1>3 DEF FilesFit

LEMMA InsertRecordInv == ASSUME FilesFit, InsertRecord PROVE FilesFit'
<1> DEFINE r == Head(todo)
           p == KAnonHashPath(r.hash)
<1>1. PICK i \in 0 .. Len(f[p]) :
        /\ InsertIndex(i, f[p], r.hash)
        /\ f' = [f EXCEPT ![p] = InsertAt(f[p], i, ToBytes(r))]
  BY DEF InsertRecord
<1>2. /\ pc = "insert" /\ pc' = pc /\ todo # <<>> /\ todo' = Tail(todo) /\ files' = files
      /\ pool' = pool /\ unwritten' = unwritten /\ next' = next /\ restarts' = restarts
      /\ done' = done
  BY DEF InsertRecord
<1>3. /\ r \in Record /\ Tail(todo) \in Seq(Record) /\ Len(Tail(todo)) = Len(todo) - 1
      /\ \A k \in 1 .. Len(todo) - 1 : Tail(todo)[k] = todo[k + 1]
      /\ r = todo[1] /\ Len(todo) \in Nat \ {0} /\ Len(pool) \in Nat
  <2>1. todo \in Seq(Record) /\ pool \in Seq(Record)
    BY DEF FilesFit, TypeOK
  <2> QED BY <1>2, <2>1, HeadTailProperties, LenProperties, EmptySeq
<1>4. Len(todo) <= Len(pool) /\ r = pool[Len(pool) - Len(todo) + 1]
  <2>1. Len(todo) <= Len(pool) /\ todo[1] = pool[Len(pool) - Len(todo) + 1]
    BY <1>3 DEF FilesFit, PoolInMemory
  <2> QED BY <1>3, <2>1
<1>5. p \in DOMAIN f /\ p \in unwritten /\ unwritten = DOMAIN f
  <2>1. Len(pool) - Len(todo) + 1 \in 1 .. Len(pool)
    BY <1>3, <1>4
  <2> QED BY <1>2, <1>4, <2>1 DEF FilesFit, Phase
<1>6. f[p] \in Seq(Record) /\ Sorted(f[p]) /\ OfPath(f[p], p) /\ Extends(f[p], files[p])
  BY <1>5 DEF FilesFit, TypeOK, MemoryExtendsFiles
<1> DEFINE new == InsertAt(f[p], i, r)
<1>7. /\ DOMAIN f' = DOMAIN f /\ f'[p] = new
      /\ \A q \in DOMAIN f : q # p => f'[q] = f[q]
  <2>1. ToBytes(r) = r
    BY <1>3, BytesKeepRecord
  <2>2. f' = [f EXCEPT ![p] = new]
    BY <1>1, <2>1
  <2> HIDE DEF r, p, new
  <2> QED BY <1>5, <2>2
<1>8. /\ new \in Seq(Record) /\ Sorted(new) /\ HasRecord(new, r) /\ Extends(new, f[p])
      /\ OfPath(new, p)
  <2> HIDE DEF r
  <2>1. /\ new \in Seq(Record)
        /\ Len(new) = Len(f[p]) + 1 /\ Len(f[p]) \in Nat
        /\ \A k \in 1 .. i : new[k] = f[p][k]
        /\ new[i + 1] = r
        /\ \A k \in i + 1 .. Len(f[p]) : new[k + 1] = f[p][k]
    <3> DEFINE rs == f[p]
    <3>1. rs \in Seq(Record) /\ r \in Record /\ i \in 0 .. Len(rs)
      BY <1>3, <1>6
    <3> HIDE DEF rs
    <3>2. /\ InsertAt(rs, i, r) \in Seq(Record)
          /\ Len(InsertAt(rs, i, r)) = Len(rs) + 1 /\ Len(rs) \in Nat
          /\ \A k \in 1 .. i : InsertAt(rs, i, r)[k] = rs[k]
          /\ InsertAt(rs, i, r)[i + 1] = r
          /\ \A k \in i + 1 .. Len(rs) : InsertAt(rs, i, r)[k + 1] = rs[k]
      BY <3>1, InsertShape
    <3> QED BY <3>2 DEF rs, new
  <2>2. Sorted(new) /\ HasRecord(new, r) /\ Extends(new, f[p])
    BY <1>1, <1>3, <1>6, InsertSorted, InsertExtends
  <2>3. ASSUME NEW k \in 1 .. Len(new) PROVE KAnonHashPath(new[k].hash) = p
    <3>1. CASE k <= i
      <4>1. k \in 1 .. Len(f[p]) /\ new[k] = f[p][k]
        BY <2>1, <3>1
      <4> QED BY <1>6, <4>1 DEF OfPath
    <3>2. CASE k = i + 1
      BY <2>1, <3>2
    <3>3. CASE k > i + 1
      <4>1. k - 1 \in i + 1 .. Len(f[p]) /\ (k - 1) + 1 = k /\ k - 1 \in 1 .. Len(f[p])
        BY <2>1, <3>3
      <4>2. new[k] = f[p][k - 1]
        BY <2>1, <4>1
      <4> QED BY <1>6, <4>1, <4>2 DEF OfPath
    <3> QED BY <2>1, <3>1, <3>2, <3>3
  <2> QED BY <2>1, <2>2, <2>3 DEF OfPath
<1> HIDE DEF new, p, r
<1>9. TypeOK'
  <2>1. f' \in [DOMAIN f' -> Seq(Record)]
    <3>1. \A q \in DOMAIN f' : f'[q] \in Seq(Record)
      BY <1>7, <1>8 DEF FilesFit, TypeOK
    <3>2. f' = [q \in DOMAIN f' |-> f'[q]]
      BY <1>1 DEF FilesFit, TypeOK
    <3> QED BY <3>1, <3>2
  <2> QED BY <1>2, <1>3, <1>7, <2>1 DEF FilesFit, TypeOK
<1>10. FilesSorted' /\ RecordsKept'
  BY <1>2 DEF FilesFit, FilesSorted, RecordsKept
<1>11. PoolInMemory'
  <2>1. ASSUME NEW k \in 1 .. Len(todo') PROVE todo'[k] = pool'[Len(pool') - Len(todo') + k]
    <3>1. k + 1 \in 1 .. Len(todo) /\ todo'[k] = todo[k + 1]
      BY <1>2, <1>3
    <3>2. todo[k + 1] = pool[Len(pool) - Len(todo) + (k + 1)]
      BY <3>1 DEF FilesFit, PoolInMemory
    <3>3. Len(pool) - Len(todo) + (k + 1) = Len(pool') - Len(todo') + k
      BY <1>2, <1>3
    <3> QED BY <1>2, <3>1, <3>2, <3>3
  <2>2. ASSUME NEW k \in 1 .. Len(pool') - Len(todo')
        PROVE  /\ KAnonHashPath(pool[k].hash) \in DOMAIN f'
               /\ HasRecord(f'[KAnonHashPath(pool[k].hash)], pool[k])
    <3>1. CASE k = Len(pool) - Len(todo) + 1
      <4>1. pool[k] = r /\ KAnonHashPath(pool[k].hash) = p
        BY <1>4, <3>1 DEF p
      <4> QED BY <1>5, <1>7, <1>8, <4>1
    <3>2. CASE k # Len(pool) - Len(todo) + 1
      <4>1. k \in 1 .. Len(pool) - Len(todo)
        BY <1>2, <1>3, <3>2
      <4>2. /\ KAnonHashPath(pool[k].hash) \in DOMAIN f
            /\ HasRecord(f[KAnonHashPath(pool[k].hash)], pool[k])
        BY <4>1 DEF FilesFit, PoolInMemory
      <4>3. CASE KAnonHashPath(pool[k].hash) = p
        <5>1. HasRecord(new, pool[k])
          BY <1>8, <4>2, <4>3 DEF HasRecord, Extends
        <5> QED BY <1>7, <4>2, <4>3, <5>1
      <4>4. CASE KAnonHashPath(pool[k].hash) # p
        BY <1>7, <4>2, <4>4
      <4> QED BY <4>3, <4>4
    <3> QED BY <3>1, <3>2
  <2>3. Len(todo') <= Len(pool')
    BY <1>2, <1>3, <1>4
  <2> QED BY <1>2, <2>1, <2>2, <2>3 DEF PoolInMemory
<1>12. MemoryExtendsFiles'
  <2> SUFFICES ASSUME NEW q \in DOMAIN f'
               PROVE  /\ Sorted(f'[q]) /\ OfPath(f'[q], q)
                      /\ IF q \in unwritten THEN Extends(f'[q], files[q]) ELSE files[q] = f'[q]
    BY <1>2 DEF MemoryExtendsFiles
  <2>1. CASE q = p
    <3>1. Extends(new, files[p])
      BY <1>6, <1>8, ExtendsTransitive
    <3> QED BY <1>5, <1>7, <1>8, <2>1, <3>1
  <2>2. CASE q # p
    BY <1>7, <2>2 DEF FilesFit, MemoryExtendsFiles
  <2> QED BY <2>1, <2>2
<1>13. Phase'
  BY <1>2, <1>5, <1>7 DEF FilesFit, Phase
<1> QED BY <1>9, <1>10, <1>11, <1>12, <1>13 DEF FilesFit

LEMMA PutFileInv == ASSUME FilesFit, PutFile PROVE FilesFit'
<1>1. PICK p \in unwritten :
        files' = [files EXCEPT ![p] = f[p]] /\ unwritten' = unwritten \ {p}
  BY DEF PutFile
<1>2. /\ pc = "insert" /\ pc' = pc /\ todo = <<>> /\ todo' = todo /\ pool' = pool
      /\ f' = f /\ next' = next /\ restarts' = restarts /\ done' = done
  BY DEF PutFile
<1>3. p \in Path /\ p \in DOMAIN f
  BY <1>2 DEF FilesFit, TypeOK, Phase
<1>4. /\ f[p] \in Seq(Record) /\ Sorted(f[p]) /\ OfPath(f[p], p) /\ Extends(f[p], files[p])
  BY <1>3 DEF FilesFit, TypeOK, MemoryExtendsFiles
<1>5. /\ files' \in [Path -> Seq(Record)] /\ files'[p] = f[p]
      /\ \A q \in Path : q # p => files'[q] = files[q]
  BY <1>1, <1>3, <1>4 DEF FilesFit, TypeOK
<1>6. TypeOK'
  BY <1>1, <1>2, <1>5 DEF FilesFit, TypeOK
<1>7. FilesSorted'
  BY <1>4, <1>5 DEF FilesFit, FilesSorted
<1>8. RecordsKept'
  <2> SUFFICES ASSUME NEW r \in done
               PROVE  HasRecord(files'[KAnonHashPath(r.hash)], r)
    BY <1>2 DEF RecordsKept
  <2>1. HasRecord(files[KAnonHashPath(r.hash)], r) /\ KAnonHashPath(r.hash) \in Path
    BY PathOfRecord DEF FilesFit, TypeOK, RecordsKept
  <2>2. CASE KAnonHashPath(r.hash) = p
    <3>1. HasRecord(f[p], r)
      BY <1>4, <2>1, <2>2 DEF HasRecord, Extends
    <3> QED BY <1>5, <2>2, <3>1
  <2>3. CASE KAnonHashPath(r.hash) # p
    BY <1>5, <2>1, <2>3
  <2> QED BY <2>2, <2>3
<1>9. PoolInMemory'
  BY <1>2 DEF FilesFit, PoolInMemory
<1>10. MemoryExtendsFiles'
  <2> SUFFICES ASSUME NEW q \in DOMAIN f
               PROVE  /\ Sorted(f[q]) /\ OfPath(f[q], q)
                      /\ IF q \in unwritten' THEN Extends(f[q], files'[q]) ELSE files'[q] = f[q]
    BY <1>2 DEF MemoryExtendsFiles
  <2>1. CASE q = p
    BY <1>1, <1>4, <1>5, <2>1
  <2>2. CASE q # p
    <3>1. q \in Path
      BY DEF FilesFit, TypeOK
    <3> QED BY <1>1, <1>5, <2>2, <3>1 DEF FilesFit, MemoryExtendsFiles
  <2> QED BY <2>1, <2>2
<1>11. Phase'
  BY <1>1, <1>2 DEF FilesFit, Phase
<1> QED BY <1>6, <1>7, <1>8, <1>9, <1>10, <1>11 DEF FilesFit

LEMMA ReturnInv == ASSUME FilesFit, Return PROVE FilesFit'
<1>1. /\ pc = "insert" /\ pc' = "idle" /\ todo = <<>> /\ todo' = todo /\ unwritten = {}
      /\ unwritten' = unwritten /\ done' = done \cup {pool[i] : i \in DOMAIN pool}
      /\ f' = <<>> /\ pool' = <<>> /\ files' = files /\ next' = next /\ restarts' = restarts
  BY DEF Return
<1>2. /\ pool \in Seq(Record) /\ DOMAIN pool = 1 .. Len(pool) /\ Len(todo) = 0
      /\ Len(pool) \in Nat
  BY <1>1, LenProperties, EmptySeq DEF FilesFit, TypeOK
<1>3. DOMAIN f' = {} /\ f' \in [DOMAIN f' -> Seq(Record)] /\ pool' \in Seq(Record)
      /\ Len(pool') = 0 /\ Len(todo') = 0
  BY <1>1, <1>2, EmptySeq
<1>4. ASSUME NEW k \in 1 .. Len(pool)
      PROVE  pool[k] \in Record /\ HasRecord(files[KAnonHashPath(pool[k].hash)], pool[k])
  <2>1. k \in 1 .. Len(pool) - Len(todo)
    BY <1>2
  <2>2. /\ KAnonHashPath(pool[k].hash) \in DOMAIN f
        /\ HasRecord(f[KAnonHashPath(pool[k].hash)], pool[k])
    BY <2>1 DEF FilesFit, PoolInMemory
  <2>3. files[KAnonHashPath(pool[k].hash)] = f[KAnonHashPath(pool[k].hash)]
    BY <1>1, <2>2 DEF FilesFit, MemoryExtendsFiles
  <2> QED BY <1>2, <2>2, <2>3, ElementOfSeq
<1>5. done' \subseteq Record
  BY <1>1, <1>2, <1>4 DEF FilesFit, TypeOK
<1>6. TypeOK'
  BY <1>1, <1>3, <1>5 DEF FilesFit, TypeOK
<1>7. FilesSorted'
  BY <1>1 DEF FilesFit, FilesSorted
<1>8. RecordsKept'
  BY <1>1, <1>2, <1>4 DEF FilesFit, RecordsKept
<1>9. PoolInMemory' /\ MemoryExtendsFiles'
  BY <1>3 DEF PoolInMemory, MemoryExtendsFiles
<1>10. Phase'
  BY <1>1 DEF Phase
<1> QED BY <1>6, <1>7, <1>8, <1>9, <1>10 DEF FilesFit

LEMMA DieInv == ASSUME FilesFit, Die PROVE FilesFit'
<1>1. /\ pc' = "down" /\ pool' = <<>> /\ todo' = <<>> /\ f' = <<>> /\ unwritten' = {}
      /\ files' = files /\ next' = next /\ restarts' = restarts /\ done' = done
  BY DEF Die
<1>2. /\ DOMAIN f' = {} /\ f' \in [DOMAIN f' -> Seq(Record)]
      /\ pool' \in Seq(Record) /\ todo' \in Seq(Record)
      /\ Len(pool') = 0 /\ Len(todo') = 0
  BY <1>1, EmptySeq
<1>3. TypeOK' /\ FilesSorted' /\ RecordsKept'
  BY <1>1, <1>2 DEF FilesFit, TypeOK, FilesSorted, RecordsKept
<1>4. PoolInMemory' /\ MemoryExtendsFiles' /\ Phase'
  BY <1>1, <1>2 DEF PoolInMemory, MemoryExtendsFiles, Phase
<1> QED BY <1>3, <1>4 DEF FilesFit

LEMMA RestartInv == ASSUME FilesFit, Restart PROVE FilesFit'
<1>1. /\ pc = "down" /\ pc' = "idle" /\ restarts < MaxRestarts /\ restarts' = restarts + 1
      /\ next' \in 0 .. next
      /\ UNCHANGED <<files, pool, todo, f, unwritten, done>>
  BY DEF Restart
<1>2. next' \in 0 .. MaxIndex /\ restarts' \in 0 .. MaxRestarts
  BY <1>1, RecordsAssumption DEF FilesFit, TypeOK
<1>3. TypeOK'
  BY <1>1, <1>2 DEF FilesFit, TypeOK
<1>4. FilesSorted' /\ RecordsKept' /\ PoolInMemory' /\ MemoryExtendsFiles' /\ Phase'
  BY <1>1 DEF FilesFit, FilesSorted, RecordsKept, PoolInMemory, MemoryExtendsFiles, Phase
<1> QED BY <1>3, <1>4 DEF FilesFit

LEMMA StepInv == FilesFit /\ [Next]_vars => FilesFit'
<1> SUFFICES ASSUME FilesFit, [Next]_vars PROVE FilesFit'
  OBVIOUS
<1>1. CASE UNCHANGED vars
  BY <1>1 DEF vars, FilesFit, TypeOK, FilesSorted, RecordsKept, PoolInMemory,
              MemoryExtendsFiles, Phase
<1> QED BY <1>1, CallInv, GetFileInv, AllReadInv, InsertRecordInv, PutFileInv, ReturnInv,
           DieInv, RestartInv DEF Next

-----------------------------------------------------------------------------
(* The list of a hash.  Induction over a sequence is by a least              *)
(* counterexample.                                                           *)

LEMMA Least ==
    ASSUME NEW S, S \subseteq Nat, S # {}
    PROVE  \E n \in S : \A m \in S : n <= m
<1>1. IsWellFoundedOn(OpToRel(<, Nat), Nat)
  BY NatLessThanWellFounded
<1>2. PICK n \in S : \A m \in S : ~(<<m, n>> \in OpToRel(<, Nat))
  BY <1>1, WFMin
<1>3. \A m \in S : ~(m < n)
  BY <1>2 DEF OpToRel
<1> QED BY <1>3

\* The recursion has a solution, which is read step by step.
LEMMA IndicesStep ==
    ASSUME NEW h, NEW rs, Len(rs) \in Nat
    PROVE  /\ IndicesOf(h, rs, 0) = <<>>
           /\ \A k \in 1 .. Len(rs) :
                IndicesOf(h, rs, k) =
                  IF rs[k].hash = h THEN Append(IndicesOf(h, rs, k - 1), rs[k].index)
                  ELSE IndicesOf(h, rs, k - 1)
<1> DEFINE m == Len(rs)
           Longer(s, k) == IF rs[k].hash = h THEN Append(s, rs[k].index) ELSE s
           Ok(g, n) == g = [k \in 0 .. n |-> IF k = 0 THEN <<>> ELSE Longer(g[k - 1], k)]
           Bad == {n \in 0 .. m : ~ \E g : Ok(g, n)}
<1> HIDE DEF Longer
<1>1. Bad = {}
  <2> SUFFICES ASSUME Bad # {} PROVE FALSE
    OBVIOUS
  <2>1. PICK n \in Bad : \A o \in Bad : n <= o
    <3>1. Bad \subseteq Nat
      OBVIOUS
    <3> QED BY <3>1, Least
  <2>2. CASE n = 0
    <3>1. Ok([k \in 0 .. 0 |-> <<>>], 0)
      OBVIOUS
    <3> QED BY <2>1, <2>2, <3>1
  <2>3. CASE n # 0
    <3>1. n - 1 \in 0 .. m /\ n - 1 < n /\ n \in Nat
      BY <2>3
    <3>2. PICK g : Ok(g, n - 1)
      BY <2>1, <3>1
    <3> DEFINE u == [k \in 0 .. n |-> IF k = n THEN Longer(g[n - 1], n) ELSE g[k]]
    <3>3. Ok(u, n)
      <4>1. \A k \in 0 .. n : u[k] = IF k = 0 THEN <<>> ELSE Longer(u[k - 1], k)
        BY <2>3, <3>1, <3>2
      <4> QED BY <4>1
    <3> QED BY <2>1, <3>3
  <2> QED BY <2>2, <2>3
<1>2. \E g : Ok(g, m)
  <2>1. m \notin Bad /\ m \in 0 .. m
    BY <1>1
  <2> HIDE DEF Ok
  <2> QED BY <2>1
<1> DEFINE own == CHOOSE g : Ok(g, m)
<1>3. Ok(own, m)
  <2> HIDE DEF Ok
  <2> QED BY <1>2
<1>4. \A n : IndicesOf(h, rs, n) = own[n]
  BY DEF IndicesOf, Longer
<1> HIDE DEF own
<1>5. \A k \in 0 .. m : own[k] = IF k = 0 THEN <<>> ELSE Longer(own[k - 1], k)
  BY <1>3
<1>6. own[0] = <<>>
  BY <1>5
<1>7. ASSUME NEW k \in 1 .. m
      PROVE  own[k] = IF rs[k].hash = h THEN Append(own[k - 1], rs[k].index) ELSE own[k - 1]
  <2>1. own[k] = Longer(own[k - 1], k)
    BY <1>5
  <2> QED BY <2>1 DEF Longer
<1> QED BY <1>4, <1>6, <1>7

\* The lists are sequences.
LEMMA IndicesType ==
    ASSUME NEW h, NEW rs \in Seq(Record), NEW n \in 0 .. Len(rs)
    PROVE  IndicesOf(h, rs, n) \in Seq(Nat)
<1> DEFINE Bad == {k \in 0 .. Len(rs) : IndicesOf(h, rs, k) \notin Seq(Nat)}
<1>1. Len(rs) \in Nat
  BY LenProperties
<1>2. /\ IndicesOf(h, rs, 0) = <<>>
      /\ \A k \in 1 .. Len(rs) :
           IndicesOf(h, rs, k) =
             IF rs[k].hash = h THEN Append(IndicesOf(h, rs, k - 1), rs[k].index)
             ELSE IndicesOf(h, rs, k - 1)
  BY <1>1, IndicesStep
<1>3. Bad = {}
  <2> SUFFICES ASSUME Bad # {} PROVE FALSE
    OBVIOUS
  <2>1. PICK k \in Bad : \A o \in Bad : k <= o
    <3>1. Bad \subseteq Nat
      BY <1>1
    <3> QED BY <3>1, Least
  <2>2. k \in 0 .. Len(rs) /\ IndicesOf(h, rs, k) \notin Seq(Nat)
    BY <2>1
  <2>3. k # 0
    BY <1>2, <2>2, EmptySeq
  <2>4. k \in 1 .. Len(rs) /\ k - 1 \in 0 .. Len(rs) /\ ~(k <= k - 1)
    BY <1>1, <2>2, <2>3
  <2>5. IndicesOf(h, rs, k - 1) \in Seq(Nat)
    BY <2>1, <2>4
  <2>6. rs[k].index \in Nat
    <3>1. rs[k] \in Record
      BY <2>4, ElementOfSeq
    <3> QED BY <3>1, RecordsAssumption DEF Record
  <2>7. Append(IndicesOf(h, rs, k - 1), rs[k].index) \in Seq(Nat)
    BY <2>5, <2>6, AppendProperties
  <2> QED BY <1>2, <2>2, <2>4, <2>5, <2>7
<1> QED BY <1>3

\* The list depends on the records it is read from only.
SameUpTo(n, rs, ss) == \A k \in 1 .. n : rs[k] = ss[k]
LEMMA IndicesSame ==
    ASSUME NEW h, NEW rs, NEW ss, NEW n \in Nat, Len(rs) \in Nat, Len(ss) \in Nat,
           n <= Len(rs), n <= Len(ss), SameUpTo(n, rs, ss)
    PROVE  IndicesOf(h, rs, n) = IndicesOf(h, ss, n)
<1> DEFINE a(k) == IndicesOf(h, rs, k)
           b(k) == IndicesOf(h, ss, k)
           Bad == {k \in 0 .. n : a(k) # b(k)}
<1>1. /\ a(0) = <<>> /\ b(0) = <<>>
      /\ \A k \in 1 .. n :
           /\ a(k) = IF rs[k].hash = h THEN Append(a(k - 1), rs[k].index) ELSE a(k - 1)
           /\ b(k) = IF ss[k].hash = h THEN Append(b(k - 1), ss[k].index) ELSE b(k - 1)
  <2>1. /\ a(0) = <<>>
        /\ \A k \in 1 .. Len(rs) :
             a(k) = IF rs[k].hash = h THEN Append(a(k - 1), rs[k].index) ELSE a(k - 1)
    BY IndicesStep
  <2>2. /\ b(0) = <<>>
        /\ \A k \in 1 .. Len(ss) :
             b(k) = IF ss[k].hash = h THEN Append(b(k - 1), ss[k].index) ELSE b(k - 1)
    BY IndicesStep
  <2>3. 1 .. n \subseteq 1 .. Len(rs) /\ 1 .. n \subseteq 1 .. Len(ss)
    OBVIOUS
  <2> HIDE DEF a, b
  <2> QED BY <2>1, <2>2, <2>3
<1> HIDE DEF a, b
<1>2. Bad = {}
  <2> SUFFICES ASSUME Bad # {} PROVE FALSE
    OBVIOUS
  <2>1. PICK k \in Bad : \A o \in Bad : k <= o
    <3>1. Bad \subseteq Nat
      OBVIOUS
    <3> QED BY <3>1, Least
  <2>2. k \in 1 .. n /\ k - 1 \in 0 .. n /\ ~(k <= k - 1) /\ a(k) # b(k)
    BY <1>1, <2>1
  <2>3. a(k - 1) = b(k - 1)
    BY <2>1, <2>2
  <2> QED BY <1>1, <2>2, <2>3 DEF SameUpTo
<1> QED BY <1>2 DEF a, b

\* Records of other hashes do not count.
LEMMA IndicesRest ==
    ASSUME NEW h, NEW rs, Len(rs) \in Nat, NEW i \in Nat, i <= Len(rs),
           \A k \in i + 1 .. Len(rs) : rs[k].hash # h
    PROVE  IndicesOf(h, rs, Len(rs)) = IndicesOf(h, rs, i)
<1> DEFINE a(k) == IndicesOf(h, rs, k)
           m == Len(rs)
           Bad == {k \in i .. m : a(k) # a(i)}
<1>1. \A k \in i + 1 .. m : a(k) = a(k - 1)
  <2> TAKE k \in i + 1 .. m
  <2>1. k \in 1 .. Len(rs) /\ rs[k].hash # h
    OBVIOUS
  <2>2. \A j \in 1 .. Len(rs) :
           a(j) = IF rs[j].hash = h THEN Append(a(j - 1), rs[j].index) ELSE a(j - 1)
    BY IndicesStep
  <2> HIDE DEF a
  <2> QED BY <2>1, <2>2
<1> HIDE DEF a
<1>2. Bad = {}
  <2> SUFFICES ASSUME Bad # {} PROVE FALSE
    OBVIOUS
  <2>1. PICK k \in Bad : \A o \in Bad : k <= o
    <3>1. Bad \subseteq Nat
      OBVIOUS
    <3> QED BY <3>1, Least
  <2>2. k \in i + 1 .. m /\ k - 1 \in i .. m /\ ~(k <= k - 1) /\ a(k) # a(i)
    BY <2>1
  <2>3. a(k - 1) = a(i)
    BY <2>1, <2>2
  <2> QED BY <1>1, <2>2, <2>3
<1>3. m \in i .. m
  OBVIOUS
<1> QED BY <1>2, <1>3 DEF a

\* An inserted record is the last of its hash, and to other hashes it does not count.
LEMMA IndicesInsert ==
    ASSUME NEW rs \in Seq(Record), Sorted(rs), NEW r \in Record, NEW i \in 0 .. Len(rs),
           InsertIndex(i, rs, r.hash), NEW h
    PROVE  ListOf(h, InsertAt(rs, i, r)) =
             IF r.hash = h THEN Append(ListOf(h, rs), r.index) ELSE ListOf(h, rs)
<1> DEFINE new == InsertAt(rs, i, r)
           m == Len(rs)
           a(k) == IndicesOf(h, rs, k)
           b(k) == IndicesOf(h, new, k)
<1>1. /\ new \in Seq(Record) /\ Len(new) = m + 1 /\ m \in Nat
      /\ \A k \in 1 .. i : new[k] = rs[k]
      /\ new[i + 1] = r
      /\ \A k \in i + 1 .. m : new[k + 1] = rs[k]
  BY InsertShape
<1> HIDE DEF new
<1>2. b(i) = a(i)
  <2>1. SameUpTo(i, rs, new) /\ Len(new) \in Nat /\ i \in Nat /\ i <= m /\ i <= Len(new)
    BY <1>1 DEF SameUpTo
  <2> QED BY <1>1, <2>1, IndicesSame
<1>3. b(i + 1) = IF r.hash = h THEN Append(a(i), r.index) ELSE a(i)
  <2>1. i + 1 \in 1 .. Len(new) /\ (i + 1) - 1 = i /\ Len(new) \in Nat
    BY <1>1
  <2>2. \A k \in 1 .. Len(new) :
           b(k) = IF new[k].hash = h THEN Append(b(k - 1), new[k].index) ELSE b(k - 1)
    <3>1. Len(new) \in Nat
      BY <2>1
    <3> QED BY <3>1, IndicesStep
  <2> HIDE DEF a, b
  <2> QED BY <1>1, <1>2, <2>1, <2>2
<1>4. CASE r.hash = h
  <2>1. \A k \in i + 1 .. m : rs[k].hash # h
    <3> TAKE k \in i + 1 .. m
    <3>1. i + 1 \in 1 .. m /\ k \in i + 1 .. m /\ i < m /\ k \in 1 .. m
      BY <1>1
    <3>2. r.hash < rs[i + 1].hash /\ rs[i + 1].hash <= rs[k].hash
      BY <3>1 DEF InsertIndex, Sorted
    <3>3. rs[i + 1] \in Record /\ rs[k] \in Record
      BY <3>1, ElementOfSeq
    <3>4. r.hash \in Nat /\ rs[i + 1].hash \in Nat /\ rs[k].hash \in Nat
      BY <3>3, HashesCompare
    <3> QED BY <1>4, <3>2, <3>4
  <2>2. a(m) = a(i)
    BY <1>1, <2>1, IndicesRest
  <2>3. b(Len(new)) = b(i + 1)
    <3>1. \A k \in (i + 1) + 1 .. Len(new) : new[k].hash # h
      <4> TAKE k \in (i + 1) + 1 .. Len(new)
      <4>1. k - 1 \in i + 1 .. m /\ (k - 1) + 1 = k
        BY <1>1
      <4> QED BY <1>1, <2>1, <4>1
    <3>2. Len(new) \in Nat /\ i + 1 \in Nat /\ i + 1 <= Len(new)
      BY <1>1
    <3> DEFINE o == i + 1
    <3> HIDE DEF o
    <3>3. o \in Nat /\ o <= Len(new) /\ \A k \in o + 1 .. Len(new) : new[k].hash # h
      BY <3>1, <3>2 DEF o
    <3>4. IndicesOf(h, new, Len(new)) = IndicesOf(h, new, o)
      BY <3>2, <3>3, IndicesRest
    <3> QED BY <3>4 DEF o
  <2> QED BY <1>3, <1>4, <2>2, <2>3 DEF ListOf, new
<1>5. CASE r.hash # h
  <2> DEFINE Bad == {k \in i .. m : b(k + 1) # a(k)}
  <2>1. \A k \in i + 1 .. m :
           /\ a(k) = IF rs[k].hash = h THEN Append(a(k - 1), rs[k].index) ELSE a(k - 1)
           /\ b(k + 1) = IF rs[k].hash = h THEN Append(b(k), rs[k].index) ELSE b(k)
    <3> TAKE k \in i + 1 .. m
    <3>1. /\ k \in 1 .. m /\ k + 1 \in 1 .. Len(new) /\ (k + 1) - 1 = k /\ Len(new) \in Nat
          /\ new[k + 1] = rs[k]
      BY <1>1
    <3>2. \A j \in 1 .. m :
             a(j) = IF rs[j].hash = h THEN Append(a(j - 1), rs[j].index) ELSE a(j - 1)
      <4>1. Len(rs) \in Nat
        BY <1>1
      <4> QED BY <4>1, IndicesStep
    <3>3. \A j \in 1 .. Len(new) :
             b(j) = IF new[j].hash = h THEN Append(b(j - 1), new[j].index) ELSE b(j - 1)
      <4>1. Len(new) \in Nat
        BY <3>1
      <4> QED BY <4>1, IndicesStep
    <3> HIDE DEF a, b
    <3> QED BY <3>1, <3>2, <3>3
  <2> HIDE DEF a, b
  <2>2. Bad = {}
    <3> SUFFICES ASSUME Bad # {} PROVE FALSE
      OBVIOUS
    <3>1. PICK k \in Bad : \A o \in Bad : k <= o
      <4>1. Bad \subseteq Nat
        BY <1>1
      <4> QED BY <4>1, Least
    <3>2. k \in i .. m /\ b(k + 1) # a(k)
      BY <3>1
    <3>3. k # i
      BY <1>3, <1>5, <3>2
    <3>4. k \in i + 1 .. m /\ k - 1 \in i .. m /\ ~(k <= k - 1) /\ (k - 1) + 1 = k
      BY <1>1, <3>2, <3>3
    <3>5. b(k) = a(k - 1)
      BY <3>1, <3>4
    <3> QED BY <2>1, <3>2, <3>4, <3>5
  <2>3. b(m + 1) = a(m)
    <3>1. m \in i .. m
      BY <1>1
    <3> QED BY <2>2, <3>1
  <2> QED BY <1>1, <1>5, <2>3 DEF ListOf, a, b, new
<1> QED BY <1>4, <1>5

\* Appending to the right part of a sequence.
LEMMA ConcatAppend ==
    \A s \in Seq(Nat) : \A t \in Seq(Nat) : \A x \in Nat :
        Append(s \o t, x) = s \o Append(t, x)
<1> TAKE s \in Seq(Nat), t \in Seq(Nat), x \in Nat
<1>1. s \o t \in Seq(Nat) /\ <<x>> \in Seq(Nat)
  BY ConcatProperties
<1>2. Append(s \o t, x) = (s \o t) \o <<x>> /\ Append(t, x) = t \o <<x>>
  BY <1>1, AppendIsConcat
<1>3. (s \o t) \o <<x>> = s \o (t \o <<x>>)
  BY <1>1, ConcatAssociative
<1> QED BY <1>2, <1>3

\* A pool that is read into memory has inserted nothing yet.
LEMMA ReadList ==
    ASSUME FilesFit, pc = "get", NEW h
    PROVE  IndicesOf(h, pool, Len(pool) - Len(todo)) = <<>>
<1>1. todo = pool /\ Len(pool) \in Nat
  BY LenProperties DEF FilesFit, TypeOK, Phase
<1>2. Len(pool) - Len(todo) = 0
  BY <1>1
<1> QED BY <1>1, <1>2, IndicesStep

LEMMA GetFileLists == ASSUME FilesFit, ListsMerged, GetFile PROVE ListsMerged'
<1>1. PICK p \in Path : UnreadPath(p) /\ f' = WithFile(p, files[p])
  BY DEF GetFile
<1>2. /\ pc = "get" /\ files' = files /\ pool' = pool /\ todo' = todo /\ unwritten' = unwritten
  BY DEF GetFile
<1>3. /\ f'[p] = files[p] /\ DOMAIN f' = DOMAIN f \cup {p}
      /\ \A q \in DOMAIN f : q # p => f'[q] = f[q]
  BY <1>1 DEF WithFile
<1> SUFFICES ASSUME NEW h \in Hash, NEW q, q = KAnonHashPath(h), q \in unwritten, q \in DOMAIN f'
             PROVE  ListOf(h, f'[q]) =
                      ListOf(h, files[q]) \o IndicesOf(h, pool, Len(pool) - Len(todo))
  BY <1>2 DEF ListsMerged, ListOf
<1>4. CASE q = p
  <2>1. IndicesOf(h, pool, Len(pool) - Len(todo)) = <<>>
    BY <1>2, ReadList
  <2>2. ListOf(h, files[q]) \in Seq(Nat)
    <3>1. files[q] \in Seq(Record)
      BY <1>4 DEF FilesFit, TypeOK
    <3>2. Len(files[q]) \in 0 .. Len(files[q])
      BY <3>1, LenProperties
    <3> QED BY <3>1, <3>2, IndicesType DEF ListOf
  <2>3. ListOf(h, files[q]) \o <<>> = ListOf(h, files[q])
    BY <2>2, ConcatEmptySeq
  <2> QED BY <1>3, <1>4, <2>1, <2>3
<1>5. CASE q # p
  BY <1>3, <1>5 DEF ListsMerged
<1> QED BY <1>4, <1>5

LEMMA InsertRecordLists == ASSUME FilesFit, ListsMerged, InsertRecord PROVE ListsMerged'
<1> DEFINE r == Head(todo)
           p == KAnonHashPath(r.hash)
           n == Len(pool) - Len(todo)
<1>1. PICK i \in 0 .. Len(f[p]) :
        /\ InsertIndex(i, f[p], r.hash)
        /\ f' = [f EXCEPT ![p] = InsertAt(f[p], i, ToBytes(r))]
  BY DEF InsertRecord
<1>2. /\ pc = "insert" /\ todo # <<>> /\ todo' = Tail(todo) /\ files' = files
      /\ pool' = pool /\ unwritten' = unwritten
  BY DEF InsertRecord
<1>3. /\ r \in Record /\ r = todo[1] /\ Len(todo') = Len(todo) - 1
      /\ Len(todo) \in Nat \ {0} /\ Len(pool) \in Nat /\ pool \in Seq(Record)
  <2>1. todo \in Seq(Record) /\ pool \in Seq(Record)
    BY DEF FilesFit, TypeOK
  <2> QED BY <1>2, <2>1, HeadTailProperties, LenProperties, EmptySeq
<1>4. /\ n \in Nat /\ n + 1 \in 1 .. Len(pool) /\ Len(pool') - Len(todo') = n + 1
      /\ pool[n + 1] = r
  <2>1. Len(todo) <= Len(pool) /\ todo[1] = pool[Len(pool) - Len(todo) + 1]
    BY <1>3 DEF FilesFit, PoolInMemory
  <2> QED BY <1>2, <1>3, <2>1
<1> HIDE DEF n
<1>5. p \in DOMAIN f /\ p \in unwritten
  BY <1>2, <1>4 DEF FilesFit, Phase
<1>6. f[p] \in Seq(Record) /\ Sorted(f[p]) /\ p \in Path
  BY <1>5 DEF FilesFit, TypeOK, MemoryExtendsFiles
<1> DEFINE rs == f[p]
<1>7. /\ DOMAIN f' = DOMAIN f /\ f'[p] = InsertAt(rs, i, r)
      /\ \A q \in DOMAIN f : q # p => f'[q] = f[q]
  <2>1. ToBytes(r) = r
    BY <1>3, BytesKeepRecord
  <2>2. f' = [f EXCEPT ![p] = InsertAt(rs, i, r)]
    BY <1>1, <2>1
  <2> HIDE DEF r, p, rs
  <2> QED BY <1>5, <2>2
<1> SUFFICES ASSUME NEW h \in Hash, NEW q, q = KAnonHashPath(h), q \in unwritten, q \in DOMAIN f'
             PROVE  ListOf(h, f'[q]) = ListOf(h, files[q]) \o IndicesOf(h, pool, n + 1)
  BY <1>2, <1>4 DEF ListsMerged, ListOf
<1> DEFINE a == ListOf(h, files[q])
           b == IndicesOf(h, pool, n)
<1> HIDE DEF r, p
<1>8. ListOf(h, f[q]) = a \o b
  BY <1>7 DEF ListsMerged, n
<1>9. IndicesOf(h, pool, n + 1) = IF r.hash = h THEN Append(b, r.index) ELSE b
  <2>1. (n + 1) - 1 = n
    BY <1>4
  <2>2. \A k \in 1 .. Len(pool) :
          IndicesOf(h, pool, k) =
            IF pool[k].hash = h THEN Append(IndicesOf(h, pool, k - 1), pool[k].index)
            ELSE IndicesOf(h, pool, k - 1)
    BY <1>3, IndicesStep
  <2> QED BY <1>4, <2>1, <2>2
<1>10. a \in Seq(Nat) /\ b \in Seq(Nat) /\ r.index \in Nat
  <2>1. files[q] \in Seq(Record)
    BY DEF FilesFit, TypeOK
  <2>2. Len(files[q]) \in 0 .. Len(files[q]) /\ n \in 0 .. Len(pool)
    BY <1>3, <1>4, <2>1, LenProperties
  <2>3. a \in Seq(Nat)
    BY <2>1, <2>2, IndicesType DEF ListOf
  <2>4. b \in Seq(Nat)
    BY <1>3, <2>2, IndicesType
  <2>5. r.index \in Nat
    BY <1>3, RecordsAssumption DEF Record
  <2> QED BY <2>3, <2>4, <2>5
<1> HIDE DEF a, b
<1>11. CASE q = p
  <2>1. ListOf(h, f'[q]) =
          IF r.hash = h THEN Append(ListOf(h, rs), r.index) ELSE ListOf(h, rs)
    <3>1. rs \in Seq(Record) /\ Sorted(rs) /\ i \in 0 .. Len(rs) /\ InsertIndex(i, rs, r.hash)
      BY <1>1, <1>6 DEF r, p
    <3> HIDE DEF rs
    <3> QED BY <1>3, <1>7, <1>11, <3>1, IndicesInsert
  <2>2. Append(a \o b, r.index) = a \o Append(b, r.index)
    BY <1>10, ConcatAppend, Zenon
  <2> QED BY <1>8, <1>9, <1>11, <2>1, <2>2 DEF a
<1>12. CASE q # p
  <2>1. r.hash # h
    BY <1>12 DEF p
  <2>2. f'[q] = f[q]
    BY <1>7, <1>12
  <2> QED BY <1>8, <1>9, <2>1, <2>2 DEF a
<1> QED BY <1>11, <1>12

LEMMA PutFileLists == ASSUME FilesFit, ListsMerged, PutFile PROVE ListsMerged'
<1>1. PICK p \in unwritten :
        files' = [files EXCEPT ![p] = f[p]] /\ unwritten' = unwritten \ {p}
  BY DEF PutFile
<1>2. todo' = todo /\ pool' = pool /\ f' = f
  BY DEF PutFile
<1>3. \A q : q # p => files'[q] = files[q]
  BY <1>1 DEF FilesFit, TypeOK
<1> SUFFICES ASSUME NEW h \in Hash, NEW q, q = KAnonHashPath(h), q \in unwritten', q \in DOMAIN f
             PROVE  ListOf(h, f[q]) =
                      ListOf(h, files'[q]) \o IndicesOf(h, pool, Len(pool) - Len(todo))
  BY <1>2 DEF ListsMerged, ListOf
<1>4. q \in unwritten /\ q # p
  BY <1>1
<1> QED BY <1>3, <1>4 DEF ListsMerged

LEMMA StepLists == FilesFit /\ ListsMerged /\ [Next]_vars => ListsMerged'
<1> SUFFICES ASSUME FilesFit, ListsMerged, [Next]_vars PROVE ListsMerged'
  OBVIOUS
<1>1. CASE f' = <<>>
  BY <1>1 DEF ListsMerged
<1>2. CASE UNCHANGED <<files, f, pool, todo, unwritten>>
  BY <1>2 DEF ListsMerged, ListOf
<1>3. Call \/ Return \/ Die => f' = <<>>
  BY DEF Call, Return, Die
<1>4. AllRead \/ Restart \/ UNCHANGED vars => UNCHANGED <<files, f, pool, todo, unwritten>>
  BY DEF AllRead, Restart, vars
<1> QED BY <1>1, <1>2, <1>3, <1>4, GetFileLists, InsertRecordLists, PutFileLists DEF Next

-----------------------------------------------------------------------------
\* Theorems

\* The inductive invariant holds in every reachable state of PutRecordHashes and
\* PutDedupeEntries.
THEOREM Inductive == Spec => []IInv
<1>1. Init => IInv
  <2>1. Init => ListsMerged
    BY DEF Init, ListsMerged
  <2> QED BY <2>1, InitInv DEF IInv
<1>2. IInv /\ [Next]_vars => IInv'
  BY StepInv, StepLists DEF IInv
<1> QED BY <1>1, <1>2, PTL DEF Spec

\* Every variable of the merge keeps its type.
THEOREM TypeCorrect == Spec => []TypeOK
<1>1. IInv => TypeOK
  BY DEF FilesFit, IInv
<1> QED BY <1>1, Inductive, PTL

\* Every file stays sorted by hash, with the hashes of its path only.
THEOREM AlwaysSorted == Spec => []FilesSorted
<1>1. IInv => FilesSorted
  BY DEF FilesFit, IInv
<1> QED BY <1>1, Inductive, PTL

\* A record whose call has returned is found for ever, whatever is merged later and
\* wherever a process dies.
THEOREM NoRecordLost == Spec => []RecordsKept
<1>1. IInv => RecordsKept
  BY DEF FilesFit, IInv
<1> QED BY <1>1, Inductive, PTL

\* The record a lookup finds for a hash never changes: what Submit takes the dedupe
\* file of a certificate to be.
THEOREM FirstStays == Spec => FirstMatchStays
<1>1. ASSUME IInv, [Next]_vars
      PROVE  [\A p \in Path : \A h \in Hash : \A r \in Record :
                Found(files[p], h, r) => Found(files'[p], h, r)]_files
  <2>1. ASSUME PutFile, NEW q \in Path, NEW h \in Hash, NEW r \in Record,
               Found(files[q], h, r)
        PROVE  Found(files'[q], h, r)
    <3>1. PICK p \in unwritten :
            files' = [files EXCEPT ![p] = f[p]] /\ p \in Path /\ p \in DOMAIN f
      BY <1>1, <2>1 DEF PutFile, FilesFit, IInv, TypeOK, Phase
    <3>2. Extends(f[p], files[p])
      BY <1>1, <3>1 DEF FilesFit, IInv, MemoryExtendsFiles
    <3>3. files'[p] = f[p] /\ (q # p => files'[q] = files[q])
      BY <1>1, <3>1 DEF FilesFit, IInv, TypeOK
    <3>4. Found(files[p], h, r) => Found(f[p], h, r)
      BY <3>2 DEF Extends
    <3> QED BY <2>1, <3>3, <3>4
  <2>2. CASE UNCHANGED files
    BY <2>2
  <2> QED BY <1>1, <2>1, <2>2
       DEF Next, vars, Call, GetFile, AllRead, InsertRecord, Return, Die, Restart
<1> QED BY <1>1, Inductive, PTL DEF Spec, FirstMatchStays

-----------------------------------------------------------------------------
\* The refinement

LEMMA InitIndex == Init => Index!Init
<1> SUFFICES ASSUME Init PROVE Index!Init
  OBVIOUS
<1>1. ASSUME NEW h \in Hash PROVE ValuesOf(h) = <<>>
  <2>1. KAnonHashPath(h) \in Path
    BY DEF Path
  <2>2. files[KAnonHashPath(h)] = <<>> /\ Len(files[KAnonHashPath(h)]) = 0
    BY <2>1, EmptySeq DEF Init
  <2>3. IndicesOf(h, <<>>, 0) = <<>>
    <3>1. Len(<<>>) \in Nat
      BY EmptySeq
    <3> QED BY <3>1, IndicesStep
  <2> QED BY <2>2, <2>3 DEF ValuesOf, ListOf
<1> QED BY <1>1 DEF Init, Index!Init

LEMMA CallIndex == ASSUME IInv, Call PROVE Index!Take
<1>1. unwritten = {} /\ files' = files
      /\ unwritten' = {KAnonHashPath(pool'[i].hash) : i \in DOMAIN pool'}
  BY DEF Call, IInv, FilesFit, Phase
<1>2. \E n \in 1 .. MaxIndex : pool' \in [1 .. n -> [hash : Hash, index : 0 .. MaxIndex]]
  <2>1. PICK n \in 1 .. MaxPool : \E hs \in [1 .. n -> Hash] :
          /\ next + n <= MaxIndex
          /\ pool' = [i \in 1 .. n |-> [hash |-> hs[i], index |-> next + i - 1]]
    BY DEF Call
  <2>2. PICK hs \in [1 .. n -> Hash] :
          /\ next + n <= MaxIndex
          /\ pool' = [i \in 1 .. n |-> [hash |-> hs[i], index |-> next + i - 1]]
    BY <2>1
  <2>3. next \in Nat /\ n \in Nat /\ MaxIndex \in Nat
    BY RecordsAssumption DEF IInv, FilesFit, TypeOK
  <2>4. n \in 1 .. MaxIndex
    BY <2>2, <2>3
  <2>5. \A i \in 1 .. n : next + i - 1 \in 0 .. MaxIndex
    BY <2>2, <2>3
  <2> QED BY <2>2, <2>4, <2>5
<1> QED BY <1>1, <1>2 DEF Index!Take, ValuesOf, ListOf

LEMMA PutFileIndex == ASSUME IInv, PutFile PROVE Index!PutGroup
<1>1. PICK p \in unwritten :
        files' = [files EXCEPT ![p] = f[p]] /\ unwritten' = unwritten \ {p}
  BY DEF PutFile
<1>2. pool' = pool /\ todo = <<>> /\ Len(todo) = 0 /\ Len(pool) \in Nat
  BY LenProperties, EmptySeq DEF PutFile, IInv, FilesFit, TypeOK
<1>3. p \in DOMAIN f /\ p \in Path
  BY DEF PutFile, IInv, FilesFit, TypeOK, Phase
<1>4. files'[p] = f[p] /\ \A q : q # p => files'[q] = files[q]
  BY <1>1, <1>3 DEF IInv, FilesFit, TypeOK
<1>5. ASSUME NEW h \in Hash
      PROVE  ValuesOf(h)' = IF KAnonHashPath(h) = p
                            THEN ValuesOf(h) \o IndicesOf(h, pool, Len(pool)) ELSE ValuesOf(h)
  <2>1. CASE KAnonHashPath(h) = p
    <3>1. ListOf(h, f[p]) = ListOf(h, files[p]) \o IndicesOf(h, pool, Len(pool) - Len(todo))
      BY <1>3, <2>1 DEF IInv, ListsMerged
    <3>2. Len(pool) - Len(todo) = Len(pool)
      BY <1>2
    <3> QED BY <1>4, <2>1, <3>1, <3>2 DEF ValuesOf, ListOf
  <2>2. CASE KAnonHashPath(h) # p
    BY <1>4, <2>2 DEF ValuesOf, ListOf
  <2> QED BY <2>1, <2>2
<1>6. \A h : Index!IndicesOf(h, pool, Len(pool)) = IndicesOf(h, pool, Len(pool))
  BY DEF Index!IndicesOf, IndicesOf
<1> QED BY <1>1, <1>2, <1>5, <1>6 DEF Index!PutGroup

LEMMA StepIndex == IInv /\ [Next]_vars => [Index!Next]_(Index!vars)
<1> SUFFICES ASSUME IInv, [Next]_vars PROVE [Index!Next]_(Index!vars)
  OBVIOUS
<1>1. CASE UNCHANGED <<files, pool, unwritten>>
  BY <1>1 DEF Index!vars, ValuesOf, ListOf
<1>2. GetFile \/ AllRead \/ InsertRecord \/ Restart \/ UNCHANGED vars
        => UNCHANGED <<files, pool, unwritten>>
  BY DEF GetFile, AllRead, InsertRecord, Restart, vars
<1>3. Return \/ Die => Index!GiveUp
  BY DEF Return, Die, Index!GiveUp, ValuesOf, ListOf
<1> QED BY <1>1, <1>2, <1>3, CallIndex, PutFileIndex DEF Next, Index!Next

\* Pools merged into shared files, with errors and crashes between any two steps,
\* look from outside like one growing list for each hash.
THEOREM Implementation == Spec => ImplementsRecordIndex
<1>1. Spec => Index!Spec
  BY InitIndex, StepIndex, Inductive, PTL DEF Spec, Index!Spec
<1> QED BY <1>1 DEF ImplementsRecordIndex
=============================================================================
