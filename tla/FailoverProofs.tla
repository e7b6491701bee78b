--------------------------- MODULE FailoverProofs ---------------------------
(***************************************************************************)
(* Proofs about Failover, for any number of instances, puts and leaves:    *)
(* nothing but a late put takes an SCT's leaf from the log.                *)
(***************************************************************************)
EXTENDS Failover, SequenceTheorems, TLAPS

-----------------------------------------------------------------------------
\* Lemmas

\* A leaf at the end of the log, and the log with it.
LEMMA AppendLeaf ==
    ASSUME NEW s \in Seq(Leaf), NEW c \in Cert,
           NEW t, t = Append(s, [idx |-> Len(s), cert |-> c])
    PROVE  /\ t \in Seq(Leaf)
           /\ Len(s) \in Nat /\ Len(t) = Len(s) + 1
           /\ \A k \in 1 .. Len(s) : t[k] = s[k]
           /\ t[Len(s) + 1] = [idx |-> Len(s), cert |-> c]
<1>1. [idx |-> Len(s), cert |-> c] \in Leaf /\ Len(s) \in Nat
  BY LenProperties DEF Leaf
<1> QED BY <1>1, AppendProperties

\* The tree head of a put in full: the log so far, and at most one leaf more.
LEMMA ExtendsTreeHead ==
    ASSUME TypeOK, NEW head, Extends(head)
    PROVE  /\ head \in Seq(Leaf)
           /\ Len(sth) \in Nat /\ Len(head) \in {Len(sth), Len(sth) + 1}
           /\ \A k \in 1 .. Len(sth) : head[k] = sth[k]
           /\ Len(head) = Len(sth) + 1 => head[Len(sth) + 1].idx = Len(sth)
<1>1. CASE head = sth
  <2>1. head \in Seq(Leaf) /\ Len(sth) \in Nat
    BY <1>1, LenProperties DEF TypeOK
  <2> QED BY <1>1, <2>1
<1>2. ASSUME NEW c \in Cert,
             head = Append(sth, [idx |-> Len(sth), cert |-> c])
      PROVE  /\ head \in Seq(Leaf)
             /\ Len(sth) \in Nat /\ Len(head) = Len(sth) + 1
             /\ \A k \in 1 .. Len(sth) : head[k] = sth[k]
             /\ head[Len(sth) + 1].idx = Len(sth)
  <2>1. sth \in Seq(Leaf)
    BY DEF TypeOK
  <2>2. /\ head \in Seq(Leaf)
        /\ Len(sth) \in Nat /\ Len(head) = Len(sth) + 1
        /\ \A k \in 1 .. Len(sth) : head[k] = sth[k]
        /\ head[Len(sth) + 1] = [idx |-> Len(sth), cert |-> c]
    BY <1>2, <2>1, AppendLeaf
  <2> QED BY <2>2
<1> QED BY <1>1, <1>2 DEF Extends

\* What the tree head covers stays covered by what a put makes of it.
LEMMA CoveredStays ==
    ASSUME TypeOK, NEW head, Extends(head), NEW l \in Leaf, Covered(l, sth)
    PROVE  Covered(l, head)
<1>1. l.idx \in Nat
  BY DEF Leaf
<1>2. l.idx + 1 \in 1 .. Len(sth) /\ l.idx < Len(head)
  BY <1>1, ExtendsTreeHead DEF Covered
<1>3. head[l.idx + 1] = sth[l.idx + 1]
  BY <1>2, ExtendsTreeHead
<1> QED BY <1>2, <1>3 DEF Covered

\* What SendSth makes of the log in memory: the leaves of its pool are covered.
LEMMA SendSthPool ==
    ASSUME TypeOK, NEW i \in Instance, SendSth(i)
    PROVE  /\ \/ mem'[i] = mem[i] /\ pool'[i] = {}
              \/ \E c \in Cert :
                   /\ mem'[i] = Append(mem[i], [idx |-> Len(mem[i]), cert |-> c])
                   /\ pool'[i] = {[idx |-> Len(mem[i]), cert |-> c]}
           /\ mem' = [mem EXCEPT ![i] = mem'[i]]
           /\ pool' = [pool EXCEPT ![i] = pool'[i]]
           /\ mem'[i] \in Seq(Leaf)
           /\ pool'[i] \subseteq Leaf
           /\ \A l \in pool'[i] : Covered(l, mem'[i])
<1>1. mem[i] \in Seq(Leaf)
  BY DEF TypeOK
<1>2. CASE pool' = [pool EXCEPT ![i] = {}] /\ mem' = mem
  BY <1>1, <1>2 DEF TypeOK
<1>3. ASSUME NEW c \in Cert,
             pool' = [pool EXCEPT ![i] = {[idx |-> Len(mem[i]), cert |-> c]}],
             mem' = [mem EXCEPT ![i] =
                        Append(mem[i], [idx |-> Len(mem[i]), cert |-> c])]
      PROVE  /\ \/ mem'[i] = mem[i] /\ pool'[i] = {}
                \/ \E d \in Cert :
                     /\ mem'[i] = Append(mem[i], [idx |-> Len(mem[i]), cert |-> d])
                     /\ pool'[i] = {[idx |-> Len(mem[i]), cert |-> d]}
             /\ mem' = [mem EXCEPT ![i] = mem'[i]]
             /\ pool' = [pool EXCEPT ![i] = pool'[i]]
             /\ mem'[i] \in Seq(Leaf)
             /\ pool'[i] \subseteq Leaf
             /\ \A l \in pool'[i] : Covered(l, mem'[i])
  <2> DEFINE leaf == [idx |-> Len(mem[i]), cert |-> c]
  <2>1. mem'[i] = Append(mem[i], leaf) /\ pool'[i] = {leaf}
    BY <1>3 DEF TypeOK
  <2>2. /\ mem'[i] \in Seq(Leaf)
        /\ Len(mem[i]) \in Nat /\ Len(mem'[i]) = Len(mem[i]) + 1
        /\ mem'[i][Len(mem[i]) + 1] = leaf
    BY <1>1, <2>1, AppendLeaf
  <2>3. leaf \in Leaf /\ leaf.idx = Len(mem[i])
    BY <2>2 DEF Leaf
  <2>4. Covered(leaf, mem'[i])
    BY <2>2, <2>3 DEF Covered
  <2>5. mem' = [mem EXCEPT ![i] = mem'[i]] /\ pool' = [pool EXCEPT ![i] = pool'[i]]
    BY <1>3, <2>1
  <2> HIDE DEF leaf
  <2> QED BY <2>1, <2>2, <2>3, <2>4, <2>5 DEF leaf
<1> QED BY <1>2, <1>3 DEF SendSth

\* A put that is marked late, and one whose sender has ended.
LEMMA MarkedPut ==
    ASSUME NEW p \in Put
    PROVE  /\ [p EXCEPT !.late = TRUE] \in Put
           /\ [p EXCEPT !.late = TRUE].by = p.by
           /\ [p EXCEPT !.late = TRUE].head = p.head
           /\ [p EXCEPT !.late = TRUE].late
           /\ [p EXCEPT !.by = NoOne] \in Put
           /\ [p EXCEPT !.by = NoOne].by = NoOne
           /\ [p EXCEPT !.by = NoOne].head = p.head
           /\ [p EXCEPT !.by = NoOne].late = p.late
BY DEF Put

\* What a lock that is taken does to the puts on their way.
LEMMA AcquirePuts ==
    ASSUME TypeOK, NEW i \in Instance, Acquire(i)
    PROVE  /\ puts' \subseteq Put
           /\ \A q \in puts' : \E p \in puts :
                q = [p EXCEPT !.late = TRUE] /\ q.by = p.by /\ q.head = p.head /\ q.late
<1>1. puts' = {[p EXCEPT !.late = TRUE] : p \in puts} /\ puts \subseteq Put
  BY DEF Acquire, TypeOK
<1>2. ASSUME NEW q \in puts'
      PROVE  q \in Put /\ \E p \in puts :
               q = [p EXCEPT !.late = TRUE] /\ q.by = p.by /\ q.head = p.head /\ q.late
  <2>1. PICK p \in puts : q = [p EXCEPT !.late = TRUE]
    BY <1>1
  <2>2. /\ q \in Put /\ q.by = p.by /\ q.head = p.head /\ q.late
    BY <1>1, <2>1, MarkedPut
  <2> QED BY <2>1, <2>2
<1> QED BY <1>2

\* What the end of a process does to its puts.
LEMMA RestartPuts ==
    ASSUME TypeOK, NEW i \in Instance, Restart(i)
    PROVE  /\ puts' \subseteq Put
           /\ \A q \in puts' : \E p \in puts :
                /\ q.head = p.head /\ (q.late <=> p.late)
                /\ \/ p.by = i /\ q.by = NoOne /\ q = [p EXCEPT !.by = NoOne]
                   \/ p.by # i /\ q = p
<1>1. /\ puts' = {IF p.by = i THEN [p EXCEPT !.by = NoOne] ELSE p : p \in puts}
      /\ puts \subseteq Put
  BY DEF Restart, TypeOK
<1>2. ASSUME NEW q \in puts'
      PROVE  q \in Put /\ \E p \in puts :
               /\ q.head = p.head /\ (q.late <=> p.late)
               /\ \/ p.by = i /\ q.by = NoOne /\ q = [p EXCEPT !.by = NoOne]
                  \/ p.by # i /\ q = p
  <2>1. PICK p \in puts : q = IF p.by = i THEN [p EXCEPT !.by = NoOne] ELSE p
    BY <1>1
  <2>2. CASE p.by = i
    <3>1. /\ q = [p EXCEPT !.by = NoOne] /\ q \in Put
          /\ q.by = NoOne /\ q.head = p.head /\ q.late = p.late
      BY <1>1, <2>1, <2>2, MarkedPut
    <3> QED BY <2>2, <3>1
  <2>3. CASE p.by # i
    BY <1>1, <2>1, <2>3
  <2> QED BY <2>2, <2>3
<1> QED BY <1>2

-----------------------------------------------------------------------------
\* Type correctness

LEMMA NextTypeOK == FailoverAssumption /\ TypeOK /\ [Next]_vars => TypeOK'
<1> SUFFICES ASSUME FailoverAssumption, TypeOK, [Next]_vars PROVE TypeOK'
  OBVIOUS
<1> USE DEF history
<1>1. ASSUME NEW i \in Instance, Acquire(i) PROVE TypeOK'
  <2>1. puts' \subseteq Put
    BY <1>1, AcquirePuts
  <2> QED BY <1>1, <2>1 DEF Acquire, TypeOK
<1>2. ASSUME NEW i \in Instance, LoadLog(i) PROVE TypeOK'
  BY <1>2 DEF LoadLog, TypeOK
<1>3. ASSUME NEW i \in Instance, SendSth(i) PROVE TypeOK'
  <2>1. mem' \in [Instance -> Seq(Leaf)] /\ pool' \in [Instance -> SUBSET Leaf]
    BY <1>3, SendSthPool DEF TypeOK
  <2>2. PICK n \in PutId : puts' = puts \cup {[id |-> n, by |-> i, head |-> mem'[i],
                                              late |-> owner # i]}
    BY <1>3 DEF SendSth, FreeId
  <2>3. [id |-> n, by |-> i, head |-> mem'[i], late |-> owner # i] \in Put
    BY <2>1 DEF Put
  <2>4. puts' \subseteq Put
    BY <2>2, <2>3 DEF TypeOK
  <2> QED BY <1>3, <2>1, <2>4 DEF SendSth, TypeOK
<1>4. ASSUME NEW p \in puts, PutLands(p) PROVE TypeOK'
  <2>1. p.head \in Seq(Leaf) /\ p.late \in BOOLEAN
    BY DEF TypeOK, Put
  <2>2. pc' \in [Instance -> {"waiting", "locked", "ready", "putting",
                              "answering", "failed"}]
    BY <1>4 DEF PutLands, TypeOK
  <2> QED BY <1>4, <2>1, <2>2 DEF PutLands, TypeOK
<1>5. ASSUME NEW p \in puts, PutLost(p) PROVE TypeOK'
  BY <1>5 DEF PutLost, TypeOK
<1>6. ASSUME NEW i \in Instance, Answer(i) PROVE TypeOK'
  BY <1>6 DEF Answer, TypeOK
<1>7. ASSUME NEW i \in Instance, Fail(i) PROVE TypeOK'
  BY <1>7, EmptySeq DEF Fail, TypeOK
<1>8. ASSUME NEW i \in Instance, FreeLock(i) PROVE TypeOK'
  BY <1>8 DEF FreeLock, TypeOK
<1>9. ASSUME NEW i \in Instance, Restart(i) PROVE TypeOK'
  <2>1. puts' \subseteq Put
    BY <1>9, RestartPuts
  <2> QED BY <1>9, <2>1, EmptySeq DEF Restart, TypeOK
<1>10. CASE UNCHANGED vars
  BY <1>10 DEF vars, TypeOK
<1> QED BY <1>1, <1>2, <1>3, <1>4, <1>5, <1>6, <1>7, <1>8, <1>9, <1>10
     DEF Next, LockLost, Crash

-----------------------------------------------------------------------------
\* The parts of the invariant

\* An instance that neither puts nor has failed has no put on its way.
LEMMA NoPutBy ==
    ASSUME OnePutInTime, FailoverAssumption, NEW i \in Instance,
           pc[i] \notin {"putting", "failed"}
    PROVE  /\ \A p \in puts : p.by # i
           /\ owner = i => \A p \in puts : p.late
<1>1. i # NoOne
  BY DEF FailoverAssumption
<1>2. \A p \in puts : p.by # i
  BY <1>1 DEF OnePutInTime
<1> QED BY <1>2 DEF OnePutInTime

\* Steps that leave the tree head and the promises alone keep what is said of
\* those two.
LEMMA SameTreeHead ==
    ASSUME Intact, UNCHANGED <<sth, promised>>
    PROVE  Indexed' /\ SctIncluded'
BY DEF Intact, Indexed, SctIncluded, Covered

\* One put of a process, one put in time.
LEMMA NextOnePut ==
    ASSUME FailoverAssumption, TypeOK, OnePutInTime, [Next]_vars
    PROVE  OnePutInTime'
<1> USE DEF history
<1>0. /\ NoOne \notin Instance /\ owner \in Instance \cup {NoOne}
      /\ \A p \in puts : p.by \in Instance \cup {NoOne} /\ p.late \in BOOLEAN
  BY DEF FailoverAssumption, TypeOK, Put
<1>1. ASSUME NEW i \in Instance, Acquire(i) PROVE OnePutInTime'
  <2>1. /\ owner' = i /\ pc'[i] = "locked" /\ UNCHANGED mem
        /\ \A j \in Instance : j # i => pc'[j] = pc[j]
    BY <1>1 DEF Acquire, TypeOK
  <2>2. \A p \in puts : p.by # i
    BY <1>1, NoPutBy DEF Acquire
  <2>3. \A q \in puts' : \E p \in puts :
           q = [p EXCEPT !.late = TRUE] /\ q.by = p.by /\ q.head = p.head /\ q.late
    BY <1>1, AcquirePuts
  <2>4. ASSUME NEW q \in puts', NEW r \in puts', q.by = r.by, q.by # NoOne
        PROVE  q = r
    <3>1. PICK p \in puts : q = [p EXCEPT !.late = TRUE] /\ q.by = p.by
      BY <2>3
    <3>2. PICK o \in puts : r = [o EXCEPT !.late = TRUE] /\ r.by = o.by
      BY <2>3
    <3>3. p = o
      BY <2>4, <3>1, <3>2 DEF OnePutInTime
    <3> QED BY <3>1, <3>2, <3>3
  <2>5. \A q \in puts' :
           /\ q.late /\ q.by # i
           /\ q.by # NoOne => \/ pc'[q.by] = "putting" /\ mem'[q.by] = q.head
                             \/ pc'[q.by] = "failed"
    BY <1>0, <2>1, <2>2, <2>3 DEF OnePutInTime
  <2> QED BY <2>1, <2>4, <2>5 DEF OnePutInTime
<1>2. ASSUME NEW i \in Instance, LoadLog(i) \/ Answer(i) PROVE OnePutInTime'
  <2>1. /\ pc'[i] = "ready" /\ UNCHANGED <<puts, owner>>
        /\ \A j \in Instance : j # i => pc'[j] = pc[j] /\ mem'[j] = mem[j]
    BY <1>2 DEF LoadLog, Answer, TypeOK
  <2>2. \A p \in puts : p.by # i
    BY <1>2, NoPutBy DEF LoadLog, Answer
  <2> QED BY <1>0, <2>1, <2>2 DEF OnePutInTime
<1>3. ASSUME NEW i \in Instance, SendSth(i) PROVE OnePutInTime'
  <2>1. PICK n \in PutId : puts' = puts \cup {[id |-> n, by |-> i, head |-> mem'[i],
                                              late |-> owner # i]}
    BY <1>3 DEF SendSth, FreeId
  <2> DEFINE new == [id |-> n, by |-> i, head |-> mem'[i], late |-> owner # i]
  <2>2. new.by = i /\ new.head = mem'[i] /\ (new.late <=> owner # i)
    OBVIOUS
  <2>3. puts' = puts \cup {new}
    BY <2>1
  <2> HIDE DEF new
  <2>4. /\ pc'[i] = "putting" /\ UNCHANGED owner
        /\ \A j \in Instance : j # i => pc'[j] = pc[j] /\ mem'[j] = mem[j]
    <3>1. mem' = [mem EXCEPT ![i] = mem'[i]]
      BY <1>3, SendSthPool
    <3> QED BY <1>3, <3>1 DEF SendSth, TypeOK
  <2>5. /\ \A p \in puts : p.by # i
        /\ owner = i => \A p \in puts : p.late
    BY <1>3, NoPutBy DEF SendSth
  <2>6. \A p, q \in puts' : ~ p.late /\ ~ q.late => p = q
    <3>1. CASE owner = i
      BY <2>3, <2>5, <3>1
    <3>2. CASE owner # i
      BY <2>2, <2>3, <3>2 DEF OnePutInTime
    <3> QED BY <3>1, <3>2
  <2>7. \A p, q \in puts' : p.by = q.by /\ p.by # NoOne => p = q
    BY <2>2, <2>3, <2>5 DEF OnePutInTime
  <2>8. \A p \in puts' :
           /\ ~ p.late => p.by = owner
           /\ p.late => p.by = NoOne \/ p.by # owner
           /\ p.by # NoOne => \/ pc'[p.by] = "putting" /\ mem'[p.by] = p.head
                             \/ pc'[p.by] = "failed"
    BY <1>0, <2>2, <2>3, <2>4, <2>5 DEF OnePutInTime
  <2>9. owner # NoOne => pc'[owner] # "waiting"
    BY <1>0, <2>4 DEF OnePutInTime
  <2> QED BY <2>4, <2>6, <2>7, <2>8, <2>9 DEF OnePutInTime
<1>4. ASSUME NEW p \in puts, PutLands(p) PROVE OnePutInTime'
  <2>1. /\ puts' = puts \ {p} /\ UNCHANGED <<owner, mem>>
        /\ \A j \in Instance : j # p.by => pc'[j] = pc[j]
        /\ \A j \in Instance : pc[j] # "waiting" => pc'[j] # "waiting"
    BY <1>4 DEF PutLands, TypeOK
  <2>2. \A q \in puts' : q.by # NoOne => q.by # p.by
    BY <2>1 DEF OnePutInTime
  <2> QED BY <1>0, <2>1, <2>2 DEF OnePutInTime
<1>5. ASSUME NEW p \in puts, PutLost(p) PROVE OnePutInTime'
  <2>1. puts' = puts \ {p} /\ UNCHANGED <<owner, mem, pc>>
    BY <1>5 DEF PutLost
  <2> QED BY <2>1 DEF OnePutInTime
<1>7. ASSUME NEW i \in Instance, Fail(i) PROVE OnePutInTime'
  <2>1. /\ pc'[i] = "failed" /\ UNCHANGED <<puts, owner>>
        /\ \A j \in Instance : j # i => pc'[j] = pc[j] /\ mem'[j] = mem[j]
    BY <1>7 DEF Fail, TypeOK
  <2> QED BY <1>0, <2>1 DEF OnePutInTime
<1>9. ASSUME NEW i \in Instance, Restart(i) PROVE OnePutInTime'
  <2>1. /\ owner' = IF owner = i THEN NoOne ELSE owner
        /\ \A j \in Instance : j # i => pc'[j] = pc[j] /\ mem'[j] = mem[j]
    BY <1>9 DEF Restart, TypeOK
  <2>2. \A q \in puts' : \E p \in puts :
           /\ q.head = p.head /\ (q.late <=> p.late)
           /\ \/ p.by = i /\ q.by = NoOne /\ q = [p EXCEPT !.by = NoOne]
              \/ p.by # i /\ q = p
    BY <1>9, RestartPuts
  <2>3. \A p, q \in puts' : ~ p.late /\ ~ q.late => p = q
    BY <2>2 DEF OnePutInTime
  <2>4. \A p, q \in puts' : p.by = q.by /\ p.by # NoOne => p = q
    BY <2>2 DEF OnePutInTime
  <2>5. \A q \in puts' :
           /\ ~ q.late => q.by = owner'
           /\ q.late => q.by = NoOne \/ q.by # owner'
           /\ q.by # NoOne => \/ pc'[q.by] = "putting" /\ mem'[q.by] = q.head
                             \/ pc'[q.by] = "failed"
    BY <1>0, <2>1, <2>2 DEF OnePutInTime
  <2>6. owner' # NoOne => pc'[owner'] # "waiting"
    BY <1>0, <2>1 DEF OnePutInTime
  <2> QED BY <2>3, <2>4, <2>5, <2>6 DEF OnePutInTime
<1>10. CASE UNCHANGED <<puts, owner, pc, mem>>
  BY <1>10 DEF OnePutInTime
<1> QED BY <1>1, <1>2, <1>3, <1>4, <1>5, <1>7, <1>9, <1>10
     DEF Next, LockLost, Crash, FreeLock, vars

\* A pool is of the log in memory.
LEMMA NextPoolInMemory ==
    ASSUME TypeOK, PoolInMemory, [Next]_vars
    PROVE  PoolInMemory'
<1> USE DEF history
<1>1. ASSUME NEW i \in Instance, SendSth(i) PROVE PoolInMemory'
  <2>1. /\ pool' = [pool EXCEPT ![i] = pool'[i]] /\ mem' = [mem EXCEPT ![i] = mem'[i]]
        /\ \A l, m \in pool'[i] : l = m
        /\ \A l \in pool'[i] : Covered(l, mem'[i])
    BY <1>1, SendSthPool
  <2>2. \A j \in Instance : j # i =>
           pc'[j] = pc[j] /\ mem'[j] = mem[j] /\ pool'[j] = pool[j]
    BY <1>1, <2>1 DEF SendSth, TypeOK
  <2> QED BY <2>1, <2>2 DEF PoolInMemory, Covered
<1>2. ASSUME NEW i \in Instance, LoadLog(i) \/ Answer(i) \/ Fail(i) \/ Restart(i)
      PROVE  PoolInMemory'
  <2>1. /\ pc'[i] # "putting" /\ pool'[i] \in {pool[i], {}}
        /\ \A j \in Instance : j # i =>
             pc'[j] = pc[j] /\ mem'[j] = mem[j] /\ pool'[j] = pool[j]
    BY <1>2 DEF LoadLog, Answer, Fail, Restart, TypeOK
  <2> QED BY <2>1 DEF PoolInMemory, Covered
<1>3. ASSUME NEW i \in Instance, Acquire(i) PROVE PoolInMemory'
  <2>1. \A j \in Instance : pc'[j] = "putting" => pc[j] = "putting"
    BY <1>3 DEF Acquire, TypeOK
  <2> QED BY <1>3, <2>1 DEF Acquire, PoolInMemory, Covered
<1>4. ASSUME NEW p \in puts, PutLands(p) PROVE PoolInMemory'
  <2>1. \A j \in Instance : pc'[j] = "putting" => pc[j] = "putting"
    BY <1>4 DEF PutLands, TypeOK
  <2> QED BY <1>4, <2>1 DEF PutLands, PoolInMemory, Covered
<1>5. CASE UNCHANGED <<pc, mem, pool>>
  BY <1>5 DEF PoolInMemory, Covered
<1> QED BY <1>1, <1>2, <1>3, <1>4, <1>5
     DEF Next, LockLost, Crash, FreeLock, PutLost, vars

\* A put in time keeps the log intact.
LEMMA LandsInTime ==
    ASSUME FailoverAssumption, TypeOK, OnePutInTime, PoolInMemory, Intact,
           NEW p \in puts, PutLands(p), ~ p.late
    PROVE  Intact'
<1>0. /\ p.by = owner /\ owner \in Instance \cup {NoOne} /\ Extends(p.head)
      /\ \A q \in puts : ~ q.late => q = p
  BY DEF Intact, PutsInTimeExtend, OnePutInTime, TypeOK
<1>1. /\ puts' = puts \ {p} /\ sth' = p.head
      /\ \A j \in Instance : pc'[j] = IF j = owner /\ pc[j] = "putting"
                                     THEN "answering" ELSE pc[j]
      /\ UNCHANGED <<mem, pool, promised, owner>>
  BY <1>0 DEF PutLands, TypeOK
<1>2. owner # NoOne => \/ pc[owner] = "putting" /\ mem[owner] = p.head
                       \/ pc[owner] = "failed"
  BY <1>0 DEF OnePutInTime
<1>3. PutsInTimeExtend'
  BY <1>0, <1>1 DEF PutsInTimeExtend
<1>4. OwnerFollowsTreeHead'
  BY <1>0, <1>1, <1>2 DEF OwnerFollowsTreeHead
<1>5. AnswersCovered'
  <2> SUFFICES ASSUME NEW j \in Instance, pc'[j] = "answering", NEW l \in pool[j]
               PROVE  Covered(l, p.head)
    BY <1>1 DEF AnswersCovered, Covered
  <2>1. CASE pc[j] = "answering"
    BY <1>0, <2>1, CoveredStays DEF Intact, AnswersCovered, TypeOK
  <2>2. CASE pc[j] # "answering"
    <3>1. j = owner /\ pc[j] = "putting" /\ j # NoOne
      BY <1>1, <2>2 DEF FailoverAssumption
    <3> QED BY <1>2, <3>1 DEF PoolInMemory
  <2> QED BY <2>1, <2>2
<1>6. Indexed'
  <2>1. /\ Len(sth) \in Nat /\ Len(p.head) \in {Len(sth), Len(sth) + 1}
        /\ \A k \in 1 .. Len(sth) : p.head[k] = sth[k]
        /\ Len(p.head) = Len(sth) + 1 => p.head[Len(sth) + 1].idx = Len(sth)
    BY <1>0, ExtendsTreeHead
  <2>2. \A k \in 1 .. Len(sth) : p.head[k].idx = k - 1
    BY <2>1 DEF Intact, Indexed
  <2>3. \A k \in 1 .. Len(p.head) :
           \/ k \in 1 .. Len(sth)
           \/ k = Len(sth) + 1 /\ Len(p.head) = Len(sth) + 1
    BY <2>1
  <2>4. \A k \in 1 .. Len(p.head) : p.head[k].idx = k - 1
    BY <2>1, <2>2, <2>3
  <2> QED BY <1>1, <2>4 DEF Indexed
<1>7. SctIncluded'
  <2>1. \A l \in promised : Covered(l, p.head)
    BY <1>0, CoveredStays DEF Intact, TypeOK, SctIncluded
  <2> QED BY <1>1, <2>1 DEF SctIncluded, Covered
<1> QED BY <1>3, <1>4, <1>5, <1>6, <1>7 DEF Intact

\* No other step takes a leaf from the log, or makes an instance answer for one
\* that it does not have.
LEMMA NextIntact ==
    ASSUME FailoverAssumption, TypeOK, OnePutInTime, PoolInMemory, Intact,
           [Next]_vars, ~ lateLanded'
    PROVE  Intact'
<1> USE DEF history
<1>0. owner \in Instance \cup {NoOne} /\ NoOne \notin Instance
  BY DEF TypeOK, FailoverAssumption
<1>1. ASSUME NEW i \in Instance, Acquire(i) PROVE Intact'
  <2>1. /\ owner' = i /\ pc'[i] = "locked" /\ UNCHANGED <<mem, pool, sth, promised>>
        /\ \A j \in Instance : j # i => pc'[j] = pc[j]
    BY <1>1 DEF Acquire, TypeOK
  <2>2. \A q \in puts' : q.late
    BY <1>1, AcquirePuts
  <2>3. PutsInTimeExtend' /\ OwnerFollowsTreeHead'
    BY <2>1, <2>2 DEF PutsInTimeExtend, OwnerFollowsTreeHead
  <2>4. AnswersCovered'
    BY <2>1 DEF Intact, AnswersCovered, Covered
  <2> QED BY <2>1, <2>3, <2>4, SameTreeHead DEF Intact
<1>2. ASSUME NEW i \in Instance, LoadLog(i) PROVE Intact'
  <2>1. /\ pc'[i] = "ready" /\ mem'[i] = sth
        /\ \A j \in Instance : j # i => pc'[j] = pc[j] /\ mem'[j] = mem[j]
        /\ UNCHANGED <<pool, puts, sth, promised, owner>>
    BY <1>2 DEF LoadLog, TypeOK
  <2>2. PutsInTimeExtend' /\ AnswersCovered'
    BY <2>1 DEF Intact, PutsInTimeExtend, Extends, AnswersCovered, Covered
  <2>3. OwnerFollowsTreeHead'
    BY <1>0, <2>1 DEF Intact, OwnerFollowsTreeHead
  <2> QED BY <2>1, <2>2, <2>3, SameTreeHead DEF Intact
<1>3. ASSUME NEW i \in Instance, SendSth(i) PROVE Intact'
  <2>1. PICK n \in PutId : puts' = puts \cup {[id |-> n, by |-> i, head |-> mem'[i],
                                              late |-> owner # i]}
    BY <1>3 DEF SendSth, FreeId
  <2>2. /\ mem' = [mem EXCEPT ![i] = mem'[i]] /\ pool' = [pool EXCEPT ![i] = pool'[i]]
        /\ \/ mem'[i] = mem[i]
           \/ \E c \in Cert :
                mem'[i] = Append(mem[i], [idx |-> Len(mem[i]), cert |-> c])
    BY <1>3, SendSthPool
  <2>3. /\ pc[i] = "ready" /\ pc'[i] = "putting"
        /\ \A j \in Instance : j # i =>
             pc'[j] = pc[j] /\ mem'[j] = mem[j] /\ pool'[j] = pool[j]
        /\ UNCHANGED <<sth, promised, owner>>
    BY <1>3, <2>2 DEF SendSth, TypeOK
  <2>4. owner = i => Extends(mem'[i])
    BY <1>0, <2>2, <2>3 DEF Intact, OwnerFollowsTreeHead, Extends
  <2>5. ASSUME NEW p \in puts', ~ p.late PROVE Extends(p.head)
    <3>1. CASE p \in puts
      BY <2>5, <3>1 DEF Intact, PutsInTimeExtend
    <3>2. CASE p = [id |-> n, by |-> i, head |-> mem'[i], late |-> owner # i]
      BY <2>4, <2>5, <3>2
    <3> QED BY <2>1, <3>1, <3>2
  <2>6. PutsInTimeExtend'
    BY <2>3, <2>5 DEF PutsInTimeExtend, Extends
  <2>7. OwnerFollowsTreeHead' /\ AnswersCovered'
    BY <1>0, <2>3 DEF Intact, OwnerFollowsTreeHead, AnswersCovered, Covered
  <2> QED BY <2>3, <2>6, <2>7, SameTreeHead DEF Intact
<1>4. ASSUME NEW p \in puts, PutLands(p) PROVE Intact'
  BY <1>4, LandsInTime DEF PutLands
<1>5. ASSUME NEW p \in puts, PutLost(p) PROVE Intact'
  <2>1. puts' \subseteq puts /\ UNCHANGED <<pc, mem, pool, sth, promised, owner>>
    BY <1>5 DEF PutLost
  <2>2. PutsInTimeExtend' /\ OwnerFollowsTreeHead' /\ AnswersCovered'
    BY <2>1 DEF Intact, PutsInTimeExtend, Extends, OwnerFollowsTreeHead,
                AnswersCovered, Covered
  <2> QED BY <2>1, <2>2, SameTreeHead DEF Intact
<1>6. ASSUME NEW i \in Instance, Answer(i) PROVE Intact'
  <2>1. /\ pc[i] = "answering" /\ pc'[i] = "ready" /\ promised' = promised \cup pool[i]
        /\ \A j \in Instance : j # i => pc'[j] = pc[j] /\ pool'[j] = pool[j]
        /\ UNCHANGED <<mem, puts, sth, owner>>
    BY <1>6 DEF Answer, TypeOK
  <2>2. PutsInTimeExtend' /\ Indexed'
    BY <2>1 DEF Intact, PutsInTimeExtend, Extends, Indexed
  <2>3. OwnerFollowsTreeHead' /\ AnswersCovered'
    BY <1>0, <2>1 DEF Intact, OwnerFollowsTreeHead, AnswersCovered, Covered
  <2>4. SctIncluded'
    BY <2>1 DEF Intact, SctIncluded, AnswersCovered, Covered
  <2> QED BY <2>2, <2>3, <2>4 DEF Intact
<1>7. ASSUME NEW i \in Instance, Fail(i) PROVE Intact'
  <2>1. /\ pc'[i] = "failed"
        /\ \A j \in Instance : j # i =>
             pc'[j] = pc[j] /\ mem'[j] = mem[j] /\ pool'[j] = pool[j]
        /\ UNCHANGED <<puts, sth, promised, owner>>
    BY <1>7 DEF Fail, TypeOK
  <2>2. PutsInTimeExtend'
    BY <2>1 DEF Intact, PutsInTimeExtend, Extends
  <2>3. OwnerFollowsTreeHead' /\ AnswersCovered'
    BY <1>0, <2>1 DEF Intact, OwnerFollowsTreeHead, AnswersCovered, Covered
  <2> QED BY <2>1, <2>2, <2>3, SameTreeHead DEF Intact
<1>9. ASSUME NEW i \in Instance, Restart(i) PROVE Intact'
  <2>1. /\ pc'[i] = "waiting" /\ owner' = IF owner = i THEN NoOne ELSE owner
        /\ \A j \in Instance : j # i =>
             pc'[j] = pc[j] /\ mem'[j] = mem[j] /\ pool'[j] = pool[j]
        /\ UNCHANGED <<sth, promised>>
    BY <1>9 DEF Restart, TypeOK
  <2>2. \A q \in puts' : \E p \in puts : q.head = p.head /\ (q.late <=> p.late)
    BY <1>9, RestartPuts
  <2>3. PutsInTimeExtend'
    <3>1. \A q \in puts' : ~ q.late => Extends(q.head)
      BY <2>2 DEF Intact, PutsInTimeExtend
    <3> QED BY <2>1, <3>1 DEF PutsInTimeExtend, Extends
  <2>4. OwnerFollowsTreeHead' /\ AnswersCovered'
    BY <1>0, <2>1 DEF Intact, OwnerFollowsTreeHead, AnswersCovered, Covered
  <2> QED BY <2>1, <2>3, <2>4, SameTreeHead DEF Intact
<1>10. CASE UNCHANGED <<pc, mem, pool, puts, sth, promised, owner>>
  <2>1. PutsInTimeExtend' /\ OwnerFollowsTreeHead' /\ AnswersCovered'
    BY <1>10 DEF Intact, PutsInTimeExtend, Extends, OwnerFollowsTreeHead,
                 AnswersCovered, Covered
  <2> QED BY <1>10, <2>1, SameTreeHead DEF Intact
<1> QED BY <1>1, <1>2, <1>3, <1>4, <1>5, <1>6, <1>7, <1>9, <1>10
     DEF Next, LockLost, Crash, FreeLock, vars

\* A late put that has taken effect is not undone.
LEMMA LateStays == TypeOK /\ [Next]_vars /\ ~ lateLanded' => ~ lateLanded
<1> SUFFICES ASSUME TypeOK, [Next]_vars, lateLanded PROVE lateLanded'
  OBVIOUS
<1>1. ASSUME NEW p \in puts, PutLands(p) PROVE lateLanded'
  BY <1>1 DEF PutLands
<1>2. CASE UNCHANGED lateLanded
  BY <1>2
<1> QED BY <1>1, <1>2
     DEF Next, vars, history, Acquire, LoadLog, SendSth, PutLost, Answer, Fail,
         FreeLock, LockLost, Crash, Restart

LEMMA InitIInv == FailoverAssumption /\ Init => IInv
<1> SUFFICES ASSUME Init PROVE IInv
  OBVIOUS
<1>1. TypeOK
  BY EmptySeq DEF Init, TypeOK
<1>2. Indexed
  BY EmptySeq DEF Init, Indexed
<1>3. OnePutInTime /\ PoolInMemory
  BY DEF Init, OnePutInTime, PoolInMemory
<1>4. PutsInTimeExtend /\ OwnerFollowsTreeHead /\ AnswersCovered /\ SctIncluded
  BY DEF Init, PutsInTimeExtend, OwnerFollowsTreeHead, AnswersCovered, SctIncluded
<1> QED BY <1>1, <1>2, <1>3, <1>4 DEF IInv, Intact

\* However many instances there are, whoever has the lock and whatever fails:
\* a process has one put on its way, one put is in time, and up to the first
\* late one that takes effect the owner continues the tree head.
THEOREM Inductive == Spec => []IInv
<1>1. Init => IInv
  BY FailoverAssumption, InitIInv
<1>2. IInv /\ [Next]_vars => IInv'
  <2> SUFFICES ASSUME IInv, [Next]_vars PROVE IInv'
    OBVIOUS
  <2>1. TypeOK' /\ OnePutInTime' /\ PoolInMemory'
    BY FailoverAssumption, NextTypeOK, NextOnePut, NextPoolInMemory DEF IInv
  <2>2. ~ lateLanded' => Intact'
    BY FailoverAssumption, LateStays, NextIntact DEF IInv
  <2> QED BY <2>1, <2>2 DEF IInv
<1> QED BY <1>1, <1>2, PTL DEF Spec

-----------------------------------------------------------------------------
\* What the invariant gives

\* An SCT is lost only if a put takes effect after another process has taken the
\* lock: not by a death, a failure, a lock freed too early or a put whose sender
\* is gone, as long as no one has taken over.
THEOREM LossIsLate == Spec => []LossNeedsLatePut
<1>1. IInv => LossNeedsLatePut
  BY DEF IInv, Intact, LossNeedsLatePut
<1> QED BY <1>1, Inductive, PTL

\* A put never takes a leaf from the tree head or changes one.
LEMMA LandedIsExtended ==
    ASSUME TypeOK, NEW head, Extends(head)
    PROVE  IsPrefix(sth, head)
<1>1. /\ sth \in Seq(Leaf) /\ head \in Seq(Leaf)
      /\ Len(sth) \in Nat /\ Len(head) \in Nat /\ Len(sth) <= Len(head)
      /\ \A k \in 1 .. Len(sth) : head[k] = sth[k]
  BY ExtendsTreeHead, LenProperties DEF TypeOK
<1>2. /\ SubSeq(head, 1, Len(sth)) \in Seq(Leaf)
      /\ Len(SubSeq(head, 1, Len(sth))) = Len(sth)
      /\ \A k \in 1 .. Len(sth) : SubSeq(head, 1, Len(sth))[k] = head[k]
  <2>1. \A k \in 1 .. Len(sth) : head[k] \in Leaf
    BY <1>1, ElementOfSeq
  <2> QED BY <1>1, <2>1, SubSeqProperties
<1>3. SubSeq(head, 1, Len(sth)) = sth
  BY <1>1, <1>2, SeqEqual
<1>4. SubSeq(sth, 1, Len(sth)) = sth
  BY <1>1, SubSeqFull
<1> QED BY <1>1, <1>3, <1>4 DEF IsPrefix

\* Until then the instances together are one log with a zero merge delay.
THEOREM OneLog == Spec => OneLogUntilLatePut
<1>1. Init => Abstract!Init
  BY DEF Init, Abstract!Init
<1>2. ASSUME IInv, IInv', [Next]_vars, ~ lateLanded'
      PROVE  Abstract!Next \/ UNCHANGED Abstract!vars
  <2>0. Intact /\ Intact' /\ TypeOK
    BY <1>2, LateStays DEF IInv
  <2>1. ASSUME NEW p \in puts, PutLands(p) PROVE Abstract!Publish
    <3>1. sth' = p.head /\ UNCHANGED promised /\ ~ p.late
      BY <1>2, <2>1 DEF PutLands
    <3>2. sth' \in Seq(Leaf) /\ IsPrefix(sth, sth')
      <4>1. Extends(p.head) /\ p.head \in Seq(Leaf)
        BY <2>0, <3>1 DEF Intact, PutsInTimeExtend, TypeOK, Put
      <4>2. IsPrefix(sth, p.head)
        BY <2>0, <4>1, LandedIsExtended
      <4> QED BY <3>1, <4>1, <4>2
    <3>3. \A k \in Len(sth) + 1 .. Len(sth') : sth'[k].idx = k - 1
      <4>1. Len(sth) \in Nat /\ Len(sth') \in Nat
        BY <1>2, LenProperties DEF IInv, TypeOK
      <4>2. \A k \in Len(sth) + 1 .. Len(sth') : k \in 1 .. Len(sth')
        BY <4>1
      <4>3. \A k \in 1 .. Len(sth') : sth'[k].idx = k - 1
        BY <2>0 DEF Intact, Indexed
      <4> QED BY <4>2, <4>3
    <3> QED BY <3>1, <3>2, <3>3 DEF Abstract!Publish, Abstract!IsPrefix, IsPrefix
  <2>2. ASSUME NEW i \in Instance, Answer(i)
        PROVE  Abstract!Promise \/ UNCHANGED <<sth, promised>>
    <3>1. promised' = promised \cup pool[i] /\ UNCHANGED sth
      BY <2>2 DEF Answer
    <3>2. CASE pool[i] = {}
      BY <3>1, <3>2
    <3>3. ASSUME NEW l \in pool[i] PROVE Abstract!Promise
      <4>1. pool[i] = {l}
        BY <1>2, <3>3 DEF IInv, PoolInMemory
      <4>2. l \in Leaf /\ Covered(l, sth) /\ Len(sth) \in Nat
        BY <2>0, <2>2, <3>3, LenProperties
        DEF Answer, TypeOK, Intact, AnswersCovered
      <4>3. l.idx + 1 \in 1 .. Len(sth) /\ sth[l.idx + 1] = l
        BY <4>2 DEF Leaf, Covered
      <4> QED BY <3>1, <4>1, <4>3 DEF Abstract!Promise
    <3> QED BY <3>2, <3>3
  <2>3. CASE UNCHANGED <<sth, promised>>
    BY <2>3 DEF Abstract!vars
  <2> QED BY <1>2, <2>1, <2>2, <2>3
       DEF Next, vars, history, Acquire, LoadLog, SendSth, PutLost, Fail,
           FreeLock, LockLost, Crash, Restart, Abstract!Next, Abstract!vars
<1>3. IInv /\ IInv' /\ [Next]_vars
      => [~ lateLanded' => Abstract!Next \/ UNCHANGED Abstract!vars]_vars
  BY <1>2
<1> QED BY <1>1, <1>3, Inductive, PTL DEF OneLogUntilLatePut, Spec
=============================================================================
