------------------------------ MODULE Failover ------------------------------
(***************************************************************************)
(* Several instances of itko-submit, one of which holds the Consul lock.   *)
(* The others wait for it; who gets it loads the log from the tree head    *)
(* and publishes, one pool after the other, each the tree head of the log  *)
(* it has in memory.  The lock becomes free whatever its owner is doing:   *)
(* released at an interrupt, or lost with its session.  An instance        *)
(* without the lock is ended by log.Fatal, but by a goroutine of its own,  *)
(* while stageTwo goes on: nothing compares the lock with a write.  A put  *)
(* of a tree head may be on its way when the instance that sent it has     *)
(* failed or died, and still take effect.                                  *)
(*                                                                         *)
(* A put is late when another process has taken the lock since the process *)
(* that sent it did: what a fencing token in the write would refuse.  The  *)
(* variables owner and lateLanded and the field late only keep this        *)
(* history; no action depends on them.                                     *)
(***************************************************************************)
EXTENDS Naturals, Sequences, SequencesExt

CONSTANTS
    Instance,  \* the instances of the log
    NoOne,     \* no instance
    Cert,      \* what is submitted
    PutId,     \* bound: puts that are on their way at a time
    MaxSize    \* bound: leaves of a log in memory

ASSUME FailoverAssumption ==
    /\ NoOne \notin Instance
    /\ MaxSize \in Nat

VARIABLES
    holder,     \* Consul: the instance that has the lock
    pc,         \* what each instance does
    mem,        \* the log each instance has in memory, as leaves
    pool,       \* the leaves of the pool each instance publishes
    puts,       \* tree heads on their way to the bucket, with their senders
    sth,        \* bucket: the leaves that get-sth covers
    promised,   \* the leaves an SCT was signed for
    owner,      \* history: who took the lock last, while its process lives
    lateLanded  \* history: whether a late put has taken effect

history == <<owner, lateLanded>>
vars == <<holder, pc, mem, pool, puts, sth, promised, history>>

Leaf == [idx : Nat, cert : Cert]

\* A put whose sender has ended is nobody's.
Put == [id : PutId, by : Instance \cup {NoOne}, head : Seq(Leaf), late : BOOLEAN]

-----------------------------------------------------------------------------
Init ==
    /\ holder = NoOne
    /\ pc = [i \in Instance |-> "waiting"]
    /\ mem = [i \in Instance |-> <<>>]
    /\ pool = [i \in Instance |-> {}]
    /\ puts = {} /\ sth = <<>> /\ promised = {}
    /\ owner = NoOne /\ lateLanded = FALSE

\* lock.Lock returns.
Acquire(i) ==
    /\ pc[i] = "waiting" /\ holder = NoOne
    /\ holder' = i
    /\ pc' = [pc EXCEPT ![i] = "locked"]
    /\ owner' = i
    /\ puts' = {[p EXCEPT !.late = TRUE] : p \in puts}
    /\ UNCHANGED <<mem, pool, sth, promised, lateLanded>>

\* Mutation: the tree head is fetched before the lock is waited for.
LoadLogEarly(i) ==
    \/ /\ pc[i] = "waiting"
       /\ mem' = [mem EXCEPT ![i] = sth]
       /\ UNCHANGED <<holder, pc, pool, puts, sth, promised, history>>
    \/ /\ pc[i] = "locked"
       /\ pc' = [pc EXCEPT ![i] = "ready"]
       /\ UNCHANGED <<holder, mem, pool, puts, sth, promised, history>>

\* What the instance knows of the log is the tree head at this moment.
LoadLog(i) ==
    /\ pc[i] = "locked"
    /\ mem' = [mem EXCEPT ![i] = sth]
    /\ pc' = [pc EXCEPT ![i] = "ready"]
    /\ UNCHANGED <<holder, pool, puts, sth, promised, history>>

\* The puts on their way differ in their ids, whatever heads they carry.
FreeId == {n \in PutId : \A p \in puts : p.id # n}

\* A pool, empty or not, is sequenced behind the log in memory, and its tree
\* head is sent.
SendSth(i) ==
    /\ pc[i] = "ready"
    /\ \/ /\ pool' = [pool EXCEPT ![i] = {}]
          /\ UNCHANGED mem
       \/ /\ Len(mem[i]) < MaxSize
          /\ \E c \in Cert :
               LET leaf == [idx |-> Len(mem[i]), cert |-> c]
               IN  /\ pool' = [pool EXCEPT ![i] = {leaf}]
                   /\ mem' = [mem EXCEPT ![i] = Append(@, leaf)]
    /\ FreeId # {}
    /\ puts' = puts \cup {[id |-> CHOOSE n \in FreeId : TRUE, by |-> i,
                           head |-> mem'[i], late |-> owner # i]}
    /\ pc' = [pc EXCEPT ![i] = "putting"]
    /\ UNCHANGED <<holder, sth, promised, history>>

\* The put takes effect; its sender goes on if it still waits for it.
PutLands(p) ==
    /\ sth' = p.head
    /\ puts' = puts \ {p}
    /\ pc' = [i \in Instance |-> IF i = p.by /\ pc[i] = "putting" THEN "answering"
                                                                 ELSE pc[i]]
    /\ lateLanded' = (lateLanded \/ p.late)
    /\ UNCHANGED <<holder, mem, pool, promised, owner>>

\* The put never takes effect.  Its sender can only fail.
PutLost(p) ==
    /\ puts' = puts \ {p}
    /\ UNCHANGED <<holder, pc, mem, pool, sth, promised, history>>

\* The submitters of the pool get their SCTs.
Answer(i) ==
    /\ pc[i] = "answering"
    /\ promised' = promised \cup pool[i]
    /\ pool' = [pool EXCEPT ![i] = {}]
    /\ pc' = [pc EXCEPT ![i] = "ready"]
    /\ UNCHANGED <<holder, mem, puts, sth, history>>

\* Mutation: the error of a put is logged and not returned.
FailIgnored(i) ==
    /\ pc[i] = "putting"
    /\ pc' = [pc EXCEPT ![i] = "answering"]
    /\ UNCHANGED <<holder, mem, pool, puts, sth, promised, history>>

\* stageTwo ends with an error: of a put that may still take effect, too.  What
\* it had in memory is not used again.
Fail(i) ==
    /\ pc[i] \in {"putting", "answering"}
    /\ pc' = [pc EXCEPT ![i] = "failed"]
    /\ mem' = [mem EXCEPT ![i] = <<>>]
    /\ pool' = [pool EXCEPT ![i] = {}]
    /\ UNCHANGED <<holder, puts, sth, promised, history>>

\* The lock is released after a stage has ended or at an interrupt, or its
\* session ends: that of a dead owner, or of a live one that is cut off.
FreeLock(i) ==
    /\ holder = i
    /\ holder' = NoOne
    /\ UNCHANGED <<pc, mem, pool, puts, sth, promised, history>>

\* The process ends, its supervisor starts it again, and it waits for the lock.
Restart(i) ==
    /\ pc' = [pc EXCEPT ![i] = "waiting"]
    /\ mem' = [mem EXCEPT ![i] = <<>>]
    /\ pool' = [pool EXCEPT ![i] = {}]
    /\ puts' = {IF p.by = i THEN [p EXCEPT !.by = NoOne] ELSE p : p \in puts}
    /\ owner' = IF owner = i THEN NoOne ELSE owner
    /\ UNCHANGED <<holder, sth, promised, lateLanded>>

\* Mutation: the goroutine that watches the lock ends with stageTwo.
LockLostInStageTwo(i) == pc[i] \notin {"waiting", "failed"} /\ holder # i /\ Restart(i)

\* log.Fatal, when the goroutine that watches the lock gets to it.
LockLost(i) == pc[i] # "waiting" /\ holder # i /\ Restart(i)

Crash(i) == pc[i] # "waiting" /\ Restart(i)

Next ==
    \/ \E i \in Instance :
         \/ Acquire(i) \/ LoadLog(i) \/ SendSth(i) \/ Answer(i) \/ Fail(i)
         \/ FreeLock(i) \/ LockLost(i) \/ Crash(i)
    \/ \E p \in puts : PutLands(p) \/ PutLost(p)

Spec == Init /\ [][Next]_vars

\* A waiting instance gets a free lock, the session of a dead owner expires, a
\* failed stage releases the lock, and an instance without it ends.
Fairness ==
    \A i \in Instance :
        /\ WF_vars(Acquire(i)) /\ WF_vars(LockLost(i))
        /\ WF_vars(pc[i] \in {"waiting", "failed"} /\ FreeLock(i))

FairSpec == Spec /\ Fairness

-----------------------------------------------------------------------------
\* Properties

TypeOK ==
    /\ holder \in Instance \cup {NoOne}
    /\ pc \in [Instance -> {"waiting", "locked", "ready", "putting",
                            "answering", "failed"}]
    /\ mem \in [Instance -> Seq(Leaf)]
    /\ pool \in [Instance -> SUBSET Leaf]
    /\ puts \subseteq Put
    /\ sth \in Seq(Leaf)
    /\ promised \subseteq Leaf
    /\ owner \in Instance \cup {NoOne}
    /\ lateLanded \in BOOLEAN

Covered(l, head) == l.idx < Len(head) /\ head[l.idx + 1] = l

\* An SCT is of a leaf that the tree head covers, whichever instance signed the
\* one and wrote the other (zero merge delay).
SctIncluded == \A l \in promised : Covered(l, sth)

\* An SCT is lost only if a put takes effect after another process has taken the
\* lock.  Deaths, failures, a lock that is freed under its owner, puts that take
\* effect after their sender has failed or died: nothing else loses one.
LossNeedsLatePut == ~ lateLanded => SctIncluded

\* Up to the first late put that takes effect, all instances together are one
\* log with a zero merge delay.
Abstract == INSTANCE CTLog WITH log <- sth
OneLogUntilLatePut ==
    /\ Abstract!Init
    /\ [][~ lateLanded' => Abstract!Next \/ UNCHANGED Abstract!vars]_vars

\* When no instance works on the log, one of the waiting ones takes over, even
\* if the last owner died with the lock and with a put on its way.
TakenOver ==
    (\A i \in Instance : pc[i] \in {"waiting", "failed"})
        ~> (\E i \in Instance : pc[i] = "locked")

\* The inductive invariant, part by part.

\* A process has one put on its way and does nothing else meanwhile; one put at
\* most is not late, the owner's.
OnePutInTime ==
    /\ \A p, q \in puts : ~ p.late /\ ~ q.late => p = q
    /\ \A p, q \in puts : p.by = q.by /\ p.by # NoOne => p = q
    /\ \A p \in puts :
         /\ ~ p.late => p.by = owner
         /\ p.late => p.by = NoOne \/ p.by # owner
         /\ p.by # NoOne => \/ pc[p.by] = "putting" /\ mem[p.by] = p.head
                           \/ pc[p.by] = "failed"
    /\ owner # NoOne => pc[owner] # "waiting"

\* A put in time is of the tree head, or of one that is a leaf ahead.
Extends(head) ==
    \/ head = sth
    \/ \E c \in Cert : head = Append(sth, [idx |-> Len(sth), cert |-> c])
PutsInTimeExtend == \A p \in puts : ~ p.late => Extends(p.head)

\* A pool is of one leaf, or empty, and of the log in memory.
PoolInMemory ==
    \A i \in Instance :
        /\ \A l, m \in pool[i] : l = m
        /\ pc[i] = "putting" => \A l \in pool[i] : Covered(l, mem[i])

\* What the owner has in memory.
OwnerFollowsTreeHead ==
    owner # NoOne /\ pc[owner] \in {"ready", "answering"} => mem[owner] = sth

\* Who answers, owner or not, answers for what the tree head covers.
AnswersCovered ==
    \A i \in Instance :
        pc[i] = "answering" => \A l \in pool[i] : Covered(l, sth)

Indexed == \A k \in 1 .. Len(sth) : sth[k].idx = k - 1

Intact ==
    /\ PutsInTimeExtend /\ OwnerFollowsTreeHead /\ AnswersCovered
    /\ Indexed /\ SctIncluded

IInv ==
    /\ TypeOK /\ OnePutInTime /\ PoolInMemory
    /\ ~ lateLanded => Intact
=============================================================================
