---------------------------- MODULE FastlyProofs ----------------------------
(***************************************************************************)
(* Proofs about Fastly: the request budget is kept and the answers are     *)
(* right, for any tile width, limits, chains and sizes of the log.         *)
(***************************************************************************)
EXTENDS Fastly, SequenceTheorems, TLAPS

LEMMA Width == TileWidth \in Nat \ {0} /\ MaxGetEntry <= TileWidth /\ MaxSize \in Nat
BY FastlyAssumption

-----------------------------------------------------------------------------
\* Lemmas about tile numbers

\* The tile of a leaf, and its place in the tile.
LEMMA DivMod ==
    ASSUME NEW a \in Nat
    PROVE  /\ a \div TileWidth \in Nat /\ a \div TileWidth <= a
           /\ (a \div TileWidth) * TileWidth <= a
           /\ a < (a \div TileWidth) * TileWidth + TileWidth
           /\ a % TileWidth = a - (a \div TileWidth) * TileWidth
           /\ a % TileWidth \in 0 .. TileWidth - 1
<1> DEFINE q == a \div TileWidth
<1>1. q \in Nat /\ q <= a
  <2>1. q \in Nat
    BY Width
  <2>2. q <= a
    BY Width
  <2> QED BY <2>1, <2>2
<1>2. a = TileWidth * q + (a % TileWidth)
  BY Width
<1>3. a % TileWidth \in 0 .. TileWidth - 1
  BY Width
<1>4. q * TileWidth = TileWidth * q /\ q * TileWidth \in Nat
  BY <1>1, Width
<1> HIDE DEF q
<1> QED BY <1>1, <1>2, <1>3, <1>4, Width DEF q

\* Tile numbers are multiplied in order.
LEMMA Times ==
    ASSUME NEW n \in Nat, NEW m \in Nat
    PROVE  /\ n * TileWidth \in Nat
           /\ (n + 1) * TileWidth = n * TileWidth + TileWidth
           /\ n <= m => n * TileWidth <= m * TileWidth
           /\ n < m => n * TileWidth + TileWidth <= m * TileWidth
<1>1. n * TileWidth \in Nat /\ (n + 1) * TileWidth = n * TileWidth + TileWidth
  BY Width
<1>2. n <= m => n * TileWidth <= m * TileWidth
  BY Width
<1>3. n < m => (n + 1) * TileWidth <= m * TileWidth
  BY Width
<1> QED BY <1>1, <1>2, <1>3, Width

\* The tiles get_entries derives from a tree head: at most two, they follow one
\* another, reach the end of the range and are those of that tree head.
TilesReach(n, m, w, start, end, head) ==
    /\ n * TileWidth <= start
    /\ TilesOf(start, end, head)
         = IF n = m THEN <<Tile(m, w)>> ELSE <<Tile(n, TileWidth), Tile(m, w)>>
    /\ end < m * TileWidth + w
    /\ m * TileWidth <= end
    /\ (m + 1) * TileWidth <= head \/ m * TileWidth + w = head
    /\ start <= end /\ end - start <= TileWidth => n = m \/ m = n + 1
LEMMA TilesOfRange ==
    ASSUME NEW start \in 0 .. MaxSize, NEW head \in 1 .. MaxSize, NEW end \in 0 .. MaxSize,
           end < head
    PROVE  \E n, m \in 0 .. MaxSize, w \in 1 .. TileWidth : TilesReach(n, m, w, start, end, head)
<1> DEFINE n == start \div TileWidth
           m == end \div TileWidth
           last == (head - 1) \div TileWidth
           w == IF m = last THEN ((head - 1) % TileWidth) + 1 ELSE (end % TileWidth) + 1
<1>0. start \in Nat /\ end \in Nat /\ head - 1 \in Nat
      /\ start <= MaxSize /\ end <= MaxSize
  BY Width
<1>1. n \in 0 .. MaxSize /\ n * TileWidth <= start /\ start < n * TileWidth + TileWidth
  <2>1. n \in Nat /\ n <= start
    BY <1>0, DivMod
  <2>2. n * TileWidth <= start /\ start < n * TileWidth + TileWidth
    BY <1>0, DivMod
  <2> HIDE DEF n
  <2> QED BY <1>0, <2>1, <2>2, Width
<1>2. /\ m \in 0 .. MaxSize /\ m * TileWidth <= end /\ end < m * TileWidth + TileWidth
      /\ end % TileWidth = end - m * TileWidth /\ end % TileWidth \in 0 .. TileWidth - 1
  <2>1. m \in Nat /\ m <= end
    BY <1>0, DivMod
  <2>2. /\ m * TileWidth <= end /\ end < m * TileWidth + TileWidth
        /\ end % TileWidth = end - m * TileWidth /\ end % TileWidth \in 0 .. TileWidth - 1
    BY <1>0, DivMod
  <2> HIDE DEF m
  <2> QED BY <1>0, <2>1, <2>2, Width
<1>3. /\ last \in Nat /\ last * TileWidth <= head - 1
      /\ head - 1 < last * TileWidth + TileWidth
      /\ (head - 1) % TileWidth = head - 1 - last * TileWidth
      /\ (head - 1) % TileWidth \in 0 .. TileWidth - 1
  BY <1>0, DivMod
<1>4. TilesOf(start, end, head)
        = IF n = m THEN <<Tile(m, w)>> ELSE <<Tile(n, TileWidth), Tile(m, w)>>
  BY DEF TilesOf
<1> HIDE DEF n, m, last
<1>5. w \in 1 .. TileWidth
  BY <1>2, <1>3, Width
<1>6. end < m * TileWidth + w
  BY <1>2, <1>3, Times, Width
<1>7. (m + 1) * TileWidth <= head \/ m * TileWidth + w = head
  <2>1. CASE m = last
    BY <1>3, <2>1, Times, Width
  <2>2. CASE m < last
    BY <1>2, <1>3, <2>2, Times, Width
  <2>3. ~(m > last)
    BY <1>2, <1>3, Times, Width
  <2> QED BY <1>2, <1>3, <2>1, <2>2, <2>3
<1>8. start <= end /\ end - start <= TileWidth => n = m \/ m = n + 1
  <2> SUFFICES ASSUME start <= end, end - start <= TileWidth PROVE n = m \/ m = n + 1
    OBVIOUS
  <2>1. ~(m < n)
    BY <1>1, <1>2, Times, Width
  <2>2. ~(n + 1 < m)
    BY <1>1, <1>2, Times, Width
  <2> QED BY <1>1, <1>2, <2>1, <2>2
<1> HIDE DEF w
<1>9. TilesReach(n, m, w, start, end, head)
  BY <1>1, <1>2, <1>4, <1>6, <1>7, <1>8 DEF TilesReach
<1> QED BY <1>1, <1>2, <1>5, <1>9

-----------------------------------------------------------------------------
\* Lemmas about Get

\* What the bucket has of a tile, a tree head and an issuer.
LEMMA FetchedTile ==
    ASSUME NEW n \in Nat, NEW w \in 1 .. TileWidth
    PROVE  /\ Tile(n, w) # Sth /\ Tile(n, w)[1] = "tile"
           /\ Fetched(Tile(n, w))
                = IF (IF w = TileWidth THEN (n + 1) * TileWidth <= uploaded
                      ELSE n * TileWidth + w \in widths)
                  THEN w ELSE NotFound
BY DEF Fetched, Tile, Sth
LEMMA FetchedOther ==
    /\ Sth[1] # "tile" /\ Fetched(Sth) = size
    /\ \A c \in Issuer : IssuerFile(c) # Sth /\ IssuerFile(c)[1] # "tile" /\ Fetched(IssuerFile(c)) = 0
BY DEF Fetched, IssuerFile, Sth

\* The objects, one kind after the other.
LEMMA ObjectKinds ==
    ASSUME NEW k \in Object
    PROVE  \/ k = Sth
           \/ \E n \in 0 .. MaxSize, w \in 1 .. TileWidth : k = Tile(n, w)
           \/ \E c \in Issuer : k = IssuerFile(c)
BY DEF Object

BucketType ==
    /\ size \in 1 .. MaxSize /\ uploaded \in size .. MaxSize
    /\ size \in widths /\ uploaded \in widths /\ widths \subseteq 1 .. uploaded

\* What is right has a value, and only tiles can be missing.
LEMMA RightValue ==
    ASSUME BucketType, NEW k \in Object
    PROVE  /\ \A v : Right(k, v) => v \in 0 .. MaxSize + TileWidth
           /\ Fetched(k) \in {NotFound} \cup 0 .. MaxSize + TileWidth
           /\ Fetched(k) # NotFound => Right(k, Fetched(k))
           /\ Fetched(k) = NotFound => k[1] = "tile"
<1>1. CASE k = Sth
  <2>1. Fetched(k) = size /\ size \in 1 .. MaxSize /\ size \in widths /\ size <= size
    BY <1>1, FetchedOther, Width DEF BucketType
  <2>2. ASSUME NEW v, Right(k, v) PROVE v \in 0 .. MaxSize + TileWidth
    <3>1. v \in widths
      BY <1>1, <2>2 DEF Right
    <3>2. v \in 1 .. uploaded /\ uploaded \in 1 .. MaxSize
      BY <3>1, Width DEF BucketType
    <3> QED BY <3>2, Width
  <2>3. Right(k, size)
    BY <1>1, <2>1, Width DEF Right, NotFound
  <2> QED BY <2>1, <2>2, <2>3, Width DEF NotFound
<1>2. ASSUME NEW n \in 0 .. MaxSize, NEW w \in 1 .. TileWidth, k = Tile(n, w) PROVE
           /\ \A v : Right(k, v) => v \in 0 .. MaxSize + TileWidth
           /\ Fetched(k) \in {NotFound} \cup 0 .. MaxSize + TileWidth
           /\ Fetched(k) # NotFound => Right(k, Fetched(k))
           /\ Fetched(k) = NotFound => k[1] = "tile"
  <2>1. k # Sth /\ k[1] = "tile" /\ Fetched(k) \in {w, NotFound}
    BY <1>2, FetchedTile
  <2> QED BY <2>1, Width DEF Right, NotFound
<1>3. ASSUME NEW c \in Issuer, k = IssuerFile(c) PROVE
           /\ \A v : Right(k, v) => v \in 0 .. MaxSize + TileWidth
           /\ Fetched(k) \in {NotFound} \cup 0 .. MaxSize + TileWidth
           /\ Fetched(k) # NotFound => Right(k, Fetched(k))
           /\ Fetched(k) = NotFound => k[1] = "tile"
  BY <1>3, FetchedOther, Width DEF Right, NotFound
<1> QED BY <1>1, <1>2, <1>3, ObjectKinds

\* What is right stays so while the bucket grows.
BucketGrows ==
    size <= size' /\ uploaded <= uploaded' /\ widths \subseteq widths'
LEMMA RightStays ==
    ASSUME BucketType, BucketType', BucketGrows, NEW k \in Object, NEW v, Right(k, v)
    PROVE  Right(k, v)'
<1>1. CASE k = Sth
  <2>1. v # NotFound /\ v \in widths /\ v <= size
    BY <1>1 DEF Right
  <2>2. v \in widths' /\ v <= size'
    <3>1. v \in 1 .. uploaded /\ uploaded \in Nat
      BY <2>1, Width DEF BucketType
    <3>2. size \in Nat /\ size' \in Nat
      BY Width DEF BucketType
    <3> QED BY <2>1, <3>1, <3>2 DEF BucketGrows
  <2> QED BY <1>1, <2>1, <2>2 DEF Right, NotFound
<1>2. ASSUME NEW n \in 0 .. MaxSize, NEW w \in 1 .. TileWidth, k = Tile(n, w)
      PROVE  Right(k, v)'
  <2>1. k # Sth /\ v = w /\ Fetched(k) = w
    BY <1>2, FetchedTile, Width DEF Right
  <2>2. Fetched(k)' = w
    <3>1. CASE w = TileWidth
      <4>1. (n + 1) * TileWidth <= uploaded /\ (n + 1) * TileWidth \in Nat
        BY <1>2, <2>1, <3>1, FetchedTile, Width, Times DEF NotFound
      <4>2. (n + 1) * TileWidth <= uploaded'
        BY <4>1 DEF BucketGrows, BucketType
      <4> QED BY <1>2, <3>1, <4>2 DEF Fetched, Tile, Sth
    <3>2. CASE w # TileWidth
      <4>1. n * TileWidth + w \in widths'
        BY <1>2, <2>1, <3>2, FetchedTile, Width DEF BucketGrows, NotFound
      <4> QED BY <1>2, <3>2, <4>1 DEF Fetched, Tile, Sth
    <3> QED BY <3>1, <3>2
  <2> QED BY <2>1, <2>2, Width DEF Right, NotFound
<1>3. ASSUME NEW c \in Issuer, k = IssuerFile(c) PROVE Right(k, v)'
  BY <1>3, FetchedOther DEF Right, Fetched, IssuerFile, Sth
<1> QED BY <1>1, <1>2, <1>3, ObjectKinds

MemoRight(k, v) == Right(k, v) \/ (v = NotFound /\ k[1] = "tile")
CachesInv ==
    /\ BucketType
    /\ DOMAIN edge \subseteq Object /\ \A k \in DOMAIN edge : Right(k, edge[k])
    /\ DOMAIN memo \subseteq Object /\ \A k \in DOMAIN memo : MemoRight(k, memo[k])

\* While the bucket stays as it is, what is in the caches stays right.
LEMMA RightUnchanged ==
    ASSUME UNCHANGED bucket, NEW k, NEW v
    PROVE  Right(k, v)' <=> Right(k, v)
BY DEF bucket, Right, Fetched, NotFound

\* A fetch counts at most once, keeps the caches right, fails only for a reason, misses
\* only tiles that are not there or were missed before, and is right otherwise.
LEMMA GetRight ==
    ASSUME CachesInv, requests \in Nat, faults \in 0 .. MaxFaults,
           NEW k \in Object, NEW v, Get(k, v), UNCHANGED bucket
    PROVE  /\ CachesInv'
           /\ requests' \in {requests, requests + 1}
           /\ faults' \in faults .. MaxFaults
           /\ v = Failed =>
                \/ faults' > 0
                \/ local /\ k[1] = "tile" /\ Fetched(k) = NotFound
                   /\ k \in DOMAIN memo' /\ memo'[k] = NotFound
           /\ v = NotFound =>
                k[1] = "tile" /\ (Fetched(k) = NotFound \/ (k \in DOMAIN memo /\ memo[k] = NotFound))
           /\ v \notin {Failed, NotFound} => Right(k, v)
           /\ \A j \in DOMAIN memo' : memo'[j] = NotFound =>
                (j \in DOMAIN memo /\ memo[j] = NotFound) \/ (j = k /\ v \in {Failed, NotFound})
<1>0. BucketType /\ BucketType'
  BY DEF CachesInv, BucketType, bucket
<1>1. \A j, u : (Right(j, u)' <=> Right(j, u)) /\ (MemoRight(j, u)' <=> MemoRight(j, u))
  BY RightUnchanged DEF MemoRight, NotFound
<1>2. MaxFaults \in Nat
  BY FastlyAssumption
<1>3. \A u : MemoRight(k, u) => u # Failed
  BY <1>0, RightValue, Width DEF MemoRight, Failed, NotFound
<1>4. CASE GetMemo(k, v)
  <2>1. MemoRight(k, v) /\ k \in DOMAIN memo /\ v = memo[k]
        /\ UNCHANGED <<edge, memo, requests, faults>>
    BY <1>4 DEF GetMemo, CachesInv
  <2>2. CachesInv'
    BY <1>0, <1>1, <2>1 DEF CachesInv
  <2>3. v # NotFound => Right(k, v)
    BY <2>1 DEF MemoRight
  <2>4. v = NotFound => k[1] = "tile"
    BY <2>1 DEF MemoRight, Right
  <2> QED BY <1>2, <1>3, <2>1, <2>2, <2>3, <2>4
<1>5. CASE GetEdge(k, v)
  <2>1. Right(k, v) /\ UNCHANGED <<edge, memo, requests, faults>>
    BY <1>5 DEF GetEdge, CachesInv
  <2>2. CachesInv'
    BY <1>0, <1>1, <2>1 DEF CachesInv
  <2>3. v # NotFound
    BY <2>1 DEF Right
  <2>4. v # Failed
    BY <1>3, <2>1 DEF MemoRight
  <2> QED BY <1>2, <2>1, <2>2, <2>3, <2>4
<1>6. CASE GetBackend(k, v)
  <2> DEFINE u == Fetched(k)
  <2>1. MemoRight(k, u) /\ (u # NotFound => Right(k, u))
    BY <1>0, RightValue DEF MemoRight
  <2>2. /\ requests' = requests + 1 /\ memo' = With(memo, k, u)
        /\ edge' = IF local \/ u = NotFound THEN edge ELSE With(edge, k, u)
        /\ v = IF local /\ u = NotFound THEN Failed ELSE u
        /\ UNCHANGED faults
    BY <1>6 DEF GetBackend
  <2>3. u # NotFound => v = u
    BY <2>2
  <2>4. u = NotFound => k[1] = "tile" /\ v \in {Failed, NotFound} /\ (v = Failed => local)
    BY <1>0, <2>2, RightValue DEF Failed, NotFound
  <2>5. u # NotFound => v # Failed
    BY <1>3, <2>1, <2>3
  <2> HIDE DEF u
  <2>a. /\ DOMAIN memo' = DOMAIN memo \cup {k} /\ memo'[k] = u
        /\ \A j \in DOMAIN memo \ {k} : memo'[j] = memo[j]
    <3>1. memo' = With(memo, k, u)
      BY <2>2
    <3> QED BY <3>1 DEF With
  <2>6. DOMAIN memo' \subseteq Object /\ \A j \in DOMAIN memo' : MemoRight(j, memo'[j])
    <3>1. DOMAIN memo \subseteq Object /\ \A j \in DOMAIN memo : MemoRight(j, memo[j])
      BY DEF CachesInv
    <3> QED BY <2>1, <2>a, <3>1
  <2>7. DOMAIN edge' \subseteq Object /\ \A j \in DOMAIN edge' : Right(j, edge'[j])
    <3>1. DOMAIN edge \subseteq Object /\ \A j \in DOMAIN edge : Right(j, edge[j])
      BY DEF CachesInv
    <3>2. CASE local \/ u = NotFound
      <4>1. edge' = edge
        BY <2>2, <3>2
      <4> QED BY <3>1, <4>1
    <3>3. CASE ~(local \/ u = NotFound)
      <4>1. edge' = With(edge, k, u) /\ Right(k, u)
        BY <2>1, <2>2, <3>3
      <4>2. /\ DOMAIN edge' = DOMAIN edge \cup {k} /\ edge'[k] = u
            /\ \A j \in DOMAIN edge \ {k} : edge'[j] = edge[j]
        BY <4>1 DEF With
      <4> QED BY <3>1, <4>1, <4>2
    <3> QED BY <3>2, <3>3
  <2>8. CachesInv'
    BY <1>0, <1>1, <2>6, <2>7 DEF CachesInv
  <2>9. \A j \in DOMAIN memo' : memo'[j] = NotFound =>
          (j \in DOMAIN memo /\ memo[j] = NotFound) \/ (j = k /\ v \in {Failed, NotFound})
    BY <2>4, <2>a
  <2>10. v = NotFound => u = NotFound
    BY <2>3
  <2>11. v \notin {Failed, NotFound} => Right(k, v)
    BY <2>1, <2>3, <2>4
  <2>12. v = Failed => local /\ k[1] = "tile" /\ u = NotFound /\ k \in DOMAIN memo' /\ memo'[k] = u
    BY <2>4, <2>5, <2>a
  <2> QED BY <1>2, <2>2, <2>3, <2>4, <2>8, <2>9, <2>10, <2>11, <2>12 DEF u
<1>7. CASE GetFails(k, v)
  <2>1. /\ v = Failed /\ requests' = requests + 1 /\ faults' = faults + 1
        /\ faults < MaxFaults /\ UNCHANGED <<edge, memo>>
    BY <1>7 DEF GetFails
  <2>2. CachesInv'
    BY <1>0, <1>1, <2>1 DEF CachesInv
  <2>3. faults' \in faults .. MaxFaults /\ faults' > 0
    BY <1>2, <2>1
  <2> QED BY <2>1, <2>2, <2>3 DEF Failed, NotFound
<1> QED BY <1>4, <1>5, <1>6, <1>7 DEF Get

-----------------------------------------------------------------------------
\* The invariant, sorted by what the actions change.

RequestType ==
    /\ local \in BOOLEAN /\ requests \in Nat /\ faults \in 0 .. MaxFaults
    /\ pc \in {"idle", "sth", "tile", "issuer", "answered", "failed", "notfound"}
    /\ from \in 0 .. MaxSize /\ to \in 0 .. MaxSize /\ probed \in BOOLEAN
    /\ entries \subseteq from .. to
    /\ client \in 0 .. MaxSize
Parts ==
    CachesInv /\ RequestType /\ AnswerType /\ Phase /\ BudgetKept /\ AnswerSound

LEMMA PartsOfIInv == IInv <=> Parts
<1>1. ASSUME IInv PROVE Parts
  BY <1>1 DEF IInv, TypeOK, CachesRight, Parts, CachesInv, BucketType, MemoRight, RequestType
<1>2. ASSUME Parts PROVE IInv
  <2>1. BucketType /\ CachesInv
    BY <1>2 DEF Parts, CachesInv
  <2>2. \A k \in DOMAIN edge : edge[k] \in 0 .. MaxSize + TileWidth
    BY <2>1, RightValue DEF CachesInv
  <2>3. \A k \in DOMAIN memo : memo[k] \in Value \ {Failed}
    BY <2>1, RightValue, Width DEF CachesInv, MemoRight, Value, Failed, NotFound
  <2>4. widths \subseteq 1 .. MaxSize /\ size \in 1 .. MaxSize /\ uploaded \in size .. MaxSize
    BY <2>1, Width DEF BucketType
  <2>5. TypeOK
    BY <1>2, <2>1, <2>2, <2>3, <2>4 DEF TypeOK, Parts, CachesInv, RequestType
  <2>6. uploaded \in widths
    BY <2>1 DEF BucketType
  <2>7. CachesRight
    BY <2>1, <2>6 DEF CachesRight, CachesInv, BucketType, MemoRight
  <2> QED BY <1>2, <2>5, <2>7 DEF IInv, Parts
<1> QED BY <1>1, <1>2

LEMMA PartsOfInit == Init => Parts
<1> SUFFICES ASSUME Init PROVE Parts
  OBVIOUS
<1>1. CachesInv
  <2>1. BucketType
    BY Width, FastlyAssumption DEF Init, BucketType
  <2>2. DOMAIN edge = {} /\ DOMAIN memo = {}
    BY DEF Init
  <2> QED BY <2>1, <2>2 DEF CachesInv
<1>2. RequestType
  BY Width, FastlyAssumption DEF Init, RequestType
<1>3. AnswerType
  BY DEF Init, AnswerType
<1>4. Phase /\ BudgetKept /\ AnswerSound
  BY FastlyAssumption DEF Init, Phase, BudgetKept, AnswerSound
<1> QED BY <1>1, <1>2, <1>3, <1>4 DEF Parts

-----------------------------------------------------------------------------
\* The steps around the request

LEMMA BucketStep == Parts /\ (Upload \/ Publish) => Parts'
<1> SUFFICES ASSUME Parts, Upload \/ Publish PROVE Parts'
  OBVIOUS
<1>0. MaxSize \in Nat /\ TileWidth \in Nat \ {0} /\ BucketType
  BY Width DEF Parts, CachesInv
<1>1. BucketType' /\ BucketGrows /\ UNCHANGED <<local, edge, memo, requests, request, client, faults>>
  <2>1. CASE Upload
    BY <1>0, <2>1 DEF Upload, BucketType, BucketGrows, bucket
  <2>2. CASE Publish
    BY <1>0, <2>2 DEF Publish, BucketType, BucketGrows, bucket
  <2> QED BY <2>1, <2>2
<1>2. CachesInv'
  <2>1. \A v : \A k \in Object : Right(k, v) => Right(k, v)'
    BY <1>0, <1>1, RightStays
  <2>2. \A v : \A k \in Object : MemoRight(k, v) => MemoRight(k, v)'
    BY <2>1 DEF MemoRight, NotFound
  <2>3. CachesInv /\ UNCHANGED <<edge, memo>>
    BY <1>1 DEF Parts
  <2> QED BY <1>1, <2>1, <2>2, <2>3 DEF CachesInv
<1>3. RequestType' /\ AnswerType' /\ BudgetKept'
  BY <1>1 DEF Parts, RequestType, AnswerType, BudgetKept, request
<1>4. \A n \in 0 .. MaxSize, w \in 1 .. TileWidth : Available(n, w) => Available(n, w)'
  <2> SUFFICES ASSUME NEW n \in 0 .. MaxSize, NEW w \in 1 .. TileWidth, Available(n, w)
               PROVE  Available(n, w)'
    OBVIOUS
  <2>1. (n + 1) * TileWidth \in Nat
    BY <1>0
  <2> QED BY <1>0, <1>1, <2>1 DEF Available, BucketGrows, BucketType
<1>5. TilesLeft => TilesLeft'
  <2>1. ASSUME NEW n \in 0 .. MaxSize, NEW w \in 1 .. TileWidth, OneLeft(n, w)
        PROVE  OneLeft(n, w)'
    BY <1>1, <1>4, <2>1 DEF OneLeft, Before, MissedOnly, BucketGrows, request
  <2>2. ASSUME NEW n \in 0 .. MaxSize, NEW m \in 0 .. MaxSize, NEW w \in 1 .. TileWidth,
               TwoLeft(n, m, w)
        PROVE  TwoLeft(n, m, w)'
    <3>1. m * TileWidth \in Nat
      BY <1>0
    <3>2. m * TileWidth <= uploaded => m * TileWidth <= uploaded'
      BY <1>0, <1>1, <3>1 DEF BucketGrows, BucketType
    <3> QED BY <1>1, <1>4, <2>2, <3>2 DEF TwoLeft, Before, MissedOnly, request
  <2>3. CASE tiles = <<>> /\ requests <= 4 /\ ~probed /\ entries = from .. to
    BY <1>1, <2>3 DEF TilesLeft, request
  <2> QED BY <1>1, <2>1, <2>2, <2>3 DEF TilesLeft, request
<1>6. to \in Nat /\ size \in Nat /\ size' \in Nat /\ size <= size'
  BY <1>0, <1>1 DEF BucketType, BucketGrows, Parts, RequestType
<1>7. Phase'
  BY <1>1, <1>5, <1>6 DEF Parts, Phase, ChainOfNext, request
<1>8. AnswerSound'
  BY <1>1, <1>6 DEF Parts, AnswerSound, LocalMiss, AvailableReqs, request
<1> QED BY <1>2, <1>3, <1>7, <1>8 DEF Parts

LEMMA EdgeStep == Parts /\ (OtherRequest \/ SthExpires \/ Evicted) => Parts'
<1> SUFFICES ASSUME Parts, OtherRequest \/ SthExpires \/ Evicted PROVE Parts'
  OBVIOUS
<1>0. MaxFaults \in Nat /\ BucketType /\ CachesInv
  BY FastlyAssumption DEF Parts, CachesInv
<1>1. UNCHANGED <<local, bucket, memo, requests, request, client>> /\ faults' \in faults .. MaxFaults
  BY <1>0 DEF OtherRequest, SthExpires, Evicted, Parts, RequestType
<1>2. DOMAIN edge' \subseteq Object /\ \A k \in DOMAIN edge' : Right(k, edge'[k])
  <2>1. CASE OtherRequest
    <3>1. PICK k \in Object \ DOMAIN edge :
            Fetched(k) # NotFound /\ edge' = With(edge, k, Fetched(k))
      BY <2>1 DEF OtherRequest
    <3>2. Right(k, Fetched(k))
      BY <1>0, <3>1, RightValue
    <3>3. /\ DOMAIN edge' = DOMAIN edge \cup {k} /\ edge'[k] = Fetched(k)
          /\ \A j \in DOMAIN edge : edge'[j] = edge[j]
      BY <3>1 DEF With
    <3> QED BY <1>0, <3>2, <3>3 DEF CachesInv
  <2>2. CASE SthExpires
    BY <1>0, <2>2 DEF SthExpires, CachesInv
  <2>3. CASE Evicted
    <3>1. PICK k \in DOMAIN edge \ {Sth} : edge' = [j \in DOMAIN edge \ {k} |-> edge[j]]
      BY <2>3 DEF Evicted
    <3> QED BY <1>0, <3>1 DEF CachesInv
  <2> QED BY <2>1, <2>2, <2>3
<1>3. CachesInv'
  <2>1. \A j, u : (Right(j, u)' <=> Right(j, u)) /\ (MemoRight(j, u)' <=> MemoRight(j, u))
    BY <1>1, RightUnchanged DEF MemoRight, NotFound
  <2>2. BucketType'
    BY <1>0, <1>1 DEF BucketType, bucket
  <2> QED BY <1>0, <1>1, <1>2, <2>1, <2>2 DEF CachesInv
<1>4. RequestType'
  BY <1>0, <1>1 DEF Parts, RequestType, request
<1>5. AnswerType' /\ BudgetKept'
  BY <1>1 DEF Parts, AnswerType, BudgetKept, request
<1>6. TilesLeft => TilesLeft'
  BY <1>1 DEF TilesLeft, OneLeft, TwoLeft, Before, Available, MissedOnly, request, bucket
<1>7. Phase'
  BY <1>1, <1>6 DEF Parts, Phase, ChainOfNext, request, bucket
<1>8. AnswerSound'
  <2>1. faults > 0 => faults' > 0
    BY <1>0, <1>1 DEF Parts, RequestType
  <2> QED BY <1>1, <2>1 DEF Parts, AnswerSound, LocalMiss, AvailableReqs, request, bucket
<1> QED BY <1>3, <1>4, <1>5, <1>7, <1>8 DEF Parts

\* The start of a request, and its end.
LEMMA AskStep == Parts /\ Ask => Parts'
<1> SUFFICES ASSUME Parts, Ask PROVE Parts'
  OBVIOUS
<1>0. /\ MaxSize \in Nat /\ MaxGetEntry \in Nat /\ RequestLimit \in Nat /\ client \in Nat
      /\ client < MaxSize
  BY Width, FastlyAssumption DEF Parts, RequestType, Ask
<1>1. to' \in client .. MaxSize /\ to' - client <= MaxGetEntry
  BY <1>0 DEF Ask
<1>2. CachesInv'
  <2>1. \A j, u : Right(j, u)' <=> Right(j, u)
    BY RightUnchanged DEF Ask
  <2>2. CachesInv /\ UNCHANGED <<bucket, edge>> /\ DOMAIN memo' = {}
    BY DEF Parts, Ask
  <2> QED BY <2>1, <2>2 DEF CachesInv, BucketType, bucket
<1>3. RequestType'
  <2>1. client \in 0 .. MaxSize /\ to' \in 0 .. MaxSize
    BY <1>0, <1>1 DEF Parts, RequestType
  <2>2. /\ UNCHANGED <<local, client, faults>> /\ from' = client /\ requests' = 0
        /\ probed' = FALSE /\ entries' = {} /\ pc' = "sth"
    BY DEF Ask
  <2> QED BY <2>1, <2>2 DEF Parts, RequestType
<1>4. AnswerType'
  BY DEF AnswerType, Ask
<1>5. Phase'
  BY <1>0, <1>1 DEF Phase, Ask
<1>6. BudgetKept' /\ AnswerSound'
  BY <1>0 DEF BudgetKept, AnswerSound, Ask
<1> QED BY <1>2, <1>3, <1>4, <1>5, <1>6 DEF Parts

LEMMA ReceiveStep == Parts /\ Receive => Parts'
<1> SUFFICES ASSUME Parts, Receive PROVE Parts'
  OBVIOUS
<1>1. UNCHANGED <<local, bucket, edge, memo, requests, from, to, tiles, probed, entries, answer,
                  chain, faults>> /\ pc' = "idle"
  BY DEF Receive
<1>2. CachesInv'
  <2>1. \A j, u : (Right(j, u)' <=> Right(j, u)) /\ (MemoRight(j, u)' <=> MemoRight(j, u))
    BY <1>1, RightUnchanged DEF MemoRight, NotFound
  <2> QED BY <1>1, <2>1 DEF Parts, CachesInv, BucketType, bucket
<1>3. client' \in 0 .. MaxSize
  <2>1. CASE pc = "answered" /\ answer # <<>>
    <3>1. Len(answer) \in Nat \ {0} /\ from = client /\ from \in Nat /\ MaxSize \in Nat
      BY <2>1, Width DEF Parts, AnswerType, Phase, RequestType
    <3>2. answer[Len(answer)] = [leaf |-> from + Len(answer) - 1, chain |-> Chain[from + Len(answer) - 1]]
          /\ answer[Len(answer)].leaf <= to /\ to \in 0 .. MaxSize /\ to < size /\ size \in 0 .. MaxSize
      BY <3>1, Width DEF Parts, AnswerSound, RequestType, CachesInv, BucketType
    <3>3. from + Len(answer) <= MaxSize
      BY <3>1, <3>2
    <3> QED BY <2>1, <3>1, <3>3 DEF Receive
  <2>2. CASE ~(pc = "answered" /\ answer # <<>>)
    BY <2>2, Width DEF Parts, RequestType, Receive, AnswerType
  <2> QED BY <2>1, <2>2
<1>4. RequestType' /\ AnswerType'
  BY <1>1, <1>3 DEF Parts, RequestType, AnswerType
<1>5. Phase' /\ BudgetKept' /\ AnswerSound'
  BY <1>1 DEF Parts, Phase, BudgetKept, AnswerSound, bucket
<1> QED BY <1>2, <1>4, <1>5 DEF Parts

-----------------------------------------------------------------------------
\* The steps of the handler that read nothing

\* They leave bucket and caches alone.
LEMMA CachesSame ==
    ASSUME CachesInv, UNCHANGED <<bucket, edge, memo>>
    PROVE  CachesInv'
<1>1. \A j, u : (Right(j, u)' <=> Right(j, u)) /\ (MemoRight(j, u)' <=> MemoRight(j, u))
  BY RightUnchanged DEF MemoRight, NotFound
<1> QED BY <1>1 DEF CachesInv, BucketType, bucket

LEMMA TilesReadStep == Parts /\ TilesRead => Parts'
<1> SUFFICES ASSUME Parts, TilesRead PROVE Parts'
  OBVIOUS
<1>1. UNCHANGED <<local, bucket, edge, memo, requests, from, to, tiles, probed, entries, answer,
                  chain, client, faults>>
      /\ pc = "tile" /\ pc' = "issuer" /\ tiles = <<>>
  BY DEF TilesRead
<1>2. CachesInv' /\ RequestType' /\ AnswerType' /\ BudgetKept'
  BY <1>1, CachesSame DEF Parts, RequestType, AnswerType, BudgetKept
<1>3. ChainOfNext'
  <2>1. entries = from .. to
    BY <1>1 DEF Parts, Phase, TilesLeft
  <2>2. answer = <<>> /\ chain = <<>> /\ from \in Nat /\ to < size /\ to \in Nat /\ size <= MaxSize
        /\ size \in Nat /\ MaxSize \in Nat
    BY <1>1, Width DEF Parts, Phase, RequestType, CachesInv, BucketType
  <2>3. from <= to => Len(Chain[from]) \in Nat
    BY <2>2, FastlyAssumption
  <2> QED BY <1>1, <2>1, <2>2, <2>3 DEF ChainOfNext
<1>4. Phase' /\ AnswerSound'
  BY <1>1, <1>3 DEF Parts, Phase, AnswerSound, bucket
<1> QED BY <1>2, <1>3, <1>4 DEF Parts

\* The next entry is the one behind the answer.
LEMMA NextIsBehindAnswer ==
    ASSUME Parts, pc = "issuer", MoreEntries
    PROVE  /\ NextLeaf = from + Len(answer) /\ NextLeaf \in from .. to
           /\ NextLeaf \in 0 .. MaxSize - 1
           /\ Chain[NextLeaf] \in Seq(Issuer)
           /\ Len(chain) <= Len(Chain[NextLeaf])
           /\ \A i \in 1 .. Len(chain) : chain[i] = Chain[NextLeaf][i]
<1> DEFINE next == from + Len(answer)
<1>1. /\ from \in Nat /\ Len(answer) \in Nat /\ entries = next .. to /\ ChainOfNext
      /\ to \in Nat /\ size \in Nat /\ to < size /\ size <= MaxSize /\ MaxSize \in Nat
  <2>1. ChainOfNext /\ entries = next .. to /\ to < size
    BY DEF Parts, Phase, ChainOfNext
  <2>2. Len(answer) \in Nat
    BY DEF Parts, AnswerType
  <2>3. from \in Nat /\ to \in Nat
    BY Width DEF Parts, RequestType
  <2>4. size \in Nat /\ size <= MaxSize /\ MaxSize \in Nat
    BY Width DEF Parts, CachesInv, BucketType
  <2> QED BY <2>1, <2>2, <2>3, <2>4
<1>2. next \in entries /\ next <= to /\ \A j \in entries : next <= j
  BY <1>1 DEF MoreEntries
<1>3. NextLeaf = next
  BY <1>1, <1>2 DEF NextLeaf
<1>4. next \in 0 .. MaxSize - 1 /\ next \in from .. to
  BY <1>1, <1>2
<1> QED BY <1>1, <1>2, <1>3, <1>4, FastlyAssumption DEF ChainOfNext

LEMMA AddEntryStep == Parts /\ AddEntry => Parts'
<1> SUFFICES ASSUME Parts, AddEntry PROVE Parts'
  OBVIOUS
<1>1. /\ UNCHANGED <<local, bucket, edge, memo, requests, pc, from, to, tiles, probed, client, faults>>
      /\ pc = "issuer" /\ MoreEntries /\ ChainRead
      /\ answer' = Append(answer, [leaf |-> NextLeaf, chain |-> chain])
      /\ entries' = entries \ {NextLeaf} /\ chain' = <<>>
  BY DEF AddEntry
<1> DEFINE next == from + Len(answer)
<1>2. /\ NextLeaf = next /\ next \in from .. to /\ next \in 0 .. MaxSize - 1
      /\ chain = Chain[next] /\ chain \in Seq(Issuer)
  <2>1. /\ NextLeaf = next /\ next \in from .. to /\ next \in 0 .. MaxSize - 1
        /\ Chain[next] \in Seq(Issuer) /\ Len(chain) = Len(Chain[next])
        /\ \A i \in 1 .. Len(chain) : chain[i] = Chain[next][i]
    BY <1>1, NextIsBehindAnswer DEF ChainRead
  <2>2. chain \in Seq(Issuer)
    BY DEF Parts, AnswerType
  <2> QED BY <2>1, <2>2, SeqEqual
<1>3. /\ from \in Nat /\ to \in Nat /\ size \in Nat /\ to < size /\ size <= MaxSize
      /\ MaxSize \in Nat /\ entries = next .. to
      /\ answer \in Seq([leaf : 0 .. MaxSize - 1, chain : Seq(Issuer)])
  <2>1. entries = next .. to /\ to < size
    BY <1>1 DEF Parts, Phase, ChainOfNext
  <2>2. answer \in Seq([leaf : 0 .. MaxSize - 1, chain : Seq(Issuer)])
    BY DEF Parts, AnswerType
  <2>3. from \in Nat /\ to \in Nat
    BY Width DEF Parts, RequestType
  <2>4. size \in Nat /\ size <= MaxSize /\ MaxSize \in Nat
    BY Width DEF Parts, CachesInv, BucketType
  <2> QED BY <2>1, <2>2, <2>3, <2>4
<1>4. /\ answer' \in Seq([leaf : 0 .. MaxSize - 1, chain : Seq(Issuer)])
      /\ Len(answer') = Len(answer) + 1
      /\ \A i \in 1 .. Len(answer) : answer'[i] = answer[i]
      /\ answer'[Len(answer) + 1] = [leaf |-> next, chain |-> Chain[next]]
  <2>1. [leaf |-> next, chain |-> chain] \in [leaf : 0 .. MaxSize - 1, chain : Seq(Issuer)]
    BY <1>2
  <2> QED BY <1>1, <1>2, <1>3, <2>1
<1>5. CachesInv' /\ RequestType' /\ BudgetKept'
  BY <1>1, CachesSame DEF Parts, RequestType, BudgetKept
<1>6. AnswerType'
  BY <1>1, <1>4 DEF AnswerType
<1>7. ChainOfNext'
  <2>1. entries' = next + 1 .. to
    BY <1>1, <1>2, <1>3
  <2>2. next + 1 <= to => Len(Chain[next + 1]) \in Nat
    BY <1>2, <1>3, FastlyAssumption
  <2>3. (from + Len(answer))' = next + 1
    BY <1>1, <1>3, <1>4
  <2> QED BY <1>1, <2>1, <2>2, <2>3 DEF ChainOfNext
<1>8. Phase'
  BY <1>1, <1>7 DEF Parts, Phase, bucket
<1>9. AnswerSound'
  <2>1. ASSUME NEW i \in 1 .. Len(answer')
        PROVE  /\ answer'[i] = [leaf |-> from + i - 1, chain |-> Chain[from + i - 1]]
               /\ answer'[i].leaf <= to /\ to < size
    <3>1. CASE i \in 1 .. Len(answer)
      BY <1>4, <3>1 DEF Parts, AnswerSound
    <3>2. CASE i = Len(answer) + 1
      <4>1. from + i - 1 = next
        BY <1>3, <3>2
      <4> QED BY <1>2, <1>3, <1>4, <3>2, <4>1
    <3>3. Len(answer) \in Nat
      BY <1>3
    <3>4. i \in 1 .. Len(answer) \/ i = Len(answer) + 1
      BY <1>4, <2>1, <3>3
    <3> QED BY <3>1, <3>2, <3>4
  <2> QED BY <1>1, <2>1 DEF AnswerSound, bucket
<1> QED BY <1>5, <1>6, <1>8, <1>9 DEF Parts

LEMMA EndStep == Parts /\ (Break \/ AllEntries) => Parts'
<1> SUFFICES ASSUME Parts, Break \/ AllEntries PROVE Parts'
  OBVIOUS
<1>1. /\ UNCHANGED <<local, bucket, edge, memo, requests, from, to, tiles, probed, entries, answer,
                     chain, client, faults>>
      /\ pc = "issuer" /\ pc' = "answered" /\ (AvailableReqs = 0 \/ entries = {})
  BY DEF Break, AllEntries, BudgetUsedUp, MoreEntries
<1>2. CachesInv' /\ RequestType' /\ AnswerType' /\ BudgetKept' /\ Phase'
  BY <1>1, CachesSame DEF Parts, RequestType, AnswerType, BudgetKept, Phase, bucket
<1>3. entries = {} => from + Len(answer) > to
  <2>1. entries = from + Len(answer) .. to
    BY <1>1 DEF Parts, Phase, ChainOfNext
  <2>2. from \in Nat /\ to \in Nat /\ Len(answer) \in Nat
    BY Width DEF Parts, RequestType, AnswerType
  <2> QED BY <2>1, <2>2
<1>4. AnswerSound'
  BY <1>1, <1>3 DEF Parts, AnswerSound, AvailableReqs, bucket
<1> QED BY <1>2, <1>4 DEF Parts

-----------------------------------------------------------------------------
\* The steps that read: an issuer, the tree head and a tile

LEMMA ReadIssuerStep == Parts /\ ReadIssuer => Parts'
<1> SUFFICES ASSUME Parts, ReadIssuer PROVE Parts'
  OBVIOUS
<1> DEFINE c == Chain[NextLeaf][Len(chain) + 1]
<1>1. PICK v \in Value :
        /\ Get(IssuerFile(c), v)
        /\ IF v >= 0 THEN chain' = Append(chain, c) /\ pc' = pc
           ELSE pc' = "failed" /\ chain' = chain
  BY DEF ReadIssuer
<1>2. /\ UNCHANGED <<local, bucket, from, to, tiles, probed, entries, answer, client>>
      /\ pc = "issuer" /\ MoreEntries /\ ~ChainRead /\ AvailableReqs # 0
  BY DEF ReadIssuer
<1>3. /\ Len(chain) \in Nat /\ Len(Chain[NextLeaf]) \in Nat /\ Len(chain) < Len(Chain[NextLeaf])
      /\ NextLeaf = from + Len(answer) /\ NextLeaf \in from .. to /\ chain \in Seq(Issuer)
      /\ Chain[NextLeaf] \in Seq(Issuer)
      /\ \A i \in 1 .. Len(chain) : chain[i] = Chain[NextLeaf][i]
  BY <1>2, NextIsBehindAnswer DEF ChainRead, Parts, AnswerType
<1>4. c \in Issuer /\ IssuerFile(c) \in Object
  BY <1>3 DEF Object
<1> HIDE DEF c
<1>5. /\ CachesInv' /\ requests' \in {requests, requests + 1} /\ faults' \in faults .. MaxFaults
      /\ v = Failed => faults' > 0
      /\ v # NotFound
  <2>1. CachesInv /\ requests \in Nat /\ faults \in 0 .. MaxFaults /\ UNCHANGED bucket
    BY <1>2 DEF Parts, RequestType
  <2> QED BY <1>1, <1>4, <2>1, GetRight, FetchedOther
<1>6. BudgetKept'
  BY <1>2, <1>5, FastlyAssumption DEF Parts, BudgetKept, RequestType, AvailableReqs
<1>7. RequestType'
  BY <1>1, <1>2, <1>5, FastlyAssumption DEF Parts, RequestType
<1>8. CASE v >= 0
  <2>1. chain' = Append(chain, c) /\ pc' = pc
    BY <1>1, <1>8
  <2>2. /\ chain' \in Seq(Issuer) /\ Len(chain') = Len(chain) + 1
        /\ \A i \in 1 .. Len(chain) : chain'[i] = chain[i]
        /\ chain'[Len(chain) + 1] = Chain[NextLeaf][Len(chain) + 1]
    BY <1>3, <1>4, <2>1 DEF c
  <2>3. ChainOfNext'
    <3>1. \A i \in 1 .. Len(chain') : chain'[i] = Chain[NextLeaf][i]
      BY <1>3, <2>2
    <3>2. NextLeaf <= to /\ entries = NextLeaf .. to
      BY <1>2, <1>3, Width DEF Parts, Phase, ChainOfNext, RequestType
    <3>3. /\ from' + Len(answer') = NextLeaf /\ to' = to /\ entries' = entries
          /\ Len(chain') <= Len(Chain[NextLeaf])
      BY <1>2, <1>3, <2>2
    <3>4. NextLeaf \in Nat /\ to \in Nat
      BY <1>3, Width DEF Parts, RequestType
    <3> QED BY <3>1, <3>2, <3>3, <3>4 DEF ChainOfNext
  <2>4. Phase' /\ AnswerType' /\ AnswerSound'
    BY <1>2, <2>1, <2>2, <2>3 DEF Parts, Phase, AnswerType, AnswerSound, bucket
  <2> QED BY <1>5, <1>6, <1>7, <2>4 DEF Parts
<1>9. CASE ~(v >= 0)
  <2>1. v = Failed
    BY <1>5, <1>9, Width DEF Value, Failed, NotFound
  <2>2. pc' = "failed" /\ chain' = chain
    BY <1>1, <1>9
  <2>3. Phase' /\ AnswerType' /\ AnswerSound'
    BY <1>2, <1>5, <2>1, <2>2 DEF Parts, Phase, AnswerType, AnswerSound, bucket
  <2> QED BY <1>5, <1>6, <1>7, <2>3 DEF Parts
<1> QED BY <1>8, <1>9

\* The tree head: the tiles derived from it are there, and nothing is missed yet.
LEMMA ReadSthStep == Parts /\ ReadSth => Parts'
<1> SUFFICES ASSUME Parts, ReadSth PROVE Parts'
  OBVIOUS
<1>1. PICK v \in Value :
        /\ Get(Sth, v)
        /\ IF v >= 0
           THEN LET end == IF to >= v THEN v - 1 ELSE to
                IN  pc' = "tile" /\ to' = end /\ tiles' = TilesOf(from, end, v)
           ELSE pc' = "failed" /\ to' = to /\ tiles' = tiles
  BY DEF ReadSth
<1>2. /\ UNCHANGED <<local, bucket, from, probed, entries, answer, chain, client>>
      /\ pc = "sth"
  BY DEF ReadSth
<1>3. /\ CachesInv' /\ requests' \in {0, 1} /\ faults' \in faults .. MaxFaults
      /\ v = Failed => faults' > 0
      /\ v # NotFound /\ (v # Failed => Right(Sth, v))
      /\ v \notin {Failed, NotFound} => \A j \in DOMAIN memo' : memo'[j] # NotFound
  <2>1. CachesInv /\ requests \in Nat /\ faults \in 0 .. MaxFaults /\ UNCHANGED bucket
        /\ requests = 0 /\ memo = <<>>
    BY <1>2 DEF Parts, RequestType, Phase
  <2>2. Sth \in Object
    BY DEF Object
  <2>3. DOMAIN memo = {}
    BY <2>1
  <2>4. v # NotFound /\ (v = Failed => faults' > 0)
    BY <1>1, <2>1, <2>2, GetRight, FetchedOther
  <2> QED BY <1>1, <2>1, <2>2, <2>3, <2>4, GetRight
<1>4. BudgetKept'
  BY <1>3, FastlyAssumption DEF BudgetKept
<1>5. /\ from \in 0 .. MaxSize /\ to \in 0 .. MaxSize /\ MaxSize \in Nat
      /\ TileWidth \in Nat \ {0} /\ MaxGetEntry \in Nat /\ MaxGetEntry <= TileWidth
      /\ from = client /\ to - from <= MaxGetEntry /\ ~probed /\ entries = {}
      /\ answer = <<>> /\ chain = <<>>
      /\ size \in 1 .. MaxSize /\ uploaded \in size .. MaxSize /\ widths \subseteq 1 .. uploaded
  BY <1>2, Width, FastlyAssumption DEF Parts, RequestType, Phase, CachesInv, BucketType
<1>6. AnswerType'
  BY <1>2 DEF Parts, AnswerType
<1>7. CASE v >= 0
  <2> DEFINE end == IF to >= v THEN v - 1 ELSE to
  <2>1. pc' = "tile" /\ to' = end /\ tiles' = TilesOf(from, end, v)
    BY <1>1, <1>7
  <2>2. v \in widths /\ v <= size /\ v \notin {Failed, NotFound}
    BY <1>3, <1>7 DEF Right, Failed, NotFound
  <2>3. v \in 1 .. MaxSize /\ v <= uploaded
    BY <1>5, <2>2
  <2>4. end \in 0 .. MaxSize /\ end < v /\ end <= to /\ end < size /\ end - from <= TileWidth
        /\ end - from <= MaxGetEntry
    BY <1>5, <2>2, <2>3
  <2> HIDE DEF end
  <2>a. PICK n, m \in 0 .. MaxSize, w \in 1 .. TileWidth : TilesReach(n, m, w, from, end, v)
    BY <1>5, <2>3, <2>4, TilesOfRange
  <2>5. /\ n * TileWidth <= from
        /\ TilesOf(from, end, v)
             = IF n = m THEN <<Tile(m, w)>> ELSE <<Tile(n, TileWidth), Tile(m, w)>>
        /\ end < m * TileWidth + w
        /\ m * TileWidth <= end
        /\ (m + 1) * TileWidth <= v \/ m * TileWidth + w = v
        /\ from <= end /\ end - from <= TileWidth => n = m \/ m = n + 1
    BY <2>a DEF TilesReach
  <2>6. n * TileWidth \in Nat /\ m * TileWidth \in Nat /\ (m + 1) * TileWidth \in Nat
    BY <1>5
  <2>7. Available(m, w)
    BY <1>5, <2>2, <2>3, <2>5, <2>6 DEF Available
  <2>8. Before(n)' = {}
    BY <1>2, <1>5, <2>5, <2>6 DEF Before
  <2>9. entries' = {} /\ ~probed' /\ requests' <= 1 /\ MissedOnly({})'
    BY <1>2, <1>3, <1>5, <2>2 DEF MissedOnly
  <2>10. Available(m, w)'
    BY <1>2, <2>7 DEF Available, bucket
  <2>11. TilesLeft'
    <3>1. CASE n = m
      <4>1. OneLeft(m, w)'
        BY <1>2, <1>3, <2>1, <2>5, <2>8, <2>9, <2>10, <3>1 DEF OneLeft
      <4> QED BY <2>1, <2>5, <3>1, <4>1 DEF TilesLeft
    <3>2. CASE n # m
      <4>1. from <= end => m * TileWidth <= uploaded
        BY <1>5, <2>4, <2>5, <2>6
      <4>2. from <= end => m = n + 1
        BY <2>4, <2>5, <3>2
      <4>3. TwoLeft(n, m, w)'
        BY <1>2, <2>1, <2>5, <2>8, <2>9, <2>10, <4>1, <4>2 DEF TwoLeft, bucket
      <4> QED BY <2>1, <2>5, <3>2, <4>3 DEF TilesLeft
    <3> QED BY <3>1, <3>2
  <2>12. RequestType'
    BY <1>2, <1>3, <1>5, <2>1, <2>4, <2>9, FastlyAssumption DEF Parts, RequestType
  <2>13. Phase' /\ AnswerSound'
    BY <1>2, <1>5, <2>1, <2>4, <2>11 DEF Phase, AnswerSound, bucket
  <2> QED BY <1>3, <1>4, <1>6, <2>12, <2>13 DEF Parts
<1>8. CASE ~(v >= 0)
  <2>1. v = Failed /\ pc' = "failed" /\ to' = to
    BY <1>1, <1>3, <1>8, Width DEF Value, Failed, NotFound
  <2>2. RequestType'
    BY <1>2, <1>3, <2>1, FastlyAssumption DEF Parts, RequestType
  <2>3. Phase' /\ AnswerSound'
    BY <1>2, <1>3, <1>5, <2>1 DEF Phase, AnswerSound
  <2> QED BY <1>3, <1>4, <1>6, <2>2, <2>3 DEF Parts
<1> QED BY <1>7, <1>8

\* A tile that is read, when one is left or two: what Get says of it.
TileGot(k, v) ==
    /\ k \in Object /\ k[1] = "tile" /\ k # Sth
    /\ Get(k, v)
    /\ CachesInv' /\ requests' \in {requests, requests + 1} /\ faults' \in faults .. MaxFaults
    /\ v = Failed =>
         \/ faults' > 0
         \/ local /\ Fetched(k) = NotFound /\ k \in DOMAIN memo' /\ memo'[k] = NotFound
    /\ v = NotFound => Fetched(k) = NotFound \/ (k \in DOMAIN memo /\ memo[k] = NotFound)
    /\ v \notin {Failed, NotFound} => v = Fetched(k)
    /\ \A j \in DOMAIN memo' : memo'[j] = NotFound =>
         (j \in DOMAIN memo /\ memo[j] = NotFound) \/ (j = k /\ v \in {Failed, NotFound})

LEMMA TileRight ==
    ASSUME Parts, UNCHANGED bucket, NEW n \in 0 .. MaxSize, NEW w \in 1 .. TileWidth,
           NEW v, Get(Tile(n, w), v)
    PROVE  TileGot(Tile(n, w), v)
<1>1. Tile(n, w) \in Object /\ Tile(n, w)[1] = "tile" /\ Tile(n, w) # Sth
  BY FetchedTile, Width DEF Object
<1>2. CachesInv /\ requests \in Nat /\ faults \in 0 .. MaxFaults
  BY DEF Parts, RequestType
<1>3. v \notin {Failed, NotFound} => v = Fetched(Tile(n, w))
  BY <1>1, <1>2, GetRight DEF Right
<1> QED BY <1>1, <1>2, <1>3, GetRight DEF TileGot

\* The numbers of a state in which a tile is read.
LEMMA TileNumbers ==
    ASSUME Parts, pc = "tile"
    PROVE  /\ from \in 0 .. MaxSize /\ to \in 0 .. MaxSize /\ MaxSize \in Nat
           /\ TileWidth \in Nat \ {0} /\ requests \in Nat /\ probed \in BOOLEAN
           /\ from = client /\ to - from <= MaxGetEntry /\ to < size
           /\ answer = <<>> /\ chain = <<>> /\ entries \subseteq from .. to
           /\ size \in 1 .. MaxSize /\ uploaded \in size .. MaxSize /\ widths \subseteq 1 .. uploaded
BY Width DEF Parts, Phase, RequestType, CachesInv, BucketType

\* The state after it, unless it is there and there are more.
LEMMA TileEnds ==
    ASSUME Parts, ReadTile, NEW k, NEW v, TileGot(k, v),
           NEW w \in 1 .. TileWidth, k = Tile(Head(tiles)[2], w),
           pc' \in {"failed", "notfound"}, pc' = "notfound" => from > to,
           pc' = "failed" =>
             v = Failed /\ (from > to \/ Head(tiles)[3] < TileWidth \/ Fetched(k) # NotFound),
           UNCHANGED <<tiles, probed, entries>>, requests' <= 4
    PROVE  Parts'
<1>1. pc = "tile" /\ UNCHANGED <<local, bucket, from, to, answer, chain, client>>
  BY DEF ReadTile
<1>2. CachesInv' /\ RequestType' /\ AnswerType' /\ BudgetKept'
  BY <1>1, FastlyAssumption DEF TileGot, Parts, RequestType, AnswerType, BudgetKept
<1>3. pc' = "failed" => (faults > 0 \/ LocalMiss)'
  <2> SUFFICES ASSUME pc' = "failed", ~(faults' > 0) PROVE LocalMiss'
    OBVIOUS
  <2>1. local /\ Fetched(k) = NotFound /\ k \in DOMAIN memo' /\ memo'[k] = NotFound
    BY DEF TileGot
  <2>2. from > to \/ Head(tiles)[3] < TileWidth
    BY <2>1
  <2>3. tiles # <<>> /\ tiles' = tiles
    BY DEF ReadTile
  <2> QED BY <1>1, <2>1, <2>2, <2>3 DEF LocalMiss
<1>4. Phase' /\ AnswerSound'
  BY <1>1, <1>3, TileNumbers DEF Parts, Phase, AnswerSound
<1> QED BY <1>2, <1>4 DEF Parts

LEMMA TileGoesOn ==
    ASSUME Parts, ReadTile, NEW k, NEW v, TileGot(k, v),
           pc' = pc, requests' <= 4, probed' \in BOOLEAN, entries' \subseteq from .. to, TilesLeft'
    PROVE  Parts'
<1>1. pc = "tile" /\ UNCHANGED <<local, bucket, from, to, answer, chain, client>>
  BY DEF ReadTile
<1>2. CachesInv' /\ RequestType' /\ AnswerType' /\ BudgetKept'
  BY <1>1, FastlyAssumption DEF TileGot, Parts, RequestType, AnswerType, BudgetKept
<1>3. Phase' /\ AnswerSound'
  BY <1>1, TileNumbers DEF Parts, Phase, AnswerSound, bucket
<1> QED BY <1>2, <1>3 DEF Parts

\* The leaves in front of a tile and in it.
LEMMA BeforeNext ==
    ASSUME NEW n \in Nat, NEW v \in 1 .. TileWidth, from \in Nat, to \in Nat
    PROVE  /\ to < n * TileWidth + v
                => Before(n) \cup (LeavesOf(n, v) \cap from .. to) = from .. to
           /\ Before(n) \cup (LeavesOf(n, TileWidth) \cap from .. to) = Before(n + 1)
           /\ from > to => \A m : Before(m) = {}
<1>1. n * TileWidth \in Nat /\ (n + 1) * TileWidth = n * TileWidth + TileWidth /\ TileWidth \in Nat
  BY Times, Width
<1>2. n * TileWidth <= n * TileWidth + v
  BY <1>1
<1> QED BY <1>1, <1>2 DEF Before, LeavesOf

\* What ReadTile does with what it gets.
TileDone(k, v) ==
    \/ /\ v > 0
       /\ tiles' = Tail(tiles) /\ probed' = FALSE /\ pc' = pc
       /\ entries' = entries \cup (LeavesOf(k[2], v) \cap from .. to)
    \/ /\ v = NotFound /\ k # Head(tiles)
       /\ probed' = TRUE /\ UNCHANGED <<tiles, entries, pc>>
    \/ /\ v = NotFound /\ k = Head(tiles)
       /\ pc' = "notfound" /\ UNCHANGED <<tiles, probed, entries>>
    \/ v = Failed /\ pc' = "failed" /\ UNCHANGED <<tiles, probed, entries>>

LEMMA ReadOnlyTile ==
    ASSUME Parts, ReadTile, NEW n \in 0 .. MaxSize, NEW w \in 1 .. TileWidth,
           tiles = <<Tile(n, w)>>, OneLeft(n, w)
    PROVE  Parts'
<1>1. /\ pc = "tile" /\ UNCHANGED <<local, bucket, from, to, answer, chain, client>>
      /\ \E v \in Value : Get(TileToRead, v) /\ TileDone(TileToRead, v)
  BY DEF ReadTile, TileDone
<1> DEFINE ww == IF probed THEN w ELSE TileWidth
<1>2. /\ ww \in 1 .. TileWidth /\ TileToRead = Tile(n, ww) /\ Head(tiles) = Tile(n, w)
      /\ Tail(tiles) = <<>> /\ Tile(n, ww)[2] = n /\ (ww = w <=> Tile(n, ww) = Tile(n, w))
      /\ w <= ww
  BY Width DEF TileToRead, Tile
<1>3. PICK v \in Value : Get(Tile(n, ww), v) /\ TileDone(Tile(n, ww), v)
  BY <1>1, <1>2
<1>4. TileGot(Tile(n, ww), v)
  BY <1>1, <1>2, <1>3, TileRight
<1>5. /\ from \in Nat /\ to \in Nat /\ TileWidth \in Nat \ {0} /\ requests \in Nat
      /\ probed \in BOOLEAN /\ n \in Nat /\ n * TileWidth \in Nat /\ (n + 1) * TileWidth \in Nat
      /\ (n + 1) * TileWidth = n * TileWidth + TileWidth
      /\ uploaded \in Nat /\ widths \subseteq 1 .. uploaded
  BY <1>1, TileNumbers, Times, Width
<1>6. Fetched(Tile(n, ww)) = IF (IF ww = TileWidth THEN (n + 1) * TileWidth <= uploaded
                                 ELSE n * TileWidth + ww \in widths)
                             THEN ww ELSE NotFound
  BY <1>2, <1>5, FetchedTile
<1>7. /\ requests' \in Nat /\ requests' <= 4 /\ (~probed => requests' <= 3)
      /\ entries = Before(n) /\ entries \subseteq from .. to
  <2>1. requests <= 3 /\ (~probed => requests <= 2) /\ entries = Before(n)
    BY <1>5 DEF OneLeft
  <2>2. requests' \in {requests, requests + 1}
    BY <1>4 DEF TileGot
  <2> QED BY <1>5, <2>1, <2>2 DEF Before
<1>8. CASE v > 0
  <2>1. /\ tiles' = <<>> /\ probed' = FALSE /\ pc' = pc
        /\ entries' = Before(n) \cup (LeavesOf(n, v) \cap from .. to)
    BY <1>2, <1>3, <1>7, <1>8 DEF TileDone, NotFound, Failed
  <2>2. v = ww
    BY <1>4, <1>6, <1>8 DEF TileGot, NotFound, Failed
  <2>3. entries' = from .. to
    <3>1. CASE from <= to
      <4>1. to < n * TileWidth + v
        BY <1>2, <1>5, <2>2, <3>1 DEF OneLeft
      <4> QED BY <1>2, <1>5, <2>1, <2>2, <4>1, BeforeNext
    <3>2. CASE from > to
      <4>1. from .. to = {} /\ Before(n) = {}
        BY <1>5, <3>2 DEF Before
      <4> QED BY <2>1, <4>1
    <3> QED BY <1>5, <3>1, <3>2
  <2>4. requests' <= 4
    BY <1>5, <1>7
  <2>5. TilesLeft'
    BY <1>1, <2>1, <2>3, <2>4 DEF TilesLeft
  <2> QED BY <1>4, <2>1, <2>3, <2>4, <2>5, TileGoesOn
<1>9. CASE v = NotFound /\ Tile(n, ww) # Tile(n, w)
  <2>1. ~probed /\ ww = TileWidth /\ w < TileWidth
    BY <1>2, <1>5, <1>9
  <2>2. probed' = TRUE /\ UNCHANGED <<tiles, entries, pc>>
    BY <1>2, <1>3, <1>9 DEF TileDone, NotFound, Failed
  <2>3. requests' <= 3
    BY <1>7, <2>1
  <2>4. ASSUME from <= to PROVE n * TileWidth + w \in widths /\ MissedOnly({Tile(n, TileWidth)})'
    <3>1. Available(n, w) /\ MissedOnly({})
      BY <2>1, <2>4 DEF OneLeft
    <3>2. Fetched(Tile(n, ww)) = NotFound
      BY <1>4, <1>9, <3>1 DEF TileGot, MissedOnly
    <3>3. ~((n + 1) * TileWidth <= uploaded)
      BY <1>5, <1>6, <2>1, <3>2 DEF NotFound
    <3>4. MissedOnly({Tile(n, TileWidth)})'
      BY <1>4, <2>1, <3>1 DEF TileGot, MissedOnly
    <3> QED BY <3>1, <3>3, <3>4 DEF Available
  <2>5. OneLeft(n, w)'
    <3>1. Before(n)' = Before(n) /\ (Available(n, w)' <=> Available(n, w))
      BY <1>1 DEF Before, Available, bucket
    <3> QED BY <1>1, <1>7, <2>1, <2>2, <2>3, <2>4, <3>1 DEF OneLeft, bucket
  <2>6. TilesLeft'
    BY <2>2, <2>5 DEF TilesLeft
  <2>7. requests' <= 4 /\ probed' \in BOOLEAN /\ entries' \subseteq from .. to
    BY <1>7, <2>2
  <2> QED BY <1>4, <2>2, <2>6, <2>7, TileGoesOn
<1>10. CASE v = NotFound /\ Tile(n, ww) = Tile(n, w)
  <2>1. pc' = "notfound" /\ UNCHANGED <<tiles, probed, entries>>
    BY <1>2, <1>3, <1>10 DEF TileDone, NotFound, Failed
  <2>2. ASSUME from <= to PROVE FALSE
    <3>1. /\ Available(n, w)
          /\ probed => w < TileWidth /\ n * TileWidth + w \in widths
          /\ MissedOnly(IF probed THEN {Tile(n, TileWidth)} ELSE {})
      BY <2>2 DEF OneLeft
    <3>2. Fetched(Tile(n, w)) = w
      BY <1>2, <1>5, <1>6, <1>10, <2>2, <3>1 DEF Available, OneLeft
    <3>3. w # NotFound
      BY <1>5 DEF NotFound
    <3>4. Tile(n, w) \in DOMAIN memo /\ memo[Tile(n, w)] = NotFound
      BY <1>4, <1>10, <3>2, <3>3 DEF TileGot
    <3>5. probed /\ Tile(n, w) = Tile(n, TileWidth)
      BY <3>1, <3>4 DEF MissedOnly
    <3> QED BY <1>5, <3>1, <3>5 DEF Tile
  <2>3. from > to /\ requests' <= 4
    BY <1>5, <1>7, <2>2
  <2> QED BY <1>2, <1>4, <2>1, <2>3, TileEnds DEF Tile
<1>11. CASE v = Failed
  <2>1. pc' = "failed" /\ UNCHANGED <<tiles, probed, entries>> /\ requests' <= 4
    BY <1>3, <1>5, <1>7, <1>11 DEF TileDone, NotFound, Failed
  <2>2. from > to \/ w < TileWidth \/ Fetched(Tile(n, ww)) # NotFound
    <3> SUFFICES ASSUME from <= to, w = TileWidth PROVE Fetched(Tile(n, ww)) # NotFound
      BY <1>5
    <3>1. Available(n, w) /\ ~probed /\ ww = TileWidth
      BY <1>5 DEF OneLeft
    <3>2. (n + 1) * TileWidth <= uploaded
      BY <1>5, <3>1 DEF Available
    <3> QED BY <1>5, <1>6, <3>1, <3>2 DEF NotFound
  <2>3. Tile(n, w)[2] = n /\ Tile(n, w)[3] = w
    BY DEF Tile
  <2> QED BY <1>2, <1>4, <1>11, <2>1, <2>2, <2>3, TileEnds
<1> QED BY <1>2, <1>3, <1>8, <1>9, <1>10, <1>11 DEF TileDone

LEMMA ReadFirstTile ==
    ASSUME Parts, ReadTile, NEW n \in 0 .. MaxSize, NEW m \in 0 .. MaxSize,
           NEW w \in 1 .. TileWidth,
           tiles = <<Tile(n, TileWidth), Tile(m, w)>>, TwoLeft(n, m, w)
    PROVE  Parts'
<1> DEFINE k == Tile(n, TileWidth)
<1>1. /\ pc = "tile" /\ UNCHANGED <<local, bucket, from, to, answer, chain, client>>
      /\ \E v \in Value : Get(TileToRead, v) /\ TileDone(TileToRead, v)
  BY DEF ReadTile, TileDone
<1>2. /\ TileWidth \in 1 .. TileWidth /\ Head(tiles) = k /\ Tail(tiles) = <<Tile(m, w)>>
      /\ TileToRead = k /\ k[2] = n
  BY Width DEF TileToRead, Tile
<1>3. PICK v \in Value : Get(k, v) /\ TileDone(k, v)
  BY <1>1, <1>2
<1>4. TileGot(k, v)
  BY <1>1, <1>2, <1>3, TileRight
<1>5. /\ from \in Nat /\ to \in Nat /\ TileWidth \in Nat \ {0} /\ requests \in Nat
      /\ n \in Nat /\ m \in Nat /\ uploaded \in Nat
  BY <1>1, TileNumbers, Width
<1>6. Fetched(k) = IF (n + 1) * TileWidth <= uploaded THEN TileWidth ELSE NotFound
  BY <1>2, <1>5, FetchedTile
<1>7. /\ requests' \in Nat /\ requests' <= 2 /\ ~probed
      /\ entries = Before(n) /\ entries \subseteq from .. to
  <2>1. requests <= 1 /\ ~probed /\ entries = Before(n)
    BY DEF TwoLeft
  <2>2. requests' \in {requests, requests + 1}
    BY <1>4 DEF TileGot
  <2> QED BY <1>5, <2>1, <2>2 DEF Before
<1> HIDE DEF k
<1>8. from <= to => v # NotFound
  <2> SUFFICES ASSUME from <= to, v = NotFound PROVE FALSE
    OBVIOUS
  <2>1. m = n + 1 /\ m * TileWidth <= uploaded /\ MissedOnly({})
    BY DEF TwoLeft
  <2>2. Fetched(k) # NotFound
    BY <1>5, <1>6, <2>1 DEF NotFound
  <2> QED BY <1>4, <2>1, <2>2 DEF TileGot, MissedOnly
<1>9. CASE v > 0
  <2>1. /\ tiles' = <<Tile(m, w)>> /\ probed' = FALSE /\ pc' = pc
        /\ entries' = Before(n) \cup (LeavesOf(n, v) \cap from .. to)
    BY <1>2, <1>3, <1>7, <1>9 DEF TileDone, NotFound, Failed
  <2>2. v = TileWidth
    BY <1>4, <1>6, <1>9 DEF TileGot, NotFound, Failed
  <2>3. entries' = Before(m)
    <3>1. CASE from <= to
      <4>1. m = n + 1
        BY <3>1 DEF TwoLeft
      <4> QED BY <1>2, <1>5, <2>1, <2>2, <4>1, BeforeNext
    <3>2. CASE from > to
      <4>1. from .. to = {} /\ Before(n) = {} /\ Before(m) = {}
        BY <1>5, <3>2 DEF Before
      <4> QED BY <2>1, <4>1
    <3> QED BY <1>5, <3>1, <3>2
  <2>4. from <= to => to < m * TileWidth + w /\ Available(m, w) /\ MissedOnly({})'
    <3> SUFFICES ASSUME from <= to
                 PROVE  to < m * TileWidth + w /\ Available(m, w) /\ MissedOnly({})'
      OBVIOUS
    <3>1. to < m * TileWidth + w /\ Available(m, w) /\ MissedOnly({})
      BY DEF TwoLeft
    <3>2. v \notin {Failed, NotFound}
      BY <1>9 DEF NotFound, Failed
    <3>3. MissedOnly({})'
      BY <1>4, <3>1, <3>2 DEF TileGot, MissedOnly
    <3> QED BY <3>1, <3>3
  <2>5. OneLeft(m, w)'
    <3>1. Before(m)' = Before(m) /\ (Available(m, w)' <=> Available(m, w))
      BY <1>1 DEF Before, Available, bucket
    <3> QED BY <1>1, <1>7, <2>1, <2>3, <2>4, <3>1 DEF OneLeft
  <2>6. TilesLeft'
    BY <2>1, <2>5 DEF TilesLeft
  <2>7. requests' <= 4 /\ probed' \in BOOLEAN /\ entries' \subseteq from .. to
    <3>1. entries' \subseteq from .. to
      BY <2>3 DEF Before
    <3>2. requests' <= 4
      BY <1>7
    <3> QED BY <2>1, <3>1, <3>2
  <2> QED BY <1>4, <2>1, <2>6, <2>7, TileGoesOn
<1>10. CASE v = NotFound
  <2>1. pc' = "notfound" /\ UNCHANGED <<tiles, probed, entries>>
    BY <1>2, <1>3, <1>10 DEF TileDone, NotFound, Failed
  <2>2. from > to /\ requests' <= 4
    BY <1>5, <1>7, <1>8, <1>10
  <2> QED BY <1>2, <1>4, <2>1, <2>2, TileEnds DEF k
<1>11. CASE v = Failed
  <2>1. pc' = "failed" /\ UNCHANGED <<tiles, probed, entries>> /\ requests' <= 4
    BY <1>3, <1>7, <1>11 DEF TileDone, NotFound, Failed
  <2>2. from > to \/ Fetched(k) # NotFound
    <3> SUFFICES ASSUME from <= to PROVE Fetched(k) # NotFound
      BY <1>5
    <3>1. m = n + 1 /\ m * TileWidth <= uploaded
      BY DEF TwoLeft
    <3> QED BY <1>5, <1>6, <3>1 DEF NotFound
  <2> QED BY <1>2, <1>4, <1>11, <2>1, <2>2, TileEnds DEF k
<1> QED BY <1>3, <1>9, <1>10, <1>11 DEF TileDone

LEMMA ReadTileStep == Parts /\ ReadTile => Parts'
<1> SUFFICES ASSUME Parts, ReadTile PROVE Parts'
  OBVIOUS
<1>1. TilesLeft /\ tiles # <<>>
  BY DEF ReadTile, Parts, Phase
<1>2. ASSUME NEW n \in 0 .. MaxSize, NEW w \in 1 .. TileWidth,
             tiles = <<Tile(n, w)>>, OneLeft(n, w)
      PROVE  Parts'
  BY <1>2, ReadOnlyTile
<1>3. ASSUME NEW n \in 0 .. MaxSize, NEW m \in 0 .. MaxSize, NEW w \in 1 .. TileWidth,
             tiles = <<Tile(n, TileWidth), Tile(m, w)>>, TwoLeft(n, m, w)
      PROVE  Parts'
  BY <1>3, ReadFirstTile
<1> QED BY <1>1, <1>2, <1>3 DEF TilesLeft

LEMMA Stutter == Parts /\ UNCHANGED vars => Parts'
<1> SUFFICES ASSUME Parts, UNCHANGED vars PROVE Parts'
  OBVIOUS
<1>1. UNCHANGED <<local, bucket, edge, memo, requests, request, client, faults>>
  BY DEF vars
<1>2. CachesInv' /\ RequestType' /\ AnswerType' /\ BudgetKept'
  BY <1>1, CachesSame DEF Parts, RequestType, AnswerType, BudgetKept, request
<1>3. TilesLeft => TilesLeft'
  BY <1>1 DEF TilesLeft, OneLeft, TwoLeft, Before, Available, MissedOnly, request, bucket
<1>4. Phase' /\ AnswerSound'
  BY <1>1, <1>3 DEF Parts, Phase, ChainOfNext, AnswerSound, LocalMiss, AvailableReqs, request, bucket
<1> QED BY <1>2, <1>4 DEF Parts

-----------------------------------------------------------------------------
\* Theorems

\* IInv is inductive: every step of the request, of the log and of the edge cache
\* keeps it.
THEOREM Inductive == Spec => []IInv
<1>1. Init => Parts
  BY PartsOfInit
<1>2. Parts /\ [Next]_vars => Parts'
  BY AskStep, ReadSthStep, ReadTileStep, TilesReadStep, ReadIssuerStep, AddEntryStep, EndStep,
     ReceiveStep, BucketStep, EdgeStep, Stutter DEF Next, Handle
<1>3. Parts => IInv
  BY PartsOfIInv
<1> QED BY <1>1, <1>2, <1>3, PTL DEF Spec

\* The request budget is never exceeded, whatever the edge has cached, misses or drops:
\* four requests are the most before the first look at the budget, however many tiles
\* and chains there are.
THEOREM BudgetNeverExceeded == Spec => []BudgetKept
<1>1. IInv => BudgetKept
  BY DEF IInv
<1> QED BY <1>1, Inductive, PTL

\* An answer is of the published leaves from the start of the range on, with their
\* chains, and it is short, missing or an error only for the reasons of AnswerSound.
THEOREM AnswersRight == Spec => []AnswerSound
<1>1. IInv => AnswerSound
  BY DEF IInv
<1> QED BY <1>1, Inductive, PTL
=============================================================================
