--------------------------- MODULE MonitorProofs ---------------------------
(***************************************************************************)
(* Proofs about the monitor's reads, from the inductive invariant of Tiles *)
(* and what crashes can leave in the bucket.                               *)
(***************************************************************************)
EXTENDS Monitor, TilesProofs

-----------------------------------------------------------------------------
(* What getTile finds. *)

\* The tile getTile reads for another.
Full(id) == [id EXCEPT !.w = TileWidth]
TileRead(id) == IF Full(id) \in DOMAIN tiles THEN Full(id) ELSE id

LEMMA TileReadIs ==
    ASSUME NEW id \in Tile
    PROVE  /\ TileRead(id) \in Tile /\ TileRead(id).l = id.l /\ TileRead(id).n = id.n
           /\ TileRead(id).w \in {id.w, TileWidth} /\ id.w <= TileRead(id).w
           /\ LevelOf(TileRead(id)) = LevelOf(id)
           /\ IF TileRead(id) \in DOMAIN tiles THEN GetTile(id) = tiles[TileRead(id)]
              ELSE GetTile(id) = <<>>
           /\ id \in DOMAIN tiles => TileRead(id) \in DOMAIN tiles
<1>1. /\ Full(id) \in Tile /\ Full(id).l = id.l /\ Full(id).n = id.n /\ Full(id).w = TileWidth
      /\ id.w <= TileWidth
  BY TilesAssumption DEF Full, Tile
<1> QED BY <1>1 DEF TileRead, GetTile, LevelOf, Full, Tile

LEMMA ReadLevels ==
    ASSUME NEW id \in Tile
    PROVE  /\ LevelOf(id) \in Level /\ id.n \in Nat /\ id.w \in 1 .. TileWidth
           /\ id.n * TileWidth \in Nat /\ (LevelOf(id) = 0 <=> ~(id.l > 0))
           /\ id.l > 0 => LevelOf(id) = id.l
BY Products, TilesAssumption DEF Tile, LevelOf, Level

\* A tile that the tree fills is there in full and is the tree's.
LEMMA FullTileIs ==
    ASSUME IInv, NEW id \in Tile, LevelOf(id) = 0,
           (id.n + 1) * TileWidth <= Len(sth)
    PROVE  TileRead(id) = Full(id) /\ Has(sth, Full(id))
<1>1. Len(sth) \in Nat /\ id.n \in Nat
  BY TilesAssumption DEF IInv, TypeOK, SizesFit, Tile
<1>2. Full(id) \in Tile /\ LevelOf(Full(id)) = 0 /\ Full(id).n = id.n /\ Full(id).w = TileWidth
  BY TilesAssumption DEF Full, Tile, LevelOf
<1>3. NewAt(0, Len(sth), 0, id.n, TileWidth)
  <2>0. 0 \in Level /\ 0 \in 0 .. TopLevel + 1 /\ 1 \in 0 .. TopLevel + 1
    BY TilesAssumption DEF Level
  <2>1. Count(0, 0) = 0 /\ Count(0, 1) = 0 /\ Count(Len(sth), 0) = Len(sth)
    BY <1>1, <2>0, CountOfNone, CountZero
  <2>2. Count(Len(sth), 0 + 1) = Count(Len(sth), 0) \div TileWidth
    BY <1>1, <2>0, CountUp
  <2>3. Count(Len(sth), 1) = Len(sth) \div TileWidth
    BY <2>1, <2>2
  <2>4. id.n + 1 <= Len(sth) \div TileWidth
    <3> DEFINE s == Len(sth)
               n == id.n + 1
               q == s \div TileWidth
               r == s % TileWidth
    <3>1. n \in Nat /\ s \in Nat /\ n * TileWidth <= s
      BY <1>1
    <3>2. q \in Nat /\ r \in 0 .. TileWidth - 1 /\ s = q * TileWidth + r
      BY <3>1, Division, TilesAssumption
    <3> HIDE DEF n, s, q, r
    <3>3. q * TileWidth \in Nat /\ n * TileWidth \in Nat
      BY <3>1, <3>2, Products, TilesAssumption
    <3>4. n <= q
      <4> SUFFICES ASSUME q + 1 <= n PROVE FALSE
        BY <3>1, <3>2
      <4>1. (q + 1) * TileWidth <= n * TileWidth /\ (q + 1) * TileWidth = q * TileWidth + TileWidth
        BY <3>1, <3>2, Products, TilesAssumption
      <4> QED BY <3>1, <3>2, <3>3, <4>1, TilesAssumption
    <3> QED BY <3>4 DEF n, q, s
  <2>5. Len(sth) # 0
    BY <1>1, <2>4, TilesAssumption
  <2>6. id.n \in Count(0, 1) .. Count(Len(sth), 1) - 1
    <3>1. Len(sth) \div TileWidth \in Nat
      BY <1>1, Division, TilesAssumption
    <3> QED BY <1>1, <2>1, <2>3, <2>4, <3>1
  <2> QED BY <2>1, <2>5, <2>6 DEF NewAt
<1>4. Full(id) \in AllTiles(0, Len(sth))
  BY <1>1, <1>2, <1>3, AllTilesAre
<1>5. Has(sth, Full(id))
  BY <1>4 DEF IInv, BucketFits
<1> QED BY <1>5 DEF Has, TileRead

\* Only in the lowest tile that the log still has to fill, and only after a
\* crash, can a tile of the bucket disagree with the tree head.
LEMMA TilesAgree ==
    ASSUME IInv, NEW id \in DOMAIN tiles,
           \/ id.l > 0 \/ run <= 1
           \/ (id.n + 1) * TileWidth <= Len(sth) /\ id.w = TileWidth
    PROVE  Agrees(sth, id)
<1>1. id \in Tile
  BY DEF IInv, TypeOK
<1>2. CASE id.l > 0
  BY <1>2 DEF IInv, LeftoversFit
<1>3. CASE run <= 1
  <2>1. run = 1
    BY <1>3, TilesAssumption DEF IInv, LeftoversFit, TypeOK
  <2>2. CASE up
    <3>1. /\ Len(sth) \in Nat /\ \A i \in 1 .. Len(sth) : Tree[i] = sth[i]
      BY <2>2, TreeIs DEF IInv, TreeExtends
    <3> QED BY <1>1, <2>1, <2>2, <3>1, ContentAgrees DEF IInv, LeftoversFit, Has
  <2>3. CASE ~up
    BY <2>1, <2>3 DEF IInv, LeftoversFit
  <2> QED BY <2>2, <2>3
<1>4. CASE (id.n + 1) * TileWidth <= Len(sth) /\ id.w = TileWidth /\ ~(id.l > 0)
  <2>1. LevelOf(id) = 0
    BY <1>1, <1>4, TilesAssumption DEF Tile, LevelOf
  <2>2. Full(id) = id
    BY <1>1, <1>4 DEF Full, Tile
  <2>3. tiles[id] = Content(sth, id)
    BY <1>1, <1>4, <2>1, <2>2, FullTileIs DEF Has
  <2> QED BY <2>3 DEF Agrees, Content
<1> QED BY <1>2, <1>3, <1>4

-----------------------------------------------------------------------------
(* The hashes of proofs. *)

LEMMA DivideReach ==
    ASSUME NEW a \in Nat, NEW c \in Nat, NEW b \in Nat \ {0}, a * b <= c
    PROVE  a <= c \div b
<1> DEFINE q == c \div b
           r == c % b
<1>1. q \in Nat /\ r \in 0 .. b - 1 /\ c = q * b + r
  BY Division
<1> HIDE DEF q, r
<1>2. q * b \in Nat /\ a * b \in Nat
  BY <1>1, Products
<1>3. a <= q
  <2> SUFFICES ASSUME q + 1 <= a PROVE FALSE
    BY <1>1
  <2>1. (q + 1) * b <= a * b /\ (q + 1) * b = q * b + b
    BY <1>1, Products
  <2> QED BY <1>1, <1>2, <2>1
<1> QED BY <1>3 DEF q

LEMMA LeavesAreWide == \A l \in Level \ {0} : Leaves[l] \in Nat /\ Leaves[l] >= TileWidth
<1> TAKE l \in Level \ {0}
<1>1. l - 1 \in Level /\ (l - 1) + 1 = l
  BY TilesAssumption DEF Level
<1>2. Leaves[l] = TileWidth * Leaves[l - 1] /\ Leaves[l - 1] \in Nat \ {0}
  BY <1>1, LeavesStep, LeavesType, LevelType
<1>3. \A a, b \in Nat \ {0} : a * b \in Nat /\ a * b >= a
  OBVIOUS
<1> QED BY <1>2, <1>3, TilesAssumption

LEMMA TileForIndexIs ==
    ASSUME NEW l \in Level, NEW j \in Nat
    PROVE  /\ TileForIndex(l, j) = NarrowTile(l, j + 1)
           /\ TileForIndex(l, j) \in Tile
           /\ TileForIndex(l, j).l = l /\ LevelOf(TileForIndex(l, j)) = l
           /\ TileForIndex(l, j).n = j \div TileWidth
           /\ TileForIndex(l, j).w = (j % TileWidth) + 1
           /\ TileForIndex(l, j).n * TileWidth + TileForIndex(l, j).w = j + 1
           /\ TileForIndex(l, j).n \in Nat /\ TileForIndex(l, j).w \in 1 .. TileWidth
           /\ TileForIndex(l, j).n * TileWidth \in Nat
<1>1. j + 1 \in Nat \ {0} /\ (j + 1) - 1 = j /\ ~(j < 0)
  OBVIOUS
<1>2. TileForIndex(l, j) = NarrowTile(l, j + 1)
  BY <1>1 DEF TileForIndex, NarrowTile
<1>3. /\ TileForIndex(l, j).n = j \div TileWidth /\ TileForIndex(l, j).w = (j % TileWidth) + 1
  BY <1>1, TileIdFields DEF TileForIndex
<1>4. /\ TileForIndex(l, j) \in Tile
      /\ TileForIndex(l, j).l = l /\ LevelOf(TileForIndex(l, j)) = l
      /\ TileForIndex(l, j).n * TileWidth + TileForIndex(l, j).w = j + 1
  BY <1>1, <1>2, NarrowIs
<1> QED BY <1>2, <1>3, <1>4, ReadLevels

\* A hash is served from a tile that is there, is wide enough and has the hashes
\* of the tree up to it.
LEMMA ServesIf ==
    ASSUME IInv, NEW size, NEW l \in Level, NEW j \in Nat,
           NEW h \in Tile, h = HashTile(size, l, j), h.n = j \div TileWidth,
           (j % TileWidth) + 1 <= h.w,
           TileRead(h) \in DOMAIN tiles,
           \A k \in 1 .. (j % TileWidth) + 1 :
              tiles[TileRead(h)][k] = Hash(sth, l, h.n * TileWidth + k - 1)
    PROVE  ServesHash(size, l, j)
<1> DEFINE read == TileRead(h)
           w == (j % TileWidth) + 1
<1>1. /\ read \in Tile /\ h.w <= read.w /\ GetTile(h) = tiles[read]
      /\ h.w \in 1 .. TileWidth /\ read.w \in 1 .. TileWidth /\ DOMAIN tiles[read] = 1 .. read.w
  BY TileReadIs DEF IInv, TypeOK, Tile
<1>2. w \in 1 .. TileWidth /\ TileForIndex(l, j).w = w
  BY TileForIndexIs
<1> HIDE DEF read, w
<1>3. Len(GetTile(h)) = read.w
  BY <1>1, TilesAssumption
<1>4. ~(Len(GetTile(h)) < h.w) /\ ~(h.w < TileForIndex(l, j).w) /\ GetTile(h) # <<>>
  <2>1. w <= h.w
    BY DEF w
  <2>2. Len(<<>>) = 0
    OBVIOUS
  <2> QED BY <1>1, <1>2, <1>3, <2>1, <2>2, TilesAssumption
<1>5. HashData(size, l, j) = tiles[read]
  BY <1>1, <1>4 DEF HashData
<1> QED BY <1>1, <1>4, <1>5 DEF ServesHash, read, w

\* No proof takes a hash above the leaves from a tile numbered like the last one.
LEMMA AboveIsNotFinal ==
    ASSUME NEW size \in Nat, NEW l \in Level \ {0}, NEW j \in Nat,
           Leaves[l] < size, (j + 1) * Leaves[l] <= size
    PROVE  j \div TileWidth # (size - 1) \div TileWidth
<1> SUFFICES ASSUME j \div TileWidth = (size - 1) \div TileWidth PROVE FALSE
  OBVIOUS
<1> DEFINE n == j \div TileWidth
           p == n * TileWidth
           q == p * TileWidth
           r == (size - 1) % TileWidth
<1>1. Leaves[l] \in Nat /\ Leaves[l] >= TileWidth
  BY LeavesAreWide
<1>2. size - 1 \in Nat
  BY <1>1, TilesAssumption
<1>3. n \in Nat /\ j % TileWidth \in 0 .. TileWidth - 1 /\ j = p + (j % TileWidth)
  BY Division, TilesAssumption
<1>4. r \in 0 .. TileWidth - 1 /\ size - 1 = p + r
  BY <1>2, Division, TilesAssumption
<1> HIDE DEF n
<1>5. p \in Nat /\ (n = 0 => p = 0)
  BY <1>3, Products, TilesAssumption
<1> HIDE DEF p, r
<1>6. q \in Nat /\ (p > 0 => q > p)
  <2>1. 2 <= TileWidth /\ 2 \in Nat /\ TileWidth \in Nat
    BY TilesAssumption
  <2>2. 2 * p <= TileWidth * p /\ TileWidth * p = q /\ q \in Nat
    BY <1>5, <2>1, Products
  <2> QED BY <1>5, <2>2
<1>7. (p + 1) * TileWidth <= (j + 1) * Leaves[l]
  <2>1. p + 1 <= j + 1 /\ p + 1 \in Nat /\ j + 1 \in Nat
    BY <1>3, <1>5
  <2>2. (p + 1) * TileWidth <= (j + 1) * TileWidth
    BY <2>1, Products, TilesAssumption
  <2>3. TileWidth * (j + 1) <= Leaves[l] * (j + 1)
    BY <1>1, <2>1, Products, TilesAssumption
  <2>4. /\ TileWidth * (j + 1) = (j + 1) * TileWidth /\ Leaves[l] * (j + 1) = (j + 1) * Leaves[l]
        /\ (j + 1) * TileWidth \in Nat /\ (j + 1) * Leaves[l] \in Nat
        /\ (p + 1) * TileWidth \in Nat
    BY <1>1, <2>1, Products, TilesAssumption
  <2> QED BY <2>2, <2>3, <2>4
<1>8. (p + 1) * TileWidth = q + TileWidth
  BY <1>5, TilesAssumption
<1> HIDE DEF q
<1>9. q + TileWidth <= size
  <2> DEFINE a == (j + 1) * Leaves[l]
  <2>1. a \in Nat /\ q + TileWidth <= a /\ a <= size
    BY <1>1, <1>7, <1>8, Products
  <2> HIDE DEF a
  <2> QED BY <1>6, <2>1, TilesAssumption
<1> QED BY <1>1, <1>4, <1>5, <1>6, <1>9, TilesAssumption

LEMMA ProofHashServed ==
    ASSUME IInv, NEW size \in heads, NEW l \in Level, NEW j \in Nat,
           Leaves[l] < size, (j + 1) * Leaves[l] <= size,
           ~Leftover(HashTile(size, l, j))
    PROVE  ServesHash(size, l, j)
<1> DEFINE s == Len(sth)
           final == TileForIndex(0, size - 1)
           id == TileForIndex(l, j)
           h == HashTile(size, l, j)
           w == (j % TileWidth) + 1
<1>1. /\ size \in Nat /\ size # 0 /\ size - 1 \in Nat /\ s \in Nat /\ size <= s
      /\ 0 \in Level /\ l \in 0 .. TopLevel + 1
  <2>1. size \in Nat /\ s \in Nat /\ size <= s
    BY TilesAssumption DEF IInv, TypeOK, SizesFit
  <2>2. Leaves[l] \in Nat /\ l \in 0 .. TopLevel + 1 /\ 0 \in Level
    BY LeavesType, LevelType, TilesAssumption DEF Level
  <2>3. size # 0
    BY <2>1, <2>2
  <2> QED BY <2>1, <2>2, <2>3
<1>2. /\ id = NarrowTile(l, j + 1) /\ id \in Tile /\ id.l = l /\ LevelOf(id) = l
      /\ id.n = j \div TileWidth /\ id.w = w /\ id.n * TileWidth + w = j + 1
      /\ id.n \in Nat /\ w \in 1 .. TileWidth /\ id.n * TileWidth \in Nat
  BY TileForIndexIs
<1>3. /\ final \in Tile /\ final.n = (size - 1) \div TileWidth
      /\ final.n * TileWidth + final.w = size
      /\ final.n \in Nat /\ final.w \in 1 .. TileWidth /\ final.n * TileWidth \in Nat
  <2> DEFINE m == size - 1
  <2>1. m \in Nat /\ m + 1 = size /\ final = TileForIndex(0, m)
    BY <1>1
  <2> HIDE DEF m, final
  <2>2. /\ final \in Tile /\ final.n = m \div TileWidth
        /\ final.n * TileWidth + final.w = m + 1
        /\ final.n \in Nat /\ final.w \in 1 .. TileWidth /\ final.n * TileWidth \in Nat
    BY <1>1, <2>1, TileForIndexIs
  <2> QED BY <2>1, <2>2 DEF m
<1>4. j + 1 <= Count(size, l) /\ Count(size, l) <= Count(s, l)
      /\ Count(size, l) \in Nat /\ Count(s, l) \in Nat
  <2>1. j + 1 <= Count(size, l)
    <3> DEFINE b == Leaves[l]
               a == j + 1
    <3>1. b \in Nat \ {0} /\ a \in Nat /\ a * b <= size
      BY <1>1, LeavesType
    <3> HIDE DEF a, b
    <3>2. a <= size \div b
      BY <1>1, <3>1, DivideReach
    <3> QED BY <3>2 DEF a, b, Count
  <2> QED BY <1>1, <2>1, CountMono, CountType
<1>5. h = IF id.n = final.n THEN [id EXCEPT !.w = final.w] ELSE id
  BY DEF HashTile
<1> HIDE DEF id, final, w, s, h
<1>6. /\ h \in Tile /\ h.l = l /\ h.n = id.n /\ LevelOf(h) = l
      /\ h.w = IF id.n = final.n THEN final.w ELSE w
  BY <1>2, <1>3, <1>5 DEF Tile, LevelOf
<1> DEFINE read == TileRead(h)
<1>7. /\ read \in Tile /\ read.l = l /\ read.n = id.n /\ h.w <= read.w /\ LevelOf(read) = l
      /\ (read \in DOMAIN tiles => GetTile(h) = tiles[read] /\ DOMAIN tiles[read] = 1 .. read.w)
      /\ (h \in DOMAIN tiles => read \in DOMAIN tiles)
      /\ read.w \in Nat /\ h.w \in Nat
  <2>1. /\ read \in Tile /\ read.l = h.l /\ read.n = h.n /\ h.w <= read.w
        /\ LevelOf(read) = LevelOf(h)
        /\ (read \in DOMAIN tiles => GetTile(h) = tiles[read])
        /\ (h \in DOMAIN tiles => read \in DOMAIN tiles)
    BY <1>6, TileReadIs
  <2> QED BY <1>6, <2>1, TilesAssumption DEF IInv, TypeOK, Tile
<1> HIDE DEF read
<1>8. ASSUME w <= h.w, read \in DOMAIN tiles,
             \A k \in 1 .. w : tiles[read][k] = Hash(sth, l, id.n * TileWidth + k - 1)
      PROVE  ServesHash(size, l, j)
  BY <1>2, <1>6, <1>8, ServesIf DEF h, read, w
<1>9. ASSUME read \in DOMAIN tiles, Agrees(sth, read) \/ ~Leftover(h), w <= h.w
      PROVE  ServesHash(size, l, j)
  <2>1. ASSUME NEW k \in 1 .. w PROVE tiles[read][k] = Hash(sth, l, id.n * TileWidth + k - 1)
    <3>1. k \in 1 .. read.w /\ id.n * TileWidth + k <= Count(s, l)
      BY <1>2, <1>4, <1>7, <1>9
    <3>2. CASE Agrees(sth, read)
      BY <1>7, <3>1, <3>2 DEF Agrees, s
    <3>3. CASE ~Leftover(h)
      BY <1>6, <1>7, <1>9, <3>1, <3>3 DEF Leftover, LevelOf, s
    <3> QED BY <1>9, <3>2, <3>3
  <2> QED BY <1>8, <1>9, <2>1
<1>10. CASE l = 0 /\ id.n # final.n
  <2>1. LevelOf(h) = 0 /\ h.w = w /\ w <= h.w
    BY <1>2, <1>6, <1>10
  <2>2. Count(size, 0) = size /\ j <= size - 1
    BY <1>1, <1>4, <1>10, CountZero
  <2>3. id.n <= final.n
    BY <1>1, <1>2, <1>3, <2>2, DivideMono, TilesAssumption
  <2>4. (id.n + 1) * TileWidth <= s
    <3>1. (id.n + 1) * TileWidth <= final.n * TileWidth
      <4>1. id.n + 1 \in Nat /\ id.n + 1 <= final.n
        BY <1>2, <1>3, <1>10, <2>3
      <4> QED BY <1>3, <4>1, Products, TilesAssumption
    <3>2. (id.n + 1) * TileWidth \in Nat
      BY <1>2, Products, TilesAssumption
    <3> DEFINE a == (id.n + 1) * TileWidth
               b == final.n * TileWidth
    <3>3. a \in Nat /\ b \in Nat /\ a <= b /\ b + final.w = size /\ final.w \in Nat
      BY <1>3, <3>1, <3>2, TilesAssumption
    <3> HIDE DEF a, b
    <3>4. a <= s
      BY <1>1, <3>3
    <3> QED BY <3>4 DEF a
  <2>5. read = Full(h) /\ Has(sth, Full(h))
    BY <1>6, <2>1, <2>4, FullTileIs DEF read, s
  <2>6. read \in DOMAIN tiles /\ Agrees(sth, read)
    BY <2>5 DEF Has, Agrees, Content
  <2> QED BY <1>9, <2>1, <2>6
<1>11. CASE l = 0 /\ id.n = final.n
  <2>1. Count(size, 0) = size /\ j + 1 <= size
    BY <1>1, <1>4, <1>11, CountZero
  <2>2. h.w = final.w /\ w <= h.w
    BY <1>1, <1>2, <1>3, <1>6, <1>11, <2>1
  <2>3. h = NarrowTile(0, size)
    BY <1>1, <1>3, <1>6, <1>11, <2>2, NarrowUnique
  <2>4. h \in DOMAIN tiles
    <3> DEFINE last == [DataTile(size) EXCEPT !.l = 0]
    <3>1. size \in 1 .. MaxSize
      BY <1>1, TilesAssumption DEF IInv, TypeOK
    <3>2. DataTile(size) \in Tile /\ DataTile(size).n * TileWidth + DataTile(size).w = size
      BY <3>1, DataTileIs
    <3>3. last \in Tile /\ last.l = 0 /\ last.n * TileWidth + last.w = size
      BY <3>2, TilesAssumption DEF Tile
    <3>4. last \in DOMAIN tiles
      BY <1>1 DEF IInv, BucketFits
    <3> HIDE DEF last
    <3>5. last = NarrowTile(0, size)
      BY <1>1, <3>3, NarrowUnique
    <3> QED BY <2>3, <3>4, <3>5
  <2>5. ~Leftover(h)
    BY DEF h
  <2> QED BY <1>7, <1>9, <2>2, <2>4, <2>5
<1>12. CASE l # 0 /\ id.n # final.n
  <2>1. h = NarrowTile(l, j + 1) /\ l \in Level \ {0} /\ j + 1 \in 1 .. Count(s, l) /\ h.w = w
    BY <1>2, <1>4, <1>5, <1>6, <1>12
  <2>2. Has(sth, h)
    BY <2>1 DEF IInv, BucketFits, NarrowTile, s
  <2>3. read \in DOMAIN tiles
    BY <1>7, <2>2 DEF Has
  <2>4. read.l > 0
    BY <1>7, <2>1, TilesAssumption DEF Level
  <2>5. Agrees(sth, read)
    BY <2>3, <2>4, TilesAgree
  <2> QED BY <1>2, <1>9, <2>1, <2>3, <2>5
<1>13. ~(l # 0 /\ id.n = final.n)
  BY <1>1, <1>2, <1>3, AboveIsNotFinal
<1> QED BY <1>10, <1>11, <1>12, <1>13

-----------------------------------------------------------------------------
(* The entries. *)

\* What is read of a data tile has leaves at their index, and those of the tree
\* unless the tile is a leftover.
LEMMA EntriesRead ==
    ASSUME IInv, NEW id \in Tile, LevelOf(id) = 0, TileRead(id) \in DOMAIN tiles
    PROVE  /\ GetTile(id) = tiles[TileRead(id)] /\ GetTile(id) # <<>>
           /\ id.w <= TileRead(id).w /\ TileRead(id).w \in Nat
           /\ GetTile(id) = [k \in 1 .. TileRead(id).w |-> GetTile(id)[k]]
           /\ \A k \in 1 .. TileRead(id).w :
                 GetTile(id)[k][1].idx = id.n * TileWidth + k - 1
           /\ ~Leftover(id) =>
                \A k \in 1 .. TileRead(id).w :
                   id.n * TileWidth + k <= Len(sth) =>
                     GetTile(id)[k] = <<sth[id.n * TileWidth + k]>>
<1> DEFINE read == TileRead(id)
<1>1. /\ read \in Tile /\ read.n = id.n /\ LevelOf(read) = 0 /\ id.w <= read.w
      /\ GetTile(id) = tiles[read] /\ DOMAIN tiles[read] = 1 .. read.w
      /\ read.w \in Nat \ {0}
  BY TileReadIs, TilesAssumption DEF IInv, TypeOK, Tile
<1> HIDE DEF read
<1>2. GetTile(id) # <<>>
  <2>1. 1 \in DOMAIN tiles[read] /\ DOMAIN <<>> = {}
    BY <1>1
  <2> QED BY <1>1, <2>1
<1>3. /\ \A k \in 1 .. read.w : tiles[read][k][1].idx = id.n * TileWidth + k - 1
      /\ tiles[read] = [k \in 1 .. read.w |-> tiles[read][k]]
  <2>1. tiles[read] = [k \in 1 .. read.w |->
          <<[idx |-> id.n * TileWidth + k - 1, run |-> tiles[read][k][1].run]>>]
    BY <1>1 DEF IInv, LeftoversFit, read
  <2> DEFINE d == tiles[read]
  <2> HIDE DEF d
  <2>2. d = [k \in 1 .. read.w |->
          <<[idx |-> id.n * TileWidth + k - 1, run |-> d[k][1].run]>>]
    BY <2>1 DEF d
  <2>3. \A k \in 1 .. read.w : d[k] = <<[idx |-> id.n * TileWidth + k - 1, run |-> d[k][1].run]>>
    BY <2>2
  <2>4. ASSUME NEW k \in 1 .. read.w PROVE d[k][1].idx = id.n * TileWidth + k - 1
    <3> DEFINE i == id.n * TileWidth + k - 1
               leaf == [idx |-> i, run |-> d[k][1].run]
    <3>1. d[k] = <<leaf>>
      BY <2>3
    <3>2. leaf.idx = i
      OBVIOUS
    <3> HIDE DEF leaf
    <3> QED BY <3>1, <3>2
  <2>5. d = [k \in 1 .. read.w |-> d[k]]
    BY <2>2
  <2> QED BY <2>4, <2>5 DEF d
<1>4. ASSUME ~Leftover(id), NEW k \in 1 .. read.w, id.n * TileWidth + k <= Len(sth)
      PROVE  GetTile(id)[k] = <<sth[id.n * TileWidth + k]>>
  <2>1. Len(sth) \in Nat /\ Count(Len(sth), 0) = Len(sth)
    BY CountZero, TilesAssumption DEF IInv, TypeOK, SizesFit
  <2>2. GetTile(id)[k] = Hash(sth, 0, id.n * TileWidth + k - 1)
    BY <1>1, <1>4, <2>1 DEF Leftover, LevelOf
  <2> DEFINE j == id.n * TileWidth + k - 1
  <2>3. j \in Nat /\ j + 1 = id.n * TileWidth + k
    BY <1>1, ReadLevels
  <2> HIDE DEF j
  <2>4. Hash(sth, 0, j) = <<sth[j + 1]>>
    BY <2>3, HashZero
  <2> QED BY <2>2, <2>3, <2>4 DEF j
<1> QED BY <1>1, <1>2, <1>3, <1>4 DEF read

-----------------------------------------------------------------------------
(* The two recursions of get-entries: the tiles joined, and the entries kept. *)

JoinedOk(f, seqs) ==
    f = [i \in 1 .. Len(seqs) |-> IF i = 1 THEN seqs[i] ELSE f[i - 1] \o seqs[i]]

LEMMA JoinedIs ==
    ASSUME NEW seqs, NEW q \in Nat \ {0}, Len(seqs) = q, NEW g, JoinedOk(g, seqs)
    PROVE  FlattenSeq(seqs) = g[q]
<1>1. FlattenSeq(seqs) = (CHOOSE f : JoinedOk(f, seqs))[q]
  BY DEF FlattenSeq, JoinedOk
<1> DEFINE f == CHOOSE o : JoinedOk(o, seqs)
<1>2. JoinedOk(f, seqs)
  OBVIOUS
<1> HIDE DEF f
<1> DEFINE Bad == {i \in 1 .. q : f[i] # g[i]}
<1>3. /\ \A i \in 1 .. q : f[i] = IF i = 1 THEN seqs[i] ELSE f[i - 1] \o seqs[i]
      /\ \A i \in 1 .. q : g[i] = IF i = 1 THEN seqs[i] ELSE g[i - 1] \o seqs[i]
  BY <1>2 DEF JoinedOk
<1>4. Bad = {}
  <2> SUFFICES ASSUME Bad # {} PROVE FALSE
    OBVIOUS
  <2>1. PICK i \in Bad : \A o \in Bad : i <= o
    <3>1. Bad \subseteq Nat
      OBVIOUS
    <3> QED BY <3>1, Least
  <2>2. i \in 1 .. q /\ f[i] # g[i]
    BY <2>1
  <2>3. i # 1
    BY <1>3, <2>2
  <2>4. i - 1 \in 1 .. q /\ ~(i <= i - 1)
    BY <2>2, <2>3
  <2>5. f[i - 1] = g[i - 1]
    BY <2>1, <2>4
  <2> QED BY <1>3, <2>2, <2>3, <2>5
<1>5. q \in 1 .. q
  OBVIOUS
<1> QED BY <1>1, <1>4, <1>5 DEF f

LEMMA Concatenation ==
    ASSUME NEW s, NEW t, NEW m \in Nat, NEW n \in Nat, s = [k \in 1 .. m |-> s[k]], t = [k \in 1 .. n |-> t[k]]
    PROVE  s \o t = [k \in 1 .. m + n |-> IF k <= m THEN s[k] ELSE t[k - m]]
OBVIOUS

\* Tiles that follow each other are joined to one run of entries.
TilesOf(seqs, q, w, g) ==
    \A i \in 1 .. q : seqs[i] = [k \in 1 .. (IF i = q THEN w ELSE TileWidth) |->
                                 g[(i - 1) * TileWidth + k]]
LEMMA JoinedTiles ==
    ASSUME NEW seqs, NEW q \in Nat \ {0}, Len(seqs) = q, NEW w \in Nat, NEW g,
           TilesOf(seqs, q, w, g)
    PROVE  /\ Len(FlattenSeq(seqs)) = (q - 1) * TileWidth + w
           /\ \A k \in 1 .. (q - 1) * TileWidth + w : FlattenSeq(seqs)[k] = g[k]
<1> DEFINE wide(i) == IF i = q THEN w ELSE TileWidth
           upTo(i) == (i - 1) * TileWidth + wide(i)
           first(i) == [k \in 1 .. upTo(i) |-> g[k]]
           f == [i \in 1 .. q |-> first(i)]
<1>1. ASSUME NEW i \in 1 .. q
      PROVE  (i - 1) * TileWidth \in Nat /\ wide(i) \in Nat /\ upTo(i) \in Nat
  <2>1. (i - 1) * TileWidth \in Nat
    BY Products, TilesAssumption
  <2>2. wide(i) \in Nat
    BY TilesAssumption
  <2> DEFINE a == (i - 1) * TileWidth
  <2>3. upTo(i) = a + wide(i) /\ a \in Nat
    BY <2>1
  <2> HIDE DEF upTo, wide, a
  <2>4. upTo(i) \in Nat
    BY <2>2, <2>3
  <2> QED BY <2>1, <2>2, <2>4
<1>2. \A i \in 1 .. q : seqs[i] = [k \in 1 .. wide(i) |-> g[(i - 1) * TileWidth + k]]
  BY DEF TilesOf
<1> HIDE DEF wide
<1>3. seqs[1] = first(1)
  <2>1. 1 \in 1 .. q /\ (1 - 1) * TileWidth = 0
    BY TilesAssumption
  <2>2. wide(1) \in Nat /\ upTo(1) = wide(1)
    BY <1>1, <2>1
  <2>3. seqs[1] = [k \in 1 .. wide(1) |-> g[0 + k]]
    BY <1>2, <2>1
  <2> QED BY <2>2, <2>3
<1>4. ASSUME NEW i \in 2 .. q PROVE first(i - 1) \o seqs[i] = first(i)
  <2> DEFINE a == (i - 1) * TileWidth
             b == wide(i)
             s == seqs[i]
             p == [k \in 1 .. a |-> g[k]]
  <2>1. i \in 1 .. q /\ i - 1 \in 1 .. q /\ i - 1 # q
    OBVIOUS
  <2>2. upTo(i - 1) = a
    <3>1. wide(i - 1) = TileWidth
      BY <2>1 DEF wide
    <3>2. (i - 1 - 1) * TileWidth + TileWidth = (i - 1) * TileWidth
      BY TilesAssumption
    <3> QED BY <3>1, <3>2
  <2>3. a \in Nat /\ b \in Nat /\ upTo(i) = a + b
    BY <1>1, <2>1
  <2>4. s = [k \in 1 .. b |-> g[a + k]]
    BY <1>2, <2>1
  <2>5. first(i - 1) = p /\ first(i) = [k \in 1 .. a + b |-> g[k]]
    BY <2>2, <2>3
  <2> HIDE DEF first, a, b, s
  <2>6. p \o s = [k \in 1 .. a + b |-> g[k]]
    <3>1. p = [k \in 1 .. a |-> p[k]] /\ s = [k \in 1 .. b |-> s[k]]
      BY <2>4
    <3>2. \A k \in 1 .. a : p[k] = g[k]
      OBVIOUS
    <3> HIDE DEF p
    <3>3. p \o s = [k \in 1 .. a + b |-> IF k <= a THEN p[k] ELSE s[k - a]]
      BY <2>3, <3>1, Concatenation
    <3>4. ASSUME NEW k \in 1 .. a + b PROVE (IF k <= a THEN p[k] ELSE s[k - a]) = g[k]
      <4>1. CASE k <= a
        BY <2>3, <3>2, <4>1
      <4>2. CASE ~(k <= a)
        <5>1. k - a \in 1 .. b /\ a + (k - a) = k
          BY <2>3, <4>2
        <5> QED BY <2>4, <4>2, <5>1
      <4> QED BY <4>1, <4>2
    <3> QED BY <3>3, <3>4
  <2> QED BY <2>5, <2>6 DEF s
<1>5. JoinedOk(f, seqs)
  <2> HIDE DEF first
  <2>1. ASSUME NEW i \in 1 .. q PROVE f[i] = IF i = 1 THEN seqs[i] ELSE f[i - 1] \o seqs[i]
    <3>1. CASE i = 1
      BY <1>3, <3>1
    <3>2. CASE i # 1
      <4>1. i \in 2 .. q /\ i - 1 \in 1 .. q
        BY <3>2
      <4> QED BY <1>4, <3>2, <4>1
    <3> QED BY <3>1, <3>2
  <2>2. f = [i \in 1 .. q |-> f[i]]
    OBVIOUS
  <2> HIDE DEF f
  <2> QED BY <2>1, <2>2 DEF JoinedOk
<1>6. FlattenSeq(seqs) = f[q]
  <2> HIDE DEF f
  <2> QED BY <1>5, JoinedIs
<1>7. f[q] = [k \in 1 .. upTo(q) |-> g[k]] /\ upTo(q) \in Nat
  <2>1. upTo(q) \in Nat /\ q \in 1 .. q
    BY <1>1
  <2> HIDE DEF upTo
  <2> QED BY <2>1
<1>8. upTo(q) = (q - 1) * TileWidth + w
  BY DEF wide
<1> HIDE DEF f, upTo
<1>9. Len(f[q]) = upTo(q)
  BY <1>7
<1> QED BY <1>6, <1>7, <1>8, <1>9

\* The loop that keeps the entries of a range.
InRange(e, start, last) == e[1].idx >= start /\ (last = -1 \/ e[1].idx <= last)
KeptOk(f, data, start, last) ==
    f = [k \in 0 .. Len(data) |->
           IF k = 0 THEN <<>>
           ELSE IF data[k][1].idx >= start /\ (last = -1 \/ data[k][1].idx <= last)
           THEN Append(f[k - 1], data[k]) ELSE f[k - 1]]
Kept(data, start, last) == CHOOSE f : KeptOk(f, data, start, last)

LEMMA KeptIs ==
    ASSUME NEW data, Len(data) \in Nat, NEW start, NEW last, NEW g, KeptOk(g, data, start, last)
    PROVE  Kept(data, start, last)[Len(data)] = g[Len(data)]
<1> DEFINE f == Kept(data, start, last)
           m == Len(data)
           In(k) == InRange(data[k], start, last)
           next(h, k) == IF k = 0 THEN <<>> ELSE IF In(k) THEN Append(h[k - 1], data[k]) ELSE h[k - 1]
           Bad == {k \in 0 .. m : f[k] # g[k]}
<1>1. KeptOk(f, data, start, last)
  BY DEF Kept
<1>2. f = [k \in 0 .. m |-> next(f, k)] /\ g = [k \in 0 .. m |-> next(g, k)]
  BY <1>1 DEF KeptOk, InRange
<1> HIDE DEF f, In
<1>3. (\A k \in 0 .. m : f[k] = next(f, k)) /\ (\A k \in 0 .. m : g[k] = next(g, k))
  <2> HIDE DEF next
  <2> QED BY <1>2
<1>4. Bad = {}
  <2> SUFFICES ASSUME Bad # {} PROVE FALSE
    OBVIOUS
  <2>1. PICK k \in Bad : \A o \in Bad : k <= o
    <3>1. Bad \subseteq Nat
      OBVIOUS
    <3> QED BY <3>1, Least
  <2>2. k \in 0 .. m /\ f[k] # g[k]
    BY <2>1
  <2>3. k # 0
    BY <1>3, <2>2
  <2>4. k - 1 \in 0 .. m /\ ~(k <= k - 1)
    BY <2>2, <2>3
  <2>5. f[k - 1] = g[k - 1]
    BY <2>1, <2>4
  <2> QED BY <1>3, <2>2, <2>3, <2>5
<1>5. m \in 0 .. m
  OBVIOUS
<1> QED BY <1>4, <1>5 DEF f

\* Of entries that are none in the range, none is kept.
LEMMA KeptNone ==
    ASSUME NEW data, NEW m \in Nat, Len(data) = m, NEW start, NEW last,
           \A k \in 1 .. m : ~InRange(data[k], start, last)
    PROVE  Kept(data, start, last)[m] = <<>>
<1> DEFINE g == [k \in 0 .. m |-> <<>>]
<1>1. ASSUME NEW k \in 0 .. m
      PROVE  g[k] = IF k = 0 THEN <<>>
                    ELSE IF data[k][1].idx >= start /\ (last = -1 \/ data[k][1].idx <= last)
                    THEN Append(g[k - 1], data[k]) ELSE g[k - 1]
  <2>1. CASE k = 0
    BY <2>1
  <2>2. CASE k # 0
    <3>1. k \in 1 .. m /\ k - 1 \in 0 .. m
      BY <2>2
    <3> QED BY <2>2, <3>1 DEF InRange
  <2> QED BY <2>1, <2>2
<1>2. g = [k \in 0 .. m |-> g[k]] /\ m \in 0 .. m /\ g[m] = <<>>
  OBVIOUS
<1> HIDE DEF g
<1>3. KeptOk(g, data, start, last)
  BY <1>1, <1>2 DEF KeptOk
<1> QED BY <1>2, <1>3, KeptIs

\* Of entries that follow each other, the range is kept.
Indexed(data, m, base) == \A k \in 1 .. m : data[k][1].idx = base + k - 1
RangeOf(data, base, start, last) == [i \in 1 .. last - start + 1 |-> data[start - base + i]]
LEMMA KeptRange ==
    ASSUME NEW data, NEW m \in Nat, Len(data) = m, NEW base \in Nat, Indexed(data, m, base),
           NEW start \in Nat, NEW last \in Nat,
           base <= start, start <= last, last <= base + m - 1
    PROVE  Kept(data, start, last)[m] = RangeOf(data, base, start, last)
<1> DEFINE lo == start - base
           n == last - start + 1
           size(k) == IF k <= lo THEN 0 ELSE IF k <= lo + n THEN k - lo ELSE n
           part(w) == [i \in 1 .. w |-> data[lo + i]]
           g == [k \in 0 .. m |-> part(size(k))]
<1>1. lo \in Nat /\ n \in Nat /\ n > 0 /\ lo + n <= m
  OBVIOUS
<1>2. ASSUME NEW k \in 1 .. m
      PROVE  (data[k][1].idx >= start /\ (last = -1 \/ data[k][1].idx <= last))
               <=> (lo < k /\ k <= lo + n)
  <2> DEFINE x == data[k][1].idx
  <2>1. x = base + k - 1
    BY DEF Indexed
  <2> HIDE DEF x
  <2>2. (x >= start /\ (last = -1 \/ x <= last)) <=> (lo < k /\ k <= lo + n)
    BY <2>1
  <2> QED BY <2>2 DEF x
<1> HIDE DEF lo, n
<1>3. \A k \in 0 .. m : size(k) \in Nat
  BY <1>1
<1>4. ASSUME NEW k \in 1 .. m
      PROVE  part(size(k)) = IF lo < k /\ k <= lo + n THEN Append(part(size(k - 1)), data[k])
                             ELSE part(size(k - 1))
  <2>1. CASE lo < k /\ k <= lo + n
    <3> DEFINE w == k - 1 - lo
               p == part(w)
    <3>1. w \in Nat /\ size(k - 1) = w /\ size(k) = w + 1 /\ lo + (w + 1) = k
      BY <1>1, <2>1
    <3> HIDE DEF size, w
    <3>2. p = [i \in 1 .. w |-> p[i]]
      OBVIOUS
    <3>3. Append(p, data[k]) = part(w + 1)
      <4>1. Append(p, data[k]) = [i \in 1 .. w + 1 |-> IF i <= w THEN p[i] ELSE data[k]]
        <5> HIDE DEF p
        <5> QED BY <3>1, <3>2
      <4>2. \A i \in 1 .. w + 1 : (IF i <= w THEN p[i] ELSE data[k]) = data[lo + i]
        <5> TAKE i \in 1 .. w + 1
        <5>1. CASE i <= w
          BY <3>1, <5>1
        <5>2. CASE ~(i <= w)
          <6>1. i = w + 1
            BY <3>1, <5>2
          <6> QED BY <3>1, <5>2, <6>1
        <5> QED BY <5>1, <5>2
      <4> QED BY <4>1, <4>2
    <3> HIDE DEF part, p
    <3>4. part(size(k - 1)) = p
      BY <3>1 DEF p
    <3> QED BY <2>1, <3>1, <3>3, <3>4
  <2>2. CASE ~(lo < k /\ k <= lo + n)
    <3>1. size(k) = size(k - 1)
      BY <1>1, <2>2
    <3> HIDE DEF size, part
    <3> QED BY <2>2, <3>1
  <2> QED BY <2>1, <2>2
<1>5. part(size(0)) = <<>>
  <2>1. size(0) = 0
    BY <1>1
  <2>2. part(0) = <<>>
    OBVIOUS
  <2> HIDE DEF part, size
  <2> QED BY <2>1, <2>2
<1>6. size(m) = n
  BY <1>1
<1> HIDE DEF part, size
<1>7. KeptOk(g, data, start, last)
  <2>1. ASSUME NEW k \in 0 .. m
        PROVE  g[k] = IF k = 0 THEN <<>>
                      ELSE IF data[k][1].idx >= start /\ (last = -1 \/ data[k][1].idx <= last)
                      THEN Append(g[k - 1], data[k]) ELSE g[k - 1]
    <3>1. CASE k = 0
      BY <1>5, <3>1
    <3>2. CASE k # 0
      <4>1. k \in 1 .. m /\ k - 1 \in 0 .. m
        BY <3>2
      <4>2. g[k] = part(size(k)) /\ g[k - 1] = part(size(k - 1))
        BY <4>1
      <4> HIDE DEF g
      <4> QED BY <1>2, <1>4, <3>2, <4>1, <4>2
    <3> QED BY <3>1, <3>2
  <2>2. g = [k \in 0 .. m |-> g[k]]
    OBVIOUS
  <2> HIDE DEF g
  <2> QED BY <2>1, <2>2 DEF KeptOk
<1>8. g[m] = part(n)
  <2>1. m \in 0 .. m
    OBVIOUS
  <2> QED BY <1>6, <2>1
<1> HIDE DEF g
<1>9. Kept(data, start, last)[m] = g[m]
  BY <1>7, KeptIs
<1> QED BY <1>8, <1>9 DEF part, lo, n, RangeOf

-----------------------------------------------------------------------------
(* The range of get-entries. *)

\* The last tile of a range inside the tree is there and reaches its end.
LEMMA LastTileIs ==
    ASSUME IInv, NEW end \in Nat, end < Len(sth)
    PROVE  /\ LastTile(end) \in Tile /\ LevelOf(LastTile(end)) = 0
           /\ LastTile(end).n = end \div TileWidth
           /\ (end % TileWidth) + 1 <= LastTile(end).w
           /\ TileRead(LastTile(end)) \in DOMAIN tiles
<1> DEFINE s == Len(sth)
           m == s - 1
           final == TileForIndex(0, m)
           id == TileForIndex(0, end)
           last == LastTile(end)
<1>1. s \in 1 .. MaxSize /\ s \in Nat /\ m \in Nat /\ m + 1 = s /\ 0 \in Level /\ end <= m
      /\ end + 1 <= s /\ s \in heads
  BY TilesAssumption DEF IInv, TypeOK, SizesFit, Level
<1>2. /\ id \in Tile /\ id.n = end \div TileWidth /\ id.w = (end % TileWidth) + 1
      /\ id.n * TileWidth + id.w = end + 1
      /\ id.n \in Nat /\ id.w \in 1 .. TileWidth /\ id.n * TileWidth \in Nat
  BY <1>1, TileForIndexIs
<1> HIDE DEF m
<1>3. /\ final \in Tile /\ final.n = m \div TileWidth
      /\ final.n * TileWidth + final.w = m + 1
      /\ final.n \in Nat /\ final.w \in 1 .. TileWidth /\ final.n * TileWidth \in Nat
  BY <1>1, TileForIndexIs
<1>4. last = [id EXCEPT !.l = -1, !.w = IF id.n = final.n THEN final.w ELSE id.w]
  BY DEF LastTile, m
<1> HIDE DEF id, final, last, s
<1>5. /\ last \in Tile /\ last.l = -1 /\ last.n = id.n /\ LevelOf(last) = 0
      /\ last.w = IF id.n = final.n THEN final.w ELSE id.w
  <2>1. -1 \in -1 .. TopLevel
    BY TilesAssumption
  <2> QED BY <1>2, <1>3, <1>4, <2>1 DEF Tile, LevelOf
<1>6. CASE id.n = final.n
  <2>1. last.w = final.w /\ last.n * TileWidth + last.w = s /\ id.w <= last.w
    BY <1>1, <1>2, <1>3, <1>5, <1>6
  <2> DEFINE data == DataTile(s)
             low(o) == [o EXCEPT !.l = 0]
  <2>2. data \in Tile /\ data.l = -1 /\ data.n * TileWidth + data.w = s /\ data \in AllTiles(0, s)
    BY <1>1, DataTileIs
  <2> HIDE DEF data
  <2>3. ASSUME NEW o \in Tile, o.n * TileWidth + o.w = s
        PROVE  low(o) = NarrowTile(0, s) /\ low(o).n = o.n /\ low(o).w = o.w
    <3>1. low(o) \in Tile /\ low(o).l = 0 /\ low(o).n = o.n /\ low(o).w = o.w
      <4>1. 0 \in -1 .. TopLevel
        BY TilesAssumption
      <4> QED BY <2>3, <4>1 DEF Tile
    <3> HIDE DEF low
    <3> QED BY <1>1, <2>3, <3>1, NarrowUnique
  <2> HIDE DEF low
  <2>4. last.n = data.n /\ last.w = data.w
    <3>1. low(last) = low(data)
      BY <1>5, <2>1, <2>2, <2>3
    <3>2. last.n = low(last).n /\ last.w = low(last).w
      BY <1>5, <2>1, <2>3
    <3>3. data.n = low(data).n /\ data.w = low(data).w
      BY <2>2, <2>3
    <3> QED BY <3>1, <3>2, <3>3
  <2>5. last = data
    BY <1>5, <2>2, <2>4, TileIdIs
  <2>6. last \in DOMAIN tiles
    BY <2>2, <2>5 DEF IInv, BucketFits, Has, s
  <2>7. TileRead(last) \in DOMAIN tiles
    BY <1>5, <2>6, TileReadIs
  <2> QED BY <1>2, <1>5, <2>1, <2>7 DEF last
<1>7. CASE id.n # final.n
  <2>1. id.n + 1 <= final.n /\ id.n + 1 \in Nat
    <3>1. id.n <= final.n
      BY <1>1, <1>2, <1>3, DivideMono, TilesAssumption
    <3> QED BY <1>2, <1>3, <1>7, <3>1
  <2>2. (id.n + 1) * TileWidth <= final.n * TileWidth /\ (id.n + 1) * TileWidth \in Nat
    BY <1>3, <2>1, Products, TilesAssumption
  <2>3. (last.n + 1) * TileWidth <= s
    <3> DEFINE a == (id.n + 1) * TileWidth
               b == final.n * TileWidth
    <3>1. a \in Nat /\ b \in Nat /\ a <= b /\ b + final.w = s /\ final.w \in Nat
      BY <1>1, <1>3, <2>2, TilesAssumption
    <3> HIDE DEF a, b
    <3>2. a <= s
      BY <1>1, <3>1
    <3> QED BY <1>5, <3>2 DEF a
  <2>4. TileRead(last) = Full(last) /\ Has(sth, Full(last))
    BY <1>5, <2>3, FullTileIs DEF s
  <2>5. last.w = id.w
    BY <1>5, <1>7
  <2>6. id.w <= last.w
    BY <1>2, <2>5, TilesAssumption
  <2> QED BY <1>2, <1>5, <2>4, <2>6 DEF Has, last
<1> QED BY <1>6, <1>7

LEMMA EntryTilesIs ==
    ASSUME NEW start \in Nat, NEW end \in Nat, NEW last, last = LastTile(end),
           last.n = end \div TileWidth
    PROVE  LET a == start \div TileWidth
               q == (end \div TileWidth) - a + 1
           IN  /\ q >= 1 => EntryTiles(start, end) =
                     [i \in 1 .. q |-> IF i = q THEN last ELSE TileId(-1, a + i - 1, TileWidth)]
               /\ q < 1 => EntryTiles(start, end) = <<TileId(-1, a, TileWidth), last>>
<1> DEFINE a == start \div TileWidth
           b == end \div TileWidth
           q == b - a + 1
           first == TileId(-1, a, TileWidth)
           between == [i \in 1 .. b - a - 1 |-> TileId(-1, a + i, TileWidth)]
           all == [i \in 1 .. q |-> IF i = q THEN last ELSE TileId(-1, a + i - 1, TileWidth)]
<1>1. a \in Nat /\ b \in Nat
  BY Division, TilesAssumption
<1>2. EntryTiles(start, end) = IF a = b THEN <<last>> ELSE <<first>> \o between \o <<last>>
  <2>1. first.n = a /\ last.n = b
    BY TileIdFields
  <2>2. EntryTiles(start, end) =
          IF first.n = last.n THEN <<last>>
          ELSE <<first>>
                 \o [i \in 1 .. last.n - first.n - 1 |-> TileId(-1, first.n + i, TileWidth)]
                 \o <<last>>
    BY DEF EntryTiles
  <2> HIDE DEF a, b, first
  <2> QED BY <2>1, <2>2
<1> HIDE DEF a, b
<1>3. CASE a = b
  <2>1. q = 1 /\ 1 .. 1 = {1}
    BY <1>1, <1>3
  <2>2. all = <<last>>
    BY <2>1
  <2> QED BY <1>2, <1>3, <2>1, <2>2 DEF a, b
<1>4. CASE a < b
  <2> DEFINE n == b - a - 1
  <2>1. n \in Nat /\ q = n + 2
    BY <1>1, <1>4
  <2>2. <<first>> = [i \in 1 .. 1 |-> first] /\ <<last>> = [i \in 1 .. 1 |-> last]
    OBVIOUS
  <2>3. between = [i \in 1 .. n |-> between[i]] /\ \A i \in 1 .. n : between[i] = TileId(-1, a + i, TileWidth)
    OBVIOUS
  <2> HIDE DEF n, between, first, q
  <2>4. <<first>> \o between = [i \in 1 .. 1 + n |-> IF i <= 1 THEN first ELSE between[i - 1]]
    BY <2>1, <2>2, <2>3
  <2>5. (<<first>> \o between) \o <<last>> =
           [i \in 1 .. n + 2 |-> IF i <= n + 1 THEN IF i <= 1 THEN first ELSE between[i - 1] ELSE last]
    BY <2>1, <2>2, <2>4
  <2>6. ASSUME NEW i \in 1 .. n + 2
        PROVE  (IF i <= n + 1 THEN IF i <= 1 THEN first ELSE between[i - 1] ELSE last)
                 = IF i = n + 2 THEN last ELSE TileId(-1, a + i - 1, TileWidth)
    <3>1. CASE i = n + 2
      BY <2>1, <3>1
    <3>2. CASE i # n + 2 /\ i = 1
      <4>1. a + i - 1 = a
        BY <1>1, <3>2
      <4> QED BY <2>1, <3>2, <4>1 DEF first
    <3>3. CASE i # n + 2 /\ i # 1
      <4>1. i - 1 \in 1 .. n /\ a + (i - 1) = a + i - 1 /\ i <= n + 1 /\ ~(i <= 1)
        BY <1>1, <2>1, <3>3
      <4> QED BY <2>3, <3>3, <4>1
    <3> QED BY <3>1, <3>2, <3>3
  <2>7. (<<first>> \o between) \o <<last>> = all
    BY <2>1, <2>5, <2>6
  <2>8. a # b /\ ~(q < 1)
    BY <1>1, <1>4, <2>1
  <2> QED BY <1>2, <2>7, <2>8 DEF a, b, q
<1>5. CASE b < a
  <2>1. b - a - 1 < 1 /\ q < 1 /\ a # b
    BY <1>1, <1>5
  <2>2. between = <<>>
    <3>1. 1 .. b - a - 1 = {}
      BY <1>1, <2>1
    <3> QED BY <3>1
  <2> HIDE DEF between, first
  <2>3. <<first>> \o between = <<first>>
    BY <2>2
  <2>4. <<first>> \o <<last>> = <<first, last>>
    <3>1. \A e : <<e>> = [i \in 1 .. 1 |-> <<e>>[i]]
      OBVIOUS
    <3>2. <<first>> \o <<last>> =
            [i \in 1 .. 1 + 1 |-> IF i <= 1 THEN <<first>>[i] ELSE <<last>>[i - 1]]
      BY <3>1, Concatenation
    <3>3. <<first, last>> = [i \in 1 .. 1 + 1 |-> IF i <= 1 THEN first ELSE last]
      OBVIOUS
    <3> DEFINE l(i) == IF i <= 1 THEN <<first>>[i] ELSE <<last>>[i - 1]
               r(i) == IF i <= 1 THEN first ELSE last
    <3>4. \A i \in 1 .. 1 + 1 : l(i) = r(i)
      OBVIOUS
    <3>5. <<first>> \o <<last>> = [i \in 1 .. 1 + 1 |-> l(i)] /\ <<first, last>> = [i \in 1 .. 1 + 1 |-> r(i)]
      BY <3>2, <3>3
    <3> HIDE DEF l, r
    <3>6. [i \in 1 .. 1 + 1 |-> l(i)] = [i \in 1 .. 1 + 1 |-> r(i)]
      BY <3>4
    <3> QED BY <3>5, <3>6
  <2>5. (<<first>> \o between) \o <<last>> = <<first, last>>
    BY <2>3, <2>4
  <2>6. EntryTiles(start, end) = <<first, last>> /\ ~(q >= 1)
    BY <1>1, <1>2, <2>1, <2>5
  <2> HIDE DEF q
  <2> QED BY <2>6 DEF a, b, first, q
<1> QED BY <1>1, <1>3, <1>4, <1>5

\* The data of a range, and what can be wrong with its tiles.
DataOf(ids) == FlattenSeq([i \in DOMAIN ids |-> GetTile(ids[i])])
NoLeftovers(ids) == \A i \in DOMAIN ids : ~Leftover(ids[i])
AllThere(ids) == \A i \in DOMAIN ids : GetTile(ids[i]) # <<>>

LEMMA GetEntriesIs ==
    ASSUME NEW start, NEW end, NEW last, last = EndOf(start, end),
           NEW ids, ids = EntryTiles(start, last), NEW data, data = DataOf(ids)
    PROVE  GetEntries(start, end) =
             IF AllThere(ids) THEN Kept(data, start, last)[Len(data)] ELSE <<>>
BY DEF GetEntries, Kept, KeptOk, DataOf, AllThere

\* Inside the tree, without leftovers, every tile of the range is there and its
\* entries are kept.
LEMMA RangeInside ==
    ASSUME IInv, NEW start \in Nat, NEW end \in Nat, start <= end, end < Len(sth),
           NEW ids, ids = EntryTiles(start, end),
           NoLeftovers(ids), NEW data, data = DataOf(ids)
    PROVE  /\ AllThere(ids)
           /\ Kept(data, start, end)[Len(data)]
                = [i \in 1 .. end - start + 1 |-> <<sth[start + i]>>]
<1> DEFINE a == start \div TileWidth
           b == end \div TileWidth
           q == b - a + 1
           base == a * TileWidth
           low == (q - 1) * TileWidth
           last == LastTile(end)
           w == TileRead(last).w
           s == Len(sth)
           m == low + w
           seqs == [i \in DOMAIN ids |-> GetTile(ids[i])]
<1>0. s \in Nat
  BY DEF IInv, TypeOK
<1>1. /\ a \in Nat /\ b \in Nat /\ a <= b
      /\ end = b * TileWidth + (end % TileWidth) /\ end % TileWidth \in Nat
      /\ start = base + (start % TileWidth) /\ start % TileWidth \in Nat
  <2>1. TileWidth \in Nat \ {0}
    BY TilesAssumption
  <2>2. a <= b
    BY <2>1, DivideMono
  <2>3. /\ a \in Nat /\ start % TileWidth \in 0 .. TileWidth - 1
        /\ start = base + (start % TileWidth)
    BY <2>1, Division
  <2>4. /\ b \in Nat /\ end % TileWidth \in 0 .. TileWidth - 1
        /\ end = b * TileWidth + (end % TileWidth)
    BY <2>1, Division
  <2> HIDE DEF a, b, base
  <2> QED BY <2>1, <2>2, <2>3, <2>4
<1>2. /\ last \in Tile /\ LevelOf(last) = 0 /\ last.n = b
      /\ (end % TileWidth) + 1 <= last.w /\ TileRead(last) \in DOMAIN tiles
  BY LastTileIs
<1>3. q >= 1 => ids = [i \in 1 .. q |-> IF i = q THEN last ELSE TileId(-1, a + i - 1, TileWidth)]
  <2> HIDE DEF last
  <2> QED BY <1>2, EntryTilesIs DEF last
<1>4. /\ q \in Nat \ {0} /\ base \in Nat /\ low \in Nat /\ base + low = b * TileWidth
      /\ b * TileWidth \in Nat /\ a + (q - 1) = b
  <2> HIDE DEF a, b
  <2>1. q \in Nat \ {0} /\ a + (q - 1) = b /\ q - 1 \in Nat
    BY <1>1
  <2> HIDE DEF q
  <2>2. (a + (q - 1)) * TileWidth = a * TileWidth + (q - 1) * TileWidth
    BY <1>1, <2>1, Products, TilesAssumption
  <2>3. base \in Nat /\ low \in Nat /\ b * TileWidth \in Nat
    BY <1>1, <2>1, Products, TilesAssumption
  <2> QED BY <2>1, <2>2, <2>3
<1>5. ids = [i \in 1 .. q |-> IF i = q THEN last ELSE TileId(-1, a + i - 1, TileWidth)]
  <2> HIDE DEF q
  <2> QED BY <1>3, <1>4
<1> HIDE DEF a, b, q, last, s
<1>6. ASSUME NEW i \in 1 .. q, i # q
      PROVE  /\ ids[i] \in Tile /\ LevelOf(ids[i]) = 0 /\ ids[i].n = a + i - 1
             /\ TileRead(ids[i]) \in DOMAIN tiles /\ TileRead(ids[i]).w = TileWidth
             /\ ids[i].n * TileWidth = base + (i - 1) * TileWidth
             /\ base + (i - 1) * TileWidth + TileWidth <= s
             /\ (i - 1) * TileWidth + TileWidth <= low
             /\ (i - 1) * TileWidth \in Nat
  <2> DEFINE n == a + i - 1
             id == TileId(-1, n, TileWidth)
             x == (i - 1) * TileWidth
  <2>1. ids[i] = id
    BY <1>5, <1>6
  <2>2. /\ i - 1 \in Nat /\ i \in Nat /\ i <= q - 1 /\ q - 1 \in Nat /\ n = a + (i - 1)
        /\ n \in Nat /\ n + 1 <= b
    BY <1>1, <1>4, <1>6
  <2> HIDE DEF n
  <2>3. /\ x \in Nat /\ x + TileWidth = i * TileWidth /\ i * TileWidth <= low
        /\ n * TileWidth = base + x /\ (n + 1) * TileWidth = base + x + TileWidth
    <3>1. x \in Nat /\ i * TileWidth \in Nat /\ n * TileWidth \in Nat
      BY <2>2, Products, TilesAssumption
    <3>2. i * TileWidth <= low
      BY <2>2, Products, TilesAssumption
    <3>3. ((i - 1) + 1) * TileWidth = (i - 1) * TileWidth + 1 * TileWidth
      BY <2>2, Products, TilesAssumption
    <3>4. (a + (i - 1)) * TileWidth = a * TileWidth + (i - 1) * TileWidth
      BY <1>1, <2>2, Products, TilesAssumption
    <3>5. (n + 1) * TileWidth = n * TileWidth + 1 * TileWidth
      BY <2>2, Products, TilesAssumption
    <3>6. 1 * TileWidth = TileWidth /\ (i - 1) + 1 = i
      BY <2>2, TilesAssumption
    <3>7. x + TileWidth = i * TileWidth
      BY <3>3, <3>6
    <3>8. n * TileWidth = base + x
      BY <2>2, <3>4
    <3> QED BY <3>1, <3>2, <3>5, <3>6, <3>7, <3>8
  <2> HIDE DEF x
  <2>4. base + x + TileWidth <= s /\ x + TileWidth <= low
    <3> DEFINE y == b * TileWidth
    <3>1. base + low = y /\ y \in Nat /\ y <= end /\ end < s
      BY <1>1, <1>4 DEF s
    <3>2. base \in Nat /\ low \in Nat
      BY <1>4
    <3>3. x \in Nat /\ x + TileWidth <= low
      <4> DEFINE z == i * TileWidth
      <4>1. x \in Nat /\ x + TileWidth = z /\ z <= low
        BY <2>3
      <4> HIDE DEF z, low
      <4> QED BY <4>1
    <3> HIDE DEF y, base, low
    <3> QED BY <1>0, <3>1, <3>2, <3>3, TilesAssumption
  <2>5. id \in Tile /\ id.n = n /\ id.w = TileWidth /\ LevelOf(id) = 0
    <3>1. -1 \in -1 .. TopLevel /\ TileWidth \in 1 .. TileWidth
      BY TilesAssumption
    <3>2. id.l = -1 /\ id.n = n /\ id.w = TileWidth
      BY TileIdFields
    <3> QED BY <2>2, <3>1, <3>2 DEF Tile, TileId, LevelOf
  <2> HIDE DEF id
  <2>6. TileRead(id) = Full(id) /\ Has(sth, Full(id))
    BY <2>3, <2>4, <2>5, FullTileIs DEF s
  <2>7. TileRead(id) \in DOMAIN tiles /\ TileRead(id).w = TileWidth
    BY <2>5, <2>6 DEF Has, Full, Tile
  <2> QED BY <2>1, <2>3, <2>4, <2>5, <2>7 DEF n, x
<1>7. ids[q] = last /\ q \in DOMAIN ids /\ q \in 1 .. q /\ DOMAIN ids = 1 .. q
  <2>1. q \in 1 .. q
    BY <1>4
  <2> QED BY <1>5, <2>1
<1>8. AllThere(ids)
  BY <1>2, <1>6, <1>7, EntriesRead DEF AllThere
<1> DEFINE g == [k \in Nat |-> IF k <= low THEN <<sth[base + k]>> ELSE GetTile(last)[k - low]]
<1>9. /\ GetTile(last) = [k \in 1 .. w |-> GetTile(last)[k]] /\ w \in Nat
      /\ (end % TileWidth) + 1 <= w
      /\ \A k \in 1 .. w : GetTile(last)[k][1].idx = b * TileWidth + k - 1
      /\ \A k \in 1 .. w : b * TileWidth + k <= s => GetTile(last)[k] = <<sth[b * TileWidth + k]>>
  <2>1. ~Leftover(last)
    BY <1>7 DEF NoLeftovers
  <2>2. /\ GetTile(last) = [k \in 1 .. w |-> GetTile(last)[k]] /\ w \in Nat /\ last.w <= w
        /\ \A k \in 1 .. w : GetTile(last)[k][1].idx = last.n * TileWidth + k - 1
        /\ \A k \in 1 .. w : last.n * TileWidth + k <= s =>
             GetTile(last)[k] = <<sth[last.n * TileWidth + k]>>
    BY <1>2, <2>1, EntriesRead DEF s
  <2>3. last.w \in Nat
    BY <1>2, TilesAssumption DEF Tile
  <2> HIDE DEF w
  <2> QED BY <1>1, <1>2, <2>2, <2>3
<1> HIDE DEF w, base, low
<1>10. ASSUME NEW i \in 1 .. q
       PROVE  seqs[i] = [k \in 1 .. (IF i = q THEN w ELSE TileWidth) |-> g[(i - 1) * TileWidth + k]]
  <2>1. CASE i = q
    <3>1. seqs[i] = [k \in 1 .. w |-> GetTile(last)[k]]
      BY <1>7, <1>9, <2>1
    <3>2. \A k \in 1 .. w : g[low + k] = GetTile(last)[k]
      <4> TAKE k \in 1 .. w
      <4>1. low + k \in Nat /\ ~(low + k <= low) /\ (low + k) - low = k
        <5>1. low \in Nat /\ w \in Nat
          BY <1>4, <1>9
        <5> QED BY <5>1
      <4> QED BY <4>1
    <3> HIDE DEF g, seqs
    <3>3. (i - 1) * TileWidth = low
      BY <2>1 DEF low
    <3> QED BY <2>1, <3>1, <3>2, <3>3
  <2>2. CASE i # q
    <3> DEFINE id == ids[i]
               x == (i - 1) * TileWidth
    <3>1. /\ id \in Tile /\ LevelOf(id) = 0 /\ TileRead(id) \in DOMAIN tiles
          /\ TileRead(id).w = TileWidth /\ id.n * TileWidth = base + x /\ x \in Nat
          /\ base + x + TileWidth <= s /\ x + TileWidth <= low /\ ~Leftover(id)
          /\ seqs[i] = GetTile(id)
      BY <1>6, <1>7, <2>2 DEF NoLeftovers
    <3> HIDE DEF id, x
    <3>2. /\ GetTile(id) = [k \in 1 .. TileWidth |-> GetTile(id)[k]]
          /\ \A k \in 1 .. TileWidth : id.n * TileWidth + k <= s =>
               GetTile(id)[k] = <<sth[id.n * TileWidth + k]>>
      BY <3>1, EntriesRead DEF s
    <3>3. ASSUME NEW k \in 1 .. TileWidth PROVE GetTile(id)[k] = g[x + k]
      <4>1. /\ x + k \in Nat /\ x + k <= low /\ (base + x) + k <= s
            /\ (base + x) + k = base + (x + k)
        <5>1. base \in Nat /\ low \in Nat /\ k \in Nat /\ k <= TileWidth /\ TileWidth \in Nat
          BY <1>4, TilesAssumption
        <5> QED BY <1>0, <3>1, <5>1
      <4>2. g[x + k] = <<sth[base + (x + k)]>>
        BY <4>1
      <4>3. GetTile(id)[k] = <<sth[(base + x) + k]>>
        BY <3>1, <3>2, <4>1
      <4> QED BY <4>1, <4>2, <4>3
    <3> HIDE DEF g, seqs
    <3> QED BY <2>2, <3>1, <3>2, <3>3 DEF x
  <2> QED BY <2>1, <2>2
<1>11. Len(data) = m /\ m \in Nat /\ \A k \in 1 .. m : data[k] = g[k]
  <2>1. Len(seqs) = q
    BY <1>4, <1>7
  <2>2. data = FlattenSeq(seqs)
    BY DEF DataOf
  <2> HIDE DEF seqs, g
  <2>3. /\ Len(FlattenSeq(seqs)) = (q - 1) * TileWidth + w
        /\ \A k \in 1 .. (q - 1) * TileWidth + w : FlattenSeq(seqs)[k] = g[k]
    <3>1. q \in Nat \ {0} /\ w \in Nat
      BY <1>4, <1>9
    <3>2. TilesOf(seqs, q, w, g)
      BY <1>10 DEF TilesOf
    <3> QED BY <2>1, <3>1, <3>2, JoinedTiles
  <2>4. (q - 1) * TileWidth + w = m
    BY DEF low
  <2>5. m \in Nat
    BY <1>4, <1>9
  <2> HIDE DEF m
  <2> QED BY <2>2, <2>3, <2>4, <2>5
<1> DEFINE y == b * TileWidth
           e == end % TileWidth
<1>12. /\ base \in Nat /\ low \in Nat /\ y \in Nat /\ e \in Nat /\ w \in Nat /\ s \in Nat
       /\ base + low = y /\ end = y + e /\ e + 1 <= w /\ end < s /\ base <= start
  <2> DEFINE o == start % TileWidth
  <2>1. start = base + o /\ o \in Nat
    BY <1>1 DEF base
  <2> HIDE DEF o
  <2>2. base <= start
    BY <1>4, <2>1
  <2> QED BY <1>1, <1>4, <1>9, <2>2 DEF s
<1>13. ASSUME NEW k \in 1 .. m
       PROVE  /\ data[k][1].idx = base + k - 1
              /\ base + k <= s => data[k] = <<sth[base + k]>>
  <2>1. k \in Nat
    OBVIOUS
  <2>2. CASE k <= low
    <3>1. data[k] = <<sth[base + k]>>
      BY <1>11, <2>1, <2>2
    <3> DEFINE j == base + k
    <3>2. j \in 1 .. s
      <4> HIDE DEF y, e
      <4> QED BY <1>12, <2>2
    <3>3. j - 1 = base + k - 1
      <4> HIDE DEF y, e
      <4> QED BY <1>12
    <3> HIDE DEF j
    <3>4. sth[j].idx = j - 1
      BY <3>2 DEF IInv, SizesFit, s
    <3>5. data[k] = <<sth[j]>>
      BY <3>1 DEF j
    <3>6. data[k][1] = sth[j]
      BY <3>5
    <3> QED BY <3>1, <3>3, <3>4, <3>6
  <2>3. CASE ~(k <= low)
    <3> DEFINE o == k - low
    <3>1. o \in 1 .. w /\ y + o = base + k /\ y + o - 1 = base + k - 1
      <4> HIDE DEF y, e
      <4> QED BY <1>12, <2>3
    <3>2. data[k] = GetTile(last)[o]
      BY <1>11, <2>1, <2>3
    <3> HIDE DEF o, g
    <3>3. /\ GetTile(last)[o][1].idx = y + o - 1
          /\ y + o <= s => GetTile(last)[o] = <<sth[y + o]>>
      BY <1>9, <3>1
    <3> HIDE DEF y
    <3> QED BY <3>1, <3>2, <3>3
  <2> QED BY <2>2, <2>3
<1> HIDE DEF g, y, e, seqs
<1>14. base <= start /\ start <= end /\ end <= base + m - 1
  BY <1>12
<1>15. Kept(data, start, end)[m] = [i \in 1 .. end - start + 1 |-> data[start - base + i]]
  <2> HIDE DEF m
  <2>1. Indexed(data, m, base)
    BY <1>13 DEF Indexed
  <2>2. m \in Nat /\ Len(data) = m
    BY <1>11
  <2>3. base \in Nat
    BY <1>12
  <2>4. Kept(data, start, end)[m] = RangeOf(data, base, start, end)
    BY <1>14, <2>1, <2>2, <2>3, KeptRange
  <2> QED BY <2>4 DEF RangeOf
<1>16. ASSUME NEW i \in 1 .. end - start + 1
       PROVE  data[start - base + i] = <<sth[start + i]>>
  <2>1. start - base + i \in 1 .. m /\ base + (start - base + i) = start + i /\ start + i <= s
    BY <1>12, <1>14
  <2> HIDE DEF m
  <2> QED BY <1>13, <2>1
<1> HIDE DEF m
<1> QED BY <1>8, <1>11, <1>15, <1>16

\* Of a range that starts beyond its end no entry is kept.
LEMMA RangeBeyond ==
    ASSUME IInv, NEW start \in Nat, NEW end \in Nat, end < start, end < Len(sth),
           NEW ids, ids = EntryTiles(start, end),
           AllThere(ids), NEW data, data = DataOf(ids)
    PROVE  Kept(data, start, end)[Len(data)] = <<>>
<1> DEFINE a == start \div TileWidth
           b == end \div TileWidth
           q == b - a + 1
           first == TileId(-1, a, TileWidth)
           last == LastTile(end)
           seqs == [i \in DOMAIN ids |-> GetTile(ids[i])]
           None(d, m) == /\ m \in Nat /\ d = [k \in 1 .. m |-> d[k]]
                         /\ \A k \in 1 .. m : ~InRange(d[k], start, end)
<1>1. a \in Nat /\ b \in Nat /\ b <= a
  <2>1. TileWidth \in Nat \ {0} /\ end <= start
    BY TilesAssumption
  <2>2. b <= a
    BY <2>1, DivideMono
  <2>3. a \in Nat /\ b \in Nat
    BY <2>1, Division
  <2> QED BY <2>2, <2>3
<1>2. /\ first \in Tile /\ LevelOf(first) = 0
      /\ last \in Tile /\ LevelOf(last) = 0 /\ last.n = b
  <2> HIDE DEF a, b
  <2>1. -1 \in -1 .. TopLevel /\ TileWidth \in 1 .. TileWidth
    BY TilesAssumption
  <2>2. first \in Tile /\ LevelOf(first) = 0
    BY <1>1, <2>1 DEF Tile, TileId, LevelOf
  <2> HIDE DEF first, last
  <2>3. last \in Tile /\ LevelOf(last) = 0 /\ last.n = b
    BY LastTileIs DEF last, b
  <2> QED BY <2>2, <2>3
<1>3. \/ ids = <<last>>
      \/ ids = <<first, last>>
  <2>1. /\ q >= 1 => ids = [i \in 1 .. q |-> IF i = q THEN last ELSE TileId(-1, a + i - 1, TileWidth)]
        /\ q < 1 => ids = <<first, last>>
    <3> HIDE DEF last
    <3> QED BY <1>2, EntryTilesIs DEF last
  <2>2. q = 1 \/ q < 1
    <3> HIDE DEF a, b
    <3> QED BY <1>1
  <2> HIDE DEF q, first, last
  <2>3. CASE q = 1
    <3>1. ids = [i \in 1 .. 1 |-> IF i = 1 THEN last ELSE TileId(-1, a + i - 1, TileWidth)]
      BY <2>1, <2>3
    <3>2. 1 .. 1 = {1} /\ <<last>> = [i \in 1 .. 1 |-> last]
      OBVIOUS
    <3>3. ids = <<last>>
      BY <3>1, <3>2
    <3> QED BY <3>3
  <2> QED BY <2>1, <2>2, <2>3
<1>4. ASSUME NEW id \in Tile, LevelOf(id) = 0, GetTile(id) # <<>>
      PROVE  None(GetTile(id), TileRead(id).w)
  <2>1. TileRead(id) \in DOMAIN tiles
    BY <1>4, TileReadIs
  <2>2. /\ TileRead(id).w \in Nat
        /\ GetTile(id) = [k \in 1 .. TileRead(id).w |-> GetTile(id)[k]]
        /\ \A k \in 1 .. TileRead(id).w : GetTile(id)[k][1].idx = id.n * TileWidth + k - 1
    BY <1>4, <2>1, EntriesRead
  <2>3. ASSUME NEW k \in 1 .. TileRead(id).w PROVE ~InRange(GetTile(id)[k], start, end)
    <3> DEFINE x == GetTile(id)[k][1].idx
               p == id.n * TileWidth
    <3>1. p \in Nat /\ k \in Nat
      BY <1>4, ReadLevels
    <3>2. x = p + k - 1
      BY <2>2
    <3> HIDE DEF x, p
    <3>3. ~(x >= start /\ (end = -1 \/ x <= end))
      BY <3>1, <3>2
    <3> QED BY <3>3 DEF InRange, x
  <2> QED BY <2>2, <2>3
<1> HIDE DEF None, a, b, q, first, last
<1>5. \E m : None(data, m)
  <2>1. CASE ids = <<last>>
    <3>1. DOMAIN ids = {1} /\ ids[1] = last /\ GetTile(last) # <<>>
      BY <2>1 DEF AllThere
    <3>2. seqs[1] = GetTile(last) /\ Len(seqs) = 1 /\ None(GetTile(last), TileRead(last).w)
      <4>1. 1 .. 1 = {1}
        OBVIOUS
      <4>2. seqs[1] = GetTile(last) /\ DOMAIN seqs = 1 .. 1
        BY <3>1, <4>1
      <4> HIDE DEF seqs
      <4>3. Len(seqs) = 1
        BY <4>2
      <4> QED BY <1>2, <1>4, <3>1, <4>2, <4>3
    <3> DEFINE g == [i \in 1 .. 1 |-> seqs[1]]
    <3> HIDE DEF seqs
    <3>3. JoinedOk(g, seqs) /\ g[1] = seqs[1]
      BY <3>2 DEF JoinedOk
    <3> HIDE DEF g
    <3>4. FlattenSeq(seqs) = g[1]
      <4> DEFINE o == 1
      <4>1. o \in Nat \ {0} /\ Len(seqs) = o /\ o = 1
        BY <3>2
      <4> HIDE DEF o
      <4>2. FlattenSeq(seqs) = g[o]
        BY <3>3, <4>1, JoinedIs
      <4> QED BY <4>1, <4>2
    <3> QED BY <3>2, <3>3, <3>4 DEF seqs, DataOf
  <2>2. CASE ids = <<first, last>>
    <3> DEFINE u == GetTile(first)
               v == GetTile(last)
               m == TileRead(first).w
               n == TileRead(last).w
               g == [i \in 1 .. 2 |-> IF i = 1 THEN u ELSE u \o v]
    <3>1. /\ DOMAIN ids = 1 .. 2 /\ ids[1] = first /\ ids[2] = last /\ 1 \in 1 .. 2 /\ 2 \in 1 .. 2
          /\ GetTile(first) # <<>> /\ GetTile(last) # <<>>
      BY <2>2 DEF AllThere
    <3>2. seqs[1] = u /\ seqs[2] = v /\ DOMAIN seqs = 1 .. 2 /\ None(u, m) /\ None(v, n)
      BY <1>2, <1>4, <3>1
    <3> HIDE DEF seqs, u, v, m, n
    <3>3. Len(seqs) = 2
      BY <3>2
    <3>4. JoinedOk(g, seqs) /\ g[2] = u \o v
      BY <3>2, <3>3 DEF JoinedOk
    <3> HIDE DEF g
    <3>5. FlattenSeq(seqs) = u \o v
      <4> DEFINE o == 2
      <4>1. o \in Nat \ {0} /\ Len(seqs) = o /\ o = 2
        BY <3>3
      <4> HIDE DEF o
      <4>2. FlattenSeq(seqs) = g[o]
        BY <3>4, <4>1, JoinedIs
      <4> QED BY <3>4, <4>1, <4>2
    <3> DEFINE d == u \o v
    <3>6. d = [k \in 1 .. m + n |-> IF k <= m THEN u[k] ELSE v[k - m]] /\ m \in Nat /\ n \in Nat
      BY <3>2, Concatenation DEF None
    <3> HIDE DEF d
    <3>7. None(d, m + n)
      <4>1. ASSUME NEW k \in 1 .. m + n PROVE ~InRange(d[k], start, end)
        <5>1. CASE k <= m
          BY <3>2, <3>6, <5>1 DEF None
        <5>2. CASE ~(k <= m)
          <6>1. k - m \in 1 .. n /\ d[k] = v[k - m]
            BY <3>6, <5>2
          <6> QED BY <3>2, <6>1 DEF None
        <5> QED BY <5>1, <5>2
      <4> QED BY <3>6, <4>1 DEF None
    <3> QED BY <3>5, <3>7 DEF d, seqs, DataOf
  <2> QED BY <1>3, <2>1, <2>2
<1>6. PICK m : None(data, m)
  BY <1>5
<1>7. Len(data) = m /\ m \in Nat /\ \A k \in 1 .. m : ~InRange(data[k], start, end)
  BY <1>6 DEF None
<1> QED BY <1>7, KeptNone

-----------------------------------------------------------------------------
(* Before a crash. *)

LEMMA HashTileIs ==
    ASSUME NEW size \in Nat \ {0}, NEW l \in Level, NEW j \in Nat
    PROVE  HashTile(size, l, j) \in Tile
<1> DEFINE final == TileForIndex(0, size - 1)
           id == TileForIndex(l, j)
<1>1. size - 1 \in Nat /\ 0 \in Level
  BY TilesAssumption DEF Level
<1>2. id \in Tile /\ final.w \in 1 .. TileWidth
  <2> DEFINE m == size - 1
  <2> HIDE DEF m
  <2>1. TileForIndex(0, m).w \in 1 .. TileWidth
    BY <1>1, TileForIndexIs DEF m
  <2> QED BY <1>1, <2>1, TileForIndexIs DEF m
<1>3. HashTile(size, l, j) = IF id.n = final.n THEN [id EXCEPT !.w = final.w] ELSE id
  BY DEF HashTile
<1> HIDE DEF id, final
<1> QED BY <1>2, <1>3 DEF Tile

LEMMA NoLeftoverBefore ==
    ASSUME IInv, run <= 1, NEW id \in Tile
    PROVE  ~Leftover(id)
<1> SUFFICES ASSUME Leftover(id) PROVE FALSE
  OBVIOUS
<1> DEFINE read == TileRead(id)
<1>1. read \in DOMAIN tiles
  <2> SUFFICES ASSUME read \notin DOMAIN tiles PROVE FALSE
    OBVIOUS
  <2>1. GetTile(id) = <<>>
    BY TileReadIs
  <2> QED BY <2>1 DEF Leftover
<1>2. /\ read \in Tile /\ read.n = id.n /\ LevelOf(read) = LevelOf(id)
      /\ GetTile(id) = tiles[read] /\ DOMAIN tiles[read] = 1 .. read.w
  BY <1>1, TileReadIs DEF IInv, TypeOK
<1> HIDE DEF read
<1>3. Agrees(sth, read)
  BY <1>1, TilesAgree
<1> QED BY <1>2, <1>3 DEF Leftover, Agrees, LevelOf

\* A tile found that contradicts the tree head is the lowest one, of hashes or of
\* data, that the log still has to fill, and a process has died.
LEMMA LeftoverIsLow ==
    ASSUME IInv, NEW id \in Tile, Leftover(id)
    PROVE  run > 1 /\ id.l <= 0 /\ id.n = Len(sth) \div TileWidth
<1> DEFINE read == TileRead(id)
           s == Len(sth)
<1>1. id \in Tile /\ s \in Nat /\ read \in DOMAIN tiles
  <2>1. s \in Nat
    BY TilesAssumption DEF IInv, TypeOK, SizesFit
  <2>2. read \in DOMAIN tiles
    BY TileReadIs DEF Leftover
  <2> QED BY <2>1, <2>2
<1>2. /\ read \in Tile /\ read \in DOMAIN tiles /\ GetTile(id) = tiles[read]
      /\ read.l = id.l /\ read.n = id.n /\ LevelOf(read) = LevelOf(id)
      /\ DOMAIN tiles[read] = 1 .. read.w
  BY <1>1, TileReadIs DEF IInv, TypeOK
<1> HIDE DEF read
<1>3. PICK k \in 1 .. read.w :
        /\ id.n * TileWidth + k <= Count(s, LevelOf(id))
        /\ tiles[read][k] # Hash(sth, LevelOf(id), id.n * TileWidth + k - 1)
  BY <1>2 DEF Leftover, LevelOf
<1>4. ~Agrees(sth, read)
  BY <1>2, <1>3 DEF Agrees
<1>5. /\ ~(read.l > 0) /\ ~(run <= 1)
      /\ ~((read.n + 1) * TileWidth <= s /\ read.w = TileWidth)
  BY <1>2, <1>4, TilesAgree
<1>6. /\ run > 1 /\ id.l <= 0 /\ LevelOf(id) = 0
      /\ id.n \in Nat /\ id.n * TileWidth \in Nat /\ k \in Nat /\ k > 0 /\ read.w <= TileWidth
  <2>1. run \in Nat /\ read.w \in 1 .. TileWidth
    BY <1>2, TilesAssumption DEF IInv, TypeOK, Tile
  <2>2. id.l <= 0 /\ LevelOf(id) = 0 /\ id.n \in Nat /\ id.n * TileWidth \in Nat
    <3>1. ~(id.l > 0) /\ id.l \in -1 .. TopLevel
      BY <1>1, <1>2, <1>5 DEF Tile
    <3>2. LevelOf(id) = 0 /\ id.n \in Nat /\ id.n * TileWidth \in Nat
      BY <1>1, <3>1, ReadLevels
    <3> QED BY <3>1, <3>2, TilesAssumption
  <2> QED BY <1>5, <2>1, <2>2, TilesAssumption
<1>7. ~((id.n + 1) * TileWidth <= s)
  <2> SUFFICES ASSUME (id.n + 1) * TileWidth <= s PROVE FALSE
    OBVIOUS
  <2>1. read = Full(id)
    BY <1>1, <1>6, FullTileIs DEF read
  <2> QED BY <1>1, <1>2, <1>5, <2>1, TilesAssumption DEF Full, Tile
<1>8. id.n * TileWidth + k <= s
  BY <1>1, <1>3, <1>6, CountZero
<1>9. id.n = s \div TileWidth
  <2> DEFINE n == id.n
             p == id.n * TileWidth
             r == s - p
  <2>1. (n + 1) * TileWidth = n * TileWidth + TileWidth
    BY <1>6, TilesAssumption
  <2>2. p \in Nat /\ s \in Nat /\ ~(p + TileWidth <= s) /\ p + k <= s /\ k \in Nat
    BY <1>1, <1>6, <1>7, <1>8, <2>1
  <2> HIDE DEF p, s
  <2>3. r \in 0 .. TileWidth - 1 /\ s = p + r
    BY <2>2, TilesAssumption
  <2>4. n \in Nat /\ s = n * TileWidth + r
    BY <1>6, <2>3 DEF p
  <2> HIDE DEF n, r
  <2>5. s \div TileWidth = n
    BY <2>2, <2>3, <2>4, DivideIs, TilesAssumption
  <2> QED BY <2>5 DEF n
<1> QED BY <1>6, <1>9

-----------------------------------------------------------------------------
(* The theorems. *)

\* Before a crash no tile contradicts the tree head; after one, only the lowest
\* tile that the log still has to fill can.
THEOREM LeftoversAreConfined == Spec => []LeftoversConfined
<1>1. IInv => LeftoversConfined
  <2>1. IInv => DOMAIN tiles \subseteq Tile
    BY DEF IInv, TypeOK
  <2> QED BY <2>1, LeftoverIsLow DEF LeftoversConfined
<1> QED BY <1>1, TreeOnTheEdge, PTL

\* Every hash of a consistency or inclusion proof, for every tree head there ever
\* was, is served as the tree has it, or from a leftover of a crash.
THEOREM ProofsAreSound == Spec => []SoundProofsServed
<1>1. IInv => SoundProofsServed
  <2> SUFFICES ASSUME IInv PROVE SoundProofsServed
    OBVIOUS
  <2>1. \A size \in heads : size \in Nat /\ size <= Len(sth)
    <3>1. heads \subseteq 0 .. MaxSize /\ 0 .. MaxSize \subseteq Nat
      BY TilesAssumption DEF IInv, TypeOK
    <3>2. \A size \in heads : size <= Len(sth)
      BY DEF IInv, SizesFit
    <3> QED BY <3>1, <3>2
  <2>2. ASSUME NEW size \in heads, NEW lj \in ProofHashes(size)
        PROVE  \/ Leftover(HashTile(size, lj[1], lj[2]))
               \/ ServesHash(size, lj[1], lj[2])
    <3>1. /\ lj[1] \in Level /\ lj[2] \in Nat
          /\ Leaves[lj[1]] < size /\ (lj[2] + 1) * Leaves[lj[1]] <= size
      BY TilesAssumption DEF ProofHashes
    <3> QED BY <3>1, ProofHashServed
  <2>3. Len(sth) \in Nat
    BY TilesAssumption DEF IInv, TypeOK, SizesFit
  <2>4. ASSUME NEW first \in heads, NEW second \in heads, first <= second
        PROVE  ~ConsistencyRefused(first, second)
    BY <2>1, <2>3, <2>4 DEF ConsistencyRefused
  <2>5. ASSUME NEW size \in heads, NEW i \in 0 .. size - 1 PROVE ~InclusionRefused(i, size)
    BY <2>1, <2>3 DEF InclusionRefused
  <2> QED BY <2>2, <2>4, <2>5 DEF SoundProofsServed
<1> QED BY <1>1, TreeOnTheEdge, PTL

\* As long as no process has died, every proof for every tree head is served: the
\* leftovers of TilesOrphan are all there is to go wrong.
THEOREM AllProofsServedBeforeACrash == Spec => [](run <= 1 => ProofsServed)
<1>1. IInv => (run <= 1 => ProofsServed)
  <2> SUFFICES ASSUME IInv, run <= 1, NEW size \in heads, NEW lj \in ProofHashes(size)
               PROVE  ServesHash(size, lj[1], lj[2])
    BY DEF ProofsServed
  <2>1. /\ lj[1] \in Level /\ lj[2] \in Nat
        /\ Leaves[lj[1]] < size /\ (lj[2] + 1) * Leaves[lj[1]] <= size
    BY TilesAssumption DEF ProofHashes
  <2>2. size \in Nat \ {0}
    <3>1. size \in Nat
      BY TilesAssumption DEF IInv, TypeOK
    <3>2. Leaves[lj[1]] \in Nat
      BY <2>1, LeavesType, LevelType
    <3> QED BY <2>1, <3>1, <3>2
  <2>3. ~Leftover(HashTile(size, lj[1], lj[2]))
    BY <2>1, <2>2, HashTileIs, NoLeftoverBefore
  <2> QED BY <2>1, <2>3, ProofHashServed
<1> QED BY <1>1, TreeOnTheEdge, PTL

\* An entry of the index asked for is read from every data tile found for it; it
\* is the leaf the proof is about, unless a process has died and the tile is the
\* one that the log still has to fill.
THEOREM EntryMatches == Spec => []EntryMatchesProof
<1>1. IInv => EntryMatchesProof
  <2> SUFFICES ASSUME IInv, NEW i \in 0 .. Len(sth) - 1
               PROVE  LET e == EntryOfTile(i)
                      IN  /\ e = NoLeaf <=> GetTile(EntryTile(i)) = <<>>
                          /\ e # NoLeaf =>
                               /\ e.idx = i
                               /\ \/ e = sth[i + 1]
                                  \/ run > 1 /\ i \div TileWidth = Len(sth) \div TileWidth
    BY DEF EntryMatchesProof
  <2> DEFINE id == EntryTile(i)
             data == GetTile(id)
             w == id.w
             at == {k \in DOMAIN data : data[k][1].idx = i}
             first == CHOOSE k \in at : \A o \in at : k <= o
  <2>1. Len(sth) \in Nat /\ i \in Nat /\ i + 1 <= Len(sth)
    BY TilesAssumption DEF IInv, TypeOK, SizesFit
  <2>2. /\ id \in Tile /\ LevelOf(id) = 0 /\ id.n * TileWidth + w = i + 1
        /\ id.n \in Nat /\ id.n * TileWidth \in Nat /\ w \in 1 .. TileWidth
    <3> DEFINE o == TileForIndex(0, i)
    <3>1. /\ o \in Tile /\ o.n * TileWidth + o.w = i + 1
          /\ o.n * TileWidth \in Nat /\ o.w \in 1 .. TileWidth
      <4>1. 0 \in Level
        BY TilesAssumption DEF Level
      <4>2. /\ o \in Tile /\ o.n * TileWidth + o.w = i + 1
            /\ o.n \in Nat /\ o.w \in 1 .. TileWidth
        BY <2>1, <4>1, TileForIndexIs
      <4> QED BY <4>2, TilesAssumption
    <3>2. id = [o EXCEPT !.l = -1] /\ -1 \in -1 .. TopLevel
      BY TilesAssumption DEF EntryTile
    <3> HIDE DEF o, id
    <3>3. id \in Tile /\ id.n \in Nat /\ id.l = -1 /\ id.n = o.n /\ id.w = o.w
      BY <3>1, <3>2 DEF Tile
    <3> QED BY <3>1, <3>3 DEF LevelOf
  <2>3. EntryOfTile(i) = IF at = {} THEN NoLeaf ELSE data[first][1]
    BY DEF EntryOfTile
  <2>4. i \div TileWidth = id.n
    <3> DEFINE n == id.n
               r == w - 1
    <3>1. n \in Nat /\ r \in 0 .. TileWidth - 1 /\ i = n * TileWidth + r
      <4> DEFINE p == n * TileWidth
      <4>1. /\ p \in Nat /\ p + w = i + 1 /\ w \in 1 .. TileWidth
            /\ TileWidth \in Nat /\ i \in Nat /\ n \in Nat
        BY <2>1, <2>2, TilesAssumption
      <4> HIDE DEF p, n, w
      <4>2. r \in 0 .. TileWidth - 1 /\ i = p + r
        BY <4>1
      <4> QED BY <4>1, <4>2 DEF p
    <3> HIDE DEF n, r
    <3>2. i \div TileWidth = n
      BY <2>1, <3>1, DivideIs, TilesAssumption
    <3> QED BY <3>2 DEF n
  <2> HIDE DEF id, w
  <2>5. CASE TileRead(id) \notin DOMAIN tiles
    <3>1. data = <<>>
      BY <2>2, <2>5, TileReadIs
    <3>2. at = {}
      BY <3>1
    <3> QED BY <2>3, <3>1, <3>2 DEF id
  <2>6. CASE TileRead(id) \in DOMAIN tiles
    <3>1. /\ data # <<>> /\ w <= TileRead(id).w /\ TileRead(id).w \in Nat
          /\ DOMAIN data = 1 .. TileRead(id).w
          /\ \A k \in 1 .. TileRead(id).w : data[k][1].idx = id.n * TileWidth + k - 1
          /\ ~Leftover(id) =>
               \A k \in 1 .. TileRead(id).w :
                 id.n * TileWidth + k <= Len(sth) => data[k] = <<sth[id.n * TileWidth + k]>>
      BY <2>2, <2>6, EntriesRead DEF w, id
    <3> HIDE DEF data
    <3>2. w \in DOMAIN data
      BY <2>2, <3>1
    <3>3. at = {w}
      <4>1. ASSUME NEW k \in DOMAIN data PROVE data[k][1].idx = i <=> k = w
        <5>1. data[k][1].idx = id.n * TileWidth + k - 1 /\ k \in Nat
          BY <3>1
        <5> QED BY <2>1, <2>2, <5>1
      <4> QED BY <3>2, <4>1
    <3>4. data[w][1].idx = i
      BY <3>3
    <3> HIDE DEF at
    <3>5. first = w
      BY <2>2, <3>3
    <3> HIDE DEF first
    <3>6. EntryOfTile(i) = data[w][1]
      BY <2>3, <3>3, <3>5
    <3>7. EntryOfTile(i).idx = i /\ EntryOfTile(i) # NoLeaf
      BY <2>1, <3>4, <3>6 DEF NoLeaf
    <3>8. CASE Leftover(id)
      <4>1. run > 1 /\ id.n = Len(sth) \div TileWidth
        BY <2>2, <3>8, LeftoverIsLow
      <4> QED BY <2>4, <3>1, <3>7, <4>1 DEF data, id
    <3>9. CASE ~Leftover(id)
      <4>1. data[w] = <<sth[i + 1]>>
        BY <2>1, <2>2, <3>1, <3>2, <3>9
      <4>2. EntryOfTile(i) = sth[i + 1]
        BY <3>6, <4>1
      <4> QED BY <3>1, <3>7, <4>2 DEF data, id
    <3> QED BY <3>8, <3>9
  <2> QED BY <2>5, <2>6
<1> QED BY <1>1, TreeOnTheEdge, PTL

\* get-entries of a tree that is not empty returns the entries of the range, up
\* to its limit and the tree head, unless a tile it reads is a leftover of a crash.
THEOREM EntriesAreSound == Spec => []SoundEntriesServed
<1>1. IInv => SoundEntriesServed
  <2> SUFFICES ASSUME IInv, NEW start \in 0 .. MaxSize, NEW end \in EndsToAsk(start), sth # <<>>,
                      NEW last, last = EndOf(start, end),
                      NEW ids, ids = EntryTiles(start, last),
                      NEW es, es = GetEntries(start, end),
                      NoLeftovers(ids)
               PROVE  /\ Len(es) = (IF start < Len(sth) THEN last - start + 1 ELSE 0)
                      /\ \A i \in 1 .. Len(es) : es[i] = <<sth[start + i]>>
    BY DEF SoundEntriesServed, NoLeftovers
  <2> DEFINE s == Len(sth)
             data == DataOf(ids)
  <2>1. s \in Nat \ {0} /\ start \in Nat /\ end \in Nat /\ start <= end
    <3>1. s \in Nat /\ s # 0
      BY DEF IInv, TypeOK
    <3>2. start \in Nat
      BY TilesAssumption
    <3> QED BY <3>1, <3>2, MonitorAssumption DEF EndsToAsk
  <2>2. last \in Nat /\ last < s /\ (IF start < s THEN start <= last ELSE last < start)
    <3> HIDE DEF s
    <3>1. last = LET limited == IF end - start > MaxGetEntry THEN start + MaxGetEntry ELSE end
                 IN  IF limited >= s THEN s - 1 ELSE limited
      BY DEF EndOf, s
    <3> QED BY <2>1, <3>1, MonitorAssumption
  <2>3. es = IF AllThere(ids) THEN Kept(data, start, last)[Len(data)] ELSE <<>>
    BY GetEntriesIs
  <2>4. CASE start < s
    <3>1. /\ AllThere(ids)
          /\ Kept(data, start, last)[Len(data)]
               = [i \in 1 .. last - start + 1 |-> <<sth[start + i]>>]
      BY <2>1, <2>2, <2>4, RangeInside
    <3> HIDE DEF data
    <3>2. es = [i \in 1 .. last - start + 1 |-> <<sth[start + i]>>]
      BY <2>3, <3>1
    <3>3. last - start + 1 \in Nat
      BY <2>1, <2>2, <2>4
    <3> QED BY <2>4, <3>2, <3>3
  <2>5. CASE ~(start < s)
    <3>1. es = <<>>
      BY <2>1, <2>2, <2>3, <2>5, RangeBeyond
    <3> QED BY <2>5, <3>1
  <2> QED BY <2>4, <2>5
<1> QED BY <1>1, TreeOnTheEdge, PTL
=============================================================================
