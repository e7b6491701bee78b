------------------------------- MODULE Tiles -------------------------------
(***************************************************************************)
(* The Merkle tree as stageTwo keeps it: no tree in memory, only the right *)
(* edge of it as tiles, from which the hashes of a pool, the new tiles and *)
(* the root hash are computed, and the tiles in the bucket, from which a   *)
(* restarted process takes its edge again.  Every tile is an upload of its *)
(* own, so a crash leaves any subset of a pool's tiles behind.             *)
(*                                                                         *)
(* The hash of a subtree is modelled as the sequence of leaves below it (a *)
(* hash without collisions).  A leaf carries its index and the run of the  *)
(* process that sequenced it: the same certificate sequenced again after a *)
(* crash has another timestamp, hence another leaf.  Tiles are read as a   *)
(* whole, so their width need not be a power of two.                       *)
(***************************************************************************)
EXTENDS Integers, Sequences, FiniteSets, SequencesExt

CONSTANTS
    TileWidth,  \* hashes in a full tile (256)
    MaxPool,    \* MAX_POOL_SIZE (255, less than a tile)
    MaxSize,    \* bound: leaves in the log
    MaxRuns,    \* bound: processes started
    TopLevel    \* the highest tile level a log of MaxSize leaves has

\* The leaves below one hash of a tile level.
Leaves[l \in 0 .. TopLevel + 1] == IF l = 0 THEN 1 ELSE TileWidth * Leaves[l - 1]

ASSUME TilesAssumption ==
    /\ TileWidth \in Nat \ {0, 1}
    /\ MaxPool \in 1 .. TileWidth - 1
    /\ MaxSize \in Nat /\ MaxRuns \in Nat /\ TopLevel \in Nat
    /\ MaxSize < Leaves[TopLevel + 1]

VARIABLES
    run,       \* the number of processes started
    up,        \* whether the last one runs and has loaded the log
    treeSize,  \* treeSize of stageTwoData
    edge,      \* edgeTiles: the right-most tile of each level, -1 for data
    overlay,   \* newHashes: by level, the subtrees the pool completes
    updated,   \* updatedTreeSize
    uploads,   \* the tiles of the pool that are not uploaded yet
    pc2,       \* where stageTwo is, "failed" after a hash it could not find
    tiles,     \* bucket: the tiles, by level, number and width
    sth,       \* bucket: the leaves the root hash in get-sth commits to
    heads      \* the sizes of all tree heads so far (history)

memory == <<treeSize, edge, overlay, updated, uploads, pc2>>
vars == <<run, up, memory, tiles, sth, heads>>

Level == 0 .. TopLevel
Leaf == [idx : 0 .. MaxSize, run : 1 .. MaxRuns]

\* A tile without its data, and the tile of an edge that has none.
TileId(l, n, w) == [l |-> l, n |-> n, w |-> w]
NoTile == [n |-> 0, w |-> 0, data |-> <<>>]

\* The number of complete subtrees of a level in a tree of a size, and how many
\* of them the last, partial tile of the level holds.
Count(size, l) == size \div Leaves[l]
Partial(size, l) == Count(size, l) % TileWidth

\* What a subtree hash stands for, a tile of a given tree, and what hashes of
\* width leaves each are joined to.
LevelOf(id) == IF id.l = -1 THEN 0 ELSE id.l
Hash(t, l, j) == [i \in 1 .. Leaves[l] |-> t[j * Leaves[l] + i]]
Content(t, id) ==
    [k \in 1 .. id.w |-> Hash(t, LevelOf(id), id.n * TileWidth + k - 1)]
Join(hashes, width) ==
    [i \in 1 .. Len(hashes) * width |->
       hashes[((i - 1) \div width) + 1][((i - 1) % width) + 1]]

Missing == <<>>   \* the error of HashFromTile

-----------------------------------------------------------------------------
Init ==
    /\ run = 0 /\ up = FALSE
    /\ treeSize = 0 /\ updated = 0
    /\ edge = [l \in -1 .. TopLevel |-> NoTile]
    /\ overlay = [l \in Level |-> <<>>]
    /\ uploads = {} /\ pc2 = "recv"
    /\ tiles = <<>> /\ sth = <<>> /\ heads = {0}

\* The tiles the root hash of a tree is computed from: one per level that has a
\* partial tile.
RootTiles(size) ==
    {TileId(l, Count(size, l + 1), Partial(size, l)) :
        l \in {k \in Level : Partial(size, k) > 0}}

\* The tile of the last leaf and its parents, as wide as the tree makes them.
LastLeafTile(size, l) ==
    LET n == (size - 1) \div Leaves[l + 1]
        rest == Count(size, l) - n * TileWidth
    IN  TileId(l, n, IF rest < TileWidth THEN rest ELSE TileWidth)

\* TileHashReader fetches the root's tiles, and those from the last leaf's up to
\* the first that is one of them.
FetchedTiles(size) ==
    RootTiles(size) \cup
    {LastLeafTile(size, l) :
        l \in {k \in Level : \A m \in 0 .. k : LastLeafTile(size, m) \notin RootTiles(size)}}

DataTile(size) == [LastLeafTile(size, 0) EXCEPT !.l = -1]

\* The hash tiles are authenticated against the root hash, the data tile is
\* only fetched.
Loads ==
    sth # <<>> =>
        /\ \A id \in FetchedTiles(Len(sth)) :
              id \in DOMAIN tiles /\ tiles[id] = Content(sth, id)
        /\ DataTile(Len(sth)) \in DOMAIN tiles

EdgeOf(id) == [n |-> id.n, w |-> id.w, data |-> tiles[id]]

\* A process that cannot load the log exits, and its supervisor tries again.
LoadLog ==
    /\ ~up /\ run < MaxRuns
    /\ Loads
    /\ up' = TRUE /\ run' = run + 1
    /\ treeSize' = Len(sth) /\ updated' = Len(sth)
    /\ edge' = [l \in -1 .. TopLevel |->
                  IF sth = <<>> THEN NoTile
                  ELSE IF l = -1 THEN EdgeOf(DataTile(Len(sth)))
                  ELSE IF \E id \in FetchedTiles(Len(sth)) : id.l = l
                  THEN EdgeOf(CHOOSE id \in FetchedTiles(Len(sth)) : id.l = l)
                  ELSE NoTile]
    /\ UNCHANGED <<overlay, uploads, pc2, tiles, sth, heads>>

-----------------------------------------------------------------------------
\* stageTwo

EdgeHash(l, j) ==
    IF j \div TileWidth = edge[l].n /\ j % TileWidth < edge[l].w
    THEN edge[l].data[(j % TileWidth) + 1] ELSE Missing

\* The closure hashReader: the overlay first, then the edge tile of the level.
HashReader(over, l, j) ==
    IF j \in DOMAIN over[l] THEN over[l][j] ELSE EdgeHash(l, j)

\* The subtrees that new leaves complete, level by level from those below.
Completed(new, l, lower) ==
    LET below(c) == IF c >= Count(treeSize, l - 1) THEN lower[c] ELSE EdgeHash(l - 1, c)
    IN  [j \in Count(treeSize, l) .. Count(treeSize + Len(new), l) - 1 |->
           IF l = 0 THEN <<new[j - treeSize + 1]>>
           ELSE IF \E i \in 1 .. TileWidth : below(j * TileWidth + i - 1) = Missing
           THEN Missing
           ELSE Join([i \in 1 .. TileWidth |-> below(j * TileWidth + i - 1)], Leaves[l - 1])]
StoredHashes(new) ==
    LET stored[l \in Level] == Completed(new, l, IF l = 0 THEN <<>> ELSE stored[l - 1])
    IN  stored

\* tlog.NewTiles: the full tiles a level gets, and its last, partial one.
FullTiles(l, old, new) ==
    {TileId(l, n, TileWidth) : n \in Count(old, l + 1) .. Count(new, l + 1) - 1}
PartialTile(l, size) ==
    {id \in {TileId(l, Count(size, l + 1), Partial(size, l))} : id.w > 0}

NewTiles(old, new) ==
    UNION {FullTiles(l, old, new) \cup PartialTile(l, new) :
             l \in {k \in Level : Count(old, k) # Count(new, k)}}

TileData(over, id) ==
    [k \in 1 .. id.w |-> HashReader(over, id.l, id.n * TileWidth + k - 1)]

\* The data tile the next leaf goes into: a full one, which only a reload finds
\* at the edge, is followed by a new one.
\* Mutation: a full tile is emptied and its number stays.
DataBaseSameNumber == IF edge[-1].w = TileWidth
                      THEN [n |-> edge[-1].n, w |-> 0, data |-> <<>>] ELSE edge[-1]
DataBase == IF edge[-1].w = TileWidth
            THEN [n |-> edge[-1].n + 1, w |-> 0, data |-> <<>>] ELSE edge[-1]

\* The data of the old tile and the new leaves, cut into tiles.
DataWith(new) == DataBase.data \o [i \in 1 .. Len(new) |-> <<new[i]>>]
DataChunk(all, q) ==
    SubSeq(all, q * TileWidth + 1,
           IF (q + 1) * TileWidth < Len(all) THEN (q + 1) * TileWidth ELSE Len(all))
DataUploads(new) ==
    LET all == DataWith(new)
    IN  {u \in {[id |-> TileId(-1, DataBase.n + q, Len(DataChunk(all, q))),
                 data |-> DataChunk(all, q)] : q \in 0 .. Len(all) \div TileWidth} :
           u.id.w > 0}
\* Mutation: the bytes are kept when a full tile is left.
DataEdgeUncleared(new) ==
    LET all == DataWith(new)
        q == Len(all) \div TileWidth
    IN  [n |-> DataBase.n + q, w |-> Len(all) % TileWidth, data |-> all]
DataEdge(new) ==
    LET all == DataWith(new)
        q == Len(all) \div TileWidth
    IN  [n |-> DataBase.n + q, w |-> Len(all) % TileWidth, data |-> DataChunk(all, q)]

\* The last new tile of a level becomes its edge.
\* Mutation: the first one does.
NewEdgeFirst(new, old, l) ==
    CHOOSE id \in new : id.l = l /\ \A o \in new : o.l = l => id.n <= o.n
NewEdge(new, old, l) ==
    CHOOSE id \in new : id.l = l /\ \A o \in new : o.l = l => o.n <= id.n

\* The leaves of a pool, numbered from the size of the tree.
\* Mutation: stageOne counted the entry before it numbered it.
PoolFromNext(k) == [i \in 1 .. k |-> [idx |-> treeSize + i, run |-> run]]
Pool(k) == [i \in 1 .. k |-> [idx |-> treeSize + i - 1, run |-> run]]

\* Everything about a pool is computed before its uploads are waited for.
ReceivePool ==
    /\ up /\ pc2 = "recv"
    /\ \E k \in 1 .. MaxPool :
         LET over == StoredHashes(Pool(k))
             new == NewTiles(treeSize, treeSize + k)
             found == /\ \A l \in Level : \A j \in DOMAIN over[l] : over[l][j] # Missing
                      /\ \A id \in new : \A i \in 1 .. id.w : TileData(over, id)[i] # Missing
         IN  /\ treeSize + k <= MaxSize
             /\ updated' = treeSize + k
             /\ overlay' = over
             /\ edge' = [l \in -1 .. TopLevel |->
                           IF l = -1 THEN DataEdge(Pool(k))
                           ELSE IF \E id \in new : id.l = l
                           THEN LET id == NewEdge(new, edge, l)
                                IN  [n |-> id.n, w |-> id.w, data |-> TileData(over, id)]
                           ELSE edge[l]]
             /\ uploads' = DataUploads(Pool(k))
                             \cup {[id |-> id, data |-> TileData(over, id)] : id \in new}
             /\ pc2' = IF found THEN "upload" ELSE "failed"
    /\ UNCHANGED <<run, up, treeSize, tiles, sth, heads>>

\* An empty pool has nothing to upload; the tree head is signed again.
ReceiveEmptyPool ==
    /\ up /\ pc2 = "recv"
    /\ updated' = treeSize /\ pc2' = "upload"
    /\ overlay' = [l \in Level |-> <<>>]
    /\ UNCHANGED <<run, up, treeSize, edge, uploads, tiles, sth, heads>>

\* The uploads run in parallel and finish in any order.
PutTile ==
    /\ up /\ pc2 = "upload"
    /\ \E u \in uploads :
         /\ tiles' = [id \in DOMAIN tiles \cup {u.id} |->
                        IF id = u.id THEN u.data ELSE tiles[id]]
         /\ uploads' = uploads \ {u}
    /\ UNCHANGED <<run, up, treeSize, edge, overlay, updated, pc2, sth, heads>>

\* The hashes of the last, partial tile of a level.
LevelHashes(size, l) ==
    [k \in 1 .. Partial(size, l) |->
       HashReader(overlay, l, Count(size, l + 1) * TileWidth + k - 1)]

\* tlog.TreeHash joins the hashes of the root's tiles, the highest level first.
RootHash(size) ==
    LET joined[l \in 0 .. TopLevel + 1] ==
          IF l = TopLevel + 1 THEN <<>>
          ELSE joined[l + 1] \o Join(LevelHashes(size, l), Leaves[l])
    IN  joined[0]

\* Mutation: the uploads are started and not waited for.
UploadsStarted == TRUE
UploadsDone == uploads = {}

\* The size stageTwo goes on from once the tree head is written.
\* Mutation: it is not written back.
SizeKept == treeSize
SizeWrittenBack == updated

\* The root hash is computed and uploaded once all tiles are.
SetSth ==
    /\ up /\ pc2 = "upload" /\ UploadsDone
    /\ IF \E l \in Level : \E k \in 1 .. Partial(updated, l) :
               LevelHashes(updated, l)[k] = Missing
       THEN /\ pc2' = "failed"
            /\ UNCHANGED <<treeSize, sth, heads>>
       ELSE /\ pc2' = "recv"
            /\ sth' = RootHash(updated)
            /\ treeSize' = SizeWrittenBack
            /\ heads' = heads \cup {updated}
    /\ uploads' = {}
    /\ overlay' = [l \in Level |-> <<>>]
    /\ UNCHANGED <<run, up, edge, updated, tiles>>

\* The process ends, after an error or at any moment.
Die ==
    /\ up
    /\ up' = FALSE
    /\ treeSize' = 0 /\ updated' = 0
    /\ edge' = [l \in -1 .. TopLevel |-> NoTile]
    /\ overlay' = [l \in Level |-> <<>>]
    /\ uploads' = {} /\ pc2' = "recv"
    /\ UNCHANGED <<run, tiles, sth, heads>>

Next == LoadLog \/ ReceivePool \/ ReceiveEmptyPool \/ PutTile \/ SetSth \/ Die

Spec == Init /\ [][Next]_vars

-----------------------------------------------------------------------------
\* Properties

\* Types; a tile in the bucket or at the edge has as many hashes as its width
\* says.
Tile == [l : -1 .. TopLevel, n : Nat, w : 1 .. TileWidth]
TypeOK ==
    /\ run \in 0 .. MaxRuns /\ up \in BOOLEAN
    /\ treeSize \in 0 .. MaxSize /\ updated \in 0 .. MaxSize
    /\ pc2 \in {"recv", "upload", "failed"}
    /\ DOMAIN edge = -1 .. TopLevel
    /\ \A l \in -1 .. TopLevel :
         edge[l].w \in 0 .. TileWidth /\ DOMAIN edge[l].data = 1 .. edge[l].w
    /\ \A id \in DOMAIN tiles : id \in Tile /\ DOMAIN tiles[id] = 1 .. id.w
    /\ \A u \in uploads : u.id \in Tile /\ DOMAIN u.data = 1 .. u.id.w
    /\ sth \in Seq(Leaf)
    /\ heads \subseteq 0 .. MaxSize

\* The edge tiles are enough: neither a new tile nor a root hash ever needs a
\* hash stageTwo does not have, in a running process or a restarted one.
NoHashMissing == pc2 # "failed"

\* The root hash signed with a size is of that many leaves, each at its index.
RootIsOfTheTree ==
    /\ up /\ pc2 = "recv" => treeSize = Len(sth)
    /\ \A i \in 1 .. Len(sth) : sth[i].idx = i - 1

\* Tree heads are consistent: a root hash computed from edge tiles, whatever
\* tiles a crashed pool left behind, extends the one before.
RootGrows == [][IsPrefix(sth, sth')]_sth

\* At any moment the bucket has what a new process verifies: the tiles of the
\* tree head, at their exact widths, with the hashes of the tree head.
ReloadSucceeds == Loads

\* The data tile that LoadLog takes unverified agrees with the level zero tile
\* it was not compared with.
DataTileMatches ==
    sth # <<>> =>
        LET id == DataTile(Len(sth))
        IN  {id, [id EXCEPT !.l = 0]} \subseteq DOMAIN tiles
            /\ tiles[id] = tiles[[id EXCEPT !.l = 0]]

-----------------------------------------------------------------------------
\* The inductive invariant

\* The tree of the running process: the published leaves, then those of the pool.
Tree == [i \in 1 .. updated |->
           IF i <= Len(sth) THEN sth[i] ELSE [idx |-> i - 1, run |-> run]]

\* The tiles a growing tree gets, with the data tiles beside those of level 0.
AllTiles(old, new) ==
    NewTiles(old, new)
      \cup {[id EXCEPT !.l = -1] : id \in {i \in NewTiles(old, new) : i.l = 0}}

\* A tile reaches no further than a tree.
Within(size, id) == id.n * TileWidth + id.w <= Count(size, LevelOf(id))

\* A tile of the bucket is that of a tree, or has its hashes as far as it reaches.
Has(t, id) == id \in DOMAIN tiles /\ tiles[id] = Content(t, id)
Agrees(t, id) ==
    \A k \in 1 .. id.w :
        id.n * TileWidth + k <= Count(Len(t), LevelOf(id)) =>
            tiles[id][k] = Hash(t, LevelOf(id), id.n * TileWidth + k - 1)

\* Where the process is between the tree head and the pool.
SizesFit ==
    /\ pc2 # "failed" /\ (pc2 = "recv" => updated = treeSize)
    /\ IF up THEN run > 0 /\ treeSize = Len(sth) /\ updated \in treeSize .. treeSize + MaxPool
       ELSE pc2 = "recv" /\ treeSize = 0
    /\ \A i \in 1 .. Len(sth) : sth[i].idx = i - 1
    /\ Len(sth) \in heads /\ \A size \in heads : size <= Len(sth)

\* The edge has the partial tile of every level that has one.  Of the other
\* levels nothing is asked: nothing is needed.
EdgeFits ==
    up =>
      /\ \A l \in Level : Partial(updated, l) > 0 =>
           LET id == TileId(l, Count(updated, l + 1), Partial(updated, l))
           IN  edge[l] = [n |-> id.n, w |-> id.w, data |-> Content(Tree, id)]
      /\ edge[-1].n \in Nat /\ edge[-1].n * TileWidth + edge[-1].w = updated
      /\ edge[-1].data = Content(Tree, TileId(-1, edge[-1].n, edge[-1].w))

OverlayFits ==
    pc2 = "upload" =>
      \A l \in Level :
        /\ DOMAIN overlay[l] = Count(treeSize, l) .. Count(updated, l) - 1
        /\ \A j \in DOMAIN overlay[l] : overlay[l][j] = Hash(Tree, l, j)

\* Every tile of the pool is still to be uploaded or in the bucket.
UploadsFit ==
    /\ \A u \in uploads : u.id \in AllTiles(treeSize, updated)
                          /\ u = [id |-> u.id, data |-> Content(Tree, u.id)]
    /\ \A id \in AllTiles(treeSize, updated) :
         Has(Tree, id) \/ [id |-> id, data |-> Content(Tree, id)] \in uploads

\* The bucket has the tiles of the tree head, above level 0 at every width (a
\* pool never completes two hashes there), and the last tiles of former heads.
BucketFits ==
    /\ \A id \in AllTiles(0, Len(sth)) : Has(sth, id)
    /\ \A l \in Level \ {0} : \A c \in 1 .. Count(Len(sth), l) :
         Has(sth, TileId(l, (c - 1) \div TileWidth, ((c - 1) % TileWidth) + 1))
    /\ \A size \in heads \ {0} :
         {DataTile(size), [DataTile(size) EXCEPT !.l = 0]} \subseteq DOMAIN tiles

\* What crashes leave behind: leaves at their index, hashes of published subtrees.
LeftoversFit ==
    /\ \A id \in DOMAIN tiles : LevelOf(id) = 0 =>
         tiles[id] = [k \in 1 .. id.w |->
                        <<[idx |-> id.n * TileWidth + k - 1, run |-> tiles[id][k][1].run]>>]
    /\ \A id \in DOMAIN tiles :
         id.l > 0 => /\ id.n * TileWidth + id.w <= Count(Len(sth), id.l) + 1
                     /\ Agrees(sth, id)
    /\ run = 0 => tiles = <<>>
    /\ run = 1 => \A id \in DOMAIN tiles :
         IF up THEN Within(updated, id) /\ Has(Tree, id) ELSE Agrees(sth, id)

IInv == /\ TypeOK /\ SizesFit /\ EdgeFits /\ OverlayFits /\ UploadsFit
        /\ BucketFits /\ LeftoversFit
=============================================================================
