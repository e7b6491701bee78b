------------------------------ MODULE Monitor ------------------------------
(***************************************************************************)
(* What itko-monitor reads from the tiles: the hashes of its proofs, the   *)
(* entries of get-entries and the entry of get-entry-and-proof.  It keeps  *)
(* no state; its reads are functions of the bucket, and every property     *)
(* below is an invariant over all that a client may ask in that state.     *)
(***************************************************************************)
EXTENDS Tiles

CONSTANT MaxGetEntry   \* maxGetEntry (1024, on Fastly 75)
ASSUME MonitorAssumption == MaxGetEntry \in Nat \ {0}

-----------------------------------------------------------------------------
\* getTile: the full tile if there is one, else the tile as wide as asked for;
\* its data, or nothing.
GetTile(id) ==
    LET full == [id EXCEPT !.w = TileWidth]
    IN  IF full \in DOMAIN tiles THEN tiles[full]
        ELSE IF id \in DOMAIN tiles THEN tiles[id] ELSE <<>>

\* tlog.TileForIndex: the narrowest tile that has hash j of a level.  Of an index
\* of -1 tlog.StoredHashIndex makes 0.
TileForIndex(l, j) ==
    LET i == IF j < 0 THEN 0 ELSE j
    IN  TileId(l, i \div TileWidth, (i % TileWidth) + 1)

\* hashreader: tiles with the number of the tree's final tile get its width.
\* Mutation: the final tile is not a special case.
HashTileAsIndexed(size, l, j) == TileForIndex(l, j)
HashTile(size, l, j) ==
    LET final == TileForIndex(0, size - 1)
        id == TileForIndex(l, j)
    IN  IF id.n = final.n THEN [id EXCEPT !.w = final.w] ELSE id

\* The data HashFromTile takes hash j from, nothing if it is shorter than the
\* tile or the tile does not reach that hash.
HashData(size, l, j) ==
    LET id == HashTile(size, l, j)
    IN  IF Len(GetTile(id)) < id.w \/ id.w < TileForIndex(l, j).w THEN <<>>
        ELSE GetTile(id)

\* get_entries: the range is cut to the limit and to the tree head.  On an empty
\* tree the end is -1.
EndOf(start, end) ==
    LET limited == IF end - start > MaxGetEntry THEN start + MaxGetEntry ELSE end
    IN  IF limited >= Len(sth) THEN Len(sth) - 1 ELSE limited

\* Its last tile has the width of the tree head's final tile, if it is that one.
\* Mutation: it has the width that reaches the last entry.
LastTileAsIndexed(end) == [TileForIndex(0, end) EXCEPT !.l = -1]
LastTile(end) ==
    LET final == TileForIndex(0, Len(sth) - 1)
        id == TileForIndex(0, end)
    IN  [id EXCEPT !.l = -1, !.w = IF id.n = final.n THEN final.w ELSE id.w]

\* One tile, or the first, those between and the last, all but the last full.
EntryTiles(start, end) ==
    LET first == TileId(-1, start \div TileWidth, TileWidth)
        last == LastTile(end)
    IN  IF first.n = last.n THEN <<last>>
        ELSE <<first>>
               \o [i \in 1 .. last.n - first.n - 1 |-> TileId(-1, first.n + i, TileWidth)]
               \o <<last>>

\* The entries of the range, or nothing when a tile is not there.  The end is
\* compared as an unsigned number, so that -1 is no end at all.
GetEntries(start, end) ==
    LET last == EndOf(start, end)
        ids == EntryTiles(start, last)
        data == FlattenSeq([i \in DOMAIN ids |-> GetTile(ids[i])])
        kept[k \in 0 .. Len(data)] ==
          IF k = 0 THEN <<>>
          ELSE IF data[k][1].idx >= start /\ (last = -1 \/ data[k][1].idx <= last)
          THEN Append(kept[k - 1], data[k]) ELSE kept[k - 1]
    IN  IF \E i \in DOMAIN ids : GetTile(ids[i]) = <<>> THEN <<>> ELSE kept[Len(data)]

\* The subtrees whose hashes the proofs of a tree are made of.
ProofHashes(size) ==
    {lj \in Level \X (0 .. MaxSize) :
        Leaves[lj[1]] < size /\ (lj[2] + 1) * Leaves[lj[1]] <= size}

\* get_sth_consistency refuses sizes beyond the tree head.
ConsistencyRefused(first, second) == first > second \/ second > Len(sth)

\* get_proof_by_hash and get_entry_and_proof refuse trees beyond the tree head and
\* leaves beyond the tree.  A leaf's hash fixes its index, which is part of it.
InclusionRefused(i, size) == size > Len(sth) \/ i < 0 \/ i >= size

\* get_entry_and_proof: the entry is looked for in the tile that just reaches
\* it.  NoLeaf is an error.
\* Mutation: it is the first entry of the tile.
NoLeaf == [idx |-> -1, run |-> 0]
EntryTile(i) == [TileForIndex(0, i) EXCEPT !.l = -1]
EntryOfTileFirst(i) ==
    IF GetTile(EntryTile(i)) = <<>> THEN NoLeaf ELSE GetTile(EntryTile(i))[1][1]
EntryOfTile(i) ==
    LET data == GetTile(EntryTile(i))
        at == {k \in DOMAIN data : data[k][1].idx = i}
    IN  IF at = {} THEN NoLeaf ELSE data[CHOOSE k \in at : \A o \in at : k <= o][1]

-----------------------------------------------------------------------------
\* Properties

\* The tile read for a hash of a tree has that hash, and those before it.
ServesHash(size, l, j) ==
    LET data == HashData(size, l, j)
    IN  /\ data # <<>>
        /\ \A k \in 1 .. (j % TileWidth) + 1 :
             data[k] = Hash(sth, l, (j \div TileWidth) * TileWidth + k - 1)

\* Every inclusion and consistency proof for any tree head there ever was is
\* made of the hashes of the tree.
ProofsServed ==
    \A size \in heads : \A lj \in ProofHashes(size) : ServesHash(size, lj[1], lj[2])

\* What getTile finds for a tile contradicts the tree head: it is of a pool that
\* a crashed process did not publish.
Leftover(id) ==
    LET l == IF id.l = -1 THEN 0 ELSE id.l
        data == GetTile(id)
    IN  \E k \in DOMAIN data :
          /\ id.n * TileWidth + k <= Count(Len(sth), l)
          /\ data[k] # Hash(sth, l, id.n * TileWidth + k - 1)

\* While no process has died, no tile contradicts the tree head, whatever pool
\* is being uploaded.  After a crash it can only be the lowest tile, of hashes or
\* of data, that the log still has to fill, never a hash of a complete subtree.
LeftoversConfined ==
    \A id \in DOMAIN tiles :
        Leftover(id) => run > 1 /\ id.l <= 0 /\ id.n = Len(sth) \div TileWidth

\* Apart from leftovers, the proofs of get-sth-consistency and get-proof-by-hash
\* for every tree head there ever was, and every leaf it covers, are answered,
\* with the hashes of the tree.
SoundProofsServed ==
    /\ \A size \in heads : \A lj \in ProofHashes(size) :
          \/ Leftover(HashTile(size, lj[1], lj[2]))
          \/ ServesHash(size, lj[1], lj[2])
    /\ \A first \in heads : \A second \in heads :
          first <= second => ~ConsistencyRefused(first, second)
    /\ \A size \in heads : \A i \in 0 .. size - 1 : ~InclusionRefused(i, size)

\* Ends beyond the limit or the tree head are all cut to it: one is enough.
EndsToAsk(start) ==
    {start} \cup {e \in start .. Len(sth) : e - start <= MaxGetEntry + 1}

\* Apart from leftovers, get-entries returns the entries of the range, from the
\* start on, up to its limit: never another entry, never an error inside the
\* tree, and nothing from beyond a tree head that is not empty.
SoundEntriesServed ==
    \A start \in 0 .. MaxSize : \A end \in EndsToAsk(start) :
        LET es == GetEntries(start, end)
            ids == EntryTiles(start, EndOf(start, end))
        IN  \/ sth = <<>>
            \/ \E i \in DOMAIN ids : Leftover(ids[i])
            \/ /\ Len(es) = (IF start < Len(sth) THEN EndOf(start, end) - start + 1 ELSE 0)
               /\ \A i \in 1 .. Len(es) : es[i] = <<sth[start + i]>>

\* The entry of get-entry-and-proof and its proof are read from tiles of different
\* widths.  Once the tile of the entry is found, the entry has the index asked for
\* and is the one the proof is about; another pool's entry of that index takes its
\* place only after a crash, and only in the tile that the log still has to fill.
EntryMatchesProof ==
    \A i \in 0 .. Len(sth) - 1 :
        LET e == EntryOfTile(i)
        IN  /\ e = NoLeaf <=> GetTile(EntryTile(i)) = <<>>
            /\ e # NoLeaf =>
                 /\ e.idx = i
                 /\ e = sth[i + 1] \/ (run > 1 /\ i \div TileWidth = Len(sth) \div TileWidth)

\* get-entry-and-proof finds the tile of every entry the tree head covers.
EntryTileFound == \A i \in 0 .. Len(sth) - 1 : GetTile(EntryTile(i)) # <<>>
=============================================================================
