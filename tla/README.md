# itko, specified and checked

TLA+ models of the itko certificate transparency log, TLC configurations that
check them on small instances, and TLAPS proofs of the main results for every
value of the constants. File and line references are to the Go sources of this
repository.

## The system

itko is two programs around one bucket of objects (S3 or a directory).

**itko-submit** takes certificates and writes the log. Inside one process:

| Part | State | Operations |
|---|---|---|
| stageZero (`ctsubmit/logic.go:61-210`), a goroutine per request | the return path of the request, a channel of capacity 1 | validate the chain, look the certificate up in the dedupe files, otherwise send it to stageOne and wait five seconds for the answer; sign the SCT |
| stageOne (`logic.go:212-276`), one goroutine | next index, open pool, time of the last flush | number an entry and put it into the pool; close the pool when it is full, when the last flush is long ago, or at the timer; send it to stageTwo |
| stageTwo (`logic.go:278-460`), one goroutine | the edge tiles, the size of the tree | upload data tiles, hash tiles, record hashes and issuers of a pool in parallel; then the tree head, the checkpoint and the dedupe files; then answer the pool's entries |
| LoadLog (`config.go:103-390`) and `Log.Start` | the Consul lock, the configuration | take the lock, load and verify the edge tiles of the tree head, start the stages; die when the lock is lost or a stage ends |
| Bucket (`bucket.go`) | tiles, `get-sth`, `checkpoint`, `issuer/`, `int/hashes/`, `int/dedupe/` | put a tile or a head; merge sorted records into the hash and dedupe files |

The stages are coupled by two bounded channels (200 entries, 2 pools) and by the
return paths. Any error in stageTwo ends it; it releases the lock, the loss of the
lock is fatal, and the supervisor (`example/supervisor.d/`) starts the process
again. A second instance may wait for the lock.

**itko-monitor** serves everything else from the bucket and keeps no state:
proofs, entries, heads (`ctmonitor/logic.go`, `fetch.go`), over HTTP, from a
directory, or on Fastly with a cache and a request budget.

What is hard: handlers, stages and timers interleave; a pool is published in many
uploads of which a crash keeps any subset; two heads are signed one after the
other; the tree is never in memory, only its right edge; a process that restarts
knows only what the tree head vouches for; the monitor reads while stageTwo
writes, and reads what crashed pools left behind.

What makes it correct: every SCT is of a leaf that the published tree head covers
(the "actual MMD of the log is zero", `README.md:27`); heads only grow and agree;
what a head covers can be served; a duplicate is answered from the log and always
the same way; the edge tiles suffice and can be loaded again; requests and pools
come to an end.

## Modules

| Module | What it is |
|---|---|
| `CTLog` | what the log promises: a growing sequence of leaves numbered by position, SCTs only for its leaves |
| `Submit` | one itko-submit process, its crashes and restarts, and the bucket |
| `SubmitProofs` | the theorems about `Submit` |
| `Tiles` | stageTwo's tiles: edge, overlay, uploads, root hash, reload |
| `TilesProofs` | the theorems about `Tiles` |
| `Monitor` | the monitor's reads, as functions of the bucket of `Tiles` |
| `MonitorProofs` | the theorems about `Monitor` |
| `Failover` | several instances, the Consul lock, and tree heads on their way to the bucket |
| `FailoverProofs` | the theorems about `Failover` |
| `RecordIndex` | what the record-hash and dedupe files promise: a growing list per hash |
| `RecordLists` | the list that a sequence of records has for a hash, used by `RecordIndex` and `Records` |
| `Records` | the files behind it: shared by the hashes of one prefix, read, merged and written back |
| `RecordsProofs` | the theorems about `Records` |
| `FsStorage` | itko-submit on a directory: truncate, write, stop, supervisor and container start |
| `FsStorageProofs` | the theorems about `FsStorage` |
| `Fastly` | get-entries of the monitor on Fastly: request cache, edge cache, request budget |
| `FastlyProofs` | the theorems about `Fastly` |
| `MCSubmit`, `MCTiles`, `MCFailover`, `MCRecords`, `MCFsStorage`, `MCFastly` | small instances for TLC |

`CTLog` and `RecordIndex` are abstract; `Submit` is shown to implement the one, `Failover` to do
so up to the put that breaks it, and `Records` the other. `Monitor` extends `Tiles`, so that the monitor reads the bucket
at every moment of the uploads.

### Submit

One action per step of a goroutine between two points where others can be seen:
a channel operation, one bucket call, a timer. `AnswerDuplicate`, `MissDuplicate`,
`Enqueue`, `Respond`, `Timeout` are stageZero; `StageOneReceive`, `StageOneTimer`,
`StageOneSend` stageOne; the actions from `StageTwoReceive` to `BatchDone` are
stageTwo in the order of its code. `Fail` is an error of a bucket call: the call may
have taken effect, since `Fail` may also come right after its action. `Die` loses
everything but the bucket; `Exit` is the death a failed stageTwo brings about,
`Crash` any other. `LoadLog` starts from the tree head.

Time passes for stageOne's open pool (`Tick`): `sinceFlush` is the age of `lastFlushTime`,
`sinceArm` that of the timer, which the select arms anew for every entry it receives. The timer
is due one `FlushInterval` after it was armed (`StageOneTimer`); an entry that comes when the
last flush is that long ago closes the pool (`FlushDue`). Both ages stand still while stageOne is
blocked sending its pool, since `lastFlushTime` is taken after the send.
`OpenPoolIsFlushedInTime` is what the two conditions give together: with the timer alone a
trickle of entries would keep the pool open until it is full. The five seconds of a handler are
not on this clock: `Timeout` may come at any time.

Abstractions: a certificate is a record of its fingerprint (`fp`), what its Merkle
leaf says (`body`) and the other certificates of its chain; a tree head is the
sequence of entries it covers; `tree` is what the edge tiles in memory stand for,
extended before anything is uploaded as in the code. `MissDuplicate` is always
enabled: the code takes any error of the lookup for a miss. Record hashes and dedupe
files are written one key at a time and the record hashes of a pool one by one, a
finer grain than the code's files, so that a crash can cut the uploads anywhere. All
records of a pool for one certificate go into its dedupe file in one put, behind the
older ones, and a lookup takes the first.

### Tiles and Monitor

`Tiles` takes up the publication loop again, with the tiles in place of the sequence
of entries and without the channels. A pool of any size is received (`ReceivePool`), all
its hashes and tiles are computed, its tiles are uploaded one by one in any order
(`PutTile`), then the root hash is computed from overlay and edge, and signed
(`SetSth`). The process dies anywhere; `LoadLog` fetches the tiles that
tlog.TileHashReader fetches, at their exact widths, and verifies them.

The hash of a subtree is the sequence of leaves below it, a hash without collisions,
so verification is equality of contents. A leaf carries its index and the run of the
process that sequenced it: sequenced again after a crash, it is another leaf. Tiles are
whole units, the levels inside a tile are not told apart. What the tlog library does
(`NewTiles`, `TileForIndex`, `TreeHash`, `TileHashReader`) is modelled from how the code
uses it and marked external.

`Monitor` has no actions: its reads are operators, and its properties quantify over
everything a client may ask for in a state of the bucket, mid-upload included: any
pair of tree heads there ever was, any leaf, any range. (A client only knows published
heads; what the monitor makes of other tree sizes is up to it.) What a crashed pool leaves
behind is a `Leftover`; `LeftoversConfined` says where it can be, `SoundProofsServed` and
`SoundEntriesServed` that everything else is served rightly. `EntryMatchesProof` does without
the word: whatever tile get-entry-and-proof finds, the entry it takes from it has the index asked
for, and is the entry of the tree unless a process has died and the tile is the one that the log
still has to fill.

Three details of the code that the model keeps. get-entries returns up to limit + 1
entries, since both ends of a range are included. On an empty tree its end is -1, which as
an unsigned number is no bound. And a leftover narrower data tile stays when the log later
passes its width in one pool: get-entry-and-proof, which asks for just that width, finds
another pool's entry of that index in it until the full tile is there.

### Failover

An instance waits for the lock (`Acquire`), loads the log (`LoadLog`), and publishes one
pool after the other: `SendSth` is stageTwo up to the call of SetSth, `PutLands` or
`PutLost` the fate of the put, `Answer` the end of the pool. A pool is empty or has one
leaf; all that `Submit` and `Tiles` say of the way to the tree head is left out, since
get-sth is the one object that decides what the log is. The put is a message of its own:
it may land after its sender has failed, died or lost the lock.

The lock is what Consul makes of it: `FreeLock` is the release after a stage has ended or
at an interrupt, or the end of the owner's session, and it comes whatever the owner is doing.
`LockLost` is `log.Fatal`, in a goroutine of its own that nothing waits for. No write is compared
with the lock, so two instances can publish at a time, and the code has nothing that keeps one
from it: `SctIncluded` is violated (`FailoverLockLost`).

What the code does ensure is the rest. A put is `late` when another process has taken the lock
since its sender did (`owner`, a history variable); this is what a fencing token in the write
would refuse. `LossNeedsLatePut` says that an SCT is lost only if a late put takes effect, and
`OneLogUntilLatePut` that all instances together are the abstract log until then. Deaths and
failures at any point, a put that lands after its sender has failed or died, a lock that is
freed while its owner works, and a superseded instance that still signs SCTs are all included and
cost nothing by themselves. It takes that a failed put ends the process, as it may still land, and
that the log is loaded after the lock is taken: the mutants drop one or the other.

### Records and RecordIndex

One action per bucket call and per insertion of `PutRecordHashes` and `PutDedupeEntries`,
which are the same procedure on records of two lengths: `Call` hands over a pool's records
with consecutive indices, `GetFile` reads each file once, `InsertRecord` puts one record
behind those with the same hash, `PutFile` writes a file back, in any order, `Return` is
the end without an error. `Die` is an error or a crash anywhere; `Restart` numbers from
any index again, since records are written before the tree head. The index is cut to 40
bits as its bytes are (`ToBytes`).

`InsertIndex` describes the place the code's loop ends at; `IsFirst` is the linear search
that lookups make. `RecordIndex` has one list per hash and knows no files: that hashes
share files, and that a file is rewritten as a whole, cannot be told from outside.
The mapping takes the list of a hash out of its file (`ListOf`, a recursive function of
`RecordLists`).

### FsStorage

`FsStorage.Set` is `os.WriteFile`: `OpenFile` truncates, `WriteSome` leaves the file short,
`WriteAll` completes it; `MkdirAll` is the second try after a missing directory. `Stop` comes
between any of them. Two things start the process again: the supervisor, and the container,
whose entry point puts `{}` into a `get-sth` that is empty or missing (`test -s`). One file
each stands for the record hashes, the issuers and the tiles of a tree size. A short file of
record hashes has any subset of its records: the code reads what is there.

### Fastly

`FastlyStorage.Get` is split by where the object comes from: `GetMemo` (the request has it
already, or has been told that it does not exist), `GetEdge`, `GetBackend` and `GetFails`; only
the last two cost a request. Around it, get-entries step by step: `ReadSth`, `ReadTile` with
the full tile first, `ReadIssuer` while the budget lasts, `AddEntry`, and `Break` for
`break outerloop`. One client follows the log; all other requests are `OtherRequest`, which
may put any object into the edge cache, and objects leave it at their max-age or earlier.
`local` is the server with `-local`, which has no edge cache and reports a 404 as an error:
it loses the fallback to the narrower tile (`fastly.go:207`). `AnswerSound` allows it that
failure and no other (`LocalMiss`): a tile was not found in full width, and the range reaches the
tile that the log still has to fill, or starts behind the tree head.

The edge cache keeps get-sth for its max-age, 12 hours if the bucket does not name one
(`fastly.go:163`), so a tree head may be old when it is used. `DESIGN.md:25` has "The true MMD is 0 and
is reflected in all other endpoints"; the model shows that answers are right for the old
head, and that followers get on once it has expired. Objects other than get-sth never change
in this model: leftovers are in `Tiles` and `Monitor`.

## Runs

| Run | Question | Result |
|---|---|---|
| `SubmitSafety` | two copies of a certificate and another one, one process after the other; does an open pool get old | all safety properties hold |
| `SubmitLiveness` | the inductive invariant; does `Submit` implement `CTLog`; do handlers, pools, entries and the checkpoint come to an end | yes, under the fairness below |
| `SubmitPrecert` | are two SCTs for one index identical | no, see findings |
| `TilesCrash` | the inductive invariant; root hashes and reload over crashes at any upload; where are leftovers, and is everything else served rightly | all hold |
| `TilesOrphan` | are all proofs right after a crash | no, see findings |
| `TilesEntryAndProof` | is there a tile for every entry get-entry-and-proof is asked for | no, see findings |
| `Records` | shared files: no record lost, no lookup changed, one list per hash | all hold |
| `FsStorage` | what can a stop inside a write do, at worst | loss only by a reset of a torn `get-sth`; served unless the very file is torn |
| `FsStorageReset` | does every SCT stay in the log | no, see findings |
| `Fastly` | budget, answers, and does a follower get every leaf | all hold |
| `Failover` | what can go wrong between two instances, at worst; is a dead owner replaced | loss only by a put that lands after another process took the lock; yes |
| `FailoverLockLost` | does every SCT stay in the log of two instances | no, see findings |

**Bounds.** `SubmitSafety` has three requests, pools of up to two, a stageOne channel of
two and a stageTwo channel of one pool: enough for a full pool, an open pool behind a
closed one, a blocked send and a race of two copies in one pool and in two. The number
of crashes is not bounded: the bucket is finite because requests are.
`SubmitLiveness` has two requests, capacities of one, where everything blocks, pools of two
and two clock readings, so that two entries may have the same or another time, and a
re-sequenced certificate another one. Its two requests are copies of one certificate; they are
told apart by index and timestamp, and `SequencedIsPublished` follows each. The flush interval is
two ticks in `SubmitSafety`, so that an entry may come between two ticks of one interval, and one
tick in `SubmitLiveness`.

Tiles have three hashes and pools two: like 256 and 255, a pool is one less than a
tile, so each width of an upper tile is published by some pool, and no pool jumps over
a tile. Nine leaves give three levels: full and partial tiles on the lower two, and the
first hash on the third.
`TilesCrash` starts two processes: one leaves orphans, the other loads among them.
The bounded sizes and runs are why these runs do not check deadlock.

`Failover` has two instances, two certificates, so that both may give an index to
different leaves, two puts on their way, so that one of each owner may land in either order, and
logs of one leaf: a late put can take that leaf away (an empty head) or replace it by another.
Logs of two leaves with two certificates have more than twenty million states; the proof is for
any length. Deaths, failures and changes of the owner are not bounded.

`Records` has three hashes, two of them in one file, three indices, pools of two and one
restart: a pool with two records for one hash, with two for one file, and with two files of
which one is written before the crash. `FsStorage` has logs of two leaves and three starts: a
process that tears a file, one that meets it, and one that meets what that one made of it.
`Fastly` has tiles of two, three leaves, ranges that touch both tiles, a budget of four, the
least it may be (10 in the code: one head, two tiles with one fallback), chains of two
issuers that the budget runs out in, and one fault.

**Fairness.** `Fairness` asks for weak fairness of every goroutine step, of the clock (`Tick`) and
the due timers, of `LoadLog` (`autorestart=true`) and of `Exit` (a stage that ends releases
the lock). `StageOneReceive` has strong fairness: stageOne's select chooses among its
ready cases at random, so the timer cannot win for ever. The converse is not assumed: entries
that keep coming arm the timer anew and take it its turn, and then the age of the pool must
close it. Clients need not come, nothing
must fail, and a process may crash again and again: properties that need a running
process say so (`~up` as an alternative, or `<>[]up`).

In `Failover`, a waiting instance gets a lock that stays free (`lock.Lock(nil)` waits for
ever), a lock whose owner is dead or has failed becomes free (the session expires, a stage
that ends unlocks), and the watching goroutine gets to its `log.Fatal`. No instance has to
publish, and no put has to land or to fail.

In `Fastly`, the handler goes on, the client takes its answer and asks again, and an old tree
head leaves the edge cache at its max-age. Faults are bounded (`MaxFaults`): who is refused for
ever gets nothing. `Followed` excludes the local server, which answers no range in an
unfinished tile.

## Proofs

Every safety invariant, action property and refinement that a passing run checks is also a
theorem. What stays with TLC alone is at the end of this section.

`SubmitProofs` proves, for any requests, channel capacities, pool size and clock:

- `TypeCorrect`: `Spec => []TypeOK`, with the limits of channels and pool;
- `Inductive`: `Spec => []IInv`;
- from it `ZeroMergeDelay`, `Served`, `CheckpointConsistent`, `DedupePublished` (the
  invariants of `SubmitSafety`), `AnsweredDeduped`, and the action properties `AppendOnly`
  and `FirstRecordStays`;
- `FlushedInTime` (`OpenPoolIsFlushedInTime`), for any flush interval;
- `SameIndexSameSct`: two SCTs for one index are one SCT (`DuplicateSctIdentical`);
- `Implementation`: `Spec => ImplementsCTLog`, every step of the process a `Publish`, a
  `Promise` or a stutter of the abstract log.

Assumptions: `SubmitAssumption` (capacities and the flush interval are positive, `EntryOf` maps
requests to entries). `ZeroMergeDelay`, `SameIndexSameSct` and `Implementation` also need `FpDeterminesBody`, that a
fingerprint fixes what is logged: the run `SubmitPrecert` shows why.

The argument. `SctIncluded` is not inductive: an SCT is signed from what lies on a
return path, which comes from the pool stageTwo has finished, which was numbered by
stageOne long before. `IInv` says what holds along that way. Indices are positions in
the tree head and in the tiles in memory (`IndexIsPosition`); those tiles are the tree
head plus, while it is being published, the current pool (`TreeIsTreeHead`,
`TreeSizeIsTreeHead`); the pools in the channel and the open pool continue them without
a gap up to the next index (`PoolsContinueTree`, with the sizes before each pool as
witness); entries keep to the request they came from (`PoolsRouted`, `TreeSubmitted`);
what is answered is in the tree head (`PublishedBatch`, `AnswersPublished`); and when the
tree head is to be written, the uploads are there (`UploadsPrecedeTreeHead`). A process
that is down has no memory (`DownIsEmpty`), so the crash is one step of the proof and
the reload another. `AnsweredDeduped` needs to know that the dedupe files come before the
answers: whatever of a pool is being answered has its record (`BatchDeduped`,
`AnswersDeduped`).

`TilesProofs` proves, for any tile width of at least two, pool limit below it, number of tile
levels and of processes:

- `TreeOnTheEdge`: `Spec => []IInv`, and `TilesAreTyped`;
- from it `EveryHashIsFound` (`NoHashMissing`), `RootIsCorrect` (`RootIsOfTheTree`),
  `EveryReloadSucceeds` (`ReloadSucceeds`), `DataTileIsChecked` (`DataTileMatches`) and the
  action property `TreeHeadsAreConsistent` (`RootGrows`).

`TilesAssumption` asks for pools smaller than a tile (`MAX_POOL_SIZE` 255, `logic.go:215`,
against 256 hashes): it is what keeps a pool from completing two hashes of an upper level, so
that such a level has a tile at every width, and from filling more than one data tile.

The argument. `Tree` is the published leaves and those of the pool, and everything is said
relative to it. `SizesFit` says where stageTwo is between the two sizes. `EdgeFits` says that
the edge has the partial tile of every level that has one, and nothing of the other levels: a
level whose last tile is full, or that the reload did not fetch, has an edge that is never
read. `OverlayFits` has the hashes the pool completes, `UploadsFit` each of its tiles either to
be uploaded or in the bucket, `BucketFits` the tiles of every size the tree has passed.
`LeftoversFit` bounds what crashed pools leave: a tile of level zero has leaves at their
indices, a tile above it the hashes of the tree and at most one more, and until a second
process runs no tile contradicts the tree head. Then the lemmas follow a pool: all hashes are found level by level
(`StoredHashesAre`), the new tiles have the contents of the tree (`TileDataIs`), the root hash
joins the partial tiles to the whole tree (`RootHashIs`), data tiles are cut where the hash
tiles are (`DataUploadsAre`). A restart is the hard step: `FetchedAreNew` shows that the tiles
LoadLog fetches at their exact widths are among those of the last head, though the last leaf's
tile may be full and its parents' not; `BucketLoads` puts them in the bucket with the right
contents, over whatever was left there. `NarrowNew` shows that a level above zero gets its
tile at every width. Facts about all tile levels are proved by a least counterexample (`Least`)
instead of an induction, since the levels are a recursive function that unfolds by one step.

`MonitorProofs` proves, on this invariant and for any limit of get-entries, what is read of
such a bucket:

- `LeftoversAreConfined` (`LeftoversConfined`);
- `ProofsAreSound` (`SoundProofsServed`): every hash of every proof for every tree head there
  ever was, each with the exception of a leftover in its own tile;
- `EntriesAreSound` (`SoundEntriesServed`), with the same exception;
- `EntryMatches` (`EntryMatchesProof`): what is found for an entry is of its index, and of the tree
  but for one tile after a crash (`LeftoverIsLow` shows that it can be no other);
- `AllProofsServedBeforeACrash`: in the first process all proofs are served (`ProofsServed`),
  without exception, mid-upload included. The run `TilesOrphan` breaks `ProofsServed` in the
  second process: the crash cannot be dropped from the theorem.

The argument. A tile the monitor takes is either full or of the width asked for. A full one
within the tree has its hashes or is the leftover; at the width of a tree head's final tile
it is the tile of that head, and heads agree (`TilesAgree`). The code gives the final width of
level zero to every tile with the final tile's number, whatever its level; `AboveIsNotFinal`
shows that no proof asks for such a tile above level zero. There every width is in the bucket
(`ProofHashServed`). For get-entries, the tiles of a range joined are the leaves from the first
one's start (`JoinedTiles`), and the filter by index keeps just the range (`KeptRange`), inside
the tree and beyond it.

`FailoverProofs` proves, for any number of instances, any certificates, any puts on their way
and logs of any size, with no assumption on when the lock becomes free:

- `Inductive`: `Spec => []IInv`;
- `LossIsLate` (`LossNeedsLatePut`): an SCT is lost only by a put that takes effect after
  another process has taken the lock;
- `OneLog` (`OneLogUntilLatePut`): until then all instances together are the abstract log.

The argument. Who has the lock says little: it may be free, or another's, while its last owner
still works. What counts is who took it last (`owner`). `OnePutInTime`: a process has one put on
its way and goes on from nothing else meanwhile; only the owner's put is in time, and a take-over
makes every put under way late. As long as no late put has landed, the put in time is the tree
head or one leaf more (`PutsInTimeExtend`), so what the owner loads stays the tree head until its
own put lands (`OwnerFollowsTreeHead`), even if its predecessor died or failed with a put on its
way; and who answers, superseded or not, answers for what the tree head already covers
(`AnswersCovered`), since tree heads have only been extended since its put landed.
`FailoverLockLost` shows that the late put cannot be dropped from these theorems.

`RecordsProofs` proves, for any hashes, prefixes, pools and number of restarts (indices stay
below the limit of 40 bits, `RecordsAssumption`): `Inductive`, `TypeCorrect`,
`AlwaysSorted`, `NoRecordLost` (`RecordsKept`), `FirstStays` (`FirstMatchStays`) and
`Implementation`: `Spec => ImplementsRecordIndex`. The argument: a file in memory extends
the one in the bucket by the pool's records inserted so far (`MemoryExtendsFiles`), and
insertion behind equal hashes keeps the order, every record and every first match. That only
holds because nobody else writes the file meanwhile. For the refinement this is not enough:
`ListsMerged` says list by list what has been appended. An insertion appends to the list of
its own hash, since in a sorted file no record of that hash is behind the place, and leaves
the others alone (`IndicesInsert`); then `PutFile` is the append of a whole pool to the lists
of one path, and every other step a stutter or the call.

`FsStorageProofs` proves, for logs and numbers of starts of any size: `Inductive`,
`TypeCorrect`, `LossNeedsReset` (`LostByResetOnly`) and `HeadServed` (`ServedUnlessTorn`). The
argument: what has been done for the tree head to come is said file by file, as done, to do
or torn (`UploadsFor`), and the SCTs are in the tree in memory while `get-sth` is not whole
(`SctsKept`).

`FastlyProofs` proves, for any tile width, chains, limits, faults and contents of the edge cache:
`Inductive`, `BudgetNeverExceeded` (`BudgetKept`) and `AnswersRight` (`AnswerSound`). The
argument: caches hold what is right (`CachesRight`; an old tree head is right if it was
published), the tiles derived from a head are there, read one after the other, with a budget
for each (`TilesLeft`: no request before the head, one behind it, two behind the first tile,
three with a fallback, four at most), and the chain is a prefix of that of the entry behind the
answer (`ChainOfNext`). `RequestLimit >= 4` is the assumption that makes the code's comparison
with zero sound: before the first look at the budget four requests can have been made. The
code's ranges are narrower than a tile (`MaxGetEntry` 75, 256), which gives two tiles at most.

Only model-checked: liveness (`HandlersEnd`, `PoolsEnd`, `SequencedIsPublished`,
`CheckpointCatchesUp`, `TakenOver`, `Followed`), since the prover has no ENABLED; and the
findings, which are counterexamples. The library's induction theorems cannot be used for what
a recursive definition computes, and `SelectSeq` is not expanded by the prover: that is why
the filters of `Monitor` and `Records` are recursive functions over a finite range. `FailoverLockLost`, `FsStorageReset` and `SubmitPrecert` show that the late put in
`LossNeedsLatePut`, the exception in `LostByResetOnly` and `FpDeterminesBody` cannot be dropped.

## Findings

Violation runs, each a disagreement of the code with what the repository says of it:

1. `SubmitPrecert`: dedupe records are keyed by the fingerprint of the precertificate
   alone, but the SCT of a duplicate is signed over the issuer key hash of its own chain.
   One precertificate under two chains with different issuer keys gets two SCTs for one
   index, the second of a leaf that is not in the log.
2. `TilesOrphan`: a full tile of a pool that crashed before its tree head stays in the
   bucket, and the monitor prefers it to the narrower tile of the tree until the log fills
   that tile itself. `LeftoversConfined` says that nothing else is spoilt, and
   `ReloadSucceeds` that the writer is not affected.
3. `TilesEntryAndProof`: get-entry-and-proof asks for the narrowest data tile with the
   entry, which exists only if a pool ended there.
4. `FailoverLockLost`: an instance whose lock was released at an interrupt, or lost, goes on
   until `log.Fatal` runs, and its put may come later still. With the next owner at work,
   one tree head replaces another that it does not extend, after SCTs were given for it.
   `LossNeedsLatePut` says that this is the only way.
5. `FsStorageReset`: `get-sth` is truncated before it is written, at every flush also without
   new entries. After a stop in between, the supervisor alone fails for good, but a start of the
   container puts `{}` there, and the log begins again at size zero.

## Not modelled

Chain validation, parsing, signatures (`rfc6979`, `digitallysign_ol.go`, `checkpoint_ol.go`), the
byte formats of tiles, entries and records, HTTP, and the configuration that only stops a
process before it starts: data, not control. `itko-setup` writes the initial state and is that.
The integration program drives the two others from outside.

Puts are atomic but in `FsStorage`, where they are truncation and write, and in `Failover`, where
one may come late. `Submit` and `Tiles` have one instance at a time; `Failover` has several but only
their tree heads, not the tiles and dedupe files two writers would mix. The URL and file
storages of the monitor are reads without state. get-roots and get-sth pass one object on. The
proofs of the monitor do not look at the request budget: a log whose proofs need more than ten
cold objects is a hazard in `PROJECT.json` that no property covers, as is the tile asked for on an
empty tree.

## What is left

1. The dedupe files under two instances: a late put of a dead owner sets a file back.
2. The proofs of the monitor on Fastly, with objects of different ages from the edge cache.
3. `Tiles` as a refinement of `CTLog`: `RootIsCorrect` and `TreeHeadsAreConsistent` are its two
   halves for the tree, the answers are in `Submit`.
