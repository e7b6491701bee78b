------------------------------- MODULE Fastly -------------------------------
(***************************************************************************)
(* itko-monitor on Fastly: get-entries with a request budget.  Storage.Get *)
(* reads from three places: what this request has fetched itself, the      *)
(* cache of the edge, which all requests share and which keeps an object   *)
(* for its max-age, and the bucket.  Only the last costs a request.        *)
(*                                                                         *)
(* One request is followed; all others show in what they put into the      *)
(* edge cache.  The log grows meanwhile, its objects do not change: what   *)
(* crashed pools leave behind is in Tiles and Monitor.                     *)
(***************************************************************************)
EXTENDS Integers, Sequences

CONSTANTS
    Issuer,        \* the issuers
    Chain,         \* the issuers of each leaf, in order
    TileWidth,     \* 256
    MaxGetEntry,   \* maxGetEntry (75)
    RequestLimit,  \* requestLimit (10)
    MaxSize,       \* bound: leaves of the log
    MaxFaults      \* bound: requests that fail and objects that leave the edge early

ASSUME FastlyAssumption ==
    /\ TileWidth \in Nat \ {0} /\ MaxSize \in Nat \ {0} /\ MaxFaults \in Nat
    /\ MaxGetEntry \in 1 .. TileWidth
    /\ RequestLimit \in Nat /\ RequestLimit >= 4
    /\ Chain \in [0 .. MaxSize - 1 -> Seq(Issuer)]

VARIABLES
    local,     \* whether this is a local server, which has no edge cache
    size,      \* bucket: the tree size of get-sth
    uploaded,  \* bucket: the leaves whose tiles are there
    widths,    \* bucket: the tree sizes whose partial tiles are there
    edge,      \* the edge cache: the value of every object it has
    memo,      \* FastlyStorage.cache
    requests,  \* FastlyStorage.requests
    pc,        \* what the request does next
    from, to,  \* the range asked for, cut as the request goes on
    tiles,     \* the data tiles still to be read
    probed,    \* the full tile was not found
    entries,   \* the leaves of the range in the tiles read, without those answered
    answer,    \* the entries so far, with their chains
    chain,     \* the chain of the next one, as far as it is read
    client,    \* the first leaf the client does not have
    faults     \* faults so far

bucket == <<size, uploaded, widths>>
request == <<pc, from, to, tiles, probed, entries, answer, chain>>
vars == <<local, bucket, edge, memo, requests, request, client, faults>>

\* Objects, and their values: for get-sth the tree size, for a tile its width.
Sth == <<"get-sth", 0, 0>>
Tile(n, w) == <<"tile", n, w>>
IssuerFile(c) == <<"issuer", c, 0>>
Object == {Sth} \cup {Tile(n, w) : n \in 0 .. MaxSize, w \in 1 .. TileWidth}
                \cup {IssuerFile(c) : c \in Issuer}

NotFound == -1
Failed == -2

\* What is in the bucket.
Fetched(k) ==
    CASE k = Sth -> size
      [] k[1] = "tile" ->
           IF (IF k[3] = TileWidth THEN (k[2] + 1) * TileWidth <= uploaded
               ELSE k[2] * TileWidth + k[3] \in widths)
           THEN k[3] ELSE NotFound
      [] OTHER -> 0

With(cache, k, v) == [j \in DOMAIN cache \cup {k} |-> IF j = k THEN v ELSE cache[j]]

Init ==
    /\ local \in BOOLEAN
    /\ size = 1 /\ uploaded = 1 /\ widths = {1}
    /\ edge = <<>> /\ memo = <<>> /\ requests = 0
    /\ pc = "idle" /\ from = 0 /\ to = 0 /\ tiles = <<>> /\ probed = FALSE
    /\ entries = {} /\ answer = <<>> /\ chain = <<>>
    /\ client \in 0 .. MaxSize
    /\ faults = 0

-----------------------------------------------------------------------------
\* FastlyStorage.Get(k) returns v.

\* What the request has fetched itself, be it that there is no such object.
GetMemo(k, v) ==
    /\ k \in DOMAIN memo /\ v = memo[k]
    /\ UNCHANGED <<edge, memo, requests, faults>>

\* What the edge has; it is not kept for the rest of the request.
GetEdge(k, v) ==
    /\ k \notin DOMAIN memo /\ ~local /\ k \in DOMAIN edge
    /\ v = edge[k]
    /\ UNCHANGED <<edge, memo, requests, faults>>

\* What the backend answers.  The edge does not keep a 404, which a local server
\* reports as any other error.
\* Mutation: the edge keeps the 404, or does not keep anything.
Misses(k) == k \notin DOMAIN memo /\ (local \/ k \notin DOMAIN edge)
GetBackendKeeping404(k, v) ==
    /\ Misses(k)
    /\ requests' = requests + 1
    /\ memo' = With(memo, k, Fetched(k))
    /\ edge' = IF local THEN edge ELSE With(edge, k, Fetched(k))
    /\ v = IF local /\ Fetched(k) = NotFound THEN Failed ELSE Fetched(k)
    /\ UNCHANGED faults
GetBackendUncached(k, v) ==
    /\ Misses(k)
    /\ requests' = requests + 1
    /\ memo' = With(memo, k, Fetched(k))
    /\ edge' = edge
    /\ v = IF local /\ Fetched(k) = NotFound THEN Failed ELSE Fetched(k)
    /\ UNCHANGED faults
GetBackend(k, v) ==
    /\ Misses(k)
    /\ requests' = requests + 1
    /\ memo' = With(memo, k, Fetched(k))
    /\ edge' = IF local \/ Fetched(k) = NotFound THEN edge ELSE With(edge, k, Fetched(k))
    /\ v = IF local /\ Fetched(k) = NotFound THEN Failed ELSE Fetched(k)
    /\ UNCHANGED faults

\* The backend does not answer.
GetFails(k, v) ==
    /\ Misses(k) /\ faults < MaxFaults
    /\ faults' = faults + 1 /\ requests' = requests + 1
    /\ v = Failed
    /\ UNCHANGED <<edge, memo>>

Get(k, v) == GetMemo(k, v) \/ GetEdge(k, v) \/ GetBackend(k, v) \/ GetFails(k, v)

Value == {Failed, NotFound} \cup 0 .. MaxSize + TileWidth

-----------------------------------------------------------------------------
\* get_entries

\* A request: nothing fetched, the range cut to the limit.
Ask ==
    /\ pc = "idle" /\ client < MaxSize
    /\ \E end \in client .. MaxSize :
         to' = IF end - client > MaxGetEntry THEN client + MaxGetEntry ELSE end
    /\ from' = client
    /\ memo' = <<>> /\ requests' = 0
    /\ tiles' = <<>> /\ probed' = FALSE /\ entries' = {} /\ answer' = <<>> /\ chain' = <<>>
    /\ pc' = "sth"
    /\ UNCHANGED <<local, bucket, edge, client, faults>>

\* The range is cut to the tree head, and the tiles follow from it: the last one as
\* wide as the tree head makes it.
TilesOf(start, end, head) ==
    LET n == start \div TileWidth
        m == end \div TileWidth
        w == IF m = (head - 1) \div TileWidth THEN ((head - 1) % TileWidth) + 1
             ELSE (end % TileWidth) + 1
    IN  IF n = m THEN <<Tile(m, w)>> ELSE <<Tile(n, TileWidth), Tile(m, w)>>

ReadSth ==
    /\ pc = "sth"
    /\ \E v \in Value :
         /\ Get(Sth, v)
         /\ IF v >= 0
            THEN LET end == IF to >= v THEN v - 1 ELSE to
                 IN  pc' = "tile" /\ to' = end /\ tiles' = TilesOf(from, end, v)
            ELSE pc' = "failed" /\ to' = to /\ tiles' = tiles
    /\ UNCHANGED <<local, bucket, from, probed, entries, answer, chain, client>>

\* getTile: the full tile, and then the one as wide as asked for.
LeavesOf(n, w) == n * TileWidth .. n * TileWidth + w - 1
TileToRead ==
    IF probed THEN Head(tiles) ELSE Tile(Head(tiles)[2], TileWidth)
ReadTile ==
    /\ pc = "tile" /\ tiles # <<>>
    /\ \E v \in Value :
         /\ Get(TileToRead, v)
         /\ \/ /\ v > 0
               /\ tiles' = Tail(tiles) /\ probed' = FALSE /\ pc' = pc
               /\ entries' = entries \cup (LeavesOf(TileToRead[2], v) \cap from .. to)
            \/ /\ v = NotFound /\ TileToRead # Head(tiles)
               /\ probed' = TRUE /\ UNCHANGED <<tiles, entries, pc>>
            \/ /\ v = NotFound /\ TileToRead = Head(tiles)
               /\ pc' = "notfound" /\ UNCHANGED <<tiles, probed, entries>>
            \/ v = Failed /\ pc' = "failed" /\ UNCHANGED <<tiles, probed, entries>>
    /\ UNCHANGED <<local, bucket, from, to, answer, chain, client>>

TilesRead ==
    /\ pc = "tile" /\ tiles = <<>>
    /\ pc' = "issuer"
    /\ UNCHANGED <<local, bucket, edge, memo, requests, from, to, tiles, probed, entries, answer,
                   chain, client, faults>>

\* The next entry, if there is another one, and whether its chain is complete.
MoreEntries == entries # {}
NextLeaf == CHOOSE i \in entries : \A j \in entries : i <= j
ChainRead == Len(chain) = Len(Chain[NextLeaf])
AvailableReqs == RequestLimit - requests

\* Mutation: the budget is only looked at before the first issuer of an entry.
ReadIssuerUnchecked ==
    /\ pc = "issuer" /\ MoreEntries /\ ~ChainRead
    /\ chain = <<>> => AvailableReqs # 0
    /\ LET c == Chain[NextLeaf][Len(chain) + 1]
       IN  \E v \in Value :
             /\ Get(IssuerFile(c), v)
             /\ IF v >= 0 THEN chain' = Append(chain, c) /\ pc' = pc
                ELSE pc' = "failed" /\ chain' = chain
    /\ UNCHANGED <<local, bucket, from, to, tiles, probed, entries, answer, client>>
ReadIssuer ==
    /\ pc = "issuer" /\ MoreEntries /\ ~ChainRead
    /\ AvailableReqs # 0
    /\ LET c == Chain[NextLeaf][Len(chain) + 1]
       IN  \E v \in Value :
             /\ Get(IssuerFile(c), v)
             /\ IF v >= 0 THEN chain' = Append(chain, c) /\ pc' = pc
                ELSE pc' = "failed" /\ chain' = chain
    /\ UNCHANGED <<local, bucket, from, to, tiles, probed, entries, answer, client>>

AddEntry ==
    /\ pc = "issuer" /\ MoreEntries /\ ChainRead
    /\ answer' = Append(answer, [leaf |-> NextLeaf, chain |-> chain])
    /\ entries' = entries \ {NextLeaf} /\ chain' = <<>>
    /\ UNCHANGED <<local, bucket, edge, memo, requests, pc, from, to, tiles, probed,
                   client, faults>>

\* `break outerloop`: the answer ends before the entry whose chain is not complete.
\* Mutation: only the inner loop ends, and the entry is answered as it is.
BudgetUsedUp == MoreEntries /\ ~ChainRead /\ AvailableReqs = 0
BreakInner ==
    /\ pc = "issuer" /\ BudgetUsedUp
    /\ answer' = Append(answer, [leaf |-> NextLeaf, chain |-> chain])
    /\ entries' = entries \ {NextLeaf} /\ chain' = <<>>
    /\ UNCHANGED <<local, bucket, edge, memo, requests, pc, from, to, tiles, probed,
                   client, faults>>
Break ==
    /\ pc = "issuer" /\ BudgetUsedUp
    /\ pc' = "answered"
    /\ UNCHANGED <<local, bucket, edge, memo, requests, from, to, tiles, probed, entries, answer,
                   chain, client, faults>>

AllEntries ==
    /\ pc = "issuer" /\ ~MoreEntries
    /\ pc' = "answered"
    /\ UNCHANGED <<local, bucket, edge, memo, requests, from, to, tiles, probed, entries, answer,
                   chain, client, faults>>

\* The client takes the entries and asks for those behind them, or tries again.
Receive ==
    /\ pc \in {"answered", "failed", "notfound"}
    /\ client' = IF pc = "answered" THEN client + Len(answer) ELSE client
    /\ pc' = "idle"
    /\ UNCHANGED <<local, bucket, edge, memo, requests, from, to, tiles, probed, entries, answer,
                   chain, faults>>

-----------------------------------------------------------------------------
\* Around the request

\* stageTwo uploads the tiles of a pool, and then the tree head.
Upload ==
    /\ uploaded = size
    /\ uploaded' \in size + 1 .. MaxSize
    /\ widths' = widths \cup {uploaded'}
    /\ UNCHANGED <<local, size, edge, memo, requests, request, client, faults>>
Publish ==
    /\ uploaded # size
    /\ size' = uploaded
    /\ UNCHANGED <<local, uploaded, widths, edge, memo, requests, request, client, faults>>

\* Other requests put what they fetch into the edge cache.
OtherRequest ==
    /\ ~local
    /\ \E k \in Object \ DOMAIN edge :
         Fetched(k) # NotFound /\ edge' = With(edge, k, Fetched(k))
    /\ UNCHANGED <<local, bucket, memo, requests, request, client, faults>>

\* The max-age of the tree head is over.
SthExpires ==
    /\ Sth \in DOMAIN edge
    /\ edge' = [k \in DOMAIN edge \ {Sth} |-> edge[k]]
    /\ UNCHANGED <<local, bucket, memo, requests, request, client, faults>>

\* That of another object is, or the cache has no room for it.
Evicted ==
    /\ faults < MaxFaults
    /\ \E k \in DOMAIN edge \ {Sth} : edge' = [j \in DOMAIN edge \ {k} |-> edge[j]]
    /\ faults' = faults + 1
    /\ UNCHANGED <<local, bucket, memo, requests, request, client>>

Handle ==
    \/ ReadSth \/ ReadTile \/ TilesRead \/ ReadIssuer \/ AddEntry \/ Break \/ AllEntries
Next ==
    \/ Ask \/ Handle \/ Receive
    \/ Upload \/ Publish \/ OtherRequest \/ SthExpires \/ Evicted

\* The handler runs, the client asks again, and the tree head does not stay in the
\* cache for ever.
Fairness == WF_vars(Handle) /\ WF_vars(Receive) /\ WF_vars(Ask) /\ WF_vars(SthExpires)

Spec == Init /\ [][Next]_vars /\ Fairness

-----------------------------------------------------------------------------
\* Properties

\* Types; what is cached are objects with a value, and 404s in a request only.
TypeOK ==
    /\ local \in BOOLEAN
    /\ size \in 1 .. MaxSize /\ uploaded \in size .. MaxSize
    /\ widths \subseteq 1 .. MaxSize
    /\ DOMAIN edge \subseteq Object /\ \A k \in DOMAIN edge : edge[k] \in 0 .. MaxSize + TileWidth
    /\ DOMAIN memo \subseteq Object /\ \A k \in DOMAIN memo : memo[k] \in Value \ {Failed}
    /\ requests \in Nat /\ faults \in 0 .. MaxFaults
    /\ pc \in {"idle", "sth", "tile", "issuer", "answered", "failed", "notfound"}
    /\ from \in 0 .. MaxSize /\ to \in 0 .. MaxSize /\ probed \in BOOLEAN
    /\ entries \subseteq from .. to
    /\ client \in 0 .. MaxSize

\* get-entries never makes more requests to the backend than it may, although it
\* looks at the budget only before issuers and compares it with zero: it has not
\* been jumped over by then.
BudgetKept == requests <= RequestLimit

\* A local server takes a tile that is not there for an error and does not fall back
\* to the narrower one: it fails where the range reaches the tile that the log still
\* has to fill, or starts behind the tree head.
LocalMiss ==
    /\ local /\ tiles # <<>>
    /\ from > to \/ Head(tiles)[3] < TileWidth
    /\ \E w \in 1 .. TileWidth :
         LET k == Tile(Head(tiles)[2], w) IN k \in DOMAIN memo /\ memo[k] = NotFound

\* The answer is of consecutive leaves of the published log from the start of the
\* range on, each with its whole chain; it is short only when the budget is used up.
\* A tile is missed only by who starts behind the tree head that the edge has; other
\* errors are those of the backend, or the misses of a local server.
AnswerSound ==
    /\ \A i \in 1 .. Len(answer) :
          /\ answer[i] = [leaf |-> from + i - 1, chain |-> Chain[from + i - 1]]
          /\ answer[i].leaf <= to /\ to < size
    /\ pc = "answered" => from + Len(answer) > to \/ AvailableReqs = 0
    /\ pc = "notfound" => from > to
    /\ pc = "failed" => faults > 0 \/ LocalMiss

\* A client that goes on asking gets every published leaf: what the edge keeps of a
\* request that ran out of its budget makes the next one longer, and an old tree
\* head expires.
Followed == \A i \in 0 .. MaxSize - 1 : (size > i /\ ~local) ~> client > i

-----------------------------------------------------------------------------
\* The inductive invariant.

\* A cached tree head is one that was published, any other object what it is.  Only
\* a request keeps that there is no such tile.
Right(k, v) == v # NotFound /\ IF k = Sth THEN v \in widths /\ v <= size ELSE v = Fetched(k)
CachesRight ==
    /\ size \in widths /\ uploaded \in widths /\ widths \subseteq 1 .. uploaded
    /\ \A k \in DOMAIN edge : Right(k, edge[k])
    /\ \A k \in DOMAIN memo : Right(k, memo[k]) \/ (memo[k] = NotFound /\ k[1] = "tile")

\* Tiles that are left to read: what is read is in front of them, what is left reaches
\* the end of the range and is there, and the budget lasts.
Before(n) == {i \in from .. to : i < n * TileWidth}
Available(n, w) == (n + 1) * TileWidth <= uploaded \/ n * TileWidth + w \in widths
MissedOnly(ks) == \A k \in DOMAIN memo : memo[k] = NotFound => k \in ks

OneLeft(n, w) ==
    /\ requests <= IF probed THEN 3 ELSE 2
    /\ entries = Before(n)
    /\ from <= to =>
          /\ to < n * TileWidth + w
          /\ Available(n, w)
          /\ probed => w < TileWidth /\ n * TileWidth + w \in widths
          /\ MissedOnly(IF probed THEN {Tile(n, TileWidth)} ELSE {})
TwoLeft(n, m, w) ==
    /\ requests <= 1 /\ ~probed
    /\ entries = Before(n)
    /\ from <= to =>
          /\ m = n + 1 /\ m * TileWidth <= uploaded
          /\ to < m * TileWidth + w
          /\ Available(m, w)
          /\ MissedOnly({})
TilesLeft ==
    \/ tiles = <<>> /\ requests <= 4 /\ ~probed /\ entries = from .. to
    \/ \E n \in 0 .. MaxSize, w \in 1 .. TileWidth :
          tiles = <<Tile(n, w)>> /\ OneLeft(n, w)
    \/ \E n, m \in 0 .. MaxSize, w \in 1 .. TileWidth :
          tiles = <<Tile(n, TileWidth), Tile(m, w)>> /\ TwoLeft(n, m, w)

\* The chain is a part of that of the entry behind the answer.
ChainOfNext ==
    LET next == from + Len(answer)
    IN  /\ entries = next .. to
        /\ IF next > to THEN chain = <<>>
           ELSE /\ Len(chain) <= Len(Chain[next])
                /\ \A i \in 1 .. Len(chain) : chain[i] = Chain[next][i]

Phase ==
    /\ pc # "idle" => from = client /\ to - from <= MaxGetEntry
    /\ pc = "sth" => memo = <<>> /\ requests = 0 /\ tiles = <<>> /\ ~probed /\ entries = {}
    /\ pc \in {"sth", "tile"} => answer = <<>> /\ chain = <<>>
    /\ pc \in {"tile", "issuer", "answered"} => to < size
    /\ pc = "tile" => TilesLeft
    /\ pc = "issuer" => ChainOfNext

AnswerType ==
    /\ answer \in Seq([leaf : 0 .. MaxSize - 1, chain : Seq(Issuer)])
    /\ chain \in Seq(Issuer)

IInv == TypeOK /\ AnswerType /\ CachesRight /\ Phase /\ BudgetKept /\ AnswerSound
=============================================================================
