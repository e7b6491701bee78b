----------------------------- MODULE TilesProofs -----------------------------
(***************************************************************************)
(* Proofs about Tiles, for every width of a tile, every pool smaller than  *)
(* a tile, and a log of any size and any number of tile levels.            *)
(***************************************************************************)
EXTENDS Tiles, WellFoundedInduction, TLAPS

-----------------------------------------------------------------------------
(* Induction over the tile levels is by a least counterexample. *)

LEMMA Least ==
    ASSUME NEW S, S \subseteq Nat, S # {}
    PROVE  \E n \in S : \A m \in S : n <= m
<1>1. IsWellFoundedOn(OpToRel(<, Nat), Nat)
  BY NatLessThanWellFounded
<1>2. PICK n \in S : \A m \in S : ~(<<m, n>> \in OpToRel(<, Nat))
  BY <1>1, WFMin
<1>3. \A m \in S : ~(m < n)
  BY <1>2 DEF OpToRel
<1> QED BY <1>3

\* The recursion that defines Leaves has a solution.
LEMMA LeavesSolved ==
    Leaves = [l \in 0 .. TopLevel + 1 |-> IF l = 0 THEN 1 ELSE TileWidth * Leaves[l - 1]]
<1> DEFINE Ok(f, n) == f = [l \in 0 .. n |-> IF l = 0 THEN 1 ELSE TileWidth * f[l - 1]]
           Bad == {n \in 0 .. TopLevel + 1 : ~ \E f : Ok(f, n)}
<1>0. TopLevel + 1 \in Nat
  BY TilesAssumption
<1>1. Bad = {}
  <2> SUFFICES ASSUME Bad # {} PROVE FALSE
    OBVIOUS
  <2>1. PICK n \in Bad : \A m \in Bad : n <= m
    <3>1. Bad \subseteq Nat
      BY <1>0
    <3> QED BY <3>1, Least
  <2>2. CASE n = 0
    <3>1. Ok([l \in 0 .. 0 |-> 1], 0)
      OBVIOUS
    <3> QED BY <3>1, <2>2, <2>1
  <2>3. CASE n # 0
    <3>1. n - 1 \in 0 .. TopLevel + 1 /\ n - 1 < n
      BY <2>3, <1>0
    <3>2. PICK f : Ok(f, n - 1)
      BY <3>1, <2>1
    <3> DEFINE g == [l \in 0 .. n |-> IF l = n THEN TileWidth * f[n - 1] ELSE f[l]]
    <3>3. Ok(g, n)
      <4>1. \A l \in 0 .. n : g[l] = IF l = 0 THEN 1 ELSE TileWidth * g[l - 1]
        BY <2>3, <3>1, <3>2
      <4> QED BY <4>1
    <3> QED BY <3>3, <2>1
  <2> QED BY <2>2, <2>3
<1>2. \E f : Ok(f, TopLevel + 1)
  <2>1. TopLevel + 1 \notin Bad /\ TopLevel + 1 \in 0 .. TopLevel + 1
    BY <1>1, <1>0
  <2> HIDE DEF Ok
  <2> QED BY <2>1
<1> QED BY <1>2 DEF Leaves

LEMMA LeavesStep ==
    /\ Leaves[0] = 1
    /\ \A l \in Level : Leaves[l + 1] = TileWidth * Leaves[l]
<1>1. 0 \in 0 .. TopLevel + 1 /\ \A l \in Level : l + 1 \in 0 .. TopLevel + 1 /\ l + 1 # 0
  BY TilesAssumption DEF Level
<1> DEFINE L == Leaves
<1>2. L = [l \in 0 .. TopLevel + 1 |-> IF l = 0 THEN 1 ELSE TileWidth * L[l - 1]]
  BY LeavesSolved
<1> HIDE DEF L
<1>3. L[0] = 1 /\ \A l \in Level : L[l + 1] = TileWidth * L[l]
  BY <1>1, <1>2, TilesAssumption DEF Level
<1> QED BY <1>3 DEF L

LEMMA LeavesType == \A l \in 0 .. TopLevel + 1 : Leaves[l] \in Nat \ {0}
<1> DEFINE Bad == {l \in 0 .. TopLevel + 1 : Leaves[l] \notin Nat \ {0}}
<1> SUFFICES ASSUME Bad # {} PROVE FALSE
  OBVIOUS
<1>1. PICK n \in Bad : \A m \in Bad : n <= m
  <2>1. Bad \subseteq Nat
    BY TilesAssumption
  <2> QED BY <2>1, Least
<1>2. n # 0
  BY <1>1, LeavesStep
<1>3. n - 1 \in Level /\ n - 1 \notin Bad /\ n - 1 \in 0 .. TopLevel + 1
  BY <1>1, <1>2, TilesAssumption DEF Level
<1>4. Leaves[n] = TileWidth * Leaves[n - 1]
  <2>1. Leaves[(n - 1) + 1] = TileWidth * Leaves[n - 1]
    BY <1>3, LeavesStep
  <2>2. (n - 1) + 1 = n
    BY <1>1, TilesAssumption
  <2> QED BY <2>1, <2>2
<1>5. \A a, b \in Nat \ {0} : a * b \in Nat \ {0}
  OBVIOUS
<1>6. Leaves[n - 1] \in Nat \ {0} /\ TileWidth \in Nat \ {0}
  BY <1>3, TilesAssumption
<1> QED BY <1>1, <1>4, <1>5, <1>6

\* Above level 0 a hash has more leaves than a pool.
LEMMA LeavesOfAPool == \A l \in Level \ {0} : Leaves[l] > MaxPool
<1> SUFFICES ASSUME NEW l \in Level \ {0} PROVE Leaves[l] > MaxPool
  OBVIOUS
<1>1. l - 1 \in Level /\ (l - 1) + 1 = l
  BY TilesAssumption DEF Level
<1>2. Leaves[l] = TileWidth * Leaves[l - 1]
  BY <1>1, LeavesStep
<1>3. Leaves[l - 1] \in Nat \ {0}
  BY <1>1, LeavesType, TilesAssumption DEF Level
<1>4. \A a, b \in Nat \ {0} : a * b \in Nat /\ a * b >= a
  OBVIOUS
<1>5. TileWidth * Leaves[l - 1] \in Nat /\ TileWidth * Leaves[l - 1] >= TileWidth
  BY <1>3, <1>4, TilesAssumption
<1> QED BY <1>2, <1>5, TilesAssumption

-----------------------------------------------------------------------------
(* How many hashes a level has. *)

LEMMA Division ==
    ASSUME NEW a \in Nat, NEW b \in Nat \ {0}
    PROVE  /\ a \div b \in Nat /\ a % b \in 0 .. b - 1
           /\ a = (a \div b) * b + (a % b)
OBVIOUS

LEMMA DivideTwice ==
    ASSUME NEW a \in Nat, NEW b \in Nat \ {0}, NEW c \in Nat \ {0}
    PROVE  (a \div b) \div c = a \div (c * b)
OBVIOUS

LEMMA DivideMono ==
    ASSUME NEW a \in Nat, NEW c \in Nat, a <= c, NEW b \in Nat \ {0}
    PROVE  a \div b <= c \div b
OBVIOUS

LEMMA DivideStep ==
    ASSUME NEW a \in Nat, NEW c \in Nat, NEW b \in Nat \ {0}, c < a + b
    PROVE  c \div b <= (a \div b) + 1
OBVIOUS

LEMMA DivideLast ==
    ASSUME NEW q \in Nat, NEW b \in Nat \ {0}, NEW r \in 1 .. b - 1,
           NEW a \in Nat, a = q * b + r
    PROVE  (a - 1) \div b = q
OBVIOUS

LEMMA DivideIs ==
    ASSUME NEW a \in Nat, NEW b \in Nat \ {0}, NEW q \in Nat, NEW r \in 0 .. b - 1,
           a = q * b + r
    PROVE  a \div b = q /\ a % b = r
OBVIOUS

LEMMA Products ==
    /\ \A a, b \in Nat : a * b \in Nat
    /\ \A a, b, c \in Nat : a <= b => a * c <= b * c
    /\ \A a, b, c \in Nat : (a + b) * c = a * c + b * c
    /\ \A a, b, c \in Nat : (a * b) * c = a * (b * c)
OBVIOUS

LEMMA CountType ==
    ASSUME NEW s \in Nat, NEW l \in 0 .. TopLevel + 1
    PROVE  Count(s, l) \in Nat /\ Partial(s, l) \in 0 .. TileWidth - 1
<1>1. Count(s, l) \in Nat
  BY LeavesType, Division DEF Count
<1> QED BY <1>1, Division, TilesAssumption DEF Partial

LEMMA CountZero == \A s \in Nat : Count(s, 0) = s
BY LeavesStep DEF Count

LEMMA LevelType == \A l \in Level : l \in Nat /\ l \in 0 .. TopLevel + 1 /\ l + 1 \in 0 .. TopLevel + 1
BY TilesAssumption DEF Level

LEMMA CountUp ==
    ASSUME NEW s \in Nat, NEW l \in Level
    PROVE  /\ Count(s, l + 1) = Count(s, l) \div TileWidth
           /\ Count(s, l) = Count(s, l + 1) * TileWidth + Partial(s, l)
<1>1. Leaves[l] \in Nat \ {0} /\ Leaves[l + 1] = TileWidth * Leaves[l]
  BY LeavesType, LeavesStep, LevelType
<1>2. Count(s, l + 1) = Count(s, l) \div TileWidth
  BY <1>1, DivideTwice, TilesAssumption DEF Count
<1>3. Count(s, l) \in Nat
  BY CountType, LevelType
<1> QED BY <1>2, <1>3, Division, TilesAssumption DEF Partial

LEMMA CountMono ==
    ASSUME NEW s \in Nat, NEW t \in Nat, s <= t, NEW l \in 0 .. TopLevel + 1
    PROVE  Count(s, l) <= Count(t, l)
BY LeavesType, DivideMono DEF Count

LEMMA CountStep ==
    ASSUME NEW s \in Nat, NEW t \in s .. s + MaxPool, NEW l \in Level \ {0}
    PROVE  Count(t, l) <= Count(s, l) + 1
<1>1. Leaves[l] \in Nat \ {0} /\ Leaves[l] > MaxPool
  BY LeavesType, LeavesOfAPool, LevelType
<1>2. t \in Nat /\ t < s + Leaves[l]
  BY <1>1, TilesAssumption
<1> QED BY <1>1, <1>2, DivideStep DEF Count

LEMMA CountTop == \A s \in 0 .. MaxSize : Count(s, TopLevel + 1) = 0
<1>1. TopLevel + 1 \in 0 .. TopLevel + 1
  BY TilesAssumption
<1>2. Leaves[TopLevel + 1] \in Nat \ {0}
  BY <1>1, LeavesType
<1>3. \A a \in Nat, b \in Nat \ {0} : a < b => a \div b = 0
  OBVIOUS
<1> QED BY <1>2, <1>3, TilesAssumption DEF Count

\* A hash that is counted is of leaves that are there.
LEMMA CountReach ==
    ASSUME NEW s \in Nat, NEW l \in 0 .. TopLevel + 1, NEW j \in Nat, j < Count(s, l)
    PROVE  j * Leaves[l] + Leaves[l] <= s
<1>1. Leaves[l] \in Nat \ {0}
  BY LeavesType
<1>2. \A a \in Nat, b \in Nat \ {0}, k \in Nat : k < a \div b => k * b + b <= a
  OBVIOUS
<1> QED BY <1>1, <1>2 DEF Count

\* A number is of one tile, at one place of it.
LEMMA Places ==
    ASSUME NEW n \in Nat, NEW m \in Nat,
           NEW i \in 0 .. TileWidth - 1, NEW k \in 0 .. TileWidth - 1,
           n * TileWidth + i = m * TileWidth + k
    PROVE  n = m /\ i = k
<1>1. \A b \in Nat \ {0} : \A a, c \in 0 .. b - 1 :
         n * b + a = m * b + c => n = m /\ a = c
  <2> TAKE b \in Nat \ {0}
  <2> TAKE a, c \in 0 .. b - 1
  <2> HAVE n * b + a = m * b + c
  <2>1. (n * b + a) \div b = n /\ (n * b + a) % b = a
    OBVIOUS
  <2>2. (m * b + c) \div b = m /\ (m * b + c) % b = c
    OBVIOUS
  <2> QED BY <2>1, <2>2
<1> QED BY <1>1, TilesAssumption

-----------------------------------------------------------------------------
(* Hashes and tiles of a tree. *)

LEMMA HashType ==
    ASSUME NEW t, NEW l \in 0 .. TopLevel + 1, NEW j \in Nat
    PROVE  /\ Hash(t, l, j) # Missing
           /\ DOMAIN Hash(t, l, j) = 1 .. Leaves[l]
           /\ Len(Hash(t, l, j)) = Leaves[l]
<1>1. Leaves[l] \in Nat \ {0}
  BY LeavesType
<1>2. DOMAIN Hash(t, l, j) = 1 .. Leaves[l]
  BY DEF Hash
<1>3. 1 \in DOMAIN Hash(t, l, j)
  BY <1>1, <1>2
<1>4. DOMAIN Missing = {}
  BY DEF Missing
<1>5. Len(Hash(t, l, j)) = Leaves[l]
  BY <1>1 DEF Hash
<1> QED BY <1>2, <1>3, <1>4, <1>5

LEMMA HashZero ==
    ASSUME NEW t, NEW j \in Nat
    PROVE  Hash(t, 0, j) = <<t[j + 1]>>
<1>1. Hash(t, 0, j) = [i \in 1 .. 1 |-> t[j * 1 + i]]
  BY LeavesStep DEF Hash
<1>2. \A i \in 1 .. 1 : j * 1 + i = j + 1
  OBVIOUS
<1>3. Hash(t, 0, j) = [i \in 1 .. 1 |-> t[j + 1]]
  BY <1>1, <1>2
<1>4. [i \in 1 .. 1 |-> t[j + 1]] = <<t[j + 1]>>
  OBVIOUS
<1> QED BY <1>3, <1>4

\* A hash depends on the leaves below it only.
LEMMA HashSame ==
    ASSUME NEW t, NEW u, NEW s \in Nat, \A i \in 1 .. s : t[i] = u[i],
           NEW l \in 0 .. TopLevel + 1, NEW j \in Nat, j < Count(s, l)
    PROVE  Hash(t, l, j) = Hash(u, l, j)
<1>1. Leaves[l] \in Nat \ {0} /\ j * Leaves[l] \in Nat
  BY LeavesType, Products
<1>2. j * Leaves[l] + Leaves[l] <= s
  BY CountReach
<1>3. \A i \in 1 .. Leaves[l] : j * Leaves[l] + i \in 1 .. s
  BY <1>1, <1>2
<1>4. \A i \in 1 .. Leaves[l] : t[j * Leaves[l] + i] = u[j * Leaves[l] + i]
  BY <1>3
<1> QED BY <1>4 DEF Hash

LEMMA ContentSame ==
    ASSUME NEW t, NEW u, NEW s \in Nat, \A i \in 1 .. s : t[i] = u[i],
           NEW id \in Tile, Within(s, id)
    PROVE  Content(t, id) = Content(u, id)
<1>1. LevelOf(id) \in Level /\ LevelOf(id) \in 0 .. TopLevel + 1
  BY TilesAssumption DEF Tile, LevelOf, Level
<1>2. id.n \in Nat /\ id.w \in Nat /\ id.n * TileWidth \in Nat
  BY Products, TilesAssumption DEF Tile
<1>3. Count(s, LevelOf(id)) \in Nat
  BY <1>1, CountType
<1>4. ASSUME NEW k \in 1 .. id.w
      PROVE  Hash(t, LevelOf(id), id.n * TileWidth + k - 1)
               = Hash(u, LevelOf(id), id.n * TileWidth + k - 1)
  <2>1. id.n * TileWidth + k - 1 \in Nat
    BY <1>2
  <2>2. id.n * TileWidth + k - 1 < Count(s, LevelOf(id))
    BY <1>2, <1>3 DEF Within
  <2> QED BY <1>1, <2>1, <2>2, HashSame
<1> QED BY <1>4 DEF Content

\* The first w hashes of a tile, and the leaves below them.
Hashes(t, l, n, w) == [k \in 1 .. w |-> Hash(t, l, n * TileWidth + k - 1)]
Below(t, l, n, w) == [p \in 1 .. w * Leaves[l] |-> t[n * TileWidth * Leaves[l] + p]]

\* The hashes of a tile joined are the leaves below them.
LEMMA JoinHashes ==
    ASSUME NEW t, NEW l \in Level, NEW n \in Nat, NEW w \in Nat
    PROVE  Join(Hashes(t, l, n, w), Leaves[l]) = Below(t, l, n, w)
<1> DEFINE c == Leaves[l]
           parts == [k \in 1 .. w |-> Hash(t, l, n * TileWidth + k - 1)]
<1>1. c \in Nat \ {0}
  BY LeavesType, LevelType
<1>2. Len(parts) = w
  OBVIOUS
<1>3. n * TileWidth \in Nat
  BY Products, TilesAssumption
<1>4. ASSUME NEW p \in 1 .. w * c
      PROVE  parts[((p - 1) \div c) + 1][((p - 1) % c) + 1] = t[n * TileWidth * c + p]
  <2> DEFINE q == (p - 1) \div c
             r == (p - 1) % c
  <2>0. w * c \in Nat /\ p - 1 \in Nat /\ p \in Nat
    BY <1>1, Products
  <2>1. q \in Nat /\ r \in 0 .. c - 1 /\ p - 1 = q * c + r
    BY <2>0, <1>1, Division
  <2>2. q < w
    <3>1. \A a, b, d, e \in Nat : d > 0 /\ a * d + e < b * d => a < b
      OBVIOUS
    <3>2. q * c + r < w * c
      BY <2>0, <2>1
    <3> HIDE DEF q, r
    <3> QED BY <1>1, <2>1, <3>1, <3>2
  <2> HIDE DEF q, r
  <2>3. parts[q + 1] = Hash(t, l, n * TileWidth + q)
    <3>1. q + 1 \in 1 .. w /\ n * TileWidth + (q + 1) - 1 = n * TileWidth + q
      BY <2>1, <2>2, <1>3
    <3> QED BY <3>1
  <2>4. Hash(t, l, n * TileWidth + q)[r + 1] = t[(n * TileWidth + q) * c + (r + 1)]
    BY <1>1, <2>1 DEF Hash
  <2>5. (n * TileWidth + q) * c + (r + 1) = n * TileWidth * c + p
    <3>1. (n * TileWidth + q) * c = n * TileWidth * c + q * c
      BY <1>1, <1>3, <2>1, Products
    <3>2. n * TileWidth * c \in Nat /\ q * c \in Nat
      BY <1>1, <1>3, <2>1, Products
    <3> QED BY <3>1, <3>2, <2>1, <2>0
  <2> QED BY <2>3, <2>4, <2>5 DEF q, r
<1> HIDE DEF parts
<1> QED BY <1>2, <1>4 DEF Join, parts, Hashes, Below

\* The hashes of a full tile joined are one hash of the next level.
LEMMA JoinUp ==
    ASSUME NEW t, NEW l \in Level, NEW n \in Nat
    PROVE  Join(Hashes(t, l, n, TileWidth), Leaves[l]) = Hash(t, l + 1, n)
<1>1. Leaves[l] \in Nat /\ Leaves[l + 1] = TileWidth * Leaves[l]
  BY LeavesType, LeavesStep, LevelType
<1>2. n * Leaves[l + 1] = n * TileWidth * Leaves[l]
  BY <1>1, Products, TilesAssumption
<1>3. Join(Hashes(t, l, n, TileWidth), Leaves[l]) = Below(t, l, n, TileWidth)
  BY JoinHashes, TilesAssumption
<1>4. Hash(t, l + 1, n) = Below(t, l, n, TileWidth)
  BY <1>1, <1>2 DEF Hash, Below
<1> QED BY <1>3, <1>4


-----------------------------------------------------------------------------
(* The tiles a growing tree gets. *)

\* A tile of a level is new: it is full and was not, or it is the last one.
NewAt(old, new, l, n, w) ==
    /\ Count(old, l) # Count(new, l)
    /\ \/ n \in Count(old, l + 1) .. Count(new, l + 1) - 1 /\ w = TileWidth
       \/ n = Count(new, l + 1) /\ w = Partial(new, l) /\ w > 0

LEMMA TileIdFields ==
    \A l, n, w : /\ TileId(l, n, w).l = l /\ TileId(l, n, w).n = n /\ TileId(l, n, w).w = w
BY DEF TileId

LEMMA TileIdIs == \A id \in Tile : id = TileId(id.l, id.n, id.w)
BY DEF Tile, TileId

LEMMA NewTilesAre ==
    ASSUME NEW old, NEW new, NEW id
    PROVE  id \in NewTiles(old, new) <=>
             \E l \in Level : \E n, w : id = TileId(l, n, w) /\ NewAt(old, new, l, n, w)
<1>1. ASSUME NEW l
      PROVE  id \in FullTiles(l, old, new) \cup PartialTile(l, new) <=>
               \E n, w : /\ id = TileId(l, n, w)
                        /\ \/ n \in Count(old, l + 1) .. Count(new, l + 1) - 1 /\ w = TileWidth
                           \/ n = Count(new, l + 1) /\ w = Partial(new, l) /\ w > 0
  BY TileIdFields DEF FullTiles, PartialTile
<1>2. id \in NewTiles(old, new) <=>
        \E l \in {k \in Level : Count(old, k) # Count(new, k)} :
           id \in FullTiles(l, old, new) \cup PartialTile(l, new)
  BY DEF NewTiles
<1> QED BY <1>1, <1>2 DEF NewAt

LEMMA NewAtType ==
    ASSUME NEW old \in Nat, NEW new \in Nat, old <= new,
           NEW l \in Level, NEW n, NEW w, NewAt(old, new, l, n, w)
    PROVE  /\ n \in Nat /\ w \in 1 .. TileWidth
           /\ Count(old, l + 1) <= n
           /\ n * TileWidth + w <= Count(new, l)
           /\ n * TileWidth \in Nat
<1>1. /\ Count(old, l + 1) \in Nat /\ Count(new, l + 1) \in Nat
      /\ Count(old, l + 1) <= Count(new, l + 1)
      /\ Partial(new, l) \in 0 .. TileWidth - 1
      /\ Count(new, l) = Count(new, l + 1) * TileWidth + Partial(new, l)
  BY CountType, CountMono, CountUp, LevelType
<1>2. TileWidth \in Nat /\ TileWidth > 1
  BY TilesAssumption
<1>3. Count(new, l + 1) * TileWidth \in Nat
  BY <1>1, <1>2, Products
<1>4. CASE n \in Count(old, l + 1) .. Count(new, l + 1) - 1 /\ w = TileWidth
  <2>1. n \in Nat /\ n + 1 \in Nat /\ n + 1 <= Count(new, l + 1)
    BY <1>1, <1>4
  <2>2. (n + 1) * TileWidth <= Count(new, l + 1) * TileWidth /\ n * TileWidth \in Nat
    BY <2>1, <1>1, <1>2, Products
  <2>3. (n + 1) * TileWidth = n * TileWidth + TileWidth
    BY <2>1, <1>2
  <2> QED BY <1>1, <1>2, <1>3, <1>4, <2>1, <2>2, <2>3
<1>5. CASE n = Count(new, l + 1) /\ w = Partial(new, l) /\ w > 0
  BY <1>1, <1>2, <1>3, <1>5
<1> QED BY <1>4, <1>5 DEF NewAt

LEMMA AllTilesAre ==
    ASSUME NEW old \in Nat, NEW new \in Nat, old <= new, NEW id
    PROVE  id \in AllTiles(old, new) <=>
             id \in Tile /\ NewAt(old, new, LevelOf(id), id.n, id.w)
<1>0. 0 \in Level /\ -1 \notin Level /\ Level \subseteq -1 .. TopLevel /\ -1 \in -1 .. TopLevel
  BY TilesAssumption DEF Level
<1>1. ASSUME NEW i \in NewTiles(old, new)
      PROVE  i \in Tile /\ i.l \in Level /\ NewAt(old, new, i.l, i.n, i.w)
  <2>0. PICK l \in Level : \E n, w : i = TileId(l, n, w) /\ NewAt(old, new, l, n, w)
    BY NewTilesAre
  <2>1. PICK n, w : i = TileId(l, n, w) /\ NewAt(old, new, l, n, w)
    BY <2>0
  <2>2. n \in Nat /\ w \in 1 .. TileWidth
    BY <2>1, NewAtType
  <2>3. i.l = l /\ i.n = n /\ i.w = w
    BY <2>1, TileIdFields
  <2>4. i \in Tile
    BY <1>0, <2>1, <2>2 DEF Tile, TileId
  <2> QED BY <2>1, <2>3, <2>4
<1>2. ASSUME id \in AllTiles(old, new)
      PROVE  id \in Tile /\ NewAt(old, new, LevelOf(id), id.n, id.w)
  <2>1. CASE id \in NewTiles(old, new)
    BY <1>0, <1>1, <2>1 DEF LevelOf
  <2>2. CASE \E i \in NewTiles(old, new) : i.l = 0 /\ id = [i EXCEPT !.l = -1]
    <3>1. PICK i \in NewTiles(old, new) : i.l = 0 /\ id = [i EXCEPT !.l = -1]
      BY <2>2
    <3>2. i \in Tile /\ NewAt(old, new, 0, i.n, i.w)
      BY <1>1, <3>1
    <3>3. id \in Tile /\ id.l = -1 /\ id.n = i.n /\ id.w = i.w
      BY <3>1, <3>2, <1>0 DEF Tile
    <3> QED BY <3>2, <3>3 DEF LevelOf
  <2> QED BY <1>2, <2>1, <2>2 DEF AllTiles
<1>3. ASSUME id \in Tile, NewAt(old, new, LevelOf(id), id.n, id.w)
      PROVE  id \in AllTiles(old, new)
  <2>1. CASE id.l = -1
    <3>1. LevelOf(id) = 0
      BY <2>1 DEF LevelOf
    <3>2. TileId(0, id.n, id.w) \in NewTiles(old, new)
      BY <1>0, <1>3, <3>1, NewTilesAre
    <3>3. id = [TileId(0, id.n, id.w) EXCEPT !.l = -1] /\ TileId(0, id.n, id.w).l = 0
      BY <1>3, <2>1 DEF Tile, TileId
    <3> QED BY <3>2, <3>3 DEF AllTiles
  <2>2. CASE id.l # -1
    <3>1. LevelOf(id) = id.l /\ id.l \in Level
      BY <1>3, <2>2, TilesAssumption DEF LevelOf, Tile, Level
    <3>2. id \in NewTiles(old, new)
      BY <1>3, <3>1, TileIdIs, NewTilesAre
    <3> QED BY <3>2 DEF AllTiles
  <2> QED BY <2>1, <2>2
<1> QED BY <1>2, <1>3

LEMMA CountOfNone == \A l \in 0 .. TopLevel + 1 : Count(0, l) = 0
<1>1. \A b \in Nat \ {0} : 0 \div b = 0
  OBVIOUS
<1> QED BY <1>1, LeavesType DEF Count

LEMMA AllTilesType ==
    ASSUME NEW old \in Nat, NEW new \in Nat, old <= new, NEW id \in AllTiles(old, new)
    PROVE  id \in Tile /\ LevelOf(id) \in Level /\ Within(new, id)
<1>1. id \in Tile /\ NewAt(old, new, LevelOf(id), id.n, id.w)
  BY AllTilesAre
<1>2. LevelOf(id) \in Level
  BY <1>1, TilesAssumption DEF LevelOf, Tile, Level
<1> QED BY <1>1, <1>2, NewAtType DEF Within

\* The tiles of a grown tree are those it had and the new ones.
LEMMA AllTilesGrow ==
    ASSUME NEW old \in Nat, NEW new \in Nat, old <= new, NEW id \in AllTiles(0, new)
    PROVE  id \in AllTiles(old, new) \/ id \in AllTiles(0, old)
<1> DEFINE l == LevelOf(id)
<1>1. id \in Tile /\ NewAt(0, new, l, id.n, id.w)
  BY AllTilesAre
<1>2. l \in Level
  BY <1>1, TilesAssumption DEF LevelOf, Tile, Level
<1> HIDE DEF l
<1>3. /\ Count(old, l) \in Nat /\ Count(old, l + 1) \in Nat /\ Count(new, l + 1) \in Nat
      /\ Count(0, l) = 0 /\ Count(0, l + 1) = 0
      /\ Count(old, l + 1) <= Count(old, l)
  <2>1. \A a \in Nat, b \in Nat \ {0} : a \div b <= a
    OBVIOUS
  <2>2. /\ Count(old, l) \in Nat /\ Count(old, l + 1) \in Nat /\ Count(new, l + 1) \in Nat
        /\ Count(0, l) = 0 /\ Count(0, l + 1) = 0
    BY <1>2, CountType, CountOfNone, LevelType
  <2> QED BY <2>1, <2>2, <1>2, CountUp, TilesAssumption
<1>4. NewAt(old, new, l, id.n, id.w) \/ NewAt(0, old, l, id.n, id.w)
  <2>1. CASE id.n \in 0 .. Count(new, l + 1) - 1 /\ id.w = TileWidth
    <3>1. CASE id.n < Count(old, l + 1)
      BY <2>1, <3>1, <1>3 DEF NewAt
    <3>2. CASE id.n >= Count(old, l + 1)
      <4>1. Count(old, l) # Count(new, l)
        BY <2>1, <3>2, <1>2, <1>3, CountUp
      <4> QED BY <2>1, <3>2, <1>3, <4>1 DEF NewAt
    <3> QED BY <2>1, <1>3, <3>1, <3>2
  <2>2. CASE id.n = Count(new, l + 1) /\ id.w = Partial(new, l) /\ id.w > 0
    <3>1. CASE Count(old, l) = Count(new, l)
      <4>1. Count(old, l + 1) = Count(new, l + 1) /\ Partial(old, l) = Partial(new, l)
        BY <3>1, <1>2, CountUp DEF Partial
      <4> QED BY <1>1, <2>2, <3>1, <4>1 DEF NewAt
    <3>2. CASE Count(old, l) # Count(new, l)
      BY <2>2, <3>2 DEF NewAt
    <3> QED BY <3>1, <3>2
  <2> QED BY <1>1, <1>3, <2>1, <2>2 DEF NewAt
<1> QED BY <1>1, <1>4, AllTilesAre DEF l

LEMMA AllTilesNone == \A s : AllTiles(s, s) = {}
BY DEF AllTiles, NewTiles

-----------------------------------------------------------------------------
(* The tiles a process loads. *)

\* Without partial tiles below a level, its hashes have all the leaves.
LEMMA NoPartialBelow ==
    ASSUME NEW s \in Nat, NEW l \in 0 .. TopLevel + 1,
           \A m \in Level : m < l => Partial(s, m) = 0
    PROVE  s = Count(s, l) * Leaves[l]
<1> DEFINE Bad == {m \in 0 .. l : s # Count(s, m) * Leaves[m]}
<1> SUFFICES ASSUME Bad # {} PROVE FALSE
  BY TilesAssumption
<1>1. PICK m \in Bad : \A k \in Bad : m <= k
  <2>1. Bad \subseteq Nat
    BY TilesAssumption
  <2> QED BY <2>1, Least
<1>2. m # 0
  BY <1>1, CountZero, LeavesStep
<1>3. m - 1 \in Level /\ m - 1 \in 0 .. l /\ m - 1 < l /\ (m - 1) + 1 = m
  BY <1>1, <1>2, TilesAssumption DEF Level
<1>4. s = Count(s, m - 1) * Leaves[m - 1]
  BY <1>1, <1>3
<1>5. Count(s, m - 1) = Count(s, m) * TileWidth
  <2>1. Count(s, m) \in Nat
    BY <1>3, CountType, LevelType
  <2>2. Count(s, m) * TileWidth \in Nat
    BY <2>1, Products, TilesAssumption
  <2> QED BY <1>3, <2>2, CountUp
<1>6. Leaves[m] = TileWidth * Leaves[m - 1] /\ Leaves[m - 1] \in Nat /\ Count(s, m) \in Nat
  BY <1>3, LeavesStep, LeavesType, LevelType, CountType
<1>7. s = Count(s, m) * Leaves[m]
  BY <1>4, <1>5, <1>6, Products, TilesAssumption
<1> QED BY <1>1, <1>7

LEMMA LastLeafOfFull ==
    ASSUME NEW s \in Nat \ {0}, NEW l \in Level, s = Count(s, l + 1) * Leaves[l + 1]
    PROVE  /\ Count(s, l + 1) > 0 /\ Partial(s, l) = 0
           /\ LastLeafTile(s, l) = TileId(l, Count(s, l + 1) - 1, TileWidth)
<1>1. Leaves[l + 1] \in Nat \ {0} /\ Count(s, l + 1) \in Nat /\ Partial(s, l) \in Nat
  BY LeavesType, CountType, LevelType
<1>2. Count(s, l + 1) > 0
  BY <1>1
<1>3. (s - 1) \div Leaves[l + 1] = Count(s, l + 1) - 1
  <2>1. \A b \in Nat \ {0}, q \in Nat \ {0} : (q * b - 1) \div b = q - 1
    OBVIOUS
  <2> QED BY <1>1, <1>2, <2>1
<1>4. Partial(s, l) = 0
  <2>1. Leaves[l + 1] = TileWidth * Leaves[l] /\ Leaves[l] \in Nat \ {0}
    BY LeavesStep, LeavesType, LevelType
  <2>2. s = (Count(s, l + 1) * TileWidth) * Leaves[l]
    BY <1>1, <2>1, Products, TilesAssumption
  <2>3. \A a \in Nat, b \in Nat \ {0} : (a * b) \div b = a
    OBVIOUS
  <2>4. Count(s, l + 1) * TileWidth \in Nat
    BY <1>1, Products, TilesAssumption
  <2>5. Count(s, l) = Count(s, l + 1) * TileWidth
    BY <2>1, <2>2, <2>3, <2>4 DEF Count
  <2>6. Count(s, l) = Count(s, l + 1) * TileWidth + Partial(s, l)
    BY CountUp
  <2>7. \A a, p \in Nat : a = a + p => p = 0
    OBVIOUS
  <2> QED BY <1>1, <2>4, <2>5, <2>6, <2>7
<1>5. Count(s, l) - (Count(s, l + 1) - 1) * TileWidth = TileWidth
  <2>1. Count(s, l) = Count(s, l + 1) * TileWidth
    BY <1>1, <1>4, CountUp, Products, TilesAssumption
  <2>2. \A a, b \in Nat : a * b - (a - 1) * b = b
    OBVIOUS
  <2> QED BY <1>1, <2>1, <2>2, TilesAssumption
<1> QED BY <1>2, <1>3, <1>4, <1>5, TilesAssumption DEF LastLeafTile

LEMMA LastLeafOfPartial ==
    ASSUME NEW s \in Nat, NEW l \in Level, s = Count(s, l) * Leaves[l], Partial(s, l) > 0
    PROVE  LastLeafTile(s, l) = TileId(l, Count(s, l + 1), Partial(s, l))
<1>1. /\ Leaves[l] \in Nat \ {0} /\ Leaves[l + 1] = TileWidth * Leaves[l]
      /\ Leaves[l + 1] \in Nat \ {0}
      /\ Count(s, l + 1) \in Nat /\ Partial(s, l) \in 1 .. TileWidth - 1
      /\ Count(s, l) = Count(s, l + 1) * TileWidth + Partial(s, l)
      /\ Count(s, l + 1) * TileWidth \in Nat
  <2>1. Partial(s, l) \in 0 .. TileWidth - 1 /\ Count(s, l + 1) \in Nat
    BY CountType, LevelType
  <2>2. /\ Leaves[l] \in Nat \ {0} /\ Leaves[l + 1] = TileWidth * Leaves[l]
        /\ Leaves[l + 1] \in Nat \ {0}
    BY LeavesStep, LeavesType, LevelType
  <2>3. Count(s, l) = Count(s, l + 1) * TileWidth + Partial(s, l)
    BY CountUp
  <2>4. Count(s, l + 1) * TileWidth \in Nat
    BY <2>1, Products, TilesAssumption
  <2>5. Partial(s, l) \in 1 .. TileWidth - 1
    BY <2>1, TilesAssumption
  <2> QED BY <2>1, <2>2, <2>3, <2>4, <2>5
<1>2. (s - 1) \div Leaves[l + 1] = Count(s, l + 1)
  <2>1. s = Count(s, l + 1) * Leaves[l + 1] + Partial(s, l) * Leaves[l]
    BY <1>1, Products, TilesAssumption
  <2>2. Partial(s, l) * Leaves[l] \in Nat \ {0}
    BY <1>1
  <2>3. Partial(s, l) * Leaves[l] < Leaves[l + 1]
    <3>1. \A a, b, c \in Nat : c > 0 /\ a < b => a * c < b * c
      OBVIOUS
    <3> QED BY <1>1, <3>1, TilesAssumption
  <2> DEFINE r == Partial(s, l) * Leaves[l]
             q == Count(s, l + 1)
             b == Leaves[l + 1]
  <2>4. r \in 1 .. b - 1 /\ s = q * b + r /\ q \in Nat /\ b \in Nat \ {0}
    BY <1>1, <2>1, <2>2, <2>3
  <2> HIDE DEF r, q, b
  <2>5. (s - 1) \div b = q
    BY <2>4, DivideLast
  <2> QED BY <2>5 DEF q, b
<1>3. Count(s, l) - Count(s, l + 1) * TileWidth = Partial(s, l)
  BY <1>1
<1> QED BY <1>1, <1>2, <1>3, TilesAssumption DEF LastLeafTile

\* A tile above which the root's tiles begin is full.
LEMMA ChainIsFull ==
    ASSUME NEW s \in 1 .. MaxSize, NEW l \in Level,
           \A m \in 0 .. l : LastLeafTile(s, m) \notin RootTiles(s)
    PROVE  s = Count(s, l + 1) * Leaves[l + 1]
<1>0. s \in Nat /\ s \in Nat \ {0} /\ l + 1 \in 0 .. TopLevel + 1 /\ l \in Nat
  BY TilesAssumption DEF Level
<1> DEFINE Bad == {m \in Level : m < l + 1 /\ Partial(s, m) # 0}
<1>1. Bad = {}
  <2> SUFFICES ASSUME Bad # {} PROVE FALSE
    OBVIOUS
  <2>1. PICK m \in Bad : \A k \in Bad : m <= k
    <3>1. Bad \subseteq Nat
      BY LevelType
    <3> QED BY <3>1, Least
  <2>2. m \in 0 .. TopLevel + 1 /\ m \in Level /\ m \in 0 .. l
    BY <2>1, <1>0, LevelType
  <2>3. \A k \in Level : k < m => Partial(s, k) = 0
    BY <2>1, <2>2, <1>0, LevelType
  <2>4. s = Count(s, m) * Leaves[m]
    BY <2>2, <2>3, <1>0, NoPartialBelow
  <2>5. Partial(s, m) > 0
    BY <2>1, <2>2, <1>0, CountType
  <2>6. LastLeafTile(s, m) = TileId(m, Count(s, m + 1), Partial(s, m))
    BY <2>2, <2>4, <2>5, <1>0, LastLeafOfPartial
  <2>7. LastLeafTile(s, m) \in RootTiles(s)
    BY <2>2, <2>5, <2>6 DEF RootTiles
  <2> QED BY <2>2, <2>7
<1>2. \A m \in Level : m < l + 1 => Partial(s, m) = 0
  BY <1>1
<1> QED BY <1>0, <1>2, NoPartialBelow

\* What is fetched for the root hash is the partial tile of a level that has
\* one, or else the last full tile.
LEMMA FetchedTileIs ==
    ASSUME NEW s \in 1 .. MaxSize, NEW id \in FetchedTiles(s)
    PROVE  /\ id.l \in Level
           /\ \/ Partial(s, id.l) > 0 /\ id = TileId(id.l, Count(s, id.l + 1), Partial(s, id.l))
              \/ /\ Partial(s, id.l) = 0 /\ Count(s, id.l + 1) > 0
                 /\ id = TileId(id.l, Count(s, id.l + 1) - 1, TileWidth)
<1>1. CASE id \in RootTiles(s)
  <2>1. PICK l \in Level : Partial(s, l) > 0 /\ id = TileId(l, Count(s, l + 1), Partial(s, l))
    BY <1>1 DEF RootTiles
  <2> QED BY <2>1, TileIdFields
<1>2. CASE id \notin RootTiles(s)
  <2>1. PICK l \in Level : /\ id = LastLeafTile(s, l)
                           /\ \A m \in 0 .. l : LastLeafTile(s, m) \notin RootTiles(s)
    BY <1>2 DEF FetchedTiles
  <2>2. s = Count(s, l + 1) * Leaves[l + 1]
    BY <2>1, ChainIsFull
  <2>3. /\ Count(s, l + 1) > 0 /\ Partial(s, l) = 0
        /\ id = TileId(l, Count(s, l + 1) - 1, TileWidth)
    BY <2>1, <2>2, LastLeafOfFull
  <2> QED BY <2>3, TileIdFields
<1> QED BY <1>1, <1>2

LEMMA FetchedAreNew ==
    ASSUME NEW s \in 1 .. MaxSize
    PROVE  FetchedTiles(s) \subseteq AllTiles(0, s)
<1> SUFFICES ASSUME NEW id \in FetchedTiles(s) PROVE id \in AllTiles(0, s)
  OBVIOUS
<1>0. s \in Nat
  OBVIOUS
<1> DEFINE l == id.l
<1>1. /\ l \in Level
      /\ \/ Partial(s, l) > 0 /\ id = TileId(l, Count(s, l + 1), Partial(s, l))
         \/ /\ Partial(s, l) = 0 /\ Count(s, l + 1) > 0
            /\ id = TileId(l, Count(s, l + 1) - 1, TileWidth)
  BY FetchedTileIs
<1> HIDE DEF l
<1>2. /\ Count(0, l) = 0 /\ Count(0, l + 1) = 0
      /\ Count(s, l + 1) \in Nat /\ Count(s, l) \in Nat /\ Partial(s, l) \in Nat
      /\ Count(s, l) = Count(s, l + 1) * TileWidth + Partial(s, l)
  BY <1>0, <1>1, CountOfNone, CountType, CountUp, LevelType
<1>3. CASE Partial(s, l) > 0
  <2>1. Count(s, l) # 0
    <3>1. Count(s, l + 1) * TileWidth \in Nat
      BY <1>2, Products, TilesAssumption
    <3> QED BY <1>2, <1>3, <3>1
  <2>2. NewAt(0, s, l, Count(s, l + 1), Partial(s, l))
    BY <1>2, <1>3, <2>1 DEF NewAt
  <2>3. id \in NewTiles(0, s)
    BY <1>1, <1>3, <2>2, NewTilesAre
  <2> QED BY <2>3 DEF AllTiles
<1>4. CASE Partial(s, l) = 0
  <2>1. Count(s, l) # 0
    <3>1. \A a, b \in Nat \ {0} : a * b # 0
      OBVIOUS
    <3>2. Count(s, l + 1) * TileWidth # 0 /\ Count(s, l + 1) * TileWidth \in Nat
      BY <1>1, <1>2, <1>4, <3>1, Products, TilesAssumption
    <3> QED BY <1>2, <1>4, <3>2
  <2>2. NewAt(0, s, l, Count(s, l + 1) - 1, TileWidth)
    BY <1>1, <1>2, <1>4, <2>1 DEF NewAt
  <2>3. id \in NewTiles(0, s)
    BY <1>1, <1>4, <2>2, NewTilesAre
  <2> QED BY <2>3 DEF AllTiles
<1> QED BY <1>2, <1>3, <1>4

\* The last data tile reaches the end of the tree.
LEMMA DataTileIs ==
    ASSUME NEW s \in 1 .. MaxSize
    PROVE  /\ DataTile(s) \in Tile /\ DataTile(s).l = -1
           /\ DataTile(s) = TileId(-1, DataTile(s).n, DataTile(s).w)
           /\ DataTile(s).n * TileWidth + DataTile(s).w = s
           /\ DataTile(s) \in AllTiles(0, s)
           /\ [DataTile(s) EXCEPT !.l = 0] \in AllTiles(0, s)
<1>0. s \in Nat /\ s \in Nat \ {0} /\ 0 \in Level
  BY TilesAssumption DEF Level
<1>1. /\ Count(s, 0) = s /\ Count(0, 0) = 0 /\ Count(0, 1) = 0
      /\ Count(s, 1) \in Nat /\ Partial(s, 0) \in 0 .. TileWidth - 1
      /\ s = Count(s, 1) * TileWidth + Partial(s, 0)
      /\ Leaves[1] = TileWidth
  <2>1. 0 \in 0 .. TopLevel + 1 /\ 1 \in 0 .. TopLevel + 1
    BY TilesAssumption
  <2>2. Count(s, 0) = Count(s, 0 + 1) * TileWidth + Partial(s, 0)
    BY <1>0, CountUp
  <2>3. Leaves[0 + 1] = TileWidth * 1
    BY <1>0, LeavesStep
  <2>4. Count(s, 0) = s /\ Count(0, 0) = 0 /\ Count(0, 1) = 0
    BY <2>1, <1>0, CountZero, CountOfNone
  <2>5. Count(s, 1) \in Nat /\ Partial(s, 0) \in 0 .. TileWidth - 1
    BY <2>1, <1>0, CountType
  <2>6. Leaves[1] = TileWidth
    BY <2>3, TilesAssumption
  <2> QED BY <2>2, <2>4, <2>5, <2>6
<1>2. \E n, w : /\ LastLeafTile(s, 0) = TileId(0, n, w) /\ NewAt(0, s, 0, n, w)
               /\ n * TileWidth + w = s
  <2>1. CASE Partial(s, 0) > 0
    <3>1. s = Count(s, 0) * Leaves[0]
      BY <1>1, LeavesStep
    <3>2. LastLeafTile(s, 0) = TileId(0, Count(s, 0 + 1), Partial(s, 0))
      BY <1>0, <2>1, <3>1, LastLeafOfPartial
    <3>3. NewAt(0, s, 0, Count(s, 1), Partial(s, 0))
      BY <1>0, <1>1, <2>1 DEF NewAt
    <3> QED BY <1>1, <3>2, <3>3
  <2>2. CASE Partial(s, 0) = 0
    <3>1. s = Count(s, 1) * Leaves[1]
      <4>1. Count(s, 1) * TileWidth \in Nat
        BY <1>1, Products, TilesAssumption
      <4> QED BY <1>1, <2>2, <4>1
    <3>2. s = Count(s, 0 + 1) * Leaves[0 + 1]
      BY <3>1
    <3>3. Count(s, 0 + 1) > 0 /\ LastLeafTile(s, 0) = TileId(0, Count(s, 0 + 1) - 1, TileWidth)
      BY <1>0, <3>2, LastLeafOfFull
    <3>4. NewAt(0, s, 0, Count(s, 1) - 1, TileWidth)
      BY <1>0, <1>1, <3>3 DEF NewAt
    <3>5. (Count(s, 1) - 1) * TileWidth + TileWidth = s
      <4>1. \A a, b \in Nat : (a - 1) * b + b = a * b
        OBVIOUS
      <4> QED BY <1>1, <3>1, <4>1, TilesAssumption
    <3> QED BY <3>3, <3>4, <3>5
  <2> QED BY <1>1, <2>1, <2>2
<1>3. PICK n, w : /\ LastLeafTile(s, 0) = TileId(0, n, w) /\ NewAt(0, s, 0, n, w)
                 /\ n * TileWidth + w = s
  BY <1>2
<1>4. n \in Nat /\ w \in 1 .. TileWidth
  BY <1>0, <1>3, NewAtType
<1>5. DataTile(s) = TileId(-1, n, w) /\ [DataTile(s) EXCEPT !.l = 0] = TileId(0, n, w)
  <2>1. [TileId(0, n, w) EXCEPT !.l = -1] = TileId(-1, n, w)
    BY DEF TileId
  <2>2. [TileId(-1, n, w) EXCEPT !.l = 0] = TileId(0, n, w)
    BY DEF TileId
  <2>3. DataTile(s) = [TileId(0, n, w) EXCEPT !.l = -1]
    BY <1>3 DEF DataTile
  <2> QED BY <2>1, <2>2, <2>3
<1>6. TileId(-1, n, w) \in Tile /\ TileId(0, n, w) \in Tile
  BY <1>4, TilesAssumption DEF Tile, TileId
<1>7. LevelOf(TileId(-1, n, w)) = 0 /\ LevelOf(TileId(0, n, w)) = 0
  BY DEF LevelOf, TileId
<1>8. TileId(-1, n, w) \in AllTiles(0, s) /\ TileId(0, n, w) \in AllTiles(0, s)
  BY <1>0, <1>3, <1>6, <1>7, TileIdFields, AllTilesAre
<1> QED BY <1>3, <1>5, <1>6, <1>8, TileIdFields

-----------------------------------------------------------------------------
(* What the edge and the overlay give. *)

\* An edge tile is the partial tile of a level that has one.
EdgeIs(e, t, s, l) ==
    Partial(s, l) > 0 =>
        e = [n |-> Count(s, l + 1), w |-> Partial(s, l),
             data |-> Content(t, TileId(l, Count(s, l + 1), Partial(s, l)))]

LEMMA EdgeHashIs ==
    ASSUME NEW t, NEW s \in Nat, NEW l \in Level, EdgeIs(edge[l], t, s, l),
           NEW j \in Nat, Count(s, l + 1) * TileWidth <= j, j < Count(s, l)
    PROVE  EdgeHash(l, j) = Hash(t, l, j)
<1> DEFINE n == Count(s, l + 1)
           w == Partial(s, l)
           i == j - n * TileWidth
<1>1. /\ n \in Nat /\ w \in 0 .. TileWidth - 1 /\ n * TileWidth \in Nat
      /\ Count(s, l) = n * TileWidth + w
  <2>1. n \in Nat /\ w \in 0 .. TileWidth - 1
    BY CountType, LevelType
  <2>2. Count(s, l) = n * TileWidth + w
    BY CountUp
  <2> QED BY <2>1, <2>2, Products, TilesAssumption
<1>2. edge[l] = [n |-> n, w |-> w, data |-> Content(t, TileId(l, n, w))] /\ w > 0
  <2>1. w > 0
    BY <1>1
  <2> QED BY <2>1 DEF EdgeIs
<1> HIDE DEF n, w
<1>3. i \in 0 .. w - 1 /\ i \in 0 .. TileWidth - 1 /\ j = n * TileWidth + i
  BY <1>1, TilesAssumption DEF n
<1> HIDE DEF i
<1>4. j \div TileWidth = n /\ j % TileWidth = i
  BY <1>1, <1>3, DivideIs, TilesAssumption
<1>5. LevelOf(TileId(l, n, w)) = l
  BY LevelType DEF LevelOf, TileId
<1>6. i + 1 \in 1 .. w /\ n * TileWidth + (i + 1) - 1 = j
  BY <1>1, <1>3
<1>7. edge[l].data[i + 1] = Hash(t, l, j)
  BY <1>2, <1>5, <1>6, TileIdFields DEF Content
<1>8. edge[l].n = n /\ edge[l].w = w
  BY <1>2
<1>9. i < w
  BY <1>1, <1>3
<1> QED BY <1>4, <1>7, <1>8, <1>9 DEF EdgeHash

\* A new hash is of hashes that are new or of the edge.
LEMMA StoredHashesAre ==
    ASSUME NEW t, NEW s \in Nat, NEW k \in Nat, treeSize = s,
           NEW new, Len(new) = k, \A i \in 1 .. k : t[s + i] = new[i],
           \A l \in Level : EdgeIs(edge[l], t, s, l)
    PROVE  StoredHashes(new) =
             [l \in Level |-> [j \in Count(s, l) .. Count(s + k, l) - 1 |-> Hash(t, l, j)]]
<1> DEFINE H == [l \in Level |-> [j \in Count(s, l) .. Count(s + k, l) - 1 |-> Hash(t, l, j)]]
           Ok(f) == f = [l \in Level |-> Completed(new, l, IF l = 0 THEN <<>> ELSE f[l - 1])]
<1>1. Completed(new, 0, <<>>) = H[0]
  <2>0. 0 \in Level
    BY TilesAssumption DEF Level
  <2>1. Count(s, 0) = s /\ Count(s + k, 0) = s + k
    BY CountZero
  <2>2. ASSUME NEW j \in s .. s + k - 1
        PROVE  <<new[j - s + 1]>> = Hash(t, 0, j)
    <3>1. j \in Nat /\ j - s + 1 \in 1 .. k /\ s + (j - s + 1) = j + 1
      OBVIOUS
    <3>2. t[j + 1] = new[j - s + 1]
      BY <3>1
    <3> QED BY <3>1, <3>2, HashZero
  <2>3. Completed(new, 0, <<>>) = [j \in s .. s + k - 1 |-> <<new[j - s + 1]>>]
    BY <2>1 DEF Completed
  <2>4. H[0] = [j \in s .. s + k - 1 |-> Hash(t, 0, j)]
    BY <2>0, <2>1
  <2> QED BY <2>2, <2>3, <2>4
<1>2. ASSUME NEW l \in Level \ {0}
      PROVE  Completed(new, l, H[l - 1]) = H[l]
  <2>0. l - 1 \in Level /\ (l - 1) + 1 = l /\ l \in Nat /\ l # 0
    BY TilesAssumption DEF Level
  <2> DEFINE lower == H[l - 1]
             below(c) == IF c >= Count(s, l - 1) THEN lower[c] ELSE EdgeHash(l - 1, c)
  <2>1. /\ Count(s, l) \in Nat /\ Count(s + k, l) \in Nat /\ s + k \in Nat
        /\ Count(s, l - 1) \in Nat /\ Count(s + k, l - 1) \in Nat
    <3>1. s + k \in Nat /\ l \in 0 .. TopLevel + 1 /\ l - 1 \in 0 .. TopLevel + 1
      BY <2>0, LevelType
    <3> QED BY <3>1, CountType
  <2>2. ASSUME NEW j \in Count(s, l) .. Count(s + k, l) - 1, NEW i \in 1 .. TileWidth
        PROVE  below(j * TileWidth + i - 1) = Hash(t, l - 1, j * TileWidth + i - 1)
    <3> DEFINE c == j * TileWidth + i - 1
    <3>0. j \in Nat
      BY <2>1
    <3>1. j \in Nat /\ j * TileWidth \in Nat /\ c \in Nat
      <4>1. j * TileWidth \in Nat
        BY <3>0, Products, TilesAssumption
      <4> QED BY <3>0, <4>1, TilesAssumption
    <3>2. c < Count(s + k, l - 1)
      <4>1. Count(s + k, l) = Count(s + k, l - 1) \div TileWidth
        BY <2>0, <2>1, CountUp
      <4>2. j < Count(s + k, l)
        BY <2>1
      <4>3. \A a \in Nat, b \in Nat \ {0}, m \in Nat : m < a \div b => m * b + b <= a
        OBVIOUS
      <4>4. j * TileWidth + TileWidth <= Count(s + k, l - 1)
        BY <2>1, <3>1, <4>1, <4>2, <4>3, TilesAssumption
      <4> QED BY <2>1, <3>1, <4>4, TilesAssumption
    <3>3. Count(s, l) * TileWidth <= c
      <4>1. Count(s, l) * TileWidth <= j * TileWidth /\ Count(s, l) * TileWidth \in Nat
        BY <2>1, <3>1, Products, TilesAssumption
      <4> QED BY <3>1, <4>1
    <3> HIDE DEF c
    <3>4. CASE c >= Count(s, l - 1)
      <4>1. lower[c] = Hash(t, l - 1, c)
        BY <2>0, <2>1, <3>1, <3>2, <3>4
      <4> QED BY <3>4, <4>1 DEF c
    <3>5. CASE ~(c >= Count(s, l - 1))
      <4>1. c < Count(s, l - 1)
        BY <2>1, <3>1, <3>5
      <4>2. EdgeHash(l - 1, c) = Hash(t, l - 1, c)
        BY <2>0, <3>1, <3>3, <4>1, EdgeHashIs
      <4> QED BY <3>5, <4>2 DEF c
    <3> QED BY <3>4, <3>5
  <2> HIDE DEF lower
  <2>3. ASSUME NEW j \in Count(s, l) .. Count(s + k, l) - 1
        PROVE  /\ ~ \E i \in 1 .. TileWidth : below(j * TileWidth + i - 1) = Missing
               /\ Join([i \in 1 .. TileWidth |-> below(j * TileWidth + i - 1)], Leaves[l - 1])
                    = Hash(t, l, j)
    <3>0. j \in Nat
      BY <2>1
    <3>1. j \in Nat /\ j * TileWidth \in Nat
      BY <3>0, Products, TilesAssumption
    <3>2. \A i \in 1 .. TileWidth : j * TileWidth + i - 1 \in Nat
      BY <3>1, TilesAssumption
    <3>3. \A i \in 1 .. TileWidth : Hash(t, l - 1, j * TileWidth + i - 1) # Missing
      BY <3>2, <2>0, HashType, LevelType
    <3>4. [i \in 1 .. TileWidth |-> below(j * TileWidth + i - 1)] = Hashes(t, l - 1, j, TileWidth)
      BY <2>2 DEF Hashes
    <3>5. Join(Hashes(t, l - 1, j, TileWidth), Leaves[l - 1]) = Hash(t, l, j)
      BY <2>0, <3>1, JoinUp
    <3> QED BY <2>2, <3>3, <3>4, <3>5
  <2>4. H[l] = [j \in Count(s, l) .. Count(s + k, l) - 1 |-> Hash(t, l, j)]
    OBVIOUS
  <2>5. Completed(new, l, lower) = [j \in Count(s, l) .. Count(s + k, l) - 1 |-> Hash(t, l, j)]
    <3> HIDE DEF H
    <3> QED BY <2>0, <2>3 DEF Completed
  <2> QED BY <2>4, <2>5 DEF lower
<1> HIDE DEF H
<1>3. Ok(H)
  <2>1. \A l \in Level : H[l] = Completed(new, l, IF l = 0 THEN <<>> ELSE H[l - 1])
    BY <1>1, <1>2
  <2>2. H = [l \in Level |-> H[l]]
    BY DEF H
  <2> QED BY <2>1, <2>2
<1>4. ASSUME NEW f, Ok(f) PROVE f = H
  <2> DEFINE Bad == {l \in Level : f[l] # H[l]}
  <2>1. Bad = {}
    <3> SUFFICES ASSUME Bad # {} PROVE FALSE
      OBVIOUS
    <3>1. PICK l \in Bad : \A m \in Bad : l <= m
      <4>1. Bad \subseteq Nat
        BY LevelType
      <4> QED BY <4>1, Least
    <3>2. f[l] = Completed(new, l, IF l = 0 THEN <<>> ELSE f[l - 1])
      BY <3>1, <1>4
    <3>3. l # 0
      BY <3>1, <3>2, <1>1
    <3>4. l - 1 \in Level /\ l - 1 < l
      BY <3>1, <3>3, TilesAssumption DEF Level
    <3>5. f[l - 1] = H[l - 1]
      <4>1. l - 1 \notin Bad
        BY <3>1, <3>4, TilesAssumption DEF Level
      <4> QED BY <3>4, <4>1
    <3> QED BY <3>1, <3>2, <3>3, <3>5, <1>2
  <2>2. f = [l \in Level |-> f[l]] /\ H = [l \in Level |-> H[l]]
    BY <1>4 DEF H
  <2> QED BY <2>1, <2>2
<1>5. StoredHashes(new) = CHOOSE f : Ok(f)
  BY DEF StoredHashes
<1> HIDE DEF Ok
<1>6. Ok(CHOOSE f : Ok(f))
  BY <1>3
<1> QED BY <1>4, <1>5, <1>6 DEF H

LEMMA HashReaderIs ==
    ASSUME NEW t, NEW over, NEW s \in Nat, NEW l \in Level, EdgeIs(edge[l], t, s, l),
           NEW j \in Nat, Count(s, l + 1) * TileWidth <= j,
           j \in DOMAIN over[l] => over[l][j] = Hash(t, l, j),
           j \in DOMAIN over[l] \/ j < Count(s, l)
    PROVE  HashReader(over, l, j) = Hash(t, l, j)
BY EdgeHashIs DEF HashReader

\* The overlay of a level is of the hashes it gets.
OverlayIs(f, t, s, u, l) ==
    /\ DOMAIN f = Count(s, l) .. Count(u, l) - 1
    /\ \A j \in DOMAIN f : f[j] = Hash(t, l, j)

LEMMA TileDataIs ==
    ASSUME NEW t, NEW over, NEW s \in Nat, NEW u \in Nat, s <= u,
           NEW id \in NewTiles(s, u), EdgeIs(edge[id.l], t, s, id.l),
           OverlayIs(over[id.l], t, s, u, id.l)
    PROVE  /\ TileData(over, id) = Content(t, id)
           /\ \A i \in 1 .. id.w : TileData(over, id)[i] # Missing
<1> DEFINE l == id.l
<1>1. l \in Level /\ id.n \in Nat /\ id.w \in 1 .. TileWidth /\ NewAt(s, u, l, id.n, id.w)
  <2>1. PICK k \in Level : \E n, w : id = TileId(k, n, w) /\ NewAt(s, u, k, n, w)
    BY NewTilesAre
  <2> QED BY <2>1, TileIdFields, NewAtType
<1>2. EdgeIs(edge[l], t, s, l) /\ \A j \in DOMAIN over[l] : over[l][j] = Hash(t, l, j)
  BY DEF OverlayIs
<1>3. DOMAIN over[l] = Count(s, l) .. Count(u, l) - 1
  BY DEF OverlayIs
<1>4. LevelOf(id) = l
  BY <1>1, LevelType DEF LevelOf
<1> HIDE DEF l
<1>5. /\ Count(s, l + 1) <= id.n /\ id.n * TileWidth + id.w <= Count(u, l)
      /\ id.n * TileWidth \in Nat
  BY <1>1, NewAtType
<1>6. Count(s, l + 1) \in Nat /\ Count(s, l) \in Nat /\ Count(u, l) \in Nat
  BY <1>1, CountType, LevelType
<1>7. Count(s, l + 1) * TileWidth <= id.n * TileWidth /\ Count(s, l + 1) * TileWidth \in Nat
  BY <1>1, <1>5, <1>6, Products, TilesAssumption
<1>8. ASSUME NEW k \in 1 .. id.w
      PROVE  /\ HashReader(over, l, id.n * TileWidth + k - 1)
                   = Hash(t, l, id.n * TileWidth + k - 1)
             /\ Hash(t, l, id.n * TileWidth + k - 1) # Missing
  <2> DEFINE j == id.n * TileWidth + k - 1
  <2>1. j \in Nat /\ Count(s, l + 1) * TileWidth <= j /\ j < Count(u, l)
    BY <1>1, <1>5, <1>6, <1>7
  <2> HIDE DEF j
  <2>2. j \in DOMAIN over[l] \/ j < Count(s, l)
    BY <1>3, <1>6, <2>1
  <2>3. HashReader(over, l, j) = Hash(t, l, j)
    BY <1>1, <1>2, <2>1, <2>2, HashReaderIs
  <2>4. Hash(t, l, j) # Missing
    BY <1>1, <2>1, HashType, LevelType
  <2> QED BY <2>3, <2>4 DEF j
<1>9. TileData(over, id) = [k \in 1 .. id.w |-> Hash(t, l, id.n * TileWidth + k - 1)]
  BY <1>8 DEF TileData, l
<1> QED BY <1>4, <1>8, <1>9 DEF Content

\* The root hash is that of all leaves.
LEMMA RootHashIs ==
    ASSUME NEW t, NEW u \in 0 .. MaxSize,
           \A l \in Level : EdgeIs(edge[l], t, u, l),
           \A l \in Level : \A j \in DOMAIN overlay[l] : overlay[l][j] = Hash(t, l, j)
    PROVE  /\ RootHash(u) = [i \in 1 .. u |-> t[i]]
           /\ \A l \in Level : \A k \in 1 .. Partial(u, l) : LevelHashes(u, l)[k] # Missing
<1> DEFINE FirstOf(m) == [i \in 1 .. m |-> t[i]]
           J == [l \in 0 .. TopLevel + 1 |-> FirstOf(Count(u, l) * Leaves[l])]
           next(f, l) == IF l = TopLevel + 1 THEN <<>>
                         ELSE f[l + 1] \o Join(LevelHashes(u, l), Leaves[l])
           Ok(f) == f = [l \in 0 .. TopLevel + 1 |-> next(f, l)]
<1>0. u \in Nat
  OBVIOUS
<1>1. ASSUME NEW l \in Level
      PROVE  /\ LevelHashes(u, l) = Hashes(t, l, Count(u, l + 1), Partial(u, l))
             /\ \A k \in 1 .. Partial(u, l) : LevelHashes(u, l)[k] # Missing
  <2>1. /\ Count(u, l + 1) \in Nat /\ Partial(u, l) \in Nat
        /\ Count(u, l) = Count(u, l + 1) * TileWidth + Partial(u, l)
    BY <1>0, CountType, CountUp, LevelType
  <2>2. Count(u, l + 1) * TileWidth \in Nat
    BY <2>1, Products, TilesAssumption
  <2>3. ASSUME NEW k \in 1 .. Partial(u, l)
        PROVE  /\ HashReader(overlay, l, Count(u, l + 1) * TileWidth + k - 1)
                     = Hash(t, l, Count(u, l + 1) * TileWidth + k - 1)
               /\ Hash(t, l, Count(u, l + 1) * TileWidth + k - 1) # Missing
    <3> DEFINE j == Count(u, l + 1) * TileWidth + k - 1
    <3>1. j \in Nat /\ Count(u, l + 1) * TileWidth <= j /\ j < Count(u, l)
      BY <2>1, <2>2
    <3> HIDE DEF j
    <3>2. HashReader(overlay, l, j) = Hash(t, l, j)
      BY <1>0, <3>1, HashReaderIs
    <3>3. Hash(t, l, j) # Missing
      BY <3>1, HashType, LevelType
    <3> QED BY <3>2, <3>3 DEF j
  <2> QED BY <2>3 DEF LevelHashes, Hashes
<1>2. ASSUME NEW l \in Level
      PROVE  J[l + 1] \o Join(LevelHashes(u, l), Leaves[l]) = J[l]
  <2>1. /\ Count(u, l + 1) \in Nat /\ Partial(u, l) \in Nat
        /\ Count(u, l) = Count(u, l + 1) * TileWidth + Partial(u, l)
        /\ Leaves[l] \in Nat /\ Leaves[l + 1] = TileWidth * Leaves[l]
    BY <1>0, CountType, CountUp, LevelType, LeavesType, LeavesStep
  <2> DEFINE a == Count(u, l + 1) * TileWidth * Leaves[l]
             b == Partial(u, l) * Leaves[l]
  <2>2. Join(LevelHashes(u, l), Leaves[l]) = Below(t, l, Count(u, l + 1), Partial(u, l))
    BY <1>1, <2>1, JoinHashes
  <2>3. Below(t, l, Count(u, l + 1), Partial(u, l)) = [p \in 1 .. b |-> t[a + p]]
    BY DEF Below
  <2>4. a \in Nat /\ b \in Nat
    BY <2>1, Products, TilesAssumption
  <2>5. Count(u, l + 1) * Leaves[l + 1] = a
    BY <2>1, Products, TilesAssumption
  <2>6. Count(u, l) * Leaves[l] = a + b
    <3>1. Count(u, l + 1) * TileWidth \in Nat
      BY <2>1, Products, TilesAssumption
    <3> QED BY <2>1, <3>1, Products
  <2> HIDE DEF a, b
  <2>7. l \in 0 .. TopLevel + 1 /\ l + 1 \in 0 .. TopLevel + 1
    BY LevelType
  <2>8. J[l + 1] = FirstOf(a) /\ J[l] = FirstOf(a + b)
    BY <2>5, <2>6, <2>7
  <2>9. FirstOf(a) \o [p \in 1 .. b |-> t[a + p]] = FirstOf(a + b)
    BY <2>4
  <2> QED BY <2>2, <2>3, <2>8, <2>9
<1>3. J[TopLevel + 1] = <<>>
  <2>1. Count(u, TopLevel + 1) = 0 /\ TopLevel + 1 \in 0 .. TopLevel + 1
    BY CountTop, TilesAssumption
  <2>2. Count(u, TopLevel + 1) * Leaves[TopLevel + 1] = 0
    BY <2>1, LeavesType
  <2>3. FirstOf(0) = <<>>
    OBVIOUS
  <2> QED BY <2>1, <2>2, <2>3
<1>4. J[0] = [i \in 1 .. u |-> t[i]]
  <2>1. Count(u, 0) * Leaves[0] = u /\ 0 \in 0 .. TopLevel + 1
    BY <1>0, CountZero, LeavesStep, TilesAssumption
  <2> QED BY <2>1
<1>5. Ok(J)
  <2>1. ASSUME NEW l \in 0 .. TopLevel + 1 PROVE J[l] = next(J, l)
    <3>1. l # TopLevel + 1 => l \in Level
      BY TilesAssumption DEF Level
    <3> HIDE DEF J
    <3> QED BY <3>1, <1>2, <1>3
  <2>2. J = [l \in 0 .. TopLevel + 1 |-> J[l]]
    OBVIOUS
  <2> HIDE DEF J, next
  <2> QED BY <2>1, <2>2
<1> HIDE DEF J
<1>6. ASSUME NEW f, Ok(f) PROVE f[0] = J[0]
  <2> DEFINE Bad == {m \in 0 .. TopLevel + 1 : f[TopLevel + 1 - m] # J[TopLevel + 1 - m]}
  <2>0. TopLevel + 1 \in Nat /\ TopLevel \in Nat
    BY TilesAssumption
  <2>1. \A l \in 0 .. TopLevel + 1 : f[l] = next(f, l)
    <3> HIDE DEF next
    <3> QED BY <1>6
  <2>2. Bad = {}
    <3> SUFFICES ASSUME Bad # {} PROVE FALSE
      OBVIOUS
    <3>1. PICK m \in Bad : \A k \in Bad : m <= k
      <4>1. Bad \subseteq Nat
        BY <2>0
      <4> QED BY <4>1, Least
    <3>2. m # 0
      <4>1. f[TopLevel + 1] = <<>>
        BY <2>0, <2>1
      <4> QED BY <2>0, <3>1, <4>1, <1>3
    <3> DEFINE l == TopLevel + 1 - m
    <3>3. l \in Level /\ l # TopLevel + 1 /\ l \in 0 .. TopLevel + 1
          /\ m - 1 \in 0 .. TopLevel + 1 /\ m - 1 < m /\ TopLevel + 1 - (m - 1) = l + 1
      BY <2>0, <3>1, <3>2 DEF Level
    <3>4. f[l + 1] = J[l + 1]
      <4>1. m - 1 \notin Bad
        BY <3>1, <3>3, <2>0
      <4> QED BY <3>3, <4>1
    <3>5. f[l] # J[l]
      BY <3>1
    <3> HIDE DEF l
    <3>6. f[l] = f[l + 1] \o Join(LevelHashes(u, l), Leaves[l])
      BY <2>1, <3>3
    <3> QED BY <1>2, <3>3, <3>4, <3>5, <3>6
  <2>3. TopLevel + 1 \in 0 .. TopLevel + 1 /\ TopLevel + 1 - (TopLevel + 1) = 0
    BY <2>0
  <2> QED BY <2>2, <2>3
<1>7. RootHash(u) = (CHOOSE f : Ok(f))[0]
  BY DEF RootHash
<1> HIDE DEF Ok
<1>8. Ok(CHOOSE f : Ok(f))
  BY <1>5
<1> QED BY <1>1, <1>4, <1>6, <1>7, <1>8

-----------------------------------------------------------------------------
(* The data tiles of a pool. *)

\* The first w entries of a data tile.
Entries(t, n, w) == [k \in 1 .. w |-> <<t[n * TileWidth + k]>>]

LEMMA DataContent ==
    ASSUME NEW t, NEW n \in Nat, NEW w \in Nat
    PROVE  Content(t, TileId(-1, n, w)) = Entries(t, n, w)
<1>1. LevelOf(TileId(-1, n, w)) = 0
  BY DEF LevelOf, TileId
<1>2. n * TileWidth \in Nat
  BY Products, TilesAssumption
<1>3. \A k \in 1 .. w : Hash(t, 0, n * TileWidth + k - 1) = <<t[n * TileWidth + k]>>
  <2> TAKE k \in 1 .. w
  <2>1. n * TileWidth + k - 1 \in Nat /\ (n * TileWidth + k - 1) + 1 = n * TileWidth + k
    BY <1>2
  <2> QED BY <2>1, HashZero
<1> QED BY <1>1, <1>3, TileIdFields DEF Content, Entries

\* The edge's data tile, when it is that of a tree of s leaves.
DataEdgeIs(e, t, s) ==
    /\ e.n \in Nat /\ e.w \in 0 .. TileWidth /\ e.n * TileWidth + e.w = s
    /\ e.data = Content(t, TileId(-1, e.n, e.w))

LEMMA DataBaseIs ==
    ASSUME NEW t, NEW s \in Nat, DataEdgeIs(edge[-1], t, s)
    PROVE  /\ DataBase.n = Count(s, 1)
           /\ DataBase.data = Entries(t, Count(s, 1), Partial(s, 0))
<1> DEFINE e == edge[-1]
<1>1. e.n \in Nat /\ e.w \in 0 .. TileWidth /\ e.n * TileWidth + e.w = s
      /\ e.data = Entries(t, e.n, e.w)
  <2>1. /\ e.n \in Nat /\ e.w \in 0 .. TileWidth /\ e.n * TileWidth + e.w = s
        /\ e.data = Content(t, TileId(-1, e.n, e.w))
    BY DEF DataEdgeIs
  <2> HIDE DEF e
  <2>2. e.w \in Nat
    BY <2>1, TilesAssumption
  <2> QED BY <2>1, <2>2, DataContent
<1>2. DataBase = IF e.w = TileWidth THEN [n |-> e.n + 1, w |-> 0, data |-> <<>>] ELSE e
  BY DEF DataBase
<1>3. Count(s, 0) = s /\ Leaves[1] = TileWidth
  <2>1. Leaves[0 + 1] = TileWidth * 1 /\ 0 \in Level
    BY LeavesStep, TilesAssumption DEF Level
  <2> QED BY <2>1, CountZero, TilesAssumption
<1> HIDE DEF e
<1>4. CASE e.w = TileWidth
  <2>1. s = (e.n + 1) * TileWidth + 0
    BY <1>1, <1>4, TilesAssumption
  <2>2. s \div TileWidth = e.n + 1 /\ s % TileWidth = 0
    <3>1. e.n + 1 \in Nat /\ 0 \in 0 .. TileWidth - 1
      BY <1>1, TilesAssumption
    <3> QED BY <2>1, <3>1, DivideIs, TilesAssumption
  <2>3. Count(s, 1) = e.n + 1 /\ Partial(s, 0) = 0
    BY <1>3, <2>2 DEF Count, Partial
  <2>4. Entries(t, e.n + 1, 0) = <<>>
    BY DEF Entries
  <2> QED BY <1>2, <1>4, <2>3, <2>4
<1>5. CASE e.w # TileWidth
  <2>1. e.w \in 0 .. TileWidth - 1
    BY <1>1, <1>5, TilesAssumption
  <2>2. s \div TileWidth = e.n /\ s % TileWidth = e.w
    BY <1>1, <2>1, DivideIs, TilesAssumption
  <2>3. Count(s, 1) = e.n /\ Partial(s, 0) = e.w
    BY <1>3, <2>2 DEF Count, Partial
  <2> QED BY <1>1, <1>2, <1>5, <2>3
<1> QED BY <1>4, <1>5

LEMMA DataWithIs ==
    ASSUME NEW t, NEW s \in Nat, DataEdgeIs(edge[-1], t, s), NEW k \in Nat,
           NEW new, Len(new) = k, \A i \in 1 .. k : t[s + i] = new[i]
    PROVE  DataWith(new) = Entries(t, Count(s, 1), Partial(s, 0) + k)
<1> DEFINE n == Count(s, 1)
           w == Partial(s, 0)
<1>1. n \in Nat /\ w \in Nat /\ n * TileWidth + w = s /\ n * TileWidth \in Nat
  <2>1. 0 \in Level /\ 0 \in 0 .. TopLevel + 1 /\ 1 \in 0 .. TopLevel + 1
    BY TilesAssumption DEF Level
  <2>2. n \in Nat /\ w \in Nat
    BY <2>1, CountType
  <2>3. Count(s, 0) = Count(s, 0 + 1) * TileWidth + Partial(s, 0)
    BY <2>1, CountUp
  <2> QED BY <2>2, <2>3, CountZero, Products, TilesAssumption
<1>2. DataBase.data = [i \in 1 .. w |-> <<t[n * TileWidth + i]>>]
  BY DataBaseIs DEF Entries
<1> HIDE DEF n, w
<1>3. [i \in 1 .. k |-> <<new[i]>>] = [i \in 1 .. k |-> <<t[n * TileWidth + (w + i)]>>]
  <2>1. \A i \in 1 .. k : n * TileWidth + (w + i) = s + i
    <3> DEFINE x == n * TileWidth
    <3>1. x \in Nat /\ w \in Nat /\ x + w = s
      BY <1>1
    <3> HIDE DEF x
    <3>2. \A i \in 1 .. k : x + (w + i) = s + i
      BY <3>1
    <3> QED BY <3>2 DEF x
  <2> QED BY <2>1
<1> DEFINE e(i) == <<t[n * TileWidth + i]>>
<1>4. [i \in 1 .. w |-> e(i)] \o [i \in 1 .. k |-> e(w + i)] = [i \in 1 .. w + k |-> e(i)]
  <2> HIDE DEF e
  <2> QED BY <1>1
<1>5. DataWith(new) = DataBase.data \o [i \in 1 .. k |-> <<new[i]>>]
  BY DEF DataWith
<1> QED BY <1>2, <1>3, <1>4, <1>5 DEF n, w, Entries

\* A piece of the data is a tile of the tree.
LEMMA DataChunkIs ==
    ASSUME NEW t, NEW n \in Nat, NEW a \in Nat, NEW q \in Nat, q * TileWidth <= a,
           NEW all, all = Entries(t, n, a)
    PROVE  LET w == IF (q + 1) * TileWidth < a THEN TileWidth ELSE a - q * TileWidth
           IN  /\ w \in Nat
               /\ DataChunk(all, q) = Content(t, TileId(-1, n + q, w))
               /\ Len(DataChunk(all, q)) = w
<1> DEFINE w == IF (q + 1) * TileWidth < a THEN TileWidth ELSE a - q * TileWidth
           b == q * TileWidth
           e(i) == <<t[n * TileWidth + i]>>
<1>1. b \in Nat /\ (q + 1) * TileWidth = b + TileWidth /\ n * TileWidth \in Nat
      /\ (n + q) * TileWidth = n * TileWidth + b
  BY Products, TilesAssumption
<1>2. Len(all) = a
  BY DEF Entries
<1>3. w \in Nat /\ b + w <= a /\ DataChunk(all, q) = SubSeq(all, b + 1, b + w)
  <2>1. DataChunk(all, q) = SubSeq(all, b + 1, IF b + TileWidth < a THEN b + TileWidth ELSE a)
    BY <1>1, <1>2 DEF DataChunk
  <2>2. (IF b + TileWidth < a THEN b + TileWidth ELSE a) = b + w
    BY <1>1, TilesAssumption
  <2> HIDE DEF b
  <2>3. w \in Nat /\ b + w <= a
    BY <1>1, TilesAssumption DEF b
  <2> QED BY <2>1, <2>2, <2>3
<1> HIDE DEF w, b
<1>4. SubSeq(all, b + 1, b + w) = [i \in 1 .. w |-> e(b + i)]
  <2> HIDE DEF e
  <2>1. all = [i \in 1 .. a |-> e(i)]
    BY DEF e, Entries
  <2> QED BY <1>1, <1>3, <2>1
<1>5. [i \in 1 .. w |-> e(b + i)] = Content(t, TileId(-1, n + q, w))
  <2>1. Content(t, TileId(-1, n + q, w)) = [i \in 1 .. w |-> <<t[(n + q) * TileWidth + i]>>]
    <3>1. n + q \in Nat
      OBVIOUS
    <3>2. Content(t, TileId(-1, n + q, w)) = Entries(t, n + q, w)
      BY <1>3, <3>1, DataContent
    <3> QED BY <3>2 DEF Entries
  <2>2. \A i \in 1 .. w : (n + q) * TileWidth + i = n * TileWidth + (b + i)
    BY <1>1, <1>3
  <2> QED BY <2>1, <2>2
<1>6. Len([i \in 1 .. w |-> e(b + i)]) = w
  BY <1>3
<1> QED BY <1>3, <1>4, <1>5, <1>6 DEF w, b

\* The uploads of a pool's entries are the new data tiles, and the last of them
\* stays at the edge.
LEMMA DataUploadsAre ==
    ASSUME NEW t, NEW s \in Nat, DataEdgeIs(edge[-1], t, s), NEW k \in Nat \ {0},
           NEW new, Len(new) = k, \A i \in 1 .. k : t[s + i] = new[i]
    PROVE  /\ DataUploads(new) = {[id |-> id, data |-> Content(t, id)] :
                                    id \in {i \in AllTiles(s, s + k) : i.l = -1}}
           /\ DataEdgeIs(DataEdge(new), t, s + k)
<1> DEFINE n == Count(s, 1)
           a == Partial(s, 0) + k
           last == a \div TileWidth
           all == DataWith(new)
           wide(q) == IF (q + 1) * TileWidth < a THEN TileWidth ELSE a - q * TileWidth
<1>1. /\ n \in Nat /\ a \in Nat /\ a > 0 /\ n * TileWidth + a = s + k
      /\ n * TileWidth \in Nat /\ Count(s, 0) = s /\ Count(s + k, 0) = s + k
      /\ 0 \in Level /\ s + k \in Nat
  <2>1. 0 \in Level /\ 0 \in 0 .. TopLevel + 1 /\ 1 \in 0 .. TopLevel + 1
    BY TilesAssumption DEF Level
  <2>2. n \in Nat /\ Partial(s, 0) \in Nat
    BY <2>1, CountType
  <2>3. Count(s, 0) = Count(s, 0 + 1) * TileWidth + Partial(s, 0)
    BY <2>1, CountUp
  <2>4. n * TileWidth \in Nat
    BY <2>2, Products, TilesAssumption
  <2>5. s + k \in Nat
    OBVIOUS
  <2>6. Count(s, 0) = s /\ Count(s + k, 0) = s + k
    BY <2>5, CountZero
  <2> QED BY <2>1, <2>2, <2>3, <2>4, <2>5, <2>6
<1>2. all = Entries(t, n, a)
  BY DataWithIs
<1>3. DataBase.n = n
  BY DataBaseIs
<1>4. last \in Nat /\ a % TileWidth \in 0 .. TileWidth - 1
      /\ a = last * TileWidth + (a % TileWidth) /\ last * TileWidth \in Nat
  BY <1>1, Division, Products, TilesAssumption
<1> HIDE DEF last
<1> DEFINE r == a % TileWidth
           x == n * TileWidth
           y == last * TileWidth
<1>12. /\ r \in 0 .. TileWidth - 1 /\ x \in Nat /\ y \in Nat
       /\ a = y + r /\ x + a = s + k
  BY <1>1, <1>4
<1>13. (n + last) * TileWidth = x + y
  BY <1>1, <1>4, Products, TilesAssumption
<1> HIDE DEF r, x, y
<1>5. Len(all) = a
  BY <1>1, <1>2 DEF Entries
<1>6. Count(s + k, 1) = n + last /\ Partial(s + k, 0) = r
  <2>2. (s + k) \div TileWidth = n + last /\ (s + k) % TileWidth = r
    <3> DEFINE m == n + last
               u == s + k
    <3>1. m \in Nat /\ u \in Nat /\ m * TileWidth = x + y
      BY <1>1, <1>4, <1>13
    <3>2. u = x + y + r
      BY <1>12, TilesAssumption
    <3> HIDE DEF m, u
    <3>3. u = m * TileWidth + r
      BY <3>1, <3>2
    <3>4. u \div TileWidth = m /\ u % TileWidth = r
      BY <1>12, <3>1, <3>3, DivideIs, TilesAssumption
    <3> QED BY <3>4 DEF m, u
  <2>3. Leaves[1] = TileWidth
    <3>1. Leaves[0 + 1] = TileWidth * 1
      BY <1>1, LeavesStep
    <3> QED BY <3>1, TilesAssumption
  <2> QED BY <1>1, <2>2, <2>3 DEF Count, Partial
<1> HIDE DEF n, a, all
<1>7. ASSUME NEW q \in 0 .. last
      PROVE  /\ q \in Nat /\ wide(q) \in Nat
             /\ DataChunk(all, q) = Content(t, TileId(-1, n + q, wide(q)))
             /\ Len(DataChunk(all, q)) = wide(q)
  <2>1. q \in Nat /\ q * TileWidth <= y /\ q * TileWidth \in Nat
    <3>1. q \in Nat /\ q <= last
      BY <1>4
    <3> QED BY <3>1, <1>4, Products, TilesAssumption DEF y
  <2>2. q * TileWidth <= a
    <3> DEFINE z == q * TileWidth
    <3>1. z \in Nat /\ z <= y
      BY <2>1
    <3> HIDE DEF z
    <3>2. z <= a
      BY <1>12, <3>1, TilesAssumption
    <3> QED BY <3>2 DEF z
  <2> QED BY <1>1, <1>2, <2>1, <2>2, DataChunkIs
<1>8. \A q \in 0 .. last : wide(q) = IF q < last THEN TileWidth ELSE r
  <2> TAKE q \in 0 .. last
  <2> DEFINE z == q * TileWidth
             z1 == (q + 1) * TileWidth
  <2>0. z \in Nat /\ z1 = z + TileWidth
    BY <1>4, Products, TilesAssumption
  <2>1. CASE q < last
    <3>1. q + 1 \in Nat /\ q + 1 <= last
      BY <1>4, <2>1
    <3>2. z1 <= y
      BY <3>1, <1>4, Products, TilesAssumption DEF y
    <3> HIDE DEF z, z1
    <3>3. (IF z1 < a THEN TileWidth ELSE a - z) = TileWidth
      BY <1>1, <1>12, <2>0, <3>2, TilesAssumption
    <3> QED BY <2>1, <3>3 DEF z, z1
  <2>2. CASE q = last
    <3>1. z = y
      BY <2>2 DEF y
    <3> HIDE DEF z, z1
    <3>2. (IF z1 < a THEN TileWidth ELSE a - z) = r
      BY <1>1, <1>12, <2>0, <3>1, TilesAssumption
    <3> QED BY <2>2, <3>2 DEF z, z1
  <2> QED BY <1>4, <2>1, <2>2
<1> HIDE DEF wide
<1> DEFINE Tiled == {i \in AllTiles(s, s + k) : i.l = -1}
<1>9. ASSUME NEW id
      PROVE  id \in Tiled <=> \E q \in 0 .. last : id = TileId(-1, n + q, wide(q)) /\ wide(q) > 0
  <2>1. id \in Tiled <=> id \in Tile /\ id.l = -1 /\ NewAt(s, s + k, 0, id.n, id.w)
    <3>1. s <= s + k
      OBVIOUS
    <3>2. id \in AllTiles(s, s + k) <=> id \in Tile /\ NewAt(s, s + k, LevelOf(id), id.n, id.w)
      BY <1>1, <3>1, AllTilesAre
    <3> QED BY <3>2 DEF LevelOf
  <2>2. ASSUME NEW m, NEW w
        PROVE  NewAt(s, s + k, 0, m, w) <=>
                 \/ m \in n .. n + last - 1 /\ w = TileWidth
                 \/ m = n + last /\ w = r /\ w > 0
    <3>1. Count(s, 0) # Count(s + k, 0)
      BY <1>1
    <3>2. Count(s, 0 + 1) = n /\ Count(s + k, 0 + 1) = n + last
      BY <1>6 DEF n
    <3>3. Partial(s + k, 0) = r
      BY <1>6
    <3>4. n \in Nat /\ last \in Nat
      BY <1>1, <1>4
    <3>5. NewAt(s, s + k, 0, m, w) <=>
            /\ Count(s, 0) # Count(s + k, 0)
            /\ \/ m \in Count(s, 0 + 1) .. Count(s + k, 0 + 1) - 1 /\ w = TileWidth
               \/ m = Count(s + k, 0 + 1) /\ w = Partial(s + k, 0) /\ w > 0
      BY DEF NewAt
    <3>6. Count(s, 0 + 1) .. Count(s + k, 0 + 1) - 1 = n .. n + last - 1
      BY <3>2, <3>4
    <3> QED BY <3>1, <3>2, <3>3, <3>5, <3>6, Zenon
  <2>3. ASSUME id \in Tiled
        PROVE  \E q \in 0 .. last : id = TileId(-1, n + q, wide(q)) /\ wide(q) > 0
    <3>1. id = TileId(-1, id.n, id.w) /\ id.n \in Nat /\ id.w > 0
          /\ NewAt(s, s + k, 0, id.n, id.w)
      BY <2>1, <2>3, TileIdIs, TilesAssumption DEF Tile
    <3> DEFINE q == id.n - n
    <3>2. q \in 0 .. last /\ n + q = id.n
      <4>1. \/ id.n \in n .. n + last - 1 /\ id.w = TileWidth
            \/ id.n = n + last /\ id.w = r /\ id.w > 0
        BY <2>2, <3>1
      <4>2. n \in Nat /\ last \in Nat
        BY <1>1, <1>4
      <4> QED BY <3>1, <4>1, <4>2
    <3>3. id.w = IF q < last THEN TileWidth ELSE r
      <4>1. \/ id.n \in n .. n + last - 1 /\ id.w = TileWidth
            \/ id.n = n + last /\ id.w = r /\ id.w > 0
        BY <2>2, <3>1
      <4> QED BY <1>1, <1>4, <4>1
    <3> QED BY <3>1, <3>2, <3>3, <1>8
  <2>4. ASSUME NEW q \in 0 .. last, id = TileId(-1, n + q, wide(q)), wide(q) > 0
        PROVE  id \in Tiled
    <3>1. wide(q) \in 1 .. TileWidth /\ n + q \in Nat
      <4>1. wide(q) = IF q < last THEN TileWidth ELSE r
        BY <1>8
      <4> QED BY <1>1, <1>4, <1>12, <2>4, <4>1, TilesAssumption
    <3>2. id.l = -1 /\ id.n = n + q /\ id.w = wide(q)
      BY <2>4, TileIdFields
    <3>3. id \in Tile
      BY <3>1, <2>4, TilesAssumption DEF Tile, TileId
    <3>4. NewAt(s, s + k, 0, n + q, wide(q))
      <4>1. wide(q) = IF q < last THEN TileWidth ELSE r
        BY <1>8
      <4>2. q < last => n + q \in n .. n + last - 1
        BY <1>1, <1>4
      <4>3. ~(q < last) => n + q = n + last
        BY <1>1, <1>4
      <4> QED BY <2>2, <2>4, <4>1, <4>2, <4>3
    <3> QED BY <2>1, <3>2, <3>3, <3>4
  <2> QED BY <2>3, <2>4
<1>10. DataUploads(new) = {[id |-> id, data |-> Content(t, id)] : id \in Tiled}
  <2>1. DataUploads(new) =
          {u \in {[id |-> TileId(-1, n + q, Len(DataChunk(all, q))), data |-> DataChunk(all, q)] :
                    q \in 0 .. last} : u.id.w > 0}
    BY <1>3, <1>5 DEF DataUploads, all, last
  <2>2. \A q \in 0 .. last :
          [id |-> TileId(-1, n + q, Len(DataChunk(all, q))), data |-> DataChunk(all, q)]
            = [id |-> TileId(-1, n + q, wide(q)), data |-> Content(t, TileId(-1, n + q, wide(q)))]
    BY <1>7
  <2> HIDE DEF wide, Tiled
  <2>3. ASSUME NEW u
        PROVE  u \in DataUploads(new) <=>
                 \E q \in 0 .. last :
                    /\ wide(q) > 0
                    /\ u = [id |-> TileId(-1, n + q, wide(q)),
                            data |-> Content(t, TileId(-1, n + q, wide(q)))]
    <3>1. u \in DataUploads(new) <=>
            \E q \in 0 .. last :
              /\ u = [id |-> TileId(-1, n + q, Len(DataChunk(all, q))), data |-> DataChunk(all, q)]
              /\ u.id.w > 0
      BY <2>1
    <3>2. \A q \in 0 .. last :
            u = [id |-> TileId(-1, n + q, wide(q)), data |-> Content(t, TileId(-1, n + q, wide(q)))]
              => u.id.w = wide(q)
      BY TileIdFields
    <3> QED BY <2>2, <3>1, <3>2
  <2>4. ASSUME NEW u
        PROVE  u \in {[id |-> id, data |-> Content(t, id)] : id \in Tiled} <=>
                 \E q \in 0 .. last :
                    /\ wide(q) > 0
                    /\ u = [id |-> TileId(-1, n + q, wide(q)),
                            data |-> Content(t, TileId(-1, n + q, wide(q)))]
    BY <1>9
  <2> QED BY <2>3, <2>4
<1>11. DataEdgeIs(DataEdge(new), t, s + k)
  <2>1. DataEdge(new) = [n |-> n + last, w |-> r, data |-> DataChunk(all, last)]
    BY <1>3, <1>5 DEF DataEdge, all, last, r
  <2>2. DataChunk(all, last) = Content(t, TileId(-1, n + last, r))
    <3>1. last \in 0 .. last /\ wide(last) = r
      BY <1>4, <1>8
    <3> QED BY <1>7, <3>1
  <2>3. (n + last) * TileWidth + r = s + k
    <3>1. x + y + r = s + k
      BY <1>12, TilesAssumption
    <3> QED BY <1>13, <3>1
  <2>4. n + last \in Nat /\ r \in 0 .. TileWidth
    BY <1>1, <1>4, <1>12, TilesAssumption
  <2> QED BY <2>1, <2>2, <2>3, <2>4 DEF DataEdgeIs
<1> QED BY <1>10, <1>11

-----------------------------------------------------------------------------
(* The parts of the invariant. *)

\* The tree of a process has the published leaves first.
TreeExtends ==
    /\ updated \in Nat /\ Len(sth) \in Nat
    /\ Len(Tree) = updated /\ DOMAIN Tree = 1 .. updated
    /\ up => /\ Tree \in Seq(Leaf) /\ Len(sth) <= updated
             /\ \A i \in 1 .. Len(sth) : Tree[i] = sth[i]
    /\ up /\ pc2 = "recv" => Tree = sth

LEMMA TreeIs == TypeOK /\ SizesFit => TreeExtends
<1> SUFFICES ASSUME TypeOK, SizesFit PROVE TreeExtends
  OBVIOUS
<1>1. updated \in Nat /\ Len(sth) \in Nat /\ updated \in 0 .. MaxSize
  BY TilesAssumption DEF TypeOK
<1>2. Len(Tree) = updated /\ DOMAIN Tree = 1 .. updated
  BY <1>1 DEF Tree
<1>3. up => Len(sth) <= updated
  BY <1>1 DEF SizesFit
<1>4. up => \A i \in 1 .. Len(sth) : Tree[i] = sth[i]
  BY <1>1, <1>3 DEF Tree
<1>5. up => \A i \in 1 .. updated : Tree[i] \in Leaf
  <2> SUFFICES ASSUME up, NEW i \in 1 .. updated PROVE Tree[i] \in Leaf
    OBVIOUS
  <2>1. run \in 1 .. MaxRuns
    BY TilesAssumption DEF TypeOK, SizesFit
  <2>2. CASE i <= Len(sth)
    <3>1. sth[i] \in Leaf
      BY <1>1, <2>2 DEF TypeOK
    <3> QED BY <2>2, <3>1 DEF Tree
  <2>3. CASE ~(i <= Len(sth))
    <3>1. i - 1 \in 0 .. MaxSize
      BY <1>1, TilesAssumption
    <3>2. Tree[i] = [idx |-> i - 1, run |-> run]
      BY <2>3 DEF Tree
    <3> QED BY <2>1, <3>1, <3>2 DEF Leaf
  <2> QED BY <2>2, <2>3
<1>6. up => Tree \in Seq(Leaf)
  <2> DEFINE T == Tree
  <2>1. T = [i \in 1 .. updated |-> T[i]]
    BY DEF Tree
  <2>2. up => \A i \in 1 .. updated : T[i] \in Leaf
    BY <1>5
  <2> HIDE DEF T
  <2>3. up => T \in Seq(Leaf)
    BY <1>1, <2>1, <2>2
  <2> QED BY <2>3 DEF T
<1>7. up /\ pc2 = "recv" => Tree = sth
  <2> SUFFICES ASSUME up, pc2 = "recv" PROVE Tree = sth
    OBVIOUS
  <2>1. Len(sth) = updated
    BY DEF SizesFit
  <2>2. sth = [i \in 1 .. updated |-> sth[i]]
    BY <1>1, <2>1 DEF TypeOK
  <2>3. Tree = [i \in 1 .. updated |-> sth[i]]
    BY <1>1, <2>1 DEF Tree
  <2> QED BY <2>2, <2>3
<1> QED BY <1>1, <1>2, <1>3, <1>4, <1>6, <1>7 DEF TreeExtends

LEMMA TreeIsNext == TypeOK' /\ SizesFit' => TreeExtends'
BY TreeIs, PTL

\* A tile of a tree agrees with the part of the tree there was before.
LEMMA ContentAgrees ==
    ASSUME NEW t, NEW v, Len(v) \in Nat, \A i \in 1 .. Len(v) : t[i] = v[i],
           NEW id \in Tile, tiles[id] = Content(t, id)
    PROVE  Agrees(v, id)
<1> SUFFICES ASSUME NEW k \in 1 .. id.w,
                    id.n * TileWidth + k <= Count(Len(v), LevelOf(id))
             PROVE  tiles[id][k] = Hash(v, LevelOf(id), id.n * TileWidth + k - 1)
  BY DEF Agrees
<1>1. LevelOf(id) \in 0 .. TopLevel + 1 /\ id.n * TileWidth \in Nat /\ k \in Nat /\ k > 0
  BY Products, TilesAssumption DEF Tile, LevelOf
<1>2. Count(Len(v), LevelOf(id)) \in Nat
  BY <1>1, CountType
<1>3. /\ id.n * TileWidth + k - 1 \in Nat
      /\ id.n * TileWidth + k - 1 < Count(Len(v), LevelOf(id))
  BY <1>1, <1>2
<1>4. Hash(t, LevelOf(id), id.n * TileWidth + k - 1) = Hash(v, LevelOf(id), id.n * TileWidth + k - 1)
  <2> DEFINE j == id.n * TileWidth + k - 1
  <2>1. j \in Nat /\ j < Count(Len(v), LevelOf(id))
    BY <1>3
  <2> HIDE DEF j
  <2>2. Hash(t, LevelOf(id), j) = Hash(v, LevelOf(id), j)
    BY <1>1, <2>1, HashSame
  <2> QED BY <2>2 DEF j
<1> QED BY <1>4 DEF Content

EdgesAre ==
    up => /\ \A l \in Level : EdgeIs(edge[l], Tree, updated, l)
          /\ DataEdgeIs(edge[-1], Tree, updated)

LEMMA EdgeFitsIs == TypeOK => (EdgeFits <=> EdgesAre)
<1> SUFFICES ASSUME TypeOK PROVE EdgeFits <=> EdgesAre
  OBVIOUS
<1>1. edge[-1].w \in 0 .. TileWidth
  BY TilesAssumption DEF TypeOK
<1>2. ASSUME NEW l \in Level
      PROVE  EdgeIs(edge[l], Tree, updated, l) <=>
              (Partial(updated, l) > 0 =>
                 LET id == TileId(l, Count(updated, l + 1), Partial(updated, l))
                 IN  edge[l] = [n |-> id.n, w |-> id.w, data |-> Content(Tree, id)])
  BY TileIdFields DEF EdgeIs
<1> QED BY <1>1, <1>2 DEF EdgeFits, EdgesAre, DataEdgeIs

LEMMA EdgeFitsIsNext == TypeOK' => (EdgeFits' <=> EdgesAre')
BY EdgeFitsIs, PTL

\* The data tile at the edge does not depend on more than the tree has.
LEMMA EdgesSame ==
    ASSUME NEW t, NEW v, NEW s \in Nat, \A i \in 1 .. s : t[i] = v[i]
    PROVE  /\ \A l \in Level : \A e : EdgeIs(e, t, s, l) => EdgeIs(e, v, s, l)
           /\ \A e : DataEdgeIs(e, t, s) => DataEdgeIs(e, v, s)
<1>1. ASSUME NEW l \in Level, NEW e, EdgeIs(e, t, s, l) PROVE EdgeIs(e, v, s, l)
  <2> DEFINE id == TileId(l, Count(s, l + 1), Partial(s, l))
  <2> SUFFICES ASSUME Partial(s, l) > 0 PROVE Content(t, id) = Content(v, id)
    BY <1>1 DEF EdgeIs
  <2>1. /\ Count(s, l + 1) \in Nat /\ Partial(s, l) \in 0 .. TileWidth - 1
        /\ Count(s, l) = Count(s, l + 1) * TileWidth + Partial(s, l)
        /\ Count(s, l) \in Nat /\ l \in Nat /\ l \in -1 .. TopLevel
    <3>1. /\ Count(s, l + 1) \in Nat /\ Partial(s, l) \in 0 .. TileWidth - 1 /\ Count(s, l) \in Nat
      BY CountType, LevelType
    <3>2. Count(s, l) = Count(s, l + 1) * TileWidth + Partial(s, l)
      BY CountUp
    <3>3. l \in Nat /\ l \in -1 .. TopLevel
      BY TilesAssumption DEF Level
    <3> QED BY <3>1, <3>2, <3>3
  <2>2. id \in Tile
    BY <2>1, TilesAssumption DEF Tile, TileId
  <2>3. LevelOf(id) = l
    BY <2>1, TileIdFields DEF LevelOf
  <2>4. Within(s, id)
    BY <2>1, <2>3, TileIdFields DEF Within
  <2> QED BY <2>2, <2>4, ContentSame
<1>2. ASSUME NEW e, DataEdgeIs(e, t, s) PROVE DataEdgeIs(e, v, s)
  <2>1. /\ e.n \in Nat /\ e.w \in Nat /\ e.n * TileWidth + e.w = s /\ e.n * TileWidth \in Nat
        /\ e.data = Entries(t, e.n, e.w)
    <3>1. e.n \in Nat /\ e.w \in Nat
      BY <1>2, TilesAssumption DEF DataEdgeIs
    <3> QED BY <1>2, <3>1, DataContent, Products, TilesAssumption DEF DataEdgeIs
  <2>2. Entries(t, e.n, e.w) = Entries(v, e.n, e.w)
    <3>1. \A i \in 1 .. e.w : e.n * TileWidth + i \in 1 .. s
      BY <2>1
    <3> QED BY <3>1 DEF Entries
  <2> QED BY <1>2, <2>1, <2>2, DataContent DEF DataEdgeIs
<1> QED BY <1>1, <1>2

\* The bucket has what a new process verifies.
LEMMA BucketLoads ==
    ASSUME TypeOK, SizesFit, BucketFits
    PROVE  Loads
<1> SUFFICES ASSUME sth # <<>>
             PROVE  /\ \A id \in FetchedTiles(Len(sth)) :
                          id \in DOMAIN tiles /\ tiles[id] = Content(sth, id)
                    /\ DataTile(Len(sth)) \in DOMAIN tiles
  BY DEF Loads
<1>1. Len(sth) \in 1 .. MaxSize
  <2>1. Len(sth) \in 0 .. MaxSize
    BY DEF TypeOK, SizesFit
  <2>2. Len(sth) # 0
    BY DEF TypeOK
  <2> QED BY <2>1, <2>2, TilesAssumption
<1>2. FetchedTiles(Len(sth)) \subseteq AllTiles(0, Len(sth)) /\ DataTile(Len(sth)) \in AllTiles(0, Len(sth))
  BY <1>1, FetchedAreNew, DataTileIs
<1> QED BY <1>2 DEF BucketFits, Has

-----------------------------------------------------------------------------
(* The steps. *)

LEMMA InitIInv == Init => IInv
<1> SUFFICES ASSUME Init PROVE IInv
  OBVIOUS
<1>0. /\ run = 0 /\ up = FALSE /\ treeSize = 0 /\ updated = 0 /\ uploads = {} /\ pc2 = "recv"
      /\ tiles = <<>> /\ sth = <<>> /\ heads = {0} /\ DOMAIN tiles = {} /\ Len(sth) = 0
      /\ edge = [l \in -1 .. TopLevel |-> NoTile]
  BY DEF Init
<1>1. TypeOK
  <2>1. \A l \in -1 .. TopLevel : edge[l].w = 0 /\ DOMAIN edge[l].data = 1 .. 0
    BY <1>0 DEF NoTile
  <2>2. 0 \in 0 .. MaxSize /\ 0 \in 0 .. MaxRuns /\ 0 \in 0 .. TileWidth
    BY TilesAssumption
  <2>3. sth \in Seq(Leaf) /\ DOMAIN edge = -1 .. TopLevel
    BY <1>0
  <2> QED BY <1>0, <2>1, <2>2, <2>3 DEF TypeOK
<1>2. AllTiles(0, 0) = {}
  BY AllTilesNone
<1>3. SizesFit
  BY <1>0 DEF SizesFit
<1>4. EdgeFits /\ OverlayFits /\ UploadsFit /\ LeftoversFit
  BY <1>0, <1>2 DEF EdgeFits, OverlayFits, UploadsFit, LeftoversFit
<1>5. BucketFits
  <2>1. \A l \in Level \ {0} : Count(0, l) = 0
    BY CountOfNone, LevelType
  <2> QED BY <1>0, <1>2, <2>1 DEF BucketFits
<1> QED BY <1>1, <1>3, <1>4, <1>5 DEF IInv

LEMMA DieIInv == ASSUME IInv, Die PROVE IInv'
<1>0. /\ up = TRUE /\ up' = FALSE /\ treeSize' = 0 /\ updated' = 0 /\ uploads' = {} /\ pc2' = "recv"
      /\ edge' = [l \in -1 .. TopLevel |-> NoTile]
      /\ run' = run /\ tiles' = tiles /\ sth' = sth /\ heads' = heads
  BY DEF Die, IInv, TypeOK
<1>1. TypeOK'
  <2>1. \A l \in -1 .. TopLevel : edge'[l].w = 0 /\ DOMAIN edge'[l].data = 1 .. 0
    BY <1>0 DEF NoTile
  <2>2. 0 \in 0 .. MaxSize /\ 0 \in 0 .. TileWidth
    BY TilesAssumption
  <2> QED BY <1>0, <2>1, <2>2 DEF IInv, TypeOK
<1>2. AllTiles(0, 0) = {}
  BY AllTilesNone
<1>3. SizesFit'
  BY <1>0 DEF IInv, SizesFit
<1>4. EdgeFits' /\ OverlayFits' /\ UploadsFit'
  BY <1>0, <1>2 DEF EdgeFits, OverlayFits, UploadsFit
<1>5. BucketFits'
  BY <1>0 DEF IInv, BucketFits, Has
<1>6. LeftoversFit'
  <2>1. ASSUME run = 1, NEW id \in DOMAIN tiles PROVE Agrees(sth, id)
    <3>1. Tree = Tree /\ tiles[id] = Content(Tree, id) /\ id \in Tile
      BY <1>0, <2>1 DEF IInv, LeftoversFit, Has, TypeOK
    <3>2. /\ Len(sth) \in Nat /\ \A i \in 1 .. Len(sth) : Tree[i] = sth[i]
      BY <1>0, TreeIs DEF IInv, TreeExtends
    <3> QED BY <3>1, <3>2, ContentAgrees
  <2> QED BY <1>0, <2>1 DEF IInv, LeftoversFit, Agrees
<1> QED BY <1>1, <1>3, <1>4, <1>5, <1>6 DEF IInv

LEMMA LoadLogIInv == ASSUME IInv, LoadLog PROVE IInv'
<1>0. /\ up = FALSE /\ up' = TRUE /\ run' = run + 1 /\ run + 1 \in 1 .. MaxRuns
      /\ treeSize' = Len(sth) /\ updated' = Len(sth) /\ Len(sth) \in 0 .. MaxSize
      /\ uploads' = uploads /\ pc2' = "recv" /\ pc2 = "recv"
      /\ tiles' = tiles /\ sth' = sth /\ heads' = heads
      /\ treeSize = 0 /\ updated = 0
  <2>1. ~up /\ run < MaxRuns
    BY DEF LoadLog
  <2>2. up \in BOOLEAN /\ run \in 0 .. MaxRuns /\ Len(sth) \in 0 .. MaxSize
    BY DEF IInv, TypeOK, SizesFit
  <2>3. run + 1 \in 1 .. MaxRuns
    BY <2>1, <2>2, TilesAssumption
  <2> QED BY <2>1, <2>2, <2>3 DEF LoadLog, IInv, SizesFit
<1>1. ASSUME NEW l \in -1 .. TopLevel
      PROVE  \/ sth = <<>> /\ edge'[l] = NoTile
             \/ /\ sth # <<>> /\ l = -1 /\ edge'[l] = EdgeOf(DataTile(Len(sth)))
             \/ /\ sth # <<>> /\ l # -1
                /\ \E id \in FetchedTiles(Len(sth)) : id.l = l /\ edge'[l] = EdgeOf(id)
             \/ /\ sth # <<>> /\ l # -1 /\ edge'[l] = NoTile
                /\ \A id \in FetchedTiles(Len(sth)) : id.l # l
  <2> DEFINE F == FetchedTiles(Len(sth))
             e == IF sth = <<>> THEN NoTile
                  ELSE IF l = -1 THEN EdgeOf(DataTile(Len(sth)))
                  ELSE IF \E id \in F : id.l = l THEN EdgeOf(CHOOSE id \in F : id.l = l)
                  ELSE NoTile
  <2>1. edge'[l] = e
    BY DEF LoadLog
  <2> HIDE DEF F
  <2>2. CASE \E id \in F : id.l = l
    <3>1. (CHOOSE id \in F : id.l = l) \in F /\ (CHOOSE id \in F : id.l = l).l = l
      BY <2>2
    <3> QED BY <2>1, <2>2, <3>1 DEF F
  <2>3. CASE ~ \E id \in F : id.l = l
    BY <2>1, <2>3 DEF F
  <2> QED BY <2>2, <2>3
<1>2. Loads
  BY BucketLoads DEF IInv
<1>3. \A id \in FetchedTiles(Len(sth)) :
        sth # <<>> => id \in DOMAIN tiles /\ tiles[id] = Content(sth, id)
  BY <1>2 DEF Loads
<1>4. sth # <<>> => Len(sth) \in 1 .. MaxSize
  <2>1. sth # <<>> => Len(sth) # 0
    BY DEF IInv, TypeOK
  <2> QED BY <1>0, <2>1, TilesAssumption
<1>5. sth # <<>> => DataTile(Len(sth)) \in DOMAIN tiles
                   /\ tiles[DataTile(Len(sth))] = Content(sth, DataTile(Len(sth)))
  BY <1>4, DataTileIs DEF IInv, BucketFits, Has
<1>6. TypeOK'
  <2>1. \A id \in DOMAIN tiles : id.w \in 0 .. TileWidth /\ DOMAIN tiles[id] = 1 .. id.w
    BY TilesAssumption DEF IInv, TypeOK, Tile
  <2>2. \A id : EdgeOf(id).w = id.w /\ EdgeOf(id).data = tiles[id]
    BY DEF EdgeOf
  <2>3. NoTile.w \in 0 .. TileWidth /\ DOMAIN NoTile.data = 1 .. NoTile.w
    BY TilesAssumption DEF NoTile
  <2>4. ASSUME NEW l \in -1 .. TopLevel
        PROVE  edge'[l].w \in 0 .. TileWidth /\ DOMAIN edge'[l].data = 1 .. edge'[l].w
    <3>1. CASE edge'[l] = NoTile
      BY <2>3, <3>1
    <3>2. CASE \E id \in DOMAIN tiles : edge'[l] = EdgeOf(id)
      BY <2>1, <2>2, <3>2
    <3> QED BY <1>1, <1>3, <1>5, <3>1, <3>2
  <2>5. DOMAIN edge' = -1 .. TopLevel
    BY DEF LoadLog
  <2>6. run' \in 0 .. MaxRuns
    BY <1>0, TilesAssumption
  <2> QED BY <1>0, <2>4, <2>5, <2>6 DEF IInv, TypeOK
<1>7. Len(sth') = Len(sth) /\ Len(sth) \in Nat
  BY <1>0, TilesAssumption
<1>8. SizesFit'
  <2>1. Len(sth) \in Len(sth) .. Len(sth) + MaxPool /\ run' > 0
    BY <1>0, <1>7, TilesAssumption
  <2> QED BY <1>0, <2>1 DEF IInv, SizesFit
<1>9. Tree' = sth
  <2>1. (up' /\ pc2' = "recv") => Tree' = sth'
    BY <1>6, <1>8, TreeIsNext DEF TreeExtends
  <2> QED BY <1>0, <2>1
<1>10. EdgeFits'
  <2> DEFINE s == Len(sth)
  <2>1. ASSUME NEW l \in Level PROVE EdgeIs(edge'[l], sth, s, l)
    <3> SUFFICES ASSUME Partial(s, l) > 0
                 PROVE  edge'[l] = [n |-> Count(s, l + 1), w |-> Partial(s, l),
                          data |-> Content(sth, TileId(l, Count(s, l + 1), Partial(s, l)))]
      BY DEF EdgeIs
    <3> DEFINE root == TileId(l, Count(s, l + 1), Partial(s, l))
    <3>1. root \in FetchedTiles(s) /\ root.l = l
      BY TileIdFields DEF FetchedTiles, RootTiles
    <3>2. sth # <<>>
      <4>1. Partial(0, l) = 0
        <5>1. Count(0, l) = 0
          BY CountOfNone, LevelType
        <5> QED BY <5>1, TilesAssumption DEF Partial
      <4> QED BY <4>1
    <3>3. l \in -1 .. TopLevel /\ l # -1
      BY TilesAssumption DEF Level
    <3>4. PICK id \in FetchedTiles(s) : id.l = l /\ edge'[l] = EdgeOf(id)
      BY <1>1, <3>1, <3>2, <3>3
    <3>5. id = root
      BY <1>4, <3>2, <3>4, FetchedTileIs
    <3>6. tiles[root] = Content(sth, root)
      BY <1>3, <3>1, <3>2
    <3> QED BY <3>4, <3>5, <3>6, TileIdFields DEF EdgeOf
  <2>2. DataEdgeIs(edge'[-1], sth, s)
    <3>0. -1 \in -1 .. TopLevel
      BY TilesAssumption
    <3>1. CASE sth = <<>>
      <4>1. edge'[-1] = NoTile
        BY <1>1, <3>0, <3>1
      <4>2. s = 0 /\ 0 * TileWidth + 0 = 0 /\ 0 \in 0 .. TileWidth
        BY <3>1, TilesAssumption
      <4>3. Content(sth, TileId(-1, 0, 0)) = <<>>
        BY TileIdFields DEF Content
      <4> QED BY <4>1, <4>2, <4>3 DEF DataEdgeIs, NoTile
    <3>2. CASE sth # <<>>
      <4> DEFINE id == DataTile(s)
      <4>1. edge'[-1] = EdgeOf(id)
        BY <1>1, <3>0, <3>2
      <4>2. /\ id = TileId(-1, id.n, id.w) /\ id.n * TileWidth + id.w = s
            /\ id.n \in Nat /\ id.w \in 0 .. TileWidth
        <5>1. id \in Tile /\ id = TileId(-1, id.n, id.w) /\ id.n * TileWidth + id.w = s
          BY <1>4, <3>2, DataTileIs
        <5> HIDE DEF id
        <5> QED BY <5>1, TilesAssumption DEF Tile
      <4>3. tiles[id] = Content(sth, id)
        BY <1>5, <3>2
      <4>4. EdgeOf(id).n = id.n /\ EdgeOf(id).w = id.w /\ EdgeOf(id).data = tiles[id]
        BY DEF EdgeOf
      <4> HIDE DEF id
      <4> QED BY <4>1, <4>2, <4>3, <4>4 DEF DataEdgeIs
    <3> QED BY <3>1, <3>2
  <2>3. EdgesAre'
    BY <1>0, <1>9, <2>1, <2>2 DEF EdgesAre
  <2> QED BY <1>6, <2>3, EdgeFitsIsNext
<1>11. OverlayFits'
  BY <1>0 DEF OverlayFits
<1>12. UploadsFit'
  <2>1. AllTiles(0, 0) = {} /\ AllTiles(Len(sth), Len(sth)) = {}
    BY AllTilesNone
  <2>2. uploads = {}
    BY <1>0, <2>1 DEF IInv, UploadsFit
  <2> QED BY <1>0, <2>1, <2>2 DEF UploadsFit
<1>13. BucketFits'
  BY <1>0 DEF IInv, BucketFits, Has
<1>14. LeftoversFit'
  <2>1. run \in Nat
    BY TilesAssumption DEF IInv, TypeOK
  <2>2. run' = 1 => tiles' = <<>>
    BY <1>0, <2>1 DEF IInv, LeftoversFit
  <2>3. run' # 0
    BY <1>0
  <2>4. DOMAIN <<>> = {}
    OBVIOUS
  <2> QED BY <1>0, <2>2, <2>3, <2>4 DEF IInv, LeftoversFit, Agrees
<1> QED BY <1>6, <1>8, <1>10, <1>11, <1>12, <1>13, <1>14 DEF IInv

LEMMA ReceiveEmptyPoolIInv == ASSUME IInv, ReceiveEmptyPool PROVE IInv'
<1>0. /\ up /\ pc2 = "recv" /\ updated' = updated /\ pc2' = "upload"
      /\ overlay' = [l \in Level |-> <<>>]
      /\ run' = run /\ up' = up /\ treeSize' = treeSize /\ edge' = edge /\ uploads' = uploads
      /\ tiles' = tiles /\ sth' = sth /\ heads' = heads /\ updated = treeSize
  BY DEF ReceiveEmptyPool, IInv, SizesFit
<1>1. Tree' = Tree
  BY <1>0 DEF Tree
<1>2. TypeOK'
  BY <1>0 DEF IInv, TypeOK
<1>3. SizesFit'
  BY <1>0 DEF IInv, SizesFit
<1>4. EdgeFits'
  BY <1>0, <1>1 DEF IInv, EdgeFits
<1>5. OverlayFits'
  <2>1. treeSize \in Nat
    BY TilesAssumption DEF IInv, TypeOK
  <2>2. \A l \in Level : Count(treeSize, l) \in Nat
    BY <2>1, CountType, LevelType
  <2>3. \A a \in Nat : a .. a - 1 = {}
    OBVIOUS
  <2>4. \A l \in Level : DOMAIN overlay'[l] = {}
    BY <1>0
  <2> QED BY <1>0, <2>2, <2>3, <2>4 DEF OverlayFits
<1>6. UploadsFit'
  BY <1>0, <1>1 DEF IInv, UploadsFit, Has
<1>7. BucketFits'
  BY <1>0 DEF IInv, BucketFits, Has
<1>8. LeftoversFit'
  BY <1>0, <1>1 DEF IInv, LeftoversFit, Has, Agrees
<1> QED BY <1>2, <1>3, <1>4, <1>5, <1>6, <1>7, <1>8 DEF IInv

\* The tiles at exactly the width that reaches a hash.
NarrowTile(l, c) == TileId(l, (c - 1) \div TileWidth, ((c - 1) % TileWidth) + 1)

LEMMA NarrowIs ==
    ASSUME NEW l \in Level, NEW c \in Nat \ {0}
    PROVE  /\ NarrowTile(l, c) \in Tile /\ NarrowTile(l, c).l = l
           /\ LevelOf(NarrowTile(l, c)) = l
           /\ NarrowTile(l, c).n * TileWidth + NarrowTile(l, c).w = c
<1> DEFINE n == (c - 1) \div TileWidth
           k == (c - 1) % TileWidth
<1>1. /\ n \in Nat /\ k \in 0 .. TileWidth - 1 /\ c - 1 = n * TileWidth + k
      /\ n * TileWidth \in Nat
  <2>1. c - 1 \in Nat
    OBVIOUS
  <2>2. n \in Nat /\ k \in 0 .. TileWidth - 1 /\ c - 1 = n * TileWidth + k
    BY <2>1, Division, TilesAssumption
  <2> QED BY <2>2, Products, TilesAssumption
<1>2. NarrowTile(l, c) = TileId(l, n, k + 1)
  BY DEF NarrowTile
<1> HIDE DEF n, k
<1>3. k + 1 \in 1 .. TileWidth /\ n * TileWidth + (k + 1) = c
  BY <1>1, TilesAssumption
<1>4. l \in -1 .. TopLevel /\ l # -1
  BY TilesAssumption DEF Level
<1>5. TileId(l, n, k + 1) \in Tile
  BY <1>1, <1>3, <1>4 DEF Tile, TileId
<1> QED BY <1>2, <1>3, <1>4, <1>5, TileIdFields DEF LevelOf

LEMMA NarrowUnique ==
    ASSUME NEW l \in Level, NEW c \in Nat \ {0}, NEW id \in Tile, id.l = l,
           id.n * TileWidth + id.w = c
    PROVE  id = NarrowTile(l, c)
<1> DEFINE n == id.n
           w == id.w
<1>1. n \in Nat /\ w \in 1 .. TileWidth /\ n * TileWidth \in Nat
  BY Products, TilesAssumption DEF Tile
<1>2. n * TileWidth + w = c
  OBVIOUS
<1>3. id = TileId(l, n, w)
  BY TileIdIs
<1> HIDE DEF n, w
<1>4. w - 1 \in 0 .. TileWidth - 1 /\ c - 1 = n * TileWidth + (w - 1) /\ c - 1 \in Nat
  BY <1>1, <1>2, TilesAssumption
<1>5. (c - 1) \div TileWidth = n /\ (c - 1) % TileWidth = w - 1
  <2> DEFINE a == c - 1
             k == w - 1
  <2>1. a \in Nat /\ k \in 0 .. TileWidth - 1 /\ a = n * TileWidth + k
    BY <1>4
  <2> HIDE DEF a, k
  <2>2. a \div TileWidth = n /\ a % TileWidth = k
    BY <1>1, <2>1, DivideIs, TilesAssumption
  <2> QED BY <2>2 DEF a, k
<1>6. ((c - 1) % TileWidth) + 1 = w
  BY <1>1, <1>5
<1> QED BY <1>3, <1>5, <1>6 DEF NarrowTile

\* The tile that reaches the last hash of a level that grew is new.
LEMMA NarrowNew ==
    ASSUME NEW s \in Nat, NEW u \in Nat, s <= u, NEW l \in Level,
           Count(u, l) = Count(s, l) + 1
    PROVE  NarrowTile(l, Count(u, l)) \in AllTiles(s, u)
<1> DEFINE c == Count(u, l)
           id == NarrowTile(l, c)
<1>1. c \in Nat \ {0} /\ c # Count(s, l) /\ Count(s, l) \in Nat /\ c - 1 = Count(s, l)
  <2>1. Count(s, l) \in Nat
    BY CountType, LevelType
  <2> QED BY <2>1
<1>2. id \in Tile /\ LevelOf(id) = l
  BY <1>1, NarrowIs
<1>3. id.n = (c - 1) \div TileWidth /\ id.w = ((c - 1) % TileWidth) + 1
  BY TileIdFields DEF NarrowTile
<1>4. Count(s, l + 1) = (c - 1) \div TileWidth /\ Count(u, l + 1) = c \div TileWidth
      /\ Partial(u, l) = c % TileWidth
  BY <1>1, CountUp DEF Partial
<1> HIDE DEF id
<1>5. \/ /\ id.n \in Count(s, l + 1) .. Count(u, l + 1) - 1 /\ id.w = TileWidth
      \/ /\ id.n = Count(u, l + 1) /\ id.w = Partial(u, l) /\ id.w > 0
  <2> DEFINE n == (c - 1) \div TileWidth
             k == (c - 1) % TileWidth
  <2>1. n \in Nat /\ k \in 0 .. TileWidth - 1 /\ c - 1 = n * TileWidth + k
        /\ n * TileWidth \in Nat
    <3>1. c - 1 \in Nat
      BY <1>1
    <3>2. n \in Nat /\ k \in 0 .. TileWidth - 1 /\ c - 1 = n * TileWidth + k
      BY <3>1, Division, TilesAssumption
    <3> QED BY <3>2, Products, TilesAssumption
  <2> HIDE DEF n, k, c
  <2>2. c = n * TileWidth + (k + 1)
    BY <1>1, <2>1, TilesAssumption
  <2>3. CASE k + 1 = TileWidth
    <3>1. c = (n + 1) * TileWidth + 0 /\ n + 1 \in Nat /\ 0 \in 0 .. TileWidth - 1
      BY <2>1, <2>2, <2>3, TilesAssumption
    <3>2. c \div TileWidth = n + 1
      BY <1>1, <3>1, DivideIs, TilesAssumption
    <3>3. id.n = n /\ id.w = TileWidth /\ Count(s, l + 1) = n /\ Count(u, l + 1) = n + 1
      BY <1>3, <1>4, <2>3, <3>2 DEF n, k
    <3> QED BY <2>1, <3>3
  <2>4. CASE k + 1 # TileWidth
    <3>1. k + 1 \in 0 .. TileWidth - 1
      BY <2>1, <2>4, TilesAssumption
    <3>2. c \div TileWidth = n /\ c % TileWidth = k + 1
      BY <1>1, <2>1, <2>2, <3>1, DivideIs, TilesAssumption
    <3>3. id.n = Count(u, l + 1) /\ id.w = Partial(u, l) /\ id.w = k + 1
      BY <1>3, <1>4, <3>2 DEF n, k
    <3> QED BY <2>1, <3>3
  <2> QED BY <2>3, <2>4
<1>6. NewAt(s, u, l, id.n, id.w)
  BY <1>1, <1>5 DEF NewAt
<1> QED BY <1>2, <1>6, AllTilesAre DEF id

LEMMA PutTileIInv == ASSUME IInv, PutTile PROVE IInv'
<1>0. /\ up /\ pc2 = "upload" /\ run' = run /\ up' = up /\ treeSize' = treeSize /\ edge' = edge
      /\ overlay' = overlay /\ updated' = updated /\ pc2' = pc2 /\ sth' = sth /\ heads' = heads
  BY DEF PutTile
<1>1. PICK u \in uploads :
        /\ tiles' = [id \in DOMAIN tiles \cup {u.id} |-> IF id = u.id THEN u.data ELSE tiles[id]]
        /\ uploads' = uploads \ {u}
  BY DEF PutTile
<1> DEFINE new == u.id
<1>2. /\ new \in AllTiles(treeSize, updated) /\ u = [id |-> new, data |-> Content(Tree, new)]
      /\ new \in Tile /\ DOMAIN u.data = 1 .. new.w /\ u.data = Content(Tree, new)
  BY <1>1 DEF IInv, UploadsFit, TypeOK
<1> HIDE DEF new
<1>3. /\ DOMAIN tiles' = DOMAIN tiles \cup {new} /\ tiles'[new] = Content(Tree, new)
      /\ \A id \in DOMAIN tiles : id # new => tiles'[id] = tiles[id]
  BY <1>1, <1>2 DEF new
<1>4. Tree' = Tree
  BY <1>0 DEF Tree
<1>5. /\ treeSize \in Nat /\ updated \in Nat /\ treeSize = Len(sth) /\ treeSize <= updated
      /\ updated \in treeSize .. treeSize + MaxPool
      /\ \A i \in 1 .. Len(sth) : Tree[i] = sth[i]
  BY <1>0, TreeIs, TilesAssumption DEF IInv, SizesFit, TypeOK, TreeExtends
<1>6. /\ LevelOf(new) \in Level /\ Within(updated, new)
  BY <1>2, <1>5, AllTilesType
<1>7. TypeOK'
  BY <1>0, <1>1, <1>2, <1>3 DEF IInv, TypeOK, new
<1>8. SizesFit' /\ EdgeFits' /\ OverlayFits'
  BY <1>0, <1>4 DEF IInv, SizesFit, EdgeFits, OverlayFits
<1>9. UploadsFit'
  <2>1. \A v \in uploads' : v \in uploads
    BY <1>1
  <2>2. ASSUME NEW id \in AllTiles(treeSize, updated)
        PROVE  Has(Tree, id)' \/ [id |-> id, data |-> Content(Tree, id)] \in uploads'
    <3>1. CASE id = new
      BY <1>3, <1>4, <3>1 DEF Has
    <3>2. CASE id # new
      <4>1. CASE Has(Tree, id)
        BY <1>3, <1>4, <3>2, <4>1 DEF Has
      <4>2. CASE [id |-> id, data |-> Content(Tree, id)] \in uploads
        <5>1. [id |-> id, data |-> Content(Tree, id)] # u
          BY <1>2, <3>2
        <5> QED BY <1>1, <4>2, <5>1
      <4> QED BY <4>1, <4>2 DEF IInv, UploadsFit
    <3> QED BY <3>1, <3>2
  <2> QED BY <1>0, <1>4, <2>1, <2>2 DEF IInv, UploadsFit
<1>10. ASSUME NEW id \in Tile, Within(Len(sth), id), Has(sth, id) PROVE Has(sth, id)'
  <2>1. Content(Tree, id) = Content(sth, id)
    BY <1>5, <1>10, ContentSame
  <2> QED BY <1>0, <1>3, <1>10, <2>1 DEF Has
<1>11. BucketFits'
  <2>1. \A id \in AllTiles(0, Len(sth)) : Has(sth, id)'
    <3> TAKE id \in AllTiles(0, Len(sth))
    <3>1. id \in Tile /\ Within(Len(sth), id)
      BY <1>5, AllTilesType
    <3> QED BY <1>10, <3>1 DEF IInv, BucketFits
  <2>2. \A l \in Level \ {0} : \A c \in 1 .. Count(Len(sth), l) : Has(sth, NarrowTile(l, c))'
    <3> TAKE l \in Level \ {0}
    <3> TAKE c \in 1 .. Count(Len(sth), l)
    <3>1. Count(Len(sth), l) \in Nat
      BY <1>5, CountType, LevelType
    <3>2. c \in Nat \ {0} /\ c <= Count(Len(sth), l)
      BY <3>1
    <3>3. NarrowTile(l, c) \in Tile /\ Within(Len(sth), NarrowTile(l, c))
      BY <3>2, NarrowIs DEF Within
    <3>4. Has(sth, NarrowTile(l, c))
      BY DEF IInv, BucketFits, NarrowTile
    <3> QED BY <1>10, <3>3, <3>4
  <2>3. DOMAIN tiles \subseteq DOMAIN tiles'
    BY <1>3
  <2> QED BY <1>0, <2>1, <2>2, <2>3 DEF IInv, BucketFits, NarrowTile
<1>12. Agrees(sth, new)'
  <2>1. Len(sth) \in Nat
    BY <1>5
  <2> SUFFICES ASSUME NEW k \in 1 .. new.w,
                      new.n * TileWidth + k <= Count(Len(sth), LevelOf(new))
               PROVE  Content(Tree, new)[k] = Hash(sth, LevelOf(new), new.n * TileWidth + k - 1)
    BY <1>0, <1>3 DEF Agrees
  <2> DEFINE j == new.n * TileWidth + k - 1
  <2>2. j \in Nat /\ j < Count(Len(sth), LevelOf(new)) /\ LevelOf(new) \in 0 .. TopLevel + 1
    <3>1. new.n * TileWidth \in Nat /\ k \in Nat /\ k > 0
      BY <1>2, Products, TilesAssumption DEF Tile
    <3>2. LevelOf(new) \in 0 .. TopLevel + 1
      BY <1>6, LevelType
    <3>3. Count(Len(sth), LevelOf(new)) \in Nat
      BY <2>1, <3>2, CountType
    <3> QED BY <3>1, <3>2, <3>3
  <2>3. Content(Tree, new)[k] = Hash(Tree, LevelOf(new), j)
    BY DEF Content
  <2> HIDE DEF j
  <2>4. Hash(Tree, LevelOf(new), j) = Hash(sth, LevelOf(new), j)
    <3> DEFINE s == Len(sth)
               l == LevelOf(new)
    <3>1. s \in Nat /\ (\A i \in 1 .. s : Tree[i] = sth[i])
          /\ l \in 0 .. TopLevel + 1 /\ j \in Nat /\ j < Count(s, l)
      BY <1>5, <2>1, <2>2
    <3> HIDE DEF s, l
    <3>2. Hash(Tree, l, j) = Hash(sth, l, j)
      BY <3>1, HashSame
    <3> QED BY <3>2 DEF l
  <2> QED BY <2>3, <2>4 DEF j
<1>13. LeftoversFit'
  <2>1. ASSUME NEW id \in DOMAIN tiles', id.l > 0
        PROVE  id.n * TileWidth + id.w <= Count(Len(sth), id.l) + 1 /\ Agrees(sth, id)'
    <3>1. CASE id # new
      <4>1. id \in DOMAIN tiles /\ tiles'[id] = tiles[id]
        BY <1>3, <3>1
      <4> QED BY <1>0, <2>1, <4>1 DEF IInv, LeftoversFit, Agrees
    <3>2. CASE id = new
      <4>1. id.l \in Level \ {0} /\ LevelOf(id) = id.l
        BY <1>2, <2>1, <3>2, TilesAssumption DEF Tile, Level, LevelOf
      <4>2. Count(updated, id.l) <= Count(Len(sth), id.l) + 1
        BY <1>5, <4>1, CountStep
      <4>3. id.n * TileWidth + id.w <= Count(updated, id.l)
        BY <1>6, <3>2, <4>1 DEF Within
      <4>4. Count(updated, id.l) \in Nat /\ Count(Len(sth), id.l) \in Nat
            /\ id.n * TileWidth + id.w \in Nat
        <5>1. id.n * TileWidth \in Nat /\ id.w \in Nat
          BY <1>2, <3>2, Products, TilesAssumption DEF Tile
        <5>2. Count(updated, id.l) \in Nat /\ Count(Len(sth), id.l) \in Nat
          BY <1>5, <4>1, CountType, LevelType
        <5> QED BY <5>1, <5>2
      <4> QED BY <1>12, <3>2, <4>2, <4>3, <4>4
    <3> QED BY <3>1, <3>2
  <2>2. ASSUME run = 1, NEW id \in DOMAIN tiles'
        PROVE  Within(updated, id) /\ Has(Tree, id)'
    <3>1. CASE id = new
      BY <1>3, <1>4, <1>6, <3>1 DEF Has
    <3>2. CASE id # new
      BY <1>0, <1>3, <1>4, <2>2, <3>2 DEF IInv, LeftoversFit, Has
    <3> QED BY <3>1, <3>2
  <2>3. run # 0
    BY <1>0 DEF IInv, SizesFit, TypeOK
  <2>4. ASSUME NEW id \in DOMAIN tiles', LevelOf(id) = 0
        PROVE  tiles'[id] = [k \in 1 .. id.w |->
                 <<[idx |-> id.n * TileWidth + k - 1, run |-> tiles'[id][k][1].run]>>]
    <3>1. CASE id # new
      <4>1. id \in DOMAIN tiles /\ tiles'[id] = tiles[id]
        BY <1>3, <3>1
      <4> QED BY <2>4, <4>1 DEF IInv, LeftoversFit
    <3>2. CASE id = new
      <4>1. tiles'[new] = [k \in 1 .. new.w |-> Hash(Tree, 0, new.n * TileWidth + k - 1)]
        BY <1>3, <2>4, <3>2 DEF Content
      <4>2. ASSUME NEW k \in 1 .. new.w
            PROVE  Hash(Tree, 0, new.n * TileWidth + k - 1)
                     = <<[idx |-> new.n * TileWidth + k - 1, run |-> tiles'[new][k][1].run]>>
        <5> DEFINE i == new.n * TileWidth + k
        <5>1. i \in Nat \ {0} /\ i \in 1 .. updated /\ i - 1 = new.n * TileWidth + k - 1
          <6>1. new.n * TileWidth \in Nat /\ k \in Nat /\ k > 0 /\ new.w \in Nat
            BY <1>2, Products, TilesAssumption DEF Tile
          <6>2. new.n * TileWidth + new.w <= updated
            BY <1>5, <1>6, <2>4, <3>2, CountZero DEF Within
          <6> QED BY <1>5, <6>1, <6>2
        <5>2. tiles'[new][k] = Hash(Tree, 0, i - 1)
          BY <4>1, <5>1
        <5> HIDE DEF i
        <5>3. i - 1 \in Nat /\ (i - 1) + 1 = i
          BY <5>1
        <5>4. tiles'[new][k] = <<Tree[i]>>
          BY <5>2, <5>3, HashZero
        <5>5. Tree[i] = [idx |-> i - 1, run |-> Tree[i].run]
          <6>1. Tree[i] \in Leaf
            BY <1>0, <1>5, <5>1, TreeIs DEF IInv, TreeExtends
          <6>2. Tree[i].idx = i - 1
            BY <1>5, <5>1 DEF Tree, IInv, SizesFit
          <6> QED BY <6>1, <6>2 DEF Leaf
        <5> DEFINE d == tiles'[new][k]
                   e == Tree[i]
        <5> HIDE DEF d, e
        <5>6. d = <<e>> /\ e = [idx |-> i - 1, run |-> e.run]
          BY <5>4, <5>5 DEF d, e
        <5>7. d[1] = e
          BY <5>6
        <5>8. d = <<[idx |-> i - 1, run |-> d[1].run]>>
          BY <5>6, <5>7
        <5> QED BY <5>1, <5>2, <5>8 DEF d
      <4> QED BY <3>2, <4>1, <4>2
    <3> QED BY <3>1, <3>2
  <2> QED BY <1>0, <2>1, <2>2, <2>3, <2>4 DEF LeftoversFit
<1> QED BY <1>7, <1>8, <1>9, <1>11, <1>13 DEF IInv

\* The new tree head is of the process's tree.
LEMMA SetSthIs ==
    ASSUME IInv, SetSth
    PROVE  /\ up /\ pc2 = "upload" /\ uploads = {} /\ uploads' = {} /\ pc2' = "recv"
           /\ sth' = Tree /\ treeSize' = updated /\ heads' = heads \cup {updated}
           /\ run' = run /\ up' = up /\ edge' = edge /\ updated' = updated /\ tiles' = tiles
<1>1. up /\ pc2 = "upload" /\ uploads = {} /\ uploads' = {}
      /\ run' = run /\ up' = up /\ edge' = edge /\ updated' = updated /\ tiles' = tiles
  BY DEF SetSth, UploadsDone
<1>2. updated \in 0 .. MaxSize
  BY DEF IInv, TypeOK
<1>3. \A l \in Level : EdgeIs(edge[l], Tree, updated, l)
  BY <1>1, EdgeFitsIs DEF IInv, EdgesAre
<1>4. \A l \in Level : \A j \in DOMAIN overlay[l] : overlay[l][j] = Hash(Tree, l, j)
  BY <1>1 DEF IInv, OverlayFits
<1>5. /\ RootHash(updated) = [i \in 1 .. updated |-> Tree[i]]
      /\ \A l \in Level : \A k \in 1 .. Partial(updated, l) : LevelHashes(updated, l)[k] # Missing
  BY <1>2, <1>3, <1>4, RootHashIs
<1>6. [i \in 1 .. updated |-> Tree[i]] = Tree
  BY DEF Tree
<1>7. pc2' = "recv" /\ sth' = Tree /\ treeSize' = updated /\ heads' = heads \cup {updated}
  BY <1>5, <1>6 DEF SetSth, SizeWrittenBack
<1> QED BY <1>1, <1>7

LEMMA SetSthIInv == ASSUME IInv, SetSth PROVE IInv'
<1>0. /\ up /\ pc2 = "upload" /\ uploads = {} /\ uploads' = {} /\ pc2' = "recv"
      /\ sth' = Tree /\ treeSize' = updated /\ heads' = heads \cup {updated}
      /\ run' = run /\ up' = up /\ edge' = edge /\ updated' = updated /\ tiles' = tiles
  BY SetSthIs
<1> DEFINE s == Len(sth)
           u == updated
           T == Tree
<1>1. /\ s \in Nat /\ u \in Nat /\ s <= u /\ treeSize = s /\ u \in s .. s + MaxPool
      /\ u \in 0 .. MaxSize
      /\ Len(T) = u /\ DOMAIN T = 1 .. u /\ T \in Seq(Leaf) /\ \A i \in 1 .. s : T[i] = sth[i]
  BY <1>0, TreeIs, TilesAssumption DEF IInv, SizesFit, TypeOK, TreeExtends
<1>2. \A id \in AllTiles(s, u) : Has(T, id)
  BY <1>0, <1>1 DEF IInv, UploadsFit
<1>3. Tree' = T
  <2>1. Len(sth') = updated'
    BY <1>0, <1>1
  <2>2. Tree' = [i \in 1 .. updated' |-> sth'[i]]
    BY <1>0, <1>1, <2>1 DEF Tree
  <2>3. T = [i \in 1 .. u |-> T[i]]
    BY DEF Tree
  <2> HIDE DEF T
  <2> QED BY <1>0, <2>2, <2>3 DEF T
<1>4. EdgeFits' /\ OverlayFits'
  BY <1>0, <1>3 DEF IInv, EdgeFits, OverlayFits
<1>5. TypeOK'
  <2>1. heads' \subseteq 0 .. MaxSize /\ sth' \in Seq(Leaf)
    BY <1>0, <1>1 DEF IInv, TypeOK
  <2> QED BY <1>0, <2>1 DEF IInv, TypeOK
<1>6. SizesFit'
  <2>1. \A i \in 1 .. u : T[i].idx = i - 1
    <3> TAKE i \in 1 .. u
    <3>1. CASE i <= s
      BY <1>1, <3>1 DEF IInv, SizesFit
    <3>2. CASE ~(i <= s)
      BY <3>2 DEF Tree
    <3> QED BY <3>1, <3>2
  <2>2. \A size \in heads : size <= u
    <3>1. \A size \in heads : size \in Nat /\ size <= s
      BY TilesAssumption DEF IInv, SizesFit, TypeOK
    <3> QED BY <1>1, <3>1
  <2>3. u \in u .. u + MaxPool /\ run > 0
    BY <1>0, <1>1, TilesAssumption DEF IInv, SizesFit
  <2>4. Len(sth') = u
    BY <1>0, <1>1
  <2> HIDE DEF T, u
  <2> QED BY <1>0, <2>1, <2>2, <2>3, <2>4 DEF SizesFit, T, u
<1> HIDE DEF s, u, T
<1>7. UploadsFit'
  <2>1. AllTiles(treeSize', updated') = {}
    BY <1>0, AllTilesNone
  <2> QED BY <1>0, <2>1 DEF UploadsFit
<1>8. ASSUME NEW id \in Tile, Within(s, id), Has(sth, id) PROVE Has(T, id)
  <2>1. Content(T, id) = Content(sth, id)
    BY <1>1, <1>8, ContentSame
  <2> QED BY <1>8, <2>1 DEF Has
<1>9. \A id : Has(sth, id)' <=> Has(T, id)
  BY <1>0 DEF Has, T
<1>10. BucketFits'
  <2>1. \A id \in AllTiles(0, u) : Has(T, id)
    <3> TAKE id \in AllTiles(0, u)
    <3>1. CASE id \in AllTiles(s, u)
      BY <1>2, <3>1
    <3>2. CASE id \in AllTiles(0, s)
      <4>1. id \in Tile /\ Within(s, id)
        BY <1>1, <3>2, AllTilesType
      <4> QED BY <1>8, <3>2, <4>1 DEF IInv, BucketFits, s
    <3> QED BY <1>1, <3>1, <3>2, AllTilesGrow
  <2>2. \A l \in Level \ {0} : \A c \in 1 .. Count(u, l) : Has(T, NarrowTile(l, c))
    <3> TAKE l \in Level \ {0}
    <3> TAKE c \in 1 .. Count(u, l)
    <3>1. Count(u, l) \in Nat /\ Count(s, l) \in Nat /\ Count(u, l) <= Count(s, l) + 1
      <4>1. Count(u, l) \in Nat /\ Count(s, l) \in Nat
        BY <1>1, CountType, LevelType
      <4> QED BY <1>1, <4>1, CountStep
    <3>2. c \in Nat \ {0}
      BY <3>1
    <3>3. CASE c <= Count(s, l)
      <4>1. Has(sth, NarrowTile(l, c))
        BY <3>1, <3>2, <3>3 DEF IInv, BucketFits, NarrowTile, s
      <4>2. NarrowTile(l, c) \in Tile /\ Within(s, NarrowTile(l, c))
        BY <3>2, <3>3, NarrowIs DEF Within
      <4> QED BY <1>8, <4>1, <4>2
    <3>4. CASE ~(c <= Count(s, l))
      <4>1. c = Count(u, l) /\ Count(u, l) = Count(s, l) + 1
        BY <3>1, <3>4
      <4> QED BY <1>1, <1>2, <4>1, NarrowNew
    <3> QED BY <3>3, <3>4
  <2>3. ASSUME NEW size \in heads' \ {0}
        PROVE  {DataTile(size), [DataTile(size) EXCEPT !.l = 0]} \subseteq DOMAIN tiles
    <3>1. CASE size \in heads
      BY <2>3, <3>1 DEF IInv, BucketFits
    <3>2. CASE size = u
      <4>1. u \in 1 .. MaxSize
        BY <1>1, <2>3, <3>2, TilesAssumption
      <4>2. DataTile(u) \in AllTiles(0, u) /\ [DataTile(u) EXCEPT !.l = 0] \in AllTiles(0, u)
        BY <4>1, DataTileIs
      <4> QED BY <2>1, <3>2, <4>2 DEF Has
    <3> QED BY <1>0, <3>1, <3>2 DEF u
  <2>4. Len(sth') = u
    BY <1>0, <1>1 DEF T
  <2> QED BY <1>0, <1>9, <2>1, <2>2, <2>3, <2>4 DEF BucketFits, NarrowTile
<1>11. ASSUME NEW id \in DOMAIN tiles, id.l > 0
       PROVE  id.n * TileWidth + id.w <= Count(u, id.l) + 1 /\ Agrees(T, id)
  <2> DEFINE l == id.l
             c == id.n * TileWidth + id.w
  <2>1. id \in Tile /\ l \in Level \ {0} /\ l \in Level /\ LevelOf(id) = l
        /\ c \in Nat \ {0} /\ id.n * TileWidth \in Nat
        /\ id.w \in Nat
    <3>1. id \in Tile
      BY DEF IInv, TypeOK
    <3>2. l \in Level \ {0} /\ LevelOf(id) = l
      BY <1>11, <3>1, TilesAssumption DEF Tile, Level, LevelOf
    <3>3. id.n * TileWidth \in Nat /\ id.w \in Nat \ {0}
      BY <3>1, Products, TilesAssumption DEF Tile
    <3> QED BY <3>1, <3>2, <3>3
  <2>2. c <= Count(s, l) + 1 /\ Agrees(sth, id)
    BY <1>11 DEF IInv, LeftoversFit, s
  <2>3. /\ Count(u, l) \in Nat /\ Count(s, l) \in Nat
        /\ Count(u, l) <= Count(s, l) + 1 /\ Count(s, l) <= Count(u, l)
    <3>1. Count(u, l) \in Nat /\ Count(s, l) \in Nat
      BY <1>1, <2>1, CountType, LevelType
    <3>2. Count(u, l) <= Count(s, l) + 1
      BY <1>1, <2>1, CountStep
    <3>3. Count(s, l) <= Count(u, l)
      BY <1>1, <2>1, CountMono, LevelType
    <3> QED BY <3>1, <3>2, <3>3
  <2> HIDE DEF l, c
  <2>4. CASE c = Count(u, l) /\ Count(u, l) = Count(s, l) + 1
    <3>1. id = NarrowTile(l, c)
      BY <2>1, NarrowUnique DEF l, c
    <3>2. Has(T, id)
      BY <1>1, <1>2, <2>1, <2>4, <3>1, NarrowNew
    <3>3. Agrees(T, id)
      BY <1>1, <2>1, <3>2, ContentAgrees DEF Has
    <3> QED BY <2>3, <2>4, <3>3 DEF l, c
  <2>5. CASE ~(c = Count(u, l) /\ Count(u, l) = Count(s, l) + 1)
    <3>1. ASSUME NEW k \in 1 .. id.w, id.n * TileWidth + k <= Count(u, l)
          PROVE  tiles[id][k] = Hash(T, l, id.n * TileWidth + k - 1)
      <4>1. id.n * TileWidth + k <= Count(s, l)
        BY <2>1, <2>2, <2>3, <2>5, <3>1 DEF c
      <4>2. tiles[id][k] = Hash(sth, l, id.n * TileWidth + k - 1)
        BY <2>1, <2>2, <4>1 DEF Agrees, s
      <4> DEFINE j == id.n * TileWidth + k - 1
      <4>3. j \in Nat /\ j < Count(s, l) /\ l \in 0 .. TopLevel + 1
        <5>1. l \in 0 .. TopLevel + 1
          BY <2>1, LevelType
        <5> QED BY <2>1, <2>3, <4>1, <5>1
      <4> HIDE DEF j
      <4>4. Hash(T, l, j) = Hash(sth, l, j)
        <5>1. s \in Nat /\ \A i \in 1 .. s : T[i] = sth[i]
          BY <1>1
        <5> QED BY <4>3, <5>1, HashSame
      <4> QED BY <4>2, <4>4 DEF j
    <3>2. Agrees(T, id)
      BY <1>1, <2>1, <3>1 DEF Agrees
    <3>3. c <= Count(u, l) + 1
      BY <2>1, <2>2, <2>3
    <3> QED BY <3>2, <3>3 DEF l, c
  <2> QED BY <2>4, <2>5
<1>12. LeftoversFit'
  <2>1. Len(sth') = u /\ \A id : Agrees(sth, id)' <=> Agrees(T, id)
    BY <1>0, <1>1 DEF T, Agrees
  <2>2. run = 1 => \A id \in DOMAIN tiles : Within(u, id) /\ Has(T, id)
    BY <1>0 DEF IInv, LeftoversFit, u, T
  <2>3. run # 0
    BY <1>0 DEF IInv, SizesFit, TypeOK
  <2>4. \A id : Has(Tree, id)' <=> Has(T, id)
    BY <1>0, <1>3 DEF Has
  <2>5. ASSUME NEW id \in DOMAIN tiles, LevelOf(id) = 0
        PROVE  tiles[id] = [k \in 1 .. id.w |->
                 <<[idx |-> id.n * TileWidth + k - 1, run |-> tiles[id][k][1].run]>>]
    BY <2>5 DEF IInv, LeftoversFit
  <2> QED BY <1>0, <1>11, <2>1, <2>2, <2>3, <2>4, <2>5 DEF LeftoversFit, u
<1> QED BY <1>4, <1>5, <1>6, <1>7, <1>10, <1>12 DEF IInv

\* The edge of a level that grew is its partial tile, if it has one.
LEMMA NewEdgeIs ==
    ASSUME NEW s \in Nat, NEW u \in Nat, s <= u, NEW l \in Level, NEW old,
           \E id \in NewTiles(s, u) : id.l = l
    PROVE  /\ NewEdge(NewTiles(s, u), old, l) \in NewTiles(s, u)
           /\ NewEdge(NewTiles(s, u), old, l).l = l
           /\ Partial(u, l) > 0 => NewEdge(NewTiles(s, u), old, l)
                                    = TileId(l, Count(u, l + 1), Partial(u, l))
<1> DEFINE new == NewTiles(s, u)
           IsLast(id) == id.l = l /\ \A o \in new : o.l = l => o.n <= id.n
           a == Count(s, l + 1)
           b == Count(u, l + 1)
<1>1. a \in Nat /\ b \in Nat /\ Partial(u, l) \in 0 .. TileWidth - 1
  BY CountType, LevelType
<1>2. ASSUME NEW o \in new, o.l = l
      PROVE  /\ Count(s, l) # Count(u, l) /\ o = TileId(l, o.n, o.w)
             /\ o.n \in a .. b - 1 \/ (o.n = b /\ o.w = Partial(u, l) /\ o.w > 0)
  <2>1. PICK m \in Level : \E n, w : o = TileId(m, n, w) /\ NewAt(s, u, m, n, w)
    BY NewTilesAre
  <2>2. PICK n, w : o = TileId(m, n, w) /\ NewAt(s, u, m, n, w)
    BY <2>1
  <2>3. m = l /\ o.n = n /\ o.w = w
    BY <1>2, <2>2, TileIdFields
  <2> QED BY <2>2, <2>3 DEF NewAt
<1>3. ASSUME NEW n, NEW w, NewAt(s, u, l, n, w) PROVE TileId(l, n, w) \in new
  BY <1>3, NewTilesAre
<1> HIDE DEF new, a, b
<1>4. PICK some \in new : some.l = l
  BY DEF new
<1>5. CASE Partial(u, l) > 0
  <2> DEFINE id == TileId(l, b, Partial(u, l))
  <2>1. id \in new /\ id.l = l /\ id.n = b
    BY <1>2, <1>3, <1>4, <1>5, TileIdFields DEF NewAt, b
  <2>2. \A o \in new : o.l = l => o.n <= b
    BY <1>1, <1>2
  <2>3. IsLast(id)
    BY <2>1, <2>2
  <2>4. ASSUME NEW o \in new, IsLast(o) PROVE o = id
    <3>1. b <= o.n
      BY <2>1, <2>4
    <3> QED BY <1>1, <1>2, <2>4, <3>1
  <2> HIDE DEF id, IsLast
  <2>5. (CHOOSE o \in new : IsLast(o)) = id
    BY <2>1, <2>3, <2>4
  <2>6. NewEdge(new, old, l) = CHOOSE o \in new : IsLast(o)
    BY DEF NewEdge, IsLast
  <2> QED BY <2>1, <2>5, <2>6 DEF id, new, b
<1>6. CASE Partial(u, l) = 0
  <2>1. \A o \in new : o.l = l => o.n \in a .. b - 1
    BY <1>2, <1>6
  <2>2. some.n \in a .. b - 1
    BY <1>4, <2>1
  <2>3. b - 1 \in a .. b - 1
    BY <1>1, <2>2
  <2> DEFINE id == TileId(l, b - 1, TileWidth)
  <2>4. id \in new
    BY <1>2, <1>3, <1>4, <2>3 DEF NewAt, a, b
  <2>5. id.l = l /\ id.n = b - 1
    BY TileIdFields
  <2>6. \A o \in new : o.l = l => o.n <= b - 1
    BY <1>1, <2>1
  <2>7. IsLast(id)
    BY <2>5, <2>6
  <2> HIDE DEF id, IsLast
  <2>8. (CHOOSE o \in new : IsLast(o)) \in new /\ IsLast(CHOOSE o \in new : IsLast(o))
    BY <2>4, <2>7
  <2>9. NewEdge(new, old, l) = CHOOSE o \in new : IsLast(o)
    BY DEF NewEdge, IsLast
  <2> QED BY <1>6, <2>8, <2>9 DEF IsLast, new
<1> QED BY <1>1, <1>5, <1>6

\* The tree with the next k leaves.
Longer(k) == [i \in 1 .. treeSize + k |->
                IF i <= Len(sth) THEN sth[i] ELSE [idx |-> i - 1, run |-> run]]

\* Everything about a pool is found and as it should be.
LEMMA PoolIs ==
    ASSUME IInv, up, pc2 = "recv", NEW k \in 1 .. MaxPool, treeSize + k <= MaxSize,
           NEW over, over = StoredHashes(Pool(k)),
           NEW new, new = NewTiles(treeSize, treeSize + k)
    PROVE  /\ \A l \in Level :
                 /\ DOMAIN over[l] = Count(treeSize, l) .. Count(treeSize + k, l) - 1
                 /\ \A j \in DOMAIN over[l] :
                      over[l][j] = Hash(Longer(k), l, j) /\ over[l][j] # Missing
           /\ \A id \in new :
                 /\ TileData(over, id) = Content(Longer(k), id)
                 /\ \A i \in 1 .. id.w : TileData(over, id)[i] # Missing
           /\ DataUploads(Pool(k)) =
                {[id |-> id, data |-> Content(Longer(k), id)] :
                   id \in {i \in AllTiles(treeSize, treeSize + k) : i.l = -1}}
           /\ DataEdgeIs(DataEdge(Pool(k)), Longer(k), treeSize + k)
           /\ \A l \in Level : EdgeIs(edge[l], Longer(k), treeSize, l)
<1> DEFINE s == treeSize
           T == Longer(k)
           pool == Pool(k)
<1>1. /\ s \in Nat /\ k \in Nat /\ k \in Nat \ {0} /\ s + k \in Nat /\ s <= s + k
      /\ Len(sth) = s /\ updated = s
  BY TilesAssumption DEF IInv, SizesFit, TypeOK
<1>2. Tree = sth /\ (\A l \in Level : EdgeIs(edge[l], Tree, s, l)) /\ DataEdgeIs(edge[-1], Tree, s)
  BY <1>1, TreeIs, EdgeFitsIs DEF IInv, TreeExtends, EdgesAre
<1>3. \A i \in 1 .. s : sth[i] = T[i]
  BY <1>1 DEF Longer
<1>4. Len(pool) = k /\ \A i \in 1 .. k : T[s + i] = pool[i]
  <2>1. ASSUME NEW i \in 1 .. k PROVE T[s + i] = pool[i]
    <3> DEFINE j == s + i
    <3>1. j \in 1 .. s + k /\ ~(j <= Len(sth))
      BY <1>1
    <3> HIDE DEF j
    <3>2. T[j] = [idx |-> j - 1, run |-> run]
      BY <3>1 DEF Longer
    <3>3. pool[i] = [idx |-> treeSize + i - 1, run |-> run]
      BY DEF Pool
    <3>4. j - 1 = treeSize + i - 1
      BY <1>1 DEF j
    <3>5. T[j] = pool[i]
      BY <3>2, <3>3, <3>4
    <3> QED BY <3>5 DEF j
  <2>2. Len(pool) = k
    <3>1. pool = [i \in 1 .. k |-> [idx |-> treeSize + i - 1, run |-> run]]
      BY DEF Pool
    <3> HIDE DEF pool
    <3> QED BY <1>1, <3>1
  <2> QED BY <2>1, <2>2
<1> HIDE DEF s, T, pool
<1>5. (\A l \in Level : EdgeIs(edge[l], T, s, l)) /\ DataEdgeIs(edge[-1], T, s)
  BY <1>1, <1>2, <1>3, EdgesSame
<1>6. over = [l \in Level |-> [j \in Count(s, l) .. Count(s + k, l) - 1 |-> Hash(T, l, j)]]
  BY <1>1, <1>4, <1>5, StoredHashesAre DEF s, pool
<1>7. ASSUME NEW l \in Level
      PROVE  /\ DOMAIN over[l] = Count(s, l) .. Count(s + k, l) - 1
             /\ \A j \in DOMAIN over[l] : over[l][j] = Hash(T, l, j) /\ over[l][j] # Missing
  <2>1. over[l] = [j \in Count(s, l) .. Count(s + k, l) - 1 |-> Hash(T, l, j)]
    BY <1>6
  <2>2. \A j \in Count(s, l) .. Count(s + k, l) - 1 : j \in Nat
    <3>1. Count(s, l) \in Nat /\ Count(s + k, l) \in Nat
      BY <1>1, CountType, LevelType
    <3> QED BY <3>1
  <2>3. \A j \in Count(s, l) .. Count(s + k, l) - 1 : Hash(T, l, j) # Missing
    BY <2>2, HashType, LevelType
  <2> QED BY <2>1, <2>3
<1>8. ASSUME NEW id \in new
      PROVE  /\ TileData(over, id) = Content(T, id)
             /\ \A i \in 1 .. id.w : TileData(over, id)[i] # Missing
  <2>1. id \in NewTiles(s, s + k)
    BY <1>8 DEF s
  <2>2. id.l \in Level
    <3>1. PICK m \in Level : \E n, w : id = TileId(m, n, w) /\ NewAt(s, s + k, m, n, w)
      BY <2>1, NewTilesAre
    <3> QED BY <3>1, TileIdFields
  <2>3. EdgeIs(edge[id.l], T, s, id.l)
    BY <1>5, <2>2
  <2>4. /\ DOMAIN over[id.l] = Count(s, id.l) .. Count(s + k, id.l) - 1
        /\ \A j \in DOMAIN over[id.l] : over[id.l][j] = Hash(T, id.l, j)
    BY <1>7, <2>2
  <2>5. s + k \in Nat /\ s <= s + k /\ s \in Nat
    BY <1>1
  <2> DEFINE u == s + k
  <2> HIDE DEF u
  <2>6. /\ u \in Nat /\ s <= u /\ id \in NewTiles(s, u)
        /\ OverlayIs(over[id.l], T, s, u, id.l)
    BY <2>1, <2>4, <2>5 DEF u, OverlayIs
  <2> QED BY <2>3, <2>5, <2>6, TileDataIs
<1>9. /\ DataUploads(pool) = {[id |-> id, data |-> Content(T, id)] :
                                 id \in {i \in AllTiles(s, s + k) : i.l = -1}}
      /\ DataEdgeIs(DataEdge(pool), T, s + k)
  BY <1>1, <1>4, <1>5, DataUploadsAre
<1> QED BY <1>5, <1>7, <1>8, <1>9 DEF s, T, pool

\* The edge after a pool.
PoolEdge(e, t, s, u, l) ==
    LET new == NewTiles(s, u)
        id == NewEdge(new, edge, l)
    IN  IF \E i \in new : i.l = l
        THEN e = [n |-> id.n, w |-> id.w, data |-> Content(t, id)]
        ELSE e = edge[l]

LEMMA AllTilesParts ==
    ASSUME NEW old \in Nat, NEW new \in Nat, old <= new
    PROVE  AllTiles(old, new) = NewTiles(old, new) \cup {i \in AllTiles(old, new) : i.l = -1}
<1> SUFFICES ASSUME NEW id \in AllTiles(old, new), id \notin NewTiles(old, new)
             PROVE  id.l = -1
  BY DEF AllTiles
<1>1. PICK i \in NewTiles(old, new) : id = [i EXCEPT !.l = -1]
  BY DEF AllTiles
<1>2. PICK m \in Level : \E n, w : i = TileId(m, n, w) /\ NewAt(old, new, m, n, w)
  BY NewTilesAre
<1> QED BY <1>1, <1>2 DEF TileId

\* What a pool changes.
LEMMA ReceivePoolIs ==
    ASSUME IInv, ReceivePool
    PROVE  \E k \in 1 .. MaxPool :
             /\ treeSize + k <= MaxSize /\ updated' = treeSize + k /\ pc2' = "upload"
             /\ Tree' = Longer(k)
             /\ \A l \in Level :
                  OverlayIs(overlay'[l], Longer(k), treeSize, treeSize + k, l)
             /\ uploads' = {[id |-> id, data |-> Content(Longer(k), id)] :
                               id \in AllTiles(treeSize, treeSize + k)}
             /\ DOMAIN edge' = -1 .. TopLevel
             /\ DataEdgeIs(edge'[-1], Longer(k), treeSize + k)
             /\ \A l \in Level : EdgeIs(edge[l], Longer(k), treeSize, l)
             /\ \A l \in Level :
                  PoolEdge(edge'[l], Longer(k), treeSize, treeSize + k, l)
<1>0. up /\ pc2 = "recv" /\ sth' = sth /\ run' = run
  BY DEF ReceivePool
<1> DEFINE found(over, new) ==
             /\ \A l \in Level : \A j \in DOMAIN over[l] : over[l][j] # Missing
             /\ \A id \in new : \A i \in 1 .. id.w : TileData(over, id)[i] # Missing
<1>1. PICK k \in 1 .. MaxPool :
        LET over == StoredHashes(Pool(k))
            new == NewTiles(treeSize, treeSize + k)
        IN  /\ treeSize + k <= MaxSize
            /\ updated' = treeSize + k
            /\ overlay' = over
            /\ edge' = [l \in -1 .. TopLevel |->
                          IF l = -1 THEN DataEdge(Pool(k))
                          ELSE IF \E id \in new : id.l = l
                          THEN LET id == NewEdge(new, edge, l)
                               IN  [n |-> id.n, w |-> id.w, data |-> TileData(over, id)]
                          ELSE edge[l]]
            /\ uploads' = DataUploads(Pool(k))
                            \cup {[id |-> id, data |-> TileData(over, id)] : id \in new}
            /\ pc2' = IF found(over, new) THEN "upload" ELSE "failed"
  BY DEF ReceivePool
<1> DEFINE over == StoredHashes(Pool(k))
           new == NewTiles(treeSize, treeSize + k)
           T == Longer(k)
           u == treeSize + k
           all == AllTiles(treeSize, treeSize + k)
           dataTiles == {i \in all : i.l = -1}
           theEdge(l) == NewEdge(new, edge, l)
<1>2. /\ treeSize \in Nat /\ k \in Nat /\ u \in Nat /\ treeSize <= u
      /\ Len(sth) = treeSize
  BY <1>0, TilesAssumption DEF IInv, SizesFit, TypeOK
<1>3. /\ \A l \in Level :
            /\ DOMAIN over[l] = Count(treeSize, l) .. Count(treeSize + k, l) - 1
            /\ \A j \in DOMAIN over[l] : over[l][j] = Hash(T, l, j) /\ over[l][j] # Missing
      /\ \A id \in new :
            /\ TileData(over, id) = Content(T, id)
            /\ \A i \in 1 .. id.w : TileData(over, id)[i] # Missing
      /\ DataUploads(Pool(k)) = {[id |-> id, data |-> Content(T, id)] : id \in dataTiles}
      /\ DataEdgeIs(DataEdge(Pool(k)), T, treeSize + k)
      /\ \A l \in Level : EdgeIs(edge[l], T, treeSize, l)
  BY <1>0, <1>1, PoolIs
<1>4. all = new \cup dataTiles
  BY <1>2, AllTilesParts
<1>5. updated' = treeSize + k /\ overlay' = over /\ treeSize + k <= MaxSize
  BY <1>1
<1>6. edge' = [l \in -1 .. TopLevel |->
                 IF l = -1 THEN DataEdge(Pool(k))
                 ELSE IF \E id \in new : id.l = l
                 THEN [n |-> theEdge(l).n, w |-> theEdge(l).w, data |-> TileData(over, theEdge(l))]
                 ELSE edge[l]]
  BY <1>1
<1>7. /\ uploads' = DataUploads(Pool(k))
                      \cup {[id |-> id, data |-> TileData(over, id)] : id \in new}
      /\ pc2' = IF found(over, new) THEN "upload" ELSE "failed"
  BY <1>1
<1>8. Tree' = T
  BY <1>0, <1>5 DEF Tree, Longer
<1>9. ASSUME NEW l \in Level, \E i \in new : i.l = l PROVE theEdge(l) \in new
  BY <1>2, <1>9, NewEdgeIs
<1> HIDE DEF over, new, T, dataTiles, all, theEdge
<1>10. pc2' = "upload"
  <2>1. found(over, new)
    BY <1>3
  <2> HIDE DEF found
  <2> QED BY <1>7, <2>1
<1>11. uploads' = {[id |-> id, data |-> Content(T, id)] : id \in all}
  BY <1>3, <1>4, <1>7
<1>12. -1 \in -1 .. TopLevel /\ Level \subseteq -1 .. TopLevel /\ -1 \notin Level
  BY TilesAssumption DEF Level
<1>13. DOMAIN edge' = -1 .. TopLevel /\ DataEdgeIs(edge'[-1], T, treeSize + k)
  BY <1>3, <1>6, <1>12
<1>14. ASSUME NEW l \in Level PROVE PoolEdge(edge'[l], T, treeSize, treeSize + k, l)
  BY <1>3, <1>6, <1>9, <1>12 DEF PoolEdge, new, theEdge
<1>15. \A l \in Level : OverlayIs(overlay'[l], T, treeSize, treeSize + k, l)
  BY <1>3, <1>5 DEF OverlayIs
<1> QED BY <1>3, <1>5, <1>8, <1>10, <1>11, <1>13, <1>14, <1>15 DEF T, new, theEdge, all

LEMMA ContentDomain == \A t, id : DOMAIN Content(t, id) = 1 .. id.w
BY DEF Content

LEMMA PoolEdgeIs ==
    ASSUME NEW s \in Nat, NEW u \in Nat, s <= u, NEW l \in Level, NEW t,
           NEW e, EdgeIs(edge[l], t, s, l), PoolEdge(e, t, s, u, l)
    PROVE  /\ EdgeIs(e, t, u, l)
           /\ \/ e = edge[l]
              \/ e.w \in 1 .. TileWidth /\ DOMAIN e.data = 1 .. e.w
<1> DEFINE new == NewTiles(s, u)
           id == NewEdge(new, edge, l)
<1>1. CASE \E i \in new : i.l = l
  <2>1. e = [n |-> id.n, w |-> id.w, data |-> Content(t, id)]
    BY <1>1 DEF PoolEdge
  <2>2. /\ id \in new /\ id.l = l
        /\ Partial(u, l) > 0 => id = TileId(l, Count(u, l + 1), Partial(u, l))
    BY <1>1, NewEdgeIs
  <2>3. id \in AllTiles(s, u)
    BY <2>2 DEF AllTiles
  <2>4. id.w \in 1 .. TileWidth
    BY <2>3, AllTilesType DEF Tile
  <2> HIDE DEF id
  <2>5. EdgeIs(e, t, u, l)
    BY <2>1, <2>2, TileIdFields DEF EdgeIs
  <2> QED BY <2>1, <2>4, <2>5, ContentDomain
<1>2. CASE ~(\E i \in new : i.l = l)
  <2>1. e = edge[l]
    BY <1>2 DEF PoolEdge
  <2>2. Partial(u, l) > 0 => Count(s, l) = Count(u, l)
    <3> SUFFICES ASSUME Partial(u, l) > 0, Count(s, l) # Count(u, l) PROVE FALSE
      OBVIOUS
    <3> DEFINE i == TileId(l, Count(u, l + 1), Partial(u, l))
    <3>1. NewAt(s, u, l, Count(u, l + 1), Partial(u, l))
      BY DEF NewAt
    <3>2. i \in new /\ i.l = l
      BY <3>1, NewTilesAre, TileIdFields
    <3> QED BY <1>2, <3>2
  <2>3. Count(s, l) = Count(u, l) => Partial(s, l) = Partial(u, l) /\ Count(s, l + 1) = Count(u, l + 1)
    BY CountUp DEF Partial
  <2> QED BY <2>1, <2>2, <2>3 DEF EdgeIs
<1> QED BY <1>1, <1>2

LEMMA ReceivePoolIInv == ASSUME IInv, ReceivePool PROVE IInv'
<1>0. /\ up /\ pc2 = "recv" /\ run' = run /\ up' = up /\ treeSize' = treeSize
      /\ tiles' = tiles /\ sth' = sth /\ heads' = heads
  BY DEF ReceivePool
<1> DEFINE s == treeSize
<1>1. PICK k \in 1 .. MaxPool :
        /\ s + k <= MaxSize /\ updated' = s + k /\ pc2' = "upload"
        /\ Tree' = Longer(k)
        /\ \A l \in Level : OverlayIs(overlay'[l], Longer(k), s, s + k, l)
        /\ uploads' = {[id |-> id, data |-> Content(Longer(k), id)] : id \in AllTiles(s, s + k)}
        /\ DOMAIN edge' = -1 .. TopLevel
        /\ DataEdgeIs(edge'[-1], Longer(k), s + k)
        /\ \A l \in Level : EdgeIs(edge[l], Longer(k), s, l)
        /\ \A l \in Level : PoolEdge(edge'[l], Longer(k), s, s + k, l)
  BY ReceivePoolIs
<1> DEFINE T == Longer(k)
           u == s + k
<1>2. /\ s \in Nat /\ k \in Nat /\ u \in Nat /\ s <= u /\ u \in 0 .. MaxSize
      /\ u \in s .. s + MaxPool /\ Len(sth) = s /\ updated = s
  BY <1>0, <1>1, TilesAssumption DEF IInv, SizesFit, TypeOK
<1>3. \A i \in 1 .. s : sth[i] = T[i]
  BY <1>2 DEF Longer
<1>4. Tree = sth
  BY <1>0, TreeIs DEF IInv, TreeExtends
<1> HIDE DEF T, s
<1>5. ASSUME NEW l \in Level
      PROVE  /\ EdgeIs(edge'[l], T, u, l)
             /\ edge'[l].w \in 0 .. TileWidth /\ DOMAIN edge'[l].data = 1 .. edge'[l].w
  <2>1. PoolEdge(edge'[l], T, s, u, l)
    BY <1>1 DEF T
  <2>2. EdgeIs(edge[l], T, s, l)
    BY <1>1 DEF T
  <2>3. edge[l].w \in 0 .. TileWidth /\ DOMAIN edge[l].data = 1 .. edge[l].w
    BY TilesAssumption DEF IInv, TypeOK, Level
  <2> DEFINE e == edge'[l]
  <2> HIDE DEF u, e
  <2>4. EdgeIs(e, T, u, l) /\ (e = edge[l] \/ (e.w \in 1 .. TileWidth /\ DOMAIN e.data = 1 .. e.w))
    BY <1>2, <2>1, <2>2, PoolEdgeIs DEF e
  <2> QED BY <2>3, <2>4, TilesAssumption DEF e
<1>6. DataEdgeIs(edge'[-1], T, u)
  BY <1>1 DEF T
<1>7. TypeOK'
  <2>1. ASSUME NEW l \in -1 .. TopLevel
        PROVE  edge'[l].w \in 0 .. TileWidth /\ DOMAIN edge'[l].data = 1 .. edge'[l].w
    <3>1. CASE l = -1
      BY <1>6, <3>1, ContentDomain, TileIdFields DEF DataEdgeIs
    <3>2. CASE l # -1
      <4>1. l \in Level
        BY <3>2, TilesAssumption DEF Level
      <4> QED BY <1>5, <4>1
    <3> QED BY <3>1, <3>2
  <2>2. ASSUME NEW o \in uploads' PROVE o.id \in Tile /\ DOMAIN o.data = 1 .. o.id.w
    <3>1. PICK id \in AllTiles(s, u) : o = [id |-> id, data |-> Content(T, id)]
      BY <1>1 DEF T
    <3>2. id \in Tile
      BY <1>2, AllTilesType
    <3> QED BY <3>1, <3>2, ContentDomain
  <2>3. updated' \in 0 .. MaxSize /\ pc2' = "upload" /\ DOMAIN edge' = -1 .. TopLevel
    BY <1>1, <1>2
  <2> QED BY <1>0, <2>1, <2>2, <2>3 DEF IInv, TypeOK
<1>8. SizesFit'
  BY <1>0, <1>1, <1>2 DEF IInv, SizesFit, s
<1>9. EdgeFits'
  <2>1. EdgesAre'
    BY <1>1, <1>5, <1>6 DEF EdgesAre, T
  <2> QED BY <1>7, <2>1, EdgeFitsIsNext
<1>10. OverlayFits'
  BY <1>0, <1>1 DEF OverlayFits, OverlayIs, s
<1>11. UploadsFit'
  <2>1. \A o \in uploads' : o.id \in AllTiles(s, u) /\ o = [id |-> o.id, data |-> Content(T, o.id)]
    BY <1>1 DEF T
  <2>2. \A id \in AllTiles(s, u) : [id |-> id, data |-> Content(T, id)] \in uploads'
    BY <1>1 DEF T
  <2> QED BY <1>0, <1>1, <2>1, <2>2 DEF UploadsFit, T, s
<1>12. BucketFits'
  BY <1>0 DEF IInv, BucketFits, Has
<1>13. ASSUME run = 1, NEW id \in DOMAIN tiles PROVE Within(u, id) /\ Has(T, id)
  <2>1. id \in Tile /\ Within(s, id) /\ Has(sth, id)
    BY <1>0, <1>2, <1>4, <1>13 DEF IInv, TypeOK, LeftoversFit
  <2>2. Content(T, id) = Content(sth, id)
    BY <1>2, <1>3, <2>1, ContentSame
  <2>3. LevelOf(id) \in 0 .. TopLevel + 1 /\ id.n * TileWidth + id.w \in Nat
    <3>1. id.n * TileWidth \in Nat /\ id.w \in Nat
      BY <2>1, Products, TilesAssumption DEF Tile
    <3>2. LevelOf(id) \in 0 .. TopLevel + 1
      BY <2>1, TilesAssumption DEF Tile, LevelOf
    <3> QED BY <3>1, <3>2
  <2>4. /\ Count(s, LevelOf(id)) \in Nat /\ Count(u, LevelOf(id)) \in Nat
        /\ Count(s, LevelOf(id)) <= Count(u, LevelOf(id))
    BY <1>2, <2>3, CountType, CountMono
  <2> HIDE DEF u
  <2> QED BY <2>1, <2>2, <2>3, <2>4 DEF Within, Has
<1>14. LeftoversFit'
  <2>1. \A id : Agrees(sth, id)' <=> Agrees(sth, id)
    BY <1>0 DEF Agrees
  <2>2. \A id : Has(Tree, id)' <=> Has(T, id)
    BY <1>0, <1>1 DEF Has, T
  <2>3. run # 0
    BY <1>0 DEF IInv, SizesFit, TypeOK
  <2> QED BY <1>0, <1>1, <1>13, <2>1, <2>2, <2>3 DEF IInv, LeftoversFit
<1> QED BY <1>7, <1>8, <1>9, <1>10, <1>11, <1>12, <1>14 DEF IInv

LEMMA StutterIInv == ASSUME IInv, UNCHANGED vars PROVE IInv'
<1>0. /\ run' = run /\ up' = up /\ treeSize' = treeSize /\ edge' = edge /\ overlay' = overlay
      /\ updated' = updated /\ uploads' = uploads /\ pc2' = pc2
      /\ tiles' = tiles /\ sth' = sth /\ heads' = heads
  BY DEF vars, memory
<1>1. Tree' = Tree
  BY <1>0 DEF Tree
<1>2. TypeOK'
  BY <1>0 DEF IInv, TypeOK
<1>3. SizesFit'
  BY <1>0 DEF IInv, SizesFit
<1>4. EdgeFits' /\ OverlayFits'
  BY <1>0, <1>1 DEF IInv, EdgeFits, OverlayFits
<1>5. UploadsFit' /\ BucketFits'
  BY <1>0, <1>1 DEF IInv, UploadsFit, BucketFits, Has
<1>6. LeftoversFit'
  BY <1>0, <1>1 DEF IInv, LeftoversFit, Has, Agrees
<1> QED BY <1>2, <1>3, <1>4, <1>5, <1>6 DEF IInv

LEMMA StepIInv == ASSUME IInv, [Next]_vars PROVE IInv'
<1>1. CASE LoadLog
  BY <1>1, LoadLogIInv
<1>2. CASE ReceivePool
  BY <1>2, ReceivePoolIInv
<1>3. CASE ReceiveEmptyPool
  BY <1>3, ReceiveEmptyPoolIInv
<1>4. CASE PutTile
  BY <1>4, PutTileIInv
<1>5. CASE SetSth
  BY <1>5, SetSthIInv
<1>6. CASE Die
  BY <1>6, DieIInv
<1>7. CASE UNCHANGED vars
  BY <1>7, StutterIInv
<1> QED BY <1>1, <1>2, <1>3, <1>4, <1>5, <1>6, <1>7 DEF Next

-----------------------------------------------------------------------------
(* The theorems. *)

\* stageTwo keeps a tree as its right edge: memory, uploads, the bucket and what
\* crashes left there fit the tree at every step.
THEOREM TreeOnTheEdge == Spec => []IInv
<1>1. Init => IInv
  BY InitIInv
<1>2. IInv /\ [Next]_vars => IInv'
  BY StepIInv
<1> QED BY <1>1, <1>2, PTL DEF Spec

\* Every tile in memory or in the bucket has as many hashes as its width says.
THEOREM TilesAreTyped == Spec => []TypeOK
<1>1. IInv => TypeOK
  BY DEF IInv
<1> QED BY <1>1, TreeOnTheEdge, PTL

\* HashFromTile never fails: the edge has every hash that a pool or the root
\* hash needs, after a restart as well.
THEOREM EveryHashIsFound == Spec => []NoHashMissing
<1>1. IInv => NoHashMissing
  BY DEF IInv, SizesFit, NoHashMissing
<1> QED BY <1>1, TreeOnTheEdge, PTL

\* The published root hash is of as many leaves as its size says, each at its
\* index.
THEOREM RootIsCorrect == Spec => []RootIsOfTheTree
<1>1. IInv => RootIsOfTheTree
  BY DEF IInv, SizesFit, RootIsOfTheTree
<1> QED BY <1>1, TreeOnTheEdge, PTL

\* At any moment, whatever tiles crashes left, LoadLog finds in the bucket the
\* tiles it checks against the tree head.
THEOREM EveryReloadSucceeds == Spec => []ReloadSucceeds
<1>1. IInv => ReloadSucceeds
  BY BucketLoads DEF IInv, ReloadSucceeds
<1> QED BY <1>1, TreeOnTheEdge, PTL

\* The data tile LoadLog takes on trust has the leaves of the hash tile it checks.
THEOREM DataTileIsChecked == Spec => []DataTileMatches
<1>1. IInv => DataTileMatches
  <2> SUFFICES ASSUME IInv, sth # <<>>
               PROVE  LET id == DataTile(Len(sth))
                      IN  {id, [id EXCEPT !.l = 0]} \subseteq DOMAIN tiles
                          /\ tiles[id] = tiles[[id EXCEPT !.l = 0]]
    BY DEF DataTileMatches
  <2> DEFINE id == DataTile(Len(sth))
             beside == [id EXCEPT !.l = 0]
  <2>1. Len(sth) \in 1 .. MaxSize
    <3>1. Len(sth) \in 0 .. MaxSize
      BY DEF IInv, TypeOK, SizesFit
    <3>2. Len(sth) # 0
      BY DEF IInv, TypeOK
    <3> QED BY <3>1, <3>2, TilesAssumption
  <2>2. id \in AllTiles(0, Len(sth)) /\ beside \in AllTiles(0, Len(sth))
    BY <2>1, DataTileIs
  <2>3. id.l = -1 /\ beside.l = 0 /\ beside.n = id.n /\ beside.w = id.w
    BY TileIdFields DEF DataTile, LastLeafTile, TileId
  <2> HIDE DEF id, beside
  <2>4. Content(sth, id) = Content(sth, beside)
    BY <2>3 DEF Content, LevelOf
  <2>5. Has(sth, id) /\ Has(sth, beside)
    BY <2>2 DEF IInv, BucketFits
  <2> QED BY <2>4, <2>5 DEF Has, id, beside
<1> QED BY <1>1, TreeOnTheEdge, PTL

\* Every tree head extends the one before: a root hash computed from the edge,
\* after crashes in the middle of pools too, is of the published leaves and more.
THEOREM TreeHeadsAreConsistent == Spec => RootGrows
<1>1. ASSUME IInv, [Next]_vars, sth' # sth PROVE IsPrefix(sth, sth')
  <2>1. SetSth
    BY <1>1 DEF Next, LoadLog, ReceivePool, ReceiveEmptyPool, PutTile, Die, vars
  <2>2. /\ sth' \in Seq(Leaf) /\ sth \in Seq(Leaf) /\ Len(sth) <= Len(sth')
        /\ \A i \in 1 .. Len(sth) : sth'[i] = sth[i]
    BY <1>1, <2>1, SetSthIs, TreeIs DEF IInv, TypeOK, TreeExtends
  <2>3. sth = SubSeq(sth', 1, Len(sth))
    <3> DEFINE next == sth'
    <3> HIDE DEF next
    <3>1. /\ next \in Seq(Leaf) /\ sth \in Seq(Leaf) /\ Len(sth) <= Len(next)
          /\ \A i \in 1 .. Len(sth) : next[i] = sth[i]
      BY <2>2 DEF next
    <3>2. SubSeq(next, 1, Len(sth)) = sth
      BY <3>1
    <3> QED BY <3>2 DEF next
  <2> QED BY <2>2, <2>3 DEF IsPrefix
<1>2. IInv /\ [Next]_vars => [IsPrefix(sth, sth')]_sth
  BY <1>1
<1> QED BY <1>2, TreeOnTheEdge, PTL DEF Spec, RootGrows

=============================================================================
