-------------------------- MODULE FsStorageProofs --------------------------
(***************************************************************************)
(* Proofs about FsStorage, for logs of any size and any number of starts:  *)
(* what a process that stops between truncating and writing a file can     *)
(* spoil, and what it cannot.                                              *)
(***************************************************************************)
EXTENDS FsStorage, SequenceTheorems, TLAPS

\* The files are different files.
LEMMA FilesDiffer ==
    /\ Sth # Issuer /\ Sth # Hashes /\ Issuer # Hashes
    /\ \A n \in Nat : Tile(n) # Sth /\ Tile(n) # Issuer /\ Tile(n) # Hashes
    /\ \A n, m \in Nat : Tile(n) = Tile(m) => n = m
BY DEF Sth, Issuer, Hashes, Tile

LEMMA FilesExist ==
    /\ Sth \in File /\ Issuer \in File /\ Hashes \in File
    /\ \A n \in 1 .. MaxSize : Tile(n) \in File
BY DEF File

LEMMA InitInv == Init => IInv
<1> SUFFICES ASSUME Init PROVE IInv
  OBVIOUS
<1>1. TypeOK
  <2>1. <<>> \in Seq(Leaf) /\ Len(<<>>) = 0
    BY EmptySeq
  <2>2. shape \in [File -> Shape] /\ says \in [File -> Seq(Leaf)]
    BY <2>1 DEF Init, Shape
  <2>3. \A k \in File : Len(says[k]) <= MaxSize
    BY <2>1, FsStorageAssumption DEF Init
  <2>4. dirs \subseteq File /\ run \in 0 .. MaxRuns /\ Len(tree) <= MaxSize /\ tree \in Seq(Leaf)
    BY <2>1, FsStorageAssumption, FilesExist DEF Init
  <2> QED BY <2>2, <2>3, <2>4 DEF Init, TypeOK
<1>2. Phase
  BY DEF Init, Phase
<1>3. SctsKept /\ ServedUnlessTorn
  BY FilesExist DEF Init, SctsKept, SctIncluded, ServedUnlessTorn
<1>4. \A k \in {Sth, Issuer} : shape[k] = "absent"
  BY FilesExist DEF Init
<1> QED BY <1>1, <1>2, <1>3, <1>4 DEF Init, IInv, RunStarted

LEMMA MkdirAllInv == ASSUME IInv, NEW k \in File, MkdirAll(k) PROVE IInv'
<1>1. /\ dirs' = dirs \cup {k}
      /\ UNCHANGED <<shape, says, records, pc, run, tree, pool, mem, todo, opened, scts, torn, reset>>
  BY DEF MkdirAll
<1>2. TypeOK'
  BY <1>1 DEF IInv, TypeOK
<1>3. Phase'
  BY <1>1 DEF IInv, Phase, UploadsFor, Verified, Extends, Serves
<1>4. SctsKept' /\ ServedUnlessTorn'
  BY <1>1 DEF IInv, SctsKept, SctIncluded, ServedUnlessTorn, Serves, Verified, Has
<1> QED BY <1>1, <1>2, <1>3, <1>4 DEF IInv, RunStarted, Has

\* A file that is being written disturbs nothing else: it is not the tree head while
\* a pool is uploaded, and not a tile that the tree head needs.
LEMMA UnfinishedInv ==
    ASSUME IInv, TypeOK', NEW k \in File, k \in todo, opened' = opened \cup {k},
           shape'[k] \in {"empty", "short"},
           \A j \in File : j # k => shape'[j] = shape[j] /\ says'[j] = says[j],
           k # Hashes => records' = records,
           UNCHANGED <<dirs, pc, run, tree, pool, mem, todo, scts, torn, reset>>
    PROVE  IInv'
<1>0. TypeOK'
  OBVIOUS
<1>1. /\ k \in todo /\ opened' = opened \cup {k}
      /\ k # Hashes => records' = records
      /\ UNCHANGED <<dirs, pc, run, tree, pool, mem, todo, scts, torn, reset>>
  OBVIOUS
<1>2. /\ shape'[k] \in {"empty", "short"}
      /\ \A j \in File : j # k => shape'[j] = shape[j] /\ says'[j] = says[j]
  OBVIOUS
<1>4. pc \in {"upload", "head"}
  BY <1>1 DEF IInv, TypeOK, Phase
<1>5. CASE pc = "upload"
  <2>1. /\ shape[Sth] = "whole" /\ Extends(tree, says[Sth])
        /\ todo \subseteq {Tile(Len(tree)), Hashes, Issuer} /\ UploadsFor(tree)
        /\ Issuer \in todo => says[Sth] = <<>> \/ Issuer \in torn
        /\ Serves(says[Sth])
    BY <1>5 DEF IInv, Phase, ServedUnlessTorn
  <2>2. /\ says[Sth] \in Seq(Leaf) /\ Len(says[Sth]) \in Nat /\ Len(tree) = Len(says[Sth]) + 1
        /\ tree \in Seq(Leaf) /\ Len(tree) <= MaxSize
    BY <2>1, FilesExist, LenProperties DEF IInv, TypeOK, Extends
  <2>3. k # Sth /\ shape'[Sth] = "whole" /\ says'[Sth] = says[Sth]
    BY <1>1, <1>2, <2>1, <2>2, FilesDiffer, FilesExist
  <2>4. Verified(says[Sth])'
    <3> SUFFICES ASSUME says[Sth] # <<>>
                 PROVE  /\ shape'[Tile(Len(says[Sth]))] = "whole"
                        /\ says'[Tile(Len(says[Sth]))] = says[Sth]
      BY <2>3 DEF Verified
    <3>1. Len(says[Sth]) \in 1 .. MaxSize
      BY <2>2, EmptySeq, FsStorageAssumption
    <3>2. Tile(Len(says[Sth])) # k /\ Tile(Len(says[Sth])) \in File
      BY <1>1, <2>1, <2>2, <3>1, FilesDiffer, FilesExist
    <3> QED BY <1>2, <2>1, <3>2 DEF Serves, Verified
  <2>5. ASSUME NEW i \in 1 .. Len(says[Sth])
        PROVE  /\ says[Sth][i] \in records' \/ Hashes \in torn \cup opened'
               /\ shape'[Issuer] = "whole" \/ Issuer \in torn
    <3>1. /\ says[Sth][i] \in records \/ Hashes \in torn \cup opened
          /\ shape[Issuer] = "whole" \/ Issuer \in torn
      BY <2>1 DEF Serves
    <3>2. says[Sth] # <<>>
      BY <2>2, EmptySeq
    <3> QED BY <1>1, <1>2, <2>1, <3>1, <3>2, FilesExist
  <2>6. ServedUnlessTorn'
    BY <1>1, <2>3, <2>4, <2>5 DEF ServedUnlessTorn, Serves, Verified
  <2>7. UploadsFor(tree)'
    <3>1. Tile(Len(tree)) \in todo \/ Verified(tree)'
      <4> SUFFICES ASSUME Tile(Len(tree)) \notin todo, tree # <<>>
                   PROVE  Verified(tree)'
        BY <1>1 DEF Verified
      <4>1. Tile(Len(tree)) # k /\ Tile(Len(tree)) \in File
        BY <1>1, <2>2, FilesExist
      <4> QED BY <1>1, <1>2, <2>1, <4>1 DEF UploadsFor, Verified
    <3>2. Issuer \in todo \/ shape'[Issuer] = "whole" \/ Issuer \in torn
      BY <1>1, <1>2, <2>1, FilesExist DEF UploadsFor
    <3>3. \A i \in 1 .. Len(tree) :
             /\ tree[i] \in mem \/ Hashes \in torn
             /\ Hashes \in todo \/ tree[i] \in records' \/ Hashes \in torn
      BY <1>1, <2>1 DEF UploadsFor
    <3> QED BY <1>1, <3>1, <3>2, <3>3 DEF UploadsFor
  <2>8. Phase'
    BY <1>1, <1>5, <2>1, <2>3, <2>7 DEF Phase, Extends
  <2>9. SctsKept'
    BY <1>1, <2>1, <2>3 DEF IInv, SctsKept, SctIncluded, Has
  <2>10. \A j \in {Sth, Issuer} : shape'[j] \in {"empty", "short"} => j \in torn \cup opened'
    BY <1>1, <1>2, FilesExist DEF IInv
  <2> QED BY <1>1, <1>0, <2>6, <2>8, <2>9, <2>10 DEF IInv, RunStarted, Has
<1>6. CASE pc = "head"
  <2>1. k = Sth /\ todo = {Sth} /\ Serves(tree)
    BY <1>1, <1>6 DEF IInv, Phase
  <2>2. Serves(tree)'
    <3>1. shape'[Issuer] = shape[Issuer] /\ records' = records /\ tree' = tree /\ torn' = torn
      BY <1>1, <1>2, <2>1, FilesDiffer, FilesExist
    <3>2. Verified(tree)'
      <4> SUFFICES ASSUME tree # <<>> PROVE Verified(tree)'
        BY <3>1 DEF Verified
      <4>1. Len(tree) \in 1 .. MaxSize
        BY EmptySeq, LenProperties, FsStorageAssumption DEF IInv, TypeOK
      <4>2. Tile(Len(tree)) # k /\ Tile(Len(tree)) \in File
        BY <2>1, <4>1, FilesDiffer, FilesExist
      <4> QED BY <1>2, <2>1, <3>1, <4>2 DEF Serves, Verified
    <3> QED BY <1>1, <2>1, <3>1, <3>2 DEF Serves
  <2>3. Phase'
    BY <1>1, <1>6, <2>1, <2>2 DEF Phase
  <2>4. shape'[Sth] # "whole" /\ shape'[Sth] # "absent"
    BY <1>2, <2>1
  <2>5. SctsKept' /\ ServedUnlessTorn'
    BY <1>1, <1>6, <2>4 DEF IInv, SctsKept, SctIncluded, ServedUnlessTorn, Has
  <2>6. \A j \in {Sth, Issuer} : shape'[j] \in {"empty", "short"} => j \in torn \cup opened'
    BY <1>1, <1>2, FilesExist DEF IInv
  <2> QED BY <1>1, <1>0, <2>3, <2>5, <2>6 DEF IInv, RunStarted, Has
<1> QED BY <1>4, <1>5, <1>6

LEMMA OpenFileInv == ASSUME IInv, NEW k \in File, OpenFile(k) PROVE IInv'
<1>1. /\ k \in todo /\ opened' = opened \cup {k}
      /\ shape' = [shape EXCEPT ![k] = "empty"]
      /\ says' = [says EXCEPT ![k] = <<>>]
      /\ records' = IF k = Hashes THEN {} ELSE records
      /\ UNCHANGED <<dirs, pc, run, tree, pool, mem, todo, scts, torn, reset>>
  BY DEF OpenFile
<1>2. /\ shape'[k] = "empty" /\ says'[k] = <<>>
      /\ \A j \in File : j # k => shape'[j] = shape[j] /\ says'[j] = says[j]
  BY <1>1 DEF IInv, TypeOK
<1>3. TypeOK'
  <2>1. <<>> \in Seq(Leaf) /\ Len(<<>>) = 0 /\ "empty" \in Shape
    BY EmptySeq DEF Shape
  <2>2. shape' \in [File -> Shape] /\ says' \in [File -> Seq(Leaf)]
    BY <1>1, <2>1 DEF IInv, TypeOK
  <2>3. \A j \in File : Len(says'[j]) <= MaxSize
    BY <1>2, <2>1, FsStorageAssumption DEF IInv, TypeOK
  <2>4. records' \subseteq Leaf
    BY <1>1 DEF IInv, TypeOK
  <2> QED BY <1>1, <2>2, <2>3, <2>4 DEF IInv, TypeOK
<1> QED BY <1>1, <1>2, <1>3, UnfinishedInv

LEMMA WriteSomeInv == ASSUME IInv, NEW k \in File, WriteSome(k) PROVE IInv'
<1>1. /\ k \in todo /\ opened' = opened \cup {k}
      /\ shape' = [shape EXCEPT ![k] = "short"]
      /\ records' \subseteq Leaf /\ (k # Hashes => records' = records)
      /\ UNCHANGED <<says, dirs, pc, run, tree, pool, mem, todo, opened, scts, torn, reset>>
  BY DEF WriteSome, IInv, TypeOK
<1>2. /\ shape'[k] = "short"
      /\ \A j \in File : j # k => shape'[j] = shape[j] /\ says'[j] = says[j]
  BY <1>1 DEF IInv, TypeOK
<1>3. TypeOK'
  <2>1. shape' \in [File -> Shape]
    BY <1>1 DEF IInv, TypeOK, Shape
  <2> QED BY <1>1, <2>1 DEF IInv, TypeOK
<1> QED BY <1>1, <1>2, <1>3, UnfinishedInv

LEMMA WriteAllInv == ASSUME IInv, NEW k \in File, WriteAll(k) PROVE IInv'
<1>1. /\ k \in todo /\ k \in opened
      /\ shape' = [shape EXCEPT ![k] = "whole"]
      /\ says' = [says EXCEPT ![k] = tree]
      /\ records' = IF k = Hashes THEN mem ELSE records
      /\ todo' = todo \ {k} /\ opened' = opened \ {k}
      /\ UNCHANGED <<dirs, pc, run, tree, pool, mem, scts, torn, reset>>
  BY DEF WriteAll, IInv, TypeOK
<1>2. /\ shape'[k] = "whole" /\ says'[k] = tree
      /\ \A j \in File : j # k => shape'[j] = shape[j] /\ says'[j] = says[j]
  BY <1>1 DEF IInv, TypeOK
<1>3. TypeOK'
  <2>1. shape' \in [File -> Shape] /\ says' \in [File -> Seq(Leaf)]
    BY <1>1 DEF IInv, TypeOK, Shape
  <2>2. \A j \in File : Len(says'[j]) <= MaxSize
    BY <1>2 DEF IInv, TypeOK
  <2>3. records' \subseteq Leaf /\ opened' \subseteq todo' /\ todo' \subseteq File
    BY <1>1 DEF IInv, TypeOK
  <2> QED BY <1>1, <2>1, <2>2, <2>3 DEF IInv, TypeOK
<1>4. pc \in {"upload", "head"}
  BY <1>1 DEF IInv, TypeOK, Phase
<1>5. \A j \in {Sth, Issuer} : shape'[j] \in {"empty", "short"} => j \in torn \cup opened'
  BY <1>1, <1>2, FilesExist DEF IInv
<1>6. CASE pc = "upload"
  <2>1. /\ shape[Sth] = "whole" /\ Extends(tree, says[Sth])
        /\ todo \subseteq {Tile(Len(tree)), Hashes, Issuer} /\ UploadsFor(tree)
        /\ Issuer \in todo => says[Sth] = <<>> \/ Issuer \in torn
        /\ Serves(says[Sth])
    BY <1>6 DEF IInv, Phase, ServedUnlessTorn
  <2>2. /\ says[Sth] \in Seq(Leaf) /\ Len(says[Sth]) \in Nat /\ Len(tree) = Len(says[Sth]) + 1
        /\ tree \in Seq(Leaf) /\ Len(tree) <= MaxSize
    BY <2>1, FilesExist, LenProperties DEF IInv, TypeOK, Extends
  <2>3. k # Sth /\ shape'[Sth] = "whole" /\ says'[Sth] = says[Sth]
    BY <1>1, <1>2, <2>1, <2>2, FilesDiffer, FilesExist
  <2>4. Verified(says[Sth])'
    <3> SUFFICES ASSUME says[Sth] # <<>>
                 PROVE  /\ shape'[Tile(Len(says[Sth]))] = "whole"
                        /\ says'[Tile(Len(says[Sth]))] = says[Sth]
      BY <2>3 DEF Verified
    <3>1. Len(says[Sth]) \in 1 .. MaxSize
      BY <2>2, EmptySeq, FsStorageAssumption
    <3>2. Tile(Len(says[Sth])) # k /\ Tile(Len(says[Sth])) \in File
      BY <1>1, <2>1, <2>2, <3>1, FilesDiffer, FilesExist
    <3> QED BY <1>2, <2>1, <3>2 DEF Serves, Verified
  <2>5. ASSUME NEW i \in 1 .. Len(says[Sth])
        PROVE  /\ says[Sth][i] \in records' \/ Hashes \in torn \cup opened'
               /\ shape'[Issuer] = "whole" \/ Issuer \in torn
    <3>1. /\ says[Sth][i] \in records \/ Hashes \in torn \cup opened
          /\ shape[Issuer] = "whole" \/ Issuer \in torn
      BY <2>1 DEF Serves
    <3>2. says[Sth][i] \in mem \/ Hashes \in torn
      BY <2>1, <2>2 DEF Extends, UploadsFor
    <3> QED BY <1>1, <1>2, <3>1, <3>2, FilesExist
  <2>6. ServedUnlessTorn'
    BY <1>1, <2>3, <2>4, <2>5 DEF ServedUnlessTorn, Serves, Verified
  <2>7. UploadsFor(tree)'
    <3>1. Tile(Len(tree)) \in todo' \/ Verified(tree)'
      <4>1. CASE k = Tile(Len(tree))
        BY <1>1, <1>2, <4>1 DEF Verified
      <4>2. CASE k # Tile(Len(tree)) /\ Tile(Len(tree)) \notin todo
        <5> SUFFICES ASSUME tree # <<>> PROVE Verified(tree)'
          BY <1>1 DEF Verified
        <5>1. Tile(Len(tree)) \in File
          BY <2>2, FilesExist
        <5> QED BY <1>1, <1>2, <2>1, <4>2, <5>1 DEF UploadsFor, Verified
      <4> QED BY <1>1, <4>1, <4>2
    <3>2. Issuer \in todo' \/ shape'[Issuer] = "whole" \/ Issuer \in torn
      BY <1>1, <1>2, <2>1, FilesExist DEF UploadsFor
    <3>3. \A i \in 1 .. Len(tree) :
             /\ tree[i] \in mem \/ Hashes \in torn
             /\ Hashes \in todo' \/ tree[i] \in records' \/ Hashes \in torn
      BY <1>1, <2>1 DEF UploadsFor
    <3> QED BY <1>1, <3>1, <3>2, <3>3 DEF UploadsFor
  <2>8. Phase'
    BY <1>1, <1>6, <2>1, <2>3, <2>7 DEF Phase, Extends
  <2>9. SctsKept'
    BY <1>1, <2>1, <2>3 DEF IInv, SctsKept, SctIncluded, Has
  <2> QED BY <1>1, <1>3, <1>5, <2>6, <2>8, <2>9 DEF IInv, RunStarted, Has
<1>7. CASE pc = "head"
  <2>1. k = Sth /\ todo = {Sth} /\ Serves(tree)
    BY <1>1, <1>7 DEF IInv, Phase
  <2>2. Serves(tree)'
    <3>1. shape'[Issuer] = shape[Issuer] /\ records' = records /\ Hashes \notin opened
      BY <1>1, <1>2, <2>1, FilesDiffer, FilesExist DEF IInv, TypeOK
    <3>2. Verified(tree)'
      <4> SUFFICES ASSUME tree # <<>> PROVE Verified(tree)'
        BY <1>1 DEF Verified
      <4>1. Len(tree) \in 1 .. MaxSize
        BY EmptySeq, LenProperties, FsStorageAssumption DEF IInv, TypeOK
      <4>2. Tile(Len(tree)) # k /\ Tile(Len(tree)) \in File
        BY <2>1, <4>1, FilesDiffer, FilesExist
      <4> QED BY <1>1, <1>2, <2>1, <4>2 DEF Serves, Verified
    <3> QED BY <1>1, <2>1, <3>1, <3>2 DEF Serves
  <2>3. shape'[Sth] = "whole" /\ says'[Sth] = tree
    BY <1>2, <2>1
  <2>4. Phase' /\ ServedUnlessTorn'
    BY <1>1, <1>7, <2>1, <2>2, <2>3 DEF Phase, ServedUnlessTorn
  <2>5. SctsKept'
    BY <1>1, <1>7, <2>3 DEF IInv, SctsKept, SctIncluded, Has
  <2> QED BY <1>1, <1>3, <1>5, <2>4, <2>5 DEF IInv, RunStarted, Has
<1> QED BY <1>4, <1>6, <1>7

LEMMA TakePoolInv == ASSUME IInv, TakePool PROVE IInv'
<1> DEFINE leaf == [index |-> Len(tree), run |-> run]
<1>1. /\ pc = "ready" /\ pc' = "upload" /\ Len(tree) < MaxSize
      /\ tree' = Append(tree, leaf) /\ pool' = {leaf} /\ mem' = records \cup {leaf}
      /\ todo' = {Tile(Len(tree) + 1), Hashes} \cup IssuerTodo
      /\ UNCHANGED <<shape, says, records, dirs, run, opened, scts, torn, reset>>
  BY DEF TakePool, disk
<1>2. /\ shape[Sth] = "whole" /\ says[Sth] = tree /\ opened = {} /\ Serves(tree)
      /\ tree \in Seq(Leaf) /\ Len(tree) \in Nat
  BY <1>1, LenProperties DEF IInv, TypeOK, Phase, ServedUnlessTorn
<1>3. leaf \in Leaf
  <2>1. run \in 1 .. MaxRuns
    BY <1>1 DEF IInv, RunStarted, TypeOK
  <2>2. Len(tree) \in 0 .. MaxSize - 1
    BY <1>1, <1>2, FsStorageAssumption
  <2> QED BY <2>1, <2>2 DEF Leaf
<1> HIDE DEF leaf
<1>4. /\ tree' \in Seq(Leaf) /\ Len(tree') = Len(tree) + 1
      /\ \A i \in 1 .. Len(tree) : tree'[i] = tree[i]
      /\ tree'[Len(tree) + 1] = leaf
  BY <1>1, <1>2, <1>3, AppendProperties
<1>5. TypeOK'
  <2>1. IssuerTodo \subseteq File /\ Tile(Len(tree) + 1) \in File
    BY <1>1, <1>2, FilesExist, FsStorageAssumption DEF IssuerTodo
  <2> QED BY <1>1, <1>2, <1>3, <1>4, <2>1, FilesExist, FsStorageAssumption DEF IInv, TypeOK
<1>6. UploadsFor(tree)'
  <2>1. Tile(Len(tree')) \in todo' /\ Hashes \in todo'
    BY <1>1, <1>4
  <2>2. ASSUME NEW i \in 1 .. Len(tree') PROVE tree'[i] \in mem' \/ Hashes \in torn
    <3>1. CASE i = Len(tree) + 1
      BY <1>1, <1>4, <3>1
    <3>2. CASE i \in 1 .. Len(tree)
      BY <1>1, <1>2, <1>4, <3>2 DEF Serves
    <3> QED BY <1>2, <1>4, <3>1, <3>2
  <2>3. Issuer \in todo' \/ shape[Issuer] = "whole" \/ Issuer \in torn
    <3>1. shape[Issuer] \in Shape
      BY FilesExist DEF IInv, TypeOK
    <3>2. shape[Issuer] \in {"empty", "short"} => Issuer \in torn
      BY <1>2 DEF IInv
    <3> QED BY <1>1, <3>1, <3>2 DEF IssuerTodo, Shape
  <2> QED BY <1>1, <2>1, <2>2, <2>3 DEF UploadsFor
<1>7. Phase'
  <2>1. todo' \subseteq {Tile(Len(tree')), Hashes, Issuer}
    BY <1>1, <1>4 DEF IssuerTodo
  <2>2. Issuer \in todo' => says[Sth] = <<>> \/ Issuer \in torn
    <3> SUFFICES ASSUME Issuer \in todo', says[Sth] # <<>>, Issuer \notin torn
                 PROVE  FALSE
      OBVIOUS
    <3>1. shape[Issuer] = "absent"
      BY <1>1, <1>2, FilesDiffer DEF IssuerTodo
    <3>2. 1 \in 1 .. Len(tree)
      BY <1>2, EmptySeq
    <3> QED BY <1>2, <3>1, <3>2 DEF Serves
  <2> QED BY <1>1, <1>2, <1>4, <1>6, <2>1, <2>2 DEF Phase, Extends
<1>8. ServedUnlessTorn'
  BY <1>1 DEF IInv, ServedUnlessTorn, Serves, Verified
<1>9. \A l \in Leaf : Has(tree, l) => Has(tree, l)'
  <2> SUFFICES ASSUME NEW l \in Leaf, Has(tree, l) PROVE Has(tree, l)'
    OBVIOUS
  <2>1. l.index \in Nat
    BY FsStorageAssumption DEF Leaf
  <2> QED BY <1>2, <1>4, <2>1 DEF Has
<1>10. SctsKept'
  BY <1>1, <1>2, <1>9 DEF IInv, TypeOK, SctsKept, SctIncluded, Has
<1>11. leaf.index < Len(tree') /\ tree'[leaf.index + 1] = leaf
  BY <1>2, <1>4 DEF leaf
<1> QED BY <1>1, <1>5, <1>7, <1>8, <1>10, <1>11 DEF IInv, RunStarted, Has

LEMMA TakeEmptyPoolInv == ASSUME IInv, TakeEmptyPool PROVE IInv'
<1>1. /\ pc = "ready" /\ todo' = {Sth} /\ pc' = "head"
      /\ UNCHANGED <<shape, says, records, dirs, run, tree, pool, mem, opened, scts, torn, reset>>
  BY DEF TakeEmptyPool, disk
<1>2. shape[Sth] = "whole" /\ says[Sth] = tree /\ opened = {} /\ Serves(tree)
  BY <1>1 DEF IInv, TypeOK, Phase, ServedUnlessTorn
<1>3. TypeOK'
  BY <1>1, <1>2, FilesExist DEF IInv, TypeOK
<1>4. Phase'
  BY <1>1, <1>2 DEF Phase, Serves, Verified
<1>5. SctsKept' /\ ServedUnlessTorn'
  BY <1>1, <1>2 DEF IInv, SctsKept, SctIncluded, ServedUnlessTorn, Serves, Verified, Has
<1> QED BY <1>1, <1>3, <1>4, <1>5 DEF IInv, RunStarted, Has

LEMMA UploadsDoneInv == ASSUME IInv, UploadsDone PROVE IInv'
<1>1. /\ pc = "upload" /\ todo = {} /\ todo' = {Sth} /\ pc' = "head"
      /\ UNCHANGED <<shape, says, records, dirs, run, tree, pool, mem, opened, scts, torn, reset>>
  BY DEF UploadsDone, disk
<1>2. UploadsFor(tree) /\ opened = {}
  BY <1>1 DEF IInv, TypeOK, Phase
<1>3. TypeOK'
  BY <1>1, <1>2, FilesExist DEF IInv, TypeOK
<1>4. Serves(tree)'
  BY <1>1, <1>2 DEF UploadsFor, Serves, Verified
<1>5. Phase'
  BY <1>1, <1>4 DEF Phase
<1>6. SctsKept' /\ ServedUnlessTorn'
  BY <1>1, <1>2 DEF IInv, SctsKept, SctIncluded, ServedUnlessTorn, Serves, Verified, Has
<1> QED BY <1>1, <1>3, <1>5, <1>6 DEF IInv, RunStarted, Has

LEMMA AnswerInv == ASSUME IInv, Answer PROVE IInv'
<1>1. /\ pc = "head" /\ todo = {} /\ scts' = scts \cup pool /\ pool' = {} /\ pc' = "ready"
      /\ UNCHANGED <<shape, says, records, dirs, run, tree, mem, todo, opened, torn, reset>>
  BY DEF Answer, disk
<1>2. shape[Sth] = "whole" /\ says[Sth] = tree
  BY <1>1 DEF IInv, Phase
<1>3. TypeOK'
  BY <1>1 DEF IInv, TypeOK
<1>4. Phase'
  BY <1>1, <1>2 DEF Phase
<1>5. SctsKept'
  BY <1>1, <1>2 DEF IInv, SctsKept, SctIncluded, Has
<1>6. ServedUnlessTorn'
  BY <1>1 DEF IInv, ServedUnlessTorn, Serves, Verified
<1> QED BY <1>1, <1>3, <1>4, <1>5, <1>6 DEF IInv, RunStarted

LEMMA StopInv == ASSUME IInv, Stop PROVE IInv'
<1>1. /\ pc' = "down" /\ torn' = torn \cup opened
      /\ tree' = <<>> /\ pool' = {} /\ mem' = {} /\ todo' = {} /\ opened' = {}
      /\ UNCHANGED <<shape, says, records, dirs, run, scts, reset>>
  BY DEF Stop, disk
<1>2. TypeOK'
  <2>1. <<>> \in Seq(Leaf) /\ Len(<<>>) = 0
    BY EmptySeq
  <2>2. torn' \subseteq File
    BY <1>1 DEF IInv, TypeOK
  <2> QED BY <1>1, <2>1, <2>2, FsStorageAssumption DEF IInv, TypeOK
<1>3. Phase'
  BY <1>1 DEF Phase
<1>4. SctsKept' /\ ServedUnlessTorn'
  BY <1>1 DEF IInv, SctsKept, SctIncluded, ServedUnlessTorn, Serves, Verified, Has
<1> QED BY <1>1, <1>2, <1>3, <1>4 DEF IInv, RunStarted

LEMMA SupervisorInv == ASSUME IInv, Supervisor PROVE IInv'
<1>1. /\ pc = "down" /\ pc' = "load" /\ run < MaxRuns /\ run' = run + 1
      /\ UNCHANGED <<shape, says, records, dirs, tree, pool, mem, todo, opened, scts, torn, reset>>
  BY DEF Supervisor, disk
<1>2. run' \in 1 .. MaxRuns
  BY <1>1, FsStorageAssumption DEF IInv, TypeOK
<1>3. TypeOK'
  BY <1>1, <1>2 DEF IInv, TypeOK
<1>4. Phase' /\ SctsKept' /\ ServedUnlessTorn'
  BY <1>1 DEF IInv, Phase, SctsKept, SctIncluded, ServedUnlessTorn, Serves, Verified, Has
<1> QED BY <1>1, <1>2, <1>3, <1>4 DEF IInv, RunStarted, Has

LEMMA EntryPointInv == ASSUME IInv, EntryPoint PROVE IInv'
<1>1. /\ pc = "down" /\ pc' = "load" /\ run < MaxRuns /\ run' = run + 1
      /\ shape' = IF NoHead THEN [shape EXCEPT ![Sth] = "whole"] ELSE shape
      /\ says' = IF NoHead THEN [says EXCEPT ![Sth] = <<>>] ELSE says
      /\ reset' = (reset \/ shape[Sth] = "empty")
      /\ UNCHANGED <<records, dirs, tree, pool, mem, todo, opened, scts, torn>>
  BY DEF EntryPoint
<1>2. run' \in 1 .. MaxRuns
  BY <1>1, FsStorageAssumption DEF IInv, TypeOK
<1>3. tree = <<>> /\ pool = {} /\ todo = {} /\ opened = {}
  BY <1>1 DEF IInv, TypeOK, Phase
<1>4. CASE ~NoHead
  <2>1. shape' = shape /\ says' = says /\ reset' = reset
    BY <1>1, <1>4 DEF NoHead, IInv, TypeOK
  <2>2. TypeOK'
    <3>1. run' \in 0 .. MaxRuns
      BY <1>2
    <3>2. reset' \in BOOLEAN
      BY <2>1 DEF IInv, TypeOK
    <3> QED BY <1>1, <2>1, <3>1, <3>2 DEF IInv, TypeOK
  <2>3. Phase' /\ SctsKept' /\ ServedUnlessTorn'
    BY <1>1, <2>1 DEF IInv, Phase, SctsKept, SctIncluded, ServedUnlessTorn, Serves, Verified, Has
  <2> QED BY <1>1, <1>2, <1>3, <2>1, <2>2, <2>3 DEF IInv, RunStarted
<1>5. CASE NoHead
  <2>1. /\ shape' = [shape EXCEPT ![Sth] = "whole"] /\ says' = [says EXCEPT ![Sth] = <<>>]
        /\ shape'[Sth] = "whole" /\ says'[Sth] = <<>>
        /\ \A j \in File : j # Sth => shape'[j] = shape[j] /\ says'[j] = says[j]
    BY <1>1, <1>5, FilesExist DEF IInv, TypeOK
  <2>2. <<>> \in Seq(Leaf) /\ Len(<<>>) = 0
    BY EmptySeq
  <2>3. TypeOK'
    <3>1. shape' \in [File -> Shape] /\ says' \in [File -> Seq(Leaf)]
      BY <2>1, <2>2 DEF IInv, TypeOK, Shape
    <3>2. \A j \in File : Len(says'[j]) <= MaxSize
      BY <2>1, <2>2, FsStorageAssumption DEF IInv, TypeOK
    <3>3. reset' \in BOOLEAN
      BY <1>1 DEF IInv, TypeOK
    <3> QED BY <1>1, <1>2, <3>1, <3>2, <3>3 DEF IInv, TypeOK
  <2>4. Phase'
    BY <1>1, <1>3 DEF Phase
  <2>5. ServedUnlessTorn'
    BY <2>1, <2>2 DEF ServedUnlessTorn, Serves, Verified
  <2>6. SctsKept'
    <3>1. CASE shape[Sth] = "empty"
      BY <1>1, <1>3, <3>1 DEF IInv, SctsKept
    <3>2. CASE shape[Sth] = "absent"
      BY <1>1, <2>1, <3>2 DEF IInv, SctsKept, SctIncluded
    <3> QED BY <1>5, <3>1, <3>2 DEF NoHead
  <2>7. \A k \in {Sth, Issuer} : shape'[k] \in {"empty", "short"} => k \in torn
    BY <1>3, <2>1, FilesExist DEF IInv
  <2> QED BY <1>1, <1>2, <1>3, <2>3, <2>4, <2>5, <2>6, <2>7 DEF IInv, RunStarted
<1> QED BY <1>4, <1>5

LEMMA LoadLogInv == ASSUME IInv, LoadLog PROVE IInv'
<1>1. /\ pc = "load"
      /\ UNCHANGED <<shape, says, records, dirs, run, pool, mem, todo, opened, scts, torn, reset>>
      /\ \/ Loads /\ pc' = "ready" /\ tree' = says[Sth]
         \/ ~Loads /\ pc' = "down" /\ tree' = tree
  BY DEF LoadLog, disk
<1>2. pool = {} /\ todo = {} /\ tree = <<>>
  BY <1>1 DEF IInv, Phase
<1>3. TypeOK'
  BY <1>1, FilesExist DEF IInv, TypeOK
<1>4. Phase'
  BY <1>1, <1>2 DEF Phase, Loads
<1>5. SctsKept' /\ ServedUnlessTorn'
  BY <1>1 DEF IInv, Loads, SctsKept, SctIncluded, ServedUnlessTorn, Serves, Verified, Has
<1> QED BY <1>1, <1>2, <1>3, <1>4, <1>5 DEF IInv, RunStarted

LEMMA StepInv == IInv /\ [Next]_vars => IInv'
<1> SUFFICES ASSUME IInv, [Next]_vars PROVE IInv'
  OBVIOUS
<1>1. CASE UNCHANGED vars
  BY <1>1 DEF vars, disk, IInv, RunStarted, TypeOK, Phase, UploadsFor, Extends, SctsKept,
              SctIncluded, ServedUnlessTorn, Serves, Verified, Has
<1> QED BY <1>1, MkdirAllInv, OpenFileInv, WriteSomeInv, WriteAllInv, TakePoolInv,
           TakeEmptyPoolInv, UploadsDoneInv, AnswerInv, StopInv, SupervisorInv,
           EntryPointInv, LoadLogInv DEF Next

-----------------------------------------------------------------------------
\* Theorems

\* The inductive invariant holds in every reachable state of a process on a
\* directory.
THEOREM Inductive == Spec => []IInv
BY InitInv, StepInv, PTL DEF Spec

\* Every variable keeps its type, and only files that are to be written are open.
THEOREM TypeCorrect == Spec => []TypeOK
<1>1. IInv => TypeOK
  BY DEF IInv
<1> QED BY <1>1, Inductive, PTL

\* The leaf of an SCT is in the tree head on disk, unless a get-sth that a process
\* left empty was replaced at the start of the container.
THEOREM LossNeedsReset == Spec => []LostByResetOnly
<1>1. IInv => LostByResetOnly
  BY DEF IInv, SctsKept, LostByResetOnly
<1> QED BY <1>1, Inductive, PTL

\* Any whole tree head can be loaded again, and its record hashes and issuers are
\* there unless their own file was torn.
THEOREM HeadServed == Spec => []ServedUnlessTorn
<1>1. IInv => ServedUnlessTorn
  BY DEF IInv
<1> QED BY <1>1, Inductive, PTL
=============================================================================
