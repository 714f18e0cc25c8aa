---------------------------- MODULE LibraryProofs ----------------------------
(***************************************************************************)
(* What holds of Library for every batch, every set of projections and     *)
(* clusters and every number of operations: at each point of matmul_seq,   *)
(* which buffer holds which projection's vectors or results.               *)
(***************************************************************************)
EXTENDS Library, SequenceTheorems, TLAPS

K       == Len(cluster.projs)
Proj(j) == cluster.projs[j]
Width   == cluster.projs[1].N          \* beats of every vector of the cluster
Asked   == 0 .. cluster.b - 1          \* the rows the caller asked for

\* What the output has to hold for row r and tile t of projection j.
Result(j, t, r) ==
  [proj |-> Proj(j).id, tile |-> t, x |-> [i \in 1 .. Proj(j).N |-> Vector(j, i, r)]]

IsOver(f, S) == f = [x \in S |-> f[x]]

Buffers ==
  /\ actCache \in [Beats -> ActLine \cup {None}]
  /\ actDdr \in [Beats -> ActLine] /\ actBram \in [Beats -> ActLine]
  /\ IsOver(outCache, Lines) /\ IsOver(outDdr, Lines) /\ IsOver(outMem, Lines)

(* Control: where the thread is, what is in the engine and how far the     *)
(* packing and the reading of the cluster have come.                       *)

InEngine(kind, lines) == op = [kind |-> kind, proj |-> Proj(n), lines |-> lines]
Computing == InEngine("compute", Proj(n).tiles)
NoneAhead == op = None /\ n = 1 /\ packed = 0 /\ read = 0
OneAhead  == n < K /\ Computing /\ read = n - 1

Counters ==
  /\ n \in Nat /\ packed \in Nat /\ read \in Nat /\ ops \in 0 .. MaxOps
  /\ cluster \in Clusters \cup {None}
  /\ cluster # None => n \in 1 .. K + 1 /\ packed \in 0 .. K /\ read \in 0 .. packed
  /\ op # None => moved \in 0 .. op.lines

LastRead == read = IF n = 1 THEN 0 ELSE n - 2
LastPack == packed = IF n < K THEN n + 1 ELSE n

Place ==
  \/ pc = "idle" /\ op = None
  \/ /\ cluster \in Clusters /\ ops + K <= MaxOps /\ n \in 1 .. K + 1
     /\ \/ pc = "pack" /\ (NoneAhead \/ (OneAhead /\ packed = n))
        \/ pc = "sync" /\ \/ op = None /\ n = 1 /\ packed = 1 /\ read = 0
                          \/ OneAhead /\ packed = n + 1
        \/ pc \in {"load", "compute"} /\ op = None /\ n <= K /\ packed = n /\ LastRead
        \/ pc = "loadWait" /\ n <= K /\ InEngine("load", Width) /\ packed = n /\ LastRead
        \/ pc = "readback" /\ n > 1 /\ read = n - 2
                           /\ \/ n <= K /\ Computing /\ packed = n
                              \/ op = None /\ n = K + 1 /\ packed = K
        \/ pc = "computeWait" /\ n <= K /\ Computing /\ LastPack /\ read = n - 1
        \/ pc = "store" /\ op = None /\ n <= K /\ LastPack /\ read = n - 1
        \/ pc = "storeWait" /\ n <= K /\ InEngine("store", Batch * Proj(n).tiles)
                            /\ LastPack /\ read = n - 1

(* Data: which buffer holds what.                                          *)

\* Packed, perhaps only in the cache; flushed, whatever the cache evicts.
PackedLines ==
  pc = "sync" =>
    \A i \in 1 .. Width, r \in Asked :
      (IF actCache[i] # None THEN actCache[i] ELSE actDdr[i])[r] = Vector(packed, i, r)

FlushedLines ==
  pc \notin {"idle", "pack", "sync"} =>
    \A i \in 1 .. Width, r \in Asked :
      /\ actDdr[i][r] = Vector(packed, i, r)
      /\ actCache[i] # None => actCache[i][r] = Vector(packed, i, r)

\* On chip: the beats loaded so far, the tiles drained so far.
LoadedBeats ==
  /\ pc = "loadWait" => \A i \in 1 .. moved, r \in Asked : actBram[i][r] = Vector(n, i, r)
  /\ pc = "compute" \/ (op # None /\ Computing) =>
       \A i \in 1 .. Width, r \in Asked : actBram[i][r] = Vector(n, i, r)

DrainedTiles ==
  /\ op # None /\ Computing =>
       \A t \in 0 .. moved - 1, r \in Asked : outMem[r * Proj(n).tiles + t] = Result(n, t, r)
  /\ pc \in {"store", "storeWait"} =>
       \A t \in 0 .. Proj(n).tiles - 1, r \in Asked :
         outMem[r * Proj(n).tiles + t] = Result(n, t, r)

\* In DDR: the lines stored so far; the previous results until they are read.
StoredLines == pc = "storeWait" => \A l \in 0 .. moved - 1 : outDdr[l] = outMem[l]

Unread ==
  pc \in {"load", "loadWait", "compute", "readback"} /\ n > 1 =>
    \A t \in 0 .. Proj(n - 1).tiles - 1, r \in Asked :
      LET l == r * Proj(n - 1).tiles + t
      IN outDdr[l] = Result(n - 1, t, r) /\ (outCache[l] # None => outCache[l] = outDdr[l])

LibraryInv ==
  /\ Buffers /\ Counters /\ Place
  /\ PackedLines /\ FlushedLines /\ LoadedBeats /\ DrainedTiles /\ StoredLines /\ Unread
  /\ ConsumedIsProduced

-----------------------------------------------------------------------------
(* Facts about the constants.                                              *)

LEMMA ClusterFacts ==
  ASSUME cluster \in Clusters
  PROVE  /\ K \in Nat \ {0} /\ cluster.b \in 1 .. Batch /\ Width \in 1 .. MaxN
         /\ \A j \in 1 .. K : /\ Proj(j).N = Width /\ Proj(j).tiles \in 1 .. MaxTiles
         /\ \A r \in Asked : r \in Rows
<1>1. /\ cluster.projs \in Seq(Projs) /\ cluster.projs # <<>> /\ cluster.b \in 1 .. Batch
      /\ \A i, j \in 1 .. K : Proj(i).N = Proj(j).N
  BY LibraryAssumption DEF K, Proj
<1>2. K \in Nat \ {0}
  BY <1>1, EmptySeq DEF K
<1>3. \A j \in 1 .. K : Proj(j) \in Projs
  BY <1>1, ElementOfSeq DEF K, Proj
<1>4. 1 \in 1 .. K
  BY <1>2
<1>5. Width \in 1 .. MaxN
  BY <1>3, <1>4, LibraryAssumption DEF Width, Proj
<1>6. \A j \in 1 .. K : Proj(j).N = Width
  BY <1>1, <1>4 DEF Width, Proj
<1>7. \A r \in Asked : r \in Rows
  BY <1>1, LibraryAssumption DEF Asked, Rows
<1>. QED
  BY <1>1, <1>2, <1>3, <1>5, <1>6, <1>7, LibraryAssumption

\* Row r's tiles are lines r * T .. r * T + T - 1 of a buffer of T tiles per row.
LEMMA LineOf ==
  ASSUME NEW T \in 1 .. MaxTiles, NEW r \in Rows, NEW t \in 0 .. T - 1
  PROVE  /\ r * T + t \in 0 .. Batch * T - 1 /\ r * T + t \in Lines
         /\ (r * T + t) \div T = r
<1>1. T \in Nat /\ r \in Nat /\ t \in Nat /\ r + 1 <= Batch /\ t < T /\ T <= MaxTiles /\ Batch \in Nat /\ MaxTiles \in Nat
  BY LibraryAssumption DEF Rows
<1>2. (r + 1) * T <= Batch * T
  BY <1>1
<1>3. Batch * T <= Batch * MaxTiles
  BY <1>1
<1>4. (r + 1) * T = r * T + T
  BY <1>1
<1>5. (r * T + t) \div T = r
  BY <1>1
<1>. QED
  BY <1>1, <1>2, <1>3, <1>4, <1>5 DEF Lines

LEMMA LineIsOne ==
  ASSUME NEW T \in 1 .. MaxTiles, NEW r \in Rows, NEW t \in 0 .. T - 1,
         NEW q \in Rows, NEW m \in 0 .. T - 1, r * T + t = q * T + m
  PROVE  r = q /\ t = m
<1>1. r = q
  BY LineOf
<1>. QED
  BY <1>1, LibraryAssumption DEF Rows

-----------------------------------------------------------------------------
(* The engine and the cache: the thread stands still.                      *)

LEMMA ThreadStill ==
  ASSUME LibraryInv, UNCHANGED <<op, threadVars>>
  PROVE  Place' /\ ConsumedIsProduced'
<1>. USE DEF threadVars
<1>1. Place'
  BY DEF LibraryInv, Place, NoneAhead, OneAhead, Computing, InEngine, LastRead, LastPack, K, Proj,
         Width
<1>2. ConsumedIsProduced'
  BY DEF LibraryInv, ConsumedIsProduced
<1>. QED
  BY <1>1, <1>2

\* An instruction in the engine tells where the thread is.
LEMMA EngineBusy ==
  ASSUME Place, op # None
  PROVE  /\ cluster \in Clusters /\ n \in 1 .. K
         /\ op.kind = "load" => pc = "loadWait" /\ op.lines = Width
         /\ op.kind = "compute" => Computing /\ op.proj = Proj(n) /\ op.lines = Proj(n).tiles
                                   /\ pc \in {"pack", "sync", "readback", "computeWait"}
         /\ op.kind = "store" => pc = "storeWait" /\ op.lines = Batch * Proj(n).tiles
<1>1. cluster \in Clusters /\ n \in 1 .. K
  BY ClusterFacts DEF Place, NoneAhead, OneAhead
<1>. QED
  BY <1>1 DEF Place, NoneAhead, OneAhead, Computing, InEngine

LEMMA LoadBeatStep == LibraryInv /\ LoadBeat => LibraryInv'
<1>. SUFFICES ASSUME LibraryInv, LoadBeat PROVE LibraryInv'
  OBVIOUS
<1>. USE DEF threadVars
<1>1. /\ op # None /\ op.kind = "load" /\ pc = "loadWait" /\ op.lines = Width
      /\ cluster \in Clusters /\ Width \in 1 .. MaxN /\ moved \in 0 .. Width /\ moved < Width
      /\ UNCHANGED <<actCache, actDdr, outCache, outDdr, outMem, op, threadVars>>
      /\ actBram' = [actBram EXCEPT ![moved + 1] = actDdr[moved + 1]] /\ moved' = moved + 1
      /\ n \in 1 .. K /\ packed = n /\ ~Computing
  BY EngineBusy, ClusterFacts DEF LoadBeat, LibraryInv, Counters, Place, InEngine, Computing
<1>2. moved + 1 \in Beats /\ Width <= MaxN /\ MaxN \in Nat
  BY <1>1, LibraryAssumption DEF Beats
<1>3. Buffers'
  BY <1>1, <1>2 DEF LibraryInv, Buffers, IsOver
<1>4. Counters'
  BY <1>1 DEF LibraryInv, Counters, K
<1>5. PackedLines' /\ FlushedLines'
  BY <1>1 DEF LibraryInv, PackedLines, FlushedLines, Width, Asked, Vector
<1>6. LoadedBeats'
  <2>1. ASSUME NEW i \in 1 .. moved + 1, NEW r \in Asked
        PROVE  actBram'[i][r] = Vector(n, i, r)
    <3>1. i \in Beats /\ i \in 1 .. Width
      BY <1>1, <1>2 DEF Beats
    <3>2. actDdr[i][r] = Vector(n, i, r)
      BY <1>1, <2>1, <3>1 DEF LibraryInv, FlushedLines
    <3>3. i # moved + 1 => i \in 1 .. moved /\ actBram[i][r] = Vector(n, i, r)
      BY <1>1, <2>1 DEF LibraryInv, LoadedBeats
    <3>. QED
      BY <1>1, <1>2, <3>1, <3>2, <3>3 DEF LibraryInv, Buffers
  <2>. QED
    BY <1>1, <2>1 DEF LoadedBeats, Asked, Vector, Computing, InEngine, Proj
<1>7. DrainedTiles' /\ StoredLines' /\ Unread'
  BY <1>1 DEF LibraryInv, DrainedTiles, StoredLines, Unread, Computing, InEngine, Proj, Result,
     Vector, Asked
<1>. QED
  BY <1>1, <1>3, <1>4, <1>5, <1>6, <1>7, ThreadStill DEF LibraryInv

LEMMA ComputeTileStep == LibraryInv /\ ComputeTile => LibraryInv'
<1>. SUFFICES ASSUME LibraryInv, ComputeTile PROVE LibraryInv'
  OBVIOUS
<1>. USE DEF threadVars
<1>. DEFINE T == Proj(n).tiles
<1>1. /\ op # None /\ op.kind = "compute" /\ Computing /\ op.proj = Proj(n) /\ op.lines = T
      /\ cluster \in Clusters /\ n \in 1 .. K
      /\ pc \in {"pack", "sync", "readback", "computeWait"}
      /\ moved \in 0 .. T /\ moved < T /\ moved' = moved + 1
      /\ UNCHANGED <<actCache, actDdr, outCache, outDdr, actBram, op, threadVars>>
  BY EngineBusy DEF ComputeTile, LibraryInv, Counters
<1>2. /\ T \in 1 .. MaxTiles /\ Proj(n).N = Width
      /\ \A r \in Asked : r \in Rows
  BY <1>1, ClusterFacts
<1>3. outMem' = [l \in Lines |-> IF \E r \in Rows : l = r * T + moved
                                 THEN Product(Proj(n), moved, l \div T) ELSE outMem[l]]
  BY <1>1 DEF ComputeTile
<1>4. Buffers'
  BY <1>1, <1>3 DEF LibraryInv, Buffers, IsOver
<1>5. Counters'
  BY <1>1, <1>2 DEF LibraryInv, Counters, K
<1>6. PackedLines' /\ FlushedLines' /\ LoadedBeats'
  BY <1>1 DEF LibraryInv, PackedLines, FlushedLines, LoadedBeats, Width, Asked, Vector,
     Computing, InEngine, Proj
<1>7. ASSUME NEW t \in 0 .. moved, NEW r \in Asked
      PROVE  outMem'[r * T + t] = Result(n, t, r)
  <2>1. r \in Rows /\ t \in 0 .. T - 1 /\ moved \in 0 .. T - 1
    BY <1>1, <1>2
  <2>2. r * T + t \in Lines /\ (r * T + t) \div T = r
    BY <1>2, <2>1, LineOf
  <2>3. CASE t = moved
    <3>1. outMem'[r * T + t] = Product(Proj(n), t, r)
      BY <1>3, <2>1, <2>2, <2>3
    <3>2. \A i \in 1 .. Proj(n).N : actBram[i][r] = Vector(n, i, r)
      BY <1>1, <1>2 DEF LibraryInv, LoadedBeats
    <3>. QED
      BY <3>1, <3>2 DEF Product, Result
  <2>4. CASE t # moved
    <3>1. ~ \E q \in Rows : r * T + t = q * T + moved
      BY <1>2, <2>1, <2>4, LineIsOne
    <3>2. outMem[r * T + t] = Result(n, t, r)
      BY <1>1, <2>4 DEF LibraryInv, DrainedTiles
    <3>. QED
      BY <1>3, <2>2, <3>1, <3>2
  <2>. QED
    BY <2>3, <2>4
<1>8. DrainedTiles'
  BY <1>1, <1>7 DEF DrainedTiles, Proj, Asked, Result, Vector
<1>9. StoredLines' /\ Unread'
  BY <1>1 DEF LibraryInv, StoredLines, Unread, Proj, Result, Vector, Asked
<1>. QED
  BY <1>1, <1>4, <1>5, <1>6, <1>8, <1>9, ThreadStill DEF LibraryInv

LEMMA StoreLineStep == LibraryInv /\ StoreLine => LibraryInv'
<1>. SUFFICES ASSUME LibraryInv, StoreLine PROVE LibraryInv'
  OBVIOUS
<1>. USE DEF threadVars
<1>. DEFINE T == Proj(n).tiles
<1>1. /\ op # None /\ op.kind = "store" /\ op.lines = Batch * T /\ pc = "storeWait"
      /\ cluster \in Clusters /\ n \in 1 .. K /\ ~Computing
      /\ moved \in 0 .. Batch * T /\ moved < Batch * T /\ moved' = moved + 1
      /\ outDdr' = [outDdr EXCEPT ![moved] = outMem[moved]]
      /\ UNCHANGED <<actCache, actDdr, outCache, actBram, outMem, op, threadVars>>
  BY EngineBusy DEF StoreLine, LibraryInv, Counters, Computing, InEngine
<1>2. T \in 1 .. MaxTiles
  BY <1>1, ClusterFacts
<1>3. Batch * T \in Nat /\ \A l \in 0 .. Batch * T - 1 : l \in Lines
  <2>1. Batch * T <= Batch * MaxTiles /\ Batch * T \in Nat /\ Batch * MaxTiles \in Nat
    BY <1>2, LibraryAssumption
  <2>. HIDE DEF T
  <2>. QED
    BY <2>1 DEF Lines
<1>4. Buffers'
  BY <1>1, <1>3 DEF LibraryInv, Buffers, IsOver
<1>5. Counters'
  BY <1>1, <1>3 DEF LibraryInv, Counters, K
<1>6. PackedLines' /\ FlushedLines' /\ LoadedBeats' /\ DrainedTiles' /\ Unread'
  BY <1>1 DEF LibraryInv, PackedLines, FlushedLines, LoadedBeats, DrainedTiles, Unread, Width,
     Asked, Vector, Result, Computing, InEngine, Proj
<1>7. ASSUME NEW l \in 0 .. moved PROVE outDdr'[l] = outMem[l]
  <2>1. l \in 0 .. Batch * T - 1 /\ moved \in Nat
    <3>. HIDE DEF T
    <3>. QED
      BY <1>1, <1>3
  <2>2. l \in Lines /\ moved \in Lines
    BY <1>1, <1>3, <2>1
  <2>3. l # moved => outDdr[l] = outMem[l]
    BY <1>1, <2>1 DEF LibraryInv, StoredLines
  <2>4. outDdr' = [k \in Lines |-> IF k = moved THEN outMem[moved] ELSE outDdr[k]]
    BY <1>1 DEF LibraryInv, Buffers, IsOver
  <2>. QED
    BY <2>2, <2>3, <2>4
<1>8. StoredLines'
  BY <1>1, <1>7 DEF StoredLines
<1>. QED
  BY <1>1, <1>4, <1>5, <1>6, <1>8, ThreadStill DEF LibraryInv

LEMMA EvictStep == LibraryInv /\ Evict => LibraryInv'
<1>. SUFFICES ASSUME LibraryInv, Evict PROVE LibraryInv'
  OBVIOUS
<1>. USE DEF threadVars, engineVars
<1>1. PICK k \in Beats : /\ actCache[k] # None
                         /\ actDdr' = [actDdr EXCEPT ![k] = actCache[k]]
                         /\ actCache' = [actCache EXCEPT ![k] = None]
  BY DEF Evict
<1>2. UNCHANGED <<outCache, outDdr, actBram, outMem, op, moved, threadVars>>
  BY DEF Evict
<1>3. actCache[k] \in ActLine /\ actCache \in [Beats -> ActLine \cup {None}]
      /\ actDdr \in [Beats -> ActLine]
  BY <1>1 DEF LibraryInv, Buffers
<1>4. Buffers'
  BY <1>1, <1>2, <1>3 DEF LibraryInv, Buffers, IsOver
<1>5. Counters'
  BY <1>2 DEF LibraryInv, Counters, K
<1>6. ASSUME NEW i \in Beats
      PROVE  /\ i # k => actCache'[i] = actCache[i] /\ actDdr'[i] = actDdr[i]
             /\ i = k => actCache'[i] = None /\ actDdr'[i] = actCache[i]
  BY <1>1, <1>3
<1>7. ASSUME cluster \in Clusters PROVE \A i \in 1 .. Width : i \in Beats
  <2>1. Width \in Nat /\ Width <= MaxN /\ MaxN \in Nat
    BY <1>7, ClusterFacts, LibraryAssumption
  <2>. QED
    BY <2>1 DEF Beats
<1>8. pc # "idle" => cluster \in Clusters
  BY DEF LibraryInv, Place
<1>9. PackedLines'
  BY <1>1, <1>2, <1>6, <1>7, <1>8 DEF LibraryInv, PackedLines, Width, Asked, Vector
<1>10. FlushedLines'
  BY <1>1, <1>2, <1>6, <1>7, <1>8 DEF LibraryInv, FlushedLines, Width, Asked, Vector
<1>11. LoadedBeats' /\ DrainedTiles' /\ StoredLines' /\ Unread'
  BY <1>2 DEF LibraryInv, LoadedBeats, DrainedTiles, StoredLines, Unread, Width,
     Asked, Vector, Result, Computing, InEngine, Proj
<1>. QED
  BY <1>2, <1>4, <1>5, <1>9, <1>10, <1>11, ThreadStill DEF LibraryInv

LEMMA FillStep == LibraryInv /\ Fill => LibraryInv'
<1>. SUFFICES ASSUME LibraryInv, Fill PROVE LibraryInv'
  OBVIOUS
<1>. USE DEF threadVars, engineVars
<1>1. PICK k \in Lines : outCache' = [outCache EXCEPT ![k] = outDdr[k]]
  BY DEF Fill
<1>2. UNCHANGED <<actCache, actDdr, outDdr, actBram, outMem, op, moved, threadVars>>
  BY DEF Fill
<1>3. Buffers'
  BY <1>1, <1>2 DEF LibraryInv, Buffers, IsOver
<1>4. Counters'
  BY <1>2 DEF LibraryInv, Counters, K
<1>5. PackedLines' /\ FlushedLines' /\ LoadedBeats' /\ DrainedTiles' /\ StoredLines'
  BY <1>2 DEF LibraryInv, PackedLines, FlushedLines, LoadedBeats, DrainedTiles, StoredLines,
     Width, Asked, Vector, Result, Computing, InEngine, Proj
<1>6. \A l : outCache'[l] = outCache[l] \/ (l \in Lines => outCache'[l] = outDdr[l])
  <2>1. outCache = [l \in Lines |-> outCache[l]]
    BY DEF LibraryInv, Buffers, IsOver
  <2>. QED
    BY <1>1, <2>1
<1>7. Unread'
  <2>. SUFFICES ASSUME pc \in {"load", "loadWait", "compute", "readback"}, n > 1,
                       NEW t \in 0 .. Proj(n - 1).tiles - 1, NEW r \in Asked
                PROVE  LET l == r * Proj(n - 1).tiles + t
                       IN outDdr[l] = Result(n - 1, t, r) /\ (outCache'[l] # None => outCache'[l] = outDdr[l])
    BY <1>2 DEF Unread, Proj, Asked, Result, Vector
  <2>. DEFINE T == Proj(n - 1).tiles
              l == r * T + t
  <2>1. cluster \in Clusters /\ n - 1 \in 1 .. K
    <3>1. cluster \in Clusters /\ n \in 1 .. K + 1
      BY DEF LibraryInv, Place
    <3>. QED
      BY <3>1, ClusterFacts
  <2>2. T \in 1 .. MaxTiles /\ r \in Rows
    BY <2>1, ClusterFacts
  <2>3. l \in Lines
    BY <2>2, LineOf
  <2>4. outDdr[l] = Result(n - 1, t, r) /\ (outCache[l] # None => outCache[l] = outDdr[l])
    BY DEF LibraryInv, Unread
  <2>. HIDE DEF l, T
  <2>5. outDdr[l] = Result(n - 1, t, r) /\ (outCache'[l] # None => outCache'[l] = outDdr[l])
    BY <1>6, <2>3, <2>4
  <2>. QED
    BY <2>5 DEF l, T
<1>. QED
  BY <1>2, <1>3, <1>4, <1>5, <1>7, ThreadStill DEF LibraryInv

-----------------------------------------------------------------------------
(* The thread.                                                             *)

LEMMA BeginStep == LibraryInv /\ Begin => LibraryInv'
<1>. SUFFICES ASSUME LibraryInv, Begin PROVE LibraryInv'
  OBVIOUS
<1>. USE DEF memVars, engineVars
<1>1. PICK c \in Clusters : ops + Len(c.projs) <= MaxOps /\ cluster' = c
  BY DEF Begin
<1>2. /\ pc' = "pack" /\ n' = 1 /\ packed' = 0 /\ read' = 0 /\ acc' = None
      /\ UNCHANGED <<ops, memVars, op, moved>> /\ op = None
  BY DEF Begin, LibraryInv, Place
<1>3. Len(c.projs) \in Nat
  BY LibraryAssumption
<1>4. Buffers'
  BY <1>2 DEF LibraryInv, Buffers, IsOver
<1>5. Counters'
  BY <1>1, <1>2, <1>3 DEF LibraryInv, Counters, K
<1>6. Place'
  BY <1>1, <1>2, <1>3 DEF Place, NoneAhead, K
<1>7. /\ PackedLines' /\ FlushedLines' /\ LoadedBeats' /\ DrainedTiles' /\ StoredLines'
      /\ Unread' /\ ConsumedIsProduced'
  BY <1>2 DEF PackedLines, FlushedLines, LoadedBeats, DrainedTiles, StoredLines, Unread,
     ConsumedIsProduced
<1>. QED
  BY <1>4, <1>5, <1>6, <1>7 DEF LibraryInv

LEMMA PackStep == LibraryInv /\ Pack => LibraryInv'
<1>. SUFFICES ASSUME LibraryInv, Pack PROVE LibraryInv'
  OBVIOUS
<1>. USE DEF engineVars
<1>. DEFINE Packed(i) == [r \in Rows |-> IF r < cluster.b THEN Vector(packed + 1, i, r)
                            ELSE IF actCache[i] # None THEN actCache[i][r] ELSE actDdr[i][r]]
<1>1. /\ pc = "pack" /\ pc' = "sync" /\ packed' = packed + 1
      /\ UNCHANGED <<actDdr, outCache, outDdr, actBram, outMem, op, moved, cluster, n, ops, acc, read>>
      /\ actCache' = [i \in Beats |-> IF i > Width THEN actCache[i] ELSE Packed(i)]
  BY DEF Pack, Width
<1>2. /\ cluster \in Clusters /\ n \in 1 .. K + 1
      /\ NoneAhead \/ (OneAhead /\ packed = n)
      /\ ops \in Nat /\ packed \in Nat
  BY <1>1, LibraryAssumption DEF LibraryInv, Place, Counters
<1>3. /\ K \in Nat \ {0} /\ cluster.b \in 1 .. Batch /\ Width \in 1 .. MaxN
      /\ \A r \in Asked : r \in Rows /\ r < cluster.b
  BY <1>2, ClusterFacts DEF Asked
<1>4. \A i \in Beats : Packed(i) \in ActLine
  <2>. SUFFICES ASSUME NEW i \in Beats, NEW r \in Rows
                PROVE  Packed(i)[r] \in Nat \X Nat \X Nat
    BY DEF ActLine
  <2>1. i \in Nat /\ r \in Nat
    BY LibraryAssumption DEF Beats, Rows
  <2>2. Vector(packed + 1, i, r) \in Nat \X Nat \X Nat
    BY <1>2, <2>1 DEF Vector
  <2>3. actCache[i] # None => actCache[i][r] \in Nat \X Nat \X Nat
    BY DEF LibraryInv, Buffers, ActLine
  <2>4. actDdr[i][r] \in Nat \X Nat \X Nat
    BY DEF LibraryInv, Buffers, ActLine
  <2>. QED
    BY <2>2, <2>3, <2>4
<1>5. Buffers'
  BY <1>1, <1>4 DEF LibraryInv, Buffers, IsOver
<1>6. Counters'
  <2>1. packed + 1 <= K
    BY <1>2, <1>3 DEF NoneAhead, OneAhead
  <2>. QED
    BY <1>1, <1>2, <1>3, <2>1 DEF LibraryInv, Counters, K
<1>7. Place'
  <2>1. ops + K <= MaxOps
    BY <1>1 DEF LibraryInv, Place
  <2>. QED
    BY <1>1, <1>2, <2>1 DEF Place, NoneAhead, OneAhead, Computing, InEngine, Proj, K
<1>8. PackedLines'
  <2>1. ASSUME NEW i \in 1 .. Width, NEW r \in Asked
        PROVE  actCache'[i] # None /\ actCache'[i][r] = Vector(packed + 1, i, r)
    <3>1. i \in Beats /\ ~(i > Width) /\ r \in Rows /\ r < cluster.b
      BY <1>3, LibraryAssumption DEF Beats
    <3>2. actCache'[i] = Packed(i)
      BY <1>1, <3>1
    <3>. QED
      BY <1>4, <3>1, <3>2, NoneAssumption
  <2>2. Width' = Width /\ Asked' = Asked /\ packed' = packed + 1 /\ ops' = ops
    BY <1>1 DEF Width, Asked
  <2>. QED
    BY <2>1, <2>2 DEF PackedLines, Vector
<1>9. /\ FlushedLines' /\ LoadedBeats' /\ DrainedTiles' /\ StoredLines' /\ Unread'
      /\ ConsumedIsProduced'
  BY <1>1 DEF LibraryInv, FlushedLines, LoadedBeats, DrainedTiles, StoredLines, Unread,
     ConsumedIsProduced, Width, Asked, Vector, Result, Computing, InEngine, Proj
<1>. QED
  BY <1>5, <1>6, <1>7, <1>8, <1>9 DEF LibraryInv

LEMMA SyncForDeviceStep == LibraryInv /\ SyncForDevice => LibraryInv'
<1>. SUFFICES ASSUME LibraryInv, SyncForDevice PROVE LibraryInv'
  OBVIOUS
<1>. USE DEF engineVars
<1>1. /\ pc = "sync" /\ pc' = IF packed = 1 THEN "load" ELSE "computeWait"
      /\ UNCHANGED <<actCache, outCache, outDdr, actBram, outMem, op, moved, cluster, n,
                     packed, ops, acc, read>>
      /\ actDdr' = [i \in Beats |-> IF i <= Width /\ actCache[i] # None
                                    THEN actCache[i] ELSE actDdr[i]]
  BY DEF SyncForDevice, Width
<1>2. /\ cluster \in Clusters /\ n \in 1 .. K + 1 /\ ops + K <= MaxOps
      /\ \/ op = None /\ n = 1 /\ packed = 1 /\ read = 0
         \/ OneAhead /\ packed = n + 1
  BY <1>1 DEF LibraryInv, Place
<1>3. K \in Nat \ {0} /\ Width \in 1 .. MaxN
  BY <1>2, ClusterFacts
<1>4. Buffers'
  BY <1>1 DEF LibraryInv, Buffers, IsOver
<1>5. Counters'
  BY <1>1 DEF LibraryInv, Counters, K
<1>6. Place'
  <2>1. CASE packed = 1
    BY <1>1, <1>2, <1>3, <2>1 DEF Place, OneAhead, LastRead, K
  <2>2. CASE packed # 1
    BY <1>1, <1>2, <1>3, <2>2 DEF Place, OneAhead, LastPack, Computing, InEngine, Proj, K
  <2>. QED
    BY <2>1, <2>2
<1>7. FlushedLines'
  <2>1. ASSUME NEW i \in 1 .. Width, NEW r \in Asked
        PROVE  /\ actDdr'[i][r] = Vector(packed, i, r)
               /\ actCache[i] # None => actCache[i][r] = Vector(packed, i, r)
    <3>1. i \in Beats /\ i <= Width
      BY <1>3, LibraryAssumption DEF Beats
    <3>2. (IF actCache[i] # None THEN actCache[i] ELSE actDdr[i])[r] = Vector(packed, i, r)
      BY <1>1 DEF LibraryInv, PackedLines
    <3>. QED
      BY <1>1, <3>1, <3>2
  <2>. QED
    BY <1>1, <2>1 DEF FlushedLines, Width, Asked, Vector
<1>8. Unread'
  BY <1>1, <1>2, <1>3 DEF Unread, OneAhead
<1>9. /\ PackedLines' /\ LoadedBeats' /\ DrainedTiles' /\ StoredLines' /\ ConsumedIsProduced'
  BY <1>1 DEF LibraryInv, PackedLines, LoadedBeats, DrainedTiles, StoredLines,
     ConsumedIsProduced, Width, Asked, Vector, Result, Computing, InEngine, Proj
<1>. QED
  BY <1>4, <1>5, <1>6, <1>7, <1>8, <1>9 DEF LibraryInv

\* Issuing and waiting: the buffers stay, what is in the engine changes.
LEMMA IssueLoadStep == LibraryInv /\ IssueLoad => LibraryInv'
<1>. SUFFICES ASSUME LibraryInv, IssueLoad PROVE LibraryInv'
  OBVIOUS
<1>. USE DEF memVars
<1>1. /\ pc = "load" /\ pc' = "loadWait" /\ moved' = 0
      /\ UNCHANGED <<cluster, n, packed, ops, acc, read, memVars>>
      /\ op' = [kind |-> "load", proj |-> Proj(packed), lines |-> Proj(packed).N]
  BY DEF IssueLoad, Issue, Proj
<1>2. cluster \in Clusters /\ ops + K <= MaxOps /\ n \in 1 .. K /\ packed = n /\ LastRead
  BY <1>1, ClusterFacts DEF LibraryInv, Place
<1>3. Width \in Nat /\ op' = [kind |-> "load", proj |-> Proj(n), lines |-> Width]
  BY <1>1, <1>2, ClusterFacts
<1>4. Buffers' /\ Counters'
  BY <1>1, <1>3 DEF LibraryInv, Buffers, IsOver, Counters, K
<1>5. Place'
  BY <1>1, <1>2, <1>3, ClusterFacts DEF Place, InEngine, LastRead, Proj, Width, K
<1>6. FlushedLines' /\ Unread' /\ ConsumedIsProduced'
  BY <1>1 DEF LibraryInv, FlushedLines, Unread, ConsumedIsProduced, Width, Asked, Vector, Result,
     Proj
<1>7. PackedLines' /\ LoadedBeats' /\ DrainedTiles' /\ StoredLines'
  BY <1>1, <1>3 DEF PackedLines, LoadedBeats, DrainedTiles, StoredLines, Computing, InEngine
<1>. QED
  BY <1>4, <1>5, <1>6, <1>7 DEF LibraryInv

LEMMA LoadWaitStep == LibraryInv /\ LoadWait => LibraryInv'
<1>. SUFFICES ASSUME LibraryInv, LoadWait PROVE LibraryInv'
  OBVIOUS
<1>. USE DEF memVars
<1>1. /\ pc = "loadWait" /\ pc' = "compute" /\ op' = None /\ op # None /\ moved = op.lines
      /\ UNCHANGED <<moved, cluster, n, packed, ops, acc, read, memVars>>
  BY DEF LoadWait, Finished
<1>2. /\ cluster \in Clusters /\ ops + K <= MaxOps /\ n \in 1 .. K + 1 /\ n <= K /\ packed = n
      /\ LastRead /\ op.lines = Width
  BY <1>1 DEF LibraryInv, Place, InEngine
<1>3. Buffers' /\ Counters'
  BY <1>1 DEF LibraryInv, Buffers, IsOver, Counters, K
<1>4. Place'
  BY <1>1, <1>2 DEF Place, LastRead, K
<1>5. LoadedBeats'
  BY <1>1, <1>2 DEF LibraryInv, LoadedBeats, Width, Asked, Vector
<1>6. PackedLines' /\ FlushedLines' /\ Unread' /\ ConsumedIsProduced'
  BY <1>1 DEF LibraryInv, PackedLines, FlushedLines, Unread,
     ConsumedIsProduced, Width, Asked, Vector, Result, Proj
<1>7. DrainedTiles' /\ StoredLines'
  BY <1>1 DEF DrainedTiles, StoredLines
<1>. QED
  BY <1>3, <1>4, <1>5, <1>6, <1>7 DEF LibraryInv

LEMMA IssueComputeStep == LibraryInv /\ IssueCompute => LibraryInv'
<1>. SUFFICES ASSUME LibraryInv, IssueCompute PROVE LibraryInv'
  OBVIOUS
<1>. USE DEF memVars
<1>1. /\ pc = "compute" /\ moved' = 0
      /\ pc' = IF n > 1 THEN "readback" ELSE IF n < K THEN "pack" ELSE "computeWait"
      /\ UNCHANGED <<cluster, n, packed, ops, acc, read, memVars>>
      /\ op' = [kind |-> "compute", proj |-> Proj(n), lines |-> Proj(n).tiles]
  BY DEF IssueCompute, Issue, Proj, K
<1>2. /\ cluster \in Clusters /\ ops + K <= MaxOps /\ n \in 1 .. K + 1 /\ n <= K /\ packed = n
      /\ LastRead /\ op = None
  BY <1>1 DEF LibraryInv, Place
<1>3. K \in Nat \ {0} /\ n \in 1 .. K /\ Proj(n).tiles \in 1 .. MaxTiles
  BY <1>2, ClusterFacts
<1>4. Buffers' /\ Counters'
  BY <1>1, <1>3 DEF LibraryInv, Buffers, IsOver, Counters, K
<1>5. Computing'
  BY <1>1 DEF Computing, InEngine, Proj
<1>6. Place'
  <2>1. CASE n > 1
    BY <1>1, <1>2, <1>3, <1>5, <2>1 DEF Place, LastRead, K
  <2>2. CASE n = 1 /\ n < K
    BY <1>1, <1>2, <1>3, <1>5, <2>2 DEF Place, LastRead, OneAhead, K
  <2>3. CASE n = 1 /\ n = K
    <3>1. pc' = "computeWait" /\ read' = n' - 1 /\ LastPack'
      <4>1. K' = K /\ n' = n /\ packed' = n /\ read' = read
        BY <1>1, <1>2 DEF K
      <4>2. ~(n > 1) /\ ~(n < K)
        BY <1>3, <2>3
      <4>3. pc' = "computeWait"
        BY <1>1, <4>2
      <4>4. read = n - 1
        BY <1>2, <2>3 DEF LastRead
      <4>. QED
        BY <2>3, <4>1, <4>2, <4>3, <4>4 DEF LastPack
    <3>. QED
      BY <1>1, <1>2, <1>5, <3>1 DEF Place, K
  <2>. QED
    BY <1>3, <2>1, <2>2, <2>3
<1>7. pc' \in {"readback", "pack", "computeWait"} /\ (n > 1 \/ pc' # "readback")
  BY <1>1
<1>8. LoadedBeats' /\ DrainedTiles'
  BY <1>1, <1>7 DEF LibraryInv, LoadedBeats, DrainedTiles, Width, Asked, Vector
<1>9. PackedLines' /\ FlushedLines' /\ StoredLines' /\ Unread' /\ ConsumedIsProduced'
  BY <1>1, <1>7 DEF LibraryInv, PackedLines, FlushedLines, StoredLines, Unread,
     ConsumedIsProduced, Width, Asked, Vector, Result, Proj
<1>. QED
  BY <1>4, <1>6, <1>8, <1>9 DEF LibraryInv

LEMMA ComputeWaitStep == LibraryInv /\ ComputeWait => LibraryInv'
<1>. SUFFICES ASSUME LibraryInv, ComputeWait PROVE LibraryInv'
  OBVIOUS
<1>. USE DEF memVars
<1>1. /\ pc = "computeWait" /\ pc' = "store" /\ op' = None /\ op # None /\ moved = op.lines
      /\ UNCHANGED <<moved, cluster, n, packed, ops, acc, read, memVars>>
  BY DEF ComputeWait, Finished
<1>2. /\ cluster \in Clusters /\ ops + K <= MaxOps /\ n \in 1 .. K + 1 /\ n <= K /\ LastPack
      /\ read = n - 1 /\ Computing /\ op.lines = Proj(n).tiles
  BY <1>1 DEF LibraryInv, Place, Computing, InEngine
<1>3. Buffers' /\ Counters'
  BY <1>1 DEF LibraryInv, Buffers, IsOver, Counters, K
<1>4. Place'
  BY <1>1, <1>2 DEF Place, LastPack, K
<1>5. DrainedTiles'
  BY <1>1, <1>2 DEF LibraryInv, DrainedTiles, Asked, Vector, Result, Proj
<1>6. /\ PackedLines' /\ FlushedLines' /\ LoadedBeats' /\ StoredLines' /\ Unread'
      /\ ConsumedIsProduced'
  BY <1>1 DEF LibraryInv, PackedLines, FlushedLines, LoadedBeats, StoredLines, Unread,
     ConsumedIsProduced, Width, Asked, Vector, Result, Proj
<1>. QED
  BY <1>3, <1>4, <1>5, <1>6 DEF LibraryInv

LEMMA IssueStoreStep == LibraryInv /\ IssueStore => LibraryInv'
<1>. SUFFICES ASSUME LibraryInv, IssueStore PROVE LibraryInv'
  OBVIOUS
<1>. USE DEF memVars
<1>1. /\ pc = "store" /\ pc' = "storeWait" /\ moved' = 0
      /\ UNCHANGED <<cluster, n, packed, ops, acc, read, memVars>>
      /\ op' = [kind |-> "store", proj |-> Proj(n), lines |-> Batch * Proj(n).tiles]
  BY DEF IssueStore, Issue, Proj
<1>2. /\ cluster \in Clusters /\ ops + K <= MaxOps /\ n \in 1 .. K + 1 /\ n <= K /\ LastPack
      /\ read = n - 1
  BY <1>1 DEF LibraryInv, Place
<1>3. Batch * Proj(n).tiles \in Nat
  <2>1. n \in 1 .. K
    BY <1>2, ClusterFacts
  <2>2. Proj(n).tiles \in Nat
    BY <1>2, <2>1, ClusterFacts
  <2>. QED
    BY <2>2, LibraryAssumption
<1>4. Buffers' /\ Counters'
  BY <1>1, <1>3 DEF LibraryInv, Buffers, IsOver, Counters, K
<1>5. Place'
  BY <1>1, <1>2 DEF Place, InEngine, LastPack, Proj, K
<1>6. /\ PackedLines' /\ FlushedLines' /\ LoadedBeats' /\ DrainedTiles' /\ StoredLines'
      /\ Unread' /\ ConsumedIsProduced'
  BY <1>1 DEF LibraryInv, PackedLines, FlushedLines, LoadedBeats, DrainedTiles, StoredLines,
     Unread, ConsumedIsProduced, Width, Asked, Vector, Result, Computing, InEngine, Proj
<1>. QED
  BY <1>4, <1>5, <1>6 DEF LibraryInv

LEMMA StoreWaitStep == LibraryInv /\ StoreWait => LibraryInv'
<1>. SUFFICES ASSUME LibraryInv, StoreWait PROVE LibraryInv'
  OBVIOUS
<1>. DEFINE T == Proj(n).tiles
<1>1. /\ pc = "storeWait" /\ op' = None /\ op # None /\ moved = op.lines /\ n' = n + 1
      /\ pc' = IF n < K THEN "load" ELSE "readback"
      /\ outCache' = [l \in Lines |-> IF l < op.lines THEN None ELSE outCache[l]]
      /\ UNCHANGED <<moved, actCache, actDdr, outDdr, actBram, outMem, cluster, packed, ops,
                     acc, read>>
  BY DEF StoreWait, Finished, K
<1>2. /\ cluster \in Clusters /\ ops + K <= MaxOps /\ n \in 1 .. K + 1 /\ n <= K /\ LastPack
      /\ read = n - 1 /\ op.lines = Batch * T
  BY <1>1 DEF LibraryInv, Place, InEngine
<1>3. K \in Nat \ {0} /\ n \in 1 .. K
  BY <1>2, ClusterFacts
<1>4. T \in 1 .. MaxTiles /\ \A r \in Asked : r \in Rows
  BY <1>2, <1>3, ClusterFacts
<1>5. Buffers' /\ Counters'
  BY <1>1, <1>2, <1>3 DEF LibraryInv, Buffers, IsOver, Counters, K
<1>6. Place'
  <2>1. CASE n < K
    BY <1>1, <1>2, <1>3, <2>1 DEF Place, LastPack, LastRead, K
  <2>2. CASE n = K
    BY <1>1, <1>2, <1>3, <2>2 DEF Place, LastPack, K
  <2>. QED
    BY <1>3, <2>1, <2>2
<1>7. Unread'
  <2>1. ASSUME NEW t \in 0 .. T - 1, NEW r \in Asked
        PROVE  outDdr[r * T + t] = Result(n, t, r) /\ outCache'[r * T + t] = None
    <3>1. r * T + t \in Lines /\ r * T + t \in 0 .. Batch * T - 1
      BY <1>4, LineOf
    <3>2. outDdr[r * T + t] = outMem[r * T + t]
      BY <1>1, <1>2, <3>1 DEF LibraryInv, StoredLines
    <3>3. outMem[r * T + t] = Result(n, t, r)
      BY <1>1 DEF LibraryInv, DrainedTiles
    <3>4. r * T + t < Batch * T
      <4>1. Batch * T \in Nat
        BY <1>4, LibraryAssumption
      <4>. HIDE DEF T
      <4>. QED
        BY <3>1, <4>1
    <3>. QED
      BY <1>1, <1>2, <3>1, <3>2, <3>3, <3>4
  <2>2. n' - 1 = n
    BY <1>1, <1>3
  <2>. QED
    BY <1>1, <2>1, <2>2 DEF Unread, Proj, Asked, Result, Vector
<1>8. /\ PackedLines' /\ FlushedLines' /\ LoadedBeats' /\ DrainedTiles' /\ StoredLines'
      /\ ConsumedIsProduced'
  BY <1>1 DEF LibraryInv, PackedLines, FlushedLines, LoadedBeats, DrainedTiles, StoredLines,
     ConsumedIsProduced, Width, Asked, Vector
<1>. QED
  BY <1>5, <1>6, <1>7, <1>8 DEF LibraryInv

LEMMA ReadbackStep == LibraryInv /\ Readback => LibraryInv'
<1>. SUFFICES ASSUME LibraryInv, Readback PROVE LibraryInv'
  OBVIOUS
<1>. USE DEF memVars, engineVars
<1>. DEFINE p       == Proj(read + 1)
            Line(l) == IF outCache[l] # None THEN outCache[l] ELSE outDdr[l]
<1>1. /\ pc = "readback" /\ read' = read + 1
      /\ pc' = IF n > K THEN "idle" ELSE IF n < K THEN "pack" ELSE "computeWait"
      /\ ops' = IF n > K THEN ops + K ELSE ops
      /\ UNCHANGED <<cluster, n, packed, memVars, op, moved>>
      /\ acc' = [r \in Asked |-> [t \in 0 .. p.tiles - 1 |-> Line(r * p.tiles + t)]]
  BY DEF Readback, Proj, K, Asked
<1>2. /\ cluster \in Clusters /\ ops + K <= MaxOps /\ n \in 1 .. K + 1 /\ n > 1 /\ read = n - 2
      /\ \/ Computing /\ n <= K /\ packed = n
         \/ op = None /\ n = K + 1 /\ packed = K
  BY <1>1 DEF LibraryInv, Place
<1>3. K \in Nat \ {0} /\ ops \in Nat /\ MaxOps \in Nat
  BY <1>2, ClusterFacts, LibraryAssumption DEF LibraryInv, Counters
<1>4. read + 1 = n - 1 /\ p = Proj(n - 1) /\ n - 1 \in 1 .. K
  BY <1>2, <1>3
<1>5. Buffers' /\ Counters'
  <2>1. Buffers'
    BY <1>1 DEF LibraryInv, Buffers, IsOver
  <2>2. Counters'
    BY <1>1, <1>2, <1>3 DEF LibraryInv, Counters, K
  <2>. QED
    BY <2>1, <2>2
<1>6. Place'
  <2>1. CASE n > K
    BY <1>1, <1>2, <1>3, <2>1 DEF Place
  <2>2. CASE n < K
    <3>1. Computing' /\ packed = n /\ pc' = "pack" /\ read' = n - 1
      BY <1>1, <1>2, <1>3, <2>2 DEF Computing, InEngine, Proj
    <3>. QED
      BY <1>1, <1>2, <2>2, <3>1 DEF Place, OneAhead, K
  <2>3. CASE n = K
    <3>1. Computing' /\ packed = n /\ pc' = "computeWait" /\ read' = n - 1
      BY <1>1, <1>2, <1>3, <2>3 DEF Computing, InEngine, Proj
    <3>. QED
      BY <1>1, <1>2, <2>3, <3>1 DEF Place, LastPack, K
  <2>. QED
    BY <1>2, <1>3, <2>1, <2>2, <2>3
<1>7. ConsumedIsProduced'
  <2>1. ASSUME NEW r \in Asked, NEW t \in 0 .. p.tiles - 1
        PROVE  acc'[r][t] = Result(n - 1, t, r)
    <3>1. acc'[r][t] = Line(r * p.tiles + t)
      BY <1>1
    <3>. QED
      BY <1>1, <1>2, <1>4, <3>1 DEF LibraryInv, Unread
  <2>2. (IF pc' = "idle" THEN ops' - Len(cluster'.projs) ELSE ops') = ops
    BY <1>1, <1>3 DEF K
  <2>. DEFINE first == IF pc' = "idle" THEN ops' - Len(cluster'.projs) ELSE ops'
  <2>3. p = cluster'.projs[read'] /\ first = ops /\ read' = n - 1
    BY <1>1, <1>4, <2>2 DEF Proj
  <2>4. ASSUME NEW r \in Asked, NEW t \in 0 .. p.tiles - 1
        PROVE  acc'[r][t] = [proj |-> p.id, tile |-> t,
                             x |-> [i \in 1 .. p.N |-> <<first + read', i, r>>]]
    BY <1>4, <2>1, <2>3 DEF Result, Vector
  <2>5. Asked = 0 .. cluster'.b - 1
    BY <1>1 DEF Asked
  <2>. HIDE DEF first, p
  <2>6. ASSUME NEW r \in 0 .. cluster'.b - 1, NEW t \in 0 .. cluster'.projs[read'].tiles - 1
        PROVE  acc'[r][t] = [proj |-> cluster'.projs[read'].id, tile |-> t,
                             x |-> [i \in 1 .. cluster'.projs[read'].N |-> <<first + read', i, r>>]]
    BY <2>3, <2>4, <2>5
  <2>. QED
    BY <2>6 DEF ConsumedIsProduced, first
<1>8. ASSUME pc' # "idle" PROVE FlushedLines'
  BY <1>1, <1>8 DEF LibraryInv, FlushedLines, Width, Asked, Vector
<1>9. LoadedBeats'
  BY <1>1, <1>2, <1>3 DEF LibraryInv, LoadedBeats, Computing, InEngine, Proj, Width, Asked, Vector
<1>10. DrainedTiles'
  BY <1>1, <1>2, <1>3 DEF LibraryInv, DrainedTiles, Computing, InEngine, Proj, Asked, Vector, Result
<1>11. PackedLines' /\ StoredLines' /\ Unread' /\ (pc' = "idle" => FlushedLines')
  BY <1>1 DEF PackedLines, FlushedLines, StoredLines, Unread
<1>. QED
  BY <1>5, <1>6, <1>7, <1>8, <1>9, <1>10, <1>11 DEF LibraryInv

LEMMA FailStep == LibraryInv /\ Fail => LibraryInv'
<1>. SUFFICES ASSUME LibraryInv, Fail PROVE LibraryInv'
  OBVIOUS
<1>. USE DEF memVars, engineVars
<1>1. /\ pc \in {"load", "compute", "store"} /\ pc' = "idle" /\ ops' = ops + K /\ acc' = None
      /\ UNCHANGED <<cluster, n, packed, read, memVars, op, moved>>
  BY DEF Fail, K
<1>2. cluster \in Clusters /\ ops + K <= MaxOps /\ op = None
  BY <1>1 DEF LibraryInv, Place
<1>3. K \in Nat /\ ops \in Nat /\ MaxOps \in Nat
  BY <1>2, ClusterFacts, LibraryAssumption DEF LibraryInv, Counters
<1>4. Buffers' /\ Counters'
  BY <1>1, <1>2, <1>3 DEF LibraryInv, Buffers, IsOver, Counters, K
<1>5. Place'
  BY <1>1, <1>2 DEF Place
<1>6. /\ PackedLines' /\ FlushedLines' /\ LoadedBeats' /\ DrainedTiles' /\ StoredLines'
      /\ Unread' /\ ConsumedIsProduced'
  BY <1>1, <1>2 DEF PackedLines, FlushedLines, LoadedBeats, DrainedTiles, StoredLines, Unread,
     ConsumedIsProduced
<1>. QED
  BY <1>4, <1>5, <1>6 DEF LibraryInv

-----------------------------------------------------------------------------
(* The theorems.                                                           *)

LEMMA LibraryInit == Init => LibraryInv
<1>. SUFFICES ASSUME Init PROVE LibraryInv
  OBVIOUS
<1>1. Zero \in ActLine
  BY DEF Zero, ActLine
<1>2. Buffers
  BY <1>1 DEF Init, Buffers, IsOver
<1>3. Counters
  BY LibraryAssumption DEF Init, Counters
<1>. QED
  BY <1>2, <1>3 DEF Init, LibraryInv, Place, PackedLines, FlushedLines, LoadedBeats,
     DrainedTiles, StoredLines, Unread, ConsumedIsProduced

LEMMA LibraryStutter == LibraryInv /\ UNCHANGED vars => LibraryInv'
<1>. SUFFICES ASSUME LibraryInv, UNCHANGED vars PROVE LibraryInv'
  OBVIOUS
<1>1. UNCHANGED <<actCache, actDdr, outCache, outDdr, actBram, outMem, op, moved, threadVars>>
  BY DEF vars, memVars, engineVars
<1>2. Buffers' /\ Counters'
  BY <1>1 DEF LibraryInv, Buffers, IsOver, Counters, K, threadVars
<1>3. PackedLines' /\ FlushedLines' /\ LoadedBeats' /\ DrainedTiles' /\ StoredLines' /\ Unread'
  BY <1>1 DEF LibraryInv, PackedLines, FlushedLines, LoadedBeats, DrainedTiles, StoredLines,
     Unread, Width, Asked, Vector, Result, Computing, InEngine, Proj, threadVars
<1>. QED
  BY <1>1, <1>2, <1>3, ThreadStill DEF LibraryInv

LEMMA LibraryStep == LibraryInv /\ [Next]_vars => LibraryInv'
  BY LoadBeatStep, ComputeTileStep, StoreLineStep, EvictStep, FillStep, BeginStep, PackStep,
     SyncForDeviceStep, IssueLoadStep, LoadWaitStep, IssueComputeStep, ComputeWaitStep,
     IssueStoreStep, StoreWaitStep, ReadbackStep, FailStep, LibraryStutter
     DEF Next, Engine, Thread

LEMMA LibraryInvariance == Spec => []LibraryInv
  BY LibraryInit, LibraryStep, PTL DEF Spec

\* The buffers, the counters and the loop index stay in their ranges: no
\* projection is packed or read that the cluster does not have.
THEOREM LibraryTypeCorrect == Spec => []TypeOK
<1>1. LibraryInv => TypeOK
  BY DEF LibraryInv, Buffers, IsOver, Counters, K, TypeOK
<1>. QED
  BY <1>1, LibraryInvariance, PTL

\* matmul_seq never issues an operation while another is in the engine.
THEOREM OneAtATime == Spec => []OneOpOutstanding
<1>1. LibraryInv => OneOpOutstanding
  BY DEF LibraryInv, Place, OneOpOutstanding
<1>. QED
  BY <1>1, LibraryInvariance, PTL

\* Whatever the cache evicts or fetches and when, every result matmul_seq hands
\* to consume is the product of that projection's weights with its own vectors.
THEOREM OwnProducts == Spec => []ConsumedIsProduced
<1>1. LibraryInv => ConsumedIsProduced
  BY DEF LibraryInv
<1>. QED
  BY <1>1, LibraryInvariance, PTL

-----------------------------------------------------------------------------
(* What the caller of libmmfree sees is MatmulService.                     *)

\* The last readback ends the cluster, every other one is followed by more work.
LEMMA ReadbackGives == LibraryInv /\ Readback => Matmul!Give
<1>. SUFFICES ASSUME LibraryInv, Readback PROVE Matmul!Give
  OBVIOUS
<1>. DEFINE p       == cluster.projs[read + 1]
            Line(l) == IF outCache[l] # None THEN outCache[l] ELSE outDdr[l]
<1>1. /\ pc = "readback" /\ read' = read + 1 /\ cluster' = cluster
      /\ pc' = IF n > K THEN "idle" ELSE IF n < K THEN "pack" ELSE "computeWait"
      /\ ops' = IF n > K THEN ops + K ELSE ops
      /\ acc' = [r \in Asked |-> [t \in 0 .. p.tiles - 1 |-> Line(r * p.tiles + t)]]
  BY DEF Readback, K, Asked
<1>2. cluster \in Clusters /\ n \in 1 .. K + 1 /\ n > 1 /\ read = n - 2
  BY <1>1 DEF LibraryInv, Place
<1>3. /\ K \in Nat /\ ops \in Nat /\ cluster # None
      /\ read + 1 = n - 1 /\ p = Proj(n - 1) /\ read < K
      /\ n > K <=> read' = K
  BY <1>1, <1>2, ClusterFacts, NoneAssumption DEF LibraryInv, Counters, Proj
<1>4. ASSUME NEW r \in Asked, NEW t \in 0 .. p.tiles - 1
      PROVE  Line(r * p.tiles + t) = [proj |-> p.id, tile |-> t,
                                      x |-> [i \in 1 .. p.N |-> <<ops + read', i, r>>]]
  <2>1. Line(r * p.tiles + t) = Result(n - 1, t, r)
    BY <1>1, <1>2, <1>3 DEF LibraryInv, Unread
  <2>. QED
    BY <1>1, <1>3, <2>1 DEF Result, Vector
<1>5. acc' = Matmul!Answer(p, cluster.b, ops + read')
  BY <1>1, <1>4 DEF Matmul!Answer, Asked
<1>6. Matmul!Answer(cluster.projs[read'], cluster.b, ops + read') = acc'
  BY <1>1, <1>5
<1>. QED
  BY <1>1, <1>3, <1>6 DEF Matmul!Give, K

LEMMA MatmulStep == LibraryInv /\ [Next]_vars => [Matmul!MatmulNext]_Matmul!matmulVars
<1>. SUFFICES ASSUME LibraryInv, [Next]_vars PROVE [Matmul!MatmulNext]_Matmul!matmulVars
  OBVIOUS
<1>1. CASE Engine \/ Evict \/ Fill \/ UNCHANGED vars
  BY <1>1 DEF Engine, LoadBeat, ComputeTile, StoreLine, Evict, Fill, vars, threadVars,
     Matmul!matmulVars
<1>2. CASE Begin
  BY <1>2 DEF Begin, Matmul!MatmulNext, Matmul!Ask
<1>3. CASE Pack \/ SyncForDevice \/ IssueLoad \/ LoadWait \/ IssueCompute \/ ComputeWait
           \/ IssueStore \/ StoreWait
  <2>1. pc # "idle" /\ pc' # "idle" /\ UNCHANGED <<cluster, ops, acc, read>>
    BY <1>3 DEF Pack, SyncForDevice, IssueLoad, LoadWait, IssueCompute, ComputeWait, IssueStore,
       StoreWait
  <2>. QED
    BY <2>1 DEF Matmul!matmulVars
<1>4. CASE Readback
  BY <1>4, ReadbackGives DEF Matmul!MatmulNext
<1>5. CASE Fail
  <2>1. cluster # None
    BY <1>5, NoneAssumption DEF Fail, LibraryInv, Place
  <2>. QED
    BY <1>5, <2>1 DEF Fail, Matmul!MatmulNext, Matmul!Drop
<1>. QED
  BY <1>1, <1>2, <1>3, <1>4, <1>5 DEF Next, Thread

\* Library implements MatmulService: whatever the cache does and whatever failed
\* before, a cluster is answered in order, each projection once, with its product.
THEOREM AnswersInOrder == Spec => MatmulContract
<1>1. Init => Matmul!MatmulInit
  BY DEF Init, Matmul!MatmulInit
<1>. QED
  BY <1>1, MatmulStep, LibraryInvariance, PTL DEF Spec, MatmulContract, Matmul!MatmulSpec

-----------------------------------------------------------------------------
(* What is assumed of the device is CallService.                           *)

Kinds == [kind : {"load", "compute", "store"}, proj : Projs, lines : Nat]

Left == IF op = None THEN <<>> ELSE [c \in {0} |-> op.lines - moved]

\* The lines of an instruction are at least one, and none has been moved yet.
LEMMA IssueBegins ==
  ASSUME NEW kind \in {"load", "compute", "store"}, NEW q \in Projs, NEW lines \in Nat \ {0},
         op = None, Issue(kind, q, lines)
  PROVE  Calls!Begin
<1>1. op' = [kind |-> kind, proj |-> q, lines |-> lines] /\ op' \in Kinds /\ moved' = 0
  BY DEF Issue, Kinds
<1>2. op' # None
  BY <1>1, NoneAssumption DEF Kinds
<1>3. Left' = [c \in {0} |-> lines]
  BY <1>1, <1>2 DEF Left
<1>. QED
  BY <1>2, <1>3 DEF Calls!Begin, Left

LEMMA LineMoves ==
  ASSUME op # None, moved \in Nat, op.lines \in Nat, moved < op.lines, op' = op, moved' = moved + 1
  PROVE  Calls!Move
<1>1. Left = [c \in {0} |-> op.lines - moved] /\ Left' = [c \in {0} |-> (op.lines - moved) - 1]
  BY DEF Left
<1>2. /\ DOMAIN Left = {0} /\ Left[0] > 0 /\ Left # <<>>
      /\ Left' = [c \in DOMAIN Left |-> Left[c] - 1]
  BY <1>1
<1>. QED
  BY <1>2 DEF Calls!Move, Left

LEMMA WaitReturns ==
  ASSUME Finished, op' = None, op.lines \in Nat
  PROVE  Calls!Return
<1>1. Left = [c \in {0} |-> op.lines - moved] /\ op # None /\ moved = op.lines
  BY DEF Left, Finished
<1>2. DOMAIN Left = {0} /\ Left[0] = 0 /\ Left # <<>>
  BY <1>1
<1>. QED
  BY <1>1, <1>2 DEF Calls!Return, Left

LEMMA CallsStep == LibraryInv /\ [Next]_vars => [Calls!CallNext]_Calls!callVars
<1>. SUFFICES ASSUME LibraryInv, [Next]_vars PROVE [Calls!CallNext]_Calls!callVars
  OBVIOUS
<1>1. ASSUME UNCHANGED <<op, moved>> PROVE UNCHANGED Calls!callVars
  BY <1>1 DEF Calls!callVars
<1>2. Place /\ (op # None => moved \in 0 .. op.lines)
  BY DEF LibraryInv, Counters
<1>3. ASSUME op # None PROVE op.lines \in Nat
  <2>1. cluster \in Clusters /\ n \in 1 .. K
    BY <1>2, <1>3, EngineBusy
  <2>2. Width \in Nat /\ Proj(n).tiles \in Nat /\ Batch \in Nat
    BY <2>1, ClusterFacts, LibraryAssumption
  <2>3. op.lines \in {Width, Proj(n).tiles, Batch * Proj(n).tiles}
    BY <1>2, <1>3 DEF InEngine, Computing, Place, NoneAhead, OneAhead
  <2>. QED
    BY <2>2, <2>3
<1>4. CASE Engine
  <2>1. op # None /\ moved < op.lines /\ op' = op /\ moved' = moved + 1
    BY <1>4 DEF Engine, LoadBeat, ComputeTile, StoreLine
  <2>. QED
    BY <1>2, <1>3, <2>1, LineMoves DEF Calls!CallNext
<1>5. CASE Evict \/ Fill \/ Begin \/ Pack \/ SyncForDevice \/ Readback \/ Fail \/ UNCHANGED vars
  BY <1>1, <1>5 DEF Evict, Fill, Begin, Pack, SyncForDevice, Readback, Fail, vars, engineVars
<1>6. CASE IssueLoad \/ IssueCompute \/ IssueStore
  <2>1. op = None /\ cluster \in Clusters /\ n \in 1 .. K /\ packed \in 1 .. K
    BY <1>2, <1>6, ClusterFacts DEF IssueLoad, IssueCompute, IssueStore, Place, LibraryInv, Counters, LastPack
  <2>2. Proj(n) \in Projs /\ Proj(packed) \in Projs
    BY <2>1, LibraryAssumption, ElementOfSeq DEF K, Proj
  <2>3. Proj(packed).N \in Nat \ {0} /\ Proj(n).tiles \in Nat \ {0} /\ Batch \in Nat \ {0}
    BY <2>2, LibraryAssumption
  <2>4. Batch * Proj(n).tiles \in Nat \ {0}
    BY <2>3
  <2>. QED
    BY <1>6, <2>1, <2>2, <2>3, <2>4, IssueBegins
    DEF IssueLoad, IssueCompute, IssueStore, Proj, Calls!CallNext
<1>7. CASE LoadWait \/ ComputeWait \/ StoreWait
  BY <1>3, <1>7, WaitReturns DEF LoadWait, ComputeWait, StoreWait, Finished, Calls!CallNext
<1>. QED
  BY <1>4, <1>5, <1>6, <1>7 DEF Next, Thread

\* What Library takes for granted of the device is what Runtime was shown to
\* implement: calls one at a time, over when their last beat has moved.
THEOREM DeviceIsCallService == Spec => OnlyCalls
<1>1. Init => Calls!CallInit
  BY DEF Init, Calls!CallInit
<1>. QED
  BY <1>1, CallsStep, LibraryInvariance, PTL DEF Spec, OnlyCalls, Calls!CallSpec

=============================================================================
