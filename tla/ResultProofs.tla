---------------------------- MODULE ResultProofs ----------------------------
(***************************************************************************)
(* What becomes of the tiles the array sums up, for every build, every     *)
(* program that fits it and every timing: the drain engine puts each row   *)
(* of a product where the STORE walk looks for it, the store engine sends  *)
(* the rows asked for, and no pointer, counter or queue leaves its range.  *)
(***************************************************************************)
EXTENDS CoreProofs

-----------------------------------------------------------------------------
(* The inductive invariant, over ComputeInv.                               *)

TileRows          == Batch * SubBeats               \* a column tile in the memory
Slot(T, t, bt, s) == (bt * T + t) * SubBeats + s    \* where the rows of T tiles go

\* The output memory when the write in the registered port has landed.
Settled == Landed(mem, wq)
Holds(m, c, t, bt, s) ==
  m[Slot(ColTiles(prog[c].dim1), t, bt, s)] = <<Product(c, t), bt * SubBeats + s>>
HoldsAll(m, c) ==
  \A t \in 0 .. ColTiles(prog[c].dim1) - 1, bt \in 0 .. Batch - 1, s \in 0 .. SubBeats - 1 :
    Holds(m, c, t, bt, s)

\* Tiles captured so far; rows of the one in the drain engine written so far.
Captured == IF cState \in {"cReset", "cDone"} THEN colTile + 1 ELSE colTile
Pos      == drainBatch * SubBeats + drainSub

TileRow == Seq((Nat \X Nat) \X (Nat \X Nat)) \X Nat
\* q is the rows of tile t of COMPUTE c from row k0 on.
IsRows(q, c, t, k0) ==
  /\ q \in Seq(TileRow) /\ Len(q) = TileRows - k0
  /\ \A k \in 1 .. Len(q) : q[k] = <<Product(c, t), k0 + k - 1>>

\* A write waits in the port only while the flush counter runs.
Memory ==
  /\ DOMAIN mem = 0 .. MemRows - 1
  /\ Style = "block" => wq = None
  /\ wq # None => drainFlush # 0

Draining ==
  /\ drainBusy \in BOOLEAN /\ drainFlush \in Nat
  /\ drainSub \in 0 .. SubBeats - 1 /\ drainBatch \in 0 .. Batch - 1
  /\ state # "sCompute" => drainFlush = 0
  /\ drainBusy => /\ state = "sCompute" /\ cState # "cInit"
                  /\ drainTile \in 0 .. tiles - 1 /\ drainTile + 1 = Captured
                  /\ IsRows(tileAccums, Taken, drainTile, Pos)

Written(t, bt, s) == t < Captured /\ (drainBusy /\ t = drainTile => bt * SubBeats + s < Pos)
Results ==
  IF state = "sCompute"
  THEN \A t \in 0 .. tiles - 1, bt \in 0 .. Batch - 1, s \in 0 .. SubBeats - 1 :
         Written(t, bt, s) => Holds(Settled, Taken, t, bt, s)
  ELSE Latest("COMPUTE_MM", Taken) # 0 => HoldsAll(Settled, Latest("COMPUTE_MM", Taken))

OutputInv == Narrow(config, prog) /\ Memory /\ Draining /\ Results
LandedInv == ComputeInv /\ OutputInv

-----------------------------------------------------------------------------
(* Addresses.                                                              *)

LEMMA MulStep ==
  ASSUME NEW i \in Nat, NEW j \in Nat, NEW N \in Nat, i < j
  PROVE  i * N \in Nat /\ j * N \in Nat /\ (i + 1) * N = i * N + N /\ i * N + N <= j * N
<1>. DEFINE d == j - (i + 1)
<1>1. d \in Nat /\ j = (i + 1) + d
  OBVIOUS
<1>. HIDE DEF d
<1>2. d * N \in Nat /\ i * N \in Nat /\ j * N \in Nat /\ (i + 1) * N = i * N + N
  BY <1>1
<1>3. j * N = (i + 1) * N + d * N
  BY <1>1
<1>. QED
  BY <1>2, <1>3

LEMMA MulMono ==
  ASSUME NEW i \in Nat, NEW j \in Nat, NEW N \in Nat, i <= j
  PROVE  i * N <= j * N /\ N * i <= N * j
<1>1. i * N = N * i /\ j * N = N * j /\ i * N \in Nat /\ j * N \in Nat
  OBVIOUS
<1>2. i * N <= j * N
  BY <1>1, MulStep
<1>. QED
  BY <1>1, <1>2

LEMMA DivModSame ==
  ASSUME NEW N \in Nat \ {0}, NEW q1 \in Nat, NEW q2 \in Nat,
         NEW m1 \in 0 .. N - 1, NEW m2 \in 0 .. N - 1, q1 * N + m1 = q2 * N + m2
  PROVE  q1 = q2 /\ m1 = m2
<1>1. q1 * N \in Nat /\ q2 * N \in Nat
  OBVIOUS
<1>2. ASSUME q1 < q2 PROVE FALSE
  <2>1. q1 * N + N <= q2 * N
    BY <1>2, MulStep
  <2>. QED
    BY <1>1, <2>1
<1>3. ASSUME q2 < q1 PROVE FALSE
  <2>1. q2 * N + N <= q1 * N
    BY <1>3, MulStep
  <2>. QED
    BY <1>1, <2>1
<1>4. q1 = q2
  BY <1>2, <1>3
<1>. QED
  BY <1>1, <1>4

LEMMA DivMod ==
  ASSUME NEW k \in Nat, NEW N \in Nat \ {0}
  PROVE  k \div N \in Nat /\ k % N \in 0 .. N - 1 /\ k = (k \div N) * N + (k % N)
<1>1. k = N * (k \div N) + (k % N) /\ k \div N \in Nat /\ k % N \in 0 .. N - 1
  OBVIOUS
<1>. QED
  BY <1>1

LEMMA DivMono ==
  ASSUME NEW N \in Nat \ {0}, NEW i \in Nat, NEW j \in Nat, i <= j
  PROVE  i \div N \in Nat /\ j \div N \in Nat /\ i \div N <= j \div N
<1>. DEFINE qi == i \div N
            qj == j \div N
            mi == i % N
            mj == j % N
<1>2. /\ qi \in Nat /\ qj \in Nat /\ mi \in 0 .. N - 1 /\ mj \in 0 .. N - 1
      /\ i = qi * N + mi /\ j = qj * N + mj
  BY DivMod
<1>. HIDE DEF qi, qj, mi, mj
<1>3. ASSUME qj < qi PROVE FALSE
  <2>1. qj * N + N <= qi * N /\ qi * N \in Nat /\ qj * N \in Nat
    BY <1>2, <1>3, MulStep
  <2>. QED
    BY <1>2, <2>1
<1>4. qi <= qj
  BY <1>2, <1>3
<1>. QED
  BY <1>2, <1>4 DEF qi, qj

LEMMA BuildFacts ==
  ASSUME config \in Configs
  PROVE  /\ SubBeats \in Nat \ {0} /\ Batch \in Nat \ {0}
         /\ ColTiles(config.maxM) \in Nat \ {0}
         /\ MemRows \in Nat \ {0} /\ RowMod \in Nat /\ MemRows <= RowMod
         /\ \A m \in Nat : m <= config.maxM => ColTiles(m) <= ColTiles(config.maxM)
<1>. DEFINE lanes == config.xDim * (config.aWidth \div 2)
            beat  == Derived(config).outBeatLanes
<1>1. /\ config.maxM \in Nat /\ config.batch \in Nat /\ config.outBeatLanes \in Nat
      /\ config.xDim \in Nat /\ config.aWidth \in Nat
      /\ config.batch * NumColTiles(Derived(config), config.maxM)
           * (Derived(config).outLanesPerTile \div beat) <= 2^MaxLog
      /\ Elaborates(config)
  BY BuildAssumption
<1>2. /\ config.batch >= 1 /\ config.maxM >= 1 /\ config.xDim >= 1 /\ config.aWidth >= 2
      /\ lanes % beat = 0
  BY <1>1 DEF Elaborates, Derived
<1>3. lanes \in Nat \ {0}
  <2>1. config.aWidth \div 2 \in Nat \ {0}
    BY <1>1, <1>2
  <2>. QED
    BY <1>1, <1>2, <2>1
<1>4. beat \in Nat \ {0}
  <2>1. beat = IF config.outBeatLanes = 0 THEN lanes ELSE config.outBeatLanes
    BY DEF Derived
  <2>. QED
    BY <1>1, <1>3, <2>1
<1>5. Derived(config).outLanesPerTile = lanes
  BY DEF Derived
<1>. HIDE DEF lanes, beat
<1>6. lanes \div beat \in Nat \ {0}
  <2>1. lanes = beat * (lanes \div beat) /\ lanes \div beat \in Nat
    BY <1>2, <1>3, <1>4
  <2>2. lanes \div beat # 0
    <3>1. beat * 0 = 0
      BY <1>4
    <3>. QED
      BY <1>3, <2>1, <3>1
  <2>. QED
    BY <2>1, <2>2
<1>7. SubBeats = lanes \div beat /\ Batch = config.batch
  BY <1>5 DEF SubBeats, LanesPerTile, BeatLanes, Batch, beat
<1>8. ColTiles(config.maxM) \in Nat \ {0}
  BY <1>1, <1>2, ConfigFacts
<1>9. MemRows \in Nat \ {0} /\ MemRows <= 2^MaxLog
  <2>1. MemRows = Batch * ColTiles(config.maxM) * SubBeats
    BY DEF MemRows
  <2>2. Batch * ColTiles(config.maxM) \in Nat \ {0}
    BY <1>1, <1>2, <1>7, <1>8
  <2>3. MemRows \in Nat \ {0}
    BY <1>6, <1>7, <2>1, <2>2
  <2>4. MemRows <= 2^MaxLog
    BY <1>1, <1>5, <1>7, <2>1 DEF ColTiles
  <2>. QED
    BY <2>3, <2>4
<1>10. RowMod \in Nat /\ MemRows <= RowMod
  <2>. DEFINE e == Log2Ceil(MemRows)
  <2>1. 2^MaxLog \in Int
    BY DEF MaxLog
  <2>2. e \in 0 .. MaxLog /\ 2^e >= MemRows
    BY <1>9, <2>1, LogExists
  <2>3. e \in Nat
    BY <2>2 DEF MaxLog
  <2>. HIDE DEF e
  <2>4. 2^e \in Int
    BY <2>3
  <2>5. 2^e \in Nat /\ 2^e >= MemRows
    BY <1>9, <2>2, <2>4
  <2>. QED
    BY <2>5 DEF e, RowMod, NextPow2
<1>11. ASSUME NEW m \in Nat, m <= config.maxM PROVE ColTiles(m) <= ColTiles(config.maxM)
  <2>1. ASSUME NEW k \in Nat PROVE ColTiles(k) = (k + lanes - 1) \div lanes
    BY <1>5 DEF ColTiles, NumColTiles, CeilDiv
  <2>2. m + lanes - 1 \in Nat /\ config.maxM + lanes - 1 \in Nat
        /\ m + lanes - 1 <= config.maxM + lanes - 1
    BY <1>1, <1>3, <1>11
  <2>. QED
    BY <1>1, <1>3, <2>1, <2>2, DivMono
<1>. QED
  BY <1>1, <1>2, <1>6, <1>7, <1>8, <1>9, <1>10, <1>11

\* Row of a product of at most the widest shape has an address of its own.
LEMMA SlotRange ==
  ASSUME config \in Configs, NEW T \in Nat, T <= ColTiles(config.maxM),
         NEW t \in 0 .. T - 1, NEW bt \in 0 .. Batch - 1, NEW s \in 0 .. SubBeats - 1
  PROVE  /\ Slot(T, t, bt, s) \in 0 .. MemRows - 1
         /\ Slot(T, t, bt, s) % RowMod = Slot(T, t, bt, s)
         /\ bt * SubBeats + s \in 0 .. TileRows - 1
<1>. DEFINE a == bt * T + t
            W == ColTiles(config.maxM)
<1>1. /\ SubBeats \in Nat \ {0} /\ Batch \in Nat \ {0} /\ W \in Nat /\ MemRows \in Nat
      /\ RowMod \in Nat /\ MemRows <= RowMod /\ MemRows = (Batch * W) * SubBeats
      /\ bt \in Nat /\ t \in Nat /\ s \in Nat /\ bt < Batch /\ t < T
  BY BuildFacts DEF MemRows
<1>. HIDE DEF W
<1>2. bt * T + T <= Batch * T /\ bt * T \in Nat /\ Batch * T \in Nat
  BY <1>1, MulStep
<1>3. Batch * T <= Batch * W /\ Batch * W \in Nat
  BY <1>1, MulMono DEF W
<1>4. a \in Nat /\ a < Batch * W
  BY <1>1, <1>2, <1>3
<1>. HIDE DEF a
<1>5. a * SubBeats + SubBeats <= (Batch * W) * SubBeats /\ a * SubBeats \in Nat
  BY <1>1, <1>3, <1>4, MulStep
<1>6. a * SubBeats + s \in 0 .. MemRows - 1
  BY <1>1, <1>5
<1>7. Slot(T, t, bt, s) = a * SubBeats + s
  BY DEF Slot, a
<1>8. Slot(T, t, bt, s) % RowMod = Slot(T, t, bt, s)
  <2>1. a * SubBeats + s \in Nat /\ RowMod \in Nat \ {0} /\ a * SubBeats + s < RowMod
    BY <1>1, <1>6
  <2>. QED
    BY <1>7, <2>1, ModBelow
<1>9. bt * SubBeats + SubBeats <= Batch * SubBeats /\ bt * SubBeats \in Nat
      /\ Batch * SubBeats \in Nat
  BY <1>1, MulStep
<1>10. bt * SubBeats + s \in 0 .. TileRows - 1
  BY <1>1, <1>9 DEF TileRows
<1>. QED
  BY <1>6, <1>7, <1>8, <1>10

LEMMA SlotInjective ==
  ASSUME config \in Configs, NEW T \in Nat,
         NEW t1 \in 0 .. T - 1, NEW b1 \in 0 .. Batch - 1, NEW s1 \in 0 .. SubBeats - 1,
         NEW t2 \in 0 .. T - 1, NEW b2 \in 0 .. Batch - 1, NEW s2 \in 0 .. SubBeats - 1,
         Slot(T, t1, b1, s1) = Slot(T, t2, b2, s2)
  PROVE  t1 = t2 /\ b1 = b2 /\ s1 = s2
<1>. DEFINE a1 == b1 * T + t1
            a2 == b2 * T + t2
<1>1. /\ SubBeats \in Nat \ {0} /\ T \in Nat \ {0} /\ Batch \in Nat
      /\ b1 \in Nat /\ b2 \in Nat /\ t1 \in Nat /\ t2 \in Nat
  BY BuildFacts
<1>2. a1 \in Nat /\ a2 \in Nat
  BY <1>1
<1>3. a1 * SubBeats + s1 = a2 * SubBeats + s2
  BY DEF Slot
<1>. HIDE DEF a1, a2
<1>4. a1 = a2 /\ s1 = s2
  BY <1>1, <1>2, <1>3, DivModSame
<1>5. b1 * T + t1 = b2 * T + t2
  BY <1>4 DEF a1, a2
<1>6. b1 = b2 /\ t1 = t2
  BY <1>1, <1>5, DivModSame
<1>. QED
  BY <1>4, <1>6

-----------------------------------------------------------------------------
(* The write port, and the drain engine when it rests.                     *)

LEMMA SameBuild ==
  ASSUME config' = config
  PROVE  /\ SubBeats' = SubBeats /\ Batch' = Batch /\ MemRows' = MemRows /\ TileRows' = TileRows
         /\ Style' = Style
         /\ \A m : ColTiles(m)' = ColTiles(m)
<1>1. SubBeats' = SubBeats /\ Batch' = Batch
  BY DEF SubBeats, LanesPerTile, BeatLanes, Batch
<1>2. \A m : ColTiles(m)' = ColTiles(m)
  BY DEF ColTiles
<1>3. ColTiles(config.maxM)' = ColTiles(config.maxM)
  BY DEF ColTiles
<1>. QED
  BY <1>1, <1>2, <1>3 DEF MemRows, TileRows, Style

LEMMA PortStep ==
  ASSUME Memory, WritePort(DrainWrite), DrainFlush, config' = config
  PROVE  Settled' = Landed(Settled, DrainWrite) /\ Memory'
<1>1. Style' = Style /\ MemRows' = MemRows /\ Style \in {"ultra", "block"}
  BY SameBuild DEF Style
<1>2. DrainWrite # None => drainBusy
  BY DEF DrainWrite
<1>3. CASE Style = "ultra"
  <2>1. wq' = DrainWrite /\ mem' = Landed(mem, wq)
    BY <1>3 DEF WritePort
  <2>2. Settled' = Landed(Settled, DrainWrite)
    BY <2>1 DEF Settled, Landed
  <2>3. DOMAIN mem' = DOMAIN mem
    BY <2>1 DEF Landed
  <2>4. wq' # None => drainFlush' # 0
    BY <1>2, <1>3, <2>1 DEF DrainFlush, WriteLat
  <2>. QED
    BY <1>1, <1>3, <2>2, <2>3, <2>4 DEF Memory
<1>4. CASE Style = "block"
  <2>1. wq = None /\ wq' = None /\ mem' = Landed(mem, DrainWrite)
    BY <1>4 DEF WritePort, Memory
  <2>2. Settled' = Landed(Settled, DrainWrite)
    BY <2>1 DEF Settled, Landed
  <2>3. DOMAIN mem' = DOMAIN mem
    BY <2>1 DEF Landed
  <2>. QED
    BY <1>1, <2>1, <2>2, <2>3 DEF Memory
<1>. QED
  BY <1>1, <1>3, <1>4

LEMMA RestStep ==
  ASSUME Draining, ~drainBusy, ~Capture, Memory, WritePort(DrainWrite), Drain, DrainFlush,
         config' = config
  PROVE  /\ Settled' = Settled /\ Memory' /\ drainBusy' = FALSE
         /\ drainFlush' \in Nat /\ (drainFlush = 0 => drainFlush' = 0)
         /\ state' = "sCompute" \/ drainFlush' = 0 => Draining'
<1>1. DrainWrite = None
  BY DEF DrainWrite
<1>2. Settled' = Settled /\ Memory'
  BY <1>1, PortStep DEF Landed
<1>3. drainBusy' = FALSE /\ drainSub' = drainSub /\ drainBatch' = drainBatch
  BY DEF Drain, Draining
<1>4. drainFlush' \in Nat /\ (drainFlush = 0 => drainFlush' = 0)
  BY DEF DrainFlush, Draining
<1>5. SubBeats' = SubBeats /\ Batch' = Batch
  BY SameBuild
<1>. QED
  BY <1>2, <1>3, <1>4, <1>5 DEF Draining

-----------------------------------------------------------------------------
(* Outside sCompute nothing is written.                                    *)

LEMMA HoldsKept ==
  ASSUME prog' = prog, config' = config, Settled' = Settled, NEW c
  PROVE  HoldsAll(Settled, c)' <=> HoldsAll(Settled, c)
<1>1. /\ SubBeats' = SubBeats /\ Batch' = Batch
      /\ ColTiles(prog[c].dim1)' = ColTiles(prog[c].dim1)
  BY SameBuild DEF ColTiles
<1>2. ASSUME NEW t PROVE Product(c, t)' = Product(c, t)
  BY DEF Product, Latest
<1>. QED
  BY <1>1, <1>2 DEF HoldsAll, Holds, Slot

LEMMA LatestKept ==
  ASSUME prog' = prog, Taken \in Nat,
         Taken' = Taken \/ (Taken' = Taken + 1 /\ prog[Taken + 1].op # "COMPUTE_MM")
  PROVE  Latest("COMPUTE_MM", Taken)' = Latest("COMPUTE_MM", Taken)
<1>. DEFINE Kind(i) == {j \in 1 .. i : prog[j].op = "COMPUTE_MM"}
<1>1. Kind(Taken') = Kind(Taken)
  OBVIOUS
<1>2. Latest("COMPUTE_MM", Taken)' = Max({0} \cup Kind(Taken'))
  BY DEF Latest
<1>3. Latest("COMPUTE_MM", Taken) = Max({0} \cup Kind(Taken))
  BY DEF Latest
<1>. QED
  BY <1>1, <1>2, <1>3

LEMMA OutsideCompute ==
  ASSUME OutputInv, Taken \in Nat, state # "sCompute",
         WritePort(DrainWrite), Drain, DrainFlush, prog' = prog, config' = config,
         \/ /\ state' # "sCompute"
            /\ Taken' = Taken \/ (Taken' = Taken + 1 /\ prog[Taken + 1].op # "COMPUTE_MM")
         \/ state' = "sCompute" /\ cState' = "cInit" /\ colTile' = 0
  PROVE  OutputInv'
<1>1. ~drainBusy /\ ~Capture /\ drainFlush = 0
  BY DEF OutputInv, Draining, Capture, OutPending, Streaming
<1>2. Settled' = Settled /\ Memory' /\ Draining'
  BY <1>1, RestStep DEF OutputInv
<1>3. Narrow(config, prog)'
  BY DEF OutputInv, Narrow
<1>4. Results'
  <2>1. CASE state' # "sCompute"
    <3>1. Latest("COMPUTE_MM", Taken)' = Latest("COMPUTE_MM", Taken)
      BY <2>1, LatestKept
    <3>2. ASSUME NEW c PROVE HoldsAll(Settled, c)' <=> HoldsAll(Settled, c)
      BY <1>2, HoldsKept
    <3>. DEFINE c == Latest("COMPUTE_MM", Taken)
    <3>3. c # 0 => HoldsAll(Settled, c)
      BY DEF OutputInv, Results
    <3>. QED
      BY <2>1, <3>1, <3>2, <3>3 DEF Results
  <2>2. CASE state' = "sCompute"
    <3>1. Captured' = 0
      BY <2>2 DEF Captured
    <3>2. ASSUME NEW t \in Nat PROVE ~(t < 0)
      BY <3>2
    <3>. QED
      BY <2>2, <3>1, <3>2 DEF Results, Written
  <2>. QED
    BY <2>1, <2>2
<1>. QED
  BY <1>2, <1>3, <1>4 DEF OutputInv

-----------------------------------------------------------------------------
(* sCompute.                                                               *)

\* The COMPUTE in execution fits the output memory.
LEMMA ShapeFacts ==
  ASSUME ComputeInv, Narrow(config, prog), state = "sCompute"
  PROVE  /\ config \in Configs /\ Taken \in Nat /\ Taken \in 1 .. Len(prog)
         /\ prog[Taken].op = "COMPUTE_MM" /\ Latest("COMPUTE_MM", Taken) = Taken /\ Taken # 0
         /\ tiles = ColTiles(prog[Taken].dim1) /\ tiles \in Nat /\ tiles <= ColTiles(config.maxM)
         /\ colTile \in 0 .. tiles - 1
<1>1. /\ Taken \in Nat /\ Taken \in 1 .. Len(prog) /\ prog[Taken] \in Operation
      /\ config \in Configs /\ tiles \in Nat
  <2>1. Taken \in 1 .. Len(prog) /\ Taken \in Nat
    BY TakenFacts DEF ComputeInv, CompositionInv, Operands
  <2>. QED
    BY <2>1, OperationFacts, ComputeFacts DEF ComputeInv, CompositionInv
<1>2. /\ prog[Taken].op = "COMPUTE_MM" /\ tiles = ColTiles(prog[Taken].dim1)
      /\ colTile \in 0 .. tiles - 1
  BY DEF ComputeInv, DataInv, Tiling
<1>3. Latest("COMPUTE_MM", Taken) = Taken
  <2>1. Taken \in 1 .. Taken /\ \A k \in Taken + 1 .. Taken : prog[k].op # "COMPUTE_MM"
    BY <1>1
  <2>. QED
    BY <1>1, <1>2, <2>1, LatestIs
<1>4. prog[Taken].dim1 \in Nat /\ prog[Taken].dim1 <= config.maxM
  BY <1>1, <1>2 DEF Narrow, Operation
<1>. QED
  BY <1>1, <1>2, <1>3, <1>4, BuildFacts

\* What the array hands over is the product's column tile.
LEMMA CapturedTile ==
  ASSUME ComputeInv, state = "sCompute", Capture
  PROVE  accum = Product(Taken, colTile) /\ accum \in Seq((Nat \X Nat) \X (Nat \X Nat))
<1>. DEFINE l == Latest("LOAD_ACT", Taken)
<1>1. /\ cState = "cStream" /\ Len(accum) = rows
  BY DEF Capture, OutPending, Streaming, OutputValid, ComputeInv, DataInv, Array
<1>2. IsPairs(accum, Taken, l, rows, colTile * rows)
  BY <1>1 DEF ComputeInv, DataInv, Queued, Base
<1>3. rows = prog[Taken].dim0
  BY DEF ComputeInv, DataInv, Tiling
<1>4. rows \in Nat \ {0} /\ colTile \in Nat
  BY ComputeFacts DEF ComputeInv
<1>. HIDE DEF l
<1>5. ASSUME NEW k \in 1 .. rows
      PROVE  accum[k] = <<<<Taken, colTile * rows + k - 1>>, <<l, k - 1>>>>
  <2>1. accum[k] = Pair(Taken, l, rows, colTile * rows + k - 1)
    BY <1>1, <1>2 DEF IsPairs
  <2>2. (colTile * rows + k - 1) % rows = k - 1
    <3>1. colTile * rows + k - 1 = rows * colTile + (k - 1) /\ k - 1 \in 0 .. rows - 1
      BY <1>4
    <3>. QED
      BY <1>4, <3>1, ModIs
  <2>. QED
    BY <2>1, <2>2 DEF Pair
<1>6. accum \in Seq((Nat \X Nat) \X (Nat \X Nat))
  BY <1>2 DEF IsPairs
<1>7. accum = [k \in 1 .. rows |-> accum[k]]
  BY <1>1, <1>6
<1>8. accum = [k \in 1 .. rows |-> <<<<Taken, colTile * rows + k - 1>>, <<l, k - 1>>>>]
  BY <1>5, <1>7
<1>. QED
  BY <1>3, <1>6, <1>8 DEF Product, l

\* The tiles captured, against the states of the sub-FSM.
LEMMA CapturedStep ==
  ASSUME ComputeInv, state = "sCompute", Compute
  PROVE  /\ Captured' = IF Capture THEN Captured + 1 ELSE Captured
         /\ Capture => Captured = colTile /\ cState' # "cInit" /\ state' = "sCompute"
         /\ tiles' = tiles /\ cState' # "cInit"
         /\ Captured \in 0 .. tiles /\ tiles \in Nat
         /\ \/ state' = "sCompute"
            \/ state' = "sIdle" /\ ComputeDone /\ Captured = tiles
<1>1. /\ cState \in {"cInit", "cStream", "cReset", "cDone"} /\ colTile \in 0 .. tiles - 1
      /\ cState = "cDone" => colTile + 1 = tiles
  BY DEF ComputeInv, DataInv, Tiling
<1>2. tiles \in Nat
  BY ComputeFacts DEF ComputeInv
<1>3. Capture => cState = "cStream"
  BY DEF Capture, OutPending, Streaming
<1>4. tiles' = tiles /\ (ComputeInit \/ ComputeStream \/ ComputeReset \/ ComputeFinish)
  BY DEF Compute
<1>5. CASE cState = "cInit"
  BY <1>1, <1>2, <1>3, <1>4, <1>5 DEF ComputeInit, ComputeStream, ComputeReset, ComputeFinish, Captured
<1>6. CASE cState = "cStream"
  BY <1>1, <1>2, <1>3, <1>4, <1>6 DEF ComputeInit, ComputeStream, ComputeReset, ComputeFinish, Captured
<1>7. CASE cState = "cReset"
  BY <1>1, <1>2, <1>3, <1>4, <1>7 DEF ComputeInit, ComputeStream, ComputeReset, ComputeFinish, Captured
<1>8. CASE cState = "cDone"
  BY <1>1, <1>2, <1>3, <1>4, <1>8 DEF ComputeInit, ComputeStream, ComputeReset, ComputeFinish, Captured
<1>. QED
  BY <1>1, <1>5, <1>6, <1>7, <1>8

\* The rows in the drain engine: all of the tile, then one less each cycle.
LEMMA RowsLoaded ==
  ASSUME NEW c \in Nat, NEW t \in Nat, config \in Configs,
         NEW p \in Seq((Nat \X Nat) \X (Nat \X Nat)), p = Product(c, t)
  PROVE  IsRows([k \in 1 .. TileRows |-> <<p, k - 1>>], c, t, 0)
<1>. DEFINE q == [k \in 1 .. TileRows |-> <<p, k - 1>>]
<1>1. TileRows \in Nat
  BY BuildFacts DEF TileRows
<1>2. \A k \in 1 .. TileRows : <<p, k - 1>> \in TileRow
  BY <1>1 DEF TileRow
<1>3. q \in Seq(TileRow) /\ Len(q) = TileRows
  BY <1>1, <1>2
<1>4. \A k \in 1 .. TileRows : q[k] = <<Product(c, t), 0 + k - 1>>
  BY <1>1
<1>. QED
  BY <1>1, <1>3, <1>4 DEF IsRows

LEMMA RowsTail ==
  ASSUME NEW q, NEW c, NEW t, NEW k0 \in Nat, TileRows \in Nat, k0 < TileRows, IsRows(q, c, t, k0)
  PROVE  Head(q) = <<Product(c, t), k0>> /\ IsRows(Tail(q), c, t, k0 + 1)
<1>1. q \in Seq(TileRow) /\ Len(q) = TileRows - k0 /\ Len(q) \in Nat \ {0} /\ Head(q) = q[1]
      /\ q # <<>>
  BY EmptySeq DEF IsRows
<1>2. /\ Tail(q) \in Seq(TileRow) /\ Len(Tail(q)) = Len(q) - 1
      /\ \A i \in 1 .. Len(Tail(q)) : Tail(q)[i] = q[i + 1]
  BY <1>1, HeadTailProperties
<1>3. ASSUME NEW i \in 1 .. Len(Tail(q)) PROVE Tail(q)[i] = <<Product(c, t), k0 + 1 + i - 1>>
  <2>1. i + 1 \in 1 .. Len(q) /\ k0 + (i + 1) - 1 = k0 + 1 + i - 1
    BY <1>1, <1>2
  <2>. QED
    BY <1>2, <2>1 DEF IsRows
<1>4. Head(q) = <<Product(c, t), k0>>
  <2>1. 1 \in 1 .. Len(q) /\ k0 + 1 - 1 = k0
    BY <1>1
  <2>. QED
    BY <1>1, <2>1 DEF IsRows
<1>5. Len(Tail(q)) = TileRows - (k0 + 1)
  BY <1>1, <1>2
<1>. QED
  BY <1>2, <1>3, <1>4, <1>5 DEF IsRows

\* The counters walk the tile row by row.
LEMMA PosStep ==
  ASSUME config \in Configs, config' = config, Draining, drainBusy, ~Capture, Drain
  PROVE  /\ Pos \in 0 .. TileRows - 1 /\ TileRows \in Nat
         /\ tileAccums' = Tail(tileAccums) /\ drainTile' = drainTile /\ drainBusy' \in BOOLEAN
         /\ drainSub' \in 0 .. SubBeats - 1 /\ drainBatch' \in 0 .. Batch - 1
         /\ IF drainBusy' THEN Pos' = Pos + 1 ELSE Pos = TileRows - 1
<1>. DEFINE S == SubBeats
            B == Batch
<1>1. /\ S \in Nat \ {0} /\ B \in Nat \ {0} /\ S' = S /\ B' = B /\ TileRows = B * S
      /\ drainSub \in 0 .. S - 1 /\ drainBatch \in 0 .. B - 1
  BY BuildFacts, SameBuild DEF TileRows, Draining
<1>2. /\ tileAccums' = Tail(tileAccums) /\ drainTile' = drainTile
      /\ drainSub' = IF LastSub THEN 0 ELSE drainSub + 1
      /\ drainBatch' = IF ~LastSub THEN drainBatch ELSE IF LastBatch THEN 0 ELSE drainBatch + 1
      /\ drainBusy' = ~(LastSub /\ LastBatch)
  BY DEF Drain
<1>3. (LastSub <=> drainSub + 1 = S) /\ (LastBatch <=> drainBatch + 1 = B)
  BY DEF LastSub, LastBatch
<1>4. Pos = drainBatch * S + drainSub /\ Pos' = drainBatch' * S + drainSub'
  BY <1>1 DEF Pos
<1>. HIDE DEF S, B
<1>5. /\ drainBatch * S \in Nat /\ B * S \in Nat /\ (drainBatch + 1) * S = drainBatch * S + S
      /\ drainBatch * S + S <= B * S
  BY <1>1, MulStep
<1>6. Pos \in 0 .. TileRows - 1 /\ TileRows \in Nat
  BY <1>1, <1>4, <1>5
<1>7. CASE ~LastSub
  <2>1. drainSub' = drainSub + 1 /\ drainBatch' = drainBatch /\ drainBusy' = TRUE
    BY <1>2, <1>7
  <2>2. drainSub + 1 \in 0 .. S - 1
    BY <1>1, <1>3, <1>7
  <2>3. Pos' = Pos + 1
    BY <1>1, <1>4, <1>5, <2>1
  <2>. QED
    BY <1>1, <1>2, <1>6, <2>1, <2>2, <2>3 DEF S, B
<1>8. CASE LastSub /\ ~LastBatch
  <2>1. drainSub' = 0 /\ drainBatch' = drainBatch + 1 /\ drainBusy' = TRUE /\ drainSub + 1 = S
    BY <1>2, <1>3, <1>8
  <2>2. drainBatch + 1 \in 0 .. B - 1 /\ 0 \in 0 .. S - 1
    BY <1>1, <1>3, <1>8
  <2>3. Pos' = Pos + 1
    BY <1>1, <1>4, <1>5, <2>1
  <2>. QED
    BY <1>1, <1>2, <1>6, <2>1, <2>2, <2>3 DEF S, B
<1>9. CASE LastSub /\ LastBatch
  <2>1. drainSub' = 0 /\ drainBatch' = 0 /\ drainBusy' = FALSE
        /\ drainSub + 1 = S /\ drainBatch + 1 = B
    BY <1>2, <1>3, <1>9
  <2>2. 0 \in 0 .. B - 1 /\ 0 \in 0 .. S - 1
    BY <1>1
  <2>3. B * S = drainBatch * S + S
    BY <1>5, <2>1
  <2>4. Pos = TileRows - 1
    BY <1>1, <1>4, <1>5, <2>1, <2>3
  <2>. QED
    BY <1>1, <1>2, <1>6, <2>1, <2>2, <2>4 DEF S, B
<1>. QED
  BY <1>7, <1>8, <1>9

\* A row written is one more row held, and overwrites none of the others.
LEMMA WriteStep ==
  ASSUME ComputeInv, OutputInv, state = "sCompute", drainBusy, ~Capture, Drain,
         WritePort(DrainWrite), DrainFlush, config' = config, Captured' = Captured,
         NEW t \in 0 .. tiles - 1, NEW bt \in 0 .. Batch - 1, NEW s \in 0 .. SubBeats - 1,
         Written(t, bt, s)'
  PROVE  Settled'[Slot(tiles, t, bt, s)] = <<Product(Taken, t), bt * SubBeats + s>>
<1>. DEFINE addr == Slot(tiles, drainTile, drainBatch, drainSub)
            a    == Slot(tiles, t, bt, s)
            k    == bt * SubBeats + s
<1>1. /\ config \in Configs /\ tiles \in Nat /\ tiles <= ColTiles(config.maxM)
      /\ tiles = ColTiles(prog[Taken].dim1)
  BY ShapeFacts DEF OutputInv
<1>2. /\ drainTile \in 0 .. tiles - 1 /\ drainSub \in 0 .. SubBeats - 1
      /\ drainBatch \in 0 .. Batch - 1 /\ IsRows(tileAccums, Taken, drainTile, Pos)
      /\ Draining /\ Memory
  BY DEF OutputInv, Draining
<1>3. /\ Pos \in 0 .. TileRows - 1 /\ TileRows \in Nat /\ drainTile' = drainTile
      /\ drainBusy' \in BOOLEAN /\ IF drainBusy' THEN Pos' = Pos + 1 ELSE Pos = TileRows - 1
  BY <1>1, <1>2, PosStep
<1>4. Head(tileAccums) = <<Product(Taken, drainTile), Pos>>
  <2>1. Pos \in Nat /\ Pos < TileRows
    BY <1>3
  <2>. QED
    BY <1>2, <1>3, <2>1, RowsTail
<1>5. addr % RowMod = addr
  BY <1>1, <1>2, SlotRange
<1>6. DrainWrite = [addr |-> addr, data |-> Head(tileAccums)] /\ DrainWrite # None
  <2>1. DrainWrite = [addr |-> addr, data |-> Head(tileAccums)]
    BY <1>5 DEF DrainWrite, Slot
  <2>2. addr \in Nat
    BY <1>1, <1>2, SlotRange
  <2>3. Head(tileAccums) \in TileRow
    <3>1. tileAccums \in Seq(TileRow) /\ Len(tileAccums) > 0
      BY <1>2, <1>3 DEF IsRows
    <3>. QED
      BY <3>1
  <2>4. None \notin [addr : Nat, data : TileRow]
    BY SystemAssumption DEF TileRow
  <2>5. [addr |-> addr, data |-> Head(tileAccums)] \in [addr : Nat, data : TileRow]
    BY <2>2, <2>3
  <2>. QED
    BY <2>1, <2>4, <2>5
<1>7. /\ a \in 0 .. MemRows - 1 /\ k \in 0 .. TileRows - 1
  BY <1>1, SlotRange
<1>8. a \in DOMAIN Settled
  BY <1>2, <1>7 DEF Settled, Landed, Memory
<1>9. Settled'[a] = IF a = addr THEN Head(tileAccums) ELSE Settled[a]
  <2>1. Settled' = Landed(Settled, DrainWrite)
    BY <1>2, PortStep
  <2>. QED
    BY <1>6, <1>8, <2>1 DEF Landed
<1>10. t < Captured /\ (drainBusy' /\ t = drainTile => k < Pos')
  BY <1>3, SameBuild DEF Written
<1>11. CASE t = drainTile /\ k = Pos
  <2>1. bt = drainBatch /\ s = drainSub
    <3>1. bt * SubBeats + s = drainBatch * SubBeats + drainSub
      BY <1>11 DEF Pos
    <3>2. bt \in Nat /\ drainBatch \in Nat /\ SubBeats \in Nat \ {0}
      BY <1>1, <1>2, BuildFacts
    <3>. QED
      BY <1>2, <3>1, <3>2, DivModSame
  <2>. QED
    BY <1>4, <1>9, <1>11, <2>1
<1>12. CASE ~(t = drainTile /\ k = Pos)
  <2>1. t = drainTile => k < Pos
    BY <1>3, <1>7, <1>10, <1>12
  <2>2. Written(t, bt, s)
    BY <1>10, <2>1 DEF Written
  <2>3. Settled[a] = <<Product(Taken, t), k>>
    BY <1>1, <2>2 DEF OutputInv, Results, Holds
  <2>4. a # addr
    <3>. SUFFICES ASSUME a = addr PROVE FALSE
      OBVIOUS
    <3>1. t = drainTile /\ bt = drainBatch /\ s = drainSub
      BY <1>1, <1>2, SlotInjective
    <3>. QED
      BY <1>12, <3>1 DEF Pos
  <2>. QED
    BY <1>9, <2>3, <2>4
<1>. QED
  BY <1>11, <1>12

LEMMA DrainingStep ==
  ASSUME ComputeInv, OutputInv, state = "sCompute", Compute, Drain, DrainFlush,
         WritePort(DrainWrite), config' = config, prog' = prog, Taken' = Taken
  PROVE  Draining'
<1>1. /\ config \in Configs /\ Draining /\ Memory /\ Taken \in Nat
      /\ colTile \in 0 .. tiles - 1 /\ SubBeats' = SubBeats /\ Batch' = Batch
      /\ TileRows' = TileRows
  BY ShapeFacts, SameBuild DEF OutputInv
<1>2. /\ Captured' = IF Capture THEN Captured + 1 ELSE Captured
      /\ Capture => Captured = colTile /\ state' = "sCompute"
      /\ cState' # "cInit" /\ tiles' = tiles
      /\ state' = "sCompute" \/ (state' = "sIdle" /\ ComputeDone)
  BY CapturedStep
<1>3. /\ drainFlush' \in Nat /\ (~drainBusy /\ drainFlush = 0 => drainFlush' = 0)
  BY <1>1 DEF DrainFlush, Draining, WriteLat
<1>4. state' # "sCompute" => ~drainBusy /\ drainFlush' = 0 /\ ~Capture
  BY <1>2, <1>3 DEF ComputeDone
<1>5. ASSUME NEW q, NEW t, NEW k0
      PROVE  IsRows(q, Taken, t, k0)' <=> IsRows(q, Taken, t, k0)
  <2>1. Product(Taken, t)' = Product(Taken, t)
    BY DEF Product, Latest
  <2>. QED
    BY <1>1, <2>1 DEF IsRows
<1>6. CASE Capture
  <2>1. /\ tileAccums' = [k \in 1 .. TileRows |-> <<accum, k - 1>>] /\ drainBusy' = TRUE
        /\ drainSub' = 0 /\ drainBatch' = 0 /\ drainTile' = colTile
    BY <1>6 DEF Drain, TileRows
  <2>2. accum = Product(Taken, colTile) /\ accum \in Seq((Nat \X Nat) \X (Nat \X Nat))
    BY <1>6, CapturedTile
  <2>3. IsRows(tileAccums', Taken, colTile, 0)
    <3>1. colTile \in Nat
      BY <1>1
    <3>. QED
      BY <1>1, <2>1, <2>2, <3>1, RowsLoaded
  <2>4. Pos' = 0 /\ 0 \in 0 .. SubBeats - 1 /\ 0 \in 0 .. Batch - 1
    <3>1. SubBeats \in Nat \ {0} /\ Batch \in Nat \ {0}
      BY <1>1, BuildFacts
    <3>2. Pos' = 0 * SubBeats + 0 /\ 0 * SubBeats = 0
      BY <1>1, <2>1, <3>1 DEF Pos
    <3>. QED
      BY <3>1, <3>2
  <2>5. IsRows(tileAccums, Taken, drainTile, Pos)'
    BY <1>5, <2>1, <2>3, <2>4
  <2>. QED
    BY <1>1, <1>2, <1>3, <1>6, <2>1, <2>4, <2>5 DEF Draining
<1>7. CASE ~Capture /\ drainBusy
  <2>1. /\ Pos \in 0 .. TileRows - 1 /\ TileRows \in Nat
        /\ tileAccums' = Tail(tileAccums) /\ drainTile' = drainTile /\ drainBusy' \in BOOLEAN
        /\ drainSub' \in 0 .. SubBeats - 1 /\ drainBatch' \in 0 .. Batch - 1
        /\ (drainBusy' => Pos' = Pos + 1)
    BY <1>1, <1>7, PosStep
  <2>2. /\ drainTile \in 0 .. tiles - 1 /\ drainTile + 1 = Captured
        /\ IsRows(tileAccums, Taken, drainTile, Pos)
    BY <1>1, <1>7 DEF Draining
  <2>3. IsRows(Tail(tileAccums), Taken, drainTile, Pos + 1)
    <3>1. Pos \in Nat /\ Pos < TileRows
      BY <2>1
    <3>. QED
      BY <2>1, <2>2, <3>1, RowsTail
  <2>4. drainBusy' => IsRows(tileAccums, Taken, drainTile, Pos)'
    BY <1>5, <2>1, <2>3
  <2>. QED
    BY <1>1, <1>2, <1>3, <1>4, <1>7, <2>1, <2>2, <2>4 DEF Draining
<1>8. CASE ~Capture /\ ~drainBusy
  <2>1. drainBusy' = FALSE /\ drainSub' = drainSub /\ drainBatch' = drainBatch
    BY <1>1, <1>8 DEF Drain, Draining
  <2>. QED
    BY <1>1, <1>3, <1>4, <2>1 DEF Draining
<1>. QED
  BY <1>6, <1>7, <1>8

LEMMA InsideCompute ==
  ASSUME ComputeInv, OutputInv, state = "sCompute", Compute, Drain, DrainFlush,
         WritePort(DrainWrite), config' = config, prog' = prog, Taken' = Taken
  PROVE  OutputInv'
<1>1. /\ Draining /\ Memory /\ Taken \in Nat /\ Taken # 0 /\ Latest("COMPUTE_MM", Taken) = Taken
      /\ tiles = ColTiles(prog[Taken].dim1) /\ SubBeats' = SubBeats /\ Batch' = Batch
      /\ tiles \in Nat
  BY ShapeFacts, SameBuild DEF OutputInv
<1>2. Memory' /\ Draining'
  BY <1>1, PortStep, DrainingStep
<1>3. /\ Captured' = IF Capture THEN Captured + 1 ELSE Captured
      /\ Capture => Captured = colTile
      /\ tiles' = tiles /\ Captured \in 0 .. tiles
      /\ \/ state' = "sCompute"
         \/ state' = "sIdle" /\ ComputeDone /\ Captured = tiles
  BY CapturedStep
<1>4. ASSUME NEW t \in 0 .. tiles - 1, NEW bt \in 0 .. Batch - 1, NEW s \in 0 .. SubBeats - 1,
             Written(t, bt, s)'
      PROVE  Settled'[Slot(tiles, t, bt, s)] = <<Product(Taken, t), bt * SubBeats + s>>
  <2>1. CASE Capture
    <3>1. ~drainBusy /\ drainBusy' = TRUE /\ drainTile' = colTile /\ Pos' = 0
      <4>1. /\ ~drainBusy /\ drainBusy' = TRUE /\ drainTile' = colTile
            /\ drainSub' = 0 /\ drainBatch' = 0
        BY <2>1 DEF Capture, Drain
      <4>2. SubBeats \in Nat
        BY ShapeFacts, BuildFacts DEF OutputInv
      <4>. QED
        BY <1>1, <4>1, <4>2, Zero DEF Pos
    <3>2. Settled' = Settled
      BY <1>1, <3>1, PortStep DEF DrainWrite, Landed
    <3>3. t < Captured + 1 /\ (t = colTile => bt * SubBeats + s < 0)
      BY <1>1, <1>3, <1>4, <2>1, <3>1 DEF Written
    <3>4. bt * SubBeats + s \in Nat
      <4>1. SubBeats \in Nat /\ bt \in Nat /\ s \in Nat
        BY ShapeFacts, BuildFacts DEF OutputInv
      <4>. QED
        BY <4>1
    <3>5. Written(t, bt, s)
      BY <1>3, <2>1, <3>1, <3>3, <3>4 DEF Written
    <3>. QED
      BY <1>1, <3>2, <3>5 DEF OutputInv, Results, Holds
  <2>2. CASE ~Capture /\ drainBusy
    BY <1>3, <1>4, <2>2, WriteStep
  <2>3. CASE ~Capture /\ ~drainBusy
    <3>1. drainBusy' = FALSE /\ Settled' = Settled
      BY <1>1, <2>3, RestStep
    <3>2. Written(t, bt, s)
      BY <1>3, <1>4, <2>3, <3>1 DEF Written
    <3>. QED
      BY <1>1, <3>1, <3>2 DEF OutputInv, Results, Holds
  <2>. QED
    BY <2>1, <2>2, <2>3
<1>5. ASSUME NEW t PROVE Product(Taken, t)' = Product(Taken, t)
  BY DEF Product, Latest
<1>6. /\ ColTiles(prog[Taken].dim1)' = tiles
      /\ Latest("COMPUTE_MM", Taken)' = Taken
  <2>1. Latest("COMPUTE_MM", Taken)' = Latest("COMPUTE_MM", Taken)
    BY <1>1, LatestKept
  <2>. QED
    BY <1>1, <2>1 DEF ColTiles
<1>7. ASSUME NEW t, NEW bt, NEW s
      PROVE  Holds(Settled, Taken, t, bt, s)' <=>
               Settled'[Slot(tiles, t, bt, s)] = <<Product(Taken, t), bt * SubBeats + s>>
  BY <1>1, <1>5, <1>6 DEF Holds, Slot
<1>8. Results'
  <2>1. CASE state' = "sCompute"
    BY <1>1, <1>3, <1>4, <1>7, <2>1 DEF Results
  <2>2. CASE state' = "sIdle" /\ ComputeDone /\ Captured = tiles
    <3>1. ~drainBusy /\ ~Capture
      BY <2>2 DEF ComputeDone, Capture, OutPending, Streaming
    <3>2. drainBusy' = FALSE
      BY <1>1, <3>1, RestStep
    <3>3. Captured' = tiles
      BY <1>3, <2>2, <3>1
    <3>4. ASSUME NEW t \in 0 .. tiles - 1, NEW bt, NEW s PROVE Written(t, bt, s)'
      <4>1. t < tiles
        BY <1>1
      <4>. QED
        BY <3>2, <3>3, <4>1 DEF Written
    <3>5. HoldsAll(Settled, Taken)'
      BY <1>1, <1>4, <1>6, <1>7, <3>4 DEF HoldsAll
    <3>. QED
      BY <1>6, <2>2, <3>5 DEF Results
  <2>. QED
    BY <1>3, <2>1, <2>2
<1>9. Narrow(config, prog)'
  BY DEF OutputInv, Narrow
<1>. QED
  BY <1>2, <1>8, <1>9 DEF OutputInv

-----------------------------------------------------------------------------
(* The invariant of the whole, and what follows from it.                   *)

LEMMA OutputInit ==
  ASSUME ProgramsNarrow, Init
  PROVE  OutputInv
<1>1. /\ config \in Configs /\ prog \in Programs(config) /\ state = "sIdle"
      /\ outcomes = <<>> /\ ran = <<>> /\ wq = None /\ DOMAIN mem = 0 .. MemRows - 1
      /\ drainBusy = FALSE /\ drainSub = 0 /\ drainBatch = 0 /\ drainFlush = 0
  BY DEF Init, CoreInit, MemInit, ComputeEngineInit, H!Init
<1>2. SubBeats \in Nat \ {0} /\ Batch \in Nat \ {0}
  BY <1>1, BuildFacts
<1>3. Latest("COMPUTE_MM", Taken) = 0
  <2>1. Taken = 0
    BY <1>1 DEF Taken
  <2>2. {0} \cup {j \in 1 .. 0 : prog[j].op = "COMPUTE_MM"} = {0}
    OBVIOUS
  <2>3. (CHOOSE x \in {0} : \A y \in {0} : x >= y) = 0
    OBVIOUS
  <2>. QED
    BY <2>1, <2>2, <2>3 DEF Latest, Max
<1>4. Narrow(config, prog) /\ Memory /\ Results
  BY <1>1, <1>3 DEF ProgramsNarrow, Memory, Results
<1>5. Draining
  <2>1. 0 \in 0 .. SubBeats - 1 /\ 0 \in 0 .. Batch - 1
    BY <1>2
  <2>. QED
    BY <1>1, <2>1 DEF Draining
<1>. QED
  BY <1>4, <1>5 DEF OutputInv

LEMMA LandedCycle ==
  ASSUME LandedInv, NEW tvalid \in {FALSE} \cup {stream # <<>>}, NEW tready,
         Cycle(tvalid, tready)
  PROVE  LandedInv'
<1>. DEFINE beat == Beat(tvalid)
<1>1. ComputeInv /\ OutputInv /\ CompositionInv /\ Held /\ Taken \in Nat
  BY TakenFacts DEF LandedInv, ComputeInv
<1>2. ComputeInv'
  BY <1>1, ComputeCycle
<1>3. /\ prog' = prog /\ config' = config
      /\ Pushing(beat) \/ Accepting \/ Idling \/ Executing(beat)
  BY <1>1, CycleCases
<1>4. Drain /\ DrainFlush /\ WritePort(DrainWrite)
  BY DEF Cycle, CoreTick, ComputeEngineTick, OutMemTick
<1>5. OutputInv'
  <2>1. CASE Pushing(beat) \/ Idling
    <3>1. state = "sIdle" /\ state' = "sIdle" /\ Taken' = Taken
      BY <2>1 DEF Pushing, Idling, Idle
    <3>. QED
      BY <1>1, <1>3, <1>4, <3>1, OutsideCompute
  <2>2. CASE Accepting
    <3>1. state = "sIdle" /\ Taken' = Taken + 1 /\ Command = prog[Taken + 1]
      BY <2>2 DEF Accepting
    <3>2. \/ AcceptLoad(Command) \/ AcceptCompute(Command)
          \/ AcceptStore(Command)
      BY <2>2 DEF Accepting, Accept
    <3>3. \/ state' # "sCompute" /\ prog[Taken + 1].op # "COMPUTE_MM"
          \/ state' = "sCompute" /\ cState' = "cInit" /\ colTile' = 0
      BY <3>1, <3>2 DEF AcceptLoad, AcceptCompute, AcceptStore
    <3>. QED
      BY <1>1, <1>3, <1>4, <3>1, <3>3, OutsideCompute
  <2>3. CASE Executing(beat)
    <3>1. Taken' = Taken /\ (Load(beat) \/ Compute \/ Store)
      BY <2>3 DEF Executing, Execute
    <3>2. CASE Compute
      <4>1. state = "sCompute"
        BY <3>2 DEF Compute
      <4>. QED
        BY <1>1, <1>3, <1>4, <3>1, <3>2, <4>1, InsideCompute
    <3>3. CASE Load(beat) \/ Store
      <4>1. state # "sCompute" /\ state' # "sCompute"
        BY <3>3 DEF Load, Store
      <4>. QED
        BY <1>1, <1>3, <1>4, <3>1, <4>1, OutsideCompute
    <3>. QED
      BY <3>1, <3>2, <3>3
  <2>. QED
    BY <1>3, <2>1, <2>2, <2>3
<1>. QED
  BY <1>2, <1>5 DEF LandedInv

LEMMA LandedStutter ==
  ASSUME LandedInv, UNCHANGED vars
  PROVE  LandedInv'
<1>1. /\ UNCHANGED <<config, state, mem, wq, cState, rows, tiles, colTile>>
      /\ UNCHANGED <<tileAccums, drainBusy, drainSub, drainBatch, drainTile, drainFlush>>
      /\ UNCHANGED <<prog, outcomes, ran>>
  BY DEF vars, coreVars, arrayVars, memVars, computeVars, loadVars, tileVars, drainVars,
     handlerVars, driverVars
<1>2. ComputeInv'
  BY ComputeStutter DEF LandedInv
<1>3. /\ SubBeats' = SubBeats /\ Batch' = Batch /\ MemRows' = MemRows /\ TileRows' = TileRows
      /\ Style' = Style
  BY <1>1, SameBuild
<1>4. Taken' = Taken /\ Captured' = Captured /\ Pos' = Pos /\ Settled' = Settled
  BY <1>1, <1>3 DEF Taken, Captured, Pos, Settled, Landed
<1>5. ASSUME NEW c, NEW t PROVE Product(c, t)' = Product(c, t)
  BY <1>1 DEF Product, Latest
<1>6. ASSUME NEW c, NEW t, NEW bt, NEW s
      PROVE  Holds(Settled, c, t, bt, s)' <=> Holds(Settled, c, t, bt, s)
  BY <1>1, <1>3, <1>4, <1>5 DEF Holds, Slot, ColTiles
<1>7. ASSUME NEW c PROVE HoldsAll(Settled, c)' <=> HoldsAll(Settled, c)
  BY <1>1, <1>4, HoldsKept
<1>8. Latest("COMPUTE_MM", Taken)' = Latest("COMPUTE_MM", Taken)
  BY <1>1, <1>4 DEF Latest
<1>9. Narrow(config, prog)' /\ Memory'
  BY <1>1, <1>3 DEF LandedInv, OutputInv, Narrow, Memory
<1>10. Draining'
  BY <1>1, <1>3, <1>4, <1>5 DEF LandedInv, OutputInv, Draining, IsRows
<1>11. Results'
  BY <1>1, <1>3, <1>4, <1>6, <1>7, <1>8 DEF LandedInv, OutputInv, Results, Written
<1>. QED
  BY <1>2, <1>9, <1>10, <1>11 DEF LandedInv, OutputInv

LEMMA LandedInvariance ==
  ASSUME ProgramsFit, ProgramsNarrow
  PROVE  Spec => []LandedInv
<1>1. Init => LandedInv
  BY ComputeInit0, OutputInit DEF LandedInv
<1>2. LandedInv /\ [Next]_vars => LandedInv'
  BY LandedCycle, LandedStutter DEF Next
<1>. QED
  BY <1>1, <1>2, PTL DEF Spec

\* From the cycle that raises the completion of a COMPUTE until the next one is
\* taken, the output memory holds each row of its product, summed from its own
\* weight beats and its own activation rows, where the STORE walk looks for it.
THEOREM ProductsLanded ==
  ASSUME ProgramsFit, ProgramsNarrow
  PROVE  Spec => []ResultLanded
<1>1. LandedInv => ResultLanded
  <2>. DEFINE c == Latest("COMPUTE_MM", Taken)
  <2>. SUFFICES ASSUME LandedInv, c # 0, state # "sCompute" \/ ComputeDone
                PROVE  HoldsAll(mem, c)
    BY DEF ResultLanded, HoldsAll, Holds, Slot
  <2>1. ComputeInv /\ OutputInv
    BY DEF LandedInv
  <2>2. Settled = mem
    <3>1. drainFlush = 0
      BY <2>1 DEF OutputInv, Draining, ComputeDone
    <3>. QED
      BY <2>1, <3>1 DEF OutputInv, Memory, Settled, Landed
  <2>3. CASE state # "sCompute"
    BY <2>1, <2>2, <2>3 DEF OutputInv, Results
  <2>4. CASE state = "sCompute"
    <3>1. c = Taken /\ tiles = ColTiles(prog[Taken].dim1) /\ tiles \in Nat
      BY <2>1, <2>4, ShapeFacts DEF OutputInv
    <3>2. Captured = tiles /\ ~drainBusy
      BY <2>1, <2>4 DEF ComputeDone, Captured, ComputeInv, DataInv, Tiling
    <3>3. \A t \in 0 .. tiles - 1 : t < Captured
      BY <3>1, <3>2
    <3>. QED
      BY <2>1, <2>2, <2>4, <3>1, <3>2, <3>3 DEF OutputInv, Results, Written, HoldsAll
  <2>. QED
    BY <2>3, <2>4
<1>. QED
  BY <1>1, LandedInvariance, PTL


-----------------------------------------------------------------------------
(* The store engine.                                                       *)

\* A beat on m_axis.
OutBeatType == [data : TileRow, last : BOOLEAN]

\* o is q and then what is left of s after its first n.
Owes(o, q, s, n) ==
  /\ Len(o) = Len(q) + (Len(s) - n)
  /\ \A k \in 1 .. Len(q) : o[k] = q[k]
  /\ \A k \in 1 .. Len(s) - n : o[Len(q) + k] = s[n + k]

Sending ==
  /\ outQ \in Seq(OutBeatType) /\ owed \in Seq(OutBeatType)
  /\ Len(outQ) <= IF Style = "ultra" THEN OutQDepth ELSE 1
  /\ IF state = "sStore" THEN Owes(owed, outQ, StoreBeats(Taken), storeBeat) ELSE owed = outQ

\* The read stages hold the rows before rdPtr, the oldest the next to be sent.
Reading ==
  state = "sStore" =>
    /\ prog[Taken].op = "STORE_OUT" /\ storeTotal = Len(StoreBeats(Taken))
    /\ storeBeat \in 0 .. storeTotal - 1 /\ prime \in 0 .. ReadLat
    /\ prime # 0 => storeBeat = 0
    /\ rdPtr = storeBeat + ReadLat - prime
    /\ \A j \in 1 .. ReadLat :
         j <= rdPtr /\ rdPtr - j < storeTotal => pipe[j] = mem[rdPtr - j]

StreamInv == LandedInv /\ Stored(config, prog) /\ Sending /\ Reading

-----------------------------------------------------------------------------
(* Sequences.                                                              *)

LEMMA OwesTail ==
  ASSUME NEW S, NEW o \in Seq(S), NEW q \in Seq(S), NEW s \in Seq(S), NEW n \in 0 .. Len(s),
         Owes(o, q, s, n), q # <<>>
  PROVE  /\ o # <<>> /\ Tail(o) \in Seq(S) /\ Tail(q) \in Seq(S) /\ Len(Tail(q)) = Len(q) - 1
         /\ Len(q) \in Nat \ {0}
         /\ Owes(Tail(o), Tail(q), s, n)
<1>1. Len(s) \in Nat /\ Len(q) \in Nat \ {0} /\ Len(o) \in Nat /\ n \in Nat
  BY EmptySeq
<1>2. Len(o) \in Nat \ {0} /\ o # <<>>
  BY <1>1, EmptySeq DEF Owes
<1>3. /\ Tail(o) \in Seq(S) /\ Len(Tail(o)) = Len(o) - 1
      /\ \A i \in 1 .. Len(Tail(o)) : Tail(o)[i] = o[i + 1]
  BY <1>2, HeadTailProperties
<1>4. /\ Tail(q) \in Seq(S) /\ Len(Tail(q)) = Len(q) - 1
      /\ \A i \in 1 .. Len(Tail(q)) : Tail(q)[i] = q[i + 1]
  BY HeadTailProperties
<1>5. Len(Tail(o)) = Len(Tail(q)) + (Len(s) - n)
  BY <1>1, <1>3, <1>4 DEF Owes
<1>6. ASSUME NEW k \in 1 .. Len(Tail(q)) PROVE Tail(o)[k] = Tail(q)[k]
  <2>1. k + 1 \in 1 .. Len(q) /\ k \in 1 .. Len(Tail(o))
    BY <1>1, <1>3, <1>4, <1>5
  <2>. QED
    BY <1>3, <1>4, <2>1 DEF Owes
<1>7. ASSUME NEW k \in 1 .. Len(s) - n PROVE Tail(o)[Len(Tail(q)) + k] = s[n + k]
  <2>1. Len(Tail(q)) + k \in 1 .. Len(Tail(o)) /\ (Len(Tail(q)) + k) + 1 = Len(q) + k
    BY <1>1, <1>4, <1>5
  <2>. QED
    BY <1>3, <2>1 DEF Owes
<1>. QED
  BY <1>1, <1>2, <1>3, <1>4, <1>5, <1>6, <1>7 DEF Owes

LEMMA OwesMore ==
  ASSUME NEW S, NEW o \in Seq(S), NEW q \in Seq(S), NEW s \in Seq(S), NEW n \in 0 .. Len(s) - 1,
         Owes(o, q, s, n)
  PROVE  /\ Append(q, s[n + 1]) \in Seq(S) /\ Len(Append(q, s[n + 1])) = Len(q) + 1
         /\ Len(q) \in Nat /\ Owes(o, Append(q, s[n + 1]), s, n + 1)
<1>. DEFINE e == s[n + 1]
            p == Append(q, e)
<1>1. Len(s) \in Nat /\ Len(q) \in Nat /\ n \in Nat /\ n + 1 \in 1 .. Len(s)
  OBVIOUS
<1>2. e \in S
  BY <1>1
<1>3. /\ p \in Seq(S) /\ Len(p) = Len(q) + 1 /\ p[Len(q) + 1] = e
      /\ \A k \in 1 .. Len(q) : p[k] = q[k]
  BY <1>2, AppendProperties
<1>. HIDE DEF p
<1>4. Len(o) = Len(p) + (Len(s) - (n + 1))
  BY <1>1, <1>3 DEF Owes
<1>5. ASSUME NEW k \in 1 .. Len(p) PROVE o[k] = p[k]
  <2>1. CASE k = Len(q) + 1
    <3>1. 1 \in 1 .. Len(s) - n
      BY <1>1
    <3>. QED
      BY <1>3, <2>1, <3>1 DEF Owes
  <2>2. CASE k # Len(q) + 1
    <3>1. k \in 1 .. Len(q)
      BY <1>1, <1>3, <2>2
    <3>. QED
      BY <1>3, <3>1 DEF Owes
  <2>. QED
    BY <2>1, <2>2
<1>6. ASSUME NEW k \in 1 .. Len(s) - (n + 1) PROVE o[Len(p) + k] = s[(n + 1) + k]
  <2>1. k + 1 \in 1 .. Len(s) - n /\ Len(p) + k = Len(q) + (k + 1) /\ (n + 1) + k = n + (k + 1)
    BY <1>1, <1>3
  <2>. QED
    BY <2>1 DEF Owes
<1>7. Owes(o, p, s, n + 1)
  BY <1>4, <1>5, <1>6 DEF Owes
<1>. QED
  BY <1>1, <1>3, <1>7 DEF p

LEMMA OwesNothing ==
  ASSUME NEW S, NEW o \in Seq(S), NEW q \in Seq(S), NEW s \in Seq(S), Owes(o, q, s, Len(s))
  PROVE  o = q
<1>1. Len(o) = Len(q)
  BY DEF Owes
<1>2. \A k \in 1 .. Len(o) : o[k] = q[k]
  BY <1>1 DEF Owes
<1>. QED
  BY <1>1, <1>2, SeqEqual

LEMMA OwesAll ==
  ASSUME NEW S, NEW q \in Seq(S), NEW s \in Seq(S)
  PROVE  q \o s \in Seq(S) /\ Owes(q \o s, q, s, 0)
<1>1. Len(q) \in Nat /\ Len(s) \in Nat
  OBVIOUS
<1>2. /\ q \o s \in Seq(S) /\ Len(q \o s) = Len(q) + Len(s)
      /\ \A i \in 1 .. Len(q) + Len(s) : (q \o s)[i] = IF i <= Len(q) THEN q[i] ELSE s[i - Len(q)]
  BY ConcatProperties
<1>3. ASSUME NEW k \in 1 .. Len(q) PROVE (q \o s)[k] = q[k]
  BY <1>1, <1>2
<1>4. ASSUME NEW k \in 1 .. Len(s) PROVE (q \o s)[Len(q) + k] = s[0 + k]
  <2>1. Len(q) + k \in 1 .. Len(q) + Len(s) /\ ~(Len(q) + k <= Len(q)) /\ Len(q) + k - Len(q) = k
    BY <1>1
  <2>. QED
    BY <1>1, <1>2, <2>1
<1>. QED
  BY <1>1, <1>2, <1>3, <1>4 DEF Owes


\* A tile's lanes are those of its beats.
LEMMA LaneFacts ==
  ASSUME config \in Configs
  PROVE  /\ SubBeats \in Nat \ {0} /\ Batch \in Nat \ {0} /\ BeatLanes \in Nat \ {0}
         /\ LanesPerTile \in Nat /\ LanesPerTile = BeatLanes * SubBeats
<1>. DEFINE lanes == config.xDim * (config.aWidth \div 2)
            beat  == Derived(config).outBeatLanes
<1>1. /\ config.outBeatLanes \in Nat /\ config.xDim \in Nat /\ config.aWidth \in Nat
      /\ Elaborates(config)
  BY BuildAssumption
<1>2. config.aWidth >= 2 /\ config.xDim >= 1 /\ lanes % beat = 0
  BY <1>1 DEF Elaborates, Derived
<1>3. lanes \in Nat \ {0}
  <2>1. config.aWidth \div 2 \in Nat \ {0}
    BY <1>1, <1>2
  <2>. QED
    BY <1>1, <1>2, <2>1
<1>4. beat \in Nat \ {0}
  <2>1. beat = IF config.outBeatLanes = 0 THEN lanes ELSE config.outBeatLanes
    BY DEF Derived
  <2>. QED
    BY <1>1, <1>3, <2>1
<1>5. LanesPerTile = lanes /\ BeatLanes = beat
  BY DEF LanesPerTile, BeatLanes, Derived
<1>. HIDE DEF lanes, beat
<1>6. lanes = beat * (lanes \div beat)
  BY <1>2, <1>3, <1>4
<1>. QED
  BY <1>3, <1>4, <1>5, <1>6, BuildFacts DEF SubBeats

-----------------------------------------------------------------------------
(* What a STORE asks for.                                                  *)

\* The beats of a STORE, and the COMPUTE it follows.
LEMMA AskedFacts ==
  ASSUME config \in Configs, prog \in Seq(Operation), Fits(config, prog), Narrow(config, prog),
         Stored(config, prog), NEW i \in 1 .. Len(prog), prog[i].op = "STORE_OUT"
  PROVE  LET c == Latest("COMPUTE_MM", i)
             T == ColTiles(prog[c].dim1)
             n == prog[i].dim0 \div BeatLanes
         IN /\ c \in 1 .. i - 1 /\ c # 0 /\ prog[c].op = "COMPUTE_MM"
            /\ T \in Nat \ {0} /\ T <= ColTiles(config.maxM)
            /\ n \in Nat \ {0} /\ n <= (Batch * T) * SubBeats
            /\ Len(StoreBeats(i)) = n
            /\ \A k \in 1 .. n :
                 StoreBeats(i)[k] =
                   [data |-> <<Product(c, ((k - 1) \div SubBeats) % T),
                               (((k - 1) \div SubBeats) \div T) * SubBeats + ((k - 1) % SubBeats)>>,
                    last |-> k = n]
<1>. DEFINE d == prog[i].dim0
            L == LanesPerTile
            B == BeatLanes
<1>1. PICK j \in 1 .. i - 1 :
         /\ prog[j].op = "COMPUTE_MM" /\ \A k \in j + 1 .. i - 1 : prog[k].op # "COMPUTE_MM"
         /\ d <= config.batch * NumColTiles(Derived(config), prog[j].dim1)
                   * Derived(config).outLanesPerTile
  BY DEF Stored
<1>2. i \in Nat /\ j \in 1 .. i /\ j # 0 /\ j \in 1 .. Len(prog)
  OBVIOUS
<1>3. Latest("COMPUTE_MM", i) = j
  <2>1. \A k \in j + 1 .. i : prog[k].op # "COMPUTE_MM"
    BY <1>1, <1>2
  <2>. QED
    BY <1>1, <1>2, <2>1, LatestIs
<1>. DEFINE T == ColTiles(prog[j].dim1)
            n == d \div B
<1>4. prog[j] \in Operation /\ prog[i] \in Operation
  BY <1>2
<1>5. T \in Nat \ {0} /\ T <= ColTiles(config.maxM)
  <2>1. prog[j].dim1 \in Nat \ {0}
    BY <1>1, <1>2, <1>4 DEF Fits, Operation
  <2>2. prog[j].dim1 <= config.maxM
    BY <1>1, <1>2 DEF Narrow
  <2>. QED
    BY <2>1, <2>2, ConfigFacts, BuildFacts
<1>6. /\ SubBeats \in Nat \ {0} /\ Batch \in Nat \ {0} /\ B \in Nat \ {0} /\ L \in Nat
      /\ L = B * SubBeats
  BY LaneFacts
<1>7. d \in Nat /\ d >= B /\ d <= Batch * T * L
  BY <1>1, <1>4 DEF Operation, Stored, Batch, ColTiles, LanesPerTile, BeatLanes
<1>. HIDE DEF d, L, B, T
<1>8. n \in Nat \ {0} /\ n <= (Batch * T) * SubBeats
  <2>1. n \in Nat /\ d % B \in 0 .. B - 1 /\ d = n * B + (d % B)
    BY <1>6, <1>7, DivMod
  <2>. DEFINE M == (Batch * T) * SubBeats
  <2>2. M \in Nat /\ Batch * T * L = M * B
    <3>1. Batch * T \in Nat
      BY <1>5, <1>6
    <3>2. ASSUME NEW x \in Nat, NEW y \in Nat, NEW z \in Nat PROVE x * (y * z) = (x * z) * y
      OBVIOUS
    <3>3. (Batch * T) * (B * SubBeats) = ((Batch * T) * SubBeats) * B
      BY <1>6, <3>1, <3>2
    <3>. QED
      BY <1>6, <3>1, <3>3
  <2>. HIDE DEF n, M
  <2>3. n # 0
    <3>1. ASSUME n = 0 PROVE FALSE
      <4>1. 0 * B = 0
        BY <1>6
      <4>. QED
        BY <1>6, <1>7, <2>1, <3>1, <4>1
    <3>. QED
      BY <3>1
  <2>4. ASSUME M < n PROVE FALSE
    <3>1. M * B + B <= n * B /\ M * B \in Nat /\ n * B \in Nat
      BY <1>6, <2>1, <2>2, <2>4, MulStep
    <3>2. d <= M * B
      BY <1>7, <2>2
    <3>. QED
      BY <1>6, <1>7, <2>1, <3>1, <3>2
  <2>. QED
    BY <2>1, <2>2, <2>3, <2>4 DEF M
<1>. HIDE DEF n
<1>9. StoreBeats(i) =
        [k \in 1 .. n |->
          [data |-> <<Product(j, ((k - 1) \div SubBeats) % T),
                      (((k - 1) \div SubBeats) \div T) * SubBeats + ((k - 1) % SubBeats)>>,
           last |-> k = n]]
  BY <1>3 DEF StoreBeats, n, d, B, T
<1>10. Len(StoreBeats(i)) = n
  BY <1>8, <1>9
<1>11. n = prog[i].dim0 \div BeatLanes
  BY DEF n, d, B
<1>. HIDE DEF n
<1>12. ASSUME NEW k \in 1 .. n
       PROVE  StoreBeats(i)[k] =
                [data |-> <<Product(j, ((k - 1) \div SubBeats) % T),
                            (((k - 1) \div SubBeats) \div T) * SubBeats + ((k - 1) % SubBeats)>>,
                 last |-> k = n]
  BY <1>9
<1>. QED
  BY <1>1, <1>3, <1>5, <1>8, <1>10, <1>11, <1>12 DEF T

\* Rows in the order of the STORE walk have the addresses 0, 1, 2, ...
LEMMA RowAt ==
  ASSUME config \in Configs, NEW T \in Nat \ {0}, T <= ColTiles(config.maxM),
         NEW k \in Nat, k < (Batch * T) * SubBeats
  PROVE  LET t  == (k \div SubBeats) % T
             bt == (k \div SubBeats) \div T
             s  == k % SubBeats
         IN /\ t \in 0 .. T - 1 /\ bt \in 0 .. Batch - 1 /\ s \in 0 .. SubBeats - 1
            /\ Slot(T, t, bt, s) = k /\ k % RowMod = k /\ k \in 0 .. MemRows - 1
<1>. DEFINE S == SubBeats
            row == k \div S
            t == row % T
            bt == row \div T
            s == k % S
<1>1. S \in Nat \ {0} /\ Batch \in Nat \ {0} /\ Batch * T \in Nat
  BY BuildFacts
<1>. HIDE DEF S
<1>2. row \in Nat /\ s \in 0 .. S - 1 /\ k = row * S + s
  BY <1>1, DivMod
<1>. HIDE DEF row, s
<1>3. bt \in Nat /\ t \in 0 .. T - 1 /\ row = bt * T + t
  BY <1>2, DivMod
<1>. HIDE DEF bt, t
<1>4. row < Batch * T
  <2>1. ASSUME Batch * T <= row PROVE FALSE
    <3>1. (Batch * T) * S <= row * S
      BY <1>1, <1>2, <2>1, MulMono
    <3>. QED
      BY <1>1, <1>2, <3>1 DEF S
  <2>. QED
    BY <1>1, <1>2, <2>1
<1>5. bt < Batch
  <2>1. ASSUME Batch <= bt PROVE FALSE
    <3>1. Batch * T <= bt * T
      BY <1>1, <1>3, <2>1, MulMono
    <3>. QED
      BY <1>1, <1>2, <1>3, <1>4, <3>1
  <2>. QED
    BY <1>1, <1>3, <2>1
<1>6. bt \in 0 .. Batch - 1
  BY <1>1, <1>3, <1>5
<1>7. Slot(T, t, bt, s) = k
  BY <1>2, <1>3 DEF Slot, S
<1>8. Slot(T, t, bt, s) \in 0 .. MemRows - 1 /\ Slot(T, t, bt, s) % RowMod = Slot(T, t, bt, s)
  BY <1>2, <1>3, <1>6, SlotRange DEF S
<1>. QED
  BY <1>2, <1>3, <1>6, <1>7, <1>8 DEF t, bt, s, row, S

LEMMA ProductType ==
  ASSUME prog \in Seq(Operation), Fits(config, prog), NEW c \in 1 .. Len(prog),
         prog[c].op = "COMPUTE_MM", NEW t \in Nat
  PROVE  Product(c, t) \in Seq((Nat \X Nat) \X (Nat \X Nat))
<1>. DEFINE N == prog[c].dim0
            l == Latest("LOAD_ACT", c)
<1>1. N \in Nat /\ c \in Nat
  <2>1. prog[c] \in Operation
    OBVIOUS
  <2>. QED
    BY <2>1 DEF Operation
<1>2. l \in Nat
  <2>1. PICK j \in 1 .. c - 1 : prog[j].op = "LOAD_ACT" /\ \A k \in j + 1 .. c - 1 : prog[k].op # "LOAD_ACT"
    BY DEF Fits
  <2>2. j \in 1 .. c /\ \A k \in j + 1 .. c : prog[k].op # "LOAD_ACT"
    BY <2>1
  <2>. QED
    BY <1>1, <2>1, <2>2, LatestIs
<1>. HIDE DEF l
<1>3. t * N \in Nat
  BY <1>1
<1>. DEFINE e(k) == <<<<c, t * N + k - 1>>, <<l, k - 1>>>>
<1>4. ASSUME NEW k \in 1 .. N PROVE e(k) \in (Nat \X Nat) \X (Nat \X Nat)
  <2>1. t * N + k - 1 \in Nat /\ k - 1 \in Nat
    BY <1>1, <1>3
  <2>2. <<c, t * N + k - 1>> \in Nat \X Nat /\ <<l, k - 1>> \in Nat \X Nat
    BY <1>1, <1>2, <2>1
  <2>. QED
    BY <2>2
<1>5. Product(c, t) = [k \in 1 .. N |-> e(k)]
  BY DEF Product, l
<1>. HIDE DEF e, N
<1>6. [k \in 1 .. N |-> e(k)] \in Seq((Nat \X Nat) \X (Nat \X Nat))
  BY <1>1, <1>4
<1>. QED
  BY <1>5, <1>6

\* Beat k of a STORE is the row at address k.
LEMMA AskedRow ==
  ASSUME config \in Configs, prog \in Seq(Operation), Fits(config, prog), Narrow(config, prog),
         Stored(config, prog), NEW i \in 1 .. Len(prog), prog[i].op = "STORE_OUT",
         NEW k \in 0 .. Len(StoreBeats(i)) - 1
  PROVE  /\ k % RowMod = k /\ k \in 0 .. MemRows - 1
         /\ StoreBeats(i)[k + 1] \in OutBeatType
         /\ StoreBeats(i)[k + 1].last = (k + 1 = Len(StoreBeats(i)))
         /\ HoldsAll(mem, Latest("COMPUTE_MM", i)) =>
              StoreBeats(i)[k + 1] = [data |-> mem[k], last |-> k + 1 = Len(StoreBeats(i))]
<1>. DEFINE c == Latest("COMPUTE_MM", i)
            T == ColTiles(prog[c].dim1)
            n == prog[i].dim0 \div BeatLanes
            t  == (k \div SubBeats) % T
            bt == (k \div SubBeats) \div T
            s  == k % SubBeats
<1>1. /\ c \in 1 .. i - 1 /\ prog[c].op = "COMPUTE_MM"
      /\ T \in Nat \ {0} /\ T <= ColTiles(config.maxM)
      /\ n \in Nat \ {0} /\ n <= (Batch * T) * SubBeats
      /\ \A m \in 1 .. n :
           StoreBeats(i)[m] =
             [data |-> <<Product(c, ((m - 1) \div SubBeats) % T),
                         (((m - 1) \div SubBeats) \div T) * SubBeats + ((m - 1) % SubBeats)>>,
              last |-> m = n]
      /\ Len(StoreBeats(i)) = n
  BY AskedFacts
<1>. HIDE DEF c, T, n
<1>2. k \in Nat /\ k < (Batch * T) * SubBeats /\ k + 1 \in 1 .. n /\ (k + 1) - 1 = k
  <2>1. SubBeats \in Nat /\ Batch \in Nat /\ T \in Nat
    BY <1>1, BuildFacts
  <2>2. (Batch * T) * SubBeats \in Nat
    <3>1. Batch * T \in Nat
      BY <2>1
    <3>. QED
      BY <2>1, <3>1
  <2>3. n \in Nat /\ n <= (Batch * T) * SubBeats /\ Len(StoreBeats(i)) = n
    BY <1>1
  <2>. QED
    BY <2>2, <2>3
<1>3. /\ t \in 0 .. T - 1 /\ bt \in 0 .. Batch - 1 /\ s \in 0 .. SubBeats - 1
      /\ Slot(T, t, bt, s) = k /\ k % RowMod = k /\ k \in 0 .. MemRows - 1
  BY <1>1, <1>2, RowAt
<1>4. StoreBeats(i)[k + 1] = [data |-> <<Product(c, t), bt * SubBeats + s>>, last |-> k + 1 = n]
  BY <1>1, <1>2
<1>. HIDE DEF t, bt, s
<1>5. StoreBeats(i)[k + 1] \in OutBeatType
  <2>1. c \in 1 .. Len(prog)
    BY <1>1
  <2>2. t \in Nat /\ bt \in Nat /\ s \in Nat /\ SubBeats \in Nat
    BY <1>3, BuildFacts
  <2>3. Product(c, t) \in Seq((Nat \X Nat) \X (Nat \X Nat))
    BY <1>1, <2>1, <2>2, ProductType
  <2>4. bt * SubBeats + s \in Nat
    BY <2>2
  <2>. QED
    BY <1>4, <2>3, <2>4 DEF OutBeatType, TileRow
<1>6. ASSUME HoldsAll(mem, c) PROVE mem[k] = <<Product(c, t), bt * SubBeats + s>>
  <2>1. Holds(mem, c, t, bt, s)
    BY <1>3, <1>6 DEF HoldsAll, T
  <2>. QED
    BY <1>3, <2>1 DEF Holds, T
<1>7. StoreBeats(i)[k + 1].last = (k + 1 = n)
  BY <1>4
<1>8. HoldsAll(mem, c) => StoreBeats(i)[k + 1] = [data |-> mem[k], last |-> k + 1 = n]
  BY <1>4, <1>6
<1>. QED
  BY <1>1, <1>3, <1>5, <1>7, <1>8 DEF c

LEMMA AskedType ==
  ASSUME config \in Configs, prog \in Seq(Operation), Fits(config, prog), Narrow(config, prog),
         Stored(config, prog), NEW i \in 1 .. Len(prog), prog[i].op = "STORE_OUT"
  PROVE  StoreBeats(i) \in Seq(OutBeatType) /\ Len(StoreBeats(i)) \in Nat \ {0}
         /\ Len(StoreBeats(i)) = prog[i].dim0 \div BeatLanes
<1>. DEFINE n == Len(StoreBeats(i))
<1>1. n \in Nat \ {0} /\ n = prog[i].dim0 \div BeatLanes
  BY AskedFacts
<1>2. StoreBeats(i) = [k \in 1 .. n |-> StoreBeats(i)[k]]
  BY <1>1 DEF StoreBeats
<1>. HIDE DEF n
<1>3. ASSUME NEW k \in 1 .. n PROVE StoreBeats(i)[k] \in OutBeatType
  <2>1. k - 1 \in 0 .. n - 1 /\ (k - 1) + 1 = k
    BY <1>1
  <2>. QED
    BY <2>1, AskedRow DEF n
<1>. QED
  BY <1>1, <1>2, <1>3 DEF n

-----------------------------------------------------------------------------
(* The output queue and the read stages, cycle by cycle.                   *)

RestQ(tready)    == IF Deliver(tready) THEN Tail(outQ) ELSE outQ
RestOwed(tready) == IF Deliver(tready) THEN Tail(owed) ELSE owed

LEMMA AskedKept ==
  ASSUME prog' = prog, config' = config
  PROVE  /\ \A i : StoreBeats(i)' = StoreBeats(i)
         /\ \A i : Taken' = i => StoreBeats(Taken)' = StoreBeats(i)
         /\ ReadLat' = ReadLat /\ Style' = Style /\ RowMod' = RowMod
         /\ Stored(config, prog)' <=> Stored(config, prog)
<1>1. ASSUME NEW i PROVE StoreBeats(i)' = StoreBeats(i)
  BY DEF StoreBeats, Product, Latest, BeatLanes, SubBeats, LanesPerTile, ColTiles
<1>2. ASSUME NEW i, Taken' = i PROVE StoreBeats(Taken)' = StoreBeats(i)
  BY <1>2 DEF StoreBeats, Product, Latest, BeatLanes, SubBeats, LanesPerTile, ColTiles
<1>. QED
  BY <1>1, <1>2 DEF ReadLat, Batch, Style, RowMod, MemRows, ColTiles, SubBeats, LanesPerTile,
     BeatLanes, Stored

\* m_axis takes the beat owed first.
LEMMA DeliverStep ==
  ASSUME Sending, NEW tready, NEW s \in Seq(OutBeatType), NEW n \in 0 .. Len(s),
         Owes(owed, outQ, s, n)
  PROVE  /\ RestQ(tready) \in Seq(OutBeatType) /\ RestOwed(tready) \in Seq(OutBeatType)
         /\ Owes(RestOwed(tready), RestQ(tready), s, n)
         /\ Len(RestQ(tready)) <= Len(outQ)
         /\ tready = TRUE /\ Len(outQ) <= 1 => Len(RestQ(tready)) = 0
<1>1. outQ \in Seq(OutBeatType) /\ owed \in Seq(OutBeatType) /\ Len(outQ) \in Nat
  BY DEF Sending
<1>2. CASE Deliver(tready)
  <2>1. outQ # <<>>
    BY <1>2 DEF Deliver
  <2>2. /\ Tail(owed) \in Seq(OutBeatType) /\ Tail(outQ) \in Seq(OutBeatType)
        /\ Len(Tail(outQ)) = Len(outQ) - 1 /\ Len(outQ) \in Nat \ {0}
        /\ Owes(Tail(owed), Tail(outQ), s, n)
    BY <1>1, <2>1, OwesTail
  <2>. QED
    BY <1>2, <2>2 DEF RestQ, RestOwed
<1>3. CASE ~Deliver(tready)
  <2>1. tready = TRUE => Len(outQ) = 0
    BY <1>1, <1>3, EmptySeq DEF Deliver
  <2>. QED
    BY <1>1, <1>3, <2>1 DEF RestQ, RestOwed
<1>. QED
  BY <1>2, <1>3

\* A queue with nothing behind it.
LEMMA SettleStep ==
  ASSUME Sending, state # "sStore", NEW tready
  PROVE  /\ RestQ(tready) \in Seq(OutBeatType) /\ RestOwed(tready) = RestQ(tready)
         /\ Len(RestQ(tready)) <= Len(outQ) /\ Len(outQ) \in Nat
<1>1. outQ \in Seq(OutBeatType) /\ owed = outQ
  BY DEF Sending
<1>2. <<>> \in Seq(OutBeatType) /\ Len(<<>>) = 0 /\ 0 \in 0 .. Len(<<>>)
  OBVIOUS
<1>3. Owes(owed, outQ, <<>>, 0)
  BY <1>1, <1>2 DEF Owes
<1>4. /\ RestQ(tready) \in Seq(OutBeatType) /\ Len(RestQ(tready)) <= Len(outQ)
  BY <1>2, <1>3, DeliverStep
<1>. QED
  BY <1>1, <1>4 DEF RestQ, RestOwed

LEMMA SendNothing ==
  ASSUME Sending, state # "sStore", state' # "sStore", NEW tready, OutQueue(tready),
         Owe(tready), Command = None \/ Command.op # "STORE_OUT", config' = config
  PROVE  Sending' /\ Reading'
<1>1. outQ' = RestQ(tready) /\ owed' = RestOwed(tready)
  BY DEF OutQueue, Owe, Fire, RestQ, RestOwed
<1>2. Style' = Style
  BY SameBuild
<1>3. /\ outQ' \in Seq(OutBeatType) /\ owed' = outQ' /\ Len(outQ') <= Len(outQ)
      /\ Len(outQ) \in Nat /\ Len(outQ') \in Nat
  BY <1>1, SettleStep
<1>. QED
  BY <1>2, <1>3 DEF Sending, Reading, OutQDepth

\* What the read side may rely on of the STORE in execution.
LEMMA StoringFacts ==
  ASSUME LandedInv, Stored(config, prog)
  PROVE  /\ config \in Configs /\ prog \in Seq(Operation) /\ Fits(config, prog)
         /\ Narrow(config, prog) /\ Taken \in Nat
         /\ state # "sIdle" => Taken \in 1 .. Len(prog)
         /\ DOMAIN mem = 0 .. MemRows - 1
         /\ state # "sCompute" => Settled = mem /\ ~drainBusy /\ wq = None
<1>1. /\ config \in Configs /\ prog \in Seq(Operation) /\ Fits(config, prog)
      /\ Narrow(config, prog) /\ Taken \in Nat /\ Operands /\ Memory /\ Draining
  BY TakenFacts DEF LandedInv, OutputInv, ComputeInv, CompositionInv
<1>2. state # "sIdle" => Taken \in 1 .. Len(prog)
  <2>1. state # "sIdle" => Taken = tag - 1 /\ tag > 1 /\ tag \in Nat
    BY TakenFacts DEF LandedInv, ComputeInv
  <2>2. tag \in 1 .. Len(prog) + 1 /\ Len(prog) \in Nat
    BY <1>1 DEF Operands
  <2>. QED
    BY <2>1, <2>2
<1>3. state # "sCompute" => wq = None /\ ~drainBusy
  BY <1>1 DEF Memory, Draining
<1>. QED
  BY <1>1, <1>2, <1>3 DEF Memory, Settled, Landed

LEMMA AcceptStreamStep ==
  ASSUME StreamInv, NEW tready, Accepting, AcceptStore(Command), OutQueue(tready), Owe(tready),
         inst.tag = Taken + 1, Command # None, prog' = prog, config' = config
  PROVE  Sending' /\ Reading'
<1>. DEFINE i == Taken + 1
<1>1. /\ state = "sIdle" /\ state' = "sStore" /\ i \in 1 .. Len(prog) /\ Taken' = i
      /\ Command = prog[i] /\ prog[i].op = "STORE_OUT"
      /\ storeTotal' = prog[i].dim0 \div BeatLanes
      /\ storeBeat' = 0 /\ rdPtr' = 0 /\ prime' = ReadLat
  BY DEF Accepting, AcceptStore
<1>2. outQ' = RestQ(tready) /\ owed' = RestOwed(tready) \o StoreBeats(i)
  BY <1>1 DEF OutQueue, Owe, Fire, RestQ, RestOwed
<1>3. /\ StoreBeats(i) \in Seq(OutBeatType) /\ Len(StoreBeats(i)) \in Nat \ {0}
      /\ Len(StoreBeats(i)) = storeTotal'
  BY <1>1, StoringFacts, AskedType DEF StreamInv
<1>4. /\ outQ' \in Seq(OutBeatType) /\ RestOwed(tready) = outQ' /\ Len(outQ') <= Len(outQ)
      /\ Len(outQ) \in Nat /\ Len(outQ') \in Nat
  BY <1>1, <1>2, SettleStep DEF StreamInv
<1>5. owed' \in Seq(OutBeatType) /\ Owes(owed', outQ', StoreBeats(i), 0)
  BY <1>2, <1>3, <1>4, OwesAll
<1>6. StoreBeats(Taken)' = StoreBeats(i) /\ Style' = Style /\ ReadLat' = ReadLat
  BY <1>1, AskedKept
<1>. HIDE DEF i
<1>7. Sending'
  BY <1>1, <1>4, <1>5, <1>6 DEF StreamInv, Sending, OutQDepth, Owes
<1>8. Reading'
  <2>1. ReadLat \in {2, 4}
    BY DEF ReadLat
  <2>2. prog[Taken]'.op = "STORE_OUT"
    BY <1>1
  <2>3. \A j \in 1 .. ReadLat : ~(j <= 0)
    BY <2>1
  <2>. QED
    BY <1>1, <1>3, <1>6, <2>1, <2>2, <2>3 DEF Reading
<1>. QED
  BY <1>7, <1>8

\* While a STORE runs the read stages hold the rows they should, and the beat
\* enqueued is the next one asked for.
LEMMA StoreStreamStep ==
  ASSUME StreamInv, NEW tready, Store, Taken' = Taken, OutQueue(tready), Owe(tready),
         Command = None, OutMemTick(DrainWrite, Advance, RdAddr),
         Style = "block" => tready = TRUE, prog' = prog, config' = config
  PROVE  Sending' /\ Reading'
<1>. DEFINE i == Taken
            s == StoreBeats(i)
<1>1. /\ state = "sStore" /\ i \in 1 .. Len(prog) /\ prog[i].op = "STORE_OUT" /\ i # 0
      /\ config \in Configs /\ prog \in Seq(Operation) /\ Fits(config, prog)
      /\ Narrow(config, prog) /\ Stored(config, prog)
  BY StoringFacts DEF Store, StreamInv, Reading
<1>2. /\ s \in Seq(OutBeatType) /\ Len(s) \in Nat \ {0} /\ storeTotal = Len(s)
      /\ storeBeat \in 0 .. storeTotal - 1 /\ prime \in 0 .. ReadLat
      /\ prime # 0 => storeBeat = 0
      /\ rdPtr = storeBeat + ReadLat - prime
      /\ \A j \in 1 .. ReadLat :
           j <= rdPtr /\ rdPtr - j < storeTotal => pipe[j] = mem[rdPtr - j]
  BY <1>1, AskedType DEF StreamInv, Reading
<1>3. ReadLat \in {2, 4} /\ ReadLat \in Nat \ {0} /\ rdPtr \in Nat
  <2>1. ReadLat \in {2, 4}
    BY DEF ReadLat
  <2>. QED
    BY <1>2, <2>1
<1>4. HoldsAll(mem, Latest("COMPUTE_MM", i))
  <2>1. Latest("COMPUTE_MM", i) # 0
    BY <1>1, AskedFacts
  <2>2. Settled = mem
    BY <1>1, StoringFacts DEF StreamInv
  <2>. QED
    BY <1>1, <2>1, <2>2 DEF StreamInv, LandedInv, OutputInv, Results
<1>5. mem' = mem /\ DOMAIN mem = 0 .. MemRows - 1
  <2>1. /\ DOMAIN mem = 0 .. MemRows - 1 /\ wq = None /\ DrainWrite = None
    BY <1>1, StoringFacts DEF StreamInv, DrainWrite
  <2>. QED
    BY <2>1 DEF OutMemTick, WritePort, Landed
<1>6. /\ StoreBeats(Taken)' = s /\ Style' = Style /\ ReadLat' = ReadLat
  BY <1>1, AskedKept
<1>. HIDE DEF s
<1>7. /\ RestQ(tready) \in Seq(OutBeatType) /\ RestOwed(tready) \in Seq(OutBeatType)
      /\ Owes(RestOwed(tready), RestQ(tready), s, storeBeat)
      /\ Len(RestQ(tready)) <= Len(outQ) /\ Len(outQ) \in Nat /\ Len(RestQ(tready)) \in Nat
      /\ tready = TRUE /\ Len(outQ) <= 1 => Len(RestQ(tready)) = 0
  <2>1. storeBeat \in 0 .. Len(s)
    BY <1>2
  <2>2. Owes(owed, outQ, s, storeBeat) /\ outQ \in Seq(OutBeatType)
    BY <1>1 DEF StreamInv, Sending, s
  <2>3. /\ RestQ(tready) \in Seq(OutBeatType) /\ RestOwed(tready) \in Seq(OutBeatType)
        /\ Owes(RestOwed(tready), RestQ(tready), s, storeBeat)
        /\ Len(RestQ(tready)) <= Len(outQ)
        /\ tready = TRUE /\ Len(outQ) <= 1 => Len(RestQ(tready)) = 0
    BY <1>2, <2>1, <2>2, DeliverStep DEF StreamInv
  <2>. QED
    BY <2>2, <2>3
<1>8. /\ outQ' = IF Fire THEN Append(RestQ(tready), OutBeat) ELSE RestQ(tready)
      /\ owed' = RestOwed(tready)
  BY DEF OutQueue, Owe, RestQ, RestOwed
<1>9. Len(outQ) <= IF Style = "ultra" THEN OutQDepth ELSE 1
  BY DEF StreamInv, Sending
\* The beat enqueued.
<1>10. Fire => OutBeat = s[storeBeat + 1] /\ prime = 0
  <2>. SUFFICES ASSUME Fire PROVE OutBeat = s[storeBeat + 1] /\ prime = 0
    OBVIOUS
  <2>1. prime = 0 /\ rdPtr = storeBeat + ReadLat
    BY <1>2, <1>3 DEF Fire, Primed
  <2>2. ReadLat \in 1 .. ReadLat /\ ReadLat <= rdPtr /\ rdPtr - ReadLat = storeBeat
    BY <1>2, <1>3, <2>1
  <2>3. pipe[ReadLat] = mem[storeBeat]
    BY <1>2, <2>2, SMTT(30)
  <2>4. s[storeBeat + 1] = [data |-> mem[storeBeat], last |-> storeBeat + 1 = Len(s)]
    BY <1>1, <1>2, <1>4, AskedRow DEF s
  <2>. QED
    BY <1>2, <2>1, <2>3, <2>4 DEF OutBeat
<1>11. /\ storeBeat' = IF Fire THEN storeBeat + 1 ELSE storeBeat
       /\ rdPtr' = IF Advance THEN rdPtr + 1 ELSE rdPtr
       /\ prime' = IF prime = 0 THEN prime ELSE prime - 1
       /\ storeTotal' = storeTotal
       /\ state' = IF Fire /\ storeBeat + 1 = storeTotal THEN "sIdle" ELSE "sStore"
       /\ Advance <=> prime # 0 \/ Fire
  BY <1>1 DEF Store, Primed, StoreDone, Advance
<1>12. /\ outQ' \in Seq(OutBeatType) /\ owed' \in Seq(OutBeatType)
       /\ Owes(owed', outQ', s, storeBeat')
       /\ Len(outQ') \in Nat /\ Len(outQ') <= IF Style = "ultra" THEN OutQDepth ELSE 1
  <2>1. CASE Fire
    <3>1. /\ outQ' \in Seq(OutBeatType) /\ Len(outQ') = Len(RestQ(tready)) + 1
          /\ Owes(owed', outQ', s, storeBeat + 1)
      <4>1. storeBeat \in 0 .. Len(s) - 1
        BY <1>2
      <4>. QED
        BY <1>2, <1>7, <1>8, <1>10, <2>1, <4>1, OwesMore
    <3>2. CASE Style = "ultra"
      <4>1. Len(outQ) < 2
        BY <2>1 DEF Fire, EnqReady, OutQDepth
      <4>. QED
        BY <1>7, <1>8, <1>11, <2>1, <3>1, <3>2, <4>1 DEF OutQDepth
    <3>3. CASE Style # "ultra"
      <4>1. tready = TRUE /\ Len(outQ) <= 1
        BY <1>9, <3>3 DEF Style
      <4>2. Len(RestQ(tready)) = 0
        BY <1>7, <4>1
      <4>3. Len(outQ') = 1
        BY <3>1, <4>2
      <4>4. Owes(owed', outQ', s, storeBeat')
        BY <1>11, <2>1, <3>1
      <4>. QED
        BY <1>7, <1>8, <3>1, <3>3, <4>3, <4>4
    <3>. QED
      BY <3>2, <3>3
  <2>2. CASE ~Fire
    BY <1>7, <1>8, <1>9, <1>11, <2>2 DEF OutQDepth
  <2>. QED
    BY <2>1, <2>2
<1>13. Sending'
  <2>1. CASE state' = "sStore"
    BY <1>6, <1>12, <2>1 DEF Sending
  <2>2. CASE state' # "sStore"
    <3>1. storeBeat' = Len(s)
      BY <1>2, <1>11, <2>2
    <3>2. owed' = outQ'
      BY <1>2, <1>12, <3>1, OwesNothing
    <3>. QED
      BY <1>6, <1>12, <2>2, <3>2 DEF Sending
  <2>. QED
    BY <2>1, <2>2
\* The read stages.
<1>14. ASSUME state' = "sStore", NEW j \in 1 .. ReadLat, j <= rdPtr', rdPtr' - j < storeTotal
       PROVE  pipe'[j] = mem[rdPtr' - j]
  <2>1. CASE Advance
    <3>1. pipe' = Shift(ReadRow(RdAddr)) /\ rdPtr' = rdPtr + 1
      BY <1>11, <2>1 DEF OutMemTick, ReadPort
    <3>2. CASE j = 1
      <4>1. rdPtr' - j = rdPtr /\ rdPtr \in 0 .. Len(s) - 1
        BY <1>2, <1>3, <1>14, <3>1, <3>2
      <4>2. rdPtr % RowMod = rdPtr /\ rdPtr \in 0 .. MemRows - 1
        BY <1>1, <4>1, AskedRow DEF s
      <4>3. RdAddr = rdPtr /\ ReadRow(rdPtr) = mem[rdPtr]
        BY <1>1, <1>5, <4>2 DEF RdAddr, ReadRow
      <4>. QED
        BY <3>1, <3>2, <4>1, <4>3 DEF Shift
    <3>3. CASE j # 1
      <4>1. /\ j - 1 \in 1 .. ReadLat /\ j - 1 <= rdPtr /\ rdPtr - (j - 1) = rdPtr' - j
        BY <1>3, <1>14, <3>1, <3>3
      <4>2. pipe[j - 1] = mem[rdPtr - (j - 1)]
        BY <1>2, <1>14, <4>1
      <4>3. pipe'[j] = pipe[j - 1]
        BY <3>1, <3>3 DEF Shift
      <4>. QED
        BY <4>1, <4>2, <4>3
    <3>. QED
      BY <3>2, <3>3
  <2>2. CASE ~Advance
    <3>1. Style # "block"
      <4>1. prime = 0 /\ ~(Len(outQ) < 2)
        BY <1>1, <1>11, <2>2 DEF Fire, Primed, EnqReady, OutQDepth
      <4>. QED
        BY <1>7, <1>9, <4>1
    <3>2. pipe' = pipe
      BY <2>2, <3>1 DEF OutMemTick, ReadPort, Disabled
    <3>3. rdPtr' = rdPtr
      BY <1>11, <2>2
    <3>. QED
      BY <1>2, <1>14, <3>2, <3>3
  <2>. QED
    BY <2>1, <2>2
<1>15. Reading'
  <2>. SUFFICES ASSUME state' = "sStore" PROVE Reading'
    BY DEF Reading
  <2>1. /\ storeBeat' \in 0 .. storeTotal' - 1 /\ prime' \in 0 .. ReadLat
        /\ prime' # 0 => storeBeat' = 0
        /\ rdPtr' = storeBeat' + ReadLat - prime'
    <3>1. CASE Fire
      BY <1>2, <1>3, <1>10, <1>11, <3>1
    <3>2. CASE ~Fire
      BY <1>2, <1>3, <1>11, <3>2
    <3>. QED
      BY <3>1, <3>2
  <2>2. prog[Taken]'.op = "STORE_OUT" /\ storeTotal' = storeTotal
    BY <1>1, <1>11
  <2>. QED
    BY <1>2, <1>5, <1>6, <1>14, <2>1, <2>2 DEF Reading
<1>. QED
  BY <1>13, <1>15

LEMMA StreamInit ==
  ASSUME ProgramsFit, ProgramsNarrow, ProgramsStored, Init
  PROVE  StreamInv
<1>1. /\ config \in Configs /\ prog \in Programs(config) /\ state = "sIdle"
      /\ outQ = <<>> /\ owed = <<>>
  BY DEF Init, CoreInit, StoreEngineInit
<1>2. LandedInv
  BY ComputeInit0, OutputInit DEF LandedInv
<1>3. Stored(config, prog) /\ Reading
  BY <1>1 DEF ProgramsStored, Reading
<1>4. Sending
  <2>1. Len(outQ) = 0 /\ outQ \in Seq(OutBeatType)
    BY <1>1
  <2>. QED
    BY <1>1, <2>1 DEF Sending, OutQDepth
<1>. QED
  BY <1>2, <1>3, <1>4 DEF StreamInv

LEMMA StreamCycle ==
  ASSUME StreamInv, NEW tvalid \in {FALSE} \cup {stream # <<>>}, NEW tready,
         Style = "block" => tready = TRUE, Cycle(tvalid, tready)
  PROVE  StreamInv'
<1>. DEFINE beat == Beat(tvalid)
<1>1. LandedInv /\ LandedInv' /\ CompositionInv /\ Held
  BY LandedCycle DEF StreamInv, LandedInv, ComputeInv
<1>2. /\ prog' = prog /\ config' = config
      /\ Pushing(beat) \/ Accepting \/ Idling \/ Executing(beat)
  BY <1>1, CycleCases
<1>3. /\ OutQueue(tready) /\ Owe(tready) /\ OutMemTick(DrainWrite, Advance, RdAddr)
      /\ Accept(Command) \/ Idle(Command) \/ Execute(beat)
  BY DEF Cycle, CoreTick
<1>4. Stored(config, prog)'
  BY <1>2, AskedKept DEF StreamInv
<1>5. Sending' /\ Reading'
  <2>1. CASE Pushing(beat) \/ Idling
    <3>1. state = "sIdle" /\ state' = "sIdle"
      BY <2>1 DEF Pushing, Idling, Idle
    <3>2. Command = None
      BY <1>3, <3>1 DEF Accept, AcceptLoad, AcceptCompute, AcceptStore, Idle, Execute, Load,
         Compute, Store
    <3>. QED
      BY <1>2, <1>3, <3>1, <3>2, SendNothing DEF StreamInv
  <2>2. CASE Accepting
    <3>1. Command # None /\ state = "sIdle" /\ Taken = tag - 2 /\ Accept(Command)
      BY <2>2 DEF Accepting, Accept
    <3>2. inst.tag = Taken + 1
      <4>1. H!CmdValid
        BY <3>1 DEF Command
      <4>2. inst.tag = tag - 1 /\ tag \in Nat
        BY <1>1, <4>1, TakenFacts
      <4>. QED
        BY <3>1, <4>2
    <3>3. CASE AcceptStore(Command)
      BY <1>2, <1>3, <2>2, <3>1, <3>2, <3>3, AcceptStreamStep
    <3>4. CASE AcceptLoad(Command) \/ AcceptCompute(Command)
      <4>1. state' # "sStore" /\ Command.op # "STORE_OUT"
        BY <3>4 DEF AcceptLoad, AcceptCompute
      <4>. QED
        BY <1>2, <1>3, <3>1, <4>1, SendNothing DEF StreamInv
    <3>. QED
      BY <3>1, <3>3, <3>4 DEF Accept
  <2>3. CASE Executing(beat)
    <3>1. /\ state # "sIdle" /\ Taken' = Taken /\ (Load(beat) \/ Compute \/ Store)
      BY <2>3 DEF Executing, Execute
    <3>2. Command = None
      BY <1>1, <3>1, EngineFacts DEF Command
    <3>3. CASE Store
      BY <1>2, <1>3, <3>1, <3>2, <3>3, StoreStreamStep
    <3>4. CASE Load(beat) \/ Compute
      <4>1. state # "sStore" /\ state' # "sStore"
        BY <3>4 DEF Load, Compute, ComputeInit, ComputeStream, ComputeReset, ComputeFinish
      <4>. QED
        BY <1>2, <1>3, <3>2, <4>1, SendNothing DEF StreamInv
    <3>. QED
      BY <3>1, <3>3, <3>4
  <2>. QED
    BY <1>2, <2>1, <2>2, <2>3
<1>. QED
  BY <1>1, <1>4, <1>5 DEF StreamInv

LEMMA StreamStutter ==
  ASSUME StreamInv, UNCHANGED vars
  PROVE  StreamInv'
<1>1. /\ UNCHANGED <<config, state, mem, pipe, prog, outcomes, ran>>
      /\ UNCHANGED <<storeTotal, storeBeat, rdPtr, prime, outQ, owed>>
  BY DEF vars, coreVars, memVars, storeVars, driverVars
<1>2. LandedInv'
  BY LandedStutter DEF StreamInv
<1>3. Taken' = Taken
  BY <1>1 DEF Taken
<1>4. /\ StoreBeats(Taken)' = StoreBeats(Taken) /\ ReadLat' = ReadLat /\ Style' = Style
      /\ Stored(config, prog)'
  BY <1>1, <1>3, AskedKept DEF StreamInv
<1>5. Sending'
  BY <1>1, <1>3, <1>4 DEF StreamInv, Sending, Owes
<1>6. Reading'
  BY <1>1, <1>3, <1>4 DEF StreamInv, Reading
<1>. QED
  BY <1>2, <1>4, <1>5, <1>6 DEF StreamInv

LEMMA StreamInvariance ==
  ASSUME ProgramsFit, ProgramsNarrow, ProgramsStored, "block" \notin Stalling
  PROVE  Spec => []StreamInv
<1>1. Init => StreamInv
  BY StreamInit
<1>2. StreamInv /\ [Next]_vars => StreamInv'
  <2>1. ASSUME StreamInv, Next PROVE StreamInv'
    <3>1. PICK tvalid \in {FALSE} \cup {stream # <<>>},
               tready \in {TRUE} \cup {Style \notin Stalling} : Cycle(tvalid, tready)
      BY <2>1 DEF Next
    <3>2. Style = "block" => tready = TRUE
      OBVIOUS
    <3>. QED
      BY <2>1, <3>1, <3>2, StreamCycle
  <2>. QED
    BY <2>1, StreamStutter
<1>. QED
  BY <1>1, <1>2, PTL DEF Spec

\* m_axis carries the rows of the product each STORE follows, in order, with tlast
\* on exactly the last one, under any back-pressure on a batched build and with no
\* stall on a single-batch one (what a stall does there is finding StoreBlock).
THEOREM StreamCarriesRows ==
  ASSUME ProgramsFit, ProgramsNarrow, ProgramsStored, "block" \notin Stalling
  PROVE  Spec => []StreamIsRows
<1>1. StreamInv => StreamIsRows
  <2>. SUFFICES ASSUME StreamInv PROVE StreamIsRows
    OBVIOUS
  <2>1. Sending /\ outQ \in Seq(OutBeatType) /\ Len(outQ) \in Nat
    BY DEF StreamInv, Sending
  <2>2. CASE state = "sStore"
    <3>1. Owes(owed, outQ, StoreBeats(Taken), storeBeat)
      BY <2>1, <2>2 DEF Sending
    <3>2. storeBeat \in 0 .. Len(StoreBeats(Taken)) - 1 /\ Len(StoreBeats(Taken)) \in Nat
      <4>1. Taken \in 1 .. Len(prog) /\ prog[Taken].op = "STORE_OUT"
        BY <2>2, StoringFacts DEF StreamInv, Reading
      <4>2. Len(StoreBeats(Taken)) \in Nat
        BY <4>1, StoringFacts, AskedType DEF StreamInv
      <4>. QED
        BY <2>2, <4>2 DEF StreamInv, Reading
    <3>. QED
      BY <2>1, <3>1, <3>2 DEF Owes, StreamIsRows
  <2>3. CASE state # "sStore"
    BY <2>1, <2>3 DEF Sending, StreamIsRows
  <2>. QED
    BY <2>2, <2>3
<1>. QED
  BY <1>1, StreamInvariance, PTL

\* storeDone is raised only when every row of the STORE is in outQ or delivered, so
\* the instructions that follow may overwrite the output memory.
THEOREM DoneMeansAllRead ==
  ASSUME ProgramsFit, ProgramsNarrow, ProgramsStored, "block" \notin Stalling
  PROVE  Spec => []DoneMeansRead
<1>1. StreamInv => DoneMeansRead
  BY DEF StreamInv, Sending, DoneMeansRead
<1>. QED
  BY <1>1, StreamInvariance, PTL

-----------------------------------------------------------------------------
(* Counters and queues stay in range.                                      *)

ComputeRange ==
  /\ cState \in {"cInit", "cStream", "cReset", "cDone"} /\ peCount \in 0 .. MaxAcc - 1
  /\ loadBeat \in 0 .. MaxN /\ activeIdx \in 0 .. MaxN - 1 /\ Len(inQ) <= InQDepth
DrainRange ==
  Len(tileAccums) \in 0 .. TileRows /\ drainFlush \in 0 .. WriteLat
StoreRange ==
  /\ storeTotal \in 0 .. MemRows /\ storeBeat \in 0 .. MemRows
  /\ rdPtr \in 0 .. MemRows + ReadLat /\ prime \in 0 .. ReadLat

RangeInv == StreamInv /\ ComputeRange /\ DrainRange /\ StoreRange

LEMMA AppendLen ==
  ASSUME NEW S, NEW q \in Seq(S), NEW e
  PROVE  Len(Append(q, e)) = Len(q) + 1 /\ Len(q) \in Nat
<1>1. q \in Seq(S \cup {e}) /\ e \in S \cup {e}
  OBVIOUS
<1>. HIDE <1>1
<1>. QED
  BY <1>1, AppendProperties, LenProperties

LEMMA ComputeRangeStep ==
  ASSUME ComputeInv, ComputeRange, NEW tvalid \in {FALSE} \cup {stream # <<>>}, NEW tready,
         Cycle(tvalid, tready)
  PROVE  ComputeRange'
<1>. DEFINE beat == Beat(tvalid)
<1>1. CompositionInv /\ Held /\ DataInv /\ Fits(config, prog) /\ config \in Configs
  BY DEF ComputeInv, CompositionInv
<1>2. /\ prog' = prog /\ config' = config
      /\ ComputeEngineTick(Command, beat)
      /\ Pushing(beat) \/ Accepting \/ Idling \/ Executing(beat)
  BY <1>1, CycleCases
<1>3. /\ MaxN \in Nat \ {0} /\ MaxAcc \in Nat /\ MaxAcc >= 2
      /\ MaxN' = MaxN /\ MaxAcc' = MaxAcc
  BY <1>1, <1>2, ConfigFacts DEF MaxN, MaxAcc
<1>4. Idle(None) \/ Accept(Command) \/ (state # "sIdle" /\ Execute(beat))
  BY <1>2 DEF Pushing, Accepting, Idling, Executing
<1>5. cState' \in {"cInit", "cStream", "cReset", "cDone"}
  BY <1>4 DEF ComputeRange, Idle, Accept, AcceptLoad, AcceptCompute, AcceptStore, Execute, Load,
     Compute, ComputeInit, ComputeStream, ComputeReset, ComputeFinish, Store, tileVars
<1>6. peCount' \in 0 .. MaxAcc - 1
  <2>1. peCount \in 0 .. MaxAcc - 1 /\ 0 \in 0 .. MaxAcc - 1 /\ peCount + 1 \in Nat
    BY <1>3 DEF ComputeRange
  <2>2. (peCount + 1) % MaxAcc \in 0 .. MaxAcc - 1
    BY <1>3, <2>1, ModRange
  <2>3. peCount' \in {0, peCount, (peCount + 1) % MaxAcc}
    BY <1>2 DEF ComputeEngineTick, ArrayTick, ArrayReset, PeIdle, PeRunning, PeDone, Counted
  <2>. QED
    BY <2>1, <2>2, <2>3
<1>7. loadBeat' \in 0 .. MaxN
  <2>1. CASE state = "sLoad" /\ loadBeat' = loadBeat + 1
    <3>1. Executing(beat)
      BY <1>2, <2>1 DEF Pushing, Accepting, Idling
    <3>2. Taken \in 1 .. Len(prog)
      BY <3>1 DEF Executing
    <3>3. loadBeat \in 0 .. prog[Taken].dim0 - 1 /\ prog[Taken].dim0 \in 1 .. MaxN
      BY <1>1, <2>1, <3>2 DEF DataInv, Loading, Fits, MaxN
    <3>. QED
      BY <1>3, <2>1, <3>3
  <2>2. CASE ~(state = "sLoad" /\ loadBeat' = loadBeat + 1)
    <3>1. loadBeat' \in {0, loadBeat}
      BY <1>4, <2>2 DEF Idle, Accept, AcceptLoad, AcceptCompute, AcceptStore, Execute, Load,
         Compute, Store, loadVars
    <3>2. 0 \in 0 .. MaxN /\ loadBeat \in 0 .. MaxN
      BY <1>3 DEF ComputeRange
    <3>. QED
      BY <3>1, <3>2
  <2>. QED
    BY <2>1, <2>2
<1>8. activeIdx' \in 0 .. MaxN - 1
  <2>1. activeIdx \in 0 .. MaxN - 1 /\ 0 \in 0 .. MaxN - 1
    BY <1>3 DEF ComputeRange
  <2>2. Filling => NextRow \in 0 .. MaxN - 1
    <3>. SUFFICES ASSUME Filling PROVE NextRow \in 0 .. MaxN - 1
      OBVIOUS
    <3>1. /\ state = "sCompute" /\ rows \in Nat /\ rows >= 2 /\ rows <= MaxN /\ Fed \in Nat
      BY <1>1, ComputeFacts DEF Filling
    <3>2. activeIdx = Fed % rows /\ Fed % rows \in 0 .. rows - 1
      BY <1>1, <3>1, ModRange DEF DataInv, Queued
    <3>. QED
      BY <1>3, <3>1, <3>2 DEF NextRow
  <2>3. activeIdx' \in {0, activeIdx} \/ (Filling /\ activeIdx' = NextRow)
    BY <1>2 DEF ComputeEngineTick, ActRead, EnqFire
  <2>. QED
    BY <2>1, <2>2, <2>3
<1>9. Len(inQ') <= InQDepth
  <2>. DEFINE rest == IF InQTake THEN Tail(inQ) ELSE inQ
              P == (Nat \X Nat) \X (Nat \X Nat)
  <2>1. inQ \in Seq(P) /\ Len(inQ) <= 2
    <3>1. inQ = <<>> \/ IsPairs(inQ, Taken, Latest("LOAD_ACT", Taken), rows,
                               Base + Len(accum) + Len(slice))
      BY <1>1 DEF DataInv, Queued
    <3>2. inQ \in Seq(P)
      <4>1. <<>> \in Seq(P)
        OBVIOUS
      <4>2. ASSUME NEW k0, IsPairs(inQ, Taken, Latest("LOAD_ACT", Taken), rows, k0)
            PROVE  inQ \in Seq(P)
        BY <4>2 DEF IsPairs
      <4>. QED
        BY <3>1, <4>1, <4>2
    <3>. QED
      BY <3>2 DEF ComputeRange, InQDepth
  <2>2. rest \in Seq(P) /\ Len(rest) \in Nat /\ Len(rest) <= Len(inQ) /\ Len(inQ) \in Nat
    <3>1. CASE InQTake
      <4>1. inQ # <<>>
        BY <3>1 DEF InQTake
      <4>2. Tail(inQ) \in Seq(P) /\ Len(Tail(inQ)) = Len(inQ) - 1 /\ Len(inQ) \in Nat
        BY <2>1, <4>1, HeadTailProperties
      <4>3. Len(Tail(inQ)) \in Nat
        BY <4>2
      <4>. QED
        BY <3>1, <4>2, <4>3
    <3>2. CASE ~InQTake
      <4>1. Len(inQ) \in Nat
        BY <2>1
      <4>. QED
        BY <2>1, <3>2, <4>1
    <3>. QED
      BY <3>1, <3>2
  <2>3. inQ' = <<>> \/ inQ' = rest \/ (Len(inQ) < 2 /\ inQ' = Append(rest, <<beat, actRd>>))
    BY <1>2 DEF ComputeEngineTick, Queues, EnqFire, InQDepth
  <2>. HIDE DEF rest
  <2>4. Len(<<>>) = 0 /\ Len(Append(rest, <<beat, actRd>>)) = Len(rest) + 1
    BY <2>2, AppendLen
  <2>. QED
    BY <2>1, <2>2, <2>3, <2>4 DEF InQDepth
<1>. QED
  BY <1>3, <1>5, <1>6, <1>7, <1>8, <1>9 DEF ComputeRange, InQDepth

LEMMA DrainRangeStep ==
  ASSUME LandedInv, LandedInv', DrainRange, Drain, DrainFlush, config' = config
  PROVE  DrainRange'
<1>1. /\ TileRows \in Nat /\ TileRows' = TileRows /\ WriteLat' = WriteLat /\ WriteLat \in {0, 1}
      /\ config \in Configs /\ Draining /\ Draining'
  <2>1. config \in Configs
    BY DEF LandedInv, ComputeInv, CompositionInv
  <2>. QED
    BY <2>1, BuildFacts, SameBuild DEF TileRows, WriteLat, LandedInv, OutputInv
<1>2. drainFlush' \in 0 .. WriteLat
  BY <1>1 DEF DrainFlush, DrainRange
<1>3. Len(tileAccums') \in 0 .. TileRows
  <2>1. CASE Capture
    <3>1. tileAccums' = [k \in 1 .. TileRows |-> <<accum, k - 1>>]
      BY <2>1 DEF Drain, TileRows
    <3>. QED
      BY <1>1, <3>1
  <2>2. CASE ~Capture /\ drainBusy
    <3>1. Pos \in 0 .. TileRows - 1 /\ tileAccums' = Tail(tileAccums)
      BY <1>1, <2>2, PosStep
    <3>2. IsRows(tileAccums, Taken, drainTile, Pos)
      BY <1>1, <2>2 DEF Draining
    <3>3. IsRows(Tail(tileAccums), Taken, drainTile, Pos + 1)
      <4>1. Pos \in Nat /\ Pos < TileRows
        BY <1>1, <3>1
      <4>. QED
        BY <1>1, <3>2, <4>1, RowsTail
    <3>4. Len(tileAccums') = TileRows - (Pos + 1)
      BY <3>1, <3>3 DEF IsRows
    <3>. QED
      BY <1>1, <3>1, <3>4
  <2>3. CASE ~Capture /\ ~drainBusy
    BY <2>3 DEF Drain, DrainRange
  <2>. QED
    BY <2>1, <2>2, <2>3
<1>. QED
  BY <1>1, <1>2, <1>3 DEF DrainRange

LEMMA StoreRangeStep ==
  ASSUME StreamInv, StoreRange, NEW tvalid \in {FALSE} \cup {stream # <<>>}, NEW tready,
         Cycle(tvalid, tready)
  PROVE  StoreRange'
<1>. DEFINE beat == Beat(tvalid)
<1>1. /\ CompositionInv /\ Held /\ config \in Configs /\ prog \in Seq(Operation)
      /\ Fits(config, prog) /\ Narrow(config, prog) /\ Stored(config, prog)
  BY DEF StreamInv, LandedInv, ComputeInv, CompositionInv, OutputInv
<1>2. /\ prog' = prog /\ config' = config
      /\ Pushing(beat) \/ Accepting \/ Idling \/ Executing(beat)
  BY <1>1, CycleCases
<1>3. /\ MemRows \in Nat \ {0} /\ MemRows' = MemRows /\ ReadLat' = ReadLat /\ ReadLat \in {2, 4}
  BY <1>1, <1>2, BuildFacts, SameBuild, AskedKept DEF ReadLat
<1>4. ASSUME NEW i \in 1 .. Len(prog), prog[i].op = "STORE_OUT"
      PROVE  /\ Len(StoreBeats(i)) \in 0 .. MemRows
             /\ Len(StoreBeats(i)) = prog[i].dim0 \div BeatLanes
  <2>1. Len(StoreBeats(i)) \in Nat \ {0} /\ Len(StoreBeats(i)) = prog[i].dim0 \div BeatLanes
    BY <1>1, <1>4, AskedType
  <2>2. Len(StoreBeats(i)) - 1 \in 0 .. Len(StoreBeats(i)) - 1
    BY <2>1
  <2>3. Len(StoreBeats(i)) - 1 \in 0 .. MemRows - 1
    BY <1>1, <1>4, <2>2, AskedRow
  <2>. QED
    BY <1>3, <2>1, <2>3
<1>5. CASE UNCHANGED <<storeTotal, storeBeat, rdPtr, prime>>
  BY <1>3, <1>5 DEF StoreRange
<1>6. CASE Accepting /\ AcceptStore(Command)
  <2>1. /\ Taken + 1 \in 1 .. Len(prog) /\ prog[Taken + 1].op = "STORE_OUT"
        /\ storeTotal' = prog[Taken + 1].dim0 \div BeatLanes
        /\ storeBeat' = 0 /\ rdPtr' = 0 /\ prime' = ReadLat
    BY <1>6 DEF Accepting, AcceptStore
  <2>. QED
    BY <1>3, <1>4, <2>1 DEF StoreRange
<1>7. CASE Executing(beat) /\ Store
  <2>1. /\ state = "sStore" /\ Taken \in 1 .. Len(prog) /\ prog[Taken].op = "STORE_OUT"
    BY <1>7 DEF Executing, Store, StreamInv, Reading
  <2>2. /\ storeTotal = Len(StoreBeats(Taken)) /\ storeBeat \in 0 .. storeTotal - 1
        /\ prime \in 0 .. ReadLat /\ rdPtr = storeBeat + ReadLat - prime
    BY <2>1 DEF StreamInv, Reading
  <2>3. storeTotal \in 0 .. MemRows
    BY <1>4, <2>1, <2>2
  <2>4. /\ storeBeat' = storeBeat \/ storeBeat' = storeBeat + 1
        /\ rdPtr' = rdPtr \/ rdPtr' = rdPtr + 1
        /\ prime' = IF prime = 0 THEN prime ELSE prime - 1
        /\ storeTotal' = storeTotal
    BY <1>7 DEF Store, Primed
  <2>. QED
    BY <1>3, <2>2, <2>3, <2>4 DEF StoreRange
<1>8. \/ UNCHANGED <<storeTotal, storeBeat, rdPtr, prime>>
      \/ Accepting /\ AcceptStore(Command)
      \/ Executing(beat) /\ Store
  BY <1>2 DEF Pushing, Accepting, Idling, Executing, Idle, Accept, Execute
<1>. QED
  BY <1>5, <1>6, <1>7, <1>8

LEMMA RangeInit ==
  ASSUME StreamInv, Init
  PROVE  RangeInv
<1>1. /\ config \in Configs /\ cState = "cInit" /\ peCount = 0 /\ loadBeat = 0 /\ activeIdx = 0
      /\ inQ = <<>> /\ tileAccums = <<>> /\ drainFlush = 0
      /\ storeTotal = 0 /\ storeBeat = 0 /\ rdPtr = 0 /\ prime = 0
  BY DEF Init, CoreInit, ArrayInit, ComputeEngineInit, StoreEngineInit
<1>2. /\ MaxN \in Nat \ {0} /\ MaxAcc \in Nat /\ MaxAcc >= 2 /\ MemRows \in Nat /\ TileRows \in Nat
      /\ ReadLat \in {2, 4} /\ WriteLat \in {0, 1} /\ Len(<<>>) = 0
  <2>1. SubBeats \in Nat /\ Batch \in Nat
    BY <1>1, BuildFacts
  <2>2. TileRows \in Nat
    BY <2>1 DEF TileRows
  <2>. QED
    BY <1>1, <2>2, ConfigFacts, BuildFacts DEF ReadLat, WriteLat
<1>. QED
  BY <1>1, <1>2 DEF RangeInv, ComputeRange, DrainRange, StoreRange, InQDepth

LEMMA RangeStutter ==
  ASSUME RangeInv, UNCHANGED vars
  PROVE  RangeInv'
<1>1. StreamInv'
  BY StreamStutter DEF RangeInv
<1>2. /\ UNCHANGED <<config, cState, peCount, loadBeat, activeIdx, inQ, tileAccums, drainFlush>>
      /\ UNCHANGED <<storeTotal, storeBeat, rdPtr, prime>>
  BY DEF vars, coreVars, arrayVars, computeVars, loadVars, tileVars, drainVars, storeVars
<1>3. /\ MaxN' = MaxN /\ MaxAcc' = MaxAcc /\ MemRows' = MemRows /\ TileRows' = TileRows
      /\ ReadLat' = ReadLat /\ WriteLat' = WriteLat
  BY <1>2, SameBuild DEF MaxN, MaxAcc, ReadLat, WriteLat, Batch
<1>. QED
  BY <1>1, <1>2, <1>3 DEF RangeInv, ComputeRange, DrainRange, StoreRange, InQDepth

LEMMA RangeInvariance ==
  ASSUME ProgramsFit, ProgramsNarrow, ProgramsStored, "block" \notin Stalling
  PROVE  Spec => []RangeInv
<1>1. Init => RangeInv
  BY StreamInit, RangeInit
<1>2. RangeInv /\ [Next]_vars => RangeInv'
  <2>1. ASSUME RangeInv, Next PROVE RangeInv'
    <3>1. PICK tvalid \in {FALSE} \cup {stream # <<>>},
               tready \in {TRUE} \cup {Style \notin Stalling} : Cycle(tvalid, tready)
      BY <2>1 DEF Next
    <3>2. StreamInv /\ LandedInv /\ ComputeInv /\ CompositionInv /\ Held
      BY <2>1 DEF RangeInv, StreamInv, LandedInv, ComputeInv
    <3>3. Style = "block" => tready = TRUE
      OBVIOUS
    <3>4. StreamInv' /\ LandedInv'
      BY <3>1, <3>2, <3>3, StreamCycle, LandedCycle
    <3>5. config' = config /\ Drain /\ DrainFlush
      BY <3>1 DEF Cycle, CoreTick, ComputeEngineTick
    <3>6. ComputeRange'
      BY <2>1, <3>1, <3>2, ComputeRangeStep DEF RangeInv
    <3>7. DrainRange'
      BY <2>1, <3>2, <3>4, <3>5, DrainRangeStep DEF RangeInv
    <3>8. StoreRange'
      BY <2>1, <3>1, <3>2, StoreRangeStep DEF RangeInv
    <3>. QED
      BY <3>4, <3>6, <3>7, <3>8 DEF RangeInv
  <2>. QED
    BY <2>1, RangeStutter
<1>. QED
  BY <1>1, <1>2, PTL DEF Spec

\* Registers, queues and histories of the composition have their types: no pointer
\* leaves its memory, no counter its width and no queue its depth.
THEOREM CoreTypeCorrect ==
  ASSUME ProgramsFit, ProgramsNarrow, ProgramsStored, "block" \notin Stalling
  PROVE  Spec => []TypeOK
<1>1. RangeInv => TypeOK
  <2>. SUFFICES ASSUME RangeInv PROVE TypeOK
    OBVIOUS
  <2>1. StreamInv /\ LandedInv /\ ComputeInv /\ CompositionInv
    BY DEF RangeInv, StreamInv, LandedInv, ComputeInv
  <2>2. config \in Configs /\ state \in CoreStates /\ prog \in Seq(Operation)
    BY <2>1 DEF CompositionInv
  <2>3. H!TypeOK
    <3>1. D!TypeOK
      BY <2>1 DEF CompositionInv, D!DriverInv, D!ChannelInv, D!HandlerInv
    <3>. QED
      BY <3>1 DEF H!TypeOK, D!TypeOK, H!HandlerTypeOK, D!HandlerTypeOK, H!Txn, D!Txn,
         H!WriteKinds, D!WriteKinds, H!ReadKinds, D!ReadKinds, H!Address, D!Address, H!Offsets,
         D!Offsets, H!Instruction, D!Instruction, H!Opcodes, D!Opcodes, H!Resp, D!Resp,
         H!ReadBeat, D!ReadBeat, H!Status, D!Status, H!DispState, D!DispState
  <2>4. ComputeEngineTypeOK
    <3>1. Len(slice) <= 1
      BY <2>1 DEF ComputeInv, DataInv, Queued
    <3>2. TileRows \in Nat /\ WriteLat \in {0, 1} /\ TileRows = Batch * SubBeats
      BY <2>2, BuildFacts DEF TileRows, WriteLat
    <3>3. Len(tileAccums) <= Batch * SubBeats
      BY <3>2 DEF RangeInv, DrainRange
    <3>. QED
      BY <2>1, <3>1, <3>3 DEF RangeInv, ComputeRange, DrainRange, ComputeInv, DataInv, Array,
         LandedInv, OutputInv, Draining, ComputeEngineTypeOK
  <2>5. StoreEngineTypeOK
    <3>1. Len(outQ) <= OutQDepth
      <4>1. Len(outQ) \in Nat /\ Len(outQ) <= IF Style = "ultra" THEN OutQDepth ELSE 1
        BY <2>1 DEF StreamInv, Sending
      <4>. QED
        BY <4>1 DEF OutQDepth
    <3>. QED
      BY <3>1 DEF RangeInv, StoreRange, StoreEngineTypeOK
  <2>. QED
    BY <2>2, <2>3, <2>4, <2>5 DEF TypeOK, CoreTypeOK
<1>. QED
  BY <1>1, RangeInvariance, PTL

-----------------------------------------------------------------------------
(* The composition keeps the contract of CoreService.                      *)

\* The flags of a queue's beats follow what is enqueued and what is taken.
Flags(q) == [k \in 1 .. Len(q) |-> q[k].last]

LEMMA FlagsTail ==
  ASSUME NEW q \in Seq(OutBeatType)
  PROVE  /\ Flags(q) \in Seq(BOOLEAN) /\ Len(Flags(q)) = Len(q)
         /\ q # <<>> => Flags(q) # <<>> /\ Tail(q) \in Seq(OutBeatType)
                        /\ Flags(Tail(q)) = Tail(Flags(q))
<1>1. ASSUME NEW k \in 1 .. Len(q) PROVE q[k].last \in BOOLEAN
  <2>1. q[k] \in OutBeatType
    OBVIOUS
  <2>. QED
    BY <2>1 DEF OutBeatType
<1>2. Flags(q) \in Seq(BOOLEAN) /\ Len(Flags(q)) = Len(q) /\ Len(q) \in Nat
  BY <1>1 DEF Flags
<1>3. ASSUME q # <<>>
      PROVE  Flags(q) # <<>> /\ Tail(q) \in Seq(OutBeatType) /\ Flags(Tail(q)) = Tail(Flags(q))
  <2>1. Len(q) \in Nat \ {0} /\ Flags(q) # <<>>
    BY <1>2, <1>3, EmptySeq
  <2>2. /\ Tail(q) \in Seq(OutBeatType) /\ Len(Tail(q)) = Len(q) - 1
        /\ \A k \in 1 .. Len(Tail(q)) : Tail(q)[k] = q[k + 1]
    BY <1>3, HeadTailProperties
  <2>3. /\ Tail(Flags(q)) \in Seq(BOOLEAN) /\ Len(Tail(Flags(q))) = Len(Flags(q)) - 1
        /\ \A k \in 1 .. Len(Tail(Flags(q))) : Tail(Flags(q))[k] = Flags(q)[k + 1]
    BY <1>2, <2>1, HeadTailProperties
  <2>4. \A k \in 1 .. Len(Tail(q)) : k + 1 \in 1 .. Len(q) /\ Flags(q)[k + 1] = q[k + 1].last
    BY <2>1, <2>2 DEF Flags
  <2>5. \A k \in 1 .. Len(Tail(q)) : Flags(Tail(q))[k] = Tail(Flags(q))[k]
    BY <1>2, <2>2, <2>3, <2>4 DEF Flags
  <2>6. Flags(Tail(q)) \in Seq(BOOLEAN) /\ Len(Flags(Tail(q))) = Len(Tail(q))
    <3>1. ASSUME NEW k \in 1 .. Len(Tail(q)) PROVE Tail(q)[k].last \in BOOLEAN
      <4>1. Tail(q)[k] \in OutBeatType
        BY <2>2
      <4>. QED
        BY <4>1 DEF OutBeatType
    <3>. QED
      BY <2>2, <3>1 DEF Flags
  <2>. HIDE DEF Flags
  <2>7. Len(Flags(Tail(q))) = Len(Tail(Flags(q)))
    BY <1>2, <2>2, <2>3, <2>6
  <2>. QED
    BY <2>1, <2>2, <2>3, <2>5, <2>6, <2>7, SeqEqual
<1>. QED
  BY <1>2, <1>3

LEMMA FlagsAppend ==
  ASSUME NEW q \in Seq(OutBeatType), NEW e \in OutBeatType
  PROVE  Flags(Append(q, e)) = Append(Flags(q), e.last)
<1>1. Append(q, e) \in Seq(OutBeatType) /\ Len(Append(q, e)) = Len(q) + 1 /\ Len(q) \in Nat
  OBVIOUS
<1>2. Flags(q) \in Seq(BOOLEAN) /\ Len(Flags(q)) = Len(q)
  BY FlagsTail
<1>3. e.last \in BOOLEAN
  BY DEF OutBeatType
<1>4. /\ Flags(Append(q, e)) \in Seq(BOOLEAN) /\ Len(Flags(Append(q, e))) = Len(q) + 1
      /\ Append(Flags(q), e.last) \in Seq(BOOLEAN) /\ Len(Append(Flags(q), e.last)) = Len(q) + 1
  <2>1. Flags(Append(q, e)) \in Seq(BOOLEAN) /\ Len(Flags(Append(q, e))) = Len(q) + 1
    BY <1>1, FlagsTail
  <2>2. ASSUME NEW f \in Seq(BOOLEAN), NEW x \in BOOLEAN
        PROVE  Append(f, x) \in Seq(BOOLEAN) /\ Len(Append(f, x)) = Len(f) + 1
    OBVIOUS
  <2>. QED
    BY <1>2, <1>3, <2>1, <2>2
<1>5. ASSUME NEW k \in 1 .. Len(q) + 1
      PROVE  Flags(Append(q, e))[k] = Append(Flags(q), e.last)[k]
  <2>1. Flags(Append(q, e))[k] = Append(q, e)[k].last
    BY <1>1 DEF Flags
  <2>2. CASE k = Len(q) + 1
    BY <1>1, <1>2, <2>1, <2>2
  <2>3. CASE k \in 1 .. Len(q)
    <3>1. Append(q, e)[k] = q[k] /\ Append(Flags(q), e.last)[k] = Flags(q)[k]
      BY <1>1, <1>2, <2>3
    <3>. QED
      BY <2>1, <2>3, <3>1 DEF Flags
  <2>4. ASSUME NEW n \in Nat, NEW j \in 1 .. n + 1, j # n + 1 PROVE j \in 1 .. n
    BY <2>4
  <2>. QED
    BY <1>1, <2>2, <2>3, <2>4
<1>. QED
  BY <1>4, <1>5, SeqEqual

LEMMA ContractQueue ==
  ASSUME StreamInv, NEW tready, OutQueue(tready), outQ' \in Seq(OutBeatType),
         Fire => (Unmoved = 1 <=> storeBeat + 1 = storeTotal)
  PROVE  Service!Queue(Fire, Deliver(tready))
<1>. DEFINE rest == RestQ(tready)
<1>1. outQ \in Seq(OutBeatType)
  BY DEF StreamInv, Sending
<1>2. LastFlags = Flags(outQ) /\ LastFlags' = Flags(outQ')
  BY DEF LastFlags, Flags
<1>3. /\ Deliver(tready) => LastFlags # <<>>
      /\ rest \in Seq(OutBeatType)
      /\ Flags(rest) = IF Deliver(tready) THEN Tail(LastFlags) ELSE LastFlags
  BY <1>1, <1>2, FlagsTail DEF Deliver, RestQ
<1>4. CASE ~Fire
  <2>1. outQ' = rest
    BY <1>4 DEF OutQueue, RestQ
  <2>2. Flags(rest) \in Seq(BOOLEAN)
    BY <1>3, FlagsTail
  <2>. HIDE DEF rest
  <2>3. Flags(rest) \o <<>> = Flags(rest)
    BY <2>2, ConcatEmptySeq
  <2>. QED
    BY <1>2, <1>3, <1>4, <2>1, <2>3 DEF Service!Queue
<1>5. CASE Fire
  <2>1. outQ' = Append(rest, OutBeat)
    BY <1>5 DEF OutQueue, RestQ
  <2>. HIDE DEF rest
  <2>2. OutBeat \in OutBeatType
    <3>1. Len(outQ') = Len(rest) + 1 /\ outQ'[Len(rest) + 1] = OutBeat /\ Len(rest) \in Nat
      BY <1>3, <2>1
    <3>. QED
      BY <3>1
  <2>3. OutBeat.last = (Unmoved = 1)
    BY <1>5 DEF OutBeat
  <2>4. Flags(outQ') = Append(Flags(rest), Unmoved = 1)
    BY <1>3, <2>1, <2>2, <2>3, FlagsAppend
  <2>5. Flags(rest) \in Seq(BOOLEAN) /\ (Unmoved = 1) \in BOOLEAN
    BY <1>3, FlagsTail
  <2>6. Append(Flags(rest), Unmoved = 1) = Flags(rest) \o <<Unmoved = 1>>
    BY <2>5, AppendIsConcat
  <2>. QED
    BY <1>2, <1>3, <1>5, <2>4, <2>6 DEF Service!Queue
<1>. QED
  BY <1>4, <1>5

\* An engine with nothing to do owes no beats; taking a command is owing its beats.
LEMMA ContractStarts ==
  ASSUME StreamInv, NEW tvalid \in {FALSE} \cup {stream # <<>>}, NEW tready,
         Cycle(tvalid, tready), state = "sIdle"
  PROVE  /\ ~Fire /\ Unmoved = 0
         /\ Unmoved' = IF H!CmdValid THEN Task(inst).beats ELSE 0
<1>. DEFINE beat == Beat(tvalid)
<1>1. CompositionInv /\ Held /\ DataInv
  BY DEF StreamInv, LandedInv, ComputeInv
<1>2. /\ prog' = prog /\ config' = config /\ ComputeEngineTick(Command, beat)
      /\ Pushing(beat) \/ Accepting \/ Idling \/ Executing(beat)
  BY <1>1, CycleCases
<1>3. ~Fire /\ Unmoved = 0
  BY DEF Fire, Unmoved
<1>4. Taken \in Nat /\ Taken' = IF H!CmdValid THEN Taken + 1 ELSE Taken
  BY <1>1, TakenStep, TakenFacts
<1>5. CASE Pushing(beat) \/ Idling
  <2>1. state' = "sIdle" /\ Taken' = Taken
    BY <1>5 DEF Pushing, Idling, Idle
  <2>. QED
    BY <1>3, <1>4, <2>1 DEF Unmoved
<1>6. CASE Accepting
  <2>1. /\ H!CmdValid /\ Accept(Command)
    BY <1>4, <1>6 DEF Accepting
  <2>2. inst.tag = Taken'
    BY <1>1, <1>6, <2>1, TakenFacts DEF Accepting
  <2>3. /\ Taken' \in 1 .. Len(prog) /\ prog[Taken'] \in Operation /\ Command = prog[Taken']
        /\ config \in Configs /\ IsBeats(stream', Taken', BeatCount(prog[Taken']), 0)
    BY <1>1, <1>2, <1>6, AcceptFacts
  <2>4. inst.tag \in DOMAIN prog
    BY <1>1, <2>2, <2>3 DEF CompositionInv
  <2>5. CASE AcceptStore(Command)
    <3>1. /\ state' = "sStore" /\ storeBeat' = 0 /\ prog[inst.tag].op = "STORE_OUT"
          /\ storeTotal' = prog[inst.tag].dim0 \div BeatLanes
      BY <2>2, <2>3, <2>5 DEF AcceptStore
    <3>2. prog[inst.tag].dim0 \div BeatLanes \in Nat
      <4>1. prog[inst.tag].dim0 \in Nat
        BY <2>2, <2>3 DEF Operation
      <4>2. BeatLanes \in Nat \ {0}
        BY <2>3, LaneFacts
      <4>. QED
        BY <4>1, <4>2
    <3>. QED
      BY <2>1, <2>4, <1>3, <3>1, <3>2 DEF Unmoved, Task
  <2>6. CASE AcceptLoad(Command) \/ AcceptCompute(Command)
    <3>1. state' \in {"sLoad", "sCompute"} /\ prog[inst.tag].op # "STORE_OUT"
      BY <2>2, <2>3, <2>6 DEF AcceptLoad, AcceptCompute
    <3>2. BeatCount(prog[Taken']) \in Nat
      BY <2>3, BeatCountType
    <3>3. Len(stream') = BeatCount(prog[inst.tag])
      BY <2>2, <2>3, <3>2 DEF IsBeats
    <3>. QED
      BY <2>1, <2>4, <1>3, <3>1, <3>3 DEF Unmoved, Task
  <2>. QED
    BY <2>1, <2>5, <2>6 DEF Accept
<1>7. ~Executing(beat)
  BY DEF Executing
<1>. QED
  BY <1>2, <1>5, <1>6, <1>7

\* The execution moves at most one of its beats in a cycle, in its direction.
LEMMA ContractMoves ==
  ASSUME StreamInv, NEW tvalid \in {FALSE} \cup {stream # <<>>}, NEW tready,
         Cycle(tvalid, tready), state # "sIdle"
  PROVE  /\ Unmoved \in Nat
         /\ Fire => (Unmoved = 1 <=> storeBeat + 1 = storeTotal)
         /\ \/ ~Fire /\ Unmoved' = Unmoved
            \/ /\ Unmoved > 0 /\ Unmoved' = Unmoved - 1
               /\ Task(inst).dir = IF Fire THEN "out" ELSE "in"
<1>. DEFINE beat == Beat(tvalid)
<1>1. CompositionInv /\ Held /\ DataInv /\ Fits(config, prog)
  BY DEF StreamInv, LandedInv, ComputeInv
<1>2. /\ prog' = prog /\ config' = config /\ ComputeEngineTick(Command, beat)
      /\ beat = None \/ (stream # <<>> /\ beat = Head(stream))
      /\ Pushing(beat) \/ Accepting \/ Idling \/ Executing(beat)
  BY <1>1, CycleCases
<1>3. Executing(beat) /\ Dma(beat)
  BY <1>2 DEF Pushing, Accepting, Idling, Executing
<1>4. /\ inst.tag = Taken /\ Taken \in 1 .. Len(prog) /\ Taken \in DOMAIN prog
      /\ config \in Configs
  <2>1. Taken = tag - 1 /\ dispState # "idle" /\ Taken \in 1 .. Len(prog)
    BY <1>1, <1>3, TakenFacts DEF CompositionInv, Executing
  <2>. QED
    BY <1>1, <2>1 DEF Held, CompositionInv
<1>5. Load(beat) \/ Compute \/ Store
  BY <1>3 DEF Executing, Execute
<1>6. CASE Store
  <2>1. /\ state = "sStore" /\ prog[Taken].op = "STORE_OUT"
        /\ storeBeat \in 0 .. storeTotal - 1 /\ storeTotal = Len(StoreBeats(Taken))
    BY <1>6 DEF Store, StreamInv, Reading
  <2>2. storeTotal \in Nat
    BY <1>4, <2>1, StoringFacts, AskedType DEF StreamInv
  <2>3. Unmoved = storeTotal - storeBeat /\ Unmoved \in Nat \ {0}
        /\ (Unmoved = 1 <=> storeBeat + 1 = storeTotal)
    BY <2>1, <2>2 DEF Unmoved
  <2>4. Task(inst).dir = "out"
    BY <1>4, <2>1 DEF Task
  <2>5. CASE ~Fire
    <3>1. state' = "sStore" /\ storeTotal' = storeTotal /\ storeBeat' = storeBeat
      BY <1>6, <2>1, <2>5 DEF Store, StoreDone
    <3>. QED
      BY <2>3, <2>5, <2>1, <3>1 DEF Unmoved
  <2>6. CASE Fire
    <3>1. storeTotal' = storeTotal /\ storeBeat' = storeBeat + 1
          /\ state' = IF storeBeat + 1 = storeTotal THEN "sIdle" ELSE "sStore"
      BY <1>6, <2>1, <2>6 DEF Store, StoreDone
    <3>2. Unmoved' = Unmoved - 1
      BY <2>1, <2>2, <2>3, <3>1 DEF Unmoved
    <3>. QED
      BY <2>3, <2>4, <2>6, <3>2
  <2>. QED
    BY <2>5, <2>6
<1>7. CASE Load(beat)
  <2>1. /\ state = "sLoad" /\ prog[Taken].op = "LOAD_ACT" /\ ~Fire
        /\ loadBeat \in 0 .. loadTotal - 1 /\ IsBeats(stream, Taken, loadTotal, loadBeat)
    BY <1>1, <1>7 DEF Load, DataInv, Loading, Fire
  <2>2. loadTotal \in Nat
    <3>1. loadTotal = prog[Taken].dim0
      BY <1>1, <2>1 DEF DataInv, Loading
    <3>. QED
      BY <1>1, <1>4, <3>1, OperationFacts DEF CompositionInv, Operation
  <2>3. Unmoved = Len(stream) /\ Len(stream) = loadTotal - loadBeat /\ Unmoved \in Nat \ {0}
    BY <2>1, <2>2 DEF Unmoved, IsBeats
  <2>4. Task(inst).dir = "in"
    BY <1>4, <2>1 DEF Task
  <2>5. CASE beat = None
    <3>1. state' = state /\ stream' = stream
      BY <1>3, <1>7, <2>5 DEF Load, Dma
    <3>. QED
      BY <2>1, <2>3, <3>1 DEF Unmoved
  <2>6. CASE beat # None
    <3>1. stream' = Tail(stream) /\ Len(stream') = Len(stream) - 1
      <4>1. stream # <<>> /\ stream' = Tail(stream)
        BY <1>2, <1>3, <2>1, <2>6 DEF Dma, StreamReady
      <4>. QED
        BY <2>1, <4>1, HeadTailProperties DEF IsBeats
    <3>2. state' = IF loadBeat + 1 = loadTotal THEN "sIdle" ELSE "sLoad"
      BY <1>7, <2>1, <2>6 DEF Load, LoadDone
    <3>3. Unmoved' = Unmoved - 1
      BY <2>1, <2>2, <2>3, <3>1, <3>2 DEF Unmoved
    <3>. QED
      BY <2>1, <2>3, <2>4, <3>3
  <2>. QED
    BY <2>5, <2>6
<1>8. CASE Compute
  <2>1. state = "sCompute" /\ prog[Taken].op = "COMPUTE_MM" /\ ~Fire
    BY <1>1, <1>8 DEF Compute, DataInv, Tiling, Fire
  <2>2. stream \in Seq(Nat \X Nat) /\ Unmoved = Len(stream) /\ Unmoved \in Nat
    BY <1>1, <2>1 DEF Unmoved, DataInv, Tiling, IsBeats
  <2>3. Task(inst).dir = "in"
    BY <1>4, <2>1 DEF Task
  <2>4. CASE cState = "cDone"
    <3>1. stream = <<>>
      BY <1>1, <2>1, <2>4, TilesDone
    <3>2. stream' = <<>> /\ Len(<<>>) = 0
      BY <1>2, <1>3, <3>1 DEF Dma
    <3>3. state' \in {"sIdle", "sCompute"}
      BY <1>8, <2>1 DEF Compute, ComputeInit, ComputeStream, ComputeReset, ComputeFinish
    <3>4. Unmoved = 0 /\ Unmoved' = 0
      BY <2>1, <3>1, <3>2, <3>3 DEF Unmoved
    <3>. QED
      BY <2>1, <3>4
  <2>5. CASE cState # "cDone"
    <3>1. state' = "sCompute" /\ Unmoved' = Len(stream')
      BY <1>8, <2>1, <2>5 DEF Compute, ComputeInit, ComputeStream, ComputeReset, ComputeFinish,
         Unmoved
    <3>2. CASE beat # None /\ StreamReady
      <4>1. stream # <<>> /\ stream' = Tail(stream)
        BY <1>2, <1>3, <3>2 DEF Dma
      <4>2. Len(stream') = Len(stream) - 1 /\ Len(stream) \in Nat \ {0}
        BY <2>2, <4>1, HeadTailProperties, EmptySeq
      <4>. QED
        BY <2>1, <2>2, <2>3, <3>1, <4>2
    <3>3. CASE ~(beat # None /\ StreamReady)
      <4>1. stream' = stream
        BY <1>3, <3>3 DEF Dma
      <4>. QED
        BY <2>1, <2>2, <3>1, <4>1
    <3>. QED
      BY <3>2, <3>3
  <2>. QED
    BY <2>4, <2>5
<1>. QED
  BY <1>5, <1>6, <1>7, <1>8

\* What a cycle does to the software's side of the contract.
LEMMA ContractAccepts ==
  ASSUME CompositionInv, H!Record
  PROVE  Service!Accept \/ UNCHANGED accepted
<1>1. D!TypeOK /\ D!Whereabouts
  BY DEF CompositionInv, D!DriverInv, D!ChannelInv, D!HandlerInv
<1>2. CASE H!InstrAccept
  <2>1. accepted' = Append(accepted, w) /\ pending = None /\ w # None
    BY <1>2 DEF H!Record, H!InstrAccept, H!Writes, H!CanProcessW
  <2>2. w \in H!Instruction
    BY <1>1, <2>1 DEF D!TypeOK, D!HandlerTypeOK, D!Instruction, H!Instruction, D!Opcodes, H!Opcodes
  <2>3. Len(accepted) - Len(outcomes) < 2
    BY <1>1, <2>1 DEF D!TypeOK, D!Whereabouts
  <2>. QED
    BY <2>1, <2>2, <2>3 DEF Service!Accept, Service!Outstanding
<1>3. CASE ~H!InstrAccept
  BY <1>3 DEF H!Record
<1>. QED
  BY <1>2, <1>3

\* The instruction the dispatcher holds is the current one.
LEMMA ContractCurrent ==
  ASSUME StreamInv, dispState # "idle"
  PROVE  /\ Service!Outstanding > 0 /\ Service!Current = inst /\ inst \in Executable
         /\ ran = IF dispState \in {"awaitingDone", "completed"} THEN <<inst>> ELSE <<>>
<1>1. CompositionInv /\ Held /\ D!TypeOK /\ D!Whereabouts
  BY DEF StreamInv, LandedInv, ComputeInv, CompositionInv, D!DriverInv, D!ChannelInv,
     D!HandlerInv
<1>2. inst # None
  BY <1>1, D!HeldInstruction, InstanceAssumptions
<1>3. inst \in H!Instruction /\ inst.op \in H!EngineOps
  BY <1>1, <1>2 DEF Held, D!TypeOK, D!HandlerTypeOK, D!Instruction, H!Instruction, D!Opcodes,
     H!Opcodes
<1>4. Len(accepted) > Len(outcomes) /\ inst = accepted[Len(outcomes) + 1]
  BY <1>1 DEF D!TypeOK, D!Whereabouts
<1>5. ran = IF dispState \in {"awaitingDone", "completed"} THEN <<inst>> ELSE <<>>
  BY <1>1, <1>3 DEF D!Whereabouts, H!EngineOps, D!EngineOps
<1>6. Len(accepted) - Len(outcomes) > 0
  BY <1>1, <1>4 DEF D!TypeOK
<1>. QED
  BY <1>3, <1>4, <1>5, <1>6 DEF Service!Outstanding, Service!Current, Executable

\* What a cycle does to the engines' side.
LEMMA ContractExecutes ==
  ASSUME StreamInv, NEW tvalid \in {FALSE} \cup {stream # <<>>}, NEW tready,
         Cycle(tvalid, tready), outQ' \in Seq(OutBeatType)
  PROVE  /\ IF H!CompletionPulse THEN ~Fire /\ Service!Finish
            ELSE IF Fire THEN Service!Emit ELSE Service!Start \/ Service!Take \/ Service!Rest
         /\ Service!Queue(Fire, Deliver(tready))
<1>. DEFINE task == [i \in Executable |-> Task(i)]
<1>1. CompositionInv /\ H!Record /\ OutQueue(tready)
  BY DEF StreamInv, LandedInv, ComputeInv, Cycle, CoreTick
<1>2. H!TakeCommand <=> H!CmdValid
  BY <1>1, EngineFacts DEF H!TakeCommand
<1>3. inst \in Executable => task[inst] = Task(inst)
  OBVIOUS
<1>. HIDE DEF task
<1>4. CASE dispState = "completed"
  <2>1. state = "sIdle" /\ ~H!CmdValid /\ H!CompletionPulse
    BY <1>1, <1>4 DEF CompositionInv, H!CmdValid, H!CompletionPulse
  <2>2. ~Fire /\ Unmoved = 0 /\ Unmoved' = 0
    BY <2>1, ContractStarts
  <2>3. /\ Service!Outstanding > 0 /\ Service!Current = inst /\ inst \in Executable
        /\ ran = <<inst>>
    BY <1>4, ContractCurrent
  <2>4. Service!Retire
    BY <1>1, <2>1, <2>3 DEF H!Record, Service!Retire, Service!Execution
  <2>5. Service!Queue(Fire, Deliver(tready))
    BY <1>1, <2>2, ContractQueue
  <2>. QED
    BY <2>1, <2>2, <2>4, <2>5 DEF Service!Finish
<1>5. CASE H!CmdValid
  <2>1. state = "sIdle" /\ ~H!CompletionPulse /\ dispState # "idle"
    BY <1>1, <1>5, EngineFacts DEF H!CmdValid, H!CompletionPulse
  <2>2. ~Fire /\ Unmoved' = Task(inst).beats
    BY <1>5, <2>1, ContractStarts
  <2>3. /\ Service!Outstanding > 0 /\ Service!Current = inst /\ inst \in Executable
        /\ ran = <<>>
    BY <1>5, <2>1, ContractCurrent DEF H!CmdValid
  <2>4. ran' = <<inst>> /\ outcomes' = outcomes
    BY <1>1, <1>2, <1>5, <2>1, <2>3 DEF H!Record
  <2>5. Service!Run
    BY <2>3, <2>4 DEF Service!Run
  <2>6. Service!Start
    BY <1>3, <2>2, <2>3, <2>5 DEF Service!Start, task
  <2>7. Service!Queue(Fire, Deliver(tready))
    BY <1>1, <2>2, ContractQueue
  <2>. QED
    BY <2>1, <2>2, <2>6, <2>7
<1>6. CASE dispState # "completed" /\ ~H!CmdValid /\ state = "sIdle"
  <2>1. ~Fire /\ Unmoved' = Unmoved
    BY <1>6, ContractStarts
  <2>2. ran' = ran /\ outcomes' = outcomes /\ ~H!CompletionPulse
    BY <1>1, <1>2, <1>6 DEF H!Record, H!CompletionPulse
  <2>3. Service!Queue(Fire, Deliver(tready))
    BY <1>1, <2>1, ContractQueue
  <2>. QED
    BY <2>1, <2>2, <2>3 DEF Service!Rest
<1>7. CASE dispState # "completed" /\ ~H!CmdValid /\ state # "sIdle"
  <2>1. dispState = "awaitingDone"
    BY <1>1, <1>7 DEF CompositionInv
  <2>2. ran = <<inst>> /\ inst \in Executable
    BY <2>1, ContractCurrent
  <2>3. ran' = ran /\ outcomes' = outcomes /\ ~H!CompletionPulse
    BY <1>1, <1>2, <1>7 DEF H!Record, H!CompletionPulse
  <2>4. /\ Unmoved \in Nat
        /\ Fire => (Unmoved = 1 <=> storeBeat + 1 = storeTotal)
        /\ \/ ~Fire /\ Unmoved' = Unmoved
           \/ /\ Unmoved > 0 /\ Unmoved' = Unmoved - 1
              /\ Task(inst).dir = IF Fire THEN "out" ELSE "in"
    BY <1>7, ContractMoves
  <2>5. Service!Queue(Fire, Deliver(tready))
    BY <1>1, <2>4, ContractQueue
  <2>6. CASE ~Fire /\ Unmoved' = Unmoved
    BY <2>3, <2>5, <2>6 DEF Service!Rest
  <2>7. CASE Unmoved > 0 /\ Unmoved' = Unmoved - 1 /\ Task(inst).dir = IF Fire THEN "out" ELSE "in"
    <3>1. ran # <<>> /\ ran[1] = inst
      BY <2>2
    <3>2. Service!Moving(IF Fire THEN "out" ELSE "in")
      BY <1>3, <2>2, <2>7, <3>1 DEF Service!Moving, task
    <3>3. Fire => Len(LastFlags) < OutQDepth
      <4>1. outQ \in Seq(OutBeatType)
        BY DEF StreamInv, Sending
      <4>2. LastFlags = Flags(outQ) /\ Len(Flags(outQ)) = Len(outQ)
        BY <4>1, FlagsTail DEF LastFlags, Flags
      <4>. QED
        BY <4>2 DEF Fire, EnqReady
    <3>4. CASE Fire
      BY <2>3, <2>5, <2>7, <3>2, <3>3, <3>4 DEF Service!Emit
    <3>5. CASE ~Fire
      BY <2>3, <2>5, <2>7, <3>2, <3>5 DEF Service!Take
    <3>. QED
      BY <3>4, <3>5
  <2>. QED
    BY <2>4, <2>6, <2>7
<1>. QED
  BY <1>4, <1>5, <1>6, <1>7

LEMMA ContractStep ==
  ASSUME StreamInv, NEW tvalid \in {FALSE} \cup {stream # <<>>}, NEW tready,
         Cycle(tvalid, tready), outQ' \in Seq(OutBeatType)
  PROVE  Service!Step
<1>1. H!Record /\ H!HandlerTick(Pins(Beat(tvalid))) /\ prog' = prog /\ config' = config
      /\ CompositionInv
  BY DEF Cycle, CoreTick, StreamInv, LandedInv, ComputeInv
<1>2. Service!Accept \/ UNCHANGED accepted
  BY <1>1, ContractAccepts
<1>3. irqPend' = (H!CompletionPulse \/ (irqPend /\ ~H!IrqAck))
  BY <1>1 DEF H!HandlerTick, H!IrqReg
<1>4. /\ H!CompletionPulse \in BOOLEAN /\ H!IrqAck \in BOOLEAN /\ Fire \in BOOLEAN
      /\ Deliver(tready) \in BOOLEAN
  BY DEF H!CompletionPulse, H!IrqAck, H!Writes, H!CanProcessW, Fire, Deliver
<1>5. UNCHANGED [i \in Executable |-> Task(i)]
  <2>1. \A i : Task(i)' = Task(i)
    BY <1>1 DEF Task, BeatCount, BeatLanes, ColTiles
  <2>2. Executable' = Executable
    BY DEF Executable, H!Instruction, H!EngineOps, H!Opcodes
  <2>. QED
    BY <2>1, <2>2
<1>6. /\ IF H!CompletionPulse THEN ~Fire /\ Service!Finish
         ELSE IF Fire THEN Service!Emit ELSE Service!Start \/ Service!Take \/ Service!Rest
      /\ Service!Queue(Fire, Deliver(tready))
  BY ContractExecutes
<1>7. Service!Queue(Fire /\ ~H!CompletionPulse, Deliver(tready))
  <2>1. CASE Fire
    BY <1>6, <2>1 DEF Service!Queue
  <2>2. CASE ~Fire
    BY <1>6, <2>2 DEF Service!Queue
  <2>. QED
    BY <2>1, <2>2
<1>. QED
  BY <1>2, <1>3, <1>4, <1>5, <1>6, <1>7 DEF Service!Step

LEMMA ContractInit == StreamInv /\ Init => Service!CoreInit
<1>. SUFFICES ASSUME StreamInv, Init PROVE Service!CoreInit
  OBVIOUS
<1>1. config \in Configs /\ prog \in Seq(Operation) /\ H!Init /\ CoreInit
  BY DEF Init, StreamInv, LandedInv, ComputeInv, CompositionInv
<1>2. /\ accepted = <<>> /\ ran = <<>> /\ outcomes = <<>> /\ irqPend = FALSE
      /\ state = "sIdle" /\ outQ = <<>>
  BY <1>1 DEF H!Init, H!HandlerInit, CoreInit, StoreEngineInit
<1>3. Unmoved = 0
  BY <1>2 DEF Unmoved
<1>4. LastFlags = <<>>
  BY <1>2 DEF LastFlags
<1>5. ASSUME NEW i \in Executable PROVE Task(i) \in [dir : {"in", "out"}, beats : Nat]
  <2>1. CASE i.tag \notin DOMAIN prog
    BY <2>1 DEF Task
  <2>2. CASE i.tag \in DOMAIN prog
    <3>1. prog[i.tag] \in Operation
      BY <1>1, <2>2
    <3>2. prog[i.tag].dim0 \div BeatLanes \in Nat
      <4>1. prog[i.tag].dim0 \in Nat /\ BeatLanes \in Nat \ {0}
        BY <1>1, <3>1, LaneFacts DEF Operation
      <4>. QED
        BY <4>1
    <3>3. BeatCount(prog[i.tag]) \in Nat
      BY <1>1, <3>1, BeatCountType
    <3>. QED
      BY <2>2, <3>2, <3>3 DEF Task
  <2>. QED
    BY <2>1, <2>2
<1>6. [i \in Executable |-> Task(i)] \in [Executable -> [dir : {"in", "out"}, beats : Nat]]
  BY <1>5
<1>. QED
  BY <1>2, <1>3, <1>4, <1>6 DEF Service!CoreInit, Service!ServiceInit

\* The composition implements CoreService, for every build and program and however
\* the streams stall: an instruction completes after exactly the beats its DMA was
\* programmed with, in order of acceptance, the last one of a STORE marked.
THEOREM CoreKeepsTheContract ==
  ASSUME ProgramsFit, ProgramsNarrow, ProgramsStored, "block" \notin Stalling
  PROVE  Spec => CoreContract
<1>1. StreamInv /\ Init => Service!CoreInit
  BY ContractInit
<1>2. StreamInv /\ StreamInv' /\ [Next]_vars =>
        [Service!Step \/ Service!Reset]_(Service!coreServiceVars)
  <2>1. ASSUME StreamInv, StreamInv', Next PROVE Service!Step
    <3>1. PICK tvalid \in {FALSE} \cup {stream # <<>>},
               tready \in {TRUE} \cup {Style \notin Stalling} : Cycle(tvalid, tready)
      BY <2>1 DEF Next
    <3>2. outQ' \in Seq(OutBeatType)
      BY <2>1 DEF StreamInv, Sending
    <3>. QED
      BY <2>1, <3>1, <3>2, ContractStep
  <2>2. ASSUME UNCHANGED vars PROVE UNCHANGED Service!coreServiceVars
    <3>1. UNCHANGED <<accepted, ran, outcomes, irqPend, prog, config, state, stream, outQ,
                      storeTotal, storeBeat>>
      BY <2>2 DEF vars, coreVars, storeVars, handlerVars, driverVars
    <3>2. \A i : Task(i)' = Task(i)
      BY <3>1 DEF Task, BeatCount, BeatLanes, ColTiles
    <3>3. Executable' = Executable
      BY DEF Executable, H!Instruction, H!EngineOps, H!Opcodes
    <3>4. Unmoved' = Unmoved /\ LastFlags' = LastFlags
      BY <3>1 DEF Unmoved, LastFlags
    <3>. QED
      BY <3>1, <3>2, <3>3, <3>4 DEF Service!coreServiceVars, Service!serviceVars
  <2>. QED
    BY <2>1, <2>2
<1>. QED
  BY <1>1, <1>2, StreamInvariance, PTL DEF Spec, CoreContract, Service!CoreSpec

=============================================================================
