----------------------------- MODULE CoreConfig -----------------------------
(***************************************************************************)
(* The parameters of a bitstream and what CoreConfig.scala derives from    *)
(* them: lane and beat widths, the split of the input stream over HP ports *)
(* and the sizes of the u-dma-buf nodes of its device-tree overlay.        *)
(*                                                                         *)
(* A configuration is [aWidth, maxAcc, xDim, batch, maxN, maxM,            *)
(* outBeatLanes, model]; model is what forModel sized it for, or None.     *)
(***************************************************************************)
EXTENDS Naturals, FiniteSetsExt, Signals

PortBits   == 128     \* what one HP port carries per beat
MaxInPorts == 4
PageBytes  == 4096
MaxLog     == 24      \* bound on the logarithms taken

CeilDiv(a, b) == (a + b - 1) \div b
CeilTo(x, m)  == CeilDiv(x, m) * m
Log2Ceil(x)   == CHOOSE r \in 0 .. MaxLog : 2^r >= x /\ (r = 0 \/ 2^(r - 1) < x)
NextPow2(x)   == 2^Log2Ceil(x)

-----------------------------------------------------------------------------
(* The constructors.                                                       *)

Bare(aWidth, maxAcc, xDim, batch, maxN, maxM, outBeatLanes) ==
  [aWidth |-> aWidth, maxAcc |-> maxAcc, xDim |-> xDim, batch |-> batch, maxN |-> maxN,
   maxM |-> maxM, outBeatLanes |-> outBeatLanes, model |-> None]

ForShape(n, m, aWidth, xDim) ==
  Bare(aWidth, Max({4096, NextPow2(n)}), xDim, 1, NextPow2(n),
       CeilTo(m, xDim * (aWidth \div 2)), 0)

\* model: [hidden, inter, vocab, layers].
ForModel(model, aWidth, xDim) ==
  LET maxN == NextPow2(Max({model.hidden, model.inter}))
  IN [Bare(aWidth, Max({4096, maxN}), xDim, 1, maxN,
           CeilTo(Max({2 * model.inter, model.vocab}), xDim * (aWidth \div 2)), 1)
      EXCEPT !.model = model]

\* The batched siblings: copy(batchSize = b, outBeatLanes = 4).
Batched(c, b) == [c EXCEPT !.batch = b, !.outBeatLanes = 4]

M370 == [hidden |-> 1024, inter |-> 2816, vocab |-> 32000, layers |-> 24]
M13B == [hidden |-> 2048, inter |-> 5632, vocab |-> 32000, layers |-> 24]
M27B == [hidden |-> 2560, inter |-> 6912, vocab |-> 32000, layers |-> 32]

K26_Small          == ForShape(256, 256, 8, 4)
K26_Bench          == Bare(16, 4096, 4, 1, 1024, 1024, 1)
K26_Bench16        == Bare(8, 4096, 16, 1, 1024, 1024, 1)
K26_Bench32        == Bare(8, 4096, 32, 1, 1024, 1024, 1)
K26_Bench64        == Bare(8, 4096, 64, 1, 1024, 1024, 1)
K26_MMFree370M     == ForModel(M370, 8, 64)
K26_MMFree370M_A16 == ForModel(M370, 16, 32)
K26_MMFree1_3B_A16 == ForModel(M13B, 16, 32)
K26_MMFree2_7B_A16 == ForModel(M27B, 16, 32)

-----------------------------------------------------------------------------
(* What the hardware derives.                                              *)

Derived(c) ==
  LET outLanesPerTile == c.xDim * (c.aWidth \div 2)
      outAccWidth     == Log2Ceil(c.maxAcc) + c.aWidth
      axisDataWidth   == Max({c.xDim, c.batch}) * c.aWidth
      numInPorts      == IF axisDataWidth <= PortBits THEN 1
                         ELSE Min({MaxInPorts, CeilDiv(axisDataWidth, PortBits)})
  IN [outLanesPerTile |-> outLanesPerTile,
      accWidth        |-> outAccWidth,
      axisDataWidth   |-> axisDataWidth,
      numPorts        |-> numInPorts,
      portBytes       |-> (axisDataWidth \div numInPorts) \div 8,
      outLaneBytes    |-> NextPow2(outAccWidth) \div 8,
      outBeatLanes    |-> IF c.outBeatLanes = 0 THEN outLanesPerTile ELSE c.outBeatLanes]

\* Parameters are numbers, of which MaxLog bounds the logarithms.
Sized(c) ==
  /\ \A f \in {"aWidth", "maxAcc", "xDim", "batch", "maxN", "maxM", "outBeatLanes"} : c[f] \in Nat
  /\ c.maxAcc <= 2^MaxLog /\ c.aWidth + MaxLog <= 2^MaxLog
  /\ c.model = None \/ c.model \in [hidden : Nat, inter : Nat, vocab : Nat, layers : Nat]

\* The requirements a configuration is elaborated under.
Elaborates(c) ==
  LET d == Derived(c)
  IN /\ c.aWidth >= 2 /\ c.aWidth % 2 = 0 /\ c.maxAcc >= 2
     /\ c.xDim >= 1 /\ c.batch >= 1 /\ c.maxN >= 1 /\ c.maxM >= 1
     /\ c.maxN <= c.maxAcc
     /\ d.numPorts = 1 \/ d.axisDataWidth % PortBits = 0
     /\ c.maxM % d.outLanesPerTile = 0
     /\ d.outLanesPerTile % d.outBeatLanes = 0

NumColTiles(d, m) == CeilDiv(m, d.outLanesPerTile)

PageUp(b) == CeilTo(b, PageBytes)

\* totalWtBytes / numInPorts: four elements to a byte.
ResidentBytes(m, ports) ==
  (((4 * m.hidden * m.hidden + m.hidden * 2 * m.inter + m.inter * m.hidden) \div 4) * m.layers
   + (m.hidden * m.vocab) \div 4) \div ports

\* The u-dma-buf nodes of the overlay.
ActNode(c) == PageUp(c.maxN * Derived(c).portBytes)
WtSlice(c) == PageUp(c.maxN * NumColTiles(Derived(c), c.maxM) * Derived(c).portBytes)

\* Mutant: the weight node is sized for one COMPUTE.
WtNodeOfSlice(c) == WtSlice(c)

WtNode(c) ==
  IF c.model = None THEN WtSlice(c)
  ELSE Max({WtSlice(c), PageUp(ResidentBytes(c.model, Derived(c).numPorts))})
OutNode(c) ==
  LET d == Derived(c)
  IN PageUp(c.batch * NumColTiles(d, c.maxM) * d.outLanesPerTile * d.outLaneBytes)

=============================================================================
