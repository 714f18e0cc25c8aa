---------------------------- MODULE HostGeometry ----------------------------
(***************************************************************************)
(* The geometry as a C program derives it from the parameters it was       *)
(* started with (MMFREE_* variables), and its comparison with the manifest *)
(* of the bitstream.  `e` is what the environment says, in the fields of a *)
(* CoreConfig configuration.                                               *)
(***************************************************************************)
EXTENDS CoreConfig

MaxDma     == 4
LengthBits == 23      \* c_sg_length_width of the AXI DMAs

\* mmfree_geom_init; None: refused.
GeomInit(e) ==
  LET bits  == e.xDim * e.aWidth
      ports == IF bits <= 128 THEN 1 ELSE bits \div 128
      accW  == Log2Ceil(e.maxAcc) + e.aWidth
  IN IF \/ 0 \in {e.aWidth, e.xDim, e.maxAcc} \/ bits % 8 # 0
        \/ bits > 128 /\ (bits % 128 # 0 \/ bits \div 128 > MaxDma)
     THEN None
     ELSE [outLanesPerTile |-> e.xDim * (e.aWidth \div 2),
           accWidth        |-> accW,
           numPorts        |-> ports,
           portBytes       |-> (bits \div 8) \div ports,
           outLaneBytes    |-> Max({8, NextPow2(accW)}) \div 8]

\* A batch of 0 stands for 1.
HostBatch(e) == IF e.batch = 0 THEN 1 ELSE e.batch

\* Mutant: the manifest's batch is not compared.
MismatchSansBatch(e, bit) ==
  \/ \E f \in {"aWidth", "xDim", "maxAcc", "maxN", "maxM"} : e[f] # bit[f]
  \/ GeomInit(e).numPorts # Derived(bit).numPorts

Mismatch(e, bit) ==
  \/ \E f \in {"aWidth", "xDim", "maxAcc", "maxN", "maxM"} : e[f] # bit[f]
  \/ HostBatch(e) # bit.batch
  \/ GeomInit(e).numPorts # Derived(bit).numPorts

=============================================================================
