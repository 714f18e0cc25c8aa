----------------------------- MODULE CoreBuild -----------------------------
(***************************************************************************)
(* One elaboration of the Core: the sizes Core.scala derives from its      *)
(* parameters (a configuration of CoreConfig), and the top-level state     *)
(* register every engine of the Core reads.  `config` is chosen in Init    *)
(* and never changes.                                                      *)
(***************************************************************************)
EXTENDS CoreConfig, Sequences

CONSTANT Configs   \* the builds under study

\* What the Core itself requires; the host side has its own limits.  Widths and
\* rows stay below the bound on the logarithms taken of them.
ASSUME BuildAssumption ==
  \A c \in Configs :
    /\ {c.aWidth, c.xDim, c.batch, c.maxN, c.maxM, c.outBeatLanes} \subseteq Nat
    /\ c.maxAcc \in 1 .. 2^MaxLog
    /\ LET d == Derived(c)
       IN c.batch * NumColTiles(d, c.maxM) * (d.outLanesPerTile \div d.outBeatLanes) <= 2^MaxLog
    /\ Elaborates(c)

VARIABLES config, state

MaxN         == config.maxN
MaxAcc       == config.maxAcc
NAccMod      == NextPow2(MaxAcc)         \* range of the nAcc wires
Batch        == config.batch             \* yDim; 1 has no register slice
LanesPerTile == Derived(config).outLanesPerTile
BeatLanes    == Derived(config).outBeatLanes
SubBeats     == LanesPerTile \div BeatLanes
ColTiles(m)  == NumColTiles(Derived(config), m)

\* The output memory: "ultra" is the URAM black box, "block" a SyncReadMem.
Style    == IF Batch > 1 THEN "ultra" ELSE "block"
ReadLat  == IF Batch > 1 THEN 4 ELSE 2
WriteLat == IF Style = "ultra" THEN 1 ELSE 0
MemRows  == Batch * ColTiles(config.maxM) * SubBeats
RowMod   == NextPow2(MemRows)            \* range of the row address wires

InQDepth  == 2
OutQDepth == 2

CoreStates == {"sIdle", "sLoad", "sCompute", "sStore"}

\* An instruction as the engines see it: dim0 and dim1 are its operands.
Operation == [op : {"LOAD_ACT", "COMPUTE_MM", "STORE_OUT"}, dim0 : Nat, dim1 : Nat]

=============================================================================
