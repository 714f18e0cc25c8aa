------------------------------ MODULE Geometry ------------------------------
(***************************************************************************)
(* From a bitstream and a checkpoint to registered projections:            *)
(* mmfree_pack lays the weights out, fpga_runner sizes the buffers from    *)
(* the packer's table, libmmfree opens the device and registers every      *)
(* projection. The geometry is derived three times (Scala, Python, C) from *)
(* parameters that reach each of them on another way.                      *)
(*                                                                         *)
(* A deployment is one combination of those ways:                          *)
(*   bit       the configuration of the bitstream that is loaded           *)
(*   env       the MMFREE_* parameters the program is started with         *)
(*   packed    [aWidth, xDim] the weights are packed for                   *)
(*   manifest  MMFREE_MANIFEST names the manifest of bit                   *)
(*   strict    MMFREE_STRICT is set                                        *)
(*   work      the projections [N, M] of the checkpoint, in packing order  *)
(***************************************************************************)
EXTENDS HostGeometry, Sequences

CONSTANTS Deployments,
          InspectedBeats   \* bound: every lane is compared up to this many beats

ASSUME GeometryAssumption ==
  /\ \A d \in Deployments :
       /\ Sized(d.bit) /\ Elaborates(d.bit) /\ Sized(d.env)
       /\ d.packed.aWidth \in Nat \ {0} /\ d.packed.xDim \in Nat \ {0}
       /\ d.work \in Seq([N : Nat, M : Nat]) /\ d.work # <<>>
  /\ InspectedBeats \in Nat

VARIABLES dep,         \* the deployment
          phase,       \* "pack", "open", "failed"
          entries,     \* the packer's table: [offset, N, M, bytes, nOutputs]
          handle,      \* sizes of the mapped buffers [wt, act, out]
          registered   \* projections registered so far

vars == <<dep, phase, entries, handle, registered>>

-----------------------------------------------------------------------------
(* The packer's derivation of the geometry; None: refused.                 *)

\* Geometry.derive.
Derive(aWidth, xDim) ==
  LET bits  == xDim * aWidth
      lanes == xDim * (aWidth \div 2)
      ports == Min({4, CeilDiv(bits, 128)})
  IN IF \/ bits % 8 # 0 \/ aWidth % 2 # 0 \/ (bits \div 8) % ports # 0 \/ lanes % ports # 0
        \/ ((bits \div 8) \div ports) * 4 # lanes \div ports
     THEN None
     ELSE [outLanesPerTile |-> lanes, numPorts |-> ports,
           portBytes |-> (bits \div 8) \div ports, lanesPerPort |-> lanes \div ports]

Hw     == Derived(dep.bit)
Host   == GeomInit(dep.env)
Packer == Derive(dep.packed.aWidth, dep.packed.xDim)

-----------------------------------------------------------------------------
(* mmfree_pack.                                                            *)

Total == IF entries = <<>> THEN 0
         ELSE entries[Len(entries)].offset + entries[Len(entries)].bytes

Entry(p) ==
  [offset |-> Total, N |-> p.N, M |-> p.M,
   bytes |-> NumColTiles(Packer, p.M) * p.N * Packer.portBytes,
   nOutputs |-> NumColTiles(Packer, p.M) * Packer.outLanesPerTile]

\* Mutant: the beats of a port go row by row instead of tile by tile.
PackedCodeRowMajor(i, p, o, k) ==
  LET e    == entries[i]
      beat == o \div Packer.portBytes
      tile == beat % NumColTiles(Packer, e.M)
      col  == tile * Packer.outLanesPerTile + p * Packer.lanesPerPort
              + 4 * (o % Packer.portBytes) + k
  IN IF col < e.M THEN <<i, beat \div NumColTiles(Packer, e.M), col>> ELSE None

\* The 2-bit code at bit 2k of byte o of entry i's slice in port p's blob, as
\* <<entry, inner index, output column>>; None: the zero of a padding lane.
PackedCode(i, p, o, k) ==
  LET e    == entries[i]
      beat == o \div Packer.portBytes
      tile == beat \div e.N
      col  == tile * Packer.outLanesPerTile + p * Packer.lanesPerPort
              + 4 * (o % Packer.portBytes) + k
  IN IF col < e.M THEN <<i, beat % e.N, col>> ELSE None

\* The same anywhere in the blob; entries lie one after the other.
BlobCode(p, a, k) ==
  LET i == Max({j \in DOMAIN entries : entries[j].offset <= a})
  IN PackedCode(i, p, a - entries[i].offset, k)

-----------------------------------------------------------------------------
(* fpga_runner and libmmfree.                                              *)

Asked ==
  [wt  |-> Total,
   act |-> Max({entries[i].N : i \in DOMAIN entries}) * Host.portBytes,
   out |-> dep.env.batch * Max({entries[i].nOutputs : i \in DOMAIN entries}) * Host.outLaneBytes]

\* mmfree_buf_open: a size of 0 maps the whole node.
Mapped ==
  LET OrNode(bytes, node) == IF bytes = 0 THEN node ELSE bytes
  IN [wt  |-> OrNode(Asked.wt, WtNode(dep.bit)),
      act |-> OrNode(Asked.act, ActNode(dep.bit)),
      out |-> OrNode(Asked.out, OutNode(dep.bit))]

\* A node without a port number exists on single-port overlays only.
NodesExist == IF Host.numPorts = 1 THEN Hw.numPorts = 1 ELSE Host.numPorts <= Hw.numPorts

OpenSucceeds ==
  /\ Host # None /\ HostBatch(dep.env) <= dep.env.xDim
  /\ ~(dep.manifest /\ dep.strict /\ Mismatch(dep.env, dep.bit))
  /\ NodesExist
  /\ Asked.wt <= WtNode(dep.bit) /\ Asked.act <= ActNode(dep.bit) /\ Asked.out <= OutNode(dep.bit)
  /\ Host.numPorts <= Packer.numPorts      \* one weight file per port

LoadBytes(e)    == e.N * Host.portBytes
ComputeBytes(e) == e.N * NumColTiles(Host, e.M) * Host.portBytes
StoreLanes(e)   == HostBatch(dep.env) * NumColTiles(Host, e.M) * Host.outLanesPerTile
StoreBytes(e)   == StoreLanes(e) * Host.outLaneBytes

\* Mutant: the weight slice is not compared with the resident buffer.
RegistersUnchecked(e) ==
  e.N \in 1 .. dep.env.maxAcc /\ e.M \in 1 .. dep.env.maxM /\ StoreBytes(e) <= handle.out

Registers(e) ==
  /\ e.N \in 1 .. dep.env.maxAcc /\ e.M \in 1 .. dep.env.maxM
  /\ e.offset + ComputeBytes(e) <= handle.wt
  /\ StoreBytes(e) <= handle.out

\* Mutant: row r of a beat is put where row r of a wide beat would be split to.
ActCodeSpread(n, a, N) ==
  LET i == a \div Host.portBytes
      r == (a % Host.portBytes) \div (Host.portBytes \div HostBatch(dep.env))
  IN IF i < N /\ r < HostBatch(dep.env) THEN <<i, r, (a % Host.portBytes) % (dep.env.aWidth \div 8)>>
     ELSE None

\* What pack_act_port0 leaves at byte a of port 0's buffer after it wrote rows of
\* N beats, all rows active: <<beat, row, byte of the value>>.  Beats are written
\* in order, so a byte belongs to the last beat that reaches it; n is that beat.
\* A value takes aWidth / 8 bytes, rounded down.
ActCode(n, a, N) ==
  LET i      == Min({n, N - 1})
      b      == a - i * Host.portBytes
      abytes == dep.env.aWidth \div 8
  IN IF abytes > 0 /\ b \div abytes < HostBatch(dep.env)
     THEN <<i, b \div abytes, b % abytes>> ELSE None

-----------------------------------------------------------------------------

Init ==
  /\ dep \in Deployments
  /\ phase = IF Derive(dep.packed.aWidth, dep.packed.xDim) = None THEN "failed" ELSE "pack"
  /\ entries = <<>> /\ handle = [wt |-> 0, act |-> 0, out |-> 0] /\ registered = 0

Pack ==
  /\ phase = "pack" /\ Len(entries) < Len(dep.work)
  /\ entries' = Append(entries, Entry(dep.work[Len(entries) + 1]))
  /\ UNCHANGED <<dep, phase, handle, registered>>

Open ==
  /\ phase = "pack" /\ Len(entries) = Len(dep.work)
  /\ \/ OpenSucceeds /\ phase' = "open" /\ handle' = Mapped
     \/ ~OpenSucceeds /\ phase' = "failed" /\ UNCHANGED handle
  /\ UNCHANGED <<dep, entries, registered>>

\* Mutant: one row of the table too many is registered.
RegisterOneMore ==
  /\ phase = "open" /\ registered <= Len(entries)
  /\ registered = Len(entries) \/ Registers(entries[registered + 1])
  /\ registered' = registered + 1
  /\ UNCHANGED <<dep, entries, handle, phase>>

Register ==
  /\ phase = "open" /\ registered < Len(entries)
  /\ \/ Registers(entries[registered + 1]) /\ registered' = registered + 1 /\ UNCHANGED phase
     \/ ~Registers(entries[registered + 1]) /\ phase' = "failed" /\ UNCHANGED registered
  /\ UNCHANGED <<dep, entries, handle>>

Next == Pack \/ Open \/ Register

Spec == Init /\ [][Next]_vars

-----------------------------------------------------------------------------
(* Hypotheses of the theorems.                                             *)

\* An output lane is a byte at least: the accumulator has more than four bits.
LanesAreBytes == \A d \in Deployments : Derived(d.bit).outLaneBytes >= 1

\* One port's slice holds a row of the whole batch, when the batch is no wider than
\* the array (otherwise mmfree_lib_open refuses it).
BatchesFit ==
  \A d \in Deployments : d.bit.batch <= d.bit.xDim =>
    d.bit.batch * (d.bit.aWidth \div 8) <= Derived(d.bit).portBytes

\* An activation is whole bytes, which is what the host packs.
WholeBytes == \A d \in Deployments : d.bit.aWidth % 8 = 0

-----------------------------------------------------------------------------
(* Properties.  Each is about the projection registered last; the states   *)
(* before were about the others.                                           *)

TypeOK ==
  /\ dep \in Deployments /\ phase \in {"pack", "open", "failed"}
  /\ Len(entries) <= Len(dep.work) /\ registered \in 0 .. Len(entries)
  /\ \A f \in {"wt", "act", "out"} : handle[f] \in Nat

InUse   == phase = "open" /\ registered > 0
Current == entries[registered]
Checked == dep.manifest /\ dep.strict
\* The weights were packed with the manifest of the bitstream.
PackedForBit == dep.packed.aWidth = dep.bit.aWidth /\ dep.packed.xDim = dep.bit.xDim

\* A host that passed the strict manifest check programs, for every operation on a
\* registered projection, as many bytes on as many ports as the Core consumes and
\* emits: a disagreement would hang the Core (mmfree_runtime.c:271).
BeatCountsAgree ==
  InUse /\ Checked =>
    LET tiles == NumColTiles(Hw, Current.M)
        rows  == dep.bit.batch * tiles * (Hw.outLanesPerTile \div Hw.outBeatLanes)
    IN /\ Host.numPorts = Hw.numPorts
       /\ LoadBytes(Current) = Current.N * Hw.portBytes
       /\ ComputeBytes(Current) = Current.N * tiles * Hw.portBytes
       /\ StoreLanes(Current) \div Hw.outBeatLanes = rows
       /\ StoreBytes(Current) = rows * Hw.outBeatLanes * Hw.outLaneBytes
       /\ Host.accWidth = Hw.accWidth

\* Whatever the program was started with and packed for, no operation on a
\* registered projection reaches beyond the buffers that are mapped.
TransfersFit ==
  InUse => /\ Current.offset + ComputeBytes(Current) <= handle.wt
           /\ LoadBytes(Current) <= handle.act
           /\ StoreBytes(Current) <= handle.out

\* Beats and lanes that are compared: all of a small projection, the corners of a
\* large one, at both ends of every port.
InspectedOf(count) == IF count <= InspectedBeats THEN 0 .. count - 1 ELSE {0, count - 1}
Lanes == IF Current.N * NumColTiles(Hw, Current.M) <= InspectedBeats THEN 0 .. Hw.outLanesPerTile - 1
         ELSE {p * 4 * Hw.portBytes : p \in 0 .. Hw.numPorts - 1}
              \cup {p * 4 * Hw.portBytes - 1 : p \in 1 .. Hw.numPorts}

\* Lane l of the wide beat of tile t and row n, joined by CoreTop from the ports
\* and cut by the Core, is the weight of inner index n and output column l of t.
WeightsMeetTheirLanes ==
  InUse /\ Checked /\ PackedForBit =>
    \A t \in InspectedOf(NumColTiles(Hw, Current.M)), n \in InspectedOf(Current.N), l \in Lanes :
      LET wide == l \div 4                      \* byte of the wide beat
          col  == t * Hw.outLanesPerTile + l
      IN BlobCode(wide \div Hw.portBytes,
                  Current.offset + (t * Current.N + n) * Hw.portBytes + (wide % Hw.portBytes),
                  l % 4)
         = IF col < Current.M THEN <<registered, n, col>> ELSE None

\* The Core cuts bits (r+1)*aWidth-1 .. r*aWidth out of the n-th LOAD beat
\* (Core.scala:321), and only port 0 carries data: bit j of them is where the host
\* wrote bit j of entry n of vector r.
LoadBeatsAreRows ==
  InUse /\ Checked =>
    \A n \in InspectedOf(Current.N), r \in 0 .. dep.bit.batch - 1, j \in 0 .. dep.bit.aWidth - 1 :
      LET bit == r * dep.bit.aWidth + j
      IN /\ bit \div 8 < Hw.portBytes /\ bit % 8 = j % 8
         /\ ActCode(n, n * Hw.portBytes + bit \div 8, Current.N) = <<n, r, j \div 8>>

Streams(bytes) == bytes < 2^LengthBits

\* A checkpoint on the bitstream that forModel sized for it, started with that
\* bitstream's manifest, opens and registers completely, and every transfer fits
\* the DMA's length register.
OwnDeployment == dep.bit.model # None /\ dep.env = dep.bit /\ PackedForBit
ModelRuns ==
  OwnDeployment =>
    /\ phase # "failed"
    /\ InUse => /\ Current.N <= dep.bit.maxN
                /\ Streams(LoadBytes(Current)) /\ Streams(ComputeBytes(Current))
                /\ Streams(StoreBytes(Current))

\* "max matmul: N (rows) <= maxN, M (cols) <= maxM" (CoreConfig.scala:118): what is
\* registered within these limits can be streamed.
MaxMatmulStreams ==
  InUse /\ Checked /\ Current.N <= dep.bit.maxN => Streams(ComputeBytes(Current))

=============================================================================
