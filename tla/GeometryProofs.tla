--------------------------- MODULE GeometryProofs ---------------------------
(***************************************************************************)
(* For every deployment, that is every bitstream, environment, packing,    *)
(* manifest and checkpoint: transfers stay inside the buffers, and behind  *)
(* a strict manifest check software and Core agree on every beat, on every *)
(* lane of the weights and, when activations are whole bytes, on every bit *)
(* of theirs.                                                              *)
(***************************************************************************)
EXTENDS Geometry, ConfigProofs

-----------------------------------------------------------------------------
(* The three derivations.                                                  *)

\* The numbers a deployment consists of.
LEMMA DeploymentFacts ==
  ASSUME dep \in Deployments
  PROVE  /\ \A c \in {dep.bit, dep.env} :
              /\ c.aWidth \in Nat /\ c.maxAcc \in Nat /\ c.xDim \in Nat /\ c.batch \in Nat
              /\ c.maxN \in Nat /\ c.maxM \in Nat /\ c.outBeatLanes \in Nat
              /\ c.maxAcc <= 2^MaxLog /\ c.aWidth + MaxLog <= 2^MaxLog
         /\ dep.packed.aWidth \in Nat \ {0} /\ dep.packed.xDim \in Nat \ {0}
         /\ dep.work \in Seq([N : Nat, M : Nat]) /\ dep.work # <<>>
         /\ Elaborates(dep.bit)
<1>1. Sized(dep.bit) /\ Sized(dep.env)
  BY GeometryAssumption
<1>. QED
  BY <1>1, GeometryAssumption DEF Sized

LEMMA HostNumbers ==
  ASSUME dep \in Deployments, Host # None
  PROVE  /\ Host.numPorts \in Nat \ {0} /\ Host.portBytes \in Nat /\ Host.outLanesPerTile \in Nat
         /\ Host.outLaneBytes \in Nat /\ Host.accWidth \in Nat
  BY GeometryAssumption, HostFacts DEF Host

LEMMA PackerFacts ==
  ASSUME dep \in Deployments, Packer # None
  PROVE  /\ Packer.outLanesPerTile \in Nat \ {0} /\ Packer.portBytes \in Nat \ {0}
         /\ Packer.numPorts \in Nat \ {0}
         /\ Packer.lanesPerPort = 4 * Packer.portBytes
         /\ Packer.outLanesPerTile = dep.packed.xDim * (dep.packed.aWidth \div 2)
         /\ LET bits == dep.packed.xDim * dep.packed.aWidth
            IN /\ bits \in Nat \ {0} /\ bits % 8 = 0
               /\ Packer.numPorts = Min({4, CeilDiv(bits, 128)})
               /\ Packer.portBytes = (bits \div 8) \div Packer.numPorts
<1>. DEFINE a == dep.packed.aWidth
            x == dep.packed.xDim
            bits == x * a
            lanes == x * (a \div 2)
            ports == Min({4, CeilDiv(bits, 128)})
            port == (bits \div 8) \div ports
<1>1. a \in Nat \ {0} /\ x \in Nat \ {0}
  BY DeploymentFacts
<1>2. /\ ~(\/ bits % 8 # 0 \/ a % 2 # 0 \/ (bits \div 8) % ports # 0 \/ lanes % ports # 0
           \/ ((bits \div 8) \div ports) * 4 # lanes \div ports)
      /\ Packer = [outLanesPerTile |-> lanes, numPorts |-> ports,
                   portBytes |-> (bits \div 8) \div ports, lanesPerPort |-> lanes \div ports]
  BY DEF Packer, Derive
<1>3. bits \in Nat \ {0} /\ lanes \in Nat \ {0}
  <2>1. a \div 2 \in Nat \ {0}
    BY <1>1, <1>2
  <2>2. \A p, q \in Nat \ {0} : p * q \in Nat \ {0}
    OBVIOUS
  <2>. QED
    BY <1>1, <2>1, <2>2
<1>4. ports \in Nat \ {0}
  <2>. DEFINE c == CeilDiv(bits, 128)
  <2>1. c \in Nat \ {0}
    BY <1>3 DEF CeilDiv
  <2>2. CASE c <= 4
    BY <2>1, <2>2, MinIs
  <2>3. CASE ~(c <= 4)
    <3>. HIDE DEF c
    <3>1. \A y \in {4, c} : 4 <= y
      BY <2>1, <2>3
    <3>2. Min({4, c}) = 4
      BY <2>1, <3>1, MinIs
    <3>. QED
      BY <3>2 DEF c
  <2>. QED
    BY <2>2, <2>3
<1>5. port \in Nat \ {0}
  <2>. DEFINE x8 == bits \div 8
  <2>1. x8 \in Nat \ {0} /\ x8 % ports = 0
    BY <1>2, <1>3
  <2>. HIDE DEF x8, ports
  <2>2. x8 = ports * (x8 \div ports) /\ x8 \div ports \in Nat
    BY <1>4, <2>1, DivModOf
  <2>3. x8 \div ports # 0
    BY <1>4, <2>1, <2>2
  <2>. QED
    BY <2>2, <2>3 DEF x8
<1>. HIDE DEF bits, lanes, ports
<1>6. /\ Packer.outLanesPerTile = lanes /\ Packer.numPorts = ports /\ Packer.portBytes = port
      /\ Packer.lanesPerPort = lanes \div ports /\ lanes \div ports = 4 * port
  BY <1>2, <1>5
<1>. QED
  BY <1>2, <1>3, <1>4, <1>5, <1>6 DEF bits, lanes, ports

\* The Core's derivation.
LEMMA CoreNumbers ==
  ASSUME dep \in Deployments
  PROVE  /\ Hw.outLanesPerTile = dep.bit.xDim * (dep.bit.aWidth \div 2)
         /\ Hw.outLanesPerTile \in Nat \ {0} /\ Hw.outBeatLanes \in Nat \ {0}
         /\ Hw.outLanesPerTile % Hw.outBeatLanes = 0
         /\ Hw.accWidth = Log2Ceil(dep.bit.maxAcc) + dep.bit.aWidth /\ Hw.accWidth \in Nat
         /\ NextPow2(Hw.accWidth) \in Nat /\ Hw.outLaneBytes = NextPow2(Hw.accWidth) \div 8
  BY GeometryAssumption, HwFacts DEF Hw

\* The widths of one row of the array, which is what a beat carries as long as the
\* batch is not wider.
LEMMA BeatNumbers ==
  ASSUME dep \in Deployments, dep.bit.batch <= dep.bit.xDim
  PROVE  LET bits == dep.bit.xDim * dep.bit.aWidth
         IN /\ bits \in Nat /\ Hw.axisDataWidth = bits
            /\ Hw.numPorts = IF bits <= 128 THEN 1 ELSE Min({4, CeilDiv(bits, 128)})
            /\ Hw.portBytes = (bits \div Hw.numPorts) \div 8
  BY GeometryAssumption, BeatFacts DEF Hw

\* A host that the manifest check lets through derives what the Core derives.
LEMMA SameGeometry ==
  ASSUME dep \in Deployments, Host # None, ~Mismatch(dep.env, dep.bit),
         HostBatch(dep.env) <= dep.env.xDim
  PROVE  /\ HostBatch(dep.env) = dep.bit.batch /\ dep.env.aWidth = dep.bit.aWidth
         /\ dep.bit.batch <= dep.bit.xDim
         /\ Host.numPorts = Hw.numPorts /\ Host.portBytes = Hw.portBytes
         /\ Host.outLanesPerTile = Hw.outLanesPerTile /\ Host.accWidth = Hw.accWidth
         /\ Hw.outLaneBytes >= 1 => Host.outLaneBytes = Hw.outLaneBytes
  BY GeometryAssumption, SameDerivation DEF Host, Hw

\* Weights packed for the bitstream are laid out for its lanes.
LEMMA SamePacking ==
  ASSUME dep \in Deployments, Host # None, ~Mismatch(dep.env, dep.bit),
         HostBatch(dep.env) <= dep.env.xDim, PackedForBit, Packer # None
  PROVE  /\ Packer.portBytes = Hw.portBytes /\ Packer.outLanesPerTile = Hw.outLanesPerTile
         /\ Packer.numPorts = Hw.numPorts
<1>. DEFINE bits == dep.bit.xDim * dep.bit.aWidth
<1>1. dep.bit.batch <= dep.bit.xDim /\ Host.portBytes = Hw.portBytes /\ Host.numPorts = Hw.numPorts
  BY SameGeometry
<1>2. /\ bits \in Nat \ {0} /\ Packer.numPorts = Min({4, CeilDiv(bits, 128)})
      /\ Packer.portBytes = (bits \div 8) \div Packer.numPorts
  BY PackerFacts DEF PackedForBit
<1>3. Packer.outLanesPerTile = Hw.outLanesPerTile
  BY PackerFacts, CoreNumbers DEF PackedForBit
<1>4. Hw.numPorts = IF bits <= 128 THEN 1 ELSE Min({4, CeilDiv(bits, 128)})
  BY <1>1, BeatNumbers
<1>5. bits <= 128 => Min({4, CeilDiv(bits, 128)}) = 1
  <2>. HIDE DEF bits
  <2>. SUFFICES ASSUME bits <= 128 PROVE Min({4, CeilDiv(bits, 128)}) = 1
    OBVIOUS
  <2>1. CeilDiv(bits, 128) = 1
    BY <1>2 DEF CeilDiv
  <2>. QED
    BY <2>1, MinIs
<1>6. Packer.numPorts = Hw.numPorts
  BY <1>2, <1>4, <1>5
<1>7. Host.portBytes = (bits \div 8) \div Host.numPorts
  <2>1. dep.env.xDim = dep.bit.xDim /\ dep.env.aWidth = dep.bit.aWidth
    BY DEF Mismatch
  <2>. QED
    BY <2>1 DEF Host, GeomInit
<1>. QED
  BY <1>1, <1>2, <1>3, <1>6, <1>7

-----------------------------------------------------------------------------
(* The inductive invariant.                                                *)

TableRow == [offset : Nat, N : Nat, M : Nat, bytes : Nat, nOutputs : Nat]

\* The largest inner dimension and the largest output are those of some row.
Largest(f) == \E i \in DOMAIN entries : \A j \in DOMAIN entries : entries[j][f] <= entries[i][f]

\* The packer's table is one slice after the other.
Table ==
  /\ entries \in Seq(TableRow) /\ Len(entries) <= Len(dep.work)
  /\ phase = "pack" \/ entries # <<>> => Packer # None
  /\ \A i \in DOMAIN entries :
       entries[i].bytes = NumColTiles(Packer, entries[i].M) * entries[i].N * Packer.portBytes
  /\ \A i, j \in DOMAIN entries : i < j => entries[i].offset + entries[i].bytes <= entries[j].offset
  /\ entries # <<>> => Largest("N") /\ Largest("nOutputs")

\* What is open passed every check and has the buffers it asked for.
Buffers ==
  /\ \A f \in {"wt", "act", "out"} : handle[f] \in Nat
  /\ phase = "open" => entries # <<>> /\ OpenSucceeds /\ handle = Mapped

Registrations ==
  /\ registered \in 0 .. Len(entries) /\ (phase = "pack" => registered = 0)
  /\ phase = "open" => \A i \in 1 .. registered : Registers(entries[i])

GeometryInv ==
  /\ dep \in Deployments /\ phase \in {"pack", "open", "failed"}
  /\ Table /\ Buffers /\ Registrations

LEMMA RowFacts ==
  ASSUME NEW r \in TableRow
  PROVE  /\ r.offset \in Nat /\ r.N \in Nat /\ r.M \in Nat /\ r.bytes \in Nat /\ r.nOutputs \in Nat
         /\ \A f \in {"N", "nOutputs"} : r[f] \in Nat
<1>1. r.offset \in Nat /\ r.N \in Nat /\ r.M \in Nat /\ r.bytes \in Nat /\ r.nOutputs \in Nat
  BY DEF TableRow
<1>2. r["N"] \in Nat /\ r["nOutputs"] \in Nat
  BY <1>1
<1>. QED
  BY <1>1, <1>2

LEMMA RowsFacts ==
  ASSUME NEW s \in Seq(TableRow), NEW i \in DOMAIN s
  PROVE  /\ s[i].offset \in Nat /\ s[i].N \in Nat /\ s[i].M \in Nat /\ s[i].bytes \in Nat
         /\ s[i].nOutputs \in Nat /\ \A f \in {"N", "nOutputs"} : s[i][f] \in Nat
<1>1. s[i] \in TableRow
  OBVIOUS
<1>. QED
  BY <1>1, RowFacts

LEMMA LargestIs ==
  ASSUME Table, NEW f \in {"N", "nOutputs"}, Largest(f)
  PROVE  /\ Max({entries[i][f] : i \in DOMAIN entries}) \in Nat
         /\ \A j \in DOMAIN entries : entries[j][f] <= Max({entries[i][f] : i \in DOMAIN entries})
<1>. DEFINE S == {entries[i][f] : i \in DOMAIN entries}
<1>1. \A i \in DOMAIN entries : entries[i][f] \in Nat
  BY RowsFacts DEF Table
<1>2. PICK i \in DOMAIN entries : \A j \in DOMAIN entries : entries[j][f] <= entries[i][f]
  BY DEF Largest
<1>3. S \in SUBSET Nat /\ entries[i][f] \in S /\ \A y \in S : y <= entries[i][f]
  BY <1>1, <1>2
<1>4. Max(S) = entries[i][f]
  BY <1>3, MaxIs
<1>. QED
  BY <1>1, <1>2, <1>4

LEMMA GeometryInit == Init => GeometryInv
<1>. SUFFICES ASSUME Init PROVE GeometryInv
  OBVIOUS
<1>1. dep \in Deployments /\ phase \in {"pack", "failed"} /\ entries = <<>> /\ registered = 0
      /\ handle = [wt |-> 0, act |-> 0, out |-> 0]
  BY DEF Init
<1>2. phase = "pack" => Packer # None
  BY DEF Init, Packer
<1>3. Table
  <2>1. dep.work \in Seq([N : Nat, M : Nat])
    BY <1>1, DeploymentFacts
  <2>. QED
    BY <1>1, <1>2, <2>1 DEF Table
<1>. QED
  BY <1>1, <1>3 DEF GeometryInv, Buffers, Registrations

\* The row the packer appends comes after all others.
LEMMA EntryFacts ==
  ASSUME GeometryInv, phase = "pack", NEW p \in [N : Nat, M : Nat]
  PROVE  /\ Entry(p) \in TableRow
         /\ Entry(p).bytes = NumColTiles(Packer, Entry(p).M) * Entry(p).N * Packer.portBytes
         /\ \A i \in DOMAIN entries : entries[i].offset + entries[i].bytes <= Entry(p).offset
<1>1. Table /\ dep \in Deployments
  BY DEF GeometryInv
<1>2. Packer.outLanesPerTile \in Nat \ {0} /\ Packer.portBytes \in Nat
  BY <1>1, PackerFacts DEF Table
<1>3. p.N \in Nat /\ p.M \in Nat
  OBVIOUS
<1>4. NumColTiles(Packer, p.M) \in Nat
  BY <1>2, <1>3, TilesType
<1>. DEFINE T == NumColTiles(Packer, p.M)
            L == Len(entries)
<1>5. T * p.N * Packer.portBytes \in Nat /\ T * Packer.outLanesPerTile \in Nat
  BY <1>2, <1>3, <1>4, TimesType
<1>6. entries \in Seq(TableRow) /\ L \in Nat
  BY <1>1 DEF Table
<1>7. /\ Total \in Nat
      /\ \A i \in DOMAIN entries : entries[i].offset + entries[i].bytes <= Total
  <2>1. CASE entries = <<>>
    BY <2>1 DEF Total
  <2>2. CASE entries # <<>>
    <3>1. L \in DOMAIN entries /\ \A i \in DOMAIN entries : i = L \/ i < L
      BY <1>6, <2>2
    <3>2. \A i \in DOMAIN entries : entries[i].offset \in Nat /\ entries[i].bytes \in Nat
      BY <1>6, RowsFacts
    <3>3. Total = entries[L].offset + entries[L].bytes
      BY <2>2 DEF Total
    <3>4. \A i \in DOMAIN entries : i < L => entries[i].offset + entries[i].bytes <= entries[L].offset
      BY <1>1, <3>1 DEF Table
    <3>. DEFINE end(i) == entries[i].offset + entries[i].bytes
    <3>5. ASSUME NEW i \in DOMAIN entries PROVE end(i) \in Nat
      BY <3>2
    <3>6. ASSUME NEW i \in DOMAIN entries PROVE end(i) <= Total
      <4>1. CASE i = L
        BY <3>3, <3>5, <4>1
      <4>2. CASE i < L
        <5>1. end(i) <= entries[L].offset
          BY <3>4, <4>2
        <5>2. entries[L].offset \in Nat /\ entries[L].bytes \in Nat
          BY <3>1, <3>2
        <5>3. end(i) \in Nat
          BY <3>5
        <5>. HIDE DEF end
        <5>. QED
          BY <3>3, <5>1, <5>2, <5>3
      <4>. QED
        BY <3>1, <4>1, <4>2
    <3>7. Total \in Nat
      BY <3>1, <3>3, <3>5
    <3>. QED
      BY <3>6, <3>7
  <2>. QED
    BY <2>1, <2>2
<1>. DEFINE e == [offset |-> Total, N |-> p.N, M |-> p.M, bytes |-> T * p.N * Packer.portBytes,
                  nOutputs |-> T * Packer.outLanesPerTile]
<1>8. Entry(p) = e
  BY DEF Entry
<1>9. e \in TableRow /\ e.M = p.M /\ e.N = p.N /\ e.offset = Total
      /\ e.bytes = T * p.N * Packer.portBytes
  BY <1>3, <1>5, <1>7 DEF TableRow
<1>. QED
  BY <1>7, <1>8, <1>9

LEMMA PackStep ==
  ASSUME GeometryInv, Pack
  PROVE  GeometryInv'
<1>. DEFINE L == Len(entries)
            e == Entry(dep.work[L + 1])
<1>1. /\ Table /\ dep \in Deployments /\ phase = "pack" /\ L < Len(dep.work) /\ registered = 0
      /\ entries' = Append(entries, e) /\ UNCHANGED <<dep, phase, handle, registered>>
  BY DEF GeometryInv, Registrations, Pack
<1>2. entries \in Seq(TableRow) /\ L \in Nat /\ DOMAIN entries = 1 .. L /\ Packer # None
  BY <1>1 DEF Table
<1>3. dep.work[L + 1] \in [N : Nat, M : Nat]
  <2>1. dep.work \in Seq([N : Nat, M : Nat])
    BY <1>1, DeploymentFacts
  <2>2. L + 1 \in 1 .. Len(dep.work)
    BY <1>1, <1>2, <2>1
  <2>. QED
    BY <2>1, <2>2, ElementType
<1>4. /\ e \in TableRow /\ e.bytes = NumColTiles(Packer, e.M) * e.N * Packer.portBytes
      /\ \A i \in DOMAIN entries : entries[i].offset + entries[i].bytes <= e.offset
  BY <1>1, <1>3, EntryFacts
<1>. HIDE DEF e
<1>5. /\ entries' \in Seq(TableRow) /\ Len(entries') = L + 1 /\ DOMAIN entries' = 1 .. L + 1
      /\ entries'[L + 1] = e /\ \A i \in 1 .. L : entries'[i] = entries[i]
  BY <1>1, <1>2, <1>4
<1>6. Packer' = Packer /\ dep' = dep
  BY <1>1 DEF Packer
<1>7. ASSUME NEW f \in {"N", "nOutputs"} PROVE Largest(f)'
  <2>1. /\ \A i \in 1 .. L : entries[i][f] \in Nat
        /\ e[f] \in Nat
    BY <1>2, <1>4, RowFacts, RowsFacts
  <2>2. CASE L = 0
    <3>1. \A j \in DOMAIN entries' : entries'[j][f] <= entries'[L + 1][f]
      BY <1>5, <2>1, <2>2
    <3>. QED
      BY <1>5, <2>2, <3>1 DEF Largest
  <2>3. CASE L # 0
    <3>1. entries # <<>>
      BY <1>2, <2>3
    <3>2. PICK i \in 1 .. L : \A j \in 1 .. L : entries[j][f] <= entries[i][f]
      BY <1>1, <1>2, <3>1 DEF Table, Largest
    <3>3. CASE e[f] <= entries[i][f]
      <4>1. \A j \in DOMAIN entries' : entries'[j][f] <= entries'[i][f]
        BY <1>5, <3>2, <3>3, <1>2
      <4>2. i \in DOMAIN entries'
        BY <1>2, <1>5
      <4>. QED
        BY <4>1, <4>2, Zenon DEF Largest
    <3>4. CASE ~(e[f] <= entries[i][f])
      <4>1. ASSUME NEW j \in DOMAIN entries' PROVE entries'[j][f] <= entries'[L + 1][f]
        <5>1. e[f] \in Nat /\ entries'[L + 1][f] = e[f]
          BY <1>5, <2>1
        <5>2. CASE j = L + 1
          BY <5>1, <5>2
        <5>3. CASE j # L + 1
          <6>1. j \in 1 .. L
            BY <1>2, <1>5, <5>3
          <6>2. entries'[j] = entries[j] /\ entries[j][f] <= entries[i][f]
            BY <1>5, <3>2, <6>1
          <6>3. entries[j][f] \in Nat /\ entries[i][f] \in Nat
            BY <2>1, <6>1
          <6>. DEFINE x == entries[j][f]
                      y == entries[i][f]
                      z == e[f]
          <6>. HIDE DEF x, y, z
          <6>4. x <= z
            BY <3>4, <5>1, <6>2, <6>3 DEF x, y, z
          <6>. QED
            BY <5>1, <6>2, <6>4 DEF x, z
        <5>. QED
          BY <5>2, <5>3
      <4>2. L + 1 \in DOMAIN entries'
        BY <1>2, <1>5
      <4>. QED
        BY <4>1, <4>2, Zenon DEF Largest
    <3>. QED
      BY <3>3, <3>4
  <2>. QED
    BY <2>2, <2>3
<1>8. Table'
  <2>1. entries' \in Seq(TableRow) /\ Len(entries') <= Len(dep'.work) /\ Packer' # None
    BY <1>1, <1>2, <1>5, <1>6, DeploymentFacts
  <2>2. \A i \in DOMAIN entries' :
          entries'[i].bytes = NumColTiles(Packer', entries'[i].M) * entries'[i].N * Packer'.portBytes
    BY <1>1, <1>2, <1>4, <1>5, <1>6 DEF Table
  <2>3. ASSUME NEW i \in DOMAIN entries', NEW j \in DOMAIN entries', i < j
        PROVE  entries'[i].offset + entries'[i].bytes <= entries'[j].offset
    <3>1. i \in 1 .. L
      BY <1>2, <1>5, <2>3
    <3>2. CASE j = L + 1
      BY <1>2, <1>4, <1>5, <3>1, <3>2
    <3>3. CASE j # L + 1
      <4>1. j \in 1 .. L
        BY <1>2, <1>5, <3>3
      <4>2. entries[i].offset + entries[i].bytes <= entries[j].offset
        BY <1>1, <1>2, <2>3, <3>1, <4>1 DEF Table
      <4>. QED
        BY <1>5, <3>1, <4>1, <4>2
    <3>. QED
      BY <3>2, <3>3
  <2>. QED
    BY <1>7, <2>1, <2>2, <2>3 DEF Table
<1>9. Buffers' /\ Registrations'
  BY <1>1, <1>2, <1>5 DEF GeometryInv, Buffers, Registrations
<1>. QED
  BY <1>1, <1>8, <1>9 DEF GeometryInv

\* The sizes asked for are numbers.
LEMMA AskedFacts ==
  ASSUME GeometryInv, entries # <<>>, Host # None
  PROVE  /\ Asked.wt \in Nat /\ Asked.act \in Nat /\ Asked.out \in Nat
         /\ \A i \in DOMAIN entries : LoadBytes(entries[i]) <= Asked.act
<1>1. Table /\ dep \in Deployments
  BY DEF GeometryInv
<1>2. entries \in Seq(TableRow) /\ Len(entries) \in DOMAIN entries
  BY <1>1 DEF Table
<1>3. Total \in Nat
  <2>1. entries[Len(entries)].offset \in Nat /\ entries[Len(entries)].bytes \in Nat
    BY <1>2, RowsFacts
  <2>. QED
    BY <2>1 DEF Total
<1>. DEFINE n == Max({entries[i].N : i \in DOMAIN entries})
            o == Max({entries[i].nOutputs : i \in DOMAIN entries})
<1>4. n \in Nat /\ \A j \in DOMAIN entries : entries[j].N <= n
  <2>1. Largest("N")
    BY <1>1 DEF Table
  <2>. QED
    BY <1>1, <2>1, LargestIs
<1>5. o \in Nat
  <2>1. Largest("nOutputs")
    BY <1>1 DEF Table
  <2>. QED
    BY <1>1, <2>1, LargestIs
<1>6. /\ Host.portBytes \in Nat /\ Host.outLaneBytes \in Nat /\ dep.env.batch \in Nat
  BY <1>1, HostNumbers, DeploymentFacts
<1>7. Asked.wt = Total /\ Asked.act = n * Host.portBytes
      /\ Asked.out = dep.env.batch * o * Host.outLaneBytes
  BY DEF Asked
<1>. HIDE DEF n, o
<1>8. \A i \in DOMAIN entries : LoadBytes(entries[i]) <= Asked.act
  <2>. TAKE i \in DOMAIN entries
  <2>1. entries[i].N \in Nat /\ entries[i].N <= n
    BY <1>2, <1>4, RowsFacts
  <2>. QED
    BY <1>4, <1>6, <1>7, <2>1, TimesMonotone DEF LoadBytes
<1>9. Asked.act \in Nat /\ Asked.out \in Nat
  <2>1. n * Host.portBytes \in Nat /\ dep.env.batch * o \in Nat
    BY <1>4, <1>5, <1>6, TimesType
  <2>2. dep.env.batch * o * Host.outLaneBytes \in Nat
    BY <1>6, <2>1, TimesType
  <2>. QED
    BY <1>7, <2>1, <2>2
<1>. QED
  BY <1>3, <1>7, <1>8, <1>9

\* A buffer is as large as was asked for, or a whole node.
LEMMA MappedFacts ==
  ASSUME GeometryInv, entries # <<>>, Host # None
  PROVE  /\ Mapped.wt \in Nat /\ Mapped.act \in Nat /\ Mapped.out \in Nat
         /\ Asked.act <= Mapped.act
<1>1. WtNode(dep.bit) \in Nat /\ ActNode(dep.bit) \in Nat /\ OutNode(dep.bit) \in Nat
  BY GeometryAssumption, NodeFacts DEF GeometryInv
<1>2. Asked.wt \in Nat /\ Asked.act \in Nat /\ Asked.out \in Nat
  BY AskedFacts
<1>3. /\ Mapped.wt = IF Asked.wt = 0 THEN WtNode(dep.bit) ELSE Asked.wt
      /\ Mapped.act = IF Asked.act = 0 THEN ActNode(dep.bit) ELSE Asked.act
      /\ Mapped.out = IF Asked.out = 0 THEN OutNode(dep.bit) ELSE Asked.out
  BY DEF Mapped
<1>. QED
  BY <1>1, <1>2, <1>3

LEMMA OpenStep ==
  ASSUME GeometryInv, Open
  PROVE  GeometryInv'
<1>1. /\ dep \in Deployments /\ phase = "pack" /\ Table /\ registered = 0
      /\ Len(entries) = Len(dep.work) /\ UNCHANGED <<dep, entries, registered>>
  BY DEF GeometryInv, Registrations, Open
<1>2. entries # <<>>
  <2>1. dep.work # <<>> /\ dep.work \in Seq([N : Nat, M : Nat])
    BY <1>1, DeploymentFacts
  <2>. QED
    BY <1>1, <2>1
<1>3. Table'
  BY <1>1, <1>2 DEF Table, Largest, Packer
<1>4. Registrations'
  BY <1>1, <1>2 DEF GeometryInv, Registrations
<1>5. CASE OpenSucceeds /\ phase' = "open" /\ handle' = Mapped
  <2>1. Mapped.wt \in Nat /\ Mapped.act \in Nat /\ Mapped.out \in Nat
    BY <1>2, <1>5, MappedFacts DEF OpenSucceeds
  <2>2. Asked' = Asked /\ Mapped' = Mapped
    BY <1>1 DEF Asked, Mapped, Total, Host
  <2>3. OpenSucceeds'
    BY <1>1, <1>5, <2>2 DEF OpenSucceeds, NodesExist, Host, Hw, Packer
  <2>4. \A f \in {"wt", "act", "out"} : handle'[f] \in Nat
    BY <1>5, <2>1
  <2>. QED
    BY <1>1, <1>2, <1>3, <1>4, <1>5, <2>2, <2>3, <2>4 DEF GeometryInv, Buffers
<1>6. CASE ~OpenSucceeds /\ phase' = "failed" /\ UNCHANGED handle
  BY <1>1, <1>3, <1>4, <1>6 DEF GeometryInv, Buffers
<1>. QED
  BY <1>5, <1>6 DEF Open

\* Nothing but the phase and the count changes once the buffers are mapped.
LEMMA RegisterStep ==
  ASSUME GeometryInv, Register
  PROVE  GeometryInv'
<1>1. /\ dep \in Deployments /\ phase = "open" /\ Table /\ Buffers /\ Registrations
      /\ registered < Len(entries) /\ UNCHANGED <<dep, entries, handle>>
  BY DEF GeometryInv, Register
<1>2. /\ Len(entries) \in Nat /\ registered \in Nat /\ entries # <<>>
  BY <1>1 DEF Registrations, Table, Buffers
<1>3. \A i \in DOMAIN entries : Registers(entries[i])' <=> Registers(entries[i])
  BY <1>1 DEF Registers, ComputeBytes, StoreBytes, StoreLanes, Host
<1>4. Table'
  BY <1>1, <1>2 DEF Table, Largest, Packer
<1>5. phase' \in {"open", "failed"} /\ Buffers'
  <2>1. Asked' = Asked /\ Mapped' = Mapped
    BY <1>1 DEF Asked, Mapped, Total, Host
  <2>2. OpenSucceeds'
    BY <1>1, <2>1 DEF Buffers, OpenSucceeds, NodesExist, Host, Hw, Packer
  <2>. QED
    BY <1>1, <2>1, <2>2 DEF Buffers, Register
<1>6. Registrations'
  <2>1. CASE Registers(entries[registered + 1]) /\ registered' = registered + 1
    <3>1. registered' \in 0 .. Len(entries) /\ \A i \in 1 .. registered' : i \in 1 .. registered \/ i = registered + 1
      BY <1>1, <1>2, <2>1
    <3>2. \A i \in 1 .. registered' : Registers(entries[i])
      BY <1>1, <2>1, <3>1 DEF Registrations
    <3>3. \A i \in 1 .. registered' : i \in DOMAIN entries
      BY <1>1, <1>2, <3>1 DEF Table
    <3>4. \A i \in 1 .. registered' : Registers(entries[i])'
      BY <1>3, <3>2, <3>3
    <3>5. phase' # "pack" /\ Len(entries') = Len(entries)
      BY <1>1, <1>5
    <3>. QED
      BY <3>1, <3>4, <3>5 DEF Registrations
  <2>2. CASE phase' = "failed" /\ UNCHANGED registered
    BY <1>1, <2>2 DEF Registrations
  <2>. QED
    BY <2>1, <2>2 DEF Register
<1>. QED
  BY <1>1, <1>4, <1>5, <1>6 DEF GeometryInv

LEMMA GeometryInvariance == Spec => []GeometryInv
<1>1. GeometryInv /\ [Next]_vars => GeometryInv'
  <2>. SUFFICES ASSUME GeometryInv, [Next]_vars PROVE GeometryInv'
    OBVIOUS
  <2>1. CASE UNCHANGED vars
    BY <2>1 DEF vars, GeometryInv, Table, Largest, Buffers, Registrations, Packer, Host, Hw,
       OpenSucceeds, NodesExist, Asked, Mapped, Total, Registers, ComputeBytes, StoreBytes, StoreLanes
  <2>. QED
    BY <2>1, PackStep, OpenStep, RegisterStep DEF Next
<1>. QED
  BY <1>1, GeometryInit, PTL DEF Spec

-----------------------------------------------------------------------------
(* Theorems.                                                               *)

\* Phase, table and registrations have their types; the buffers' sizes are numbers.
THEOREM GeometryTypeCorrect == Spec => []TypeOK
<1>1. GeometryInv => TypeOK
  BY DEF GeometryInv, Table, Buffers, Registrations, TypeOK
<1>. QED
  BY <1>1, GeometryInvariance, PTL

\* Whatever bitstream, environment, packing and manifest come together, no LOAD,
\* COMPUTE or STORE of a registered projection leaves the mapped buffers: the
\* lengths are computed from the environment, the buffers from the packer's table,
\* and the checks of mmfree_register stand between the two.
THEOREM TransfersStayInside == Spec => []TransfersFit
<1>1. GeometryInv => TransfersFit
  <2>. SUFFICES ASSUME GeometryInv, InUse PROVE
         /\ Current.offset + ComputeBytes(Current) <= handle.wt
         /\ LoadBytes(Current) <= handle.act
         /\ StoreBytes(Current) <= handle.out
    BY DEF TransfersFit
  <2>1. registered \in 1 .. Len(entries) /\ Registers(Current) /\ Len(entries) \in Nat
    BY DEF GeometryInv, Table, Registrations, InUse, Current
  <2>2. handle = Mapped /\ entries # <<>> /\ Host # None /\ Table /\ dep \in Deployments
    BY DEF GeometryInv, Buffers, InUse, OpenSucceeds
  <2>3. LoadBytes(Current) <= handle.act
    <3>1. LoadBytes(Current) <= Asked.act
      BY <2>1, <2>2, AskedFacts DEF Table, Current
    <3>2. LoadBytes(Current) \in Nat
      <4>1. Current.N \in Nat
        BY <2>1, <2>2, RowsFacts DEF Table, Current
      <4>. QED
        BY <2>2, <4>1, HostNumbers, TimesType DEF LoadBytes
    <3>3. Asked.act \in Nat /\ Mapped.act \in Nat /\ Asked.act <= Mapped.act
      BY <2>2, AskedFacts, MappedFacts
    <3>. QED
      BY <2>2, <3>1, <3>2, <3>3
  <2>. QED
    BY <2>1, <2>3 DEF Registers
<1>. QED
  BY <1>1, GeometryInvariance, PTL

-----------------------------------------------------------------------------
(* Behind a strict manifest check.                                         *)

LEMMA CurrentFacts ==
  ASSUME GeometryInv, InUse
  PROVE  /\ registered \in DOMAIN entries /\ entries \in Seq(TableRow) /\ dep \in Deployments
         /\ Current.offset \in Nat /\ Current.N \in Nat /\ Current.M \in Nat
         /\ Host # None /\ Packer # None
         /\ Checked => ~Mismatch(dep.env, dep.bit) /\ HostBatch(dep.env) <= dep.env.xDim
<1>1. Table /\ Buffers /\ Registrations /\ dep \in Deployments /\ phase = "open" /\ registered > 0
  BY DEF GeometryInv, InUse
<1>2. registered \in DOMAIN entries /\ entries \in Seq(TableRow)
  BY <1>1 DEF Table, Registrations
<1>3. Host # None /\ Packer # None
  BY <1>1 DEF Buffers, Table, OpenSucceeds
<1>4. Checked => ~Mismatch(dep.env, dep.bit) /\ HostBatch(dep.env) <= dep.env.xDim
  BY <1>1 DEF Buffers, OpenSucceeds, Checked
<1>. QED
  BY <1>1, <1>2, <1>3, <1>4, RowsFacts DEF Current

\* The number of ports, and the bytes and beats of every operation, are those the
\* Core waits for.
THEOREM BeatsAgree == ASSUME LanesAreBytes PROVE Spec => []BeatCountsAgree
<1>1. GeometryInv => BeatCountsAgree
  <2>. DEFINE T    == NumColTiles(Hw, Current.M)
              sub  == Hw.outLanesPerTile \div Hw.outBeatLanes
              rows == dep.bit.batch * T * sub
  <2>. SUFFICES ASSUME GeometryInv, InUse, Checked
                PROVE  /\ Host.numPorts = Hw.numPorts
                       /\ LoadBytes(Current) = Current.N * Hw.portBytes
                       /\ ComputeBytes(Current) = Current.N * T * Hw.portBytes
                       /\ StoreLanes(Current) \div Hw.outBeatLanes = rows
                       /\ StoreBytes(Current) = rows * Hw.outBeatLanes * Hw.outLaneBytes
                       /\ Host.accWidth = Hw.accWidth
    BY DEF BeatCountsAgree
  <2>1. /\ dep \in Deployments /\ Host # None /\ Current.M \in Nat
        /\ ~Mismatch(dep.env, dep.bit) /\ HostBatch(dep.env) <= dep.env.xDim
    BY CurrentFacts
  <2>2. Hw.outLaneBytes >= 1
    BY <2>1 DEF LanesAreBytes, Hw
  <2>3. /\ Host.numPorts = Hw.numPorts /\ Host.portBytes = Hw.portBytes
        /\ Host.outLanesPerTile = Hw.outLanesPerTile /\ Host.accWidth = Hw.accWidth
        /\ Host.outLaneBytes = Hw.outLaneBytes /\ HostBatch(dep.env) = dep.bit.batch
    BY <2>1, <2>2, SameGeometry
  <2>4. NumColTiles(Host, Current.M) = T
    BY <2>3 DEF NumColTiles
  <2>5. /\ LoadBytes(Current) = Current.N * Hw.portBytes
        /\ ComputeBytes(Current) = Current.N * T * Hw.portBytes
        /\ StoreLanes(Current) = dep.bit.batch * T * Hw.outLanesPerTile
        /\ StoreBytes(Current) = StoreLanes(Current) * Hw.outLaneBytes
    BY <2>3, <2>4 DEF LoadBytes, ComputeBytes, StoreLanes, StoreBytes
  <2>6. /\ Hw.outLanesPerTile \in Nat \ {0} /\ Hw.outBeatLanes \in Nat \ {0}
        /\ Hw.outLanesPerTile % Hw.outBeatLanes = 0 /\ dep.bit.batch \in Nat
    BY <2>1, CoreNumbers, DeploymentFacts
  <2>7. T \in Nat
    BY <2>1, <2>6, TilesType
  <2>8. sub \in Nat /\ Hw.outLanesPerTile = Hw.outBeatLanes * sub
    <3>1. ASSUME NEW x \in Nat, NEW y \in Nat \ {0}, x % y = 0
          PROVE  x \div y \in Nat /\ x = y * (x \div y)
      BY <3>1, DivModOf
    <3>. QED
      BY <2>6, <3>1
  <2>9. StoreLanes(Current) = rows * Hw.outBeatLanes /\ rows \in Nat
    <3>. HIDE DEF T, sub
    <3>1. dep.bit.batch * T \in Nat
      BY <2>6, <2>7, TimesType
    <3>2. Hw.outLanesPerTile = sub * Hw.outBeatLanes
      BY <2>6, <2>8, TimesType
    <3>. QED
      BY <2>5, <2>6, <2>8, <3>1, <3>2, TimesAssociative, TimesType
  <2>. HIDE DEF rows
  <2>10. (rows * Hw.outBeatLanes + 0) \div Hw.outBeatLanes = rows
    BY <2>6, <2>9, DivModIs
  <2>11. rows * Hw.outBeatLanes + 0 = rows * Hw.outBeatLanes
    BY <2>6, <2>9, TimesType
  <2>. QED
    BY <2>3, <2>5, <2>9, <2>10, <2>11
<1>. QED
  BY <1>1, GeometryInvariance, PTL

\* In a table of consecutive slices an address belongs to the slice it lies in.
LEMMA SliceOf ==
  ASSUME Table, NEW i \in DOMAIN entries, NEW o \in 0 .. entries[i].bytes - 1
  PROVE  Max({j \in DOMAIN entries : entries[j].offset <= entries[i].offset + o}) = i
<1>. DEFINE S == {j \in DOMAIN entries : entries[j].offset <= entries[i].offset + o}
<1>1. entries \in Seq(TableRow) /\ DOMAIN entries = 1 .. Len(entries) /\ Len(entries) \in Nat
  BY DEF Table
<1>2. \A j \in DOMAIN entries : entries[j].offset \in Nat /\ entries[j].bytes \in Nat
  BY <1>1, RowsFacts
<1>3. i \in S
  BY <1>2
<1>4. ASSUME NEW j \in S, i < j PROVE FALSE
  <2>1. entries[i].offset + entries[i].bytes <= entries[j].offset
    BY <1>4 DEF Table
  <2>. QED
    BY <1>2, <2>1
<1>5. \A j \in S : j <= i
  BY <1>1, <1>4
<1>. QED
  BY <1>1, <1>3, <1>5, MaxIs

\* Where the packer puts the code of lane l of beat n of tile t, in the coordinates
\* of the stream: port, byte and position in it.
LEMMA CodeOf ==
  ASSUME NEW pb \in Nat \ {0}, NEW l \in Nat
  PROVE  LET wide == l \div 4
         IN /\ wide \div pb \in Nat /\ wide % pb \in 0 .. pb - 1 /\ l % 4 \in Nat
            /\ (wide \div pb) * (4 * pb) + 4 * (wide % pb) + (l % 4) = l
<1>. DEFINE wide == l \div 4
            p == wide \div pb
            w == wide % pb
<1>1. wide \in Nat /\ l = 4 * wide + (l % 4) /\ l % 4 \in 0 .. 3
  OBVIOUS
<1>2. p \in Nat /\ w \in 0 .. pb - 1 /\ wide = pb * p + w
  BY <1>1, DivModOf
<1>. HIDE DEF wide, p, w
<1>3. p * (4 * pb) = 4 * (pb * p) /\ pb * p \in Nat
  BY <1>2
<1>4. p * (4 * pb) + 4 * w + (l % 4) = l
  BY <1>1, <1>2, <1>3
<1>. QED
  BY <1>1, <1>2, <1>4 DEF wide, p, w

LEMMA LaneMeetsWeight ==
  ASSUME GeometryInv, InUse, Checked, PackedForBit,
         NEW t \in 0 .. NumColTiles(Hw, Current.M) - 1, NEW n \in 0 .. Current.N - 1, NEW l \in Nat
  PROVE  LET wide == l \div 4
             col  == t * Hw.outLanesPerTile + l
         IN BlobCode(wide \div Hw.portBytes,
                     Current.offset + (t * Current.N + n) * Hw.portBytes + (wide % Hw.portBytes),
                     l % 4)
            = IF col < Current.M THEN <<registered, n, col>> ELSE None
<1>. DEFINE i    == registered
            e    == entries[i]
            N    == e.N
            T    == NumColTiles(Hw, e.M)
            pb   == Hw.portBytes
            L    == Hw.outLanesPerTile
            wide == l \div 4
            p    == wide \div pb
            w    == wide % pb
            k    == l % 4
            b    == t * N + n
            a    == e.offset + b * pb + w
            o    == a - e.offset
<1>1. /\ dep \in Deployments /\ Host # None /\ Packer # None /\ i \in DOMAIN entries
      /\ ~Mismatch(dep.env, dep.bit) /\ HostBatch(dep.env) <= dep.env.xDim
      /\ e.offset \in Nat /\ N \in Nat /\ e.M \in Nat /\ Table /\ Current = e
  BY CurrentFacts DEF GeometryInv, Current
<1>2. /\ Packer.portBytes = pb /\ Packer.outLanesPerTile = L /\ pb \in Nat \ {0}
      /\ L \in Nat \ {0} /\ Packer.lanesPerPort = 4 * pb
  BY <1>1, SamePacking, PackerFacts
<1>3. e.bytes = T * N * pb
  BY <1>1, <1>2 DEF Table, NumColTiles
<1>4. T \in Nat /\ N \in Nat \ {0} /\ t \in 0 .. T - 1 /\ n \in 0 .. N - 1
  BY <1>1, <1>2, TilesType
<1>. HIDE DEF pb, L, T, N
<1>5. p \in Nat /\ w \in 0 .. pb - 1 /\ p * (4 * pb) + 4 * w + k = l /\ k \in Nat
  BY <1>2, CodeOf, Zenon
<1>. HIDE DEF p, w, k
<1>6. b \in Nat /\ b + 1 <= T * N /\ T * N \in Nat
  BY <1>4, BeatBelow, TimesType
<1>7. b \div N = t /\ b % N = n
  <2>1. b = t * N + n /\ t \in Nat
    BY <1>4
  <2>. HIDE DEF b
  <2>. QED
    BY <1>4, <2>1, DivModEq
<1>. HIDE DEF b
<1>8. b * pb \in Nat /\ (b + 1) * pb <= T * N * pb /\ (b + 1) * pb = b * pb + pb
  BY <1>2, <1>6, TimesMonotone, TimesType
<1>9. o = b * pb + w /\ a = e.offset + o
  BY <1>1, <1>5, <1>8
<1>10. o \in 0 .. e.bytes - 1
  BY <1>2, <1>3, <1>5, <1>8, <1>9, TimesType, <1>6
<1>11. o \div pb = b /\ o % pb = w
  <2>1. pb \in Nat \ {0} /\ b \in Nat /\ w \in 0 .. pb - 1 /\ o = b * pb + w
    BY <1>2, <1>5, <1>6, <1>9
  <2>. HIDE DEF o
  <2>. QED
    BY <2>1, DivModEq
<1>12. Max({j \in DOMAIN entries : entries[j].offset <= a}) = i
  BY <1>1, <1>9, <1>10, SliceOf
<1>13. BlobCode(p, a, k) = PackedCode(i, p, o, k)
  BY <1>12 DEF BlobCode
<1>14. t * L + p * (4 * pb) + 4 * w + k = t * L + l
  <2>1. t * L \in Nat /\ p * (4 * pb) \in Nat
    BY <1>2, <1>4, <1>5, TimesType
  <2>. QED
    BY <1>4, <1>5, <2>1
<1>15. PackedCode(i, p, o, k) = IF t * L + l < e.M THEN <<i, n, t * L + l>> ELSE None
  BY <1>2, <1>7, <1>11, <1>14 DEF PackedCode, N
<1>. QED
  BY <1>1, <1>13, <1>15 DEF pb, p, w, L, k, N, b

\* Every lane of every beat the Core reads is the weight of its inner index and
\* output column, whichever port carries it, wherever its slice begins.
THEOREM WeightsMeetLanes == Spec => []WeightsMeetTheirLanes
<1>1. GeometryInv => WeightsMeetTheirLanes
  <2>. SUFFICES ASSUME GeometryInv, InUse, Checked, PackedForBit,
                       NEW t \in InspectedOf(NumColTiles(Hw, Current.M)),
                       NEW n \in InspectedOf(Current.N), NEW l \in Lanes
                PROVE  LET wide == l \div 4
                           col  == t * Hw.outLanesPerTile + l
                       IN BlobCode(wide \div Hw.portBytes,
                                   Current.offset + (t * Current.N + n) * Hw.portBytes
                                     + (wide % Hw.portBytes), l % 4)
                          = IF col < Current.M THEN <<registered, n, col>> ELSE None
    BY DEF WeightsMeetTheirLanes
  <2>1. /\ dep \in Deployments /\ Current.M \in Nat /\ Current.N \in Nat /\ Packer # None
        /\ Host # None /\ ~Mismatch(dep.env, dep.bit) /\ HostBatch(dep.env) <= dep.env.xDim
    BY CurrentFacts
  <2>2. Hw.outLanesPerTile \in Nat \ {0} /\ Hw.portBytes \in Nat \ {0} /\ Hw.numPorts \in Nat \ {0}
    BY <2>1, SamePacking, PackerFacts
  <2>3. NumColTiles(Hw, Current.M) \in Nat
    BY <2>1, <2>2, TilesType
  <2>4. \A c \in Nat : InspectedOf(c) \subseteq 0 .. c - 1
    BY GeometryAssumption DEF InspectedOf
  <2>5. l \in Nat
    <3>1. \A p \in 0 .. Hw.numPorts : p * 4 * Hw.portBytes \in Nat
      BY <2>2, TimesType
    <3>2. ASSUME NEW p \in 1 .. Hw.numPorts PROVE p * 4 * Hw.portBytes - 1 \in Nat
      <4>1. \A x, y \in Nat \ {0} : x * y \in Nat \ {0}
        OBVIOUS
      <4>2. p * 4 * Hw.portBytes \in Nat \ {0}
        BY <2>2, <4>1
      <4>. QED
        BY <4>2
    <3>. QED
      BY <2>2, <3>1, <3>2 DEF Lanes
  <2>. QED
    BY <2>1, <2>3, <2>4, <2>5, LaneMeetsWeight
<1>. QED
  BY <1>1, GeometryInvariance, PTL

\* Bit j of the row r that the Core cuts out of the n-th LOAD beat is where
\* pack_act_port0 put bit j of its value, and none of the row lies outside port 0, as
\* long as that port's slice holds the batch (finding GeometryBatch) and a value is
\* whole bytes: the host packs bytes where the Core cuts bits.
THEOREM LoadBeatsMeetRows == ASSUME BatchesFit, WholeBytes PROVE Spec => []LoadBeatsAreRows
<1>1. GeometryInv => LoadBeatsAreRows
  <2>. DEFINE ab == dep.bit.aWidth \div 8
  <2>. SUFFICES ASSUME GeometryInv, InUse, Checked,
                       NEW n \in InspectedOf(Current.N), NEW r \in 0 .. dep.bit.batch - 1,
                       NEW j \in 0 .. dep.bit.aWidth - 1
                PROVE  LET bit == r * dep.bit.aWidth + j
                       IN /\ bit \div 8 < Hw.portBytes /\ bit % 8 = j % 8
                          /\ ActCode(n, n * Hw.portBytes + bit \div 8, Current.N) = <<n, r, j \div 8>>
    BY DEF LoadBeatsAreRows
  <2>1. /\ dep \in Deployments /\ Current.N \in Nat /\ Host # None
        /\ ~Mismatch(dep.env, dep.bit) /\ HostBatch(dep.env) <= dep.env.xDim
    BY CurrentFacts
  <2>2. /\ HostBatch(dep.env) = dep.bit.batch /\ dep.env.aWidth = dep.bit.aWidth
        /\ dep.bit.batch <= dep.bit.xDim /\ Host.portBytes = Hw.portBytes
    BY <2>1, SameGeometry
  <2>3. Hw.portBytes \in Nat /\ dep.bit.batch \in Nat /\ dep.bit.aWidth \in Nat
    BY <2>1, <2>2, HostNumbers, DeploymentFacts
  <2>4. dep.bit.batch * ab <= Hw.portBytes
    BY <2>1, <2>2 DEF BatchesFit, Hw
  <2>5. dep.bit.aWidth = 8 * ab /\ ab \in Nat \ {0}
    <3>1. dep.bit.aWidth % 8 = 0
      BY <2>1 DEF WholeBytes
    <3>. QED
      BY <2>3, <3>1
  <2>6. n \in 0 .. Current.N - 1
    BY <2>1, GeometryAssumption DEF InspectedOf
  <2>. DEFINE k    == j \div 8
              bit  == r * dep.bit.aWidth + j
              wide == r * ab + k
  <2>. HIDE DEF ab
  <2>7. k \in 0 .. ab - 1 /\ j = 8 * k + (j % 8) /\ j % 8 \in 0 .. 7
    BY <2>5
  <2>. HIDE DEF k
  <2>8. wide \in Nat /\ wide < Hw.portBytes
    <3>1. wide + 1 <= dep.bit.batch * ab /\ wide \in Nat /\ dep.bit.batch * ab \in Nat
      BY <2>3, <2>5, <2>7, BeatBelow, TimesType
    <3>. QED
      BY <2>3, <2>4, <3>1
  <2>9. wide \div ab = r /\ wide % ab = k
    <3>1. wide = r * ab + k /\ r \in Nat
      BY <2>3
    <3>. HIDE DEF wide
    <3>. QED
      BY <2>5, <2>7, <3>1, DivModEq
  <2>10. bit \div 8 = wide /\ bit % 8 = j % 8
    <3>1. r * dep.bit.aWidth = 8 * (r * ab) /\ r * ab \in Nat
      BY <2>3, <2>5
    <3>2. bit = 8 * (r * ab) + (8 * k + (j % 8)) /\ wide = r * ab + k
      BY <2>7, <3>1
    <3>3. bit = wide * 8 + (j % 8)
      BY <2>7, <3>1, <3>2
    <3>. HIDE DEF bit, wide
    <3>. QED
      BY <2>7, <2>8, <3>3, DivModEq
  <2>. HIDE DEF wide, bit
  <2>11. Min({n, Current.N - 1}) = n
    BY <2>1, <2>6, MinIs
  <2>12. (n * Hw.portBytes + wide) - n * Hw.portBytes = wide
    <3>1. n * Hw.portBytes \in Nat
      BY <2>3, <2>6, TimesType
    <3>. QED
      BY <2>8, <3>1
  <2>13. ActCode(n, n * Hw.portBytes + wide, Current.N) = <<n, r, k>>
    <3>. DEFINE i == Min({n, Current.N - 1})
                b == (n * Hw.portBytes + wide) - i * Host.portBytes
    <3>1. i = n /\ b = wide
      BY <2>2, <2>11, <2>12
    <3>. DEFINE eb == dep.env.aWidth \div 8
    <3>2. ActCode(n, n * Hw.portBytes + wide, Current.N)
            = IF eb > 0 /\ b \div eb < HostBatch(dep.env) THEN <<i, b \div eb, b % eb>> ELSE None
      BY DEF ActCode
    <3>3. eb = ab
      BY <2>2 DEF ab
    <3>. HIDE DEF i, b, eb
    <3>. QED
      BY <2>2, <2>3, <2>5, <2>9, <3>1, <3>2, <3>3
  <2>. QED
    BY <2>8, <2>10, <2>13 DEF bit, k
<1>. QED
  BY <1>1, GeometryInvariance, PTL

=============================================================================
