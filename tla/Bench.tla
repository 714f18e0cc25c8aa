------------------------------- MODULE Bench -------------------------------
(***************************************************************************)
(* The on-board benchmark (bench.c): it resolves a geometry, builds a sweep*)
(* of shapes, opens the device and buffers sized for the worst shape, tests*)
(* the order of the ports, and then runs and verifies every shape.  The    *)
(* device is what the operations leave in it: the Core reads the ports'    *)
(* bytes the way CoreTop joins them, and computes modulo 2^accWidth.       *)
(*                                                                         *)
(* A deployment is                                                         *)
(*   bit, signedAct  the bitstream's configuration and PE arithmetic       *)
(*   wiring          wiring[p]: the s_axis port DMA p drives               *)
(*   env, signed     the geometry and MMFREE_SIGNED of the environment     *)
(*   manifest        MMFREE_MANIFEST is bit's and MMFREE_STRICT is set     *)
(*   shapes, custom  MMFREE_SHAPES, and the model of MMFREE_HIDDEN.. or    *)
(*                   None                                                  *)
(*   reps, verify    MMFREE_REPS (None: unset) and MMFREE_VERIFY           *)
(*                                                                         *)
(* Buffer contents are functions of the job that filled them last, so the  *)
(* state holds job numbers: 0 is the port-order self-test, i > 0 the i-th  *)
(* shape of the sweep.                                                     *)
(***************************************************************************)
EXTENDS HostGeometry, Ternary, Sequences

CONSTANTS Deployments,
          Fails          \* TRUE: a device may fail to open, an operation may time out

\* The environment matches the bitstream or is refused before the device is
\* touched; bit is what CoreConfig would elaborate.  The data the bench makes up
\* fits an activation, an output lane is a word it knows to read, and no shape is
\* empty or has a single row, which the Core would not finish.
Refused(d) ==
  \/ GeomInit(d.env) = None
  \/ d.env.batch \notin 1 .. d.env.xDim
  \/ d.manifest /\ Mismatch(d.env, d.bit)
ASSUME BenchAssumption ==
  /\ Fails \in BOOLEAN
  /\ \A d \in Deployments :
       /\ Sized(d.bit) /\ Elaborates(d.bit)
       /\ {d.signedAct, d.signed, d.manifest, d.verify} \subseteq BOOLEAN
       /\ Refused(d) \/ d.env = d.bit
       /\ d.env.aWidth % 8 = 0 /\ (d.signed => d.env.aWidth >= 16)
       /\ Derived(d.bit).outLaneBytes \in {4, 8} /\ d.env.maxN >= 2
       /\ d.custom = None \/
            /\ {d.custom.hidden, d.custom.inter} \subseteq Nat \ {1}
            /\ d.custom.vocab \in Nat \ {0}

VARIABLES dep,
          phase,    \* "config", "open", "buffers", "fill", "load", "compute", "store",
                    \* "check", "exit"
          sweep,    \* shapes [N, M]
          sizes,    \* bytes mapped: [act, wt] per port, [out]
          job, rep, \* the job in hand and its repetition
          memory,   \* jobs whose data act_buf and wt_buf hold: [act, wt]
          device,   \* [act: job whose activations are loaded, wt: weights of the last COMPUTE]
          output,   \* [act, wt, lanes] behind what STORE left in out_buf, or None
          failed,   \* shapes that failed; the exit status
          fault     \* the device failed; in an operation: rc = -2, the core is wedged

vars == <<dep, phase, sweep, sizes, job, rep, memory, device, output, failed, fault>>

G       == GeomInit(dep.env)
B       == dep.env.batch
Lanes   == G.outLanesPerTile
PerPort == Lanes \div G.numPorts
Ports   == 0 .. G.numPorts - 1
ABytes  == dep.env.aWidth \div 8
Tiles(m) == CeilDiv(m, Lanes)

-----------------------------------------------------------------------------
(* The sweep.                                                              *)

Models == [m370 |-> M370, m13b |-> M13B, m27b |-> M27B]
Model  == IF dep.shapes \in DOMAIN Models THEN Models[dep.shapes] ELSE dep.custom

ModelShapes(m) ==
  <<[N |-> m.hidden, M |-> m.hidden], [N |-> m.hidden, M |-> 2 * m.inter],
    [N |-> m.inter, M |-> m.hidden], [N |-> m.hidden, M |-> m.vocab]>>

FitsGeometry(s) == s.N <= dep.env.maxN /\ s.N <= dep.env.maxAcc /\ s.M <= dep.env.maxM

\* At most 16 powers of two from 64 up; a tiny array has its own limit.
Powers(limit) ==
  LET below == {j \in 1 .. 16 : 64 * 2^(j - 1) <= limit}
  IN IF below = {} THEN <<limit>> ELSE [j \in 1 .. Max(below) |-> 64 * 2^(j - 1)]

\* N-major, cut to the 128 entries of the table.
CrossSweep ==
  LET ns == Powers(dep.env.maxN)
      ms == Powers(dep.env.maxM)
  IN [k \in 1 .. Min({128, Len(ns) * Len(ms)}) |->
        [N |-> ns[(k - 1) \div Len(ms) + 1], M |-> ms[((k - 1) % Len(ms)) + 1]]]

\* The shapes of a model that the geometry holds.
FittingShapes(s) ==
  LET kept[k \in 0 .. Len(s)] ==
        IF k = 0 THEN <<>>
        ELSE IF FitsGeometry(s[k]) THEN Append(kept[k - 1], s[k]) ELSE kept[k - 1]
  IN kept[Len(s)]

Sweep == IF Model = None THEN CrossSweep ELSE FittingShapes(ModelShapes(Model))

\* A repetition count of zero means one.
Reps == IF dep.reps = None THEN IF Model = None THEN 1 ELSE 5 ELSE Max({1, dep.reps})

\* Mutant: buffers are sized for the last shape.
NeedsLast ==
  LET s == sweep[Len(sweep)]
  IN [act |-> s.N * G.portBytes, wt |-> s.N * Tiles(s.M) * G.portBytes,
      out |-> B * Tiles(s.M) * Lanes * G.outLaneBytes]

\* Worst case over the sweep.
Needs ==
  [act |-> Max({sweep[i].N : i \in DOMAIN sweep}) * G.portBytes,
   wt  |-> Max({sweep[i].N * Tiles(sweep[i].M) : i \in DOMAIN sweep}) * G.portBytes,
   out |-> B * Max({Tiles(sweep[i].M) : i \in DOMAIN sweep}) * Lanes * G.outLaneBytes]

-----------------------------------------------------------------------------
(* The data of a job, as bench.c writes it.                                *)

ShapeOf(j) == IF j = 0 THEN [N |-> 2, M |-> Lanes] ELSE sweep[j]

\* First lane of the top port.
HiBase == (G.numPorts - 1) * PerPort

\* Stands for next_rand: activation i of vector r, and a draw in 0 .. 3.
ActValue(j, r, i) ==
  IF j = 0 THEN IF r = 0 THEN 1 ELSE 0
  ELSE IF dep.signed THEN ((1201 * i + 577 * r + 2311 * j + 97 * i * r) % 4096) - 2048
       ELSE (7 * i + 5 * r + 3 * j + i * i) % 16
Draw(j, n, m) == (m * m + n * (m + 1) + (m \div 3) + j) % 4

\* The 2-bit code of row n and output column m; padding lanes hold.
WtCode(j, n, m) ==
  IF m >= ShapeOf(j).M THEN 0
  ELSE IF j = 0 THEN IF m >= HiBase THEN 1 ELSE 0
  ELSE <<0, 1, 0, 3>>[Draw(j, n, m) + 1]

\* Byte o of beat n of port p's activation buffer: the vectors side by side in
\* port 0 (write_act_beat_batch), zeros in the others.
ActByte(j, p, n, o) ==
  LET r == o \div ABytes
  IN IF p # 0 \/ r >= B THEN 0
     ELSE Byte(ActValue(j, r, n) % 2^dep.env.aWidth, o % ABytes)

\* Mutant: the beats of a port go row by row instead of tile by tile.
BeatCodeRowMajor(j, p, b, l) ==
  LET T == Tiles(ShapeOf(j).M)
  IN WtCode(j, b \div T, (b % T) * Lanes + p * PerPort + l)

\* Code l of beat b of port p's weight buffer (pack_weights).
BeatCode(j, p, b, l) ==
  LET N == ShapeOf(j).N
  IN WtCode(j, b % N, (b \div N) * Lanes + p * PerPort + l)

-----------------------------------------------------------------------------
(* What the Core makes of the ports' beats.                                *)

\* The DMA behind s_axis port s.
DmaOf(s) == CHOOSE p \in Ports : dep.wiring[p] = s

\* Vector r's activation in LOAD beat n: aWidth bits of the joined beat.
CoreAct(j, r, n) ==
  LET wide(k) == r * ABytes + k
      byte(k) == ActByte(j, DmaOf(wide(k) \div G.portBytes), n, wide(k) % G.portBytes)
      u == Joined([k \in 0 .. ABytes - 1 |-> byte(k)], ABytes)
  IN IF dep.signedAct THEN AsSigned(u, dep.env.aWidth) ELSE u

\* Lane l of beat n of column tile t.
CoreCode(j, t, n, l) ==
  BeatCode(j, DmaOf(l \div PerPort), t * ShapeOf(j).N + n, l % PerPort)

\* Output lane `lane` of STORE, batch-major and padded to whole tiles.
OutLane(lane) ==
  LET s  == ShapeOf(output.wt)
      nOutputs == Tiles(s.M) * Lanes
      r  == lane \div nOutputs
      c  == lane % nOutputs
  IN Accumulate([n \in 0 .. s.N - 1 |-> CoreCode(output.wt, c \div Lanes, n, c % Lanes)],
                [n \in 0 .. s.N - 1 |-> CoreAct(output.act, r, n)], s.N, G.accWidth)

-----------------------------------------------------------------------------
(* What the bench expects.                                                 *)

Expected(j, r, m) ==
  LET s == ShapeOf(j)
  IN IF j = 0 THEN IF m >= HiBase THEN s.N ELSE 0
     ELSE Dot([n \in 0 .. s.N - 1 |-> <<0, 1, 0, -1>>[Draw(j, n, m) + 1]],
              [n \in 0 .. s.N - 1 |-> ActValue(j, r, n)], s.N)

\* The self-test stores and compares one vector.
Vectors(j)     == IF j = 0 THEN 1 ELSE B
StoredLanes(j) == Vectors(j) * Tiles(ShapeOf(j).M) * Lanes

\* Output m of vector r.
Matches(j, r, m) ==
  ExpandAcc(OutLane(r * Tiles(ShapeOf(j).M) * Lanes + m), G.accWidth) = Expected(j, r, m)

Mismatches(j) ==
  {o \in (0 .. Vectors(j) - 1) \X (0 .. ShapeOf(j).M - 1) : ~Matches(j, o[1], o[2])}

\* Bytes per port an operation of job j moves.
LoadBytes(j)    == ShapeOf(j).N * G.portBytes
ComputeBytes(j) == ShapeOf(j).N * Tiles(ShapeOf(j).M) * G.portBytes
StoreBytes(j)   == StoredLanes(j) * G.outLaneBytes

-----------------------------------------------------------------------------

Init ==
  /\ dep \in Deployments /\ phase = "config"
  /\ sweep = <<>> /\ sizes = None /\ job = 0 /\ rep = 0
  /\ memory = [act |-> None, wt |-> None] /\ device = [act |-> None, wt |-> None]
  /\ output = None /\ failed = 0 /\ fault = FALSE

Exit(status) == phase' = "exit" /\ failed' = status

\* Geometry, batch, manifest and sweep; exit status 2 when one is no good.
Configure ==
  /\ phase = "config"
  /\ IF Refused(dep) THEN Exit(2) /\ UNCHANGED sweep
     ELSE IF Model # None /\ (Model.hidden = 0 \/ Model.inter = 0 \/ Sweep = <<>>)
     THEN Exit(2) /\ UNCHANGED sweep
     ELSE sweep' = Sweep /\ phase' = "open" /\ UNCHANGED failed
  /\ UNCHANGED <<dep, sizes, job, rep, memory, device, output, fault>>

Open ==
  /\ phase = "open"
  /\ \/ phase' = "buffers" /\ UNCHANGED <<failed, fault>>
     \/ Fails /\ fault' = TRUE /\ Exit(1)
  /\ UNCHANGED <<dep, sweep, sizes, job, rep, memory, device, output>>

NodesHold(need) ==
  need.act <= ActNode(dep.bit) /\ need.wt <= WtNode(dep.bit) /\ need.out <= OutNode(dep.bit)

\* buf_open_checked for every port and the output.  The self-test needs two ports.
OpenBuffers ==
  /\ phase = "buffers"
  /\ \/ /\ NodesHold(Needs)
        /\ sizes' = Needs /\ phase' = "fill"
        /\ job' = IF G.numPorts > 1 THEN 0 ELSE 1
        /\ UNCHANGED <<failed, fault>>
     \/ /\ Fails \/ ~NodesHold(Needs)
        /\ fault' = NodesHold(Needs) /\ Exit(1)
        /\ UNCHANGED <<sizes, job>>
  /\ UNCHANGED <<dep, sweep, rep, memory, device, output>>

Fill ==
  /\ phase = "fill" /\ phase' = "load" /\ rep' = 1
  /\ memory' = [act |-> job, wt |-> job]
  /\ UNCHANGED <<dep, sweep, sizes, job, device, output, failed, fault>>

\* A transfer the DMA can count; of any other length the Core waits for beats
\* that never come.
Streams(bytes) == bytes \in 1 .. 2^LengthBits - 1

\* Mutant: a failed operation fails its shape only.
OpFailsGoesOn(bytes) ==
  /\ Fails \/ ~Streams(bytes)
  /\ fault' = Streams(bytes) /\ failed' = failed + 1 /\ phase' = "check"
  /\ UNCHANGED <<device, output>>

\* An operation times out and ends the program: the core is wedged.
OpFails(bytes) ==
  /\ Fails \/ ~Streams(bytes)
  /\ fault' = Streams(bytes) /\ Exit(failed + 1)
  /\ UNCHANGED <<device, output>>

Load ==
  /\ phase = "load"
  /\ \/ /\ Streams(LoadBytes(job))
        /\ device' = [device EXCEPT !.act = memory.act]
        /\ phase' = "compute" /\ UNCHANGED <<output, failed, fault>>
     \/ OpFails(LoadBytes(job))
  /\ UNCHANGED <<dep, sweep, sizes, job, rep, memory>>

Compute ==
  /\ phase = "compute"
  /\ \/ /\ Streams(ComputeBytes(job))
        /\ device' = [device EXCEPT !.wt = memory.wt]
        /\ phase' = "store" /\ UNCHANGED <<output, failed, fault>>
     \/ OpFails(ComputeBytes(job))
  /\ UNCHANGED <<dep, sweep, sizes, job, rep, memory>>

Store ==
  /\ phase = "store"
  /\ \/ /\ Streams(StoreBytes(job))
        /\ output' = [act |-> device.act, wt |-> device.wt, lanes |-> StoredLanes(job)]
        /\ \/ job # 0 /\ rep < Reps /\ rep' = rep + 1 /\ phase' = "load"
           \/ ~(job # 0 /\ rep < Reps) /\ phase' = "check" /\ UNCHANGED rep
        /\ UNCHANGED <<device, failed, fault>>
     \/ OpFails(StoreBytes(job)) /\ UNCHANGED rep
  /\ UNCHANGED <<dep, sweep, sizes, job, memory>>

\* Mutant: wrong outputs of a shape are printed, not counted.
CountSelfTest(bad) == IF bad /\ job = 0 THEN failed + 1 ELSE failed

\* A failed shape is counted.
Count(bad) == IF bad THEN failed + 1 ELSE failed

\* Mutant: one job too many.
IsLastLate(bad) == job > Len(sweep) \/ (job = 0 /\ bad)

IsLast(bad) == job = Len(sweep) \/ (job = 0 /\ bad)

\* The self-test always verifies.
Check ==
  /\ phase = "check"
  /\ LET bad == (job = 0 \/ dep.verify) /\ Mismatches(job) # {}
     IN /\ failed' = Count(bad)
        /\ phase' = IF IsLast(bad) THEN "exit" ELSE "fill"
        /\ job' = IF IsLast(bad) THEN job ELSE job + 1
  /\ UNCHANGED <<dep, sweep, sizes, rep, memory, device, output, fault>>

Next == Configure \/ Open \/ OpenBuffers \/ Fill \/ Load \/ Compute \/ Store \/ Check

Spec == Init /\ [][Next]_vars

-----------------------------------------------------------------------------
(* A hypothesis of the theorems: the largest shape the geometry admits is  *)
(* within the DMAs' length registers.                                      *)

MaximaStream ==
  \A d \in Deployments : ~Refused(d) =>
    LET g     == GeomInit(d.env)
        tiles == CeilDiv(d.env.maxM, g.outLanesPerTile)
    IN /\ d.env.maxN * tiles * g.portBytes < 2^LengthBits
       /\ d.env.batch * tiles * g.outLanesPerTile * g.outLaneBytes < 2^LengthBits

-----------------------------------------------------------------------------
(* Properties.                                                             *)

Jobs == 0 .. 128

\* Registers of the program have their types; the sweep fits its table.
TypeOK ==
  /\ dep \in Deployments
  /\ phase \in {"config", "open", "buffers", "fill", "load", "compute", "store", "check", "exit"}
  /\ Len(sweep) <= 128 /\ job \in 0 .. Len(sweep) /\ rep \in Nat
  /\ memory \in [act : Jobs \cup {None}, wt : Jobs \cup {None}]
  /\ device \in [act : Jobs \cup {None}, wt : Jobs \cup {None}]
  /\ failed \in 0 .. Max({2, Len(sweep)}) /\ fault \in BOOLEAN

Wired       == \A p \in Ports : dep.wiring[p] = p
BatchInPort == B * ABytes <= G.portBytes

\* On its own bitstream, wired as bd.tcl does, with the right PE arithmetic and a
\* batch that one port's slice holds, a sweep during which no device fails has no
\* failure: the overlay's buffers hold it, and every output lane of every vector,
\* packed, joined, accumulated modulo 2^accWidth, drained and read back, is the
\* product ref_matmul computes.
OwnBenchPasses ==
  ~Refused(dep) /\ Wired /\ BatchInPort /\ dep.signed = dep.signedAct /\ ~fault /\ sweep # <<>> =>
    failed = 0

\* No operation of the self-test or of any shape reaches beyond the buffers that
\* were sized once, before the first of them.
TransfersFit ==
  phase \in {"load", "compute", "store", "check"} =>
    LoadBytes(job) <= sizes.act /\ ComputeBytes(job) <= sizes.wt /\ StoreBytes(job) <= sizes.out

\* A verified sweep that ends clean, some shape of which is wide enough to use
\* every port, ran on the right wiring, with a batch that one port's slice holds
\* (bench.c:169), and on PEs that read its signed activations as signed: what the
\* self-test and main's checks let through does not survive the sweep.
CleanMeansMatched ==
  phase = "exit" /\ failed = 0 /\ dep.verify /\ (\E i \in DOMAIN sweep : sweep[i].M >= Lanes) =>
    Wired /\ BatchInPort /\ (dep.signed => dep.signedAct)

\* After the device has failed no operation is issued (bench.c:805-806, the
\* remaining shapes would each burn a full timeout) and the exit status says so.
NothingAfterFault == fault => phase = "exit" /\ failed > 0

\* "For split streams, prove the DMA->s_axis_i wiring/order before the sweep"
\* (bench.c:760): past the self-test the ports are wired in order.
SelfTestProves == job > 0 /\ phase # "config" => Wired

=============================================================================
