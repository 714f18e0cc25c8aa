------------------------------ MODULE Library ------------------------------
(***************************************************************************)
(* libmmfree over one handle, driven by FpgaBackend: every projection of a *)
(* cluster is packed, loaded, computed, stored and read back, and the CPU  *)
(* packs the next one and reads the previous one back while the engine     *)
(* computes.  mmfree_bitlinear_batch is a cluster of one.                  *)
(*                                                                         *)
(* act[0] and out are mapped write-back cacheable on a bus that does not   *)
(* snoop: between two syncs a line of act may reach DDR whenever the cache *)
(* evicts it, and a line of out may be in the cache since any time.        *)
(*                                                                         *)
(* One cache line holds one beat of act or one tile of a row of out.  The  *)
(* engine moves one line per step.  What this module takes a call on the   *)
(* device to be is CallService, which Runtime implements (CallContract).   *)
(***************************************************************************)
EXTENDS Naturals, Sequences, Signals

CONSTANTS Batch,     \* geom.batch: rows of the bitstream
          MaxN,      \* beats of the activation buffer and BRAM
          MaxTiles,  \* tiles per row the output buffer was opened for
          Projs,     \* registered projections [id, N, tiles]
          Clusters,  \* what callers ask for: [projs : Seq(Projs), b : 1 .. Batch]
          MaxOps,    \* bound: projections in a behaviour
          Fails      \* an operation may fail before it is issued

ASSUME LibraryAssumption ==
  /\ Batch \in Nat \ {0} /\ MaxN \in Nat \ {0} /\ MaxTiles \in Nat \ {0}
  /\ MaxOps \in Nat /\ Fails \in BOOLEAN
  \* mmfree_register refuses any other projection
  /\ \A p \in Projs : p.N \in 1 .. MaxN /\ p.tiles \in 1 .. MaxTiles
  /\ \A c \in Clusters : /\ c.projs \in Seq(Projs) /\ c.projs # <<>> /\ c.b \in 1 .. Batch
                         /\ \A i, j \in 1 .. Len(c.projs) : c.projs[i].N = c.projs[j].N

VARIABLES
  actCache, actDdr,   \* per beat: the row values a line holds; None: not cached
  outCache, outDdr,   \* per lane group (row, tile)
  actBram, outMem,    \* on chip
  op, moved,          \* instruction in the engine and the lines it has moved
  pc, cluster, n,     \* the thread: matmul_seq's loop counter n
  packed,             \* projections of the cluster packed so far
  ops,                \* projections started; names the vectors
  acc, read           \* the last readback, and the projections read so far

memVars    == <<actCache, actDdr, outCache, outDdr, actBram, outMem>>
engineVars == <<op, moved>>
threadVars == <<pc, cluster, n, packed, ops, acc, read>>
vars == <<memVars, engineVars, threadVars>>

Beats == 1 .. MaxN
Rows  == 0 .. Batch - 1
Lines == 0 .. Batch * MaxTiles - 1     \* the out buffer, one line per row and tile

\* What the buffers hold before anything is written: the open-time zeros of act.
ActLine == [Rows -> Nat \X Nat \X Nat]
ASSUME NoneAssumption ==
  /\ None \notin ActLine /\ None \notin Clusters
  /\ None \notin [kind : {"load", "compute", "store"}, proj : Projs, lines : Nat]
Zero == [r \in Rows |-> <<0, 0, 0>>]
Junk == [proj |-> None, tile |-> 0, x |-> <<>>]

Init ==
  /\ actCache = [i \in Beats |-> None] /\ actDdr = [i \in Beats |-> Zero]
  /\ outCache = [l \in Lines |-> None] /\ outDdr = [l \in Lines |-> Junk]
  /\ actBram = [i \in Beats |-> Zero] /\ outMem = [l \in Lines |-> Junk]
  /\ op = None /\ moved = 0
  /\ pc = "idle" /\ cluster = None /\ n = 1 /\ packed = 0 /\ ops = 0
  /\ acc = None /\ read = 0

-----------------------------------------------------------------------------
(* The engine and the memory system.                                       *)

\* What row r's accumulators hold for tile t of p after a COMPUTE.
Product(p, t, r) == [proj |-> p.id, tile |-> t, x |-> [i \in 1 .. p.N |-> actBram[i][r]]]

LoadBeat ==
  /\ op # None /\ op.kind = "load" /\ moved < op.lines
  /\ actBram' = [actBram EXCEPT ![moved + 1] = actDdr[moved + 1]]
  /\ moved' = moved + 1
  /\ UNCHANGED <<actCache, actDdr, outCache, outDdr, outMem, op, threadVars>>

\* One column tile; OutMem row drainBatch * numColTiles + tile.
ComputeTile ==
  /\ op # None /\ op.kind = "compute" /\ moved < op.lines
  /\ outMem' = [l \in Lines |-> IF \E r \in Rows : l = r * op.lines + moved
                                THEN Product(op.proj, moved, l \div op.lines) ELSE outMem[l]]
  /\ moved' = moved + 1
  /\ UNCHANGED <<actCache, actDdr, outCache, outDdr, actBram, op, threadVars>>

StoreLine ==
  /\ op # None /\ op.kind = "store" /\ moved < op.lines
  /\ outDdr' = [outDdr EXCEPT ![moved] = outMem[moved]]
  /\ moved' = moved + 1
  /\ UNCHANGED <<actCache, actDdr, outCache, actBram, outMem, op, threadVars>>

Evict ==
  /\ \E i \in Beats : /\ actCache[i] # None
                      /\ actDdr' = [actDdr EXCEPT ![i] = actCache[i]]
                      /\ actCache' = [actCache EXCEPT ![i] = None]
  /\ UNCHANGED <<outCache, outDdr, actBram, outMem, engineVars, threadVars>>

\* A speculative fill of a line of out; out is never dirty.
Fill ==
  /\ \E l \in Lines : outCache[l] = None /\ outCache' = [outCache EXCEPT ![l] = outDdr[l]]
  /\ UNCHANGED <<actCache, actDdr, outDdr, actBram, outMem, engineVars, threadVars>>

-----------------------------------------------------------------------------
(* The thread.                                                             *)

\* Entry i of the vector of row r, of the j-th projection of the current cluster.
Vector(j, i, r) == <<ops + j, i, r>>

Issue(kind, p, lines) == op' = [kind |-> kind, proj |-> p, lines |-> lines] /\ moved' = 0

\* Mutant: the call waits for one line more than the engine moves.
FinishedLate == op # None /\ moved = op.lines + 1

Finished == op # None /\ moved = op.lines

Begin ==
  /\ pc = "idle"
  /\ \E c \in Clusters : ops + Len(c.projs) <= MaxOps /\ cluster' = c
  /\ pc' = "pack" /\ n' = 1 /\ packed' = 0 /\ read' = 0 /\ acc' = None
  /\ UNCHANGED <<ops, memVars, engineVars>>

\* pack_act_port0 (16-bit rows) writes slots 0 .. b-1 and leaves the others.
Pack ==
  /\ pc = "pack"
  /\ actCache' = [i \in Beats |->
       IF i > cluster.projs[1].N THEN actCache[i]
       ELSE [r \in Rows |-> IF r < cluster.b THEN Vector(packed + 1, i, r)
                            ELSE IF actCache[i] # None THEN actCache[i][r] ELSE actDdr[i][r]]]
  /\ packed' = packed + 1 /\ pc' = "sync"
  /\ UNCHANGED <<actDdr, outCache, outDdr, actBram, outMem, engineVars, cluster, n, ops, acc, read>>

\* mmfree_buf_sync_for_device over the N beats.
SyncForDevice ==
  /\ pc = "sync"
  /\ actDdr' = [i \in Beats |-> IF i <= cluster.projs[1].N /\ actCache[i] # None
                                THEN actCache[i] ELSE actDdr[i]]
  /\ pc' = IF packed = 1 THEN "load" ELSE "computeWait"
  /\ UNCHANGED <<actCache, outCache, outDdr, actBram, outMem, engineVars,
                 cluster, n, packed, ops, acc, read>>

IssueLoad ==
  /\ pc = "load" /\ Issue("load", cluster.projs[packed], cluster.projs[packed].N)
  /\ pc' = "loadWait"
  /\ UNCHANGED <<cluster, n, packed, ops, acc, read, memVars>>

LoadWait ==
  /\ pc = "loadWait" /\ Finished /\ op' = None
  /\ pc' = "compute"
  /\ UNCHANGED <<moved, cluster, n, packed, ops, acc, read, memVars>>

\* After the issue: the previous projection's readback, the next one's pack.
IssueCompute ==
  /\ pc = "compute" /\ Issue("compute", cluster.projs[n], cluster.projs[n].tiles)
  /\ pc' = IF n > 1 THEN "readback" ELSE IF n < Len(cluster.projs) THEN "pack" ELSE "computeWait"
  /\ UNCHANGED <<cluster, n, packed, ops, acc, read, memVars>>

\* Mutant: the COMPUTE is not waited for.
ComputeNotWaited ==
  /\ pc = "computeWait" /\ pc' = "store"
  /\ UNCHANGED <<engineVars, cluster, n, packed, ops, acc, read, memVars>>

ComputeWait ==
  /\ pc = "computeWait" /\ Finished /\ op' = None
  /\ pc' = "store"
  /\ UNCHANGED <<moved, cluster, n, packed, ops, acc, read, memVars>>

IssueStore ==
  /\ pc = "store" /\ Issue("store", cluster.projs[n], Batch * cluster.projs[n].tiles)
  /\ pc' = "storeWait"
  /\ UNCHANGED <<cluster, n, packed, ops, acc, read, memVars>>

\* Mutant: the out buffer is not invalidated.
StoreWaitUnsynced ==
  /\ pc = "storeWait" /\ Finished /\ op' = None
  /\ n' = n + 1 /\ pc' = IF n < Len(cluster.projs) THEN "load" ELSE "readback"
  /\ UNCHANGED <<moved, cluster, packed, ops, acc, read, memVars>>

\* Mutant: the last projection is not read back.
StoreWaitEnds ==
  /\ pc = "storeWait" /\ Finished /\ op' = None
  /\ outCache' = [l \in Lines |-> IF l < op.lines THEN None ELSE outCache[l]]
  /\ n' = n + 1 /\ pc' = IF n < Len(cluster.projs) THEN "load" ELSE "idle"
  /\ UNCHANGED <<moved, actCache, actDdr, outDdr, actBram, outMem, cluster, packed, ops, acc, read>>

\* mmfree_seq_store_wait ends with mmfree_buf_sync_for_cpu over all rows.
StoreWait ==
  /\ pc = "storeWait" /\ Finished /\ op' = None
  /\ outCache' = [l \in Lines |-> IF l < op.lines THEN None ELSE outCache[l]]
  /\ n' = n + 1 /\ pc' = IF n < Len(cluster.projs) THEN "load" ELSE "readback"
  /\ UNCHANGED <<moved, actCache, actDdr, outDdr, actBram, outMem, cluster, packed, ops, acc, read>>

\* Mutant: a vector is packed after the last projection was issued, too.
ReadbackPacksOn ==
  /\ pc = "readback"
  /\ read' = read + 1
  /\ pc' = IF n > Len(cluster.projs) THEN "idle" ELSE "pack"
  /\ UNCHANGED <<acc, ops, cluster, n, packed, memVars, engineVars>>

\* Row r starts at lane r * n_outputs.  The last projection's readback ends the call.
Readback ==
  /\ pc = "readback"
  /\ LET p == cluster.projs[read + 1]
         Line(l) == IF outCache[l] # None THEN outCache[l] ELSE outDdr[l]
     IN acc' = [r \in 0 .. cluster.b - 1 |-> [t \in 0 .. p.tiles - 1 |-> Line(r * p.tiles + t)]]
  /\ read' = read + 1
  /\ pc' = IF n > Len(cluster.projs) THEN "idle"
           ELSE IF n < Len(cluster.projs) THEN "pack" ELSE "computeWait"
  /\ ops' = IF n > Len(cluster.projs) THEN ops + Len(cluster.projs) ELSE ops
  /\ UNCHANGED <<cluster, n, packed, memVars, engineVars>>

\* A start fails: an exception leaves the cluster, the handle stays open.
Fail ==
  /\ Fails /\ pc \in {"load", "compute", "store"}
  /\ pc' = "idle" /\ ops' = ops + Len(cluster.projs) /\ acc' = None
  /\ UNCHANGED <<cluster, n, packed, read, memVars, engineVars>>

Engine == LoadBeat \/ ComputeTile \/ StoreLine
Thread ==
  \/ Pack \/ SyncForDevice \/ IssueLoad \/ LoadWait \/ IssueCompute \/ ComputeWait
  \/ IssueStore \/ StoreWait \/ Readback

Next == Engine \/ Evict \/ Fill \/ Begin \/ Thread \/ Fail

Spec == Init /\ [][Next]_vars

FairSpec == Spec /\ WF_vars(Engine) /\ WF_vars(Thread)

-----------------------------------------------------------------------------
(* Properties.                                                             *)

\* Every variable has its type; no vector is packed that no projection needs.
TypeOK ==
  /\ DOMAIN actCache = Beats /\ DOMAIN actDdr = Beats /\ DOMAIN actBram = Beats
  /\ DOMAIN outCache = Lines /\ DOMAIN outDdr = Lines /\ DOMAIN outMem = Lines
  /\ cluster \in Clusters \cup {None} /\ n \in Nat /\ ops \in 0 .. MaxOps
  /\ op # None => moved \in 0 .. op.lines
  /\ cluster # None => /\ packed \in 0 .. Len(cluster.projs) /\ read \in 0 .. packed
                       /\ n \in 1 .. Len(cluster.projs) + 1

\* What consume gets for the projection read last is the product of its own
\* weights with its own vectors, for every row the caller asked for.
ConsumedIsProduced ==
  acc # None =>
    LET p == cluster.projs[read]
        first == IF pc = "idle" THEN ops - Len(cluster.projs) ELSE ops
    IN \A r \in 0 .. cluster.b - 1, t \in 0 .. p.tiles - 1 :
         acc[r][t] = [proj |-> p.id, tile |-> t, x |-> [i \in 1 .. p.N |-> <<first + read, i, r>>]]

\* "Engine ordering stays strictly one-op-outstanding" (mmfree_lib.c:377): no
\* operation is issued while another one is in the engine.
OneOpOutstanding == pc \in {"load", "compute", "store"} => op = None

\* What the caller of libmmfree sees is MatmulService: every cluster is answered
\* in order, each projection with its own product, whatever was asked before.
Matmul == INSTANCE MatmulService WITH
  Requests <- Clusters, MaxVectors <- MaxOps, Failures <- Fails,
  request <- IF pc = "idle" THEN None ELSE cluster,
  named <- ops, answers <- read, product <- acc

MatmulContract == Matmul!MatmulSpec

\* What this module takes for granted of the device is CallService, no more.
Calls == INSTANCE CallService WITH
  Calls <- [{0} -> Nat \ {0}], Quits <- FALSE,
  left <- IF op = None THEN <<>> ELSE [c \in {0} |-> op.lines - moved],
  result <- IF op = None THEN "ok" ELSE None

OnlyCalls == Calls!CallSpec

\* Every cluster a caller asked for comes to an end.
EveryClusterEnds == pc # "idle" ~> pc = "idle"

=============================================================================
