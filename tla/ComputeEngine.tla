--------------------------- MODULE ComputeEngine ---------------------------
(***************************************************************************)
(* LOAD_ACT and COMPUTE_MM in the Core (Core.scala): the activation memory,*)
(* the enqueue side that pairs weight beats with activation rows, the      *)
(* input queue and its register slice, the systolic array, and the drain   *)
(* engine that writes finished tiles to the output memory while the next   *)
(* tile streams.  One step is one clock cycle.                             *)
(*                                                                         *)
(* A beat on s_axis is opaque, None when tvalid is low.  What the          *)
(* arithmetic computes is known from which weight beat met which           *)
(* activation row, so a tile's accumulators are the sequence of pairs, and *)
(* an output row is a pair of that sequence and its chunk number.          *)
(***************************************************************************)
EXTENDS SystolicArray, OutMem

VARIABLES
  cState,                                     \* the COMPUTE sub-FSM
  loadTotal, loadBeat, actBram, actRd,        \* actRd: actRdData
  rows, tiles, colTile, activeIdx,            \* cmpRows, numColTiles, colTileCtr
  inQ, slice,                                 \* inQ; armSlice as a sequence of at most one
  tileAccums, drainBusy, drainSub, drainBatch, drainTile, drainFlush

loadVars    == <<loadTotal, loadBeat, actBram>>
tileVars    == <<cState, rows, tiles, colTile>>
drainVars   == <<tileAccums, drainBusy, drainSub, drainBatch, drainTile, drainFlush>>
computeVars == <<loadVars, tileVars, actRd, activeIdx, inQ, slice, drainVars>>

ComputeEngineInit ==
  /\ cState = "cInit" /\ rows = 0 /\ tiles = 0 /\ colTile = 0
  /\ loadTotal = 0 /\ loadBeat = 0 /\ actBram = [a \in 0 .. MaxN - 1 |-> None]
  /\ actRd = None /\ activeIdx = 0 /\ inQ = <<>> /\ slice = <<>>
  /\ tileAccums = <<>> /\ drainBusy = FALSE /\ drainSub = 0 /\ drainBatch = 0
  /\ drainTile = 0 /\ drainFlush = 0

-----------------------------------------------------------------------------
(* Wires.                                                                  *)

HasSlice  == Batch > 1
Streaming == state = "sCompute" /\ cState = "cStream"
Filling   == state = "sCompute" /\ cState \in {"cStream", "cReset"}

\* Mutants: the queue takes a beat when full; the stream row wraps a row late.
EnqFireWhenFull(beat) == Filling /\ beat # None /\ Len(inQ) <= InQDepth
NextRowLate == IF activeIdx = rows THEN 0 ELSE (activeIdx + 1) % MaxN

EnqFire(beat) == Filling /\ beat # None /\ Len(inQ) < InQDepth
NextRow == IF activeIdx = rows - 1 THEN 0 ELSE activeIdx + 1

Starting(cmd) == state = "sIdle" /\ cmd # None /\ cmd.op = "COMPUTE_MM"

OutPending == Streaming /\ OutputValid
Capture    == OutPending /\ ~drainBusy

\* armSrc: the slice of a batched core, else inQ itself.
ArmSrc     == IF HasSlice THEN slice ELSE inQ

\* Mutant: the array is not reset between column tiles.
LocalResetNever == FALSE

LocalReset == state = "sCompute" /\ cState = "cReset"

ArrayIn ==
  LET feed == Streaming /\ ~OutPending
      head == IF feed /\ ArmSrc # <<>> THEN Head(ArmSrc) ELSE <<None, None>>
  IN [weight |-> head[1], act |-> head[2], nAcc |-> IF feed THEN rows ELSE None,
      outReady |-> Capture, reset |-> LocalReset]
ArmTake    == Streaming /\ ~OutPending /\ ArmSrc # <<>> /\ WeightReady(ArrayIn)
SliceReady == slice = <<>> \/ ArmTake
InQTake    == inQ # <<>> /\ IF HasSlice THEN SliceReady ELSE ArmTake

LastSub   == drainSub + 1 = SubBeats
LastBatch == drainBatch + 1 = Batch
DrainWrite ==
  IF drainBusy
  THEN [addr |-> ((drainBatch * tiles + drainTile) * SubBeats + drainSub) % RowMod,
        data |-> Head(tileAccums)]
  ELSE None

\* Mutants: completion does not wait for the write pipeline; the last column tile
\* is skipped.
DoneBeforeFlush == state = "sCompute" /\ cState = "cDone" /\ ~drainBusy
LastTileEarly   == colTile + 2 >= tiles

LastTile    == colTile + 1 = tiles
ComputeDone == state = "sCompute" /\ cState = "cDone" /\ ~drainBusy /\ drainFlush = 0
LoadDone(beat) == state = "sLoad" /\ beat # None /\ loadBeat + 1 = loadTotal

\* s_axis.tready
StreamReady == state = "sLoad" \/ (Filling /\ Len(inQ) < InQDepth)

-----------------------------------------------------------------------------
(* The enqueue side and the queues; everything queued is flushed in sIdle. *)

Queues(beat) ==
  LET rest == IF InQTake THEN Tail(inQ) ELSE inQ
      kept == IF ArmTake THEN <<>> ELSE slice
  IN IF state = "sIdle"
     THEN inQ' = <<>> /\ slice' = <<>>
     ELSE /\ inQ' = IF EnqFire(beat) THEN Append(rest, <<beat, actRd>>) ELSE rest
          /\ slice' = IF HasSlice /\ InQTake THEN <<Head(inQ)>> ELSE kept

\* cmd is the operation the handler presents, None when its valid is low.
ActRead(cmd, beat) ==
  /\ actRd' = actBram[IF ~Filling THEN 0 ELSE IF EnqFire(beat) THEN NextRow ELSE activeIdx]
  /\ activeIdx' = IF Starting(cmd) \/ (state = "sCompute" /\ cState = "cInit") THEN 0
                  ELSE IF EnqFire(beat) THEN NextRow ELSE activeIdx

(* The drain engine: one row per cycle, then the write port's latency.     *)

Drain ==
  IF Capture
  THEN /\ tileAccums' = [k \in 1 .. Batch * SubBeats |-> <<accum, k - 1>>]
       /\ drainBusy' = TRUE /\ drainSub' = 0 /\ drainBatch' = 0 /\ drainTile' = colTile
  ELSE IF drainBusy
  THEN /\ tileAccums' = Tail(tileAccums)
       /\ drainSub' = IF LastSub THEN 0 ELSE drainSub + 1
       /\ drainBatch' = IF ~LastSub THEN drainBatch ELSE IF LastBatch THEN 0 ELSE drainBatch + 1
       /\ drainBusy' = ~(LastSub /\ LastBatch)
       /\ UNCHANGED drainTile
  ELSE UNCHANGED <<tileAccums, drainBusy, drainSub, drainBatch, drainTile>>

DrainFlush ==
  drainFlush' = IF drainBusy THEN WriteLat ELSE IF drainFlush # 0 THEN drainFlush - 1 ELSE 0

-----------------------------------------------------------------------------
(* sLoad and sCompute.                                                     *)

AcceptLoad(cmd) ==
  /\ cmd.op = "LOAD_ACT"
  /\ loadTotal' = cmd.dim0 /\ loadBeat' = 0
  /\ state' = "sLoad"
  /\ UNCHANGED <<tileVars, actBram>>

AcceptCompute(cmd) ==
  /\ cmd.op = "COMPUTE_MM"
  /\ rows' = cmd.dim0 /\ tiles' = ColTiles(cmd.dim1) /\ colTile' = 0
  /\ cState' = "cInit" /\ state' = "sCompute"
  /\ UNCHANGED loadVars

\* Mutant: the last beat of a LOAD raises loadDone but the FSM waits for one more.
LoadOverruns(beat) ==
  /\ state = "sLoad"
  /\ IF beat # None
     THEN /\ actBram' = [actBram EXCEPT ![loadBeat % MaxN] = beat]
          /\ loadBeat' = loadBeat + 1
          /\ state' = IF loadBeat = loadTotal THEN "sIdle" ELSE state
     ELSE UNCHANGED <<actBram, loadBeat, state>>
  /\ UNCHANGED <<loadTotal, tileVars>>

Load(beat) ==
  /\ state = "sLoad"
  /\ IF beat # None
     THEN /\ actBram' = [actBram EXCEPT ![loadBeat] = beat]
          /\ loadBeat' = loadBeat + 1
          /\ state' = IF LoadDone(beat) THEN "sIdle" ELSE state
     ELSE UNCHANGED <<actBram, loadBeat, state>>
  /\ UNCHANGED <<loadTotal, tileVars>>

ComputeInit == cState = "cInit" /\ cState' = "cStream" /\ UNCHANGED <<state, colTile>>

ComputeStream ==
  /\ cState = "cStream"
  /\ cState' = IF Capture THEN "cReset" ELSE cState
  /\ UNCHANGED <<state, colTile>>

ComputeReset ==
  /\ cState = "cReset"
  /\ IF LastTile
     THEN cState' = "cDone" /\ UNCHANGED colTile
     ELSE cState' = "cStream" /\ colTile' = colTile + 1
  /\ UNCHANGED state

ComputeFinish ==
  /\ cState = "cDone"
  /\ state' = IF ComputeDone THEN "sIdle" ELSE state
  /\ UNCHANGED <<cState, colTile>>

Compute ==
  /\ state = "sCompute"
  /\ ComputeInit \/ ComputeStream \/ ComputeReset \/ ComputeFinish
  /\ UNCHANGED <<rows, tiles, loadVars>>

ComputeEngineTick(cmd, beat) ==
  Queues(beat) /\ ActRead(cmd, beat) /\ Drain /\ DrainFlush /\ ArrayTick(ArrayIn)

-----------------------------------------------------------------------------
\* Registers and queues have their types; counters stay in range.
ComputeEngineTypeOK ==
  /\ cState \in {"cInit", "cStream", "cReset", "cDone"}
  /\ peState \in FsmState /\ arrState \in FsmState /\ peCount \in 0 .. MaxAcc - 1
  /\ loadBeat \in 0 .. MaxN /\ activeIdx \in 0 .. MaxN - 1
  /\ Len(inQ) <= InQDepth /\ Len(slice) <= 1 /\ Len(tileAccums) <= Batch * SubBeats
  /\ drainSub \in 0 .. SubBeats - 1 /\ drainBatch \in 0 .. Batch - 1
  /\ drainFlush \in 0 .. WriteLat

=============================================================================
