---------------------------- MODULE StoreEngine ----------------------------
(***************************************************************************)
(* STORE_OUT: the Core walks the output memory and streams one row per     *)
(* m_axis beat through a two-entry queue, against any back-pressure        *)
(* (Core.scala sStore and outQ).  The queue's tail may still be draining   *)
(* while later instructions run.  One step is one clock cycle.             *)
(***************************************************************************)
EXTENDS OutMem

VARIABLES storeTotal, storeBeat, rdPtr, prime,
          outQ   \* beats [data, last] waiting for m_axis

storeVars == <<storeTotal, storeBeat, rdPtr, prime, outQ>>

StoreEngineInit ==
  storeTotal = 0 /\ storeBeat = 0 /\ rdPtr = 0 /\ prime = 0 /\ outQ = <<>>

-----------------------------------------------------------------------------
Primed   == prime = 0
EnqReady == Len(outQ) < OutQDepth
Fire     == state = "sStore" /\ Primed /\ EnqReady
Advance  == state = "sStore" /\ (~Primed \/ Fire)
RdAddr   == IF state = "sStore" THEN rdPtr % RowMod ELSE 0

\* Mutant: storeDone ignores the queue's ready.
StoreDoneUnfired == state = "sStore" /\ Primed /\ storeBeat + 1 = storeTotal

StoreDone == Fire /\ storeBeat + 1 = storeTotal
OutBeat   == [data |-> pipe[ReadLat], last |-> storeBeat + 1 = storeTotal]

\* outQ: enqueue and dequeue are independent, m_axis takes a beat when ready.
Deliver(tready) == tready /\ outQ # <<>>
OutQueue(tready) ==
  LET rest == IF Deliver(tready) THEN Tail(outQ) ELSE outQ
  IN outQ' = IF Fire THEN Append(rest, OutBeat) ELSE rest

AcceptStore(cmd) ==
  /\ cmd.op = "STORE_OUT"
  /\ storeTotal' = cmd.dim0 \div BeatLanes
  /\ storeBeat' = 0 /\ rdPtr' = 0 /\ prime' = ReadLat
  /\ state' = "sStore"

\* sStore: fill the read pipeline, then move one row per free queue entry.
Store ==
  /\ state = "sStore"
  /\ rdPtr' = IF Advance THEN rdPtr + 1 ELSE rdPtr
  /\ prime' = IF Primed THEN prime ELSE prime - 1
  /\ storeBeat' = IF Fire THEN storeBeat + 1 ELSE storeBeat
  /\ state' = IF StoreDone THEN "sIdle" ELSE state
  /\ UNCHANGED storeTotal

-----------------------------------------------------------------------------
\* The queue and the pointers stay in range.
StoreEngineTypeOK ==
  /\ storeTotal \in 0 .. MemRows /\ storeBeat \in 0 .. MemRows
  /\ rdPtr \in 0 .. MemRows + ReadLat /\ prime \in 0 .. ReadLat
  /\ Len(outQ) <= OutQDepth

=============================================================================
