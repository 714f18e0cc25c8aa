-------------------------------- MODULE Core --------------------------------
(***************************************************************************)
(* The Core below its instruction handler (Core.scala): one FSM that takes *)
(* a command only in sIdle and gives the machine to one engine until its   *)
(* done pulse, the output memory the COMPUTE side writes and the STORE side*)
(* reads, and the two streams.  One step is one clock cycle.               *)
(***************************************************************************)
EXTENDS ComputeEngine, StoreEngine

coreVars == <<config, state, arrayVars, memVars, computeVars, storeVars>>

CoreInit ==
  /\ config \in Configs /\ state = "sIdle"
  /\ ArrayInit /\ MemInit /\ ComputeEngineInit /\ StoreEngineInit

\* sIdle: load, compute and store are ready; at most one of them is valid.
Accept(cmd) ==
  /\ state = "sIdle" /\ cmd # None
  /\ \/ (AcceptLoad(cmd) \/ AcceptCompute(cmd))
        /\ UNCHANGED <<storeTotal, storeBeat, rdPtr, prime>>
     \/ AcceptStore(cmd) /\ UNCHANGED <<loadVars, tileVars>>

Idle(cmd) ==
  /\ state = "sIdle" /\ cmd = None
  /\ UNCHANGED <<state, loadVars, tileVars, storeTotal, storeBeat, rdPtr, prime>>

Execute(beat) ==
  \/ (Load(beat) \/ Compute) /\ UNCHANGED <<storeTotal, storeBeat, rdPtr, prime>>
  \/ Store /\ UNCHANGED <<loadVars, tileVars>>

\* The done pulse the handler sees; each engine raises it in its own state.
Done(beat) == LoadDone(beat) \/ ComputeDone \/ StoreDone

CoreTick(cmd, beat, tready) ==
  /\ Accept(cmd) \/ Idle(cmd) \/ Execute(beat)
  /\ ComputeEngineTick(cmd, beat) /\ OutQueue(tready)
  /\ OutMemTick(DrainWrite, Advance, RdAddr)
  /\ UNCHANGED config

CoreTypeOK ==
  config \in Configs /\ state \in CoreStates /\ ComputeEngineTypeOK /\ StoreEngineTypeOK

=============================================================================
