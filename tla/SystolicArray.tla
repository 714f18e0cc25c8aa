--------------------------- MODULE SystolicArray ---------------------------
(***************************************************************************)
(* The array of ternary PEs and its three-way rendezvous                   *)
(* (systolic/SystolicArray.scala, systolic/PE.scala).  All PEs see the same*)
(* handshake in the same cycle and stay in lockstep, so one PE's control   *)
(* registers stand for all of them; what the accumulators hold is the      *)
(* sequence of (weight beat, activation) pairs summed into them.  The pins *)
(* `in` carry None where valid is low.                                     *)
(***************************************************************************)
EXTENDS CoreBuild

VARIABLES peState, peCount, peLast, accum,  \* PE: stateReg, accumCounter, nAccReg, accumReg
          arrState, arrN                    \* array: stateReg, nAccReg

arrayVars == <<peState, peCount, peLast, accum, arrState, arrN>>

FsmState == {"idle", "running", "done"}

\* nAccReg has no reset value; it is always written before it is read.
ArrayInit ==
  /\ peState = "idle" /\ peCount = 0 /\ peLast = 0 /\ accum = <<>>
  /\ arrState = "idle" /\ arrN = 0

OutputValid == peState = "done"

BothValid(in)  == in.weight # None /\ in.act # None
Latching(in)   == arrState = "idle" /\ BothValid(in) /\ in.nAcc # None
ArrayStep(in)  == Latching(in) \/ (arrState = "running" /\ BothValid(in))

\* The ready pins; weights and activations gate each other.
WeightReady(in) == Latching(in) \/ (arrState = "running" /\ in.act # None)
ActReady(in)    == Latching(in) \/ (arrState = "running" /\ in.weight # None)

Counted == (peCount + 1) % MaxAcc

PeIdle(in) ==
  /\ peState = "idle"
  /\ IF ArrayStep(in)
     THEN /\ peLast' = ((IF Latching(in) THEN in.nAcc ELSE arrN) + NAccMod - 1) % NAccMod
          /\ accum' = Append(accum, <<in.weight, in.act>>)
          /\ peCount' = Counted
          /\ peState' = "running"
     ELSE UNCHANGED <<peState, peCount, peLast, accum>>

PeRunning(in) ==
  /\ peState = "running"
  /\ IF ArrayStep(in)
     THEN /\ accum' = Append(accum, <<in.weight, in.act>>)
          /\ peCount' = Counted
          /\ peState' = IF peCount = peLast THEN "done" ELSE peState
     ELSE UNCHANGED <<peState, peCount, accum>>
  /\ UNCHANGED peLast

PeDone(in) ==
  /\ peState = "done"
  /\ IF in.outReady
     THEN peState' = "idle" /\ peCount' = 0 /\ accum' = <<>>
     ELSE UNCHANGED <<peState, peCount, accum>>
  /\ UNCHANGED peLast

ArrayFSM(in) ==
  /\ arrState' =
       IF Latching(in) THEN "running"
       ELSE IF arrState = "running" /\ OutputValid THEN "done"
       ELSE IF arrState = "done" /\ in.outReady THEN "idle" ELSE arrState
  /\ arrN' = IF Latching(in) THEN in.nAcc % NAccMod ELSE arrN

\* Core's local reset puts every register but the nAccReg's back.
ArrayReset ==
  /\ peState' = "idle" /\ peCount' = 0 /\ accum' = <<>> /\ arrState' = "idle"
  /\ UNCHANGED <<peLast, arrN>>

ArrayTick(in) ==
  IF in.reset THEN ArrayReset
  ELSE (PeIdle(in) \/ PeRunning(in) \/ PeDone(in)) /\ ArrayFSM(in)

=============================================================================
