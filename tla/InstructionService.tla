------------------------- MODULE InstructionService -------------------------
(***************************************************************************)
(* What the instruction handler promises to software, with no AXI channel, *)
(* no register and no clock: instructions are executed in the order they   *)
(* were accepted, each valid one by its engine exactly once and each       *)
(* invalid one by none; at most two are outstanding; every retirement      *)
(* raises the interrupt, and an acknowledge that coincides with a          *)
(* retirement does not hide it.                                            *)
(***************************************************************************)
EXTENDS Naturals, Sequences

CONSTANTS Instructions,  \* the instruction words
          Valid          \* those an engine executes

VARIABLES accepted,   \* instructions taken with an OKAY response, in order
          ran,        \* commands engines have taken for the current instruction
          outcomes,   \* per retired instruction, the commands it caused
          irq

serviceVars == <<accepted, ran, outcomes, irq>>

Outstanding == Len(accepted) - Len(outcomes)
Current     == accepted[Len(outcomes) + 1]
Execution(i) == IF i \in Valid THEN <<i>> ELSE <<>>

ServiceInit == accepted = <<>> /\ ran = <<>> /\ outcomes = <<>> /\ irq = FALSE

Accept ==
  /\ Outstanding < 2
  /\ \E i \in Instructions : accepted' = Append(accepted, i)

Run ==
  /\ Outstanding > 0 /\ Current \in Valid /\ ran = <<>>
  /\ ran' = <<Current>>
  /\ UNCHANGED outcomes

Retire ==
  /\ Outstanding > 0 /\ ran = Execution(Current)
  /\ outcomes' = Append(outcomes, ran)
  /\ ran' = <<>>

\* Software's side and the engines' side may act in the same cycle.
ServiceNext ==
  \E ack, retire \in BOOLEAN :
    /\ Accept \/ UNCHANGED accepted
    /\ IF retire THEN Retire ELSE Run \/ UNCHANGED <<ran, outcomes>>
    /\ irq' = (retire \/ (irq /\ ~ack))

ServiceSpec == ServiceInit /\ [][ServiceNext]_serviceVars

=============================================================================
