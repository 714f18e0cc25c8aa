---------------------------- MODULE CoreService ----------------------------
(***************************************************************************)
(* What the Core promises to the driver and to the DMA engines, with no    *)
(* bus, no clock, no array and no memory: InstructionService, whose        *)
(* executions move beats.  An instruction that streams in takes exactly    *)
(* the beats it needs, one that streams out puts exactly its beats in a    *)
(* short queue, the last one marked; it retires after the last of them,    *)
(* and the queue may drain long after that.                                *)
(***************************************************************************)
EXTENDS InstructionService

CONSTANTS Depth,   \* entries of the output queue
          Resets   \* the bitstream may be loaded again

VARIABLES task,   \* never changes: direction and number of beats of an instruction
          need,   \* beats the execution has still to move
          outQ    \* beats on their way out; TRUE: the last of its instruction

coreServiceVars == <<serviceVars, task, need, outQ>>

CoreInit ==
  /\ ServiceInit /\ need = 0 /\ outQ = <<>>
  /\ task \in [Valid -> [dir : {"in", "out"}, beats : Nat]]

Moving(dir) == ran # <<>> /\ task[ran[1]].dir = dir /\ need > 0

Start  == Run /\ need' = task[Current].beats
Take   == Moving("in") /\ need' = need - 1 /\ UNCHANGED <<ran, outcomes>>
Emit   == Moving("out") /\ Len(outQ) < Depth /\ need' = need - 1 /\ UNCHANGED <<ran, outcomes>>
Finish == need = 0 /\ Retire /\ UNCHANGED need
Rest   == UNCHANGED <<ran, outcomes, need>>

Queue(emit, sent) ==
  /\ sent => outQ # <<>>
  /\ outQ' = (IF sent THEN Tail(outQ) ELSE outQ) \o (IF emit THEN <<need = 1>> ELSE <<>>)

\* Software, the engine and the stream that takes the queue's beats may act at once.
Step ==
  \E ack, retire, emit, sent \in BOOLEAN :
    /\ Accept \/ UNCHANGED accepted
    /\ IF retire THEN Finish ELSE IF emit THEN Emit ELSE Start \/ Take \/ Rest
    /\ Queue(emit /\ ~retire, sent)
    /\ irq' = (retire \/ (irq /\ ~ack))
    /\ UNCHANGED task

Reset ==
  /\ Resets
  /\ accepted' = <<>> /\ ran' = <<>> /\ outcomes' = <<>> /\ irq' = FALSE
  /\ need' = 0 /\ outQ' = <<>> /\ UNCHANGED task

CoreSpec == CoreInit /\ [][Step \/ Reset]_coreServiceVars

=============================================================================
