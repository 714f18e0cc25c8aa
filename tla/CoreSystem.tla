----------------------------- MODULE CoreSystem -----------------------------
(***************************************************************************)
(* The whole Core at work: the instruction handler in front, the engines   *)
(* behind it, the MM2S DMA feeding s_axis, the S2MM DMA draining m_axis and*)
(* the one thread that programs them.  HandlerSystem leaves the engines    *)
(* abstract (some command, then some done pulse); here they are the real   *)
(* ones, and HandlerSystem is what the composition must implement.         *)
(*                                                                         *)
(* A beat on s_axis is <<i, k>>: beat k of instruction number i.  MMIO pins*)
(* are always ready here; HandlerSystem has their interleavings.           *)
(***************************************************************************)
EXTENDS Core

CONSTANTS Programs(_),   \* instruction sequences the software runs on a build
          Stalling,      \* memory styles under which the S2MM may hold tready low
          MaxInstr       \* bound: length of a program

Tags == 0 .. MaxInstr

VARIABLES
  aw, w, b, ar, r, pending, dispState, inst, errorReg, lastOpc, irqPend,   \* the handler
  txn, tag, phase, word, accepted, ran, outcomes, unacked,                 \* its host
  prog,     \* the operations the software pushes; instruction i is prog[i]
  stream,   \* beats the MM2S DMA has still to deliver
  owed      \* history: beats the STOREs taken so far have still to deliver

\* The engine the handler sees: the Core's FSM, busy with the dispatched command.
Engine == IF state = "sIdle" THEN None ELSE inst

H == INSTANCE HandlerSystem
       WITH engine <- Engine, Host <- "driver", Bursts <- FALSE,
            HostOps <- {"LOAD_ACT", "COMPUTE_MM", "STORE_OUT"}

\* The software runs operations; None is none of the values that beats,
\* registers and the output memory's write port hold.
ASSUME SystemAssumption ==
  /\ MaxInstr \in Nat
  /\ \A c \in Configs : Programs(c) \subseteq Seq(Operation)
  /\ None \notin Nat \cup (Nat \X Nat)
  /\ None \notin [addr : Nat, data : Seq((Nat \X Nat) \X (Nat \X Nat)) \X Nat]
  /\ None \notin Operation \cup H!Address \cup H!Instruction \cup H!Resp \cup H!ReadBeat
                  \cup H!Status \cup H!Txn

handlerVars == <<aw, w, b, ar, r, pending, dispState, inst, errorReg, lastOpc, irqPend>>
driverVars  == <<txn, tag, phase, word, accepted, ran, outcomes, unacked>>
vars == <<coreVars, handlerVars, driverVars, prog, stream, owed>>

Init ==
  /\ CoreInit /\ H!Init
  /\ prog \in Programs(config) /\ stream = <<>> /\ owed = <<>>

-----------------------------------------------------------------------------
(* What a program asks for.                                                *)

\* Commands the engines have taken, in execution included; the latest of a kind
\* up to command i, 0 when there is none.
Taken == Len(outcomes) + Len(ran)
Latest(op, i) == Max({0} \cup {j \in 1 .. i : prog[j].op = op})

\* What output tile t of COMPUTE c must have accumulated, in stream order: its
\* own weight beats against the rows of the latest LOAD.
Product(c, t) ==
  [k \in 1 .. prog[c].dim0 |->
     <<<<c, t * prog[c].dim0 + k - 1>>, <<Latest("LOAD_ACT", c), k - 1>>>>]

\* The m_axis beats STORE i asks for: rows of the latest COMPUTE, batch-major.
StoreBeats(i) ==
  LET c     == Latest("COMPUTE_MM", i)
      total == prog[i].dim0 \div BeatLanes
      row(k) == k \div SubBeats
  IN [k \in 1 .. total |->
        [data |-> <<Product(c, row(k - 1) % ColTiles(prog[c].dim1)),
                    (row(k - 1) \div ColTiles(prog[c].dim1)) * SubBeats + ((k - 1) % SubBeats)>>,
         last |-> k = total]]

-----------------------------------------------------------------------------
\* The beats an input operation arms the MM2S DMA with (input_op).
BeatCount(op) == CASE op.op = "LOAD_ACT"   -> op.dim0
                   [] op.op = "COMPUTE_MM" -> op.dim0 * ColTiles(op.dim1)
                   [] op.op = "STORE_OUT"  -> 0

\* The command at the engines' ports, and the pins of this cycle.
Command       == IF H!CmdValid THEN prog[inst.tag] ELSE None
Beat(tvalid)  == IF tvalid THEN Head(stream) ELSE None
Pins(beat)    == H!HostPins([aw |-> TRUE, w |-> TRUE, ar |-> TRUE, bready |-> TRUE,
                             rready |-> TRUE, done |-> Done(beat)])

\* The next operation: its DMA first, then the push.  The DMA of the one before
\* has delivered everything (mmfree_dma_mm2s_wait).
PushNext ==
  /\ tag <= Len(prog) /\ stream = <<>>
  /\ H!Push /\ txn'.beats[1].op = prog[tag].op
  /\ stream' = [k \in 1 .. BeatCount(prog[tag]) |-> <<tag, k - 1>>]

\* The thread waits for the interrupt, reads the status and acknowledges.
Thread(in) ==
  H!Ack \/ H!SeeIrq \/ H!ReadStatus \/ H!WriteGoesOn(in) \/ H!ReadGoesOn(in) \/ H!Think

Dma(beat) == stream' = IF beat # None /\ StreamReady THEN Tail(stream) ELSE stream

\* A STORE owes its beats from the cycle its command is taken.
Owe(tready) ==
  LET rest == IF Deliver(tready) THEN Tail(owed) ELSE owed
  IN owed' = IF Command # None /\ Command.op = "STORE_OUT" THEN rest \o StoreBeats(inst.tag)
                                                          ELSE rest

Cycle(tvalid, tready) ==
  LET beat == Beat(tvalid)
      in   == Pins(beat)
  IN /\ H!HandlerTick(in) /\ H!Record
     /\ PushNext \/ (Thread(in) /\ Dma(beat))
     /\ CoreTick(Command, beat, tready)
     /\ Owe(tready) /\ UNCHANGED prog

Next == \E tvalid \in {FALSE} \cup {stream # <<>>}, tready \in {TRUE} \cup {Style \notin Stalling} :
          Cycle(tvalid, tready)

Spec == Init /\ [][Next]_vars

\* The clock runs, both DMAs keep moving and the thread is scheduled.
FairSpec ==
  /\ Spec
  /\ WF_vars(Next)
  /\ WF_vars(stream # <<>> /\ StreamReady /\ \E tready \in BOOLEAN :
               (tready \/ Style \in Stalling) /\ Cycle(TRUE, tready))
  /\ WF_vars(outQ # <<>> /\ \E tvalid \in {FALSE} \cup {stream # <<>>} : Cycle(tvalid, TRUE))
  /\ WF_vars((PushNext \/ H!Ack \/ H!SeeIrq \/ H!ReadStatus) /\ Next)

-----------------------------------------------------------------------------
(* The programs build c is meant to run: hypotheses of the theorems.       *)

\* An input operation streams at least one row and no more than the activation
\* memory has, and a COMPUTE takes two rows or more, all of which the latest LOAD
\* before it has written.
Fits(c, p) ==
  \A i \in 1 .. Len(p) :
    /\ p[i].op = "LOAD_ACT" => p[i].dim0 \in 1 .. c.maxN
    /\ p[i].op = "COMPUTE_MM" =>
         /\ p[i].dim0 >= 2 /\ p[i].dim1 >= 1
         /\ \E j \in 1 .. i - 1 :
              /\ p[j].op = "LOAD_ACT" /\ p[j].dim0 >= p[i].dim0
              /\ \A k \in j + 1 .. i - 1 : p[k].op # "LOAD_ACT"

\* No COMPUTE is wider than the output memory.
Narrow(c, p) == \A i \in 1 .. Len(p) : p[i].op = "COMPUTE_MM" => p[i].dim1 <= c.maxM

\* A STORE follows a COMPUTE and asks for one beat at least and for no more than
\* the product has.
Stored(c, p) ==
  \A i \in 1 .. Len(p) : p[i].op = "STORE_OUT" =>
    /\ p[i].dim0 >= Derived(c).outBeatLanes
    /\ \E j \in 1 .. i - 1 :
         /\ p[j].op = "COMPUTE_MM" /\ \A k \in j + 1 .. i - 1 : p[k].op # "COMPUTE_MM"
         /\ p[i].dim0 <= c.batch * NumColTiles(Derived(c), p[j].dim1) * Derived(c).outLanesPerTile

ProgramsFit    == \A c \in Configs : \A p \in Programs(c) : Fits(c, p)
ProgramsNarrow == \A c \in Configs : \A p \in Programs(c) : Narrow(c, p)
ProgramsStored == \A c \in Configs : \A p \in Programs(c) : Stored(c, p)

-----------------------------------------------------------------------------
(* Properties.                                                             *)

\* Registers, queues and histories have their types; counters stay in range.
TypeOK == CoreTypeOK /\ H!TypeOK /\ prog \in Seq(Operation)

\* From the cycle that raises the completion of a COMPUTE until the next one is
\* taken, every row of its product is in the output memory at the address the
\* STORE walk expects: each weight beat met its activation row, no tile was
\* overwritten before it was drained, the last write has left the write pipeline,
\* and nothing a LOAD or STORE does disturbs it.
ResultLanded ==
  LET c == Latest("COMPUTE_MM", Taken)
  IN c # 0 /\ (state # "sCompute" \/ ComputeDone) =>
       \A t \in 0 .. ColTiles(prog[c].dim1) - 1, bt \in 0 .. Batch - 1, s \in 0 .. SubBeats - 1 :
         mem[(bt * ColTiles(prog[c].dim1) + t) * SubBeats + s]
           = <<Product(c, t), bt * SubBeats + s>>

\* An instruction consumes exactly the beats its DMA delivers: when it is done
\* none of them is left, so mmfree_dma_mm2s_wait returns.
DmaDelivered ==
  state = "sIdle" => \A k \in 1 .. Len(stream) : stream[k][1] > Taken

\* Every pair on its way to the array is a weight beat of the instruction in
\* execution with the activation row of the same position in its column tile,
\* also while the queue holds the first beats of the next tile.
PairsAligned ==
  \A q \in {inQ, slice, accum} : \A i \in 1 .. Len(q) :
    state = "sCompute" =>
      q[i][1][1] = inst.tag /\ q[i][2] = <<Latest("LOAD_ACT", Taken), q[i][1][2] % rows>>

\* m_axis carries the rows of the product each STORE follows, in order, with
\* tlast on exactly the last one, at any back-pressure: no stall skips, repeats or
\* replaces a row, and the tail that drains after storeDone is neither lost nor
\* touched by the instructions that follow.
StreamIsRows ==
  /\ Len(outQ) <= Len(owed)
  /\ \A k \in 1 .. Len(outQ) : outQ[k] = owed[k]

\* storeDone is raised only when every row of the STORE is in outQ or delivered:
\* after it nothing depends on the output memory any more.
DoneMeansRead == state # "sStore" => Len(outQ) = Len(owed)

\* The Core's FSM is the engine HandlerSystem assumes, so what is checked and
\* proved of the handler holds of the composition: a command is taken only when
\* no other runs, and each done pulse, whichever engine raises it, ends the
\* command in execution.
HandlerContract == H!Spec

\* The beats the instruction word i moves, and those its execution has still to move.
Task(i) ==
  IF i.tag \notin DOMAIN prog THEN [dir |-> "in", beats |-> 0]
  ELSE IF prog[i.tag].op = "STORE_OUT" THEN [dir |-> "out", beats |-> prog[i.tag].dim0 \div BeatLanes]
  ELSE [dir |-> "in", beats |-> BeatCount(prog[i.tag])]
Unmoved ==
  IF state = "sStore" THEN storeTotal - storeBeat
  ELSE IF state = "sIdle" THEN 0 ELSE Len(stream)
Executable == {i \in H!Instruction : i.op \in H!EngineOps}
LastFlags  == [k \in 1 .. Len(outQ) |-> outQ[k].last]
Service == INSTANCE CoreService WITH
  Instructions <- H!Instruction, Valid <- Executable, Depth <- OutQDepth, Resets <- FALSE,
  irq <- irqPend, task <- [i \in Executable |-> Task(i)], need <- Unmoved, outQ <- LastFlags

\* The driver sees no more of the composition than CoreService: an instruction that
\* completes has moved the beats its DMA was programmed with, no more and no fewer,
\* the last one of a STORE marked, whatever engine ran before and runs after it.
CoreContract == Service!CoreSpec

\* With DMAs that keep moving, the thread gets through its program and every beat
\* it asked for arrives.
ProgramCompletes ==
  <>(tag > Len(prog) /\ phase = "issue" /\ txn = None /\ owed = <<>>)

=============================================================================
