--------------------------- MODULE HandlerSystem ---------------------------
(***************************************************************************)
(* The instruction handler between the software that issues instructions   *)
(* and the engines that execute them.  One step is one clock cycle.  The   *)
(* engines are the Core's FSM seen from the handler: ready only when idle, *)
(* one done pulse at least a cycle after a command was taken.              *)
(* The software is one thread making one MMIO access at a time.  Host      *)
(* selects how it orders them:                                             *)
(*   "driver"    mmfree_wait_done: push, wait, read status, acknowledge    *)
(*   "free"      any access at any time                                    *)
(***************************************************************************)
EXTENDS InstructionHandler, Sequences

CONSTANTS Host,       \* "driver" or "free"
          Bursts,     \* TRUE: the host may also issue two-beat writes
          HostOps,    \* opcodes the host pushes
          MaxInstr    \* bound: instructions pushed in a behaviour

ASSUME HostAssumption ==
  /\ Host \in {"driver", "free"} /\ Bursts \in BOOLEAN
  /\ HostOps \subseteq Opcodes /\ MaxInstr \in Nat /\ 0 .. MaxInstr \subseteq Tags

VARIABLES
  txn,       \* the host's access in flight
  tag,       \* serial number of the next instruction
  phase,     \* where the thread is in push / wait / status / ack
  word,      \* the status word it read last
  engine,    \* instruction the Core is executing, None when in sIdle
  \* history
  accepted, ran, outcomes,
  unacked    \* completions since the last acknowledge took effect

hostVars == <<txn, tag, phase, word>>
histVars == <<accepted, ran, outcomes, unacked>>
vars     == <<handlerVars, hostVars, engine, histVars>>

\* MMIO accesses.  An acknowledge carries the word 1, as mmfree_ack_irq does.
WriteKinds == {"push", "ack", "burst"}
ReadKinds  == {"poll", "status"}
AckWord    == [op |-> "LOAD_ACT", tag |-> 0]
StatusAddr == [off |-> "STATUS_READ", len |-> 0]

\* `beats` still to be presented on W, `got`: the B response has been taken.
Txn == [kind : WriteKinds \cup ReadKinds, addr : Address \cup {None},
        beats : Seq(Instruction), got : BOOLEAN]
ASSUME TxnAssumption == None \notin Txn
WriteTxn(kind, addr, beats) == [kind |-> kind, addr |-> addr, beats |-> beats, got |-> FALSE]
ReadTxn(kind) == [kind |-> kind, addr |-> StatusAddr, beats |-> <<>>, got |-> FALSE]
Instr(op, t)  == [op |-> op, tag |-> t]

Init ==
  /\ HandlerInit
  /\ txn = None /\ tag = 1 /\ phase = "issue" /\ word = None /\ engine = None
  /\ accepted = <<>> /\ ran = <<>> /\ outcomes = <<>> /\ unacked = 0

-----------------------------------------------------------------------------
(* Starting an access.                                                     *)

Push ==
  /\ txn = None /\ tag <= MaxInstr /\ phase = "issue"
  /\ phase' = IF Host = "free" THEN phase ELSE "await"
  /\ \E op \in HostOps :
       txn' = WriteTxn("push", [off |-> "INSTR_WRITE", len |-> 0], <<Instr(op, tag)>>)
  /\ tag' = tag + 1
  /\ UNCHANGED word

Ack ==
  /\ txn = None /\ (phase = "ack" \/ Host = "free")
  /\ phase' = IF phase = "ack" THEN "issue" ELSE phase
  /\ txn' = WriteTxn("ack", [off |-> "IRQ_ACK", len |-> 0], <<AckWord>>)
  /\ UNCHANGED <<tag, word>>

Burst ==
  /\ Bursts /\ txn = None /\ tag < MaxInstr /\ phase = "issue"
  /\ \E op \in HostOps :
       txn' = WriteTxn("burst", [off |-> "INSTR_WRITE", len |-> 1],
                       <<Instr(op, tag), Instr(op, tag + 1)>>)
  /\ tag' = tag + 2
  /\ UNCHANGED <<phase, word>>

\* mmfree_spin_done polls the status word; mmfree_wait_irq blocks on the line.
Poll ==
  /\ txn = None /\ phase = "await"
  /\ txn' = ReadTxn("poll")
  /\ UNCHANGED <<tag, phase, word>>

SeeIrq ==
  /\ txn = None /\ phase = "await" /\ irqPend
  /\ phase' = "status"
  /\ UNCHANGED <<txn, tag, word>>

ReadStatus ==
  /\ txn = None /\ (phase = "status" \/ Host = "free")
  /\ txn' = ReadTxn("status")
  /\ UNCHANGED <<tag, phase, word>>

(* An access in flight: the pins this cycle, and what the host makes of    *)
(* the response.                                                           *)

HostPins(v) ==
  LET writing == txn # None /\ txn.kind \in WriteKinds
      reading == txn # None /\ txn.kind \in ReadKinds
  IN [aw     |-> IF writing /\ v.aw THEN txn.addr ELSE None,
      w      |-> IF writing /\ v.w /\ txn.beats # <<>> THEN Head(txn.beats) ELSE None,
      ar     |-> IF reading /\ v.ar THEN txn.addr ELSE None,
      bready |-> v.bready, rready |-> v.rready,
      ready  |-> engine = None, done |-> v.done /\ engine # None]

WriteGoesOn(in) ==
  /\ txn # None /\ txn.kind \in WriteKinds
  /\ LET next == [txn EXCEPT
                    !.addr  = IF AwReady /\ in.aw # None THEN None ELSE @,
                    !.beats = IF WReady /\ in.w # None THEN Tail(@) ELSE @,
                    !.got   = @ \/ (b # None /\ in.bready)]
     IN txn' = IF next.got /\ next.beats = <<>> THEN None ELSE next
  /\ UNCHANGED <<tag, phase, word>>

ReadGoesOn(in) ==
  /\ txn # None /\ txn.kind \in ReadKinds
  /\ IF r # None /\ in.rready
     THEN /\ txn' = None
          /\ phase' = IF txn.kind = "status" /\ phase = "status" THEN "ack"
                      ELSE IF txn.kind = "poll" /\ r.data.irq THEN "status" ELSE phase
          /\ word' = IF txn.kind = "status" THEN r.data ELSE word
     ELSE /\ txn' = [txn EXCEPT !.addr = IF ArReady /\ in.ar # None THEN None ELSE @]
          /\ UNCHANGED <<phase, word>>
  /\ UNCHANGED tag

Think == txn = None /\ UNCHANGED hostVars

HostStart == Push \/ Ack \/ Burst \/ Poll \/ SeeIrq \/ ReadStatus
HostStep(in) == HostStart \/ WriteGoesOn(in) \/ ReadGoesOn(in) \/ Think

-----------------------------------------------------------------------------
(* The Core's command handshake (Core.scala sIdle and the done pulses).    *)

TakeCommand == CmdValid /\ engine = None
EngineStep(in) ==
  engine' = IF TakeCommand THEN inst ELSE IF in.done THEN None ELSE engine

\* What an observer on the handler's wires records.
Record ==
  /\ accepted' = IF InstrAccept THEN Append(accepted, w) ELSE accepted
  /\ outcomes' = IF CompletionPulse THEN Append(outcomes, ran) ELSE outcomes
  /\ ran' = IF CompletionPulse THEN <<>> ELSE IF TakeCommand THEN Append(ran, inst) ELSE ran
  /\ unacked' = (IF IrqAck THEN 0 ELSE unacked) + (IF CompletionPulse THEN 1 ELSE 0)

\* Which of the valid and ready pins are high, and whether the engine finishes.
Levels == [aw : BOOLEAN, w : BOOLEAN, ar : BOOLEAN, bready : BOOLEAN, rready : BOOLEAN,
           done : BOOLEAN]

Cycle(v) ==
  LET in == HostPins(v)
  IN HandlerTick(in) /\ HostStep(in) /\ EngineStep(in) /\ Record

Next == \E v \in Levels : Cycle(v)

Spec == Init /\ [][Next]_vars

(***************************************************************************)
(* The clock never stops; a ready or valid pin the interconnect holds low  *)
(* eventually rises; a command an engine took eventually finishes; the     *)
(* thread is scheduled and completes the protocol, though it need not push *)
(* another instruction.                                                    *)
(***************************************************************************)
Fairness ==
  /\ WF_vars(Next)
  /\ WF_vars(\E v \in Levels : v.aw /\ AwReady /\ txn # None /\ txn.addr # None /\ Cycle(v))
  /\ WF_vars(\E v \in Levels : v.w /\ WReady /\ txn # None /\ txn.beats # <<>> /\ Cycle(v))
  /\ WF_vars(\E v \in Levels : v.ar /\ ArReady /\ txn # None /\ txn.addr # None /\ Cycle(v))
  /\ WF_vars(\E v \in Levels : v.bready /\ b # None /\ Cycle(v))
  /\ WF_vars(\E v \in Levels : v.rready /\ r # None /\ Cycle(v))
  /\ WF_vars(\E v \in Levels : v.done /\ engine # None /\ Cycle(v))
  /\ WF_vars(\E v \in Levels : (Ack \/ SeeIrq \/ ReadStatus) /\ Cycle(v))

FairSpec == Spec /\ Fairness

-----------------------------------------------------------------------------
(* Properties.                                                             *)

\* Every register, the host's access and the histories have their types.
TypeOK ==
  /\ HandlerTypeOK
  /\ txn \in Txn \cup {None} /\ tag \in Nat \ {0}
  /\ phase \in {"issue", "await", "status", "ack"} /\ word \in Status \cup {None}
  /\ engine \in Instruction \cup {None}
  /\ accepted \in Seq(Instruction) /\ ran \in Seq(Instruction)
  /\ outcomes \in Seq(Seq(Instruction)) /\ unacked \in Nat

\* "an IRQ is never dropped" (AxiInstructionHandler.scala:370): one acknowledge
\* never covers two completions, so software sees an interrupt for each.
IrqNeverDropped == unacked <= 1

\* An instruction that is taken is the one whose write transaction is being
\* answered: AW and W beats of different transactions never pair up.
AcceptedIsWritten ==
  InstrAccept => txn # None /\ txn.kind = "push" /\ txn.addr = None /\ txn.beats = <<>>
                 /\ w.tag = tag - 1

\* When mmfree_wait_done sees the completion, it is that of the instruction
\* the thread pushed last: the dispatcher and the engine are idle, nothing is
\* queued and every instruction pushed so far has been retired.
CompletionIsMine ==
  phase \in {"status", "ack"} =>
    /\ dispState = "idle" /\ pending = None /\ engine = None
    /\ Len(outcomes) = tag - 1

\* The status word mmfree_wait_done returns, snapshotted by the read FSM cycles
\* earlier, is the verdict on that same instruction.
StatusIsOfCompleted ==
  phase = "ack" =>
    /\ word.irq /\ ~word.busy
    /\ word.lastOpc = accepted[tag - 1].op
    /\ word.err = IF accepted[tag - 1].op \in EngineOps THEN "NONE" ELSE "INVALID_OPCODE"

\* A thread that waits for each completion never has an instruction refused,
\* although the handler has a one-entry buffer and the driver ignores BRESP.
PushNeverRefused == b # None /\ txn.kind = "push" => b = "OKAY"

\* Whatever the software does, retired instruction number i caused exactly the
\* command it names, once, or none if its opcode is invalid.
ExecutedExactlyOnce ==
  /\ Len(outcomes) <= Len(accepted)
  /\ \A i \in 1 .. Len(outcomes) :
       outcomes[i] = IF accepted[i].op \in EngineOps THEN <<accepted[i]>> ELSE <<>>

\* Where every instruction is: an accepted one is buffered, or held by the
\* dispatcher, or retired, in that order and in one place only, and an engine
\* has taken the one the dispatcher holds exactly when the state says so.
Whereabouts ==
  /\ Len(accepted) = Len(outcomes) + (IF dispState = "idle" THEN 0 ELSE 1)
                                   + (IF pending = None THEN 0 ELSE 1)
  /\ pending # None => pending = accepted[Len(accepted)]
  /\ dispState # "idle" => inst = accepted[Len(outcomes) + 1]
  /\ dispState \in {"dispatching", "awaitingDone"} => inst.op \in EngineOps
  /\ ran = IF \/ dispState = "awaitingDone"
              \/ dispState = "completed" /\ inst.op \in EngineOps
           THEN <<inst>> ELSE <<>>

\* The handler implements the service it offers to software.
Service == INSTANCE InstructionService
             WITH Instructions <- Instruction,
                  Valid <- {i \in Instruction : i.op \in EngineOps},
                  irq <- irqPend
ServiceRefinement == Service!ServiceSpec

\* The driver's mmfree_wait_done returns for every instruction it pushes.
EveryPushCompletes == phase # "issue" ~> phase = "issue"

\* Whatever the software does, every accepted instruction is retired.
EveryAcceptedRetires ==
  \A n \in 1 .. MaxInstr : Len(accepted) >= n ~> Len(outcomes) >= n

=============================================================================
