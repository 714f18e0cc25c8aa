----------------------------- MODULE CoreProofs -----------------------------
(***************************************************************************)
(* What holds of the composition of handler, engines, DMAs and thread, for *)
(* every build, every program and every timing of the streams.  That the   *)
(* Core's FSM is the engine HandlerSystem assumes makes every theorem of   *)
(* HandlerProofs one about the composition.  And what LOAD_ACT and         *)
(* COMPUTE_MM do with the beats they are sent: each beat armed is consumed,*)
(* by the instruction it was armed for, and meets the activation row of    *)
(* its position.                                                           *)
(***************************************************************************)
EXTENDS CoreSystem, SequenceTheorems, WellFoundedInduction, TLAPS

\* The theorems about HandlerSystem, with the Core as the engine.
D == INSTANCE HandlerProofs
       WITH engine <- Engine, Host <- "driver", Bursts <- FALSE,
            HostOps <- {"LOAD_ACT", "COMPUTE_MM", "STORE_OUT"}

\* Operands name instructions of the program.
Operands ==
  /\ tag \in 1 .. Len(prog) + 1
  /\ pending # None => pending.tag \in 1 .. Len(prog)
  /\ inst # None => inst.tag \in 1 .. Len(prog)

CompositionInv ==
  /\ D!DriverInv /\ Operands
  /\ state # "sIdle" <=> dispState = "awaitingDone"
  /\ config \in Configs /\ state \in CoreStates /\ prog \in Seq(Operation)

-----------------------------------------------------------------------------
(* The two instances of HandlerSystem are one.                             *)

LEMMA InstanceAssumptions ==
  /\ "driver" \in {"driver", "free"} /\ FALSE \in BOOLEAN
  /\ {"LOAD_ACT", "COMPUTE_MM", "STORE_OUT"} \subseteq D!Opcodes
  /\ MaxInstr \in Nat /\ 0 .. MaxInstr \subseteq Tags
  /\ None \notin D!Address \cup D!Instruction \cup D!Resp \cup D!ReadBeat \cup D!Status
  /\ None \notin D!Txn
<1>1. /\ D!Opcodes = H!Opcodes /\ D!Address = H!Address /\ D!Instruction = H!Instruction
      /\ D!Resp = H!Resp /\ D!ReadBeat = H!ReadBeat /\ D!Status = H!Status
      /\ D!Txn = H!Txn
  BY DEF D!Opcodes, H!Opcodes, D!Address, H!Address, D!Offsets, H!Offsets, D!Instruction,
     H!Instruction, D!Resp, H!Resp, D!ReadBeat, H!ReadBeat, D!Status, H!Status, D!Txn, H!Txn,
     D!WriteKinds, H!WriteKinds, D!ReadKinds, H!ReadKinds
<1>. QED
  BY <1>1, SystemAssumption DEF Tags, H!Opcodes

LEMMA SamePins == ASSUME NEW v PROVE H!HostPins(v) = D!HostPins(v)
  BY DEF H!HostPins, D!HostPins, H!WriteKinds, H!ReadKinds, D!WriteKinds, D!ReadKinds

LEMMA SameInit == H!Init <=> D!Init
  BY DEF H!Init, D!Init, H!HandlerInit, D!HandlerInit

LEMMA SameWires ==
  /\ H!CanProcessW <=> D!CanProcessW
  /\ H!CanProcessR <=> D!CanProcessR
  /\ H!InstrAccept <=> D!InstrAccept
  /\ H!IrqAck <=> D!IrqAck
  /\ H!Fetch <=> D!Fetch
  /\ H!CmdValid <=> D!CmdValid
  /\ H!TakeCommand <=> D!TakeCommand
  /\ H!CompletionPulse <=> D!CompletionPulse
  /\ H!AwReady <=> D!AwReady
  /\ H!WReady <=> D!WReady
  /\ H!ArReady <=> D!ArReady
  BY DEF H!CanProcessW, D!CanProcessW, H!CanProcessR, D!CanProcessR, H!InstrAccept, D!InstrAccept,
     H!Writes, D!Writes, H!IrqAck, D!IrqAck, H!Fetch, D!Fetch, H!CmdValid, D!CmdValid, H!TakeCommand,
     D!TakeCommand, H!CompletionPulse, D!CompletionPulse, H!AwReady, D!AwReady, H!WReady, D!WReady,
     H!ArReady, D!ArReady

LEMMA SameTick == ASSUME NEW in PROVE H!HandlerTick(in) <=> D!HandlerTick(in)
<1>1. H!WriteFSM(in) <=> D!WriteFSM(in)
  BY SameWires DEF H!WriteFSM, D!WriteFSM, H!HoldWrite, D!HoldWrite, H!ProcessWrite, D!ProcessWrite,
     H!WriteResp, D!WriteResp, H!SendB, D!SendB
<1>2. H!ReadFSM(in) <=> D!ReadFSM(in)
  BY SameWires DEF H!ReadFSM, D!ReadFSM, H!HoldRead, D!HoldRead, H!ProcessRead, D!ProcessRead,
     H!ReadResp, D!ReadResp, H!StatusWord, D!StatusWord, H!SendR, D!SendR
<1>3. H!Dispatcher(in) <=> D!Dispatcher(in)
  BY SameWires DEF H!Dispatcher, D!Dispatcher, H!FetchInstr, D!FetchInstr, H!Decode, D!Decode,
     H!Dispatch, D!Dispatch, H!AwaitDone, D!AwaitDone, H!Complete, D!Complete, H!EngineOps,
     D!EngineOps
<1>4. (H!PendingReg <=> D!PendingReg) /\ (H!IrqReg <=> D!IrqReg)
  BY SameWires DEF H!PendingReg, D!PendingReg, H!IrqReg, D!IrqReg
<1>. QED
  BY <1>1, <1>2, <1>3, <1>4 DEF H!HandlerTick, D!HandlerTick

LEMMA SameThread ==
  ASSUME NEW in
  PROVE  /\ H!HostStep(in) <=> D!HostStep(in)
         /\ H!Push <=> D!Push
<1>1. H!Push <=> D!Push
  BY DEF H!Push, D!Push, H!WriteTxn, D!WriteTxn, H!Instr, D!Instr
<1>2. (H!Ack <=> D!Ack) /\ (H!Burst <=> D!Burst)
  BY DEF H!Ack, D!Ack, H!Burst, D!Burst, H!WriteTxn, D!WriteTxn, H!AckWord, D!AckWord, H!Instr,
     D!Instr
<1>3. (H!Poll <=> D!Poll) /\ (H!SeeIrq <=> D!SeeIrq) /\ (H!ReadStatus <=> D!ReadStatus)
  BY DEF H!Poll, D!Poll, H!SeeIrq, D!SeeIrq, H!ReadStatus, D!ReadStatus, H!ReadTxn, D!ReadTxn,
     H!StatusAddr, D!StatusAddr
<1>4. H!WriteGoesOn(in) <=> D!WriteGoesOn(in)
  BY SameWires DEF H!WriteGoesOn, D!WriteGoesOn, H!WriteKinds, D!WriteKinds
<1>5. H!ReadGoesOn(in) <=> D!ReadGoesOn(in)
  BY SameWires DEF H!ReadGoesOn, D!ReadGoesOn, H!ReadKinds, D!ReadKinds
<1>6. H!Think <=> D!Think
  BY DEF H!Think, D!Think, H!hostVars, D!hostVars
<1>. QED
  BY <1>1, <1>2, <1>3, <1>4, <1>5, <1>6 DEF H!HostStep, D!HostStep, H!HostStart, D!HostStart

LEMMA SameCycle ==
  ASSUME NEW v
  PROVE  H!Cycle(v) => D!Cycle(v)
<1>1. H!EngineStep(D!HostPins(v)) <=> D!EngineStep(D!HostPins(v))
  BY SameWires DEF H!EngineStep, D!EngineStep
<1>2. H!Record <=> D!Record
  BY SameWires DEF H!Record, D!Record
<1>. QED
  BY <1>1, <1>2, SamePins, SameTick, SameThread DEF H!Cycle, D!Cycle

-----------------------------------------------------------------------------
(* The Core's FSM is the engine the handler assumes.                       *)

LEMMA OperationFacts ==
  ASSUME prog \in Seq(Operation)
  PROVE  \A i \in 1 .. Len(prog) : /\ prog[i] \in Operation /\ prog[i] # None
                                   /\ prog[i].op \in {"LOAD_ACT", "COMPUTE_MM", "STORE_OUT"}
<1>. SUFFICES ASSUME NEW i \in 1 .. Len(prog) PROVE prog[i] \in Operation
  BY SystemAssumption DEF Operation
<1>. QED
  OBVIOUS

\* The engine is at work on a held instruction.
LEMMA EngineFacts ==
  ASSUME CompositionInv
  PROVE  /\ state # "sIdle" => inst # None /\ Engine = inst /\ ~H!CmdValid
         /\ H!CmdValid => inst # None /\ state = "sIdle"
         /\ state = "sIdle" => Engine = None
<1>1. D!TypeOK /\ D!Whereabouts
  BY DEF CompositionInv, D!DriverInv, D!ChannelInv, D!HandlerInv
<1>2. dispState # "idle" => inst # None
  BY <1>1, D!HeldInstruction, InstanceAssumptions
<1>. QED
  BY <1>2 DEF Engine, CompositionInv, H!CmdValid

\* A done pulse is raised in the cycle that ends an execution, and in no other.
LEMMA EngineEnds ==
  ASSUME state \in CoreStates, NEW cmd, NEW beat, NEW tready, CoreTick(cmd, beat, tready),
         cmd # None => cmd.op \in {"LOAD_ACT", "COMPUTE_MM", "STORE_OUT"}
  PROVE  /\ state = "sIdle" => (state' = "sIdle" <=> cmd = None)
         /\ state # "sIdle" => (state' = "sIdle" <=> Done(beat))
         /\ Done(beat) \in BOOLEAN /\ state' \in CoreStates
<1>1. Accept(cmd) \/ Idle(cmd) \/ Execute(beat)
  BY DEF CoreTick
<1>2. Done(beat) \in BOOLEAN
  BY DEF Done, LoadDone, ComputeDone, StoreDone, Fire
<1>3. CASE Accept(cmd)
  BY <1>2, <1>3 DEF Accept, AcceptLoad, AcceptCompute, AcceptStore, CoreStates
<1>4. CASE Idle(cmd)
  BY <1>2, <1>4 DEF Idle, CoreStates
<1>5. CASE Load(beat)
  BY <1>2, <1>5 DEF Load, CoreStates, Done, LoadDone, ComputeDone, StoreDone, Fire
<1>6. CASE Compute
  BY <1>2, <1>6 DEF Compute, ComputeInit, ComputeStream, ComputeReset, ComputeFinish, CoreStates,
     Done, LoadDone, ComputeDone, StoreDone, Fire
<1>7. CASE Store
  BY <1>2, <1>7 DEF Store, CoreStates, Done, LoadDone, ComputeDone, StoreDone, Fire
<1>. QED
  BY <1>1, <1>3, <1>4, <1>5, <1>6, <1>7 DEF Execute

\* The levels of the handler's pins in a cycle of the composition.
Pin(beat) == [aw |-> TRUE, w |-> TRUE, ar |-> TRUE, bready |-> TRUE, rready |-> TRUE,
              done |-> Done(beat)]

LEMMA CycleRefines ==
  ASSUME CompositionInv, NEW tvalid, NEW tready, Cycle(tvalid, tready)
  PROVE  \E v \in H!Levels : H!Cycle(v)
<1>. DEFINE beat == Beat(tvalid)
            in   == Pins(beat)
<1>1. /\ H!HandlerTick(in) /\ H!Record /\ CoreTick(Command, beat, tready)
      /\ PushNext \/ Thread(in)
  BY DEF Cycle
<1>2. in = H!HostPins(Pin(beat))
  BY DEF Pins, Pin
<1>3. H!HostStep(in)
  BY <1>1 DEF PushNext, Thread, H!HostStep, H!HostStart
<1>4. Command # None => Command.op \in {"LOAD_ACT", "COMPUTE_MM", "STORE_OUT"}
  BY OperationFacts, EngineFacts DEF CompositionInv, Operands, Command
<1>5. Command = None <=> ~H!CmdValid
  BY OperationFacts, EngineFacts DEF CompositionInv, Operands, Command
<1>6. /\ state = "sIdle" => (state' = "sIdle" <=> ~H!CmdValid)
      /\ state # "sIdle" => (state' = "sIdle" <=> Done(beat))
      /\ Done(beat) \in BOOLEAN
  BY <1>1, <1>4, <1>5, EngineEnds DEF CompositionInv
<1>7. state' # "sIdle" => inst' = inst
  <2>. SUFFICES ASSUME state' # "sIdle" PROVE inst' = inst
    OBVIOUS
  <2>1. dispState = "awaitingDone" \/ dispState = "dispatching"
    BY <1>6, EngineFacts DEF CompositionInv, H!CmdValid
  <2>. QED
    BY <1>1, <2>1 DEF H!HandlerTick, H!Dispatcher, H!FetchInstr, H!Decode, H!Dispatch, H!AwaitDone,
       H!Complete, H!CompletionPulse
<1>8. in.done = (Done(beat) /\ Engine # None)
  BY DEF H!HostPins, Pins
<1>9. H!EngineStep(in)
  <2>1. CASE state = "sIdle"
    BY <1>6, <1>7, <1>8, <2>1, EngineFacts DEF H!EngineStep, H!TakeCommand, Engine
  <2>2. CASE state # "sIdle"
    BY <1>6, <1>7, <1>8, <2>2, EngineFacts DEF H!EngineStep, H!TakeCommand, Engine
  <2>. QED
    BY <2>1, <2>2
<1>10. Pin(beat) \in H!Levels
  BY <1>6 DEF Pin, H!Levels
<1>. QED
  BY <1>1, <1>2, <1>3, <1>9, <1>10 DEF H!Cycle

-----------------------------------------------------------------------------
(* The invariant of the composition.                                       *)

LEMMA CompositionInit == Init => CompositionInv
<1>. SUFFICES ASSUME Init PROVE CompositionInv
  OBVIOUS
<1>1. H!Init /\ CoreInit /\ prog \in Programs(config)
  BY DEF Init
<1>2. D!DriverInv
  BY <1>1, SameInit, D!DriverInit, InstanceAssumptions
<1>3. config \in Configs /\ state = "sIdle" /\ state \in CoreStates
  BY <1>1 DEF CoreInit, CoreStates
<1>4. prog \in Seq(Operation)
  BY <1>1, <1>3, SystemAssumption
<1>5. tag = 1 /\ pending = None /\ inst = None /\ dispState = "idle"
  BY <1>1 DEF H!Init, H!HandlerInit
<1>. QED
  BY <1>2, <1>3, <1>4, <1>5 DEF CompositionInv, Operands

\* An instruction the handler takes is the one the thread pushed last.
LEMMA AcceptedOperand ==
  ASSUME CompositionInv, H!InstrAccept
  PROVE  w.tag = tag - 1 /\ tag > 1
<1>1. D!ChannelInv /\ D!Counts /\ D!TypeOK
  BY DEF CompositionInv, D!DriverInv, D!ChannelInv, D!HandlerInv
<1>2. D!InstrAccept
  BY SameWires
<1>3. txn # None /\ txn.kind = "push" /\ w.tag = tag - 1
  BY <1>1, <1>2, D!PairedBeats, InstanceAssumptions DEF D!AcceptedIsWritten
<1>4. b = None
  BY <1>2 DEF D!InstrAccept, D!Writes, D!CanProcessW
<1>5. Len(accepted) = tag - 2 /\ Len(accepted) \in Nat /\ tag \in Nat
  BY <1>1, <1>3, <1>4 DEF D!Counts, D!Unaccepted, D!TypeOK
<1>. QED
  BY <1>3, <1>5

LEMMA CompositionCycle ==
  ASSUME CompositionInv, NEW tvalid, NEW tready, Cycle(tvalid, tready)
  PROVE  CompositionInv'
<1>. DEFINE beat == Beat(tvalid)
            in   == Pins(beat)
<1>1. /\ H!HandlerTick(in) /\ CoreTick(Command, beat, tready)
      /\ PushNext \/ Thread(in)
      /\ prog' = prog /\ config' = config
  BY DEF Cycle, CoreTick
<1>2. D!DriverInv'
  <2>1. PICK v \in H!Levels : H!Cycle(v)
    BY CycleRefines
  <2>2. v \in D!Levels /\ D!Cycle(v)
    BY <2>1, SameCycle DEF H!Levels, D!Levels
  <2>. QED
    BY <2>2, D!DriverCycle, InstanceAssumptions DEF CompositionInv
<1>3. Command # None => Command.op \in {"LOAD_ACT", "COMPUTE_MM", "STORE_OUT"}
  BY OperationFacts, EngineFacts DEF CompositionInv, Operands, Command
<1>4. Command = None <=> ~H!CmdValid
  BY OperationFacts, EngineFacts DEF CompositionInv, Operands, Command
<1>5. /\ state = "sIdle" => (state' = "sIdle" <=> ~H!CmdValid)
      /\ state # "sIdle" => (state' = "sIdle" <=> Done(beat))
      /\ state' \in CoreStates
  BY <1>1, <1>3, <1>4, EngineEnds DEF CompositionInv
<1>6. in.done = (Done(beat) /\ Engine # None) /\ in.ready = (Engine = None)
  BY DEF H!HostPins, Pins
<1>7. state' # "sIdle" <=> dispState' = "awaitingDone"
  <2>1. H!Dispatcher(in)
    BY <1>1 DEF H!HandlerTick
  <2>2. CASE H!FetchInstr \/ H!Decode \/ H!Complete
    BY <1>5, <2>2, EngineFacts DEF CompositionInv, H!FetchInstr, H!Decode, H!Complete,
       H!CompletionPulse, H!CmdValid
  <2>3. CASE H!Dispatch(in)
    BY <1>5, <1>6, <2>3, EngineFacts DEF H!Dispatch
  <2>4. CASE H!AwaitDone(in)
    BY <1>5, <1>6, <2>4, EngineFacts DEF CompositionInv, H!AwaitDone
  <2>. QED
    BY <2>1, <2>2, <2>3, <2>4 DEF H!Dispatcher
<1>8. Operands'
  <2>1. tag \in 1 .. Len(prog) + 1 /\ Len(prog) \in Nat
    BY DEF CompositionInv, Operands
  <2>2. tag' = tag \/ (tag <= Len(prog) /\ tag' = tag + 1)
    <3>1. CASE PushNext
      BY <3>1 DEF PushNext, H!Push
    <3>2. CASE Thread(in)
      BY <3>2 DEF Thread, H!Ack, H!SeeIrq, H!ReadStatus, H!WriteGoesOn, H!ReadGoesOn, H!Think, H!hostVars
    <3>. QED
      BY <1>1, <3>1, <3>2
  <2>3. tag' \in 1 .. Len(prog) + 1
    BY <2>1, <2>2
  <2>4. pending' # None => pending'.tag \in 1 .. Len(prog)
    BY <1>1, <2>1, AcceptedOperand DEF CompositionInv, Operands, H!HandlerTick, H!PendingReg
  <2>5. inst' = inst \/ (pending # None /\ inst' = pending)
    BY <1>1 DEF H!HandlerTick, H!Dispatcher, H!FetchInstr, H!Decode, H!Dispatch, H!AwaitDone,
       H!Complete
  <2>. QED
    BY <1>1, <2>3, <2>4, <2>5 DEF CompositionInv, Operands
<1>. QED
  BY <1>1, <1>2, <1>5, <1>7, <1>8 DEF CompositionInv

LEMMA CompositionStep == CompositionInv /\ [Next]_vars => CompositionInv'
<1>1. ASSUME CompositionInv, UNCHANGED vars PROVE CompositionInv'
  <2>1. UNCHANGED <<config, state, prog, D!vars>>
    BY <1>1 DEF vars, coreVars, handlerVars, driverVars, D!vars, D!handlerVars, D!hostVars, D!histVars,
       Engine
  <2>2. D!DriverInv'
    BY <1>1, <2>1, D!Stutter, InstanceAssumptions DEF CompositionInv
  <2>. QED
    BY <1>1, <2>2 DEF CompositionInv, Operands, vars, coreVars, handlerVars, driverVars
<1>. QED
  BY <1>1, CompositionCycle DEF Next

LEMMA CompositionInvariance == Spec => []CompositionInv
  BY CompositionInit, CompositionStep, PTL DEF Spec

\* The Core's FSM is the engine that HandlerSystem assumes: with its handler, its
\* thread and both streams it implements HandlerSystem.
THEOREM CoreImplementsHandler == Spec => HandlerContract
<1>1. Init => H!Init
  BY DEF Init
<1>2. CompositionInv /\ [Next]_vars => [H!Next]_(H!vars)
  <2>1. ASSUME CompositionInv, Next PROVE H!Next
    BY <2>1, CycleRefines DEF Next, H!Next
  <2>2. ASSUME UNCHANGED vars PROVE UNCHANGED H!vars
    BY <2>2 DEF vars, coreVars, handlerVars, driverVars, H!vars, H!handlerVars, H!hostVars,
       H!histVars, Engine
  <2>. QED
    BY <2>1, <2>2
<1>. QED
  BY <1>1, <1>2, CompositionInvariance, PTL DEF Spec, HandlerContract, H!Spec

\* What the driver's thread relies on holds of the composition with the real
\* engines: no completion hides another, no push is refused, and each wait ends
\* with its own instruction's completion and verdict.
THEOREM DriverServed ==
  Spec => [](/\ D!IrqNeverDropped /\ D!PushNeverRefused
             /\ D!CompletionIsMine /\ D!StatusIsOfCompleted)
<1>1. CompositionInv => /\ D!IrqNeverDropped /\ D!PushNeverRefused
                        /\ D!CompletionIsMine /\ D!StatusIsOfCompleted
  BY D!DriverFacts, InstanceAssumptions DEF CompositionInv
<1>. QED
  BY <1>1, CompositionInvariance, PTL


-----------------------------------------------------------------------------
(* What LOAD_ACT and COMPUTE_MM consume: the inductive invariant.          *)

\* What the handler holds is the instruction the thread pushed last, and every
\* word on its way to it has a valid opcode.
Held ==
  /\ pending # None => pending.tag = tag - 1 /\ pending.op \in H!EngineOps
  /\ dispState # "idle" => inst.tag = tag - 1 /\ inst.op \in H!EngineOps
  /\ w # None => w.op \in H!EngineOps
  /\ txn # None => \A i \in 1 .. Len(txn.beats) : txn.beats[i].op \in H!EngineOps

\* Beat k of COMPUTE c, of N rows, and the row of LOAD l it belongs with; a queue
\* that holds the pairs from number k0 on; a stream of the beats of instruction i
\* from number k0 on, out of total.
Pair(c, l, N, k) == <<<<c, k>>, <<l, k % N>>>>
IsPairs(q, c, l, N, k0) ==
  /\ q \in Seq((Nat \X Nat) \X (Nat \X Nat))
  /\ \A k \in 1 .. Len(q) : q[k] = Pair(c, l, N, k0 + k - 1)
IsBeats(s, i, total, k0) ==
  /\ s \in Seq(Nat \X Nat) /\ Len(s) = total - k0
  /\ \A k \in 1 .. Len(s) : s[k] = <<i, k0 + k - 1>>

\* Before it is taken an instruction has all its beats; nothing is left over.
Armed ==
  IF Taken = tag - 2 THEN IsBeats(stream, tag - 1, BeatCount(prog[tag - 1]), 0)
                     ELSE state \in {"sIdle", "sStore"} => stream = <<>>

Loading ==
  state = "sLoad" =>
    /\ prog[Taken].op = "LOAD_ACT"
    /\ loadTotal = prog[Taken].dim0 /\ loadBeat \in 0 .. loadTotal - 1
    /\ IsBeats(stream, Taken, loadTotal, loadBeat)

\* LOAD j is the latest one taken.
IsLatestLoad(j) ==
  /\ j \in 1 .. Taken /\ prog[j].op = "LOAD_ACT"
  /\ \A k \in j + 1 .. Taken : prog[k].op # "LOAD_ACT"

Activations ==
  /\ DOMAIN actBram = 0 .. MaxN - 1
  /\ \A j \in 1 .. Taken : IsLatestLoad(j) =>
       \A a \in 0 .. (IF state = "sLoad" THEN loadBeat ELSE prog[j].dim0) - 1 :
         actBram[a] = <<j, a>>

\* The beats of the column tiles the array has summed up; all those the COMPUTE
\* has taken: these, the ones of the tile in the array, and the queues.
Base == (IF cState \in {"cReset", "cDone"} THEN colTile + 1 ELSE colTile) * rows
Fed  == Base + Len(accum) + Len(slice) + Len(inQ)

Tiling ==
  state = "sCompute" =>
    /\ prog[Taken].op = "COMPUTE_MM"
    /\ rows = prog[Taken].dim0 /\ tiles = ColTiles(prog[Taken].dim1)
    /\ cState \in {"cInit", "cStream", "cReset", "cDone"}
    /\ colTile \in 0 .. tiles - 1
    /\ cState = "cInit" => colTile = 0
    /\ cState = "cDone" => colTile + 1 = tiles
    /\ Fed <= tiles * rows /\ IsBeats(stream, Taken, tiles * rows, Fed)

Queued ==
  /\ state # "sCompute" \/ cState = "cInit" => accum = <<>> /\ slice = <<>> /\ inQ = <<>>
  /\ Len(slice) <= IF HasSlice THEN 1 ELSE 0
  /\ state = "sCompute" =>
       LET l == Latest("LOAD_ACT", Taken)
       IN /\ IsPairs(accum, Taken, l, rows, Base)
          /\ IsPairs(slice, Taken, l, rows, Base + Len(accum))
          /\ IsPairs(inQ, Taken, l, rows, Base + Len(accum) + Len(slice))
          /\ activeIdx = Fed % rows
          /\ Filling => actRd = actBram[activeIdx]

Array ==
  /\ peState \in FsmState /\ arrState \in FsmState
  /\ peState = "idle" =>
       /\ accum = <<>> /\ peCount = 0
       /\ arrState # "idle" => state = "sCompute" /\ cState = "cReset"
  /\ peState # "idle" => Streaming /\ arrState # "idle"
  /\ peState = "running" =>
       /\ arrState = "running" /\ peLast = rows - 1
       /\ peCount = Len(accum) /\ Len(accum) \in 1 .. rows - 1
  /\ peState = "done" => Len(accum) = rows

DataInv == Armed /\ Loading /\ Activations /\ Tiling /\ Queued /\ Array
ComputeInv == CompositionInv /\ Fits(config, prog) /\ Held /\ DataInv

-----------------------------------------------------------------------------
(* Arithmetic, sequences, and the build's sizes.                           *)

LEMMA ModRange ==
  ASSUME NEW k \in Nat, NEW N \in Nat \ {0}
  PROVE  k % N \in 0 .. N - 1
  OBVIOUS

LEMMA Zero ==
  ASSUME NEW N \in Nat \ {0}
  PROVE  0 * N = 0 /\ 0 % N = 0
  OBVIOUS

LEMMA ModIs ==
  ASSUME NEW N \in Nat \ {0}, NEW q \in Nat, NEW m \in 0 .. N - 1
  PROVE  (N * q + m) % N = m
  OBVIOUS

\* The row after row k % N.
LEMMA NextMod ==
  ASSUME NEW k \in Nat, NEW N \in Nat \ {0}
  PROVE  (k + 1) % N = IF k % N = N - 1 THEN 0 ELSE (k % N) + 1
<1>. DEFINE q == k \div N
            m == k % N
<1>1. k = N * q + m /\ q \in Nat /\ m \in 0 .. N - 1
  OBVIOUS
<1>2. CASE m = N - 1
  <2>1. k + 1 = N * (q + 1) + 0
    BY <1>1, <1>2
  <2>2. (N * (q + 1) + 0) % N = 0
    BY <1>1, ModIs
  <2>. QED
    BY <1>2, <2>1, <2>2
<1>3. CASE m # N - 1
  <2>1. k + 1 = N * q + (m + 1) /\ m + 1 \in 0 .. N - 1
    BY <1>1, <1>3
  <2>2. (N * q + (m + 1)) % N = m + 1
    BY <1>1, <2>1, ModIs
  <2>. QED
    BY <1>3, <2>1, <2>2
<1>. QED
  BY <1>2, <1>3

LEMMA ModBelow ==
  ASSUME NEW k \in Nat, NEW N \in Nat \ {0}, k < N
  PROVE  k % N = k
  OBVIOUS

\* The bits a count of rows is cut to hold it: NextPow2(x) is no less than x.
LEMMA LogExists ==
  ASSUME NEW x \in 1 .. 2^MaxLog
  PROVE  Log2Ceil(x) \in 0 .. MaxLog /\ 2^Log2Ceil(x) >= x
<1>. DEFINE T == {e \in 0 .. MaxLog : 2^e >= x}
<1>1. MaxLog \in T /\ T \subseteq Nat
  BY DEF MaxLog
<1>2. PICK e \in T : \A y \in T : ~(<<y, e>> \in OpToRel(<, Nat))
  BY <1>1, NatLessThanWellFounded, WFMin
<1>3. \A y \in T : ~(y < e)
  BY <1>1, <1>2 DEF OpToRel
<1>4. e = 0 \/ 2^(e - 1) < x
  <2>1. ASSUME e # 0 PROVE e - 1 \in 0 .. MaxLog /\ e - 1 \in Nat /\ e - 1 < e
    BY <1>1, <2>1 DEF MaxLog
  <2>2. ASSUME NEW k \in Nat PROVE 2^k \in Int
    OBVIOUS
  <2>. QED
    BY <1>3, <2>1, <2>2
<1>. QED
  BY <1>2, <1>4 DEF Log2Ceil

LEMMA ConfigFacts ==
  ASSUME config \in Configs
  PROVE  /\ MaxN \in Nat \ {0} /\ MaxAcc \in Nat /\ MaxAcc >= 2 /\ MaxN <= MaxAcc
         /\ NAccMod \in Nat /\ NAccMod >= MaxAcc
         /\ Batch \in Nat
         /\ \A m \in Nat : ColTiles(m) \in Nat /\ (m # 0 => ColTiles(m) # 0)
<1>. DEFINE lanes == config.xDim * (config.aWidth \div 2)
<1>1. /\ config.maxN \in Nat /\ config.batch \in Nat /\ config.maxAcc \in 1 .. 2^MaxLog
      /\ config.xDim \in Nat /\ config.aWidth \in Nat /\ Elaborates(config)
  BY BuildAssumption
<1>2. /\ config.maxAcc >= 2 /\ config.maxN >= 1 /\ config.maxN <= config.maxAcc
      /\ config.xDim >= 1 /\ config.aWidth >= 2
  BY <1>1 DEF Elaborates
<1>3. 2^MaxLog \in Int
  BY DEF MaxLog
<1>4. config.maxAcc \in Nat
  BY <1>1, <1>3
<1>5. NAccMod \in Nat /\ NAccMod >= MaxAcc
  <2>. DEFINE e == Log2Ceil(config.maxAcc)
  <2>1. e \in 0 .. MaxLog /\ 2^e >= config.maxAcc
    BY <1>1, LogExists
  <2>2. e \in Nat
    BY <2>1 DEF MaxLog
  <2>. HIDE DEF e
  <2>3. 2^e \in Int
    BY <2>2
  <2>4. 2^e \in Nat /\ 2^e >= MaxAcc
    BY <1>4, <2>1, <2>3 DEF MaxAcc
  <2>. QED
    BY <2>4 DEF e, NAccMod, MaxAcc, NextPow2
<1>6. lanes \in Nat \ {0}
  <2>1. config.aWidth \div 2 \in Nat \ {0}
    BY <1>1, <1>2
  <2>. QED
    BY <1>1, <1>2, <2>1
<1>7. ASSUME NEW m \in Nat PROVE ColTiles(m) \in Nat /\ (m # 0 => ColTiles(m) # 0)
  <2>1. ColTiles(m) = (m + lanes - 1) \div lanes
    BY DEF ColTiles, NumColTiles, CeilDiv, Derived
  <2>2. CASE m = 0
    <3>1. (lanes - 1) \div lanes = 0
      BY <1>6
    <3>. QED
      BY <1>6, <2>1, <2>2, <3>1
  <2>3. CASE m # 0
    <3>. HIDE DEF lanes
    <3>. QED
      BY <1>6, <2>1, <2>3
  <2>. QED
    BY <2>2, <2>3
<1>. QED
  BY <1>1, <1>2, <1>4, <1>5, <1>7 DEF MaxN, MaxAcc, Batch

LEMMA PairsNone ==
  ASSUME NEW c, NEW l, NEW N, NEW k0
  PROVE  IsPairs(<<>>, c, l, N, k0)
  BY DEF IsPairs

LEMMA PairType ==
  ASSUME NEW c \in Nat, NEW l \in Nat, NEW N \in Nat \ {0}, NEW k \in Nat
  PROVE  Pair(c, l, N, k) \in (Nat \X Nat) \X (Nat \X Nat)
<1>1. k % N \in Nat
  BY ModRange
<1>. QED
  BY <1>1 DEF Pair

LEMMA PairsLen ==
  ASSUME NEW q, NEW c, NEW l, NEW N, NEW k0, IsPairs(q, c, l, N, k0)
  PROVE  Len(q) \in Nat /\ (Len(q) = 0 <=> q = <<>>)
<1>1. q \in Seq((Nat \X Nat) \X (Nat \X Nat))
  BY DEF IsPairs
<1>. QED
  BY <1>1, EmptySeq

LEMMA PairsTail ==
  ASSUME NEW q, NEW c, NEW l, NEW N, NEW k0 \in Nat, IsPairs(q, c, l, N, k0), q # <<>>
  PROVE  /\ IsPairs(Tail(q), c, l, N, k0 + 1) /\ Len(Tail(q)) = Len(q) - 1 /\ Len(q) \in Nat \ {0}
         /\ Head(q) = Pair(c, l, N, k0)
<1>. DEFINE B == (Nat \X Nat) \X (Nat \X Nat)
<1>1. q \in Seq(B) /\ Len(q) \in Nat \ {0} /\ Head(q) = q[1]
  BY EmptySeq DEF IsPairs
<1>2. /\ Tail(q) \in Seq(B) /\ Len(Tail(q)) = Len(q) - 1
      /\ \A i \in 1 .. Len(Tail(q)) : Tail(q)[i] = q[i + 1]
  BY <1>1, HeadTailProperties
<1>3. ASSUME NEW i \in 1 .. Len(Tail(q)) PROVE Tail(q)[i] = Pair(c, l, N, k0 + 1 + i - 1)
  <2>1. i + 1 \in 1 .. Len(q) /\ k0 + (i + 1) - 1 = k0 + 1 + i - 1
    BY <1>1, <1>2
  <2>. QED
    BY <1>2, <2>1 DEF IsPairs
<1>4. Head(q) = Pair(c, l, N, k0)
  <2>1. 1 \in 1 .. Len(q) /\ k0 + 1 - 1 = k0
    BY <1>1
  <2>. QED
    BY <1>1, <2>1 DEF IsPairs
<1>. QED
  BY <1>1, <1>2, <1>3, <1>4 DEF IsPairs

LEMMA PairsAppend ==
  ASSUME NEW q, NEW c \in Nat, NEW l \in Nat, NEW N \in Nat \ {0}, NEW k0 \in Nat,
         IsPairs(q, c, l, N, k0)
  PROVE  /\ IsPairs(Append(q, Pair(c, l, N, k0 + Len(q))), c, l, N, k0)
         /\ Len(Append(q, Pair(c, l, N, k0 + Len(q)))) = Len(q) + 1 /\ Len(q) \in Nat
<1>. DEFINE B == (Nat \X Nat) \X (Nat \X Nat)
            e == Pair(c, l, N, k0 + Len(q))
<1>1. q \in Seq(B) /\ Len(q) \in Nat
  BY DEF IsPairs
<1>2. e \in B
  <2>1. k0 + Len(q) \in Nat
    BY <1>1
  <2>. QED
    BY <2>1, PairType
<1>3. Append(q, e) \in Seq(B) /\ Len(Append(q, e)) = Len(q) + 1
  BY <1>1, <1>2
<1>4. ASSUME NEW i \in 1 .. Len(q) + 1 PROVE Append(q, e)[i] = Pair(c, l, N, k0 + i - 1)
  <2>1. CASE i = Len(q) + 1
    <3>1. Append(q, e)[i] = e /\ k0 + i - 1 = k0 + Len(q)
      BY <1>1, <2>1
    <3>. QED
      BY <3>1
  <2>2. CASE i # Len(q) + 1
    <3>. HIDE DEF e
    <3>1. i \in 1 .. Len(q)
      <4>1. ASSUME NEW n \in Nat, NEW j \in 1 .. n + 1, j # n + 1 PROVE j \in 1 .. n
        BY <4>1
      <4>. QED
        BY <1>1, <2>2, <4>1
    <3>2. Append(q, e)[i] = q[i]
      BY <1>1, <3>1
    <3>. QED
      BY <3>1, <3>2 DEF IsPairs
  <2>. QED
    BY <2>1, <2>2
<1>. QED
  BY <1>1, <1>3, <1>4 DEF IsPairs

LEMMA BeatsTail ==
  ASSUME NEW s, NEW i, NEW total \in Nat, NEW k0 \in Nat, IsBeats(s, i, total, k0), s # <<>>
  PROVE  /\ IsBeats(Tail(s), i, total, k0 + 1) /\ k0 + 1 <= total
         /\ Head(s) = <<i, k0>>
<1>1. s \in Seq(Nat \X Nat) /\ Len(s) \in Nat \ {0} /\ Head(s) = s[1] /\ Len(s) = total - k0
  BY EmptySeq DEF IsBeats
<1>2. /\ Tail(s) \in Seq(Nat \X Nat) /\ Len(Tail(s)) = Len(s) - 1
      /\ \A k \in 1 .. Len(Tail(s)) : Tail(s)[k] = s[k + 1]
  BY <1>1, HeadTailProperties
<1>3. ASSUME NEW k \in 1 .. Len(Tail(s)) PROVE Tail(s)[k] = <<i, k0 + 1 + k - 1>>
  <2>1. k + 1 \in 1 .. Len(s) /\ k0 + (k + 1) - 1 = k0 + 1 + k - 1
    BY <1>1, <1>2
  <2>. QED
    BY <1>2, <2>1 DEF IsBeats
<1>4. Head(s) = <<i, k0>>
  <2>1. 1 \in 1 .. Len(s) /\ k0 + 1 - 1 = k0
    BY <1>1
  <2>. QED
    BY <1>1, <2>1 DEF IsBeats
<1>5. k0 + 1 <= total /\ Len(Tail(s)) = total - (k0 + 1)
  BY <1>1, <1>2
<1>. QED
  BY <1>2, <1>3, <1>4, <1>5 DEF IsBeats

-----------------------------------------------------------------------------
(* The instruction in execution.                                           *)

LEMMA LatestIs ==
  ASSUME NEW op, NEW i \in Nat, NEW j \in 1 .. i, prog[j].op = op,
         \A k \in j + 1 .. i : prog[k].op # op
  PROVE  Latest(op, i) = j
<1>. DEFINE S == {0} \cup {k \in 1 .. i : prog[k].op = op}
<1>1. j \in S /\ S \subseteq Nat
  OBVIOUS
<1>2. \A k \in S : k <= j
  OBVIOUS
<1>3. \A x \in S : (\A y \in S : x >= y) => x = j
  BY <1>1, <1>2
<1>. HIDE DEF S
<1>4. (CHOOSE x \in S : \A y \in S : x >= y) = j
  BY <1>1, <1>2, <1>3
<1>. QED
  BY <1>4 DEF Latest, Max, S

\* How many commands the engines have taken, against the number pushed.
LEMMA TakenFacts ==
  ASSUME CompositionInv, Held
  PROVE  /\ Taken \in Nat /\ tag \in Nat \ {0} /\ (Taken = tag - 1 \/ Taken = tag - 2)
         /\ state # "sIdle" => Taken = tag - 1 /\ tag > 1
         /\ H!CmdValid => Taken = tag - 2 /\ inst.tag = tag - 1
         /\ phase = "issue" => Taken = tag - 1 /\ dispState = "idle" /\ pending = None
         /\ dispState = "completed" => Len(ran) = 1
         /\ H!CmdValid => Len(ran) = 0
         /\ ran \in Seq(D!Instruction) /\ outcomes \in Seq(Seq(D!Instruction))
<1>1. D!TypeOK /\ D!Whereabouts /\ D!Counts
  BY DEF CompositionInv, D!DriverInv, D!ChannelInv, D!HandlerInv
<1>2. /\ tag \in Nat \ {0} /\ Len(outcomes) \in Nat /\ Len(accepted) \in Nat
      /\ ran \in Seq(D!Instruction) /\ outcomes \in Seq(Seq(D!Instruction))
      /\ dispState \in D!DispState
  BY <1>1 DEF D!TypeOK, D!HandlerTypeOK
<1>3. /\ Len(accepted) = tag - 2 \/ Len(accepted) = tag - 1
      /\ Len(outcomes) = tag - 2 \/ Len(outcomes) = tag - 1
      /\ phase = "issue" => Len(outcomes) = tag - 1
  BY <1>1 DEF D!Counts
<1>4. Len(accepted) = Len(outcomes) + (IF dispState = "idle" THEN 0 ELSE 1)
                                    + (IF pending = None THEN 0 ELSE 1)
  BY <1>1 DEF D!Whereabouts
<1>5. Len(ran) = IF dispState \in {"awaitingDone", "completed"} THEN 1 ELSE 0
  <2>1. dispState = "completed" => inst.op \in D!EngineOps
    BY DEF Held, H!EngineOps, D!EngineOps
  <2>2. Len(<<inst>>) = 1 /\ Len(<<>>) = 0
    OBVIOUS
  <2>. QED
    BY <1>1, <2>1, <2>2 DEF D!Whereabouts
<1>6. Taken = Len(outcomes) + (IF dispState \in {"awaitingDone", "completed"} THEN 1 ELSE 0)
  BY <1>5 DEF Taken
<1>7. state # "sIdle" <=> dispState = "awaitingDone"
  BY DEF CompositionInv
<1>8. H!CmdValid => inst.tag = tag - 1
  BY DEF Held, H!CmdValid
<1>9. Len(outcomes) = tag - 1 => dispState = "idle" /\ pending = None
  BY <1>2, <1>3, <1>4
<1>10. Taken \in Nat /\ (Taken = tag - 1 \/ Taken = tag - 2)
  BY <1>2, <1>3, <1>6, <1>9
<1>11. dispState = "awaitingDone" => Taken = tag - 1 /\ tag > 1
  BY <1>2, <1>3, <1>6, <1>9
<1>12. H!CmdValid => Taken = tag - 2
  BY <1>2, <1>3, <1>6, <1>9 DEF H!CmdValid
<1>13. phase = "issue" => Taken = tag - 1 /\ dispState = "idle" /\ pending = None
  BY <1>2, <1>3, <1>6, <1>9
<1>. QED
  BY <1>2, <1>5, <1>7, <1>8, <1>10, <1>11, <1>12, <1>13 DEF H!CmdValid

LEMMA TakenStep ==
  ASSUME CompositionInv, Held, NEW tvalid, NEW tready, Cycle(tvalid, tready)
  PROVE  Taken' = IF H!CmdValid THEN Taken + 1 ELSE Taken
<1>1. H!Record
  BY DEF Cycle
<1>2. H!TakeCommand <=> H!CmdValid
  BY EngineFacts DEF H!TakeCommand
<1>3. /\ Len(outcomes) \in Nat /\ Len(ran) \in Nat
      /\ ran \in Seq(D!Instruction) /\ outcomes \in Seq(Seq(D!Instruction))
  BY TakenFacts
<1>4. CASE dispState = "completed"
  <2>1. outcomes' = Append(outcomes, ran) /\ ran' = <<>> /\ ~H!CmdValid
    BY <1>1, <1>4 DEF H!Record, H!CompletionPulse, H!CmdValid
  <2>2. Len(outcomes') = Len(outcomes) + 1 /\ Len(ran') = 0
    BY <1>3, <2>1
  <2>3. Len(ran) = 1
    BY <1>4, TakenFacts
  <2>. QED
    BY <1>3, <2>1, <2>2, <2>3 DEF Taken
<1>5. CASE H!CmdValid
  <2>1. outcomes' = outcomes /\ ran' = Append(ran, inst)
    BY <1>1, <1>2, <1>5 DEF H!Record, H!CompletionPulse, H!CmdValid
  <2>2. inst \in D!Instruction
    BY <1>5, EngineFacts DEF CompositionInv, D!DriverInv, D!ChannelInv, D!HandlerInv, D!TypeOK,
       D!HandlerTypeOK
  <2>3. Len(ran') = Len(ran) + 1
    BY <1>3, <2>1, <2>2
  <2>. QED
    BY <1>3, <1>5, <2>1, <2>3 DEF Taken
<1>6. CASE dispState # "completed" /\ ~H!CmdValid
  BY <1>1, <1>2, <1>6 DEF H!Record, H!CompletionPulse, Taken
<1>. QED
  BY <1>4, <1>5, <1>6

\* The thread pushes an operation only when the Core has done all those before it.
LEMMA PushFacts ==
  ASSUME CompositionInv, Held, PushNext
  PROVE  /\ state = "sIdle" /\ ~H!CmdValid /\ dispState = "idle" /\ pending = None
         /\ Taken = tag - 1 /\ tag \in 1 .. Len(prog) /\ tag' = tag + 1 /\ stream = <<>>
         /\ txn = None
<1>1. phase = "issue" /\ tag <= Len(prog) /\ stream = <<>> /\ tag' = tag + 1 /\ txn = None
  BY DEF PushNext, H!Push
<1>2. tag \in Nat \ {0} /\ Taken = tag - 1 /\ dispState = "idle" /\ pending = None
  BY <1>1, TakenFacts
<1>3. Len(prog) \in Nat
  BY DEF CompositionInv
<1>. QED
  BY <1>1, <1>2, <1>3 DEF CompositionInv, H!CmdValid

LEMMA ThreadTag ==
  ASSUME NEW in, Thread(in)
  PROVE  tag' = tag
  BY DEF Thread, H!Ack, H!SeeIrq, H!ReadStatus, H!WriteGoesOn, H!ReadGoesOn, H!Think, H!hostVars

LEMMA HeldStep ==
  ASSUME CompositionInv, Held, NEW tvalid, NEW tready, Cycle(tvalid, tready)
  PROVE  Held'
<1>. DEFINE in == Pins(Beat(tvalid))
<1>1. H!HandlerTick(in) /\ (PushNext \/ Thread(in))
  BY DEF Cycle
<1>2. D!TypeOK
  BY DEF CompositionInv, D!DriverInv, D!ChannelInv, D!HandlerInv
<1>3. ASSUME txn # None
      PROVE  txn.beats \in Seq(D!Instruction) /\ txn \in D!Txn
    BY <1>2, <1>3 DEF D!TypeOK, D!Txn
<1>4. in.w # None => in.w.op \in H!EngineOps
  <2>1. ASSUME txn # None, txn.beats # <<>>
        PROVE  Head(txn.beats).op \in H!EngineOps
    <3>1. Len(txn.beats) \in Nat \ {0} /\ Head(txn.beats) = txn.beats[1]
      BY <1>3, <2>1, EmptySeq
    <3>. QED
      BY <2>1, <3>1 DEF Held
  <2>. QED
    BY <2>1 DEF Pins, H!HostPins
<1>5. w' # None => w'.op \in H!EngineOps
  BY <1>1, <1>4 DEF Held, H!HandlerTick, H!WriteFSM, H!HoldWrite, H!ProcessWrite, H!SendB
<1>6. tag' = tag \/ (PushNext /\ dispState = "idle" /\ pending = None /\ txn = None)
  BY <1>1, PushFacts, ThreadTag
<1>7. H!InstrAccept => w.tag = tag - 1 /\ w.op \in H!EngineOps /\ txn # None
  <2>1. H!InstrAccept => w # None
    BY DEF H!InstrAccept, H!Writes, H!CanProcessW
  <2>2. H!InstrAccept => txn # None
    BY SameWires, D!PairedBeats, InstanceAssumptions
       DEF D!AcceptedIsWritten, CompositionInv, D!DriverInv
  <2>. QED
    BY <2>1, <2>2, AcceptedOperand DEF Held
<1>8. pending' = IF H!InstrAccept THEN w ELSE IF H!Fetch THEN None ELSE pending
  BY <1>1 DEF H!HandlerTick, H!PendingReg
<1>9. pending' # None => pending'.tag = tag' - 1 /\ pending'.op \in H!EngineOps
  BY <1>6, <1>7, <1>8 DEF Held
<1>10. \/ dispState' = "idle"
       \/ dispState = "idle" /\ pending # None /\ inst' = pending
       \/ dispState # "idle" /\ inst' = inst
  BY <1>1 DEF H!HandlerTick, H!Dispatcher, H!FetchInstr, H!Decode, H!Dispatch, H!AwaitDone,
     H!Complete, H!CmdValid
<1>11. dispState' # "idle" => inst'.tag = tag' - 1 /\ inst'.op \in H!EngineOps
  BY <1>6, <1>10 DEF Held
<1>12. txn' # None => \A i \in 1 .. Len(txn'.beats) : txn'.beats[i].op \in H!EngineOps
  <2>. SUFFICES ASSUME txn' # None
                PROVE  \A i \in 1 .. Len(txn'.beats) : txn'.beats[i].op \in H!EngineOps
    OBVIOUS
  <2>1. CASE PushNext
    <3>1. PICK op \in {"LOAD_ACT", "COMPUTE_MM", "STORE_OUT"} :
            txn'.beats = <<H!Instr(op, tag)>>
      BY <2>1 DEF PushNext, H!Push, H!WriteTxn
    <3>. QED
      BY <3>1 DEF H!Instr, H!EngineOps
  <2>2. CASE H!Ack
    BY <2>2 DEF H!Ack, H!WriteTxn, H!AckWord, H!EngineOps
  <2>3. CASE H!SeeIrq
    BY <2>3 DEF H!SeeIrq, Held
  <2>4. CASE H!ReadStatus
    BY <2>4 DEF H!ReadStatus, H!ReadTxn
  <2>5. CASE H!WriteGoesOn(in)
    <3>1. txn # None /\ txn'.beats = IF H!WReady /\ in.w # None THEN Tail(txn.beats) ELSE txn.beats
      BY <1>3, <2>5 DEF H!WriteGoesOn, D!Txn
    <3>2. in.w # None => txn.beats # <<>>
      BY DEF Pins, H!HostPins
    <3>3. CASE H!WReady /\ in.w # None
      <4>1. /\ Len(txn'.beats) = Len(txn.beats) - 1 /\ Len(txn.beats) \in Nat
            /\ \A i \in 1 .. Len(txn'.beats) : txn'.beats[i] = txn.beats[i + 1]
        BY <1>3, <3>1, <3>2, <3>3, HeadTailProperties
      <4>. QED
        BY <3>1, <4>1 DEF Held
    <3>. QED
      BY <3>1, <3>3 DEF Held
  <2>6. CASE H!ReadGoesOn(in)
    <3>1. txn # None /\ txn'.beats = txn.beats
      BY <1>3, <2>6 DEF H!ReadGoesOn, D!Txn
    <3>. QED
      BY <3>1 DEF Held
  <2>7. CASE H!Think
    BY <2>7 DEF H!Think, H!hostVars, Held
  <2>. QED
    BY <1>1, <2>1, <2>2, <2>3, <2>4, <2>5, <2>6, <2>7 DEF Thread
<1>. QED
  BY <1>5, <1>9, <1>11, <1>12 DEF Held

\* The four kinds of cycle the engines see.
Pushing(beat) ==
  /\ state = "sIdle" /\ Idle(None) /\ beat = None
  /\ Taken = tag - 1 /\ tag \in 1 .. Len(prog) /\ Taken' = Taken /\ tag' = tag + 1
  /\ stream' = [k \in 1 .. BeatCount(prog[tag]) |-> <<tag, k - 1>>]
Accepting ==
  /\ state = "sIdle" /\ Command = prog[Taken + 1] /\ Accept(Command)
  /\ Taken = tag - 2 /\ Taken + 1 \in 1 .. Len(prog) /\ Taken' = Taken + 1 /\ tag' = tag
  /\ stream' = stream
Idling ==
  state = "sIdle" /\ Idle(None) /\ Taken' = Taken /\ tag' = tag /\ stream' = stream
Executing(beat) ==
  /\ state # "sIdle" /\ Execute(beat) /\ Taken = tag - 1 /\ Taken \in 1 .. Len(prog)
  /\ Taken' = Taken /\ tag' = tag /\ Dma(beat)

LEMMA CycleCases ==
  ASSUME CompositionInv, Held, NEW tvalid \in {FALSE} \cup {stream # <<>>}, NEW tready,
         Cycle(tvalid, tready)
  PROVE  LET beat == Beat(tvalid)
         IN /\ prog' = prog /\ config' = config
            /\ beat = None \/ (stream # <<>> /\ beat = Head(stream))
            /\ ComputeEngineTick(Command, beat)
            /\ Pushing(beat) \/ Accepting \/ Idling \/ Executing(beat)
<1>. DEFINE beat == Beat(tvalid)
            in   == Pins(beat)
<1>1. /\ prog' = prog /\ config' = config /\ ComputeEngineTick(Command, beat)
      /\ Accept(Command) \/ Idle(Command) \/ Execute(beat)
      /\ PushNext \/ (Thread(in) /\ Dma(beat))
  BY DEF Cycle, CoreTick
<1>2. beat = None \/ (stream # <<>> /\ beat = Head(stream))
  BY DEF Beat
<1>3. Taken' = IF H!CmdValid THEN Taken + 1 ELSE Taken
  BY TakenStep
<1>4. /\ H!CmdValid => Command = prog[inst.tag] /\ Command # None /\ inst.tag \in 1 .. Len(prog)
      /\ ~H!CmdValid => Command = None
  BY OperationFacts, EngineFacts DEF CompositionInv, Operands, Command
<1>5. state # "sIdle" => ~H!CmdValid
  BY EngineFacts
<1>6. tag \in 1 .. Len(prog) + 1 /\ Len(prog) \in Nat
  BY DEF CompositionInv, Operands
<1>7. CASE PushNext
  <2>1. /\ state = "sIdle" /\ ~H!CmdValid /\ Taken = tag - 1 /\ tag \in 1 .. Len(prog)
        /\ tag' = tag + 1 /\ stream = <<>>
    BY <1>7, PushFacts
  <2>2. Idle(None)
    BY <1>1, <1>4, <2>1 DEF Accept, Execute, Load, Compute, Store
  <2>. QED
    BY <1>1, <1>2, <1>3, <1>7, <2>1, <2>2 DEF PushNext, Pushing
<1>8. CASE Thread(in) /\ Dma(beat)
  <2>1. tag' = tag
    BY <1>8, ThreadTag
  <2>2. CASE state # "sIdle"
    <3>1. Taken = tag - 1 /\ tag > 1 /\ Execute(beat)
      BY <1>1, <2>2, TakenFacts DEF Accept, Idle
    <3>2. Taken \in 1 .. Len(prog)
      BY <1>6, <3>1
    <3>. QED
      BY <1>1, <1>2, <1>3, <1>5, <1>8, <2>1, <2>2, <3>1, <3>2 DEF Executing
  <2>3. CASE state = "sIdle" /\ H!CmdValid
    <3>1. Taken = tag - 2 /\ inst.tag = tag - 1
      BY <2>3, TakenFacts
    <3>2. Taken + 1 = inst.tag
      BY <1>6, <3>1
    <3>3. stream' = stream
      BY <1>8, <2>3 DEF Dma, StreamReady, Filling
    <3>4. Accept(Command)
      BY <1>1, <1>4, <2>3 DEF Idle, Execute, Load, Compute, Store
    <3>. QED
      BY <1>1, <1>2, <1>3, <1>4, <2>1, <2>3, <3>1, <3>2, <3>3, <3>4 DEF Accepting
  <2>4. CASE state = "sIdle" /\ ~H!CmdValid
    <3>1. stream' = stream
      BY <1>8, <2>4 DEF Dma, StreamReady, Filling
    <3>2. Idle(None)
      BY <1>1, <1>4, <2>4 DEF Accept, Execute, Load, Compute, Store
    <3>. QED
      BY <1>1, <1>2, <1>3, <2>1, <2>4, <3>1, <3>2 DEF Idling
  <2>. QED
    BY <2>2, <2>3, <2>4
<1>. QED
  BY <1>1, <1>7, <1>8

-----------------------------------------------------------------------------
(* Outside sCompute, and before and after the tiles in it, nothing moves.  *)

LEMMA QuietTick ==
  ASSUME Array, ~Filling, slice = <<>>, inQ = <<>>,
         NEW cmd, NEW beat, ComputeEngineTick(cmd, beat)
  PROVE  /\ accum' = <<>> /\ slice' = <<>> /\ inQ' = <<>>
         /\ peState' = "idle" /\ peCount' = 0 /\ arrState' = "idle"
<1>1. /\ ~Streaming /\ peState = "idle" /\ accum = <<>> /\ peCount = 0 /\ arrState = "idle"
  BY DEF Array, Streaming, Filling, FsmState
<1>2. slice' = <<>> /\ inQ' = <<>>
  BY <1>1 DEF ComputeEngineTick, Queues, ArmTake, InQTake, EnqFire
<1>3. ArrayIn.weight = None /\ ArrayIn.act = None /\ ~ArrayIn.reset
  BY <1>1 DEF ArrayIn, LocalReset, Filling
<1>4. ~ArrayStep(ArrayIn) /\ ~Latching(ArrayIn)
  BY <1>3 DEF ArrayStep, Latching, BothValid
<1>. QED
  BY <1>1, <1>2, <1>3, <1>4 DEF ComputeEngineTick, ArrayTick, PeIdle, PeRunning, PeDone, ArrayFSM

\* Nothing is in the queues and the array when no tile is being summed up.
QuietNext ==
  /\ accum' = <<>> /\ slice' = <<>> /\ inQ' = <<>>
  /\ peState' = "idle" /\ peCount' = 0 /\ arrState' = "idle"

LEMMA QuietQueues ==
  ASSUME CompositionInv, Queued, Array, state # "sCompute", NEW cmd, NEW beat,
         ComputeEngineTick(cmd, beat), config' = config
  PROVE  /\ QuietNext /\ Array' /\ Len(slice') <= IF HasSlice' THEN 1 ELSE 0
         /\ state' # "sCompute" => Queued'
<1>1. QuietNext
  BY QuietTick DEF Queued, Filling, QuietNext
<1>2. Array'
  BY <1>1 DEF QuietNext, Array, FsmState
<1>3. Len(slice') <= IF HasSlice' THEN 1 ELSE 0
  BY <1>1 DEF QuietNext
<1>. QED
  BY <1>1, <1>2, <1>3 DEF QuietNext, Queued

-----------------------------------------------------------------------------
(* No command: the thread may push the next operation.                     *)

LEMMA BeatCountType ==
  ASSUME config \in Configs, NEW op \in Operation
  PROVE  /\ BeatCount(op) \in Nat
         /\ op.op = "LOAD_ACT" => BeatCount(op) = op.dim0
         /\ op.op = "COMPUTE_MM" => BeatCount(op) = op.dim0 * ColTiles(op.dim1)
         /\ op.op = "STORE_OUT" => BeatCount(op) = 0
<1>1. op.dim0 \in Nat /\ op.dim1 \in Nat /\ op.op \in {"LOAD_ACT", "COMPUTE_MM", "STORE_OUT"}
  BY DEF Operation
<1>2. ColTiles(op.dim1) \in Nat
  BY <1>1, ConfigFacts
<1>3. op.dim0 * ColTiles(op.dim1) \in Nat
  BY <1>1, <1>2
<1>. QED
  BY <1>1, <1>3 DEF BeatCount

LEMMA ArmedBeats ==
  ASSUME NEW i \in Nat, NEW n \in Nat
  PROVE  IsBeats([k \in 1 .. n |-> <<i, k - 1>>], i, n, 0)
<1>. DEFINE s == [k \in 1 .. n |-> <<i, k - 1>>]
<1>1. \A k \in 1 .. n : <<i, k - 1>> \in Nat \X Nat
  OBVIOUS
<1>2. s \in Seq(Nat \X Nat) /\ Len(s) = n
  BY <1>1
<1>3. \A k \in 1 .. n : 0 + k - 1 = k - 1
  OBVIOUS
<1>. QED
  BY <1>2, <1>3 DEF IsBeats

LEMMA IdleStep ==
  ASSUME CompositionInv, DataInv, NEW beat, Pushing(beat) \/ Idling,
         ComputeEngineTick(Command, beat), prog' = prog, config' = config
  PROVE  DataInv'
<1>1. /\ state = "sIdle" /\ state' = "sIdle" /\ actBram' = actBram /\ Taken' = Taken
  BY DEF Pushing, Idling, Idle, loadVars
<1>2. Array' /\ Queued'
  BY <1>1, QuietQueues DEF DataInv
<1>3. Loading' /\ Tiling'
  BY <1>1 DEF Loading, Tiling
<1>4. Activations'
  BY <1>1 DEF DataInv, Activations, IsLatestLoad, MaxN
<1>5. Armed'
  <2>1. CASE Idling
    BY <1>1, <2>1 DEF Idling, DataInv, Armed, BeatCount, ColTiles
  <2>2. CASE Pushing(beat)
    <3>1. prog[tag] \in Operation /\ tag \in Nat /\ config \in Configs
      BY <2>2, OperationFacts DEF CompositionInv, Pushing
    <3>2. BeatCount(prog[tag]) \in Nat /\ tag' = tag + 1 /\ Taken' = tag' - 2 /\ tag' - 1 = tag
      BY <1>1, <2>2, <3>1, BeatCountType DEF Pushing
    <3>3. IsBeats(stream', tag, BeatCount(prog[tag]), 0)
      BY <2>2, <3>1, <3>2, ArmedBeats DEF Pushing
    <3>4. BeatCount(prog[tag - 1])' = BeatCount(prog[tag])
      BY <3>2 DEF BeatCount, ColTiles
    <3>. QED
      BY <3>2, <3>3, <3>4 DEF Armed
  <2>. QED
    BY <2>1, <2>2
<1>. QED
  BY <1>2, <1>3, <1>4, <1>5 DEF DataInv

(* The Core takes a command; the array and the queues are empty.           *)

LEMMA NoBeatsLeft ==
  ASSUME NEW s, NEW i, NEW total \in Nat, IsBeats(s, i, total, total)
  PROVE  s = <<>>
<1>1. s \in Seq(Nat \X Nat) /\ Len(s) = 0
  BY DEF IsBeats
<1>. QED
  BY <1>1, EmptySeq

LEMMA AcceptFacts ==
  ASSUME CompositionInv, Held, DataInv, Accepting, NEW beat, ComputeEngineTick(Command, beat),
         prog' = prog, config' = config
  PROVE  /\ Taken' \in 1 .. Len(prog) /\ Taken' = tag' - 1 /\ prog[Taken'] \in Operation
         /\ Taken' # tag' - 2 /\ Command # None
         /\ Taken \in Nat /\ Taken' = Taken + 1
         /\ config \in Configs /\ Command = prog[Taken'] /\ state = "sIdle"
         /\ IsBeats(stream', Taken', BeatCount(prog[Taken']), 0) /\ QuietNext /\ Array'
<1>1. tag \in Nat /\ Taken \in Nat
  BY TakenFacts
<1>2. /\ Taken' \in 1 .. Len(prog) /\ Taken' = tag' - 1 /\ Taken' = tag - 1 /\ Taken' = Taken + 1
      /\ Command = prog[Taken'] /\ stream' = stream /\ state = "sIdle" /\ Taken = tag - 2
      /\ Taken' # tag' - 2
  BY <1>1 DEF Accepting
<1>3. prog[Taken'] \in Operation /\ config \in Configs /\ Command # None
  BY <1>2, OperationFacts DEF CompositionInv
<1>4. IsBeats(stream', Taken', BeatCount(prog[Taken']), 0)
  BY <1>2 DEF DataInv, Armed
<1>5. QuietNext /\ Array'
  BY <1>2, QuietQueues DEF DataInv
<1>. QED
  BY <1>1, <1>2, <1>3, <1>4, <1>5

LEMMA AcceptLoadStep ==
  ASSUME CompositionInv, Held, DataInv, Fits(config, prog), Accepting, NEW beat,
         ComputeEngineTick(Command, beat), prog' = prog, config' = config,
         AcceptLoad(Command)
  PROVE  DataInv'
<1>1. /\ Taken' \in 1 .. Len(prog) /\ Taken' = tag' - 1 /\ prog[Taken'] \in Operation
      /\ config \in Configs /\ Command = prog[Taken'] /\ state = "sIdle"
      /\ IsBeats(stream', Taken', BeatCount(prog[Taken']), 0) /\ Array'
  BY AcceptFacts
<1>2. /\ prog[Taken'].op = "LOAD_ACT" /\ state' = "sLoad" /\ actBram' = actBram
      /\ loadTotal' = prog[Taken'].dim0 /\ loadBeat' = 0
  BY <1>1 DEF AcceptLoad
<1>3. Queued'
  BY <1>1, <1>2, QuietQueues DEF DataInv
<1>4. prog[Taken'].dim0 \in 1 .. MaxN /\ MaxN \in Nat
  BY <1>1, <1>2, ConfigFacts DEF Fits, MaxN
<1>5. Loading'
  <2>1. BeatCount(prog[Taken']) = prog[Taken'].dim0
    BY <1>1, <1>2, BeatCountType
  <2>2. loadBeat' \in 0 .. loadTotal' - 1
    BY <1>2, <1>4
  <2>. QED
    BY <1>1, <1>2, <2>1, <2>2 DEF Loading
<1>6. Tiling' /\ Armed'
  <2>1. Taken' # tag' - 2
    BY AcceptFacts
  <2>. QED
    BY <1>2, <2>1 DEF Tiling, Armed
<1>7. Activations'
  <2>1. DOMAIN actBram' = 0 .. MaxN' - 1
    BY <1>2 DEF DataInv, Activations, MaxN
  <2>2. \A a \in 0 .. loadBeat' - 1 : FALSE
    BY <1>2
  <2>. QED
    BY <1>2, <2>1, <2>2 DEF Activations
<1>. QED
  BY <1>1, <1>3, <1>5, <1>6, <1>7 DEF DataInv

\* A command that loads nothing leaves the activation rows as they are.
LEMMA ActivationsKept ==
  ASSUME CompositionInv, Held, Activations, Accepting, state' \in {"sCompute", "sStore"},
         actBram' = actBram, prog' = prog, config' = config,
         prog[Taken + 1].op # "LOAD_ACT"
  PROVE  Activations'
<1>1. Taken \in Nat /\ Taken' = Taken + 1 /\ state = "sIdle"
  BY TakenFacts DEF Accepting
<1>2. ASSUME NEW j \in 1 .. Taken', IsLatestLoad(j)'
      PROVE  j \in 1 .. Taken /\ IsLatestLoad(j)
  <2>1. prog[j].op = "LOAD_ACT" /\ \A k \in j + 1 .. Taken + 1 : prog[k].op # "LOAD_ACT"
    BY <1>1, <1>2 DEF IsLatestLoad
  <2>2. j \in 1 .. Taken
    BY <1>1, <2>1
  <2>3. \A k \in j + 1 .. Taken : k \in j + 1 .. Taken + 1
    BY <1>1
  <2>. QED
    BY <2>1, <2>2, <2>3 DEF IsLatestLoad
<1>3. DOMAIN actBram' = 0 .. MaxN' - 1
  BY DEF Activations, MaxN
<1>4. ASSUME NEW j \in 1 .. Taken', IsLatestLoad(j)'
      PROVE  \A a \in 0 .. prog[j].dim0 - 1 : actBram[a] = <<j, a>>
  BY <1>1, <1>2, <1>4 DEF Activations
<1>. QED
  BY <1>3, <1>4 DEF Activations

LEMMA AcceptStoreStep ==
  ASSUME CompositionInv, Held, DataInv, Accepting, NEW beat,
         ComputeEngineTick(Command, beat), prog' = prog, config' = config,
         AcceptStore(Command), UNCHANGED <<loadVars, tileVars>>
  PROVE  DataInv'
<1>1. /\ Taken' \in 1 .. Len(prog) /\ Taken' = tag' - 1 /\ prog[Taken'] \in Operation
      /\ config \in Configs /\ Command = prog[Taken'] /\ state = "sIdle"
      /\ IsBeats(stream', Taken', BeatCount(prog[Taken']), 0) /\ Array'
      /\ Taken' = Taken + 1
  BY AcceptFacts
<1>2. prog[Taken'].op = "STORE_OUT" /\ state' = "sStore" /\ actBram' = actBram
  BY <1>1 DEF AcceptStore, loadVars
<1>3. Queued'
  BY <1>1, <1>2, QuietQueues DEF DataInv
<1>4. stream' = <<>>
  BY <1>1, <1>2, BeatCountType, NoBeatsLeft
<1>5. Loading' /\ Tiling' /\ Armed'
  <2>1. Taken' # tag' - 2
    BY AcceptFacts
  <2>. QED
    BY <1>2, <1>4, <2>1 DEF Loading, Tiling, Armed
<1>6. Activations'
  BY <1>1, <1>2, ActivationsKept DEF DataInv
<1>. QED
  BY <1>1, <1>3, <1>5, <1>6 DEF DataInv

LEMMA AcceptComputeStep ==
  ASSUME CompositionInv, Held, DataInv, Fits(config, prog), Accepting, NEW beat,
         ComputeEngineTick(Command, beat), prog' = prog, config' = config,
         AcceptCompute(Command)
  PROVE  DataInv'
<1>1. /\ Taken' \in 1 .. Len(prog) /\ Taken' = tag' - 1 /\ prog[Taken'] \in Operation
      /\ config \in Configs /\ Command = prog[Taken'] /\ state = "sIdle"
      /\ IsBeats(stream', Taken', BeatCount(prog[Taken']), 0) /\ Array' /\ QuietNext
      /\ Taken' = Taken + 1
  BY AcceptFacts
<1>2. /\ prog[Taken'].op = "COMPUTE_MM" /\ state' = "sCompute" /\ actBram' = actBram
      /\ rows' = prog[Taken'].dim0 /\ tiles' = ColTiles(prog[Taken'].dim1)
      /\ cState' = "cInit" /\ colTile' = 0
  BY <1>1 DEF AcceptCompute, loadVars
<1>3. rows' \in Nat \ {0} /\ tiles' \in Nat \ {0}
  <2>1. prog[Taken'].dim0 >= 2 /\ prog[Taken'].dim1 >= 1
    BY <1>1, <1>2 DEF Fits
  <2>2. prog[Taken'].dim0 \in Nat /\ prog[Taken'].dim1 \in Nat
    BY <1>1 DEF Operation
  <2>3. prog[Taken'].dim0 \in Nat \ {0} /\ prog[Taken'].dim1 # 0
    BY <2>1, <2>2
  <2>4. ColTiles(prog[Taken'].dim1) \in Nat \ {0}
    BY <1>1, <2>2, <2>3, ConfigFacts
  <2>. QED
    BY <1>2, <2>3, <2>4
<1>4. Base' = 0 /\ Fed' = 0
  <2>1. 0 * rows' = 0
    BY <1>3, Zero
  <2>. QED
    BY <1>1, <1>2, <2>1 DEF Base, Fed, QuietNext
<1>5. Tiling'
  <2>1. tiles' * rows' \in Nat /\ tiles' * rows' = BeatCount(prog[Taken'])
    BY <1>1, <1>2, <1>3, BeatCountType
  <2>2. (ColTiles(prog[Taken].dim1))' = ColTiles(prog[Taken'].dim1)
    BY DEF ColTiles
  <2>3. colTile' \in 0 .. tiles' - 1
    BY <1>2, <1>3
  <2>. QED
    BY <1>1, <1>2, <1>4, <2>1, <2>2, <2>3 DEF Tiling
<1>6. Queued'
  <2>1. activeIdx' = 0
    BY <1>1, <1>2, AcceptFacts DEF ComputeEngineTick, ActRead, Starting, AcceptCompute
  <2>2. 0 % rows' = 0
    BY <1>3, Zero
  <2>3. ~Filling'
    BY <1>2 DEF Filling
  <2>4. Len(slice') <= IF HasSlice' THEN 1 ELSE 0
    BY <1>1, QuietQueues DEF DataInv
  <2>. QED
    BY <1>1, <1>4, <2>1, <2>2, <2>3, <2>4, PairsNone DEF Queued, QuietNext
<1>7. Activations'
  BY <1>1, <1>2, ActivationsKept DEF DataInv
<1>8. Armed' /\ Loading'
  <2>1. Taken' # tag' - 2
    BY AcceptFacts
  <2>. QED
    BY <1>2, <2>1 DEF Armed, Loading
<1>. QED
  BY <1>1, <1>5, <1>6, <1>7, <1>8 DEF DataInv

LEMMA AcceptStep ==
  ASSUME CompositionInv, Held, DataInv, Fits(config, prog), Accepting, NEW beat,
         ComputeEngineTick(Command, beat), prog' = prog, config' = config
  PROVE  DataInv'
  BY AcceptLoadStep, AcceptStoreStep, AcceptComputeStep DEF Accepting, Accept

-----------------------------------------------------------------------------
(* LOAD_ACT and STORE_OUT in execution.                                    *)

LEMMA ExecutingFacts ==
  ASSUME CompositionInv, Held, NEW beat, Executing(beat), prog' = prog, config' = config
  PROVE  /\ Taken \in Nat /\ Taken' = Taken /\ Taken' # tag' - 2 /\ Taken # tag - 2
         /\ prog[Taken] \in Operation /\ Taken \in 1 .. Len(prog) /\ config \in Configs
         /\ \A j : IsLatestLoad(j)' <=> IsLatestLoad(j)
         /\ Latest("LOAD_ACT", Taken)' = Latest("LOAD_ACT", Taken)
<1>1. Taken \in Nat /\ tag \in Nat
  BY TakenFacts
<1>2. Taken' = Taken /\ Taken = tag - 1 /\ tag' = tag /\ Taken \in 1 .. Len(prog)
  BY DEF Executing
<1>3. prog[Taken] \in Operation /\ config \in Configs
  BY <1>2, OperationFacts DEF CompositionInv
<1>4. \A j : IsLatestLoad(j)' <=> IsLatestLoad(j)
  BY <1>2 DEF IsLatestLoad
<1>5. Latest("LOAD_ACT", Taken)' = Latest("LOAD_ACT", Taken)
  BY <1>2 DEF Latest
<1>. QED
  BY <1>1, <1>2, <1>3, <1>4, <1>5

LEMMA StoreStep ==
  ASSUME CompositionInv, Held, DataInv, NEW beat, Executing(beat), NEW cmd,
         beat = None \/ stream # <<>>,
         ComputeEngineTick(cmd, beat), prog' = prog, config' = config,
         Store, UNCHANGED <<loadVars, tileVars>>
  PROVE  DataInv'
<1>1. state = "sStore" /\ state' \in {"sIdle", "sStore"} /\ actBram' = actBram
  BY DEF Store, loadVars
<1>2. stream = <<>> /\ stream' = <<>>
  BY <1>1, ExecutingFacts DEF DataInv, Armed, Executing, Dma
<1>3. Array' /\ Queued'
  BY <1>1, QuietQueues DEF DataInv
<1>4. Armed' /\ Loading' /\ Tiling'
  BY <1>1, <1>2, ExecutingFacts DEF Armed, Loading, Tiling
<1>5. Activations'
  BY <1>1, ExecutingFacts DEF DataInv, Activations, MaxN
<1>. QED
  BY <1>3, <1>4, <1>5 DEF DataInv

LEMMA LoadStep ==
  ASSUME CompositionInv, Held, DataInv, Fits(config, prog), NEW beat, Executing(beat), NEW cmd,
         beat = None \/ (stream # <<>> /\ beat = Head(stream)),
         ComputeEngineTick(cmd, beat), prog' = prog, config' = config, Load(beat)
  PROVE  DataInv'
<1>. DEFINE n == loadTotal
            k == loadBeat
<1>1. /\ state = "sLoad" /\ state' \in {"sLoad", "sIdle"} /\ loadTotal' = loadTotal
      /\ beat = None => state' = state /\ actBram' = actBram /\ loadBeat' = loadBeat
      /\ beat # None => /\ actBram' = [actBram EXCEPT ![k] = beat] /\ loadBeat' = k + 1
                        /\ state' = IF k + 1 = n THEN "sIdle" ELSE "sLoad"
  BY DEF Load, LoadDone
<1>2. /\ Taken' = Taken /\ Taken' # tag' - 2 /\ prog[Taken].op = "LOAD_ACT"
      /\ n = prog[Taken].dim0 /\ k \in 0 .. n - 1 /\ IsBeats(stream, Taken, n, k)
      /\ Taken \in 1 .. Len(prog) /\ Taken \in Nat
  BY <1>1, ExecutingFacts DEF DataInv, Loading
<1>3. n \in 1 .. MaxN /\ MaxN \in Nat /\ n \in Nat /\ k \in Nat
  <2>1. n \in 1 .. MaxN /\ MaxN \in Nat
    BY <1>2, ConfigFacts DEF Fits, CompositionInv, MaxN
  <2>. QED
    BY <1>2, <2>1
<1>4. Array' /\ Queued'
  BY <1>1, QuietQueues DEF DataInv
<1>5. stream' = IF beat # None THEN Tail(stream) ELSE stream
  BY <1>1 DEF Executing, Dma, StreamReady
<1>6. ASSUME NEW j \in 1 .. Taken, IsLatestLoad(j) PROVE j = Taken
  <2>1. j # Taken => Taken \in j + 1 .. Taken
    BY <1>2
  <2>. QED
    BY <1>2, <1>6, <2>1 DEF IsLatestLoad
<1>7. DOMAIN actBram = 0 .. MaxN - 1
  BY DEF DataInv, Activations
<1>8. IsLatestLoad(Taken)
  <2>1. Taken \in 1 .. Taken /\ \A i \in Taken + 1 .. Taken : FALSE
    BY <1>2
  <2>. QED
    BY <1>2, <2>1 DEF IsLatestLoad
<1>9. \A a \in 0 .. k - 1 : actBram[a] = <<Taken, a>>
  <2>1. Taken \in 1 .. Taken
    BY <1>2
  <2>. QED
    BY <1>1, <1>8, <2>1 DEF DataInv, Activations
<1>10. Tiling'
  BY <1>1 DEF Tiling
<1>11. CASE beat = None
  <2>1. Loading' /\ Armed'
    BY <1>1, <1>2, <1>5, <1>11 DEF Loading, Armed
  <2>2. Activations'
    BY <1>1, <1>2, <1>6, <1>7, <1>9, <1>11, ExecutingFacts DEF Activations, MaxN
  <2>. QED
    BY <1>4, <1>10, <2>1, <2>2 DEF DataInv
<1>12. CASE beat # None
  <2>1. /\ IsBeats(stream', Taken, n, k + 1) /\ beat = <<Taken, k>>
    <3>1. stream # <<>> /\ beat = Head(stream) /\ stream' = Tail(stream)
      BY <1>5, <1>12
    <3>2. n \in Nat /\ k \in Nat /\ IsBeats(stream, Taken, n, k)
      BY <1>2, <1>3
    <3>. HIDE DEF n, k
    <3>3. IsBeats(Tail(stream), Taken, n, k + 1) /\ Head(stream) = <<Taken, k>>
      BY <3>1, <3>2, BeatsTail
    <3>. QED
      BY <3>1, <3>3
  <2>2. k \in 0 .. MaxN - 1
    BY <1>2, <1>3
  <2>3. \A a \in 0 .. k : actBram'[a] = <<Taken, a>>
    <3>1. \A a \in 0 .. k : a \in DOMAIN actBram
      BY <1>3, <1>7, <2>2
    <3>2. \A a \in 0 .. k : a = k \/ a \in 0 .. k - 1
      BY <1>3
    <3>. QED
      BY <1>1, <1>9, <1>12, <2>1, <3>1, <3>2
  <2>4. DOMAIN actBram' = 0 .. MaxN - 1
    BY <1>1, <1>7, <1>12
  <2>5. CASE k + 1 = n
    <3>1. state' = "sIdle" /\ stream' = <<>>
      BY <1>1, <1>3, <1>12, <2>1, <2>5, NoBeatsLeft
    <3>2. Armed' /\ Loading'
      BY <1>2, <3>1 DEF Armed, Loading
    <3>3. Activations'
      <4>1. 0 .. n - 1 = 0 .. k
        BY <1>3, <2>5
      <4>. QED
        BY <1>2, <1>6, <2>3, <2>4, <3>1, <4>1, ExecutingFacts DEF Activations, MaxN
    <3>. QED
      BY <1>4, <1>10, <3>2, <3>3 DEF DataInv
  <2>6. CASE k + 1 # n
    <3>1. state' = "sLoad" /\ loadBeat' = k + 1 /\ k + 1 \in 0 .. n - 1
      BY <1>1, <1>2, <1>3, <1>12, <2>6
    <3>2. Armed' /\ Loading'
      BY <1>1, <1>2, <2>1, <3>1 DEF Armed, Loading
    <3>3. Activations'
      <4>1. 0 .. (k + 1) - 1 = 0 .. k
        BY <1>3
      <4>. QED
        BY <1>2, <1>6, <2>3, <2>4, <3>1, <4>1, ExecutingFacts DEF Activations, MaxN
    <3>. QED
      BY <1>4, <1>10, <3>2, <3>3 DEF DataInv
  <2>. QED
    BY <2>5, <2>6
<1>. QED
  BY <1>11, <1>12

-----------------------------------------------------------------------------
(* COMPUTE_MM in execution.                                                *)

\* A COMPUTE reads rows that its LOAD has written, and has a tile to sum up.
LEMMA ComputeFacts ==
  ASSUME CompositionInv, Held, DataInv, Fits(config, prog), state = "sCompute"
  PROVE  LET l == Latest("LOAD_ACT", Taken)
         IN /\ rows \in Nat /\ rows >= 2 /\ rows <= MaxN
            /\ tiles \in Nat /\ colTile \in 0 .. tiles - 1 /\ colTile \in Nat
            /\ l \in Nat /\ Taken \in Nat /\ \A a \in 0 .. rows - 1 : actBram[a] = <<l, a>>
            /\ Base \in Nat /\ Len(accum) \in Nat /\ Len(slice) \in Nat /\ Len(inQ) \in Nat
            /\ Fed \in Nat /\ tiles * rows \in Nat
<1>. DEFINE l == Latest("LOAD_ACT", Taken)
<1>1. Taken \in 1 .. Len(prog) /\ Taken \in Nat /\ Len(prog) \in Nat
  BY TakenFacts DEF CompositionInv, Operands
<1>2. prog[Taken] \in Operation /\ config \in Configs
  BY <1>1, OperationFacts DEF CompositionInv
<1>3. /\ prog[Taken].op = "COMPUTE_MM" /\ rows = prog[Taken].dim0
      /\ tiles = ColTiles(prog[Taken].dim1) /\ colTile \in 0 .. tiles - 1
      /\ cState \in {"cInit", "cStream", "cReset", "cDone"}
  BY DEF DataInv, Tiling
<1>4. PICK j \in 1 .. Taken - 1 :
        /\ prog[j].op = "LOAD_ACT" /\ prog[j].dim0 >= prog[Taken].dim0
        /\ \A k \in j + 1 .. Taken - 1 : prog[k].op # "LOAD_ACT"
  BY <1>1, <1>3 DEF Fits
<1>5. j \in 1 .. Taken /\ \A k \in j + 1 .. Taken : prog[k].op # "LOAD_ACT"
  <2>1. j \in 1 .. Taken
    BY <1>1
  <2>2. ASSUME NEW k \in j + 1 .. Taken PROVE prog[k].op # "LOAD_ACT"
    <3>1. k = Taken \/ k \in j + 1 .. Taken - 1
      BY <1>1, <2>1
    <3>. QED
      BY <1>3, <1>4, <3>1
  <2>. QED
    BY <2>1, <2>2
<1>6. l = j /\ IsLatestLoad(j)
  BY <1>1, <1>4, <1>5, LatestIs DEF IsLatestLoad
<1>7. rows \in Nat /\ rows >= 2 /\ rows <= prog[j].dim0 /\ prog[j].dim0 \in Nat
      /\ prog[j].dim0 <= MaxN
  <2>1. j \in 1 .. Len(prog)
    BY <1>1
  <2>2. prog[j] \in Operation
    BY <2>1, OperationFacts DEF CompositionInv
  <2>3. prog[j].dim0 \in 1 .. MaxN
    BY <1>4, <2>1 DEF Fits, MaxN
  <2>4. prog[Taken].dim0 >= 2
    BY <1>1, <1>3 DEF Fits
  <2>. QED
    BY <1>2, <1>3, <1>4, <2>2, <2>3, <2>4, ConfigFacts DEF Operation
<1>8. rows <= MaxN
  BY <1>2, <1>7, ConfigFacts
<1>9. \A a \in 0 .. rows - 1 : actBram[a] = <<l, a>>
  <2>1. \A a \in 0 .. prog[j].dim0 - 1 : actBram[a] = <<j, a>>
    BY <1>5, <1>6 DEF DataInv, Activations
  <2>2. \A a \in 0 .. rows - 1 : a \in 0 .. prog[j].dim0 - 1
    BY <1>7
  <2>. QED
    BY <1>6, <2>1, <2>2
<1>10. tiles \in Nat /\ colTile \in Nat
  <2>1. prog[Taken].dim1 \in Nat
    BY <1>2 DEF Operation
  <2>. QED
    BY <1>2, <1>3, <2>1, ConfigFacts
<1>11. Base \in Nat /\ tiles * rows \in Nat
  BY <1>7, <1>10 DEF Base
<1>12. Len(accum) \in Nat /\ Len(slice) \in Nat /\ Len(inQ) \in Nat
  BY PairsLen DEF DataInv, Queued
<1>13. Fed \in Nat
  BY <1>11, <1>12 DEF Fed
<1>14. l \in Nat
  BY <1>1, <1>6
<1>. QED
  BY <1>1, <1>3, <1>7, <1>8, <1>9, <1>10, <1>11, <1>12, <1>13, <1>14

\* The queues behind beat number k0: what the array takes leaves at the front, a
\* beat that is accepted joins at the back, and the register slice keeps the order.
LEMMA QueueStep ==
  ASSUME state = "sCompute", NEW c \in Nat, NEW l \in Nat, NEW N \in Nat \ {0}, NEW k0 \in Nat,
         IsPairs(slice, c, l, N, k0), IsPairs(inQ, c, l, N, k0 + Len(slice)),
         Len(slice) <= IF HasSlice THEN 1 ELSE 0, config' = config,
         NEW beat, Queues(beat),
         EnqFire(beat) => <<beat, actRd>> = Pair(c, l, N, k0 + Len(slice) + Len(inQ))
  PROVE  LET t == IF ArmTake THEN 1 ELSE 0
             f == IF EnqFire(beat) THEN 1 ELSE 0
         IN /\ IsPairs(slice', c, l, N, k0 + t)
            /\ IsPairs(inQ', c, l, N, k0 + t + Len(slice'))
            /\ k0 + t + Len(slice') + Len(inQ') = k0 + Len(slice) + Len(inQ) + f
            /\ Len(slice') \in Nat /\ Len(inQ') \in Nat
            /\ Len(slice') <= IF HasSlice' THEN 1 ELSE 0
<1>. DEFINE t    == IF ArmTake THEN 1 ELSE 0
            f    == IF EnqFire(beat) THEN 1 ELSE 0
            rest == IF InQTake THEN Tail(inQ) ELSE inQ
            P(q, k) == IsPairs(q, c, l, N, k)
<1>1. /\ inQ' = IF EnqFire(beat) THEN Append(rest, <<beat, actRd>>) ELSE rest
      /\ slice' = IF HasSlice /\ InQTake THEN <<Head(inQ)>> ELSE IF ArmTake THEN <<>> ELSE slice
      /\ HasSlice' = HasSlice
  BY DEF Queues, HasSlice, Batch
<1>2. Len(slice) \in Nat /\ Len(inQ) \in Nat
  BY PairsLen
<1>3. slice # <<>> <=> Len(slice) = 1
  <2>1. Len(slice) = 0 <=> slice = <<>>
    BY PairsLen
  <2>2. Len(slice) <= 1
    BY <1>2
  <2>3. Len(slice) = 0 \/ Len(slice) = 1
    <3>1. \A n \in Nat : n <= 1 => n = 0 \/ n = 1
      OBVIOUS
    <3>. QED
      BY <1>2, <2>2, <3>1, ZenonT(40)
  <2>4. \A n \in Nat : n = 0 => n # 1
    OBVIOUS
  <2>. QED
    BY <1>2, <2>1, <2>3, <2>4, Zenon
<1>4. inQ # <<>> => /\ P(Tail(inQ), k0 + Len(slice) + 1) /\ Len(Tail(inQ)) = Len(inQ) - 1
                    /\ Head(inQ) = Pair(c, l, N, k0 + Len(slice)) /\ Len(inQ) \in Nat \ {0}
  <2>1. k0 + Len(slice) \in Nat
    BY <1>2
  <2>. QED
    BY <2>1, PairsTail
<1>5. ASSUME NEW k \in Nat PROVE P(<<Pair(c, l, N, k)>>, k)
  <2>1. Pair(c, l, N, k) \in (Nat \X Nat) \X (Nat \X Nat)
    BY PairType
  <2>2. \A i \in 1 .. 1 : k + i - 1 = k
    OBVIOUS
  <2>. QED
    BY <2>1, <2>2 DEF IsPairs
<1>6. /\ P(slice', k0 + t) /\ P(rest, k0 + t + Len(slice'))
      /\ k0 + t + Len(slice') + Len(rest) = k0 + Len(slice) + Len(inQ)
      /\ Len(slice') \in Nat /\ Len(rest) \in Nat
      /\ Len(slice') <= IF HasSlice THEN 1 ELSE 0
  <2>1. ArmTake => ArmSrc # <<>>
    BY DEF ArmTake
  <2>2. CASE HasSlice /\ InQTake /\ ArmTake
    <3>1. Len(slice) = 1 /\ inQ # <<>> /\ slice' = <<Head(inQ)>> /\ t = 1 /\ rest = Tail(inQ)
      BY <1>1, <1>3, <2>1, <2>2 DEF ArmSrc, InQTake
    <3>2. P(slice', k0 + 1) /\ Len(slice') = 1
      BY <1>4, <1>5, <3>1
    <3>3. k0 + t + Len(slice') = k0 + Len(slice) + 1
      BY <1>2, <3>1, <3>2
    <3>. QED
      BY <1>2, <1>4, <2>2, <3>1, <3>2, <3>3
  <2>3. CASE HasSlice /\ InQTake /\ ~ArmTake
    <3>1. slice = <<>> /\ Len(slice) = 0 /\ inQ # <<>> /\ slice' = <<Head(inQ)>> /\ t = 0
          /\ rest = Tail(inQ)
      BY <1>1, <2>3 DEF InQTake, SliceReady
    <3>2. P(slice', k0) /\ Len(slice') = 1
      BY <1>4, <1>5, <3>1
    <3>3. k0 + t + Len(slice') = k0 + Len(slice) + 1 /\ k0 + t = k0
      BY <1>2, <3>1, <3>2
    <3>. QED
      BY <1>2, <1>4, <2>3, <3>1, <3>2, <3>3
  <2>4. CASE ~InQTake /\ ArmTake
    <3>1. HasSlice /\ slice # <<>>
      BY <2>1, <2>4 DEF ArmSrc, InQTake
    <3>2. Len(slice) = 1 /\ slice' = <<>> /\ Len(slice') = 0 /\ t = 1 /\ rest = inQ
      BY <1>1, <1>3, <2>4, <3>1
    <3>3. k0 + t + Len(slice') = k0 + Len(slice)
      BY <3>2
    <3>4. P(slice', k0 + t) /\ P(rest, k0 + t + Len(slice'))
      BY <3>2, <3>3, PairsNone
    <3>5. k0 + t + Len(slice') + Len(rest) = k0 + Len(slice) + Len(inQ)
      BY <3>2, <3>3
    <3>6. Len(slice') \in Nat /\ Len(rest) \in Nat /\ Len(slice') <= 1
      BY <1>2, <3>2
    <3>. QED
      BY <3>1, <3>4, <3>5, <3>6
  <2>5. CASE ~InQTake /\ ~ArmTake
    <3>1. slice' = slice /\ t = 0 /\ rest = inQ
      BY <1>1, <2>5
    <3>2. k0 + t = k0
      BY <3>1
    <3>. QED
      BY <1>2, <3>1, <3>2
  <2>6. CASE ~HasSlice /\ InQTake
    <3>1. ArmTake /\ inQ # <<>> /\ Len(slice) = 0 /\ t = 1 /\ rest = Tail(inQ)
      BY <1>2, <2>6 DEF InQTake
    <3>2. slice' = <<>> /\ Len(slice') = 0
      BY <1>1, <2>6, <3>1
    <3>3. k0 + t + Len(slice') = k0 + Len(slice) + 1
      BY <1>2, <3>1, <3>2
    <3>. QED
      BY <1>2, <1>4, <2>6, <3>1, <3>2, <3>3, PairsNone
  <2>. QED
    BY <2>2, <2>3, <2>4, <2>5, <2>6
<1>7. CASE ~EnqFire(beat)
  <2>1. inQ' = rest /\ f = 0
    BY <1>1, <1>7
  <2>2. k0 + Len(slice) + Len(inQ) + f = k0 + Len(slice) + Len(inQ)
    BY <1>2, <2>1
  <2>. QED
    BY <1>1, <1>6, <2>1, <2>2
<1>8. CASE EnqFire(beat)
  <2>. DEFINE k1 == k0 + t + Len(slice')
  <2>1. f = 1 /\ k1 \in Nat /\ P(rest, k1) /\ Len(rest) \in Nat
        /\ k1 + Len(rest) = k0 + Len(slice) + Len(inQ)
    <3>1. t \in Nat /\ f = 1
      BY <1>8
    <3>. HIDE DEF rest, t, f
    <3>. QED
      BY <1>6, <3>1
  <2>2. inQ' = Append(rest, Pair(c, l, N, k1 + Len(rest)))
    BY <1>1, <2>1, <1>8
  <2>3. P(inQ', k1) /\ Len(inQ') = Len(rest) + 1
    <3>. HIDE DEF rest, k1
    <3>. QED
      BY <2>1, <2>2, PairsAppend
  <2>4. k1 + Len(inQ') = k0 + Len(slice) + Len(inQ) + f /\ Len(inQ') \in Nat
    <3>. HIDE DEF rest, k1
    <3>. QED
      BY <1>2, <2>1, <2>3, SMTT(40)
  <2>. QED
    BY <1>1, <1>6, <2>3, <2>4
<1>. QED
  BY <1>7, <1>8

\* The array while a tile streams: it takes a pair whenever one is at its pins,
\* until it has summed up rows of them, and lets go of the tile when the drain
\* engine captures it.
LEMMA ArrayStream ==
  ASSUME config \in Configs, Streaming, Array, NEW cmd, NEW beat, ComputeEngineTick(cmd, beat),
         rows \in Nat, rows >= 2, rows <= MaxN, Len(accum) \in Nat,
         ArmSrc # <<>> => Head(ArmSrc)[1] # None /\ Head(ArmSrc)[2] # None
                          /\ Head(ArmSrc) = <<Head(ArmSrc)[1], Head(ArmSrc)[2]>>
  PROVE  /\ Capture => /\ accum' = <<>> /\ peState' = "idle" /\ peCount' = 0
                       /\ arrState' \in FsmState /\ ~ArmTake /\ Len(accum) = rows
         /\ ArmTake => /\ ~Capture /\ accum' = Append(accum, Head(ArmSrc))
                       /\ arrState' = "running" /\ peLast' = rows - 1 /\ ArmSrc # <<>>
                       /\ \/ peState' = "running" /\ peCount' = Len(accum) + 1
                             /\ Len(accum) + 1 \in 1 .. rows - 1
                          \/ peState' = "done" /\ Len(accum) + 1 = rows
         /\ ~ArmTake /\ ~Capture =>
              /\ accum' = accum /\ peState' = peState /\ peCount' = peCount
              /\ IF peState = "done" THEN arrState' = "done"
                                     ELSE arrState' = arrState /\ peLast' = peLast
<1>. DEFINE in == ArrayIn
<1>1. /\ MaxN \in Nat \ {0} /\ MaxAcc \in Nat /\ MaxAcc >= 2 /\ MaxN <= MaxAcc
      /\ NAccMod \in Nat /\ NAccMod >= MaxAcc
  BY ConfigFacts
<1>2. rows # None
  BY SystemAssumption
<1>3. ~in.reset /\ in.outReady = Capture
  BY DEF ArrayIn, LocalReset, Streaming
<1>4. ArrayTick(in) /\ ArrayFSM(in) /\ (PeIdle(in) \/ PeRunning(in) \/ PeDone(in))
  BY <1>3 DEF ComputeEngineTick, ArrayTick
<1>5. CASE peState = "done"
  <2>1. OutPending /\ ~ArmTake /\ arrState \in {"running", "done"} /\ Len(accum) = rows
    BY <1>5 DEF OutPending, OutputValid, ArmTake, Array, FsmState
  <2>2. in.weight = None
    BY <2>1 DEF ArrayIn
  <2>3. ~Latching(in) /\ PeDone(in)
    BY <1>4, <1>5, <2>2 DEF Latching, BothValid, PeIdle, PeRunning
  <2>4. CASE Capture
    BY <1>3, <1>4, <1>5, <2>1, <2>3, <2>4 DEF PeDone, ArrayFSM, OutputValid, FsmState
  <2>5. CASE ~Capture
    BY <1>3, <1>4, <1>5, <2>1, <2>3, <2>5 DEF PeDone, ArrayFSM, OutputValid, FsmState
  <2>. QED
    BY <2>4, <2>5
<1>6. CASE peState # "done"
  <2>1. ~OutPending /\ ~Capture /\ ~OutputValid
    BY <1>6 DEF OutPending, OutputValid, Capture
  <2>2. /\ peState = "idle" /\ arrState = "idle" /\ accum = <<>> /\ peCount = 0
        \/ /\ peState = "running" /\ arrState = "running" /\ peLast = rows - 1
           /\ peCount = Len(accum) /\ Len(accum) \in 1 .. rows - 1
    BY <1>6 DEF Array, FsmState, Streaming
  <2>3. CASE ArmSrc = <<>>
    <3>1. in.weight = None /\ in.act = None /\ ~ArmTake
      BY <2>3 DEF ArrayIn, ArmTake
    <3>2. ~Latching(in) /\ ~ArrayStep(in)
      BY <3>1 DEF Latching, BothValid, ArrayStep
    <3>. QED
      BY <1>4, <1>6, <2>1, <2>2, <3>1, <3>2 DEF PeIdle, PeRunning, PeDone, ArrayFSM
  <2>4. CASE ArmSrc # <<>>
    <3>. DEFINE h == Head(ArmSrc)
    <3>1. /\ in.weight = h[1] /\ in.act = h[2] /\ in.nAcc = rows
          /\ in.weight # None /\ in.act # None /\ h = <<in.weight, in.act>>
      BY <2>1, <2>4 DEF ArrayIn
    <3>. HIDE DEF h
    <3>2. BothValid(in) /\ (Latching(in) <=> arrState = "idle") /\ ArrayStep(in)
      BY <1>2, <2>2, <3>1 DEF Latching, BothValid, ArrayStep
    <3>3. ArmTake
      BY <2>1, <2>2, <2>4, <3>1, <3>2 DEF ArmTake, WeightReady
    <3>4. CASE peState = "idle"
      <4>1. /\ peLast' = (rows + NAccMod - 1) % NAccMod /\ accum' = Append(accum, h)
            /\ peCount' = (peCount + 1) % MaxAcc /\ peState' = "running"
            /\ arrState' = "running"
        BY <1>4, <2>2, <3>1, <3>2, <3>4 DEF PeIdle, PeRunning, PeDone, ArrayFSM, Counted
      <4>2. (rows + NAccMod - 1) % NAccMod = rows - 1
        <5>1. rows + NAccMod - 1 = NAccMod * 1 + (rows - 1) /\ rows - 1 \in 0 .. NAccMod - 1
          BY <1>1
        <5>2. NAccMod \in Nat \ {0} /\ 1 \in Nat
          BY <1>1
        <5>. QED
          BY <5>1, <5>2, ModIs
      <4>3. (peCount + 1) % MaxAcc = 1 /\ Len(accum) = 0 /\ peCount = 0
        BY <1>1, <2>2, <3>4
      <4>4. 1 \in 1 .. rows - 1 /\ Len(accum) + 1 = 1
        BY <4>3
      <4>. QED
        BY <2>1, <2>4, <3>3, <4>1, <4>2, <4>3, <4>4 DEF h
    <3>5. CASE peState = "running"
      <4>1. /\ accum' = Append(accum, h) /\ peCount' = (peCount + 1) % MaxAcc
            /\ peState' = (IF peCount = peLast THEN "done" ELSE peState) /\ peLast' = peLast
        BY <1>4, <3>1, <3>2, <3>5 DEF PeIdle, PeRunning, PeDone, Counted
      <4>2. arrState' = "running" /\ peLast = rows - 1 /\ peCount = Len(accum)
            /\ Len(accum) \in 1 .. rows - 1
        BY <1>4, <2>1, <2>2, <3>2, <3>5 DEF ArrayFSM
      <4>3. CASE peCount = peLast
        <5>1. peState' = "done" /\ Len(accum) + 1 = rows
          BY <4>1, <4>2, <4>3
        <5>. QED
          BY <2>1, <2>4, <3>3, <4>1, <4>2, <5>1 DEF h
      <4>4. CASE peCount # peLast
        <5>1. Len(accum) + 1 \in 1 .. rows - 1 /\ Len(accum) + 1 < MaxAcc /\ Len(accum) + 1 \in Nat
          BY <1>1, <4>2, <4>4
        <5>2. (Len(accum) + 1) % MaxAcc = Len(accum) + 1
          <6>1. MaxAcc \in Nat \ {0}
            BY <1>1
          <6>. QED
            BY <5>1, <6>1, ModBelow
        <5>. QED
          BY <2>1, <2>4, <3>3, <3>5, <4>1, <4>2, <4>4, <5>1, <5>2 DEF h
      <4>. QED
        BY <4>3, <4>4
    <3>. QED
      BY <2>2, <3>4, <3>5
  <2>. QED
    BY <2>3, <2>4
<1>. QED
  BY <1>5, <1>6

LEMMA ArmHead ==
  ASSUME NEW c \in Nat, NEW l \in Nat, NEW N \in Nat \ {0}, NEW k0 \in Nat,
         IsPairs(slice, c, l, N, k0), IsPairs(inQ, c, l, N, k0 + Len(slice)),
         Len(slice) <= IF HasSlice THEN 1 ELSE 0, ArmSrc # <<>>
  PROVE  /\ Head(ArmSrc) = Pair(c, l, N, k0)
         /\ Head(ArmSrc)[1] # None /\ Head(ArmSrc)[2] # None
         /\ Head(ArmSrc) = <<Head(ArmSrc)[1], Head(ArmSrc)[2]>>
<1>1. Head(ArmSrc) = Pair(c, l, N, k0)
  <2>1. CASE HasSlice
    <3>1. ArmSrc = slice /\ slice # <<>>
      BY <2>1 DEF ArmSrc
    <3>. QED
      BY <3>1, PairsTail
  <2>2. CASE ~HasSlice
    <3>1. ArmSrc = inQ /\ inQ # <<>>
      BY <2>2 DEF ArmSrc
    <3>2. Len(slice) \in Nat /\ Len(slice) <= 0
      BY <2>2, PairsLen
    <3>3. k0 + Len(slice) = k0
      BY <3>2
    <3>. QED
      BY <3>1, <3>3, PairsTail
  <2>. QED
    BY <2>1, <2>2
<1>2. k0 % N \in Nat
  BY ModRange
<1>3. /\ Pair(c, l, N, k0)[1] = <<c, k0>> /\ Pair(c, l, N, k0)[2] = <<l, k0 % N>>
      /\ <<c, k0>> \in Nat \X Nat /\ <<l, k0 % N>> \in Nat \X Nat
      /\ Pair(c, l, N, k0) = <<<<c, k0>>, <<l, k0 % N>>>>
  BY <1>2 DEF Pair
<1>. QED
  BY <1>1, <1>3, SystemAssumption

\* While tiles stream or the array is reset between them the input side fills the
\* queues; given what the array does, everything keeps its place.
LEMMA FillStep ==
  ASSUME CompositionInv, Held, DataInv, Fits(config, prog), NEW beat, Executing(beat), NEW cmd,
         beat = None \/ (stream # <<>> /\ beat = Head(stream)),
         ComputeEngineTick(cmd, beat), prog' = prog, config' = config, Compute, Filling,
         Array', state' = "sCompute", cState' \in {"cStream", "cReset", "cDone"},
         colTile' \in 0 .. tiles - 1, cState' = "cDone" => colTile' + 1 = tiles,
         IsPairs(accum', Taken, Latest("LOAD_ACT", Taken), rows, Base'),
         Base' \in Nat, Base' + Len(accum') = Base + Len(accum) + IF ArmTake THEN 1 ELSE 0
  PROVE  DataInv'
<1>. DEFINE l  == Latest("LOAD_ACT", Taken)
            k0 == Base + Len(accum)
            T  == tiles * rows
            t  == IF ArmTake THEN 1 ELSE 0
            f  == IF EnqFire(beat) THEN 1 ELSE 0
<1>1. /\ state = "sCompute" /\ cState \in {"cStream", "cReset"}
      /\ rows' = rows /\ tiles' = tiles /\ actBram' = actBram
  BY DEF Filling, Compute, loadVars
<1>2. /\ rows \in Nat /\ rows >= 2 /\ rows <= MaxN /\ tiles \in Nat
      /\ l \in Nat /\ Taken \in Nat /\ \A a \in 0 .. rows - 1 : actBram[a] = <<l, a>>
      /\ Base \in Nat /\ Len(accum) \in Nat /\ Len(slice) \in Nat /\ Len(inQ) \in Nat
      /\ Fed \in Nat /\ T \in Nat
  BY <1>1, ComputeFacts
<1>3. k0 \in Nat /\ rows \in Nat \ {0} /\ Fed = k0 + Len(slice) + Len(inQ)
  <2>1. k0 \in Nat /\ rows \in Nat \ {0}
    BY <1>2
  <2>2. Fed = k0 + Len(slice) + Len(inQ)
    BY DEF Fed
  <2>. QED
    BY <2>1, <2>2
<1>4. /\ IsPairs(slice, Taken, l, rows, k0) /\ IsPairs(inQ, Taken, l, rows, k0 + Len(slice))
      /\ Len(slice) <= IF HasSlice THEN 1 ELSE 0
      /\ activeIdx = Fed % rows /\ actRd = actBram[activeIdx]
  BY <1>1 DEF DataInv, Queued
<1>5. /\ Fed <= T /\ IsBeats(stream, Taken, T, Fed)
      /\ prog[Taken].op = "COMPUTE_MM"
      /\ rows = prog[Taken].dim0 /\ tiles = ColTiles(prog[Taken].dim1)
  BY <1>1 DEF DataInv, Tiling
<1>6. Fed % rows \in 0 .. rows - 1
  BY <1>2, <1>3, ModRange
<1>7. /\ Taken' = Taken /\ Taken' # tag' - 2 /\ l' = l
      /\ \A j : IsLatestLoad(j)' <=> IsLatestLoad(j)
  BY ExecutingFacts
<1>. HIDE DEF l, k0, T
<1>8. EnqFire(beat) => stream # <<>> /\ beat = Head(stream) /\ beat = <<Taken, Fed>>
  <2>1. EnqFire(beat) => stream # <<>> /\ beat = Head(stream)
    BY DEF EnqFire
  <2>2. stream # <<>> => Head(stream) = <<Taken, Fed>>
    <3>1. Fed \in Nat /\ T \in Nat /\ IsBeats(stream, Taken, T, Fed)
      BY <1>2, <1>5
    <3>. QED
      BY <3>1, BeatsTail, ZenonT(40)
  <2>. QED
    BY <2>1, <2>2
<1>9. EnqFire(beat) => <<beat, actRd>> = Pair(Taken, l, rows, k0 + Len(slice) + Len(inQ))
  <2>1. actRd = <<l, Fed % rows>>
    BY <1>2, <1>4, <1>6
  <2>. QED
    BY <1>3, <1>8, <2>1 DEF Pair
<1>10. /\ IsPairs(slice', Taken, l, rows, k0 + t)
       /\ IsPairs(inQ', Taken, l, rows, k0 + t + Len(slice'))
       /\ k0 + t + Len(slice') + Len(inQ') = k0 + Len(slice) + Len(inQ) + f
       /\ Len(slice') \in Nat /\ Len(inQ') \in Nat
       /\ Len(slice') <= IF HasSlice' THEN 1 ELSE 0
  <2>1. Queues(beat)
    BY DEF ComputeEngineTick
  <2>2. /\ state = "sCompute" /\ Taken \in Nat /\ l \in Nat /\ rows \in Nat \ {0} /\ k0 \in Nat
        /\ IsPairs(slice, Taken, l, rows, k0) /\ IsPairs(inQ, Taken, l, rows, k0 + Len(slice))
        /\ Len(slice) <= IF HasSlice THEN 1 ELSE 0
    BY <1>1, <1>2, <1>3, <1>4
  <2>. QED
    BY <1>9, <2>1, <2>2, QueueStep
<1>11. Base' + Len(accum') = k0 + t
  BY DEF k0
<1>12. Fed' = Fed + f
  BY <1>3, <1>10, <1>11 DEF Fed
<1>13. Fed' <= T /\ IsBeats(stream', Taken, T, Fed')
  <2>1. StreamReady <=> Len(inQ) < InQDepth
    BY <1>1 DEF StreamReady
  <2>2. stream' = IF EnqFire(beat) THEN Tail(stream) ELSE stream
    BY <2>1 DEF Executing, Dma, EnqFire
  <2>3. CASE EnqFire(beat)
    BY <1>2, <1>5, <1>8, <1>12, <2>2, <2>3, BeatsTail
  <2>4. CASE ~EnqFire(beat)
    <3>1. Fed' = Fed
      BY <1>2, <1>12, <2>4
    <3>. QED
      BY <1>5, <2>2, <2>4, <3>1
  <2>. QED
    BY <2>3, <2>4
<1>14. activeIdx' = Fed' % rows /\ actRd' = actBram[activeIdx']
  <2>1. activeIdx' = IF EnqFire(beat) THEN NextRow ELSE activeIdx
    BY <1>1 DEF ComputeEngineTick, ActRead, Starting
  <2>2. actRd' = actBram[activeIdx']
    BY <2>1 DEF ComputeEngineTick, ActRead
  <2>3. CASE EnqFire(beat)
    BY <1>2, <1>3, <1>4, <1>12, <2>1, <2>2, <2>3, NextMod DEF NextRow
  <2>4. CASE ~EnqFire(beat)
    <3>1. Fed' = Fed
      BY <1>2, <1>12, <2>4
    <3>. QED
      BY <1>4, <2>1, <2>2, <2>4, <3>1
  <2>. QED
    BY <2>3, <2>4
<1>15. Queued'
  BY <1>1, <1>7, <1>10, <1>11, <1>14 DEF Queued, l
<1>16. Tiling'
  <2>1. (ColTiles(prog[Taken].dim1))' = ColTiles(prog[Taken].dim1)
    BY <1>7 DEF ColTiles
  <2>. QED
    BY <1>1, <1>5, <1>7, <1>13, <2>1 DEF Tiling, T
<1>17. Armed' /\ Loading'
  BY <1>7 DEF Armed, Loading
<1>18. Activations'
  BY <1>1, <1>7 DEF DataInv, Activations, MaxN
<1>. QED
  BY <1>15, <1>16, <1>17, <1>18 DEF DataInv

LEMMA StreamStep ==
  ASSUME CompositionInv, Held, DataInv, Fits(config, prog), NEW beat, Executing(beat), NEW cmd,
         beat = None \/ (stream # <<>> /\ beat = Head(stream)),
         ComputeEngineTick(cmd, beat), prog' = prog, config' = config, Compute,
         cState = "cStream"
  PROVE  DataInv'
<1>. DEFINE l  == Latest("LOAD_ACT", Taken)
            k0 == Base + Len(accum)
<1>1. /\ state = "sCompute" /\ state' = "sCompute" /\ Filling /\ Streaming
      /\ cState' = (IF Capture THEN "cReset" ELSE "cStream") /\ colTile' = colTile /\ rows' = rows
      /\ tiles' = tiles
  BY DEF Filling, Streaming, Compute, ComputeInit, ComputeStream, ComputeReset, ComputeFinish
<1>2. /\ rows \in Nat /\ rows >= 2 /\ rows <= MaxN /\ tiles \in Nat /\ colTile \in 0 .. tiles - 1
      /\ colTile \in Nat /\ l \in Nat /\ Taken \in Nat
      /\ Base \in Nat /\ Len(accum) \in Nat /\ config \in Configs
  BY <1>1, ComputeFacts, ExecutingFacts
<1>3. /\ IsPairs(accum, Taken, l, rows, Base) /\ IsPairs(slice, Taken, l, rows, k0)
      /\ IsPairs(inQ, Taken, l, rows, k0 + Len(slice))
      /\ Len(slice) <= IF HasSlice THEN 1 ELSE 0
  BY <1>1 DEF DataInv, Queued
<1>4. Array
  BY DEF DataInv
<1>. HIDE DEF l
<1>5. ArmSrc # <<>> => /\ Head(ArmSrc) = Pair(Taken, l, rows, k0)
                       /\ Head(ArmSrc)[1] # None /\ Head(ArmSrc)[2] # None
                       /\ Head(ArmSrc) = <<Head(ArmSrc)[1], Head(ArmSrc)[2]>>
  <2>1. k0 \in Nat /\ rows \in Nat \ {0}
    BY <1>2
  <2>. QED
    BY <1>2, <1>3, <2>1, ArmHead
<1>6. CASE Capture
  <2>1. /\ accum' = <<>> /\ peState' = "idle" /\ peCount' = 0 /\ arrState' \in FsmState
        /\ ~ArmTake /\ Len(accum) = rows
    BY <1>1, <1>2, <1>4, <1>5, <1>6, ArrayStream
  <2>2. Base = colTile * rows /\ Base' = (colTile + 1) * rows
    BY <1>1, <1>6 DEF Base
  <2>3. Base' \in Nat /\ Base' = Base + rows
    BY <1>2, <2>2
  <2>4. Len(accum') = 0
    BY <2>1
  <2>5. Base' + Len(accum') = Base + Len(accum) + IF ArmTake THEN 1 ELSE 0
    BY <1>2, <2>1, <2>3, <2>4
  <2>6. Array'
    BY <1>1, <1>6, <2>1 DEF Array, FsmState
  <2>7. IsPairs(accum', Taken, l, rows, Base')
    BY <2>1, PairsNone
  <2>. QED
    BY <1>1, <1>2, <1>6, <2>3, <2>5, <2>6, <2>7, FillStep DEF l
<1>7. CASE ~Capture
  <2>1. Base' = Base /\ cState' = "cStream"
    BY <1>1, <1>7 DEF Base
  <2>2. Streaming'
    BY <1>1, <2>1 DEF Streaming
  <2>3. CASE ArmTake
    <3>1. /\ accum' = Append(accum, Head(ArmSrc))
          /\ arrState' = "running" /\ peLast' = rows - 1 /\ ArmSrc # <<>>
          /\ \/ peState' = "running" /\ peCount' = Len(accum) + 1
                /\ Len(accum) + 1 \in 1 .. rows - 1
             \/ peState' = "done" /\ Len(accum) + 1 = rows
      BY <1>1, <1>2, <1>4, <1>5, <2>3, ArrayStream
    <3>2. accum' = Append(accum, Pair(Taken, l, rows, Base + Len(accum)))
      BY <1>5, <3>1
    <3>3. IsPairs(accum', Taken, l, rows, Base) /\ Len(accum') = Len(accum) + 1
      <4>1. rows \in Nat \ {0}
        BY <1>2
      <4>. QED
        BY <1>2, <1>3, <3>2, <4>1, PairsAppend
    <3>4. Base' + Len(accum') = Base + Len(accum) + IF ArmTake THEN 1 ELSE 0
      BY <1>2, <2>1, <2>3, <3>3
    <3>5. Array'
      BY <1>1, <2>2, <3>1, <3>3 DEF Array, FsmState
    <3>. QED
      BY <1>1, <1>2, <2>1, <3>3, <3>4, <3>5, FillStep DEF l
  <2>4. CASE ~ArmTake
    <3>1. /\ accum' = accum /\ peState' = peState /\ peCount' = peCount
          /\ IF peState = "done" THEN arrState' = "done"
                                 ELSE arrState' = arrState /\ peLast' = peLast
      BY <1>1, <1>2, <1>4, <1>5, <1>7, <2>4, ArrayStream
    <3>2. Base' + Len(accum') = Base + Len(accum) + IF ArmTake THEN 1 ELSE 0
      BY <1>2, <2>1, <2>4, <3>1
    <3>3. Array'
      BY <1>1, <1>4, <2>1, <2>2, <3>1 DEF Array, FsmState
    <3>. QED
      BY <1>1, <1>2, <1>3, <2>1, <3>1, <3>2, <3>3, FillStep DEF l
  <2>. QED
    BY <2>3, <2>4
<1>. QED
  BY <1>6, <1>7

LEMMA ResetStep ==
  ASSUME CompositionInv, Held, DataInv, Fits(config, prog), NEW beat, Executing(beat), NEW cmd,
         beat = None \/ (stream # <<>> /\ beat = Head(stream)),
         ComputeEngineTick(cmd, beat), prog' = prog, config' = config, Compute,
         cState = "cReset"
  PROVE  DataInv'
<1>. DEFINE l == Latest("LOAD_ACT", Taken)
<1>1. /\ state = "sCompute" /\ state' = "sCompute" /\ Filling /\ ~Streaming /\ ComputeReset
      /\ rows' = rows /\ tiles' = tiles
  BY DEF Filling, Streaming, Compute, ComputeInit, ComputeStream, ComputeReset, ComputeFinish
<1>2. /\ rows \in Nat /\ tiles \in Nat /\ colTile \in 0 .. tiles - 1 /\ colTile \in Nat
      /\ Base \in Nat
  BY <1>1, ComputeFacts
<1>3. peState = "idle" /\ accum = <<>>
  BY <1>1 DEF DataInv, Array, FsmState
<1>4. ~ArmTake
  BY <1>1 DEF ArmTake
<1>5. peState' = "idle" /\ peCount' = 0 /\ accum' = <<>> /\ arrState' = "idle"
  <2>1. ArrayIn.reset
    BY <1>1 DEF ArrayIn, LocalReset
  <2>. QED
    BY <2>1 DEF ComputeEngineTick, ArrayTick, ArrayReset
<1>6. /\ cState' \in {"cStream", "cDone"} /\ colTile' \in 0 .. tiles - 1
      /\ cState' = "cDone" => colTile' + 1 = tiles
      /\ Base' = Base
  <2>1. Base = (colTile + 1) * rows
    BY <1>1 DEF Base, Filling, ComputeReset
  <2>2. CASE LastTile
    <3>1. cState' = "cDone" /\ colTile' = colTile /\ colTile + 1 = tiles
      BY <1>1, <2>2 DEF ComputeReset, LastTile
    <3>. QED
      BY <1>1, <1>2, <2>1, <3>1 DEF Base
  <2>3. CASE ~LastTile
    <3>1. cState' = "cStream" /\ colTile' = colTile + 1 /\ colTile + 1 # tiles
      BY <1>1, <2>3 DEF ComputeReset, LastTile
    <3>2. colTile + 1 \in 0 .. tiles - 1
      BY <1>2, <3>1
    <3>. QED
      BY <1>1, <2>1, <3>1, <3>2 DEF Base
  <2>. QED
    BY <2>2, <2>3
<1>7. Array'
  BY <1>5 DEF Array, FsmState
<1>8. Base' + Len(accum') = Base + Len(accum) + IF ArmTake THEN 1 ELSE 0
  <2>1. Len(accum) = 0 /\ Len(accum') = 0
    BY <1>3, <1>5
  <2>. QED
    BY <1>2, <1>4, <1>6, <2>1
<1>9. IsPairs(accum', Taken, l, rows, Base')
  BY <1>5, PairsNone
<1>. QED
  BY <1>1, <1>2, <1>6, <1>7, <1>8, <1>9, FillStep

LEMMA InitStep ==
  ASSUME CompositionInv, Held, DataInv, Fits(config, prog), NEW beat, Executing(beat), NEW cmd,
         ComputeEngineTick(cmd, beat), prog' = prog, config' = config, Compute,
         cState = "cInit"
  PROVE  DataInv'
<1>. DEFINE l == Latest("LOAD_ACT", Taken)
<1>1. /\ state = "sCompute" /\ state' = "sCompute" /\ ~Filling /\ cState' = "cStream"
      /\ colTile' = colTile /\ rows' = rows /\ tiles' = tiles /\ actBram' = actBram
  BY DEF Filling, Compute, ComputeInit, ComputeStream, ComputeReset, ComputeFinish, loadVars
<1>2. colTile = 0 /\ accum = <<>> /\ slice = <<>> /\ inQ = <<>>
  BY <1>1 DEF DataInv, Tiling, Queued
<1>3. QuietNext
  BY <1>1, <1>2, QuietTick DEF DataInv, QuietNext
<1>4. rows \in Nat \ {0}
  BY <1>1, ComputeFacts
<1>5. Base = 0 /\ Base' = 0 /\ Fed = 0 /\ Fed' = 0
  <2>1. 0 * rows = 0
    BY <1>4, Zero
  <2>2. Base = 0 /\ Base' = 0
    BY <1>1, <1>2, <2>1 DEF Base
  <2>3. Len(accum) = 0 /\ Len(slice) = 0 /\ Len(inQ) = 0
        /\ Len(accum') = 0 /\ Len(slice') = 0 /\ Len(inQ') = 0
    BY <1>2, <1>3 DEF QuietNext
  <2>. QED
    BY <2>2, <2>3 DEF Fed
<1>6. /\ Taken' = Taken /\ Taken' # tag' - 2 /\ l' = l
      /\ \A j : IsLatestLoad(j)' <=> IsLatestLoad(j)
  BY ExecutingFacts
<1>7. stream' = stream
  BY <1>1 DEF Executing, Dma, StreamReady
<1>8. Array'
  BY <1>3 DEF QuietNext, Array, FsmState
<1>9. Tiling'
  <2>1. (ColTiles(prog[Taken].dim1))' = ColTiles(prog[Taken].dim1)
    BY <1>6 DEF ColTiles
  <2>. QED
    BY <1>1, <1>5, <1>6, <1>7, <2>1 DEF DataInv, Tiling
<1>10. Queued'
  <2>1. activeIdx' = 0 /\ actRd' = actBram[0]
    BY <1>1 DEF ComputeEngineTick, ActRead
  <2>2. 0 % rows = 0
    BY <1>4, Zero
  <2>3. Len(slice') <= IF HasSlice' THEN 1 ELSE 0
    BY <1>3 DEF QuietNext
  <2>. QED
    BY <1>1, <1>3, <1>5, <2>1, <2>2, <2>3, PairsNone DEF Queued, QuietNext
<1>11. Armed' /\ Loading'
  BY <1>1, <1>6 DEF Armed, Loading
<1>12. Activations'
  BY <1>1, <1>6 DEF DataInv, Activations, MaxN
<1>. QED
  BY <1>8, <1>9, <1>10, <1>11, <1>12 DEF DataInv

\* When the last tile has been captured nothing is left in the queues or to come.
LEMMA TilesDone ==
  ASSUME CompositionInv, Held, DataInv, Fits(config, prog), state = "sCompute", cState = "cDone"
  PROVE  accum = <<>> /\ slice = <<>> /\ inQ = <<>> /\ stream = <<>>
<1>. DEFINE l == Latest("LOAD_ACT", Taken)
            T == tiles * rows
<1>1. /\ rows \in Nat /\ tiles \in Nat /\ T \in Nat
      /\ Len(accum) \in Nat /\ Len(slice) \in Nat /\ Len(inQ) \in Nat
  BY ComputeFacts
<1>2. Base = T
  BY DEF DataInv, Tiling, Base
<1>3. Fed <= T /\ IsBeats(stream, Taken, T, Fed)
  BY DEF DataInv, Tiling
<1>. HIDE DEF T
<1>4. Fed = T /\ Len(accum) = 0 /\ Len(slice) = 0 /\ Len(inQ) = 0
  BY <1>1, <1>2, <1>3 DEF Fed
<1>5. stream = <<>>
  BY <1>1, <1>3, <1>4, NoBeatsLeft
<1>6. /\ IsPairs(accum, Taken, l, rows, Base) /\ IsPairs(slice, Taken, l, rows, Base + Len(accum))
      /\ IsPairs(inQ, Taken, l, rows, Base + Len(accum) + Len(slice))
  BY DEF DataInv, Queued
<1>. QED
  BY <1>4, <1>5, <1>6, PairsLen

LEMMA FinishStep ==
  ASSUME CompositionInv, Held, DataInv, Fits(config, prog), NEW beat, Executing(beat), NEW cmd,
         beat = None \/ (stream # <<>> /\ beat = Head(stream)),
         ComputeEngineTick(cmd, beat), prog' = prog, config' = config, Compute,
         cState = "cDone"
  PROVE  DataInv'
<1>. DEFINE l == Latest("LOAD_ACT", Taken)
<1>1. /\ state = "sCompute" /\ state' \in {"sCompute", "sIdle"} /\ ~Filling /\ cState' = "cDone"
      /\ colTile' = colTile /\ rows' = rows /\ tiles' = tiles /\ actBram' = actBram
  BY DEF Filling, Compute, ComputeInit, ComputeStream, ComputeReset, ComputeFinish, loadVars
<1>2. accum = <<>> /\ slice = <<>> /\ inQ = <<>> /\ stream = <<>>
  BY <1>1, TilesDone
<1>3. QuietNext
  BY <1>1, <1>2, QuietTick DEF DataInv, QuietNext
<1>4. stream' = stream
  BY <1>2 DEF Executing, Dma
<1>5. Base' = Base /\ Fed' = Fed
  BY <1>1, <1>2, <1>3 DEF Base, Fed, QuietNext
<1>6. /\ Taken' = Taken /\ Taken' # tag' - 2 /\ l' = l
      /\ \A j : IsLatestLoad(j)' <=> IsLatestLoad(j)
  BY ExecutingFacts
<1>7. Array'
  BY <1>3 DEF QuietNext, Array, FsmState
<1>8. Tiling'
  <2>1. (ColTiles(prog[Taken].dim1))' = ColTiles(prog[Taken].dim1)
    BY <1>6 DEF ColTiles
  <2>. QED
    BY <1>1, <1>4, <1>5, <1>6, <2>1 DEF DataInv, Tiling
<1>9. Queued'
  <2>1. activeIdx' = activeIdx
    BY <1>1 DEF ComputeEngineTick, ActRead, Starting, EnqFire
  <2>2. Len(slice') <= IF HasSlice' THEN 1 ELSE 0
    BY <1>3 DEF QuietNext
  <2>3. activeIdx' = Fed' % rows'
    BY <1>1, <1>5, <2>1 DEF DataInv, Queued
  <2>4. ~Filling'
    BY <1>1 DEF Filling
  <2>. QED
    BY <1>3, <2>2, <2>3, <2>4, PairsNone DEF Queued, QuietNext
<1>10. Armed' /\ Loading'
  BY <1>1, <1>2, <1>4, <1>6 DEF Armed, Loading
<1>11. Activations'
  BY <1>1, <1>6 DEF DataInv, Activations, MaxN
<1>. QED
  BY <1>7, <1>8, <1>9, <1>10, <1>11 DEF DataInv

LEMMA ComputeStep ==
  ASSUME CompositionInv, Held, DataInv, Fits(config, prog), NEW beat, Executing(beat), NEW cmd,
         beat = None \/ (stream # <<>> /\ beat = Head(stream)),
         ComputeEngineTick(cmd, beat), prog' = prog, config' = config, Compute
  PROVE  DataInv'
<1>1. cState \in {"cInit", "cStream", "cReset", "cDone"}
  BY DEF Compute, DataInv, Tiling
<1>. QED
  BY <1>1, InitStep, StreamStep, ResetStep, FinishStep

-----------------------------------------------------------------------------
(* The invariant of the whole, and what follows from it.                   *)

LEMMA ComputeInit0 == ProgramsFit /\ Init => ComputeInv
<1>. SUFFICES ASSUME ProgramsFit, Init PROVE ComputeInv
  OBVIOUS
<1>1. CompositionInv
  BY CompositionInit
<1>2. /\ H!Init /\ CoreInit /\ prog \in Programs(config) /\ stream = <<>>
      /\ config \in Configs /\ state = "sIdle"
  BY DEF Init, CoreInit
<1>3. Fits(config, prog)
  BY <1>2 DEF ProgramsFit
<1>4. /\ tag = 1 /\ outcomes = <<>> /\ ran = <<>> /\ pending = None /\ dispState = "idle"
      /\ w = None /\ txn = None
  BY <1>2 DEF H!Init, H!HandlerInit
<1>5. Held
  BY <1>4 DEF Held
<1>6. Taken = 0
  BY <1>4 DEF Taken
<1>7. /\ peState = "idle" /\ peCount = 0 /\ accum = <<>> /\ arrState = "idle"
      /\ slice = <<>> /\ inQ = <<>> /\ DOMAIN actBram = 0 .. MaxN - 1
  BY <1>2 DEF CoreInit, ArrayInit, ComputeEngineInit
<1>8. Armed /\ Loading /\ Tiling /\ Array
  BY <1>2, <1>4, <1>6, <1>7 DEF Armed, Loading, Tiling, Array, FsmState
<1>9. Queued
  BY <1>2, <1>7 DEF Queued
<1>10. Activations
  BY <1>6, <1>7 DEF Activations
<1>. QED
  BY <1>1, <1>3, <1>5, <1>8, <1>9, <1>10 DEF ComputeInv, DataInv

LEMMA ComputeCycle ==
  ASSUME ComputeInv, NEW tvalid \in {FALSE} \cup {stream # <<>>}, NEW tready,
         Cycle(tvalid, tready)
  PROVE  ComputeInv'
<1>. DEFINE beat == Beat(tvalid)
<1>1. CompositionInv /\ Held /\ DataInv /\ Fits(config, prog)
  BY DEF ComputeInv
<1>2. CompositionInv'
  BY <1>1, CompositionCycle
<1>3. Held'
  BY <1>1, HeldStep
<1>4. /\ prog' = prog /\ config' = config
      /\ beat = None \/ (stream # <<>> /\ beat = Head(stream))
      /\ ComputeEngineTick(Command, beat)
      /\ Pushing(beat) \/ Accepting \/ Idling \/ Executing(beat)
  BY <1>1, CycleCases
<1>5. DataInv'
  <2>1. CASE Pushing(beat) \/ Idling
    BY <1>1, <1>4, <2>1, IdleStep
  <2>2. CASE Accepting
    BY <1>1, <1>4, <2>2, AcceptStep
  <2>3. CASE Executing(beat)
    <3>1. Load(beat) \/ Compute \/ (Store /\ UNCHANGED <<loadVars, tileVars>>)
      BY <2>3 DEF Executing, Execute
    <3>. QED
      BY <1>1, <1>4, <2>3, <3>1, LoadStep, ComputeStep, StoreStep
  <2>. QED
    BY <1>4, <2>1, <2>2, <2>3
<1>6. Fits(config, prog)'
  BY <1>1, <1>4 DEF Fits
<1>. QED
  BY <1>2, <1>3, <1>5, <1>6 DEF ComputeInv

LEMMA ComputeStutter ==
  ASSUME ComputeInv, UNCHANGED vars
  PROVE  ComputeInv'
<1>. USE DEF vars, coreVars, arrayVars, memVars, computeVars, loadVars, tileVars, drainVars,
             handlerVars, driverVars
<1>1. CompositionInv'
  BY CompositionStep DEF ComputeInv
<1>2. Fits(config, prog)' /\ Held'
  BY DEF ComputeInv, Fits, Held
<1>3. Taken' = Taken /\ Fed' = Fed /\ Base' = Base /\ Filling' = Filling
  BY DEF Taken, Fed, Base, Filling
<1>4. Armed' /\ Loading'
  BY <1>3 DEF ComputeInv, DataInv, Armed, Loading, BeatCount, ColTiles
<1>5. Tiling'
  BY <1>3 DEF ComputeInv, DataInv, Tiling, ColTiles
<1>6. Activations'
  BY <1>3 DEF ComputeInv, DataInv, Activations, IsLatestLoad, MaxN
<1>7. Queued'
  BY <1>3 DEF ComputeInv, DataInv, Queued, Latest, HasSlice, Batch
<1>8. Array'
  BY DEF ComputeInv, DataInv, Array, Streaming
<1>. QED
  BY <1>1, <1>2, <1>4, <1>5, <1>6, <1>7, <1>8 DEF ComputeInv, DataInv

LEMMA ComputeInvariance ==
  ASSUME ProgramsFit
  PROVE  Spec => []ComputeInv
<1>1. ComputeInv /\ [Next]_vars => ComputeInv'
  BY ComputeCycle, ComputeStutter DEF Next
<1>. QED
  BY <1>1, ComputeInit0, PTL DEF Spec

\* An instruction takes exactly the beats its DMA was armed with: in the cycle the
\* Core is idle again nothing of it is left, however the two DMAs stall.
THEOREM EveryBeatTaken ==
  ASSUME ProgramsFit
  PROVE  Spec => []DmaDelivered
<1>1. ComputeInv => DmaDelivered
  <2>. SUFFICES ASSUME ComputeInv, state = "sIdle", NEW k \in 1 .. Len(stream)
                PROVE  stream[k][1] > Taken
    BY DEF DmaDelivered
  <2>1. Taken \in Nat /\ tag \in Nat
    BY TakenFacts DEF ComputeInv
  <2>2. CASE Taken = tag - 2
    <3>1. stream[k] = <<tag - 1, 0 + k - 1>>
      BY <2>2 DEF ComputeInv, DataInv, Armed, IsBeats
    <3>. QED
      BY <2>1, <2>2, <3>1
  <2>3. CASE Taken # tag - 2
    <3>1. Len(stream) = 0
      BY <2>3 DEF ComputeInv, DataInv, Armed
    <3>. QED
      BY <3>1
  <2>. QED
    BY <2>2, <2>3
<1>. QED
  BY <1>1, ComputeInvariance, PTL

\* Every pair on its way to the array is a weight beat of the COMPUTE in execution
\* and the activation row of the same position in its tile, through the queue, the
\* register slice and the reset between two tiles.
THEOREM EveryBeatMeetsItsRow ==
  ASSUME ProgramsFit
  PROVE  Spec => []PairsAligned
<1>1. ComputeInv => PairsAligned
  <2>. SUFFICES ASSUME ComputeInv, NEW q \in {inQ, slice, accum}, NEW i \in 1 .. Len(q),
                       state = "sCompute"
                PROVE  /\ q[i][1][1] = inst.tag
                       /\ q[i][2] = <<Latest("LOAD_ACT", Taken), q[i][1][2] % rows>>
    BY DEF PairsAligned
  <2>1. inst.tag = Taken
    <3>1. Taken = tag - 1 /\ tag \in Nat
      BY TakenFacts DEF ComputeInv
    <3>2. dispState # "idle"
      BY DEF ComputeInv, CompositionInv
    <3>. QED
      BY <3>1, <3>2 DEF ComputeInv, Held
  <2>2. PICK k0 : IsPairs(q, Taken, Latest("LOAD_ACT", Taken), rows, k0)
    BY DEF ComputeInv, DataInv, Queued
  <2>3. q[i] = Pair(Taken, Latest("LOAD_ACT", Taken), rows, k0 + i - 1)
    BY <2>2 DEF IsPairs
  <2>. QED
    BY <2>1, <2>3 DEF Pair
<1>. QED
  BY <1>1, ComputeInvariance, PTL

=============================================================================
