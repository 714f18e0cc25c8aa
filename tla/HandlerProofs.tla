--------------------------- MODULE HandlerProofs ---------------------------
(***************************************************************************)
(* What holds of HandlerSystem for every set of instruction words and      *)
(* every number of them: whatever the host does, and then, with the        *)
(* driver's order of accesses, that the thread that pushes, waits, reads   *)
(* the status and acknowledges is never refused, sees each of its          *)
(* completions and reads the verdict on its own instruction.               *)
(***************************************************************************)
EXTENDS HandlerSystem, SequenceTheorems, TLAPS

LEMMA HeadTailType ==
  ASSUME NEW S, NEW s \in Seq(S), s # <<>>
  PROVE  Head(s) \in S /\ Tail(s) \in Seq(S)
  OBVIOUS

\* The pins carry what the host's access in flight holds.
LEMMA PinsType ==
  ASSUME TypeOK, NEW v \in Levels
  PROVE  /\ HostPins(v).aw \in Address \cup {None}
         /\ HostPins(v).w \in Instruction \cup {None}
         /\ HostPins(v).ar \in Address \cup {None}
<1>1. ASSUME txn # None PROVE txn.addr \in Address \cup {None} /\ txn.beats \in Seq(Instruction)
  BY <1>1 DEF TypeOK, Txn
<1>2. ASSUME txn # None, txn.beats # <<>> PROVE Head(txn.beats) \in Instruction
  BY <1>1, <1>2, HeadTailType
<1>. QED
  BY <1>1, <1>2 DEF HostPins

LEMMA WriteFSMType ==
  ASSUME TypeOK, NEW v \in Levels, WriteFSM(HostPins(v))
  PROVE  aw' \in Address \cup {None} /\ w' \in Instruction \cup {None} /\ b' \in Resp \cup {None}
<1>1. CASE HoldWrite(HostPins(v))
  BY <1>1, PinsType DEF HoldWrite, TypeOK, HandlerTypeOK
<1>2. CASE ProcessWrite
  BY <1>2 DEF ProcessWrite, WriteResp, Resp
<1>3. CASE SendB(HostPins(v))
  BY <1>3 DEF SendB, TypeOK, HandlerTypeOK
<1>. QED
  BY <1>1, <1>2, <1>3 DEF WriteFSM

LEMMA ReadFSMType ==
  ASSUME TypeOK, NEW v \in Levels, ReadFSM(HostPins(v))
  PROVE  ar' \in Address \cup {None} /\ r' \in ReadBeat \cup {None}
<1>1. CASE HoldRead(HostPins(v))
  BY <1>1, PinsType DEF HoldRead, TypeOK, HandlerTypeOK
<1>2. CASE ProcessRead
  <2>1. StatusWord \in Status
    <3>1. (dispState # "idle") \in BOOLEAN /\ lastOpc \in Opcodes /\ irqPend \in BOOLEAN
          /\ errorReg \in {"NONE", "INVALID_OPCODE"}
      BY DEF TypeOK, HandlerTypeOK
    <3>. QED
      BY <3>1 DEF StatusWord, Status
  <2>2. ReadResp \in ReadBeat
    BY <2>1 DEF ReadResp, ReadBeat, Resp
  <2>. QED
    BY <1>2, <2>2 DEF ProcessRead, TypeOK, HandlerTypeOK
<1>3. CASE SendR(HostPins(v))
  BY <1>3 DEF SendR, TypeOK, HandlerTypeOK
<1>. QED
  BY <1>1, <1>2, <1>3 DEF ReadFSM

LEMMA DispatcherType ==
  ASSUME TypeOK, NEW v \in Levels, HandlerTick(HostPins(v))
  PROVE  /\ pending' \in Instruction \cup {None} /\ inst' \in Instruction \cup {None}
         /\ dispState' \in DispState /\ errorReg' \in {"NONE", "INVALID_OPCODE"}
         /\ lastOpc' \in Opcodes /\ irqPend' \in BOOLEAN
<1>. USE DEF HandlerTick, TypeOK, HandlerTypeOK
<1>1. pending' \in Instruction \cup {None}
  BY DEF PendingReg, InstrAccept, Writes, CanProcessW
<1>2. irqPend' \in BOOLEAN
  BY DEF IrqReg, CompletionPulse
<1>3. CASE FetchInstr
  BY <1>1, <1>2, <1>3 DEF FetchInstr, DispState, Instruction
<1>4. CASE Decode
  BY <1>1, <1>2, <1>4 DEF Decode, DispState
<1>5. CASE Dispatch(HostPins(v))
  BY <1>1, <1>2, <1>5 DEF Dispatch, DispState
<1>6. CASE AwaitDone(HostPins(v))
  BY <1>1, <1>2, <1>6 DEF AwaitDone, DispState
<1>7. CASE Complete
  BY <1>1, <1>2, <1>7 DEF Complete, DispState
<1>. QED
  BY <1>3, <1>4, <1>5, <1>6, <1>7 DEF Dispatcher

LEMMA WriteTxnType ==
  ASSUME NEW kind \in WriteKinds, NEW addr \in Address, NEW beats \in Seq(Instruction)
  PROVE  WriteTxn(kind, addr, beats) \in Txn
  BY DEF WriteTxn, Txn

LEMMA WriteAddresses ==
  /\ [off |-> "INSTR_WRITE", len |-> 0] \in Address
  /\ [off |-> "INSTR_WRITE", len |-> 1] \in Address
  /\ [off |-> "IRQ_ACK", len |-> 0] \in Address
  /\ {"push", "ack", "burst"} \subseteq WriteKinds
  BY DEF Address, Offsets, WriteKinds

LEMMA ReadTxnType ==
  ASSUME NEW kind \in ReadKinds
  PROVE  ReadTxn(kind) \in Txn
  BY DEF ReadTxn, Txn, StatusAddr, Address, Offsets

HostTypeOK ==
  /\ txn \in Txn \cup {None} /\ tag \in Nat \ {0}
  /\ phase \in {"issue", "await", "status", "ack"} /\ word \in Status \cup {None}

LEMMA HostStartType ==
  ASSUME TypeOK, HostStart
  PROVE  HostTypeOK'
<1>. USE HostAssumption DEF TypeOK, HostTypeOK
<1>1. CASE Push
  <2>1. PICK op \in HostOps :
          txn' = WriteTxn("push", [off |-> "INSTR_WRITE", len |-> 0], <<Instr(op, tag)>>)
    BY <1>1 DEF Push
  <2>2. Instr(op, tag) \in Instruction
    BY <1>1 DEF Push, Instr, Instruction
  <2>3. txn' \in Txn
    <3>1. <<Instr(op, tag)>> \in Seq(Instruction)
      BY <2>2
    <3>. QED
      BY <2>1, <3>1, WriteTxnType, WriteAddresses
  <2>. QED
    BY <1>1, <2>3 DEF Push
<1>2. CASE Ack
  <2>1. AckWord \in Instruction
    BY DEF AckWord, Instruction, Opcodes
  <2>2. txn' \in Txn
    <3>1. <<AckWord>> \in Seq(Instruction)
      BY <2>1
    <3>. QED
      BY <1>2, <3>1, WriteTxnType, WriteAddresses DEF Ack
  <2>. QED
    BY <1>2, <2>2 DEF Ack
<1>3. CASE Burst
  <2>1. PICK op \in HostOps :
          txn' = WriteTxn("burst", [off |-> "INSTR_WRITE", len |-> 1],
                          <<Instr(op, tag), Instr(op, tag + 1)>>)
    BY <1>3 DEF Burst
  <2>2. Instr(op, tag) \in Instruction /\ Instr(op, tag + 1) \in Instruction
    BY <1>3 DEF Burst, Instr, Instruction
  <2>3. txn' \in Txn
    <3>1. <<Instr(op, tag), Instr(op, tag + 1)>> \in Seq(Instruction)
      BY <2>2
    <3>. QED
      BY <2>1, <3>1, WriteTxnType, WriteAddresses
  <2>. QED
    BY <1>3, <2>3 DEF Burst
<1>4. CASE Poll
  BY <1>4, ReadTxnType DEF Poll, ReadKinds
<1>5. CASE SeeIrq
  BY <1>5 DEF SeeIrq
<1>6. CASE ReadStatus
  BY <1>6, ReadTxnType DEF ReadStatus, ReadKinds
<1>. QED
  BY <1>1, <1>2, <1>3, <1>4, <1>5, <1>6 DEF HostStart

LEMMA HostStepType ==
  ASSUME TypeOK, NEW v \in Levels, HostStep(HostPins(v))
  PROVE  HostTypeOK'
<1>. DEFINE in == HostPins(v)
<1>1. CASE HostStart
  BY <1>1, HostStartType
<1>2. CASE WriteGoesOn(in)
  <2>. DEFINE addr  == IF AwReady /\ in.aw # None THEN None ELSE txn.addr
              beats == IF WReady /\ in.w # None THEN Tail(txn.beats) ELSE txn.beats
              got   == txn.got \/ (b # None /\ in.bready)
              next  == [txn EXCEPT !.addr = addr, !.beats = beats, !.got = got]
  <2>1. txn \in Txn
    BY <1>2 DEF WriteGoesOn, TypeOK
  <2>2. addr \in Address \cup {None}
    BY <2>1 DEF Txn
  <2>3. beats \in Seq(Instruction)
    <3>1. txn.beats \in Seq(Instruction)
      BY <2>1 DEF Txn
    <3>2. in.w # None => txn.beats # <<>>
      BY DEF HostPins
    <3>. QED
      BY <3>1, <3>2, HeadTailType
  <2>4. got \in BOOLEAN
    BY <2>1 DEF Txn
  <2>5. next \in Txn
    BY <2>1, <2>2, <2>3, <2>4 DEF Txn
  <2>6. txn' \in Txn \cup {None}
    BY <1>2, <2>5 DEF WriteGoesOn
  <2>. QED
    BY <1>2, <2>6 DEF WriteGoesOn, TypeOK, HostTypeOK
<1>3. CASE ReadGoesOn(in)
  <2>1. txn \in Txn
    BY <1>3 DEF ReadGoesOn, TypeOK
  <2>2. txn' \in Txn \cup {None}
    <3>1. [txn EXCEPT !.addr = IF ArReady /\ in.ar # None THEN None ELSE @] \in Txn
      BY <2>1 DEF Txn
    <3>. QED
      BY <1>3, <3>1 DEF ReadGoesOn
  <2>3. r # None => r.data \in Status \cup {None}
    BY DEF TypeOK, HandlerTypeOK, ReadBeat
  <2>. QED
    BY <1>3, <2>2, <2>3 DEF ReadGoesOn, TypeOK, HostTypeOK
<1>4. CASE Think
  BY <1>4 DEF Think, hostVars, TypeOK, HostTypeOK
<1>. QED
  BY <1>1, <1>2, <1>3, <1>4 DEF HostStep

LEMMA HeldInstruction ==
  ASSUME TypeOK, Whereabouts
  PROVE  dispState # "idle" => inst \in Instruction
<1>. SUFFICES ASSUME dispState # "idle" PROVE inst \in Instruction
  OBVIOUS
<1>1. Len(outcomes) + 1 \in 1 .. Len(accepted)
  BY DEF TypeOK, Whereabouts
<1>. QED
  BY <1>1 DEF TypeOK, Whereabouts

LEMMA RecordType ==
  ASSUME TypeOK, Whereabouts, NEW v \in Levels, EngineStep(HostPins(v)), Record
  PROVE  /\ engine' \in Instruction \cup {None}
         /\ accepted' \in Seq(Instruction) /\ ran' \in Seq(Instruction)
         /\ outcomes' \in Seq(Seq(Instruction)) /\ unacked' \in Nat
<1>. USE DEF TypeOK, HandlerTypeOK
<1>1. engine' \in Instruction \cup {None}
  <2>1. inst \in Instruction \cup {None} /\ engine \in Instruction \cup {None}
    OBVIOUS
  <2>2. engine' \in {inst, None, engine}
    BY Zenon DEF EngineStep
  <2>. QED
    BY <2>1, <2>2
<1>2. accepted' \in Seq(Instruction)
  BY DEF Record, InstrAccept, Writes, CanProcessW
<1>3. ran' \in Seq(Instruction)
  BY HeldInstruction DEF Record, TakeCommand, CmdValid
<1>4. outcomes' \in Seq(Seq(Instruction))
  BY DEF Record
<1>5. unacked' \in Nat
  BY DEF Record
<1>. QED
  BY <1>1, <1>2, <1>3, <1>4, <1>5

LEMMA TypeStep ==
  ASSUME TypeOK, Whereabouts, NEW v \in Levels, Cycle(v)
  PROVE  TypeOK'
<1>1. /\ HandlerTick(HostPins(v)) /\ HostStep(HostPins(v))
      /\ EngineStep(HostPins(v)) /\ Record
  BY DEF Cycle
<1>2. HandlerTypeOK'
  BY <1>1, WriteFSMType, ReadFSMType, DispatcherType DEF HandlerTick, HandlerTypeOK
<1>3. HostTypeOK'
  BY <1>1, HostStepType
<1>. QED
  BY <1>1, <1>2, <1>3, RecordType DEF TypeOK, HostTypeOK

-----------------------------------------------------------------------------
(* An instruction is accepted into an empty buffer; the dispatcher moves   *)
(* it on.  These two lemmas say what a cycle does to each end.             *)

LEMMA AcceptEnd ==
  ASSUME TypeOK, PendingReg, Record
  PROVE  /\ Len(accepted') = Len(accepted) + IF InstrAccept THEN 1 ELSE 0
         /\ Len(accepted') \in Nat /\ Len(accepted') >= Len(accepted)
         /\ \A i \in 1 .. Len(accepted) : accepted'[i] = accepted[i]
         /\ InstrAccept => /\ pending = None /\ pending' # None
                           /\ pending' = accepted'[Len(accepted')]
<1>1. CASE InstrAccept
  <2>1. w \in Instruction /\ w # None
    BY <1>1, NoneAssumption DEF InstrAccept, Writes, CanProcessW, TypeOK, HandlerTypeOK
  <2>2. accepted' = Append(accepted, w) /\ pending' = w /\ pending = None
    BY <1>1 DEF Record, PendingReg, InstrAccept
  <2>. QED
    BY <1>1, <2>1, <2>2 DEF TypeOK
<1>2. CASE ~InstrAccept
  BY <1>2 DEF Record, TypeOK
<1>. QED
  BY <1>1, <1>2

LEMMA WhereaboutsStep ==
  ASSUME TypeOK, Whereabouts, NEW v \in Levels, Cycle(v)
  PROVE  Whereabouts'
<1>. DEFINE in == HostPins(v)
            n  == Len(accepted)
            m  == Len(outcomes)
<1>1. PendingReg /\ Record /\ Dispatcher(in)
  BY DEF Cycle, HandlerTick
<1>2. /\ accepted \in Seq(Instruction) /\ outcomes \in Seq(Seq(Instruction))
      /\ n \in Nat /\ m \in Nat
  BY DEF TypeOK
<1>3. /\ Len(accepted') = n + IF InstrAccept THEN 1 ELSE 0
      /\ \A i \in 1 .. n : accepted'[i] = accepted[i]
      /\ InstrAccept => pending = None /\ pending' # None /\ pending' = accepted'[Len(accepted')]
  BY <1>1, AcceptEnd
<1>4. ~InstrAccept => pending' = IF Fetch THEN None ELSE pending
  BY <1>1 DEF PendingReg
<1>5. ~InstrAccept => accepted' = accepted
  BY <1>1 DEF Record
<1>6. ASSUME dispState' # "idle", dispState # "idle", ~CompletionPulse, inst' = inst
      PROVE  inst' = accepted'[m + 1]
  <2>1. m + 1 \in 1 .. n
    BY <1>2, <1>6 DEF Whereabouts
  <2>. QED
    BY <1>3, <1>6, <2>1 DEF Whereabouts
<1>7. CASE FetchInstr /\ pending = None
  <2>1. outcomes' = outcomes /\ ran' = ran /\ dispState = "idle" /\ dispState' = "idle"
    BY <1>1, <1>7 DEF FetchInstr, Record, CompletionPulse, TakeCommand, CmdValid
  <2>2. ~InstrAccept => pending' = None
    BY <1>4, <1>7
  <2>. QED
    BY <1>2, <1>3, <1>5, <1>7, <2>1, <2>2 DEF Whereabouts
<1>8. CASE FetchInstr /\ pending # None
  <2>1. /\ outcomes' = outcomes /\ ran' = ran /\ dispState = "idle"
        /\ dispState' = "decoding" /\ inst' = pending
    BY <1>1, <1>8 DEF FetchInstr, Record, CompletionPulse, TakeCommand, CmdValid
  <2>2. pending' = None /\ accepted' = accepted
    BY <1>3, <1>4, <1>5, <1>8, <2>1 DEF Fetch
  <2>. QED
    BY <1>2, <1>8, <2>1, <2>2 DEF Whereabouts
<1>9. CASE Decode
  <2>1. /\ outcomes' = outcomes /\ ran' = ran /\ dispState = "decoding" /\ inst' = inst
        /\ dispState' = IF inst.op \in EngineOps THEN "dispatching" ELSE "completed"
    BY <1>1, <1>9 DEF Decode, Record, CompletionPulse, TakeCommand, CmdValid
  <2>2. inst' = accepted'[m + 1]
    BY <1>6, <2>1 DEF CompletionPulse
  <2>3. ~InstrAccept => pending' = pending
    BY <1>4, <2>1 DEF Fetch
  <2>. QED
    BY <1>2, <1>3, <1>5, <2>1, <2>2, <2>3 DEF Whereabouts
<1>10. CASE Dispatch(in)
  <2>1. /\ outcomes' = outcomes /\ dispState = "dispatching" /\ inst' = inst
        /\ ran' = IF TakeCommand THEN Append(ran, inst) ELSE ran
        /\ dispState' = IF TakeCommand THEN "awaitingDone" ELSE dispState
    BY <1>1, <1>10 DEF Dispatch, Record, CompletionPulse, TakeCommand, CmdValid, HostPins
  <2>2. inst' = accepted'[m + 1]
    BY <1>6, <2>1 DEF CompletionPulse
  <2>3. ~InstrAccept => pending' = pending
    BY <1>4, <2>1 DEF Fetch
  <2>. QED
    BY <1>2, <1>3, <1>5, <2>1, <2>2, <2>3 DEF Whereabouts
<1>11. CASE AwaitDone(in)
  <2>1. /\ outcomes' = outcomes /\ ran' = ran /\ dispState = "awaitingDone" /\ inst' = inst
        /\ dispState' \in {"completed", "awaitingDone"}
    BY <1>1, <1>11, Zenon DEF AwaitDone, Record, CompletionPulse, TakeCommand, CmdValid
  <2>2. inst' = accepted'[m + 1]
    BY <1>6, <2>1 DEF CompletionPulse
  <2>3. ~InstrAccept => pending' = pending
    BY <1>4, <2>1 DEF Fetch
  <2>4. ran' = <<inst'>> /\ inst'.op \in EngineOps
    BY <2>1 DEF Whereabouts
  <2>5. CASE dispState' = "awaitingDone"
    BY <1>2, <1>3, <1>5, <2>1, <2>2, <2>3, <2>4, <2>5 DEF Whereabouts
  <2>6. CASE dispState' = "completed"
    BY <1>2, <1>3, <1>5, <2>1, <2>2, <2>3, <2>4, <2>6 DEF Whereabouts
  <2>. QED
    BY <2>1, <2>5, <2>6
<1>12. CASE Complete
  <2>1. /\ outcomes' = Append(outcomes, ran) /\ ran' = <<>>
        /\ dispState = "completed" /\ dispState' = "idle"
    BY <1>1, <1>12 DEF Complete, Record, CompletionPulse
  <2>2. ~InstrAccept => pending' = pending
    BY <1>4, <2>1 DEF Fetch
  <2>. QED
    BY <1>2, <1>3, <1>5, <2>1, <2>2 DEF Whereabouts
<1>. QED
  BY <1>1, <1>7, <1>8, <1>9, <1>10, <1>11, <1>12 DEF Dispatcher

LEMMA ExecutionStep ==
  ASSUME TypeOK, Whereabouts, ExecutedExactlyOnce, NEW v \in Levels, Cycle(v)
  PROVE  ExecutedExactlyOnce'
<1>. DEFINE n == Len(accepted)
            m == Len(outcomes)
<1>1. PendingReg /\ Record
  BY DEF Cycle, HandlerTick
<1>2. /\ accepted \in Seq(Instruction) /\ outcomes \in Seq(Seq(Instruction))
      /\ n \in Nat /\ m \in Nat
  BY DEF TypeOK
<1>3. Len(accepted') >= n /\ \A i \in 1 .. n : accepted'[i] = accepted[i]
  BY <1>1, <1>2, AcceptEnd
<1>4. CASE CompletionPulse
  <2>1. m + 1 <= n /\ inst = accepted[m + 1]
    BY <1>2, <1>4 DEF Whereabouts, CompletionPulse
  <2>2. ran = IF inst.op \in EngineOps THEN <<inst>> ELSE <<>>
    BY <1>4 DEF Whereabouts, CompletionPulse
  <2>3. outcomes' = Append(outcomes, ran)
    BY <1>1, <1>4 DEF Record
  <2>4. /\ Len(outcomes') = m + 1 /\ outcomes'[m + 1] = ran
        /\ \A i \in 1 .. m : outcomes'[i] = outcomes[i]
    BY <1>2, <2>3 DEF TypeOK
  <2>5. Len(outcomes') <= Len(accepted')
    BY <1>1, <1>2, <2>1, <2>4, AcceptEnd
  <2>6. ASSUME NEW i \in 1 .. Len(outcomes')
        PROVE  outcomes'[i] = IF accepted'[i].op \in EngineOps THEN <<accepted'[i]>> ELSE <<>>
    <3>1. CASE i = m + 1
      <4>1. outcomes'[i] = ran
        BY <2>4, <3>1
      <4>2. accepted'[i] = inst
        BY <1>2, <1>3, <2>1, <3>1
      <4>. QED
        BY <2>2, <4>1, <4>2
    <3>2. CASE i \in 1 .. m
      <4>1. outcomes'[i] = outcomes[i]
        BY <2>4, <3>2
      <4>2. accepted'[i] = accepted[i]
        BY <1>2, <1>3, <2>1, <3>2
      <4>. QED
        BY <3>2, <4>1, <4>2 DEF ExecutedExactlyOnce
    <3>. QED
      BY <1>2, <2>4, <3>1, <3>2
  <2>. QED
    BY <2>5, <2>6 DEF ExecutedExactlyOnce
<1>5. CASE ~CompletionPulse
  <2>1. outcomes' = outcomes
    BY <1>1, <1>5 DEF Record
  <2>2. Len(outcomes) <= Len(accepted')
    BY <1>1, <1>2, AcceptEnd DEF ExecutedExactlyOnce
  <2>. QED
    BY <1>2, <1>3, <2>1, <2>2 DEF ExecutedExactlyOnce
<1>. QED
  BY <1>4, <1>5 DEF CompletionPulse

-----------------------------------------------------------------------------
(* The inductive invariant.  TypeOK alone is not inductive: that the engine*)
(* is handed an instruction, and not an empty register, needs Whereabouts. *)

HandlerInv == TypeOK /\ Whereabouts /\ ExecutedExactlyOnce

LEMMA InvInit == Init => HandlerInv
<1>1. HandlerInit => HandlerTypeOK
  BY DEF HandlerInit, HandlerTypeOK, DispState, Opcodes
<1>. QED
  BY <1>1 DEF Init, HandlerInit, HandlerInv, TypeOK, Whereabouts, ExecutedExactlyOnce

LEMMA InvStep == HandlerInv /\ [Next]_vars => HandlerInv'
<1>1. ASSUME HandlerInv, Next PROVE HandlerInv'
  <2>1. PICK v \in Levels : Cycle(v)
    BY <1>1 DEF Next
  <2>. QED
    BY <1>1, <2>1, TypeStep, WhereaboutsStep, ExecutionStep DEF HandlerInv
<1>2. ASSUME HandlerInv, UNCHANGED vars PROVE HandlerInv'
  <2>1. UNCHANGED <<handlerVars, hostVars, engine, histVars>>
    BY <1>2 DEF vars
  <2>2. TypeOK'
    BY <1>2, <2>1 DEF HandlerInv, TypeOK, HandlerTypeOK, handlerVars, hostVars, histVars
  <2>3. Whereabouts'
    BY <1>2, <2>1 DEF HandlerInv, Whereabouts, handlerVars, histVars
  <2>4. ExecutedExactlyOnce'
    BY <1>2, <2>1 DEF HandlerInv, ExecutedExactlyOnce, histVars
  <2>. QED
    BY <2>2, <2>3, <2>4 DEF HandlerInv
<1>. QED
  BY <1>1, <1>2

LEMMA Invariance == Spec => []HandlerInv
  BY InvInit, InvStep, PTL DEF Spec

\* Every register, the software's access and the histories keep their types.
THEOREM TypeCorrect == Spec => []TypeOK
  BY Invariance, PTL DEF HandlerInv

\* Every accepted instruction is buffered, held or retired, in order and once.
THEOREM NothingLost == Spec => []Whereabouts
  BY Invariance, PTL DEF HandlerInv

\* Whatever the software does on the bus, in bursts too, and however long the
\* engines take, each retired instruction caused its own command, once.
THEOREM ExactlyOnce == Spec => []ExecutedExactlyOnce
  BY Invariance, PTL DEF HandlerInv

-----------------------------------------------------------------------------
(* The registers, channels and clock of the handler implement the service. *)

LEMMA ServiceStart == Init => Service!ServiceInit
  BY DEF Init, HandlerInit, Service!ServiceInit

\* What a cycle does to the software's side of the service.
LEMMA ServiceAccepts ==
  ASSUME HandlerInv, NEW v \in Levels, Cycle(v)
  PROVE  Service!Accept \/ UNCHANGED accepted
<1>1. CASE InstrAccept
  <2>1. accepted' = Append(accepted, w) /\ pending = None
    BY <1>1 DEF Cycle, Record, InstrAccept
  <2>2. w \in Instruction
    BY <1>1 DEF InstrAccept, Writes, CanProcessW, HandlerInv, TypeOK, HandlerTypeOK
  <2>3. Len(accepted) - Len(outcomes) < 2
    BY <2>1 DEF HandlerInv, TypeOK, Whereabouts
  <2>. QED
    BY <2>1, <2>2, <2>3 DEF Service!Accept, Service!Outstanding
<1>2. CASE ~InstrAccept
  BY <1>2 DEF Cycle, Record
<1>. QED
  BY <1>1, <1>2

\* What it does to the engines' side.
LEMMA ServiceExecutes ==
  ASSUME HandlerInv, NEW v \in Levels, Cycle(v)
  PROVE  IF CompletionPulse THEN Service!Retire
         ELSE Service!Run \/ UNCHANGED <<ran, outcomes>>
<1>1. Record
  BY DEF Cycle
<1>2. ASSUME dispState # "idle"
      PROVE  /\ Service!Outstanding > 0 /\ Service!Current = inst
             /\ inst \in Instruction
  BY <1>2, HeldInstruction DEF HandlerInv, TypeOK, Whereabouts, Service!Outstanding,
     Service!Current
<1>3. CASE CompletionPulse
  <2>1. ran = Service!Execution(inst)
    BY <1>2, <1>3 DEF CompletionPulse, HandlerInv, Whereabouts, Service!Execution
  <2>. QED
    BY <1>1, <1>2, <1>3, <2>1 DEF CompletionPulse, Record, Service!Retire
<1>4. CASE ~CompletionPulse /\ TakeCommand
  <2>1. inst.op \in EngineOps /\ ran = <<>>
    BY <1>4 DEF TakeCommand, CmdValid, HandlerInv, Whereabouts
  <2>2. ran' = <<inst>> /\ outcomes' = outcomes
    BY <1>1, <1>4, <2>1 DEF Record
  <2>. QED
    BY <1>2, <1>4, <2>1, <2>2 DEF TakeCommand, CmdValid, Service!Run
<1>5. CASE ~CompletionPulse /\ ~TakeCommand
  BY <1>1, <1>5 DEF Record
<1>. QED
  BY <1>3, <1>4, <1>5 DEF CompletionPulse, TakeCommand

LEMMA ServiceStep ==
  ASSUME HandlerInv, NEW v \in Levels, Cycle(v)
  PROVE  Service!ServiceNext
<1>1. irqPend' = (CompletionPulse \/ (irqPend /\ ~IrqAck))
  BY DEF Cycle, HandlerTick, IrqReg
<1>2. CompletionPulse \in BOOLEAN /\ IrqAck \in BOOLEAN
  BY DEF CompletionPulse, IrqAck, Writes, CanProcessW
<1>. QED
  BY <1>1, <1>2, ServiceAccepts, ServiceExecutes DEF Service!ServiceNext

\* The handler implements InstructionService for every host: instructions take
\* effect in the order they were accepted, each once, at most two outstanding,
\* and every retirement raises the interrupt.
THEOREM Refines == Spec => ServiceRefinement
<1>1. Init => Service!ServiceInit
  BY ServiceStart
<1>2. HandlerInv /\ [Next]_vars => [Service!ServiceNext]_(Service!serviceVars)
  <2>1. ASSUME HandlerInv, Next PROVE Service!ServiceNext
    BY <2>1, ServiceStep DEF Next
  <2>2. UNCHANGED vars => UNCHANGED Service!serviceVars
    BY DEF vars, handlerVars, histVars, Service!serviceVars
  <2>. QED
    BY <2>1, <2>2
<1>. QED
  BY <1>1, <1>2, Invariance, PTL DEF Spec, ServiceRefinement, Service!ServiceSpec

-----------------------------------------------------------------------------
(***************************************************************************)
(* The driver's order of accesses.                                         *)
(***************************************************************************)

(* Registers of the dispatcher against the history, for every host.        *)

ErrorOf(op) == IF op \in EngineOps THEN "NONE" ELSE "INVALID_OPCODE"

Verdicts ==
  /\ engine = IF dispState = "awaitingDone" THEN inst ELSE None
  /\ dispState # "idle" => lastOpc = inst.op
  /\ dispState # "idle" => errorReg = IF dispState = "completed" THEN ErrorOf(inst.op) ELSE "NONE"
  /\ dispState = "idle" /\ outcomes # <<>> =>
       /\ lastOpc = accepted[Len(outcomes)].op
       /\ errorReg = ErrorOf(accepted[Len(outcomes)].op)

(* The access in flight against the held beats, for hosts without bursts:  *)
(* each of its beats is at the host or in the handler, and an address and  *)
(* data in the handler belong to the same access.                          *)

Writing == txn # None /\ txn.kind \in WriteKinds
Reading == txn # None /\ txn.kind \in ReadKinds

WriteAddr(kind)  == [off |-> IF kind = "push" THEN "INSTR_WRITE" ELSE "IRQ_ACK", len |-> 0]
Payload(kind, i) == i \in Instruction /\ (kind = "push" => i.tag = tag - 1)

AddrSent == txn.addr = None /\ aw = WriteAddr(txn.kind)
AddrKept == txn.addr = WriteAddr(txn.kind) /\ aw = None
DataSent == txn.beats = <<>> /\ Payload(txn.kind, w)
DataKept == Len(txn.beats) = 1 /\ Payload(txn.kind, txn.beats[1]) /\ w = None

Requesting == b = None /\ (AddrSent \/ AddrKept) /\ (DataSent \/ DataKept)
Answered   == b # None /\ aw = None /\ w = None /\ txn.addr = None /\ txn.beats = <<>>

WriteChannel ==
  IF Writing THEN txn.kind \in {"push", "ack"} /\ txn.got = FALSE /\ (Requesting \/ Answered)
             ELSE aw = None /\ w = None /\ b = None

ReadChannel ==
  IF Reading THEN \/ txn.addr = StatusAddr /\ ar = None /\ r = None
                  \/ txn.addr = None /\ ar = StatusAddr /\ r = None
                  \/ txn.addr = None /\ ar = None /\ r # None /\ r.data \in Status
             ELSE ar = None /\ r = None

(* The thread of the driver.                                               *)

\* The instruction pushed last is still on its way through the write channels.
Unaccepted == txn # None /\ txn.kind = "push" /\ b = None

\* The accesses that may be in flight in each phase.
InFlight == {<<"issue", "ack">>, <<"await", "push">>, <<"await", "poll">>, <<"status", "status">>}

\* The status word after the instruction pushed last.
Verdict == [busy |-> FALSE, lastOpc |-> accepted[tag - 1].op,
            err |-> ErrorOf(accepted[tag - 1].op), irq |-> TRUE]

Counts ==
  /\ txn # None => <<phase, txn.kind>> \in InFlight
  /\ Len(accepted) = IF Unaccepted THEN tag - 2 ELSE tag - 1
  /\ Len(outcomes) = IF phase = "await" /\ ~irqPend THEN tag - 2 ELSE tag - 1
  /\ phase # "issue" => tag > 1
  /\ phase \in {"status", "ack"} => irqPend
  /\ phase = "issue" => (irqPend <=> txn # None /\ b = None)
  /\ unacked = IF irqPend THEN 1 ELSE 0
  /\ txn # None /\ txn.kind = "push" /\ b # None => b = "OKAY"

Snapshots ==
  /\ phase = "await" /\ r # None => (r.data.irq => irqPend)
  /\ phase = "status" /\ r # None => r.data = Verdict
  /\ phase = "ack" => word = Verdict

ChannelInv == HandlerInv /\ Verdicts /\ WriteChannel /\ ReadChannel
DriverInv  == ChannelInv /\ Counts /\ Snapshots

-----------------------------------------------------------------------------
(* The dispatcher.                                                         *)

LEMMA VerdictsStep ==
  ASSUME HandlerInv, Verdicts, NEW v \in Levels, Cycle(v)
  PROVE  Verdicts'
<1>. DEFINE in == HostPins(v)
            n  == Len(accepted)
            m  == Len(outcomes)
<1>1. PendingReg /\ Record /\ Dispatcher(in) /\ EngineStep(in)
  BY DEF Cycle, HandlerTick
<1>2. /\ accepted \in Seq(Instruction) /\ outcomes \in Seq(Seq(Instruction))
      /\ n \in Nat /\ m \in Nat /\ m <= n
  BY DEF HandlerInv, TypeOK, ExecutedExactlyOnce
<1>3. \A i \in 1 .. n : accepted'[i] = accepted[i]
  BY <1>1, AcceptEnd DEF HandlerInv
<1>4. in.ready = (engine = None) /\ in.done = (v.done /\ engine # None)
  BY DEF HostPins
<1>5. m # 0 => accepted'[m] = accepted[m]
  BY <1>2, <1>3
<1>6. outcomes # <<>> => m # 0
  BY <1>2
<1>7. CASE FetchInstr
  <2>1. outcomes' = outcomes /\ engine = None /\ engine' = None
    BY <1>1, <1>4, <1>7 DEF FetchInstr, Record, CompletionPulse, TakeCommand, CmdValid,
       EngineStep, Verdicts
  <2>. QED
    BY <1>5, <1>6, <1>7, <2>1 DEF FetchInstr, Verdicts
<1>8. CASE Decode
  <2>1. engine' = None
    BY <1>1, <1>4, <1>8 DEF Decode, TakeCommand, CmdValid, EngineStep, Verdicts
  <2>. QED
    BY <1>8, <2>1 DEF Decode, Verdicts, ErrorOf
<1>9. CASE Dispatch(in)
  <2>1. engine = None /\ TakeCommand /\ engine' = inst
    BY <1>1, <1>4, <1>9 DEF Dispatch, TakeCommand, CmdValid, EngineStep, Verdicts
  <2>. QED
    BY <1>4, <1>9, <2>1 DEF Dispatch, CmdValid, Verdicts
<1>10. CASE AwaitDone(in)
  <2>1. engine = inst /\ inst # None
    BY <1>10, HeldInstruction, NoneAssumption DEF AwaitDone, Verdicts, HandlerInv
  <2>2. engine' = IF in.done THEN None ELSE engine
    BY <1>1, <1>10 DEF AwaitDone, TakeCommand, CmdValid, EngineStep
  <2>3. inst.op \in EngineOps
    BY <1>10 DEF AwaitDone, HandlerInv, Whereabouts
  <2>. QED
    BY <1>10, <2>1, <2>2, <2>3 DEF AwaitDone, Verdicts, ErrorOf
<1>11. CASE Complete
  <2>1. engine' = None
    BY <1>1, <1>4, <1>11 DEF Complete, CompletionPulse, TakeCommand, CmdValid, EngineStep, Verdicts
  <2>2. Len(outcomes') = m + 1
    BY <1>1, <1>2, <1>11 DEF Complete, CompletionPulse, Record, HandlerInv, TypeOK
  <2>3. m + 1 \in 1 .. n /\ inst = accepted[m + 1]
    BY <1>2, <1>11 DEF Complete, CompletionPulse, HandlerInv, Whereabouts
  <2>4. accepted'[m + 1] = inst
    BY <1>3, <2>3
  <2>. QED
    BY <1>11, <2>1, <2>2, <2>4 DEF Complete, CompletionPulse, Verdicts
<1>. QED
  BY <1>1, <1>7, <1>8, <1>9, <1>10, <1>11 DEF Dispatcher

-----------------------------------------------------------------------------
(* The channels, for every host without bursts.                            *)

LEMMA SingleBeat ==
  ASSUME NEW S, NEW s \in Seq(S), Len(s) = 1
  PROVE  Head(s) = s[1] /\ Tail(s) = <<>>
<1>1. s # <<>>
  BY EmptySeq
<1>2. Tail(s) \in Seq(S) /\ Len(Tail(s)) = 0
  BY <1>1, HeadTailProperties
<1>3. Tail(s) = <<>>
  BY <1>2, EmptySeq
<1>. QED
  BY <1>1, <1>3

\* A write access that starts has both its beats at the host.
LEMMA StartedWrite ==
  ASSUME NEW kind \in {"push", "ack"}, NEW i, Payload(kind, i)',
         txn' = WriteTxn(kind, WriteAddr(kind), <<i>>),
         aw' = None, w' = None, b' = None
  PROVE  WriteChannel' /\ txn' # None /\ txn'.kind = kind
<1>1. i \in Instruction
  BY DEF Payload
<1>2. <<i>> \in Seq(Instruction) /\ Len(<<i>>) = 1 /\ <<i>>[1] = i
  BY <1>1
<1>3. WriteAddr(kind) \in Address /\ kind \in WriteKinds
  BY DEF WriteAddr, Address, Offsets, WriteKinds
<1>4. txn' \in Txn
  BY <1>2, <1>3, WriteTxnType
<1>5. /\ txn'.kind = kind /\ txn'.addr = WriteAddr(kind)
      /\ txn'.beats = <<i>> /\ txn'.got = FALSE
  BY DEF WriteTxn
<1>6. AddrKept'
  BY <1>5 DEF AddrKept
<1>7. DataKept'
  BY <1>2, <1>5 DEF DataKept
<1>. QED
  BY <1>3, <1>4, <1>5, <1>6, <1>7, TxnAssumption DEF WriteChannel, Writing, Requesting

LEMMA StartedRead ==
  ASSUME NEW kind
  PROVE  ReadTxn(kind).kind = kind /\ ReadTxn(kind).addr = StatusAddr
  BY DEF ReadTxn

\* A host that begins nothing and continues nothing leaves its pins low.
LEMMA PinsLow ==
  ASSUME NEW v \in Levels
  PROVE  /\ ~Writing => HostPins(v).aw = None /\ HostPins(v).w = None
         /\ ~Reading => HostPins(v).ar = None
  BY DEF HostPins, Writing, Reading

\* What is processed is the access of the transaction in flight, whole.
LEMMA Processed ==
  ASSUME HandlerInv, WriteChannel, CanProcessW
  PROVE  /\ Writing /\ txn.kind \in {"push", "ack"} /\ txn.got = FALSE
         /\ b = None /\ txn.addr = None /\ txn.beats = <<>>
         /\ aw = WriteAddr(txn.kind) /\ Payload(txn.kind, w)
  BY DEF CanProcessW, WriteChannel, Requesting, Answered, AddrSent, AddrKept, DataSent, DataKept

\* What is left of a write access after a cycle.
AddrLeft(in)  == IF AwReady /\ in.aw # None THEN None ELSE txn.addr
BeatsLeft(in) == IF WReady /\ in.w # None THEN Tail(txn.beats) ELSE txn.beats
GotNow(in)    == txn.got \/ (b # None /\ in.bready)

LEMMA WriteFields ==
  ASSUME HandlerInv, NEW v \in Levels, WriteGoesOn(HostPins(v))
  PROVE  LET in == HostPins(v)
         IN IF GotNow(in) /\ BeatsLeft(in) = <<>> THEN txn' = None
            ELSE /\ txn' # None /\ txn'.kind = txn.kind /\ txn'.addr = AddrLeft(in)
                 /\ txn'.beats = BeatsLeft(in) /\ txn'.got = GotNow(in)
<1>. DEFINE in    == HostPins(v)
            addr  == AddrLeft(in)
            beats == BeatsLeft(in)
            got   == GotNow(in)
            next  == [txn EXCEPT !.addr = addr, !.beats = beats, !.got = got]
<1>1. txn \in Txn /\ Writing
  BY DEF WriteGoesOn, HandlerInv, TypeOK, Writing
<1>2. /\ next.kind = txn.kind /\ next.addr = addr /\ next.beats = beats /\ next.got = got
  BY <1>1 DEF Txn
<1>3. txn' = IF next.got /\ next.beats = <<>> THEN None ELSE next
  BY DEF WriteGoesOn, AddrLeft, BeatsLeft, GotNow
<1>4. next # None
  <2>1. got \in BOOLEAN
    BY <1>1 DEF Txn, GotNow
  <2>2. addr \in Address \cup {None}
    BY <1>1 DEF Txn, AddrLeft
  <2>3. beats \in Seq(Instruction)
    <3>1. in.w # None => txn.beats # <<>>
      BY DEF HostPins
    <3>. QED
      BY <1>1, <3>1, HeadTailType DEF Txn, BeatsLeft
  <2>4. next \in Txn
    BY <1>1, <2>1, <2>2, <2>3 DEF Txn
  <2>. QED
    BY <2>4, TxnAssumption
<1>. QED
  BY <1>2, <1>3, <1>4

LEMMA WriteChannelStep ==
  ASSUME HandlerInv, WriteChannel, Bursts = FALSE, NEW v \in Levels, Cycle(v)
  PROVE  WriteChannel'
<1>. DEFINE in == HostPins(v)
<1>1. WriteFSM(in) /\ HostStep(in)
  BY DEF Cycle, HandlerTick
<1>2. ASSUME ~Writing, ~Writing' PROVE WriteChannel'
  BY <1>1, <1>2, PinsLow DEF WriteChannel, WriteFSM, HoldWrite, ProcessWrite, SendB, CanProcessW
<1>3. ASSUME txn = None PROVE aw' = None /\ w' = None /\ b' = None
  BY <1>1, <1>3, PinsLow
     DEF Writing, WriteChannel, WriteFSM, HoldWrite, ProcessWrite, SendB, CanProcessW
<1>4. CASE HostStart
  <2>1. CASE Push
    <3>1. PICK i \in Instruction :
            /\ i.tag = tag
            /\ txn' = WriteTxn("push", [off |-> "INSTR_WRITE", len |-> 0], <<i>>)
      <4>1. PICK op \in HostOps :
              txn' = WriteTxn("push", [off |-> "INSTR_WRITE", len |-> 0], <<Instr(op, tag)>>)
        BY <2>1 DEF Push
      <4>2. Instr(op, tag) \in Instruction /\ Instr(op, tag).tag = tag
        BY <2>1, HostAssumption DEF Push, Instr, Instruction, HandlerInv, TypeOK
      <4>. QED
        BY <4>1, <4>2
    <3>2. tag = tag' - 1 /\ txn = None
      BY <2>1 DEF Push, HandlerInv, TypeOK
    <3>3. Payload("push", i)'
      BY <3>1, <3>2 DEF Payload
    <3>. QED
      BY <1>3, <3>1, <3>2, <3>3, StartedWrite DEF WriteAddr
  <2>2. CASE Ack
    <3>1. txn' = WriteTxn("ack", [off |-> "IRQ_ACK", len |-> 0], <<AckWord>>) /\ txn = None
      BY <2>2 DEF Ack
    <3>2. AckWord \in Instruction
      BY HostAssumption DEF AckWord, Instruction, Opcodes
    <3>3. Payload("ack", AckWord)'
      BY <3>2 DEF Payload
    <3>. QED
      BY <1>3, <3>1, <3>3, StartedWrite DEF WriteAddr
  <2>3. CASE Burst
    BY <2>3 DEF Burst
  <2>4. CASE Poll \/ SeeIrq \/ ReadStatus
    BY <1>2, <2>4, StartedRead DEF Poll, SeeIrq, ReadStatus, Writing, WriteKinds
  <2>. QED
    BY <1>4, <2>1, <2>2, <2>3, <2>4 DEF HostStart
<1>5. CASE WriteGoesOn(in)
  <2>. DEFINE addr  == IF AwReady /\ in.aw # None THEN None ELSE txn.addr
              beats == IF WReady /\ in.w # None THEN Tail(txn.beats) ELSE txn.beats
              got   == txn.got \/ (b # None /\ in.bready)
  <2>1. Writing
    BY <1>5 DEF WriteGoesOn, Writing
  <2>2. IF got /\ beats = <<>> THEN txn' = None
        ELSE /\ txn' # None /\ txn'.kind = txn.kind /\ txn'.addr = addr
             /\ txn'.beats = beats /\ txn'.got = got
    BY <1>5, WriteFields DEF AddrLeft, BeatsLeft, GotNow
  <2>3. CASE CanProcessW
    <3>1. WriteResp # None
      BY NoneAssumption DEF WriteResp, Resp
    <3>2. aw' = None /\ w' = None /\ b' = WriteResp
      BY <1>1, <2>3 DEF WriteFSM, HoldWrite, ProcessWrite, SendB, CanProcessW
    <3>3. ~AwReady /\ ~WReady
      BY <2>3 DEF AwReady, WReady, CanProcessW
    <3>. QED
      BY <2>2, <2>3, <3>1, <3>2, <3>3, Processed DEF WriteChannel, Writing, Answered
  <2>4. CASE b = None /\ ~CanProcessW
    <3>1. Requesting /\ txn.kind \in {"push", "ack"} /\ txn.got = FALSE
      BY <2>1, <2>4 DEF WriteChannel, Answered
    <3>2. /\ b' = None /\ aw' = (IF AwReady THEN in.aw ELSE aw)
          /\ w' = IF WReady THEN in.w ELSE w
      BY <1>1, <2>4 DEF WriteFSM, HoldWrite, ProcessWrite, SendB
    <3>3. txn' # None /\ txn'.kind = txn.kind /\ txn'.got = FALSE /\ tag' = tag
      BY <1>5, <2>2, <2>4, <3>1 DEF WriteGoesOn
    <3>4. (AddrSent \/ AddrKept)'
      <4>1. in.aw = IF v.aw THEN txn.addr ELSE None
        BY <2>1 DEF HostPins, Writing
      <4>2. WriteAddr(txn.kind) # None
        BY NoneAssumption DEF WriteAddr, Address, Offsets
      <4>. QED
        BY <2>2, <2>4, <3>1, <3>2, <3>3, <4>1, <4>2
           DEF Requesting, AddrSent, AddrKept, AwReady, WriteAddr
    <3>5. (DataSent \/ DataKept)'
      <4>1. CASE DataSent
        <5>1. w # None
          BY <4>1, NoneAssumption DEF DataSent, Payload
        <5>. QED
          BY <2>2, <2>4, <3>1, <3>2, <3>3, <4>1, <5>1 DEF DataSent, Payload, WReady
      <4>2. CASE DataKept
        <5>1. txn.beats \in Seq(Instruction) /\ txn.beats # <<>>
          BY <2>1, <4>2 DEF DataKept, HandlerInv, TypeOK, Txn, Writing
        <5>2. Head(txn.beats) = txn.beats[1] /\ Tail(txn.beats) = <<>>
          <6>1. Len(txn.beats) = 1
            BY <4>2 DEF DataKept
          <6>. QED
            BY <5>1, <6>1, SingleBeat
        <5>3. in.w = IF v.w THEN txn.beats[1] ELSE None
          BY <2>1, <5>1, <5>2 DEF HostPins, Writing
        <5>. QED
          BY <2>2, <2>4, <3>1, <3>2, <3>3, <4>2, <5>2, <5>3, NoneAssumption
             DEF DataSent, DataKept, Payload, WReady
      <4>. QED
        BY <3>1, <4>1, <4>2 DEF Requesting
    <3>. QED
      BY <2>1, <3>1, <3>2, <3>3, <3>4, <3>5 DEF WriteChannel, Writing, Requesting
  <2>5. CASE b # None
    <3>1. Answered /\ txn.kind \in {"push", "ack"} /\ txn.got = FALSE
      BY <2>1, <2>5 DEF WriteChannel, Requesting
    <3>2. aw' = aw /\ w' = w /\ b' = IF in.bready THEN None ELSE b
      BY <1>1, <2>5 DEF WriteFSM, HoldWrite, ProcessWrite, SendB, CanProcessW
    <3>. QED
      BY <2>1, <2>2, <2>5, <3>1, <3>2 DEF WriteChannel, Writing, Answered, AwReady, WReady
  <2>. QED
    BY <2>3, <2>4, <2>5
<1>6. CASE ReadGoesOn(in)
  <2>1. ~Writing
    BY <1>6 DEF ReadGoesOn, Writing, ReadKinds, WriteKinds
  <2>2. ~Writing'
    <3>1. txn \in Txn
      BY <1>6 DEF ReadGoesOn, HandlerInv, TypeOK
    <3>2. txn' = None \/ txn'.kind = txn.kind
      BY <1>6, <3>1 DEF ReadGoesOn, Txn
    <3>. QED
      BY <1>6, <3>2 DEF ReadGoesOn, Writing, ReadKinds, WriteKinds
  <2>. QED
    BY <1>2, <2>1, <2>2
<1>7. CASE Think
  BY <1>2, <1>7 DEF Think, hostVars, Writing
<1>. QED
  BY <1>1, <1>4, <1>5, <1>6, <1>7 DEF HostStep

\* What a read access does to its fields.
LEMMA ReadFields ==
  ASSUME HandlerInv, NEW v \in Levels, ReadGoesOn(HostPins(v)), ~(r # None /\ HostPins(v).rready)
  PROVE  /\ txn' # None /\ txn'.kind = txn.kind
         /\ txn'.addr = IF ArReady /\ HostPins(v).ar # None THEN None ELSE txn.addr
<1>. DEFINE addr == IF ArReady /\ HostPins(v).ar # None THEN None ELSE txn.addr
<1>1. txn \in Txn
  BY DEF ReadGoesOn, HandlerInv, TypeOK
<1>2. txn' = [txn EXCEPT !.addr = addr]
  BY DEF ReadGoesOn
<1>3. addr \in Address \cup {None}
  BY <1>1 DEF Txn
<1>4. txn' \in Txn /\ txn'.kind = txn.kind /\ txn'.addr = addr
  BY <1>1, <1>2, <1>3 DEF Txn
<1>. QED
  BY <1>4, TxnAssumption

LEMMA StatusWordType ==
  ASSUME HandlerInv
  PROVE  StatusWord \in Status
<1>1. (dispState # "idle") \in BOOLEAN /\ lastOpc \in Opcodes /\ irqPend \in BOOLEAN
      /\ errorReg \in {"NONE", "INVALID_OPCODE"}
  BY DEF HandlerInv, TypeOK, HandlerTypeOK
<1>. QED
  BY <1>1 DEF StatusWord, Status

\* The only register the software reads is the status word.
LEMMA StatusRead ==
  ASSUME HandlerInv, ar = StatusAddr
  PROVE  ReadResp.data = StatusWord /\ ReadResp # None
<1>1. StatusWord \in Status
  BY StatusWordType
<1>2. ReadResp = [resp |-> "OKAY", data |-> StatusWord]
  BY DEF ReadResp, StatusAddr
<1>3. ReadResp \in ReadBeat
  BY <1>1, <1>2 DEF ReadBeat, Resp
<1>. QED
  BY <1>2, <1>3, NoneAssumption

LEMMA ReadChannelStep ==
  ASSUME HandlerInv, ReadChannel, NEW v \in Levels, Cycle(v)
  PROVE  ReadChannel'
<1>. DEFINE in == HostPins(v)
<1>1. ReadFSM(in) /\ HostStep(in)
  BY DEF Cycle, HandlerTick
<1>2. ASSUME ~Reading PROVE ar' = None /\ r' = None
  BY <1>1, <1>2, PinsLow
     DEF ReadChannel, ReadFSM, HoldRead, ProcessRead, SendR, CanProcessR
<1>3. ASSUME txn' = ReadTxn("poll") \/ txn' = ReadTxn("status"), txn = None PROVE ReadChannel'
  BY <1>2, <1>3, StartedRead DEF Reading, ReadChannel
<1>4. ASSUME ~Reading, ~Reading' PROVE ReadChannel'
  BY <1>2, <1>4 DEF ReadChannel
<1>5. CASE HostStart
  <2>1. CASE Poll \/ ReadStatus
    BY <1>3, <2>1 DEF Poll, ReadStatus
  <2>2. CASE SeeIrq
    BY <1>4, <2>2 DEF SeeIrq, Reading
  <2>3. CASE Push \/ Ack \/ Burst
    BY <1>4, <2>3 DEF Push, Ack, Burst, Reading, ReadKinds, WriteTxn
  <2>. QED
    BY <1>5, <2>1, <2>2, <2>3 DEF HostStart
<1>6. CASE WriteGoesOn(in)
  <2>1. ~Reading
    BY <1>6 DEF WriteGoesOn, Reading, ReadKinds, WriteKinds
  <2>2. ~Reading'
    BY <1>6, WriteFields DEF WriteGoesOn, Reading, ReadKinds, WriteKinds
  <2>. QED
    BY <1>4, <2>1, <2>2
<1>7. CASE ReadGoesOn(in)
  <2>1. Reading
    BY <1>7 DEF ReadGoesOn, Reading
  <2>2. CASE r # None /\ in.rready
    BY <1>1, <1>7, <2>1, <2>2
       DEF ReadGoesOn, ReadChannel, Reading, ReadFSM, HoldRead, ProcessRead, SendR, ArReady,
           CanProcessR
  <2>3. CASE ~(r # None /\ in.rready)
    <3>1. txn' # None /\ txn'.kind = txn.kind /\ Reading'
          /\ txn'.addr = IF ArReady /\ in.ar # None THEN None ELSE txn.addr
      BY <1>7, <2>1, <2>3, ReadFields DEF Reading
    <3>2. in.ar = IF v.ar THEN txn.addr ELSE None
      BY <2>1 DEF HostPins, Reading
    <3>3. StatusAddr # None
      BY NoneAssumption DEF StatusAddr, Address, Offsets
    <3>4. CASE txn.addr = StatusAddr /\ ar = None /\ r = None
      BY <1>1, <3>1, <3>2, <3>3, <3>4
         DEF ReadChannel, ReadFSM, HoldRead, ProcessRead, SendR, ArReady, CanProcessR
    <3>5. CASE txn.addr = None /\ ar = StatusAddr /\ r = None
      <4>1. ar' = None /\ r' = ReadResp
        BY <1>1, <3>3, <3>5
           DEF ReadFSM, HoldRead, ProcessRead, SendR, ArReady, CanProcessR
      <4>. QED
        BY <3>1, <3>3, <3>5, <4>1, StatusRead, StatusWordType DEF ReadChannel, ArReady
    <3>6. CASE txn.addr = None /\ ar = None /\ r # None /\ r.data \in Status
      BY <1>1, <2>3, <3>1, <3>6
         DEF ReadChannel, ReadFSM, HoldRead, ProcessRead, SendR, ArReady, CanProcessR
    <3>. QED
      BY <2>1, <3>4, <3>5, <3>6 DEF ReadChannel
  <2>. QED
    BY <2>2, <2>3
<1>8. CASE Think
  BY <1>3, <1>4, <1>8, <1>2 DEF Think, hostVars, Reading
<1>. QED
  BY <1>1, <1>5, <1>6, <1>7, <1>8 DEF HostStep

-----------------------------------------------------------------------------
(* The driver's thread.                                                    *)

\* What a cycle does to the counters, and which event each phase leaves room for.
LEMMA Events ==
  ASSUME DriverInv, NEW v \in Levels, Cycle(v)
  PROVE  /\ Len(accepted') = Len(accepted) + IF InstrAccept THEN 1 ELSE 0
         /\ Len(outcomes') = Len(outcomes) + IF CompletionPulse THEN 1 ELSE 0
         /\ irqPend' = (CompletionPulse \/ (irqPend /\ ~IrqAck))
         /\ unacked' = (IF IrqAck THEN 0 ELSE unacked) + (IF CompletionPulse THEN 1 ELSE 0)
         /\ CompletionPulse => phase = "await" /\ ~irqPend /\ ~Unaccepted
         /\ InstrAccept <=> (Unaccepted /\ CanProcessW)
         /\ IrqAck <=> (CanProcessW /\ txn.kind = "ack")
         /\ Unaccepted /\ CanProcessW => WriteResp = "OKAY"
<1>1. PendingReg /\ Record /\ IrqReg
  BY DEF Cycle, HandlerTick
<1>2. HandlerInv /\ WriteChannel /\ TypeOK /\ Whereabouts /\ Counts
  BY DEF DriverInv, ChannelInv, HandlerInv
<1>3. /\ accepted \in Seq(Instruction) /\ outcomes \in Seq(Seq(Instruction))
      /\ Len(accepted) \in Nat /\ Len(outcomes) \in Nat /\ tag \in Nat \ {0}
      /\ phase \in {"issue", "await", "status", "ack"} /\ irqPend \in BOOLEAN
  BY <1>2 DEF TypeOK, HandlerTypeOK
<1>4. Len(accepted') = Len(accepted) + IF InstrAccept THEN 1 ELSE 0
  BY <1>1, <1>2, AcceptEnd
<1>5. Len(outcomes') = Len(outcomes) + IF CompletionPulse THEN 1 ELSE 0
  BY <1>1, <1>3 DEF Record
<1>6. CompletionPulse => phase = "await" /\ ~irqPend /\ ~Unaccepted
  BY <1>2, <1>3 DEF CompletionPulse, Whereabouts, Counts
<1>7. Unaccepted => pending = None /\ phase = "await"
  <2>. SUFFICES ASSUME Unaccepted PROVE pending = None /\ phase = "await"
    OBVIOUS
  <2>1. phase = "await"
    BY <1>2, <1>3 DEF Unaccepted, Counts, InFlight
  <2>2. Len(accepted) = tag - 2 /\ Len(outcomes) \in {tag - 2, tag - 1}
    BY <1>2, <1>3 DEF Counts
  <2>3. Len(accepted) = Len(outcomes) + (IF dispState = "idle" THEN 0 ELSE 1)
                                      + (IF pending = None THEN 0 ELSE 1)
    BY <1>2 DEF Whereabouts
  <2>4. Len(accepted) \in Nat /\ Len(outcomes) \in Nat /\ tag \in Nat
    BY <1>3
  <2>5. pending = None
    <3>1. SUFFICES ASSUME pending # None PROVE FALSE
      OBVIOUS
    <3>2. Len(accepted) = Len(outcomes) + (IF dispState = "idle" THEN 0 ELSE 1) + 1
      BY <2>3, <3>1
    <3>. QED
      BY <2>2, <2>4, <3>2
  <2>. QED
    BY <2>1, <2>5
<1>8. CanProcessW => /\ txn # None /\ txn.kind \in {"push", "ack"} /\ b = None
                     /\ aw = WriteAddr(txn.kind)
  BY <1>2, Processed DEF Writing
<1>9. InstrAccept <=> (Unaccepted /\ CanProcessW)
  BY <1>7, <1>8 DEF InstrAccept, Writes, WriteAddr, Unaccepted
<1>10. IrqAck <=> (CanProcessW /\ txn.kind = "ack")
  BY <1>8 DEF IrqAck, Writes, WriteAddr
<1>11. Unaccepted /\ CanProcessW => WriteResp = "OKAY"
  BY <1>7, <1>8 DEF WriteResp, WriteAddr, Unaccepted
<1>. QED
  BY <1>1, <1>4, <1>5, <1>6, <1>9, <1>10, <1>11 DEF IrqReg, Record

\* The write response register over a cycle.
LEMMA Responses ==
  ASSUME NEW v \in Levels, Cycle(v), WriteChannel
  PROVE  /\ CanProcessW => b' = WriteResp /\ b' # None /\ b = None
         /\ b = None /\ ~CanProcessW => b' = None
         /\ b # None => b' = IF HostPins(v).bready THEN None ELSE b
<1>1. WriteFSM(HostPins(v))
  BY DEF Cycle, HandlerTick
<1>2. WriteResp # None
  BY NoneAssumption DEF WriteResp, Resp
<1>. QED
  BY <1>1, <1>2 DEF WriteFSM, HoldWrite, ProcessWrite, SendB, CanProcessW

LEMMA StartsPush ==
  ASSUME HandlerInv, Push
  PROVE  txn' # None /\ txn'.kind = "push"
<1>1. PICK op \in HostOps :
        txn' = WriteTxn("push", [off |-> "INSTR_WRITE", len |-> 0], <<Instr(op, tag)>>)
  BY DEF Push
<1>2. Instr(op, tag) \in Instruction
  BY HostAssumption DEF Push, Instr, Instruction, HandlerInv, TypeOK
<1>3. <<Instr(op, tag)>> \in Seq(Instruction)
  BY <1>2
<1>4. txn' \in Txn
  BY <1>1, <1>3, WriteTxnType, WriteAddresses
<1>. QED
  BY <1>1, <1>4, TxnAssumption DEF WriteTxn

LEMMA StartsAck ==
  ASSUME Ack
  PROVE  txn' # None /\ txn'.kind = "ack"
<1>1. txn' = WriteTxn("ack", [off |-> "IRQ_ACK", len |-> 0], <<AckWord>>)
  BY DEF Ack
<1>2. AckWord \in Instruction
  BY HostAssumption DEF AckWord, Instruction, Opcodes
<1>3. <<AckWord>> \in Seq(Instruction)
  BY <1>2
<1>4. txn' \in Txn
  BY <1>1, <1>3, WriteTxnType, WriteAddresses
<1>. QED
  BY <1>1, <1>4, TxnAssumption DEF WriteTxn

LEMMA CountsStep ==
  ASSUME DriverInv, Host = "driver", Bursts = FALSE, NEW v \in Levels, Cycle(v)
  PROVE  Counts'
<1>. DEFINE in == HostPins(v)
<1>1. HostStep(in)
  BY DEF Cycle
<1>2. /\ HandlerInv /\ WriteChannel /\ Counts
      /\ Len(accepted) \in Nat /\ Len(outcomes) \in Nat /\ tag \in Nat \ {0}
      /\ phase \in {"issue", "await", "status", "ack"} /\ irqPend \in BOOLEAN /\ unacked \in Nat
  BY DEF DriverInv, ChannelInv, HandlerInv, TypeOK, HandlerTypeOK
<1>3. txn = None => b = None /\ ~CanProcessW /\ b' = None
  BY <1>2, Processed, Responses DEF WriteChannel, Writing
<1>4. ASSUME ~CanProcessW, phase # "await" \/ irqPend
      PROVE  /\ Len(accepted') = Len(accepted) /\ Len(outcomes') = Len(outcomes)
             /\ irqPend' = irqPend /\ unacked' = unacked
  BY <1>2, <1>4, Events
<1>5. CASE Push
  <2>1. txn' # None /\ txn'.kind = "push" /\ b' = None
    BY <1>2, <1>3, <1>5, StartsPush DEF Push
  <2>2. /\ txn = None /\ phase = "issue" /\ phase' = "await" /\ tag' = tag + 1
        /\ Len(accepted) = tag - 1 /\ Len(outcomes) = tag - 1 /\ irqPend = FALSE /\ unacked = 0
    BY <1>2, <1>5 DEF Push, Counts, Unaccepted
  <2>3. /\ Len(accepted') = tag' - 2 /\ Len(outcomes') = tag' - 2 /\ irqPend' = FALSE
        /\ unacked' = 0 /\ tag' > 1
    BY <1>2, <1>3, <1>4, <2>2
  <2>. QED
    BY <2>1, <2>2, <2>3 DEF Counts, Unaccepted, InFlight
<1>6. CASE Ack
  <2>1. txn' # None /\ txn'.kind = "ack" /\ b' = None
    BY <1>3, <1>6, StartsAck DEF Ack
  <2>2. /\ txn = None /\ phase = "ack" /\ phase' = "issue" /\ tag' = tag
        /\ Len(accepted) = tag - 1 /\ Len(outcomes) = tag - 1 /\ irqPend = TRUE /\ unacked = 1
    BY <1>2, <1>6 DEF Ack, Counts, Unaccepted
  <2>3. /\ Len(accepted') = tag - 1 /\ Len(outcomes') = tag - 1 /\ irqPend' = TRUE
        /\ unacked' = 1
    BY <1>2, <1>3, <1>4, <2>2
  <2>. QED
    BY <2>1, <2>2, <2>3 DEF Counts, Unaccepted, InFlight
<1>7. CASE Burst
  BY <1>7 DEF Burst
\* The thread waits, polls or is between two accesses; a completion may come.
<1>8. ASSUME tag' = tag, ~Unaccepted, ~Unaccepted', ~CanProcessW, phase = "await",
             phase' = "await" \/ (phase' = "status" /\ irqPend),
             txn' # None => <<phase', txn'.kind>> \in InFlight,
             txn' # None /\ txn'.kind = "push" /\ b' # None => b' = "OKAY"
      PROVE  Counts'
  <2>1. /\ Len(accepted) = tag - 1 /\ tag > 1
        /\ Len(outcomes) = (IF irqPend THEN tag - 1 ELSE tag - 2)
        /\ unacked = IF irqPend THEN 1 ELSE 0
    BY <1>2, <1>8 DEF Counts
  <2>2. CASE CompletionPulse
    <3>1. irqPend = FALSE /\ irqPend' = TRUE /\ ~IrqAck /\ ~InstrAccept
      BY <1>2, <1>8, <2>2, Events
    <3>2. Len(outcomes) = tag - 2 /\ unacked = 0
      BY <2>1, <3>1
    <3>3. Len(accepted') = tag - 1 /\ Len(outcomes') = tag - 1 /\ unacked' = 1
      <4>1. /\ Len(accepted') = Len(accepted) + IF InstrAccept THEN 1 ELSE 0
            /\ Len(outcomes') = Len(outcomes) + IF CompletionPulse THEN 1 ELSE 0
            /\ unacked' = (IF IrqAck THEN 0 ELSE unacked) + (IF CompletionPulse THEN 1 ELSE 0)
        BY Events
      <4>2. Len(accepted') = Len(accepted) /\ Len(outcomes') = Len(outcomes) + 1 /\ unacked' = unacked + 1
        BY <1>2, <2>2, <3>1, <4>1
      <4>. QED
        BY <1>2, <2>1, <3>2, <4>2
    <3>. QED
      BY <1>2, <1>8, <2>1, <3>1, <3>3 DEF Counts
  <2>3. CASE ~CompletionPulse
    <3>1. /\ Len(accepted') = tag - 1 /\ Len(outcomes') = Len(outcomes)
          /\ irqPend' = irqPend /\ unacked' = unacked
      BY <1>2, <1>8, <2>1, <2>3, Events
    <3>. QED
      BY <1>2, <1>8, <2>1, <3>1 DEF Counts
  <2>. QED
    BY <2>2, <2>3
\* Its own instruction has been retired and waits for the acknowledge.
<1>9. ASSUME tag' = tag, txn # None => txn.kind = "status", ~CanProcessW, phase = "status",
             phase' \in {"status", "ack"}, txn' # None => phase' = "status" /\ txn'.kind = "status"
      PROVE  Counts'
  <2>1. /\ Len(accepted) = tag - 1 /\ Len(outcomes) = tag - 1 /\ irqPend = TRUE
        /\ unacked = 1 /\ tag > 1
    BY <1>2, <1>9 DEF Counts, Unaccepted
  <2>2. /\ Len(accepted') = tag - 1 /\ Len(outcomes') = tag - 1 /\ irqPend' = TRUE
        /\ unacked' = 1
    BY <1>2, <1>4, <1>9, <2>1
  <2>. QED
    BY <1>9, <2>1, <2>2 DEF Counts, Unaccepted, InFlight
<1>10. CASE Poll
  BY <1>3, <1>8, <1>10, StartedRead DEF Poll, Unaccepted, InFlight
<1>11. CASE SeeIrq
  BY <1>3, <1>8, <1>11 DEF SeeIrq, Unaccepted
<1>12. CASE ReadStatus
  BY <1>3, <1>9, <1>12, StartedRead DEF ReadStatus
<1>13. CASE WriteGoesOn(in)
  <2>1. /\ txn # None /\ txn.kind \in {"push", "ack"} /\ txn.got = FALSE
        /\ (Requesting \/ Answered) /\ phase' = phase /\ tag' = tag
    BY <1>2, <1>13 DEF WriteGoesOn, WriteChannel, Writing
  <2>2. IF GotNow(in) /\ BeatsLeft(in) = <<>> THEN txn' = None
        ELSE txn' # None /\ txn'.kind = txn.kind
    BY <1>2, <1>13, WriteFields
  <2>3. b = None => txn' # None /\ txn'.kind = txn.kind
    BY <2>1, <2>2 DEF GotNow
  <2>4. b # None => /\ ~CanProcessW /\ BeatsLeft(in) = <<>> /\ GotNow(in) = in.bready
                    /\ b' = (IF in.bready THEN None ELSE b)
    <3>1. in.bready = v.bready /\ v.bready \in BOOLEAN
      BY DEF HostPins, Levels
    <3>. QED
      BY <1>2, <2>1, <3>1, Responses
         DEF Requesting, Answered, CanProcessW, BeatsLeft, GotNow, WReady
  <2>5. CASE txn.kind = "push"
    <3>1. phase = "await"
      BY <1>2, <2>1, <2>5 DEF Counts, InFlight
    <3>2. CASE b = None
      <4>1. Unaccepted /\ ~CompletionPulse /\ ~IrqAck
        BY <2>1, <2>5, <3>2, Events DEF Unaccepted
      <4>2. /\ Len(outcomes') = Len(outcomes) /\ irqPend' = irqPend /\ unacked' = unacked
            /\ Len(accepted) = tag - 2 /\ tag > 1
            /\ Len(accepted') = Len(accepted) + IF CanProcessW THEN 1 ELSE 0
        BY <1>2, <3>1, <4>1, Events DEF Counts
      <4>3. b' = IF CanProcessW THEN "OKAY" ELSE None
        BY <1>2, <3>2, <4>1, Responses, Events
      <4>4. CanProcessW => b' # None
        BY <1>2, Responses
      <4>5. Len(accepted') = IF Unaccepted' THEN tag - 2 ELSE tag - 1
        BY <1>2, <2>3, <2>5, <3>2, <4>2, <4>3, <4>4 DEF Unaccepted
      <4>. QED
        BY <1>2, <2>1, <2>3, <2>5, <3>1, <3>2, <4>2, <4>3, <4>4, <4>5 DEF Counts, InFlight
    <3>3. CASE b # None
      <4>1. ~Unaccepted /\ b = "OKAY"
        BY <1>2, <2>1, <2>5, <3>3 DEF Counts, Unaccepted
      <4>2. IF in.bready THEN txn' = None ELSE b' = b /\ txn'.kind = "push"
        BY <2>2, <2>4, <2>5, <3>3
      <4>. QED
        BY <1>8, <2>1, <2>4, <3>1, <3>3, <4>1, <4>2 DEF Unaccepted, InFlight
    <3>. QED
      BY <3>2, <3>3
  <2>6. CASE txn.kind = "ack"
    <3>1. /\ phase = "issue" /\ ~Unaccepted /\ ~CompletionPulse
          /\ Len(accepted) = tag - 1 /\ Len(outcomes) = tag - 1
      BY <1>2, <2>1, <2>6, Events DEF Counts, InFlight, Unaccepted
    <3>2. /\ Len(accepted') = tag - 1 /\ Len(outcomes') = tag - 1
          /\ irqPend' = (irqPend /\ ~CanProcessW)
          /\ unacked' = IF CanProcessW THEN 0 ELSE unacked
      BY <1>2, <2>6, <3>1, Events
    <3>3. txn' # None => txn'.kind = "ack"
      BY <2>2, <2>6
    <3>4. CASE b = None
      <4>1. irqPend = TRUE /\ unacked = 1
        BY <1>2, <2>1, <3>1, <3>4 DEF Counts
      <4>2. b' = None <=> ~CanProcessW
        BY <1>2, <3>4, Responses
      <4>. QED
        BY <2>1, <2>3, <2>6, <3>1, <3>2, <3>4, <4>1, <4>2 DEF Counts, Unaccepted, InFlight
    <3>5. CASE b # None
      <4>1. irqPend = FALSE /\ unacked = 0
        BY <1>2, <2>1, <3>1, <3>5 DEF Counts
      <4>2. txn' # None => b' # None
        BY <2>2, <2>4, <3>5
      <4>. QED
        BY <2>1, <2>4, <3>1, <3>2, <3>3, <3>5, <4>1, <4>2 DEF Counts, Unaccepted, InFlight
    <3>. QED
      BY <3>4, <3>5
  <2>. QED
    BY <2>1, <2>5, <2>6
<1>14. CASE ReadGoesOn(in)
  <2>1. ~CanProcessW /\ ~Writing /\ txn # None /\ tag' = tag
    BY <1>2, <1>14, Processed DEF ReadGoesOn, Writing, WriteKinds, ReadKinds
  <2>2. txn' # None => txn'.kind = txn.kind /\ phase' = phase
    BY <1>2, <1>14, ReadFields DEF ReadGoesOn
  <2>3. CASE txn.kind = "poll"
    <3>1. phase = "await"
      BY <1>2, <2>1, <2>3 DEF Counts, InFlight
    <3>2. phase' = "await" \/ (phase' = "status" /\ irqPend)
      BY <1>14, <2>3, <3>1 DEF ReadGoesOn, DriverInv, Snapshots
    <3>. QED
      BY <1>8, <2>1, <2>2, <2>3, <3>1, <3>2 DEF Unaccepted, InFlight
  <2>4. CASE txn.kind = "status"
    <3>1. phase = "status"
      BY <1>2, <2>1, <2>4 DEF Counts, InFlight
    <3>2. phase' \in {"status", "ack"}
      BY <1>14, <2>4, <3>1 DEF ReadGoesOn
    <3>. QED
      BY <1>9, <2>1, <2>2, <2>4, <3>1, <3>2
  <2>. QED
    BY <1>14, <2>3, <2>4 DEF ReadGoesOn, ReadKinds
<1>15. CASE Think
  <2>1. txn = None /\ txn' = None /\ tag' = tag /\ phase' = phase /\ ~CanProcessW
    BY <1>3, <1>15 DEF Think, hostVars
  <2>2. CASE phase \in {"issue", "ack"}
    BY <1>2, <1>4, <2>1, <2>2 DEF Counts, Unaccepted
  <2>3. CASE phase = "await"
    BY <1>8, <2>1, <2>3 DEF Unaccepted
  <2>4. CASE phase = "status"
    BY <1>9, <2>1, <2>4
  <2>. QED
    BY <1>2, <2>2, <2>3, <2>4
<1>. QED
  BY <1>1, <1>5, <1>6, <1>7, <1>10, <1>11, <1>12, <1>13, <1>14, <1>15 DEF HostStep, HostStart

\* With nothing outstanding the status word is the verdict on the last instruction.
LEMMA IdleDispatcher ==
  ASSUME DriverInv, phase \in {"status", "ack"}
  PROVE  /\ dispState = "idle" /\ pending = None /\ engine = None
         /\ Len(outcomes) = tag - 1 /\ Len(accepted) = tag - 1 /\ irqPend = TRUE
<1>1. /\ Len(accepted) = tag - 1 /\ Len(outcomes) = tag - 1 /\ irqPend = TRUE
  <2>1. Counts /\ irqPend \in BOOLEAN
    BY DEF DriverInv, ChannelInv, HandlerInv, TypeOK, HandlerTypeOK
  <2>2. ~Unaccepted
    BY <2>1 DEF Counts, InFlight, Unaccepted
  <2>. QED
    BY <2>1, <2>2 DEF Counts
<1>2. /\ Len(accepted) \in Nat
      /\ Len(accepted) = Len(outcomes) + (IF dispState = "idle" THEN 0 ELSE 1)
                                       + (IF pending = None THEN 0 ELSE 1)
  <2>1. TypeOK /\ Whereabouts
    BY DEF DriverInv, ChannelInv, HandlerInv
  <2>2. Len(accepted) \in Nat
    BY <2>1 DEF TypeOK
  <2>. QED
    BY <2>1, <2>2 DEF Whereabouts
<1>. DEFINE n == Len(accepted)
<1>3. dispState = "idle"
  <2>. SUFFICES ASSUME dispState # "idle" PROVE FALSE
    OBVIOUS
  <2>1. n = n + 1 + (IF pending = None THEN 0 ELSE 1)
    BY <1>1, <1>2
  <2>2. n = n + 1 \/ n = n + 1 + 1
    BY <2>1
  <2>. QED
    BY <1>2, <2>2
<1>4. pending = None
  <2>. SUFFICES ASSUME pending # None PROVE FALSE
    OBVIOUS
  <2>1. n = n + 0 + 1
    BY <1>1, <1>2, <1>3
  <2>. QED
    BY <1>2, <2>1
<1>5. engine = None
  BY <1>3 DEF DriverInv, ChannelInv, Verdicts
<1>. QED
  BY <1>1, <1>3, <1>4, <1>5

LEMMA StatusIsVerdict ==
  ASSUME DriverInv, phase = "status"
  PROVE  StatusWord = Verdict
<1>1. /\ dispState = "idle" /\ Len(outcomes) = tag - 1 /\ irqPend = TRUE
  BY IdleDispatcher
<1>2. outcomes # <<>>
  <2>1. tag > 1 /\ tag \in Nat
    BY DEF DriverInv, Counts, ChannelInv, HandlerInv, TypeOK
  <2>. QED
    BY <1>1, <2>1
<1>3. lastOpc = accepted[tag - 1].op /\ errorReg = ErrorOf(accepted[tag - 1].op)
  BY <1>1, <1>2 DEF DriverInv, ChannelInv, Verdicts
<1>. QED
  BY <1>1, <1>3 DEF StatusWord, Verdict

LEMMA SnapshotsStep ==
  ASSUME DriverInv, Host = "driver", Bursts = FALSE, NEW v \in Levels, Cycle(v)
  PROVE  Snapshots'
<1>. DEFINE in == HostPins(v)
<1>1. HostStep(in) /\ ReadFSM(in) /\ Record
  BY DEF Cycle, HandlerTick
<1>2. HandlerInv /\ WriteChannel /\ ReadChannel /\ Counts /\ Snapshots
      /\ phase \in {"issue", "await", "status", "ack"} /\ irqPend \in BOOLEAN
  BY DEF DriverInv, ChannelInv, HandlerInv, TypeOK, HandlerTypeOK
<1>3. ASSUME phase \in {"status", "ack"}, tag' = tag PROVE Verdict' = Verdict
  <2>1. ~Unaccepted
    BY <1>2, <1>3 DEF Counts, InFlight, Unaccepted
  <2>2. accepted' = accepted
    BY <1>1, <2>1, Events DEF Record
  <2>. QED
    BY <1>3, <2>2 DEF Verdict
\* A response in the register is one to the thread's read access.
<1>4. ASSUME r' # None
      PROVE  /\ Reading /\ ReadGoesOn(in) /\ ~(r # None /\ in.rready)
             /\ phase' = phase /\ tag' = tag /\ (irqPend => irqPend')
             /\ <<phase, txn.kind>> \in {<<"await", "poll">>, <<"status", "status">>}
             /\ IF r = None THEN r'.data = StatusWord ELSE r' = r
  <2>1. Reading
    BY <1>1, <1>2, <1>4, PinsLow
       DEF ReadChannel, ReadFSM, HoldRead, ProcessRead, SendR, CanProcessR
  <2>2. ReadGoesOn(in)
    BY <1>1, <2>1 DEF Reading, ReadKinds, WriteKinds, HostStep, HostStart, Push, Ack, Burst,
       Poll, SeeIrq, ReadStatus, WriteGoesOn, Think
  <2>3. ~(r # None /\ in.rready)
    BY <1>1, <1>4 DEF ReadFSM, HoldRead, ProcessRead, SendR, CanProcessR, ArReady
  <2>4. phase' = phase /\ tag' = tag
    BY <2>2, <2>3 DEF ReadGoesOn
  <2>5. ~CanProcessW
    BY <1>2, <2>1, Processed DEF Writing, Reading, ReadKinds, WriteKinds
  <2>6. irqPend => irqPend'
    BY <2>5, Events
  <2>7. <<phase, txn.kind>> \in {<<"await", "poll">>, <<"status", "status">>}
    BY <1>2, <2>1 DEF Reading, ReadKinds, Counts, InFlight
  <2>8. IF r = None THEN r'.data = StatusWord ELSE r' = r
    <3>1. CASE r = None
      <4>1. ar # None /\ r' = ReadResp
        BY <1>1, <1>4, <3>1 DEF ReadFSM, HoldRead, ProcessRead, SendR, CanProcessR
      <4>2. ar = StatusAddr
        BY <1>2, <2>1, <4>1 DEF ReadChannel
      <4>. QED
        BY <1>2, <3>1, <4>1, <4>2, StatusRead
    <3>2. CASE r # None
      BY <1>1, <2>3, <3>2 DEF ReadFSM, HoldRead, ProcessRead, SendR, CanProcessR, ArReady
    <3>. QED
      BY <3>1, <3>2
  <2>. QED
    BY <2>1, <2>2, <2>3, <2>4, <2>6, <2>7, <2>8
<1>5. ASSUME phase' = "await", r' # None, r'.data.irq PROVE irqPend'
  <2>1. CASE r = None
    <3>1. StatusWord.irq
      BY <1>4, <1>5, <2>1
    <3>. QED
      BY <1>4, <1>5, <3>1 DEF StatusWord
  <2>2. CASE r # None
    BY <1>2, <1>4, <1>5, <2>2 DEF Snapshots
  <2>. QED
    BY <2>1, <2>2
<1>6. ASSUME phase' = "status", r' # None PROVE r'.data = Verdict'
  <2>1. phase = "status" /\ Verdict' = Verdict
    BY <1>3, <1>4, <1>6
  <2>. QED
    BY <1>2, <1>4, <1>6, <2>1, StatusIsVerdict DEF Snapshots
<1>7. ASSUME phase' = "ack" PROVE word' = Verdict'
  <2>1. CASE phase = "ack"
    <3>1. txn = None
      BY <1>2, <2>1 DEF Counts, InFlight
    <3>2. word' = word /\ tag' = tag
      BY <1>1, <1>7, <2>1, <3>1 DEF HostStep, HostStart, Push, Ack, Burst, Poll, SeeIrq,
         ReadStatus, WriteGoesOn, ReadGoesOn, Think, hostVars
    <3>. QED
      BY <1>2, <1>3, <2>1, <3>2 DEF Snapshots
  <2>2. CASE phase # "ack"
    <3>1. ReadGoesOn(in) /\ r # None /\ phase = "status" /\ word' = r.data /\ tag' = tag
      BY <1>1, <1>7, <2>2 DEF HostStep, HostStart, Push, Ack, Burst, Poll, SeeIrq,
         ReadStatus, WriteGoesOn, ReadGoesOn, Think, hostVars
    <3>. QED
      BY <1>2, <1>3, <3>1 DEF Snapshots
  <2>. QED
    BY <2>1, <2>2
<1>. QED
  BY <1>5, <1>6, <1>7 DEF Snapshots

-----------------------------------------------------------------------------
(* The inductive invariants.                                               *)

LEMMA ChannelInit == Init => ChannelInv
  BY InvInit DEF Init, HandlerInit, ChannelInv, Verdicts, WriteChannel, ReadChannel, Writing,
     Reading

LEMMA DriverInit == Init => DriverInv
  BY ChannelInit DEF Init, HandlerInit, DriverInv, Counts, Snapshots, Unaccepted

LEMMA Stutter ==
  ASSUME UNCHANGED vars
  PROVE  (ChannelInv => ChannelInv') /\ (DriverInv => DriverInv')
<1>1. UNCHANGED <<aw, w, b, ar, r, pending, dispState, inst, errorReg, lastOpc, irqPend,
                  txn, tag, phase, word, engine, accepted, ran, outcomes, unacked>>
  BY DEF vars, handlerVars, hostVars, histVars
<1>2. HandlerInv => HandlerInv'
  BY InvStep
<1>3. Verdicts' = Verdicts
  BY <1>1 DEF Verdicts
<1>4. WriteChannel' = WriteChannel
  BY <1>1 DEF WriteChannel, Writing, Requesting, Answered, AddrSent, AddrKept, DataSent, DataKept,
     Payload
<1>5. ReadChannel' = ReadChannel
  BY <1>1 DEF ReadChannel, Reading
<1>6. Counts' = Counts
  BY <1>1 DEF Counts, Unaccepted
<1>7. Snapshots' = Snapshots
  BY <1>1 DEF Snapshots, Verdict
<1>. QED
  BY <1>2, <1>3, <1>4, <1>5, <1>6, <1>7 DEF ChannelInv, DriverInv

LEMMA ChannelCycle ==
  ASSUME ChannelInv, Bursts = FALSE, NEW v \in Levels, Cycle(v)
  PROVE  ChannelInv'
<1>1. HandlerInv'
  BY InvStep DEF Next, ChannelInv
<1>. QED
  BY <1>1, VerdictsStep, WriteChannelStep, ReadChannelStep DEF ChannelInv

LEMMA ChannelInvariance ==
  ASSUME Bursts = FALSE
  PROVE  Spec => []ChannelInv
<1>1. ChannelInv /\ [Next]_vars => ChannelInv'
  BY Stutter, ChannelCycle DEF Next
<1>. QED
  BY <1>1, ChannelInit, PTL DEF Spec

LEMMA DriverCycle ==
  ASSUME DriverInv, Host = "driver", Bursts = FALSE, NEW v \in Levels, Cycle(v)
  PROVE  DriverInv'
  BY ChannelCycle, CountsStep, SnapshotsStep DEF DriverInv

LEMMA DriverInvariance ==
  ASSUME Host = "driver", Bursts = FALSE
  PROVE  Spec => []DriverInv
<1>1. DriverInv /\ [Next]_vars => DriverInv'
  BY DriverCycle, Stutter DEF Next
<1>. QED
  BY <1>1, DriverInit, PTL DEF Spec

-----------------------------------------------------------------------------
(* What follows for the software.                                          *)

\* What the handler takes is what the write in flight carried.
LEMMA PairedBeats == ChannelInv => AcceptedIsWritten
<1>. SUFFICES ASSUME ChannelInv, InstrAccept PROVE AcceptedIsWritten
  BY DEF AcceptedIsWritten
<1>1. /\ Writing /\ txn.kind \in {"push", "ack"} /\ txn.addr = None /\ txn.beats = <<>>
      /\ aw = WriteAddr(txn.kind) /\ Payload(txn.kind, w)
  BY Processed DEF ChannelInv, InstrAccept, Writes
<1>2. txn.kind = "push"
  BY <1>1 DEF InstrAccept, Writes, WriteAddr
<1>. QED
  BY <1>1, <1>2 DEF AcceptedIsWritten, Writing, Payload

\* The AW and W beats the handler pairs up are those of one transaction, for
\* any host that issues single-beat writes in any order.
THEOREM BeatsPairUp ==
  ASSUME Bursts = FALSE
  PROVE  Spec => []AcceptedIsWritten
  BY PairedBeats, ChannelInvariance, PTL

\* What the driver's invariant says to the software.
LEMMA DriverFacts ==
  DriverInv => IrqNeverDropped /\ PushNeverRefused /\ CompletionIsMine /\ StatusIsOfCompleted
<1>. SUFFICES ASSUME DriverInv
              PROVE  IrqNeverDropped /\ PushNeverRefused /\ CompletionIsMine /\ StatusIsOfCompleted
  OBVIOUS
<1>1. IrqNeverDropped
  BY DEF DriverInv, Counts, IrqNeverDropped
<1>2. PushNeverRefused
  <2>. SUFFICES ASSUME b # None, txn.kind = "push" PROVE b = "OKAY"
    BY DEF PushNeverRefused
  <2>1. txn # None
    BY DEF DriverInv, ChannelInv, WriteChannel, Writing
  <2>. QED
    BY <2>1 DEF DriverInv, Counts
<1>3. CompletionIsMine
  BY IdleDispatcher DEF CompletionIsMine
<1>4. StatusIsOfCompleted
  BY DEF DriverInv, Snapshots, Verdict, ErrorOf, StatusIsOfCompleted
<1>. QED
  BY <1>1, <1>2, <1>3, <1>4

\* No acknowledge of the driver's thread covers two completions.
THEOREM EveryInterruptSeen ==
  ASSUME Host = "driver", Bursts = FALSE
  PROVE  Spec => []IrqNeverDropped
  BY DriverFacts, DriverInvariance, PTL

\* The one-entry buffer is empty whenever the driver's thread pushes.
THEOREM BufferSuffices ==
  ASSUME Host = "driver", Bursts = FALSE
  PROVE  Spec => []PushNeverRefused
  BY DriverFacts, DriverInvariance, PTL

\* mmfree_wait_done returns when its own instruction has been retired.
THEOREM WaitSeesOwnCompletion ==
  ASSUME Host = "driver", Bursts = FALSE
  PROVE  Spec => []CompletionIsMine
  BY DriverFacts, DriverInvariance, PTL

\* The status word mmfree_wait_done returns is the verdict on its instruction.
THEOREM WaitReturnsOwnVerdict ==
  ASSUME Host = "driver", Bursts = FALSE
  PROVE  Spec => []StatusIsOfCompleted
  BY DriverFacts, DriverInvariance, PTL

=============================================================================
