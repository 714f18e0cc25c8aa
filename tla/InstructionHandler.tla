------------------------- MODULE InstructionHandler -------------------------
(***************************************************************************)
(* The AXI4 slave of the Core (AxiInstructionHandler.scala): a write FSM, a*)
(* read FSM and a dispatcher that share one clock.  One step of HandlerTick*)
(* is one rising edge; its parameter `in` is what the input pins carry in  *)
(* that cycle.  A register and its valid flag are one variable: None means *)
(* the flag is low, so a stale payload is never readable.                  *)
(***************************************************************************)
EXTENDS Naturals, Signals

CONSTANT Tags   \* operands of an instruction (ptr, dim0, dim1, flags)

Opcodes   == {"NOP", "LOAD_ACT", "COMPUTE_MM", "STORE_OUT", "UNDEFINED"}
EngineOps == {"LOAD_ACT", "COMPUTE_MM", "STORE_OUT"}

\* Every 128-bit beat decodes to an instruction.
Instruction == [op : Opcodes, tag : Tags]

Offsets   == {"INSTR_WRITE", "STATUS_READ", "IRQ_ACK", "UNMAPPED"}
Address   == [off : Offsets, len : 0 .. 1]      \* len 1: any AxLEN other than 0
Resp      == {"OKAY", "SLVERR", "DECERR"}
Status    == [busy : BOOLEAN, lastOpc : Opcodes, err : {"NONE", "INVALID_OPCODE"},
              irq : BOOLEAN]
ReadBeat  == [resp : Resp, data : Status \cup {None}]
DispState == {"idle", "decoding", "dispatching", "awaitingDone", "completed"}

ASSUME NoneAssumption ==
  None \notin Address \cup Instruction \cup Resp \cup ReadBeat \cup Status

VARIABLES
  aw, w, b,          \* write FSM: awHeld/awAddrReg.., wHeld/wDataReg, bSending/bRespReg
  ar, r,             \* read FSM: arHeld/arAddrReg.., rSending/rDataReg/rRespReg
  pending,           \* pendingValid/pendingInst
  dispState, inst,   \* dispatcher state and instReg
  errorReg, lastOpc, irqPend

handlerVars == <<aw, w, b, ar, r, pending, dispState, inst, errorReg, lastOpc, irqPend>>

HandlerInit ==
  /\ aw = None /\ w = None /\ b = None /\ ar = None /\ r = None
  /\ pending = None /\ inst = None /\ dispState = "idle"
  /\ errorReg = "NONE" /\ lastOpc = "NOP" /\ irqPend = FALSE

HandlerTypeOK ==
  /\ aw \in Address \cup {None} /\ w \in Instruction \cup {None} /\ b \in Resp \cup {None}
  /\ ar \in Address \cup {None} /\ r \in ReadBeat \cup {None}
  /\ pending \in Instruction \cup {None} /\ inst \in Instruction \cup {None}
  /\ dispState \in DispState /\ errorReg \in {"NONE", "INVALID_OPCODE"}
  /\ lastOpc \in Opcodes /\ irqPend \in BOOLEAN

-----------------------------------------------------------------------------
(* Combinational wires, functions of the registers only.                   *)

AwReady == aw = None /\ b = None
WReady  == w = None /\ b = None
ArReady == ar = None /\ r = None

\* Mutant: an address is processed before its data has arrived.
ProcessWithoutData == aw # None /\ b = None

CanProcessW == aw # None /\ w # None /\ b = None
CanProcessR == ar # None /\ r = None

\* A single-beat write to register `off` takes effect in this cycle.
Writes(off) == CanProcessW /\ aw.len = 0 /\ aw.off = off

InstrAccept     == Writes("INSTR_WRITE") /\ pending = None
IrqAck          == Writes("IRQ_ACK")
Fetch           == dispState = "idle" /\ pending # None
CmdValid        == dispState = "dispatching"
CompletionPulse == dispState = "completed"

WriteResp ==
  IF aw.len # 0 \/ (aw.off = "INSTR_WRITE" /\ pending # None) THEN "SLVERR"
  ELSE IF aw.off \in {"INSTR_WRITE", "IRQ_ACK"} THEN "OKAY" ELSE "DECERR"

StatusWord == [busy |-> dispState # "idle", lastOpc |-> lastOpc, err |-> errorReg,
               irq |-> irqPend]

ReadResp ==
  IF ar.len # 0 THEN [resp |-> "SLVERR", data |-> None]
  ELSE IF ar.off = "STATUS_READ" THEN [resp |-> "OKAY", data |-> StatusWord]
  ELSE [resp |-> "DECERR", data |-> None]

-----------------------------------------------------------------------------
(* Write FSM: hold AW and W in either order, process the pair, send B.     *)

HoldWrite(in) ==
  /\ b = None /\ ~CanProcessW
  /\ aw' = IF AwReady THEN in.aw ELSE aw
  /\ w'  = IF WReady THEN in.w ELSE w
  /\ UNCHANGED b

ProcessWrite ==
  /\ CanProcessW
  /\ aw' = None /\ w' = None
  /\ b' = WriteResp

SendB(in) ==
  /\ b # None
  /\ b' = IF in.bready THEN None ELSE b
  /\ UNCHANGED <<aw, w>>

WriteFSM(in) == HoldWrite(in) \/ ProcessWrite \/ SendB(in)

(* Read FSM: hold AR, snapshot the register, send one R beat.              *)

HoldRead(in) == ArReady /\ ar' = in.ar /\ UNCHANGED r
ProcessRead  == CanProcessR /\ ar' = None /\ r' = ReadResp
SendR(in)    == r # None /\ r' = (IF in.rready THEN None ELSE r) /\ UNCHANGED ar

ReadFSM(in) == HoldRead(in) \/ ProcessRead \/ SendR(in)

(* Dispatcher.                                                             *)

\* Mutant: the error of an earlier instruction survives the fetch of the next.
FetchKeepsError ==
  /\ dispState = "idle" /\ UNCHANGED errorReg
  /\ IF pending = None
     THEN UNCHANGED <<dispState, inst, lastOpc>>
     ELSE inst' = pending /\ lastOpc' = pending.op /\ dispState' = "decoding"

FetchInstr ==
  /\ dispState = "idle"
  /\ IF pending = None
     THEN UNCHANGED <<dispState, inst, lastOpc, errorReg>>
     ELSE /\ inst' = pending /\ lastOpc' = pending.op
          /\ errorReg' = "NONE" /\ dispState' = "decoding"

\* Mutant: an invalid opcode is dropped without a completion.
DecodeDropsInvalid ==
  /\ dispState = "decoding"
  /\ IF inst.op \in EngineOps
     THEN dispState' = "dispatching" /\ UNCHANGED errorReg
     ELSE dispState' = "idle" /\ errorReg' = "INVALID_OPCODE"
  /\ UNCHANGED <<inst, lastOpc>>

Decode ==
  /\ dispState = "decoding"
  /\ IF inst.op \in EngineOps
     THEN dispState' = "dispatching" /\ UNCHANGED errorReg
     ELSE dispState' = "completed" /\ errorReg' = "INVALID_OPCODE"
  /\ UNCHANGED <<inst, lastOpc>>

Dispatch(in) ==
  /\ CmdValid
  /\ dispState' = IF in.ready THEN "awaitingDone" ELSE dispState
  /\ UNCHANGED <<inst, lastOpc, errorReg>>

AwaitDone(in) ==
  /\ dispState = "awaitingDone"
  /\ dispState' = IF in.done THEN "completed" ELSE dispState
  /\ UNCHANGED <<inst, lastOpc, errorReg>>

Complete ==
  /\ CompletionPulse
  /\ dispState' = "idle"
  /\ UNCHANGED <<inst, lastOpc, errorReg>>

Dispatcher(in) == FetchInstr \/ Decode \/ Dispatch(in) \/ AwaitDone(in) \/ Complete

\* The two registers the FSMs share.  A completion is the last assignment in
\* the source, so it wins over an acknowledge in the same cycle.
\* Mutants: the buffered instruction is not cleared when it is fetched; the
\* address is buffered instead of the data.
PendingNeverCleared == pending' = IF InstrAccept THEN w ELSE pending
PendingLatchesAddr  ==
  pending' = IF InstrAccept THEN aw ELSE IF Fetch THEN None ELSE pending

PendingReg ==
  pending' = IF InstrAccept THEN w ELSE IF Fetch THEN None ELSE pending

\* Mutants: the acknowledge wins the tie; the acknowledge does not clear.
IrqAckWins   == irqPend' = (~IrqAck /\ (CompletionPulse \/ irqPend))
IrqIsSticky  == irqPend' = (CompletionPulse \/ irqPend)

IrqReg ==
  irqPend' = (CompletionPulse \/ (irqPend /\ ~IrqAck))

HandlerTick(in) ==
  WriteFSM(in) /\ ReadFSM(in) /\ Dispatcher(in) /\ PendingReg /\ IrqReg

=============================================================================
