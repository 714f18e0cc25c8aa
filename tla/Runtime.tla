------------------------------ MODULE Runtime ------------------------------
(***************************************************************************)
(* The driver (mmfree_runtime.c, mmfree_dma.h): one thread of one process  *)
(* over the Core, the DMA engines and the kernel's UIO interrupt.  A step  *)
(* is one MMIO access or system call of the thread, or one event of the    *)
(* hardware; between two steps of the thread anything else may happen.     *)
(*                                                                         *)
(* The Core is what InstructionHandler was shown to implement, the         *)
(* InstructionService, whose engine moves beats of the streams.  A call is *)
(* mmfree_load or mmfree_compute ("in": all MM2S ports) or mmfree_store    *)
(* ("out": the S2MM of DMA 0).                                             *)
(***************************************************************************)
EXTENDS Naturals, Sequences, Signals

CONSTANTS NumPorts,   \* num_dma
          Modes,      \* completion waits in use: "poll" (MMFREE_POLL) and "irq"
          Lengths,    \* beats of a call
          OutQDepth,  \* entries of the Core's outQ
          MaxCalls,   \* bound: calls in a behaviour
          MaxOpens,   \* bound: processes that open the device in turn
          CrashAt,    \* <<pc, direction>> at which the process may be killed
          Faults      \* "reset", "start": a channel never leaves reset, halt; "timeout"

ASSUME RuntimeAssumption ==
  /\ NumPorts \in Nat \ {0} /\ Modes \subseteq {"poll", "irq"}
  /\ Lengths \subseteq Nat \ {0} /\ OutQDepth \in Nat \ {0}
  /\ MaxCalls \in Nat /\ MaxOpens \in Nat
  /\ Faults \subseteq {"reset", "start", "timeout"}

ASSUME ResultAssumption ==
  /\ None \notin {"ok", "fail"}
  /\ None \notin [id : 1 .. MaxCalls, dir : {"in", "out"}, beats : Lengths]

VARIABLES
  accepted, ran, outcomes, irq,   \* the Core as an InstructionService
  need, outQ,                     \* beats its engine has still to move; outQ
  mm2s, s2mm,                     \* DMA channels
  uioOn, uioEvent,                \* interrupt enabled; event the file has not read
  pc, mode, call, port, result,   \* the thread
  calls, opens, wedged,           \* wedged: a call timed out since the last reload
  foreign                         \* history: calls that moved another call's beats

coreVars   == <<accepted, ran, outcomes, irq, need, outQ>>
dmaVars    == <<mm2s, s2mm>>
uioVars    == <<uioOn, uioEvent>>
threadVars == <<pc, mode, call, port, result, calls, opens, wedged>>
vars == <<coreVars, dmaVars, uioVars, threadVars, foreign>>

Ports == 0 .. NumPorts - 1
Ids   == 1 .. MaxCalls
Calls == [id : Ids, dir : {"in", "out"}, beats : Lengths]

DMA  == INSTANCE AxiDma
Core == INSTANCE InstructionService WITH Instructions <- Calls, Valid <- Calls

Init ==
  /\ Core!ServiceInit /\ need = 0 /\ outQ = <<>>
  /\ mm2s = [p \in Ports |-> DMA!Reset] /\ s2mm = DMA!Reset
  /\ uioOn = TRUE /\ uioEvent = FALSE
  /\ pc = "closed" /\ mode \in Modes /\ call = None /\ port = 0 /\ result = None
  /\ calls = 0 /\ opens = 0 /\ wedged = FALSE /\ foreign = {}

-----------------------------------------------------------------------------
(* The hardware.                                                           *)

\* The dispatcher hands the oldest instruction to its engine.
EngineStart ==
  /\ Core!Run /\ need' = Core!Current.beats
  /\ UNCHANGED <<accepted, irq, outQ, dmaVars, uioVars, threadVars, foreign>>

Running == IF ran = <<>> THEN None ELSE ran[1]

\* CoreTop joins the ports: a wide beat moves when every port presents its slice.
Joined == \A p \in Ports : mm2s[p].left > 0

TakeBeat ==
  /\ Running # None /\ Running.dir = "in" /\ need > 0 /\ Joined
  /\ need' = need - 1
  /\ mm2s' = [p \in Ports |-> IF mm2s[p].left > 0 THEN DMA!Transfer(mm2s[p]) ELSE mm2s[p]]
  /\ foreign' = IF \A p \in Ports : mm2s[p].left > 0 /\ mm2s[p].owner = Running.id
                THEN foreign ELSE foreign \cup {Running.id}
  /\ UNCHANGED <<accepted, ran, outcomes, irq, outQ, s2mm, uioVars, threadVars>>

\* Mutant: tlast comes with the last beat but one.
LastBeatEarly ==
  /\ Running # None /\ Running.dir = "out" /\ need > 0 /\ Len(outQ) < OutQDepth
  /\ need' = need - 1 /\ outQ' = Append(outQ, [id |-> Running.id, last |-> need <= 2])
  /\ UNCHANGED <<accepted, ran, outcomes, irq, dmaVars, uioVars, threadVars, foreign>>

QueueBeat ==
  /\ Running # None /\ Running.dir = "out" /\ need > 0 /\ Len(outQ) < OutQDepth
  /\ need' = need - 1 /\ outQ' = Append(outQ, [id |-> Running.id, last |-> need = 1])
  /\ UNCHANGED <<accepted, ran, outcomes, irq, dmaVars, uioVars, threadVars, foreign>>

\* The S2MM transfer ends at LENGTH or at tlast.
SendBeat ==
  /\ outQ # <<>> /\ s2mm.left > 0
  /\ outQ' = Tail(outQ)
  /\ s2mm' = IF outQ[1].last THEN [s2mm EXCEPT !.left = 0] ELSE DMA!Transfer(s2mm)
  /\ foreign' = IF outQ[1].id = s2mm.owner THEN foreign ELSE foreign \cup {s2mm.owner}
  /\ UNCHANGED <<accepted, ran, outcomes, irq, need, mm2s, uioVars, threadVars>>

EngineDone ==
  /\ need = 0 /\ Core!Retire /\ irq' = TRUE
  /\ UNCHANGED <<accepted, need, outQ, dmaVars, uioVars, threadVars, foreign>>

\* uio_pdrv_genirq: the handler masks the level interrupt and counts an event.
UioFire ==
  /\ irq /\ uioOn
  /\ uioOn' = FALSE /\ uioEvent' = TRUE
  /\ UNCHANGED <<coreVars, dmaVars, threadVars, foreign>>

Hardware == EngineStart \/ TakeBeat \/ QueueBeat \/ SendBeat \/ EngineDone \/ UioFire

-----------------------------------------------------------------------------
(* mmfree_open and mmfree_close.                                           *)

Goto(l) == pc' = l /\ UNCHANGED <<mode, call, port, calls, opens, wedged>>

\* A new reader of the UIO file has seen the events so far; the kernel has
\* handled an interrupt that was on when the process started.
OpenUio ==
  /\ pc = "closed" /\ opens < MaxOpens /\ ~(irq /\ uioOn) /\ ~wedged
  /\ pc' = "reset" /\ mode' \in Modes /\ opens' = opens + 1 /\ result' = None
  /\ uioEvent' = FALSE
  /\ UNCHANGED <<call, port, calls, wedged, coreVars, dmaVars, uioOn, foreign>>

\* Mutant: only DMA 0 is reset.
ResetDma0 == port' = 0 /\ pc' = "drainIrq"

\* One engine done: the next one, or on with mmfree_open.
ResetNext ==
  IF port < NumPorts - 1 THEN port' = port + 1 /\ pc' = "reset" ELSE port' = 0 /\ pc' = "drainIrq"

\* DMA 0 has both channels, the others an MM2S only.
ResetMm2s ==
  /\ pc = "reset" /\ mm2s' = [mm2s EXCEPT ![port] = DMA!Reset]
  /\ IF port = 0 THEN pc' = "resetS2mm" /\ UNCHANGED port ELSE ResetNext
  /\ UNCHANGED <<mode, call, result, calls, opens, wedged, coreVars, s2mm, uioVars, foreign>>

ResetS2mm ==
  /\ pc = "resetS2mm" /\ s2mm' = DMA!Reset /\ ResetNext
  /\ UNCHANGED <<mode, call, result, calls, opens, wedged, coreVars, mm2s, uioVars, foreign>>

\* A channel stays in reset: mmfree_open returns and its caller ends. Channels after
\* it are as they were, programmed perhaps.
ResetFails ==
  /\ "reset" \in Faults /\ pc' = "closed" /\ port' = 0
  /\ \/ /\ pc = "reset" /\ UNCHANGED s2mm
        /\ \E c \in DMA!StuckInReset(mm2s[port]) : mm2s' = [mm2s EXCEPT ![port] = c]
     \/ pc = "resetS2mm" /\ s2mm' \in DMA!StuckInReset(s2mm) /\ UNCHANGED mm2s
  /\ UNCHANGED <<mode, call, result, calls, opens, wedged, coreVars, uioVars, foreign>>

DrainStaleIrq ==
  /\ pc = "drainIrq" /\ Goto("enable")
  /\ irq' = FALSE
  /\ UNCHANGED <<result, accepted, ran, outcomes, need, outQ, dmaVars, uioVars, foreign>>

EnableUio ==
  /\ pc = "enable" /\ Goto("ready")
  /\ uioOn' = TRUE
  /\ UNCHANGED <<result, coreVars, dmaVars, uioEvent, foreign>>

\* Where a kill leaves nothing behind: none of the process's instructions is
\* outstanding and no beat of a STORE is on its way.
QuietPoints == ({"start", "push"} \X {"in", "out"}) \cup ({"ack", "rearm", "drain"} \X {"in"})

\* mmfree_close, or the process is killed; fpga_runner ends after a failed call.
\* The hardware goes on.
Exit ==
  /\ pc \in {"ready", "failed"} \/ (call # None /\ <<pc, call.dir>> \in CrashAt)
  /\ pc' = "closed" /\ call' = None /\ port' = 0 /\ result' = None
  /\ UNCHANGED <<mode, calls, opens, wedged, coreVars, dmaVars, uioVars, foreign>>

\* The operator loads the FPGA application again (BOARD_BRINGUP.md:115): the
\* Core and the DMA engines come out of reset.
Reload ==
  /\ pc = "closed" /\ wedged
  /\ accepted' = <<>> /\ ran' = <<>> /\ outcomes' = <<>> /\ irq' = FALSE
  /\ need' = 0 /\ outQ' = <<>>
  /\ mm2s' = [p \in Ports |-> DMA!Reset] /\ s2mm' = DMA!Reset
  /\ uioOn' = TRUE /\ uioEvent' = FALSE /\ wedged' = FALSE
  /\ UNCHANGED <<pc, mode, call, port, result, calls, opens, foreign>>

-----------------------------------------------------------------------------
(* input_op and mmfree_store.                                              *)

Call ==
  /\ pc = "ready"
  /\ calls < MaxCalls
  /\ \E dir \in {"in", "out"}, n \in Lengths :
       call' = [id |-> calls + 1, dir |-> dir, beats |-> n]
  /\ calls' = calls + 1 /\ pc' = "start" /\ port' = 0 /\ result' = None
  /\ UNCHANGED <<mode, opens, wedged, coreVars, dmaVars, uioVars, foreign>>

\* Mutant: the loop over the ports runs once too often.
LastPortPlusOne == IF call.dir = "in" THEN NumPorts ELSE 0

\* The last channel a call uses: an "in" call programs every port in turn.
LastPort == IF call.dir = "in" THEN NumPorts - 1 ELSE 0

\* One channel done: the next one, or on to `l`.
NextPort(l) ==
  IF port < LastPort THEN port' = port + 1 /\ pc' = pc ELSE port' = 0 /\ pc' = l

StartDma ==
  /\ pc = "start" /\ NextPort("push")
  /\ \E c \in DMA!Start(IF call.dir = "in" THEN mm2s[port] ELSE s2mm, call.id, call.beats) :
       IF call.dir = "in" THEN mm2s' = [mm2s EXCEPT ![port] = c] /\ UNCHANGED s2mm
                          ELSE s2mm' = c /\ UNCHANGED mm2s
  /\ UNCHANGED <<mode, call, result, calls, opens, wedged, coreVars, uioVars, foreign>>

Fail == pc' = "failed" /\ port' = 0 /\ result' = "fail" /\ UNCHANGED <<mode, call, calls, opens>>
TimedOut == Fail /\ wedged' = TRUE

\* A channel stays halted: the call returns, ports before it are running.
StartFails ==
  /\ "start" \in Faults /\ pc = "start" /\ Fail
  /\ UNCHANGED <<wedged, coreVars, dmaVars, uioVars, foreign>>

\* The response of the write is never looked at; the handler may refuse when
\* an instruction is outstanding and must when two are.
Push ==
  /\ pc = "push" /\ Goto("wait")
  /\ accepted' \in (IF Core!Outstanding < 2 THEN {Append(accepted, call)} ELSE {})
                     \cup (IF Core!Outstanding > 0 THEN {accepted} ELSE {})
  /\ UNCHANGED <<result, ran, outcomes, irq, need, outQ, dmaVars, uioVars, foreign>>

\* Mutant: the spin ends when the Core is not busy.
SpinNotBusy ==
  /\ pc = "wait" /\ mode = "poll" /\ ran = <<>>
  /\ Goto("ack")
  /\ UNCHANGED <<result, coreVars, dmaVars, uioVars, foreign>>

\* mmfree_spin_done, and mmfree_wait_irq's poll and read.
SpinDone ==
  /\ pc = "wait" /\ mode = "poll" /\ irq
  /\ Goto("ack")
  /\ UNCHANGED <<result, coreVars, dmaVars, uioVars, foreign>>

WaitIrq ==
  /\ pc = "wait" /\ mode = "irq" /\ uioEvent
  /\ Goto("ack") /\ uioEvent' = FALSE
  /\ UNCHANGED <<result, coreVars, dmaVars, uioOn, foreign>>

WaitTimeout ==
  /\ "timeout" \in Faults /\ pc = "wait"
  /\ IF mode = "poll" THEN ~irq ELSE ~uioEvent
  /\ TimedOut
  /\ UNCHANGED <<coreVars, dmaVars, uioVars, foreign>>

\* Mutant: the Core's interrupt is not acknowledged.
AckForgotten ==
  /\ pc = "ack" /\ Goto(IF mode = "poll" THEN "drain" ELSE "rearm")
  /\ UNCHANGED <<result, coreVars, dmaVars, uioVars, foreign>>

\* The status word is read, then the Core's interrupt acknowledged.
AckIrq ==
  /\ pc = "ack" /\ Goto(IF mode = "poll" THEN "drain" ELSE "rearm")
  /\ irq' = FALSE
  /\ UNCHANGED <<result, accepted, ran, outcomes, need, outQ, dmaVars, uioVars, foreign>>

\* Mutant: the UIO interrupt is not enabled again.
RearmNothing ==
  /\ pc = "rearm" /\ Goto("drain")
  /\ UNCHANGED <<result, coreVars, dmaVars, uioVars, foreign>>

RearmUio ==
  /\ pc = "rearm" /\ Goto("drain")
  /\ uioOn' = TRUE
  /\ UNCHANGED <<result, coreVars, dmaVars, uioEvent, foreign>>

Succeed ==
  IF port < LastPort THEN UNCHANGED result ELSE result' = "ok"

DrainDma ==
  /\ pc = "drain" /\ DMA!Idle(IF call.dir = "in" THEN mm2s[port] ELSE s2mm)
  /\ NextPort("ready") /\ Succeed
  /\ UNCHANGED <<mode, call, calls, opens, wedged, coreVars, dmaVars, uioVars, foreign>>

DrainTimeout ==
  /\ "timeout" \in Faults /\ pc = "drain"
  /\ ~DMA!Idle(IF call.dir = "in" THEN mm2s[port] ELSE s2mm)
  /\ TimedOut
  /\ UNCHANGED <<coreVars, dmaVars, uioVars, foreign>>

-----------------------------------------------------------------------------

\* What the thread does once it is in a call or in mmfree_open.
Proceed ==
  \/ ResetMm2s \/ ResetS2mm \/ DrainStaleIrq \/ EnableUio
  \/ StartDma \/ Push \/ SpinDone \/ WaitIrq \/ AckIrq \/ RearmUio \/ DrainDma

Next ==
  \/ Hardware \/ Proceed
  \/ OpenUio \/ ResetFails \/ Exit \/ Reload \/ Call
  \/ StartFails \/ WaitTimeout \/ DrainTimeout

Spec == Init /\ [][Next]_vars

\* The thread is scheduled, the engines move what they can, interrupts arrive.
\* No fairness on failures: with MMFREE_TIMEOUT_MS = 0 a wait has no bound.
FairSpec ==
  /\ Spec
  /\ WF_vars(Proceed) /\ WF_vars(EngineStart) /\ WF_vars(TakeBeat) /\ WF_vars(QueueBeat)
  /\ WF_vars(SendBeat) /\ WF_vars(EngineDone) /\ WF_vars(UioFire)

-----------------------------------------------------------------------------
(* Properties.                                                             *)

PcSet == {"closed", "reset", "resetS2mm", "drainIrq", "enable", "ready", "start", "push", "wait", "ack",
          "rearm", "drain", "failed"}

\* Every variable has its type.
TypeOK ==
  /\ accepted \in Seq(Calls) /\ ran \in Seq(Calls) /\ outcomes \in Seq(Seq(Calls))
  /\ irq \in BOOLEAN /\ need \in Nat /\ Len(outQ) <= OutQDepth
  /\ mm2s \in [Ports -> DMA!Channels(Ids, Nat)] /\ s2mm \in DMA!Channels(Ids, Nat)
  /\ uioOn \in BOOLEAN /\ uioEvent \in BOOLEAN
  /\ pc \in PcSet /\ mode \in Modes /\ call \in Calls \cup {None} /\ port \in Ports
  /\ wedged \in BOOLEAN /\ result \in {None, "ok", "fail"} /\ foreign \subseteq Ids

\* When a call returns 0 the Core has retired this call's instruction and
\* nothing is outstanding, no beat of another call was moved in its place, and
\* every beat it asked for has been moved: for a STORE, the buffer is written.
SuccessIsMine ==
  result = "ok" =>
    /\ Core!Outstanding = 0 /\ outcomes[Len(outcomes)] = <<call>>
    /\ call.id \notin foreign /\ outQ = <<>> /\ s2mm.left = 0
    /\ \A p \in Ports : mm2s[p].left = 0

\* "irqPending is cleared by our ack each op, so it is reliably 0 until this op
\* finishes" (mmfree_runtime.c:303), and so is the event of the UIO file: neither
\* is left over from another call, or another process, when a thread waits for
\* its own, as long as a device whose call timed out is loaded again.
PendingIsThisOp ==
  pc = "wait" /\ (IF mode = "poll" THEN irq ELSE uioEvent) =>
    Core!Outstanding = 0 /\ outcomes[Len(outcomes)] = <<call>>

\* LENGTH is never written to a channel that still has beats to move, although
\* a call may fail after some of its ports were started.
ProgrammedWhileIdle == \A p \in Ports : ~mm2s[p].clash /\ ~s2mm.clash

\* The call as its caller sees it.  A channel it has still to program owes all of
\* its beats, and so does every channel of a call that moved another call's beat.
Underway == call # None /\ result = None
ChannelsOf(c) == IF c.dir = "in" THEN Ports ELSE {0}
BeatsLeft(p) ==
  IF (pc = "start" /\ p >= port) \/ call.id \in foreign THEN call.beats
  ELSE IF call.dir = "in" THEN mm2s[p].left ELSE s2mm.left

Contract == INSTANCE CallService WITH
  Calls <- {[p \in ChannelsOf(c) |-> c.beats] : c \in Calls},
  Quits <- TRUE,
  left  <- IF Underway THEN [p \in ChannelsOf(call) |-> BeatsLeft(p)] ELSE <<>>

\* A call is what CallService says a call is: no beat of it is moved twice or for
\* another, and it returns 0 only after the last beat on the last of its ports.
CallContract == Contract!CallSpec

\* Every call returns, and mmfree_open too: no completion goes unseen, whatever
\* the process before it was doing when it ended.
EveryCallReturns ==
  pc \notin {"closed", "ready", "failed"} ~> pc \in {"closed", "ready", "failed"}

=============================================================================
