---------------------------- MODULE RuntimeProofs ----------------------------
(***************************************************************************)
(* What holds of Runtime for every number of ports, calls and processes,   *)
(* every depth of outQ and every combination of failing resets, failing     *)
(* starts, timeouts and kills at quiet points.                             *)
(***************************************************************************)
EXTENDS Runtime, SequenceTheorems, TLAPS

-----------------------------------------------------------------------------
(* Types, which do not depend on where a process is killed.                *)

Channel  == DMA!Channels(Ids, Nat)
Owned(c) == c.left > 0 => c.owner \in Ids

Waiting == {"wait", "ack", "rearm", "drain"}
InCall  == {"start", "push"} \cup Waiting

Bounded ==
  /\ calls \in 0 .. MaxCalls /\ opens \in Nat
  /\ Len(outcomes) <= Len(accepted)
  /\ outQ \in Seq([id : Ids, last : BOOLEAN])
  /\ Owned(s2mm) /\ \A p \in Ports : Owned(mm2s[p])
  /\ pc \in InCall => call \in Calls /\ port \in 0 .. LastPort

TypeInv == TypeOK /\ Bounded

-----------------------------------------------------------------------------
(* The hardware, whatever the thread does: at most one instruction is      *)
(* outstanding, and the beats still programmed are those it still owes.    *)

Free == Len(accepted) = Len(outcomes)
Busy == Len(accepted) = Len(outcomes) + 1
Cur  == accepted[Len(accepted)]

CoreInv ==
  /\ Free \/ Busy
  /\ Free => ran = <<>>
  /\ Busy => ran \in {<<>>, <<Cur>>}

\* Beats the engine has still to move for the outstanding instruction.
Owing == IF Busy THEN (IF ran = <<>> THEN Cur.beats ELSE need) ELSE 0

QueueInv ==
  \A i \in 1 .. Len(outQ) : /\ outQ[i].id = s2mm.owner
                            /\ outQ[i].last => i = Len(outQ) /\ Owing = 0

Streams ==
  /\ Busy /\ Cur.dir = "in" =>
       outQ = <<>> /\ \A p \in Ports : mm2s[p].owner = Cur.id /\ mm2s[p].left = Owing
  /\ Busy /\ Cur.dir = "out" => s2mm.owner = Cur.id /\ s2mm.left = Len(outQ) + Owing
  /\ Free /\ outQ # <<>> => s2mm.left = Len(outQ)

Clean == foreign = {} /\ ~s2mm.clash /\ \A p \in Ports : ~mm2s[p].clash

(* The thread.                                                             *)

ThreadInv ==
  /\ wedged => pc \in {"closed", "failed"}
  /\ ~wedged /\ pc # "wait" => Free
  /\ ~wedged /\ pc \notin Waiting => outQ = <<>>
  /\ pc \notin {"reset", "start", "drain"} => port = 0

Programmed(c)  == c.owner = call.id /\ c.left = call.beats
InputsIdle == \A p \in Ports : mm2s[p].left = 0

ChannelInv ==
  /\ pc = "reset" => /\ port > 0 => s2mm.left = 0
                     /\ \A p \in Ports : p < port => mm2s[p].left = 0
  /\ pc = "resetS2mm" => mm2s[0].left = 0
  /\ pc \in {"drainIrq", "enable", "ready"} => InputsIdle /\ s2mm.left = 0
  /\ pc = "start" =>
       /\ s2mm.left = 0
       /\ \A p \in Ports : IF call.dir = "in" /\ p < port THEN Programmed(mm2s[p])
                                                          ELSE mm2s[p].left = 0
  /\ pc = "push" => IF call.dir = "in" THEN s2mm.left = 0 /\ \A p \in Ports : Programmed(mm2s[p])
                                       ELSE Programmed(s2mm) /\ InputsIdle

\* A call that waits: its instruction is outstanding, or retired and the last one.
CallInv ==
  pc \in Waiting =>
    /\ Busy => /\ Cur = call /\ ~irq
               /\ IF call.dir = "in" THEN s2mm.left = 0 ELSE InputsIdle
    /\ Free => /\ outcomes # <<>> /\ outcomes[Len(outcomes)] = <<call>>
               /\ InputsIdle /\ s2mm.left = Len(outQ) /\ (call.dir = "in" => outQ = <<>>)
               /\ pc = "wait" => irq

InterruptInv ==
  /\ pc \in {"enable", "ready", "start", "push", "rearm", "drain"} => ~irq
  /\ pc \in {"reset", "resetS2mm", "drainIrq", "enable"} => ~uioEvent /\ ~(irq /\ uioOn)
  /\ mode = "irq" =>
       /\ pc \in {"ready", "start", "push", "ack", "rearm", "drain"} => ~uioEvent
       /\ pc = "wait" /\ uioEvent => irq /\ ~uioOn
       /\ pc = "ack" => ~uioOn

ResultInv ==
  result = "ok" => /\ pc = "ready" /\ call \in Calls
                   /\ outcomes # <<>> /\ outcomes[Len(outcomes)] = <<call>>

HardwareInv == TypeInv /\ CoreInv /\ QueueInv /\ Streams /\ Clean
RuntimeInv  == HardwareInv /\ ThreadInv /\ ChannelInv /\ CallInv /\ InterruptInv /\ ResultInv

-----------------------------------------------------------------------------
(* Operators of the parts.                                                 *)

LEMMA CallFacts ==
  /\ \A c \in Calls : c.id \in Ids /\ c.beats \in Lengths /\ c.dir \in {"in", "out"}
  /\ \A n \in Lengths : n \in Nat /\ n > 0
  /\ NumPorts \in Nat /\ NumPorts > 0 /\ MaxCalls \in Nat
  BY RuntimeAssumption DEF Calls

\* A channel's record, field by field.
LEMMA ChannelFields ==
  \A c \in Channel : /\ c.left \in Nat /\ c.clash \in BOOLEAN
                     /\ c = [run |-> c.run, owner |-> c.owner, left |-> c.left, clash |-> c.clash]
  BY DEF Channel, DMA!Channels

\* A reset channel has nothing programmed.
LEMMA ResetFacts ==
  /\ DMA!Reset \in Channel /\ Owned(DMA!Reset)
  /\ DMA!Reset.left = 0 /\ ~DMA!Reset.clash
  BY DEF DMA!Reset, Channel, DMA!Channels, Owned

\* LENGTH written to an idle channel programs it.
LEMMA StartFacts ==
  ASSUME NEW c \in Channel, Owned(c), NEW x \in Calls, NEW d \in DMA!Start(c, x.id, x.beats)
  PROVE  /\ d \in Channel /\ Owned(d)
         /\ c.left = 0 => d.owner = x.id /\ d.left = x.beats /\ ~d.clash
<1>1. x.id \in Ids /\ x.beats \in Nat
  BY CallFacts
<1>2. \/ d = [run |-> TRUE, owner |-> x.id, left |-> x.beats, clash |-> c.left # 0]
      \/ c.left # 0 /\ d = [c EXCEPT !.clash = TRUE]
  BY DEF DMA!Start
<1>3. CASE c.left # 0 /\ d = [c EXCEPT !.clash = TRUE]
  BY <1>3 DEF Channel, DMA!Channels, Owned
<1>4. CASE d = [run |-> TRUE, owner |-> x.id, left |-> x.beats, clash |-> c.left # 0]
  BY <1>1, <1>4 DEF Channel, DMA!Channels, Owned
<1>. QED
  BY <1>2, <1>3, <1>4

\* One beat moved.
LEMMA TransferFacts ==
  ASSUME NEW c \in Channel, c.left > 0
  PROVE  /\ DMA!Transfer(c) \in Channel /\ (Owned(c) => Owned(DMA!Transfer(c)))
         /\ DMA!Transfer(c).left = c.left - 1 /\ DMA!Transfer(c).owner = c.owner
         /\ DMA!Transfer(c).clash = c.clash
  BY DEF Channel, DMA!Channels, DMA!Transfer, Owned

LEMMA PortFacts == 0 \in Ports /\ (call.dir = "in" => LastPort \in Ports) /\ LastPort \in Nat
  BY RuntimeAssumption DEF Ports, LastPort

-----------------------------------------------------------------------------
(* The types.                                                              *)

LEMMA EngineStartTyped == TypeInv /\ EngineStart => TypeInv'
<1>. SUFFICES ASSUME TypeInv, EngineStart PROVE TypeInv'
  OBVIOUS
<1>. USE DEF coreVars, dmaVars, uioVars, threadVars
<1>1. TypeOK /\ Bounded
  BY DEF TypeInv
<1>2. /\ Core!Outstanding > 0 /\ Core!Current \in Calls /\ ran' = <<Core!Current>>
      /\ need' = Core!Current.beats /\ outcomes' = outcomes
      /\ UNCHANGED <<accepted, irq, outQ, mm2s, s2mm, uioOn, uioEvent, pc, mode, call, port, result,
                     calls, opens, wedged, foreign>>
  BY DEF EngineStart, Core!Run
<1>3. TypeOK'
  BY <1>1, <1>2, CallFacts DEF TypeOK
<1>4. Bounded'
  BY <1>1, <1>2 DEF Bounded, LastPort
<1>. QED
  BY <1>3, <1>4 DEF TypeInv

LEMMA TakeBeatTyped == TypeInv /\ TakeBeat => TypeInv'
<1>. SUFFICES ASSUME TypeInv, TakeBeat PROVE TypeInv'
  OBVIOUS
<1>. USE DEF coreVars, dmaVars, uioVars, threadVars
<1>1. TypeOK /\ Bounded
  BY DEF TypeInv
<1>2. /\ need > 0 /\ need' = need - 1 /\ Running # None
      /\ \A p \in Ports : mm2s[p].left > 0
      /\ mm2s' = [p \in Ports |-> DMA!Transfer(mm2s[p])]
      /\ foreign' \in {foreign, foreign \cup {Running.id}}
      /\ UNCHANGED <<accepted, ran, outcomes, irq, outQ, s2mm, uioOn, uioEvent, pc, mode, call, port,
                     result, calls, opens, wedged>>
  BY DEF TakeBeat, Joined
<1>3. ran # <<>> /\ Running \in Calls
  BY <1>1, <1>2 DEF Running, TypeOK
<1>4. \A p \in Ports : mm2s'[p] \in Channel /\ Owned(mm2s'[p])
  BY <1>1, <1>2, TransferFacts DEF TypeOK, Bounded, Channel
<1>5. TypeOK'
  <2>1. mm2s' \in [Ports -> Channel]
    BY <1>2, <1>4
  <2>2. need' \in Nat /\ foreign' \subseteq Ids
    BY <1>1, <1>2, <1>3, CallFacts DEF TypeOK
  <2>. QED
    BY <1>1, <1>2, <2>1, <2>2 DEF TypeOK, Channel
<1>6. Bounded'
  BY <1>1, <1>2, <1>4 DEF Bounded, Owned, LastPort
<1>. QED
  BY <1>5, <1>6 DEF TypeInv

LEMMA QueueBeatTyped == TypeInv /\ QueueBeat => TypeInv'
<1>. SUFFICES ASSUME TypeInv, QueueBeat PROVE TypeInv'
  OBVIOUS
<1>. USE DEF coreVars, dmaVars, uioVars, threadVars
<1>1. TypeOK /\ Bounded
  BY DEF TypeInv
<1>. DEFINE e == [id |-> Running.id, last |-> need = 1]
<1>2. /\ need > 0 /\ need' = need - 1 /\ Running # None
      /\ Len(outQ) < OutQDepth /\ outQ' = Append(outQ, e)
      /\ UNCHANGED <<accepted, ran, outcomes, irq, mm2s, s2mm, uioOn, uioEvent, pc, mode, call, port,
                     result, calls, opens, wedged, foreign>>
  BY DEF QueueBeat
<1>3. ran # <<>> /\ Running \in Calls
  BY <1>1, <1>2 DEF Running, TypeOK
<1>4. e \in [id : Ids, last : BOOLEAN]
  BY <1>3, CallFacts
<1>. HIDE DEF e
<1>5. outQ' \in Seq([id : Ids, last : BOOLEAN]) /\ Len(outQ') = Len(outQ) + 1 /\ Len(outQ) \in Nat
  BY <1>1, <1>2, <1>4 DEF Bounded
<1>6. TypeOK'
  BY <1>1, <1>2, <1>5, RuntimeAssumption DEF TypeOK
<1>7. Bounded'
  BY <1>1, <1>2, <1>5 DEF Bounded, LastPort, Owned
<1>. QED
  BY <1>6, <1>7 DEF TypeInv

LEMMA SendBeatTyped == TypeInv /\ SendBeat => TypeInv'
<1>. SUFFICES ASSUME TypeInv, SendBeat PROVE TypeInv'
  OBVIOUS
<1>. USE DEF coreVars, dmaVars, uioVars, threadVars
<1>1. TypeOK /\ Bounded
  BY DEF TypeInv
<1>2. /\ outQ # <<>> /\ s2mm.left > 0 /\ outQ' = Tail(outQ)
      /\ s2mm' = IF outQ[1].last THEN [s2mm EXCEPT !.left = 0] ELSE DMA!Transfer(s2mm)
      /\ foreign' \in {foreign, foreign \cup {s2mm.owner}}
      /\ UNCHANGED <<accepted, ran, outcomes, irq, need, mm2s, uioOn, uioEvent, pc, mode, call, port,
                     result, calls, opens, wedged>>
  BY DEF SendBeat
<1>3. s2mm.owner \in Ids
  BY <1>1, <1>2 DEF Bounded, Owned
<1>4. s2mm' \in Channel /\ Owned(s2mm')
  <2>1. s2mm \in Channel /\ Owned(s2mm)
    BY <1>1 DEF TypeOK, Bounded, Channel
  <2>2. CASE outQ[1].last
    BY <1>2, <2>1, <2>2 DEF Channel, DMA!Channels, Owned
  <2>3. CASE ~outQ[1].last
    BY <1>2, <2>1, <2>3, TransferFacts
  <2>. QED
    BY <2>2, <2>3
<1>5. outQ' \in Seq([id : Ids, last : BOOLEAN]) /\ Len(outQ') = Len(outQ) - 1 /\ Len(outQ) \in Nat
  BY <1>1, <1>2 DEF Bounded
<1>6. TypeOK'
  BY <1>1, <1>2, <1>3, <1>4, <1>5, RuntimeAssumption DEF TypeOK, Channel
<1>7. Bounded'
  BY <1>1, <1>2, <1>4, <1>5 DEF Bounded, LastPort, Owned
<1>. QED
  BY <1>6, <1>7 DEF TypeInv

LEMMA EngineDoneTyped == TypeInv /\ EngineDone => TypeInv'
<1>. SUFFICES ASSUME TypeInv, EngineDone PROVE TypeInv'
  OBVIOUS
<1>. USE DEF coreVars, dmaVars, uioVars, threadVars
<1>1. TypeOK /\ Bounded
  BY DEF TypeInv
<1>2. /\ Core!Outstanding > 0 /\ outcomes' = Append(outcomes, ran) /\ ran' = <<>> /\ irq'
      /\ UNCHANGED <<accepted, need, outQ, mm2s, s2mm, uioOn, uioEvent, pc, mode, call, port, result,
                     calls, opens, wedged, foreign>>
  BY DEF EngineDone, Core!Retire
<1>3. outcomes' \in Seq(Seq(Calls)) /\ Len(outcomes') = Len(outcomes) + 1 /\ Len(accepted) > Len(outcomes)
  BY <1>1, <1>2 DEF TypeOK, Core!Outstanding
<1>4. irq' \in BOOLEAN
  BY DEF EngineDone
<1>5. TypeOK'
  BY <1>1, <1>2, <1>3, <1>4 DEF TypeOK
<1>6. Bounded'
  BY <1>1, <1>2, <1>3 DEF Bounded, LastPort, Owned, TypeOK
<1>. QED
  BY <1>5, <1>6 DEF TypeInv

\* The thread moves on and takes no part of the call with it that it does not have.
LEMMA ThreadTyped ==
  ASSUME TypeInv, UNCHANGED <<coreVars, dmaVars, foreign>>,
         uioOn' \in BOOLEAN, uioEvent' \in BOOLEAN, wedged' \in BOOLEAN, mode' \in Modes,
         pc' \in PcSet, call' \in Calls \cup {None}, port' \in Ports,
         result' \in {None, "ok", "fail"}, calls' \in 0 .. MaxCalls, opens' \in Nat,
         pc' \in InCall => call' \in Calls /\ port' \in 0 .. LastPort'
  PROVE  TypeInv'
<1>. USE DEF coreVars, dmaVars
<1>1. TypeOK'
  BY DEF TypeInv, TypeOK
<1>2. Bounded'
  BY DEF TypeInv, Bounded, Owned
<1>. QED
  BY <1>1, <1>2 DEF TypeInv

\* The next port, or the end of the loop.
LEMMA NextPortFacts ==
  ASSUME port \in 0 .. LastPort, call \in Calls, call' = call, NEW l, NextPort(l)
  PROVE  /\ port' \in 0 .. LastPort' /\ port' \in Ports
         /\ \/ port < LastPort /\ pc' = pc /\ port' = port + 1
            \/ port = LastPort /\ pc' = l /\ port' = 0
  BY CallFacts, PortFacts DEF NextPort, LastPort, Ports

LEMMA UioFireTyped == TypeInv /\ UioFire => TypeInv'
<1>. SUFFICES ASSUME TypeInv, UioFire PROVE TypeInv'
  OBVIOUS
<1>1. /\ UNCHANGED <<coreVars, dmaVars, foreign, pc, mode, call, port, result, calls, opens, wedged>>
      /\ uioOn' = FALSE /\ uioEvent' = TRUE
  BY DEF UioFire, threadVars
<1>. QED
  BY <1>1, ThreadTyped DEF TypeInv, TypeOK, Bounded, LastPort

\* A reset is over, or stuck: the channel, and where mmfree_open goes on.
LEMMA ResetMoves ==
  ASSUME TypeInv, ResetMm2s \/ ResetS2mm \/ ResetFails
  PROVE  /\ \A p \in Ports : mm2s'[p] \in {mm2s[p], DMA!Reset}
         /\ mm2s' = [p \in Ports |-> mm2s'[p]] /\ s2mm' \in {s2mm, DMA!Reset}
         /\ port' \in Ports /\ pc' \in {"reset", "resetS2mm", "drainIrq", "closed"}
         /\ pc \in {"reset", "resetS2mm"}
         /\ UNCHANGED <<accepted, ran, outcomes, irq, need, outQ, foreign, uioOn, uioEvent, mode,
                        call, result, calls, opens, wedged>>
<1>. USE DEF coreVars, uioVars
<1>1. mm2s \in [Ports -> Channel] /\ port \in Ports
  BY DEF TypeInv, TypeOK, Channel
<1>2. 0 \in Ports /\ (port < NumPorts - 1 => port + 1 \in Ports)
  BY <1>1, RuntimeAssumption DEF Ports
<1>3. CASE ResetMm2s
  BY <1>1, <1>2, <1>3 DEF ResetMm2s, ResetNext
<1>4. CASE ResetS2mm
  BY <1>1, <1>2, <1>4 DEF ResetS2mm, ResetNext
<1>5. CASE ResetFails
  BY <1>1, <1>2, <1>5 DEF ResetFails, DMA!StuckInReset
<1>. QED
  BY <1>3, <1>4, <1>5

LEMMA ResetTyped == TypeInv /\ (ResetMm2s \/ ResetS2mm \/ ResetFails) => TypeInv'
<1>. SUFFICES ASSUME TypeInv, ResetMm2s \/ ResetS2mm \/ ResetFails PROVE TypeInv'
  OBVIOUS
<1>1. TypeOK /\ Bounded
  BY DEF TypeInv
<1>2. /\ mm2s' \in [Ports -> Channel] /\ \A p \in Ports : Owned(mm2s'[p])
      /\ s2mm' \in Channel /\ Owned(s2mm')
  BY <1>1, ResetMoves, ResetFacts DEF TypeOK, Bounded, Channel
<1>3. TypeOK'
  BY <1>1, <1>2, ResetMoves DEF TypeOK, PcSet, Channel
<1>4. Bounded'
  BY <1>1, <1>2, ResetMoves DEF Bounded, InCall, Waiting
<1>. QED
  BY <1>3, <1>4 DEF TypeInv

\* The interrupt's level is the only thing of the Core an acknowledge changes.
LEMMA AckTyped ==
  ASSUME TypeInv, irq' = FALSE, pc' \in {"enable", "drain", "rearm"},
         pc' # "enable" => pc \in InCall,
         UNCHANGED <<accepted, ran, outcomes, need, outQ, dmaVars, uioVars, foreign,
                     mode, call, port, result, calls, opens, wedged>>
  PROVE  TypeInv'
<1>1. TypeOK'
  BY DEF TypeInv, TypeOK, PcSet, dmaVars, uioVars
<1>2. Bounded'
  BY DEF TypeInv, Bounded, dmaVars, InCall, Waiting, LastPort, Owned
<1>. QED
  BY <1>1, <1>2 DEF TypeInv

LEMMA DrainStaleIrqTyped == TypeInv /\ DrainStaleIrq => TypeInv'
  BY AckTyped DEF DrainStaleIrq, Goto, InCall

LEMMA AckIrqTyped == TypeInv /\ AckIrq => TypeInv'
  BY AckTyped DEF AckIrq, Goto, InCall, Waiting

LEMMA EnableUioTyped == TypeInv /\ EnableUio => TypeInv'
<1>. SUFFICES ASSUME TypeInv, EnableUio PROVE TypeInv'
  OBVIOUS
<1>1. /\ uioOn' = TRUE /\ pc' = "ready"
      /\ UNCHANGED <<coreVars, dmaVars, foreign, uioEvent, mode, call, port, result, calls, opens,
                     wedged>>
  BY DEF EnableUio, Goto
<1>. QED
  BY <1>1, ThreadTyped DEF TypeInv, TypeOK, PcSet, Bounded, InCall, Waiting

LEMMA StartDmaTyped == TypeInv /\ StartDma => TypeInv'
<1>. SUFFICES ASSUME TypeInv, StartDma PROVE TypeInv'
  OBVIOUS
<1>. USE DEF coreVars, uioVars
<1>. DEFINE ch == IF call.dir = "in" THEN mm2s[port] ELSE s2mm
<1>1. /\ pc = "start" /\ NextPort("push")
      /\ UNCHANGED <<mode, call, result, calls, opens, wedged, coreVars, uioVars, foreign>>
  BY DEF StartDma
<1>2. PICK d \in DMA!Start(ch, call.id, call.beats) :
        IF call.dir = "in" THEN mm2s' = [mm2s EXCEPT ![port] = d] /\ UNCHANGED s2mm
                           ELSE s2mm' = d /\ UNCHANGED mm2s
  BY DEF StartDma
<1>3. call \in Calls /\ port \in 0 .. LastPort /\ port \in Ports
  BY <1>1 DEF TypeInv, TypeOK, Bounded, InCall
<1>4. ch \in Channel /\ Owned(ch)
  BY <1>3 DEF TypeInv, TypeOK, Bounded, Channel
<1>5. d \in Channel /\ Owned(d)
  BY <1>3, <1>4, StartFacts
<1>. HIDE DEF ch
<1>6. mm2s' \in [Ports -> Channel] /\ s2mm' \in Channel
  BY <1>2, <1>3, <1>5 DEF TypeInv, TypeOK, Channel
<1>7. Owned(s2mm') /\ \A p \in Ports : Owned(mm2s'[p])
  BY <1>2, <1>3, <1>5 DEF TypeInv, TypeOK, Bounded
<1>8. port' \in 0 .. LastPort' /\ port' \in Ports /\ pc' \in {"start", "push"}
  BY <1>1, <1>3, NextPortFacts
<1>9. TypeOK'
  BY <1>1, <1>6, <1>8 DEF TypeInv, TypeOK, PcSet, Channel
<1>10. Bounded'
  BY <1>1, <1>3, <1>7, <1>8 DEF TypeInv, Bounded, InCall, Owned
<1>. QED
  BY <1>9, <1>10 DEF TypeInv

LEMMA PushTyped == TypeInv /\ Push => TypeInv'
<1>. SUFFICES ASSUME TypeInv, Push PROVE TypeInv'
  OBVIOUS
<1>. USE DEF dmaVars, uioVars
<1>1. /\ pc = "push" /\ pc' = "wait" /\ accepted' \in {accepted, Append(accepted, call)}
      /\ UNCHANGED <<ran, outcomes, irq, need, outQ, mm2s, s2mm, uioOn, uioEvent, foreign, mode, call,
                     port, result, calls, opens, wedged>>
  BY DEF Push, Goto
<1>2. call \in Calls /\ port \in 0 .. LastPort
  BY <1>1 DEF TypeInv, Bounded, InCall
<1>3. accepted' \in Seq(Calls) /\ Len(outcomes) <= Len(accepted')
  <2>1. accepted \in Seq(Calls) /\ outcomes \in Seq(Seq(Calls)) /\ Len(outcomes) <= Len(accepted)
    BY DEF TypeInv, TypeOK, Bounded
  <2>2. Append(accepted, call) \in Seq(Calls) /\ Len(Append(accepted, call)) = Len(accepted) + 1
    BY <1>2, <2>1
  <2>3. Len(outcomes) \in Nat /\ Len(accepted) \in Nat
    BY <2>1
  <2>. QED
    BY <1>1, <2>1, <2>2, <2>3
<1>4. TypeOK'
  BY <1>1, <1>3 DEF TypeInv, TypeOK, PcSet
<1>5. Bounded'
  BY <1>1, <1>2, <1>3 DEF TypeInv, Bounded, LastPort, Owned
<1>. QED
  BY <1>4, <1>5 DEF TypeInv

LEMMA WaitDoneTyped == TypeInv /\ (SpinDone \/ WaitIrq \/ RearmUio) => TypeInv'
<1>. SUFFICES ASSUME TypeInv, SpinDone \/ WaitIrq \/ RearmUio PROVE TypeInv'
  OBVIOUS
<1>1. /\ UNCHANGED <<coreVars, dmaVars, foreign, mode, call, port, result, calls, opens, wedged>>
      /\ uioOn' \in {uioOn, TRUE} /\ uioEvent' \in {uioEvent, FALSE}
      /\ pc \in {"wait", "rearm"} /\ pc' \in {"ack", "drain"}
  BY DEF SpinDone, WaitIrq, RearmUio, Goto, uioVars
<1>. QED
  BY <1>1, ThreadTyped DEF TypeInv, TypeOK, PcSet, Bounded, InCall, Waiting, LastPort

LEMMA DrainDmaTyped == TypeInv /\ DrainDma => TypeInv'
<1>. SUFFICES ASSUME TypeInv, DrainDma PROVE TypeInv'
  OBVIOUS
<1>1. /\ pc = "drain" /\ NextPort("ready") /\ result' \in {result, "ok"}
      /\ UNCHANGED <<coreVars, dmaVars, foreign, uioOn, uioEvent, mode, call, calls, opens, wedged>>
  BY DEF DrainDma, Succeed, uioVars
<1>2. call \in Calls /\ port \in 0 .. LastPort
  BY <1>1 DEF TypeInv, Bounded, InCall, Waiting
<1>3. port' \in 0 .. LastPort' /\ port' \in Ports /\ pc' \in {"drain", "ready"}
  BY <1>1, <1>2, NextPortFacts
<1>. QED
  BY <1>1, <1>2, <1>3, ThreadTyped DEF TypeInv, TypeOK, PcSet, Bounded

LEMMA OutsideTyped == TypeInv /\ (OpenUio \/ Exit \/ Call) => TypeInv'
<1>. SUFFICES ASSUME TypeInv, OpenUio \/ Exit \/ Call PROVE TypeInv'
  OBVIOUS
<1>. USE DEF coreVars, dmaVars, uioVars
<1>1. CASE OpenUio
  <2>1. /\ UNCHANGED <<coreVars, dmaVars, foreign, uioOn, call, port, calls, wedged>>
        /\ uioEvent' = FALSE /\ pc' = "reset" /\ mode' \in Modes /\ opens' = opens + 1
        /\ result' = None
    BY <1>1 DEF OpenUio
  <2>2. /\ uioOn' \in BOOLEAN /\ wedged' \in BOOLEAN /\ call' \in Calls \cup {None} /\ port' \in Ports
        /\ calls' \in 0 .. MaxCalls /\ opens' \in Nat
    BY <2>1 DEF TypeInv, TypeOK, Bounded
  <2>3. pc' \in PcSet /\ pc' \notin InCall
    BY <2>1 DEF PcSet, InCall, Waiting
  <2>4. uioEvent' \in BOOLEAN
    BY <2>1
  <2>. QED
    BY <2>1, <2>2, <2>3, <2>4, ThreadTyped
<1>2. CASE Exit
  BY <1>2, ThreadTyped, PortFacts DEF Exit, TypeInv, TypeOK, PcSet, Bounded, InCall, Waiting
<1>3. CASE Call
  <2>1. PICK dir \in {"in", "out"}, b \in Lengths : call' = [id |-> calls + 1, dir |-> dir, beats |-> b]
    BY <1>3 DEF Call
  <2>2. call' \in Calls /\ calls' \in 0 .. MaxCalls /\ port' = 0 /\ result' = None
    BY <1>3, <2>1, RuntimeAssumption DEF Call, Calls, Ids, TypeInv, Bounded
  <2>3. port' \in 0 .. LastPort'
    BY <2>2, RuntimeAssumption DEF LastPort
  <2>. QED
    BY <1>3, <2>2, <2>3, ThreadTyped, PortFacts DEF Call, TypeInv, TypeOK, PcSet, Bounded
<1>. QED
  BY <1>1, <1>2, <1>3

LEMMA FailTyped == TypeInv /\ (StartFails \/ WaitTimeout \/ DrainTimeout) => TypeInv'
<1>. SUFFICES ASSUME TypeInv, StartFails \/ WaitTimeout \/ DrainTimeout PROVE TypeInv'
  OBVIOUS
<1>1. /\ UNCHANGED <<coreVars, dmaVars, foreign, uioOn, uioEvent, mode, call, calls, opens>>
      /\ pc' = "failed" /\ port' = 0 /\ result' = "fail" /\ wedged' \in {wedged, TRUE}
  BY DEF StartFails, WaitTimeout, DrainTimeout, TimedOut, Fail, uioVars
<1>. QED
  BY <1>1, ThreadTyped, PortFacts DEF TypeInv, TypeOK, PcSet, Bounded, InCall, Waiting

LEMMA ReloadTyped == TypeInv /\ Reload => TypeInv'
<1>. SUFFICES ASSUME TypeInv, Reload PROVE TypeInv'
  OBVIOUS
<1>1. TypeOK'
  <2>1. /\ accepted' = <<>> /\ ran' = <<>> /\ outcomes' = <<>> /\ irq' = FALSE /\ need' = 0
        /\ outQ' = <<>> /\ mm2s' = [p \in Ports |-> DMA!Reset] /\ s2mm' = DMA!Reset
        /\ uioOn' = TRUE /\ uioEvent' = FALSE /\ wedged' = FALSE
        /\ UNCHANGED <<pc, mode, call, port, result, foreign>>
    BY DEF Reload
  <2>2. irq' \in BOOLEAN /\ uioOn' \in BOOLEAN /\ uioEvent' \in BOOLEAN /\ wedged' \in BOOLEAN
    BY <2>1
  <2>3. mm2s' \in [Ports -> Channel] /\ s2mm' \in Channel
    BY <2>1, ResetFacts
  <2>4. /\ accepted' \in Seq(Calls) /\ ran' \in Seq(Calls) /\ outcomes' \in Seq(Seq(Calls))
        /\ need' \in Nat /\ Len(outQ') <= OutQDepth
    BY <2>1, RuntimeAssumption
  <2>5. /\ pc' \in PcSet /\ mode' \in Modes /\ call' \in Calls \cup {None} /\ port' \in Ports
        /\ result' \in {None, "ok", "fail"} /\ foreign' \subseteq Ids
    BY <2>1 DEF TypeInv, TypeOK
  <2>. QED
    BY <2>2, <2>3, <2>4, <2>5 DEF TypeOK, Channel
<1>2. Bounded'
  BY ResetFacts DEF Reload, TypeInv, TypeOK, Bounded, InCall, Waiting
<1>. QED
  BY <1>1, <1>2 DEF TypeInv

LEMMA InitTyped == Init => TypeInv
<1>. SUFFICES ASSUME Init PROVE TypeInv
  OBVIOUS
<1>1. TypeOK
  <2>1. mm2s \in [Ports -> Channel] /\ s2mm \in Channel
    BY ResetFacts DEF Init
  <2>2. pc \in PcSet /\ port \in Ports
    BY PortFacts DEF Init, PcSet
  <2>3. /\ accepted \in Seq(Calls) /\ ran \in Seq(Calls) /\ outcomes \in Seq(Seq(Calls))
        /\ irq \in BOOLEAN /\ need \in Nat
    <3>1. <<>> \in Seq(Calls) /\ <<>> \in Seq(Seq(Calls))
      OBVIOUS
    <3>. QED
      BY <3>1 DEF Init, Core!ServiceInit
  <2>4. Len(outQ) <= OutQDepth
    <3>1. OutQDepth \in Nat
      BY RuntimeAssumption
    <3>. QED
      BY <3>1 DEF Init
  <2>. QED
    BY <2>1, <2>2, <2>3, <2>4 DEF Init, TypeOK, Channel
<1>2. Bounded
  BY ResetFacts, RuntimeAssumption DEF Init, Bounded, InCall, Waiting, Core!ServiceInit
<1>. QED
  BY <1>1, <1>2 DEF TypeInv

LEMMA TypeStutter == TypeInv /\ UNCHANGED vars => TypeInv'
  BY ThreadTyped DEF vars, uioVars, threadVars, TypeInv, TypeOK, Bounded, LastPort

LEMMA TypeStep == TypeInv /\ [Next]_vars => TypeInv'
  BY EngineStartTyped, TakeBeatTyped, QueueBeatTyped, SendBeatTyped, EngineDoneTyped, UioFireTyped,
     ResetTyped, DrainStaleIrqTyped, EnableUioTyped, StartDmaTyped, PushTyped, WaitDoneTyped,
     AckIrqTyped, DrainDmaTyped, OutsideTyped, FailTyped, ReloadTyped, TypeStutter
     DEF Next, Hardware, Proceed

LEMMA TypeInvariance == Spec => []TypeInv
  BY InitTyped, TypeStep, PTL DEF Spec

\* Every variable of the driver, the channels and the Core keeps its type, and
\* outQ its depth, wherever a process is killed.
THEOREM RuntimeTypeCorrect == Spec => []TypeOK
  BY TypeInvariance, PTL DEF TypeInv

-----------------------------------------------------------------------------
(* The hardware's steps.                                                   *)

\* What the Core's counters say when an instruction is outstanding or none is.
LEMMA CoreFacts ==
  ASSUME TypeInv, CoreInv
  PROVE  /\ Free => Core!Outstanding = 0 /\ ran = <<>> /\ ~Busy /\ Owing = 0
         /\ Busy => /\ Core!Outstanding = 1 /\ Core!Current = Cur /\ Cur \in Calls /\ ~Free
                    /\ ran = <<>> \/ ran = <<Cur>>
         /\ Free \/ Busy
         /\ Owing \in Nat
<1>1. accepted \in Seq(Calls) /\ outcomes \in Seq(Seq(Calls)) /\ need \in Nat
  BY DEF TypeInv, TypeOK
<1>2. Len(accepted) \in Nat /\ Len(outcomes) \in Nat
  BY <1>1
<1>3. Free \/ Busy
  BY DEF CoreInv
<1>4. ASSUME Free PROVE Core!Outstanding = 0 /\ ran = <<>> /\ ~Busy /\ Owing = 0
  BY <1>2, <1>4 DEF Free, Busy, Core!Outstanding, CoreInv, Owing
<1>5. ASSUME Busy
      PROVE  /\ Core!Outstanding = 1 /\ Core!Current = Cur /\ Cur \in Calls /\ ~Free
             /\ ran = <<>> \/ ran = <<Cur>>
  <2>1. Len(accepted) = Len(outcomes) + 1 /\ Len(accepted) \in 1 .. Len(accepted)
    BY <1>2, <1>5 DEF Busy
  <2>2. Cur \in Calls
    BY <1>1, <2>1 DEF Cur
  <2>. QED
    BY <1>2, <1>5, <2>1, <2>2 DEF Free, Cur, Core!Outstanding, Core!Current, CoreInv
<1>6. Owing \in Nat
  BY <1>1, <1>5, CallFacts DEF Owing
<1>. QED
  BY <1>3, <1>4, <1>5, <1>6

\* An instruction is outstanding only while a thread waits for it or after its
\* call has timed out.
LEMMA BusyPlaces == ThreadInv /\ ~Free => pc \in {"wait", "closed", "failed"}
  BY DEF ThreadInv

\* What a step that only takes or moves beats leaves alone.
LEMMA ThreadStill ==
  ASSUME RuntimeInv, Busy, UNCHANGED <<accepted, outcomes, irq, uioVars, threadVars>>,
         ~wedged => pc = "wait",
         call.dir = "in" /\ s2mm.left = 0 => s2mm'.left = 0,
         call.dir # "in" /\ InputsIdle => InputsIdle'
  PROVE  ThreadInv' /\ ChannelInv' /\ CallInv' /\ InterruptInv' /\ ResultInv'
<1>. USE DEF uioVars, threadVars
<1>1. TypeInv /\ CoreInv /\ ThreadInv /\ ChannelInv /\ CallInv /\ InterruptInv /\ ResultInv
  BY DEF RuntimeInv, HardwareInv
<1>2. ~Free /\ ~Free' /\ Busy' /\ Cur' = Cur
  BY <1>1, CoreFacts DEF Free, Busy, Cur
<1>3. pc \in {"wait", "closed", "failed"}
  BY <1>1, <1>2, BusyPlaces
<1>4. ThreadInv'
  BY <1>1, <1>2, <1>3 DEF ThreadInv, Waiting
<1>5. ChannelInv'
  BY <1>3 DEF ChannelInv
<1>6. CallInv'
  BY <1>1, <1>2, <1>3 DEF CallInv, Waiting
<1>7. InterruptInv'
  BY <1>1, <1>3 DEF InterruptInv
<1>8. ResultInv'
  BY <1>1, <1>3 DEF ResultInv
<1>. QED
  BY <1>4, <1>5, <1>6, <1>7, <1>8

LEMMA EngineStartStep == RuntimeInv /\ EngineStart => RuntimeInv'
<1>. SUFFICES ASSUME RuntimeInv, EngineStart PROVE RuntimeInv'
  OBVIOUS
<1>. USE DEF coreVars, dmaVars, uioVars, threadVars
<1>1. TypeInv /\ CoreInv /\ QueueInv /\ Streams /\ Clean /\ ThreadInv
  BY DEF RuntimeInv, HardwareInv
<1>2. /\ Core!Outstanding > 0 /\ ran = <<>> /\ ran' = <<Core!Current>> /\ need' = Core!Current.beats
      /\ UNCHANGED <<accepted, outcomes, irq, outQ, mm2s, s2mm, uioOn, uioEvent, pc, mode, call, port,
                     result, calls, opens, wedged, foreign>>
  BY DEF EngineStart, Core!Run
<1>3. Busy /\ ~Free /\ Cur \in Calls /\ ran' = <<Cur>> /\ need' = Cur.beats
  BY <1>1, <1>2, CoreFacts
<1>4. Busy' /\ ~Free' /\ Cur' = Cur
  BY <1>2, <1>3 DEF Busy, Free, Cur
<1>5. Owing' = Owing
  BY <1>2, <1>3, <1>4 DEF Owing
<1>6. CoreInv'
  BY <1>3, <1>4 DEF CoreInv
<1>7. QueueInv' /\ Streams' /\ Clean'
  BY <1>1, <1>2, <1>3, <1>4, <1>5 DEF QueueInv, Streams, Clean
<1>8. ThreadInv' /\ ChannelInv' /\ CallInv' /\ InterruptInv' /\ ResultInv'
  BY <1>1, <1>2, <1>3, ThreadStill DEF InputsIdle, ThreadInv
<1>. QED
  BY <1>1, <1>6, <1>7, <1>8, EngineStartTyped DEF RuntimeInv, HardwareInv

LEMMA TakeBeatStep == RuntimeInv /\ TakeBeat => RuntimeInv'
<1>. SUFFICES ASSUME RuntimeInv, TakeBeat PROVE RuntimeInv'
  OBVIOUS
<1>. USE DEF coreVars, dmaVars, uioVars, threadVars
<1>1. TypeInv /\ CoreInv /\ QueueInv /\ Streams /\ Clean /\ ThreadInv
  BY DEF RuntimeInv, HardwareInv
<1>2. /\ Running # None /\ Running.dir = "in" /\ need > 0 /\ need' = need - 1
      /\ \A p \in Ports : mm2s[p].left > 0
      /\ mm2s' = [p \in Ports |-> DMA!Transfer(mm2s[p])]
      /\ foreign' = IF \A p \in Ports : mm2s[p].left > 0 /\ mm2s[p].owner = Running.id
                    THEN foreign ELSE foreign \cup {Running.id}
      /\ UNCHANGED <<accepted, ran, outcomes, irq, outQ, s2mm, uioOn, uioEvent, pc, mode, call, port,
                     result, calls, opens, wedged>>
  BY DEF TakeBeat, Joined
<1>3. Busy /\ ~Free /\ ran = <<Cur>> /\ Running = Cur /\ ran # <<>>
  BY <1>1, <1>2, CoreFacts DEF Running
<1>4. Busy' /\ ~Free' /\ Cur' = Cur /\ Owing = need /\ Owing' = need - 1 /\ need \in Nat
  BY <1>1, <1>2, <1>3 DEF Busy, Free, Cur, Owing, TypeInv, TypeOK
<1>5. outQ = <<>> /\ \A p \in Ports : mm2s[p].owner = Cur.id /\ mm2s[p].left = need
  BY <1>1, <1>2, <1>3, <1>4 DEF Streams
<1>6. \A p \in Ports : /\ mm2s'[p].owner = Cur.id /\ mm2s'[p].left = need - 1
                       /\ mm2s'[p].clash = mm2s[p].clash
  BY <1>1, <1>2, <1>5, TransferFacts DEF TypeInv, TypeOK, Channel
<1>7. foreign' = foreign
  BY <1>2, <1>3, <1>5
<1>8. CoreInv'
  BY <1>1, <1>2, <1>3, <1>4 DEF CoreInv
<1>9. QueueInv'
  BY <1>2, <1>5 DEF QueueInv
<1>10. Streams'
  BY <1>2, <1>3, <1>4, <1>5, <1>6 DEF Streams
<1>11. Clean'
  BY <1>1, <1>2, <1>6, <1>7 DEF Clean
<1>12. ThreadInv' /\ ChannelInv' /\ CallInv' /\ InterruptInv' /\ ResultInv'
  <2>1. 0 \in Ports /\ ~InputsIdle
    BY <1>2, <1>5, PortFacts DEF InputsIdle, TypeInv, TypeOK
  <2>. QED
    BY <1>1, <1>2, <1>3, <2>1, ThreadStill DEF ThreadInv
<1>. QED
  BY <1>1, <1>8, <1>9, <1>10, <1>11, <1>12, TakeBeatTyped DEF RuntimeInv, HardwareInv

LEMMA QueueBeatStep == RuntimeInv /\ QueueBeat => RuntimeInv'
<1>. SUFFICES ASSUME RuntimeInv, QueueBeat PROVE RuntimeInv'
  OBVIOUS
<1>. USE DEF coreVars, dmaVars, uioVars, threadVars
<1>. DEFINE e == [id |-> Running.id, last |-> need = 1]
<1>1. TypeInv /\ CoreInv /\ QueueInv /\ Streams /\ Clean /\ ThreadInv
  BY DEF RuntimeInv, HardwareInv
<1>2. /\ Running # None /\ Running.dir = "out" /\ need > 0 /\ need' = need - 1
      /\ outQ' = Append(outQ, e)
      /\ UNCHANGED <<accepted, ran, outcomes, irq, mm2s, s2mm, uioOn, uioEvent, pc, mode, call, port,
                     result, calls, opens, wedged, foreign>>
  BY DEF QueueBeat
<1>3. Busy /\ ~Free /\ ran = <<Cur>> /\ Running = Cur /\ ran # <<>> /\ Cur \in Calls
  BY <1>1, <1>2, CoreFacts DEF Running
<1>4. Busy' /\ ~Free' /\ Cur' = Cur /\ Owing = need /\ Owing' = need - 1 /\ need \in Nat
  BY <1>1, <1>2, <1>3 DEF Busy, Free, Cur, Owing, TypeInv, TypeOK
<1>5. s2mm.owner = Cur.id /\ s2mm.left = Len(outQ) + need
  BY <1>1, <1>2, <1>3, <1>4 DEF Streams
<1>6. e.id = Cur.id /\ (e.last => need = 1)
  BY <1>3
<1>. HIDE DEF e
<1>7. /\ outQ \in Seq([id : Ids, last : BOOLEAN]) /\ Len(outQ) \in Nat /\ Len(outQ') = Len(outQ) + 1
      /\ outQ'[Len(outQ')] = e /\ \A i \in 1 .. Len(outQ) : outQ'[i] = outQ[i]
  BY <1>1, <1>2 DEF TypeInv, Bounded
<1>8. CoreInv'
  BY <1>1, <1>2, <1>3, <1>4 DEF CoreInv
<1>9. QueueInv'
  <2>. SUFFICES ASSUME NEW i \in 1 .. Len(outQ')
                PROVE  outQ'[i].id = Cur.id /\ (outQ'[i].last => i = Len(outQ') /\ need = 1)
    BY <1>2, <1>4, <1>5 DEF QueueInv
  <2>1. CASE i = Len(outQ')
    BY <1>6, <1>7, <2>1
  <2>2. CASE i \in 1 .. Len(outQ)
    BY <1>1, <1>2, <1>4, <1>5, <1>7, <2>2 DEF QueueInv
  <2>. QED
    BY <1>7, <2>1, <2>2
<1>10. Streams'
  BY <1>2, <1>3, <1>4, <1>5, <1>7 DEF Streams
<1>11. Clean'
  BY <1>1, <1>2 DEF Clean
<1>12. ThreadInv' /\ ChannelInv' /\ CallInv' /\ InterruptInv' /\ ResultInv'
  BY <1>1, <1>2, <1>3, ThreadStill DEF InputsIdle, ThreadInv
<1>. QED
  BY <1>1, <1>8, <1>9, <1>10, <1>11, <1>12, QueueBeatTyped DEF RuntimeInv, HardwareInv

LEMMA SendBeatStep == RuntimeInv /\ SendBeat => RuntimeInv'
<1>. SUFFICES ASSUME RuntimeInv, SendBeat PROVE RuntimeInv'
  OBVIOUS
<1>. USE DEF coreVars, dmaVars, uioVars, threadVars
<1>1. /\ TypeInv /\ CoreInv /\ QueueInv /\ Streams /\ Clean
      /\ ThreadInv /\ ChannelInv /\ CallInv /\ InterruptInv /\ ResultInv
  BY DEF RuntimeInv, HardwareInv
<1>2. /\ outQ # <<>> /\ s2mm.left > 0 /\ outQ' = Tail(outQ)
      /\ s2mm' = IF outQ[1].last THEN [s2mm EXCEPT !.left = 0] ELSE DMA!Transfer(s2mm)
      /\ foreign' = IF outQ[1].id = s2mm.owner THEN foreign ELSE foreign \cup {s2mm.owner}
      /\ UNCHANGED <<accepted, ran, outcomes, irq, need, mm2s, uioOn, uioEvent, pc, mode, call, port,
                     result, calls, opens, wedged>>
  BY DEF SendBeat
<1>3. /\ outQ \in Seq([id : Ids, last : BOOLEAN]) /\ Len(outQ) \in Nat /\ 1 \in 1 .. Len(outQ)
      /\ Len(outQ') = Len(outQ) - 1 /\ \A i \in 1 .. Len(outQ') : outQ'[i] = outQ[i + 1]
      /\ (Len(outQ') = 0 <=> outQ' = <<>>)
  <2>1. outQ \in Seq([id : Ids, last : BOOLEAN]) /\ outQ # <<>>
    BY <1>1, <1>2 DEF TypeInv, Bounded
  <2>2. Tail(outQ) \in Seq([id : Ids, last : BOOLEAN]) /\ Len(Tail(outQ)) = Len(outQ) - 1
    BY <2>1
  <2>3. Len(outQ') = 0 <=> outQ' = <<>>
    BY <1>2, <2>2, EmptySeq
  <2>. QED
    BY <1>2, <2>1, <2>2, <2>3
<1>4. /\ outQ[1].id = s2mm.owner /\ (outQ[1].last => Len(outQ) = 1 /\ Owing = 0)
      /\ foreign' = foreign
  BY <1>1, <1>2, <1>3 DEF QueueInv
<1>5. Owing' = Owing /\ (Free' <=> Free) /\ (Busy' <=> Busy) /\ Cur' = Cur /\ Owing \in Nat
  BY <1>1, <1>2, CoreFacts DEF Owing, Free, Busy, Cur
<1>6. s2mm \in Channel /\ s2mm.left \in Nat
  BY <1>1, ChannelFields DEF TypeInv, TypeOK, Channel
<1>7. s2mm.left = Len(outQ) + Owing
  <2>1. CASE Free
    BY <1>1, <1>2, <1>3, <2>1, CoreFacts DEF Streams
  <2>2. CASE Busy
    BY <1>1, <1>2, <2>2, CoreFacts, CallFacts DEF Streams
  <2>. QED
    BY <1>1, <2>1, <2>2, CoreFacts
<1>8. s2mm'.left = s2mm.left - 1 /\ s2mm'.owner = s2mm.owner /\ s2mm'.clash = s2mm.clash
  <2>1. CASE outQ[1].last
    BY <1>2, <1>4, <1>6, <1>7, <2>1 DEF Channel, DMA!Channels
  <2>2. CASE ~outQ[1].last
    BY <1>2, <1>6, <2>2, TransferFacts
  <2>. QED
    BY <2>1, <2>2
<1>9. CoreInv'
  BY <1>1, <1>2, <1>5 DEF CoreInv
<1>10. QueueInv'
  <2>. SUFFICES ASSUME NEW i \in 1 .. Len(outQ')
                PROVE  /\ outQ'[i].id = s2mm.owner
                       /\ outQ'[i].last => i = Len(outQ') /\ Owing = 0
    BY <1>5, <1>8 DEF QueueInv
  <2>1. i \in Nat /\ i + 1 \in 1 .. Len(outQ) /\ outQ'[i] = outQ[i + 1]
    BY <1>3
  <2>2. outQ[i + 1].id = s2mm.owner /\ (outQ[i + 1].last => i + 1 = Len(outQ) /\ Owing = 0)
    BY <1>1, <2>1 DEF QueueInv
  <2>. QED
    BY <1>3, <2>1, <2>2
<1>11. Streams'
  BY <1>1, <1>2, <1>3, <1>5, <1>6, <1>7, <1>8 DEF Streams
<1>12. Clean'
  BY <1>1, <1>2, <1>4, <1>8 DEF Clean
<1>13. pc \in Waiting \cup {"closed", "failed"} /\ (pc \notin Waiting => wedged)
  BY <1>1, <1>2 DEF ThreadInv
<1>14. ThreadInv'
  BY <1>1, <1>2, <1>5, <1>13 DEF ThreadInv, LastPort
<1>15. ChannelInv'
  BY <1>2, <1>13 DEF ChannelInv, Waiting
<1>16. CallInv'
  BY <1>1, <1>2, <1>3, <1>5, <1>6, <1>7, <1>8 DEF CallInv, InputsIdle
<1>17. InterruptInv' /\ ResultInv'
  BY <1>1, <1>2 DEF InterruptInv, ResultInv
<1>. QED
  BY <1>1, <1>9, <1>10, <1>11, <1>12, <1>14, <1>15, <1>16, <1>17, SendBeatTyped
     DEF RuntimeInv, HardwareInv

LEMMA EngineDoneStep == RuntimeInv /\ EngineDone => RuntimeInv'
<1>. SUFFICES ASSUME RuntimeInv, EngineDone PROVE RuntimeInv'
  OBVIOUS
<1>. USE DEF coreVars, dmaVars, uioVars, threadVars
<1>1. /\ TypeInv /\ CoreInv /\ QueueInv /\ Streams /\ Clean
      /\ ThreadInv /\ ChannelInv /\ CallInv /\ InterruptInv /\ ResultInv
  BY DEF RuntimeInv, HardwareInv
<1>2. /\ Core!Outstanding > 0 /\ need = 0 /\ ran = Core!Execution(Core!Current)
      /\ outcomes' = Append(outcomes, ran) /\ ran' = <<>> /\ irq' = TRUE
      /\ UNCHANGED <<accepted, need, outQ, mm2s, s2mm, uioOn, uioEvent, pc, mode, call, port, result,
                     calls, opens, wedged, foreign>>
  BY DEF EngineDone, Core!Retire
<1>3. Busy /\ ~Free /\ Cur \in Calls /\ ran = <<Cur>> /\ ran # <<>>
  BY <1>1, <1>2, CoreFacts DEF Core!Execution
<1>4. /\ outcomes \in Seq(Seq(Calls)) /\ Len(outcomes) \in Nat /\ Len(outcomes') = Len(outcomes) + 1
      /\ outcomes' # <<>> /\ outcomes'[Len(outcomes')] = <<Cur>>
  BY <1>1, <1>2, <1>3 DEF TypeInv, TypeOK
<1>5. Free' /\ ~Busy' /\ Owing = 0 /\ Owing' = 0
  BY <1>2, <1>3, <1>4 DEF Free, Busy, Owing
<1>6. pc \in {"wait", "closed", "failed"}
  BY <1>1, <1>3, BusyPlaces
<1>7. s2mm.left \in Nat /\ Len(outQ) \in Nat /\ Cur.dir \in {"in", "out"}
  BY <1>1, <1>3, ChannelFields, CallFacts DEF TypeInv, TypeOK, Bounded, Channel
<1>8. CoreInv'
  BY <1>2, <1>5 DEF CoreInv
<1>9. QueueInv'
  BY <1>1, <1>2, <1>5 DEF QueueInv
<1>10. Streams'
  BY <1>1, <1>2, <1>3, <1>5, <1>7 DEF Streams
<1>11. Clean'
  BY <1>1, <1>2 DEF Clean
<1>12. ThreadInv'
  BY <1>1, <1>2, <1>5, <1>6 DEF ThreadInv, Waiting, LastPort
<1>13. ChannelInv'
  BY <1>2, <1>6 DEF ChannelInv
<1>14. CallInv'
  <2>. SUFFICES ASSUME pc = "wait"
                PROVE  /\ Cur = call /\ InputsIdle' /\ s2mm.left = Len(outQ)
                       /\ call.dir = "in" => outQ = <<>>
    BY <1>2, <1>4, <1>5, <1>6 DEF CallInv, Waiting
  <2>1. Cur = call /\ IF call.dir = "in" THEN s2mm.left = 0 ELSE InputsIdle
    BY <1>1, <1>3 DEF CallInv, Waiting
  <2>2. CASE call.dir = "in"
    BY <1>1, <1>2, <1>3, <1>5, <2>1, <2>2 DEF Streams, InputsIdle
  <2>3. CASE call.dir = "out"
    BY <1>1, <1>2, <1>3, <1>5, <1>7, <2>1, <2>3 DEF Streams, InputsIdle
  <2>. QED
    BY <1>7, <2>1, <2>2, <2>3
<1>15. InterruptInv'
  BY <1>1, <1>2, <1>6 DEF InterruptInv
<1>16. ResultInv'
  BY <1>1, <1>2, <1>6 DEF ResultInv
<1>. QED
  BY <1>1, <1>8, <1>9, <1>10, <1>11, <1>12, <1>13, <1>14, <1>15, <1>16, EngineDoneTyped
     DEF RuntimeInv, HardwareInv

-----------------------------------------------------------------------------
(* The thread's steps.                                                     *)

\* A step that leaves the Core's queues and the channels alone.
LEMMA HardwareStill ==
  ASSUME HardwareInv, UNCHANGED <<accepted, ran, outcomes, need, outQ, dmaVars, foreign>>
  PROVE  /\ CoreInv' /\ QueueInv' /\ Streams' /\ Clean'
         /\ (Free' <=> Free) /\ (Busy' <=> Busy) /\ Cur' = Cur /\ (InputsIdle' <=> InputsIdle)
<1>. USE DEF dmaVars
<1>1. /\ (Free' <=> Free) /\ (Busy' <=> Busy) /\ Cur' = Cur /\ Owing' = Owing
      /\ (InputsIdle' <=> InputsIdle)
  BY DEF Free, Busy, Cur, Owing, InputsIdle
<1>2. CoreInv' /\ QueueInv' /\ Streams' /\ Clean'
  BY <1>1 DEF HardwareInv, CoreInv, QueueInv, Streams, Clean
<1>. QED
  BY <1>1, <1>2

LEMMA UioFireStep == RuntimeInv /\ UioFire => RuntimeInv'
<1>. SUFFICES ASSUME RuntimeInv, UioFire PROVE RuntimeInv'
  OBVIOUS
<1>. USE DEF coreVars, dmaVars, threadVars
<1>1. /\ HardwareInv /\ TypeInv /\ CoreInv
      /\ ThreadInv /\ ChannelInv /\ CallInv /\ InterruptInv /\ ResultInv
  BY DEF RuntimeInv, HardwareInv
<1>2. /\ irq /\ uioOn /\ uioOn' = FALSE /\ uioEvent' = TRUE
      /\ UNCHANGED <<accepted, ran, outcomes, irq, need, outQ, mm2s, s2mm, foreign, pc, mode, call,
                     port, result, calls, opens, wedged>>
  BY DEF UioFire
<1>3. HardwareInv'
  BY <1>1, <1>2, HardwareStill, UioFireTyped DEF HardwareInv
<1>4. (Free' <=> Free) /\ (Busy' <=> Busy) /\ Cur' = Cur
  BY <1>1, <1>2, HardwareStill
<1>5. ThreadInv' /\ ChannelInv' /\ ResultInv'
  BY <1>1, <1>2, <1>4 DEF ThreadInv, ChannelInv, ResultInv, Programmed, InputsIdle, LastPort
<1>6. CallInv'
  BY <1>1, <1>2, <1>4 DEF CallInv, InputsIdle
<1>7. InterruptInv'
  BY <1>1, <1>2 DEF InterruptInv
<1>. QED
  BY <1>3, <1>5, <1>6, <1>7 DEF RuntimeInv

\* The channels reset so far are idle, and the Core sends nothing.
LEMMA ResetOneByOne ==
  ASSUME TypeInv, ThreadInv, ChannelInv, ResetMm2s \/ ResetS2mm \/ ResetFails
  PROVE  ChannelInv' /\ (pc' # "reset" => port' = 0)
<1>1. mm2s \in [Ports -> Channel] /\ port \in Ports /\ NumPorts \in Nat \ {0}
  BY RuntimeAssumption DEF TypeInv, TypeOK, Channel
<1>2. CASE ResetMm2s /\ port = 0
  BY <1>1, <1>2, ResetFacts DEF ResetMm2s, ChannelInv
<1>3. CASE ResetMm2s /\ port # 0
  <2>1. /\ port > 0 /\ s2mm'.left = 0
        /\ \A p \in Ports : p < port + 1 => mm2s'[p].left = 0
    BY <1>1, <1>3, ResetFacts DEF ResetMm2s, ChannelInv, Ports
  <2>2. \/ pc' = "reset" /\ port' = port + 1
        \/ pc' = "drainIrq" /\ port' = 0 /\ port = NumPorts - 1
    BY <1>1, <1>3 DEF ResetMm2s, ResetNext, Ports
  <2>3. CASE pc' = "reset" /\ port' = port + 1
    BY <2>1, <2>3 DEF ChannelInv
  <2>4. CASE pc' = "drainIrq" /\ port' = 0 /\ port = NumPorts - 1
    <3>1. \A p \in Ports : p < port + 1
      BY <1>1, <2>4 DEF Ports
    <3>. QED
      BY <2>1, <2>4, <3>1 DEF ChannelInv, InputsIdle
  <2>. QED
    BY <2>2, <2>3, <2>4
<1>4. CASE ResetS2mm
  <2>1. s2mm'.left = 0 /\ port = 0 /\ \A p \in Ports : p < port + 1 => mm2s'[p].left = 0
    BY <1>1, <1>4, ResetFacts DEF ResetS2mm, ChannelInv, ThreadInv, Ports
  <2>2. \/ pc' = "reset" /\ port' = port + 1
        \/ pc' = "drainIrq" /\ port' = 0 /\ port = NumPorts - 1
    BY <1>1, <1>4 DEF ResetS2mm, ResetNext, Ports
  <2>. QED
    BY <1>1, <2>1, <2>2 DEF ChannelInv, InputsIdle, Ports
<1>5. CASE ResetFails
  BY <1>5 DEF ResetFails, ChannelInv
<1>. QED
  BY <1>2, <1>3, <1>4, <1>5

LEMMA ResetStep == RuntimeInv /\ (ResetMm2s \/ ResetS2mm \/ ResetFails) => RuntimeInv'
<1>. SUFFICES ASSUME RuntimeInv, ResetMm2s \/ ResetS2mm \/ ResetFails PROVE RuntimeInv'
  OBVIOUS
<1>1. /\ TypeInv /\ CoreInv /\ QueueInv /\ Streams /\ Clean
      /\ ThreadInv /\ ChannelInv /\ InterruptInv /\ ResultInv
  BY DEF RuntimeInv, HardwareInv
<1>2. Free /\ ~Busy /\ outQ = <<>> /\ ~wedged
  BY <1>1, CoreFacts, ResetMoves DEF ThreadInv, Waiting
<1>3. Free' /\ ~Busy' /\ outQ' = <<>>
  BY <1>1, <1>2, ResetMoves DEF Free, Busy
<1>4. CoreInv'
  BY <1>1, <1>2, <1>3, ResetMoves DEF CoreInv
<1>5. QueueInv' /\ Streams'
  BY <1>3 DEF QueueInv, Streams
<1>6. Clean'
  BY <1>1, ResetMoves, ResetFacts DEF Clean
<1>7. ChannelInv' /\ ThreadInv'
  BY <1>1, <1>2, <1>3, ResetMoves, ResetOneByOne DEF ThreadInv
<1>8. CallInv' /\ ResultInv'
  BY <1>1, ResetMoves DEF CallInv, ResultInv, Waiting
<1>9. InterruptInv'
  BY <1>1, ResetMoves DEF InterruptInv
<1>. QED
  BY <1>1, <1>4, <1>5, <1>6, <1>7, <1>8, <1>9, ResetTyped DEF RuntimeInv, HardwareInv

LEMMA DrainStaleIrqStep == RuntimeInv /\ DrainStaleIrq => RuntimeInv'
<1>. SUFFICES ASSUME RuntimeInv, DrainStaleIrq PROVE RuntimeInv'
  OBVIOUS
<1>. USE DEF dmaVars, uioVars
<1>1. /\ HardwareInv /\ TypeInv
      /\ ThreadInv /\ ChannelInv /\ InterruptInv /\ ResultInv
  BY DEF RuntimeInv, HardwareInv
<1>2. /\ pc = "drainIrq" /\ pc' = "enable" /\ irq' = FALSE
      /\ UNCHANGED <<accepted, ran, outcomes, need, outQ, mm2s, s2mm, foreign, uioOn, uioEvent, mode,
                     call, port, result, calls, opens, wedged>>
  BY DEF DrainStaleIrq, Goto
<1>3. HardwareInv'
  BY <1>1, <1>2, HardwareStill, DrainStaleIrqTyped DEF HardwareInv
<1>4. (Free' <=> Free) /\ (Busy' <=> Busy) /\ Cur' = Cur /\ (InputsIdle' <=> InputsIdle)
  BY <1>1, <1>2, HardwareStill
<1>5. ThreadInv'
  BY <1>1, <1>2, <1>4 DEF ThreadInv, Waiting
<1>6. ChannelInv'
  BY <1>1, <1>2, <1>4 DEF ChannelInv
<1>7. CallInv' /\ ResultInv'
  BY <1>1, <1>2 DEF CallInv, ResultInv, Waiting
<1>8. InterruptInv'
  BY <1>1, <1>2 DEF InterruptInv
<1>. QED
  BY <1>3, <1>5, <1>6, <1>7, <1>8 DEF RuntimeInv

LEMMA EnableUioStep == RuntimeInv /\ EnableUio => RuntimeInv'
<1>. SUFFICES ASSUME RuntimeInv, EnableUio PROVE RuntimeInv'
  OBVIOUS
<1>. USE DEF coreVars, dmaVars
<1>1. /\ HardwareInv /\ TypeInv
      /\ ThreadInv /\ ChannelInv /\ InterruptInv /\ ResultInv
  BY DEF RuntimeInv, HardwareInv
<1>2. /\ pc = "enable" /\ pc' = "ready" /\ uioOn' = TRUE
      /\ UNCHANGED <<accepted, ran, outcomes, irq, need, outQ, mm2s, s2mm, foreign, uioEvent, mode,
                     call, port, result, calls, opens, wedged>>
  BY DEF EnableUio, Goto
<1>3. HardwareInv'
  BY <1>1, <1>2, HardwareStill, EnableUioTyped DEF HardwareInv
<1>4. (Free' <=> Free) /\ (Busy' <=> Busy) /\ Cur' = Cur /\ (InputsIdle' <=> InputsIdle)
  BY <1>1, <1>2, HardwareStill
<1>5. ThreadInv'
  BY <1>1, <1>2, <1>4 DEF ThreadInv, Waiting
<1>6. ChannelInv'
  BY <1>1, <1>2, <1>4 DEF ChannelInv
<1>7. CallInv' /\ ResultInv'
  BY <1>1, <1>2 DEF CallInv, ResultInv, Waiting
<1>8. InterruptInv'
  BY <1>1, <1>2 DEF InterruptInv
<1>. QED
  BY <1>3, <1>5, <1>6, <1>7, <1>8 DEF RuntimeInv

\* One port more is programmed; the channels of the ports after it are idle still.
LEMMA StartDmaStep == RuntimeInv /\ StartDma => RuntimeInv'
<1>. SUFFICES ASSUME RuntimeInv, StartDma PROVE RuntimeInv'
  OBVIOUS
<1>. USE DEF coreVars, uioVars
<1>. DEFINE ch == IF call.dir = "in" THEN mm2s[port] ELSE s2mm
<1>1. /\ TypeInv /\ CoreInv /\ QueueInv /\ Streams /\ Clean
      /\ ThreadInv /\ ChannelInv /\ InterruptInv /\ ResultInv
  BY DEF RuntimeInv, HardwareInv
<1>2. /\ pc = "start" /\ NextPort("push")
      /\ UNCHANGED <<accepted, ran, outcomes, irq, need, outQ, foreign, uioOn, uioEvent, mode, call,
                     result, calls, opens, wedged>>
  BY DEF StartDma
<1>3. PICK d \in DMA!Start(ch, call.id, call.beats) :
        IF call.dir = "in" THEN mm2s' = [mm2s EXCEPT ![port] = d] /\ UNCHANGED s2mm
                           ELSE s2mm' = d /\ UNCHANGED mm2s
  BY DEF StartDma
<1>4. call \in Calls /\ port \in 0 .. LastPort /\ port \in Ports
  BY <1>1, <1>2 DEF TypeInv, TypeOK, Bounded, InCall
<1>5. ch \in Channel /\ Owned(ch) /\ ch.left = 0
  <2>1. mm2s[port] \in Channel /\ Owned(mm2s[port]) /\ s2mm \in Channel /\ Owned(s2mm)
    BY <1>1, <1>4 DEF TypeInv, TypeOK, Bounded, Channel
  <2>2. s2mm.left = 0 /\ mm2s[port].left = 0
    BY <1>1, <1>2, <1>4 DEF ChannelInv, Ports
  <2>. QED
    BY <2>1, <2>2
<1>6. Programmed(d) /\ ~d.clash
  BY <1>4, <1>5, StartFacts DEF Programmed
<1>. HIDE DEF ch
<1>7. Free /\ ~Busy /\ outQ = <<>> /\ ~wedged
  BY <1>1, <1>2, CoreFacts DEF ThreadInv, Waiting
<1>8. Free' /\ ~Busy' /\ outQ' = <<>>
  BY <1>2, <1>7 DEF Free, Busy
<1>9. /\ call' = call /\ port' \in 0 .. LastPort' /\ port' \in Ports
      /\ \/ port < LastPort /\ pc' = "start" /\ port' = port + 1
         \/ port = LastPort /\ pc' = "push" /\ port' = 0
  BY <1>2, <1>4, NextPortFacts
<1>10. CoreInv'
  BY <1>1, <1>2, <1>7, <1>8 DEF CoreInv
<1>11. QueueInv' /\ Streams'
  BY <1>8 DEF QueueInv, Streams
<1>12. Clean'
  BY <1>1, <1>2, <1>3, <1>4, <1>6 DEF Clean, TypeInv, TypeOK
<1>13. ThreadInv'
  BY <1>1, <1>2, <1>7, <1>8, <1>9 DEF ThreadInv
<1>14. ChannelInv'
  <2>1. CASE call.dir = "in"
    <3>1. /\ s2mm'.left = 0
          /\ \A p \in Ports : IF p < port + 1 THEN Programmed(mm2s'[p]) ELSE mm2s'[p].left = 0
      <4>1. \A p \in Ports : mm2s'[p] = IF p = port THEN d ELSE mm2s[p]
        BY <1>1, <1>3, <1>4, <2>1 DEF TypeInv, TypeOK
      <4>2. /\ s2mm.left = 0
            /\ \A p \in Ports : IF p < port THEN Programmed(mm2s[p]) ELSE mm2s[p].left = 0
        BY <1>1, <1>2, <2>1 DEF ChannelInv
      <4>3. port \in Int /\ \A p \in Ports : p \in Int
        BY <1>4, CallFacts DEF Ports
      <4>. QED
        BY <1>3, <1>6, <2>1, <4>1, <4>2, <4>3
    <3>2. LastPort = NumPorts - 1 /\ \A p \in Ports : p < NumPorts
      BY <2>1, CallFacts DEF LastPort, Ports
    <3>3. (\A p \in Ports : Programmed(mm2s[p])') <=> \A p \in Ports : Programmed(mm2s'[p])
      BY <1>9 DEF Programmed
    <3>4. CASE port < LastPort /\ pc' = "start" /\ port' = port + 1
      BY <1>9, <2>1, <3>1, <3>4 DEF ChannelInv, Programmed
    <3>5. CASE port = LastPort /\ pc' = "push" /\ port' = 0
      BY <1>9, <2>1, <3>1, <3>2, <3>5, CallFacts DEF ChannelInv, Programmed
    <3>. QED
      BY <1>9, <3>4, <3>5
  <2>2. CASE call.dir = "out"
    <3>1. LastPort = 0 /\ pc' = "push" /\ port' = 0
      BY <1>4, <1>9, <2>2 DEF LastPort
    <3>2. InputsIdle /\ mm2s' = mm2s /\ s2mm' = d
      BY <1>1, <1>2, <1>3, <2>2 DEF ChannelInv, InputsIdle
    <3>. QED
      BY <1>6, <1>9, <2>2, <3>1, <3>2 DEF ChannelInv, InputsIdle, Programmed
  <2>. QED
    BY <1>4, <2>1, <2>2, CallFacts
<1>15. CallInv' /\ ResultInv'
  BY <1>1, <1>2, <1>9 DEF CallInv, ResultInv, Waiting
<1>16. InterruptInv'
  BY <1>1, <1>2, <1>9 DEF InterruptInv
<1>. QED
  BY <1>1, <1>10, <1>11, <1>12, <1>13, <1>14, <1>15, <1>16, StartDmaTyped DEF RuntimeInv, HardwareInv

\* Nothing is outstanding when an instruction is pushed, so the handler takes it.
LEMMA PushStep == RuntimeInv /\ Push => RuntimeInv'
<1>. SUFFICES ASSUME RuntimeInv, Push PROVE RuntimeInv'
  OBVIOUS
<1>. USE DEF dmaVars, uioVars
<1>1. /\ TypeInv /\ CoreInv /\ QueueInv /\ Streams /\ Clean
      /\ ThreadInv /\ ChannelInv /\ InterruptInv /\ ResultInv
  BY DEF RuntimeInv, HardwareInv
<1>2. /\ pc = "push" /\ pc' = "wait"
      /\ accepted' \in (IF Core!Outstanding < 2 THEN {Append(accepted, call)} ELSE {})
                         \cup (IF Core!Outstanding > 0 THEN {accepted} ELSE {})
      /\ UNCHANGED <<ran, outcomes, irq, need, outQ, mm2s, s2mm, foreign, uioOn, uioEvent, mode, call,
                     port, result, calls, opens, wedged>>
  BY DEF Push, Goto
<1>3. Free /\ Core!Outstanding = 0 /\ ran = <<>> /\ outQ = <<>> /\ ~wedged
  BY <1>1, <1>2, CoreFacts DEF ThreadInv, Waiting
<1>4. call \in Calls /\ accepted' = Append(accepted, call)
  BY <1>1, <1>2, <1>3 DEF TypeInv, Bounded, InCall
<1>5. Busy' /\ ~Free' /\ Cur' = call
  <2>1. accepted \in Seq(Calls) /\ Len(accepted) = Len(outcomes) /\ Len(accepted) \in Nat
    BY <1>1, <1>3 DEF TypeInv, TypeOK, Free
  <2>2. Len(accepted') = Len(accepted) + 1 /\ accepted'[Len(accepted')] = call
    BY <1>4, <2>1
  <2>. QED
    BY <1>2, <2>1, <2>2 DEF Busy, Free, Cur
<1>6. Owing' = call.beats /\ call.beats \in Nat
  BY <1>2, <1>3, <1>4, <1>5, CallFacts DEF Owing
<1>7. CoreInv'
  BY <1>2, <1>3, <1>5 DEF CoreInv
<1>8. QueueInv'
  BY <1>2, <1>3 DEF QueueInv
<1>9. Streams'
  BY <1>1, <1>2, <1>3, <1>4, <1>5, <1>6, CallFacts DEF Streams, ChannelInv, Programmed
<1>10. Clean'
  BY <1>1, <1>2 DEF Clean
<1>11. ThreadInv'
  BY <1>1, <1>2, <1>3 DEF ThreadInv, Waiting
<1>12. ChannelInv'
  BY <1>2 DEF ChannelInv
<1>13. CallInv'
  BY <1>1, <1>2, <1>5 DEF CallInv, ChannelInv, InterruptInv, InputsIdle
<1>14. InterruptInv' /\ ResultInv'
  BY <1>1, <1>2 DEF InterruptInv, ResultInv
<1>. QED
  BY <1>1, <1>7, <1>8, <1>9, <1>10, <1>11, <1>12, <1>13, <1>14, PushTyped DEF RuntimeInv, HardwareInv

\* Behind its wait a call's instruction has retired.
LEMMA WaitDoneStep == RuntimeInv /\ (SpinDone \/ WaitIrq) => RuntimeInv'
<1>. SUFFICES ASSUME RuntimeInv, SpinDone \/ WaitIrq PROVE RuntimeInv'
  OBVIOUS
<1>. USE DEF coreVars, dmaVars, uioVars
<1>1. /\ HardwareInv /\ TypeInv /\ CoreInv
      /\ ThreadInv /\ CallInv /\ InterruptInv /\ ResultInv
  BY DEF RuntimeInv, HardwareInv
<1>2. /\ pc = "wait" /\ pc' = "ack"
      /\ UNCHANGED <<accepted, ran, outcomes, irq, need, outQ, mm2s, s2mm, foreign, uioOn, mode,
                     call, port, result, calls, opens, wedged>>
      /\ \/ mode = "poll" /\ irq /\ uioEvent' = uioEvent
         \/ mode = "irq" /\ uioEvent /\ uioEvent' = FALSE
  BY DEF SpinDone, WaitIrq, Goto
<1>3. irq /\ (mode = "irq" => ~uioOn)
  BY <1>1, <1>2 DEF InterruptInv
<1>4. Free
  BY <1>1, <1>2, <1>3 DEF CallInv, Waiting, CoreInv
<1>5. (Free' <=> Free) /\ (Busy' <=> Busy) /\ Cur' = Cur /\ (InputsIdle' <=> InputsIdle)
  BY <1>1, <1>2, HardwareStill
<1>6. HardwareInv'
  BY <1>1, <1>2, HardwareStill, WaitDoneTyped DEF HardwareInv
<1>7. ThreadInv'
  BY <1>1, <1>2, <1>4, <1>5 DEF ThreadInv, Waiting
<1>8. ChannelInv'
  BY <1>2 DEF ChannelInv
<1>9. CallInv'
  BY <1>1, <1>2, <1>5 DEF CallInv, Waiting
<1>10. InterruptInv'
  BY <1>1, <1>2, <1>3 DEF InterruptInv
<1>11. ResultInv'
  BY <1>1, <1>2 DEF ResultInv
<1>. QED
  BY <1>6, <1>7, <1>8, <1>9, <1>10, <1>11 DEF RuntimeInv

LEMMA AckIrqStep == RuntimeInv /\ AckIrq => RuntimeInv'
<1>. SUFFICES ASSUME RuntimeInv, AckIrq PROVE RuntimeInv'
  OBVIOUS
<1>. USE DEF dmaVars, uioVars
<1>1. /\ HardwareInv /\ TypeInv /\ CoreInv
      /\ ThreadInv /\ CallInv /\ InterruptInv /\ ResultInv
  BY DEF RuntimeInv, HardwareInv
<1>2. /\ pc = "ack" /\ pc' \in {"drain", "rearm"} /\ irq' = FALSE
      /\ UNCHANGED <<accepted, ran, outcomes, need, outQ, mm2s, s2mm, foreign, uioOn, uioEvent, mode,
                     call, port, result, calls, opens, wedged>>
  BY DEF AckIrq, Goto
<1>3. (Free' <=> Free) /\ (Busy' <=> Busy) /\ Cur' = Cur /\ (InputsIdle' <=> InputsIdle)
  BY <1>1, <1>2, HardwareStill
<1>4. HardwareInv'
  BY <1>1, <1>2, HardwareStill, AckIrqTyped DEF HardwareInv
<1>5. ThreadInv'
  BY <1>1, <1>2, <1>3 DEF ThreadInv, Waiting
<1>6. ChannelInv'
  BY <1>2 DEF ChannelInv
<1>7. CallInv'
  BY <1>1, <1>2, <1>3 DEF CallInv, Waiting
<1>8. InterruptInv'
  BY <1>1, <1>2 DEF InterruptInv
<1>9. ResultInv'
  BY <1>1, <1>2 DEF ResultInv
<1>. QED
  BY <1>4, <1>5, <1>6, <1>7, <1>8, <1>9 DEF RuntimeInv

LEMMA RearmUioStep == RuntimeInv /\ RearmUio => RuntimeInv'
<1>. SUFFICES ASSUME RuntimeInv, RearmUio PROVE RuntimeInv'
  OBVIOUS
<1>. USE DEF coreVars, dmaVars
<1>1. /\ HardwareInv /\ TypeInv /\ CoreInv
      /\ ThreadInv /\ CallInv /\ InterruptInv /\ ResultInv
  BY DEF RuntimeInv, HardwareInv
<1>2. /\ pc = "rearm" /\ pc' = "drain" /\ uioOn' = TRUE
      /\ UNCHANGED <<accepted, ran, outcomes, irq, need, outQ, mm2s, s2mm, foreign, uioEvent, mode,
                     call, port, result, calls, opens, wedged>>
  BY DEF RearmUio, Goto
<1>3. (Free' <=> Free) /\ (Busy' <=> Busy) /\ Cur' = Cur /\ (InputsIdle' <=> InputsIdle)
  BY <1>1, <1>2, HardwareStill
<1>4. HardwareInv'
  BY <1>1, <1>2, HardwareStill, WaitDoneTyped DEF HardwareInv
<1>5. ThreadInv'
  BY <1>1, <1>2, <1>3 DEF ThreadInv, Waiting
<1>6. ChannelInv'
  BY <1>2 DEF ChannelInv
<1>7. CallInv'
  BY <1>1, <1>2, <1>3 DEF CallInv, Waiting
<1>8. InterruptInv'
  BY <1>1, <1>2 DEF InterruptInv
<1>9. ResultInv'
  BY <1>1, <1>2 DEF ResultInv
<1>. QED
  BY <1>4, <1>5, <1>6, <1>7, <1>8, <1>9 DEF RuntimeInv

\* The last channel is idle: every beat of the call has been moved.
LEMMA DrainDmaStep == RuntimeInv /\ DrainDma => RuntimeInv'
<1>. SUFFICES ASSUME RuntimeInv, DrainDma PROVE RuntimeInv'
  OBVIOUS
<1>. USE DEF coreVars, dmaVars, uioVars
<1>1. /\ HardwareInv /\ TypeInv /\ CoreInv
      /\ ThreadInv /\ CallInv /\ InterruptInv /\ ResultInv
  BY DEF RuntimeInv, HardwareInv
<1>2. /\ pc = "drain" /\ NextPort("ready")
      /\ DMA!Idle(IF call.dir = "in" THEN mm2s[port] ELSE s2mm)
      /\ result' = IF port < LastPort THEN result ELSE "ok"
      /\ UNCHANGED <<accepted, ran, outcomes, irq, need, outQ, mm2s, s2mm, foreign, uioOn, uioEvent,
                     mode, call, calls, opens, wedged>>
  BY DEF DrainDma, Succeed
<1>3. call \in Calls /\ port \in 0 .. LastPort
  BY <1>1, <1>2 DEF TypeInv, Bounded, InCall, Waiting
<1>4. \/ port < LastPort /\ pc' = "drain"
      \/ port = LastPort /\ pc' = "ready" /\ port' = 0 /\ result' = "ok"
  BY <1>2, <1>3, NextPortFacts, PortFacts
<1>5. Free /\ ~Busy /\ ~wedged
  BY <1>1, <1>2, CoreFacts DEF ThreadInv
<1>6. /\ outcomes # <<>> /\ outcomes[Len(outcomes)] = <<call>> /\ InputsIdle
      /\ s2mm.left = Len(outQ) /\ (call.dir = "in" => outQ = <<>>)
  BY <1>1, <1>2, <1>5 DEF CallInv, Waiting
<1>7. outQ = <<>> /\ s2mm.left = 0
  <2>1. CASE call.dir = "in"
    BY <1>6, <2>1
  <2>2. CASE call.dir = "out"
    <3>1. Len(outQ) = 0 /\ outQ \in Seq([id : Ids, last : BOOLEAN])
      BY <1>1, <1>2, <1>6, <2>2 DEF DMA!Idle, TypeInv, Bounded
    <3>. QED
      BY <1>6, <3>1, EmptySeq
  <2>. QED
    BY <1>3, <2>1, <2>2, CallFacts
<1>8. Free' /\ ~Busy' /\ (InputsIdle' <=> InputsIdle)
  BY <1>1, <1>2, <1>5, HardwareStill
<1>9. HardwareInv'
  BY <1>1, <1>2, HardwareStill, DrainDmaTyped DEF HardwareInv
<1>10. ThreadInv'
  BY <1>1, <1>2, <1>4, <1>5, <1>7, <1>8 DEF ThreadInv
<1>11. ChannelInv'
  BY <1>2, <1>4, <1>6, <1>7, <1>8 DEF ChannelInv
<1>12. CallInv'
  BY <1>1, <1>2, <1>4, <1>6, <1>8 DEF CallInv, Waiting
<1>13. InterruptInv'
  BY <1>1, <1>2, <1>4 DEF InterruptInv
<1>14. ResultInv'
  <2>1. CASE port < LastPort
    BY <1>1, <1>2, <2>1 DEF ResultInv
  <2>2. CASE port = LastPort
    BY <1>2, <1>3, <1>4, <1>6, <2>2, PortFacts DEF ResultInv
  <2>. QED
    BY <1>4, <2>1, <2>2
<1>. QED
  BY <1>9, <1>10, <1>11, <1>12, <1>13, <1>14 DEF RuntimeInv

-----------------------------------------------------------------------------
(* Processes that come and go, calls that begin and calls that fail.       *)

LEMMA OpenUioStep == RuntimeInv /\ OpenUio => RuntimeInv'
<1>. SUFFICES ASSUME RuntimeInv, OpenUio PROVE RuntimeInv'
  OBVIOUS
<1>. USE DEF coreVars, dmaVars
<1>1. /\ HardwareInv /\ TypeInv /\ CoreInv /\ ThreadInv
  BY DEF RuntimeInv, HardwareInv
<1>2. /\ pc = "closed" /\ ~(irq /\ uioOn) /\ ~wedged /\ pc' = "reset" /\ result' = None
      /\ uioEvent' = FALSE
      /\ UNCHANGED <<accepted, ran, outcomes, irq, need, outQ, mm2s, s2mm, foreign, uioOn,
                     call, port, calls, wedged>>
  BY DEF OpenUio
<1>3. (Free' <=> Free) /\ (Busy' <=> Busy)
  BY <1>1, <1>2, HardwareStill
<1>4. HardwareInv'
  BY <1>1, <1>2, HardwareStill, OutsideTyped DEF HardwareInv
<1>5. ThreadInv'
  BY <1>1, <1>2, <1>3 DEF ThreadInv, Waiting
<1>6. ChannelInv' /\ CallInv'
  BY <1>1, <1>2 DEF ChannelInv, CallInv, ThreadInv, Waiting, Ports
<1>7. InterruptInv' /\ ResultInv'
  BY <1>2, ResultAssumption DEF InterruptInv, ResultInv
<1>. QED
  BY <1>4, <1>5, <1>6, <1>7 DEF RuntimeInv

\* A kill at a quiet point leaves no instruction and no beat of a STORE behind.
LEMMA ExitStep ==
  ASSUME CrashAt \subseteq QuietPoints
  PROVE  RuntimeInv /\ Exit => RuntimeInv'
<1>. SUFFICES ASSUME RuntimeInv, Exit PROVE RuntimeInv'
  OBVIOUS
<1>. USE DEF coreVars, dmaVars, uioVars
<1>1. /\ HardwareInv /\ TypeInv /\ CoreInv /\ ThreadInv /\ CallInv
  BY DEF RuntimeInv, HardwareInv
<1>2. /\ pc \in {"ready", "failed"} \/ (call # None /\ <<pc, call.dir>> \in CrashAt)
      /\ pc' = "closed" /\ port' = 0 /\ result' = None
      /\ UNCHANGED <<accepted, ran, outcomes, irq, need, outQ, mm2s, s2mm, foreign, uioOn, uioEvent,
                     mode, calls, opens, wedged>>
  BY DEF Exit
<1>3. (Free' <=> Free) /\ (Busy' <=> Busy)
  BY <1>1, <1>2, HardwareStill
<1>4. \/ pc \in {"ready", "failed", "start", "push"}
      \/ pc \in {"ack", "rearm", "drain"} /\ call.dir = "in"
  BY <1>2 DEF QuietPoints
<1>5. ~wedged => Free /\ outQ = <<>>
  <2>1. CASE pc \in {"ready", "failed", "start", "push"}
    BY <1>1, <2>1 DEF ThreadInv, Waiting
  <2>2. CASE pc \in {"ack", "rearm", "drain"} /\ call.dir = "in"
    BY <1>1, <2>2 DEF ThreadInv, CallInv, Waiting
  <2>. QED
    BY <1>4, <2>1, <2>2
<1>6. HardwareInv'
  BY <1>1, <1>2, HardwareStill, OutsideTyped DEF HardwareInv
<1>7. ThreadInv'
  BY <1>1, <1>2, <1>3, <1>5 DEF ThreadInv
<1>8. ChannelInv' /\ CallInv'
  BY <1>2 DEF ChannelInv, CallInv, Waiting
<1>9. InterruptInv' /\ ResultInv'
  BY <1>2, ResultAssumption DEF InterruptInv, ResultInv
<1>. QED
  BY <1>6, <1>7, <1>8, <1>9 DEF RuntimeInv

LEMMA ReloadStep == RuntimeInv /\ Reload => RuntimeInv'
<1>. SUFFICES ASSUME RuntimeInv, Reload PROVE RuntimeInv'
  OBVIOUS
<1>1. /\ TypeInv /\ Clean /\ ThreadInv /\ ResultInv
  BY DEF RuntimeInv, HardwareInv
<1>2. /\ accepted' = <<>> /\ ran' = <<>> /\ outcomes' = <<>> /\ outQ' = <<>>
      /\ mm2s' = [p \in Ports |-> DMA!Reset] /\ s2mm' = DMA!Reset /\ pc = "closed" /\ pc' = "closed"
      /\ wedged' = FALSE /\ foreign' = foreign /\ result' = result /\ port' = port
  BY DEF Reload
<1>3. Free' /\ ~Busy'
  BY <1>2 DEF Free, Busy
<1>4. CoreInv' /\ QueueInv' /\ Streams' /\ Clean'
  BY <1>1, <1>2, <1>3, ResetFacts DEF CoreInv, QueueInv, Streams, Clean
<1>5. ThreadInv' /\ ChannelInv' /\ CallInv' /\ InterruptInv' /\ ResultInv'
  BY <1>1, <1>2, <1>3 DEF ThreadInv, ChannelInv, CallInv, InterruptInv, ResultInv, Waiting
<1>. QED
  BY <1>1, <1>4, <1>5, ReloadTyped DEF RuntimeInv, HardwareInv

LEMMA CallStep == RuntimeInv /\ Call => RuntimeInv'
<1>. SUFFICES ASSUME RuntimeInv, Call PROVE RuntimeInv'
  OBVIOUS
<1>. USE DEF coreVars, dmaVars, uioVars
<1>1. /\ HardwareInv /\ TypeInv /\ CoreInv
      /\ ThreadInv /\ ChannelInv /\ InterruptInv
  BY DEF RuntimeInv, HardwareInv
<1>2. /\ pc = "ready" /\ pc' = "start" /\ port' = 0 /\ result' = None
      /\ UNCHANGED <<accepted, ran, outcomes, irq, need, outQ, mm2s, s2mm, foreign, uioOn, uioEvent,
                     mode, opens, wedged>>
  BY DEF Call
<1>3. (Free' <=> Free) /\ (Busy' <=> Busy)
  BY <1>1, <1>2, HardwareStill
<1>4. HardwareInv'
  BY <1>1, <1>2, HardwareStill, OutsideTyped DEF HardwareInv
<1>5. ThreadInv'
  BY <1>1, <1>2, <1>3 DEF ThreadInv, Waiting
<1>6. ChannelInv'
  <2>1. \A p \in Ports : mm2s'[p].left = 0 /\ ~(p < port')
    BY <1>1, <1>2, CallFacts DEF ChannelInv, InputsIdle, Ports
  <2>2. s2mm'.left = 0
    BY <1>1, <1>2 DEF ChannelInv
  <2>. QED
    BY <1>2, <2>1, <2>2 DEF ChannelInv
<1>7. CallInv' /\ InterruptInv' /\ ResultInv'
  BY <1>1, <1>2, ResultAssumption DEF CallInv, InterruptInv, ResultInv, Waiting
<1>. QED
  BY <1>4, <1>5, <1>6, <1>7 DEF RuntimeInv

LEMMA FailStep == RuntimeInv /\ (StartFails \/ WaitTimeout \/ DrainTimeout) => RuntimeInv'
<1>. SUFFICES ASSUME RuntimeInv, StartFails \/ WaitTimeout \/ DrainTimeout PROVE RuntimeInv'
  OBVIOUS
<1>. USE DEF coreVars, dmaVars, uioVars
<1>1. /\ HardwareInv /\ TypeInv /\ CoreInv /\ ThreadInv
  BY DEF RuntimeInv, HardwareInv
<1>2. /\ pc' = "failed" /\ port' = 0 /\ result' = "fail"
      /\ UNCHANGED <<accepted, ran, outcomes, irq, need, outQ, mm2s, s2mm, foreign, uioOn, uioEvent,
                     mode, call, calls, opens>>
      /\ (pc = "start" /\ wedged' = wedged) \/ wedged' = TRUE
  BY DEF StartFails, WaitTimeout, DrainTimeout, TimedOut, Fail
<1>3. (Free' <=> Free) /\ (Busy' <=> Busy)
  BY <1>1, <1>2, HardwareStill
<1>4. HardwareInv'
  BY <1>1, <1>2, HardwareStill, FailTyped DEF HardwareInv
<1>5. ThreadInv'
  BY <1>1, <1>2, <1>3 DEF ThreadInv, Waiting
<1>6. ChannelInv' /\ CallInv' /\ InterruptInv' /\ ResultInv'
  BY <1>2 DEF ChannelInv, CallInv, InterruptInv, ResultInv, Waiting
<1>. QED
  BY <1>4, <1>5, <1>6 DEF RuntimeInv

LEMMA RuntimeStutter == RuntimeInv /\ UNCHANGED vars => RuntimeInv'
<1>. SUFFICES ASSUME RuntimeInv, UNCHANGED vars PROVE RuntimeInv'
  OBVIOUS
<1>. USE DEF vars, coreVars, dmaVars, uioVars, threadVars
<1>1. /\ HardwareInv /\ TypeInv
      /\ ThreadInv /\ ChannelInv /\ CallInv /\ InterruptInv /\ ResultInv
  BY DEF RuntimeInv, HardwareInv
<1>2. HardwareInv'
  BY <1>1, HardwareStill, TypeStutter DEF HardwareInv
<1>3. (Free' <=> Free) /\ (Busy' <=> Busy) /\ Cur' = Cur /\ (InputsIdle' <=> InputsIdle)
  BY <1>1, HardwareStill
<1>4. ThreadInv' /\ ChannelInv' /\ InterruptInv' /\ ResultInv'
  BY <1>1, <1>3 DEF ThreadInv, ChannelInv, InterruptInv, ResultInv, Programmed
<1>5. CallInv'
  BY <1>1, <1>3 DEF CallInv
<1>. QED
  BY <1>2, <1>4, <1>5 DEF RuntimeInv

-----------------------------------------------------------------------------
(* The theorems.                                                           *)

LEMMA RuntimeInit == Init => RuntimeInv
<1>. SUFFICES ASSUME Init PROVE RuntimeInv
  OBVIOUS
<1>1. /\ accepted = <<>> /\ ran = <<>> /\ outcomes = <<>> /\ outQ = <<>>
      /\ mm2s = [p \in Ports |-> DMA!Reset] /\ s2mm = DMA!Reset /\ pc = "closed"
      /\ wedged = FALSE /\ foreign = {} /\ result = None /\ port = 0
  BY DEF Init, Core!ServiceInit
<1>2. Free /\ ~Busy
  BY <1>1 DEF Free, Busy
<1>3. CoreInv /\ QueueInv /\ Streams /\ Clean
  BY <1>1, <1>2, ResetFacts DEF CoreInv, QueueInv, Streams, Clean
<1>4. ThreadInv /\ ChannelInv /\ CallInv /\ InterruptInv /\ ResultInv
  BY <1>1, <1>2, ResultAssumption DEF ThreadInv, ChannelInv, CallInv, InterruptInv, ResultInv, Waiting
<1>. QED
  BY <1>3, <1>4, InitTyped DEF RuntimeInv, HardwareInv

LEMMA RuntimeInvariance ==
  ASSUME CrashAt \subseteq QuietPoints
  PROVE  Spec => []RuntimeInv
<1>1. RuntimeInv /\ [Next]_vars => RuntimeInv'
  BY EngineStartStep, TakeBeatStep, QueueBeatStep, SendBeatStep, EngineDoneStep, UioFireStep,
     ResetStep, DrainStaleIrqStep, EnableUioStep, StartDmaStep, PushStep, WaitDoneStep,
     AckIrqStep, RearmUioStep, DrainDmaStep, OpenUioStep, ExitStep, ReloadStep, CallStep, FailStep,
     RuntimeStutter DEF Next, Hardware, Proceed
<1>. QED
  BY <1>1, RuntimeInit, PTL DEF Spec

\* A call that returns 0 has had its own instruction retired, with its own beats
\* and all of them, whatever calls and processes before it ended in failure.
THEOREM SuccessMeansDone ==
  ASSUME CrashAt \subseteq QuietPoints
  PROVE  Spec => []SuccessIsMine
<1>1. RuntimeInv => SuccessIsMine
  <2>. SUFFICES ASSUME RuntimeInv, result = "ok" PROVE SuccessIsMine
    BY DEF SuccessIsMine
  <2>1. /\ TypeInv /\ CoreInv /\ Clean
        /\ ThreadInv /\ ChannelInv /\ ResultInv
    BY DEF RuntimeInv, HardwareInv
  <2>2. pc = "ready" /\ call \in Calls /\ outcomes[Len(outcomes)] = <<call>>
    BY <2>1 DEF ResultInv
  <2>3. Core!Outstanding = 0 /\ outQ = <<>>
    BY <2>1, <2>2, CoreFacts DEF ThreadInv, Waiting
  <2>4. s2mm.left = 0 /\ (\A p \in Ports : mm2s[p].left = 0) /\ call.id \notin foreign
    BY <2>1, <2>2 DEF ChannelInv, InputsIdle, Clean
  <2>. QED
    BY <2>2, <2>3, <2>4 DEF SuccessIsMine
<1>. QED
  BY <1>1, RuntimeInvariance, PTL

\* No interrupt and no UIO event is left over from another call or process when
\* a thread waits: "it is reliably 0 until this op finishes".
THEOREM NoStaleCompletion ==
  ASSUME CrashAt \subseteq QuietPoints
  PROVE  Spec => []PendingIsThisOp
<1>1. RuntimeInv => PendingIsThisOp
  <2>. SUFFICES ASSUME RuntimeInv, pc = "wait", IF mode = "poll" THEN irq ELSE uioEvent
                PROVE  Core!Outstanding = 0 /\ outcomes[Len(outcomes)] = <<call>>
    BY DEF PendingIsThisOp
  <2>1. /\ TypeInv /\ CoreInv /\ CallInv /\ InterruptInv
    BY DEF RuntimeInv, HardwareInv
  <2>2. mode \in {"poll", "irq"}
    BY <2>1, RuntimeAssumption DEF TypeInv, TypeOK
  <2>3. irq
    BY <2>1, <2>2 DEF InterruptInv
  <2>. QED
    BY <2>1, <2>3, CoreFacts DEF CallInv, Waiting
<1>. QED
  BY <1>1, RuntimeInvariance, PTL

\* No LENGTH is written to a channel with beats left, although a failed call
\* leaves the channels it had started running.
THEOREM ChannelsReprogrammedIdle ==
  ASSUME CrashAt \subseteq QuietPoints
  PROVE  Spec => []ProgrammedWhileIdle
<1>1. RuntimeInv => ProgrammedWhileIdle
  BY PortFacts DEF RuntimeInv, HardwareInv, Clean, ProgrammedWhileIdle
<1>. QED
  BY <1>1, RuntimeInvariance, PTL

-----------------------------------------------------------------------------
(* A call is what CallService says it is.                                  *)

\* A call is under way from its first register access until it returns.
UnderwayInv ==
  /\ pc \in InCall => result = None
  /\ pc \in {"closed", "reset", "resetS2mm", "drainIrq", "enable"} => call = None
  /\ pc = "ready" => call = None \/ result # None
  /\ pc = "failed" => result = "fail"

Left == IF Underway THEN [p \in ChannelsOf(call) |-> BeatsLeft(p)] ELSE <<>>

LEMMA UnderwayStep == TypeInv /\ UnderwayInv /\ [Next]_vars => UnderwayInv'
<1>. SUFFICES ASSUME UnderwayInv, [Next]_vars PROVE UnderwayInv'
  OBVIOUS
<1>. USE DEF UnderwayInv, InCall, Waiting, Goto
<1>1. CASE UNCHANGED threadVars
  BY <1>1 DEF threadVars
<1>2. CASE ResetMm2s \/ ResetS2mm \/ ResetFails \/ DrainStaleIrq \/ EnableUio
  BY <1>2 DEF ResetMm2s, ResetS2mm, ResetNext, ResetFails, DrainStaleIrq, EnableUio
<1>3. CASE StartDma \/ DrainDma
  BY <1>3, ResultAssumption DEF StartDma, DrainDma, NextPort, Succeed
<1>4. CASE Push \/ SpinDone \/ WaitIrq \/ AckIrq \/ RearmUio
  BY <1>4 DEF Push, SpinDone, WaitIrq, AckIrq, RearmUio
<1>5. CASE OpenUio \/ Exit \/ Call
  BY <1>5 DEF OpenUio, Exit, Call
<1>6. CASE StartFails \/ WaitTimeout \/ DrainTimeout
  BY <1>6 DEF StartFails, WaitTimeout, DrainTimeout, TimedOut, Fail
<1>7. CASE Reload
  BY <1>7 DEF Reload
<1>8. CASE Hardware \/ UNCHANGED vars
  BY <1>1, <1>8 DEF Hardware, EngineStart, TakeBeat, QueueBeat, SendBeat, EngineDone, UioFire, vars
<1>. QED
  BY <1>2, <1>3, <1>4, <1>5, <1>6, <1>7, <1>8 DEF Next, Proceed

LEMMA UnderwayFacts ==
  ASSUME TypeInv, UnderwayInv
  PROVE  /\ Underway <=> pc \in InCall
         /\ Underway => /\ call \in Calls /\ ChannelsOf(call) # {} /\ Left # <<>>
                        /\ (call.dir = "out" => ChannelsOf(call) = {0})
                        /\ (call.dir = "in" => ChannelsOf(call) = Ports)
<1>1. pc \in PcSet /\ (pc \in InCall => call \in Calls)
  BY DEF TypeInv, TypeOK, Bounded
<1>2. Underway <=> pc \in InCall
  BY <1>1, ResultAssumption DEF UnderwayInv, Underway, InCall, Waiting, PcSet, Calls, Ids
<1>3. ASSUME Underway
      PROVE  /\ call \in Calls /\ ChannelsOf(call) # {} /\ Left # <<>>
             /\ (call.dir = "out" => ChannelsOf(call) = {0})
             /\ (call.dir = "in" => ChannelsOf(call) = Ports)
  <2>1. call \in Calls /\ 0 \in ChannelsOf(call)
    BY <1>1, <1>2, <1>3, PortFacts DEF ChannelsOf
  <2>2. 0 \in DOMAIN Left
    BY <1>3, <2>1 DEF Left
  <2>. QED
    BY <2>1, <2>2 DEF ChannelsOf
<1>. QED
  BY <1>2, <1>3

\* The same in the next state.
LEMMA UnderwayNext == (TypeInv /\ UnderwayInv)' => (Underway' <=> pc' \in InCall)
<1>1. TypeInv /\ UnderwayInv => (Underway <=> pc \in InCall)
  BY UnderwayFacts
<1>2. (TypeInv /\ UnderwayInv => (Underway <=> pc \in InCall))'
  BY <1>1, PTL
<1>. QED
  BY <1>2 DEF InCall, Waiting

\* What a call has still to move does not depend on the driver's later steps.
LEMMA LeftStill ==
  ASSUME UNCHANGED <<call, mm2s, s2mm, foreign>>, Underway' <=> Underway,
         UNCHANGED port \/ pc # "start", pc' = "start" <=> pc = "start"
  PROVE  Left' = Left
  BY DEF Left, BeatsLeft, ChannelsOf

\* Until its instruction is pushed a call owes every beat on every channel.
LEMMA OwesAll ==
  ASSUME RuntimeInv, UnderwayInv, pc \in {"start", "push"}
  PROVE  Left = [p \in ChannelsOf(call) |-> call.beats]
<1>1. TypeInv /\ ChannelInv /\ foreign = {}
  BY DEF RuntimeInv, HardwareInv, Clean
<1>2. Underway /\ call.dir \in {"in", "out"}
  BY <1>1, UnderwayFacts, CallFacts DEF InCall
<1>3. port \in Nat /\ (call.dir = "out" => port = 0)
  BY <1>1, <1>2, PortFacts DEF TypeInv, Bounded, LastPort, InCall
<1>4. ASSUME NEW p \in ChannelsOf(call) PROVE BeatsLeft(p) = call.beats
  <2>1. p \in Nat /\ (call.dir = "in" => p \in Ports) /\ (call.dir = "out" => p = 0)
    BY <1>1, <1>2, <1>4, UnderwayFacts, RuntimeAssumption DEF Ports
  <2>2. CASE call.dir = "in"
    BY <1>1, <1>3, <2>1, <2>2 DEF ChannelInv, Programmed, BeatsLeft
  <2>3. CASE call.dir = "out"
    BY <1>1, <1>3, <2>1, <2>3 DEF ChannelInv, Programmed, BeatsLeft
  <2>. QED
    BY <1>2, <2>2, <2>3
<1>. QED
  BY <1>2, <1>4 DEF Left

LEMMA OwesAllNext ==
  (RuntimeInv /\ UnderwayInv)' /\ pc' \in {"start", "push"} =>
    Left' = [p \in ChannelsOf(call') |-> call'.beats]
<1>1. RuntimeInv /\ UnderwayInv /\ pc \in {"start", "push"} =>
        Left = [p \in ChannelsOf(call) |-> call.beats]
  BY OwesAll
<1>2. (RuntimeInv /\ UnderwayInv /\ pc \in {"start", "push"} =>
         Left = [p \in ChannelsOf(call) |-> call.beats])'
  BY <1>1, PTL
<1>. QED
  BY <1>2 DEF ChannelsOf

\* One beat on every port of a LOAD or COMPUTE, none of another call.
LEMMA TakeBeatMoves ==
  ASSUME RuntimeInv, RuntimeInv', UnderwayInv, TakeBeat
  PROVE  Contract!Move \/ UNCHANGED Contract!callVars
<1>. USE DEF coreVars, dmaVars, uioVars, threadVars
<1>1. /\ TypeInv /\ CoreInv /\ ThreadInv /\ CallInv /\ foreign = {} /\ foreign' = {}
  BY DEF RuntimeInv, HardwareInv, Clean
<1>2. /\ Running # None /\ Running.dir = "in" /\ \A p \in Ports : mm2s[p].left > 0
      /\ mm2s' = [p \in Ports |-> DMA!Transfer(mm2s[p])]
      /\ UNCHANGED <<accepted, ran, outcomes, irq, s2mm, pc, call, port, result>>
  BY DEF TakeBeat, Joined
<1>3. CASE ~Underway
  BY <1>2, <1>3 DEF Contract!callVars, Underway
<1>4. CASE Underway
  <2>1. ran # <<>> /\ Running = ran[1]
    BY <1>2 DEF Running
  <2>2. ~Free /\ Busy /\ Running = Cur
    BY <1>1, <2>1 DEF CoreInv
  <2>3. pc = "wait"
    BY <1>1, <1>4, <2>2, BusyPlaces, UnderwayFacts DEF InCall, Waiting
  <2>4. call.dir = "in" /\ ChannelsOf(call) = Ports
    BY <1>1, <1>2, <1>4, <2>2, <2>3, UnderwayFacts DEF CallInv, Waiting
  <2>5. Underway' /\ ChannelsOf(call)' = Ports /\ call'.dir = "in"
    BY <1>2, <1>4, <2>4 DEF Underway, ChannelsOf
  <2>6. /\ \A p \in Ports : BeatsLeft(p) = mm2s[p].left
        /\ \A p \in Ports : BeatsLeft(p)' = mm2s[p].left - 1
    BY <1>1, <1>2, <2>3, <2>4, <2>5, TransferFacts DEF BeatsLeft, TypeInv, TypeOK, Channel
  <2>7. /\ Left = [p \in Ports |-> BeatsLeft(p)] /\ DOMAIN Left = Ports
        /\ Left' = [p \in Ports |-> Left[p] - 1]
    BY <1>4, <2>4, <2>5, <2>6 DEF Left
  <2>. QED
    BY <1>1, <1>2, <1>4, <2>6, <2>7, UnderwayFacts DEF Contract!Move, Left
<1>. QED
  BY <1>3, <1>4

\* One beat of a STORE; the last flag comes with the last beat.
LEMMA SendBeatMoves ==
  ASSUME RuntimeInv, RuntimeInv', UnderwayInv, SendBeat
  PROVE  Contract!Move \/ UNCHANGED Contract!callVars
<1>. USE DEF coreVars, dmaVars, uioVars, threadVars
<1>1. /\ TypeInv /\ CoreInv /\ QueueInv /\ Streams /\ ThreadInv /\ CallInv
      /\ foreign = {} /\ foreign' = {}
  BY DEF RuntimeInv, HardwareInv, Clean
<1>2. /\ outQ # <<>> /\ s2mm.left > 0
      /\ s2mm' = IF outQ[1].last THEN [s2mm EXCEPT !.left = 0] ELSE DMA!Transfer(s2mm)
      /\ UNCHANGED <<mm2s, pc, call, port, result>>
  BY DEF SendBeat
<1>3. CASE ~Underway
  BY <1>2, <1>3 DEF Contract!callVars, Underway
<1>4. CASE Underway
  <2>1. pc \in Waiting
    BY <1>1, <1>2, <1>4, UnderwayFacts DEF ThreadInv, InCall, Waiting
  <2>2. call.dir = "out" /\ ChannelsOf(call) = {0}
    BY <1>1, <1>2, <1>4, <2>1, UnderwayFacts, CallFacts DEF CallInv, CoreInv
  <2>3. s2mm.left = Len(outQ) + Owing /\ Len(outQ) \in Nat
    BY <1>1, <2>1, <2>2 DEF CallInv, CoreInv, Streams, Owing, Free, Busy, TypeInv, Bounded
  <2>4. outQ[1].last => s2mm.left = 1
    BY <1>1, <1>2, <2>3 DEF QueueInv, TypeInv, Bounded
  <2>5. s2mm'.left = s2mm.left - 1
    <3>1. s2mm \in Channel
      BY <1>1 DEF TypeInv, TypeOK, Channel
    <3>2. CASE outQ[1].last
      BY <1>2, <2>4, <3>1, <3>2, ChannelFields
    <3>3. CASE ~outQ[1].last
      BY <1>2, <3>1, <3>3, TransferFacts
    <3>. QED
      BY <3>2, <3>3
  <2>6. Underway' /\ ChannelsOf(call)' = {0} /\ call'.dir = "out"
    BY <1>2, <1>4, <2>2 DEF Underway, ChannelsOf
  <2>7. BeatsLeft(0) = s2mm.left /\ BeatsLeft(0)' = s2mm.left - 1
    BY <1>1, <1>2, <2>1, <2>2, <2>5, <2>6 DEF BeatsLeft, Waiting
  <2>8. /\ Left = [p \in {0} |-> s2mm.left]
        /\ Left' = [p \in {0} |-> s2mm.left - 1]
    BY <1>4, <2>2, <2>6, <2>7 DEF Left
  <2>9. DOMAIN Left = {0} /\ Left[0] = s2mm.left /\ Left' = [p \in DOMAIN Left |-> Left[p] - 1]
    BY <2>8
  <2>. QED
    BY <1>1, <1>2, <1>4, <2>9, UnderwayFacts DEF Contract!Move, Left
<1>. QED
  BY <1>3, <1>4

LEMMA DrainDmaReturns ==
  ASSUME RuntimeInv, RuntimeInv', UnderwayInv, UnderwayInv', DrainDma
  PROVE  Contract!Return \/ UNCHANGED Contract!callVars
<1>. USE DEF coreVars, dmaVars, uioVars
<1>1. TypeInv /\ TypeInv' /\ ChannelInv' /\ foreign = {}
  BY DEF RuntimeInv, HardwareInv, Clean
<1>2. /\ pc = "drain" /\ NextPort("ready") /\ Succeed
      /\ UNCHANGED <<mm2s, s2mm, foreign, call>>
  BY DEF DrainDma
<1>3. Underway /\ call \in Calls /\ port \in 0 .. LastPort
  BY <1>1, <1>2, UnderwayFacts DEF InCall, Waiting, TypeInv, Bounded
<1>4. CASE port < LastPort
  <2>1. pc' = "drain" /\ result' = result
    BY <1>2, <1>4 DEF NextPort, Succeed
  <2>2. Left' = Left
    BY <1>2, <1>3, <2>1, LeftStill DEF Underway
  <2>. QED
    BY <2>1, <2>2 DEF Contract!callVars, Left
<1>5. CASE port = LastPort
  <2>1. pc' = "ready" /\ result' = "ok"
    BY <1>2, <1>3, <1>5, PortFacts DEF NextPort, Succeed
  <2>2. ~Underway'
    BY <1>1, <2>1, UnderwayNext DEF InCall, Waiting
  <2>3. (\A p \in Ports : mm2s[p].left = 0) /\ s2mm.left = 0
    BY <1>1, <1>2, <2>1 DEF ChannelInv, InputsIdle
  <2>4. \A p \in ChannelsOf(call) : BeatsLeft(p) = 0
    BY <1>1, <1>2, <1>3, <2>3, UnderwayFacts, CallFacts DEF BeatsLeft
  <2>5. \A p \in DOMAIN Left : Left[p] = 0
    BY <1>3, <2>4 DEF Left
  <2>. QED
    BY <1>1, <1>3, <2>1, <2>2, <2>5, UnderwayFacts DEF Contract!Return, Left
<1>. QED
  BY <1>3, <1>4, <1>5, PortFacts

LEMMA CallBegins ==
  ASSUME TypeInv, UnderwayInv, Call
  PROVE  Contract!Begin
<1>1. PICK dir \in {"in", "out"}, k \in Lengths : call' = [id |-> calls + 1, dir |-> dir, beats |-> k]
  BY DEF Call
<1>2. pc = "ready" /\ pc' = "start" /\ port' = 0 /\ result' = None /\ calls < MaxCalls
  BY DEF Call
<1>3. call' \in Calls
  BY <1>1, <1>2, CallFacts DEF TypeInv, Bounded, Calls, Ids
<1>4. ~Underway /\ Underway'
  BY <1>2, <1>3, UnderwayFacts, ResultAssumption DEF Underway, InCall, Waiting, Calls, Ids
<1>5. \A p \in ChannelsOf(call') : p >= 0
  BY RuntimeAssumption DEF ChannelsOf, Ports
<1>6. Left' = [p \in ChannelsOf(call') |-> call'.beats]
  BY <1>2, <1>4, <1>5 DEF Left, BeatsLeft, ChannelsOf
<1>7. Left' \in {[p \in ChannelsOf(c) |-> c.beats] : c \in Calls}
  BY <1>3, <1>6
<1>. QED
  BY <1>2, <1>4, <1>7 DEF Contract!Begin, Left

LEMMA ContractStep ==
  ASSUME RuntimeInv, RuntimeInv', UnderwayInv, UnderwayInv', [Next]_vars
  PROVE  [Contract!CallNext]_Contract!callVars
<1>. USE DEF coreVars, dmaVars, uioVars
<1>1. TypeInv /\ TypeInv' /\ (Underway <=> pc \in InCall) /\ (Underway' <=> pc' \in InCall)
  BY UnderwayFacts, UnderwayNext DEF RuntimeInv, HardwareInv
<1>2. ASSUME UNCHANGED <<mm2s, s2mm, foreign, threadVars>>
      PROVE  UNCHANGED Contract!callVars
  BY <1>2, LeftStill DEF threadVars, Contract!callVars, Left, Underway
<1>3. CASE EngineStart \/ QueueBeat \/ EngineDone \/ UioFire \/ UNCHANGED vars
  BY <1>2, <1>3 DEF EngineStart, QueueBeat, EngineDone, UioFire, vars
<1>4. CASE ResetMm2s \/ ResetS2mm \/ ResetFails \/ DrainStaleIrq \/ EnableUio \/ Reload
  <2>1. pc \notin InCall /\ pc' \notin InCall /\ result' = result
    BY <1>4 DEF ResetMm2s, ResetS2mm, ResetNext, ResetFails, DrainStaleIrq, EnableUio, Reload, Goto,
                InCall, Waiting
  <2>. QED
    BY <1>1, <2>1 DEF Contract!callVars
<1>5. CASE StartDma
  <2>1. pc = "start" /\ pc' \in {"start", "push"} /\ UNCHANGED <<call, result>>
    BY <1>5 DEF StartDma, NextPort
  <2>2. Left' = Left
    BY <2>1, OwesAll, OwesAllNext DEF ChannelsOf
  <2>. QED
    BY <2>1, <2>2 DEF Contract!callVars, Left
<1>6. CASE Push \/ SpinDone \/ WaitIrq \/ AckIrq \/ RearmUio
  <2>1. /\ pc \in InCall \ {"start"} /\ pc' \in InCall \ {"start"}
        /\ UNCHANGED <<call, mm2s, s2mm, foreign, result>>
    BY <1>6 DEF Push, SpinDone, WaitIrq, AckIrq, RearmUio, Goto, InCall, Waiting
  <2>2. Left' = Left
    BY <1>1, <2>1, LeftStill
  <2>. QED
    BY <2>1, <2>2 DEF Contract!callVars, Left
<1>7. CASE StartFails \/ WaitTimeout \/ DrainTimeout
  <2>1. pc \in InCall /\ pc' = "failed" /\ result' = "fail"
    BY <1>7 DEF StartFails, WaitTimeout, DrainTimeout, TimedOut, Fail, InCall, Waiting
  <2>2. Underway /\ Left # <<>> /\ ~Underway'
    BY <1>1, <2>1, UnderwayFacts DEF InCall, Waiting
  <2>. QED
    BY <2>1, <2>2 DEF Contract!CallNext, Contract!GiveUp, Left
<1>8. CASE OpenUio \/ Exit
  <2>1. pc' \in {"reset", "closed"} /\ result' = None
    BY <1>8 DEF OpenUio, Exit
  <2>2. ~Underway'
    BY <1>1, <2>1 DEF InCall, Waiting
  <2>. QED
    BY <2>1, <2>2 DEF Contract!CallNext, Contract!Quit
<1>9. CASE TakeBeat \/ SendBeat \/ DrainDma \/ Call
  BY <1>1, <1>9, TakeBeatMoves, SendBeatMoves, DrainDmaReturns, CallBegins DEF Contract!CallNext
<1>. QED
  BY <1>3, <1>4, <1>5, <1>6, <1>7, <1>8, <1>9 DEF Next, Hardware, Proceed

\* Runtime implements CallService: whatever calls and processes before it ended
\* in failure, a call moves its own beats, each once, and returns 0 after the last.
THEOREM CallsKeepTheContract ==
  ASSUME CrashAt \subseteq QuietPoints
  PROVE  Spec => CallContract
<1>1. Init => UnderwayInv
  BY DEF Init, UnderwayInv, InCall, Waiting
<1>2. Init => Contract!CallInit
  BY DEF Init, Contract!CallInit, Underway
<1>3. RuntimeInv => TypeInv
  BY DEF RuntimeInv, HardwareInv
<1>. QED
  BY <1>1, <1>2, <1>3, UnderwayStep, ContractStep, RuntimeInvariance, PTL
  DEF Spec, CallContract, Contract!CallSpec

-----------------------------------------------------------------------------
(* The hardware of this module is what CoreProofs and ResultProofs show    *)
(* the RTL to be: a CoreService whose instructions are the calls.          *)

Flags(q) == [k \in 1 .. Len(q) |-> q[k].last]
Device == INSTANCE CoreService WITH
  Instructions <- Calls, Valid <- Calls, Depth <- OutQDepth, Resets <- TRUE,
  task <- [c \in Calls |-> [dir |-> c.dir, beats |-> c.beats]], outQ <- Flags(outQ)

BeatOf == [id : Ids, last : BOOLEAN]

LEMMA FlagsType ==
  ASSUME NEW q \in Seq(BeatOf)
  PROVE  Flags(q) \in Seq(BOOLEAN) /\ Len(Flags(q)) = Len(q) /\ Len(q) \in Nat
<1>1. ASSUME NEW k \in 1 .. Len(q) PROVE q[k].last \in BOOLEAN
  <2>1. q[k] \in BeatOf
    OBVIOUS
  <2>. QED
    BY <2>1 DEF BeatOf
<1>. QED
  BY <1>1 DEF Flags

LEMMA FlagsTail ==
  ASSUME NEW q \in Seq(BeatOf), q # <<>>
  PROVE  Flags(q) # <<>> /\ Flags(Tail(q)) = Tail(Flags(q))
<1>1. Flags(q) \in Seq(BOOLEAN) /\ Len(Flags(q)) = Len(q) /\ Len(q) \in Nat \ {0}
  BY FlagsType, EmptySeq
<1>2. /\ Tail(q) \in Seq(BeatOf) /\ Len(Tail(q)) = Len(q) - 1
      /\ \A k \in 1 .. Len(Tail(q)) : Tail(q)[k] = q[k + 1]
  BY HeadTailProperties
<1>3. Flags(q) # <<>>
  BY <1>1, EmptySeq
<1>4. /\ Tail(Flags(q)) \in Seq(BOOLEAN) /\ Len(Tail(Flags(q))) = Len(q) - 1
      /\ \A k \in 1 .. Len(Tail(Flags(q))) : Tail(Flags(q))[k] = Flags(q)[k + 1]
  BY <1>1, <1>3, HeadTailProperties
<1>5. \A k \in 1 .. Len(Tail(q)) : k + 1 \in 1 .. Len(q) /\ Flags(q)[k + 1] = q[k + 1].last
  BY <1>1, <1>2 DEF Flags
<1>6. \A k \in 1 .. Len(Tail(q)) : Flags(Tail(q))[k] = Tail(Flags(q))[k]
  BY <1>1, <1>2, <1>4, <1>5 DEF Flags
<1>7. Flags(Tail(q)) \in Seq(BOOLEAN) /\ Len(Flags(Tail(q))) = Len(Tail(q))
  BY <1>2, FlagsType
<1>. HIDE DEF Flags
<1>8. Len(Flags(Tail(q))) = Len(Tail(Flags(q))) /\ Len(Flags(Tail(q))) = Len(Tail(q))
  BY <1>2, <1>4, <1>7
<1>9. Flags(Tail(q)) = Tail(Flags(q))
  BY <1>4, <1>6, <1>7, <1>8, SeqEqual
<1>. QED
  BY <1>3, <1>9

LEMMA FlagsAppend ==
  ASSUME NEW q \in Seq(BeatOf), NEW e \in BeatOf
  PROVE  Flags(Append(q, e)) = Flags(q) \o <<e.last>>
<1>1. Append(q, e) \in Seq(BeatOf) /\ Len(Append(q, e)) = Len(q) + 1 /\ Len(q) \in Nat
  OBVIOUS
<1>2. Flags(q) \in Seq(BOOLEAN) /\ Len(Flags(q)) = Len(q)
  BY FlagsType
<1>3. e.last \in BOOLEAN
  BY DEF BeatOf
<1>4. Flags(Append(q, e)) \in Seq(BOOLEAN) /\ Len(Flags(Append(q, e))) = Len(q) + 1
  BY <1>1, FlagsType
<1>5. Append(Flags(q), e.last) \in Seq(BOOLEAN) /\ Len(Append(Flags(q), e.last)) = Len(q) + 1
  <2>1. ASSUME NEW f \in Seq(BOOLEAN), NEW x \in BOOLEAN
        PROVE  Append(f, x) \in Seq(BOOLEAN) /\ Len(Append(f, x)) = Len(f) + 1
    OBVIOUS
  <2>. QED
    BY <1>2, <1>3, <2>1
<1>6. ASSUME NEW k \in 1 .. Len(q) + 1
      PROVE  Flags(Append(q, e))[k] = Append(Flags(q), e.last)[k]
  <2>1. Flags(Append(q, e))[k] = Append(q, e)[k].last
    BY <1>1 DEF Flags
  <2>2. CASE k = Len(q) + 1
    BY <1>1, <1>2, <2>1, <2>2
  <2>3. CASE k \in 1 .. Len(q)
    <3>1. Append(q, e)[k] = q[k] /\ Append(Flags(q), e.last)[k] = Flags(q)[k]
      BY <1>1, <1>2, <2>3
    <3>. QED
      BY <2>1, <2>3, <3>1 DEF Flags
  <2>4. ASSUME NEW n \in Nat, NEW j \in 1 .. n + 1, j # n + 1 PROVE j \in 1 .. n
    BY <2>4
  <2>. QED
    BY <1>1, <2>2, <2>3, <2>4
<1>7. Flags(Append(q, e)) = Append(Flags(q), e.last)
  BY <1>4, <1>5, <1>6, SeqEqual
<1>. QED
  BY <1>2, <1>3, <1>7, AppendIsConcat

\* A step of the device with what stays as it is: the defaults of Device!Step.
LEMMA DeviceStill ==
  ASSUME TypeInv, UNCHANGED outQ
  PROVE  Device!Queue(FALSE, FALSE) /\ UNCHANGED [c \in Calls |-> [dir |-> c.dir, beats |-> c.beats]]
<1>1. Flags(outQ) \in Seq(BOOLEAN)
  BY FlagsType DEF TypeInv, Bounded, BeatOf
<1>2. Flags(outQ)' = Flags(outQ)
  BY DEF Flags
<1>3. Flags(outQ) \o <<>> = Flags(outQ)
  BY <1>1, ConcatEmptySeq
<1>. QED
  BY <1>2, <1>3 DEF Device!Queue

LEMMA DeviceMoves ==
  ASSUME TypeInv, EngineStart \/ TakeBeat \/ QueueBeat \/ SendBeat \/ EngineDone
  PROVE  Device!Step
<1>. DEFINE task == [c \in Calls |-> [dir |-> c.dir, beats |-> c.beats]]
<1>1. /\ accepted \in Seq(Calls) /\ ran \in Seq(Calls) /\ irq \in BOOLEAN /\ need \in Nat
      /\ outQ \in Seq(BeatOf)
  BY DEF TypeInv, TypeOK, Bounded, BeatOf
<1>2. \A c \in Calls : task[c].dir = c.dir /\ task[c].beats = c.beats
  OBVIOUS
<1>3. UNCHANGED task
  OBVIOUS
<1>4. Running # None => ran # <<>> /\ Running = ran[1] /\ Running \in Calls
  BY <1>1 DEF Running
<1>. HIDE DEF task
<1>5. CASE EngineStart
  <2>1. Device!Run /\ need' = Device!Current.beats /\ Device!Current \in Calls
        /\ UNCHANGED <<accepted, irq, outQ>>
    BY <1>5 DEF EngineStart, Core!Run, Core!Outstanding, Core!Current, Device!Run,
       Device!Outstanding, Device!Current, coreVars
  <2>2. Device!Start
    BY <1>2, <2>1 DEF Device!Start, task
  <2>. QED
    BY <1>1, <1>3, <2>1, <2>2, DeviceStill DEF Device!Step, task
<1>6. CASE TakeBeat
  <2>1. /\ Running # None /\ Running.dir = "in" /\ need > 0 /\ need' = need - 1
        /\ UNCHANGED <<accepted, ran, outcomes, irq, outQ>>
    BY <1>6 DEF TakeBeat
  <2>2. Device!Take
    BY <1>2, <1>4, <2>1 DEF Device!Take, Device!Moving, task
  <2>. QED
    BY <1>1, <1>3, <2>1, <2>2, DeviceStill DEF Device!Step, task
<1>7. CASE QueueBeat
  <2>. DEFINE e == [id |-> Running.id, last |-> need = 1]
  <2>1. /\ Running # None /\ Running.dir = "out" /\ need > 0 /\ need' = need - 1
        /\ Len(outQ) < OutQDepth /\ outQ' = Append(outQ, e)
        /\ UNCHANGED <<accepted, ran, outcomes, irq>>
    BY <1>7 DEF QueueBeat
  <2>2. e \in BeatOf /\ e.last = (need = 1)
    BY <1>4, <2>1, CallFacts DEF BeatOf
  <2>. HIDE DEF e
  <2>3. Flags(outQ)' = Flags(outQ) \o <<need = 1>>
    <3>1. Flags(outQ)' = Flags(Append(outQ, e))
      BY <2>1 DEF Flags
    <3>. QED
      BY <1>1, <2>2, <3>1, FlagsAppend
  <2>4. Len(Flags(outQ)) = Len(outQ)
    BY <1>1, FlagsType
  <2>5. Device!Emit
    BY <1>2, <1>4, <2>1, <2>4 DEF Device!Emit, Device!Moving, task
  <2>6. Device!Queue(TRUE, FALSE)
    BY <2>3 DEF Device!Queue
  <2>. QED
    BY <1>1, <1>3, <2>1, <2>5, <2>6 DEF Device!Step, task
<1>8. CASE SendBeat
  <2>1. /\ outQ # <<>> /\ outQ' = Tail(outQ)
        /\ UNCHANGED <<accepted, ran, outcomes, irq, need>>
    BY <1>8 DEF SendBeat
  <2>2. Flags(outQ)' = Flags(Tail(outQ))
    BY <2>1 DEF Flags
  <2>3. Flags(outQ) # <<>> /\ Flags(outQ)' = Tail(Flags(outQ))
    BY <1>1, <2>1, <2>2, FlagsTail
  <2>4. Tail(Flags(outQ)) \in Seq(BOOLEAN)
    BY <1>1, <2>3, FlagsType, HeadTailProperties
  <2>5. Tail(Flags(outQ)) \o <<>> = Tail(Flags(outQ))
    BY <2>4, ConcatEmptySeq
  <2>6. Device!Queue(FALSE, TRUE)
    BY <2>3, <2>5 DEF Device!Queue
  <2>7. Device!Rest
    BY <2>1 DEF Device!Rest
  <2>. QED
    BY <1>1, <1>3, <2>1, <2>6, <2>7 DEF Device!Step, task
<1>9. CASE EngineDone
  <2>1. Device!Retire /\ need = 0 /\ irq' = TRUE /\ UNCHANGED <<accepted, need, outQ>>
    BY <1>9 DEF EngineDone, Core!Retire, Core!Outstanding, Core!Current, Core!Execution,
       Device!Retire, Device!Outstanding, Device!Current, Device!Execution
  <2>2. Device!Finish
    BY <2>1 DEF Device!Finish
  <2>. QED
    BY <1>1, <1>3, <2>1, <2>2, DeviceStill DEF Device!Step, Device!Queue, task
<1>. QED
  BY <1>5, <1>6, <1>7, <1>8, <1>9

LEMMA DeviceServes ==
  ASSUME TypeInv, DrainStaleIrq \/ AckIrq \/ Push
  PROVE  Device!Step
<1>. DEFINE task == [c \in Calls |-> [dir |-> c.dir, beats |-> c.beats]]
<1>1. irq \in BOOLEAN
  BY DEF TypeInv, TypeOK
<1>2. UNCHANGED <<ran, outcomes, need, outQ>>
  BY DEF DrainStaleIrq, AckIrq, Push
<1>3. Device!Rest /\ UNCHANGED task
  BY <1>2 DEF Device!Rest
<1>. HIDE DEF task
<1>4. CASE DrainStaleIrq \/ AckIrq
  <2>1. irq' = FALSE /\ accepted' = accepted
    BY <1>4 DEF DrainStaleIrq, AckIrq
  <2>. QED
    BY <1>1, <1>2, <1>3, <2>1, DeviceStill DEF Device!Step, task
<1>5. CASE Push
  <2>1. call \in Calls /\ irq' = irq
    BY <1>5 DEF Push, TypeInv, Bounded, InCall
  <2>2. Device!Accept \/ UNCHANGED accepted
    BY <1>5, <2>1 DEF Push, Core!Outstanding, Device!Accept, Device!Outstanding
  <2>. QED
    BY <1>1, <1>2, <1>3, <2>1, <2>2, DeviceStill DEF Device!Step, task
<1>. QED
  BY <1>4, <1>5

\* What the driver is verified against is what the RTL implements: the hardware of
\* this module, whatever fails and wherever a process is killed, keeps the contract
\* that CoreKeepsTheContract proves of the composition.
THEOREM DeviceIsCoreService == Spec => Device!CoreSpec
<1>. USE DEF coreVars, dmaVars, uioVars, threadVars
<1>1. Init => Device!CoreInit
  <2>. SUFFICES ASSUME Init PROVE Device!CoreInit
    OBVIOUS
  <2>1. outQ = <<>> /\ need = 0 /\ Device!ServiceInit
    BY DEF Init, Core!ServiceInit, Device!ServiceInit
  <2>2. Flags(outQ) = <<>>
    BY <2>1 DEF Flags
  <2>3. [c \in Calls |-> [dir |-> c.dir, beats |-> c.beats]]
          \in [Calls -> [dir : {"in", "out"}, beats : Nat]]
    BY CallFacts DEF Calls
  <2>. QED
    BY <2>1, <2>2, <2>3 DEF Device!CoreInit
<1>2. TypeInv /\ [Next]_vars => [Device!Step \/ Device!Reset]_(Device!coreServiceVars)
  <2>. SUFFICES ASSUME TypeInv, [Next]_vars
                PROVE  [Device!Step \/ Device!Reset]_(Device!coreServiceVars)
    OBVIOUS
  <2>1. ASSUME UNCHANGED <<accepted, ran, outcomes, irq, need, outQ>>
        PROVE  UNCHANGED Device!coreServiceVars
    <3>1. Flags(outQ)' = Flags(outQ)
      BY <2>1 DEF Flags
    <3>. QED
      BY <2>1, <3>1 DEF Device!coreServiceVars, Device!serviceVars
  <2>2. CASE Reload
    <3>1. /\ accepted' = <<>> /\ ran' = <<>> /\ outcomes' = <<>> /\ irq' = FALSE
          /\ need' = 0 /\ outQ' = <<>>
      BY <2>2 DEF Reload
    <3>2. Flags(outQ)' = <<>>
      BY <3>1 DEF Flags
    <3>. QED
      BY <3>1, <3>2 DEF Device!Reset
  <2>3. CASE EngineStart \/ TakeBeat \/ QueueBeat \/ SendBeat \/ EngineDone
    BY <2>3, DeviceMoves
  <2>4. CASE DrainStaleIrq \/ AckIrq \/ Push
    BY <2>4, DeviceServes
  <2>5. CASE UioFire \/ EnableUio \/ StartDma \/ SpinDone \/ WaitIrq \/ RearmUio
    BY <2>1, <2>5 DEF UioFire, EnableUio, StartDma, SpinDone, WaitIrq, RearmUio
  <2>6. CASE DrainDma \/ OpenUio \/ Exit \/ Call \/ StartFails \/ WaitTimeout \/ DrainTimeout
    BY <2>1, <2>6 DEF DrainDma, OpenUio, Exit, Call, StartFails, WaitTimeout, DrainTimeout
  <2>7. CASE ResetMm2s \/ ResetS2mm \/ ResetFails
    BY <2>1, <2>7 DEF ResetMm2s, ResetS2mm, ResetFails
  <2>8. CASE UNCHANGED vars
    BY <2>1, <2>8 DEF vars
  <2>. QED
    BY <2>2, <2>3, <2>4, <2>5, <2>6, <2>7, <2>8 DEF Next, Hardware, Proceed
<1>. QED
  BY <1>1, <1>2, TypeInvariance, PTL DEF Spec, Device!CoreSpec

=============================================================================
