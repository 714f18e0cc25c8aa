------------------------------- MODULE OutMem -------------------------------
(***************************************************************************)
(* The output memory: one write port for the drain engine, one enabled and *)
(* pipelined read port for the store engine (Core.scala 265-292,           *)
(* OutMem.scala).  pipe[ReadLat] is what the store engine sees.            *)
(*   "ultra"  OutMemUltra: a registered write port, and read stages that   *)
(*            all hold when the read is not enabled                        *)
(*   "block"  SyncReadMem and a register pipeline: the first stage is the  *)
(*            memory's own output, whose value is undefined in the cycle   *)
(*            after a disabled read                                        *)
(***************************************************************************)
EXTENDS CoreBuild

VARIABLES mem,   \* rows of one output beat; None: never written, or X
          wq,    \* registered write port (waddr_q, wen_q, wdata_q)
          pipe   \* read stages, 1 the youngest

memVars == <<mem, wq, pipe>>

MemInit ==
  /\ mem = [a \in 0 .. MemRows - 1 |-> None] /\ wq = None
  /\ pipe = [j \in 1 .. ReadLat |-> None]

ReadRow(addr) == IF addr \in DOMAIN mem THEN mem[addr] ELSE None

\* A write is [addr, data]; None when the enable is low.
Landed(m, write) ==
  IF write = None THEN m ELSE [a \in DOMAIN m |-> IF a = write.addr THEN write.data ELSE m[a]]

WritePort(write) ==
  IF Style = "ultra" THEN wq' = write /\ mem' = Landed(mem, wq)
                     ELSE wq' = None /\ mem' = Landed(mem, write)

Shift(first) == [j \in 1 .. ReadLat |-> IF j = 1 THEN first ELSE pipe[j - 1]]

\* A disabled SyncReadMem read returns X; in a netlist, the value it held, the
\* row its address wire points at, or anything else.
Disabled(addr) ==
  \/ pipe' = pipe
  \/ Style = "block" /\ \E x \in {ReadRow(addr), None} : pipe' = [pipe EXCEPT ![1] = x]

\* Mutant: the read stages shift whether or not the read is enabled.
ReadPortUngated(ren, addr) == ren \in BOOLEAN /\ pipe' = Shift(ReadRow(addr))

ReadPort(ren, addr) == IF ren THEN pipe' = Shift(ReadRow(addr)) ELSE Disabled(addr)

OutMemTick(write, ren, addr) == WritePort(write) /\ ReadPort(ren, addr)

=============================================================================
