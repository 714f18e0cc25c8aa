------------------------------- MODULE AxiDma -------------------------------
(***************************************************************************)
(* One channel (MM2S or S2MM) of an AXI DMA engine in simple mode, as      *)
(* mmfree_dma.h programs it.  The engine is external: it is modelled from  *)
(* the registers the driver writes and polls.                              *)
(***************************************************************************)
EXTENDS Naturals, Signals

\* run: DMASR is not halted; owner: the call whose LENGTH was written last;
\* left: beats still to transfer; clash: LENGTH was written while left # 0.
Channels(owners, lengths) ==
  [run : BOOLEAN, owner : owners \cup {None}, left : lengths \cup {0}, clash : BOOLEAN]

\* What mmfree_dma_mm2s_reset and mmfree_dma_reset leave of a channel when they
\* return 0: halted, nothing programmed.
Reset == [run |-> FALSE, owner |-> None, left |-> 0, clash |-> FALSE]

\* The reset bit does not clear within the spin limit: no reset took place (nothing
\* is there, its clock stands still), or the channel is stuck in it.
StuckInReset(c) == {c, Reset}

\* mmfree_dma_*_start: run, then the address, then LENGTH, which commits.
\* A LENGTH written to a busy channel is undefined: ignored, or a new transfer.
Start(c, id, n) ==
  IF c.left = 0
  THEN {[run |-> TRUE, owner |-> id, left |-> n, clash |-> FALSE]}
  ELSE {[c EXCEPT !.clash = TRUE],
        [run |-> TRUE, owner |-> id, left |-> n, clash |-> TRUE]}

\* mmfree_dma_*_wait returns 0.
Idle(c) == c.run /\ c.left = 0

Transfer(c) == [c EXCEPT !.left = @ - 1]

=============================================================================
