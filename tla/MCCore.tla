------------------------------- MODULE MCCore -------------------------------
(* Small instances of CoreSystem.                                          *)
EXTENDS CoreSystem

Build(maxAcc, batch, maxN, maxM, outBeatLanes) == Bare(2, maxAcc, 2, batch, maxN, maxM, outBeatLanes)

\* Two lanes a tile, one or two of them a beat; up to three column tiles.  maxN is
\* below maxAcc, equal to it, and equal to it and a power of two.
MCConfigs == {Build(3, 2, 3, 6, 1), Build(4, 2, 3, 6, 2), Build(4, 1, 4, 6, 1)}
MCBlock   == {Build(4, 1, 3, 6, 1)}
MCOneRow  == {Build(4, 1, 4, 6, 0)}

Ld(n)    == [op |-> "LOAD_ACT", dim0 |-> n, dim1 |-> 0]
Cm(n, m) == [op |-> "COMPUTE_MM", dim0 |-> n, dim1 |-> m]
St(n)    == [op |-> "STORE_OUT", dim0 |-> n, dim1 |-> 0]

\* STORE of the whole product of cols columns.
Whole(c, cols) == St(c.batch * CeilTo(cols, 2))

\* The inner dimensions 2 and maxN; every width from less than a tile to three
\* tiles, also one that is no multiple of a tile; then a COMPUTE that reuses the
\* activations or follows a reload, a LOAD between a product and its STORE, and
\* one product stored twice.
MCPrograms(c) ==
  UNION {{<<Ld(n), Cm(n, m), Whole(c, m), Cm(n, k), Whole(c, k)>>,
          <<Ld(n), Cm(n, m), Ld(c.maxN + 2 - n), Whole(c, m), Cm(c.maxN + 2 - n, k), Whole(c, k)>>,
          <<Ld(n), Cm(n, m), St(c.outBeatLanes), Whole(c, m)>>}
         : n \in {2, c.maxN}, m \in {1, 4, 5}, k \in {3}}
\* These are programs the theorems speak of.
ASSUME MCProgramsMeant ==
  \A c \in MCConfigs : \A p \in MCPrograms(c) : Fits(c, p) /\ Narrow(c, p) /\ Stored(c, p)

MCOneStore(c) == {<<Ld(2), Cm(2, 6), St(6)>>}
MCOneRowed(c) == {<<Ld(1), Cm(1, 1)>>}

=============================================================================
