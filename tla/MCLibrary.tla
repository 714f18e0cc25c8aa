----------------------------- MODULE MCLibrary -----------------------------
(* Small instances of Library.                                             *)
EXTENDS Library

\* Two projections of one cluster that differ in width, and a shorter one.
Wide   == [id |-> 1, N |-> 2, tiles |-> 2]
Narrow == [id |-> 2, N |-> 2, tiles |-> 1]
Short  == [id |-> 3, N |-> 1, tiles |-> 2]

MCProjs    == {Wide, Narrow, Short}
MCClusters == {[projs |-> <<Wide, Narrow, Wide>>, b |-> 1],
               [projs |-> <<Narrow, Wide>>, b |-> 2], [projs |-> <<Short>>, b |-> 1]}
=============================================================================
