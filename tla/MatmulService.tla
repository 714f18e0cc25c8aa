--------------------------- MODULE MatmulService ---------------------------
(***************************************************************************)
(* What libmmfree promises to the code that calls it, with no buffers, no  *)
(* cache, no engine and no pipeline: a cluster of projections is answered  *)
(* in order, each with the products of its own weights and its own         *)
(* vectors; or the cluster fails after some of its answers, and the next   *)
(* one is answered as if nothing had happened.                             *)
(***************************************************************************)
EXTENDS Naturals, Sequences, Signals

CONSTANTS Requests,    \* what is asked for: [projs : non-empty sequence, b : rows]
          MaxVectors,  \* bound: vectors in a behaviour
          Failures     \* a cluster may fail

VARIABLES request,  \* the cluster being answered; None: none is
          named,    \* projections of earlier clusters: the vectors' names start here
          answers,  \* projections of this cluster answered so far
          product   \* the last answer

matmulVars == <<request, named, answers, product>>

\* Row r, tile t of p's weights times the vector of name v.
Answer(p, b, v) ==
  [r \in 0 .. b - 1 |-> [t \in 0 .. p.tiles - 1 |->
     [proj |-> p.id, tile |-> t, x |-> [i \in 1 .. p.N |-> <<v, i, r>>]]]]

MatmulInit == request = None /\ named = 0 /\ answers = 0 /\ product = None

Ask ==
  /\ request = None /\ request' \in Requests
  /\ named + Len(request'.projs) <= MaxVectors
  /\ answers' = 0 /\ product' = None
  /\ UNCHANGED named

\* The last answer ends the cluster.
Give ==
  /\ request # None /\ answers < Len(request.projs)
  /\ answers' = answers + 1
  /\ product' = Answer(request.projs[answers'], request.b, named + answers')
  /\ IF answers' = Len(request.projs)
     THEN request' = None /\ named' = named + answers'
     ELSE UNCHANGED <<request, named>>

Drop ==
  /\ Failures /\ request # None
  /\ request' = None /\ named' = named + Len(request.projs) /\ product' = None
  /\ UNCHANGED answers

MatmulNext == Ask \/ Give \/ Drop

\* A cluster asked for is answered to its end, or fails.
MatmulSpec == MatmulInit /\ [][MatmulNext]_matmulVars

=============================================================================
