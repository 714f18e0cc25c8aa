----------------------------- MODULE MCGeometry -----------------------------
(* Deployments: every model preset as it is meant to be used, and small    *)
(* projections on every pairing of bitstream, parameters and packing.      *)
EXTENDS Geometry

\* iter_blob_projections: six projections per layer and the head.
Checkpoint(m) ==
  LET Square == [N |-> m.hidden, M |-> m.hidden]
      Layer  == <<Square, Square, Square, Square, [N |-> m.hidden, M |-> 2 * m.inter],
                  [N |-> m.inter, M |-> m.hidden]>>
  IN [j \in 1 .. 6 * m.layers |-> Layer[((j - 1) % 6) + 1]]
     \o <<[N |-> m.hidden, M |-> m.vocab]>>

Deploy(bit, env, packed, manifest, strict, work) ==
  [bit |-> bit, env |-> env, packed |-> [aWidth |-> packed.aWidth, xDim |-> packed.xDim],
   manifest |-> manifest, strict |-> strict, work |-> work]

\* The thirteen K26_MMFree presets; the B6 at 230 MHz is the B6 to all software.
ModelPresets ==
  {K26_MMFree370M, K26_MMFree370M_A16, K26_MMFree1_3B_A16, K26_MMFree2_7B_A16}
  \cup {Batched(K26_MMFree370M_A16, b) : b \in {2, 4, 6, 8}}
  \cup {Batched(c, b) : c \in {K26_MMFree1_3B_A16, K26_MMFree2_7B_A16}, b \in {4, 6}}

Own == {Deploy(c, c, c, TRUE, TRUE, Checkpoint(c.model)) : c \in ModelPresets}

SmallWork == <<[N |-> 2, M |-> 70], [N |-> 3, M |-> 300], [N |-> 2, M |-> 64]>>
Small ==
  {K26_Small, K26_Bench, K26_Bench16, K26_Bench32, K26_Bench64, K26_MMFree370M_A16,
   Batched(K26_MMFree370M_A16, 2), Batched(K26_MMFree370M_A16, 8),
   Bare(8, 256, 16, 1, 256, 1024, 0),      \* 16-bit lanes
   Bare(8, 4096, 16, 32, 1024, 1024, 0)}   \* batch > xDim: beats wider than the host derives
\* MMFREE_BATCH=0 is a batch of one.
Unbatched == [K26_Bench EXCEPT !.batch = 0]
Mixed == {Deploy(b, e, p, m, s, SmallWork) :
            b \in Small, e \in Small \cup {Unbatched}, p \in Small, m \in BOOLEAN, s \in BOOLEAN}

MCDeployments == Own \cup Mixed
\* The theorems speak of these.
ASSUME MCDeploymentsMeant ==
  \A d \in MCDeployments :
    /\ Derived(d.bit).outLaneBytes >= 1 /\ d.bit.aWidth % 8 = 0
    /\ d.bit.batch <= d.bit.xDim =>
         d.bit.batch * (d.bit.aWidth \div 8) <= Derived(d.bit).portBytes

\* batch <= xDim, but two ports: a row of 16 values of 2 bytes against 16 bytes.
WideBatch == Bare(16, 4096, 16, 16, 1024, 1024, 4)
MCWideBatch == {Deploy(WideBatch, WideBatch, WideBatch, TRUE, TRUE,
                       <<[N |-> n, M |-> m], [N |-> 2, M |-> 64]>>) : n \in 2 .. 8, m \in 64 .. 80}

MCLargest == {Deploy(K26_MMFree1_3B_A16, K26_MMFree1_3B_A16, K26_MMFree1_3B_A16, TRUE, TRUE,
                     <<[N |-> 8192, M |-> 256 * t]>>) : t \in 1 .. 125}
=============================================================================
