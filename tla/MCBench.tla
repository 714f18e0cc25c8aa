------------------------------ MODULE MCBench ------------------------------
(* Small arrays of one, two and four ports under every wiring.             *)
EXTENDS Bench

Perms(n) == {w \in [0 .. n - 1 -> 0 .. n - 1] : \A p, q \in 0 .. n - 1 : w[p] = w[q] => p = q}
Identity(n) == [p \in 0 .. n - 1 |-> p]

Deploy(bit, env, wiring, signed, shapes, custom, reps, verify) ==
  [bit |-> bit, env |-> env, wiring |-> wiring, signedAct |-> signed, signed |-> signed,
   manifest |-> TRUE, shapes |-> shapes, custom |-> custom, reps |-> reps, verify |-> verify]

\* One port of 8 bytes, 32 lanes; two of 16, 128 lanes; four of 16, 256 lanes.
One(batch)  == Bare(8, 4096, 8, batch, 4, 64, 4)
Two(batch)  == Bare(16, 4096, 16, batch, 3, 256, 4)
Four(batch) == Bare(16, 4096, 32, batch, 3, 512, 4)
Tiny        == [hidden |-> 3, inter |-> 4, vocab |-> 40, layers |-> 1]
Empty       == [Tiny EXCEPT !.inter = 0]

Own(bit, n, wiring, signed) == Deploy(bit, bit, wiring, signed, "pow2", None, None, TRUE)

MCDeployments ==
  {Deploy(One(b), One(b), Identity(1), FALSE, "pow2", m, r, v) :
     b \in {1, 3}, m \in {None, Tiny, Empty}, r \in {0, 2, None}, v \in BOOLEAN}
  \cup {Deploy(One(1), One(1), Identity(1), FALSE, "m370", None, None, TRUE),      \* nothing fits
        Deploy(One(1), One(2), Identity(1), FALSE, "pow2", None, None, TRUE),      \* manifest
        Deploy(One(1), [One(1) EXCEPT !.batch = 9], Identity(1), FALSE, "pow2", None, None, TRUE),
        Deploy(One(1), Bare(8, 4096, 24, 1, 4, 96, 4), Identity(1), FALSE, "pow2", None, None, TRUE)}
  \cup {Own(Two(b), 2, w, s) : b \in {1, 8, 16}, w \in Perms(2), s \in BOOLEAN}
  \cup {Own(Four(1), 4, w, TRUE) : w \in Perms(4)}
  \cup {Own(Four(2), 4, Identity(4), TRUE)}
  \cup {[Own(Two(2), 2, Identity(2), s) EXCEPT !.signedAct = ~s] : s \in BOOLEAN}

\* The theorems speak of these.
ASSUME MCDeploymentsMeant ==
  \A d \in MCDeployments : ~Refused(d) =>
    LET g     == GeomInit(d.env)
        tiles == CeilDiv(d.env.maxM, g.outLanesPerTile)
    IN /\ d.env.maxN * tiles * g.portBytes < 2^LengthBits
       /\ d.env.batch * tiles * g.outLanesPerTile * g.outLaneBytes < 2^LengthBits

MCWirings == {Own(Four(1), 4, w, s) : w \in Perms(4), s \in BOOLEAN}
=============================================================================
