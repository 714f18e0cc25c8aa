------------------------------ MODULE Ternary ------------------------------
(***************************************************************************)
(* The arithmetic of a ternary product, on both sides of the stream: what a*)
(* PE adds up (PE.scala), how the bench lays bytes out for it and reads its*)
(* accumulators back (bench.c), and the product it compares them with.     *)
(* Functions of inner indices are over 0 .. N - 1.                         *)
(***************************************************************************)
EXTENDS Integers

Byte(u, k) == (u \div 2^(8 * k)) % 256

\* n bytes, the lowest first, as one unsigned field.
Joined(byte, n) ==
  LET sum[k \in 0 .. n] == IF k = 0 THEN 0 ELSE sum[k - 1] + byte[k - 1] * 2^(8 * (k - 1))
  IN sum[n]

\* An unsigned field of `width` bits read as two's complement.
AsSigned(u, width) == IF u >= 2^(width - 1) THEN u - 2^width ELSE u

\* expand_acc: the container is cut to accWidth bits, then sign-extended.
\* Mutant: the sign is lost.
ExpandUnsigned(raw, accWidth) == raw % 2^accWidth
ExpandAcc(raw, accWidth)      == AsSigned(raw % 2^accWidth, accWidth)

\* One PE lane after its k-th beat: 1 adds the activation, 3 subtracts it, 0 and 2
\* hold.  Sums wrap at accWidth bits.
Accumulate(code, act, N, accWidth) ==
  LET sum[k \in 0 .. N] ==
        IF k = 0 THEN 0
        ELSE CASE code[k - 1] = 1 -> (sum[k - 1] + act[k - 1]) % 2^accWidth
               [] code[k - 1] = 3 -> (sum[k - 1] - act[k - 1]) % 2^accWidth
               [] OTHER           -> sum[k - 1]
  IN sum[N]

\* ref_matmul: the same over the integers, with weights in {-1, 0, 1}.
Dot(weight, act, N) ==
  LET sum[k \in 0 .. N] == IF k = 0 THEN 0 ELSE sum[k - 1] + weight[k - 1] * act[k - 1]
  IN sum[N]

=============================================================================
