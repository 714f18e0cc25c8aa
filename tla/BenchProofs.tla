---------------------------- MODULE BenchProofs ----------------------------
(***************************************************************************)
(* Theorems about the benchmark for every deployment.  The first sections  *)
(* are about the arithmetic of a product (Ternary), whose recursive sums   *)
(* are read off step by step; then the sweep, the invariant BenchInv with  *)
(* one lemma per action, the buffers, and the data of a job on its way     *)
(* through buffers, ports and accumulators.                                *)
(***************************************************************************)
EXTENDS Bench, ConfigProofs

-----------------------------------------------------------------------------
(* The product in the width of an accumulator.                             *)

LEMMA ModIs ==
  ASSUME NEW W \in Nat \ {0}, NEW q \in Int, NEW m \in 0 .. W - 1
  PROVE  (W * q + m) % W = m /\ (W * q + m) \div W = q
  OBVIOUS

LEMMA ModOf ==
  ASSUME NEW W \in Nat \ {0}, NEW x \in Int
  PROVE  x = W * (x \div W) + (x % W) /\ x \div W \in Int /\ x % W \in 0 .. W - 1
  OBVIOUS

LEMMA ModSmall ==
  ASSUME NEW W \in Nat \ {0}, NEW x \in -W .. W - 1
  PROVE  x % W = IF x >= 0 THEN x ELSE x + W
  OBVIOUS

LEMMA ModShift ==
  ASSUME NEW W \in Nat \ {0}, NEW q \in Int, NEW y \in Int
  PROVE  (W * q + y) % W = y % W
<1>. DEFINE p == y \div W
            m == y % W
<1>1. y = W * p + m /\ p \in Int /\ m \in 0 .. W - 1
  BY ModOf
<1>. HIDE DEF p, m
<1>2. W * q + y = W * (q + p) + m /\ q + p \in Int
  BY <1>1
<1>3. (W * (q + p) + m) % W = m
  BY <1>1, <1>2, ModIs
<1>. QED
  BY <1>2, <1>3 DEF m

LEMMA ModAdd ==
  ASSUME NEW W \in Nat \ {0}, NEW x \in Int, NEW a \in Int
  PROVE  ((x % W) + a) % W = (x + a) % W
<1>. DEFINE q == x \div W
            r == x % W
<1>1. x = W * q + r /\ q \in Int /\ r \in Int
  BY ModOf
<1>. HIDE DEF q, r
<1>. DEFINE y == r + a
<1>2. x + a = W * q + y /\ y \in Int
  BY <1>1
<1>. HIDE DEF y
<1>3. (W * q + y) % W = y % W
  BY <1>1, <1>2, ModShift
<1>. QED
  BY <1>2, <1>3 DEF r, y

\* The weight a code stands for.
Weight(c) == IF c = 1 THEN 1 ELSE IF c = 3 THEN -1 ELSE 0

LEMMA DotSteps ==
  ASSUME NEW N \in Nat, NEW weight, NEW act,
         \A n \in 0 .. N - 1 : weight[n] \in Int /\ act[n] \in Int
  PROVE  \E d : /\ Dot(weight, act, N) = d[N] /\ d[0] = 0
                /\ \A k \in 1 .. N : d[k] = d[k - 1] + weight[k - 1] * act[k - 1]
<1>. DEFINE term(k) == IF k \in 1 .. N THEN weight[k - 1] * act[k - 1] ELSE 0
            step == [k \in Nat |-> [v \in Int |-> v + term(k)]]
            IsSum(d) == d = [k \in 0 .. N |-> IF k = 0 THEN 0
                                              ELSE d[k - 1] + weight[k - 1] * act[k - 1]]
<1>1. \A k \in Nat : term(k) \in Int
  <2>1. \A k \in 1 .. N : k - 1 \in 0 .. N - 1
    OBVIOUS
  <2>2. \A x, y \in Int : x * y \in Int
    OBVIOUS
  <2>. QED
    BY <2>1, <2>2
<1>2. step \in [Nat -> [Int -> Int]]
  <2>. HIDE DEF term
  <2>. QED
    BY <1>1
<1>3. PICK f \in [0 .. N -> Int] : f[0] = 0 /\ \A k \in 1 .. N : f[k] = step[k][f[k - 1]]
  <2>. HIDE DEF step
  <2>. DEFINE S    == Int
              zero == 0
  <2>1. zero \in S /\ step \in [Nat -> [S -> S]]
    BY <1>2
  <2>. HIDE DEF S, zero
  <2>2. \E f : Recursive(f, N, S, zero, step)
    BY <2>1, RecursionExists
  <2>. QED
    BY <2>2 DEF Recursive, S, zero
<1>4. IsSum(f)
  <2>1. ASSUME NEW k \in 1 .. N PROVE f[k] = f[k - 1] + weight[k - 1] * act[k - 1]
    <3>1. f[k - 1] \in Int /\ k \in Nat
      OBVIOUS
    <3>. QED
      BY <1>3, <3>1
  <2>2. \A k \in 0 .. N : k = 0 \/ k \in 1 .. N
    OBVIOUS
  <2>. QED
    BY <1>3, <2>1, <2>2
<1>. DEFINE d == CHOOSE d : IsSum(d)
<1>5. IsSum(d)
  <2>. HIDE DEF IsSum
  <2>. QED
    BY <1>4
<1>6. Dot(weight, act, N) = d[N]
  BY DEF Dot
<1>. HIDE DEF d
<1>7. d[0] = 0 /\ \A k \in 1 .. N : d[k] = d[k - 1] + weight[k - 1] * act[k - 1]
  BY <1>5
<1>. QED
  BY <1>6, <1>7
\* s[k] is the lane after k beats.
LaneSums(s, N, w, code, act) ==
  /\ s[0] = 0
  /\ \A k \in 1 .. N :
       /\ code[k - 1] = 1 => s[k] = (s[k - 1] + act[k - 1]) % 2^w
       /\ code[k - 1] = 3 => s[k] = (s[k - 1] - act[k - 1]) % 2^w
       /\ code[k - 1] \notin {1, 3} => s[k] = s[k - 1]

LEMMA AccumulateSteps ==
  ASSUME NEW N \in Nat, NEW w \in Nat, NEW code, NEW act, \A n \in 0 .. N - 1 : act[n] \in Int
  PROVE  \E s : Accumulate(code, act, N, w) = s[N] /\ LaneSums(s, N, w, code, act)
<1>. DEFINE W == 2^w
            next(k, v) == CASE code[k - 1] = 1 -> (v + act[k - 1]) % W
                            [] code[k - 1] = 3 -> (v - act[k - 1]) % W
                            [] OTHER           -> v
            step == [k \in Nat |-> [v \in Int |-> IF k \in 1 .. N THEN next(k, v) ELSE v]]
            IsSum(s) == s = [k \in 0 .. N |-> IF k = 0 THEN 0
                                              ELSE CASE code[k - 1] = 1 -> (s[k - 1] + act[k - 1]) % 2^w
                                                     [] code[k - 1] = 3 -> (s[k - 1] - act[k - 1]) % 2^w
                                                     [] OTHER           -> s[k - 1]]
<1>1. W \in Nat \ {0}
  BY PowerStep
<1>2. ASSUME NEW k \in 1 .. N, NEW v \in Int PROVE next(k, v) \in Int
  <2>. HIDE DEF W
  <2>1. act[k - 1] \in Int
    OBVIOUS
  <2>. QED
    BY <1>1, <2>1
<1>3. step \in [Nat -> [Int -> Int]]
  <2>. HIDE DEF next
  <2>. QED
    BY <1>2
<1>4. PICK f \in [0 .. N -> Int] : f[0] = 0 /\ \A k \in 1 .. N : f[k] = step[k][f[k - 1]]
  <2>. DEFINE S    == Int
              zero == 0
  <2>1. zero \in S /\ step \in [Nat -> [S -> S]]
    BY <1>3
  <2>. HIDE DEF S, zero, step
  <2>2. \E f : Recursive(f, N, S, zero, step)
    BY <2>1, RecursionExists
  <2>. QED
    BY <2>2 DEF Recursive, S, zero
<1>5. IsSum(f)
  <2>1. ASSUME NEW k \in 1 .. N PROVE f[k] = next(k, f[k - 1])
    <3>1. f[k - 1] \in Int /\ k \in Nat
      OBVIOUS
    <3>. HIDE DEF next
    <3>. QED
      BY <1>4, <3>1
  <2>2. \A k \in 0 .. N : k = 0 \/ k \in 1 .. N
    OBVIOUS
  <2>. QED
    BY <1>4, <2>1, <2>2
<1>. DEFINE s == CHOOSE s : IsSum(s)
<1>6. IsSum(s)
  <2>. HIDE DEF IsSum
  <2>. QED
    BY <1>5
<1>7. Accumulate(code, act, N, w) = s[N]
  BY DEF Accumulate
<1>. HIDE DEF s
<1>8. s[0] = 0
  BY <1>6
<1>9. ASSUME NEW k \in 1 .. N PROVE s[k] = next(k, s[k - 1])
  <2>1. k \in 0 .. N /\ k # 0
    OBVIOUS
  <2>. QED
    BY <1>6, <2>1
<1>. QED
  BY <1>7, <1>8, <1>9 DEF LaneSums

\* N terms of at most A in size, each a code's weight times an activation.
TermsWithin(A, N, code, weight, act) ==
  \A n \in 0 .. N - 1 : weight[n] = Weight(code[n]) /\ act[n] \in -A .. A

\* A sum of N terms of at most A is the same in w bits of two's complement as over
\* the integers, if N * A is.
THEOREM ExactProduct ==
  ASSUME NEW N \in Nat, NEW w \in Nat \ {0}, NEW A \in Nat, NEW code, NEW weight, NEW act,
         TermsWithin(A, N, code, weight, act), N * A < 2^(w - 1)
  PROVE  ExpandAcc(Accumulate(code, act, N, w), w) = Dot(weight, act, N)
<1>. DEFINE W == 2^w
            H == 2^(w - 1)
<1>1. W \in Nat \ {0} /\ H \in Nat \ {0} /\ W = 2 * H
  <2>1. w - 1 \in Nat /\ w = (w - 1) + 1
    OBVIOUS
  <2>. QED
    BY <2>1, PowerStep
<1>2. \A n \in 0 .. N - 1 : act[n] \in Int /\ weight[n] \in Int
  BY DEF Weight, TermsWithin
<1>3. PICK s : Accumulate(code, act, N, w) = s[N] /\ LaneSums(s, N, w, code, act)
  BY <1>2, AccumulateSteps
<1>4. PICK d : /\ Dot(weight, act, N) = d[N] /\ d[0] = 0
               /\ \A k \in 1 .. N : d[k] = d[k - 1] + weight[k - 1] * act[k - 1]
  BY <1>2, DotSteps
<1>. DEFINE P == {k \in Nat : d[k] \in -(k * A) .. k * A /\ s[k] = d[k] % W}
<1>5. 0 \in P
  <2>. HIDE DEF W
  <2>. QED
    BY <1>1, <1>3, <1>4 DEF LaneSums
<1>6. ASSUME NEW k \in 1 .. N, k - 1 \in P PROVE k \in P
  <2>. HIDE DEF W
  <2>. DEFINE a == act[k - 1]
              c == code[k - 1]
              x == d[k - 1]
  <2>1. a \in -A .. A /\ weight[k - 1] = Weight(c) /\ a \in Int
    BY DEF TermsWithin
  <2>2. x \in -((k - 1) * A) .. (k - 1) * A /\ s[k - 1] = x % W
    BY <1>6
  <2>3. (k - 1) * A + A = k * A /\ (k - 1) * A \in Nat /\ k * A \in Nat
    OBVIOUS
  <2>4. x \in Int
    BY <2>2, <2>3
  <2>5. d[k] = x + Weight(c) * a
    BY <1>4, <2>1
  <2>. HIDE DEF a, c, x
  <2>6. CASE c = 1
    <3>1. d[k] = x + a /\ s[k] = ((x % W) + a) % W
      <4>1. s[k] = ((x % W) + a) % W
        BY <1>3, <2>2, <2>6 DEF LaneSums, W, a, c
      <4>. QED
        BY <2>1, <2>4, <2>5, <2>6, <4>1 DEF Weight
    <3>2. s[k] = (x + a) % W
      BY <1>1, <2>1, <2>4, <3>1, ModAdd
    <3>. QED
      BY <2>1, <2>2, <2>3, <3>1, <3>2
  <2>7. CASE c = 3
    <3>1. d[k] = x + (-a) /\ s[k] = ((x % W) + (-a)) % W
      <4>1. x % W \in Int
        BY <1>1, <2>4, ModOf
      <4>2. s[k] = ((x % W) - a) % W
        BY <1>3, <2>2, <2>7 DEF LaneSums, W, a, c
      <4>. QED
        BY <2>1, <2>4, <2>5, <2>7, <4>1, <4>2 DEF Weight
    <3>2. s[k] = (x + (-a)) % W
      <4>. DEFINE b == -a
      <4>1. b \in Int
        BY <2>1
      <4>. HIDE DEF b
      <4>2. ((x % W) + b) % W = (x + b) % W
        BY <1>1, <2>4, <4>1, ModAdd
      <4>. QED
        BY <3>1, <4>2 DEF b
    <3>. QED
      BY <2>1, <2>2, <2>3, <3>1, <3>2
  <2>8. CASE c \notin {1, 3}
    <3>1. d[k] = x /\ s[k] = x % W
      BY <1>3, <2>1, <2>2, <2>4, <2>5, <2>8 DEF Weight, LaneSums, c
    <3>. QED
      BY <2>2, <2>3, <3>1
  <2>. QED
    BY <2>6, <2>7, <2>8
<1>7. N \in P
  <2>. HIDE DEF P
  <2>1. \A k \in 0 .. N : k \in P
    BY <1>5, <1>6, Induct
  <2>. QED
    BY <2>1
<1>8. d[N] \in Int /\ -H < d[N] /\ d[N] < H /\ s[N] = d[N] % W
  <2>1. N * A \in Nat
    OBVIOUS
  <2>. HIDE DEF W, H
  <2>. QED
    BY <1>1, <1>7, <2>1 DEF H
<1>9. ExpandAcc(s[N], w) = IF (d[N] % W) % W >= H THEN ((d[N] % W) % W) - W ELSE (d[N] % W) % W
  BY <1>8 DEF ExpandAcc, AsSigned
<1>. HIDE DEF W, H, P
<1>10. (d[N] % W) % W = d[N] % W
  <2>1. d[N] % W \in 0 .. W - 1
    BY <1>1, <1>8, ModOf
  <2>. QED
    BY <1>1, <2>1, ModSmall
<1>11. d[N] % W = IF d[N] >= 0 THEN d[N] ELSE d[N] + W
  <2>1. d[N] \in -W .. W - 1
    BY <1>1, <1>8
  <2>. QED
    BY <1>1, <2>1, ModSmall
<1>12. ExpandAcc(s[N], w) = d[N]
  BY <1>1, <1>8, <1>9, <1>10, <1>11
<1>. QED
  BY <1>3, <1>4, <1>12

-----------------------------------------------------------------------------
(* Bytes and fields.                                                       *)

LEMMA JoinedSteps ==
  ASSUME NEW n \in Nat, NEW byte, \A k \in 0 .. n - 1 : byte[k] \in Nat
  PROVE  \E s : /\ Joined(byte, n) = s[n] /\ s[0] = 0
                /\ \A k \in 1 .. n : s[k] = s[k - 1] + byte[k - 1] * 2^(8 * (k - 1))
<1>. DEFINE term(k) == IF k \in 1 .. n THEN byte[k - 1] * 2^(8 * (k - 1)) ELSE 0
            step == [k \in Nat |-> [v \in Nat |-> v + term(k)]]
            IsSum(s) == s = [k \in 0 .. n |-> IF k = 0 THEN 0
                                              ELSE s[k - 1] + byte[k - 1] * 2^(8 * (k - 1))]
<1>1. \A k \in Nat : term(k) \in Nat
  <2>1. \A k \in 1 .. n : k - 1 \in 0 .. n - 1 /\ 8 * (k - 1) \in Nat
    OBVIOUS
  <2>2. \A k \in 1 .. n : 2^(8 * (k - 1)) \in Nat
    BY <2>1, PowerStep
  <2>3. \A x, y \in Nat : x * y \in Nat
    OBVIOUS
  <2>. QED
    BY <2>1, <2>2, <2>3
<1>2. step \in [Nat -> [Nat -> Nat]]
  <2>. HIDE DEF term
  <2>. QED
    BY <1>1
<1>3. PICK f \in [0 .. n -> Nat] : f[0] = 0 /\ \A k \in 1 .. n : f[k] = step[k][f[k - 1]]
  <2>. DEFINE S    == Nat
              zero == 0
  <2>1. zero \in S /\ step \in [Nat -> [S -> S]]
    BY <1>2
  <2>. HIDE DEF S, zero, step
  <2>2. \E f : Recursive(f, n, S, zero, step)
    BY <2>1, RecursionExists
  <2>. QED
    BY <2>2 DEF Recursive, S, zero
<1>4. IsSum(f)
  <2>1. ASSUME NEW k \in 1 .. n PROVE f[k] = f[k - 1] + term(k)
    <3>1. f[k - 1] \in Nat /\ k \in Nat
      OBVIOUS
    <3>. HIDE DEF term
    <3>. QED
      BY <1>3, <3>1
  <2>2. \A k \in 0 .. n : k = 0 \/ k \in 1 .. n
    OBVIOUS
  <2>. QED
    BY <1>3, <2>1, <2>2
<1>. DEFINE s == CHOOSE s : IsSum(s)
<1>5. IsSum(s)
  <2>. HIDE DEF IsSum
  <2>. QED
    BY <1>4
<1>6. Joined(byte, n) = s[n]
  BY DEF Joined
<1>. HIDE DEF s
<1>7. s[0] = 0 /\ \A k \in 1 .. n : s[k] = s[k - 1] + byte[k - 1] * 2^(8 * (k - 1))
  BY <1>5
<1>. QED
  BY <1>6, <1>7

\* The low bytes of a number, and one more.
LEMMA ModJoin ==
  ASSUME NEW u \in Nat, NEW V \in Nat \ {0}, NEW K \in Nat \ {0}
  PROVE  u % (K * V) = (u % V) + ((u \div V) % K) * V
<1>. DEFINE q == u \div V
            r == u % V
            p == q \div K
            b == q % K
<1>1. u = V * q + r /\ q \in Nat /\ r \in 0 .. V - 1
  BY DivModOf
<1>2. q = K * p + b /\ p \in Nat /\ b \in 0 .. K - 1
  <2>. HIDE DEF q
  <2>. QED
    BY <1>1, DivModOf
<1>. HIDE DEF q, r, p, b
<1>3. V * q = (K * V) * p + b * V
  <2>1. V * (K * p + b) = V * (K * p) + V * b
    BY <1>2
  <2>2. V * (K * p) = (V * K) * p /\ V * K = K * V /\ V * b = b * V
    BY <1>2, TimesAssociative, TimesType
  <2>. QED
    BY <1>2, <2>1, <2>2
<1>4. b * V \in Nat /\ b * V <= (K - 1) * V
  <2>. DEFINE top == K - 1
  <2>1. b \in Nat /\ top \in Nat /\ b <= top
    BY <1>2
  <2>. HIDE DEF top
  <2>2. b * V <= top * V /\ b * V \in Nat
    BY <2>1, TimesMonotone, TimesType
  <2>. QED
    BY <2>2 DEF top
<1>5. u = (K * V) * p + (b * V + r) /\ b * V + r \in 0 .. K * V - 1
  <2>1. (K * V) * p \in Nat
    BY <1>2
  <2>. QED
    BY <1>1, <1>3, <1>4, <2>1
<1>. DEFINE W == K * V
            m == b * V + r
<1>6. W \in Nat \ {0}
  OBVIOUS
<1>7. u = W * p + m /\ m \in 0 .. W - 1 /\ p \in Int
  BY <1>2, <1>5
<1>. HIDE DEF W, m
<1>8. u % W = m
  BY <1>6, <1>7, ModIs
<1>. QED
  BY <1>1, <1>4, <1>8 DEF W, m, b, q, r

\* A field of n bytes, taken apart and joined.
LEMMA JoinedBytes ==
  ASSUME NEW u \in Nat, NEW n \in Nat, NEW byte, \A k \in 0 .. n - 1 : byte[k] = Byte(u, k)
  PROVE  Joined(byte, n) = u % 2^(8 * n)
<1>1. \A k \in 0 .. n - 1 : byte[k] \in Nat /\ byte[k] = (u \div 2^(8 * k)) % 256
  <2>. SUFFICES ASSUME NEW k \in 0 .. n - 1 PROVE (u \div 2^(8 * k)) % 256 \in Nat
    BY DEF Byte
  <2>. DEFINE V == 2^(8 * k)
  <2>1. V \in Nat \ {0}
    <3>1. 8 * k \in Nat
      OBVIOUS
    <3>. QED
      BY <3>1, PowerStep
  <2>. HIDE DEF V
  <2>. QED
    BY <2>1 DEF V
<1>2. PICK s : /\ Joined(byte, n) = s[n] /\ s[0] = 0
               /\ \A k \in 1 .. n : s[k] = s[k - 1] + byte[k - 1] * 2^(8 * (k - 1))
  BY <1>1, JoinedSteps
<1>. DEFINE P == {k \in Nat : s[k] = u % 2^(8 * k)}
<1>3. 0 \in P
  <2>1. 2^(8 * 0) = 1 /\ u % 1 = 0
    OBVIOUS
  <2>. QED
    BY <1>2, <2>1
<1>4. ASSUME NEW k \in 1 .. n, k - 1 \in P PROVE k \in P
  <2>. DEFINE e == 8 * (k - 1)
              V == 2^e
  <2>1. k - 1 \in 0 .. n - 1 /\ e \in Nat /\ 8 * k = e + 8
    OBVIOUS
  <2>2. s[k - 1] = u % V /\ byte[k - 1] = (u \div V) % 256 /\ s[k] = s[k - 1] + byte[k - 1] * V
    BY <1>1, <1>2, <1>4, <2>1
  <2>. HIDE DEF e
  <2>3. V \in Nat \ {0} /\ 2^(e + 8) = V * 256
    <3>. DEFINE b == 8
    <3>1. b \in Nat /\ 2^b = 256
      OBVIOUS
    <3>. HIDE DEF b
    <3>2. 2^(e + b) = V * 2^b
      BY <2>1, <3>1, PowerSum
    <3>. QED
      BY <2>1, <3>1, <3>2, PowerStep DEF b
  <2>. HIDE DEF V
  <2>4. 2^(8 * k) = 256 * V
    BY <2>1, <2>3
  <2>5. s[k] = u % (256 * V)
    <3>1. u % (256 * V) = (u % V) + ((u \div V) % 256) * V
      <4>. DEFINE K == 256
      <4>1. V \in Nat \ {0} /\ K \in Nat \ {0}
        BY <2>3
      <4>. HIDE DEF K
      <4>2. u % (K * V) = (u % V) + ((u \div V) % K) * V
        BY <4>1, ModJoin
      <4>. QED
        BY <4>2 DEF K
    <3>. DEFINE low  == u % V
                high == (u \div V) % 256
    <3>2. s[k] = low + high * V
      <4>1. s[k] = s[k - 1] + byte[k - 1] * V /\ s[k - 1] = low /\ byte[k - 1] = high
        BY <2>2
      <4>. HIDE DEF low, high
      <4>. QED
        BY <4>1, Zenon
    <3>. QED
      BY <3>1, <3>2, Zenon
  <2>. QED
    BY <2>4, <2>5
<1>. HIDE DEF P
<1>5. \A k \in 0 .. n : k \in P
  BY <1>3, <1>4, Induct
<1>. QED
  BY <1>2, <1>5 DEF P

\* A number written in `width` bits and read back as two's complement.
LEMMA SignedField ==
  ASSUME NEW width \in Nat \ {0}, NEW v \in Int, -(2^(width - 1)) <= v, v < 2^(width - 1)
  PROVE  /\ v % 2^width \in 0 .. 2^width - 1
         /\ AsSigned(v % 2^width, width) = v
<1>. DEFINE W == 2^width
            H == 2^(width - 1)
<1>1. W \in Nat \ {0} /\ H \in Nat \ {0} /\ W = 2 * H
  <2>1. width - 1 \in Nat /\ width = (width - 1) + 1
    OBVIOUS
  <2>. QED
    BY <2>1, PowerStep
<1>2. AsSigned(v % W, width) = IF v % W >= H THEN (v % W) - W ELSE v % W
  BY DEF AsSigned
<1>3. -H <= v /\ v < H
  OBVIOUS
<1>. HIDE DEF W, H
<1>4. v \in -W .. W - 1
  BY <1>1, <1>3
<1>5. v % W = IF v >= 0 THEN v ELSE v + W
  BY <1>1, <1>4, ModSmall
<1>6. v % W \in 0 .. W - 1 /\ AsSigned(v % W, width) = v
  BY <1>1, <1>2, <1>3, <1>5
<1>. QED
  BY <1>6 DEF W

-----------------------------------------------------------------------------
(* The geometry of a deployment that is not refused.                       *)

LEMMA OwnGeometry ==
  ASSUME NEW d \in Deployments, ~Refused(d)
  PROVE  LET g == GeomInit(d.env)
             c == d.bit
         IN /\ d.env = c /\ Sized(c) /\ Elaborates(c) /\ c.batch \in 1 .. c.xDim
            /\ g # None /\ c.aWidth % 8 = 0
            /\ g.numPorts = Derived(c).numPorts /\ g.portBytes = Derived(c).portBytes
            /\ g.outLanesPerTile = Derived(c).outLanesPerTile
            /\ g.outLaneBytes = Derived(c).outLaneBytes
            /\ g.accWidth = Log2Ceil(c.maxAcc) + c.aWidth
            /\ g.numPorts \in Nat \ {0} /\ g.portBytes \in Nat \ {0}
            /\ g.outLaneBytes \in {4, 8}
            /\ g.outLanesPerTile = 4 * (g.numPorts * g.portBytes)
<1>. DEFINE c    == d.bit
            g    == GeomInit(c)
            hw   == Derived(c)
            bits == c.xDim * c.aWidth
<1>1. /\ d.env = c /\ Sized(c) /\ Elaborates(c) /\ c.batch \in 1 .. c.xDim /\ g # None
      /\ c.aWidth % 8 = 0 /\ hw.outLaneBytes \in {4, 8}
  BY BenchAssumption DEF Refused
<1>2. c.aWidth \in Nat /\ c.xDim \in Nat \ {0} /\ c.batch \in Nat /\ c.aWidth >= 2
  BY <1>1 DEF Sized, Elaborates
<1>3. /\ bits \in Nat
      /\ bits > 128 => bits % 128 = 0 /\ bits \div 128 <= 4
      /\ g.numPorts = IF bits <= 128 THEN 1 ELSE bits \div 128
      /\ g.portBytes = (bits \div 8) \div g.numPorts
      /\ g.accWidth = Log2Ceil(c.maxAcc) + c.aWidth
      /\ g.outLanesPerTile = c.xDim * (c.aWidth \div 2)
  BY <1>1, <1>2, TimesType DEF GeomInit, MaxDma
<1>4. hw.numPorts = IF bits <= 128 THEN 1 ELSE Min({4, CeilDiv(bits, 128)})
  <2>1. c.batch <= c.xDim
    BY <1>1, <1>2
  <2>. QED
    BY <1>1, <2>1, BeatFacts
<1>. HIDE DEF g, hw
<1>5. hw.numPorts = g.numPorts
  <2>1. CASE bits <= 128
    BY <1>3, <1>4, <2>1
  <2>2. CASE ~(bits <= 128)
    <3>. DEFINE p == bits \div 128
    <3>. HIDE DEF bits
    <3>1. p \in 1 .. 4 /\ bits = 128 * p
      BY <1>3, <2>2
    <3>2. CeilDiv(bits, 128) = p
      <4>. HIDE DEF p
      <4>. QED
        BY <3>1 DEF CeilDiv
    <3>. HIDE DEF p
    <3>3. \A y \in {4, p} : p <= y
      BY <3>1
    <3>4. Min({4, p}) = p
      BY <3>1, <3>3, MinIs
    <3>. QED
      BY <1>3, <1>4, <2>2, <3>2, <3>4 DEF p
  <2>. QED
    BY <2>1, <2>2
<1>6. HostBatch(c) = c.batch /\ ~Mismatch(c, c)
  <2>1. HostBatch(c) = c.batch
    BY <1>1, <1>2 DEF HostBatch
  <2>. QED
    BY <1>5, <2>1 DEF Mismatch, g, hw
<1>7. /\ hw.portBytes = g.portBytes /\ hw.outLanesPerTile = g.outLanesPerTile
      /\ hw.outLaneBytes = g.outLaneBytes
  <2>1. hw.outLaneBytes >= 1
    BY <1>1
  <2>. QED
    BY <1>1, <1>6, <2>1, SameDerivation DEF g, hw
<1>8. /\ g.numPorts \in Nat \ {0} /\ g.portBytes \in Nat \ {0}
      /\ g.outLanesPerTile = 4 * (g.numPorts * g.portBytes)
  <2>. DEFINE a == c.aWidth \div 8
              y == c.xDim * a
  <2>1. a \in Nat \ {0} /\ c.aWidth = 8 * a /\ c.aWidth \div 2 = 4 * a
    BY <1>1, <1>2
  <2>2. y \in Nat \ {0}
    <3>1. \A p, q \in Nat \ {0} : p * q \in Nat \ {0}
      OBVIOUS
    <3>. QED
      BY <1>2, <2>1, <3>1
  <2>. HIDE DEF a
  <2>3. bits = 8 * y /\ c.xDim * (4 * a) = 4 * y
    <3>1. \A p, q \in Nat : p * (8 * q) = 8 * (p * q) /\ p * (4 * q) = 4 * (p * q)
      OBVIOUS
    <3>. QED
      BY <1>2, <2>1, <3>1
  <2>. HIDE DEF y
  <2>4. bits \div 8 = y
    BY <2>2, <2>3
  <2>5. CASE bits <= 128
    BY <1>3, <2>1, <2>2, <2>3, <2>4, <2>5
  <2>6. CASE ~(bits <= 128)
    <3>. DEFINE p == bits \div 128
    <3>1. p \in Nat \ {0} /\ y = 16 * p
      BY <1>3, <2>2, <2>3, <2>6
    <3>2. g.numPorts = p
      BY <1>3, <2>6
    <3>. HIDE DEF p, bits
    <3>3. y \div p = 16
      <4>1. (16 * p + 0) \div p = 16
        BY <3>1, DivModIs
      <4>. QED
        BY <3>1, <4>1
    <3>. QED
      BY <1>3, <2>1, <2>3, <2>4, <3>1, <3>2, <3>3
  <2>. QED
    BY <2>5, <2>6
<1>. QED
  BY <1>1, <1>3, <1>5, <1>7, <1>8 DEF g, hw

-----------------------------------------------------------------------------
(* The sweep.                                                              *)

\* Shapes the Core and the buffers are meant for.
Shapes == [N : Nat, M : Nat]
Usable(s) == s.N >= 2 /\ s.M >= 1 /\ FitsGeometry(s)
IsSweep(w) == w \in Seq(Shapes) /\ Len(w) <= 128 /\ \A i \in DOMAIN w : Usable(w[i])

LEMMA PowersFacts ==
  ASSUME NEW limit \in Nat \ {0}
  PROVE  /\ Len(Powers(limit)) \in Nat \ {0} /\ DOMAIN Powers(limit) = 1 .. Len(Powers(limit))
         /\ \A i \in 1 .. Len(Powers(limit)) :
              /\ Powers(limit)[i] \in 1 .. limit
              /\ limit >= 2 => Powers(limit)[i] >= 2
<1>. DEFINE below == {j \in 1 .. 16 : 64 * 2^(j - 1) <= limit}
            n     == Max(below)
            ps    == [j \in 1 .. n |-> 64 * 2^(j - 1)]
<1>1. CASE below = {}
  <2>1. Powers(limit) = <<limit>>
    BY <1>1 DEF Powers
  <2>. QED
    BY <2>1
<1>2. CASE below # {}
  <2>1. Powers(limit) = ps
    BY <1>2 DEF Powers
  <2>2. n \in below
    <3>1. below \in SUBSET (0 .. 16) /\ 16 \in Nat
      OBVIOUS
    <3>2. PICK s \in below : TRUE
      BY <1>2
    <3>. HIDE DEF below
    <3>. QED
      BY <3>1, <3>2, MaxExists
  <2>3. n \in 1 .. 16 /\ 64 * 2^(n - 1) <= limit
    BY <2>2
  <2>. HIDE DEF n
  <2>4. ASSUME NEW j \in 1 .. n PROVE ps[j] \in 64 .. limit
    <3>1. j - 1 \in Nat /\ n - 1 \in Nat /\ j - 1 <= n - 1
      BY <2>3
    <3>2. 2^(j - 1) \in Nat \ {0} /\ 2^(n - 1) \in Nat \ {0} /\ 2^(j - 1) <= 2^(n - 1)
      BY <3>1, PowerStep, PowerMonotone
    <3>3. ps[j] = 64 * 2^(j - 1)
      OBVIOUS
    <3>. QED
      BY <2>3, <3>2, <3>3
  <2>5. Len(ps) = n /\ DOMAIN ps = 1 .. n
    BY <2>3
  <2>. HIDE DEF ps
  <2>. QED
    BY <2>1, <2>3, <2>4, <2>5
<1>. QED
  BY <1>1, <1>2

\* What dep's parameters are.
LEMMA ParameterFacts ==
  ASSUME dep \in Deployments, ~Refused(dep)
  PROVE  /\ dep.env.maxN \in Nat /\ dep.env.maxN >= 2 /\ dep.env.maxN <= dep.env.maxAcc
         /\ dep.env.maxAcc \in 1 .. 2^MaxLog
         /\ dep.env.maxM \in Nat \ {0} /\ dep.env.maxM % Lanes = 0
         /\ dep.env.batch \in Nat \ {0} /\ dep.env.aWidth \in Nat \ {0} /\ dep.env.aWidth % 8 = 0
         /\ dep.signed => dep.env.aWidth >= 16
<1>1. dep.env = dep.bit /\ Sized(dep.bit) /\ Elaborates(dep.bit) /\ dep.bit.aWidth % 8 = 0
      /\ dep.bit.batch \in 1 .. dep.bit.xDim /\ Lanes = Derived(dep.bit).outLanesPerTile
  BY OwnGeometry DEF Lanes, G
<1>2. dep.env.maxN >= 2 /\ (dep.signed => dep.env.aWidth >= 16)
  BY BenchAssumption
<1>3. /\ dep.bit.maxN \in Nat /\ dep.bit.maxAcc \in Nat /\ dep.bit.maxM \in Nat
      /\ dep.bit.aWidth \in Nat /\ dep.bit.xDim \in Nat /\ dep.bit.maxAcc <= 2^MaxLog
  BY <1>1 DEF Sized
<1>4. /\ dep.bit.aWidth >= 2 /\ dep.bit.maxAcc >= 2 /\ dep.bit.maxM >= 1
      /\ dep.bit.maxN <= dep.bit.maxAcc /\ dep.bit.maxM % Lanes = 0
  BY <1>1 DEF Elaborates
<1>. QED
  BY <1>1, <1>2, <1>3, <1>4

LEMMA CrossFacts ==
  ASSUME dep \in Deployments, ~Refused(dep)
  PROVE  IsSweep(CrossSweep) /\ CrossSweep # <<>>
<1>. DEFINE ns == Powers(dep.env.maxN)
            ms == Powers(dep.env.maxM)
            P  == Len(ns)
            Q  == Len(ms)
            n  == Min({128, P * Q})
            shape(k) == [N |-> ns[(k - 1) \div Q + 1], M |-> ms[((k - 1) % Q) + 1]]
<1>1. /\ dep.env.maxN \in Nat \ {0} /\ dep.env.maxN >= 2 /\ dep.env.maxN <= dep.env.maxAcc
      /\ dep.env.maxM \in Nat \ {0} /\ dep.env.maxAcc \in Nat
  BY ParameterFacts
<1>2. /\ P \in Nat \ {0} /\ Q \in Nat \ {0}
      /\ \A i \in 1 .. P : ns[i] \in 2 .. dep.env.maxN
      /\ \A i \in 1 .. Q : ms[i] \in 1 .. dep.env.maxM
  <2>1. P \in Nat \ {0} /\ \A i \in 1 .. P : ns[i] \in 1 .. dep.env.maxN /\ ns[i] >= 2
    BY <1>1, PowersFacts
  <2>2. Q \in Nat \ {0} /\ \A i \in 1 .. Q : ms[i] \in 1 .. dep.env.maxM
    BY <1>1, PowersFacts
  <2>. HIDE DEF ns, ms
  <2>. QED
    BY <1>1, <2>1, <2>2
<1>. HIDE DEF ns, ms
<1>3. P * Q \in Nat \ {0}
  <2>1. \A p, q \in Nat \ {0} : p * q \in Nat \ {0}
    OBVIOUS
  <2>. QED
    BY <1>2, <2>1
<1>4. n \in Nat \ {0} /\ n <= 128 /\ n <= P * Q
  <2>. DEFINE pq == P * Q
  <2>1. pq \in Nat \ {0}
    BY <1>3
  <2>. HIDE DEF pq
  <2>2. Min({128, pq}) \in Nat \ {0} /\ Min({128, pq}) <= 128 /\ Min({128, pq}) <= pq
    <3>1. 128 <= pq => Min({128, pq}) = 128
      <4>1. \A y \in {128, pq} : 128 <= pq => 128 <= y
        BY <2>1
      <4>. QED
        BY <2>1, <4>1, MinIs
    <3>2. ~(128 <= pq) => Min({128, pq}) = pq
      <4>1. \A y \in {128, pq} : ~(128 <= pq) => pq <= y
        BY <2>1
      <4>. QED
        BY <2>1, <4>1, MinIs
    <3>. QED
      BY <2>1, <3>1, <3>2
  <2>. QED
    BY <2>2 DEF pq
<1>5. ASSUME NEW k \in 1 .. n PROVE shape(k) \in Shapes /\ Usable(shape(k))
  <2>. DEFINE a == (k - 1) \div Q
              b == (k - 1) % Q
  <2>. HIDE DEF P, Q, n
  <2>1. k - 1 \in Nat /\ k - 1 < P * Q
    BY <1>3, <1>4
  <2>2. k - 1 = Q * a + b /\ a \in Nat /\ b \in 0 .. Q - 1
    BY <1>2, <2>1, DivModOf
  <2>3. a + 1 \in 1 .. P /\ b + 1 \in 1 .. Q
    <3>. HIDE DEF a, b
    <3>1. a < P
      <4>. SUFFICES ASSUME P <= a PROVE FALSE
        BY <1>2, <2>2
      <4>1. P * Q <= a * Q /\ a * Q = Q * a /\ Q * a \in Nat
        BY <1>2, <2>2, TimesMonotone, TimesType
      <4>. QED
        BY <1>2, <1>3, <2>1, <2>2, <4>1
    <3>. QED
      BY <1>2, <2>2, <3>1
  <2>4. shape(k).N \in 2 .. dep.env.maxN /\ shape(k).M \in 1 .. dep.env.maxM
    <3>. HIDE DEF a, b
    <3>1. ns[a + 1] \in 2 .. dep.env.maxN /\ ms[b + 1] \in 1 .. dep.env.maxM
      BY <1>2, <2>3 DEF P, Q
    <3>. QED
      BY <3>1 DEF a, b
  <2>. QED
    BY <1>1, <2>4 DEF Shapes, Usable, FitsGeometry
<1>6. CrossSweep = [k \in 1 .. n |-> shape(k)]
  BY DEF CrossSweep, ns, ms
<1>. HIDE DEF n, shape
<1>7. CrossSweep \in Seq(Shapes) /\ Len(CrossSweep) = n
  BY <1>4, <1>5, <1>6
<1>8. \A i \in DOMAIN CrossSweep : Usable(CrossSweep[i])
  BY <1>5, <1>6
<1>. QED
  BY <1>4, <1>7, <1>8 DEF IsSweep

LEMMA FittingFacts ==
  ASSUME NEW s \in Seq(Shapes), Len(s) <= 128,
         \A i \in DOMAIN s : s[i].N >= 2 /\ s[i].M >= 1
  PROVE  IsSweep(FittingShapes(s))
<1>. DEFINE n == Len(s)
            kept(k, v) == IF FitsGeometry(s[k]) THEN Append(v, s[k]) ELSE v
            step == [k \in Nat |-> [v \in Seq(Shapes) |-> IF k \in 1 .. n THEN kept(k, v) ELSE v]]
            IsKept(h) == h = [k \in 0 .. Len(s) |->
                                IF k = 0 THEN <<>>
                                ELSE IF FitsGeometry(s[k]) THEN Append(h[k - 1], s[k]) ELSE h[k - 1]]
<1>1. n \in Nat /\ \A k \in 1 .. n : s[k] \in Shapes /\ s[k].N >= 2 /\ s[k].M >= 1
  OBVIOUS
<1>2. \A k \in 1 .. n, v \in Seq(Shapes) : kept(k, v) \in Seq(Shapes)
  BY <1>1
<1>3. step \in [Nat -> [Seq(Shapes) -> Seq(Shapes)]]
  <2>. HIDE DEF kept, n
  <2>. QED
    BY <1>2
<1>4. PICK f \in [0 .. n -> Seq(Shapes)] :
        f[0] = <<>> /\ \A k \in 1 .. n : f[k] = step[k][f[k - 1]]
  <2>. DEFINE S == Seq(Shapes)
              none == <<>>
  <2>1. none \in S /\ step \in [Nat -> [S -> S]]
    BY <1>3
  <2>. HIDE DEF S, none, step, n
  <2>2. \E f : Recursive(f, n, S, none, step)
    BY <1>1, <2>1, RecursionExists
  <2>. QED
    BY <2>2 DEF Recursive, S, none
<1>5. IsKept(f)
  <2>1. ASSUME NEW k \in 1 .. n PROVE f[k] = kept(k, f[k - 1])
    <3>1. f[k - 1] \in Seq(Shapes) /\ k \in Nat
      OBVIOUS
    <3>. HIDE DEF kept
    <3>. QED
      BY <1>4, <3>1
  <2>2. \A k \in 0 .. n : k = 0 \/ k \in 1 .. n
    OBVIOUS
  <2>. QED
    BY <1>4, <2>1, <2>2
<1>. DEFINE h == CHOOSE h : IsKept(h)
<1>6. IsKept(h)
  <2>. HIDE DEF IsKept
  <2>. QED
    BY <1>5
<1>7. FittingShapes(s) = h[n]
  BY DEF FittingShapes
<1>. HIDE DEF h
<1>8. h[0] = <<>> /\ \A k \in 1 .. n : h[k] = kept(k, h[k - 1])
  <2>1. h[0] = <<>>
    BY <1>1, <1>6
  <2>2. ASSUME NEW k \in 1 .. n PROVE h[k] = kept(k, h[k - 1])
    <3>1. k \in 0 .. n /\ k # 0
      BY <1>1
    <3>. QED
      BY <1>6, <3>1
  <2>. QED
    BY <2>1, <2>2
<1>. DEFINE Good(v, k) == /\ v \in Seq(Shapes) /\ Len(v) <= k
                          /\ \A i \in DOMAIN v : Usable(v[i])
            P == {k \in Nat : Good(h[k], k)}
<1>9. 0 \in P
  <2>1. <<>> \in Seq(Shapes) /\ Len(<<>>) = 0 /\ DOMAIN <<>> = {}
    OBVIOUS
  <2>2. Good(<<>>, 0)
    BY <2>1
  <2>. HIDE DEF Good
  <2>. QED
    BY <1>8, <2>2
<1>10. ASSUME NEW k \in 1 .. n, k - 1 \in P PROVE k \in P
  <2>. DEFINE v == h[k - 1]
  <2>1. v \in Seq(Shapes) /\ Len(v) <= k - 1 /\ \A i \in DOMAIN v : Usable(v[i])
    BY <1>10
  <2>2. h[k] = kept(k, v) /\ s[k] \in Shapes /\ s[k].N >= 2 /\ s[k].M >= 1
    BY <1>1, <1>8
  <2>. HIDE DEF v
  <2>3. CASE FitsGeometry(s[k])
    <3>1. h[k] = Append(v, s[k])
      BY <2>2, <2>3
    <3>2. Usable(s[k])
      BY <2>2, <2>3 DEF Usable
    <3>3. \A i \in 1 .. Len(v) + 1 : Usable(Append(v, s[k])[i])
      <4>1. \A i \in 1 .. Len(v) : Append(v, s[k])[i] = v[i]
        BY <2>1, <2>2
      <4>2. Append(v, s[k])[Len(v) + 1] = s[k]
        BY <2>1, <2>2
      <4>3. \A i \in 1 .. Len(v) + 1 : i = Len(v) + 1 \/ i \in 1 .. Len(v)
        BY <2>1
      <4>. QED
        BY <2>1, <3>2, <4>1, <4>2, <4>3
    <3>4. /\ Append(v, s[k]) \in Seq(Shapes) /\ Len(Append(v, s[k])) = Len(v) + 1
          /\ DOMAIN Append(v, s[k]) = 1 .. Len(v) + 1 /\ Len(v) \in Nat
      BY <2>1, <2>2
    <3>5. Good(Append(v, s[k]), k)
      BY <2>1, <3>3, <3>4
    <3>. DEFINE grown == Append(v, s[k])
    <3>. HIDE DEF Good, grown
    <3>6. h[k] = grown /\ Good(grown, k)
      BY <3>1, <3>5 DEF grown
    <3>. QED
      BY <3>6
  <2>4. CASE ~FitsGeometry(s[k])
    <3>1. h[k] = v
      BY <2>2, <2>4
    <3>2. Good(v, k)
      BY <2>1
    <3>. HIDE DEF Good
    <3>. QED
      BY <3>1, <3>2
  <2>. QED
    BY <2>3, <2>4
<1>11. n \in P
  <2>. HIDE DEF P, n
  <2>1. \A k \in 0 .. n : k \in P
    BY <1>1, <1>9, <1>10, Induct
  <2>. QED
    BY <1>1, <2>1
<1>. QED
  BY <1>7, <1>11 DEF IsSweep

\* The bench's checks leave it shapes the Core can finish.
LEMMA SweepFacts ==
  ASSUME dep \in Deployments, ~Refused(dep),
         Model # None => Model.hidden # 0 /\ Model.inter # 0 /\ Sweep # <<>>
  PROVE  IsSweep(Sweep) /\ Sweep # <<>>
<1>1. CASE Model = None
  BY <1>1, CrossFacts DEF Sweep
<1>2. CASE Model # None
  <2>1. /\ Model.hidden \in Nat /\ Model.hidden >= 2 /\ Model.inter \in Nat /\ Model.inter >= 2
        /\ Model.vocab \in Nat /\ Model.vocab >= 1
    <3>1. CASE dep.shapes \in DOMAIN Models
      <4>1. Model \in {M370, M13B, M27B}
        BY <3>1 DEF Model, Models
      <4>. QED
        BY <4>1 DEF M370, M13B, M27B
    <3>2. CASE dep.shapes \notin DOMAIN Models
      <4>1. Model = dep.custom
        BY <3>2 DEF Model
      <4>2. {Model.hidden, Model.inter} \subseteq Nat \ {1} /\ Model.vocab \in Nat \ {0}
        BY <1>2, <4>1, BenchAssumption
      <4>. QED
        BY <1>2, <4>2
    <3>. QED
      BY <3>1, <3>2
  <2>. DEFINE s == ModelShapes(Model)
  <2>2. /\ s \in Seq(Shapes) /\ Len(s) = 4
        /\ \A i \in DOMAIN s : s[i].N >= 2 /\ s[i].M >= 1
    BY <2>1 DEF ModelShapes, Shapes
  <2>3. IsSweep(FittingShapes(s))
    <3>1. Len(s) <= 128
      BY <2>2
    <3>. HIDE DEF s
    <3>. QED
      BY <2>2, <3>1, FittingFacts
  <2>. QED
    BY <1>2, <2>3 DEF Sweep
<1>. QED
  BY <1>1, <1>2

-----------------------------------------------------------------------------
(* The inductive invariant.                                                *)

Operations == {"load", "compute", "store"}

Typed ==
  /\ dep \in Deployments /\ rep \in Nat /\ fault \in BOOLEAN
  /\ phase \in {"config", "open", "buffers", "fill", "load", "compute", "store", "check", "exit"}
  /\ sweep \in Seq(Shapes) /\ Len(sweep) <= 128
  /\ job \in 0 .. Len(sweep)
  /\ memory \in [act : Jobs \cup {None}, wt : Jobs \cup {None}]
  /\ device \in [act : Jobs \cup {None}, wt : Jobs \cup {None}]

\* What main has checked before it goes on, and the buffers it has opened.
Prepared ==
  /\ phase \in {"config", "open", "buffers"} => job = 0
  /\ phase \notin {"config", "exit"} => ~Refused(dep) /\ IsSweep(sweep) /\ sweep # <<>>
  /\ phase \in {"fill", "check"} \cup Operations => sizes = Needs

\* The job in hand is the one in memory, and what has been operated on.
Contents ==
  /\ phase \in {"check"} \cup Operations => memory = [act |-> job, wt |-> job]
  /\ phase \in {"compute", "store", "check"} => device.act = job
  /\ phase \in {"store", "check"} => device.wt = job
  /\ phase = "check" => output.act = job /\ output.wt = job

\* Every job but the one in hand may have failed; a device that failed is the end.
Counted ==
  /\ failed \in Nat /\ (failed <= 2 \/ failed <= Len(sweep))
  /\ phase # "exit" => ~fault /\ (job = 0 => failed = 0) /\ (job > 0 => failed <= job - 1)
  /\ fault => failed > 0

BenchInv == Typed /\ Prepared /\ Contents /\ Counted

LEMMA BenchInit == Init => BenchInv
<1>. SUFFICES ASSUME Init PROVE BenchInv
  OBVIOUS
<1>1. <<>> \in Seq(Shapes) /\ Len(<<>>) = 0
  OBVIOUS
<1>2. Typed
  <2>1. sweep = <<>>
    BY DEF Init
  <2>2. dep \in Deployments /\ phase = "config" /\ rep = 0 /\ job = 0 /\ fault = FALSE
    BY DEF Init
  <2>3. memory = [act |-> None, wt |-> None] /\ device = [act |-> None, wt |-> None]
    BY DEF Init
  <2>4. /\ memory \in [act : Jobs \cup {None}, wt : Jobs \cup {None}]
        /\ device \in [act : Jobs \cup {None}, wt : Jobs \cup {None}]
    BY <2>3
  <2>5. sweep \in Seq(Shapes) /\ Len(sweep) = 0
    BY <1>1, <2>1
  <2>6. rep \in Nat
    BY <2>2
  <2>7. Len(sweep) <= 128
    BY <2>5
  <2>8. job \in 0 .. Len(sweep)
    BY <2>2, <2>5
  <2>9. fault \in BOOLEAN
    BY <2>2
  <2>. QED
    BY <2>2, <2>4, <2>5, <2>6, <2>7, <2>8, <2>9 DEF Typed
<1>. QED
  BY <1>2 DEF Init, Prepared, Contents, Counted, Operations, BenchInv

\* What an action that leaves dep and sweep alone leaves alone.
LEMMA SameSweep ==
  ASSUME UNCHANGED <<dep, sweep>>
  PROVE  Needs' = Needs /\ IsSweep(sweep)' = IsSweep(sweep) /\ Refused(dep)' = Refused(dep)
  BY DEF Needs, B, G, Tiles, Lanes, IsSweep, Usable, FitsGeometry

LEMMA ConfigureStep ==
  ASSUME BenchInv, Configure
  PROVE  BenchInv'
<1>1. /\ Typed /\ Counted /\ phase = "config"
      /\ UNCHANGED <<dep, sizes, job, rep, memory, device, output, fault>>
  BY DEF BenchInv, Configure
<1>2. job = 0 /\ failed = 0
  BY <1>1 DEF BenchInv, Prepared, Counted
<1>3. CASE phase' = "exit" /\ failed' = 2 /\ UNCHANGED sweep
  BY <1>1, <1>3 DEF BenchInv, Typed, Prepared, Contents, Counted, Operations
<1>4. CASE sweep' = Sweep /\ phase' = "open" /\ UNCHANGED failed /\ ~Refused(dep)
           /\ (Model # None => Model.hidden # 0 /\ Model.inter # 0 /\ Sweep # <<>>)
  <2>1. IsSweep(Sweep) /\ Sweep # <<>>
    BY <1>1, <1>4, SweepFacts DEF Typed
  <2>2. sweep' \in Seq(Shapes) /\ Len(sweep') <= 128 /\ sweep' # <<>> /\ Len(sweep') \in Nat
    BY <1>4, <2>1 DEF IsSweep
  <2>3. IsSweep(sweep)'
    BY <1>1, <1>4, <2>1 DEF IsSweep, Usable, FitsGeometry
  <2>. QED
    BY <1>1, <1>2, <1>4, <2>2, <2>3 DEF BenchInv, Typed, Prepared, Contents, Counted, Operations
<1>. QED
  BY <1>3, <1>4 DEF Configure, Exit

LEMMA OpenStep ==
  ASSUME BenchInv, Open
  PROVE  BenchInv'
<1>1. /\ Typed /\ Counted /\ phase = "open"
      /\ UNCHANGED <<dep, sweep, sizes, job, rep, memory, device, output>>
  BY DEF BenchInv, Open
<1>2. job = 0 /\ failed = 0 /\ IsSweep(sweep)' = IsSweep(sweep)
  BY <1>1, SameSweep DEF BenchInv, Prepared, Counted
<1>3. CASE phase' = "buffers" /\ UNCHANGED <<failed, fault>>
  BY <1>1, <1>2, <1>3 DEF BenchInv, Typed, Prepared, Contents, Counted, Operations
<1>4. CASE phase' = "exit" /\ fault' = TRUE /\ failed' = 1
  BY <1>1, <1>2, <1>4 DEF BenchInv, Typed, Prepared, Contents, Counted, Operations
<1>. QED
  BY <1>3, <1>4 DEF Open, Exit

LEMMA OpenBuffersStep ==
  ASSUME BenchInv, OpenBuffers
  PROVE  BenchInv'
<1>1. /\ Typed /\ Counted /\ Prepared /\ phase = "buffers"
      /\ UNCHANGED <<dep, sweep, rep, memory, device, output>>
  BY DEF BenchInv, OpenBuffers
<1>2. /\ job = 0 /\ failed = 0 /\ IsSweep(sweep)' = IsSweep(sweep) /\ Needs' = Needs
      /\ ~Refused(dep) /\ IsSweep(sweep) /\ sweep # <<>>
  BY <1>1, SameSweep DEF Prepared, Counted
<1>3. CASE sizes' = Needs /\ phase' = "fill" /\ job' \in {0, 1} /\ UNCHANGED <<failed, fault>>
  <2>1. Len(sweep) \in Nat /\ Len(sweep) > 0
    BY <1>1, <1>2 DEF Typed
  <2>2. job' \in 0 .. Len(sweep)
    BY <1>3, <2>1
  <2>3. Counted'
    <3>1. ~fault
      BY <1>1 DEF Counted
    <3>2. failed' = 0
      BY <1>2, <1>3
    <3>3. ~fault'
      BY <1>3, <3>1
    <3>4. job' \in 0 .. 1
      BY <1>3
    <3>5. failed' = 0 /\ (job' > 0 => failed' <= job' - 1)
      <4>1. \A x \in 0 .. 1 : x > 0 => 0 <= x - 1
        OBVIOUS
      <4>. QED
        BY <3>2, <3>4, <4>1
    <3>. QED
      BY <3>3, <3>5 DEF Counted
  <2>4. Typed'
    BY <1>1, <1>3, <2>2, <2>3 DEF Typed, Counted
  <2>5. Prepared' /\ Contents'
    BY <1>1, <1>2, <1>3 DEF Prepared, Contents, Operations
  <2>. QED
    BY <2>3, <2>4, <2>5 DEF BenchInv
<1>4. CASE phase' = "exit" /\ fault' \in BOOLEAN /\ failed' = 1 /\ UNCHANGED <<sizes, job>>
  BY <1>1, <1>2, <1>4 DEF BenchInv, Typed, Prepared, Contents, Counted, Operations
<1>5. fault' = NodesHold(Needs) => fault' \in BOOLEAN
  BY DEF NodesHold
<1>. QED
  BY <1>3, <1>4, <1>5 DEF OpenBuffers, Exit

LEMMA FillStep ==
  ASSUME BenchInv, Fill
  PROVE  BenchInv'
<1>1. /\ Typed /\ Counted /\ Prepared /\ phase = "fill" /\ phase' = "load" /\ rep' = 1
      /\ memory' = [act |-> job, wt |-> job]
      /\ UNCHANGED <<dep, sweep, sizes, job, device, output, failed, fault>>
  BY DEF BenchInv, Fill
<1>2. IsSweep(sweep)' = IsSweep(sweep) /\ Needs' = Needs
  BY <1>1, SameSweep
<1>3. job \in Jobs
  BY <1>1 DEF Typed, Jobs
<1>4. Typed'
  BY <1>1, <1>3 DEF Typed
<1>5. Prepared' /\ Contents' /\ Counted'
  BY <1>1, <1>2 DEF Prepared, Contents, Counted, Operations
<1>. QED
  BY <1>4, <1>5 DEF BenchInv

\* An operation that times out.
LEMMA OpFailsStep ==
  ASSUME BenchInv, phase \in Operations, NEW bytes, OpFails(bytes),
         UNCHANGED <<dep, sweep, sizes, job, rep, memory>>
  PROVE  BenchInv'
<1>1. /\ Typed /\ Counted /\ phase \notin {"config", "open", "buffers", "exit"}
      /\ phase' = "exit" /\ failed' = failed + 1 /\ fault' = Streams(bytes)
      /\ UNCHANGED <<device, output>>
  BY DEF BenchInv, Operations, OpFails, Exit
<1>2. fault' \in BOOLEAN
  BY <1>1 DEF Streams
<1>3. failed \in Nat /\ job \in 0 .. Len(sweep) /\ Len(sweep) \in Nat
      /\ (job = 0 => failed = 0) /\ (job > 0 => failed <= job - 1)
  BY <1>1 DEF Typed, Counted
<1>4. failed' \in Nat /\ failed' > 0 /\ (failed' <= 2 \/ failed' <= Len(sweep))
  BY <1>1, <1>3
<1>5. Typed' /\ Prepared' /\ Contents'
  BY <1>1, <1>2 DEF Typed, Prepared, Contents, Operations
<1>6. Counted'
  BY <1>1, <1>4 DEF Counted
<1>. QED
  BY <1>5, <1>6 DEF BenchInv

LEMMA LoadStep ==
  ASSUME BenchInv, Load
  PROVE  BenchInv'
<1>1. CASE OpFails(LoadBytes(job))
  BY <1>1, OpFailsStep DEF Load, Operations
<1>2. CASE device' = [device EXCEPT !.act = memory.act] /\ phase' = "compute"
           /\ UNCHANGED <<output, failed, fault>>
  <2>1. /\ Typed /\ Counted /\ Prepared /\ Contents /\ phase = "load"
        /\ UNCHANGED <<dep, sweep, sizes, job, rep, memory>>
    BY DEF BenchInv, Load
  <2>2. IsSweep(sweep)' = IsSweep(sweep) /\ Needs' = Needs
    BY <2>1, SameSweep
  <2>3. memory = [act |-> job, wt |-> job] /\ job \in Jobs
    BY <2>1 DEF Contents, Operations, Typed, Jobs
  <2>4. device' \in [act : Jobs \cup {None}, wt : Jobs \cup {None}] /\ device'.act = job
    BY <1>2, <2>1, <2>3 DEF Typed
  <2>5. Typed'
    BY <1>2, <2>1, <2>4 DEF Typed
  <2>6. Prepared' /\ Contents' /\ Counted'
    BY <1>2, <2>1, <2>2, <2>3, <2>4 DEF Prepared, Contents, Counted, Operations
  <2>. QED
    BY <2>5, <2>6 DEF BenchInv
<1>. QED
  BY <1>1, <1>2 DEF Load

LEMMA ComputeStep ==
  ASSUME BenchInv, Compute
  PROVE  BenchInv'
<1>1. CASE OpFails(ComputeBytes(job))
  BY <1>1, OpFailsStep DEF Compute, Operations
<1>2. CASE device' = [device EXCEPT !.wt = memory.wt] /\ phase' = "store"
           /\ UNCHANGED <<output, failed, fault>>
  <2>1. /\ Typed /\ Counted /\ Prepared /\ Contents /\ phase = "compute"
        /\ UNCHANGED <<dep, sweep, sizes, job, rep, memory>>
    BY DEF BenchInv, Compute
  <2>2. IsSweep(sweep)' = IsSweep(sweep) /\ Needs' = Needs
    BY <2>1, SameSweep
  <2>3. memory = [act |-> job, wt |-> job] /\ job \in Jobs /\ device.act = job
    BY <2>1 DEF Contents, Operations, Typed, Jobs
  <2>4. /\ device' \in [act : Jobs \cup {None}, wt : Jobs \cup {None}]
        /\ device'.act = job /\ device'.wt = job
    BY <1>2, <2>1, <2>3 DEF Typed
  <2>5. Typed'
    BY <1>2, <2>1, <2>4 DEF Typed
  <2>6. Prepared' /\ Contents' /\ Counted'
    BY <1>2, <2>1, <2>2, <2>3, <2>4 DEF Prepared, Contents, Counted, Operations
  <2>. QED
    BY <2>5, <2>6 DEF BenchInv
<1>. QED
  BY <1>1, <1>2 DEF Compute

LEMMA StoreStep ==
  ASSUME BenchInv, Store
  PROVE  BenchInv'
<1>1. CASE OpFails(StoreBytes(job)) /\ UNCHANGED rep
  BY <1>1, OpFailsStep DEF Store, Operations
<1>2. CASE /\ output' = [act |-> device.act, wt |-> device.wt, lanes |-> StoredLanes(job)]
           /\ rep' \in {rep, rep + 1} /\ phase' \in {"load", "check"}
           /\ UNCHANGED <<device, failed, fault>>
  <2>1. /\ Typed /\ Counted /\ Prepared /\ Contents /\ phase = "store"
        /\ UNCHANGED <<dep, sweep, sizes, job, memory>>
    BY DEF BenchInv, Store
  <2>2. IsSweep(sweep)' = IsSweep(sweep) /\ Needs' = Needs
    BY <2>1, SameSweep
  <2>3. memory = [act |-> job, wt |-> job] /\ device.act = job /\ device.wt = job
    BY <2>1 DEF Contents, Operations
  <2>4. output'.act = job /\ output'.wt = job
    BY <1>2, <2>3
  <2>5. Typed'
    BY <1>2, <2>1 DEF Typed
  <2>6. Prepared' /\ Contents' /\ Counted'
    BY <1>2, <2>1, <2>2, <2>3, <2>4 DEF Prepared, Contents, Counted, Operations
  <2>. QED
    BY <2>5, <2>6 DEF BenchInv
<1>. QED
  BY <1>1, <1>2 DEF Store

LEMMA CheckStep ==
  ASSUME BenchInv, Check
  PROVE  BenchInv'
<1>1. /\ Typed /\ Counted /\ Prepared /\ phase = "check"
      /\ UNCHANGED <<dep, sweep, sizes, rep, memory, device, output, fault>>
  BY DEF BenchInv, Check
<1>2. IsSweep(sweep)' = IsSweep(sweep) /\ Needs' = Needs
  BY <1>1, SameSweep
<1>3. /\ failed \in Nat /\ job \in 0 .. Len(sweep) /\ Len(sweep) \in Nat /\ ~fault
      /\ (job = 0 => failed = 0) /\ (job > 0 => failed <= job - 1)
      /\ sweep # <<>> /\ Len(sweep) > 0
  BY <1>1 DEF Typed, Counted, Prepared
<1>4. PICK bad \in BOOLEAN :
        /\ failed' = (IF bad THEN failed + 1 ELSE failed)
        /\ phase' = (IF job = Len(sweep) \/ (job = 0 /\ bad) THEN "exit" ELSE "fill")
        /\ job' = (IF job = Len(sweep) \/ (job = 0 /\ bad) THEN job ELSE job + 1)
  BY DEF Check, Count, IsLast
<1>5. CASE job = Len(sweep) \/ (job = 0 /\ bad)
  <2>1. phase' = "exit" /\ job' = job
    BY <1>4, <1>5
  <2>2. failed' \in Nat /\ (failed' <= 2 \/ failed' <= Len(sweep))
    BY <1>3, <1>4
  <2>. QED
    BY <1>1, <1>3, <2>1, <2>2 DEF BenchInv, Typed, Prepared, Contents, Counted, Operations
<1>6. CASE ~(job = Len(sweep) \/ (job = 0 /\ bad))
  <2>1. phase' = "fill" /\ job' = job + 1
    BY <1>4, <1>6
  <2>2. /\ job' \in 1 .. Len(sweep) /\ failed' \in Nat /\ failed' <= job' - 1
        /\ (failed' <= 2 \/ failed' <= Len(sweep))
    BY <1>3, <1>4, <1>6, <2>1
  <2>3. Typed' /\ Counted'
    BY <1>1, <1>3, <2>1, <2>2 DEF Typed, Counted
  <2>4. Prepared' /\ Contents'
    BY <1>1, <1>2, <2>1, <2>2 DEF Prepared, Contents, Operations
  <2>. QED
    BY <2>3, <2>4 DEF BenchInv
<1>. QED
  BY <1>5, <1>6

LEMMA BenchNext == BenchInv /\ [Next]_vars => BenchInv'
<1>. SUFFICES ASSUME BenchInv, [Next]_vars PROVE BenchInv'
  OBVIOUS
<1>1. CASE UNCHANGED vars
  <2>1. UNCHANGED <<dep, phase, sweep, sizes, job, rep, memory, device, output, failed, fault>>
    BY <1>1 DEF vars
  <2>2. IsSweep(sweep)' = IsSweep(sweep) /\ Needs' = Needs
    BY <2>1, SameSweep
  <2>. QED
    BY <2>1, <2>2 DEF BenchInv, Typed, Prepared, Contents, Counted
<1>. QED
  BY <1>1, ConfigureStep, OpenStep, OpenBuffersStep, FillStep, LoadStep, ComputeStep, StoreStep,
     CheckStep DEF Next

LEMMA BenchInvariance == Spec => []BenchInv
  BY BenchInit, BenchNext, PTL DEF Spec

-----------------------------------------------------------------------------
(* Transfers and buffers.                                                  *)

LEMMA TilesFacts ==
  ASSUME Lanes \in Nat \ {0}, NEW m \in Nat
  PROVE  /\ Tiles(m) \in Nat /\ (m >= 1 => Tiles(m) >= 1) /\ m <= Tiles(m) * Lanes
         /\ \A n \in Nat : n <= m => Tiles(n) <= Tiles(m)
         /\ Tiles(Lanes) = 1
<1>. DEFINE L == Lanes
            t == (m + L - 1) \div L
            r == (m + L - 1) % L
<1>1. Tiles(m) = t /\ t \in Nat
  BY DEF Tiles, CeilDiv
<1>2. m + L - 1 = L * t + r /\ r \in 0 .. L - 1
  <2>1. m + L - 1 \in Nat
    OBVIOUS
  <2>. HIDE DEF L
  <2>. QED
    BY <2>1, DivModOf DEF L
<1>. HIDE DEF t, r
<1>3. m <= L * t /\ L * t \in Nat /\ L * t = t * L
  BY <1>1, <1>2
<1>4. m >= 1 => t >= 1
  BY <1>1, <1>3
<1>5. ASSUME NEW n \in Nat, n <= m PROVE Tiles(n) <= t
  <2>. DEFINE u == (n + L - 1) \div L
              q == (n + L - 1) % L
  <2>1. Tiles(n) = u /\ u \in Nat
    BY DEF Tiles, CeilDiv
  <2>2. n + L - 1 = L * u + q /\ q \in 0 .. L - 1
    <3>1. n + L - 1 \in Nat
      OBVIOUS
    <3>. HIDE DEF L
    <3>. QED
      BY <3>1, DivModOf DEF L
  <2>. HIDE DEF u, q
  <2>3. ASSUME t + 1 <= u PROVE FALSE
    <3>1. (t + 1) * L <= u * L /\ (t + 1) * L = L * t + L /\ u * L = L * u /\ L * u \in Nat
      BY <1>1, <1>3, <2>1, <2>3, TimesMonotone, TimesType
    <3>. QED
      BY <1>2, <1>3, <1>5, <2>2, <3>1
  <2>. QED
    BY <1>1, <2>1, <2>3
<1>6. Tiles(L) = 1
  <2>1. L + L - 1 = 1 * L + (L - 1) /\ L - 1 \in 0 .. L - 1
    OBVIOUS
  <2>. HIDE DEF L
  <2>2. (L + L - 1) \div L = 1
    <3>. DEFINE x   == L + L - 1
                one == 1
    <3>1. x = one * L + (L - 1) /\ one \in Nat
      BY <2>1
    <3>. HIDE DEF x, one
    <3>2. x \div L = one
      BY <2>1, <3>1, DivModEq DEF L
    <3>. QED
      BY <3>2 DEF x, one
  <2>. QED
    BY <2>2 DEF L, Tiles, CeilDiv
<1>. QED
  BY <1>1, <1>3, <1>4, <1>5, <1>6

\* The numbers of G.
LEMMA GeometryFacts ==
  ASSUME dep \in Deployments, ~Refused(dep)
  PROVE  /\ G.numPorts \in Nat \ {0} /\ G.portBytes \in Nat \ {0} /\ G.outLaneBytes \in {4, 8}
         /\ Lanes \in Nat \ {0} /\ PerPort = 4 * G.portBytes /\ Lanes = G.numPorts * PerPort
         /\ B \in Nat \ {0} /\ ABytes \in Nat \ {0} /\ dep.env.aWidth = 8 * ABytes
<1>1. /\ G.numPorts \in Nat \ {0} /\ G.portBytes \in Nat \ {0} /\ G.outLaneBytes \in {4, 8}
      /\ Lanes = 4 * (G.numPorts * G.portBytes)
  BY OwnGeometry DEF G, Lanes
<1>2. B \in Nat \ {0} /\ ABytes \in Nat \ {0} /\ dep.env.aWidth = 8 * ABytes
  BY ParameterFacts DEF B, ABytes
<1>. DEFINE n == G.numPorts
            p == G.portBytes
<1>3. \A x, y \in Nat \ {0} : 4 * (x * y) \in Nat \ {0} /\ 4 * (x * y) = x * (4 * y)
  OBVIOUS
<1>4. Lanes = (4 * p) * n + 0 /\ Lanes = n * (4 * p) /\ Lanes \in Nat \ {0}
  <2>1. Lanes = n * (4 * p) /\ Lanes \in Nat \ {0}
    BY <1>1, <1>3
  <2>2. n * (4 * p) = (4 * p) * n /\ (4 * p) * n \in Nat
    BY <1>1, TimesType
  <2>. QED
    BY <2>1, <2>2
<1>5. Lanes \div n = 4 * p
  <2>. HIDE DEF n, p
  <2>. DEFINE zero == 0
              q    == 4 * p
  <2>1. n \in Nat \ {0} /\ q \in Nat /\ zero \in 0 .. n - 1 /\ Lanes = q * n + zero
    BY <1>1, <1>4 DEF n, p
  <2>. HIDE DEF zero, q
  <2>2. Lanes \div n = q
    BY <2>1, DivModEq
  <2>. QED
    BY <2>2 DEF q
<1>. QED
  BY <1>1, <1>2, <1>4, <1>5 DEF PerPort

\* Their types alone.
LEMMA GeometryTypes ==
  ASSUME dep \in Deployments, ~Refused(dep)
  PROVE  /\ G.numPorts \in Nat \ {0} /\ G.portBytes \in Nat \ {0} /\ G.outLaneBytes \in Nat \ {0}
         /\ Lanes \in Nat \ {0} /\ B \in Nat \ {0}
  BY GeometryFacts

LEMMA ProductMonotone ==
  ASSUME NEW b \in Nat, NEW x \in Nat, NEW c \in Nat, NEW y \in Nat,
         NEW l \in Nat, NEW k \in Nat, b <= c, x <= y
  PROVE  b * x * l * k \in Nat /\ b * x * l * k <= c * y * l * k
<1>1. b * x <= c * x /\ x * c <= y * c /\ x * c = c * x /\ y * c = c * y
      /\ b * x \in Nat /\ c * x \in Nat /\ c * y \in Nat
  BY TimesMonotone, TimesType
<1>2. b * x <= c * y
  BY <1>1
<1>3. (b * x) * l <= (c * y) * l /\ (b * x) * l \in Nat /\ (c * y) * l \in Nat
  BY <1>1, <1>2, TimesMonotone, TimesType
<1>. QED
  BY <1>3, TimesMonotone, TimesType

\* The shape of a job.
LEMMA ShapeFacts ==
  ASSUME dep \in Deployments, ~Refused(dep), IsSweep(sweep), NEW j \in 0 .. Len(sweep)
  PROVE  LET s == ShapeOf(j)
         IN /\ s.N \in 2 .. dep.env.maxN /\ s.M \in 1 .. dep.env.maxM
            /\ Tiles(s.M) \in 1 .. Tiles(dep.env.maxM) /\ s.M <= Tiles(s.M) * Lanes
<1>1. /\ dep.env.maxN \in Nat /\ dep.env.maxN >= 2
      /\ dep.env.maxM \in Nat \ {0} /\ dep.env.maxM % Lanes = 0
  BY ParameterFacts
<1>2. Lanes \in Nat \ {0}
  BY GeometryFacts
<1>3. Lanes \in 1 .. dep.env.maxM
  <2>. DEFINE m == dep.env.maxM
              q == m \div Lanes
  <2>1. m = Lanes * q /\ q \in Nat
    <3>. DEFINE L == Lanes
                r == m % L
    <3>1. m \in Nat /\ L \in Nat \ {0} /\ r = 0
      BY <1>1, <1>2
    <3>. HIDE DEF L, m
    <3>2. m = L * (m \div L) + r /\ m \div L \in Nat
      BY <3>1, DivModOf
    <3>. HIDE DEF r
    <3>3. L * (m \div L) \in Nat
      BY <3>1, <3>2, TimesType
    <3>. QED
      BY <3>1, <3>2, <3>3 DEF L, m
  <2>. HIDE DEF q
  <2>2. q >= 1
    BY <1>1, <1>2, <2>1
  <2>3. 1 * Lanes <= q * Lanes /\ q * Lanes = Lanes * q
    BY <1>2, <2>1, <2>2, TimesMonotone, TimesType
  <2>. QED
    BY <1>1, <1>2, <2>1, <2>3
<1>. DEFINE s == ShapeOf(j)
<1>4. s.N \in 2 .. dep.env.maxN /\ s.M \in 1 .. dep.env.maxM
  <2>1. CASE j = 0
    <3>1. s.N = 2 /\ s.M = Lanes
      BY <2>1 DEF ShapeOf
    <3>. QED
      BY <1>1, <1>3, <3>1
  <2>2. CASE j # 0
    <3>1. s = sweep[j] /\ j \in DOMAIN sweep
      BY <2>2 DEF ShapeOf, IsSweep
    <3>2. sweep[j] \in Shapes
      BY <3>1 DEF IsSweep
    <3>3. Usable(sweep[j])
      BY <3>1 DEF IsSweep
    <3>. HIDE DEF s
    <3>. QED
      BY <1>1, <3>1, <3>2, <3>3 DEF Usable, FitsGeometry, Shapes
  <2>. QED
    BY <2>1, <2>2
<1>. HIDE DEF s
<1>5. /\ Tiles(s.M) \in Nat /\ Tiles(s.M) >= 1 /\ s.M <= Tiles(s.M) * Lanes
      /\ Tiles(dep.env.maxM) \in Nat /\ Tiles(s.M) <= Tiles(dep.env.maxM)
  <2>1. s.M \in Nat /\ s.M >= 1 /\ dep.env.maxM \in Nat /\ s.M <= dep.env.maxM
    BY <1>1, <1>4
  <2>. DEFINE m == dep.env.maxM
              M == s.M
  <2>. HIDE DEF m, M
  <2>2. Tiles(M) \in Nat /\ Tiles(M) >= 1 /\ M <= Tiles(M) * Lanes
    BY <1>2, <2>1, TilesFacts DEF m, M
  <2>3. Tiles(m) \in Nat /\ Tiles(M) <= Tiles(m)
    BY <1>2, <2>1, TilesFacts DEF m, M
  <2>. QED
    BY <2>2, <2>3 DEF m, M
<1>. QED
  BY <1>4, <1>5 DEF s

\* The largest of the numbers f(i), i an index of the sweep, of which n is a bound.
LEMMA LargestOf ==
  ASSUME IsSweep(sweep), sweep # <<>>, NEW n \in Nat, NEW f,
         \A i \in DOMAIN sweep : f[i] \in 0 .. n
  PROVE  /\ Max({f[i] : i \in DOMAIN sweep}) \in 0 .. n
         /\ \A i \in DOMAIN sweep : f[i] <= Max({f[k] : k \in DOMAIN sweep})
<1>. DEFINE S == {f[i] : i \in DOMAIN sweep}
<1>1. 1 \in DOMAIN sweep
  BY DEF IsSweep
<1>2. f[1] \in S /\ S \in SUBSET (0 .. n)
  BY <1>1
<1>. HIDE DEF S
<1>3. Max(S) \in S /\ \A y \in S : y <= Max(S)
  BY <1>2, MaxExists
<1>. QED
  BY <1>2, <1>3 DEF S

\* What is mapped holds what each job moves, and no more than the largest shape
\* the geometry admits would.
LEMMA NeedsFacts ==
  ASSUME dep \in Deployments, ~Refused(dep), IsSweep(sweep), sweep # <<>>
  PROVE  LET T == Tiles(dep.env.maxM)
         IN /\ T \in Nat \ {0}
            /\ Needs.act \in Nat /\ Needs.act <= dep.env.maxN * G.portBytes
            /\ Needs.wt \in Nat /\ Needs.wt <= dep.env.maxN * T * G.portBytes
            /\ Needs.out \in Nat /\ Needs.out <= B * T * Lanes * G.outLaneBytes
            /\ \A j \in 0 .. Len(sweep) :
                 LoadBytes(j) <= Needs.act /\ ComputeBytes(j) <= Needs.wt /\ StoreBytes(j) <= Needs.out
<1>. DEFINE T   == Tiles(dep.env.maxM)
            mxN == dep.env.maxN
            pb  == G.portBytes
            ob  == G.outLaneBytes
            n   == [i \in DOMAIN sweep |-> sweep[i].N]
            t   == [i \in DOMAIN sweep |-> Tiles(sweep[i].M)]
            nt  == [i \in DOMAIN sweep |-> sweep[i].N * Tiles(sweep[i].M)]
            topN  == Max({n[i] : i \in DOMAIN sweep})
            topT  == Max({t[i] : i \in DOMAIN sweep})
            topNT == Max({nt[i] : i \in DOMAIN sweep})
<1>1. pb \in Nat \ {0} /\ ob \in Nat /\ Lanes \in Nat \ {0} /\ B \in Nat \ {0}
  BY GeometryFacts
<1>2. /\ mxN \in Nat /\ mxN >= 2 /\ dep.env.maxM \in Nat \ {0}
  BY ParameterFacts
<1>3. T \in Nat /\ T >= 1
  <2>. DEFINE m == dep.env.maxM
  <2>1. m \in Nat /\ m >= 1
    BY <1>2
  <2>. HIDE DEF m
  <2>2. Tiles(m) \in Nat /\ Tiles(m) >= 1
    BY <1>1, <2>1, TilesFacts
  <2>. QED
    BY <2>2 DEF m
<1>4. ASSUME NEW j \in 0 .. Len(sweep)
      PROVE  ShapeOf(j).N \in 2 .. mxN /\ Tiles(ShapeOf(j).M) \in 1 .. T
  BY ShapeFacts
<1>5. \A i \in DOMAIN sweep : i \in 0 .. Len(sweep) /\ ShapeOf(i) = sweep[i]
  BY DEF IsSweep, ShapeOf
<1>. HIDE DEF T
<1>6. ASSUME NEW i \in DOMAIN sweep
      PROVE n[i] \in 2 .. mxN /\ t[i] \in 1 .. T /\ nt[i] = n[i] * t[i] /\ nt[i] \in 0 .. mxN * T
  <2>1. n[i] \in 2 .. mxN /\ t[i] \in 1 .. T /\ nt[i] = n[i] * t[i]
    BY <1>4, <1>5
  <2>. HIDE DEF n, t, nt
  <2>. DEFINE x == n[i]
              y == t[i]
  <2>2. x \in Nat /\ y \in Nat /\ x <= mxN /\ y <= T
    BY <1>2, <1>3, <2>1
  <2>. HIDE DEF x, y, mxN
  <2>3. x * y <= mxN * y
    BY <1>2, <2>2, TimesMonotone
  <2>4. y * mxN <= T * mxN
    BY <1>2, <1>3, <2>2, TimesMonotone
  <2>5. mxN * y = y * mxN /\ T * mxN = mxN * T /\ x * y \in Nat /\ mxN * T \in Nat /\ mxN * y \in Nat
    BY <1>2, <1>3, <2>2, TimesType
  <2>6. x * y \in 0 .. mxN * T
    BY <2>3, <2>4, <2>5
  <2>. QED
    BY <2>1, <2>6 DEF x, y, mxN
<1>7. Needs.act = topN * pb /\ Needs.wt = topNT * pb /\ Needs.out = B * topT * Lanes * ob
  BY DEF Needs
<1>8. /\ topN \in 0 .. mxN /\ \A i \in DOMAIN sweep : n[i] <= topN
  <2>1. \A i \in DOMAIN sweep : n[i] \in 0 .. mxN
    BY <1>6
  <2>. HIDE DEF n
  <2>. QED
    BY <1>2, <2>1, LargestOf
<1>9. /\ topT \in 0 .. T /\ \A i \in DOMAIN sweep : t[i] <= topT
  <2>1. \A i \in DOMAIN sweep : t[i] \in 0 .. T
    BY <1>6
  <2>. HIDE DEF t
  <2>. QED
    BY <1>3, <2>1, LargestOf
<1>10. /\ topNT \in 0 .. mxN * T /\ \A i \in DOMAIN sweep : nt[i] <= topNT
  <2>1. \A i \in DOMAIN sweep : nt[i] \in 0 .. mxN * T
    BY <1>6
  <2>2. mxN * T \in Nat
    BY <1>2, <1>3, TimesType
  <2>. HIDE DEF nt
  <2>. QED
    BY <2>1, <2>2, LargestOf
\* Every job, the self-test included, is within the sweep's maxima.
<1>11. ASSUME NEW j \in 0 .. Len(sweep)
       PROVE  /\ ShapeOf(j).N <= topN /\ Tiles(ShapeOf(j).M) <= topT
              /\ ShapeOf(j).N * Tiles(ShapeOf(j).M) <= topNT
  <2>1. CASE j = 0
    <3>1. ShapeOf(j).N = 2 /\ Tiles(ShapeOf(j).M) = 1
      BY <1>1, <2>1, TilesFacts DEF ShapeOf
    <3>2. 1 \in DOMAIN sweep
      BY DEF IsSweep
    <3>3. n[1] >= 2 /\ t[1] >= 1 /\ nt[1] >= 2
      <4>1. n[1] \in 2 .. mxN /\ t[1] \in 1 .. T /\ nt[1] = n[1] * t[1]
        BY <1>6, <3>2
      <4>. HIDE DEF n, t, nt
      <4>2. 1 * n[1] <= t[1] * n[1] /\ t[1] * n[1] = n[1] * t[1] /\ n[1] * t[1] \in Nat
        BY <4>1, TimesMonotone, TimesType
      <4>. QED
        BY <4>1, <4>2
    <3>4. n[1] <= topN /\ t[1] <= topT /\ nt[1] <= topNT
      BY <1>8, <1>9, <1>10, <3>2
    <3>5. n[1] \in Nat /\ t[1] \in Nat /\ nt[1] \in Nat /\ topN \in Nat /\ topT \in Nat /\ topNT \in Nat
      <4>1. n[1] \in 2 .. mxN /\ t[1] \in 1 .. T /\ nt[1] \in 0 .. mxN * T
        BY <1>6, <3>2
      <4>. HIDE DEF n, t, nt, topN, topT, topNT
      <4>. QED
        BY <1>8, <1>9, <1>10, <4>1
    <3>. HIDE DEF n, t, nt, topN, topT, topNT
    <3>6. ShapeOf(j).N <= topN /\ Tiles(ShapeOf(j).M) <= topT
      BY <3>1, <3>3, <3>4, <3>5
    <3>7. ShapeOf(j).N * Tiles(ShapeOf(j).M) = 2
      BY <3>1
    <3>. QED
      BY <3>3, <3>4, <3>5, <3>6, <3>7
  <2>2. CASE j # 0
    <3>1. j \in DOMAIN sweep /\ ShapeOf(j) = sweep[j]
      BY <2>2 DEF IsSweep, ShapeOf
    <3>2. n[j] <= topN /\ t[j] <= topT /\ nt[j] <= topNT
      BY <1>8, <1>9, <1>10, <3>1
    <3>. HIDE DEF topN, topT, topNT
    <3>. QED
      BY <3>1, <3>2
  <2>. QED
    BY <2>1, <2>2
<1>. HIDE DEF n, t, nt, topN, topT, topNT, mxN, pb, ob
<1>12. mxN * T \in Nat
  BY <1>2, <1>3, TimesType
<1>13. /\ topN * pb \in Nat /\ topN * pb <= mxN * pb
       /\ topNT * pb \in Nat /\ topNT * pb <= (mxN * T) * pb
  BY <1>1, <1>2, <1>8, <1>10, <1>12, TimesMonotone, TimesType
<1>14. /\ B * topT * Lanes * ob \in Nat
       /\ \A x \in 0 .. topT, b \in 1 .. B : b * x * Lanes * ob <= B * topT * Lanes * ob
       /\ \A x \in 0 .. T : x >= topT => B * topT * Lanes * ob <= B * x * Lanes * ob
  BY <1>1, <1>3, <1>9, ProductMonotone
<1>15. ASSUME NEW j \in 0 .. Len(sweep)
       PROVE  LoadBytes(j) <= topN * pb /\ ComputeBytes(j) <= topNT * pb
              /\ StoreBytes(j) <= B * topT * Lanes * ob
  <2>. DEFINE N == ShapeOf(j).N
              x == Tiles(ShapeOf(j).M)
              b == Vectors(j)
  <2>1. LoadBytes(j) = N * pb /\ ComputeBytes(j) = (N * x) * pb /\ StoreBytes(j) = b * x * Lanes * ob
    BY DEF LoadBytes, ComputeBytes, StoreBytes, StoredLanes, pb, ob
  <2>2. N \in Nat /\ x \in Nat /\ N <= topN /\ x <= topT /\ N * x <= topNT
    BY <1>2, <1>3, <1>4, <1>11 DEF mxN
  <2>3. b \in 1 .. B
    BY <1>1 DEF Vectors
  <2>. HIDE DEF N, x, b
  <2>4. N * x \in Nat
    BY <2>2, TimesType
  <2>5. N * pb <= topN * pb /\ (N * x) * pb <= topNT * pb
    BY <1>1, <1>8, <1>10, <1>12, <2>2, <2>4, TimesMonotone
  <2>6. x \in 0 .. topT
    BY <1>3, <1>9, <2>2
  <2>. QED
    BY <1>14, <2>1, <2>3, <2>5, <2>6
<1>. QED
  BY <1>3, <1>7, <1>9, <1>13, <1>14, <1>15 DEF T, mxN, pb, ob

-----------------------------------------------------------------------------
(* What holds of every deployment.                                         *)

\* Type correctness, which bounds the exit status by the number of shapes.
THEOREM BenchTypeCorrect == Spec => []TypeOK
<1>1. BenchInv => TypeOK
  <2>. SUFFICES ASSUME BenchInv PROVE TypeOK
    OBVIOUS
  <2>1. failed \in Nat /\ (failed <= 2 \/ failed <= Len(sweep)) /\ Len(sweep) \in Nat
    BY DEF BenchInv, Counted, Typed
  <2>2. failed \in 0 .. Max({2, Len(sweep)})
    <3>. DEFINE n == Len(sweep)
    <3>1. CASE n <= 2
      <4>1. Max({2, n}) = 2
        BY <2>1, <3>1, MaxIs
      <4>. QED
        BY <2>1, <3>1, <4>1
    <3>2. CASE ~(n <= 2)
      <4>. HIDE DEF n
      <4>1. \A y \in {2, n} : y <= n
        BY <2>1, <3>2 DEF n
      <4>2. n \in Nat
        BY <2>1 DEF n
      <4>3. Max({2, n}) = n
        BY <4>1, <4>2, MaxIs
      <4>. QED
        BY <2>1, <3>2, <4>3 DEF n
    <3>. QED
      BY <3>1, <3>2
  <2>. QED
    BY <2>2 DEF BenchInv, Typed, TypeOK
<1>. QED
  BY <1>1, BenchInvariance, PTL

\* The buffers opened once hold what the self-test and every shape of the sweep
\* load, stream and store (bench.c sizes them in main, and passes the lengths from
\* run_shape and port_order_selftest).
THEOREM BenchTransfersStayInside == Spec => []TransfersFit
<1>1. BenchInv => TransfersFit
  <2>. SUFFICES ASSUME BenchInv, phase \in {"load", "compute", "store", "check"}
                PROVE  /\ LoadBytes(job) <= sizes.act /\ ComputeBytes(job) <= sizes.wt
                       /\ StoreBytes(job) <= sizes.out
    BY DEF TransfersFit
  <2>1. /\ dep \in Deployments /\ ~Refused(dep) /\ IsSweep(sweep) /\ sweep # <<>>
        /\ job \in 0 .. Len(sweep) /\ sizes = Needs
    BY DEF BenchInv, Typed, Prepared, Operations
  <2>. QED
    BY <2>1, NeedsFacts
<1>. QED
  BY <1>1, BenchInvariance, PTL

\* A timeout or a device that does not open ends the bench with a failing status.
THEOREM FaultIsFinal == Spec => []NothingAfterFault
<1>1. BenchInv => NothingAfterFault
  BY DEF BenchInv, Counted, NothingAfterFault
<1>. QED
  BY <1>1, BenchInvariance, PTL

-----------------------------------------------------------------------------
(* The bench on its own bitstream.                                         *)

Own == ~Refused(dep) /\ Wired /\ BatchInPort /\ dep.signed = dep.signedAct

LEMMA PageUpFacts ==
  ASSUME NEW b \in Nat
  PROVE  PageUp(b) \in Nat /\ b <= PageUp(b)
  BY DEF PageUp, CeilTo, CeilDiv, PageBytes

\* The overlay's nodes hold the buffers.
LEMMA NodesSuffice ==
  ASSUME dep \in Deployments, ~Refused(dep), IsSweep(sweep), sweep # <<>>
  PROVE  NodesHold(Needs)
<1>. DEFINE c  == dep.bit
            T  == Tiles(dep.env.maxM)
            pb == G.portBytes
            a  == c.maxN * pb
            w  == c.maxN * T * pb
            o  == B * T * Lanes * G.outLaneBytes
<1>1. /\ dep.env = c /\ Sized(c) /\ pb = Derived(c).portBytes /\ Lanes = Derived(c).outLanesPerTile
      /\ G.outLaneBytes = Derived(c).outLaneBytes /\ G.numPorts = Derived(c).numPorts
  BY OwnGeometry DEF G, Lanes
<1>2. /\ T \in Nat \ {0} /\ Needs.act <= a /\ Needs.wt <= w /\ Needs.out <= o
      /\ Needs.act \in Nat /\ Needs.wt \in Nat /\ Needs.out \in Nat
  BY <1>1, NeedsFacts
<1>3. pb \in Nat /\ Lanes \in Nat /\ G.outLaneBytes \in Nat /\ B \in Nat /\ c.maxN \in Nat
      /\ G.numPorts \in Nat \ {0}
  <2>1. dep.env.maxN \in Nat
    BY ParameterFacts
  <2>. QED
    BY <1>1, <2>1, GeometryTypes
<1>4. T = NumColTiles(Derived(c), c.maxM)
  BY <1>1 DEF Tiles, NumColTiles
<1>5. /\ ActNode(c) = PageUp(a) /\ WtSlice(c) = PageUp(w)
      /\ OutNode(c) = PageUp(o)
  BY <1>1, <1>4 DEF ActNode, WtSlice, OutNode, B
<1>. HIDE DEF T
<1>6. a \in Nat /\ w \in Nat /\ o \in Nat
  BY <1>2, <1>3, TimesType
<1>. HIDE DEF a, w, o
<1>7. PageUp(a) \in Nat /\ a <= PageUp(a) /\ PageUp(w) \in Nat /\ w <= PageUp(w)
      /\ PageUp(o) \in Nat /\ o <= PageUp(o)
  BY <1>6, PageUpFacts
<1>8. WtNode(c) \in Nat /\ PageUp(w) <= WtNode(c)
  <2>1. CASE c.model = None
    BY <1>5, <1>7, <2>1 DEF WtNode
  <2>2. CASE c.model # None
    <3>. DEFINE r == PageUp(ResidentBytes(c.model, Derived(c).numPorts))
                s == PageUp(w)
    <3>1. r \in Nat
      <4>. DEFINE m == c.model
                  x == 4 * m.hidden * m.hidden + m.hidden * 2 * m.inter + m.inter * m.hidden
                  e == (x \div 4) * m.layers + (m.hidden * m.vocab) \div 4
      <4>1. m.hidden \in Nat /\ m.inter \in Nat /\ m.vocab \in Nat /\ m.layers \in Nat
        BY <1>1, <2>2 DEF Sized
      <4>2. x \in Nat /\ m.hidden * m.vocab \in Nat
        <5>. DEFINE hh == m.hidden * m.hidden
                    hi == m.hidden * m.inter
                    ih == m.inter * m.hidden
        <5>1. hh \in Nat /\ hi \in Nat /\ ih \in Nat /\ m.hidden * m.vocab \in Nat
          BY <4>1, TimesType
        <5>2. x = 4 * hh + 2 * hi + ih
          BY <4>1
        <5>. HIDE DEF hh, hi, ih, x
        <5>3. x \in Nat
          BY <5>1, <5>2
        <5>. QED
          BY <5>1, <5>3
      <4>. HIDE DEF x
      <4>3. x \div 4 \in Nat /\ (m.hidden * m.vocab) \div 4 \in Nat
        BY <4>2
      <4>4. e \in Nat
        <5>1. (x \div 4) * m.layers \in Nat
          BY <4>1, <4>3, TimesType
        <5>. QED
          BY <4>3, <5>1
      <4>5. ResidentBytes(m, Derived(c).numPorts) = e \div G.numPorts
        BY <1>1 DEF ResidentBytes, x
      <4>. HIDE DEF e
      <4>6. e \div G.numPorts \in Nat
        BY <1>3, <4>4
      <4>. QED
        BY <4>5, <4>6, PageUpFacts
    <3>2. WtNode(c) = Max({s, r})
      BY <1>5, <2>2 DEF WtNode
    <3>. HIDE DEF r, s
    <3>3. s \in Nat
      BY <1>7 DEF s
    <3>4. CASE s <= r
      <4>1. \A y \in {s, r} : y <= r
        BY <3>1, <3>4
      <4>2. Max({s, r}) = r
        BY <3>1, <3>3, <4>1, MaxIs
      <4>. QED
        BY <3>1, <3>2, <3>4, <4>2 DEF s
    <3>5. CASE ~(s <= r)
      <4>1. \A y \in {s, r} : y <= s
        BY <3>1, <3>3, <3>5
      <4>2. Max({s, r}) = s
        BY <3>1, <3>3, <4>1, MaxIs
      <4>. QED
        BY <3>2, <3>3, <4>2 DEF s
    <3>. QED
      BY <3>4, <3>5
  <2>. QED
    BY <2>1, <2>2
<1>9. NodesHold(Needs) <=> Needs.act <= ActNode(c) /\ Needs.wt <= WtNode(c) /\ Needs.out <= OutNode(c)
  BY DEF NodesHold
<1>. QED
  BY <1>2, <1>5, <1>6, <1>7, <1>8, <1>9

\* No transfer of the sweep is more than a length register counts, or nothing.
LEMMA AllStream ==
  ASSUME MaximaStream, dep \in Deployments, ~Refused(dep), IsSweep(sweep), sweep # <<>>,
         NEW j \in 0 .. Len(sweep)
  PROVE  Streams(LoadBytes(j)) /\ Streams(ComputeBytes(j)) /\ Streams(StoreBytes(j))
<1>. DEFINE T == Tiles(dep.env.maxM)
            pb == G.portBytes
            ob == G.outLaneBytes
            N == ShapeOf(j).N
            x == Tiles(ShapeOf(j).M)
            b == Vectors(j)
            limit == 2^LengthBits
<1>1. dep.env.maxN * T * pb < limit /\ B * T * Lanes * ob < limit
  BY DEF MaximaStream, G, B, Lanes, Tiles
<1>2. /\ pb \in Nat \ {0} /\ ob \in Nat \ {0} /\ Lanes \in Nat \ {0} /\ B \in Nat \ {0}
      /\ dep.env.maxN \in Nat
  <2>1. dep.env.maxN \in Nat
    BY ParameterFacts
  <2>. QED
    BY <2>1, GeometryTypes
<1>3. /\ T \in Nat \ {0} /\ Needs.act \in Nat /\ Needs.wt \in Nat /\ Needs.out \in Nat
      /\ Needs.act <= dep.env.maxN * pb /\ Needs.wt <= dep.env.maxN * T * pb
      /\ Needs.out <= B * T * Lanes * ob
      /\ LoadBytes(j) <= Needs.act /\ ComputeBytes(j) <= Needs.wt /\ StoreBytes(j) <= Needs.out
  BY NeedsFacts
<1>4. N \in 2 .. dep.env.maxN /\ x \in 1 .. T
  BY ShapeFacts
<1>5. b \in Nat \ {0}
  BY <1>2 DEF Vectors
<1>6. LoadBytes(j) = N * pb /\ ComputeBytes(j) = N * x * pb /\ StoreBytes(j) = b * x * Lanes * ob
  BY DEF LoadBytes, ComputeBytes, StoreBytes, StoredLanes
<1>7. limit \in Nat
  BY DEF LengthBits
<1>. HIDE DEF T, pb, ob, N, x, b, limit
<1>8. \A p, q \in Nat \ {0} : p * q \in Nat \ {0}
  OBVIOUS
<1>9. N \in Nat \ {0} /\ x \in Nat \ {0}
  BY <1>2, <1>3, <1>4
<1>10. LoadBytes(j) \in Nat \ {0} /\ ComputeBytes(j) \in Nat \ {0} /\ StoreBytes(j) \in Nat \ {0}
  BY <1>2, <1>5, <1>6, <1>8, <1>9
<1>11. dep.env.maxN * pb <= dep.env.maxN * T * pb
  <2>. DEFINE y == dep.env.maxN * pb
              one == 1
  <2>1. y \in Nat /\ one \in Nat /\ one <= T /\ one * y = y /\ T \in Nat
    <3>1. y \in Nat
      BY <1>2, TimesType
    <3>. HIDE DEF y
    <3>2. T \in Nat /\ T >= 1
      BY <1>3
    <3>. QED
      BY <3>1, <3>2
  <2>. HIDE DEF y, one
  <2>2. y <= T * y
    <3>1. one * y <= T * y
      BY <2>1, TimesMonotone
    <3>. QED
      BY <2>1, <3>1
  <2>. USE DEF y
  <2>3. T * (dep.env.maxN * pb) = dep.env.maxN * T * pb
    BY <1>2, <1>3, TimesAssociative, TimesType
  <2>. QED
    BY <1>2, <2>2, <2>3, TimesType
<1>12. dep.env.maxN * pb \in Nat /\ dep.env.maxN * T * pb \in Nat /\ B * T * Lanes * ob \in Nat
  BY <1>2, <1>3, TimesType
<1>13. LoadBytes(j) < limit /\ ComputeBytes(j) < limit /\ StoreBytes(j) < limit
  <2>. DEFINE u == dep.env.maxN * pb
              v == dep.env.maxN * T * pb
              w == B * T * Lanes * ob
  <2>1. u \in Nat /\ v \in Nat /\ w \in Nat /\ u <= v /\ v < limit /\ w < limit
    BY <1>1, <1>11, <1>12
  <2>2. /\ Needs.act \in Nat /\ Needs.wt \in Nat /\ Needs.out \in Nat
        /\ Needs.act <= u /\ Needs.wt <= v /\ Needs.out <= w
        /\ LoadBytes(j) <= Needs.act /\ ComputeBytes(j) <= Needs.wt /\ StoreBytes(j) <= Needs.out
    BY <1>3
  <2>. HIDE DEF u, v, w
  <2>3. /\ LoadBytes(j) \in Nat /\ ComputeBytes(j) \in Nat /\ StoreBytes(j) \in Nat
    BY <1>10
  <2>. DEFINE x1 == LoadBytes(j)
              x2 == ComputeBytes(j)
              x3 == StoreBytes(j)
              n1 == Needs.act
              n2 == Needs.wt
              n3 == Needs.out
  <2>. HIDE DEF x1, x2, x3, n1, n2, n3
  <2>4. x1 < limit /\ x2 < limit /\ x3 < limit
    <3>1. x1 \in Nat /\ x2 \in Nat /\ x3 \in Nat /\ n1 \in Nat /\ n2 \in Nat /\ n3 \in Nat
          /\ n1 <= u /\ n2 <= v /\ n3 <= w /\ x1 <= n1 /\ x2 <= n2 /\ x3 <= n3
      BY <2>2, <2>3 DEF x1, x2, x3, n1, n2, n3
    <3>. QED
      BY <1>7, <2>1, <3>1
  <2>. QED
    BY <2>4 DEF x1, x2, x3
<1>. QED
  BY <1>7, <1>10, <1>13 DEF Streams, limit

-----------------------------------------------------------------------------
(* The data of a job, from the buffers to the accumulators.                *)

LEMMA PortOf ==
  ASSUME Wired, NEW s \in Ports
  PROVE  DmaOf(s) = s
  BY DEF Wired, DmaOf

\* Limit bounds the activations, and is less than half of what aWidth bits hold.
Limit == IF dep.signed THEN 2048 ELSE 15

LEMMA LimitFacts ==
  ASSUME dep \in Deployments, ~Refused(dep)
  PROVE  Limit \in Nat /\ Limit >= 1 /\ Limit < 2^(dep.env.aWidth - 1)
<1>. DEFINE e == dep.env.aWidth
<1>1. e \in Nat /\ e >= 8 /\ (dep.signed => e >= 16)
  <2>1. ABytes \in Nat \ {0} /\ e = 8 * ABytes
    BY GeometryFacts
  <2>. QED
    BY <2>1, ParameterFacts
<1>. HIDE DEF e
<1>2. CASE dep.signed
  <2>. DEFINE k == 15
  <2>1. k \in Nat /\ k <= e - 1 /\ e - 1 \in Nat /\ 2^k > 2048
    BY <1>1, <1>2
  <2>. HIDE DEF k
  <2>2. 2^k <= 2^(e - 1) /\ 2^k \in Nat /\ 2^(e - 1) \in Nat
    BY <2>1, PowerMonotone, PowerStep
  <2>. QED
    BY <1>2, <2>1, <2>2 DEF Limit, e
<1>3. CASE ~dep.signed
  <2>. DEFINE k == 7
  <2>1. k \in Nat /\ k <= e - 1 /\ e - 1 \in Nat /\ 2^k > 15
    BY <1>1
  <2>. HIDE DEF k
  <2>2. 2^k <= 2^(e - 1) /\ 2^k \in Nat /\ 2^(e - 1) \in Nat
    BY <2>1, PowerMonotone, PowerStep
  <2>. QED
    BY <1>3, <2>1, <2>2 DEF Limit, e
<1>. QED
  BY <1>2, <1>3

LEMMA ActValueRange ==
  ASSUME dep \in Deployments, NEW j \in Nat, NEW r \in Nat, NEW i \in Nat
  PROVE  /\ ActValue(j, r, i) \in -Limit .. Limit
         /\ ~dep.signed => ActValue(j, r, i) >= 0
<1>1. CASE j = 0
  BY <1>1 DEF ActValue, Limit
<1>2. CASE j # 0 /\ dep.signed
  <2>. DEFINE x == 1201 * i + 577 * r + 2311 * j + 97 * i * r
  <2>1. x \in Nat
    <3>1. i * r \in Nat /\ 97 * i * r = 97 * (i * r)
      BY TimesType
    <3>. QED
      BY <3>1
  <2>. HIDE DEF x
  <2>. DEFINE y == x % 4096
  <2>2. y \in 0 .. 4095
    BY <2>1
  <2>3. ActValue(j, r, i) = y - 2048
    BY <1>2 DEF ActValue, x
  <2>4. Limit = 2048
    BY <1>2 DEF Limit
  <2>. HIDE DEF y
  <2>5. y - 2048 \in -2048 .. 2048
    BY <2>2
  <2>. QED
    BY <1>2, <2>3, <2>4, <2>5
<1>3. CASE j # 0 /\ ~dep.signed
  <2>. DEFINE x == 7 * i + 5 * r + 3 * j + i * i
  <2>1. x \in Nat
    BY TimesType
  <2>. HIDE DEF x
  <2>2. x % 16 \in 0 .. 15
    BY <2>1
  <2>3. ActValue(j, r, i) = x % 16
    BY <1>3 DEF ActValue, x
  <2>. QED
    BY <1>3, <2>2, <2>3 DEF Limit
<1>. QED
  BY <1>1, <1>2, <1>3

LEMMA DrawRange ==
  ASSUME NEW j \in Nat, NEW n \in Nat, NEW m \in Nat
  PROVE  Draw(j, n, m) \in 0 .. 3
<1>. DEFINE x == m * m + n * (m + 1) + (m \div 3) + j
<1>1. x \in Nat
  <2>1. m * m \in Nat /\ n * (m + 1) \in Nat /\ m \div 3 \in Nat
    BY TimesType
  <2>. QED
    BY <2>1
<1>. HIDE DEF x
<1>2. x % 4 \in 0 .. 3
  BY <1>1
<1>. QED
  BY <1>2 DEF Draw, x

\* LOAD: the Core's activation registers hold the activations bench.c wrote.
LEMMA LoadedActivation ==
  ASSUME dep \in Deployments, Own, NEW j \in Nat, NEW r \in 0 .. B - 1, NEW n \in Nat
  PROVE  CoreAct(j, r, n) = ActValue(j, r, n)
<1>. DEFINE wide(k) == r * ABytes + k
            byte(k) == ActByte(j, DmaOf(wide(k) \div G.portBytes), n, wide(k) % G.portBytes)
            bytes == [k \in 0 .. ABytes - 1 |-> byte(k)]
            e == dep.env.aWidth
            v == ActValue(j, r, n)
            u == v % 2^e
<1>1. /\ G.portBytes \in Nat \ {0} /\ ABytes \in Nat \ {0} /\ e = 8 * ABytes /\ e \in Nat \ {0}
      /\ B \in Nat \ {0} /\ G.numPorts \in Nat \ {0} /\ r \in Nat /\ B * ABytes <= G.portBytes
  <2>1. /\ G.portBytes \in Nat \ {0} /\ ABytes \in Nat \ {0} /\ e = 8 * ABytes
        /\ B \in Nat \ {0} /\ G.numPorts \in Nat \ {0}
    BY GeometryFacts DEF Own
  <2>. QED
    BY <2>1 DEF Own, BatchInPort
<1>2. Limit \in Nat /\ Limit < 2^(e - 1) /\ v \in -Limit .. Limit /\ (~dep.signed => v >= 0)
  BY <1>1, LimitFacts, ActValueRange DEF Own
<1>. DEFINE H == 2^(e - 1)
<1>3. 2^e \in Nat \ {0} /\ H \in Nat /\ 2^e = 2 * H /\ v \in Int
  <2>1. e - 1 \in Nat /\ e = (e - 1) + 1
    BY <1>1
  <2>. HIDE DEF v
  <2>. QED
    BY <1>2, <2>1, PowerStep
<1>. HIDE DEF v
<1>4. u \in 0 .. 2^e - 1 /\ AsSigned(u, e) = v
  <2>. HIDE DEF e
  <2>. QED
    BY <1>1, <1>2, <1>3, SignedField
<1>5. ~dep.signed => u = v
  <2>. DEFINE W == 2^e
  <2>. SUFFICES ASSUME ~dep.signed PROVE v % W = v
    OBVIOUS
  <2>1. W \in Nat \ {0} /\ v >= 0 /\ v \in -W .. W - 1
    BY <1>2, <1>3
  <2>. HIDE DEF W
  <2>. QED
    BY <2>1, ModSmall
<1>. HIDE DEF u
<1>6. ASSUME NEW k \in 0 .. ABytes - 1 PROVE bytes[k] = Byte(u, k)
  <2>. DEFINE x == wide(k)
              A == ABytes
              pb == G.portBytes
  <2>1. x \in Nat /\ x < pb
    <3>1. r + 1 \in Nat /\ r + 1 <= B /\ A \in Nat /\ (r + 1) * A = r * A + A /\ r * A \in Nat
      BY <1>1, TimesType
    <3>2. (r + 1) * A <= B * A /\ B * A \in Nat
      BY <1>1, <3>1, TimesMonotone, TimesType
    <3>3. x = r * A + k /\ k \in Nat /\ k < A
      BY <1>1
    <3>. HIDE DEF x, A, pb
    <3>. QED
      BY <1>1, <3>1, <3>2, <3>3 DEF A, pb
  <2>2. x \div pb = 0 /\ x % pb = x
    <3>. DEFINE zero == 0
                m    == x
    <3>. HIDE DEF x, pb
    <3>1. zero \in Nat /\ x = zero * pb + m /\ m \in 0 .. pb - 1 /\ pb \in Nat \ {0}
      BY <1>1, <2>1 DEF pb
    <3>. HIDE DEF zero, m
    <3>2. x \div pb = zero /\ x % pb = m
      BY <3>1, DivModEq
    <3>. QED
      BY <3>2 DEF zero, m
  <2>3. x \div A = r /\ x % A = k
    <3>1. A \in Nat \ {0} /\ x = r * A + k /\ k \in 0 .. A - 1 /\ r \in Nat
      BY <1>1
    <3>. HIDE DEF x, A
    <3>. QED
      BY <3>1, DivModEq
  <2>4. DmaOf(0) = 0
    BY <1>1, PortOf DEF Own, Ports
  <2>5. bytes[k] = ActByte(j, DmaOf(x \div pb), n, x % pb)
    OBVIOUS
  <2>. HIDE DEF x, pb, bytes
  <2>6. bytes[k] = ActByte(j, 0, n, x)
    BY <2>2, <2>4, <2>5
  <2>7. ActByte(j, 0, n, x) = Byte(u, k)
    BY <1>1, <2>3 DEF ActByte, u, v, e
  <2>. QED
    BY <2>6, <2>7
<1>7. Joined(bytes, ABytes) = u
  <2>. HIDE DEF bytes, e
  <2>. DEFINE W == 2^e
  <2>1. u \in Nat /\ u \in 0 .. W - 1 /\ W \in Nat \ {0} /\ u \in -W .. W - 1
    BY <1>3, <1>4
  <2>2. Joined(bytes, ABytes) = u % 2^(8 * ABytes)
    BY <1>1, <1>6, <2>1, JoinedBytes
  <2>3. Joined(bytes, ABytes) = u % W
    BY <1>1, <2>2
  <2>. HIDE DEF W
  <2>4. u % W = u
    BY <2>1, ModSmall
  <2>. QED
    BY <2>3, <2>4
<1>8. CoreAct(j, r, n) = IF dep.signedAct THEN AsSigned(Joined(bytes, ABytes), e)
                         ELSE Joined(bytes, ABytes)
  BY DEF CoreAct
<1>. HIDE DEF bytes, e
<1>9. dep.signedAct = dep.signed
  BY DEF Own
<1>. QED
  BY <1>4, <1>5, <1>7, <1>8, <1>9 DEF v

\* COMPUTE: the lanes of column tile t are the columns from t * Lanes on.
LEMMA StreamedCode ==
  ASSUME dep \in Deployments, Own, NEW j \in Nat, NEW N \in Nat, ShapeOf(j).N = N,
         NEW n \in 0 .. N - 1, NEW t \in Nat, NEW l \in 0 .. Lanes - 1
  PROVE  CoreCode(j, t, n, l) = WtCode(j, n, t * Lanes + l)
<1>. DEFINE P == PerPort
            p == l \div P
            q == l % P
            b == t * N + n
<1>1. P \in Nat \ {0} /\ G.numPorts \in Nat \ {0} /\ Lanes = G.numPorts * P /\ Lanes \in Nat \ {0}
  <2>1. \A x \in Nat \ {0} : 4 * x \in Nat \ {0}
    OBVIOUS
  <2>. QED
    BY <2>1, GeometryFacts DEF Own
<1>2. l = P * p + q /\ p \in Nat /\ q \in 0 .. P - 1
  <2>1. l \in Nat
    BY <1>1
  <2>. HIDE DEF P
  <2>. QED
    BY <1>1, <2>1, DivModOf
<1>. HIDE DEF P, p, q
<1>3. p \in Ports
  <2>1. ASSUME G.numPorts <= p PROVE FALSE
    <3>1. G.numPorts * P <= p * P /\ p * P = P * p /\ p * P \in Nat
      BY <1>1, <1>2, <2>1, TimesMonotone, TimesType
    <3>. QED
      BY <1>1, <1>2, <3>1
  <2>. QED
    BY <1>1, <1>2, <2>1 DEF Ports
<1>4. DmaOf(p) = p
  BY <1>3, PortOf DEF Own
<1>5. b \div N = t /\ b % N = n
  <2>. DEFINE K == N
              k == n
  <2>1. K \in Nat \ {0} /\ b = t * K + k /\ k \in 0 .. K - 1 /\ t \in Nat
    OBVIOUS
  <2>. HIDE DEF b, K, k
  <2>2. b \div K = t /\ b % K = k
    BY <2>1, DivModEq
  <2>. QED
    BY <2>2 DEF K, k
<1>6. CoreCode(j, t, n, l) = BeatCode(j, p, b, q)
  BY <1>4 DEF CoreCode, p, q, P
<1>. HIDE DEF b
<1>7. BeatCode(j, p, b, q) = WtCode(j, n, t * Lanes + p * P + q)
  BY <1>5 DEF BeatCode, P
<1>8. t * Lanes + p * P + q = t * Lanes + l
  BY <1>1, <1>2, TimesType
<1>. QED
  BY <1>6, <1>7, <1>8

\* The port-order self-test: two beats of weight 1 on the lanes of the top port.
LEMMA SelfTestSum ==
  ASSUME NEW w \in {0, 1}, NEW weight, NEW act,
         \A n \in 0 .. 1 : weight[n] = w /\ act[n] = 1
  PROVE  Dot(weight, act, 2) = IF w = 1 THEN 2 ELSE 0
<1>. DEFINE N == 2
<1>1. \A n \in 0 .. N - 1 : weight[n] \in Int /\ act[n] \in Int
  OBVIOUS
<1>2. N \in Nat
  OBVIOUS
<1>. HIDE DEF N
<1>3. PICK d : /\ Dot(weight, act, N) = d[N] /\ d[0] = 0
               /\ \A k \in 1 .. N : d[k] = d[k - 1] + weight[k - 1] * act[k - 1]
  BY <1>1, <1>2, DotSteps
<1>4. d[1] = d[0] + weight[0] * act[0] /\ d[2] = d[1] + weight[1] * act[1]
  <2>1. 1 \in 1 .. N /\ 2 \in 1 .. N /\ 1 - 1 = 0 /\ 2 - 1 = 1
    BY DEF N
  <2>2. d[1] = d[1 - 1] + weight[1 - 1] * act[1 - 1]
    BY <1>3, <2>1
  <2>3. d[2] = d[2 - 1] + weight[2 - 1] * act[2 - 1]
    BY <1>3, <2>1
  <2>. QED
    BY <2>1, <2>2, <2>3
<1>5. weight[0] = w /\ weight[1] = w /\ act[0] = 1 /\ act[1] = 1
  BY DEF N
<1>6. d[2] = w * 1 + w * 1
  BY <1>3, <1>4, <1>5
<1>. QED
  BY <1>3, <1>6 DEF N

\* STORE: what is read back of an output lane is what the bench expects of it.
LEMMA OutputMatches ==
  ASSUME dep \in Deployments, Own, IsSweep(sweep), NEW j \in 0 .. Len(sweep),
         output.act = j, output.wt = j,
         NEW r \in 0 .. Vectors(j) - 1, NEW m \in 0 .. ShapeOf(j).M - 1
  PROVE  Matches(j, r, m)
<1>. DEFINE N  == ShapeOf(j).N
            M  == ShapeOf(j).M
            nO == Tiles(M) * Lanes
            lane == r * Tiles(M) * Lanes + m
            code == [n \in 0 .. N - 1 |-> CoreCode(j, m \div Lanes, n, m % Lanes)]
            act  == [n \in 0 .. N - 1 |-> CoreAct(j, r, n)]
            meant == [n \in 0 .. N - 1 |-> ActValue(j, r, n)]
            w  == G.accWidth
<1>1. /\ N \in 2 .. dep.env.maxN /\ M \in 1 .. dep.env.maxM /\ Tiles(M) \in 1 .. Tiles(dep.env.maxM)
      /\ M <= Tiles(M) * Lanes
  BY ShapeFacts DEF Own
<1>2. /\ dep.env.maxN \in Nat /\ dep.env.maxM \in Nat /\ dep.env.maxN <= dep.env.maxAcc
      /\ dep.env.maxAcc \in 1 .. 2^MaxLog
  BY ParameterFacts DEF Own
<1>3. Lanes \in Nat \ {0} /\ B \in Nat \ {0}
  BY GeometryFacts DEF Own
<1>4. /\ N \in Nat /\ N >= 2 /\ M \in Nat /\ m \in Nat /\ j \in Nat /\ r \in 0 .. B - 1 /\ r \in Nat
      /\ Tiles(M) \in Nat \ {0}
  <2>1. Vectors(j) <= B /\ Vectors(j) \in Nat
    BY <1>3 DEF Vectors
  <2>2. Tiles(dep.env.maxM) \in Nat
    BY <1>2, <1>3, TilesFacts
  <2>3. r \in 0 .. B - 1 /\ r \in Nat
    BY <1>3, <2>1
  <2>4. N \in Nat /\ N >= 2 /\ M \in Nat
    BY <1>1, <1>2
  <2>5. m \in Nat /\ j \in Nat
    BY <2>4
  <2>6. Tiles(M) \in Nat \ {0}
    BY <1>1, <2>2
  <2>. QED
    BY <2>3, <2>4, <2>5, <2>6
<1>5. nO \in Nat \ {0} /\ lane \div nO = r /\ lane % nO = m
  <2>1. nO \in Nat \ {0} /\ lane = r * nO + m /\ m \in 0 .. nO - 1
    <3>1. r * Tiles(M) * Lanes = r * nO
      BY <1>3, <1>4, TimesAssociative
    <3>. DEFINE T == Tiles(M)
    <3>2. T * Lanes \in Nat \ {0}
      <4>1. \A x, y \in Nat \ {0} : x * y \in Nat \ {0}
        OBVIOUS
      <4>. HIDE DEF T
      <4>. QED
        BY <1>3, <1>4, <4>1 DEF T
    <3>. HIDE DEF T, M
    <3>3. m \in 0 .. nO - 1
      BY <1>1, <1>4, <3>2 DEF T, M
    <3>. QED
      BY <3>1, <3>2, <3>3 DEF T
  <2>2. r \in Nat
    BY <1>4
  <2>. HIDE DEF nO, lane, M, N
  <2>. QED
    BY <2>1, <2>2, DivModEq
<1>. HIDE DEF lane
<1>6. OutLane(lane) = Accumulate(code, act, N, w)
  BY <1>5 DEF OutLane
<1>7. \A n \in 0 .. N - 1 : code[n] = WtCode(j, n, m)
  <2>. SUFFICES ASSUME NEW n \in 0 .. N - 1 PROVE CoreCode(j, m \div Lanes, n, m % Lanes) = WtCode(j, n, m)
    OBVIOUS
  <2>. DEFINE t == m \div Lanes
              l == m % Lanes
              L == Lanes
  <2>1. m = L * t + l /\ t \in Nat /\ l \in 0 .. L - 1 /\ L \in Nat \ {0}
    <3>1. L \in Nat \ {0} /\ m \in Nat
      BY <1>3, <1>4
    <3>. HIDE DEF L
    <3>2. m = L * (m \div L) + (m % L) /\ m \div L \in Nat /\ m % L \in 0 .. L - 1
      BY <3>1, DivModOf
    <3>. QED
      BY <3>1, <3>2 DEF L
  <2>. HIDE DEF t, l, L
  <2>2. t * L + l = m
    BY <2>1, TimesType
  <2>. DEFINE NN == N
  <2>3. NN \in Nat /\ ShapeOf(j).N = NN /\ n \in 0 .. NN - 1
    BY <1>4
  <2>. HIDE DEF N, NN
  <2>4. CoreCode(j, t, n, l) = WtCode(j, n, t * Lanes + l)
    BY <1>4, <2>1, <2>3, StreamedCode DEF L
  <2>. QED
    BY <2>2, <2>4 DEF t, l, L
<1>8. act = meant
  <2>. HIDE DEF N
  <2>1. \A n \in 0 .. N - 1 : CoreAct(j, r, n) = ActValue(j, r, n)
    BY <1>4, LoadedActivation
  <2>. QED
    BY <2>1
<1>9. Limit \in Nat /\ Limit < 2^(dep.env.aWidth - 1) /\ Limit >= 1
  BY LimitFacts DEF Own
<1>10. \A n \in 0 .. N - 1 : meant[n] \in -Limit .. Limit
  <2>1. \A n \in 0 .. N - 1 : n \in Nat
    BY <1>4
  <2>. HIDE DEF N
  <2>2. \A n \in 0 .. N - 1 : ActValue(j, r, n) \in -Limit .. Limit
    BY <1>4, <2>1, ActValueRange
  <2>. QED
    BY <2>2
\* The sum of N activations fits the accumulator.
<1>11. w \in Nat \ {0} /\ N * Limit < 2^(w - 1)
  <2>. DEFINE L == Log2Ceil(dep.env.maxAcc)
              e == dep.env.aWidth
              H == 2^(e - 1)
              C == 2^L
  <2>1. L \in Nat /\ C \in Nat /\ dep.env.maxAcc <= C
    <3>1. L \in 0 .. MaxLog /\ C \in Nat /\ C >= dep.env.maxAcc
      BY <1>2, LogExists
    <3>2. MaxLog \in Nat /\ dep.env.maxAcc \in Nat
      <4>1. 2^MaxLog \in Nat /\ MaxLog \in Nat
        BY PowerStep DEF MaxLog
      <4>. QED
        BY <1>2, <4>1
    <3>. HIDE DEF L, C
    <3>. QED
      BY <3>1, <3>2
  <2>2. e \in Nat \ {0} /\ w = L + e
    BY OwnGeometry, ParameterFacts DEF Own, G
  <2>. HIDE DEF w, L, e
  <2>3. w \in Nat \ {0} /\ 2^(w - 1) = C * H /\ H \in Nat
    <3>1. w \in Nat \ {0} /\ e - 1 \in Nat /\ w - 1 = L + (e - 1)
      <4>1. L \in Nat
        BY <2>1
      <4>. QED
        BY <2>2, <4>1
    <3>. DEFINE f == e - 1
    <3>. HIDE DEF f
    <3>2. 2^(L + f) = 2^L * 2^f /\ 2^f \in Nat
      BY <2>1, <3>1, PowerSum, PowerStep DEF f
    <3>. QED
      BY <3>1, <3>2 DEF f
  <2>4. N <= C
    <3>1. N \in Nat /\ N <= dep.env.maxN
      BY <1>1, <1>4
    <3>2. dep.env.maxN \in Nat /\ dep.env.maxN <= dep.env.maxAcc /\ dep.env.maxAcc \in Nat
      BY <1>2
    <3>. HIDE DEF N, C
    <3>. QED
      BY <2>1, <3>1, <3>2
  <2>. HIDE DEF N, C
  <2>5. Limit < H
    BY <1>9 DEF e
  <2>. HIDE DEF H
  <2>6. N * Limit <= C * Limit /\ C * Limit \in Nat /\ N * Limit \in Nat
    BY <1>4, <1>9, <2>1, <2>4, TimesMonotone, TimesType
  <2>7. C * Limit < C * H
    <3>. DEFINE k == Limit + 1
    <3>1. k * C <= H * C /\ k * C = Limit * C + C /\ Limit * C = C * Limit /\ H * C = C * H
          /\ H * C \in Nat
      <4>1. k \in Nat /\ k <= H /\ H \in Nat
        BY <1>9, <2>3, <2>5
      <4>2. k * C = Limit * C + C
        BY <1>9, <2>1
      <4>. HIDE DEF k
      <4>3. k * C <= H * C
        BY <2>1, <4>1, TimesMonotone
      <4>. QED
        BY <1>9, <2>1, <4>1, <4>2, <4>3, TimesType
    <3>2. C > 0
      BY <1>4, <2>1, <2>4
    <3>. HIDE DEF k
    <3>. QED
      BY <1>9, <2>1, <2>6, <3>1, <3>2
  <2>. QED
    BY <2>3, <2>6, <2>7
<1>. DEFINE got == ExpandAcc(Accumulate(code, meant, N, w), w)
<1>12. ASSUME NEW weight, \A n \in 0 .. N - 1 : weight[n] = Weight(WtCode(j, n, m))
       PROVE  got = Dot(weight, meant, N)
  <2>1. TermsWithin(Limit, N, code, weight, meant)
    <3>. HIDE DEF code, meant
    <3>. QED
      BY <1>7, <1>10, <1>12 DEF TermsWithin
  <2>2. N \in Nat /\ w \in Nat \ {0} /\ Limit \in Nat /\ N * Limit < 2^(w - 1)
    BY <1>4, <1>9, <1>11
  <2>. HIDE DEF code, meant, N, w
  <2>3. ExpandAcc(Accumulate(code, meant, N, w), w) = Dot(weight, meant, N)
    BY <2>1, <2>2, ExactProduct
  <2>. QED
    BY <2>3
<1>13. got = Expected(j, r, m)
  <2>1. CASE j # 0
    <3>. DEFINE weight == [n \in 0 .. N - 1 |-> <<0, 1, 0, -1>>[Draw(j, n, m) + 1]]
    <3>1. ASSUME NEW n \in 0 .. N - 1 PROVE weight[n] = Weight(WtCode(j, n, m))
      <4>1. n \in Nat /\ m < ShapeOf(j).M
        BY <1>4
      <4>2. Draw(j, n, m) \in {0, 1, 2, 3}
        BY <1>4, <4>1, DrawRange
      <4>3. WtCode(j, n, m) = <<0, 1, 0, 3>>[Draw(j, n, m) + 1]
        BY <1>4, <2>1, <4>1 DEF WtCode
      <4>. DEFINE x == Draw(j, n, m)
      <4>. HIDE DEF x
      <4>4. <<0, 1, 0, -1>>[x + 1] = Weight(<<0, 1, 0, 3>>[x + 1])
        BY <4>2 DEF Weight, x
      <4>. QED
        BY <4>3, <4>4 DEF x
    <3>2. Expected(j, r, m) = Dot(weight, meant, N)
      BY <2>1 DEF Expected
    <3>. HIDE DEF weight, got
    <3>. QED
      BY <1>12, <3>1, <3>2
  <2>2. CASE j = 0
    <3>. DEFINE x == IF m >= HiBase THEN 1 ELSE 0
                weight == [n \in 0 .. N - 1 |-> x]
    <3>1. N = 2 /\ r = 0 /\ m < ShapeOf(j).M
      BY <1>4, <2>2 DEF ShapeOf, Vectors
    <3>2. \A n \in 0 .. N - 1 : weight[n] = Weight(WtCode(j, n, m))
      BY <1>4, <2>2, <3>1 DEF WtCode, Weight
    <3>3. got = Dot(weight, meant, N)
      <4>. HIDE DEF weight, got
      <4>. QED
        BY <1>12, <3>2
    <3>4. \A n \in 0 .. 1 : weight[n] = x /\ meant[n] = 1
      BY <2>2, <3>1 DEF ActValue
    <3>5. x \in {0, 1}
      OBVIOUS
    <3>. HIDE DEF x, weight, meant
    <3>6. Dot(weight, meant, 2) = IF x = 1 THEN 2 ELSE 0
      BY <3>4, <3>5, SelfTestSum
    <3>7. Expected(j, r, m) = IF m >= HiBase THEN 2 ELSE 0
      BY <2>2, <3>1 DEF Expected
    <3>8. (IF x = 1 THEN 2 ELSE 0) = (IF m >= HiBase THEN 2 ELSE 0)
      BY DEF x
    <3>. QED
      BY <3>1, <3>3, <3>6, <3>7, <3>8
  <2>. QED
    BY <2>1, <2>2
<1>14. ExpandAcc(OutLane(lane), w) = Expected(j, r, m)
  BY <1>6, <1>8, <1>13
<1>. QED
  BY <1>14 DEF Matches, lane

LEMMA Products ==
  ASSUME dep \in Deployments, Own, IsSweep(sweep), NEW j \in 0 .. Len(sweep),
         output.act = j, output.wt = j
  PROVE  Mismatches(j) = {}
<1>1. \A o \in (0 .. Vectors(j) - 1) \X (0 .. ShapeOf(j).M - 1) : Matches(j, o[1], o[2])
  BY OutputMatches
<1>. QED
  BY <1>1 DEF Mismatches

\* The DMAs can count every transfer of the self-test and of the sweep.
SweepStreams ==
  \A j \in 0 .. Len(sweep) :
    Streams(LoadBytes(j)) /\ Streams(ComputeBytes(j)) /\ Streams(StoreBytes(j))

\* The property, that a program that is still configuring has no sweep, and that
\* the sweep stays one when the program has ended.
Passing ==
  /\ phase = "config" => sweep = <<>>
  /\ sweep # <<>> => ~Refused(dep) /\ IsSweep(sweep)
  /\ SweepStreams => OwnBenchPasses

LEMMA PassingNext ==
  ASSUME BenchInv, Passing, [Next]_vars
  PROVE  Passing'
<1>. DEFINE Passed == SweepStreams /\ Own /\ ~fault /\ sweep # <<>> => failed = 0
<1>1. dep \in Deployments /\ dep' = dep
  BY DEF BenchInv, Typed, Next, vars, Configure, Open, OpenBuffers, Fill, Load, Compute, Store, Check
<1>2. Own' = Own
  BY <1>1 DEF Own, Wired, BatchInPort, Ports, B, ABytes, G
<1>3. sweep' = sweep => SweepStreams' = SweepStreams
  BY <1>1 DEF SweepStreams, LoadBytes, ComputeBytes, StoreBytes, StoredLanes, Vectors, ShapeOf, Tiles,
              Lanes, B, G
<1>4. (SweepStreams => OwnBenchPasses) <=> Passed
  BY DEF OwnBenchPasses, Own
<1>5. ASSUME Passed', phase' # "config" \/ UNCHANGED <<phase, sweep>> PROVE Passing'
  <2>1. (SweepStreams => OwnBenchPasses)'
    BY <1>5 DEF OwnBenchPasses, Own
  <2>2. (phase = "config" => sweep = <<>>)'
    BY <1>5 DEF Passing
  <2>3. sweep' # <<>> => (~Refused(dep) /\ IsSweep(sweep))'
    <3>1. CASE sweep' = sweep
      BY <1>1, <3>1, SameSweep DEF Passing
    <3>2. CASE sweep' # sweep
      <4>1. phase' = "open"
        BY <3>2 DEF Next, vars, Configure, Open, OpenBuffers, Fill, Load, Compute, Store, Check
      <4>. QED
        BY <4>1, BenchNext DEF BenchInv, Prepared
    <3>. QED
      BY <3>1, <3>2
  <2>. QED
    BY <2>1, <2>2, <2>3 DEF Passing
<1>6. CASE Configure
  <2>1. phase = "config" /\ phase' # "config" /\ failed' \in {failed, 2}
        /\ (failed' = failed \/ sweep' = sweep)
    BY <1>6 DEF Configure, Exit
  <2>2. failed = 0 /\ sweep = <<>>
    BY <2>1 DEF BenchInv, Prepared, Counted, Passing
  <2>. QED
    BY <1>5, <2>1, <2>2
<1>7. ASSUME phase' # "config" \/ UNCHANGED <<phase, sweep>>, UNCHANGED <<sweep, failed, fault>>
      PROVE  Passing'
  BY <1>2, <1>3, <1>4, <1>5, <1>7 DEF Passing
<1>8. ASSUME phase' # "config", UNCHANGED sweep, fault' \/ ~(SweepStreams /\ Own /\ sweep # <<>>)
      PROVE  Passing'
  BY <1>2, <1>3, <1>5, <1>8
<1>9. CASE Open
  <2>1. /\ phase' # "config" /\ UNCHANGED sweep
        /\ UNCHANGED <<failed, fault>> \/ fault'
    BY <1>9 DEF Open, Exit
  <2>. QED
    BY <1>7, <1>8, <2>1
<1>10. CASE OpenBuffers
  <2>1. /\ phase' # "config" /\ UNCHANGED sweep /\ phase = "buffers"
        /\ UNCHANGED <<failed, fault>> \/ fault' = NodesHold(Needs)
    BY <1>10 DEF OpenBuffers, Exit
  <2>2. Own /\ sweep # <<>> => NodesHold(Needs)
    <3>1. IsSweep(sweep)
      BY <2>1 DEF BenchInv, Prepared
    <3>. QED
      BY <1>1, <3>1, NodesSuffice DEF Own
  <2>. QED
    BY <1>7, <1>8, <2>1, <2>2
<1>11. CASE Fill
  BY <1>7, <1>11 DEF Fill
<1>12. ASSUME NEW bytes \in {LoadBytes(job), ComputeBytes(job), StoreBytes(job)},
              OpFails(bytes), UNCHANGED sweep
       PROVE  Passing'
  <2>1. phase' = "exit" /\ fault' = Streams(bytes)
    BY <1>12 DEF OpFails, Exit
  <2>2. SweepStreams => Streams(bytes)
    <3>1. job \in 0 .. Len(sweep)
      BY DEF BenchInv, Typed
    <3>. QED
      BY <1>12, <3>1 DEF SweepStreams
  <2>. QED
    BY <1>8, <1>12, <2>1, <2>2
<1>13. CASE Load
  BY <1>7, <1>12, <1>13 DEF Load
<1>14. CASE Compute
  BY <1>7, <1>12, <1>14 DEF Compute
<1>15. CASE Store
  BY <1>7, <1>12, <1>15 DEF Store
<1>16. CASE Check
  <2>1. phase = "check" /\ phase' # "config" /\ UNCHANGED <<sweep, fault>>
    BY <1>16 DEF Check
  <2>2. failed' = failed \/ Mismatches(job) # {}
    BY <1>16 DEF Check, Count
  <2>3. Own => Mismatches(job) = {}
    <3>1. IsSweep(sweep) /\ job \in 0 .. Len(sweep) /\ output.act = job /\ output.wt = job
      BY <2>1 DEF BenchInv, Prepared, Typed, Contents
    <3>. QED
      BY <1>1, <3>1, Products
  <2>. QED
    BY <1>7, <1>8, <2>1, <2>2, <2>3
<1>17. CASE UNCHANGED vars
  BY <1>7, <1>17 DEF vars
<1>. QED
  BY <1>6, <1>9, <1>10, <1>11, <1>13, <1>14, <1>15, <1>16, <1>17 DEF Next

LEMMA PassingInvariance == Spec => []Passing
<1>1. Init => Passing
  BY DEF Init, Passing, OwnBenchPasses
<1>2. BenchInv /\ Passing /\ [Next]_vars => Passing'
  BY PassingNext
<1>. QED
  BY <1>1, <1>2, BenchInvariance, PTL DEF Spec

\* On its own bitstream, wired in order, with the right PE arithmetic and a batch
\* that one port's slice holds, the bench ends without a failed shape unless a
\* device fails or the sweep asks for a transfer that the DMAs cannot count:
\* bench.c's packing, CoreTop's join of the ports, the PEs' sums and expand_acc are
\* together ref_matmul, of every activation it can make up.
THEOREM OwnBenchStreamed == Spec => [](SweepStreams => OwnBenchPasses)
<1>1. Passing => (SweepStreams => OwnBenchPasses)
  BY DEF Passing
<1>. QED
  BY <1>1, PassingInvariance, PTL

\* The same of geometries whose largest shape the DMAs can count, whatever the sweep.
THEOREM OwnBench ==
  ASSUME MaximaStream
  PROVE  Spec => []OwnBenchPasses
<1>1. BenchInv /\ Passing => OwnBenchPasses
  <2>. SUFFICES ASSUME BenchInv, Passing, sweep # <<>> PROVE OwnBenchPasses
    BY DEF OwnBenchPasses
  <2>1. dep \in Deployments /\ ~Refused(dep) /\ IsSweep(sweep)
    BY DEF BenchInv, Typed, Passing
  <2>2. SweepStreams
    BY <2>1, AllStream DEF SweepStreams
  <2>. QED
    BY <2>2 DEF Passing
<1>. QED
  BY <1>1, BenchInvariance, PassingInvariance, PTL

=============================================================================
