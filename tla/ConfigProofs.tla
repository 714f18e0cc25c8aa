---------------------------- MODULE ConfigProofs ----------------------------
(***************************************************************************)
(* The arithmetic the proofs about geometries rest on, and the geometry    *)
(* that the Core and a host derive from the same parameters.               *)
(***************************************************************************)
EXTENDS HostGeometry, Sequences, FiniteSetTheorems, NaturalsInduction, WellFoundedInduction, TLAPS

-----------------------------------------------------------------------------
(* Arithmetic.                                                             *)

LEMMA TimesType ==
  ASSUME NEW a \in Nat, NEW b \in Nat
  PROVE  a * b \in Nat /\ a * b = b * a
  OBVIOUS

LEMMA DivModIs ==
  ASSUME NEW N \in Nat \ {0}, NEW q \in Nat, NEW m \in 0 .. N - 1
  PROVE  (q * N + m) \div N = q /\ (q * N + m) % N = m
  OBVIOUS

LEMMA DivModEq ==
  ASSUME NEW N \in Nat \ {0}, NEW q \in Nat, NEW m \in 0 .. N - 1, NEW x, x = q * N + m
  PROVE  x \div N = q /\ x % N = m
  BY DivModIs

LEMMA DivModOf ==
  ASSUME NEW N \in Nat \ {0}, NEW k \in Nat
  PROVE  k = N * (k \div N) + (k % N) /\ k \div N \in Nat /\ k % N \in 0 .. N - 1
  OBVIOUS

LEMMA TimesMonotone ==
  ASSUME NEW a \in Nat, NEW b \in Nat, NEW c \in Nat, a <= b
  PROVE  a * c <= b * c
  OBVIOUS

LEMMA TimesAssociative ==
  ASSUME NEW a \in Nat, NEW b \in Nat, NEW c \in Nat
  PROVE  a * (b * c) = (a * b) * c
  OBVIOUS

\* Row n of tile t comes before the end of the last tile.
LEMMA BeatBelow ==
  ASSUME NEW N \in Nat, NEW T \in Nat, NEW t \in 0 .. T - 1, NEW n \in 0 .. N - 1
  PROVE  t * N + n + 1 <= T * N /\ t * N + n \in Nat
<1>1. (t + 1) * N <= T * N /\ (t + 1) * N = t * N + N /\ t * N \in Nat /\ T * N \in Nat
  BY TimesMonotone, TimesType
<1>. QED
  BY <1>1

LEMMA ElementType ==
  ASSUME NEW S, NEW s \in Seq(S), NEW k \in 1 .. Len(s)
  PROVE  s[k] \in S
  OBVIOUS

LEMMA MaxIs ==
  ASSUME NEW S \in SUBSET Nat, NEW x \in S, \A y \in S : y <= x
  PROVE  Max(S) = x
<1>1. \A y \in S : x >= y
  OBVIOUS
<1>2. \A z \in S : (\A y \in S : z >= y) => z = x
  OBVIOUS
<1>. QED
  BY <1>1, <1>2 DEF Max

LEMMA MinIs ==
  ASSUME NEW S \in SUBSET Nat, NEW x \in S, \A y \in S : x <= y
  PROVE  Min(S) = x
<1>1. \A z \in S : (\A y \in S : z <= y) => z = x
  OBVIOUS
<1>. QED
  BY <1>1 DEF Min

LEMMA LogExists ==
  ASSUME NEW x \in 1 .. 2^MaxLog
  PROVE  Log2Ceil(x) \in 0 .. MaxLog /\ 2^Log2Ceil(x) \in Nat /\ 2^Log2Ceil(x) >= x
<1>. DEFINE T == {e \in 0 .. MaxLog : 2^e >= x}
<1>1. MaxLog \in T /\ T \subseteq Nat
  BY DEF MaxLog
<1>2. PICK e \in T : \A y \in T : ~(<<y, e>> \in OpToRel(<, Nat))
  BY <1>1, NatLessThanWellFounded, WFMin
<1>3. \A y \in T : ~(y < e)
  BY <1>1, <1>2 DEF OpToRel
<1>4. \A k \in Nat : 2^k \in Int
  OBVIOUS
<1>5. e = 0 \/ 2^(e - 1) < x
  <2>1. ASSUME e # 0 PROVE e - 1 \in 0 .. MaxLog /\ e - 1 \in Nat /\ e - 1 < e
    BY <1>1, <2>1 DEF MaxLog
  <2>. QED
    BY <1>3, <1>4, <2>1
<1>6. Log2Ceil(x) \in 0 .. MaxLog /\ 2^Log2Ceil(x) >= x
  BY <1>2, <1>5 DEF Log2Ceil
<1>. QED
  BY <1>4, <1>6 DEF MaxLog

\* Whole tiles of an array with L lanes.
LEMMA TilesType ==
  ASSUME NEW d, d.outLanesPerTile \in Nat \ {0}, NEW m \in Nat
  PROVE  NumColTiles(d, m) \in Nat
  BY DEF NumColTiles, CeilDiv

\* The width of an accumulator, and the power of two that holds it.
LEMMA AccFacts ==
  ASSUME NEW a \in Nat, NEW x \in Nat, x > 0, x <= 2^MaxLog, a + MaxLog <= 2^MaxLog, a > 0
  PROVE  Log2Ceil(x) + a \in Nat /\ NextPow2(Log2Ceil(x) + a) \in Nat
<1>1. Log2Ceil(x) \in 0 .. MaxLog
  <2>1. x \in 1 .. 2^MaxLog
    BY DEF MaxLog
  <2>. QED
    BY <2>1, LogExists
<1>2. Log2Ceil(x) + a \in 1 .. 2^MaxLog
  BY <1>1 DEF MaxLog
<1>. QED
  BY <1>2, LogExists DEF NextPow2

\* Induction over a set.
LEMMA Induct ==
  ASSUME NEW n \in Nat, NEW P, 0 \in P, \A k \in 1 .. n : k - 1 \in P => k \in P
  PROVE  \A k \in 0 .. n : k \in P
<1>. SUFFICES ASSUME NEW bad \in 0 .. n, bad \notin P PROVE FALSE
  OBVIOUS
<1>. DEFINE S == (0 .. n) \ P
<1>1. bad \in S /\ S \subseteq Nat
  OBVIOUS
<1>2. PICK m \in S : \A y \in S : ~(<<y, m>> \in OpToRel(<, Nat))
  BY <1>1, NatLessThanWellFounded, WFMin
<1>3. \A y \in S : ~(y < m)
  BY <1>1, <1>2 DEF OpToRel
<1>4. m # 0 /\ m - 1 \in 0 .. n /\ m \in 1 .. n
  OBVIOUS
<1>. QED
  BY <1>3, <1>4

\* f starts at `first` and goes on by the steps, up to n.
Recursive(f, n, S, first, step) ==
  f \in [0 .. n -> S] /\ f[0] = first /\ \A k \in 1 .. n : f[k] = step[k][f[k - 1]]

LEMMA RecursionExists ==
  ASSUME NEW n \in Nat, NEW S, NEW first \in S, NEW step \in [Nat -> [S -> S]]
  PROVE  \E f : Recursive(f, n, S, first, step)
<1>. DEFINE Rec(f, m) == Recursive(f, m, S, first, step)
            P == {m \in Nat : \E f : Rec(f, m)}
<1>1. 0 \in P
  <2>1. Rec([k \in 0 .. 0 |-> first], 0)
    BY DEF Recursive
  <2>. QED
    BY <2>1
<1>2. ASSUME NEW k \in 1 .. n, k - 1 \in P PROVE k \in P
  <2>1. PICK f : Rec(f, k - 1)
    BY <1>2
  <2>. DEFINE last == step[k][f[k - 1]]
              g == [i \in 0 .. k |-> IF i = k THEN last ELSE f[i]]
  <2>2. k - 1 \in 0 .. k - 1 /\ f[k - 1] \in S
    BY <2>1 DEF Recursive
  <2>3. last \in S
    <3>1. step[k] \in [S -> S]
      OBVIOUS
    <3>. QED
      BY <2>2, <3>1
  <2>. HIDE DEF last
  <2>4. g \in [0 .. k -> S] /\ g[0] = first
    BY <2>1, <2>3 DEF Recursive
  <2>5. \A i \in 1 .. k - 1 : g[i] = step[i][g[i - 1]]
    BY <2>1 DEF Recursive
  <2>6. g[k] = step[k][g[k - 1]]
    BY <2>2 DEF last
  <2>7. \A i \in 1 .. k : i = k \/ i \in 1 .. k - 1
    OBVIOUS
  <2>8. \A i \in 1 .. k : g[i] = step[i][g[i - 1]]
    BY <2>5, <2>6, <2>7
  <2>9. Rec(g, k)
    BY <2>4, <2>8 DEF Recursive
  <2>. HIDE DEF Rec, g
  <2>. QED
    BY <2>9
<1>3. n \in P
  <2>. HIDE DEF P, Rec
  <2>1. \A k \in 0 .. n : k \in P
    BY <1>1, <1>2, Induct
  <2>. QED
    BY <2>1
<1>. QED
  BY <1>3

\* A bounded set has a largest element.
LEMMA MaxExists ==
  ASSUME NEW n \in Nat, NEW S \in SUBSET (0 .. n), NEW s \in S
  PROVE  Max(S) \in S /\ \A y \in S : y <= Max(S)
<1>. DEFINE U == {u \in 0 .. n : \A y \in S : y <= u}
<1>1. n \in U /\ U \subseteq Nat
  OBVIOUS
<1>2. PICK m \in U : \A y \in U : ~(<<y, m>> \in OpToRel(<, Nat))
  BY <1>1, NatLessThanWellFounded, WFMin
<1>3. \A y \in U : ~(y < m)
  BY <1>1, <1>2 DEF OpToRel
<1>4. m \in S
  <2>. SUFFICES ASSUME m \notin S PROVE FALSE
    OBVIOUS
  <2>1. \A y \in S : y < m
    OBVIOUS
  <2>2. m - 1 \in U
    BY <2>1
  <2>. QED
    BY <1>3, <2>2
<1>. QED
  BY <1>4, MaxIs

\* Powers of two, from Cardinality(SUBSET S) = 2^Cardinality(S).
LEMMA PowerStep ==
  ASSUME NEW n \in Nat
  PROVE  2^n \in Nat \ {0} /\ 2^(n + 1) = 2 * 2^n
<1>. DEFINE A == 1 .. n
            x == n + 1
            T == {X \cup {x} : X \in SUBSET A}
            f == [X \in SUBSET A |-> X \cup {x}]
<1>1. IsFiniteSet(A) /\ Cardinality(A) = n
  BY FS_Interval
<1>2. IsFiniteSet(1 .. n + 1) /\ Cardinality(1 .. n + 1) = n + 1
  BY FS_Interval
<1>3. IsFiniteSet(SUBSET A) /\ Cardinality(SUBSET A) = 2^n
  BY <1>1, FS_SUBSET
<1>4. Cardinality(SUBSET (1 .. n + 1)) = 2^(n + 1)
  BY <1>2, FS_SUBSET
<1>5. SUBSET (1 .. n + 1) = (SUBSET A) \cup T /\ (SUBSET A) \cap T = {}
  <2>1. 1 .. n + 1 = A \cup {x} /\ x \notin A
    OBVIOUS
  <2>. HIDE DEF A, x
  <2>2. ASSUME NEW X \in SUBSET (A \cup {x}), x \in X PROVE X \in T
    <3>1. X \ {x} \in SUBSET A /\ X = (X \ {x}) \cup {x}
      BY <2>2
    <3>. QED
      BY <3>1
  <2>3. \A X \in SUBSET (A \cup {x}) : x \notin X => X \in SUBSET A
    OBVIOUS
  <2>4. \A X \in T : x \in X /\ X \in SUBSET (A \cup {x})
    OBVIOUS
  <2>. QED
    BY <2>1, <2>2, <2>3, <2>4
<1>6. f \in Bijection(SUBSET A, T)
  <2>1. x \notin A
    OBVIOUS
  <2>. HIDE DEF A, x
  <2>2. ASSUME NEW X \in SUBSET A, NEW Y \in SUBSET A, X \cup {x} = Y \cup {x} PROVE X = Y
    BY <2>1, <2>2
  <2>3. f \in [SUBSET A -> T]
    OBVIOUS
  <2>4. \A a, b \in DOMAIN f : f[a] = f[b] => a = b
    BY <2>2
  <2>5. \A t \in T : \E X \in SUBSET A : f[X] = t
    OBVIOUS
  <2>. HIDE DEF T, f
  <2>. QED
    BY <2>3, <2>4, <2>5 DEF Bijection, Injection, Surjection, IsInjective
<1>7. IsFiniteSet(T) /\ Cardinality(T) = 2^n
  BY <1>3, <1>6, FS_Bijection DEF ExistsBijection
<1>. HIDE DEF A, T
<1>8. Cardinality(SUBSET (1 .. n + 1)) = 2^n + 2^n - Cardinality({})
  BY <1>3, <1>5, <1>7, FS_Union
<1>9. 2^n \in Nat /\ 2^n # 0
  <2>1. {} \in SUBSET A
    OBVIOUS
  <2>. QED
    BY <1>3, <2>1, FS_CardinalityType, FS_EmptySet
<1>. QED
  BY <1>4, <1>8, <1>9, FS_EmptySet

LEMMA PowerSum ==
  ASSUME NEW a \in Nat, NEW b \in Nat
  PROVE  2^(a + b) = 2^a * 2^b
<1>. DEFINE P == {k \in Nat : 2^(a + k) = 2^a * 2^k}
<1>1. 0 \in P
  BY PowerStep
<1>2. ASSUME NEW k \in 1 .. b, k - 1 \in P PROVE k \in P
  <2>. DEFINE j == k - 1
  <2>1. j \in Nat /\ k = j + 1 /\ a + k = (a + j) + 1 /\ a + j \in Nat
    OBVIOUS
  <2>2. 2^(a + j) = 2^a * 2^j
    BY <1>2
  <2>. HIDE DEF j
  <2>3. 2^(a + k) = 2 * 2^(a + j) /\ 2^k = 2 * 2^j
    BY <2>1, PowerStep
  <2>4. 2^a \in Nat /\ 2^j \in Nat
    BY <2>1, PowerStep
  <2>5. 2 * (2^a * 2^j) = 2^a * (2 * 2^j)
    BY <2>4, TimesAssociative, TimesType
  <2>. QED
    BY <2>1, <2>2, <2>3, <2>5
<1>. HIDE DEF P
<1>3. b \in P
  BY <1>1, <1>2, Induct
<1>. QED
  BY <1>3 DEF P

LEMMA PowerMonotone ==
  ASSUME NEW a \in Nat, NEW b \in Nat, a <= b
  PROVE  2^a <= 2^b
<1>1. b - a \in Nat /\ b = a + (b - a)
  OBVIOUS
<1>2. 2^b = 2^a * 2^(b - a) /\ 2^a \in Nat \ {0} /\ 2^(b - a) \in Nat \ {0}
  BY <1>1, PowerSum, PowerStep
<1>3. \A x, y \in Nat \ {0} : x <= x * y
  OBVIOUS
<1>. QED
  BY <1>2, <1>3

-----------------------------------------------------------------------------
(* The derivations.                                                        *)

\* A host's derivation.
LEMMA HostFacts ==
  ASSUME NEW e, Sized(e), GeomInit(e) # None
  PROVE  LET Host == GeomInit(e) IN
         /\ Host.numPorts \in Nat \ {0} /\ Host.portBytes \in Nat /\ Host.outLanesPerTile \in Nat
         /\ Host.outLaneBytes \in Nat /\ Host.accWidth \in Nat
<1>. DEFINE Host == GeomInit(e)
            bits == e.xDim * e.aWidth
            acc == Log2Ceil(e.maxAcc) + e.aWidth
<1>1. /\ e.aWidth \in Nat \ {0} /\ e.xDim \in Nat \ {0} /\ e.maxAcc \in Nat \ {0}
      /\ e.maxAcc <= 2^MaxLog /\ e.aWidth + MaxLog <= 2^MaxLog
  BY DEF Sized, GeomInit
<1>2. bits \in Nat /\ acc \in Nat /\ NextPow2(acc) \in Nat
  BY <1>1, TimesType, AccFacts
<1>3. Max({8, NextPow2(acc)}) \in Nat
  <2>1. CASE NextPow2(acc) <= 8
    BY <1>2, <2>1, MaxIs
  <2>2. CASE ~(NextPow2(acc) <= 8)
    <3>. HIDE DEF acc
    <3>. DEFINE w == NextPow2(acc)
    <3>1. w \in Nat /\ 8 <= w
      BY <1>2, <2>2
    <3>. QED
      BY <3>1, MaxIs
  <2>. QED
    BY <2>1, <2>2
<1>. DEFINE ports == IF bits <= 128 THEN 1 ELSE bits \div 128
<1>4. ports \in Nat \ {0}
  BY <1>2
<1>5. (bits \div 8) \div ports \in Nat
  BY <1>2, <1>4
<1>6. e.aWidth \div 2 \in Nat
  BY <1>1
<1>7. e.xDim * (e.aWidth \div 2) \in Nat
  BY <1>1, <1>6, TimesType
<1>8. Host = [outLanesPerTile |-> e.xDim * (e.aWidth \div 2), accWidth |-> acc,
              numPorts |-> ports, portBytes |-> (bits \div 8) \div ports,
              outLaneBytes |-> Max({8, NextPow2(acc)}) \div 8]
  BY DEF GeomInit
<1>. HIDE DEF bits, acc, ports, Host
<1>. QED
  BY <1>2, <1>3, <1>4, <1>5, <1>7, <1>8 DEF Host

\* The Core's derivation.
LEMMA HwFacts ==
  ASSUME NEW c, Sized(c), Elaborates(c)
  PROVE  LET Hw == Derived(c) IN
         /\ Hw.outLanesPerTile = c.xDim * (c.aWidth \div 2)
         /\ Hw.outLanesPerTile \in Nat \ {0} /\ Hw.outBeatLanes \in Nat \ {0}
         /\ Hw.outLanesPerTile % Hw.outBeatLanes = 0
         /\ Hw.accWidth = Log2Ceil(c.maxAcc) + c.aWidth /\ Hw.accWidth \in Nat
         /\ NextPow2(Hw.accWidth) \in Nat /\ Hw.outLaneBytes = NextPow2(Hw.accWidth) \div 8
<1>. DEFINE Hw == Derived(c)
            acc == Log2Ceil(c.maxAcc) + c.aWidth
            lanes == c.xDim * (c.aWidth \div 2)
            beat == IF c.outBeatLanes = 0 THEN lanes ELSE c.outBeatLanes
<1>1. /\ c.aWidth \in Nat /\ c.maxAcc \in Nat /\ c.xDim \in Nat /\ c.outBeatLanes \in Nat
      /\ c.maxAcc <= 2^MaxLog /\ c.aWidth + MaxLog <= 2^MaxLog
  BY DEF Sized
<1>2. c.aWidth >= 2 /\ c.maxAcc >= 2 /\ c.xDim >= 1 /\ lanes % beat = 0
  BY DEF Elaborates, Derived
<1>3. lanes \in Nat \ {0} /\ beat \in Nat \ {0}
  <2>1. c.aWidth \div 2 \in Nat \ {0}
    BY <1>1, <1>2
  <2>2. \A p, q \in Nat \ {0} : p * q \in Nat \ {0}
    OBVIOUS
  <2>. QED
    BY <1>1, <1>2, <2>1, <2>2
<1>4. acc \in Nat /\ NextPow2(acc) \in Nat
  BY <1>1, <1>2, AccFacts
<1>5. /\ Hw.outLanesPerTile = lanes /\ Hw.accWidth = acc /\ Hw.outBeatLanes = beat
      /\ Hw.outLaneBytes = NextPow2(acc) \div 8
  BY DEF Derived
<1>. HIDE DEF acc, lanes, beat, Hw
<1>6. Hw.outLanesPerTile \in Nat \ {0} /\ Hw.outBeatLanes \in Nat \ {0}
      /\ Hw.outLanesPerTile % Hw.outBeatLanes = 0 /\ Hw.accWidth \in Nat
      /\ NextPow2(Hw.accWidth) \in Nat /\ Hw.outLaneBytes = NextPow2(Hw.accWidth) \div 8
  BY <1>2, <1>3, <1>4, <1>5
<1>. QED
  BY <1>5, <1>6 DEF acc, lanes, Hw

\* The widths of one row of the array, which is what a beat carries as long as the
\* batch is not wider.
LEMMA BeatFacts ==
  ASSUME NEW c, Sized(c), c.batch <= c.xDim
  PROVE  LET Hw   == Derived(c)
             bits == c.xDim * c.aWidth
         IN /\ bits \in Nat /\ Hw.axisDataWidth = bits
            /\ Hw.numPorts = IF bits <= 128 THEN 1 ELSE Min({4, CeilDiv(bits, 128)})
            /\ Hw.portBytes = (bits \div Hw.numPorts) \div 8
<1>1. c.aWidth \in Nat /\ c.xDim \in Nat /\ c.batch \in Nat
  BY DEF Sized
<1>2. Max({c.xDim, c.batch}) = c.xDim
  BY <1>1, MaxIs
<1>3. c.xDim * c.aWidth \in Nat
  BY <1>1, TimesType
<1>. DEFINE Hw == Derived(c)
            bits == c.xDim * c.aWidth
            ports == IF bits <= 128 THEN 1 ELSE Min({4, CeilDiv(bits, 128)})
<1>4. Hw.axisDataWidth = bits /\ Hw.numPorts = ports /\ Hw.portBytes = (bits \div ports) \div 8
  BY <1>2 DEF Derived, PortBits, MaxInPorts
<1>. HIDE DEF ports, Hw
<1>5. Hw.portBytes = (bits \div Hw.numPorts) \div 8
  BY <1>4
<1>. QED
  BY <1>3, <1>4, <1>5 DEF ports, Hw

\* Cutting a beat into ports and then into bytes, or first into bytes.
LEMMA PortBytesIs ==
  ASSUME NEW bits \in Nat, NEW p \in Nat \ {0}, p = 1 \/ bits = 128 * p
  PROVE  (bits \div 8) \div p = (bits \div p) \div 8
<1>1. CASE p = 1
  BY <1>1
<1>2. CASE bits = 128 * p
  <2>1. bits = 8 * (16 * p) + 0 /\ 16 * p \in Nat
    BY <1>2
  <2>2. bits \div 8 = 16 * p
    BY <2>1
  <2>3. (16 * p + 0) \div p = 16 /\ (128 * p + 0) \div p = 128
    BY DivModIs
  <2>. QED
    BY <1>2, <2>2, <2>3
<1>. QED
  BY <1>1, <1>2

\* A port carries whole bytes, and the overlay's nodes have sizes.
LEMMA NodeFacts ==
  ASSUME NEW c, Sized(c), Elaborates(c)
  PROVE  /\ Derived(c).portBytes \in Nat
         /\ ActNode(c) \in Nat /\ WtNode(c) \in Nat /\ OutNode(c) \in Nat
<1>. DEFINE width == Max({c.xDim, c.batch}) * c.aWidth
            ports == IF width <= 128 THEN 1 ELSE Min({4, CeilDiv(width, 128)})
<1>1. /\ c.aWidth \in Nat /\ c.xDim \in Nat /\ c.batch \in Nat /\ c.maxN \in Nat /\ c.maxM \in Nat
      /\ c.model = None \/ c.model \in [hidden : Nat, inter : Nat, vocab : Nat, layers : Nat]
  BY DEF Sized
<1>2. Max({c.xDim, c.batch}) \in Nat
  <2>1. CASE c.xDim <= c.batch
    BY <1>1, <2>1, MaxIs
  <2>2. CASE c.batch <= c.xDim
    BY <1>1, <2>2, MaxIs
  <2>. QED
    BY <1>1, <2>1, <2>2
<1>3. width \in Nat
  BY <1>1, <1>2, TimesType
<1>4. ports \in Nat \ {0}
  <2>. HIDE DEF width
  <2>1. CASE width <= 128
    BY <2>1
  <2>2. CASE ~(width <= 128)
    <3>. DEFINE q == CeilDiv(width, 128)
    <3>1. q \in Nat \ {0}
      BY <1>3, <2>2 DEF CeilDiv
    <3>. HIDE DEF q
    <3>2. CASE q <= 4
      <4>1. Min({4, q}) = q
        BY <3>1, <3>2, MinIs
      <4>. QED
        BY <2>2, <3>1, <4>1 DEF q
    <3>3. CASE ~(q <= 4)
      <4>1. \A y \in {4, q} : 4 <= y
        BY <3>1, <3>3
      <4>2. Min({4, q}) = 4
        BY <3>1, <4>1, MinIs
      <4>. QED
        BY <2>2, <4>2 DEF q
    <3>. QED
      BY <3>2, <3>3
  <2>. QED
    BY <2>1, <2>2
<1>. DEFINE d == Derived(c)
<1>5. d.numPorts = ports /\ d.portBytes = (width \div ports) \div 8
  BY DEF Derived, PortBits, MaxInPorts
<1>. HIDE DEF width, ports
<1>6. d.portBytes \in Nat /\ d.numPorts \in Nat \ {0}
  <2>1. width \div ports \in Nat
    BY <1>3, <1>4
  <2>. QED
    BY <1>4, <1>5, <2>1
<1>7. d.outLanesPerTile \in Nat \ {0} /\ d.outLaneBytes \in Nat
  <2>1. NextPow2(d.accWidth) \in Nat /\ d.outLaneBytes = NextPow2(d.accWidth) \div 8
        /\ d.outLanesPerTile \in Nat \ {0}
    BY HwFacts
  <2>. QED
    BY <2>1
<1>8. NumColTiles(d, c.maxM) \in Nat
  BY <1>1, <1>7, TilesType
<1>. HIDE DEF d
<1>9. \A b \in Nat : PageUp(b) \in Nat
  BY DEF PageUp, CeilTo, CeilDiv, PageBytes
<1>10. /\ c.maxN * d.portBytes \in Nat
       /\ c.maxN * NumColTiles(d, c.maxM) * d.portBytes \in Nat
       /\ c.batch * NumColTiles(d, c.maxM) * d.outLanesPerTile * d.outLaneBytes \in Nat
  BY <1>1, <1>6, <1>7, <1>8, TimesType
<1>11. ActNode(c) \in Nat /\ WtSlice(c) \in Nat /\ OutNode(c) \in Nat
  BY <1>9, <1>10 DEF ActNode, WtSlice, OutNode, d
<1>12. WtNode(c) \in Nat
  <2>1. CASE c.model = None
    BY <1>11, <2>1 DEF WtNode
  <2>2. CASE c.model # None
    <3>. DEFINE m == c.model
                r == PageUp(ResidentBytes(c.model, d.numPorts))
    <3>1. m.hidden \in Nat /\ m.inter \in Nat /\ m.vocab \in Nat /\ m.layers \in Nat
      BY <1>1, <2>2
    <3>2. ResidentBytes(m, d.numPorts) \in Nat
      <4>. HIDE DEF m
      <4>. DEFINE layer == 4 * m.hidden * m.hidden + m.hidden * 2 * m.inter + m.inter * m.hidden
                  head  == m.hidden * m.vocab
      <4>1. layer \in Nat /\ head \in Nat
        <5>1. \A x, y \in Nat : x * y \in Nat
          BY TimesType
        <5>2. 4 * m.hidden * m.hidden \in Nat /\ m.hidden * 2 * m.inter \in Nat /\ m.inter * m.hidden \in Nat
          BY <3>1, <5>1
        <5>3. head \in Nat
          BY <3>1, <5>1
        <5>. QED
          BY <5>2, <5>3
      <4>. HIDE DEF layer, head
      <4>2. (layer \div 4) * m.layers \in Nat /\ head \div 4 \in Nat
        <5>1. layer \div 4 \in Nat
          BY <4>1
        <5>. QED
          BY <3>1, <4>1, <5>1, TimesType
      <4>3. ((layer \div 4) * m.layers + head \div 4) \div d.numPorts \in Nat
        <5>. DEFINE t == (layer \div 4) * m.layers + head \div 4
        <5>1. t \in Nat
          BY <4>2
        <5>. HIDE DEF t
        <5>2. t \div d.numPorts \in Nat
          BY <1>6, <5>1
        <5>. QED
          BY <5>2 DEF t
      <4>. QED
        BY <4>3 DEF ResidentBytes, layer, head
    <3>3. r \in Nat
      BY <1>9, <3>2
    <3>4. WtNode(c) = Max({WtSlice(c), r})
      BY <2>2 DEF WtNode, d
    <3>. HIDE DEF r
    <3>5. CASE WtSlice(c) <= r
      BY <1>11, <3>3, <3>4, <3>5, MaxIs
    <3>6. CASE r <= WtSlice(c)
      BY <1>11, <3>3, <3>4, <3>6, MaxIs
    <3>. QED
      BY <1>11, <3>3, <3>5, <3>6
  <2>. QED
    BY <2>1, <2>2
<1>. QED
  BY <1>6, <1>11, <1>12 DEF d

\* A host that the manifest check lets through derives what the Core derives.
LEMMA SameDerivation ==
  ASSUME NEW e, NEW c, Sized(c), Elaborates(c), GeomInit(e) # None, ~Mismatch(e, c),
         HostBatch(e) <= e.xDim
  PROVE  LET Host == GeomInit(e)
             Hw   == Derived(c)
         IN
         /\ HostBatch(e) = c.batch /\ e.aWidth = c.aWidth
         /\ c.batch <= c.xDim
         /\ Host.numPorts = Hw.numPorts /\ Host.portBytes = Hw.portBytes
         /\ Host.outLanesPerTile = Hw.outLanesPerTile /\ Host.accWidth = Hw.accWidth
         /\ Hw.outLaneBytes >= 1 => Host.outLaneBytes = Hw.outLaneBytes
<1>. DEFINE Host == GeomInit(e)
            Hw == Derived(c)
<1>1. /\ e.aWidth = c.aWidth /\ e.xDim = c.xDim
      /\ e.maxAcc = c.maxAcc /\ HostBatch(e) = c.batch
      /\ Host.numPorts = Hw.numPorts
  BY DEF Mismatch
<1>2. c.batch <= c.xDim
  BY <1>1
<1>. DEFINE bits == c.xDim * c.aWidth
            ports == IF bits <= 128 THEN 1 ELSE bits \div 128
            acc == Log2Ceil(c.maxAcc) + c.aWidth
<1>3. bits \in Nat /\ Hw.portBytes = (bits \div Hw.numPorts) \div 8
  BY <1>2, BeatFacts
<1>4. /\ ~(bits > 128 /\ (bits % 128 # 0 \/ bits \div 128 > MaxDma))
      /\ Host = [outLanesPerTile |-> c.xDim * (c.aWidth \div 2), accWidth |-> acc,
                 numPorts |-> ports, portBytes |-> (bits \div 8) \div ports,
                 outLaneBytes |-> Max({8, NextPow2(acc)}) \div 8]
  BY <1>1 DEF GeomInit
<1>5. /\ Host.numPorts = ports /\ Host.portBytes = (bits \div 8) \div ports
      /\ Host.outLanesPerTile = c.xDim * (c.aWidth \div 2) /\ Host.accWidth = acc
      /\ Host.outLaneBytes = Max({8, NextPow2(acc)}) \div 8
  <2>. HIDE DEF bits, ports, acc
  <2>. QED
    BY <1>4
<1>6. Host.portBytes = Hw.portBytes
  <2>1. ports \in Nat \ {0} /\ (ports = 1 \/ bits = 128 * ports)
    <3>. HIDE DEF bits
    <3>. QED
      BY <1>3, <1>4
  <2>. HIDE DEF bits, ports
  <2>2. (bits \div 8) \div ports = (bits \div ports) \div 8
    BY <1>3, <2>1, PortBytesIs
  <2>. QED
    BY <1>1, <1>3, <1>5, <2>2
<1>7. Hw.outLaneBytes >= 1 => Host.outLaneBytes = Hw.outLaneBytes
  <2>. DEFINE w == NextPow2(acc)
  <2>. SUFFICES ASSUME Hw.outLaneBytes >= 1 PROVE Host.outLaneBytes = Hw.outLaneBytes
    OBVIOUS
  <2>1. w \in Nat /\ Hw.outLaneBytes = w \div 8
    BY HwFacts
  <2>2. Host.outLaneBytes = Max({8, w}) \div 8
    BY <1>5
  <2>. HIDE DEF w
  <2>3. 8 <= w
    BY <2>1
  <2>4. Max({8, w}) = w
    BY <2>1, <2>3, MaxIs
  <2>. QED
    BY <2>1, <2>2, <2>4
<1>. QED
  BY <1>1, <1>2, <1>5, <1>6, <1>7, HwFacts

=============================================================================
