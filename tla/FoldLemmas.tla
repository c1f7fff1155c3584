----------------------------- MODULE FoldLemmas -----------------------------
(***************************************************************************)
(* What FoldLeft computes: its value on every prefix of a sequence follows *)
(* from its value on the prefix before.  The induction principles of the   *)
(* library cannot be instantiated here, so induction is put as a fact      *)
(* about sets of numbers, by way of the least number outside of one.       *)
(***************************************************************************)
EXTENDS Integers, FiniteSets, FiniteSetsExt, Sequences, SequencesExt,
        WellFoundedInduction, TLAPS

(* A set of numbers that has one has a least one.                           *)
LEMMA LeastNat ==
    ASSUME NEW T, T \subseteq Nat, T # {}
    PROVE  \E x \in T : \A y \in T : x <= y
<1>1. PICK R : R = {p \in Nat \X Nat : p[1] < p[2]}
  OBVIOUS
<1>2. IsWellFoundedOn(R, Nat)
  BY <1>1, NatLessThanWellFounded DEF OpToRel
<1>3. PICK x \in T : \A y \in T : <<y, x>> \notin R
  BY <1>2, WFMin
<1>4. ASSUME NEW y \in T PROVE x <= y
  <2>1. x \in Nat /\ y \in Nat /\ <<y, x>> \notin R
    BY <1>3
  <2>2. y < x => <<y, x>> \in R
    BY <1>1, <2>1
  <2> QED BY <2>1, <2>2
<1> QED BY <1>4

(* Induction up to a bound.                                                 *)
LEMMA UpTo ==
    ASSUME NEW N \in Nat, NEW T, 0 \in T,
           \A n \in 0..(N - 1) : n \in T => n + 1 \in T
    PROVE  \A n \in 0..N : n \in T
<1> SUFFICES ASSUME NEW n \in 0..N, n \notin T PROVE FALSE
  OBVIOUS
<1> DEFINE Outside == {k \in 0..N : k \notin T}
<1>1. Outside \subseteq Nat /\ Outside # {}
  OBVIOUS
<1>2. PICK k \in Outside : \A m \in Outside : k <= m
  BY <1>1, LeastNat
<1>3. k # 0 /\ k \in 1..N /\ k - 1 \in 0..(N - 1) /\ k - 1 \notin Outside
  BY <1>2
<1>4. k - 1 \in T /\ (k - 1) + 1 = k
  BY <1>3
<1> QED BY <1>2, <1>3, <1>4

(* A set of numbers up to a bound has a greatest one.                       *)
LEMMA GreatestUpTo ==
    ASSUME NEW N \in Nat, NEW S \in SUBSET (1..N), S # {}
    PROVE  Max(S) \in S /\ \A y \in S : y <= Max(S)
<1> DEFINE Bounds == {b \in Nat : \A y \in S : y <= b}
<1>1. Bounds \subseteq Nat /\ N \in Bounds
  OBVIOUS
<1>2. PICK b \in Bounds : \A d \in Bounds : b <= d
  BY <1>1, LeastNat
<1>3. b \in S
  <2>1. SUFFICES ASSUME b \notin S PROVE FALSE
    OBVIOUS
  <2>2. b \in Nat /\ \A y \in S : y \in 1..N /\ y <= b /\ y # b
    BY <2>1
  <2>3. b # 0
    <3>1. PICK y : y \in S
      OBVIOUS
    <3> QED BY <2>2, <3>1
  <2>4. b - 1 \in Bounds
    BY <2>2, <2>3
  <2> QED BY <1>2, <2>2, <2>4
<1>4. \E x \in S : \A y \in S : x >= y
  BY <1>3
<1>5. Max(S) \in S /\ \A y \in S : Max(S) >= y
  BY <1>4, Zenon DEF Max
<1> QED BY <1>5

-----------------------------------------------------------------------------
(* A function on the sets of indices up to n that folds them, the greatest  *)
(* last, by the operation that G is the graph of.                           *)
Folds(h, n, V, base, G) ==
    /\ h \in [SUBSET (1..n) -> V]
    /\ h[{}] = base
    /\ \A s \in SUBSET (1..n) : s # {} => h[s] = G[<<Max(s), h[s \ {Max(s)}]>>]

(* There is a fold: sets of indices up to N have values, each from that of  *)
(* the set without its greatest index.                                      *)
LEMMA FoldExists ==
    ASSUME NEW N \in Nat, NEW V, NEW base \in V, NEW G \in [(1..N) \X V -> V]
    PROVE  \E h : Folds(h, N, V, base, G)
<1> DEFINE T == {n \in 0..N : \E h : Folds(h, n, V, base, G)}
<1>1. 0 \in T
  <2>1. PICK h : h = [s \in SUBSET (1..0) |-> base]
    OBVIOUS
  <2>2. SUBSET (1..0) = {{}}
    OBVIOUS
  <2>3. Folds(h, 0, V, base, G)
    BY <2>1, <2>2 DEF Folds
  <2> QED BY <2>3
<1>2. ASSUME NEW n \in 0..(N - 1), n \in T PROVE n + 1 \in T
  <2>1. PICK g : Folds(g, n, V, base, G)
    BY <1>2
  <2>2. PICK h : h = [s \in SUBSET (1..(n + 1)) |->
                        IF n + 1 \in s THEN G[<<n + 1, g[s \ {n + 1}]>>] ELSE g[s]]
    OBVIOUS
  <2>3. ASSUME NEW s \in SUBSET (1..(n + 1))
        PROVE  /\ s \ {n + 1} \in SUBSET (1..n)
               /\ n + 1 \notin s => s \in SUBSET (1..n)
    OBVIOUS
  <2>4. h \in [SUBSET (1..(n + 1)) -> V]
    <3>1. ASSUME NEW s \in SUBSET (1..(n + 1)) PROVE h[s] \in V
      <4>1. CASE n + 1 \in s
        <5>1. g[s \ {n + 1}] \in V /\ n + 1 \in 1..N
          BY <2>1, <2>3 DEF Folds
        <5> QED BY <2>2, <4>1, <5>1
      <4>2. CASE n + 1 \notin s
        BY <2>1, <2>2, <2>3, <4>2 DEF Folds
      <4> QED BY <4>1, <4>2
    <3> QED BY <2>2, <3>1
  <2>5. h[{}] = base
    <3>1. {} \in SUBSET (1..(n + 1)) /\ n + 1 \notin {}
      OBVIOUS
    <3>2. h[{}] = g[{}]
      BY <2>2, <3>1
    <3> QED BY <2>1, <3>2 DEF Folds
  <2>6. ASSUME NEW s \in SUBSET (1..(n + 1)), s # {}
        PROVE  h[s] = G[<<Max(s), h[s \ {Max(s)}]>>]
    <3>0. n + 1 \in Nat
      OBVIOUS
    <3>1. Max(s) \in s /\ \A y \in s : y <= Max(s)
      BY <2>6, <3>0, GreatestUpTo
    <3>2. PICK m : m = Max(s)
      OBVIOUS
    <3>3. s \ {m} \in SUBSET (1..(n + 1))
      OBVIOUS
    <3>4. CASE n + 1 \in s
      <4>1. m = n + 1
        <5>1. m \in 1..(n + 1) /\ n + 1 <= m
          BY <3>1, <3>2, <3>4
        <5> QED BY <3>0, <5>1
      <4>2. h[s] = G[<<n + 1, g[s \ {n + 1}]>>]
        BY <2>2, <3>4
      <4>3. h[s \ {n + 1}] = g[s \ {n + 1}]
        BY <2>2, <3>3, <4>1
      <4> QED BY <3>2, <4>1, <4>2, <4>3
    <3>5. CASE n + 1 \notin s
      <4>1. s \in SUBSET (1..n) /\ n + 1 \notin s \ {m}
        BY <2>3, <3>5
      <4>2. h[s] = g[s] /\ h[s \ {m}] = g[s \ {m}]
        BY <2>2, <3>3, <3>5, <4>1
      <4>3. g[s] = G[<<Max(s), g[s \ {Max(s)}]>>]
        BY <2>1, <2>6, <4>1 DEF Folds
      <4> QED BY <3>2, <4>2, <4>3
    <3> QED BY <3>4, <3>5
  <2>7. Folds(h, n + 1, V, base, G)
    BY <2>4, <2>5, <2>6 DEF Folds
  <2> QED BY <2>7
<1>3. \A n \in 0..N : n \in T
  <2> HIDE DEF T
  <2> QED BY <1>1, <1>2, UpTo
<1> QED BY <1>3

(* Of an index set that ends with n, n is the greatest.                     *)
LEMMA PrefixMax ==
    ASSUME NEW N \in Nat, NEW n \in 1..N
    PROVE  /\ Max(1..n) = n /\ (1..n) \ {n} = 1..(n - 1)
           /\ 1..n \in SUBSET (1..N) /\ 1..n # {}
<1>1. 1..n \in SUBSET (1..n) /\ n \in Nat /\ 1..n # {}
  OBVIOUS
<1>2. Max(1..n) \in 1..n /\ \A y \in 1..n : y <= Max(1..n)
  BY <1>1, GreatestUpTo
<1>3. Max(1..n) = n
  <2>1. PICK m : m = Max(1..n)
    OBVIOUS
  <2> QED BY <1>2, <2>1
<1> QED BY <1>1, <1>3

(* What the definition of FoldLeft chooses is such a function as long as    *)
(* the operation can be applied, ...                                        *)
Steps(D, N, V, base, G) ==
    /\ D[{}] = base
    /\ \A n \in 1..N : D[1..(n - 1)] \in V => D[1..n] = G[<<n, D[1..(n - 1)]>>]

(* ... and so the fold goes from each prefix of the indices to the next.    *)
Stages(P, N, V, base, G) ==
    /\ P \in [0..N -> V]
    /\ P[0] = base
    /\ \A n \in 1..N : P[n] = G[<<n, P[n - 1]>>]

Yields(x, N, V, base, G) == \E P : Stages(P, N, V, base, G) /\ x = P[N]

(* Its values on the sets 1..n are those of the prefixes of a sequence.     *)
LEMMA FoldPrefixes ==
    ASSUME NEW N \in Nat, NEW V, NEW base \in V, NEW G \in [(1..N) \X V -> V],
           NEW D, Steps(D, N, V, base, G)
    PROVE  Yields(D[1..N], N, V, base, G)
<1>0. /\ D[{}] = base
      /\ \A n \in 1..N : D[1..(n - 1)] \in V => D[1..n] = G[<<n, D[1..(n - 1)]>>]
  BY DEF Steps
<1> DEFINE T == {n \in 0..N : D[1..n] \in V}
<1>1. 0 \in T
  <2>1. 1..0 = {}
    OBVIOUS
  <2> QED BY <1>0, <2>1
<1>2. ASSUME NEW n \in 0..(N - 1), n \in T PROVE n + 1 \in T
  <2>1. n + 1 \in 1..N /\ (n + 1) - 1 = n /\ D[1..n] \in V
    BY <1>2
  <2>2. D[1..(n + 1)] = G[<<n + 1, D[1..n]>>]
    BY <1>0, <2>1
  <2>3. G[<<n + 1, D[1..n]>>] \in V
    BY <2>1
  <2> QED BY <2>1, <2>2, <2>3
<1>3. \A n \in 0..N : D[1..n] \in V
  <2>1. \A n \in 0..N : n \in T
    <3> HIDE DEF T
    <3> QED BY <1>1, <1>2, UpTo
  <2> QED BY <2>1
<1>4. PICK P : P = [n \in 0..N |-> D[1..n]]
  OBVIOUS
<1>5. P \in [0..N -> V] /\ P[N] = D[1..N]
  BY <1>3, <1>4
<1>6. P[0] = base
  <2>1. 1..0 = {}
    OBVIOUS
  <2> QED BY <1>0, <1>4, <2>1
<1>7. ASSUME NEW n \in 1..N PROVE P[n] = G[<<n, P[n - 1]>>]
  <2>1. n - 1 \in 0..N /\ n \in 0..N
    OBVIOUS
  <2>2. P[n] = D[1..n] /\ P[n - 1] = D[1..(n - 1)]
    BY <1>4, <2>1
  <2> QED BY <1>0, <1>3, <2>1, <2>2
<1> QED BY <1>5, <1>6, <1>7 DEF Stages, Yields

(* The greatest of some indices is one of them.                             *)
LEMMA GreatestIndex ==
    ASSUME NEW N \in Nat, NEW s \in SUBSET (1..N), s # {}
    PROVE  Max(s) \in 1..N /\ s \ {Max(s)} \in SUBSET (1..N)
BY GreatestUpTo
=============================================================================
