-------------------------- MODULE FactReviewProofs --------------------------
(***************************************************************************)
(* Proofs about FactReview, for all materials, values, corrections and     *)
(* numbers of rulings that its assumptions allow.                          *)
(***************************************************************************)
EXTENDS FactReview, FoldLemmas, FiniteSetTheorems, FunctionTheorems

(* The candidates of a field that differ in value are found one by one.     *)
DistinctStep(kept, x) ==
    IF x.value \in Values(kept) \cup {None} THEN kept ELSE Append(kept, x)

(* Distinct candidates come one at a time, ...                              *)
LEMMA DistinctIsFold ==
    ASSUME NEW C, NEW c \in Seq(C)
    PROVE  \E P \in [0..Len(c) -> Seq(C)] :
             /\ P[0] = <<>>
             /\ \A n \in 1..Len(c) : P[n] = DistinctStep(P[n - 1], c[n])
             /\ P[Len(c)] = Distinct(c)
<1>1. PICK N \in Nat : N = Len(c) /\ DOMAIN c = 1..N
  OBVIOUS
<1>2. PICK V : V = Seq(C)
  OBVIOUS
<1>3. <<>> \in V
  BY <1>2
<1>4. PICK G : G = [p \in (1..N) \X V |-> DistinctStep(p[2], c[p[1]])]
  OBVIOUS
<1>5. ASSUME NEW n \in 1..N, NEW kept \in V
      PROVE  G[<<n, kept>>] = DistinctStep(kept, c[n]) /\ G[<<n, kept>>] \in V
  <2>1. DistinctStep(kept, c[n]) \in V
    BY <1>1, <1>2 DEF DistinctStep
  <2> QED BY <1>4, <2>1
<1>6. G \in [(1..N) \X V -> V]
  BY <1>4, <1>5
<1>7. PICK h : Folds(h, N, V, <<>>, G)
  BY <1>3, <1>6, FoldExists
<1>8. h = [s \in SUBSET DOMAIN c |->
             IF s = {} THEN <<>> ELSE DistinctStep(h[s \ {Max(s)}], c[Max(s)])]
  <2>1. ASSUME NEW s \in SUBSET (1..N), s # {}
        PROVE  h[s] = DistinctStep(h[s \ {Max(s)}], c[Max(s)])
    <3>1. Max(s) \in 1..N /\ s \ {Max(s)} \in SUBSET (1..N)
      BY <2>1, GreatestIndex
    <3> QED BY <1>5, <1>7, <2>1, <3>1 DEF Folds
  <2> QED BY <1>1, <1>7, <2>1 DEF Folds
<1>9. PICK D : /\ D = CHOOSE g : g = [s \in SUBSET DOMAIN c |->
                      IF s = {} THEN <<>> ELSE DistinctStep(g[s \ {Max(s)}], c[Max(s)])]
               /\ Distinct(c) = D[DOMAIN c]
  BY DEF Distinct, FoldLeft, MapThenFoldSet, DistinctStep
<1>10. D = [s \in SUBSET (1..N) |->
              IF s = {} THEN <<>> ELSE DistinctStep(D[s \ {Max(s)}], c[Max(s)])]
  BY <1>1, <1>8, <1>9, Zenon
<1>11. Steps(D, N, V, <<>>, G)
  <2>1. D[{}] = <<>>
    BY <1>10
  <2>2. ASSUME NEW n \in 1..N, D[1..(n - 1)] \in V
        PROVE  D[1..n] = G[<<n, D[1..(n - 1)]>>]
    <3>1. D[1..n] = DistinctStep(D[1..(n - 1)], c[n])
      BY <1>10, PrefixMax
    <3> QED BY <1>5, <2>2, <3>1
  <2> QED BY <2>1, <2>2 DEF Steps
<1>12. Yields(D[1..N], N, V, <<>>, G)
  BY <1>3, <1>6, <1>11, FoldPrefixes
<1>13. Distinct(c) = D[1..N]
  BY <1>1, <1>9
<1>14. \A n \in 1..N : n - 1 \in 0..N
  OBVIOUS
<1> QED BY <1>1, <1>2, <1>5, <1>12, <1>13, <1>14 DEF Stages, Yields

(* So are those that differ at all.                                         *)
UniqueStep(kept, x) ==
    IF \E i \in DOMAIN kept : kept[i] = x THEN kept ELSE Append(kept, x)

(* ... and so do distinct values, ...                                       *)
LEMMA UniqueIsFold ==
    ASSUME NEW C, NEW c \in Seq(C)
    PROVE  \E P \in [0..Len(c) -> Seq(C)] :
             /\ P[0] = <<>>
             /\ \A n \in 1..Len(c) : P[n] = UniqueStep(P[n - 1], c[n])
             /\ P[Len(c)] = Unique(c)
<1>1. PICK N \in Nat : N = Len(c) /\ DOMAIN c = 1..N
  OBVIOUS
<1>2. PICK V : V = Seq(C)
  OBVIOUS
<1>3. <<>> \in V
  BY <1>2
<1>4. PICK G : G = [p \in (1..N) \X V |-> UniqueStep(p[2], c[p[1]])]
  OBVIOUS
<1>5. ASSUME NEW n \in 1..N, NEW kept \in V
      PROVE  G[<<n, kept>>] = UniqueStep(kept, c[n]) /\ G[<<n, kept>>] \in V
  <2>1. UniqueStep(kept, c[n]) \in V
    BY <1>1, <1>2 DEF UniqueStep
  <2> QED BY <1>4, <2>1
<1>6. G \in [(1..N) \X V -> V]
  BY <1>4, <1>5
<1>7. PICK h : Folds(h, N, V, <<>>, G)
  BY <1>3, <1>6, FoldExists
<1>8. h = [s \in SUBSET DOMAIN c |->
             IF s = {} THEN <<>> ELSE UniqueStep(h[s \ {Max(s)}], c[Max(s)])]
  <2>1. ASSUME NEW s \in SUBSET (1..N), s # {}
        PROVE  h[s] = UniqueStep(h[s \ {Max(s)}], c[Max(s)])
    <3>1. Max(s) \in 1..N /\ s \ {Max(s)} \in SUBSET (1..N)
      BY <2>1, GreatestIndex
    <3> QED BY <1>5, <1>7, <2>1, <3>1 DEF Folds
  <2> QED BY <1>1, <1>7, <2>1 DEF Folds
<1>9. PICK D : /\ D = CHOOSE g : g = [s \in SUBSET DOMAIN c |->
                      IF s = {} THEN <<>> ELSE UniqueStep(g[s \ {Max(s)}], c[Max(s)])]
               /\ Unique(c) = D[DOMAIN c]
  BY DEF Unique, FoldLeft, MapThenFoldSet, UniqueStep
<1>10. D = [s \in SUBSET (1..N) |->
              IF s = {} THEN <<>> ELSE UniqueStep(D[s \ {Max(s)}], c[Max(s)])]
  BY <1>1, <1>8, <1>9, Zenon
<1>11. Steps(D, N, V, <<>>, G)
  <2>1. D[{}] = <<>>
    BY <1>10
  <2>2. ASSUME NEW n \in 1..N, D[1..(n - 1)] \in V
        PROVE  D[1..n] = G[<<n, D[1..(n - 1)]>>]
    <3>1. D[1..n] = UniqueStep(D[1..(n - 1)], c[n])
      BY <1>10, PrefixMax
    <3> QED BY <1>5, <2>2, <3>1
  <2> QED BY <2>1, <2>2 DEF Steps
<1>12. Yields(D[1..N], N, V, <<>>, G)
  BY <1>3, <1>6, <1>11, FoldPrefixes
<1>13. Unique(c) = D[1..N]
  BY <1>1, <1>9
<1>14. \A n \in 1..N : n - 1 \in 0..N
  OBVIOUS
<1> QED BY <1>1, <1>2, <1>5, <1>12, <1>13, <1>14 DEF Stages, Yields

(* What one material says of a field, ...                                   *)
ReadsInto(f, t, E, C) == \A entry \in E : Candidate(f, t, entry) \in C

ReadStep(f, t, file, all, entry) ==
    IF Found(file, entry) THEN Append(all, Candidate(f, t, entry)) ELSE all

ReadStepwise(f, t, file, text, said, C) ==
    \E P \in [0..Len(said) -> Seq(C)] :
      /\ P[0] = <<>>
      /\ \A n \in 1..Len(said) : P[n] = ReadStep(f, t, file, P[n - 1], said[n])
      /\ P[Len(said)] = CandidatesIn(f, t, file, text)

(* ... the candidates of a text, ...                                        *)
LEMMA ReadingIsFold ==
    ASSUME NEW f, NEW t, NEW file, NEW text, NEW E, NEW C,
           NEW said \in Seq(E), text[f] = said,
           ReadsInto(f, t, E, C)
    PROVE  ReadStepwise(f, t, file, text, said, C)
<1>1. PICK N \in Nat : N = Len(said) /\ DOMAIN said = 1..N
  OBVIOUS
<1>2. PICK V : V = Seq(C)
  OBVIOUS
<1>3. <<>> \in V
  BY <1>2
<1>4. PICK G : G = [p \in (1..N) \X V |-> ReadStep(f, t, file, p[2], said[p[1]])]
  OBVIOUS
<1>5. ASSUME NEW n \in 1..N, NEW kept \in V
      PROVE  G[<<n, kept>>] = ReadStep(f, t, file, kept, said[n]) /\ G[<<n, kept>>] \in V
  <2>1. ReadStep(f, t, file, kept, said[n]) \in V
    BY <1>1, <1>2 DEF ReadStep, ReadsInto
  <2> QED BY <1>4, <2>1
<1>6. G \in [(1..N) \X V -> V]
  BY <1>4, <1>5
<1>7. PICK h : Folds(h, N, V, <<>>, G)
  BY <1>3, <1>6, FoldExists
<1>8. h = [s \in SUBSET DOMAIN said |->
             IF s = {} THEN <<>> ELSE ReadStep(f, t, file, h[s \ {Max(s)}], said[Max(s)])]
  <2>1. ASSUME NEW s \in SUBSET (1..N), s # {}
        PROVE  h[s] = ReadStep(f, t, file, h[s \ {Max(s)}], said[Max(s)])
    <3>1. Max(s) \in 1..N /\ s \ {Max(s)} \in SUBSET (1..N)
      BY <2>1, GreatestIndex
    <3> QED BY <1>5, <1>7, <2>1, <3>1 DEF Folds
  <2> QED BY <1>1, <1>7, <2>1 DEF Folds
<1>9. PICK D : /\ D = CHOOSE g : g = [s \in SUBSET DOMAIN said |->
                      IF s = {} THEN <<>> ELSE ReadStep(f, t, file, g[s \ {Max(s)}], said[Max(s)])]
               /\ CandidatesIn(f, t, file, text) = D[DOMAIN said]
  BY DEF CandidatesIn, FoldLeft, MapThenFoldSet, ReadStep
<1>10. D = [s \in SUBSET (1..N) |->
              IF s = {} THEN <<>> ELSE ReadStep(f, t, file, D[s \ {Max(s)}], said[Max(s)])]
  BY <1>1, <1>8, <1>9, Zenon
<1>11. Steps(D, N, V, <<>>, G)
  <2>1. D[{}] = <<>>
    BY <1>10
  <2>2. ASSUME NEW n \in 1..N, D[1..(n - 1)] \in V
        PROVE  D[1..n] = G[<<n, D[1..(n - 1)]>>]
    <3>1. D[1..n] = ReadStep(f, t, file, D[1..(n - 1)], said[n])
      BY <1>10, PrefixMax
    <3> QED BY <1>5, <2>2, <3>1
  <2> QED BY <2>1, <2>2 DEF Steps
<1>12. Yields(D[1..N], N, V, <<>>, G)
  BY <1>3, <1>6, <1>11, FoldPrefixes
<1>13. CandidatesIn(f, t, file, text) = D[1..N]
  BY <1>1, <1>9
<1>14. \A n \in 1..N : n - 1 \in 0..N
  OBVIOUS
<1> QED BY <1>1, <1>2, <1>5, <1>12, <1>13, <1>14 DEF Stages, Yields, ReadStepwise

(* ... and all of them together.                                            *)
AllCandidates(f, files, texts, order) ==
    FoldLeft(LAMBDA all, t : all \o CandidatesIn(f, t, files[t], texts[t]), <<>>, order)

(* ... and those of all materials in their order.                           *)
LEMMA AllIsFold ==
    ASSUME NEW f, NEW files, NEW texts, NEW order \in Seq(DocumentTypes), NEW C,
           \A t \in DocumentTypes : CandidatesIn(f, t, files[t], texts[t]) \in Seq(C)
    PROVE  \E P \in [0..Len(order) -> Seq(C)] :
             /\ P[0] = <<>>
             /\ \A n \in 1..Len(order) : P[n] = P[n - 1] \o CandidatesIn(f, order[n], files[order[n]], texts[order[n]])
             /\ P[Len(order)] = AllCandidates(f, files, texts, order)
<1>1. PICK N \in Nat : N = Len(order) /\ DOMAIN order = 1..N
  OBVIOUS
<1>2. PICK V : V = Seq(C)
  OBVIOUS
<1>3. <<>> \in V
  BY <1>2
<1>4. PICK G : G = [p \in (1..N) \X V |-> p[2] \o CandidatesIn(f, order[p[1]], files[order[p[1]]], texts[order[p[1]]])]
  OBVIOUS
<1>5. ASSUME NEW n \in 1..N, NEW kept \in V
      PROVE  G[<<n, kept>>] = kept \o CandidatesIn(f, order[n], files[order[n]], texts[order[n]]) /\ G[<<n, kept>>] \in V
  <2>1. kept \o CandidatesIn(f, order[n], files[order[n]], texts[order[n]]) \in V
    BY <1>1, <1>2
  <2> QED BY <1>4, <2>1
<1>6. G \in [(1..N) \X V -> V]
  BY <1>4, <1>5
<1>7. PICK h : Folds(h, N, V, <<>>, G)
  BY <1>3, <1>6, FoldExists
<1>8. h = [s \in SUBSET DOMAIN order |->
             IF s = {} THEN <<>> ELSE h[s \ {Max(s)}] \o CandidatesIn(f, order[Max(s)], files[order[Max(s)]], texts[order[Max(s)]])]
  <2>1. ASSUME NEW s \in SUBSET (1..N), s # {}
        PROVE  h[s] = h[s \ {Max(s)}] \o CandidatesIn(f, order[Max(s)], files[order[Max(s)]], texts[order[Max(s)]])
    <3>1. Max(s) \in 1..N /\ s \ {Max(s)} \in SUBSET (1..N)
      BY <2>1, GreatestIndex
    <3> QED BY <1>5, <1>7, <2>1, <3>1 DEF Folds
  <2> QED BY <1>1, <1>7, <2>1 DEF Folds
<1>9. PICK D : /\ D = CHOOSE g : g = [s \in SUBSET DOMAIN order |->
                      IF s = {} THEN <<>> ELSE g[s \ {Max(s)}] \o CandidatesIn(f, order[Max(s)], files[order[Max(s)]], texts[order[Max(s)]])]
               /\ AllCandidates(f, files, texts, order) = D[DOMAIN order]
  BY DEF AllCandidates, FoldLeft, MapThenFoldSet
<1>10. D = [s \in SUBSET (1..N) |->
              IF s = {} THEN <<>> ELSE D[s \ {Max(s)}] \o CandidatesIn(f, order[Max(s)], files[order[Max(s)]], texts[order[Max(s)]])]
  BY <1>1, <1>8, <1>9, Zenon
<1>11. Steps(D, N, V, <<>>, G)
  <2>1. D[{}] = <<>>
    BY <1>10
  <2>2. ASSUME NEW n \in 1..N, D[1..(n - 1)] \in V
        PROVE  D[1..n] = G[<<n, D[1..(n - 1)]>>]
    <3>1. D[1..n] = D[1..(n - 1)] \o CandidatesIn(f, order[n], files[order[n]], texts[order[n]])
      BY <1>10, PrefixMax
    <3> QED BY <1>5, <2>2, <3>1
  <2> QED BY <2>1, <2>2 DEF Steps
<1>12. Yields(D[1..N], N, V, <<>>, G)
  BY <1>3, <1>6, <1>11, FoldPrefixes
<1>13. AllCandidates(f, files, texts, order) = D[1..N]
  BY <1>1, <1>9
<1>14. \A n \in 1..N : n - 1 \in 0..N
  OBVIOUS
<1> QED BY <1>1, <1>2, <1>5, <1>12, <1>13, <1>14 DEF Stages, Yields

-----------------------------------------------------------------------------
(* What the folds come to.                                                  *)
Has(s, x) == \E j \in DOMAIN s : s[j] = x

(* Append keeps what a sequence has and adds its element.                   *)
LEMMA AppendKeeps ==
    ASSUME NEW C, NEW s \in Seq(C), NEW x \in C
    PROVE  /\ Append(s, x) \in Seq(C) /\ Has(Append(s, x), x)
           /\ \A y : Has(s, y) => Has(Append(s, x), y)
<1>1. /\ Append(s, x) \in Seq(C) /\ Len(s) \in Nat
      /\ DOMAIN Append(s, x) = 1..(Len(s) + 1) /\ DOMAIN s = 1..Len(s)
      /\ Append(s, x)[Len(s) + 1] = x
      /\ \A j \in 1..Len(s) : Append(s, x)[j] = s[j]
  OBVIOUS
<1>2. Len(s) + 1 \in DOMAIN Append(s, x)
  BY <1>1
<1>3. Has(Append(s, x), x)
  BY <1>1, <1>2 DEF Has
<1>4. \A j \in 1..Len(s) : j \in 1..(Len(s) + 1)
  BY <1>1
<1> QED BY <1>1, <1>3, <1>4 DEF Has

(* So does concatenation.                                                   *)
LEMMA ConcatKeeps ==
    ASSUME NEW C, NEW s \in Seq(C), NEW z \in Seq(C)
    PROVE  /\ s \o z \in Seq(C)
           /\ \A y : Has(s, y) \/ Has(z, y) => Has(s \o z, y)
<1>1. /\ s \o z \in Seq(C) /\ Len(s) \in Nat /\ Len(z) \in Nat
      /\ DOMAIN (s \o z) = 1..(Len(s) + Len(z))
      /\ DOMAIN s = 1..Len(s) /\ DOMAIN z = 1..Len(z)
      /\ \A j \in 1..Len(s) : (s \o z)[j] = s[j]
      /\ \A j \in 1..Len(z) : (s \o z)[Len(s) + j] = z[j]
  OBVIOUS
<1>2. ASSUME NEW y, Has(s, y) PROVE Has(s \o z, y)
  <2>1. PICK j \in 1..Len(s) : s[j] = y
    BY <1>1, <1>2 DEF Has
  <2>2. j \in DOMAIN (s \o z) /\ (s \o z)[j] = y
    BY <1>1, <2>1
  <2> QED BY <2>2 DEF Has
<1>3. ASSUME NEW y, Has(z, y) PROVE Has(s \o z, y)
  <2>1. PICK j \in 1..Len(z) : z[j] = y
    BY <1>1, <1>3 DEF Has
  <2>2. Len(s) + j \in DOMAIN (s \o z) /\ (s \o z)[Len(s) + j] = y
    BY <1>1, <2>1
  <2> QED BY <2>2 DEF Has
<1> QED BY <1>1, <1>2, <1>3

(* Candidates that differ in value are candidates.                          *)
LEMMA DistinctAreCandidates ==
    ASSUME NEW C, NEW c \in Seq(C)
    PROVE  Distinct(c) \in Seq(C)
<1>1. PICK P \in [0..Len(c) -> Seq(C)] : P[Len(c)] = Distinct(c)
  BY DistinctIsFold
<1>2. Len(c) \in 0..Len(c)
  OBVIOUS
<1> QED BY <1>1, <1>2

(* Of equal candidates one is left.                                         *)
LEMMA UniqueKeepsAll ==
    ASSUME NEW C, NEW c \in Seq(C)
    PROVE  /\ Unique(c) \in Seq(C)
           /\ \A y : Has(c, y) => Has(Unique(c), y)
<1>1. PICK P \in [0..Len(c) -> Seq(C)] :
             /\ P[0] = <<>>
             /\ \A n \in 1..Len(c) : P[n] = UniqueStep(P[n - 1], c[n])
             /\ P[Len(c)] = Unique(c)
  BY UniqueIsFold
<1>2. PICK N \in Nat : N = Len(c) /\ DOMAIN c = 1..N
  OBVIOUS
<1> DEFINE T == {n \in 0..N : \A i \in 1..n : Has(P[n], c[i])}
<1>3. 0 \in T
  OBVIOUS
<1>4. ASSUME NEW n \in 0..(N - 1), n \in T PROVE n + 1 \in T
  <2>1. /\ n + 1 \in 1..N /\ (n + 1) - 1 = n /\ n \in 0..N
        /\ P[n] \in Seq(C) /\ c[n + 1] \in C
    BY <1>1, <1>2
  <2>2. P[n + 1] = UniqueStep(P[n], c[n + 1])
    BY <1>1, <1>2, <2>1
  <2>3. /\ Has(P[n + 1], c[n + 1])
        /\ \A y : Has(P[n], y) => Has(P[n + 1], y)
    <3>1. CASE \E i \in DOMAIN P[n] : P[n][i] = c[n + 1]
      BY <2>2, <3>1 DEF UniqueStep, Has
    <3>2. CASE ~ \E i \in DOMAIN P[n] : P[n][i] = c[n + 1]
      BY <2>1, <2>2, <3>2, AppendKeeps DEF UniqueStep
    <3> QED BY <3>1, <3>2
  <2>4. ASSUME NEW i \in 1..(n + 1) PROVE Has(P[n + 1], c[i])
    <3>1. i = n + 1 \/ i \in 1..n
      OBVIOUS
    <3> QED BY <1>4, <2>3, <3>1
  <2> QED BY <2>1, <2>4
<1>5. \A n \in 0..N : n \in T
  <2> HIDE DEF T
  <2> QED BY <1>3, <1>4, UpTo
<1>6. N \in 0..N
  OBVIOUS
<1> QED BY <1>1, <1>2, <1>5, <1>6 DEF Has

(* What is found in a material is a candidate.                              *)
LEMMA ReadingFindsAll ==
    ASSUME NEW f, NEW t, NEW file, NEW text, NEW E, NEW C,
           NEW said \in Seq(E), text[f] = said,
           ReadsInto(f, t, E, C)
    PROVE  /\ CandidatesIn(f, t, file, text) \in Seq(C)
           /\ \A i \in DOMAIN said : Found(file, said[i]) =>
                Has(CandidatesIn(f, t, file, text), Candidate(f, t, said[i]))
<1>0. ReadStepwise(f, t, file, text, said, C)
  BY ReadingIsFold
<1>1. PICK P \in [0..Len(said) -> Seq(C)] :
             /\ P[0] = <<>>
             /\ \A n \in 1..Len(said) : P[n] = ReadStep(f, t, file, P[n - 1], said[n])
             /\ P[Len(said)] = CandidatesIn(f, t, file, text)
  BY <1>0 DEF ReadStepwise
<1>2. PICK N \in Nat : N = Len(said) /\ DOMAIN said = 1..N
  OBVIOUS
<1> DEFINE T == {n \in 0..N : \A i \in 1..n :
                   Found(file, said[i]) => Has(P[n], Candidate(f, t, said[i]))}
<1>3. 0 \in T
  OBVIOUS
<1>4. ASSUME NEW n \in 0..(N - 1), n \in T PROVE n + 1 \in T
  <2>1. /\ n + 1 \in 1..N /\ (n + 1) - 1 = n /\ n \in 0..N
        /\ P[n] \in Seq(C) /\ said[n + 1] \in E
    BY <1>1, <1>2
  <2>2. P[n + 1] = ReadStep(f, t, file, P[n], said[n + 1])
    BY <1>1, <1>2, <2>1
  <2>3. PICK x \in C : x = Candidate(f, t, said[n + 1])
    BY <2>1 DEF ReadsInto
  <2>4. /\ Found(file, said[n + 1]) => Has(P[n + 1], x)
        /\ \A y : Has(P[n], y) => Has(P[n + 1], y)
    <3>1. CASE ~Found(file, said[n + 1])
      BY <2>2, <3>1 DEF ReadStep
    <3>2. CASE Found(file, said[n + 1])
      BY <2>1, <2>2, <2>3, <3>2, AppendKeeps DEF ReadStep
    <3> QED BY <3>1, <3>2
  <2>5. ASSUME NEW i \in 1..(n + 1), Found(file, said[i])
        PROVE  Has(P[n + 1], Candidate(f, t, said[i]))
    <3>1. i = n + 1 \/ i \in 1..n
      OBVIOUS
    <3> QED BY <1>4, <2>3, <2>4, <2>5, <3>1
  <2> QED BY <2>1, <2>5
<1>5. \A n \in 0..N : n \in T
  <2> HIDE DEF T
  <2> QED BY <1>3, <1>4, UpTo
<1>6. N \in 0..N
  OBVIOUS
<1> QED BY <1>1, <1>2, <1>5, <1>6

(* A candidate of one material is one of all.                               *)
LEMMA AllHasEach ==
    ASSUME NEW f, NEW files, NEW texts, NEW order \in Seq(DocumentTypes), NEW C,
           \A t \in DocumentTypes : CandidatesIn(f, t, files[t], texts[t]) \in Seq(C)
    PROVE  /\ AllCandidates(f, files, texts, order) \in Seq(C)
           /\ \A i \in DOMAIN order : \A y :
                Has(CandidatesIn(f, order[i], files[order[i]], texts[order[i]]), y)
                  => Has(AllCandidates(f, files, texts, order), y)
<1>1. PICK P \in [0..Len(order) -> Seq(C)] :
             /\ P[0] = <<>>
             /\ \A n \in 1..Len(order) :
                  P[n] = P[n - 1] \o CandidatesIn(f, order[n], files[order[n]], texts[order[n]])
             /\ P[Len(order)] = AllCandidates(f, files, texts, order)
  BY AllIsFold
<1>2. PICK N \in Nat : N = Len(order) /\ DOMAIN order = 1..N
  OBVIOUS
<1>3. PICK Of : Of = [i \in 1..N |-> CandidatesIn(f, order[i], files[order[i]], texts[order[i]])]
  OBVIOUS
<1>4. \A i \in 1..N : Of[i] \in Seq(C)
  BY <1>2, <1>3
<1> DEFINE T == {n \in 0..N : \A i \in 1..n : \A y : Has(Of[i], y) => Has(P[n], y)}
<1>5. 0 \in T
  OBVIOUS
<1>6. ASSUME NEW n \in 0..(N - 1), n \in T PROVE n + 1 \in T
  <2>1. /\ n + 1 \in 1..N /\ (n + 1) - 1 = n /\ n \in 0..N
        /\ P[n] \in Seq(C) /\ Of[n + 1] \in Seq(C)
    BY <1>1, <1>2, <1>4
  <2>2. P[n + 1] = P[n] \o Of[n + 1]
    BY <1>1, <1>2, <1>3, <2>1
  <2>3. \A y : Has(P[n], y) \/ Has(Of[n + 1], y) => Has(P[n + 1], y)
    BY <2>1, <2>2, ConcatKeeps
  <2>4. ASSUME NEW i \in 1..(n + 1), NEW y, Has(Of[i], y) PROVE Has(P[n + 1], y)
    <3>1. i = n + 1 \/ i \in 1..n
      OBVIOUS
    <3> QED BY <1>6, <2>3, <2>4, <3>1
  <2> QED BY <2>1, <2>4
<1>7. \A n \in 0..N : n \in T
  <2> HIDE DEF T
  <2> QED BY <1>5, <1>6, UpTo
<1>8. N \in 0..N
  OBVIOUS
<1>9. \A i \in 1..N : \A y : Has(Of[i], y) => Has(P[N], y)
  BY <1>7, <1>8
<1>10. P[N] = AllCandidates(f, files, texts, order) /\ P[N] \in Seq(C)
  BY <1>1, <1>2, <1>8
<1>11. \A i \in 1..N : Of[i] = CandidatesIn(f, order[i], files[order[i]], texts[order[i]])
  BY <1>3
<1> QED BY <1>2, <1>9, <1>10, <1>11

-----------------------------------------------------------------------------
(* The tables of facts.                                                     *)
Evidence == (DocumentTypes \X Blocks) \cup ({"manual"} \X Fields)
ReadOf(f) == [value : FieldValues[f] \cup {None}, evidence : DocumentTypes \X Blocks]
CandidateOf(f) == [value : FieldValues[f] \cup {None}, evidence : Evidence, selected : BOOLEAN]
FactOf(f) == [candidates : Seq(CandidateOf(f)), value : FieldValues[f] \cup {None}]
Tables == {fs \in [Fields -> UNION {FactOf(f) : f \in Fields}] :
             \A f \in Fields : fs[f] \in FactOf(f)}

(* A table is one of facts, field by field.                                 *)
LEMMA TablesByField ==
    ASSUME NEW fs, DOMAIN fs = Fields, fs = [f \in Fields |-> fs[f]],
           \A f \in Fields : fs[f] \in FactOf(f)
    PROVE  fs \in Tables
BY DEF Tables

(* What a parser leaves of a file it was given.                             *)
LEMMA ParsedTexts ==
    ASSUME NEW x \in Inputs, NEW t \in DocumentTypes, NEW m \in {"off", "down", "up"},
           NEW f \in Fields
    PROVE  ParseDocument(x.files[t], m).text[f] \in Seq(Entries(f))
<1>1. /\ x.files[t].text[f] \in Seq(Entries(f)) /\ x.files[t].scan[f] \in Seq(Entries(f))
      /\ Nothing[f] \in Seq(Entries(f))
  BY InputsAssumption DEF Nothing
<1>2. PICK file : file = x.files[t]
  OBVIOUS
<1>3. \/ ParsePdf(file, m).text = file.text
      \/ ParsePdf(file, m).text = file.scan
      \/ ParsePdf(file, m).text = Nothing
  BY DEF ParsePdf, ForReview, ReadAs
<1>4. \/ ParseDocument(file, m).text = file.text
      \/ ParseDocument(file, m).text = file.scan
      \/ ParseDocument(file, m).text = Nothing
  BY <1>3 DEF ParseDocument, ForReview, ReadAs
<1> QED BY <1>1, <1>2, <1>4

(* Every candidate of a field is of its type, and what is found of it in    *)
(* any material is one.                                                     *)
LEMMA ExtractedAreTyped ==
    ASSUME NEW x \in Inputs, NEW m \in {"off", "down", "up"}, NEW f \in Fields, NEW texts,
           \A t \in DocumentTypes : texts[t] = ParseDocument(x.files[t], m).text
    PROVE  /\ ExtractCandidates(x.files, texts, x.order)[f] \in Seq(ReadOf(f))
           /\ \A t \in DocumentTypes : \A i \in DOMAIN texts[t][f] :
                Found(x.files[t], texts[t][f][i]) =>
                  Has(ExtractCandidates(x.files, texts, x.order)[f],
                      Candidate(f, t, texts[t][f][i]))
<1>1. \A t \in DocumentTypes : texts[t][f] \in Seq(Entries(f))
  BY ParsedTexts
<1>2. ASSUME NEW t \in DocumentTypes PROVE ReadsInto(f, t, Entries(f), ReadOf(f))
  BY ValuesAssumption DEF ReadsInto, Candidate, ReadOf, Entries
<1>3. ASSUME NEW t \in DocumentTypes
      PROVE  /\ CandidatesIn(f, t, x.files[t], texts[t]) \in Seq(ReadOf(f))
             /\ \A i \in DOMAIN texts[t][f] : Found(x.files[t], texts[t][f][i]) =>
                  Has(CandidatesIn(f, t, x.files[t], texts[t]),
                      Candidate(f, t, texts[t][f][i]))
  <2>1. PICK said \in Seq(Entries(f)) : texts[t][f] = said
    BY <1>1
  <2>2. PICK text : text = texts[t]
    OBVIOUS
  <2> QED BY <1>2, <2>1, <2>2, ReadingFindsAll
<1>4. x.order \in Seq(DocumentTypes) /\ \A t \in DocumentTypes : Has(x.order, t)
  BY InputsAssumption DEF Has
<1>5. PICK order \in Seq(DocumentTypes) : order = x.order
  BY <1>4
<1>6. PICK all : all = AllCandidates(f, x.files, texts, x.order)
  OBVIOUS
<1>7. /\ all \in Seq(ReadOf(f))
      /\ \A i \in DOMAIN x.order : \A y :
           Has(CandidatesIn(f, x.order[i], x.files[x.order[i]], texts[x.order[i]]), y)
             => Has(all, y)
  BY <1>3, <1>5, <1>6, AllHasEach
<1>8. ExtractCandidates(x.files, texts, x.order)[f] = Unique(all)
  BY <1>6 DEF ExtractCandidates, AllCandidates
<1>9. ASSUME NEW t \in DocumentTypes, NEW y, Has(CandidatesIn(f, t, x.files[t], texts[t]), y)
      PROVE  Has(Unique(all), y)
  <2>1. PICK i \in DOMAIN x.order : x.order[i] = t
    BY <1>4 DEF Has
  <2>2. Has(all, y)
    BY <1>7, <1>9, <2>1
  <2> QED BY <1>7, <2>2, UniqueKeepsAll
<1>10. Unique(all) \in Seq(ReadOf(f))
  BY <1>7, UniqueKeepsAll
<1> QED BY <1>3, <1>8, <1>9, <1>10

-----------------------------------------------------------------------------
(* What build_fact_payload makes of the candidates.                         *)

(* Candidates that have one value between them all have that one.           *)
LEMMA OneValue ==
    ASSUME NEW C, NEW c \in Seq(C), Cardinality(Values(c)) = 1
    PROVE  c # <<>> /\ Values(c) = {c[1].value}
<1>1. PICK N \in Nat : N = Len(c) /\ DOMAIN c = 1..N
  OBVIOUS
<1>2. PICK g : g = [i \in 1..N |-> c[i].value]
  OBVIOUS
<1>3. PICK T : T = {c[i].value : i \in 1..N}
  OBVIOUS
<1>4. g \in [1..N -> T] /\ \A y \in T : \E i \in 1..N : g[i] = y
  BY <1>2, <1>3
<1>5. g \in Surjection(1..N, T)
  BY <1>4, Fun_IsSurj
<1>6. IsFiniteSet(1..N)
  BY FS_Interval
<1>7. IsFiniteSet(T)
  BY <1>5, <1>6, FS_Surjection
<1>8. Values(c) = T
  BY <1>1, <1>3 DEF Values
<1>9. PICK v : T = {v}
  BY <1>7, <1>8, FS_Singleton
<1>10. N # 0
  BY <1>3, <1>9
<1>11. 1 \in 1..N /\ c[1].value \in T
  BY <1>3, <1>10
<1> QED BY <1>1, <1>8, <1>9, <1>10, <1>11

Agreed(fact) == fact.value # None => fact.candidates # <<>> /\ Values(fact.candidates) = {fact.value}
Unselected(fact) == \A i \in DOMAIN fact.candidates : ~fact.candidates[i].selected

Recorded(read, fact) ==
    /\ DOMAIN fact.candidates = DOMAIN read
    /\ \A i \in DOMAIN read : /\ fact.candidates[i].value = read[i].value
                              /\ fact.candidates[i].evidence = read[i].evidence

(* build_fact_payload gives a table whose values are agreed and whose       *)
(* candidates are those it was given.                                       *)
LEMMA PayloadIsTable ==
    ASSUME NEW cands, \A f \in Fields : cands[f] \in Seq(ReadOf(f))
    PROVE  /\ Payload(cands) \in Tables
           /\ \A f \in Fields : /\ Agreed(Payload(cands)[f]) /\ Unselected(Payload(cands)[f])
                                /\ Recorded(cands[f], Payload(cands)[f])
<1>1. ASSUME NEW f \in Fields
      PROVE  /\ Payload(cands)[f] \in FactOf(f)
             /\ Agreed(Payload(cands)[f]) /\ Unselected(Payload(cands)[f])
             /\ Recorded(cands[f], Payload(cands)[f])
  <2>1. PICK c \in Seq(ReadOf(f)) : c = cands[f]
    BY <1>1
  <2>2. PICK N \in Nat : N = Len(c) /\ DOMAIN c = 1..N
    OBVIOUS
  <2>3. PICK new : new = [i \in DOMAIN c |-> [value |-> c[i].value, evidence |-> c[i].evidence,
                                              selected |-> FALSE]]
    OBVIOUS
  <2>4. PICK v : v = IF Cardinality(Values(c)) = 1 THEN c[1].value ELSE None
    OBVIOUS
  <2>5. PICK fact : fact = [candidates |-> new, value |-> v]
    OBVIOUS
  <2>6. Payload(cands)[f] = fact
    BY <2>1, <2>3, <2>4, <2>5 DEF Payload
  <2>7. \A i \in 1..N : c[i] \in ReadOf(f)
    BY <2>2
  <2>8. ASSUME NEW i \in 1..N
        PROVE  /\ new[i].value = c[i].value /\ new[i].evidence = c[i].evidence
               /\ new[i].selected = FALSE
               /\ new[i] \in CandidateOf(f)
    BY <2>2, <2>3, <2>7 DEF CandidateOf, ReadOf, Evidence
  <2>9. DOMAIN new = 1..N
    BY <2>2, <2>3
  <2>10. new \in Seq(CandidateOf(f))
    <3>1. new = [i \in 1..N |-> new[i]]
      BY <2>2, <2>3
    <3>2. new \in [1..N -> CandidateOf(f)]
      BY <2>8, <3>1
    <3> QED BY <3>2
  <2>11. Values(new) = Values(c)
    BY <2>2, <2>8, <2>9 DEF Values
  <2>12. v # None => Values(c) = {v} /\ N # 0
    BY <2>2, <2>4, OneValue
  <2>13. v \in FieldValues[f] \cup {None}
    <3>1. CASE v = None
      BY <3>1
    <3>2. CASE v # None
      <4>1. N # 0 /\ v = c[1].value /\ 1 \in 1..N
        BY <2>4, <2>12, <3>2
      <4>2. c[1] \in ReadOf(f)
        BY <2>7, <4>1
      <4> QED BY <4>1, <4>2 DEF ReadOf
    <3> QED BY <3>1, <3>2
  <2>14. fact \in FactOf(f)
    BY <2>5, <2>10, <2>13 DEF FactOf
  <2>15. Agreed(fact)
    BY <2>5, <2>9, <2>11, <2>12 DEF Agreed
  <2>16. Unselected(fact)
    BY <2>5, <2>8, <2>9 DEF Unselected
  <2>17. Recorded(c, fact)
    BY <2>2, <2>5, <2>8, <2>9 DEF Recorded
  <2> QED BY <2>1, <2>6, <2>14, <2>15, <2>16, <2>17
<1>2. DOMAIN Payload(cands) = Fields /\ Payload(cands) = [f \in Fields |-> Payload(cands)[f]]
  BY DEF Payload
<1>3. PICK fs : fs = Payload(cands)
  OBVIOUS
<1>4. fs \in Tables
  BY <1>1, <1>2, <1>3, TablesByField
<1> QED BY <1>1, <1>3, <1>4

-----------------------------------------------------------------------------
(* What the rulings of a request make of the facts.                         *)

(* A decision selects a source, corrects a value or asks for material.      *)
LEMMA RulingKinds ==
    ASSUME NEW d \in Rulings
    PROVE  /\ d.field \in Fields
           /\ \/ d.action = "SELECT_SOURCE"
              \/ d.action = "CORRECT_VALUE" /\ d.with \in Corrections[d.field]
              \/ d.action = "REQUEST_RESUBMISSION"
<1>1. PICK f \in Conflicts :
        \/ \E e \in CandidateEvidence(facts[f].candidates) : d = Ruling(f, "SELECT_SOURCE", e)
        \/ \E raw \in Corrections[f] : d = Ruling(f, "CORRECT_VALUE", raw)
        \/ d = Ruling(f, "REQUEST_RESUBMISSION", None)
  BY DEF Rulings
<1>2. f \in Fields
  BY <1>1 DEF Conflicts
<1> QED BY <1>1, <1>2 DEF Ruling

(* A source that is accepted is a candidate of the field.                   *)
LEMMA SourceIsCandidate ==
    ASSUME facts \in Tables, NEW d \in Rulings, Accepted(d), d.action = "SELECT_SOURCE"
    PROVE  \E i \in DOMAIN facts[d.field].candidates :
             /\ facts[d.field].candidates[i].value = Source(d).value
             /\ facts[d.field].candidates[i].evidence = d.with
<1>1. PICK f \in Fields : f = d.field
  BY RulingKinds
<1>2. facts[f] \in FactOf(f)
  BY <1>1 DEF Tables
<1>3. PICK c \in Seq(CandidateOf(f)) : c = facts[f].candidates
  BY <1>2 DEF FactOf
<1>4. PICK C : C = {c[i] : i \in DOMAIN c}
  OBVIOUS
<1>5. c \in Seq(C)
  <2>1. PICK N \in Nat : N = Len(c) /\ DOMAIN c = 1..N /\ c = [i \in 1..N |-> c[i]]
    OBVIOUS
  <2>2. c \in [1..N -> C]
    BY <1>4, <2>1
  <2> QED BY <2>2
<1>6. PICK s \in Seq(C) : s = Distinct(c)
  BY <1>5, DistinctAreCandidates
<1>7. PICK M : M = FromBlock(d)
  OBVIOUS
<1>8. M = {i \in DOMAIN s : s[i].evidence = d.with}
  BY <1>1, <1>3, <1>6, <1>7 DEF FromBlock
<1>9. M # {} /\ M \subseteq Nat
  <2>1. DOMAIN s \subseteq Nat
    OBVIOUS
  <2> QED BY <1>7, <1>8, <2>1 DEF Accepted
<1>10. PICK x \in M : \A y \in M : x <= y
  BY <1>9, LeastNat
<1>11. Min(M) \in M
  BY <1>10, Zenon DEF Min
<1>12. PICK k \in M : k = Min(M)
  BY <1>11
<1>13. k \in DOMAIN s /\ s[k].evidence = d.with /\ s[k] \in C
  BY <1>8, <1>12
<1>14. Source(d) = s[k]
  BY <1>1, <1>3, <1>6, <1>7, <1>12 DEF Source
<1>15. PICK i \in DOMAIN c : s[k] = c[i]
  BY <1>4, <1>13
<1> QED BY <1>1, <1>3, <1>13, <1>14, <1>15

(* No ruling takes a candidate away, ...                                    *)
Builds(fs) ==
    \A f \in Fields : \A i \in DOMAIN facts[f].candidates :
      /\ i \in DOMAIN fs[f].candidates
      /\ fs[f].candidates[i].value = facts[f].candidates[i].value
      /\ fs[f].candidates[i].evidence = facts[f].candidates[i].evidence

(* ... and what it asks for is done, and marked.                            *)
SettledAs(fact, d) ==
    /\ d.action = "CORRECT_VALUE" => fact.value = NormalizeValue(d.field, d.with)
    /\ \E i \in DOMAIN fact.candidates :
         /\ fact.candidates[i].value = fact.value
         /\ fact.candidates[i].selected
         /\ d.action = "SELECT_SOURCE" => fact.candidates[i].evidence = d.with

Applies(d) ==
    d \in Rulings /\ Accepted(d) /\ d.action # "REQUEST_RESUBMISSION"

(* A selection settles its field as the candidate it names.                 *)
LEMMA SelectionSettles ==
    ASSUME facts \in Tables, NEW fs \in Tables, Builds(fs), NEW d, Applies(d),
           d.action = "SELECT_SOURCE", NEW f \in Fields, f = d.field
    PROVE  /\ Apply(fs, d)[f] \in FactOf(f)
           /\ \A i \in DOMAIN fs[f].candidates :
                /\ i \in DOMAIN Apply(fs, d)[f].candidates
                /\ Apply(fs, d)[f].candidates[i].value = fs[f].candidates[i].value
                /\ Apply(fs, d)[f].candidates[i].evidence = fs[f].candidates[i].evidence
           /\ SettledAs(Apply(fs, d)[f], d)
<1>0. d \in Rulings /\ Accepted(d)
  BY DEF Applies
<1>1. fs[f] \in FactOf(f) /\ fs = [g \in Fields |-> fs[g]] /\ facts[f] \in FactOf(f)
  BY DEF Tables
<1>2. PICK c \in Seq(CandidateOf(f)) : c = fs[f].candidates
  BY <1>1 DEF FactOf
<1>3. PICK N \in Nat : N = Len(c) /\ DOMAIN c = 1..N
  OBVIOUS
<1>4. PICK new : new = Marked(c, d.with)
  OBVIOUS
<1>5. PICK fact : fact = [candidates |-> new, value |-> Source(d).value]
  OBVIOUS
<1>6. Apply(fs, d)[f] = fact
  BY <1>1, <1>2, <1>4, <1>5 DEF Apply
<1>7. DOMAIN new = 1..N /\ new = [i \in 1..N |-> new[i]]
  BY <1>3, <1>4 DEF Marked
<1>8. ASSUME NEW i \in 1..N
      PROVE  /\ new[i] \in CandidateOf(f)
             /\ new[i].value = c[i].value /\ new[i].evidence = c[i].evidence
             /\ new[i].selected = (c[i].evidence = d.with)
  <2>1. PICK x \in CandidateOf(f) : x = c[i]
    BY <1>3
  <2>2. new[i] = [x EXCEPT !.selected = (x.evidence = d.with)]
    BY <1>3, <1>4, <2>1 DEF Marked
  <2>3. (x.evidence = d.with) \in BOOLEAN
    OBVIOUS
  <2> QED BY <2>1, <2>2, <2>3 DEF CandidateOf
<1>9. new \in Seq(CandidateOf(f))
  <2>1. new \in [1..N -> CandidateOf(f)]
    BY <1>7, <1>8
  <2> QED BY <2>1
<1>10. PICK i \in DOMAIN facts[f].candidates :
         /\ facts[f].candidates[i].value = Source(d).value
         /\ facts[f].candidates[i].evidence = d.with
  BY <1>0, SourceIsCandidate
<1>11. i \in 1..N /\ c[i].value = Source(d).value /\ c[i].evidence = d.with
  BY <1>2, <1>3, <1>10 DEF Builds
<1>12. PICK v \in FieldValues[f] \cup {None} : v = Source(d).value
  <2>1. c[i] \in CandidateOf(f)
    BY <1>3, <1>11
  <2> QED BY <1>11, <2>1 DEF CandidateOf
<1>13. fact \in FactOf(f)
  BY <1>5, <1>9, <1>12 DEF FactOf
<1>14. SettledAs(fact, d)
  BY <1>5, <1>7, <1>8, <1>11 DEF SettledAs
<1>15. \A j \in DOMAIN fs[f].candidates :
         /\ j \in DOMAIN fact.candidates
         /\ fact.candidates[j].value = fs[f].candidates[j].value
         /\ fact.candidates[j].evidence = fs[f].candidates[j].evidence
  BY <1>2, <1>3, <1>5, <1>7, <1>8
<1> QED BY <1>6, <1>13, <1>14, <1>15

(* A correction settles its field as what it enters.                        *)
LEMMA CorrectionSettles ==
    ASSUME NEW fs \in Tables, NEW d, Applies(d),
           d.action = "CORRECT_VALUE", NEW f \in Fields, f = d.field
    PROVE  /\ Apply(fs, d)[f] \in FactOf(f)
           /\ \A i \in DOMAIN fs[f].candidates :
                /\ i \in DOMAIN Apply(fs, d)[f].candidates
                /\ Apply(fs, d)[f].candidates[i] = fs[f].candidates[i]
           /\ SettledAs(Apply(fs, d)[f], d)
<1>0. d \in Rulings
  BY DEF Applies
<1>1. fs[f] \in FactOf(f) /\ fs = [g \in Fields |-> fs[g]]
  BY DEF Tables
<1>2. PICK c \in Seq(CandidateOf(f)) : c = fs[f].candidates
  BY <1>1 DEF FactOf
<1>3. PICK v \in FieldValues[f] \cup {None} : v = NormalizeValue(f, d.with)
  BY <1>0, RulingKinds, ValuesAssumption
<1>4. PICK entered : entered = Manual(d)
  OBVIOUS
<1>5. entered \in CandidateOf(f) /\ entered.value = v /\ entered.selected = TRUE
  <2>1. PICK e \in Evidence : e = <<"manual", f>>
    BY DEF Evidence
  <2>2. entered = [value |-> v, evidence |-> e, selected |-> TRUE]
    BY <1>3, <1>4, <2>1 DEF Manual
  <2> QED BY <2>2 DEF CandidateOf
<1>6. PICK new : new = Append(c, entered)
  OBVIOUS
<1>7. PICK fact : fact = [candidates |-> new, value |-> v]
  OBVIOUS
<1>8. Apply(fs, d)[f] = fact
  BY <1>1, <1>2, <1>4, <1>5, <1>6, <1>7 DEF Apply
<1>9. fact \in FactOf(f)
  <2>1. new \in Seq(CandidateOf(f))
    BY <1>5, <1>6, AppendKeeps
  <2> QED BY <1>7, <2>1 DEF FactOf
<1>10. PICK N \in Nat : N = Len(c) /\ DOMAIN c = 1..N
  OBVIOUS
<1>11. /\ DOMAIN new = 1..(N + 1) /\ new[N + 1] = entered
       /\ \A i \in 1..N : i \in 1..(N + 1) /\ new[i] = c[i]
  BY <1>5, <1>6, <1>10
<1>12. SettledAs(fact, d)
  <2>1. N + 1 \in DOMAIN new /\ new[N + 1].value = v /\ new[N + 1].selected
    BY <1>5, <1>10, <1>11
  <2> QED BY <1>3, <1>7, <2>1 DEF SettledAs
<1>13. \A i \in DOMAIN fs[f].candidates :
         i \in DOMAIN fact.candidates /\ fact.candidates[i] = fs[f].candidates[i]
  BY <1>2, <1>7, <1>10, <1>11
<1> QED BY <1>8, <1>9, <1>12, <1>13

(* Either leaves the other fields.                                          *)
LEMMA RulingSettles ==
    ASSUME facts \in Tables, NEW fs \in Tables, Builds(fs), NEW d, Applies(d)
    PROVE  /\ Apply(fs, d) \in Tables /\ Builds(Apply(fs, d))
           /\ \A g \in Fields \ {d.field} : Apply(fs, d)[g] = fs[g]
           /\ SettledAs(Apply(fs, d)[d.field], d)
<1>1. PICK f \in Fields : f = d.field
  BY RulingKinds DEF Applies
<1>2. PICK new : new = Apply(fs, d)
  OBVIOUS
<1>3. fs = [g \in Fields |-> fs[g]] /\ \A g \in Fields : fs[g] \in FactOf(g)
  BY DEF Tables
<1>4. DOMAIN new = Fields /\ new = [g \in Fields |-> new[g]]
  BY <1>2, <1>3 DEF Apply
<1>5. \A g \in Fields \ {f} : new[g] = fs[g]
  BY <1>1, <1>2, <1>3 DEF Apply
<1>6. /\ new[f] \in FactOf(f)
      /\ \A i \in DOMAIN fs[f].candidates :
           /\ i \in DOMAIN new[f].candidates
           /\ new[f].candidates[i].value = fs[f].candidates[i].value
           /\ new[f].candidates[i].evidence = fs[f].candidates[i].evidence
      /\ SettledAs(new[f], d)
  <2>1. CASE d.action = "SELECT_SOURCE"
    BY <1>1, <1>2, <2>1, SelectionSettles
  <2>2. CASE d.action = "CORRECT_VALUE"
    BY <1>1, <1>2, <2>2, CorrectionSettles
  <2> QED BY <2>1, <2>2, RulingKinds DEF Applies
<1>7. new \in Tables
  BY <1>3, <1>4, <1>5, <1>6, TablesByField
<1>8. Builds(new)
  BY <1>5, <1>6 DEF Builds
<1> QED BY <1>1, <1>2, <1>5, <1>6, <1>7, <1>8

Built == {fs \in Tables : Builds(fs)}

AppliedInTurn(q, new) ==
    \E P \in [0..Len(q) -> Built] :
      /\ P[0] = facts
      /\ \A n \in 1..Len(q) : P[n] = Apply(P[n - 1], q[n])
      /\ P[Len(q)] = new

(* The decisions of a request are applied one after the other, ...          *)
LEMMA ApplyingIsFold ==
    ASSUME facts \in Tables, NEW q \in Seq(Rulings), \A i \in DOMAIN q : Applies(q[i])
    PROVE  AppliedInTurn(q, FoldLeft(Apply, facts, q))
<1>1. PICK N \in Nat : N = Len(q) /\ DOMAIN q = 1..N
  OBVIOUS
<1>2. PICK V : V = Built
  OBVIOUS
<1>3. facts \in V
  BY <1>2 DEF Built, Builds
<1>4. PICK G : G = [p \in (1..N) \X V |-> Apply(p[2], q[p[1]])]
  OBVIOUS
<1>5. ASSUME NEW n \in 1..N, NEW fs \in V
      PROVE  G[<<n, fs>>] = Apply(fs, q[n]) /\ G[<<n, fs>>] \in V
  <2>1. Applies(q[n]) /\ fs \in Tables /\ Builds(fs)
    BY <1>1, <1>2 DEF Built
  <2>2. Apply(fs, q[n]) \in V
    BY <1>2, <2>1, RulingSettles DEF Built
  <2> QED BY <1>4, <2>2
<1>6. G \in [(1..N) \X V -> V]
  BY <1>4, <1>5
<1>7. PICK h : Folds(h, N, V, facts, G)
  BY <1>3, <1>6, FoldExists
<1>8. h = [s \in SUBSET DOMAIN q |->
             IF s = {} THEN facts ELSE Apply(h[s \ {Max(s)}], q[Max(s)])]
  <2>1. ASSUME NEW s \in SUBSET (1..N), s # {}
        PROVE  h[s] = Apply(h[s \ {Max(s)}], q[Max(s)])
    <3>1. Max(s) \in 1..N /\ s \ {Max(s)} \in SUBSET (1..N)
      BY <2>1, GreatestIndex
    <3> QED BY <1>5, <1>7, <2>1, <3>1 DEF Folds
  <2> QED BY <1>1, <1>7, <2>1 DEF Folds
<1>9. PICK D : /\ D = CHOOSE g : g = [s \in SUBSET DOMAIN q |->
                      IF s = {} THEN facts ELSE Apply(g[s \ {Max(s)}], q[Max(s)])]
               /\ FoldLeft(Apply, facts, q) = D[DOMAIN q]
  BY DEF FoldLeft, MapThenFoldSet
<1>10. D = [s \in SUBSET (1..N) |->
              IF s = {} THEN facts ELSE Apply(D[s \ {Max(s)}], q[Max(s)])]
  BY <1>1, <1>8, <1>9, Zenon
<1>11. Steps(D, N, V, facts, G)
  <2>1. D[{}] = facts
    BY <1>10
  <2>2. ASSUME NEW n \in 1..N, D[1..(n - 1)] \in V
        PROVE  D[1..n] = G[<<n, D[1..(n - 1)]>>]
    <3>1. D[1..n] = Apply(D[1..(n - 1)], q[n])
      BY <1>10, PrefixMax
    <3> QED BY <1>5, <2>2, <3>1
  <2> QED BY <2>1, <2>2 DEF Steps
<1>12. Yields(D[1..N], N, V, facts, G)
  BY <1>3, <1>6, <1>11, FoldPrefixes
<1>13. FoldLeft(Apply, facts, q) = D[1..N]
  BY <1>1, <1>9
<1>14. \A n \in 1..N : n - 1 \in 0..N
  OBVIOUS
<1> QED BY <1>1, <1>2, <1>5, <1>12, <1>13, <1>14 DEF Stages, Yields, AppliedInTurn

(* The rulings of a request settle every field they name, the last one of   *)
(* each, and leave the others alone.                                        *)
NamedIn(q, f) == {i \in DOMAIN q : q[i].field = f}

(* ... so the last one on a field settles it.                               *)
LEMMA RequestSettles ==
    ASSUME facts \in Tables, NEW q \in Seq(Rulings), \A i \in DOMAIN q : Applies(q[i])
    PROVE  /\ FoldLeft(Apply, facts, q) \in Built
           /\ \A f \in Fields :
                IF NamedIn(q, f) = {} THEN FoldLeft(Apply, facts, q)[f] = facts[f]
                ELSE /\ Max(NamedIn(q, f)) \in NamedIn(q, f)
                     /\ SettledAs(FoldLeft(Apply, facts, q)[f], q[Max(NamedIn(q, f))])
<1>1. PICK new : new = FoldLeft(Apply, facts, q)
  OBVIOUS
<1>2. PICK N \in Nat : N = Len(q) /\ DOMAIN q = 1..N
  OBVIOUS
<1>3. PICK P \in [0..N -> Built] :
        /\ P[0] = facts
        /\ \A n \in 1..N : P[n] = Apply(P[n - 1], q[n])
        /\ P[N] = new
  BY <1>1, <1>2, ApplyingIsFold DEF AppliedInTurn
<1>4. new \in Built
  BY <1>3
<1>5. ASSUME NEW n \in 1..N
      PROVE  /\ \A g \in Fields \ {q[n].field} : P[n][g] = P[n - 1][g]
             /\ SettledAs(P[n][q[n].field], q[n])
  <2>1. P[n - 1] \in Tables /\ Builds(P[n - 1]) /\ Applies(q[n])
    BY <1>2, <1>3 DEF Built
  <2>2. PICK fs \in Tables : fs = P[n - 1]
    BY <2>1
  <2>3. P[n] = Apply(fs, q[n])
    BY <1>3, <2>2
  <2> QED BY <2>1, <2>2, <2>3, RulingSettles
<1>6. ASSUME NEW f \in Fields
      PROVE  IF NamedIn(q, f) = {} THEN new[f] = facts[f]
             ELSE /\ Max(NamedIn(q, f)) \in NamedIn(q, f)
                  /\ SettledAs(new[f], q[Max(NamedIn(q, f))])
  <2>1. PICK S : S = NamedIn(q, f)
    OBVIOUS
  <2>2. S = {i \in 1..N : q[i].field = f} /\ S \in SUBSET (1..N)
    BY <1>2, <2>1 DEF NamedIn
  <2>3. ASSUME NEW L \in 0..N, \A i \in S : i <= L PROVE P[N][f] = P[L][f]
    <3> DEFINE T == {n \in 0..N : n >= L => P[n][f] = P[L][f]}
    <3>1. 0 \in T
      OBVIOUS
    <3>2. ASSUME NEW n \in 0..(N - 1), n \in T PROVE n + 1 \in T
      <4>1. n + 1 \in 1..N /\ (n + 1) - 1 = n
        OBVIOUS
      <4>2. CASE n + 1 > L
        <5>1. n + 1 \notin S
          BY <2>3, <4>2
        <5>2. f # q[n + 1].field
          BY <2>2, <4>1, <5>1
        <5>3. P[n + 1][f] = P[n][f]
          BY <1>5, <4>1, <5>2
        <5>4. n >= L
          BY <4>2
        <5> QED BY <3>2, <4>1, <5>3, <5>4
      <4>3. CASE n + 1 <= L
        BY <4>1, <4>3
      <4> QED BY <4>2, <4>3
    <3>3. \A n \in 0..N : n \in T
      <4> HIDE DEF T
      <4> QED BY <3>1, <3>2, UpTo
    <3>4. N \in T
      BY <3>3
    <3> QED BY <3>4
  <2>4. CASE S = {}
    <3>1. P[N][f] = P[0][f]
      BY <2>3, <2>4
    <3> QED BY <1>3, <2>1, <2>4, <3>1
  <2>5. CASE S # {}
    <3>1. Max(S) \in S /\ \A i \in S : i <= Max(S)
      BY <2>2, <2>5, GreatestUpTo
    <3>2. PICK L \in S : L = Max(S)
      BY <3>1
    <3>3. L \in 1..N /\ q[L].field = f
      BY <2>2
    <3>4. P[N][f] = P[L][f]
      BY <2>3, <3>1, <3>2, <3>3
    <3>5. SettledAs(P[L][f], q[L])
      BY <1>5, <3>3
    <3> QED BY <1>3, <2>1, <2>5, <3>2, <3>4, <3>5
  <2> QED BY <2>4, <2>5
<1> QED BY <1>1, <1>4, <1>6

-----------------------------------------------------------------------------
(* The inductive invariant.                                                 *)

(* What is found of a field in a material is among its candidates.          *)
AllRead ==
    \A t \in DocumentTypes, f \in Fields :
      \A i \in DOMAIN Parsed(input.mineru)[t].text[f] :
        LET entry == Parsed(input.mineru)[t].text[f][i]
        IN  Found(input.files[t], entry) =>
              \E j \in DOMAIN facts[f].candidates :
                facts[f].candidates[j].value = NormalizeValue(f, Cut(f, entry.raw))

(* A value is that of a marked candidate, or of the first if none is.       *)
Backed(fact) ==
    fact.value # None =>
      \E i \in DOMAIN fact.candidates :
        /\ fact.candidates[i].value = fact.value
        /\ fact.candidates[i].selected \/ (i = 1 /\ Unselected(fact))

(* The last ruling on a field was done, and without one nothing was chosen. *)
RuledRight(f) ==
    IF NamedIn(rulings, f) = {} THEN Agreed(facts[f])
    ELSE LET last == Max(NamedIn(rulings, f))
         IN  /\ last \in NamedIn(rulings, f)
             /\ rulings[last].action \in {"SELECT_SOURCE", "CORRECT_VALUE"}
             /\ SettledAs(facts[f], rulings[last])

TypeInv ==
    /\ input \in Inputs
    /\ status \in RunStatus
    /\ facts \in Tables
    /\ DOMAIN documents = DocumentTypes /\ DOMAIN judged = DocumentTypes

EarlyInv ==
    status \in {"RUNNING", "WAITING_FACT_REVIEW"} =>
      /\ results = NoResults
      /\ rulings = <<>>
      /\ \A f \in Fields : Agreed(facts[f])

FactsInv ==
    /\ \A f \in Fields : Backed(facts[f])
    /\ status # "RUNNING" \/ facts # NoFacts => AllRead

VerdictInv ==
    Evaluated \/ status \in {"WAITING_REPORT_REVIEW", "COMPLETED"} =>
      /\ results = Evaluate(Context(facts, judged))
      /\ \A f \in Fields : RuledRight(f)

ReportInv ==
    status = "COMPLETED" =>
      /\ Summary(results) # "REVIEW_BLOCKED"
      /\ UnsupportedClaims(Context(facts, judged), results) = {}

FactReviewInv == TypeInv /\ EarlyInv /\ FactsInv /\ VerdictInv /\ ReportInv

(* FactReviewInv holds initially, ...                                       *)
LEMMA InitEstablishes == Init => FactReviewInv
<1> SUFFICES ASSUME Init PROVE FactReviewInv
  OBVIOUS
<1>1. ASSUME NEW f \in Fields
      PROVE  facts[f] \in FactOf(f) /\ Agreed(facts[f]) /\ Backed(facts[f])
  <2>1. facts[f] = [candidates |-> <<>>, value |-> None]
    BY DEF Init, NoFacts
  <2>2. <<>> \in Seq(CandidateOf(f))
    OBVIOUS
  <2>3. facts[f] \in FactOf(f)
    BY <2>1, <2>2 DEF FactOf
  <2>4. facts[f].value = None
    BY <2>1
  <2> QED BY <2>3, <2>4 DEF Agreed, Backed
<1>2. facts \in Tables
  <2>1. DOMAIN facts = Fields /\ facts = [f \in Fields |-> facts[f]]
    BY DEF Init, NoFacts
  <2> QED BY <1>1, <2>1, TablesByField
<1>3. TypeInv
  BY <1>2 DEF Init, TypeInv, RunStatus
<1> QED BY <1>1, <1>3 DEF Init, FactReviewInv, EarlyInv, FactsInv, VerdictInv, ReportInv, Evaluated

(* What is recorded of the candidates has all that was read.                *)
LEMMA ProcessPreserves == FactReviewInv /\ ProcessMaterials => FactReviewInv'
<1> SUFFICES ASSUME FactReviewInv, ProcessMaterials PROVE FactReviewInv'
  OBVIOUS
<1>1. PICK x \in Inputs : x = input
  BY DEF FactReviewInv, TypeInv
<1>2. PICK m \in {"off", "down", "up"} : m = x.mineru
  BY <1>1, InputsAssumption
<1>3. PICK texts : texts = [t \in DocumentTypes |-> Parsed(m)[t].text]
  OBVIOUS
<1>4. PICK cands : cands = ExtractCandidates(x.files, texts, x.order)
  OBVIOUS
<1>5. facts' = Payload(cands) /\ input' = x
  BY <1>1, <1>2, <1>3, <1>4 DEF ProcessMaterials
<1>6. PICK new : new = Payload(cands)
  OBVIOUS
<1>7. ASSUME NEW t \in DocumentTypes
      PROVE  texts[t] = ParseDocument(x.files[t], m).text /\ texts[t] = Parsed(m)[t].text
  BY <1>1, <1>3 DEF Parsed
<1>8. \A f \in Fields : cands[f] \in Seq(ReadOf(f))
  BY <1>4, <1>7, ExtractedAreTyped
<1>9. /\ new \in Tables
      /\ \A f \in Fields : Agreed(new[f]) /\ Unselected(new[f]) /\ Recorded(cands[f], new[f])
  BY <1>6, <1>8, PayloadIsTable
<1>10. ASSUME NEW f \in Fields PROVE Backed(new[f])
  <2>1. SUFFICES ASSUME new[f].value # None
        PROVE  \E i \in DOMAIN new[f].candidates :
                 /\ new[f].candidates[i].value = new[f].value
                 /\ i = 1 /\ Unselected(new[f])
    BY DEF Backed
  <2>2. new[f].candidates # <<>> /\ Values(new[f].candidates) = {new[f].value}
    BY <1>9, <2>1 DEF Agreed
  <2>3. PICK c \in Seq(CandidateOf(f)) : c = new[f].candidates
    BY <1>9 DEF Tables, FactOf
  <2>4. 1 \in DOMAIN c
    BY <2>2, <2>3
  <2>5. c[1].value \in Values(c)
    BY <2>4 DEF Values
  <2> QED BY <1>9, <2>2, <2>3, <2>4, <2>5
<1>11. ASSUME NEW t \in DocumentTypes, NEW f \in Fields, NEW i \in DOMAIN texts[t][f],
              Found(x.files[t], texts[t][f][i])
       PROVE  \E j \in DOMAIN new[f].candidates :
                new[f].candidates[j].value = NormalizeValue(f, Cut(f, texts[t][f][i].raw))
  <2>1. Has(cands[f], Candidate(f, t, texts[t][f][i]))
    BY <1>4, <1>7, <1>11, ExtractedAreTyped
  <2>2. PICK j \in DOMAIN cands[f] : cands[f][j] = Candidate(f, t, texts[t][f][i])
    BY <2>1 DEF Has
  <2>3. j \in DOMAIN new[f].candidates /\ new[f].candidates[j].value = cands[f][j].value
    BY <1>9 DEF Recorded
  <2> QED BY <2>2, <2>3 DEF Candidate
<1>12. AllRead'
  <2>1. \A t \in DocumentTypes : Parsed(input.mineru)'[t].text = texts[t]
    BY <1>2, <1>5, <1>7 DEF Parsed
  <2> QED BY <1>5, <1>6, <1>11, <2>1 DEF AllRead
<1>13. TypeInv'
  <2>1. input' \in Inputs /\ facts' \in Tables
    BY <1>5, <1>6, <1>9
  <2>2. /\ status' \in {"RUNNING", "WAITING_FACT_REVIEW"}
        /\ DOMAIN documents' = DocumentTypes /\ judged' = judged
    BY DEF ProcessMaterials
  <2> QED BY <2>1, <2>2 DEF FactReviewInv, TypeInv, RunStatus
<1>14. /\ status = "RUNNING" /\ status' \in {"RUNNING", "WAITING_FACT_REVIEW"}
       /\ results' = results /\ rulings' = rulings
  BY DEF ProcessMaterials
<1>15. EarlyInv'
  BY <1>5, <1>6, <1>9, <1>14 DEF FactReviewInv, EarlyInv, NoResults
<1>16. FactsInv'
  BY <1>5, <1>6, <1>10, <1>12 DEF FactsInv
<1>17. VerdictInv' /\ ReportInv'
  BY <1>14 DEF FactReviewInv, EarlyInv, VerdictInv, ReportInv, Evaluated, NoResults
<1> QED BY <1>13, <1>15, <1>16, <1>17 DEF FactReviewInv

(* What another Run makes of the materials changes nothing this one has.    *)
LEMMA AnotherRunPreserves == FactReviewInv /\ AnotherRunParses => FactReviewInv'
<1> SUFFICES ASSUME FactReviewInv, AnotherRunParses PROVE FactReviewInv'
  OBVIOUS
<1>1. /\ DOMAIN documents' = DocumentTypes
      /\ input' = input /\ facts' = facts /\ status' = status
      /\ rulings' = rulings /\ results' = results /\ judged' = judged
  BY DEF AnotherRunParses
<1>2. TypeInv' /\ EarlyInv'
  BY <1>1 DEF FactReviewInv, TypeInv, EarlyInv, NoResults
<1>3. FactsInv'
  BY <1>1 DEF FactReviewInv, FactsInv, AllRead, Parsed, NoFacts
<1>4. Context(facts, judged)' = Context(facts, judged) /\ NoResults' = NoResults
  BY <1>1 DEF Context, NoResults
<1>5. \A f \in Fields : RuledRight(f) => RuledRight(f)'
  BY <1>1 DEF RuledRight
<1>6. VerdictInv'
  BY <1>1, <1>4, <1>5 DEF FactReviewInv, VerdictInv, Evaluated
<1>7. ReportInv'
  BY <1>1, <1>4 DEF FactReviewInv, ReportInv
<1> QED BY <1>2, <1>3, <1>6, <1>7 DEF FactReviewInv

(* The rules read what the fact gate let through.                           *)
LEMMA EvaluatePreserves == FactReviewInv /\ EvaluateCore => FactReviewInv'
<1> SUFFICES ASSUME FactReviewInv, EvaluateCore PROVE FactReviewInv'
  OBVIOUS
<1>1. /\ status = "RUNNING" /\ status' = "WAITING_REPORT_REVIEW" /\ facts # NoFacts
      /\ results' = Evaluate(Context(facts, documents)) /\ judged' = documents
      /\ input' = input /\ documents' = documents /\ facts' = facts /\ rulings' = rulings
  BY DEF EvaluateCore
<1>2. TypeInv' /\ EarlyInv'
  BY <1>1 DEF FactReviewInv, TypeInv, EarlyInv, RunStatus
<1>3. FactsInv'
  BY <1>1 DEF FactReviewInv, FactsInv, AllRead, Parsed
<1>4. results' = Evaluate(Context(facts, judged))'
  BY <1>1 DEF Context
<1>5. ASSUME NEW f \in Fields PROVE RuledRight(f)'
  <2>1. Agreed(facts[f]) /\ rulings = <<>>
    BY <1>1 DEF FactReviewInv, EarlyInv
  <2>2. NamedIn(rulings, f)' = {}
    BY <1>1, <2>1 DEF NamedIn
  <2>3. Agreed(facts[f])'
    BY <1>1, <2>1
  <2> QED BY <2>2, <2>3 DEF RuledRight
<1>6. VerdictInv' /\ ReportInv'
  BY <1>1, <1>4, <1>5 DEF VerdictInv, ReportInv
<1> QED BY <1>2, <1>3, <1>6 DEF FactReviewInv

(* A request is a sequence of rulings.                                      *)
LEMMA RequestsAreSequences ==
    ASSUME NEW q \in Requests, ~AsksForMaterial(q), \A i \in DOMAIN q : Accepted(q[i])
    PROVE  /\ q \in Seq(Rulings)
           /\ \A i \in DOMAIN q : Applies(q[i])
<1>1. PICK n \in 1..MaxRulings : q \in [1..n -> Rulings]
  BY DEF Requests
<1>2. q \in Seq(Rulings)
  BY <1>1, MaxRulingsAssumption
<1>3. \A i \in DOMAIN q : q[i] \in Rulings
  BY <1>1
<1> QED BY <1>2, <1>3 DEF AsksForMaterial, Applies

(* The candidates stay when a request is applied, and its last word on a    *)
(* field counts.                                                            *)
LEMMA SubmitPreserves == FactReviewInv /\ SubmitFactReview => FactReviewInv'
<1> SUFFICES ASSUME FactReviewInv, SubmitFactReview PROVE FactReviewInv'
  OBVIOUS
<1>1. PICK q \in Requests :
        /\ ~AsksForMaterial(q) /\ \A i \in DOMAIN q : Accepted(q[i])
        /\ facts' = FoldLeft(Apply, facts, q)
        /\ rulings' = q
        /\ results' = Evaluate(Context(facts', documents))
  BY DEF SubmitFactReview
<1>2. /\ status = "WAITING_FACT_REVIEW" /\ status' = "WAITING_REPORT_REVIEW"
      /\ input' = input /\ documents' = documents /\ judged' = documents
  BY DEF SubmitFactReview
<1>3. facts \in Tables
  BY DEF FactReviewInv, TypeInv
<1>4. PICK new : new = FoldLeft(Apply, facts, q)
  OBVIOUS
<1>5. q \in Seq(Rulings) /\ \A i \in DOMAIN q : Applies(q[i])
  BY <1>1, RequestsAreSequences
<1>6. /\ new \in Built
      /\ \A f \in Fields :
           IF NamedIn(q, f) = {} THEN new[f] = facts[f]
           ELSE /\ Max(NamedIn(q, f)) \in NamedIn(q, f)
                /\ SettledAs(new[f], q[Max(NamedIn(q, f))])
  BY <1>3, <1>4, <1>5, RequestSettles
<1>7. facts' = new
  BY <1>1, <1>4
<1>8. TypeInv' /\ EarlyInv'
  <2>1. new \in Tables
    BY <1>6 DEF Built
  <2> QED BY <1>2, <1>7, <2>1 DEF FactReviewInv, TypeInv, EarlyInv, RunStatus
<1>9. ASSUME NEW f \in Fields PROVE Backed(facts[f])'
  <2>1. CASE NamedIn(q, f) = {}
    <3>1. new[f] = facts[f] /\ Backed(facts[f])
      BY <1>6, <2>1 DEF FactReviewInv, FactsInv
    <3> QED BY <1>7, <3>1
  <2>2. CASE NamedIn(q, f) # {}
    <3>1. PICK d : SettledAs(new[f], d)
      BY <1>6, <2>2
    <3>2. Backed(new[f])
      BY <3>1 DEF SettledAs, Backed
    <3> QED BY <1>7, <3>2
  <2> QED BY <2>1, <2>2
<1>10. AllRead'
  <2>1. ASSUME NEW t \in DocumentTypes, NEW f \in Fields,
               NEW i \in DOMAIN Parsed(input.mineru)[t].text[f],
               Found(input.files[t], Parsed(input.mineru)[t].text[f][i])
        PROVE  \E j \in DOMAIN new[f].candidates :
                 new[f].candidates[j].value =
                   NormalizeValue(f, Cut(f, Parsed(input.mineru)[t].text[f][i].raw))
    <3>1. AllRead
      BY <1>2 DEF FactReviewInv, FactsInv
    <3>2. PICK j \in DOMAIN facts[f].candidates :
            facts[f].candidates[j].value =
              NormalizeValue(f, Cut(f, Parsed(input.mineru)[t].text[f][i].raw))
      BY <2>1, <3>1 DEF AllRead
    <3>3. j \in DOMAIN new[f].candidates
          /\ new[f].candidates[j].value = facts[f].candidates[j].value
      BY <1>6 DEF Built, Builds
    <3> QED BY <3>2, <3>3
  <2>2. Parsed(input.mineru)' = Parsed(input.mineru)
    BY <1>2 DEF Parsed
  <2> QED BY <1>2, <1>7, <2>1, <2>2 DEF AllRead
<1>11. FactsInv'
  BY <1>9, <1>10 DEF FactsInv
<1>12. results' = Evaluate(Context(facts, judged))'
  BY <1>1, <1>2 DEF Context
<1>13. ASSUME NEW f \in Fields PROVE RuledRight(f)'
  <2>1. CASE NamedIn(q, f) = {}
    <3>1. new[f] = facts[f] /\ Agreed(facts[f])
      BY <1>2, <1>6, <2>1 DEF FactReviewInv, EarlyInv
    <3> QED BY <1>1, <1>7, <2>1, <3>1 DEF RuledRight
  <2>2. CASE NamedIn(q, f) # {}
    <3>1. PICK last : last = Max(NamedIn(q, f))
      OBVIOUS
    <3>2. last \in NamedIn(q, f) /\ SettledAs(new[f], q[last])
      BY <1>6, <2>2, <3>1
    <3>3. Applies(q[last])
      BY <1>5, <3>2 DEF NamedIn
    <3>4. q[last].action \in {"SELECT_SOURCE", "CORRECT_VALUE"}
      BY <3>3, RulingKinds DEF Applies
    <3> QED BY <1>1, <1>7, <2>2, <3>1, <3>2, <3>4 DEF RuledRight
  <2> QED BY <2>1, <2>2
<1>14. VerdictInv' /\ ReportInv'
  BY <1>2, <1>12, <1>13 DEF VerdictInv, ReportInv
<1> QED BY <1>8, <1>11, <1>14 DEF FactReviewInv

(* A Run that is returned at the fact gate has no results.                  *)
LEMMA ResubmissionPreserves == FactReviewInv /\ RequestResubmission => FactReviewInv'
<1> SUFFICES ASSUME FactReviewInv, RequestResubmission PROVE FactReviewInv'
  OBVIOUS
<1>1. /\ status = "WAITING_FACT_REVIEW" /\ status' = "RETURNED"
      /\ input' = input /\ documents' = documents /\ facts' = facts /\ results' = results
      /\ judged' = judged
  BY DEF RequestResubmission
<1>2. results = NoResults
  BY <1>1 DEF FactReviewInv, EarlyInv
<1>3. TypeInv' /\ EarlyInv'
  BY <1>1 DEF FactReviewInv, TypeInv, EarlyInv, RunStatus
<1>4. FactsInv'
  BY <1>1 DEF FactReviewInv, FactsInv, AllRead, Parsed
<1>5. VerdictInv' /\ ReportInv'
  BY <1>1, <1>2 DEF VerdictInv, ReportInv, Evaluated, NoResults
<1> QED BY <1>3, <1>4, <1>5 DEF FactReviewInv

(* At the report gate nothing changes but the status.                       *)
LEMMA ReportGatePreserves ==
    FactReviewInv /\ (ConfirmDraft \/ ReturnForRerun) => FactReviewInv'
<1> SUFFICES ASSUME FactReviewInv, ConfirmDraft \/ ReturnForRerun PROVE FactReviewInv'
  OBVIOUS
<1>1. /\ status = "WAITING_REPORT_REVIEW" /\ status' \in {"COMPLETED", "RETURNED"}
      /\ input' = input /\ documents' = documents /\ facts' = facts
      /\ rulings' = rulings /\ results' = results /\ judged' = judged
      /\ status' = "COMPLETED" => ConfirmDraft
  BY DEF ConfirmDraft, ReturnForRerun
<1>2. TypeInv' /\ EarlyInv'
  BY <1>1 DEF FactReviewInv, TypeInv, EarlyInv, RunStatus
<1>3. FactsInv'
  BY <1>1 DEF FactReviewInv, FactsInv, AllRead, Parsed
<1>4. VerdictInv'
  <2>1. results = Evaluate(Context(facts, judged)) /\ \A f \in Fields : RuledRight(f)
    BY <1>1 DEF FactReviewInv, VerdictInv
  <2>2. results' = Evaluate(Context(facts, judged))'
    BY <1>1, <2>1 DEF Context
  <2>3. \A f \in Fields : RuledRight(f)'
    BY <1>1, <2>1 DEF RuledRight
  <2> QED BY <2>2, <2>3 DEF VerdictInv
<1>5. ReportInv'
  <2>1. SUFFICES ASSUME status' = "COMPLETED"
        PROVE  /\ Summary(results)' # "REVIEW_BLOCKED"
               /\ UnsupportedClaims(Context(facts, judged), results)' = {}
    BY DEF ReportInv
  <2>2. Summary(results) # "REVIEW_BLOCKED" /\ UnsupportedClaims(Context(facts, judged), results) = {}
    BY <1>1, <2>1 DEF ConfirmDraft
  <2>3. Context(facts, judged)' = Context(facts, judged)
    BY <1>1 DEF Context
  <2> QED BY <1>1, <2>2, <2>3
<1> QED BY <1>2, <1>3, <1>4, <1>5 DEF FactReviewInv

(* ... and is kept by every step.                                           *)
LEMMA StepPreserves == FactReviewInv /\ [Next]_vars => FactReviewInv'
<1> SUFFICES ASSUME FactReviewInv, [Next]_vars PROVE FactReviewInv'
  OBVIOUS
<1>1. CASE UNCHANGED vars
  <2>1. /\ input' = input /\ documents' = documents /\ facts' = facts
        /\ status' = status /\ rulings' = rulings /\ results' = results
        /\ judged' = judged
    BY <1>1 DEF vars
  <2>2. TypeInv' /\ EarlyInv'
    BY <2>1 DEF FactReviewInv, TypeInv, EarlyInv, NoResults
  <2>3. FactsInv'
    BY <2>1 DEF FactReviewInv, FactsInv, AllRead, Parsed, NoFacts
  <2>4. Context(facts, judged)' = Context(facts, judged) /\ NoResults' = NoResults
    BY <2>1 DEF Context, NoResults
  <2>5. \A f \in Fields : RuledRight(f) => RuledRight(f)'
    BY <2>1 DEF RuledRight
  <2>6. VerdictInv'
    BY <2>1, <2>4, <2>5 DEF FactReviewInv, VerdictInv, Evaluated
  <2>7. ReportInv'
    BY <2>1, <2>4 DEF FactReviewInv, ReportInv
  <2> QED BY <2>2, <2>3, <2>6, <2>7 DEF FactReviewInv
<1>2. CASE Next
  BY <1>2, ProcessPreserves, AnotherRunPreserves, EvaluatePreserves, SubmitPreserves,
     ResubmissionPreserves, ReportGatePreserves DEF Next
<1> QED BY <1>1, <1>2

(* FactReviewInv holds at every stage of a Run: of its facts, its verdicts, *)
(* its rulings and its report.                                              *)
THEOREM FactReviewInvariant == Spec => []FactReviewInv
<1>1. Init => FactReviewInv
  BY InitEstablishes
<1>2. FactReviewInv /\ [Next]_vars => FactReviewInv'
  BY StepPreserves
<1> QED BY <1>1, <1>2, PTL DEF Spec

-----------------------------------------------------------------------------
(* A value the rules read is what every candidate of the field says, or     *)
(* what the last ruling on the field asked for: however many rulings a      *)
(* request has, in whatever order, on whatever candidates.                  *)
THEOREM NothingIsChosenSilently == Spec => []ValuesAreAgreedOrRuled
<1>1. FactReviewInv => ValuesAreAgreedOrRuled
  <2> SUFFICES ASSUME FactReviewInv, Evaluated, NEW f \in Fields, facts[f].value # None
               PROVE  IF RuledOn(f) = {} THEN Values(facts[f].candidates) = {facts[f].value}
                      ELSE LET last == rulings[Max(RuledOn(f))]
                           IN  IF last.action = "CORRECT_VALUE"
                               THEN facts[f].value = NormalizeValue(f, last.with)
                               ELSE \E i \in DOMAIN facts[f].candidates :
                                      /\ facts[f].candidates[i].value = facts[f].value
                                      /\ facts[f].candidates[i].evidence = last.with
    BY DEF ValuesAreAgreedOrRuled
  <2>1. RuledRight(f)
    BY DEF FactReviewInv, VerdictInv
  <2>2. RuledOn(f) = NamedIn(rulings, f)
    BY DEF RuledOn, NamedIn
  <2>3. CASE RuledOn(f) = {}
    BY <2>1, <2>2, <2>3 DEF RuledRight, Agreed
  <2>4. CASE RuledOn(f) # {}
    <3>1. PICK last : last = Max(RuledOn(f))
      OBVIOUS
    <3>2. /\ last \in NamedIn(rulings, f)
          /\ rulings[last].action \in {"SELECT_SOURCE", "CORRECT_VALUE"}
          /\ SettledAs(facts[f], rulings[last])
      BY <2>1, <2>2, <2>4, <3>1 DEF RuledRight
    <3>3. rulings[last].field = f
      BY <3>2 DEF NamedIn
    <3> QED BY <2>4, <3>1, <3>2, <3>3 DEF SettledAs
  <2> QED BY <2>3, <2>4
<1> QED BY <1>1, FactReviewInvariant, PTL

(* The evidence cited for a value includes that of the candidate it is from.*)
LEMMA BackedIsCited ==
    ASSUME NEW f \in Fields, Backed(facts[f]), facts[f].value # None
    PROVE  \E i \in DOMAIN facts[f].candidates :
             /\ facts[f].candidates[i].value = facts[f].value
             /\ facts[f].candidates[i].evidence \in FactEvidence(Context(facts, judged), f)
<1>1. PICK i \in DOMAIN facts[f].candidates :
        /\ facts[f].candidates[i].value = facts[f].value
        /\ facts[f].candidates[i].selected \/ (i = 1 /\ Unselected(facts[f]))
  BY DEF Backed
<1>2. PICK all : all = facts[f].candidates
  OBVIOUS
<1>3. PICK marked : marked = {j \in DOMAIN all : all[j].selected}
  OBVIOUS
<1>4. PICK cited : cited = IF marked = {} THEN DOMAIN all \cap {1} ELSE marked
  OBVIOUS
<1>5. FactEvidence(Context(facts, judged), f) = {all[j].evidence : j \in cited}
  BY <1>2, <1>3, <1>4 DEF FactEvidence, Context
<1>6. i \in cited
  BY <1>1, <1>2, <1>3, <1>4 DEF Unselected
<1> QED BY <1>1, <1>2, <1>5, <1>6

(* Whatever was selected, corrected, or both, a value the rules read is     *)
(* among the evidence they cite for it.                                     *)
THEOREM ValuesHaveEvidence == Spec => []ValuesAreEvidenced
<1>1. FactReviewInv => ValuesAreEvidenced
  BY BackedIsCited DEF FactReviewInv, FactsInv, ValuesAreEvidenced
<1> QED BY <1>1, FactReviewInvariant, PTL

-----------------------------------------------------------------------------
(* What the rules come to.                                                  *)

(* Every verdict has one of the statuses of the rules.                      *)
LEMMA EvaluateStatuses ==
    ASSUME NEW c, NEW r \in Rules
    PROVE  Evaluate(c)[r].status \in Statuses
<1>1. RequiredMaterials(c).status \in Statuses
  BY DEF RequiredMaterials, Verdict, Statuses
<1>2. CompanyAge(c).status \in Statuses
  BY DEF CompanyAge, Judge, Verdict, Statuses
<1>3. IndustryAdmission(c).status \in Statuses
  BY DEF IndustryAdmission, OnPolicy, Verdict, Statuses
<1>4. BlacklistClear(c).status \in Statuses
  BY DEF BlacklistClear, Judge, Verdict, Statuses
<1>5. CustomerRisk(c).status \in Statuses
  BY DEF CustomerRisk, Verdict, Statuses
<1>6. LoanPurpose(c).status \in Statuses
  BY DEF LoanPurpose, OnPolicy, Judge, Verdict, Statuses
<1>7. TenorLimit(c).status \in Statuses
  BY DEF TenorLimit, OnPolicy, Judge, Verdict, Statuses
<1>8. AvailableExposure(c).status \in Statuses
  BY DEF AvailableExposure, Judge, Verdict, Statuses
<1>9. LeverageRatio(c).status \in Statuses
  BY DEF LeverageRatio, Judge, Verdict, Statuses
<1>10. CurrentRatio(c).status \in Statuses
  BY DEF CurrentRatio, Judge, Verdict, Statuses
<1> QED BY <1>1, <1>2, <1>3, <1>4, <1>5, <1>6, <1>7, <1>8, <1>9, <1>10 DEF Evaluate, Rules

(* The facts and verdicts of a Run are of their types.                      *)
THEOREM FactsAreTyped == Spec => []FactTypeOK
<1>1. FactReviewInv => FactTypeOK
  <2> SUFFICES ASSUME FactReviewInv PROVE FactTypeOK
    OBVIOUS
  <2>1. status \in RunStatus /\ facts \in Tables
    BY DEF FactReviewInv, TypeInv
  <2>2. ASSUME NEW f \in Fields
        PROVE  /\ facts[f].value \in FieldValues[f] \cup {None}
               /\ \A i \in DOMAIN facts[f].candidates :
                    /\ facts[f].candidates[i].value \in FieldValues[f] \cup {None}
                    /\ facts[f].candidates[i].selected \in BOOLEAN
    <3>1. facts[f] \in FactOf(f)
      BY <2>1 DEF Tables
    <3>2. PICK c \in Seq(CandidateOf(f)) : c = facts[f].candidates
      BY <3>1 DEF FactOf
    <3>3. \A i \in DOMAIN c : c[i] \in CandidateOf(f)
      OBVIOUS
    <3>4. \A i \in DOMAIN c :
            c[i].value \in FieldValues[f] \cup {None} /\ c[i].selected \in BOOLEAN
      BY <3>3 DEF CandidateOf
    <3> QED BY <3>1, <3>2, <3>4 DEF FactOf
  <2>3. \A r \in Rules : results[r].status \in Statuses
    <3>1. CASE results = NoResults
      BY <3>1 DEF NoResults, Verdict, Statuses
    <3>2. CASE results # NoResults
      <4>1. results = Evaluate(Context(facts, judged))
        BY <3>2 DEF FactReviewInv, VerdictInv, Evaluated
      <4> QED BY <4>1, EvaluateStatuses
    <3> QED BY <3>1, <3>2
  <2> QED BY <2>1, <2>2, <2>3 DEF FactTypeOK
<1> QED BY <1>1, FactReviewInvariant, PTL

-----------------------------------------------------------------------------
(* What the verdicts rest on.                                               *)

Supported(verdict) ==
    verdict.status \in {"WARN", "FAIL"} =>
      /\ verdict.refs # {}
      /\ verdict.refs \subseteq ValidEvidence(Context(facts, judged))

(* What facts, policies and tools offer as evidence may be cited.           *)
LEMMA EvidenceIsValid ==
    ASSUME facts \in Tables
    PROVE  /\ \A f \in Fields :
                FactEvidence(Context(facts, judged), f) \subseteq ValidEvidence(Context(facts, judged))
           /\ \A r \in Rules : Retrieved(Context(facts, judged), r) \subseteq ValidEvidence(Context(facts, judged))
           /\ \A t \in ToolNames : ToolEvidence(t) \subseteq ValidEvidence(Context(facts, judged))
<1>1. PICK c : c = Context(facts, judged)
  OBVIOUS
<1>2. /\ \A r \in Rules : Retrieved(c, r) \subseteq ValidEvidence(c)
      /\ \A t \in ToolNames : ToolEvidence(t) \subseteq ValidEvidence(c)
  <2>1. ASSUME NEW r \in Rules, NEW e \in Retrieved(c, r) PROVE e \in ValidEvidence(c)
    BY DEF ValidEvidence
  <2>2. ASSUME NEW t \in ToolNames, NEW e \in ToolEvidence(t) PROVE e \in ValidEvidence(c)
    BY DEF ValidEvidence
  <2> QED BY <2>1, <2>2
<1>3. ASSUME NEW f \in Fields PROVE FactEvidence(c, f) \subseteq ValidEvidence(c)
  <2>1. c.facts = facts
    BY <1>1 DEF Context
  <2>2. PICK all : all = facts[f].candidates
    OBVIOUS
  <2>3. FactEvidence(c, f) \subseteq CandidateEvidence(all)
    BY <2>1, <2>2 DEF FactEvidence, CandidateEvidence
  <2>4. CandidateEvidence(all) \subseteq ValidEvidence(c)
    <3>1. f \in DOMAIN facts
      BY DEF Tables
    <3> QED BY <2>1, <2>2, <3>1 DEF ValidEvidence
  <2> QED BY <2>3, <2>4
<1> QED BY <1>1, <1>2, <1>3

(* Every rule but R01 cites evidence of its Run.                            *)
LEMMA VerdictsAreSupported ==
    ASSUME facts \in Tables, \A f \in Fields : Backed(facts[f]),
           NEW r \in Rules \ {"R01"}
    PROVE  Supported(Evaluate(Context(facts, judged))[r])
<1>1. PICK c : c = Context(facts, judged)
  OBVIOUS
<1>2. PICK valid : valid = ValidEvidence(c)
  OBVIOUS
<1>3. ASSUME NEW f \in Fields
      PROVE  /\ FactEvidence(c, f) \subseteq valid
             /\ Value(c, f) # None => FactEvidence(c, f) # {}
  <2>1. Value(c, f) = facts[f].value
    BY <1>1 DEF Context, Value
  <2>2. Value(c, f) # None => FactEvidence(c, f) # {}
    BY <1>1, <2>1, BackedIsCited
  <2> QED BY <1>1, <1>2, <2>2, EvidenceIsValid
<1>4. /\ \A x \in Rules : Retrieved(c, x) \subseteq valid /\ (x \in c.hits => Retrieved(c, x) # {})
      /\ \A t \in ToolNames : ToolEvidence(t) \subseteq valid /\ ToolEvidence(t) # {}
  BY <1>1, <1>2, EvidenceIsValid DEF Retrieved, ToolEvidence
<1> DEFINE Sound(v) == v.status \in {"WARN", "FAIL"} => v.refs # {} /\ v.refs \subseteq valid
<1>5. Sound(CompanyAge(c))
  BY <1>3 DEF CompanyAge, Judge, Verdict, Fields
<1>6. Sound(IndustryAdmission(c))
  BY <1>3, <1>4 DEF IndustryAdmission, OnPolicy, Verdict, Fields, Rules
<1>7. Sound(BlacklistClear(c))
  BY <1>4 DEF BlacklistClear, Judge, Verdict, ToolNames
<1>8. Sound(CustomerRisk(c))
  BY <1>4 DEF CustomerRisk, Verdict, ToolNames
<1>9. Sound(LoanPurpose(c))
  BY <1>3, <1>4 DEF LoanPurpose, OnPolicy, Judge, Verdict, Fields, Rules
<1>10. Sound(TenorLimit(c))
  BY <1>3, <1>4 DEF TenorLimit, OnPolicy, Judge, Verdict, Fields, Rules
<1>11. Sound(AvailableExposure(c))
  BY <1>3, <1>4 DEF AvailableExposure, Judge, Verdict, Fields, ToolNames
<1>12. Sound(LeverageRatio(c))
  BY <1>3, <1>4 DEF LeverageRatio, Judge, Verdict, Fields, Rules
<1>13. Sound(CurrentRatio(c))
  BY <1>3, <1>4 DEF CurrentRatio, Judge, Verdict, Fields, Rules
<1>14. Sound(Evaluate(c)[r])
  <2> HIDE DEF Sound
  <2> QED BY <1>5, <1>6, <1>7, <1>8, <1>9, <1>10, <1>11, <1>12, <1>13 DEF Evaluate, Rules
<1> QED BY <1>1, <1>2, <1>14 DEF Supported

(* Only a rejected material holds up a report whose rules came to verdicts. *)
THEOREM RisksAreSupported == Spec => []ConclusionsAreSupported
<1>1. FactReviewInv => ConclusionsAreSupported
  <2> SUFFICES ASSUME FactReviewInv, Evaluated, Summary(results) # "REVIEW_BLOCKED",
                      NEW r \in UnsupportedClaims(Context(facts, judged), results)
               PROVE  r = "R01" /\ \E t \in DocumentTypes : judged[t] = "REJECTED"
    BY DEF ConclusionsAreSupported
  <2>1. PICK c : c = Context(facts, judged)
    OBVIOUS
  <2>2. results = Evaluate(c) /\ facts \in Tables /\ \A f \in Fields : Backed(facts[f])
    BY <2>1 DEF FactReviewInv, TypeInv, FactsInv, VerdictInv
  <2>3. /\ r \in Rules /\ results[r].status # "PASS"
        /\ results[r].refs = {} \/ ~(results[r].refs \subseteq ValidEvidence(c))
    BY <2>1 DEF UnsupportedClaims
  <2>4. results[r].status # "NEEDS_REVIEW"
    BY <2>3 DEF Summary
  <2>5. results[r].status \in {"WARN", "FAIL"}
    BY <2>2, <2>3, <2>4, EvaluateStatuses DEF Statuses
  <2>6. r = "R01"
    BY <2>1, <2>2, <2>3, <2>5, VerdictsAreSupported DEF Supported
  <2>7. PICK v : v = RequiredMaterials(c)
    OBVIOUS
  <2>8. v.status \in {"WARN", "FAIL"}
    BY <2>2, <2>5, <2>6, <2>7 DEF Evaluate
  <2>9. c.documents = judged /\ DOMAIN judged = DocumentTypes
    BY <2>1 DEF Context, FactReviewInv, TypeInv
  <2>10. {t \in DocumentTypes : judged[t] = "REJECTED"} # {}
    BY <2>7, <2>8, <2>9 DEF RequiredMaterials, Verdict
  <2> QED BY <2>6, <2>10
<1> QED BY <1>1, FactReviewInvariant, PTL

(* What R01 cites against a material is no evidence of the Run.             *)
LEMMA KindsAreNoEvidence ==
    ASSUME facts \in Tables, NEW t
    PROVE  <<"type", t>> \notin ValidEvidence(Context(facts, judged))
<1>1. PICK c : c = Context(facts, judged)
  OBVIOUS
<1>2. ASSUME NEW f \in Fields, NEW e \in CandidateEvidence(facts[f].candidates)
      PROVE  e # <<"type", t>>
  <2>1. facts[f] \in FactOf(f)
    BY DEF Tables
  <2>2. PICK all \in Seq(CandidateOf(f)) : all = facts[f].candidates
    BY <2>1 DEF FactOf
  <2>3. PICK i \in DOMAIN all : e = all[i].evidence
    BY <1>2, <2>2 DEF CandidateEvidence
  <2>4. all[i] \in CandidateOf(f)
    OBVIOUS
  <2>5. e \in Evidence
    BY <2>3, <2>4 DEF CandidateOf
  <2> QED BY <2>5 DEF Evidence, DocumentTypes
<1>3. \A r \in Rules : <<"type", t>> \notin Retrieved(c, r)
  BY DEF Retrieved
<1>4. \A x \in ToolNames : <<"type", t>> \notin ToolEvidence(x)
  BY DEF ToolEvidence
<1>5. c.facts = facts /\ DOMAIN facts = Fields
  BY <1>1 DEF Context, Tables
<1> QED BY <1>1, <1>2, <1>3, <1>4, <1>5 DEF ValidEvidence

(* R01 with a document of every type.                                       *)
Rejected == {t \in DocumentTypes : judged[t] = "REJECTED"}
Missing == {t \in DocumentTypes : judged[t] # "PARSED"}

(* R01 in closed form: rejected, missing, or all there.                     *)
LEMMA MaterialsVerdict ==
    ASSUME DOMAIN judged = DocumentTypes
    PROVE  RequiredMaterials(Context(facts, judged)) =
             IF Rejected # {} THEN Verdict("FAIL", {<<"type", t>> : t \in Rejected})
             ELSE IF Missing = {} THEN Verdict("PASS", {<<"document", t>> : t \in DocumentTypes})
             ELSE Verdict("NEEDS_REVIEW", {<<"type", t>> : t \in Missing})
<1>1. PICK c : c = Context(facts, judged)
  OBVIOUS
<1>2. c.documents = judged
  BY <1>1 DEF Context
<1>3. {t \in DOMAIN c.documents : c.documents[t] = "REJECTED"} = Rejected
  BY <1>2 DEF Rejected
<1>4. {t \in DocumentTypes : t \in DOMAIN c.documents => c.documents[t] # "PARSED"} = Missing
  BY <1>2 DEF Missing
<1>5. DOMAIN c.documents = DocumentTypes
  BY <1>2
<1> QED BY <1>1, <1>3, <1>4, <1>5 DEF RequiredMaterials

(* A report without open verdict or unsupported claim has every material,   *)
(* ...                                                                      *)
LEMMA MaterialsAreParsed ==
    ASSUME facts \in Tables, DOMAIN judged = DocumentTypes,
           RequiredMaterials(Context(facts, judged)).status # "NEEDS_REVIEW",
           RequiredMaterials(Context(facts, judged)).status = "FAIL" =>
             RequiredMaterials(Context(facts, judged)).refs \subseteq ValidEvidence(Context(facts, judged)),
           NEW t \in DocumentTypes
    PROVE  judged[t] = "PARSED"
<1>1. PICK v : v = RequiredMaterials(Context(facts, judged))
  OBVIOUS
<1>2. Rejected = {}
  <2>1. SUFFICES ASSUME Rejected # {} PROVE FALSE
    OBVIOUS
  <2>2. PICK x \in Rejected : TRUE
    BY <2>1
  <2>3. v.status = "FAIL" /\ <<"type", x>> \in v.refs
    BY <1>1, <2>1, <2>2, MaterialsVerdict DEF Verdict
  <2>4. <<"type", x>> \in ValidEvidence(Context(facts, judged))
    BY <1>1, <2>3
  <2> QED BY <2>4, KindsAreNoEvidence
<1>3. Missing = {}
  <2>1. v.status # "NEEDS_REVIEW"
    BY <1>1
  <2> QED BY <1>1, <1>2, <2>1, MaterialsVerdict DEF Verdict
<1> QED BY <1>3 DEF Missing

(* ... and an answer to whatever a rule asked.                              *)
LEMMA VerdictsHaveTheirInputs ==
    ASSUME input \in Inputs,
           \A r \in Rules : Evaluate(Context(facts, judged))[r].status # "NEEDS_REVIEW"
    PROVE  /\ input.profile.failures = {}
           /\ {"R03", "R06", "R07"} \subseteq input.hits
           /\ \A f \in {"F03", "F05", "F06", "F07", "F08", "F09", "F10", "F11", "F12", "F13"} :
                facts[f].value # None
<1>1. PICK c : c = Context(facts, judged)
  OBVIOUS
<1>2. /\ c.hits = input.hits
      /\ \A f : Value(c, f) = facts[f].value
      /\ \A t \in ToolNames : Tool(c, t) = Call(input.profile, t)
  BY <1>1 DEF Context, Value, Tool
<1>3. /\ CompanyAge(c).status # "NEEDS_REVIEW"
      /\ IndustryAdmission(c).status # "NEEDS_REVIEW"
      /\ BlacklistClear(c).status # "NEEDS_REVIEW"
      /\ CustomerRisk(c).status # "NEEDS_REVIEW"
      /\ LoanPurpose(c).status # "NEEDS_REVIEW"
      /\ TenorLimit(c).status # "NEEDS_REVIEW"
      /\ AvailableExposure(c).status # "NEEDS_REVIEW"
      /\ LeverageRatio(c).status # "NEEDS_REVIEW"
      /\ CurrentRatio(c).status # "NEEDS_REVIEW"
  BY <1>1 DEF Evaluate, Rules
<1>4. Value(c, "F03") # None
  BY <1>3 DEF CompanyAge, Judge, Verdict
<1>5. "R03" \in c.hits /\ Value(c, "F05") # None
  BY <1>3, NoneAssumption DEF IndustryAdmission, OnPolicy, Verdict
<1>6. "R06" \in c.hits /\ Value(c, "F09") # None
  BY <1>3, NoneAssumption DEF LoanPurpose, OnPolicy, Judge, Verdict
<1>7. "R07" \in c.hits /\ Value(c, "F08") # None
  BY <1>3 DEF TenorLimit, OnPolicy, Judge, Verdict
<1>8. Tool(c, "check_blacklist") # None
  BY <1>3 DEF BlacklistClear, Judge, Verdict
<1>9. Tool(c, "get_customer_profile") # None
  BY <1>3 DEF CustomerRisk, Verdict
<1>10. /\ Value(c, "F06") # None /\ Tool(c, "get_credit_exposure") # None
       /\ Value(c, "F07") = Tool(c, "get_credit_exposure").currency
  BY <1>3 DEF AvailableExposure, Judge, Verdict
<1>11. /\ Value(c, "F10") # None /\ Value(c, "F11") # None
       /\ Value(c, "F12") # None /\ Value(c, "F13") # None
  BY <1>3 DEF LeverageRatio, CurrentRatio, Judge, Verdict
<1>12. \A t \in ToolNames : t \notin input.profile.failures
  BY <1>2, <1>8, <1>9, <1>10 DEF Call, ToolNames
<1>13. input.profile.failures \subseteq ToolNames /\ input.profile.currency # None
  BY InputsAssumption
<1>14. input.profile.failures = {}
  BY <1>12, <1>13
<1>15. Value(c, "F07") # None
  <2>1. Tool(c, "get_credit_exposure").currency = input.profile.currency
    BY <1>2, <1>14 DEF Call, ToolNames
  <2> QED BY <1>10, <1>13, <2>1
<1> QED BY <1>2, <1>4, <1>5, <1>6, <1>7, <1>10, <1>11, <1>14, <1>15

(* Through whatever gates it came, a confirmed report rests on four         *)
(* materials that had the status PARSED when its rules ran, on a value in   *)
(* every field the rules read, on an answer of every tool and on the        *)
(* policies.                                                                *)
THEOREM ConfirmedReportsRestOnAll == Spec => []ConfirmedReportsAreComplete
<1>1. FactReviewInv => ConfirmedReportsAreComplete
  <2> SUFFICES ASSUME FactReviewInv, status = "COMPLETED"
               PROVE  /\ \A t \in DocumentTypes : judged[t] = "PARSED"
                      /\ input.profile.failures = {}
                      /\ {"R03", "R06", "R07"} \subseteq input.hits
                      /\ \A f \in {"F03", "F05", "F06", "F07", "F08", "F09", "F10", "F11",
                                   "F12", "F13"} : facts[f].value # None
    BY DEF ConfirmedReportsAreComplete
  <2>1. /\ input \in Inputs /\ facts \in Tables /\ DOMAIN judged = DocumentTypes
        /\ results = Evaluate(Context(facts, judged))
        /\ Summary(results) # "REVIEW_BLOCKED"
        /\ UnsupportedClaims(Context(facts, judged), results) = {}
    BY DEF FactReviewInv, TypeInv, VerdictInv, ReportInv
  <2>2. \A r \in Rules : results[r].status # "NEEDS_REVIEW"
    BY <2>1 DEF Summary
  <2>3. results["R01"] = RequiredMaterials(Context(facts, judged)) /\ "R01" \in Rules
    BY <2>1 DEF Evaluate, Rules
  <2>4. results["R01"].status = "FAIL" => results["R01"].refs \subseteq ValidEvidence(Context(facts, judged))
    BY <2>1, <2>3 DEF UnsupportedClaims
  <2>5. \A t \in DocumentTypes : judged[t] = "PARSED"
    BY <2>1, <2>2, <2>3, <2>4, MaterialsAreParsed
  <2> QED BY <2>1, <2>2, <2>5, VerdictsHaveTheirInputs
<1> QED BY <1>1, FactReviewInvariant, PTL

-----------------------------------------------------------------------------
(* What the texts of the rules say.                                         *)

Follows(verdict, r) ==
    LET v == [f \in Fields |-> facts[f].value]
    IN  /\ verdict.status = "PASS" <=> Meets(r, v, input.profile)
        /\ verdict.status = "FAIL" <=> Breaks(r, v, input.profile)

(* R01 follows its text.                                                    *)
LEMMA MaterialsFollow ==
    ASSUME DOMAIN judged = DocumentTypes
    PROVE  Follows(RequiredMaterials(Context(facts, judged)), "R01")
<1>1. PICK v : v = RequiredMaterials(Context(facts, judged))
  OBVIOUS
<1>2. v.status = IF Rejected # {} THEN "FAIL"
                 ELSE IF Missing = {} THEN "PASS" ELSE "NEEDS_REVIEW"
  BY <1>1, MaterialsVerdict DEF Verdict
<1>3. Rejected # {} <=> \E t \in DocumentTypes : judged[t] = "REJECTED"
  BY DEF Rejected
<1>4. Missing = {} <=> \A t \in DocumentTypes : judged[t] = "PARSED"
  BY DEF Missing
<1>5. Missing = {} => Rejected = {}
  BY DEF Missing, Rejected
<1> QED BY <1>1, <1>2, <1>3, <1>4, <1>5 DEF Follows, Meets, Breaks

(* Amounts and terms are whole numbers if they are known.                   *)
LEMMA NumbersAreNumbers ==
    ASSUME facts \in Tables, NEW f \in {"F06", "F08", "F10", "F11", "F12", "F13"},
           facts[f].value # None
    PROVE  facts[f].value \in Int
<1>1. f \in Fields /\ f \in DecimalFields \cup {"F08"}
  BY DEF Fields, DecimalFields
<1>2. facts[f].value \in FieldValues[f]
  BY <1>1 DEF Tables, FactOf
<1> QED BY <1>1, <1>2, ValuesAssumption

(* Every rule but R02 follows its text.                                     *)
LEMMA VerdictsFollow ==
    ASSUME input \in Inputs, facts \in Tables, DOMAIN judged = DocumentTypes,
           NEW r \in Rules \ {"R02"}
    PROVE  Follows(Evaluate(Context(facts, judged))[r], r)
<1>1. PICK c : c = Context(facts, judged)
  OBVIOUS
<1>2. PICK p : p = input.profile
  OBVIOUS
<1>3. PICK v : v = [f \in Fields |-> facts[f].value]
  OBVIOUS
<1>4. /\ c.hits = input.hits
      /\ \A f \in Fields : Value(c, f) = v[f]
      /\ \A t \in ToolNames : Tool(c, t) = Call(p, t)
  BY <1>1, <1>2, <1>3 DEF Context, Value, Tool
<1>5. \A f \in {"F06", "F08", "F10", "F11", "F12", "F13"} : v[f] # None => v[f] \in Int
  BY <1>3, NumbersAreNumbers DEF Fields
<1>6. /\ p.available \in Int /\ p.blacklisted \in BOOLEAN
      /\ \A t \in ToolNames \ p.failures : Call(p, t) # None
  BY <1>2, InputsAssumption
<1>7. /\ Tool(c, "check_blacklist") = IF "check_blacklist" \in p.failures THEN None
                                      ELSE [matched |-> p.blacklisted]
      /\ Tool(c, "get_customer_profile") = IF "get_customer_profile" \in p.failures THEN None
                                           ELSE [risk |-> p.risk]
      /\ Tool(c, "get_credit_exposure") =
           IF "get_credit_exposure" \in p.failures THEN None
           ELSE [available |-> p.available, currency |-> p.currency]
  BY <1>4 DEF Call, ToolNames
<1>8. \A t \in ToolNames : Tool(c, t) = None <=> t \in p.failures
  BY <1>4, <1>6 DEF Call
<1> DEFINE Right(x, q) == /\ x.status = "PASS" <=> Meets(q, v, p)
                          /\ x.status = "FAIL" <=> Breaks(q, v, p)
<1>9. Right(RequiredMaterials(c), "R01")
  BY <1>1, <1>2, <1>3, MaterialsFollow DEF Follows
<1>10. Right(IndustryAdmission(c), "R03")
  BY <1>4, NoneAssumption DEF IndustryAdmission, OnPolicy, Verdict, Meets, Breaks, Fields
<1>11. Right(BlacklistClear(c), "R04")
  BY <1>6, <1>7, <1>8 DEF BlacklistClear, Judge, Verdict, Meets, Breaks, ToolNames
<1>12. Right(CustomerRisk(c), "R05")
  BY <1>7, <1>8 DEF CustomerRisk, Verdict, Meets, Breaks, ToolNames
<1>13. Right(LoanPurpose(c), "R06")
  BY <1>4 DEF LoanPurpose, OnPolicy, Judge, Verdict, Meets, Breaks, Fields
<1>14. Right(TenorLimit(c), "R07")
  <2>1. PICK months : months = Value(c, "F08") /\ months = v["F08"]
    BY <1>4 DEF Fields
  <2>2. months = None \/ months \in Int
    BY <1>5, <2>1
  <2>3. None \notin 1..36
    BY NoneAssumption
  <2> QED BY <1>4, <2>1, <2>2, <2>3 DEF TenorLimit, OnPolicy, Judge, Verdict, Meets, Breaks
<1>15. Right(AvailableExposure(c), "R08")
  <2>1. PICK requested : requested = Value(c, "F06") /\ requested = v["F06"]
    BY <1>4 DEF Fields
  <2>2. requested = None \/ requested \in Int
    BY <1>5, <2>1
  <2>3. None \notin 0..p.available
    BY <1>6, NoneAssumption
  <2>4. Value(c, "F07") = v["F07"]
    BY <1>4 DEF Fields
  <2>5. PICK exposure : exposure = Tool(c, "get_credit_exposure")
    OBVIOUS
  <2>6. /\ exposure = None <=> "get_credit_exposure" \in p.failures
        /\ exposure # None => exposure.available = p.available /\ exposure.currency = p.currency
    BY <1>7, <1>8, <2>5 DEF ToolNames
  <2> QED BY <1>6, <2>1, <2>2, <2>3, <2>4, <2>5, <2>6
          DEF AvailableExposure, Judge, Verdict, Meets, Breaks
<1>16. Right(LeverageRatio(c), "R09")
  <2>1. PICK assets : assets = Value(c, "F10") /\ assets = v["F10"]
    BY <1>4 DEF Fields
  <2>2. PICK liabilities : liabilities = Value(c, "F11") /\ liabilities = v["F11"]
    BY <1>4 DEF Fields
  <2>3. (assets = None \/ assets \in Int) /\ (liabilities = None \/ liabilities \in Int)
    BY <1>5, <2>1, <2>2
  <2> QED BY <2>1, <2>2, <2>3 DEF LeverageRatio, Judge, Verdict, Meets, Breaks
<1>17. Right(CurrentRatio(c), "R10")
  <2>1. PICK assets : assets = Value(c, "F12") /\ assets = v["F12"]
    BY <1>4 DEF Fields
  <2>2. PICK liabilities : liabilities = Value(c, "F13") /\ liabilities = v["F13"]
    BY <1>4 DEF Fields
  <2>3. (assets = None \/ assets \in Int) /\ (liabilities = None \/ liabilities \in Int)
    BY <1>5, <2>1, <2>2
  <2> QED BY <2>1, <2>2, <2>3 DEF CurrentRatio, Judge, Verdict, Meets, Breaks
<1>18. Right(Evaluate(c)[r], r)
  <2> HIDE DEF Right
  <2> QED BY <1>9, <1>10, <1>11, <1>12, <1>13, <1>14, <1>15, <1>16, <1>17 DEF Evaluate, Rules
<1> QED BY <1>1, <1>2, <1>3, <1>18 DEF Follows

(* Every rule but R02 passes and fails exactly when its text is met or      *)
(* broken, for all numbers; what is missing never passes for either.        *)
THEOREM RulesFollowTheTexts == Spec => []VerdictsFollowTheTexts
<1>1. FactReviewInv => VerdictsFollowTheTexts
  <2> SUFFICES ASSUME FactReviewInv, Evaluated, NEW r \in Rules \ {"R02"}
               PROVE  Follows(results[r], r)
    BY DEF VerdictsFollowTheTexts, Follows
  <2>1. /\ input \in Inputs /\ facts \in Tables /\ DOMAIN judged = DocumentTypes
        /\ results = Evaluate(Context(facts, judged))
    BY DEF FactReviewInv, TypeInv, VerdictInv
  <2> QED BY <2>1, VerdictsFollow
<1> QED BY <1>1, FactReviewInvariant, PTL

-----------------------------------------------------------------------------
(* What the materials say.                                                  *)

(* A PDF without pages counts as one of one page.                           *)
LEMMA PagesCountAtLeastOne ==
    ASSUME NEW n \in Nat
    PROVE  Max({n, 1}) = IF n = 0 THEN 1 ELSE n
<1>1. PICK S : S = {n, 1}
  OBVIOUS
<1>2. \E x \in S : \A y \in S : x >= y
  <2>1. CASE n = 0
    BY <1>1, <2>1
  <2>2. CASE n # 0
    BY <1>1, <2>2
  <2> QED BY <2>1, <2>2
<1>3. Max(S) \in S /\ \A y \in S : Max(S) >= y
  BY <1>2, Zenon DEF Max
<1>4. PICK m : m = Max(S)
  OBVIOUS
<1> QED BY <1>1, <1>3, <1>4

(* What a reader of the file got is what the program read.                  *)
LEMMA ReadableIsRead ==
    ASSUME input \in Inputs, NEW t \in DocumentTypes, Readable(t)
    PROVE  Parsed(input.mineru)[t].text = TextRead(t)
<1>1. PICK file : file = input.files[t]
  OBVIOUS
<1>2. PICK m : m = input.mineru
  OBVIOUS
<1>3. file.pages \in Nat /\ m \in {"off", "down", "up"}
  BY <1>1, <1>2, InputsAssumption
<1>4. PICK pages : pages = Max({file.pages, 1})
  OBVIOUS
<1>5. pages = IF file.pages = 0 THEN 1 ELSE file.pages
  BY <1>3, <1>4, PagesCountAtLeastOne
<1>6. Scanned(file) <=> file.format = "pdf" /\ TooSparse(file)
  BY <1>4, <1>5 DEF Scanned, TooSparse, MinCharsPerPage
<1>7. file.fault = "none" /\ (Scanned(file) => m # "down")
  BY <1>1, <1>2 DEF Readable
<1>8. TextRead(t) = IF Scanned(file) /\ m = "up" THEN file.scan ELSE file.text
  BY <1>1, <1>2 DEF TextRead
<1>9. ParseDocument(file, m).text = IF Scanned(file) /\ m = "up" THEN file.scan ELSE file.text
  <2>1. ParseDocument(file, m) = IF file.format = "pdf" THEN ParsePdf(file, m)
                                                        ELSE ReadAs(file.text)
    BY <1>7 DEF ParseDocument
  <2>2. ParsePdf(file, m) = IF ~TooSparse(file) THEN ReadAs(file.text)
                            ELSE IF m = "up" THEN ReadAs(file.scan)
                            ELSE IF m = "off" THEN ForReview(file.text)
                            ELSE ForReview(Nothing)
    BY <1>3, <1>7 DEF ParsePdf
  <2> QED BY <1>3, <1>6, <1>7, <2>1, <2>2 DEF ReadAs, ForReview
<1> QED BY <1>1, <1>2, <1>8, <1>9 DEF Parsed

(* What stands plainly is taken for what it says, if it is taken for a      *)
(* value at all.                                                            *)
LEMMA PlainIsUnderstood ==
    ASSUME NEW f \in Fields, NEW raw \in RawValues[f], raw # None, Plain(f, raw),
           NormalizeValue(f, Cut(f, raw)) # None
    PROVE  NormalizeValue(f, Cut(f, raw)) = Meaning(f, raw)
<1>1. raw \in RawOf(f)
  BY ValuesAssumption
<1>2. CASE f \in DecimalFields
  <2>0. f # "F08" /\ f # "F03" /\ f # "F07"
    BY <1>2 DEF DecimalFields
  <2>1. /\ raw.number \in Int /\ raw.separated \in BOOLEAN
        /\ raw.unit \in {"none", "yuan", "wan_yuan", "wan", "yi_yuan"}
    BY <1>1, <1>2, <2>0 DEF RawOf
  <2>2. ~raw.separated /\ raw.unit # "wan"
    BY <1>2, <2>0 DEF Plain
  <2>3. Cut(f, raw) = raw
    BY <1>2, <2>2 DEF Cut
  <2>4. NormalizeValue(f, raw) = raw.number * Multiplier(raw.unit)
    BY <1>2, <2>0 DEF NormalizeValue
  <2>5. Meaning(f, raw) = raw.number * Yuan(raw.unit)
    BY <1>2, <2>0 DEF Meaning
  <2>6. Multiplier(raw.unit) = Yuan(raw.unit)
    <3>1. PICK u : u = raw.unit
      OBVIOUS
    <3>2. u \in {"none", "yuan", "wan_yuan", "yi_yuan"}
      BY <2>1, <2>2, <3>1
    <3>3. Multiplier(u) = Yuan(u)
      BY <3>2, SMT DEF Multiplier, Yuan
    <3> QED BY <3>1, <3>3
  <2> QED BY <2>3, <2>4, <2>5, <2>6
<1>3. CASE f = "F08"
  <2>1. /\ raw.halves \in Int /\ raw.unit \in {"months", "years", "years_and_months"}
    BY <1>1, <1>3 DEF RawOf, DecimalFields
  <2>2. raw.unit # "years_and_months" /\ raw.halves % 2 = 0
    BY <1>3 DEF Plain, DecimalFields
  <2>3. Cut(f, raw) = raw /\ NormalizeValue(f, raw) = Months(raw)
    BY <1>3 DEF Cut, NormalizeValue, DecimalFields
  <2>4. PICK h \in Int : h = raw.halves /\ h % 2 = 0
    BY <2>1, <2>2
  <2>5. (12 * h) % 2 = 0 /\ (12 * h) \div 2 = (h \div 2) * 12
    BY <2>4
  <2>6. Meaning(f, raw) = (h \div 2) * (IF raw.unit = "years" THEN 12 ELSE 1)
    BY <1>3, <2>4 DEF Meaning, DecimalFields
  <2>7. Months(raw) = (h \div 2) * (IF raw.unit = "years" THEN 12 ELSE 1)
    BY <2>4, <2>5 DEF Months
  <2> QED BY <2>3, <2>6, <2>7
<1>4. CASE f \notin DecimalFields \cup {"F08"}
  <2>1. Cut(f, raw) = raw
    BY <1>4 DEF Cut
  <2>2. CASE f = "F07"
    BY <1>4, <2>1, <2>2 DEF NormalizeValue, Meaning, Currency
  <2>3. CASE f # "F07"
    <3>1. Meaning(f, raw) = raw
      BY <1>4, <2>3 DEF Meaning
    <3>2. NormalizeValue(f, raw) \in {raw, None}
      BY <1>4, <2>3 DEF NormalizeValue
    <3> QED BY <2>1, <3>1, <3>2
  <2> QED BY <2>2, <2>3
<1> QED BY <1>2, <1>3, <1>4

(* A value the rules read without anyone having ruled on it is contradicted *)
(* by nothing that stands plainly in any file of the Run that was read.     *)
THEOREM ReadingsAgree == Spec => []NothingReadContradicts
<1>1. FactReviewInv => NothingReadContradicts
  <2> SUFFICES ASSUME FactReviewInv, Evaluated,
                      NEW f \in Fields, facts[f].value # None, RuledOn(f) = {},
                      NEW t \in DocumentTypes, Readable(t),
                      NEW i \in DOMAIN TextRead(t)[f],
                      NEW entry, entry = TextRead(t)[f][i],
                      ~entry.cells, entry.raw # None, Plain(f, entry.raw)
               PROVE  facts[f].value = Meaning(f, entry.raw)
    BY DEF NothingReadContradicts
  <2>1. input \in Inputs /\ input.mineru \in {"off", "down", "up"}
    BY InputsAssumption DEF FactReviewInv, TypeInv
  <2>2. Parsed(input.mineru)[t].text = TextRead(t)
    BY <2>1, ReadableIsRead
  <2>3. entry.raw \in RawValues[f]
    <3>1. Parsed(input.mineru)[t].text[f] \in Seq(Entries(f))
      BY <2>1, ParsedTexts DEF Parsed
    <3>2. PICK said \in Seq(Entries(f)) : said = TextRead(t)[f]
      BY <2>2, <3>1
    <3>3. entry \in Entries(f)
      BY <3>2
    <3> QED BY <3>3 DEF Entries
  <2>4. AllRead
    <3>1. status # "RUNNING"
      BY DEF FactReviewInv, EarlyInv, Evaluated
    <3> QED BY <3>1 DEF FactReviewInv, FactsInv
  <2>5. PICK j \in DOMAIN facts[f].candidates :
          facts[f].candidates[j].value = NormalizeValue(f, Cut(f, entry.raw))
    BY <2>2, <2>4 DEF AllRead, Found
  <2>6. Values(facts[f].candidates) = {facts[f].value}
    <3>1. RuledRight(f) /\ NamedIn(rulings, f) = {}
      BY DEF FactReviewInv, VerdictInv, RuledOn, NamedIn
    <3> QED BY <3>1 DEF RuledRight, Agreed
  <2>7. facts[f].value = NormalizeValue(f, Cut(f, entry.raw))
    BY <2>5, <2>6 DEF Values
  <2> QED BY <2>3, <2>7, PlainIsUnderstood
<1> QED BY <1>1, FactReviewInvariant, PTL
=============================================================================
