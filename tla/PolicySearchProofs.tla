------------------------- MODULE PolicySearchProofs -------------------------
(***************************************************************************)
(* Proofs about PolicySearch, for every policy text and every limit that   *)
(* its assumptions allow.                                                  *)
(***************************************************************************)
EXTENDS PolicySearch, FoldLemmas, FiniteSetTheorems, SequenceTheorems

-----------------------------------------------------------------------------
(* Fractions of natural numbers.                                           *)

Fractions == Nat \X (Nat \ {0})

(* Multiplying by a positive number keeps the order.                        *)
LEMMA Scaled ==
    ASSUME NEW a \in Nat, NEW b \in Nat, NEW k \in Nat \ {0}
    PROVE  /\ a <= b <=> a * k <= b * k
           /\ a < b <=> a * k < b * k
<1>1. a <= b => a * k <= b * k
  <2>1. SUFFICES ASSUME a <= b PROVE a * k <= b * k
    OBVIOUS
  <2>2. PICK d \in Nat : b = a + d
    <3>1. b - a \in Nat /\ b = a + (b - a)
      BY <2>1
    <3> QED BY <3>1
  <2>3. b * k = a * k + d * k /\ d * k >= 0 /\ a * k \in Int
    BY <2>2
  <2> QED BY <2>3
<1>2. b < a => b * k < a * k
  <2>1. SUFFICES ASSUME b < a PROVE b * k < a * k
    OBVIOUS
  <2>2. PICK d \in Nat : a = b + 1 + d
    <3>1. a - b - 1 \in Nat /\ a = b + 1 + (a - b - 1)
      BY <2>1
    <3> QED BY <3>1
  <2>3. a * k = b * k + k + d * k /\ d * k >= 0 /\ b * k \in Int
    BY <2>2
  <2> QED BY <2>3
<1>3. a < b => a * k < b * k
  <2>1. SUFFICES ASSUME a < b PROVE a * k < b * k
    OBVIOUS
  <2>2. PICK d \in Nat : b = a + 1 + d
    <3>1. b - a - 1 \in Nat /\ b = a + 1 + (b - a - 1)
      BY <2>1
    <3> QED BY <3>1
  <2>3. b * k = a * k + k + d * k /\ d * k >= 0 /\ a * k \in Int
    BY <2>2
  <2> QED BY <2>3
<1>4. b <= a => b * k <= a * k
  <2>1. CASE b < a
    BY <2>1, <1>2
  <2>2. CASE b = a
    BY <2>2
  <2> QED BY <2>1, <2>2
<1>5. a * k \in Int /\ b * k \in Int
  OBVIOUS
<1> QED BY <1>1, <1>2, <1>3, <1>4, <1>5

(* Not being lower is transitive among fractions.                           *)
LEMMA NotLower ==
    ASSUME NEW p \in Fractions, NEW q \in Fractions, NEW r \in Fractions,
           ~Higher(q, p), ~Higher(r, q)
    PROVE  ~Higher(r, p)
<1>1. PICK a \in Nat, b \in Nat, c \in Nat, x \in Nat \ {0}, y \in Nat \ {0}, z \in Nat \ {0} :
        p = <<a, x>> /\ q = <<b, y>> /\ r = <<c, z>>
  BY DEF Fractions
<1>2. b * x <= a * y /\ c * y <= b * z
  BY <1>1 DEF Higher
<1>3. /\ b * x \in Nat /\ a * y \in Nat /\ c * y \in Nat /\ b * z \in Nat
      /\ c * x \in Nat /\ a * z \in Nat
  OBVIOUS
<1>4. (b * x) * z <= (a * y) * z /\ (c * y) * x <= (b * z) * x
  BY <1>2, <1>3, Scaled
<1>5. /\ (b * z) * x = (b * x) * z /\ (c * y) * x = (c * x) * y
      /\ (a * y) * z = (a * z) * y
  OBVIOUS
<1>6. (c * x) * y <= (a * z) * y
  <2>1. (c * x) * y \in Int /\ (a * z) * y \in Int /\ (b * x) * z \in Int
    BY <1>3
  <2> QED BY <1>4, <1>5, <2>1
<1>7. c * x <= a * z
  BY <1>3, <1>6, Scaled
<1> QED BY <1>1, <1>3, <1>7 DEF Higher
-----------------------------------------------------------------------------
(* Lists and ranks.                                                        *)

IsRanking(list, n) ==
    \E m \in Nat : /\ m <= Depth /\ list \in [1..m -> 1..n]
                   /\ \A i, j \in 1..m : list[i] = list[j] => i = j

RankingsOf(result, n) == IsRanking(result.bm25, n) /\ IsRanking(result.dense, n)

(* What retrievers return is a ranking of at most Depth chunks.             *)
LEMMA RetrieversRank ==
    ASSUME NEW n \in Nat \ {0}, NEW list \in Rankings(n)
    PROVE  IsRanking(list, n)
<1>1. Depth \in Nat \ {0}
  BY SizesAssumption
<1>2. PICK m \in {Depth, n} : \A y \in {Depth, n} : m <= y
  BY <1>1, LeastNat
<1>3. Min({Depth, n}) \in {Depth, n} /\ \A y \in {Depth, n} : Min({Depth, n}) <= y
  BY <1>2 DEF Min
<1>4. PICK k : k = Min({Depth, n})
  OBVIOUS
<1>5. k \in Nat /\ k <= Depth
  BY <1>1, <1>3, <1>4
<1>6. list \in [1..k -> 1..n] /\ \A i, j \in 1..k : list[i] = list[j] => i = j
  BY <1>4 DEF Rankings
<1> QED BY <1>5, <1>6 DEF IsRanking

(* A chunk of a list has one rank in it.                                    *)
LEMMA RankOf ==
    ASSUME NEW n \in Nat, NEW list, IsRanking(list, n), NEW c \in Listed(list)
    PROVE  /\ RankIn(list, c) \in 1..Depth /\ RankIn(list, c) \in DOMAIN list
           /\ list[RankIn(list, c)] = c
           /\ c \in 1..n
<1>1. PICK m \in Nat : /\ m <= Depth /\ list \in [1..m -> 1..n]
  BY DEF IsRanking
<1>2. \E i \in DOMAIN list : list[i] = c
  BY DEF Listed
<1>3. RankIn(list, c) \in DOMAIN list /\ list[RankIn(list, c)] = c
  BY <1>2 DEF RankIn
<1>4. Depth \in Nat
  BY SizesAssumption
<1> QED BY <1>1, <1>3, <1>4

(* Different chunks have different ranks in a list.                         *)
LEMMA RanksDiffer ==
    ASSUME NEW n \in Nat, NEW list, IsRanking(list, n),
           NEW c \in Listed(list), NEW d \in Listed(list), c # d
    PROVE  RankIn(list, c) # RankIn(list, d)
BY RankOf

(* There are finitely many candidates.                                      *)
LEMMA CandidatesAreFinite ==
    ASSUME NEW n \in Nat, NEW result, RankingsOf(result, n)
    PROVE  IsFiniteSet(Candidates(result)) /\ Candidates(result) \subseteq 1..n
<1>1. Candidates(result) \subseteq 1..n
  BY RankOf DEF Candidates, RankingsOf
<1>2. IsFiniteSet(1..n)
  BY FS_Interval
<1> QED BY <1>1, <1>2, FS_Subset

(* The better rank is one of the two.                                       *)
LEMMA BestRankIsRank ==
    ASSUME NEW n \in Nat, NEW result, RankingsOf(result, n), NEW c \in Candidates(result)
    PROVE  BestRank(result, c) \in Nat
<1> DEFINE S == {RankIn(list, c) : list \in {l \in {result.bm25, result.dense} : c \in Listed(l)}}
<1>1. S \subseteq Nat
  <2>1. ASSUME NEW list \in {result.bm25, result.dense}, c \in Listed(list)
        PROVE  RankIn(list, c) \in Nat
    <3>1. IsRanking(list, n)
      BY DEF RankingsOf
    <3>2. Depth \in Nat
      BY SizesAssumption
    <3> QED BY <2>1, <3>1, <3>2, RankOf
  <2> QED BY <2>1
<1>2. S # {}
  BY DEF Candidates
<1>3. BestRank(result, c) = Min(S)
  BY DEF BestRank
<1>4. PICK T : T = S
  OBVIOUS
<1>5. PICK x \in T : \A y \in T : x <= y
  BY <1>1, <1>2, <1>4, LeastNat
<1>6. Min(T) \in T
  BY <1>5 DEF Min
<1> QED BY <1>1, <1>3, <1>4, <1>6

-----------------------------------------------------------------------------
(* Scores and the order of the fusion.                                     *)

(* The share of a list is a fraction, ...                                   *)
LEMMA ShareIsFraction ==
    ASSUME NEW n \in Nat, NEW list, IsRanking(list, n), NEW c
    PROVE  /\ Share(list, c) \in Fractions
           /\ c \in Listed(list) => Share(list, c) = <<1, RrfK + RankIn(list, c)>>
           /\ c \notin Listed(list) => Share(list, c) = <<0, 1>>
<1>1. RrfK \in Nat /\ Depth \in Nat
  BY SizesAssumption
<1>2. CASE c \in Listed(list)
  <2>1. RankIn(list, c) \in 1..Depth
    BY <1>2, RankOf
  <2>2. PICK k \in 1..Depth : k = RankIn(list, c)
    BY <2>1
  <2>3. Share(list, c) = <<1, RrfK + k>> /\ RrfK + k \in Nat \ {0}
    BY <1>1, <1>2, <2>2 DEF Share
  <2> QED BY <1>2, <2>2, <2>3 DEF Fractions
<1>3. CASE c \notin Listed(list)
  BY <1>3 DEF Share, Fractions
<1> QED BY <1>2, <1>3

(* ... and so is a score.                                                   *)
LEMMA ScoreIsFraction ==
    ASSUME NEW n \in Nat, NEW result, RankingsOf(result, n), NEW c
    PROVE  Score(result, c) \in Fractions
<1>1. PICK x \in Fractions : x = Share(result.bm25, c)
  BY ShareIsFraction DEF RankingsOf
<1>2. PICK y \in Fractions : y = Share(result.dense, c)
  BY ShareIsFraction DEF RankingsOf
<1>3. Score(result, c) = <<x[1] * y[2] + y[1] * x[2], x[2] * y[2]>>
  BY <1>1, <1>2 DEF Score
<1>4. /\ x[1] \in Nat /\ y[1] \in Nat /\ x[2] \in Nat \ {0} /\ y[2] \in Nat \ {0}
  BY DEF Fractions
<1>5. x[1] * y[2] + y[1] * x[2] \in Nat /\ x[2] * y[2] \in Nat \ {0}
  BY <1>4
<1> QED BY <1>3, <1>5 DEF Fractions

(* One fraction is the higher one, or neither.                              *)
LEMMA HigherIsAsymmetric ==
    ASSUME NEW p \in Fractions, NEW q \in Fractions, Higher(p, q)
    PROVE  ~Higher(q, p)
<1>1. p[1] * q[2] \in Int /\ q[1] * p[2] \in Int
  BY DEF Fractions
<1> QED BY <1>1 DEF Higher

(* The order of the fusion is strict ...                                    *)
LEMMA NeverBeforeItself ==
    ASSUME NEW n \in Nat, NEW result, RankingsOf(result, n), NEW c \in Candidates(result)
    PROVE  ~FusedBefore(result, c, c)
<1>1. PICK p \in Fractions : p = Score(result, c)
  BY ScoreIsFraction
<1>2. ~Higher(p, p)
  BY HigherIsAsymmetric
<1>3. PICK b \in Nat : b = BestRank(result, c)
  BY BestRankIsRank
<1>4. c \in Nat
  BY CandidatesAreFinite
<1> QED BY <1>1, <1>2, <1>3, <1>4 DEF FusedBefore

(* ... and transitive.                                                      *)
LEMMA FusedBeforeIsTransitive ==
    ASSUME NEW n \in Nat, NEW result, RankingsOf(result, n), NEW c \in Candidates(result),
           NEW d \in Candidates(result), NEW e \in Candidates(result),
           FusedBefore(result, c, d), FusedBefore(result, d, e)
    PROVE  FusedBefore(result, c, e)
<1>1. PICK p \in Fractions, q \in Fractions, r \in Fractions :
        p = Score(result, c) /\ q = Score(result, d) /\ r = Score(result, e)
  BY ScoreIsFraction
<1>2. PICK i \in Nat, j \in Nat, k \in Nat :
        i = BestRank(result, c) /\ j = BestRank(result, d) /\ k = BestRank(result, e)
  BY BestRankIsRank
<1>3. c \in Nat /\ d \in Nat /\ e \in Nat
  BY CandidatesAreFinite
<1>4. /\ Higher(p, q) \/ (~Higher(q, p) /\ (i - j < 0 \/ (i - j = 0 /\ c < d)))
      /\ Higher(q, r) \/ (~Higher(r, q) /\ (j - k < 0 \/ (j - k = 0 /\ d < e)))
  BY <1>1, <1>2 DEF FusedBefore
<1>5. ~Higher(q, p) /\ ~Higher(r, q)
  BY <1>4, HigherIsAsymmetric
<1>6. ~Higher(r, p)
  BY <1>5, NotLower
<1>7. CASE Higher(p, r)
  BY <1>1, <1>7 DEF FusedBefore
<1>8. CASE ~Higher(p, r)
  <2>1. ~Higher(p, q)
    BY <1>5, <1>8, NotLower
  <2>2. ~Higher(q, r)
    BY <1>5, <1>8, NotLower
  <2>3. i - k < 0 \/ (i - k = 0 /\ c < e)
    BY <1>2, <1>3, <1>4, <2>1, <2>2
  <2> QED BY <1>1, <1>2, <1>6, <2>3 DEF FusedBefore
<1> QED BY <1>7, <1>8


(* What comes before another in the order of the fusion has a smaller rank. *)
LEMMA EarlierIsRankedBetter ==
    ASSUME NEW n \in Nat, NEW result, RankingsOf(result, n), NEW c \in Candidates(result),
           NEW d \in Candidates(result), FusedBefore(result, c, d)
    PROVE  /\ FusedRank(result, c) \in Nat /\ FusedRank(result, d) \in Nat
           /\ FusedRank(result, c) < FusedRank(result, d)
<1> DEFINE Before(x) == {e \in Candidates(result) : FusedBefore(result, e, x)}
<1>1. IsFiniteSet(Before(c)) /\ IsFiniteSet(Before(d))
  <2>1. Before(c) \subseteq Candidates(result) /\ Before(d) \subseteq Candidates(result)
    OBVIOUS
  <2> QED BY <2>1, CandidatesAreFinite, FS_Subset
<1>2. Before(c) \subseteq Before(d)
  BY FusedBeforeIsTransitive
<1>3. c \in Before(d) /\ c \notin Before(c)
  BY NeverBeforeItself
<1>4. PICK S, T : S = Before(c) /\ T = Before(d)
  OBVIOUS
<1>5. Cardinality(S) \in Nat /\ Cardinality(T) \in Nat /\ Cardinality(S) < Cardinality(T)
  <2>1. Cardinality(S) \in Nat /\ Cardinality(T) \in Nat
    BY <1>1, <1>4, FS_CardinalityType
  <2>2. S \subseteq T /\ S # T
    BY <1>2, <1>3, <1>4
  <2>3. Cardinality(S) <= Cardinality(T) /\ (Cardinality(S) = Cardinality(T) => S = T)
    BY <1>1, <1>4, <2>2, FS_Subset
  <2> QED BY <2>1, <2>2, <2>3
<1>6. FusedRank(result, c) = 1 + Cardinality(S) /\ FusedRank(result, d) = 1 + Cardinality(T)
  BY <1>4 DEF FusedRank
<1> QED BY <1>5, <1>6

-----------------------------------------------------------------------------
(* What a search finds.                                                    *)

WellSearched(result) ==
    /\ \E n \in Nat : RankingsOf(result, n)
    /\ result.kept = {c \in Candidates(result) : FusedRank(result, c) <= Kept}
    /\ result.selected \subseteq result.kept

SearchInv == WellSearched(found)

(* SearchInv holds initially, ...                                           *)
LEMMA InitSearch == Init => SearchInv
<1> SUFFICES ASSUME Init PROVE SearchInv
  OBVIOUS
<1>1. found.bm25 = <<>> /\ found.dense = <<>> /\ found.kept = {} /\ found.selected = {}
  BY DEF Init, NotSearched
<1>2. RankingsOf(found, 0)
  <2>1. <<>> \in [1..0 -> 1..0] /\ Depth \in Nat
    BY SizesAssumption
  <2>2. IsRanking(<<>>, 0)
    BY <2>1 DEF IsRanking
  <2> QED BY <1>1, <2>2 DEF RankingsOf
<1>3. Candidates(found) = {}
  BY <1>1 DEF Candidates, Listed
<1> QED BY <1>1, <1>2, <1>3 DEF SearchInv, WellSearched

(* The ranks depend on the two lists only.                                  *)
LEMMA SameLists ==
    ASSUME NEW x, NEW y, x.bm25 = y.bm25, x.dense = y.dense
    PROVE  /\ Candidates(x) = Candidates(y)
           /\ \A c : FusedRank(x, c) = FusedRank(y, c)
<1>1. Candidates(x) = Candidates(y)
  BY DEF Candidates
<1>2. ASSUME NEW c PROVE Score(x, c) = Score(y, c) /\ BestRank(x, c) = BestRank(y, c)
  BY DEF Score, BestRank
<1>3. ASSUME NEW c, NEW d PROVE FusedBefore(x, c, d) <=> FusedBefore(y, c, d)
  BY <1>2 DEF FusedBefore
<1>4. ASSUME NEW c PROVE FusedRank(x, c) = FusedRank(y, c)
  BY <1>1, <1>3 DEF FusedRank
<1> QED BY <1>1, <1>4

(* ... and is kept by every step.                                           *)
LEMMA NextKeepsSearch ==
    ASSUME SearchInv, [Next]_vars, chunks # <<>> => Len(chunks) \in Nat \ {0}
    PROVE  SearchInv'
<1>1. CASE Search
  <2>1. PICK n \in Nat \ {0} : n = Len(chunks)
    BY <1>1 DEF Search
  <2>2. PICK bm25, dense, lists, kept, selected :
          /\ bm25 \in Rankings(n) /\ dense \in Rankings(n)
          /\ lists = [bm25 |-> bm25, dense |-> dense]
          /\ kept = {c \in Candidates(lists) : FusedRank(lists, c) <= Kept}
          /\ selected \in kSubset(Min({TopK, Cardinality(kept)}), kept)
          /\ found' = [bm25 |-> bm25, dense |-> dense, kept |-> kept, selected |-> selected]
    BY <1>1, <2>1 DEF Search
  <2>3. /\ found'.bm25 = lists.bm25 /\ found'.dense = lists.dense
        /\ found'.kept = kept /\ found'.selected = selected
    BY <2>2
  <2>4. RankingsOf(lists, n)
    BY <2>1, <2>2, RetrieversRank DEF RankingsOf
  <2>5. RankingsOf(found', n)
    BY <2>3, <2>4 DEF RankingsOf
  <2>6. /\ Candidates(found') = Candidates(lists)
        /\ \A c : FusedRank(found', c) = FusedRank(lists, c)
    BY <2>3, SameLists
  <2>7. selected \subseteq kept
    BY <2>2 DEF kSubset
  <2> QED BY <2>2, <2>3, <2>5, <2>6, <2>7 DEF SearchInv, WellSearched
<1>2. CASE Heading \/ Blank \/ TextLine \/ EndOfText \/ UNCHANGED vars
  <2>1. found' = found
    BY <1>2 DEF Heading, Blank, TextLine, EndOfText, vars
  <2> QED BY <2>1 DEF SearchInv
<1> QED BY <1>1, <1>2 DEF Next

(* A higher score is enough to come before.                                 *)
LEMMA HigherIsRankedBetter ==
    ASSUME NEW n \in Nat, NEW result, RankingsOf(result, n), NEW c \in Candidates(result),
           NEW d \in Candidates(result), Higher(Score(result, c), Score(result, d))
    PROVE  /\ FusedRank(result, c) \in Nat /\ FusedRank(result, d) \in Nat
           /\ FusedRank(result, c) < FusedRank(result, d)
<1>1. FusedBefore(result, c, d)
  BY DEF FusedBefore
<1> QED BY <1>1, EarlierIsRankedBetter

(* Two ranks up to a depth below twice the constant are worth more than one *)
(* rank, whichever it is.                                                   *)
LEMMA TwoSharesAreMore ==
    ASSUME NEW x \in Nat \ {0}, NEW y \in Nat \ {0}, NEW z \in Nat \ {0}, NEW k \in Nat \ {0},
           x < 2 * k, y < 2 * k, k <= z
    PROVE  x * y < (x + y) * z
<1>1. CASE x <= y
  <2>1. y * x < (2 * k) * x
    BY Scaled
  <2>2. (2 * x) * k <= (x + y) * k
    BY <1>1, Scaled
  <2>3. k * (x + y) <= z * (x + y)
    BY Scaled
  <2>4. /\ y * x = x * y /\ (2 * k) * x = (2 * x) * k /\ k * (x + y) = (x + y) * k
        /\ z * (x + y) = (x + y) * z
    OBVIOUS
  <2>5. x * y \in Int /\ (2 * x) * k \in Int /\ (x + y) * k \in Int /\ (x + y) * z \in Int
    OBVIOUS
  <2> QED BY <2>1, <2>2, <2>3, <2>4, <2>5
<1>2. CASE y <= x
  <2>1. x * y < (2 * k) * y
    BY Scaled
  <2>2. (2 * y) * k <= (x + y) * k
    BY <1>2, Scaled
  <2>3. k * (x + y) <= z * (x + y)
    BY Scaled
  <2>4. /\ (2 * k) * y = (2 * y) * k /\ k * (x + y) = (x + y) * k
        /\ z * (x + y) = (x + y) * z
    OBVIOUS
  <2>5. x * y \in Int /\ (2 * y) * k \in Int /\ (x + y) * k \in Int /\ (x + y) * z \in Int
    OBVIOUS
  <2> QED BY <2>1, <2>2, <2>3, <2>4, <2>5
<1> QED BY <1>1, <1>2

(* So a chunk of both lists has a higher score than one of a single list.   *)
LEMMA AgreementIsHigher ==
    ASSUME Depth < RrfK + 2, NEW n \in Nat, NEW result, RankingsOf(result, n),
           NEW c \in Listed(result.bm25) \cap Listed(result.dense),
           NEW d \in Candidates(result) \ (Listed(result.bm25) \cap Listed(result.dense))
    PROVE  Higher(Score(result, c), Score(result, d))
<1>1. RrfK \in Nat /\ Depth \in Nat
  BY SizesAssumption
<1>2. IsRanking(result.bm25, n) /\ IsRanking(result.dense, n)
  BY DEF RankingsOf
<1>3. PICK i \in 1..Depth, j \in 1..Depth :
        i = RankIn(result.bm25, c) /\ j = RankIn(result.dense, c)
  BY <1>2, RankOf
<1>4. PICK x \in Nat \ {0}, y \in Nat \ {0}, k \in Nat \ {0} :
        x = RrfK + i /\ y = RrfK + j /\ k = RrfK + 1
  BY <1>1
<1>5. x < 2 * k /\ y < 2 * k
  BY <1>1, <1>3, <1>4
<1>6. Share(result.bm25, c) = <<1, x>> /\ Share(result.dense, c) = <<1, y>>
  BY <1>2, <1>3, <1>4, ShareIsFraction
<1>7. Score(result, c) = <<1 * y + 1 * x, x * y>>
  BY <1>6 DEF Score
<1>8. PICK z \in Nat \ {0} : k <= z /\ Score(result, d) = <<1, z>>
  <2>1. CASE d \in Listed(result.bm25)
    <3>1. d \notin Listed(result.dense)
      BY <2>1
    <3>2. PICK h \in 1..Depth : h = RankIn(result.bm25, d)
      BY <1>2, <2>1, RankOf
    <3>3. Share(result.bm25, d) = <<1, RrfK + h>> /\ Share(result.dense, d) = <<0, 1>>
      BY <1>2, <2>1, <3>1, <3>2, ShareIsFraction
    <3>4. Score(result, d) = <<1 * 1 + 0 * (RrfK + h), (RrfK + h) * 1>>
      BY <3>3 DEF Score
    <3>5. /\ 1 * 1 + 0 * (RrfK + h) = 1 /\ (RrfK + h) * 1 = RrfK + h
          /\ RrfK + h \in Nat \ {0} /\ k <= RrfK + h
      BY <1>1, <1>4
    <3> QED BY <3>4, <3>5
  <2>2. CASE d \notin Listed(result.bm25)
    <3>1. d \in Listed(result.dense)
      BY <2>2 DEF Candidates
    <3>2. PICK h \in 1..Depth : h = RankIn(result.dense, d)
      BY <1>2, <3>1, RankOf
    <3>3. Share(result.dense, d) = <<1, RrfK + h>> /\ Share(result.bm25, d) = <<0, 1>>
      BY <1>2, <2>2, <3>1, <3>2, ShareIsFraction
    <3>4. Score(result, d) = <<0 * (RrfK + h) + 1 * 1, 1 * (RrfK + h)>>
      BY <3>3 DEF Score
    <3>5. /\ 0 * (RrfK + h) + 1 * 1 = 1 /\ 1 * (RrfK + h) = RrfK + h
          /\ RrfK + h \in Nat \ {0} /\ k <= RrfK + h
      BY <1>1, <1>4
    <3> QED BY <3>4, <3>5
  <2> QED BY <2>1, <2>2
<1>9. x * y < (x + y) * z
  BY <1>5, <1>8, TwoSharesAreMore
<1>10. (1 * y + 1 * x) * z = (x + y) * z /\ 1 * (x * y) = x * y
  OBVIOUS
<1> QED BY <1>7, <1>8, <1>9, <1>10 DEF Higher

(* Of two sums of fractions, the one with no lower and one higher term is   *)
(* higher.                                                                  *)
LEMMA SumIsHigher ==
    ASSUME NEW p \in Fractions, NEW q \in Fractions, NEW r \in Fractions, NEW s \in Fractions,
           Higher(p, r), ~Higher(s, q)
    PROVE  /\ Higher(<<p[1] * q[2] + q[1] * p[2], p[2] * q[2]>>,
                     <<r[1] * s[2] + s[1] * r[2], r[2] * s[2]>>)
           /\ Higher(<<q[1] * p[2] + p[1] * q[2], q[2] * p[2]>>,
                     <<s[1] * r[2] + r[1] * s[2], s[2] * r[2]>>)
<1>a. PICK a \in Nat, w \in Nat \ {0}, b \in Nat, x \in Nat \ {0} :
        p = <<a, w>> /\ q = <<b, x>>
  BY DEF Fractions
<1>b. PICK c \in Nat, y \in Nat \ {0}, d \in Nat, z \in Nat \ {0} :
        r = <<c, y>> /\ s = <<d, z>>
  BY DEF Fractions
<1>1. p = <<a, w>> /\ q = <<b, x>> /\ r = <<c, y>> /\ s = <<d, z>>
  BY <1>a, <1>b
<1>2. c * w < a * y /\ d * x <= b * z
  BY <1>1 DEF Higher
<1>3. /\ c * w \in Nat /\ a * y \in Nat /\ d * x \in Nat /\ b * z \in Nat
      /\ x * z \in Nat \ {0} /\ w * y \in Nat \ {0}
  OBVIOUS
<1>4. (c * w) * (x * z) < (a * y) * (x * z) /\ (d * x) * (w * y) <= (b * z) * (w * y)
  BY <1>2, <1>3, Scaled
<1>5. /\ (a * x + b * w) * (y * z) = (a * y) * (x * z) + (b * z) * (w * y)
      /\ (c * z + d * y) * (w * x) = (c * w) * (x * z) + (d * x) * (w * y)
  OBVIOUS
<1>6. /\ (c * w) * (x * z) \in Int /\ (a * y) * (x * z) \in Int
      /\ (d * x) * (w * y) \in Int /\ (b * z) * (w * y) \in Int
  BY <1>3
<1>7. (c * z + d * y) * (w * x) < (a * x + b * w) * (y * z)
  BY <1>4, <1>5, <1>6
<1>8. /\ b * w + a * x = a * x + b * w /\ x * w = w * x
      /\ d * y + c * z = c * z + d * y /\ z * y = y * z
  OBVIOUS
<1> QED BY <1>1, <1>7, <1>8 DEF Higher

(* A chunk that is ahead in a list has no lower share of it, and a higher   *)
(* one if it is listed.                                                     *)
LEMMA ShareAhead ==
    ASSUME NEW n \in Nat, NEW list, IsRanking(list, n), NEW c, NEW d, Ahead(list, c, d)
    PROVE  /\ ~Higher(Share(list, d), Share(list, c))
           /\ c \in Listed(list) => Higher(Share(list, c), Share(list, d))
<1>1. RrfK \in Nat /\ Depth \in Nat
  BY SizesAssumption
<1>2. CASE c \in Listed(list)
  <2>1. PICK i \in 1..Depth : i = RankIn(list, c)
    BY <1>2, RankOf
  <2>2. Share(list, c) = <<1, RrfK + i>>
    BY <1>2, <2>1, ShareIsFraction
  <2>3. CASE d \in Listed(list)
    <3>1. PICK j \in 1..Depth : j = RankIn(list, d)
      BY <2>3, RankOf
    <3>2. Share(list, d) = <<1, RrfK + j>>
      BY <2>3, <3>1, ShareIsFraction
    <3>3. i < j
      BY <1>2, <2>1, <2>3, <3>1 DEF Ahead
    <3> QED BY <1>1, <2>2, <3>2, <3>3 DEF Higher
  <2>4. CASE d \notin Listed(list)
    <3>1. Share(list, d) = <<0, 1>>
      BY <2>4, ShareIsFraction
    <3> QED BY <1>1, <2>2, <3>1 DEF Higher
  <2> QED BY <2>3, <2>4
<1>3. CASE c \notin Listed(list)
  <2>1. d \notin Listed(list)
    BY <1>3 DEF Ahead
  <2>2. Share(list, c) = <<0, 1>> /\ Share(list, d) = <<0, 1>>
    BY <1>3, <2>1, ShareIsFraction
  <2> QED BY <1>3, <2>2 DEF Higher
<1> QED BY <1>2, <1>3

(* A chunk that is ahead in both lists has the higher score.                *)
LEMMA AheadIsHigher ==
    ASSUME NEW n \in Nat, NEW result, RankingsOf(result, n), NEW c \in Candidates(result),
           NEW d, Ahead(result.bm25, c, d), Ahead(result.dense, c, d)
    PROVE  Higher(Score(result, c), Score(result, d))
<1>1. PICK p \in Fractions, q \in Fractions, r \in Fractions, s \in Fractions :
        /\ p = Share(result.bm25, c) /\ q = Share(result.dense, c)
        /\ r = Share(result.bm25, d) /\ s = Share(result.dense, d)
  BY ShareIsFraction DEF RankingsOf
<1>2. /\ Score(result, c) = <<p[1] * q[2] + q[1] * p[2], p[2] * q[2]>>
      /\ Score(result, d) = <<r[1] * s[2] + s[1] * r[2], r[2] * s[2]>>
  BY <1>1 DEF Score
<1>3. ~Higher(r, p) /\ ~Higher(s, q)
  BY <1>1, ShareAhead DEF RankingsOf
<1>4. CASE c \in Listed(result.bm25)
  <2>1. Higher(p, r)
    BY <1>1, <1>4, ShareAhead DEF RankingsOf
  <2> QED BY <1>2, <1>3, <2>1, SumIsHigher
<1>5. CASE c \notin Listed(result.bm25)
  <2>1. c \in Listed(result.dense)
    BY <1>5 DEF Candidates
  <2>2. Higher(q, s)
    BY <1>1, <2>1, ShareAhead DEF RankingsOf
  <2> QED BY <1>2, <1>3, <2>2, SumIsHigher
<1> QED BY <1>4, <1>5

(* A chunk of both lists has the better rank.                               *)
LEMMA SearchAgrees ==
    ASSUME Depth < RrfK + 2, SearchInv
    PROVE  AgreementWins
<1>1. PICK n \in Nat : RankingsOf(found, n)
  BY DEF SearchInv, WellSearched
<1>2. ASSUME NEW c \in Listed(found.bm25) \cap Listed(found.dense),
             NEW d \in Candidates(found) \ (Listed(found.bm25) \cap Listed(found.dense))
      PROVE  /\ FusedRank(found, c) < FusedRank(found, d)
             /\ d \in found.kept => c \in found.kept
  <2>1. c \in Candidates(found)
    BY DEF Candidates
  <2>2. Higher(Score(found, c), Score(found, d))
    BY <1>1, AgreementIsHigher
  <2>3. PICK i \in Nat, j \in Nat :
          i = FusedRank(found, c) /\ j = FusedRank(found, d) /\ i < j
    BY <1>1, <2>1, <2>2, HigherIsRankedBetter
  <2>4. Kept \in Nat /\ (j <= Kept => i <= Kept)
    BY <2>3, SizesAssumption
  <2>5. found.kept = {x \in Candidates(found) : FusedRank(found, x) <= Kept}
    BY DEF SearchInv, WellSearched
  <2> QED BY <2>1, <2>3, <2>4, <2>5
<1> QED BY <1>2 DEF AgreementWins

(* A chunk that is ahead in both lists has the better rank.                 *)
LEMMA SearchFollows ==
    ASSUME SearchInv
    PROVE  FusionFollowsRankings
<1>1. PICK n \in Nat : RankingsOf(found, n)
  BY DEF SearchInv, WellSearched
<1>2. ASSUME NEW c \in Candidates(found), NEW d \in Candidates(found),
             Ahead(found.bm25, c, d), Ahead(found.dense, c, d)
      PROVE  FusedRank(found, c) < FusedRank(found, d)
  <2>1. Higher(Score(found, c), Score(found, d))
    BY <1>1, <1>2, AheadIsHigher
  <2> QED BY <1>1, <2>1, HigherIsRankedBetter
<1> QED BY <1>2 DEF FusionFollowsRankings

-----------------------------------------------------------------------------
(* Folds.  The sum of the lengths of sentences, ...                         *)

Id == Nat \X Nat
Sentence == [id : Id, length : Nat \ {0}]

SumStep(sum, s) == sum + s.length
SizeOf(ss) == FoldLeft(LAMBDA sum, s : sum + s.length, 0, ss)

(* SizeOf adds the lengths one by one.                                      *)
LEMMA SizeIsFold ==
    ASSUME NEW ss \in Seq(Sentence)
    PROVE  \E P \in [0..Len(ss) -> Nat] :
             /\ P[0] = 0
             /\ \A n \in 1..Len(ss) : P[n] = SumStep(P[n - 1], ss[n])
             /\ P[Len(ss)] = SizeOf(ss)
<1>1. PICK N \in Nat : N = Len(ss) /\ DOMAIN ss = 1..N
  OBVIOUS
<1>2. PICK V : V = Nat
  OBVIOUS
<1>3. 0 \in V
  BY <1>2
<1>4. PICK G : G = [p \in (1..N) \X V |-> SumStep(p[2], ss[p[1]])]
  OBVIOUS
<1>5. ASSUME NEW n \in 1..N, NEW all \in V
      PROVE  G[<<n, all>>] = SumStep(all, ss[n]) /\ G[<<n, all>>] \in V
  <2>1. SumStep(all, ss[n]) \in V
    <3>1. ss[n] \in Sentence
      BY <1>1
    <3>2. ss[n].length \in Nat /\ all \in Nat
      BY <1>2, <3>1 DEF Sentence
    <3>3. all + ss[n].length \in Nat
      BY <3>2
    <3> QED BY <1>2, <3>3 DEF SumStep
  <2> QED BY <1>4, <2>1
<1>6. G \in [(1..N) \X V -> V]
  BY <1>4, <1>5
<1>7. PICK h : Folds(h, N, V, 0, G)
  BY <1>3, <1>6, FoldExists
<1>8. h = [s \in SUBSET DOMAIN ss |->
             IF s = {} THEN 0 ELSE SumStep(h[s \ {Max(s)}], ss[Max(s)])]
  <2>1. ASSUME NEW s \in SUBSET (1..N), s # {}
        PROVE  h[s] = SumStep(h[s \ {Max(s)}], ss[Max(s)])
    <3>1. Max(s) \in 1..N /\ s \ {Max(s)} \in SUBSET (1..N)
      BY <2>1, GreatestIndex
    <3> QED BY <1>5, <1>7, <2>1, <3>1 DEF Folds
  <2> QED BY <1>1, <1>7, <2>1 DEF Folds
<1>9. PICK D : /\ D = CHOOSE g : g = [s \in SUBSET DOMAIN ss |->
                      IF s = {} THEN 0 ELSE SumStep(g[s \ {Max(s)}], ss[Max(s)])]
               /\ SizeOf(ss) = D[DOMAIN ss]
  BY DEF SizeOf, FoldLeft, MapThenFoldSet, SumStep
<1>10. D = [s \in SUBSET (1..N) |->
              IF s = {} THEN 0 ELSE SumStep(D[s \ {Max(s)}], ss[Max(s)])]
  BY <1>1, <1>8, <1>9, Zenon
<1>11. Steps(D, N, V, 0, G)
  <2>1. D[{}] = 0
    BY <1>10
  <2>2. ASSUME NEW n \in 1..N, D[1..(n - 1)] \in V
        PROVE  D[1..n] = G[<<n, D[1..(n - 1)]>>]
    <3>1. D[1..n] = SumStep(D[1..(n - 1)], ss[n])
      BY <1>10, PrefixMax
    <3> QED BY <1>5, <2>2, <3>1
  <2> QED BY <2>1, <2>2 DEF Steps
<1>12. Yields(D[1..N], N, V, 0, G)
  BY <1>3, <1>6, <1>11, FoldPrefixes
<1>13. SizeOf(ss) = D[1..N]
  BY <1>1, <1>9
<1>14. \A n \in 1..N : n - 1 \in 0..N
  OBVIOUS
<1> QED BY <1>1, <1>2, <1>5, <1>12, <1>13, <1>14 DEF Stages, Yields

(* ... the sentences of some parts, end to end, ...                         *)
FlatStep(all, c) == all \o c.ids
Flat(cs) == FoldLeft(LAMBDA all, c : all \o c.ids, <<>>, cs)

(* Flat adds the sentences part by part.                                    *)
LEMMA FlatIsFold ==
    ASSUME NEW C, \A c \in C : c.ids \in Seq(Id), NEW cs \in Seq(C)
    PROVE  \E P \in [0..Len(cs) -> Seq(Id)] :
             /\ P[0] = <<>>
             /\ \A n \in 1..Len(cs) : P[n] = FlatStep(P[n - 1], cs[n])
             /\ P[Len(cs)] = Flat(cs)
<1>1. PICK N \in Nat : N = Len(cs) /\ DOMAIN cs = 1..N
  OBVIOUS
<1>2. PICK V : V = Seq(Id)
  OBVIOUS
<1>3. <<>> \in V
  BY <1>2
<1>4. PICK G : G = [p \in (1..N) \X V |-> FlatStep(p[2], cs[p[1]])]
  OBVIOUS
<1>5. ASSUME NEW n \in 1..N, NEW all \in V
      PROVE  G[<<n, all>>] = FlatStep(all, cs[n]) /\ G[<<n, all>>] \in V
  <2>1. FlatStep(all, cs[n]) \in V
    BY <1>1, <1>2 DEF FlatStep
  <2> QED BY <1>4, <2>1
<1>6. G \in [(1..N) \X V -> V]
  BY <1>4, <1>5
<1>7. PICK h : Folds(h, N, V, <<>>, G)
  BY <1>3, <1>6, FoldExists
<1>8. h = [s \in SUBSET DOMAIN cs |->
             IF s = {} THEN <<>> ELSE FlatStep(h[s \ {Max(s)}], cs[Max(s)])]
  <2>1. ASSUME NEW s \in SUBSET (1..N), s # {}
        PROVE  h[s] = FlatStep(h[s \ {Max(s)}], cs[Max(s)])
    <3>1. Max(s) \in 1..N /\ s \ {Max(s)} \in SUBSET (1..N)
      BY <2>1, GreatestIndex
    <3> QED BY <1>5, <1>7, <2>1, <3>1 DEF Folds
  <2> QED BY <1>1, <1>7, <2>1 DEF Folds
<1>9. PICK D : /\ D = CHOOSE g : g = [s \in SUBSET DOMAIN cs |->
                      IF s = {} THEN <<>> ELSE FlatStep(g[s \ {Max(s)}], cs[Max(s)])]
               /\ Flat(cs) = D[DOMAIN cs]
  BY DEF Flat, FoldLeft, MapThenFoldSet, FlatStep
<1>10. D = [s \in SUBSET (1..N) |->
              IF s = {} THEN <<>> ELSE FlatStep(D[s \ {Max(s)}], cs[Max(s)])]
  BY <1>1, <1>8, <1>9, Zenon
<1>11. Steps(D, N, V, <<>>, G)
  <2>1. D[{}] = <<>>
    BY <1>10
  <2>2. ASSUME NEW n \in 1..N, D[1..(n - 1)] \in V
        PROVE  D[1..n] = G[<<n, D[1..(n - 1)]>>]
    <3>1. D[1..n] = FlatStep(D[1..(n - 1)], cs[n])
      BY <1>10, PrefixMax
    <3> QED BY <1>5, <2>2, <3>1
  <2> QED BY <2>1, <2>2 DEF Steps
<1>12. Yields(D[1..N], N, V, <<>>, G)
  BY <1>3, <1>6, <1>11, FoldPrefixes
<1>13. Flat(cs) = D[1..N]
  BY <1>1, <1>9
<1>14. \A n \in 1..N : n - 1 \in 0..N
  OBVIOUS
<1> QED BY <1>1, <1>2, <1>5, <1>12, <1>13, <1>14 DEF Stages, Yields

(* ... the parts of a paragraph that is too long, ...                       *)
Part == [ids : Seq(Id), length : Nat]
SplitStep(parts, s) ==
    LET current == parts[Len(parts)]
    IN  IF TooLong(current, s) THEN Append(parts, Add(Repeated(current), s))
        ELSE [parts EXCEPT ![Len(parts)] = Add(current, s)]

(* A step of the split gives parts again, at least one.                     *)
LEMMA SplitStepType ==
    ASSUME NEW parts \in Seq(Part), parts # <<>>, NEW s \in Sentence
    PROVE  SplitStep(parts, s) \in Seq(Part) /\ SplitStep(parts, s) # <<>>
<1>1. PICK n \in Nat \ {0} : n = Len(parts)
  OBVIOUS
<1>2. PICK current \in Part : current = parts[n]
  BY <1>1
<1>3. current.ids \in Seq(Id) /\ current.length \in Nat /\ s.id \in Id /\ s.length \in Nat \ {0}
  BY DEF Part, Sentence
<1>4. \A p \in Part : Add(p, s) \in Part
  BY <1>3 DEF Add, Part
<1>5. Repeated(current) \in Part
  <2>1. Overlap \in Nat
    BY SizesAssumption
  <2>2. PICK m \in {Overlap, current.length} : \A y \in {Overlap, current.length} : m <= y
    BY <1>3, <2>1, LeastNat
  <2>3. Min({Overlap, current.length}) \in {Overlap, current.length}
    BY <2>2 DEF Min
  <2>4. Min({Overlap, current.length}) \in Nat /\ <<>> \in Seq(Id)
    BY <1>3, <2>1, <2>3
  <2>5. Repeated(current) = [ids |-> <<>>, length |-> Min({Overlap, current.length})]
    BY DEF Repeated, NoPart
  <2> QED BY <2>4, <2>5 DEF Part
<1>6. PICK p \in Part, q \in Part : p = Add(Repeated(current), s) /\ q = Add(current, s)
  BY <1>4, <1>5
<1>7. /\ Append(parts, p) \in Seq(Part) /\ Append(parts, p) # <<>>
      /\ [parts EXCEPT ![n] = q] \in Seq(Part) /\ [parts EXCEPT ![n] = q] # <<>>
  BY <1>1
<1>8. SplitStep(parts, s) = IF TooLong(current, s) THEN Append(parts, p)
                                                   ELSE [parts EXCEPT ![n] = q]
  BY <1>1, <1>2, <1>6 DEF SplitStep
<1> QED BY <1>7, <1>8

(* SplitLongText takes the sentences one by one.                            *)
LEMMA SplitIsFold ==
    ASSUME NEW R \in SUBSET Sentence, NEW ss \in Seq(R)
    PROVE  \E P \in [0..Len(ss) -> (Seq(Part) \ {<<>>})] :
             /\ P[0] = <<NoPart>>
             /\ \A n \in 1..Len(ss) : P[n] = SplitStep(P[n - 1], ss[n])
             /\ P[Len(ss)] = SplitLongText(ss)
<1>1. PICK N \in Nat : N = Len(ss) /\ DOMAIN ss = 1..N
  OBVIOUS
<1>2. PICK V : V = (Seq(Part) \ {<<>>})
  OBVIOUS
<1>3. <<NoPart>> \in V
  BY <1>2 DEF NoPart, Part
<1>4. PICK G : G = [p \in (1..N) \X V |-> SplitStep(p[2], ss[p[1]])]
  OBVIOUS
<1>5. ASSUME NEW n \in 1..N, NEW all \in V
      PROVE  G[<<n, all>>] = SplitStep(all, ss[n]) /\ G[<<n, all>>] \in V
  <2>1. SplitStep(all, ss[n]) \in V
    <3>1. ss[n] \in Sentence /\ all \in Seq(Part) /\ all # <<>>
      BY <1>1, <1>2
    <3> QED BY <1>2, <3>1, SplitStepType
  <2> QED BY <1>4, <2>1
<1>6. G \in [(1..N) \X V -> V]
  BY <1>4, <1>5
<1>7. PICK h : Folds(h, N, V, <<NoPart>>, G)
  BY <1>3, <1>6, FoldExists
<1>8. h = [s \in SUBSET DOMAIN ss |->
             IF s = {} THEN <<NoPart>> ELSE SplitStep(h[s \ {Max(s)}], ss[Max(s)])]
  <2>1. ASSUME NEW s \in SUBSET (1..N), s # {}
        PROVE  h[s] = SplitStep(h[s \ {Max(s)}], ss[Max(s)])
    <3>1. Max(s) \in 1..N /\ s \ {Max(s)} \in SUBSET (1..N)
      BY <2>1, GreatestIndex
    <3> QED BY <1>5, <1>7, <2>1, <3>1 DEF Folds
  <2> QED BY <1>1, <1>7, <2>1 DEF Folds
<1>9. PICK D : /\ D = CHOOSE g : g = [s \in SUBSET DOMAIN ss |->
                      IF s = {} THEN <<NoPart>> ELSE SplitStep(g[s \ {Max(s)}], ss[Max(s)])]
               /\ SplitLongText(ss) = D[DOMAIN ss]
  BY DEF SplitLongText, FoldLeft, MapThenFoldSet, SplitStep
<1>10. D = [s \in SUBSET (1..N) |->
              IF s = {} THEN <<NoPart>> ELSE SplitStep(D[s \ {Max(s)}], ss[Max(s)])]
  BY <1>1, <1>8, <1>9, Zenon
<1>11. Steps(D, N, V, <<NoPart>>, G)
  <2>1. D[{}] = <<NoPart>>
    BY <1>10
  <2>2. ASSUME NEW n \in 1..N, D[1..(n - 1)] \in V
        PROVE  D[1..n] = G[<<n, D[1..(n - 1)]>>]
    <3>1. D[1..n] = SplitStep(D[1..(n - 1)], ss[n])
      BY <1>10, PrefixMax
    <3> QED BY <1>5, <2>2, <3>1
  <2> QED BY <2>1, <2>2 DEF Steps
<1>12. Yields(D[1..N], N, V, <<NoPart>>, G)
  BY <1>3, <1>6, <1>11, FoldPrefixes
<1>13. SplitLongText(ss) = D[1..N]
  BY <1>1, <1>9
<1>14. \A n \in 1..N : n - 1 \in 0..N
  OBVIOUS
<1> QED BY <1>1, <1>2, <1>5, <1>12, <1>13, <1>14 DEF Stages, Yields

-----------------------------------------------------------------------------
(* Sequences of identifiers.                                               *)

IdsOf(ss) == [i \in DOMAIN ss |-> ss[i].id]

(* There are as many identifiers as sentences.                              *)
LEMMA IdsOfType ==
    ASSUME NEW ss \in Seq(Sentence)
    PROVE  IdsOf(ss) \in Seq(Id) /\ Len(IdsOf(ss)) = Len(ss)
<1>1. PICK N \in Nat : N = Len(ss) /\ DOMAIN ss = 1..N
  OBVIOUS
<1>2. ASSUME NEW i \in 1..N PROVE ss[i].id \in Id
  <2>1. ss[i] \in Sentence
    BY <1>1, ElementOfSeq
  <2> QED BY <2>1 DEF Sentence
<1>3. IdsOf(ss) = [i \in 1..N |-> ss[i].id]
  BY <1>1 DEF IdsOf
<1>4. [i \in 1..N |-> ss[i].id] \in [1..N -> Id]
  BY <1>2
<1> QED BY <1>1, <1>3, <1>4

(* They follow one another as the sentences do, ...                         *)
LEMMA IdsOfConcat ==
    ASSUME NEW ss \in Seq(Sentence), NEW tt \in Seq(Sentence)
    PROVE  IdsOf(ss \o tt) = IdsOf(ss) \o IdsOf(tt)
<1>1. PICK u : u = ss \o tt
  OBVIOUS
<1>u. u \in Seq(Sentence) /\ Len(u) = Len(ss) + Len(tt)
  BY <1>1, ConcatProperties
<1>n. Len(ss) \in Nat /\ Len(tt) \in Nat
  BY LenProperties
<1>2. PICK a \in Seq(Id), b \in Seq(Id), c \in Seq(Id) :
        a = IdsOf(ss) /\ b = IdsOf(tt) /\ c = IdsOf(u)
  BY <1>u, IdsOfType
<1>3. Len(a) = Len(ss) /\ Len(b) = Len(tt) /\ Len(c) = Len(u)
  BY <1>u, <1>2, IdsOfType
<1>4. ASSUME NEW i \in 1..Len(u) PROVE c[i] = (a \o b)[i]
  <2>1. c[i] = u[i].id
    BY <1>u, <1>2, LenProperties DEF IdsOf
  <2>2. CASE i <= Len(ss)
    <3>1. i \in 1..Len(ss)
      BY <1>n, <2>2
    <3>2. u[i] = ss[i] /\ (a \o b)[i] = a[i]
      BY <1>1, <1>u, <1>n, <1>3, <3>1, ConcatProperties
    <3>3. a[i] = ss[i].id
      BY <1>2, <3>1, LenProperties DEF IdsOf
    <3> QED BY <2>1, <3>2, <3>3
  <2>3. CASE i > Len(ss)
    <3>1. i - Len(ss) \in 1..Len(tt)
      BY <1>u, <1>n, <2>3
    <3>2. u[i] = tt[i - Len(ss)] /\ (a \o b)[i] = b[i - Len(ss)]
      BY <1>1, <1>u, <1>n, <1>3, <2>3, ConcatProperties
    <3>3. b[i - Len(ss)] = tt[i - Len(ss)].id
      BY <1>2, <3>1, LenProperties DEF IdsOf
    <3> QED BY <2>1, <3>2, <3>3
  <2>4. i <= Len(ss) \/ i > Len(ss)
    BY <1>n
  <2> QED BY <2>2, <2>3, <2>4
<1>5. Len(a \o b) = Len(c) /\ a \o b \in Seq(Id)
  <2>1. a \o b \in Seq(Id) /\ Len(a \o b) = Len(a) + Len(b)
    BY ConcatProperties
  <2> QED BY <1>u, <1>3, <2>1
<1>6. c = a \o b
  BY <1>u, <1>3, <1>4, <1>5, SeqEqual
<1> QED BY <1>1, <1>2, <1>6

(* ... to the last.                                                         *)
LEMMA IdsOfAppend ==
    ASSUME NEW ss \in Seq(Sentence), NEW s \in Sentence
    PROVE  IdsOf(Append(ss, s)) = Append(IdsOf(ss), s.id)
<1>1. <<s>> \in Seq(Sentence) /\ s.id \in Id
  BY DEF Sentence
<1>2. IdsOf(<<s>>) = <<s.id>>
  BY DEF IdsOf
<1>3. Append(ss, s) = ss \o <<s>>
  BY AppendIsConcat
<1>4. IdsOf(ss) \in Seq(Id)
  BY IdsOfType
<1>5. Append(IdsOf(ss), s.id) = IdsOf(ss) \o <<s.id>>
  BY <1>1, <1>4, AppendIsConcat
<1>6. IdsOf(ss \o <<s>>) = IdsOf(ss) \o IdsOf(<<s>>)
  BY <1>1, IdsOfConcat
<1> QED BY <1>2, <1>3, <1>5, <1>6

(* Parts end to end.                                                        *)
LEMMA FlatEmpty == Flat(<<>>) = <<>>
<1>1. PICK C : C = [ids : Seq(Id)]
  OBVIOUS
<1>2. \A c \in C : c.ids \in Seq(Id)
  BY <1>1
<1>3. <<>> \in Seq(C) /\ Len(<<>>) = 0
  OBVIOUS
<1> QED BY <1>2, <1>3, FlatIsFold

(* Parts with the same sentences come to the same, and one more adds its    *)
(* own.                                                                     *)
LEMMA FlatSame ==
    ASSUME NEW C, \A c \in C : c.ids \in Seq(Id), NEW cs \in Seq(C), NEW ds \in Seq(C),
           Len(cs) <= Len(ds), \A i \in 1..Len(cs) : cs[i].ids = ds[i].ids
    PROVE  /\ Len(cs) = Len(ds) => Flat(cs) = Flat(ds)
           /\ Len(ds) = Len(cs) + 1 => Flat(ds) = Flat(cs) \o ds[Len(ds)].ids
<1>1. PICK P \in [0..Len(cs) -> Seq(Id)] :
        /\ P[0] = <<>>
        /\ \A n \in 1..Len(cs) : P[n] = FlatStep(P[n - 1], cs[n])
        /\ P[Len(cs)] = Flat(cs)
  BY FlatIsFold
<1>2. PICK Q \in [0..Len(ds) -> Seq(Id)] :
        /\ Q[0] = <<>>
        /\ \A n \in 1..Len(ds) : Q[n] = FlatStep(Q[n - 1], ds[n])
        /\ Q[Len(ds)] = Flat(ds)
  BY FlatIsFold
<1>3. PICK N \in Nat, M \in Nat : N = Len(cs) /\ M = Len(ds) /\ N <= M
  OBVIOUS
<1> DEFINE T == {n \in 0..N : P[n] = Q[n]}
<1>4. 0 \in T
  BY <1>1, <1>2
<1>5. ASSUME NEW n \in 0..(N - 1), n \in T PROVE n + 1 \in T
  <2>1. n + 1 \in 1..N /\ n + 1 \in 1..M /\ (n + 1) - 1 = n
    BY <1>3
  <2>2. P[n + 1] = FlatStep(P[n], cs[n + 1]) /\ Q[n + 1] = FlatStep(Q[n], ds[n + 1])
    BY <1>1, <1>2, <1>3, <2>1
  <2>3. P[n] = Q[n] /\ cs[n + 1].ids = ds[n + 1].ids
    BY <1>3, <1>5, <2>1
  <2>4. P[n + 1] = Q[n + 1]
    BY <2>2, <2>3 DEF FlatStep
  <2> QED BY <2>1, <2>4
<1>6. \A n \in 0..N : n \in T
  <2> HIDE DEF T
  <2> QED BY <1>4, <1>5, UpTo
<1>7. P[N] = Q[N]
  BY <1>6
<1>8. ASSUME M = N + 1 PROVE Flat(ds) = Flat(cs) \o ds[M].ids
  <2>1. M \in 1..M /\ M - 1 = N
    BY <1>8
  <2> QED BY <1>1, <1>2, <1>3, <1>7, <2>1 DEF FlatStep
<1> QED BY <1>1, <1>2, <1>3, <1>7, <1>8

(* A part at the end adds its sentences at the end.                         *)
LEMMA FlatAppend ==
    ASSUME NEW C, \A c \in C : c.ids \in Seq(Id), NEW cs \in Seq(C), NEW d \in C
    PROVE  Flat(Append(cs, d)) = Flat(cs) \o d.ids
<1>1. PICK ds : ds = Append(cs, d)
  OBVIOUS
<1>2. /\ ds \in Seq(C) /\ Len(ds) = Len(cs) + 1 /\ Len(cs) \in Nat
      /\ ds[Len(cs) + 1] = d /\ \A i \in 1..Len(cs) : cs[i].ids = ds[i].ids
  BY <1>1, AppendProperties, LenProperties
<1>3. Len(cs) <= Len(ds) /\ ds[Len(ds)] = d
  BY <1>2
<1> QED BY <1>1, <1>2, <1>3, FlatSame

(* Parts end to end are identifiers.                                        *)
LEMMA FlatType ==
    ASSUME NEW C, \A c \in C : c.ids \in Seq(Id), NEW cs \in Seq(C)
    PROVE  Flat(cs) \in Seq(Id)
<1>1. PICK P \in [0..Len(cs) -> Seq(Id)] : P[Len(cs)] = Flat(cs)
  BY FlatIsFold
<1>2. Len(cs) \in 0..Len(cs)
  OBVIOUS
<1> QED BY <1>1, <1>2

(* Parts after parts come to what each of them come to.                     *)
LEMMA FlatConcat ==
    ASSUME NEW C, \A c \in C : c.ids \in Seq(Id), NEW cs \in Seq(C), NEW ds \in Seq(C)
    PROVE  Flat(cs \o ds) = Flat(cs) \o Flat(ds)
<1>1. PICK N \in Nat : N = Len(ds)
  OBVIOUS
<1>2. PICK S : S = [n \in 0..N |-> SubSeq(ds, 1, n)]
  OBVIOUS
<1>3. ASSUME NEW n \in 0..N PROVE S[n] \in Seq(C)
  <2>1. \A i \in 1..n : ds[i] \in C
    BY <1>1, ElementOfSeq
  <2>2. SubSeq(ds, 1, n) \in Seq(C)
    BY <2>1, SubSeqProperties
  <2> QED BY <1>2, <2>2
<1>4. ASSUME NEW n \in 0..(N - 1) PROVE S[n + 1] = Append(S[n], ds[n + 1])
  <2>1. /\ 1 \in 1..Len(ds) /\ n + 1 \in 1..Len(ds) /\ (n + 1) - 1 = n
        /\ n \in 0..N /\ n + 1 \in 0..N
    BY <1>1
  <2>2. SubSeq(ds, 1, n + 1) = SubSeq(ds, 1, n) \o <<ds[n + 1]>>
    BY <2>1, SubSeqRecursiveSecond
  <2>3. S[n] \in Seq(C) /\ ds[n + 1] \in C
    BY <1>3, <2>1, ElementOfSeq
  <2>4. Append(S[n], ds[n + 1]) = S[n] \o <<ds[n + 1]>>
    BY <2>3, AppendIsConcat
  <2> QED BY <1>2, <2>1, <2>2, <2>4
<1>5. S[0] = <<>> /\ S[N] = ds
  <2>1. SubSeq(ds, 1, 0) = <<>> /\ SubSeq(ds, 1, N) = ds
    BY <1>1, SubSeqEmpty, SubSeqFull
  <2> QED BY <1>2, <2>1
<1> DEFINE T == {n \in 0..N : Flat(cs \o S[n]) = Flat(cs) \o Flat(S[n])}
<1>6. 0 \in T
  <2>1. cs \o <<>> = cs
    BY ConcatEmptySeq
  <2>2. Flat(cs) \in Seq(Id)
    BY FlatType
  <2>3. Flat(cs) \o <<>> = Flat(cs)
    BY <2>2, ConcatEmptySeq
  <2>4. Flat(cs \o S[0]) = Flat(cs) \o Flat(S[0])
    BY <1>5, <2>1, <2>3, FlatEmpty
  <2> QED BY <2>4
<1>7. ASSUME NEW n \in 0..(N - 1), n \in T PROVE n + 1 \in T
  <2>1. n \in 0..N /\ n + 1 \in 0..N /\ n + 1 \in 1..Len(ds)
    BY <1>1
  <2>2. PICK d \in C : d = ds[n + 1]
    BY <2>1
  <2>3. PICK u, v : u = S[n] /\ v = cs \o u
    OBVIOUS
  <2>t. u \in Seq(C) /\ v \in Seq(C)
    BY <1>3, <2>1, <2>3, ConcatProperties
  <2>4. cs \o Append(u, d) = Append(v, d)
    <3>1. <<d>> \in Seq(C)
      BY <2>2
    <3>2. (cs \o u) \o <<d>> = cs \o (u \o <<d>>)
      BY <2>t, <3>1, ConcatAssociative
    <3>3. Append(u, d) = u \o <<d>> /\ Append(v, d) = v \o <<d>>
      BY <2>2, <2>t, AppendIsConcat
    <3> QED BY <2>3, <3>2, <3>3
  <2>5. Flat(Append(v, d)) = Flat(v) \o d.ids /\ Flat(Append(u, d)) = Flat(u) \o d.ids
    BY <2>2, <2>t, FlatAppend
  <2>6. PICK x \in Seq(Id), y \in Seq(Id), z \in Seq(Id) :
          x = Flat(cs) /\ y = Flat(u) /\ z = d.ids
    BY <2>2, <2>t, FlatType
  <2>7. Flat(v) = x \o y
    BY <1>7, <2>3, <2>6
  <2>8. (x \o y) \o z = x \o (y \o z)
    BY ConcatAssociative
  <2>9. S[n + 1] = Append(u, d)
    BY <1>4, <2>2, <2>3
  <2>10. Flat(cs \o S[n + 1]) = Flat(cs) \o Flat(S[n + 1])
    BY <2>4, <2>5, <2>6, <2>7, <2>8, <2>9
  <2> QED BY <2>1, <2>10
<1>8. \A n \in 0..N : n \in T
  <2> HIDE DEF T
  <2> QED BY <1>6, <1>7, UpTo
<1>9. N \in T
  BY <1>8
<1> QED BY <1>5, <1>9

-----------------------------------------------------------------------------
(* The sentences of the text.                                              *)

Real == {s \in Sentence : /\ s.id[1] \in DOMAIN text
                          /\ text[s.id[1]].kind = "text"
                          /\ s.id[2] \in DOMAIN text[s.id[1]].lengths
                          /\ s.length = text[s.id[1]].lengths[s.id[2]]}

(* A text is a sequence of lines.                                           *)
LEMMA TextIsLines ==
    ASSUME text \in Texts
    PROVE  /\ text \in Seq(Lines) /\ Len(text) \in Nat /\ DOMAIN text = 1..Len(text)
           /\ \A n \in DOMAIN text : text[n] \in Lines
<1>1. text \in Seq(Lines)
  BY TextsAssumption
<1> QED BY <1>1, LenProperties, ElementOfSeq

(* A line of text has a sentence, and none is empty.                        *)
LEMMA TextLinesHaveSentences ==
    ASSUME text \in Texts, NEW n \in DOMAIN text, text[n].kind = "text"
    PROVE  text[n].lengths \in Seq(Nat \ {0}) /\ text[n].lengths # <<>>
<1>1. text[n] \in Lines
  BY TextIsLines
<1> QED BY <1>1 DEF Lines

(* A heading has a level.                                                   *)
LEMMA HeadingsHaveLevels ==
    ASSUME text \in Texts, NEW n \in DOMAIN text, text[n].kind = "heading"
    PROVE  text[n].level \in Nat \ {0}
<1>1. text[n] \in Lines
  BY TextIsLines
<1> QED BY <1>1 DEF Lines

(* The sentences of a line are of the text, under their places in it.       *)
LEMMA SentencesAreReal ==
    ASSUME text \in Texts, NEW n \in DOMAIN text, text[n].kind = "text"
    PROVE  /\ Sentences(n) \in Seq(Real) /\ Sentences(n) # <<>>
           /\ \A i \in DOMAIN Sentences(n) : Sentences(n)[i].id = <<n, i>>
<1>1. PICK ls \in Seq(Nat \ {0}) : ls = text[n].lengths /\ ls # <<>>
  BY TextLinesHaveSentences
<1>2. PICK N \in Nat \ {0} : N = Len(ls) /\ DOMAIN ls = 1..N
  BY <1>1, EmptySeq, LenProperties
<1>3. n \in Nat
  BY TextIsLines
<1>4. ASSUME NEW i \in 1..N PROVE [id |-> <<n, i>>, length |-> ls[i]] \in Real
  <2>1. PICK s : s = [id |-> <<n, i>>, length |-> ls[i]]
    OBVIOUS
  <2>2. s.id = <<n, i>> /\ s.id[1] = n /\ s.id[2] = i /\ s.length = ls[i]
    BY <2>1
  <2>3. ls[i] \in Nat \ {0}
    BY <1>2, ElementOfSeq
  <2>4. s \in Sentence
    BY <1>3, <2>1, <2>3 DEF Sentence, Id
  <2>5. i \in DOMAIN ls
    BY <1>2
  <2> QED BY <1>1, <2>1, <2>2, <2>4, <2>5 DEF Real
<1>5. Sentences(n) = [i \in 1..N |-> [id |-> <<n, i>>, length |-> ls[i]]]
  BY <1>1, <1>2 DEF Sentences
<1>6. Sentences(n) \in [1..N -> Real]
  BY <1>4, <1>5
<1>7. Sentences(n) \in Seq(Real)
  BY <1>6
<1>8. 1 \in DOMAIN Sentences(n)
  BY <1>2, <1>5
<1>9. Sentences(n) # <<>>
  BY <1>8
<1>10. \A i \in DOMAIN Sentences(n) : Sentences(n)[i].id = <<n, i>>
  BY <1>5
<1> QED BY <1>7, <1>9, <1>10

(* Sentences of the text are sentences.                                     *)
LEMMA RealSequences ==
    ASSUME NEW ss \in Seq(Real)
    PROVE  ss \in Seq(Sentence)
BY SeqMonotonic DEF Real

AllStep(all, n) == all \o (IF text[n].kind = "text" THEN Sentences(n) ELSE <<>>)
AllOf(ns) == FoldLeft(LAMBDA all, n : all \o (IF text[n].kind = "text" THEN Sentences(n)
                                                                    ELSE <<>>), <<>>, ns)

(* AllSentences takes the lines one by one.                                 *)
LEMMA AllIsFold ==
    ASSUME text \in Texts, NEW ns \in Seq(DOMAIN text)
    PROVE  \E P \in [0..Len(ns) -> Seq(Real)] :
             /\ P[0] = <<>>
             /\ \A n \in 1..Len(ns) : P[n] = AllStep(P[n - 1], ns[n])
             /\ P[Len(ns)] = AllOf(ns)
<1>1. PICK N \in Nat : N = Len(ns) /\ DOMAIN ns = 1..N
  OBVIOUS
<1>2. PICK V : V = Seq(Real)
  OBVIOUS
<1>3. <<>> \in V
  BY <1>2
<1>4. PICK G : G = [p \in (1..N) \X V |-> AllStep(p[2], ns[p[1]])]
  OBVIOUS
<1>5. ASSUME NEW n \in 1..N, NEW all \in V
      PROVE  G[<<n, all>>] = AllStep(all, ns[n]) /\ G[<<n, all>>] \in V
  <2>1. AllStep(all, ns[n]) \in V
    <3>1. PICK i \in DOMAIN text : i = ns[n]
      BY <1>1, ElementOfSeq
    <3>2. PICK more : more = IF text[i].kind = "text" THEN Sentences(i) ELSE <<>>
      OBVIOUS
    <3>3. more \in Seq(Real)
      BY <3>2, SentencesAreReal
    <3>4. all \o more \in Seq(Real)
      BY <1>2, <3>3, ConcatProperties
    <3> QED BY <1>2, <3>1, <3>2, <3>4 DEF AllStep
  <2> QED BY <1>4, <2>1
<1>6. G \in [(1..N) \X V -> V]
  BY <1>4, <1>5
<1>7. PICK h : Folds(h, N, V, <<>>, G)
  BY <1>3, <1>6, FoldExists
<1>8. h = [s \in SUBSET DOMAIN ns |->
             IF s = {} THEN <<>> ELSE AllStep(h[s \ {Max(s)}], ns[Max(s)])]
  <2>1. ASSUME NEW s \in SUBSET (1..N), s # {}
        PROVE  h[s] = AllStep(h[s \ {Max(s)}], ns[Max(s)])
    <3>1. Max(s) \in 1..N /\ s \ {Max(s)} \in SUBSET (1..N)
      BY <2>1, GreatestIndex
    <3> QED BY <1>5, <1>7, <2>1, <3>1 DEF Folds
  <2> QED BY <1>1, <1>7, <2>1 DEF Folds
<1>9. PICK D : /\ D = CHOOSE g : g = [s \in SUBSET DOMAIN ns |->
                      IF s = {} THEN <<>> ELSE AllStep(g[s \ {Max(s)}], ns[Max(s)])]
               /\ AllOf(ns) = D[DOMAIN ns]
  BY DEF AllOf, FoldLeft, MapThenFoldSet, AllStep
<1>10. D = [s \in SUBSET (1..N) |->
              IF s = {} THEN <<>> ELSE AllStep(D[s \ {Max(s)}], ns[Max(s)])]
  BY <1>1, <1>8, <1>9, Zenon
<1>11. Steps(D, N, V, <<>>, G)
  <2>1. D[{}] = <<>>
    BY <1>10
  <2>2. ASSUME NEW n \in 1..N, D[1..(n - 1)] \in V
        PROVE  D[1..n] = G[<<n, D[1..(n - 1)]>>]
    <3>1. D[1..n] = AllStep(D[1..(n - 1)], ns[n])
      BY <1>10, PrefixMax
    <3> QED BY <1>5, <2>2, <3>1
  <2> QED BY <2>1, <2>2 DEF Steps
<1>12. Yields(D[1..N], N, V, <<>>, G)
  BY <1>3, <1>6, <1>11, FoldPrefixes
<1>13. AllOf(ns) = D[1..N]
  BY <1>1, <1>9
<1>14. \A n \in 1..N : n - 1 \in 0..N
  OBVIOUS
<1> QED BY <1>1, <1>2, <1>5, <1>12, <1>13, <1>14 DEF Stages, Yields

(* What the first n lines come to.                                          *)
Readings(A) ==
    /\ A \in [0..Len(text) -> Seq(Real)]
    /\ A[0] = <<>>
    /\ \A n \in 1..Len(text) : A[n] = AllStep(A[n - 1], n)
    /\ A[Len(text)] = AllSentences

(* There are such readings.                                                 *)
LEMMA ReadingsExist ==
    ASSUME text \in Texts
    PROVE  \E A : Readings(A)
<1>1. PICK N \in Nat : N = Len(text) /\ DOMAIN text = 1..N
  BY TextIsLines
<1>2. PICK ns : ns = [n \in 1..N |-> n]
  OBVIOUS
<1>3. ns \in Seq(DOMAIN text) /\ Len(ns) = N /\ \A n \in 1..N : ns[n] = n
  <2>1. ns \in [1..N -> 1..N]
    BY <1>2
  <2> QED BY <1>1, <1>2, <2>1
<1>4. PICK P \in [0..N -> Seq(Real)] :
        /\ P[0] = <<>>
        /\ \A n \in 1..N : P[n] = AllStep(P[n - 1], ns[n])
        /\ P[N] = AllOf(ns)
  BY <1>3, AllIsFold
<1>5. AllOf(ns) = AllSentences
  BY <1>1, <1>2 DEF AllOf, AllSentences
<1> QED BY <1>1, <1>3, <1>4, <1>5 DEF Readings

Within(ss, s) == \E k \in DOMAIN ss : ss[k] = s

(* What is within a sequence is within a longer one.                        *)
LEMMA WithinConcat ==
    ASSUME NEW S, NEW a \in Seq(S), NEW b \in Seq(S), NEW s, Within(a, s) \/ Within(b, s)
    PROVE  Within(a \o b, s)
<1>1. /\ Len(a) \in Nat /\ Len(b) \in Nat /\ DOMAIN a = 1..Len(a) /\ DOMAIN b = 1..Len(b)
  BY LenProperties
<1>2. PICK c : c = a \o b
  OBVIOUS
<1>3. /\ c \in Seq(S) /\ Len(c) = Len(a) + Len(b)
      /\ \A i \in 1 .. Len(a) + Len(b) : c[i] = IF i <= Len(a) THEN a[i] ELSE b[i - Len(a)]
  BY <1>2, ConcatProperties
<1>4. DOMAIN c = 1..(Len(a) + Len(b))
  BY <1>3, LenProperties
<1>5. ASSUME NEW k \in DOMAIN a, a[k] = s PROVE Within(c, s)
  <2>1. k \in DOMAIN c /\ c[k] = s
    BY <1>1, <1>3, <1>4, <1>5
  <2> QED BY <2>1 DEF Within
<1>6. ASSUME NEW k \in DOMAIN b, b[k] = s PROVE Within(c, s)
  <2>1. Len(a) + k \in 1..(Len(a) + Len(b)) /\ ~(Len(a) + k <= Len(a)) /\ (Len(a) + k) - Len(a) = k
    BY <1>1
  <2>2. c[Len(a) + k] = b[(Len(a) + k) - Len(a)]
    BY <1>3, <2>1
  <2>3. c[Len(a) + k] = s
    BY <1>6, <2>1, <2>2
  <2> QED BY <1>4, <2>1, <2>3 DEF Within
<1> QED BY <1>2, <1>5, <1>6 DEF Within

(* No sentence is missing from all of them.                                 *)
LEMMA AllAreThere ==
    ASSUME text \in Texts, NEW s \in Real
    PROVE  Within(AllSentences, s)
<1>1. PICK A : Readings(A)
  BY ReadingsExist
<1>2. PICK N \in Nat : N = Len(text) /\ DOMAIN text = 1..N
  BY TextIsLines
<1>3. PICK line, i : line \in 1..N /\ line = s.id[1] /\ i = s.id[2]
  BY <1>2 DEF Real
<1>4. /\ text[line].kind = "text" /\ i \in DOMAIN text[line].lengths
      /\ s = [id |-> <<line, i>>, length |-> text[line].lengths[i]]
  BY <1>3 DEF Real, Sentence, Id
<1>5. Within(Sentences(line), s)
  <2>1. i \in DOMAIN Sentences(line) /\ Sentences(line)[i] = s
    BY <1>4 DEF Sentences
  <2> QED BY <2>1 DEF Within
<1>6. /\ A \in [0..N -> Seq(Real)]
      /\ \A n \in 1..N : A[n] = AllStep(A[n - 1], n)
      /\ A[N] = AllSentences
  BY <1>1, <1>2 DEF Readings
<1>7. ASSUME NEW n \in 1..N
      PROVE  (IF text[n].kind = "text" THEN Sentences(n) ELSE <<>>) \in Seq(Real)
  BY <1>2, SentencesAreReal
<1>8. ASSUME NEW n \in 1..N, Within(A[n - 1], s) \/ n = line PROVE Within(A[n], s)
  <2>1. PICK more : more = IF text[n].kind = "text" THEN Sentences(n) ELSE <<>>
    OBVIOUS
  <2>2. A[n - 1] \in Seq(Real) /\ more \in Seq(Real) /\ A[n] = A[n - 1] \o more
    <3>1. n - 1 \in 0..N
      OBVIOUS
    <3> QED BY <1>6, <1>7, <2>1, <3>1 DEF AllStep
  <2>3. n = line => Within(more, s)
    BY <1>4, <1>5, <2>1
  <2> QED BY <1>8, <2>2, <2>3, WithinConcat
<1> DEFINE T == {n \in 0..N : line <= n => Within(A[n], s)}
<1>9. 0 \in T
  BY <1>3
<1>10. ASSUME NEW n \in 0..(N - 1), n \in T PROVE n + 1 \in T
  <2>1. n + 1 \in 1..N /\ (n + 1) - 1 = n /\ n + 1 \in 0..N
    BY <1>2
  <2>2. line <= n + 1 => line <= n \/ n + 1 = line
    BY <1>2, <1>3
  <2>3. line <= n + 1 => Within(A[n], s) \/ n + 1 = line
    BY <1>10, <2>2
  <2>4. line <= n + 1 => Within(A[n + 1], s)
    BY <1>8, <2>1, <2>3
  <2> QED BY <2>1, <2>4
<1>11. \A n \in 0..N : n \in T
  <2> HIDE DEF T
  <2> QED BY <1>9, <1>10, UpTo
<1>12. Within(A[N], s)
  <2>1. N \in T /\ line <= N
    BY <1>3, <1>11
  <2> QED BY <2>1
<1> QED BY <1>6, <1>12
-----------------------------------------------------------------------------
(* Splitting.  What a part or a chunk made of the sentences of R is like.   *)
Cut(p, R) ==
    /\ p.ids \in Seq(Id) /\ p.ids # <<>> /\ p.length \in Nat \ {0}
    /\ \A i \in DOMAIN p.ids : \E s \in R : s.id = p.ids[i]
    /\ \/ p.length <= Overlap + MaxChars
       \/ \E s \in R : s.id \in Listed(p.ids) /\ p.length <= Overlap + s.length

Cuts(ps, R) == \A i \in 1..Len(ps) : Cut(ps[i], R)

(* All parts but the last are cut; the last is, or is still empty.          *)
BeingCut(ps, R) ==
    /\ \A i \in 1..(Len(ps) - 1) : Cut(ps[i], R)
    /\ Cut(ps[Len(ps)], R) \/ ps[Len(ps)] = NoPart

(* A sentence added to a part that is short enough, or at most the overlap, *)
(* keeps it within its bound.                                               *)
LEMMA AddedIsCut ==
    ASSUME NEW R \in SUBSET Sentence, NEW p \in Part, NEW s \in R,
           \A i \in DOMAIN p.ids : \E r \in R : r.id = p.ids[i],
           \/ p.length <= Overlap
           \/ p.length + s.length <= MaxChars
    PROVE  Add(p, s) \in Part /\ Cut(Add(p, s), R)
<1>1. /\ s.id \in Id /\ s.length \in Nat \ {0} /\ p.ids \in Seq(Id) /\ p.length \in Nat
      /\ Overlap \in Nat /\ MaxChars \in Nat
  BY SizesAssumption DEF Sentence, Part
<1>2. PICK q, ids, n : q = Add(p, s) /\ ids = Append(p.ids, s.id) /\ n = p.length + s.length
  OBVIOUS
<1>3. PICK L \in Nat : L = Len(p.ids)
  BY <1>1
<1>4. /\ ids \in Seq(Id) /\ ids # <<>> /\ Len(ids) = L + 1
      /\ \A i \in 1..L : ids[i] = p.ids[i]
      /\ ids[L + 1] = s.id
  BY <1>1, <1>2, <1>3, AppendProperties
<1>5. DOMAIN p.ids = 1..L /\ DOMAIN ids = 1..(L + 1)
  BY <1>1, <1>3, <1>4, LenProperties
<1>6. n \in Nat \ {0} /\ q.ids = ids /\ q.length = n /\ q \in Part
  BY <1>1, <1>2, <1>4 DEF Add, Part
<1>7. ASSUME NEW i \in 1..(L + 1) PROVE \E r \in R : r.id = ids[i]
  <2>1. CASE i = L + 1
    BY <1>4, <2>1
  <2>2. CASE i # L + 1
    <3>1. i \in 1..L
      BY <2>2
    <3> QED BY <1>4, <1>5, <3>1
  <2> QED BY <2>1, <2>2
<1>8. s.id \in Listed(ids)
  <2>1. L + 1 \in 1..(L + 1)
    OBVIOUS
  <2> QED BY <1>4, <1>5, <2>1 DEF Listed
<1>9. n <= Overlap + MaxChars \/ n <= Overlap + s.length
  BY <1>1, <1>2
<1>10. \/ n <= Overlap + MaxChars
       \/ \E r \in R : r.id \in Listed(ids) /\ n <= Overlap + r.length
  BY <1>8, <1>9
<1>11. Cut(q, R)
  BY <1>4, <1>5, <1>6, <1>7, <1>10 DEF Cut
<1> QED BY <1>2, <1>6, <1>11

(* A step of the split adds its sentence, and leaves every part cut.        *)
LEMMA SplitStepCuts ==
    ASSUME NEW R \in SUBSET Sentence, NEW ps \in Seq(Part), ps # <<>>, BeingCut(ps, R),
           NEW s \in R
    PROVE  /\ Cuts(SplitStep(ps, s), R)
           /\ Flat(SplitStep(ps, s)) = Append(Flat(ps), s.id)
<1>1. PICK N \in Nat \ {0} : N = Len(ps) /\ DOMAIN ps = 1..N
  BY EmptySeq, LenProperties
<1>2. PICK current \in Part : current = ps[N]
  BY <1>1
<1>3. s \in Sentence /\ s.id \in Id /\ s.length \in Nat \ {0}
  BY DEF Sentence
<1>4. /\ current.ids \in Seq(Id) /\ current.length \in Nat
      /\ Overlap \in Nat /\ MaxChars \in Nat
  BY SizesAssumption DEF Part
<1>5. \A c \in Part : c.ids \in Seq(Id)
  BY DEF Part
<1>6. Cut(current, R) \/ current = NoPart
  BY <1>1, <1>2 DEF BeingCut
<1>7. \A i \in DOMAIN current.ids : \E r \in R : r.id = current.ids[i]
  <2>1. CASE current = NoPart
    BY <2>1 DEF NoPart
  <2>2. CASE Cut(current, R)
    BY <2>2 DEF Cut
  <2> QED BY <1>6, <2>1, <2>2
<1>8. CASE TooLong(current, s)
  <2>1. current.length > 0 /\ current # NoPart
    BY <1>8 DEF TooLong, NoPart
  <2>2. \A i \in 1..N : Cut(ps[i], R)
    <3>1. ASSUME NEW i \in 1..N, i # N PROVE i \in 1..(N - 1)
      BY <3>1
    <3> QED BY <1>1, <1>2, <1>6, <2>1, <3>1 DEF BeingCut
  <2>3. PICK p : p = Repeated(current)
    OBVIOUS
  <2>4. p \in Part /\ p.ids = <<>> /\ p.length <= Overlap
    <3>1. PICK m \in {Overlap, current.length} : \A y \in {Overlap, current.length} : m <= y
      BY <1>4, LeastNat
    <3>2. \E x \in {Overlap, current.length} : \A y \in {Overlap, current.length} : x <= y
      BY <3>1
    <3>3. PICK low : low = Min({Overlap, current.length})
      OBVIOUS
    <3>4. /\ low \in {Overlap, current.length}
          /\ \A y \in {Overlap, current.length} : low <= y
      BY <3>2, <3>3 DEF Min
    <3>5. p = [ids |-> <<>>, length |-> low]
      BY <2>3, <3>3 DEF Repeated, NoPart
    <3>6. <<>> \in Seq(Id) /\ low \in Nat
      BY <1>4, <3>4
    <3> QED BY <3>4, <3>5, <3>6 DEF Part
  <2>5. PICK q : q = Add(p, s)
    OBVIOUS
  <2>6. q \in Part /\ Cut(q, R) /\ q.ids = <<s.id>>
    <3>1. \A i \in DOMAIN p.ids : \E r \in R : r.id = p.ids[i]
      BY <2>4
    <3>2. q.ids = Append(<<>>, s.id)
      BY <2>4, <2>5 DEF Add
    <3> QED BY <2>4, <2>5, <3>1, <3>2, AddedIsCut
  <2>7. PICK new : new = Append(ps, q)
    OBVIOUS
  <2>8. /\ new \in Seq(Part) /\ Len(new) = N + 1 /\ new[N + 1] = q
        /\ \A i \in 1..N : new[i] = ps[i]
    BY <1>1, <2>6, <2>7, AppendProperties
  <2>9. SplitStep(ps, s) = new
    BY <1>1, <1>2, <1>8, <2>3, <2>5, <2>7 DEF SplitStep
  <2>10. Cuts(new, R)
    <3>1. ASSUME NEW i \in 1..(N + 1), i # N + 1 PROVE i \in 1..N
      BY <3>1
    <3> QED BY <2>2, <2>6, <2>8, <3>1 DEF Cuts
  <2>11. Flat(new) = Flat(ps) \o <<s.id>>
    BY <1>5, <2>6, <2>7, FlatAppend
  <2>12. Flat(ps) \in Seq(Id)
    BY <1>5, FlatType
  <2>13. Append(Flat(ps), s.id) = Flat(ps) \o <<s.id>>
    BY <1>3, <2>12, AppendIsConcat
  <2> QED BY <2>9, <2>10, <2>11, <2>13
<1>9. CASE ~TooLong(current, s)
  <2>1. current.length = 0 \/ current.length + s.length <= MaxChars
    BY <1>3, <1>4, <1>9 DEF TooLong
  <2>2. PICK q : q = Add(current, s)
    OBVIOUS
  <2>3. q \in Part /\ Cut(q, R) /\ q.ids = Append(current.ids, s.id)
    <3>1. current.length <= Overlap \/ current.length + s.length <= MaxChars
      BY <1>4, <2>1
    <3>2. q.ids = Append(current.ids, s.id)
      BY <2>2 DEF Add
    <3> QED BY <1>7, <2>2, <3>1, <3>2, AddedIsCut
  <2>4. PICK new : new = [ps EXCEPT ![N] = q]
    OBVIOUS
  <2>5. /\ new \in Seq(Part) /\ Len(new) = N
        /\ \A j \in 1..N : new[j] = IF j = N THEN q ELSE ps[j]
    <3>1. N \in 1..Len(ps)
      BY <1>1
    <3> QED BY <1>1, <2>3, <2>4, <3>1, ExceptSeq
  <2>6. SplitStep(ps, s) = new
    BY <1>1, <1>2, <1>9, <2>2, <2>4 DEF SplitStep
  <2>7. Cuts(new, R)
    <3>1. ASSUME NEW i \in 1..N, i # N PROVE i \in 1..(N - 1)
      BY <3>1
    <3>2. \A i \in 1..(N - 1) : Cut(ps[i], R)
      BY <1>1 DEF BeingCut
    <3> QED BY <2>3, <2>5, <3>1, <3>2 DEF Cuts
  <2>8. PICK front : front = SubSeq(ps, 1, N - 1)
    OBVIOUS
  <2>9. /\ front \in Seq(Part) /\ Len(front) = N - 1
        /\ \A i \in 1..(N - 1) : front[i] = ps[i]
    <3>1. \A i \in 1..(N - 1) : ps[i] \in Part
      BY <1>1, ElementOfSeq
    <3>2. N - 1 \in Nat /\ (IF 1 <= N - 1 THEN (N - 1) - 1 + 1 ELSE 0) = N - 1
          /\ (N - 1) - 1 + 1 = N - 1 /\ \A i \in 1..(N - 1) : 1 + i - 1 = i
      OBVIOUS
    <3> QED BY <2>8, <3>1, <3>2, SubSeqProperties
  <2>10. /\ Flat(ps) = Flat(front) \o current.ids
         /\ Flat(new) = Flat(front) \o Append(current.ids, s.id)
    <3>1. Len(front) <= Len(ps) /\ Len(front) <= Len(new)
          /\ Len(ps) = Len(front) + 1 /\ Len(new) = Len(front) + 1
      BY <1>1, <2>5, <2>9
    <3>2. /\ \A i \in 1..Len(front) : front[i].ids = ps[i].ids
          /\ \A i \in 1..Len(front) : front[i].ids = new[i].ids
      BY <2>5, <2>9
    <3>3. Flat(ps) = Flat(front) \o ps[Len(ps)].ids
      BY <1>5, <2>9, <3>1, <3>2, FlatSame
    <3>4. Flat(new) = Flat(front) \o new[Len(new)].ids
      BY <1>5, <2>5, <2>9, <3>1, <3>2, FlatSame
    <3>5. new[Len(new)] = q /\ ps[Len(ps)] = current
      BY <1>1, <1>2, <2>5
    <3> QED BY <2>3, <3>3, <3>4, <3>5
  <2>11. PICK x \in Seq(Id), y \in Seq(Id), z \in Seq(Id) :
           x = Flat(front) /\ y = current.ids /\ z = <<s.id>>
    <3>1. Flat(front) \in Seq(Id)
      BY <1>5, <2>9, FlatType
    <3>2. <<s.id>> \in Seq(Id)
      BY <1>3
    <3> QED BY <1>4, <3>1, <3>2
  <2>12. Append(y, s.id) = y \o z /\ x \o y \in Seq(Id) /\ Append(x \o y, s.id) = (x \o y) \o z
    <3>1. x \o y \in Seq(Id)
      BY ConcatProperties
    <3> QED BY <1>3, <2>11, <3>1, AppendIsConcat
  <2>13. (x \o y) \o z = x \o (y \o z)
    BY ConcatAssociative
  <2> QED BY <2>6, <2>7, <2>10, <2>11, <2>12, <2>13
<1> QED BY <1>8, <1>9
(* All of the split.                                                        *)
LEMMA SplitCuts ==
    ASSUME NEW R \in SUBSET Sentence, NEW ss \in Seq(R), ss # <<>>
    PROVE  /\ SplitLongText(ss) \in Seq(Part)
           /\ Cuts(SplitLongText(ss), R)
           /\ Flat(SplitLongText(ss)) = IdsOf(ss)
<1>1. PICK N \in Nat \ {0} : N = Len(ss) /\ DOMAIN ss = 1..N
  BY EmptySeq, LenProperties
<1>2. PICK P \in [0..N -> (Seq(Part) \ {<<>>})] :
        /\ P[0] = <<NoPart>>
        /\ \A n \in 1..N : P[n] = SplitStep(P[n - 1], ss[n])
        /\ P[N] = SplitLongText(ss)
  BY <1>1, SplitIsFold
<1>3. ss \in Seq(Sentence)
  BY SeqMonotonic
<1>4. PICK S : S = [n \in 0..N |-> SubSeq(ss, 1, n)]
  OBVIOUS
<1>5. ASSUME NEW n \in 0..N PROVE S[n] \in Seq(Sentence)
  <2>1. \A i \in 1..n : ss[i] \in Sentence
    BY <1>1, <1>3, ElementOfSeq
  <2>2. SubSeq(ss, 1, n) \in Seq(Sentence)
    BY <2>1, SubSeqProperties
  <2> QED BY <1>4, <2>2
<1>6. ASSUME NEW n \in 0..(N - 1)
      PROVE  IdsOf(S[n + 1]) = Append(IdsOf(S[n]), ss[n + 1].id)
  <2>1. /\ 1 \in 1..Len(ss) /\ n + 1 \in 1..Len(ss) /\ (n + 1) - 1 = n
        /\ n \in 0..N /\ n + 1 \in 0..N
    BY <1>1
  <2>2. SubSeq(ss, 1, n + 1) = SubSeq(ss, 1, n) \o <<ss[n + 1]>>
    BY <1>3, <2>1, SubSeqRecursiveSecond
  <2>3. S[n] \in Seq(Sentence) /\ ss[n + 1] \in Sentence
    BY <1>3, <1>5, <2>1, ElementOfSeq
  <2>4. Append(S[n], ss[n + 1]) = S[n] \o <<ss[n + 1]>>
    BY <2>3, AppendIsConcat
  <2>5. S[n + 1] = Append(S[n], ss[n + 1])
    BY <1>4, <2>1, <2>2, <2>4
  <2> QED BY <2>3, <2>5, IdsOfAppend
<1>7. S[0] = <<>> /\ S[N] = ss
  <2>1. SubSeq(ss, 1, 0) = <<>> /\ SubSeq(ss, 1, N) = ss
    BY <1>1, <1>3, SubSeqEmpty, SubSeqFull
  <2> QED BY <1>4, <2>1
<1> DEFINE T == {n \in 0..N : /\ BeingCut(P[n], R)
                              /\ n # 0 => Cuts(P[n], R)
                              /\ Flat(P[n]) = IdsOf(S[n])}
<1>8. 0 \in T
  <2>1. PICK ps : ps = P[0]
    OBVIOUS
  <2>2. ps = <<NoPart>> /\ Len(ps) = 1 /\ ps[1] = NoPart
    BY <1>2, <2>1
  <2>3. BeingCut(ps, R)
    BY <2>2 DEF BeingCut
  <2>4. Flat(ps) = <<>>
    <3>1. NoPart \in Part /\ NoPart.ids = <<>> /\ <<>> \in Seq(Part)
          /\ \A c \in Part : c.ids \in Seq(Id)
      BY DEF NoPart, Part
    <3>2. ps = Append(<<>>, NoPart)
      BY <2>2
    <3>3. Flat(ps) = Flat(<<>>) \o <<>>
      BY <3>1, <3>2, FlatAppend
    <3>4. <<>> \in Seq(Id) /\ Flat(<<>>) = <<>>
      BY FlatEmpty
    <3> QED BY <3>3, <3>4, ConcatEmptySeq
  <2>5. IdsOf(S[0]) = <<>>
    BY <1>7 DEF IdsOf
  <2>6. 0 \in 0..N /\ BeingCut(P[0], R) /\ Flat(P[0]) = IdsOf(S[0])
    BY <2>1, <2>3, <2>4, <2>5
  <2> QED BY <2>6
<1>9. ASSUME NEW n \in 0..(N - 1), n \in T PROVE n + 1 \in T
  <2>1. n + 1 \in 1..N /\ (n + 1) - 1 = n /\ n + 1 \in 0..N /\ n \in 0..N
    OBVIOUS
  <2>2. PICK ps, qs, s : ps = P[n] /\ qs = P[n + 1] /\ s = ss[n + 1]
    OBVIOUS
  <2>3. /\ ps \in Seq(Part) /\ ps # <<>> /\ qs \in Seq(Part) /\ qs # <<>>
        /\ s \in R /\ qs = SplitStep(ps, s)
    BY <1>1, <1>2, <2>1, <2>2, ElementOfSeq
  <2>4. BeingCut(ps, R) /\ Flat(ps) = IdsOf(S[n])
    BY <1>9, <2>2
  <2>5. Cuts(qs, R) /\ Flat(qs) = Append(Flat(ps), s.id)
    BY <2>3, <2>4, SplitStepCuts
  <2>6. BeingCut(qs, R)
    <3>1. Len(qs) \in Nat \ {0}
      BY <2>3, EmptySeq
    <3> QED BY <2>5, <3>1 DEF Cuts, BeingCut
  <2>7. Flat(qs) = IdsOf(S[n + 1])
    BY <1>6, <2>2, <2>4, <2>5
  <2> QED BY <2>1, <2>2, <2>5, <2>6, <2>7
<1>10. \A n \in 0..N : n \in T
  <2> HIDE DEF T
  <2> QED BY <1>8, <1>9, UpTo
<1>11. Cuts(P[N], R) /\ Flat(P[N]) = IdsOf(S[N]) /\ P[N] \in Seq(Part)
  <2>1. N \in 0..N /\ N \in T /\ N # 0
    BY <1>10
  <2> QED BY <2>1
<1> QED BY <1>2, <1>7, <1>11

(* What a flush makes of a buffer.                                          *)
Chunk == [path : Seq(Nat), ids : Seq(Id), length : Nat]

(* Its chunks have its path and its sentences, and keep to the bound.       *)
LEMMA FlushGives ==
    ASSUME NEW R \in SUBSET Sentence,
           NEW b \in [path : Seq(Nat), sentences : Seq(R), length : Nat],
           b.sentences # <<>> => b.length # 0
    PROVE  /\ Flush(b) \in Seq(Chunk)
           /\ Cuts(Flush(b), R)
           /\ \A i \in 1..Len(Flush(b)) : Flush(b)[i].path = b.path
           /\ Flat(Flush(b)) = IdsOf(b.sentences)
<1>1. b.path \in Seq(Nat) /\ b.sentences \in Seq(R) /\ b.length \in Nat
  OBVIOUS
<1>2. PICK ss : ss = b.sentences
  OBVIOUS
<1>3. ss \in Seq(R) /\ ss \in Seq(Sentence)
  BY <1>1, <1>2, SeqMonotonic
<1>4. CASE ss = <<>>
  <2>1. Flush(b) = <<>> /\ IdsOf(ss) = <<>>
    BY <1>2, <1>4 DEF Flush, IdsOf
  <2>2. <<>> \in Seq(Chunk) /\ Len(<<>>) = 0
    OBVIOUS
  <2> QED BY <1>2, <2>1, <2>2, FlatEmpty DEF Cuts
<1>5. CASE ss # <<>>
  <2>1. PICK parts :
          parts = IF b.length <= MaxChars
                  THEN <<[ids |-> IdsOf(ss), length |-> b.length]>>
                  ELSE SplitLongText(ss)
    OBVIOUS
  <2>2. parts \in Seq(Part) /\ Cuts(parts, R) /\ Flat(parts) = IdsOf(ss)
    <3>1. CASE b.length <= MaxChars
      <4>1. PICK p : p = [ids |-> IdsOf(ss), length |-> b.length]
        OBVIOUS
      <4>2. p.ids = IdsOf(ss) /\ p.length = b.length /\ parts = <<p>>
        BY <2>1, <3>1, <4>1
      <4>3. IdsOf(ss) \in Seq(Id) /\ Len(IdsOf(ss)) = Len(ss)
        BY <1>3, IdsOfType
      <4>4. p \in Part
        BY <1>1, <4>1, <4>3 DEF Part
      <4>5. Cut(p, R)
        <5>1. IdsOf(ss) # <<>>
          <6>1. Len(ss) # 0
            BY <1>3, <1>5, EmptySeq
          <6> QED BY <4>3, <6>1
        <5>2. \A i \in DOMAIN IdsOf(ss) : \E s \in R : s.id = IdsOf(ss)[i]
          <6>1. DOMAIN IdsOf(ss) = DOMAIN ss /\ \A i \in DOMAIN ss : ss[i] \in R
            BY <1>3, LenProperties, ElementOfSeq DEF IdsOf
          <6> QED BY <6>1 DEF IdsOf
        <5>3. p.length \in Nat \ {0} /\ p.length <= Overlap + MaxChars
          BY <1>1, <1>2, <1>5, <3>1, <4>2, SizesAssumption
        <5> QED BY <4>2, <4>3, <5>1, <5>2, <5>3 DEF Cut
      <4>6. Flat(parts) = IdsOf(ss)
        <5>1. <<>> \in Seq(Part) /\ \A c \in Part : c.ids \in Seq(Id)
          BY DEF Part
        <5>2. parts = Append(<<>>, p)
          BY <4>2
        <5>3. Flat(parts) = Flat(<<>>) \o p.ids
          BY <4>4, <5>1, <5>2, FlatAppend
        <5> QED BY <4>2, <4>3, <5>3, FlatEmpty, ConcatEmptySeq
      <4>7. parts \in Seq(Part) /\ Len(parts) = 1 /\ parts[1] = p
        BY <4>2, <4>4
      <4> QED BY <4>5, <4>6, <4>7 DEF Cuts
    <3>2. CASE ~(b.length <= MaxChars)
      BY <1>3, <1>5, <2>1, <3>2, SplitCuts
    <3> QED BY <3>1, <3>2
  <2>3. PICK cs : cs = [i \in DOMAIN parts |->
                          [path |-> b.path, ids |-> parts[i].ids, length |-> parts[i].length]]
    OBVIOUS
  <2>4. Flush(b) = cs
    BY <1>2, <1>5, <2>1, <2>3 DEF Flush, IdsOf
  <2>5. PICK N \in Nat : N = Len(parts) /\ DOMAIN parts = 1..N
    BY <2>2, LenProperties
  <2>6. ASSUME NEW i \in 1..N
        PROVE  /\ parts[i] \in Part /\ Cut(parts[i], R)
               /\ cs[i] \in Chunk /\ cs[i].path = b.path
               /\ cs[i].ids = parts[i].ids /\ cs[i].length = parts[i].length
               /\ Cut(cs[i], R)
    <3>1. PICK p \in Part : p = parts[i]
      BY <2>2, <2>5, ElementOfSeq
    <3>2. p.ids \in Seq(Id) /\ p.length \in Nat
      BY DEF Part
    <3>3. cs[i] = [path |-> b.path, ids |-> p.ids, length |-> p.length]
      BY <2>3, <2>5, <3>1
    <3>4. Cut(p, R)
      BY <2>2, <2>5, <3>1 DEF Cuts
    <3>5. PICK c : c = cs[i]
      OBVIOUS
    <3>6. c.ids = p.ids /\ c.length = p.length /\ c.path = b.path /\ c \in Chunk
      BY <1>1, <3>2, <3>3, <3>5 DEF Chunk
    <3>7. Cut(c, R)
      BY <3>4, <3>6 DEF Cut
    <3> QED BY <3>1, <3>4, <3>5, <3>6, <3>7
  <2>7. cs \in Seq(Chunk) /\ Len(cs) = N
    <3>1. cs \in [1..N -> Chunk]
      BY <2>3, <2>5, <2>6
    <3> QED BY <3>1
  <2>8. Cuts(cs, R)
    BY <2>6, <2>7 DEF Cuts
  <2>9. Flat(cs) = Flat(parts)
    <3>1. PICK C : C = Part \cup Chunk
      OBVIOUS
    <3>2. \A c \in C : c.ids \in Seq(Id)
      BY <3>1 DEF Part, Chunk
    <3>3. parts \in Seq(C) /\ cs \in Seq(C)
      BY <2>2, <2>7, <3>1, SeqMonotonic
    <3>4. /\ Len(parts) <= Len(cs) /\ Len(parts) = Len(cs)
          /\ \A i \in 1..Len(parts) : parts[i].ids = cs[i].ids
      BY <2>5, <2>6, <2>7
    <3>5. Flat(parts) = Flat(cs)
      BY <3>2, <3>3, <3>4, FlatSame
    <3> QED BY <3>5
  <2> QED BY <1>2, <2>2, <2>4, <2>5, <2>6, <2>7, <2>8, <2>9
<1> QED BY <1>4, <1>5
-----------------------------------------------------------------------------
(* The invariant of reading.  A path with a sentence that stands under it:  *)
Standings == {x \in Seq(Nat) \X Id : WellNested => Listed(x[1]) = Over(x[2][1])}

GoodChunks ==
    {c \in Chunk : Cut(c, Real) /\ \A i \in DOMAIN c.ids : <<c.path, c.ids[i]>> \in Standings}

Buffers ==
    {b \in [path : Seq(Nat), sentences : Seq(Real), length : Nat] :
       /\ b.sentences # <<>> => b.length # 0
       /\ \A i \in DOMAIN b.sentences : <<b.path, b.sentences[i].id>> \in Standings}

(* The path ends with the last heading read; in a text that skips no level  *)
(* it has a heading of every level, and those that the next line is under.  *)
PathOK ==
    /\ path \in Seq(DOMAIN text)
    /\ \A i \in DOMAIN path : text[path[i]].kind = "heading" /\ path[i] < at
    /\ \A n \in DOMAIN text :
         n < at /\ text[n].kind = "heading" => path # <<>> /\ n <= path[Len(path)]
    /\ WellNested => /\ \A i \in DOMAIN path : text[path[i]].level = i
                     /\ at <= Len(text) + 1 => Listed(path) = Over(at)

BufferOK ==
    /\ buffer \in Buffers /\ buffer.length < MaxChars
    /\ buffer.sentences # <<>> => buffer.path = path
    /\ at = Len(text) + 2 => buffer.sentences = <<>>

(* The chunks and the buffer, end to end, are the lines read so far.        *)
Gathered == Flat(chunks) \o IdsOf(buffer.sentences)
LinesRead == IF at = Len(text) + 2 THEN Len(text) ELSE at - 1
ReadOK == \E A : Readings(A) /\ Gathered = IdsOf(A[LinesRead])

ChunkInv ==
    /\ text \in Texts
    /\ at \in 1..(Len(text) + 2)
    /\ PathOK
    /\ BufferOK
    /\ chunks \in Seq(GoodChunks)
    /\ ReadOK

(* All of these depend on the text, which stays.                            *)
LEMMA SameText ==
    ASSUME text' = text
    PROVE  /\ Real' = Real /\ Standings' = Standings
           /\ GoodChunks' = GoodChunks /\ Buffers' = Buffers
           /\ AllSentences' = AllSentences
           /\ WellNested' <=> WellNested
<1>1. Real' = Real
  BY DEF Real
<1>2. WellNested' <=> WellNested
  BY DEF WellNested
<1>3. Standings' = Standings
  BY <1>2 DEF Standings, Over
<1>4. GoodChunks' = GoodChunks
  BY <1>1, <1>3 DEF GoodChunks
<1>5. Buffers' = Buffers
  BY <1>1, <1>3 DEF Buffers
<1>6. AllSentences' = AllSentences
  BY DEF AllSentences, Sentences, FoldLeft, MapThenFoldSet
<1> QED BY <1>1, <1>2, <1>3, <1>4, <1>5, <1>6

(* So do the readings.                                                      *)
LEMMA SameReadings ==
    ASSUME text' = text, NEW A, Readings(A)
    PROVE  Readings(A)'
<1>1. Real' = Real /\ AllSentences' = AllSentences
  BY SameText
<1>2. ASSUME NEW n \in 1..Len(text), A[n] = AllStep(A[n - 1], n)
      PROVE  (A[n] = AllStep(A[n - 1], n))'
  BY <1>2 DEF AllStep, Sentences
<1> QED BY <1>1, <1>2 DEF Readings

(* ChunkInv holds initially: nothing is read.                               *)
LEMMA InitChunks == Init => ChunkInv
<1> SUFFICES ASSUME Init PROVE ChunkInv
  OBVIOUS
<1>1. /\ text \in Texts /\ at = 1 /\ path = <<>> /\ buffer = Empty /\ chunks = <<>>
  BY DEF Init
<1>2. PICK N \in Nat : N = Len(text) /\ DOMAIN text = 1..N
  BY <1>1, TextIsLines
<1>3. PathOK
  <2>1. Listed(path) = {} /\ Over(at) = {}
    BY <1>1 DEF Listed, Over
  <2>2. \A n \in DOMAIN text : ~(n < at)
    BY <1>1, <1>2
  <2>3. path \in Seq(DOMAIN text) /\ DOMAIN path = {}
    BY <1>1
  <2> QED BY <2>1, <2>2, <2>3 DEF PathOK
<1>4. BufferOK
  <2>1. /\ buffer = [path |-> <<>>, sentences |-> <<>>, length |-> 0]
        /\ <<>> \in Seq(Nat) /\ <<>> \in Seq(Real) /\ DOMAIN <<>> = {}
    BY <1>1 DEF Empty
  <2>2. buffer \in Buffers /\ buffer.sentences = <<>> /\ buffer.length = 0
    BY <2>1 DEF Buffers
  <2> QED BY <2>2, SizesAssumption DEF BufferOK
<1>5. chunks \in Seq(GoodChunks)
  BY <1>1
<1>6. ReadOK
  <2>1. PICK A : Readings(A)
    BY <1>1, ReadingsExist
  <2>2. LinesRead = 0 /\ A[0] = <<>>
    BY <1>1, <1>2, <2>1 DEF LinesRead, Readings
  <2>3. Gathered = <<>>
    <3>1. buffer.sentences = <<>> /\ IdsOf(<<>>) = <<>> /\ Flat(chunks) = <<>>
      BY <1>1, FlatEmpty DEF Empty, IdsOf
    <3>2. <<>> \in Seq(Nat) /\ Gathered = <<>> \o <<>>
      BY <3>1 DEF Gathered
    <3> QED BY <3>2, ConcatEmptySeq
  <2>4. IdsOf(A[0]) = <<>>
    BY <2>2 DEF IdsOf
  <2> QED BY <2>1, <2>2, <2>3, <2>4 DEF ReadOK
<1>7. at \in 1..(Len(text) + 2)
  BY <1>1, <1>2
<1> QED BY <1>1, <1>3, <1>4, <1>5, <1>6, <1>7 DEF ChunkInv

(* A flush adds good chunks, made of what the buffer has.                   *)
LEMMA FlushIsGood ==
    ASSUME NEW cs \in Seq(GoodChunks), NEW b \in Buffers
    PROVE  /\ cs \o Flush(b) \in Seq(GoodChunks)
           /\ Flat(cs \o Flush(b)) = Flat(cs) \o IdsOf(b.sentences)
<1>1. PICK R : R = {b.sentences[i] : i \in DOMAIN b.sentences}
  OBVIOUS
<1>2. /\ b \in [path : Seq(Nat), sentences : Seq(Real), length : Nat]
      /\ b.sentences # <<>> => b.length # 0
      /\ \A i \in DOMAIN b.sentences : <<b.path, b.sentences[i].id>> \in Standings
  BY DEF Buffers
<1>3. b.path \in Seq(Nat) /\ b.sentences \in Seq(Real) /\ b.length \in Nat
  BY <1>2
<1>4. R \subseteq Real /\ Real \subseteq Sentence
  <2>1. \A i \in DOMAIN b.sentences : b.sentences[i] \in Real
    BY <1>3, LenProperties, ElementOfSeq
  <2> QED BY <1>1, <2>1 DEF Real
<1>5. b.sentences \in Seq(R)
  <2>1. PICK N \in Nat : N = Len(b.sentences) /\ DOMAIN b.sentences = 1..N
    BY <1>3, LenProperties
  <2>2. b.sentences \in [1..N -> R]
    BY <1>1, <1>3, <2>1, LenProperties
  <2> QED BY <2>1, <2>2
<1>6. b \in [path : Seq(Nat), sentences : Seq(R), length : Nat] /\ R \in SUBSET Sentence
  BY <1>2, <1>3, <1>4, <1>5
<1>7. PICK new : new = Flush(b)
  OBVIOUS
<1>8. /\ new \in Seq(Chunk) /\ Cuts(new, R)
      /\ \A i \in 1..Len(new) : new[i].path = b.path
      /\ Flat(new) = IdsOf(b.sentences)
  BY <1>2, <1>6, <1>7, FlushGives
<1>9. ASSUME NEW i \in 1..Len(new) PROVE new[i] \in GoodChunks
  <2>1. PICK c \in Chunk : c = new[i]
    BY <1>8, ElementOfSeq
  <2>2. Cut(c, R) /\ c.path = b.path
    BY <1>8, <2>1 DEF Cuts
  <2>3. Cut(c, Real)
    BY <1>4, <2>2 DEF Cut
  <2>4. ASSUME NEW k \in DOMAIN c.ids PROVE <<c.path, c.ids[k]>> \in Standings
    <3>1. PICK s \in R : s.id = c.ids[k]
      BY <2>2 DEF Cut
    <3>2. PICK j \in DOMAIN b.sentences : s = b.sentences[j]
      BY <1>1
    <3> QED BY <1>2, <2>2, <3>1, <3>2
  <2> QED BY <2>1, <2>3, <2>4 DEF GoodChunks
<1>10. new \in Seq(GoodChunks)
  <2>1. PICK N \in Nat : N = Len(new) /\ DOMAIN new = 1..N
    BY <1>8, LenProperties
  <2>2. new \in [1..N -> GoodChunks]
    BY <1>8, <1>9, <2>1, LenProperties
  <2> QED BY <2>1, <2>2
<1>11. cs \o new \in Seq(GoodChunks)
  BY <1>10, ConcatProperties
<1>12. \A c \in GoodChunks : c.ids \in Seq(Id)
  BY DEF GoodChunks, Chunk
<1>13. Flat(cs \o new) = Flat(cs) \o Flat(new)
  BY <1>10, <1>12, FlatConcat
<1> QED BY <1>7, <1>8, <1>11, <1>13
(* A flush keeps what a buffer has gathered.                                *)
LEMMA FlushKeeps ==
    ASSUME ChunkInv, text' = text, NEW b \in Buffers,
           chunks' = chunks \o Flush(b), buffer' = Empty
    PROVE  /\ (chunks \in Seq(GoodChunks))' /\ BufferOK'
           /\ Gathered' = Flat(chunks) \o IdsOf(b.sentences)
<1>1. chunks \in Seq(GoodChunks)
  BY DEF ChunkInv
<1>2. PICK new : new = chunks \o Flush(b)
  OBVIOUS
<1>3. new \in Seq(GoodChunks) /\ Flat(new) = Flat(chunks) \o IdsOf(b.sentences)
  BY <1>1, <1>2, FlushIsGood
<1>4. GoodChunks' = GoodChunks /\ Buffers' = Buffers
  BY SameText
<1>5. Gathered' = Flat(new)
  <2>1. buffer'.sentences = <<>> /\ chunks' = new /\ IdsOf(<<>>) = <<>>
    BY <1>2 DEF Empty, IdsOf
  <2>2. Gathered' = Flat(new) \o <<>>
    BY <2>1 DEF Gathered, IdsOf
  <2>3. Flat(new) \in Seq(Id)
    <3>1. \A c \in GoodChunks : c.ids \in Seq(Id)
      BY DEF GoodChunks, Chunk
    <3> QED BY <1>3, <3>1, FlatType
  <2> QED BY <2>2, <2>3, ConcatEmptySeq
<1>6. BufferOK'
  <2>1. /\ buffer' = [path |-> <<>>, sentences |-> <<>>, length |-> 0]
        /\ <<>> \in Seq(Nat) /\ <<>> \in Seq(Real) /\ DOMAIN <<>> = {}
    BY DEF Empty
  <2>2. PICK none : none = buffer'
    OBVIOUS
  <2>3. none \in Buffers /\ none.sentences = <<>> /\ none.length = 0
    BY <2>1, <2>2 DEF Buffers
  <2>4. buffer' \in Buffers' /\ buffer'.sentences = <<>> /\ buffer'.length = 0
    BY <1>4, <2>2, <2>3
  <2> QED BY <2>4, SizesAssumption DEF BufferOK
<1> QED BY <1>2, <1>3, <1>4, <1>5, <1>6

(* A line with nothing on it to gather.                                     *)
LEMMA NothingRead ==
    ASSUME ChunkInv, text' = text, at' = at + 1, at <= Len(text) + 1, Gathered' = Gathered,
           at \in DOMAIN text => text[at].kind # "text"
    PROVE  ReadOK'
<1>1. PICK N \in Nat : N = Len(text) /\ DOMAIN text = 1..N
  BY TextIsLines DEF ChunkInv
<1>2. PICK A : Readings(A) /\ Gathered = IdsOf(A[LinesRead])
  BY DEF ChunkInv, ReadOK
<1>3. at \in 1..(N + 1)
  BY <1>1 DEF ChunkInv
<1>4. A[LinesRead'] = A[LinesRead]
  <2>1. CASE at = N + 1
    <3>1. LinesRead = N /\ LinesRead' = N
      BY <1>1, <2>1 DEF LinesRead
    <3> QED BY <3>1
  <2>2. CASE at # N + 1
    <3>1. LinesRead = at - 1 /\ LinesRead' = at /\ at \in 1..N /\ at - 1 \in 0..N
      BY <1>1, <1>3, <2>2 DEF LinesRead
    <3>2. A[at] = AllStep(A[at - 1], at)
      BY <1>1, <1>2, <3>1 DEF Readings
    <3>3. A[at] = A[at - 1] \o <<>>
      BY <1>1, <3>1, <3>2 DEF AllStep
    <3>4. A[at - 1] \in Seq(Real)
      BY <1>1, <1>2, <3>1 DEF Readings
    <3> QED BY <3>1, <3>3, <3>4, ConcatEmptySeq
  <2> QED BY <2>1, <2>2
<1>5. Readings(A)'
  BY <1>2, SameReadings
<1>6. Gathered' = IdsOf(A[LinesRead'])
  BY <1>2, <1>4
<1>7. (Gathered = IdsOf(A[LinesRead]))'
  BY <1>6 DEF IdsOf
<1> QED BY <1>5, <1>7 DEF ReadOK

(* A line that is no heading leaves the path.                               *)
LEMMA NoHeadingRead ==
    ASSUME ChunkInv, text' = text, path' = path, at' = at + 1, at <= Len(text) + 1,
           at \in DOMAIN text => text[at].kind # "heading"
    PROVE  PathOK'
<1>1. PICK N \in Nat : N = Len(text) /\ DOMAIN text = 1..N
  BY TextIsLines DEF ChunkInv
<1>2. at \in 1..(N + 1) /\ PathOK
  BY <1>1 DEF ChunkInv
<1>3. (path \in Seq(DOMAIN text))'
  BY <1>2 DEF PathOK
<1>4. (\A i \in DOMAIN path : text[path[i]].kind = "heading" /\ path[i] < at)'
  <2>1. ASSUME NEW i \in DOMAIN path
        PROVE  text[path[i]].kind = "heading" /\ path[i] < at + 1
    <3>1. path[i] \in 1..N
      BY <1>1, <1>2, LenProperties, ElementOfSeq DEF PathOK
    <3>2. text[path[i]].kind = "heading" /\ path[i] < at
      BY <1>2 DEF PathOK
    <3> QED BY <1>2, <3>1, <3>2
  <2> QED BY <2>1
<1>5. (\A n \in DOMAIN text :
         n < at /\ text[n].kind = "heading" => path # <<>> /\ n <= path[Len(path)])'
  <2>1. ASSUME NEW n \in DOMAIN text, n < at + 1, text[n].kind = "heading"
        PROVE  path # <<>> /\ n <= path[Len(path)]
    <3>1. n < at
      <4>1. n # at
        BY <2>1
      <4>2. n \in 1..N
        BY <1>1
      <4> QED BY <1>2, <2>1, <4>1, <4>2
    <3> QED BY <1>2, <2>1, <3>1 DEF PathOK
  <2> QED BY <2>1
<1>6. WellNested' <=> WellNested
  BY SameText
<1>7. (WellNested => /\ \A i \in DOMAIN path : text[path[i]].level = i
                     /\ at <= Len(text) + 1 => Listed(path) = Over(at))'
  <2>1. ASSUME WellNested, at + 1 <= N + 1 PROVE Listed(path) = Over(at + 1)
    <3>1. at \in 1..N /\ text[at].kind # "heading"
      BY <1>1, <1>2, <2>1
    <3>2. Listed(path) = Over(at)
      BY <1>1, <1>2, <2>1, <3>1 DEF PathOK
    <3>3. ASSUME NEW h \in 1..(at - 1), NEW k \in (h + 1)..at, text[k].kind = "heading"
          PROVE  k \in (h + 1)..(at - 1)
      <4>1. k # at
        BY <3>1, <3>3
      <4> QED BY <3>1, <4>1
    <3>4. /\ (at + 1) - 1 = at
          /\ \A h \in 1..at : h # at => h \in 1..(at - 1)
          /\ \A h \in 1..(at - 1) : h \in 1..at
          /\ \A h \in 1..(at - 1) : \A k \in (h + 1)..(at - 1) : k \in (h + 1)..at
      BY <3>1
    <3>5. Over(at + 1) \subseteq Over(at)
      BY <3>1, <3>4 DEF Over
    <3>6. Over(at) \subseteq Over(at + 1)
      BY <3>3, <3>4 DEF Over
    <3> QED BY <3>2, <3>5, <3>6
  <2>2. ASSUME WellNested PROVE \A i \in DOMAIN path : text[path[i]].level = i
    BY <1>2, <2>2 DEF PathOK
  <2>3. ASSUME WellNested' PROVE (at <= Len(text) + 1 => Listed(path) = Over(at))'
    <3>1. at + 1 <= N + 1 => Listed(path) = Over(at + 1)
      BY <1>6, <2>1, <2>3
    <3> QED BY <1>1, <3>1 DEF Over, Listed
  <2> QED BY <1>6, <2>2, <2>3
<1> QED BY <1>3, <1>4, <1>5, <1>7 DEF PathOK
(* The greater of two numbers.                                              *)
LEMMA GreaterOfTwo ==
    ASSUME NEW a \in Nat, NEW b \in Nat
    PROVE  Max({a, b}) \in {a, b} /\ a <= Max({a, b}) /\ b <= Max({a, b})
<1>1. PICK m : m = Max({a, b})
  OBVIOUS
<1>2. \E x \in {a, b} : \A y \in {a, b} : x >= y
  OBVIOUS
<1>3. m \in {a, b} /\ \A y \in {a, b} : m >= y
  BY <1>1, <1>2 DEF Max
<1> QED BY <1>1, <1>3

(* In a text that skips no level, a heading is at most one below the path.  *)
LEMMA NextHeadingFits ==
    ASSUME text \in Texts, PathOK, WellNested, at \in DOMAIN text, text[at].kind = "heading"
    PROVE  text[at].level <= Len(path) + 1
<1>1. PICK N \in Nat : N = Len(text) /\ DOMAIN text = 1..N
  BY TextIsLines
<1>2. PICK L \in Nat : L = Len(path) /\ DOMAIN path = 1..L
  BY LenProperties DEF PathOK
<1>3. PICK last : last = {k \in 1..(at - 1) :
                            /\ text[k].kind = "heading"
                            /\ \A j \in (k + 1)..(at - 1) : text[j].kind # "heading"}
  OBVIOUS
<1>4. PICK level, levels, top : /\ level = text[at].level
                                /\ levels = {0} \cup {text[m].level : m \in last}
                                /\ top = Max(levels)
  OBVIOUS
<1>5. level \in Nat /\ level <= 1 + top
  BY <1>3, <1>4, HeadingsHaveLevels DEF WellNested
<1>6. at \in 1..N
  BY <1>1
<1>7. ASSUME NEW k \in last PROVE path # <<>> /\ k = path[L]
  <2>1. k \in 1..N /\ k < at /\ text[k].kind = "heading"
    BY <1>3, <1>6
  <2>2. path # <<>> /\ k <= path[L]
    BY <1>1, <1>2, <2>1 DEF PathOK
  <2>3. L \in DOMAIN path
    BY <1>2, <2>2, EmptySeq DEF PathOK
  <2>4. path[L] \in 1..N /\ path[L] < at /\ text[path[L]].kind = "heading"
    BY <1>1, <1>2, <2>3, ElementOfSeq DEF PathOK
  <2>5. k = path[L] \/ path[L] \in (k + 1)..(at - 1)
    BY <1>6, <2>1, <2>2, <2>4
  <2> QED BY <1>3, <2>2, <2>4, <2>5
<1>8. CASE last = {}
  <2>1. levels = {0, 0}
    BY <1>4, <1>8
  <2>2. top = 0
    BY <1>4, <2>1, GreaterOfTwo
  <2> QED BY <1>2, <1>4, <1>5, <2>2
<1>9. CASE last # {}
  <2>1. path # <<>> /\ last = {path[L]}
    BY <1>7, <1>9
  <2>2. L \in DOMAIN path
    BY <1>2, <2>1, EmptySeq DEF PathOK
  <2>3. text[path[L]].level = L
    BY <2>2 DEF PathOK
  <2>4. levels = {0, L}
    BY <1>4, <2>1, <2>3
  <2>5. top \in {0, L}
    BY <1>2, <1>4, <2>4, GreaterOfTwo
  <2> QED BY <1>2, <1>4, <1>5, <2>5
<1> QED BY <1>8, <1>9

(* A heading ends the path.                                                 *)
LEMMA HeadingRead ==
    ASSUME ChunkInv, Is("heading"), text' = text, at' = at + 1,
           path' = SectionPath(text[at].level)
    PROVE  PathOK'
<1>1. PICK N \in Nat : N = Len(text) /\ DOMAIN text = 1..N
  BY TextIsLines DEF ChunkInv
<1>2. at \in 1..N /\ text[at].kind = "heading" /\ text \in Texts /\ PathOK
  BY <1>1 DEF ChunkInv, Is
<1>3. PICK L \in Nat : L = Len(path) /\ DOMAIN path = 1..L
  BY <1>2, LenProperties DEF PathOK
<1>4. PICK level \in Nat \ {0} : level = text[at].level
  BY <1>1, <1>2, HeadingsHaveLevels
<1>5. PICK m : m = Min({level - 1, L})
  OBVIOUS
<1>6. m \in 0..L /\ m <= level - 1 /\ (level <= L + 1 => m = level - 1)
  <2>1. \E x \in {level - 1, L} : \A y \in {level - 1, L} : x <= y
    OBVIOUS
  <2>2. m \in {level - 1, L} /\ \A y \in {level - 1, L} : m <= y
    BY <1>5, <2>1 DEF Min
  <2> QED BY <2>2
<1>7. PICK front : front = SubSeq(path, 1, m)
  OBVIOUS
<1>8. /\ front \in Seq(1..N) /\ Len(front) = m
      /\ \A i \in 1..m : front[i] = path[i]
  <2>1. \A i \in 1..m : path[i] \in 1..N
    BY <1>1, <1>2, <1>3, <1>6, ElementOfSeq DEF PathOK
  <2>2. m \in Nat /\ (IF 1 <= m THEN m - 1 + 1 ELSE 0) = m
        /\ m - 1 + 1 = m /\ \A i \in 1..m : 1 + i - 1 = i
    BY <1>6
  <2> QED BY <1>7, <2>1, <2>2, SubSeqProperties
<1>9. PICK new : new = Append(front, at)
  OBVIOUS
<1>10. /\ new \in Seq(1..N) /\ Len(new) = m + 1 /\ new # <<>>
       /\ \A i \in 1..m : new[i] = path[i]
       /\ new[m + 1] = at /\ DOMAIN new = 1..(m + 1)
  <2>1. /\ new \in Seq(1..N) /\ Len(new) = m + 1 /\ new # <<>>
        /\ \A i \in 1..m : new[i] = front[i]
        /\ new[m + 1] = at
    BY <1>2, <1>8, <1>9, AppendProperties
  <2> QED BY <1>8, <2>1, LenProperties
<1>11. path' = new
  BY <1>3, <1>4, <1>5, <1>7, <1>9 DEF SectionPath
<1>12. ASSUME NEW i \in 1..(m + 1)
       PROVE  text[new[i]].kind = "heading" /\ new[i] < at + 1
  <2>1. CASE i = m + 1
    BY <1>2, <1>10, <2>1
  <2>2. CASE i # m + 1
    <3>1. i \in 1..m /\ i \in 1..L
      BY <1>6, <2>2
    <3>2. text[path[i]].kind = "heading" /\ path[i] < at /\ path[i] \in 1..N
      BY <1>1, <1>2, <1>3, <3>1, ElementOfSeq DEF PathOK
    <3> QED BY <1>2, <1>10, <3>1, <3>2
  <2> QED BY <2>1, <2>2
<1>13. ASSUME NEW n \in 1..N, n < at + 1 PROVE n <= new[Len(new)]
  BY <1>2, <1>10, <1>13
<1>14. ASSUME WellNested
       PROVE  /\ \A i \in 1..(m + 1) : text[new[i]].level = i
              /\ Listed(new) = Over(at + 1)
  <2>1. level <= L + 1 /\ m = level - 1
    BY <1>1, <1>2, <1>3, <1>4, <1>6, <1>14, NextHeadingFits
  <2>2. \A i \in 1..L : text[path[i]].level = i
    BY <1>2, <1>3, <1>14 DEF PathOK
  <2>3. ASSUME NEW i \in 1..(m + 1) PROVE text[new[i]].level = i
    <3>1. CASE i = m + 1
      BY <1>4, <1>10, <2>1, <3>1
    <3>2. CASE i # m + 1
      <4>1. i \in 1..m /\ i \in 1..L
        BY <1>6, <3>2
      <4> QED BY <1>10, <2>2, <4>1
    <3> QED BY <3>1, <3>2
  <2>4. Listed(path) = Over(at)
    BY <1>1, <1>2, <1>14 DEF PathOK
  <2>5. ASSUME NEW h
        PROVE  h \in Over(at + 1) <=> h = at \/ (h \in Over(at) /\ text[h].level < level)
    <3>1. (at + 1) - 1 = at
      BY <1>2
    <3>2. CASE h = at
      <4>1. at \in 1..at /\ (at + 1)..at = {}
        BY <1>2
      <4>2. at \in Over(at + 1)
        BY <1>2, <3>1, <4>1 DEF Over
      <4> QED BY <3>2, <4>2
    <3>3. CASE h # at
      <4>1. h \in 1..at <=> h \in 1..(at - 1)
        BY <1>2, <3>3
      <4>2. ASSUME h \in 1..(at - 1)
            PROVE  (h + 1)..at = (h + 1)..(at - 1) \cup {at}
        BY <1>2, <4>2
      <4>3. h \in Over(at + 1) <=>
              /\ h \in 1..(at - 1) /\ text[h].kind = "heading"
              /\ \A k \in (h + 1)..(at - 1) \cup {at} :
                   text[k].kind = "heading" => text[k].level > text[h].level
        BY <3>1, <4>1, <4>2 DEF Over
      <4>4. h \in Over(at) <=>
              /\ h \in 1..(at - 1) /\ text[h].kind = "heading"
              /\ \A k \in (h + 1)..(at - 1) :
                   text[k].kind = "heading" => text[k].level > text[h].level
        BY DEF Over
      <4>5. ASSUME h \in 1..(at - 1), text[h].kind = "heading"
            PROVE  text[at].level > text[h].level <=> text[h].level < level
        <5>1. h \in 1..N
          BY <1>2, <4>5
        <5>2. text[h].level \in Nat
          BY <1>1, <1>2, <4>5, <5>1, HeadingsHaveLevels
        <5> QED BY <1>4, <5>2
      <4> QED BY <1>2, <3>3, <4>3, <4>4, <4>5
    <3> QED BY <3>2, <3>3
  <2>6. ASSUME NEW h
        PROVE  h \in Listed(path) /\ text[h].level < level <=> \E i \in 1..m : h = path[i]
    <3>1. ASSUME NEW i \in 1..L PROVE text[path[i]].level < level <=> i \in 1..m
      BY <2>1, <2>2, <3>1
    <3>2. \A i \in 1..m : i \in 1..L
      BY <1>6
    <3> QED BY <1>3, <3>1, <3>2 DEF Listed
  <2>7. ASSUME NEW h
        PROVE  h \in Listed(new) <=> h = at \/ \E i \in 1..m : h = path[i]
    <3>1. \A i \in 1..(m + 1) : i = m + 1 \/ i \in 1..m
      BY <1>6
    <3>2. m + 1 \in 1..(m + 1) /\ \A i \in 1..m : i \in 1..(m + 1)
      BY <1>6
    <3> QED BY <1>10, <3>1, <3>2 DEF Listed
  <2>8. Listed(new) = Over(at + 1)
    BY <2>4, <2>5, <2>6, <2>7
  <2> QED BY <2>3, <2>8
<1>15. WellNested' <=> WellNested
  BY SameText, <1>1
<1>16. (path \in Seq(DOMAIN text))'
  BY <1>1, <1>10, <1>11
<1>17. (\A i \in DOMAIN path : text[path[i]].kind = "heading" /\ path[i] < at)'
  BY <1>10, <1>11, <1>12
<1>18. (\A n \in DOMAIN text :
          n < at /\ text[n].kind = "heading" => path # <<>> /\ n <= path[Len(path)])'
  BY <1>1, <1>10, <1>11, <1>13
<1>19. ASSUME WellNested'
       PROVE  /\ (\A i \in DOMAIN path : text[path[i]].level = i)'
              /\ (at <= Len(text) + 1 => Listed(path) = Over(at))'
  <2>1. /\ \A i \in 1..(m + 1) : text[new[i]].level = i
        /\ Listed(new) = Over(at + 1)
    BY <1>14, <1>15, <1>19
  <2>2. (\A i \in DOMAIN path : text[path[i]].level = i)'
    BY <1>10, <1>11, <2>1
  <2>3. (Listed(path) = Over(at))'
    BY <1>11, <2>1 DEF Over, Listed
  <2> QED BY <2>2, <2>3
<1> QED BY <1>16, <1>17, <1>18, <1>19 DEF PathOK
(* A line of text joins the buffer.                                         *)
LEMMA WithLineGives ==
    ASSUME ChunkInv, Is("text")
    PROVE  /\ WithLine(at) \in Buffers
           /\ WithLine(at).sentences # <<>> /\ WithLine(at).path = path
           /\ IdsOf(WithLine(at).sentences)
                = IdsOf(buffer.sentences) \o IdsOf(Sentences(at))
<1>1. PICK N \in Nat : N = Len(text) /\ DOMAIN text = 1..N
  BY TextIsLines DEF ChunkInv
<1>2. /\ text \in Texts /\ at \in 1..N /\ text[at].kind = "text"
      /\ PathOK /\ BufferOK
  BY <1>1 DEF ChunkInv, Is
<1>3. PICK ss : ss = Sentences(at)
  OBVIOUS
<1>4. /\ ss \in Seq(Real) /\ ss # <<>> /\ ss \in Seq(Sentence)
      /\ \A i \in DOMAIN ss : ss[i].id = <<at, i>>
  BY <1>1, <1>2, <1>3, SentencesAreReal, RealSequences
<1>5. PICK size \in Nat \ {0} : size = SizeOf(ss)
  <2>1. PICK L \in Nat \ {0} : L = Len(ss)
    BY <1>4, EmptySeq
  <2>2. PICK P \in [0..L -> Nat] :
          (\A n \in 1..L : P[n] = SumStep(P[n - 1], ss[n])) /\ P[L] = SizeOf(ss)
    BY <1>4, <2>1, SizeIsFold
  <2>3. L \in 1..L /\ L - 1 \in 0..L
    OBVIOUS
  <2>4. ss[L] \in Sentence
    BY <1>4, <2>1, <2>3, ElementOfSeq
  <2>5. ss[L].length \in Nat \ {0} /\ P[L - 1] \in Nat /\ P[L] = P[L - 1] + ss[L].length
    BY <2>2, <2>3, <2>4 DEF SumStep, Sentence
  <2> QED BY <2>2, <2>5
<1>6. path \in Seq(Nat)
  <2>1. path \in Seq(DOMAIN text) /\ DOMAIN text \subseteq Nat
    BY <1>1, <1>2 DEF PathOK
  <2> QED BY <2>1, SeqMonotonic
<1>7. ASSUME NEW i \in DOMAIN ss PROVE <<path, ss[i].id>> \in Standings
  <2>1. WellNested => Listed(path) = Over(at)
    BY <1>1, <1>2 DEF PathOK
  <2>2. PICK id : id = ss[i].id
    OBVIOUS
  <2>3. id = <<at, i>> /\ id[1] = at
    BY <1>4, <2>2
  <2>4. id \in Id
    <3>1. ss[i] \in Sentence
      BY <1>4, LenProperties, ElementOfSeq
    <3> QED BY <2>2, <3>1 DEF Sentence
  <2> QED BY <1>6, <2>1, <2>2, <2>3, <2>4 DEF Standings
<1>8. PICK w : w = WithLine(at)
  OBVIOUS
<1>9. CASE buffer.sentences = <<>>
  <2>1. w = [path |-> path, sentences |-> ss, length |-> size]
    BY <1>3, <1>5, <1>8, <1>9 DEF WithLine, SizeOf
  <2>2. w \in Buffers
    BY <1>4, <1>5, <1>6, <1>7, <2>1 DEF Buffers
  <2>3. IdsOf(ss) \in Seq(Id) /\ IdsOf(<<>>) = <<>>
    BY <1>4, IdsOfType DEF IdsOf
  <2>4. IdsOf(ss) = IdsOf(buffer.sentences) \o IdsOf(ss)
    BY <1>9, <2>3, ConcatEmptySeq
  <2> QED BY <1>3, <1>4, <1>8, <2>1, <2>2, <2>4
<1>10. CASE buffer.sentences # <<>>
  <2>1. /\ buffer \in [path : Seq(Nat), sentences : Seq(Real), length : Nat]
        /\ \A i \in DOMAIN buffer.sentences :
             <<buffer.path, buffer.sentences[i].id>> \in Standings
        /\ buffer.path = path
    BY <1>2, <1>10 DEF BufferOK, Buffers
  <2>2. PICK old, n : old = buffer.sentences /\ n = buffer.length
    OBVIOUS
  <2>3. old \in Seq(Real) /\ n \in Nat /\ old # <<>> /\ old \in Seq(Sentence)
    BY <1>10, <2>1, <2>2, RealSequences
  <2>4. PICK all, sum : all = old \o ss /\ sum = n + 1 + size
    OBVIOUS
  <2>5. w = [path |-> path, sentences |-> all, length |-> sum]
    <3>1. w = [buffer EXCEPT !.sentences = all, !.length = sum]
      BY <1>3, <1>5, <1>8, <1>10, <2>2, <2>4 DEF WithLine, SizeOf
    <3> QED BY <2>1, <3>1
  <2>6. /\ all \in Seq(Real) /\ Len(all) = Len(old) + Len(ss)
        /\ \A i \in 1..(Len(old) + Len(ss)) :
             all[i] = IF i <= Len(old) THEN old[i] ELSE ss[i - Len(old)]
        /\ Len(old) \in Nat /\ Len(ss) \in Nat \ {0}
        /\ DOMAIN all = 1..(Len(old) + Len(ss))
        /\ DOMAIN old = 1..Len(old) /\ DOMAIN ss = 1..Len(ss)
    <3>1. /\ all \in Seq(Real) /\ Len(all) = Len(old) + Len(ss)
          /\ \A i \in 1..(Len(old) + Len(ss)) :
               all[i] = IF i <= Len(old) THEN old[i] ELSE ss[i - Len(old)]
      BY <1>4, <2>3, <2>4, ConcatProperties
    <3> QED BY <1>4, <2>3, <3>1, LenProperties, EmptySeq
  <2>7. ASSUME NEW i \in DOMAIN all PROVE <<path, all[i].id>> \in Standings
    <3>1. CASE i <= Len(old)
      <4>1. i \in DOMAIN old /\ all[i] = old[i]
        BY <2>6, <3>1
      <4> QED BY <2>1, <2>2, <4>1
    <3>2. CASE ~(i <= Len(old))
      <4>1. i - Len(old) \in DOMAIN ss /\ all[i] = ss[i - Len(old)]
        BY <2>6, <3>2
      <4> QED BY <1>7, <4>1
    <3> QED BY <3>1, <3>2
  <2>8. sum \in Nat \ {0} /\ all # <<>>
    <3>1. Len(all) # 0
      BY <2>6
    <3> QED BY <1>5, <2>3, <2>4, <3>1
  <2>9. w \in Buffers
    BY <1>6, <2>5, <2>6, <2>7, <2>8 DEF Buffers
  <2>10. IdsOf(all) = IdsOf(old) \o IdsOf(ss)
    BY <1>4, <2>3, <2>4, IdsOfConcat
  <2> QED BY <1>3, <1>8, <2>2, <2>5, <2>8, <2>9, <2>10
<1> QED BY <1>9, <1>10

(* A line of text is gathered, flushed or not.                              *)
LEMMA TextLineRead ==
    ASSUME ChunkInv, TextLine
    PROVE  (chunks \in Seq(GoodChunks))' /\ BufferOK' /\ ReadOK'
<1>1. PICK N \in Nat : N = Len(text) /\ DOMAIN text = 1..N
  BY TextIsLines DEF ChunkInv
<1>2. /\ text \in Texts /\ at \in 1..N /\ text[at].kind = "text"
      /\ text' = text /\ at' = at + 1 /\ path' = path /\ Is("text")
      /\ chunks \in Seq(GoodChunks) /\ BufferOK
  BY <1>1 DEF ChunkInv, TextLine, Is
<1>3. PICK w \in Buffers :
        /\ w = WithLine(at) /\ w.sentences # <<>> /\ w.path = path
        /\ IdsOf(w.sentences) = IdsOf(buffer.sentences) \o IdsOf(Sentences(at))
  BY <1>2, WithLineGives
<1>4. /\ w.sentences \in Seq(Real) /\ w.sentences \in Seq(Sentence) /\ w.length \in Nat
      /\ buffer.sentences \in Seq(Real) /\ buffer.sentences \in Seq(Sentence)
  BY <1>2, RealSequences DEF Buffers, BufferOK
<1>5. GoodChunks' = GoodChunks /\ Buffers' = Buffers
  BY <1>2, SameText
<1>6. (chunks \in Seq(GoodChunks))' /\ BufferOK' /\ Gathered' = Flat(chunks) \o IdsOf(w.sentences)
  <2>1. CASE w.length >= MaxChars
    <3>1. chunks' = chunks \o Flush(w) /\ buffer' = Empty
      BY <1>3, <2>1 DEF TextLine
    <3> QED BY <1>2, <3>1, FlushKeeps
  <2>2. CASE ~(w.length >= MaxChars)
    <3>1. chunks' = chunks /\ buffer' = w
      BY <1>3, <2>2 DEF TextLine
    <3>2. (chunks \in Seq(GoodChunks))'
      BY <1>2, <1>5, <3>1
    <3>3. Gathered' = Flat(chunks) \o IdsOf(w.sentences)
      BY <3>1 DEF Gathered, IdsOf
    <3>4. BufferOK'
      <4>1. w.length < MaxChars
        BY <1>4, <2>2, SizesAssumption
      <4>2. at' # Len(text') + 2
        BY <1>1, <1>2
      <4> QED BY <1>2, <1>3, <1>5, <3>1, <4>1, <4>2 DEF BufferOK
    <3> QED BY <3>2, <3>3, <3>4
  <2> QED BY <2>1, <2>2
<1>7. ReadOK'
  <2>1. PICK A : Readings(A) /\ Gathered = IdsOf(A[LinesRead])
    BY DEF ChunkInv, ReadOK
  <2>2. LinesRead = at - 1 /\ LinesRead' = at /\ at - 1 \in 0..N
    BY <1>1, <1>2 DEF LinesRead
  <2>3. PICK ss : ss = Sentences(at)
    OBVIOUS
  <2>4. ss \in Seq(Sentence)
    BY <1>1, <1>2, <2>3, SentencesAreReal, RealSequences
  <2>5. A[at] = A[at - 1] \o ss /\ A[at - 1] \in Seq(Sentence)
    <3>1. A[at] = AllStep(A[at - 1], at) /\ A[at - 1] \in Seq(Real)
      BY <1>1, <1>2, <2>1, <2>2 DEF Readings
    <3> QED BY <1>2, <2>3, <3>1, RealSequences DEF AllStep
  <2>6. IdsOf(A[at]) = IdsOf(A[at - 1]) \o IdsOf(ss)
    BY <2>4, <2>5, IdsOfConcat
  <2>7. PICK x \in Seq(Id), y \in Seq(Id), z \in Seq(Id) :
          x = Flat(chunks) /\ y = IdsOf(buffer.sentences) /\ z = IdsOf(ss)
    <3>1. \A c \in GoodChunks : c.ids \in Seq(Id)
      BY DEF GoodChunks, Chunk
    <3>2. Flat(chunks) \in Seq(Id)
      BY <1>2, <3>1, FlatType
    <3>3. IdsOf(buffer.sentences) \in Seq(Id) /\ IdsOf(ss) \in Seq(Id)
      BY <1>4, <2>4, IdsOfType
    <3> QED BY <3>2, <3>3
  <2>8. Gathered' = x \o (y \o z) /\ Gathered = x \o y
    BY <1>3, <1>6, <2>3, <2>7 DEF Gathered
  <2>9. (x \o y) \o z = x \o (y \o z)
    BY ConcatAssociative
  <2>10. Gathered' = IdsOf(A[at])
    BY <2>1, <2>2, <2>6, <2>7, <2>8, <2>9
  <2>11. (Gathered = IdsOf(A[LinesRead]))'
    BY <2>2, <2>10 DEF IdsOf
  <2>12. Readings(A)'
    BY <1>2, <2>1, SameReadings
  <2> QED BY <2>11, <2>12 DEF ReadOK
<1> QED BY <1>6, <1>7
(* ChunkInv is kept by every step.                                          *)
LEMMA NextKeepsChunks ==
    ASSUME ChunkInv, [Next]_vars
    PROVE  ChunkInv'
<1>1. PICK N \in Nat : N = Len(text) /\ DOMAIN text = 1..N
  BY TextIsLines DEF ChunkInv
<1>2. /\ text \in Texts /\ at \in 1..(N + 2) /\ PathOK /\ BufferOK
      /\ chunks \in Seq(GoodChunks) /\ ReadOK
  BY <1>1 DEF ChunkInv
<1>3. PICK b \in Buffers : b = buffer
  BY <1>2 DEF BufferOK
<1>4. ASSUME text' = text, at' = at + 1, at <= N + 1
      PROVE  (text \in Texts /\ at \in 1..(Len(text) + 2))'
  BY <1>1, <1>2, <1>4
<1>5. CASE Heading
  <2>1. /\ at \in 1..N /\ text[at].kind = "heading" /\ at <= N + 1 /\ Is("heading")
        /\ chunks' = chunks \o Flush(b) /\ buffer' = Empty
        /\ path' = SectionPath(text[at].level) /\ at' = at + 1 /\ text' = text
    BY <1>1, <1>2, <1>3, <1>5 DEF Heading, Is
  <2>2. (chunks \in Seq(GoodChunks))' /\ BufferOK' /\ Gathered' = Gathered
    BY <1>3, <2>1, FlushKeeps DEF Gathered
  <2>3. PathOK'
    BY <2>1, HeadingRead
  <2>4. ReadOK'
    BY <1>1, <2>1, <2>2, NothingRead
  <2> QED BY <1>4, <2>1, <2>2, <2>3, <2>4 DEF ChunkInv
<1>6. CASE Blank \/ EndOfText
  <2>1. /\ at <= N + 1
        /\ at \in DOMAIN text => text[at].kind = "blank"
        /\ chunks' = chunks \o Flush(b) /\ buffer' = Empty
        /\ path' = path /\ at' = at + 1 /\ text' = text
    <3>1. CASE Blank
      BY <1>1, <1>2, <1>3, <3>1 DEF Blank, Is
    <3>2. CASE EndOfText
      <4>1. at = N + 1 /\ at \notin DOMAIN text
        BY <1>1, <3>2 DEF EndOfText
      <4> QED BY <1>1, <1>3, <3>2, <4>1 DEF EndOfText
    <3> QED BY <1>6, <3>1, <3>2
  <2>2. (chunks \in Seq(GoodChunks))' /\ BufferOK' /\ Gathered' = Gathered
    BY <1>3, <2>1, FlushKeeps DEF Gathered
  <2>3. PathOK'
    BY <1>1, <2>1, NoHeadingRead
  <2>4. ReadOK'
    BY <1>1, <2>1, <2>2, NothingRead
  <2> QED BY <1>4, <2>1, <2>2, <2>3, <2>4 DEF ChunkInv
<1>7. CASE TextLine
  <2>1. /\ at \in 1..N /\ text[at].kind = "text" /\ at <= N + 1
        /\ path' = path /\ at' = at + 1 /\ text' = text
    BY <1>1, <1>2, <1>7 DEF TextLine, Is
  <2>2. (chunks \in Seq(GoodChunks))' /\ BufferOK' /\ ReadOK'
    BY <1>7, TextLineRead
  <2>3. PathOK'
    BY <1>1, <2>1, NoHeadingRead
  <2> QED BY <1>4, <2>1, <2>2, <2>3 DEF ChunkInv
<1>8. CASE Search \/ UNCHANGED vars
  <2>1. /\ text' = text /\ at' = at /\ path' = path /\ buffer' = buffer /\ chunks' = chunks
    BY <1>8 DEF Search, vars
  <2>2. /\ GoodChunks' = GoodChunks /\ Buffers' = Buffers
        /\ WellNested' <=> WellNested
    BY <2>1, SameText
  <2>3. PathOK'
    <3>1. Over(at)' = Over(at) /\ Listed(path)' = Listed(path)
      BY <2>1 DEF Over, Listed
    <3> QED BY <1>2, <2>1, <2>2, <3>1 DEF PathOK
  <2>4. BufferOK'
    BY <1>2, <2>1, <2>2 DEF BufferOK
  <2>5. ReadOK'
    <3>1. PICK A : Readings(A) /\ Gathered = IdsOf(A[LinesRead])
      BY <1>2 DEF ReadOK
    <3>2. Gathered' = Gathered /\ LinesRead' = LinesRead
      BY <2>1 DEF Gathered, LinesRead, IdsOf
    <3>3. (Gathered = IdsOf(A[LinesRead]))'
      BY <3>1, <3>2 DEF IdsOf
    <3>4. Readings(A)'
      BY <2>1, <3>1, SameReadings
    <3> QED BY <3>3, <3>4 DEF ReadOK
  <2>6. (text \in Texts /\ at \in 1..(Len(text) + 2) /\ chunks \in Seq(GoodChunks))'
    BY <1>1, <1>2, <2>1, <2>2
  <2> QED BY <2>3, <2>4, <2>5, <2>6 DEF ChunkInv
<1> QED BY <1>5, <1>6, <1>7, <1>8 DEF Next

-----------------------------------------------------------------------------
(* What the invariant gives.                                               *)
LEMMA ChunkInvTypes == ChunkInv /\ SearchInv => PolicyTypeOK
<1> SUFFICES ASSUME ChunkInv, SearchInv PROVE PolicyTypeOK
  OBVIOUS
<1>1. \A i \in DOMAIN path : text[path[i]].kind = "heading"
  BY DEF ChunkInv, PathOK
<1>2. buffer.length \in 0..(MaxChars - 1)
  <2>1. buffer.length \in Nat /\ buffer.length < MaxChars
    BY DEF ChunkInv, BufferOK, Buffers
  <2> QED BY <2>1, SizesAssumption
<1>3. ASSUME NEW i \in DOMAIN chunks PROVE chunks[i].length \in Nat \ {0}
  <2>1. chunks[i] \in GoodChunks
    BY LenProperties, ElementOfSeq DEF ChunkInv
  <2> QED BY <2>1 DEF GoodChunks, Cut
<1>4. found.selected \subseteq found.kept
  BY DEF SearchInv, WellSearched
<1> QED BY <1>1, <1>2, <1>3, <1>4 DEF PolicyTypeOK, ChunkInv

(* At the end nothing waits in the buffer, so the chunks are the text.      *)
LEMMA AllTextIsChunked == ChunkInv => NoPolicyTextIsLost
<1> SUFFICES ASSUME ChunkInv, Chunked
             PROVE  /\ Flat(chunks) = IdsOf(AllSentences)
                    /\ WellNested => \A c \in Listed(chunks) : \A i \in DOMAIN c.ids :
                                       Listed(c.path) = Over(c.ids[i][1])
  BY DEF NoPolicyTextIsLost, Flat, IdsOf
<1>1. PICK A : Readings(A) /\ Gathered = IdsOf(A[LinesRead])
  BY DEF ChunkInv, ReadOK
<1>2. LinesRead = Len(text) /\ buffer.sentences = <<>> /\ chunks \in Seq(GoodChunks)
  BY DEF Chunked, LinesRead, ChunkInv, BufferOK
<1>3. Gathered = Flat(chunks)
  <2>1. \A c \in GoodChunks : c.ids \in Seq(Id)
    BY DEF GoodChunks, Chunk
  <2>2. Flat(chunks) \in Seq(Id)
    BY <1>2, <2>1, FlatType
  <2>3. Gathered = Flat(chunks) \o <<>>
    BY <1>2 DEF Gathered, IdsOf
  <2> QED BY <2>2, <2>3, ConcatEmptySeq
<1>4. A[LinesRead] = AllSentences
  BY <1>1, <1>2 DEF Readings
<1>5. ASSUME WellNested, NEW c \in Listed(chunks), NEW i \in DOMAIN c.ids
      PROVE  Listed(c.path) = Over(c.ids[i][1])
  <2>1. c \in GoodChunks
    BY <1>2, LenProperties, ElementOfSeq DEF Listed
  <2>2. PICK x : x = <<c.path, c.ids[i]>>
    OBVIOUS
  <2>3. x \in Standings /\ x[1] = c.path /\ x[2] = c.ids[i]
    BY <2>1, <2>2 DEF GoodChunks
  <2> QED BY <1>5, <2>3 DEF Standings
<1> QED BY <1>1, <1>3, <1>4, <1>5

(* The lengths of finitely many sentences have a greatest one.              *)
NoneLonger(all, n, b) == \A j \in 1..n : all[j].length <= b

(* The length of the longest of some sentences bounds that of each.         *)
LEMMA LongestBounds ==
    ASSUME NEW all \in Seq(Sentence), NEW K \in SUBSET (DOMAIN all), NEW k \in K
    PROVE  /\ Max({s.length : s \in {all[j] : j \in K}}) \in Nat
           /\ all[k].length <= Max({s.length : s \in {all[j] : j \in K}})
<1>1. PICK L \in Nat : L = Len(all) /\ DOMAIN all = 1..L
  BY LenProperties
<1>2. ASSUME NEW j \in 1..L PROVE all[j].length \in Nat \ {0}
  <2>1. all[j] \in Sentence
    BY <1>1, ElementOfSeq
  <2> QED BY <2>1 DEF Sentence
<1> DEFINE T == {n \in 0..L : \E b \in Nat : NoneLonger(all, n, b)}
<1>3. 0 \in T
  <2>1. NoneLonger(all, 0, 0)
    BY DEF NoneLonger
  <2> QED BY <2>1
<1>4. ASSUME NEW n \in 0..(L - 1), n \in T PROVE n + 1 \in T
  <2>1. PICK b \in Nat : NoneLonger(all, n, b)
    BY <1>4
  <2>2. n + 1 \in 1..L
    OBVIOUS
  <2>3. PICK d \in Nat : d = b + all[n + 1].length
    BY <1>2, <2>2
  <2>4. ASSUME NEW j \in 1..(n + 1) PROVE all[j].length <= d
    <3>1. all[j].length \in Nat /\ all[n + 1].length \in Nat
      BY <1>2, <2>2
    <3>2. j = n + 1 \/ all[j].length <= b
      BY <2>1 DEF NoneLonger
    <3> QED BY <2>3, <3>1, <3>2
  <2>5. NoneLonger(all, n + 1, d) /\ n + 1 \in 0..L
    BY <2>4 DEF NoneLonger
  <2> QED BY <2>5
<1>5. \A n \in 0..L : n \in T
  <2> HIDE DEF T
  <2> QED BY <1>3, <1>4, UpTo
<1>6. PICK b \in Nat : NoneLonger(all, L, b)
  <2>1. L \in 0..L
    OBVIOUS
  <2>2. L \in T
    <3> HIDE DEF T
    <3> QED BY <1>5, <2>1
  <2> QED BY <2>2
<1>7. PICK S : S = {s.length : s \in {all[j] : j \in K}}
  OBVIOUS
<1>8. S \in SUBSET (1..b) /\ all[k].length \in S
  <2>1. ASSUME NEW j \in K PROVE all[j].length \in 1..b
    <3>1. j \in 1..L
      BY <1>1
    <3> QED BY <1>2, <1>6, <3>1 DEF NoneLonger
  <2> QED BY <1>7, <2>1
<1>9. Max(S) \in S /\ \A y \in S : y <= Max(S)
  <2>1. S # {}
    BY <1>8
  <2> QED BY <1>8, <2>1, GreatestUpTo
<1>10. Max(S) \in Nat /\ all[k].length <= Max(S)
  <2>1. PICK top : top = Max(S)
    OBVIOUS
  <2>2. top \in S /\ all[k].length <= top
    BY <1>8, <1>9, <2>1, Zenon
  <2>3. top \in 1..b
    BY <1>8, <2>2
  <2> QED BY <2>1, <2>2, <2>3
<1> QED BY <1>7, <1>10, Zenon

(* The bound of a chunk, in terms of the longest sentence in it.            *)
LEMMA GoodChunksAreBounded == ChunkInv => ChunksAreBounded
<1> SUFFICES ASSUME ChunkInv, NEW i \in DOMAIN chunks,
                    NEW longest,
                    longest = Max({s.length : s \in {AllSentences[j] : j \in
                                {k \in DOMAIN AllSentences :
                                   AllSentences[k].id \in Listed(chunks[i].ids)}}})
             PROVE  /\ chunks[i].ids # <<>>
                    /\ chunks[i].length <= Overlap + Max({MaxChars, longest})
  BY DEF ChunksAreBounded
<1>1. PICK c \in GoodChunks : c = chunks[i]
  BY LenProperties, ElementOfSeq DEF ChunkInv
<1>2. c \in Chunk /\ Cut(c, Real)
  BY DEF GoodChunks
<1>3. AllSentences \in Seq(Real) /\ AllSentences \in Seq(Sentence)
  <2>1. PICK A : Readings(A)
    BY ReadingsExist DEF ChunkInv
  <2>2. Len(text) \in 0..Len(text)
    BY TextIsLines DEF ChunkInv
  <2> QED BY <2>1, <2>2, RealSequences DEF Readings
<1>4. PICK K : K = {k \in DOMAIN AllSentences : AllSentences[k].id \in Listed(c.ids)}
  OBVIOUS
<1>5. longest = Max({s.length : s \in {AllSentences[j] : j \in K}})
  BY <1>1, <1>4
<1>6. ASSUME NEW s \in Real, s.id \in Listed(c.ids)
      PROVE  longest \in Nat /\ s.length <= longest
  <2>1. PICK k \in DOMAIN AllSentences : AllSentences[k] = s
    BY AllAreThere DEF ChunkInv, Within
  <2>2. k \in K /\ K \in SUBSET (DOMAIN AllSentences)
    BY <1>4, <1>6, <2>1
  <2> QED BY <1>3, <1>5, <2>1, <2>2, LongestBounds
<1>7. longest \in Nat
  <2>1. 1 \in DOMAIN c.ids
    BY <1>2, EmptySeq, LenProperties DEF Cut
  <2>2. PICK s \in Real : s.id = c.ids[1]
    BY <1>2, <2>1 DEF Cut
  <2>3. s.id \in Listed(c.ids)
    BY <2>1, <2>2 DEF Listed
  <2> QED BY <1>6, <2>3
<1>8. MaxChars \in Nat /\ Overlap \in Nat
  BY SizesAssumption
<1>9. PICK most : most = Max({MaxChars, longest})
  OBVIOUS
<1>10. most \in Nat /\ MaxChars <= most /\ longest <= most
  BY <1>7, <1>8, <1>9, GreaterOfTwo
<1>11. c.length \in Nat
  BY <1>2 DEF Cut
<1>12. CASE c.length <= Overlap + MaxChars
  BY <1>1, <1>2, <1>8, <1>9, <1>10, <1>11, <1>12 DEF Cut
<1>13. CASE \E s \in Real : s.id \in Listed(c.ids) /\ c.length <= Overlap + s.length
  <2>1. PICK s \in Real : s.id \in Listed(c.ids) /\ c.length <= Overlap + s.length
    BY <1>13
  <2>2. s.length \in Nat
    BY DEF Real, Sentence
  <2>3. s.length <= longest
    BY <1>6, <2>1
  <2>4. c.length <= Overlap + most
    BY <1>8, <1>10, <1>11, <2>1, <2>2, <2>3, <1>7
  <2> QED BY <1>1, <1>2, <1>9, <2>4 DEF Cut
<1> QED BY <1>2, <1>12, <1>13 DEF Cut
-----------------------------------------------------------------------------
(* ChunkInv and SearchInv are invariants.                                   *)
LEMMA PolicyInvariant == Spec => [](ChunkInv /\ SearchInv)
<1>1. Init => ChunkInv /\ SearchInv
  BY InitChunks, InitSearch
<1>2. ChunkInv /\ SearchInv /\ [Next]_vars => (ChunkInv /\ SearchInv)'
  <2> SUFFICES ASSUME ChunkInv, SearchInv, [Next]_vars PROVE ChunkInv' /\ SearchInv'
    OBVIOUS
  <2>1. chunks # <<>> => Len(chunks) \in Nat \ {0}
    BY EmptySeq DEF ChunkInv
  <2> QED BY <2>1, NextKeepsChunks, NextKeepsSearch
<1> QED BY <1>1, <1>2, PTL DEF Spec

(* Type correctness: section_path has headings only, what waits in the      *)
(* buffer is shorter than MAX_CHUNK_CHARS, no chunk is empty, and what is   *)
(* selected was put to the reranker.                                        *)
THEOREM PolicyTypes == Spec => []PolicyTypeOK
<1>1. ChunkInv /\ SearchInv => PolicyTypeOK
  BY ChunkInvTypes
<1> QED BY <1>1, PolicyInvariant, PTL

(* chunk_policy loses no sentence, repeats none and keeps their order, over *)
(* all flushes and splits, and puts each under the headings it stands under *)
(* in a text that skips no level.                                           *)
THEOREM PolicyTextIsChunked == Spec => []NoPolicyTextIsLost
<1>1. ChunkInv => NoPolicyTextIsLost
  BY AllTextIsChunked
<1> QED BY <1>1, PolicyInvariant, PTL

(* No chunk is longer than the overlap and the limit, or than the overlap   *)
(* and its longest sentence; every chunk has a sentence of its own.         *)
THEOREM PolicyChunksAreBounded == Spec => []ChunksAreBounded
<1>1. ChunkInv => ChunksAreBounded
  BY GoodChunksAreBounded
<1> QED BY <1>1, PolicyInvariant, PTL

(* With the constant of the fusion and the depths of the program, of which  *)
(* 30 < 60 + 2, a chunk that both retrievers list comes before every chunk  *)
(* that one of them lists.                                                  *)
THEOREM FusionPrefersAgreement ==
    ASSUME Depth < RrfK + 2
    PROVE  Spec => []AgreementWins
<1>1. SearchInv => AgreementWins
  BY SearchAgrees
<1> QED BY <1>1, PolicyInvariant, PTL

(* A chunk that both retrievers rank before another is fused before it.     *)
THEOREM FusionKeepsRankings == Spec => []FusionFollowsRankings
<1>1. SearchInv => FusionFollowsRankings
  BY SearchFollows
<1> QED BY <1>1, PolicyInvariant, PTL
=============================================================================
