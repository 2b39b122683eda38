-------------------------- MODULE EvaluationProofs --------------------------
(***************************************************************************)
(* Proofs about evaluation: what one case scores, and at the end of the    *)
(* module what a comparison of runs concludes from many.                   *)
(*                                                                         *)
(* Scoring is proved for every set of Golds, every evidence set the        *)
(* contract admits, every list an adapter shows and every set of cutoffs.  *)
(* The inductive invariant CaseOfResult says that a completed case is what *)
(* its result scores; the three properties are then facts about metrics:   *)
(* the best path is complete exactly when one is (BestOfComplete), a path  *)
(* is complete at k exactly when its last rank is within k (PathAtCutoff), *)
(* and a difference from a whole recall has the sign of what the other one *)
(* misses (DifferenceIs).                                                  *)
(*                                                                         *)
(* BestBy chooses a path.  That there is one to choose is proved from the  *)
(* order of the paths (FirstOfAll), by induction over their number: the    *)
(* natural numbers are well founded, so a set of them has a least one.     *)
(***************************************************************************)
EXTENDS CaseScoring, RunComparison,
        FiniteSetTheorems, SequenceTheorems, WellFoundedInduction, TLAPS

-----------------------------------------------------------------------------
(* Induction over numbers, in the form of sets. *)

(* A set of numbers has a least one. *)
LEMMA LeastNumber ==
    ASSUME NEW S \in SUBSET Nat, S # {}
    PROVE  \E n \in S : \A m \in S : n <= m
<1>. DEFINE R == {ss \in Nat \X Nat : ss[1] < ss[2]}
<1>1. IsWellFoundedOn(R, Nat)
  BY NatLessThanWellFounded DEF OpToRel
<1>. HIDE DEF R
<1>2. PICK n \in S : \A m \in S : <<m, n>> \notin R
  BY <1>1, WFMin
<1>3. \A m \in S : ~ (m < n)
  BY <1>2 DEF R
<1>. QED
  BY <1>2, <1>3

(* A set that holds 0, and with a number the next, holds all numbers. *)
LEMMA SetInduction ==
    ASSUME NEW S, 0 \in S, \A n \in Nat : n \in S => n + 1 \in S
    PROVE  Nat \subseteq S
<1>1. SUFFICES ASSUME Nat \ S # {} PROVE FALSE
  OBVIOUS
<1>2. PICK n \in Nat \ S : \A m \in Nat \ S : n <= m
  BY <1>1, LeastNumber
<1>3. n # 0 /\ n - 1 \in Nat /\ n - 1 \in S
  BY <1>2
<1>. QED
  BY <1>2, <1>3

(* Min of a set of numbers, for whatever reason it is not empty. *)
LEMMA MinIs ==
    ASSUME NEW S \in SUBSET Nat, S # {}
    PROVE  Min(S) \in S /\ \A m \in S : Min(S) <= m
BY LeastNumber DEF Min

(* Max of a bounded set of numbers. *)
LEMMA MaxIs ==
    ASSUME NEW S \in SUBSET Nat, S # {}, NEW b \in Nat, \A m \in S : m <= b
    PROVE  Max(S) \in S /\ \A m \in S : m <= Max(S)
<1>. DEFINE U == {u \in Nat : \A m \in S : m <= u}
<1>1. PICK u \in U : \A v \in U : u <= v
  BY LeastNumber
<1>2. u \in S
  <2>1. SUFFICES ASSUME u \notin S PROVE FALSE
    OBVIOUS
  <2>2. \A m \in S : m <= u - 1
    BY <1>1, <2>1
  <2>3. PICK m \in S : m <= u - 1
    BY <2>2
  <2>4. u - 1 \in Nat
    BY <1>1, <2>3
  <2>. QED
    BY <1>1, <2>2, <2>4
<1>3. u \in S /\ \A m \in S : u >= m
  BY <1>1, <1>2
<1>4. Max(S) \in S /\ \A m \in S : Max(S) >= m
  BY <1>3 DEF Max
<1>. QED
  BY <1>4

(* Finitely many numbers are bounded. *)
LEMMA Bounded ==
    ASSUME NEW n \in Nat, NEW f, \A i \in 1 .. n : f[i] \in Nat
    PROVE  \E b \in Nat : \A i \in 1 .. n : f[i] <= b
<1>. DEFINE S == {m \in Nat : \E b \in Nat : \A i \in 1 .. m : i <= n => f[i] <= b}
<1>1. 0 \in S
  OBVIOUS
<1>2. ASSUME NEW m \in Nat, m \in S PROVE m + 1 \in S
  <2>1. PICK b \in Nat : \A i \in 1 .. m : i <= n => f[i] <= b
    BY <1>2
  <2>2. CASE m + 1 <= n
    <3>1. f[m + 1] \in Nat
      BY <2>2
    <3>2. b + f[m + 1] \in Nat /\ \A i \in 1 .. (m + 1) : i <= n => f[i] <= b + f[m + 1]
      BY <2>1, <3>1
    <3>. QED
      BY <3>2
  <2>3. CASE ~ (m + 1 <= n)
    BY <2>1, <2>3
  <2>. QED
    BY <2>2, <2>3
<1>. HIDE DEF S
<1>3. n \in S
  BY <1>1, <1>2, SetInduction
<1>. QED
  BY <1>3 DEF S

(* A relation between numbers that orders them, some of them as equals, has *)
(* a first one that nothing precedes, and that precedes those before it.   *)
LEMMA FirstOfAll ==
    ASSUME NEW n \in Nat \ {0}, NEW R,
           \A i, j \in 1 .. n : <<i, j>> \in R => <<j, i>> \notin R,
           \A i, j, k \in 1 .. n : <<i, j>> \in R => <<i, k>> \in R \/ <<k, j>> \in R
    PROVE  \E i \in 1 .. n : /\ \A j \in 1 .. n : <<j, i>> \notin R
                             /\ \A j \in 1 .. (i - 1) : <<i, j>> \in R
<1>. DEFINE S == {m \in Nat : m = 0 \/ m > n \/ \E i \in 1 .. m : \A j \in 1 .. m : <<j, i>> \notin R}
<1>1. 0 \in S
  OBVIOUS
<1>2. ASSUME NEW m \in Nat, m \in S PROVE m + 1 \in S
  <2>1. CASE m = 0
    BY <2>1
  <2>2. CASE m + 1 > n
    BY <2>2
  <2>3. CASE m # 0 /\ ~ (m + 1 > n)
    <3>1. PICK i \in 1 .. m : \A j \in 1 .. m : <<j, i>> \notin R
      BY <1>2, <2>3
    <3>2. i \in 1 .. n /\ m + 1 \in 1 .. n /\ \A j \in 1 .. m : j \in 1 .. n
      BY <2>3, <3>1
    <3>3. CASE <<m + 1, i>> \notin R
      <4>1. \A j \in 1 .. (m + 1) : <<j, i>> \notin R
        BY <3>1, <3>3
      <4>. QED
        BY <3>1, <4>1
    <3>4. CASE <<m + 1, i>> \in R
      <4>1. \A j \in 1 .. m : <<j, m + 1>> \notin R
        BY <3>1, <3>2, <3>4
      <4>2. \A j \in 1 .. (m + 1) : <<j, m + 1>> \notin R
        BY <3>2, <4>1
      <4>. QED
        BY <4>2
    <3>. QED
      BY <3>3, <3>4
  <2>. QED
    BY <2>1, <2>2, <2>3
<1>3. n \in S
  <2>. HIDE DEF S
  <2>. QED
    BY <1>1, <1>2, SetInduction
<1>. DEFINE T == {i \in 1 .. n : \A j \in 1 .. n : <<j, i>> \notin R}
<1>4. T # {} /\ T \subseteq Nat
  BY <1>3
<1>5. PICK i \in T : \A j \in T : i <= j
  <2>. HIDE DEF T
  <2>. QED
    BY <1>4, LeastNumber
<1>6. ASSUME NEW j \in 1 .. (i - 1) PROVE <<i, j>> \in R
  <2>1. j \in 1 .. n /\ j \notin T
    BY <1>5
  <2>2. PICK k \in 1 .. n : <<k, j>> \in R
    BY <2>1
  <2>. QED
    BY <1>5, <2>1, <2>2
<1>. QED
  BY <1>5, <1>6

-----------------------------------------------------------------------------
(* Shares of hit clauses, compared by cross multiplication. *)

LEMMA TimesMonotone ==
    ASSUME NEW a \in Nat, NEW b \in Nat, NEW c \in Nat, a <= b
    PROVE  a * c <= b * c /\ c * a <= c * b
OBVIOUS

LEMMA TimesCancels ==
    ASSUME NEW a \in Nat, NEW b \in Nat, NEW c \in Nat \ {0}
    PROVE  /\ a * c <= b * c => a <= b
           /\ a * c = b * c => a = b
           /\ c * a = c * b => a = b
OBVIOUS

LEMMA TimesShuffle ==
    ASSUME NEW a \in Int, NEW b \in Int, NEW c \in Int
    PROVE  a * b \in Int /\ a * b = b * a /\ (a * b) * c = (a * c) * b
OBVIOUS

(* The order of shares is transitive, and two shares that differ from a     *)
(* third by nothing do not differ.                                          *)
LEMMA SharesOrdered ==
    ASSUME NEW a \in Nat, NEW b \in Nat, NEW c \in Nat,
           NEW la \in Nat \ {0}, NEW lb \in Nat \ {0}, NEW lc \in Nat \ {0},
           a * lb <= b * la, b * lc <= c * lb
    PROVE  /\ a * lc <= c * la
           /\ a * lc = c * la => a * lb = b * la /\ b * lc = c * lb
<1>1. /\ a * lb \in Nat /\ b * la \in Nat /\ b * lc \in Nat /\ c * lb \in Nat
      /\ a * lc \in Nat /\ c * la \in Nat
  OBVIOUS
<1>2. (a * lb) * lc <= (b * la) * lc
  BY <1>1, TimesMonotone
<1>3. (b * lc) * la <= (c * lb) * la
  BY <1>1, TimesMonotone
<1>4. /\ (a * lb) * lc = (a * lc) * lb
      /\ (b * la) * lc = (b * lc) * la
      /\ (c * lb) * la = (c * la) * lb
  BY TimesShuffle
<1>5. (a * lc) * lb <= (c * la) * lb
  <2>1. /\ (a * lb) * lc \in Int /\ (b * la) * lc \in Int /\ (c * lb) * la \in Int
    BY <1>1
  <2>. QED
    BY <1>2, <1>3, <1>4, <2>1
<1>6. a * lc <= c * la
  BY <1>1, <1>5, TimesCancels
<1>7. ASSUME a * lc = c * la PROVE a * lb = b * la /\ b * lc = c * lb
  <2>1. (a * lc) * lb = (c * la) * lb
    BY <1>7
  <2>2. (a * lb) * lc = (b * la) * lc /\ (b * lc) * la = (c * lb) * la
    <3>1. /\ (a * lb) * lc \in Int /\ (b * la) * lc \in Int /\ (c * lb) * la \in Int
      BY <1>1
    <3>. QED
      BY <1>2, <1>3, <1>4, <2>1, <3>1
  <2>. QED
    BY <1>1, <2>2, TimesCancels
<1>. QED
  BY <1>6, <1>7

-----------------------------------------------------------------------------
(* One path of an evidence set. *)

Ranked(loc) == \A g \in Golds : loc[g].status = "matched" => loc[g].rank \in Nat \ {0}

PathSet == Seq((SUBSET Golds) \ {{}}) \ {<<>>}

Finder(loc, clause) == {h \in clause : loc[h].status = "matched"}

(* The rank of a clause is the best one of its alternatives that matches. *)
LEMMA ClauseRankIs ==
    ASSUME NEW loc, Ranked(loc), NEW clause \in SUBSET Golds
    PROVE  /\ ClauseRank(loc, clause) \in Nat
           /\ ClauseRank(loc, clause) # 0 <=> Finder(loc, clause) # {}
           /\ \A g \in Finder(loc, clause) : ClauseRank(loc, clause) <= loc[g].rank
           /\ ClauseRank(loc, clause) # 0 =>
                \E g \in Finder(loc, clause) : ClauseRank(loc, clause) = loc[g].rank
<1>. DEFINE ranks == {loc[g].rank : g \in Finder(loc, clause)}
<1>1. ranks \subseteq Nat \ {0}
  BY DEF Ranked, Finder
<1>2. ClauseRank(loc, clause) = IF ranks = {} THEN 0 ELSE Min(ranks)
  BY DEF ClauseRank, Finder
<1>3. ranks = {} <=> Finder(loc, clause) = {}
  OBVIOUS
<1>4. ASSUME ranks # {} PROVE Min(ranks) \in ranks /\ \A m \in ranks : Min(ranks) <= m
  <2>. HIDE DEF ranks
  <2>. QED
    BY <1>1, <1>4, MinIs
<1>5. CASE ranks = {}
  BY <1>2, <1>3, <1>5
<1>6. CASE ranks # {}
  BY <1>1, <1>2, <1>3, <1>4, <1>6
<1>. QED
  BY <1>5, <1>6

(* The clauses a path hits are some of its clauses, and all of them exactly *)
(* when it is complete.                                                     *)
LEMMA HitsCounted ==
    ASSUME NEW loc, NEW path \in PathSet
    PROVE  /\ Len(path) \in Nat \ {0}
           /\ DOMAIN path = 1 .. Len(path)
           /\ HitClauses(loc, path) \subseteq 1 .. Len(path)
           /\ IsFiniteSet(HitClauses(loc, path))
           /\ Cardinality(HitClauses(loc, path)) \in Nat
           /\ Cardinality(HitClauses(loc, path)) <= Len(path)
           /\ Cardinality(HitClauses(loc, path)) = Len(path) <=> IsComplete(loc, path)
<1>1. Len(path) \in Nat \ {0} /\ DOMAIN path = 1 .. Len(path)
  BY EmptySeq DEF PathSet
<1>2. HitClauses(loc, path) \subseteq 1 .. Len(path)
  BY <1>1 DEF HitClauses
<1>3. IsFiniteSet(1 .. Len(path)) /\ Cardinality(1 .. Len(path)) = Len(path)
  BY <1>1, FS_Interval
<1>4. /\ IsFiniteSet(HitClauses(loc, path))
      /\ Cardinality(HitClauses(loc, path)) <= Len(path)
      /\ Cardinality(HitClauses(loc, path)) = Len(path) => HitClauses(loc, path) = 1 .. Len(path)
  BY <1>2, <1>3, FS_Subset
<1>5. Cardinality(HitClauses(loc, path)) \in Nat
  BY <1>4, FS_CardinalityType
<1>. QED
  BY <1>1, <1>2, <1>3, <1>4, <1>5 DEF IsComplete

(* A clause of a path. *)
LEMMA ClauseOfPath ==
    ASSUME NEW path \in PathSet, NEW i \in 1 .. Len(path)
    PROVE  path[i] \in SUBSET Golds /\ path[i] # {}
<1>1. path \in Seq((SUBSET Golds) \ {{}})
  BY DEF PathSet
<1>2. path[i] \in (SUBSET Golds) \ {{}}
  BY <1>1
<1>. QED
  BY <1>2

(* The last rank of a path is the rank of one of its clauses, and not       *)
(* before that of any other.                                                *)
LEMMA LastRankIs ==
    ASSUME NEW loc, Ranked(loc), NEW path \in PathSet
    PROVE  /\ LastRank(loc, path) \in Nat
           /\ \A i \in HitClauses(loc, path) : ClauseRank(loc, path[i]) <= LastRank(loc, path)
           /\ HitClauses(loc, path) # {} =>
                \E i \in HitClauses(loc, path) : LastRank(loc, path) = ClauseRank(loc, path[i])
           /\ IsComplete(loc, path) => LastRank(loc, path) # 0
<1>. DEFINE H == HitClauses(loc, path)
            f == [i \in 1 .. Len(path) |-> ClauseRank(loc, path[i])]
            ranks == {ClauseRank(loc, path[i]) : i \in H}
<1>1. Len(path) \in Nat \ {0} /\ H \subseteq 1 .. Len(path) /\ DOMAIN path = 1 .. Len(path)
  BY HitsCounted
<1>2. \A i \in 1 .. Len(path) : ClauseRank(loc, path[i]) \in Nat
  BY ClauseOfPath, ClauseRankIs
<1>3. PICK b \in Nat : \A i \in 1 .. Len(path) : f[i] <= b
  <2>1. \A i \in 1 .. Len(path) : f[i] \in Nat
    BY <1>2
  <2>. HIDE DEF f
  <2>. QED
    BY <1>1, <2>1, Bounded
<1>4. ranks \in SUBSET Nat /\ \A m \in ranks : m <= b
  BY <1>1, <1>2, <1>3
<1>5. ranks # {} => Max(ranks) \in ranks /\ \A m \in ranks : m <= Max(ranks)
  <2>. HIDE DEF ranks
  <2>. QED
    BY <1>4, MaxIs
<1>6. LastRank(loc, path) = IF ranks = {} THEN 0 ELSE Max(ranks)
  BY DEF LastRank
<1>7. H = {} <=> ranks = {}
  OBVIOUS
<1>8. \A i \in H : ClauseRank(loc, path[i]) \in ranks
  OBVIOUS
<1>9. \A m \in ranks : \E i \in H : m = ClauseRank(loc, path[i])
  OBVIOUS
<1>10. IsComplete(loc, path) => H # {}
  BY <1>1 DEF IsComplete
<1>11. \A i \in H : ClauseRank(loc, path[i]) # 0
  BY DEF HitClauses
<1>12. CASE ranks = {}
  BY <1>6, <1>7, <1>10, <1>12
<1>13. CASE ranks # {}
  <2>1. LastRank(loc, path) \in ranks /\ \A m \in ranks : m <= LastRank(loc, path)
    BY <1>5, <1>6, <1>13
  <2>. HIDE DEF ranks
  <2>. QED
    BY <1>4, <1>8, <1>9, <1>11, <2>1
<1>. QED
  BY <1>12, <1>13

-----------------------------------------------------------------------------
(* The best path of an evidence set. *)

Ranking(rank) == \A i \in DOMAIN Paths : rank[Paths[i]] \in Nat

Hits(loc, path) == Cardinality(HitClauses(loc, path))

(* The evidence set has paths. *)
LEMMA PathsAre ==
    /\ Len(Paths) \in Nat \ {0} /\ DOMAIN Paths = 1 .. Len(Paths)
    /\ \A i \in 1 .. Len(Paths) : Paths[i] \in PathSet
    /\ \A i \in 1 .. Len(Paths) : Paths[i] \in ToSet(Paths)
<1>. DEFINE S == Seq((SUBSET Golds) \ {{}}) \ {<<>>}
<1>1. Paths \in Seq(S) /\ Paths # <<>>
  BY EvaluationAssumption
<1>. HIDE DEF S
<1>2. Len(Paths) \in Nat \ {0} /\ DOMAIN Paths = 1 .. Len(Paths)
  BY <1>1, EmptySeq
<1>3. \A i \in 1 .. Len(Paths) : Paths[i] \in S
  BY <1>1
<1>. QED
  BY <1>2, <1>3 DEF S, PathSet, ToSet

(* What it is to be better, in numbers. *)
LEMMA BetterIs ==
    ASSUME NEW loc, NEW p, NEW q, NEW rank
    PROVE  Better(loc, p, q, rank) <=>
             \/ Hits(loc, p) * Len(q) > Hits(loc, q) * Len(p)
             \/ /\ Hits(loc, p) * Len(q) = Hits(loc, q) * Len(p)
                /\ \/ rank[p] < rank[q]
                   \/ rank[p] = rank[q] /\ Len(p) < Len(q)
BY DEF Better, Hits

(* No two paths are better than each other. *)
LEMMA BetterIsOneWay ==
    ASSUME NEW loc, NEW rank, NEW p \in PathSet, NEW q \in PathSet,
           rank[p] \in Nat, rank[q] \in Nat, Better(loc, p, q, rank)
    PROVE  ~ Better(loc, q, p, rank)
<1>1. /\ Len(p) \in Nat /\ Len(q) \in Nat
      /\ Hits(loc, p) \in Nat /\ Hits(loc, q) \in Nat
  BY HitsCounted DEF Hits
<1>. DEFINE left  == Hits(loc, p) * Len(q)
            right == Hits(loc, q) * Len(p)
<1>2. left \in Nat /\ right \in Nat
  BY <1>1
<1>3. \/ left > right
      \/ /\ left = right
         /\ \/ rank[p] < rank[q]
            \/ rank[p] = rank[q] /\ Len(p) < Len(q)
  BY BetterIs
<1>4. Better(loc, q, p, rank) <=>
        \/ right > left
        \/ /\ right = left
           /\ \/ rank[q] < rank[p]
              \/ rank[q] = rank[p] /\ Len(q) < Len(p)
  BY BetterIs
<1>. HIDE DEF left, right
<1>. QED
  BY <1>1, <1>2, <1>3, <1>4

(* A third path is worse than the better one or better than the worse one.  *)
LEMMA BetterSplits ==
    ASSUME NEW loc, NEW rank, NEW p \in PathSet, NEW q \in PathSet, NEW s \in PathSet,
           rank[p] \in Nat, rank[q] \in Nat, rank[s] \in Nat,
           ~ Better(loc, p, s, rank), ~ Better(loc, s, q, rank)
    PROVE  ~ Better(loc, p, q, rank)
<1>1. /\ Len(p) \in Nat \ {0} /\ Len(q) \in Nat \ {0} /\ Len(s) \in Nat \ {0}
      /\ Hits(loc, p) \in Nat /\ Hits(loc, q) \in Nat /\ Hits(loc, s) \in Nat
  BY HitsCounted DEF Hits
<1>. DEFINE hp == Hits(loc, p)
            hq == Hits(loc, q)
            hs == Hits(loc, s)
            lp == Len(p)
            lq == Len(q)
            ls == Len(s)
<1>2. /\ hp * ls \in Nat /\ hs * lp \in Nat /\ hs * lq \in Nat /\ hq * ls \in Nat
      /\ hp * lq \in Nat /\ hq * lp \in Nat
  <2>1. \A a, b \in Nat : a * b \in Nat
    OBVIOUS
  <2>. QED
    BY <1>1, <2>1
<1>3. /\ ~ (hp * ls > hs * lp)
      /\ hp * ls = hs * lp => ~ (rank[p] < rank[s]) /\ ~ (rank[p] = rank[s] /\ lp < ls)
  BY BetterIs
<1>4. /\ ~ (hs * lq > hq * ls)
      /\ hs * lq = hq * ls => ~ (rank[s] < rank[q]) /\ ~ (rank[s] = rank[q] /\ ls < lq)
  BY BetterIs
<1>5. hp * ls <= hs * lp /\ hs * lq <= hq * ls
  <2>. HIDE DEF hp, hq, hs, lp, lq, ls
  <2>. QED
    BY <1>2, <1>3, <1>4
<1>6. /\ hp * lq <= hq * lp
      /\ hp * lq = hq * lp => hp * ls = hs * lp /\ hs * lq = hq * ls
  <2>. HIDE DEF hp, hq, hs, lp, lq, ls
  <2>1. /\ hp \in Nat /\ hq \in Nat /\ hs \in Nat
        /\ lp \in Nat \ {0} /\ lq \in Nat \ {0} /\ ls \in Nat \ {0}
    BY <1>1 DEF hp, hq, hs, lp, lq, ls
  <2>. QED
    BY <1>5, <2>1, SharesOrdered
<1>7. Better(loc, p, q, rank) <=>
         \/ hp * lq > hq * lp
         \/ /\ hp * lq = hq * lp
            /\ \/ rank[p] < rank[q]
               \/ rank[p] = rank[q] /\ lp < lq
  BY BetterIs
<1>8. lp \in Nat /\ lq \in Nat /\ ls \in Nat
  BY <1>1
<1>. HIDE DEF hp, hq, hs, lp, lq, ls
<1>. QED
  BY <1>2, <1>3, <1>4, <1>6, <1>7, <1>8

(* BestBy chooses a path that no other one beats. *)
LEMMA BestIs ==
    ASSUME NEW loc, NEW rank, Ranking(rank)
    PROVE  /\ BestBy(loc, Paths, rank) \in 1 .. Len(Paths)
           /\ \A j \in 1 .. Len(Paths) :
                 ~ Better(loc, Paths[j], Paths[BestBy(loc, Paths, rank)], rank)
<1>. DEFINE n == Len(Paths)
            R == {e \in (1 .. n) \X (1 .. n) : Better(loc, Paths[e[1]], Paths[e[2]], rank)}
<1>1. n \in Nat \ {0} /\ DOMAIN Paths = 1 .. n /\ \A i \in 1 .. n : Paths[i] \in PathSet
  BY PathsAre
<1>2. \A i \in 1 .. n : rank[Paths[i]] \in Nat
  BY <1>1 DEF Ranking
<1>3. \A i, j \in 1 .. n : <<i, j>> \in R <=> Better(loc, Paths[i], Paths[j], rank)
  OBVIOUS
<1>4. \A i, j \in 1 .. n : <<i, j>> \in R => <<j, i>> \notin R
  <2>. HIDE DEF R
  <2>. QED
    BY <1>1, <1>2, <1>3, BetterIsOneWay
<1>5. \A i, j, k \in 1 .. n : <<i, j>> \in R => <<i, k>> \in R \/ <<k, j>> \in R
  <2>. HIDE DEF R
  <2>. QED
    BY <1>1, <1>2, <1>3, BetterSplits
<1>6. PICK i \in 1 .. n : /\ \A j \in 1 .. n : <<j, i>> \notin R
                          /\ \A j \in 1 .. (i - 1) : <<i, j>> \in R
  <2>. HIDE DEF R, n
  <2>. QED
    BY <1>1, <1>4, <1>5, FirstOfAll
<1>7. /\ i \in DOMAIN Paths
      /\ \A j \in DOMAIN Paths : ~ Better(loc, Paths[j], Paths[i], rank)
      /\ \A j \in 1 .. (i - 1) : Better(loc, Paths[i], Paths[j], rank)
  <2>1. \A j \in 1 .. (i - 1) : j \in 1 .. n
    BY <1>1, <1>6
  <2>. HIDE DEF R
  <2>. QED
    BY <1>1, <1>3, <1>6, <2>1
<1>8. /\ BestBy(loc, Paths, rank) \in DOMAIN Paths
      /\ \A j \in DOMAIN Paths : ~ Better(loc, Paths[j], Paths[BestBy(loc, Paths, rank)], rank)
  <2>. HIDE DEF R, n
  <2>. QED
    BY <1>7 DEF BestBy
<1>. QED
  BY <1>1, <1>8

(* What a path that no other one beats says of a complete one. *)
LEMMA CompleteIsNotBeaten ==
    ASSUME NEW loc, NEW rank, NEW p \in PathSet, NEW q \in PathSet,
           rank[p] \in Nat, rank[q] \in Nat,
           IsComplete(loc, p), ~ Better(loc, p, q, rank)
    PROVE  IsComplete(loc, q) /\ rank[q] <= rank[p]
<1>. DEFINE lp == Len(p)
            lq == Len(q)
            hp == Hits(loc, p)
            hq == Hits(loc, q)
<1>1. /\ lp \in Nat \ {0} /\ lq \in Nat \ {0} /\ hp = lp /\ hq \in Nat /\ hq <= lq
      /\ hq = lq <=> IsComplete(loc, q)
  BY HitsCounted DEF Hits
<1>2. /\ ~ (hp * lq > hq * lp)
      /\ hp * lq = hq * lp => ~ (rank[p] < rank[q])
  BY BetterIs
<1>. HIDE DEF lp, lq, hp, hq
<1>3. lq <= hq
  <2>1. hp * lq = lq * lp
    BY <1>1, TimesShuffle
  <2>2. lq * lp \in Nat /\ hq * lp \in Nat
    BY <1>1
  <2>3. lq * lp <= hq * lp
    BY <1>2, <2>1, <2>2
  <2>. QED
    BY <1>1, <2>3, TimesCancels
<1>4. hq = lq
  BY <1>1, <1>3
<1>5. hp * lq = hq * lp
  BY <1>1, <1>4, TimesShuffle
<1>. QED
  BY <1>1, <1>2, <1>4, <1>5

(* The best path is complete exactly when one is, and comes first of those. *)
LEMMA BestOfComplete ==
    ASSUME NEW loc, NEW rank, Ranking(rank)
    PROVE  LET best == Paths[BestBy(loc, Paths, rank)]
           IN  /\ best \in PathSet /\ best \in ToSet(Paths)
               /\ IsComplete(loc, best) <=> CompletePath(loc, Paths)
               /\ \A i \in 1 .. Len(Paths) :
                     IsComplete(loc, Paths[i]) => rank[best] <= rank[Paths[i]]
<1>. DEFINE b == BestBy(loc, Paths, rank)
<1>1. b \in 1 .. Len(Paths) /\ \A j \in 1 .. Len(Paths) : ~ Better(loc, Paths[j], Paths[b], rank)
  BY BestIs
<1>2. /\ DOMAIN Paths = 1 .. Len(Paths)
      /\ \A i \in 1 .. Len(Paths) : Paths[i] \in PathSet /\ Paths[i] \in ToSet(Paths)
  BY PathsAre
<1>. HIDE DEF b
<1>3. \A i \in 1 .. Len(Paths) : rank[Paths[i]] \in Nat
  BY <1>2 DEF Ranking
<1>4. \A i \in 1 .. Len(Paths) : IsComplete(loc, Paths[i]) =>
          IsComplete(loc, Paths[b]) /\ rank[Paths[b]] <= rank[Paths[i]]
  BY <1>1, <1>2, <1>3, CompleteIsNotBeaten
<1>5. IsComplete(loc, Paths[b]) <=> CompletePath(loc, Paths)
  BY <1>1, <1>2, <1>4 DEF CompletePath
<1>. QED
  BY <1>1, <1>2, <1>4, <1>5 DEF b

(* The best path hits at least the share that any other one hits. *)
LEMMA BestShare ==
    ASSUME NEW loc, NEW rank, Ranking(rank), NEW i \in 1 .. Len(Paths)
    PROVE  LET best == Paths[BestBy(loc, Paths, rank)]
           IN  Hits(loc, Paths[i]) * Len(best) <= Hits(loc, best) * Len(Paths[i])
<1>. DEFINE b == BestBy(loc, Paths, rank)
            left  == Hits(loc, Paths[i]) * Len(Paths[b])
            right == Hits(loc, Paths[b]) * Len(Paths[i])
<1>1. b \in 1 .. Len(Paths) /\ ~ Better(loc, Paths[i], Paths[b], rank)
  BY BestIs
<1>2. Paths[b] \in PathSet /\ Paths[i] \in PathSet
  BY <1>1, PathsAre
<1>3. ~ (left > right)
  BY <1>1, BetterIs
<1>4. left \in Nat /\ right \in Nat
  <2>1. /\ Hits(loc, Paths[i]) \in Nat /\ Len(Paths[b]) \in Nat
        /\ Hits(loc, Paths[b]) \in Nat /\ Len(Paths[i]) \in Nat
    BY <1>2, HitsCounted DEF Hits
  <2>. QED
    BY <2>1
<1>5. left <= right
  <2>. HIDE DEF left, right
  <2>. QED
    BY <1>3, <1>4
<1>. QED
  BY <1>5

(* The two rankings the code breaks ties by. *)
LEMMA RankingsAre ==
    ASSUME NEW loc, Ranked(loc)
    PROVE  /\ Ranking([p \in ToSet(Paths) |-> LastRank(loc, p)])
           /\ Ranking([p \in ToSet(Paths) |-> CompletionRank(loc, p)])
<1>1. \A i \in DOMAIN Paths : Paths[i] \in PathSet /\ Paths[i] \in ToSet(Paths)
  BY PathsAre
<1>2. \A i \in DOMAIN Paths : LastRank(loc, Paths[i]) \in Nat
  BY <1>1, LastRankIs
<1>3. \A i \in DOMAIN Paths : CompletionRank(loc, Paths[i]) \in Nat
  BY <1>2 DEF CompletionRank
<1>. QED
  BY <1>1, <1>2, <1>3 DEF Ranking

-----------------------------------------------------------------------------
(* One list of segments, cut at a rank. *)

RankedItems(items) == \A i \in items : i.rank \in Nat \ {0}

(* A segment is matched at the best rank of the items that name it alone.   *)
LEMMA RankMapIs ==
    ASSUME NEW items, RankedItems(items), NEW g \in Golds
    PROVE  /\ RankMap(items)[g].status = "matched" <=> \E i \in items : i.segs = {g}
           /\ RankMap(items)[g].status = "matched" =>
                 /\ RankMap(items)[g].rank \in Nat \ {0}
                 /\ \E i \in items : i.segs = {g} /\ i.rank = RankMap(items)[g].rank
                 /\ \A i \in items : i.segs = {g} => RankMap(items)[g].rank <= i.rank
<1>. DEFINE ranks == {i.rank : i \in {j \in items : j.segs = {g}}}
<1>1. RankMap(items)[g] = IF ranks = {} THEN [status |-> "retrieval_missed", rank |-> 0]
                          ELSE [status |-> "matched", rank |-> Min(ranks)]
  BY DEF RankMap
<1>2. ranks \subseteq Nat \ {0}
  BY DEF RankedItems
<1>3. ranks # {} => Min(ranks) \in ranks /\ \A m \in ranks : Min(ranks) <= m
  <2>. HIDE DEF ranks
  <2>. QED
    BY <1>2, MinIs
<1>4. /\ ranks # {} <=> \E i \in items : i.segs = {g}
      /\ \A m \in ranks : \E i \in items : i.segs = {g} /\ i.rank = m
      /\ \A i \in items : i.segs = {g} => i.rank \in ranks
  OBVIOUS
<1>. HIDE DEF ranks
<1>5. CASE ranks = {}
  BY <1>1, <1>4, <1>5
<1>6. CASE ranks # {}
  <2>1. RankMap(items)[g].status = "matched" /\ RankMap(items)[g].rank = Min(ranks)
    BY <1>1, <1>6
  <2>. QED
    BY <1>2, <1>3, <1>4, <1>6, <2>1
<1>. QED
  BY <1>5, <1>6

(* The ranks of a rank map count from one. *)
LEMMA RankMapRanked ==
    ASSUME NEW items, RankedItems(items)
    PROVE  Ranked(RankMap(items))
BY RankMapIs DEF Ranked

(* A clause is hit at k exactly when its rank is within k. *)
LEMMA ClauseAtCutoff ==
    ASSUME NEW stage, RankedItems(stage.items), NEW k \in Nat, NEW clause \in SUBSET Golds
    PROVE  ClauseRank(RankMap(UpTo(stage, k)), clause) # 0
             <=> ClauseRank(RankMap(stage.items), clause) \in 1 .. k
<1>. DEFINE loc == RankMap(stage.items)
            cut == RankMap(UpTo(stage, k))
<1>1. RankedItems(UpTo(stage, k)) /\ \A i : i \in UpTo(stage, k) <=> i \in stage.items /\ i.rank <= k
  BY DEF RankedItems, UpTo
<1>2. Ranked(loc) /\ Ranked(cut)
  BY <1>1, RankMapRanked
<1>3. \A g \in clause : g \in Golds
  OBVIOUS
<1>4. ASSUME ClauseRank(cut, clause) # 0 PROVE ClauseRank(loc, clause) \in 1 .. k
  <2>1. PICK g \in Finder(cut, clause) : TRUE
    BY <1>2, <1>4, ClauseRankIs
  <2>2. g \in clause /\ cut[g].status = "matched"
    BY DEF Finder
  <2>3. PICK i \in UpTo(stage, k) : i.segs = {g}
    BY <1>1, <1>3, <2>2, RankMapIs
  <2>4. i \in stage.items /\ i.rank <= k /\ i.rank \in Nat
    BY <1>1, <2>3 DEF RankedItems
  <2>5. loc[g].status = "matched" /\ loc[g].rank <= i.rank /\ loc[g].rank \in Nat
    BY <1>3, <2>2, <2>3, <2>4, RankMapIs
  <2>6. g \in Finder(loc, clause)
    BY <2>2, <2>5 DEF Finder
  <2>7. ClauseRank(loc, clause) \in Nat /\ ClauseRank(loc, clause) # 0
        /\ ClauseRank(loc, clause) <= loc[g].rank
    BY <1>2, <2>6, ClauseRankIs
  <2>. HIDE DEF loc
  <2>. QED
    BY <2>4, <2>5, <2>7
<1>5. ASSUME ClauseRank(loc, clause) \in 1 .. k PROVE ClauseRank(cut, clause) # 0
  <2>1. PICK g \in Finder(loc, clause) : ClauseRank(loc, clause) = loc[g].rank
    BY <1>2, <1>5, ClauseRankIs
  <2>2. g \in clause /\ g \in Golds /\ loc[g].status = "matched"
    BY DEF Finder
  <2>3. PICK i \in stage.items : i.segs = {g} /\ i.rank = loc[g].rank
    BY <2>2, RankMapIs
  <2>4. i.rank <= k
    BY <1>5, <2>1, <2>3
  <2>5. i \in UpTo(stage, k)
    BY <1>1, <2>3, <2>4
  <2>6. cut[g].status = "matched"
    BY <1>1, <2>2, <2>3, <2>5, RankMapIs
  <2>7. g \in Finder(cut, clause)
    BY <2>2, <2>6 DEF Finder
  <2>. QED
    BY <1>2, <2>7, ClauseRankIs
<1>. QED
  BY <1>4, <1>5

(* A path is complete at k exactly when its last rank is within k. *)
LEMMA PathAtCutoff ==
    ASSUME NEW stage, RankedItems(stage.items), NEW k \in Nat, NEW path \in PathSet
    PROVE  IsComplete(RankMap(UpTo(stage, k)), path)
             <=> /\ IsComplete(RankMap(stage.items), path)
                 /\ LastRank(RankMap(stage.items), path) <= k
<1>. DEFINE loc == RankMap(stage.items)
            cut == RankMap(UpTo(stage, k))
<1>1. /\ Len(path) \in Nat \ {0} /\ DOMAIN path = 1 .. Len(path)
      /\ \A i \in 1 .. Len(path) : path[i] \in SUBSET Golds
  BY HitsCounted, ClauseOfPath
<1>2. Ranked(loc)
  BY RankMapRanked
<1>3. \A i \in 1 .. Len(path) : ClauseRank(loc, path[i]) \in Nat
  BY <1>1, <1>2, ClauseRankIs
<1>4. \A i \in 1 .. Len(path) :
          ClauseRank(cut, path[i]) # 0 <=> ClauseRank(loc, path[i]) \in 1 .. k
  BY <1>1, ClauseAtCutoff
<1>5. /\ IsComplete(loc, path) <=> \A i \in 1 .. Len(path) : ClauseRank(loc, path[i]) # 0
      /\ IsComplete(cut, path) <=> \A i \in 1 .. Len(path) : ClauseRank(cut, path[i]) # 0
  BY <1>1 DEF IsComplete, HitClauses
<1>6. /\ LastRank(loc, path) \in Nat
      /\ \A i \in HitClauses(loc, path) : ClauseRank(loc, path[i]) <= LastRank(loc, path)
      /\ HitClauses(loc, path) # {} =>
            \E i \in HitClauses(loc, path) : LastRank(loc, path) = ClauseRank(loc, path[i])
  BY <1>2, LastRankIs
<1>7. IsComplete(loc, path) => HitClauses(loc, path) = 1 .. Len(path)
  BY <1>1 DEF IsComplete
<1>. HIDE DEF loc, cut
<1>8. ASSUME IsComplete(cut, path) PROVE IsComplete(loc, path) /\ LastRank(loc, path) <= k
  <2>1. \A i \in 1 .. Len(path) : ClauseRank(loc, path[i]) \in 1 .. k
    BY <1>4, <1>5, <1>8
  <2>2. IsComplete(loc, path)
    BY <1>5, <2>1
  <2>3. 1 \in HitClauses(loc, path)
    BY <1>1, <1>7, <2>2
  <2>. QED
    BY <1>6, <1>7, <2>1, <2>2, <2>3
<1>9. ASSUME IsComplete(loc, path), LastRank(loc, path) <= k PROVE IsComplete(cut, path)
  <2>1. \A i \in 1 .. Len(path) : ClauseRank(loc, path[i]) # 0
                                  /\ ClauseRank(loc, path[i]) <= LastRank(loc, path)
    BY <1>5, <1>6, <1>7, <1>9
  <2>2. \A i \in 1 .. Len(path) : ClauseRank(loc, path[i]) \in 1 .. k
    BY <1>3, <1>6, <1>9, <2>1
  <2>. QED
    BY <1>4, <1>5, <2>2
<1>. QED
  BY <1>8, <1>9 DEF loc, cut

(* A longer list hits no less of a path. *)
LEMMA HitsGrow ==
    ASSUME NEW stage, RankedItems(stage.items), NEW n \in Nat, NEW k \in Nat, n <= k,
           NEW path \in PathSet
    PROVE  Hits(RankMap(UpTo(stage, n)), path) <= Hits(RankMap(UpTo(stage, k)), path)
<1>1. /\ DOMAIN path = 1 .. Len(path)
      /\ \A i \in 1 .. Len(path) : path[i] \in SUBSET Golds
  BY HitsCounted, ClauseOfPath
<1>2. \A i \in 1 .. Len(path) :
          /\ ClauseRank(RankMap(UpTo(stage, n)), path[i]) # 0
               <=> ClauseRank(RankMap(stage.items), path[i]) \in 1 .. n
          /\ ClauseRank(RankMap(UpTo(stage, k)), path[i]) # 0
               <=> ClauseRank(RankMap(stage.items), path[i]) \in 1 .. k
  BY <1>1, ClauseAtCutoff
<1>3. \A r \in 1 .. n : r \in 1 .. k
  OBVIOUS
<1>4. HitClauses(RankMap(UpTo(stage, n)), path) \subseteq HitClauses(RankMap(UpTo(stage, k)), path)
  BY <1>1, <1>2, <1>3 DEF HitClauses
<1>5. IsFiniteSet(HitClauses(RankMap(UpTo(stage, k)), path))
  BY HitsCounted
<1>. QED
  BY <1>4, <1>5, FS_Subset DEF Hits

-----------------------------------------------------------------------------
(* The coverage of a stage by the segments it names. *)

LEMMA CoverageIs ==
    ASSUME NEW loc, Ranked(loc)
    PROVE  LET c == Coverage(loc)
           IN  /\ c.hits \in Nat /\ c.of \in Nat \ {0} /\ c.rank \in Nat
               /\ c.hits = c.of <=> CompletePath(loc, Paths)
               /\ c.rank # 0 <=> CompletePath(loc, Paths)
               /\ c.rank # 0 => \E i \in 1 .. Len(Paths) :
                     IsComplete(loc, Paths[i]) /\ c.rank = LastRank(loc, Paths[i])
               /\ \A i \in 1 .. Len(Paths) :
                     IsComplete(loc, Paths[i]) => c.rank <= LastRank(loc, Paths[i])
               /\ \A i \in 1 .. Len(Paths) :
                     Hits(loc, Paths[i]) * c.of <= c.hits * Len(Paths[i])
               /\ \E i \in 1 .. Len(Paths) :
                     c.hits = Hits(loc, Paths[i]) /\ c.of = Len(Paths[i])
<1>. DEFINE rank == [p \in ToSet(Paths) |-> CompletionRank(loc, p)]
            b    == BestBy(loc, Paths, rank)
            best == Paths[b]
            c    == Coverage(loc)
<1>1. Ranking(rank)
  BY RankingsAre
<1>2. b \in 1 .. Len(Paths)
  <2>. HIDE DEF rank
  <2>. QED
    BY <1>1, BestIs
<1>3. /\ best \in PathSet /\ best \in ToSet(Paths)
      /\ IsComplete(loc, best) <=> CompletePath(loc, Paths)
      /\ \A i \in 1 .. Len(Paths) : IsComplete(loc, Paths[i]) => rank[best] <= rank[Paths[i]]
  <2>. HIDE DEF rank
  <2>. QED
    BY <1>1, BestOfComplete
<1>4. c = [hits |-> Hits(loc, best), of |-> Len(best),
           rank |-> IF IsComplete(loc, best) THEN LastRank(loc, best) ELSE 0]
  BY DEF Coverage, Hits
<1>5. /\ Len(best) \in Nat \ {0} /\ Hits(loc, best) \in Nat
      /\ Hits(loc, best) = Len(best) <=> IsComplete(loc, best)
  BY <1>3, HitsCounted DEF Hits
<1>6. LastRank(loc, best) \in Nat /\ (IsComplete(loc, best) => LastRank(loc, best) # 0)
  BY <1>3, LastRankIs
<1>7. \A i \in 1 .. Len(Paths) : IsComplete(loc, Paths[i]) =>
          /\ IsComplete(loc, best)
          /\ LastRank(loc, best) <= LastRank(loc, Paths[i])
  <2>. TAKE i \in 1 .. Len(Paths)
  <2>. HAVE IsComplete(loc, Paths[i])
  <2>1. i \in DOMAIN Paths /\ Paths[i] \in ToSet(Paths)
    BY PathsAre
  <2>2. IsComplete(loc, best)
    BY <1>3, <2>1 DEF CompletePath
  <2>3. rank[best] = LastRank(loc, best) /\ rank[Paths[i]] = LastRank(loc, Paths[i])
    BY <1>3, <2>1, <2>2 DEF CompletionRank
  <2>. QED
    BY <1>3, <2>2, <2>3
<1>8. \A i \in 1 .. Len(Paths) : Hits(loc, Paths[i]) * Len(best) <= Hits(loc, best) * Len(Paths[i])
  <2>. HIDE DEF rank
  <2>. QED
    BY <1>1, BestShare
<1>9. /\ c.hits = Hits(loc, best) /\ c.of = Len(best)
      /\ c.rank = IF IsComplete(loc, best) THEN LastRank(loc, best) ELSE 0
  BY <1>4
<1>. HIDE DEF c, b
<1>10. /\ c.hits \in Nat /\ c.of \in Nat \ {0} /\ c.rank \in Nat
       /\ c.hits = c.of <=> CompletePath(loc, Paths)
       /\ c.rank # 0 <=> CompletePath(loc, Paths)
  BY <1>3, <1>5, <1>6, <1>9
<1>11. /\ c.rank # 0 => IsComplete(loc, Paths[b]) /\ c.rank = LastRank(loc, Paths[b])
       /\ \A i \in 1 .. Len(Paths) :
             IsComplete(loc, Paths[i]) => c.rank <= LastRank(loc, Paths[i])
  BY <1>7, <1>9
<1>12. /\ \A i \in 1 .. Len(Paths) : Hits(loc, Paths[i]) * c.of <= c.hits * Len(Paths[i])
       /\ c.hits = Hits(loc, Paths[b]) /\ c.of = Len(Paths[b])
  BY <1>8, <1>9
<1>. QED
  BY <1>2, <1>10, <1>11, <1>12 DEF c

(* The three readings of a list cut at k, in the coverage they are made of. *)
LEMMA CoverageAtCutoff ==
    ASSUME NEW stage, RankedItems(stage.items), NEW k \in Nat
    PROVE  LET at    == Coverage(RankMap(UpTo(stage, k)))
               whole == Coverage(RankMap(stage.items))
           IN  /\ at.hits = at.of <=> at.rank # 0
               /\ at.rank # 0 <=> whole.rank \in 1 .. k
<1>. DEFINE loc   == RankMap(stage.items)
            cut   == RankMap(UpTo(stage, k))
            at    == Coverage(cut)
            whole == Coverage(loc)
<1>1. Ranked(loc) /\ Ranked(cut)
  <2>1. RankedItems(UpTo(stage, k))
    BY DEF RankedItems, UpTo
  <2>. QED
    BY <2>1, RankMapRanked
<1>2. DOMAIN Paths = 1 .. Len(Paths) /\ \A i \in 1 .. Len(Paths) : Paths[i] \in PathSet
  BY PathsAre
<1>3. \A i \in 1 .. Len(Paths) :
          IsComplete(cut, Paths[i]) <=> IsComplete(loc, Paths[i]) /\ LastRank(loc, Paths[i]) <= k
  BY <1>2, PathAtCutoff
<1>4. /\ at.hits = at.of <=> CompletePath(cut, Paths)
      /\ at.rank # 0 <=> CompletePath(cut, Paths)
  BY <1>1, CoverageIs
<1>5. /\ whole.rank \in Nat
      /\ whole.rank # 0 <=> CompletePath(loc, Paths)
      /\ whole.rank # 0 => \E i \in 1 .. Len(Paths) :
             IsComplete(loc, Paths[i]) /\ whole.rank = LastRank(loc, Paths[i])
      /\ \A i \in 1 .. Len(Paths) :
             IsComplete(loc, Paths[i]) => whole.rank <= LastRank(loc, Paths[i])
  BY <1>1, CoverageIs
<1>6. \A i \in 1 .. Len(Paths) : LastRank(loc, Paths[i]) \in Nat
  BY <1>1, <1>2, LastRankIs
<1>. HIDE DEF loc, cut, at, whole
<1>7. ASSUME CompletePath(cut, Paths) PROVE whole.rank \in 1 .. k
  <2>1. PICK i \in 1 .. Len(Paths) : IsComplete(cut, Paths[i])
    BY <1>2, <1>7 DEF CompletePath
  <2>2. IsComplete(loc, Paths[i]) /\ LastRank(loc, Paths[i]) <= k
    BY <1>3, <2>1
  <2>3. whole.rank # 0
    BY <1>2, <1>5, <2>2 DEF CompletePath
  <2>. QED
    BY <1>5, <1>6, <2>2, <2>3
<1>8. ASSUME whole.rank \in 1 .. k PROVE CompletePath(cut, Paths)
  <2>1. PICK i \in 1 .. Len(Paths) : IsComplete(loc, Paths[i]) /\ whole.rank = LastRank(loc, Paths[i])
    BY <1>5, <1>8
  <2>2. IsComplete(cut, Paths[i])
    BY <1>3, <1>8, <2>1
  <2>. QED
    BY <1>2, <2>2 DEF CompletePath
<1>9. /\ at.hits = at.of <=> at.rank # 0
      /\ at.rank # 0 <=> whole.rank \in 1 .. k
  BY <1>4, <1>7, <1>8
<1>. QED
  BY <1>9 DEF at, whole, loc, cut

(* The share of the best path never falls as the list grows. *)
LEMMA CoverageGrows ==
    ASSUME NEW stage, RankedItems(stage.items), NEW n \in Nat, NEW k \in Nat, n <= k
    PROVE  LET less == Coverage(RankMap(UpTo(stage, n)))
               more == Coverage(RankMap(UpTo(stage, k)))
           IN  less.hits * more.of <= more.hits * less.of
<1>. DEFINE ln   == RankMap(UpTo(stage, n))
            lk   == RankMap(UpTo(stage, k))
            less == Coverage(ln)
            more == Coverage(lk)
<1>1. Ranked(ln) /\ Ranked(lk)
  <2>1. RankedItems(UpTo(stage, n)) /\ RankedItems(UpTo(stage, k))
    BY DEF RankedItems, UpTo
  <2>. QED
    BY <2>1, RankMapRanked
<1>2. PICK i \in 1 .. Len(Paths) : less.hits = Hits(ln, Paths[i]) /\ less.of = Len(Paths[i])
  BY <1>1, CoverageIs
<1>3. /\ more.hits \in Nat /\ more.of \in Nat \ {0}
      /\ Hits(lk, Paths[i]) * more.of <= more.hits * Len(Paths[i])
  BY <1>1, CoverageIs
<1>4. Paths[i] \in PathSet
  BY PathsAre
<1>5. Hits(ln, Paths[i]) <= Hits(lk, Paths[i])
  BY <1>4, HitsGrow
<1>6. Hits(ln, Paths[i]) \in Nat /\ Hits(lk, Paths[i]) \in Nat /\ Len(Paths[i]) \in Nat
  BY <1>4, HitsCounted DEF Hits
<1>. HIDE DEF ln, lk, less, more
<1>7. Hits(ln, Paths[i]) * more.of <= Hits(lk, Paths[i]) * more.of
  BY <1>3, <1>5, <1>6, TimesMonotone
<1>8. /\ Hits(ln, Paths[i]) * more.of \in Nat
      /\ Hits(lk, Paths[i]) * more.of \in Nat
      /\ more.hits * Len(Paths[i]) \in Nat
  <2>1. \A a, b \in Nat : a * b \in Nat
    OBVIOUS
  <2>. QED
    BY <1>3, <1>6, <2>1
<1>9. less.hits * more.of <= more.hits * less.of
  <2>1. Hits(ln, Paths[i]) * more.of <= more.hits * Len(Paths[i])
    BY <1>3, <1>7, <1>8
  <2>. QED
    BY <1>2, <2>1
<1>. QED
  BY <1>9 DEF less, more, ln, lk

-----------------------------------------------------------------------------
(* Metrics by their names. *)

LEMMA OverDomain ==
    ASSUME NEW f, NEW g
    PROVE  DOMAIN (f ++ g) = (DOMAIN f) \cup (DOMAIN g)
BY DEF ++

LEMMA OverLeft ==
    ASSUME NEW f, NEW g, NEW x \in DOMAIN f
    PROVE  x \in DOMAIN (f ++ g) /\ (f ++ g)[x] = f[x]
BY DEF ++

LEMMA OverRight ==
    ASSUME NEW f, NEW g, NEW x \in DOMAIN g, x \notin DOMAIN f
    PROVE  x \in DOMAIN (f ++ g) /\ (f ++ g)[x] = g[x]
BY DEF ++

CutIds(name) == {name} \X {"recall", "complete"} \X Cutoffs

MrrIds(name) == IF name = "context" THEN {} ELSE {<<name, "mrr">>}

(* A pair is not a triple. *)
LEMMA PairNotTriple ==
    ASSUME NEW a, NEW b, NEW c, NEW d, NEW e
    PROVE  <<a, b>> # <<c, d, e>>
<1>1. DOMAIN <<a, b>> = 1 .. 2 /\ DOMAIN <<c, d, e>> = 1 .. 3
  OBVIOUS
<1>2. 3 \notin 1 .. 2 /\ 3 \in 1 .. 3
  OBVIOUS
<1>. QED
  BY <1>1, <1>2

LEMMA MrrIsNoCut ==
    ASSUME NEW name, NEW other
    PROVE  <<name, "mrr">> \notin CutIds(other)
<1>1. \A id \in CutIds(other) : \E a, b, c : id = <<a, b, c>>
  BY DEF CutIds
<1>. QED
  BY <1>1, PairNotTriple

(* The metrics of one stage of segments that is not scored. *)
LEMMA SegmentStageUnscored ==
    ASSUME NEW name, NEW stage, NEW outcome, outcome \notin Scored
    PROVE  /\ DOMAIN SegmentStageMetrics(name, stage, outcome) = CutIds(name) \cup MrrIds(name)
           /\ \A id \in CutIds(name) \cup MrrIds(name) :
                 SegmentStageMetrics(name, stage, outcome)[id] = Unscored(outcome)
<1>1. SegmentStageMetrics(name, stage, outcome)
        = [id \in CutIds(name) \cup MrrIds(name) |-> Unscored(outcome)]
  BY DEF SegmentStageMetrics, CutIds, MrrIds
<1>. QED
  BY <1>1

CutMetrics(name, stage) ==
    [id \in CutIds(name) |->
        IF id[2] = "recall"
        THEN Observed(Coverage(RankMap(UpTo(stage, id[3]))).hits,
                      Coverage(RankMap(UpTo(stage, id[3]))).of)
        ELSE Observed(IF Coverage(RankMap(UpTo(stage, id[3]))).rank # 0 THEN 1 ELSE 0, 1)]

MrrMetrics(name, stage) ==
    [id \in MrrIds(name) |-> Observed(Coverage(RankMap(stage.items)).rank, 1)]

(* The metrics of one stage of segments that is scored. *)
LEMMA SegmentStageScored ==
    ASSUME NEW name, NEW stage, NEW outcome \in Scored
    PROVE  SegmentStageMetrics(name, stage, outcome)
             = CutMetrics(name, stage) ++ MrrMetrics(name, stage)
BY DEF SegmentStageMetrics, CutMetrics, MrrMetrics, CutIds, MrrIds

LEMMA SegmentStageIds ==
    ASSUME NEW name, NEW stage, NEW outcome
    PROVE  DOMAIN SegmentStageMetrics(name, stage, outcome) = CutIds(name) \cup MrrIds(name)
<1>1. DOMAIN CutMetrics(name, stage) = CutIds(name) /\ DOMAIN MrrMetrics(name, stage) = MrrIds(name)
  BY DEF CutMetrics, MrrMetrics
<1>2. CASE outcome \in Scored
  <2>1. SegmentStageMetrics(name, stage, outcome)
          = CutMetrics(name, stage) ++ MrrMetrics(name, stage)
    BY <1>2, SegmentStageScored
  <2>2. DOMAIN (CutMetrics(name, stage) ++ MrrMetrics(name, stage))
          = DOMAIN CutMetrics(name, stage) \cup DOMAIN MrrMetrics(name, stage)
    BY OverDomain
  <2>. QED
    BY <1>1, <2>1, <2>2
<1>3. CASE outcome \notin Scored
  BY <1>3, SegmentStageUnscored
<1>. QED
  BY <1>2, <1>3

LEMMA SegmentStageReads ==
    ASSUME NEW name \in {"raw", "ranked"}, NEW stage, NEW outcome \in Scored, NEW k \in Cutoffs
    PROVE  LET metrics == SegmentStageMetrics(name, stage, outcome)
               at == Coverage(RankMap(UpTo(stage, k)))
           IN  /\ metrics[<<name, "recall", k>>] = Observed(at.hits, at.of)
               /\ metrics[<<name, "complete", k>>] = Observed(IF at.rank # 0 THEN 1 ELSE 0, 1)
               /\ metrics[<<name, "mrr">>] = Observed(Coverage(RankMap(stage.items)).rank, 1)
<1>. DEFINE at == Coverage(RankMap(UpTo(stage, k)))
            cuts == CutMetrics(name, stage)
            mrr == MrrMetrics(name, stage)
            metrics == SegmentStageMetrics(name, stage, outcome)
<1>1. metrics = cuts ++ mrr /\ DOMAIN cuts = CutIds(name) /\ DOMAIN mrr = MrrIds(name)
  BY SegmentStageScored DEF CutMetrics, MrrMetrics
<1>2. <<name, "recall", k>> \in CutIds(name) /\ <<name, "complete", k>> \in CutIds(name)
  BY DEF CutIds
<1>3. <<name, "mrr">> \in MrrIds(name) /\ <<name, "mrr">> \notin CutIds(name)
  BY MrrIsNoCut DEF MrrIds
<1>4. cuts[<<name, "recall", k>>] = Observed(at.hits, at.of)
  BY <1>2 DEF CutMetrics
<1>5. cuts[<<name, "complete", k>>] = Observed(IF at.rank # 0 THEN 1 ELSE 0, 1)
  <2>1. "complete" # "recall"
    OBVIOUS
  <2>. QED
    BY <1>2, <2>1 DEF CutMetrics
<1>6. mrr[<<name, "mrr">>] = Observed(Coverage(RankMap(stage.items)).rank, 1)
  BY <1>3 DEF MrrMetrics
<1>. HIDE DEF at, cuts, mrr, metrics
<1>7. /\ metrics[<<name, "recall", k>>] = cuts[<<name, "recall", k>>]
      /\ metrics[<<name, "complete", k>>] = cuts[<<name, "complete", k>>]
      /\ metrics[<<name, "mrr">>] = mrr[<<name, "mrr">>]
  BY <1>1, <1>2, <1>3, OverLeft, OverRight
<1>. QED
  BY <1>4, <1>5, <1>6, <1>7 DEF at, metrics

LEMMA ObservedIs ==
    ASSUME NEW hits, NEW of
    PROVE  /\ Observed(hits, of).hits = hits /\ Observed(hits, of).of = of
           /\ Observed(hits, of).status = "observed"
           /\ Whole(Observed(hits, of)) <=> hits = of
BY DEF Observed, Whole

(* A metric of a stage of segments in the metrics of its case. *)
LEMMA SegmentRetrievalIs ==
    ASSUME NEW r, NEW outcome, NEW name \in {"raw", "ranked"},
           NEW id \in CutIds(name) \cup MrrIds(name)
    PROVE  /\ id \in DOMAIN SegmentRetrieval(r, outcome)
           /\ SegmentRetrieval(r, outcome)[id]
                = SegmentStageMetrics(name, r[name], outcome[name])[id]
<1>. DEFINE m(n) == SegmentStageMetrics(n, r[n], outcome[n])
            all  == m("raw") ++ m("ranked") ++ m("context")
<1>1. \A n \in Stages : DOMAIN m(n) = CutIds(n) \cup MrrIds(n)
  BY SegmentStageIds
<1>2. name = "ranked" => id \notin CutIds("raw") \cup MrrIds("raw")
  <2>1. ASSUME name = "ranked" PROVE id \notin CutIds("raw") \cup MrrIds("raw")
    <3>1. CASE id \in CutIds("ranked")
      <4>1. PICK b \in {"recall", "complete"}, c \in Cutoffs : id = <<"ranked", b, c>>
        BY <3>1 DEF CutIds
      <4>2. id \notin CutIds("raw")
        BY <4>1 DEF CutIds
      <4>3. id # <<"raw", "mrr">>
        BY <4>1, PairNotTriple
      <4>. QED
        BY <4>2, <4>3 DEF MrrIds
    <3>2. CASE id \in MrrIds("ranked")
      <4>1. id = <<"ranked", "mrr">>
        BY <3>2 DEF MrrIds
      <4>2. id # <<"raw", "mrr">>
        BY <4>1
      <4>. QED
        BY <4>1, <4>2, MrrIsNoCut DEF MrrIds
    <3>. QED
      BY <2>1, <3>1, <3>2
  <2>. QED
    BY <2>1
<1>3. id \in DOMAIN all /\ all[id] = m(name)[id]
  <2>1. all = (m("raw") ++ m("ranked")) ++ m("context")
    OBVIOUS
  <2>2. "raw" \in Stages /\ "ranked" \in Stages
    BY DEF Stages
  <2>3. CASE name = "raw"
    <3>1. id \in DOMAIN m("raw")
      BY <1>1, <2>2, <2>3
    <3>. HIDE DEF m
    <3>2. id \in DOMAIN (m("raw") ++ m("ranked")) /\ (m("raw") ++ m("ranked"))[id] = m("raw")[id]
      BY <3>1, OverDomain, OverLeft, OverRight
    <3>. QED
      BY <2>1, <2>3, <3>2, OverDomain, OverLeft, OverRight
  <2>4. CASE name = "ranked"
    <3>1. id \in DOMAIN m("ranked") /\ id \notin DOMAIN m("raw")
      BY <1>1, <1>2, <2>2, <2>4
    <3>. HIDE DEF m
    <3>2. id \in DOMAIN (m("raw") ++ m("ranked")) /\ (m("raw") ++ m("ranked"))[id] = m("ranked")[id]
      BY <3>1, OverDomain, OverLeft, OverRight
    <3>. QED
      BY <2>1, <2>4, <3>2, OverDomain, OverLeft, OverRight
  <2>. QED
    BY <2>3, <2>4
<1>4. \E g : SegmentRetrieval(r, outcome) = all ++ g
  BY DEF SegmentRetrieval
<1>. HIDE DEF all
<1>5. PICK g : SegmentRetrieval(r, outcome) = all ++ g
  BY <1>4
<1>6. id \in DOMAIN (all ++ g) /\ (all ++ g)[id] = all[id]
  BY <1>3, OverDomain, OverLeft, OverRight
<1>. QED
  BY <1>3, <1>5, <1>6

(* The answer metrics of a segment case in the metrics of the case. *)
LEMMA SegmentMetricsAre ==
    ASSUME NEW r, NEW outcome, NEW context
    PROVE  LET metrics == SegmentRetrieval(r, outcome) ++ SegmentAnswer(r, context)
           IN  /\ \A name \in {"raw", "ranked"} : \A id \in CutIds(name) \cup MrrIds(name) :
                     metrics[id] = SegmentStageMetrics(name, r[name], outcome[name])[id]
               /\ \A id \in AnswerIds : metrics[id] = SegmentAnswer(r, context)[id]
<1>. DEFINE left  == SegmentRetrieval(r, outcome)
            right == SegmentAnswer(r, context)
<1>1. \A name \in {"raw", "ranked"} : \A id \in CutIds(name) \cup MrrIds(name) :
          id \in DOMAIN left /\ left[id] = SegmentStageMetrics(name, r[name], outcome[name])[id]
  BY SegmentRetrievalIs
<1>2. DOMAIN right = AnswerIds
  BY DEF SegmentAnswer
<1>3. \A id \in AnswerIds : id \notin DOMAIN left
  <2>. DEFINE Cut3 == {"ranked", "context"} \X {"loss"} \X Cutoffs
  <2>1. \A id \in DOMAIN left : id \in Cut3 \/ \E n \in Stages : id \in CutIds(n) \cup MrrIds(n)
    <3>. DEFINE m(n)   == SegmentStageMetrics(n, r[n], outcome[n])
                two    == m("raw") ++ m("ranked")
                all    == two ++ m("context")
                before == [ranked |-> "raw", context |-> "ranked"]
                g      == [id \in Cut3 |-> StageLoss(all[<<before[id[1]], "recall", id[3]>>],
                                                    all[<<id[1], "recall", id[3]>>])]
    <3>1. left = all ++ g
      BY DEF SegmentRetrieval
    <3>2. DOMAIN g = Cut3
      OBVIOUS
    <3>3. /\ DOMAIN m("raw") = CutIds("raw") \cup MrrIds("raw")
          /\ DOMAIN m("ranked") = CutIds("ranked") \cup MrrIds("ranked")
          /\ DOMAIN m("context") = CutIds("context") \cup MrrIds("context")
      BY SegmentStageIds
    <3>4. DOMAIN two = DOMAIN m("raw") \cup DOMAIN m("ranked")
      <4>. HIDE DEF m
      <4>. QED
        BY OverDomain
    <3>5. DOMAIN all = DOMAIN two \cup DOMAIN m("context")
      <4>. HIDE DEF m, two
      <4>. QED
        BY OverDomain
    <3>6. DOMAIN left = DOMAIN all \cup DOMAIN g
      <4>. HIDE DEF all, left, g
      <4>. QED
        BY <3>1, OverDomain
    <3>7. "raw" \in Stages /\ "ranked" \in Stages /\ "context" \in Stages
      BY DEF Stages
    <3>. HIDE DEF m, two, all, left, g
    <3>. QED
      BY <3>2, <3>3, <3>4, <3>5, <3>6, <3>7
  <2>2. \A id \in AnswerIds : \E b : id = <<"answer", b>>
    BY DEF AnswerIds
  <2>3. \A n \in Stages : \A b : <<"answer", b>> \notin CutIds(n) \cup MrrIds(n)
    <3>. TAKE n \in Stages
    <3>. TAKE b
    <3>1. <<"answer", b>> \notin CutIds(n)
      <4>1. \A id \in CutIds(n) : \E x, y, z : id = <<x, y, z>>
        BY DEF CutIds
      <4>. QED
        BY <4>1, PairNotTriple
    <3>2. n # "answer"
      BY DEF Stages
    <3>3. <<"answer", b>> \notin MrrIds(n)
      BY <3>2 DEF MrrIds
    <3>. QED
      BY <3>1, <3>3
  <2>4. \A b : <<"answer", b>> \notin Cut3
    <3>1. \A id \in Cut3 : \E x, y, z : id = <<x, y, z>>
      OBVIOUS
    <3>. QED
      BY <3>1, PairNotTriple
  <2>. HIDE DEF left, Cut3
  <2>5. SUFFICES ASSUME NEW id \in AnswerIds, id \in DOMAIN left PROVE FALSE
    OBVIOUS
  <2>6. PICK b : id = <<"answer", b>>
    BY <2>2
  <2>. QED
    BY <2>1, <2>3, <2>4, <2>5, <2>6
<1>. HIDE DEF left, right
<1>4. \A name \in {"raw", "ranked"} : \A id \in CutIds(name) \cup MrrIds(name) :
          (left ++ right)[id] = SegmentStageMetrics(name, r[name], outcome[name])[id]
  BY <1>1, OverLeft
<1>5. \A id \in AnswerIds : (left ++ right)[id] = right[id]
  BY <1>2, <1>3, OverRight
<1>. QED
  BY <1>4, <1>5 DEF left, right

-----------------------------------------------------------------------------
(* The inductive invariant: a result holds values the adapter shows, and a  *)
(* completed case is what that result scores.                               *)

StrictResults ==
    [kind : {"strict"}, raw : StageValues, ranked : StageValues, context : StageValues,
     verdict : Verdicts, wanted : BOOLEAN]

SegmentResults ==
    [kind : {"segment"}, raw : TraceValues, ranked : TraceValues, context : TraceValues,
     verdict : Verdicts, wanted : BOOLEAN, blank : BOOLEAN, abstain : BOOLEAN]

SegmentMetrics(r) ==
    LET outcome == Outcomes(r, KnownSegments)
    IN  SegmentRetrieval(r, outcome) ++ SegmentAnswer(r, outcome["context"])

CaseOfResult ==
    /\ result # None => \/ result \in StrictResults
                        \/ result \in SegmentResults /\ (result.blank => result.verdict = "fail")
    /\ Scoring("strict") => /\ result \in StrictResults
                            /\ case.metrics = EvaluateCase(result)
                            /\ case.labels = AssessLabels(result, EvaluateCase(result))
    /\ Scoring("segment") =>
          /\ result \in SegmentResults /\ (result.blank => result.verdict = "fail")
          /\ case.metrics = SegmentMetrics(result)
          /\ case.labels = SegmentLabels(Outcomes(result, KnownSegments), SegmentMetrics(result))

(* Every step keeps the case what its result scores. *)
THEOREM CaseFollowsResult == Spec => []CaseOfResult
<1>1. Init => CaseOfResult
  BY DEF Init, CaseOfResult, Scoring
<1>2. ASSUME CaseOfResult, [Next]_vars PROVE CaseOfResult'
  <2>1. CASE QueryStrict
    <3>1. case = None /\ case' = None /\ result' \in StrictResults
      BY <2>1 DEF QueryStrict, StrictResults
    <3>. QED
      BY <3>1 DEF CaseOfResult, Scoring
  <2>2. CASE QuerySegment
    <3>1. /\ case = None /\ case' = None /\ result' \in SegmentResults
          /\ result'.blank => result'.verdict = "fail"
      <4>1. PICK raw \in TraceValues, ranked \in TraceValues, context \in TraceValues,
                 verdict \in Verdicts, wanted \in BOOLEAN, blank \in BOOLEAN, abstain \in BOOLEAN :
               /\ blank => verdict = "fail"
               /\ result' = [kind |-> "segment", raw |-> raw, ranked |-> ranked,
                             context |-> context, verdict |-> verdict, wanted |-> wanted,
                             blank |-> blank, abstain |-> abstain]
        BY <2>2 DEF QuerySegment
      <4>2. result' \in SegmentResults
        BY <4>1 DEF SegmentResults
      <4>3. result'.blank = blank /\ result'.verdict = verdict
        BY <4>1
      <4>. QED
        BY <2>2, <4>1, <4>2, <4>3 DEF QuerySegment
    <3>. QED
      BY <3>1 DEF CaseOfResult, Scoring
  <2>3. CASE ScoreStrict
    <3>1. /\ result # None /\ result.kind = "strict" /\ result' = result
          /\ case' = [kind |-> "strict", status |-> "completed",
                      metrics |-> EvaluateCase(result),
                      labels |-> AssessLabels(result, EvaluateCase(result))]
      BY <2>3 DEF ScoreStrict
    <3>2. result \in StrictResults
      BY <1>2, <3>1 DEF CaseOfResult, SegmentResults
    <3>3. /\ case'.kind = "strict" /\ case'.metrics = EvaluateCase(result)
          /\ case'.labels = AssessLabels(result, EvaluateCase(result))
      BY <3>1
    <3>4. ~ Scoring("segment")'
      BY <3>3 DEF Scoring
    <3>5. EvaluateCase(result)' = EvaluateCase(result)
          /\ AssessLabels(result, EvaluateCase(result))' = AssessLabels(result, EvaluateCase(result))
      BY <3>1
    <3>. QED
      BY <3>1, <3>2, <3>3, <3>4, <3>5 DEF CaseOfResult
  <2>4. CASE ScoreSegment
    <3>. DEFINE labels == SegmentLabels(Outcomes(result, KnownSegments), SegmentMetrics(result))
    <3>1. /\ result # None /\ result.kind = "segment" /\ result' = result
          /\ case' = [kind |-> "segment", status |-> "completed",
                      metrics |-> SegmentMetrics(result), labels |-> labels]
      BY <2>4 DEF ScoreSegment, SegmentMetrics
    <3>2. result \in SegmentResults /\ (result.blank => result.verdict = "fail")
      BY <1>2, <3>1 DEF CaseOfResult, StrictResults
    <3>3. case'.kind = "segment" /\ case'.metrics = SegmentMetrics(result) /\ case'.labels = labels
      BY <3>1
    <3>4. ~ Scoring("strict")'
      BY <3>3 DEF Scoring
    <3>5. SegmentMetrics(result)' = SegmentMetrics(result) /\ labels' = labels
      BY <3>1
    <3>. HIDE DEF labels
    <3>6. case'.labels = labels'
      BY <3>3, <3>5
    <3>. QED
      BY <3>1, <3>2, <3>3, <3>4, <3>5, <3>6 DEF CaseOfResult, labels
  <2>5. CASE QueryFails
    <3>1. result' = result /\ result = None /\ case'.status \in {"timeout", "system_error", "cancelled"}
      BY <2>5 DEF QueryFails
    <3>2. case'.status # "completed"
      BY <3>1
    <3>. QED
      BY <3>1, <3>2 DEF CaseOfResult, Scoring
  <2>6. CASE UNCHANGED vars
    <3>1. result' = result /\ case' = case
      BY <2>6 DEF vars
    <3>2. CaseOfResult' <=> CaseOfResult
      BY <3>1 DEF CaseOfResult, Scoring
    <3>. QED
      BY <1>2, <3>2
  <2>. QED
    BY <1>2, <2>1, <2>2, <2>3, <2>4, <2>5, <2>6 DEF Next
<1>. QED
  BY <1>1, <1>2, PTL DEF Spec

-----------------------------------------------------------------------------
(* The readings of a scored list of segments. *)

LEMMA TraceRanked ==
    ASSUME NEW stage \in TraceValues
    PROVE  RankedItems(stage.items)
BY RanksAssumption DEF RankedItems

LEMMA CutoffReadings ==
    ASSUME NEW name \in {"raw", "ranked"}, NEW stage \in TraceValues, NEW outcome,
           NEW k \in Cutoffs,
           SegmentStageMetrics(name, stage, outcome)[<<name, "mrr">>].status = "observed"
    PROVE  LET metrics == SegmentStageMetrics(name, stage, outcome)
               recall(n) == metrics[<<name, "recall", n>>]
           IN  /\ Whole(recall(k)) <=> Whole(metrics[<<name, "complete", k>>])
               /\ Whole(recall(k)) <=> metrics[<<name, "mrr">>].hits \in 1 .. k
               /\ \A n \in Cutoffs : n <= k =>
                     recall(n).hits * recall(k).of <= recall(k).hits * recall(n).of
<1>. DEFINE metrics == SegmentStageMetrics(name, stage, outcome)
            at(n) == Coverage(RankMap(UpTo(stage, n)))
            whole == Coverage(RankMap(stage.items))
<1>1. k \in Nat /\ \A n \in Cutoffs : n \in Nat
  BY EvaluationAssumption
<1>2. outcome \in Scored
  <2>1. SUFFICES ASSUME outcome \notin Scored PROVE FALSE
    OBVIOUS
  <2>2. <<name, "mrr">> \in MrrIds(name)
    BY DEF MrrIds
  <2>3. metrics[<<name, "mrr">>] = Unscored(outcome)
    <3>1. \A id \in CutIds(name) \cup MrrIds(name) : metrics[id] = Unscored(outcome)
      BY <2>1, SegmentStageUnscored
    <3>. HIDE DEF metrics
    <3>. QED
      BY <2>2, <3>1
  <2>4. Unscored(outcome).status # "observed"
    BY DEF Unscored, ErrorMetric, NotApplicable, Status
  <2>. QED
    BY <2>3, <2>4
<1>3. /\ \A n \in Cutoffs : metrics[<<name, "recall", n>>] = Observed(at(n).hits, at(n).of)
      /\ metrics[<<name, "complete", k>>] = Observed(IF at(k).rank # 0 THEN 1 ELSE 0, 1)
      /\ metrics[<<name, "mrr">>] = Observed(whole.rank, 1)
  <2>1. ASSUME NEW n \in Cutoffs
        PROVE  /\ metrics[<<name, "recall", n>>] = Observed(at(n).hits, at(n).of)
               /\ metrics[<<name, "complete", n>>] = Observed(IF at(n).rank # 0 THEN 1 ELSE 0, 1)
               /\ metrics[<<name, "mrr">>] = Observed(whole.rank, 1)
    BY <1>2, SegmentStageReads
  <2>. HIDE DEF metrics, at, whole
  <2>. QED
    BY <2>1
<1>4. RankedItems(stage.items)
  BY TraceRanked
<1>5. /\ at(k).hits = at(k).of <=> at(k).rank # 0
      /\ at(k).rank # 0 <=> whole.rank \in 1 .. k
  BY <1>1, <1>4, CoverageAtCutoff
<1>6. \A n \in Cutoffs : n <= k => at(n).hits * at(k).of <= at(k).hits * at(n).of
  BY <1>1, <1>4, CoverageGrows
<1>. HIDE DEF metrics, at, whole
<1>7. /\ \A n \in Cutoffs : /\ metrics[<<name, "recall", n>>].hits = at(n).hits
                            /\ metrics[<<name, "recall", n>>].of = at(n).of
      /\ Whole(metrics[<<name, "recall", k>>]) <=> at(k).hits = at(k).of
      /\ Whole(metrics[<<name, "complete", k>>]) <=> at(k).rank # 0
      /\ metrics[<<name, "mrr">>].hits = whole.rank
  BY <1>3, ObservedIs
<1>8. /\ Whole(metrics[<<name, "recall", k>>]) <=> Whole(metrics[<<name, "complete", k>>])
      /\ Whole(metrics[<<name, "recall", k>>]) <=> metrics[<<name, "mrr">>].hits \in 1 .. k
  BY <1>5, <1>7
<1>9. \A n \in Cutoffs : n <= k =>
          metrics[<<name, "recall", n>>].hits * metrics[<<name, "recall", k>>].of
            <= metrics[<<name, "recall", k>>].hits * metrics[<<name, "recall", n>>].of
  BY <1>6, <1>7
<1>. QED
  BY <1>8, <1>9 DEF metrics

(* For every evidence set, every list and every cutoffs: the recall of a    *)
(* list never falls as k grows, and recall, completeness and mrr agree on   *)
(* where the evidence is complete.                                          *)
THEOREM ThreeReadings == Spec => []CutoffsAgree
<1>1. CaseOfResult => CutoffsAgree
  <2>1. SUFFICES ASSUME CaseOfResult, Scoring("segment"),
                        NEW name \in {"raw", "ranked"}, NEW k \in Cutoffs,
                        Metric(<<name, "mrr">>).status = "observed"
                 PROVE  LET recall(n) == Metric(<<name, "recall", n>>)
                            first == Metric(<<name, "mrr">>)
                        IN  /\ Whole(recall(k)) <=> Whole(Metric(<<name, "complete", k>>))
                            /\ Whole(recall(k)) <=> first.hits \in 1..k
                            /\ \A n \in Cutoffs : n <= k =>
                                  recall(n).hits * recall(k).of <= recall(k).hits * recall(n).of
    BY DEF CutoffsAgree
  <2>. DEFINE outcome == Outcomes(result, KnownSegments)
              stage   == result[name]
              metrics == SegmentStageMetrics(name, stage, outcome[name])
  <2>2. result \in SegmentResults /\ case.metrics = SegmentMetrics(result)
    BY <2>1 DEF CaseOfResult
  <2>3. stage \in TraceValues
    BY <2>2 DEF SegmentResults
  <2>4. \A id \in CutIds(name) \cup MrrIds(name) : Metric(id) = metrics[id]
    <3>1. \A id \in CutIds(name) \cup MrrIds(name) : SegmentMetrics(result)[id] = metrics[id]
      BY SegmentMetricsAre DEF SegmentMetrics
    <3>. HIDE DEF metrics
    <3>. QED
      BY <2>2, <3>1 DEF Metric
  <2>5. /\ \A n \in Cutoffs : <<name, "recall", n>> \in CutIds(name)
        /\ <<name, "complete", k>> \in CutIds(name)
        /\ <<name, "mrr">> \in MrrIds(name)
    BY DEF CutIds, MrrIds
  <2>6. /\ \A n \in Cutoffs : Metric(<<name, "recall", n>>) = metrics[<<name, "recall", n>>]
        /\ Metric(<<name, "complete", k>>) = metrics[<<name, "complete", k>>]
        /\ Metric(<<name, "mrr">>) = metrics[<<name, "mrr">>]
    <3>. HIDE DEF metrics
    <3>. QED
      BY <2>4, <2>5
  <2>7. metrics[<<name, "mrr">>].status = "observed"
    BY <2>1, <2>6
  <2>8. /\ Whole(metrics[<<name, "recall", k>>]) <=> Whole(metrics[<<name, "complete", k>>])
        /\ Whole(metrics[<<name, "recall", k>>]) <=> metrics[<<name, "mrr">>].hits \in 1 .. k
        /\ \A n \in Cutoffs : n <= k =>
              metrics[<<name, "recall", n>>].hits * metrics[<<name, "recall", k>>].of
                <= metrics[<<name, "recall", k>>].hits * metrics[<<name, "recall", n>>].of
    <3>. HIDE DEF stage, outcome
    <3>. QED
      BY <2>3, <2>7, CutoffReadings
  <2>. HIDE DEF metrics
  <2>. QED
    BY <2>6, <2>8
<1>. QED
  BY <1>1, CaseFollowsResult, PTL

-----------------------------------------------------------------------------
(* The metrics of a strict case. *)

Recalled(stage) == IF stage = None THEN Unavailable ELSE Recall(stage.loc, Paths)

(* Localization metrics of a stage are named by its localizations. *)
StageIds(name) ==
    {name} \X (({"recall"} \cup (IF name = "context" THEN {} ELSE {"mrr"})) \cup Localizations)

LEMMA StageMetricsAre ==
    ASSUME NEW name, NEW stage
    PROVE  /\ DOMAIN StageMetrics(name, stage) \subseteq StageIds(name)
           /\ <<name, "recall">> \in DOMAIN StageMetrics(name, stage)
           /\ StageMetrics(name, stage)[<<name, "recall">>] = Recalled(stage)
<1>. DEFINE ids == {"recall"} \cup (IF name = "context" THEN {} ELSE {"mrr"})
            gap == [id \in {name} \X ids |-> Unavailable]
            own == [id \in {name} \X ids |->
                       IF id[2] = "recall" THEN Recall(stage.loc, Paths) ELSE FirstRank(stage.loc, Paths)]
            counts == [id \in {name} \X Localizations |->
                          Observed(StatusCount(stage.loc, Paths, id[2]),
                                   Len(Paths[BestPath(stage.loc, Paths)]))]
<1>1. /\ stage = None => StageMetrics(name, stage) = gap
      /\ stage # None => StageMetrics(name, stage) = own ++ counts
  BY DEF StageMetrics
<1>2. <<name, "recall">> \in {name} \X ids
  OBVIOUS
<1>3. {name} \X ids \subseteq StageIds(name) /\ {name} \X Localizations \subseteq StageIds(name)
  BY DEF StageIds
<1>4. /\ DOMAIN gap = {name} \X ids /\ DOMAIN own = {name} \X ids
      /\ DOMAIN counts = {name} \X Localizations
  OBVIOUS
<1>5. gap[<<name, "recall">>] = Unavailable /\ own[<<name, "recall">>] = Recall(stage.loc, Paths)
  BY <1>2
<1>. HIDE DEF gap, own, counts, ids
<1>6. CASE stage = None
  BY <1>1, <1>2, <1>3, <1>4, <1>5, <1>6 DEF Recalled
<1>7. CASE stage # None
  <2>1. /\ DOMAIN (own ++ counts) = DOMAIN own \cup DOMAIN counts
        /\ <<name, "recall">> \in DOMAIN own
    BY <1>2, <1>4, OverDomain
  <2>2. (own ++ counts)[<<name, "recall">>] = own[<<name, "recall">>]
    BY <2>1, OverLeft
  <2>3. StageMetrics(name, stage) = own ++ counts
    BY <1>1, <1>7
  <2>4. DOMAIN StageMetrics(name, stage) \subseteq StageIds(name)
    BY <1>3, <1>4, <2>1, <2>3
  <2>5. <<name, "recall">> \in DOMAIN StageMetrics(name, stage)
    BY <2>1, <2>3
  <2>6. StageMetrics(name, stage)[<<name, "recall">>] = Recalled(stage)
    BY <1>5, <1>7, <2>2, <2>3 DEF Recalled
  <2>. QED
    BY <2>4, <2>5, <2>6
<1>. QED
  BY <1>6, <1>7

(* The names of the metrics of two stages differ. *)
LEMMA StageIdsApart ==
    /\ \A name : \A id \in StageIds(name) : id[1] = name
    /\ \A name \in Stages : \A id \in StageIds(name) :
          id \notin AnswerIds /\ id # <<"ranked", "delta">> /\ id # <<"context", "loss">>
<1>1. ASSUME NEW name, NEW id \in StageIds(name)
      PROVE  \E x \in {"recall", "mrr"} \cup Localizations : id = <<name, x>>
  <2>. DEFINE ids == ({"recall"} \cup (IF name = "context" THEN {} ELSE {"mrr"})) \cup Localizations
  <2>1. ids \subseteq {"recall", "mrr"} \cup Localizations
    OBVIOUS
  <2>2. id \in {name} \X ids
    BY DEF StageIds
  <2>. HIDE DEF ids
  <2>3. PICK x \in ids : id = <<name, x>>
    BY <2>2
  <2>. QED
    BY <2>1, <2>3
<1>2. "delta" \notin {"recall", "mrr"} \cup Localizations
      /\ "loss" \notin {"recall", "mrr"} \cup Localizations
  BY DEF Localizations
<1>3. ASSUME NEW name \in Stages, NEW id \in StageIds(name) PROVE id \notin AnswerIds
  <2>1. PICK x : id = <<name, x>>
    BY <1>1
  <2>2. name # "answer"
    BY DEF Stages
  <2>. QED
    BY <2>1, <2>2 DEF AnswerIds
<1>. QED
  BY <1>1, <1>2, <1>3

(* Recalls and their differences, by their names in the metrics of a case.  *)
LEMMA StrictMetricsAre ==
    ASSUME NEW r
    PROVE  LET metrics == EvaluateCase(r)
           IN  /\ metrics[<<"raw", "recall">>] = Recalled(r.raw)
               /\ metrics[<<"ranked", "recall">>] = Recalled(r.ranked)
               /\ metrics[<<"context", "recall">>] = Recalled(r.context)
               /\ metrics[<<"ranked", "delta">>] = Difference(Recalled(r.ranked), Recalled(r.raw))
               /\ metrics[<<"context", "loss">>] = Difference(Recalled(r.ranked), Recalled(r.context))
               /\ \A id \in AnswerIds : metrics[id] = AnswerMetrics(r)[id]
<1>. DEFINE raw     == StageMetrics("raw", r.raw)
            ranked  == StageMetrics("ranked", r.ranked)
            context == StageMetrics("context", r.context)
            D       == {<<"ranked", "delta">>, <<"context", "loss">>}
            two     == raw ++ ranked
            three   == two ++ context
            d       == [id \in D |->
                          Difference(ranked[<<"ranked", "recall">>],
                                     IF id[1] = "ranked" THEN raw[<<"raw", "recall">>]
                                     ELSE context[<<"context", "recall">>])]
            all     == three ++ d
            answers == AnswerMetrics(r)
<1>1. RetrievalStages(r) = all
  BY DEF RetrievalStages
<1>2. EvaluateCase(r) = all ++ answers
  BY <1>1 DEF EvaluateCase
<1>3. /\ DOMAIN raw \subseteq StageIds("raw") /\ <<"raw", "recall">> \in DOMAIN raw
      /\ raw[<<"raw", "recall">>] = Recalled(r.raw)
      /\ DOMAIN ranked \subseteq StageIds("ranked") /\ <<"ranked", "recall">> \in DOMAIN ranked
      /\ ranked[<<"ranked", "recall">>] = Recalled(r.ranked)
      /\ DOMAIN context \subseteq StageIds("context") /\ <<"context", "recall">> \in DOMAIN context
      /\ context[<<"context", "recall">>] = Recalled(r.context)
  BY StageMetricsAre
<1>4. /\ DOMAIN d = D
      /\ d[<<"ranked", "delta">>] = Difference(Recalled(r.ranked), Recalled(r.raw))
      /\ d[<<"context", "loss">>] = Difference(Recalled(r.ranked), Recalled(r.context))
  <2>1. d[<<"ranked", "delta">>] = Difference(ranked[<<"ranked", "recall">>], raw[<<"raw", "recall">>])
    OBVIOUS
  <2>2. d[<<"context", "loss">>]
          = Difference(ranked[<<"ranked", "recall">>], context[<<"context", "recall">>])
    OBVIOUS
  <2>. QED
    BY <1>3, <2>1, <2>2
<1>5. DOMAIN answers = AnswerIds
  BY DEF AnswerMetrics
<1>. HIDE DEF raw, ranked, context, d, two, three, all, answers
<1>6. DOMAIN two = DOMAIN raw \cup DOMAIN ranked /\ DOMAIN three = DOMAIN two \cup DOMAIN context
      /\ DOMAIN all = DOMAIN three \cup D
  BY <1>4, OverDomain DEF two, three, all
<1>7. \A id \in DOMAIN three : /\ id \notin AnswerIds
                               /\ id # <<"ranked", "delta">> /\ id # <<"context", "loss">>
  <2>1. "raw" \in Stages /\ "ranked" \in Stages /\ "context" \in Stages
    BY DEF Stages
  <2>. QED
    BY <1>3, <1>6, <2>1, StageIdsApart
<1>8. /\ two[<<"raw", "recall">>] = Recalled(r.raw)
      /\ two[<<"ranked", "recall">>] = Recalled(r.ranked)
  <2>1. <<"ranked", "recall">> \notin DOMAIN raw
    <3>1. <<"ranked", "recall">>[1] # "raw"
      OBVIOUS
    <3>. QED
      BY <1>3, <3>1, StageIdsApart
  <2>2. two[<<"raw", "recall">>] = raw[<<"raw", "recall">>]
    BY <1>3, OverLeft DEF two
  <2>3. two[<<"ranked", "recall">>] = ranked[<<"ranked", "recall">>]
    BY <1>3, <2>1, OverRight DEF two
  <2>. QED
    BY <1>3, <2>2, <2>3
<1>9. /\ three[<<"raw", "recall">>] = Recalled(r.raw)
      /\ three[<<"ranked", "recall">>] = Recalled(r.ranked)
      /\ three[<<"context", "recall">>] = Recalled(r.context)
  <2>1. <<"context", "recall">> \notin DOMAIN two
    <3>1. <<"context", "recall">>[1] # "raw" /\ <<"context", "recall">>[1] # "ranked"
      OBVIOUS
    <3>. QED
      BY <1>3, <1>6, <3>1, StageIdsApart
  <2>2. <<"raw", "recall">> \in DOMAIN two /\ <<"ranked", "recall">> \in DOMAIN two
    BY <1>3, <1>6
  <2>3. three[<<"raw", "recall">>] = two[<<"raw", "recall">>]
        /\ three[<<"ranked", "recall">>] = two[<<"ranked", "recall">>]
    BY <2>2, OverLeft DEF three
  <2>4. three[<<"context", "recall">>] = context[<<"context", "recall">>]
    BY <1>3, <2>1, OverRight DEF three
  <2>. QED
    BY <1>3, <1>8, <2>3, <2>4
<1>10. <<"raw", "recall">> \in DOMAIN three /\ <<"ranked", "recall">> \in DOMAIN three
       /\ <<"context", "recall">> \in DOMAIN three
  BY <1>3, <1>6
<1>11. /\ \A id \in DOMAIN three : all[id] = three[id] /\ id \in DOMAIN all
       /\ \A id \in D : all[id] = d[id] /\ id \in DOMAIN all
  <2>1. \A id \in DOMAIN three : all[id] = three[id]
    BY OverLeft DEF all
  <2>2. \A id \in D : id \in DOMAIN d /\ id \notin DOMAIN three
    BY <1>4, <1>7
  <2>3. \A id \in D : all[id] = d[id]
    BY <2>2, OverRight DEF all
  <2>. QED
    BY <1>6, <2>1, <2>3
<1>12. \A id \in DOMAIN all : (all ++ answers)[id] = all[id]
  BY OverLeft
<1>13. \A id \in AnswerIds : (all ++ answers)[id] = answers[id]
  <2>1. \A id \in D : id \notin AnswerIds
    BY DEF AnswerIds
  <2>2. \A id \in AnswerIds : id \in DOMAIN answers /\ id \notin DOMAIN all
    BY <1>5, <1>6, <1>7, <2>1
  <2>. QED
    BY <2>2, OverRight
<1>14. /\ EvaluateCase(r)[<<"raw", "recall">>] = Recalled(r.raw)
       /\ EvaluateCase(r)[<<"ranked", "recall">>] = Recalled(r.ranked)
       /\ EvaluateCase(r)[<<"context", "recall">>] = Recalled(r.context)
  BY <1>2, <1>9, <1>10, <1>11, <1>12
<1>15. /\ EvaluateCase(r)[<<"ranked", "delta">>] = Difference(Recalled(r.ranked), Recalled(r.raw))
       /\ EvaluateCase(r)[<<"context", "loss">>] = Difference(Recalled(r.ranked), Recalled(r.context))
  BY <1>2, <1>4, <1>11, <1>12
<1>16. \A id \in AnswerIds : EvaluateCase(r)[id] = AnswerMetrics(r)[id]
  BY <1>2, <1>13 DEF answers
<1>. QED
  BY <1>14, <1>15, <1>16

-----------------------------------------------------------------------------
(* A stage loses the evidence when it misses what the stage before it had.  *)

StrictStage(stage) == stage = None \/ Ranked(stage.loc)

(* A recall is observed of a stage that is shown and decided, and whole     *)
(* when the stage completes a path.                                         *)
LEMMA RecalledIs ==
    ASSUME NEW stage, StrictStage(stage)
    PROVE  LET m == Recalled(stage)
           IN  /\ m.hits \in Nat /\ m.of \in Nat \ {0}
               /\ m.status \in {"observed", "unavailable"}
               /\ m.status = "observed" <=> stage # None /\ ~ Undecided(stage)
               /\ m.status = "observed" => m.hits <= m.of
               /\ Whole(m) <=> Completed(stage)
<1>. DEFINE m == Recalled(stage)
<1>1. CASE stage = None
  <2>1. m = [status |-> "unavailable", hits |-> 0, of |-> 1]
    BY <1>1 DEF Recalled, Unavailable
  <2>. QED
    BY <1>1, <2>1 DEF Whole, Completed
<1>2. CASE stage # None /\ Undecided(stage)
  <2>1. Unobservable(stage.loc, Paths) /\ ~ CompletePath(stage.loc, Paths)
    BY <1>2 DEF Undecided, Unobservable
  <2>2. m = [status |-> "unavailable", hits |-> 0, of |-> 1]
    BY <1>2, <2>1 DEF Recalled, Recall, Unavailable
  <2>. QED
    BY <1>2, <2>1, <2>2 DEF Whole, Completed
<1>3. CASE stage # None /\ ~ Undecided(stage)
  <2>. DEFINE loc  == stage.loc
              rank == [p \in ToSet(Paths) |-> LastRank(loc, p)]
              best == Paths[BestBy(loc, Paths, rank)]
  <2>1. Ranked(loc) /\ ~ Unobservable(loc, Paths)
    BY <1>3 DEF StrictStage, Undecided
  <2>2. Ranking(rank)
    BY <2>1, RankingsAre
  <2>3. best \in PathSet /\ (IsComplete(loc, best) <=> CompletePath(loc, Paths))
    <3>. HIDE DEF rank
    <3>. QED
      BY <2>2, BestOfComplete
  <2>4. m = Observed(Hits(loc, best), Len(best))
    BY <1>3, <2>1 DEF Recalled, Recall, BestPath, Hits
  <2>5. /\ Len(best) \in Nat \ {0} /\ Hits(loc, best) \in Nat /\ Hits(loc, best) <= Len(best)
        /\ Hits(loc, best) = Len(best) <=> IsComplete(loc, best)
    <3>. HIDE DEF best
    <3>. QED
      BY <2>3, HitsCounted DEF Hits
  <2>6. /\ m.hits = Hits(loc, best) /\ m.of = Len(best) /\ m.status = "observed"
        /\ Whole(m) <=> Hits(loc, best) = Len(best)
    BY <2>4, ObservedIs
  <2>. HIDE DEF best, m
  <2>. QED
    BY <1>3, <2>3, <2>5, <2>6 DEF Completed, m
<1>. QED
  BY <1>1, <1>2, <1>3

LEMMA CompletedIsDecided ==
    ASSUME NEW stage, Completed(stage)
    PROVE  stage # None /\ ~ Undecided(stage)
BY DEF Completed, Undecided, Unobservable

(* A difference from a whole recall has the sign of what the other misses.  *)
LEMMA DifferenceIs ==
    ASSUME NEW whole, NEW part,
           whole.hits \in Nat, whole.of \in Nat \ {0}, part.hits \in Nat, part.of \in Nat \ {0},
           whole.status \in {"observed", "unavailable"}, part.status \in {"observed", "unavailable"},
           part.status = "observed" => part.hits <= part.of, Whole(whole)
    PROVE  /\ Difference(part, whole).status = "observed" /\ Difference(part, whole).hits < 0
                <=> part.status = "observed" /\ ~ Whole(part)
           /\ Positive(Difference(whole, part)) <=> part.status = "observed" /\ ~ Whole(part)
<1>1. whole.status = "observed" /\ whole.hits = whole.of
  BY DEF Whole
<1>2. CASE part.status = "unavailable"
  <2>1. Difference(part, whole) = Unavailable /\ Difference(whole, part) = Unavailable
    BY <1>2 DEF Difference
  <2>2. Unavailable.status # "observed"
    BY DEF Unavailable
  <2>. QED
    BY <1>2, <2>1, <2>2 DEF Positive
<1>3. CASE part.status = "observed"
  <2>1. /\ Difference(part, whole)
             = Observed(part.hits * whole.of - whole.hits * part.of, part.of * whole.of)
        /\ Difference(whole, part)
             = Observed(whole.hits * part.of - part.hits * whole.of, whole.of * part.of)
    BY <1>1, <1>3 DEF Difference
  <2>. DEFINE x == part.hits * whole.of
              y == whole.hits * part.of
  <2>2. /\ Difference(part, whole).status = "observed" /\ Difference(part, whole).hits = x - y
        /\ Difference(whole, part).status = "observed" /\ Difference(whole, part).hits = y - x
    BY <2>1, ObservedIs
  <2>3. Whole(part) <=> part.hits = part.of
    BY <1>3 DEF Whole
  <2>4. x \in Nat /\ y \in Nat
    <3>1. \A a, b \in Nat : a * b \in Nat
      OBVIOUS
    <3>. QED
      BY <3>1
  <2>5. y = part.of * whole.of
    <3>1. y = whole.of * part.of
      BY <1>1
    <3>. QED
      BY <3>1, TimesShuffle
  <2>6. x <= y
    BY <1>3, <2>5, TimesMonotone
  <2>7. x = y <=> part.hits = part.of
    <3>1. part.hits * whole.of = part.of * whole.of => part.hits = part.of
      BY TimesCancels
    <3>. QED
      BY <2>5, <3>1
  <2>. HIDE DEF x, y
  <2>8. x - y < 0 <=> ~ Whole(part)
    BY <2>3, <2>4, <2>6, <2>7
  <2>9. y - x > 0 <=> ~ Whole(part)
    BY <2>3, <2>4, <2>6, <2>7
  <2>. QED
    BY <1>3, <2>2, <2>8, <2>9 DEF Positive
<1>. QED
  BY <1>2, <1>3

-----------------------------------------------------------------------------
(* The labels of a strict case, one by one. *)

LEMMA StrictLabelsAre ==
    ASSUME NEW r, NEW metrics
    PROVE  LET labels   == AssessLabels(r, metrics)
               accuracy == metrics[<<"answer", "accuracy">>]
               lost(from, to) == /\ from # None /\ to # None
                                 /\ ~ Undecided(to) /\ Completed(from) /\ ~ Completed(to)
               blind == \/ Undecided(r.raw)
                        \/ r.raw # None /\ Undecided(r.ranked)
                        \/ r.ranked # None /\ Undecided(r.context)
           IN  /\ "retrieval_missing" \in labels
                    <=> r.raw # None /\ ~ Undecided(r.raw) /\ ~ Completed(r.raw)
               /\ "ranking_failure" \in labels <=> lost(r.raw, r.ranked)
               /\ "context_selection_loss" \in labels <=> lost(r.ranked, r.context)
               /\ "generation_failure" \in labels =>
                    accuracy.status = "observed" /\ accuracy.hits = 0
               /\ "needs_review" \notin labels =>
                    ~ blind /\ r.raw # None /\ r.ranked # None /\ r.context # None
<1>. DEFINE labels   == AssessLabels(r, metrics)
            accuracy == metrics[<<"answer", "accuracy">>]
            grounded == metrics[<<"answer", "grounded">>]
            lost(from, to) == /\ from # None /\ to # None
                              /\ ~ Undecided(to) /\ Completed(from) /\ ~ Completed(to)
            blind == \/ Undecided(r.raw)
                     \/ r.raw # None /\ Undecided(r.ranked)
                     \/ r.ranked # None /\ Undecided(r.context)
            missing == r.raw # None /\ ~ Undecided(r.raw) /\ ~ Completed(r.raw)
            ranking == lost(r.raw, r.ranked)
            loss == lost(r.ranked, r.context)
            generation == Completed(r.context) /\ accuracy.status = "observed" /\ accuracy.hits = 0
            unsupported == r.context # None /\ r.context.empty
                           /\ grounded.status = "observed" /\ grounded.hits = 0
            review == \/ blind
                      \/ None \in {r.raw, r.ranked, r.context}
                      \/ \E id \in DOMAIN metrics : metrics[id].status = "needs_review"
            holds == [provenance_unavailable |-> blind, retrieval_missing |-> missing,
                      ranking_failure |-> ranking, context_selection_loss |-> loss,
                      generation_failure |-> generation, unsupported_answer |-> unsupported,
                      needs_review |-> review]
<1>1. labels = {l \in DOMAIN holds : holds[l]}
  BY DEF AssessLabels
<1>. HIDE DEF labels, blind, missing, ranking, loss, generation, unsupported, review
<1>2. /\ "retrieval_missing" \in labels <=> missing
      /\ "ranking_failure" \in labels <=> ranking
      /\ "context_selection_loss" \in labels <=> loss
      /\ "generation_failure" \in labels <=> generation
      /\ "needs_review" \in labels <=> review
  BY <1>1
<1>. QED
  BY <1>2 DEF labels, blind, missing, ranking, loss, generation, review

(* The two assessments of a strict case tell one story. *)
LEMMA StrictBlame ==
    ASSUME NEW r \in StrictResults
    PROVE  LET metrics == EvaluateCase(r)
               labels == AssessLabels(r, metrics)
               raw == metrics[<<"raw", "recall">>]
               ranked == metrics[<<"ranked", "recall">>]
               context == metrics[<<"context", "recall">>]
               delta == metrics[<<"ranked", "delta">>]
               loss == metrics[<<"context", "loss">>]
           IN  /\ "retrieval_missing" \in labels <=> raw.status = "observed" /\ ~ Whole(raw)
               /\ "ranking_failure" \in labels
                    <=> Whole(raw) /\ delta.status = "observed" /\ delta.hits < 0
               /\ "context_selection_loss" \in labels <=> Whole(ranked) /\ Positive(loss)
               /\ "needs_review" \notin labels /\ ~ Whole(context) =>
                    \/ "retrieval_missing" \in labels \/ "ranking_failure" \in labels
                    \/ "context_selection_loss" \in labels
<1>. DEFINE metrics == EvaluateCase(r)
            labels == AssessLabels(r, metrics)
            raw == Recalled(r.raw)
            ranked == Recalled(r.ranked)
            context == Recalled(r.context)
            delta == Difference(ranked, raw)
            loss == Difference(ranked, context)
            lost(from, to) == /\ from # None /\ to # None
                              /\ ~ Undecided(to) /\ Completed(from) /\ ~ Completed(to)
<1>1. StrictStage(r.raw) /\ StrictStage(r.ranked) /\ StrictStage(r.context)
  <2>1. r.raw \in StageValues /\ r.ranked \in StageValues /\ r.context \in StageValues
    BY DEF StrictResults
  <2>. QED
    BY <2>1, RanksAssumption DEF StrictStage, Ranked
<1>2. /\ raw.hits \in Nat /\ raw.of \in Nat \ {0} /\ raw.status \in {"observed", "unavailable"}
      /\ raw.status = "observed" <=> r.raw # None /\ ~ Undecided(r.raw)
      /\ Whole(raw) <=> Completed(r.raw)
  BY <1>1, RecalledIs
<1>3. /\ ranked.hits \in Nat /\ ranked.of \in Nat \ {0}
      /\ ranked.status \in {"observed", "unavailable"}
      /\ ranked.status = "observed" <=> r.ranked # None /\ ~ Undecided(r.ranked)
      /\ ranked.status = "observed" => ranked.hits <= ranked.of
      /\ Whole(ranked) <=> Completed(r.ranked)
  BY <1>1, RecalledIs
<1>4. /\ context.hits \in Nat /\ context.of \in Nat \ {0}
      /\ context.status \in {"observed", "unavailable"}
      /\ context.status = "observed" <=> r.context # None /\ ~ Undecided(r.context)
      /\ context.status = "observed" => context.hits <= context.of
      /\ Whole(context) <=> Completed(r.context)
  BY <1>1, RecalledIs
<1>5. /\ "retrieval_missing" \in labels
           <=> r.raw # None /\ ~ Undecided(r.raw) /\ ~ Completed(r.raw)
      /\ "ranking_failure" \in labels <=> lost(r.raw, r.ranked)
      /\ "context_selection_loss" \in labels <=> lost(r.ranked, r.context)
      /\ "needs_review" \notin labels =>
           /\ ~ (\/ Undecided(r.raw)
                 \/ r.raw # None /\ Undecided(r.ranked)
                 \/ r.ranked # None /\ Undecided(r.context))
           /\ r.raw # None /\ r.ranked # None /\ r.context # None
  <2>. HIDE DEF metrics
  <2>. QED
    BY StrictLabelsAre
<1>6. /\ Completed(r.raw) => r.raw # None
      /\ Completed(r.ranked) => r.ranked # None
  BY CompletedIsDecided
<1>. HIDE DEF labels, raw, ranked, context
<1>7. Whole(raw) =>
        (delta.status = "observed" /\ delta.hits < 0 <=> ranked.status = "observed" /\ ~ Whole(ranked))
  BY <1>2, <1>3, DifferenceIs
<1>8. Whole(ranked) => (Positive(loss) <=> context.status = "observed" /\ ~ Whole(context))
  BY <1>3, <1>4, DifferenceIs
<1>. HIDE DEF delta, loss
<1>9. /\ "retrieval_missing" \in labels <=> raw.status = "observed" /\ ~ Whole(raw)
      /\ "ranking_failure" \in labels <=> Whole(raw) /\ delta.status = "observed" /\ delta.hits < 0
      /\ "context_selection_loss" \in labels <=> Whole(ranked) /\ Positive(loss)
  BY <1>2, <1>3, <1>4, <1>5, <1>6, <1>7, <1>8
<1>10. "needs_review" \notin labels /\ ~ Whole(context) =>
          \/ "retrieval_missing" \in labels \/ "ranking_failure" \in labels
          \/ "context_selection_loss" \in labels
  BY <1>2, <1>3, <1>4, <1>5
<1>11. /\ metrics[<<"raw", "recall">>] = raw
       /\ metrics[<<"ranked", "recall">>] = ranked
       /\ metrics[<<"context", "recall">>] = context
       /\ metrics[<<"ranked", "delta">>] = delta
       /\ metrics[<<"context", "loss">>] = loss
  BY StrictMetricsAre DEF raw, ranked, context, delta, loss
<1>12. labels = AssessLabels(r, EvaluateCase(r))
  BY DEF labels
<1>. HIDE DEF metrics
<1>. QED
  BY <1>9, <1>10, <1>11, <1>12 DEF metrics

(* For every evidence set and whatever the adapter shows: the failure       *)
(* assessment of a strict case blames the stage its metrics blame.          *)
THEOREM OneStory == Spec => []BlameMatchesMetrics
<1>1. CaseOfResult => BlameMatchesMetrics
  <2>1. SUFFICES ASSUME CaseOfResult, Scoring("strict") PROVE BlameMatchesMetrics
    BY DEF BlameMatchesMetrics
  <2>2. /\ result \in StrictResults
        /\ case.metrics = EvaluateCase(result)
        /\ case.labels = AssessLabels(result, EvaluateCase(result))
    BY <2>1 DEF CaseOfResult
  <2>. DEFINE metrics == EvaluateCase(result)
              labels == AssessLabels(result, metrics)
              raw == metrics[<<"raw", "recall">>]
              ranked == metrics[<<"ranked", "recall">>]
              context == metrics[<<"context", "recall">>]
              delta == metrics[<<"ranked", "delta">>]
              loss == metrics[<<"context", "loss">>]
  <2>3. /\ "retrieval_missing" \in labels <=> raw.status = "observed" /\ ~ Whole(raw)
        /\ "ranking_failure" \in labels
             <=> Whole(raw) /\ delta.status = "observed" /\ delta.hits < 0
        /\ "context_selection_loss" \in labels <=> Whole(ranked) /\ Positive(loss)
        /\ "needs_review" \notin labels /\ ~ Whole(context) =>
             \/ "retrieval_missing" \in labels \/ "ranking_failure" \in labels
             \/ "context_selection_loss" \in labels
    BY <2>2, StrictBlame
  <2>4. Certainty(labels) = "deterministic" => "needs_review" \notin labels
    BY DEF Certainty
  <2>5. case.metrics = metrics /\ case.labels = labels
    BY <2>2
  <2>. HIDE DEF metrics, labels
  <2>. QED
    BY <2>3, <2>4, <2>5 DEF BlameMatchesMetrics, Metric
<1>. QED
  BY <1>1, CaseFollowsResult, PTL

-----------------------------------------------------------------------------
(* An answer free of unsupported claims. *)

LEMMA AnswerNames ==
    /\ <<"answer", "accuracy">> \in AnswerIds /\ <<"answer", "grounded">> \in AnswerIds
    /\ <<"answer", "unsupported">> \in AnswerIds
    /\ "accuracy" # "grounded" /\ "accuracy" # "unsupported" /\ "grounded" # "unsupported"
BY DEF AnswerIds

(* Of a strict case: support is observed only of a passed answer on a       *)
(* complete context.                                                        *)
LEMMA StrictSupport ==
    ASSUME NEW r \in StrictResults,
           AnswerMetrics(r)[<<"answer", "unsupported">>].status = "observed"
    PROVE  /\ AnswerMetrics(r)[<<"answer", "unsupported">>] = Observed(0, 1)
           /\ AnswerMetrics(r)[<<"answer", "accuracy">>] = Observed(1, 1)
           /\ AnswerMetrics(r)[<<"answer", "grounded">>] = Observed(1, 1)
<1>. DEFINE m == AnswerMetrics(r)
            decided == r.context # None /\ ~ Undecided(r.context)
            grounded == IF ~ decided THEN Unavailable
                        ELSE Observed(IF Completed(r.context) THEN 1 ELSE 0, 1)
            unsupported == IF decided /\ Completed(r.context) /\ r.verdict = "pass"
                           THEN Observed(0, 1) ELSE NeedsReview
            answers == [id \in AnswerIds |->
                          CASE id[2] = "accuracy"    -> Accuracy(r.verdict)
                            [] id[2] = "grounded"    -> grounded
                            [] id[2] = "unsupported" -> unsupported]
<1>1. m = IF ~ r.wanted THEN [id \in AnswerIds |-> NotApplicable] ELSE answers
  BY DEF AnswerMetrics
<1>2. /\ answers[<<"answer", "accuracy">>] = Accuracy(r.verdict)
      /\ answers[<<"answer", "grounded">>] = grounded
      /\ answers[<<"answer", "unsupported">>] = unsupported
  <2>. HIDE DEF grounded, unsupported
  <2>. QED
    BY AnswerNames
<1>. HIDE DEF m, grounded, unsupported, answers
<1>3. r.wanted
  <2>1. NotApplicable.status # "observed"
    BY DEF NotApplicable, Status
  <2>2. SUFFICES ASSUME ~ r.wanted PROVE FALSE
    OBVIOUS
  <2>3. m[<<"answer", "unsupported">>] = NotApplicable
    BY <1>1, <2>2, AnswerNames
  <2>. QED
    BY <2>1, <2>3 DEF m
<1>4. m[<<"answer", "unsupported">>] = unsupported
  BY <1>1, <1>2, <1>3
<1>5. decided /\ Completed(r.context) /\ r.verdict = "pass"
  <2>1. NeedsReview.status # "observed"
    BY DEF NeedsReview, Status
  <2>2. unsupported # NeedsReview
    BY <1>4, <2>1 DEF m
  <2>. QED
    BY <2>2 DEF unsupported
<1>6. unsupported = Observed(0, 1) /\ grounded = Observed(1, 1)
  BY <1>5 DEF unsupported, grounded
<1>7. m[<<"answer", "accuracy">>] = Accuracy(r.verdict) /\ m[<<"answer", "grounded">>] = grounded
  BY <1>1, <1>2, <1>3
<1>8. Accuracy(r.verdict) = Observed(1, 1)
  BY <1>5 DEF Accuracy
<1>. QED
  BY <1>4, <1>6, <1>7, <1>8 DEF m

(* Of a segment case: support is observed only of a blank answer, of an     *)
(* answer that rightly abstains, or of a passed one on a complete context.  *)
LEMMA SegmentSupport ==
    ASSUME NEW r \in SegmentResults, NEW context,
           SegmentAnswer(r, context)[<<"answer", "unsupported">>].status = "observed"
    PROVE  /\ SegmentAnswer(r, context)[<<"answer", "unsupported">>] = Observed(0, 1)
           /\ \/ r.blank \/ r.abstain
              \/ /\ SegmentAnswer(r, context)[<<"answer", "accuracy">>] = Observed(1, 1)
                 /\ Whole(SegmentAnswer(r, context)[<<"answer", "grounded">>])
<1>. DEFINE m == SegmentAnswer(r, context)
            grounding == Grounding(r, context)
            support == Hallucination(r, context)
            answers == [id \in AnswerIds |->
                          CASE id[2] = "accuracy"    -> Accuracy(r.verdict)
                            [] id[2] = "grounded"    -> grounding
                            [] id[2] = "unsupported" -> support]
<1>1. m = IF ~ r.wanted THEN [id \in AnswerIds |-> NotApplicable] ELSE answers
  BY DEF SegmentAnswer
<1>2. support = IF context \in {"runtime_error", "mapping_corrupted"} THEN ErrorMetric
                ELSE IF \/ r.blank
                        \/ r.verdict = "pass" /\ (r.abstain \/ Whole(grounding))
                     THEN Observed(0, 1) ELSE NeedsReview
  BY DEF Hallucination
<1>. HIDE DEF grounding, support
<1>3. /\ answers[<<"answer", "accuracy">>] = Accuracy(r.verdict)
       /\ answers[<<"answer", "grounded">>] = grounding
       /\ answers[<<"answer", "unsupported">>] = support
  BY AnswerNames
<1>. HIDE DEF m, answers
<1>4. r.wanted
  <2>1. NotApplicable.status # "observed"
    BY DEF NotApplicable, Status
  <2>2. SUFFICES ASSUME ~ r.wanted PROVE FALSE
    OBVIOUS
  <2>3. m[<<"answer", "unsupported">>] = NotApplicable
    BY <1>1, <2>2, AnswerNames
  <2>. QED
    BY <2>1, <2>3 DEF m
<1>5. /\ m[<<"answer", "accuracy">>] = Accuracy(r.verdict)
      /\ m[<<"answer", "grounded">>] = grounding
      /\ m[<<"answer", "unsupported">>] = support
  BY <1>1, <1>4, <1>3
<1>6. support.status = "observed"
  BY <1>5 DEF m
<1>7. ErrorMetric.status # "observed" /\ NeedsReview.status # "observed"
  BY DEF ErrorMetric, NeedsReview, Status
<1>8. support # ErrorMetric /\ support # NeedsReview
  BY <1>6, <1>7
<1>9. /\ support = Observed(0, 1)
      /\ r.blank \/ r.abstain \/ (r.verdict = "pass" /\ Whole(grounding))
  <2>1. r.blank \in BOOLEAN /\ r.abstain \in BOOLEAN
    BY DEF SegmentResults
  <2>. QED
    BY <1>2, <1>8, <2>1
<1>10. r.verdict = "pass" => Accuracy(r.verdict) = Observed(1, 1)
  BY DEF Accuracy
<1>. QED
  BY <1>5, <1>9, <1>10 DEF m

(* A generation failure of a segment case is one of an inaccurate answer.   *)
LEMMA SegmentLabelsAre ==
    ASSUME NEW outcome, NEW metrics, "generation_failure" \in SegmentLabels(outcome, metrics)
    PROVE  metrics[<<"answer", "accuracy">>].hits = 0
<1>. DEFINE accuracy == metrics[<<"answer", "accuracy">>]
            ranking == outcome["raw"] = "complete" /\ outcome["ranked"] # "complete"
            loss == outcome["ranked"] = "complete" /\ outcome["context"] # "complete"
            generation == outcome["context"] = "complete"
                          /\ accuracy.status = "observed" /\ accuracy.hits = 0
            unsupported == Positive(metrics[<<"answer", "unsupported">>])
            review == \E id \in AnswerIds : metrics[id].status = "needs_review"
            holds == [ranking_failure |-> ranking, context_selection_loss |-> loss,
                      generation_failure |-> generation, unsupported_answer |-> unsupported,
                      needs_review |-> review]
            reported == {"retrieval_missing", "partial_coverage", "unsupported_stage",
                         "runtime_error", "mapping_corrupted"}
<1>1. SegmentLabels(outcome, metrics)
        = ({outcome[name] : name \in Stages} \cap reported) \cup {l \in DOMAIN holds : holds[l]}
  BY DEF SegmentLabels
<1>2. "generation_failure" \notin reported
  OBVIOUS
<1>. HIDE DEF ranking, loss, generation, unsupported, review, reported
<1>3. generation
  <2>1. "generation_failure" \in {l \in DOMAIN holds : holds[l]}
    BY <1>1, <1>2
  <2>. QED
    BY <2>1
<1>. QED
  BY <1>3 DEF generation

(* For every evidence set and whatever the adapter shows: an answer is      *)
(* called free of unsupported claims only on support it has.                *)
THEOREM SupportNeedsContext == Spec => []SupportIsEarned
<1>. DEFINE support == Metric(<<"answer", "unsupported">>)
            accuracy == Metric(<<"answer", "accuracy">>)
            grounded == Metric(<<"answer", "grounded">>)
            quiet == result.kind = "segment" /\ (result.blank \/ result.abstain)
<1>1. CaseOfResult => SupportIsEarned
  <2>1. SUFFICES ASSUME CaseOfResult, Scoring("strict") \/ Scoring("segment"),
                        support.status = "observed"
                 PROVE  /\ ~ Positive(support)
                        /\ quiet \/ (Whole(accuracy) /\ Whole(grounded))
                        /\ "generation_failure" \in case.labels => quiet
    BY DEF SupportIsEarned
  <2>2. ~ Positive(Observed(0, 1)) /\ Whole(Observed(1, 1)) /\ Observed(1, 1).hits # 0
    BY DEF Positive, Whole, Observed
  <2>3. CASE Scoring("strict")
    <3>1. /\ result \in StrictResults
          /\ case.metrics = EvaluateCase(result)
          /\ case.labels = AssessLabels(result, EvaluateCase(result))
      BY <2>1, <2>3 DEF CaseOfResult
    <3>2. \A id \in AnswerIds : EvaluateCase(result)[id] = AnswerMetrics(result)[id]
      BY StrictMetricsAre
    <3>3. \A id \in AnswerIds : Metric(id) = AnswerMetrics(result)[id]
      BY <3>1, <3>2 DEF Metric
    <3>4. AnswerMetrics(result)[<<"answer", "unsupported">>].status = "observed"
      BY <2>1, <3>3, AnswerNames
    <3>5. support = Observed(0, 1) /\ accuracy = Observed(1, 1) /\ grounded = Observed(1, 1)
      BY <3>1, <3>3, <3>4, StrictSupport, AnswerNames
    <3>6. "generation_failure" \in case.labels => EvaluateCase(result)[<<"answer", "accuracy">>].hits = 0
      BY <3>1, StrictLabelsAre
    <3>7. EvaluateCase(result)[<<"answer", "accuracy">>] = Observed(1, 1)
      BY <3>2, <3>3, <3>5, AnswerNames
    <3>8. "generation_failure" \notin case.labels
      BY <2>2, <3>6, <3>7
    <3>. QED
      BY <2>2, <3>5, <3>8
  <2>4. CASE Scoring("segment")
    <3>. DEFINE outcome == Outcomes(result, KnownSegments)
                answer == SegmentAnswer(result, outcome["context"])
    <3>1. /\ result \in SegmentResults
          /\ case.metrics = SegmentMetrics(result)
          /\ case.labels = SegmentLabels(outcome, SegmentMetrics(result))
      BY <2>1, <2>4 DEF CaseOfResult
    <3>2. \A id \in AnswerIds : SegmentMetrics(result)[id] = answer[id]
      BY SegmentMetricsAre DEF SegmentMetrics
    <3>. HIDE DEF answer
    <3>3. \A id \in AnswerIds : Metric(id) = answer[id]
      BY <3>1, <3>2 DEF Metric
    <3>4. answer[<<"answer", "unsupported">>].status = "observed"
      BY <2>1, <3>3, AnswerNames
    <3>5. /\ answer[<<"answer", "unsupported">>] = Observed(0, 1)
          /\ \/ result.blank \/ result.abstain
             \/ /\ answer[<<"answer", "accuracy">>] = Observed(1, 1)
                /\ Whole(answer[<<"answer", "grounded">>])
      BY <3>1, <3>4, SegmentSupport DEF answer
    <3>6. result.kind = "segment"
      BY <3>1 DEF SegmentResults
    <3>7. /\ support = Observed(0, 1)
          /\ quiet \/ (accuracy = Observed(1, 1) /\ Whole(grounded))
      BY <3>3, <3>5, <3>6, AnswerNames
    <3>8. "generation_failure" \in case.labels => accuracy.hits = 0
      <4>. HIDE DEF outcome
      <4>1. "generation_failure" \in case.labels =>
               SegmentMetrics(result)[<<"answer", "accuracy">>].hits = 0
        BY <3>1, SegmentLabelsAre
      <4>. QED
        BY <3>1, <4>1 DEF Metric
    <3>. HIDE DEF support, accuracy, grounded, quiet
    <3>. QED
      BY <2>2, <3>7, <3>8
  <2>. QED
    BY <2>1, <2>3, <2>4
<1>. QED
  BY <1>1, CaseFollowsResult, PTL

-----------------------------------------------------------------------------
(* What a declared winner means (comparison.py), for any queue of runs, any *)
(* manifests, comparison specs, slots and metrics.  The inductive invariant *)
(* IInv relates the three files of a run, and keeps a decision true to the  *)
(* runs it was computed from:                                               *)
(*   Typed      manifests and results are of the right kinds,               *)
(*   Sealed     a completed run has scored every slot, and its summary is   *)
(*              the aggregate of what it scored,                            *)
(*   Decisive   a decision is the validation of started runs as they are.   *)

Statuses == {"running", "completed", "cancelled", "failed"}
Manifests == [status : Statuses, profile : Profiles]

Typed ==
    /\ manifest \in [ToSet(Runs) -> Manifests \cup {Absent}]
    /\ results \in [ToSet(Runs) -> Seq(CaseMetrics)]
    /\ summary = [r \in ToSet(Runs) |-> summary[r]]

Sealed ==
    \A r \in Started : manifest[r].status = "completed" =>
        /\ Len(results[r]) = Len(Slots)
        /\ summary[r] = AggregateMetrics(results[r])

DecisionOf(d) ==
    /\ d.runs \in Seq(Started)
    /\ d.spec \in Specs \cup {Absent}
    /\ d = ValidateComparison(d.runs, d.tier, d.spec)

Decisive == decision # Absent => DecisionOf(decision)

IInv == Typed /\ Sealed /\ Decisive

-----------------------------------------------------------------------------
(* Sets of at most one member.                                             *)

LEMMA ImageIsFinite ==
    ASSUME NEW S, IsFiniteSet(S), NEW g
    PROVE  IsFiniteSet({g[x] : x \in S})
<1>. DEFINE T == {g[x] : x \in S}
            f == [x \in S |-> g[x]]
<1>1. f \in Surjection(S, T)
  BY DEF Surjection
<1>. QED
  BY <1>1, FS_Surjection

LEMMA RangeIsFinite ==
    ASSUME NEW S, NEW s \in Seq(S)
    PROVE  IsFiniteSet(ToSet(s))
<1>1. IsFiniteSet(1..Len(s))
  BY FS_Interval
<1>2. ToSet(s) = {s[i] : i \in 1..Len(s)}
  BY DEF ToSet
<1>. QED
  BY <1>1, <1>2, ImageIsFinite

LEMMA AtMostOne ==
    ASSUME NEW S, IsFiniteSet(S), ~(Cardinality(S) > 1), NEW a \in S, NEW b \in S
    PROVE  a = b
<1>. SUFFICES ASSUME a # b PROVE FALSE
  OBVIOUS
<1>1. IsFiniteSet({b}) /\ Cardinality({b}) = 1
  BY FS_Singleton
<1>2. IsFiniteSet({b} \cup {a}) /\ Cardinality({b} \cup {a}) = 2
  BY <1>1, FS_AddElement
<1>3. Cardinality({b} \cup {a}) <= Cardinality(S)
  BY FS_Subset
<1>4. Cardinality(S) \in Nat
  BY FS_CardinalityType
<1>. QED
  BY <1>2, <1>3, <1>4

(* Where as many cases recorded a metric as there are, every case did. *)
LEMMA FullCoverage ==
    ASSUME NEW n \in Nat, NEW S \in SUBSET (1..n), Cardinality(S) >= n
    PROVE  S = 1..n
<1>1. IsFiniteSet(1..n) /\ Cardinality(1..n) = n
  BY FS_Interval
<1>2. IsFiniteSet(S) /\ Cardinality(S) <= n
  BY <1>1, FS_Subset
<1>3. Cardinality(S) = n
  BY <1>2, FS_CardinalityType
<1>. QED
  BY <1>1, <1>3, FS_Subset

(* Runs that do not differ in a value have the same one. *)
LEMMA RunsAreAlike ==
    ASSUME NEW S, NEW runs \in Seq(S), NEW g, ~Differ({g[x] : x \in ToSet(runs)}),
           NEW x \in ToSet(runs), NEW y \in ToSet(runs)
    PROVE  g[x] = g[y]
<1>1. IsFiniteSet({g[r] : r \in ToSet(runs)})
  BY RangeIsFinite, ImageIsFinite
<1>2. g[x] \in {g[r] : r \in ToSet(runs)} /\ g[y] \in {g[r] : r \in ToSet(runs)}
  OBVIOUS
<1>3. ~(Cardinality({g[r] : r \in ToSet(runs)}) > 1)
  BY DEF Differ
<1>. QED
  BY <1>1, <1>2, <1>3, AtMostOne

-----------------------------------------------------------------------------
(* A decision only reads the manifests and the summaries.                  *)

LEMMA DecisionReads ==
    ASSUME UNCHANGED <<manifest, summary>>, NEW runs, NEW tier, NEW spec
    PROVE  ValidateComparison(runs, tier, spec)' = ValidateComparison(runs, tier, spec)
<1>1. \A x : Profile(x)' = Profile(x)
  BY DEF Profile
<1>2. BaseReasons(runs)' = BaseReasons(runs)
  BY <1>1 DEF BaseReasons
<1>3. Drift(runs, spec)' = Drift(runs, spec)
  BY <1>1 DEF Drift
<1>4. StrictReasons(runs, spec)' = StrictReasons(runs, spec)
  <2>2. {Profile(x).models : x \in ToSet(runs)}' = {Profile(x).models : x \in ToSet(runs)}
    BY <1>1
  <2>3. {Profile(x).system : x \in ToSet(runs)}' = {Profile(x).system : x \in ToSet(runs)}
    BY <1>1
  <2>4. {Profile(x).build : x \in ToSet(runs)}' = {Profile(x).build : x \in ToSet(runs)}
    BY <1>1
  <2>. QED
    BY <1>1, <1>3, <2>2, <2>3, <2>4 DEF StrictReasons, Differ
<1>5. SpecReasons(runs, tier, spec)' = SpecReasons(runs, tier, spec)
  BY <1>1, <1>4 DEF SpecReasons
<1>6. Reasons(runs, tier, spec)' = Reasons(runs, tier, spec)
  BY <1>2, <1>5 DEF Reasons
<1>7. Decided(runs)' = Decided(runs)
  BY DEF Decided
<1>8. \A x, id : Sufficient(x, id, spec)' = Sufficient(x, id, spec)
  BY DEF Sufficient
<1>9. \A reasons : Comparable(runs, spec, reasons)' = Comparable(runs, spec, reasons)
  BY <1>7, <1>8 DEF Comparable
<1>. QED
  BY <1>6, <1>7, <1>9 DEF ValidateComparison

(* A step of the executor takes the decision away with it. *)
LEMMA StartRunKeeps ==
    ASSUME IInv, StartRun
    PROVE  IInv'
<1>1. PICK p \in Profiles :
          manifest' = [manifest EXCEPT ![Runs[Cardinality(Started) + 1]] = [status |-> "running", profile |-> p]]
  BY DEF StartRun
<1>2. decision' = Absent /\ UNCHANGED <<results, summary>>
  BY DEF StartRun
<1>3. [status |-> "running", profile |-> p] \in Manifests
  BY DEF Manifests, Statuses
<1>4. Typed'
  BY <1>1, <1>2, <1>3 DEF IInv, Typed
<1>5. ASSUME NEW r \in Started', manifest'[r].status = "completed"
      PROVE  r \in Started /\ manifest'[r] = manifest[r]
  BY <1>1, <1>5 DEF Started, IInv, Typed
<1>6. ASSUME NEW r \in Started', manifest'[r].status = "completed"
      PROVE  Len(results'[r]) = Len(Slots) /\ summary'[r] = AggregateMetrics(results'[r])
  BY <1>2, <1>5, <1>6 DEF Sealed, IInv
<1>7. Sealed'
  BY <1>6 DEF Sealed, AggregateMetrics, Recorded, AggregateStatus
<1>. QED
  BY <1>2, <1>4, <1>7 DEF IInv, Decisive

LEMMA ScoreSlotKeeps ==
    ASSUME IInv, NEW r \in Current, ScoreSlot(r)
    PROVE  IInv'
<1>1. PICK m \in CaseMetrics : results' = [results EXCEPT ![r] = Append(@, m)]
  BY DEF ScoreSlot
<1>2. decision' = Absent /\ UNCHANGED <<manifest, summary>>
  BY DEF ScoreSlot
<1>3. r \in ToSet(Runs) /\ results[r] \in Seq(CaseMetrics) /\ manifest[r].status = "running"
  BY DEF Current, Started, IInv, Typed
<1>4. Append(results[r], m) \in Seq(CaseMetrics)
  BY <1>3
<1>5. Typed'
  BY <1>1, <1>2, <1>4 DEF IInv, Typed
<1>6. \A x \in Started : manifest[x].status = "completed" => results'[x] = results[x]
  BY <1>1, <1>3 DEF Started, IInv, Typed
<1>7. Sealed'
  BY <1>2, <1>6 DEF Sealed, Started, IInv
<1>. QED
  BY <1>2, <1>5, <1>7 DEF IInv, Decisive

(* Completed after its last slot, or stopped before: the summary is of what*)
(* was scored.                                                             *)
LEMMA RunEndsKeeps ==
    ASSUME IInv, NEW r \in Current, SealRun(r) \/ FailRun(r)
    PROVE  IInv'
<1>1. PICK status \in {"completed", "cancelled", "failed"} :
          /\ status = "completed" => Len(results[r]) = Len(Slots)
          /\ manifest' = [manifest EXCEPT ![r].status = status]
  BY DEF SealRun, FailRun
<1>2. /\ summary' = [summary EXCEPT ![r] = AggregateMetrics(results[r])]
      /\ decision' = Absent /\ UNCHANGED results
  BY DEF SealRun, FailRun
<1>3. r \in ToSet(Runs) /\ manifest[r] \in Manifests
  BY DEF Current, Started, IInv, Typed
<1>4. [manifest[r] EXCEPT !.status = status] \in Manifests /\ status \in Statuses
  BY <1>3 DEF Manifests, Statuses
<1>5. manifest' = [manifest EXCEPT ![r] = [manifest[r] EXCEPT !.status = status]]
  BY <1>1
<1>6. Typed'
  BY <1>2, <1>4, <1>5 DEF IInv, Typed
<1>7. /\ summary'[r] = AggregateMetrics(results[r])
      /\ manifest'[r].status = status
      /\ \A x \in ToSet(Runs) : x # r => summary'[x] = summary[x] /\ manifest'[x] = manifest[x]
  BY <1>2, <1>3, <1>5 DEF IInv, Typed, Manifests
<1>8. ASSUME NEW x \in Started', manifest'[x].status = "completed"
      PROVE  Len(results'[x]) = Len(Slots) /\ summary'[x] = AggregateMetrics(results'[x])
  <2>1. CASE x = r
    BY <2>1, <1>1, <1>2, <1>7, <1>8
  <2>2. CASE x # r
    <3>1. x \in Started /\ manifest[x].status = "completed"
      BY <2>2, <1>7, <1>8 DEF Started
    <3>. QED
      BY <3>1, <2>2, <1>2, <1>7 DEF Started, Sealed, IInv
  <2>. QED
    BY <2>1, <2>2
<1>9. Sealed'
  BY <1>8 DEF Sealed, AggregateMetrics, Recorded, AggregateStatus
<1>. QED
  BY <1>2, <1>6, <1>9 DEF IInv, Decisive

LEMMA CompareKeeps ==
    ASSUME IInv, Compare
    PROVE  IInv'
<1>1. UNCHANGED <<manifest, results, summary>>
  BY DEF Compare
<1>2. PICK runs \in Selections, tier \in Tiers, spec \in Specs \cup {Absent} :
          decision' = ValidateComparison(runs, tier, spec)
  BY DEF Compare
<1>3. runs \in Seq(Started)
  BY DEF Selections
<1>4. /\ ValidateComparison(runs, tier, spec).runs = runs
      /\ ValidateComparison(runs, tier, spec).spec = spec
      /\ ValidateComparison(runs, tier, spec).tier = tier
  BY DEF ValidateComparison
<1>5. Started' = Started
  BY <1>1 DEF Started
<1>6. ValidateComparison(runs, tier, spec)' = ValidateComparison(runs, tier, spec)
  BY <1>1, DecisionReads
<1>7. DecisionOf(decision)'
  BY <1>2, <1>3, <1>4, <1>5, <1>6 DEF DecisionOf
<1>8. Typed' /\ Sealed'
  BY <1>1, <1>5 DEF IInv, Typed, Sealed
<1>. QED
  BY <1>7, <1>8 DEF IInv, Decisive

THEOREM DecisionsAreTrue == ComparisonSpec => []IInv
<1>1. ComparisonInit => IInv
  BY DEF ComparisonInit, IInv, Typed, Sealed, Started, Decisive
<1>2. IInv /\ [ComparisonNext]_comparisonVars => IInv'
  <2>. SUFFICES ASSUME IInv, [ComparisonNext]_comparisonVars PROVE IInv'
    OBVIOUS
  <2>1. CASE ComparisonNext
    BY <2>1, StartRunKeeps, ScoreSlotKeeps, RunEndsKeeps, CompareKeeps DEF ComparisonNext
  <2>2. CASE UNCHANGED comparisonVars
    <3>1. UNCHANGED <<manifest, results, summary, decision>>
      BY <2>2 DEF comparisonVars
    <3>2. Typed' /\ Sealed'
      BY <3>1 DEF IInv, Typed, Sealed, Started
    <3>3. Decisive'
      <4>. SUFFICES ASSUME decision # Absent PROVE DecisionOf(decision)'
        BY <3>1 DEF Decisive
      <4>1. PICK runs, tier, spec : runs = decision.runs /\ tier = decision.tier /\ spec = decision.spec
        OBVIOUS
      <4>2. ValidateComparison(runs, tier, spec)' = ValidateComparison(runs, tier, spec)
        BY <3>1, DecisionReads
      <4>3. Started' = Started
        BY <3>1 DEF Started
      <4>. QED
        BY <3>1, <4>1, <4>2, <4>3 DEF IInv, Decisive, DecisionOf
    <3>. QED
      BY <3>2, <3>3 DEF IInv
  <2>. QED
    BY <2>1, <2>2
<1>. QED
  BY <1>1, <1>2, PTL DEF ComparisonSpec

-----------------------------------------------------------------------------
(* What a declared winner says of its decision: nothing was held against   *)
(* the runs, and every decided primary metric is comparable.               *)

LEMMA DeclaredMeans ==
    ASSUME IInv, Declared
    PROVE  /\ decision.runs \in Seq(Started) /\ decision.runs # <<>>
           /\ decision.spec # Absent /\ decision.tier = "strict_controlled"
           /\ Reasons(decision.runs, "strict_controlled", decision.spec) = {}
           /\ decision.spec.primary \cap Decided(decision.runs)
                \subseteq Comparable(decision.runs, decision.spec, {})
<1>1. PICK runs, tier, spec : runs = decision.runs /\ tier = decision.tier /\ spec = decision.spec
  OBVIOUS
<1>2. decision = ValidateComparison(runs, tier, spec) /\ runs \in Seq(Started)
  BY <1>1 DEF IInv, Decisive, DecisionOf, Declared
<1>3. Len(runs) >= 2
  <2>. SUFFICES ASSUME Len(runs) < 2 PROVE FALSE
    BY <1>2
  <2>1. decision.winner = FALSE
    BY <1>2 DEF ValidateComparison
  <2>. QED
    BY <2>1 DEF Declared
<1>4. /\ Reasons(runs, tier, spec) = {} /\ tier = "strict_controlled"
      /\ (IF spec = Absent THEN {} ELSE spec.primary \cap Decided(runs)) # {}
      /\ (IF spec = Absent THEN {} ELSE spec.primary \cap Decided(runs))
            \subseteq Comparable(runs, spec, Reasons(runs, tier, spec))
  <2>1. ~(Len(runs) < 2)
    BY <1>2, <1>3
  <2>. QED
    BY <1>2, <2>1 DEF ValidateComparison, Declared
<1>5. spec # Absent /\ Reasons(runs, "strict_controlled", spec) = {}
  BY <1>4
<1>6. spec.primary \cap Decided(runs) \subseteq Comparable(runs, spec, {})
  BY <1>4, <1>5
<1>7. runs # <<>>
  BY <1>3
<1>. QED
  BY <1>1, <1>2, <1>4, <1>5, <1>6, <1>7

LEMMA DeclaredRunsAreWhole ==
    ASSUME IInv, Declared, NEW x \in ToSet(decision.runs)
    PROVE  /\ x \in Started /\ manifest[x].status = "completed"
           /\ Len(results[x]) = Len(Slots) /\ summary[x] = AggregateMetrics(results[x])
<1>1. x \in Started
  BY DeclaredMeans DEF ToSet
<1>2. manifest[x].status = "completed"
  BY DeclaredMeans DEF Reasons, BaseReasons
<1>. QED
  BY <1>1, <1>2 DEF IInv, Sealed

(* A metric sufficient at full coverage was observed in every slot. *)
LEMMA SufficientIsEverySlot ==
    ASSUME ComparisonAssumption, IInv, Declared, decision.spec.coverage = <<1, 1>>,
           NEW x \in ToSet(decision.runs), NEW id, Sufficient(x, id, decision.spec)
    PROVE  Observations(x, id) = ToSet(Slots)
<1>1. /\ x \in Started /\ Len(results[x]) = Len(Slots)
      /\ summary[x] = AggregateMetrics(results[x])
  BY DeclaredRunsAreWhole
<1>2. results[x] \in Seq(CaseMetrics) /\ Len(Slots) \in Nat
  BY <1>1 DEF IInv, Typed, Started, ComparisonAssumption
<1>3. PICK R : R = Recorded(results[x], id, "observed")
  OBVIOUS
<1>4. R \in SUBSET (1..Len(Slots))
  BY <1>1, <1>2, <1>3 DEF Recorded
<1>5. Cardinality(R) \in Nat
  <2>1. IsFiniteSet(1..Len(Slots))
    BY FS_Interval
  <2>2. IsFiniteSet(R)
    BY <1>4, <2>1, FS_Subset
  <2>. QED
    BY <2>2, FS_CardinalityType
<1>6. /\ id \in DOMAIN summary[x]
      /\ summary[x][id].covered * 1 >= 1 * summary[x][id].of
  BY DeclaredMeans DEF Sufficient
<1>7. summary[x][id].covered = Cardinality(R) /\ summary[x][id].of = Len(Slots)
  BY <1>1, <1>3, <1>6 DEF AggregateMetrics
<1>8. Cardinality(R) >= Len(Slots)
  BY <1>2, <1>5, <1>6, <1>7
<1>9. R = 1..Len(Slots)
  BY <1>2, <1>4, <1>8, FullCoverage
<1>. QED
  BY <1>3, <1>9 DEF Observations, ToSet, ComparisonAssumption

(* WinnersArePaired: whatever the metrics of the cases, a winner declared  *)
(* at full coverage (comparison.py) leaves the paired analysis             *)
(* (case_mean_deltas of statistics.py) the same cases and repetitions on   *)
(* both sides, for every decided primary metric and any two of the runs.   *)
THEOREM WinnersArePaired == ComparisonSpec => []WinnerIsPaired
<1>1. IInv => WinnerIsPaired
  <2>. SUFFICES ASSUME IInv, Declared, decision.spec.coverage = <<1, 1>>,
                       NEW id \in decision.spec.primary \cap Decided(decision.runs),
                       NEW left \in ToSet(decision.runs), NEW right \in ToSet(decision.runs)
                PROVE  /\ Observations(left, id) = ToSet(Slots)
                       /\ ~ PairedAnalysisRaises(left, right, id)
    BY DEF WinnerIsPaired
  <2>1. id \in Comparable(decision.runs, decision.spec, {})
    BY DeclaredMeans
  <2>2. Sufficient(left, id, decision.spec) /\ Sufficient(right, id, decision.spec)
    BY <2>1 DEF Comparable
  <2>3. Observations(left, id) = ToSet(Slots) /\ Observations(right, id) = ToSet(Slots)
    BY <2>2, SufficientIsEverySlot, ComparisonAssumption
  <2>4. ToSet(Slots) # {}
    BY ComparisonAssumption DEF ComparisonAssumption, ToSet
  <2>. QED
    BY <2>3, <2>4 DEF PairedAnalysisRaises
<1>. QED
  BY <1>1, DecisionsAreTrue, PTL

(* What no path outside the treatment distinguishes from the first run, it *)
(* does not distinguish between any two.                                   *)
LEMMA DriftIsPairwise ==
    ASSUME NEW S, NEW runs \in Seq(S), runs # <<>>, NEW spec, Drift(runs, spec) = {},
           NEW left \in ToSet(runs), NEW right \in ToSet(runs)
    PROVE  Drift(<<left, right>>, spec) = {}
<1>. DEFINE at(config, path) == IF path \in DOMAIN config THEN config[path] ELSE Absent
            base == Profile(runs[1]).config
<1>1. ASSUME NEW x \in ToSet(runs), NEW path \in DOMAIN base \cup DOMAIN Profile(x).config,
             \A factor \in spec.treatment : ~ Under(path, factor)
      PROVE  at(base, path) = at(Profile(x).config, path)
  <2>1. path \in UNION {DOMAIN base \cup DOMAIN Profile(y).config : y \in ToSet(runs)}
    OBVIOUS
  <2>. QED
    BY <1>1, <2>1 DEF Drift
<1>2. ASSUME NEW x \in ToSet(runs), NEW path, \A factor \in spec.treatment : ~ Under(path, factor)
      PROVE  at(base, path) = at(Profile(x).config, path)
  BY <1>1, <1>2
<1>3. ASSUME NEW path, \A factor \in spec.treatment : ~ Under(path, factor)
      PROVE  at(Profile(left).config, path) = at(Profile(right).config, path)
  BY <1>2, <1>3
<1>4. ToSet(<<left, right>>) = {left, right} /\ <<left, right>>[1] = left
  BY DEF ToSet
<1>. QED
  BY <1>3, <1>4 DEF Drift

(* WinnersAreTreatments: any two runs of a declared comparison are         *)
(* completed, differ in their declared config by treatment factors only,   *)
(* and agree on the applied controls and on the models                     *)
(* (_spec_reasons and _undeclared_treatment_reasons of comparison.py).     *)
THEOREM WinnersAreTreatments == ComparisonSpec => []WinnerIsTreatment
<1>1. IInv => WinnerIsTreatment
  <2>. SUFFICES ASSUME IInv, Declared,
                       NEW left \in ToSet(decision.runs), NEW right \in ToSet(decision.runs)
                PROVE  /\ manifest[left].status = "completed"
                       /\ Drift(<<left, right>>, decision.spec) = {}
                       /\ \A f \in decision.spec.controlled :
                             Profile(left).effective[f] = Profile(right).effective[f]
                       /\ Profile(left).models = Profile(right).models
    BY DEF WinnerIsTreatment
  <2>1. PICK runs, spec : runs = decision.runs /\ spec = decision.spec
    OBVIOUS
  <2>2. /\ runs \in Seq(Started) /\ runs # <<>>
        /\ SpecReasons(runs, "strict_controlled", spec) = {}
    BY <2>1, DeclaredMeans DEF Reasons
  <2>3. StrictReasons(runs, spec) = {}
    BY <2>2 DEF SpecReasons
  <2>4. Drift(runs, spec) = {}
    BY <2>3 DEF StrictReasons
  <2>5. ~ Differ({Profile(x).models : x \in ToSet(runs)})
    BY <2>3 DEF StrictReasons
  <2>6. \A f \in spec.controlled : ~ Differ({Profile(x).effective[f] : x \in ToSet(runs)})
    BY <2>2 DEF SpecReasons
  <2>7. manifest[left].status = "completed"
    BY DeclaredRunsAreWhole
  <2>8. Drift(<<left, right>>, spec) = {}
    BY <2>1, <2>2, <2>4, DriftIsPairwise
  <2>9. Profile(left).models = Profile(right).models
    <3>1. PICK g : g = [x \in ToSet(runs) |-> Profile(x).models]
      OBVIOUS
    <3>2. {g[x] : x \in ToSet(runs)} = {Profile(x).models : x \in ToSet(runs)}
      BY <3>1
    <3>3. g[left] = g[right]
      BY <2>1, <2>2, <2>5, <3>2, RunsAreAlike
    <3>. QED
      BY <2>1, <3>1, <3>3
  <2>10. ASSUME NEW f \in spec.controlled
         PROVE  Profile(left).effective[f] = Profile(right).effective[f]
    <3>1. PICK g : g = [x \in ToSet(runs) |-> Profile(x).effective[f]]
      OBVIOUS
    <3>2. {g[x] : x \in ToSet(runs)} = {Profile(x).effective[f] : x \in ToSet(runs)}
      BY <3>1
    <3>3. ~ Differ({g[x] : x \in ToSet(runs)})
      BY <2>6, <3>2
    <3>4. g[left] = g[right]
      BY <2>1, <2>2, <3>3, RunsAreAlike
    <3>. QED
      BY <2>1, <3>1, <3>4
  <2>. QED
    BY <2>1, <2>7, <2>8, <2>9, <2>10
<1>. QED
  BY <1>1, DecisionsAreTrue, PTL
=============================================================================
