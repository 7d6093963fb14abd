--------------------------- MODULE ResolverProofs ---------------------------
(***************************************************************************)
(* What holds of dependency resolution for every repository and every      *)
(* world.                                                                  *)
(*                                                                         *)
(* CompareVersions is a total order on versions of any length, every       *)
(* operator agrees with it, and "~" picks an interval of it.               *)
(*                                                                         *)
(* The walk over the dependencies is bounded and every step of it leaves   *)
(* less to do; an answer has what was asked for and nothing that another   *)
(* architecture lacks; and where no choice has to be taken back it is      *)
(* complete and in an order in which it can be installed.                  *)
(***************************************************************************)
EXTENDS Resolver, TLAPS, NaturalsInduction, WellFoundedInduction, FiniteSetTheorems

Verdict == {less, equal, greater}

-----------------------------------------------------------------------------
(***************************************************************************)
(* The numbers.                                                            *)
(***************************************************************************)

\* A nonempty set of naturals has a least element.
LEMMA LeastExists ==
  ASSUME NEW S \in SUBSET Nat, S # {}
  PROVE  \E i \in S : \A j \in S : i <= j
<1> DEFINE R == {p \in Nat \X Nat : p[1] < p[2]}
<1>1. IsWellFoundedOn(R, Nat)
  <2>1. OpToRel(<, Nat) = R
    BY DEF OpToRel
  <2> QED BY <2>1, NatLessThanWellFounded
<1>2. PICK x \in S : \A y \in S : ~(<<y, x>> \in R)
  <2> HIDE DEF R
  <2> QED BY <1>1, WFMin
<1>3. ASSUME NEW y \in S PROVE x <= y
  <2>1. <<y, x>> \in Nat \X Nat /\ <<y, x>>[1] = y /\ <<y, x>>[2] = x
    OBVIOUS
  <2>2. ~(y < x)
    BY <1>2, <2>1
  <2> QED BY <2>2
<1> QED
  BY <1>3

\* Two sequences of numbers that differ where both are defined differ first at
\* some place, and one of them is above the other.
LEMMA FirstDifference ==
  ASSUME NEW s \in Seq(Nat), NEW t \in Seq(Nat),
         NEW k \in DOMAIN s \cap DOMAIN t, s[k] # t[k]
  PROVE  NumbersAbove(s, t) \/ NumbersAbove(t, s)
<1> DEFINE D == {i \in DOMAIN s \cap DOMAIN t : s[i] # t[i]}
<1>1. D \in SUBSET Nat /\ D # {}
  OBVIOUS
<1>2. PICK i \in D : \A j \in D : i <= j
  <2> HIDE DEF D
  <2> QED BY <1>1, LeastExists
<1>3. \A j \in 1..(i - 1) : s[j] = t[j]
  <2> TAKE j \in 1..(i - 1)
  <2>1. j \in DOMAIN s \cap DOMAIN t /\ j < i
    OBVIOUS
  <2> QED BY <1>2, <2>1
<1>4. s[i] \in Nat /\ t[i] \in Nat /\ s[i] # t[i]
  OBVIOUS
<1>5. CASE s[i] > t[i]
  BY <1>3, <1>5 DEF NumbersAbove
<1>6. CASE t[i] > s[i]
  BY <1>3, <1>6 DEF NumbersAbove
<1> QED
  BY <1>4, <1>5, <1>6

\* Only one of two can be above the other.
LEMMA AboveOneWay ==
  ASSUME NEW s \in Seq(Nat), NEW t \in Seq(Nat), NumbersAbove(s, t)
  PROVE  ~NumbersAbove(t, s)
<1> SUFFICES ASSUME NumbersAbove(t, s) PROVE FALSE
  OBVIOUS
<1>1. PICK i \in DOMAIN s \cap DOMAIN t :
        s[i] > t[i] /\ \A j \in 1..(i - 1) : s[j] = t[j]
  BY DEF NumbersAbove
<1>2. PICK k \in DOMAIN s \cap DOMAIN t :
        t[k] > s[k] /\ \A j \in 1..(k - 1) : t[j] = s[j]
  BY DEF NumbersAbove
<1>3. i \in Nat \ {0} /\ k \in Nat \ {0} /\ s[i] \in Nat /\ t[i] \in Nat
        /\ s[k] \in Nat /\ t[k] \in Nat
  OBVIOUS
<1>4. ~(i < k) /\ ~(k < i)
  BY <1>1, <1>2, <1>3
<1> QED
  BY <1>1, <1>2, <1>3, <1>4

\* Above is transitive, also where the next sequence is equal as far as it goes.
LEMMA AboveTransitive ==
  ASSUME NEW s \in Seq(Nat), NEW t \in Seq(Nat), NEW u \in Seq(Nat),
         NumbersAbove(s, t), NumbersAbove(t, u)
  PROVE  NumbersAbove(s, u)
<1>1. PICK i \in DOMAIN s \cap DOMAIN t :
        s[i] > t[i] /\ \A j \in 1..(i - 1) : s[j] = t[j]
  BY DEF NumbersAbove
<1>2. PICK k \in DOMAIN t \cap DOMAIN u :
        t[k] > u[k] /\ \A j \in 1..(k - 1) : t[j] = u[j]
  BY DEF NumbersAbove
<1>3. i \in 1..Len(s) /\ i \in 1..Len(t) /\ k \in 1..Len(t) /\ k \in 1..Len(u)
        /\ Len(s) \in Nat /\ Len(t) \in Nat /\ Len(u) \in Nat
        /\ DOMAIN s = 1..Len(s) /\ DOMAIN u = 1..Len(u)
  OBVIOUS
<1>4. \A j \in 1..Len(s) : s[j] \in Nat
  OBVIOUS
<1>5. \A j \in 1..Len(t) : t[j] \in Nat
  OBVIOUS
<1>6. \A j \in 1..Len(u) : u[j] \in Nat
  OBVIOUS
<1> DEFINE n == IF i <= k THEN i ELSE k
<1>7. n \in DOMAIN s \cap DOMAIN u /\ n \in 1..Len(t)
  BY <1>3
<1>8. s[n] > u[n]
  <2>1. s[n] \in Nat /\ t[n] \in Nat /\ u[n] \in Nat
    BY <1>3, <1>4, <1>5, <1>6, <1>7
  <2>2. CASE i < k
    <3>1. n = i /\ i \in 1..(k - 1)
      BY <1>3, <2>2
    <3>2. s[i] > t[i] /\ t[i] = u[i]
      BY <1>1, <1>2, <3>1
    <3> QED BY <2>1, <3>1, <3>2
  <2>3. CASE i = k
    BY <1>1, <1>2, <1>3, <2>1, <2>3
  <2>4. CASE k < i
    <3>1. n = k /\ k \in 1..(i - 1)
      BY <1>3, <2>4
    <3>2. s[k] = t[k] /\ t[k] > u[k]
      BY <1>1, <1>2, <3>1
    <3> QED BY <2>1, <3>1, <3>2
  <2> QED BY <1>3, <2>2, <2>3, <2>4
<1>9. \A j \in 1..(n - 1) : s[j] = u[j]
  BY <1>1, <1>2, <1>3
<1> HIDE DEF n
<1> QED
  BY <1>7, <1>8, <1>9 DEF NumbersAbove

\* Where neither is above the other, they agree as far as the shorter one goes.
LEMMA NeitherAbove ==
  ASSUME NEW s \in Seq(Nat), NEW t \in Seq(Nat), Len(t) <= Len(s),
         ~NumbersAbove(s, t), ~NumbersAbove(t, s)
  PROVE  \A k \in 1..Len(t) : s[k] = t[k]
<1> SUFFICES ASSUME NEW k \in 1..Len(t), s[k] # t[k] PROVE FALSE
  OBVIOUS
<1>1. k \in DOMAIN s \cap DOMAIN t
  OBVIOUS
<1> QED
  BY <1>1, FirstDifference

\* A longer sequence that agrees with a shorter one comes after it.
LEMMA LongerIsGreater ==
  ASSUME NEW s \in Seq(Nat), NEW t \in Seq(Nat), Len(s) > Len(t),
         \A k \in 1..Len(t) : s[k] = t[k]
  PROVE  CompareNumbers(s, t) = greater
<1>1. ~NumbersAbove(t, s)
  <2> SUFFICES ASSUME NEW k \in DOMAIN t \cap DOMAIN s, t[k] > s[k] PROVE FALSE
    BY DEF NumbersAbove
  <2>1. k \in 1..Len(t) /\ t[k] \in Nat
    OBVIOUS
  <2> QED BY <2>1
<1>2. Len(s) \in Nat /\ Len(t) \in Nat
  OBVIOUS
<1> QED
  BY <1>1, <1>2 DEF CompareNumbers, Compare

\* Comparing the numbers gives a verdict; the same numbers, and they only, are
\* equal, and turning the question round turns the verdict round.
LEMMA NumbersVerdict ==
  ASSUME NEW s \in Seq(Nat), NEW t \in Seq(Nat)
  PROVE  /\ CompareNumbers(s, t) \in Verdict
         /\ CompareNumbers(s, t) = equal <=> s = t
         /\ CompareNumbers(t, s) = -CompareNumbers(s, t)
<1>1. Len(s) \in Nat /\ Len(t) \in Nat
  OBVIOUS
<1>2. CompareNumbers(s, t) \in Verdict /\ CompareNumbers(t, s) = -CompareNumbers(s, t)
  BY <1>1, AboveOneWay DEF CompareNumbers, Compare, Verdict, less, equal, greater
<1>3. ASSUME s = t PROVE CompareNumbers(s, t) = equal
  <2>1. ~NumbersAbove(s, s)
    BY AboveOneWay
  <2> QED BY <1>1, <1>3, <2>1 DEF CompareNumbers, Compare
<1>4. ASSUME CompareNumbers(s, t) = equal PROVE s = t
  <2>1. ~NumbersAbove(s, t) /\ ~NumbersAbove(t, s) /\ Len(s) = Len(t)
    BY <1>1, <1>4 DEF CompareNumbers, Compare, less, equal, greater
  <2>2. \A k \in 1..Len(s) : s[k] = t[k]
    BY <2>1, FirstDifference
  <2> QED BY <2>1, <2>2
<1> QED
  BY <1>2, <1>3, <1>4

\* What is below both in numbers stays below.
LEMMA NumbersTransitive ==
  ASSUME NEW s \in Seq(Nat), NEW t \in Seq(Nat), NEW u \in Seq(Nat),
         CompareNumbers(s, t) = greater, CompareNumbers(t, u) = greater
  PROVE  CompareNumbers(s, u) = greater
<1>1. Len(s) \in Nat /\ Len(t) \in Nat /\ Len(u) \in Nat
        /\ DOMAIN s = 1..Len(s) /\ DOMAIN t = 1..Len(t) /\ DOMAIN u = 1..Len(u)
  OBVIOUS
<1>2. NumbersAbove(s, t) \/ (~NumbersAbove(t, s) /\ Len(s) > Len(t))
  BY <1>1 DEF CompareNumbers, Compare, less, equal, greater
<1>3. NumbersAbove(t, u) \/ (~NumbersAbove(u, t) /\ Len(t) > Len(u))
  BY <1>1 DEF CompareNumbers, Compare, less, equal, greater
<1>4. CASE NumbersAbove(s, t) /\ NumbersAbove(t, u)
  BY <1>4, AboveTransitive DEF CompareNumbers
<1>5. CASE NumbersAbove(s, t) /\ ~NumbersAbove(t, u)
  <2>1. ~NumbersAbove(u, t) /\ Len(t) > Len(u)
    BY <1>3, <1>5
  <2>2. \A k \in 1..Len(u) : t[k] = u[k]
    <3>1. Len(u) <= Len(t)
      BY <1>1, <2>1
    <3> QED BY <1>5, <2>1, <3>1, NeitherAbove
  <2>3. PICK i \in DOMAIN s \cap DOMAIN t :
          s[i] > t[i] /\ \A j \in 1..(i - 1) : s[j] = t[j]
    BY <1>5 DEF NumbersAbove
  <2>4. CASE i <= Len(u)
    <3>1. i \in DOMAIN s \cap DOMAIN u /\ s[i] > u[i]
      BY <1>1, <2>2, <2>3, <2>4
    <3>2. \A j \in 1..(i - 1) : s[j] = u[j]
      BY <1>1, <2>2, <2>3, <2>4
    <3> QED BY <3>1, <3>2 DEF NumbersAbove, CompareNumbers
  <2>5. CASE i > Len(u)
    <3>1. ASSUME NEW k \in 1..Len(u) PROVE s[k] = u[k]
      <4>1. k \in 1..(i - 1)
        BY <1>1, <2>5
      <4> QED BY <2>2, <2>3, <4>1
    <3>2. Len(s) > Len(u)
      BY <1>1, <2>5
    <3> QED BY <3>1, <3>2, LongerIsGreater
  <2> QED BY <1>1, <2>4, <2>5
<1>6. CASE ~NumbersAbove(s, t)
  <2>1. ~NumbersAbove(t, s) /\ Len(s) > Len(t)
    BY <1>2, <1>6
  <2>2. \A k \in 1..Len(t) : s[k] = t[k]
    <3>1. Len(t) <= Len(s)
      BY <1>1, <2>1
    <3> QED BY <1>6, <2>1, <3>1, NeitherAbove
  <2>3. CASE NumbersAbove(t, u)
    <3>1. PICK i \in DOMAIN t \cap DOMAIN u :
            t[i] > u[i] /\ \A j \in 1..(i - 1) : t[j] = u[j]
      BY <2>3 DEF NumbersAbove
    <3>2. i \in DOMAIN s \cap DOMAIN u /\ s[i] > u[i]
      BY <1>1, <2>1, <2>2, <3>1
    <3>3. \A j \in 1..(i - 1) : s[j] = u[j]
      BY <1>1, <2>2, <3>1
    <3> QED BY <3>2, <3>3 DEF NumbersAbove, CompareNumbers
  <2>4. CASE ~NumbersAbove(t, u)
    <3>1. ~NumbersAbove(u, t) /\ Len(t) > Len(u)
      BY <1>3, <2>4
    <3>2. \A k \in 1..Len(u) : t[k] = u[k]
      <4>1. Len(u) <= Len(t)
        BY <1>1, <3>1
      <4> QED BY <2>4, <3>1, <4>1, NeitherAbove
    <3>3. \A k \in 1..Len(u) : s[k] = u[k]
      BY <1>1, <2>2, <3>1, <3>2
    <3>4. Len(s) > Len(u)
      BY <1>1, <2>1, <3>1
    <3> QED BY <3>3, <3>4, LongerIsGreater
  <2> QED BY <2>3, <2>4
<1> QED
  BY <1>4, <1>5, <1>6

-----------------------------------------------------------------------------
(***************************************************************************)
(* Versions.                                                               *)
(***************************************************************************)

\* The verdicts on a and b, b and c, a and c are those of an order.
Consistent(ab, bc, ac) ==
  /\ ab = greater /\ bc = greater => ac = greater
  /\ ab = equal => ac = bc
  /\ bc = equal => ac = ab

\* A number is compared as numbers are.
LEMMA CompareFacts ==
  ASSUME NEW x \in Int, NEW y \in Int
  PROVE  /\ Compare(x, y) \in Verdict
         /\ Compare(x, y) = equal <=> x = y
         /\ Compare(y, x) = -Compare(x, y)
BY DEF Compare, Verdict, less, equal, greater

\* Numbers are compared without circles.
LEMMA CompareConsistent ==
  ASSUME NEW x \in Int, NEW y \in Int, NEW z \in Int
  PROVE  Consistent(Compare(x, y), Compare(y, z), Compare(x, z))
BY DEF Compare, Consistent, less, equal, greater

\* One comparison after another: what holds of both holds of the two together.
LEMMA OrFacts ==
  ASSUME NEW p \in Verdict, NEW q \in Verdict
  PROVE  /\ Or(p, q) \in Verdict
         /\ Or(p, q) = equal <=> p = equal /\ q = equal
         /\ Or(-p, -q) = -Or(p, q)
BY DEF Or, Verdict, less, equal, greater

\* Nor does a second comparison for ties bring in a circle.
LEMMA OrConsistent ==
  ASSUME NEW p \in Verdict, NEW q \in Verdict, NEW r \in Verdict,
         NEW p2 \in Verdict, NEW q2 \in Verdict, NEW r2 \in Verdict,
         Consistent(p, q, r), Consistent(p2, q2, r2)
  PROVE  Consistent(Or(p, p2), Or(q, q2), Or(r, r2))
BY DEF Or, Verdict, Consistent, less, equal, greater

\* The parts of a version that are numbers.
LEMMA VersionParts ==
  ASSUME NEW a \in Version
  PROVE  /\ a.numbers \in Seq(Nat)
         /\ a.letter \in Int /\ a.preSuffix \in 0..4 /\ a.preSuffixNumber \in Int
         /\ a.postSuffix \in Int /\ a.postSuffixNumber \in Int /\ a.revision \in Int
         /\ PreRank(a.preSuffix) \in Int
<1>1. /\ a.numbers \in Seq(Nat) /\ a.letter \in 0..26 /\ a.preSuffix \in 0..4
      /\ a.preSuffixNumber \in Nat /\ a.postSuffix \in 0..5 /\ a.postSuffixNumber \in Nat
      /\ a.revision \in Nat
  BY DEF Version, Letters, NoLetter
<1>2. PreRank(a.preSuffix) \in Int
  BY <1>1 DEF PreRank, PreModifierNone, PreModifierMax
<1>3. /\ a.letter \in Int /\ a.preSuffixNumber \in Int /\ a.postSuffix \in Int
      /\ a.postSuffixNumber \in Int /\ a.revision \in Int
  <2>1. 0..26 \subseteq Int /\ 0..5 \subseteq Int /\ Nat \subseteq Int
    OBVIOUS
  <2> QED BY <1>1, <2>1, Zenon
<1> QED
  BY <1>1, <1>2, <1>3, Zenon

\* Only the same modifier has the same rank.
LEMMA PreRankInjective ==
  ASSUME NEW x \in 0..4, NEW y \in 0..4
  PROVE  PreRank(x) = PreRank(y) <=> x = y
BY DEF PreRank, PreModifierNone, PreModifierMax

\* Versions are the same when all their parts are.
LEMMA SameParts ==
  ASSUME NEW a \in Version, NEW b \in Version,
         a.numbers = b.numbers, a.letter = b.letter,
         a.preSuffix = b.preSuffix, a.preSuffixNumber = b.preSuffixNumber,
         a.postSuffix = b.postSuffix, a.postSuffixNumber = b.postSuffixNumber,
         a.revision = b.revision
  PROVE  a = b
BY DEF Version

\* The suffixes and the revision are ordered.
LEMMA SuffixFacts ==
  ASSUME NEW a \in Version, NEW b \in Version
  PROVE  /\ CompareSuffixes(a, b) \in Verdict
         /\ CompareSuffixes(a, b) = equal =>
              /\ a.preSuffix = b.preSuffix /\ a.preSuffixNumber = b.preSuffixNumber
              /\ a.postSuffix = b.postSuffix /\ a.postSuffixNumber = b.postSuffixNumber
              /\ a.revision = b.revision
         /\ CompareSuffixes(a, a) = equal
         /\ CompareSuffixes(b, a) = -CompareSuffixes(a, b)
<1> DEFINE c1(x, y) == Compare(PreRank(x.preSuffix), PreRank(y.preSuffix))
           c2(x, y) == Compare(x.preSuffixNumber, y.preSuffixNumber)
           c3(x, y) == Compare(x.postSuffix, y.postSuffix)
           c4(x, y) == Compare(x.postSuffixNumber, y.postSuffixNumber)
           c5(x, y) == Compare(x.revision, y.revision)
<1>1. \A x, y \in Version :
        CompareSuffixes(x, y) = Or(c1(x, y), Or(c2(x, y), Or(c3(x, y), Or(c4(x, y), c5(x, y)))))
  BY DEF CompareSuffixes
<1>2. \A x, y \in Version :
        /\ {c1(x, y), c2(x, y), c3(x, y), c4(x, y), c5(x, y)} \subseteq Verdict
        /\ c1(y, x) = -c1(x, y) /\ c2(y, x) = -c2(x, y) /\ c3(y, x) = -c3(x, y)
        /\ c4(y, x) = -c4(x, y) /\ c5(y, x) = -c5(x, y)
  BY VersionParts, CompareFacts
<1>3. c1(a, b) = equal /\ c2(a, b) = equal /\ c3(a, b) = equal /\ c4(a, b) = equal
        /\ c5(a, b) = equal =>
              /\ a.preSuffix = b.preSuffix /\ a.preSuffixNumber = b.preSuffixNumber
              /\ a.postSuffix = b.postSuffix /\ a.postSuffixNumber = b.postSuffixNumber
              /\ a.revision = b.revision
  BY VersionParts, CompareFacts, PreRankInjective
<1>4. c1(a, a) = equal /\ c2(a, a) = equal /\ c3(a, a) = equal /\ c4(a, a) = equal
        /\ c5(a, a) = equal
  BY VersionParts, CompareFacts
<1> HIDE DEF c1, c2, c3, c4, c5
<1>5. CompareSuffixes(a, b) \in Verdict
        /\ (CompareSuffixes(a, b) = equal =>
              c1(a, b) = equal /\ c2(a, b) = equal /\ c3(a, b) = equal /\ c4(a, b) = equal
                /\ c5(a, b) = equal)
  BY <1>1, <1>2, OrFacts
<1>6. CompareSuffixes(a, a) = equal
  BY <1>1, <1>4 DEF Or
<1>7. CompareSuffixes(b, a) = -CompareSuffixes(a, b)
  <2>1. Or(c4(b, a), c5(b, a)) = -Or(c4(a, b), c5(a, b)) /\ Or(c4(a, b), c5(a, b)) \in Verdict
    BY <1>2, OrFacts
  <2>2. Or(c3(b, a), Or(c4(b, a), c5(b, a))) = -Or(c3(a, b), Or(c4(a, b), c5(a, b)))
          /\ Or(c3(a, b), Or(c4(a, b), c5(a, b))) \in Verdict
    BY <1>2, <2>1, OrFacts
  <2>3. Or(c2(b, a), Or(c3(b, a), Or(c4(b, a), c5(b, a))))
            = -Or(c2(a, b), Or(c3(a, b), Or(c4(a, b), c5(a, b))))
          /\ Or(c2(a, b), Or(c3(a, b), Or(c4(a, b), c5(a, b)))) \in Verdict
    BY <1>2, <2>2, OrFacts
  <2> QED BY <1>1, <1>2, <2>3, OrFacts
<1> QED
  BY <1>3, <1>5, <1>6, <1>7

\* The suffixes are compared without circles.
LEMMA SuffixConsistent ==
  ASSUME NEW a \in Version, NEW b \in Version, NEW c \in Version
  PROVE  Consistent(CompareSuffixes(a, b), CompareSuffixes(b, c), CompareSuffixes(a, c))
<1> DEFINE c1(x, y) == Compare(PreRank(x.preSuffix), PreRank(y.preSuffix))
           c2(x, y) == Compare(x.preSuffixNumber, y.preSuffixNumber)
           c3(x, y) == Compare(x.postSuffix, y.postSuffix)
           c4(x, y) == Compare(x.postSuffixNumber, y.postSuffixNumber)
           c5(x, y) == Compare(x.revision, y.revision)
           d4(x, y) == Or(c4(x, y), c5(x, y))
           d3(x, y) == Or(c3(x, y), d4(x, y))
           d2(x, y) == Or(c2(x, y), d3(x, y))
<1>1. \A x, y \in Version :
        {c1(x, y), c2(x, y), c3(x, y), c4(x, y), c5(x, y)} \subseteq Verdict
  BY VersionParts, CompareFacts
<1>2. /\ Consistent(c1(a, b), c1(b, c), c1(a, c)) /\ Consistent(c2(a, b), c2(b, c), c2(a, c))
      /\ Consistent(c3(a, b), c3(b, c), c3(a, c)) /\ Consistent(c4(a, b), c4(b, c), c4(a, c))
      /\ Consistent(c5(a, b), c5(b, c), c5(a, c))
  BY VersionParts, CompareConsistent
<1>3. \A x, y \in Version : CompareSuffixes(x, y) = Or(c1(x, y), d2(x, y))
  BY DEF CompareSuffixes
<1> HIDE DEF c1, c2, c3, c4, c5
<1>4. \A x, y \in Version : d4(x, y) \in Verdict /\ d3(x, y) \in Verdict /\ d2(x, y) \in Verdict
  BY <1>1, OrFacts
<1>5. Consistent(d4(a, b), d4(b, c), d4(a, c))
  BY <1>1, <1>2, OrConsistent
<1> HIDE DEF d4
<1>6. Consistent(d3(a, b), d3(b, c), d3(a, c))
  BY <1>1, <1>2, <1>4, <1>5, OrConsistent
<1> HIDE DEF d3
<1>7. Consistent(d2(a, b), d2(b, c), d2(a, c))
  BY <1>1, <1>2, <1>4, <1>6, OrConsistent
<1> HIDE DEF d2
<1>8. Consistent(Or(c1(a, b), d2(a, b)), Or(c1(b, c), d2(b, c)), Or(c1(a, c), d2(a, c)))
  BY <1>1, <1>2, <1>4, <1>7, OrConsistent
<1> QED
  BY <1>3, <1>8

\* CompareVersions always decides, calls nothing but the same version equal, and
\* gives the opposite answer to the opposite question: a sort that asks it in
\* either direction sees one order (CompareVersions).
THEOREM ComparisonIsTotal ==
  \A a, b \in Version :
    /\ CompareVersions(a, b) \in {less, equal, greater}
    /\ CompareVersions(a, b) = equal <=> a = b
    /\ CompareVersions(b, a) = -CompareVersions(a, b)
<1> TAKE a, b \in Version
<1> DEFINE n(x, y) == CompareNumbers(x.numbers, y.numbers)
           l(x, y) == Compare(x.letter, y.letter)
           s(x, y) == CompareSuffixes(x, y)
<1>1. /\ n(a, b) \in Verdict /\ (n(a, b) = equal <=> a.numbers = b.numbers)
      /\ n(b, a) = -n(a, b)
  BY VersionParts, NumbersVerdict
<1>2. /\ l(a, b) \in Verdict /\ (l(a, b) = equal <=> a.letter = b.letter)
      /\ l(b, a) = -l(a, b)
  BY VersionParts, CompareFacts
<1>3. s(a, b) \in Verdict /\ s(b, a) = -s(a, b) /\ s(a, a) = equal
  BY SuffixFacts
<1>4. /\ CompareVersions(a, b) = Or(n(a, b), Or(l(a, b), s(a, b)))
      /\ CompareVersions(b, a) = Or(n(b, a), Or(l(b, a), s(b, a)))
  BY DEF CompareVersions
<1>5. ASSUME n(a, b) = equal, l(a, b) = equal, s(a, b) = equal PROVE a = b
  BY <1>1, <1>2, <1>5, SuffixFacts, SameParts
<1>6. ASSUME a = b PROVE n(a, b) = equal /\ l(a, b) = equal /\ s(a, b) = equal
  BY <1>1, <1>2, <1>3, <1>6
<1> HIDE DEF n, l, s
<1>7. CompareVersions(a, b) \in Verdict /\ CompareVersions(b, a) = -CompareVersions(a, b)
        /\ (CompareVersions(a, b) = equal <=>
              n(a, b) = equal /\ l(a, b) = equal /\ s(a, b) = equal)
  BY <1>1, <1>2, <1>3, <1>4, OrFacts
<1> QED
  BY <1>5, <1>6, <1>7 DEF Verdict

\* The order has no circles: what is newer than something newer is newer.  With
\* the theorem above this is what bestPackage's minimum over comparePackages
\* rests on, and what lets versions be thought of as points on a line.
THEOREM ComparisonIsTransitive ==
  \A a, b, c \in Version :
    Consistent(CompareVersions(a, b), CompareVersions(b, c), CompareVersions(a, c))
<1> TAKE a, b, c \in Version
<1> DEFINE n(x, y) == CompareNumbers(x.numbers, y.numbers)
           l(x, y) == Compare(x.letter, y.letter)
           s(x, y) == CompareSuffixes(x, y)
           d(x, y) == Or(l(x, y), s(x, y))
<1>1. \A x, y \in Version : n(x, y) \in Verdict /\ l(x, y) \in Verdict /\ s(x, y) \in Verdict
  BY VersionParts, NumbersVerdict, CompareFacts, SuffixFacts
<1>2. Consistent(n(a, b), n(b, c), n(a, c))
  BY VersionParts, NumbersVerdict, NumbersTransitive DEF Consistent
<1>3. Consistent(l(a, b), l(b, c), l(a, c)) /\ Consistent(s(a, b), s(b, c), s(a, c))
  BY VersionParts, CompareConsistent, SuffixConsistent
<1>4. \A x, y \in Version : CompareVersions(x, y) = Or(n(x, y), d(x, y))
  BY DEF CompareVersions
<1> HIDE DEF n, l, s
<1>5. (\A x, y \in Version : d(x, y) \in Verdict) /\ Consistent(d(a, b), d(b, c), d(a, c))
  BY <1>1, <1>3, OrFacts, OrConsistent
<1> HIDE DEF d
<1>6. Consistent(Or(n(a, b), d(a, b)), Or(n(b, c), d(b, c)), Or(n(a, c), d(a, c)))
  BY <1>1, <1>2, <1>5, OrConsistent
<1> QED
  BY <1>4, <1>6

-----------------------------------------------------------------------------
(***************************************************************************)
(* Constraints.                                                            *)
(***************************************************************************)

\* A version that has numbers only.
Plain(v) ==
  /\ v.letter = 0 /\ v.preSuffix = 0 /\ v.preSuffixNumber = 0
  /\ v.postSuffix = 0 /\ v.postSuffixNumber = 0 /\ v.revision = 0

Starts(s, t) == Len(s) >= Len(t) /\ \A i \in DOMAIN t : s[i] = t[i]

\* A place where s is above what both start with puts s above.
LEMMA AbovePrefix ==
  ASSUME NEW s \in Seq(Nat), NEW t \in Seq(Nat), NEW u \in Seq(Nat),
         Starts(u, t), NumbersAbove(s, t)
  PROVE  NumbersAbove(s, u)
<1>1. PICK i \in DOMAIN s \cap DOMAIN t :
        s[i] > t[i] /\ \A j \in 1..(i - 1) : s[j] = t[j]
  BY DEF NumbersAbove
<1>2. Len(t) \in Nat /\ Len(u) \in Nat /\ DOMAIN t = 1..Len(t) /\ DOMAIN u = 1..Len(u)
  OBVIOUS
<1>3. i \in DOMAIN s \cap DOMAIN u /\ u[i] = t[i]
  BY <1>2 DEF Starts
<1>4. \A j \in 1..(i - 1) : s[j] = u[j]
  <2> TAKE j \in 1..(i - 1)
  <2>1. j \in DOMAIN t
    BY <1>2
  <2> QED BY <1>1, <2>1 DEF Starts
<1> QED
  BY <1>1, <1>3, <1>4 DEF NumbersAbove

\* What is below a version's numbers is below those of every longer version.
LEMMA BelowPrefix ==
  ASSUME NEW s \in Seq(Nat), NEW t \in Seq(Nat), NEW u \in Seq(Nat),
         Starts(u, t), NumbersAbove(t, s)
  PROVE  NumbersAbove(u, s)
<1>1. PICK i \in DOMAIN s \cap DOMAIN t :
        t[i] > s[i] /\ \A j \in 1..(i - 1) : t[j] = s[j]
  BY DEF NumbersAbove
<1>2. Len(t) \in Nat /\ Len(u) \in Nat /\ DOMAIN t = 1..Len(t) /\ DOMAIN u = 1..Len(u)
  OBVIOUS
<1>3. i \in DOMAIN s \cap DOMAIN u /\ u[i] = t[i]
  BY <1>2 DEF Starts
<1>4. \A j \in 1..(i - 1) : u[j] = s[j]
  <2> TAKE j \in 1..(i - 1)
  <2>1. j \in DOMAIN t
    BY <1>2
  <2> QED BY <1>1, <2>1 DEF Starts
<1> QED
  BY <1>1, <1>3, <1>4 DEF NumbersAbove

\* What lies between two sequences that start with t starts with t.
LEMMA BetweenStarts ==
  ASSUME NEW t \in Seq(Nat), NEW lo \in Seq(Nat), NEW s \in Seq(Nat), NEW hi \in Seq(Nat),
         Starts(lo, t), Starts(hi, t),
         CompareNumbers(lo, s) # greater, CompareNumbers(s, hi) # greater
  PROVE  Starts(s, t)
<1>1. Len(s) \in Nat /\ Len(t) \in Nat /\ Len(lo) \in Nat
        /\ DOMAIN s = 1..Len(s) /\ DOMAIN t = 1..Len(t)
  OBVIOUS
<1>2. ~NumbersAbove(s, t)
  BY AbovePrefix DEF CompareNumbers
<1>3. ~NumbersAbove(t, s)
  BY BelowPrefix DEF CompareNumbers
<1>4. Len(s) >= Len(t)
  <2> SUFFICES ASSUME Len(s) < Len(t) PROVE FALSE
    BY <1>1
  <2>1. \A k \in 1..Len(s) : t[k] = s[k]
    <3>1. Len(s) <= Len(t)
      BY <1>1
    <3> QED BY <1>2, <1>3, <3>1, NeitherAbove
  <2>2. \A k \in 1..Len(s) : lo[k] = s[k]
    <3> TAKE k \in 1..Len(s)
    <3>1. k \in DOMAIN t
      BY <1>1
    <3> QED BY <2>1, <3>1 DEF Starts
  <2>3. Len(lo) > Len(s)
    BY <1>1 DEF Starts
  <2> QED BY <2>2, <2>3, LongerIsGreater
<1>5. \A k \in 1..Len(t) : s[k] = t[k]
  <2>1. Len(t) <= Len(s)
    BY <1>1, <1>4
  <2> QED BY <1>2, <1>3, <2>1, NeitherAbove
<1> QED
  BY <1>1, <1>4, <1>5 DEF Starts

\* "~" with numbers only asks for nothing but the numbers to start with.
LEMMA TildeOfPlain ==
  ASSUME NEW a \in Version, NEW r \in Version, Plain(r)
  PROVE  satisfies("~", a, r) <=> Starts(a.numbers, r.numbers)
<1>1. satisfies("~", a, r) <=> includesVersion(a, r)
  BY DEF satisfies
<1>2. Len(a.numbers) \in Nat /\ Len(r.numbers) \in Nat
  BY VersionParts
<1> QED
  BY <1>1, <1>2 DEF includesVersion, Plain, Starts

\* Every constraint asks for an interval of versions, "~" with numbers only
\* among them: if two versions will do, so will every version between them, and
\* a newer package can take the place of an older one only up to a limit, never
\* beyond a gap (versionDependency.satisfies).
THEOREM ConstraintsAreIntervals ==
  \A v \in versionDependency : \A r, a, b, c \in Version :
    /\ v = "~" => Plain(r)
    /\ satisfies(v, a, r) /\ satisfies(v, c, r)
    /\ CompareVersions(a, b) # greater /\ CompareVersions(b, c) # greater
    => satisfies(v, b, r)
<1> TAKE v \in versionDependency
<1> TAKE r, a, b, c \in Version
<1> HAVE /\ v = "~" => Plain(r)
         /\ satisfies(v, a, r) /\ satisfies(v, c, r)
         /\ CompareVersions(a, b) # greater /\ CompareVersions(b, c) # greater
<1>1. CASE v = "~"
  <2>1. /\ Starts(a.numbers, r.numbers) /\ Starts(c.numbers, r.numbers)
        /\ a.numbers \in Seq(Nat) /\ b.numbers \in Seq(Nat) /\ c.numbers \in Seq(Nat)
        /\ r.numbers \in Seq(Nat)
    BY <1>1, TildeOfPlain, VersionParts
  <2>2. CompareNumbers(a.numbers, b.numbers) # greater
          /\ CompareNumbers(b.numbers, c.numbers) # greater
    BY DEF CompareVersions, Or, greater, equal
  <2>3. Starts(b.numbers, r.numbers)
    BY <2>1, <2>2, BetweenStarts
  <2> QED BY <1>1, <2>3, TildeOfPlain
<1>2. CASE v # "~"
  <2> DEFINE C(x, y) == CompareVersions(x, y)
  <2>1. \A x, y \in Version : C(x, y) \in {less, equal, greater} /\ C(y, x) = -C(x, y)
                                /\ (C(x, y) = equal <=> x = y)
    BY ComparisonIsTotal
  <2>2. Consistent(C(a, b), C(b, r), C(a, r)) /\ Consistent(C(b, c), C(c, r), C(b, r))
          /\ Consistent(C(r, a), C(a, b), C(r, b)) /\ Consistent(C(c, b), C(b, r), C(c, r))
          /\ Consistent(C(b, a), C(a, r), C(b, r)) /\ Consistent(C(r, b), C(b, c), C(r, c))
          /\ Consistent(C(r, c), C(c, b), C(r, b))
    BY ComparisonIsTransitive
  <2>3. \A x \in Version :
          satisfies(v, x, r) <=>
            CASE v = "any" -> TRUE
              [] v = "=" -> C(x, r) = equal
              [] v = ">" -> C(x, r) = greater
              [] v = "<" -> C(x, r) = less
              [] v = ">=" -> C(x, r) \in {greater, equal}
              [] v = "<=" -> C(x, r) \in {less, equal}
    BY <1>2 DEF satisfies, versionDependency
  <2>4. C(a, b) # greater /\ C(b, c) # greater
    OBVIOUS
  <2> HIDE DEF C
  <2>5. /\ C(a, r) = greater => C(b, r) = greater
        /\ C(a, r) # less => C(b, r) # less
        /\ C(c, r) = less => C(b, r) = less
        /\ C(c, r) # greater => C(b, r) # greater
    BY <2>1, <2>2, <2>4 DEF Consistent, less, equal, greater
  <2>6. less # equal /\ equal # greater /\ less # greater
    BY DEF less, equal, greater
  <2>7. C(b, r) \in {less, equal, greater} /\ C(a, r) \in {less, equal, greater}
          /\ C(c, r) \in {less, equal, greater}
    BY <2>1
  <2>8. satisfies(v, a, r) /\ satisfies(v, c, r)
    OBVIOUS
  <2>9. CASE v = "any"
    BY <2>3, <2>9
  <2>10. CASE v = "="
    BY <2>3, <2>5, <2>6, <2>7, <2>8, <2>10
  <2>11. CASE v = ">"
    BY <2>3, <2>5, <2>6, <2>7, <2>8, <2>11
  <2>12. CASE v = "<"
    BY <2>3, <2>5, <2>6, <2>7, <2>8, <2>12
  <2>13. CASE v = ">="
    BY <2>3, <2>5, <2>6, <2>7, <2>8, <2>13
  <2>14. CASE v = "<="
    BY <2>3, <2>5, <2>6, <2>7, <2>8, <2>14
  <2> QED
    BY <1>2, <2>9, <2>10, <2>11, <2>12, <2>13, <2>14 DEF versionDependency
<1> QED
  BY <1>1, <1>2

-----------------------------------------------------------------------------
(***************************************************************************)
(* Lists and sets.                                                          *)
(***************************************************************************)

\* A set of numbers that has the first and, with each one below n, the next,
\* has all numbers up to n.
LEMMA UpTo ==
  ASSUME NEW m \in Nat, NEW n \in Nat, m <= n, NEW S, m \in S,
         \A k \in m..(n - 1) : k \in S => k + 1 \in S
  PROVE  n \in S
<1> DEFINE Missing == {k \in m..n : k \notin S}
<1>1. ASSUME Missing # {} PROVE FALSE
  <2>1. Missing \in SUBSET Nat
    OBVIOUS
  <2>2. PICK k \in Missing : \A j \in Missing : k <= j
    <3> HIDE DEF Missing
    <3> QED
      BY <1>1, <2>1, LeastExists
  <2>3. k - 1 \in m..(n - 1) /\ k - 1 \in m..n /\ (k - 1) + 1 = k
    BY <2>2
  <2>4. k - 1 \in Missing
    BY <2>2, <2>3
  <2> QED
    BY <2>2, <2>3, <2>4
<1> QED
  BY <1>1

\* InOrder lists the members of a set, each once and in the order of their
\* numbers.
LEMMA InOrderFacts ==
  ASSUME NEW S, IsFiniteSet(S), NEW number \in [S -> Nat],
         \A i, j \in S : number[i] = number[j] => i = j
  PROVE  /\ InOrder(S, number) \in Seq(S)
         /\ Len(InOrder(S, number)) = Cardinality(S)
         /\ \A k \in 1..Cardinality(S) : InOrder(S, number)[k] \in S
         /\ \A i \in S : \E k \in 1..Cardinality(S) : InOrder(S, number)[k] = i
         /\ \A k, l \in 1..Cardinality(S) :
              /\ number[InOrder(S, number)[l]] < number[InOrder(S, number)[k]] => l < k
              /\ InOrder(S, number)[l] = InOrder(S, number)[k] => l = k
<1> DEFINE n == Cardinality(S)
           Under(i) == {j \in S : number[j] < number[i]}
           rank == [i \in S |-> Cardinality(Under(i)) + 1]
           L == InOrder(S, number)
<1>1. n \in Nat
  BY FS_CardinalityType
<1>2. \A i \in S : IsFiniteSet(Under(i)) /\ Cardinality(Under(i)) \in 0..(n - 1)
  <2> TAKE i \in S
  <2>1. Under(i) \in SUBSET S /\ i \in S /\ i \notin Under(i)
    OBVIOUS
  <2> HIDE DEF Under
  <2>2. IsFiniteSet(Under(i)) /\ Cardinality(Under(i)) <= n /\ Cardinality(Under(i)) # n
    BY <2>1, FS_Subset
  <2>3. Cardinality(Under(i)) \in Nat
    BY <2>2, FS_CardinalityType
  <2> QED
    BY <1>1, <2>2, <2>3
<1>3. \A i, j \in S : number[i] < number[j] => Cardinality(Under(i)) < Cardinality(Under(j))
  <2> SUFFICES ASSUME NEW i \in S, NEW j \in S, number[i] < number[j]
               PROVE  Cardinality(Under(i)) < Cardinality(Under(j))
    OBVIOUS
  <2>1. Under(i) \in SUBSET Under(j) /\ i \in Under(j) /\ i \notin Under(i)
    OBVIOUS
  <2> HIDE DEF Under, n
  <2>2. IsFiniteSet(Under(j)) /\ Cardinality(Under(i)) \in Nat /\ Cardinality(Under(j)) \in Nat
    BY <1>1, <1>2
  <2> QED
    BY <2>1, <2>2, FS_Subset
<1>n. \A i \in S : Cardinality(Under(i)) \in Nat
  <2> HIDE DEF Under, n
  <2> QED
    BY <1>1, <1>2
<1>4. \A i, j \in S : Cardinality(Under(i)) < Cardinality(Under(j)) => number[i] < number[j]
  <2> SUFFICES ASSUME NEW i \in S, NEW j \in S, Cardinality(Under(i)) < Cardinality(Under(j)),
                      ~(number[i] < number[j])
               PROVE  FALSE
    OBVIOUS
  <2>1. number[i] \in Nat /\ number[j] \in Nat
    OBVIOUS
  <2>2. CASE number[i] = number[j]
    <3>1. i = j
      BY <2>2
    <3> HIDE DEF Under
    <3> QED
      BY <1>n, <3>1
  <2>3. CASE number[j] < number[i]
    <3> HIDE DEF Under
    <3> QED
      BY <1>n, <1>3, <2>3
  <2> QED
    BY <2>1, <2>2, <2>3
<1>5. \A i, j \in S : Cardinality(Under(i)) = Cardinality(Under(j)) => i = j
  <2> SUFFICES ASSUME NEW i \in S, NEW j \in S, Cardinality(Under(i)) = Cardinality(Under(j))
               PROVE  i = j
    OBVIOUS
  <2>1. ~(number[i] < number[j]) /\ ~(number[j] < number[i])
    <3> HIDE DEF Under
    <3> QED
      BY <1>n, <1>3
  <2> QED
    BY <2>1
<1>6. InOrder(S, number) = [k \in 1..n |-> CHOOSE i \in S : Cardinality(Under(i)) = k - 1]
  BY DEF InOrder
<1> HIDE DEF Under, L
<1>7. rank \in Injection(S, 1..n)
  <2>1. \A i \in S : rank[i] \in 1..n
    BY <1>1, <1>2
  <2>2. \A i, j \in S : rank[i] = rank[j] => i = j
    BY <1>1, <1>2, <1>5
  <2>3. rank \in [S -> 1..n]
    BY <2>1
  <2> HIDE DEF rank
  <2> QED
    BY <2>2, <2>3 DEF Injection, IsInjective
<1>8. rank \in Surjection(S, 1..n)
  <2>1. IsFiniteSet(1..n) /\ Cardinality(1..n) = n
    BY <1>1, FS_Interval
  <2> HIDE DEF rank, n
  <2> QED
    BY <1>7, <2>1, FS_Injection DEF n
<1>9. \A k \in 1..n : \E i \in S : Cardinality(Under(i)) = k - 1
  <2> TAKE k \in 1..n
  <2>1. PICK i \in S : rank[i] = k
    BY <1>8 DEF Surjection
  <2> QED
    BY <1>1, <1>2, <2>1
<1>10. \A k \in 1..n : L[k] \in S /\ Cardinality(Under(L[k])) = k - 1
  BY <1>6, <1>9 DEF L
<1>11. L \in Seq(S) /\ Len(L) = n
  BY <1>1, <1>6, <1>10 DEF L
<1>12. \A i \in S : \E k \in 1..n : L[k] = i
  <2> TAKE i \in S
  <2>1. PICK k \in 1..n : k - 1 = Cardinality(Under(i))
    <3>1. Cardinality(Under(i)) + 1 \in 1..n
      BY <1>1, <1>2
    <3> QED
      BY <1>2, <3>1
  <2> QED
    BY <1>5, <1>10, <2>1
<1>13. \A k, l \in 1..n : number[L[l]] < number[L[k]] => l < k
  <2> TAKE k, l \in 1..n
  <2> HAVE number[L[l]] < number[L[k]]
  <2>1. Cardinality(Under(L[l])) < Cardinality(Under(L[k]))
    BY <1>3, <1>10
  <2> QED
    BY <1>1, <1>10, <2>1
<1>14. \A k, l \in 1..n : L[l] = L[k] => l = k
  <2> TAKE k, l \in 1..n
  <2> HAVE L[l] = L[k]
  <2>1. k - 1 = l - 1
    BY <1>10
  <2> QED
    BY <1>1, <2>1
<1> QED
  BY <1>10, <1>11, <1>12, <1>13, <1>14 DEF L

\* Keep keeps what is at the places, in the order it was in.
LEMMA KeepFacts ==
  ASSUME NEW T, NEW s \in Seq(T), NEW places \in SUBSET DOMAIN s
  PROVE  /\ Keep(s, places) \in Seq(T)
         /\ ToSet(Keep(s, places)) = {s[k] : k \in places}
         /\ \A m \in DOMAIN Keep(s, places) : \E k \in places :
              /\ Keep(s, places)[m] = s[k]
              /\ \A l \in places : l < k => \E h \in 1..(m - 1) : Keep(s, places)[h] = s[l]
         /\ \A m, h \in DOMAIN Keep(s, places) :
              m # h => \E k, l \in places : k # l /\ Keep(s, places)[m] = s[k]
                                            /\ Keep(s, places)[h] = s[l]
<1> DEFINE id == [k \in places |-> k]
           at == InOrder(places, id)
           n == Cardinality(places)
           K == Keep(s, places)
<1>1. IsFiniteSet(places) /\ places \subseteq Nat /\ n \in Nat
  <2>1. Len(s) \in Nat /\ DOMAIN s = 1..Len(s)
    OBVIOUS
  <2>2. IsFiniteSet(DOMAIN s)
    BY <2>1, FS_Interval
  <2> QED
    BY <2>1, <2>2, FS_Subset, FS_CardinalityType
<1>2. id \in [places -> Nat] /\ \A i, j \in places : id[i] = id[j] => i = j
  BY <1>1
<1>3. /\ at \in Seq(places) /\ Len(at) = n
      /\ \A k \in 1..n : at[k] \in places
      /\ \A i \in places : \E k \in 1..n : at[k] = i
      /\ \A k, l \in 1..n : id[at[l]] < id[at[k]] => l < k
  <2> HIDE DEF id
  <2>1. IsFiniteSet(places) /\ id \in [places -> Nat]
        /\ \A i, j \in places : id[i] = id[j] => i = j
    BY <1>1, <1>2
  <2>2. at \in Seq(places) /\ Len(at) = n
    BY <2>1, InOrderFacts
  <2>3. \A k \in 1..n : at[k] \in places
    BY <2>1, InOrderFacts
  <2>4. ASSUME NEW i \in places PROVE \E k \in 1..n : at[k] = i
    <3> HIDE DEF n
    <3> QED
      BY <2>1, InOrderFacts DEF n
  <2>5. \A k, l \in 1..n : id[at[l]] < id[at[k]] => l < k
    BY <2>1, InOrderFacts
  <2> QED
    BY <2>2, <2>3, <2>4, <2>5
<1>i. \A k, l \in 1..n : at[l] = at[k] => l = k
  <2> HIDE DEF id
  <2> QED
    BY <1>1, <1>2, InOrderFacts
<1>4. \A k, l \in 1..n : at[l] < at[k] => l < k
  BY <1>3
<1>5. K = [m \in 1..n |-> s[at[m]]]
  BY <1>3 DEF Keep
<1> HIDE DEF at, K
<1>6. K \in Seq(T) /\ DOMAIN K = 1..n
  BY <1>1, <1>3, <1>5
<1>7. ToSet(K) = {s[k] : k \in places}
  BY <1>3, <1>5 DEF ToSet
<1>8. ASSUME NEW m \in DOMAIN K
      PROVE  \E k \in places :
               /\ K[m] = s[k]
               /\ \A l \in places : l < k => \E h \in 1..(m - 1) : K[h] = s[l]
  <2>1. m \in 1..n /\ at[m] \in places /\ K[m] = s[at[m]]
    BY <1>3, <1>5, <1>6
  <2>2. ASSUME NEW l \in places, l < at[m] PROVE \E h \in 1..(m - 1) : K[h] = s[l]
    <3>1. PICK h \in 1..n : at[h] = l
      BY <1>3
    <3>2. h < m
      BY <1>4, <2>1, <2>2, <3>1
    <3> QED
      BY <1>5, <2>1, <3>1, <3>2
  <2> QED
    BY <2>1, <2>2
<1>9. ASSUME NEW m \in DOMAIN K, NEW h \in DOMAIN K, m # h
      PROVE  \E k, l \in places : k # l /\ K[m] = s[k] /\ K[h] = s[l]
  <2>1. at[m] \in places /\ at[h] \in places /\ at[m] # at[h]
    BY <1>3, <1>i, <1>6, <1>9
  <2> QED
    BY <1>5, <1>6, <1>9, <2>1
<1> QED
  BY <1>6, <1>7, <1>8, <1>9 DEF K

\* What two sequences have together.
LEMMA ToSetConcat ==
  ASSUME NEW S, NEW T, NEW s \in Seq(S), NEW t \in Seq(T)
  PROVE  ToSet(s \o t) = ToSet(s) \cup ToSet(t)
<1> DEFINE u == s \o t
<1>1. /\ DOMAIN u = 1..(Len(s) + Len(t)) /\ Len(s) \in Nat /\ Len(t) \in Nat
      /\ DOMAIN s = 1..Len(s) /\ DOMAIN t = 1..Len(t)
      /\ \A k \in 1..Len(s) : u[k] = s[k]
      /\ \A k \in 1..Len(t) : u[Len(s) + k] = t[k]
  OBVIOUS
<1> HIDE DEF u
<1>2. ASSUME NEW x \in ToSet(u) PROVE x \in ToSet(s) \cup ToSet(t)
  <2>1. PICK k \in 1..(Len(s) + Len(t)) : x = u[k]
    BY <1>1 DEF ToSet
  <2>2. CASE k <= Len(s)
    BY <1>1, <2>1, <2>2 DEF ToSet
  <2>3. CASE k > Len(s)
    <3>1. k - Len(s) \in 1..Len(t) /\ Len(s) + (k - Len(s)) = k
      BY <1>1, <2>3
    <3>2. u[k] = t[k - Len(s)]
      BY <1>1, <3>1
    <3> QED
      BY <1>1, <2>1, <3>1, <3>2 DEF ToSet
  <2> QED
    BY <1>1, <2>2, <2>3
<1>3. ASSUME NEW x \in ToSet(s) PROVE x \in ToSet(u)
  BY <1>1 DEF ToSet
<1>4. ASSUME NEW x \in ToSet(t) PROVE x \in ToSet(u)
  <2>1. PICK k \in 1..Len(t) : x = t[k]
    BY <1>1 DEF ToSet
  <2>2. Len(s) + k \in DOMAIN u /\ u[Len(s) + k] = x
    BY <1>1, <2>1
  <2> QED
    BY <2>2 DEF ToSet
<1>5. ToSet(u) = ToSet(s) \cup ToSet(t)
  BY <1>2, <1>3, <1>4
<1> QED
  BY <1>5 DEF u

\* BestPackage gives one of the packages it is given.
LEMMA BestPackageFacts ==
  ASSUME NEW T, NEW ps \in Seq(T), ps # <<>>, NEW n, NEW ex, NEW orig, NEW pin
  PROVE  BestPackage(ps, n, ex, orig, pin) \in ToSet(ps)
<1> DEFINE L == Len(ps)
           B(m, i) == IF Preferred(i, m, n, ex, orig, pin) THEN i ELSE m
           Goes(f, k) == f[1] = ps[1] /\ \A i \in 2..k : f[i] = B(f[i - 1], ps[i])
           S == {k \in 1..L : \E f : Goes(f, k)}
<1>1. L \in Nat /\ 1 <= L /\ DOMAIN ps = 1..L
  OBVIOUS
<1>b. \A m, i : B(m, i) \in {m, i}
  OBVIOUS
<1> HIDE DEF B, L
<1>2. 1 \in S
  <2> DEFINE f == [i \in 1..1 |-> ps[1]]
  <2>1. Goes(f, 1)
    OBVIOUS
  <2> HIDE DEF f
  <2> QED
    BY <1>1, <2>1
<1>3. ASSUME NEW k \in 1..(L - 1), k \in S PROVE k + 1 \in S
  <2>1. PICK f : Goes(f, k)
    BY <1>3
  <2> DEFINE g == [i \in 1..(k + 1) |-> IF i = k + 1 THEN B(f[k], ps[k + 1]) ELSE f[i]]
  <2>2. k \in Nat /\ k >= 1 /\ k + 1 \in 1..L
    BY <1>1
  <2>3. g[1] = ps[1]
    BY <2>1, <2>2
  <2>4. ASSUME NEW i \in 2..(k + 1) PROVE g[i] = B(g[i - 1], ps[i])
    <3>1. i \in 1..(k + 1) /\ i - 1 \in 1..(k + 1) /\ i - 1 # k + 1
      BY <2>2
    <3>2. g[i - 1] = f[i - 1]
      BY <3>1
    <3>3. CASE i = k + 1
      <4>1. i - 1 = k /\ g[i] = B(f[k], ps[i])
        BY <2>2, <3>1, <3>3
      <4> QED
        BY <3>2, <4>1
    <3>4. CASE i # k + 1
      <4>1. i \in 2..k /\ g[i] = f[i]
        BY <2>2, <3>1, <3>4
      <4> QED
        BY <2>1, <3>2, <4>1
    <3> QED
      BY <3>3, <3>4
  <2>5. Goes(g, k + 1)
    BY <2>3, <2>4
  <2> HIDE DEF g
  <2> QED
    BY <2>2, <2>5
<1>4. L \in S
  <2> HIDE DEF S
  <2> QED
    BY <1>1, <1>2, <1>3, UpTo
<1>5. PICK f : Goes(f, L)
  BY <1>4
<1> DEFINE h == [i \in 1..L |-> f[i]]
<1>6. h = [i \in 1..L |-> IF i = 1 THEN ps[1] ELSE B(h[i - 1], ps[i])]
  <2> SUFFICES ASSUME NEW i \in 1..L
               PROVE  f[i] = IF i = 1 THEN ps[1] ELSE B(h[i - 1], ps[i])
    OBVIOUS
  <2>1. CASE i = 1
    BY <1>5, <2>1
  <2>2. CASE i # 1
    <3>1. i \in 2..L /\ i - 1 \in 1..L
      BY <1>1, <2>2
    <3>2. h[i - 1] = f[i - 1]
      BY <3>1
    <3>3. f[i] = B(f[i - 1], ps[i])
      BY <1>5, <3>1
    <3> QED
      BY <2>2, <3>2, <3>3
  <2> QED
    BY <2>1, <2>2
<1> DEFINE F == CHOOSE g : g = [i \in 1..L |-> IF i = 1 THEN ps[1] ELSE B(g[i - 1], ps[i])]
<1>7. F = [i \in 1..L |-> IF i = 1 THEN ps[1] ELSE B(F[i - 1], ps[i])]
  <2> HIDE DEF h
  <2> QED
    BY <1>6
<1>8. BestPackage(ps, n, ex, orig, pin) = F[L]
  BY DEF BestPackage, L, B
<1> HIDE DEF F
<1> DEFINE In == {k \in 1..L : F[k] \in ToSet(ps)}
<1>9. 1 \in In
  BY <1>1, <1>7 DEF ToSet
<1>10. ASSUME NEW k \in 1..(L - 1), k \in In PROVE k + 1 \in In
  <2>1. k + 1 \in 1..L /\ k + 1 # 1 /\ (k + 1) - 1 = k
    BY <1>1
  <2>2. F[k + 1] = B(F[k], ps[k + 1])
    BY <1>7, <2>1
  <2>3. F[k] \in ToSet(ps) /\ ps[k + 1] \in ToSet(ps)
    BY <1>1, <1>10, <2>1 DEF ToSet
  <2>4. F[k + 1] \in ToSet(ps)
    BY <1>b, <2>2, <2>3
  <2> QED
    BY <2>1, <2>4
<1>11. L \in In
  <2> HIDE DEF In
  <2> QED
    BY <1>1, <1>9, <1>10, UpTo
<1> QED
  BY <1>8, <1>11

-----------------------------------------------------------------------------
(***************************************************************************)
(* The indexes.                                                            *)
(***************************************************************************)

\* What the assumption says of a problem.
Problem == pkg \in Universes /\ world \in Worlds /\ mapOrder \in MapOrders

\* What the assumptions say of a package.
LEMMA PackageFacts ==
  ASSUME Problem
  PROVE  /\ Len(pkg) \in Nat /\ Packages = 1..Len(pkg) /\ IsFiniteSet(Packages)
         /\ None \notin Packages
         /\ \A i \in Packages :
              /\ pkg[i].name \in Names /\ pkg[i].ver \in Nat /\ pkg[i].origin \in Origins
              /\ ProvidedNames(i) \subseteq Names
              /\ pkg[i].deps \subseteq Constraint /\ IsFiniteSet(pkg[i].deps)
              /\ \A c \in pkg[i].deps : Versioned(c)
<1>1. pkg \in Seq(Package)
  BY ResolverAssumption DEF Problem
<1>2. Len(pkg) \in Nat /\ Packages = 1..Len(pkg) /\ \A i \in Packages : pkg[i] \in Package
  BY <1>1 DEF Packages
<1>3. IsFiniteSet(Packages)
  BY <1>2, FS_Interval
<1>4. Vers \subseteq Nat
  BY ResolverAssumption DEF Vers
<1>5. ASSUME NEW i \in Packages
      PROVE  /\ pkg[i].name \in Names /\ pkg[i].ver \in Nat /\ pkg[i].origin \in Origins
             /\ pkg[i].deps \subseteq Constraint
             /\ pkg[i].provides \subseteq [name : Names, ver : {0} \cup Vers]
  BY <1>2, <1>4 DEF Package
<1>6. \A i \in Packages : ProvidedNames(i) \subseteq Names
  BY <1>5 DEF ProvidedNames
<1>7. \A i \in Packages : IsFiniteSet(pkg[i].deps) /\ \A c \in pkg[i].deps : Versioned(c)
  BY ResolverAssumption DEF Problem, Packages
<1>8. None \notin Packages
  BY <1>2 DEF None
<1> QED
  BY <1>2, <1>3, <1>5, <1>6, <1>7, <1>8

\* What they say of the world.
LEMMA WorldFacts ==
  ASSUME Problem
  PROVE  /\ Len(world) \in Nat /\ DOMAIN world = 1..Len(world)
         /\ \A k \in DOMAIN world : world[k] \in Constraint /\ ~world[k].neg /\ Versioned(world[k])
<1> DEFINE C == {c \in Constraint : Versioned(c) /\ ~c.neg}
<1>1. world \in Seq(C)
  BY ResolverAssumption DEF Problem
<1>2. \A c \in C : c \in Constraint /\ ~c.neg /\ Versioned(c)
  OBVIOUS
<1> HIDE DEF C
<1>3. Len(world) \in Nat /\ DOMAIN world = 1..Len(world) /\ \A k \in DOMAIN world : world[k] \in C
  BY <1>1
<1> QED
  BY <1>2, <1>3

\* The parts of a constraint.
LEMMA ConstraintFacts ==
  ASSUME NEW c \in Constraint
  PROVE  c.name \in Names /\ c.ver \in Nat /\ c.op \in versionDependency
<1>1. \A v \in {0} \cup Vers : v \in Nat
  <2>1. Vers \subseteq Nat
    BY ResolverAssumption DEF Vers
  <2> QED
    BY <2>1
<1>2. c.name \in Names /\ c.ver \in {0} \cup Vers
  BY DEF Constraint
<1>3. c.op \in versionDependency
  BY DEF Constraint
<1>4. c.ver \in Nat
  BY <1>1, <1>2
<1> QED
  BY <1>2, <1>3, <1>4

\* The candidates for a name are the packages that have it or provide it.
Carriers(n) == {i \in Packages : pkg[i].name = n \/ n \in ProvidedNames(i)}

\* nameMap lists the packages that have a name or provide it.
LEMMA CandidatesFacts ==
  ASSUME Problem, NEW n
  PROVE  Candidates(n) \in Seq(Packages) /\ ToSet(Candidates(n)) = Carriers(n)
<1> DEFINE named == {i \in Packages : pkg[i].name = n}
           providing == {i \in Packages : n \in ProvidedNames(i)}
           f == [i \in named |-> i]
           g == [i \in providing |-> mapOrder[pkg[i].name] * Len(pkg) + i]
<1>1. IsFiniteSet(named) /\ IsFiniteSet(providing)
  BY PackageFacts, FS_Subset
<1>2. f \in [named -> Nat] /\ \A i, j \in named : f[i] = f[j] => i = j
  BY PackageFacts
<1>3. \A i \in Packages : mapOrder[pkg[i].name] \in Nat /\ i \in 1..Len(pkg)
  BY PackageFacts, ResolverAssumption DEF Problem
<1>4. \A m, k \in Nat : \A i, j \in 1..Len(pkg) :
        /\ m * Len(pkg) + i \in Nat
        /\ m * Len(pkg) + i = k * Len(pkg) + j => i = j
  <2>1. Len(pkg) \in Nat
    BY PackageFacts
  <2> SUFFICES ASSUME NEW L \in Nat, NEW m \in Nat, NEW k \in Nat, NEW i \in 1..L, NEW j \in 1..L
               PROVE  /\ m * L + i \in Nat
                      /\ m * L + i = k * L + j => i = j
    BY <2>1
  <2>2. m * L \in Nat /\ k * L \in Nat
    OBVIOUS
  <2>3. ASSUME m < k PROVE k * L >= m * L + L
    <3>1. PICK d \in Nat : k = m + 1 + d
      BY <2>3
    <3>2. k * L = m * L + L + d * L
      BY <3>1
    <3> QED
      BY <2>2, <3>2
  <2>4. ASSUME k < m PROVE m * L >= k * L + L
    <3>1. PICK d \in Nat : m = k + 1 + d
      BY <2>4
    <3>2. m * L = k * L + L + d * L
      BY <3>1
    <3> QED
      BY <2>2, <3>2
  <2>5. CASE m = k
    BY <2>2, <2>5
  <2>6. CASE m < k
    BY <2>2, <2>3, <2>6
  <2>7. CASE k < m
    BY <2>2, <2>4, <2>7
  <2> QED
    BY <2>2, <2>5, <2>6, <2>7
<1>5. g \in [providing -> Nat] /\ \A i, j \in providing : g[i] = g[j] => i = j
  BY <1>3, <1>4
<1>6. /\ InOrder(named, f) \in Seq(named)
      /\ \A k \in 1..Len(InOrder(named, f)) : InOrder(named, f)[k] \in named
      /\ \A i \in named : \E k \in 1..Len(InOrder(named, f)) : InOrder(named, f)[k] = i
  <2> HIDE DEF named, f
  <2> QED
    BY <1>1, <1>2, InOrderFacts
<1>7. /\ InOrder(providing, g) \in Seq(providing)
      /\ \A k \in 1..Len(InOrder(providing, g)) : InOrder(providing, g)[k] \in providing
      /\ \A i \in providing : \E k \in 1..Len(InOrder(providing, g)) : InOrder(providing, g)[k] = i
  <2> HIDE DEF providing, g
  <2> QED
    BY <1>1, <1>5, InOrderFacts
<1>8. Candidates(n) = InOrder(named, f) \o InOrder(providing, g)
  BY DEF Candidates
<1>9. InOrder(named, f) \in Seq(Packages) /\ InOrder(providing, g) \in Seq(Packages)
  BY <1>6, <1>7
<1> HIDE DEF f, g
<1>10. Candidates(n) \in Seq(Packages)
  BY <1>8, <1>9
<1>11. ToSet(Candidates(n)) = named \cup providing
  <2> DEFINE s == InOrder(named, f)
             t == InOrder(providing, g)
  <2> HIDE DEF s, t, named, providing
  <2>1. s \in Seq(named) /\ t \in Seq(providing) /\ Candidates(n) = s \o t
    BY <1>6, <1>7, <1>8 DEF s, t
  <2>2. ToSet(s) = named
    <3>1. /\ DOMAIN s = 1..Len(s) /\ \A k \in 1..Len(s) : s[k] \in named
          /\ \A i \in named : \E k \in 1..Len(s) : s[k] = i
      BY <1>6, <2>1 DEF s
    <3> QED
      BY <3>1 DEF ToSet
  <2>3. ToSet(t) = providing
    <3>1. /\ DOMAIN t = 1..Len(t) /\ \A k \in 1..Len(t) : t[k] \in providing
          /\ \A i \in providing : \E k \in 1..Len(t) : t[k] = i
      BY <1>7, <2>1 DEF t
    <3> QED
      BY <3>1 DEF ToSet
  <2> QED
    BY <2>1, <2>2, <2>3, ToSetConcat
<1> QED
  BY <1>10, <1>11 DEF Carriers

\* filterPackages leaves the candidates that are allowed.
LEMMA FilterFacts ==
  ASSUME Problem, NEW c, NEW allowPin, NEW preferPin, NEW installed
  PROVE  /\ FilterPackages(c, allowPin, preferPin, installed) \in Seq(Packages)
         /\ ToSet(FilterPackages(c, allowPin, preferPin, installed))
              = {i \in Carriers(c.name) : Allowed(i, c, allowPin, preferPin, installed)}
<1> DEFINE ps == Candidates(c.name)
           places == {k \in DOMAIN ps : Allowed(ps[k], c, allowPin, preferPin, installed)}
           F == FilterPackages(c, allowPin, preferPin, installed)
<1>1. F = Keep(ps, places)
  BY DEF FilterPackages
<1>2. ps \in Seq(Packages) /\ ToSet(ps) = Carriers(c.name)
  BY CandidatesFacts
<1>3. places \in SUBSET DOMAIN ps
  OBVIOUS
<1>4. F \in Seq(Packages) /\ ToSet(F) = {ps[k] : k \in places}
  <2> HIDE DEF ps, places, F
  <2> QED
    BY <1>1, <1>2, <1>3, KeepFacts
<1>5. {ps[k] : k \in places} = {i \in ToSet(ps) : Allowed(i, c, allowPin, preferPin, installed)}
  <2> HIDE DEF ps
  <2> QED
    BY DEF ToSet
<1> QED
  BY <1>2, <1>4, <1>5

\* What an allowed candidate is.
LEMMA AllowedFacts ==
  ASSUME NEW c, NEW allowPin, NEW preferPin, NEW installed, NEW i \in Carriers(c.name),
         Allowed(i, c, allowPin, preferPin, installed)
  PROVE  i \in Packages /\ i \notin dq /\ Fulfils(i, c)
BY DEF Carriers, Allowed, Fulfils

\* A package that is resolved was not disqualified and is what was asked for.
LEMMA ResolveFacts ==
  ASSUME Problem, NEW c, ResolvePackages(c) # <<>>
  PROVE  /\ ResolvePackage(c) \in Packages /\ ResolvePackage(c) \notin dq
         /\ Fulfils(ResolvePackage(c), c)
<1>1. ResolvePackages(c) \in Seq(Packages)
      /\ ToSet(ResolvePackages(c)) = {i \in Carriers(c.name) : Allowed(i, c, "", c.pin, None)}
  BY FilterFacts DEF ResolvePackages
<1>2. ResolvePackage(c) \in ToSet(ResolvePackages(c))
  BY <1>1, BestPackageFacts DEF ResolvePackage
<1> QED
  BY <1>1, <1>2, AllowedFacts

\* The same of the package that is called for.
LEMMA CalleeFacts ==
  ASSUME Problem, NEW c, Options(c) # <<>>
  PROVE  /\ Callee(c).pkg \in Packages /\ Callee(c).pkg \notin dq
         /\ Fulfils(Callee(c).pkg, c)
         /\ Callee(c).parents = Top.parents \cup {pkg[Top.pkg].name}
         /\ Callee(c).deps = <<>>
         /\ Callee(c).todo = IF pkg[Callee(c).pkg].name \in Callee(c).parents THEN {}
                             ELSE pkg[Callee(c).pkg].deps
<1>1. Options(c) \in Seq(Packages)
      /\ ToSet(Options(c)) = {i \in Carriers(c.name) : Allowed(i, c, Pin, "", existing[c.name])}
  BY FilterFacts DEF Options
<1>2. BestPackage(Options(c), c.name, existing, origins, "") \in ToSet(Options(c))
  BY <1>1, BestPackageFacts
<1>3. /\ Callee(c).pkg = BestPackage(Options(c), c.name, existing, origins, "")
      /\ Callee(c).parents = Top.parents \cup {pkg[Top.pkg].name}
      /\ Callee(c).deps = <<>>
      /\ Callee(c).todo = IF pkg[Callee(c).pkg].name \in Callee(c).parents THEN {}
                          ELSE pkg[Callee(c).pkg].deps
  BY DEF Callee, Frame
<1> QED
  BY <1>1, <1>2, <1>3, AllowedFacts

\* Of constraints there is one that nothing comes before.
LEMMA LowestFacts ==
  ASSUME Problem, Open \subseteq Constraint, Open # {}
  PROVE  Lowest \in Open
<1> DEFINE Count(c) == Len(Options(c))
           Rank(op) == CASE op = "any" -> 0 [] op = "<" -> 1 [] op = "<=" -> 2
                    [] op = "=" -> 3 [] op = ">" -> 4 [] op = ">=" -> 5 [] op = "~" -> 6
<1>1. \A c \in Open : Count(c) \in Nat /\ c.name \in Nat /\ Rank(c.op) \in Nat /\ c.ver \in Nat
  <2> TAKE c \in Open
  <2>1. Options(c) \in Seq(Packages)
    BY FilterFacts DEF Options
  <2>2. c.name \in Nat /\ c.ver \in Nat /\ c.op \in versionDependency
    BY ConstraintFacts, ResolverAssumption
  <2>3. Rank(c.op) \in Nat
    BY <2>2 DEF versionDependency
  <2>4. Count(c) \in Nat
    BY <2>1
  <2> HIDE DEF Count, Rank
  <2> QED
    BY <2>2, <2>3, <2>4
<1>2. \A c, d \in Open : Before(d, c) <=>
         \/ Count(d) < Count(c)
         \/ /\ Count(d) = Count(c)
            /\ \/ d.name < c.name
               \/ d.name = c.name /\ Rank(d.op) < Rank(c.op)
               \/ d.name = c.name /\ d.op = c.op /\ d.ver < c.ver
  BY DEF Before, StringBefore
<1> HIDE DEF Count, Rank
<1> DEFINE A == {Count(c) : c \in Open}
<1>3. PICK a \in Open : \A d \in Open : Count(a) <= Count(d)
  <2>1. A \in SUBSET Nat /\ A # {}
    BY <1>1
  <2> HIDE DEF A
  <2>2. \E x \in A : \A y \in A : x <= y
    BY <2>1, LeastExists
  <2> QED
    BY <2>2 DEF A
<1> DEFINE B == {c \in Open : Count(c) = Count(a)}
           BN == {c.name : c \in B}
<1>4. PICK b \in B : \A d \in B : b.name <= d.name
  <2>1. BN \in SUBSET Nat /\ BN # {}
    BY <1>1
  <2> HIDE DEF BN
  <2>2. \E x \in BN : \A y \in BN : x <= y
    BY <2>1, LeastExists
  <2> QED
    BY <2>2 DEF BN
<1> DEFINE C == {c \in B : c.name = b.name}
           CR == {Rank(c.op) : c \in C}
<1>5. PICK r \in C : \A d \in C : Rank(r.op) <= Rank(d.op)
  <2>1. CR \in SUBSET Nat /\ CR # {}
    BY <1>1
  <2> HIDE DEF CR
  <2>2. \E x \in CR : \A y \in CR : x <= y
    BY <2>1, LeastExists
  <2> QED
    BY <2>2 DEF CR
<1> DEFINE D == {c \in C : c.op = r.op}
           DV == {c.ver : c \in D}
<1>6. PICK e \in D : \A d \in D : e.ver <= d.ver
  <2>1. DV \in SUBSET Nat /\ DV # {}
    BY <1>1
  <2> HIDE DEF DV
  <2>2. \E x \in DV : \A y \in DV : x <= y
    BY <2>1, LeastExists
  <2> QED
    BY <2>2 DEF DV
<1>7. e \in Open /\ Count(e) = Count(a) /\ e.name = b.name /\ e.op = r.op
  BY <1>6
<1>8. ASSUME NEW d \in Open, Before(d, e) PROVE FALSE
  <2>1. ~(Count(d) < Count(e))
    BY <1>1, <1>3, <1>7
  <2>2. Count(d) = Count(e) /\ d \in B
    BY <1>2, <1>7, <1>8, <2>1
  <2>3. ~(d.name < e.name)
    BY <1>1, <1>4, <1>7, <2>2
  <2>4. d.name = e.name /\ d \in C
    BY <1>2, <1>7, <1>8, <2>1, <2>2, <2>3
  <2>5. ~(Rank(d.op) < Rank(e.op))
    BY <1>1, <1>5, <1>7, <2>4
  <2>6. d.op = e.op /\ d.ver < e.ver
    BY <1>2, <1>7, <1>8, <2>1, <2>2, <2>3, <2>4, <2>5
  <2>7. d \in D
    BY <1>7, <2>4, <2>6
  <2> QED
    BY <1>1, <1>6, <1>7, <2>6, <2>7
<1> QED
  BY <1>7, <1>8 DEF Lowest

\* What is disqualified are packages.
LEMMA DisqualifiedFacts ==
  ASSUME Problem
  PROVE  /\ \A n : Providers(n) = Carriers(n)
         /\ Lacking \subseteq Packages
         /\ \A cs : Constrain(cs) \subseteq Packages
         /\ \A i : Conflicting(i) \subseteq Packages
<1>1. \A n : Providers(n) = Carriers(n) /\ Carriers(n) \subseteq Packages
  BY CandidatesFacts DEF Providers, Carriers
<1>2. \A c : Excluded(c) \subseteq Packages /\ Mismatched(c) \subseteq Packages
  BY <1>1 DEF Excluded, Mismatched
<1>3. \A cs : Constrain(cs) \subseteq Packages
  BY <1>2 DEF Constrain
<1>4. \A i : Conflicting(i) \subseteq Packages
  BY <1>1 DEF Conflicting
<1> QED
  BY <1>1, <1>3, <1>4 DEF Lacking

-----------------------------------------------------------------------------
(***************************************************************************)
(* The lists of packages.                                                  *)
(***************************************************************************)

NameAt(s, k) == pkg[s[k]].name
Distinct(s) == \A k, l \in DOMAIN s : NameAt(s, k) = NameAt(s, l) => k = l

\* The names of a list of packages, and of two lists together.
LEMMA NamesInFacts ==
  ASSUME NEW S, NEW s \in Seq(S)
  PROVE  /\ \A n : n \in NamesIn(s) <=> \E k \in DOMAIN s : NameAt(s, k) = n
         /\ \A T, t : t \in Seq(T) => NamesIn(s \o t) = NamesIn(s) \cup NamesIn(t)
<1>1. \A T, t : t \in Seq(T) => ToSet(s \o t) = ToSet(s) \cup ToSet(t)
  BY ToSetConcat
<1>2. \A n : n \in NamesIn(s) <=> \E k \in DOMAIN s : NameAt(s, k) = n
  BY DEF NamesIn, NameAt, ToSet
<1>3. \A T, t : t \in Seq(T) => NamesIn(s \o t) = NamesIn(s) \cup NamesIn(t)
  BY <1>1 DEF NamesIn
<1> QED
  BY <1>2, <1>3

\* AddNew adds packages for the names that are new, in the order they are in,
\* and one for each name.
LEMMA AddNewFacts ==
  ASSUME NEW s \in Seq(Packages), NEW t \in Seq(Packages)
  PROVE  /\ AddNew(s, t) \in Seq(Packages)
         /\ ToSet(s) \subseteq ToSet(AddNew(s, t))
         /\ ToSet(AddNew(s, t)) \subseteq ToSet(s) \cup ToSet(t)
         /\ NamesIn(AddNew(s, t)) = NamesIn(s) \cup NamesIn(t)
         /\ Distinct(s) => Distinct(AddNew(s, t))
         /\ Len(AddNew(s, t)) >= Len(s) /\ \A m \in 1..Len(s) : AddNew(s, t)[m] = s[m]
         /\ \A m \in (Len(s) + 1)..Len(AddNew(s, t)) : \E k \in DOMAIN t :
              /\ AddNew(s, t)[m] = t[k]
              /\ \A l \in 1..(k - 1) : \E h \in 1..(m - 1) : NameAt(AddNew(s, t), h) = NameAt(t, l)
<1> DEFINE places == {k \in DOMAIN t : /\ NameAt(t, k) \notin NamesIn(s)
                                       /\ \A l \in 1..(k - 1) : NameAt(t, l) # NameAt(t, k)}
           K == Keep(t, places)
           A == AddNew(s, t)
<1>1. A = s \o K
  BY DEF AddNew, NameAt
<1>2. places \in SUBSET DOMAIN t
  OBVIOUS
<1>3. K \in Seq(Packages) /\ ToSet(K) = {t[k] : k \in places}
  <2> HIDE DEF places
  <2> QED
    BY <1>2, KeepFacts
<1>4. \A m \in DOMAIN K : \E k \in places :
        /\ K[m] = t[k]
        /\ \A l \in places : l < k => \E h \in 1..(m - 1) : K[h] = t[l]
  <2> HIDE DEF places
  <2> QED
    BY <1>2, KeepFacts
<1>5. \A m, h \in DOMAIN K : m # h => \E k, l \in places : k # l /\ K[m] = t[k] /\ K[h] = t[l]
  <2> HIDE DEF places
  <2> QED
    BY <1>2, KeepFacts
<1>6. \A k, l \in places : k # l => NameAt(t, k) # NameAt(t, l)
  <2> TAKE k, l \in places
  <2> HAVE k # l
  <2>1. k \in Nat /\ l \in Nat /\ k >= 1 /\ l >= 1
    OBVIOUS
  <2>2. CASE k < l
    BY <2>1, <2>2
  <2>3. CASE l < k
    BY <2>1, <2>3
  <2> QED
    BY <2>1, <2>2, <2>3
\* The names: the first place of each new name is kept.
<1>7. ASSUME NEW k \in DOMAIN t, NameAt(t, k) \notin NamesIn(s)
      PROVE  \E f \in places : f <= k /\ NameAt(t, f) = NameAt(t, k)
  <2> DEFINE P == {l \in 1..k : NameAt(t, l) = NameAt(t, k)}
  <2>1. k \in Nat /\ 1 <= k /\ k <= Len(t) /\ DOMAIN t = 1..Len(t) /\ Len(t) \in Nat
    OBVIOUS
  <2>2. P \in SUBSET Nat /\ P # {}
    BY <2>1
  <2>3. PICK f \in P : \A l \in P : f <= l
    <3> HIDE DEF P
    <3> QED
      BY <2>2, LeastExists
  <2>4. f \in DOMAIN t /\ f <= k /\ NameAt(t, f) = NameAt(t, k)
    BY <2>1, <2>3
  <2>5. \A l \in 1..(f - 1) : NameAt(t, l) # NameAt(t, f)
    <3> TAKE l \in 1..(f - 1)
    <3>1. l \in 1..k /\ ~(f <= l)
      BY <2>1, <2>3
    <3> QED
      BY <2>3, <2>4, <3>1
  <2> QED
    BY <1>7, <2>4, <2>5
<1> HIDE DEF K, places
<1>8. A \in Seq(Packages) /\ ToSet(A) = ToSet(s) \cup ToSet(K)
  BY <1>1, <1>3, ToSetConcat DEF A
<1>9. ToSet(K) \subseteq ToSet(t)
  BY <1>2, <1>3 DEF ToSet
<1>10. NamesIn(K) \subseteq NamesIn(t)
  BY <1>9 DEF NamesIn
<1>11. NamesIn(t) \subseteq NamesIn(s) \cup NamesIn(K)
  <2> SUFFICES ASSUME NEW k \in DOMAIN t, NameAt(t, k) \notin NamesIn(s)
               PROVE  NameAt(t, k) \in NamesIn(K)
    BY NamesInFacts
  <2>1. PICK f \in places : NameAt(t, f) = NameAt(t, k)
    BY <1>7
  <2> QED
    BY <1>3, <2>1 DEF NamesIn, NameAt
<1>12. NamesIn(A) = NamesIn(s) \cup NamesIn(K)
  BY <1>8 DEF NamesIn
<1>13. \A k \in places : NameAt(t, k) \notin NamesIn(s)
  BY DEF places
<1>14. /\ Len(s) \in Nat /\ Len(K) \in Nat /\ Len(A) = Len(s) + Len(K)
       /\ DOMAIN A = 1..Len(A) /\ DOMAIN K = 1..Len(K) /\ DOMAIN s = 1..Len(s)
       /\ \A m \in 1..Len(s) : A[m] = s[m]
       /\ \A m \in 1..Len(K) : A[Len(s) + m] = K[m]
  BY <1>1, <1>3
<1> HIDE DEF A
<1>15. \A m \in (Len(s) + 1)..Len(A) : m - Len(s) \in DOMAIN K /\ A[m] = K[m - Len(s)]
  <2> TAKE m \in (Len(s) + 1)..Len(A)
  <2>1. m - Len(s) \in 1..Len(K) /\ Len(s) + (m - Len(s)) = m
    BY <1>14
  <2> QED
    BY <1>14, <2>1
<1>16. ASSUME Distinct(s) PROVE Distinct(A)
  <2> SUFFICES ASSUME NEW k \in DOMAIN A, NEW l \in DOMAIN A, NameAt(A, k) = NameAt(A, l), k # l
               PROVE  FALSE
    BY DEF Distinct
  <2>1. ASSUME NEW x \in 1..Len(s) PROVE NameAt(A, x) = NameAt(s, x) /\ NameAt(A, x) \in NamesIn(s)
    BY <1>14, NamesInFacts DEF NameAt
  <2>2. ASSUME NEW x \in (Len(s) + 1)..Len(A) PROVE NameAt(A, x) \notin NamesIn(s)
    <3>1. PICK p \in places : A[x] = t[p]
      BY <1>4, <1>15
    <3> QED
      BY <1>13, <3>1 DEF NameAt
  <2>3. CASE k \in 1..Len(s) /\ l \in 1..Len(s)
    BY <1>14, <1>16, <2>1, <2>3 DEF Distinct
  <2>4. CASE k \in (Len(s) + 1)..Len(A) /\ l \in (Len(s) + 1)..Len(A)
    <3>1. /\ k - Len(s) \in DOMAIN K /\ l - Len(s) \in DOMAIN K
          /\ A[k] = K[k - Len(s)] /\ A[l] = K[l - Len(s)]
      BY <1>15, <2>4
    <3>2. k - Len(s) # l - Len(s)
      BY <1>14
    <3>3. PICK p, q \in places : p # q /\ K[k - Len(s)] = t[p] /\ K[l - Len(s)] = t[q]
      BY <1>5, <3>1, <3>2
    <3>4. NameAt(t, p) # NameAt(t, q)
      BY <1>6, <3>3
    <3> QED
      BY <3>1, <3>3, <3>4 DEF NameAt
  <2>5. \A x \in DOMAIN A : x \in 1..Len(s) \/ x \in (Len(s) + 1)..Len(A)
    BY <1>14
  <2> QED
    BY <2>1, <2>2, <2>3, <2>4, <2>5
<1>17. ASSUME NEW m \in (Len(s) + 1)..Len(A)
       PROVE  \E k \in DOMAIN t :
                /\ A[m] = t[k]
                /\ \A l \in 1..(k - 1) : \E h \in 1..(m - 1) : NameAt(A, h) = NameAt(t, l)
  <2>1. m - Len(s) \in DOMAIN K /\ A[m] = K[m - Len(s)]
    BY <1>15
  <2>2. PICK k \in places :
          /\ K[m - Len(s)] = t[k]
          /\ \A l \in places : l < k => \E h \in 1..((m - Len(s)) - 1) : K[h] = t[l]
    BY <1>4, <2>1
  <2>3. ASSUME NEW l \in 1..(k - 1) PROVE \E h \in 1..(m - 1) : NameAt(A, h) = NameAt(t, l)
    <3>0. k \in DOMAIN t /\ l \in DOMAIN t /\ l < k /\ m \in Nat
      BY <1>2, <1>14
    <3>1. CASE NameAt(t, l) \in NamesIn(s)
      <4>1. PICK h \in DOMAIN s : NameAt(s, h) = NameAt(t, l)
        BY <3>1, NamesInFacts
      <4>2. h \in 1..(m - 1) /\ A[h] = s[h]
        BY <1>14, <3>0
      <4> QED
        BY <4>1, <4>2 DEF NameAt
    <3>2. CASE NameAt(t, l) \notin NamesIn(s)
      <4>1. PICK f \in places : f <= l /\ NameAt(t, f) = NameAt(t, l)
        BY <1>7, <3>0, <3>2
      <4>2. f < k
        BY <1>2, <3>0, <4>1
      <4>3. PICK h \in 1..((m - Len(s)) - 1) : K[h] = t[f]
        BY <2>2, <4>1, <4>2
      <4>4. Len(s) + h \in 1..(m - 1) /\ h \in 1..Len(K)
        BY <1>14, <3>0
      <4>5. A[Len(s) + h] = t[f]
        BY <1>14, <4>3, <4>4
      <4> QED
        BY <4>1, <4>4, <4>5 DEF NameAt
    <3> QED
      BY <3>1, <3>2
  <2> QED
    BY <1>2, <2>1, <2>2, <2>3
<1>18. ToSet(s) \subseteq ToSet(A) /\ ToSet(A) \subseteq ToSet(s) \cup ToSet(t)
  BY <1>8, <1>9
<1>19. NamesIn(A) = NamesIn(s) \cup NamesIn(t)
  BY <1>10, <1>11, <1>12
<1>20. Len(A) >= Len(s) /\ \A m \in 1..Len(s) : A[m] = s[m]
  BY <1>14
<1> QED
  BY <1>8, <1>16, <1>17, <1>18, <1>19, <1>20 DEF A

\* What install-if triggers.
LEMMA TriggeredFacts ==
  ASSUME Problem, NEW n, NEW v
  PROVE  /\ Triggered(n, v) \in Seq(Packages)
         /\ \A i \in ToSet(Triggered(n, v)) : pkg[i].installIf # {}
<1> DEFINE With(op, w) == {i \in Packages : \E c \in pkg[i].installIf :
                                             c.name = n /\ c.op = op /\ c.ver = w}
           S == IF With("any", 0) # {} THEN With("any", 0) ELSE With("=", v)
           f == [i \in S |-> i]
<1>1. S \in SUBSET Packages /\ \A i \in S : pkg[i].installIf # {}
  OBVIOUS
<1>2. Triggered(n, v) = InOrder(S, f)
  BY DEF Triggered
<1> HIDE DEF S
<1>3. IsFiniteSet(S) /\ f \in [S -> Nat] /\ \A i, j \in S : f[i] = f[j] => i = j
  BY <1>1, PackageFacts, FS_Subset
<1> HIDE DEF f
<1>4. InOrder(S, f) \in Seq(S)
  BY <1>3, InOrderFacts
<1>5. Triggered(n, v) \in Seq(S) /\ ToSet(Triggered(n, v)) \subseteq S
  BY <1>2, <1>4 DEF ToSet
<1> QED
  BY <1>1, <1>5

\* A package whose install-if is met is added, and nothing else.
LEMMA AddIfMetFacts ==
  ASSUME NEW r \in Seq(Packages), NEW i \in Packages
  PROVE  /\ AddIfMet(r, i) \in Seq(Packages)
         /\ ToSet(r) \subseteq ToSet(AddIfMet(r, i))
         /\ ToSet(AddIfMet(r, i)) \subseteq ToSet(r) \cup {i}
<1> DEFINE t == <<i>>
<1>1. AddIfMet(r, i) = r \/ AddIfMet(r, i) = AddNew(r, t)
  BY DEF AddIfMet
<1>2. t \in Seq(Packages) /\ ToSet(t) = {i}
  BY DEF ToSet
<1> HIDE DEF t
<1>3. /\ AddNew(r, t) \in Seq(Packages) /\ ToSet(r) \subseteq ToSet(AddNew(r, t))
      /\ ToSet(AddNew(r, t)) \subseteq ToSet(r) \cup ToSet(t)
  BY <1>2, AddNewFacts
<1>4. CASE AddIfMet(r, i) = r
  BY <1>4
<1>5. CASE AddIfMet(r, i) = AddNew(r, t)
  BY <1>2, <1>3, <1>5
<1> QED
  BY <1>1, <1>4, <1>5

\* Install-if adds packages that are triggered.
LEMMA AddTriggeredFacts ==
  ASSUME NEW s \in Seq(Packages), NEW more \in Seq(Packages)
  PROVE  /\ AddTriggered(s, more) \in Seq(Packages)
         /\ ToSet(s) \subseteq ToSet(AddTriggered(s, more))
         /\ ToSet(AddTriggered(s, more)) \subseteq ToSet(s) \cup ToSet(more)
<1> DEFINE L == Len(more)
           Goes(f, k) == f[0] = s /\ \A i \in 1..k : f[i] = AddIfMet(f[i - 1], more[i])
           S == {k \in 0..L : \E f : Goes(f, k)}
<1>1. L \in Nat /\ DOMAIN more = 1..L
  OBVIOUS
<1> HIDE DEF L
<1>2. 0 \in S
  <2> DEFINE f == [i \in 0..0 |-> s]
  <2>1. Goes(f, 0)
    OBVIOUS
  <2> HIDE DEF f
  <2> QED
    BY <1>1, <2>1
<1>3. ASSUME NEW k \in 0..(L - 1), k \in S PROVE k + 1 \in S
  <2>1. PICK f : Goes(f, k)
    BY <1>3
  <2> DEFINE g == [i \in 0..(k + 1) |-> IF i = k + 1 THEN AddIfMet(f[k], more[k + 1]) ELSE f[i]]
  <2>2. k \in Nat /\ k + 1 \in 0..L
    BY <1>1
  <2>3. g[0] = s
    BY <2>1, <2>2
  <2>4. ASSUME NEW i \in 1..(k + 1) PROVE g[i] = AddIfMet(g[i - 1], more[i])
    <3>1. i \in 0..(k + 1) /\ i - 1 \in 0..(k + 1) /\ i - 1 # k + 1
      BY <2>2
    <3>2. g[i - 1] = f[i - 1]
      BY <3>1
    <3>3. CASE i = k + 1
      <4>1. i - 1 = k /\ g[i] = AddIfMet(f[k], more[i])
        BY <2>2, <3>1, <3>3
      <4> QED
        BY <3>2, <4>1
    <3>4. CASE i # k + 1
      <4>1. i \in 1..k /\ g[i] = f[i]
        BY <2>2, <3>1, <3>4
      <4> QED
        BY <2>1, <3>2, <4>1
    <3> QED
      BY <3>3, <3>4
  <2>5. Goes(g, k + 1)
    BY <2>3, <2>4
  <2> HIDE DEF g
  <2> QED
    BY <2>2, <2>5
<1>4. L \in S
  <2> HIDE DEF S
  <2> QED
    BY <1>1, <1>2, <1>3, UpTo
<1>5. PICK f : Goes(f, L)
  BY <1>4
<1> DEFINE h == [i \in 0..L |-> f[i]]
<1>6. h = [i \in 0..L |-> IF i = 0 THEN s ELSE AddIfMet(h[i - 1], more[i])]
  <2> SUFFICES ASSUME NEW i \in 0..L
               PROVE  f[i] = IF i = 0 THEN s ELSE AddIfMet(h[i - 1], more[i])
    OBVIOUS
  <2>1. CASE i = 0
    BY <1>5, <2>1
  <2>2. CASE i # 0
    <3>1. i \in 1..L /\ i - 1 \in 0..L
      BY <1>1, <2>2
    <3>2. h[i - 1] = f[i - 1]
      BY <3>1
    <3>3. f[i] = AddIfMet(f[i - 1], more[i])
      BY <1>5, <3>1
    <3> QED
      BY <2>2, <3>2, <3>3
  <2> QED
    BY <2>1, <2>2
<1> DEFINE F == CHOOSE g : g = [i \in 0..L |-> IF i = 0 THEN s ELSE AddIfMet(g[i - 1], more[i])]
<1>7. F = [i \in 0..L |-> IF i = 0 THEN s ELSE AddIfMet(F[i - 1], more[i])]
  <2> HIDE DEF h
  <2> QED
    BY <1>6
<1>8. AddTriggered(s, more) = F[L]
  BY DEF AddTriggered, L
<1> HIDE DEF F
<1> DEFINE Good(r) == /\ r \in Seq(Packages) /\ ToSet(s) \subseteq ToSet(r)
                      /\ ToSet(r) \subseteq ToSet(s) \cup ToSet(more)
           In == {k \in 0..L : Good(F[k])}
<1>9. 0 \in In
  <2>1. 0 \in 0..L /\ F[0] = s
    BY <1>1, <1>7
  <2> QED
    BY <2>1
<1>10. ASSUME NEW k \in 0..(L - 1), k \in In PROVE k + 1 \in In
  <2>1. k + 1 \in 0..L /\ k + 1 # 0 /\ (k + 1) - 1 = k /\ k + 1 \in 1..L
    BY <1>1
  <2>2. F[k + 1] = AddIfMet(F[k], more[k + 1])
    BY <1>7, <2>1
  <2>3. more[k + 1] \in Packages /\ more[k + 1] \in ToSet(more)
    BY <1>1, <2>1 DEF ToSet
  <2>4. Good(F[k])
    BY <1>10
  <2>5. /\ AddIfMet(F[k], more[k + 1]) \in Seq(Packages)
        /\ ToSet(F[k]) \subseteq ToSet(AddIfMet(F[k], more[k + 1]))
        /\ ToSet(AddIfMet(F[k], more[k + 1])) \subseteq ToSet(F[k]) \cup {more[k + 1]}
    <3>1. F[k] \in Seq(Packages)
      BY <2>4
    <3> QED
      BY <2>3, <3>1, AddIfMetFacts
  <2>6. Good(F[k + 1])
    BY <2>2, <2>3, <2>4, <2>5
  <2> QED
    BY <2>1, <2>6
<1>11. L \in In
  <2> HIDE DEF In
  <2> QED
    BY <1>1, <1>9, <1>10, UpTo
<1> QED
  BY <1>8, <1>11

\* The calls of getPackageDependencies.
Calls == [pkg : Packages, parents : SUBSET Names, deps : Seq(Packages), todo : SUBSET Constraint]

\* The types of the variables, in a form the provers can use.
Types ==
  /\ Problem
  /\ pc \in PCs
  /\ todo \in Seq(ToSet(world))
  /\ dq \subseteq Packages
  /\ selected \in [Names -> Packages \cup {None}]
  /\ chosen \in [Names -> Packages \cup {None}]
  /\ existing \in [Names -> Packages \cup {None}]
  /\ root \in 0..Len(world)
  /\ stack \in Seq(Calls)
  /\ origins \in [Origins -> Nat]
  /\ found \in Seq(Packages) /\ toInstall \in Seq(Packages)
  /\ pending \subseteq Names /\ conflicts \subseteq Names

\* When there are calls.
Stages ==
  /\ pc = "deps" => stack # <<>> /\ root >= 1
  /\ pc = "installif" => Len(stack) = 1 /\ root >= 1
  /\ pc \in {"world", "roots", "ok"} => stack = <<>>
  /\ pc = "ok" => root = Len(world)
  /\ pc = "world" => root = 0

NameOf(k) == pkg[stack[k].pkg].name

\* A call knows the names of the packages it is called for; only the innermost
\* may be for one of them, and then has nothing to do.
Path ==
  \A k \in DOMAIN stack :
    /\ stack[k].todo \subseteq pkg[stack[k].pkg].deps
    /\ stack[k].parents = {NameOf(l) : l \in 1..(k - 1)}
    /\ NameOf(k) \in stack[k].parents => stack[k].todo = {}
    /\ k < Len(stack) => NameOf(k) \notin stack[k].parents

WalkInv == Types /\ Stages /\ Path

\* The packages that are out from the start: the ones another architecture
\* lacks, and the ones an entry of the world speaks against.
BarredBy(c) ==
  {i \in Carriers(c.name) :
     IF pkg[i].name = c.name THEN ~Fits(pkg[i].ver, c)
     ELSE \E pr \in pkg[i].provides : pr.name = c.name /\ pr.ver # 0 /\ ~Fits(pr.ver, c)}
Barred == Lacking \cup UNION {BarredBy(c) : c \in ToSet(world)}

\* They stay out, but for install-if.
Clear ==
  /\ Barred \subseteq dq
  /\ \A k \in DOMAIN stack : stack[k].pkg \notin Barred /\ ToSet(stack[k].deps) \cap Barred = {}
  /\ \A i \in ToSet(found) \cup ToSet(toInstall) : pkg[i].installIf = {} => i \notin Barred

\* The entries of the world up to root have been given something.
InRoot == pc \in {"deps", "installif"}
Asked ==
  /\ InRoot => Fulfils(stack[1].pkg, world[root])
  /\ Interchangeable /\ ByOwnName(ToSet(world)) /\ pc # "error" =>
       \A k \in 1..root : (k = root /\ InRoot) \/ \E i \in Installed : Fulfils(i, world[k])

\* The names in the answer and in the lists of the first n calls, and with them
\* the names of the calls' own packages.
Done(n) == NamesIn(toInstall) \cup UNION {NamesIn(stack[l].deps) : l \in 1..n}
Got == Done(Len(stack)) \cup {NameOf(k) : k \in DOMAIN stack}

\* A package with one of these names meets c.
MetIn(c, N) == \E j \in Packages : pkg[j].name \in N /\ Fulfils(j, c)

\* Every call is for a package its caller depends on.
Linked == \A k \in 1..(Len(stack) - 1) : DependsOn(stack[k].pkg, stack[k + 1].pkg)

\* Without install-if a root adds its dependencies and nothing else.
FoundAll == NoInstallIf /\ pc = "installif" => found = AddNew(<<>>, stack[1].deps) /\ pending = {}

\* A selected package has the name it is selected for, and is there.
SelectedKnown ==
  \A n \in Names : selected[n] # None =>
    /\ n \in {pkg[selected[n]].name} \cup ProvidedNames(selected[n])
    /\ \/ pkg[selected[n]].name \in Done(Len(stack))
       \/ \E k \in DOMAIN stack : stack[k].pkg = selected[n]

\* What the packages that are there want is there, or a call has still to look
\* at it.
Complete ==
  \A i \in Packages : pkg[i].name \in Got => \A c \in Wanted(i) :
    \/ MetIn(c, Got)
    \/ pc # "installif" /\ \E k \in DOMAIN stack : c \in stack[k].todo /\ Same(stack[k].pkg, i)

\* In s each package, unless it is in a circle, comes after what it wants, or
\* that has one of the names N.
InTurn(s, N) ==
  \A m \in DOMAIN s : Circular(s[m]) \/ \A c \in Wanted(s[m]) :
    MetIn(c, N \cup {NameAt(s, l) : l \in 1..(m - 1)})

\* The answer is in turn, and the list of each call after the lists of the calls
\* around it; and what the package of a call wants is in those lists, or to be
\* looked at, or is what the next call is for.
Ordering ==
  /\ Distinct(toInstall)
  /\ InTurn(toInstall, {})
  /\ \A k \in DOMAIN stack : InTurn(stack[k].deps, Done(k - 1))
  /\ \A k \in DOMAIN stack :
       Circular(stack[k].pkg) \/ \A c \in Wanted(stack[k].pkg) :
         \/ pc # "installif" /\ c \in stack[k].todo
         \/ MetIn(c, Done(k))
         \/ k < Len(stack) /\ Fulfils(stack[k + 1].pkg, c)

ForcedInv == NothingToTakeBack => SelectedKnown /\ Complete /\ Ordering

-----------------------------------------------------------------------------
(***************************************************************************)
(* What the steps do to the stack.                                         *)
(***************************************************************************)

\* Names and packages stay what they are.
LEMMA SameProblem ==
  ASSUME Problem, UNCHANGED <<pkg, world, mapOrder>>
  PROVE  Problem' /\ Packages' = Packages
BY DEF Problem, Packages

\* The parts of a call.
LEMMA CallFields ==
  ASSUME NEW f \in Calls
  PROVE  /\ f.pkg \in Packages /\ f.parents \subseteq Names /\ f.deps \in Seq(Packages)
         /\ f.todo \subseteq Constraint
BY DEF Calls

\* A new call.
LEMMA FrameFacts ==
  ASSUME Problem, NEW i \in Packages, NEW parents \in SUBSET Names
  PROVE  /\ Frame(i, parents) \in Calls
         /\ Frame(i, parents).pkg = i /\ Frame(i, parents).parents = parents
         /\ Frame(i, parents).deps = <<>>
         /\ Frame(i, parents).todo = IF pkg[i].name \in parents THEN {} ELSE pkg[i].deps
<1>1. (IF pkg[i].name \in parents THEN {} ELSE pkg[i].deps) \in SUBSET Constraint
  BY PackageFacts
<1>2. <<>> \in Seq(Packages)
  OBVIOUS
<1> QED
  BY <1>1, <1>2 DEF Frame, Calls

\* What the types say of the calls.
LEMMA StackFacts ==
  ASSUME Types
  PROVE  /\ Len(stack) \in Nat /\ DOMAIN stack = 1..Len(stack)
         /\ \A k \in DOMAIN stack : /\ stack[k] \in Calls
                                    /\ stack[k].pkg \in Packages
                                    /\ stack[k].parents \subseteq Names
                                    /\ stack[k].deps \in Seq(Packages)
                                    /\ stack[k].todo \subseteq Constraint
                                    /\ NameOf(k) \in Names
<1>1. /\ Len(stack) \in Nat /\ DOMAIN stack = 1..Len(stack)
      /\ \A k \in DOMAIN stack : stack[k] \in Calls
  BY DEF Types
<1>2. Problem
  BY DEF Types
<1> QED
  BY <1>1, <1>2, CallFields, PackageFacts DEF NameOf

\* The innermost call, its open constraints, and why the others are not open.
LEMMA OpenFacts ==
  ASSUME Types, Stages, pc = "deps"
  PROVE  /\ Len(stack) \in DOMAIN stack /\ Len(stack) \in Nat \ {0}
         /\ Top = stack[Len(stack)]
         /\ Open \subseteq Top.todo /\ Open \subseteq Constraint
         /\ \A c \in Top.todo \ Open : c.neg \/ OwnDependency(Top.pkg, c) \/ SelectedFor(c)
         /\ \A c \in Open : ~c.neg /\ ~OwnDependency(Top.pkg, c)
<1>1. Len(stack) \in DOMAIN stack /\ Len(stack) \in Nat \ {0}
  BY DEF Types, Stages
<1>2. Top.todo \subseteq Constraint
  BY <1>1, StackFacts DEF Top
<1>3. Open \subseteq Top.todo
  BY DEF Open
<1>4. \A c \in Top.todo \ Open : c.neg \/ OwnDependency(Top.pkg, c) \/ SelectedFor(c)
  BY DEF Open
<1>5. \A c \in Open : ~c.neg /\ ~OwnDependency(Top.pkg, c)
  BY DEF Open
<1> QED
  BY <1>1, <1>2, <1>3, <1>4, <1>5 DEF Top

\* What Descend does to the calls: the constraint is taken from the innermost
\* one, and a call for a package that fulfils it is added.
LEMMA DescendShape ==
  ASSUME Types, Stages, Descend
  PROVE  LET n == Len(stack)
             f == Callee(Lowest)
         IN /\ n \in Nat \ {0} /\ n \in DOMAIN stack /\ Top = stack[n]
            /\ Lowest \in Open /\ Fulfils(f.pkg, Lowest)
            /\ f \in Calls /\ f.pkg \notin dq
            /\ f.parents = Top.parents \cup {pkg[Top.pkg].name} /\ f.deps = <<>>
            /\ f.todo = IF pkg[f.pkg].name \in f.parents THEN {} ELSE pkg[f.pkg].deps
            /\ stack' \in Seq(Calls) /\ Len(stack') = n + 1
            /\ \A k \in 1..n : /\ stack'[k].pkg = stack[k].pkg
                                /\ stack'[k].parents = stack[k].parents
                                /\ stack'[k].deps = stack[k].deps
            /\ \A k \in 1..(n - 1) : stack'[k].todo = stack[k].todo
            /\ stack'[n].todo = Open \ {Lowest}
            /\ stack'[n + 1] = f
<1> DEFINE n == Len(stack)
           f == Callee(Lowest)
           r == Rest(Lowest)
           u == [stack EXCEPT ![n].todo = r]
<1>1. Problem /\ pc = "deps" /\ Open # {} /\ Solvable
  BY DEF Types, Descend
<1>2. n \in DOMAIN stack /\ n \in Nat \ {0} /\ Top = stack[n] /\ Open \subseteq Constraint
  BY <1>1, OpenFacts
<1>3. Lowest \in Open
  BY <1>1, <1>2, LowestFacts
<1>4. Options(Lowest) # <<>>
  BY <1>1, <1>3 DEF Solvable
<1>5. /\ f.pkg \in Packages /\ f.pkg \notin dq /\ Fulfils(f.pkg, Lowest)
      /\ f.parents = Top.parents \cup {pkg[Top.pkg].name} /\ f.deps = <<>>
      /\ f.todo = IF pkg[f.pkg].name \in f.parents THEN {} ELSE pkg[f.pkg].deps
  BY <1>1, <1>4, CalleeFacts
<1>6. f = Frame(f.pkg, f.parents)
  <2>1. f.pkg = BestPackage(Options(Lowest), Lowest.name, existing, origins, "")
    BY DEF Callee, Frame
  <2> QED
    BY <1>5, <2>1 DEF Callee
<1>7. f.parents \subseteq Names
  BY <1>1, <1>2, <1>5, StackFacts, PackageFacts
<1>8. f \in Calls
  <2> HIDE DEF f
  <2>1. Frame(f.pkg, f.parents) \in Calls
    BY <1>1, <1>5, <1>7, FrameFacts
  <2> QED
    BY <1>6, <2>1
<1>9. stack' = Append(u, f)
  BY DEF Descend
<1>10. r = Open \ {Lowest} /\ r \in SUBSET Constraint
  BY <1>2 DEF Rest
<1> HIDE DEF f, r
<1>11. stack \in Seq(Calls)
  BY DEF Types
<1> HIDE DEF n
<1>12. stack[n] \in Calls
  BY <1>2, StackFacts
<1>13. [stack[n] EXCEPT !.todo = r] \in Calls
  BY <1>10, <1>12 DEF Calls
<1>14. /\ u \in Seq(Calls) /\ Len(u) = n
       /\ \A k \in 1..n : k # n => u[k] = stack[k]
       /\ u[n] = [stack[n] EXCEPT !.todo = r]
  BY <1>2, <1>11, <1>13 DEF n
<1> HIDE DEF u
<1>15. /\ stack' \in Seq(Calls) /\ Len(stack') = n + 1
       /\ \A k \in 1..n : stack'[k] = u[k]
       /\ stack'[n + 1] = f
  BY <1>8, <1>9, <1>14
<1>16. /\ u[n].pkg = stack[n].pkg /\ u[n].parents = stack[n].parents
       /\ u[n].deps = stack[n].deps /\ u[n].todo = r
  BY <1>12, <1>14 DEF Calls
<1>17. ASSUME NEW k \in 1..n
       PROVE  /\ stack'[k].pkg = stack[k].pkg
              /\ stack'[k].parents = stack[k].parents
              /\ stack'[k].deps = stack[k].deps
  BY <1>14, <1>15, <1>16
<1>18. \A k \in 1..(n - 1) : stack'[k].todo = stack[k].todo
  <2> TAKE k \in 1..(n - 1)
  <2>1. k \in 1..n /\ k # n
    BY <1>2
  <2> QED
    BY <1>14, <1>15, <2>1
<1>19. stack'[n].todo = Open \ {Lowest}
  BY <1>2, <1>10, <1>15, <1>16
<1> QED
  BY <1>2, <1>3, <1>5, <1>8, <1>15, <1>17, <1>18, <1>19 DEF n, f

\* What Return does to them: the innermost call is gone and its caller has its
\* dependencies.
LEMMA ReturnShape ==
  ASSUME Types, Stages, Return
  PROVE  LET n == Len(stack)
         IN /\ n \in Nat /\ n >= 2 /\ n \in DOMAIN stack /\ n - 1 \in DOMAIN stack
            /\ Top = stack[n]
            /\ stack' \in Seq(Calls) /\ Len(stack') = n - 1
            /\ \A k \in 1..(n - 1) : /\ stack'[k].pkg = stack[k].pkg
                                      /\ stack'[k].parents = stack[k].parents
                                      /\ stack'[k].todo = stack[k].todo
            /\ \A k \in 1..(n - 2) : stack'[k].deps = stack[k].deps
            /\ stack'[n - 1].deps = stack[n - 1].deps \o (stack[n].deps \o <<stack[n].pkg>>)
<1> DEFINE n == Len(stack)
           u == SubSeq(stack, 1, n - 1)
           d == stack[n - 1].deps \o (stack[n].deps \o <<stack[n].pkg>>)
<1>0. n > 1
  BY DEF Return
<1>1. n \in Nat /\ n >= 2 /\ stack \in Seq(Calls) /\ DOMAIN stack = 1..n
  BY <1>0 DEF Types
<1>2. n \in DOMAIN stack /\ n - 1 \in DOMAIN stack /\ Top = stack[n]
  BY <1>1 DEF Top
<1>3. stack' = [u EXCEPT ![n - 1].deps = @ \o BelowFirst]
  BY DEF Return
<1>4. u \in Seq(Calls) /\ Len(u) = n - 1 /\ \A k \in 1..(n - 1) : u[k] = stack[k]
  BY <1>1
<1>5. BelowFirst = stack[n].deps \o <<stack[n].pkg>>
  BY <1>2 DEF BelowFirst
<1>6. stack[n] \in Calls /\ stack[n - 1] \in Calls
  BY <1>2, StackFacts
<1>7. stack[n].deps \in Seq(Packages) /\ stack[n].pkg \in Packages /\ stack[n - 1].deps \in Seq(Packages)
  BY <1>6, CallFields
<1>8. d \in Seq(Packages)
  BY <1>7
<1> HIDE DEF u, n
<1>9. n - 1 \in DOMAIN u /\ u[n - 1] = stack[n - 1]
  BY <1>1, <1>4
<1>10. stack' = [u EXCEPT ![n - 1] = [stack[n - 1] EXCEPT !.deps = d]]
  BY <1>3, <1>5, <1>9
<1> HIDE DEF d
<1>11. [stack[n - 1] EXCEPT !.deps = d] \in Calls
  BY <1>6, <1>8 DEF Calls
<1>12. /\ stack' \in Seq(Calls) /\ Len(stack') = n - 1
       /\ stack'[n - 1] = [stack[n - 1] EXCEPT !.deps = d]
       /\ \A k \in 1..(n - 1) : k # n - 1 => stack'[k] = stack[k]
  BY <1>1, <1>4, <1>9, <1>10, <1>11
<1>13. /\ stack'[n - 1].pkg = stack[n - 1].pkg /\ stack'[n - 1].parents = stack[n - 1].parents
       /\ stack'[n - 1].todo = stack[n - 1].todo /\ stack'[n - 1].deps = d
  BY <1>6, <1>12 DEF Calls
<1>14. \A k \in 1..(n - 2) : k \in 1..(n - 1) /\ k # n - 1
  BY <1>1
<1>15. \A k \in 1..(n - 1) : /\ stack'[k].pkg = stack[k].pkg
                              /\ stack'[k].parents = stack[k].parents
                              /\ stack'[k].todo = stack[k].todo
  BY <1>12, <1>13
<1>16. \A k \in 1..(n - 2) : stack'[k].deps = stack[k].deps
  BY <1>12, <1>14
<1> QED
  BY <1>1, <1>2, <1>12, <1>13, <1>15, <1>16 DEF n, d

\* A bounded set of numbers has a greatest one.
LEMMA GreatestExists ==
  ASSUME NEW n \in Nat, NEW S \in SUBSET (1..n), S # {}
  PROVE  Max(S) \in S
<1> DEFINE D == {n - x : x \in S}
<1>1. D \in SUBSET Nat /\ D # {}
  <2>1. \A x \in S : n - x \in Nat
    OBVIOUS
  <2> QED
    BY <2>1
<1>2. PICK d \in D : \A e \in D : d <= e
  <2> HIDE DEF D
  <2> QED
    BY <1>1, LeastExists
<1>3. PICK x \in S : d = n - x
  OBVIOUS
<1>4. \A y \in S : x >= y
  <2> TAKE y \in S
  <2>1. n - y \in D
    OBVIOUS
  <2>2. d <= n - y
    BY <1>2, <2>1
  <2> QED
    BY <1>3, <2>2
<1> QED
  BY <1>3, <1>4 DEF Max

\* nextPackage finds a constraint.
LEMMA NextFacts ==
  ASSUME Types, todo # <<>>
  PROVE  NextPackage \in DOMAIN todo
<1> DEFINE Count(k) == Len(ResolvePackages(todo[k]))
           A == {Count(k) : k \in DOMAIN todo}
<1>1. \A k \in DOMAIN todo : Count(k) \in Nat
  <2> TAKE k \in DOMAIN todo
  <2>1. ResolvePackages(todo[k]) \in Seq(Packages)
    BY FilterFacts DEF ResolvePackages, Types
  <2> QED
    BY <2>1
<1>2. Len(todo) \in Nat /\ DOMAIN todo = 1..Len(todo) /\ DOMAIN todo # {}
  <2>1. todo \in Seq(ToSet(world))
    BY DEF Types
  <2> QED
    BY <2>1
<1> HIDE DEF Count
<1>3. PICK a \in DOMAIN todo : \A l \in DOMAIN todo : Count(a) <= Count(l)
  <2>1. A \in SUBSET Nat /\ A # {}
    BY <1>1, <1>2
  <2> HIDE DEF A
  <2>2. \E x \in A : \A y \in A : x <= y
    BY <2>1, LeastExists
  <2> QED
    BY <2>2 DEF A
<1> DEFINE P == {k \in DOMAIN todo : Count(k) = Count(a)}
<1>4. PICK k \in P : \A l \in P : k <= l
  <2>1. P \in SUBSET Nat /\ P # {}
    BY <1>2
  <2> HIDE DEF P
  <2> QED
    BY <2>1, LeastExists
<1>5. ASSUME NEW l \in 1..(k - 1) PROVE Count(k) < Count(l)
  <2>1. l \in DOMAIN todo /\ ~(k <= l) /\ k \in DOMAIN todo /\ Count(k) = Count(a)
    BY <1>2, <1>4
  <2>2. Count(l) # Count(a)
    BY <1>4, <2>1
  <2> QED
    BY <1>1, <1>3, <2>1, <2>2
<1>6. k \in DOMAIN todo /\ \A l \in DOMAIN todo : Count(k) <= Count(l)
  BY <1>3, <1>4
<1> QED
  BY <1>5, <1>6 DEF NextPackage, Count

-----------------------------------------------------------------------------
(***************************************************************************)
(* The walk is bounded: the invariant.                                     *)
(***************************************************************************)

\* The state in which a resolution starts.
Fresh ==
  /\ todo = world /\ Barred \subseteq dq /\ dq \subseteq Packages
  /\ selected = Nobody /\ chosen = Nobody /\ existing = Nobody
  /\ root = 0 /\ stack = <<>> /\ found = <<>> /\ toInstall = <<>>
  /\ origins = NoOrigins /\ pending = {} /\ conflicts = {}
  /\ pc \in {"world", "error"}

\* The invariant of the walk holds at the start of a resolution.
LEMMA FreshWalk ==
  Problem /\ Fresh => WalkInv
<1> SUFFICES ASSUME Problem, Fresh PROVE WalkInv
  OBVIOUS
<1>1. Nobody \in [Names -> Packages \cup {None}] /\ NoOrigins \in [Origins -> Nat]
  BY DEF Nobody, NoOrigins
<1>2. Len(world) \in Nat /\ world \in Seq(ToSet(world))
  <2>1. Len(world) \in Nat /\ DOMAIN world = 1..Len(world)
    BY WorldFacts
  <2>2. \A k \in 1..Len(world) : world[k] \in ToSet(world)
    BY <2>1 DEF ToSet
  <2>3. world = [k \in 1..Len(world) |-> world[k]]
    <3> DEFINE C == {c \in Constraint : Versioned(c) /\ ~c.neg}
    <3>1. world \in Seq(C)
      BY ResolverAssumption DEF Problem
    <3> HIDE DEF C
    <3> QED
      BY <3>1
  <2> QED
    BY <2>1, <2>2, <2>3
<1>4. Types
  BY <1>1, <1>2 DEF Types, Fresh, PCs
<1>5. Stages
  BY DEF Stages, Fresh
<1>6. Path
  BY DEF Path, Fresh
<1> QED
  BY <1>4, <1>5, <1>6 DEF WalkInv

\* The same of a resolution that starts in this step.
LEMMA FreshWalkNext ==
  (Problem /\ Fresh => WalkInv)'
BY FreshWalk, PTL

\* What is disqualified at first.
LEMMA BarredFirst ==
  ASSUME Problem
  PROVE  /\ Barred \subseteq Lacking \cup Constrain(ToSet(world))
         /\ Lacking \cup Constrain(ToSet(world)) \subseteq Packages
<1>1. \A c \in ToSet(world) : ~c.neg
  BY WorldFacts DEF ToSet
<1>2. \A c : BarredBy(c) = Mismatched(c)
  BY DisqualifiedFacts DEF BarredBy, Mismatched
<1>3. \A c \in ToSet(world) : BarredBy(c) \subseteq Constrain(ToSet(world))
  BY <1>1, <1>2 DEF Constrain
<1> QED
  BY <1>3, DisqualifiedFacts DEF Barred

\* The first resolution starts so.
LEMMA InitFresh ==
  ASSUME Init
  PROVE  Problem /\ Fresh
<1>1. Problem
  BY DEF Init, Problem
<1>2. pc \in {"world", "error"}
  BY DEF Init, Start
<1> QED
  BY <1>1, <1>2, BarredFirst DEF Init, Fresh

\* The same of a second run; what is disqualified does not depend on the order
\* in which maps are walked.
LEMMA AgainFresh ==
  ASSUME Problem, Again
  PROVE  Problem' /\ Fresh' /\ pkg' = pkg /\ world' = world
<1>1. pkg' = pkg /\ world' = world /\ archs' = archs /\ mapOrder' \in MapOrders
  BY DEF Again, problem
<1>2. Problem' /\ Packages' = Packages
  BY <1>1 DEF Problem, Packages
<1>3. Barred' = Barred
  BY <1>1 DEF Barred, BarredBy, Carriers, Lacking, Packages, ProvidedNames, Fits
<1>4. pc' \in {"world", "error"}
  BY DEF Again, Start
<1>5. dq' = Lacking \cup Constrain(ToSet(world))
  BY DEF Again
<1> QED
  BY <1>1, <1>2, <1>3, <1>4, <1>5, BarredFirst DEF Again, Fresh

\* The types after a step within one resolution.
LEMMA TypesNext ==
  ASSUME Types, UNCHANGED choice,
         pc' \in PCs, todo' \in Seq(ToSet(world)), dq' \subseteq Packages,
         selected' \in [Names -> Packages \cup {None}],
         chosen' \in [Names -> Packages \cup {None}],
         existing' \in [Names -> Packages \cup {None}],
         root' \in 0..Len(world), stack' \in Seq(Calls), origins' \in [Origins -> Nat],
         found' \in Seq(Packages), toInstall' \in Seq(Packages),
         pending' \subseteq Names, conflicts' \subseteq Names
  PROVE  Types'
<1>1. pkg' = pkg /\ world' = world /\ mapOrder' = mapOrder
  BY DEF choice, problem
<1>2. Packages' = Packages /\ ToSet(world)' = ToSet(world)
  BY <1>1 DEF Packages
<1>3. Calls' = Calls
  BY <1>2 DEF Calls
<1>4. Problem'
  BY <1>1 DEF Types, Problem
<1> QED
  BY <1>1, <1>2, <1>3, <1>4 DEF Types

\* A call starts with an empty stack or keeps it.
LEMMA PathNext ==
  ASSUME Types, Path, UNCHANGED <<pkg, stack>>
  PROVE  Path'
BY DEF Path, NameOf

\* The invariant of the walk, action by action.
LEMMA ChooseWorldWalk ==
  ASSUME WalkInv, ChooseWorld
  PROVE  WalkInv'
<1>1. Types /\ Stages /\ Path /\ Problem /\ pc = "world"
  BY DEF WalkInv, Types, ChooseWorld
<1> DEFINE c == todo[NextPackage]
           i == ResolvePackage(c)
           D == {k \in DOMAIN todo : todo[k] # c}
<1>2. NextPackage \in DOMAIN todo
  BY <1>1, NextFacts DEF ChooseWorld
<1>3. i \in Packages
  BY <1>1, <1>2, ResolveFacts DEF ChooseWorld
<1>4. chosen' \in [Names -> Packages \cup {None}]
  <2>1. chosen' = [chosen EXCEPT ![pkg[i].name] = i]
    BY DEF ChooseWorld
  <2> HIDE DEF i
  <2> QED
    BY <1>1, <1>3, <2>1 DEF Types
<1>5. todo' \in Seq(ToSet(world))
  <2>1. todo \in Seq(ToSet(world)) /\ D \in SUBSET DOMAIN todo
    BY <1>1 DEF Types
  <2>2. todo' = Keep(todo, D)
    BY DEF ChooseWorld
  <2> HIDE DEF D
  <2> QED
    BY <2>1, <2>2, KeepFacts
<1>6. dq' \subseteq Packages
  <2>1. dq' = dq \cup Conflicting(i)
    BY DEF ChooseWorld
  <2> QED
    BY <1>1, <2>1, DisqualifiedFacts DEF Types
<1>7. Types'
  <2>1. UNCHANGED <<choice, pc, selected, root, stack, existing, origins, found, pending,
                    toInstall, conflicts>>
    BY DEF ChooseWorld
  <2> QED
    BY <1>1, <1>4, <1>5, <1>6, <2>1, TypesNext DEF Types
<1>8. Stages'
  BY <1>1 DEF Stages, ChooseWorld
<1>9. Path'
  BY <1>1, PathNext DEF ChooseWorld, choice, problem
<1> QED
  BY <1>7, <1>8, <1>9 DEF WalkInv

\* WorldChosen keeps the invariant of the walk.
LEMMA WorldChosenWalk ==
  ASSUME WalkInv, WorldChosen
  PROVE  WalkInv'
<1>1. Types /\ Stages /\ Path /\ pc = "world"
  BY DEF WalkInv, WorldChosen
<1>2. Types'
  <2>1. UNCHANGED <<choice, todo, dq, selected, chosen, root, stack, existing, origins, found,
                    pending, toInstall, conflicts>> /\ pc' \in PCs
    BY DEF WorldChosen, PCs
  <2> QED
    BY <1>1, <2>1, TypesNext DEF Types
<1>3. Stages'
  BY <1>1 DEF Stages, WorldChosen, choice, problem
<1>4. Path'
  BY <1>1, PathNext DEF WorldChosen, choice, problem
<1> QED
  BY <1>2, <1>3, <1>4 DEF WalkInv

\* What StartRoot does to the calls.
LEMMA StartRootShape ==
  ASSUME Types, StartRoot
  PROVE  LET i == ResolvePackage(world[root + 1])
         IN /\ i \in Packages /\ i \notin dq /\ Fulfils(i, world[root + 1])
            /\ root + 1 \in DOMAIN world /\ root' = root + 1
            /\ stack' = <<Frame(i, {})>> /\ stack' \in Seq(Calls)
            /\ Len(stack') = 1 /\ stack'[1] = Frame(i, {})
            /\ stack'[1].pkg = i /\ stack'[1].parents = {} /\ stack'[1].deps = <<>>
            /\ stack'[1].todo = pkg[i].deps
<1> DEFINE i == ResolvePackage(world[root + 1])
<1>1. Problem
  BY DEF Types
<1>2. i \in Packages /\ i \notin dq /\ Fulfils(i, world[root + 1])
  BY <1>1, ResolveFacts DEF StartRoot
<1>3. root + 1 \in DOMAIN world /\ root' = root + 1
  <2>1. root \in 0..Len(world) /\ root < Len(world) /\ root' = root + 1
    BY DEF Types, StartRoot
  <2>2. Len(world) \in Nat /\ DOMAIN world = 1..Len(world)
    BY <1>1, WorldFacts
  <2> QED
    BY <2>1, <2>2
<1>4. stack' = <<Frame(i, {})>>
  BY DEF StartRoot
<1> HIDE DEF i
<1>5. /\ Frame(i, {}) \in Calls
      /\ Frame(i, {}).pkg = i /\ Frame(i, {}).parents = {} /\ Frame(i, {}).deps = <<>>
      /\ Frame(i, {}).todo = pkg[i].deps
  BY <1>1, <1>2, FrameFacts
<1>6. stack' \in Seq(Calls) /\ Len(stack') = 1 /\ stack'[1] = Frame(i, {})
  BY <1>4, <1>5
<1>7. /\ stack'[1].pkg = i /\ stack'[1].parents = {} /\ stack'[1].deps = <<>>
      /\ stack'[1].todo = pkg[i].deps
  BY <1>5, <1>6
<1> QED
  BY <1>2, <1>3, <1>4, <1>6, <1>7 DEF i

\* StartRoot keeps the invariant of the walk.
LEMMA StartRootWalk ==
  ASSUME WalkInv, StartRoot
  PROVE  WalkInv'
<1> DEFINE i == ResolvePackage(world[root + 1])
<1>1. Types /\ Stages /\ Path /\ Problem /\ pc' = "deps" /\ UNCHANGED choice
  BY DEF WalkInv, Types, StartRoot
<1>2. /\ i \in Packages /\ root + 1 \in DOMAIN world /\ root' = root + 1
      /\ stack' \in Seq(Calls) /\ Len(stack') = 1
      /\ stack'[1].pkg = i /\ stack'[1].parents = {} /\ stack'[1].todo = pkg[i].deps
  BY <1>1, StartRootShape
<1>3. root' \in 0..Len(world)
  BY <1>1, <1>2, WorldFacts
<1>4. dq' \subseteq Packages
  <2>1. dq' = dq \cup Constrain(pkg[i].deps)
    BY DEF StartRoot
  <2> QED
    BY <1>1, <2>1, DisqualifiedFacts DEF Types
<1>5. conflicts' \subseteq Names
  <2>1. conflicts' = conflicts \cup {c.name : c \in {d \in pkg[i].deps : d.neg}}
    BY DEF StartRoot
  <2>2. \A c \in pkg[i].deps : c.name \in Names
    BY <1>1, <1>2, PackageFacts, ConstraintFacts
  <2> HIDE DEF i
  <2> QED
    BY <1>1, <2>1, <2>2 DEF Types
<1>6. origins' \in [Origins -> Nat]
  <2>1. origins' \in [Origins -> {0} \cup {pkg[j].ver : j \in Packages}]
    BY DEF StartRoot
  <2>2. {0} \cup {pkg[j].ver : j \in Packages} \subseteq Nat
    BY <1>1, PackageFacts
  <2> QED
    BY <2>1, <2>2
<1>7. Types'
  <2>1. UNCHANGED <<todo, selected, chosen, found, pending, toInstall>> /\ existing' = chosen
    BY DEF StartRoot
  <2> HIDE DEF i
  <2> QED
    BY <1>1, <1>2, <1>3, <1>4, <1>5, <1>6, <2>1, TypesNext DEF Types, PCs
<1>8. Stages'
  <2>0. stack' # <<>>
    <3>1. Len(stack') = 1
      BY <1>2
    <3>2. Len(<<>>) = 0
      OBVIOUS
    <3> QED
      BY <3>1, <3>2
  <2>1. root' >= 1
    <3> HIDE DEF i
    <3>1. root + 1 \in 1..Len(world) /\ Len(world) \in Nat
      BY <1>1, <1>2, WorldFacts
    <3> QED
      BY <1>2, <3>1
  <2> QED
    BY <1>1, <2>0, <2>1 DEF Stages
<1>9. Path'
  <2>1. pkg' = pkg
    BY <1>1 DEF choice, problem
  <2>2. DOMAIN stack' = {1}
    BY <1>2
  <2> HIDE DEF i
  <2> QED
    BY <1>2, <2>1, <2>2 DEF Path, NameOf
<1> QED
  BY <1>7, <1>8, <1>9 DEF WalkInv

\* Descend keeps the invariant of the walk.
LEMMA DescendWalk ==
  ASSUME WalkInv, Descend
  PROVE  WalkInv'
<1> DEFINE f == Callee(Lowest)
<1>1. Types /\ Stages /\ Path /\ Problem /\ pc = "deps" /\ UNCHANGED choice
  BY DEF WalkInv, Types, Descend
<1>0. PICK n \in Nat : n = Len(stack)
  BY <1>1, StackFacts
<1>2. /\ n \in Nat \ {0} /\ n \in DOMAIN stack /\ Top = stack[n]
      /\ Lowest \in Open
      /\ f \in Calls
      /\ f.parents = Top.parents \cup {pkg[Top.pkg].name}
      /\ f.todo = IF pkg[f.pkg].name \in f.parents THEN {} ELSE pkg[f.pkg].deps
      /\ stack' \in Seq(Calls) /\ Len(stack') = n + 1
      /\ \A k \in 1..n : /\ stack'[k].pkg = stack[k].pkg
                          /\ stack'[k].parents = stack[k].parents
      /\ \A k \in 1..(n - 1) : stack'[k].todo = stack[k].todo
      /\ stack'[n].todo = Open \ {Lowest}
      /\ stack'[n + 1] = f
  BY <1>0, <1>1, DescendShape
<1>3. f.todo \subseteq Constraint /\ f.pkg \in Packages
  BY <1>2, CallFields
<1>4. dq' \subseteq Packages
  <2>1. dq' = dq \cup Conflicting(f.pkg) \cup Constrain(f.todo)
    BY DEF Descend
  <2> QED
    BY <1>1, <2>1, DisqualifiedFacts DEF Types
<1>5. conflicts' \subseteq Names
  <2>1. conflicts' = conflicts \cup {d.name : d \in {e \in f.todo : e.neg}}
    BY DEF Descend
  <2>2. \A c \in f.todo : c.name \in Names
    BY <1>3, ConstraintFacts
  <2> HIDE DEF f
  <2> QED
    BY <1>1, <2>1, <2>2 DEF Types
<1>6. selected' \in [Names -> Packages \cup {None}]
  <2>1. selected' = Pick(Top.pkg)
    BY DEF Descend
  <2>2. Top.pkg \in Packages
    BY <1>1, <1>2, StackFacts
  <2> QED
    BY <1>1, <2>1, <2>2 DEF Pick, Types
<1> HIDE DEF f
<1>7. Types'
  <2>1. UNCHANGED <<pc, todo, chosen, root, existing, origins, found, pending, toInstall>>
    BY DEF Descend
  <2> QED
    BY <1>1, <1>2, <1>4, <1>5, <1>6, <2>1, TypesNext DEF Types
<1>8. Stages'
  <2>1. stack' # <<>>
    BY <1>2
  <2> QED
    BY <1>1, <2>1 DEF Stages, Descend
<1>9. Path'
  <2>1. pkg' = pkg
    BY <1>1 DEF choice, problem
  <2>2. DOMAIN stack' = 1..(n + 1) /\ DOMAIN stack = 1..n /\ n = Len(stack)
    BY <1>0, <1>1, <1>2 DEF Types
  <2>3. \A k \in 1..n : NameOf(k)' = NameOf(k)
    BY <1>2, <2>1 DEF NameOf
  <2>4. Open \subseteq Top.todo
    BY DEF Open
  <2>5. NameOf(n) \notin stack[n].parents
    BY <1>1, <1>2, <2>2, <2>4 DEF Path
  <2>6. ASSUME NEW k \in 1..(n + 1)
        PROVE  {NameOf(l)' : l \in 1..(k - 1)} = {NameOf(l) : l \in 1..(k - 1)}
    BY <1>2, <2>3
  <2>7. f.parents = {NameOf(l) : l \in 1..n}
    <3>1. Top.parents = {NameOf(l) : l \in 1..(n - 1)}
      BY <1>1, <1>2 DEF Path
    <3>2. 1..n = 1..(n - 1) \cup {n}
      BY <1>2
    <3> QED
      BY <1>2, <3>1, <3>2 DEF NameOf
  <2>8. ASSUME NEW k \in 1..(n - 1)
        PROVE  /\ stack'[k].todo \subseteq pkg'[stack'[k].pkg].deps
               /\ stack'[k].parents = {NameOf(l)' : l \in 1..(k - 1)}
               /\ NameOf(k)' \in stack'[k].parents => stack'[k].todo = {}
               /\ NameOf(k)' \notin stack'[k].parents
    <3>1. k \in 1..n /\ k \in 1..(n + 1) /\ k < Len(stack) /\ k \in DOMAIN stack
      BY <1>2, <2>2
    <3> QED
      BY <1>1, <1>2, <2>1, <2>3, <2>6, <3>1 DEF Path
  <2>9. /\ stack'[n].todo \subseteq pkg'[stack'[n].pkg].deps
        /\ stack'[n].parents = {NameOf(l)' : l \in 1..(n - 1)}
        /\ NameOf(n)' \notin stack'[n].parents
    <3>1. n \in 1..n /\ n \in 1..(n + 1)
      BY <1>2
    <3> QED
      BY <1>1, <1>2, <2>1, <2>3, <2>4, <2>5, <2>6, <3>1 DEF Path
  <2>10. /\ stack'[n + 1].todo \subseteq pkg'[stack'[n + 1].pkg].deps
         /\ stack'[n + 1].parents = {NameOf(l)' : l \in 1..n}
         /\ NameOf(n + 1)' \in stack'[n + 1].parents => stack'[n + 1].todo = {}
    <3>1. n + 1 \in 1..(n + 1) /\ (n + 1) - 1 = n
      BY <1>2
    <3>2. NameOf(n + 1)' = pkg[f.pkg].name
      BY <1>2, <2>1 DEF NameOf
    <3>3. {NameOf(l)' : l \in 1..n} = {NameOf(l) : l \in 1..n}
      BY <2>3
    <3> QED
      BY <1>2, <2>1, <2>7, <3>2, <3>3
  <2>11. ASSUME NEW k \in DOMAIN stack'
         PROVE  /\ stack'[k].todo \subseteq pkg'[stack'[k].pkg].deps
                /\ stack'[k].parents = {NameOf(l)' : l \in 1..(k - 1)}
                /\ NameOf(k)' \in stack'[k].parents => stack'[k].todo = {}
                /\ k < Len(stack') => NameOf(k)' \notin stack'[k].parents
    <3>1. k \in 1..(n - 1) \/ k = n \/ k = n + 1
      BY <1>2, <2>2
    <3>2. CASE k \in 1..(n - 1)
      BY <2>8, <3>2
    <3>3. CASE k = n
      BY <2>9, <3>3
    <3>4. CASE k = n + 1
      <4>1. (n + 1) - 1 = n /\ ~(k < Len(stack'))
        BY <1>2, <3>4
      <4> QED
        BY <2>10, <3>4, <4>1
    <3> QED
      BY <3>1, <3>2, <3>3, <3>4
  <2> QED
    BY <2>11 DEF Path
<1> QED
  BY <1>7, <1>8, <1>9 DEF WalkInv

\* Return keeps the invariant of the walk.
LEMMA ReturnWalk ==
  ASSUME WalkInv, Return
  PROVE  WalkInv'
<1>1. Types /\ Stages /\ Path /\ Problem /\ pc = "deps" /\ UNCHANGED choice
  BY DEF WalkInv, Types, Return
<1>0. PICK n \in Nat : n = Len(stack)
  BY <1>1, StackFacts
<1>2. /\ n >= 2 /\ n \in DOMAIN stack
      /\ Top = stack[n]
      /\ stack' \in Seq(Calls) /\ Len(stack') = n - 1
      /\ \A k \in 1..(n - 1) : /\ stack'[k].pkg = stack[k].pkg
                                /\ stack'[k].parents = stack[k].parents
                                /\ stack'[k].todo = stack[k].todo
  BY <1>0, <1>1, ReturnShape
<1>3. Top.deps \in Seq(Packages)
  BY <1>1, <1>2, StackFacts
<1>4. \A S \in SUBSET DOMAIN Top.deps : S # {} => Max(S) \in S /\ Top.deps[Max(S)] \in Packages
  <2> TAKE S \in SUBSET DOMAIN Top.deps
  <2>1. Len(Top.deps) \in Nat /\ DOMAIN Top.deps = 1..Len(Top.deps)
    BY <1>3
  <2>2. S # {} => Max(S) \in S
    BY <2>1, GreatestExists
  <2> QED
    BY <1>3, <2>2
<1>5. existing' \in [Names -> Packages \cup {None}]
  <2> DEFINE Named(m) == {k \in DOMAIN Top.deps : pkg[Top.deps[k]].name = m}
  <2>1. existing' = [m \in Names |-> IF Named(m) = {} THEN existing[m] ELSE Top.deps[Max(Named(m))]]
    BY DEF Return
  <2>2. \A m \in Names : Named(m) # {} => Top.deps[Max(Named(m))] \in Packages
    BY <1>4
  <2>3. existing \in [Names -> Packages \cup {None}]
    BY <1>1 DEF Types
  <2> HIDE DEF Named
  <2> QED
    BY <2>1, <2>2, <2>3
<1>6. origins' \in [Origins -> Nat]
  <2> DEFINE From(o) == {k \in DOMAIN Top.deps : pkg[Top.deps[k]].origin = o}
  <2>1. origins' = [o \in Origins |->
           IF o = "" \/ From(o) = {} THEN origins[o] ELSE pkg[Top.deps[Max(From(o))]].ver]
    BY DEF Return
  <2>2. \A o \in Origins : From(o) # {} => pkg[Top.deps[Max(From(o))]].ver \in Nat
    BY <1>1, <1>4, PackageFacts
  <2>3. origins \in [Origins -> Nat]
    BY <1>1 DEF Types
  <2> HIDE DEF From
  <2> QED
    BY <2>1, <2>2, <2>3
<1>7. Types'
  <2>1. UNCHANGED <<pc, todo, dq, selected, chosen, root, found, pending, toInstall, conflicts>>
    BY DEF Return
  <2> QED
    BY <1>1, <1>2, <1>5, <1>6, <2>1, TypesNext DEF Types
<1>8. Stages'
  <2>1. stack' # <<>>
    BY <1>2
  <2> QED
    BY <1>1, <2>1 DEF Stages, Return
<1>9. Path'
  <2>1. pkg' = pkg
    BY <1>1 DEF choice, problem
  <2>2. DOMAIN stack' = 1..(n - 1) /\ DOMAIN stack = 1..n
    BY <1>0, <1>1, <1>2 DEF Types
  <2>3. \A k \in 1..(n - 1) : NameOf(k)' = NameOf(k)
    BY <1>2, <2>1 DEF NameOf
  <2>4. ASSUME NEW k \in DOMAIN stack'
        PROVE  /\ stack'[k].todo \subseteq pkg'[stack'[k].pkg].deps
               /\ stack'[k].parents = {NameOf(l)' : l \in 1..(k - 1)}
               /\ NameOf(k)' \in stack'[k].parents => stack'[k].todo = {}
               /\ k < Len(stack') => NameOf(k)' \notin stack'[k].parents
    <3>1. k \in 1..(n - 1) /\ k \in DOMAIN stack /\ k < Len(stack)
      BY <1>0, <1>2, <2>2
    <3>2. {NameOf(l)' : l \in 1..(k - 1)} = {NameOf(l) : l \in 1..(k - 1)}
      <4>1. \A l \in 1..(k - 1) : l \in 1..(n - 1)
        BY <3>1
      <4> QED
        BY <2>3, <4>1
    <3> QED
      BY <1>1, <1>2, <2>1, <2>3, <3>1, <3>2 DEF Path
  <2> QED
    BY <2>4 DEF Path
<1> QED
  BY <1>7, <1>8, <1>9 DEF WalkInv

\* What RootDone finds.
LEMMA RootDoneShape ==
  ASSUME Types, RootDone
  PROVE  Top = stack[1] /\ 1 \in DOMAIN stack /\ stack[1].deps \in Seq(Packages)
         /\ found' = AddNew(<<>>, stack[1].deps) /\ found' \in Seq(Packages)
<1>1. Top = stack[1] /\ 1 \in DOMAIN stack
  BY DEF RootDone, Top, Types
<1>2. stack[1].deps \in Seq(Packages)
  BY <1>1, StackFacts
<1>3. found' = AddNew(<<>>, stack[1].deps)
  BY <1>1 DEF RootDone
<1>4. <<>> \in Seq(Packages)
  OBVIOUS
<1> QED
  BY <1>1, <1>2, <1>3, <1>4, AddNewFacts

\* RootDone keeps the invariant of the walk.
LEMMA RootDoneWalk ==
  ASSUME WalkInv, RootDone
  PROVE  WalkInv'
<1>1. Types /\ Stages /\ Path /\ Problem /\ pc = "deps" /\ pc' = "installif" /\ UNCHANGED choice
  BY DEF WalkInv, Types, RootDone
<1>2. found' \in Seq(Packages)
  BY <1>1, RootDoneShape
<1>3. pending' \subseteq Names
  <2>1. pending' = Triggering(found')
    BY DEF RootDone
  <2>2. \A i \in ToSet(found') : pkg[i].name \in Names
    BY <1>1, <1>2, PackageFacts DEF ToSet
  <2> QED
    BY <2>1, <2>2 DEF Triggering
<1>4. UNCHANGED <<todo, dq, selected, chosen, root, stack, existing, origins, toInstall, conflicts>>
  BY DEF RootDone
<1>5. Types'
  BY <1>1, <1>2, <1>3, <1>4, TypesNext DEF Types, PCs
<1>6. Stages'
  BY <1>1, <1>4 DEF Stages, RootDone
<1>7. Path'
  BY <1>1, <1>4, PathNext DEF choice, problem
<1> QED
  BY <1>5, <1>6, <1>7 DEF WalkInv

\* What a visit to a name adds has an install-if.
LEMMA VisitShape ==
  ASSUME Types, NEW n, VisitInstallIf(n)
  PROVE  /\ found' \in Seq(Packages) /\ ToSet(found) \subseteq ToSet(found')
         /\ \A i \in ToSet(found') : i \in ToSet(found) \/ pkg[i].installIf # {}
<1> DEFINE more == Triggered(n, pkg[InFound(n)].ver)
<1>1. found' = AddTriggered(found, more)
  BY DEF VisitInstallIf
<1>2. more \in Seq(Packages) /\ \A i \in ToSet(more) : pkg[i].installIf # {}
  BY TriggeredFacts DEF Types
<1>3. found \in Seq(Packages)
  BY DEF Types
<1> HIDE DEF more
<1> QED
  BY <1>1, <1>2, <1>3, AddTriggeredFacts

\* Visit keeps the invariant of the walk.
LEMMA VisitWalk ==
  ASSUME WalkInv, NEW n, VisitInstallIf(n)
  PROVE  WalkInv'
<1>1. Types /\ Stages /\ Path /\ Problem /\ pc = "installif" /\ UNCHANGED <<choice, pc>>
  BY DEF WalkInv, Types, VisitInstallIf
<1>2. found' \in Seq(Packages)
  BY <1>1, VisitShape
<1>3. pending' \subseteq Names
  <2>1. pending' \subseteq pending \cup Triggering(found')
    BY DEF VisitInstallIf
  <2>2. \A i \in ToSet(found') : pkg[i].name \in Names
    BY <1>1, <1>2, PackageFacts DEF ToSet
  <2>3. Triggering(found') \subseteq Names
    BY <2>2 DEF Triggering
  <2>4. pending \subseteq Names
    BY <1>1 DEF Types
  <2> QED
    BY <2>1, <2>3, <2>4
<1>4. UNCHANGED <<todo, dq, selected, chosen, root, stack, existing, origins, toInstall, conflicts>>
  BY DEF VisitInstallIf
<1>5. Types'
  BY <1>1, <1>2, <1>3, <1>4, TypesNext DEF Types, PCs
<1>6. Stages'
  BY <1>1, <1>4 DEF Stages
<1>7. Path'
  BY <1>1, <1>4, PathNext DEF choice, problem
<1> QED
  BY <1>5, <1>6, <1>7 DEF WalkInv

\* What a root adds: what was found and the package itself.
LEMMA InstallShape ==
  ASSUME Types, Stages, Install
  PROVE  /\ Top = stack[1] /\ Len(stack) = 1 /\ 1 \in DOMAIN stack /\ stack[1].pkg \in Packages
         /\ Append(found, stack[1].pkg) \in Seq(Packages)
         /\ ToSet(Append(found, stack[1].pkg)) = ToSet(found) \cup {stack[1].pkg}
         /\ toInstall' = AddNew(toInstall, Append(found, stack[1].pkg))
         /\ toInstall' \in Seq(Packages)
<1>0. Len(stack) = 1
  BY DEF Install, Stages
<1>1. Top = stack[1] /\ Len(stack) = 1 /\ 1 \in DOMAIN stack
  BY <1>0, StackFacts DEF Top
<1>2. stack[1].pkg \in Packages
  BY <1>1, StackFacts
<1>3. found \in Seq(Packages) /\ toInstall \in Seq(Packages)
  BY DEF Types
<1>4. /\ Append(found, stack[1].pkg) \in Seq(Packages)
      /\ ToSet(Append(found, stack[1].pkg)) = ToSet(found) \cup {stack[1].pkg}
  <2> DEFINE t == <<stack[1].pkg>>
  <2>1. t \in Seq(Packages) /\ ToSet(t) = {stack[1].pkg}
    BY <1>2 DEF ToSet
  <2>2. Append(found, stack[1].pkg) = found \o t
    BY <1>2, <1>3
  <2> HIDE DEF t
  <2>3. ToSet(found \o t) = ToSet(found) \cup ToSet(t)
    BY <1>3, <2>1, ToSetConcat
  <2> QED
    BY <1>2, <1>3, <2>1, <2>2, <2>3
<1>5. toInstall' = AddNew(toInstall, Append(found, stack[1].pkg))
  BY <1>1 DEF Install
<1> QED
  BY <1>1, <1>2, <1>3, <1>4, <1>5, AddNewFacts

\* Install keeps the invariant of the walk.
LEMMA InstallWalk ==
  ASSUME WalkInv, Install
  PROVE  WalkInv'
<1> DEFINE all == Append(found, Top.pkg)
           FirstOf(n) == all[SelectInSeq(all, LAMBDA i : pkg[i].name = n)]
<1>1. Types /\ Stages /\ Path /\ Problem /\ pc = "installif" /\ UNCHANGED choice
  BY DEF WalkInv, Types, Install
<1>2. toInstall' \in Seq(Packages) /\ all \in Seq(Packages)
  BY <1>1, InstallShape
<1>3. chosen' \in [Names -> Packages \cup {None}]
  <2>1. chosen' = [n \in Names |-> IF chosen[n] = None /\ n \in NamesIn(all)
                                   THEN FirstOf(n) ELSE chosen[n]]
    BY DEF Install
  <2>2. ASSUME NEW n \in Names, n \in NamesIn(all) PROVE FirstOf(n) \in Packages
    <3> HIDE DEF all
    <3> DEFINE Is == {k \in 1..Len(all) : pkg[all[k]].name = n}
    <3>1. Len(all) \in Nat /\ DOMAIN all = 1..Len(all)
      BY <1>2
    <3>2. Is \in SUBSET Nat /\ Is # {}
      BY <2>2, <3>1 DEF NamesIn, ToSet
    <3> HIDE DEF Is
    <3>3. PICK k \in Is : \A l \in Is : k <= l
      BY <3>2, LeastExists
    <3>4. Min(Is) \in Is
      BY <3>3 DEF Min
    <3>5. SelectInSeq(all, LAMBDA i : pkg[i].name = n) = Min(Is)
      BY <3>2 DEF SelectInSeq, Is
    <3> QED
      BY <1>2, <3>1, <3>4, <3>5 DEF Is
  <2>3. chosen \in [Names -> Packages \cup {None}]
    BY <1>1 DEF Types
  <2> HIDE DEF FirstOf, all
  <2> QED
    BY <2>1, <2>2, <2>3
<1>4. /\ UNCHANGED <<todo, dq, selected, root, existing, origins, found, pending, conflicts>>
      /\ stack' = <<>> /\ pc' \in PCs
  BY DEF Install, PCs
<1>5. <<>> \in Seq(Calls)
  OBVIOUS
<1>6. Types'
  BY <1>1, <1>2, <1>3, <1>4, <1>5, TypesNext DEF Types
<1>7. Stages'
  BY <1>1, <1>4 DEF Stages, Install, choice, problem
<1>8. Path'
  BY <1>4 DEF Path
<1> QED
  BY <1>6, <1>7, <1>8 DEF WalkInv

\* Fail keeps the invariant of the walk.
LEMMA FailWalk ==
  ASSUME WalkInv, Fail
  PROVE  WalkInv'
<1>1. Types /\ Stages /\ Path /\ UNCHANGED choice /\ pc' = "error"
  BY DEF WalkInv, Fail
<1>2. UNCHANGED <<todo, dq, selected, chosen, root, stack, existing, origins, found,
                 pending, toInstall, conflicts>>
  BY DEF Fail
<1>3. Types'
  BY <1>1, <1>2, TypesNext DEF Types, PCs
<1>4. Stages'
  BY <1>1 DEF Stages
<1>5. Path'
  BY <1>1, <1>2, PathNext DEF choice, problem
<1> QED
  BY <1>3, <1>4, <1>5 DEF WalkInv

\* A step that changes nothing keeps the invariant of the walk.
LEMMA StutterWalk ==
  ASSUME WalkInv, UNCHANGED vars
  PROVE  WalkInv'
<1>1. Types /\ Stages /\ Path /\ UNCHANGED choice /\ UNCHANGED <<pc, todo, dq, selected, chosen, root,
         stack, existing, origins, found, pending, toInstall, conflicts>>
  BY DEF WalkInv, vars
<1>3. Types'
  BY <1>1, TypesNext DEF Types
<1>4. Stages'
  BY <1>1 DEF Stages, choice, problem
<1>5. Path'
  BY <1>1, PathNext DEF choice, problem
<1> QED
  BY <1>3, <1>4, <1>5 DEF WalkInv

\* Every step keeps the invariant of the walk.
LEMMA WalkStep ==
  ASSUME WalkInv, [Next]_vars
  PROVE  WalkInv'
<1>1. CASE Again
  BY <1>1, AgainFresh, FreshWalkNext DEF WalkInv, Types
<1>2. CASE Fail
  BY <1>2, FailWalk
<1> QED
  BY <1>1, <1>2, ChooseWorldWalk, WorldChosenWalk, StartRootWalk, DescendWalk, ReturnWalk,
     RootDoneWalk, VisitWalk, InstallWalk, StutterWalk DEF Next, Step

\* The walk over the dependencies keeps its shape: each call knows the names of
\* the packages it is called for, only the innermost may repeat one, and then
\* it has nothing to do (getPackageDependencies).
THEOREM WalkAlways == Spec => []WalkInv
<1>1. Init => WalkInv
  BY InitFresh, FreshWalk
<1>2. WalkInv /\ [Next]_vars => WalkInv'
  BY WalkStep
<1> QED
  BY <1>1, <1>2, PTL DEF Spec

-----------------------------------------------------------------------------
(***************************************************************************)
(* The walk is bounded and ends.                                            *)
(***************************************************************************)

\* The elements of a sequence.
LEMMA SeqElements ==
  ASSUME NEW S, NEW s \in Seq(S)
  PROVE  ToSet(s) \subseteq S /\ \A k \in DOMAIN s : s[k] \in ToSet(s)
BY DEF ToSet

\* The invariant of the walk has the types.
LEMMA WalkTyped ==
  ASSUME WalkInv
  PROVE  TypeOK
<1>1. Types /\ Path
  BY DEF WalkInv
<1>2. \A k \in DOMAIN stack :
        /\ stack[k].pkg \in Packages
        /\ stack[k].todo \subseteq pkg[stack[k].pkg].deps
        /\ stack[k].parents \subseteq Names
        /\ ToSet(stack[k].deps) \subseteq Packages
  BY <1>1, StackFacts, SeqElements DEF Path
<1>3. ToSet(found) \cup ToSet(toInstall) \subseteq Packages
  BY <1>1, SeqElements DEF Types
<1>4. {selected, chosen, existing} \subseteq [Names -> Packages \cup {None}]
  BY <1>1 DEF Types
<1> QED
  BY <1>1, <1>2, <1>3, <1>4 DEF Types, TypeOK

\* The names of all calls but the innermost differ, so there are no more of them
\* than there are names.
LEMMA WalkDepth ==
  ASSUME WalkInv
  PROVE  RecursionBounded
<1> DEFINE P == {pkg[i].name : i \in Packages}
           n == Len(stack) - 1
           f == [k \in 1..n |-> NameOf(k)]
<1>1. Types /\ Path /\ Problem
  BY DEF WalkInv, Types
<1>2. Len(stack) \in Nat /\ DOMAIN stack = 1..Len(stack)
  BY <1>1, StackFacts
<1>3. IsFiniteSet(P)
  <2>1. P \in SUBSET Names
    BY <1>1, PackageFacts
  <2> HIDE DEF P
  <2> QED
    BY <2>1, ResolverAssumption, FS_Subset
<1>4. Cardinality(P) \in Nat
  <2> HIDE DEF P
  <2> QED
    BY <1>3, FS_CardinalityType
<1>5. CASE Len(stack) = 0
  BY <1>4, <1>5 DEF RecursionBounded
<1>6. CASE Len(stack) > 0
  <2>1. n \in Nat /\ \A k \in 1..n : k \in DOMAIN stack /\ k < Len(stack)
    BY <1>2, <1>6
  <2>2. ASSUME NEW k \in 1..n, NEW l \in 1..n, k < l
        PROVE  NameOf(k) # NameOf(l)
    <3>1. l \in DOMAIN stack /\ l < Len(stack) /\ k \in 1..(l - 1)
      BY <2>1, <2>2
    <3>2. NameOf(l) \notin {NameOf(m) : m \in 1..(l - 1)}
      BY <1>1, <3>1 DEF Path
    <3> QED
      BY <3>1, <3>2
  <2>3. \A k \in 1..n : NameOf(k) \in P
    BY <1>1, <2>1, StackFacts DEF NameOf
  <2> HIDE DEF P, n
  <2>4. f \in Injection(1..n, P)
    <3>1. f \in [1..n -> P]
      BY <2>3
    <3>2. \A k, l \in 1..n : f[k] = f[l] => k = l
      <4> TAKE k, l \in 1..n
      <4>1. k < l \/ l < k \/ k = l
        BY <2>1
      <4> QED
        BY <2>2, <4>1
    <3> QED
      BY <3>1, <3>2 DEF Injection, IsInjective
  <2> HIDE DEF f
  <2>5. Cardinality(1..n) <= Cardinality(P)
    BY <1>3, <2>4, FS_Injection
  <2>6. Cardinality(1..n) = n
    BY <2>1, FS_Interval
  <2>7. Len(stack) <= Cardinality(P) + 1
    BY <1>2, <1>4, <2>1, <2>5, <2>6 DEF n
  <2> QED
    BY <2>7 DEF RecursionBounded, P
<1> QED
  BY <1>2, <1>5, <1>6

\* The recursion over dependencies stays within its bounds for any repository
\* and any world, whatever circles the dependencies make
\* (getPackageDependencies).
THEOREM WalkIsBounded == Spec => []WalkBounded
<1>1. WalkInv => WalkBounded
  BY WalkTyped, WalkDepth DEF WalkBounded
<1> QED
  BY <1>1, WalkAlways, PTL

\* Descend takes a constraint from the innermost call.
LEMMA DescendShrinks ==
  ASSUME WalkInv, Descend
  PROVE  Less(Work', Work)
<1>1. Types /\ Stages /\ Path /\ Problem /\ pc = "deps"
  BY DEF WalkInv, Types, Descend
<1>2. PICK n \in Nat : n = Len(stack)
  BY <1>1, StackFacts
<1>3. /\ n \in Nat \ {0} /\ n \in DOMAIN stack /\ Top = stack[n]
      /\ Lowest \in Open
      /\ stack' \in Seq(Calls) /\ Len(stack') = n + 1
      /\ \A k \in 1..(n - 1) : stack'[k].todo = stack[k].todo
      /\ stack'[n].todo = Open \ {Lowest}
  BY <1>1, <1>2, DescendShape
<1>4. DOMAIN stack = 1..n /\ DOMAIN stack' = 1..(n + 1)
  BY <1>1, <1>2, <1>3, StackFacts
<1>5. IsFiniteSet(Top.todo)
  <2>1. Top.todo \subseteq pkg[Top.pkg].deps /\ Top.pkg \in Packages
    BY <1>1, <1>3, StackFacts DEF Path
  <2> QED
    BY <1>1, <2>1, PackageFacts, FS_Subset
<1>6. Open \ {Lowest} \in SUBSET Top.todo /\ Lowest \in Top.todo
  BY <1>3 DEF Open
<1>7. Cardinality(Open \ {Lowest}) < Cardinality(Top.todo)
  <2> DEFINE T == Open \ {Lowest}
  <2>1. T \in SUBSET Top.todo /\ T # Top.todo
    BY <1>6
  <2> HIDE DEF T
  <2>2. IsFiniteSet(T) /\ Cardinality(T) <= Cardinality(Top.todo) /\ Cardinality(T) # Cardinality(Top.todo)
    BY <1>5, <2>1, FS_Subset
  <2>3. Cardinality(T) \in Nat /\ Cardinality(Top.todo) \in Nat
    BY <1>5, <2>2, FS_CardinalityType
  <2>4. Cardinality(T) < Cardinality(Top.todo)
    BY <2>2, <2>3
  <2> QED
    BY <2>4 DEF T
<1>8. Work = [k \in 1..n |-> Cardinality(stack[k].todo)]
  BY <1>4 DEF Work
<1>9. Work' = [k \in 1..(n + 1) |-> Cardinality(stack'[k].todo)]
  BY <1>4 DEF Work
<1>10. Len(Work') = n + 1
  BY <1>3, <1>9
<1>11. n \in DOMAIN Work /\ \A l \in 1..(n - 1) : Work'[l] = Work[l]
  BY <1>3, <1>8, <1>9
<1>12. Work'[n] < Work[n]
  <2>1. n \in 1..n /\ n \in 1..(n + 1)
    BY <1>3
  <2>2. Work[n] = Cardinality(Top.todo) /\ Work'[n] = Cardinality(Open \ {Lowest})
    BY <1>3, <1>8, <1>9, <2>1
  <2> QED
    BY <1>7, <2>2
<1>13. Len(Work') >= n - 1
  BY <1>10
<1> QED
  BY <1>11, <1>12, <1>13 DEF Less

\* Return takes a call away.
LEMMA ReturnShrinks ==
  ASSUME WalkInv, Return
  PROVE  Less(Work', Work)
<1>1. Types /\ Stages /\ Path /\ Problem
  BY DEF WalkInv, Types
<1>2. PICK n \in Nat : n = Len(stack)
  BY <1>1, StackFacts
<1>3. /\ n >= 2 /\ stack' \in Seq(Calls) /\ Len(stack') = n - 1
      /\ \A k \in 1..(n - 1) : stack'[k].todo = stack[k].todo
  BY <1>1, <1>2, ReturnShape
<1>4. DOMAIN stack = 1..n /\ DOMAIN stack' = 1..(n - 1)
  BY <1>1, <1>2, <1>3, StackFacts
<1>8. Work = [k \in 1..n |-> Cardinality(stack[k].todo)]
  BY <1>4 DEF Work
<1>9. Work' = [k \in 1..(n - 1) |-> Cardinality(stack'[k].todo)]
  BY <1>4 DEF Work
<1>10. Len(Work') = n - 1
  BY <1>3, <1>9
<1>11. n \in DOMAIN Work /\ \A l \in 1..(n - 1) : Work'[l] = Work[l]
  BY <1>3, <1>8, <1>9
<1>12. Len(Work') >= n - 1 /\ ~(Len(Work') >= n)
  BY <1>10
<1> QED
  BY <1>11, <1>12 DEF Less

\* Every step of the walk over the dependencies leaves less to do, for any
\* repository and any world (getPackageDependencies).
THEOREM WalkShrinks == Spec => WorkShrinks
<1>1. WalkInv /\ [Next]_vars => [pc = "deps" /\ pc' = "deps" => Less(Work', Work)]_vars
  <2> SUFFICES ASSUME WalkInv, Next, pc = "deps", pc' = "deps"
               PROVE  Less(Work', Work)
    OBVIOUS
  <2>1. Descend \/ Return
    <3>1. ~ChooseWorld /\ ~WorldChosen /\ ~StartRoot
      BY DEF ChooseWorld, WorldChosen, StartRoot
    <3>2. ~RootDone /\ ~Install /\ ~Fail /\ ~Again /\ \A n \in Names : ~VisitInstallIf(n)
      BY DEF RootDone, Install, Fail, Again, Over, VisitInstallIf
    <3> QED
      BY <3>1, <3>2 DEF Next, Step
  <2> QED
    BY <2>1, DescendShrinks, ReturnShrinks
<1> QED
  BY <1>1, WalkAlways, PTL DEF Spec, WorkShrinks

-----------------------------------------------------------------------------
(***************************************************************************)
(* The world is answered.                                                   *)
(***************************************************************************)

\* What a package is and what it fulfils do not change within a resolution.
LEMMA MeaningSame ==
  ASSUME UNCHANGED choice
  PROVE  /\ Barred' = Barred /\ world' = world /\ pkg' = pkg /\ Packages' = Packages
         /\ Carriers(0)' = Carriers(0)
         /\ \A i, c : Fulfils(i, c)' <=> Fulfils(i, c)
         /\ Interchangeable' <=> Interchangeable
         /\ ByOwnName(ToSet(world))' <=> ByOwnName(ToSet(world))
<1>1. pkg' = pkg /\ world' = world /\ archs' = archs
  BY DEF choice, problem
<1>2. Packages' = Packages
  BY <1>1 DEF Packages
<1>3. \A i : ProvidedNames(i)' = ProvidedNames(i)
  BY <1>1 DEF ProvidedNames
<1>4. \A i, c : Fulfils(i, c)' <=> Fulfils(i, c)
  BY <1>1, <1>3 DEF Fulfils, RightVersion
<1>5. Barred' = Barred
  BY <1>1 DEF Barred, BarredBy, Carriers, Lacking, Packages, ProvidedNames, Fits
<1>6. Interchangeable' <=> Interchangeable
  BY <1>1, <1>2, <1>3 DEF Interchangeable, Same
<1>7. ByOwnName(ToSet(world))' <=> ByOwnName(ToSet(world))
  BY <1>1, <1>2, <1>3 DEF ByOwnName
<1> QED
  BY <1>1, <1>2, <1>3, <1>4, <1>5, <1>6, <1>7 DEF Carriers

\* How a step within a resolution keeps the barred packages out.
LEMMA ClearNext ==
  ASSUME Clear, UNCHANGED choice, dq \subseteq dq',
         \A k \in DOMAIN stack' : stack'[k].pkg \notin Barred /\ ToSet(stack'[k].deps) \cap Barred = {},
         \A i \in ToSet(found') \cup ToSet(toInstall') : pkg[i].installIf = {} => i \notin Barred
  PROVE  Clear'
BY MeaningSame DEF Clear

\* The package that is called for is not disqualified, hence not barred.
LEMMA DescendClear ==
  ASSUME WalkInv, Clear, Descend
  PROVE  Clear'
<1>1. Types /\ Stages /\ UNCHANGED choice
  BY DEF WalkInv, Descend
<1>2. PICK n \in Nat : n = Len(stack)
  BY <1>1, StackFacts
<1>3. /\ n \in Nat \ {0} /\ DOMAIN stack = 1..n
      /\ Callee(Lowest).pkg \notin dq /\ Callee(Lowest).deps = <<>>
      /\ stack' \in Seq(Calls) /\ Len(stack') = n + 1
      /\ \A k \in 1..n : stack'[k].pkg = stack[k].pkg /\ stack'[k].deps = stack[k].deps
      /\ stack'[n + 1] = Callee(Lowest)
  BY <1>1, <1>2, DescendShape, StackFacts
<1>4. ToSet(<<>>) = {}
  BY DEF ToSet
<1>5. DOMAIN stack' = 1..(n + 1)
  BY <1>3
<1>6. \A k \in DOMAIN stack' : stack'[k].pkg \notin Barred /\ ToSet(stack'[k].deps) \cap Barred = {}
  <2> TAKE k \in DOMAIN stack'
  <2>1. k \in 1..n \/ k = n + 1
    BY <1>3, <1>5
  <2>2. CASE k \in 1..n
    BY <1>3, <2>2 DEF Clear
  <2>3. CASE k = n + 1
    BY <1>3, <1>4, <2>3 DEF Clear
  <2> QED
    BY <2>1, <2>2, <2>3
<1>7. dq \subseteq dq' /\ found' = found /\ toInstall' = toInstall
  BY DEF Descend
<1> QED
  BY <1>1, <1>6, <1>7, ClearNext DEF Clear

\* Return only moves packages.
LEMMA ReturnClear ==
  ASSUME WalkInv, Clear, Return
  PROVE  Clear'
<1>1. Types /\ Stages /\ UNCHANGED choice
  BY DEF WalkInv, Return
<1>2. PICK n \in Nat : n = Len(stack)
  BY <1>1, StackFacts
<1>3. /\ n >= 2 /\ DOMAIN stack = 1..n
      /\ stack' \in Seq(Calls) /\ Len(stack') = n - 1
      /\ \A k \in 1..(n - 1) : stack'[k].pkg = stack[k].pkg
      /\ \A k \in 1..(n - 2) : stack'[k].deps = stack[k].deps
      /\ stack'[n - 1].deps = stack[n - 1].deps \o (stack[n].deps \o <<stack[n].pkg>>)
  BY <1>1, <1>2, ReturnShape, StackFacts
<1>4. ToSet(stack'[n - 1].deps) = ToSet(stack[n - 1].deps) \cup ToSet(stack[n].deps) \cup {stack[n].pkg}
  <2> DEFINE t == <<stack[n].pkg>>
             d == stack[n].deps \o t
  <2>1. n \in DOMAIN stack /\ n - 1 \in DOMAIN stack
    BY <1>3
  <2>2. stack[n].pkg \in Packages /\ stack[n].deps \in Seq(Packages) /\ stack[n - 1].deps \in Seq(Packages)
    BY <1>1, <2>1, StackFacts
  <2>3. t \in Seq(Packages) /\ ToSet(t) = {stack[n].pkg}
    BY <2>2 DEF ToSet
  <2> HIDE DEF t
  <2>4. d \in Seq(Packages) /\ ToSet(d) = ToSet(stack[n].deps) \cup ToSet(t)
    BY <2>2, <2>3, ToSetConcat
  <2>5. stack'[n - 1].deps = stack[n - 1].deps \o d
    BY <1>3 DEF t
  <2> HIDE DEF d
  <2>6. ToSet(stack'[n - 1].deps) = ToSet(stack[n - 1].deps) \cup ToSet(d)
    BY <2>2, <2>4, <2>5, ToSetConcat
  <2> QED
    BY <2>3, <2>4, <2>6
<1>5. DOMAIN stack' = 1..(n - 1)
  BY <1>3
<1>6. \A k \in DOMAIN stack' : stack'[k].pkg \notin Barred /\ ToSet(stack'[k].deps) \cap Barred = {}
  <2> TAKE k \in DOMAIN stack'
  <2>1. k \in 1..(n - 2) \/ k = n - 1
    BY <1>3, <1>5
  <2>2. k \in 1..(n - 1) /\ k \in DOMAIN stack /\ n \in DOMAIN stack /\ n - 1 \in DOMAIN stack
    BY <1>3, <1>5
  <2>3. CASE k \in 1..(n - 2)
    BY <1>3, <2>2, <2>3 DEF Clear
  <2>4. CASE k = n - 1
    BY <1>3, <1>4, <2>2, <2>4 DEF Clear
  <2> QED
    BY <2>1, <2>3, <2>4
<1>7. dq' = dq /\ found' = found /\ toInstall' = toInstall
  BY DEF Return
<1> QED
  BY <1>1, <1>6, <1>7, ClearNext DEF Clear

\* Install takes what was found, and the root itself.
LEMMA InstallClear ==
  ASSUME WalkInv, Clear, Install
  PROVE  Clear'
<1>1. Types /\ Stages /\ UNCHANGED choice
  BY DEF WalkInv, Install
<1>2. /\ 1 \in DOMAIN stack
      /\ Append(found, stack[1].pkg) \in Seq(Packages)
      /\ ToSet(Append(found, stack[1].pkg)) = ToSet(found) \cup {stack[1].pkg}
      /\ toInstall' = AddNew(toInstall, Append(found, stack[1].pkg))
  BY <1>1, InstallShape
<1>3. ToSet(toInstall') \subseteq ToSet(toInstall) \cup ToSet(found) \cup {stack[1].pkg}
  <2> DEFINE all == Append(found, stack[1].pkg)
  <2>1. toInstall \in Seq(Packages)
    BY <1>1 DEF Types
  <2>2. /\ all \in Seq(Packages) /\ ToSet(all) = ToSet(found) \cup {stack[1].pkg}
        /\ toInstall' = AddNew(toInstall, all)
    BY <1>2
  <2> HIDE DEF all
  <2>3. ToSet(AddNew(toInstall, all)) \subseteq ToSet(toInstall) \cup ToSet(all)
    BY <2>1, <2>2, AddNewFacts
  <2> QED
    BY <2>2, <2>3
<1>4. dq' = dq /\ found' = found /\ stack' = <<>>
  BY DEF Install
<1> QED
  BY <1>1, <1>2, <1>3, <1>4, ClearNext DEF Clear

\* Nothing is barred and in the answer when a resolution starts.
LEMMA FreshClear ==
  Problem /\ Fresh => Clear /\ Asked
<1> SUFFICES ASSUME Problem, Fresh PROVE Clear /\ Asked
  OBVIOUS
<1>1. ToSet(<<>>) = {} /\ DOMAIN stack = {}
  BY DEF ToSet, Fresh
<1>2. Clear
  BY <1>1 DEF Fresh, Clear
<1>3. 1..root = {} /\ ~InRoot
  BY DEF Fresh, InRoot
<1> QED
  BY <1>2, <1>3 DEF Asked

\* The same of a resolution that starts in this step.
LEMMA FreshClearNext ==
  (Problem /\ Fresh => Clear /\ Asked)'
BY FreshClear, PTL

\* Every step keeps the barred packages out.
LEMMA ClearStep ==
  ASSUME WalkInv, Clear, [Next]_vars
  PROVE  Clear'
<1>1. CASE ChooseWorld \/ WorldChosen \/ Fail \/ UNCHANGED vars
  <2>1. UNCHANGED <<choice, stack, found, toInstall>> /\ dq \subseteq dq'
    BY <1>1 DEF ChooseWorld, WorldChosen, Fail, vars
  <2> QED
    BY <2>1, ClearNext DEF Clear
<1>2. CASE StartRoot
  <2>1. UNCHANGED <<choice, found, toInstall>> /\ dq \subseteq dq'
    BY <1>2 DEF StartRoot
  <2> DEFINE i == ResolvePackage(world[root + 1])
  <2>2. i \notin dq /\ Len(stack') = 1 /\ stack'[1].pkg = i /\ stack'[1].deps = <<>> /\ stack' \in Seq(Calls)
    BY <1>2, StartRootShape DEF WalkInv
  <2> HIDE DEF i
  <2>3. DOMAIN stack' = {1}
    BY <2>2
  <2>4. ToSet(<<>>) = {}
    BY DEF ToSet
  <2>5. i \notin Barred
    BY <2>2 DEF Clear
  <2> QED
    BY <2>1, <2>2, <2>3, <2>4, <2>5, ClearNext DEF Clear
<1>3. CASE RootDone
  <2>1. UNCHANGED <<choice, stack, toInstall, dq>>
    BY <1>3 DEF RootDone
  <2>2. 1 \in DOMAIN stack /\ stack[1].deps \in Seq(Packages) /\ found' = AddNew(<<>>, stack[1].deps)
    BY <1>3, RootDoneShape DEF WalkInv
  <2> DEFINE e == <<>>
  <2>3. e \in Seq(Packages) /\ ToSet(e) = {} /\ found' = AddNew(e, stack[1].deps)
    BY <2>2 DEF ToSet
  <2> HIDE DEF e
  <2>4. ToSet(found') \subseteq ToSet(stack[1].deps)
    <3>1. ToSet(AddNew(e, stack[1].deps)) \subseteq ToSet(e) \cup ToSet(stack[1].deps)
      BY <2>2, <2>3, AddNewFacts
    <3> QED
      BY <2>3, <3>1
  <2> QED
    BY <2>1, <2>2, <2>4, ClearNext DEF Clear
<1>4. CASE \E n \in Names : VisitInstallIf(n)
  <2>1. UNCHANGED <<choice, stack, toInstall, dq>>
    BY <1>4 DEF VisitInstallIf
  <2>2. \A i \in ToSet(found') : i \in ToSet(found) \/ pkg[i].installIf # {}
    BY <1>4, VisitShape DEF WalkInv
  <2> QED
    BY <2>1, <2>2, ClearNext DEF Clear
<1>5. CASE Again
  BY <1>5, AgainFresh, FreshClearNext DEF WalkInv, Types
<1> QED
  BY <1>1, <1>2, <1>3, <1>4, <1>5, DescendClear, ReturnClear, InstallClear DEF Next, Step

\* Of the versions of a package that is asked for, any that is not barred will do.
LEMMA StandIn ==
  ASSUME Interchangeable, ByOwnName(ToSet(world)), Problem,
         NEW c \in ToSet(world), NEW p \in Packages, NEW j \in Packages, Same(j, p),
         Fulfils(p, c), j = p \/ j \notin Barred
  PROVE  Fulfils(j, c)
<1> SUFFICES ASSUME j # p PROVE Fulfils(j, c)
  OBVIOUS
<1>1. ProvidedNames(j) = ProvidedNames(p) /\ pkg[j].name = pkg[p].name
  BY DEF Interchangeable, Same
<1>2. c.name \in {pkg[j].name} \cup ProvidedNames(j)
  BY <1>1 DEF Fulfils
<1>3. c \in Constraint
  BY WorldFacts DEF ToSet
<1>4. ASSUME c.op # "any" PROVE Readable(pkg[j].ver) /\ Fits(pkg[j].ver, c)
  <2>1. pkg[j].name = c.name
    BY <1>2, <1>4 DEF ByOwnName
  <2>2. j \notin BarredBy(c)
    BY DEF Barred
  <2>3. Fits(pkg[j].ver, c)
    BY <2>1, <2>2 DEF BarredBy, Carriers
  <2>4. <<pkg[j].ver, c.ver>> \in Satisfying[c.op] /\ c.op \in versionDependency
    BY <1>3, <1>4, <2>3, ConstraintFacts DEF Fits
  <2>5. <<pkg[j].ver, c.ver>> \in Pairs
    BY <2>4 DEF Satisfying
  <2>6. pkg[j].ver \in DOMAIN Parsed
    BY <2>5 DEF Pairs
  <2> QED
    BY <2>3, <2>6 DEF Readable
<1> QED
  BY <1>2, <1>4 DEF Fulfils, RightVersion

\* What a root leaves in the answer meets its entry of the world, though of two
\* versions of a package only the first is kept.
LEMMA InstallAsked ==
  ASSUME WalkInv, Clear, Asked, Install
  PROVE  Asked'
<1>1. Types /\ Stages /\ UNCHANGED choice /\ Problem /\ pc = "installif" /\ root' = root
  BY DEF WalkInv, Install, Types
<1>2. Types' /\ Clear'
  BY InstallClear, InstallWalk DEF WalkInv
<1>3. ~InRoot'
  BY DEF Install, InRoot
<1> DEFINE p == stack[1].pkg
           all == Append(found, p)
<1>4. /\ p \in Packages /\ all \in Seq(Packages) /\ p \in ToSet(all)
      /\ toInstall' = AddNew(toInstall, all)
  BY <1>1, InstallShape
<1> HIDE DEF all
<1>5. /\ NamesIn(toInstall') = NamesIn(toInstall) \cup NamesIn(all)
      /\ ToSet(toInstall) \subseteq ToSet(toInstall') /\ ToSet(toInstall') \subseteq Packages
  BY <1>1, <1>4, AddNewFacts, SeqElements DEF Types
<1>6. PICK j \in ToSet(toInstall') : pkg[j].name = pkg[p].name
  BY <1>4, <1>5 DEF NamesIn
<1>7. root \in DOMAIN world /\ world[root] \in ToSet(world)
  <2>1. root \in 0..Len(world) /\ root >= 1 /\ Len(world) \in Nat /\ DOMAIN world = 1..Len(world)
    BY <1>1, WorldFacts DEF Types, Stages
  <2> QED
    BY <2>1 DEF ToSet
<1>8. Fulfils(p, world[root])
  BY <1>1 DEF Asked, InRoot
<1> SUFFICES ASSUME Interchangeable, ByOwnName(ToSet(world)), NEW k \in 1..root
             PROVE  \E i \in ToSet(toInstall') : Fulfils(i, world[k])
  BY <1>1, <1>3, MeaningSame DEF Asked, Installed
<1>9. CASE k = root
  <2>1. j = p \/ j \notin Barred
    <3>1. j # p => pkg[j].installIf = {}
      BY <1>4, <1>5, <1>6 DEF Interchangeable, Same
    <3> QED
      BY <1>1, <1>2, <1>6, <3>1, MeaningSame DEF Clear
  <2>2. Fulfils(j, world[root])
    BY <1>1, <1>4, <1>5, <1>6, <1>7, <1>8, <2>1, StandIn DEF Same
  <2> QED
    BY <1>9, <2>2
<1>10. CASE k # root
  BY <1>1, <1>5, <1>10 DEF Asked, Installed
<1> QED
  BY <1>9, <1>10

\* Every step keeps what the entries of the world were given.
LEMMA AskedStep ==
  ASSUME WalkInv, Clear, Asked, [Next]_vars
  PROVE  Asked'
<1>0. Types /\ Stages
  BY DEF WalkInv
<1>1. CASE ChooseWorld \/ WorldChosen \/ (UNCHANGED vars)
           \/ RootDone \/ \E n \in Names : VisitInstallIf(n)
  <2>1. UNCHANGED <<choice, stack, root, toInstall>> /\ (InRoot' <=> InRoot) /\ (pc # "error" \/ pc' = pc)
    BY <1>1 DEF ChooseWorld, WorldChosen, vars, RootDone, VisitInstallIf, InRoot
  <2> QED
    BY <2>1, MeaningSame DEF Asked, Installed
<1>2. CASE Fail
  BY <1>2 DEF Fail, Asked, InRoot
<1>3. CASE StartRoot
  <2>1. UNCHANGED <<choice, toInstall>> /\ ~InRoot /\ pc = "roots" /\ root' = root + 1
    BY <1>3 DEF StartRoot, InRoot
  <2>2. Fulfils(stack'[1].pkg, world[root'])
    BY <1>0, <1>3, StartRootShape
  <2>3. root \in Nat
    BY <1>0, WorldFacts DEF Types
  <2>4. \A k \in 1..root' : k = root' \/ k \in 1..root
    BY <2>1, <2>3
  <2>5. InRoot'
    BY <1>3 DEF StartRoot, InRoot
  <2> QED
    BY <2>1, <2>2, <2>4, <2>5, MeaningSame DEF Asked, Installed
<1>4. CASE Descend \/ Return
  <2>1. UNCHANGED <<choice, root, toInstall, pc>> /\ (InRoot' <=> InRoot) /\ pc = "deps"
    BY <1>4 DEF Descend, Return, InRoot
  <2>2. stack'[1].pkg = stack[1].pkg
    <3>1. CASE Descend
      <4>1. /\ Len(stack) \in Nat \ {0}
            /\ \A k \in 1..Len(stack) : stack'[k].pkg = stack[k].pkg
        BY <1>0, <3>1, DescendShape
      <4>2. 1 \in 1..Len(stack)
        BY <4>1
      <4> QED
        BY <4>1, <4>2
    <3>2. CASE Return
      <4>1. /\ Len(stack) \in Nat /\ Len(stack) >= 2
            /\ \A k \in 1..(Len(stack) - 1) : stack'[k].pkg = stack[k].pkg
        BY <1>0, <3>2, ReturnShape
      <4>2. 1 \in 1..(Len(stack) - 1)
        BY <4>1
      <4> QED
        BY <4>1, <4>2
    <3> QED
      BY <1>4, <3>1, <3>2
  <2>3. /\ world' = world /\ \A i, c : Fulfils(i, c)' <=> Fulfils(i, c)
        /\ Interchangeable' <=> Interchangeable
        /\ ByOwnName(ToSet(world))' <=> ByOwnName(ToSet(world))
    BY <2>1, MeaningSame
  <2> QED
    BY <2>1, <2>2, <2>3 DEF Asked, Installed
<1>5. CASE Again
  BY <1>0, <1>5, AgainFresh, FreshClearNext DEF Types
<1> QED
  BY <1>1, <1>2, <1>3, <1>4, <1>5, InstallAsked DEF Next, Step

\* No barred package gets into the answer but through install-if, and the roots
\* that are done have what their entries of the world ask for
\* (getPackagesWithDependencies, GetPackageWithDependencies).
THEOREM ClearAlways == Spec => [](Clear /\ Asked)
<1>1. Init => Clear /\ Asked
  BY InitFresh, FreshClear
<1>2. WalkInv /\ (Clear /\ Asked) /\ [Next]_vars => (Clear /\ Asked)'
  BY ClearStep, AskedStep
<1> QED
  BY <1>1, <1>2, WalkAlways, PTL DEF Spec

\* An answer has something for every entry of the world, where versions of a
\* package stand in for each other, and nothing that another architecture
\* lacks, for any repository and any world (GetPackagesWithDependencies).
THEOREM WorldIsAnswered == Spec => []Answered
<1>1. WalkInv /\ Clear /\ Asked => Answered
  <2> SUFFICES ASSUME WalkInv, Clear, Asked PROVE Answered
    OBVIOUS
  <2>1. LackingLeftOut
    BY DEF LackingLeftOut, Clear, Barred, Installed
  <2>2. WorldInstalled
    <3> SUFFICES ASSUME pc = "ok", Interchangeable, ByOwnName(ToSet(world)), NEW k \in DOMAIN world
                 PROVE  \E i \in Installed : Fulfils(i, world[k])
      BY DEF WorldInstalled
    <3>1. k \in 1..root
      BY WorldFacts DEF WalkInv, Stages, Types
    <3> QED
      BY <3>1 DEF Asked, InRoot
  <2> QED
    BY <2>1, <2>2 DEF Answered
<1> QED
  BY <1>1, WalkAlways, ClearAlways, PTL

-----------------------------------------------------------------------------
(***************************************************************************)
(* Where nothing has to be taken back.                                      *)
(***************************************************************************)

\* What packages want does not change within a resolution.
LEMMA ForcedSame ==
  ASSUME UNCHANGED choice
  PROVE  /\ \A i : Wanted(i)' = Wanted(i)
         /\ \A i, j : DependsOn(i, j)' <=> DependsOn(i, j)
         /\ \A i : Circular(i)' <=> Circular(i)
         /\ NoInstallIf' <=> NoInstallIf
         /\ NothingToTakeBack' <=> NothingToTakeBack
<1>1. /\ pkg' = pkg /\ world' = world /\ Packages' = Packages
      /\ \A i, c : Fulfils(i, c)' <=> Fulfils(i, c)
  BY MeaningSame
<1>2. \A i : ProvidedNames(i)' = ProvidedNames(i)
  BY <1>1 DEF ProvidedNames
<1>3. \A i, c : OwnDependency(i, c)' <=> OwnDependency(i, c)
  BY <1>1, <1>2 DEF OwnDependency
<1>4. \A i : Wanted(i)' = Wanted(i)
  BY <1>1, <1>3 DEF Wanted
<1>5. \A i, j : DependsOn(i, j)' <=> DependsOn(i, j)
  BY <1>1, <1>4 DEF DependsOn
<1>6. \A i : Circular(i)' <=> Circular(i)
  BY <1>1, <1>5 DEF Circular
<1>7. NoInstallIf' <=> NoInstallIf
  BY <1>1 DEF NoInstallIf
<1>8. NothingToTakeBack' <=> NothingToTakeBack
  BY <1>1, <1>2, <1>4, <1>7 DEF NothingToTakeBack, ByOwnName, Same
<1> QED
  BY <1>4, <1>5, <1>6, <1>7, <1>8

\* Nor does what a list of packages is.
LEMMA OrderSame ==
  ASSUME UNCHANGED choice
  PROVE  /\ \A s : NamesIn(s)' = NamesIn(s)
         /\ \A s : Distinct(s)' <=> Distinct(s)
         /\ \A c, N : MetIn(c, N)' <=> MetIn(c, N)
         /\ \A s, N : InTurn(s, N)' <=> InTurn(s, N)
<1>1. /\ pkg' = pkg /\ Packages' = Packages
      /\ \A i, c : Fulfils(i, c)' <=> Fulfils(i, c)
      /\ \A i : Wanted(i)' = Wanted(i)
      /\ \A i : Circular(i)' <=> Circular(i)
  BY MeaningSame, ForcedSame
<1>2. \A s : NamesIn(s)' = NamesIn(s)
  BY <1>1 DEF NamesIn
<1>3. \A s, k : NameAt(s, k)' = NameAt(s, k)
  BY <1>1 DEF NameAt
<1>4. \A s : Distinct(s)' <=> Distinct(s)
  BY <1>3 DEF Distinct
<1>5. \A c, N : MetIn(c, N)' <=> MetIn(c, N)
  BY <1>1 DEF MetIn
<1>6. \A s, N : InTurn(s, N)' <=> InTurn(s, N)
  BY <1>1, <1>3, <1>5 DEF InTurn
<1> QED
  BY <1>2, <1>4, <1>5, <1>6

\* More packages meet more.
LEMMA MetMore ==
  ASSUME NEW c, NEW N, NEW M, MetIn(c, N), N \subseteq M
  PROVE  MetIn(c, M)
BY DEF MetIn

\* What nothing has to be taken back for.
LEMMA ForcedFacts ==
  ASSUME NothingToTakeBack, NEW i \in Packages
  PROVE  /\ \A c \in pkg[i].deps :
              /\ ~c.neg
              /\ c.op = "any" \/ \A j \in Packages : c.name \notin ProvidedNames(j)
         /\ \A j \in Packages : Same(i, j) =>
              ProvidedNames(i) = ProvidedNames(j) /\ Wanted(i) = Wanted(j)
         /\ \A c \in pkg[i].deps : c.op = "any" \/ \A j, k \in Packages : Same(j, k) => j = k
<1> DEFINE asked == ToSet(world) \cup UNION {pkg[j].deps : j \in Packages}
<1>1. /\ \A c \in asked : ~c.neg
      /\ \A k, j \in Packages :
           Same(k, j) => ProvidedNames(k) = ProvidedNames(j) /\ Wanted(k) = Wanted(j)
      /\ \/ \A c \in asked : c.op = "any"
         \/ ByOwnName(asked) /\ \A k, j \in Packages : Same(k, j) => k = j
  BY DEF NothingToTakeBack
<1>2. \A c \in pkg[i].deps : c \in asked
  OBVIOUS
<1> HIDE DEF asked
<1> QED
  BY <1>1, <1>2 DEF ByOwnName

\* Versions of a package meet the same constraints.
LEMMA Exchange ==
  ASSUME NothingToTakeBack, NEW i \in Packages, NEW c \in pkg[i].deps,
         NEW j \in Packages, NEW k \in Packages, Same(j, k), Fulfils(j, c)
  PROVE  Fulfils(k, c)
<1>1. CASE c.op = "any"
  BY <1>1, ForcedFacts DEF Fulfils, RightVersion, Same
<1>2. CASE c.op # "any"
  BY <1>2, ForcedFacts
<1> QED
  BY <1>1, <1>2

\* A package that counts a constraint as its own meets it.
LEMMA OwnMet ==
  ASSUME NothingToTakeBack, NEW i \in Packages, NEW c \in pkg[i].deps, OwnDependency(i, c)
  PROVE  Fulfils(i, c)
<1>1. CASE c.op = "any"
  BY <1>1 DEF Fulfils, RightVersion, OwnDependency
<1>2. CASE c.op # "any"
  BY <1>2, ForcedFacts DEF Fulfils, RightVersion, OwnDependency
<1> QED
  BY <1>1, <1>2

\* A selected package that counts for a constraint meets it, and is in the
\* answer so far or called for.
LEMMA SelectedMet ==
  ASSUME NothingToTakeBack, Types, SelectedKnown,
         NEW i \in Packages, NEW c \in pkg[i].deps, SelectedFor(c)
  PROVE  LET s == selected[c.name]
         IN /\ s \in Packages /\ Fulfils(s, c)
            /\ pkg[s].name \in Done(Len(stack)) \/ \E k \in DOMAIN stack : stack[k].pkg = s
<1> DEFINE s == selected[c.name]
           provided == {pr.ver : pr \in {p \in pkg[s].provides : p.name = c.name /\ p.ver # 0}}
<1>1. Problem /\ c \in Constraint /\ Versioned(c) /\ c.name \in Names
  BY PackageFacts, ConstraintFacts DEF Types
<1>2. /\ s # None
      /\ \/ c.ver = 0
         \/ /\ \A v \in {c.ver, pkg[s].ver} \cup provided : Readable(v)
            /\ \/ \E v \in provided : <<v, c.ver>> \in Satisfying["="]
               \/ Fits(pkg[s].ver, c)
  BY DEF SelectedFor
<1>3. s \in Packages
  BY <1>1, <1>2 DEF Types
<1>4. /\ c.name \in {pkg[s].name} \cup ProvidedNames(s)
      /\ pkg[s].name \in Done(Len(stack)) \/ \E k \in DOMAIN stack : stack[k].pkg = s
  BY <1>1, <1>2 DEF SelectedKnown
<1>5. RightVersion(s, c)
  <2>1. CASE c.op = "any"
    BY <2>1 DEF RightVersion
  <2>2. CASE c.op # "any"
    <3>1. c.ver # 0
      BY <1>1, <2>2 DEF Versioned
    <3>2. provided = {}
      BY <1>3, <2>2, ForcedFacts DEF ProvidedNames
    <3>3. Readable(pkg[s].ver) /\ Fits(pkg[s].ver, c)
      BY <1>2, <3>1, <3>2
    <3> QED
      BY <3>3 DEF RightVersion
  <2> QED
    BY <2>1, <2>2
<1> QED
  BY <1>3, <1>4, <1>5 DEF Fulfils

\* What is reached from one call is reached from the calls around it.
LEMMA Chain ==
  ASSUME Types, Linked, NEW k \in DOMAIN stack, NEW n \in DOMAIN stack, k <= n,
         NEW S \in SUBSET Packages, \A h \in S : \A j \in Packages : DependsOn(h, j) => j \in S,
         stack[k].pkg \in S
  PROVE  stack[n].pkg \in S
<1> DEFINE R == {m \in k..n : stack[m].pkg \in S}
<1>1. Len(stack) \in Nat /\ DOMAIN stack = 1..Len(stack) /\ \A m \in DOMAIN stack : stack[m].pkg \in Packages
  BY StackFacts
<1>2. k \in Nat /\ n \in Nat /\ n <= Len(stack) /\ k >= 1
  BY <1>1
<1>3. ASSUME NEW m \in k..(n - 1), m \in R PROVE m + 1 \in R
  <2>1. m \in 1..(Len(stack) - 1) /\ m + 1 \in DOMAIN stack /\ m + 1 \in k..n
    BY <1>1, <1>2
  <2>2. DependsOn(stack[m].pkg, stack[m + 1].pkg)
    BY <2>1 DEF Linked
  <2> QED
    BY <1>1, <1>3, <2>1, <2>2
<1>4. k \in R
  BY <1>2
<1> HIDE DEF R
<1>5. n \in R
  BY <1>2, <1>3, <1>4, UpTo
<1> QED
  BY <1>5 DEF R

\* The innermost call is in a circle if it depends on the package of a call
\* around it.
LEMMA CircleTop ==
  ASSUME Types, Linked, NEW k \in DOMAIN stack, NEW n \in DOMAIN stack, k <= n,
         DependsOn(stack[n].pkg, stack[k].pkg)
  PROVE  Circular(stack[n].pkg)
<1> SUFFICES ASSUME NEW S \in SUBSET Packages,
                    \A h \in S \cup {stack[n].pkg} : \A j \in Packages : DependsOn(h, j) => j \in S
             PROVE  stack[n].pkg \in S
  BY DEF Circular
<1>1. stack[k].pkg \in S
  BY StackFacts
<1> QED
  BY <1>1, Chain

\* A package called for is in a circle if a call around it is for a version of
\* the same package.
LEMMA CircleCallee ==
  ASSUME Types, Linked, NEW l \in DOMAIN stack, NEW n \in DOMAIN stack, n = Len(stack),
         NEW f \in Packages, DependsOn(stack[n].pkg, f), Wanted(f) = Wanted(stack[l].pkg)
  PROVE  Circular(f)
<1> SUFFICES ASSUME NEW S \in SUBSET Packages,
                    \A h \in S \cup {f} : \A j \in Packages : DependsOn(h, j) => j \in S
             PROVE  f \in S
  BY DEF Circular
<1>1. Len(stack) \in Nat /\ DOMAIN stack = 1..Len(stack) /\ \A m \in DOMAIN stack : stack[m].pkg \in Packages
  BY StackFacts
<1>2. CASE l = n
  BY <1>2 DEF DependsOn
<1>3. CASE l # n
  <2>1. l \in 1..(Len(stack) - 1) /\ l + 1 \in DOMAIN stack /\ l + 1 <= n
    BY <1>1, <1>3
  <2>2. DependsOn(stack[l].pkg, stack[l + 1].pkg)
    BY <2>1 DEF Linked
  <2>3. stack[l + 1].pkg \in S
    BY <1>1, <2>1, <2>2 DEF DependsOn
  <2>4. stack[n].pkg \in S
    BY <2>1, <2>3, Chain
  <2> QED
    BY <2>4
<1> QED
  BY <1>2, <1>3

\* What is done and what is there.
LEMMA DoneFacts ==
  ASSUME NEW n
  PROVE  /\ \A x : x \in Done(n) <=> x \in NamesIn(toInstall) \/ \E l \in 1..n : x \in NamesIn(stack[l].deps)
         /\ \A x : x \in Got <=> x \in Done(Len(stack)) \/ \E k \in DOMAIN stack : x = NameOf(k)
BY DEF Done, Got

\* More calls have more done.
LEMMA DoneMore ==
  ASSUME NEW k \in Int, NEW n \in Int, k <= n
  PROVE  Done(k) \subseteq Done(n)
<1>1. \A l \in 1..k : l \in 1..n
  OBVIOUS
<1> QED
  BY <1>1 DEF Done

\* A constraint of the innermost call that asks for no package is met.
LEMMA ClosedMet ==
  ASSUME WalkInv, Linked, NothingToTakeBack, SelectedKnown, pc = "deps",
         NEW c \in Top.todo, c \notin Open
  PROVE  /\ MetIn(c, Got)
         /\ c \in Wanted(Top.pkg) => Circular(Top.pkg) \/ MetIn(c, Done(Len(stack)))
<1>1. Types /\ Stages /\ Path
  BY DEF WalkInv
<1>2. /\ Len(stack) \in DOMAIN stack /\ Top = stack[Len(stack)]
      /\ c.neg \/ OwnDependency(Top.pkg, c) \/ SelectedFor(c)
  BY <1>1, OpenFacts
<1>3. Top.pkg \in Packages /\ c \in pkg[Top.pkg].deps
  BY <1>1, <1>2, StackFacts DEF Path
<1>4. ~c.neg
  BY <1>3, ForcedFacts
<1>5. CASE OwnDependency(Top.pkg, c)
  <2>1. Fulfils(Top.pkg, c)
    BY <1>3, <1>5, OwnMet
  <2>2. pkg[Top.pkg].name \in Got
    BY <1>2 DEF Got, NameOf
  <2> QED
    BY <1>3, <1>5, <2>1, <2>2 DEF MetIn, Wanted
<1>6. CASE SelectedFor(c)
  <2>1. PICK s \in Packages :
          /\ Fulfils(s, c)
          /\ pkg[s].name \in Done(Len(stack)) \/ \E k \in DOMAIN stack : stack[k].pkg = s
    BY <1>1, <1>3, <1>6, SelectedMet
  <2>2. CASE pkg[s].name \in Done(Len(stack))
    BY <2>1, <2>2 DEF MetIn, Got
  <2>3. CASE \E k \in DOMAIN stack : stack[k].pkg = s
    <3>1. PICK k \in DOMAIN stack : stack[k].pkg = s
      BY <2>3
    <3>2. MetIn(c, Got)
      BY <2>1, <3>1 DEF MetIn, Got, NameOf
    <3>3. ASSUME c \in Wanted(Top.pkg) PROVE Circular(Top.pkg)
      <4>1. DependsOn(stack[Len(stack)].pkg, stack[k].pkg)
        BY <1>2, <2>1, <3>1, <3>3 DEF DependsOn
      <4>2. k <= Len(stack)
        BY <1>1, StackFacts
      <4> QED
        BY <1>1, <1>2, <4>1, <4>2, CircleTop
    <3> QED
      BY <3>2, <3>3
  <2> QED
    BY <2>1, <2>2, <2>3
<1> QED
  BY <1>2, <1>4, <1>5, <1>6

\* Lists in turn, one after the other.
LEMMA InTurnConcat ==
  ASSUME NEW s \in Seq(Packages), NEW t \in Seq(Packages), NEW N,
         InTurn(s, N), InTurn(t, N \cup NamesIn(s))
  PROVE  InTurn(s \o t, N)
<1> DEFINE st == s \o t
<1>1. /\ Len(s) \in Nat /\ Len(t) \in Nat /\ DOMAIN s = 1..Len(s) /\ DOMAIN t = 1..Len(t)
      /\ st \in Seq(Packages) /\ Len(st) = Len(s) + Len(t) /\ DOMAIN st = 1..(Len(s) + Len(t))
      /\ \A m \in 1..Len(s) : st[m] = s[m]
      /\ \A m \in 1..Len(t) : st[Len(s) + m] = t[m]
  OBVIOUS
<1> HIDE DEF st
<1> DEFINE Pre(m) == {NameAt(st, l) : l \in 1..(m - 1)}
<1>2. ASSUME NEW m \in 1..Len(s) PROVE Circular(st[m]) \/ \A c \in Wanted(st[m]) : MetIn(c, N \cup Pre(m))
  <2>1. {NameAt(s, l) : l \in 1..(m - 1)} \subseteq Pre(m)
    <3>1. \A l \in 1..(m - 1) : l \in 1..Len(s)
      BY <1>1
    <3>2. \A l \in 1..Len(s) : NameAt(s, l) = NameAt(st, l)
      BY <1>1 DEF NameAt
    <3> QED
      BY <3>1, <3>2
  <2> DEFINE Q == {NameAt(s, l) : l \in 1..(m - 1)}
  <2>2. Circular(s[m]) \/ \A c \in Wanted(s[m]) : MetIn(c, N \cup Q)
    BY <1>1 DEF InTurn
  <2>3. N \cup Q \subseteq N \cup Pre(m) /\ st[m] = s[m]
    BY <1>1, <2>1
  <2> HIDE DEF Pre, Q
  <2>4. \A c : MetIn(c, N \cup Q) => MetIn(c, N \cup Pre(m))
    BY <2>3, MetMore
  <2> QED
    BY <2>2, <2>3, <2>4
<1>3. ASSUME NEW m \in 1..Len(t)
      PROVE  Circular(t[m]) \/ \A c \in Wanted(t[m]) : MetIn(c, N \cup Pre(Len(s) + m))
  <2>1. {NameAt(t, l) : l \in 1..(m - 1)} \subseteq Pre(Len(s) + m)
    <3>1. ASSUME NEW l \in 1..(m - 1) PROVE NameAt(t, l) \in Pre(Len(s) + m)
      <4>1. l \in 1..Len(t) /\ Len(s) + l \in 1..(Len(s) + m - 1)
        BY <1>1
      <4>2. NameAt(t, l) = NameAt(st, Len(s) + l)
        BY <1>1, <4>1 DEF NameAt
      <4> QED
        BY <4>1, <4>2
    <3> QED
      BY <3>1
  <2>2. NamesIn(s) \subseteq Pre(Len(s) + m)
    <3>1. \A l \in 1..Len(s) : l \in 1..(Len(s) + m - 1)
      BY <1>1
    <3>2. \A l \in 1..Len(s) : NameAt(s, l) = NameAt(st, l)
      BY <1>1 DEF NameAt
    <3>3. \A n \in NamesIn(s) : \E l \in 1..Len(s) : NameAt(s, l) = n
      BY <1>1, NamesInFacts
    <3> QED
      BY <3>1, <3>2, <3>3
  <2> DEFINE Q == {NameAt(t, l) : l \in 1..(m - 1)}
  <2>3. Circular(t[m]) \/ \A c \in Wanted(t[m]) : MetIn(c, (N \cup NamesIn(s)) \cup Q)
    BY <1>1 DEF InTurn
  <2>4. (N \cup NamesIn(s)) \cup Q \subseteq N \cup Pre(Len(s) + m)
    BY <2>1, <2>2
  <2> HIDE DEF Pre, Q
  <2>5. \A c : MetIn(c, (N \cup NamesIn(s)) \cup Q) => MetIn(c, N \cup Pre(Len(s) + m))
    BY <2>4, MetMore
  <2> QED
    BY <2>3, <2>5
<1>4. ASSUME NEW m \in DOMAIN st PROVE Circular(st[m]) \/ \A c \in Wanted(st[m]) : MetIn(c, N \cup Pre(m))
  <2>1. CASE m \in 1..Len(s)
    BY <1>2, <2>1
  <2>2. CASE m \notin 1..Len(s)
    <3>1. PICK h \in 1..Len(t) : m = Len(s) + h
      <4>1. m - Len(s) \in 1..Len(t) /\ m = Len(s) + (m - Len(s))
        BY <1>1, <2>2
      <4> QED
        BY <4>1
    <3>2. st[m] = t[h]
      BY <1>1, <3>1
    <3> HIDE DEF Pre
    <3> QED
      BY <1>3, <3>1, <3>2
  <2> QED
    BY <2>1, <2>2
<1>5. InTurn(st, N)
  BY <1>4 DEF InTurn
<1> QED
  BY <1>5 DEF st

\* The same when only packages of new names are added.
LEMMA InTurnAddNew ==
  ASSUME NEW s \in Seq(Packages), NEW t \in Seq(Packages), NEW N,
         InTurn(s, N), InTurn(t, N \cup NamesIn(s))
  PROVE  InTurn(AddNew(s, t), N)
<1> DEFINE a == AddNew(s, t)
<1>1. /\ a \in Seq(Packages)
      /\ Len(a) >= Len(s) /\ \A m \in 1..Len(s) : a[m] = s[m]
      /\ \A m \in (Len(s) + 1)..Len(a) : \E k \in DOMAIN t :
           /\ a[m] = t[k]
           /\ \A l \in 1..(k - 1) : \E h \in 1..(m - 1) : NameAt(a, h) = NameAt(t, l)
  BY AddNewFacts
<1> HIDE DEF a
<1>2. /\ Len(s) \in Nat /\ Len(t) \in Nat /\ Len(a) \in Nat /\ DOMAIN a = 1..Len(a)
      /\ DOMAIN s = 1..Len(s) /\ DOMAIN t = 1..Len(t)
  BY <1>1
<1> DEFINE Pre(m) == {NameAt(a, l) : l \in 1..(m - 1)}
<1>3. ASSUME NEW m \in 1..Len(s) PROVE Circular(a[m]) \/ \A c \in Wanted(a[m]) : MetIn(c, N \cup Pre(m))
  <2>1. {NameAt(s, l) : l \in 1..(m - 1)} \subseteq Pre(m)
    <3>1. \A l \in 1..(m - 1) : l \in 1..Len(s)
      BY <1>2
    <3>2. \A l \in 1..Len(s) : NameAt(s, l) = NameAt(a, l)
      BY <1>1 DEF NameAt
    <3> QED
      BY <3>1, <3>2
  <2> DEFINE Q == {NameAt(s, l) : l \in 1..(m - 1)}
  <2>2. Circular(s[m]) \/ \A c \in Wanted(s[m]) : MetIn(c, N \cup Q)
    BY <1>2 DEF InTurn
  <2>3. N \cup Q \subseteq N \cup Pre(m) /\ a[m] = s[m]
    BY <1>1, <2>1
  <2> HIDE DEF Pre, Q
  <2>4. \A c : MetIn(c, N \cup Q) => MetIn(c, N \cup Pre(m))
    BY <2>3, MetMore
  <2> QED
    BY <2>2, <2>3, <2>4
<1>4. ASSUME NEW m \in (Len(s) + 1)..Len(a)
      PROVE  Circular(a[m]) \/ \A c \in Wanted(a[m]) : MetIn(c, N \cup Pre(m))
  <2>1. PICK k \in DOMAIN t :
           /\ a[m] = t[k]
           /\ \A l \in 1..(k - 1) : \E h \in 1..(m - 1) : NameAt(a, h) = NameAt(t, l)
    BY <1>1
  <2>2. {NameAt(t, l) : l \in 1..(k - 1)} \subseteq Pre(m)
    BY <2>1
  <2>3. NamesIn(s) \subseteq Pre(m)
    <3>1. \A l \in 1..Len(s) : l \in 1..(m - 1)
      BY <1>2
    <3>2. \A l \in 1..Len(s) : NameAt(s, l) = NameAt(a, l)
      BY <1>1 DEF NameAt
    <3>3. \A n \in NamesIn(s) : \E l \in 1..Len(s) : NameAt(s, l) = n
      BY <1>2, NamesInFacts
    <3> QED
      BY <3>1, <3>2, <3>3
  <2> DEFINE Q == {NameAt(t, l) : l \in 1..(k - 1)}
  <2>4. Circular(t[k]) \/ \A c \in Wanted(t[k]) : MetIn(c, (N \cup NamesIn(s)) \cup Q)
    BY DEF InTurn
  <2>5. (N \cup NamesIn(s)) \cup Q \subseteq N \cup Pre(m)
    BY <2>2, <2>3
  <2> HIDE DEF Pre, Q
  <2>6. \A c : MetIn(c, (N \cup NamesIn(s)) \cup Q) => MetIn(c, N \cup Pre(m))
    BY <2>5, MetMore
  <2> QED
    BY <2>1, <2>4, <2>6
<1>5. ASSUME NEW m \in DOMAIN a PROVE Circular(a[m]) \/ \A c \in Wanted(a[m]) : MetIn(c, N \cup Pre(m))
  <2>1. m \in 1..Len(s) \/ m \in (Len(s) + 1)..Len(a)
    BY <1>2
  <2> HIDE DEF Pre
  <2> QED
    BY <1>3, <1>4, <2>1
<1>6. InTurn(a, N)
  BY <1>5 DEF InTurn
<1> QED
  BY <1>6 DEF a

\* A list of one package.
LEMMA InTurnOne ==
  ASSUME NEW p \in Packages, NEW N, Circular(p) \/ \A c \in Wanted(p) : MetIn(c, N)
  PROVE  InTurn(<<p>>, N)
<1>1. DOMAIN <<p>> = {1} /\ <<p>>[1] = p
  OBVIOUS
<1>2. N \subseteq N \cup {NameAt(<<p>>, l) : l \in 1..(1 - 1)}
  OBVIOUS
<1> QED
  BY <1>1, <1>2, MetMore DEF InTurn

\* Descend adds a name to what is there and nothing to what is done.
LEMMA DescendDone ==
  ASSUME WalkInv, Descend, NEW n \in Nat, n = Len(stack)
  PROVE  /\ n >= 1 /\ DOMAIN stack = 1..n /\ DOMAIN stack' = 1..(n + 1) /\ Len(stack') = n + 1
         /\ Callee(Lowest).pkg \in Packages
         /\ \A k \in 1..n : NameOf(k)' = NameOf(k)
         /\ NameOf(n + 1)' = pkg[Callee(Lowest).pkg].name
         /\ \A k \in 0..n : Done(k)' = Done(k)
         /\ Done(n + 1)' = Done(n)
         /\ Got' = Got \cup {pkg[Callee(Lowest).pkg].name}
<1> DEFINE f == Callee(Lowest)
<1>1. Types /\ Stages /\ UNCHANGED <<choice, toInstall>>
  BY DEF WalkInv, Descend
<1>2. /\ n \in Nat \ {0}
      /\ f \in Calls /\ f.deps = <<>>
      /\ stack' \in Seq(Calls) /\ Len(stack') = n + 1
      /\ \A k \in 1..n : stack'[k].pkg = stack[k].pkg /\ stack'[k].deps = stack[k].deps
      /\ stack'[n + 1] = f
  BY <1>1, DescendShape
<1>3. f.pkg \in Packages
  BY <1>2, CallFields
<1> HIDE DEF f
<1>4. DOMAIN stack = 1..n /\ DOMAIN stack' = 1..(n + 1)
  BY <1>1, <1>2, StackFacts
<1>5. pkg' = pkg /\ \A s : NamesIn(s)' = NamesIn(s)
  BY <1>1, OrderSame, MeaningSame
<1>6. \A k \in 1..n : NameOf(k)' = NameOf(k)
  BY <1>2, <1>5 DEF NameOf
<1>7. NameOf(n + 1)' = pkg[f.pkg].name
  BY <1>2, <1>5 DEF NameOf
<1>8. NamesIn(<<>>) = {}
  BY DEF NamesIn, ToSet
<1>9. \A k \in 0..n : Done(k)' = Done(k)
  <2> TAKE k \in 0..n
  <2>1. \A l \in 1..k : stack'[l].deps = stack[l].deps
    BY <1>2
  <2> QED
    BY <1>1, <1>5, <2>1 DEF Done
<1>10. Done(n + 1)' = Done(n)
  <2>1. NamesIn(stack[n + 1].deps)' = {}
    BY <1>2, <1>5, <1>8
  <2>2. 1..(n + 1) = 1..n \cup {n + 1}
    BY <1>2
  <2>3. Done(n + 1)' = Done(n)' \cup NamesIn(stack[n + 1].deps)'
    BY <2>2 DEF Done
  <2>4. Done(n)' = Done(n)
    BY <1>2, <1>9
  <2> QED
    BY <2>1, <2>3, <2>4
<1>11. Got' = Got \cup {pkg[f.pkg].name}
  <2>1. {NameOf(k)' : k \in 1..(n + 1)} = {NameOf(k) : k \in 1..n} \cup {pkg[f.pkg].name}
    <3>1. 1..(n + 1) = 1..n \cup {n + 1}
      BY <1>2
    <3> QED
      BY <1>6, <1>7, <3>1
  <2>2. Got' = Done(n + 1)' \cup {NameOf(k)' : k \in 1..(n + 1)}
    BY <1>2, <1>4 DEF Got
  <2>3. Got = Done(n) \cup {NameOf(k) : k \in 1..n}
    BY <1>4 DEF Got
  <2> QED
    BY <1>10, <2>1, <2>2, <2>3
<1> QED
  BY <1>2, <1>3, <1>4, <1>6, <1>7, <1>9, <1>10, <1>11 DEF f

\* Return makes the package of the innermost call one of those done.
LEMMA ReturnDone ==
  ASSUME WalkInv, Return, NEW n \in Nat, n = Len(stack)
  PROVE  /\ n >= 2 /\ DOMAIN stack = 1..n /\ DOMAIN stack' = 1..(n - 1) /\ Len(stack') = n - 1
         /\ \A k \in 1..(n - 1) : NameOf(k)' = NameOf(k)
         /\ \A k \in 0..(n - 2) : Done(k)' = Done(k)
         /\ Done(n - 1)' = Done(n) \cup {NameOf(n)}
         /\ Got' = Got
<1>1. Types /\ Stages /\ UNCHANGED <<choice, toInstall>>
  BY DEF WalkInv, Return
<1>2. /\ n >= 2
      /\ stack' \in Seq(Calls) /\ Len(stack') = n - 1
      /\ \A k \in 1..(n - 1) : stack'[k].pkg = stack[k].pkg
      /\ \A k \in 1..(n - 2) : stack'[k].deps = stack[k].deps
      /\ stack'[n - 1].deps = stack[n - 1].deps \o (stack[n].deps \o <<stack[n].pkg>>)
  BY <1>1, ReturnShape
<1>3. DOMAIN stack = 1..n /\ DOMAIN stack' = 1..(n - 1)
  BY <1>1, <1>2, StackFacts
<1>4. pkg' = pkg /\ \A s : NamesIn(s)' = NamesIn(s)
  BY <1>1, OrderSame, MeaningSame
<1>5. \A k \in 1..(n - 1) : NameOf(k)' = NameOf(k)
  BY <1>2, <1>4 DEF NameOf
<1>6. \A k \in 0..(n - 2) : Done(k)' = Done(k)
  <2> TAKE k \in 0..(n - 2)
  <2>1. \A l \in 1..k : stack'[l].deps = stack[l].deps
    BY <1>2
  <2> QED
    BY <1>1, <1>4, <2>1 DEF Done
<1>7. NamesIn(stack[n - 1].deps)' = NamesIn(stack[n - 1].deps) \cup NamesIn(stack[n].deps) \cup {NameOf(n)}
  <2> DEFINE t == <<stack[n].pkg>>
             d == stack[n].deps \o t
  <2>1. n \in DOMAIN stack /\ n - 1 \in DOMAIN stack
    BY <1>2, <1>3
  <2>2. stack[n].pkg \in Packages /\ stack[n].deps \in Seq(Packages) /\ stack[n - 1].deps \in Seq(Packages)
    BY <1>1, <2>1, StackFacts
  <2>3. t \in Seq(Packages) /\ ToSet(t) = {stack[n].pkg}
    BY <2>2 DEF ToSet
  <2>4. NamesIn(t) = {NameOf(n)}
    BY <2>3 DEF NamesIn, NameOf
  <2> HIDE DEF t
  <2>5. d \in Seq(Packages) /\ NamesIn(d) = NamesIn(stack[n].deps) \cup NamesIn(t)
    BY <2>2, <2>3, NamesInFacts
  <2>6. stack'[n - 1].deps = stack[n - 1].deps \o d
    BY <1>2 DEF t
  <2> HIDE DEF d
  <2>7. NamesIn(stack'[n - 1].deps) = NamesIn(stack[n - 1].deps) \cup NamesIn(d)
    BY <2>2, <2>5, <2>6, NamesInFacts
  <2>8. NamesIn(stack[n - 1].deps)' = NamesIn(stack'[n - 1].deps)
    BY <1>4
  <2> QED
    BY <2>4, <2>5, <2>7, <2>8
<1>8. Done(n - 1)' = Done(n) \cup {NameOf(n)}
  <2>1. 1..(n - 1) = 1..(n - 2) \cup {n - 1} /\ 1..n = 1..(n - 2) \cup {n - 1, n}
    BY <1>2
  <2>2. Done(n - 1)' = Done(n - 2)' \cup NamesIn(stack[n - 1].deps)'
    BY <2>1 DEF Done
  <2>3. Done(n) = Done(n - 2) \cup NamesIn(stack[n - 1].deps) \cup NamesIn(stack[n].deps)
    BY <2>1 DEF Done
  <2>4. Done(n - 2)' = Done(n - 2)
    BY <1>2, <1>6
  <2> QED
    BY <1>7, <2>2, <2>3, <2>4
<1>9. Got' = Got
  <2>1. {NameOf(k) : k \in 1..n} = {NameOf(k)' : k \in 1..(n - 1)} \cup {NameOf(n)}
    <3>1. 1..n = 1..(n - 1) \cup {n}
      BY <1>2
    <3> QED
      BY <1>5, <3>1
  <2>2. Got' = Done(n - 1)' \cup {NameOf(k)' : k \in 1..(n - 1)}
    BY <1>2, <1>3 DEF Got
  <2>3. Got = Done(n) \cup {NameOf(k) : k \in 1..n}
    BY <1>3 DEF Got
  <2> QED
    BY <1>8, <2>1, <2>2, <2>3
<1> QED
  BY <1>2, <1>3, <1>5, <1>6, <1>8, <1>9

\* What is done in the call for a root.
LEMMA OneDone ==
  ASSUME Types, Len(stack) = 1
  PROVE  /\ DOMAIN stack = {1} /\ Done(0) = NamesIn(toInstall)
         /\ Done(1) = NamesIn(toInstall) \cup NamesIn(stack[1].deps)
         /\ Got = Done(1) \cup {NameOf(1)}
<1>1. DOMAIN stack = {1} /\ 1..1 = {1} /\ 1..0 = {}
  BY StackFacts
<1>2. Done(0) = NamesIn(toInstall) /\ Done(1) = NamesIn(toInstall) \cup NamesIn(stack[1].deps)
  BY <1>1 DEF Done
<1> QED
  BY <1>1, <1>2 DEF Got

\* What is done between roots.
LEMMA NoneDone ==
  ASSUME stack = <<>>
  PROVE  /\ DOMAIN stack = {} /\ Len(stack) = 0 /\ Done(0) = NamesIn(toInstall) /\ Got = NamesIn(toInstall)
<1>1. DOMAIN stack = {} /\ 1..0 = {} /\ Len(stack) = 0
  OBVIOUS
<1>2. Done(0) = NamesIn(toInstall)
  BY <1>1 DEF Done
<1> QED
  BY <1>1, <1>2 DEF Got

-----------------------------------------------------------------------------
\* The package called for is one the caller depends on.
LEMMA DescendLinked ==
  ASSUME WalkInv, Descend
  PROVE  /\ DependsOn(stack[Len(stack)].pkg, Callee(Lowest).pkg)
         /\ Linked => Linked'
<1>1. Types /\ Stages /\ Path /\ UNCHANGED choice /\ pc = "deps"
  BY DEF WalkInv, Descend
<1>2. PICK n \in Nat : n = Len(stack)
  BY <1>1, StackFacts
<1>3. /\ n \in Nat \ {0} /\ n \in DOMAIN stack /\ Top = stack[n]
      /\ Lowest \in Open /\ Fulfils(Callee(Lowest).pkg, Lowest)
      /\ stack' \in Seq(Calls) /\ Len(stack') = n + 1
      /\ \A k \in 1..n : stack'[k].pkg = stack[k].pkg
      /\ stack'[n + 1] = Callee(Lowest)
  BY <1>1, <1>2, DescendShape
<1>4. Lowest \in Wanted(stack[n].pkg)
  BY <1>1, <1>3, OpenFacts DEF Path, Wanted
<1>5. DependsOn(stack[n].pkg, Callee(Lowest).pkg)
  BY <1>3, <1>4 DEF DependsOn
<1>6. ASSUME Linked, NEW k \in 1..(Len(stack') - 1)
      PROVE  DependsOn(stack'[k].pkg, stack'[k + 1].pkg)
  <2>1. k \in 1..n /\ (k = n \/ (k \in 1..(n - 1) /\ k + 1 \in 1..n))
    BY <1>3
  <2>2. CASE k = n
    BY <1>3, <1>5, <2>2
  <2>3. CASE k \in 1..(n - 1) /\ k + 1 \in 1..n
    BY <1>2, <1>3, <1>6, <2>1, <2>3 DEF Linked
  <2> QED
    BY <2>1, <2>2, <2>3
<1>7. \A i, j : DependsOn(i, j)' <=> DependsOn(i, j)
  BY <1>1, ForcedSame
<1>8. Linked => Linked'
  BY <1>6, <1>7 DEF Linked
<1> QED
  BY <1>2, <1>5, <1>8

\* Every call is for a package its caller depends on.
LEMMA LinkedStep ==
  ASSUME WalkInv, Linked, [Next]_vars
  PROVE  Linked'
<1>0. Types /\ Stages
  BY DEF WalkInv
<1>1. CASE ChooseWorld \/ WorldChosen \/ Fail \/ (UNCHANGED vars)
           \/ RootDone \/ \E n \in Names : VisitInstallIf(n)
  <2>1. UNCHANGED <<choice, stack>>
    BY <1>1 DEF ChooseWorld, WorldChosen, Fail, vars, RootDone, VisitInstallIf
  <2> QED
    BY <2>1, ForcedSame DEF Linked
<1>2. CASE StartRoot \/ Install \/ Again
  <2>1. Len(stack') \in {0, 1}
    <3>1. CASE StartRoot
      BY <1>0, <3>1, StartRootShape
    <3>2. CASE Install \/ Again
      <4>1. stack' = <<>> /\ Len(<<>>) = 0
        BY <3>2 DEF Install, Again
      <4> QED
        BY <4>1
    <3> QED
      BY <1>2, <3>1, <3>2
  <2>2. 1..(Len(stack') - 1) = {}
    <3>1. Len(stack') \in Int /\ Len(stack') <= 1
      BY <2>1
    <3> QED
      BY <3>1
  <2> QED
    BY <2>2 DEF Linked
<1>3. CASE Return
  <2>1. UNCHANGED choice
    BY <1>3 DEF Return
  <2>2. PICK n \in Nat : n = Len(stack)
    BY <1>0, StackFacts
  <2>3. /\ n >= 2 /\ Len(stack') = n - 1
        /\ \A k \in 1..(n - 1) : stack'[k].pkg = stack[k].pkg
    BY <1>0, <1>3, <2>2, ReturnShape
  <2>4. ASSUME NEW k \in 1..(Len(stack') - 1)
        PROVE  DependsOn(stack'[k].pkg, stack'[k + 1].pkg)
    <3>1. k \in 1..(n - 1) /\ k + 1 \in 1..(n - 1)
      BY <2>3
    <3> QED
      BY <2>2, <2>3, <3>1 DEF Linked
  <2>5. \A i, j : DependsOn(i, j)' <=> DependsOn(i, j)
    BY <2>1, ForcedSame
  <2> QED
    BY <2>4, <2>5 DEF Linked
<1> QED
  BY <1>1, <1>2, <1>3, DescendLinked DEF Next, Step

\* Without install-if nothing is triggered.
LEMMA NothingTriggered ==
  ASSUME Problem, NoInstallIf, NEW s \in Seq(Packages)
  PROVE  Triggering(s) = {}
<1>1. ASSUME NEW i \in ToSet(s) PROVE Triggered(pkg[i].name, pkg[i].ver) = <<>>
  <2> DEFINE t == Triggered(pkg[i].name, pkg[i].ver)
  <2>1. t \in Seq(Packages) /\ \A j \in ToSet(t) : pkg[j].installIf # {}
    BY TriggeredFacts
  <2> HIDE DEF t
  <2>2. ToSet(t) \subseteq Packages
    BY <2>1, SeqElements
  <2>3. ToSet(t) = {}
    BY <2>1, <2>2 DEF NoInstallIf
  <2>4. Len(t) \in Nat /\ DOMAIN t = 1..Len(t) /\ \A k \in DOMAIN t : t[k] \in ToSet(t)
    BY <2>1, SeqElements
  <2>5. Len(t) = 0
    <3> SUFFICES ASSUME Len(t) # 0 PROVE FALSE
      OBVIOUS
    <3>1. 1 \in 1..Len(t)
      BY <2>4
    <3>2. t[1] \in ToSet(t)
      BY <2>4, <3>1
    <3> QED
      BY <2>3, <3>2
  <2>6. t = <<>>
    BY <2>1, <2>5
  <2> QED
    BY <2>6 DEF t
<1> QED
  BY <1>1 DEF Triggering

\* Without install-if the root adds its dependencies.
LEMMA FoundStep ==
  ASSUME WalkInv, FoundAll, [Next]_vars
  PROVE  FoundAll'
<1>0. Types /\ Stages /\ Problem
  BY DEF WalkInv, Types
<1>1. CASE RootDone
  <2>1. /\ UNCHANGED <<choice, stack>>
        /\ found' = AddNew(<<>>, stack[1].deps) /\ found' \in Seq(Packages)
        /\ pending' = Triggering(found')
    <3>1. UNCHANGED <<choice, stack>> /\ pending' = Triggering(found')
      BY <1>1 DEF RootDone
    <3> QED
      BY <1>0, <1>1, <3>1, RootDoneShape
  <2>2. NoInstallIf => pending' = {}
    BY <1>0, <2>1, NothingTriggered
  <2>3. NoInstallIf' <=> NoInstallIf
    <3>1. UNCHANGED choice
      BY <2>1
    <3> QED
      BY <3>1, ForcedSame
  <2>4. AddNew(<<>>, stack[1].deps)' = AddNew(<<>>, stack[1].deps)
    BY <2>1 DEF AddNew, NamesIn, choice, problem
  <2> QED
    BY <2>1, <2>2, <2>3, <2>4 DEF FoundAll
<1>2. CASE \E n \in Names : VisitInstallIf(n)
  <2>1. pending # {} /\ pc = "installif" /\ UNCHANGED choice
    BY <1>2 DEF VisitInstallIf
  <2>2. ~NoInstallIf'
    BY <2>1, ForcedSame DEF FoundAll
  <2> QED
    BY <2>2 DEF FoundAll
<1>3. CASE UNCHANGED vars
  <2>1. UNCHANGED <<pkg, pc, stack, found, pending>>
    BY <1>3 DEF vars, choice, problem
  <2> QED
    BY <2>1 DEF FoundAll, NoInstallIf, Packages, AddNew, NamesIn
<1>4. CASE ChooseWorld \/ WorldChosen \/ Fail \/ StartRoot \/ Descend \/ Return \/ Install \/ Again
  <2>1. pc' # "installif"
    <3>1. ChooseWorld \/ WorldChosen \/ Fail \/ StartRoot => pc' # "installif"
      BY DEF ChooseWorld, WorldChosen, Fail, StartRoot
    <3>2. Descend \/ Return => pc' # "installif"
      BY DEF Descend, Return
    <3>3. Install \/ Again => pc' # "installif"
      BY DEF Install, Again, Start
    <3> QED
      BY <1>4, <3>1, <3>2, <3>3
  <2> QED
    BY <2>1 DEF FoundAll
<1> QED
  BY <1>1, <1>2, <1>3, <1>4 DEF Next, Step

Forced == NothingToTakeBack /\ SelectedKnown /\ Complete /\ Ordering

\* Steps that touch neither the calls nor the answer.
LEMMA QuietForced ==
  ASSUME Forced, UNCHANGED <<choice, stack, toInstall, selected>>,
         pc = "installif" \/ pc' # "installif"
  PROVE  Forced'
<1>1. /\ pkg' = pkg /\ Packages' = Packages
      /\ \A i, c : Fulfils(i, c)' <=> Fulfils(i, c)
  BY MeaningSame
<1>2. /\ \A i : Wanted(i)' = Wanted(i)
      /\ \A i : Circular(i)' <=> Circular(i)
      /\ NothingToTakeBack'
  BY ForcedSame DEF Forced
<1>3. /\ \A s : NamesIn(s)' = NamesIn(s)
      /\ \A s : Distinct(s)' <=> Distinct(s)
      /\ \A c, N : MetIn(c, N)' <=> MetIn(c, N)
      /\ \A s, N : InTurn(s, N)' <=> InTurn(s, N)
  BY OrderSame
<1>4. \A n : Done(n)' = Done(n)
  BY <1>3 DEF Done
<1>5. \A k : NameOf(k)' = NameOf(k)
  BY <1>1 DEF NameOf
<1>6. Got' = Got
  BY <1>4, <1>5 DEF Got
<1>7. SelectedKnown'
  BY <1>1, <1>4 DEF Forced, SelectedKnown, ProvidedNames
<1>8. Complete'
  BY <1>1, <1>2, <1>3, <1>6 DEF Forced, Complete, Same
<1>9. Ordering'
  BY <1>1, <1>2, <1>3, <1>4 DEF Forced, Ordering
<1> QED
  BY <1>2, <1>7, <1>8, <1>9 DEF Forced

\* Descend: what is asked for in the new call is in its list, or it is in a
\* circle.
LEMMA DescendForced ==
  ASSUME WalkInv, Linked, Forced, Descend
  PROVE  Forced'
<1> DEFINE f == Callee(Lowest)
<1>1. Types /\ Stages /\ Path /\ Problem /\ pc = "deps" /\ UNCHANGED <<choice, toInstall, pc>> /\ selected' = Pick(Top.pkg)
  BY DEF WalkInv, Types, Descend
<1>2. NothingToTakeBack /\ SelectedKnown /\ Complete /\ Ordering
  BY DEF Forced
<1>3. PICK n \in Nat : n = Len(stack)
  BY <1>1, StackFacts
<1>4. /\ n >= 1 /\ DOMAIN stack = 1..n /\ DOMAIN stack' = 1..(n + 1) /\ Len(stack') = n + 1
      /\ f.pkg \in Packages
      /\ \A k \in 1..n : NameOf(k)' = NameOf(k)
      /\ NameOf(n + 1)' = pkg[f.pkg].name
      /\ \A k \in 0..n : Done(k)' = Done(k)
      /\ Done(n + 1)' = Done(n)
      /\ Got' = Got \cup {pkg[f.pkg].name}
  BY <1>3, DescendDone
<1>5. /\ Top = stack[n] /\ Lowest \in Open /\ Fulfils(f.pkg, Lowest)
      /\ f.parents = Top.parents \cup {pkg[Top.pkg].name} /\ f.deps = <<>>
      /\ f.todo = IF pkg[f.pkg].name \in f.parents THEN {} ELSE pkg[f.pkg].deps
      /\ \A k \in 1..n : stack'[k].pkg = stack[k].pkg /\ stack'[k].deps = stack[k].deps
      /\ \A k \in 1..(n - 1) : stack'[k].todo = stack[k].todo
      /\ stack'[n].todo = Open \ {Lowest}
      /\ stack'[n + 1] = f
  BY <1>1, <1>3, DescendShape
<1>6. /\ pkg' = pkg /\ Packages' = Packages
      /\ \A i, c : Fulfils(i, c)' <=> Fulfils(i, c)
  BY <1>1, MeaningSame
<1>7. /\ \A i : Wanted(i)' = Wanted(i)
      /\ \A i : Circular(i)' <=> Circular(i)
      /\ NothingToTakeBack'
  BY <1>1, <1>2, ForcedSame
<1>8. /\ \A s : Distinct(s)' <=> Distinct(s)
      /\ \A c, N : MetIn(c, N)' <=> MetIn(c, N)
      /\ \A s, N : InTurn(s, N)' <=> InTurn(s, N)
  BY <1>1, OrderSame
<1>9. n \in DOMAIN stack /\ n \in 1..n /\ n \in 1..(n + 1) /\ n + 1 \in 1..(n + 1) /\ Top.pkg \in Packages
      /\ n \in 0..n /\ DependsOn(stack[n].pkg, f.pkg)
  BY <1>1, <1>3, <1>4, <1>5, StackFacts, DescendLinked
<1>10. f.parents = {NameOf(l) : l \in 1..n}
  <2>1. Top.parents = {NameOf(l) : l \in 1..(n - 1)}
    BY <1>1, <1>5, <1>9 DEF Path
  <2>2. 1..n = 1..(n - 1) \cup {n}
    BY <1>4
  <2> QED
    BY <1>5, <2>1, <2>2 DEF NameOf
<1> HIDE DEF f
<1>11. SelectedKnown'
  <2>1. ASSUME NEW m \in Names, selected'[m] # None
        PROVE  /\ m \in {pkg[selected'[m]].name} \cup ProvidedNames(selected'[m])
               /\ \/ pkg[selected'[m]].name \in Done(n)
                  \/ \E k \in 1..(n + 1) : stack'[k].pkg = selected'[m]
    <3>1. selected'[m] = IF m = pkg[Top.pkg].name \/ \E pr \in pkg[Top.pkg].provides : pr.name = m /\ pr.ver # 0
                         THEN Top.pkg ELSE selected[m]
      BY <1>1 DEF Pick
    <3>2. CASE selected'[m] = Top.pkg /\ (m = pkg[Top.pkg].name \/ \E pr \in pkg[Top.pkg].provides : pr.name = m)
      <4>1. m \in {pkg[Top.pkg].name} \cup ProvidedNames(Top.pkg)
        BY <3>2 DEF ProvidedNames
      <4>2. stack'[n].pkg = Top.pkg
        BY <1>5, <1>9
      <4> QED
        BY <1>9, <3>2, <4>1, <4>2
    <3>3. CASE selected'[m] = selected[m]
      <4>1. /\ m \in {pkg[selected[m]].name} \cup ProvidedNames(selected[m])
            /\ \/ pkg[selected[m]].name \in Done(n)
               \/ \E k \in 1..n : stack[k].pkg = selected[m]
        BY <1>2, <1>3, <1>4, <2>1, <3>3 DEF SelectedKnown
      <4>2. \A k \in 1..n : k \in 1..(n + 1)
        BY <1>4
      <4> QED
        BY <1>5, <3>3, <4>1, <4>2
    <3> QED
      BY <3>1, <3>2, <3>3
  <2> QED
    BY <1>4, <1>6, <2>1 DEF SelectedKnown, ProvidedNames
<1>12. Complete'
  <2>1. ASSUME NEW i \in Packages, NEW c \in Wanted(i), pkg[i].name \in Got
        PROVE  \/ MetIn(c, Got \cup {pkg[f.pkg].name})
               \/ \E k \in 1..(n + 1) : c \in stack'[k].todo /\ Same(stack'[k].pkg, i)
    <3>1. CASE MetIn(c, Got)
      BY <3>1, MetMore
    <3>2. CASE \E k \in 1..n : c \in stack[k].todo /\ Same(stack[k].pkg, i)
      <4>1. PICK k \in 1..n : c \in stack[k].todo /\ Same(stack[k].pkg, i)
        BY <3>2
      <4>2. CASE k = n /\ c \in Open
        <5>1. CASE c = Lowest
          BY <1>4, <1>5, <5>1 DEF MetIn
        <5>2. CASE c # Lowest
          BY <1>5, <1>9, <4>1, <4>2, <5>2
        <5> QED
          BY <5>1, <5>2
      <4>3. CASE k = n /\ c \notin Open
        <5>1. MetIn(c, Got)
          BY <1>1, <1>2, <1>5, <4>1, <4>3, ClosedMet
        <5> QED
          BY <5>1, MetMore
      <4>4. CASE k # n
        <5>1. k \in 1..(n - 1) /\ k \in 1..(n + 1)
          BY <4>4
        <5> QED
          BY <1>5, <4>1, <5>1
      <4> QED
        BY <4>2, <4>3, <4>4
    <3> QED
      BY <1>2, <1>4, <2>1, <3>1, <3>2 DEF Complete
  <2>2. ASSUME NEW i \in Packages, NEW c \in Wanted(i), pkg[i].name = pkg[f.pkg].name, pkg[i].name \notin Got
        PROVE  \E k \in 1..(n + 1) : c \in stack'[k].todo /\ Same(stack'[k].pkg, i)
    <3>1. pkg[f.pkg].name \notin f.parents
      BY <1>4, <1>10, <2>2 DEF Got
    <3>2. Wanted(i) = Wanted(f.pkg)
      BY <1>2, <1>4, <2>2, ForcedFacts DEF Same
    <3>3. c \in f.todo
      BY <1>5, <3>1, <3>2 DEF Wanted
    <3> QED
      BY <1>5, <1>9, <2>2, <3>3 DEF Same
  <2>3. ASSUME NEW i \in Packages, NEW c \in Wanted(i), pkg[i].name \in Got'
        PROVE  \/ MetIn(c, Got')
               \/ \E k \in 1..(n + 1) : c \in stack'[k].todo /\ Same(stack'[k].pkg, i)
    BY <1>4, <2>1, <2>2, <2>3
  <2>4. \A i, j : Same(i, j)' <=> Same(i, j)
    BY <1>6 DEF Same
  <2> QED
    BY <1>1, <1>4, <1>6, <1>7, <1>8, <2>3, <2>4 DEF Complete
<1>13. Ordering'
  <2>1. /\ Distinct(toInstall) /\ InTurn(toInstall, {})
        /\ \A k \in 1..n : InTurn(stack[k].deps, Done(k - 1))
        /\ \A k \in 1..n : Circular(stack[k].pkg) \/ \A c \in Wanted(stack[k].pkg) :
             \/ c \in stack[k].todo
             \/ MetIn(c, Done(k))
             \/ k < n /\ Fulfils(stack[k + 1].pkg, c)
    BY <1>2, <1>3, <1>4 DEF Ordering
  <2>2. ASSUME NEW k \in 1..(n + 1) PROVE InTurn(stack'[k].deps, Done(k - 1)')
    <3>1. CASE k \in 1..n
      <4>1. k - 1 \in 0..n
        BY <3>1
      <4> QED
        BY <1>4, <1>5, <2>1, <3>1, <4>1
    <3>2. CASE k = n + 1
      <4>1. stack'[k].deps = <<>>
        BY <1>5, <3>2
      <4>2. DOMAIN <<>> = {}
        OBVIOUS
      <4> QED
        BY <4>1, <4>2 DEF InTurn
    <3> QED
      BY <3>1, <3>2
  <2>3. ASSUME NEW k \in 1..(n - 1), NEW c \in Wanted(stack[k].pkg), ~Circular(stack[k].pkg)
        PROVE  \/ c \in stack'[k].todo
               \/ MetIn(c, Done(k)')
               \/ k < n + 1 /\ Fulfils(stack'[k + 1].pkg, c)
    <3>1. k \in 1..n /\ k + 1 \in 1..n /\ k < n /\ k < n + 1 /\ k \in 0..n
      BY <1>4
    <3> QED
      BY <1>4, <1>5, <2>1, <2>3, <3>1
  <2>4. ASSUME NEW c \in Wanted(stack[n].pkg), ~Circular(stack[n].pkg)
        PROVE  \/ c \in stack'[n].todo
               \/ MetIn(c, Done(n)')
               \/ Fulfils(stack'[n + 1].pkg, c)
    <3>1. c \in stack[n].todo \/ MetIn(c, Done(n))
      BY <1>9, <2>1, <2>4
    <3>2. CASE MetIn(c, Done(n))
      BY <1>4, <1>9, <3>2
    <3>3. CASE c \in stack[n].todo /\ c \in Open
      BY <1>5, <3>3
    <3>4. CASE c \in stack[n].todo /\ c \notin Open
      <4>1. MetIn(c, Done(n))
        BY <1>1, <1>2, <1>3, <1>5, <2>4, <3>4, ClosedMet
      <4> QED
        BY <1>4, <1>9, <4>1
    <3> QED
      BY <3>1, <3>2, <3>3, <3>4
  <2>5. ASSUME NEW c \in Wanted(f.pkg), ~Circular(f.pkg)
        PROVE  c \in f.todo
    <3>1. pkg[f.pkg].name \notin f.parents
      <4> SUFFICES ASSUME pkg[f.pkg].name \in f.parents PROVE FALSE
        OBVIOUS
      <4>1. PICK l \in 1..n : pkg[f.pkg].name = NameOf(l)
        BY <1>10
      <4>2. stack[l].pkg \in Packages
        BY <1>1, <1>4, StackFacts
      <4>3. Wanted(f.pkg) = Wanted(stack[l].pkg)
        BY <1>2, <1>4, <4>1, <4>2, ForcedFacts DEF Same, NameOf
      <4>4. Circular(f.pkg)
        BY <1>1, <1>3, <1>4, <1>9, <4>3, CircleCallee
      <4> QED
        BY <2>5, <4>4
    <3> QED
      BY <1>5, <3>1 DEF Wanted
  <2>6. ASSUME NEW k \in 1..(n + 1), NEW c \in Wanted(stack'[k].pkg), ~Circular(stack'[k].pkg)
        PROVE  \/ c \in stack'[k].todo
               \/ MetIn(c, Done(k)')
               \/ k < n + 1 /\ Fulfils(stack'[k + 1].pkg, c)
    <3>1. k \in 1..(n - 1) \/ k = n \/ k = n + 1
      BY <1>4
    <3>2. CASE k \in 1..(n - 1)
      <4>1. stack'[k].pkg = stack[k].pkg
        BY <1>5, <3>2
      <4> QED
        BY <2>3, <2>6, <3>2, <4>1
    <3>3. CASE k = n
      <4>1. stack'[k].pkg = stack[n].pkg /\ k < n + 1
        BY <1>5, <1>9, <3>3
      <4> QED
        BY <2>4, <2>6, <3>3, <4>1
    <3>4. CASE k = n + 1
      BY <1>5, <2>5, <2>6, <3>4
    <3> QED
      BY <3>1, <3>2, <3>3, <3>4
  <2> QED
    BY <1>1, <1>4, <1>6, <1>7, <1>8, <2>1, <2>2, <2>6 DEF Ordering
<1> QED
  BY <1>7, <1>11, <1>12, <1>13 DEF Forced

\* Return: with nothing open all that the package wants is there and before it.
LEMMA ReturnForced ==
  ASSUME WalkInv, Linked, Forced, Return
  PROVE  Forced'
<1>1. /\ Types /\ Stages /\ Path /\ Problem /\ pc = "deps" /\ UNCHANGED <<choice, toInstall, pc, selected>>
      /\ Open = {}
  BY DEF WalkInv, Types, Return
<1>2. NothingToTakeBack /\ SelectedKnown /\ Complete /\ Ordering
  BY DEF Forced
<1>3. PICK n \in Nat : n = Len(stack)
  BY <1>1, StackFacts
<1>4. /\ n >= 2 /\ DOMAIN stack = 1..n /\ DOMAIN stack' = 1..(n - 1) /\ Len(stack') = n - 1
      /\ \A k \in 1..(n - 1) : NameOf(k)' = NameOf(k)
      /\ \A k \in 0..(n - 2) : Done(k)' = Done(k)
      /\ Done(n - 1)' = Done(n) \cup {NameOf(n)}
      /\ Got' = Got
  BY <1>3, ReturnDone
<1>5. /\ Top = stack[n]
      /\ \A k \in 1..(n - 1) : stack'[k].pkg = stack[k].pkg /\ stack'[k].todo = stack[k].todo
      /\ \A k \in 1..(n - 2) : stack'[k].deps = stack[k].deps
      /\ stack'[n - 1].deps = stack[n - 1].deps \o (stack[n].deps \o <<stack[n].pkg>>)
  BY <1>1, <1>3, ReturnShape
<1>6. /\ pkg' = pkg /\ Packages' = Packages
      /\ \A i, c : Fulfils(i, c)' <=> Fulfils(i, c)
  BY <1>1, MeaningSame
<1>7. /\ \A i : Wanted(i)' = Wanted(i)
      /\ \A i : Circular(i)' <=> Circular(i)
      /\ NothingToTakeBack'
  BY <1>1, <1>2, ForcedSame
<1>8. /\ \A s : Distinct(s)' <=> Distinct(s)
      /\ \A c, N : MetIn(c, N)' <=> MetIn(c, N)
      /\ \A s, N : InTurn(s, N)' <=> InTurn(s, N)
  BY <1>1, OrderSame
<1>9. /\ n \in DOMAIN stack /\ n - 1 \in DOMAIN stack /\ n \in 1..n /\ n - 1 \in 1..n /\ n - 1 \in 1..(n - 1)
      /\ n - 2 \in 0..(n - 2) /\ \A k \in 1..(n - 1) : k \in 1..n
  BY <1>3, <1>4
<1>10. /\ stack[n].pkg \in Packages /\ stack[n].deps \in Seq(Packages)
       /\ stack[n - 1].deps \in Seq(Packages)
  BY <1>1, <1>9, StackFacts
<1>11. SelectedKnown'
  <2>1. ASSUME NEW m \in Names, selected[m] # None
        PROVE  /\ m \in {pkg[selected[m]].name} \cup ProvidedNames(selected[m])
               /\ \/ pkg[selected[m]].name \in Done(n - 1)'
                  \/ \E k \in 1..(n - 1) : stack'[k].pkg = selected[m]
    <3>1. /\ m \in {pkg[selected[m]].name} \cup ProvidedNames(selected[m])
          /\ \/ pkg[selected[m]].name \in Done(n)
             \/ \E k \in 1..n : stack[k].pkg = selected[m]
      BY <1>2, <1>3, <1>4, <2>1 DEF SelectedKnown
    <3>2. ASSUME NEW k \in 1..n, stack[k].pkg = selected[m]
          PROVE  \/ pkg[selected[m]].name \in Done(n - 1)'
                 \/ \E l \in 1..(n - 1) : stack'[l].pkg = selected[m]
      <4>1. CASE k = n
        BY <1>4, <3>2, <4>1 DEF NameOf
      <4>2. CASE k # n
        <5>1. k \in 1..(n - 1)
          BY <4>2
        <5> QED
          BY <1>5, <3>2, <5>1
      <4> QED
        BY <4>1, <4>2
    <3> QED
      BY <1>4, <3>1, <3>2
  <2> QED
    BY <1>1, <1>4, <1>6, <2>1 DEF SelectedKnown, ProvidedNames
<1>12. Complete'
  <2>1. ASSUME NEW i \in Packages, NEW c \in Wanted(i), pkg[i].name \in Got
        PROVE  \/ MetIn(c, Got)
               \/ \E k \in 1..(n - 1) : c \in stack'[k].todo /\ Same(stack'[k].pkg, i)
    <3>1. \/ MetIn(c, Got)
          \/ \E k \in 1..n : c \in stack[k].todo /\ Same(stack[k].pkg, i)
      BY <1>2, <1>4, <2>1 DEF Complete
    <3>2. ASSUME NEW k \in 1..n, c \in stack[k].todo, Same(stack[k].pkg, i)
          PROVE  \/ MetIn(c, Got)
                 \/ \E l \in 1..(n - 1) : c \in stack'[l].todo /\ Same(stack'[l].pkg, i)
      <4>1. CASE k = n
        BY <1>1, <1>2, <1>5, <3>2, <4>1, ClosedMet
      <4>2. CASE k # n
        <5>1. k \in 1..(n - 1)
          BY <4>2
        <5> QED
          BY <1>5, <3>2, <5>1
      <4> QED
        BY <4>1, <4>2
    <3> QED
      BY <3>1, <3>2
  <2>4. \A i, j : Same(i, j)' <=> Same(i, j)
    BY <1>6 DEF Same
  <2> QED
    BY <1>1, <1>4, <1>6, <1>7, <1>8, <2>1, <2>4 DEF Complete
<1>13. Ordering'
  <2>1. /\ Distinct(toInstall) /\ InTurn(toInstall, {})
        /\ \A k \in 1..n : InTurn(stack[k].deps, Done(k - 1))
        /\ \A k \in 1..n : Circular(stack[k].pkg) \/ \A c \in Wanted(stack[k].pkg) :
             \/ c \in stack[k].todo
             \/ MetIn(c, Done(k))
             \/ k < n /\ Fulfils(stack[k + 1].pkg, c)
    BY <1>1, <1>2, <1>3, <1>4 DEF Ordering
  <2>2. Circular(stack[n].pkg) \/ \A c \in Wanted(stack[n].pkg) : MetIn(c, Done(n))
    <3> SUFFICES ASSUME NEW c \in Wanted(stack[n].pkg), ~Circular(stack[n].pkg)
                 PROVE  MetIn(c, Done(n))
      OBVIOUS
    <3>1. c \in stack[n].todo \/ MetIn(c, Done(n))
      BY <1>9, <2>1
    <3>2. CASE c \in stack[n].todo
      BY <1>1, <1>2, <1>3, <1>5, <3>2, ClosedMet
    <3> QED
      BY <3>1, <3>2
  <2>3. InTurn(stack'[n - 1].deps, Done(n - 2))
    <3> DEFINE d == stack[n - 1].deps
               e == stack[n].deps
               p == <<stack[n].pkg>>
               ep == e \o p
    <3>1. Done(n - 1) = Done(n - 2) \cup NamesIn(d)
      <4>1. 1..(n - 1) = 1..(n - 2) \cup {n - 1}
        BY <1>4
      <4> QED
        BY <4>1 DEF Done
    <3>2. Done(n) = Done(n - 1) \cup NamesIn(e)
      <4>1. 1..n = 1..(n - 1) \cup {n}
        BY <1>4
      <4> QED
        BY <4>1 DEF Done
    <3>3. InTurn(d, Done(n - 2))
      <4>1. (n - 1) - 1 = n - 2
        OBVIOUS
      <4> QED
        BY <1>9, <2>1, <4>1
    <3>4. InTurn(e, Done(n - 1))
      BY <1>9, <2>1
    <3>5. InTurn(p, Done(n - 1) \cup NamesIn(e))
      BY <1>10, <2>2, <3>2, InTurnOne
    <3>6. p \in Seq(Packages) /\ d \in Seq(Packages) /\ e \in Seq(Packages)
      BY <1>10
    <3>7. stack'[n - 1].deps = d \o ep
      BY <1>5
    <3> HIDE DEF d, e, p
    <3>8. ep \in Seq(Packages)
      BY <3>6
    <3>9. InTurn(ep, Done(n - 1))
      BY <3>4, <3>5, <3>6, InTurnConcat
    <3> HIDE DEF ep
    <3>10. InTurn(ep, Done(n - 2) \cup NamesIn(d))
      BY <3>1, <3>9
    <3>11. InTurn(d \o ep, Done(n - 2))
      BY <3>3, <3>6, <3>8, <3>10, InTurnConcat
    <3> QED
      BY <3>7, <3>11
  <2>4. ASSUME NEW k \in 1..(n - 1) PROVE InTurn(stack'[k].deps, Done(k - 1)')
    <3>1. CASE k = n - 1
      <4>1. k - 1 = n - 2
        BY <3>1
      <4>2. Done(k - 1)' = Done(n - 2)
        BY <1>4, <1>9, <4>1
      <4> QED
        BY <2>3, <3>1, <4>2
    <3>2. CASE k # n - 1
      <4>1. k \in 1..(n - 2) /\ k - 1 \in 0..(n - 2) /\ k \in 1..n
        BY <3>2
      <4> QED
        BY <1>4, <1>5, <2>1, <4>1
    <3> QED
      BY <3>1, <3>2
  <2>5. ASSUME NEW k \in 1..(n - 1), NEW c \in Wanted(stack'[k].pkg), ~Circular(stack'[k].pkg)
        PROVE  \/ c \in stack'[k].todo
               \/ MetIn(c, Done(k)')
               \/ k < n - 1 /\ Fulfils(stack'[k + 1].pkg, c)
    <3>1. /\ stack'[k].pkg = stack[k].pkg /\ stack'[k].todo = stack[k].todo /\ k \in 1..n
          /\ c \in Wanted(stack[k].pkg) /\ ~Circular(stack[k].pkg)
      BY <1>5, <1>9, <2>5
    <3>2. c \in stack[k].todo \/ MetIn(c, Done(k)) \/ (k < n /\ Fulfils(stack[k + 1].pkg, c))
      BY <2>1, <3>1
    <3>3. CASE k = n - 1
      <4>1. Done(k) \subseteq Done(n - 1)' /\ NameOf(n) \in Done(n - 1)'
        <5>1. Done(n - 1) \subseteq Done(n)
          BY <1>4, DoneMore
        <5> QED
          BY <1>4, <3>3, <5>1
      <4>2. MetIn(c, Done(k)) => MetIn(c, Done(k)')
        BY <3>3, <4>1, MetMore
      <4>3. Fulfils(stack[k + 1].pkg, c) => MetIn(c, Done(k)')
        <5>1. k + 1 = n
          BY <3>3
        <5> QED
          BY <1>10, <3>3, <4>1, <5>1 DEF MetIn, NameOf
      <4> QED
        BY <3>1, <3>2, <4>2, <4>3
    <3>4. CASE k # n - 1
      <4>1. k \in 0..(n - 2) /\ k + 1 \in 1..(n - 1) /\ k < n - 1
        BY <3>4
      <4> QED
        BY <1>4, <1>5, <3>1, <3>2, <4>1
    <3> QED
      BY <3>3, <3>4
  <2> QED
    BY <1>1, <1>4, <1>6, <1>7, <1>8, <2>1, <2>4, <2>5 DEF Ordering
<1> QED
  BY <1>7, <1>11, <1>12, <1>13 DEF Forced

\* RootDone: the same of the root.
LEMMA RootDoneForced ==
  ASSUME WalkInv, Linked, Forced, RootDone
  PROVE  Forced'
<1>1. /\ Types /\ Stages /\ pc = "deps" /\ UNCHANGED <<choice, toInstall, selected, stack>>
      /\ Open = {} /\ Len(stack) = 1 /\ pc' = "installif"
  BY DEF WalkInv, RootDone
<1>2. NothingToTakeBack /\ SelectedKnown /\ Complete /\ Ordering
  BY DEF Forced
<1>3. /\ DOMAIN stack = {1} /\ Top = stack[1]
  BY <1>1, OneDone DEF Top
<1>4. /\ pkg' = pkg /\ Packages' = Packages
      /\ \A i, c : Fulfils(i, c)' <=> Fulfils(i, c)
  BY <1>1, MeaningSame
<1>5. /\ \A i : Wanted(i)' = Wanted(i)
      /\ \A i : Circular(i)' <=> Circular(i)
      /\ NothingToTakeBack'
  BY <1>1, <1>2, ForcedSame
<1>6. /\ \A s : NamesIn(s)' = NamesIn(s)
      /\ \A s : Distinct(s)' <=> Distinct(s)
      /\ \A c, N : MetIn(c, N)' <=> MetIn(c, N)
      /\ \A s, N : InTurn(s, N)' <=> InTurn(s, N)
  BY <1>1, OrderSame
<1>7. /\ \A n : Done(n)' = Done(n)
      /\ \A k : NameOf(k)' = NameOf(k)
  BY <1>1, <1>4, <1>6 DEF Done, NameOf
<1>8. Got' = Got
  BY <1>1, <1>7 DEF Got
<1>9. SelectedKnown'
  BY <1>1, <1>2, <1>4, <1>7 DEF SelectedKnown, ProvidedNames
<1>10. Complete'
  <2>1. ASSUME NEW i \in Packages, NEW c \in Wanted(i), pkg[i].name \in Got
        PROVE  MetIn(c, Got)
    <3>1. MetIn(c, Got) \/ c \in stack[1].todo
      BY <1>2, <1>3, <2>1 DEF Complete
    <3> QED
      BY <1>1, <1>2, <1>3, <3>1, ClosedMet
  <2> QED
    BY <1>4, <1>5, <1>6, <1>8, <2>1 DEF Complete
<1>11. Ordering'
  <2>1. /\ Distinct(toInstall) /\ InTurn(toInstall, {})
        /\ \A k \in DOMAIN stack : InTurn(stack[k].deps, Done(k - 1))
    BY <1>2 DEF Ordering
  <2>2. Circular(stack[1].pkg) \/ \A c \in Wanted(stack[1].pkg) : MetIn(c, Done(1))
    <3> SUFFICES ASSUME NEW c \in Wanted(stack[1].pkg), ~Circular(stack[1].pkg)
                 PROVE  MetIn(c, Done(1))
      OBVIOUS
    <3>1. c \in stack[1].todo \/ MetIn(c, Done(1))
      <4>1. ~(1 < Len(stack)) /\ 1 \in DOMAIN stack
        BY <1>1, <1>3
      <4> QED
        BY <1>2, <4>1 DEF Ordering
    <3>2. CASE c \in stack[1].todo
      BY <1>1, <1>2, <1>3, <3>2, ClosedMet
    <3> QED
      BY <3>1, <3>2
  <2>3. \A k \in DOMAIN stack : Circular(stack[k].pkg) \/ \A c \in Wanted(stack[k].pkg) : MetIn(c, Done(k))
    BY <1>3, <2>2
  <2> QED
    BY <1>1, <1>4, <1>5, <1>6, <1>7, <2>1, <2>3 DEF Ordering
<1> QED
  BY <1>5, <1>9, <1>10, <1>11 DEF Forced

\* Install: the order of what was found is the order of the answer.
LEMMA InstallForced ==
  ASSUME WalkInv, FoundAll, Forced, Install
  PROVE  Forced'
<1>1. /\ Types /\ Stages /\ Problem /\ pc = "installif" /\ UNCHANGED <<choice, selected>>
      /\ stack' = <<>> /\ Len(stack) = 1
  BY DEF WalkInv, Types, Install, Stages
<1>2. NothingToTakeBack /\ SelectedKnown /\ Complete /\ Ordering /\ NoInstallIf
  BY DEF Forced, NothingToTakeBack
<1> DEFINE p == stack[1].pkg
           d == stack[1].deps
           e == <<>>
           q == <<p>>
           all == found \o q
<1>3. DOMAIN stack = {1} /\ p \in Packages /\ d \in Seq(Packages) /\ toInstall \in Seq(Packages) /\ found \in Seq(Packages)
  BY <1>1, OneDone, StackFacts DEF Types
<1>4. found = AddNew(e, d)
  BY <1>1, <1>2 DEF FoundAll
<1>5. toInstall' = AddNew(toInstall, all)
  <2>1. toInstall' = AddNew(toInstall, Append(found, p))
    BY <1>1, InstallShape
  <2>2. Append(found, p) = all
    <3> HIDE DEF p
    <3>1. found \in Seq(Packages) /\ p \in Packages
      BY <1>3
    <3> QED
      BY <3>1
  <2> QED
    BY <2>1, <2>2
<1>6. e \in Seq(Packages) /\ q \in Seq(Packages) /\ NamesIn(e) = {} /\ NamesIn(q) = {NameOf(1)} /\ \A N : InTurn(e, N)
  <2>1. ToSet(e) = {} /\ ToSet(q) = {p} /\ DOMAIN e = {}
    BY DEF ToSet
  <2>2. e \in Seq(Packages) /\ q \in Seq(Packages)
    BY <1>3
  <2>3. NamesIn(e) = {} /\ NamesIn(q) = {NameOf(1)}
    BY <2>1 DEF NamesIn, NameOf
  <2>4. \A N : InTurn(e, N)
    BY <2>1 DEF InTurn
  <2> QED
    BY <2>2, <2>3, <2>4
<1>7. /\ Done(0) = NamesIn(toInstall) /\ Done(1) = NamesIn(toInstall) \cup NamesIn(d)
      /\ Got = Done(1) \cup {NameOf(1)}
  BY <1>1, OneDone
<1>8. Circular(p) \/ \A c \in Wanted(p) : MetIn(c, Done(1))
  <2>1. ~(1 < Len(stack)) /\ 1 \in DOMAIN stack
    BY <1>1, <1>3
  <2> QED
    BY <1>1, <1>2, <2>1 DEF Ordering
<1>9. InTurn(q, Done(1))
  BY <1>3, <1>8, InTurnOne
<1>10. InTurn(d, NamesIn(toInstall))
  <2>1. 1 - 1 = 0 /\ 1 \in DOMAIN stack
    BY <1>3
  <2> QED
    BY <1>2, <1>7, <2>1 DEF Ordering
<1> HIDE DEF e, q, d, p
<1>11. NamesIn(found) = NamesIn(d) /\ InTurn(found, NamesIn(toInstall))
  <2>1. NamesIn(AddNew(e, d)) = NamesIn(e) \cup NamesIn(d)
    BY <1>3, <1>6, AddNewFacts
  <2>2. InTurn(d, NamesIn(toInstall) \cup NamesIn(e))
    BY <1>6, <1>10
  <2>3. InTurn(AddNew(e, d), NamesIn(toInstall))
    BY <1>3, <1>6, <2>2, InTurnAddNew
  <2> QED
    BY <1>4, <1>6, <2>1, <2>3
<1>12. all \in Seq(Packages) /\ NamesIn(all) = NamesIn(d) \cup {NameOf(1)} /\ InTurn(all, NamesIn(toInstall))
  <2>1. all \in Seq(Packages) /\ NamesIn(all) = NamesIn(found) \cup NamesIn(q)
    BY <1>3, <1>6, NamesInFacts
  <2>2. InTurn(q, NamesIn(toInstall) \cup NamesIn(found))
    BY <1>7, <1>9, <1>11
  <2>3. InTurn(all, NamesIn(toInstall))
    BY <1>3, <1>6, <1>11, <2>2, InTurnConcat
  <2> QED
    BY <1>6, <1>11, <2>1, <2>3
<1> HIDE DEF all
<1>13. /\ NamesIn(toInstall') = Got
       /\ Distinct(toInstall') /\ InTurn(toInstall', {})
  <2>0. Distinct(toInstall) /\ InTurn(toInstall, {})
    BY <1>2 DEF Ordering
  <2>1. NamesIn(AddNew(toInstall, all)) = NamesIn(toInstall) \cup NamesIn(all)
    BY <1>3, <1>12, AddNewFacts
  <2>2. Distinct(AddNew(toInstall, all))
    BY <1>3, <1>12, <2>0, AddNewFacts
  <2>3. InTurn(AddNew(toInstall, all), {})
    <3>1. {} \cup NamesIn(toInstall) = NamesIn(toInstall)
      OBVIOUS
    <3>2. InTurn(all, {} \cup NamesIn(toInstall))
      BY <1>12, <3>1
    <3> QED
      BY <1>3, <1>12, <2>0, <3>2, InTurnAddNew
  <2> QED
    BY <1>5, <1>7, <1>12, <2>1, <2>2, <2>3
<1>14. /\ pkg' = pkg /\ Packages' = Packages
       /\ \A i, c : Fulfils(i, c)' <=> Fulfils(i, c)
  BY <1>1, MeaningSame
<1>15. /\ \A i : Wanted(i)' = Wanted(i)
       /\ \A i : Circular(i)' <=> Circular(i)
       /\ NothingToTakeBack'
  BY <1>1, <1>2, ForcedSame
<1>16. /\ \A s : NamesIn(s)' = NamesIn(s)
       /\ \A s : Distinct(s)' <=> Distinct(s)
       /\ \A c, N : MetIn(c, N)' <=> MetIn(c, N)
       /\ \A s, N : InTurn(s, N)' <=> InTurn(s, N)
  BY <1>1, OrderSame
<1>17. DOMAIN stack' = {} /\ Len(stack') = 0 /\ 1..0 = {}
  BY <1>1
<1>18. Done(0)' = Got /\ Got' = Got
  <2>1. NamesIn(toInstall)' = Got
    BY <1>13, <1>16
  <2>2. Done(0)' = NamesIn(toInstall)'
    BY <1>17 DEF Done
  <2> QED
    BY <1>17, <2>1, <2>2 DEF Got
<1>19. SelectedKnown'
  <2>1. ASSUME NEW m \in Names, selected[m] # None
        PROVE  /\ m \in {pkg[selected[m]].name} \cup ProvidedNames(selected[m])
               /\ pkg[selected[m]].name \in Got
    BY <1>1, <1>2, <2>1 DEF SelectedKnown, Got, NameOf
  <2> QED
    BY <1>1, <1>14, <1>17, <1>18, <2>1 DEF SelectedKnown, ProvidedNames
<1>20. Complete'
  BY <1>1, <1>2, <1>14, <1>15, <1>16, <1>18 DEF Complete
<1>21. Ordering'
  BY <1>13, <1>16, <1>17 DEF Ordering
<1> QED
  BY <1>15, <1>19, <1>20, <1>21 DEF Forced

\* StartRoot: all that the root wants is in its list.
LEMMA StartRootForced ==
  ASSUME WalkInv, Forced, StartRoot
  PROVE  Forced'
<1>1. /\ Types /\ Stages /\ Problem /\ pc = "roots" /\ pc' = "deps" /\ UNCHANGED <<choice, selected, toInstall>>
      /\ stack = <<>>
  BY DEF WalkInv, Types, StartRoot, Stages
<1>2. NothingToTakeBack /\ SelectedKnown /\ Complete /\ Ordering
  BY DEF Forced
<1>3. PICK i \in Packages :
        /\ stack' \in Seq(Calls) /\ Len(stack') = 1
        /\ stack'[1].pkg = i /\ stack'[1].deps = <<>> /\ stack'[1].todo = pkg[i].deps
  BY <1>1, StartRootShape
<1>4. DOMAIN stack' = {1} /\ 1..1 = {1} /\ 1..0 = {}
  BY <1>3
<1>5. /\ DOMAIN stack = {} /\ Len(stack) = 0 /\ Done(0) = NamesIn(toInstall) /\ Got = NamesIn(toInstall)
  BY <1>1, NoneDone
<1>14. /\ pkg' = pkg /\ Packages' = Packages
       /\ \A j, c : Fulfils(j, c)' <=> Fulfils(j, c)
  BY <1>1, MeaningSame
<1>15. /\ \A j : Wanted(j)' = Wanted(j)
       /\ \A j : Circular(j)' <=> Circular(j)
       /\ NothingToTakeBack'
  BY <1>1, <1>2, ForcedSame
<1>16. /\ \A s : NamesIn(s)' = NamesIn(s)
       /\ \A s : Distinct(s)' <=> Distinct(s)
       /\ \A c, N : MetIn(c, N)' <=> MetIn(c, N)
       /\ \A s, N : InTurn(s, N)' <=> InTurn(s, N)
  BY <1>1, OrderSame
<1>6. NamesIn(<<>>) = {} /\ \A N : InTurn(<<>>, N)
  BY DEF NamesIn, ToSet, InTurn
<1>7. Done(0)' = Got /\ Done(1)' = Got
  <2>1. NamesIn(toInstall)' = Got /\ NamesIn(stack[1].deps)' = {}
    BY <1>1, <1>3, <1>5, <1>6, <1>16
  <2> QED
    BY <1>4, <2>1 DEF Done
<1>8. Got' = Got \cup {pkg[i].name}
  BY <1>3, <1>4, <1>7, <1>14 DEF Got, NameOf
<1>9. SelectedKnown'
  BY <1>1, <1>2, <1>3, <1>5, <1>7, <1>14 DEF SelectedKnown, ProvidedNames
<1>10. Complete'
  <2>1. ASSUME NEW j \in Packages, NEW c \in Wanted(j), pkg[j].name \in Got'
        PROVE  MetIn(c, Got') \/ (c \in stack'[1].todo /\ Same(stack'[1].pkg, j))
    <3>1. CASE pkg[j].name \in Got
      <4>1. MetIn(c, Got)
        BY <1>2, <1>5, <3>1 DEF Complete
      <4>2. Got \subseteq Got'
        BY <1>8
      <4> QED
        BY <4>1, <4>2, MetMore
    <3>2. CASE pkg[j].name = pkg[i].name
      <4>1. Wanted(j) = Wanted(i)
        BY <1>2, <3>2, ForcedFacts DEF Same
      <4> QED
        BY <1>3, <3>2, <4>1 DEF Wanted, Same
    <3> QED
      BY <1>8, <2>1, <3>1, <3>2
  <2>2. \A j, k : Same(j, k)' <=> Same(j, k)
    BY <1>14 DEF Same
  <2> QED
    BY <1>1, <1>4, <1>14, <1>15, <1>16, <2>1, <2>2 DEF Complete
<1>11. Ordering'
  <2>1. Distinct(toInstall) /\ InTurn(toInstall, {})
    BY <1>2 DEF Ordering
  <2>2. \A c \in Wanted(i) : c \in stack'[1].todo
    BY <1>3 DEF Wanted
  <2> QED
    BY <1>1, <1>3, <1>4, <1>6, <1>15, <1>16, <2>1, <2>2 DEF Ordering
<1> QED
  BY <1>9, <1>10, <1>11, <1>15 DEF Forced

\* Nothing is there when a resolution starts.
LEMMA FreshForced ==
  Problem /\ Fresh => Linked /\ FoundAll /\ ForcedInv
<1> SUFFICES ASSUME Problem, Fresh PROVE Linked /\ FoundAll /\ ForcedInv
  OBVIOUS
<1>1. stack = <<>> /\ toInstall = <<>> /\ selected = Nobody /\ pc # "installif"
  BY DEF Fresh
<1>2. /\ DOMAIN stack = {} /\ Len(stack) = 0 /\ Got = NamesIn(toInstall) /\ NamesIn(<<>>) = {} /\ DOMAIN toInstall = {}
      /\ 1..(Len(stack) - 1) = {}
  BY <1>1, NoneDone DEF NamesIn, ToSet
<1>3. SelectedKnown
  BY <1>1 DEF SelectedKnown, Nobody
<1>4. Complete
  BY <1>1, <1>2 DEF Complete
<1>5. Ordering
  BY <1>1, <1>2 DEF Ordering, Distinct, InTurn
<1> QED
  BY <1>1, <1>2, <1>3, <1>4, <1>5 DEF Linked, FoundAll, ForcedInv

\* The same of a resolution that starts in this step.
LEMMA FreshForcedNext ==
  (Problem /\ Fresh => Linked /\ FoundAll /\ ForcedInv)'
BY FreshForced, PTL

\* Every step keeps what is there complete and in order.
LEMMA ForcedStep ==
  ASSUME WalkInv, Linked, FoundAll, ForcedInv, [Next]_vars
  PROVE  ForcedInv'
<1>1. CASE Again
  BY <1>1, AgainFresh, FreshForcedNext DEF WalkInv, Types
<1>2. CASE ~Again
  <2>1. UNCHANGED choice
    <3>1. ChooseWorld \/ WorldChosen \/ StartRoot => UNCHANGED choice
      BY DEF ChooseWorld, WorldChosen, StartRoot
    <3>2. Descend \/ Return => UNCHANGED choice
      BY DEF Descend, Return
    <3>3. RootDone \/ (\E n \in Names : VisitInstallIf(n)) \/ Install => UNCHANGED choice
      BY DEF RootDone, VisitInstallIf, Install
    <3>4. Fail \/ UNCHANGED vars => UNCHANGED choice
      BY DEF Fail, vars
    <3>5. Step \/ UNCHANGED vars
      BY <1>2 DEF Next
    <3> QED
      BY <3>1, <3>2, <3>3, <3>4, <3>5 DEF Step
  <2>2. NothingToTakeBack' <=> NothingToTakeBack
    BY <2>1, ForcedSame
  <2> SUFFICES ASSUME Forced PROVE Forced'
    BY <2>2 DEF ForcedInv, Forced
  <2>3. CASE ChooseWorld \/ WorldChosen \/ Fail \/ (UNCHANGED vars)
    <3>1. UNCHANGED <<choice, stack, toInstall, selected>> /\ (pc = "installif" \/ pc' # "installif")
      BY <2>3 DEF ChooseWorld, WorldChosen, Fail, vars
    <3> QED
      BY <3>1, QuietForced
  <2>4. CASE \E n \in Names : VisitInstallIf(n)
    <3>1. UNCHANGED <<choice, stack, toInstall, selected>> /\ pc = "installif"
      BY <2>4 DEF VisitInstallIf
    <3> QED
      BY <3>1, QuietForced
  <2>5. CASE StartRoot
    BY <2>5, StartRootForced
  <2>6. CASE Descend
    BY <2>6, DescendForced
  <2>7. CASE Return
    BY <2>7, ReturnForced
  <2>8. CASE RootDone
    BY <2>8, RootDoneForced
  <2>9. CASE Install
    BY <2>9, InstallForced
  <2> QED
    BY <1>2, <2>3, <2>4, <2>5, <2>6, <2>7, <2>8, <2>9 DEF Next, Step
<1> QED
  BY <1>1, <1>2

\* Where nothing has to be taken back, at every moment all that a package in the
\* answer or in a call wants is there or still in the list of a call, and every
\* list is in an order in which it can be installed (getPackageDependencies).
THEOREM ForcedAlways == Spec => [](Linked /\ FoundAll /\ ForcedInv)
<1>1. Init => Linked /\ FoundAll /\ ForcedInv
  BY InitFresh, FreshForced
<1>2. WalkInv /\ (Linked /\ FoundAll /\ ForcedInv) /\ [Next]_vars => (Linked /\ FoundAll /\ ForcedInv)'
  BY LinkedStep, FoundStep, ForcedStep
<1> QED
  BY <1>1, <1>2, WalkAlways, PTL DEF Spec

\* At the end no list is left, so all that is wanted is in the answer.
LEMMA ForcedSatisfied ==
  ASSUME WalkInv, Forced
  PROVE  Satisfied
<1> SUFFICES ASSUME pc = "ok", NEW i \in Installed, NEW c \in pkg[i].deps
             PROVE  ~c.neg /\ \E j \in Installed : Fulfils(j, c)
  BY DEF Satisfied
<1>1. Types /\ stack = <<>> /\ NothingToTakeBack /\ Complete
  BY DEF WalkInv, Stages, Forced
<1>2. Installed \subseteq Packages
  BY <1>1, SeqElements DEF Installed, Types
<1>3. ~c.neg
  BY <1>1, <1>2, ForcedFacts
<1>4. CASE OwnDependency(i, c)
  BY <1>1, <1>2, <1>3, <1>4, OwnMet
<1>5. CASE ~OwnDependency(i, c)
  <2>1. c \in Wanted(i)
    BY <1>3, <1>5 DEF Wanted
  <2>2. DOMAIN stack = {} /\ Got = NamesIn(toInstall)
    BY <1>1, NoneDone
  <2>3. pkg[i].name \in Got
    BY <2>2 DEF NamesIn, Installed
  <2>4. MetIn(c, Got)
    BY <1>1, <1>2, <2>1, <2>2, <2>3 DEF Complete
  <2>5. PICK j \in Packages : pkg[j].name \in NamesIn(toInstall) /\ Fulfils(j, c)
    BY <2>2, <2>4 DEF MetIn
  <2>6. PICK k \in Installed : pkg[k].name = pkg[j].name
    BY <2>5 DEF NamesIn, Installed
  <2>7. Fulfils(k, c)
    BY <1>1, <1>2, <2>5, <2>6, Exchange DEF Same
  <2> QED
    BY <1>3, <2>7
<1> QED
  BY <1>4, <1>5

\* An answer in turn has dependencies first.
LEMMA ForcedInOrder ==
  ASSUME WalkInv, Forced
  PROVE  DepsFirst
<1> SUFFICES ASSUME NEW i \in Installed, ~Circular(i), NEW c \in Wanted(i)
             PROVE  \E j \in Installed : Fulfils(j, c) /\ Position(j) < Position(i)
  BY DEF DepsFirst
<1>1. Types /\ NothingToTakeBack /\ Ordering
  BY DEF WalkInv, Forced
<1>2. toInstall \in Seq(Packages) /\ Distinct(toInstall) /\ InTurn(toInstall, {})
  BY <1>1 DEF Types, Ordering
<1>3. Len(toInstall) \in Nat /\ DOMAIN toInstall = 1..Len(toInstall) /\ Installed \subseteq Packages
  BY <1>2, SeqElements DEF Installed
<1>4. \A k \in DOMAIN toInstall : Position(toInstall[k]) = k
  <2> TAKE k \in DOMAIN toInstall
  <2>1. \A l \in DOMAIN toInstall : toInstall[l] = toInstall[k] => l = k
    BY <1>2 DEF Distinct, NameAt
  <2> QED
    BY <2>1 DEF Position
<1>5. PICK m \in DOMAIN toInstall : toInstall[m] = i
  BY DEF Installed, ToSet
<1> DEFINE Q == {NameAt(toInstall, l) : l \in 1..(m - 1)}
<1>6. MetIn(c, {} \cup Q)
  BY <1>2, <1>5 DEF InTurn
<1>7. PICK j \in Packages : pkg[j].name \in Q /\ Fulfils(j, c)
  BY <1>6 DEF MetIn
<1>8. PICK l \in 1..(m - 1) : pkg[j].name = NameAt(toInstall, l)
  BY <1>7
<1>9. l \in DOMAIN toInstall /\ l < m /\ toInstall[l] \in Installed
  BY <1>2, <1>3, <1>8, SeqElements DEF Installed
<1>10. Fulfils(toInstall[l], c)
  <2>1. c \in pkg[i].deps /\ i \in Packages /\ toInstall[l] \in Packages
    BY <1>3, <1>9 DEF Wanted
  <2> QED
    BY <1>1, <1>7, <1>8, <2>1, Exchange DEF Same, NameAt
<1>11. Position(toInstall[l]) = l /\ Position(i) = m
  BY <1>4, <1>5, <1>9
<1> QED
  BY <1>9, <1>10, <1>11

\* Where nothing has to be taken back, an answer is complete and its order one in
\* which it can be installed, for any such repository and world
\* (getPackagesWithDependencies).
THEOREM ForcedIsSatisfied == Spec => []SatisfiedIfForced
<1>1. WalkInv /\ ForcedInv => SatisfiedIfForced
  BY ForcedSatisfied, ForcedInOrder DEF SatisfiedIfForced, ForcedInv, Forced
<1> QED
  BY <1>1, WalkAlways, ForcedAlways, PTL
=============================================================================
