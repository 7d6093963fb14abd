---------------------------- MODULE LayersProofs ----------------------------
(***************************************************************************)
(* Theorems about Layers and ErofsMount: what is read of a stack of EROFS  *)
(* layers, and how such a stack is mounted.                                *)
(***************************************************************************)
EXTENDS Layers, ErofsMount, SequenceTheorems, FiniteSetTheorems, WellFoundedInduction, TLAPS

\* A set of numbers has a least one.
LEMMA LeastExists ==
  ASSUME NEW S \in SUBSET Nat, S # {}
  PROVE  \E i \in S : \A j \in S : i <= j
<1> DEFINE R == {p \in Nat \X Nat : p[1] < p[2]}
<1>1. IsWellFoundedOn(R, Nat)
  <2>1. OpToRel(<, Nat) = R
    BY DEF OpToRel
  <2> QED BY <2>1, NatLessThanWellFounded
<1>2. PICK x \in S : \A y \in S : ~(<<y, x>> \in R)
  <2> HIDE DEF R
  <2> QED BY <1>1, WFMin
<1>3. ASSUME NEW y \in S PROVE x <= y
  <2>1. <<y, x>> \in Nat \X Nat /\ <<y, x>>[1] = y /\ <<y, x>>[2] = x
    OBVIOUS
  <2>2. ~(y < x)
    BY <1>2, <2>1
  <2> QED BY <2>2
<1> QED
  BY <1>3

\* A finite set of numbers that has an element has a greatest one.
LEMMA MaxExists ==
  ASSUME NEW S \in SUBSET Nat, IsFiniteSet(S), S # {}
  PROVE  Max(S) \in S /\ \A y \in S : Max(S) >= y
<1> DEFINE Greatest(T, x) == x \in T /\ \A y \in T : x >= y
           Bad == {T \in FiniteSubsetsOf(S) : T # {} /\ ~\E x \in T : Greatest(T, x)}
<1>1. Bad = {}
  <2> SUFFICES ASSUME Bad # {} PROVE FALSE
    OBVIOUS
  <2>1. Bad \subseteq FiniteSubsetsOf(S)
    OBVIOUS
  <2>2. PICK T \in Bad : \A U \in Bad : ~(<<U, T>> \in StrictSubsetOrdering(S))
    <3> HIDE DEF Bad
    <3> QED
      BY <2>1, FS_StrictSubsetOrderingWellFounded, WFMin
  <2>3. T \in SUBSET S /\ IsFiniteSet(T) /\ T # {} /\ ~\E x \in T : Greatest(T, x)
    BY <2>2 DEF FiniteSubsetsOf
  <2>4. PICK x \in T : TRUE
    BY <2>3
  <2> DEFINE U == T \ {x}
  <2>5. U \in SUBSET S /\ U # T /\ U \subseteq T
    BY <2>3, <2>4
  <2>6. <<U, T>> \in StrictSubsetOrdering(S)
    <3>1. <<U, T>> \in (SUBSET S) \X (SUBSET S) /\ <<U, T>>[1] = U /\ <<U, T>>[2] = T
      BY <2>3, <2>5
    <3> HIDE DEF U
    <3> QED
      BY <3>1, <2>5 DEF StrictSubsetOrdering
  <2>7. IsFiniteSet(U)
    BY <2>3, FS_Subset
  <2>8. U \in FiniteSubsetsOf(S)
    BY <2>5, <2>7 DEF FiniteSubsetsOf
  <2>9. U = {} \/ \E y \in U : Greatest(U, y)
    BY <2>2, <2>6, <2>8
  <2>10. CASE U = {}
    <3>1. Greatest(T, x)
      BY <2>3, <2>4, <2>10
    <3> QED
      BY <2>3, <3>1
  <2>11. CASE \E y \in U : Greatest(U, y)
    <3>1. PICK y \in U : Greatest(U, y)
      BY <2>11
    <3>2. Greatest(T, x) \/ Greatest(T, y)
      BY <2>3, <2>4, <3>1
    <3> QED
      BY <2>3, <3>1, <3>2
  <2> QED
    BY <2>9, <2>10, <2>11
<1>2. S \in FiniteSubsetsOf(S)
  BY DEF FiniteSubsetsOf
<1>3. \E x \in S : Greatest(S, x)
  BY <1>1, <1>2
<1> QED
  BY <1>3 DEF Max

LEMMA GreatestExists ==
  ASSUME NEW n \in Nat, NEW S \in SUBSET (1..n), S # {}
  PROVE  Max(S) \in S /\ \A x \in S : x <= Max(S)
<1>1. IsFiniteSet(1..n) /\ S \in SUBSET Nat
  BY FS_Interval, 1 \in Int, n \in Int
<1>2. IsFiniteSet(S)
  BY <1>1, FS_Subset
<1>3. Max(S) \in S /\ \A y \in S : Max(S) >= y
  BY <1>1, <1>2, MaxExists
<1> QED
  BY <1>3

\* A path and the directories on the way to it.
LEMMA PrefixFacts ==
  ASSUME NEW p \in Seq(STRING), NEW k \in 0..Len(p)
  PROVE  /\ SubSeq(p, 1, k) \in Seq(STRING) /\ Len(SubSeq(p, 1, k)) = k
         /\ \A j \in 0..k : SubSeq(SubSeq(p, 1, k), 1, j) = SubSeq(p, 1, j)
         /\ k # 0 => parentOf(SubSeq(p, 1, k)) = SubSeq(p, 1, k - 1)
         /\ SubSeq(p, 1, Len(p)) = p
         /\ SubSeq(p, 1, k) = Root <=> k = 0
<1> DEFINE q == SubSeq(p, 1, k)
<1>1. q \in Seq(STRING) /\ Len(q) = k /\ \A i \in 1..k : q[i] = p[i]
  BY SubSeqProperties
<1>2. \A j \in 0..k : SubSeq(q, 1, j) = SubSeq(p, 1, j)
  <2> TAKE j \in 0..k
  <2>1. /\ SubSeq(q, 1, j) \in Seq(STRING) /\ Len(SubSeq(q, 1, j)) = j
        /\ \A i \in 1..j : SubSeq(q, 1, j)[i] = q[i]
    BY <1>1, SubSeqProperties
  <2>2. /\ SubSeq(p, 1, j) \in Seq(STRING) /\ Len(SubSeq(p, 1, j)) = j
        /\ \A i \in 1..j : SubSeq(p, 1, j)[i] = p[i]
    BY SubSeqProperties
  <2> HIDE DEF q
  <2> QED
    BY <1>1, <2>1, <2>2, SeqEqual
<1>3. SubSeq(p, 1, Len(p)) = p
  <2>1. /\ SubSeq(p, 1, Len(p)) \in Seq(STRING) /\ Len(SubSeq(p, 1, Len(p))) = Len(p)
        /\ \A i \in 1..Len(p) : SubSeq(p, 1, Len(p))[i] = p[i]
    BY SubSeqProperties
  <2> QED
    BY <2>1, SeqEqual
<1>4. q = Root <=> k = 0
  BY <1>1, EmptySeq DEF Root
<1>5. k # 0 => parentOf(q) = SubSeq(p, 1, k - 1)
  BY <1>1, <1>2 DEF parentOf
<1> QED
  BY <1>1, <1>2, <1>3, <1>4, <1>5

\* A number up to n is n or below it.
LEMMA UpTo ==
  ASSUME NEW n \in Nat
  PROVE  /\ n # 0 => n \in 1..n /\ n - 1 \in 0..n
         /\ \A k \in 0..n : k = n \/ k \in 0..n - 1
         /\ \A k \in 1..n : k = n \/ k \in 1..n - 1
OBVIOUS

-----------------------------------------------------------------------------
(***************************************************************************)
(* What is computed by going through a finite set, as the folds do it.     *)
(***************************************************************************)
\* A set of numbers with 0 and the number after each in it has them all.
LEMMA AllNumbers ==
  ASSUME NEW Q \in SUBSET Nat, 0 \in Q, \A n \in Q : n + 1 \in Q
  PROVE  Q = Nat
<1> SUFFICES ASSUME Q # Nat PROVE FALSE
  OBVIOUS
<1>1. Nat \ Q \in SUBSET Nat /\ Nat \ Q # {}
  OBVIOUS
<1>2. PICK i \in Nat \ Q : \A j \in Nat \ Q : i <= j
  BY <1>1, LeastExists
<1>3. i # 0 /\ i - 1 \in Nat
  OBVIOUS
<1>4. i - 1 \in Q
  BY <1>2, <1>3
<1> QED
  BY <1>3, <1>4

\* S is finite, c takes a member out of every subset, and G goes on from a value.
Foldable(S, V, base, c, G) ==
  /\ IsFiniteSet(S) /\ base \in V
  /\ \A s \in SUBSET S : s # {} => c[s] \in s
  /\ \A x \in S : \A v \in V : G[<<x, v>>] \in V

FoldOf(S, base, c, G, h) ==
  \A s \in SUBSET S : h[s] = IF s = {} THEN base ELSE G[<<c[s], h[s \ {c[s]}]>>]

\* A function on the subsets of a finite set can be given by what it is on each
\* subset with one member less.
LEMMA FoldExists ==
  ASSUME NEW S, NEW V, NEW base, NEW c, NEW G, Foldable(S, V, base, c, G)
  PROVE  \E h \in [SUBSET S -> V] : FoldOf(S, base, c, G, h)
<1> DEFINE Sub(n) == {s \in SUBSET S : Cardinality(s) <= n}
           Good(h, n) == \A s \in Sub(n) : h[s] = IF s = {} THEN base ELSE G[<<c[s], h[s \ {c[s]}]>>]
           Q == {n \in Nat : \E h \in [Sub(n) -> V] : Good(h, n)}
<1> USE DEF Foldable
<1>1. \A s \in SUBSET S : IsFiniteSet(s) /\ Cardinality(s) \in Nat
  BY FS_Subset, FS_CardinalityType
<1>2. ASSUME NEW n \in Nat, NEW s \in Sub(n + 1), s # {}
      PROVE  c[s] \in S /\ s \ {c[s]} \in Sub(n)
  <2>1. c[s] \in s /\ IsFiniteSet(s) /\ Cardinality(s) <= n + 1
    BY <1>1, <1>2
  <2>2. Cardinality(s \ {c[s]}) = Cardinality(s) - 1
    BY <2>1, FS_RemoveElement
  <2> QED
    BY <1>1, <2>1, <2>2
<1>3. 0 \in Q
  <2> DEFINE h == [s \in Sub(0) |-> base]
  <2>1. \A s \in Sub(0) : s = {}
    BY <1>1, FS_EmptySet
  <2>2. h \in [Sub(0) -> V] /\ Good(h, 0)
    BY <2>1
  <2>3. 0 \in Nat
    OBVIOUS
  <2> QED
    BY <2>2, <2>3, Zenon
<1>4. ASSUME NEW n \in Q PROVE n + 1 \in Q
  <2>1. PICK h \in [Sub(n) -> V] : Good(h, n)
    OBVIOUS
  <2> DEFINE k == [s \in Sub(n + 1) |-> IF s = {} THEN base ELSE G[<<c[s], h[s \ {c[s]}]>>]]
  <2>2. k \in [Sub(n + 1) -> V]
    BY <1>2
  <2>3. \A s \in Sub(n) : s \in Sub(n + 1) /\ k[s] = h[s]
    <3>1. \A s \in Sub(n) : s \in Sub(n + 1)
      BY <1>1
    <3> QED
      BY <2>1, <3>1
  <2>4. \A s \in Sub(n + 1) : s # {} => k[s \ {c[s]}] = h[s \ {c[s]}]
    BY <1>2, <2>3
  <2>5. Good(k, n + 1)
    BY <2>4
  <2> HIDE DEF k, Good, Sub
  <2> QED
    BY <2>2, <2>5
<1>5. Q = Nat
  <2> HIDE DEF Q
  <2>1. Q \in SUBSET Nat
    BY DEF Q
  <2> QED
    BY <1>3, <1>4, <2>1, AllNumbers
<1>6. Cardinality(S) \in Q /\ Sub(Cardinality(S)) = SUBSET S
  <2>1. \A s \in SUBSET S : Cardinality(s) <= Cardinality(S)
    BY FS_Subset
  <2> QED
    BY <1>1, <1>5, <2>1
<1>7. PICK h \in [SUBSET S -> V] : Good(h, Cardinality(S))
  <2>1. \E h \in [Sub(Cardinality(S)) -> V] : Good(h, Cardinality(S))
    BY <1>6
  <2> HIDE DEF Good, Sub
  <2> QED
    BY <1>6, <2>1
<1> QED
  BY <1>6, <1>7 DEF FoldOf

\* Two such functions agree if one step from where they agree does.
Agreeing(S, c, h, k) ==
  /\ IsFiniteSet(S) /\ h[{}] = k[{}]
  /\ \A s \in SUBSET S :
       s # {} => /\ c[s] \in s
                 /\ h[s \ {c[s]}] = k[s \ {c[s]}] => h[s] = k[s]

LEMMA FoldUnique ==
  ASSUME NEW S, NEW c, NEW h, NEW k, Agreeing(S, c, h, k)
  PROVE  \A s \in SUBSET S : h[s] = k[s]
<1> DEFINE Q == {n \in Nat : \A s \in SUBSET S : Cardinality(s) <= n => h[s] = k[s]}
<1>0. /\ IsFiniteSet(S) /\ h[{}] = k[{}]
      /\ \A s \in SUBSET S :
           s # {} => c[s] \in s /\ (h[s \ {c[s]}] = k[s \ {c[s]}] => h[s] = k[s])
  BY DEF Agreeing
<1>1. \A s \in SUBSET S : IsFiniteSet(s) /\ Cardinality(s) \in Nat
  BY <1>0, FS_Subset, FS_CardinalityType
<1>2. 0 \in Q
  <2>1. ASSUME NEW s \in SUBSET S, Cardinality(s) <= 0 PROVE h[s] = k[s]
    <3>1. Cardinality(s) = 0 /\ IsFiniteSet(s)
      BY <1>1, <2>1
    <3>2. s = {}
      BY <3>1, FS_EmptySet
    <3> QED
      BY <1>0, <3>2
  <2> QED
    BY <2>1
<1>3. ASSUME NEW n \in Q PROVE n + 1 \in Q
  <2> SUFFICES ASSUME NEW s \in SUBSET S, Cardinality(s) <= n + 1 PROVE h[s] = k[s]
    OBVIOUS
  <2>1. CASE s = {}
    BY <1>0, <2>1
  <2>2. CASE s # {}
    <3>1. c[s] \in s /\ IsFiniteSet(s)
      BY <1>0, <1>1, <2>2
    <3>2. Cardinality(s \ {c[s]}) = Cardinality(s) - 1
      BY <3>1, FS_RemoveElement
    <3>3. Cardinality(s \ {c[s]}) <= n /\ s \ {c[s]} \in SUBSET S
      BY <1>1, <3>2
    <3>4. h[s \ {c[s]}] = k[s \ {c[s]}]
      BY <3>3
    <3> QED
      BY <1>0, <2>2, <3>4
  <2> QED
    BY <2>1, <2>2
<1>4. Q = Nat
  <2> HIDE DEF Q
  <2>1. Q \in SUBSET Nat
    BY DEF Q
  <2> QED
    BY <1>2, <1>3, <2>1, AllNumbers
<1> QED
  BY <1>1, <1>4

\* The size of a group is a number.
LEMMA SizeIsNumber ==
  ASSUME NEW g, IsFiniteSet(g), \A p \in g : p.size \in Nat
  PROVE  size(g) \in Nat
<1> DEFINE one(s) == CHOOSE x \in s : TRUE
           Rec(h) == [s \in SUBSET g |-> IF s = {} THEN 0 ELSE h[s \ {one(s)}] + one(s).size]
           c == [s \in SUBSET g |-> one(s)]
           G == [xv \in g \X Nat |-> xv[2] + xv[1].size]
           iter == CHOOSE h : h = Rec(h)
<1>1. \A s \in SUBSET g : c[s] = one(s) /\ (s # {} => c[s] \in s)
  OBVIOUS
<1>2. \A x \in g : \A v \in Nat : G[<<x, v>>] = v + x.size /\ G[<<x, v>>] \in Nat
  OBVIOUS
<1>3. PICK h \in [SUBSET g -> Nat] :
        \A s \in SUBSET g : h[s] = IF s = {} THEN 0 ELSE G[<<c[s], h[s \ {c[s]}]>>]
  <2>1. Foldable(g, Nat, 0, c, G)
    <3> HIDE DEF c, G
    <3> QED
      BY <1>1, <1>2 DEF Foldable
  <2> DEFINE V == Nat
             zero == 0
  <2>2. Foldable(g, V, zero, c, G)
    BY <2>1
  <2> HIDE DEF c, G, V, zero
  <2>3. \E h \in [SUBSET g -> V] : FoldOf(g, zero, c, G, h)
    BY <2>2, FoldExists
  <2> QED
    BY <2>3 DEF V, zero, FoldOf
<1>4. h = Rec(h)
  <2>1. \A s \in SUBSET g : s # {} => one(s) \in g /\ h[s \ {one(s)}] \in Nat
    BY <1>1
  <2>2. \A s \in SUBSET g : h[s] = IF s = {} THEN 0 ELSE h[s \ {one(s)}] + one(s).size
    <3> HIDE DEF G
    <3> QED
      BY <1>1, <1>2, <1>3, <2>1
  <2> QED
    BY <2>2
<1>5. iter = Rec(iter)
  <2> HIDE DEF Rec
  <2> QED
    BY <1>4
<1>6. \A s \in SUBSET g : iter[s] = h[s]
  <2> HIDE DEF iter
  <2>1. ASSUME NEW s \in SUBSET g, s # {}
        PROVE  iter[s] = iter[s \ {c[s]}] + c[s].size /\ h[s] = h[s \ {c[s]}] + c[s].size
    <3>1. iter[s] = Rec(iter)[s] /\ h[s] = Rec(h)[s]
      BY <1>4, <1>5
    <3> QED
      BY <2>1, <3>1
  <2>2. iter[{}] = 0 /\ h[{}] = 0
    <3>1. iter[{}] = Rec(iter)[{}] /\ h[{}] = Rec(h)[{}]
      BY <1>4, <1>5
    <3> QED
      BY <3>1
  <2> HIDE DEF Rec, c, G
  <2>3. Agreeing(g, c, iter, h)
    BY <1>1, <2>1, <2>2 DEF Agreeing
  <2> QED
    BY <2>3, FoldUnique
<1>7. size(g) = iter[g]
  BY Zenon DEF size, FoldSet, MapThenFoldSet
<1> QED
  BY <1>6, <1>7

-----------------------------------------------------------------------------
\* A layer above one that the kernel shows at p is shown too, if it has p.
LEMMA AboveContributes ==
  ASSUME NEW ls, IsStack(ls), NEW p, p \in Seq(STRING), NEW i \in Contributing(ls, p),
         NEW j \in 1..Len(ls), j > i, p \in DOMAIN ls[j]
  PROVE  j \in Contributing(ls, p) /\ ls[j][p].kind = "dir" /\ ls[i][p].kind = "dir"
         /\ ~isOpaqueDir(ls, j, p)
<1>1. /\ i \in 1..Len(ls) /\ ls[i][p].kind = "dir"
      /\ \A jj \in (i + 1)..Len(ls), k \in 0..Len(p) : ~hides(ls, jj, SubSeq(p, 1, k))
  BY DEF Contributing, IsStack
<1>2. Len(p) \in 0..Len(p) /\ SubSeq(p, 1, Len(p)) = p
  BY PrefixFacts
<1>3. ~hides(ls, j, p)
  <2>1. j \in (i + 1)..Len(ls)
    BY <1>1 DEF IsStack
  <2>2. ~hides(ls, j, SubSeq(p, 1, Len(p)))
    BY <1>1, <1>2, <2>1
  <2> QED
    BY <1>2, <2>2
<1>4. ls[j][p].kind = "dir" /\ ~isOpaqueDir(ls, j, p)
  BY <1>3 DEF hides
<1>5. ~isWhiteout(ls, ls[j][p])
  BY <1>4 DEF isWhiteout
<1>6. \A jj \in (j + 1)..Len(ls) : jj \in (i + 1)..Len(ls)
  BY <1>1 DEF IsStack
<1> QED
  BY <1>1, <1>4, <1>5, <1>6 DEF Contributing

\* The directories on the way to what the kernel shows are shown.
LEMMA WayContributes ==
  ASSUME NEW ls, IsStack(ls), NEW p, p \in Seq(STRING), NEW i \in Contributing(ls, p),
         NEW k \in 0..Len(p) - 1
  PROVE  /\ i \in Contributing(ls, SubSeq(p, 1, k))
         /\ SubSeq(p, 1, k) \in DOMAIN ls[i] /\ ls[i][SubSeq(p, 1, k)].kind = "dir"
<1> DEFINE q == SubSeq(p, 1, k)
<1>1. /\ i \in 1..Len(ls) /\ p \in DOMAIN ls[i]
      /\ \A j \in (i + 1)..Len(ls), m \in 0..Len(p) : ~hides(ls, j, SubSeq(p, 1, m))
  BY DEF Contributing
<1>2. q \in DOMAIN ls[i] /\ ls[i][q].kind = "dir"
  BY <1>1 DEF IsStack, IsLayer
<1>3. Len(q) = k /\ \A m \in 0..k : SubSeq(q, 1, m) = SubSeq(p, 1, m)
  BY PrefixFacts
<1>4. ~isWhiteout(ls, ls[i][q])
  BY <1>2 DEF isWhiteout
<1>5. \A j \in (i + 1)..Len(ls), m \in 0..Len(q) : ~hides(ls, j, SubSeq(q, 1, m))
  <2>1. Len(p) \in Nat /\ \A m \in 0..Len(q) : m \in 0..k /\ m \in 0..Len(p)
    BY <1>3
  <2> QED
    BY <1>1, <1>3, <2>1
<1> QED
  BY <1>1, <1>2, <1>4, <1>5 DEF Contributing

\* What is at p for topmost: the layers that have p, read from its directory.
At(ls, p) == {i \in readFrom(ls, parentOf(p)) : p \in DOMAIN ls[i]}

LEMMA TopmostFacts ==
  ASSUME NEW ls, IsStack(ls), NEW p
  PROVE  /\ At(ls, p) \subseteq 1..Len(ls)
         /\ At(ls, p) = {} => topmost(ls, p) = {}
         /\ At(ls, p) # {} =>
              /\ Max(At(ls, p)) \in At(ls, p) /\ \A i \in At(ls, p) : i <= Max(At(ls, p))
              /\ topmost(ls, p) = IF isWhiteout(ls, ls[Max(At(ls, p))][p]) THEN {} ELSE {Max(At(ls, p))}
<1>1. At(ls, p) \subseteq 1..Len(ls)
  BY DEF At, readFrom, Holding
<1>2. At(ls, p) # {} => Max(At(ls, p)) \in At(ls, p) /\ \A i \in At(ls, p) : i <= Max(At(ls, p))
  BY <1>1, GreatestExists DEF IsStack
<1>3. /\ At(ls, p) = {} => topmost(ls, p) = {}
      /\ At(ls, p) # {} =>
           topmost(ls, p) = IF isWhiteout(ls, ls[Max(At(ls, p))][p]) THEN {} ELSE {Max(At(ls, p))}
  BY DEF topmost, At
<1> QED
  BY <1>1, <1>2, <1>3

\* What the kernel shows at p is what Stack finds there.
LEMMA ShownIsTopmost ==
  ASSUME NEW ls, IsStack(ls), NEW p, p \in Seq(STRING), p # Root, Contributing(ls, p) # {}
  PROVE  /\ topmost(ls, p) = {Max(Contributing(ls, p))}
         /\ Max(Contributing(ls, p)) \in Contributing(ls, p)
         /\ \A i \in Contributing(ls, p) : i <= Max(Contributing(ls, p))
<1> DEFINE i == Max(Contributing(ls, p))
           d == parentOf(p)
<1>1. i \in Contributing(ls, p) /\ \A j \in Contributing(ls, p) : j <= i
  <2>1. Contributing(ls, p) \subseteq 1..Len(ls)
    BY DEF Contributing
  <2> QED
    BY <2>1, GreatestExists DEF IsStack
<1>2. i \in 1..Len(ls) /\ p \in DOMAIN ls[i] /\ ~isWhiteout(ls, ls[i][p])
  BY <1>1 DEF Contributing
<1>3. Len(p) \in Nat \ {0} /\ d = SubSeq(p, 1, Len(p) - 1)
  BY EmptySeq DEF Root, parentOf
<1>4. d \in DOMAIN ls[i] /\ ls[i][d].kind = "dir"
  BY <1>1, <1>3, WayContributes
<1>5. \A o \in Holding(ls, d) : isOpaqueDir(ls, o, d) => i >= o
  <2> SUFFICES ASSUME NEW o \in Holding(ls, d), isOpaqueDir(ls, o, d), o > i PROVE FALSE
    BY <1>2 DEF Holding, IsStack
  <2>1. o \in (i + 1)..Len(ls) /\ hides(ls, o, d)
    BY <1>2 DEF Holding, hides, IsStack
  <2>2. \A k \in 0..Len(p) : ~hides(ls, o, SubSeq(p, 1, k))
    BY <1>1, <2>1 DEF Contributing
  <2> QED
    BY <1>3, <2>1, <2>2
<1>6. i \in At(ls, p)
  BY <1>2, <1>4, <1>5 DEF At, readFrom, Holding
<1>7. \A j \in At(ls, p) : j <= i
  <2> SUFFICES ASSUME NEW j \in At(ls, p), j > i PROVE FALSE
    BY <1>2, TopmostFacts DEF IsStack
  <2>1. j \in 1..Len(ls) /\ p \in DOMAIN ls[j]
    BY TopmostFacts DEF At
  <2>2. j \in Contributing(ls, p)
    BY <1>1, <2>1, AboveContributes
  <2> QED
    BY <1>1, <1>2, <2>1, <2>2 DEF IsStack
<1>8. Max(At(ls, p)) = i
  <2>1. /\ Max(At(ls, p)) \in At(ls, p) /\ \A j \in At(ls, p) : j <= Max(At(ls, p))
        /\ At(ls, p) \subseteq 1..Len(ls)
    BY <1>6, TopmostFacts
  <2> QED
    BY <1>6, <1>7, <2>1
<1> QED
  BY <1>1, <1>2, <1>6, <1>8, TopmostFacts

\* The same is found by a lookup, which looks at every ancestor as well.
LEMMA ShownIsFound ==
  ASSUME NEW ls, IsStack(ls), NEW p, p \in Seq(STRING), p # Root, Contributing(ls, p) # {}
  PROVE  lookup(ls, p) = {Max(Contributing(ls, p))}
<1>1. ASSUME NEW k \in 1..Len(p) - 1
      PROVE  \E i \in topmost(ls, SubSeq(p, 1, k)) : ls[i][SubSeq(p, 1, k)].kind = "dir"
  <2> DEFINE q == SubSeq(p, 1, k)
             m == Max(Contributing(ls, q))
  <2>1. PICK i \in Contributing(ls, p) : TRUE
    OBVIOUS
  <2>2. i \in Contributing(ls, q) /\ q \in DOMAIN ls[i] /\ ls[i][q].kind = "dir"
    BY <2>1, WayContributes
  <2>3. q \in Seq(STRING) /\ q # Root
    BY PrefixFacts
  <2>4. topmost(ls, q) = {m} /\ m \in Contributing(ls, q) /\ i <= m
    BY <2>2, <2>3, ShownIsTopmost
  <2>5. m \in 1..Len(ls) /\ i \in 1..Len(ls) /\ q \in DOMAIN ls[m]
    BY <2>2, <2>4 DEF Contributing
  <2>6. ls[m][q].kind = "dir"
    <3>1. CASE m = i
      BY <2>2, <3>1
    <3>2. CASE m > i
      <4> HIDE DEF m, q
      <4> QED
        BY <2>2, <2>3, <2>5, <3>2, AboveContributes
    <3> QED
      BY <2>4, <2>5, <3>1, <3>2 DEF IsStack
  <2> QED
    BY <2>4, <2>6
<1>2. topmost(ls, p) = {Max(Contributing(ls, p))}
  BY ShownIsTopmost
<1> QED
  BY <1>1, <1>2 DEF lookup

\* Where Stack reads a directory from the layers the kernel merges, they agree
\* on what is in it.
LEMMA SameBelow ==
  ASSUME NEW ls, IsStack(ls), NEW p, p \in Seq(STRING), p # Root, topmost(ls, p) # {},
         readFrom(ls, parentOf(p)) \subseteq Contributing(ls, parentOf(p))
  PROVE  Contributing(ls, p) # {}
<1> DEFINE d == parentOf(p)
           i == Max(At(ls, p))
<1>1. i \in At(ls, p) /\ (\A j \in At(ls, p) : j <= i) /\ ~isWhiteout(ls, ls[i][p])
      /\ At(ls, p) \subseteq 1..Len(ls)
  BY TopmostFacts
<1>2. i \in 1..Len(ls) /\ i \in readFrom(ls, d) /\ p \in DOMAIN ls[i]
  BY <1>1 DEF At
<1>3. Len(p) \in Nat \ {0} /\ d = SubSeq(p, 1, Len(p) - 1) /\ Len(d) = Len(p) - 1
      /\ SubSeq(p, 1, Len(p)) = p
      /\ \A k \in 0..Len(p) - 1 : SubSeq(d, 1, k) = SubSeq(p, 1, k)
  <2>1. Len(p) \in Nat \ {0} /\ d = SubSeq(p, 1, Len(p) - 1)
    BY EmptySeq DEF Root, parentOf
  <2>2. Len(p) - 1 \in 0..Len(p)
    BY <2>1
  <2> HIDE DEF d
  <2> QED
    BY <2>1, <2>2, PrefixFacts
<1>4. i \in Contributing(ls, d)
  BY <1>2
<1>5. ASSUME NEW j \in (i + 1)..Len(ls) PROVE p \notin DOMAIN ls[j]
  <2> SUFFICES ASSUME p \in DOMAIN ls[j] PROVE FALSE
    OBVIOUS
  <2>0. j \in 1..Len(ls) /\ j > i
    BY <1>2 DEF IsStack
  <2>1. d \in DOMAIN ls[j] /\ ls[j][d].kind = "dir"
    BY <1>3, <2>0 DEF IsStack, IsLayer
  <2>2. j \in readFrom(ls, d)
    BY <1>2, <2>0, <2>1 DEF readFrom, Holding, IsStack
  <2> QED
    BY <1>1, <1>2, <2>0, <2>2 DEF At, IsStack
<1>6. ASSUME NEW j \in (i + 1)..Len(ls), NEW k \in 0..Len(p)
      PROVE  ~hides(ls, j, SubSeq(p, 1, k))
  <2>1. CASE k = Len(p)
    BY <1>3, <1>5, <2>1 DEF hides
  <2>2. CASE k \in 0..Len(p) - 1
    BY <1>3, <1>4, <2>2 DEF Contributing
  <2>3. k = Len(p) \/ k \in 0..Len(p) - 1
    <3>1. Len(p) \in Nat
      BY <1>3
    <3> QED
      BY <3>1, UpTo
  <2> QED
    BY <2>1, <2>2, <2>3
<1> QED
  BY <1>1, <1>2, <1>5, <1>6 DEF Contributing

\* A directory that the kernel shows, and the layers it merges.
LEMMA MergedIsRead ==
  ASSUME NEW ls, IsStack(ls), NEW d \in Seq(STRING), d # Root, Contributing(ls, d) # {},
         ls[Max(Contributing(ls, d))][d].kind = "dir"
  PROVE  Contributing(ls, d) \subseteq readFrom(ls, d)
<1> DEFINE C == Contributing(ls, d)
           m == Max(C)
<1>1. topmost(ls, d) = {m} /\ m \in C /\ \A i \in C : i <= m
  BY ShownIsTopmost
<1>2. Len(d) \in Nat /\ SubSeq(d, 1, Len(d)) = d
  BY PrefixFacts
<1>3. Len(d) \in 0..Len(d)
  BY <1>2
<1> QED
  <2> SUFFICES ASSUME NEW i \in C PROVE i \in readFrom(ls, d)
    OBVIOUS
  <2>1. /\ i \in 1..Len(ls) /\ d \in DOMAIN ls[i]
        /\ \A j \in (i + 1)..Len(ls) :
             /\ d \in DOMAIN ls[j] => ls[i][d].kind = "dir"
             /\ \A n \in 0..Len(d) : ~hides(ls, j, SubSeq(d, 1, n))
    BY DEF Contributing
  <2>2. m \in 1..Len(ls) /\ d \in DOMAIN ls[m] /\ i <= m
    BY <1>1 DEF Contributing
  <2>3. ls[i][d].kind = "dir"
    <3>1. i = m \/ m \in (i + 1)..Len(ls)
      BY <2>1, <2>2 DEF IsStack
    <3> QED
      BY <2>1, <2>2, <3>1
  <2>4. ASSUME NEW o \in Holding(ls, d), isOpaqueDir(ls, o, d) PROVE i >= o
    <3>1. o \in 1..Len(ls) /\ d \in DOMAIN ls[o] /\ hides(ls, o, d)
      BY <2>4 DEF Holding, hides
    <3>2. o \notin (i + 1)..Len(ls)
      BY <1>2, <1>3, <2>1, <3>1
    <3> QED
      BY <2>1, <3>1, <3>2 DEF IsStack
  <2> QED
    BY <2>1, <2>3, <2>4 DEF readFrom, Holding

\* A directory is read from a layer in which the kernel leaves it out.
Revived(ls) ==
  \E d \in DOMAIN OverlayView(ls) :
    /\ OverlayView(ls)[d].kind = "dir"
    /\ readFrom(ls, d) # Contributing(ls, d)

\* Such a directory was deleted and made again.
LEMMA RevivedIsRemade == ASSUME NEW ls, IsStack(ls), Revived(ls) PROVE Remade(ls)
<1>1. PICK d \in DOMAIN OverlayView(ls) :
        /\ OverlayView(ls)[d].kind = "dir" /\ readFrom(ls, d) # Contributing(ls, d)
  BY DEF Revived
<1> DEFINE C == Contributing(ls, d)
           m == Max(C)
<1>2. d \in Seq(STRING) /\ d # Root /\ C # {} /\ ls[m][d].kind = "dir"
  BY <1>1 DEF OverlayView, Paths, IsStack, IsLayer
<1>3. C \subseteq readFrom(ls, d)
  BY <1>2, MergedIsRead
<1>4. PICK i \in readFrom(ls, d) : i \notin C
  BY <1>1, <1>3
<1>5. m \in C
  BY <1>2, ShownIsTopmost
<1>6. i \in 1..Len(ls) /\ d \in DOMAIN ls[i] /\ ls[i][d].kind = "dir"
  BY <1>4 DEF readFrom, Holding
<1>7. /\ m \in 1..Len(ls) /\ d \in DOMAIN ls[m]
      /\ \A j \in (m + 1)..Len(ls) : \A n \in 0..Len(d) : ~hides(ls, j, SubSeq(d, 1, n))
  BY <1>5 DEF Contributing
<1>8. PICK j \in (i + 1)..Len(ls), n \in 0..Len(d) : hides(ls, j, SubSeq(d, 1, n))
  BY <1>4, <1>6 DEF Contributing, isWhiteout
<1>9. j \in (i + 1)..m /\ i < m
  BY <1>6, <1>7, <1>8 DEF IsStack
<1>10. ASSUME n = Len(d), ls[j][d].kind = "dir" PROVE FALSE
  <2>1. SubSeq(d, 1, n) = d /\ hides(ls, j, d)
    <3>1. SubSeq(d, 1, Len(d)) = d
      BY <1>2, PrefixFacts
    <3> QED
      BY <1>8, <1>10, <3>1
  <2>2. j \in 1..Len(ls)
    BY <1>6, <1>8 DEF IsStack
  <2>3. j \in Holding(ls, d) /\ isOpaqueDir(ls, j, d)
    BY <1>10, <2>1, <2>2 DEF hides, Holding
  <2>4. i >= j
    BY <1>4, <2>3 DEF readFrom
  <2> QED
    BY <1>6, <1>8, <2>4 DEF IsStack
<1> HIDE DEF m
<1> QED
  BY <1>2, <1>6, <1>7, <1>8, <1>9, <1>10 DEF Remade

\* Whatever the kernel shows, Stack shows, and no more than that unless a
\* directory was deleted and made again.
LEMMA StackShows == ASSUME NEW ls, IsStack(ls) PROVE ShowsOverlay(ls)
<1> DEFINE C(p) == Contributing(ls, p)
<1>0. \A p \in Paths(ls) : p \in Seq(STRING) /\ p # Root
  BY DEF Paths, IsStack, IsLayer
<1>1. ASSUME NEW p \in DOMAIN OverlayView(ls)
      PROVE  p \in DOMAIN View(ls) /\ View(ls)[p] = OverlayView(ls)[p]
  <2>1. p \in Paths(ls) /\ C(p) # {} /\ OverlayView(ls)[p] = ls[Max(C(p))][p]
    BY <1>1 DEF OverlayView
  <2>2. lookup(ls, p) = {Max(C(p))}
    BY <1>0, <2>1, ShownIsFound
  <2>3. p \in DOMAIN View(ls)
    BY <2>1, <2>2 DEF View
  <2>4. View(ls)[p] = ls[CHOOSE i \in lookup(ls, p) : TRUE][p]
    BY <2>1, <2>2 DEF View
  <2> QED
    BY <2>1, <2>2, <2>3, <2>4
<1>2. ASSUME DOMAIN View(ls) # DOMAIN OverlayView(ls), ~Remade(ls) PROVE FALSE
  <2>1. PICK p \in DOMAIN View(ls) : p \notin DOMAIN OverlayView(ls)
    BY <1>1, <1>2
  <2>2. p \in Paths(ls) /\ lookup(ls, p) # {} /\ p \in Seq(STRING) /\ p # Root
    BY <1>0, <2>1 DEF View
  <2> DEFINE q(k) == SubSeq(p, 1, k)
             Lost == {k \in 1..Len(p) : C(q(k)) = {}}
  <2>3. C(p) = {}
    BY <2>1, <2>2 DEF OverlayView
  <2>4. Len(p) \in Nat \ {0} /\ q(Len(p)) = p
    BY <2>2, PrefixFacts, EmptySeq DEF Root
  <2>5. Len(p) \in Lost
    <3>0. Len(p) \in Nat /\ Len(p) # 0
      BY <2>4
    <3>1. Len(p) \in 1..Len(p) /\ C(q(Len(p))) = {}
      BY <2>3, <2>4, <3>0, UpTo
    <3> QED
      BY <3>1
  <2>6. PICK k \in Lost : \A j \in Lost : k <= j
    <3>1. Lost \in SUBSET Nat
      BY <2>4
    <3> HIDE DEF Lost
    <3> QED
      BY <2>5, <3>1, LeastExists
  <2>7. k \in 1..Len(p) /\ C(q(k)) = {} /\ (k > 1 => C(q(k - 1)) # {})
    <3>1. k \in 1..Len(p) /\ C(q(k)) = {}
      BY <2>6
    <3>2. k > 1 => k - 1 \notin Lost
      BY <2>6, <3>1
    <3> QED
      BY <2>4, <3>1, <3>2
  <2>8. /\ q(k) \in Seq(STRING) /\ q(k) # Root /\ parentOf(q(k)) = q(k - 1)
        /\ q(k - 1) \in Seq(STRING) /\ (k > 1 => q(k - 1) # Root) /\ q(0) = Root
    BY <2>2, <2>4, <2>7, PrefixFacts
  <2>9. topmost(ls, q(k)) # {}
    <3>1. CASE k = Len(p)
      BY <2>2, <2>4, <3>1 DEF lookup
    <3>2. CASE k \in 1..Len(p) - 1
      BY <2>2, <3>2 DEF lookup
    <3>3. k = Len(p) \/ k \in 1..Len(p) - 1
      <4>1. Len(p) \in Nat /\ k \in 1..Len(p)
        BY <2>4, <2>7
      <4> QED
        BY <4>1, UpTo
    <3> QED
      BY <3>1, <3>2, <3>3
  <2>10. readFrom(ls, q(k - 1)) \subseteq C(q(k - 1))
    <3>1. CASE k = 1
      <4>1. q(k - 1) = Root /\ Len(Root) = 0
        BY <2>8, <3>1, EmptySeq DEF Root
      <4>2. ASSUME NEW i \in readFrom(ls, Root) PROVE i \in C(Root)
        <5>1. i \in 1..Len(ls) /\ Root \in DOMAIN ls[i] /\ ls[i][Root].kind = "dir"
          BY <4>2 DEF readFrom, Holding
        <5>2. ASSUME NEW j \in (i + 1)..Len(ls) PROVE ~hides(ls, j, Root)
          <6>1. j \in 1..Len(ls) /\ ~(i >= j)
            BY <5>1 DEF IsStack
          <6>2. Root \in DOMAIN ls[j] /\ ls[j][Root].kind = "dir"
            BY <6>1 DEF IsStack, IsLayer
          <6>3. ~isOpaqueDir(ls, j, Root)
            BY <4>2, <6>1, <6>2 DEF readFrom, Holding
          <6> QED
            BY <6>2, <6>3 DEF hides
        <5>3. SubSeq(Root, 1, 0) = Root
          BY <2>2, PrefixFacts, EmptySeq DEF Root
        <5>4. \A m \in 0..Len(Root) : SubSeq(Root, 1, m) = Root
          BY <4>1, <5>3
        <5>5. ~isWhiteout(ls, ls[i][Root])
          BY <5>1 DEF isWhiteout
        <5> QED
          BY <5>1, <5>2, <5>4, <5>5 DEF Contributing
      <4> QED
        BY <4>1, <4>2
    <3>2. CASE k > 1
      <4> DEFINE d == q(k - 1)
                 m == Max(C(d))
      <4>1. C(d) # {} /\ d \in Seq(STRING) /\ d # Root
        BY <2>7, <2>8, <3>2
      <4>2. topmost(ls, d) = {m} /\ m \in C(d)
        BY <4>1, ShownIsTopmost
      <4>3. d \in Paths(ls)
        BY <4>1, <4>2 DEF Paths, Contributing
      <4>4. d \in DOMAIN OverlayView(ls) /\ OverlayView(ls)[d] = ls[m][d]
        BY <4>1, <4>3 DEF OverlayView
      <4>5. k - 1 \in 1..Len(p) - 1
        BY <2>4, <2>7, <3>2
      <4>6. \E i \in topmost(ls, d) : ls[i][d].kind = "dir"
        BY <2>2, <4>5 DEF lookup
      <4>7. OverlayView(ls)[d].kind = "dir"
        BY <4>2, <4>4, <4>6
      <4>8. readFrom(ls, d) = C(d)
        BY <1>2, <4>4, <4>7, RevivedIsRemade DEF Revived
      <4> QED
        BY <4>8
    <3> QED
      BY <2>4, <2>7, <3>1, <3>2
  <2> HIDE DEF Lost
  <2> QED
    BY <2>7, <2>8, <2>9, <2>10, SameBelow
<1>3. ASSUME DOMAIN View(ls) = DOMAIN OverlayView(ls) PROVE View(ls) = OverlayView(ls)
  <2>1. View(ls) = [p \in DOMAIN View(ls) |-> View(ls)[p]]
    BY DEF View
  <2>2. OverlayView(ls) = [p \in DOMAIN OverlayView(ls) |-> OverlayView(ls)[p]]
    BY DEF OverlayView
  <2> QED
    BY <1>1, <1>3, <2>1, <2>2
<1> QED
  BY <1>1, <1>2, <1>3 DEF ShowsOverlay

\* mergeDir and lookup agree.
LEMMA StackLists == ASSUME NEW ls, IsStack(ls) PROVE ListsWhatItFinds(ls)
<1> SUFFICES ASSUME NEW d \in DOMAIN View(ls) \cup {Root}, d = Root \/ View(ls)[d].kind = "dir"
             PROVE  mergeDir(ls, d) =
                    UNION {{<<p, i>> : i \in lookup(ls, p)} : p \in {q \in Paths(ls) : parentOf(q) = d}}
  BY DEF ListsWhatItFinds
<1>0. \A p \in Paths(ls) : p \in Seq(STRING) /\ p # Root
  BY DEF Paths, IsStack, IsLayer
<1>1. ASSUME NEW p \in Paths(ls), parentOf(p) = d PROVE lookup(ls, p) = topmost(ls, p)
  <2>0. p \in Seq(STRING) /\ Len(p) \in Nat \ {0} /\ d = SubSeq(p, 1, Len(p) - 1)
    BY <1>0, <1>1, EmptySeq DEF Root, parentOf
  <2>1. ASSUME NEW k \in 1..Len(p) - 1
        PROVE  \E i \in topmost(ls, SubSeq(p, 1, k)) : ls[i][SubSeq(p, 1, k)].kind = "dir"
    <3>1. d # Root /\ Len(d) = Len(p) - 1 /\ d \in Seq(STRING)
          /\ \A j \in 0..Len(p) - 1 : SubSeq(d, 1, j) = SubSeq(p, 1, j)
      BY <2>0, PrefixFacts
    <3>2. lookup(ls, d) # {} /\ View(ls)[d] = ls[CHOOSE i \in lookup(ls, d) : TRUE][d]
      BY <3>1 DEF View
    <3>3. View(ls)[d].kind = "dir"
      BY <3>1
    <3>4. CASE k = Len(d)
      <4>1. SubSeq(p, 1, k) = d
        BY <2>0, <3>1, <3>4
      <4>2. lookup(ls, d) = topmost(ls, d)
        BY <3>2 DEF lookup
      <4> QED
        BY <3>2, <3>3, <4>1, <4>2
    <3>5. CASE k \in 1..Len(d) - 1
      <4>1. \E i \in topmost(ls, SubSeq(d, 1, k)) : ls[i][SubSeq(d, 1, k)].kind = "dir"
        BY <3>2, <3>5 DEF lookup
      <4>2. SubSeq(d, 1, k) = SubSeq(p, 1, k)
        BY <2>0, <3>1
      <4> QED
        BY <4>1, <4>2
    <3> QED
      BY <2>0, <3>1, <3>4, <3>5
  <2> QED
    BY <2>1 DEF lookup
<1>2. ASSUME NEW p \in Paths(ls), parentOf(p) = d, NEW i \in topmost(ls, p)
      PROVE  <<p, i>> \in mergeDir(ls, d)
  <2>1. /\ i = Max(At(ls, p)) /\ i \in At(ls, p) /\ ~isWhiteout(ls, ls[i][p])
        /\ (\A j \in At(ls, p) : j <= i) /\ At(ls, p) \subseteq 1..Len(ls)
    BY <1>2, TopmostFacts
  <2>2. i \in readFrom(ls, d) /\ p \in DOMAIN ls[i] /\ p # Root
    BY <1>0, <1>2, <2>1 DEF At
  <2>3. \A j \in readFrom(ls, d) : p \in DOMAIN ls[j] => i >= j
    BY <1>2, <2>1 DEF At
  <2> QED
    BY <1>2, <2>1, <2>2, <2>3 DEF mergeDir
<1>3. ASSUME NEW e \in mergeDir(ls, d)
      PROVE  \E p \in Paths(ls) : parentOf(p) = d /\ \E i \in topmost(ls, p) : e = <<p, i>>
  <2>1. PICK i \in readFrom(ls, d) :
          \E p \in DOMAIN ls[i] :
            /\ e = <<p, i>> /\ p # Root /\ parentOf(p) = d /\ ~isWhiteout(ls, ls[i][p])
            /\ \A j \in readFrom(ls, d) : p \in DOMAIN ls[j] => i >= j
    BY <1>3 DEF mergeDir
  <2>2. PICK p \in DOMAIN ls[i] :
          /\ e = <<p, i>> /\ p # Root /\ parentOf(p) = d /\ ~isWhiteout(ls, ls[i][p])
          /\ \A j \in readFrom(ls, d) : p \in DOMAIN ls[j] => i >= j
    BY <2>1
  <2>3. i \in 1..Len(ls) /\ p \in Paths(ls)
    BY <2>2 DEF readFrom, Holding, Paths
  <2>4. i \in At(ls, p) /\ \A j \in At(ls, p) : i >= j
    BY <2>2 DEF At
  <2>5. Max(At(ls, p)) = i
    <3>1. /\ Max(At(ls, p)) \in At(ls, p) /\ \A j \in At(ls, p) : j <= Max(At(ls, p))
          /\ At(ls, p) \subseteq 1..Len(ls)
      BY <2>4, TopmostFacts
    <3> QED
      BY <2>3, <2>4, <3>1 DEF IsStack
  <2>6. i \in topmost(ls, p)
    BY <2>2, <2>4, <2>5, TopmostFacts
  <2> QED
    BY <2>2, <2>3, <2>6
<1> QED
  BY <1>1, <1>2, <1>3

-----------------------------------------------------------------------------
(***************************************************************************)
(* The layers of a build and those read by apko erofs ls are trees.        *)
(***************************************************************************)
WalkPaths == {sc.walk[k].path : k \in DOMAIN sc.walk}

IsTree(im) ==
  /\ IsLayer(im) /\ DOMAIN im \subseteq {Root} \cup WalkPaths
  /\ \A p \in DOMAIN im \ {Root} : im[p].kind = "dir" <=> fileAt(p).kind = "dir"

Building == job \in {"record", "group", "tar", "plan", "digest", "render", "erofs"}

\* The walk is one, and the results are kept apart.
WalkInv ==
  /\ DOMAIN sc = {"pkgs", "order", "budget", "walk", "root"} /\ IsWalk(sc.walk)
  /\ Building => sc.root.kind = "dir" /\ ~sc.root.opaque
  /\ Building \/ job \in {"ls", "done", "failed"}
  /\ pos \in Nat
  /\ DOMAIN made = {"db", "diffs", "tar", "plans", "content", "rendered", "erofs", "stack"}

TreeInv ==
  /\ job = "erofs" => out \in Seq(Range(out)) /\ \A i \in DOMAIN out : IsTree(out[i])
  /\ made.stack # <<>> => IsStack(made.stack)

\* A file is found by its path.
LEMMA FileAtFacts ==
  ASSUME IsWalk(sc.walk), NEW k \in DOMAIN sc.walk
  PROVE  /\ fileAt(sc.walk[k].path) = sc.walk[k]
         /\ DOMAIN sc.walk = 1..Len(sc.walk) /\ Len(sc.walk) \in Nat
<1>1. DOMAIN sc.walk = 1..Len(sc.walk) /\ Len(sc.walk) \in Nat
  BY LenProperties DEF IsWalk
<1>2. \A i \in 1..Len(sc.walk) : sc.walk[i].path = sc.walk[k].path => i = k
  BY <1>1 DEF IsWalk
<1> QED
  BY <1>1, <1>2 DEF fileAt

\* A walked file is reached through directories, walked before it.
LEMMA AncestorFacts ==
  ASSUME IsWalk(sc.walk), NEW k \in DOMAIN sc.walk, NEW q \in ancestors(sc.walk[k].path)
  PROVE  /\ q # Root /\ fileAt(q).kind = "dir" /\ q # sc.walk[k].path /\ q \in WalkPaths
         /\ \E j \in 1..k - 1 : j \in DOMAIN sc.walk /\ sc.walk[j].path = q /\ fileAt(q) = sc.walk[j]
<1> DEFINE f == sc.walk[k]
<1>1. f.path \in Seq(STRING) /\ f.path # Root
  BY DEF IsWalk
<1>2. Len(f.path) \in Nat \ {0}
  BY <1>1, EmptySeq DEF Root
<1>3. PICK n \in 1..Len(f.path) - 1 : q = SubSeq(f.path, 1, n)
  BY DEF ancestors
<1>4. PICK j \in 1..k - 1 : sc.walk[j].path = q /\ sc.walk[j].kind = "dir"
  <2>1. \A m \in 1..Len(f.path) - 1 :
          \E j \in 1..k - 1 : sc.walk[j].path = SubSeq(f.path, 1, m) /\ sc.walk[j].kind = "dir"
    BY DEF IsWalk
  <2> QED
    BY <1>3, <2>1
<1>5. j \in DOMAIN sc.walk
  BY FileAtFacts
<1>6. fileAt(q) = sc.walk[j]
  BY <1>4, <1>5, FileAtFacts
<1>7. n \in 0..Len(f.path) /\ n # 0 /\ n # Len(f.path)
  BY <1>2, <1>3
<1>8. Len(q) = n /\ q # Root
  BY <1>1, <1>3, <1>7, PrefixFacts
<1>9. q # f.path /\ q \in WalkPaths
  BY <1>4, <1>5, <1>7, <1>8 DEF WalkPaths
<1> QED
  BY <1>4, <1>5, <1>6, <1>8, <1>9

\* Emitting a walked file into a tree gives a tree.
LEMMA EmitTree ==
  ASSUME IsWalk(sc.walk), NEW im, IsTree(im), NEW k \in DOMAIN sc.walk, NEW data
  PROVE  IsTree(emit(im, sc.walk[k], data))
<1> DEFINE f == sc.walk[k]
           e == emitInto(im, f, data)
           d == DOMAIN im \cup ancestors(f.path) \cup {f.path}
<1>1. CASE f.path \in DOMAIN im
  BY <1>1 DEF emit
<1>2. CASE f.path \notin DOMAIN im
  <2>0. emit(im, f, data) = e
    BY <1>2 DEF emit
  <2>1. DOMAIN e = d
        /\ \A p \in d : e[p] = IF p \in DOMAIN im THEN im[p]
                               ELSE IF p = f.path THEN image(f, f.time, data)
                               ELSE image(fileAt(p), f.time, <<>>)
    BY DEF emitInto
  <2>2. /\ f.path \in Seq(STRING) /\ f.path # Root /\ Len(f.path) \in Nat \ {0}
        /\ \A q \in ancestors(f.path) : q # Root /\ fileAt(q).kind = "dir" /\ q \in WalkPaths
    <3>1. f.path \in Seq(STRING) /\ f.path # Root
      BY DEF IsWalk
    <3>2. Len(f.path) \in Nat \ {0}
      BY <3>1, EmptySeq DEF Root
    <3> QED
      BY <3>1, <3>2, AncestorFacts
  <2>3. \A g : \A t : \A x : image(g, t, x).kind = "dir" <=> g.kind = "dir"
    BY DEF image
  <2>4. ASSUME NEW p \in d \ {Root} PROVE e[p].kind = "dir" <=> fileAt(p).kind = "dir"
    <3>1. CASE p \in DOMAIN im
      BY <2>1, <3>1 DEF IsTree
    <3>2. CASE p \notin DOMAIN im /\ p = f.path
      BY <2>1, <2>3, <3>2, FileAtFacts
    <3>3. CASE p \notin DOMAIN im /\ p # f.path
      BY <2>1, <2>3, <3>3
    <3> QED
      BY <3>1, <3>2, <3>3
  <2>5. Root \in DOMAIN im /\ e[Root].kind = "dir" /\ Root \in d
    BY <2>1 DEF IsTree, IsLayer
  <2>6. ASSUME NEW p \in d
        PROVE  /\ p \in Seq(STRING)
               /\ \A n \in 0..Len(p) - 1 : SubSeq(p, 1, n) \in d /\ e[SubSeq(p, 1, n)].kind = "dir"
    <3>1. CASE p \in DOMAIN im
      BY <2>1, <3>1 DEF IsTree, IsLayer
    <3>2. CASE p \in ancestors(f.path) \cup {f.path}
      <4>1. PICK m \in 1..Len(f.path) : p = SubSeq(f.path, 1, m)
        <5>1. CASE p = f.path
          BY <2>2, <5>1, PrefixFacts, UpTo
        <5>2. CASE p \in ancestors(f.path)
          BY <2>2, <5>2 DEF ancestors
        <5> QED
          BY <3>2, <5>1, <5>2
      <4>2. p \in Seq(STRING) /\ Len(p) = m /\ \A n \in 0..m : SubSeq(p, 1, n) = SubSeq(f.path, 1, n)
        BY <2>2, <4>1, PrefixFacts
      <4>3. ASSUME NEW n \in 0..m - 1 PROVE SubSeq(p, 1, n) \in d /\ e[SubSeq(p, 1, n)].kind = "dir"
        <5>0. SubSeq(p, 1, n) = SubSeq(f.path, 1, n) /\ n \in 0..Len(f.path)
          BY <2>2, <4>2
        <5>1. CASE n = 0
          <6>1. SubSeq(f.path, 1, 0) = Root
            BY <2>2, PrefixFacts, 0 \in 0..Len(f.path)
          <6> QED
            BY <2>5, <5>0, <5>1, <6>1
        <5>2. CASE n # 0
          <6>1. n \in 1..Len(f.path) - 1
            BY <2>2, <5>2
          <6>2. SubSeq(p, 1, n) \in ancestors(f.path)
            BY <5>0, <6>1 DEF ancestors
          <6> QED
            BY <2>2, <2>4, <6>2
        <5> QED
          BY <5>1, <5>2
      <4> QED
        BY <4>2, <4>3
    <3> QED
      BY <3>1, <3>2
  <2>7. IsLayer(e)
    BY <2>1, <2>5, <2>6 DEF IsLayer
  <2>8. f.path \in WalkPaths
    BY DEF WalkPaths
  <2>9. DOMAIN e \subseteq {Root} \cup WalkPaths
    BY <2>1, <2>2, <2>8 DEF IsTree
  <2> HIDE DEF e, d, f
  <2> QED
    BY <2>0, <2>1, <2>4, <2>7, <2>9 DEF IsTree, f
<1> QED
  BY <1>1, <1>2

\* A function on 1..n is a sequence of its values.
LEMMA OwnRange ==
  ASSUME NEW n \in Nat, NEW S, NEW g \in [1..n -> S]
  PROVE  g \in Seq(Range(g)) /\ g \in Seq(S) /\ Len(g) = n /\ DOMAIN g = 1..n
<1>1. g \in [1..n -> Range(g)]
  BY DEF Range
<1>2. g \in Seq(Range(g)) /\ g \in Seq(S) /\ DOMAIN g = 1..n
  BY <1>1
<1>3. Len(g) = n
  BY <1>2, LenProperties
<1> QED
  BY <1>2, <1>3

\* The walk stays one when the database is written into it.
LEMMA WalkRewritten ==
  ASSUME NEW walk, IsWalk(walk), NEW db,
         NEW w, w = [k \in DOMAIN walk |->
                       IF walk[k].path = InstalledDB THEN [walk[k] EXCEPT !.data = db] ELSE walk[k]]
  PROVE  IsWalk(w)
<1>1. DOMAIN walk = 1..Len(walk) /\ Len(walk) \in Nat
  BY LenProperties DEF IsWalk
<1>2. w \in Seq(Range(w)) /\ DOMAIN w = DOMAIN walk
  <2> DEFINE S == {w[k] : k \in 1..Len(walk)}
             n == Len(walk)
  <2>1. w \in [1..n -> S] /\ n \in Nat
    BY <1>1
  <2> HIDE DEF S, n
  <2>2. w \in Seq(Range(w)) /\ DOMAIN w = 1..n
    BY <2>1, OwnRange
  <2> QED
    BY <1>1, <2>2 DEF n
<1>3. \A k \in DOMAIN walk :
        /\ DOMAIN w[k] = {"path", "kind", "owner", "time", "data", "to", "reported"}
        /\ w[k].path = walk[k].path /\ w[k].kind = walk[k].kind /\ w[k].owner = walk[k].owner
  BY DEF IsWalk
<1>4. ASSUME NEW k \in DOMAIN walk, NEW n \in 1..Len(walk[k].path) - 1
      PROVE  \E j \in 1..k - 1 : w[j].path = SubSeq(walk[k].path, 1, n) /\ w[j].kind = "dir"
  <2>1. PICK j \in 1..k - 1 : walk[j].path = SubSeq(walk[k].path, 1, n) /\ walk[j].kind = "dir"
    <3>1. \A m \in 1..Len(walk[k].path) - 1 :
            \E j \in 1..k - 1 : walk[j].path = SubSeq(walk[k].path, 1, m) /\ walk[j].kind = "dir"
      BY DEF IsWalk
    <3> QED
      BY <1>4, <3>1
  <2>2. j \in DOMAIN walk
    BY <1>1
  <2> QED
    BY <1>3, <2>1, <2>2
<1>5. \A k \in DOMAIN walk :
        /\ walk[k].path \in Seq(STRING) \ {Root} /\ walk[k].kind \in {"dir", "reg", "sym", "link"}
        /\ walk[k].kind = "dir" \/ walk[k].path = InstalledDB => walk[k].owner = 0
        /\ walk[k].path = InstalledDB => walk[k].kind = "reg"
        /\ \A j \in DOMAIN walk : walk[j].path = walk[k].path => j = k
  BY DEF IsWalk
<1>6. ASSUME NEW k \in DOMAIN w
      PROVE  /\ DOMAIN w[k] = {"path", "kind", "owner", "time", "data", "to", "reported"}
             /\ w[k].path \in Seq(STRING) \ {Root} /\ w[k].kind \in {"dir", "reg", "sym", "link"}
             /\ w[k].kind = "dir" \/ w[k].path = InstalledDB => w[k].owner = 0
             /\ w[k].path = InstalledDB => w[k].kind = "reg"
             /\ \A j \in DOMAIN w : w[j].path = w[k].path => j = k
             /\ \A n \in 1..Len(w[k].path) - 1 :
                  \E j \in 1..k - 1 : w[j].path = SubSeq(w[k].path, 1, n) /\ w[j].kind = "dir"
  <2>1. k \in DOMAIN walk
    BY <1>2
  <2> HIDE DEF InstalledDB
  <2>2. w[k].path = walk[k].path
    BY <1>3, <2>1
  <2>3. ASSUME NEW n \in 1..Len(w[k].path) - 1
        PROVE  \E j \in 1..k - 1 : w[j].path = SubSeq(w[k].path, 1, n) /\ w[j].kind = "dir"
    <3>1. n \in 1..Len(walk[k].path) - 1
      BY <2>2
    <3>2. \E j \in 1..k - 1 : w[j].path = SubSeq(walk[k].path, 1, n) /\ w[j].kind = "dir"
      BY <1>4, <2>1, <3>1
    <3> QED
      BY <2>2, <3>2
  <2>4. \A j \in DOMAIN w : w[j].path = w[k].path => j = k
    BY <1>2, <1>3, <1>5, <2>1
  <2> QED
    BY <1>3, <1>5, <2>1, <2>2, <2>3, <2>4
<1> QED
  BY <1>2, <1>6 DEF IsWalk

\* A build starts from a walk, with no layer read.
LEMMA TreesInit ==
  ASSUME LayersInit
  PROVE  WalkInv /\ TreeInv
<1> USE LayersAssumption
<1>1. IsWalk(<<>>)
  BY DEF IsWalk
<1>2. CASE sc = NoBuild
  <2>1. job = "ls" /\ sc.walk = <<>>
    BY <1>2 DEF LayersInit, NoBuild
  <2> QED
    BY <1>1, <1>2, <2>1 DEF LayersInit, NoBuild, WalkInv, TreeInv, Building
<1>3. CASE sc # NoBuild
  <2>1. sc \in Scenarios /\ job = "record"
    BY <1>3 DEF LayersInit
  <2> QED
    BY <2>1 DEF LayersInit, WalkInv, TreeInv, Building
<1> QED
  BY <1>2, <1>3

\* The walk and the fields of the results are as they were after every step.
LEMMA WalkInvStep ==
  ASSUME WalkInv, LayersNext
  PROVE  WalkInv'
<1>1. CASE FinishRecord
  <2> DEFINE w == [k \in DOMAIN sc.walk |->
                     IF sc.walk[k].path = InstalledDB THEN [sc.walk[k] EXCEPT !.data = made.db]
                     ELSE sc.walk[k]]
  <2>1. sc' = [sc EXCEPT !.walk = w] /\ job = "record" /\ job' = "group" /\ made' = made
    BY <1>1 DEF FinishRecord
  <2>2. IsWalk(w)
    BY WalkRewritten DEF WalkInv
  <2> HIDE DEF w
  <2>3. sc'.walk = w /\ DOMAIN sc' = DOMAIN sc /\ sc'.root = sc.root
    BY <2>1 DEF WalkInv
  <2>4. pos' \in Nat
    BY <1>1 DEF FinishRecord
  <2> QED
    BY <2>1, <2>2, <2>3, <2>4 DEF WalkInv, Building
<1>2. CASE ~FinishRecord
  <2>1. sc' = sc
    BY <1>2 DEF LayersNext, RecordPackage, FinishRecord, MergeReplaced, PickGroups, CreateLayerFile, OpenWriter, Visit,
         FinishTar, StartDigests, DigestFile, Digested, Render, FinishRender, VisitErofs, FinishErofs,
         ReadForeign, Fail
  <2>2. DOMAIN made' = DOMAIN made
    BY <1>2 DEF LayersNext, RecordPackage, FinishRecord, MergeReplaced, PickGroups, CreateLayerFile, OpenWriter, Visit,
         FinishTar, StartDigests, DigestFile, Digested, Render, FinishRender, VisitErofs, FinishErofs,
         ReadForeign, Fail
  <2>3. (Building' => Building) /\ (Building \/ job \in {"ls", "done", "failed"})'
    BY <1>2 DEF LayersNext, RecordPackage, FinishRecord, MergeReplaced, PickGroups, CreateLayerFile, OpenWriter, Visit,
         FinishTar, StartDigests, DigestFile, Digested, Render, FinishRender, VisitErofs, FinishErofs,
         ReadForeign, Fail, Begin, Building, WalkInv
  <2>4. pos' \in Nat
    <3>1. pos' \in {pos, pos + 1, 0}
      BY <1>2 DEF LayersNext, RecordPackage, FinishRecord, MergeReplaced, PickGroups, CreateLayerFile, OpenWriter, Visit,
           FinishTar, StartDigests, DigestFile, Digested, Render, FinishRender, VisitErofs, FinishErofs,
           ReadForeign, Fail, Begin
    <3> QED
      BY <3>1 DEF WalkInv
  <2> QED
    BY <2>1, <2>2, <2>3, <2>4 DEF WalkInv
<1> QED
  BY <1>1, <1>2

\* Every layer is a tree after every step: a writer starts with the root, and a
\* file comes with the directories it is in.
LEMMA TreeInvStep ==
  ASSUME WalkInv, TreeInv, LayersNext
  PROVE  TreeInv'
<1>1. CASE OpenWriter
  <2> DEFINE top == [p \in {Root} |-> sc.root]
  <2>1. made' = made /\ sc' = sc /\ job' = job /\ (job = "erofs" => out' = Append(out, top))
    BY <1>1 DEF OpenWriter
  <2>2. ASSUME job = "erofs" PROVE (out \in Seq(Range(out)) /\ \A i \in DOMAIN out : IsTree(out[i]))'
    <3>1. IsTree(top)
      <4>1. sc.root.kind = "dir" /\ ~sc.root.opaque
        BY <2>2 DEF WalkInv, Building
      <4>2. Root \in Seq(STRING) /\ Len(Root) = 0
        BY DEF Root
      <4>3. DOMAIN top = {Root} /\ top[Root] = sc.root
        OBVIOUS
      <4> HIDE DEF top
      <4> QED
        BY <4>1, <4>2, <4>3 DEF IsTree, IsLayer
    <3> HIDE DEF top
    <3>2. out \in Seq(Range(out)) /\ \A i \in DOMAIN out : IsTree(out[i])
      BY <2>2 DEF TreeInv
    <3>3. Len(out) \in Nat /\ DOMAIN out = 1..Len(out)
      BY <3>2, LenProperties
    <3>4. out' \in Seq(Range(out) \cup {top}) /\ Len(out') = Len(out) + 1
          /\ (\A i \in 1..Len(out) : out'[i] = out[i]) /\ out'[Len(out) + 1] = top
      <4>1. out \in Seq(Range(out) \cup {top})
        BY <3>2
      <4> QED
        BY <2>1, <2>2, <4>1, AppendProperties
    <3>5. DOMAIN out' = 1..(Len(out) + 1)
      BY <3>4, LenProperties
    <3>7. out' \in Seq(Range(out'))
      <4> DEFINE S == Range(out) \cup {top}
                 n == Len(out')
      <4>1. n \in Nat /\ out' \in [1..n -> S]
        BY <3>3, <3>4, LenProperties
      <4> HIDE DEF S, n
      <4> QED
        BY <4>1, OwnRange
    <3>8. \A i \in DOMAIN out' : IsTree(out'[i])
      BY <3>1, <3>2, <3>3, <3>4, <3>5
    <3>9. \A im : IsTree(im) <=> IsTree(im)'
      BY <2>1 DEF IsTree, WalkPaths, fileAt
    <3> QED
      BY <3>7, <3>8, <3>9
  <2> QED
    BY <2>1, <2>2 DEF TreeInv
<1>2. CASE VisitErofs
  <2> DEFINE f == sc.walk[pos + 1]
             part1 == [g \in Layer |-> IF g \in Parted(f) THEN emit(out[g], f, partialDB(g)) ELSE out[g]]
  <2>1. made' = made /\ sc' = sc /\ job = "erofs" /\ Len(out) = Top
        /\ out' = [part1 EXCEPT ![layerOf(f)] = emit(@, f, f.data)] /\ pos < Len(sc.walk)
    BY <1>2 DEF VisitErofs
  <2>2. out \in Seq(Range(out)) /\ \A i \in DOMAIN out : IsTree(out[i])
    BY <2>1 DEF TreeInv
  <2>3. Len(out) \in Nat /\ DOMAIN out = 1..Len(out) /\ Layer = DOMAIN out
    BY <2>1, <2>2, LenProperties DEF Layer
  <2>4. pos + 1 \in DOMAIN sc.walk /\ IsWalk(sc.walk)
    BY <2>1 DEF WalkInv
  <2>5. ASSUME NEW g \in Layer PROVE IsTree(part1[g])
    <3>1. IsTree(out[g]) /\ IsTree(emit(out[g], f, partialDB(g)))
      BY <2>2, <2>3, <2>4, EmitTree
    <3> QED
      BY <3>1
  <2>6. DOMAIN out' = Layer /\ \A g \in Layer : IsTree(out'[g])
    <3> DEFINE i == layerOf(f)
    <3>1. DOMAIN part1 = Layer
      OBVIOUS
    <3> HIDE DEF part1, f
    <3>2. /\ DOMAIN out' = Layer /\ \A g \in Layer : g # i => out'[g] = part1[g]
          /\ i \in Layer => out'[i] = emit(part1[i], f, f.data)
      BY <2>1, <3>1
    <3>3. i \in Layer => IsTree(emit(part1[i], f, f.data))
      BY <2>4, <2>5, EmitTree DEF f
    <3> QED
      BY <2>5, <3>2, <3>3
  <2>7. out' \in Seq(Range(out'))
    <3> DEFINE S == {out'[g] : g \in Layer}
               n == Len(out)
    <3>1. n \in Nat /\ Layer = 1..n
      BY <2>3
    <3>2. out' \in [1..n -> S]
      <4>1. out' = [g \in Layer |-> out'[g]]
        BY <2>1
      <4> QED
        BY <3>1, <4>1
    <3> HIDE DEF S, n
    <3> QED
      BY <3>1, <3>2, OwnRange
  <2>8. \A im : IsTree(im) <=> IsTree(im)'
    BY <2>1 DEF IsTree, WalkPaths, fileAt
  <2> HIDE DEF part1, f
  <2> QED
    BY <2>1, <2>6, <2>7, <2>8 DEF TreeInv
<1>3. CASE FinishErofs
  <2>1. /\ made' = [made EXCEPT !.erofs = out, !.stack = out] /\ job = "erofs" /\ job' = "done"
        /\ out \in Seq(Range(out)) /\ \A i \in DOMAIN out : IsTree(out[i])
    BY <1>3 DEF FinishErofs, TreeInv
  <2>2. made'.stack = out
    BY <2>1 DEF WalkInv
  <2>3. Len(out) \in Nat /\ DOMAIN out = 1..Len(out)
    BY <2>1, LenProperties
  <2>4. IsStack(out)
    BY <2>1, <2>3 DEF IsStack, IsTree
  <2> QED
    BY <2>1, <2>2, <2>4 DEF TreeInv
<1>4. CASE ReadForeign
  <2>1. PICK s \in ForeignStacks : made' = [made EXCEPT !.stack = s]
    BY <1>4 DEF ReadForeign
  <2>2. made'.stack = s /\ job' = "done"
    BY <1>4, <2>1 DEF WalkInv, ReadForeign
  <2> QED
    BY <2>2, LayersAssumption DEF TreeInv
<1>5. CASE FinishRender
  <2>1. made' = made /\ out' = <<>>
    BY <1>5 DEF FinishRender
  <2>2. out' \in Seq(Range(out')) /\ DOMAIN out' = {}
    BY <2>1
  <2> QED
    BY <2>1, <2>2 DEF TreeInv
<1>6. CASE RecordPackage \/ Digested \/ Render \/ FinishTar
  <2>1. made'.stack = made.stack /\ job' # "erofs"
    BY <1>6 DEF WalkInv, RecordPackage, Digested, Render, FinishTar, Begin
  <2> QED
    BY <2>1 DEF TreeInv
<1>7. CASE FinishRecord \/ MergeReplaced \/ PickGroups \/ Visit \/ StartDigests \/ Fail
           \/ \E p \in {sc.walk[k].path : k \in 1..Len(sc.walk)} : DigestFile(p)
  <2>1. made' = made /\ job' # "erofs"
    BY <1>7 DEF FinishRecord, MergeReplaced, PickGroups, Visit, StartDigests, Fail, DigestFile, Begin
  <2> QED
    BY <2>1 DEF TreeInv
<1>8. CASE CreateLayerFile
  BY <1>8 DEF CreateLayerFile, TreeInv, IsTree, WalkPaths, fileAt
<1> QED
  BY <1>1, <1>2, <1>3, <1>4, <1>5, <1>6, <1>7, <1>8 DEF LayersNext

\* The invariant of the layers.
LEMMA TreesInvariance == LayersSpec => [](WalkInv /\ TreeInv)
<1>1. LayersInit => WalkInv /\ TreeInv
  BY TreesInit
<1>2. (WalkInv /\ TreeInv) /\ [LayersNext]_layersVars => (WalkInv /\ TreeInv)'
  <2>1. CASE LayersNext
    BY <2>1, WalkInvStep, TreeInvStep
  <2>2. CASE UNCHANGED layersVars
    BY <2>2 DEF layersVars, WalkInv, TreeInv, Building, IsTree, WalkPaths, fileAt
  <2> QED
    BY <2>1, <2>2
<1> QED
  BY <1>1, <1>2, PTL DEF LayersSpec

\* What apko erofs ls and Stack's other readers see of a stack of layers, those of
\* a build or anybody's, has everything the kernel would show of them, as the same
\* entry, and is no more than that unless a directory was deleted and made again;
\* what a directory lists is what can be opened in it (Stack.lookup, mergeDir).
THEOREM StackKeepsToOverlay == LayersSpec => []StackLikeOverlay
<1>1. TreeInv => StackLikeOverlay
  BY StackShows, StackLists DEF TreeInv, StackLikeOverlay, StackShowsOverlay, ReadDirIsLookup
<1> QED
  BY <1>1, TreesInvariance, PTL

-----------------------------------------------------------------------------
(***************************************************************************)
(* groupByOriginAndSize: the groups are the components of what is tied.    *)
(***************************************************************************)
\* Two packages in one group.
Together(gs, p, q) == \E g \in gs : p \in g /\ q \in g

\* A set of packages that nothing outside is tied to.
Apart(pkgs, S) == \A q \in S, x \in pkgs \ S : ~Tied(q, x) /\ ~Tied(x, q)

\* The packages in groups: those of an origin together, and no group larger than
\* ties make it.
Partitioned(gs, pkgs) ==
  /\ {} \notin gs /\ UNION gs = pkgs
  /\ \A g, h \in gs : g \cap h # {} => g = h
  /\ \A p, q \in pkgs : p.origin = q.origin => Together(gs, p, q)
  /\ \A S \in SUBSET pkgs : Apart(pkgs, S) => \A g \in gs : g \cap S # {} => g \subseteq S

\* The origins are groups.
LEMMA OriginsPartition ==
  ASSUME NEW pkgs
  PROVE  Partitioned(byOrigin(pkgs), pkgs)
<1> DEFINE of(o) == {p \in pkgs : p.origin = o}
<1>1. \A p \in pkgs : p \in of(p.origin) /\ of(p.origin) \in byOrigin(pkgs)
  BY DEF byOrigin
<1>2. \A g \in byOrigin(pkgs) : \E p \in pkgs : g = of(p.origin)
  BY DEF byOrigin
<1>3. {} \notin byOrigin(pkgs) /\ UNION byOrigin(pkgs) = pkgs
  BY <1>1, <1>2
<1>4. ASSUME NEW g \in byOrigin(pkgs), NEW h \in byOrigin(pkgs), g \cap h # {} PROVE g = h
  <2>1. PICK p \in pkgs : g = of(p.origin)
    BY <1>2
  <2>2. PICK q \in pkgs : h = of(q.origin)
    BY <1>2
  <2>3. PICK x \in g \cap h : TRUE
    BY <1>4
  <2>4. x.origin = p.origin /\ x.origin = q.origin
    BY <2>1, <2>2, <2>3
  <2> QED
    BY <2>1, <2>2, <2>4
<1>5. \A p, q \in pkgs : p.origin = q.origin => Together(byOrigin(pkgs), p, q)
  BY <1>1 DEF Together
<1>6. ASSUME NEW S \in SUBSET pkgs, Apart(pkgs, S), NEW g \in byOrigin(pkgs), g \cap S # {}
      PROVE  g \subseteq S
  <2>1. PICK q \in g \cap S : TRUE
    BY <1>6
  <2>2. \A x \in g : x \in pkgs /\ Tied(q, x)
    BY <1>2, <2>1 DEF Tied
  <2> QED
    BY <1>6, <2>1, <2>2 DEF Apart
<1> QED
  BY <1>3, <1>4, <1>5, <1>6 DEF Partitioned

\* byPackage gives the group a package is in.
LEMMA GroupOf ==
  ASSUME NEW gs, NEW pkgs, ArePackages(pkgs), Partitioned(gs, pkgs), NEW g \in gs, NEW p \in g
  PROVE  byPackage(gs, p.name) = g /\ p \in pkgs
<1>1. \A h \in gs : (\E x \in h : x.name = p.name) => h = g
  <2> SUFFICES ASSUME NEW h \in gs, NEW x \in h, x.name = p.name PROVE h = g
    OBVIOUS
  <2>1. x \in pkgs /\ p \in pkgs
    BY DEF Partitioned
  <2>2. x = p
    BY <2>1 DEF ArePackages
  <2> QED
    BY <2>2 DEF Partitioned
<1>2. {h \in gs : \E x \in h : x.name = p.name} = {g}
  BY <1>1
<1>3. byPackage(gs, p.name) = UNION {g}
  BY <1>2 DEF byPackage
<1> QED
  BY <1>3 DEF Partitioned

\* One constraint brings together what it ties, and parts nothing.
LEMMA MergeOneFacts ==
  ASSUME NEW gs, NEW pkgs, ArePackages(pkgs), Partitioned(gs, pkgs),
         NEW p \in pkgs, NEW r \in Range(p.replaces)
  PROVE  /\ Partitioned(MergeOne(gs, p, r), pkgs)
         /\ \A x, y : Together(gs, x, y) => Together(MergeOne(gs, p, r), x, y)
         /\ \A q \in pkgs : replacesGroup(r, {q}) => Together(MergeOne(gs, p, r), p, q)
<1> DEFINE replacee == byPackage(gs, r.name)
<1>1. PICK g \in gs : p \in g
  BY DEF Partitioned
<1>2. byPackage(gs, p.name) = g
  BY <1>1, GroupOf
<1>3. CASE ~replacesGroup(r, replacee)
  <2>1. MergeOne(gs, p, r) = gs
    BY <1>3 DEF MergeOne
  <2>2. \A q \in pkgs : ~replacesGroup(r, {q})
    <3> SUFFICES ASSUME NEW q \in pkgs, replacesGroup(r, {q}) PROVE FALSE
      OBVIOUS
    <3>1. q.name = r.name /\ Satisfies(r, q.version)
      BY DEF replacesGroup
    <3>2. PICK h \in gs : q \in h
      BY DEF Partitioned
    <3>3. replacee = h
      BY <3>1, <3>2, GroupOf
    <3> QED
      BY <1>3, <3>1, <3>2, <3>3 DEF replacesGroup
  <2> QED
    BY <2>1, <2>2
<1>4. CASE replacesGroup(r, replacee)
  <2>1. PICK x \in replacee : x.name = r.name /\ Satisfies(r, x.version)
    BY <1>4 DEF replacesGroup
  <2>2. PICK h \in gs : x \in h
    BY DEF byPackage
  <2>3. replacee = h /\ x \in pkgs
    BY <2>1, <2>2, GroupOf
  <2> DEFINE new == (gs \ {g, h}) \cup {g \cup h}
  <2>4. MergeOne(gs, p, r) = new
    BY <1>2, <1>4, <2>3 DEF MergeOne
  <2>5. Tied(p, x)
    BY <2>1 DEF Tied, replacesGroup
  <2>6. \A y, z : Together(gs, y, z) => Together(new, y, z)
    BY DEF Together
  <2>7. {} \notin new /\ UNION new = pkgs
    <3>1. {} \notin gs /\ UNION gs = pkgs
      BY DEF Partitioned
    <3>2. \A y : (\E k \in new : y \in k) <=> \E k \in gs : y \in k
      BY <2>2
    <3>3. UNION new = UNION gs
      <4> HIDE DEF new
      <4> QED
        BY <3>2
    <3>4. g \cup h # {}
      BY <1>1
    <3> QED
      BY <3>1, <3>3, <3>4
  <2>8. ASSUME NEW a \in new, NEW b \in new, a \cap b # {} PROVE a = b
    <3>1. \A k \in gs \ {g, h} : k \cap g = {} /\ k \cap h = {}
      BY DEF Partitioned
    <3>2. CASE a = g \cup h /\ b \in gs \ {g, h}
      BY <2>8, <3>1, <3>2
    <3>3. CASE b = g \cup h /\ a \in gs \ {g, h}
      BY <2>8, <3>1, <3>3
    <3>4. CASE a \in gs /\ b \in gs
      BY <2>8, <3>4 DEF Partitioned
    <3> QED
      BY <3>2, <3>3, <3>4
  <2>9. \A y, z \in pkgs : y.origin = z.origin => Together(new, y, z)
    BY <2>6 DEF Partitioned
  <2>10. ASSUME NEW S \in SUBSET pkgs, Apart(pkgs, S), NEW k \in new, k \cap S # {} PROVE k \subseteq S
    <3>1. \A j \in gs : j \cap S # {} => j \subseteq S
      BY <2>10 DEF Partitioned
    <3>2. p \in S <=> x \in S
      BY <2>3, <2>5, <2>10 DEF Apart
    <3>3. CASE k \in gs
      BY <2>10, <3>1, <3>3
    <3>4. CASE k = g \cup h
      BY <1>1, <2>2, <2>10, <3>1, <3>2, <3>4
    <3> QED
      BY <3>3, <3>4
  <2>11. Partitioned(new, pkgs)
    <3> HIDE DEF new
    <3> QED
      BY <2>7, <2>8, <2>9, <2>10 DEF Partitioned
  <2>12. ASSUME NEW q \in pkgs, replacesGroup(r, {q}) PROVE Together(new, p, q)
    <3>1. q = x
      BY <2>1, <2>3, <2>12 DEF replacesGroup, ArePackages
    <3> QED
      BY <1>1, <2>2, <3>1 DEF Together
  <2> QED
    BY <2>4, <2>6, <2>11, <2>12
<1> QED
  BY <1>3, <1>4

\* An entry of replaceMap does what all its constraints do.
LEMMA MergeFacts ==
  ASSUME NEW gs, NEW pkgs, ArePackages(pkgs), Partitioned(gs, pkgs), NEW p \in pkgs
  PROVE  /\ Partitioned(MergeReplacing(gs, p), pkgs)
         /\ \A x, y : Together(gs, x, y) => Together(MergeReplacing(gs, p), x, y)
         /\ \A r \in Range(p.replaces) : \A q \in pkgs :
              replacesGroup(r, {q}) => Together(MergeReplacing(gs, p), p, q)
<1> DEFINE n == Len(p.replaces)
           D == DOMAIN p.replaces
           V == SUBSET SUBSET pkgs
           Rec(h) == [s \in SUBSET D |-> IF s = {} THEN gs
                                         ELSE MergeOne(h[s \ {Max(s)}], p, p.replaces[Max(s)])]
           c == [s \in SUBSET D |-> Max(s)]
           G == [iv \in D \X V |-> MergeOne(iv[2], p, p.replaces[iv[1]])]
           iter == CHOOSE h : h = Rec(h)
<1>1. D = 1..n /\ n \in Nat /\ IsFiniteSet(D)
  <2>1. p.replaces \in Seq(Range(p.replaces))
    BY DEF ArePackages
  <2>2. D = 1..n /\ n \in Nat
    BY <2>1, LenProperties
  <2> HIDE DEF n, D
  <2> QED
    BY <2>2, FS_Interval, 1 \in Int, n \in Int
<1>2. \A s \in SUBSET D : s # {} => Max(s) \in s /\ \A x \in s : x <= Max(s)
  <2> HIDE DEF n, D
  <2> QED
    BY <1>1, GreatestExists
<1>3. \A x \in D : \A v \in V : MergeOne(v, p, p.replaces[x]) \in V
  <2> TAKE x \in D
  <2> TAKE v \in V
  <2>1. byPackage(v, p.name) \in SUBSET pkgs /\ byPackage(v, p.replaces[x].name) \in SUBSET pkgs
    BY DEF byPackage
  <2> QED
    BY <2>1 DEF MergeOne
<1>4. PICK h \in [SUBSET D -> V] : FoldOf(D, gs, c, G, h)
  <2>1. gs \in V
    BY DEF Partitioned
  <2>2. \A s \in SUBSET D : s # {} => c[s] \in s
    BY <1>2
  <2>3. \A x \in D : \A v \in V : G[<<x, v>>] \in V
    BY <1>3
  <2> HIDE DEF c, G, V, D
  <2>4. Foldable(D, V, gs, c, G)
    BY <1>1, <2>1, <2>2, <2>3 DEF Foldable
  <2> QED
    BY <2>4, FoldExists
<1>5. h = Rec(h)
  <2>1. ASSUME NEW s \in SUBSET D
        PROVE  h[s] = IF s = {} THEN gs ELSE MergeOne(h[s \ {Max(s)}], p, p.replaces[Max(s)])
    <3>1. h[s] = IF s = {} THEN gs ELSE G[<<c[s], h[s \ {c[s]}]>>]
      BY <1>4 DEF FoldOf
    <3>2. CASE s = {}
      BY <3>1, <3>2
    <3>3. CASE s # {}
      <4>1. c[s] = Max(s) /\ Max(s) \in D /\ h[s \ {c[s]}] \in V
        BY <1>2, <3>3
      <4>2. G[<<c[s], h[s \ {c[s]}]>>] = MergeOne(h[s \ {c[s]}], p, p.replaces[c[s]])
        <5> HIDE DEF c, V, D
        <5> QED
          BY <4>1
      <4> QED
        BY <3>1, <3>3, <4>1, <4>2
    <3> QED
      BY <3>2, <3>3
  <2> QED
    BY <2>1
<1>6. iter = Rec(iter)
  <2> HIDE DEF Rec
  <2> QED
    BY <1>5
<1>7. MergeReplacing(gs, p) = iter[D]
  BY Zenon DEF MergeReplacing, FoldLeft, MapThenFoldSet
<1> DEFINE at(k) == iter[1..k]
           Claim(k) ==
             /\ Partitioned(at(k), pkgs)
             /\ \A x, y : Together(gs, x, y) => Together(at(k), x, y)
             /\ \A i \in 1..k : \A q \in pkgs :
                  replacesGroup(p.replaces[i], {q}) => Together(at(k), p, q)
           Q == {k \in Nat : k <= n => Claim(k)}
<1>8. Claim(0)
  <2>1. at(0) = gs
    <3>1. 1..0 = {} /\ {} \in SUBSET D
      OBVIOUS
    <3>2. iter[{}] = Rec(iter)[{}]
      BY <1>6
    <3>3. Rec(iter)[{}] = gs
      BY <3>1
    <3> QED
      BY <3>1, <3>2, <3>3
  <2> HIDE DEF at
  <2> QED
    BY <2>1
<1>9. ASSUME NEW k \in Nat, k + 1 <= n, Claim(k) PROVE Claim(k + 1)
  <2>1. at(k + 1) = MergeOne(at(k), p, p.replaces[k + 1])
    <3> DEFINE s == 1..k + 1
    <3>1. s \in SUBSET D /\ s # {} /\ k + 1 \in s
      BY <1>1, <1>9
    <3>2. Max(s) = k + 1
      <4>1. Max(s) \in s /\ \A x \in s : x <= Max(s)
        BY <1>2, <3>1
      <4> QED
        BY <3>1, <4>1
    <3>3. s \ {k + 1} = 1..k
      OBVIOUS
    <3>4. iter[s] = Rec(iter)[s]
      BY <1>6
    <3>5. Rec(iter)[s] = MergeOne(iter[s \ {Max(s)}], p, p.replaces[Max(s)])
      BY <3>1
    <3> QED
      BY <3>2, <3>3, <3>4, <3>5
  <2>2. p.replaces[k + 1] \in Range(p.replaces)
    <3>1. k + 1 \in D
      BY <1>1, <1>9
    <3> QED
      BY <3>1 DEF Range
  <2> HIDE DEF at
  <2>3. /\ Partitioned(at(k + 1), pkgs)
        /\ \A x, y : Together(at(k), x, y) => Together(at(k + 1), x, y)
        /\ \A q \in pkgs : replacesGroup(p.replaces[k + 1], {q}) => Together(at(k + 1), p, q)
    BY <1>9, <2>1, <2>2, MergeOneFacts
  <2>4. \A i \in 1..k + 1 : i = k + 1 \/ i \in 1..k
    OBVIOUS
  <2> QED
    BY <1>9, <2>3, <2>4
<1>10. Claim(n)
  <2> HIDE DEF Claim, n
  <2>1. Q \in SUBSET Nat /\ 0 \in Q
    BY <1>8
  <2>2. \A k \in Q : k + 1 \in Q
    BY <1>1, <1>9
  <2>3. Q = Nat
    <3> HIDE DEF Q
    <3> QED
      BY <2>1, <2>2, AllNumbers
  <2> QED
    BY <1>1, <2>3
<1>11. at(n) = MergeReplacing(gs, p)
  BY <1>1, <1>7
<1>12. \A r \in Range(p.replaces) : \E i \in 1..n : r = p.replaces[i]
  BY <1>1 DEF Range
<1> HIDE DEF at, n
<1> QED
  BY <1>10, <1>11, <1>12

\* Groups are ordered by their sizes and the last of their names.
Ordered(gs) ==
  /\ \A a \in gs : ~Before(a, a)
  /\ \A a, b \in gs : a # b => Before(a, b) \/ Before(b, a)
  /\ \A a, b, c \in gs : Before(a, b) /\ Before(b, c) => Before(a, c)

LEMMA GroupsAreOrdered ==
  ASSUME NEW gs, NEW pkgs, ArePackages(pkgs), Partitioned(gs, pkgs)
  PROVE  IsFiniteSet(gs) /\ Ordered(gs)
<1>1. gs \in SUBSET SUBSET pkgs /\ IsFiniteSet(pkgs)
  BY DEF Partitioned, ArePackages
<1>2. IsFiniteSet(gs)
  <2>1. IsFiniteSet(SUBSET pkgs)
    BY <1>1, FS_SUBSET
  <2> QED
    BY <1>1, <2>1, FS_Subset
<1>3. ASSUME NEW a \in gs
      PROVE  size(a) \in Nat /\ tiebreaker(a) \in Nat /\ \E p \in a : p.name = tiebreaker(a)
  <2>1. a \in SUBSET pkgs /\ a # {} /\ IsFiniteSet(a)
    BY <1>1, FS_Subset DEF Partitioned
  <2>2. \A p \in a : p.size \in Nat /\ p.name \in Nat
    BY <2>1 DEF ArePackages
  <2>3. size(a) \in Nat
    BY <2>1, <2>2, SizeIsNumber
  <2> DEFINE names == {p.name : p \in a}
  <2>4. names \in SUBSET Nat /\ names # {}
    BY <2>1, <2>2
  <2>5. IsFiniteSet(names)
    <3> DEFINE nameOf == [p \in a |-> p.name]
    <3>1. nameOf \in Surjection(a, names)
      BY DEF Surjection
    <3> HIDE DEF nameOf, names
    <3> QED
      BY <2>1, <3>1, FS_Surjection
  <2>6. Max(names) \in names
    <3> HIDE DEF names
    <3> QED
      BY <2>4, <2>5, MaxExists
  <2>7. tiebreaker(a) \in names
    BY <2>6 DEF tiebreaker
  <2> QED
    BY <2>2, <2>3, <2>7
<1>4. ASSUME NEW a \in gs, NEW b \in gs, tiebreaker(a) = tiebreaker(b) PROVE a = b
  <2>1. PICK p \in a : p.name = tiebreaker(a)
    BY <1>3
  <2>2. PICK q \in b : q.name = tiebreaker(b)
    BY <1>3
  <2>3. p = q
    BY <1>1, <1>4, <2>1, <2>2 DEF ArePackages
  <2> QED
    BY <2>3 DEF Partitioned
<1>5. \A a \in gs : ~Before(a, a)
  BY <1>3 DEF Before
<1>6. \A a, b \in gs : a # b => Before(a, b) \/ Before(b, a)
  BY <1>3, <1>4 DEF Before
<1>7. \A a, b, c \in gs : Before(a, b) /\ Before(b, c) => Before(a, c)
  BY <1>3 DEF Before
<1> QED
  BY <1>2, <1>5, <1>6, <1>7 DEF Ordered

\* The sorted groups are all the groups, each once and after those before it.
LEMMA SortedFacts ==
  ASSUME NEW gs, IsFiniteSet(gs), Ordered(gs)
  PROVE  /\ sortedGroups(gs) \in Seq(gs) /\ Len(sortedGroups(gs)) = Cardinality(gs)
         /\ \A g \in gs : \E k \in 1..Cardinality(gs) : sortedGroups(gs)[k] = g
         /\ \A k, l \in 1..Cardinality(gs) :
              k < l => Before(sortedGroups(gs)[k], sortedGroups(gs)[l]) /\ sortedGroups(gs)[k] # sortedGroups(gs)[l]
<1> DEFINE n == Cardinality(gs)
           Under(g) == {h \in gs : Before(h, g)}
           rank == [g \in gs |-> Cardinality(Under(g)) + 1]
           L == sortedGroups(gs)
<1>1. n \in Nat
  BY FS_CardinalityType
<1>2. \A g \in gs : IsFiniteSet(Under(g)) /\ Cardinality(Under(g)) \in 0..(n - 1)
  <2> TAKE g \in gs
  <2>1. Under(g) \in SUBSET gs /\ g \in gs /\ g \notin Under(g)
    BY DEF Ordered
  <2> HIDE DEF Under
  <2>2. IsFiniteSet(Under(g)) /\ Cardinality(Under(g)) <= n /\ Cardinality(Under(g)) # n
    BY <2>1, FS_Subset
  <2>3. Cardinality(Under(g)) \in Nat
    BY <2>2, FS_CardinalityType
  <2> QED
    BY <1>1, <2>2, <2>3
<1>3. \A g, h \in gs : Before(g, h) => Cardinality(Under(g)) < Cardinality(Under(h))
  <2> SUFFICES ASSUME NEW g \in gs, NEW h \in gs, Before(g, h)
               PROVE  Cardinality(Under(g)) < Cardinality(Under(h))
    OBVIOUS
  <2>1. Under(g) \in SUBSET Under(h) /\ g \in Under(h) /\ g \notin Under(g)
    BY DEF Ordered
  <2> HIDE DEF Under, n
  <2>2. IsFiniteSet(Under(h)) /\ Cardinality(Under(g)) \in Nat /\ Cardinality(Under(h)) \in Nat
    BY <1>1, <1>2
  <2> QED
    BY <2>1, <2>2, FS_Subset
<1>4. \A g \in gs : Cardinality(Under(g)) \in Nat
  <2> HIDE DEF Under, n
  <2> QED
    BY <1>1, <1>2
<1> HIDE DEF Under, L, n
<1>5. \A g, h \in gs : Cardinality(Under(g)) = Cardinality(Under(h)) => g = h
  BY <1>3, <1>4 DEF Ordered
<1>6. \A g, h \in gs : Cardinality(Under(g)) < Cardinality(Under(h)) => Before(g, h)
  BY <1>3, <1>4 DEF Ordered
<1>7. L = [k \in 1..n |-> CHOOSE g \in gs : Cardinality(Under(g)) = k - 1]
  BY DEF L, Under, n, sortedGroups
<1>8. rank \in Injection(gs, 1..n)
  <2>1. \A g \in gs : rank[g] \in 1..n
    BY <1>1, <1>2
  <2>2. \A g, h \in gs : rank[g] = rank[h] => g = h
    BY <1>1, <1>2, <1>5
  <2>3. rank \in [gs -> 1..n]
    BY <2>1
  <2> HIDE DEF rank
  <2> QED
    BY <2>2, <2>3 DEF Injection, IsInjective
<1>9. rank \in Surjection(gs, 1..n)
  <2>1. IsFiniteSet(1..n) /\ Cardinality(1..n) = n
    BY <1>1, FS_Interval
  <2> HIDE DEF rank
  <2> QED
    BY <1>8, <2>1, FS_Injection DEF n
<1>10. \A k \in 1..n : \E g \in gs : Cardinality(Under(g)) = k - 1
  <2> TAKE k \in 1..n
  <2>1. PICK g \in gs : rank[g] = k
    BY <1>9 DEF Surjection
  <2> QED
    BY <1>1, <1>2, <2>1
<1>11. \A k \in 1..n : L[k] \in gs /\ Cardinality(Under(L[k])) = k - 1
  BY <1>7, <1>10
<1>12. L \in Seq(gs) /\ Len(L) = n
  BY <1>1, <1>7, <1>11
<1>13. \A g \in gs : \E k \in 1..n : L[k] = g
  <2> TAKE g \in gs
  <2>1. PICK k \in 1..n : k - 1 = Cardinality(Under(g))
    <3>1. Cardinality(Under(g)) + 1 \in 1..n
      BY <1>1, <1>2
    <3> QED
      BY <1>2, <3>1
  <2> QED
    BY <1>5, <1>11, <2>1
<1>14. \A k, l \in 1..n : k < l => Before(L[k], L[l]) /\ L[k] # L[l]
  <2> TAKE k, l \in 1..n
  <2> HAVE k < l
  <2>1. Cardinality(Under(L[k])) < Cardinality(Under(L[l]))
    BY <1>1, <1>11
  <2>2. L[k] # L[l]
    BY <1>4, <1>11, <2>1
  <2> QED
    BY <1>6, <1>11, <2>1, <2>2
<1> QED
  BY <1>12, <1>13, <1>14 DEF L, n

\* Once every constraint has been looked at, the groups are the components.
LEMMA GroupsAreComponents ==
  ASSUME NEW gs, NEW pkgs, Partitioned(gs, pkgs),
         \A p, q \in pkgs : Tied(p, q) => Together(gs, p, q)
  PROVE  gs = {Component(pkgs, p) : p \in pkgs}
<1>1. ASSUME NEW g \in gs, NEW p \in g PROVE p \in pkgs /\ Component(pkgs, p) = g
  <2> DEFINE closed == {S \in SUBSET pkgs : p \in S /\ Apart(pkgs, S)}
  <2>1. g \in SUBSET pkgs
    BY DEF Partitioned
  <2>2. Apart(pkgs, g)
    <3> SUFFICES ASSUME NEW q \in g, NEW x \in pkgs \ g, Tied(q, x) \/ Tied(x, q) PROVE FALSE
      BY DEF Apart
    <3>1. Together(gs, q, x) \/ Together(gs, x, q)
      BY <2>1
    <3>2. PICK h \in gs : q \in h /\ x \in h
      BY <3>1 DEF Together
    <3> QED
      BY <3>2 DEF Partitioned
  <2>3. \A T \in closed : g \subseteq T
    BY DEF Partitioned
  <2>4. g \in closed
    BY <2>1, <2>2
  <2>5. Component(pkgs, p) = CHOOSE S \in closed : \A T \in closed : S \subseteq T
    BY DEF Component, Apart
  <2> HIDE DEF closed
  <2>6. \A S \in closed : (\A T \in closed : S \subseteq T) => S = g
    BY <2>3, <2>4
  <2> QED
    BY <2>1, <2>3, <2>4, <2>5, <2>6
<1>2. \A g \in gs : \E p \in g : TRUE
  BY DEF Partitioned
<1>3. \A p \in pkgs : \E g \in gs : p \in g
  BY DEF Partitioned
<1> QED
  BY <1>1, <1>2, <1>3

\* The larger and the smaller of two numbers.
LEMMA OfTwo ==
  ASSUME NEW a \in Nat, NEW b \in Nat
  PROVE  /\ Max({a, b}) = IF a >= b THEN a ELSE b
         /\ Min({a, b}) = IF a <= b THEN a ELSE b
BY DEF Max, Min

\* What is kept are the components, the last layer the rest of them.
LEMMA KeptFacts ==
  ASSUME NEW gs, NEW pkgs, NEW budget \in Nat, ArePackages(pkgs), Partitioned(gs, pkgs),
         \A p, q \in pkgs : Tied(p, q) => Together(gs, p, q)
  PROVE  GroupedByTies(pkgs, budget, Kept(gs, budget)) /\ Kept(gs, budget) \in Seq(SUBSET pkgs)
<1> DEFINE n == Cardinality(gs)
           L == sortedGroups(gs)
           cutoff == IF budget = 0 THEN 0 ELSE budget - 1
           K == Kept(gs, budget)
           comps == {Component(pkgs, p) : p \in pkgs}
           alone == IF n <= budget THEN Len(K) ELSE Len(K) - 1
<1>1. IsFiniteSet(gs) /\ Ordered(gs) /\ n \in Nat
  BY GroupsAreOrdered, FS_CardinalityType
<1>2. comps = gs
  BY GroupsAreComponents
<1>3. /\ L \in Seq(gs) /\ Len(L) = n
      /\ \A k \in 1..n : L[k] \in gs
      /\ \A g \in gs : \E k \in 1..n : L[k] = g
      /\ \A k, l \in 1..n : k < l => Before(L[k], L[l]) /\ L[k] # L[l]
  <2>1. /\ L \in Seq(gs) /\ Len(L) = n
        /\ \A g \in gs : \E k \in 1..n : L[k] = g
        /\ \A k, l \in 1..n : k < l => Before(L[k], L[l]) /\ L[k] # L[l]
    BY <1>1, SortedFacts
  <2> HIDE DEF L, n
  <2> QED
    BY <2>1
<1>4. \A k, l \in 1..n : k # l => L[k] \cap L[l] = {}
  <2> SUFFICES ASSUME NEW k \in 1..n, NEW l \in 1..n, k # l PROVE L[k] \cap L[l] = {}
    OBVIOUS
  <2>1. L[k] # L[l]
    <3> HIDE DEF L, n
    <3> QED
      BY <1>1, <1>3
  <2> QED
    BY <1>3, <2>1 DEF Partitioned
<1>5. pkgs # {} => n >= 1
  <2>1. pkgs # {} => gs # {}
    BY DEF Partitioned
  <2> QED
    BY <1>1, <2>1, FS_EmptySet
<1>6. UNION gs = pkgs
  BY DEF Partitioned
<1> DEFINE rest == UNION {L[k] : k \in cutoff + 1..n}
           m == Len(K)
\* The layers: the first ones of the sorted groups, and what is left of them.
<1>7. /\ m \in Nat /\ alone \in 0..n /\ cutoff \in Nat
      /\ n <= budget => m = n /\ alone = n
      /\ n > budget => m = alone + 1 /\ alone = cutoff /\ cutoff < n
      /\ K \in Seq(SUBSET pkgs)
      /\ \A k \in 1..alone : K[k] = L[k]
      /\ n > budget => K[alone + 1] = rest
  <2>1. cutoff \in Nat /\ (n > budget => cutoff < n)
    BY <1>1
  <2> HIDE DEF L, n, cutoff
  <2>2. \A k \in 1..n : L[k] \in SUBSET pkgs
    BY <1>3, <1>6
  <2>3. CASE n <= budget
    <3>1. K = L
      BY <1>1, <1>3, <2>3 DEF Kept, L, cutoff
    <3>2. L \in Seq(SUBSET pkgs)
      BY <1>3, <1>6
    <3> QED
      BY <1>1, <1>3, <2>1, <2>3, <3>1, <3>2
  <2>4. CASE n > budget
    <3> DEFINE F == SubSeq(L, 1, cutoff)
               R == SubSeq(L, cutoff + 1, n)
    <3>1. K = Append(F, UNION Range(R))
      BY <1>1, <1>3, <2>4 DEF Kept, L, cutoff
    <3>2. F \in Seq(gs) /\ Len(F) = cutoff /\ \A k \in 1..cutoff : F[k] = L[k]
      BY <1>1, <1>3, <2>1, <2>4, SubSeqProperties
    <3>3. R \in Seq(gs) /\ Len(R) = n - cutoff /\ \A k \in 1..n - cutoff : R[k] = L[cutoff + k]
      <4>1. cutoff + 1 \in Int /\ n \in Int /\ cutoff + 1 <= n /\ \A i \in cutoff + 1..n : L[i] \in gs
        BY <1>1, <1>3, <2>1, <2>4
      <4>2. /\ R \in Seq(gs) /\ Len(R) = n - (cutoff + 1) + 1
            /\ \A k \in 1..n - (cutoff + 1) + 1 : R[k] = L[cutoff + 1 + k - 1]
        BY <4>1, SubSeqProperties
      <4>3. n - (cutoff + 1) + 1 = n - cutoff /\ \A k \in 1..n - cutoff : cutoff + 1 + k - 1 = cutoff + k
        BY <1>1, <2>1
      <4> HIDE DEF R
      <4> QED
        BY <4>2, <4>3
    <3>4. UNION Range(R) = rest
      <4>1. Range(R) = {R[k] : k \in 1..n - cutoff}
        <5> HIDE DEF R
        <5> QED
          BY <3>3 DEF Range
      <4>2. \A k \in 1..n - cutoff : cutoff + k \in cutoff + 1..n
        BY <1>1, <2>1
      <4>3. \A l \in cutoff + 1..n : l - cutoff \in 1..n - cutoff /\ cutoff + (l - cutoff) = l
        BY <1>1, <2>1
      <4> HIDE DEF R
      <4>4. {R[k] : k \in 1..n - cutoff} = {L[l] : l \in cutoff + 1..n}
        BY <3>3, <4>2, <4>3
      <4> QED
        BY <4>1, <4>4
    <3>5. rest \in SUBSET pkgs
      BY <1>1, <2>1, <2>2
    <3> HIDE DEF F, R, rest
    <3>6. F \in Seq(SUBSET pkgs)
      BY <1>6, <3>2
    <3>7. /\ K \in Seq(SUBSET pkgs) /\ Len(K) = cutoff + 1
          /\ \A k \in 1..cutoff : K[k] = F[k]
          /\ K[cutoff + 1] = rest
      <4> HIDE DEF K
      <4> QED
        BY <2>1, <3>1, <3>2, <3>4, <3>5, <3>6, AppendProperties
    <3> QED
      BY <1>1, <2>1, <2>4, <3>2, <3>7
  <2> QED
    BY <1>1, <2>3, <2>4
<1> HIDE DEF K, L, n, cutoff, alone, comps, m
<1>8. DOMAIN K = 1..m /\ Range(K) = {K[k] : k \in 1..m} /\ \A k \in 1..m : K[k] \in SUBSET pkgs
  BY <1>7 DEF Range, m
<1>9. pkgs # {} => m = Min({n, Max({budget, 1})})
  <2>1. Max({budget, 1}) = IF budget >= 1 THEN budget ELSE 1
    BY OfTwo
  <2>2. Max({budget, 1}) \in Nat
    BY <2>1
  <2>3. Min({n, Max({budget, 1})}) = IF n <= Max({budget, 1}) THEN n ELSE Max({budget, 1})
    BY <1>1, <2>2, OfTwo
  <2>4. n > budget => cutoff + 1 = Max({budget, 1})
    BY <2>1 DEF cutoff
  <2> QED
    BY <1>1, <1>5, <1>7, <2>1, <2>3, <2>4
<1>10. \A k \in 1..n : k \in 1..alone \/ (n > budget /\ k \in cutoff + 1..n)
  BY <1>1, <1>7
<1>11. \A k \in 1..m : k \in 1..alone \/ (n > budget /\ k = alone + 1)
  BY <1>1, <1>7
<1>12. /\ \A k \in 1..alone : k \in 1..n /\ k \in 1..m
       /\ n > budget => alone + 1 \in 1..m
  BY <1>1, <1>7
<1>13. ASSUME NEW g \in gs PROVE \E k \in 1..m : g \subseteq K[k]
  <2>1. PICK k \in 1..n : L[k] = g
    BY <1>3
  <2>2. CASE k \in 1..alone
    BY <1>7, <1>12, <2>1, <2>2
  <2>3. CASE n > budget /\ k \in cutoff + 1..n
    BY <1>7, <1>12, <2>1, <2>3
  <2> QED
    BY <1>10, <2>2, <2>3
<1>14. UNION Range(K) = pkgs
  BY <1>6, <1>8, <1>13
<1>15. ASSUME NEW i \in 1..m, NEW j \in 1..m, i # j PROVE K[i] \cap K[j] = {}
  <2>1. ASSUME NEW k \in 1..alone, n > budget PROVE L[k] \cap rest = {}
    <3>1. \A l \in cutoff + 1..n : l \in 1..n /\ l # k
      BY <1>1, <1>7, <2>1
    <3>2. \A l \in cutoff + 1..n : L[k] \cap L[l] = {}
      BY <1>4, <1>12, <3>1
    <3> QED
      BY <3>2
  <2>2. CASE i \in 1..alone /\ j \in 1..alone
    BY <1>4, <1>7, <1>12, <1>15, <2>2
  <2>3. CASE i \in 1..alone /\ n > budget /\ j = alone + 1
    BY <1>7, <2>1, <2>3
  <2>4. CASE j \in 1..alone /\ n > budget /\ i = alone + 1
    BY <1>7, <2>1, <2>4
  <2> QED
    BY <1>11, <1>15, <2>2, <2>3, <2>4
<1>16. ASSUME NEW i \in 1..alone, NEW c \in gs \ Range(SubSeq(K, 1, i)) PROVE Before(K[i], c)
  <2>1. PICK k \in 1..n : L[k] = c
    BY <1>3
  <2>2. i \in 1..n /\ i \in 1..m
    BY <1>12
  <2>3. \A l \in 1..i : K[l] \in Range(SubSeq(K, 1, i))
    <3> DEFINE F == SubSeq(K, 1, i)
    <3>1. F \in Seq(SUBSET pkgs) /\ Len(F) = i /\ \A l \in 1..i : F[l] = K[l]
      <4>1. i \in 0..Len(K)
        BY <1>7, <2>2 DEF m
      <4> QED
        BY <1>7, <4>1, SubSeqProperties
    <3> HIDE DEF F
    <3>2. DOMAIN F = 1..i
      BY <3>1, LenProperties
    <3>3. \A l \in 1..i : K[l] \in Range(F)
      BY <3>1, <3>2 DEF Range
    <3> QED
      BY <3>3 DEF F
  <2>4. ~(k <= i)
    <3> SUFFICES ASSUME k <= i PROVE FALSE
      OBVIOUS
    <3>1. k \in 1..i /\ k \in 1..alone
      BY <1>1, <1>7
    <3> QED
      BY <1>7, <1>16, <2>1, <2>3, <3>1
  <2>5. Before(L[i], L[k])
    BY <1>1, <1>3, <2>2, <2>4
  <2> QED
    BY <1>7, <2>1, <2>5
<1> QED
  <2>1. Cardinality(comps) = n
    BY <1>2 DEF n
  <2>2. \A i \in 1..alone :
          /\ K[i] \in comps
          /\ \A c \in comps \ Range(SubSeq(K, 1, i)) : Before(K[i], c)
    BY <1>2, <1>3, <1>7, <1>12, <1>16
  <2>3. \A c \in comps : \E g \in Range(K) : c \subseteq g
    BY <1>2, <1>8, <1>13
  <2>4. alone = IF Cardinality(comps) <= budget THEN Len(K) ELSE Len(K) - 1
    BY <2>1 DEF alone
  <2>5. pkgs # {} => Len(K) = Min({Cardinality(comps), Max({budget, 1})})
    BY <1>9, <2>1 DEF m
  <2>6. \A i, j \in 1..Len(K) : i # j => K[i] \cap K[j] = {}
    BY <1>15 DEF m
  <2> HIDE DEF rest
  <2>7. GroupedByTies(pkgs, budget, K) <=>
          /\ UNION Range(K) = pkgs
          /\ \A i, j \in 1..Len(K) : i # j => K[i] \cap K[j] = {}
          /\ pkgs # {} => Len(K) = Min({Cardinality(comps), Max({budget, 1})})
          /\ \A i \in 1..alone :
               /\ K[i] \in comps
               /\ \A c \in comps \ Range(SubSeq(K, 1, i)) : Before(K[i], c)
          /\ \A c \in comps : \E g \in Range(K) : c \subseteq g
    BY <2>4, Zenon DEF GroupedByTies, comps
  <2> QED
    BY <1>7, <1>14, <2>2, <2>3, <2>5, <2>6, <2>7 DEF K

\* The groups so far: what an entry of replaceMap that was looked at ties is
\* together. The packages are those the build started with.
GroupInv ==
  /\ {"pkgs", "budget", "walk"} \subseteq DOMAIN sc
  /\ ArePackages(sc.pkgs) /\ sc.budget \in Nat
  /\ Partitioned(part, sc.pkgs) /\ replaceMap \subseteq sc.pkgs
  /\ \A p \in sc.pkgs \ replaceMap : \A r \in Range(p.replaces) : \A q \in sc.pkgs :
       replacesGroup(r, {q}) => Together(part, p, q)
  /\ GroupsOrderless /\ groups \in Seq(SUBSET sc.pkgs)

LEMMA GroupInvInit ==
  ASSUME LayersInit
  PROVE  GroupInv
<1>1. ArePackages({}) /\ 0 \in Nat
  BY FS_EmptySet DEF ArePackages
<1>2. /\ {"pkgs", "budget", "walk"} \subseteq DOMAIN sc
      /\ ArePackages(sc.pkgs) /\ sc.budget \in Nat
  <2>1. CASE sc = NoBuild
    BY <1>1, <2>1 DEF NoBuild
  <2>2. CASE sc \in Scenarios
    BY <2>2, LayersAssumption
  <2> QED
    BY <2>1, <2>2 DEF LayersInit
<1>3. Partitioned(part, sc.pkgs)
  BY OriginsPartition DEF LayersInit
<1>4. \A p \in sc.pkgs \ replaceMap : Range(p.replaces) = {}
  BY DEF LayersInit, Range
<1>5. replaceMap \subseteq sc.pkgs /\ groups = <<>> /\ groups \in Seq(SUBSET sc.pkgs)
  BY DEF LayersInit
<1> QED
  BY <1>2, <1>3, <1>4, <1>5 DEF GroupInv, GroupsOrderless

LEMMA GroupInvStep ==
  ASSUME GroupInv, LayersNext
  PROVE  GroupInv'
<1> USE DEF GroupInv
<1>1. CASE MergeReplaced
  <2>1. sc' = sc /\ groups' = groups
    BY <1>1 DEF MergeReplaced
  <2>2. PICK p \in replaceMap : part' = MergeReplacing(part, p) /\ replaceMap' = replaceMap \ {p}
    BY <1>1 DEF MergeReplaced
  <2>3. p \in sc.pkgs
    BY <2>2
  <2>4. /\ Partitioned(part', sc.pkgs)
        /\ \A x, y : Together(part, x, y) => Together(part', x, y)
        /\ \A r \in Range(p.replaces) : \A q \in sc.pkgs :
             replacesGroup(r, {q}) => Together(part', p, q)
    BY <2>2, <2>3, MergeFacts
  <2>5. \A o \in sc.pkgs \ replaceMap' : o = p \/ o \in sc.pkgs \ replaceMap
    BY <2>2
  <2>6. \A o \in sc.pkgs \ replaceMap' : \A r \in Range(o.replaces) : \A q \in sc.pkgs :
          replacesGroup(r, {q}) => Together(part', o, q)
    BY <2>4, <2>5
  <2>7. GroupsOrderless'
    BY <2>1 DEF GroupsOrderless
  <2> QED
    BY <2>1, <2>2, <2>4, <2>6, <2>7
<1>2. CASE PickGroups
  <2>1. UNCHANGED <<sc, part, replaceMap>> /\ replaceMap = {} /\ groups' = Kept(part, sc.budget)
    BY <1>2 DEF PickGroups
  <2>2. \A p, q \in sc.pkgs : Tied(p, q) => Together(part, p, q)
    BY <2>1 DEF Tied, Partitioned
  <2>3. GroupedByTies(sc.pkgs, sc.budget, groups') /\ groups' \in Seq(SUBSET sc.pkgs)
    BY <2>1, <2>2, KeptFacts
  <2> QED
    BY <2>1, <2>3 DEF GroupsOrderless
<1>3. CASE ~MergeReplaced /\ ~PickGroups
  <2>1. /\ sc' = sc \/ \E w : sc' = [sc EXCEPT !.walk = w]
        /\ UNCHANGED <<part, replaceMap, groups>>
    BY <1>3 DEF LayersNext, RecordPackage, FinishRecord, MergeReplaced, PickGroups, CreateLayerFile, OpenWriter, Visit,
         FinishTar, StartDigests, DigestFile, Digested, Render, FinishRender, VisitErofs, FinishErofs,
         ReadForeign, Fail
  <2>2. sc'.pkgs = sc.pkgs /\ sc'.budget = sc.budget /\ DOMAIN sc' = DOMAIN sc
    BY <2>1
  <2> QED
    BY <2>1, <2>2 DEF GroupsOrderless
<1> QED
  BY <1>1, <1>2, <1>3

\* Whatever the order in which groupByOriginAndSize walks its maps, for any
\* packages and any budget: the layers are those of the packages that an origin
\* or a satisfied `replaces` ties together, the largest ones on their own.
THEOREM GroupsAreTies == LayersSpec => []GroupsOrderless
<1>1. LayersInit => GroupInv
  BY GroupInvInit
<1>2. GroupInv /\ [LayersNext]_layersVars => GroupInv'
  <2>1. CASE LayersNext
    BY <2>1, GroupInvStep
  <2>2. CASE UNCHANGED layersVars
    BY <2>2 DEF layersVars, GroupInv, GroupsOrderless
  <2> QED
    BY <2>1, <2>2
<1>3. GroupInv => GroupsOrderless
  BY DEF GroupInv
<1> QED
  BY <1>1, <1>2, <1>3, PTL DEF LayersSpec

-----------------------------------------------------------------------------
(***************************************************************************)
(* partitionLayers: directories have the times of files in their layer.    *)
(***************************************************************************)
Timely(s) ==
  /\ s \in Seq(Range(s))
  /\ \A d \in Range(s) : d.kind = "dir" => \E e \in Range(s) : e.kind # "dir" /\ e.time = d.time

\* Directories that were walked.
Dirs == Seq(WalkPaths)

\* What is in two sequences is in one after the other.
LEMMA RangeOfBoth ==
  ASSUME NEW s, s \in Seq(Range(s)), NEW t, t \in Seq(Range(t))
  PROVE  s \o t \in Seq(Range(s \o t)) /\ Range(s \o t) = Range(s) \cup Range(t)
<1> DEFINE S == Range(s) \cup Range(t)
           u == s \o t
           n == Len(u)
<1>1. s \in Seq(S) /\ t \in Seq(S)
  OBVIOUS
<1>2. /\ Len(s) \in Nat /\ DOMAIN s = 1..Len(s)
      /\ Len(t) \in Nat /\ DOMAIN t = 1..Len(t)
  BY LenProperties
<1> HIDE DEF S
<1>3. u \in Seq(S) /\ Len(u) = Len(s) + Len(t)
      /\ \A i \in 1..Len(s) + Len(t) : u[i] = IF i <= Len(s) THEN s[i] ELSE t[i - Len(s)]
  BY <1>1, ConcatProperties
<1> HIDE DEF u
<1>4. n \in Nat /\ u \in [1..n -> S] /\ DOMAIN u = 1..Len(s) + Len(t)
  BY <1>2, <1>3, LenProperties
<1>5. u \in Seq(Range(u))
  <2> HIDE DEF n
  <2> QED
    BY <1>4, OwnRange
<1>6. \A i \in 1..Len(s) : i \in DOMAIN u /\ u[i] = s[i]
  BY <1>2, <1>3, <1>4
<1>7. \A i \in 1..Len(t) : Len(s) + i \in DOMAIN u /\ u[Len(s) + i] = t[i]
  <2> TAKE i \in 1..Len(t)
  <2>1. Len(s) + i \in 1..Len(s) + Len(t) /\ ~(Len(s) + i <= Len(s)) /\ Len(s) + i - Len(s) = i
    BY <1>2
  <2> QED
    BY <1>3, <1>4, <2>1
<1>8. \A i \in DOMAIN u : u[i] \in Range(s) \cup Range(t)
  BY <1>3, <1>4, LenProperties DEF S
<1>9. Range(u) = Range(s) \cup Range(t)
  BY <1>2, <1>6, <1>7, <1>8 DEF Range
<1> QED
  BY <1>5, <1>9 DEF u

LEMMA BothTimely ==
  ASSUME NEW s, Timely(s), NEW t, Timely(t)
  PROVE  Timely(s \o t)
BY RangeOfBoth DEF Timely

\* Stacks of directories stay such.
LEMMA MissingFacts ==
  ASSUME NEW old \in Dirs, NEW main \in Dirs, NEW f
  PROVE  missing(old, main) \in Dirs /\ without(missing(old, main), f) \in Dirs
<1> DEFINE shorter == Min({Len(old), Len(main)})
           same == {i \in 0..shorter : \A k \in 1..i : old[k] = main[k]}
           m == SubSeq(main, Max(same) + 1, Len(main))
<1>1. Len(old) \in Nat /\ Len(main) \in Nat /\ \A k \in 1..Len(main) : main[k] \in WalkPaths
  BY DEF Dirs
<1>2. shorter \in Nat
  BY <1>1, OfTwo
<1>3. Max(same) \in Nat
  <2>1. same \in SUBSET Nat /\ 0 \in same /\ same \subseteq 0..shorter
    BY <1>2
  <2>2. IsFiniteSet(same)
    <3>1. IsFiniteSet(0..shorter)
      BY <1>2, FS_Interval, 0 \in Int, shorter \in Int
    <3> QED
      BY <2>1, <3>1, FS_Subset
  <2> HIDE DEF same
  <2>3. same # {} /\ Max(same) \in same
    BY <2>1, <2>2, MaxExists
  <2> QED
    BY <2>1, <2>3
<1> HIDE DEF same
<1>4. m \in Dirs
  <2>1. \A k \in Max(same) + 1..Len(main) : main[k] \in WalkPaths
    BY <1>1, <1>3
  <2> QED
    BY <1>1, <1>3, <2>1, SubSeqProperties DEF Dirs
<1>5. missing(old, main) = m
  BY DEF missing, same
<1> HIDE DEF m
<1>6. without(m, f) \in Dirs
  <2>1. \A k \in 1..Len(m) - 1 : m[k] \in WalkPaths
    BY <1>4 DEF Dirs
  <2>2. Len(m) \in Nat
    BY <1>4 DEF Dirs
  <2>3. Front(m) \in Dirs
    BY <2>1, <2>2, SubSeqProperties DEF Front, Dirs
  <2> QED
    BY <1>4, <2>3 DEF without
<1> QED
  BY <1>4, <1>5, <1>6

LEMMA MainStackFacts ==
  ASSUME NEW chain \in Dirs, NEW f, f.path \in WalkPaths
  PROVE  mainStack(chain, f) \in Dirs
<1> DEFINE parents == {0} \cup {k \in 1..Len(chain) : chain[k] = parentOf(f.path)}
<1>1. Len(chain) \in Nat /\ \A k \in 1..Len(chain) : chain[k] \in WalkPaths
  BY DEF Dirs
<1>2. Max(parents) \in 0..Len(chain)
  <2>1. parents \in SUBSET Nat /\ 0 \in parents /\ parents \subseteq 0..Len(chain)
    BY <1>1
  <2>2. IsFiniteSet(parents)
    <3>1. IsFiniteSet(0..Len(chain))
      BY <1>1, FS_Interval, 0 \in Int, Len(chain) \in Int
    <3> QED
      BY <2>1, <3>1, FS_Subset
  <2> HIDE DEF parents
  <2>3. parents # {} /\ Max(parents) \in parents
    BY <2>1, <2>2, MaxExists
  <2> QED
    BY <2>1, <2>3
<1>3. SubSeq(chain, 1, Max(parents)) \in Dirs
  <2> HIDE DEF parents
  <2>1. \A k \in 1..Max(parents) : chain[k] \in WalkPaths
    BY <1>1, <1>2
  <2> QED
    BY <1>2, <2>1, SubSeqProperties DEF Dirs
<1>4. Append(SubSeq(chain, 1, Max(parents)), f.path) \in Dirs
  BY <1>3, AppendProperties DEF Dirs
<1> QED
  BY <1>4 DEF mainStack

\* A file and the directories it needs have one time.
LEMMA ReplicatedTimely ==
  ASSUME NEW todo \in Dirs, NEW time, NEW x, x.kind # "dir", x.time = time
  PROVE  Timely(Append(replicate("tar", todo, time), x))
<1> DEFINE r == replicate("tar", todo, time)
           n == Len(todo)
           S == {r[k] : k \in 1..n} \cup {x}
           s == Append(r, x)
<1>1. n \in Nat
  BY DEF Dirs
<1>2. r = [k \in 1..n |-> add("tar", fileAt(todo[k]), time)]
  BY DEF replicate
<1>3. \A k \in 1..n : r[k].time = time
  BY <1>2 DEF add, tarEntry
<1>4. r \in [1..n -> S]
  BY <1>2
<1> HIDE DEF r, n, S
<1>5. r \in Seq(S) /\ Len(r) = n
  BY <1>1, <1>4, OwnRange
<1>6. x \in S
  BY DEF S
<1>7. s \in Seq(S) /\ Len(s) = n + 1 /\ (\A k \in 1..n : s[k] = r[k]) /\ s[n + 1] = x
  BY <1>5, <1>6, AppendProperties
<1> HIDE DEF s
<1>8. DOMAIN s = 1..n + 1 /\ s \in [1..n + 1 -> S] /\ n + 1 \in Nat
  BY <1>1, <1>7, LenProperties
<1>9. s \in Seq(Range(s))
  BY <1>8, OwnRange
<1>10. \A k \in 1..n + 1 : s[k].time = time
  <2>1. \A k \in 1..n + 1 : k = n + 1 \/ k \in 1..n
    BY <1>1
  <2> QED
    BY <1>3, <1>7, <2>1
<1>11. x \in Range(s) /\ \A e \in Range(s) : e.time = time
  <2>1. n + 1 \in 1..n + 1
    BY <1>1
  <2> QED
    BY <1>7, <1>8, <1>10, <2>1 DEF Range
<1> QED
  BY <1>9, <1>11 DEF Timely, s, r

\* What a group's layer gets of a file is such.
LEMMA WrittenTimely ==
  ASSUME IsWalk(sc.walk), NEW k \in DOMAIN sc.walk, Len(groups) \in Nat, NEW g \in 1..Len(groups),
         NEW main \in Dirs, NEW old \in Dirs
  PROVE  Timely(written("tar", main, old, sc.walk[k], g))
<1> DEFINE f == sc.walk[k]
           mine == g = layerOf(f)
           lacks == missing(IF mine THEN main ELSE old, main)
           first == IF mine THEN Append(replicate("tar", without(missing(old, main), f), f.time), add("tar", f, f.time))
                    ELSE <<>>
           second == IF g \in Parted(f) THEN Append(replicate("tar", lacks, f.time), addData("tar", f, partialDB(g)))
                     ELSE <<>>
<1>1. /\ f.path \in Seq(STRING) /\ (f.kind = "dir" => f.owner = 0)
      /\ f.path = InstalledDB => f.kind = "reg"
  BY DEF IsWalk
<1>3. lacks \in Dirs /\ without(missing(old, main), f) \in Dirs
  <2> HIDE DEF f
  <2> QED
    BY MissingFacts
<1>4. Timely(<<>>)
  BY DEF Timely, Range
<1>5. Timely(first)
  <2>1. CASE mine
    <3>1. f.owner # 0
      BY <2>1 DEF layerOf, Top
    <3>2. add("tar", f, f.time).kind # "dir" /\ add("tar", f, f.time).time = f.time
      BY <1>1, <3>1 DEF add, tarEntry
    <3>3. first = Append(replicate("tar", without(missing(old, main), f), f.time), add("tar", f, f.time))
      BY <2>1
    <3> HIDE DEF first, f
    <3> QED
      BY <1>3, <3>2, <3>3, ReplicatedTimely
  <2> QED
    BY <1>4, <2>1
<1>6. Timely(second)
  <2>1. CASE g \in Parted(f)
    <3>1. f.kind = "reg"
      BY <1>1, <2>1 DEF Parted
    <3>2. addData("tar", f, partialDB(g)).kind # "dir" /\ addData("tar", f, partialDB(g)).time = f.time
      BY <3>1 DEF addData, tarEntry
    <3>3. second = Append(replicate("tar", lacks, f.time), addData("tar", f, partialDB(g)))
      BY <2>1
    <3> HIDE DEF second, lacks, f
    <3> QED
      BY <1>3, <3>2, <3>3, ReplicatedTimely
  <2> QED
    BY <1>4, <2>1
<1>7. written("tar", main, old, f, g) = first \o second
  BY DEF written
<1> HIDE DEF first, second, f
<1>8. Timely(first \o second)
  BY <1>5, <1>6, BothTimely
<1> QED
  BY <1>7, <1>8 DEF f

-----------------------------------------------------------------------------
(***************************************************************************)
(* splitErofsLayers: the layers stacked are the image.                     *)
(***************************************************************************)
\* What a file is in an EROFS image.
kindOf(f) == IF f.kind = "link" THEN "reg" ELSE f.kind
targetOf(f) == IF f.kind = "sym" THEN f.to ELSE <<>>

\* The only copy of p, or the one above all others.
Sole(p) == fileAt(p).kind # "dir" /\ p # InstalledDB

\* Layer i when n files have been walked. What is not the top layer's is a file
\* of the layer's packages, a part of the database, or a directory that one of
\* these needs and that has its time.
Emitted(i, im, n) ==
  /\ IsTree(im)
  /\ \A p \in DOMAIN im : ~im[p].opaque /\ im[p].kind # "white"
  /\ \A p \in DOMAIN im \ {Root} :
       /\ \E k \in 1..n : sc.walk[k].path = p
       /\ im[p].kind = kindOf(fileAt(p)) /\ im[p].to = targetOf(fileAt(p))
       /\ i = Top \/ Sole(p) => im[p].time = fileAt(p).time /\ im[p].data = fileAt(p).data
       /\ Sole(p) => i = layerOf(fileAt(p))
  /\ i # Top => \A d \in DOMAIN im \ {Root} : im[d].kind = "dir" =>
                  \E p \in DOMAIN im : /\ IsStrictPrefix(d, p) /\ im[p].kind # "dir"
                                       /\ im[p].time = im[d].time

\* What has been walked stays so.
LEMMA EmittedLater ==
  ASSUME NEW i, NEW im, NEW n \in Nat, Emitted(i, im, n)
  PROVE  Emitted(i, im, n + 1)
<1>1. \A k \in 1..n : k \in 1..n + 1
  OBVIOUS
<1> QED
  BY <1>1 DEF Emitted

\* A layer gets a file of its own, or its part of the database.
Gets(i, f, data) ==
  \/ i = layerOf(f) /\ hasLayer(f) /\ data = f.data
  \/ i # Top /\ f.path = InstalledDB

LEMMA EmittedNext ==
  ASSUME IsWalk(sc.walk), NEW i, NEW im, NEW n \in Nat, n + 1 \in DOMAIN sc.walk, Emitted(i, im, n),
         NEW data, Gets(i, sc.walk[n + 1], data),
         i = Top => ancestors(sc.walk[n + 1].path) \subseteq DOMAIN im
  PROVE  /\ Emitted(i, emit(im, sc.walk[n + 1], data), n + 1)
         /\ sc.walk[n + 1].path \in DOMAIN emit(im, sc.walk[n + 1], data)
<1> DEFINE f == sc.walk[n + 1]
           e == emit(im, f, data)
           d == DOMAIN im \cup ancestors(f.path) \cup {f.path}
<1>1. CASE f.path \in DOMAIN im
  BY <1>1, EmittedLater DEF emit
<1>2. CASE f.path \notin DOMAIN im
  <2>1. DOMAIN e = d
        /\ \A p \in d : e[p] = IF p \in DOMAIN im THEN im[p]
                               ELSE IF p = f.path THEN image(f, f.time, data)
                               ELSE image(fileAt(p), f.time, <<>>)
    BY <1>2 DEF emit, emitInto
  <2>2. IsTree(e)
    BY EmitTree DEF Emitted
  <2>3. \A g : \A t : \A x : /\ ~image(g, t, x).opaque /\ image(g, t, x).kind = kindOf(g)
                             /\ image(g, t, x).to = targetOf(g)
                             /\ image(g, t, x).time = t /\ image(g, t, x).data = x
    BY DEF image, kindOf, targetOf
  <2>4. /\ f.kind \in {"dir", "reg", "sym", "link"} /\ fileAt(f.path) = f
        /\ f.kind = "dir" \/ f.path = InstalledDB => f.owner = 0
        /\ f.path = InstalledDB => f.kind = "reg"
    BY FileAtFacts DEF IsWalk
  <2>5. \A q \in ancestors(f.path) :
          /\ fileAt(q).kind = "dir" /\ q # f.path /\ q # Root
          /\ \E k \in 1..n : sc.walk[k].path = q
    <3> TAKE q \in ancestors(f.path)
    <3>1. fileAt(q).kind = "dir" /\ q # f.path /\ q # Root
          /\ \E j \in 1..(n + 1) - 1 : sc.walk[j].path = q
      BY AncestorFacts
    <3> QED
      BY <3>1
  <2>6. i # Top => f.kind # "dir"
    BY <2>4 DEF Gets, layerOf
  <2> HIDE DEF e, d, f
  <2>7. \A p \in d : p \in DOMAIN im \/ p = f.path \/ (p \in ancestors(f.path) /\ i # Top)
    BY DEF d, f
  <2>8. ASSUME NEW p \in d PROVE ~e[p].opaque /\ e[p].kind # "white"
    <3>1. CASE p \in DOMAIN im
      BY <2>1, <3>1 DEF Emitted
    <3>2. CASE p \notin DOMAIN im /\ p = f.path
      BY <2>1, <2>3, <2>4, <3>2 DEF kindOf
    <3>3. CASE p \notin DOMAIN im /\ p # f.path
      BY <2>1, <2>3, <2>5, <2>7, <3>3 DEF kindOf
    <3> QED
      BY <3>1, <3>2, <3>3
  <2>9. ASSUME NEW p \in d \ {Root}
        PROVE  /\ \E k \in 1..n + 1 : sc.walk[k].path = p
               /\ e[p].kind = kindOf(fileAt(p)) /\ e[p].to = targetOf(fileAt(p))
               /\ i = Top \/ Sole(p) => e[p].time = fileAt(p).time /\ e[p].data = fileAt(p).data
               /\ Sole(p) => i = layerOf(fileAt(p))
    <3>1. CASE p \in DOMAIN im
      <4>1. Emitted(i, im, n + 1)
        BY EmittedLater
      <4> QED
        BY <2>1, <3>1, <4>1 DEF Emitted
    <3>2. CASE p \notin DOMAIN im /\ p = f.path
      <4>1. n + 1 \in 1..n + 1 /\ sc.walk[n + 1].path = p
        BY <3>2 DEF f
      <4>2. e[p] = image(f, f.time, data) /\ fileAt(p) = f
        BY <2>1, <2>4, <3>2
      <4>3. i = Top \/ Sole(p) => i = layerOf(f) /\ data = f.data
        BY <3>2 DEF Gets, Sole, f
      <4> QED
        BY <2>3, <4>1, <4>2, <4>3
    <3>3. CASE p \notin DOMAIN im /\ p # f.path
      <4>1. p \in ancestors(f.path) /\ i # Top /\ fileAt(p).kind = "dir"
        BY <2>5, <2>7, <3>3
      <4>2. \E k \in 1..n + 1 : sc.walk[k].path = p
        <5>1. \A k \in 1..n : k \in 1..n + 1
          OBVIOUS
        <5> QED
          BY <2>5, <4>1, <5>1
      <4>3. e[p] = image(fileAt(p), f.time, <<>>)
        BY <2>1, <3>3
      <4> QED
        BY <2>3, <4>1, <4>2, <4>3 DEF Sole
    <3> QED
      BY <3>1, <3>2, <3>3
  <2>10. ASSUME i # Top, NEW q \in d \ {Root}, e[q].kind = "dir"
         PROVE  \E p \in d : /\ IsStrictPrefix(q, p) /\ e[p].kind # "dir"
                             /\ e[p].time = e[q].time
    <3>1. CASE q \in DOMAIN im
      <4>1. PICK p \in DOMAIN im : IsStrictPrefix(q, p) /\ im[p].kind # "dir" /\ im[p].time = im[q].time
        BY <2>1, <2>10, <3>1 DEF Emitted
      <4> QED
        BY <2>1, <3>1, <4>1 DEF d
    <3>2. CASE q \notin DOMAIN im
      <4>0. f.path \in d /\ e[f.path].kind = kindOf(f) /\ e[f.path].time = f.time /\ f.kind # "dir"
        BY <1>2, <2>1, <2>3, <2>6, <2>10 DEF d, f
      <4>1. e[f.path].kind # "dir"
        BY <4>0 DEF kindOf
      <4>2. q \in ancestors(f.path) /\ e[q].time = f.time
        BY <2>1, <2>3, <2>7, <2>10, <3>2, <4>1
      <4>3. IsStrictPrefix(q, f.path)
        <5>1. PICK m \in 1..Len(f.path) - 1 : q = SubSeq(f.path, 1, m)
          BY <4>2 DEF ancestors
        <5>2. f.path \in Seq(STRING) /\ Len(f.path) \in Nat
          BY LenProperties DEF IsWalk, f
        <5>3. m \in 0..Len(f.path) /\ m \in 0..m
          BY <5>2
        <5>4. Len(q) = m /\ SubSeq(q, 1, m) = SubSeq(f.path, 1, m)
          BY <5>1, <5>2, <5>3, PrefixFacts
        <5> QED
          BY <2>5, <4>2, <5>2, <5>3, <5>4 DEF IsStrictPrefix, IsPrefix
      <4> QED
        BY <4>0, <4>1, <4>2, <4>3
    <3> QED
      BY <3>1, <3>2
  <2>11. f.path \in d
    BY DEF d
  <2>12. Emitted(i, e, n + 1)
    BY <2>1, <2>2, <2>8, <2>9, <2>10 DEF Emitted
  <2> QED
    BY <2>1, <2>11, <2>12 DEF e, f
<1> QED
  BY <1>1, <1>2

\* All layers when n files have been walked: each file is in its own layer.
Stacked(ls, n) ==
  /\ Len(groups) \in Nat /\ Len(ls) = Top /\ DOMAIN ls = 1..Top
  /\ \A i \in 1..Top : Emitted(i, ls[i], n)
  /\ \A k \in 1..n : /\ hasLayer(sc.walk[k]) /\ layerOf(sc.walk[k]) \in 1..Top
                     /\ sc.walk[k].path \in DOMAIN ls[layerOf(sc.walk[k])]

\* Without deletions a path is what the topmost layer that has it says.
LEMMA ViewOfEmitted ==
  ASSUME IsWalk(sc.walk), NEW ls, Stacked(ls, Len(sc.walk)), NEW p \in WalkPaths
  PROVE  /\ p \in DOMAIN View(ls)
         /\ \E m \in 1..Top : /\ View(ls)[p] = ls[m][p] /\ p \in DOMAIN ls[m]
                              /\ \A i \in 1..Top : p \in DOMAIN ls[i] => i <= m
<1> DEFINE Having(q) == {i \in 1..Top : q \in DOMAIN ls[i]}
<1>1. Len(ls) = Top /\ Top \in Nat /\ \A i \in 1..Top : Emitted(i, ls[i], Len(sc.walk))
  BY DEF Stacked, Top
<1>2. \A i \in 1..Top : IsTree(ls[i]) /\ IsLayer(ls[i])
  BY <1>1 DEF Emitted, IsTree
<1>3. \A d : readFrom(ls, d) = Holding(ls, d)
  <2> TAKE d
  <2>1. {i \in Holding(ls, d) : isOpaqueDir(ls, i, d)} = {}
    BY <1>1 DEF Emitted, Holding, isOpaqueDir
  <2> QED
    BY <2>1 DEF readFrom
<1>4. ASSUME NEW q \in Seq(STRING), q # Root, Having(q) # {}
      PROVE  topmost(ls, q) = {Max(Having(q))} /\ Max(Having(q)) \in Having(q) /\ \A i \in Having(q) : i <= Max(Having(q))
  <2>1. Len(q) \in Nat \ {0}
    BY <1>4, EmptySeq DEF Root
  <2>2. \A i \in Having(q) : i \in Holding(ls, parentOf(q))
    <3> TAKE i \in Having(q)
    <3>1. Len(q) - 1 \in 0..Len(q) - 1
      BY <2>1
    <3>2. SubSeq(q, 1, Len(q) - 1) \in DOMAIN ls[i] /\ ls[i][SubSeq(q, 1, Len(q) - 1)].kind = "dir"
      BY <1>2, <3>1 DEF IsLayer
    <3> QED
      BY <1>1, <3>2 DEF Holding, parentOf
  <2>3. {i \in readFrom(ls, parentOf(q)) : q \in DOMAIN ls[i]} = Having(q)
    BY <1>1, <1>3, <2>2 DEF Holding
  <2>4. Max(Having(q)) \in Having(q) /\ \A i \in Having(q) : i <= Max(Having(q))
    BY <1>1, <1>4, GreatestExists
  <2>5. ~isWhiteout(ls, ls[Max(Having(q))][q])
    BY <1>1, <2>4 DEF Emitted, isWhiteout
  <2> HIDE DEF Having
  <2> QED
    BY <1>4, <2>3, <2>4, <2>5 DEF topmost
<1>5. PICK k \in DOMAIN sc.walk : sc.walk[k].path = p
  BY DEF WalkPaths
<1>6. p \in Seq(STRING) /\ p # Root /\ Len(p) \in Nat /\ Having(p) # {}
  <2>1. p \in Seq(STRING) /\ p # Root
    BY <1>5 DEF IsWalk
  <2>2. k \in 1..Len(sc.walk)
    BY FileAtFacts
  <2>3. layerOf(sc.walk[k]) \in Having(p)
    BY <1>5, <2>2 DEF Stacked
  <2> QED
    BY <2>1, <2>3
<1> DEFINE m == Max(Having(p))
<1>7. topmost(ls, p) = {m} /\ m \in Having(p) /\ \A i \in Having(p) : i <= m
  BY <1>4, <1>6
<1>8. ASSUME NEW n \in 1..Len(p) - 1
      PROVE  \E i \in topmost(ls, SubSeq(p, 1, n)) : ls[i][SubSeq(p, 1, n)].kind = "dir"
  <2> DEFINE q == SubSeq(p, 1, n)
  <2>1. q \in Seq(STRING) /\ q # Root
    <3>1. n \in 0..Len(p) /\ n # 0
      BY <1>6
    <3> QED
      BY <1>6, <3>1, PrefixFacts
  <2>2. q \in DOMAIN ls[m] /\ ls[m][q].kind = "dir"
    <3>1. n \in 0..Len(p) - 1
      BY <1>6
    <3> QED
      BY <1>2, <1>7, <3>1 DEF IsLayer
  <2>3. m \in Having(q)
    BY <1>7, <2>2
  <2>4. topmost(ls, q) = {Max(Having(q))} /\ Max(Having(q)) \in Having(q)
    BY <1>4, <2>1, <2>3
  <2>5. fileAt(q).kind = "dir"
    BY <1>2, <1>7, <2>1, <2>2 DEF IsTree
  <2>6. ls[Max(Having(q))][q].kind = "dir"
    BY <1>2, <2>1, <2>4, <2>5 DEF IsTree
  <2> QED
    BY <2>4, <2>6
<1>9. lookup(ls, p) = {m}
  BY <1>7, <1>8 DEF lookup
<1>10. p \in Paths(ls)
  BY <1>1, <1>6, <1>7 DEF Paths
<1>11. p \in DOMAIN View(ls) /\ View(ls)[p] = ls[m][p]
  <2>1. (CHOOSE i \in {m} : TRUE) = m
    OBVIOUS
  <2> HIDE DEF m
  <2> QED
    BY <1>9, <1>10, <2>1 DEF View
<1> QED
  BY <1>7, <1>11

\* Every entry of the stack is the image's.
LEMMA StackedIsImage ==
  ASSUME IsWalk(sc.walk), NEW ls, Stacked(ls, Len(sc.walk))
  PROVE  [p \in DOMAIN View(ls) |-> Shown(View(ls)[p])] = Image
<1>1. DOMAIN sc.walk = 1..Len(sc.walk) /\ Len(sc.walk) \in Nat
  BY LenProperties DEF IsWalk
<1>2. DOMAIN Image = WalkPaths
  BY <1>1 DEF Image, WalkPaths
<1>3. DOMAIN View(ls) \subseteq WalkPaths
  <2>1. \A i \in 1..Len(ls) : DOMAIN ls[i] \subseteq {Root} \cup WalkPaths
    BY DEF Stacked, Emitted, IsTree
  <2> QED
    BY <2>1 DEF View, Paths
<1>4. ASSUME NEW p \in WalkPaths PROVE p \in DOMAIN View(ls) /\ Shown(View(ls)[p]) = Image[p]
  <2>1. PICK m \in 1..Top : /\ View(ls)[p] = ls[m][p] /\ p \in DOMAIN ls[m]
                            /\ \A i \in 1..Top : p \in DOMAIN ls[i] => i <= m
    BY ViewOfEmitted
  <2> DEFINE f == fileAt(p)
  <2>2. PICK k \in DOMAIN sc.walk : sc.walk[k].path = p /\ f = sc.walk[k]
    BY FileAtFacts DEF WalkPaths
  <2>3. p # Root /\ (f.kind = "dir" \/ p = InstalledDB => f.owner = 0)
    BY <2>2 DEF IsWalk
  <2>4. Emitted(m, ls[m], Len(sc.walk)) /\ Top \in Nat /\ layerOf(f) \in 1..Top
        /\ p \in DOMAIN ls[layerOf(f)]
    BY <1>1, <2>2 DEF Stacked, Top
  <2>5. m = Top \/ Sole(p)
    <3> SUFFICES ASSUME ~Sole(p) PROVE m = Top
      OBVIOUS
    <3>1. f.owner = 0
      BY <2>3 DEF Sole
    <3>2. layerOf(f) = Top
      BY <3>1 DEF layerOf
    <3> QED
      BY <2>1, <2>4, <3>2
  <2>6. /\ ls[m][p].kind = kindOf(f) /\ ls[m][p].to = targetOf(f)
        /\ ls[m][p].time = f.time /\ ls[m][p].data = f.data
    BY <2>1, <2>3, <2>4, <2>5 DEF Emitted
  <2>7. Image[p] = [kind |-> kindOf(f), to |-> targetOf(f), time |-> f.time, data |-> f.data]
    BY <1>1 DEF Image, kindOf, targetOf, WalkPaths
  <2> QED
    BY <2>1, <2>6, <2>7, ViewOfEmitted DEF Shown
<1>5. DOMAIN View(ls) = WalkPaths
  BY <1>3, <1>4
<1>6. Image = [p \in WalkPaths |-> Image[p]]
  BY <1>2 DEF Image
<1> QED
  BY <1>4, <1>5, <1>6

-----------------------------------------------------------------------------
(***************************************************************************)
(* What the layers of a build show.                                        *)
(***************************************************************************)
TarTimes ==
  \A i \in 1..Len(groups) : \A d \in Range(made.tar[i]) : d.kind = "dir" =>
    \E e \in Range(made.tar[i]) : e.kind # "dir" /\ e.time = d.time

ErofsTimes ==
  \A i \in 1..Len(groups) : \A d \in DOMAIN made.erofs[i] \ {Root} :
    made.erofs[i][d].kind = "dir" =>
      \E p \in DOMAIN made.erofs[i] : /\ IsStrictPrefix(d, p)
                                      /\ made.erofs[i][p].kind # "dir"
                                      /\ made.erofs[i][p].time = made.erofs[i][d].time

\* The tars being written, and those made.
TarInv ==
  /\ job \in {"tar", "plan"} => stack \in Dirs /\ \A i \in Layer : stacks[i] \in Dirs
  /\ job = "tar" => /\ out \in Seq(Range(out))
                    /\ \A i \in DOMAIN out : i <= Len(groups) => Timely(out[i])
  /\ made.tar # <<>> => TarTimes /\ job \notin {"record", "group", "tar", "ls"}

\* The EROFS images being written, and those made.
ErofsInv ==
  /\ job = "erofs" =>
       /\ pos \in 0..Len(sc.walk) /\ Len(out) <= Top /\ (pos # 0 => Len(out) = Top)
       /\ \A i \in DOMAIN out : Emitted(i, out[i], pos)
       /\ \A k \in 1..pos : /\ hasLayer(sc.walk[k]) /\ layerOf(sc.walk[k]) \in 1..Top
                            /\ sc.walk[k].path \in DOMAIN out[layerOf(sc.walk[k])]
  /\ made.erofs # <<>> =>
       /\ job = "done" /\ ErofsTimes
       /\ [p \in DOMAIN View(made.erofs) |-> Shown(View(made.erofs)[p])] = Image

\* A file has one layer.
LEMMA LayerOfFacts ==
  ASSUME Len(groups) \in Nat, NEW f, hasLayer(f)
  PROVE  layerOf(f) \in 1..Top
BY DEF hasLayer, layerOf, Top

LEMMA TarInvStep ==
  ASSUME WalkInv, GroupInv, TarInv, LayersNext
  PROVE  TarInv'
<1>1. Len(groups) \in Nat /\ Layer = 1..Len(groups) + 1 /\ Top = Len(groups) + 1
  BY DEF GroupInv, Layer, Top
<1>2. <<>> \in Dirs /\ (sc' = sc => <<>> \in Dirs' /\ Dirs' = Dirs)
  BY DEF Dirs, WalkPaths
<1>3. CASE PickGroups
  <2>1. /\ sc' = sc /\ job' = "tar" /\ stack' = <<>> /\ out' = <<>> /\ made' = made /\ job = "group"
        /\ stacks' = [i \in 1..Len(groups') + 1 |-> <<>>]
    BY <1>3 DEF PickGroups, Begin
  <2>2. out' \in Seq(Range(out')) /\ DOMAIN out' = {}
    BY <2>1
  <2> QED
    BY <1>2, <2>1, <2>2 DEF TarInv, Layer, Top
<1>4. CASE OpenWriter
  <2>1. UNCHANGED <<sc, job, groups, stack, stacks, made>> /\ (job = "tar" => out' = Append(out, <<>>))
    BY <1>4 DEF OpenWriter
  <2>2. ASSUME job = "tar"
        PROVE  out' \in Seq(Range(out')) /\ \A i \in DOMAIN out' : i <= Len(groups) => Timely(out'[i])
    <3>1. out \in Seq(Range(out)) /\ \A i \in DOMAIN out : i <= Len(groups) => Timely(out[i])
      BY <2>2 DEF TarInv
    <3> DEFINE S == Range(out) \cup {<<>>}
               n == Len(out')
    <3>2. Len(out) \in Nat /\ DOMAIN out = 1..Len(out) /\ out \in Seq(S)
      BY <3>1, LenProperties
    <3>3. /\ out' \in Seq(S) /\ Len(out') = Len(out) + 1
          /\ \A i \in 1..Len(out) : out'[i] = out[i]
          /\ out'[Len(out) + 1] = <<>>
      BY <2>1, <2>2, <3>2, AppendProperties
    <3>4. n \in Nat /\ out' \in [1..n -> S] /\ DOMAIN out' = 1..Len(out) + 1
      BY <3>2, <3>3, LenProperties
    <3>5. out' \in Seq(Range(out'))
      <4> HIDE DEF S, n
      <4> QED
        BY <3>4, OwnRange
    <3>6. \A i \in 1..Len(out) + 1 : i \in 1..Len(out) \/ i = Len(out) + 1
      BY <3>2
    <3>7. Timely(<<>>)
      BY DEF Timely, Range
    <3> QED
      BY <3>1, <3>2, <3>3, <3>4, <3>5, <3>6, <3>7
  <2> QED
    BY <1>2, <2>1, <2>2 DEF TarInv, TarTimes, Layer, Top
<1>5. CASE Visit
  <2> DEFINE f == sc.walk[pos + 1]
  <2>1. /\ UNCHANGED <<sc, job, groups, made>> /\ job \in {"tar", "plan"} /\ Len(out) = Top
        /\ stack' = mainStack(stack, f)
        /\ stacks' = [g \in Layer |-> IF g \in Parted(f) \cup {layerOf(f)} THEN mainStack(stack, f) ELSE stacks[g]]
        /\ out' = [g \in Layer |-> out[g] \o written(job, mainStack(stack, f), stacks[g], f, g)]
    BY <1>5 DEF Visit, alignedWith
  <2>2. IsWalk(sc.walk) /\ pos + 1 \in DOMAIN sc.walk
    <3>1. DOMAIN sc.walk = 1..Len(sc.walk) /\ Len(sc.walk) \in Nat
      BY LenProperties DEF WalkInv, IsWalk
    <3> QED
      BY <1>5, <3>1 DEF WalkInv, Visit
  <2>3. stack \in Dirs /\ \A i \in Layer : stacks[i] \in Dirs
    BY <2>1 DEF TarInv
  <2>4. mainStack(stack, f) \in Dirs
    <3>1. f.path \in WalkPaths
      BY <2>2 DEF WalkPaths
    <3> QED
      BY <2>3, <3>1, MainStackFacts
  <2>5. ASSUME job = "tar"
        PROVE  out' \in Seq(Range(out')) /\ \A i \in DOMAIN out' : i <= Len(groups) => Timely(out'[i])
    <3>1. out \in Seq(Range(out)) /\ \A i \in DOMAIN out : i <= Len(groups) => Timely(out[i])
      BY <2>5 DEF TarInv
    <3>2. DOMAIN out = Layer
      BY <1>1, <2>1, <3>1, LenProperties
    <3>3. ASSUME NEW g \in 1..Len(groups) PROVE Timely(out'[g])
      <4>1. g \in Layer /\ g <= Len(groups)
        BY <1>1
      <4>2. Timely(out[g]) /\ Timely(written("tar", mainStack(stack, f), stacks[g], f, g))
        BY <1>1, <2>2, <2>3, <2>4, <3>1, <3>2, <4>1, WrittenTimely
      <4>3. Timely(out[g] \o written("tar", mainStack(stack, f), stacks[g], f, g))
        BY <4>2, BothTimely
      <4> HIDE DEF f
      <4> QED
        BY <2>1, <2>5, <4>1, <4>3
    <3>4. out' \in Seq(Range(out'))
      <4> DEFINE S == {out'[g] : g \in Layer}
                 n == Len(groups) + 1
      <4>1. n \in Nat /\ Layer = 1..n
        BY <1>1
      <4>2. out' \in [1..n -> S]
        <5>1. out' = [g \in Layer |-> out'[g]]
          BY <2>1
        <5> QED
          BY <4>1, <5>1
      <4> HIDE DEF S, n
      <4> QED
        BY <4>1, <4>2, OwnRange
    <3>5. DOMAIN out' = 1..Len(groups) + 1
      BY <1>1, <2>1
    <3> QED
      BY <1>1, <3>3, <3>4, <3>5
  <2>6. stack' \in Dirs /\ \A i \in Layer : stacks'[i] \in Dirs
    <3> HIDE DEF f
    <3> QED
      BY <2>1, <2>3, <2>4
  <2> HIDE DEF f
  <2> QED
    BY <1>2, <2>1, <2>5, <2>6 DEF TarInv, TarTimes, Layer, Top
<1>6. CASE FinishTar
  <2>1. /\ UNCHANGED <<sc, groups>> /\ job = "tar" /\ job' = "plan" /\ Len(out) = Top
        /\ made' = [made EXCEPT !.tar = out] /\ stack' = <<>> /\ stacks' = [i \in Layer |-> <<>>]
    BY <1>6 DEF FinishTar, Begin, Walked
  <2>2. made'.tar = out
    BY <2>1 DEF WalkInv
  <2>3. out \in Seq(Range(out)) /\ \A i \in DOMAIN out : i <= Len(groups) => Timely(out[i])
    BY <2>1 DEF TarInv
  <2>4. DOMAIN out = Layer
    BY <1>1, <2>1, <2>3, LenProperties
  <2>5. \A i \in 1..Len(groups) : Timely(out[i])
    BY <1>1, <2>3, <2>4
  <2>6. TarTimes'
    BY <2>1, <2>2, <2>5 DEF TarTimes, Timely
  <2> QED
    BY <1>2, <2>1, <2>6 DEF TarInv, Layer, Top
<1>7. CASE RecordPackage \/ Digested \/ Render \/ FinishErofs \/ ReadForeign
  <2>1. /\ made'.tar = made.tar /\ UNCHANGED groups /\ job' \notin {"tar", "plan"}
        /\ job' \in {"record", "group", "tar", "ls"} => job \in {"record", "group", "tar", "ls"}
    BY <1>7 DEF WalkInv, RecordPackage, Digested, Render, FinishErofs, ReadForeign
  <2> QED
    BY <2>1 DEF TarInv, TarTimes
<1>8. CASE FinishRecord \/ MergeReplaced \/ StartDigests \/ FinishRender \/ VisitErofs \/ Fail
           \/ \E p \in {sc.walk[k].path : k \in 1..Len(sc.walk)} : DigestFile(p)
  <2>1. /\ UNCHANGED <<made, groups>> /\ job' \notin {"tar", "plan"}
        /\ job' \in {"record", "group", "tar", "ls"} => job \in {"record", "group", "tar", "ls"}
    BY <1>8 DEF FinishRecord, MergeReplaced, StartDigests, FinishRender, VisitErofs, Fail, DigestFile, Begin
  <2> QED
    BY <2>1 DEF TarInv, TarTimes
<1>9. CASE CreateLayerFile
  BY <1>9 DEF CreateLayerFile, TarInv, TarTimes, Layer, Top, Dirs, WalkPaths
<1> QED
  BY <1>3, <1>4, <1>5, <1>6, <1>7, <1>8, <1>9 DEF LayersNext

\* A layer a writer was opened for, before any file is walked: the root.
LEMMA EmittedFirst ==
  ASSUME sc.root.kind = "dir", ~sc.root.opaque, NEW i
  PROVE  Emitted(i, [p \in {Root} |-> sc.root], 0)
<1> DEFINE top == [p \in {Root} |-> sc.root]
<1>1. Root \in Seq(STRING) /\ Len(Root) = 0
  BY DEF Root
<1>2. DOMAIN top = {Root} /\ top[Root] = sc.root
  OBVIOUS
<1>3. sc.root.kind # "white"
  OBVIOUS
<1> HIDE DEF top
<1>4. IsTree(top)
  BY <1>1, <1>2 DEF IsTree, IsLayer
<1>5. Emitted(i, top, 0)
  BY <1>2, <1>3, <1>4 DEF Emitted
<1> QED
  BY <1>5 DEF top

\* A walked file comes into its layer, a part of the database into each group's.
LEMMA VisitErofsEmits ==
  ASSUME WalkInv, GroupInv, TreeInv, ErofsInv, VisitErofs
  PROVE  /\ DOMAIN out' = 1..Top /\ Len(out') = Top
         /\ \A g \in 1..Top : Emitted(g, out'[g], pos + 1) /\ DOMAIN out[g] \subseteq DOMAIN out'[g]
         /\ layerOf(sc.walk[pos + 1]) \in 1..Top /\ hasLayer(sc.walk[pos + 1])
         /\ sc.walk[pos + 1].path \in DOMAIN out'[layerOf(sc.walk[pos + 1])]
<1> DEFINE f == sc.walk[pos + 1]
           mine == layerOf(f)
           part1 == [g \in Layer |-> IF g \in Parted(f) THEN emit(out[g], f, partialDB(g)) ELSE out[g]]
<1>1. /\ sc' = sc /\ groups' = groups /\ job = "erofs" /\ Len(out) = Top
      /\ out' = [part1 EXCEPT ![mine] = emit(@, f, f.data)] /\ pos < Len(sc.walk) /\ hasLayer(f)
  BY DEF VisitErofs
<1>2. Len(groups) \in Nat /\ Layer = 1..Top /\ Top = Len(groups) + 1
  BY DEF GroupInv, Layer, Top
<1>3. DOMAIN out = 1..Top
  <2>1. out \in Seq(Range(out))
    BY <1>1 DEF TreeInv
  <2> QED
    BY <1>1, <2>1, LenProperties
<1>4. pos \in Nat /\ pos + 1 \in DOMAIN sc.walk /\ IsWalk(sc.walk) /\ pos \in 0..Len(sc.walk)
  <2>1. DOMAIN sc.walk = 1..Len(sc.walk) /\ Len(sc.walk) \in Nat
    BY LenProperties DEF WalkInv, IsWalk
  <2> QED
    BY <1>1, <2>1 DEF WalkInv
<1>5. mine \in 1..Top
  BY <1>1, <1>2, LayerOfFacts
<1>6. \A g \in 1..Top : Emitted(g, out[g], pos)
  BY <1>1, <1>3 DEF ErofsInv
<1>7. f.kind = "dir" \/ f.path = InstalledDB => f.owner = 0
  BY <1>4 DEF IsWalk
<1>8. ancestors(f.path) \subseteq DOMAIN out[Top]
  <2> SUFFICES ASSUME NEW q \in ancestors(f.path) PROVE q \in DOMAIN out[Top]
    OBVIOUS
  <2>1. PICK j \in 1..(pos + 1) - 1 : /\ j \in DOMAIN sc.walk /\ sc.walk[j].path = q
                                      /\ fileAt(q) = sc.walk[j] /\ fileAt(q).kind = "dir"
    <3>1. /\ \E j \in 1..(pos + 1) - 1 : j \in DOMAIN sc.walk /\ sc.walk[j].path = q
                                         /\ fileAt(q) = sc.walk[j]
          /\ fileAt(q).kind = "dir"
      BY <1>4, AncestorFacts
    <3> QED
      BY <3>1
  <2>2. sc.walk[j].owner = 0
    BY <1>4, <2>1 DEF IsWalk
  <2>3. layerOf(sc.walk[j]) = Top
    BY <2>2 DEF layerOf
  <2>4. j \in 1..pos
    BY <1>4, <2>1
  <2> QED
    BY <1>1, <2>1, <2>3, <2>4 DEF ErofsInv
<1>9. \A g \in Parted(f) : g \in 1..Top /\ g # Top /\ f.path = InstalledDB /\ mine = Top
  <2> TAKE g \in Parted(f)
  <2>1. f.path = InstalledDB /\ g \in 1..Len(groups)
    BY DEF Parted
  <2>2. mine = Top
    BY <1>7, <2>1 DEF layerOf
  <2> QED
    BY <1>2, <2>1, <2>2
<1>10. DOMAIN part1 = 1..Top /\ \A g \in 1..Top :
         part1[g] = IF g \in Parted(f) THEN emit(out[g], f, partialDB(g)) ELSE out[g]
  BY <1>2
<1>11. /\ DOMAIN out' = 1..Top /\ out'[mine] = emit(out[mine], f, f.data)
       /\ \A g \in 1..Top : g # mine => out'[g] = part1[g]
  <2>1. part1[mine] = out[mine]
    <3> HIDE DEF f, part1, mine
    <3>1. mine \notin Parted(f)
      BY <1>9
    <3> QED
      BY <1>5, <1>10, <3>1
  <2> HIDE DEF f, part1, mine
  <2> QED
    BY <1>1, <1>5, <1>10, <2>1
<1>12. Len(out') = Top
  <2>1. out' \in [1..Top -> {out'[g] : g \in 1..Top}] /\ Top \in Nat
    <3>1. out' = [g \in 1..Top |-> out'[g]]
      BY <1>1, <1>2
    <3> QED
      BY <1>2, <3>1
  <2> QED
    BY <2>1, OwnRange
<1>13. \A im, data : DOMAIN im \subseteq DOMAIN emit(im, f, data)
  BY DEF emit, emitInto
<1>14. Emitted(mine, out'[mine], pos + 1) /\ f.path \in DOMAIN out'[mine]
       /\ DOMAIN out[mine] \subseteq DOMAIN out'[mine]
  <2>1. Gets(mine, f, f.data)
    BY <1>1 DEF Gets
  <2>2. mine = Top => ancestors(f.path) \subseteq DOMAIN out[mine]
    BY <1>8
  <2>3. Emitted(mine, emit(out[mine], f, f.data), pos + 1) /\ f.path \in DOMAIN emit(out[mine], f, f.data)
    <3> HIDE DEF mine
    <3> QED
      BY <1>4, <1>5, <1>6, <2>1, <2>2, EmittedNext
  <2> HIDE DEF mine, f
  <2> QED
    BY <1>11, <1>13, <2>3
<1>15. ASSUME NEW g \in 1..Top, g # mine
       PROVE  Emitted(g, out'[g], pos + 1) /\ DOMAIN out[g] \subseteq DOMAIN out'[g]
  <2>1. CASE g \in Parted(f)
    <3>1. Gets(g, f, partialDB(g)) /\ g # Top
      BY <1>9, <2>1 DEF Gets
    <3>2. Emitted(g, emit(out[g], f, partialDB(g)), pos + 1)
      <4> HIDE DEF mine
      <4> QED
        BY <1>4, <1>6, <3>1, EmittedNext
    <3>3. out'[g] = emit(out[g], f, partialDB(g))
      BY <1>10, <1>11, <1>15, <2>1
    <3> HIDE DEF mine, f
    <3> QED
      BY <1>13, <3>2, <3>3
  <2>2. CASE g \notin Parted(f)
    <3>1. out'[g] = out[g]
      BY <1>10, <1>11, <1>15, <2>2
    <3> HIDE DEF mine, f
    <3> QED
      BY <1>4, <1>6, <3>1, EmittedLater
  <2> QED
    BY <2>1, <2>2
<1>16. \A g \in 1..Top : Emitted(g, out'[g], pos + 1) /\ DOMAIN out[g] \subseteq DOMAIN out'[g]
  <2> HIDE DEF mine, f, part1
  <2> QED
    BY <1>14, <1>15
<1> QED
  BY <1>1, <1>5, <1>11, <1>12, <1>14, <1>16

\* What a layer holds is about the build and its groups.
LEMMA SameEmitted ==
  ASSUME sc' = sc, groups' = groups
  PROVE  /\ Top' = Top /\ \A i, im, n : Emitted(i, im, n)' <=> Emitted(i, im, n)
         /\ \A f : (hasLayer(f)' <=> hasLayer(f)) /\ layerOf(f)' = layerOf(f)
BY DEF Top, Emitted, IsTree, WalkPaths, fileAt, Sole, hasLayer, layerOf

LEMMA ErofsInvStep ==
  ASSUME WalkInv, GroupInv, TreeInv, ErofsInv, LayersNext
  PROVE  ErofsInv'
<1>1. Len(groups) \in Nat /\ Layer = 1..Top /\ Top = Len(groups) + 1
  BY DEF GroupInv, Layer, Top
<1>2. sc' = sc /\ groups' = groups =>
        /\ Top' = Top /\ \A i, im, n : Emitted(i, im, n)' <=> Emitted(i, im, n)
        /\ \A f : (hasLayer(f)' <=> hasLayer(f)) /\ layerOf(f)' = layerOf(f)
  BY SameEmitted
<1>3. CASE OpenWriter
  <2> DEFINE top == [p \in {Root} |-> sc.root]
  <2>0. Len(out) < Top
    BY <1>3 DEF OpenWriter
  <2>1. UNCHANGED <<sc, groups, job, made, pos>> /\ (job = "erofs" => out' = Append(out, top))
    BY <1>3 DEF OpenWriter
  <2>2. ASSUME job = "erofs"
        PROVE  /\ pos \in 0..Len(sc.walk) /\ pos = 0 /\ Len(out') <= Top /\ Len(out) \in Nat
               /\ \A i \in DOMAIN out' : Emitted(i, out'[i], pos)
    <3>1. /\ pos \in 0..Len(sc.walk) /\ (pos # 0 => Len(out) = Top)
          /\ \A i \in DOMAIN out : Emitted(i, out[i], pos)
      BY <2>2 DEF ErofsInv
    <3>2. out \in Seq(Range(out))
      BY <2>2 DEF TreeInv
    <3>3. Len(out) \in Nat /\ DOMAIN out = 1..Len(out)
      BY <3>2, LenProperties
    <3>4. pos = 0
      <4>1. Top \in Nat
        BY <1>1
      <4>2. Len(out) # Top
        <5>1. \A k, m \in Nat : k < m => k # m
          OBVIOUS
        <5> QED
          BY <2>0, <3>3, <4>1, <5>1
      <4> QED
        BY <3>1, <4>2
    <3>5. \A i : Emitted(i, top, 0)
      <4>1. sc.root.kind = "dir" /\ ~sc.root.opaque
        BY <2>2 DEF WalkInv, Building
      <4> QED
        BY <4>1, EmittedFirst
    <3> HIDE DEF top
    <3>6. out' \in Seq(Range(out) \cup {top}) /\ Len(out') = Len(out) + 1
          /\ (\A i \in 1..Len(out) : out'[i] = out[i]) /\ out'[Len(out) + 1] = top
      <4>1. out \in Seq(Range(out) \cup {top})
        BY <3>2
      <4> QED
        BY <2>1, <2>2, <4>1, AppendProperties
    <3>7. DOMAIN out' = 1..Len(out) + 1
      BY <3>6, LenProperties
    <3>8. \A i \in 1..Len(out) + 1 : i \in 1..Len(out) \/ i = Len(out) + 1
      BY <3>3
    <3>9. \A i \in DOMAIN out' : Emitted(i, out'[i], pos)
      BY <3>1, <3>3, <3>4, <3>5, <3>6, <3>7, <3>8
    <3> QED
      BY <1>1, <2>0, <3>1, <3>3, <3>4, <3>6, <3>9
  <2>3. job = "erofs" => made.erofs = <<>>
    BY DEF ErofsInv
  <2>4. sc' = sc /\ pos' = pos /\ job' = job /\ made' = made /\ Top' = Top
        /\ \A i, im, n : Emitted(i, im, n)' <=> Emitted(i, im, n)
    BY <1>2, <2>1
  <2>5. CASE job = "erofs"
    <3>1. \A k \in 1..pos : FALSE
      BY <2>2, <2>5
    <3> QED
      BY <2>2, <2>3, <2>4, <2>5, <3>1 DEF ErofsInv
  <2>6. CASE job # "erofs"
    <3>1. made.erofs = <<>>
      BY <1>3, <2>6 DEF ErofsInv, OpenWriter
    <3> QED
      BY <2>4, <2>6, <3>1 DEF ErofsInv
  <2> QED
    BY <2>5, <2>6
<1>4. CASE VisitErofs
  <2>1. UNCHANGED <<sc, groups, job, made>> /\ job = "erofs" /\ pos' = pos + 1 /\ pos < Len(sc.walk)
    BY <1>4 DEF VisitErofs
  <2>2. made.erofs = <<>> /\ pos \in 0..Len(sc.walk) /\ Len(sc.walk) \in Nat /\ pos \in Nat
    <3>1. Len(sc.walk) \in Nat
      BY LenProperties DEF WalkInv, IsWalk
    <3> QED
      BY <2>1, <3>1 DEF ErofsInv, WalkInv
  <2>3. /\ DOMAIN out' = 1..Top /\ Len(out') = Top
        /\ \A g \in 1..Top : Emitted(g, out'[g], pos + 1) /\ DOMAIN out[g] \subseteq DOMAIN out'[g]
        /\ layerOf(sc.walk[pos + 1]) \in 1..Top /\ hasLayer(sc.walk[pos + 1])
        /\ sc.walk[pos + 1].path \in DOMAIN out'[layerOf(sc.walk[pos + 1])]
    BY <1>4, VisitErofsEmits
  <2>4. \A k \in 1..pos : /\ hasLayer(sc.walk[k]) /\ layerOf(sc.walk[k]) \in 1..Top
                          /\ sc.walk[k].path \in DOMAIN out[layerOf(sc.walk[k])]
    BY <2>1 DEF ErofsInv
  <2>5. \A k \in 1..pos + 1 : /\ hasLayer(sc.walk[k]) /\ layerOf(sc.walk[k]) \in 1..Top
                              /\ sc.walk[k].path \in DOMAIN out'[layerOf(sc.walk[k])]
    <3>1. \A k \in 1..pos + 1 : k \in 1..pos \/ k = pos + 1
      BY <2>2
    <3> QED
      BY <2>3, <2>4, <3>1
  <2>6. pos' \in 0..Len(sc'.walk) /\ Len(out') <= Top' /\ (pos' # 0 => Len(out') = Top')
    <3>1. Top' = Top /\ Len(out') <= Top
      BY <1>1, <1>2, <2>1, <2>3
    <3> QED
      BY <2>1, <2>2, <2>3, <3>1
  <2>7. \A i \in DOMAIN out' : Emitted(i, out[i], pos)'
    <3>1. \A i, im, n : Emitted(i, im, n)' <=> Emitted(i, im, n)
      BY <1>2, <2>1
    <3> QED
      BY <2>1, <2>3, <3>1
  <2>8. \A k \in 1..pos' : (/\ hasLayer(sc.walk[k]) /\ layerOf(sc.walk[k]) \in 1..Top
                            /\ sc.walk[k].path \in DOMAIN out[layerOf(sc.walk[k])])'
    <3>1. Top' = Top /\ \A f : (hasLayer(f)' <=> hasLayer(f)) /\ layerOf(f)' = layerOf(f)
      BY <1>2, <2>1
    <3> QED
      BY <2>1, <2>5, <3>1
  <2> QED
    BY <2>1, <2>2, <2>6, <2>7, <2>8 DEF ErofsInv
<1>5. CASE FinishErofs
  <2>1. /\ UNCHANGED <<sc, groups>> /\ job = "erofs" /\ job' = "done"
        /\ made' = [made EXCEPT !.erofs = out, !.stack = out] /\ Len(out) = Top /\ pos = Len(sc.walk)
    BY <1>5 DEF FinishErofs, Walked
  <2>2. made'.erofs = out /\ IsWalk(sc.walk)
    BY <2>1 DEF WalkInv
  <2>3. DOMAIN out = 1..Top
    <3>1. out \in Seq(Range(out))
      BY <2>1 DEF TreeInv
    <3> QED
      BY <2>1, <3>1, LenProperties
  <2>4. Stacked(out, Len(sc.walk))
    BY <1>1, <2>1, <2>3 DEF ErofsInv, Stacked
  <2>5. [p \in DOMAIN View(out) |-> Shown(View(out)[p])] = Image
    BY <2>2, <2>4, StackedIsImage
  <2>6. Image' = Image
    BY <2>1 DEF Image, fileAt
  <2>7. ASSUME NEW i \in 1..Len(groups), NEW d \in DOMAIN out[i] \ {Root}, out[i][d].kind = "dir"
        PROVE  \E p \in DOMAIN out[i] : /\ IsStrictPrefix(d, p) /\ out[i][p].kind # "dir"
                                        /\ out[i][p].time = out[i][d].time
    <3>1. i \in 1..Top /\ i # Top
      BY <1>1
    <3> QED
      BY <2>4, <2>7, <3>1 DEF Stacked, Emitted
  <2>8. ErofsTimes'
    BY <2>1, <2>2, <2>7 DEF ErofsTimes
  <2> QED
    BY <2>1, <2>2, <2>5, <2>6, <2>8 DEF ErofsInv
<1>6. CASE FinishRender
  <2>1. UNCHANGED <<sc, groups, made>> /\ job = "render" /\ job' = "erofs" /\ pos' = 0 /\ out' = <<>>
    BY <1>6 DEF FinishRender, Begin
  <2>2. made.erofs = <<>>
    BY <2>1 DEF ErofsInv
  <2>3. Len(sc.walk) \in Nat /\ Top' = Top /\ DOMAIN out' = {} /\ Len(out') = 0
    BY <2>1, LenProperties DEF WalkInv, IsWalk, Top
  <2> QED
    BY <1>1, <2>1, <2>2, <2>3 DEF ErofsInv
<1>7. CASE RecordPackage \/ Digested \/ Render \/ FinishTar \/ ReadForeign
  <2>1. made'.erofs = made.erofs /\ job # "done" /\ job' # "erofs"
    BY <1>7 DEF WalkInv, RecordPackage, Digested, Render, FinishTar, ReadForeign, Begin
  <2> QED
    BY <2>1 DEF ErofsInv
<1>8. CASE FinishRecord \/ MergeReplaced \/ PickGroups \/ Visit \/ StartDigests \/ Fail
           \/ \E p \in {sc.walk[k].path : k \in 1..Len(sc.walk)} : DigestFile(p)
  <2>1. made' = made /\ job # "done" /\ job' # "erofs"
    BY <1>8 DEF FinishRecord, MergeReplaced, PickGroups, Visit, StartDigests, Fail, DigestFile, Begin
  <2> QED
    BY <2>1 DEF ErofsInv
<1>9. CASE CreateLayerFile
  <2>1. UNCHANGED <<sc, groups, job, pos, out, made>>
    BY <1>9 DEF CreateLayerFile
  <2>2. Image' = Image /\ (ErofsTimes => ErofsTimes')
    BY <2>1 DEF Image, fileAt, ErofsTimes
  <2> QED
    BY <2>1, <2>2, SameEmitted DEF ErofsInv
<1> QED
  BY <1>3, <1>4, <1>5, <1>6, <1>7, <1>8, <1>9 DEF LayersNext

\* The layers of a build as they are made.
BuiltInv == (WalkInv /\ TreeInv) /\ GroupInv /\ TarInv /\ ErofsInv

LEMMA BuiltInit == LayersInit => BuiltInv
<1>1. ASSUME LayersInit PROVE TarInv /\ ErofsInv
  <2>1. made.tar = <<>> /\ made.erofs = <<>> /\ job \in {"record", "ls"}
    BY <1>1 DEF LayersInit
  <2> QED
    BY <2>1 DEF TarInv, ErofsInv
<1> QED
  BY <1>1, TreesInit, GroupInvInit DEF BuiltInv

LEMMA BuiltStep == BuiltInv /\ [LayersNext]_layersVars => BuiltInv'
<1> SUFFICES ASSUME BuiltInv, [LayersNext]_layersVars PROVE BuiltInv'
  OBVIOUS
<1>1. CASE LayersNext
  BY <1>1, WalkInvStep, TreeInvStep, GroupInvStep, TarInvStep, ErofsInvStep DEF BuiltInv
<1>2. CASE UNCHANGED layersVars
  <2>1. WalkInv /\ TreeInv => (WalkInv /\ TreeInv)'
    BY <1>2 DEF layersVars, WalkInv, TreeInv, Building, IsTree, WalkPaths, fileAt
  <2>2. GroupInv => GroupInv'
    BY <1>2 DEF layersVars, GroupInv, GroupsOrderless
  <2>3. TarInv => TarInv'
    BY <1>2 DEF layersVars, TarInv, TarTimes, Layer, Top, Dirs, WalkPaths
  <2>4. ErofsInv => ErofsInv'
    <3>1. UNCHANGED <<sc, groups, job, pos, out, made>>
      BY <1>2 DEF layersVars
    <3>2. Image' = Image /\ (ErofsTimes => ErofsTimes')
      BY <3>1 DEF Image, fileAt, ErofsTimes
    <3> QED
      BY <3>1, <3>2, SameEmitted DEF ErofsInv
  <2> QED
    BY <2>1, <2>2, <2>3, <2>4 DEF BuiltInv
<1> QED
  BY <1>1, <1>2

\* For any packages, any budget and any files: the stack of EROFS layers that a
\* build makes shows the image, each file, directory and time of it, and every
\* layer of a group has directories only for its own files and with their times
\* (splitErofsLayers, emit, partitionLayers).
THEOREM ErofsLayersShowImage == LayersSpec => []ErofsLayers
<1>1. LayersInit => BuiltInv
  BY BuiltInit
<1>2. BuiltInv /\ [LayersNext]_layersVars => BuiltInv'
  BY BuiltStep
<1>3. BuiltInv => ErofsLayers
  BY DEF BuiltInv, TarInv, ErofsInv, TarTimes, ErofsTimes, ErofsLayers, StackShowsImage, OwnTimes
<1> QED
  BY <1>1, <1>2, <1>3, PTL DEF LayersSpec

-----------------------------------------------------------------------------
(***************************************************************************)
(* PlanLayers and Render: the layers rendered from the plans are the ones  *)
(* that BuildLayers makes.                                                 *)
(***************************************************************************)
\* An entry of a tar, and that of a plan which stands for it.
SameEntry(t, p) ==
  /\ p = [path |-> p.path, kind |-> p.kind, to |-> p.to, time |-> p.time, size |-> p.size,
          digest |-> p.digest, planned |-> p.planned]
  /\ t = [path |-> p.path, kind |-> p.kind, to |-> p.to, time |-> p.time, size |-> p.size, data |-> t.data]
  /\ p.planned => t.data = fileAt(p.path).data /\ p.kind = "reg" /\ p.size > 0
  /\ ~p.planned /\ p.kind = "reg" /\ p.size > 0 => p.digest = <<"sha256", t.data>>
  /\ ~(p.kind = "reg" /\ p.size > 0) => t.data = <<>>

SameLayer(t, p) ==
  /\ t \in Seq(Range(t)) /\ p \in Seq(Range(p)) /\ Len(t) = Len(p)
  /\ \A k \in 1..Len(p) : SameEntry(t[k], p[k])

LEMMA SameAppended ==
  ASSUME NEW s, NEW u, SameLayer(s, u), NEW t, NEW p, SameEntry(t, p)
  PROVE  SameLayer(Append(s, t), Append(u, p))
<1> DEFINE n == Len(u)
           S == Range(s) \cup {t}
           U == Range(u) \cup {p}
           a == Append(s, t)
           b == Append(u, p)
<1>1. s \in Seq(S) /\ u \in Seq(U) /\ t \in S /\ p \in U /\ Len(s) = n
  BY DEF SameLayer
<1>2. n \in Nat
  BY LenProperties DEF SameLayer
<1> HIDE DEF S, U, n
<1>3. a \in Seq(S) /\ Len(a) = n + 1 /\ (\A k \in 1..n : a[k] = s[k]) /\ a[n + 1] = t
  BY <1>1, AppendProperties
<1>4. b \in Seq(U) /\ Len(b) = n + 1 /\ (\A k \in 1..n : b[k] = u[k]) /\ b[n + 1] = p
  BY <1>1, AppendProperties DEF n
<1> HIDE DEF a, b
<1>5. a \in [1..n + 1 -> S] /\ b \in [1..n + 1 -> U] /\ n + 1 \in Nat
  BY <1>2, <1>3, <1>4, LenProperties
<1>6. a \in Seq(Range(a)) /\ b \in Seq(Range(b))
  BY <1>5, OwnRange
<1>7. \A k \in 1..n + 1 : k = n + 1 \/ k \in 1..n
  BY <1>2
<1>8. \A k \in 1..n : SameEntry(s[k], u[k])
  BY DEF SameLayer, n
<1>9. \A k \in 1..n + 1 : SameEntry(a[k], b[k])
  BY <1>3, <1>4, <1>7, <1>8
<1>10. SameLayer(a, b)
  BY <1>3, <1>4, <1>6, <1>9 DEF SameLayer
<1> QED
  BY <1>10 DEF a, b

LEMMA SameJoined ==
  ASSUME NEW s, NEW u, SameLayer(s, u), NEW t, NEW v, SameLayer(t, v)
  PROVE  SameLayer(s \o t, u \o v)
<1> DEFINE n == Len(u)
           m == Len(v)
           a == s \o t
           b == u \o v
<1>1. /\ n \in Nat /\ m \in Nat /\ Len(s) = n /\ Len(t) = m
      /\ \A k \in 1..n : SameEntry(s[k], u[k])
      /\ \A k \in 1..m : SameEntry(t[k], v[k])
  BY LenProperties DEF SameLayer
<1>2. a \in Seq(Range(a)) /\ b \in Seq(Range(b))
  BY RangeOfBoth DEF SameLayer
<1> HIDE DEF n, m
<1>3. Len(a) = n + m /\ \A i \in 1..n + m : a[i] = IF i <= n THEN s[i] ELSE t[i - n]
  <2>1. s \in Seq(Range(s) \cup Range(t)) /\ t \in Seq(Range(s) \cup Range(t))
    BY DEF SameLayer
  <2> QED
    BY <1>1, <2>1, ConcatProperties
<1>4. Len(b) = n + m /\ \A i \in 1..n + m : b[i] = IF i <= n THEN u[i] ELSE v[i - n]
  <2>1. u \in Seq(Range(u) \cup Range(v)) /\ v \in Seq(Range(u) \cup Range(v))
    BY DEF SameLayer
  <2> QED
    BY <2>1, ConcatProperties DEF n, m
<1> HIDE DEF a, b
<1>5. ASSUME NEW k \in 1..n + m PROVE SameEntry(a[k], b[k])
  <2>1. CASE k <= n
    <3>1. k \in 1..n
      BY <1>1, <2>1
    <3> QED
      BY <1>1, <1>3, <1>4, <2>1, <3>1
  <2>2. CASE ~(k <= n)
    <3>1. k - n \in 1..m
      BY <1>1, <2>2
    <3> QED
      BY <1>1, <1>3, <1>4, <2>2, <3>1
  <2> QED
    BY <2>1, <2>2
<1>6. SameLayer(a, b)
  BY <1>2, <1>3, <1>4, <1>5 DEF SameLayer
<1> QED
  BY <1>6 DEF a, b

LEMMA NothingSame == SameLayer(<<>>, <<>>)
<1>1. <<>> \in Seq(Range(<<>>)) /\ Len(<<>>) = 0
  OBVIOUS
<1> QED
  BY <1>1 DEF SameLayer

\* The two sinks make the same of a walked file, and of a part of the database.
LEMMA AddSame ==
  ASSUME IsWalk(sc.walk), NEW p \in WalkPaths, NEW time
  PROVE  SameEntry(add("tar", fileAt(p), time), add("plan", fileAt(p), time))
<1> DEFINE f == fileAt(p)
<1>1. PICK k \in DOMAIN sc.walk : sc.walk[k].path = p
  BY DEF WalkPaths
<1>2. f.path = p
  BY <1>1, FileAtFacts
<1>3. fileAt(f.path) = f
  BY <1>2
<1> HIDE DEF f
<1> QED
  BY <1>3 DEF f, SameEntry, add, tarEntry, planEntry, hasContent

LEMMA AddDataSame ==
  ASSUME NEW f, NEW data
  PROVE  SameEntry(addData("tar", f, data), addData("plan", f, data))
BY DEF SameEntry, addData, tarEntry, planEntry, hasContent

LEMMA ReplicatedSame ==
  ASSUME IsWalk(sc.walk), NEW todo \in Dirs, NEW time
  PROVE  SameLayer(replicate("tar", todo, time), replicate("plan", todo, time))
<1> DEFINE n == Len(todo)
           r == replicate("tar", todo, time)
           q == replicate("plan", todo, time)
<1>1. n \in Nat /\ \A k \in 1..n : todo[k] \in WalkPaths
  BY DEF Dirs
<1>2. /\ r = [k \in 1..n |-> add("tar", fileAt(todo[k]), time)]
      /\ q = [k \in 1..n |-> add("plan", fileAt(todo[k]), time)]
  BY DEF replicate
<1>3. r \in [1..n -> Range(r)] /\ q \in [1..n -> Range(q)]
  BY <1>2 DEF Range
<1>4. \A k \in 1..n : SameEntry(r[k], q[k])
  BY <1>1, <1>2, AddSame
<1> HIDE DEF n, r, q
<1>5. r \in Seq(Range(r)) /\ Len(r) = n /\ q \in Seq(Range(q)) /\ Len(q) = n
  BY <1>1, <1>3, OwnRange
<1>6. SameLayer(r, q)
  BY <1>4, <1>5 DEF SameLayer
<1> QED
  BY <1>6 DEF r, q

\* What a layer gets of a file.
LEMMA WrittenSame ==
  ASSUME IsWalk(sc.walk), NEW k \in DOMAIN sc.walk, NEW main \in Dirs, NEW old \in Dirs, NEW g
  PROVE  SameLayer(written("tar", main, old, sc.walk[k], g), written("plan", main, old, sc.walk[k], g))
<1> DEFINE f == sc.walk[k]
           mine == g = layerOf(f)
           lacks == missing(IF mine THEN main ELSE old, main)
           rest == without(missing(old, main), f)
           first(sink) == IF mine THEN Append(replicate(sink, rest, f.time), add(sink, f, f.time)) ELSE <<>>
           second(sink) == IF g \in Parted(f)
                           THEN Append(replicate(sink, lacks, f.time), addData(sink, f, partialDB(g)))
                           ELSE <<>>
<1>1. lacks \in Dirs /\ rest \in Dirs
  <2> HIDE DEF f
  <2> QED
    BY MissingFacts
<1>2. fileAt(f.path) = f /\ f.path \in WalkPaths
  BY FileAtFacts DEF WalkPaths
<1>3. SameLayer(first("tar"), first("plan"))
  <2>1. CASE mine
    <3>1. SameEntry(add("tar", f, f.time), add("plan", f, f.time))
      <4> HIDE DEF f
      <4> QED
        BY <1>2, AddSame
    <3>2. SameLayer(replicate("tar", rest, f.time), replicate("plan", rest, f.time))
      <4> HIDE DEF rest, f
      <4> QED
        BY <1>1, ReplicatedSame
    <3>3. first("tar") = Append(replicate("tar", rest, f.time), add("tar", f, f.time))
          /\ first("plan") = Append(replicate("plan", rest, f.time), add("plan", f, f.time))
      BY <2>1
    <3> HIDE DEF first, rest, f
    <3> QED
      BY <3>1, <3>2, <3>3, SameAppended
  <2> QED
    BY <2>1, NothingSame
<1>4. SameLayer(second("tar"), second("plan"))
  <2>1. CASE g \in Parted(f)
    <3>1. SameEntry(addData("tar", f, partialDB(g)), addData("plan", f, partialDB(g)))
      BY AddDataSame
    <3>2. SameLayer(replicate("tar", lacks, f.time), replicate("plan", lacks, f.time))
      <4> HIDE DEF lacks, f
      <4> QED
        BY <1>1, ReplicatedSame
    <3>3. second("tar") = Append(replicate("tar", lacks, f.time), addData("tar", f, partialDB(g)))
          /\ second("plan") = Append(replicate("plan", lacks, f.time), addData("plan", f, partialDB(g)))
      BY <2>1
    <3> HIDE DEF second, lacks, f
    <3> QED
      BY <3>1, <3>2, <3>3, SameAppended
  <2> QED
    BY <2>1, NothingSame
<1>5. /\ written("tar", main, old, f, g) = first("tar") \o second("tar")
      /\ written("plan", main, old, f, g) = first("plan") \o second("plan")
  BY DEF written
<1> HIDE DEF first, second
<1> QED
  BY <1>3, <1>4, <1>5, SameJoined

\* How a walk goes on by one file, and how it starts: the main stack, the stack of
\* each layer, and what each layer of a tar build has got.
StacksAfter(main, each, f) ==
  [g \in Layer |-> IF g \in Parted(f) \cup {layerOf(f)} THEN main ELSE each[g]]

GotAfter(sink, main, each, got, f) == [g \in Layer |-> got[g] \o written(sink, main, each[g], f, g)]

Onward(w, f) ==
  [main |-> mainStack(w.main, f),
   each |-> StacksAfter(mainStack(w.main, f), w.each, f),
   got |-> GotAfter("tar", mainStack(w.main, f), w.each, w.got, f)]

Outset == [main |-> <<>>, each |-> [g \in Layer |-> <<>>], got |-> [g \in Layer |-> <<>>]]

\* A walk of the first n files.
History(h, n) ==
  /\ DOMAIN h = 0..n /\ h[0] = Outset
  /\ \A k \in 1..n : h[k] = Onward(h[k - 1], sc.walk[k])

\* The plans follow the walk that made the tars, at every file.
PlanInv ==
  /\ job = "tar" =>
       /\ pos \in 0..Len(sc.walk) /\ (pos # 0 => Len(out) = Top)
       /\ \E h : /\ History(h, pos) /\ stack = h[pos].main /\ stacks = h[pos].each
                 /\ \A i \in DOMAIN out : out[i] = h[pos].got[i]
  /\ job = "plan" =>
       /\ pos \in 0..Len(sc.walk) /\ DOMAIN out = Layer
       /\ \E h : /\ History(h, Len(sc.walk)) /\ made.tar = h[Len(sc.walk)].got
                 /\ stack = h[pos].main /\ stacks = h[pos].each
                 /\ \A i \in Layer : SameLayer(h[pos].got[i], out[i])
  /\ job = "digest" => DOMAIN out = Layer /\ \A i \in Layer : SameLayer(made.tar[i], out[i])
  /\ job = "render" =>
       /\ DOMAIN made.rendered = Layer
       /\ \A i \in Layer :
            /\ made.tar[i] \in Seq(Range(made.tar[i])) /\ Len(made.plans[i]) = Len(made.tar[i])
            /\ \A k \in 1..Len(made.tar[i]) : rendered(made.plans[i][k]) = made.tar[i][k]
  /\ job \in {"render", "erofs"} \/ (job = "done" /\ sc # NoBuild) =>
       \A i \in Layer : made.rendered[i] # <<>> => made.rendered[i] = made.tar[i]
  /\ job = "ls" => sc = NoBuild

\* A walk is of the build and its groups.
LEMMA SameHistory ==
  ASSUME sc' = sc, groups' = groups, made'.diffs = made.diffs
  PROVE  Layer' = Layer /\ Top' = Top /\ \A h, n : History(h, n)' <=> History(h, n)
<1>1. Layer' = Layer /\ Top' = Top
  BY DEF Layer, Top
<1>2. \A sink, main, old, f, g : written(sink, main, old, f, g)' = written(sink, main, old, f, g)
  <2>1. \A f : layerOf(f)' = layerOf(f) /\ Parted(f)' = Parted(f)
    BY DEF layerOf, Parted, Top
  <2>2. \A sink, todo, time : replicate(sink, todo, time)' = replicate(sink, todo, time)
    BY DEF replicate, add, fileAt
  <2>3. \A i : partialDB(i)' = partialDB(i)
    BY DEF partialDB
  <2> TAKE sink, main, old, f, g
  <2>4. PICK mine, lacks, rest : /\ mine = (g = layerOf(f)) /\ lacks = missing(IF mine THEN main ELSE old, main)
                                /\ rest = without(missing(old, main), f)
    OBVIOUS
  <2>5. /\ layerOf(f)' = layerOf(f) /\ Parted(f)' = Parted(f) /\ partialDB(g)' = partialDB(g)
        /\ replicate(sink, rest, f.time)' = replicate(sink, rest, f.time)
        /\ replicate(sink, lacks, f.time)' = replicate(sink, lacks, f.time)
    BY <2>1, <2>2, <2>3
  <2>6. PICK first, second :
           /\ first = Append(replicate(sink, rest, f.time), add(sink, f, f.time))
           /\ second = Append(replicate(sink, lacks, f.time), addData(sink, f, partialDB(g)))
    OBVIOUS
  <2>7. written(sink, main, old, f, g) = (IF mine THEN first ELSE <<>>) \o (IF g \in Parted(f) THEN second ELSE <<>>)
    BY <2>4, <2>6 DEF written
  <2>8. written(sink, main, old, f, g)' = (IF mine THEN first ELSE <<>>) \o (IF g \in Parted(f) THEN second ELSE <<>>)
    BY <2>4, <2>5, <2>6 DEF written
  <2> QED
    BY <2>7, <2>8
<1>4. \A w, f : Onward(w, f)' = Onward(w, f)
  <2>1. \A f : layerOf(f)' = layerOf(f) /\ Parted(f)' = Parted(f)
    BY DEF layerOf, Parted, Top
  <2>2. \A main, each, f : StacksAfter(main, each, f)' = StacksAfter(main, each, f)
    BY <1>1, <2>1 DEF StacksAfter
  <2>3. \A sink, main, each, got, f : GotAfter(sink, main, each, got, f)' = GotAfter(sink, main, each, got, f)
    BY <1>1, <1>2 DEF GotAfter
  <2> QED
    BY <2>2, <2>3 DEF Onward
<1>3. Outset' = Outset
  BY <1>1 DEF Outset
<1> QED
  BY <1>1, <1>3, <1>4 DEF History

\* What a step of it comes to.
LEMMA OnwardFacts ==
  ASSUME NEW w, NEW f, NEW main, main = mainStack(w.main, f)
  PROVE  /\ Onward(w, f).main = main /\ Onward(w, f).each = StacksAfter(main, w.each, f)
         /\ Onward(w, f).got = GotAfter("tar", main, w.each, w.got, f)
BY DEF Onward

LEMMA HistoryFacts ==
  ASSUME NEW n \in Nat, NEW h, History(h, n), NEW k \in 1..n
  PROVE  h[k] = Onward(h[k - 1], sc.walk[k])
BY DEF History

LEMMA HistoryGot ==
  ASSUME NEW n \in Nat, NEW h, History(h, n)
  PROVE  h[n].got = [g \in Layer |-> h[n].got[g]]
<1>1. CASE n = 0
  BY <1>1 DEF History, Outset
<1>2. CASE n # 0
  <2>1. n \in 1..n
    BY <1>2
  <2>2. h[n] = Onward(h[n - 1], sc.walk[n])
    BY <2>1, HistoryFacts
  <2>3. PICK w : w = h[n - 1]
    OBVIOUS
  <2>4. h[n].got = GotAfter("tar", mainStack(w.main, sc.walk[n]), w.each, w.got, sc.walk[n])
    BY <2>2, <2>3, OnwardFacts
  <2> QED
    BY <2>4 DEF GotAfter
<1> QED
  BY <1>1, <1>2

\* A step of the walk.
LEMMA VisitPlans ==
  ASSUME WalkInv, GroupInv, TarInv, PlanInv, Visit
  PROVE  PlanInv'
<1> DEFINE f == sc.walk[pos + 1]
           main == mainStack(stack, f)
<1>1. /\ UNCHANGED <<sc, job, groups, made>> /\ job \in {"tar", "plan"} /\ Len(out) = Top
      /\ stack' = main /\ pos' = pos + 1 /\ pos < Len(sc.walk)
      /\ stacks' = StacksAfter(main, stacks, f) /\ out' = GotAfter(job, main, stacks, out, f)
  BY DEF Visit, alignedWith, StacksAfter, GotAfter
<1>2. Layer' = Layer /\ Top' = Top /\ \A h, n : History(h, n)' <=> History(h, n)
  BY <1>1, SameHistory
<1>3. /\ IsWalk(sc.walk) /\ pos \in Nat /\ Len(sc.walk) \in Nat
      /\ pos + 1 \in DOMAIN sc.walk /\ pos + 1 \in 0..Len(sc.walk)
  <2>1. DOMAIN sc.walk = 1..Len(sc.walk) /\ Len(sc.walk) \in Nat /\ IsWalk(sc.walk)
    BY LenProperties DEF WalkInv, IsWalk
  <2> QED
    BY <1>1, <2>1 DEF WalkInv
<1>4. main \in Dirs /\ \A g \in Layer : stacks[g] \in Dirs
  <2>1. stack \in Dirs /\ \A g \in Layer : stacks[g] \in Dirs
    BY <1>1 DEF TarInv
  <2>2. f.path \in WalkPaths
    BY <1>3 DEF WalkPaths
  <2> QED
    BY <1>3, <2>1, <2>2, MainStackFacts
<1>5. Layer = 1..Top /\ Top \in Nat /\ Len(out') = Top
  <2>1. Layer = 1..Top /\ Top \in Nat
    BY DEF GroupInv, Layer, Top
  <2>2. out' \in [1..Top -> {out'[g] : g \in Layer}]
    <3>1. out' = [g \in Layer |-> out'[g]]
      BY <1>1 DEF GotAfter
    <3> QED
      BY <2>1, <3>1
  <2> QED
    BY <2>1, <2>2, OwnRange
<1> HIDE DEF f, main
<1>6. CASE job = "tar"
  <2>1. PICK h : /\ History(h, pos) /\ stack = h[pos].main /\ stacks = h[pos].each
                 /\ \A i \in DOMAIN out : out[i] = h[pos].got[i]
    BY <1>6 DEF PlanInv
  <2>2. DOMAIN out = Layer
    <3>1. out \in Seq(Range(out))
      BY <1>6 DEF TarInv
    <3> QED
      BY <1>1, <1>5, <3>1, LenProperties
  <2> DEFINE w == Onward(h[pos], f)
             h2 == [k \in 0..pos + 1 |-> IF k = pos + 1 THEN w ELSE h[k]]
  <2>3. w.main = stack' /\ w.each = stacks' /\ w.got = out'
    <3>1. PICK v : v = h[pos]
      OBVIOUS
    <3>2. v.main = stack /\ v.each = stacks
      BY <2>1, <3>1
    <3>3. w.main = main /\ w.each = StacksAfter(main, stacks, f) /\ w.got = GotAfter("tar", main, stacks, v.got, f)
      BY <3>1, <3>2, OnwardFacts DEF main
    <3>4. \A g \in Layer : out[g] = v.got[g]
      BY <2>1, <2>2, <3>1
    <3> HIDE DEF w
    <3>5. w.got = out'
      <4>1. GotAfter("tar", main, stacks, v.got, f) = GotAfter("tar", main, stacks, out, f)
        BY <3>4 DEF GotAfter
      <4> QED
        BY <1>1, <1>6, <3>3, <4>1
    <3> QED
      BY <1>1, <3>3, <3>5
  <2>4. History(h2, pos + 1)
    <3>1. DOMAIN h2 = 0..pos + 1 /\ h2[pos + 1] = w /\ \A k \in 0..pos : h2[k] = h[k]
      <4> HIDE DEF w
      <4> QED
        BY <1>3
    <3>2. h2[0] = Outset
      BY <1>3, <2>1, <3>1 DEF History
    <3> HIDE DEF h2
    <3>3. ASSUME NEW k \in 1..pos + 1 PROVE h2[k] = Onward(h2[k - 1], sc.walk[k])
      <4>1. CASE k = pos + 1
        <5>1. k - 1 = pos /\ pos \in 0..pos
          BY <1>3, <4>1
        <5> QED
          BY <3>1, <4>1, <5>1 DEF f
      <4>2. CASE k # pos + 1
        <5>1. k \in 1..pos /\ k \in 0..pos /\ k - 1 \in 0..pos
          BY <1>3, <4>2
        <5> QED
          BY <2>1, <3>1, <5>1 DEF History
      <4> QED
        BY <4>1, <4>2
    <3> QED
      BY <3>1, <3>2, <3>3 DEF History
  <2>5. h2[pos + 1] = w
    <3> HIDE DEF w
    <3> QED
      BY <1>3
  <2> HIDE DEF h2, w
  <2>6. PICK e, n : n = pos + 1 /\ e = h2
    OBVIOUS
  <2>7. History(e, n)' /\ n = pos'
    BY <1>1, <1>2, <2>4, <2>6
  <2>8. History(e, pos)'
    BY <2>7
  <2>9. stack' = e[pos'].main /\ stacks' = e[pos'].each /\ out' = e[pos'].got
    BY <1>1, <2>3, <2>5, <2>6
  <2>10. pos' \in 0..Len(sc'.walk) /\ Len(out') = Top'
    BY <1>1, <1>2, <1>3, <1>5
  <2>11. job' = "tar"
    BY <1>1, <1>6
  <2> QED
    BY <2>8, <2>9, <2>10, <2>11 DEF PlanInv
<1>7. CASE job = "plan"
  <2>1. PICK h : /\ History(h, Len(sc.walk)) /\ made.tar = h[Len(sc.walk)].got
                 /\ stack = h[pos].main /\ stacks = h[pos].each
                 /\ \A i \in Layer : SameLayer(h[pos].got[i], out[i])
    BY <1>7 DEF PlanInv
  <2>2. h[pos + 1] = Onward(h[pos], f)
    <3>1. pos + 1 \in 1..Len(sc.walk) /\ pos + 1 - 1 = pos
      BY <1>3
    <3>2. \A k \in 1..Len(sc.walk) : h[k] = Onward(h[k - 1], sc.walk[k])
      BY <2>1 DEF History
    <3>3. PICK k \in 1..Len(sc.walk) : k = pos + 1
      BY <3>1
    <3>4. k - 1 = pos
      BY <1>3, <3>3
    <3>5. h[k] = Onward(h[k - 1], sc.walk[k])
      BY <3>2
    <3> QED
      BY <3>3, <3>4, <3>5 DEF f
  <2> HIDE DEF f
  <2>3. PICK v : v = h[pos] /\ v.main = stack /\ v.each = stacks
    BY <2>1
  <2>4. h[pos + 1].main = main /\ h[pos + 1].each = StacksAfter(main, stacks, f)
        /\ h[pos + 1].got = GotAfter("tar", main, stacks, v.got, f)
    BY <2>2, <2>3, OnwardFacts DEF main
  <2>5. ASSUME NEW i \in Layer PROVE SameLayer(h[pos + 1].got[i], out'[i])
    <3>1. h[pos + 1].got[i] = v.got[i] \o written("tar", main, stacks[i], f, i)
      BY <2>4 DEF GotAfter
    <3>2. out'[i] = out[i] \o written("plan", main, stacks[i], f, i)
      BY <1>1, <1>7 DEF GotAfter
    <3>3. SameLayer(written("tar", main, stacks[i], f, i), written("plan", main, stacks[i], f, i))
      BY <1>3, <1>4, WrittenSame DEF f
    <3>4. SameLayer(v.got[i], out[i])
      BY <2>1, <2>3
    <3> QED
      BY <3>1, <3>2, <3>3, <3>4, SameJoined
  <2>6. \A t, p : SameLayer(t, p)' <=> SameLayer(t, p)
    BY <1>1 DEF SameLayer, SameEntry, fileAt
  <2>7. PICK n : n = Len(sc.walk)
    OBVIOUS
  <2>8. History(h, n)' /\ n = Len(sc'.walk)
    BY <1>1, <1>2, <2>1, <2>7
  <2>9. History(h, Len(sc.walk))'
    BY <2>8
  <2>10. made'.tar = h[Len(sc'.walk)].got /\ stack' = h[pos'].main /\ stacks' = h[pos'].each
    BY <1>1, <2>1, <2>4
  <2>11. ASSUME NEW i \in Layer' PROVE SameLayer(h[pos].got[i], out[i])'
    <3>1. PICK t, p : t = h[pos + 1].got[i] /\ p = out'[i]
      OBVIOUS
    <3>2. SameLayer(t, p)' /\ t = h[pos'].got[i]
      BY <1>1, <1>2, <2>5, <2>6, <3>1
    <3> QED
      BY <3>1, <3>2
  <2>12. job' = "plan" /\ pos' \in 0..Len(sc'.walk) /\ DOMAIN out' = Layer'
    BY <1>1, <1>2, <1>3, <1>7 DEF GotAfter
  <2> QED
    BY <2>9, <2>10, <2>11, <2>12 DEF PlanInv
<1> QED
  BY <1>1, <1>6, <1>7

\* Of places in layers one comes first.
LEMMA FirstPlace ==
  ASSUME NEW S \in SUBSET (Nat \X Nat), S # {}
  PROVE  \E p \in S : \A q \in S : ~(q[1] < p[1] \/ (q[1] = p[1] /\ q[2] < p[2]))
<1>1. PICK i \in {p[1] : p \in S} : \A j \in {p[1] : p \in S} : i <= j
  <2>1. {p[1] : p \in S} \in SUBSET Nat /\ {p[1] : p \in S} # {}
    OBVIOUS
  <2> QED
    BY <2>1, LeastExists
<1> DEFINE inI == {p \in S : p[1] = i}
<1>2. PICK k \in {p[2] : p \in inI} : \A j \in {p[2] : p \in inI} : k <= j
  <2>1. {p[2] : p \in inI} \in SUBSET Nat /\ {p[2] : p \in inI} # {}
    BY <1>1
  <2> QED
    BY <2>1, LeastExists
<1>3. PICK p \in S : p[1] = i /\ p[2] = k
  BY <1>2
<1>4. \A q \in S : q[1] \in Nat /\ q[2] \in Nat /\ i <= q[1] /\ (q[1] = i => k <= q[2])
  BY <1>1, <1>2
<1>5. \A q \in S : ~(q[1] < p[1] \/ (q[1] = p[1] /\ q[2] < p[2]))
  BY <1>3, <1>4
<1> QED
  BY <1>5

\* A content that is planned is found at a path that has it.
LEMMA ContentAtPath ==
  ASSUME Layer \subseteq Nat, NEW place \in planned
  PROVE  fileAt(pathContent[digestOf(fileAt(pathAt(place)))]).data = fileAt(pathAt(place)).data
<1> DEFINE digestAt(p) == digestOf(fileAt(pathAt(p)))
           before(p, q) == p[1] < q[1] \/ (p[1] = q[1] /\ p[2] < q[2])
           IsFirst(p, d) == digestAt(p) = d /\ \A q \in planned : before(q, p) => digestAt(q) # d
           first(d) == CHOOSE p \in planned : IsFirst(p, d)
           D == digestAt(place)
           S == {p \in planned : digestAt(p) = D}
<1>1. planned \subseteq Nat \X Nat
  BY DEF planned
<1>2. \E p \in planned : IsFirst(p, D)
  <2>1. S \in SUBSET (Nat \X Nat) /\ place \in S
    BY <1>1
  <2>2. PICK p \in S : \A q \in S : ~before(q, p)
    <3> HIDE DEF S
    <3> QED
      BY <2>1, FirstPlace
  <2> QED
    BY <2>2
<1>3. first(D) \in planned /\ digestAt(first(D)) = D
  BY <1>2
<1>4. pathContent = [d \in {digestAt(p) : p \in planned} |-> pathAt(first(d))]
  BY DEF pathContent
<1>5. pathContent[D] = pathAt(first(D))
  BY <1>4
<1>6. \A f : digestOf(f)[2] = f.data
  BY DEF digestOf
<1>7. fileAt(pathAt(first(D))).data = D[2] /\ fileAt(pathAt(place)).data = D[2]
  BY <1>3, <1>6
<1> QED
  BY <1>5, <1>7

\* A content that is generated comes with its digest.
LEMMA ContentInline ==
  ASSUME NEW i \in Layer, NEW k \in 1..Len(out[i]), NEW d, d # <<>>, out[i][k].digest = d
  PROVE  d \in DOMAIN inlineContent
<1> DEFINE of(j) == {out[j][n].digest : n \in 1..Len(out[j])}
           every == {of(j) : j \in Layer}
           generated == (UNION every) \ {<<>>}
<1>1. d \in of(i) /\ of(i) \in every
  OBVIOUS
<1> HIDE DEF of, every
<1>2. d \in generated
  BY <1>1
<1> HIDE DEF generated
<1>3. inlineContent = [x \in generated |-> x[2]]
  BY DEF inlineContent, generated, every, of
<1> QED
  BY <1>2, <1>3

LEMMA InlineFacts ==
  \A d \in DOMAIN inlineContent : inlineContent[d] = d[2]
BY DEF inlineContent

\* What planLayers makes of an entry of the plan when the files are digested.
Digesting(p) == IF p.planned THEN [p EXCEPT !.digest = digestOf(fileAt(p.path))] ELSE p

\* Rendered with the contents collected, each entry is the one the tar has.
LEMMA RendersTar ==
  ASSUME Layer \subseteq Nat, sc' = sc, made'.content = [inline |-> inlineContent, paths |-> pathContent],
         NEW p, NEW t, SameEntry(t, p), NEW e, e = Digesting(p),
         p.planned => \E place \in planned : pathAt(place) = p.path,
         p.digest # <<>> => p.digest \in DOMAIN inlineContent
  PROVE  rendered(e)' = t
<1>1. e = Digesting(p)
  OBVIOUS
<1>2. /\ p = [path |-> p.path, kind |-> p.kind, to |-> p.to, time |-> p.time, size |-> p.size,
              digest |-> p.digest, planned |-> p.planned]
      /\ t = [path |-> p.path, kind |-> p.kind, to |-> p.to, time |-> p.time, size |-> p.size, data |-> t.data]
      /\ p.planned => t.data = fileAt(p.path).data /\ p.kind = "reg" /\ p.size > 0
      /\ ~p.planned /\ p.kind = "reg" /\ p.size > 0 => p.digest = <<"sha256", t.data>>
      /\ ~(p.kind = "reg" /\ p.size > 0) => t.data = <<>>
  BY DEF SameEntry
<1>3. \A d : openContent(d)' = IF d \in DOMAIN inlineContent THEN inlineContent[d]
                               ELSE fileAt(pathContent[d]).data
  BY DEF openContent, fileAt
<1>4. e.path = p.path /\ e.kind = p.kind /\ e.to = p.to /\ e.time = p.time /\ e.size = p.size
  BY <1>1, <1>2 DEF Digesting
<1>5. e.kind = "reg" /\ e.size > 0 => openContent(e.digest)' = t.data
  <2>1. CASE p.planned
    <3>1. e.digest = digestOf(fileAt(p.path))
      BY <1>1, <1>2, <2>1 DEF Digesting
    <3>2. e.digest[2] = t.data
      BY <1>2, <2>1, <3>1 DEF digestOf
    <3>4. PICK place \in planned : pathAt(place) = p.path
      BY <2>1
    <3>5. fileAt(pathContent[e.digest]).data = t.data
      BY <1>2, <2>1, <3>1, <3>4, ContentAtPath
    <3> QED
      BY <1>3, <3>2, <3>5, InlineFacts
  <2>2. CASE ~p.planned /\ p.kind = "reg" /\ p.size > 0
    <3>1. e.digest = <<"sha256", t.data>>
      BY <1>1, <1>2, <2>2 DEF Digesting
    <3>2. e.digest = p.digest
      BY <1>1, <2>2 DEF Digesting
    <3>3. e.digest \in DOMAIN inlineContent
      BY <3>1, <3>2
    <3> QED
      BY <1>3, <3>1, <3>3, InlineFacts
  <2> QED
    BY <1>4, <2>1, <2>2
<1>6. rendered(e)' = [path |-> e.path, kind |-> e.kind, to |-> e.to, time |-> e.time, size |-> e.size,
                      data |-> IF e.kind = "reg" /\ e.size > 0 THEN openContent(e.digest)' ELSE <<>>]
  BY DEF rendered
<1>7. (IF e.kind = "reg" /\ e.size > 0 THEN openContent(e.digest)' ELSE <<>>) = t.data
  BY <1>2, <1>4, <1>5
<1> QED
  BY <1>2, <1>4, <1>6, <1>7

\* Writers are opened before the first file.
LEMMA OpenWriterPlans ==
  ASSUME GroupInv, TarInv, PlanInv, OpenWriter
  PROVE  PlanInv'
<1>1. UNCHANGED <<sc, job, groups, pos, stack, stacks, made>> /\ job \in {"tar", "erofs"} /\ Len(out) < Top
  BY DEF OpenWriter
<1>2. Layer' = Layer /\ Top' = Top /\ \A h, n : History(h, n)' <=> History(h, n)
  BY <1>1, SameHistory
<1>3. CASE job = "tar"
  <2>1. out' = Append(out, <<>>)
    BY <1>3 DEF OpenWriter
  <2>2. Layer = 1..Top /\ Top \in Nat
    BY DEF GroupInv, Layer, Top
  <2>3. pos = 0
    <3>1. ~(Top < Top)
      BY <2>2
    <3> QED
      BY <1>1, <1>3, <3>1 DEF PlanInv
  <2>4. PICK h : /\ History(h, pos) /\ stack = h[pos].main /\ stacks = h[pos].each
                 /\ \A i \in DOMAIN out : out[i] = h[pos].got[i]
    BY <1>3 DEF PlanInv
  <2> DEFINE n == Len(out)
  <2>5. n \in Nat /\ DOMAIN out = 1..n /\ n + 1 \in Layer
    <3>1. out \in Seq(Range(out))
      BY <1>3 DEF TarInv
    <3>2. n \in Nat /\ DOMAIN out = 1..n
      BY <3>1, LenProperties
    <3> QED
      BY <1>1, <2>2, <3>2
  <2>6. /\ \A i \in DOMAIN out' : i \in 1..n \/ i = n + 1
        /\ \A i \in 1..n : out'[i] = out[i]
        /\ out'[n + 1] = <<>>
    <3> DEFINE S == Range(out) \cup {<<>>}
    <3>1. out \in Seq(S)
      BY <1>3 DEF TarInv
    <3>2. /\ out' \in Seq(S) /\ Len(out') = n + 1
          /\ \A i \in 1..n : out'[i] = out[i]
          /\ out'[n + 1] = <<>>
      BY <2>1, <3>1, AppendProperties
    <3> HIDE DEF S, n
    <3>3. DOMAIN out' = 1..n + 1
      BY <3>2, LenProperties
    <3> QED
      BY <2>5, <3>2, <3>3
  <2>7. h[0].got = [g \in Layer |-> <<>>]
    BY <2>4 DEF History, Outset
  <2>8. \A i \in DOMAIN out' : out'[i] = h[pos].got[i]
    BY <2>3, <2>4, <2>5, <2>6, <2>7
  <2>9. PICK m : m = pos
    OBVIOUS
  <2>10. History(h, m)' /\ m = pos'
    BY <1>1, <1>2, <2>4, <2>9
  <2>11. History(h, pos)'
    BY <2>10
  <2>12. stack' = h[pos'].main /\ stacks' = h[pos'].each /\ \A i \in DOMAIN out' : out'[i] = h[pos'].got[i]
    BY <1>1, <2>4, <2>8
  <2>13. job' = "tar" /\ pos' \in 0..Len(sc'.walk) /\ pos' = 0
    BY <1>1, <1>3, <2>3 DEF PlanInv
  <2> QED
    BY <2>11, <2>12, <2>13 DEF PlanInv
<1>4. CASE job = "erofs"
  BY <1>1, <1>2, <1>4 DEF PlanInv
<1> QED
  BY <1>1, <1>3, <1>4

\* The tars are made: the plans start with the walk they made.
LEMMA FinishTarPlans ==
  ASSUME WalkInv, GroupInv, TarInv, PlanInv, FinishTar
  PROVE  PlanInv'
<1>1. /\ UNCHANGED <<sc, groups>> /\ job = "tar" /\ job' = "plan" /\ Len(out) = Top /\ pos = Len(sc.walk)
      /\ made' = [made EXCEPT !.tar = out] /\ pos' = 0 /\ stack' = <<>>
      /\ stacks' = [i \in Layer |-> <<>>] /\ out' = [i \in Layer |-> <<>>]
  BY DEF FinishTar, Begin, Walked
<1>2. made'.tar = out /\ made'.diffs = made.diffs
  BY <1>1 DEF WalkInv
<1>3. Layer' = Layer /\ Top' = Top /\ \A h, n : History(h, n)' <=> History(h, n)
  BY <1>1, <1>2, SameHistory
<1>4. PICK h : /\ History(h, pos) /\ stack = h[pos].main /\ stacks = h[pos].each
               /\ \A i \in DOMAIN out : out[i] = h[pos].got[i]
  BY <1>1 DEF PlanInv
<1>5. pos \in Nat /\ Len(sc.walk) \in Nat
  BY <1>1 DEF WalkInv
<1>6. out = h[pos].got
  <2>1. out \in Seq(Range(out)) /\ Layer = 1..Top
    BY <1>1 DEF TarInv, Layer
  <2>2. out = [i \in Layer |-> out[i]]
    BY <1>1, <2>1
  <2>3. h[pos].got = [i \in Layer |-> h[pos].got[i]]
    BY <1>4, <1>5, HistoryGot
  <2> QED
    BY <1>4, <2>2, <2>3
<1>7. h[0].main = <<>> /\ h[0].each = [g \in Layer |-> <<>>] /\ h[0].got = [g \in Layer |-> <<>>]
  BY <1>4 DEF History, Outset
<1>8. PICK n : n = Len(sc.walk)
  OBVIOUS
<1>9. History(h, n)' /\ n = Len(sc'.walk)
  BY <1>1, <1>3, <1>4, <1>8
<1>10. History(h, Len(sc.walk))'
  BY <1>9
<1>11. made'.tar = h[Len(sc'.walk)].got /\ stack' = h[pos'].main /\ stacks' = h[pos'].each
  BY <1>1, <1>2, <1>6, <1>7
<1>12. ASSUME NEW i \in Layer' PROVE SameLayer(h[pos].got[i], out[i])'
  <2>1. h[pos'].got[i] = <<>> /\ out'[i] = <<>>
    BY <1>1, <1>3, <1>7
  <2>2. SameLayer(<<>>, <<>>)'
    <3>1. <<>> \in Seq(Range(<<>>)) /\ Len(<<>>) = 0
      OBVIOUS
    <3> QED
      BY <3>1 DEF SameLayer
  <2> QED
    BY <2>1, <2>2
<1>13. pos' \in 0..Len(sc'.walk) /\ DOMAIN out' = Layer'
  BY <1>1, <1>3, <1>5
<1> QED
  BY <1>1, <1>10, <1>11, <1>12, <1>13 DEF PlanInv

\* The files are digested: rendered, the plans give the tars.
LEMMA DigestedPlans ==
  ASSUME WalkInv, GroupInv, PlanInv, Digested
  PROVE  PlanInv'
<1>1. UNCHANGED <<sc, groups, out>> /\ job = "digest" /\ job' = "render"
  BY DEF Digested
<1>2. /\ made'.content = [inline |-> inlineContent, paths |-> pathContent]
      /\ made'.plans = [i \in Layer |-> [k \in 1..Len(out[i]) |-> Digesting(out[i][k])]]
      /\ made'.rendered = [i \in Layer |-> <<>>] /\ made'.tar = made.tar
  BY DEF Digested, Digesting, WalkInv
<1>3. Layer' = Layer /\ Layer \subseteq Nat
  BY <1>1 DEF Layer, Top, GroupInv
<1>4. ASSUME NEW i \in Layer
      PROVE  /\ made.tar[i] \in Seq(Range(made.tar[i])) /\ Len(made'.plans[i]) = Len(made.tar[i])
             /\ \A k \in 1..Len(made.tar[i]) : rendered(made.plans[i][k])' = made.tar[i][k]
  <2>1. SameLayer(made.tar[i], out[i])
    BY <1>1 DEF PlanInv
  <2>2. /\ made.tar[i] \in Seq(Range(made.tar[i])) /\ Len(made.tar[i]) = Len(out[i])
        /\ \A k \in 1..Len(out[i]) : SameEntry(made.tar[i][k], out[i][k])
    BY <2>1 DEF SameLayer
  <2>3. made'.plans[i] = [k \in 1..Len(out[i]) |-> Digesting(out[i][k])]
    BY <1>2
  <2>4. Len(made'.plans[i]) = Len(out[i])
    <3>1. Len(out[i]) \in Nat
      BY <2>2, LenProperties
    <3> DEFINE n == Len(out[i])
               q == made'.plans[i]
    <3>2. q \in [1..n -> Range(q)]
      BY <2>3 DEF Range
    <3> HIDE DEF n, q
    <3>3. n \in Nat
      BY <3>1 DEF n
    <3>4. Len(q) = n
      BY <3>2, <3>3, OwnRange
    <3> QED
      BY <3>4 DEF n, q
  <2>5. ASSUME NEW k \in 1..Len(out[i]) PROVE rendered(made.plans[i][k])' = made.tar[i][k]
    <3>1. PICK p, e, t : p = out[i][k] /\ e = Digesting(p) /\ t = made.tar[i][k]
      OBVIOUS
    <3>2. SameEntry(t, p)
      BY <2>2, <3>1
    <3>3. sc' = sc /\ made'.content = [inline |-> inlineContent, paths |-> pathContent]
      BY <1>1, <1>2
    <3>4. p.planned => \E place \in planned : pathAt(place) = p.path
      <4>1. PICK place : place = <<i, k>>
        OBVIOUS
      <4> QED
        BY <3>1, <4>1 DEF planned, pathAt
    <3>6. p.digest # <<>> => p.digest \in DOMAIN inlineContent
      BY <3>1, ContentInline
    <3>7. rendered(e)' = t
      BY <1>3, <3>1, <3>2, <3>3, <3>4, <3>6, RendersTar
    <3>5. made'.plans[i][k] = e
      BY <2>3, <3>1
    <3> QED
      BY <3>1, <3>5, <3>7
  <2> QED
    BY <2>2, <2>4, <2>5
<1>5. DOMAIN made'.rendered = Layer' /\ \A i \in Layer' : made'.rendered[i] = <<>>
  BY <1>2, <1>3
<1>6. \A i \in Layer' : /\ made'.tar[i] \in Seq(Range(made'.tar[i])) /\ Len(made'.plans[i]) = Len(made'.tar[i])
                        /\ \A k \in 1..Len(made'.tar[i]) : rendered(made.plans[i][k])' = made'.tar[i][k]
  <2> TAKE i \in Layer'
  <2>1. /\ made.tar[i] \in Seq(Range(made.tar[i])) /\ Len(made'.plans[i]) = Len(made.tar[i])
        /\ \A k \in 1..Len(made.tar[i]) : rendered(made.plans[i][k])' = made.tar[i][k]
    BY <1>3, <1>4
  <2> QED
    BY <1>2, <2>1
<1> QED
  BY <1>1, <1>5, <1>6 DEF PlanInv

\* A layer is rendered.
LEMMA RenderPlans ==
  ASSUME WalkInv, GroupInv, PlanInv, Render
  PROVE  PlanInv'
<1> DEFINE g == pos + 1
           made2 == [k \in 1..Len(made.plans[g]) |-> rendered(made.plans[g][k])]
<1>1. UNCHANGED <<sc, groups>> /\ job = "render" /\ job' = "render" /\ pos < Top
      /\ made' = [made EXCEPT !.rendered[g] = made2]
  BY DEF Render
<1>2. Layer' = Layer /\ g \in Layer
  BY <1>1 DEF Layer, Top, GroupInv, WalkInv
<1>3. /\ DOMAIN made.rendered = Layer
      /\ \A i \in Layer :
            /\ made.tar[i] \in Seq(Range(made.tar[i])) /\ Len(made.plans[i]) = Len(made.tar[i])
            /\ \A k \in 1..Len(made.tar[i]) : rendered(made.plans[i][k]) = made.tar[i][k]
      /\ \A i \in Layer : made.rendered[i] # <<>> => made.rendered[i] = made.tar[i]
  BY <1>1 DEF PlanInv
<1>4. /\ made'.content = made.content /\ made'.plans = made.plans /\ made'.tar = made.tar
      /\ made'.rendered = [made.rendered EXCEPT ![g] = made2]
  <2> HIDE DEF made2, g
  <2> QED
    BY <1>1 DEF WalkInv
<1>5. made2 = made.tar[g]
  <2>1. /\ made.tar[g] \in Seq(Range(made.tar[g])) /\ Len(made.plans[g]) = Len(made.tar[g])
        /\ \A k \in 1..Len(made.tar[g]) : rendered(made.plans[g][k]) = made.tar[g][k]
    BY <1>2, <1>3
  <2>2. made.tar[g] = [k \in 1..Len(made.tar[g]) |-> made.tar[g][k]]
    BY <2>1
  <2> QED
    BY <2>1, <2>2
<1> HIDE DEF made2, g
<1>6. \A e : rendered(e)' = rendered(e)
  BY <1>1, <1>4 DEF rendered, openContent, fileAt
<1>7. DOMAIN made'.rendered = Layer' /\ \A i \in Layer' : made'.rendered[i] # <<>> => made'.rendered[i] = made'.tar[i]
  BY <1>2, <1>3, <1>4, <1>5
<1>8. \A i \in Layer' : /\ made'.tar[i] \in Seq(Range(made'.tar[i])) /\ Len(made'.plans[i]) = Len(made'.tar[i])
                        /\ \A k \in 1..Len(made'.tar[i]) : rendered(made.plans[i][k])' = made'.tar[i][k]
  BY <1>2, <1>3, <1>4, <1>6
<1> QED
  BY <1>1, <1>7, <1>8 DEF PlanInv

\* What is not among these the plans do not depend on.
LEMMA PlanInvStays ==
  ASSUME PlanInv, UNCHANGED <<sc, job, groups, pos, stack, stacks, out, made>>
  PROVE  PlanInv'
<1>2. Layer' = Layer /\ Top' = Top /\ \A h, n : History(h, n)' <=> History(h, n)
  BY SameHistory
<1>3. /\ \A t, p : SameLayer(t, p)' <=> SameLayer(t, p)
      /\ \A e : rendered(e)' = rendered(e)
  BY DEF SameLayer, SameEntry, rendered, openContent, fileAt
<1> QED
  BY <1>2, <1>3 DEF PlanInv

LEMMA PlanInvStep ==
  ASSUME WalkInv, GroupInv, TarInv, PlanInv, LayersNext
  PROVE  PlanInv'
<1>1. CASE Visit
  BY <1>1, VisitPlans
<1>2. CASE OpenWriter
  BY <1>2, OpenWriterPlans
<1>3. CASE FinishTar
  BY <1>3, FinishTarPlans
<1>4. CASE Digested
  BY <1>4, DigestedPlans
<1>5. CASE Render
  BY <1>5, RenderPlans
<1>6. CASE PickGroups
  <2>1. /\ sc' = sc /\ job' = "tar" /\ pos' = 0 /\ stack' = <<>> /\ out' = <<>>
        /\ stacks' = [i \in 1..Len(groups') + 1 |-> <<>>]
    BY <1>6 DEF PickGroups, Begin
  <2>2. PICK h : h = [k \in {0} |-> Outset']
    OBVIOUS
  <2>3. History(h, pos)'
    <3>1. pos' = 0 /\ 0..0 = {0} /\ 1..0 = {}
      BY <2>1
    <3>2. DOMAIN h = {0} /\ h[0] = Outset'
      BY <2>2
    <3> QED
      BY <3>1, <3>2 DEF History
  <2>4. stack' = h[pos'].main /\ stacks' = h[pos'].each
    BY <2>1, <2>2 DEF Outset, Layer, Top
  <2>5. DOMAIN out' = {} /\ pos' \in 0..Len(sc'.walk)
    <3>1. Len(sc.walk) \in Nat
      BY LenProperties DEF WalkInv, IsWalk
    <3> QED
      BY <2>1, <3>1
  <2> QED
    BY <2>1, <2>3, <2>4, <2>5 DEF PlanInv
<1>7. CASE StartDigests
  <2>1. UNCHANGED <<sc, groups, out, made>> /\ job = "plan" /\ job' = "digest" /\ pos = Len(sc.walk)
    BY <1>7 DEF StartDigests, Walked
  <2>2. DOMAIN out = Layer /\ \A i \in Layer : SameLayer(made.tar[i], out[i])
    BY <2>1 DEF PlanInv
  <2>3. Layer' = Layer /\ \A t, p : SameLayer(t, p)' <=> SameLayer(t, p)
    BY <2>1 DEF Layer, Top, SameLayer, SameEntry, fileAt
  <2>4. DOMAIN out' = Layer' /\ \A i \in Layer' : SameLayer(made.tar[i], out[i])'
    BY <2>1, <2>2, <2>3
  <2> QED
    BY <2>1, <2>4 DEF PlanInv
<1>8. CASE \E q \in {sc.walk[k].path : k \in 1..Len(sc.walk)} : DigestFile(q)
  <2>1. UNCHANGED <<sc, groups, out, made, job>> /\ job = "digest"
    BY <1>8 DEF DigestFile
  <2>2. DOMAIN out = Layer /\ \A i \in Layer : SameLayer(made.tar[i], out[i])
    BY <2>1 DEF PlanInv
  <2>3. Layer' = Layer /\ \A t, p : SameLayer(t, p)' <=> SameLayer(t, p)
    BY <2>1 DEF Layer, Top, SameLayer, SameEntry, fileAt
  <2>4. DOMAIN out' = Layer' /\ \A i \in Layer' : SameLayer(made.tar[i], out[i])'
    BY <2>1, <2>2, <2>3
  <2> QED
    BY <2>1, <2>4 DEF PlanInv
<1>9. CASE FinishRender \/ VisitErofs \/ FinishErofs
  <2>1. /\ UNCHANGED <<sc, groups>> /\ made'.rendered = made.rendered /\ made'.tar = made.tar
        /\ job \in {"render", "erofs"} /\ job' \in {"erofs", "done"}
    BY <1>9 DEF FinishRender, VisitErofs, FinishErofs, Begin, WalkInv
  <2>2. Layer' = Layer
    BY <2>1 DEF Layer, Top
  <2> QED
    BY <2>1, <2>2 DEF PlanInv
<1>10. CASE ReadForeign
  <2>1. sc' = sc /\ sc = NoBuild /\ job' = "done"
    BY <1>10 DEF ReadForeign, PlanInv
  <2> QED
    BY <2>1 DEF PlanInv, NoBuild
<1>11. CASE RecordPackage \/ FinishRecord \/ MergeReplaced \/ Fail
  <2>1. job' \in {"record", "group", "failed"}
    BY <1>11 DEF RecordPackage, FinishRecord, MergeReplaced, Fail
  <2> QED
    BY <2>1 DEF PlanInv
<1>12. CASE CreateLayerFile
  BY <1>12, PlanInvStays DEF CreateLayerFile
<1> QED
  BY <1>1, <1>2, <1>3, <1>4, <1>5, <1>6, <1>7, <1>8, <1>9, <1>10, <1>11, <1>12 DEF LayersNext

\* For any packages, any budget and any files, and whatever the order in which
\* files are digested: a layer rendered from its plan is, entry by entry, the one
\* that BuildLayers makes (planLayers, digestFiles, Render).
THEOREM RenderedAreBuilt == LayersSpec => []RenderSame
<1> DEFINE Inv == BuiltInv /\ PlanInv
<1>1. LayersInit => Inv
  <2>1. LayersInit => BuiltInv
    BY BuiltInit
  <2>2. ASSUME LayersInit PROVE PlanInv
    <3>1. job \in {"record", "ls"} /\ (job = "ls" => sc = NoBuild)
      BY <2>2 DEF LayersInit
    <3> QED
      BY <3>1 DEF PlanInv
  <2> QED
    BY <2>1, <2>2
<1>2. Inv /\ [LayersNext]_layersVars => Inv'
  <2>1. BuiltInv /\ [LayersNext]_layersVars => BuiltInv'
    BY BuiltStep
  <2>2. PlanInv /\ BuiltInv /\ LayersNext => PlanInv'
    BY PlanInvStep DEF BuiltInv
  <2>3. UNCHANGED layersVars => UNCHANGED <<sc, job, groups, pos, stack, stacks, out, made>>
    BY DEF layersVars
  <2> QED
    BY <2>1, <2>2, <2>3, PlanInvStays
<1>3. Inv => RenderSame
  BY DEF PlanInv, RenderSame
<1> QED
  BY <1>1, <1>2, <1>3, PTL DEF LayersSpec
-----------------------------------------------------------------------------
(***************************************************************************)
(* ErofsMount, for any number of mount commands, layers and sessions: the  *)
(* mount table and the state file stay in order, and writes made through a *)
(* mount are kept, each session's apart.                                   *)
(*                                                                         *)
(* Two hypotheses are the run's as well: one umount command at a time, and *)
(* cleanups that the kernel does not refuse.  Without either, the state    *)
(* file can go while something is mounted.                                 *)
(***************************************************************************)

Alone == /\ \A u, w \in Unmounters : u = w
         /\ ~CleanupBusy

\* A mount command that has claimed the state file, and an umount command that
\* has read a record.
Mounting(p) == pc[p] \in {"upper", "layers", "overlay", "write", "cleanup"}
Unmounting(p) == pc[p] \in {"umount", "rewrite", "rmdirs", "rmstate"}

\* Mount commands are never where umount commands are, nor the other way round;
\* they start without a cleanup.
Roles ==
  /\ \A p \in Mounters : /\ pc[p] \in {"idle", "claim"} \/ Mounting(p)
                         /\ pc[p] = "claim" => up[p] = {}
  /\ \A p \in Unmounters : pc[p] \in {"idle", "load"} \/ Unmounting(p)

\* The claim belongs to one mount command, whose cleanups hold exactly what is
\* mounted; how much that is follows from where it is.
Claimed ==
  \A p \in Mounters : Mounting(p) =>
    /\ file = Empty
    /\ \A q \in Mounters : Mounting(q) => q = p
    /\ \A m \in Points : mounted[m] > 0 <=> m \in up[p]
    /\ pc[p] = "upper" => up[p] = {} /\ ~Direct(p)
    /\ pc[p] = "layers" => ~Direct(p) /\ \E k \in 0..(layers - 1) : up[p] = 1..k
    /\ pc[p] = "overlay" => up[p] = IF Direct(p) THEN {} ELSE 1..layers
    /\ pc[p] = "write" => 0 \in up[p]

\* An umount command has a record behind it, and its list holds what is mounted.
Listed ==
  \A u \in Unmounters : Unmounting(u) =>
    /\ file.st = "record"
    /\ \A m \in Points : mounted[m] > 0 => m \in up[u]
    /\ ~cut => \A m \in up[u] : mounted[m] > 0
    /\ up[u] = {} <=> pc[u] \in {"rmdirs", "rmstate"}

\* What the state file says: without it nothing is mounted, a claim has its
\* claimant, and a record lists what is mounted, and nothing else unless an
\* umount is taking it down.
Described ==
  /\ file = Absent => \A m \in Points : mounted[m] = 0
  /\ file = Empty /\ ~cut => \E p \in Mounters : Mounting(p)
  /\ file.st = "record" => \A m \in Points : mounted[m] > 0 => m \in file.mounts
  /\ file.st = "record" /\ ~cut /\ (\A u \in Unmounters : ~Unmounting(u))
       => \A m \in file.mounts : mounted[m] > 0

\* The upper directory holds the writes of the session that is mounted
\* read-write, of one left behind, or nothing when a session is about to be.
UpperOwned ==
  /\ \A p \in Mounters : rw[p] /\ pc[p] \in {"layers", "overlay"} => upper = {}
  /\ live # <<>> /\ Head(live) # 0 => upper \subseteq {Head(live)}
  /\ \A s, t \in upper : s = t
  /\ WritesSurvive

IInv == TypeOK /\ NeverStacked /\ Roles /\ Claimed /\ Listed /\ Described /\ UpperOwned

-----------------------------------------------------------------------------
(***************************************************************************)
(* The operators.                                                          *)
(***************************************************************************)

\* The mountpoints of the image are among Points, which is finite.
LEMMA PointsFacts ==
  /\ Max(Ls) \in Nat
  /\ \A n \in Ls : n \in Nat /\ n > 0 /\ 0..n \subseteq Points
  /\ 0 \in Points /\ Points \subseteq Nat /\ IsFiniteSet(Points)
<1>1. Max(Ls) \in Ls /\ \A n \in Ls : Max(Ls) >= n
  BY ErofsAssumption, MaxExists
<1>2. Max(Ls) \in Nat
  BY <1>1, ErofsAssumption
<1>3. IsFiniteSet(Points)
  BY <1>2, FS_Interval DEF Points
<1> QED
  BY <1>1, <1>2, <1>3, ErofsAssumption DEF Points

\* The first entry of a list of mounts is one of them, merged if it is there.
LEMMA HeadOfFacts ==
  ASSUME NEW S \in SUBSET Points, S # {}
  PROVE  HeadOf(S) \in S /\ (0 \in S => HeadOf(S) = 0)
<1>1. S \in SUBSET Nat /\ IsFiniteSet(S)
  BY PointsFacts, FS_Subset
<1> QED
  BY <1>1, MaxExists DEF HeadOf

\* The last entry is dropped when the list has one entry.
LEMMA LastEntry ==
  ASSUME NEW S \in SUBSET Points, NEW x \in S
  PROVE  Cardinality(S) = 1 <=> S \ {x} = {}
<1>1. IsFiniteSet(S)
  BY PointsFacts, FS_Subset
<1>2. Cardinality(S) = 1 <=> \E y : S = {y}
  BY <1>1, FS_Singleton
<1> QED
  BY <1>2

\* The contents of the state file tell its states apart.
LEMMA FileFacts ==
  /\ Absent.st = "absent" /\ Absent.mounts = {}
  /\ Empty.st = "empty" /\ Empty.mounts = {}
  /\ \A S : Record(S).st = "record" /\ Record(S).mounts = S
BY DEF Absent, Empty, Record

\* The kinds of state file that its type leaves.
LEMMA FileKinds ==
  ASSUME TypeOK
  PROVE  \/ file = Absent
         \/ file = Empty
         \/ file.st = "record" /\ file.mounts \in SUBSET Points /\ file.mounts # {}
<1>1. file \in {Absent, Empty} \/ \E S \in (SUBSET Points) \ {{}} : file = Record(S)
  BY DEF TypeOK
<1> QED
  BY <1>1, FileFacts

-----------------------------------------------------------------------------
(***************************************************************************)
(* The invariant.                                                          *)
(***************************************************************************)

\* Nothing is mounted, claimed or written at first.
LEMMA InitEstablishes == Init => IInv
<1> SUFFICES ASSUME Init PROVE IInv
  OBVIOUS
<1> USE DEF Init
<1>1. TypeOK
  <2>1. mounted \in [Points -> Nat] /\ mounted[0] = 0
    BY PointsFacts
  <2>2. live \in Seq(0..MaxSessions) /\ Len(live) = 0 /\ sessions \in 0..MaxSessions
    BY ErofsAssumption
  <2>3. /\ pc \in [Procs -> PCs] /\ rw \in [Procs -> BOOLEAN] /\ sess \in [Procs -> 0..MaxSessions]
        /\ up \in [Procs -> SUBSET Points]
    BY ErofsAssumption DEF PCs
  <2> QED
    BY <2>1, <2>2, <2>3 DEF TypeOK
<1>2. NeverStacked /\ Roles
  BY DEF NeverStacked, Roles, Procs
<1>3. Claimed /\ Listed
  BY DEF Claimed, Listed, Mounting, Unmounting, Procs
<1>4. Described /\ UpperOwned
  BY FileFacts DEF Described, UpperOwned, WritesSurvive, Procs
<1> QED
  BY <1>1, <1>2, <1>3, <1>4 DEF IInv

\* A command that has claimed and read nothing leaves everything in order.
LEMMA AsidePreserves ==
  ASSUME IInv, NEW p \in Procs, NEW l \in {"idle", "claim", "load"},
         pc[p] \in {"idle", "claim", "load"}, pc' = [pc EXCEPT ![p] = l],
         p \in Mounters => l # "load", p \in Unmounters => l # "claim",
         l = "claim" => up'[p] = {},
         UNCHANGED <<mounted, file, upper, moved, wrote, live, layers, cut>>,
         sessions' \in 0..MaxSessions, rw' \in [Procs -> BOOLEAN],
         sess' \in [Procs -> 0..MaxSessions], up' \in [Procs -> SUBSET Points],
         \A q \in Procs : q # p => up'[q] = up[q] /\ rw'[q] = rw[q]
  PROVE  IInv'
<1>0. TypeOK /\ NeverStacked /\ Roles /\ Claimed /\ Listed /\ Described /\ UpperOwned
  BY DEF IInv
<1>1. pc \in [Procs -> PCs] /\ pc' \in [Procs -> PCs]
  BY <1>0 DEF TypeOK, PCs
<1>2. TypeOK'
  BY <1>0, <1>1 DEF TypeOK
<1>3. NeverStacked'
  BY <1>0 DEF NeverStacked
<1>4. Roles'
  BY <1>0, <1>1 DEF Roles, Mounting, Unmounting, Procs
<1>5. \A q \in Procs : /\ Mounting(q)' => Mounting(q) /\ q # p
                       /\ Mounting(q) => Mounting(q)'
                       /\ Unmounting(q)' => Unmounting(q) /\ q # p
                       /\ Unmounting(q) => Unmounting(q)'
                       /\ q # p => pc'[q] = pc[q]
  BY <1>1 DEF Mounting, Unmounting
<1>6. Claimed'
  BY <1>0, <1>5 DEF Claimed, Direct, Procs
<1>7. Listed'
  BY <1>0, <1>5 DEF Listed, Procs
<1>8. Described'
  BY <1>0, <1>5 DEF Described, Procs
<1>9. UpperOwned'
  BY <1>0, <1>1 DEF UpperOwned, WritesSurvive, Procs
<1> QED
  BY <1>2, <1>3, <1>4, <1>6, <1>7, <1>8, <1>9 DEF IInv

\* A command that is killed leaves its claim, or its record, behind.
LEMMA KillPreserves ==
  ASSUME IInv, NEW p \in Procs, Kill(p)
  PROVE  IInv'
<1>0. TypeOK /\ NeverStacked /\ Roles /\ Claimed /\ Listed /\ Described /\ UpperOwned
  BY DEF IInv
<1>1. /\ pc' = [pc EXCEPT ![p] = "idle"] /\ cut' = TRUE
      /\ UNCHANGED <<mounted, file, upper, moved, wrote, live, layers, sessions, rw, sess, up>>
  BY DEF Kill, Goto, dirs
<1>2. pc \in [Procs -> PCs] /\ pc' \in [Procs -> PCs]
  BY <1>0, <1>1 DEF TypeOK, PCs
<1>3. TypeOK' /\ NeverStacked'
  BY <1>0, <1>1, <1>2 DEF TypeOK, NeverStacked
<1>4. Roles'
  BY <1>0, <1>1, <1>2 DEF Roles, Mounting, Unmounting, Procs
<1>5. \A q \in Procs : pc'[q] = pc[q] \/ pc'[q] = "idle"
  BY <1>1, <1>2
<1>6. Claimed'
  BY <1>0, <1>1, <1>5 DEF Claimed, Direct, Procs, Mounting
<1>7. Listed'
  BY <1>0, <1>1, <1>5 DEF Listed, Procs, Unmounting
<1>8. Described'
  BY <1>0, <1>1 DEF Described
<1>9. UpperOwned'
  BY <1>0, <1>1, <1>5 DEF UpperOwned, WritesSurvive, Procs
<1> QED
  BY <1>3, <1>4, <1>6, <1>7, <1>8, <1>9 DEF IInv

\* The claim is made when there is no state file, so nothing is mounted and no
\* other command holds anything.
LEMMA ClaimPreserves ==
  ASSUME IInv, NEW p \in Procs, ClaimState(p)
  PROVE  IInv'
<1>0. TypeOK /\ NeverStacked /\ Roles /\ Claimed /\ Listed /\ Described /\ UpperOwned
  BY DEF IInv
<1>1. pc \in [Procs -> PCs] /\ p \in Mounters /\ pc[p] = "claim"
  BY <1>0 DEF TypeOK, ClaimState, Roles, Unmounting, Procs
<1>2. CASE file # Absent
  <2>1. /\ pc' = [pc EXCEPT ![p] = "idle"]
        /\ UNCHANGED <<mounted, file, upper, moved, wrote, live, layers, cut, sessions, rw, sess, up>>
    BY <1>2 DEF ClaimState, Goto, dirs, own
  <2> QED
    BY <1>0, <1>1, <2>1, AsidePreserves, ErofsAssumption DEF TypeOK
<1>3. CASE file = Absent
  <2>1. PICK l \in {"overlay", "upper"} :
          pc' = [pc EXCEPT ![p] = l] /\ (l = "overlay" <=> Direct(p))
    <3>1. CASE Direct(p)
      BY <1>3, <3>1 DEF ClaimState, Goto
    <3>2. CASE ~Direct(p)
      BY <1>3, <3>2 DEF ClaimState, Goto
    <3> QED
      BY <3>1, <3>2
  <2>2. /\ file' = Empty
        /\ UNCHANGED <<mounted, upper, moved, wrote, live, layers, cut, sessions, rw, sess, up>>
    BY <1>3 DEF ClaimState, dirs, own
  <2>3. /\ \A m \in Points : mounted[m] = 0
        /\ \A q \in Mounters : ~Mounting(q)
        /\ \A u \in Unmounters : ~Unmounting(u)
    BY <1>0, <1>3, FileFacts DEF Described, Claimed, Listed
  <2>4. /\ up[p] = {} /\ \A q \in Procs : q # p => pc'[q] = pc[q]
        /\ pc'[p] = l /\ pc' \in [Procs -> PCs]
    BY <1>0, <1>1, <2>1 DEF Roles, PCs
  <2>5. TypeOK' /\ NeverStacked'
    BY <1>0, <2>2, <2>4 DEF TypeOK, NeverStacked
  <2>6. Roles'
    BY <1>0, <1>1, <2>1, <2>2, <2>4, ErofsAssumption DEF Roles, Mounting, Unmounting, Procs
  <2>7. Claimed'
    <3>1. \A q \in Mounters : Mounting(q)' => q = p
      BY <2>3, <2>4 DEF Mounting, Procs
    <3>2. Direct(p)' = Direct(p)
      BY <2>2 DEF Direct
    <3>3. \A m \in Points : mounted'[m] > 0 <=> m \in up'[p]
      BY <2>2, <2>3, <2>4
    <3>4. pc'[p] \in {"overlay", "upper"} /\ up'[p] = {} /\ (pc'[p] = "overlay" <=> Direct(p)')
      BY <2>1, <2>2, <2>4, <3>2
    <3> QED
      BY <2>2, <3>1, <3>3, <3>4 DEF Claimed
  <2>8. Listed'
    BY <1>1, <2>3, <2>4, ErofsAssumption DEF Listed, Unmounting, Procs
  <2>9. Described'
    BY <1>1, <2>1, <2>2, <2>4, FileFacts DEF Described, Mounting
  <2>10. UpperOwned'
    <3>1. rw[p] => l # "overlay"
      BY <2>1 DEF Direct
    <3> QED
      BY <1>0, <2>1, <2>2, <2>4, <3>1 DEF UpperOwned, WritesSurvive, Procs
  <2> QED
    BY <2>5, <2>6, <2>7, <2>8, <2>9, <2>10 DEF IInv
<1> QED
  BY <1>2, <1>3

\* What holds of a mount command that has the claim, and of everybody else.
LEMMA HolderFacts ==
  ASSUME IInv, NEW p \in Procs, Mounting(p)
  PROVE  /\ p \in Mounters /\ p \notin Unmounters
         /\ file = Empty /\ file.st # "record"
         /\ \A u \in Unmounters : ~Unmounting(u)
         /\ \A q \in Mounters : Mounting(q) => q = p
         /\ \A m \in Points : (mounted[m] > 0 <=> m \in up[p]) /\ mounted[m] \in {0, 1}
         /\ up[p] \in SUBSET Points
<1>1. p \in Mounters /\ p \notin Unmounters
  BY ErofsAssumption DEF IInv, Roles, Mounting, Unmounting, Procs
<1>2. /\ file = Empty /\ \A q \in Mounters : Mounting(q) => q = p
      /\ \A m \in Points : mounted[m] > 0 <=> m \in up[p]
  BY <1>1 DEF IInv, Claimed
<1>3. \A m \in Points : mounted[m] \in {0, 1}
  BY DEF IInv, TypeOK, NeverStacked
<1>4. file.st # "record" /\ \A u \in Unmounters : ~Unmounting(u)
  BY <1>2, FileFacts DEF IInv, Listed
<1>5. up[p] \in SUBSET Points
  BY DEF IInv, TypeOK
<1> QED
  BY <1>1, <1>2, <1>3, <1>4, <1>5

\* The command with the claim goes on with it, changing no more than the mount
\* table, its cleanups and who is mounted at merged.
LEMMA HolderPreserves ==
  ASSUME IInv, NEW p \in Procs, Mounting(p),
         NEW l \in {"upper", "layers", "overlay", "write", "cleanup"},
         pc' = [pc EXCEPT ![p] = l],
         UNCHANGED <<file, upper, moved, wrote, layers, sessions, rw, sess>>,
         cut' \in BOOLEAN,
         mounted' \in [Points -> Nat], NEW U \in SUBSET Points, up' = [up EXCEPT ![p] = U],
         \A m \in Points : (mounted'[m] > 0 <=> m \in U) /\ mounted'[m] <= 1,
         live' \in Seq(0..MaxSessions), Len(live') = mounted'[0],
         l = "upper" => U = {} /\ ~Direct(p),
         l = "layers" => ~Direct(p) /\ \E k \in 0..(layers - 1) : U = 1..k,
         l = "overlay" => U = IF Direct(p) THEN {} ELSE 1..layers,
         l = "write" => 0 \in U,
         rw[p] /\ l \in {"layers", "overlay"} => upper = {},
         live' # <<>> /\ Head(live') # 0 => upper \subseteq {Head(live')}
  PROVE  IInv'
<1>0. TypeOK /\ NeverStacked /\ Roles /\ Claimed /\ Listed /\ Described /\ UpperOwned
  BY DEF IInv
<1>h. /\ p \in Mounters /\ p \notin Unmounters /\ file = Empty
      /\ \A u \in Unmounters : ~Unmounting(u)
      /\ \A q \in Mounters : Mounting(q) => q = p
  BY HolderFacts
<1>1. /\ pc' \in [Procs -> PCs] /\ pc'[p] = l /\ \A q \in Procs : q # p => pc'[q] = pc[q]
      /\ up' \in [Procs -> SUBSET Points] /\ up'[p] = U /\ \A q \in Procs : q # p => up'[q] = up[q]
  BY <1>0 DEF TypeOK, PCs
<1>2. TypeOK'
  BY <1>0, <1>1 DEF TypeOK
<1>3. NeverStacked'
  BY DEF NeverStacked
<1>4. Roles'
  BY <1>0, <1>1, <1>h DEF Roles, Mounting, Unmounting, Procs
<1>5. /\ \A q \in Mounters : Mounting(q)' => q = p
      /\ Mounting(p)'
      /\ \A u \in Unmounters : ~Unmounting(u)'
  BY <1>1, <1>h DEF Mounting, Unmounting, Procs
<1>6. Claimed'
  <2>1. Direct(p)' = Direct(p)
    BY DEF Direct
  <2> QED
    BY <1>1, <1>5, <1>h, <2>1 DEF Claimed
<1>7. Listed'
  BY <1>5 DEF Listed
<1>8. Described'
  BY <1>5, <1>h, FileFacts DEF Described
<1>9. UpperOwned'
  <2>1. \A q \in Mounters : rw'[q] /\ pc'[q] \in {"layers", "overlay"} => upper' = {}
    BY <1>1, <1>5 DEF Mounting
  <2> QED
    BY <1>0, <2>1 DEF UpperOwned, WritesSurvive
<1> QED
  BY <1>2, <1>3, <1>4, <1>6, <1>7, <1>8, <1>9 DEF IInv

\* Checking the upper directory, mounting the layers and the overlay, and
\* failing at any of it: the cleanups hold what has been mounted so far.
LEMMA MountPreserves ==
  ASSUME IInv, NEW p \in Procs,
         CheckUpperUnused(p) \/ MountLayer(p) \/ AssembleOverlay(p) \/ MountStepFails(p)
  PROVE  IInv'
<1>0. TypeOK /\ NeverStacked /\ Roles /\ Claimed /\ Listed /\ Described /\ UpperOwned
  BY DEF IInv
<1>1. Mounting(p)
  BY DEF CheckUpperUnused, MountLayer, AssembleOverlay, MountStepFails, Mounting
<1>h. /\ p \in Mounters /\ up[p] \in SUBSET Points
      /\ \A m \in Points : (mounted[m] > 0 <=> m \in up[p]) /\ mounted[m] \in {0, 1}
  BY <1>1, HolderFacts
<1>t. /\ mounted \in [Points -> Nat] /\ live \in Seq(0..MaxSessions) /\ Len(live) = mounted[0]
      /\ up \in [Procs -> SUBSET Points] /\ cut \in BOOLEAN /\ layers \in Nat /\ layers > 0
      /\ 0..layers \subseteq Points
  BY <1>0, PointsFacts DEF TypeOK
<1>u. live # <<>> /\ Head(live) # 0 => upper \subseteq {Head(live)}
  BY <1>0 DEF UpperOwned
<1>s. up = [up EXCEPT ![p] = up[p]]
  BY <1>t
<1>2. CASE CheckUpperUnused(p)
  <2>1. PICK l \in {"cleanup", "layers"} :
          pc' = [pc EXCEPT ![p] = l] /\ (l = "layers" /\ rw[p] => upper = {})
    BY <1>2 DEF CheckUpperUnused, Goto
  <2>2. UNCHANGED <<file, mounted, live, upper, moved, wrote, layers, sessions, rw, sess, cut, up>>
    BY <1>2 DEF CheckUpperUnused, dirs, own
  <2>3. up[p] = {} /\ ~Direct(p)
    BY <1>0, <1>1, <1>2, <1>h DEF CheckUpperUnused, Claimed
  <2>4. \E k \in 0..(layers - 1) : up[p] = 1..k
    <3>1. 0 \in 0..(layers - 1) /\ 1..0 = {}
      BY <1>t
    <3> QED
      BY <2>3, <3>1
  <2>5. /\ up' = [up EXCEPT ![p] = up[p]] /\ cut' \in BOOLEAN /\ mounted' \in [Points -> Nat]
        /\ \A m \in Points : (mounted'[m] > 0 <=> m \in up[p]) /\ mounted'[m] <= 1
        /\ live' \in Seq(0..MaxSessions) /\ Len(live') = mounted'[0]
        /\ live' # <<>> /\ Head(live') # 0 => upper \subseteq {Head(live')}
    BY <1>h, <1>t, <1>u, <1>s, <2>2
  <2> QED
    BY <1>1, <1>h, <2>1, <2>2, <2>3, <2>4, <2>5, HolderPreserves
<1>3. CASE MountStepFails(p)
  <2>1. pc' = [pc EXCEPT ![p] = "cleanup"]
    BY <1>3 DEF MountStepFails, Goto
  <2>2. UNCHANGED <<file, mounted, live, upper, moved, wrote, layers, sessions, rw, sess, cut, up>>
    BY <1>3 DEF MountStepFails, dirs, own
  <2>5. /\ up' = [up EXCEPT ![p] = up[p]] /\ cut' \in BOOLEAN /\ mounted' \in [Points -> Nat]
        /\ \A m \in Points : (mounted'[m] > 0 <=> m \in up[p]) /\ mounted'[m] <= 1
        /\ live' \in Seq(0..MaxSessions) /\ Len(live') = mounted'[0]
        /\ live' # <<>> /\ Head(live') # 0 => upper \subseteq {Head(live')}
    BY <1>h, <1>t, <1>u, <1>s, <2>2
  <2> QED
    BY <1>1, <1>h, <2>1, <2>2, <2>5, HolderPreserves
<1>4. CASE MountLayer(p)
  <2>1. PICK k \in 0..(layers - 1) : up[p] = 1..k
    BY <1>0, <1>1, <1>4, <1>h DEF MountLayer, Claimed
  <2>2. ~Direct(p) /\ (rw[p] => upper = {})
    BY <1>0, <1>1, <1>4, <1>h DEF MountLayer, Claimed, UpperOwned
  <2>3. Cardinality(up[p]) = k /\ k + 1 \in Points /\ k \in Nat
    BY <1>t, <2>1, FS_Interval
  <2>4. /\ mounted' = [mounted EXCEPT ![k + 1] = @ + 1]
        /\ up' = [up EXCEPT ![p] = up[p] \cup {k + 1}]
        /\ UNCHANGED <<file, live, upper, moved, wrote, layers, sessions, rw, sess, cut>>
    BY <1>4, <2>3 DEF MountLayer, MountAt, dirs, own
  <2>5. PICK l \in {"overlay", "layers"} :
          pc' = [pc EXCEPT ![p] = l] /\ (l = "overlay" <=> k + 1 = layers)
    BY <1>4, <2>3 DEF MountLayer, Goto
  <2>6. up[p] \cup {k + 1} = 1..(k + 1)
    BY <2>1, <2>3
  <2>7. k + 1 \notin up[p] /\ mounted[k + 1] = 0 /\ mounted'[0] = mounted[0]
    BY <1>h, <1>t, <2>1, <2>3, <2>4
  <2>8. /\ mounted' \in [Points -> Nat]
        /\ \A m \in Points : (mounted'[m] > 0 <=> m \in 1..(k + 1)) /\ mounted'[m] <= 1
    BY <1>h, <1>t, <2>3, <2>4, <2>6, <2>7
  <2>9. 1..(k + 1) \in SUBSET Points
    BY <1>h, <2>3, <2>6
  <2>10. /\ l = "layers" => \E j \in 0..(layers - 1) : 1..(k + 1) = 1..j
         /\ l = "overlay" => 1..(k + 1) = 1..layers
    BY <1>t, <2>1, <2>3, <2>5
  <2> QED
    BY <1>1, <1>t, <1>u, <2>2, <2>4, <2>5, <2>6, <2>7, <2>8, <2>9, <2>10, HolderPreserves
<1>5. CASE AssembleOverlay(p)
  <2>1. up[p] = IF Direct(p) THEN {} ELSE 1..layers
    BY <1>0, <1>1, <1>5, <1>h DEF AssembleOverlay, Claimed
  <2>2. rw[p] => upper = {}
    BY <1>0, <1>5, <1>h DEF AssembleOverlay, UpperOwned
  <2>3. 0 \notin up[p] /\ 0 \in Points
    BY <1>t, <2>1, PointsFacts
  <2>4. mounted[0] = 0
    BY <1>h, <2>3
  <2> DEFINE x == IF rw[p] THEN sess[p] ELSE 0
  <2>5. x \in 0..MaxSessions /\ (x # 0 => rw[p])
    BY <1>0, ErofsAssumption DEF TypeOK
  <2>6. /\ mounted' = [mounted EXCEPT ![0] = @ + 1]
        /\ up' = [up EXCEPT ![p] = up[p] \cup {0}]
        /\ live' = <<x>> \o live
        /\ pc' = [pc EXCEPT ![p] = "write"]
        /\ UNCHANGED <<file, upper, moved, wrote, layers, sessions, rw, sess, cut>>
    BY <1>5 DEF AssembleOverlay, MountAt, Goto, dirs, own
  <2> HIDE DEF x
  <2>7. live' \in Seq(0..MaxSessions) /\ Len(live') = 1 /\ Head(live') = x
    BY <1>t, <2>4, <2>5, <2>6
  <2>8. /\ mounted' \in [Points -> Nat] /\ mounted'[0] = 1
        /\ \A m \in Points : (mounted'[m] > 0 <=> m \in up[p] \cup {0}) /\ mounted'[m] <= 1
    BY <1>h, <1>t, <2>3, <2>4, <2>6
  <2>9. up[p] \cup {0} \in SUBSET Points
    BY <1>h, <2>3
  <2> QED
    BY <1>1, <2>2, <2>5, <2>6, <2>7, <2>8, <2>9, <1>t, HolderPreserves
<1> QED
  BY <1>2, <1>3, <1>4, <1>5

\* Taking down the first entry of a list of mounts that no other mount uses:
\* the entry goes from the mount table, and a session that was mounted at merged
\* is over.
LEMMA UnmountedFacts ==
  ASSUME IInv, NEW S \in SUBSET Points, S # {}, CanUnmount(HeadOf(S)), Unmounted(HeadOf(S)),
         \A m \in Points : mounted[m] > 0 => m \in S
  PROVE  /\ mounted' \in [Points -> Nat]
         /\ HeadOf(S) \in S
         /\ \A m \in Points : mounted'[m] = IF m = HeadOf(S) THEN 0 ELSE mounted[m]
         /\ \A m \in Points : mounted'[m] <= 1
         /\ live' \in Seq(0..MaxSessions) /\ Len(live') = mounted'[0]
         /\ live' # <<>> /\ Head(live') # 0 => upper \subseteq {Head(live')}
<1> DEFINE h == HeadOf(S)
<1>1. /\ mounted \in [Points -> Nat] /\ live \in Seq(0..MaxSessions) /\ Len(live) = mounted[0]
      /\ \A m \in Points : mounted[m] <= 1
      /\ live # <<>> /\ Head(live) # 0 => upper \subseteq {Head(live)}
  BY DEF IInv, TypeOK, NeverStacked, UpperOwned
<1>2. h \in S /\ h \in Points /\ 0 \in Points
  BY HeadOfFacts, PointsFacts
<1>3. /\ mounted[h] > 0 /\ mounted' = [mounted EXCEPT ![h] = @ - 1]
      /\ live' = IF h = 0 THEN Tail(live) ELSE live
  BY DEF CanUnmount, Unmounted
<1> HIDE DEF h
<1>4. mounted[h] = 1
  BY <1>1, <1>2, <1>3
<1>5. /\ mounted' \in [Points -> Nat] /\ \A m \in Points : mounted'[m] <= 1
      /\ \A m \in Points : mounted'[m] = IF m = h THEN 0 ELSE mounted[m]
  BY <1>1, <1>2, <1>3, <1>4
<1>6. CASE h = 0
  <2>1. Len(live) = 1 /\ live' = Tail(live) /\ live # <<>>
    BY <1>1, <1>3, <1>4, <1>6
  <2>2. live' \in Seq(0..MaxSessions) /\ Len(live') = 0 /\ live' = <<>>
    BY <1>1, <2>1
  <2> QED
    BY <1>2, <1>5, <1>6, <2>2 DEF h
<1>7. CASE h # 0
  <2>1. live' = live /\ mounted'[0] = mounted[0]
    BY <1>2, <1>3, <1>5, <1>7
  <2> QED
    BY <1>1, <1>2, <1>5, <2>1 DEF h
<1> QED
  BY <1>6, <1>7

\* The cleanups of a failed mount: each takes down the last mount that is left,
\* which the kernel has no reason to refuse, and the last gives the claim up.
LEMMA CleanupPreserves ==
  ASSUME Alone, IInv, NEW p \in Procs,
         (\E ok \in BOOLEAN : Cleanup(p, ok)) \/ CleanupDone(p)
  PROVE  IInv'
<1>0. TypeOK /\ NeverStacked /\ Roles /\ Claimed /\ Listed /\ Described /\ UpperOwned
  BY DEF IInv
<1>1. Mounting(p) /\ pc[p] = "cleanup"
  BY DEF Cleanup, CleanupDone, Mounting
<1>h. /\ p \in Mounters /\ p \notin Unmounters /\ up[p] \in SUBSET Points
      /\ \A u \in Unmounters : ~Unmounting(u)
      /\ \A q \in Mounters : Mounting(q) => q = p
      /\ \A m \in Points : (mounted[m] > 0 <=> m \in up[p]) /\ mounted[m] \in {0, 1}
  BY <1>1, HolderFacts
<1>t. pc \in [Procs -> PCs] /\ up \in [Procs -> SUBSET Points] /\ cut \in BOOLEAN
  BY <1>0 DEF TypeOK
<1>2. ASSUME NEW ok \in BOOLEAN, Cleanup(p, ok) PROVE IInv'
  <2> DEFINE h == HeadOf(up[p])
             U == up[p] \ {h}
  <2>1. up[p] # {} /\ (~ok => CleanupBusy \/ ~CanUnmount(h)) /\ (ok => CanUnmount(h))
    BY <1>2 DEF Cleanup
  <2>2. h \in up[p] /\ h \in Points /\ (0 \in up[p] => h = 0)
    BY <1>h, <2>1, HeadOfFacts
  <2>3. CanUnmount(h)
    <3> HIDE DEF h
    <3>1. mounted[h] > 0
      BY <1>h, <2>2
    <3>2. h = 0 \/ mounted[0] = 0
      <4>1. 0 \in Points
        BY PointsFacts
      <4> QED
        BY <1>h, <2>2, <4>1
    <3> QED
      BY <3>1, <3>2 DEF CanUnmount
  <2>4. ok
    BY <2>1, <2>3 DEF Alone
  <2>5. Unmounted(h) /\ up' = [up EXCEPT ![p] = U]
        /\ UNCHANGED <<file, upper, moved, wrote, layers, sessions, rw, sess, pc, cut>>
    BY <1>2, <1>t, <2>4 DEF Cleanup, dirs
  <2>6. /\ mounted' \in [Points -> Nat]
        /\ \A m \in Points : mounted'[m] = IF m = h THEN 0 ELSE mounted[m]
        /\ \A m \in Points : mounted'[m] <= 1
        /\ live' \in Seq(0..MaxSessions) /\ Len(live') = mounted'[0]
        /\ live' # <<>> /\ Head(live') # 0 => upper \subseteq {Head(live')}
    BY <1>h, <2>1, <2>3, <2>5, UnmountedFacts
  <2>7. pc' = [pc EXCEPT ![p] = "cleanup"]
    BY <1>1, <1>t, <2>5
  <2> HIDE DEF h
  <2>8. U \in SUBSET Points /\ \A m \in Points : mounted'[m] > 0 <=> m \in U
    BY <1>h, <2>2, <2>6
  <2>9. cut' \in BOOLEAN
    BY <1>t, <2>5
  <2> HIDE DEF U
  <2> QED
    BY <1>1, <2>5, <2>6, <2>7, <2>8, <2>9, HolderPreserves
<1>3. ASSUME CleanupDone(p) PROVE IInv'
  <2>1. /\ up[p] = {} /\ file' = Absent /\ pc' = [pc EXCEPT ![p] = "idle"]
        /\ UNCHANGED <<mounted, upper, moved, wrote, live, layers, sessions, rw, sess, cut, up>>
    BY <1>3 DEF CleanupDone, Goto, dirs, own
  <2>2. /\ pc' \in [Procs -> PCs] /\ pc'[p] = "idle"
        /\ \A q \in Procs : q # p => pc'[q] = pc[q]
    BY <1>t, <2>1 DEF PCs
  <2>3. /\ \A q \in Mounters : ~Mounting(q)'
        /\ \A u \in Unmounters : ~Unmounting(u)'
    BY <1>h, <2>2 DEF Mounting, Unmounting, Procs
  <2>4. TypeOK' /\ NeverStacked'
    BY <1>0, <2>1, <2>2 DEF TypeOK, NeverStacked
  <2>5. Roles'
    BY <1>0, <1>h, <2>1, <2>2 DEF Roles, Mounting, Unmounting, Procs
  <2>6. Claimed' /\ Listed'
    BY <2>3 DEF Claimed, Listed
  <2>7. Described'
    BY <1>h, <2>1, FileFacts DEF Described
  <2>8. UpperOwned'
    BY <1>0, <2>1, <2>2 DEF UpperOwned, WritesSurvive, Procs
  <2> QED
    BY <2>4, <2>5, <2>6, <2>7, <2>8 DEF IInv
<1> QED
  BY <1>2, <1>3

\* The record replaces the claim, and lists exactly what is mounted.
LEMMA WritePreserves ==
  ASSUME IInv, NEW p \in Procs, WriteState(p)
  PROVE  IInv'
<1>0. TypeOK /\ NeverStacked /\ Roles /\ Claimed /\ Listed /\ Described /\ UpperOwned
  BY DEF IInv
<1>1. Mounting(p) /\ pc[p] = "write"
  BY DEF WriteState, Mounting
<1>h. /\ p \in Mounters /\ p \notin Unmounters /\ up[p] \in SUBSET Points
      /\ \A u \in Unmounters : ~Unmounting(u)
      /\ \A q \in Mounters : Mounting(q) => q = p
      /\ \A m \in Points : (mounted[m] > 0 <=> m \in up[p]) /\ mounted[m] \in {0, 1}
  BY <1>1, HolderFacts
<1>2. /\ file' = Record(up[p]) /\ pc' = [pc EXCEPT ![p] = "idle"]
      /\ UNCHANGED <<mounted, upper, moved, wrote, live, layers, sessions, rw, sess, cut, up>>
  BY DEF WriteState, Goto, dirs, own
<1>3. /\ pc' \in [Procs -> PCs] /\ pc'[p] = "idle"
      /\ \A q \in Procs : q # p => pc'[q] = pc[q]
  BY <1>0, <1>2 DEF TypeOK, PCs
<1>4. /\ \A q \in Mounters : ~Mounting(q)'
      /\ \A u \in Unmounters : ~Unmounting(u)'
  BY <1>h, <1>3 DEF Mounting, Unmounting, Procs
<1>5. up[p] # {}
  BY <1>0, <1>1, <1>h DEF Claimed
<1>6. file' \in {Record(S) : S \in (SUBSET Points) \ {{}}}
  BY <1>h, <1>2, <1>5
<1>7. TypeOK' /\ NeverStacked'
  BY <1>0, <1>2, <1>3, <1>6 DEF TypeOK, NeverStacked
<1>8. Roles'
  BY <1>0, <1>h, <1>2, <1>3 DEF Roles, Mounting, Unmounting, Procs
<1>9. Claimed' /\ Listed'
  BY <1>4 DEF Claimed, Listed
<1>10. Described'
  BY <1>h, <1>2, FileFacts DEF Described
<1>11. UpperOwned'
  BY <1>0, <1>2, <1>3 DEF UpperOwned, WritesSurvive, Procs
<1> QED
  BY <1>7, <1>8, <1>9, <1>10, <1>11 DEF IInv

\* While there is a record nobody is mounting, and only one command unmounts.
LEMMA ReaderFacts ==
  ASSUME Alone, IInv, NEW p \in Procs, Unmounting(p) \/ pc[p] = "load"
  PROVE  /\ p \in Unmounters /\ p \notin Mounters /\ up[p] \in SUBSET Points
         /\ \A u \in Unmounters : u = p
         /\ file.st = "record" => \A q \in Mounters : ~Mounting(q)
         /\ Unmounting(p) => /\ file.st = "record"
                             /\ \A m \in Points : mounted[m] > 0 => m \in up[p]
                             /\ ~cut => \A m \in up[p] : mounted[m] > 0
                             /\ up[p] = {} <=> pc[p] \in {"rmdirs", "rmstate"}
<1>1. p \in Unmounters /\ p \notin Mounters
  BY ErofsAssumption DEF IInv, Roles, Mounting, Unmounting, Procs
<1>2. \A u \in Unmounters : u = p
  BY <1>1 DEF Alone
<1>3. file.st = "record" => \A q \in Mounters : ~Mounting(q)
  BY FileFacts DEF IInv, Claimed
<1>4. up[p] \in SUBSET Points
  BY DEF IInv, TypeOK
<1> QED
  BY <1>1, <1>2, <1>3, <1>4 DEF IInv, Listed

\* The umount command goes on with its list, changing no more than the mount
\* table, which only shrinks, and its list.
LEMMA ReaderPreserves ==
  ASSUME Alone, IInv, NEW p \in Procs, Unmounting(p) \/ pc[p] = "load",
         file.st = "record",
         NEW l \in {"umount", "rewrite", "rmdirs", "rmstate"}, pc' = [pc EXCEPT ![p] = l],
         UNCHANGED <<file, upper, moved, wrote, layers, sessions, rw, sess, cut>>,
         mounted' \in [Points -> Nat], NEW U \in SUBSET Points, up' = [up EXCEPT ![p] = U],
         \A m \in Points : /\ mounted'[m] > 0 => m \in U /\ mounted[m] > 0
                           /\ mounted'[m] <= 1,
         ~cut => \A m \in U : mounted'[m] > 0,
         U = {} <=> l \in {"rmdirs", "rmstate"},
         live' \in Seq(0..MaxSessions), Len(live') = mounted'[0],
         live' # <<>> /\ Head(live') # 0 => upper \subseteq {Head(live')}
  PROVE  IInv'
<1>0. TypeOK /\ NeverStacked /\ Roles /\ Claimed /\ Listed /\ Described /\ UpperOwned
  BY DEF IInv
<1>r. /\ p \in Unmounters /\ p \notin Mounters /\ \A u \in Unmounters : u = p
      /\ \A q \in Mounters : ~Mounting(q)
  BY ReaderFacts
<1>1. /\ pc' \in [Procs -> PCs] /\ pc'[p] = l /\ \A q \in Procs : q # p => pc'[q] = pc[q]
      /\ up' \in [Procs -> SUBSET Points] /\ up'[p] = U /\ \A q \in Procs : q # p => up'[q] = up[q]
  BY <1>0 DEF TypeOK, PCs
<1>2. TypeOK' /\ NeverStacked'
  BY <1>0, <1>1 DEF TypeOK, NeverStacked
<1>3. Roles'
  BY <1>0, <1>1, <1>r DEF Roles, Mounting, Unmounting, Procs
<1>4. (\A q \in Mounters : ~Mounting(q)') /\ Unmounting(p)'
  BY <1>1, <1>r DEF Mounting, Unmounting, Procs
<1>5. Claimed'
  BY <1>4 DEF Claimed
<1>6. Listed'
  BY <1>1, <1>r DEF Listed
<1>7. Described'
  BY <1>0, <1>4, <1>r, FileFacts DEF Described
<1>8. UpperOwned'
  BY <1>0, <1>1, <1>r DEF UpperOwned, WritesSurvive, Procs
<1> QED
  BY <1>2, <1>3, <1>5, <1>6, <1>7, <1>8 DEF IInv

\* The umount command ends: with a new record of what is left, with the old one
\* where that could not be written, or without one when nothing is left.
LEMMA ReaderEnds ==
  ASSUME Alone, IInv, NEW p \in Procs, Unmounting(p), pc' = [pc EXCEPT ![p] = "idle"],
         UNCHANGED <<mounted, upper, moved, wrote, live, layers, sessions, rw, sess, up>>,
         cut' \in BOOLEAN, cut => cut',
         \/ file' = Absent /\ up[p] = {}
         \/ file' = Record(up[p]) /\ up[p] # {}
         \/ file' = file /\ cut'
  PROVE  IInv'
<1>0. TypeOK /\ NeverStacked /\ Roles /\ Claimed /\ Listed /\ Described /\ UpperOwned
  BY DEF IInv
<1>r. /\ p \in Unmounters /\ p \notin Mounters /\ \A u \in Unmounters : u = p
      /\ \A q \in Mounters : ~Mounting(q)
      /\ file.st = "record" /\ up[p] \in SUBSET Points
      /\ \A m \in Points : mounted[m] > 0 => m \in up[p]
      /\ ~cut => \A m \in up[p] : mounted[m] > 0
  BY ReaderFacts
<1>1. /\ pc' \in [Procs -> PCs] /\ pc'[p] = "idle" /\ \A q \in Procs : q # p => pc'[q] = pc[q]
  BY <1>0 DEF TypeOK, PCs
<1>2. file' \in {Absent, Empty} \cup {Record(S) : S \in (SUBSET Points) \ {{}}}
  BY <1>0, <1>r DEF TypeOK
<1>3. TypeOK' /\ NeverStacked'
  BY <1>0, <1>1, <1>2 DEF TypeOK, NeverStacked
<1>4. Roles'
  BY <1>0, <1>1, <1>r DEF Roles, Mounting, Unmounting, Procs
<1>5. (\A q \in Mounters : ~Mounting(q)') /\ \A u \in Unmounters : ~Unmounting(u)'
  BY <1>1, <1>r DEF Mounting, Unmounting, Procs
<1>6. Claimed' /\ Listed'
  BY <1>5 DEF Claimed, Listed
<1>7. Described'
  <2>1. mounted \in [Points -> Nat]
    BY <1>0 DEF TypeOK
  <2>2. CASE file' = Absent /\ up[p] = {}
    BY <1>r, <2>1, <2>2, FileFacts DEF Described
  <2>3. CASE file' = Record(up[p]) /\ up[p] # {}
    BY <1>r, <2>3, FileFacts DEF Described
  <2>4. CASE file' = file /\ cut'
    BY <1>0, <1>r, <2>4, FileFacts DEF Described
  <2> QED
    BY <2>2, <2>3, <2>4
<1>8. UpperOwned'
  BY <1>0, <1>1, <1>r DEF UpperOwned, WritesSurvive, Procs
<1> QED
  BY <1>3, <1>4, <1>6, <1>7, <1>8 DEF IInv

\* Every step of umount: reading the record, taking the mounts down one by one,
\* writing what is left back, and removing the directories and the record.
LEMMA UnmountPreserves ==
  ASSUME Alone, IInv, NEW p \in Procs, UnmountStep(p)
  PROVE  IInv'
<1>0. TypeOK /\ NeverStacked /\ Roles /\ Claimed /\ Listed /\ Described /\ UpperOwned
  BY DEF IInv
<1>1. Unmounting(p) \/ pc[p] = "load"
  BY DEF UnmountStep, LoadState, Umount, UmountFails, Rewrite, RemoveDirs, RemoveState, Unmounting
<1>r. /\ p \in Unmounters /\ p \notin Mounters /\ up[p] \in SUBSET Points
      /\ \A u \in Unmounters : u = p
      /\ Unmounting(p) => /\ file.st = "record"
                          /\ \A m \in Points : mounted[m] > 0 => m \in up[p]
                          /\ ~cut => \A m \in up[p] : mounted[m] > 0
                          /\ up[p] = {} <=> pc[p] \in {"rmdirs", "rmstate"}
  BY <1>1, ReaderFacts
<1>t. /\ mounted \in [Points -> Nat] /\ live \in Seq(0..MaxSessions) /\ Len(live) = mounted[0]
      /\ up \in [Procs -> SUBSET Points] /\ cut \in BOOLEAN /\ pc \in [Procs -> PCs]
      /\ \A m \in Points : mounted[m] <= 1
      /\ live # <<>> /\ Head(live) # 0 => upper \subseteq {Head(live)}
  BY <1>0 DEF TypeOK, NeverStacked, UpperOwned
<1>2. CASE LoadState(p)
  <2>1. pc[p] = "load" /\ ~Unmounting(p)
    BY <1>2 DEF LoadState, Unmounting
  <2>2. CASE file.st = "record"
    <3>1. /\ up' = [up EXCEPT ![p] = file.mounts] /\ pc' = [pc EXCEPT ![p] = "umount"]
          /\ UNCHANGED <<mounted, live, file, upper, moved, wrote, layers, sessions, rw, sess, cut>>
      BY <1>2, <2>2 DEF LoadState, Goto, dirs, own
    <3>2. file.mounts \in SUBSET Points /\ file.mounts # {}
      BY <1>0, <2>2, FileKinds, FileFacts
    <3>3. /\ \A m \in Points : mounted[m] > 0 => m \in file.mounts
          /\ ~cut => \A m \in file.mounts : mounted[m] > 0
      BY <1>0, <1>r, <2>1, <2>2 DEF Described
    <3>4. /\ mounted' \in [Points -> Nat]
          /\ \A m \in Points : /\ mounted'[m] > 0 => m \in file.mounts /\ mounted[m] > 0
                               /\ mounted'[m] <= 1
          /\ ~cut => \A m \in file.mounts : mounted'[m] > 0
          /\ live' \in Seq(0..MaxSessions) /\ Len(live') = mounted'[0]
          /\ live' # <<>> /\ Head(live') # 0 => upper \subseteq {Head(live')}
      BY <1>t, <3>1, <3>3
    <3> QED
      BY <1>1, <2>2, <3>1, <3>2, <3>4, ReaderPreserves
  <2>3. CASE file.st # "record"
    <3>1. /\ pc' = [pc EXCEPT ![p] = "idle"]
          /\ UNCHANGED <<mounted, file, upper, moved, wrote, live, layers, cut, sessions, rw, sess, up>>
      BY <1>2, <2>3 DEF LoadState, Goto, dirs, own
    <3> QED
      BY <1>0, <1>r, <2>1, <3>1, AsidePreserves DEF TypeOK
  <2> QED
    BY <2>2, <2>3
<1>3. CASE Umount(p)
  <2> DEFINE h == HeadOf(up[p])
             U == up[p] \ {h}
  <2>1. /\ Unmounting(p) /\ pc[p] = "umount" /\ up[p] # {} /\ CanUnmount(h) /\ Unmounted(h)
        /\ up' = [up EXCEPT ![p] = U]
        /\ UNCHANGED <<file, upper, moved, wrote, layers, sessions, rw, sess, cut>>
    BY <1>3 DEF Umount, dirs, own, Unmounting
  <2>2. /\ mounted' \in [Points -> Nat] /\ h \in up[p]
        /\ \A m \in Points : mounted'[m] = IF m = h THEN 0 ELSE mounted[m]
        /\ \A m \in Points : mounted'[m] <= 1
        /\ live' \in Seq(0..MaxSessions) /\ Len(live') = mounted'[0]
        /\ live' # <<>> /\ Head(live') # 0 => upper \subseteq {Head(live')}
    BY <1>r, <2>1, UnmountedFacts
  <2>3. PICK l \in {"rmdirs", "umount"} :
          pc' = [pc EXCEPT ![p] = l] /\ (l = "rmdirs" <=> Cardinality(up[p]) = 1)
    BY <1>3 DEF Umount, Goto
  <2>4. Cardinality(up[p]) = 1 <=> U = {}
    <3> HIDE DEF h
    <3> QED
      BY <1>r, <2>2, LastEntry
  <2>5. U = {} <=> l \in {"rmdirs", "rmstate"}
    BY <2>3, <2>4
  <2> HIDE DEF h
  <2>6. /\ U \in SUBSET Points
        /\ \A m \in Points : /\ mounted'[m] > 0 => m \in U /\ mounted[m] > 0
                             /\ mounted'[m] <= 1
        /\ ~cut => \A m \in U : mounted'[m] > 0
    BY <1>r, <2>1, <2>2
  <2> HIDE DEF U
  <2> QED
    BY <1>r, <2>1, <2>2, <2>3, <2>5, <2>6, ReaderPreserves
<1>4. CASE UmountFails(p) \/ RemoveDirs(p)
  <2>1. PICK l \in {"rewrite", "rmstate"} :
          /\ pc' = [pc EXCEPT ![p] = l]
          /\ l = "rewrite" <=> pc[p] = "umount"
          /\ pc[p] \in {"umount", "rmdirs"}
    BY <1>4 DEF UmountFails, RemoveDirs, Goto
  <2>2. Unmounting(p)
    BY <2>1 DEF Unmounting
  <2>3. UNCHANGED <<mounted, live, up, file, moved, wrote, layers, sessions, rw, sess, cut>>
    BY <1>4 DEF UmountFails, RemoveDirs, dirs, own
  <2>4. upper' = upper
    <3>1. CASE UmountFails(p)
      BY <3>1 DEF UmountFails, dirs
    <3>2. CASE RemoveDirs(p)
      <4>1. up[p] = {}
        BY <1>r, <2>2, <3>2 DEF RemoveDirs
      <4>2. mounted[0] = 0
        BY <1>r, <1>t, <2>2, <4>1, PointsFacts
      <4>3. live = <<>>
        BY <1>t, <4>2
      <4> QED
        BY <3>2, <4>3 DEF RemoveDirs
    <3> QED
      BY <1>4, <3>1, <3>2
  <2>5. up[p] = {} <=> l \in {"rmdirs", "rmstate"}
    BY <1>r, <2>1, <2>2
  <2>6. /\ up' = [up EXCEPT ![p] = up[p]] /\ mounted' \in [Points -> Nat]
        /\ \A m \in Points : /\ mounted'[m] > 0 => m \in up[p] /\ mounted[m] > 0
                             /\ mounted'[m] <= 1
        /\ ~cut => \A m \in up[p] : mounted'[m] > 0
        /\ live' \in Seq(0..MaxSessions) /\ Len(live') = mounted'[0]
        /\ live' # <<>> /\ Head(live') # 0 => upper \subseteq {Head(live')}
    BY <1>r, <1>t, <2>2, <2>3
  <2> QED
    BY <1>r, <2>1, <2>2, <2>3, <2>4, <2>5, <2>6, ReaderPreserves
<1>5. ASSUME NEW ok \in BOOLEAN, Rewrite(p, ok) PROVE IInv'
  <2>1. /\ Unmounting(p) /\ pc[p] = "rewrite" /\ pc' = [pc EXCEPT ![p] = "idle"]
        /\ UNCHANGED <<mounted, upper, moved, wrote, live, layers, sessions, rw, sess, up>>
    BY <1>5 DEF Rewrite, Goto, dirs, Unmounting
  <2>2. /\ cut' \in BOOLEAN /\ (cut => cut')
        /\ file' = Record(up[p]) \/ (file' = file /\ cut')
    BY <1>5, <1>t DEF Rewrite
  <2>3. up[p] # {}
    BY <1>r, <2>1
  <2> QED
    BY <2>1, <2>2, <2>3, ReaderEnds
<1>6. CASE RemoveState(p)
  <2>1. /\ Unmounting(p) /\ pc[p] = "rmstate" /\ pc' = [pc EXCEPT ![p] = "idle"] /\ file' = Absent
        /\ UNCHANGED <<mounted, upper, moved, wrote, live, layers, sessions, rw, sess, up, cut>>
    BY <1>6 DEF RemoveState, Goto, dirs, own, Unmounting
  <2>2. up[p] = {} /\ cut' \in BOOLEAN /\ (cut => cut')
    BY <1>r, <1>t, <2>1
  <2> QED
    BY <2>1, <2>2, ReaderEnds
<1> QED
  BY <1>2, <1>3, <1>4, <1>5, <1>6 DEF UnmountStep

\* What the user does to the upper directory: a write goes to the one session
\* that is mounted, and it is moved away only while no command runs.
LEMMA UserPreserves ==
  ASSUME IInv, UserWrites \/ UserMovesUpper
  PROVE  IInv'
<1>0. TypeOK /\ NeverStacked /\ Roles /\ Claimed /\ Listed /\ Described /\ UpperOwned
  BY DEF IInv
<1>1. UNCHANGED <<mounted, file, live, layers, sessions, rw, sess, cut, pc, up>>
  BY DEF UserWrites, UserMovesUpper, own
<1>2. NeverStacked' /\ Roles' /\ Claimed' /\ Listed' /\ Described'
  <2>1. NeverStacked' /\ Roles'
    BY <1>0, <1>1 DEF NeverStacked, Roles, Mounting, Unmounting
  <2>2. Claimed'
    BY <1>0, <1>1 DEF Claimed, Mounting, Direct
  <2>3. Listed' /\ Described'
    BY <1>0, <1>1 DEF Listed, Described, Mounting, Unmounting
  <2> QED
    BY <2>1, <2>2, <2>3
<1>3. CASE UserWrites
  <2> DEFINE h == Head(live)
  <2>1. /\ live # <<>> /\ h # 0 /\ upper' = upper \cup {h} /\ wrote' = wrote \cup {h}
        /\ moved' = moved
    BY <1>3 DEF UserWrites
  <2>2. h \in Sessions /\ live \in Seq(0..MaxSessions) /\ Len(live) = mounted[0]
    BY <1>0, <2>1, ErofsAssumption DEF TypeOK, Sessions
  <2> HIDE DEF h
  <2>3. TypeOK'
    BY <1>0, <1>1, <2>1, <2>2 DEF TypeOK
  <2>4. \A p \in Mounters : pc[p] \notin {"layers", "overlay"}
    <3> SUFFICES ASSUME NEW p \in Mounters, pc[p] \in {"layers", "overlay"} PROVE FALSE
      OBVIOUS
    <3>1. mounted[0] > 0 /\ 0 \in Points
      BY <1>0, <2>1, <2>2, PointsFacts DEF TypeOK
    <3>2. 0 \in up[p]
      BY <1>0, <3>1 DEF Claimed, Mounting
    <3>3. layers \in Nat
      BY <1>0, PointsFacts DEF TypeOK
    <3>4. up[p] = {} \/ \E k \in Nat : up[p] = 1..k
      BY <1>0, <3>3 DEF Claimed, Mounting
    <3> QED
      BY <3>2, <3>4
  <2>5. upper' = {h}
    BY <1>0, <2>1 DEF UpperOwned, h
  <2>6. UpperOwned'
    BY <1>0, <1>1, <2>1, <2>4, <2>5 DEF UpperOwned, WritesSurvive, h
  <2> QED
    BY <1>2, <2>3, <2>6 DEF IInv
<1>4. CASE UserMovesUpper
  <2>1. moved' = moved \cup upper /\ upper' = {} /\ wrote' = wrote
    BY <1>4 DEF UserMovesUpper
  <2>2. TypeOK'
    BY <1>0, <1>1, <2>1 DEF TypeOK
  <2>3. UpperOwned'
    BY <1>0, <1>1, <2>1 DEF UpperOwned, WritesSurvive
  <2> QED
    BY <1>2, <2>2, <2>3 DEF IInv
<1> QED
  BY <1>3, <1>4

\* Every step keeps the invariant.
LEMMA StepPreserves ==
  ASSUME Alone, IInv, [Next]_vars
  PROVE  IInv'
<1>0. TypeOK
  BY DEF IInv
<1>1. CASE UNCHANGED vars
  <2>1. TypeOK' /\ NeverStacked' /\ Roles'
    BY <1>1 DEF vars, IInv, TypeOK, NeverStacked, Roles, Mounting, Unmounting
  <2>2. Claimed' /\ Listed'
    BY <1>1 DEF vars, IInv, Claimed, Listed, Mounting, Unmounting, Direct
  <2>3. Described' /\ UpperOwned'
    BY <1>1 DEF vars, IInv, Described, UpperOwned, WritesSurvive, Mounting, Unmounting
  <2> QED
    BY <2>1, <2>2, <2>3 DEF IInv
<1>2. ASSUME NEW p \in Procs, NEW w \in BOOLEAN, StartMount(p, w) PROVE IInv'
  <2>1. /\ pc[p] = "idle" /\ p \in Mounters /\ pc' = [pc EXCEPT ![p] = "claim"]
        /\ sessions < MaxSessions /\ sessions' = sessions + 1
        /\ sess' = [sess EXCEPT ![p] = sessions + 1] /\ rw' = [rw EXCEPT ![p] = w]
        /\ up' = [up EXCEPT ![p] = {}]
        /\ UNCHANGED <<mounted, file, upper, moved, wrote, live, layers, cut>>
    BY <1>2 DEF StartMount, Goto, dirs
  <2>2. sessions' \in 0..MaxSessions /\ sess' \in [Procs -> 0..MaxSessions]
    BY <1>0, <2>1, ErofsAssumption DEF TypeOK
  <2>3. rw' \in [Procs -> BOOLEAN]
    BY <1>0, <2>1 DEF TypeOK
  <2>4. /\ up' \in [Procs -> SUBSET Points] /\ up'[p] = {}
        /\ \A q \in Procs : q # p => up'[q] = up[q] /\ rw'[q] = rw[q]
    BY <1>0, <2>1 DEF TypeOK
  <2> QED
    BY <2>1, <2>2, <2>3, <2>4, AsidePreserves, ErofsAssumption
<1>3. ASSUME NEW p \in Procs, StartUnmount(p) PROVE IInv'
  <2>1. /\ pc[p] = "idle" /\ p \in Unmounters /\ pc' = [pc EXCEPT ![p] = "load"]
        /\ UNCHANGED <<mounted, file, upper, moved, wrote, live, layers, cut, sessions, rw, sess, up>>
    BY <1>3 DEF StartUnmount, Goto, dirs, own
  <2> QED
    BY <1>0, <2>1, AsidePreserves, ErofsAssumption DEF TypeOK
<1>4. ASSUME NEW p \in Procs, MountStep(p) PROVE IInv'
  BY <1>4, ClaimPreserves, MountPreserves, WritePreserves, CleanupPreserves DEF MountStep
<1>5. ASSUME NEW p \in Procs, UnmountStep(p) PROVE IInv'
  BY <1>5, UnmountPreserves
<1>6. ASSUME NEW p \in Procs, Kill(p) PROVE IInv'
  BY <1>6, KillPreserves
<1> QED
  BY <1>1, <1>2, <1>3, <1>4, <1>5, <1>6, UserPreserves DEF Next

\* The invariant holds throughout every behaviour.
LEMMA Invariance == ASSUME Alone PROVE Spec => []IInv
<1>1. Init => IInv
  BY InitEstablishes
<1>2. IInv /\ [Next]_vars => IInv'
  BY StepPreserves
<1> QED
  BY <1>1, <1>2, PTL DEF Spec

-----------------------------------------------------------------------------
\* Any number of mount commands may race, fail at any step or be killed, next
\* to an umount command: no mountpoint is ever mounted over, and once no command
\* runs, and none was cut short, the state file lists exactly what is mounted
\* (claimState's O_EXCL, the deferred cleanups, and stopped's rewrite).
THEOREM MountTableInOrder == ASSUME Alone PROVE Spec => []MountsInOrder
<1>1. IInv => MountsInOrder
  <2> SUFFICES ASSUME IInv, Quiet, ~cut
               PROVE  file # Empty /\ \A m \in Points : mounted[m] > 0 <=> m \in file.mounts
    BY DEF IInv, MountsInOrder, FileDescribesMounts
  <2>1. (\A q \in Mounters : ~Mounting(q)) /\ \A u \in Unmounters : ~Unmounting(u)
    BY DEF Quiet, Mounting, Unmounting, Procs
  <2>2. file # Empty
    BY <2>1 DEF IInv, Described
  <2>3. CASE file = Absent
    <3>1. file.mounts = {}
      BY <2>3, FileFacts
    <3> QED
      BY <2>2, <2>3, <3>1 DEF IInv, Described
  <2>4. CASE file.st = "record"
    BY <2>1, <2>2, <2>4 DEF IInv, Described
  <2> QED
    BY <2>2, <2>3, <2>4, FileKinds DEF IInv
<1> QED
  BY <1>1, Invariance, PTL

\* Whatever is written through a mount stays in the upper directory until the
\* user moves it away, and never shares that directory with another session's
\* writes: umount's os.RemoveAll of merged runs only when nothing is mounted
\* there, and checkUpperUnused refuses a directory that holds anything.
THEOREM WritesAreKept == ASSUME Alone PROVE Spec => []UpperKept
<1>1. IInv => UpperKept
  <2> SUFFICES ASSUME IInv PROVE Cardinality(upper) <= 1
    BY DEF IInv, UpperOwned, UpperKept, OneSessionPerUpper
  <2>1. \A s, t \in upper : s = t
    BY DEF IInv, UpperOwned
  <2>2. CASE upper = {}
    BY <2>2, FS_EmptySet
  <2>3. CASE upper # {}
    <3>1. PICK s \in upper : TRUE
      BY <2>3
    <3>2. upper = {s}
      BY <2>1, <3>1
    <3>3. Cardinality({s}) = 1
      BY FS_Singleton
    <3> QED
      BY <3>2, <3>3
  <2> QED
    BY <2>2, <2>3
<1> QED
  BY <1>1, Invariance, PTL
=============================================================================
