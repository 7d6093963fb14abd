-------------------------- MODULE MultiArchProofs --------------------------
(***************************************************************************)
(* MultiArch for any architectures, packages, repositories and tags, with  *)
(* caches of any size and repositories updated at any moment: what is      *)
(* resolved for the architectures belongs together, the index is made of   *)
(* what was resolved, and what is published is whole.                      *)
(***************************************************************************)
EXTENDS MultiArch, FiniteSetTheorems, SequenceTheorems, WellFoundedInduction, TLAPS

----------------------------------------------------------------------------
(* The inductive invariant                                                 *)

\* The stages before there are images, and those after the index was made.
Early == {"lock", "start", "resolve"}
Late == {"build-cmd", "load-cmd", "publish-cmd", "tags", "sboms", "done"}

Kinds ==
  /\ TypeOK
  /\ DOMAIN etags \subseteq Archs /\ \A a \in DOMAIN etags : etags[a] \subseteq Packages
  /\ own \in [Archs -> SUBSET Packages]
  /\ DOMAIN seen = Archs /\ \A a \in Archs : DOMAIN seen[a] \subseteq archs
  /\ DOMAIN dq = Archs
  /\ dqCache \in Seq(ToSet(dqCache))
  /\ sboms \in Seq(Archs \cup {"index"})

\* Which goroutines there are, and what has not been touched yet.
Phases ==
  /\ \A g \in Archs \cup Tags : /\ pc[g] = "siblings" => stage = "resolve"
                                /\ pc[g] = "collect" => stage = "build"
  /\ stage \in {"lock", "start"} => input.lockfile
  /\ stage = "lock" => \A a \in archs : pc[a] \in {"idle", "ok"}
  /\ stage = "resolve" => ~input.lockfile
  /\ stage \in {"start", "build"} => \A t \in Tags : pc[t] = "idle"
  /\ stage = "start" => \A a \in archs : pc[a] = "idle"
  /\ stage \in Early => /\ locked = <<>> /\ imgs = <<>> /\ result = <<>>
                        /\ sboms = <<>> /\ bde = input.buildDate
  /\ stage \in Early \cup {"build"} => ~Indexed /\ registry.tags = {} /\ output.sboms = {}
  /\ stage \in {"build-cmd", "load-cmd", "publish-cmd"} => input.command = stage
  /\ stage = "tags" => input.command = "publish-cmd"
  /\ input.lockfile => lists = <<>> /\ \A a \in Archs : DOMAIN seen[a] = {}

\* With an etag cache, what was read of an index is what the cache has.
Views ==
  input.etagCache =>
    \A a \in archs :
      /\ \A c \in DOMAIN seen[a] : c \in DOMAIN etags /\ seen[a][c] = etags[c]
      /\ pc[a] = "siblings" => a \in DOMAIN etags /\ own[a] = etags[a]

\* The process-wide cache gives for a key what was computed from that key.
CacheSound ==
  \A i \in DOMAIN dqCache : dqCache[i].val = disqualifyDifference(dqCache[i].key)

\* What a finished resolution left behind.
Resolutions ==
  /\ stage = "resolve" => DOMAIN lists = {a \in archs : pc[a] = "ok"}
  /\ \A a \in DOMAIN lists :
       /\ DOMAIN seen[a] = archs /\ lists[a] \subseteq Packages
       /\ \A p, q \in lists[a] : p.name = q.name => p = q
  /\ LackingLeftOut

\* The lock file has packages for every architecture, or nothing was asked for.
LockFile ==
  /\ \A l \in lock : l.package \in Packages
  /\ stage = "lock" => {l.arch : l \in lock} = IF DOMAIN originals = {} THEN {}
                                               ELSE {a \in archs : pc[a] = "ok"}
  /\ input.lockfile /\ stage \notin {"lock", "failed"} =>
       {l.arch : l \in lock} = IF DOMAIN originals = {} THEN {} ELSE archs

\* What the locked lists are.
LockedLists ==
  /\ stage \notin Early \cup {"failed"} =>
       configured = IF DOMAIN originals = {} THEN {} ELSE archs
  /\ stage = "build" /\ ~input.lockfile => locked # <<>>
  /\ ~input.lockfile /\ locked # <<>> /\ DOMAIN originals # {} =>
       /\ DOMAIN lists = archs
       /\ \A n \in DOMAIN originals : ~Virtual(n) => InCommon(n)
  /\ UnifiedInAnyOrder

\* The packages an image is to hold.
Expected(a) == IF input.lockfile THEN InstallablePackagesForArch(lock, a) ELSE lists[a]

\* What the goroutines of the build have made so far.
Images ==
  /\ stage = "build" =>
       /\ \A a \in archs : /\ pc[a] = "idle" => a \notin DOMAIN result
                           /\ pc[a] = "collect" => a \in DOMAIN result \cap configured
       /\ DOMAIN imgs = {a \in configured : pc[a] = "ok"}
       /\ ToSet(sboms) = DOMAIN imgs
  /\ \A a \in DOMAIN result : result[a] = Expected(a)
  /\ \A a \in DOMAIN imgs :
       /\ imgs[a].arch = a /\ imgs[a].pkgs = Expected(a)
       /\ imgs[a].digest = Gzip(imgs[a].layer)
       /\ imgs[a].created \in Nat
       /\ input.env.kind = "date" => imgs[a].created = input.env.at
  /\ \A d \in DOMAIN digests : digests[d] = Gzip(d)

\* multiArchBDE is the latest date so far.
Dates ==
  /\ bde = input.buildDate \/ \E a \in DOMAIN imgs : bde = imgs[a].created
  /\ input.buildDate <= bde /\ \A a \in DOMAIN imgs : imgs[a].created <= bde

\* The index is made of the images of all architectures.
IndexOfAll ==
  /\ Indexed => /\ DOMAIN imgs = archs /\ Manifests = {imgs[a] : a \in archs}
                /\ Len(index.manifests) = Cardinality(archs)
                /\ index.created = bde
  /\ ~input.lockfile /\ Indexed => locked # <<>> /\ DOMAIN originals # {}

Pushed(m) == m \in registry.images /\ Gzip(m.layer) \in registry.blobs

\* What the registry has, and what is left to move.
Publication ==
  /\ DOMAIN registry = {"images", "blobs", "tags"} /\ DOMAIN output = {"images", "sboms"}
  /\ stage = "publish-cmd" => /\ registry.tags = {} /\ \A t \in Tags : pc[t] = "idle"
                              /\ \A m \in Manifests : pc[m.arch] = "ok" => Pushed(m)
  /\ stage = "tags" \/ registry.tags # {} => \A m \in Manifests : Pushed(m)
  /\ stage = "tags" => \A t \in Tags : pc[t] = "ok" => t \in registry.tags
  /\ registry.tags \subseteq Tags
  /\ stage \in {"sboms", "done"} /\ input.command = "publish-cmd" => registry.tags = Tags
  /\ stage \in Late => output.sboms \cup ToSet(sboms) = DOMAIN imgs \cup {"index"}
  /\ stage = "done" /\ input.command # "load-cmd" => sboms = <<>>

IInv ==
  /\ Kinds /\ Phases /\ Views /\ CacheSound /\ Resolutions /\ LockFile /\ LockedLists
  /\ Images /\ Dates /\ IndexOfAll /\ Publication

----------------------------------------------------------------------------
(* The operators                                                           *)

\* A set of numbers that has 0 and, with each number below n, the next one,
\* has all numbers up to n.
LEMMA UpTo ==
  ASSUME NEW n \in Nat, NEW S, 0 \in S, \A k \in 0..(n - 1) : k \in S => k + 1 \in S
  PROVE  n \in S
<1> DEFINE Left == {k \in 0..n : k \notin S}
           R == {q \in Nat \X Nat : q[1] < q[2]}
<1>1. IsWellFoundedOn(R, Nat)
  <2>1. OpToRel(<, Nat) = R
    BY DEF OpToRel
  <2> QED
    BY <2>1, NatLessThanWellFounded
<1>2. ASSUME Left # {} PROVE FALSE
  <2>1. Left \subseteq Nat
    OBVIOUS
  <2>2. PICK k \in Left : \A j \in Left : ~(<<j, k>> \in R)
    <3> HIDE DEF R, Left
    <3> QED
      BY <1>1, <1>2, <2>1, WFMin
  <2>3. k \in 0..n /\ k \notin S /\ k # 0
    BY <2>2
  <2>4. k - 1 \in 0..(n - 1) /\ k - 1 \in 0..n /\ (k - 1) + 1 = k
    BY <2>3
  <2>5. k - 1 \in Left
    BY <2>3, <2>4
  <2>6. <<k - 1, k>> \in R
    <3>1. <<k - 1, k>> \in Nat \X Nat /\ <<k - 1, k>>[1] = k - 1 /\ <<k - 1, k>>[2] = k
      BY <2>3, <2>4
    <3> QED
      BY <2>3, <3>1
  <2> QED
    BY <2>2, <2>5, <2>6
<1> QED
  BY <1>2

\* A set of numbers that has an element has a least one.
LEMMA LeastExists ==
  ASSUME NEW S \in SUBSET Nat, S # {}
  PROVE  Min(S) \in S
<1> DEFINE R == {q \in Nat \X Nat : q[1] < q[2]}
<1>1. IsWellFoundedOn(R, Nat)
  <2>1. OpToRel(<, Nat) = R
    BY DEF OpToRel
  <2> QED
    BY <2>1, NatLessThanWellFounded
<1>2. PICK k \in S : \A j \in S : ~(<<j, k>> \in R)
  <2> HIDE DEF R
  <2> QED
    BY <1>1, WFMin
<1>3. \A j \in S : k <= j
  <2> TAKE j \in S
  <2>1. j < k => <<j, k>> \in R
    OBVIOUS
  <2> QED
    BY <1>2, <2>1
<1> QED
  BY <1>3 DEF Min

\* A finite set of numbers that has an element has a greatest one.
LEMMA GreatestExists ==
  ASSUME NEW S \in SUBSET Nat, IsFiniteSet(S), S # {}
  PROVE  Max(S) \in S /\ \A y \in S : Max(S) >= y
<1>1. Cardinality(S) \in Nat /\ ExistsBijection(1..Cardinality(S), S)
  BY FS_CardinalityType
<1>2. PICK f \in Bijection(1..Cardinality(S), S) : TRUE
  BY <1>1 DEF ExistsBijection
<1> DEFINE n == Cardinality(S)
           Top(k) == \E x \in S : \A i \in 1..k : x >= f[i]
           T == {k \in 0..n : Top(k)}
<1>3. f \in [1..n -> S] /\ \A y \in S : \E i \in 1..n : f[i] = y
  BY <1>2 DEF Bijection, Surjection, Injection
<1>4. 0 \in T
  <2>1. 0 \in 0..n /\ 1..0 = {}
    BY <1>1
  <2>2. Top(0)
    BY <2>1
  <2> QED
    BY <2>1, <2>2
<1>5. \A k \in 0..(n - 1) : k \in T => k + 1 \in T
  <2> SUFFICES ASSUME NEW k \in 0..(n - 1), k \in T PROVE k + 1 \in T
    OBVIOUS
  <2>1. k \in Nat /\ k + 1 \in 0..n /\ k + 1 \in 1..n
    BY <1>1
  <2>2. PICK x \in S : \A i \in 1..k : x >= f[i]
    OBVIOUS
  <2>3. f[k + 1] \in S
    BY <1>3, <2>1
  <2>4. \A i \in 1..(k + 1) : i \in 1..k \/ i = k + 1
    BY <2>1
  <2>5. \A i \in 1..k : f[i] \in S
    <3>1. \A i \in 1..k : i \in 1..n
      BY <1>1, <2>1
    <3> QED
      BY <1>3, <3>1
  <2>6. \/ \A i \in 1..(k + 1) : x >= f[i]
        \/ \A i \in 1..(k + 1) : f[k + 1] >= f[i]
    <3>1. x \in Nat /\ f[k + 1] \in Nat /\ \A i \in 1..k : f[i] \in Nat
      BY <2>3, <2>5
    <3> QED
      BY <2>2, <2>4, <3>1
  <2> QED
    BY <2>1, <2>3, <2>6
<1>6. n \in T
  <2> HIDE DEF T
  <2> QED
    BY <1>1, <1>4, <1>5, UpTo
<1>7. \E x \in S : \A y \in S : x >= y
  BY <1>3, <1>6
<1> QED
  BY <1>7 DEF Max

\* A key is added to a map, and the others keep their values.
LEMMA WithFacts ==
  ASSUME NEW f, NEW k, NEW v
  PROVE  /\ DOMAIN With(f, k, v) = DOMAIN f \cup {k}
         /\ \A x \in DOMAIN f : With(f, k, v)[x] = f[x]
         /\ k \notin DOMAIN f => With(f, k, v)[k] = v
         /\ With(f, k, v)[k] = Lookup(f, k, v)
  BY DEF With, Lookup

\* A sequence is one of its own elements.
LEMMA OwnElements ==
  ASSUME NEW T, NEW s \in Seq(T)
  PROVE  s \in Seq(ToSet(s))
<1>1. Len(s) \in Nat /\ DOMAIN s = 1..Len(s) /\ s \in [1..Len(s) -> T]
  BY LenProperties
<1>2. s \in [1..Len(s) -> ToSet(s)]
  BY <1>1 DEF ToSet
<1> QED
  BY <1>1, <1>2

\* lruCache.entry: whichever entry is pushed out or moved, the last one is for
\* the key asked for, and what is cached for a key was computed from it.
LEMMA LruFacts ==
  ASSUME NEW cache, cache \in Seq(ToSet(cache)), Len(cache) <= CacheSize, NEW key,
         \A i \in DOMAIN cache : cache[i].val = disqualifyDifference(cache[i].key)
  PROVE  LET new == LruEntry(cache, key, disqualifyDifference(key))
         IN /\ new \in Seq(ToSet(new)) /\ Len(new) <= CacheSize
            /\ \A i \in DOMAIN new : new[i].val = disqualifyDifference(new[i].key)
            /\ Last(new).val = disqualifyDifference(key)
<1> DEFINE D(k) == disqualifyDifference(k)
           new == LruEntry(cache, key, D(key))
           Sound == {e \in ToSet(cache) \cup {[key |-> key, val |-> D(key)]} : e.val = D(e.key)}
           L == Len(cache)
<1> HIDE DEF D
<1>0. \A i \in DOMAIN cache : cache[i].val = D(cache[i].key)
  BY DEF D
<1>c. CacheSize \in Nat \ {0}
  BY MultiArchAssumption
<1>1. L \in Nat /\ DOMAIN cache = 1..L /\ L <= CacheSize
  BY LenProperties
<1>2. \A i \in 1..L : cache[i] \in Sound
  BY <1>0, <1>1 DEF ToSet
<1>3. cache \in Seq(Sound)
  <2>1. cache \in [1..L -> Sound]
    BY <1>1, <1>2
  <2> QED
    BY <1>1, <2>1
<1>4. [key |-> key, val |-> D(key)] \in Sound
  OBVIOUS
<1> HIDE DEF Sound
<1>5. /\ new \in Seq(Sound) /\ Len(new) <= CacheSize
      /\ new # <<>> /\ Last(new).val = D(key)
  <2>1. CASE HitOf(cache, key) # {}
    <3> DEFINE i == Min(HitOf(cache, key))
               left == RemoveAt(cache, i)
    <3>1. HitOf(cache, key) \subseteq Nat
      BY <1>1 DEF HitOf
    <3>2. i \in HitOf(cache, key)
      BY <2>1, <3>1, LeastExists
    <3>3. i \in 1..L /\ cache[i].key = key
      BY <1>1, <3>2 DEF HitOf, SameIndexes
    <3>4. new = Append(left, cache[i])
      BY <2>1 DEF LruEntry
    <3> HIDE DEF i
    <3>5. /\ SubSeq(cache, 1, i - 1) \in Seq(Sound) /\ Len(SubSeq(cache, 1, i - 1)) = i - 1
          /\ SubSeq(cache, i + 1, L) \in Seq(Sound) /\ Len(SubSeq(cache, i + 1, L)) = L - i
      <4>1. \A j \in 1..(i - 1) : cache[j] \in Sound
        BY <1>1, <1>2, <3>3
      <4>2. \A j \in (i + 1)..L : cache[j] \in Sound
        BY <1>1, <1>2, <3>3
      <4> QED
        BY <1>1, <3>3, <4>1, <4>2, SubSeqProperties
    <3>6. left \in Seq(Sound) /\ Len(left) = L - 1
      BY <1>1, <3>3, <3>5, ConcatProperties DEF RemoveAt
    <3>7. cache[i] \in Sound /\ cache[i].val = D(key)
      BY <1>0, <1>1, <1>2, <3>3
    <3> HIDE DEF left
    <3>8. new \in Seq(Sound) /\ new # <<>> /\ Len(new) = L /\ new[L] = cache[i]
      <4> HIDE DEF new
      <4>1. /\ new \in Seq(Sound) /\ new # <<>> /\ Len(new) = Len(left) + 1
            /\ new[Len(left) + 1] = cache[i]
        BY <3>4, <3>6, <3>7, AppendProperties
      <4>2. Len(left) + 1 = L
        BY <1>1, <3>6
      <4> QED
        BY <4>1, <4>2
    <3> QED
      BY <1>1, <3>7, <3>8 DEF Last
  <2>2. CASE HitOf(cache, key) = {}
    <3> DEFINE e == [key |-> key, val |-> D(key)]
               grown == Append(cache, e)
    <3>1. new = IF Len(grown) > CacheSize THEN Tail(grown) ELSE grown
      BY <2>2 DEF LruEntry
    <3>2. e.val = D(key)
      OBVIOUS
    <3>3. grown \in Seq(Sound) /\ grown # <<>> /\ Len(grown) = L + 1 /\ grown[L + 1] = e
      BY <1>3, <1>4, AppendProperties
    <3> HIDE DEF e, grown
    <3>4. CASE Len(grown) > CacheSize
      <4>1. L = CacheSize
        <5>1. L + 1 > CacheSize
          BY <3>3, <3>4
        <5> HIDE DEF L
        <5> QED
          BY <1>1, <1>c, <5>1
      <4>2. /\ Tail(grown) \in Seq(Sound) /\ Len(Tail(grown)) = L
            /\ \A i \in 1..L : Tail(grown)[i] = grown[i + 1]
        BY <1>1, <3>3, HeadTailProperties
      <4>3. Tail(grown)[L] = e /\ Tail(grown) # <<>>
        BY <1>1, <1>c, <3>3, <4>1, <4>2
      <4> QED
        BY <1>1, <1>c, <3>1, <3>2, <3>4, <4>1, <4>2, <4>3 DEF Last
    <3>5. CASE ~(Len(grown) > CacheSize)
      BY <1>1, <1>c, <3>1, <3>2, <3>3, <3>5 DEF Last
    <3> QED
      BY <3>4, <3>5
  <2> QED
    BY <2>1, <2>2
<1> HIDE DEF new
<1>6. new \in Seq(ToSet(new))
  BY <1>5, OwnElements
<1>7. \A i \in DOMAIN new : new[i].val = D(new[i].key)
  <2>1. DOMAIN new = 1..Len(new) /\ \A i \in 1..Len(new) : new[i] \in Sound
    BY <1>5, LenProperties, ElementOfSeq
  <2> QED
    BY <2>1 DEF Sound
<1> QED
  BY <1>5, <1>6, <1>7 DEF new, D

\* The architectures are finitely many, and so are those of a build.
LEMMA FiniteArchs ==
  ASSUME NEW S \in SUBSET Archs
  PROVE  IsFiniteSet(S) /\ Cardinality(S) \in Nat
<1> DEFINE n == Len(ArchOrder)
<1>1. n \in Nat /\ DOMAIN ArchOrder = 1..n /\ ArchOrder \in [1..n -> STRING]
  BY MultiArchAssumption, LenProperties
<1>2. ArchOrder \in Surjection(1..n, Archs)
  BY <1>1 DEF Surjection, Archs, ToSet
<1>3. IsFiniteSet(1..n)
  BY <1>1, FS_Interval
<1>4. IsFiniteSet(Archs)
  BY <1>2, <1>3, FS_Surjection
<1> QED
  BY <1>4, FS_Subset, FS_CardinalityType

\* Sorted lists every architecture of the set, and nothing else.
LEMMA SortedFacts ==
  ASSUME NEW S \in SUBSET Archs
  PROVE  /\ DOMAIN Sorted(S) = 1..Cardinality(S)
         /\ {Sorted(S)[i] : i \in DOMAIN Sorted(S)} = S
<1> DEFINE n == Cardinality(S)
           Upto(a) == {b \in S : NameOrder(b) <= NameOrder(a)}
           rank == [a \in S |-> Cardinality(Upto(a))]
<1>1. IsFiniteSet(S) /\ n \in Nat
  BY FiniteArchs
<1>2. \A a \in S : NameOrder(a) \in Nat /\ ArchOrder[NameOrder(a)] = a
  <2>1. \A a \in S : \E i \in DOMAIN ArchOrder : ArchOrder[i] = a
    BY DEF Archs, ToSet
  <2>2. DOMAIN ArchOrder \subseteq Nat
    BY MultiArchAssumption, LenProperties
  <2> QED
    BY <2>1, <2>2 DEF NameOrder
<1>3. \A a \in S : IsFiniteSet(Upto(a)) /\ Cardinality(Upto(a)) \in Nat /\ Cardinality(Upto(a)) <= n
  <2> TAKE a \in S
  <2>1. Upto(a) \in SUBSET S
    OBVIOUS
  <2> QED
    BY <1>1, <2>1, FS_Subset, FS_CardinalityType
<1>4. \A a \in S : Cardinality(Upto(a)) \in 1..n
  <2> TAKE a \in S
  <2>1. a \in Upto(a)
    BY <1>2
  <2>2. Cardinality(Upto(a)) # 0
    BY <1>3, <2>1, FS_EmptySet
  <2> QED
    BY <1>1, <1>3, <2>2
<1>5. \A a, b \in S : NameOrder(a) < NameOrder(b) => Cardinality(Upto(a)) # Cardinality(Upto(b))
  <2> SUFFICES ASSUME NEW a \in S, NEW b \in S, NameOrder(a) < NameOrder(b)
               PROVE  Cardinality(Upto(a)) # Cardinality(Upto(b))
    OBVIOUS
  <2>1. Upto(a) \in SUBSET Upto(b)
    BY <1>2
  <2>2. b \in Upto(b) /\ b \notin Upto(a)
    BY <1>2
  <2> QED
    BY <1>3, <2>1, <2>2, FS_Subset
<1>6. \A a, b \in S : Cardinality(Upto(a)) = Cardinality(Upto(b)) => a = b
  <2> SUFFICES ASSUME NEW a \in S, NEW b \in S, Cardinality(Upto(a)) = Cardinality(Upto(b))
               PROVE  a = b
    OBVIOUS
  <2>1. ~(NameOrder(a) < NameOrder(b)) /\ ~(NameOrder(b) < NameOrder(a))
    BY <1>5
  <2>2. NameOrder(a) = NameOrder(b)
    BY <1>2, <2>1
  <2> QED
    BY <1>2, <2>2
<1> HIDE DEF Upto
<1>7. rank \in Injection(S, 1..n)
  BY <1>4, <1>6 DEF Injection, IsInjective
<1>8. IsFiniteSet(1..n) /\ Cardinality(1..n) = n
  BY <1>1, FS_Interval
<1>9. rank \in Surjection(S, 1..n)
  <2> HIDE DEF rank, n
  <2> QED
    BY <1>7, <1>8, FS_Injection DEF n
<1>10. \A i \in 1..n : \E a \in S : Cardinality(Upto(a)) = i
  BY <1>9 DEF Surjection
<1>11. \A i \in 1..n : Sorted(S)[i] = CHOOSE a \in S : Cardinality(Upto(a)) = i
  BY DEF Sorted, Upto
<1>12. \A i \in 1..n : Sorted(S)[i] \in S /\ Cardinality(Upto(Sorted(S)[i])) = i
  BY <1>10, <1>11
<1>13. DOMAIN Sorted(S) = 1..n
  BY DEF Sorted
<1>14. \A a \in S : Sorted(S)[Cardinality(Upto(a))] = a
  BY <1>4, <1>6, <1>12
<1> QED
  BY <1>4, <1>12, <1>13, <1>14

\* An answer of the resolver is of the candidates, has one package of a name,
\* and is empty exactly if nothing was asked for.
LEMMA AnswersFacts ==
  ASSUME NEW avail, NEW wanted, NEW s \in Answers(avail, wanted)
  PROVE  /\ s \subseteq avail
         /\ \A p, q \in s : p.name = q.name => p = q
         /\ s = {} <=> wanted = {}
<1> DEFINE closed == {t \in SUBSET avail : Closed(t, wanted)}
<1>1. s \in closed /\ ~\E t \in closed : t # s /\ t \subseteq s
  BY DEF Answers
<1>2. wanted = {} => {} \in closed
  BY DEF Closed
<1>3. wanted # {} => s # {}
  BY <1>1 DEF Closed, Meets
<1> QED
  BY <1>1, <1>2, <1>3 DEF Closed

\* disqualifyDifference leaves only what every architecture has.
LEMMA NotDisqualified ==
  ASSUME NEW byArch, IsFiniteSet(DOMAIN byArch), NEW a \in DOMAIN byArch, NEW p \in byArch[a],
         p \notin disqualifyDifference(byArch)[a], NEW b \in DOMAIN byArch
  PROVE  \E q \in byArch[b] : q.name = p.name /\ q.version = p.version
<1>1. CASE a = b
  BY <1>1
<1>2. CASE a # b
  <2>1. Cardinality(DOMAIN byArch) # 1
    BY <1>2, FS_Singleton
  <2> QED
    BY <1>2, <2>1 DEF disqualifyDifference
<1> QED
  BY <1>1, <1>2

----------------------------------------------------------------------------
(* Unifying                                                                *)

\* Accumulated is what its loop says.
LEMMA AccumulatedUnfolds ==
  ASSUME NEW inputs, Len(inputs) \in Nat \ {0}
  PROVE  \E acc : /\ acc[1] = inputs[1]
                  /\ \A i \in 2..Len(inputs) : acc[i] = UnifyNext(acc[i - 1], inputs[i])
                  /\ Accumulated(inputs) = acc[Len(inputs)]
<1> DEFINE L == Len(inputs)
           Starts(f) == f[1] = inputs[1]
           Goes(f, k) == \A i \in 2..k : f[i] = UnifyNext(f[i - 1], inputs[i])
           S == {k \in 0..(L - 1) : \E f : Starts(f) /\ Goes(f, k + 1)}
<1>n. L \in Nat /\ L > 0
  OBVIOUS
<1> HIDE DEF L
<1>1. 0 \in S
  <2> DEFINE f == [i \in 1..1 |-> inputs[1]]
  <2>1. Starts(f) /\ Goes(f, 0 + 1)
    OBVIOUS
  <2>2. 0 \in 0..(L - 1)
    BY <1>n
  <2> HIDE DEF f
  <2> QED
    BY <2>1, <2>2
<1>2. ASSUME NEW k \in 0..(L - 1 - 1), k \in S PROVE k + 1 \in S
  <2>1. PICK f : Starts(f) /\ Goes(f, k + 1)
    BY <1>2
  <2> DEFINE g == [i \in 1..(k + 2) |-> IF i = k + 2 THEN UnifyNext(f[k + 1], inputs[k + 2]) ELSE f[i]]
  <2>2. k \in Nat /\ k + 1 \in 0..(L - 1) /\ (k + 1) + 1 = k + 2
    BY <1>n
  <2>3. Starts(g)
    BY <2>1, <2>2
  <2>4. ASSUME NEW i \in 2..(k + 2) PROVE g[i] = UnifyNext(g[i - 1], inputs[i])
    <3>1. i \in 1..(k + 2) /\ i - 1 \in 1..(k + 2) /\ i - 1 # k + 2
      BY <2>2
    <3>2. g[i - 1] = f[i - 1]
      BY <3>1
    <3>3. CASE i = k + 2
      <4>1. i - 1 = k + 1 /\ g[i] = UnifyNext(f[k + 1], inputs[i])
        BY <2>2, <3>1, <3>3
      <4> QED
        BY <3>2, <4>1
    <3>4. CASE i # k + 2
      <4>1. i \in 2..(k + 1) /\ g[i] = f[i]
        BY <2>2, <3>1, <3>4
      <4> QED
        BY <2>1, <3>2, <4>1
    <3> QED
      BY <3>3, <3>4
  <2>5. Goes(g, (k + 1) + 1)
    BY <2>2, <2>4
  <2> HIDE DEF g
  <2> QED
    BY <2>2, <2>3, <2>5
<1>3. L - 1 \in S
  <2>1. L - 1 \in Nat
    BY <1>n
  <2> HIDE DEF S
  <2> QED
    BY <1>1, <1>2, <2>1, UpTo
<1>4. PICK f : Starts(f) /\ Goes(f, L)
  <2>1. (L - 1) + 1 = L
    BY <1>n
  <2> QED
    BY <1>3, <2>1
<1> DEFINE h == [i \in 1..L |-> f[i]]
<1>5. h = [i \in 1..L |-> IF i = 1 THEN inputs[1] ELSE UnifyNext(h[i - 1], inputs[i])]
  <2> SUFFICES ASSUME NEW i \in 1..L
               PROVE  f[i] = IF i = 1 THEN inputs[1] ELSE UnifyNext(h[i - 1], inputs[i])
    OBVIOUS
  <2>1. CASE i = 1
    BY <1>4, <2>1
  <2>2. CASE i # 1
    <3>1. i \in 2..L /\ i - 1 \in 1..L
      BY <1>n, <2>2
    <3>2. h[i - 1] = f[i - 1]
      BY <3>1
    <3>3. f[i] = UnifyNext(f[i - 1], inputs[i])
      BY <1>4, <3>1
    <3> QED
      BY <2>2, <3>2, <3>3
  <2> QED
    BY <2>1, <2>2
<1> DEFINE F == CHOOSE g : g = [i \in 1..L |-> IF i = 1 THEN inputs[1] ELSE UnifyNext(g[i - 1], inputs[i])]
<1>6. F = [i \in 1..L |-> IF i = 1 THEN inputs[1] ELSE UnifyNext(F[i - 1], inputs[i])]
  <2> HIDE DEF h
  <2> QED
    BY <1>5
<1>7. Accumulated(inputs) = F[L]
  BY DEF Accumulated, L
<1> HIDE DEF F
<1>8. F[1] = inputs[1] /\ \A i \in 2..L : F[i] = UnifyNext(F[i - 1], inputs[i])
  <2>1. 1 \in 1..L /\ \A i \in 2..L : i \in 1..L /\ i # 1
    BY <1>n
  <2> QED
    BY <1>6, <2>1
<1> QED
  BY <1>7, <1>8 DEF L

\* The fields of what is unified.
Fields == {"arch", "packages", "versions", "provided"}

\* One architecture more: what stays in common is what it has at the version
\* accumulated, although versions and provided keep entries of names that are
\* no longer in common.
LEMMA UnifyNextFacts ==
  ASSUME NEW acc, NEW next, NEW V, DOMAIN acc = Fields,
         DOMAIN next.versions = next.packages, acc.packages \subseteq DOMAIN acc.versions,
         \A n \in DOMAIN acc.provided : acc.provided[n] \subseteq V
  PROVE  LET u == UnifyNext(acc, next)
         IN /\ DOMAIN u = Fields
            /\ u.packages = {n \in acc.packages : /\ n \in next.packages
                                                  /\ acc.versions[n] = next.versions[n]}
            /\ u.packages \subseteq DOMAIN u.versions
            /\ \A n \in u.packages : u.versions[n] = acc.versions[n]
            /\ \A n \in DOMAIN u.provided : u.provided[n] \subseteq V
<1> DEFINE u == UnifyNext(acc, next)
<1>1. CASE acc.versions = next.versions /\ acc.provided = next.provided
  BY <1>1 DEF UnifyNext
<1>2. CASE ~(acc.versions = next.versions /\ acc.provided = next.provided)
  <2> DEFINE both == acc.packages \cap next.packages
             apart == {n \in both : acc.versions[n] # next.versions[n]}
             before == Without(acc.provided, apart)
             narrowed == {n \in both : Lookup(before, n, {}) # Lookup(next.provided, n, {})}
             prov == [n \in DOMAIN before \cup narrowed |->
                        IF n \in narrowed
                        THEN Lookup(before, n, {}) \cap Lookup(next.provided, n, {})
                        ELSE before[n]]
             vers == Without(acc.versions, apart)
  <2>1. u = [acc EXCEPT !.packages = both \ apart, !.versions = vers, !.provided = prov]
    BY <1>2 DEF UnifyNext
  <2>2. DOMAIN vers = DOMAIN acc.versions \ apart /\ \A n \in DOMAIN vers : vers[n] = acc.versions[n]
    BY DEF Without
  <2>3. \A n \in DOMAIN before : before[n] \subseteq V
    BY DEF Without
  <2>4. \A n : Lookup(before, n, {}) \subseteq V
    BY <2>3 DEF Lookup
  <2>5. \A n \in DOMAIN prov : prov[n] \subseteq V
    BY <2>3, <2>4
  <2> HIDE DEF vers, prov, apart, both
  <2>6. DOMAIN u = Fields /\ u.packages = both \ apart /\ u.versions = vers /\ u.provided = prov
    BY <2>1 DEF Fields
  <2>7. both \ apart = {n \in acc.packages : n \in next.packages /\ acc.versions[n] = next.versions[n]}
    BY DEF both, apart
  <2> HIDE DEF u
  <2>8. u.packages \subseteq DOMAIN u.versions /\ \A n \in u.packages : u.versions[n] = acc.versions[n]
    BY <2>2, <2>6, <2>7 DEF apart
  <2> QED
    BY <2>5, <2>6, <2>7, <2>8 DEF u
<1> QED
  BY <1>1, <1>2

\* All of them: what is in common is what every architecture has at the
\* version of the first, and nothing is provided that none provided.
LEMMA AccumulatedFacts ==
  ASSUME NEW inputs, Len(inputs) \in Nat \ {0}, NEW V,
         \A i \in 1..Len(inputs) :
           /\ DOMAIN inputs[i] = Fields
           /\ DOMAIN inputs[i].versions = inputs[i].packages
           /\ \A n \in DOMAIN inputs[i].provided : inputs[i].provided[n] \subseteq V
  PROVE  LET acc == Accumulated(inputs)
         IN /\ acc.packages = {n \in inputs[1].packages :
                                  \A i \in 1..Len(inputs) :
                                    /\ n \in inputs[i].packages
                                    /\ inputs[i].versions[n] = inputs[1].versions[n]}
            /\ \A n \in acc.packages : acc.versions[n] = inputs[1].versions[n]
            /\ \A n \in DOMAIN acc.provided : acc.provided[n] \subseteq V
<1> DEFINE L == Len(inputs)
<1>1. PICK acc : /\ acc[1] = inputs[1]
                 /\ \A i \in 2..L : acc[i] = UnifyNext(acc[i - 1], inputs[i])
                 /\ Accumulated(inputs) = acc[L]
  BY AccumulatedUnfolds
<1>n. L \in Nat /\ L > 0
  OBVIOUS
<1> DEFINE Common(k) == {n \in inputs[1].packages :
                           \A i \in 1..k : /\ n \in inputs[i].packages
                                           /\ inputs[i].versions[n] = inputs[1].versions[n]}
           Holds(k) == /\ DOMAIN acc[k] = Fields
                       /\ acc[k].packages = Common(k)
                       /\ acc[k].packages \subseteq DOMAIN acc[k].versions
                       /\ \A n \in acc[k].packages : acc[k].versions[n] = inputs[1].versions[n]
                       /\ \A n \in DOMAIN acc[k].provided : acc[k].provided[n] \subseteq V
           S == {k \in 0..(L - 1) : Holds(k + 1)}
<1>i. \A i \in 1..L : /\ DOMAIN inputs[i] = Fields
                      /\ DOMAIN inputs[i].versions = inputs[i].packages
                      /\ \A n \in DOMAIN inputs[i].provided : inputs[i].provided[n] \subseteq V
  OBVIOUS
<1> HIDE DEF L
<1>2. 0 \in S
  <2>1. 0 \in 0..(L - 1) /\ 1 \in 1..L /\ 0 + 1 = 1 /\ \A i \in 1..1 : i = 1
    BY <1>n
  <2>2. Holds(1)
    BY <1>1, <1>i, <2>1
  <2> HIDE DEF Holds
  <2> QED
    BY <2>1, <2>2
<1>3. ASSUME NEW k \in 0..(L - 1 - 1), k \in S PROVE k + 1 \in S
  <2> DEFINE j == k + 2
  <2>1. k \in Nat /\ k + 1 \in 0..(L - 1) /\ (k + 1) + 1 = j /\ j \in 2..L /\ j \in 1..L /\ j - 1 = k + 1
    BY <1>n
  <2>2. Holds(j - 1)
    BY <1>3, <2>1
  <2>3. acc[j] = UnifyNext(acc[j - 1], inputs[j])
    BY <1>1, <2>1
  <2>4. DOMAIN inputs[j].versions = inputs[j].packages
    BY <1>i, <2>1
  <2>5. /\ DOMAIN acc[j] = Fields
        /\ acc[j].packages = {n \in acc[j - 1].packages :
                                 n \in inputs[j].packages /\ acc[j - 1].versions[n] = inputs[j].versions[n]}
        /\ acc[j].packages \subseteq DOMAIN acc[j].versions
        /\ \A n \in acc[j].packages : acc[j].versions[n] = acc[j - 1].versions[n]
        /\ \A n \in DOMAIN acc[j].provided : acc[j].provided[n] \subseteq V
    <3> DEFINE r == acc[j - 1]
               x == inputs[j]
    <3>1. /\ DOMAIN r = Fields /\ DOMAIN x.versions = x.packages
          /\ r.packages \subseteq DOMAIN r.versions
          /\ \A n \in DOMAIN r.provided : r.provided[n] \subseteq V
      BY <2>2, <2>4
    <3>2. acc[j] = UnifyNext(r, x)
      BY <2>3
    <3> HIDE DEF r, x, j
    <3>3. LET u == UnifyNext(r, x)
          IN /\ DOMAIN u = Fields
             /\ u.packages = {n \in r.packages : n \in x.packages /\ r.versions[n] = x.versions[n]}
             /\ u.packages \subseteq DOMAIN u.versions
             /\ \A n \in u.packages : u.versions[n] = r.versions[n]
             /\ \A n \in DOMAIN u.provided : u.provided[n] \subseteq V
      BY <3>1, UnifyNextFacts
    <3> QED
      BY <3>2, <3>3 DEF r, x
  <2>6. Common(j) = {n \in Common(j - 1) :
                       n \in inputs[j].packages /\ inputs[1].versions[n] = inputs[j].versions[n]}
    <3>1. \A i : i \in 1..j <=> i \in 1..(j - 1) \/ i = j
      BY <2>1
    <3> HIDE DEF j
    <3> QED
      BY <3>1
  <2>7. acc[j].packages = Common(j)
    BY <2>2, <2>5, <2>6
  <2>8. Holds(j)
    <3> HIDE DEF Common, j
    <3> QED
      BY <2>2, <2>5, <2>7
  <2> HIDE DEF Holds
  <2> QED
    BY <2>1, <2>8
<1>4. L - 1 \in S
  <2>1. L - 1 \in Nat
    BY <1>n
  <2> HIDE DEF S
  <2> QED
    BY <1>2, <1>3, <2>1, UpTo
<1>5. Holds(L)
  <2>1. (L - 1) + 1 = L
    BY <1>n
  <2> HIDE DEF Holds
  <2> QED
    BY <1>4, <2>1
<1> QED
  BY <1>1, <1>5 DEF L

\* The names some package provides.
Provided == UNION {p.provides : p \in Packages}

\* What resolvePackageList makes of the packages of an architecture.
LEMMA ResolvedFacts ==
  ASSUME NEW a, NEW pkgs \in SUBSET Packages, \A p, q \in pkgs : p.name = q.name => p = q
  PROVE  LET r == Resolved(a, pkgs)
         IN /\ DOMAIN r = Fields /\ r.arch = a
            /\ r.packages = NamesOf(pkgs) /\ DOMAIN r.versions = r.packages
            /\ \A p \in pkgs : r.versions[p.name] = p.version
            /\ \A n \in DOMAIN r.provided : r.provided[n] \subseteq Provided
<1> DEFINE r == Resolved(a, pkgs)
<1>1. DOMAIN r = Fields /\ r.arch = a /\ r.packages = NamesOf(pkgs) /\ DOMAIN r.versions = r.packages
  BY DEF Resolved, Fields
<1>2. ASSUME NEW p \in pkgs PROVE r.versions[p.name] = p.version
  <2>1. p.name \in NamesOf(pkgs)
    BY DEF NamesOf
  <2>2. (CHOOSE q \in pkgs : q.name = p.name) = p
    OBVIOUS
  <2>3. r.versions[p.name] = (CHOOSE q \in pkgs : q.name = p.name).version
    BY <2>1 DEF Resolved
  <2> QED
    BY <2>2, <2>3
<1>3. ASSUME NEW n \in DOMAIN r.provided PROVE r.provided[n] \subseteq Provided
  <2>1. \E q \in pkgs : q.name = n
    BY <1>3 DEF Resolved
  <2> DEFINE c == CHOOSE q \in pkgs : q.name = n
  <2>2. c \in pkgs
    BY <2>1
  <2>3. r.provided[n] = c.provides
    BY <1>3 DEF Resolved
  <2> HIDE DEF c
  <2> QED
    BY <2>2, <2>3 DEF Provided
<1> QED
  BY <1>1, <1>2, <1>3

\* unify, whichever order the architectures come in: it fails if a name asked
\* for, and provided by nothing, is not in common, and the lists it makes are
\* the lists resolved and what they have in common.
LEMMA UnifyFacts ==
  ASSUME archs \subseteq Archs, archs # {}, DOMAIN originals # {},
         \A a \in archs : /\ lists[a] \subseteq Packages
                          /\ \A p, q \in lists[a] : p.name = q.name => p = q,
         NEW order \in SetToSeqs(archs), NEW u,
         u = unify(originals, [i \in DOMAIN order |-> Resolved(order[i], lists[order[i]])])
  PROVE  /\ \A n \in DOMAIN originals : ~Virtual(n) /\ ~u.err => InCommon(n)
         /\ (\A n \in DOMAIN originals : ~Virtual(n)) =>
              (u.err <=> \E n \in DOMAIN originals : ~InCommon(n))
         /\ ~u.err =>
              /\ DOMAIN u.lists = archs \cup {"index"}
              /\ \A a \in archs : {<<e.name, e.version>> : e \in u.lists[a]} =
                                  {<<p.name, p.version>> : p \in lists[a]}
              /\ {e.name : e \in u.lists["index"]} = {n \in {p.name : p \in Packages} : InCommon(n)}
<1> DEFINE c == Cardinality(archs)
           inputs == [i \in DOMAIN order |-> Resolved(order[i], lists[order[i]])]
           acc == Accumulated(inputs)
<1>1. IsFiniteSet(archs) /\ c \in Nat /\ c # 0
  BY FiniteArchs, FS_EmptySet
<1>2. order \in [1..c -> archs] /\ \A i, k \in 1..c : i # k => order[i] # order[k]
  BY DEF SetToSeqs
<1>3. \A a \in archs : \E i \in 1..c : order[i] = a
  <2>1. order \in Injection(1..c, archs)
    BY <1>2 DEF Injection, IsInjective
  <2>2. IsFiniteSet(1..c) /\ Cardinality(1..c) = c
    BY <1>1, FS_Interval
  <2>3. order \in Surjection(1..c, archs)
    <3> DEFINE D == 1..c
    <3>1. order \in Injection(D, archs) /\ Cardinality(D) = Cardinality(archs)
      BY <2>1, <2>2
    <3> HIDE DEF D, c
    <3>2. order \in Surjection(D, archs)
      BY <1>1, <3>1, FS_Injection
    <3> QED
      BY <3>2 DEF D
  <2> QED
    BY <2>3 DEF Surjection
<1>4. \A i \in 1..c :
        LET r == inputs[i]
        IN /\ DOMAIN r = Fields /\ r.arch = order[i]
           /\ r.packages = NamesOf(lists[order[i]]) /\ DOMAIN r.versions = r.packages
           /\ \A p \in lists[order[i]] : r.versions[p.name] = p.version
           /\ \A n \in DOMAIN r.provided : r.provided[n] \subseteq Provided
  <2> TAKE i \in 1..c
  <2> DEFINE a == order[i]
             pkgs == lists[a]
  <2>1. a \in archs /\ inputs[i] = Resolved(a, pkgs)
    BY <1>2
  <2>2. pkgs \in SUBSET Packages /\ \A p, q \in pkgs : p.name = q.name => p = q
    BY <2>1
  <2> HIDE DEF a, pkgs, inputs
  <2>3. LET r == Resolved(a, pkgs)
        IN /\ DOMAIN r = Fields /\ r.arch = a
           /\ r.packages = NamesOf(pkgs) /\ DOMAIN r.versions = r.packages
           /\ \A p \in pkgs : r.versions[p.name] = p.version
           /\ \A n \in DOMAIN r.provided : r.provided[n] \subseteq Provided
    BY <2>2, ResolvedFacts
  <2> QED
    BY <2>1, <2>3 DEF a, pkgs
<1>5. DOMAIN inputs = 1..c /\ Len(inputs) = c /\ inputs # <<>>
  <2> DEFINE R == {Resolved(a, lists[a]) : a \in archs}
  <2>1. DOMAIN inputs = 1..c
    BY <1>2
  <2>2. \A i \in 1..c : inputs[i] \in R
    BY <1>2
  <2>3. inputs \in [1..c -> R]
    BY <2>1, <2>2
  <2> HIDE DEF inputs, R
  <2>4. inputs \in Seq(R)
    BY <1>1, <2>3
  <2>5. Len(inputs) \in Nat /\ DOMAIN inputs = 1..Len(inputs)
    BY <2>4, LenProperties
  <2>6. Len(inputs) = c
    BY <1>1, <2>1, <2>5
  <2> QED
    BY <1>1, <2>1, <2>6
<1> HIDE DEF inputs
<1>6. /\ acc.packages = {n \in inputs[1].packages :
                           \A i \in 1..c : /\ n \in inputs[i].packages
                                           /\ inputs[i].versions[n] = inputs[1].versions[n]}
      /\ \A n \in DOMAIN acc.provided : acc.provided[n] \subseteq Provided
  <2>1. Len(inputs) \in Nat \ {0}
    BY <1>1, <1>5
  <2>2. \A i \in 1..Len(inputs) :
          /\ DOMAIN inputs[i] = Fields
          /\ DOMAIN inputs[i].versions = inputs[i].packages
          /\ \A n \in DOMAIN inputs[i].provided : inputs[i].provided[n] \subseteq Provided
    BY <1>4, <1>5
  <2>3. /\ acc.packages = {n \in inputs[1].packages :
                           \A i \in 1..Len(inputs) : /\ n \in inputs[i].packages
                                           /\ inputs[i].versions[n] = inputs[1].versions[n]}
        /\ \A n \in DOMAIN acc.provided : acc.provided[n] \subseteq Provided
    BY <2>1, <2>2, AccumulatedFacts
  <2> QED
    BY <1>5, <2>3
<1> HIDE DEF acc
\* InCommon(n) speaks of the lists, acc.packages of what was accumulated.
<1>7. \A n : InCommon(n) <=> n \in acc.packages
  <2> TAKE n
  <2>1. 1 \in 1..c
    BY <1>1
  <2>2. ASSUME InCommon(n) PROVE n \in acc.packages
    <3>1. PICK v : \A a \in archs : \E p \in lists[a] : p.name = n /\ p.version = v
      BY <2>2 DEF InCommon
    <3>2. \A i \in 1..c : n \in inputs[i].packages /\ inputs[i].versions[n] = v
      <4> TAKE i \in 1..c
      <4>1. PICK p \in lists[order[i]] : p.name = n /\ p.version = v
        BY <1>2, <3>1
      <4> QED
        BY <1>4, <4>1 DEF NamesOf
    <3> QED
      BY <1>6, <2>1, <3>2
  <2>3. ASSUME n \in acc.packages PROVE InCommon(n)
    <3> DEFINE v == inputs[1].versions[n]
    <3>1. \A i \in 1..c : n \in inputs[i].packages /\ inputs[i].versions[n] = v
      BY <1>6, <2>3
    <3>2. \A a \in archs : \E p \in lists[a] : p.name = n /\ p.version = v
      <4> TAKE a \in archs
      <4>1. PICK i \in 1..c : order[i] = a
        BY <1>3
      <4>2. PICK p \in lists[a] : p.name = n
        BY <1>4, <3>1, <4>1 DEF NamesOf
      <4>3. p.version = v
        BY <1>4, <3>1, <4>1, <4>2
      <4> QED
        BY <4>2, <4>3
    <3>3. v \in {p.version : p \in Packages}
      <4>1. PICK a \in archs : TRUE
        OBVIOUS
      <4>2. PICK p \in lists[a] : p.version = v
        BY <3>2
      <4> QED
        BY <4>2
    <3> HIDE DEF v
    <3> QED
      BY <3>2, <3>3 DEF InCommon
  <2> QED
    BY <2>2, <2>3
<1>8. \A n \in DOMAIN originals : ~Virtual(n) => (n \in Missing(originals, acc) <=> ~InCommon(n))
  <2> SUFFICES ASSUME NEW n \in DOMAIN originals, ~Virtual(n)
               PROVE  n \in Missing(originals, acc) <=> n \notin acc.packages
    BY <1>7
  <2>1. n \notin Provided
    BY DEF Virtual, Provided
  <2>2. n \notin UNION {acc.provided[k] : k \in DOMAIN acc.provided}
    BY <1>6, <2>1
  <2> QED
    BY <2>2 DEF Missing
<1> DEFINE byArch == [a \in {inputs[i].arch : i \in DOMAIN inputs} |->
                        LET in == CHOOSE in \in ToSet(inputs) : in.arch = a
                        IN {Entry(originals, n, in.versions[n]) : n \in in.packages}]
           common == {Entry(originals, n, acc.versions[n]) : n \in acc.packages}
<1>9. u = IF Missing(originals, acc) # {} THEN [err |-> TRUE, lists |-> <<>>]
          ELSE [err |-> FALSE,
                lists |-> [k \in DOMAIN byArch \cup {"index"} |->
                             IF k = "index" THEN common ELSE byArch[k]]]
  BY <1>5 DEF unify, acc, inputs
<1>10. u.err <=> Missing(originals, acc) # {}
  BY <1>9
<1>11. Missing(originals, acc) \subseteq DOMAIN originals
  BY DEF Missing
<1>12. {inputs[i].arch : i \in DOMAIN inputs} = archs
  BY <1>2, <1>3, <1>4, <1>5
<1>13. \A a \in archs : {<<e.name, e.version>> : e \in byArch[a]} = {<<p.name, p.version>> : p \in lists[a]}
  <2> TAKE a \in archs
  <2> DEFINE in == CHOOSE in \in ToSet(inputs) : in.arch = a
  <2>1. \A x \in ToSet(inputs) : \E i \in 1..c : x = inputs[i] /\ x.arch = order[i]
    BY <1>4, <1>5 DEF ToSet
  <2>2. \E x \in ToSet(inputs) : x.arch = a
    BY <1>5, <1>12 DEF ToSet
  <2>3. in \in ToSet(inputs) /\ in.arch = a
    BY <2>2
  <2>4. byArch[a] = {Entry(originals, n, in.versions[n]) : n \in in.packages}
    BY <1>12
  <2> HIDE DEF in, byArch
  <2>5. PICK i \in 1..c : in = inputs[i] /\ order[i] = a
    BY <2>1, <2>3
  <2>6. in.packages = NamesOf(lists[a]) /\ \A p \in lists[a] : in.versions[p.name] = p.version
    BY <1>4, <2>5
  <2>7. \A n : /\ Entry(originals, n, in.versions[n]).name = n
               /\ Entry(originals, n, in.versions[n]).version = in.versions[n]
    BY DEF Entry
  <2>8. {<<e.name, e.version>> : e \in byArch[a]} = {<<n, in.versions[n]>> : n \in NamesOf(lists[a])}
    BY <2>4, <2>6, <2>7
  <2>9. {<<n, in.versions[n]>> : n \in NamesOf(lists[a])} = {<<p.name, p.version>> : p \in lists[a]}
    BY <2>6 DEF NamesOf
  <2> QED
    BY <2>8, <2>9
<1>14. {e.name : e \in common} = {n \in {p.name : p \in Packages} : InCommon(n)}
  <2>1. {e.name : e \in common} = acc.packages
    <3>1. \A n : Entry(originals, n, acc.versions[n]).name = n
      BY DEF Entry
    <3>2. \A e \in common : e.name \in acc.packages
      BY <3>1
    <3>3. \A n \in acc.packages : \E e \in common : e.name = n
      BY <3>1
    <3> HIDE DEF common
    <3> QED
      BY <3>2, <3>3
  <2>2. \A n \in acc.packages : n \in {p.name : p \in Packages}
    <3>1. \A n \in acc.packages : n \in NamesOf(lists[order[1]]) /\ order[1] \in archs
      BY <1>1, <1>2, <1>4, <1>6
    <3> QED
      BY <3>1 DEF NamesOf
  <2> QED
    BY <1>7, <2>1, <2>2
<1>15. "index" \notin archs
  BY MultiArchAssumption
<1> HIDE DEF byArch, common
<1>16. ASSUME ~u.err
       PROVE  /\ DOMAIN u.lists = DOMAIN byArch \cup {"index"}
              /\ u.lists["index"] = common
              /\ \A a \in archs : a \in DOMAIN byArch => u.lists[a] = byArch[a]
  BY <1>9, <1>15, <1>16
<1>17. DOMAIN byArch = archs
  BY <1>12 DEF byArch
<1>18. \A n \in DOMAIN originals : ~Virtual(n) /\ ~u.err => InCommon(n)
  BY <1>8, <1>10
<1>19. (\A n \in DOMAIN originals : ~Virtual(n)) =>
         (u.err <=> \E n \in DOMAIN originals : ~InCommon(n))
  BY <1>8, <1>10, <1>11
<1>20. ASSUME ~u.err
       PROVE  /\ DOMAIN u.lists = archs \cup {"index"}
              /\ \A a \in archs : {<<e.name, e.version>> : e \in u.lists[a]} =
                                  {<<p.name, p.version>> : p \in lists[a]}
              /\ {e.name : e \in u.lists["index"]} = {n \in {p.name : p \in Packages} : InCommon(n)}
  BY <1>13, <1>14, <1>16, <1>17, <1>20
<1> QED
  BY <1>18, <1>19, <1>20

----------------------------------------------------------------------------
(* Each part of the invariant speaks of a few variables                    *)

\* A step that leaves these variables alone keeps that part.
LEMMA SameKinds ==
  ASSUME Kinds, UNCHANGED <<input, repo, updates, stage, etags, pc, own, seen, dqCache, dq, lists,
                            imgs, bde, sboms>>
  PROVE  Kinds'
  BY DEF Kinds, TypeOK, archs

LEMMA SameViews ==
  ASSUME Views, UNCHANGED <<input, etags, seen, own, pc>>
  PROVE  Views'
  BY DEF Views, archs

LEMMA SameCache ==
  ASSUME CacheSound, UNCHANGED dqCache
  PROVE  CacheSound'
  BY DEF CacheSound

LEMMA SameResolutions ==
  ASSUME Resolutions, UNCHANGED <<input, own, seen, lists>>,
         stage' = "resolve" => stage = "resolve" /\ pc' = pc
  PROVE  Resolutions'
  BY DEF Resolutions, LackingLeftOut, archs

LEMMA SameLockFile ==
  ASSUME LockFile, UNCHANGED <<input, lock>>,
         stage' = "lock" => stage = "lock" /\ pc' = pc,
         stage' \notin {"lock", "failed"} => stage \notin {"lock", "failed"}
  PROVE  LockFile'
  BY DEF LockFile, archs, originals

LEMMA SameLockedLists ==
  ASSUME LockedLists, UNCHANGED <<input, lists, locked>>,
         stage' \notin Early \cup {"failed"} => stage \notin Early \cup {"failed"},
         stage' = "build" => stage = "build",
         stage' # "resolve" => stage # "resolve"
  PROVE  LockedLists'
<1>1. /\ archs' = archs /\ originals' = originals /\ configured' = configured
      /\ input.lockfile' = input.lockfile /\ locked' = locked /\ lists' = lists
  BY DEF archs, originals, configured
<1>2. \A n : InCommon(n)' <=> InCommon(n)
  BY DEF InCommon, archs
<1>3. UnifiedInAnyOrder'
  <2>1. UnifiedInAnyOrder
    BY DEF LockedLists
  <2> QED
    BY <1>1, <1>2, <2>1 DEF UnifiedInAnyOrder
<1>4. /\ stage' \notin Early \cup {"failed"} =>
            configured' = IF DOMAIN originals' = {} THEN {} ELSE archs'
      /\ stage' = "build" /\ ~input.lockfile' => locked' # <<>>
  BY <1>1 DEF LockedLists
<1>5. ~input.lockfile' /\ locked' # <<>> /\ DOMAIN originals' # {} =>
        /\ DOMAIN lists' = archs'
        /\ \A n \in DOMAIN originals' : ~Virtual(n) => InCommon(n)'
  BY <1>1, <1>2 DEF LockedLists
<1> QED
  BY <1>3, <1>4, <1>5 DEF LockedLists

LEMMA SameImages ==
  ASSUME Images, UNCHANGED <<input, lists, lock, locked, result, imgs, digests>>,
         stage' = "build" => stage = "build" /\ pc' = pc /\ sboms' = sboms
  PROVE  Images'
  BY DEF Images, Expected, configured, archs

LEMMA SameDates ==
  ASSUME Dates, UNCHANGED <<input, imgs, bde>>
  PROVE  Dates'
  BY DEF Dates

LEMMA SameIndex ==
  ASSUME IndexOfAll, UNCHANGED <<input, locked, imgs, bde, index>>
  PROVE  IndexOfAll'
  BY DEF IndexOfAll, Indexed, Manifests, archs, originals

LEMMA SamePublication ==
  ASSUME Publication, UNCHANGED <<input, index, registry, output, imgs>>,
         stage' \in Late \cup {"failed"} => stage' \in {stage, "failed"},
         stage' = "publish-cmd" => pc' = pc, stage' = "tags" => pc' = pc,
         stage' \in Late => sboms' = sboms
  PROVE  Publication'
  BY DEF Publication, Pushed, Manifests, Late

\* A step within the stage that changes none of what Phases speaks of.
LEMMA SamePhases ==
  ASSUME Phases, UNCHANGED <<input, stage, locked, imgs, result, sboms, bde, index, registry, output,
                             lists, seen>>,
         \A g \in Archs \cup Tags : /\ pc'[g] = "siblings" => stage = "resolve"
                                    /\ pc'[g] = "collect" => stage = "build",
         stage = "lock" => \A a \in archs : pc'[a] \in {"idle", "ok"},
         stage \in {"start", "build"} => \A t \in Tags : pc'[t] = "idle",
         stage = "start" => \A a \in archs : pc'[a] = "idle"
  PROVE  Phases'
  BY DEF Phases, Indexed, archs, Early

----------------------------------------------------------------------------
(* The steps                                                               *)

\* What the assumptions say of the command's input.
LEMMA InputFacts ==
  ASSUME IInv
  PROVE  /\ input \in Scenarios /\ archs \subseteq Archs /\ archs # {}
         /\ input.repo \in [Archs -> SUBSET Packages] /\ input.maxUpdates \in Nat
         /\ input.lockfile \in BOOLEAN /\ input.edited \in BOOLEAN /\ input.etagCache \in BOOLEAN
         /\ input.env.kind \in {"unset", "blank", "date"} /\ input.env.at \in Nat
         /\ input.buildDate \in Nat
         /\ input.command \in {"build-cmd", "load-cmd", "publish-cmd"}
<1>1. input \in Scenarios
  BY DEF IInv, Kinds, TypeOK
<1> QED
  BY <1>1, ScenariosAssumption DEF archs

\* The initial states satisfy the invariant.
LEMMA InitEstablishes == Init => IInv
<1> SUFFICES ASSUME Init PROVE IInv
  OBVIOUS
<1>1. /\ input \in Scenarios /\ archs \subseteq Archs /\ archs # {}
      /\ input.repo \in [Archs -> SUBSET Packages] /\ input.maxUpdates \in Nat
      /\ input.buildDate \in Nat
  BY ScenariosAssumption DEF Init, archs
<1>2. \A g \in Archs \cup Tags : pc[g] = "idle"
  BY DEF Init, Idle
<1>3. stage \in {"lock", "resolve"} /\ (stage = "lock" <=> input.lockfile)
  BY DEF Init
<1>c. CacheSize \in Nat
  BY MultiArchAssumption
<1>4. Kinds
  <2>1. TypeOK
    BY <1>1, <1>3, <1>c DEF Init, TypeOK, Idle, Goroutine
  <2>2. dqCache \in Seq(ToSet(dqCache)) /\ sboms \in Seq(Archs \cup {"index"})
    BY EmptySeq DEF Init
  <2> QED
    BY <2>1, <2>2 DEF Kinds, Init
<1>5. Phases
  BY <1>1, <1>2, <1>3 DEF Phases, Init, Indexed, Early
<1>6. Views /\ CacheSound
  BY <1>1, <1>2 DEF Views, CacheSound, Init
<1>7. Resolutions
  BY <1>1, <1>2 DEF Resolutions, LackingLeftOut, Init
<1>8. LockFile
  BY <1>1, <1>2, <1>3 DEF LockFile, Init
<1>9. LockedLists
  BY <1>1, <1>3 DEF LockedLists, UnifiedInAnyOrder, Early, Init
<1>10. Images /\ Dates
  BY <1>1, <1>3 DEF Images, Dates, Init
<1>11. IndexOfAll /\ Publication
  BY <1>3 DEF IndexOfAll, Publication, Indexed, Manifests, ToSet, Late, Init
<1> QED
  BY <1>4, <1>5, <1>6, <1>7, <1>8, <1>9, <1>10, <1>11 DEF IInv

\* A repository is updated.
LEMMA UpdatePreserves ==
  ASSUME IInv, NEW a \in archs, Update(a)
  PROVE  IInv'
<1>0. /\ Kinds /\ Phases /\ Views /\ CacheSound /\ Resolutions /\ LockFile /\ LockedLists
      /\ Images /\ Dates /\ IndexOfAll /\ Publication
  BY DEF IInv
<1>1. UNCHANGED <<input, etags, stage, pc, own, seen, dqCache, dq, lists, lock, locked, result,
                  imgs, bde, sboms, digests, index, registry, output>>
  BY DEF Update, resolving, building, publishing
<1>2. Kinds'
  <2>1. PICK r \in Releases : repo' = [repo EXCEPT ![a] = r]
    BY DEF Update
  <2>2. repo' \in [Archs -> SUBSET Packages]
    BY <1>0, <2>1, MultiArchAssumption DEF Kinds, TypeOK
  <2>3. updates' \in 0..input.maxUpdates
    BY <1>0, InputFacts DEF Update, Kinds, TypeOK
  <2>4. TypeOK'
    BY <1>0, <1>1, <2>2, <2>3 DEF Kinds, TypeOK, archs
  <2> QED
    BY <1>0, <1>1, <2>4 DEF Kinds, archs
<1>3. Phases'
  BY <1>0, <1>1, SamePhases DEF Phases
<1> QED
  BY <1>0, <1>1, <1>2, <1>3, SameViews, SameCache, SameResolutions, SameLockFile, SameLockedLists,
     SameImages, SameDates, SameIndex, SamePublication DEF IInv

\* The command gives up.
LEMMA FailingPreserves ==
  ASSUME IInv, stage' = "failed", pc' = Idle \/ (pc' = pc /\ stage \notin {"resolve", "build"}),
         stage # "resolve" \/ UnifiedInAnyOrder',
         UNCHANGED <<input, repo, updates, etags, own, seen, dqCache, dq, lists, lock, locked,
                     result, imgs, bde, sboms, digests, index, registry, output>>
  PROVE  IInv'
<1>0. /\ Kinds /\ Phases /\ Views /\ CacheSound /\ Resolutions /\ LockFile /\ LockedLists
      /\ Images /\ Dates /\ IndexOfAll /\ Publication
  BY DEF IInv
<1>1. /\ pc' \in [Archs \cup Tags -> Goroutine]
      /\ \A g \in Archs \cup Tags : pc'[g] \notin {"siblings", "collect"}
  BY <1>0 DEF Idle, Goroutine, Kinds, TypeOK, Phases
<1>2. Kinds'
  BY <1>0, <1>1 DEF Kinds, TypeOK, archs
<1>3. Phases'
  BY <1>0, <1>1 DEF Phases, Early, Indexed
<1>4. Views'
  BY <1>0, <1>1, InputFacts DEF Views, archs
<1>5. LockedLists'
  <2>1. CASE stage # "resolve"
    BY <1>0, <2>1, SameLockedLists
  <2>2. CASE stage = "resolve"
    BY <1>0, <2>2 DEF LockedLists, Phases, Early
  <2> QED
    BY <2>1, <2>2
<1>6. Publication'
  BY <1>0 DEF Publication, Pushed, Manifests, Late
<1> QED
  BY <1>0, <1>2, <1>3, <1>4, <1>5, <1>6, SameCache, SameResolutions, SameLockFile,
     SameImages, SameDates, SameIndex DEF IInv

\* Reading an index leaves what was read before in the etag cache.
LEMMA FetchFacts ==
  ASSUME IInv, NEW a \in Archs, Fetch(a)
  PROVE  /\ Fetched(a) \subseteq Packages
         /\ DOMAIN etags' \subseteq Archs /\ \A c \in DOMAIN etags' : etags'[c] \subseteq Packages
         /\ \A c \in DOMAIN etags : c \in DOMAIN etags' /\ etags'[c] = etags[c]
         /\ input.etagCache => a \in DOMAIN etags' /\ etags'[a] = Fetched(a)
<1>1. Fetched(a) \subseteq Packages
  BY DEF IInv, Kinds, TypeOK, Fetched, Lookup
<1>2. CASE input.etagCache
  <2> DEFINE e == With(etags, a, Fetched(a))
  <2>1. etags' = e
    BY <1>2 DEF Fetch
  <2>2. DOMAIN e = DOMAIN etags \cup {a} /\ \A c \in DOMAIN etags : e[c] = etags[c]
    BY DEF With
  <2>3. e[a] = Fetched(a)
    BY DEF With, Fetched, Lookup
  <2> HIDE DEF e
  <2> QED
    BY <1>1, <2>1, <2>2, <2>3 DEF IInv, Kinds
<1>3. CASE ~input.etagCache
  BY <1>1, <1>3 DEF Fetch, IInv, Kinds
<1> QED
  BY <1>2, <1>3

\* The next architecture is resolved for the lock file.
LEMMA LockArchPreserves ==
  ASSUME IInv, NEW a \in archs, LockArch(a)
  PROVE  IInv'
<1>0. /\ Kinds /\ Phases /\ Views /\ CacheSound /\ Resolutions /\ LockFile /\ LockedLists
      /\ Images /\ Dates /\ IndexOfAll /\ Publication
  BY DEF IInv
<1>1. /\ UNCHANGED <<input, repo, updates, stage, own, seen, dqCache, dq, lists, locked, result,
                      imgs, bde, sboms, digests, index, registry, output>>
      /\ stage = "lock" /\ pc[a] = "idle" /\ pc' = [pc EXCEPT ![a] = "ok"] /\ Fetch(a)
  BY DEF LockArch, resolving, building, publishing
<1>2. a \in Archs /\ archs \subseteq Archs
  BY InputFacts
<1>3. PICK s \in Answers(Fetched(a), DOMAIN originals) :
        lock' = lock \cup {[arch |-> a, package |-> p] : p \in s}
  BY DEF LockArch
<1>4. s \subseteq Packages /\ (s = {} <=> DOMAIN originals = {})
  <2> DEFINE wanted == DOMAIN originals
             avail == Fetched(a)
  <2>1. avail \subseteq Packages
    BY <1>1, <1>2, FetchFacts
  <2>2. s \in Answers(avail, wanted)
    BY <1>3
  <2> HIDE DEF wanted, avail
  <2>3. s \subseteq avail /\ (s = {} <=> wanted = {})
    BY <2>2, AnswersFacts
  <2> QED
    BY <2>1, <2>3 DEF wanted
<1>5. \A g \in Archs \cup Tags : pc'[g] = IF g = a THEN "ok" ELSE pc[g]
  BY <1>0, <1>1 DEF Kinds, TypeOK
<1>6. Kinds'
  <2>1. pc' \in [Archs \cup Tags -> Goroutine]
    BY <1>0, <1>1, <1>2 DEF Kinds, TypeOK, Goroutine
  <2>2. DOMAIN etags' \subseteq Archs /\ \A c \in DOMAIN etags' : etags'[c] \subseteq Packages
    BY <1>1, <1>2, FetchFacts
  <2> QED
    BY <1>0, <1>1, <2>1, <2>2 DEF Kinds, TypeOK, archs
<1>7. Phases'
  <2>1. \A b \in archs : pc'[b] \in {"idle", "ok"}
    BY <1>0, <1>1, <1>2, <1>5 DEF Phases
  <2> QED
    BY <1>0, <1>1, <1>5, <2>1, SamePhases DEF Phases
<1>8. Views'
  BY <1>0, <1>1, <1>2, <1>5 DEF Views, Phases, archs
<1>9. LockFile'
  <2>1. \A l \in lock' : l.package \in Packages
    BY <1>0, <1>3, <1>4 DEF LockFile
  <2>2. {l.arch : l \in lock'} = {l.arch : l \in lock} \cup (IF s = {} THEN {} ELSE {a})
    <3>1. \A p : [arch |-> a, package |-> p].arch = a
      OBVIOUS
    <3> QED
      BY <1>3, <3>1
  <2>3. {b \in archs : pc'[b] = "ok"} = {b \in archs : pc[b] = "ok"} \cup {a}
    BY <1>2, <1>5
  <2>4. {l.arch : l \in lock'} = IF DOMAIN originals = {} THEN {} ELSE {b \in archs : pc'[b] = "ok"}
    BY <1>0, <1>1, <1>4, <2>2, <2>3 DEF LockFile
  <2> QED
    BY <1>1, <2>1, <2>4 DEF LockFile, archs, originals
<1>10. Images'
  BY <1>0, <1>1 DEF Images, Phases, Early
<1> QED
  BY <1>0, <1>1, <1>6, <1>7, <1>8, <1>9, <1>10, SameCache, SameResolutions, SameLockedLists,
     SameDates, SameIndex, SamePublication DEF IInv, Late, Early

\* The lock file is written.
LEMMA SaveToFilePreserves ==
  ASSUME IInv, SaveToFile
  PROVE  IInv'
<1>0. /\ Kinds /\ Phases /\ Views /\ CacheSound /\ Resolutions /\ LockFile /\ LockedLists
      /\ Images /\ Dates /\ IndexOfAll /\ Publication
  BY DEF IInv
<1>1. /\ UNCHANGED <<input, repo, updates, own, seen, dqCache, dq, lists, lock, locked, result,
                      imgs, bde, sboms, digests, index, registry, output>>
      /\ stage = "lock" /\ stage' = "start" /\ pc' = Idle /\ etags' = <<>>
      /\ \A a \in archs : pc[a] = "ok"
  BY DEF SaveToFile, resolving, building, publishing
<1>2. archs \subseteq Archs
  BY InputFacts
<1>3. \A g \in Archs \cup Tags : pc'[g] = "idle"
  BY <1>1 DEF Idle
<1>4. Kinds'
  <2>1. pc' \in [Archs \cup Tags -> Goroutine]
    BY <1>1 DEF Idle, Goroutine
  <2> QED
    BY <1>0, <1>1, <2>1 DEF Kinds, TypeOK, archs
<1>5. Phases'
  BY <1>0, <1>1, <1>2, <1>3 DEF Phases, Indexed, Early, archs
<1>6. Views'
  BY <1>0, <1>1, <1>2, <1>3 DEF Views, Phases, archs
<1>7. LockFile'
  BY <1>0, <1>1 DEF LockFile, archs, originals
<1>8. LockedLists'
  BY <1>0, <1>1, SameLockedLists DEF Early
<1>9. Images'
  BY <1>0, <1>1 DEF Images, Phases, Early
<1> QED
  BY <1>0, <1>1, <1>4, <1>5, <1>6, <1>7, <1>8, <1>9, SameCache, SameResolutions,
     SameDates, SameIndex, SamePublication DEF IInv, Late

\* The build starts from the lock file.
LEMMA ReadLockfilePreserves ==
  ASSUME IInv, ReadLockfile
  PROVE  IInv'
<1>0. /\ Kinds /\ Phases /\ Views /\ CacheSound /\ Resolutions /\ LockFile /\ LockedLists
      /\ Images /\ Dates /\ IndexOfAll /\ Publication
  BY DEF IInv
<1>1. /\ UNCHANGED <<input, repo, updates, etags, pc, own, seen, dqCache, dq, lists, lock, result,
                      imgs, bde, sboms, digests, index, registry, output>>
      /\ stage = "start"
  BY DEF ReadLockfile, resolving, building, publishing
<1>2. archs \subseteq Archs /\ "index" \notin Archs
  BY InputFacts, MultiArchAssumption
<1>3. CASE ~VerifyLockfileConsistency
  <2>1. stage' = "failed" /\ locked' = locked
    BY <1>3 DEF ReadLockfile
  <2> QED
    BY <1>1, <2>1, FailingPreserves
<1>4. CASE VerifyLockfileConsistency
  <2>1. stage' = "build" /\ locked' = Arch2LockedPackages(lock, archs)
    BY <1>4 DEF ReadLockfile
  <2>2. input.lockfile
    BY <1>0, <1>1 DEF Phases
  <2>3. configured' = IF DOMAIN originals = {} THEN {} ELSE archs
    <3>1. DOMAIN locked' = {l.arch : l \in lock} \cap archs
      BY <2>1 DEF Arch2LockedPackages
    <3>2. {l.arch : l \in lock} = IF DOMAIN originals = {} THEN {} ELSE archs
      BY <1>0, <1>1, <2>2 DEF LockFile
    <3> QED
      BY <1>2, <3>1, <3>2 DEF configured
  <2>4. Kinds'
    BY <1>0, <1>1, <2>1 DEF Kinds, TypeOK, archs
  <2>5. Phases'
    BY <1>0, <1>1, <2>1, <2>2 DEF Phases, Indexed, Early
  <2>6. LockedLists'
    BY <1>1, <2>1, <2>2, <2>3 DEF LockedLists, UnifiedInAnyOrder, archs, originals, Early
  <2>7. Images'
    <3>1. \A a \in archs : pc[a] = "idle"
      BY <1>0, <1>1 DEF Phases
    <3> QED
      BY <1>0, <1>1, <2>1, <2>3, <3>1 DEF Images, Phases, Early, ToSet, archs
  <2>8. IndexOfAll'
    BY <1>0, <1>1, <2>2 DEF IndexOfAll, Phases, Early, Indexed
  <2> QED
    BY <1>0, <1>1, <2>1, <2>4, <2>5, <2>6, <2>7, <2>8, SameViews, SameCache, SameResolutions,
       SameLockFile, SameDates, SamePublication DEF IInv, Late
<1> QED
  BY <1>3, <1>4

\* A goroutine reads the index of its own architecture.
LEMMA FetchOwnPreserves ==
  ASSUME IInv, NEW a \in archs, FetchOwn(a)
  PROVE  IInv'
<1>0. /\ Kinds /\ Phases /\ Views /\ CacheSound /\ Resolutions /\ LockFile /\ LockedLists
      /\ Images /\ Dates /\ IndexOfAll /\ Publication
  BY DEF IInv
<1>1. /\ UNCHANGED <<input, repo, updates, stage, seen, dqCache, dq, lists, lock, locked, result,
                      imgs, bde, sboms, digests, index, registry, output>>
      /\ stage = "resolve" /\ pc[a] = "idle" /\ pc' = [pc EXCEPT ![a] = "siblings"]
      /\ own' = [own EXCEPT ![a] = Fetched(a)] /\ Fetch(a)
  BY DEF FetchOwn, building, publishing
<1>2. a \in Archs /\ archs \subseteq Archs
  BY InputFacts
<1>3. /\ \A g \in Archs \cup Tags : pc'[g] = IF g = a THEN "siblings" ELSE pc[g]
      /\ \A b \in Archs : own'[b] = IF b = a THEN Fetched(a) ELSE own[b]
  BY <1>0, <1>1 DEF Kinds, TypeOK
<1>4. /\ Fetched(a) \subseteq Packages
      /\ DOMAIN etags' \subseteq Archs /\ \A c \in DOMAIN etags' : etags'[c] \subseteq Packages
      /\ \A c \in DOMAIN etags : c \in DOMAIN etags' /\ etags'[c] = etags[c]
      /\ input.etagCache => a \in DOMAIN etags' /\ etags'[a] = Fetched(a)
  BY <1>1, <1>2, FetchFacts
<1>5. Kinds'
  <2>1. pc' \in [Archs \cup Tags -> Goroutine]
    BY <1>0, <1>1, <1>2 DEF Kinds, TypeOK, Goroutine
  <2>2. own' \in [Archs -> SUBSET Packages]
    BY <1>0, <1>1, <1>2, <1>4 DEF Kinds
  <2> QED
    BY <1>0, <1>1, <1>4, <2>1, <2>2 DEF Kinds, TypeOK, archs
<1>6. Phases'
  BY <1>0, <1>1, <1>3, SamePhases DEF Phases
<1>7. Views'
  BY <1>0, <1>1, <1>2, <1>3, <1>4 DEF Views, archs
<1>8. Resolutions'
  <2>1. a \notin DOMAIN lists /\ DOMAIN lists \subseteq archs
    BY <1>0, <1>1 DEF Resolutions
  <2>2. {b \in archs : pc'[b] = "ok"} = {b \in archs : pc[b] = "ok"}
    BY <1>1, <1>2, <1>3
  <2> QED
    BY <1>0, <1>1, <1>2, <1>3, <2>1, <2>2 DEF Resolutions, LackingLeftOut, archs
<1>9. Images'
  BY <1>0, <1>1, SameImages
<1> QED
  BY <1>0, <1>1, <1>5, <1>6, <1>7, <1>8, <1>9, SameCache, SameLockFile, SameLockedLists,
     SameDates, SameIndex, SamePublication DEF IInv, Late

\* A goroutine reads the index of an architecture to compare them.
LEMMA FetchSiblingPreserves ==
  ASSUME IInv, NEW a \in archs, NEW b \in archs, FetchSibling(a, b)
  PROVE  IInv'
<1>0. /\ Kinds /\ Phases /\ Views /\ CacheSound /\ Resolutions /\ LockFile /\ LockedLists
      /\ Images /\ Dates /\ IndexOfAll /\ Publication
  BY DEF IInv
<1>1. /\ UNCHANGED <<input, repo, updates, stage, pc, own, dqCache, dq, lists, lock, locked, result,
                      imgs, bde, sboms, digests, index, registry, output>>
      /\ stage = "resolve" /\ pc[a] = "siblings" /\ b \notin DOMAIN seen[a]
      /\ seen' = [seen EXCEPT ![a] = With(@, b, Fetched(b))] /\ Fetch(b)
  BY DEF FetchSibling, building, publishing
<1>2. a \in Archs /\ b \in Archs /\ archs \subseteq Archs
  BY InputFacts
<1>3. /\ DOMAIN seen' = Archs
      /\ \A c \in Archs : c # a => seen'[c] = seen[c]
      /\ DOMAIN seen'[a] = DOMAIN seen[a] \cup {b}
      /\ \A c \in DOMAIN seen[a] : seen'[a][c] = seen[a][c]
      /\ seen'[a][b] = Fetched(b)
  <2>1. DOMAIN seen' = Archs /\ seen'[a] = With(seen[a], b, Fetched(b))
        /\ \A c \in Archs : c # a => seen'[c] = seen[c]
    BY <1>0, <1>1, <1>2 DEF Kinds
  <2> QED
    BY <1>1, <2>1 DEF With
<1>4. /\ DOMAIN etags' \subseteq Archs /\ \A c \in DOMAIN etags' : etags'[c] \subseteq Packages
      /\ \A c \in DOMAIN etags : c \in DOMAIN etags' /\ etags'[c] = etags[c]
      /\ input.etagCache => b \in DOMAIN etags' /\ etags'[b] = Fetched(b)
  BY <1>1, <1>2, FetchFacts
<1>5. Kinds'
  <2>1. \A c \in Archs : DOMAIN seen'[c] \subseteq archs
    BY <1>0, <1>3 DEF Kinds
  <2> QED
    BY <1>0, <1>1, <1>3, <1>4, <2>1 DEF Kinds, TypeOK, archs
<1>6. Phases'
  <2>1. ~input.lockfile
    BY <1>0, <1>1 DEF Phases
  <2> QED
    BY <1>0, <1>1, <2>1 DEF Phases, Indexed, Early
<1>7. Views'
  <2> SUFFICES ASSUME input.etagCache, NEW c \in archs
               PROVE  /\ \A d \in DOMAIN seen'[c] : d \in DOMAIN etags' /\ seen'[c][d] = etags'[d]
                      /\ pc[c] = "siblings" => c \in DOMAIN etags' /\ own[c] = etags'[c]
    BY <1>1 DEF Views, archs
  <2>1. /\ \A d \in DOMAIN seen[c] : d \in DOMAIN etags /\ seen[c][d] = etags[d]
        /\ pc[c] = "siblings" => c \in DOMAIN etags /\ own[c] = etags[c]
    BY <1>0 DEF Views
  <2>2. CASE c = a
    BY <1>3, <1>4, <2>1, <2>2
  <2>3. CASE c # a
    BY <1>2, <1>3, <1>4, <2>1, <2>3
  <2> QED
    BY <2>2, <2>3
<1>8. Resolutions'
  <2>1. a \notin DOMAIN lists /\ DOMAIN lists \subseteq archs
    BY <1>0, <1>1 DEF Resolutions
  <2>2. \A c \in DOMAIN lists : seen'[c] = seen[c]
    BY <1>2, <1>3, <2>1
  <2> QED
    BY <1>0, <1>1, <2>2 DEF Resolutions, LackingLeftOut, archs
<1>9. Images'
  BY <1>0, <1>1, SameImages
<1> QED
  BY <1>0, <1>1, <1>5, <1>6, <1>7, <1>8, <1>9, SameCache, SameLockFile, SameLockedLists,
     SameDates, SameIndex, SamePublication DEF IInv, Late

\* A goroutine has resolved its architecture.
LEMMA SolvePreserves ==
  ASSUME IInv, NEW a \in archs, Solve(a)
  PROVE  IInv'
<1>0. /\ Kinds /\ Phases /\ Views /\ CacheSound /\ Resolutions /\ LockFile /\ LockedLists
      /\ Images /\ Dates /\ IndexOfAll /\ Publication
  BY DEF IInv
<1>1. /\ UNCHANGED <<input, repo, updates, etags, stage, own, seen, lock, locked, result,
                      imgs, bde, sboms, digests, index, registry, output>>
      /\ stage = "resolve" /\ pc[a] = "siblings" /\ pc' = [pc EXCEPT ![a] = "ok"]
      /\ DOMAIN seen[a] = archs
      /\ dqCache' = LruEntry(dqCache, seen[a], disqualifyDifference(seen[a]))
      /\ dq' = [dq EXCEPT ![a] = Last(dqCache').val[a]]
  BY DEF Solve, building, publishing
<1>2. a \in Archs /\ archs \subseteq Archs
  BY InputFacts
<1>3. \A g \in Archs \cup Tags : pc'[g] = IF g = a THEN "ok" ELSE pc[g]
  BY <1>0, <1>1 DEF Kinds, TypeOK
<1>4. /\ dqCache' \in Seq(ToSet(dqCache')) /\ Len(dqCache') <= CacheSize
      /\ CacheSound' /\ Last(dqCache').val = disqualifyDifference(seen[a])
  <2> DEFINE key == seen[a]
             new == LruEntry(dqCache, key, disqualifyDifference(key))
  <2>1. /\ dqCache \in Seq(ToSet(dqCache)) /\ Len(dqCache) <= CacheSize
        /\ \A i \in DOMAIN dqCache : dqCache[i].val = disqualifyDifference(dqCache[i].key)
    BY <1>0 DEF Kinds, TypeOK, CacheSound
  <2>2. dqCache' = new
    BY <1>1
  <2> HIDE DEF key
  <2>3. /\ new \in Seq(ToSet(new)) /\ Len(new) <= CacheSize
        /\ \A i \in DOMAIN new : new[i].val = disqualifyDifference(new[i].key)
        /\ Last(new).val = disqualifyDifference(key)
    BY <2>1, LruFacts
  <2> HIDE DEF new
  <2> QED
    BY <2>2, <2>3 DEF CacheSound, key
<1>5. dq'[a] = disqualifyDifference(seen[a])[a] /\ DOMAIN dq' = Archs
  BY <1>0, <1>1, <1>2, <1>4 DEF Kinds
<1> DEFINE avail == Candidates(a, dq'[a])
           wanted == DOMAIN originals
<1>6. PICK s \in Answers(avail, wanted) : lists' = With(lists, a, s)
  BY DEF Solve
<1>7. avail \subseteq own[a] /\ own[a] \subseteq Packages
      /\ (own[a] = seen[a][a] => avail = own[a] \ disqualifyDifference(seen[a])[a])
  BY <1>0, <1>2, <1>5 DEF Candidates, Kinds
<1>8. s \subseteq avail /\ \A p, q \in s : p.name = q.name => p = q
  <2> HIDE DEF avail, wanted
  <2> QED
    BY <1>6, AnswersFacts
<1> HIDE DEF avail, wanted
<1>9. a \notin DOMAIN lists /\ DOMAIN lists \subseteq archs
  BY <1>0, <1>1 DEF Resolutions
<1>10. /\ DOMAIN lists' = DOMAIN lists \cup {a} /\ lists'[a] = s
       /\ \A b \in DOMAIN lists : lists'[b] = lists[b]
  BY <1>6, <1>9 DEF With
<1>11. ~input.lockfile
  BY <1>0, <1>1 DEF Phases
<1>12. Kinds'
  <2>1. pc' \in [Archs \cup Tags -> Goroutine]
    BY <1>0, <1>1, <1>2 DEF Kinds, TypeOK, Goroutine
  <2>2. DOMAIN lists' \subseteq archs
    BY <1>9, <1>10
  <2> QED
    BY <1>0, <1>1, <1>4, <1>5, <2>1, <2>2 DEF Kinds, TypeOK, archs
<1>13. Phases'
  BY <1>0, <1>1, <1>3, <1>11 DEF Phases, Indexed, Early
<1>14. Views'
  BY <1>0, <1>1, <1>2, <1>3 DEF Views, archs
<1>15. Resolutions'
  <2>1. {b \in archs : pc'[b] = "ok"} = {b \in archs : pc[b] = "ok"} \cup {a}
    BY <1>2, <1>3
  <2>2. DOMAIN lists' = {b \in archs : pc'[b] = "ok"}
    BY <1>0, <1>1, <1>10, <2>1 DEF Resolutions
  <2>3. \A b \in DOMAIN lists' :
          /\ DOMAIN seen[b] = archs /\ lists'[b] \subseteq Packages
          /\ \A p, q \in lists'[b] : p.name = q.name => p = q
    BY <1>0, <1>1, <1>7, <1>8, <1>10 DEF Resolutions
  <2>4. ASSUME own[a] = seen[a][a], NEW p \in s, NEW b \in archs
        PROVE  \E q \in seen[a][b] : q.name = p.name /\ q.version = p.version
    <3> DEFINE byArch == seen[a]
    <3>1. p \in byArch[a] /\ p \notin disqualifyDifference(byArch)[a]
      BY <1>7, <1>8, <2>4
    <3>2. IsFiniteSet(DOMAIN byArch) /\ a \in DOMAIN byArch /\ b \in DOMAIN byArch
      BY <1>1, <1>2, FiniteArchs
    <3> HIDE DEF byArch
    <3>3. \E q \in byArch[b] : q.name = p.name /\ q.version = p.version
      BY <3>1, <3>2, NotDisqualified
    <3> QED
      BY <3>3 DEF byArch
  <2>5. LackingLeftOut'
    <3> SUFFICES ASSUME NEW c \in DOMAIN lists', own[c] = seen[c][c], NEW p \in lists'[c], NEW b \in archs
                 PROVE  \E q \in seen[c][b] : q.name = p.name /\ q.version = p.version
      BY <1>1 DEF LackingLeftOut, archs
    <3>1. CASE c = a
      BY <1>10, <2>4, <3>1
    <3>2. CASE c # a
      BY <1>0, <1>10, <3>2 DEF Resolutions, LackingLeftOut
    <3> QED
      BY <3>1, <3>2
  <2> QED
    BY <1>1, <2>2, <2>3, <2>5 DEF Resolutions, archs
<1>16. LockedLists'
  BY <1>0, <1>1 DEF LockedLists, UnifiedInAnyOrder, Phases, Early
<1>17. Images'
  BY <1>0, <1>1 DEF Images, Phases, Early
<1> QED
  BY <1>0, <1>1, <1>4, <1>12, <1>13, <1>14, <1>15, <1>16, <1>17, SameLockFile,
     SameDates, SameIndex, SamePublication DEF IInv, Late

\* A resolution fails.
LEMMA ResolveFailsPreserves ==
  ASSUME IInv, NEW a \in archs, ResolveFails(a)
  PROVE  IInv'
<1>0. /\ Kinds /\ Phases /\ Views /\ CacheSound /\ Resolutions /\ LockFile /\ LockedLists
      /\ Images /\ Dates /\ IndexOfAll /\ Publication
  BY DEF IInv
<1>1. /\ UNCHANGED <<input, repo, updates, etags, stage, own, seen, dqCache, dq, lists, lock, locked,
                      result, imgs, bde, sboms, digests, index, registry, output>>
      /\ stage = "resolve" /\ pc[a] \in {"idle", "siblings"} /\ pc' = [pc EXCEPT ![a] = "failed"]
  BY DEF ResolveFails, resolving, building, publishing
<1>2. a \in Archs /\ archs \subseteq Archs
  BY InputFacts
<1>3. \A g \in Archs \cup Tags : pc'[g] = IF g = a THEN "failed" ELSE pc[g]
  BY <1>0, <1>1 DEF Kinds, TypeOK
<1>4. Kinds'
  <2>1. pc' \in [Archs \cup Tags -> Goroutine]
    BY <1>0, <1>1, <1>2 DEF Kinds, TypeOK, Goroutine
  <2> QED
    BY <1>0, <1>1, <2>1 DEF Kinds, TypeOK, archs
<1>5. Phases'
  BY <1>0, <1>1, <1>3, SamePhases DEF Phases
<1>6. Views'
  BY <1>0, <1>1, <1>2, <1>3 DEF Views, archs
<1>7. Resolutions'
  <2>1. {b \in archs : pc'[b] = "ok"} = {b \in archs : pc[b] = "ok"}
    BY <1>1, <1>2, <1>3
  <2> QED
    BY <1>0, <1>1, <2>1 DEF Resolutions, LackingLeftOut, archs
<1>8. Images'
  BY <1>0, <1>1, SameImages
<1> QED
  BY <1>0, <1>1, <1>4, <1>5, <1>6, <1>7, <1>8, SameCache, SameLockFile, SameLockedLists,
     SameDates, SameIndex, SamePublication DEF IInv, Late

\* The lists of all architectures are unified.
LEMMA UnifyPreserves ==
  ASSUME IInv, Unify
  PROVE  IInv'
<1>0. /\ Kinds /\ Phases /\ Views /\ CacheSound /\ Resolutions /\ LockFile /\ LockedLists
      /\ Images /\ Dates /\ IndexOfAll /\ Publication
  BY DEF IInv
<1>1. /\ UNCHANGED <<input, repo, updates, etags, own, seen, dqCache, dq, lists, lock, result,
                      imgs, bde, sboms, digests, index, registry, output>>
      /\ stage = "resolve" /\ pc' = Idle
  BY DEF Unify, resolving, building, publishing
<1>2. archs \subseteq Archs /\ archs # {} /\ "index" \notin Archs
  BY InputFacts, MultiArchAssumption
<1>3. /\ locked = <<>> /\ ~input.lockfile
      /\ DOMAIN lists = {a \in archs : pc[a] = "ok"}
  BY <1>0, <1>1 DEF Phases, Early, Resolutions
<1>4. archs' = archs /\ originals' = originals /\ \A n : InCommon(n)' <=> InCommon(n)
  BY <1>1 DEF archs, originals, InCommon
<1>5. CASE ~AllOk(archs)
  <2>1. stage' = "failed" /\ locked' = locked
    BY <1>5 DEF Unify
  <2>2. DOMAIN lists # archs
    BY <1>3, <1>5 DEF AllOk
  <2>3. UnifiedInAnyOrder'
    BY <1>1, <1>4, <2>2 DEF UnifiedInAnyOrder
  <2> QED
    BY <1>1, <2>1, <2>3, FailingPreserves
<1>6. CASE AllOk(archs)
  <2>1. DOMAIN lists = archs
    BY <1>3, <1>6 DEF AllOk
  <2> DEFINE U(order) == unify(originals, [i \in DOMAIN order |-> Resolved(order[i], lists[order[i]])])
  <2>2. PICK order \in SetToSeqs(archs) :
          IF U(order).err THEN stage' = "failed" /\ locked' = locked
          ELSE stage' = "build" /\ locked' = U(order).lists
    BY <1>6 DEF Unify
  <2> DEFINE u == U(order)
  <2>3. IF u.err THEN stage' = "failed" /\ locked' = locked
        ELSE stage' = "build" /\ locked' = u.lists
    BY <2>2
  <2>4. ASSUME DOMAIN originals # {}
        PROVE  /\ \A n \in DOMAIN originals : ~Virtual(n) /\ ~u.err => InCommon(n)
               /\ (\A n \in DOMAIN originals : ~Virtual(n)) =>
                    (u.err <=> \E n \in DOMAIN originals : ~InCommon(n))
               /\ ~u.err =>
                    /\ DOMAIN u.lists = archs \cup {"index"}
                    /\ \A a \in archs : {<<e.name, e.version>> : e \in u.lists[a]} =
                                        {<<p.name, p.version>> : p \in lists[a]}
                    /\ {e.name : e \in u.lists["index"]} =
                         {n \in {p.name : p \in Packages} : InCommon(n)}
    <3>1. \A a \in archs : /\ lists[a] \subseteq Packages
                           /\ \A p, q \in lists[a] : p.name = q.name => p = q
      BY <1>0, <2>1 DEF Resolutions
    <3>2. u = unify(originals, [i \in DOMAIN order |-> Resolved(order[i], lists[order[i]])])
      OBVIOUS
    <3> HIDE DEF u
    <3> QED
      BY <1>2, <2>4, <3>1, <3>2, UnifyFacts
  <2>5. ASSUME DOMAIN originals = {}
        PROVE  ~u.err /\ DOMAIN u.lists = {"index"}
    BY <2>5 DEF unify
  <2> HIDE DEF u
  <2>6. CASE u.err
    <3>1. stage' = "failed" /\ locked' = locked /\ DOMAIN originals # {}
      BY <2>3, <2>5, <2>6
    <3>2. (\A n \in DOMAIN originals : ~Virtual(n)) => \E n \in DOMAIN originals : ~InCommon(n)
      BY <2>4, <2>6, <3>1
    <3>3. UnifiedInAnyOrder'
      BY <1>3, <1>4, <3>1, <3>2 DEF UnifiedInAnyOrder
    <3> QED
      BY <1>1, <3>1, <3>3, FailingPreserves
  <2>7. CASE ~u.err
    <3>1. stage' = "build" /\ locked' = u.lists
      BY <2>3, <2>7
    <3>2. locked' # <<>>
      <4>1. "index" \in DOMAIN u.lists
        BY <2>4, <2>5, <2>7
      <4> QED
        BY <3>1, <4>1
    <3>3. configured' = IF DOMAIN originals = {} THEN {} ELSE archs
      BY <1>2, <2>4, <2>5, <2>7, <3>1 DEF configured
    <3>4. \A g \in Archs \cup Tags : pc'[g] = "idle"
      BY <1>1 DEF Idle
    <3>5. Kinds'
      <4>1. pc' \in [Archs \cup Tags -> Goroutine]
        BY <1>1 DEF Idle, Goroutine
      <4> QED
        BY <1>0, <1>1, <3>1, <4>1 DEF Kinds, TypeOK, archs
    <3>6. Phases'
      BY <1>0, <1>1, <1>3, <3>1, <3>4 DEF Phases, Indexed, Early
    <3>7. Views'
      BY <1>0, <1>1, <1>2, <3>4 DEF Views, archs
    <3>8. UnifiedInAnyOrder'
      <4> SUFFICES ASSUME DOMAIN originals # {}
                   PROVE  /\ (\A n \in DOMAIN originals : ~Virtual(n))
                               => (locked' = <<>>) = (\E n \in DOMAIN originals : ~InCommon(n)')
                          /\ configured' = archs
                          /\ \A a \in archs : {<<e.name, e.version>> : e \in locked'[a]} =
                                              {<<p.name, p.version>> : p \in lists'[a]}
                          /\ {e.name : e \in locked'["index"]} =
                               {n \in {p.name : p \in Packages} : InCommon(n)'}
        BY <1>4 DEF UnifiedInAnyOrder
      <4>1. (\A n \in DOMAIN originals : ~Virtual(n))
              => (locked' = <<>>) = (\E n \in DOMAIN originals : ~InCommon(n)')
        BY <1>4, <2>4, <2>7, <3>2
      <4>2. configured' = archs
        BY <3>3
      <4>3. \A a \in archs : {<<e.name, e.version>> : e \in locked'[a]} =
                              {<<p.name, p.version>> : p \in lists'[a]}
        BY <1>1, <2>4, <2>7, <3>1
      <4>4. {e.name : e \in locked'["index"]} = {n \in {p.name : p \in Packages} : InCommon(n)'}
        BY <1>4, <2>4, <2>7, <3>1
      <4> QED
        BY <4>1, <4>2, <4>3, <4>4
    <3>9. LockedLists'
      <4>1. DOMAIN originals # {} => \A n \in DOMAIN originals : ~Virtual(n) => InCommon(n)'
        BY <1>4, <2>4, <2>7
      <4> QED
        BY <1>1, <1>3, <1>4, <2>1, <3>1, <3>2, <3>3, <3>8, <4>1 DEF LockedLists, Early
    <3>10. Images'
      <4>1. \A a \in archs : pc'[a] = "idle"
        BY <1>2, <3>4
      <4> QED
        BY <1>0, <1>1, <1>4, <3>1, <3>3, <4>1 DEF Images, Phases, Early, ToSet
    <3>11. IndexOfAll'
      BY <1>0, <1>1 DEF IndexOfAll, Phases, Early, Indexed
    <3> QED
      BY <1>0, <1>1, <3>1, <3>5, <3>6, <3>7, <3>9, <3>10, <3>11, SameCache, SameResolutions,
         SameLockFile, SameDates, SamePublication DEF IInv, Late
  <2> QED
    BY <2>6, <2>7
<1> QED
  BY <1>5, <1>6

\* What a build installs is what was resolved or locked: a locked list gives
\* the packages back by their names and versions, whatever the index lists by
\* now.
LEMMA InstallsExpected ==
  ASSUME IInv, NEW a \in archs, stage = "build", a \in configured, Installable(a)
  PROVE  ToInstall(a) = Expected(a)
<1>1. CASE input.lockfile
  BY <1>1 DEF ToInstall, Expected
<1>2. CASE ~input.lockfile
  <2>1. DOMAIN originals # {} /\ locked # <<>> /\ DOMAIN lists = archs
    BY <1>2 DEF IInv, LockedLists, Early
  <2>2. {<<e.name, e.version>> : e \in locked[a]} = {<<p.name, p.version>> : p \in lists[a]}
    BY <1>2, <2>1 DEF IInv, LockedLists, UnifiedInAnyOrder
  <2>3. lists[a] \subseteq Packages /\ Fetched(a) \subseteq Packages
    BY <2>1, InputFacts DEF IInv, Resolutions, Kinds, TypeOK, Fetched, Lookup
  <2>4. /\ \A e \in locked[a] : \E p \in lists[a] : p.name = e.name /\ p.version = e.version
        /\ \A p \in lists[a] : \E e \in locked[a] : p.name = e.name /\ p.version = e.version
    <3>1. ASSUME NEW e \in locked[a]
          PROVE  \E p \in lists[a] : p.name = e.name /\ p.version = e.version
      <4>1. <<e.name, e.version>> \in {<<p.name, p.version>> : p \in lists[a]}
        BY <2>2
      <4> QED
        BY <4>1
    <3>2. ASSUME NEW p \in lists[a]
          PROVE  \E e \in locked[a] : p.name = e.name /\ p.version = e.version
      <4>1. <<p.name, p.version>> \in {<<e.name, e.version>> : e \in locked[a]}
        BY <2>2
      <4> QED
        BY <4>1
    <3> QED
      BY <3>1, <3>2
  <2>5. \A e \in locked[a] : \E p \in Fetched(a) : p.name = e.name /\ p.version = e.version
    BY <1>2 DEF Installable
  <2>6. \A p, q \in Packages : p.name = q.name /\ p.version = q.version => p = q
    BY MultiArchAssumption
  <2>7. LockedPackages(Fetched(a), locked[a]) = lists[a]
    <3>1. ASSUME NEW p \in Fetched(a), NEW e \in locked[a], e.name = p.name, e.version = p.version
          PROVE  p \in lists[a]
      BY <2>3, <2>4, <2>6, <3>1
    <3>2. ASSUME NEW p \in lists[a]
          PROVE  p \in Fetched(a) /\ \E e \in locked[a] : e.name = p.name /\ e.version = p.version
      <4>1. PICK e \in locked[a] : p.name = e.name /\ p.version = e.version
        BY <2>4
      <4>2. PICK q \in Fetched(a) : q.name = e.name /\ q.version = e.version
        BY <2>5
      <4>3. p = q
        BY <2>3, <2>6, <4>1, <4>2
      <4> QED
        BY <4>1, <4>2, <4>3
    <3> QED
      BY <3>1, <3>2 DEF LockedPackages
  <2> QED
    BY <1>2, <2>7 DEF ToInstall, Expected
<1> QED
  BY <1>1, <1>2

\* An architecture's packages are installed.
LEMMA InstallPreserves ==
  ASSUME IInv, NEW a \in archs, Install(a)
  PROVE  IInv'
<1>0. /\ Kinds /\ Phases /\ Views /\ CacheSound /\ Resolutions /\ LockFile /\ LockedLists
      /\ Images /\ Dates /\ IndexOfAll /\ Publication
  BY DEF IInv
<1>1. /\ UNCHANGED <<input, repo, updates, stage, own, seen, dqCache, dq, lists, lock, locked,
                      imgs, bde, sboms, digests, index, registry, output>>
      /\ stage = "build" /\ a \in configured /\ pc[a] = "idle" /\ Installable(a)
      /\ pc' = [pc EXCEPT ![a] = "collect"] /\ result' = With(result, a, ToInstall(a)) /\ Fetch(a)
  BY DEF Install, resolving, publishing
<1>2. a \in Archs /\ archs \subseteq Archs /\ Archs \cap Tags = {}
  BY InputFacts, MultiArchAssumption
<1>3. \A g \in Archs \cup Tags : pc'[g] = IF g = a THEN "collect" ELSE pc[g]
  BY <1>0, <1>1 DEF Kinds, TypeOK
<1>4. /\ DOMAIN etags' \subseteq Archs /\ \A c \in DOMAIN etags' : etags'[c] \subseteq Packages
      /\ \A c \in DOMAIN etags : c \in DOMAIN etags' /\ etags'[c] = etags[c]
  BY <1>1, <1>2, FetchFacts
<1>5. /\ DOMAIN result' = DOMAIN result \cup {a} /\ a \notin DOMAIN result
      /\ result'[a] = Expected(a) /\ \A b \in DOMAIN result : result'[b] = result[b]
  <2>0. \A b \in archs : pc[b] = "idle" => b \notin DOMAIN result
    <3>1. Images /\ stage = "build"
      BY <1>0, <1>1
    <3> QED
      BY <3>1 DEF Images
  <2>1. a \notin DOMAIN result
    BY <1>1, <2>0
  <2>2. ToInstall(a) = Expected(a)
    BY <1>1, InstallsExpected
  <2> QED
    BY <1>1, <2>1, <2>2 DEF With
<1>6. Kinds'
  <2>1. pc' \in [Archs \cup Tags -> Goroutine]
    BY <1>0, <1>1, <1>2 DEF Kinds, TypeOK, Goroutine
  <2> QED
    BY <1>0, <1>1, <1>4, <2>1 DEF Kinds, TypeOK, archs
<1>7. Phases'
  BY <1>0, <1>1, <1>2, <1>3 DEF Phases, Indexed, Early
<1>8. Views'
  BY <1>0, <1>1, <1>2, <1>3, <1>4 DEF Views, archs
<1>9. Images'
  <2>1. Expected(a)' = Expected(a) /\ configured' = configured /\ archs' = archs
        /\ \A b : Expected(b)' = Expected(b)
    BY <1>1 DEF Expected, configured, archs
  <2>2. /\ \A b \in archs : /\ pc'[b] = "idle" => b \notin DOMAIN result'
                            /\ pc'[b] = "collect" => b \in DOMAIN result' \cap configured
        /\ {b \in configured : pc'[b] = "ok"} = {b \in configured : pc[b] = "ok"}
        /\ \A b \in DOMAIN result' : result'[b] = Expected(b)
    <3>1. configured \subseteq archs
      BY <1>0, <1>1 DEF LockedLists, Early
    <3> QED
      BY <1>0, <1>1, <1>2, <1>3, <1>5, <3>1 DEF Images
  <2> QED
    BY <1>0, <1>1, <2>1, <2>2 DEF Images
<1> QED
  BY <1>0, <1>1, <1>6, <1>7, <1>8, <1>9, SameCache, SameResolutions, SameLockFile, SameLockedLists,
     SameDates, SameIndex, SamePublication DEF IInv, Late

\* An architecture's build fails.
LEMMA BuildFailsPreserves ==
  ASSUME IInv, NEW a \in archs, BuildFails(a)
  PROVE  IInv'
<1>0. /\ Kinds /\ Phases /\ Views /\ CacheSound /\ Resolutions /\ LockFile /\ LockedLists
      /\ Images /\ Dates /\ IndexOfAll /\ Publication
  BY DEF IInv
<1>1. /\ UNCHANGED <<input, repo, updates, etags, stage, own, seen, dqCache, dq, lists, lock, locked,
                      result, imgs, bde, sboms, digests, index, registry, output>>
      /\ stage = "build" /\ pc[a] \in {"idle", "collect"} /\ pc' = [pc EXCEPT ![a] = "failed"]
  BY DEF BuildFails, resolving, building, publishing
<1>2. a \in Archs /\ archs \subseteq Archs /\ Archs \cap Tags = {}
  BY InputFacts, MultiArchAssumption
<1>3. \A g \in Archs \cup Tags : pc'[g] = IF g = a THEN "failed" ELSE pc[g]
  BY <1>0, <1>1 DEF Kinds, TypeOK
<1>4. Kinds'
  <2>1. pc' \in [Archs \cup Tags -> Goroutine]
    BY <1>0, <1>1, <1>2 DEF Kinds, TypeOK, Goroutine
  <2> QED
    BY <1>0, <1>1, <2>1 DEF Kinds, TypeOK, archs
<1>5. Phases'
  BY <1>0, <1>1, <1>2, <1>3 DEF Phases, Indexed, Early
<1>6. Views'
  BY <1>0, <1>1, <1>2, <1>3 DEF Views, archs
<1>7. Images'
  <2>1. configured' = configured /\ archs' = archs /\ \A b : Expected(b)' = Expected(b)
    BY <1>1 DEF Expected, configured, archs
  <2>2. configured \subseteq archs
    BY <1>0, <1>1 DEF LockedLists, Early
  <2>3. {b \in configured : pc'[b] = "ok"} = {b \in configured : pc[b] = "ok"}
    BY <1>1, <1>2, <1>3, <2>2
  <2> QED
    BY <1>0, <1>1, <1>2, <1>3, <2>1, <2>3 DEF Images
<1> QED
  BY <1>0, <1>1, <1>4, <1>5, <1>6, <1>7, SameCache, SameResolutions, SameLockFile, SameLockedLists,
     SameDates, SameIndex, SamePublication DEF IInv, Late

\* An element appended to a sequence is added to what it holds.
LEMMA AppendToSet ==
  ASSUME NEW T, NEW s \in Seq(T), NEW e
  PROVE  ToSet(Append(s, e)) = ToSet(s) \cup {e}
<1>1. Len(s) \in Nat /\ DOMAIN s = 1..Len(s)
  BY LenProperties
<1>2. s \in Seq(T \cup {e})
  BY <1>1
<1>3. /\ Append(s, e) \in Seq(T \cup {e}) /\ Len(Append(s, e)) = Len(s) + 1
      /\ \A i \in 1..Len(s) : Append(s, e)[i] = s[i]
      /\ Append(s, e)[Len(s) + 1] = e
  BY <1>2, AppendProperties
<1>4. DOMAIN Append(s, e) = 1..(Len(s) + 1)
  BY <1>3, LenProperties
<1>5. \A i \in 1..(Len(s) + 1) : i \in 1..Len(s) \/ i = Len(s) + 1
  BY <1>1
<1>6. (Len(s) + 1) \in 1..(Len(s) + 1) /\ \A i \in 1..Len(s) : i \in 1..(Len(s) + 1)
  BY <1>1
<1> HIDE DEF ToSet
<1>7. \A x : x \in ToSet(Append(s, e)) <=> \E i \in 1..(Len(s) + 1) : Append(s, e)[i] = x
  BY <1>4 DEF ToSet
<1>8. \A x : x \in ToSet(s) <=> \E i \in 1..Len(s) : s[i] = x
  BY <1>1 DEF ToSet
<1> QED
  BY <1>3, <1>5, <1>6, <1>7, <1>8

\* The date of an image is a number, and the one SOURCE_DATE_EPOCH gives.
LEMMA DateFacts ==
  ASSUME IInv, NEW pkgs \in SUBSET Packages
  PROVE  /\ GetBuildDateEpoch(pkgs) \in Nat
         /\ input.env.kind = "date" => GetBuildDateEpoch(pkgs) = input.env.at
<1>1. SourceDateEpoch \in Nat
  BY InputFacts DEF SourceDateEpoch
<1>2. CASE input.env.kind # "unset"
  BY <1>1, <1>2, InputFacts DEF GetBuildDateEpoch, SourceDateEpoch
<1>3. CASE input.env.kind = "unset"
  <2> DEFINE f == [p \in pkgs |-> BuildTime[p]]
             T == {BuildTime[p] : p \in pkgs}
             S == {SourceDateEpoch} \cup T
  <2>1. IsFiniteSet(pkgs) /\ \A p \in pkgs : BuildTime[p] \in Nat
    BY MultiArchAssumption, FS_Subset
  <2>2. IsFiniteSet(T)
    <3>1. f \in Surjection(pkgs, T)
      BY DEF Surjection
    <3> QED
      BY <2>1, <3>1, FS_Surjection
  <2>3. IsFiniteSet(S)
    <3>1. S = T \cup {SourceDateEpoch}
      OBVIOUS
    <3> HIDE DEF T, S
    <3> QED
      BY <2>2, <3>1, FS_AddElement
  <2>4. S \in SUBSET Nat /\ S # {}
    BY <1>1, <2>1
  <2>5. GetBuildDateEpoch(pkgs) = Max(S)
    BY <1>3 DEF GetBuildDateEpoch
  <2> HIDE DEF S
  <2>6. Max(S) \in S
    BY <2>3, <2>4, GreatestExists
  <2> QED
    BY <1>3, <2>4, <2>5, <2>6
<1> QED
  BY <1>2, <1>3

\* An image is collected under the mutex.
LEMMA CollectPreserves ==
  ASSUME IInv, NEW a \in archs, Collect(a)
  PROVE  IInv'
<1> DEFINE img == Image(a, result[a])
<1>0. /\ Kinds /\ Phases /\ Views /\ CacheSound /\ Resolutions /\ LockFile /\ LockedLists
      /\ Images /\ Dates /\ IndexOfAll /\ Publication
  BY DEF IInv
<1>1. /\ UNCHANGED <<input, repo, updates, etags, stage, own, seen, dqCache, dq, lists, lock, locked,
                      result, index, registry, output>>
      /\ stage = "build" /\ pc[a] = "collect" /\ pc' = [pc EXCEPT ![a] = "ok"]
      /\ imgs' = With(imgs, a, img) /\ bde' = Later(bde, img.created)
      /\ digests' = With(digests, img.layer, img.digest) /\ sboms' = Append(sboms, a)
  BY DEF Collect, resolving, publishing, CacheKey
<1>2. a \in Archs /\ archs \subseteq Archs /\ Archs \cap Tags = {} /\ input.buildDate \in Nat
  BY InputFacts, MultiArchAssumption
<1>3. \A g \in Archs \cup Tags : pc'[g] = IF g = a THEN "ok" ELSE pc[g]
  BY <1>0, <1>1 DEF Kinds, TypeOK
<1>4. /\ a \in DOMAIN result /\ a \in configured /\ configured \subseteq archs
      /\ DOMAIN imgs = {b \in configured : pc[b] = "ok"} /\ ToSet(sboms) = DOMAIN imgs
      /\ a \notin DOMAIN imgs
  <2>1. /\ \A b \in archs : pc[b] = "collect" => b \in DOMAIN result \cap configured
        /\ DOMAIN imgs = {b \in configured : pc[b] = "ok"} /\ ToSet(sboms) = DOMAIN imgs
    <3>1. Images /\ stage = "build"
      BY <1>0, <1>1
    <3> QED
      BY <3>1 DEF Images
  <2>2. configured \subseteq archs
    BY <1>0, <1>1 DEF LockedLists, Early
  <2> QED
    BY <1>1, <2>1, <2>2
<1>5. result[a] = Expected(a) /\ result[a] \in SUBSET Packages
  <2>1. result[a] = Expected(a)
    BY <1>0, <1>4 DEF Images
  <2>2. CASE input.lockfile
    BY <1>0, <2>1, <2>2 DEF Expected, InstallablePackagesForArch, LockFile
  <2>3. CASE ~input.lockfile
    <3>1. DOMAIN originals # {} /\ locked # <<>> /\ DOMAIN lists = archs
      BY <1>0, <1>1, <1>4, <2>3 DEF LockedLists, Early
    <3> QED
      BY <1>0, <2>1, <2>3, <3>1 DEF Expected, Resolutions
  <2> QED
    BY <2>1, <2>2, <2>3
<1>6. /\ img.arch = a /\ img.pkgs = Expected(a) /\ img.digest = Gzip(img.layer)
      /\ img.created \in Nat
      /\ input.env.kind = "date" => img.created = input.env.at
  <2>1. /\ img.arch = a /\ img.pkgs = result[a] /\ img.layer = DiffID(a, result[a])
        /\ img.digest = Digest(img.layer) /\ img.created = GetBuildDateEpoch(result[a])
    BY DEF Image
  <2>2. Digest(img.layer) = Gzip(img.layer)
    <3> HIDE DEF img
    <3> QED
      BY <1>0 DEF Digest, CacheKey, Lookup, Images
  <2> HIDE DEF img
  <2> QED
    BY <1>5, <2>1, <2>2, DateFacts
<1> HIDE DEF img
<1>7. /\ DOMAIN imgs' = DOMAIN imgs \cup {a} /\ imgs'[a] = img
      /\ \A b \in DOMAIN imgs : imgs'[b] = imgs[b]
  BY <1>1, <1>4 DEF With
<1>8. /\ bde \in Nat /\ bde' \in Nat /\ bde' \in {bde, img.created}
      /\ bde <= bde' /\ img.created <= bde'
  <2>1. bde \in Nat
    BY <1>0 DEF Kinds, TypeOK
  <2>2. bde' = IF img.created > bde THEN img.created ELSE bde
    BY <1>1 DEF Later
  <2>3. img.created \in Nat
    BY <1>6
  <2> QED
    BY <2>1, <2>2, <2>3
<1>9. Kinds'
  <2>1. pc' \in [Archs \cup Tags -> Goroutine]
    BY <1>0, <1>1, <1>2 DEF Kinds, TypeOK, Goroutine
  <2>2. sboms' \in Seq(Archs \cup {"index"})
    BY <1>0, <1>1, <1>2, AppendProperties DEF Kinds
  <2>3. DOMAIN imgs' \subseteq archs
    BY <1>4, <1>7
  <2> QED
    BY <1>0, <1>1, <1>8, <2>1, <2>2, <2>3 DEF Kinds, TypeOK, archs
<1>10. Phases'
  BY <1>0, <1>1, <1>2, <1>3 DEF Phases, Indexed, Early
<1>11. Views'
  BY <1>0, <1>1, <1>2, <1>3 DEF Views, archs
<1>12. Images'
  <2>1. configured' = configured /\ archs' = archs /\ \A b : Expected(b)' = Expected(b)
    BY <1>1 DEF Expected, configured, archs
  <2>2. DOMAIN imgs' = {b \in configured : pc'[b] = "ok"}
    BY <1>2, <1>3, <1>4, <1>7
  <2>3. ToSet(sboms') = DOMAIN imgs'
    BY <1>0, <1>1, <1>4, <1>7, AppendToSet DEF Kinds
  <2>4. \A b \in archs : /\ pc'[b] = "idle" => b \notin DOMAIN result
                         /\ pc'[b] = "collect" => b \in DOMAIN result \cap configured
    <3>1. \A b \in archs : /\ pc[b] = "idle" => b \notin DOMAIN result
                           /\ pc[b] = "collect" => b \in DOMAIN result \cap configured
      BY <1>0, <1>1 DEF Images
    <3> QED
      BY <1>2, <1>3, <3>1
  <2>5. \A b \in DOMAIN imgs' :
          /\ imgs'[b].arch = b /\ imgs'[b].pkgs = Expected(b)
          /\ imgs'[b].digest = Gzip(imgs'[b].layer)
          /\ imgs'[b].created \in Nat
          /\ input.env.kind = "date" => imgs'[b].created = input.env.at
    <3> SUFFICES ASSUME NEW b \in DOMAIN imgs'
                 PROVE  /\ imgs'[b].arch = b /\ imgs'[b].pkgs = Expected(b)
                        /\ imgs'[b].digest = Gzip(imgs'[b].layer)
                        /\ imgs'[b].created \in Nat
                        /\ input.env.kind = "date" => imgs'[b].created = input.env.at
      OBVIOUS
    <3>1. CASE b = a
      BY <1>6, <1>7, <3>1
    <3>2. CASE b # a
      <4>1. b \in DOMAIN imgs /\ imgs'[b] = imgs[b]
        BY <1>7, <3>2
      <4>2. /\ imgs[b].arch = b /\ imgs[b].pkgs = Expected(b)
            /\ imgs[b].digest = Gzip(imgs[b].layer)
            /\ imgs[b].created \in Nat
            /\ input.env.kind = "date" => imgs[b].created = input.env.at
        BY <1>0, <4>1 DEF Images
      <4> QED
        BY <4>1, <4>2
    <3> QED
      BY <3>1, <3>2
  <2>6. \A d \in DOMAIN digests' : digests'[d] = Gzip(d)
    <3>1. \A d \in DOMAIN digests : digests[d] = Gzip(d)
      BY <1>0 DEF Images
    <3> QED
      BY <1>1, <1>6, <3>1 DEF With
  <2>7. \A b \in DOMAIN result : result[b] = Expected(b)
    BY <1>0 DEF Images
  <2> QED
    BY <1>1, <2>1, <2>2, <2>3, <2>4, <2>5, <2>6, <2>7 DEF Images
<1>13. Dates'
  <2>1. \A b \in DOMAIN imgs : imgs[b].created \in Nat /\ imgs[b].created <= bde
    BY <1>0 DEF Images, Dates
  <2>2. input.buildDate <= bde'
    BY <1>0, <1>2, <1>8 DEF Dates
  <2>3. \A b \in DOMAIN imgs' : imgs'[b].created <= bde'
    BY <1>6, <1>7, <1>8, <2>1
  <2>4. bde' = input.buildDate \/ \E b \in DOMAIN imgs' : bde' = imgs'[b].created
    <3>1. CASE bde' = bde
      BY <1>0, <1>7, <3>1 DEF Dates
    <3>2. CASE bde' = img.created
      BY <1>7, <3>2
    <3> QED
      BY <1>8, <3>1, <3>2
  <2> QED
    BY <1>1, <2>2, <2>3, <2>4 DEF Dates
<1>14. IndexOfAll'
  BY <1>0, <1>1 DEF IndexOfAll, Phases, Early, Indexed
<1>15. Publication'
  BY <1>0, <1>1 DEF Publication, Pushed, Manifests, Late
<1> QED
  BY <1>0, <1>1, <1>9, <1>10, <1>11, <1>12, <1>13, <1>14, <1>15, SameCache, SameResolutions,
     SameLockFile, SameLockedLists DEF IInv

\* The head of a sequence and its tail hold what it holds.
LEMMA HeadAndTail ==
  ASSUME NEW T, NEW s \in Seq(T), s # <<>>
  PROVE  Tail(s) \in Seq(T) /\ ToSet(s) = {Head(s)} \cup ToSet(Tail(s))
<1>1. Len(s) \in Nat \ {0} /\ DOMAIN s = 1..Len(s) /\ Head(s) = s[1]
  BY LenProperties, EmptySeq, HeadTailProperties
<1>2. /\ Tail(s) \in Seq(T) /\ Len(Tail(s)) = Len(s) - 1
      /\ \A i \in 1..Len(Tail(s)) : Tail(s)[i] = s[i + 1]
  BY HeadTailProperties
<1>3. DOMAIN Tail(s) = 1..(Len(s) - 1)
  BY <1>2, LenProperties
<1>4. /\ 1 \in 1..Len(s) /\ \A i \in 1..(Len(s) - 1) : i + 1 \in 1..Len(s)
      /\ \A i \in 1..Len(s) : i = 1 \/ (i - 1 \in 1..(Len(s) - 1) /\ (i - 1) + 1 = i)
  BY <1>1
<1>5. \A x : x \in ToSet(s) <=> \E i \in 1..Len(s) : s[i] = x
  BY <1>1 DEF ToSet
<1>6. \A x : x \in ToSet(Tail(s)) <=> \E i \in 1..(Len(s) - 1) : s[i + 1] = x
  BY <1>2, <1>3 DEF ToSet
<1> HIDE DEF ToSet
<1>7. ASSUME NEW x \in ToSet(s) PROVE x = Head(s) \/ x \in ToSet(Tail(s))
  <2>1. PICK i \in 1..Len(s) : s[i] = x
    BY <1>5
  <2> QED
    BY <1>1, <1>4, <1>6, <2>1
<1>8. Head(s) \in ToSet(s) /\ \A x \in ToSet(Tail(s)) : x \in ToSet(s)
  BY <1>1, <1>4, <1>5, <1>6
<1> QED
  BY <1>2, <1>7, <1>8

\* The index is made of the images in the order of their architectures.
LEMMA GenerateIndexPreserves ==
  ASSUME IInv, GenerateIndex
  PROVE  IInv'
<1>0. /\ Kinds /\ Phases /\ Views /\ CacheSound /\ Resolutions /\ LockFile /\ LockedLists
      /\ Images /\ Dates /\ IndexOfAll /\ Publication
  BY DEF IInv
<1>1. /\ UNCHANGED <<input, repo, updates, etags, own, seen, dqCache, dq, lists, lock, locked,
                      result, imgs, bde, digests, registry, output>>
      /\ stage = "build" /\ pc' = Idle
  BY DEF GenerateIndex, resolving, publishing
<1>2. archs \subseteq Archs /\ archs # {} /\ Archs \cap Tags = {}
  BY InputFacts, MultiArchAssumption
<1>3. CASE ~AllOk(configured)
  <2>1. stage' = "failed" /\ index' = index /\ sboms' = sboms
    BY <1>3 DEF GenerateIndex, MayGenerate
  <2> QED
    BY <1>1, <2>1, FailingPreserves
<1>4. CASE AllOk(configured)
  <2> DEFINE D == DOMAIN imgs
             n == Cardinality(D)
             mf == [i \in DOMAIN Sorted(D) |-> imgs[Sorted(D)[i]]]
  <2>1. /\ index' = [created |-> bde, manifests |-> mf]
        /\ sboms' = Append(sboms, "index") /\ stage' = input.command
    BY <1>4 DEF GenerateIndex, MayGenerate
  <2>2. stage' \in {"build-cmd", "load-cmd", "publish-cmd"}
    BY <2>1, InputFacts
  <2>3. /\ D = configured /\ ToSet(sboms) = D
        /\ configured = IF DOMAIN originals = {} THEN {} ELSE archs
    <3>1. DOMAIN imgs = {b \in configured : pc[b] = "ok"} /\ ToSet(sboms) = DOMAIN imgs
      BY <1>0, <1>1 DEF Images
    <3>2. configured = IF DOMAIN originals = {} THEN {} ELSE archs
      BY <1>0, <1>1 DEF LockedLists, Early
    <3> QED
      BY <1>4, <3>1, <3>2 DEF AllOk
  <2>4. /\ DOMAIN Sorted(D) = 1..n /\ {Sorted(D)[i] : i \in DOMAIN Sorted(D)} = D
        /\ n \in Nat
    <3>1. D \in SUBSET Archs
      BY <1>2, <2>3
    <3> QED
      BY <3>1, SortedFacts, FiniteArchs
  <2>5. /\ Len(mf) = n /\ ToSet(mf) = {imgs[a] : a \in D}
        /\ n = 0 => mf = <<>>
    <3>1. DOMAIN mf = 1..n /\ \A i \in 1..n : mf[i] = imgs[Sorted(D)[i]]
      BY <2>4
    <3>2. mf \in [1..n -> ToSet(mf)]
      BY <3>1 DEF ToSet
    <3>3. ToSet(mf) = {imgs[a] : a \in D}
      <4>1. \A x : x \in ToSet(mf) <=> \E i \in 1..n : imgs[Sorted(D)[i]] = x
        BY <3>1 DEF ToSet
      <4>2. \A a : a \in D <=> \E i \in 1..n : Sorted(D)[i] = a
        BY <2>4
      <4> HIDE DEF mf, D, ToSet
      <4> QED
        BY <4>1, <4>2
    <3> HIDE DEF mf, n
    <3>4. mf \in Seq(ToSet(mf)) /\ Len(mf) = n
      BY <2>4, <3>1, <3>2
    <3> QED
      BY <3>3, <3>4, EmptySeq
  <2> HIDE DEF mf
  <2>6. /\ index'.created = bde /\ index'.manifests = mf
        /\ Manifests' = {imgs[a] : a \in D} /\ (Indexed' <=> mf # <<>>)
    BY <2>1, <2>5 DEF Manifests, Indexed
  <2>7. mf # <<>> => D = archs /\ DOMAIN originals # {}
    <3>1. D = {} => n = 0
      BY FS_EmptySet
    <3> QED
      BY <2>3, <2>5, <3>1
  <2>8. \A g \in Archs \cup Tags : pc'[g] = "idle"
    BY <1>1 DEF Idle
  <2>9. Kinds'
    <3>1. pc' \in [Archs \cup Tags -> Goroutine]
      BY <1>1 DEF Idle, Goroutine
    <3>2. sboms' \in Seq(Archs \cup {"index"})
      BY <1>0, <2>1, AppendProperties DEF Kinds
    <3> QED
      BY <1>0, <1>1, <2>2, <3>1, <3>2 DEF Kinds, TypeOK, archs
  <2>10. Phases'
    BY <1>0, <1>1, <2>1, <2>2, <2>8 DEF Phases, Early
  <2>11. Views'
    BY <1>0, <1>1, <1>2, <2>8 DEF Views, archs
  <2>12. IndexOfAll'
    <3>1. ~input.lockfile => locked # <<>>
      BY <1>0, <1>1 DEF LockedLists
    <3>2. archs' = archs /\ originals' = originals
      BY <1>1 DEF archs, originals
    <3>3. Indexed' => /\ D = archs /\ Manifests' = {imgs[a] : a \in archs}
                      /\ Len(index'.manifests) = Cardinality(archs) /\ index'.created = bde
                      /\ DOMAIN originals # {}
      BY <2>5, <2>6, <2>7
    <3> QED
      BY <1>1, <3>1, <3>2, <3>3 DEF IndexOfAll
  <2>13. Publication'
    <3>1. registry.tags = {} /\ output.sboms = {}
      BY <1>0, <1>1 DEF Phases, Early
    <3>2. ToSet(sboms') = D \cup {"index"}
      BY <1>0, <2>1, <2>3, AppendToSet DEF Kinds
    <3>3. \A m \in Manifests' : m.arch \in archs
      <4>1. \A a \in DOMAIN imgs : imgs[a].arch = a /\ a \in archs
        BY <1>0, <2>3 DEF Images
      <4> QED
        BY <2>6, <4>1
    <3> QED
      BY <1>0, <1>1, <1>2, <2>2, <2>8, <3>1, <3>2, <3>3 DEF Publication
  <2> QED
    BY <1>0, <1>1, <2>2, <2>9, <2>10, <2>11, <2>12, <2>13, SameCache, SameResolutions, SameLockFile,
       SameLockedLists, SameImages, SameDates DEF IInv, Early
<1> QED
  BY <1>3, <1>4

----------------------------------------------------------------------------
(* Publishing                                                              *)

\* The manifests of the index are the images that were collected.
LEMMA ManifestFacts ==
  ASSUME IInv, NEW m \in Manifests
  PROVE  /\ Indexed /\ m.arch \in archs /\ m.arch \in DOMAIN imgs /\ m = imgs[m.arch]
         /\ m.pkgs = Expected(m.arch) /\ m.digest = Gzip(m.layer) /\ m.created \in Nat
         /\ input.env.kind = "date" => m.created = input.env.at
<1>1. Indexed
  BY DEF Manifests, ToSet, Indexed
<1>2. PICK a \in archs : m = imgs[a]
  BY <1>1 DEF IInv, IndexOfAll
<1>3. a \in DOMAIN imgs
  BY <1>1 DEF IInv, IndexOfAll
<1>4. /\ imgs[a].arch = a /\ imgs[a].pkgs = Expected(a) /\ imgs[a].digest = Gzip(imgs[a].layer)
      /\ imgs[a].created \in Nat
      /\ input.env.kind = "date" => imgs[a].created = input.env.at
  BY <1>3 DEF IInv, Images
<1> QED
  BY <1>1, <1>2, <1>3, <1>4

\* Once there is an index, only the registry and the output change, and with
\* them what is left to push and to move.
LEMMA PublishingPreserves ==
  ASSUME IInv, stage \in Late, pc' \in [Archs \cup Tags -> Goroutine],
         \A g \in Archs \cup Tags : pc'[g] \in {pc[g], "ok", "failed"},
         \/ stage' \in {stage, "sboms", "done", "failed"}
         \/ stage' = "tags" /\ stage = "publish-cmd",
         sboms' \in Seq(Archs \cup {"index"}), Publication',
         UNCHANGED <<input, repo, updates, etags, own, seen, dqCache, dq, lists, lock, locked,
                     result, imgs, bde, digests, index>>
  PROVE  IInv'
<1>0. /\ Kinds /\ Phases /\ Views /\ CacheSound /\ Resolutions /\ LockFile /\ LockedLists
      /\ Images /\ Dates /\ IndexOfAll /\ Publication
  BY DEF IInv
<1>1. \A g \in Archs \cup Tags : pc'[g] \notin {"siblings", "collect"}
  BY <1>0 DEF Phases, Late
<1>2. archs \subseteq Archs
  BY InputFacts
<1>3. Kinds'
  BY <1>0 DEF Kinds, TypeOK, archs, Late
<1>4. Phases'
  BY <1>0, <1>1 DEF Phases, Late, Early
<1>5. Views'
  BY <1>0, <1>1, <1>2 DEF Views, archs
<1>6. Resolutions' /\ LockFile' /\ LockedLists' /\ Images'
  BY <1>0, SameResolutions, SameLockFile, SameLockedLists, SameImages DEF Late, Early
<1> QED
  BY <1>0, <1>3, <1>4, <1>5, <1>6, SameCache, SameDates, SameIndex DEF IInv

\* The steps of the command itself after the index was made.
LEMMA OutputPreserves ==
  ASSUME IInv, WriteOutput \/ LoadIndex \/ MoveSBOM
  PROVE  IInv'
<1>0. Kinds /\ Phases /\ Publication
  BY DEF IInv
<1>1. pc' = pc /\ pc' \in [Archs \cup Tags -> Goroutine]
  BY <1>0 DEF WriteOutput, LoadIndex, MoveSBOM, Kinds, TypeOK
<1>2. CASE WriteOutput
  <2>1. /\ UNCHANGED <<input, repo, updates, etags, own, seen, dqCache, dq, lists, lock, locked,
                        result, imgs, bde, sboms, digests, index, registry>>
        /\ stage = "build-cmd" /\ stage' = "sboms"
        /\ output' = [output EXCEPT !.images = Manifests]
    BY <1>2 DEF WriteOutput, resolving, building
  <2>2. output'.sboms = output.sboms /\ DOMAIN output' = DOMAIN output
    BY <1>0, <2>1 DEF Publication
  <2>3. input.command = "build-cmd"
    BY <1>0, <2>1 DEF Phases
  <2>4. Publication'
    BY <1>0, <2>1, <2>2, <2>3 DEF Publication, Pushed, Manifests, Late
  <2>5. sboms' \in Seq(Archs \cup {"index"})
    BY <1>0, <2>1 DEF Kinds
  <2> QED
    BY <1>1, <2>1, <2>4, <2>5, PublishingPreserves DEF Late
<1>3. CASE LoadIndex
  <2>1. /\ UNCHANGED <<input, repo, updates, etags, own, seen, dqCache, dq, lists, lock, locked,
                        result, imgs, bde, sboms, digests, index, registry>>
        /\ stage = "load-cmd"
    BY <1>3 DEF LoadIndex, resolving, building
  <2>2. \/ stage' = "failed" /\ output' = output
        \/ stage' = "done" /\ \E x : output' = [output EXCEPT !.images = x]
    BY <1>3 DEF LoadIndex
  <2>3. CASE stage' = "failed" /\ output' = output
    BY <1>1, <2>1, <2>3, FailingPreserves
  <2>4. CASE stage' = "done" /\ \E x : output' = [output EXCEPT !.images = x]
    <3>1. output'.sboms = output.sboms /\ DOMAIN output' = DOMAIN output
      BY <1>0, <2>4 DEF Publication
    <3>2. input.command = "load-cmd"
      BY <1>0, <2>1 DEF Phases
    <3>3. Publication'
      BY <1>0, <2>1, <2>4, <3>1, <3>2 DEF Publication, Pushed, Manifests, Late
    <3>4. sboms' \in Seq(Archs \cup {"index"})
      BY <1>0, <2>1 DEF Kinds
    <3> QED
      BY <1>1, <2>1, <2>4, <3>3, <3>4, PublishingPreserves DEF Late
  <2> QED
    BY <2>2, <2>3, <2>4
<1>4. CASE MoveSBOM
  <2>1. /\ UNCHANGED <<input, repo, updates, etags, own, seen, dqCache, dq, lists, lock, locked,
                        result, imgs, bde, digests, index, registry>>
        /\ stage = "sboms" /\ sboms \in Seq(Archs \cup {"index"})
    BY <1>0, <1>4 DEF MoveSBOM, resolving, Kinds
  <2>2. CASE sboms = <<>>
    <3>1. stage' = "done" /\ sboms' = sboms /\ output' = output
      BY <1>4, <2>2 DEF MoveSBOM
    <3>2. Publication'
      BY <1>0, <2>1, <2>2, <3>1 DEF Publication, Pushed, Manifests, Late
    <3> QED
      BY <1>1, <2>1, <3>1, <3>2, PublishingPreserves DEF Late
  <2>3. CASE sboms # <<>>
    <3>1. /\ output' = [output EXCEPT !.sboms = @ \cup {Head(sboms)}]
          /\ sboms' = Tail(sboms) /\ stage' = stage
      BY <1>4, <2>3 DEF MoveSBOM
    <3>2. output'.sboms = output.sboms \cup {Head(sboms)} /\ DOMAIN output' = DOMAIN output
      BY <1>0, <3>1 DEF Publication
    <3>3. /\ sboms' \in Seq(Archs \cup {"index"})
          /\ ToSet(sboms) = {Head(sboms)} \cup ToSet(sboms')
      BY <2>1, <2>3, <3>1, HeadAndTail
    <3>4. output'.sboms \cup ToSet(sboms') = output.sboms \cup ToSet(sboms)
      BY <3>2, <3>3
    <3>5. Publication'
      BY <1>0, <2>1, <3>1, <3>2, <3>4 DEF Publication, Pushed, Manifests, Late
    <3> QED
      BY <1>1, <2>1, <3>1, <3>3, <3>5, PublishingPreserves DEF Late
  <2> QED
    BY <2>2, <2>3
<1> QED
  BY <1>2, <1>3, <1>4

\* An image is pushed, or its push fails.
LEMMA PushImagePreserves ==
  ASSUME IInv, NEW m \in Manifests, PushImage(m) \/ PushImageFails(m)
  PROVE  IInv'
<1>0. Kinds /\ Phases /\ Publication
  BY DEF IInv
<1>1. /\ UNCHANGED <<input, repo, updates, etags, stage, own, seen, dqCache, dq, lists, lock, locked,
                      result, imgs, bde, sboms, digests, index, output>>
      /\ stage = "publish-cmd"
  BY DEF PushImage, PushImageFails, resolving, building
<1>2. /\ m.arch \in archs /\ archs \subseteq Archs /\ Archs \cap Tags = {}
      /\ \A n \in Manifests : n.arch \in archs /\ (n.arch = m.arch => n = m)
  <2>1. m.arch \in archs /\ m = imgs[m.arch]
    BY ManifestFacts
  <2>2. \A n \in Manifests : n.arch \in archs /\ n = imgs[n.arch]
    BY ManifestFacts
  <2> QED
    BY <2>1, <2>2, InputFacts, MultiArchAssumption
<1>3. /\ pc' \in [Archs \cup Tags -> Goroutine]
      /\ \A g \in Archs \cup Tags : g # m.arch => pc'[g] = pc[g]
      /\ PushImage(m) => pc'[m.arch] = "ok"
      /\ PushImageFails(m) => pc'[m.arch] = "failed"
  BY <1>0, <1>2 DEF Kinds, TypeOK, Goroutine, PushImage, PushImageFails
<1>4. /\ DOMAIN registry' = DOMAIN registry /\ registry'.tags = registry.tags
      /\ registry.images \subseteq registry'.images /\ registry.blobs \subseteq registry'.blobs
      /\ PushImage(m) => m \in registry'.images /\ Gzip(m.layer) \in registry'.blobs
  <2>1. DOMAIN registry = {"images", "blobs", "tags"}
    BY <1>0 DEF Publication
  <2>2. CASE PushImage(m)
    <3>1. registry' = [registry EXCEPT !.blobs = @ \cup {Gzip(m.layer)}, !.images = @ \cup {m}]
      BY <2>2 DEF PushImage
    <3> QED
      BY <2>1, <3>1
  <2>3. CASE PushImageFails(m) /\ ~PushImage(m)
    <3>1. PICK sent : registry' = [registry EXCEPT !.blobs = @ \cup sent]
      BY <2>3 DEF PushImageFails
    <3> QED
      BY <2>1, <2>3, <3>1
  <2> QED
    BY <2>2, <2>3
<1>5. Manifests' = Manifests /\ \A n \in Manifests : Pushed(n) => Pushed(n)'
  BY <1>1, <1>4 DEF Manifests, Pushed
<1>6. \A n \in Manifests : pc'[n.arch] = "ok" => Pushed(n)'
  <2> SUFFICES ASSUME NEW n \in Manifests, pc'[n.arch] = "ok" PROVE Pushed(n)'
    OBVIOUS
  <2>1. CASE n.arch = m.arch
    <3>1. n = m /\ PushImage(m)
      BY <1>2, <1>3, <2>1
    <3> QED
      BY <1>4, <3>1 DEF Pushed
  <2>2. CASE n.arch # m.arch
    <3>1. pc[n.arch] = "ok"
      BY <1>2, <1>3, <2>2
    <3> QED
      BY <1>0, <1>1, <1>5, <3>1 DEF Publication
  <2> QED
    BY <2>1, <2>2
<1>7. \A t \in Tags : pc'[t] = pc[t]
  BY <1>2, <1>3
<1>8. Publication'
  <2>1. registry'.tags = {} /\ \A t \in Tags : pc'[t] = "idle"
    BY <1>0, <1>1, <1>4, <1>7 DEF Publication
  <2> QED
    BY <1>0, <1>1, <1>4, <1>5, <1>6, <2>1 DEF Publication, Late
<1>9. sboms' \in Seq(Archs \cup {"index"})
  BY <1>0, <1>1 DEF Kinds
<1>10. \A g \in Archs \cup Tags : pc'[g] \in {pc[g], "ok", "failed"}
  BY <1>3
<1> QED
  BY <1>1, <1>3, <1>8, <1>9, <1>10, PublishingPreserves DEF Late

\* The tags are only pushed once every image is in the registry.
LEMMA StartTagsPreserves ==
  ASSUME IInv, StartTags
  PROVE  IInv'
<1>0. Kinds /\ Phases /\ Publication
  BY DEF IInv
<1>1. /\ UNCHANGED <<input, repo, updates, etags, pc, own, seen, dqCache, dq, lists, lock, locked,
                      result, imgs, bde, sboms, digests, index, registry, output>>
      /\ stage = "publish-cmd"
  BY DEF StartTags, resolving, building, publishing
<1>2. CASE stage' = "failed"
  BY <1>1, <1>2, FailingPreserves
<1>3. CASE stage' # "failed"
  <2>1. stage' = "tags" /\ \A m \in Manifests : pc[m.arch] = "ok"
    BY <1>3 DEF StartTags, ImagesPushed, Ended
  <2>2. \A m \in Manifests : Pushed(m)
    BY <1>0, <1>1, <2>1 DEF Publication
  <2>3. Publication'
    BY <1>0, <1>1, <2>1, <2>2 DEF Publication, Pushed, Manifests, Late
  <2>4. pc' \in [Archs \cup Tags -> Goroutine] /\ sboms' \in Seq(Archs \cup {"index"})
    BY <1>0, <1>1 DEF Kinds, TypeOK
  <2> QED
    BY <1>1, <2>1, <2>3, <2>4, PublishingPreserves DEF Late
<1> QED
  BY <1>2, <1>3

\* A tag is pushed, or its push fails.
LEMMA PushTagPreserves ==
  ASSUME IInv, NEW t \in Tags, PushTag(t) \/ PushTagFails(t)
  PROVE  IInv'
<1>0. Kinds /\ Phases /\ Publication
  BY DEF IInv
<1>1. /\ UNCHANGED <<input, repo, updates, etags, stage, own, seen, dqCache, dq, lists, lock, locked,
                      result, imgs, bde, sboms, digests, index, output>>
      /\ stage = "tags"
  BY DEF PushTag, PushTagFails, resolving, building, publishing
<1>2. /\ pc' \in [Archs \cup Tags -> Goroutine]
      /\ \A g \in Archs \cup Tags : g # t => pc'[g] = pc[g]
      /\ PushTag(t) => pc'[t] = "ok"
      /\ PushTagFails(t) => pc'[t] = "failed"
  BY <1>0 DEF Kinds, TypeOK, Goroutine, PushTag, PushTagFails
<1>3. /\ DOMAIN registry' = DOMAIN registry
      /\ registry'.images = registry.images /\ registry'.blobs = registry.blobs
      /\ registry'.tags \in {registry.tags, registry.tags \cup {t}}
      /\ PushTag(t) => t \in registry'.tags
  <2>1. DOMAIN registry = {"images", "blobs", "tags"}
    BY <1>0 DEF Publication
  <2>2. CASE PushTag(t)
    <3>1. registry' = [registry EXCEPT !.tags = @ \cup {t}]
      BY <2>2 DEF PushTag
    <3> QED
      BY <2>1, <3>1
  <2>3. CASE PushTagFails(t) /\ ~PushTag(t)
    BY <2>3 DEF PushTagFails, publishing
  <2> QED
    BY <2>2, <2>3
<1>4. \A u \in Tags : pc'[u] = "ok" => u \in registry'.tags
  <2>1. \A u \in Tags : pc[u] = "ok" => u \in registry.tags
    BY <1>0, <1>1 DEF Publication
  <2> QED
    BY <1>2, <1>3, <2>1
<1>5. Manifests' = Manifests /\ \A m \in Manifests : Pushed(m)'
  BY <1>0, <1>1, <1>3 DEF Manifests, Pushed, Publication
<1>6. Publication'
  BY <1>0, <1>1, <1>3, <1>4, <1>5 DEF Publication, Late
<1>7. sboms' \in Seq(Archs \cup {"index"})
  BY <1>0, <1>1 DEF Kinds
<1>8. \A g \in Archs \cup Tags : pc'[g] \in {pc[g], "ok", "failed"}
  BY <1>2
<1> QED
  BY <1>1, <1>2, <1>6, <1>7, <1>8, PublishingPreserves DEF Late

\* The command goes on once every tag was pushed.
LEMMA PublishedPreserves ==
  ASSUME IInv, Published
  PROVE  IInv'
<1>0. Kinds /\ Phases /\ Publication
  BY DEF IInv
<1>1. /\ UNCHANGED <<input, repo, updates, etags, pc, own, seen, dqCache, dq, lists, lock, locked,
                      result, imgs, bde, sboms, digests, index, registry, output>>
      /\ stage = "tags"
  BY DEF Published, resolving, building, publishing
<1>2. CASE stage' = "failed"
  BY <1>1, <1>2, FailingPreserves
<1>3. CASE stage' # "failed"
  <2>1. stage' = "sboms" /\ \A t \in Tags : pc[t] = "ok"
    BY <1>3 DEF Published, AllOk
  <2>2. registry.tags = Tags
    BY <1>0, <1>1, <2>1 DEF Publication
  <2>3. Publication'
    BY <1>0, <1>1, <2>1, <2>2 DEF Publication, Pushed, Manifests, Late
  <2>4. pc' \in [Archs \cup Tags -> Goroutine] /\ sboms' \in Seq(Archs \cup {"index"})
    BY <1>0, <1>1 DEF Kinds, TypeOK
  <2> QED
    BY <1>1, <2>1, <2>3, <2>4, PublishingPreserves DEF Late
<1> QED
  BY <1>2, <1>3

\* Nothing happens.
LEMMA StutteringPreserves ==
  ASSUME IInv, UNCHANGED vars
  PROVE  IInv'
<1>0. /\ Kinds /\ Phases /\ Views /\ CacheSound /\ Resolutions /\ LockFile /\ LockedLists
      /\ Images /\ Dates /\ IndexOfAll /\ Publication
  BY DEF IInv
<1>1. UNCHANGED <<input, repo, updates, etags, stage, pc, own, seen, dqCache, dq, lists, lock, locked,
                  result, imgs, bde, sboms, digests, index, registry, output>>
  BY DEF vars
<1>2. Phases'
  BY <1>0, <1>1, SamePhases DEF Phases
<1> QED
  BY <1>0, <1>1, <1>2, SameKinds, SameViews, SameCache, SameResolutions, SameLockFile,
     SameLockedLists, SameImages, SameDates, SameIndex, SamePublication DEF IInv

\* Every step preserves the invariant.
LEMMA StepPreserves == IInv /\ [Next]_vars => IInv'
<1> SUFFICES ASSUME IInv, [Next]_vars PROVE IInv'
  OBVIOUS
<1>1. ASSUME NEW a \in archs, LockArchFails(a) \/ CommandFails PROVE IInv'
  <2>1. /\ UNCHANGED <<input, repo, updates, etags, pc, own, seen, dqCache, dq, lists, lock, locked,
                        result, imgs, bde, sboms, digests, index, registry, output>>
        /\ stage' = "failed" /\ stage \notin {"resolve", "build"}
    BY <1>1 DEF LockArchFails, CommandFails, resolving, building, publishing
  <2> QED
    BY <2>1, FailingPreserves
<1>2. ASSUME NEW a \in archs,
             \/ LockArch(a) \/ LockArchFails(a) \/ FetchOwn(a)
             \/ \E b \in archs : FetchSibling(a, b)
             \/ Solve(a) \/ ResolveFails(a) \/ Install(a) \/ Collect(a) \/ BuildFails(a)
             \/ Update(a)
      PROVE  IInv'
  BY <1>1, <1>2, LockArchPreserves, FetchOwnPreserves, FetchSiblingPreserves, SolvePreserves,
     ResolveFailsPreserves, InstallPreserves, CollectPreserves, BuildFailsPreserves, UpdatePreserves
<1>3. ASSUME \/ \E m \in Manifests : PushImage(m) \/ PushImageFails(m)
             \/ \E t \in Tags : PushTag(t) \/ PushTagFails(t)
             \/ StartTags \/ Published \/ WriteOutput \/ LoadIndex \/ MoveSBOM
      PROVE  IInv'
  BY <1>3, PushImagePreserves, PushTagPreserves, StartTagsPreserves, PublishedPreserves,
     OutputPreserves
<1>4. ASSUME SaveToFile \/ ReadLockfile \/ Unify \/ GenerateIndex \/ CommandFails PROVE IInv'
  <2>1. \E a \in archs : TRUE
    BY InputFacts
  <2> QED
    BY <1>1, <1>4, <2>1, SaveToFilePreserves, ReadLockfilePreserves, UnifyPreserves,
       GenerateIndexPreserves
<1> QED
  BY <1>2, <1>3, <1>4, StutteringPreserves DEF Next, Step, Environment

----------------------------------------------------------------------------
(* The theorems                                                            *)

\* The invariant holds in every state a command can reach.
THEOREM InvariantHolds == Spec => []IInv
<1>1. Init => IInv
  BY InitEstablishes
<1>2. IInv /\ [Next]_vars => IInv'
  BY StepPreserves
<1> QED
  BY <1>1, <1>2, PTL DEF Spec

\* Whatever the repositories do meanwhile, the architectures are resolved over
\* one view of the indexes (with an etag cache), to packages no other one
\* lacks, and unified the same in any order (BuildPackageLists, unify).
THEOREM ResolvedAsOne == Spec => []ResolvedTogether
<1>1. IInv => ResolvedTogether
  <2> SUFFICES ASSUME IInv PROVE ResolvedTogether
    OBVIOUS
  <2>1. OneView
    <3> SUFFICES ASSUME input.etagCache, NEW a \in archs, NEW b \in archs, NEW c \in DOMAIN seen[a]
                 PROVE  /\ c \in DOMAIN seen[b] => seen[a][c] = seen[b][c]
                        /\ pc[c] = "siblings" => own[c] = seen[a][c]
      BY DEF OneView
    <3>1. c \in archs
      BY InputFacts DEF IInv, Kinds
    <3> QED
      BY <3>1 DEF IInv, Views
  <2> QED
    BY <2>1 DEF IInv, Kinds, Resolutions, LockedLists, ResolvedTogether
<1> QED
  BY <1>1, InvariantHolds, PTL

\* The index is of the images of all architectures, each with what was resolved
\* or locked for it, at one version where the same was asked for, and dated by
\* the latest of them in whatever order they were finished (buildImageComponents).
THEOREM IndexIsAsResolved == Spec => []IndexAsResolved
<1>1. IInv => IndexAsResolved
  <2> SUFFICES ASSUME IInv PROVE IndexAsResolved
    OBVIOUS
  <2>0. \A m \in Manifests :
          /\ Indexed /\ m.arch \in archs /\ m.arch \in DOMAIN imgs /\ m = imgs[m.arch]
          /\ m.pkgs = Expected(m.arch) /\ m.created \in Nat
          /\ input.env.kind = "date" => m.created = input.env.at
    BY ManifestFacts
  <2>1. Indexed => /\ DOMAIN imgs = archs /\ Manifests = {imgs[a] : a \in archs}
                   /\ Len(index.manifests) = Cardinality(archs) /\ index.created = bde
                   /\ ~input.lockfile => locked # <<>> /\ DOMAIN originals # {}
    BY DEF IInv, IndexOfAll
  <2>2. AllArchsOrNone
    <3>1. \A a \in DOMAIN imgs : imgs[a].arch = a
      BY DEF IInv, Images
    <3>2. ASSUME Indexed PROVE {m.arch : m \in Manifests} = archs
      <4>1. \A a \in archs : imgs[a] \in Manifests /\ imgs[a].arch = a
        BY <2>1, <3>1, <3>2
      <4> QED
        BY <2>0, <4>1
    <3> QED
      BY <2>1, <3>2 DEF AllArchsOrNone
  <2>3. BuiltAsLocked
    BY <2>0 DEF BuiltAsLocked, Expected, InstallablePackagesForArch
  <2>4. SameVersionEverywhere
    <3> SUFFICES ASSUME Indexed, ~input.lockfile, NEW n \in DOMAIN originals, ~Virtual(n)
                 PROVE  \E v \in {p.version : p \in Packages} : \A m \in Manifests :
                          \E p \in m.pkgs : p.name = n /\ p.version = v
      BY DEF SameVersionEverywhere
    <3>1. InCommon(n)
      BY <2>1 DEF IInv, LockedLists
    <3>2. PICK v \in {p.version : p \in Packages} : \A a \in archs :
            \E p \in lists[a] : p.name = n /\ p.version = v
      BY <3>1 DEF InCommon
    <3>3. \A m \in Manifests : m.arch \in archs /\ m.pkgs = lists[m.arch]
      BY <2>0 DEF Expected
    <3> QED
      BY <3>2, <3>3
  <2>5. DatedByContents
    <3> SUFFICES ASSUME Indexed
                 PROVE  /\ index.created = Max({input.buildDate} \cup {m.created : m \in Manifests})
                        /\ (input.env.kind = "date" /\ input.buildDate <= input.env.at) =>
                             \A m \in Manifests : m.created = input.env.at
                                                  /\ index.created = input.env.at
      BY DEF DatedByContents
    <3> DEFINE S == {input.buildDate} \cup {m.created : m \in Manifests}
    <3>1. S \subseteq Nat /\ input.buildDate \in Nat /\ bde \in Nat
      BY <2>0, InputFacts DEF IInv, Kinds, TypeOK
    <3>2. bde \in S /\ \A x \in S : x <= bde
      <4>1. \A a \in archs : imgs[a] \in Manifests
        BY <2>1
      <4>2. bde = input.buildDate \/ \E a \in archs : bde = imgs[a].created
        BY <2>1 DEF IInv, Dates
      <4>3. \A m \in Manifests : m.created <= bde
        BY <2>0 DEF IInv, Dates
      <4>4. input.buildDate <= bde
        BY DEF IInv, Dates
      <4> QED
        BY <4>1, <4>2, <4>3, <4>4
    <3>3. \A x \in S : (\A y \in S : x >= y) => x = bde
      <4> HIDE DEF S
      <4> SUFFICES ASSUME NEW x \in S, \A y \in S : x >= y PROVE x = bde
        OBVIOUS
      <4>1. x >= bde /\ x <= bde /\ x \in Nat
        BY <3>1, <3>2
      <4> QED
        BY <3>1, <4>1
    <3>4. Max(S) = bde
      <4>1. \E x \in S : \A y \in S : x >= y
        BY <3>1, <3>2
      <4> HIDE DEF S
      <4>2. Max(S) \in S /\ \A y \in S : Max(S) >= y
        BY <4>1 DEF Max
      <4> QED
        BY <3>3, <4>2
    <3>5. ASSUME input.env.kind = "date", input.buildDate <= input.env.at, NEW m \in Manifests
          PROVE  m.created = input.env.at /\ bde = input.env.at
      <4>1. \A x \in S : x = input.buildDate \/ x = input.env.at
        BY <2>0, <3>5
      <4>2. input.env.at \in S /\ input.env.at \in Nat
        BY <2>0, <3>5, InputFacts
      <4> HIDE DEF S
      <4>3. bde = input.env.at
        BY <3>1, <3>2, <3>5, <4>1, <4>2
      <4> QED
        BY <2>0, <3>5, <4>3
    <3> QED
      BY <2>1, <3>4, <3>5
  <2> QED
    BY <2>2, <2>3, <2>4, <2>5 DEF IndexAsResolved
<1> QED
  BY <1>1, InvariantHolds, PTL

\* A tag names an index whose images and layers are all in the registry, and a
\* command that succeeds pushed every tag and moved every SBOM, whichever pushes
\* failed or overtook one another (PublishIndex, PublishCmd).
THEOREM PublicationIsWhole == Spec => []PublishedWhole
<1>1. IInv => PublishedWhole
  <2> SUFFICES ASSUME IInv PROVE PublishedWhole
    OBVIOUS
  <2>1. TagsComplete
    <3> SUFFICES ASSUME registry.tags # {}, NEW m \in Manifests
                 PROVE  /\ m \in registry.images /\ m.digest = Gzip(m.layer)
                        /\ m.digest \in registry.blobs
      BY DEF TagsComplete
    <3>1. Pushed(m)
      BY DEF IInv, Publication
    <3>2. m.digest = Gzip(m.layer)
      BY ManifestFacts
    <3> QED
      BY <3>1, <3>2 DEF Pushed
  <2>2. DoneIsComplete
    <3>1. ToSet(<<>>) = {}
      BY DEF ToSet
    <3> QED
      BY <3>1 DEF IInv, Publication, DoneIsComplete, Late
  <2> QED
    BY <2>1, <2>2 DEF PublishedWhole
<1> QED
  BY <1>1, InvariantHolds, PTL

============================================================================
