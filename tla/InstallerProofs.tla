-------------------------- MODULE InstallerProofs ---------------------------
(***************************************************************************)
(* Theorems about Installer, for any packages, files at the path, replaces *)
(* relations, failures, number of jobs and number of calls: fetches in any *)
(* order leave what installing one package after the other leaves, and     *)
(* after a call that succeeds the database and the image describe each     *)
(* other.                                                                  *)
(***************************************************************************)
EXTENDS Installer, FiniteSetTheorems, NaturalsInduction, TLAPS

\* Packages 1..Past have had their files installed, in this call or before.
Past == IF inst = "scripts" THEN next ELSE next - 1

\* The package's entry would change nothing at the path.
Lost(p) == Verdict(p) \in {"none", "keep", "same"}

\* The installing goroutine has not met an error.
Sound == inst \in {"select", "files", "scripts", "ended"}

\* Where the installing goroutine is follows from where the caller is.
Phases ==
  /\ InstallerRuns => pc \in {"spawn", "wait"}
  /\ pc \in {"spawn", "wait"} => rec = 1
  /\ inst \in {"files", "scripts"} => next \in infos /\ next <= N
  /\ inst = "files" => ~Installed(next)
  /\ inst = "ended" => next = N + 1
  /\ pc = "record" => inst = "ended"
  /\ result = "ok" => inst = "ended" /\ pc = "idle" /\ \A p \in Packages : Installed(p)
  /\ call = 0 => inst = "off" /\ pc = "idle" /\ node = base /\ by = NoOne /\ db = {}
  /\ call # 0 => inst # "off"
  /\ call = 1 /\ InstallerRuns => db = {}

\* Every package that was passed is installed, or going to be recorded.
Covered ==
  /\ inst # "off" => \A p \in 1..(next - 1) : Installed(p) \/ p \in infos
  /\ inst = "select" => infos \subseteq 1..(next - 1)
  /\ infos \subseteq 1..next
  /\ \A p \in infos : p >= rec => ~Installed(p)
  /\ pc = "record" => \A p \in 1..(rec - 1) : Installed(p)

\* An aborted APK has a package that no call will ever install.
Abandoned ==
  /\ inst = "broken" => aborted
  /\ aborted =>
       /\ inst \notin {"scripts", "ended"}
       /\ \E p \in Packages : ~Installed(p) /\ (inst \in {"select", "files"} => p >= next)

\* Whose the entry at the path is, and whom installedFiles credits with it.
Credited ==
  /\ base \in Entries \cup {Nothing}
  /\ by[1] <= call
  /\ node = Nothing => by = NoOne
  /\ by = NoOne => owner = NoOne /\ node = base
  /\ by # NoOne => node = ships[Name(by)] /\ node # Nothing
  /\ by # NoOne /\ node.kind = "reg" => owner = by
  /\ ~lazy /\ by # NoOne /\ node.kind = "sym" => owner = NoOne

\* What this call has listed: packages that ship something, which is what is
\* there, or is somebody's.
ListedRight ==
  /\ \A p \in listed : ships[p] # Nothing
  /\ node = Nothing => listed = {}
  /\ by = NoOne => \A p \in listed : ships[p] = node
  /\ ~lazy /\ by # NoOne /\ node.kind = "sym" => \A p \in listed : by = Instance(call, p)

\* A package that was installed in this call before the entry at the path was
\* written was then overwritten; one installed later left the entry alone.
Outcome ==
  Sound /\ pc # "idle" => \A p \in infos :
    p <= Past => Lost(p) \/ (by[1] = call /\ Name(by) >= p)

\* A record that lists the path is about what is there, and nothing that is
\* still to be installed can change it.
Settled ==
  \A r \in db : r.has # Nothing =>
    /\ r.has = node
    /\ by # NoOne => Name(by) = r.pkg
    /\ \A p \in Packages : ~Installed(p) => Lost(p)

\* As long as no call failed but in installing files, the entry at the path is
\* recorded, or its package is listed and yet to be recorded.
Owed ==
  ~unclean /\ ~aborted /\ by # NoOne =>
    \/ \E r \in db : r.has = node
    \/ /\ pc # "idle"
       /\ by = Instance(call, Name(by)) /\ Name(by) \in listed /\ ~Installed(Name(by))

\* In the first call the path holds what the packages so far leave there when
\* they are installed one after the other.
InTurnSoFar ==
  call = 1 /\ Sound =>
    /\ Sequentially[Past].ok
    /\ node = Sequentially[Past].what
    /\ by = IF Sequentially[Past].from = 0 THEN NoOne ELSE Instance(1, Sequentially[Past].from)

\* The records, where no symlinks go to a WriteHeaderer.
Bookkeeping == ~LazyLinks => Settled /\ Owed

\* What the records say of the path once every package has one.
Described ==
  /\ \A r \in db : r.has \in {Nothing, Claimed} \/ (LinkOver /\ owner = NoOne)
  /\ by # NoOne /\ (LinkOver => owner # NoOne) =>
       \A r, s \in db : r.has # Nothing /\ s.has # Nothing => r.pkg = s.pkg
  /\ by # NoOne => \E r \in db : r.has = Claimed

\* Before, one call has put there and credited what is at the path, and the
\* records so far are made from what it credits now.
Underway ==
  /\ pc = "idle" => call = 0
  /\ pc # "record" => db = {}
  /\ by # NoOne => by = Instance(call, Name(by)) /\ Name(by) \in listed
  /\ owner # NoOne => owner = Instance(call, Name(owner)) /\ Name(owner) \in listed
  /\ \A r \in db : r.has = Recorded(r.pkg)

\* The records where symlinks do: as long as no call failed, one call makes
\* them all, since it records no package before all are installed.
Linked ==
  LazyLinks /\ ~unclean /\ ~aborted =>
    IF \A p \in Packages : Installed(p) THEN Described ELSE Underway

IInv ==
  /\ TypeOK /\ Phases /\ Covered /\ Abandoned /\ Credited
  /\ Outcome /\ InTurnSoFar
  /\ ListedRight /\ Bookkeeping /\ Linked

-----------------------------------------------------------------------------
(***************************************************************************)
(* The operators.                                                          *)
(***************************************************************************)

\* A set of numbers that has 0 and, with each number below n, the next one,
\* has all numbers up to n.
LEMMA UpTo ==
  ASSUME NEW n \in Nat, NEW S, 0 \in S, \A k \in 0..(n - 1) : k \in S => k + 1 \in S
  PROVE  n \in S
<1> DEFINE Missing == {k \in 0..n : k \notin S}
           R == {q \in Nat \X Nat : q[1] < q[2]}
<1>1. IsWellFoundedOn(R, Nat)
  <2>1. OpToRel(<, Nat) = R
    BY DEF OpToRel
  <2> QED
    BY <2>1, NatLessThanWellFounded
<1>2. ASSUME Missing # {} PROVE FALSE
  <2>1. Missing \subseteq Nat
    OBVIOUS
  <2>2. PICK k \in Missing : \A j \in Missing : ~(<<j, k>> \in R)
    <3> HIDE DEF R, Missing
    <3> QED
      BY <1>1, <1>2, <2>1, WFMin
  <2>3. k \in 0..n /\ k \notin S /\ k # 0
    BY <2>2
  <2>4. k - 1 \in 0..(n - 1) /\ k - 1 \in 0..n /\ (k - 1) + 1 = k
    BY <2>3
  <2>5. k - 1 \in Missing
    BY <2>3, <2>4
  <2>6. <<k - 1, k>> \in R
    <3>1. <<k - 1, k>> \in Nat \X Nat /\ <<k - 1, k>>[1] = k - 1 /\ <<k - 1, k>>[2] = k
      BY <2>3, <2>4
    <3> QED
      BY <2>3, <3>1
  <2> QED
    BY <2>2, <2>5, <2>6
<1> QED
  BY <1>2

\* InTurn is what its recursion says: it starts with what was there, and each
\* package takes its turn on what the ones before it left.
LEMMA InTurnUnfolds ==
  ASSUME NEW was, NEW shipped, NEW origins, NEW replacing, NEW n \in 0..N
  PROVE  InTurn(was, shipped, origins, replacing)[n]
           = IF n = 0 THEN [ok |-> TRUE, what |-> was, from |-> 0]
             ELSE Turn(InTurn(was, shipped, origins, replacing)[n - 1], n, shipped, origins, replacing)
<1> DEFINE B == [ok |-> TRUE, what |-> was, from |-> 0]
           T(w, m) == Turn(w, m, shipped, origins, replacing)
           Starts(f) == f[0] = B
           Goes(f, k) == \A i \in 1..k : f[i] = T(f[i - 1], i)
           S == {k \in 0..N : \E f : Starts(f) /\ Goes(f, k)}
<1>n. N \in Nat
  BY InstallerAssumption
<1> HIDE DEF B, T
<1>1. 0 \in S
  <2> DEFINE f == [i \in 0..0 |-> B]
  <2>1. Starts(f) /\ Goes(f, 0)
    OBVIOUS
  <2>2. 0 \in 0..N
    BY <1>n
  <2> HIDE DEF f
  <2> QED
    BY <2>1, <2>2
<1>2. ASSUME NEW k \in 0..(N - 1), k \in S PROVE k + 1 \in S
  <2>1. PICK f : Starts(f) /\ Goes(f, k)
    BY <1>2
  <2> DEFINE g == [i \in 0..(k + 1) |-> IF i = k + 1 THEN T(f[k], k + 1) ELSE f[i]]
  <2>2. k \in Nat /\ k + 1 \in 0..N
    BY <1>n
  <2>3. Starts(g)
    BY <2>1, <2>2
  <2>4. ASSUME NEW i \in 1..(k + 1) PROVE g[i] = T(g[i - 1], i)
    <3>1. i \in 0..(k + 1) /\ i - 1 \in 0..(k + 1) /\ i - 1 # k + 1
      BY <2>2
    <3>2. g[i - 1] = f[i - 1]
      BY <3>1
    <3>3. CASE i = k + 1
      <4>1. i - 1 = k /\ g[i] = T(f[k], i)
        BY <2>2, <3>1, <3>3
      <4> QED
        BY <3>2, <4>1
    <3>4. CASE i # k + 1
      <4>1. i \in 1..k /\ g[i] = f[i]
        BY <2>2, <3>1, <3>4
      <4> QED
        BY <2>1, <3>2, <4>1
    <3> QED
      BY <3>3, <3>4
  <2>5. Goes(g, k + 1)
    BY <2>4
  <2> HIDE DEF g
  <2> QED
    BY <2>2, <2>3, <2>5
<1>3. N \in S
  <2> HIDE DEF S
  <2> QED
    BY <1>n, <1>1, <1>2, UpTo
<1>4. PICK f : Starts(f) /\ Goes(f, N)
  BY <1>3
<1> DEFINE h == [m \in 0..N |-> f[m]]
<1>5. h = [m \in 0..N |-> IF m = 0 THEN B ELSE T(h[m - 1], m)]
  <2> SUFFICES ASSUME NEW m \in 0..N PROVE f[m] = IF m = 0 THEN B ELSE T(h[m - 1], m)
    OBVIOUS
  <2>1. CASE m = 0
    BY <1>4, <2>1
  <2>2. CASE m # 0
    <3>1. m \in 1..N /\ m - 1 \in 0..N
      BY <1>n, <2>2
    <3>2. h[m - 1] = f[m - 1]
      BY <3>1
    <3>3. f[m] = T(f[m - 1], m)
      BY <1>4, <3>1
    <3> QED
      BY <2>2, <3>2, <3>3
  <2> QED
    BY <2>1, <2>2
<1> DEFINE F == InTurn(was, shipped, origins, replacing)
<1>6. F = CHOOSE g : g = [m \in 0..N |-> IF m = 0 THEN B ELSE T(g[m - 1], m)]
  BY DEF InTurn, B, T
<1>7. F = [m \in 0..N |-> IF m = 0 THEN B ELSE T(F[m - 1], m)]
  <2> HIDE DEF F, h
  <2> QED
    BY <1>5, <1>6
<1> HIDE DEF F
<1>8. F[n] = IF n = 0 THEN B ELSE T(F[n - 1], n)
  BY <1>7
<1> QED
  BY <1>8 DEF F, B, T

\* The same of the image at hand.
LEMMA SequentiallyUnfolds ==
  ASSUME NEW n \in 0..N
  PROVE  Sequentially[n] = IF n = 0 THEN [ok |-> TRUE, what |-> base, from |-> 0]
                           ELSE Turn(Sequentially[n - 1], n, ships, origin, replaces)
  BY InTurnUnfolds DEF Sequentially

\* An instance is its call and its package, and differs from none.
LEMMA InstanceFacts ==
  /\ NoOne[1] = 0 /\ NoOne[2] = 0
  /\ \A n, p : Instance(n, p)[1] = n /\ Name(Instance(n, p)) = p
  /\ \A n, p, m, q : Instance(n, p) = Instance(m, q) => n = m /\ p = q
  /\ \A n \in 1..MaxCalls, p \in Packages : Instance(n, p) \in Instances /\ Instance(n, p) # NoOne
  /\ \A i \in Instances :
       i[1] \in 1..MaxCalls /\ Name(i) \in Packages /\ i = Instance(i[1], Name(i)) /\ i # NoOne
BY InstallerAssumption DEF Instance, Name, NoOne, Instances, Packages

\* Only entries that differ from Nothing are shipped.
LEMMA EntryFacts ==
  ASSUME TypeOK
  PROVE  /\ Nothing \notin Entries /\ Nothing.kind = "none"
         /\ \A p \in Packages : ships[p] = Nothing \/ ships[p].kind \in {"reg", "sym"}
         /\ node = Nothing \/ node.kind \in {"reg", "sym"}
BY InstallerAssumption DEF TypeOK, Nothing

\* While the data and the image stay the same, so does what would happen to a
\* package's entry, and what installing in turn leaves.
LEMMA SameVerdicts ==
  ASSUME UNCHANGED <<lazy, ships, origin, replaces, base, node, by, owner>>
  PROVE  /\ \A p \in Packages : Verdict(p)' = Verdict(p) /\ (Lost(p)' <=> Lost(p))
         /\ Sequentially' = Sequentially
<1>1. ASSUME NEW p \in Packages PROVE Verdict(p)' = Verdict(p)
  BY DEF Verdict, LazyVerdict, StreamVerdict, Contest, Replaces
<1>2. Sequentially' = Sequentially
  BY DEF Sequentially
<1> QED
  BY <1>1, <1>2 DEF Lost

\* A package's entry can be written only where it ships one; it is a symlink,
\* on a filesystem that is no WriteHeaderer, only where there is nothing.
LEMMA WriteFacts ==
  ASSUME TypeOK, NEW p \in Packages, Verdict(p) = "write"
  PROVE  /\ ships[p] # Nothing
         /\ ~Lost(p)
         /\ ~lazy /\ ships[p].kind = "sym" => node = Nothing
<1>1. ships[p] # Nothing
  BY DEF Verdict, LazyVerdict, StreamVerdict
<1>2. ~lazy /\ ships[p].kind = "sym" => node = Nothing
  BY <1>1 DEF Verdict, StreamVerdict
<1> QED
  BY <1>1, <1>2 DEF Lost

\* A verdict that is no error does what the package does in its turn.
LEMMA VerdictTurn ==
  ASSUME TypeOK, Credited, NEW p \in Packages, NEW w,
         w.ok, w.what = node, by = IF w.from = 0 THEN NoOne ELSE Instance(1, w.from)
  PROVE  /\ Lost(p) => Turn(w, p, ships, origin, replaces) = w
         /\ Verdict(p) = "write" =>
              Turn(w, p, ships, origin, replaces) = [ok |-> TRUE, what |-> ships[p], from |-> p]
<1>1. by # NoOne => w.from # 0 /\ Name(by) = w.from
  BY InstanceFacts
<1>2. w.from # 0 => by # NoOne
  <2>1. ASSUME w.from # 0, by = NoOne PROVE FALSE
    BY <2>1 DEF Instance, NoOne
  <2> QED
    BY <2>1
<1>3. node # Nothing => node.kind \in {"reg", "sym"}
  BY EntryFacts
<1>4. CASE lazy
  BY <1>1, <1>2, <1>4 DEF Lost, Verdict, LazyVerdict, Contest, Replaces, Turn
<1>5. CASE ~lazy
  <2>1. by = NoOne => owner = NoOne
    BY DEF Credited
  <2>2. by # NoOne /\ node.kind = "reg" => owner = by
    BY <1>5 DEF Credited
  <2> QED
    BY <1>1, <1>2, <1>3, <1>5, <2>1, <2>2
       DEF Lost, Verdict, StreamVerdict, Contest, Replaces, Turn
<1> QED
  BY <1>4, <1>5

-----------------------------------------------------------------------------
(***************************************************************************)
(* The invariant.                                                          *)
(***************************************************************************)

\* No call has been made at first.
LEMMA InitEstablishes == Init => IInv
<1> SUFFICES ASSUME Init PROVE IInv
  OBVIOUS
<1> USE InstallerAssumption DEF Init
<1>1. TypeOK
  <2>1. origin \in [Packages -> Origins \cup {NoOrigin}]
    OBVIOUS
  <2>2. node \in Entries \cup {Nothing}
    OBVIOUS
  <2>3. fetch \in [Packages -> {"no", "running", "ok", "failed"}]
    OBVIOUS
  <2>4. /\ call \in 0..MaxCalls /\ spawned \in 0..N /\ next \in 1..(N + 1) /\ rec \in 1..(N + 1)
    OBVIOUS
  <2> QED
    BY <2>1, <2>2, <2>3, <2>4 DEF TypeOK
<1>2. Phases /\ Covered /\ Abandoned
  BY DEF Phases, Covered, Abandoned, Installed, InstallerRuns
<1>3. Credited
  BY InstanceFacts DEF Credited
<1>4. Outcome /\ InTurnSoFar
  BY DEF Outcome, InTurnSoFar, Sound
<1>5. ListedRight /\ Bookkeeping
  BY DEF Bookkeeping, ListedRight, Settled, Owed
<1>6. Linked
  BY DEF Linked, Underway, Installed, Packages
<1> QED
  BY <1>1, <1>2, <1>3, <1>4, <1>5, <1>6 DEF IInv

\* A step that leaves the image, the database and what was listed as they are.
LEMMA SameImage ==
  ASSUME IInv, UNCHANGED <<lazy, ships, origin, replaces, base, node, by, owner, db, call, listed>>
  PROVE  /\ \A p \in Packages : (Lost(p)' <=> Lost(p)) /\ (Installed(p)' <=> Installed(p))
         /\ Sequentially' = Sequentially
         /\ Credited' /\ ListedRight'
         /\ ~LazyLinks => Settled'
         /\ LazyLinks' <=> LazyLinks
<1>1. \A p \in Packages : (Lost(p)' <=> Lost(p)) /\ (Installed(p)' <=> Installed(p))
  BY SameVerdicts DEF Installed
<1>2. Credited'
  BY DEF IInv, Credited
<1>3. ListedRight'
  BY DEF IInv, ListedRight
<1>4. ASSUME ~LazyLinks PROVE Settled'
  BY <1>1, <1>4 DEF IInv, Bookkeeping, Settled
<1>5. LazyLinks' <=> LazyLinks
  BY DEF LazyLinks
<1> QED
  BY <1>1, <1>2, <1>3, <1>4, <1>5, SameVerdicts

\* And it leaves the records right, as long as the call goes on, or has
\* recorded everything, or fails.
LEMMA SameLinked ==
  ASSUME IInv, UNCHANGED <<lazy, ships, node, by, owner, db, call, listed>>,
         unclean \/ aborted => unclean' \/ aborted',
         \/ unclean' \/ aborted' \/ \A p \in Packages : Installed(p)
         \/ (pc' = "idle" => pc = "idle") /\ (pc = "record" => pc' = "record")
  PROVE  Linked'
<1>1. \A p \in Packages : Installed(p)' <=> Installed(p)
  BY DEF Installed
<1>2. LazyLinks' <=> LazyLinks
  BY DEF LazyLinks
<1>3. SUFFICES ASSUME LazyLinks, ~unclean', ~aborted'
               PROVE  IF \A p \in Packages : Installed(p) THEN Described' ELSE Underway'
  BY <1>1, <1>2 DEF Linked
<1>4. CASE \A p \in Packages : Installed(p)
  <2>1. Described
    BY <1>3, <1>4 DEF IInv, Linked
  <2>2. Described'
    BY <2>1 DEF Described, Claimed, LinkOver
  <2> QED
    BY <1>4, <2>2
<1>5. CASE ~\A p \in Packages : Installed(p)
  <2>1. Underway
    BY <1>3, <1>5 DEF IInv, Linked
  <2>2. \A p : Recorded(p)' = Recorded(p)
    BY DEF Recorded
  <2>3. Underway'
    BY <1>3, <1>5, <2>1, <2>2 DEF Underway
  <2> QED
    BY <1>5, <2>3
<1> QED
  BY <1>4, <1>5

\* A call begins: nobody is in the middle of one, so what is at the path is
\* recorded, or some call failed.
LEMMA NewCallPreserves ==
  ASSUME IInv, InstallPackages \/ InstallPackageContents
  PROVE  IInv'
<1>0. TypeOK /\ Phases /\ Covered /\ Abandoned /\ Credited /\ Bookkeeping
  BY DEF IInv
<1>n. N \in Nat /\ N > 0
  BY InstallerAssumption
<1>1. /\ pc = "idle" /\ call < MaxCalls /\ call' = call + 1 /\ inst' = "select" /\ next' = 1
      /\ infos' = {} /\ listed' = {} /\ rec' = 1 /\ result' = "none"
      /\ UNCHANGED <<lazy, ships, origin, replaces, base, node, by, owner, aborted, db, unclean>>
  BY DEF InstallPackages, InstallPackageContents, NewCall, data, image
<1>2. /\ pc' \in {"spawn", "wait"} /\ spawned' \in 0..N
      /\ fetch' \in [Packages -> {"no", "running", "ok", "failed"}]
  BY <1>n DEF InstallPackages, InstallPackageContents
<1>3. call \in Nat /\ call' \in 0..MaxCalls /\ call' # 0
  BY <1>0, <1>1, InstallerAssumption DEF TypeOK
<1>4. TypeOK'
  BY <1>0, <1>n, <1>1, <1>2, <1>3 DEF TypeOK
<1>5. \A p \in Packages : (Lost(p)' <=> Lost(p)) /\ (Installed(p)' <=> Installed(p))
  BY <1>1, SameVerdicts DEF Installed
<1>6. Phases'
  BY <1>0, <1>1, <1>2, <1>3 DEF Phases, InstallerRuns
<1>7. Covered'
  BY <1>n, <1>1, <1>2 DEF Covered
<1>8. Abandoned'
  BY <1>0, <1>1, <1>5 DEF Abandoned, Packages
<1>9. Credited'
  <2>1. by[1] \in Nat
    BY <1>0, InstanceFacts DEF TypeOK
  <2> QED
    BY <1>0, <1>1, <1>3, <2>1 DEF Credited
<1>10. Outcome'
  BY <1>1 DEF Outcome
<1>11. InTurnSoFar'
  <2> SUFFICES ASSUME call' = 1
               PROVE  /\ Sequentially'[0].ok /\ node' = Sequentially'[0].what
                      /\ Sequentially'[0].from = 0 /\ by' = NoOne
    BY <1>1 DEF InTurnSoFar, Past
  <2>1. node = base /\ by = NoOne
    BY <1>0, <1>1, <1>3 DEF Phases
  <2>2. Sequentially' = Sequentially
    BY <1>1, SameVerdicts
  <2>3. Sequentially[0] = [ok |-> TRUE, what |-> base, from |-> 0]
    <3>1. 0 \in 0..N
      BY InstallerAssumption
    <3>2. Sequentially[0] = IF 0 = 0 THEN [ok |-> TRUE, what |-> base, from |-> 0]
                            ELSE Turn(Sequentially[0 - 1], 0, ships, origin, replaces)
      BY <3>1, SequentiallyUnfolds
    <3> QED
      BY <3>2
  <2> QED
    BY <1>1, <2>1, <2>2, <2>3
<1>12. ListedRight'
  BY <1>1 DEF ListedRight
<1>13. LazyLinks' <=> LazyLinks
  BY <1>1 DEF LazyLinks
<1>14. Bookkeeping'
  <2> SUFFICES ASSUME ~LazyLinks PROVE Settled' /\ Owed'
    BY <1>13 DEF Bookkeeping
  <2>1. Settled'
    BY <1>0, <1>1, <1>5 DEF Bookkeeping, Settled
  <2>2. Owed'
    BY <1>0, <1>1 DEF Bookkeeping, Owed
  <2> QED
    BY <2>1, <2>2
<1>15. Linked'
  <2> SUFFICES ASSUME LazyLinks, ~unclean, ~aborted
               PROVE  IF \A p \in Packages : Installed(p) THEN Described' ELSE Underway'
    BY <1>1, <1>5, <1>13 DEF Linked
  <2>1. CASE \A p \in Packages : Installed(p)
    <3>1. Described
      BY <2>1 DEF IInv, Linked
    <3>2. Described'
      BY <1>1, <3>1 DEF Described, Claimed, LinkOver
    <3> QED
      BY <2>1, <3>2
  <2>2. CASE ~\A p \in Packages : Installed(p)
    <3>1. call = 0
      BY <1>1, <2>2 DEF IInv, Linked, Underway
    <3>2. by = NoOne /\ owner = NoOne /\ db = {}
      BY <1>0, <3>1 DEF Phases, Credited
    <3>3. Underway'
      BY <1>1, <1>2, <3>2 DEF Underway
    <3> QED
      BY <2>2, <3>3
  <2> QED
    BY <2>1, <2>2
<1> QED
  BY <1>4, <1>6, <1>7, <1>8, <1>9, <1>10, <1>11, <1>12, <1>14, <1>15 DEF IInv

\* The fetches touch nothing but themselves and the caller's place.
LEMMA FetchPreserves ==
  ASSUME IInv,
         UNCHANGED <<lazy, ships, origin, replaces, base, node, by, owner, aborted, db, call,
                     inst, next, infos, listed, rec, unclean, result>>,
         pc' = pc \/ (pc = "spawn" /\ pc' = "wait"), spawned' \in 0..N,
         fetch' \in [Packages -> {"no", "running", "ok", "failed"}]
  PROVE  IInv'
<1>0. TypeOK /\ Phases /\ Covered /\ Abandoned /\ Outcome /\ InTurnSoFar /\ Bookkeeping
  BY DEF IInv
<1>1. TypeOK'
  BY <1>0 DEF TypeOK
<1>2. /\ \A p \in Packages : (Lost(p)' <=> Lost(p)) /\ (Installed(p)' <=> Installed(p))
      /\ Sequentially' = Sequentially /\ Credited' /\ ListedRight'
      /\ (~LazyLinks => Settled') /\ (LazyLinks' <=> LazyLinks)
  BY SameImage
<1>3. Phases'
  BY <1>0 DEF Phases, Installed, InstallerRuns
<1>4. Covered' /\ Abandoned'
  BY <1>0 DEF Covered, Abandoned, Installed
<1>5. Outcome' /\ InTurnSoFar'
  BY <1>0, <1>2 DEF TypeOK, Outcome, InTurnSoFar, Sound, Past
<1>6. Bookkeeping'
  BY <1>0, <1>2 DEF Bookkeeping, Owed, Installed
<1>7. Linked'
  BY <1>0, SameLinked
<1> QED
  BY <1>1, <1>2, <1>3, <1>4, <1>5, <1>6, <1>7 DEF IInv

\* The installing goroutine moves on, or fails, without touching the image.
LEMMA MovePreserves ==
  ASSUME IInv, Select \/ SelectFails \/ InstallerDone \/ InstallRefused
                 \/ \E ok \in BOOLEAN : UpdateScripts(ok)
  PROVE  IInv'
<1>0. TypeOK /\ Phases /\ Covered /\ Abandoned /\ Outcome /\ InTurnSoFar /\ Bookkeeping
  BY DEF IInv
<1>n. N \in Nat /\ N > 0
  BY InstallerAssumption
<1>1. UNCHANGED <<lazy, ships, origin, replaces, base, node, by, owner, aborted, db, call,
                  pc, spawned, fetch, rec, unclean, result, listed>>
  BY DEF Select, SelectFails, InstallerDone, InstallRefused, UpdateScripts, InstallerStep, data, image
<1>2. /\ \A p \in Packages : (Lost(p)' <=> Lost(p)) /\ (Installed(p)' <=> Installed(p))
      /\ Sequentially' = Sequentially /\ Credited' /\ ListedRight'
      /\ (~LazyLinks => Settled') /\ (LazyLinks' <=> LazyLinks)
  BY <1>1, SameImage
<1>3. Bookkeeping' /\ Linked'
  <2>1. Bookkeeping'
    BY <1>0, <1>1, <1>2 DEF Bookkeeping, Owed, Installed
  <2>2. Linked'
    BY <1>1, SameLinked
  <2> QED
    BY <2>1, <2>2
<1>t. /\ next \in 1..(N + 1) /\ infos \subseteq Packages /\ listed \subseteq infos
      /\ InstallerRuns /\ pc \in {"spawn", "wait"} /\ result # "ok" /\ call # 0
  BY <1>0 DEF TypeOK, Phases, InstallerRuns, Select, SelectFails, InstallerDone, InstallRefused,
              UpdateScripts
<1>4. CASE inst' \in {"failed", "broken"} /\ next' = next /\ infos' = infos
           /\ (inst' = "broken" => aborted)
  <2>1. TypeOK'
    BY <1>0, <1>1, <1>4 DEF TypeOK
  <2>2. Phases'
    BY <1>0, <1>1, <1>t, <1>4 DEF Phases, InstallerRuns
  <2>3. Covered' /\ Abandoned'
    <3>1. Covered'
      BY <1>0, <1>n, <1>1, <1>t, <1>2, <1>4 DEF Covered, Packages, InstallerRuns
    <3>2. Abandoned'
      BY <1>0, <1>1, <1>2, <1>4 DEF Abandoned
    <3> QED
      BY <3>1, <3>2
  <2>4. Outcome' /\ InTurnSoFar'
    BY <1>4 DEF Outcome, InTurnSoFar, Sound
  <2> QED
    BY <1>2, <1>3, <2>1, <2>2, <2>3, <2>4 DEF IInv
<1>5. CASE inst = "select" /\ next <= N /\ inst' = "select" /\ next' = next + 1 /\ infos' = infos
           /\ Installed(next)
  <2>1. TypeOK'
    BY <1>0, <1>n, <1>1, <1>t, <1>5 DEF TypeOK
  <2>2. Phases'
    BY <1>0, <1>1, <1>t, <1>2, <1>5 DEF Phases, InstallerRuns
  <2>3. Covered' /\ Abandoned'
    BY <1>0, <1>n, <1>1, <1>t, <1>2, <1>5 DEF Covered, Abandoned, Packages
  <2>4. Outcome'
    BY <1>0, <1>n, <1>1, <1>t, <1>2, <1>5 DEF Outcome, Sound, Past, Covered
  <2>5. InTurnSoFar'
    <3>1. call # 1
      BY <1>0, <1>t, <1>5 DEF Phases, Installed
    <3> QED
      BY <1>1, <3>1 DEF InTurnSoFar
  <2> QED
    BY <1>2, <1>3, <2>1, <2>2, <2>3, <2>4, <2>5 DEF IInv
<1>6. CASE inst = "select" /\ next <= N /\ inst' = "files" /\ next' = next /\ ~Installed(next)
           /\ infos' = infos \cup {next}
  <2>1. TypeOK'
    BY <1>0, <1>n, <1>1, <1>t, <1>6 DEF TypeOK, Packages
  <2>2. next \in Packages
    BY <1>t, <1>n, <1>6 DEF Packages
  <2>3. Phases'
    BY <1>0, <1>1, <1>t, <1>2, <1>6, <2>2 DEF Phases, InstallerRuns
  <2>4. Covered' /\ Abandoned'
    BY <1>0, <1>n, <1>1, <1>t, <1>2, <1>6 DEF Covered, Abandoned, Packages
  <2>5. Outcome' /\ InTurnSoFar'
    BY <1>0, <1>n, <1>1, <1>t, <1>2, <1>6 DEF Outcome, InTurnSoFar, Sound, Past
  <2> QED
    BY <1>2, <1>3, <2>1, <2>3, <2>4, <2>5 DEF IInv
<1>7. CASE inst = "select" /\ next = N + 1 /\ inst' = "ended" /\ next' = next /\ infos' = infos
  <2>1. TypeOK'
    BY <1>0, <1>1, <1>7 DEF TypeOK
  <2>2. Phases'
    BY <1>0, <1>1, <1>t, <1>2, <1>7 DEF Phases, InstallerRuns
  <2>3. Covered' /\ Abandoned'
    BY <1>0, <1>n, <1>1, <1>t, <1>2, <1>7 DEF Covered, Abandoned, Packages
  <2>4. Outcome' /\ InTurnSoFar'
    BY <1>0, <1>n, <1>1, <1>t, <1>2, <1>7 DEF Outcome, InTurnSoFar, Sound, Past
  <2> QED
    BY <1>2, <1>3, <2>1, <2>2, <2>3, <2>4 DEF IInv
<1>8. CASE inst = "scripts" /\ inst' = "select" /\ next' = next + 1 /\ infos' = infos
  <2>1. next \in infos /\ next <= N /\ ~aborted
    BY <1>0, <1>8 DEF Phases, Abandoned
  <2>2. TypeOK'
    BY <1>0, <1>n, <1>1, <1>t, <1>8, <2>1 DEF TypeOK
  <2>3. Phases'
    BY <1>0, <1>1, <1>t, <1>2, <1>8 DEF Phases, InstallerRuns
  <2>4. Covered'
    BY <1>0, <1>n, <1>1, <1>t, <1>2, <1>8, <2>1 DEF Covered, Packages
  <2>5. Abandoned'
    BY <1>1, <1>8, <2>1 DEF Abandoned
  <2>6. Outcome' /\ InTurnSoFar'
    BY <1>0, <1>n, <1>1, <1>t, <1>2, <1>8 DEF Outcome, InTurnSoFar, Sound, Past
  <2> QED
    BY <1>2, <1>3, <2>2, <2>3, <2>4, <2>5, <2>6 DEF IInv
<1>9. CASE Select
  BY <1>9, <1>4, <1>5, <1>6 DEF Select, InstallerStep
<1>10. CASE \E ok \in BOOLEAN : UpdateScripts(ok)
  BY <1>10, <1>4, <1>8 DEF UpdateScripts, InstallerStep
<1>11. CASE SelectFails \/ InstallRefused \/ InstallerDone
  BY <1>11, <1>4, <1>7 DEF SelectFails, InstallRefused, InstallerDone, InstallerStep
<1> QED
  BY <1>9, <1>10, <1>11

\* An entry is written: it is credited to its instance, and no record listed
\* the path.
LEMMA WritePreserves ==
  ASSUME IInv, inst = "files", Verdict(next) = "write", Write(next),
         UNCHANGED <<lazy, ships, origin, replaces, base, db, call>>,
         listed' \subseteq listed \cup {next}
  PROVE  /\ Credited' /\ ListedRight'
         /\ ~LazyLinks => Settled'
         /\ by' = Instance(call, next) /\ by'[1] = call /\ Name(by') = next /\ by' # NoOne
         /\ by' \in Instances /\ node' \in Entries /\ owner' \in Instances \cup {NoOne}
         /\ node' = ships[next]
<1>0. TypeOK /\ Phases /\ Credited /\ ListedRight /\ Bookkeeping
  BY DEF IInv
<1>1. /\ next \in Packages /\ ~Installed(next) /\ call \in 1..MaxCalls
  BY <1>0, InstallerAssumption DEF TypeOK, Phases, InstallerRuns, Packages
<1>2. /\ ships[next] # Nothing /\ ~Lost(next)
      /\ ~lazy /\ ships[next].kind = "sym" => node = Nothing
  BY <1>0, <1>1, WriteFacts
<1>3. ships[next] \in Entries /\ ships[next].kind \in {"reg", "sym"} /\ Nothing \notin Entries
  BY <1>0, <1>1, <1>2, EntryFacts DEF TypeOK
<1>4. /\ node' = ships[next] /\ by' = Instance(call, next)
      /\ owner' = IF ships[next].kind = "reg" THEN Instance(call, next) ELSE owner
  BY DEF Write
<1>5. /\ by'[1] = call /\ Name(by') = next /\ by' \in Instances /\ by' # NoOne
      /\ owner' \in Instances \cup {NoOne}
  BY <1>0, <1>1, <1>4, InstanceFacts DEF TypeOK
<1>6. Credited'
  <2>1. node = Nothing => owner = NoOne
    BY <1>0 DEF Credited
  <2>2. /\ node'.kind = "reg" => owner' = by'
        /\ ~lazy /\ node'.kind = "sym" => owner' = NoOne
    BY <1>2, <1>4, <2>1
  <2>3. by'[1] <= call
    BY <1>1, <1>5
  <2> QED
    BY <1>0, <1>2, <1>4, <1>5, <2>2, <2>3 DEF Credited
<1>7. ListedRight'
  <2>1. \A p \in listed' : ships[p] # Nothing
    BY <1>0, <1>2 DEF ListedRight
  <2>2. ~lazy /\ node'.kind = "sym" => \A p \in listed' : by' = Instance(call, p)
    BY <1>0, <1>2, <1>4 DEF ListedRight
  <2> QED
    BY <1>2, <1>4, <1>5, <2>1, <2>2 DEF ListedRight
<1>8. ASSUME ~LazyLinks PROVE Settled'
  <2>1. \A r \in db : r.has = Nothing
    BY <1>0, <1>1, <1>2, <1>8 DEF Bookkeeping, Settled
  <2> QED
    BY <2>1 DEF Settled
<1> QED
  BY <1>3, <1>4, <1>5, <1>6, <1>7, <1>8

\* The package's files are in.
LEMMA InstallFilesPreserves ==
  ASSUME IInv, InstallFiles
  PROVE  IInv'
<1>0. /\ TypeOK /\ Phases /\ Covered /\ Abandoned /\ Credited /\ Outcome /\ InTurnSoFar
      /\ ListedRight /\ Bookkeeping
  BY DEF IInv
<1>n. N \in Nat /\ N > 0
  BY InstallerAssumption
<1>1. /\ inst = "files" /\ ~aborted /\ Verdict(next) # "error"
      /\ listed' = IF Verdict(next) \in {"none", "same"} THEN listed ELSE listed \cup {next}
      /\ inst' = "scripts" /\ next' = next
      /\ UNCHANGED <<lazy, ships, origin, replaces, base, aborted, db, infos, call, pc, spawned,
                     fetch, rec, unclean, result>>
  BY DEF InstallFiles, InstallerStep, data
<1>2. /\ next \in Packages /\ next \in infos /\ next <= N /\ ~Installed(next)
      /\ pc \in {"spawn", "wait"} /\ result # "ok" /\ call # 0 /\ infos \subseteq 1..next
  BY <1>0, <1>1 DEF TypeOK, Phases, InstallerRuns, Packages, Covered
<1>3. /\ \A p \in Packages : Installed(p)' <=> Installed(p)
      /\ LazyLinks' <=> LazyLinks
  BY <1>1 DEF Installed, LazyLinks
<1>4. Phases'
  BY <1>0, <1>1, <1>2, <1>3 DEF Phases, InstallerRuns
<1>5. Covered' /\ Abandoned'
  BY <1>0, <1>n, <1>1, <1>2, <1>3 DEF TypeOK, Covered, Abandoned, Packages
<1>6. listed' \subseteq infos'
  BY <1>0, <1>1, <1>2 DEF TypeOK
<1>7. call = 1 => Sequentially[next] = Turn(Sequentially[next - 1], next, ships, origin, replaces)
  <2>1. next \in 0..N /\ next # 0
    BY <1>n, <1>2 DEF Packages
  <2>2. Sequentially[next] = IF next = 0 THEN [ok |-> TRUE, what |-> base, from |-> 0]
                             ELSE Turn(Sequentially[next - 1], next, ships, origin, replaces)
    BY <2>1, SequentiallyUnfolds
  <2> QED
    BY <2>1, <2>2
<1>8. call = 1 => /\ Sequentially[next - 1].ok
                  /\ Sequentially[next - 1].what = node
                  /\ by = IF Sequentially[next - 1].from = 0 THEN NoOne
                          ELSE Instance(1, Sequentially[next - 1].from)
  BY <1>0, <1>1 DEF InTurnSoFar, Sound, Past
<1>9. CASE Verdict(next) = "write"
  <2>1. Write(next)
    BY <1>1, <1>9 DEF InstallFiles
  <2>2. /\ Credited' /\ ListedRight' /\ (~LazyLinks => Settled')
        /\ by' = Instance(call, next) /\ by'[1] = call /\ Name(by') = next /\ by' # NoOne
        /\ by' \in Instances /\ node' \in Entries /\ owner' \in Instances \cup {NoOne}
        /\ node' = ships[next]
    BY <1>1, <1>9, <2>1, WritePreserves
  <2>3. TypeOK'
    BY <1>0, <1>1, <1>6, <2>2 DEF TypeOK
  <2>4. Outcome'
    <3> SUFFICES ASSUME NEW p \in infos PROVE by'[1] = call /\ Name(by') >= p
      BY <1>1 DEF Outcome
    <3> QED
      BY <1>2, <2>2
  <2>5. InTurnSoFar'
    <3> SUFFICES ASSUME call = 1
                 PROVE  /\ Sequentially'[next].ok /\ node' = Sequentially'[next].what
                        /\ Sequentially'[next].from = next
      BY <1>1, <1>2, <2>2 DEF InTurnSoFar, Past, Packages
    <3>1. Sequentially' = Sequentially
      BY <1>1 DEF Sequentially
    <3>2. Sequentially[next] = [ok |-> TRUE, what |-> ships[next], from |-> next]
      BY <1>0, <1>2, <1>7, <1>8, <1>9, VerdictTurn
    <3> QED
      BY <2>2, <3>1, <3>2
  <2>6. Bookkeeping'
    <3>1. next \in listed'
      BY <1>1, <1>9
    <3>2. Owed'
      BY <1>1, <1>2, <1>3, <2>2, <3>1 DEF Owed
    <3> QED
      BY <1>3, <2>2, <3>2 DEF Bookkeeping
  <2>7. Linked'
    <3> SUFFICES ASSUME LazyLinks, ~unclean, ~aborted PROVE Underway'
      BY <1>1, <1>2, <1>3 DEF Linked
    <3>1. Underway
      BY <1>2 DEF IInv, Linked
    <3>2. listed' = listed \cup {next} /\ Name(by') \in listed'
      BY <1>1, <1>9, <2>2
    <3>3. db' = {} /\ pc' # "idle"
      BY <1>1, <1>2, <3>1 DEF Underway
    <3>4. owner' # NoOne => owner' = Instance(call, Name(owner')) /\ Name(owner') \in listed'
      <4>1. owner' = by' \/ owner' = owner
        BY <2>1 DEF Write
      <4> QED
        BY <2>2, <3>1, <3>2, <4>1 DEF Underway
    <3> QED
      BY <1>1, <2>2, <3>2, <3>3, <3>4 DEF Underway
  <2> QED
    BY <1>4, <1>5, <2>2, <2>3, <2>4, <2>5, <2>6, <2>7 DEF IInv
<1>10. CASE Verdict(next) # "write"
  <2>1. UNCHANGED <<node, by, owner>>
    BY <1>10 DEF InstallFiles
  <2>2. Lost(next)
    BY <1>1, <1>10 DEF Lost, Verdict, LazyVerdict, StreamVerdict, Contest
  <2>3. /\ \A p \in Packages : Lost(p)' <=> Lost(p)
        /\ Sequentially' = Sequentially
    BY <1>1, <2>1, SameVerdicts
  <2>4. TypeOK' /\ Credited'
    BY <1>0, <1>1, <1>6, <2>1 DEF TypeOK, Credited
  <2>5. Outcome'
    <3> SUFFICES ASSUME NEW p \in infos, p <= next
                 PROVE  Lost(p) \/ (by[1] = call /\ Name(by) >= p)
      BY <1>0, <1>1, <2>1, <2>3 DEF Outcome, Past, TypeOK
    <3>1. CASE p = next
      BY <2>2, <3>1
    <3>2. CASE p # next
      <4>1. p <= next - 1
        BY <1>0, <1>2, <3>2 DEF TypeOK, Packages
      <4> QED
        BY <1>0, <1>1, <1>2, <4>1 DEF Outcome, Sound, Past
    <3> QED
      BY <3>1, <3>2
  <2>6. InTurnSoFar'
    <3>1. call = 1 => Sequentially[next] = Sequentially[next - 1]
      BY <1>0, <1>2, <1>7, <1>8, <2>2, VerdictTurn
    <3> QED
      BY <1>1, <1>8, <2>1, <2>3, <3>1 DEF InTurnSoFar, Past
  <2>7. Bookkeeping'
    <3> SUFFICES ASSUME ~LazyLinks PROVE Settled' /\ Owed'
      BY <1>3 DEF Bookkeeping
    <3>0. Settled /\ Owed
      BY <1>0 DEF Bookkeeping
    <3>1. Settled'
      BY <1>1, <1>3, <2>1, <2>3, <3>0 DEF Settled
    <3>2. Owed'
      BY <1>1, <1>2, <1>3, <2>1, <3>0 DEF Owed, Installed
    <3> QED
      BY <3>1, <3>2
  <2>8. ListedRight'
    <3>1. CASE listed' = listed
      BY <1>0, <1>1, <2>1, <3>1 DEF ListedRight
    <3>2. CASE listed' = listed \cup {next} /\ Verdict(next) \notin {"none", "same"}
      <4>1. Verdict(next) = "keep"
        BY <2>2, <3>2 DEF Lost
      <4>2. ships[next] # Nothing /\ node # Nothing
        BY <4>1 DEF Verdict, LazyVerdict, StreamVerdict
      <4>3. by = NoOne => ships[next] = node
        <5>1. by = NoOne => owner = NoOne
          BY <1>0 DEF Credited
        <5> QED
          BY <4>1, <5>1 DEF Verdict, LazyVerdict, StreamVerdict
      <4>4. ~lazy => node.kind # "sym"
        BY <4>1 DEF Verdict, StreamVerdict
      <4> QED
        BY <1>0, <1>1, <2>1, <3>2, <4>2, <4>3, <4>4 DEF ListedRight
    <3> QED
      BY <1>1, <3>1, <3>2
  <2>9. Linked'
    <3> SUFFICES ASSUME LazyLinks, ~unclean, ~aborted PROVE Underway'
      BY <1>1, <1>2, <1>3 DEF Linked
    <3>1. Underway
      BY <1>2 DEF IInv, Linked
    <3>2. db' = {} /\ pc' # "idle" /\ listed \subseteq listed'
      BY <1>1, <1>2, <3>1 DEF Underway
    <3> QED
      BY <1>1, <2>1, <3>1, <3>2 DEF Underway
  <2> QED
    BY <1>4, <1>5, <2>4, <2>5, <2>6, <2>7, <2>8, <2>9 DEF IInv
<1> QED
  BY <1>9, <1>10

\* An error while files are installed: the package is never going to be.
LEMMA InstallFilesFailPreserves ==
  ASSUME IInv, InstallFilesFail
  PROVE  IInv'
<1>0. TypeOK /\ Phases /\ Covered /\ Abandoned /\ Credited /\ Bookkeeping
  BY DEF IInv
<1>n. N \in Nat /\ N > 0
  BY InstallerAssumption
<1>1. /\ inst = "files" /\ aborted' = TRUE /\ inst' = "broken" /\ next' = next
      /\ UNCHANGED <<lazy, ships, origin, replaces, base, db, infos, listed, call, pc, spawned,
                     fetch, rec, unclean, result>>
  BY DEF InstallFilesFail, InstallerStep, data
<1>2. /\ next \in Packages /\ ~Installed(next) /\ pc \in {"spawn", "wait"}
      /\ result # "ok" /\ call # 0
  BY <1>0, <1>1 DEF TypeOK, Phases, InstallerRuns, Packages
<1>3. \A p \in Packages : Installed(p)' <=> Installed(p)
  BY <1>1 DEF Installed
<1>4. Phases'
  BY <1>0, <1>1, <1>2 DEF Phases, InstallerRuns
<1>5. Covered'
  BY <1>0, <1>n, <1>1, <1>2, <1>3 DEF TypeOK, Covered, Packages
<1>6. Abandoned'
  BY <1>1, <1>2, <1>3 DEF Abandoned
<1>7. Outcome' /\ InTurnSoFar'
  BY <1>1 DEF Outcome, InTurnSoFar, Sound
<1>8. /\ Credited' /\ ListedRight' /\ (~LazyLinks => Settled')
      /\ node' \in Entries \cup {Nothing} /\ by' \in Instances \cup {NoOne}
      /\ owner' \in Instances \cup {NoOne}
  <2>1. CASE UNCHANGED <<node, by, owner>>
    BY <1>0, <1>1, <2>1, SameImage DEF TypeOK
  <2>2. CASE Verdict(next) = "write" /\ Write(next)
    BY <1>1, <2>2, WritePreserves
  <2> QED
    BY <2>1, <2>2 DEF InstallFilesFail
<1>9. TypeOK'
  BY <1>0, <1>1, <1>8 DEF TypeOK
<1>10. Bookkeeping' /\ Linked'
  <2>1. LazyLinks' <=> LazyLinks
    BY <1>1 DEF LazyLinks
  <2> QED
    BY <1>1, <1>8, <2>1 DEF Bookkeeping, Owed, Linked
<1> QED
  BY <1>4, <1>5, <1>6, <1>7, <1>8, <1>9, <1>10 DEF IInv

\* The group is done: the call goes on to record, or returns an error.
LEMMA WaitPreserves ==
  ASSUME IInv, Wait
  PROVE  IInv'
<1>0. /\ TypeOK /\ Phases /\ Covered /\ Abandoned /\ Credited /\ Outcome /\ InTurnSoFar
      /\ ListedRight /\ Bookkeeping
  BY DEF IInv
<1>n. N \in Nat /\ N > 0
  BY InstallerAssumption
<1>1. /\ pc = "wait" /\ Active = 0
      /\ UNCHANGED <<lazy, ships, origin, replaces, base, node, by, owner, aborted, db, call,
                     spawned, fetch, inst, next, infos, listed, rec>>
  BY DEF Wait, data, image
<1>2. ~InstallerRuns
  <2>1. IsFiniteSet(Packages)
    BY <1>n, FS_Interval DEF Packages
  <2>2. IsFiniteSet(Running)
    BY <2>1, FS_Subset DEF Running
  <2>3. Cardinality(Running) \in Nat
    BY <2>2, FS_CardinalityType
  <2> QED
    BY <1>1, <2>3 DEF Active
<1>3. inst \in {"ended", "failed", "broken"}
  BY <1>0, <1>1, <1>2 DEF TypeOK, Phases, InstallerRuns
<1>4. \/ pc' = "record" /\ inst = "ended" /\ UNCHANGED <<unclean, result>>
      \/ pc' = "idle" /\ result' = "error" /\ unclean' = (unclean \/ inst # "broken")
  BY <1>3 DEF Wait, Return
<1>5. TypeOK'
  BY <1>0, <1>1, <1>4 DEF TypeOK
<1>6. /\ \A p \in Packages : (Lost(p)' <=> Lost(p)) /\ (Installed(p)' <=> Installed(p))
      /\ Sequentially' = Sequentially /\ Credited' /\ ListedRight'
      /\ (~LazyLinks => Settled') /\ (LazyLinks' <=> LazyLinks)
  BY <1>1, SameImage
<1>7. Phases'
  BY <1>0, <1>1, <1>2, <1>4 DEF Phases, InstallerRuns
<1>8. Abandoned'
  BY <1>0, <1>1 DEF Abandoned, Installed
<1>9. Covered'
  <2>1. rec = 1
    BY <1>0, <1>1 DEF Phases
  <2> QED
    BY <1>0, <1>1, <1>4, <2>1 DEF Covered, Installed
<1>10. Outcome' /\ InTurnSoFar'
  BY <1>0, <1>1, <1>4, <1>6 DEF TypeOK, Outcome, InTurnSoFar, Sound, Past
<1>11. Bookkeeping'
  <2> SUFFICES ASSUME ~LazyLinks PROVE Owed'
    BY <1>6 DEF Bookkeeping
  <2>1. inst = "broken" => aborted
    BY <1>0 DEF Abandoned
  <2> QED
    BY <1>0, <1>1, <1>4, <2>1 DEF Bookkeeping, Owed, Installed
<1>12. Linked'
  <2>1. inst = "broken" => aborted
    BY <1>0 DEF Abandoned
  <2>2. unclean' \/ aborted' \/ (pc' = "record" /\ unclean' = unclean)
    BY <1>1, <1>4, <2>1
  <2>3. unclean \/ aborted => unclean' \/ aborted'
    BY <1>1, <2>2
  <2> QED
    BY <1>1, <2>2, <2>3, SameLinked
<1> QED
  BY <1>5, <1>6, <1>7, <1>8, <1>9, <1>10, <1>11, <1>12 DEF IInv

\* The call is over after recordInstalled: everything is recorded, or it fails.
LEMMA RecordEndPreserves ==
  ASSUME IInv, RecordFails \/ RecordDone
  PROVE  IInv'
<1>0. /\ TypeOK /\ Phases /\ Covered /\ Abandoned /\ Credited /\ Outcome /\ InTurnSoFar
      /\ ListedRight /\ Bookkeeping
  BY DEF IInv
<1>n. N \in Nat /\ N > 0
  BY InstallerAssumption
<1>1. /\ pc = "record" /\ pc' = "idle"
      /\ UNCHANGED <<lazy, ships, origin, replaces, base, node, by, owner, aborted, db, call,
                     spawned, fetch, inst, next, infos, listed, rec>>
  BY DEF RecordFails, RecordDone, Return, data, image
<1>2. inst = "ended" /\ ~aborted
  BY <1>0, <1>1 DEF Phases, Abandoned
<1>3. \/ result' = "error" /\ unclean' = TRUE
      \/ result' = "ok" /\ unclean' = unclean /\ \A p \in Packages : Installed(p)
  <2>1. CASE RecordFails
    BY <1>2, <2>1 DEF RecordFails, Return
  <2>2. CASE RecordDone
    <3>1. \A p \in Packages : Installed(p)
      BY <1>0, <1>n, <1>1, <2>2 DEF RecordDone, Covered, Packages
    <3>2. result' = "ok" /\ unclean' = unclean
      BY <1>0, <2>2 DEF RecordDone, Return, TypeOK
    <3> QED
      BY <3>1, <3>2
  <2> QED
    BY <2>1, <2>2
<1>4. TypeOK'
  BY <1>0, <1>1, <1>3 DEF TypeOK
<1>5. /\ \A p \in Packages : (Lost(p)' <=> Lost(p)) /\ (Installed(p)' <=> Installed(p))
      /\ Sequentially' = Sequentially /\ Credited' /\ ListedRight'
      /\ (~LazyLinks => Settled') /\ (LazyLinks' <=> LazyLinks)
  BY <1>1, SameImage
<1>6. Phases'
  BY <1>0, <1>1, <1>2, <1>3, <1>5 DEF Phases, InstallerRuns
<1>7. Covered' /\ Abandoned'
  BY <1>0, <1>1 DEF Covered, Abandoned, Installed
<1>8. Outcome' /\ InTurnSoFar'
  BY <1>0, <1>1, <1>5 DEF TypeOK, Outcome, InTurnSoFar, Sound, Past
<1>9. Bookkeeping'
  <2> SUFFICES ASSUME ~LazyLinks PROVE Owed'
    BY <1>5 DEF Bookkeeping
  <2>1. by # NoOne => Name(by) \in Packages
    BY <1>0, InstanceFacts DEF TypeOK
  <2> QED
    BY <1>0, <1>1, <1>3, <2>1 DEF Bookkeeping, Owed
<1>10. Linked'
  BY <1>1, <1>3, SameLinked
<1> QED
  BY <1>4, <1>5, <1>6, <1>7, <1>8, <1>9, <1>10 DEF IInv

\* A package is recorded: with its entry if that is the one at the path, and
\* then no package that is still to be recorded has touched it.
LEMMA RecordPreserves ==
  ASSUME IInv, Record
  PROVE  IInv'
<1>0. /\ TypeOK /\ Phases /\ Covered /\ Abandoned /\ Credited /\ Outcome /\ InTurnSoFar
      /\ ListedRight /\ Bookkeeping
  BY DEF IInv
<1>n. N \in Nat /\ N > 0
  BY InstallerAssumption
<1>1. /\ pc = "record" /\ rec <= N /\ rec' = rec + 1
      /\ db' = IF rec \in infos THEN db \cup {[pkg |-> rec, has |-> Recorded(rec)]} ELSE db
      /\ UNCHANGED <<lazy, ships, origin, replaces, base, node, by, owner, aborted, call, pc,
                     spawned, fetch, inst, next, infos, listed, unclean, result>>
  BY DEF Record, data, image
<1> DEFINE new == [pkg |-> rec, has |-> Recorded(rec)]
<1>2. /\ rec \in Packages /\ inst = "ended" /\ next = N + 1 /\ ~aborted /\ result # "ok"
      /\ infos \subseteq Packages
  BY <1>0, <1>1 DEF TypeOK, Phases, Abandoned, Packages
<1>3. Recorded(rec) \in Entries \cup {Nothing} /\ new.pkg = rec /\ new.has = Recorded(rec)
  BY <1>0, <1>2 DEF TypeOK, Recorded
<1>4. new \in [pkg : Packages, has : Entries \cup {Nothing}]
  BY <1>2, <1>3
<1> HIDE DEF new
<1>5. db' = IF rec \in infos THEN db \cup {new} ELSE db
  BY <1>1 DEF new
<1>6. TypeOK'
  BY <1>0, <1>n, <1>1, <1>2, <1>4, <1>5 DEF TypeOK, Packages
<1>7. /\ \A p \in Packages : Installed(p)' <=> Installed(p) \/ (p = rec /\ rec \in infos)
      /\ \A p \in Packages : Lost(p)' <=> Lost(p)
      /\ Sequentially' = Sequentially
  BY <1>1, <1>3, <1>5, SameVerdicts DEF Installed
<1>8. \A p \in Packages : Installed(p) \/ p \in infos
  BY <1>0, <1>n, <1>2 DEF Covered, Packages
<1>9. \A p \in Packages : p <= rec => Installed(p)'
  BY <1>0, <1>n, <1>1, <1>2, <1>7, <1>8 DEF Covered, Packages
<1>10. Phases'
  BY <1>0, <1>1, <1>2, <1>7 DEF Phases, InstallerRuns
<1>11. Covered'
  BY <1>0, <1>n, <1>1, <1>2, <1>7, <1>9 DEF Covered, Packages
<1>12. Abandoned'
  BY <1>1, <1>2 DEF Abandoned
<1>13. Credited'
  BY <1>0, <1>1 DEF Credited
<1>14. Outcome' /\ InTurnSoFar'
  BY <1>0, <1>1, <1>2, <1>7 DEF TypeOK, Outcome, InTurnSoFar, Sound, Past
<1>15. LazyLinks' <=> LazyLinks
  BY <1>1 DEF LazyLinks
<1>16. ListedRight'
  BY <1>0, <1>1 DEF ListedRight
<1>17. Bookkeeping'
  <2>s. SUFFICES ASSUME ~LazyLinks PROVE Settled' /\ Owed'
    BY <1>15 DEF Bookkeeping
  <2>0. ListedRight /\ Settled /\ Owed
    BY <1>0, <2>s DEF Bookkeeping
  <2>2. node # Nothing => node.kind \in {"reg", "sym"}
    BY <1>0, EntryFacts
  <2>3. by # NoOne => /\ node.kind = "reg" => owner = by
                      /\ node.kind = "sym" => ~lazy /\ owner = NoOne
                      /\ node = ships[Name(by)] /\ node # Nothing
    <3>1. by # NoOne => Name(by) \in Packages
      BY <1>0, InstanceFacts DEF TypeOK
    <3> QED
      BY <1>0, <2>s, <3>1 DEF Credited, LazyLinks
  <2>4. by = NoOne => owner = NoOne
    BY <1>0 DEF Credited
  <2>5. ASSUME Recorded(rec) # Nothing
        PROVE  /\ Recorded(rec) = node
               /\ by # NoOne => by = Instance(call, rec)
    <3>1. rec \in listed /\ owner \in {NoOne, Instance(call, rec)} /\ Recorded(rec) = ships[rec]
      BY <2>5 DEF Recorded
    <3>2. CASE by = NoOne
      BY <2>0, <3>1, <3>2 DEF ListedRight
    <3>3. CASE by # NoOne
      <4>1. by = Instance(call, rec)
        BY <2>0, <2>2, <2>3, <3>1, <3>3 DEF ListedRight
      <4>2. Name(by) = rec
        BY <4>1, InstanceFacts
      <4> QED
        BY <2>3, <3>1, <3>3, <4>1, <4>2
    <3> QED
      BY <3>2, <3>3
  <2>6. Settled'
    <3> SUFFICES ASSUME NEW r \in db', r.has # Nothing
                 PROVE  /\ r.has = node
                        /\ by # NoOne => Name(by) = r.pkg
                        /\ \A p \in Packages : ~Installed(p)' => Lost(p)
      BY <1>1, <1>7 DEF Settled
    <3>1. CASE r \in db
      BY <1>7, <2>0, <3>1 DEF Settled
    <3>2. CASE r = new
      <4>1. r.has = node /\ r.pkg = rec /\ (by # NoOne => by = Instance(call, rec))
        BY <1>3, <2>5, <3>2
      <4>2. by # NoOne => Name(by) = rec
        BY <4>1, InstanceFacts
      <4>3. ASSUME NEW p \in Packages, ~Installed(p)' PROVE Lost(p)
        <5>1. p \in infos /\ p > rec /\ p <= N
          BY <1>2, <1>7, <1>8, <1>9, <4>3, InstallerAssumption DEF Packages
        <5>2. Lost(p) \/ (by[1] = call /\ Name(by) >= p)
          BY <1>0, <1>n, <1>1, <1>2, <5>1 DEF Outcome, Sound, Past
        <5>3. by = NoOne => by[1] # call
          BY <1>0, <1>2, InstanceFacts DEF Phases
        <5> QED
          BY <1>2, <4>2, <5>1, <5>2, <5>3 DEF Packages
      <4> QED
        BY <4>1, <4>2, <4>3
    <3> QED
      BY <1>5, <3>1, <3>2
  <2>7. Owed'
    <3> SUFFICES ASSUME ~unclean, by # NoOne, ~\E r \in db' : r.has = node
                 PROVE  /\ by = Instance(call, Name(by)) /\ Name(by) \in listed
                        /\ ~Installed(Name(by))'
      BY <1>1 DEF Owed
    <3>0. db \subseteq db'
      BY <1>5
    <3>1. /\ by = Instance(call, Name(by)) /\ Name(by) \in listed /\ ~Installed(Name(by))
      BY <1>2, <2>0, <3>0 DEF Owed
    <3>2. Name(by) \in Packages
      BY <1>0, <3>1 DEF TypeOK
    <3>3. ASSUME Name(by) = rec, rec \in infos PROVE FALSE
      <4>1. owner \in {NoOne, Instance(call, rec)}
        BY <2>2, <2>3, <3>1, <3>3
      <4>2. Recorded(rec) = node
        BY <2>3, <3>1, <3>3, <4>1 DEF Recorded
      <4> QED
        BY <1>3, <1>5, <3>3, <4>2
    <3> QED
      BY <1>1, <1>7, <3>1, <3>2, <3>3
  <2> QED
    BY <2>6, <2>7
<1>18. Linked'
  <2>s. SUFFICES ASSUME LazyLinks, ~unclean
                 PROVE  IF \A p \in Packages : Installed(p)' THEN Described' ELSE Underway'
    BY <1>1, <1>15 DEF Linked
  <2>1. CASE \A p \in Packages : Installed(p)
    <3>1. Described
      BY <1>2, <2>s, <2>1 DEF IInv, Linked
    <3>2. db' = db
      BY <1>0, <1>2, <1>5, <2>1 DEF Covered, TypeOK
    <3>3. Described'
      BY <1>1, <3>1, <3>2 DEF Described, Claimed, LinkOver
    <3> QED
      BY <1>7, <2>1, <3>3
  <2>2. CASE ~\A p \in Packages : Installed(p)
    <3>1. Underway
      BY <1>2, <2>s, <2>2 DEF IInv, Linked
    <3>2. \A p : Recorded(p)' = Recorded(p)
      BY <1>1 DEF Recorded
    <3>3. \A r \in db' : r.has = Recorded(r.pkg)
      BY <1>3, <1>5, <3>1 DEF Underway
    <3>4. Underway'
      BY <1>1, <3>1, <3>2, <3>3 DEF Underway
    <3>5. ASSUME \A p \in Packages : \E r \in db' : r.pkg = p PROVE Described'
      <4>1. (\A r \in db' : r.pkg \in Packages) /\ \A p \in Packages : \E r \in db' : r.pkg = p
        BY <1>6, <3>5 DEF TypeOK
      <4>2. \A p \in Packages : Recorded(p) # Nothing => /\ Recorded(p) = ships[p] /\ p \in listed
                                                     /\ owner \in {NoOne, Instance(call, p)}
        BY DEF Recorded
      <4>3. CASE by = NoOne
        <5>1. ~LinkOver /\ Claimed = node
          BY <4>3 DEF LinkOver, Claimed
        <5>2. \A r \in db' : r.has \in {Nothing, node}
          BY <1>0, <3>3, <4>1, <4>2, <4>3 DEF ListedRight
        <5> QED
          BY <1>1, <4>3, <5>1, <5>2 DEF Described, Claimed, LinkOver
      <4>4. CASE by # NoOne /\ (LinkOver => owner # NoOne)
        <5>1. owner # NoOne /\ Claimed = ships[Name(owner)]
          <6>1. node = ships[Name(by)] /\ node.kind \in {"reg", "sym"}
            BY <1>0, <4>4, EntryFacts DEF Credited
          <6> QED
            BY <1>0, <2>s, <4>4, <6>1 DEF Credited, Claimed, LinkOver, LazyLinks
        <5>2. owner = Instance(call, Name(owner)) /\ Name(owner) \in listed
          BY <3>1, <5>1 DEF Underway
        <5>3. Name(owner) \in Packages /\ Recorded(Name(owner)) = Claimed
          BY <1>0, <5>1, <5>2 DEF TypeOK, Recorded
        <5>4. \A r \in db' : r.has # Nothing => r.pkg = Name(owner)
          BY <3>3, <4>1, <4>2, <5>1, InstanceFacts
        <5>5. /\ \A r \in db' : r.has \in {Nothing, Claimed}
              /\ \A r, s \in db' : r.has # Nothing /\ s.has # Nothing => r.pkg = s.pkg
              /\ \E r \in db' : r.has = Claimed
          BY <3>3, <4>1, <5>3, <5>4
        <5>6. Claimed' = Claimed
          BY <1>1 DEF Claimed, LinkOver
        <5> QED
          BY <5>5, <5>6 DEF Described
      <4>5. CASE by # NoOne /\ LinkOver /\ owner = NoOne
        <5>1. Name(by) \in listed /\ Name(by) \in Packages /\ Claimed = ships[Name(by)]
          BY <1>0, <3>1, <4>5 DEF Underway, Claimed, Credited, TypeOK
        <5>2. Recorded(Name(by)) = Claimed
          BY <4>5, <5>1 DEF Recorded
        <5>3. \E r \in db' : r.has = Claimed
          BY <3>3, <4>1, <5>1, <5>2
        <5>4. Claimed' = Claimed /\ LinkOver' /\ owner' = NoOne
          BY <1>1, <4>5 DEF Claimed, LinkOver
        <5> QED
          BY <5>3, <5>4 DEF Described
      <4> QED
        BY <4>3, <4>4, <4>5
    <3>6. (\A p \in Packages : Installed(p)') => Described'
      BY <3>5 DEF Installed
    <3> QED
      BY <3>4, <3>6
  <2> QED
    BY <2>1, <2>2
<1> QED
  BY <1>6, <1>10, <1>11, <1>12, <1>13, <1>14, <1>16, <1>17, <1>18 DEF IInv

\* Every step keeps the invariant.
LEMMA StepPreserves ==
  ASSUME IInv, [Next]_vars
  PROVE  IInv'
<1>0. TypeOK /\ N \in Nat
  BY InstallerAssumption DEF IInv
<1>1. CASE UNCHANGED vars
  BY <1>0, <1>1, FetchPreserves DEF vars, data, image, work, TypeOK
<1>2. CASE Spawn
  <2>1. /\ pc = "spawn" /\ spawned < N /\ spawned' = spawned + 1 /\ pc' \in {"spawn", "wait"}
        /\ fetch' = [fetch EXCEPT ![spawned + 1] = "running"]
        /\ UNCHANGED <<lazy, ships, origin, replaces, base, node, by, owner, aborted, db, call,
                       inst, next, infos, listed, rec, unclean, result>>
    BY <1>2 DEF Spawn, data, image
  <2>2. spawned' \in 0..N
    BY <1>0, <2>1 DEF TypeOK
  <2>3. fetch' \in [Packages -> {"no", "running", "ok", "failed"}]
    BY <1>0, <2>1 DEF TypeOK
  <2> QED
    BY <2>1, <2>2, <2>3, FetchPreserves
<1>3. ASSUME NEW p \in Packages, NEW ok \in BOOLEAN, FetchDone(p, ok) PROVE IInv'
  <2>1. /\ fetch' = [fetch EXCEPT ![p] = IF ok THEN "ok" ELSE "failed"]
        /\ UNCHANGED <<lazy, ships, origin, replaces, base, node, by, owner, aborted, db, call,
                       pc, spawned, inst, next, infos, listed, rec, unclean, result>>
    BY <1>3 DEF FetchDone, data, image
  <2>2. spawned' \in 0..N /\ fetch' \in [Packages -> {"no", "running", "ok", "failed"}]
    BY <1>0, <2>1 DEF TypeOK
  <2> QED
    BY <2>1, <2>2, FetchPreserves
<1>4. CASE Step
  BY <1>2, <1>3, <1>4, MovePreserves, InstallFilesPreserves, InstallFilesFailPreserves,
     WaitPreserves, RecordPreserves, RecordEndPreserves DEF Step
<1> QED
  BY <1>1, <1>4, NewCallPreserves, MovePreserves DEF Next

\* The invariant holds throughout every behaviour.
LEMMA Invariance == Spec => []IInv
<1>1. Init => IInv
  BY InitEstablishes
<1>2. IInv /\ [Next]_vars => IInv'
  BY StepPreserves
<1> QED
  BY <1>1, <1>2, PTL DEF Spec

-----------------------------------------------------------------------------
\* In whatever order and however many at a time the packages are fetched, a
\* first call that succeeds leaves at the path what installing the packages one
\* after the other leaves there, without a conflict, and records every package
\* ("we must install in the given order exactly", InstallPackages).
THEOREM InstallsInOrder == Spec => []InstalledInOrder
<1>1. IInv => InstalledInOrder
  <2> SUFFICES ASSUME IInv, result = "ok", call = 1
               PROVE  /\ Sequentially[N].ok /\ node = Sequentially[N].what
                      /\ \A p \in Packages : Installed(p)
    BY DEF InstalledInOrder
  <2>1. inst = "ended" /\ next = N + 1 /\ \A p \in Packages : Installed(p)
    BY DEF IInv, Phases
  <2>2. Past = N
    BY <2>1, InstallerAssumption DEF Past
  <2> QED
    BY <2>1, <2>2 DEF IInv, InTurnSoFar, Sound
<1> QED
  BY <1>1, Invariance, PTL

\* After every call that succeeds, the first or a later one, what a record
\* lists at the path is there, one record lists what a package put there, and
\* unless a call failed elsewhere than in installing files some record does
\* ("dropping files a later package overwrote", recordInstalled). Where
\* packages ship symlinks to a WriteHeaderer, which installedFiles knows nothing
\* of, that is said of the file a symlink replaced, and of calls on an APK none
\* of whose calls failed elsewhere than in installing files.
THEOREM DatabaseIsRight == Spec => []DatabaseDescribesImage
<1>1. IInv => DatabaseDescribesImage
  <2>s. SUFFICES ASSUME IInv, result = "ok", LazyLinks => ~unclean
                 PROVE  /\ \A r \in db : r.has \in {Nothing, Claimed} \/ (LinkOver /\ owner = NoOne)
                        /\ by # NoOne /\ (LinkOver => owner # NoOne) =>
                             Cardinality({r \in db : r.has # Nothing}) <= 1
                        /\ ~unclean /\ by # NoOne => \E r \in db : r.has = Claimed
    BY DEF IInv, DatabaseDescribesImage, RecordsMatchImage, NothingUnrecordedWhileClean
  <2>1. TypeOK /\ Credited /\ pc = "idle" /\ ~aborted /\ \A p \in Packages : Installed(p)
    BY <2>s DEF IInv, Phases, Abandoned
  <2>2. /\ \A r \in db : r.has \in {Nothing, Claimed} \/ (LinkOver /\ owner = NoOne)
        /\ by # NoOne /\ (LinkOver => owner # NoOne) =>
             \A r, s \in db : r.has # Nothing /\ s.has # Nothing => r.pkg = s.pkg
        /\ ~unclean /\ by # NoOne => \E r \in db : r.has = Claimed
    <3>1. CASE LazyLinks
      BY <2>s, <2>1, <3>1 DEF IInv, Linked, Described
    <3>2. CASE ~LazyLinks
      <4>1. Settled /\ Owed
        BY <2>s, <3>2 DEF IInv, Bookkeeping
      <4>2. by # NoOne => Name(by) \in Packages
        BY <2>1, InstanceFacts DEF TypeOK
      <4>3. ~LinkOver /\ Claimed = node
        BY <2>1, <3>2, <4>2 DEF LazyLinks, LinkOver, Claimed, Credited
      <4> QED
        BY <2>1, <4>1, <4>3 DEF Settled, Owed
    <3> QED
      BY <3>1, <3>2
  <2>3. ASSUME by # NoOne, LinkOver => owner # NoOne
        PROVE  Cardinality({r \in db : r.has # Nothing}) <= 1
    <3> DEFINE Listing == {r \in db : r.has # Nothing}
    <3>1. ASSUME NEW r \in Listing, NEW s \in Listing PROVE r = s
      <4>1. r.pkg = s.pkg
        BY <2>2, <2>3
      <4>2. r.has = s.has
        BY <2>2, <2>3
      <4>3. /\ r \in [pkg : Packages, has : Entries \cup {Nothing}]
            /\ s \in [pkg : Packages, has : Entries \cup {Nothing}]
        BY <2>1 DEF TypeOK
      <4> QED
        BY <4>1, <4>2, <4>3
    <3>2. CASE Listing = {}
      <4>1. Cardinality({}) = 0
        BY FS_EmptySet
      <4> QED
        BY <3>2, <4>1
    <3>3. CASE Listing # {}
      <4>1. PICK r \in Listing : TRUE
        BY <3>3
      <4>2. Listing = {r}
        BY <3>1, <4>1
      <4>3. Cardinality({r}) = 1
        BY FS_Singleton
      <4> QED
        BY <4>2, <4>3
    <3> QED
      BY <3>2, <3>3
  <2> QED
    BY <2>2, <2>3
<1> QED
  BY <1>1, Invariance, PTL
=============================================================================
