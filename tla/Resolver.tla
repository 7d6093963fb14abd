------------------------------ MODULE Resolver ------------------------------
(***************************************************************************)
(* Dependency resolution: PkgResolver.GetPackagesWithDependencies          *)
(* (pkg/apk/apk/repo.go), with filterPackages and constraint satisfaction  *)
(* (pkg/apk/apk/version.go).                                               *)
(*                                                                         *)
(* Packages are numbered in index order.  Names are numbers in the order   *)
(* of their strings, a version is its place in Texts and 0 is no version.  *)
(* A package provides a name once.  The recursion of                       *)
(* getPackageDependencies is a stack of frames, because what it works on   *)
(* (dq, selected, existing) is shared by all its calls.  Map iteration     *)
(* order is a choice: mapOrder orders the names in nameMap.                *)
(***************************************************************************)
EXTENDS Integers, Sequences, FiniteSets, SequencesExt, Versions

CONSTANTS
  Names,      \* package names and provided names, numbers
  Texts,      \* the versions there are, in the order of their strings
  Universes,  \* the sets of indexes considered, sequences of packages
  Worlds,     \* the contents of /etc/apk/world considered
  OtherArchs, \* for each other architecture built, the <<name, version>> it has
  MapOrders,  \* the orders in which the names of a map may be visited
  Origins     \* package origins; "" is none

\* A constraint as ResolvePackageNameVersionPin parses it; neg for "!name".
Vers == DOMAIN Texts
Constraint ==
  [neg : BOOLEAN, name : Names, op : versionDependency, ver : {0} \cup Vers, pin : STRING]
Versioned(c) == c.op = "any" <=> c.ver = 0
Package ==
  [name : Names, ver : Vers, prio : Nat, origin : Origins, pin : STRING,
   provides : SUBSET [name : Names, ver : {0} \cup Vers],
   deps : SUBSET Constraint, installIf : SUBSET Constraint]

ASSUME ResolverAssumption ==
  /\ Names \subseteq Nat \ {0} /\ IsFiniteSet(Names)
  /\ Texts \in Seq(Text \cup {Malformed})
  /\ Universes \subseteq Seq(Package)
  /\ \A u \in Universes : \A i \in DOMAIN u :
       /\ IsFiniteSet(u[i].deps)
       /\ \A c \in u[i].deps \cup u[i].installIf : Versioned(c)
  /\ Worlds \subseteq Seq({c \in Constraint : Versioned(c) /\ ~c.neg})
  /\ MapOrders \subseteq [Names -> Nat]

VARIABLES
  pkg,        \* the packages, in index order
  world,      \* the constraints asked for
  archs,      \* what the other architectures have
  mapOrder,   \* name -> when a walk over nameMap comes to it
  pc,         \* where getPackagesWithDependencies is
  todo,       \* constraints of the world not yet looked at
  dq,         \* the disqualified packages
  selected,   \* name -> the package picked for it, or 0
  chosen,     \* dependenciesMap: name -> package, or 0
  root,       \* the entry of world whose dependencies are looked for
  stack,      \* calls of getPackageDependencies, the innermost last
  existing,   \* name -> package, or 0: chosen, and dependencies found since
  origins,    \* existingOrigins: origin -> version, or 0
  found,      \* the dependencies of the root, without duplicates
  pending,    \* names in found whose install-if packages are to be looked at
  toInstall,  \* the answer so far
  conflicts,  \* names with a "!name" dependency
  first       \* the answer of the first run, <<>> while in it

problem == <<pkg, world, archs>>
choice == <<problem, mapOrder, first>>
vars == <<choice, pc, todo, dq, selected, chosen, root, stack, existing, origins, found,
          pending, toInstall, conflicts>>

Packages == DOMAIN pkg
None == 0
Pin == world[root].pin

PCs == {"world", "roots", "deps", "installif", "ok", "error"}

\* Every value has its type.
TypeOK ==
  /\ pc \in PCs
  /\ dq \subseteq Packages
  /\ {selected, chosen, existing} \subseteq [Names -> Packages \cup {None}]
  /\ root \in 0..Len(world)
  /\ \A k \in DOMAIN stack :
       /\ stack[k].pkg \in Packages
       /\ stack[k].todo \subseteq pkg[stack[k].pkg].deps
       /\ stack[k].parents \subseteq Names
       /\ ToSet(stack[k].deps) \subseteq Packages
  /\ origins \in [Origins -> Nat]
  /\ ToSet(found) \cup ToSet(toInstall) \subseteq Packages
  /\ pending \subseteq Names /\ conflicts \subseteq Names

-----------------------------------------------------------------------------
(***************************************************************************)
(* The indexes.                                                            *)
(***************************************************************************)
\* The members of a finite set, the one with the lowest number first.
InOrder(S, number) ==
  [k \in 1..Cardinality(S) |->
     CHOOSE i \in S : Cardinality({j \in S : number[j] < number[i]}) = k - 1]

\* What is left of a sequence when only some places are kept.
Keep(s, places) ==
  LET at == InOrder(places, [k \in places |-> k]) IN [m \in DOMAIN at |-> s[at[m]]]

ProvidedNames(i) == {pr.name : pr \in pkg[i].provides}

\* nameMap[n]: the packages called n in index order, then the ones that
\* provide it, as the walk over the map meets them.
Candidates(n) ==
  LET named == {i \in Packages : pkg[i].name = n}
      providing == {i \in Packages : n \in ProvidedNames(i)}
  IN InOrder(named, [i \in named |-> i])
       \o InOrder(providing, [i \in providing |-> mapOrder[pkg[i].name] * Len(pkg) + i])

\* cachedParseVersion: the versions that can be read, how they compare and
\* which constraints they satisfy.
Parsed == [v \in {w \in Vers : Parses(Texts[w])} |-> ParseVersion(Texts[v])]
Readable(v) == v \in DOMAIN Parsed
Pairs == (DOMAIN Parsed) \X (DOMAIN Parsed)
Comparison == [p \in Pairs |-> CompareVersions(Parsed[p[1]], Parsed[p[2]])]
Satisfying ==
  [op \in versionDependency |-> {p \in Pairs : satisfies(op, Parsed[p[1]], Parsed[p[2]])}]

Fits(v, c) == c.op = "any" \/ <<v, c.ver>> \in Satisfying[c.op]

\* A package has the right version when its own is, or that of anything it
\* provides; not if its own cannot be read.
RightVersion(i, c) ==
  \/ c.op = "any"
  \/ /\ Readable(pkg[i].ver)
     /\ Fits(pkg[i].ver, c) \/ \E pr \in pkg[i].provides : pr.ver # 0 /\ Fits(pr.ver, c)

\* Faulty variant of Allowed: a disqualified package passes.
BugAllowed(i, c, allowPin, preferPin, installed) ==
  (pkg[i].pin \in {"", allowPin, preferPin} \/ installed = i) /\ RightVersion(i, c)

\* filterPackages: not disqualified, from a repository that may be used, and
\* with the right version.
Allowed(i, c, allowPin, preferPin, installed) ==
  /\ i \notin dq
  /\ pkg[i].pin \in {"", allowPin, preferPin} \/ installed = i
  /\ RightVersion(i, c)

FilterPackages(c, allowPin, preferPin, installed) ==
  LET ps == Candidates(c.name)
  IN Keep(ps, {k \in DOMAIN ps : Allowed(ps[k], c, allowPin, preferPin, installed)})

\* getDepVersionForName.
VersionFor(i, n) ==
  IF pkg[i].name = n THEN pkg[i].ver
  ELSE IF n \in ProvidedNames(i)
       THEN (CHOOSE pr \in pkg[i].provides : pr.name = n).ver ELSE 0

\* A version that cannot be read comes last.
ByVersion(v, w) ==
  IF v = w THEN 0
  ELSE IF ~Readable(v) THEN 1
  ELSE IF ~Readable(w) THEN -1
  ELSE -Comparison[<<v, w>>]

\* comparePackages: what speaks for a (negative) or for b, in order of weight.
\* Ex and orig are the packages and origins already there.
Verdicts(a, b, n, ex, orig, pin) ==
  LET Bit(p) == IF p THEN 1 ELSE 0
      Matched(i) == ex[pkg[i].name] # None /\ pkg[ex[pkg[i].name]].ver = pkg[i].ver
      OriginSeen(i) == pkg[i].origin # "" /\ orig[pkg[i].origin] = pkg[i].ver
      va == VersionFor(a, n)
      vb == VersionFor(b, n)
  IN << Bit(Matched(b)) - Bit(Matched(a)),
        Bit(OriginSeen(b)) - Bit(OriginSeen(a)),
        Bit(pkg[b].pin = pin) - Bit(pkg[a].pin = pin),
        IF va # 0 /\ vb # 0 THEN ByVersion(va, vb) ELSE 0,
        IF pkg[a].name = pkg[b].name THEN ByVersion(pkg[a].ver, pkg[b].ver) ELSE 0,
        pkg[b].prio - pkg[a].prio,
        ByVersion(pkg[a].ver, pkg[b].ver),
        pkg[a].name - pkg[b].name >>

Preferred(a, b, n, ex, orig, pin) ==
  LET v == Verdicts(a, b, n, ex, orig, pin)
      k == SelectInSeq(v, LAMBDA x : x # 0)
  IN k # 0 /\ v[k] < 0

\* bestPackage: slices.MinFunc, so the first of several that tie.
BestPackage(ps, n, ex, orig, pin) ==
  LET Better(m, i) == IF Preferred(i, m, n, ex, orig, pin) THEN i ELSE m
      best[k \in 1..Len(ps)] == IF k = 1 THEN ps[1] ELSE Better(best[k - 1], ps[k])
  IN best[Len(ps)]

Nobody == [n \in Names |-> None]
NoOrigins == [o \in Origins |-> 0]

\* ResolvePackage and resolvePackage: all matches, and the best of them.
ResolvePackages(c) == FilterPackages(c, "", c.pin, None)
ResolvePackage(c) == BestPackage(ResolvePackages(c), c.name, Nobody, NoOrigins, c.pin)

-----------------------------------------------------------------------------
(***************************************************************************)
(* Disqualification.                                                       *)
(***************************************************************************)
Providers(n) == ToSet(Candidates(n))

\* disqualifyDifference: the packages another architecture lacks.
Lacking == {i \in Packages : \E a \in archs : <<pkg[i].name, pkg[i].ver>> \notin a}

\* disqualifyProviders, for "!name".
Excluded(c) == {i \in Providers(c.name) : Allowed(i, c, "", c.pin, None)}

\* constrain, for a version: an unversioned provide does not speak against.
Mismatched(c) ==
  {i \in Providers(c.name) :
     IF pkg[i].name = c.name THEN ~Fits(pkg[i].ver, c)
     ELSE \E pr \in pkg[i].provides : pr.name = c.name /\ pr.ver # 0 /\ ~Fits(pr.ver, c)}

\* constrain gives an error.
Unreadable(cs) ==
  \E c \in cs : ~c.neg /\ c.op # "any" /\ Providers(c.name) # {} /\ ~Readable(c.ver)

Constrain(cs) == UNION {IF c.neg THEN Excluded(c) ELSE Mismatched(c) : c \in cs}

\* disqualifyConflicts: everyone else who provides what i provides, unless
\* neither of them gives it a version.
Conflicting(i) ==
  UNION {{j \in Providers(pr.name) \ {i} : pr.ver # 0 \/ VersionFor(j, pr.name) # 0} :
           pr \in pkg[i].provides}

\* pick: i takes its name and the names it provides with a version, if nobody
\* else has one of them.
MayPick(i) ==
  \/ selected[pkg[i].name] = i
  \/ /\ selected[pkg[i].name] = None
     /\ \A n \in ProvidedNames(i) : selected[n] = None /\ n # pkg[i].name

Pick(i) ==
  [n \in Names |->
     IF n = pkg[i].name \/ \E pr \in pkg[i].provides : pr.name = n /\ pr.ver # 0
     THEN i ELSE selected[n]]

-----------------------------------------------------------------------------
(***************************************************************************)
(* getPackagesWithDependencies: the world first.                           *)
(***************************************************************************)
Start == IF Unreadable(ToSet(world)) THEN "error" ELSE "world"

Init ==
  /\ pkg \in Universes /\ world \in Worlds
  /\ archs \in OtherArchs
  /\ mapOrder \in MapOrders
  /\ first = <<>>
  /\ pc = Start
  /\ todo = world
  /\ dq = Lacking \cup Constrain(ToSet(world))
  /\ selected = Nobody /\ chosen = Nobody /\ existing = Nobody
  /\ root = 0
  /\ stack = <<>> /\ found = <<>> /\ toInstall = <<>>
  /\ origins = NoOrigins
  /\ pending = {} /\ conflicts = {}

\* nextPackage: the constraint with the fewest matches, the first of several.
NextPackage ==
  LET Count(k) == Len(ResolvePackages(todo[k]))
  IN CHOOSE k \in DOMAIN todo :
       /\ \A l \in DOMAIN todo : Count(k) <= Count(l)
       /\ \A l \in 1..(k - 1) : Count(k) < Count(l)

ChooseWorld ==
  /\ pc = "world" /\ todo # <<>>
  /\ \A k \in DOMAIN todo : ResolvePackages(todo[k]) # <<>>
  /\ LET c == todo[NextPackage]
         i == ResolvePackage(c)
     IN /\ chosen' = [chosen EXCEPT ![pkg[i].name] = i]
        /\ todo' = Keep(todo, {k \in DOMAIN todo : todo[k] # c})
        /\ dq' = dq \cup Conflicting(i)
  /\ UNCHANGED <<choice, pc, selected, root, stack, existing, origins, found, pending,
                 toInstall, conflicts>>

WorldChosen ==
  /\ pc = "world" /\ todo = <<>>
  /\ pc' = IF world = <<>> THEN "ok" ELSE "roots"
  /\ UNCHANGED <<choice, todo, dq, selected, chosen, root, stack, existing, origins, found,
                 pending, toInstall, conflicts>>

-----------------------------------------------------------------------------
(***************************************************************************)
(* getPackageDependencies.                                                 *)
(***************************************************************************)
\* Faulty variant of Frame: the parents are not looked at.
BugFrame(i, parents) ==
  [pkg |-> i, parents |-> parents, deps |-> <<>>, todo |-> pkg[i].deps]

\* A call for package i, with the names of the packages it is called for.
Frame(i, parents) ==
  [pkg |-> i, parents |-> parents, deps |-> <<>>,
   todo |-> IF pkg[i].name \in parents THEN {} ELSE pkg[i].deps]

\* GetPackageWithDependencies of the next entry of the world.  Where packages
\* of one origin have several versions, the walk over the map decides which
\* one existingOrigins keeps.
StartRoot ==
  /\ pc = "roots" /\ root < Len(world)
  /\ ResolvePackages(world[root + 1]) # <<>>
  /\ LET i == ResolvePackage(world[root + 1])
     IN /\ ~Unreadable(pkg[i].deps)
        /\ stack' = <<Frame(i, {})>>
        /\ dq' = dq \cup Constrain(pkg[i].deps)
        /\ conflicts' = conflicts \cup {c.name : c \in {d \in pkg[i].deps : d.neg}}
  /\ root' = root + 1
  /\ existing' = chosen
  /\ origins' \in
       {f \in [Origins -> {0} \cup {pkg[i].ver : i \in Packages}] :
          \A o \in Origins :
            LET vs == {pkg[chosen[n]].ver : n \in {m \in Names : /\ chosen[m] # None
                                                                 /\ pkg[chosen[m]].origin = o}}
            IN IF o = "" \/ vs = {} THEN f[o] = 0 ELSE f[o] \in vs}
  /\ pc' = "deps"
  /\ UNCHANGED <<choice, todo, selected, chosen, found, pending, toInstall>>

Top == stack[Len(stack)]

\* The package provides c itself, or what was selected will do.  A version is
\* compared with what the selected package provides for equality only, and all
\* of them must be readable.
OwnDependency(i, c) ==
  \/ c.name \in ProvidedNames(i)
  \/ pkg[i].name = c.name /\ Readable(pkg[i].ver) /\ Fits(pkg[i].ver, c)

SelectedFor(c) ==
  LET s == selected[c.name]
      provided == {pr.ver : pr \in {p \in pkg[s].provides : p.name = c.name /\ p.ver # 0}}
  IN /\ s # None
     /\ \/ c.ver = 0
        \/ /\ \A v \in {c.ver, pkg[s].ver} \cup provided : Readable(v)
           /\ \/ \E v \in provided : <<v, c.ver>> \in Satisfying["="]
              \/ Fits(pkg[s].ver, c)

\* The constraints of the innermost call that need a package, and the
\* packages that would do.
Open == {c \in Top.todo : ~c.neg /\ ~OwnDependency(Top.pkg, c) /\ ~SelectedFor(c)}
Options(c) == FilterPackages(c, Pin, "", existing[c.name])

\* Every open constraint still has an option, and none is for a name that
\* another version was selected for.
Solvable == \A c \in Open : selected[c.name] = None /\ Options(c) # <<>>

\* The string order of constraints.
StringBefore(c, d) ==
  LET Rank(op) == CASE op = "any" -> 0 [] op = "<" -> 1 [] op = "<=" -> 2
                    [] op = "=" -> 3 [] op = ">" -> 4 [] op = ">=" -> 5 [] op = "~" -> 6
  IN \/ c.name < d.name
     \/ c.name = d.name /\ Rank(c.op) < Rank(d.op)
     \/ c.name = d.name /\ c.op = d.op /\ c.ver < d.ver

\* Fewer options first; the string breaks ties.
Before(c, d) ==
  \/ Len(Options(c)) < Len(Options(d))
  \/ Len(Options(c)) = Len(Options(d)) /\ StringBefore(c, d)

\* Faulty variant of Lowest: the walk over the map breaks ties between names.
BugLowest ==
  CHOOSE c \in Open : \A d \in Open :
    /\ Len(Options(c)) <= Len(Options(d))
    /\ Len(Options(c)) = Len(Options(d)) =>
         \/ mapOrder[c.name] < mapOrder[d.name]
         \/ c.name = d.name /\ ~StringBefore(d, c)

\* The constraint that nothing comes before.
Lowest == CHOOSE c \in Open : \A d \in Open : ~Before(d, c)

\* Faulty variant of Rest: the constraint stays.
BugRest(c) == Open

Rest(c) == Open \ {c}

\* The call for the best package for c.
Callee(c) ==
  Frame(BestPackage(Options(c), c.name, existing, origins, ""),
        Top.parents \cup {pkg[Top.pkg].name})

\* One round of the loop: settle a constraint and look at its package's own.
Descend ==
  /\ pc = "deps"
  /\ Open # {} /\ Solvable /\ MayPick(Top.pkg)
  /\ LET c == Lowest
         f == Callee(c)
     IN /\ ~Unreadable(f.todo)
        /\ stack' = Append([stack EXCEPT ![Len(stack)].todo = Rest(c)], f)
        /\ dq' = dq \cup Conflicting(f.pkg) \cup Constrain(f.todo)
        /\ conflicts' = conflicts \cup {d.name : d \in {e \in f.todo : e.neg}}
  /\ selected' = Pick(Top.pkg)
  /\ UNCHANGED <<choice, pc, todo, chosen, root, existing, origins, found, pending,
                 toInstall>>

\* Faulty variant of BelowFirst: the parent first.
BugBelowFirst == <<Top.pkg>> \o Top.deps

\* What a call adds to its caller's dependencies: the children first.
BelowFirst == Top.deps \o <<Top.pkg>>

\* The dependencies of one call are known to the calls after it, the package
\* itself is not.
Return ==
  /\ pc = "deps"
  /\ Open = {} /\ Len(stack) > 1
  /\ LET up == Len(stack) - 1
         Named(n) == {k \in DOMAIN Top.deps : pkg[Top.deps[k]].name = n}
         From(o) == {k \in DOMAIN Top.deps : pkg[Top.deps[k]].origin = o}
     IN /\ stack' = [SubSeq(stack, 1, up) EXCEPT ![up].deps = @ \o BelowFirst]
        /\ existing' = [n \in Names |->
             IF Named(n) = {} THEN existing[n] ELSE Top.deps[Max(Named(n))]]
        /\ origins' = [o \in Origins |->
             IF o = "" \/ From(o) = {} THEN origins[o] ELSE pkg[Top.deps[Max(From(o))]].ver]
  /\ UNCHANGED <<choice, pc, todo, dq, selected, chosen, root, found, pending, toInstall,
                 conflicts>>

-----------------------------------------------------------------------------
(***************************************************************************)
(* What a root adds to the answer.                                         *)
(***************************************************************************)
NamesIn(s) == {pkg[i].name : i \in ToSet(s)}

\* Of t, the first package of every name that s does not have.
AddNew(s, t) ==
  LET Name(k) == pkg[t[k]].name
  IN s \o Keep(t, {k \in DOMAIN t : /\ Name(k) \notin NamesIn(s)
                                     /\ \A l \in 1..(k - 1) : Name(l) # Name(k)})

InFound(n) == CHOOSE i \in ToSet(found) : pkg[i].name = n

\* installIfMap: the packages triggered by a name, else by name and version.
Triggered(n, v) ==
  LET With(op, w) == {i \in Packages : \E c \in pkg[i].installIf :
                                         c.name = n /\ c.op = op /\ c.ver = w}
      S == IF With("any", 0) # {} THEN With("any", 0) ELSE With("=", v)
  IN InOrder(S, [i \in S |-> i])

\* The names in s that trigger anything; the walk passes over the others.
Triggering(s) == {pkg[i].name : i \in {j \in ToSet(s) : Triggered(pkg[j].name, pkg[j].ver) # <<>>}}

\* A package is added if what is there meets its install-if.
AddIfMet(r, i) ==
  IF \A c \in pkg[i].installIf :
       \E j \in ToSet(r) : pkg[j].name = c.name /\ c.ver \in {0, pkg[j].ver}
  THEN AddNew(r, <<i>>) ELSE r

AddTriggered(s, more) ==
  LET added[k \in 0..Len(more)] == IF k = 0 THEN s ELSE AddIfMet(added[k - 1], more[k])
  IN added[Len(more)]

RootDone ==
  /\ pc = "deps"
  /\ Open = {} /\ Len(stack) = 1
  /\ found' = AddNew(<<>>, Top.deps)
  /\ pending' = Triggering(AddNew(<<>>, Top.deps))
  /\ pc' = "installif"
  /\ UNCHANGED <<choice, todo, dq, selected, chosen, root, stack, existing, origins,
                 toInstall, conflicts>>

\* One step of the walk over the dependencies found: the packages n triggers
\* are added if everything they ask for is there.  What is added during the
\* walk may or may not be visited by it.
VisitInstallIf(n) ==
  /\ pc = "installif" /\ n \in pending
  /\ LET added == AddTriggered(found, Triggered(n, pkg[InFound(n)].ver))
     IN /\ found' = added
        /\ \E S \in SUBSET (Triggering(added) \ NamesIn(found)) :
             pending' = (pending \ {n}) \cup S
  /\ UNCHANGED <<choice, pc, todo, dq, selected, chosen, root, stack, existing, origins,
                 toInstall, conflicts>>

Install ==
  /\ pc = "installif" /\ pending = {}
  /\ LET all == Append(found, Top.pkg)
         FirstOf(n) == all[SelectInSeq(all, LAMBDA i : pkg[i].name = n)]
     IN /\ toInstall' = AddNew(toInstall, all)
        /\ chosen' = [n \in Names |-> IF chosen[n] = None /\ n \in NamesIn(all)
                                      THEN FirstOf(n) ELSE chosen[n]]
  /\ stack' = <<>>
  /\ pc' = IF root = Len(world) THEN "ok" ELSE "roots"
  /\ UNCHANGED <<choice, todo, dq, selected, root, existing, origins, found, pending,
                 conflicts>>

\* A constraint without a match, a package that may not be picked, or one with
\* a constraint that cannot be read.
Fail ==
  /\ \/ pc = "world" /\ \E k \in DOMAIN todo : ResolvePackages(todo[k]) = <<>>
     \/ /\ pc = "roots" /\ root < Len(world)
        /\ ~(/\ ResolvePackages(world[root + 1]) # <<>>
             /\ ~Unreadable(pkg[ResolvePackage(world[root + 1])].deps))
     \/ /\ pc = "deps" /\ Open # {}
        /\ ~(Solvable /\ MayPick(Top.pkg) /\ ~Unreadable(Callee(Lowest).todo))
  /\ pc' = "error"
  /\ UNCHANGED <<choice, todo, dq, selected, chosen, root, stack, existing, origins, found,
                 pending, toInstall, conflicts>>

Answer == <<pc, toInstall>>
Over == pc \in {"ok", "error"}

\* apko is run again on the same input.
Again ==
  /\ Over
  /\ UNCHANGED problem
  /\ mapOrder' \in MapOrders
  /\ first' = IF first = <<>> THEN Answer ELSE first
  /\ pc' = Start
  /\ todo' = world
  /\ dq' = Lacking \cup Constrain(ToSet(world))
  /\ selected' = Nobody /\ chosen' = Nobody /\ existing' = Nobody
  /\ root' = 0
  /\ stack' = <<>> /\ found' = <<>> /\ toInstall' = <<>>
  /\ origins' = NoOrigins
  /\ pending' = {} /\ conflicts' = {}

Step ==
  \/ ChooseWorld \/ WorldChosen \/ StartRoot \/ Descend \/ Return \/ RootDone
  \/ (\E n \in Names : VisitInstallIf(n)) \/ Install \/ Fail

Next == Step \/ Again

Spec == Init /\ [][Next]_vars

-----------------------------------------------------------------------------
(***************************************************************************)
(* Properties.                                                             *)
(***************************************************************************)
Installed == ToSet(toInstall)
Position(i) == CHOOSE k \in DOMAIN toInstall : toInstall[k] = i

\* Package i is what constraint c asks for, by filterPackages' own measure.
Fulfils(i, c) ==
  /\ c.name \in {pkg[i].name} \cup ProvidedNames(i)
  /\ RightVersion(i, c)

\* The recursion over dependencies, which may be cyclic, goes no deeper than
\* there are package names, and one call to notice the cycle
\* (getPackageDependencies, "we need to ensure that we don't loop").
RecursionBounded == Len(stack) <= Cardinality({pkg[i].name : i \in Packages}) + 1

\* What is left to do in each call, the outermost first, and the order in which
\* it shrinks: less in some call, whatever the calls below it have, or the
\* innermost call gone.
Work == [k \in DOMAIN stack |-> Cardinality(stack[k].todo)]
Less(s, t) ==
  \E k \in DOMAIN t :
    /\ Len(s) >= k - 1
    /\ \A l \in 1..(k - 1) : s[l] = t[l]
    /\ Len(s) >= k => s[k] < t[k]

\* Every step of the walk over the dependencies leaves less to do.  With its
\* depth bounded and no step before the end without a successor, every
\* resolution ends, whatever circles the dependencies make
\* (getPackageDependencies).
WorkShrinks == [][pc = "deps" /\ pc' = "deps" => Less(Work', Work)]_vars

Same(i, j) == pkg[i].name = pkg[j].name
NoInstallIf == \A i \in Packages : pkg[i].installIf = {}

\* A version is asked for only of packages that have the name themselves.
ByOwnName(cs) ==
  \A c \in cs : c.op # "any" => \A i \in Packages : c.name \notin ProvidedNames(i)

\* The versions of a package stand in for each other: they provide the same
\* names, and none of several is installed by install-if.
Interchangeable ==
  \A i, j \in Packages :
    Same(i, j) /\ i # j => ProvidedNames(i) = ProvidedNames(j) /\ pkg[i].installIf = {}

\* A resolution that succeeds has something for everything asked for, though
\* entries of the world rule out each other's candidates while they are
\* chosen, each is resolved again after the dependencies of the ones before
\* it, and of two versions of a package only the first is kept
\* (getPackagesWithDependencies).
WorldInstalled ==
  pc = "ok" /\ Interchangeable /\ ByOwnName(ToSet(world)) =>
    \A k \in DOMAIN world : \E i \in Installed : Fulfils(i, world[k])

\* No package that another architecture lacks is in the answer, however it
\* got there, except through install-if, which asks nobody
\* (disqualifyDifference, GetPackageWithDependencies).
LackingLeftOut == \A i \in Installed : pkg[i].installIf = {} => i \notin Lacking

\* The dependencies of i that other packages have to meet.
Wanted(i) == {c \in pkg[i].deps : ~c.neg /\ ~OwnDependency(i, c)}
DependsOn(i, j) == \E c \in Wanted(i) : Fulfils(j, c)

\* Package i may need itself, directly or through others: every set that has
\* what i depends on, and what its members depend on, has i.
Circular(i) ==
  \A S \in SUBSET Packages :
    (\A h \in S \cup {i} : \A j \in Packages : DependsOn(h, j) => j \in S) => i \in S

\* The dependencies of a package come before it in the answer, if it is not in
\* a circle of dependencies (getPackageDependencies, "the child before the
\* parent").
DepsFirst ==
  \A i \in Installed : Circular(i) \/ \A c \in Wanted(i) :
    \E j \in Installed : Fulfils(j, c) /\ Position(j) < Position(i)

\* The dependencies of the answer are in the answer.
Satisfied ==
  pc = "ok" => \A i \in Installed : \A c \in pkg[i].deps :
    IF c.neg THEN ~\E j \in Installed \ {i} : Fulfils(j, c)
    ELSE \E j \in Installed : Fulfils(j, c)

\* Choosing one package for a name never takes away what another constraint
\* was given: nothing is excluded or installed by install-if, all versions of
\* a package provide the same and want the same of others, and either nobody
\* asks for versions or there is one of each and versions are asked for by the
\* package's own name.
NothingToTakeBack ==
  LET asked == ToSet(world) \cup UNION {pkg[i].deps : i \in Packages}
  IN /\ NoInstallIf
     /\ \A c \in asked : ~c.neg
     /\ \A i, j \in Packages :
          Same(i, j) => ProvidedNames(i) = ProvidedNames(j) /\ Wanted(i) = Wanted(j)
     /\ \/ \A c \in asked : c.op = "any"
        \/ ByOwnName(asked) /\ \A i, j \in Packages : Same(i, j) => i = j

\* Where no choice has to be taken back, which the resolver never does, an
\* answer is complete and in an order in which it can be installed: whatever a
\* package in it depends on is in it, and before it
\* (getPackagesWithDependencies).
SatisfiedIfForced == NothingToTakeBack => Satisfied /\ DepsFirst

\* Runs on the same input give the same answer, or both fail
\* (mapPackages and GetPackageWithDependencies walk maps).
Reproducible == Over /\ first # <<>> => Answer = first

\* comparePackages orders packages, and no map walk chooses: every version can
\* be read, every provide has one, the versions of a package have one priority,
\* the packages of an origin have one version, and nothing is installed by
\* install-if.
Ordered ==
  /\ NoInstallIf
  /\ \A i \in Packages :
       Readable(pkg[i].ver) /\ \A pr \in pkg[i].provides : Readable(pr.ver)
  /\ \A i, j \in Packages :
       /\ pkg[i].name = pkg[j].name => pkg[i].prio = pkg[j].prio
       /\ pkg[i].origin = pkg[j].origin /\ pkg[i].origin # "" => pkg[i].ver = pkg[j].ver

\* Where comparePackages orders the candidates and install-if has no part, two
\* runs give the same answer whatever order maps are walked in
\* (getPackageDependencies, "since map order is non-deterministic, we want to
\* break ties").
ReproducibleIfOrdered == Ordered => Reproducible

\* The recursion of getPackageDependencies stays within its bounds.
WalkBounded == TypeOK /\ RecursionBounded

\* An answer has what was asked for and nothing another architecture lacks
\* (GetPackagesWithDependencies).
Answered == WorldInstalled /\ LackingLeftOut
=============================================================================
