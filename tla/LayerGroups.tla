---------------------------- MODULE LayerGroups ----------------------------
(***************************************************************************)
(* The layering strategy "origin" (pkg/build/layers.go): packages of one   *)
(* origin share a layer, so do packages that replace each other, and at    *)
(* most `budget` layers are kept, the largest ones on their own.           *)
(* A group is a set of packages; package names are numbers, in their order.*)
(***************************************************************************)
EXTENDS Naturals, Sequences, FiniteSets, SequencesExt, FiniteSetsExt

\* What is installed: packages that are known by their names.
ArePackages(pkgs) ==
  /\ IsFiniteSet(pkgs)
  /\ \A p \in pkgs : /\ p.name \in Nat /\ p.size \in Nat /\ p.replaces \in Seq(Range(p.replaces))
                     /\ \A q \in pkgs : p.name = q.name => p = q

\* A constraint of a `replaces` line: any version, or one below a bound.
Satisfies(r, version) == r.below = 0 \/ version < r.below

replacesGroup(r, g) == \E p \in g : p.name = r.name /\ Satisfies(r, p.version)

byOrigin(pkgs) == {{p \in pkgs : p.origin = o} : o \in {p.origin : p \in pkgs}}

\* byPackage: the group with a package of that name, or none.
byPackage(part, name) == UNION {g \in part : \E p \in g : p.name = name}

\* Faulty variant of MergeReplacing: byPackage still gives the replacer's first
\* group after a merge, as if the maps were not updated.
BugMergeReplacing(part, p) ==
  LET g == byPackage(part, p.name)
      mergeOne(gs, r) ==
        LET replacee == byPackage(gs, r.name)
        IN IF replacesGroup(r, replacee) /\ replacee # g
           THEN (gs \ {g, replacee}) \cup {g \cup replacee} ELSE gs
  IN FoldLeft(mergeOne, part, p.replaces)

\* What one constraint of package p does.
MergeOne(gs, p, r) ==
  LET g == byPackage(gs, p.name)
      replacee == byPackage(gs, r.name)
  IN IF replacesGroup(r, replacee) THEN (gs \ {g, replacee}) \cup {g \cup replacee} ELSE gs

\* What one entry of replaceMap does, its constraints in their order.
MergeReplacing(part, p) == FoldLeft(LAMBDA gs, r : MergeOne(gs, p, r), part, p.replaces)

size(g) == FoldSet(LAMBDA p, s : s + p.size, 0, g)

tiebreaker(g) == Max({p.name : p \in g})

Before(a, b) == size(a) > size(b) \/ (size(a) = size(b) /\ tiebreaker(a) < tiebreaker(b))

\* The groups in their order: each after as many as go before it.
sortedGroups(part) ==
  [k \in 1..Cardinality(part) |->
     CHOOSE g \in part : Cardinality({h \in part : Before(h, g)}) = k - 1]

\* The largest groups, the remainder merged into the last one.
Kept(part, budget) ==
  LET groups == sortedGroups(part)
      cutoff == IF budget = 0 THEN 0 ELSE budget - 1
  IN IF Len(groups) > budget
     THEN Append(SubSeq(groups, 1, cutoff), UNION Range(SubSeq(groups, cutoff + 1, Len(groups))))
     ELSE groups

ByName(g) == SetToSortSeq(g, LAMBDA p, q : p.name < q.name)

-----------------------------------------------------------------------------
\* The reference: packages that one origin or a satisfied `replaces` ties
\* together, directly or not.
Tied(p, q) == p.origin = q.origin \/ \E r \in Range(p.replaces) : replacesGroup(r, {q})

Component(pkgs, p) ==
  LET closed == {S \in SUBSET pkgs :
                   p \in S /\ \A q \in S, x \in pkgs \ S : ~Tied(q, x) /\ ~Tied(x, q)}
  IN CHOOSE S \in closed : \A T \in closed : S \subseteq T

\* The layers are those of the components: at most the budget, none cut in two,
\* the largest ones on their own and in their order.
GroupedByTies(pkgs, budget, groups) ==
  LET comps == {Component(pkgs, p) : p \in pkgs}
      alone == IF Cardinality(comps) <= budget THEN Len(groups) ELSE Len(groups) - 1
  IN /\ UNION Range(groups) = pkgs
     /\ \A i, j \in 1..Len(groups) : i # j => groups[i] \cap groups[j] = {}
     /\ pkgs # {} => Len(groups) = Min({Cardinality(comps), Max({budget, 1})})
     /\ \A i \in 1..alone :
          /\ groups[i] \in comps
          /\ \A c \in comps \ Range(SubSeq(groups, 1, i)) : Before(groups[i], c)
     /\ \A c \in comps : \E g \in Range(groups) : c \subseteq g
============================================================================
