----------------------------- MODULE MCResolver -----------------------------
\* Small repositories for Resolver: packages a = 1, b = 2 and c = 3, and a
\* virtual name v = 4.
EXTENDS Resolver

Dep(n) == [neg |-> FALSE, name |-> n, op |-> "any", ver |-> 0, pin |-> ""]
VDep(n, o, v) == [Dep(n) EXCEPT !.op = o, !.ver = v]
Not(n) == [Dep(n) EXCEPT !.neg = TRUE]
AtEdge(n) == [Dep(n) EXCEPT !.pin = "edge"]
Pkg(n, v, provides, deps) ==
  [name |-> n, ver |-> v, provides |-> provides, deps |-> deps, installIf |-> {},
   origin |-> "", prio |-> 0, pin |-> ""]
Provide(n, v) == [name |-> n, ver |-> v]
V == {{}, {Provide(4, 0)}, {Provide(4, 1)}, {Provide(4, 2)}}

\* Versions "1", "1.1" and "2_rc1", "2_rc1-r0", which is the same, and "x".
Written(numbers, pre, n) ==
  [numbers |-> numbers, letter |-> NoLetter, pre |-> pre, preNumber |-> n,
   post |-> "", postNumber |-> NoNumber, revision |-> NoNumber]
Zeroed == 4
Bad == 5
FewTexts ==
  <<Written(<<1>>, "", NoNumber), Written(<<1, 1>>, "", NoNumber), Written(<<2>>, "_rc", 1),
    [Written(<<2>>, "_rc", 1) EXCEPT !.revision = 0], Malformed>>

\* Two versions of b, versioned and negated dependencies, cycles.
Chains ==
  {<<Pkg(1, 1, {}, da), Pkg(2, 1, {}, db), Pkg(2, 2, {}, db2),
     Pkg(3, 1, {}, dc)>> :
     da \in SUBSET {Dep(2), VDep(2, "<", 2), Dep(3)}, db \in SUBSET {Dep(1), Dep(3)},
     db2 \in SUBSET {Not(3)}, dc \in {{}, {Dep(1)}, {Dep(2)}, {VDep(2, ">=", 2)}}}

\* Several providers of v, also with install-if and a competing name.
Virtuals ==
  {<<Pkg(1, 1, {}, da), Pkg(2, 1, pb, db), Pkg(2, 2, pb2, {}),
     [Pkg(3, 1, pc3, dc) EXCEPT !.installIf = if]>> :
     da \in {{Dep(4)}, {VDep(4, "<=", 1)}, {Dep(2), Dep(4)}}, db \in SUBSET {Dep(3)},
     pb \in V \ {{Provide(4, 2)}}, pb2 \in V \ {{Provide(4, 1)}},
     pc3 \in {{}, {Provide(4, 0)}, {Provide(2, 3)}},
     dc \in SUBSET {Dep(1)}, if \in {{}, {Dep(2)}, {VDep(2, "=", 1)}}}

\* Priorities, origins and pins.
Ranked ==
  {<<[Pkg(1, 1, {}, da) EXCEPT !.origin = "o1"],
     [Pkg(2, 1, {Provide(4, v)}, {}) EXCEPT !.origin = ob, !.prio = r],
     [Pkg(2, 2, {Provide(4, 2)}, {}) EXCEPT !.pin = pin],
     [Pkg(3, 3, {Provide(4, w)}, {}) EXCEPT !.origin = "o1"]>> :
     da \in {{Dep(4)}, {Dep(2), VDep(4, ">", 1)}}, v \in 0..2, w \in 0..2, r \in 0..1,
     ob \in {"", "o1"}, pin \in {"", "edge"}}

\* Two packages that need what the other provides under another name.
Knots ==
  {<<Pkg(1, 1, {Provide(3, v)}, {Dep(4)}), Pkg(2, 1, {Provide(4, w)}, {Dep(3)})>> :
     v \in 0..1, w \in 0..1}

\* Versions and constraints that cannot be read, prefixes, and the same version
\* written twice.
Unread ==
  {<<Pkg(1, 1, {}, da), Pkg(2, v, {}, {}), Pkg(2, 2, {Provide(4, w)}, {}),
     Pkg(3, x, {Provide(4, Bad)}, dc)>> :
     da \in {{Dep(2), Dep(4)}, {VDep(2, "~", 1)}, {VDep(2, "=", 3), VDep(4, ">=", 1)},
             {VDep(2, ">", Bad)}, {Dep(3), VDep(2, "=", 3)}},
     v \in {Zeroed, Bad}, w \in {2, Bad}, x \in {1, Bad},
     dc \in {{}, {Dep(2)}, {VDep(2, "~", Bad)}, {VDep(3, "=", 1)}}}

\* A circle closed by a name that is provided, with a dependency outside of it
\* or on what the package itself provides.
Circles ==
  {<<Pkg(1, 1, {Provide(4, v)}, {Dep(2), Dep(3)} \cup more), Pkg(2, 1, {}, {Dep(4)}),
     Pkg(3, 1, {}, {})>> : v \in 0..1, more \in SUBSET {VDep(4, ">=", 2)}}

\* Two versions of b that provide different names.
Splits ==
  {<<Pkg(1, 1, {}, {Dep(3)}), Pkg(2, 1, {Provide(4, v)}, {}), Pkg(2, 2, {Provide(3, w)}, {})>> :
     v \in 0..1, w \in 0..1}

Repositories ==
  Unread \cup Chains \cup Virtuals \cup Ranked \cup Knots \cup Circles \cup Splits

\* Nothing is installed by install-if.
PlainRepositories == {u \in Virtuals \cup Ranked : \A i \in DOMAIN u : u[i].installIf = {}}

SmallWorlds ==
  {<<Dep(1)>>, <<Dep(1), Dep(3)>>, <<Dep(3), VDep(2, "<", 2)>>, <<AtEdge(2), Dep(1)>>,
   <<Dep(1), Dep(4)>>, <<VDep(2, "<", 2), Dep(4)>>, <<VDep(2, "=", Bad)>>}

JustA == {<<Dep(1)>>}
OneArch == {{}}

\* One architecture, or another one that has all but version 2 of b.
OneOrTwoArchs == OneArch \cup {{{<<1, 1>>, <<2, 1>>, <<3, 1>>, <<3, 3>>}}}

UpAndDown == {[n \in Names |-> n], [n \in Names |-> 5 - n]}
=============================================================================
