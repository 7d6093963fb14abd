--------------------------- MODULE MCFileSystems ----------------------------
EXTENDS FileSystems

LowerNames == [n \in {"f", "F", "d", "l", ".."} |-> IF n = "F" THEN "f" ELSE n]
SomePaths == {<<"f">>, <<"F">>, <<"d">>, <<"d", "f">>}
Rel(p) == [abs |-> FALSE, to |-> p]
SomeTargets == {Rel(<<"f">>), Rel(<<"..", "f">>), Rel(<<"d">>), [abs |-> TRUE, to |-> <<"f">>]}
PackagePaths == {<<"f">>, <<"d">>, <<"d", "f">>, <<"l">>}
PackageTargets == {Rel(<<"d">>), [abs |-> TRUE, to |-> <<"f">>]}
SomeBlocks == {<<2>>}
PackageBlocks == {<<>>, <<2>>}

\* A directory with a file in it.
OldDir == NewTree @@ (<<"d">> :> node("dir", <<"d">>))
                  @@ (<<"d", "f">> :> [node("reg", <<"d", "f">>) EXCEPT !.data = <<1>>])
SomeDirs == {OldDir}

\* p2 installs into what p1, of the same origin, has installed.
Second == {"p2"}
SameOrigin == [p \in {"p1", "p2"} |-> "o"]

\* A package's file, with a second name that sorts after it.
File(q) == [node("reg", q) EXCEPT !.te = Tar!Entry("p1", <<1>>, NoTarget), !.attr["mtime"] = 1]
Linked == LET e == [File(<<"d", "f">>) EXCEPT !.names = @ \cup {<<"f">>},
                      !.hardlinks = {[path |-> <<"f">>, to |-> <<"d", "f">>]}]
          IN NewTree @@ (<<"d">> :> node("dir", <<"d">>)) @@ (<<"d", "f">> :> e) @@ (<<"f">> :> e)
SomeImages == {Linked}

Names == <<"F", "d", "f", "l">>
ByName == [i \in 1..20 |-> LET n == Names[(i - 1) \div 5 + 1]
                               j == (i - 1) % 5
                           IN IF j = 0 THEN <<n>> ELSE <<n, Names[j]>>]
NoReplaces == {}
=============================================================================
