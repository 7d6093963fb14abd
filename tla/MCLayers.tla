------------------------------ MODULE MCLayers ------------------------------
(* Small images and stacks of layers, for TLC.                             *)
EXTENDS Layers

Rep(n, b) == [name |-> n, below |-> b]
Pkg(n, v, o, reps, s) ==
  [name |-> n, version |-> v, origin |-> o, replaces |-> reps, size |-> s, files |-> <<>>]

File(p, k, o, t, d) ==
  [path |-> p, kind |-> k, owner |-> o, time |-> t, data |-> d, to |-> <<>>, reported |-> o # 0]

RootEntry == [kind |-> "dir", to |-> <<>>, time |-> 9, data |-> <<>>, opaque |-> FALSE]

Dir(p) == File(p, "dir", 0, 9, <<>>)
Byte(n) == <<"byte", n>>

MCComponents ==
  <<".", "a", "apk", "b", "bin", "conf", "db", "etc", "installed", "lib", "sym", "tmp", "usr">>

\* An image with directories before and after the files of its parents, an
\* empty directory, an empty file, two files of one content, a link, a symlink.
Walk(owner, data, withDB) ==
  LET all == <<
        Dir(<<"etc">>), Dir(<<"etc", "apk">>),
        File(<<"etc", "conf">>, "reg", owner[1], 1, data),
        Dir(<<"tmp">>),
        Dir(<<"usr">>), Dir(<<"usr", "bin">>),
        File(<<"usr", "bin", "a">>, "reg", owner[2], 2, <<Byte(7)>>),
        [File(<<"usr", "bin", "b">>, "link", owner[2], 2, <<Byte(7)>>) EXCEPT !.to = <<"usr", "bin", "a">>],
        Dir(<<"usr", "lib">>), Dir(<<"usr", "lib", "apk">>), Dir(<<"usr", "lib", "apk", "db">>),
        File(InstalledDB, "reg", 0, 4, <<>>),
        [File(<<"usr", "sym">>, "sym", owner[3], 3, <<>>) EXCEPT !.to = <<"etc">>]>>
  IN SelectSeq(all, LAMBDA f : withDB \/ Len(f.path) < 3)

Scenario(order, budget, walk) ==
  [pkgs |-> Range(order), order |-> order, budget |-> budget, walk |-> walk, root |-> RootEntry]

\* A package with the files it owns, after the directories they are in.
Shipping(p, walk) ==
  LET mine == {f \in Range(walk) : f.owner = p.name}
      dirs == SelectSeq(walk, LAMBDA d : d.kind = "dir"
                                /\ \E f \in mine : IsStrictPrefix(d.path, f.path))
      files == SelectSeq(walk, LAMBDA f : f \in mine)
  IN [p EXCEPT !.files = [k \in 1..Len(dirs \o files) |->
                            Header((dirs \o files)[k].path, k <= Len(dirs))]]
ScenarioOf(order, budget, walk) ==
  Scenario([k \in DOMAIN order |-> Shipping(order[k], walk)], budget, walk)

\* One package whose files are in any order, or that cannot be recorded.
Plain(path) == Header(path, FALSE)
Folder(path) == Header(path, TRUE)
Other(h) == [h EXCEPT !.attr = "other"]
Shipped == {Plain(<<"sym">>), Other(Folder(<<"lib">>)), Folder(<<"lib", "db">>),
            Plain(<<"lib", "a">>), Other(Plain(<<"lib", "db", "b">>)), Plain(<<"usr", "bin">>)}
Alone(files) == Scenario(<<[Pkg(1, 1, "o1", <<>>, 1) EXCEPT !.files = files]>>, 1, <<>>)
Recorded ==
  {Alone(s) : s \in SetToSeqs(Shipped)}
  \cup {Alone(s) : s \in {<<Folder(<<>>), Plain(<<"a">>), Folder(<<"b">>)>>, <<Other(Folder(<<>>))>>,
                         <<[Plain(<<"a">>) EXCEPT !.attr = "wide"]>>, <<Plain(<<"\n">>)>>}}
  \cup {Scenario(<<Pkg(n, 1, o, <<>>, 1)>>, 1, <<>>) : n \in {0, 1}, o \in {"o1", "\n"}}

\* Two packages and who owns the files.
Owners == {0, 1, 2}
Owned == {ScenarioOf(<<Pkg(2, 1, "o2", <<>>, s), Pkg(1, 1, "o1", <<>>, 5)>>, b,
                     Walk(<<x, y, z>>, d, TRUE))
            : s \in {3, 5}, b \in {1, 2}, x \in Owners, y \in Owners, z \in {0, 2},
              d \in {<<>>, <<Byte(7)>>}}

\* Up to four packages that replace each other, and every budget.
Reps == {<<>>, <<Rep(2, 0)>>, <<Rep(3, 2), Rep(1, 0)>>, <<Rep(4, 0), Rep(2, 0)>>}
Grouped == {Scenario(<<Pkg(1, 1, "o1", r1, 2), Pkg(2, 1, "o2", r2, 3), Pkg(3, v, "o3", r3, 2),
                       Pkg(4, 1, o, r4, 1)>>, b, <<>>)
              : r1 \in Reps, r2 \in Reps, r3 \in Reps, r4 \in {<<>>, <<Rep(3, 2)>>},
                v \in {1, 2}, o \in {"o1", "o4"}, b \in 0..3}

Empty == {Scenario(<<>>, b, Walk(<<0, 0, 0>>, <<>>, FALSE)) : b \in {0, 1}}

NoScenarios == {}

MCScenarios == Recorded \cup Owned \cup Grouped \cup Empty

\* Stacks of up to three layers over a directory, one in it and a file there.
Entry(k) == [kind |-> IF k = "opaque" THEN "dir" ELSE k, to |-> <<>>, time |-> 0, data |-> <<>>,
             opaque |-> k = "opaque"]
Kinds == {"none", "dir", "opaque", "white", "reg"}
LayerWith(a, b, c, n) ==
  LET has == (Root :> Entry("dir")) @@ (IF a = "none" THEN <<>> ELSE (<<"a">> :> Entry(a)))
             @@ (IF a \notin {"dir", "opaque"} \/ b = "none" THEN <<>> ELSE (<<"a", "b">> :> Entry(b)))
             @@ (IF a \notin {"dir", "opaque"} \/ b \notin {"dir", "opaque"} \/ c = "none" THEN <<>>
                 ELSE (<<"a", "b", "c">> :> Entry(c)))
  IN [p \in DOMAIN has |-> [has[p] EXCEPT !.time = n]]
LayersAt(n) == {LayerWith(a, b, c, n) : a \in Kinds, b \in Kinds, c \in {"none", "reg", "white"}}

MCForeignStacks ==
  {<<x>> : x \in LayersAt(1)} \cup {<<x, y>> : x \in LayersAt(1), y \in LayersAt(2)}
  \cup {<<x, y, z>> : x \in LayersAt(1), y \in LayersAt(2), z \in LayersAt(3)}
=============================================================================
