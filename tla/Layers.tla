------------------------------- MODULE Layers -------------------------------
(***************************************************************************)
(* An installed filesystem cut into layers: as tars (splitLayers), as      *)
(* plans that are rendered later (planLayers, Render) and as EROFS images  *)
(* (splitErofsLayers), and EROFS layers, these or another builder's, read  *)
(* as a stack. Before that the installed database is written. The jobs     *)
(* follow each other over one filesystem; each may fail at any step.       *)
(*                                                                         *)
(* A file is [path, kind, owner, time, data, to, reported]: kind "dir",    *)
(* "reg", "sym" or "link" (with target `to`); owner a package name, or 0   *)
(* for none; `reported` when the package came with the content's digest.   *)
(***************************************************************************)
EXTENDS LayerGroups, LayerStack, InstalledFormat, TLC

CONSTANTS
  Scenarios,      \* [pkgs, order, budget, walk, root]: packages, and in the order in
                  \* which they are installed, layer budget, walked files, the root
  ForeignStacks   \* stacks of EROFS layers made by others

InstalledDB == <<"usr", "lib", "apk", "db", "installed">>

\* What a walk of the filesystem comes to: every path once, after the directories
\* it is in. Directories and the installed database are no package's.
IsWalk(walk) ==
  /\ walk \in Seq(Range(walk))
  /\ \A k \in DOMAIN walk :
       LET f == walk[k]
       IN /\ DOMAIN f = {"path", "kind", "owner", "time", "data", "to", "reported"}
          /\ f.path \in Seq(STRING) \ {Root} /\ f.kind \in {"dir", "reg", "sym", "link"}
          /\ f.kind = "dir" \/ f.path = InstalledDB => f.owner = 0
          /\ f.path = InstalledDB => f.kind = "reg"
          /\ \A j \in DOMAIN walk : walk[j].path = f.path => j = k
          /\ \A n \in 1..Len(f.path) - 1 :
               \E j \in 1..k - 1 : walk[j].path = SubSeq(f.path, 1, n) /\ walk[j].kind = "dir"

ASSUME LayersAssumption ==
  /\ \A s \in Scenarios :
       /\ DOMAIN s = {"pkgs", "order", "budget", "walk", "root"}
       /\ ArePackages(s.pkgs) /\ s.budget \in Nat
       /\ IsWalk(s.walk) /\ s.root.kind = "dir" /\ ~s.root.opaque
  /\ \A stk \in ForeignStacks : IsStack(stk)

VARIABLES
  sc,        \* the build
  job,        \* the job that runs, "done" or "failed"
  part,      \* groupByOriginAndSize: the groups so far
  replaceMap,\* packages whose replaces are still to be looked at
  groups,    \* the groups kept
  pos,       \* files walked, or packages recorded
  stack,     \* partitionLayers: the main stack of directories
  stacks,    \* the stack of each layer
  out,       \* what each layer of the job got: sequences, or EROFS images
  disk,      \* layer files in the temporary directory
  digests,   \* digestFiles: paths digested so far
  made       \* the results: db, diffs, tar, plans, content, rendered, erofs, stack

layersVars == <<sc, job, part, replaceMap, groups, pos, stack, stacks, out,
          disk, digests, made>>

Top == Len(groups) + 1
Layer == 1..Top

\* A header with a size and of a kind that has content.
hasContent(f, data) == f.kind = "reg" /\ Len(data) > 0

\* The part of the installed database that goes into a group's layer.
partialDB(i) ==
  FlattenSeq([k \in 1..Len(ByName(groups[i])) |-> made.diffs[ByName(groups[i])[k].name]])

\* "no layer for package": then there are no layers at all (Fail).
hasLayer(f) == f.owner = 0 \/ \E i \in 1..Len(groups) : \E p \in groups[i] : p.name = f.owner

\* The layer of a file: that of the package that owns it, else the top one.
layerOf(f) ==
  IF f.owner = 0 THEN Top
  ELSE CHOOSE i \in 1..Len(groups) : \E p \in groups[i] : p.name = f.owner

-----------------------------------------------------------------------------
(* recordInstalled, and groupByOriginAndSize: replaceMap is walked in any  *)
(* order.                                                                  *)

\* No build: apko only reads layers.
NoBuild == [pkgs |-> {}, order |-> <<>>, budget |-> 0, walk |-> <<>>, root |-> <<>>]

LayersInit ==
  /\ sc \in Scenarios \cup {NoBuild}
  /\ job = IF sc = NoBuild THEN "ls" ELSE "record"
  /\ part = byOrigin(sc.pkgs)
  /\ replaceMap = {p \in sc.pkgs : p.replaces # <<>>}
  /\ groups = <<>> /\ pos = 0 /\ stack = <<>> /\ stacks = <<>>
  /\ out = <<>> /\ disk = {} /\ digests = {}
  /\ made = [db |-> <<>>, diffs |-> <<>>, tar |-> <<>>, plans |-> <<>>, content |-> <<>>, rendered |-> <<>>,
             erofs |-> <<>>, stack |-> <<>>]

\* AddInstalledPackage, of the next package.
RecordPackage ==
  /\ job = "record" /\ pos < Len(sc.order) /\ ~Refused(sc.order[pos + 1])
  /\ LET p == sc.order[pos + 1]
     IN made' = [made EXCEPT !.db = @ \o RecordOf(p), !.diffs = @ @@ (p.name :> RecordOf(p))]
  /\ pos' = pos + 1
  /\ UNCHANGED <<sc, job, part, replaceMap, groups, stack, stacks, out, disk, digests>>

\* The walk will come to the database as it is now.
FinishRecord ==
  /\ job = "record" /\ pos = Len(sc.order)
  /\ sc' = [sc EXCEPT !.walk = [k \in DOMAIN @ |->
              IF @[k].path = InstalledDB THEN [@[k] EXCEPT !.data = made.db] ELSE @[k]]]
  /\ job' = "group" /\ pos' = 0
  /\ UNCHANGED <<part, replaceMap, groups, stack, stacks, out, disk, digests, made>>

MergeReplaced ==
  /\ job = "group"
  /\ \E p \in replaceMap : /\ part' = MergeReplacing(part, p)
                           /\ replaceMap' = replaceMap \ {p}
  /\ UNCHANGED <<sc, job, groups, pos, stack, stacks, out, disk, digests, made>>

\* A job starts with no file walked.
Begin(next) ==
  /\ job' = next /\ pos' = 0 /\ stack' = <<>>

PickGroups ==
  /\ job = "group" /\ replaceMap = {}
  /\ groups' = Kept(part, sc.budget)
  /\ Begin("tar")
  /\ stacks' = [i \in 1..Len(groups') + 1 |-> <<>>]
  /\ out' = <<>>
  /\ UNCHANGED <<sc, part, replaceMap, disk, digests, made>>

\* The file for the next writer, and those of the writers that are open.
nextFile == <<job, Len(out) + 1>>

opened == {<<job, i>> : i \in 1..Len(out)}

\* What is left when a job fails: newOpenWriter (or newErofsLayerFile) removes the
\* file it has no writer for, and the deferred cleanup of splitLayers and
\* splitErofsLayers those of the writers it has opened.
cleanup(files) == files \ (opened \cup {nextFile})

Fail ==
  /\ job \in {"record", "tar", "plan", "digest", "render", "erofs"}
  /\ job' = "failed"
  /\ disk' = cleanup(disk)
  /\ UNCHANGED <<sc, part, replaceMap, groups, pos, stack, stacks, out, digests, made>>

\* A writer for each layer, opened one by one before the walk: a file, then the
\* writer to it. A plan has neither.
CreateLayerFile ==
  /\ job \in {"tar", "erofs"} /\ Len(out) < Top /\ nextFile \notin disk
  /\ disk' = disk \cup {nextFile}
  /\ UNCHANGED <<sc, job, part, replaceMap, groups, pos, stack, stacks, out, digests, made>>

OpenWriter ==
  /\ job \in {"tar", "erofs"} /\ Len(out) < Top /\ nextFile \in disk
  /\ out' = Append(out, IF job = "tar" THEN <<>> ELSE [p \in {Root} |-> sc.root])
  /\ UNCHANGED <<sc, job, part, replaceMap, groups, pos, stack, stacks, disk, digests, made>>

-----------------------------------------------------------------------------
(* partitionLayers, into tars and plans.                                   *)

\* The main stack when f is walked: a directory pops those that are not its
\* parents; other files leave the stack as it is.
mainStack(dirs, f) ==
  LET parents == {k \in 1..Len(dirs) : dirs[k] = parentOf(f.path)}
  IN IF f.kind # "dir" THEN dirs
     ELSE Append(SubSeq(dirs, 1, Max({0} \cup parents)), f.path)

\* Faulty variant of missing: the whole stack is written again when it differs.
Bugmissing(old, main) == IF old = main THEN <<>> ELSE main

\* alignStacks: the directories of the main stack that the layer has not got.
missing(old, main) ==
  LET same == {i \in 0..Min({Len(old), Len(main)}) :
                 \A k \in 1..i : old[k] = main[k]}
  IN SubSeq(main, Max(same) + 1, Len(main))

\* What the sinks make of an entry: tarSink copies the content into the layer,
\* planner notes the header and, for generated content, its digest.
digestOf(f) == <<IF f.reported THEN "reported" ELSE "sha256", f.data>>

tarEntry(f, time, data) ==
  [path |-> f.path, kind |-> f.kind, to |-> f.to, time |-> time, size |-> Len(data),
   data |-> IF hasContent(f, data) THEN data ELSE <<>>]

planEntry(f, time, data, digest, planned) ==
  [path |-> f.path, kind |-> f.kind, to |-> f.to, time |-> time, size |-> Len(data),
   digest |-> digest, planned |-> planned]

add(sink, f, time) ==
  IF sink = "tar" THEN tarEntry(f, time, f.data)
  ELSE planEntry(f, time, f.data, <<>>, hasContent(f, f.data))

\* Faulty variant of addData: the digest is that of the whole file.
BugaddData(sink, f, data) ==
  IF sink = "tar" THEN tarEntry(f, f.time, data)
  ELSE planEntry(f, f.time, data, IF hasContent(f, data) THEN <<"sha256", f.data>> ELSE <<>>, FALSE)

addData(sink, f, data) ==
  IF sink = "tar" THEN tarEntry(f, f.time, data)
  ELSE planEntry(f, f.time, data, IF hasContent(f, data) THEN <<"sha256", data>> ELSE <<>>, FALSE)

fileAt(p) == sc.walk[CHOOSE i \in 1..Len(sc.walk) : sc.walk[i].path = p]

\* Directories a layer lacks get the time of the file they are there for.
replicate(sink, todo, time) == [k \in 1..Len(todo) |-> add(sink, fileAt(todo[k]), time)]

\* alignStacks leaves every layer's stack at the main one.
alignedWith(i, main) == main

\* The layers that get a part of the installed database besides f.
Parted(f) == IF f.path = InstalledDB THEN 1..Len(groups) ELSE {}

\* A directory may be the last one its own layer lacks; it is not written twice.
without(dirs, f) == IF dirs # <<>> /\ Last(dirs) = f.path THEN Front(dirs) ELSE dirs

\* What a layer gets when f is walked: f with the directories it needs there, and
\* its part of the database with those that needs.
written(sink, main, old, f, g) ==
  LET own == g = layerOf(f)
      lacks == missing(IF own THEN main ELSE old, main)
  IN (IF own THEN Append(replicate(sink, without(missing(old, main), f), f.time), add(sink, f, f.time))
      ELSE <<>>)
     \o (IF g \in Parted(f)
         THEN Append(replicate(sink, lacks, f.time), addData(sink, f, partialDB(g))) ELSE <<>>)

Visit ==
  /\ job \in {"tar", "plan"} /\ Len(out) = Top /\ pos < Len(sc.walk) /\ hasLayer(sc.walk[pos + 1])
  /\ LET f == sc.walk[pos + 1]
         main == mainStack(stack, f)
     IN /\ stack' = main
        /\ stacks' = [g \in Layer |-> IF g \in Parted(f) \cup {layerOf(f)}
                                      THEN alignedWith(g, main) ELSE stacks[g]]
        /\ out' = [g \in Layer |-> out[g] \o written(job, main, stacks[g], f, g)]
  /\ pos' = pos + 1
  /\ UNCHANGED <<sc, job, part, replaceMap, groups, disk, digests, made>>

Walked == Len(out) = Top /\ pos = Len(sc.walk)

FinishTar ==
  /\ job = "tar" /\ Walked
  /\ made' = [made EXCEPT !.tar = out]
  /\ Begin("plan")
  /\ stacks' = [i \in Layer |-> <<>>] /\ out' = [i \in Layer |-> <<>>]
  /\ UNCHANGED <<sc, part, replaceMap, groups, disk, digests>>

-----------------------------------------------------------------------------
(* Plans: files are digested in parallel, then rendered by digest.         *)

\* The entries of the plans whose content is a file's, layer by layer.
planned ==
  UNION {{<<i, k>> : k \in {j \in 1..Len(out[i]) : out[i][j].planned}} : i \in Layer}

pathAt(place) == out[place[1]][place[2]].path

Planned == {pathAt(place) : place \in planned}

StartDigests ==
  /\ job = "plan" /\ Walked
  /\ job' = "digest"
  /\ UNCHANGED <<sc, part, replaceMap, groups, pos, stack, stacks, out, disk, digests, made>>

DigestFile(p) ==
  /\ job = "digest" /\ p \in Planned \ digests
  /\ digests' = digests \cup {p}
  /\ UNCHANGED <<sc, job, part, replaceMap, groups, pos, stack, stacks, out, disk, made>>

\* Generated content by its digest, and the first path planned with a digest.
inlineContent ==
  LET generated == (UNION {{out[i][k].digest : k \in 1..Len(out[i])} : i \in Layer}) \ {<<>>}
  IN [d \in generated |-> d[2]]

pathContent ==
  LET digestAt(place) == digestOf(fileAt(pathAt(place)))
      before(p, q) == p[1] < q[1] \/ (p[1] = q[1] /\ p[2] < q[2])
      first(d) == CHOOSE p \in planned : /\ digestAt(p) = d
                                         /\ \A q \in planned : before(q, p) => digestAt(q) # d
  IN [d \in {digestAt(p) : p \in planned} |-> pathAt(first(d))]

Digested ==
  /\ job = "digest" /\ digests = Planned
  /\ made' = [made EXCEPT
       !.plans = [i \in Layer |-> [k \in 1..Len(out[i]) |->
                    IF out[i][k].planned
                    THEN [out[i][k] EXCEPT !.digest = digestOf(fileAt(out[i][k].path))]
                    ELSE out[i][k]]],
       !.content = [inline |-> inlineContent, paths |-> pathContent],
       !.rendered = [i \in Layer |-> <<>>]]
  /\ job' = "render" /\ pos' = 0
  /\ UNCHANGED <<sc, part, replaceMap, groups, stack, stacks, out, disk, digests>>

\* LayerContent.open
openContent(d) ==
  IF d \in DOMAIN made.content.inline THEN made.content.inline[d]
  ELSE fileAt(made.content.paths[d]).data

rendered(e) ==
  [path |-> e.path, kind |-> e.kind, to |-> e.to, time |-> e.time, size |-> e.size,
   data |-> IF e.kind = "reg" /\ e.size > 0 THEN openContent(e.digest) ELSE <<>>]

Render ==
  /\ job = "render" /\ pos < Top
  /\ made' = [made EXCEPT !.rendered[pos + 1] =
                [k \in 1..Len(made.plans[pos + 1]) |-> rendered(made.plans[pos + 1][k])]]
  /\ pos' = pos + 1
  /\ UNCHANGED <<sc, job, part, replaceMap, groups, stack, stacks, out, disk, digests>>

FinishRender ==
  /\ job = "render" /\ pos = Top
  /\ Begin("erofs")
  /\ out' = <<>>
  /\ UNCHANGED <<sc, part, replaceMap, groups, stacks, disk, digests, made>>

-----------------------------------------------------------------------------
(* splitErofsLayers. A link becomes a file of its own in a split image.    *)

image(f, time, data) ==
  [kind |-> IF f.kind = "link" THEN "reg" ELSE f.kind, to |-> IF f.kind = "sym" THEN f.to ELSE <<>>,
   time |-> time, data |-> data, opaque |-> FALSE]

ancestors(p) == {SubSeq(p, 1, k) : k \in 1..Len(p) - 1}

\* The ancestors an image lacks come with the time of the file they are there for.
emitInto(im, f, data) ==
  [p \in DOMAIN im \cup ancestors(f.path) \cup {f.path} |->
     IF p \in DOMAIN im THEN im[p]
     ELSE IF p = f.path THEN image(f, f.time, data) ELSE image(fileAt(p), f.time, <<>>)]

\* Faulty variant of emit: directories come only as ancestors of files.
Bugemit(im, f, data) ==
  IF f.path \in DOMAIN im \/ f.kind = "dir" THEN im ELSE emitInto(im, f, data)

\* A file and the ancestors it needs, unless the image has it.
emit(im, f, data) == IF f.path \in DOMAIN im THEN im ELSE emitInto(im, f, data)

VisitErofs ==
  /\ job = "erofs" /\ Len(out) = Top /\ pos < Len(sc.walk) /\ hasLayer(sc.walk[pos + 1])
  /\ LET f == sc.walk[pos + 1]
         withPart == [g \in Layer |->
                        IF g \in Parted(f) THEN emit(out[g], f, partialDB(g)) ELSE out[g]]
     IN out' = [withPart EXCEPT ![layerOf(f)] = emit(@, f, f.data)]
  /\ pos' = pos + 1
  /\ UNCHANGED <<sc, job, part, replaceMap, groups, stack, stacks, disk, digests, made>>

\* The layers are read back as a stack, or somebody else's are (apko erofs ls).
FinishErofs ==
  /\ job = "erofs" /\ Walked
  /\ made' = [made EXCEPT !.erofs = out, !.stack = out]
  /\ job' = "done"
  /\ UNCHANGED <<sc, part, replaceMap, groups, pos, stack, stacks, out, disk, digests>>

ReadForeign ==
  /\ job = "ls"
  /\ \E s \in ForeignStacks : made' = [made EXCEPT !.stack = s]
  /\ job' = "done"
  /\ UNCHANGED <<sc, part, replaceMap, groups, pos, stack, stacks, out, disk, digests>>

LayersNext ==
  \/ RecordPackage \/ FinishRecord \/ MergeReplaced \/ PickGroups \/ CreateLayerFile \/ OpenWriter \/ Visit
  \/ FinishTar \/ StartDigests
  \/ \E p \in {sc.walk[k].path : k \in 1..Len(sc.walk)} : DigestFile(p)
  \/ Digested \/ Render \/ FinishRender \/ VisitErofs \/ FinishErofs \/ ReadForeign \/ Fail

LayersSpec == LayersInit /\ [][LayersNext]_layersVars

-----------------------------------------------------------------------------
(* Properties.                                                             *)

\* The main stack is one chain of directories, and so is every layer's; the
\* layers of a job are the writers it opened.
LayersTypeOK ==
  /\ job \in {"record", "group", "tar", "plan", "digest", "render", "erofs", "ls", "done", "failed"}
  /\ UNION part = sc.pkgs
  /\ pos \in 0..Max({Len(sc.order), Len(sc.walk), Top})
  /\ \A s \in {stack} \cup Range(stacks) : \A k \in 1..Len(s) :
       s[k] # Root /\ (parentOf(s[k]) = IF k = 1 THEN Root ELSE s[k - 1])
  /\ disk \subseteq {"tar", "erofs"} \X Layer

\* groupByOriginAndSize gives the same layers whatever the order in which it
\* walks its maps: those of the packages tied by origin or `replaces`.
GroupsOrderless ==
  groups # <<>> => GroupedByTies(sc.pkgs, sc.budget, groups)

\* The filesystem the layers stand for. A link shows its target's file.
Image ==
  [p \in {sc.walk[k].path : k \in 1..Len(sc.walk)} |->
     LET f == fileAt(p)
     IN [kind |-> IF f.kind = "link" THEN "reg" ELSE f.kind,
         to |-> IF f.kind = "sym" THEN f.to ELSE <<>>, time |-> f.time, data |-> f.data]]

\* Layers of tar entries unpacked one over the other.
Unpacked(layers) ==
  LET put(t, e) == (e.path :> (IF e.kind = "link" THEN t[e.to]
                               ELSE [kind |-> e.kind, to |-> IF e.kind = "sym" THEN e.to ELSE <<>>,
                                     time |-> e.time, data |-> e.data])) @@ t
  IN FoldLeft(put, <<>>, FlattenSeq(layers))

\* Unpacking the layers of splitLayers gives back the filesystem: each file with
\* its content and time, the whole database and not a group's part of it.
TarLayersGiveImage == made.tar # <<>> => Unpacked(made.tar) = Image

\* The database can be read and lists the packages recorded, with their directories
\* and the names of their files however their archives are ordered, and with the
\* files' places where parents come first; it reads the same when it is a base
\* image's and is written anew (cleanTarHeaders, AddInstalledPackage, ParseInstalled).
DatabaseReadsBack == ReadsBack(made.db, SubSeq(sc.order, 1, Cardinality(DOMAIN made.diffs)))

\* In each tar layer nothing comes twice, parents come before what is in them
\* (a runtime that makes no parents must be able to unpack it), and a package's
\* files are in its layer only. The layer's database reads as the records of its
\* packages, and what they list is there.
InItsLayer ==
  made.tar # <<>> =>
    /\ \A i \in Layer : \A k \in 1..Len(made.tar[i]) :
         LET e == made.tar[i][k]
         IN /\ \A j \in 1..k - 1 : made.tar[i][j].path # e.path
            /\ Len(e.path) > 1 => \E j \in 1..k - 1 : made.tar[i][j].path = parentOf(e.path)
            /\ e.kind # "dir" /\ e.path # InstalledDB => i = layerOf(fileAt(e.path))
    /\ InstalledDB \in DOMAIN Image =>
         \A i \in 1..Len(groups) :
           \E e \in Range(made.tar[i]) :
             /\ e.path = InstalledDB
             /\ ReadsBack(e.data, ByName(groups[i]))
             /\ \A p \in groups[i] : \A f \in Reachable(p) :
                  \E x \in Range(made.tar[i]) : x.path = f.path /\ (x.kind = "dir") = f.dir

\* "Rendering the plans produces the same layers as BuildLayers", whatever the
\* order in which files are digested.
RenderSame ==
  job \in {"render", "erofs", "done"} /\ sc # NoBuild =>
    \A i \in Layer : made.rendered[i] # <<>> => made.rendered[i] = made.tar[i]

\* A group's layer does not depend on when the directories it shares with other
\* packages were changed: they have the time of a file of the layer. An EROFS
\* layer has no directory but those its files need.
OwnTimes ==
  /\ made.tar # <<>> =>
       \A i \in 1..Len(groups) : \A d \in Range(made.tar[i]) : d.kind = "dir" =>
         \E e \in Range(made.tar[i]) : e.kind # "dir" /\ e.time = d.time
  /\ made.erofs # <<>> =>
       \A i \in 1..Len(groups) : \A d \in DOMAIN made.erofs[i] \ {Root} :
         made.erofs[i][d].kind = "dir" =>
           \E p \in DOMAIN made.erofs[i] : /\ IsStrictPrefix(d, p)
                                           /\ made.erofs[i][p].kind # "dir"
                                           /\ made.erofs[i][p].time = made.erofs[i][d].time

Shown(e) == [kind |-> e.kind, to |-> e.to, time |-> e.time, data |-> e.data]

\* The stack of EROFS layers shows the filesystem, directories without files
\* and their times included, and the same one the tar layers give.
StackShowsImage ==
  made.erofs # <<>> =>
    LET view == View(made.erofs) IN [p \in DOMAIN view |-> Shown(view[p])] = Image

\* Whatever the kernel would show of a stack of layers, Stack shows as the same
\* entry. It shows no more than that unless a directory was deleted, or its place
\* taken, and made again above that (Stack.lookup looks past layers without it).
StackShowsOverlay == made.stack # <<>> => ShowsOverlay(made.stack)

\* "applying the overlay semantics the kernel would apply if the same layers were
\* assembled as overlayfs lowerdirs" (stack.go:28-30): what Stack shows is what the
\* kernel shows, in every stack. It is not: see StackShowsOverlay.
StackIsKernelView == made.stack # <<>> => View(made.stack) = OverlayView(made.stack)

\* Listing a directory and opening a name in it agree, for every directory.
ReadDirIsLookup == made.stack # <<>> => ListsWhatItFinds(made.stack)

\* Between the jobs that write layers, and after any failure, the temporary
\* directory holds the files of the layers that were made and no others: a build
\* that is tried again there "does not accumulate leftovers" (layers.go:277).
NoStrayFiles ==
  job \notin {"tar", "erofs"} =>
    disk = {f \in {"tar", "erofs"} \X Layer : IF f[1] = "tar" THEN made.tar # <<>> ELSE made.erofs # <<>>}

\* The tar layers are the image and each is complete by itself, or there are
\* none (splitLayers, recordInstalled).
TarLayers ==
  LayersTypeOK /\ DatabaseReadsBack /\ TarLayersGiveImage /\ InItsLayer /\ NoStrayFiles

\* The EROFS layers stacked are the image, and no layer depends on packages of
\* another (splitErofsLayers).
ErofsLayers == StackShowsImage /\ OwnTimes

\* Stack is to its readers what the kernel is (lookup, mergeDir).
StackLikeOverlay == StackShowsOverlay /\ ReadDirIsLookup
=============================================================================
