---------------------------- MODULE LayerFormats ----------------------------
(***************************************************************************)
(* An installed filesystem written as a layer: as a tar stream, which is   *)
(* replayed where the image is run (pkg/build/tarball.go), and as an EROFS *)
(* image (pkg/build/erofs.go). The two differ in hard links.               *)
(***************************************************************************)
EXTENDS TarFS
LOCAL INSTANCE SequencesExt

CONSTANT WalkOrder  \* all paths below the root as fs.WalkDir comes to them

Walk(t) == SelectSeq(WalkOrder, LAMBDA q : q \in DOMAIN t)

\* The Linkname under which info.Sys() describes the file at q, or NoPath.
hardlinkTarget(t, q) ==
  IF \E h \in t[q].hardlinks : h.path = q
  THEN (CHOOSE h \in t[q].hardlinks : h.path = q).to ELSE NoPath

Links(t) == SelectSeq(Walk(t), LAMBDA q : hardlinkTarget(t, q) # NoPath)

\* An entry as written to a layer, with a name of its own. Content is copied
\* when the size is not zero, xattrs of files and directories only.
emitEntry(e, q) ==
  [node(e.kind, q) EXCEPT
     !.data = IF e.kind = "reg" /\ Size(e) > 0 THEN Content(e) ELSE <<>>,
     !.target = e.target,
     !.attr = IF e.kind \in {"reg", "dir"} THEN e.attr ELSE [e.attr EXCEPT !["xattr"] = 0]]

\* link(2): a link to a symlink shares the symlink, a directory is refused.
bind(layer, from, q) ==
  IF from = NoPath THEN [layer EXCEPT !.ok = FALSE]
  ELSE IF layer.t[from].kind = "dir" THEN [layer EXCEPT !.ok = FALSE]
  ELSE LET e == [layer.t[from] EXCEPT !.names = @ \cup {q}]
       IN [layer EXCEPT !.t = SetNode(Put(layer.t, q, e), q, e)]

\* writeTar over walkFS, replayed: every name in the order of the walk, but for
\* the root, which is whatever the stream is unpacked in. A stream whose size and
\* content differ cannot be written.
writeTar(t) ==
  LET emit(layer, q) ==
        LET to == hardlinkTarget(t, q)
        IN IF to # NoPath THEN bind(layer, getNodeNoFollow(layer.t, "posix", to), q)
           ELSE [t |-> Put(layer.t, q, emitEntry(t[q], q)),
                 ok |-> layer.ok /\ (t[q].kind = "reg" => Size(t[q]) = Len(Content(t[q])))]
  IN FoldLeft(emit, [t |-> NewTree, ok |-> TRUE], Walk(t))

\* Faulty variant of relink: every link is a copy of its own.
Bugrelink(t, layer, q) == [layer EXCEPT !.t = Put(layer.t, q, emitEntry(t[q], q))]

\* emitErofsHardlinks: the writer looks a target up by its path, following
\* nothing; one that is not there becomes a copy.
relink(t, layer, q) ==
  LET to == hardlinkTarget(t, q)
  IN IF to \in DOMAIN layer.t THEN bind(layer, to, q)
     ELSE [layer EXCEPT !.t = Put(layer.t, q, emitEntry(t[q], q))]

\* writeErofs: hard links after everything else. The writer has a root, which is
\* given the attributes of the tree's.
writeErofs(t) ==
  LET start == [t |-> (Root :> emitEntry(t[Root], Root)), ok |-> TRUE]
      emit(layer, q) == [layer EXCEPT !.t = Put(layer.t, q, emitEntry(t[q], q))]
      plain == SelectSeq(Walk(t), LAMBDA q : hardlinkTarget(t, q) = NoPath)
  IN FoldLeft(LAMBDA layer, q : relink(t, layer, q),
              FoldLeft(emit, start, plain), Links(t))

-----------------------------------------------------------------------------
\* A recorded link whose target now is another file, or is reached through a
\* symlink.
Stale(t, q) ==
  LET to == hardlinkTarget(t, q)
  IN to # NoPath /\ to \in DOMAIN t /\ q \notin t[to].names

Detour(t, q) ==
  LET to == hardlinkTarget(t, q)
  IN to # NoPath /\ \E i \in 1..Len(to) - 1 :
       SubSeq(to, 1, i) \in DOMAIN t /\ t[SubSeq(to, 1, i)].kind = "sym"

\* Both formats give the same image below the root, shared inodes included.
FormatsAgree(t) ==
  LET tar == writeTar(t)
      erofs == writeErofs(t)
  IN tar.ok /\ (\A q \in DOMAIN t : ~Detour(t, q)) => erofs.ok /\ erofs.t = [tar.t EXCEPT ![Root] = erofs.t[Root]]

\* The EROFS image shows every file with its kind, content, target and
\* attributes, the content is the one ContentDigest describes, and a link
\* shares its target's inode.
Shows(t) ==
  LET erofs == writeErofs(t).t
      linked == {q \in DOMAIN t : hardlinkTarget(t, q) # NoPath}
  IN (\A q \in linked : ~Stale(t, q)) =>
       /\ DOMAIN erofs = DOMAIN t
       /\ \A q \in DOMAIN t :
            [erofs[q] EXCEPT !.names = {q}] =
            [emitEntry(t[q], q) EXCEPT !.data = IF t[q].kind = "reg" THEN Content(t[q]) ELSE <<>>]
       /\ \A q \in DOMAIN t : t[q].kind = "reg" => ContentDigest(t[q]) = erofs[q].data
       /\ \A q \in linked :
            hardlinkTarget(t, q) \in DOMAIN t \ linked => q \in erofs[hardlinkTarget(t, q)].names
=============================================================================
