------------------------------- MODULE MemFS --------------------------------
(***************************************************************************)
(* The in-memory filesystem of pkg/apk/fs/memfs.go as operators on a tree: *)
(* a function from the paths in use to entries. All names of one node (its *)
(* hard links) are in the entry's "names"; an operation on one of them     *)
(* shows in all. pkg/tarfs repeats this code with nodes that may be backed *)
(* by a package (te, written, hardlinks), see TarFS.                       *)
(*                                                                         *)
(* A rule says how paths are resolved: "mem" as getNode does, "posix" as a *)
(* kernel does, "disk" as os.Root does on a real directory. With the rule  *)
(* "disk" the operators stand for the system calls DirFS makes.            *)
(***************************************************************************)
EXTENDS Naturals, Sequences, FiniteSets, TLC
LOCAL INSTANCE SequencesExt

CONSTANT MaxLinks   \* maxLinks: symlinks followed inside one another

ASSUME MaxLinksAssumption == MaxLinks \in Nat \ {0}

Root == <<>>
NoPath == <<"..">>
NoContent == <<0>>
NoTarget == [abs |-> FALSE, to |-> <<>>]
NoEntry == [data |-> <<>>, sum |-> <<>>, pkg |-> "none"]
Attrs == {"mode", "owner", "mtime", "xattr"}

\* A node just made, with its only name p.
node(kind, p) ==
  [kind |-> kind, data |-> <<>>, target |-> NoTarget,
   attr |-> [a \in Attrs |-> 0], names |-> {p},
   te |-> NoEntry, written |-> FALSE, hardlinks |-> {}]

NewTree == (Root :> node("dir", Root))

\* What an operation returns: the tree it leaves and its error.
Done(t) == [t |-> t, err |-> "none"]
Failed(t, e) == [t |-> t, err |-> e]

Put(t, p, e) == (p :> e) @@ t

\* Change the node at p, which all its names show.
SetNode(t, p, e) == [q \in e.names |-> e] @@ t

\* Forget the names in ps; a node is gone with its last name.
Drop(t, ps) ==
  [q \in DOMAIN t \ ps |-> [t[q] EXCEPT !.names = @ \ ps]]

Below(t, p) == {q \in DOMAIN t : q # p /\ IsPrefix(p, q)}

\* filepath.Clean and filepath.Join: ".." is taken back textually.
Clean(p) ==
  FoldLeft(LAMBDA done, x : IF x = ".." /\ done # <<>> /\ Last(done) # ".."
                            THEN Front(done) ELSE Append(done, x), <<>>, p)

-----------------------------------------------------------------------------
(***************************************************************************)
(* Path resolution.                                                        *)
(***************************************************************************)

\* Where a symlink leads. getNode joins a relative target to the names
\* traversed so far; a kernel starts at the directory that holds the link.
LinkTarget(rule, traversed, dir, target) ==
  IF target.abs THEN target.to
  ELSE Clean((IF rule = "mem" THEN traversed ELSE dir) \o target.to)

\* os.Root refuses a link with an absolute target.
Refused(rule, target) == rule = "disk" /\ target.abs

RECURSIVE getNodeCountLinks(_, _, _, _, _, _)
getNodeCountLinks(t, rule, at, traversed, parts, depth) ==
  IF parts = <<>> THEN at
  ELSE LET child == Append(at, Head(parts))
           seen == Append(traversed, Head(parts))
       IN IF child \notin DOMAIN t THEN NoPath
          ELSE IF t[child].kind # "sym"
               THEN getNodeCountLinks(t, rule, child, seen, Tail(parts), depth)
          ELSE IF depth >= MaxLinks \/ Refused(rule, t[child].target)
               THEN NoPath
          ELSE LET to == getNodeCountLinks(t, rule, Root, Root,
                           LinkTarget(rule, traversed, at, t[child].target), depth + 1)
               IN IF to = NoPath THEN NoPath
                  ELSE getNodeCountLinks(t, rule, to, seen, Tail(parts), depth)

\* The path, free of symlinks, of the node that p names, or NoPath.
getNode(t, rule, p) == getNodeCountLinks(t, rule, Root, Root, p, 0)

\* getNodeNoFollow: the last component is not resolved.
getNodeNoFollow(t, rule, p) ==
  IF p = Root THEN Root
  ELSE LET parent == getNode(t, rule, Front(p))
           q == Append(parent, Last(p))
       IN IF parent = NoPath \/ q \notin DOMAIN t THEN NoPath ELSE q

\* openFile up to the file it opens: symlinks in the last place are followed,
\* and with create a missing file is made, at the end of dangling links too.
RECURSIVE openFile(_, _, _, _, _)

openIn(t, rule, parent, p, create, links) ==
  LET q == Append(parent, Last(p))
      none == [t |-> t, at |-> NoPath]
  IN IF parent = NoPath THEN none
     ELSE IF t[parent].kind # "dir" THEN none
     ELSE IF q \notin DOMAIN t
          THEN IF create THEN [t |-> Put(t, q, node("reg", q)), at |-> q] ELSE none
     ELSE IF t[q].kind = "dir" THEN none
     ELSE IF t[q].kind = "sym"
          THEN IF Refused(rule, t[q].target) THEN none
               ELSE openFile(t, rule, LinkTarget(rule, Front(p), parent, t[q].target),
                             create, links + 1)
     ELSE [t |-> t, at |-> q]

openFile(t, rule, p, create, links) ==
  openIn(t, rule, IF p = Root \/ links > MaxLinks THEN NoPath ELSE getNode(t, rule, Front(p)),
         p, create, links)

-----------------------------------------------------------------------------
(***************************************************************************)
(* Operations.                                                             *)
(***************************************************************************)

\* A new entry below an existing directory. Symlink, Mknod and Link do not
\* look whether the parent is one: memFS then writes to a nil map and panics.
AddBelow(t, rule, parent, p, e) ==
  LET q == Append(parent, Last(p))
  IN IF parent = NoPath THEN Failed(t, "fail")
     ELSE IF t[parent].kind # "dir"
          THEN Failed(t, IF rule = "mem" THEN "panic" ELSE "fail")
     ELSE IF q \in DOMAIN t THEN Failed(t, "exists")
     ELSE Done(Put(t, q, [e EXCEPT !.names = {q}]))

Add(t, rule, p, e) == AddBelow(t, rule, getNode(t, rule, Front(p)), p, e)

Mkdir(t, rule, p) ==
  LET r == Add(t, rule, p, node("dir", p))
  IN IF r.err = "panic" THEN Failed(t, "fail") ELSE r

\* Symlink and Mknod give the new node its directory's time, unlike a kernel.
AddTimed(t, rule, p, e) ==
  LET parent == getNode(t, rule, Front(p))
  IN AddBelow(t, rule, parent, p,
       IF rule = "disk" \/ parent = NoPath THEN e
       ELSE [e EXCEPT !.attr["mtime"] = t[parent].attr["mtime"]])

Symlink(t, rule, target, p) ==
  AddTimed(t, rule, p, [node("sym", p) EXCEPT !.target = target])

Mknod(t, rule, p) == AddTimed(t, rule, p, node("dev", p))

\* Each part is made if missing; a symlink must lead to a directory.
MkdirAll(t, rule, p) ==
  LET part(r, x) ==
        LET q == Append(r.at, x)
            seen == Append(r.seen, x)
        IN IF r.at = NoPath THEN r
           ELSE IF q \notin DOMAIN r.t
                THEN [t |-> Put(r.t, q, node("dir", q)), at |-> q, seen |-> seen]
           ELSE LET to == IF r.t[q].kind # "sym" THEN q
                          ELSE IF Refused(rule, r.t[q].target) THEN NoPath
                          ELSE getNode(r.t, rule,
                                 LinkTarget(rule, r.seen, r.at, r.t[q].target))
                IN [t |-> r.t, seen |-> seen,
                    at |-> IF to = NoPath THEN NoPath
                           ELSE IF r.t[to].kind = "dir" THEN to ELSE NoPath]
      end == FoldLeft(part, [t |-> t, at |-> Root, seen |-> Root], p)
  IN IF end.at = NoPath THEN Failed(end.t, "fail") ELSE Done(end.t)

\* A hard link: p becomes another name of the node old leads to. os.Root
\* does not follow a symlink in the last place of old, nor link directories.
Link(t, rule, old, p) ==
  LET from == IF rule # "disk" THEN getNode(t, rule, old)
              ELSE getNodeNoFollow(t, rule, old)
      parent == getNode(t, rule, Front(p))
      q == Append(parent, Last(p))
  IN IF parent = NoPath \/ from = NoPath THEN Failed(t, "fail")
     ELSE IF t[parent].kind # "dir"
          THEN Failed(t, IF rule = "mem" THEN "panic" ELSE "fail")
     ELSE IF q \in DOMAIN t THEN Failed(t, "exists")
     ELSE IF t[from].kind = "dir" /\ rule = "disk" THEN Failed(t, "fail")
     ELSE LET e == [t[from] EXCEPT !.names = @ \cup {q}]
          IN Done(SetNode(Put(t, q, e), q, e))

\* memFS removes a directory with everything below it, a kernel only an
\* empty one.
RemoveName(t, rule, p) ==
  LET parent == getNode(t, rule, Front(p))
      q == Append(parent, Last(p))
  IN IF parent = NoPath \/ q \notin DOMAIN t THEN Failed(t, "fail")
     ELSE IF rule = "disk" /\ Below(t, q) # {} THEN Failed(t, "fail")
     ELSE Done(Drop(t, {q} \cup Below(t, q)))

Readlink(t, rule, p) ==
  LET q == getNodeNoFollow(t, rule, p)
  IN IF q = NoPath THEN NoTarget
     ELSE IF t[q].kind = "sym" THEN t[q].target ELSE NoTarget

Stat(t, rule, p) ==
  LET q == getNode(t, rule, p) IN IF q = NoPath THEN "fail" ELSE t[q].kind

\* One write of one block through a file opened with a flag: "trunc",
\* "append", or neither, which overwrites in place (newMemFile, memFile.Write).
Written(data, flag, block) ==
  CASE flag = "trunc" -> block
    [] flag = "append" -> data \o block
    [] OTHER -> block \o SubSeq(data, Len(block) + 1, Len(data))

Store(f, flag, block) ==
  IF f.at = NoPath THEN Failed(f.t, "fail")
  ELSE Done(SetNode(f.t, f.at, [f.t[f.at] EXCEPT !.data = Written(@, flag, block)]))

WriteFile(t, rule, p, block) == Store(openFile(t, rule, p, TRUE, 0), "trunc", block)

\* OpenFile, a write and Close. An O_TRUNC open empties the file by itself.
OpenWrite(t, rule, p, create, flag, block) ==
  Store(openFile(t, rule, p, create, 0), flag, block)

Load(f) == IF f.at = NoPath THEN NoContent ELSE f.t[f.at].data

ReadFile(t, rule, p) == Load(openFile(t, rule, p, FALSE, 0))

ReadDir(t, rule, p) ==
  LET d == getNode(t, rule, p)
  IN IF d = NoPath THEN {"fail"}
     ELSE IF t[d].kind # "dir" THEN {"fail"}
     ELSE {Last(q) : q \in {c \in Below(t, d) : Len(c) = Len(d) + 1}}

SetAttr(t, p, a) ==
  IF p = NoPath THEN Failed(t, "fail")
  ELSE Done(SetNode(t, p, [t[p] EXCEPT !.attr[a] = 1]))

Chmod(t, rule, p) == SetAttr(t, getNode(t, rule, p), "mode")
Chown(t, rule, p) == SetAttr(t, getNode(t, rule, p), "owner")
Lchown(t, rule, p) == SetAttr(t, getNodeNoFollow(t, rule, p), "owner")
Chtimes(t, rule, p) == SetAttr(t, getNode(t, rule, p), "mtime")
SetXattr(t, rule, p) == SetAttr(t, getNode(t, rule, p), "xattr")
RemoveXattr(t, rule, p) ==
  LET q == getNode(t, rule, p)
  IN IF q = NoPath THEN Failed(t, "fail")
     ELSE Done(SetNode(t, q, [t[q] EXCEPT !.attr["xattr"] = 0]))
=============================================================================
