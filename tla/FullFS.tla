------------------------------- MODULE FullFS -------------------------------
(***************************************************************************)
(* What an apko filesystem (FullFS in pkg/apk/fs/fs.go) promises its       *)
(* callers: one case-sensitive tree, resolved as a kernel resolves paths,  *)
(* on which every operation takes effect as a whole or fails; a package's  *)
(* entry has the package's time, and a symlink or device its directory's.  *)
(* The on-disk and the package-backed filesystem are shown to implement    *)
(* it, until a caller does one of the things they do not support.          *)
(***************************************************************************)
EXTENDS MemFS

CONSTANTS
  Paths,    \* the paths operations are called with
  Targets,  \* the targets of symlinks
  Blocks,   \* what is written to files, the empty file too
  Seeds     \* the trees there may be to begin with

VARIABLES
  tree,     \* the tree, or Unsupported
  last      \* the last operation, its path and its error

vars == <<tree, last>>

\* No tree at all, where even the root is missing.
Unsupported == [p \in {} |-> p]

Init == tree \in Seeds /\ last = [op |-> "new", path |-> Root, err |-> "none"]

\* A package's directory is made with its parents and given its time.
InstallDir(t, p, xattr) ==
  LET made == MkdirAll(t, "posix", p)
      timed == Chtimes(made.t, "posix", p)
  IN IF made.err # "none" THEN made
     ELSE IF xattr THEN SetXattr(timed.t, "posix", p) ELSE timed

\* A package's file or symlink takes the place of the one that was there, as
\* a new file of one name.
Placed(t, p, b, to) ==
  LET parent == getNode(t, "posix", SubSeq(p, 1, Len(p) - 1))
      q == Append(parent, p[Len(p)])
      kind == IF to = NoTarget THEN "reg" ELSE "sym"
  IN IF parent = NoPath THEN t
     ELSE Put(IF q \in DOMAIN t THEN Drop(t, {q}) ELSE t, q,
              [node(kind, q) EXCEPT !.data = b, !.target = to, !.attr["mtime"] = 1])

\* It is refused, skipped or put in place. Which of the three is the business
\* of Installer; the xattrs are set in the last two cases.
InstallFile(t, p) ==
  LET Marked(x) == {x, SetXattr(x, "posix", p).t}
      files == {Placed(t, p, b, NoTarget) : b \in Blocks}
      links == {Placed(t, p, <<>>, to) : to \in Targets}
  IN {Failed(t, e) : e \in {"fail", "conflict"}}
     \cup {Failed(x, "skipped") : x \in Marked(t)}
     \cup {Done(x) : x \in links \cup UNION {Marked(x) : x \in files}}

\* The results an operation on p may have.
Outcomes(t, op, p) ==
  CASE op = "Mkdir" -> {Mkdir(t, "posix", p)}
    [] op = "MkdirAll" -> {MkdirAll(t, "posix", p)}
    [] op = "Remove" -> {RemoveName(t, "posix", p)}
    [] op = "Mknod" -> {Mknod(t, "posix", p)}
    [] op = "Symlink" -> {Symlink(t, "posix", to, p) : to \in Targets}
    [] op = "Link" -> {Link(t, "posix", old, p) : old \in Paths}
    [] op = "WriteFile" -> {WriteFile(t, "posix", p, b) : b \in Blocks}
    [] op = "OpenFile" ->
         {OpenWrite(t, "posix", p, create, flag, b) :
            create \in BOOLEAN, flag \in {"trunc", "append", "over"}, b \in Blocks}
    [] op = "Chmod" -> {Chmod(t, "posix", p)}
    [] op = "Chown" -> {Chown(t, "posix", p)}
    [] op = "Lchown" -> {Lchown(t, "posix", p)}
    [] op = "Chtimes" -> {Chtimes(t, "posix", p)}
    [] op = "SetXattr" -> {SetXattr(t, "posix", p)}
    [] op = "RemoveXattr" -> {RemoveXattr(t, "posix", p)}
    [] op = "InstallDir" -> {InstallDir(t, p, xattr) : xattr \in BOOLEAN}
    [] op = "WriteHeader" -> InstallFile(t, p)

\* One operation, on the whole tree; or something that is not supported.
Next ==
  LET then == tree'
  IN \/ then = Unsupported
     \/ /\ Root \in DOMAIN tree
        /\ last'.path \in Paths
        /\ [t |-> then, err |-> last'.err] \in Outcomes(tree, last'.op, last'.path)

Spec == Init /\ [][Next]_vars
=============================================================================
