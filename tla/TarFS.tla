------------------------------- MODULE TarFS --------------------------------
(***************************************************************************)
(* The filesystem packages are installed into, pkg/tarfs/fs.go: the tree   *)
(* of MemFS whose files may be backed by a package. Their content is read  *)
(* from the package until the file is opened to be modified.               *)
(***************************************************************************)
EXTENDS MemFS
LOCAL INSTANCE SequencesExt

CONSTANTS
  TarPaths, TarTargets, TarBlocks,  \* the arguments of operations
  Packages,     \* the packages that are installed
  Replaces,     \* the pairs of packages <<p, q>> where p replaces q
  Origins,      \* a function from packages to origins
  MaxTarOps     \* bound: operations of a behaviour

VARIABLES
  image,     \* the tree
  misused, ops, did  \* as in DirFS

tarVars == <<image, misused, ops, did>>

Sum(data, target) == <<"sha1", data, target>>

Entry(pkg, data, target) == [data |-> data, sum |-> Sum(data, target), pkg |-> pkg]

\* The file is still the package's.
Backed(e) == e.te # NoEntry /\ ~e.written /\ e.data = <<>>

\* What Open reads.
Content(e) == IF Backed(e) THEN e.te.data ELSE e.data

\* memFileInfo.Size
Size(e) == IF Backed(e) THEN Len(e.te.data) ELSE Len(e.data)

\* ContentDigest, as the content it is the digest of.
ContentDigest(e) ==
  IF e.kind # "reg" \/ Size(e) = 0 THEN <<>>
  ELSE IF Backed(e) THEN e.te.data ELSE e.data

\* getNode: the same walk as in MemFS.
lookup(t, p) == getNode(t, "mem", p)

-----------------------------------------------------------------------------
\* OpenFile with a writing flag: the content is moved to memory before the
\* flag is looked at, unless it is empty.
Modified(e, loaded, flag, block) ==
  [e EXCEPT !.data = Written(IF loaded THEN e.te.data ELSE e.data, flag, block),
            !.written = @ \/ loaded]

TarStore(f, flag, block) ==
  LET e == f.t[f.at]
  IN IF f.at = NoPath THEN Failed(f.t, "fail")
     ELSE Done(SetNode(f.t, f.at, Modified(e, Backed(e) /\ e.te.data # <<>>, flag, block)))

TarOpenWrite(t, p, create, flag, block) ==
  TarStore(openFile(t, "mem", p, create, 0), flag, block)

\* WriteHeader for a directory.
installDir(t, p, xattr) ==
  LET made == MkdirAll(t, "mem", p)
      timed == Chtimes(made.t, "mem", p)
  IN IF made.err # "none" THEN made
     ELSE IF xattr THEN SetXattr(timed.t, "mem", p) ELSE timed

replaces(p, q) == <<p, q>> \in Replaces

mayReplace(want, got) == Origins[got] = Origins[want] \/ replaces(want, got)

\* writeHeader: a package's file or symlink, and what to do with what is
\* there already.
headerBelow(t, parent, p, kind, te, target) ==
  LET q == Append(parent, Last(p))
      new == [node(kind, q) EXCEPT !.te = te, !.target = target, !.attr["mtime"] = 1]
      over == IF q \in DOMAIN t THEN Drop(t, {q}) ELSE t
      got == IF q \in DOMAIN t THEN t[q].te ELSE NoEntry
  IN IF parent = NoPath THEN Failed(t, "fail")
     ELSE IF t[parent].kind # "dir" THEN Failed(t, "fail")
     ELSE IF q \notin DOMAIN t THEN Done(Put(t, q, new))
     ELSE IF got = NoEntry
          THEN IF t[q].data # <<>> /\ Sum(t[q].data, NoTarget) = te.sum
               THEN Failed(t, "skipped") ELSE Failed(t, "fail")
     ELSE IF got.sum = te.sum \/ replaces(got.pkg, te.pkg) THEN Failed(t, "skipped")
     ELSE IF mayReplace(te.pkg, got.pkg) THEN Done(Put(over, q, new))
     ELSE Failed(t, "conflict")

writeHeader(t, p, kind, te, target) ==
  headerBelow(t, lookup(t, Front(p)), p, kind, te, target)

\* WriteHeader for a file or symlink. The xattrs of a skipped file are set on
\* the file that is kept.
withXattrs(r, p) ==
  LET x == SetXattr(r.t, "mem", p)
  IN IF r.err \in {"none", "skipped"}
     THEN [t |-> x.t, err |-> IF x.err = "none" THEN r.err ELSE x.err] ELSE r

installFile(t, p, kind, te, target, xattr) ==
  LET r == writeHeader(t, p, kind, te, target)
  IN IF kind = "sym" /\ Readlink(t, "mem", p) = target THEN Failed(t, "skipped")
     ELSE IF xattr THEN withXattrs(r, p) ELSE r

\* link: the node remembers under which path it was linked, and to what.
link(t, old, p, header) ==
  LET r == Link(t, "mem", old, p)
      q == lookup(r.t, p)
  IN IF r.err # "none" \/ ~header THEN r
     ELSE Done(SetNode(r.t, q, [r.t[q] EXCEPT
            !.hardlinks = {h \in @ : h.path # p} \cup {[path |-> p, to |-> old]}]))

-----------------------------------------------------------------------------
\* See Twisted in DirFS: ".." is taken back textually behind a link.
Twisted(t) ==
  /\ \E q \in DOMAIN t : t[q].kind = "sym"
  /\ \E p \in TarPaths : lookup(t, p) # getNode(t, "posix", p)

Take(op, p, r) ==
  /\ image' = r.t
  /\ did' = [op |-> op, path |-> p, err |-> r.err]
  /\ ops' = ops + 1
  /\ misused' = (r.err = "panic" \/ Twisted(image'))

TarMkdir(p) == Take("Mkdir", p, Mkdir(image, "mem", p))
TarMkdirAll(p) == Take("MkdirAll", p, MkdirAll(image, "mem", p))
TarRemove(p) == Take("Remove", p, RemoveName(image, "mem", p))
TarMknod(p) == Take("Mknod", p, Mknod(image, "mem", p))
TarSymlink(to, p) == Take("Symlink", p, Symlink(image, "mem", to, p))
TarChmod(p) == Take("Chmod", p, Chmod(image, "mem", p))
TarChown(p) == Take("Chown", p, Chown(image, "mem", p))
TarLchown(p) == Take("Lchown", p, Lchown(image, "mem", p))
TarChtimes(p) == Take("Chtimes", p, Chtimes(image, "mem", p))
TarSetXattr(p) == Take("SetXattr", p, SetXattr(image, "mem", p))
TarRemoveXattr(p) == Take("RemoveXattr", p, RemoveXattr(image, "mem", p))

TarWrite(p, b) ==
  \/ Take("WriteFile", p, TarOpenWrite(image, p, TRUE, "trunc", b))
  \/ \E create \in BOOLEAN, flag \in {"append", "over"} :
       Take("OpenFile", p, TarOpenWrite(image, p, create, flag, b))

\* A hard link to a directory is not something a package holds.
TarLink(old, p, header) ==
  LET from == lookup(image, old)
  IN /\ IF from = NoPath THEN TRUE ELSE image[from].kind # "dir"
     /\ Take("Link", p, link(image, old, p, header))

TarWriteHeader(p, pkg, xattr) ==
  \/ Take("InstallDir", p, installDir(image, p, xattr))
  \/ \E b \in TarBlocks :
       Take("WriteHeader", p, installFile(image, p, "reg", Entry(pkg, b, NoTarget), NoTarget, xattr))
  \/ \E to \in TarTargets :
       /\ ~xattr
       /\ Take("WriteHeader", p, installFile(image, p, "sym", Entry(pkg, <<>>, to), to, FALSE))

TarInit(seeds) ==
  /\ image \in seeds
  /\ misused = FALSE
  /\ ops = 0
  /\ did = [op |-> "new", path |-> Root, err |-> "none"]

TarNext ==
  /\ ops < MaxTarOps
  /\ ~misused
  /\ \E p \in TarPaths :
       \/ TarMkdir(p) \/ TarMkdirAll(p) \/ TarRemove(p) \/ TarMknod(p)
       \/ TarChmod(p) \/ TarChown(p) \/ TarLchown(p) \/ TarChtimes(p)
       \/ TarSetXattr(p) \/ TarRemoveXattr(p)
       \/ \E to \in TarTargets : TarSymlink(to, p)
       \/ \E b \in TarBlocks : TarWrite(p, b)
       \/ \E old \in TarPaths, header \in BOOLEAN : TarLink(old, p, header)
       \/ \E pkg \in Packages, xattr \in BOOLEAN : TarWriteHeader(p, pkg, xattr)

\* The tree callers see: packages and headers are left out.
View(t) ==
  LET backed == {q \in DOMAIN t : t[q].te # NoEntry \/ t[q].hardlinks # {}}
      plain(e) == [e EXCEPT !.data = Content(e), !.te = NoEntry,
                            !.written = FALSE, !.hardlinks = {}]
  IN [q \in backed |-> plain(t[q])] @@ t
=============================================================================
