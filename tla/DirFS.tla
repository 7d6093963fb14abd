------------------------------- MODULE DirFS --------------------------------
(***************************************************************************)
(* The filesystem over a directory, pkg/apk/fs/rwosfs.go. Types, modes,    *)
(* owners and xattrs are kept in memory (overrides); contents are on disk, *)
(* except that on a case-insensitive disk only one of the names that       *)
(* differ in case is, and caseMap says which.                              *)
(***************************************************************************)
EXTENDS MemFS
LOCAL INSTANCE SequencesExt

CONSTANTS
  DirPaths, DirTargets, DirBlocks,   \* the arguments of operations
  Lower,     \* strings.ToLower: a function on names
  Foldings,  \* whether the disk is taken to be case-insensitive: FALSE, TRUE or both
  MaxOps     \* bound: operations of a behaviour

VARIABLES
  folding,   \* whether caseMap is non-nil
  overrides, \* the memFS
  disk,      \* the directory, names folded when the disk folds them
  caseMap,   \* folded path -> the path whose content is on disk
  misused,   \* something was done that dirFS does not support, see Mixed
  ops,       \* operations so far
  did        \* the last operation, its path and its error

dirVars == <<folding, overrides, disk, caseMap, misused, ops, did>>

Fold(p) == IF folding THEN [i \in DOMAIN p |-> Lower[p[i]]] ELSE p
FoldTarget(to) == [to EXCEPT !.to = Fold(@)]

Variants(p) == {q \in DOMAIN overrides : q # p /\ Fold(q) = Fold(p)}

\* Faulty variant of caseSensitiveOnDisk: any claimed name is on disk.
BugcaseSensitiveOnDisk(p) == TRUE

caseSensitiveOnDisk(p) ==
  folding /\ Fold(p) \in DOMAIN caseMap => caseMap[Fold(p)] = p

\* createOnDisk's effect on the map; its answer is caseSensitiveOnDisk, since
\* a name that is claimed now was free or claimed by itself.
Claim(p) ==
  caseMap' = IF folding /\ Fold(p) \notin DOMAIN caseMap
             THEN caseMap @@ (Fold(p) :> p) ELSE caseMap

\* removeOnDisk compares the path as given: with a leading slash it is in no
\* entry of the map.
removeOnDisk(p, slash) ==
  folding => ~slash /\ Fold(p) \in DOMAIN caseMap /\ caseMap[Fold(p)] = p

-----------------------------------------------------------------------------
Report(op, p, err) ==
  /\ ops' = ops + 1
  /\ did' = [op |-> op, path |-> p, err |-> err]
  /\ UNCHANGED folding

\* First the disk, then memory; or first memory, then the disk.
DiskThenMem(op, p, d, m) ==
  /\ disk' = d.t
  /\ overrides' = IF d.err = "none" THEN m.t ELSE overrides
  /\ Report(op, p, IF d.err = "none" THEN m.err ELSE d.err)

MemThenDisk(op, p, m, d) ==
  /\ overrides' = m.t
  /\ disk' = IF m.err = "none" THEN d.t ELSE disk
  /\ Report(op, p, IF m.err = "none" THEN d.err ELSE m.err)

OnDisk(p, d) == IF caseSensitiveOnDisk(p) THEN d ELSE Done(disk)

\* Some path leads elsewhere in memory than on disk: an absolute link, which
\* os.Root refuses, or a ".." met behind another link, which getNode takes
\* back textually.
Twisted(t) ==
  \E q \in DOMAIN t :
    /\ t[q].kind = "sym"
    /\ \/ t[q].target.abs
       \/ \E p \in DirPaths : getNode(t, "mem", p) # getNode(t, "posix", p)

\* On a disk that folds case, links and names that differ in case do not mix.
Crossed(t) ==
  LET links == {q \in DOMAIN t : t[q].kind = "sym"}
      names == DOMAIN t \cup {caseMap'[k] : k \in DOMAIN caseMap'} \cup
               {LinkTarget("posix", Root, Front(q), t[q].target) : q \in links}
  IN /\ folding
     /\ \E p, q \in names : p # q /\ Fold(p) = Fold(q)
     /\ links # {} \/ \E p \in DOMAIN t : Cardinality(t[p].names) > 1

\* A path under a name nobody claimed (a parent made by MkdirAll, a device)
\* that exists in another case; or a name claimed by a create that failed.
Ghost(p) == folding /\ Fold(p) \notin DOMAIN caseMap /\ Variants(p) # {}
Orphan(t) ==
  folding /\ \E q \in DOMAIN t : Fold(q) \in DOMAIN caseMap' /\ caseMap'[Fold(q)] \notin DOMAIN t

Confusing(p) ==
  misused \/ Ghost(p) \/ Orphan(overrides') \/ Twisted(overrides') \/ Crossed(overrides')

Mixed(p) == misused' = Confusing(p)

DirMkdir(p) ==
  /\ Claim(p)
  /\ DiskThenMem("Mkdir", p, OnDisk(p, Mkdir(disk, "disk", Fold(p))),
                 Mkdir(overrides, "mem", p))
  /\ Mixed(p)

DirMkdirAll(p) ==
  /\ Claim(p)
  /\ DiskThenMem("MkdirAll", p, OnDisk(p, MkdirAll(disk, "disk", Fold(p))),
                 MkdirAll(overrides, "mem", p))
  /\ Mixed(p)

DirSymlink(to, p) ==
  /\ Claim(p)
  /\ DiskThenMem("Symlink", p,
                 OnDisk(p, Symlink(disk, "disk", FoldTarget(to), Fold(p))),
                 Symlink(overrides, "mem", to, p))
  /\ Mixed(p)

\* A hard link to a directory is not something a package holds.
LinkSource(t, old) ==
  LET from == getNode(t, "mem", old)
  IN IF from = NoPath THEN TRUE ELSE t[from].kind # "dir"

\* On disk a link to a symlink is another symlink, in memory another name of
\* the file behind it.
DirLink(old, p) ==
  /\ LinkSource(overrides, old)
  /\ Claim(p)
  /\ DiskThenMem("Link", p, OnDisk(p, Link(disk, "disk", Fold(old), Fold(p))),
                 Link(overrides, "mem", old, p))
  /\ misused' = \/ Confusing(p)
                \/ Readlink(overrides, "mem", old) # NoTarget
                \/ folding /\ (Variants(old) # {} \/ ~caseSensitiveOnDisk(p))

\* mknodOnDisk falls back to an empty file, which may be there already. The
\* map is looked at but the name is not claimed.
DirMknod(p) ==
  /\ LET made == Mknod(disk, "disk", Fold(p))
         d == IF made.err = "exists" THEN WriteFile(disk, "disk", Fold(p), <<>>) ELSE made
     IN DiskThenMem("Mknod", p, OnDisk(p, d), Mknod(overrides, "mem", p))
  /\ UNCHANGED caseMap
  /\ misused' = \/ Confusing(p)
                \/ getNodeNoFollow(overrides, "mem", p) # NoPath

\* Faulty variant of DirWriteFile: what is not on disk is not written.
BugDirWriteFile(p, b) ==
  /\ Claim(p)
  /\ DiskThenMem("WriteFile", p, OnDisk(p, WriteFile(disk, "disk", Fold(p), b)),
                 IF caseSensitiveOnDisk(p) THEN WriteFile(overrides, "mem", p, b) ELSE Done(overrides))
  /\ Mixed(p)

DirWriteFile(p, b) ==
  /\ Claim(p)
  /\ DiskThenMem("WriteFile", p, OnDisk(p, WriteFile(disk, "disk", Fold(p), b)),
                 WriteFile(overrides, "mem", p, b))
  /\ Mixed(p)

\* OpenFile with O_CREATE (and Create): memory first, and the file that is
\* written to is the one on disk, if there is one.
DirCreate(p, flag, b) ==
  LET m == OpenWrite(overrides, "mem", p, TRUE, flag,
                     IF caseSensitiveOnDisk(p) THEN <<>> ELSE b)
  IN /\ IF m.err = "none" THEN Claim(p) ELSE UNCHANGED caseMap
     /\ MemThenDisk("OpenFile", p, m,
                    OnDisk(p, OpenWrite(disk, "disk", Fold(p), TRUE, flag, b)))
     /\ Mixed(p)

\* OpenFile without O_CREATE: only one of the two is touched.
DirOpenWrite(p, flag, b) ==
  LET there == caseSensitiveOnDisk(p)
      d == OpenWrite(disk, "disk", Fold(p), FALSE, flag, b)
      m == OpenWrite(overrides, "mem", p, FALSE, flag, b)
  IN /\ disk' = IF there THEN d.t ELSE disk
     /\ overrides' = IF there THEN overrides ELSE m.t
     /\ Report("OpenFile", p, IF there THEN d.err ELSE m.err)
     /\ UNCHANGED caseMap
     /\ Mixed(p)

\* Memory loses a directory with all below it before the disk refuses; on a
\* disk that folds case, what is not claimed under exactly this path stays, and
\* a variant that lives in memory is looked for on disk from now on.
DirRemove(p, slash) ==
  /\ MemThenDisk("Remove", p, RemoveName(overrides, "mem", p),
       IF removeOnDisk(p, slash) THEN RemoveName(disk, "disk", Fold(p)) ELSE Done(disk))
  /\ caseMap' = IF folding /\ removeOnDisk(p, slash)
                     /\ RemoveName(overrides, "mem", p).err = "none"
                THEN [k \in DOMAIN caseMap \ {Fold(p)} |-> caseMap[k]] ELSE caseMap
  /\ misused' = \/ misused \/ Twisted(overrides')
                \/ Below(overrides, p) # {}
                \/ folding /\ (~removeOnDisk(p, slash) \/ Variants(p) # {})

DirChange(op, p, d, m) ==
  /\ DiskThenMem(op, p, d, m)
  /\ UNCHANGED caseMap
  /\ Mixed(p)

\* A disk that cannot change modes or owners (EPERM, ENOTSUP) is passed over;
\* a path it does not have is an error. Chtimes always goes to the disk, and
\* xattrs never.
DirChmod(p) ==
  DirChange("Chmod", p, OnDisk(p, Chmod(disk, "disk", Fold(p))), Chmod(overrides, "mem", p))
DirChown(p) ==
  DirChange("Chown", p, OnDisk(p, Chown(disk, "disk", Fold(p))), Chown(overrides, "mem", p))
DirLchown(p) ==
  DirChange("Lchown", p, OnDisk(p, Lchown(disk, "disk", Fold(p))), Lchown(overrides, "mem", p))
DirChtimes(p) ==
  DirChange("Chtimes", p, Chtimes(disk, "disk", Fold(p)), Chtimes(overrides, "mem", p))
DirSetXattr(p) == DirChange("SetXattr", p, Done(disk), SetXattr(overrides, "mem", p))
DirRemoveXattr(p) == DirChange("RemoveXattr", p, Done(disk), RemoveXattr(overrides, "mem", p))

-----------------------------------------------------------------------------
(***************************************************************************)
(* What callers read.                                                      *)
(***************************************************************************)
DirReadFile(p) ==
  IF caseSensitiveOnDisk(p) THEN ReadFile(disk, "disk", Fold(p))
  ELSE ReadFile(overrides, "mem", p)

DirStat(p) ==
  IF caseSensitiveOnDisk(p) /\ Stat(disk, "disk", Fold(p)) = "fail" THEN "fail"
  ELSE Stat(overrides, "mem", p)

DirReadDir(p) ==
  IF caseSensitiveOnDisk(p) /\ ReadDir(disk, "disk", Fold(p)) = {"fail"} THEN {"fail"}
  ELSE ReadDir(overrides, "mem", p)

\* The one tree that memory and disk make together: the content of the node at
\* a path free of symlinks is on disk or in memory.
Contents(q) ==
  IF ~caseSensitiveOnDisk(q) THEN overrides[q].data
  ELSE IF Fold(q) \in DOMAIN disk THEN disk[Fold(q)].data ELSE NoContent

DirView ==
  LET files == {q \in DOMAIN overrides : overrides[q].kind \in {"reg", "dev"}}
  IN [q \in files |-> [overrides[q] EXCEPT !.data = Contents(q)]] @@ overrides

\* seedOverride: what the directory holds to begin with, files without their
\* contents, and without xattrs and times.
seedOverride(d) ==
  [q \in DOMAIN d |->
     [d[q] EXCEPT !.data = <<>>, !.attr["xattr"] = 0, !.attr["mtime"] = 0]]

DirInit(seeds) ==
  /\ folding \in Foldings
  /\ disk \in seeds
  /\ overrides = seedOverride(disk)
  /\ caseMap = <<>>
  /\ misused = FALSE
  /\ ops = 0
  /\ did = [op |-> "new", path |-> Root, err |-> "none"]

DirNext ==
  /\ ops < MaxOps
  /\ ~misused
  /\ \E p \in DirPaths :
      \/ DirMkdir(p) \/ DirMkdirAll(p) \/ DirMknod(p)
      \/ DirChmod(p) \/ DirChown(p) \/ DirLchown(p) \/ DirChtimes(p)
      \/ DirSetXattr(p) \/ DirRemoveXattr(p)
      \/ \E to \in DirTargets : DirSymlink(to, p)
      \/ \E old \in DirPaths : DirLink(old, p)
      \/ \E slash \in BOOLEAN : DirRemove(p, slash)
      \/ \E b \in DirBlocks :
           \/ DirWriteFile(p, b)
           \/ \E flag \in {"trunc", "append", "over"} :
                DirCreate(p, flag, b) \/ DirOpenWrite(p, flag, b)
=============================================================================
