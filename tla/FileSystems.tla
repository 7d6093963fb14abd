---------------------------- MODULE FileSystems -----------------------------
(***************************************************************************)
(* The two filesystems images are built on, side by side: a behaviour uses *)
(* the one over a directory (DirFS) or the one packages are installed into *)
(* (TarFS), and each is to be the one tree of FullFS.                      *)
(***************************************************************************)
EXTENDS DirFS

CONSTANTS TarPaths, TarTargets, TarBlocks, Packages, Replaces, Origins, MaxTarOps, WalkOrder,
  DirSeeds,  \* the directories a build may be given
  TarSeeds   \* the package-backed trees to begin with

VARIABLES
  which,     \* the filesystem in use
  image      \* the tree of TarFS

Tar == INSTANCE LayerFormats

vars == <<dirVars, which, image>>

Init ==
  \/ /\ which = "dir"
     /\ DirInit(DirSeeds)
     /\ image = NewTree
  \/ /\ which = "tar"
     /\ Tar!TarInit(TarSeeds)
     /\ folding = FALSE /\ disk = NewTree /\ overrides = NewTree /\ caseMap = <<>>

Next ==
  \/ which = "dir" /\ DirNext /\ UNCHANGED <<which, image>>
  \/ which = "tar" /\ Tar!TarNext /\ UNCHANGED <<which, folding, disk, overrides, caseMap>>

Spec == Init /\ [][Next]_vars

-----------------------------------------------------------------------------
FS == INSTANCE FullFS WITH
        Paths <- DirPaths \cup TarPaths, Targets <- DirTargets \cup TarTargets,
        Blocks <- DirBlocks \cup TarBlocks,
        Seeds <- DirSeeds \cup {Tar!View(t) : t \in TarSeeds},
        tree <- IF misused THEN [p \in {} |-> p]
                ELSE IF which = "dir" THEN DirView ELSE Tar!View(image),
        last <- did

(***************************************************************************)
(* Both filesystems implement FullFS: every operation does to the tree     *)
(* that callers see what it does to one POSIX tree, with the same error,   *)
(* although types and attributes are kept in memory and contents on a disk *)
(* that may not tell names apart (rwosfs.go), or contents stay in packages *)
(* until they are written to (tarfs).                                      *)
(***************************************************************************)
OneTree == FS!Spec

(***************************************************************************)
(* Whatever dirFS's Stat and ReadDir find, in memory or on disk, is what   *)
(* the tree has: a file that is listed can be read, with the content that  *)
(* was last written to it, and one that is not there cannot.               *)
(***************************************************************************)
ReadBack ==
  which = "dir" /\ ~misused =>
    LET tree == DirView
    IN \A p \in {q \in DirPaths : ~Ghost(q)} :
         /\ DirStat(p) = Stat(tree, "posix", p)
         /\ DirReadDir(p) = ReadDir(tree, "posix", p)
         /\ DirReadFile(p) = ReadFile(tree, "posix", p)

(***************************************************************************)
(* The two layer formats give the same image (the claim of                 *)
(* emitErofsHardlinks' comment), shared inodes included, whatever was      *)
(* installed, linked, replaced, removed or written before; a tar stream    *)
(* that cannot be replayed (a link that sorts before its target, or whose  *)
(* target is gone) and a link to a path behind a symlink are exceptions.   *)
(***************************************************************************)
LayersAgree == which = "tar" => Tar!FormatsAgree(image)

(***************************************************************************)
(* A layer shows what the filesystem shows: every file with its kind,      *)
(* content, target and attributes, and hard links share an inode, also     *)
(* where the link sorts before its target. The exception is a hard link    *)
(* whose target path was given to another file: it follows the path.       *)
(***************************************************************************)
LayerShowsTree == which = "tar" => Tar!Shows(image)

\* Both layers written from a filesystem are that filesystem (writeTar,
\* writeErofs).
LayersFaithful == LayerShowsTree /\ LayersAgree
=============================================================================
