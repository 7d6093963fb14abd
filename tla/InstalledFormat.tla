--------------------------- MODULE InstalledFormat ---------------------------
(***************************************************************************)
(* The installed database (pkg/apk/apk/installed.go): how the record of a  *)
(* package is written and how the file is read.                            *)
(*                                                                         *)
(* A header is [path, dir, attr]: the root is the path <<>>; attr is       *)
(* "default", "other" or "wide", an owner that is out of range.  A package *)
(* has the name 0 when its name is empty; a value with a line break is     *)
(* "\n".  Of a package's own fields there are the version and the origin;  *)
(* the others are written and read like these.  Z: lines are not read and  *)
(* left out.                                                               *)
(***************************************************************************)
EXTENDS Naturals, Sequences, SequencesExt, FiniteSetsExt

CONSTANT Components  \* parts of paths, in the order of their strings

ASSUME ComponentsAssumption ==
  /\ Components # <<>> /\ Components[1] = "."
  /\ \A i, j \in DOMAIN Components : Components[i] = Components[j] => i = j

Header(path, dir) == [path |-> path, dir |-> dir, attr |-> "default"]

-----------------------------------------------------------------------------
(* The order of the entries.                                               *)

Rank(c) == CHOOSE k \in DOMAIN Components : Components[k] = c

Tokens(h) == IF h.path = <<>> THEN <<".">> ELSE h.path

\* pathCompare(a, b) < 0.  A directory and what is in it are equal.
pathLess(a, b) ==
  LET s == Tokens(a)
      t == Tokens(b)
      shorter == Min({Len(s), Len(t)})
      n == Min({k \in 1..shorter : k = shorter \/ s[k] # t[k]})
      aTokIsDir == n < Len(s) \/ a.dir
      bTokIsDir == n < Len(t) \/ b.dir
  IN /\ s # t
     /\ IF aTokIsDir = bTokIsDir THEN Rank(s[n]) < Rank(t[n]) ELSE ~aTokIsDir

\* sort.SliceStable: an entry moves left past the ones that it is less than.
Insert(sorted, h) ==
  LET stop == Max({0} \cup {k \in DOMAIN sorted : ~pathLess(h, sorted[k])})
  IN InsertAt(sorted, stop + 1, h)

\* Entries with a parent that is not there are left out.
removeOrphanedEntries(hs) ==
  SelectSeq(hs, LAMBDA h : \A k \in 1..(Len(h.path) - 1) :
                  \E i \in DOMAIN hs : hs[i].dir /\ hs[i].path = SubSeq(h.path, 1, k))

cleanTarHeaders(hs) == removeOrphanedEntries(FoldLeft(Insert, <<>>, hs))

-----------------------------------------------------------------------------
(* AddInstalledPackage.                                                    *)

Line(token, value) == <<token, value>>
Blank == Line("", 0)

PackageToInstalled(p) ==
  <<Line("P", p.name), Line("V", p.version), Line("o", p.origin)>>

FileLines(hs) ==
  LET write(r, h) ==
        LET perms(token) == IF h.attr = "default" THEN <<>> ELSE <<Line(token, h.attr)>>
            top == IF r.topDirNeeded THEN <<Line("F", <<>>)>> ELSE <<>>
        IN [topDirNeeded |-> FALSE,
            lines |-> r.lines \o
              (IF h.dir THEN <<Line("F", h.path)>> \o perms("M")
               ELSE top \o <<Line("R", Last(h.path))>> \o perms("a"))]
  IN FoldLeft(write, [topDirNeeded |-> TRUE, lines |-> <<>>], hs).lines

\* A record that could not be read back is not written.
Refused(p) ==
  \/ p.name = 0 \/ p.origin = "\n"
  \/ \E h \in Range(p.files) : "\n" \in Range(h.path)
  \/ \E h \in Range(cleanTarHeaders(p.files)) :
       h.attr = "wide" \/ (h.dir /\ h.path = <<>> /\ h.attr # "default")

RecordOf(p) == Append(PackageToInstalled(p) \o FileLines(cleanTarHeaders(p.files)), Blank)

-----------------------------------------------------------------------------
(* ParseInstalled.                                                         *)

NoPackage == [name |-> 0, version |-> 0, origin |-> "", files |-> <<>>]

\* The permissions of an M: or a: line go to a copy of the header, if there is
\* one they can be for.  No directory and the root are lastDir <<>>: neither can
\* have permissions, and a file of either is at the top.
ReadLine(s, l) ==
  CASE l[1] = "" ->
         [s EXCEPT !.packages = IF s.pkg.name = 0 THEN @ ELSE Append(@, s.pkg),
                   !.pkg = NoPackage, !.lastDir = <<>>, !.lastFile = FALSE]
    [] l[1] = "P" -> [s EXCEPT !.pkg.name = l[2]]
    [] l[1] = "V" -> [s EXCEPT !.pkg.version = l[2]]
    [] l[1] = "o" -> [s EXCEPT !.pkg.origin = l[2]]
    [] l[1] = "F" ->
         [s EXCEPT !.lastDir = l[2], !.lastFile = FALSE,
                   !.pkg.files = IF l[2] = <<>> THEN @ ELSE Append(@, Header(l[2], TRUE))]
    [] l[1] = "M" -> [s EXCEPT !.ok = @ /\ s.lastDir # <<>> /\ l[2] # "wide"]
    [] l[1] = "R" ->
         [s EXCEPT !.lastFile = TRUE,
                   !.pkg.files = Append(@, Header(Append(s.lastDir, l[2]), FALSE))]
    [] l[1] = "a" -> [s EXCEPT !.ok = @ /\ s.lastFile /\ l[2] # "wide"]

Unread == [ok |-> TRUE, packages |-> <<>>, pkg |-> NoPackage, lastDir |-> <<>>, lastFile |-> FALSE]

\* Whether the file can be read, and the packages in it.
ParseInstalled(lines) ==
  FoldLeft(LAMBDA s, l : IF s.ok THEN ReadLine(s, l) ELSE s, Unread, lines)

\* buildImage: the packages of a base image are recorded again.
RecordBase(pkgs) == FlattenSeq([k \in DOMAIN pkgs |-> RecordOf(pkgs[k])])

-----------------------------------------------------------------------------
\* The packages as a reader finds them that gives the permissions of an M: or a:
\* line to the entry before it, as apk-tools does.
Meant(lines) ==
  LET permit(files, attr) == Append(Front(files), [Last(files) EXCEPT !.attr = attr])
  IN FoldLeft(LAMBDA s, l : IF l[1] \in {"M", "a"} THEN [s EXCEPT !.pkg.files = permit(@, l[2])]
                            ELSE ReadLine(s, l), Unread, lines).packages

\* What a record is to list: everything whose parents the package has.
Reachable(p) ==
  {h \in Range(p.files) :
     /\ h.path # <<>>
     /\ \A k \in 1..(Len(h.path) - 1) :
          \E f \in Range(p.files) : f.dir /\ f.path = SubSeq(h.path, 1, k)}

\* Directories come before what is in them, as tar and apk archives have them.
ParentsFirst(files) ==
  \A j \in DOMAIN files : \A i \in 1..j : ~IsStrictPrefix(files[j].path, files[i].path)

\* The record of p in the file: every directory at its path, every file with its
\* name, all with their permissions; the files are in their directories as well if
\* the archive had parents first (a file is listed under the last F: before it).
Lists(meant, p) ==
  LET named(h) == IF h.dir THEN h ELSE [h EXCEPT !.path = <<Last(@)>>]
  IN /\ meant.name = p.name /\ meant.version = p.version /\ meant.origin = p.origin
     /\ Len(meant.files) = Cardinality(Reachable(p))
     /\ {named(h) : h \in Range(meant.files)} = {named(h) : h \in Reachable(p)}
     /\ ParentsFirst(p.files) => Range(meant.files) = Reachable(p)

\* The packages were written to the database in their order. Reading it gives them
\* all but for the permissions, which go to a copy; writing what was read gives a
\* database that reads the same.
ReadsBack(lines, pkgs) ==
  LET read == ParseInstalled(lines)
      meant == Meant(lines)
      listed(p) == [p EXCEPT !.files = Range(@)]
      plain(p) == [p EXCEPT !.files = [k \in DOMAIN @ |-> Header(@[k].path, @[k].dir)]]
  IN /\ read.ok /\ read.packages = [k \in DOMAIN meant |-> plain(meant[k])]
     /\ Len(meant) = Len(pkgs)
     /\ \A k \in DOMAIN pkgs : Lists(meant[k], pkgs[k]) /\ ~Refused(read.packages[k])
     /\ LET again == ParseInstalled(RecordBase(read.packages)).packages
        IN [k \in DOMAIN again |-> listed(again[k])] = [k \in DOMAIN meant |-> listed(read.packages[k])]
=============================================================================
