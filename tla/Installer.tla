----------------------------- MODULE Installer ------------------------------
(***************************************************************************)
(* Installing packages: APK.InstallPackages and InstallPackageContents     *)
(* (pkg/apk/apk/implementation.go), installPackage, the two ways of        *)
(* writing a package's entries (pkg/apk/apk/install.go and                 *)
(* memFS.writeHeader of pkg/tarfs/fs.go), and recordInstalled.             *)
(*                                                                         *)
(* Packages are 1..N in the order they are to be installed.  They meet     *)
(* only at paths more than one of them ships, so the model follows one     *)
(* such path.  Every call makes a new *Package for each package, and       *)
(* installedFiles compares those pointers; an instance stands for one.     *)
(***************************************************************************)
EXTENDS Integers, FiniteSets

CONSTANTS
  N,         \* number of packages
  Jobs,      \* runtime.GOMAXPROCS(0)
  Lazies,    \* the kinds of filesystem considered: TRUE for a WriteHeaderer
  Entries,   \* what packages may ship at the path, [kind, data] records
  Origins,   \* package origins
  Replacing, \* the replaces relations to consider, sets of pairs of packages
  Bases,     \* what may be at the path beforehand, entries or Nothing
  FailAt,    \* where things may go wrong
  MaxCalls   \* bound: install calls on one APK

Nothing == [kind |-> "none", data |-> 0]
NoOrigin == "none"

ASSUME InstallerAssumption ==
  /\ N \in Nat \ {0}
  /\ Jobs \in Nat \ {0}
  /\ Lazies \subseteq BOOLEAN
  /\ \A e \in Entries : e.kind \in {"reg", "sym"}
  /\ \A r \in Replacing : r \subseteq (1..N) \X (1..N)
  /\ Bases \subseteq Entries \cup {Nothing}
  /\ FailAt \subseteq {"fetch", "cancel", "files", "scripts", "record"}
  /\ MaxCalls \in Nat

Packages == 1..N

\* The *Package that call n makes of package p, and none.
Instance(n, p) == <<n, p>>
Name(i) == i[2]
NoOne == <<0, 0>>
Instances == (1..MaxCalls) \X Packages

VARIABLES
  lazy,       \* whether the filesystem is a WriteHeaderer
  ships,      \* package -> its entry at the path, or Nothing
  origin,     \* package -> its origin
  replaces,   \* the pairs <<p, q>> with p's Replaces naming q
  base,       \* what was at the path before any package
  node,       \* what is at the path
  by,         \* the instance whose entry it is, or NoOne
  owner,      \* installedFiles: the instance the path is credited to, or NoOne
  aborted,    \* installAbortedErr is set
  db,         \* the installed database: package, and what it lists at the path
  call,       \* calls made, the current one included
  pc,         \* the calling goroutine
  spawned,    \* fetch goroutines started
  fetch,      \* package -> its fetch; done[i] is closed by "ok" and "failed"
  inst,       \* the installing goroutine
  next,       \* the package the installing goroutine is at
  infos,      \* packages with infos[i] set in this call
  listed,     \* packages whose allFiles[i] has the path
  rec,        \* recordInstalled: the package it is at
  unclean,    \* history: a call has failed elsewhere than in installing files
  result      \* outcome of the last call

data == <<lazy, ships, origin, replaces, base>>
image == <<node, by, owner, aborted>>
work == <<call, pc, spawned, fetch, inst, next, infos, listed, rec, unclean,
          result>>
vars == <<data, image, db, work>>

\* Every value has its type; in particular no goroutine goes past the last package.
TypeOK ==
  /\ lazy \in Lazies
  /\ ships \in [Packages -> Entries \cup {Nothing}]
  /\ origin \in [Packages -> Origins \cup {NoOrigin}]
  /\ replaces \in Replacing
  /\ node \in Entries \cup {Nothing}
  /\ by \in Instances \cup {NoOne}
  /\ owner \in Instances \cup {NoOne}
  /\ aborted \in BOOLEAN
  /\ db \subseteq [pkg : Packages, has : Entries \cup {Nothing}]
  /\ call \in 0..MaxCalls
  /\ pc \in {"idle", "spawn", "wait", "record"}
  /\ spawned \in 0..N
  /\ fetch \in [Packages -> {"no", "running", "ok", "failed"}]
  /\ inst \in {"off", "select", "files", "scripts", "ended", "failed", "broken"}
  /\ next \in 1..(N + 1)
  /\ infos \subseteq Packages
  /\ listed \subseteq infos
  /\ rec \in 1..(N + 1)
  /\ unclean \in BOOLEAN
  /\ result \in {"none", "ok", "error"}

Init ==
  /\ lazy \in Lazies
  /\ ships \in [Packages -> Entries \cup {Nothing}]
  /\ origin \in [Packages -> Origins]
  /\ replaces \in Replacing
  /\ base \in Bases
  /\ node = base
  /\ by = NoOne /\ owner = NoOne
  /\ aborted = FALSE
  /\ db = {}
  /\ call = 0
  /\ pc = "idle"
  /\ spawned = 0
  /\ fetch = [p \in Packages |-> "no"]
  /\ inst = "off"
  /\ next = 1
  /\ infos = {} /\ listed = {}
  /\ rec = 1
  /\ unclean = FALSE
  /\ result = "none"

-----------------------------------------------------------------------------
(***************************************************************************)
(* The calling goroutine and the fetches, in an errgroup with a limit.     *)
(***************************************************************************)
NewCall ==
  /\ pc = "idle"
  /\ call < MaxCalls
  /\ call' = call + 1
  /\ inst' = "select"
  /\ next' = 1
  /\ infos' = {} /\ listed' = {}
  /\ rec' = 1
  /\ result' = "none"
  /\ UNCHANGED <<data, image, db, unclean>>

\* InstallPackages: the installing goroutine is the group's first.
InstallPackages ==
  /\ NewCall
  /\ pc' = "spawn"
  /\ spawned' = 0
  /\ fetch' = [p \in Packages |-> "no"]

\* InstallPackageContents: the same, one after the other, with all contents
\* supplied by the caller.
InstallPackageContents ==
  /\ NewCall
  /\ pc' = "wait"
  /\ spawned' = N
  /\ fetch' = [p \in Packages |-> "ok"]

Running == {p \in Packages : fetch[p] = "running"}
InstallerRuns == inst \in {"select", "files", "scripts"}
Active == Cardinality(Running) + (IF InstallerRuns THEN 1 ELSE 0)

\* Faulty variant of Limit: a slot is kept back for the caller instead of one
\* added for the installing goroutine.
BugLimit == Jobs - 1

Limit == Jobs + 1

\* g.Go blocks while the group is full.
Spawn ==
  /\ pc = "spawn"
  /\ spawned < N
  /\ Active < Limit
  /\ spawned' = spawned + 1
  /\ fetch' = [fetch EXCEPT ![spawned + 1] = "running"]
  /\ pc' = IF spawned + 1 = N THEN "wait" ELSE "spawn"
  /\ UNCHANGED <<data, image, db, call, inst, next, infos, listed,
                 rec, unclean, result>>

\* GetPackage returns, and done[p] is closed either way.
FetchDone(p, ok) ==
  /\ fetch[p] = "running"
  /\ ~ok => "fetch" \in FailAt
  /\ fetch' = [fetch EXCEPT ![p] = IF ok THEN "ok" ELSE "failed"]
  /\ UNCHANGED <<data, image, db, call, pc, spawned, inst, next, infos, listed,
                 rec, unclean, result>>

-----------------------------------------------------------------------------
(***************************************************************************)
(* The installing goroutine.                                               *)
(***************************************************************************)
Installed(p) == \E r \in db : r.pkg = p

InstallerStep(l, n) ==
  /\ inst' = l
  /\ next' = n
  /\ UNCHANGED <<data, call, pc, spawned, fetch, rec, unclean, result>>

\* Faulty variant of Select: a package that is not ready is passed over.
BugSelect ==
  /\ inst = "select"
  /\ next <= N
  /\ CASE fetch[next] = "failed" -> InstallerStep("failed", next) /\ UNCHANGED infos
       [] fetch[next] # "failed" /\ (Installed(next) \/ fetch[next] # "ok") ->
            InstallerStep("select", next + 1) /\ UNCHANGED infos
       [] fetch[next] = "ok" /\ ~Installed(next) ->
            InstallerStep("files", next) /\ infos' = infos \cup {next}
  /\ UNCHANGED <<image, db, listed>>

\* The next package in order, once it is there.
Select ==
  /\ inst = "select"
  /\ next <= N
  /\ fetch[next] \in {"ok", "failed"}
  /\ CASE fetch[next] = "failed" -> InstallerStep("failed", next) /\ UNCHANGED infos
       [] fetch[next] = "ok" /\ Installed(next) ->
            InstallerStep("select", next + 1) /\ UNCHANGED infos
       [] fetch[next] = "ok" /\ ~Installed(next) ->
            InstallerStep("files", next) /\ infos' = infos \cup {next}
  /\ UNCHANGED <<image, db, listed>>

\* ctx is done, or the .PKGINFO or the database cannot be read.
SelectFails ==
  /\ inst = "select"
  /\ "cancel" \in FailAt
  /\ InstallerStep("failed", next)
  /\ UNCHANGED <<image, db, infos, listed>>

InstallerDone ==
  /\ inst = "select"
  /\ next = N + 1
  /\ InstallerStep("ended", next)
  /\ UNCHANGED <<image, db, infos, listed>>

(***************************************************************************)
(* What happens to package p's entry at the path: "none" when it has no    *)
(* entry there, "write", "keep" what is there, "same" (the entry is not    *)
(* listed either), or "error".                                             *)
(***************************************************************************)
Replaces(p, q) == <<p, q>> \in replaces

Contest(p, q) ==
  IF Replaces(q, p) THEN "keep"
  ELSE IF origin[p] = origin[q] \/ Replaces(p, q) THEN "write"
  ELSE "error"

\* memFS.writeHeader: regular files and symlinks alike.
LazyVerdict(p) ==
  IF ships[p] = Nothing THEN "none"
  ELSE IF node = Nothing THEN "write"
  ELSE IF node = ships[p] THEN "keep"
  ELSE IF by = NoOne THEN "error"
  ELSE Contest(p, Name(by))

\* installRegularFile and the symlink case of doInstallAPKFiles.  A symlink
\* is never replaced, and the target of one is taken to differ from the file.
StreamVerdict(p) ==
  IF ships[p] = Nothing THEN "none"
  ELSE IF node = Nothing THEN "write"
  ELSE IF "sym" \in {node.kind, ships[p].kind}
       THEN IF node = ships[p] THEN "same" ELSE "error"
  ELSE IF origin[p] = NoOrigin THEN "error"
  ELSE IF node = ships[p] THEN "keep"
  ELSE IF owner = NoOne THEN "error"
  ELSE Contest(p, Name(owner))

Verdict(p) == IF lazy THEN LazyVerdict(p) ELSE StreamVerdict(p)

\* The entry is written; only a regular file is credited in installedFiles.
Write(p) ==
  /\ node' = ships[p]
  /\ by' = Instance(call, p)
  /\ owner' = IF ships[p].kind = "reg" THEN Instance(call, p) ELSE owner

\* installAPKFiles or lazilyInstallAPKFiles: all entries are in.
InstallFiles ==
  /\ inst = "files"
  /\ ~aborted
  /\ Verdict(next) # "error"
  /\ IF Verdict(next) = "write" THEN Write(next) ELSE UNCHANGED <<node, by, owner>>
  /\ listed' = IF Verdict(next) \in {"none", "same"} THEN listed ELSE listed \cup {next}
  /\ InstallerStep("scripts", next)
  /\ UNCHANGED <<aborted, db, infos>>

\* A conflict, or an entry before or after this one is refused: the instance
\* is left with what was written and refuses all further work.
InstallFilesFail ==
  /\ inst = "files"
  /\ ~aborted
  /\ \/ Verdict(next) = "error" /\ UNCHANGED <<node, by, owner>>
     \/ "files" \in FailAt /\ UNCHANGED <<node, by, owner>>
     \/ "files" \in FailAt /\ Verdict(next) = "write" /\ Write(next)
  /\ aborted' = TRUE
  /\ InstallerStep("broken", next)
  /\ UNCHANGED <<db, infos, listed>>

InstallRefused ==
  /\ inst = "files"
  /\ aborted
  /\ InstallerStep("broken", next)
  /\ UNCHANGED <<image, db, infos, listed>>

\* The rest of installPackage: scripts.tar and the triggers.
UpdateScripts(ok) ==
  /\ inst = "scripts"
  /\ ~ok => "scripts" \in FailAt
  /\ IF ok THEN InstallerStep("select", next + 1) ELSE InstallerStep("failed", next)
  /\ UNCHANGED <<image, db, infos, listed>>

-----------------------------------------------------------------------------
(***************************************************************************)
(* Once everybody is done: recordInstalled.                                *)
(***************************************************************************)
Return(r) ==
  /\ result' = r
  /\ unclean' = (unclean \/ (r = "error" /\ inst # "broken"))
  /\ pc' = "idle"

Wait ==
  /\ pc = "wait"
  /\ Active = 0
  /\ IF inst \in {"failed", "broken"} \/ \E p \in Packages : fetch[p] = "failed"
     THEN Return("error")
     ELSE pc' = "record" /\ UNCHANGED <<unclean, result>>
  /\ UNCHANGED <<data, image, db, call, spawned, fetch, inst, next, infos, listed, rec>>

\* Faulty variant of Recorded: what others overwrote is not dropped.
BugRecorded(p) == IF p \in listed THEN ships[p] ELSE Nothing

\* Files credited to somebody else are dropped; what nobody is credited with,
\* directories for one, stays.
Recorded(p) ==
  IF p \in listed /\ owner \in {NoOne, Instance(call, p)} THEN ships[p] ELSE Nothing

\* AddInstalledPackage for the next package, if this call installed it.
Record ==
  /\ pc = "record"
  /\ rec <= N
  /\ rec \in infos => ~aborted
  /\ db' = IF rec \in infos THEN db \cup {[pkg |-> rec, has |-> Recorded(rec)]} ELSE db
  /\ rec' = rec + 1
  /\ UNCHANGED <<data, image, call, pc, spawned, fetch, inst, next, infos, listed,
                 unclean, result>>

RecordFails ==
  /\ pc = "record"
  /\ rec <= N => rec \in infos
  /\ "record" \in FailAt \/ (rec <= N /\ aborted)
  /\ Return("error")
  /\ UNCHANGED <<data, image, db, call, spawned, fetch, inst, next, infos, listed, rec>>

\* resolveApkDB, and the call is over.
RecordDone ==
  /\ pc = "record"
  /\ rec = N + 1
  /\ Return("ok")
  /\ UNCHANGED <<data, image, db, call, spawned, fetch, inst, next, infos, listed, rec>>

-----------------------------------------------------------------------------
Step ==
  \/ Spawn
  \/ \E p \in Packages, ok \in BOOLEAN : FetchDone(p, ok)
  \/ Select \/ InstallerDone
  \/ InstallFiles \/ InstallFilesFail \/ InstallRefused
  \/ \E ok \in BOOLEAN : UpdateScripts(ok)
  \/ Wait \/ Record \/ RecordFails \/ RecordDone

Next == InstallPackages \/ InstallPackageContents \/ Step \/ SelectFails

Spec == Init /\ [][Next]_vars

\* Goroutines run, and GetPackage returns; nothing cancels a call.
FairSpec == Spec /\ WF_vars(Step)

-----------------------------------------------------------------------------
(***************************************************************************)
(* Properties                                                              *)
(***************************************************************************)

\* One more package is installed: w is what the path holds, and whose it is.
Turn(w, n, shipped, origins, replacing) ==
  IF ~w.ok \/ shipped[n] \in {Nothing, w.what} THEN w
  ELSE IF w.what = Nothing THEN [ok |-> TRUE, what |-> shipped[n], from |-> n]
  ELSE IF w.from # 0 /\ <<w.from, n>> \in replacing THEN w
  ELSE IF w.from # 0 /\ (origins[n] = origins[w.from] \/ <<n, w.from>> \in replacing)
       THEN [ok |-> TRUE, what |-> shipped[n], from |-> n]
  ELSE [ok |-> FALSE, what |-> w.what, from |-> w.from]

\* What the path holds once packages 1..n have been installed one after the
\* other onto what was there, unless they conflict.
InTurn(was, shipped, origins, replacing) ==
  LET after[n \in 0..N] ==
        IF n = 0 THEN [ok |-> TRUE, what |-> was, from |-> 0]
        ELSE Turn(after[n - 1], n, shipped, origins, replacing)
  IN after

Sequentially == InTurn(base, ships, origin, replaces)

\* "we must install in the given order exactly" (InstallPackages): whatever
\* order the fetches end in, a first call that succeeds leaves what installing
\* one package after the other leaves, and records every package.
InstalledInOrder ==
  (result = "ok" /\ call = 1) =>
    /\ Sequentially[N].ok
    /\ node = Sequentially[N].what
    /\ \A p \in Packages : Installed(p)

\* A WriteHeaderer gets symlinks, which may replace and be replaced by files but
\* are never credited: installedFiles stays with the file they replaced, if any.
LazyLinks == lazy /\ \E p \in Packages : ships[p].kind = "sym"
LinkOver == lazy /\ by # NoOne /\ node.kind = "sym"

\* What is to be in the records: the entry at the path, but for a symlink of the
\* kind above the file that it replaced.
Claimed == IF LinkOver /\ owner # NoOne THEN ships[Name(owner)] ELSE node

\* "dropping files a later package overwrote" (recordInstalled): after a call
\* that succeeds, what a record lists at the path is what is there, and
\* unless it was there beforehand only one record lists it. What a symlink
\* on a WriteHeaderer replaced is not dropped (install.go:509 credits files only).
RecordsMatchImage ==
  result = "ok" /\ (LazyLinks => ~unclean) =>
    /\ \A r \in db : r.has \in {Nothing, Claimed} \/ (LinkOver /\ owner = NoOne)
    /\ by # NoOne /\ (LinkOver => owner # NoOne) => Cardinality({r \in db : r.has # Nothing}) <= 1

\* What abortInstalls is for: no call succeeds that leaves a package's file in
\* the image "recorded against no package and absent from the SBOM", on an APK
\* that has not seen a call fail before or after its files were installed, as
\* when it is given up on the first such error.
NothingUnrecordedWhileClean ==
  (result = "ok" /\ ~unclean /\ by # NoOne) => \E r \in db : r.has = Claimed

\* After a call that succeeds the database and the image describe each other
\* (recordInstalled).
DatabaseDescribesImage == TypeOK /\ RecordsMatchImage /\ NothingUnrecordedWhileClean

\* Every call returns: the installing goroutine and the fetches cannot wait
\* for each other's slots in the group.
EveryInstallReturns == pc # "idle" ~> pc = "idle"
=============================================================================
