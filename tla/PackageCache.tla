---------------------------- MODULE PackageCache ----------------------------
(***************************************************************************)
(* The disk cache of one package, shared by concurrent apko processes:     *)
(* defaultPackageGetter.getPackageImpl (pkg/apk/apk/package_getter.go) and *)
(* ReplaceCachedFile (pkg/paths/paths.go).                                 *)
(*                                                                         *)
(* An entry is one symlink per section.  A link addresses a file that some *)
(* process expanded into a temporary directory of its own; link names are  *)
(* content addresses, so a file is either what its name promises or "bad". *)
(* Section names: ctl = control, sig = signature, dat = data.              *)
(***************************************************************************)
EXTENDS Naturals, FiniteSets

CONSTANTS
  Procs,     \* apko processes sharing the cache directory
  Old,       \* the writer of files that were there to begin with
  MaxGets,   \* bound: process -> its getPackageImpl calls
  Retries,   \* maxFetchRetries
  Signed,    \* whether the package has a signature section
  IOErrors   \* whether writing may fail half way (disk full, ...)

ASSUME PackageCacheAssumption ==
  /\ Old \notin Procs
  /\ MaxGets \in [Procs -> Nat]
  /\ Retries \in Nat
  /\ Signed \in BOOLEAN
  /\ IOErrors \in BOOLEAN

Sections == IF Signed THEN {"ctl", "sig", "dat"} ELSE {"ctl", "dat"}

\* The order in which publishPackage replaces the sections.
First == "ctl"
Last == "dat"
NextSection(s) == IF s = "ctl" /\ Signed THEN "sig" ELSE "dat"

\* The file a process's n-th get expands section s into.
File(p, n, s) == [by |-> p, n |-> n, sec |-> s]
Files == [by : Procs \cup {Old}, n : Nat, sec : Sections]
Absent == File("no", 0, "link")
Dir == File("a", 0, "directory")

\* The .apko-private-* directory a process's n-th get makes beside the entry.
Private(p, n) == File(p, n, "private")

VARIABLES
  link,     \* section -> the file its symlink addresses, Absent or Dir
  exists,   \* the files on disk
  bad,      \* the files whose content is not what the entry's name promises
  pc,       \* process -> where it is in getPackageImpl
  sec,      \* process -> the section it publishes
  gets,     \* process -> calls made, the current one included
  offline,  \* process -> whether its current call has an offline cache
  attempt,  \* process -> failed attempts of fetchExpandAndVerify
  orphan,   \* process -> the file replacing the link will strand, or Absent
  data,     \* process -> the file its descriptor on the data section reads
  private,  \* the private directories in the cache directory
  served,   \* process -> what its last successful call serves
  linked,   \* history: the files that have been advertised
  closed,   \* history: the files removed because publishing them failed
  killed    \* history: the calls, as <<process, n>>, that were killed

disk == <<link, exists, bad, private, linked, closed, killed>>
call == <<gets, offline>>
vars == <<disk, call, pc, sec, attempt, orphan, data, served>>

ReadPCs == {"stat", "hash", "control", "sigstat", "sigread", "datstat", "datread",
            "private", "unlink", "inflate"}
FetchPCs == {"fetch", "expand", "backoff"}
PublishPCs == {"orphan", "rename", "clear", "rename2", "recheck", "remove", "close"}

TypeOK ==
  /\ link \in [Sections -> Files \cup {Absent, Dir}]
  /\ exists \subseteq Files
  /\ bad \subseteq Files
  /\ pc \in [Procs -> {"idle"} \cup ReadPCs \cup FetchPCs \cup PublishPCs]
  /\ sec \in [Procs -> Sections]
  /\ gets \in [Procs -> Nat]
  /\ offline \in [Procs -> BOOLEAN]
  /\ attempt \in [Procs -> 0..Retries]
  /\ orphan \in [Procs -> Files \cup {Absent}]
  /\ data \in [Procs -> Files \cup {Absent}]
  /\ private \subseteq [by : Procs, n : Nat, sec : {"private"}]
  /\ served \in [Procs -> {"nothing", "good", "bad"}]
  /\ linked \subseteq Files
  /\ closed \subseteq Files
  /\ killed \subseteq Procs \X Nat

(***************************************************************************)
(* The directory starts in any state an earlier run, a crash or a damaged  *)
(* disk leaves: a section may be missing, dangling, bad or a directory.    *)
(* A file that nothing addresses can never be found, so none is there.     *)
(***************************************************************************)
Init ==
  /\ link \in [Sections -> {Absent, Dir} \cup {File(Old, 0, s) : s \in Sections}]
  /\ \A s \in Sections : link[s] \in {Absent, Dir, File(Old, 0, s)}
  /\ exists \in SUBSET {link[s] : s \in {t \in Sections : link[t] \notin {Absent, Dir}}}
  /\ bad \in SUBSET exists
  /\ pc = [p \in Procs |-> "idle"]
  /\ sec = [p \in Procs |-> First]
  /\ gets = [p \in Procs |-> 0]
  /\ offline = [p \in Procs |-> FALSE]
  /\ attempt = [p \in Procs |-> 0]
  /\ orphan = [p \in Procs |-> Absent]
  /\ data = [p \in Procs |-> Absent]
  /\ private = {}
  /\ served = [p \in Procs |-> "nothing"]
  /\ linked = {File(Old, 0, s) : s \in Sections}
  /\ closed = {}
  /\ killed = {}

-----------------------------------------------------------------------------
(***************************************************************************)
(* Reading the entry: cachedPackage.  Every name is resolved afresh by     *)
(* each call, so the link may have moved between two of them.              *)
(***************************************************************************)
Goto(p, l) == pc' = [pc EXCEPT ![p] = l]

\* os.Stat follows the link; os.Open needs a file behind it.
Statable(s) == link[s] = Dir \/ link[s] \in exists
Openable(s) == link[s] \in exists
Good(s) == link[s] \in exists \ bad

\* The call begins, in a process that was told to use its cache offline or not.
Get(p) ==
  /\ pc[p] = "idle"
  /\ gets[p] < MaxGets[p]
  /\ gets' = [gets EXCEPT ![p] = @ + 1]
  /\ \E o \in BOOLEAN : offline' = [offline EXCEPT ![p] = o]
  /\ served' = [served EXCEPT ![p] = "nothing"]
  /\ Goto(p, "stat")
  /\ UNCHANGED <<disk, sec, attempt, orphan, data>>

\* A step of cachedPackage that goes on to l when ok holds, and otherwise
\* makes the read a miss.
ReadStep(p, from, ok, l) ==
  /\ pc[p] = from
  /\ Goto(p, IF ok THEN l ELSE "fetch")
  /\ UNCHANGED <<disk, call, sec, attempt, orphan, data, served>>

StatControl(p) == ReadStep(p, "stat", Statable("ctl"), "hash")

\* Faulty variant of HashControl: the content-addressable name is trusted.
BugHashControl(p) == ReadStep(p, "hash", Openable("ctl"), "control")

\* sha1File: the digest is recomputed, never taken from the file's name.
HashControl(p) == ReadStep(p, "hash", Good("ctl"), "control")

\* ControlData opens the control section again.  What it reads decides which
\* data section is wanted; served remembers it until the read is over.
ReadControl(p) ==
  /\ pc[p] = "control"
  /\ IF Openable("ctl")
     THEN /\ served' = [served EXCEPT ![p] = IF Good("ctl") THEN "good" ELSE "bad"]
          /\ Goto(p, IF Signed THEN "sigstat" ELSE "datstat")
     ELSE /\ Goto(p, "fetch")
          /\ UNCHANGED served
  /\ UNCHANGED <<disk, call, sec, attempt, orphan, data>>

\* A missing signature is no error, one that cannot be read is.
StatSignature(p) ==
  /\ pc[p] = "sigstat"
  /\ Goto(p, IF Statable("sig") THEN "sigread" ELSE "datstat")
  /\ UNCHANGED <<disk, call, sec, attempt, orphan, data, served>>

Miss(p) ==
  /\ Goto(p, "fetch")
  /\ served' = [served EXCEPT ![p] = "nothing"]

ReadSignature(p) ==
  /\ pc[p] = "sigread"
  /\ IF Openable("sig") THEN Goto(p, "datstat") /\ UNCHANGED served ELSE Miss(p)
  /\ UNCHANGED <<disk, call, sec, attempt, orphan, data>>

StatData(p) ==
  /\ pc[p] = "datstat"
  /\ IF Statable("dat") THEN Goto(p, "datread") /\ UNCHANGED served ELSE Miss(p)
  /\ UNCHANGED <<disk, call, sec, attempt, orphan, data>>

\* openRegular: the descriptor keeps to the file whatever becomes of its name.
OpenData(p) ==
  /\ pc[p] = "datread"
  /\ IF Openable("dat")
     THEN /\ data' = [data EXCEPT ![p] = link["dat"]]
          /\ Goto(p, "private")
          /\ UNCHANGED served
     ELSE Miss(p) /\ UNCHANGED data
  /\ UNCHANGED <<disk, call, sec, attempt, orphan>>

\* privateFile where the copy never has a name in the cache directory: it is
\* made with O_TMPFILE, or, when the directory cannot be written, elsewhere.
UnnamedCopy(p) ==
  /\ pc[p] = "private"
  /\ Goto(p, "inflate")
  /\ UNCHANGED <<disk, call, sec, attempt, orphan, data, served>>

\* createAndUnlink, first half: the copy needs a directory of its own beside
\* the entry, even in an offline cache.
MakePrivate(p) ==
  /\ pc[p] = "private"
  /\ private' = private \cup {Private(p, gets[p])}
  /\ Goto(p, "unlink")
  /\ UNCHANGED <<link, exists, bad, linked, closed, killed, call, sec, attempt, orphan,
                 data, served>>

\* createAndUnlink, second half: the name and its directory are removed.  When
\* what fstat says is not trusted, the copy is made elsewhere.
RemovePrivate(p) ==
  /\ pc[p] = "unlink"
  /\ private' = private \ {Private(p, gets[p])}
  /\ Goto(p, "inflate")
  /\ UNCHANGED <<link, exists, bad, linked, closed, killed, call, sec, attempt, orphan,
                 data, served>>

\* No private file can be made or filled anywhere: a miss, after the clean-up.
CopyFails(p) ==
  /\ IOErrors
  /\ pc[p] \in {"private", "unlink", "inflate"}
  /\ private' = private \ {Private(p, gets[p])}
  /\ data' = [data EXCEPT ![p] = Absent]
  /\ Miss(p)
  /\ UNCHANGED <<link, exists, bad, linked, closed, killed, call, sec, attempt, orphan>>

\* The rest of VerifiedPackageData: one pass over the descriptor feeds the
\* digest and the private copy, so what was measured is what is served.
InflateData(p) ==
  /\ pc[p] = "inflate"
  /\ data' = [data EXCEPT ![p] = Absent]
  /\ IF data[p] \in bad THEN Miss(p) ELSE Goto(p, "idle") /\ UNCHANGED served
  /\ UNCHANGED <<disk, call, sec, attempt, orphan>>

-----------------------------------------------------------------------------
(***************************************************************************)
(* Fetching: fetchExpandAndVerify and doFetchExpandAndVerify.              *)
(***************************************************************************)
Expanded(p) == {File(p, gets[p], s) : s \in Sections}

\* A step of fetching that leaves the cache directory with these files.
FetchStep(p, from, l, files) ==
  /\ pc[p] \in from
  /\ Goto(p, l)
  /\ exists' = files
  /\ UNCHANGED <<link, bad, private, linked, closed, killed, call, orphan, data>>

\* ExpandApkWithOptions writes the stream's sections into a temporary
\* directory, in the cache directory unless the cache is offline.
Expand(p) ==
  /\ FetchStep(p, {"fetch"}, "expand", IF offline[p] THEN exists ELSE exists \cup Expanded(p))
  /\ UNCHANGED <<sec, attempt, served>>

\* Faulty variant of FetchRejected: the digests are not compared.
BugFetchRejected(p) ==
  /\ pc[p] = "expand"
  /\ bad' = bad \cup (exists \cap Expanded(p))
  /\ sec' = [sec EXCEPT ![p] = First]
  /\ Goto(p, IF offline[p] THEN "idle" ELSE "orphan")
  /\ UNCHANGED <<link, exists, private, linked, closed, killed, call, attempt, orphan, data, served>>

\* A digest does not match, or the error is not one to retry: the expanded
\* files are discarded before anything else can name them.
FetchRejected(p) ==
  /\ FetchStep(p, {"fetch", "expand"}, "idle", exists \ Expanded(p))
  /\ attempt' = [attempt EXCEPT ![p] = 0]
  /\ UNCHANGED <<sec, served>>

\* Faulty variant of FetchTransient: attempts are not counted.
BugFetchForever(p) ==
  /\ FetchStep(p, {"fetch", "expand"}, "backoff", exists \ Expanded(p))
  /\ UNCHANGED <<sec, attempt, served>>

\* A transient error, isRetryableError, before or while the stream is
\* expanded: the files are removed, and the next attempt waits first.
FetchTransient(p) ==
  /\ IF attempt[p] < Retries
     THEN /\ attempt' = [attempt EXCEPT ![p] = @ + 1]
          /\ FetchStep(p, {"fetch", "expand"}, "backoff", exists \ Expanded(p))
     ELSE /\ attempt' = [attempt EXCEPT ![p] = 0]
          /\ FetchStep(p, {"fetch", "expand"}, "idle", exists \ Expanded(p))
  /\ UNCHANGED <<sec, served>>

\* The delay is over, or the context is done first.
Backoff(p, cancelled) ==
  /\ FetchStep(p, {"backoff"}, IF cancelled THEN "idle" ELSE "fetch", exists)
  /\ attempt' = [attempt EXCEPT ![p] = IF cancelled THEN 0 ELSE @]
  /\ UNCHANGED <<sec, served>>

\* The whole package arrived and both digests match.  Its data is served from
\* a private copy whatever happens to the files next.  Nothing is published
\* into an offline cache.
FetchVerified(p) ==
  /\ FetchStep(p, {"expand"}, IF offline[p] THEN "idle" ELSE "orphan", exists)
  /\ served' = [served EXCEPT ![p] = "good"]
  /\ sec' = [sec EXCEPT ![p] = First]
  /\ attempt' = [attempt EXCEPT ![p] = 0]

-----------------------------------------------------------------------------
(***************************************************************************)
(* Publishing: publishPackage calls ReplaceCachedFile for each section.    *)
(***************************************************************************)
Src(p) == File(p, gets[p], sec[p])

\* orphanedTarget, before the link is replaced: the link's target, unless it
\* is the file being advertised.
ReadOrphan(p) ==
  /\ pc[p] = "orphan"
  /\ orphan' = [orphan EXCEPT ![p] =
       IF link[sec[p]] \in {Absent, Dir, Src(p)} THEN Absent ELSE link[sec[p]]]
  /\ Goto(p, "rename")
  /\ UNCHANGED <<disk, call, sec, attempt, data, served>>

\* The link is in place: what it stranded is next.
Advertise(p) ==
  /\ link' = [link EXCEPT ![sec[p]] = Src(p)]
  /\ linked' = linked \cup {Src(p)}
  /\ Goto(p, "recheck")

\* Faulty variant of Rename: an existing entry wins, as in AdvertiseCachedFile.
BugRename(p) ==
  /\ pc[p] = "rename"
  /\ IF link[sec[p]] = Dir
     THEN /\ Goto(p, "clear")
          /\ UNCHANGED <<link, linked, exists>>
     ELSE IF Statable(sec[p])
     THEN /\ exists' = exists \ {Src(p)}
          /\ linked' = linked \cup {Src(p)}
          /\ Goto(p, "recheck")
          /\ UNCHANGED link
     ELSE /\ Advertise(p)
          /\ UNCHANGED exists
  /\ UNCHANGED <<bad, private, closed, killed, call, sec, attempt, orphan, data, served>>

\* A symlink under a name of its own is renamed over the entry; rename(2)
\* refuses to replace a directory.
Rename(p) ==
  /\ pc[p] = "rename"
  /\ IF link[sec[p]] = Dir
     THEN /\ Goto(p, "clear")
          /\ UNCHANGED <<link, linked>>
     ELSE Advertise(p)
  /\ UNCHANGED <<exists, bad, private, closed, killed, call, sec, attempt, orphan, data, served>>

\* os.RemoveAll(dst): the directory, or what replaced it in the meantime.
ClearDir(p) ==
  /\ pc[p] = "clear"
  /\ link' = [link EXCEPT ![sec[p]] = Absent]
  /\ Goto(p, "rename2")
  /\ UNCHANGED <<exists, bad, private, linked, closed, killed, call, sec, attempt, orphan, data,
                 served>>

RenameAgain(p) ==
  /\ pc[p] = "rename2"
  /\ Advertise(p)
  /\ UNCHANGED <<exists, bad, private, closed, killed, call, sec, attempt, orphan, data, served>>

\* ReplaceCachedFile returned: the next section, or the call's result.
SectionDone(p) ==
  /\ orphan' = [orphan EXCEPT ![p] = Absent]
  /\ IF sec[p] = Last
     THEN sec' = [sec EXCEPT ![p] = First] /\ Goto(p, "idle")
     ELSE sec' = [sec EXCEPT ![p] = NextSection(sec[p])] /\ Goto(p, "orphan")

\* Faulty variant of Recheck: the entry's own new file is taken for the orphan.
BugRecheck(p) ==
  /\ pc[p] = "recheck"
  /\ orphan' = [orphan EXCEPT ![p] = link[sec[p]]]
  /\ Goto(p, "remove")
  /\ UNCHANGED <<disk, call, sec, attempt, data, served>>

\* removeOrphan, first half: nothing to remove, or it is advertised again.
Recheck(p) ==
  /\ pc[p] = "recheck"
  /\ IF orphan[p] = Absent \/ orphan[p] = link[sec[p]]
     THEN SectionDone(p)
     ELSE Goto(p, "remove") /\ UNCHANGED <<sec, orphan>>
  /\ UNCHANGED <<disk, call, attempt, data, served>>

\* removeOrphan, second half: best effort, the file may be gone already.
RemoveOrphan(p) ==
  /\ pc[p] = "remove"
  /\ exists' = exists \ {orphan[p]}
  /\ SectionDone(p)
  /\ UNCHANGED <<link, bad, private, linked, closed, killed, call, attempt, data, served>>

\* Faulty variant of PublishFails: the expanded files are not cleaned up.
BugPublishFails(p) ==
  /\ IOErrors
  /\ pc[p] \in {"orphan", "rename", "clear", "rename2"}
  /\ Goto(p, "idle")
  /\ served' = [served EXCEPT ![p] = "nothing"]
  /\ UNCHANGED <<disk, call, sec, attempt, orphan, data>>

\* An I/O error while publishing: cachePackage releases the private copy and
\* the temporary directory, and the call fails.
PublishFails(p) ==
  /\ IOErrors
  /\ pc[p] \in {"orphan", "rename", "clear", "rename2"}
  /\ Goto(p, "close")
  /\ UNCHANGED <<disk, call, sec, attempt, orphan, data, served>>

CloseExpanded(p) ==
  /\ pc[p] = "close"
  /\ exists' = exists \ Expanded(p)
  /\ closed' = closed \cup Expanded(p)
  /\ sec' = [sec EXCEPT ![p] = First]
  /\ orphan' = [orphan EXCEPT ![p] = Absent]
  /\ served' = [served EXCEPT ![p] = "nothing"]
  /\ Goto(p, "idle")
  /\ UNCHANGED <<link, bad, private, linked, killed, call, attempt, data>>

\* The process is killed; its successor starts with nothing in memory.
Crash(p) ==
  /\ pc[p] # "idle"
  /\ Goto(p, "idle")
  /\ killed' = killed \cup {<<p, gets[p]>>}
  /\ sec' = [sec EXCEPT ![p] = First]
  /\ attempt' = [attempt EXCEPT ![p] = 0]
  /\ orphan' = [orphan EXCEPT ![p] = Absent]
  /\ data' = [data EXCEPT ![p] = Absent]
  /\ served' = [served EXCEPT ![p] = "nothing"]
  /\ UNCHANGED <<link, exists, bad, private, linked, closed, call>>

-----------------------------------------------------------------------------
Read(p) ==
  StatControl(p) \/ HashControl(p) \/ ReadControl(p) \/ StatSignature(p)
    \/ ReadSignature(p) \/ StatData(p) \/ OpenData(p) \/ UnnamedCopy(p)
    \/ MakePrivate(p) \/ RemovePrivate(p) \/ CopyFails(p) \/ InflateData(p)

Fetch(p) ==
  Expand(p) \/ FetchRejected(p) \/ FetchTransient(p) \/ FetchVerified(p)
    \/ \E cancelled \in BOOLEAN : Backoff(p, cancelled)

Publish(p) ==
  ReadOrphan(p) \/ Rename(p) \/ ClearDir(p) \/ RenameAgain(p) \/ Recheck(p)
    \/ RemoveOrphan(p) \/ PublishFails(p) \/ CloseExpanded(p)

Next == \E p \in Procs : Get(p) \/ Read(p) \/ Fetch(p) \/ Publish(p) \/ Crash(p)

Spec == Init /\ [][Next]_vars

\* A process that is not killed runs on, and an HTTP attempt comes to an end.
FairSpec ==
  Spec /\ \A p \in Procs : WF_vars(Read(p) \/ Fetch(p) \/ Publish(p))

-----------------------------------------------------------------------------
(***************************************************************************)
(* Properties                                                              *)
(***************************************************************************)

\* A call that returns a package returns one whose control and data sections
\* matched their digests, even though the cached control section is opened
\* three times while other processes replace it.
ServedVerified ==
  \A p \in Procs : pc[p] = "idle" => served[p] # "bad"

\* removeOrphan never deletes a file an entry still addresses: a link that a
\* process advertised leads to a file, unless that process's own publishing
\* failed and took its temporary directory away.
NeverDangles ==
  \A s \in Sections :
    link[s] \in linked /\ link[s].by # Old => link[s] \in exists \cup closed

\* "the verified copy wins" (ReplaceCachedFile): once any process has
\* published a section, its entry is never bad content or a directory again.
VerifiedCopyWins ==
  \A s \in Sections :
    (\E f \in linked : f.sec = s /\ f.by # Old)
      => link[s] # Dir /\ link[s] \notin bad /\ (link[s] # Absent => link[s].by # Old)

\* Once everyone is done, nobody failed and somebody published, the whole
\* entry can be read, whatever the directory was like at the start.
SettledEntryReadable ==
  ( /\ \A p \in Procs : pc[p] = "idle"
    /\ closed = {}
    /\ killed = {}
    /\ \E f \in linked : f.by # Old )
  => \A s \in Sections : Good(s)

\* What a call puts into the shared directory, where "nothing else will ever
\* remove it" (cachePackage), goes again with the call: a file that was never
\* advertised or a private directory is that of a call still using it or of one
\* that was killed, whichever step of reading, expanding or publishing failed.
NothingAbandoned ==
  \A f \in exists \cup private : f.by # Old /\ f \notin linked =>
    \/ /\ f.n = gets[f.by]
       /\ pc[f.by] \in IF f.sec = "private" THEN {"unlink"} ELSE {"expand"} \cup PublishPCs
    \/ <<f.by, f.n>> \in killed

\* Every call returns: reads do not loop and retries are bounded.
EveryGetReturns == \A p \in Procs : pc[p] # "idle" ~> pc[p] = "idle"
=============================================================================
