# A TLA+ model of apko

apko builds OCI images out of APK packages: it reads repository indexes,
resolves the packages an image needs, fetches and unpacks them through shared
caches, installs them into an in-memory or on-disk root filesystem, and splits
that filesystem into layers. This directory holds TLA+ modules for the parts
of apko where several actors meet or where failures leave something behind, TLC
configurations that check them on small instances, and TLAPS proofs for the
caches, the resuming download, the installer, mounts, version comparison and the
multi-architecture build. Paths below are relative to the repository.

`PROJECT.json` lists, for every definition, the source lines it stands for; for
every run, its properties; for every property, a mutation of the code it
catches; and the hazards each property is for.

## 1. The system

### Components with shared state or failure handling

**Coalescing package cache** (`pkg/apk/apk/cache.go`, `package_getter.go`).
State: an LRU from package URL to a `sync.OnceValues` closure, under a mutex;
the closures' outcomes; the files the values refer to. Operations: `Do`,
`Forget`, `ForgetFunc`, `GetPackage` (with the check that a cached value's files
still exist). Used by every installing goroutine of every architecture in the
process. Hard: the closure runs outside the mutex, so an entry may be evicted,
forgotten or replaced while callers wait for it, and each of them forgets *by
key* when it fails. Correct when: failures are not kept, nobody is given another
key's value or one that is known to be gone, one caller runs the function, the
LRU keeps its bound, and every call returns.

**On-disk package cache** (`package_getter.go`, `pkg/paths/paths.go`,
`pkg/apk/expandapk/expandapk.go`). State: per package and section (control,
signature, data) a content-addressed symlink to a file in some process's
temporary directory. Operations: read an entry, fetch with retries and verify,
publish by rename, dispose of the file a rename stranded, clean up after a
failure. Shared by unrelated processes with no lock. Hard: every
check-then-use is a race with another process's rename; a process may die or
run out of disk between sections; the directory may hold anything at the start.

**Repository index cache and caching transport** (`index.go`, `cache.go`). State:
the in-memory LRU keyed by URL and etag, the etag cache of HEAD responses, two
flight groups (HEAD and GET), the disk files named by etag. Operations:
`indexCache.get`, `cacheTransport.RoundTrip`, `Cache.get`/`head`, `ForgetFunc` of
older generations. Hard: three coalescers with different keys in one call, and
a server that publishes a new index between any two requests.

**Package installer** (`implementation.go`, `install.go`, `installed.go`,
`pkg/tarfs/fs.go`). State: the image's files, `installedFiles` (path to
owning `*Package`), `installAbortedErr`, the installed database, and the
goroutines of one call. Operations: `InstallPackages`, `InstallPackageContents`,
`installPackage` on the two kinds of filesystem, `updateScriptsTar`,
`recordInstalled`. Hard: fetches end in any order but packages go in in the
given one; conflicts between packages are decided by origin and `replaces`;
a failed call leaves files, owners and pointers to a later call.

**EROFS mount and umount** (`pkg/erofsmount/mount_linux.go`, `state.go`,
`driver_linux.go`). State: the kernel's mount table, the state file, the
overlay's upper directory. Operations: claim the destination, check the upper
directory, mount layers, assemble the overlay, write the record, clean up;
load, umount, rewrite the record, remove directories and record. Hard: each
command is a process of its own that may be killed, mountpoints may be busy, and
a user's writes must not be lost or mixed.

**HTTP transports** (`transport.go`, `limited_transport.go`,
`pkg/limitio/limitio.go`). State: the bytes read so far, the body, a sticky
`exceeded` flag. Operations: `RoundTrip`, `reset` with a Range header, `Read`.
Hard: the server may ignore the range, or have another file by then.

**Dependency resolver** (`repo.go`, `version.go`, `resolveapk.go`) and the
**process-wide caches** (`shameful_global_caches.go`). State: the name map, the
disqualified packages, the packages selected, the origins already chosen, the
calls of a recursion. Sequential, but its result depends on the order of choices
and of map walks, and it does not go back on a choice. Correct when: every dependency of the result is satisfied by a
member of it, conflicts are excluded, dependencies come before dependents. The
code promises the last two only where no choice has to be taken back
(`SatisfiedIfForced`).

**Image build orchestration and lock files** (`pkg/build`, `pkg/lock`,
`pkg/build/oci`, `internal/cli`). State: one build context per architecture and
their results, the indexes each one read, the process-wide LRU of disqualified
packages, locked versions, what is in the registry. Operations: `lock`, `build`,
`publish` and loading into a daemon. Architectures are resolved and built
concurrently under errgroups, and each reads the indexes of all. Correct when:
the architectures agree on what was asked for, an image holds what was locked, a
failure in one architecture fails the build, and no tag names an incomplete
index.

**Layers** (`pkg/build/layers.go`, `layer_plan.go`, `erofs.go`,
`erofs_layers.go`, `pkg/erofsmount/stack.go`). State: package groups under a
budget, a stack of directories per layer, open writers, planned digests.
Operations: group, split into tars, plan and render, split into EROFS images,
read several EROFS images as one filesystem. Sequential but for the digests;
hard because the same image is written four ways that must agree, because groups
are merged while maps are walked, and because directories are shared by layers.

**Filesystems** (`pkg/apk/fs/memfs.go`, `rwosfs.go`, `pkg/tarfs/fs.go`). State:
a tree in memory; on disk as well for `dirFS`, whose two copies must stay one,
also on a disk that folds case; files backed by a package until written to for
`tarfs`. Operations: all of `FullFS`. Correct when each behaves like one POSIX
tree, and when the layers written from it show that tree.

### Sequential components

Version comparison (`version.go`) and the installed-database format
(`installed.go`), which are modelled as operators; index parsing and signatures;
splitting of APK streams (`expandapk/split.go`); accounts, paths,
certificates and supervision; the loader cache; SBOMs; image configuration and its includes; authentication; busybox link
tables; the command line. Each is listed in `PROJECT.json` with its status.

### How they interact

    cli -> build (one context per architecture, errgroup)
             -> APK.ResolveWorld -> GetRepositoryIndexes -> IndexCache -> transports -> server
             |                   -> Resolver (global caches)
             -> APK.InstallPackages -> per package: FlightCache -> PackageCache -> transports
                                    -> in order: filesystem writes, scripts
                                    -> recordInstalled
             -> filesystem -> layers (tar, plans, EROFS) -> OCI image
          -> index of all architectures -> registry, daemon, directory
    cli -> erofs mount / umount -> kernel, state file, upper directory

`FlightCache` is what calls `PackageCache` inside one process; `Installer` calls
`GetPackage` and abstracts from how it obtains a package (it succeeds or fails);
`IndexCache` uses the same `flightCache` three times and models each use at
the grain at which its callers interleave. `Download` is the body both caches
read. `FileSystems` composes `DirFS` and `TarFS` with the layer formats and
shows both to implement `FullFS`; `MultiArch` uses `PackageLock` and leaves open
what `Resolver` picks and how an index is fetched; `Layers` composes
`LayerGroups` and `LayerStack`.

## 2. Modules

| Module | Models | Runs | Proofs |
| --- | --- | --- | --- |
| `FlightCache` | `flightCache`, `GetPackage` | `flight_cache` | `FlightCacheProofs` |
| `PackageCache` | `getPackageImpl`, `ReplaceCachedFile` | `package_cache` | `PackageCacheProofs` |
| `IndexCache` | `indexCache.get`, `cacheTransport`, `Cache` | `index_cache` | `IndexCacheProofs` |
| `Download` | `rangeRetryReader`, `limitedResponseTransport`, `limitio` | `download` | `DownloadProofs` |
| `Installer` | `InstallPackages`, `installPackage`, `recordInstalled` | `installer` | `InstallerProofs` |
| `MemFS` | the tree of `memFS`, as operators | `filesystems` | |
| `FullFS` | abstract: what a filesystem promises | `filesystems` | |
| `DirFS` | `dirFS` (`rwosfs.go`) over `MemFS` and a disk | `filesystems` | |
| `TarFS` | `pkg/tarfs` | `filesystems` | |
| `LayerFormats` | `writeTar`, `writeErofs` | `filesystems` | |
| `FileSystems` | `DirFS` and `TarFS` implement `FullFS` | `filesystems` | |
| `PackageLock` | `resolvePackageList`, `unify`, `Lock` | `multi_arch` | `MultiArchProofs` |
| `MultiArch` | `lock`, `build`, `publish` over several architectures | `multi_arch` | `MultiArchProofs` |
| `LayerGroups` | `groupByOriginAndSize` | `layers` | `LayersProofs` |
| `LayerStack` | `Stack`, and overlayfs as its reference | `layers`, `stack_overlay` | `LayersProofs` |
| `Layers` | `splitLayers`, `PlanLayers`, `Render`, `splitErofsLayers` | `layers`, `stack_overlay` | `LayersProofs` |
| `InstalledFormat` | writing and reading the installed database | `layers` | |
| `ErofsMount` | `mountImage`, `unmountImage`, state file | `erofs_mount` | `LayersProofs` |
| `Versions` | `ParseVersion`, `CompareVersions`, `satisfies` | `resolver` | `ResolverProofs` |
| `Resolver` | `GetPackagesWithDependencies` and all it calls | `resolver`, `resolver_twice` | `ResolverProofs` |

`MCFoo` instantiates `Foo` for TLC. Operators called `BugX` are faulty variants
of `X`, kept next to it; they are used by no specification and say which
mistake in the code the properties would catch.

### FlightCache

A closure made by `Do` is a *flight*, numbered as it is made; `load` is the LRU,
`newer` its recency order. `DoHit` and `DoMiss` are the critical section of `Do`
(lookup, recency, insertion and eviction together, as the mutex makes them);
`RunFlight`, `FinishFlight` and `JoinFlight` are `load()` in the caller that
gets to run the function and in those that wait; `ForgetFailed` is the
`Forget` each caller does after an error; `CheckValid`, `DropInvalid` and
`FinishDirect` are `GetPackage` after a hit. `GetUncached` is `GetPackage`
without a disk cache. `Vanish` is the environment removing a file. `call[c].res`
records which flight's value was returned, so properties can talk about it.

### PackageCache

One package, several processes, one cache directory. A file is named by the
process, its call and the section; a link holds a file, nothing or a directory.
`Init` allows any prior content: good, bad, dangling, missing, a directory.
Reading is split where the code makes separate system calls (`StatControl`,
`HashControl`, `ReadControl`, ...), publishing likewise (`ReadOrphan`, `Rename`,
`ClearDir`, `RenameAgain`, `Recheck`, `RemoveOrphan`). `FetchRejected` is a
download that fails its digest or fails for good, `FetchTransient` one that is
retried after `Backoff`. `PublishFails` and `CloseExpanded` are the error path,
`Crash` a kill. Each call has the cache on or is offline.

A cached data section is opened (`OpenData`), copied into a file nobody else can
name, and digested on the way (`InflateData`). That copy is a write to the cache
directory, in an offline cache too: where the file system has no `O_TMPFILE`,
`privateFile` makes a directory `.apko-private-*` (`MakePrivate`) and unlinks the
file and the directory at once (`RemovePrivate`). `UnnamedCopy` stands for copies
that never have a name there, `CopyFails` for no copy at all, which is a miss.
`NothingAbandoned` asks that these directories and the expanded files go again,
whichever step fails, unless the process was killed (the history `killed`).

Contents are abstracted to "what the name promises" or "bad", which is all a
content address lets anyone ask. Left out: the temporary name `.link-*` that a
symlink has before it is renamed, and failures of a process to remove what it
made itself, which the code ignores.

### IndexCache

One index URL whose content is a growing version number; an etag (or the
modification time of a local file) identifies the version. The variable
`transport` ranges over a local file, a plain client, a caching client and a
caching client with an etag cache. A call goes `head` -> (`headdo`, `headrun`,
`headwait`: the HEAD flight group) -> `do` (the in-memory cache) -> `get` ->
(`getrun`, `getwait`: the GET flight group, which sends a HEAD of its own, hence
`again`) -> `finish` -> `prune`. `Update` is the repository publishing,
`Evict` other URLs pushing an entry out of the LRU.

### Installer

Packages meet only at paths more than one of them ships, so the model follows
one path, over all choices of what each package ships there, the origins, the
`replaces` relation and what was there beforehand. The errgroup is modelled with its
limit (the installing goroutine holds a slot of it). `Sequentially` is the
reference: installing one package after the other. `InstallPackageContents`,
the entry without fetching, is an action of its own. Instances stand for
`*Package` pointers, which is what `installedFiles` compares and what makes a
second call differ from the first. A package ships nothing, a file or a symlink
at the path, on either kind of filesystem. Only regular files are credited in
`installedFiles`, so on the streaming filesystem a symlink may lie over a
file that stays credited (`LinkOver`); `Claimed` is what the records then have.

### ErofsMount

Mountpoints are numbered, 0 the overlay, n the n-th layer; `mounted` counts
mounts stacked at each. The state file is absent, empty (claimed) or a record.
`ClaimState` is the exclusive create, `CheckUpperUnused` the look at the upper
directory, `Cleanup` the deferred umounts in reverse order, `Rewrite` the
umount's update of the record after a failure. `UserWrites` and
`UserMovesUpper` are the user; `Kill` stops a command anywhere. `cut` remembers
that a command was killed, or failed to do what it had to on its way out.

### Resolver

A repository is a sequence of packages; names are numbers. Versions are texts of
`Versions`, read, compared and matched as the code does it. `ChooseWorld` is the
loop that picks a package for every entry of the world, `StartRoot` begins the walk for one entry. The recursion of
`getPackageDependencies` is a stack of frames: `Descend` is one round of its loop
up to the recursive call, `Return` what follows it. `dq`, `selected`, `existing`
and `origins` are shared by all calls, as in the code. `RootDone`,
`VisitInstallIf` and `Install` are what happens to the dependencies found, `Fail`
every error. The order in which a map is walked is the variable `mapOrder`, or a
choice where only one thing depends on it. `Again` repeats the resolution on the
same input with other map orders, and `first` keeps the first answer, which makes
reproducibility an invariant. Constraint strings keep their order, because ties
are broken by it.

`WorkShrinks` stands for termination: each step of the walk makes what is left to
do, per call from the outermost in, lexicographically smaller; together with
`RecursionBounded` and the check that no state is without a successor, no
resolution goes on for ever. Both are proved for any repository.

What an answer has depends on what the resolver may have to take back, and it
takes nothing back. The premises name the cases: `Interchangeable` (for
`WorldInstalled`) has the versions of a package provide the same names, because
the answer keeps one package per name, `ByOwnName` has versions asked for by the
package's own name, because a provided version is only looked at in part, and
`NothingToTakeBack` (for `SatisfiedIfForced`) adds that nothing is excluded or
triggered by install-if. Each was found by a run that failed without it; `Circles`
and `Splits` in `MCResolver` are the repositories that showed it. `DepsFirst`
leaves out packages in a circle of dependencies (`Circular`), where some package
has to come first.

### Download

Byte k of version v of a file is `<<v, k>>`, so that "each byte at its place" can
be said of a download spliced from several responses. `Read` enters the loop of
three attempts; `ReadData`, `ReadEOF`, `ReadBreaks`, `LimitExceeded` and
`ProbeFails` are the outcomes of one read of the body, `Reset` and `ResetFails`
the Range request that follows a failed one. An answer to it without a body, or
a redirect, keeps the body that was closed (`ResetUnanswered`), so that the next
read fails or, with the quota of the limit used up (`Spent`), looks like the end.
A server without ranges sends the
file from its start and the reader discards (`Skipped`), which the limit of the
new response counts (`Remaining`). `Replace` is the repository.

### Filesystems

A tree is a function from the paths in use to entries; the names of one inode
are in its entries. `MemFS` has the operations as operators, with a rule for how
symlinks are followed: as `getNode` does, as a kernel does, or as `os.Root` does
on the directory below `dirFS`. `DirFS` makes each operation on the disk and on
the override tree in the order of the code, with the names that a folding disk
confuses kept apart by `caseMap`. `TarFS` adds entries backed by a package and
`WriteHeader` with its conflict rules. `FullFS` is the promise: one POSIX tree.
`OneTree` is the refinement, `INSTANCE FullFS WITH` the tree that `DirView` or
`View` shows; it covers the result, the error and what else an operation
changes. `ReadBack` says what was written is what is read, `LayerShowsTree` and
`LayersAgree` say that the EROFS and the tar layer of a tree show that tree and
the same one. `misused` becomes TRUE when a caller does something
that the implementations do not support (listed under Observations), and the
refinement is claimed until then.

### MultiArch and PackageLock

A command is a scenario: architectures, repositories, what is asked for, a lock
file or not, dates. Each architecture is a goroutine that fetches its own index,
then those of its siblings, consults the LRU of disqualified packages, and
resolves; `Update` changes repositories meanwhile. `Unify` is `unify`, whose map
order is a choice of where to begin. Building, collecting dates under the
mutex, generating the index, writing it or pushing images and tags, and moving
SBOMs follow, each with its failure. `Answers` is what a resolver may answer
given its candidates; `Resolver` says which of these it does.

### Layers, LayerGroups and LayerStack

The jobs over one image follow each other: `Visit` is one step of
`partitionLayers` into tars or into plans (the two sinks of the code, given to
`add` and `addData`; `written` is what one layer gets of a file), `DigestFile` one of the concurrent
digests, `Render` the writing of a plan, `VisitErofs` one step of
`splitErofsLayers`, which puts a file into an image with the ancestors it lacks
(`emitInto`). A file of a package that is in no group stops either (`hasLayer`).
`MergeReplaced` takes the entries of `replaceMap` in any order, each going once
over the groups there are (`MergeOne`); the reference `GroupedByTies` asks for the
components of the relation that origins and satisfied `replaces` make.
`LayerStack` has `lookup` and `mergeDir` next to what overlayfs shows for the same
layers, which is said without a walk: a layer contributes to a directory unless one
above `hides` it, and the highest one that contributes is seen. `ReadForeign`
reads stacks apko did not make. `StackIsKernelView` says that both are the same, which
they are not (Findings); `StackShowsOverlay` says that `Stack` shows all the
kernel does, and no more unless a directory was deleted, or lost its place or
its ancestor to an opaque one, and was made again above (`Remade`, which is said
of the layers and not of what either shows). The job is called `job` and the specification
`LayersSpec` because `LayersProofs` is also about `ErofsMount`. `InstalledFormat` is the database that each tar
layer gets a part of: the stable sort by `pathCompare` (an insertion sort, since
what a stable sort does with something that is not an order depends on the sort,
and Go's works on such blocks by insertion), the F:, M:, R: and a: lines, and
the parser that takes them apart again. The archives of the run list their
entries in every order; `ReadsBack` asks that what is read is what was meant, with
the permissions lost as the code loses them, and `Lists` that the lines list every
entry once, in its own directory if the archive has parents first.
`CreateLayerFile` opens the temporary files of the layers and `Fail` removes them;
`NoStrayFiles` is about the directory they are in, over all jobs.

## 3. Runs

All passing runs finish with no error; states are distinct states.

| Run | Question | Instance |
| --- | --- | --- |
| `flight_cache` | Do calls return the right thing, once computed, whatever is evicted, forgotten, failing or vanishing meanwhile? | 3 callers (one without disk cache), 2 keys, LRU of 1, 3 flights; 370 k states |
| `package_cache` | Is what is served verified, what is published kept, and nothing left behind, over any prior directory content, I/O errors and kills; does every call return? | 2 processes with 1 call each, cache on or offline, 1 retry, a signature section; 259 k states |
| `index_cache` | Freshness without request sharing, one generation kept, every call returns | 2 callers, 2 versions, 3 flights, all transports, failures and missing etags |
| `download` | Is every byte at its place, an end without error the end of the file, the limit kept, and does every download end? | files of up to 4 bytes in 2 versions, reads of up to 2, limits none, default, 2 and 3; 36 k states |
| `installer` | Does a call that succeeds leave what sequential installation leaves, and records that match, also after failures in an earlier call; does every call return? | 3 packages, 2 jobs, 2 calls, both filesystems, nothing, a file or a symlink from each package, failures at every stage; 1.8 M states |
| `filesystems` | Are both filesystems one POSIX tree, and do the layers written from it show it? | 3 operations on 4 paths, with and without a folding disk, from a tree with a file (and a hard link); 136 k states |
| `multi_arch` | Do the architectures of an index agree, hold what was locked and get published together; does every command end? | 2 architectures with 2 repository updates, 3 without, 5 packages, LRU of 1, 2 tags |
| `layers` | Do the layers together give the image, in every format, whatever the map order; does the database read back; does the stack reader show what the kernel would, where no directory came back? | 4 packages that replace each other under budgets 0 to 3, 13 files with every choice of owners, every stack of 1 to 3 foreign layers over three paths, archives in every order; 144 k states |
| `stack_overlay` | *violation*: the stack reader shows what the kernel does not | the same |
| `erofs_mount` | Does the record describe the mounts, are mounts never stacked and writes never lost or mixed; does a repeated umount finish? | 1 or 2 layers, 2 mounters, 1 unmounter, 3 sessions, kills and failures |
| `resolver` | Does every resolution end, with everything asked for, dependencies first, nothing another architecture lacks, and the same answer each time? | 1544 repositories of 2 to 4 packages, 7 worlds, 2 map orders, with and without a second architecture; 679 k states |
| `resolver_twice` | *violation*: two runs on one input may install different packages | the repositories with provides, world `a` |

Where one question has several sides, the run's property is the conjunction of
named parts:

| Property | Parts |
| --- | --- |
| `CacheInOrder` (`IndexCache`) | `TypeOK`, `OneGeneration` |
| `DatabaseDescribesImage` (`Installer`) | `TypeOK`, `RecordsMatchImage`, `NothingUnrecordedWhileClean` |
| `MountsInOrder` (`ErofsMount`) | `TypeOK`, `NeverStacked`, `FileDescribesMounts` |
| `UpperKept` (`ErofsMount`) | `WritesSurvive`, `OneSessionPerUpper` |
| `WalkBounded` (`Resolver`) | `TypeOK`, `RecursionBounded` |
| `Answered` (`Resolver`) | `WorldInstalled`, `LackingLeftOut` |
| `SatisfiedIfForced` (`Resolver`) | under `NothingToTakeBack`: `Satisfied`, `DepsFirst` |
| `LayersFaithful` (`FileSystems`) | `LayerShowsTree`, `LayersAgree` |
| `ResolvedTogether` (`MultiArch`) | `TypeOK`, `OneView`, `LackingLeftOut`, `UnifiedInAnyOrder` |
| `IndexAsResolved` (`MultiArch`) | `AllArchsOrNone`, `BuiltAsLocked`, `SameVersionEverywhere`, `DatedByContents` |
| `PublishedWhole` (`MultiArch`) | `TagsComplete`, `DoneIsComplete` |
| `TarLayers` (`Layers`) | `LayersTypeOK`, `TarLayersGiveImage`, `DatabaseReadsBack`, `InItsLayer`, `NoStrayFiles` |
| `ErofsLayers` (`Layers`) | `StackShowsImage`, `OwnTimes` |
| `StackLikeOverlay` (`Layers`) | `StackShowsOverlay`, `ReadDirIsLookup` |

### Why the bounds are enough to be interesting

- Three callers are what it takes for one to run a flight, one to wait on it and
  a third to make the next one for the same key; an LRU of one makes every
  second key evict a running entry. The proofs remove these bounds.
- Two processes suffice for each race in `ReplaceCachedFile` between reading
  the old link, the rename and the removal; with one call each, a process meets
  what the other left, or what was there at the start. The proofs remove these
  bounds as well.
- Two versions are "the one my HEAD saw" and "the one that replaced it"; two
  callers are the one that fills a coalescer and the one that joins it.
- Three packages at one path give every chain of `replaces` and origin
  decisions in which the middle one matters; two jobs make the fetches
  overlap while the installing goroutine occupies a slot of its own; a second
  call meets what the first one left. Symlinks come over and under files on both
  filesystems.
- Three operations are what it takes to make a name, alias it (by case, symlink
  or hard link) and change it through the alias.
- Two architectures and two updates let each see the other's repository before
  and after; three are what pairwise unification needs to depend on its order. An
  LRU of one evicts at every second resolution.
- Four packages are the least for two merged groups to be merged again while
  both are still in the map; the walk has directories before and after files of
  their parents, an empty directory, an empty file, equal contents and a link.
  Three layers are what a deletion in the middle needs.
- Four bytes under reads of two and limits of one to three put the break, the
  end and the limit before, at and after each other.
- Two versions of `b` are what a choice needs; a third package and a virtual name
  give it dependents that disagree, circles, and three candidates for one name,
  the least that can be preferred in a circle. Two opposite map orders reverse
  every list a map walk makes.
- One and two layers are with and without an overlay; two mounters race for the
  claim, a third session comes after a torn-down one. One unmounter: two
  concurrent umounts work from private copies of the record and overwrite each
  other's; nothing in the code orders them (hazard at `mount_linux.go:254`), so
  the properties are for one umount at a time. Likewise a failing mount's
  cleanup is taken to succeed (`CleanupBusy`).

`CHECK_DEADLOCK FALSE` is set where a behaviour ends because the calls or
commands allowed by a bound are used up.

### Fairness

- `FlightCache`, `PackageCache`, `IndexCache`, `Installer`: weak fairness of a
  goroutine's or process's own steps, that is, it keeps running when it is not
  blocked and an HTTP exchange comes to an end. The code sets no timeout of its
  own on requests, so termination is relative to the network giving an answer or
  an error. Starting a call, failing, evicting, vanishing and updating are not
  fair.
- `Download`: weak fairness of the reader's steps: its caller reads to the end
  or the first error, and the network answers or fails. `MultiArch`: weak
  fairness of the command's own steps, not of updates; a step may always fail
  instead.
- `ErofsMount`: weak fairness of each command's steps and of running umount
  again, and strong fairness of a successful umount of a mountpoint, that is, a
  mountpoint is not in use for ever. This is what "rerun once they are no longer
  busy" asks of the user.

### Findings

`resolver_twice`: `comparePackages` is not an order. A package that provides
a name without a version is not compared by that name (`repo.go:1264`), so
three candidates can be preferred in a circle; the one that is chosen then
depends on the order of the list, which `mapPackages` takes from a walk over a
map (`repo.go:392`). The same happens when two versions of one package have
different priorities, and when the packages asked for include two versions of
one origin (`repo.go:813`).

`stack_overlay`: `Stack` applies "the overlay semantics the kernel would apply if
the same layers were assembled as" lowerdirs (`stack.go:29`). `lookup` and
`mergeDir` pass over a layer in which the parent of the name is not a directory
(`stack.go:209`), so a directory that a middle layer deleted, and a higher one
made again, shows the children it has in the lowest layer. The kernel
stops at the layer that deleted it.

### Observations

Behaviour met while modelling that no run is kept for. Where a property has a
premise because of one of these, the premise is named.

*Versions and the database.* The version of a shared library without a release
gets "0." in front, which puts it before the others, where the comment
(`version.go:380`) says "sort *after*"; a `=~` there becomes `=0.~`. A
directory and what is in it are equal to `pathCompare`, so the order of a
package's entries rests on the tar listing a directory before its content
(`ParentsFirst`, a premise of the last part of `Lists` only); an
entry that comes before its directory can end up under another one's F: line,
and is then read back as another path, which is not what `installed.go:59` and 92
set out to rule out (a record that cannot be read back).
`ParseInstalled` appends a copy of an entry (`installed.go:437`, 477) before it
reads the M: or a: line that follows (452, 487), so the modes and owners it reads
are the defaults, and they are
lost when the packages of a base image are recorded again (`ReadsBack` has exactly
this loss); Z: lines are skipped.

*Caches and resolver.* GETs are coalesced by URL alone (`cache.go:247`), so on
the caching transport a caller whose HEAD saw a new etag can join a GET that
answers with the old index, which is then kept in memory under the new etag;
`AsFreshUnshared` is about the other transports (`AsFreshAsHead` is what fails),
so no property would notice this case getting worse.
The in-memory index cache is keyed by URL and etag,
but its value carries the pin of the repository line that filled it
(`index.go:136`). The resolver never goes back on a choice: with `c` needing `b`
and `a` needing `b<2`, the world `c a` resolves to `b` 2, `c`, `a`, without an
error, because the second choice for `b` is dropped as a duplicate of its name
(`repo.go:781`); `SatisfiedIfForced` states when this cannot happen. An entry of
the world can be lost the same way: with `b` 1 providing `v` and `b` 2 providing
`c`, the world `a v`, where `a` needs `c`, gets `b` 2 for `c`, and `b` 1 is dropped
as another `b`, so that nothing in the answer is `v` (`WorldInstalled` assumes
`Interchangeable`). A package that provides `v` 1 and needs `v` 2 counts as
meeting its own need, because names are looked at and not versions
(`repo.go:996`). A package
pulled in by install-if is neither checked against the other architectures nor
are its dependencies looked for (`repo.go:841`). A late waiter of a failed flight
forgets whatever flight the key has by then (`cache.go:70`), so a package can be
fetched twice at once. No result is wrong because of it.

*Installer.* Only a failure while files are written marks the APK as aborted;
after a failed fetch, script update or record write a second call on the same
APK can succeed with a file that no record lists (the outcome
`install.go:532` names). `NothingUnrecordedWhileClean` is for histories without
such a failure (`unclean`). On the streaming filesystem, the one of a default
image, only regular files are credited (`install.go:509`), where
`implementation.go:925` says that recording drops "files a later package
overwrote": a symlink that replaces a credited file is in no record, and the file
stays in its owner's; where no file was credited, every symlink listed stays
recorded, also those that were overwritten. `RecordsMatchImage` says that this is
all (`LinkOver`, `Claimed`): a record has the replaced file or nothing, never a
third package's, and only one record has it. After a failure such
as above nothing is claimed there (`LazyLinks => ~unclean`), because the owner may
be an instance of an earlier call.

*Download.* The size limit is per response, and its error is retried by
`rangeRetryReader` like any other, so that with a server that honours ranges it
does not bound the download (`ranges` in `LimitHolds`). An error of the read
beyond the limit is dropped and the end reported (`limitio.go:75`, `unprobed`).
When the answer to a Range request is a redirect or has no body, `reset` returns
without an error and the reader keeps the body it has just closed
(`transport.go:90`); the read that follows fails, and with the quota of the limit
used up its failure is the dropped one, so a download cut short ends as if whole.
No `If-Range` is
sent: a file that is replaced in between is spliced, and left to the digests to
catch. `WithContext` shares the header map, so the Range header is set on the
caller's request too.

*Filesystems* (the cases of `misused`). On a folding disk: names that differ in
case together with links, a name in a case nobody claimed, claims left by a
create that failed, `Remove` of a claimed name that has variants or is given
with a leading slash. On any disk: absolute symlinks, which `os.Root` refuses; `..` behind a
symlink, which `getNode` resolves textually; `Link` to a symlink, which follows
it in memory and not on disk; `Remove` of a directory that is not empty, which empties memory
before the disk refuses; `Mknod` over something. In `memFS`, `Symlink`, `Mknod` and `Link` below a file
panic. In `tarfs` the xattrs of a package's file that was skipped are set on the
file that was kept. A tar layer in which a hard link sorts before its target, or
whose target was removed, cannot be replayed, while the EROFS layer copies the
content; a tar layer has no entry for the root directory, whose mode and times an
EROFS layer has, so `LayersAgree` is about what is below it. New symlinks and
devices have the time of their directory in memory, and their own on disk; a link through a symlinked directory is copied in EROFS and shared in
tar.

*Builds.* With three architectures and something asked for by a name it is only
provided under, `unify` depends on the map order (`Virtual` in
`UnifiedInAnyOrder`). A configuration without packages makes an index without
images, which `LoadIndex` indexes at 0. A lock file without packages for an
architecture gives no image for it and no error. Without an etag cache an
architecture may read its own index twice in different generations, and the
disqualified packages are then not those it resolves with (`LackingLeftOut`). A
`--build-date` later than `SOURCE_DATE_EPOCH` wins on the index and not on the
images (`DatedByContents`). `publish --local` returns before SBOMs are moved.
`oci.BuildIndex` seeks back over one block too many when the last entry of the
tar ends on a block boundary, and opens the archive without truncating it.

*Layers.* `partitionLayers` pops its stack for directories only, so a file that comes
after a sibling directory's subtree brings that directory into its group's tar
layer; EROFS layers have the real ancestors only. The root's own time is in every
EROFS layer. Hard links are copied in split EROFS layers.

## 4. Proofs

Each proof module extends the module it is about, and proves for every value of
the constants that satisfies the module's named assumptions:

| Theorem | States |
| --- | --- |
| `FlightCacheProofs!TypeCorrect` | `Spec => []TypeOK` |
| `FailuresForgotten` | a failed flight is in the LRU only while a caller is about to forget it |
| `NothingStale` | no cached value is returned whose files were gone when the call began |
| `KeyedResults` | a returned value is a successful flight of the key asked for |
| `SingleRunner` | a running flight has exactly one caller in the function |
| `PackageCacheProofs!TypeCorrect` | `Spec => []TypeOK` |
| `OnlyVerifiedServed` | nothing is served that failed a digest |
| `OrphansAreStranded` | disposing of orphans never breaks an advertised entry |
| `PoisonIsReplaced` | once published, a section is never bad or foreign again |
| `SettledIsReadable` | when all are done, none failed and one published, all sections can be read |
| `NothingLeftBehind` | `Spec => []NothingAbandoned` |
| `IndexCacheProofs!SupersededArePruned` | `Spec => []CacheInOrder` |
| `UnsharedIsFresh` | `Spec => []AsFreshUnshared` |
| `DownloadProofs!TypeCorrect` | `Spec => []TypeOK` |
| `BytesInPlace` | no byte of a resumed download is lost, doubled or shifted |
| `EndIsTheEnd` | an end without an error is the whole file |
| `LimitIsKept` | the size limit bounds downloads from servers without ranges |
| `InstallerProofs!InstallsInOrder` | `Spec => []InstalledInOrder` |
| `DatabaseIsRight` | `Spec => []DatabaseDescribesImage` |
| `LayersProofs!GroupsAreTies` | `LayersSpec => []GroupsOrderless` |
| `StackKeepsToOverlay` | `LayersSpec => []StackLikeOverlay` |
| `ErofsLayersShowImage` | `LayersSpec => []ErofsLayers` |
| `RenderedAreBuilt` | `LayersSpec => []RenderSame` |
| `MountTableInOrder` | under `Alone`, `Spec => []MountsInOrder` |
| `WritesAreKept` | under `Alone`, `Spec => []UpperKept` |
| `MultiArchProofs!InvariantHolds` | `Spec => []IInv` |
| `ResolvedAsOne` | `Spec => []ResolvedTogether` |
| `IndexIsAsResolved` | `Spec => []IndexAsResolved` |
| `PublicationIsWhole` | `Spec => []PublishedWhole` |
| `ResolverProofs!ComparisonIsTotal` | `CompareVersions` decides, and is antisymmetric |
| `ComparisonIsTransitive` | and has no circles |
| `ConstraintsAreIntervals` | what a constraint admits has no gaps |
| `WalkAlways` | `Spec => []WalkInv`, the shape of the recursion |
| `WalkIsBounded` | `Spec => []WalkBounded` |
| `WalkShrinks` | `Spec => WorkShrinks`, an action property |
| `WorldIsAnswered` | `Spec => []Answered` |
| `ForcedIsSatisfied` | `Spec => []SatisfiedIfForced` |

*FlightCache.* The properties are not inductive: that a waiter gets its own
key's value needs `EntryKeyed` and `JoinKeyed` (entries and waiters point to
flights of their key), which need `Numbered` (a new flight's number is unused by
anyone) to survive `DoMiss`. `CallerState` ties a caller's place to its flight's
state, so that `forget` means failed and `run` means running. `StaleJoin` carries
the staleness recorded at the start of a call to the moment it is checked. One
lemma per action shows it keeps the invariant.

*PackageCache.* `NeverDangles` rests on `OrphanStranded` (after the rename the
entry does not address the orphan any more) and that rests on `AdvertisedOnce`
(no file is advertised twice, so the orphan cannot come back), which orders a
process's sections by `Rank`. `SourcesExist` says that what is still to be
advertised has not been removed. `OnlyOldBad` and `ControlStaysGood` give
`OnlyVerifiedServed`: between hashing and reading the control section it can only
be replaced by a verified one or vanish. `SettledIsReadable` needs more than
safety of single files: `Progress` says how far a publication has come.
`SectionsInOrder` has the sections before the one at hand advertised,
`WholeOrUnderWay` has a section stand alone only while its own process is still
publishing the others, and `MissingIsOwed` has an entry missing only between the
two steps of a process that cleared a directory out of its way. When everybody
is idle nothing is under way, so every section was advertised and none is
missing. `NothingLeftBehind` is inductive with `Tidy`: sections before the one at
hand are advertised, so that only those from it on are still to be cleaned up
(`SectionsInOrder` again), a call that is reading or fetching has expanded nothing
(`NothingYet`), and a name carries the number of its call, so a later call is not
taken for the one that left something (`NoneFromTheFuture`).

*IndexCache.* `Generations` (one generation, unless somebody is still going to
prune) is inductive because a caller that adds an entry is one that will prune:
`Known` and `Flown` say what it holds until then. `Fresh` compares keys, flights
and values with the server, and needs `Shared`: without the caching transport
there is no second HEAD and no joined GET.

*Installer.* The outcome of a call is compared with a recursively defined
reference. `InTurnSoFar` says that after each package the path holds what the
reference has after as many turns, and `Outcome` that a package passed by either
lost or was overwritten by a later one. For the database, `Credited` says whose
the entry is and whom `installedFiles` credits, `Settled` that what a record
lists cannot be changed by anything still to be installed, and `Owed` that what
is not recorded yet is listed and will be; these need `Abandoned`, that an
aborted APK has a package no call will ever install, so that no later call
succeeds. Where symlinks go to the streaming filesystem a record need not list what
is at the path, and `Linked` takes the place of these: as long as no call failed,
one call makes all records, since it records no package before all are installed.
Up to then what is at the path and what is credited are of this call and listed,
and each record made is what the final owner implies (`Underway`); when the last
one is made they are what `DatabaseDescribesImage` says (`Described`).

*ErofsMount.* `Claimed` makes the state file a lock: one mount command is past
the exclusive create, and its list of cleanups is what is mounted. `Listed`
says the same of a umount's copy of the record and `Described` of the file when
nobody is at work. `UpperOwned` has the upper directory belong to one session.
`Alone` is the premise of the run: one umount at a time, and cleanups that
succeed.

*Layers.* `GroupInv`: the groups are disjoint, an origin is in one group, and no
group is larger than ties make it, that is, a set of packages that no tie leaves
holds each group it meets (`Partitioned`). Merging keeps packages together that
were (`Together`), and an entry of `replaceMap` that has been looked at has tied
what it satisfies. When none is left every tie is inside a group, so the groups
are the components, whichever order they were merged in (`GroupsAreComponents`).
They are cut by the budget in one order only: `Before` is a strict order, since
packages are known by their names. Sizes are sums over sets, folds whose steps
are shown to be taken in any order (`FoldExists`, `FoldUnique`).

`TreeInv` says that each layer is a tree. It holds of a build because a walk comes
to a directory before what is in it, so that emitting a file leaves no entry
without its parents (`EmitTree`); it is assumed of layers made by others. Of
trees, the highest layer that `lookup` finds a path in is the highest that
contributes to it, unless a directory came back (`ShownIsTopmost`,
`ShownIsFound`); that one came back is then traced to two layers that have it and
a third that hid it (`RevivedIsRemade`). What `mergeDir` lists is what `lookup`
finds (`StackLists`).

`Emitted` is what layer i holds after n files: their paths, each as a file is
shown, with its own content and time in the top layer and wherever it is the only
copy (`Sole`). A path that has several copies is a directory or the database,
which are no package's and so are in the top layer too; the copy on top is
therefore the right one (`ViewOfEmitted`, `StackedIsImage`). That the top layer
never invents a directory is `VisitErofsEmits`: all it needs are there. For the
times in tar layers, `Timely` says that what a layer got so far has a file for
each directory's time, which `written` adds to.

The plans are made by a second walk, after the tars are done, so `RenderSame`
relates two walks that no state holds together. `PlanInv` carries the first one
along as a `History`, the stacks and the tars at every file; while tars are made
it ends where the walk is, while plans are made the second walk is at some place
of it with the same stacks, and what the plans have there is the `SameLayer` as
what the tars had (`VisitPlans`, from `WrittenSame`). An entry of a plan either
waits for the content of the file at its path or has the digest of what the tar
has. Once files are digested both kinds give back that content (`RendersTar`): a
digest determines the content, so the first path that has it will do
(`ContentAtPath`, `FirstPlace`).

`LayersAssumption` says that a
walk is a walk, the root directory is not opaque, packages are known by their
names, and a budget is a number; TLC checks it on the run.

*Download.* What the caller has says nothing about what comes next, so the
invariant speaks of the bytes on the way: those left in the response
(`LeftFollows`) and those of a failed read that may still be returned with an
error (`PartialFollows`) continue where the caller's bytes end. `OneSource` adds
that they are of the version that answered, if only one did, up to its end;
`Accounted` that what was returned and the quota of the response stay within
the limit, and `Started` that nothing comes before the first response or from a
broken one.

*MultiArch.* The invariant has a part for each thing that is handed on. `Views`:
with an etag cache, what any goroutine read of an index is what the cache has,
and that never changes. `CacheSound`: the LRU gives for a key what was computed
from that key, whoever filled it, whatever was evicted; with `NotDisqualified`
this is `LackingLeftOut`. `LockedLists`: the lists are what was resolved;
`UnifyFacts` shows that for every order of the architectures, by following what
the accumulator holds: a name stays in it exactly while all architectures so far
have it at one version. `Images`: a result is what was resolved or locked, since
a package of whichever index is installed is known by its name and version
(`InstallsExpected`), and a digest from the compression cache is that of its
layer. `Dates`: `multiArchBDE` is the latest so far, so that it does not depend
on the order. `IndexOfAll`: the images, sorted by the names of their
architectures, are each there once. `Publication`: an image that was pushed is
whole in the registry, tags come after all images, and the SBOMs moved and those
left are all of them. The assumptions are those of `MultiArch`: a package is
known by its name and version, the command has an architecture, none is called
"index" or like a tag, and the inputs have their types.

*Versions.* Versions are compared field by field, so each theorem is shown for
one field and for one comparison after another (`Or`). Sequences of numbers are
compared at the first place where they differ, which exists because numbers are
well-founded. `ConstraintsAreIntervals` is for `~` with numbers only: "~1.2-r3"
admits 1.2-r3 and 1.2.1 but not 1.2-r4, which lies between.

*Resolver.* Three invariants, each on top of the one before.

`WalkInv` is the shape of the recursion. `Path` says that a call knows exactly
the names of the packages it is called for, and that only the innermost may
repeat one of them, with nothing to do then. So the names of all calls but one
differ, which bounds the depth by a cardinality, and each step takes a
constraint from the innermost call (`Descend`) or the call away (`Return`), which
is `WorkShrinks`. That a round always finds a lowest constraint needs `Before` to
be a strict order on finitely many constraints (`LowestFacts`).

`Clear` and `Asked` carry what the world asked for to the end. `Barred` is what is
out from the start: it stays in `dq`, which only grows, so that no call is for
one and only install-if, which does not ask, brings one in. A root is a match of
its entry that is not barred, and what happens afterwards is `InstallAsked`: it
is in the answer, or a version of it is; that version is not barred either, so
it does not speak against the entry, and with the same provides it fulfils it.

`ForcedInv` is about the names that are there: `Done(n)` are those in the answer
and in the lists of the outer `n` calls, `Got` adds the calls' own. `Complete` has
what any of these wants be there too, or still be on the list of a call.
`SelectedKnown` is what makes it inductive: the code skips a constraint that a
selected package meets, and that package is in the answer or will be. `Ordering`
has every list in an order in which it can be installed after the lists around
it. The hard case is a constraint skipped because of a package that is itself
being resolved, whose call is around this one: then the package depends on
itself through the calls in between (`Linked`, `CircleTop`) and is `Circular`,
or it does not need to be first. At the end no call is left.

The assumption `ResolverAssumption` says that the inputs have their types, the
dependencies of a package are finitely many, and the world has no exclusions.

Inductive invariants were checked with TLC on the runs' instances before they
were proved. What a recursive function computes (`Sequentially`,
`Accumulated`) is unfolded at each number by a least-counterexample argument:
if the equation failed, it would fail at a least number (`WFMin` of the
library).

Proving changed the models in a few places that could not be reasoned about as
they were: maps are extended with `With` and not with `@@`, `Accumulated` is a
recursive function and not a fold, an instance is a pair, and `ErofsMount!TypeOK`
had a set difference that applied to less than it was written for.

Proving the resolver changed more: its sequences are lists chosen by place
(`Keep`, `InOrder`) and not library folds, `BestPackage` and `AddTriggered` are
recursive functions, and the claims about answers got the premises named in
section 2 after TLC refuted them without.

For the layers, entries are records written out (`tarEntry`, `planEntry`) and not
extended with `@@`, groups are sorted by how many come before them
(`sortedGroups`) and not by the library's sort, the overlay is stated as above and
not by recursion, and a file whose package has no layer fails the walk as it does
in the code, where the model had left the layer undefined.

Only model-checked:

- `ReproducibleIfOrdered`. It compares two runs, and a proof would have to follow
  both: that any two orders of the maps lead through the same states up to the
  order of candidates, which needs the whole of `comparePackages` to be an order on
  what is left to compare. What of it is about versions is proved.
- `FileSystems`, the refinement of `FullFS` included. Its operators recurse over
  trees and paths, and what such an operator computes for every input is an
  induction over data; they are checked against reference definitions on all small
  inputs.
- Of `Layers`, `TarLayers`: unpacking a tar and reading a database back are
  inductions over their entries, and what the parser gives rests on a sort.
- All liveness, and that some step is always possible (deadlock), which are
  about fairness and `ENABLED`.

## 5. What is not modelled

- Offline fetches of indexes (`fetchOffline`) and signature verification: no
  shared state, and cryptography.
- In `Installer`: directories, hard links, device nodes, file modes and xattrs
  (`FileSystems` has them, for one installer); triggers. They do not take part in ownership decisions between packages.
- In `Resolver`: cancellation, the
  filtered, ranked and extended views of a resolver, the text of errors.
- In `MultiArch`: base images, the OCI layout archive, annotations, the JSON of
  a lock file; what a resolution picks is left open.
- In `Layers`: modes, owners and xattrs of entries, compression.
- Raw EROFS blob mounts: they keep no state file.
- Index parsing, APK splitting, the loader cache,
  SBOM documents, busybox tables, authentication, configuration includes and
  accounts: sequential conversions of text and bytes, whose interesting cases are
  in the characters and not in an order of steps; the existing tests reach them.
- Logging, tracing, wording of errors.

Each component's status and reason is in `PROJECT.json`.

## 6. Plan

1. Pure algorithms against reference definitions: loader cache order, merging
   of configurations.
2. An abstract cache specification (each key is absent or holds a verified
   value) that `PackageCache` implements, and the proof that it does.
3. Proofs: that two resolutions agree where `Ordered` holds; the steps of the
   refinement of `FullFS` that do not follow symlinks.

## 7. Running it

    tlc -workers 2 -config FlightCache.cfg MCFlightCache
    tlapm FlightCacheProofs.tla

Every run takes less than four minutes on two cores, each proof module
a few.
