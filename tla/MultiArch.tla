----------------------------- MODULE MultiArch -----------------------------
(***************************************************************************)
(* A multi-architecture build from its configuration to its output:        *)
(* apko lock, apko build and apko publish (internal/cli), over MultiArch   *)
(* and LockImageConfiguration (pkg/build), ResolveWorld and the process-   *)
(* wide caches (pkg/apk/apk), and the OCI packaging (pkg/build/oci).       *)
(*                                                                         *)
(* Every architecture has one repository, which may be updated while the   *)
(* command runs.  An index is the set of packages it lists; two fetches    *)
(* give the same index object exactly when they give the same generation.  *)
(* What the resolver picks among the candidates it is left with is open    *)
(* here (Resolver.tla models it); files, layers and blobs are what they    *)
(* contain.                                                                *)
(***************************************************************************)
EXTENDS PackageLock, FiniteSetsExt

CONSTANTS
  ArchOrder,   \* the architectures, in the order of their names
  Packages,    \* the packages there are
  Requires,    \* the names a package of a given name depends on
  BuildTime,   \* when a package was built
  Noarch,      \* names of packages with the same files everywhere
  Scenarios,   \* the inputs of a command, see Init
  Releases,    \* what a repository may be updated to
  CacheSize,   \* maxResolverCacheEntries
  Tags,        \* the tags to publish
  GOARCH       \* the architecture apko load looks for

Archs == ToSet(ArchOrder)

\* A package is known by its name and version, which is all that a locked
\* list keeps of it.
ASSUME MultiArchAssumption ==
  /\ ArchOrder \in Seq(STRING) /\ IsInjective(ArchOrder)
  /\ "index" \notin Archs /\ Archs \cap Tags = {}
  /\ IsFiniteSet(Packages)
  /\ \A p, q \in Packages : p.name = q.name /\ p.version = q.version => p = q
  /\ \A p \in Packages : BuildTime[p] \in Nat
  /\ Releases \subseteq SUBSET Packages
  /\ CacheSize \in Nat \ {0}

\* The inputs a command can be given.
ASSUME ScenariosAssumption ==
  \A s \in Scenarios :
    /\ s.archs \subseteq Archs /\ s.archs # {}
    /\ s.repo \in [Archs -> SUBSET Packages] /\ s.maxUpdates \in Nat
    /\ {s.lockfile, s.edited, s.etagCache} \subseteq BOOLEAN
    /\ s.env.kind \in {"unset", "blank", "date"} /\ s.env.at \in Nat
    /\ s.buildDate \in Nat
    /\ s.command \in {"build-cmd", "load-cmd", "publish-cmd"}

VARIABLES
  input,    \* the command and its configuration
  repo,     \* the packages each repository has now
  updates,  \* updates so far
  etags,    \* with an etag cache: the generation first seen of each index
  stage,    \* where the command is
  pc,       \* where the goroutine of each architecture, or tag, is
  own,      \* the index its resolver was made from
  seen,     \* the indexes it read to compare the architectures
  dqCache,  \* globalDisqualifyCache, least recently used first
  dq,       \* the disqualified packages its resolution starts from
  lists,    \* the packages resolved, per architecture
  lock,     \* the lock file
  locked,   \* the locked lists
  result,   \* the image each goroutine made
  imgs,     \* the images collected
  bde,      \* multiArchBDE
  sboms,    \* the SBOM files made and not yet moved, in order
  digests,  \* compressionCache: digest by diff ID
  index,    \* the image index
  registry, \* what was pushed: images, blobs, and tags with their index
  output    \* the file, directory or daemon the image ends in, and the SBOMs

vars == <<input, repo, updates, etags, stage, pc, own, seen, dqCache, dq,
          lists, lock, locked, result, imgs, bde, sboms, digests, index,
          registry, output>>

archs == input.archs
originals == input.packages

Goroutine == {"idle", "siblings", "collect", "ok", "failed"}
Idle == [g \in Archs \cup Tags |-> "idle"]

----------------------------------------------------------------------------
(* Index generations and the caches                                        *)

\* GetRepositoryIndexes for one architecture: the current generation, or the
\* one whose etag this process has already seen.
Fetched(a) == Lookup(etags, a, repo[a])

Fetch(a) == etags' = IF input.etagCache THEN With(etags, a, Fetched(a))
                     ELSE etags

\* disqualifyDifference: every package of an architecture that another one
\* does not have at that version.  The packages are those of the generations
\* compared.
disqualifyDifference(byArch) ==
  IF Cardinality(DOMAIN byArch) = 1
  THEN [a \in DOMAIN byArch |-> {}]
  ELSE [a \in DOMAIN byArch |->
          {p \in byArch[a] :
             \E b \in DOMAIN byArch \ {a} :
                ~ \E q \in byArch[b] : /\ q.name = p.name
                                       /\ q.version = p.version}]

\* Faulty variant of SameIndexes: the comparison stops at the first index.
BugSameIndexes(k1, k2) ==
  LET first == CHOOSE a \in DOMAIN k1 :
                 \A b \in DOMAIN k1 : IndexFirstSubSeq(<<a>>, ArchOrder) <=
                                        IndexFirstSubSeq(<<b>>, ArchOrder)
  IN k1[first] = k2[first]

\* Two keys are the same if the index objects are, one by one.
SameIndexes(k1, k2) == k1 = k2

HitOf(cache, key) == {i \in DOMAIN cache : SameIndexes(cache[i].key, key)}

\* lruCache.entry: a hit moves to the most recently used end, a miss is added
\* there and may push out the least recently used entry.
LruEntry(cache, key, val) ==
  IF HitOf(cache, key) # {}
  THEN LET i == Min(HitOf(cache, key))
       IN Append(RemoveAt(cache, i), cache[i])
  ELSE LET grown == Append(cache, [key |-> key, val |-> val])
       IN IF Len(grown) > CacheSize THEN Tail(grown) ELSE grown

----------------------------------------------------------------------------
(* Resolving                                                               *)

\* A name is met by a package of that name or one that provides it.
Meets(pkgs, n) == \E p \in pkgs : p.name = n \/ n \in p.provides

\* The answers the resolver may give: one version per name, every name asked
\* for and every dependency met, and nothing that could be left out.
Closed(pkgs, wanted) ==
  /\ \A p, q \in pkgs : p.name = q.name => p = q
  /\ \A n \in wanted : Meets(pkgs, n)
  /\ \A p \in pkgs : \A n \in Requires[p.name] : Meets(pkgs, n)

Answers(avail, wanted) ==
  LET closed == {s \in SUBSET avail : Closed(s, wanted)}
  IN {s \in closed : ~ \E t \in closed : t # s /\ t \subseteq s}

\* The packages of an index that a locked list names.
LockedPackages(avail, list) ==
  {p \in avail : \E e \in list : e.name = p.name /\ e.version = p.version}

\* The lists and caches of a command before it starts.
Init ==
  /\ input \in Scenarios
  /\ repo = input.repo /\ updates = 0
  /\ etags = <<>>
  /\ stage = IF input.lockfile THEN "lock" ELSE "resolve"
  /\ pc = Idle
  /\ own = [a \in Archs |-> {}] /\ seen = [a \in Archs |-> <<>>]
  /\ dqCache = <<>> /\ dq = [a \in Archs |-> {}]
  /\ lists = <<>> /\ lock = {} /\ locked = <<>>
  /\ result = <<>> /\ imgs = <<>> /\ bde = input.buildDate
  /\ sboms = <<>> /\ digests = <<>>
  /\ index = [created |-> 0, manifests |-> <<>>]
  /\ registry = [images |-> {}, blobs |-> {}, tags |-> {}]
  /\ output = [images |-> {}, sboms |-> {}]

\* The parts of the state that resolving, building and publishing change.
resolving == <<own, seen, dqCache, dq, lists>>
building == <<result, imgs, bde, sboms, digests, index>>
publishing == <<registry, output>>

\* An update of a repository, while the command still reads indexes.
Update(a) ==
  /\ updates < input.maxUpdates
  /\ stage \in {"lock", "start", "resolve", "unify", "build"}
  /\ \E r \in Releases : r # repo[a] /\ repo' = [repo EXCEPT ![a] = r]
  /\ updates' = updates + 1
  /\ UNCHANGED <<input, etags, stage, pc, lock, locked, resolving, building,
                 publishing>>

\* LockCmd, one architecture after the other, each resolved on its own.
LockArch(a) ==
  /\ stage = "lock" /\ a \in archs /\ pc[a] = "idle"
  /\ \E s \in Answers(Fetched(a), DOMAIN originals) :
       lock' = lock \cup {[arch |-> a, package |-> p] : p \in s}
  /\ Fetch(a)
  /\ pc' = [pc EXCEPT ![a] = "ok"]
  /\ UNCHANGED <<input, repo, updates, stage, locked, resolving, building,
                 publishing>>

LockArchFails(a) ==
  /\ stage = "lock" /\ a \in archs /\ pc[a] = "idle"
  /\ stage' = "failed"
  /\ UNCHANGED <<input, repo, updates, etags, pc, lock, locked, resolving,
                 building, publishing>>

\* The lock file is written once every architecture is in it.  The build that
\* uses it is a process of its own.
SaveToFile ==
  /\ stage = "lock" /\ \A a \in archs : pc[a] = "ok"
  /\ stage' = "start" /\ pc' = Idle
  /\ etags' = <<>>
  /\ UNCHANGED <<input, repo, updates, lock, locked, resolving, building,
                 publishing>>

\* The lock file has the checksum of the configuration it was made from.
VerifyLockfileConsistency == ~ input.edited

\* LockImageConfiguration with a lock file: refused if the configuration was
\* edited since.
ReadLockfile ==
  /\ stage = "start"
  /\ IF VerifyLockfileConsistency
     THEN /\ stage' = "build"
          /\ locked' = Arch2LockedPackages(lock, archs)
     ELSE stage' = "failed" /\ UNCHANGED locked
  /\ UNCHANGED <<input, repo, updates, etags, pc, lock, resolving, building,
                 publishing>>

\* ResolveWorld, in a goroutine per architecture: its own index first, then
\* that of every architecture of the build, its own again among them.
FetchOwn(a) ==
  /\ stage = "resolve" /\ a \in archs /\ pc[a] = "idle"
  /\ own' = [own EXCEPT ![a] = Fetched(a)]
  /\ Fetch(a)
  /\ pc' = [pc EXCEPT ![a] = "siblings"]
  /\ UNCHANGED <<input, repo, updates, stage, seen, dqCache, dq, lists, lock,
                 locked, building, publishing>>

FetchSibling(a, b) ==
  /\ stage = "resolve" /\ pc[a] = "siblings"
  /\ b \in archs \ DOMAIN seen[a]
  /\ seen' = [seen EXCEPT ![a] = With(@, b, Fetched(b))]
  /\ Fetch(b)
  /\ UNCHANGED <<input, repo, updates, stage, pc, own, dqCache, dq, lists,
                 lock, locked, building, publishing>>

\* Disqualifications name package objects, and the resolver's candidates are
\* those of its own index: if that index was another generation when it was
\* read again, they do not apply to it.
Candidates(a, disqualified) ==
  IF own[a] = seen[a][a] THEN own[a] \ disqualified ELSE own[a]

\* GetPackagesWithDependencies: the disqualified packages come from the cache
\* (or are computed and cached), and the resolution works on its own copy.
Solve(a) ==
  /\ stage = "resolve" /\ pc[a] = "siblings" /\ DOMAIN seen[a] = archs
  /\ dqCache' = LruEntry(dqCache, seen[a], disqualifyDifference(seen[a]))
  /\ dq' = [dq EXCEPT ![a] = Last(dqCache').val[a]]
  /\ \E s \in Answers(Candidates(a, dq'[a]), DOMAIN originals) :
       lists' = With(lists, a, s)
  /\ pc' = [pc EXCEPT ![a] = "ok"]
  /\ UNCHANGED <<input, repo, updates, etags, stage, own, seen, lock, locked,
                 building, publishing>>

ResolveFails(a) ==
  /\ stage = "resolve" /\ a \in archs /\ pc[a] \in {"idle", "siblings"}
  /\ pc' = [pc EXCEPT ![a] = "failed"]
  /\ UNCHANGED <<input, repo, updates, etags, stage, lock, locked, resolving,
                 building, publishing>>

\* Faulty variant of Ended: a goroutine that failed never reports.
BugEnded(S) == \A g \in S : pc[g] = "ok"

Ended(S) == \A g \in S : pc[g] \in {"ok", "failed"}

AllOk(S) == \A g \in S : pc[g] = "ok"

\* BuildPackageLists waits for every goroutine; the lists, in the order a Go
\* map gives them, are then unified.
Unify ==
  /\ stage = "resolve" /\ Ended(archs)
  /\ \/ /\ ~ AllOk(archs)
        /\ stage' = "failed" /\ UNCHANGED locked
     \/ /\ AllOk(archs)
        /\ \E order \in SetToSeqs(archs) :
             LET u == unify(originals, [i \in DOMAIN order |->
                                Resolved(order[i], lists[order[i]])])
             IN IF u.err THEN stage' = "failed" /\ UNCHANGED locked
                ELSE stage' = "build" /\ locked' = u.lists
  /\ pc' = Idle
  /\ UNCHANGED <<input, repo, updates, etags, lock, resolving, building,
                 publishing>>

----------------------------------------------------------------------------
(* Building                                                                *)

\* The architectures that got a configuration of their own.
configured == DOMAIN locked \ {"index"}

\* New: SOURCE_DATE_EPOCH, if it holds a date, overrides the --build-date.
SourceDateEpoch ==
  IF input.env.kind = "date" THEN input.env.at ELSE input.buildDate

\* GetBuildDateEpoch: the latest build time installed, unless the variable is
\* set, even to a blank.
GetBuildDateEpoch(pkgs) ==
  IF input.env.kind # "unset" THEN SourceDateEpoch
  ELSE Max({SourceDateEpoch} \cup {BuildTime[p] : p \in pkgs})

\* Faulty variant of ToInstall: what was asked for is resolved again.
BugToInstall(a) ==
  IF input.lockfile THEN InstallablePackagesForArch(lock, a)
  ELSE CHOOSE s \in Answers(Fetched(a), DOMAIN originals) : TRUE

\* buildImage: installs what the lock file says, or resolves the locked list
\* again, alone, over the index as this process sees it.
ToInstall(a) ==
  IF input.lockfile THEN InstallablePackagesForArch(lock, a)
  ELSE LockedPackages(Fetched(a), locked[a])

Installable(a) ==
  IF input.lockfile THEN ToInstall(a) \subseteq repo[a]
  ELSE \A e \in locked[a] :
         \E p \in Fetched(a) : p.name = e.name /\ p.version = e.version

Install(a) ==
  /\ stage = "build" /\ a \in configured /\ pc[a] = "idle"
  /\ Installable(a)
  /\ result' = With(result, a, ToInstall(a))
  /\ Fetch(a)
  /\ pc' = [pc EXCEPT ![a] = "collect"]
  /\ UNCHANGED <<input, repo, updates, stage, lock, locked, resolving, imgs,
                 bde, sboms, digests, index, publishing>>

\* A layer is its tar, which differs between architectures unless all of its
\* packages are without architecture.
DiffID(a, pkgs) ==
  [of |-> IF NamesOf(pkgs) \subseteq Noarch THEN "noarch" ELSE a,
   pkgs |-> pkgs]

\* Compression is deterministic: one gzip for a tar.
Gzip(diffid) == [gzip |-> diffid]

\* Faulty variant of CacheKey: layers are told apart by their packages.
BugCacheKey(diffid) == diffid.pkgs

CacheKey(diffid) == diffid

\* layer.Digest: from the compression cache if a layer with that diff ID was
\* compressed before in this process, else by compressing it.
Digest(diffid) == Lookup(digests, CacheKey(diffid), Gzip(diffid))

\* BuildImageFromLayers, the SBOM, and what is collected under the mutex.
Image(a, pkgs) ==
  LET layer == DiffID(a, pkgs)
  IN [arch |-> a, pkgs |-> pkgs, layer |-> layer, digest |-> Digest(layer),
      created |-> GetBuildDateEpoch(pkgs)]

\* multiArchBDE moves only forward.
Later(old, new) == IF new > old THEN new ELSE old

Collect(a) ==
  /\ stage = "build" /\ pc[a] = "collect"
  /\ LET img == Image(a, result[a])
     IN /\ imgs' = With(imgs, a, img)
        /\ bde' = Later(bde, img.created)
        /\ digests' = With(digests, CacheKey(img.layer), img.digest)
  /\ sboms' = Append(sboms, a)
  /\ pc' = [pc EXCEPT ![a] = "ok"]
  /\ UNCHANGED <<input, repo, updates, etags, stage, lock, locked, resolving,
                 result, index, publishing>>

BuildFails(a) ==
  /\ stage = "build" /\ a \in configured /\ pc[a] \in {"idle", "collect"}
  /\ pc' = [pc EXCEPT ![a] = "failed"]
  /\ UNCHANGED <<input, repo, updates, etags, stage, lock, locked, resolving,
                 building, publishing>>

MayGenerate(S) == AllOk(S)

\* The architectures of S in the order of their names.
NameOrder(a) == CHOOSE i \in DOMAIN ArchOrder : ArchOrder[i] = a

Sorted(S) ==
  [i \in 1..Cardinality(S) |->
     CHOOSE a \in S : Cardinality({b \in S : NameOrder(b) <= NameOrder(a)}) = i]

\* errg.Wait, then GenerateIndex over the images in the order of their
\* architectures, and the SBOM of the index.
GenerateIndex ==
  /\ stage = "build" /\ Ended(configured)
  /\ IF MayGenerate(configured)
     THEN /\ index' = [created |-> bde,
                       manifests |-> [i \in DOMAIN Sorted(DOMAIN imgs) |->
                                        imgs[Sorted(DOMAIN imgs)[i]]]]
          /\ sboms' = Append(sboms, "index")
          /\ stage' = input.command
     ELSE stage' = "failed" /\ UNCHANGED <<index, sboms>>
  /\ pc' = Idle
  /\ UNCHANGED <<input, repo, updates, etags, lock, locked, resolving, result,
                 imgs, bde, digests, publishing>>

----------------------------------------------------------------------------
(* The output                                                              *)

Manifests == ToSet(index.manifests)

\* BuildCmd: the image layout, or the tarball.
WriteOutput ==
  /\ stage = "build-cmd"
  /\ output' = [output EXCEPT !.images = Manifests]
  /\ stage' = "sboms"
  /\ UNCHANGED <<input, repo, updates, etags, pc, lock, locked, resolving,
                 building, registry>>

\* LoadIndex: the last image for GOARCH, else the first; an index without
\* images ends the program.  The SBOMs stay behind.
LoadIndex ==
  /\ stage = "load-cmd"
  /\ LET fits == {i \in DOMAIN index.manifests :
                    index.manifests[i].arch = GOARCH}
     IN IF index.manifests = <<>> THEN stage' = "failed" /\ UNCHANGED output
        ELSE /\ output' = [output EXCEPT !.images = {index.manifests[
                                IF fits = {} THEN 1 ELSE Max(fits)]}]
             /\ stage' = "done"
  /\ UNCHANGED <<input, repo, updates, etags, pc, lock, locked, resolving,
                 building, registry>>

\* remote.Write of an image: its layer's bytes, then its manifest.
PushImage(m) ==
  /\ stage = "publish-cmd" /\ m \in Manifests /\ pc[m.arch] = "idle"
  /\ registry' = [registry EXCEPT !.blobs = @ \cup {Gzip(m.layer)},
                                  !.images = @ \cup {m}]
  /\ pc' = [pc EXCEPT ![m.arch] = "ok"]
  /\ UNCHANGED <<input, repo, updates, etags, stage, lock, locked, resolving,
                 building, output>>

\* A push that fails may have left the blob behind.
PushImageFails(m) ==
  /\ stage = "publish-cmd" /\ m \in Manifests /\ pc[m.arch] = "idle"
  /\ \E sent \in SUBSET {Gzip(m.layer)} :
       registry' = [registry EXCEPT !.blobs = @ \cup sent]
  /\ pc' = [pc EXCEPT ![m.arch] = "failed"]
  /\ UNCHANGED <<input, repo, updates, etags, stage, lock, locked, resolving,
                 building, output>>

ImagesPushed(S) == Ended(S)

\* PublishImagesFromIndex waits for every image before the index is pushed.
StartTags ==
  /\ stage = "publish-cmd"
  /\ LET pushes == {m.arch : m \in Manifests}
     IN /\ ImagesPushed(pushes)
        /\ stage' = IF \E a \in pushes : pc[a] = "failed" THEN "failed"
                    ELSE "tags"
  /\ UNCHANGED <<input, repo, updates, etags, pc, lock, locked, resolving,
                 building, publishing>>

\* PublishIndex: every tag in a goroutine of its own.
PushTag(t) ==
  /\ stage = "tags" /\ pc[t] = "idle"
  /\ registry' = [registry EXCEPT !.tags = @ \cup {t}]
  /\ pc' = [pc EXCEPT ![t] = "ok"]
  /\ UNCHANGED <<input, repo, updates, etags, stage, lock, locked, resolving,
                 building, output>>

PushTagFails(t) ==
  /\ stage = "tags" /\ pc[t] = "idle"
  /\ pc' = [pc EXCEPT ![t] = "failed"]
  /\ UNCHANGED <<input, repo, updates, etags, stage, lock, locked, resolving,
                 building, publishing>>

Published ==
  /\ stage = "tags" /\ Ended(Tags)
  /\ stage' = IF AllOk(Tags) THEN "sboms" ELSE "failed"
  /\ UNCHANGED <<input, repo, updates, etags, pc, lock, locked, resolving,
                 building, publishing>>

\* The SBOMs are moved out of the working directory, one by one.
MoveSBOM ==
  /\ stage = "sboms"
  /\ IF sboms = <<>> THEN stage' = "done" /\ UNCHANGED <<sboms, output>>
     ELSE /\ output' = [output EXCEPT !.sboms = @ \cup {Head(sboms)}]
          /\ sboms' = Tail(sboms)
          /\ UNCHANGED stage
  /\ UNCHANGED <<input, repo, updates, etags, pc, lock, locked, resolving,
                 result, imgs, bde, digests, index, registry>>

\* Any of the command's own steps may fail, and ends it.
CommandFails ==
  /\ stage \in {"start", "build-cmd", "load-cmd", "sboms"}
  /\ stage' = "failed"
  /\ UNCHANGED <<input, repo, updates, etags, pc, lock, locked, resolving,
                 building, publishing>>

Environment == \E a \in archs : Update(a)

Step ==
  \/ \E a \in archs : \/ LockArch(a) \/ LockArchFails(a)
                       \/ FetchOwn(a)
                       \/ \E b \in archs : FetchSibling(a, b)
                       \/ Solve(a) \/ ResolveFails(a)
                       \/ Install(a) \/ Collect(a) \/ BuildFails(a)
  \/ \E m \in Manifests : PushImage(m) \/ PushImageFails(m)
  \/ \E t \in Tags : PushTag(t) \/ PushTagFails(t)
  \/ SaveToFile \/ ReadLockfile \/ Unify \/ GenerateIndex
  \/ WriteOutput \/ LoadIndex \/ StartTags \/ Published
  \/ MoveSBOM \/ CommandFails

Next == Step \/ Environment

\* Every call of the command returns sooner or later; a repository need not
\* be updated.
Spec == Init /\ [][Next]_vars /\ WF_vars(Step)

----------------------------------------------------------------------------
(* Properties                                                              *)

Indexed == index.manifests # <<>>

\* The kinds of values the build's state holds.
TypeOK ==
  /\ input \in Scenarios
  /\ repo \in [Archs -> SUBSET Packages] /\ updates \in 0..input.maxUpdates
  /\ stage \in {"lock", "start", "resolve", "build", "build-cmd", "load-cmd",
                "publish-cmd", "tags", "sboms", "done", "failed"}
  /\ pc \in [Archs \cup Tags -> Goroutine]
  /\ Len(dqCache) <= CacheSize
  /\ DOMAIN lists \subseteq archs /\ DOMAIN imgs \subseteq archs
  /\ bde \in Nat

\* With an etag cache (apko's own commands have one) every architecture is
\* resolved over the same generation of every index, although each goroutine
\* fetches them for itself while the repositories change.
OneView ==
  input.etagCache =>
    \A a, b \in archs : \A c \in DOMAIN seen[a] :
       /\ c \in DOMAIN seen[b] => seen[a][c] = seen[b][c]
       /\ pc[c] = "siblings" => own[c] = seen[a][c]

\* "disqualifying any packages that are not present in other architectures"
\* (multi.go): a package resolved for an architecture was in the index of
\* every other one, also when the disqualified packages came from the
\* process-wide cache.  A resolution whose own index was replaced between its
\* two fetches is not covered: its candidates are not the disqualified ones.
LackingLeftOut ==
  \A a \in DOMAIN lists :
    own[a] = seen[a][a] =>
      \A p \in lists[a], b \in archs :
         \E q \in seen[a][b] : q.name = p.name /\ q.version = p.version

\* What all architectures resolved to the same version, by name.
InCommon(n) ==
  \E v \in {p.version : p \in Packages} : \A a \in archs :
     \E p \in lists[a] : p.name = n /\ p.version = v

Virtual(n) == \E p \in Packages : n \in p.provides

\* unify, started from an arbitrary architecture: the locked list of each is
\* what it resolved, the "index" list is what they have in common, and it
\* refuses exactly if something asked for by its own name is not in common.
UnifiedInAnyOrder ==
  (~ input.lockfile /\ stage # "resolve" /\ DOMAIN lists = archs
     /\ DOMAIN originals # {})
  => /\ (\A n \in DOMAIN originals : ~ Virtual(n))
          => (locked = <<>>) = (\E n \in DOMAIN originals : ~ InCommon(n))
     /\ locked # <<>> =>
          /\ configured = archs
          /\ \A a \in archs : {<<e.name, e.version>> : e \in locked[a]} =
                              {<<p.name, p.version>> : p \in lists[a]}
          /\ {e.name : e \in locked["index"]} =
                {n \in {p.name : p \in Packages} : InCommon(n)}

\* An index is only made of images of all the architectures of the build, one
\* each: no architecture's failure leaves the images of the others in one.
AllArchsOrNone ==
  Indexed => /\ {m.arch : m \in Manifests} = archs
             /\ Len(index.manifests) = Cardinality(archs)

\* An image holds what was resolved, or written to the lock file, before the
\* build, whatever happened to the repository since.
BuiltAsLocked ==
  \A m \in Manifests :
    m.pkgs = IF input.lockfile
             THEN {l.package : l \in {k \in lock : k.arch = m.arch}}
             ELSE lists[m.arch]

\* Without a lock file, what was asked for by its own name is in the images
\* of all architectures at the same version.
SameVersionEverywhere ==
  (Indexed /\ ~ input.lockfile) =>
    \A n \in DOMAIN originals : ~ Virtual(n) =>
       \E v \in {p.version : p \in Packages} : \A m \in Manifests :
          \E p \in m.pkgs : p.name = n /\ p.version = v

\* The date of the index does not depend on the order in which the images
\* were finished: it is the latest of theirs and --build-date.  "If the user
\* has explicitly set SOURCE_DATE_EPOCH" (build.go) it is that date, on the
\* index and every image, as long as --build-date is not later.
DatedByContents ==
  Indexed =>
    /\ index.created = Max({input.buildDate} \cup
                              {m.created : m \in Manifests})
    /\ (input.env.kind = "date" /\ input.buildDate <= input.env.at) =>
         \A m \in Manifests : m.created = input.env.at
                              /\ index.created = input.env.at

\* A tag in the registry names an index whose images are all there, with the
\* layers under the digests their manifests give.
TagsComplete ==
  registry.tags # {} =>
    \A m \in Manifests : /\ m \in registry.images
                         /\ m.digest = Gzip(m.layer)
                         /\ m.digest \in registry.blobs

\* A command that succeeds has moved every SBOM (unless it loads into the
\* daemon) and pushed every tag.
DoneIsComplete ==
  stage = "done" =>
    /\ input.command # "load-cmd" =>
         output.sboms = DOMAIN imgs \cup {"index"}
    /\ input.command = "publish-cmd" => registry.tags = Tags

\* What the architectures are resolved to, each in its own goroutine, belongs
\* together (BuildPackageLists, unify).
ResolvedTogether == TypeOK /\ OneView /\ LackingLeftOut /\ UnifiedInAnyOrder

\* An index has the images that were resolved, or locked, and their date
\* (buildImageComponents).
IndexAsResolved == AllArchsOrNone /\ BuiltAsLocked /\ SameVersionEverywhere /\ DatedByContents

\* What is published is whole, and a command that succeeds published all of it
\* (PublishIndex, PublishCmd).
PublishedWhole == TagsComplete /\ DoneIsComplete

\* Every command comes to an end.
CommandEnds == <>(stage \in {"done", "failed"})
============================================================================
