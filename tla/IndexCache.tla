----------------------------- MODULE IndexCache -----------------------------
(***************************************************************************)
(* How a repository index is fetched and kept: indexCache.get              *)
(* (pkg/apk/apk/index.go) over cacheTransport and Cache                    *)
(* (pkg/apk/apk/cache.go), for one index URL.                              *)
(*                                                                         *)
(* The server's index is a version number that grows; its etag, or a local *)
(* file's modification time, identifies the version.  A HEAD (or a stat)   *)
(* gives the key, the in-memory cache is asked for that key, and on a miss *)
(* the index is read: from a local file, from the server, or through the   *)
(* etag-addressed files of the disk cache.                                 *)
(***************************************************************************)
EXTENDS Naturals, FiniteSets

CONSTANTS
  Callers,     \* goroutines that want the index
  Transports,  \* the ways to reach the index that are considered
  Failures,    \* whether requests may fail
  Untagged,    \* whether a response may lack an ETag header
  MaxVersion,  \* bound: versions of the index
  MaxFlights   \* bound: closures made in one behaviour

ASSUME IndexAssumption ==
  /\ Transports \subseteq {"local", "direct", "cached", "etags"}
  /\ Failures \in BOOLEAN /\ Untagged \in BOOLEAN
  /\ MaxVersion \in Nat \ {0}
  /\ MaxFlights \in Nat

Versions == 1..MaxVersion
Flights == 1..MaxFlights
None == 0

\* What the etag cache may keep instead of a version: a response without an
\* ETag, and one whose status is not 200.
NoEtag == MaxVersion + 1
BadStatus == MaxVersion + 2

VARIABLES
  transport, \* a "local" file, a client without a disk cache ("direct"), or
             \* the caching transport, "etags" with NewCache(true)
  server,   \* the version the server has now
  disk,     \* the versions that have a file in the disk cache
  stored,   \* etagCache: the HEAD kept, or None
  entry,    \* the in-memory cache: version -> flight, or None
  made,     \* flights made so far
  flight,   \* flight -> key, state, the version it parsed
  pc,       \* caller -> where it is
  again,    \* caller -> whether its HEAD is the second, the one a GET sends
  key,      \* caller -> the version its HEAD reported
  join,     \* caller -> the flight it joined, None for its own fetch
  val       \* caller -> the version it parsed or was given

vars == <<transport, server, disk, stored, entry, made, flight, pc, again, key, join, val>>
memory == <<transport, stored, entry, made, flight>>

Caching == transport \in {"cached", "etags"}

PCs == {"idle", "head", "headdo", "headrun", "headwait", "do", "wait", "direct",
        "get", "getrun", "getwait", "finish", "forget", "prune"}

\* Every value has its type; in particular the etag cache keeps responses only.
TypeOK ==
  /\ transport \in Transports
  /\ server \in Versions
  /\ disk \subseteq Versions
  /\ stored \in 0..BadStatus
  /\ entry \in [Versions -> 0..MaxFlights]
  /\ made \in 0..MaxFlights
  /\ flight \in [Flights -> [key : 0..MaxVersion, st : {"running", "ok", "failed"},
                             val : 0..MaxVersion]]
  /\ pc \in [Callers -> PCs]
  /\ again \in [Callers -> BOOLEAN]
  /\ key \in [Callers -> 0..MaxVersion]
  /\ join \in [Callers -> 0..MaxFlights]
  /\ val \in [Callers -> 0..MaxVersion]

Init ==
  /\ transport \in Transports
  /\ server = 1
  /\ disk = {}
  /\ stored = None
  /\ entry = [v \in Versions |-> None]
  /\ made = 0
  /\ flight = [f \in Flights |->
                 [key |-> None, st |-> "running", val |-> None]]
  /\ pc = [c \in Callers |-> "idle"]
  /\ again = [c \in Callers |-> FALSE]
  /\ key = [c \in Callers |-> None]
  /\ join = [c \in Callers |-> None]
  /\ val = [c \in Callers |-> None]

Goto(c, l) == pc' = [pc EXCEPT ![c] = l]

\* Everyone in the set moves on at once: what singleflight does with the
\* callers that share a call.
Move(S, l) == pc' = [c \in Callers |-> IF c \in S THEN l ELSE pc[c]]

-----------------------------------------------------------------------------
(***************************************************************************)
(* The key: a HEAD, shared by those who ask while it is out (headFlight)   *)
(* and kept when the etag cache is on; or a stat of the local file.        *)
(***************************************************************************)
Start(c) ==
  /\ pc[c] = "idle"
  /\ val' = [val EXCEPT ![c] = None]
  /\ key' = [key EXCEPT ![c] = None]
  /\ join' = [join EXCEPT ![c] = None]
  /\ again' = [again EXCEPT ![c] = FALSE]
  /\ Goto(c, "head")
  /\ UNCHANGED <<server, disk, memory>>

Stat(c, ok) ==
  /\ pc[c] = "head"
  /\ transport = "local"
  /\ ~ok => Failures
  /\ key' = [key EXCEPT ![c] = IF ok THEN server ELSE None]
  /\ Goto(c, IF ok THEN "do" ELSE "idle")
  /\ UNCHANGED <<server, disk, memory, again, join, val>>

\* A HEAD has been answered with version v, NoEtag, BadStatus, or None for an
\* error, and everyone in S shares the answer.  indexCache.get goes on with
\* the etag, or without one fetches for itself; a caching transport then sends
\* a HEAD of its own, and asks only for the etag of that one.
Answered(S, v) ==
  /\ key' = [c \in Callers |-> IF c \in S /\ v \in Versions THEN v ELSE key[c]]
  /\ again' = [c \in Callers |-> again[c] \/ (c \in S /\ v = NoEtag)]
  /\ pc' = [c \in Callers |->
       CASE c \notin S -> pc[c]
         [] c \in S /\ v \in Versions -> IF again[c] THEN "get" ELSE "do"
         [] c \in S /\ v = NoEtag ->
              IF Caching /\ ~again[c] THEN "head" ELSE "direct"
         [] c \in S /\ v = BadStatus -> IF again[c] THEN "direct" ELSE "idle"
         [] c \in S /\ v = None -> "idle"]

\* Cache.load: the etag cache has an answer, if only a failed one, or it has not.
Load(c) ==
  /\ pc[c] = "head"
  /\ transport # "local"
  /\ IF Caching /\ stored # None
     THEN Answered({c}, stored)
     ELSE Goto(c, "headdo") /\ UNCHANGED <<key, again>>
  /\ UNCHANGED <<server, disk, memory, join, val>>

\* headFlight.Do, on the caching transport; a plain client sends its own.
HeadSend(c) ==
  /\ pc[c] = "headdo"
  /\ Goto(c, IF Caching /\ \E d \in Callers : pc[d] = "headrun"
             THEN "headwait" ELSE "headrun")
  /\ UNCHANGED <<server, disk, memory, again, key, join, val>>

HeadSharers(c) ==
  {c} \cup (IF Caching THEN {d \in Callers : pc[d] = "headwait"} ELSE {})

\* The server answers; any response is stored, whatever its status.
HeadAnswer(c, v) ==
  /\ pc[c] = "headrun"
  /\ v \in {BadStatus, None} => Failures
  /\ v = NoEtag => Untagged
  /\ stored' = IF transport = "etags" /\ v # None THEN v ELSE stored
  /\ Answered(HeadSharers(c), v)
  /\ UNCHANGED <<transport, server, disk, entry, made, flight, join, val>>

-----------------------------------------------------------------------------
(***************************************************************************)
(* The in-memory cache: flightCache.Do keyed by URL and etag.  FlightCache *)
(* has its details; here the maker of a closure runs it.                   *)
(***************************************************************************)
\* Faulty variant of DoHit: the etag is left out of the cache key.
BugDoHit(c) ==
  /\ pc[c] = "do"
  /\ \E v \in Versions :
       /\ entry[v] # None
       /\ join' = [join EXCEPT ![c] = entry[v]]
  /\ Goto(c, "wait")
  /\ UNCHANGED <<server, disk, memory, again, key, val>>

DoHit(c) ==
  /\ pc[c] = "do"
  /\ entry[key[c]] # None
  /\ join' = [join EXCEPT ![c] = entry[key[c]]]
  /\ Goto(c, "wait")
  /\ UNCHANGED <<server, disk, memory, again, key, val>>

DoMiss(c) ==
  /\ pc[c] = "do"
  /\ entry[key[c]] = None
  /\ made < MaxFlights
  /\ made' = made + 1
  /\ flight' = [flight EXCEPT ![made + 1] =
       [key |-> key[c], st |-> "running", val |-> None]]
  /\ entry' = [entry EXCEPT ![key[c]] = made + 1]
  /\ join' = [join EXCEPT ![c] = made + 1]
  /\ Goto(c, IF Caching THEN "get" ELSE "direct")
  /\ UNCHANGED <<transport, server, disk, stored, again, key, val>>

-----------------------------------------------------------------------------
(***************************************************************************)
(* Reading the index: fetchRepositoryIndex and parseRepositoryIndex.       *)
(***************************************************************************)
\* The closure is over, with version v (None for an error).
Fetched(c, v) ==
  /\ val' = [val EXCEPT ![c] = v]
  /\ Goto(c, "finish")

\* os.ReadFile, a GET without the disk cache, or a GET for which no etag is
\* known: whatever is current.
GetDirect(c, ok) ==
  /\ pc[c] = "direct"
  /\ ~ok => Failures
  /\ Fetched(c, IF ok THEN server ELSE None)
  /\ UNCHANGED <<server, disk, memory, again, key, join>>

\* getFlight.Do(cacheFile): one GET per URL at a time; whoever asks while it
\* is out shares its answer, whatever etag it asked with.
GetSend(c) ==
  /\ pc[c] = "get"
  /\ Goto(c, IF \E d \in Callers : pc[d] = "getrun" THEN "getwait" ELSE "getrun")
  /\ UNCHANGED <<server, disk, memory, again, key, join, val>>

GetSharers(c) == {c} \cup {d \in Callers : pc[d] = "getwait"}

Deliver(c, v) ==
  /\ val' = [d \in Callers |-> IF d \in GetSharers(c) THEN v ELSE val[d]]
  /\ Move(GetSharers(c), "finish")
  /\ UNCHANGED <<server, memory, again, key, join>>

\* The etag's file is there already.
GetFromDisk(c) ==
  /\ pc[c] = "getrun"
  /\ key[c] \in disk
  /\ Deliver(c, key[c])
  /\ UNCHANGED disk

\* Faulty variant of GetFromServer: a failed GET does not release its sharers.
BugGetFromServer(c, ok) ==
  /\ pc[c] = "getrun"
  /\ key[c] \notin disk
  /\ ~ok => Failures
  /\ IF ok THEN Deliver(c, server)
     ELSE /\ Fetched(c, None)
          /\ UNCHANGED <<server, memory, again, key, join>>
  /\ disk' = IF ok THEN disk \cup {server} ELSE disk

\* retrieveAndSaveFile: the file is named by the etag the GET came with.
GetFromServer(c, ok) ==
  /\ pc[c] = "getrun"
  /\ key[c] \notin disk
  /\ ~ok => Failures
  /\ Deliver(c, IF ok THEN server ELSE None)
  /\ disk' = IF ok THEN disk \cup {server} ELSE disk

\* The closure's result reaches the flight, if the caller ran one.
Finish(c) ==
  /\ pc[c] = "finish"
  /\ IF join[c] = None
     THEN /\ Goto(c, "idle")
          /\ UNCHANGED flight
     ELSE /\ flight' = [flight EXCEPT
               ![join[c]].st = IF val[c] = None THEN "failed" ELSE "ok",
               ![join[c]].val = val[c]]
          /\ Goto(c, IF val[c] = None THEN "forget" ELSE "prune")
  /\ UNCHANGED <<transport, server, disk, stored, entry, made, again, key, join, val>>

\* A caller that joined a flight shares its result.
Wait(c) ==
  /\ pc[c] = "wait"
  /\ flight[join[c]].st # "running"
  /\ val' = [val EXCEPT ![c] = flight[join[c]].val]
  /\ Goto(c, IF flight[join[c]].st = "failed" THEN "forget" ELSE "prune")
  /\ UNCHANGED <<server, disk, memory, again, key, join>>

ForgetFailed(c) ==
  /\ pc[c] = "forget"
  /\ entry' = [entry EXCEPT ![key[c]] = None]
  /\ Goto(c, "prune")
  /\ UNCHANGED <<transport, server, disk, stored, made, flight, again, key, join, val>>

\* Faulty variant of Prune: superseded entries stay.
BugPrune(c) ==
  /\ pc[c] = "prune"
  /\ Goto(c, "idle")
  /\ UNCHANGED <<server, disk, memory, again, key, join, val>>

\* ForgetFunc: entries of this URL under any other key are dropped.
Prune(c) ==
  /\ pc[c] = "prune"
  /\ entry' = [v \in Versions |-> IF v = key[c] THEN entry[v] ELSE None]
  /\ Goto(c, "idle")
  /\ UNCHANGED <<transport, server, disk, stored, made, flight, again, key, join, val>>

-----------------------------------------------------------------------------
\* Environment: the repository publishes a new index.
Update ==
  /\ server < MaxVersion
  /\ server' = server + 1
  /\ UNCHANGED <<disk, memory, pc, again, key, join, val>>

\* Environment: indexes of other URLs push an entry out of the LRU.
Evict(v) ==
  /\ entry[v] # None
  /\ entry' = [entry EXCEPT ![v] = None]
  /\ UNCHANGED <<transport, server, disk, stored, made, flight, pc, again, key, join, val>>

Step(c) ==
  \/ \E ok \in BOOLEAN : Stat(c, ok)
  \/ Load(c)
  \/ HeadSend(c)
  \/ \E v \in {server, NoEtag, BadStatus, None} : HeadAnswer(c, v)
  \/ DoHit(c)
  \/ DoMiss(c)
  \/ GetSend(c)
  \/ GetFromDisk(c)
  \/ \E ok \in BOOLEAN : GetDirect(c, ok) \/ GetFromServer(c, ok)
  \/ Finish(c)
  \/ Wait(c)
  \/ ForgetFailed(c)
  \/ Prune(c)

Next ==
  \/ \E c \in Callers : Start(c) \/ Step(c)
  \/ Update
  \/ \E v \in Versions : Evict(v)

Spec == Init /\ [][Next]_vars

\* Goroutines run and requests come to an end.
FairSpec == Spec /\ \A c \in Callers : WF_vars(Step(c))

-----------------------------------------------------------------------------
(***************************************************************************)
(* Properties                                                              *)
(***************************************************************************)

\* "sometimes, we do, in which case we want to key off of the etag"
\* (indexCache.get): a caller is never given an index older than the one its
\* own HEAD reported.
AsFreshAsHead ==
  \A c \in Callers : pc[c] = "idle" /\ val[c] # None => val[c] >= key[c]

\* The same on a client that shares no requests: a local file's stat, or a
\* plain client's HEAD, is never newer than what is read after it or kept
\* under its key.
AsFreshUnshared == ~Caching => AsFreshAsHead

\* Superseded generations do not pile up: when nobody is in the middle of a
\* call, the cache holds at most one generation of the index.
OneGeneration ==
  (\A c \in Callers : pc[c] = "idle")
    => Cardinality({v \in Versions : entry[v] # None}) <= 1

\* The in-memory cache is in order: of the index there is at most one
\* generation, whatever answers its callers got (ForgetFunc in indexCache.get).
CacheInOrder == TypeOK /\ OneGeneration

\* Every call returns, though three coalescers can make it wait for others.
\* A caller at "do" waits for nobody: it stops there only when the model's
\* bound on closures is reached.
EveryCallReturns == \A c \in Callers :
  (pc[c] \notin {"idle", "do"}) ~> (pc[c] \in {"idle", "do"})
=============================================================================
