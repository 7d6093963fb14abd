---------------------------- MODULE FlightCache ----------------------------
(***************************************************************************)
(* The coalescing in-memory cache of pkg/apk/apk/cache.go (flightCache)    *)
(* and its main user, defaultPackageGetter.GetPackage.                     *)
(*                                                                         *)
(* Do looks a key up under the mutex, adds a sync.OnceValues closure when  *)
(* it is absent, and calls the closure outside the mutex.  A closure is a  *)
(* "flight" here: the first caller to reach it runs fn, every other caller *)
(* blocks on it until it is over.  The LRU's recency list is the relation  *)
(* newer: <<a, b>> is in it when b was used after a.                       *)
(***************************************************************************)
EXTENDS Naturals, FiniteSets

CONSTANTS
  Callers,     \* goroutines that call GetPackage
  Cacheless,   \* the callers whose getter has no disk cache configured
  Keys,        \* package URLs
  MaxEntries,  \* maxEntries of newFlightCache
  MaxFlights,  \* bound: closures made in one behaviour
  ForgetSets,  \* the key sets a ForgetFunc predicate may select
  FilesVanish  \* whether the files behind a cached value may disappear

ASSUME FlightAssumption ==
  /\ Cacheless \subseteq Callers
  /\ MaxEntries \in Nat \ {0}
  /\ MaxFlights \in Nat
  /\ Keys # {}
  /\ ForgetSets \subseteq SUBSET Keys
  /\ FilesVanish \in BOOLEAN

VARIABLES
  load,    \* the LRU's entries: key -> flight, 0 when absent
  newer,   \* the LRU's recency order on the keys present
  made,    \* flights made so far; flights are numbered 1..made
  flight,  \* flight -> its key, its state and whether its files still exist
  pc,      \* caller -> where it is in GetPackage
  call     \* caller -> the call in progress, or the last one's outcome

vars == <<load, newer, made, flight, pc, call>>

Flights == 1..MaxFlights
NoFlight == 0
Cached == {k \in Keys : load[k] # NoFlight}

(***************************************************************************)
(* call[c]: the key asked for; the flight joined; hit, Do's second result; *)
(* res, the flight whose value was returned (NoFlight for a value fetched  *)
(* for this caller alone, or for an error); stale, whether the files of    *)
(* the flight joined were already gone when the call began.                *)
(***************************************************************************)
CallRecord == [key : Keys, flight : 0..MaxFlights, hit : BOOLEAN,
               res : 0..MaxFlights, stale : BOOLEAN]

FlightRecord == [key : Keys,
                 st : {"unused", "new", "running", "ok", "failed"},
                 valid : BOOLEAN]

NewCall(k, f, hit, stale) ==
  [key |-> k, flight |-> f, hit |-> hit, res |-> NoFlight, stale |-> stale]

\* A placeholder in the records of flights and calls not yet made.
AnyKey == CHOOSE k \in Keys : TRUE

PCs == {"idle", "load", "run", "forget", "check", "drop", "direct"}

TypeOK ==
  /\ load \in [Keys -> 0..MaxFlights]
  /\ newer \subseteq Keys \X Keys
  /\ made \in 0..MaxFlights
  /\ flight \in [Flights -> FlightRecord]
  /\ pc \in [Callers -> PCs]
  /\ call \in [Callers -> CallRecord]

Init ==
  /\ load = [k \in Keys |-> NoFlight]
  /\ newer = {}
  /\ made = 0
  /\ flight = [f \in Flights |-> [key |-> AnyKey, st |-> "unused", valid |-> TRUE]]
  /\ pc = [c \in Callers |-> "idle"]
  /\ call = [c \in Callers |-> NewCall(AnyKey, NoFlight, FALSE, FALSE)]

-----------------------------------------------------------------------------
(***************************************************************************)
(* simplelru.LRU, from how flightCache uses it.                            *)
(***************************************************************************)

\* Get(key) on a present key, and the front insertion of Add: k is the newest.
Touch(k, keys) ==
  {p \in newer : p[1] # k} \cup ((keys \ {k}) \X {k})

\* Remove(key).
Without(order, gone) == {p \in order : p[1] \notin gone /\ p[2] \notin gone}

\* The keys Add evicts when k joins the keys present: the oldest one, when
\* that makes more than MaxEntries.
Evicted(k) ==
  IF Cardinality(Cached \cup {k}) <= MaxEntries
  THEN {}
  ELSE {v \in Cached \cup {k} :
          \A w \in (Cached \cup {k}) \ {v} : <<w, v>> \notin Touch(k, Cached)}

-----------------------------------------------------------------------------
\* GetPackage on a getter with no cache goes straight to getPackageImpl.
GetUncached(c, k) ==
  /\ pc[c] = "idle"
  /\ c \in Cacheless
  /\ call' = [call EXCEPT ![c] = NewCall(k, NoFlight, FALSE, FALSE)]
  /\ pc' = [pc EXCEPT ![c] = "direct"]
  /\ UNCHANGED <<load, newer, made, flight>>

\* Do, the critical section, key present: the caller joins the entry's flight.
DoHit(c, k) ==
  /\ pc[c] = "idle"
  /\ c \notin Cacheless
  /\ load[k] # NoFlight
  /\ newer' = Touch(k, Cached)
  /\ call' = [call EXCEPT ![c] = NewCall(k, load[k], TRUE, ~flight[load[k]].valid)]
  /\ pc' = [pc EXCEPT ![c] = "load"]
  /\ UNCHANGED <<load, made, flight>>

\* Do, the critical section, key absent: a new closure is added, and the LRU
\* evicts its oldest entry when it is full.
DoMiss(c, k) ==
  /\ pc[c] = "idle"
  /\ c \notin Cacheless
  /\ load[k] = NoFlight
  /\ made < MaxFlights
  /\ made' = made + 1
  /\ flight' = [flight EXCEPT ![made + 1] =
                  [key |-> k, st |-> "new", valid |-> TRUE]]
  /\ load' = [q \in Keys |-> IF q \in Evicted(k) THEN NoFlight
                             ELSE IF q = k THEN made + 1 ELSE load[q]]
  /\ newer' = Without(Touch(k, Cached), Evicted(k))
  /\ call' = [call EXCEPT ![c] = NewCall(k, made + 1, FALSE, FALSE)]
  /\ pc' = [pc EXCEPT ![c] = "load"]

\* Faulty variant of RunFlight: fn is not wrapped in sync.OnceValues.
BugRunFlight(c) ==
  /\ pc[c] = "load"
  /\ flight[call[c].flight].st \in {"new", "running"}
  /\ flight' = [flight EXCEPT ![call[c].flight].st = "running"]
  /\ pc' = [pc EXCEPT ![c] = "run"]
  /\ UNCHANGED <<load, newer, made, call>>

\* load(): the first caller to reach the closure runs fn, whoever made it.
RunFlight(c) ==
  /\ pc[c] = "load"
  /\ flight[call[c].flight].st = "new"
  /\ flight' = [flight EXCEPT ![call[c].flight].st = "running"]
  /\ pc' = [pc EXCEPT ![c] = "run"]
  /\ UNCHANGED <<load, newer, made, call>>

\* Where a caller goes with an outcome of its flight: an error is forgotten
\* first, a value that was in the cache is checked, a fresh one is returned.
AfterLoad(c, st) ==
  IF st = "failed" THEN "forget" ELSE IF call[c].hit THEN "check" ELSE "idle"

Outcome(c, st) ==
  [call EXCEPT ![c].res = IF st = "ok" /\ ~call[c].hit THEN call[c].flight
                          ELSE NoFlight]

\* fn returns, with a value or an error, in the caller that runs it.
FinishFlight(c, st) ==
  /\ pc[c] = "run"
  /\ flight' = [flight EXCEPT ![call[c].flight].st = st]
  /\ pc' = [pc EXCEPT ![c] = AfterLoad(c, st)]
  /\ call' = Outcome(c, st)
  /\ UNCHANGED <<load, newer, made>>

\* Faulty variant of JoinFlight: a failure does not wake the callers that wait.
BugJoinFlight(c) ==
  /\ pc[c] = "load"
  /\ flight[call[c].flight].st = "ok"
  /\ pc' = [pc EXCEPT ![c] = AfterLoad(c, "ok")]
  /\ call' = Outcome(c, "ok")
  /\ UNCHANGED <<load, newer, made, flight>>

\* load() in the callers that did not run fn returns once fn has.
JoinFlight(c) ==
  /\ pc[c] = "load"
  /\ flight[call[c].flight].st \in {"ok", "failed"}
  /\ pc' = [pc EXCEPT ![c] = AfterLoad(c, flight[call[c].flight].st)]
  /\ call' = Outcome(c, flight[call[c].flight].st)
  /\ UNCHANGED <<load, newer, made, flight>>

\* Forget(key): under the mutex, whatever entry the key has now is removed.
Forget(k) ==
  /\ load' = [load EXCEPT ![k] = NoFlight]
  /\ newer' = Without(newer, {k})

\* Faulty variant of ForgetFailed: the error is returned, the entry stays.
BugForgetFailed(c) ==
  /\ pc[c] = "forget"
  /\ pc' = [pc EXCEPT ![c] = "idle"]
  /\ UNCHANGED <<load, newer, made, flight, call>>

\* Do after an error: every caller that saw it forgets the key.
ForgetFailed(c) ==
  /\ pc[c] = "forget"
  /\ Forget(call[c].key)
  /\ pc' = [pc EXCEPT ![c] = "idle"]
  /\ UNCHANGED <<made, flight, call>>

\* Faulty variant of CheckValid: a hit is returned unchecked.
BugCheckValid(c) ==
  /\ pc[c] = "check"
  /\ pc' = [pc EXCEPT ![c] = "idle"]
  /\ call' = [call EXCEPT ![c].res = call[c].flight]
  /\ UNCHANGED <<load, newer, made, flight>>

\* GetPackage, hit: the value is returned if its files still exist.
CheckValid(c) ==
  /\ pc[c] = "check"
  /\ IF flight[call[c].flight].valid
     THEN /\ pc' = [pc EXCEPT ![c] = "idle"]
          /\ call' = [call EXCEPT ![c].res = call[c].flight]
     ELSE /\ pc' = [pc EXCEPT ![c] = "drop"]
          /\ UNCHANGED call
  /\ UNCHANGED <<load, newer, made, flight>>

\* GetPackage, hit on a value whose files are gone: the key is forgotten and
\* the package fetched for this caller alone.
DropInvalid(c) ==
  /\ pc[c] = "drop"
  /\ Forget(call[c].key)
  /\ pc' = [pc EXCEPT ![c] = "direct"]
  /\ UNCHANGED <<made, flight, call>>

\* getPackageImpl called outside Do: its value or its error is this caller's
\* alone.
FinishDirect(c) ==
  /\ pc[c] = "direct"
  /\ pc' = [pc EXCEPT ![c] = "idle"]
  /\ UNCHANGED <<load, newer, made, flight, call>>

\* ForgetFunc(fn): removes every key fn selects, in one critical section.
ForgetFunc(S) ==
  /\ load' = [k \in Keys |-> IF k \in S THEN NoFlight ELSE load[k]]
  /\ newer' = Without(newer, S)
  /\ UNCHANGED <<made, flight, pc, call>>

\* Environment: a file behind a cached value is removed or replaced.
Vanish(f) ==
  /\ FilesVanish
  /\ flight[f].st = "ok"
  /\ flight[f].valid
  /\ flight' = [flight EXCEPT ![f].valid = FALSE]
  /\ UNCHANGED <<load, newer, made, pc, call>>

-----------------------------------------------------------------------------
Step(c) ==
  \/ RunFlight(c)
  \/ \E st \in {"ok", "failed"} : FinishFlight(c, st)
  \/ JoinFlight(c)
  \/ ForgetFailed(c)
  \/ CheckValid(c)
  \/ DropInvalid(c)
  \/ FinishDirect(c)

Next ==
  \/ \E c \in Callers, k \in Keys :
       GetUncached(c, k) \/ DoHit(c, k) \/ DoMiss(c, k)
  \/ \E c \in Callers : Step(c)
  \/ \E S \in ForgetSets : ForgetFunc(S)
  \/ \E f \in Flights : Vanish(f)

Spec == Init /\ [][Next]_vars

\* A goroutine that is not blocked runs, and fn returns: an HTTP attempt comes
\* to an end, by its answer, its failure or the context of its caller.
FairSpec == Spec /\ \A c \in Callers : WF_vars(Step(c))

-----------------------------------------------------------------------------
(***************************************************************************)
(* Properties                                                              *)
(***************************************************************************)

\* c holds flight f's outcome, or will: it joined f and has not yet forgotten
\* the key.
Holds(c, f) == pc[c] \in {"load", "run", "forget"} /\ call[c].flight = f

\* "Failures are not cached" (Do): an entry whose fn failed stays in the LRU
\* only while some caller of that flight is still on its way to Forget.  It
\* takes a caller that returns the error without forgetting to break it.
FailureNotCached ==
  \A k \in Keys :
    (load[k] # NoFlight /\ flight[load[k]].st = "failed")
      => \E c \in Callers : Holds(c, load[k])

\* GetPackage never returns a cached value whose files were already gone when
\* the call began; a hit on such a value is fetched again.
NoStaleResult ==
  \A c \in Callers : call[c].res # NoFlight => ~call[c].stale

\* A value is only ever returned to a caller that asked for the package it
\* was made for, even when the entry was evicted, forgotten and made again
\* while the caller waited.
ResultForKey ==
  \A c \in Callers :
    call[c].res # NoFlight =>
      /\ flight[call[c].res].key = call[c].key
      /\ flight[call[c].res].st = "ok"

\* Everyone who blocks in load() blocks on a flight that some caller is
\* running: no flight is left running with nobody in fn, and never two run it.
RunnerPresent ==
  \A f \in Flights :
    /\ flight[f].st = "running" =>
         \E c \in Callers : pc[c] = "run" /\ call[c].flight = f
    /\ \A c, d \in Callers :
         (/\ pc[c] = "run" /\ call[c].flight = f
          /\ pc[d] = "run" /\ call[d].flight = f) => c = d

\* Every call of GetPackage returns, whatever flights fail, are evicted or are
\* forgotten under it.
EveryCallReturns == \A c \in Callers : pc[c] # "idle" ~> pc[c] = "idle"
=============================================================================
