-------------------------- MODULE IndexCacheProofs --------------------------
(***************************************************************************)
(* Theorems about IndexCache, for any callers, transports, versions and    *)
(* bounds: its values keep their types, superseded indexes do not pile up, *)
(* and without shared requests nobody gets an index older than its HEAD.   *)
(***************************************************************************)
EXTENDS IndexCache, FiniteSetTheorems, TLAPS

\* Before a closure is joined, and while a GET for it may be out.
Asking == {"head", "headdo", "headrun", "headwait"}
Reading == {"direct", "get", "getrun", "getwait", "finish"}

\* The call has an entry of the in-memory cache and is going to prune.
Pruning(c) == pc[c] \in {"wait", "forget", "prune"} \/ (pc[c] \in Reading /\ join[c] # None)

\* What a caller knows follows from where it is: the key from the HEAD on, the
\* flight from flightCache.Do on, the value only at the end.
Known ==
  \A c \in Callers :
    /\ pc[c] \in Asking => key[c] = None
    /\ pc[c] \in Asking \cup {"do"} => join[c] = None
    /\ pc[c] \in {"do", "get", "getrun", "getwait"} => key[c] # None
    /\ Pruning(c) => key[c] # None /\ join[c] # None
    /\ pc[c] \in (Asking \cup Reading \cup {"do", "wait"}) \ {"finish"} => val[c] = None

\* While nobody is going to prune there is one generation at most.
Generations ==
  (\A c \in Callers : ~Pruning(c)) =>
    \A v, w \in Versions : entry[v] # None /\ entry[w] # None => v = w

\* Entries and callers have flights that were made for their key.
Flown ==
  /\ \A v \in Versions : entry[v] # None => entry[v] <= made /\ flight[entry[v]].key = v
  /\ \A c \in Callers : Pruning(c) => join[c] <= made /\ flight[join[c]].key = key[c]

\* Only the caching transport sends a second HEAD and shares a GET.
Shared ==
  \A c \in Callers :
    \/ Caching
    \/ /\ pc[c] \notin {"get", "getrun", "getwait"}
       /\ pc[c] \in Asking => ~again[c]

\* Without it, a key is not newer than the server, and no value, a caller's or
\* a flight's, is older than its key.
Fresh ==
  ~Caching =>
    /\ \A c \in Callers : key[c] <= server /\ (val[c] # None => val[c] >= key[c])
    /\ \A f \in 1..made : flight[f].val # None => flight[f].val >= flight[f].key

IInv == TypeOK /\ Known /\ Generations /\ Flown /\ Shared /\ Fresh

-----------------------------------------------------------------------------
\* Nothing is cached, asked or flown at first.
LEMMA InitEstablishes == Init => IInv
<1> SUFFICES ASSUME Init PROVE IInv
  OBVIOUS
<1> USE IndexAssumption DEF Init, Versions, Flights, None, BadStatus, NoEtag
<1>1. TypeOK
  BY DEF TypeOK, PCs
<1>2. Known /\ Generations /\ Flown /\ Shared
  BY DEF Known, Generations, Flown, Shared, Pruning, Asking, Reading
<1>3. Fresh
  BY DEF Fresh
<1> QED
  BY <1>1, <1>2, <1>3 DEF IInv

\* Where what a caller has of the in-memory cache stays the same, so do the
\* entries it relies on.
LEMMA SameFlights ==
  ASSUME IInv, UNCHANGED <<entry, made, flight>>,
         \A c \in Callers : Pruning(c)' => Pruning(c) /\ key'[c] = key[c] /\ join'[c] = join[c],
         \A c \in Callers : Pruning(c) => Pruning(c)'
  PROVE  Generations' /\ Flown'
BY DEF IInv, Generations, Flown

\* A HEAD that has been answered moves its callers to where they know enough.
LEMMA AnsweredPreserves ==
  ASSUME IInv, NEW S \in SUBSET Callers, NEW v \in 0..BadStatus,
         \A c \in S : pc[c] \in Asking,
         Answered(S, v), ~Caching /\ v \in Versions => v = server,
         stored' \in 0..BadStatus,
         UNCHANGED <<transport, server, disk, entry, made, flight, join, val>>
  PROVE  IInv'
<1> USE IndexAssumption DEF Versions, None, NoEtag, BadStatus
<1>0. TypeOK /\ Known /\ Shared /\ Fresh
  BY DEF IInv
<1>a. v \in Versions \/ v = NoEtag \/ v = BadStatus \/ v = None
  OBVIOUS
<1>b. pc' \in [Callers -> PCs]
  <2>1. \A c \in Callers : pc[c] \in PCs
    BY <1>0 DEF TypeOK
  <2>2. CASE v \in Versions
    BY <2>1, <2>2 DEF Answered, PCs
  <2>3. CASE v = NoEtag
    BY <2>1, <2>3 DEF Answered, PCs
  <2>4. CASE v = BadStatus
    BY <2>1, <2>4 DEF Answered, PCs
  <2>5. CASE v = None
    BY <2>1, <2>5 DEF Answered, PCs
  <2> QED
    BY <1>a, <2>2, <2>3, <2>4, <2>5
<1>c. again' \in [Callers -> BOOLEAN]
  BY <1>0 DEF TypeOK, Answered
<1>d. key' \in [Callers -> 0..MaxVersion]
  BY <1>0 DEF TypeOK, Answered
<1>1. TypeOK'
  BY <1>0, <1>b, <1>c, <1>d DEF TypeOK, Flights
<1>2. \A c \in Callers :
        IF c \in S
        THEN /\ pc'[c] \in {"get", "do", "head", "direct", "idle"}
             /\ pc'[c] \in {"get", "do"} => key'[c] # None
             /\ pc'[c] = "head" => key'[c] = key[c] /\ Caching
             /\ pc'[c] = "get" => again[c]
        ELSE pc'[c] = pc[c] /\ key'[c] = key[c] /\ again'[c] = again[c]
  <2> SUFFICES ASSUME NEW c \in Callers
               PROVE  /\ c \in S =>
                           /\ pc'[c] \in {"get", "do", "head", "direct", "idle"}
                           /\ pc'[c] \in {"get", "do"} => key'[c] # None
                           /\ pc'[c] = "head" => key'[c] = key[c] /\ Caching
                           /\ pc'[c] = "get" => again[c]
                      /\ c \notin S => pc'[c] = pc[c] /\ key'[c] = key[c] /\ again'[c] = again[c]
    OBVIOUS
  <2>1. again[c] \in BOOLEAN
    BY <1>0 DEF TypeOK
  <2>2. CASE c \notin S
    BY <2>1, <2>2 DEF Answered
  <2>3. CASE c \in S /\ v \in Versions
    BY <2>1, <2>3 DEF Answered
  <2>4. CASE c \in S /\ v = NoEtag
    BY <2>1, <2>4 DEF Answered
  <2>5. CASE c \in S /\ v \in {BadStatus, None}
    BY <2>1, <2>5 DEF Answered
  <2> QED
    BY <1>a, <2>2, <2>3, <2>4, <2>5
<1>3. \A c \in S : key[c] = None /\ join[c] = None /\ val[c] = None
  BY <1>0 DEF Known, Asking
<1>4. Known'
  BY <1>0, <1>2, <1>3 DEF Known, Pruning, Asking, Reading
<1>5. \A c \in Callers : /\ Pruning(c)' => Pruning(c) /\ key'[c] = key[c]
                         /\ Pruning(c) => Pruning(c)'
  BY <1>2, <1>3 DEF Pruning, Asking, Reading
<1>6. Generations' /\ Flown'
  BY <1>5, SameFlights
<1>7. Shared'
  BY <1>0, <1>2 DEF Shared, Caching, Asking
<1>8. Fresh'
  <2>1. SUFFICES ASSUME ~Caching, NEW c \in Callers
                 PROVE  key'[c] <= server /\ (val[c] # None => val[c] >= key'[c])
    BY <1>0 DEF Fresh, Caching
  <2>2. key'[c] = key[c] \/ (c \in S /\ key'[c] = v /\ v = server)
    BY <2>1, <1>0 DEF Answered, TypeOK
  <2> QED
    BY <2>1, <2>2, <1>0, <1>3 DEF Fresh, TypeOK
<1> QED
  BY <1>1, <1>4, <1>6, <1>7, <1>8 DEF IInv

\* A GET that has been answered moves its sharers on; there are some only on
\* the caching transport.
LEMMA DeliverPreserves ==
  ASSUME IInv, NEW c \in Callers, NEW v \in 0..MaxVersion,
         pc[c] = "getrun", Deliver(c, v), disk' \subseteq Versions
  PROVE  IInv'
<1> USE IndexAssumption DEF Versions, None, NoEtag, BadStatus
<1>0. TypeOK /\ Known /\ Shared /\ Fresh
  BY DEF IInv
<1> DEFINE S == GetSharers(c)
<1>1. S \subseteq Callers /\ \A d \in S : pc[d] \in {"getrun", "getwait"}
  BY DEF GetSharers
<1>2. /\ val' = [d \in Callers |-> IF d \in S THEN v ELSE val[d]]
      /\ pc' = [d \in Callers |-> IF d \in S THEN "finish" ELSE pc[d]]
      /\ UNCHANGED <<server, transport, stored, entry, made, flight, again, key, join>>
  BY DEF Deliver, Move, memory
<1> HIDE DEF S
<1>3. TypeOK'
  BY <1>0, <1>2 DEF TypeOK, PCs, Flights
<1>4. Known'
  BY <1>0, <1>1, <1>2 DEF TypeOK, Known, Pruning, Asking, Reading
<1>5. Generations' /\ Flown'
  BY <1>0, <1>1, <1>2, SameFlights DEF TypeOK, Pruning, Reading
<1>6. Shared'
  BY <1>0, <1>2 DEF TypeOK, Shared, Caching, Asking
<1>7. Caching
  BY <1>0 DEF Shared
<1>8. Fresh'
  BY <1>2, <1>7 DEF Fresh, Caching
<1> QED
  BY <1>3, <1>4, <1>5, <1>6, <1>8 DEF IInv

\* Every step keeps the invariant.
LEMMA StepPreserves ==
  ASSUME IInv, [Next]_vars
  PROVE  IInv'
<1> USE IndexAssumption DEF Versions, Flights, None, NoEtag, BadStatus
<1>0. TypeOK /\ Known /\ Generations /\ Flown /\ Shared /\ Fresh
  BY DEF IInv
<1>1. CASE UNCHANGED vars
  <2>1. TypeOK' /\ Known' /\ Shared' /\ Fresh'
    BY <1>0, <1>1 DEF vars, TypeOK, Known, Pruning, Shared, Fresh, Caching
  <2>2. Generations' /\ Flown'
    BY <1>0, <1>1 DEF vars, Generations, Flown, Pruning
  <2> QED
    BY <2>1, <2>2 DEF IInv
<1>2. ASSUME NEW c \in Callers, Start(c) PROVE IInv'
  <2>2. /\ pc' = [pc EXCEPT ![c] = "head"] /\ key' = [key EXCEPT ![c] = None]
        /\ join' = [join EXCEPT ![c] = None] /\ val' = [val EXCEPT ![c] = None]
        /\ again' = [again EXCEPT ![c] = FALSE] /\ pc[c] = "idle"
        /\ UNCHANGED <<server, disk, transport, stored, entry, made, flight>>
    BY <1>2 DEF Start, Goto, memory
  <2>1. TypeOK'
    <3>1. again' \in [Callers -> BOOLEAN]
      BY <1>0, <2>2 DEF TypeOK
    <3>2. /\ key' \in [Callers -> 0..MaxVersion] /\ val' \in [Callers -> 0..MaxVersion]
          /\ join' \in [Callers -> 0..MaxFlights] /\ pc' \in [Callers -> PCs]
      BY <1>0, <2>2 DEF TypeOK, PCs
    <3> QED
      BY <1>0, <2>2, <3>1, <3>2 DEF TypeOK
  <2>3. Known'
    BY <1>0, <2>2 DEF TypeOK, Known, Pruning, Asking, Reading
  <2>4. Generations' /\ Flown'
    BY <1>0, <2>2, SameFlights DEF TypeOK, Pruning, Reading
  <2>5. Shared' /\ Fresh'
    BY <1>0, <2>2 DEF TypeOK, Shared, Fresh, Caching, Asking
  <2> QED
    BY <2>1, <2>3, <2>4, <2>5 DEF IInv
<1>3. ASSUME NEW c \in Callers, NEW ok \in BOOLEAN, Stat(c, ok) PROVE IInv'
  <2>2. /\ pc' = [pc EXCEPT ![c] = IF ok THEN "do" ELSE "idle"]
        /\ key' = [key EXCEPT ![c] = IF ok THEN server ELSE None]
        /\ pc[c] = "head" /\ join[c] = None /\ val[c] = None
        /\ UNCHANGED <<server, disk, transport, stored, entry, made, flight, again, join, val>>
    BY <1>0, <1>3 DEF Stat, Goto, memory, Known, Asking
  <2>1. TypeOK'
    <3>1. key' \in [Callers -> 0..MaxVersion] /\ pc' \in [Callers -> PCs]
      BY <1>0, <2>2 DEF TypeOK, PCs
    <3> QED
      BY <1>0, <2>2, <3>1 DEF TypeOK
  <2>3. Known'
    BY <1>0, <2>2 DEF TypeOK, Known, Pruning, Asking, Reading
  <2>4. Generations' /\ Flown'
    BY <1>0, <2>2, SameFlights DEF TypeOK, Pruning, Reading
  <2>5. Shared' /\ Fresh'
    BY <1>0, <2>2 DEF TypeOK, Shared, Fresh, Caching, Asking
  <2> QED
    BY <2>1, <2>3, <2>4, <2>5 DEF IInv
<1>4. ASSUME NEW c \in Callers, Load(c) PROVE IInv'
  <2>1. CASE Caching /\ stored # None
    <3>1. pc[c] = "head" /\ Answered({c}, stored) /\ stored \in 0..BadStatus
          /\ UNCHANGED <<transport, server, disk, stored, entry, made, flight, join, val>>
      BY <1>0, <1>4, <2>1 DEF Load, memory, TypeOK
    <3> QED
      BY <3>1, <2>1, AnsweredPreserves DEF Asking
  <2>2. CASE ~(Caching /\ stored # None)
    <3>1. /\ pc' = [pc EXCEPT ![c] = "headdo"] /\ pc[c] = "head"
          /\ UNCHANGED <<server, disk, transport, stored, entry, made, flight, again, key, join, val>>
      BY <1>4, <2>2 DEF Load, Goto, memory
    <3>2. TypeOK' /\ Known'
      BY <1>0, <3>1 DEF TypeOK, PCs, Known, Pruning, Asking, Reading
    <3>3. Generations' /\ Flown'
      BY <1>0, <3>1, SameFlights DEF TypeOK, Pruning, Reading
    <3>4. Shared' /\ Fresh'
      BY <1>0, <3>1 DEF TypeOK, Shared, Fresh, Caching, Asking
    <3> QED
      BY <3>2, <3>3, <3>4 DEF IInv
  <2> QED
    BY <2>1, <2>2
<1>5. ASSUME NEW c \in Callers, HeadSend(c) PROVE IInv'
  <2>1. /\ pc' = [pc EXCEPT ![c] = "headwait"] \/ pc' = [pc EXCEPT ![c] = "headrun"]
        /\ pc[c] = "headdo"
        /\ UNCHANGED <<server, disk, transport, stored, entry, made, flight, again, key, join, val>>
    BY <1>5 DEF HeadSend, Goto, memory
  <2>2. TypeOK' /\ Known'
    BY <1>0, <2>1 DEF TypeOK, PCs, Known, Pruning, Asking, Reading
  <2>3. Generations' /\ Flown'
    BY <1>0, <2>1, SameFlights DEF TypeOK, Pruning, Reading
  <2>4. Shared' /\ Fresh'
    BY <1>0, <2>1 DEF TypeOK, Shared, Fresh, Caching, Asking
  <2> QED
    BY <2>2, <2>3, <2>4 DEF IInv
<1>6. ASSUME NEW c \in Callers, NEW v \in {server, NoEtag, BadStatus, None}, HeadAnswer(c, v)
      PROVE  IInv'
  <2>1. v \in 0..BadStatus /\ (v \in Versions => v = server)
    BY <1>0 DEF TypeOK
  <2>2. HeadSharers(c) \in SUBSET Callers /\ \A d \in HeadSharers(c) : pc[d] \in Asking
    BY <1>6 DEF HeadAnswer, HeadSharers, Asking
  <2>3. /\ Answered(HeadSharers(c), v)
        /\ stored' \in 0..BadStatus
        /\ UNCHANGED <<transport, server, disk, entry, made, flight, join, val>>
    BY <1>0, <1>6, <2>1 DEF HeadAnswer, TypeOK
  <2> QED
    BY <2>1, <2>2, <2>3, AnsweredPreserves
<1>7. ASSUME NEW c \in Callers, DoHit(c) PROVE IInv'
  <2>1. /\ pc[c] = "do" /\ key[c] \in Versions /\ entry[key[c]] # None
        /\ pc' = [pc EXCEPT ![c] = "wait"] /\ join' = [join EXCEPT ![c] = entry[key[c]]]
        /\ UNCHANGED <<server, disk, transport, stored, entry, made, flight, again, key, val>>
    BY <1>0, <1>7 DEF DoHit, Goto, memory, TypeOK, Known
  <2>2. TypeOK'
    BY <1>0, <2>1 DEF TypeOK, PCs
  <2>3. Known'
    BY <1>0, <2>1 DEF TypeOK, Known, Pruning, Asking, Reading
  <2>4. Generations'
    BY <1>0, <2>1 DEF TypeOK, Generations, Pruning, Reading
  <2>5. Flown'
    BY <1>0, <2>1 DEF TypeOK, Flown, Pruning, Reading
  <2>6. Shared' /\ Fresh'
    BY <1>0, <2>1 DEF TypeOK, Shared, Fresh, Caching, Asking
  <2> QED
    BY <2>2, <2>3, <2>4, <2>5, <2>6 DEF IInv
<1>8. ASSUME NEW c \in Callers, DoMiss(c) PROVE IInv'
  <2>1. /\ pc[c] = "do" /\ key[c] \in Versions /\ made + 1 \in Flights /\ made' = made + 1
        /\ flight' = [flight EXCEPT ![made + 1] = [key |-> key[c], st |-> "running", val |-> None]]
        /\ entry' = [entry EXCEPT ![key[c]] = made + 1]
        /\ join' = [join EXCEPT ![c] = made + 1]
        /\ pc' = [pc EXCEPT ![c] = IF Caching THEN "get" ELSE "direct"]
        /\ UNCHANGED <<transport, server, disk, stored, again, key, val>>
    BY <1>0, <1>8 DEF DoMiss, Goto, TypeOK, Known
  <2>a. /\ flight' \in [Flights -> [key : 0..MaxVersion, st : {"running", "ok", "failed"},
                                    val : 0..MaxVersion]]
        /\ flight'[made + 1].key = key[c] /\ flight'[made + 1].val = None
        /\ \A f \in Flights : f # made + 1 => flight'[f] = flight[f]
    <3> DEFINE new == [key |-> key[c], st |-> "running", val |-> None]
    <3>1. new \in [key : 0..MaxVersion, st : {"running", "ok", "failed"}, val : 0..MaxVersion]
          /\ new.key = key[c] /\ new.val = None
      BY <2>1
    <3>2. flight' = [flight EXCEPT ![made + 1] = new]
      BY <2>1
    <3> HIDE DEF new
    <3> QED
      BY <1>0, <2>1, <3>1, <3>2 DEF TypeOK
  <2>b. /\ entry' \in [Versions -> 0..MaxFlights] /\ join' \in [Callers -> 0..MaxFlights]
        /\ pc' \in [Callers -> PCs] /\ made' \in 0..MaxFlights
    BY <1>0, <2>1 DEF TypeOK, PCs
  <2>2. TypeOK'
    BY <1>0, <2>1, <2>a, <2>b DEF TypeOK
  <2>3. Known'
    BY <1>0, <2>1 DEF TypeOK, Known, Pruning, Asking, Reading
  <2>4. Generations'
    BY <1>0, <2>1 DEF TypeOK, Generations, Pruning, Reading
  <2>5. Flown'
    <3>1. \A v \in Versions : entry'[v] # None =>
            entry'[v] <= made' /\ flight'[entry'[v]].key = v
      <4> SUFFICES ASSUME NEW v \in Versions, entry'[v] # None
                   PROVE  entry'[v] <= made' /\ flight'[entry'[v]].key = v
        OBVIOUS
      <4>1. CASE v = key[c]
        BY <1>0, <2>1, <2>a, <4>1 DEF TypeOK
      <4>2. CASE v # key[c]
        <5>1. entry'[v] = entry[v] /\ entry[v] # None
          BY <1>0, <2>1, <4>2 DEF TypeOK
        <5>2. entry[v] \in Flights /\ entry[v] <= made /\ flight[entry[v]].key = v
          BY <1>0, <5>1 DEF TypeOK, Flown
        <5>3. made \in Nat
          BY <1>0 DEF TypeOK
        <5>4. entry[v] # made + 1 /\ entry[v] <= made + 1
          BY <5>2, <5>3
        <5>5. flight'[entry[v]] = flight[entry[v]]
          BY <2>a, <5>2, <5>4
        <5> QED
          BY <2>1, <5>1, <5>2, <5>4, <5>5
      <4> QED
        BY <4>1, <4>2
    <3>2. \A d \in Callers : Pruning(d)' => join'[d] <= made' /\ flight'[join'[d]].key = key'[d]
      <4> SUFFICES ASSUME NEW d \in Callers, Pruning(d)'
                   PROVE  join'[d] <= made' /\ flight'[join'[d]].key = key'[d]
        OBVIOUS
      <4>1. CASE d = c
        BY <1>0, <2>1, <2>a, <4>1 DEF TypeOK
      <4>2. CASE d # c
        <5>1. Pruning(d) /\ join'[d] = join[d]
          BY <1>0, <2>1, <4>2 DEF TypeOK, Pruning
        <5>a. join[d] <= made /\ flight[join[d]].key = key[d]
          BY <1>0, <5>1 DEF Flown
        <5>b. join[d] # None
          BY <1>0, <5>1 DEF Known
        <5>c. join[d] \in 0..MaxFlights
          BY <1>0 DEF TypeOK
        <5>2. join[d] \in Flights /\ join[d] <= made /\ flight[join[d]].key = key[d]
          BY <5>a, <5>b, <5>c DEF Flights, None
        <5>3. made \in Nat
          BY <1>0 DEF TypeOK
        <5>4. join[d] # made + 1 /\ join[d] <= made + 1
          BY <5>2, <5>3
        <5>5. flight'[join[d]] = flight[join[d]]
          BY <2>a, <5>2, <5>4
        <5> QED
          BY <2>1, <5>1, <5>2, <5>4, <5>5
      <4> QED
        BY <4>1, <4>2
    <3> QED
      BY <3>1, <3>2 DEF Flown
  <2>6. Shared'
    BY <1>0, <2>1 DEF TypeOK, Shared, Caching, Asking
  <2>7. Fresh'
    BY <1>0, <2>1, <2>a DEF TypeOK, Fresh, Caching
  <2> QED
    BY <2>2, <2>3, <2>4, <2>5, <2>6, <2>7 DEF IInv
<1>9. ASSUME NEW c \in Callers, GetSend(c) PROVE IInv'
  <2>1. /\ pc' = [pc EXCEPT ![c] = "getwait"] \/ pc' = [pc EXCEPT ![c] = "getrun"]
        /\ pc[c] = "get"
        /\ UNCHANGED <<server, disk, transport, stored, entry, made, flight, again, key, join, val>>
    BY <1>9 DEF GetSend, Goto, memory
  <2>2. TypeOK' /\ Known'
    BY <1>0, <2>1 DEF TypeOK, PCs, Known, Pruning, Asking, Reading
  <2>3. Generations' /\ Flown'
    BY <1>0, <2>1, SameFlights DEF TypeOK, Pruning, Reading
  <2>4. Shared' /\ Fresh'
    BY <1>0, <2>1 DEF TypeOK, Shared, Fresh, Caching, Asking
  <2> QED
    BY <2>2, <2>3, <2>4 DEF IInv
<1>10. ASSUME NEW c \in Callers, GetFromDisk(c) PROVE IInv'
  <2>1. pc[c] = "getrun" /\ Deliver(c, key[c]) /\ UNCHANGED disk /\ key[c] \in 0..MaxVersion
    BY <1>0, <1>10 DEF GetFromDisk, TypeOK
  <2> QED
    BY <1>0, <2>1, DeliverPreserves DEF TypeOK
<1>11. ASSUME NEW c \in Callers, NEW ok \in BOOLEAN, GetDirect(c, ok) PROVE IInv'
  <2>1. PICK v \in {server, None} : val' = [val EXCEPT ![c] = v]
    BY <1>11 DEF GetDirect, Fetched
  <2>2. /\ pc[c] = "direct" /\ pc' = [pc EXCEPT ![c] = "finish"] /\ v \in 0..MaxVersion
        /\ UNCHANGED <<server, disk, transport, stored, entry, made, flight, again, key, join>>
    BY <1>0, <1>11 DEF GetDirect, Fetched, Goto, memory, TypeOK
  <2>3. TypeOK' /\ Known'
    BY <1>0, <2>1, <2>2 DEF TypeOK, PCs, Known, Pruning, Asking, Reading
  <2>4. Generations' /\ Flown'
    BY <1>0, <2>2, SameFlights DEF TypeOK, Pruning, Reading
  <2>5. Shared'
    BY <1>0, <2>2 DEF TypeOK, Shared, Caching, Asking
  <2>6. Fresh'
    BY <1>0, <2>1, <2>2 DEF TypeOK, Fresh, Caching
  <2> QED
    BY <2>3, <2>4, <2>5, <2>6 DEF IInv
<1>12. ASSUME NEW c \in Callers, NEW ok \in BOOLEAN, GetFromServer(c, ok) PROVE IInv'
  <2>1. /\ pc[c] = "getrun" /\ disk' \subseteq Versions
        /\ \E v \in 0..MaxVersion : Deliver(c, v)
    BY <1>0, <1>12 DEF GetFromServer, TypeOK
  <2> QED
    BY <2>1, DeliverPreserves
<1>13. ASSUME NEW c \in Callers, Finish(c) PROVE IInv'
  <2>1. CASE join[c] = None
    <3>1. /\ pc[c] = "finish" /\ pc' = [pc EXCEPT ![c] = "idle"]
          /\ UNCHANGED <<server, disk, transport, stored, entry, made, flight, again, key, join, val>>
      BY <1>13, <2>1 DEF Finish, Goto
    <3>2. TypeOK' /\ Known'
      BY <1>0, <3>1, <2>1 DEF TypeOK, PCs, Known, Pruning, Asking, Reading
    <3>3. Generations' /\ Flown'
      BY <1>0, <3>1, <2>1, SameFlights DEF TypeOK, Pruning, Reading
    <3>4. Shared' /\ Fresh'
      BY <1>0, <3>1 DEF TypeOK, Shared, Fresh, Caching, Asking
    <3> QED
      BY <3>2, <3>3, <3>4 DEF IInv
  <2>2. CASE join[c] # None
    <3>1. /\ pc[c] = "finish" /\ join[c] \in Flights /\ join[c] <= made
          /\ flight[join[c]].key = key[c] /\ key[c] # None /\ val[c] \in 0..MaxVersion
          /\ key[c] \in 0..MaxVersion
      BY <1>0, <1>13, <2>2 DEF Finish, TypeOK, Known, Flown, Pruning, Reading
    <3>2. PICK st \in {"failed", "ok"} :
            flight' = [flight EXCEPT ![join[c]].st = st, ![join[c]].val = val[c]]
      BY <1>13, <2>2 DEF Finish
    <3>3. PICK l \in {"forget", "prune"} : pc' = [pc EXCEPT ![c] = l]
      BY <1>13, <2>2 DEF Finish, Goto
    <3>4. /\ flight'[join[c]].key = key[c] /\ flight'[join[c]].val = val[c]
          /\ \A f \in Flights : f # join[c] => flight'[f] = flight[f]
          /\ flight' \in [Flights -> [key : 0..MaxVersion, st : {"running", "ok", "failed"},
                                      val : 0..MaxVersion]]
      <4> DEFINE R == [key : 0..MaxVersion, st : {"running", "ok", "failed"}, val : 0..MaxVersion]
                 new == [flight[join[c]] EXCEPT !.st = st, !.val = val[c]]
      <4>1. flight[join[c]] \in R /\ flight \in [Flights -> R]
        BY <1>0, <3>1 DEF TypeOK
      <4>2. new \in R /\ new.key = key[c] /\ new.val = val[c]
        BY <3>1, <4>1
      <4>3. flight' = [flight EXCEPT ![join[c]] = new]
        BY <3>1, <3>2, <4>1
      <4> HIDE DEF R, new
      <4>4. /\ flight'[join[c]] = new /\ flight' \in [Flights -> R]
            /\ \A f \in Flights : f # join[c] => flight'[f] = flight[f]
        BY <3>1, <4>1, <4>2, <4>3
      <4> QED
        BY <4>2, <4>4 DEF R
    <3>5. UNCHANGED <<transport, server, disk, stored, entry, made, again, key, join, val>>
      BY <1>13 DEF Finish
    <3>6. TypeOK' /\ Known'
      <4>1. pc' \in [Callers -> PCs]
        BY <1>0, <3>3 DEF TypeOK, PCs
      <4>2. TypeOK'
        BY <1>0, <3>4, <3>5, <4>1 DEF TypeOK
      <4>3. Known'
        BY <1>0, <2>2, <3>1, <3>3, <3>5 DEF TypeOK, Known, Pruning, Asking, Reading
      <4> QED
        BY <4>2, <4>3
    <3>7. Generations'
      BY <1>0, <3>1, <3>3, <3>5 DEF TypeOK, Generations, Pruning, Reading
    <3>8. \A f \in Flights : flight'[f].key = flight[f].key
      BY <3>1, <3>4
    <3>9. Flown'
      <4>1. \A v \in Versions : entry[v] # None =>
              entry[v] \in Flights /\ entry[v] <= made /\ flight[entry[v]].key = v
        BY <1>0 DEF TypeOK, Flown
      <4>2. \A d \in Callers : Pruning(d) =>
              join[d] \in Flights /\ join[d] <= made /\ flight[join[d]].key = key[d]
        BY <1>0 DEF TypeOK, Known, Flown
      <4>3. \A d \in Callers : Pruning(d)' => Pruning(d)
        BY <1>0, <2>2, <3>1, <3>3, <3>5 DEF TypeOK, Pruning, Reading
      <4> QED
        BY <3>5, <3>8, <4>1, <4>2, <4>3 DEF Flown
    <3>10. Shared'
      BY <1>0, <3>3, <3>5 DEF TypeOK, Shared, Caching, Asking
    <3>11. Fresh'
      <4> SUFFICES ASSUME ~Caching, NEW f \in 1..made, flight'[f].val # None
                   PROVE  flight'[f].val >= flight'[f].key
        BY <1>0, <3>5 DEF Fresh, Caching
      <4>1. f \in Flights
        BY <1>0 DEF TypeOK
      <4>2. CASE f = join[c]
        BY <1>0, <3>4, <4>2 DEF Fresh
      <4>3. CASE f # join[c]
        <5>1. flight'[f] = flight[f]
          BY <3>4, <4>1, <4>3
        <5> QED
          BY <1>0, <5>1 DEF Fresh
      <4> QED
        BY <4>2, <4>3
    <3> QED
      BY <3>6, <3>7, <3>9, <3>10, <3>11 DEF IInv
  <2> QED
    BY <2>1, <2>2
<1>14. ASSUME NEW c \in Callers, Wait(c) PROVE IInv'
  <2>1. /\ pc[c] = "wait" /\ join[c] \in Flights /\ join[c] <= made
        /\ flight[join[c]].key = key[c] /\ flight[join[c]].val \in 0..MaxVersion
        /\ val' = [val EXCEPT ![c] = flight[join[c]].val]
        /\ UNCHANGED <<server, disk, transport, stored, entry, made, flight, again, key, join>>
    BY <1>0, <1>14 DEF Wait, memory, TypeOK, Known, Flown, Pruning
  <2>2. PICK l \in {"forget", "prune"} : pc' = [pc EXCEPT ![c] = l]
    BY <1>14 DEF Wait, Goto
  <2>3. TypeOK' /\ Known'
    <3>1. pc' \in [Callers -> PCs] /\ val' \in [Callers -> 0..MaxVersion]
      BY <1>0, <2>1, <2>2 DEF TypeOK, PCs
    <3>2. TypeOK'
      BY <1>0, <2>1, <3>1 DEF TypeOK
    <3>3. Known'
      BY <1>0, <2>1, <2>2 DEF TypeOK, Known, Pruning, Asking, Reading
    <3> QED
      BY <3>2, <3>3
  <2>4. Generations' /\ Flown'
    BY <1>0, <2>1, <2>2, SameFlights DEF TypeOK, Pruning, Reading
  <2>5. Shared'
    BY <1>0, <2>1, <2>2 DEF TypeOK, Shared, Caching, Asking
  <2>6. Fresh'
    BY <1>0, <2>1 DEF TypeOK, Fresh, Caching
  <2> QED
    BY <2>3, <2>4, <2>5, <2>6 DEF IInv
<1>15. ASSUME NEW c \in Callers, ForgetFailed(c) PROVE IInv'
  <2>1. /\ pc[c] = "forget" /\ key[c] \in Versions
        /\ pc' = [pc EXCEPT ![c] = "prune"] /\ entry' = [entry EXCEPT ![key[c]] = None]
        /\ UNCHANGED <<transport, server, disk, stored, made, flight, again, key, join, val>>
    BY <1>0, <1>15 DEF ForgetFailed, Goto, TypeOK, Known, Pruning
  <2>2. TypeOK' /\ Known'
    <3>1. pc' \in [Callers -> PCs] /\ entry' \in [Versions -> 0..MaxFlights]
      BY <1>0, <2>1 DEF TypeOK, PCs
    <3>2. TypeOK'
      BY <1>0, <2>1, <3>1 DEF TypeOK
    <3>3. Known'
      BY <1>0, <2>1 DEF TypeOK, Known, Pruning, Asking, Reading
    <3> QED
      BY <3>2, <3>3
  <2>3. Generations'
    BY <1>0, <2>1 DEF TypeOK, Generations, Pruning, Reading
  <2>4. Flown'
    BY <1>0, <2>1 DEF TypeOK, Flown, Pruning, Reading
  <2>5. Shared' /\ Fresh'
    BY <1>0, <2>1 DEF TypeOK, Shared, Fresh, Caching, Asking
  <2> QED
    BY <2>2, <2>3, <2>4, <2>5 DEF IInv
<1>16. ASSUME NEW c \in Callers, Prune(c) PROVE IInv'
  <2>1. /\ pc[c] = "prune" /\ pc' = [pc EXCEPT ![c] = "idle"]
        /\ entry' = [v \in Versions |-> IF v = key[c] THEN entry[v] ELSE None]
        /\ UNCHANGED <<transport, server, disk, stored, made, flight, again, key, join, val>>
    BY <1>16 DEF Prune, Goto
  <2>2. TypeOK' /\ Known'
    BY <1>0, <2>1 DEF TypeOK, PCs, Known, Pruning, Asking, Reading
  <2>3. Generations'
    BY <1>0, <2>1 DEF TypeOK, Generations
  <2>4. Flown'
    BY <1>0, <2>1 DEF TypeOK, Flown, Pruning, Reading
  <2>5. Shared' /\ Fresh'
    BY <1>0, <2>1 DEF TypeOK, Shared, Fresh, Caching, Asking
  <2> QED
    BY <2>2, <2>3, <2>4, <2>5 DEF IInv
<1>17. ASSUME Update PROVE IInv'
  <2>1. /\ server' = server + 1 /\ server' \in Versions
        /\ UNCHANGED <<transport, disk, stored, entry, made, flight, pc, again, key, join, val>>
    BY <1>0, <1>17 DEF Update, memory, TypeOK
  <2>2. TypeOK' /\ Known' /\ Shared'
    BY <1>0, <2>1 DEF TypeOK, Known, Pruning, Shared, Caching
  <2>3. Generations' /\ Flown'
    BY <1>0, <2>1 DEF Generations, Flown, Pruning
  <2>4. Fresh'
    BY <1>0, <2>1 DEF TypeOK, Fresh, Caching
  <2> QED
    BY <2>2, <2>3, <2>4 DEF IInv
<1>18. ASSUME NEW v \in Versions, Evict(v) PROVE IInv'
  <2>1. /\ entry' = [entry EXCEPT ![v] = None]
        /\ UNCHANGED <<transport, server, disk, stored, made, flight, pc, again, key, join, val>>
    BY <1>18 DEF Evict
  <2>2. TypeOK' /\ Known' /\ Shared' /\ Fresh'
    BY <1>0, <2>1 DEF TypeOK, Known, Pruning, Shared, Fresh, Caching
  <2>3. Generations' /\ Flown'
    BY <1>0, <2>1 DEF TypeOK, Generations, Flown, Pruning
  <2> QED
    BY <2>2, <2>3 DEF IInv
<1>19. ASSUME NEW c \in Callers, Step(c) PROVE IInv'
  BY <1>19, <1>3, <1>4, <1>5, <1>6, <1>7, <1>8, <1>9, <1>10, <1>11, <1>12, <1>13, <1>14,
     <1>15, <1>16 DEF Step
<1> QED
  BY <1>1, <1>2, <1>17, <1>18, <1>19 DEF Next

\* The invariant holds throughout every behaviour.
LEMMA Invariance == Spec => []IInv
<1>1. Init => IInv
  BY InitEstablishes
<1>2. IInv /\ [Next]_vars => IInv'
  BY StepPreserves
<1> QED
  BY <1>1, <1>2, PTL DEF Spec

-----------------------------------------------------------------------------
\* However calls of indexCache.get overlap, fail and share requests, and
\* whatever the LRU evicts, every value keeps its type, and when nobody is in
\* the middle of a call at most one generation of the index is kept: each call
\* that stored or found an entry prunes the others before it returns.
THEOREM SupersededArePruned == Spec => []CacheInOrder
<1>1. IInv => CacheInOrder
  <2> SUFFICES ASSUME IInv, \A c \in Callers : pc[c] = "idle"
               PROVE  Cardinality({v \in Versions : entry[v] # None}) <= 1
    BY DEF IInv, CacheInOrder, OneGeneration
  <2> DEFINE Kept == {v \in Versions : entry[v] # None}
  <2>1. \A v, w \in Kept : v = w
    BY DEF IInv, Generations, Pruning, Reading
  <2>2. CASE Kept = {}
    BY <2>2, FS_EmptySet
  <2>3. CASE Kept # {}
    <3>1. PICK v \in Kept : TRUE
      BY <2>3
    <3>2. Kept = {v}
      BY <2>1, <3>1
    <3> QED
      BY <3>2, FS_Singleton
  <2> QED
    BY <2>2, <2>3
<1> QED
  BY <1>1, Invariance, PTL

\* On a local file, or a client without the caching transport, a caller never
\* gets an index older than the one its own stat or HEAD reported, however
\* often the index is republished in between and whoever read it.
THEOREM UnsharedIsFresh == Spec => []AsFreshUnshared
<1>1. IInv => AsFreshUnshared
  BY DEF IInv, Fresh, AsFreshUnshared, AsFreshAsHead
<1> QED
  BY <1>1, Invariance, PTL
=============================================================================
