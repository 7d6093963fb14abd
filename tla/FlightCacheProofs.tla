------------------------- MODULE FlightCacheProofs -------------------------
(***************************************************************************)
(* FlightCache for any number of callers, keys, entries and flights: types *)
(* are kept, failures are not cached, no stale or foreign value is ever    *)
(* returned, and a flight that runs has exactly one caller in fn.          *)
(***************************************************************************)
EXTENDS FlightCache, TLAPS

-----------------------------------------------------------------------------
(***************************************************************************)
(* The inductive invariant.                                                *)
(***************************************************************************)

\* Flights are made in order: exactly the first made of them are in use.
Numbered ==
  \A f \in Flights : flight[f].st = "unused" <=> f > made

\* An entry's flight was made for the entry's key.
EntryKeyed ==
  \A k \in Keys : load[k] # NoFlight =>
    load[k] <= made /\ flight[load[k]].key = k

\* A caller that joined a flight joined one for the key it asked for.
JoinKeyed ==
  \A c \in Callers : pc[c] \in {"load", "run", "forget", "check"} =>
    /\ call[c].flight \in Flights
    /\ call[c].flight <= made
    /\ flight[call[c].flight].key = call[c].key

\* The state of a caller agrees with the state of its flight.
CallerState ==
  \A c \in Callers :
    /\ pc[c] = "run" => flight[call[c].flight].st = "running"
    /\ pc[c] = "forget" => flight[call[c].flight].st = "failed"
    /\ pc[c] = "check" => flight[call[c].flight].st = "ok"
    /\ pc[c] # "idle" => call[c].res = NoFlight

\* A call recorded as stale joined an entry whose files are still gone.
StaleJoin ==
  \A c \in Callers : call[c].stale =>
    /\ call[c].hit
    /\ pc[c] \in {"load", "run", "check"} => ~flight[call[c].flight].valid

IInv ==
  /\ TypeOK
  /\ Numbered
  /\ EntryKeyed
  /\ JoinKeyed
  /\ CallerState
  /\ StaleJoin
  /\ RunnerPresent
  /\ FailureNotCached
  /\ NoStaleResult
  /\ ResultForKey

-----------------------------------------------------------------------------
\* The initial states satisfy the invariant: nothing is cached or in flight.
LEMMA InitEstablishes == Init => IInv
<1> SUFFICES ASSUME Init PROVE IInv
  OBVIOUS
<1>1. AnyKey \in Keys
  BY FlightAssumption DEF AnyKey
<1> USE FlightAssumption DEF Init, NewCall, Flights, NoFlight
<1>2. TypeOK
  BY <1>1 DEF TypeOK, CallRecord, FlightRecord, PCs
<1>3. Numbered /\ EntryKeyed /\ JoinKeyed /\ CallerState /\ StaleJoin
  BY DEF Numbered, EntryKeyed, JoinKeyed, CallerState, StaleJoin
<1>4. RunnerPresent /\ FailureNotCached /\ NoStaleResult /\ ResultForKey
  BY DEF RunnerPresent, FailureNotCached, NoStaleResult, ResultForKey
<1> QED
  BY <1>2, <1>3, <1>4 DEF IInv

\* Updating one field of a flight's record gives a flight's record.
LEMMA FlightUpdate ==
  ASSUME NEW r \in FlightRecord,
         NEW st \in {"unused", "new", "running", "ok", "failed"}
  PROVE  /\ [r EXCEPT !.st = st] \in FlightRecord
         /\ [r EXCEPT !.valid = FALSE] \in FlightRecord
BY DEF FlightRecord

\* Recording a result in a call's record gives a call's record.
LEMMA CallUpdate ==
  ASSUME NEW r \in CallRecord, NEW f \in 0..MaxFlights
  PROVE  [r EXCEPT !.res = f] \in CallRecord
BY DEF CallRecord

\* The types of the fields, for steps that read them.
LEMMA FieldTypes ==
  ASSUME TypeOK
  PROVE  /\ \A c \in Callers : /\ call[c].key \in Keys
                               /\ call[c].flight \in 0..MaxFlights
                               /\ call[c].res \in 0..MaxFlights
                               /\ call[c].hit \in BOOLEAN
                               /\ call[c].stale \in BOOLEAN
         /\ \A f \in Flights : /\ flight[f].key \in Keys
                               /\ flight[f].valid \in BOOLEAN
BY DEF TypeOK, CallRecord, FlightRecord

\* A caller whose cache is switched off touches neither the flights nor the map.
LEMMA GetUncachedKeeps ==
  ASSUME IInv, NEW c \in Callers, NEW k \in Keys, GetUncached(c, k)
  PROVE  IInv'
<1> USE FlightAssumption DEF IInv, Flights, NoFlight, GetUncached
<1>1. TypeOK'
  <2> USE DEF TypeOK
  <2>1. NewCall(k, NoFlight, FALSE, FALSE) \in CallRecord
    BY DEF CallRecord, NewCall
  <2> QED
    BY <2>1 DEF PCs
<1> USE FieldTypes DEF TypeOK, NewCall
<1>2. Numbered'
  BY DEF Numbered, EntryKeyed, JoinKeyed, CallerState, StaleJoin
<1>3. EntryKeyed'
  BY DEF EntryKeyed, Numbered, JoinKeyed, CallerState, StaleJoin
<1>4. JoinKeyed'
  BY DEF JoinKeyed, Numbered, EntryKeyed, CallerState, StaleJoin
<1>5. CallerState'
  BY DEF CallerState, Numbered, EntryKeyed, JoinKeyed, StaleJoin
<1>6. StaleJoin'
  BY DEF StaleJoin, Numbered, EntryKeyed, JoinKeyed, CallerState
<1>7. RunnerPresent'
  BY DEF RunnerPresent, Numbered, EntryKeyed, JoinKeyed, CallerState, StaleJoin
<1>8. FailureNotCached'
  BY DEF FailureNotCached, Holds, Numbered, EntryKeyed, JoinKeyed, CallerState, StaleJoin
<1>9. NoStaleResult'
  BY DEF NoStaleResult, Numbered, EntryKeyed, JoinKeyed, CallerState, StaleJoin
<1>10. ResultForKey'
  BY DEF ResultForKey, Numbered, EntryKeyed, JoinKeyed, CallerState, StaleJoin
<1> QED
  BY <1>1, <1>2, <1>3, <1>4, <1>5, <1>6, <1>7, <1>8, <1>9, <1>10

\* A caller that finds a flight joins it, under the flight's own key.
LEMMA DoHitKeeps ==
  ASSUME IInv, NEW c \in Callers, NEW k \in Keys, DoHit(c, k)
  PROVE  IInv'
<1> USE FlightAssumption DEF IInv, Flights, NoFlight, DoHit
<1>1. TypeOK'
  <2> USE DEF TypeOK
  <2>1. load[k] \in Flights /\ flight[load[k]].valid \in BOOLEAN
    BY FieldTypes
  <2>2. NewCall(k, load[k], TRUE, ~flight[load[k]].valid) \in CallRecord
    BY <2>1 DEF CallRecord, NewCall
  <2>3. newer' \subseteq Keys \X Keys
    BY DEF Touch, Cached
  <2> QED
    BY <2>2, <2>3 DEF PCs
<1> USE FieldTypes DEF TypeOK, NewCall, Touch, Cached
<1>2. Numbered'
  BY DEF Numbered, EntryKeyed, JoinKeyed, CallerState, StaleJoin
<1>3. EntryKeyed'
  BY DEF EntryKeyed, Numbered, JoinKeyed, CallerState, StaleJoin
<1>4. JoinKeyed'
  BY DEF JoinKeyed, Numbered, EntryKeyed, CallerState, StaleJoin
<1>5. CallerState'
  BY DEF CallerState, Numbered, EntryKeyed, JoinKeyed, StaleJoin
<1>6. StaleJoin'
  <2> SUFFICES ASSUME NEW d \in Callers, call'[d].stale
               PROVE  /\ call'[d].hit
                      /\ pc'[d] \in {"load", "run", "check"} =>
                           ~flight'[call'[d].flight].valid
    BY DEF StaleJoin
  <2>1. CASE d = c
    <3>1. call'[c] = NewCall(k, load[k], TRUE, ~flight[load[k]].valid)
      BY DEF NewCall
    <3> QED
      BY <2>1, <3>1 DEF NewCall
  <2>2. CASE d # c
    BY <2>2 DEF StaleJoin
  <2> QED
    BY <2>1, <2>2
<1>7. RunnerPresent'
  BY DEF RunnerPresent, Numbered, EntryKeyed, JoinKeyed, CallerState, StaleJoin
<1>8. FailureNotCached'
  BY DEF FailureNotCached, Holds, Numbered, EntryKeyed, JoinKeyed, CallerState, StaleJoin
<1>9. NoStaleResult'
  BY DEF NoStaleResult, Numbered, EntryKeyed, JoinKeyed, CallerState, StaleJoin
<1>10. ResultForKey'
  BY DEF ResultForKey, Numbered, EntryKeyed, JoinKeyed, CallerState, StaleJoin
<1> QED
  BY <1>1, <1>2, <1>3, <1>4, <1>5, <1>6, <1>7, <1>8, <1>9, <1>10

\* A caller that finds none starts a flight with a fresh number and runs it.
LEMMA DoMissKeeps ==
  ASSUME IInv, NEW c \in Callers, NEW k \in Keys, DoMiss(c, k)
  PROVE  IInv'
<1> USE FlightAssumption DEF IInv, Flights, NoFlight, DoMiss
<1>1. TypeOK'
  <2> USE DEF TypeOK
  <2>1. made + 1 \in Flights
    OBVIOUS
  <2>2. [key |-> k, st |-> "new", valid |-> TRUE] \in FlightRecord
    BY DEF FlightRecord
  <2>3. flight' \in [Flights -> FlightRecord]
    BY <2>1, <2>2
  <2>4. NewCall(k, made + 1, FALSE, FALSE) \in CallRecord
    BY <2>1 DEF CallRecord, NewCall
  <2>5. call' \in [Callers -> CallRecord]
    BY <2>4
  <2>6. newer' \subseteq Keys \X Keys
    BY DEF Touch, Without, Cached
  <2> QED
    <3>1. load' \in [Keys -> 0..MaxFlights]
      BY <2>1
    <3>2. pc' \in [Callers -> PCs] /\ made' \in 0..MaxFlights
      BY <2>1 DEF PCs
    <3> QED
      BY <2>3, <2>5, <2>6, <3>1, <3>2
<1> USE FieldTypes DEF TypeOK, NewCall
<1>2. Numbered'
  BY DEF Numbered, EntryKeyed, JoinKeyed, CallerState, StaleJoin
<1>3. EntryKeyed'
  BY DEF EntryKeyed, Numbered, JoinKeyed, CallerState, StaleJoin
<1>4. JoinKeyed'
  BY DEF JoinKeyed, Numbered, EntryKeyed, CallerState, StaleJoin
<1>5. CallerState'
  BY DEF CallerState, Numbered, EntryKeyed, JoinKeyed, StaleJoin
<1>6. StaleJoin'
  BY DEF StaleJoin, Numbered, EntryKeyed, JoinKeyed, CallerState
<1>7. RunnerPresent'
  BY DEF RunnerPresent, Numbered, EntryKeyed, JoinKeyed, CallerState, StaleJoin
<1>8. FailureNotCached'
  BY DEF FailureNotCached, Holds, Numbered, EntryKeyed, JoinKeyed, CallerState, StaleJoin
<1>9. NoStaleResult'
  BY DEF NoStaleResult, Numbered, EntryKeyed, JoinKeyed, CallerState, StaleJoin
<1>10. ResultForKey'
  BY DEF ResultForKey, Numbered, EntryKeyed, JoinKeyed, CallerState, StaleJoin
<1> QED
  BY <1>1, <1>2, <1>3, <1>4, <1>5, <1>6, <1>7, <1>8, <1>9, <1>10

\* Starting the function of a flight changes only where its runner stands.
LEMMA RunFlightKeeps ==
  ASSUME IInv, NEW c \in Callers, RunFlight(c)
  PROVE  IInv'
<1> USE FlightAssumption DEF IInv, Flights, NoFlight, RunFlight
<1>1. TypeOK'
  <2> USE DEF TypeOK
  <2>1. call[c].flight \in Flights
    BY DEF JoinKeyed
  <2>2. flight' \in [Flights -> FlightRecord]
    BY <2>1, FlightUpdate
  <2> QED
    BY <2>2 DEF PCs
<1> USE FieldTypes DEF TypeOK, PCs
<1>2. Numbered'
  BY DEF Numbered, EntryKeyed, JoinKeyed, CallerState, StaleJoin
<1>3. EntryKeyed'
  BY DEF EntryKeyed, Numbered, JoinKeyed, CallerState, StaleJoin
<1>4. JoinKeyed'
  BY DEF JoinKeyed, Numbered, EntryKeyed, CallerState, StaleJoin
<1>5. CallerState'
  BY DEF CallerState, Numbered, EntryKeyed, JoinKeyed, StaleJoin
<1>6. StaleJoin'
  BY DEF StaleJoin, Numbered, EntryKeyed, JoinKeyed, CallerState
<1>7. RunnerPresent'
  BY DEF RunnerPresent, Numbered, EntryKeyed, JoinKeyed, CallerState, StaleJoin
<1>8. FailureNotCached'
  BY DEF FailureNotCached, Holds, Numbered, EntryKeyed, JoinKeyed, CallerState, StaleJoin
<1>9. NoStaleResult'
  BY DEF NoStaleResult, Numbered, EntryKeyed, JoinKeyed, CallerState, StaleJoin
<1>10. ResultForKey'
  BY DEF ResultForKey, Numbered, EntryKeyed, JoinKeyed, CallerState, StaleJoin
<1> QED
  BY <1>1, <1>2, <1>3, <1>4, <1>5, <1>6, <1>7, <1>8, <1>9, <1>10

\* The runner settles its flight, and nothing else.
LEMMA FinishFlightKeeps ==
  ASSUME IInv, NEW c \in Callers, NEW st \in {"ok", "failed"}, FinishFlight(c, st)
  PROVE  IInv'
<1> USE FlightAssumption DEF IInv, Flights, NoFlight, FinishFlight
<1>1. TypeOK'
  <2> USE DEF TypeOK
  <2>1. call[c].flight \in Flights
    BY DEF JoinKeyed
  <2>2. flight' \in [Flights -> FlightRecord]
    BY <2>1, FlightUpdate
  <2> DEFINE r == IF st = "ok" /\ ~call[c].hit THEN call[c].flight ELSE NoFlight
  <2>3. call' \in [Callers -> CallRecord]
    <3>1. r \in 0..MaxFlights
      BY <2>1
    <3>2. [call[c] EXCEPT !.res = r] \in CallRecord
      BY <3>1, CallUpdate
    <3> QED
      BY <3>2 DEF Outcome
  <2> QED
    BY <2>2, <2>3 DEF PCs, AfterLoad
<1> USE FieldTypes DEF TypeOK, AfterLoad, Outcome
<1>2. Numbered'
  BY DEF Numbered, EntryKeyed, JoinKeyed, CallerState, StaleJoin
<1>3. EntryKeyed'
  BY DEF EntryKeyed, Numbered, JoinKeyed, CallerState, StaleJoin
<1>4. JoinKeyed'
  BY DEF JoinKeyed, Numbered, EntryKeyed, CallerState, StaleJoin
<1>5. CallerState'
  <2> SUFFICES ASSUME NEW d \in Callers
               PROVE  /\ pc'[d] = "run" => flight'[call'[d].flight].st = "running"
                      /\ pc'[d] = "forget" => flight'[call'[d].flight].st = "failed"
                      /\ pc'[d] = "check" => flight'[call'[d].flight].st = "ok"
                      /\ pc'[d] # "idle" => call'[d].res = NoFlight
    BY DEF CallerState
  <2>1. call[c].flight \in Flights /\ flight[call[c].flight].st = "running"
    BY DEF JoinKeyed, CallerState
  <2>2. CASE d = c
    BY <2>1, <2>2 DEF CallerState
  <2>3. CASE d # c
    <3>1. call'[d] = call[d] /\ pc'[d] = pc[d]
      BY <2>3
    <3>2. pc[d] \in {"run", "forget", "check"} => call[d].flight # call[c].flight
      BY <2>1, <2>3 DEF CallerState, RunnerPresent
    <3> QED
      BY <2>1, <3>1, <3>2 DEF CallerState, JoinKeyed
  <2> QED
    BY <2>2, <2>3
<1>6. StaleJoin'
  BY DEF StaleJoin, Numbered, EntryKeyed, JoinKeyed, CallerState
<1>7. RunnerPresent'
  BY DEF RunnerPresent, Numbered, EntryKeyed, JoinKeyed, CallerState, StaleJoin
<1>8. FailureNotCached'
  BY DEF FailureNotCached, Holds, Numbered, EntryKeyed, JoinKeyed, CallerState, StaleJoin
<1>9. NoStaleResult'
  BY DEF NoStaleResult, Numbered, EntryKeyed, JoinKeyed, CallerState, StaleJoin
<1>10. ResultForKey'
  BY DEF ResultForKey, Numbered, EntryKeyed, JoinKeyed, CallerState, StaleJoin
<1> QED
  BY <1>1, <1>2, <1>3, <1>4, <1>5, <1>6, <1>7, <1>8, <1>9, <1>10

\* A waiter takes the settled flight's outcome, which carries its key.
LEMMA JoinFlightKeeps ==
  ASSUME IInv, NEW c \in Callers, JoinFlight(c)
  PROVE  IInv'
<1> USE FlightAssumption DEF IInv, Flights, NoFlight, JoinFlight
<1>1. TypeOK'
  <2> USE DEF TypeOK
  <2>1. call[c].flight \in Flights
    BY DEF JoinKeyed
  <2> DEFINE st == flight[call[c].flight].st
             r == IF st = "ok" /\ ~call[c].hit THEN call[c].flight ELSE NoFlight
  <2>2. call' \in [Callers -> CallRecord]
    <3>1. r \in 0..MaxFlights
      BY <2>1
    <3>2. [call[c] EXCEPT !.res = r] \in CallRecord
      BY <3>1, CallUpdate
    <3> QED
      BY <3>2 DEF Outcome
  <2> QED
    BY <2>2 DEF PCs, AfterLoad
<1> USE FieldTypes DEF TypeOK, AfterLoad, Outcome
<1>2. Numbered'
  BY DEF Numbered, EntryKeyed, JoinKeyed, CallerState, StaleJoin
<1>3. EntryKeyed'
  BY DEF EntryKeyed, Numbered, JoinKeyed, CallerState, StaleJoin
<1>4. JoinKeyed'
  BY DEF JoinKeyed, Numbered, EntryKeyed, CallerState, StaleJoin
<1>5. CallerState'
  BY DEF CallerState, Numbered, EntryKeyed, JoinKeyed, StaleJoin
<1>6. StaleJoin'
  BY DEF StaleJoin, Numbered, EntryKeyed, JoinKeyed, CallerState
<1>7. RunnerPresent'
  BY DEF RunnerPresent, Numbered, EntryKeyed, JoinKeyed, CallerState, StaleJoin
<1>8. FailureNotCached'
  BY DEF FailureNotCached, Holds, Numbered, EntryKeyed, JoinKeyed, CallerState, StaleJoin
<1>9. NoStaleResult'
  BY DEF NoStaleResult, Numbered, EntryKeyed, JoinKeyed, CallerState, StaleJoin
<1>10. ResultForKey'
  BY DEF ResultForKey, Numbered, EntryKeyed, JoinKeyed, CallerState, StaleJoin
<1> QED
  BY <1>1, <1>2, <1>3, <1>4, <1>5, <1>6, <1>7, <1>8, <1>9, <1>10

\* A caller that saw a failure removes the entry for its key before it returns.
LEMMA ForgetFailedKeeps ==
  ASSUME IInv, NEW c \in Callers, ForgetFailed(c)
  PROVE  IInv'
<1> USE FlightAssumption DEF IInv, Flights, NoFlight, ForgetFailed
<1>1. TypeOK'
  <2> USE DEF TypeOK
  <2>1. newer' \subseteq Keys \X Keys
    BY DEF Forget, Without
  <2> QED
    <3>1. load' \in [Keys -> 0..MaxFlights]
      <4>1. 0 \in 0..MaxFlights
        BY FlightAssumption
      <4>2. load' = [load EXCEPT ![call[c].key] = 0]
        BY DEF Forget
      <4> QED
        BY <4>1, <4>2 DEF TypeOK
    <3>2. pc' \in [Callers -> PCs]
      BY DEF PCs
    <3> QED
      BY <2>1, <3>1, <3>2
<1> USE FieldTypes DEF TypeOK, Forget, Without
<1>2. Numbered'
  BY DEF Numbered, EntryKeyed, JoinKeyed, CallerState, StaleJoin
<1>3. EntryKeyed'
  BY DEF EntryKeyed, Numbered, JoinKeyed, CallerState, StaleJoin
<1>4. JoinKeyed'
  BY DEF JoinKeyed, Numbered, EntryKeyed, CallerState, StaleJoin
<1>5. CallerState'
  BY DEF CallerState, Numbered, EntryKeyed, JoinKeyed, StaleJoin
<1>6. StaleJoin'
  BY DEF StaleJoin, Numbered, EntryKeyed, JoinKeyed, CallerState
<1>7. RunnerPresent'
  BY DEF RunnerPresent, Numbered, EntryKeyed, JoinKeyed, CallerState, StaleJoin
<1>8. FailureNotCached'
  <2> SUFFICES ASSUME NEW q \in Keys, load'[q] # NoFlight,
                      flight'[load'[q]].st = "failed"
               PROVE  \E d \in Callers : Holds(d, load[q])'
    BY DEF FailureNotCached
  <2>1. q # call[c].key /\ load'[q] = load[q]
    BY FieldTypes
  <2>2. PICK d \in Callers : Holds(d, load[q])
    BY <2>1 DEF FailureNotCached
  <2>3. d # c
    BY <2>1, <2>2 DEF Holds, EntryKeyed, JoinKeyed
  <2> QED
    BY <2>1, <2>2, <2>3 DEF Holds
<1>9. NoStaleResult'
  BY DEF NoStaleResult, Numbered, EntryKeyed, JoinKeyed, CallerState, StaleJoin
<1>10. ResultForKey'
  BY DEF ResultForKey, Numbered, EntryKeyed, JoinKeyed, CallerState, StaleJoin
<1> QED
  BY <1>1, <1>2, <1>3, <1>4, <1>5, <1>6, <1>7, <1>8, <1>9, <1>10

\* A caller with a cached value returns it only if its files are still there.
LEMMA CheckValidKeeps ==
  ASSUME IInv, NEW c \in Callers, CheckValid(c)
  PROVE  IInv'
<1> USE FlightAssumption DEF IInv, Flights, NoFlight
<1>0. call[c].flight \in Flights
  BY DEF CheckValid, JoinKeyed
<1>1. TypeOK'
  <2>1. call' \in [Callers -> CallRecord]
    BY <1>0, CallUpdate DEF CheckValid, TypeOK
  <2>2. pc' \in [Callers -> PCs]
    BY DEF CheckValid, TypeOK, PCs
  <2> QED
    BY <2>1, <2>2 DEF CheckValid, TypeOK
<1>2. /\ \A d \in Callers \ {c} : call'[d] = call[d] /\ pc'[d] = pc[d]
      /\ pc'[c] \in {"idle", "drop"}
      /\ call'[c].key = call[c].key
      /\ call'[c].hit = call[c].hit
      /\ call'[c].stale = call[c].stale
      /\ call'[c].res # call[c].res =>
           /\ flight[call[c].flight].valid
           /\ call'[c].res = call[c].flight
           /\ pc'[c] = "idle"
  <2>1. CASE flight[call[c].flight].valid
    BY <2>1 DEF CheckValid, TypeOK, CallRecord
  <2>2. CASE ~flight[call[c].flight].valid
    BY <2>2 DEF CheckValid, TypeOK
  <2> QED
    BY <2>1, <2>2
<1>3. UNCHANGED <<load, newer, made, flight>> /\ pc[c] = "check"
  BY DEF CheckValid
<1> USE <1>0, <1>2, <1>3
<1>4. Numbered' /\ EntryKeyed'
  BY DEF Numbered, EntryKeyed
<1>5. JoinKeyed'
  BY DEF JoinKeyed
<1>6. CallerState'
  BY DEF CallerState
<1>7. StaleJoin'
  BY DEF StaleJoin
<1>8. RunnerPresent'
  BY DEF RunnerPresent
<1>9. FailureNotCached'
  BY DEF FailureNotCached, Holds
<1>10. NoStaleResult'
  BY DEF NoStaleResult, StaleJoin
<1>11. ResultForKey'
  BY DEF ResultForKey, JoinKeyed, CallerState
<1> QED
  BY <1>1, <1>4, <1>5, <1>6, <1>7, <1>8, <1>9, <1>10, <1>11

\* A caller with a value whose files are gone drops the entry and fetches for itself.
LEMMA DropInvalidKeeps ==
  ASSUME IInv, NEW c \in Callers, DropInvalid(c)
  PROVE  IInv'
<1> USE FlightAssumption DEF IInv, Flights, NoFlight, DropInvalid
<1>1. TypeOK'
  <2> USE DEF TypeOK
  <2>1. newer' \subseteq Keys \X Keys
    BY DEF Forget, Without
  <2> QED
    <3>1. load' \in [Keys -> 0..MaxFlights]
      <4>1. 0 \in 0..MaxFlights
        BY FlightAssumption
      <4>2. load' = [load EXCEPT ![call[c].key] = 0]
        BY DEF Forget
      <4> QED
        BY <4>1, <4>2 DEF TypeOK
    <3>2. pc' \in [Callers -> PCs]
      BY DEF PCs
    <3> QED
      BY <2>1, <3>1, <3>2
<1> USE FieldTypes DEF TypeOK, Forget, Without
<1>2. Numbered'
  BY DEF Numbered, EntryKeyed, JoinKeyed, CallerState, StaleJoin
<1>3. EntryKeyed'
  BY DEF EntryKeyed, Numbered, JoinKeyed, CallerState, StaleJoin
<1>4. JoinKeyed'
  BY DEF JoinKeyed, Numbered, EntryKeyed, CallerState, StaleJoin
<1>5. CallerState'
  BY DEF CallerState, Numbered, EntryKeyed, JoinKeyed, StaleJoin
<1>6. StaleJoin'
  BY DEF StaleJoin, Numbered, EntryKeyed, JoinKeyed, CallerState
<1>7. RunnerPresent'
  BY DEF RunnerPresent, Numbered, EntryKeyed, JoinKeyed, CallerState, StaleJoin
<1>8. FailureNotCached'
  BY DEF FailureNotCached, Holds, Numbered, EntryKeyed, JoinKeyed, CallerState, StaleJoin
<1>9. NoStaleResult'
  BY DEF NoStaleResult, Numbered, EntryKeyed, JoinKeyed, CallerState, StaleJoin
<1>10. ResultForKey'
  BY DEF ResultForKey, Numbered, EntryKeyed, JoinKeyed, CallerState, StaleJoin
<1> QED
  BY <1>1, <1>2, <1>3, <1>4, <1>5, <1>6, <1>7, <1>8, <1>9, <1>10

\* A caller without a cache returns its own fetch.
LEMMA FinishDirectKeeps ==
  ASSUME IInv, NEW c \in Callers, FinishDirect(c)
  PROVE  IInv'
<1> USE FlightAssumption DEF IInv, Flights, NoFlight, FinishDirect
<1>1. TypeOK'
  BY DEF TypeOK, PCs
<1> USE FieldTypes DEF TypeOK, PCs
<1>2. Numbered'
  BY DEF Numbered, EntryKeyed, JoinKeyed, CallerState, StaleJoin
<1>3. EntryKeyed'
  BY DEF EntryKeyed, Numbered, JoinKeyed, CallerState, StaleJoin
<1>4. JoinKeyed'
  BY DEF JoinKeyed, Numbered, EntryKeyed, CallerState, StaleJoin
<1>5. CallerState'
  BY DEF CallerState, Numbered, EntryKeyed, JoinKeyed, StaleJoin
<1>6. StaleJoin'
  BY DEF StaleJoin, Numbered, EntryKeyed, JoinKeyed, CallerState
<1>7. RunnerPresent'
  BY DEF RunnerPresent, Numbered, EntryKeyed, JoinKeyed, CallerState, StaleJoin
<1>8. FailureNotCached'
  BY DEF FailureNotCached, Holds, Numbered, EntryKeyed, JoinKeyed, CallerState, StaleJoin
<1>9. NoStaleResult'
  BY DEF NoStaleResult, Numbered, EntryKeyed, JoinKeyed, CallerState, StaleJoin
<1>10. ResultForKey'
  BY DEF ResultForKey, Numbered, EntryKeyed, JoinKeyed, CallerState, StaleJoin
<1> QED
  BY <1>1, <1>2, <1>3, <1>4, <1>5, <1>6, <1>7, <1>8, <1>9, <1>10

\* ForgetFunc removes entries and leaves every flight in progress alone.
LEMMA ForgetFuncKeeps ==
  ASSUME IInv, NEW S \in ForgetSets, ForgetFunc(S)
  PROVE  IInv'
<1> USE FlightAssumption DEF IInv, Flights, NoFlight, ForgetFunc
<1>1. TypeOK'
  <2> USE DEF TypeOK
  <2>1. newer' \subseteq Keys \X Keys
    BY DEF Without
  <2> QED
    BY <2>1
<1> USE FieldTypes DEF TypeOK, Without
<1>2. Numbered'
  BY DEF Numbered, EntryKeyed, JoinKeyed, CallerState, StaleJoin
<1>3. EntryKeyed'
  BY DEF EntryKeyed, Numbered, JoinKeyed, CallerState, StaleJoin
<1>4. JoinKeyed'
  BY DEF JoinKeyed, Numbered, EntryKeyed, CallerState, StaleJoin
<1>5. CallerState'
  BY DEF CallerState, Numbered, EntryKeyed, JoinKeyed, StaleJoin
<1>6. StaleJoin'
  BY DEF StaleJoin, Numbered, EntryKeyed, JoinKeyed, CallerState
<1>7. RunnerPresent'
  BY DEF RunnerPresent, Numbered, EntryKeyed, JoinKeyed, CallerState, StaleJoin
<1>8. FailureNotCached'
  BY DEF FailureNotCached, Holds, Numbered, EntryKeyed, JoinKeyed, CallerState, StaleJoin
<1>9. NoStaleResult'
  BY DEF NoStaleResult, Numbered, EntryKeyed, JoinKeyed, CallerState, StaleJoin
<1>10. ResultForKey'
  BY DEF ResultForKey, Numbered, EntryKeyed, JoinKeyed, CallerState, StaleJoin
<1> QED
  BY <1>1, <1>2, <1>3, <1>4, <1>5, <1>6, <1>7, <1>8, <1>9, <1>10

\* Files that disappear only make the values of settled flights invalid.
LEMMA VanishKeeps ==
  ASSUME IInv, NEW f \in Flights, Vanish(f)
  PROVE  IInv'
<1> USE FlightAssumption DEF IInv, Flights, NoFlight, Vanish
<1>1. TypeOK'
  <2> USE DEF TypeOK
  <2>1. flight' \in [Flights -> FlightRecord]
    BY FlightUpdate
  <2> QED
    BY <2>1
<1> USE FieldTypes DEF TypeOK, PCs
<1>2. Numbered'
  BY DEF Numbered, EntryKeyed, JoinKeyed, CallerState, StaleJoin
<1>3. EntryKeyed'
  BY DEF EntryKeyed, Numbered, JoinKeyed, CallerState, StaleJoin
<1>4. JoinKeyed'
  BY DEF JoinKeyed, Numbered, EntryKeyed, CallerState, StaleJoin
<1>5. CallerState'
  BY DEF CallerState, Numbered, EntryKeyed, JoinKeyed, StaleJoin
<1>6. StaleJoin'
  BY DEF StaleJoin, Numbered, EntryKeyed, JoinKeyed, CallerState
<1>7. RunnerPresent'
  <2>1. \A g \in Flights : flight'[g].st = flight[g].st
    OBVIOUS
  <2> QED
    BY <2>1 DEF RunnerPresent
<1>8. FailureNotCached'
  BY DEF FailureNotCached, Holds, Numbered, EntryKeyed, JoinKeyed, CallerState, StaleJoin
<1>9. NoStaleResult'
  BY DEF NoStaleResult, Numbered, EntryKeyed, JoinKeyed, CallerState, StaleJoin
<1>10. ResultForKey'
  BY DEF ResultForKey, Numbered, EntryKeyed, JoinKeyed, CallerState, StaleJoin
<1> QED
  BY <1>1, <1>2, <1>3, <1>4, <1>5, <1>6, <1>7, <1>8, <1>9, <1>10

-----------------------------------------------------------------------------
\* Every step of the cache, of its callers and of their environment keeps the
\* invariant.
LEMMA StepKeeps == IInv /\ [Next]_vars => IInv'
<1> SUFFICES ASSUME IInv, [Next]_vars PROVE IInv'
  OBVIOUS
<1>1. CASE UNCHANGED vars
  BY <1>1 DEF vars, IInv, TypeOK, Numbered, EntryKeyed, JoinKeyed, CallerState,
     StaleJoin, RunnerPresent, FailureNotCached, Holds, NoStaleResult, ResultForKey
<1>2. ASSUME NEW c \in Callers, NEW k \in Keys,
             GetUncached(c, k) \/ DoHit(c, k) \/ DoMiss(c, k)
      PROVE  IInv'
  BY <1>2, GetUncachedKeeps, DoHitKeeps, DoMissKeeps
<1>3. ASSUME NEW c \in Callers, Step(c)
      PROVE  IInv'
  BY <1>3, RunFlightKeeps, FinishFlightKeeps, JoinFlightKeeps, ForgetFailedKeeps,
     CheckValidKeeps, DropInvalidKeeps, FinishDirectKeeps DEF Step
<1>4. ASSUME NEW S \in ForgetSets, ForgetFunc(S)
      PROVE  IInv'
  BY <1>4, ForgetFuncKeeps
<1>5. ASSUME NEW f \in Flights, Vanish(f)
      PROVE  IInv'
  BY <1>5, VanishKeeps
<1> QED
  BY <1>1, <1>2, <1>3, <1>4, <1>5 DEF Next

\* The inductive invariant holds in every reachable state.
THEOREM Invariance == Spec => []IInv
<1> QED
  BY InitEstablishes, StepKeeps, PTL DEF Spec

\* Types are kept: flights, entries and calls always have the shape declared.
THEOREM TypeCorrect == Spec => []TypeOK
<1>1. IInv => TypeOK
  BY DEF IInv
<1> QED
  BY <1>1, Invariance, PTL

\* Do does not cache failures: a failed entry is there only while a caller of
\* its flight is still on the way to Forget.
THEOREM FailuresForgotten == Spec => []FailureNotCached
<1>1. IInv => FailureNotCached
  BY DEF IInv
<1> QED
  BY <1>1, Invariance, PTL

\* GetPackage returns no value whose files were gone when the call began.
THEOREM NothingStale == Spec => []NoStaleResult
<1>1. IInv => NoStaleResult
  BY DEF IInv
<1> QED
  BY <1>1, Invariance, PTL

\* GetPackage returns only successful values made for the package asked for.
THEOREM KeyedResults == Spec => []ResultForKey
<1>1. IInv => ResultForKey
  BY DEF IInv
<1> QED
  BY <1>1, Invariance, PTL

\* A running flight has exactly one caller inside fn.
THEOREM SingleRunner == Spec => []RunnerPresent
<1>1. IInv => RunnerPresent
  BY DEF IInv
<1> QED
  BY <1>1, Invariance, PTL
=============================================================================
