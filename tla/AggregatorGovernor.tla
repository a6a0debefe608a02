-------------------------- MODULE AggregatorGovernor --------------------------
(***************************************************************************)
(* The pacing of quote APIs (apps/api/src/lib/aggregatorGovernor.ts): one  *)
(* governor of one provider and chain, with its queue of promises, the     *)
(* minimum interval, the breaker, the result cache and the in-flight map,  *)
(* under a discrete clock.  What a call asks is its key.                   *)
(*                                                                         *)
(* A turn in the promise chain is a ticket: the promise of ticket n waits  *)
(* for ticket n - 1 to be released.  What is released runs before the      *)
(* clock moves on; timers fire at their time or later.                     *)
(***************************************************************************)
EXTENDS Integers

CONSTANTS
    Callers,     \* quote tasks that call governAggregatorCall, once each
    Keys,        \* provider, chain, tokens and amount
    Deadlines,   \* deadlineAt, after the call
    None,
    MinInterval, \* minimum interval of the provider
    MaxWait,     \* MAX_QUEUE_WAIT_MS
    CoolOff,     \* BREAKER_COOL_OFF_MS
    ValueTTL,    \* CACHE_TTL_MS
    NoRouteTTL,  \* NO_ROUTE_CACHE_TTL_MS
    LastCall,    \* bound: no call begins later
    MaxTime      \* bound of the clock

Answers == {"value", "noRoute"}
Results == Answers \cup {"skipped", "error"}
Cached == [value : Answers, until : Nat]
Said == [value : Answers, at : Nat]
Flight == [at : {"queued", "sleep", "fetch"}, ticket : Nat, since : Nat, projected : Nat,
           deadline : Nat]

GovernorAssumption ==
    /\ {MinInterval, MaxWait, CoolOff, LastCall, MaxTime} \subseteq Nat
    /\ {ValueTTL, NoRouteTTL} \subseteq Nat \ {0}
    /\ Deadlines \subseteq Nat
    /\ None \notin Keys \cup Results \cup Cached \cup Said \cup Flight

VARIABLES
    now,
    nextSlotAt, breakerUntil, tail, released, \* the governor
    cache,      \* resultCache: value and expiry
    flight,     \* inFlight: the running call of a key
    call,       \* the callers
    lastAnswer  \* history: what the provider said of a key, and when

governorVars == <<nextSlotAt, breakerUntil, tail, released>>
vars == <<now, governorVars, cache, flight, call, lastAnswer>>

Max2(x, y) == IF x < y THEN y ELSE x

GovernorInit ==
    /\ now = 0 /\ nextSlotAt = 0 /\ breakerUntil = 0 /\ tail = 0 /\ released = {0}
    /\ cache = [k \in Keys |-> None] /\ flight = [k \in Keys |-> None]
    /\ call = [c \in Callers |-> [key |-> None, result |-> None, age |-> 0]]
    /\ lastAnswer = [k \in Keys |-> None]

-----------------------------------------------------------------------------

isBreakerOpen == now < breakerUntil
Waiting(c) == call[c].key # None /\ call[c].result = None
Fresh(k) == cache[k] # None /\ cache[k].until > now

\* Every caller that shares the promise of the key sees its outcome.
Settled(k, result) ==
    /\ call' = [c \in Callers |-> IF Waiting(c) /\ call[c].key = k
                                  THEN [call[c] EXCEPT !.result = result] ELSE call[c]]
    /\ flight' = [flight EXCEPT ![k] = None]

\* Faulty variant of Release: the promise is not released.
ReleaseForgotten(k) == UNCHANGED released

Release(k) == released' = released \cup {flight[k].ticket}

Late(k) == now - flight[k].since > MaxWait \/ now >= flight[k].deadline

Projected == Max2(now, nextSlotAt)

-----------------------------------------------------------------------------
\* governAggregatorCall and the synchronous part of schedule

Answered(c, k) ==
    /\ Fresh(k)
    /\ call' = [call EXCEPT ![c] = [key |-> k, result |-> cache[k].value,
                                    age |-> now - lastAnswer[k].at]]
    /\ UNCHANGED <<governorVars, flight>>

Joins(c, k) ==
    /\ ~Fresh(k) /\ flight[k] # None
    /\ call' = [call EXCEPT ![c].key = k]
    /\ UNCHANGED <<governorVars, flight>>

Shed(c, k, d) ==
    /\ ~Fresh(k) /\ flight[k] = None
    /\ isBreakerOpen \/ Projected - now > MaxWait \/ Projected >= now + d
    /\ call' = [call EXCEPT ![c] = [key |-> k, result |-> "skipped", age |-> 0]]
    /\ UNCHANGED <<governorVars, flight>>

Queued(c, k, d) ==
    /\ ~Fresh(k) /\ flight[k] = None
    /\ ~isBreakerOpen /\ Projected - now <= MaxWait /\ Projected < now + d
    /\ nextSlotAt' = Projected + MinInterval
    /\ tail' = tail + 1
    /\ flight' = [flight EXCEPT ![k] = [at |-> "queued", ticket |-> tail + 1, since |-> now,
                                        projected |-> Projected, deadline |-> now + d]]
    /\ call' = [call EXCEPT ![c].key = k]
    /\ UNCHANGED <<breakerUntil, released>>

Begin(c, k, d) ==
    /\ call[c].key = None /\ now <= LastCall
    /\ Answered(c, k) \/ Joins(c, k) \/ Shed(c, k, d) \/ Queued(c, k, d)
    /\ UNCHANGED <<now, cache, lastAnswer>>

-----------------------------------------------------------------------------
\* The rest of schedule, after the turn of the call has come

At(k, place) == flight[k] # None /\ flight[k].at = place
MyTurn(k) == flight[k].ticket - 1 \in released

Skip(k) ==
    /\ Settled(k, "skipped") /\ Release(k)
    /\ UNCHANGED lastAnswer

\* Faulty variant of Start: the checks are not repeated before the call.
StartAnyway(k) ==
    /\ flight' = [flight EXCEPT ![k].at = "fetch"]
    /\ UNCHANGED <<released, call, lastAnswer>>

Start(k) ==
    IF isBreakerOpen \/ Late(k) THEN Skip(k)
    ELSE /\ flight' = [flight EXCEPT ![k].at = "fetch"]
         /\ UNCHANGED <<released, call, lastAnswer>>

Turn(k) ==
    /\ At(k, "queued") /\ MyTurn(k)
    /\ IF Late(k) THEN Skip(k)
       ELSE IF now < flight[k].projected
            THEN /\ flight' = [flight EXCEPT ![k].at = "sleep"]
                 /\ UNCHANGED <<released, call, lastAnswer>>
            ELSE Start(k)
    /\ UNCHANGED <<now, nextSlotAt, breakerUntil, tail, cache>>

Wake(k) ==
    /\ At(k, "sleep") /\ now >= flight[k].projected
    /\ Start(k)
    /\ UNCHANGED <<now, nextSlotAt, breakerUntil, tail, cache>>

Lifetime(value) == IF value = "noRoute" THEN NoRouteTTL ELSE ValueTTL

FetchAnswers(k, value) ==
    /\ At(k, "fetch") /\ Settled(k, value) /\ Release(k)
    /\ cache' = [cache EXCEPT ![k] = [value |-> value, until |-> now + Lifetime(value)]]
    /\ lastAnswer' = [lastAnswer EXCEPT ![k] = [value |-> value, at |-> now]]
    /\ UNCHANGED <<now, nextSlotAt, breakerUntil, tail>>

\* Faulty variant of FetchFailsNow: a failure is cached as "no route".
FetchFailsCached(k, is429) ==
    /\ At(k, "fetch") /\ Settled(k, "skipped") /\ Release(k)
    /\ breakerUntil' = IF is429 THEN now + CoolOff ELSE breakerUntil
    /\ cache' = [cache EXCEPT ![k] = [value |-> "noRoute", until |-> now + NoRouteTTL]]
    /\ UNCHANGED <<now, nextSlotAt, tail, lastAnswer>>

\* AggregatorTransientError, of a 429 or of another status
FetchFailsNow(k, is429) ==
    /\ At(k, "fetch") /\ Settled(k, "skipped") /\ Release(k)
    /\ breakerUntil' = IF is429 THEN now + CoolOff ELSE breakerUntil
    /\ UNCHANGED <<now, nextSlotAt, tail, cache, lastAnswer>>

\* Any other error reaches every caller.
FetchThrows(k) ==
    /\ At(k, "fetch") /\ Settled(k, "error") /\ Release(k)
    /\ UNCHANGED <<now, nextSlotAt, breakerUntil, tail, cache, lastAnswer>>

FetchEnds(k) ==
    \/ \E value \in Answers : FetchAnswers(k, value)
    \/ \E is429 \in BOOLEAN : FetchFailsNow(k, is429)
    \/ FetchThrows(k)

Tick ==
    /\ now < MaxTime /\ now' = now + 1
    /\ \A k \in Keys : At(k, "queued") => ~MyTurn(k)
    /\ UNCHANGED <<governorVars, cache, flight, call, lastAnswer>>

GovernorNext ==
    \/ \E c \in Callers, k \in Keys, d \in Deadlines : Begin(c, k, d)
    \/ \E k \in Keys : Turn(k) \/ Wake(k) \/ FetchEnds(k)
    \/ Tick

\* Time passes, promises that are ready run, timers fire, and every fetch has
\* a timeout of its own.
GovernorFairness ==
    /\ WF_vars(Tick)
    /\ \A k \in Keys : WF_vars(Turn(k)) /\ WF_vars(Wake(k)) /\ WF_vars(FetchEnds(k))

GovernorSpec == GovernorInit /\ [][GovernorNext]_vars /\ GovernorFairness

-----------------------------------------------------------------------------

GovernorTypeOK ==
    /\ now \in 0 .. MaxTime /\ {nextSlotAt, breakerUntil, tail} \subseteq Nat
    /\ released \subseteq 0 .. tail
    /\ cache \in [Keys -> Cached \cup {None}] /\ lastAnswer \in [Keys -> Said \cup {None}]
    /\ flight \in [Keys -> Flight \cup {None}]
    /\ call \in [Callers -> [key : Keys \cup {None}, result : Results \cup {None}, age : Int]]
    /\ \A k \in Keys : flight[k] # None =>
          flight[k].ticket \in 1 .. tail /\ flight[k].projected + MinInterval <= nextSlotAt

\* "per-provider serial queue": a call never reaches the provider while another
\* is served, while the provider is to be left alone, after its deadline, or after
\* more than the maximal wait, although the breaker and the queue change while it
\* waits and sleeps.
StartsInTime ==
    [][\A k \in Keys : ~At(k, "fetch") /\ At(k, "fetch")' =>
           /\ \A j \in Keys : ~At(j, "fetch")
           /\ now >= breakerUntil /\ now < flight[k].deadline
           /\ now - flight[k].since <= MaxWait]_vars

\* A skipped or failed call is never remembered as "no route": who is told
\* that there is a route or none is told what the provider said last, at most
\* as long ago as the cache allows.
AnswersAreTheProviders ==
    /\ \A k \in Keys : cache[k] # None =>
          lastAnswer[k] # None /\ cache[k].value = lastAnswer[k].value
    /\ \A c \in Callers : call[c].result \in Answers => call[c].age < Lifetime(call[c].result)

\* Every caller gets an answer, though calls are queued behind others that
\* are skipped, fail or throw.
EveryCallAnswered == \A c \in Callers : Waiting(c) ~> ~Waiting(c)

=============================================================================
