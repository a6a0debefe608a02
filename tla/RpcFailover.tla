----------------------------- MODULE RpcFailover -----------------------------
(***************************************************************************)
(* JSON-RPC dispatch (apps/api/src/utils/baseRpc.ts and chainRpc.ts, which *)
(* repeats it for each chain): rotation of the public nodes, the standard, *)
(* verification and dedicated lanes of a chain, sequential failover and    *)
(* hedging.  The order of the endpoints of a request is fixed when it      *)
(* begins; what each node answers is not, and requests overlap.            *)
(***************************************************************************)
EXTENDS Naturals, Sequences, SequencesExt, FiniteSets

CONSTANTS
    Publics,       \* public nodes, in order
    Customs,       \* configured and Blockscout endpoints, in order
    Keyed,         \* Alchemy endpoints, in order: the backstop and the dedicated lane
    Requests,
    RotationCalls, \* calls before the next public node leads
    Hedge,         \* hedgeCount
    MaxAttempts    \* maxEndpointAttempts of the dedicated lane

AllEndpoints == Publics \o Customs \o Keyed

RpcAssumption ==
    /\ \A pool \in {Publics, Customs, Keyed} : pool \in Seq(ToSet(pool))
    /\ IsInjective(AllEndpoints)
    /\ Publics # <<>> /\ {RotationCalls, Hedge, MaxAttempts} \subseteq Nat \ {0}

VARIABLES
    rotation, \* index and calls of the public pool and of the keys; verification index
    req       \* the requests

vars == <<rotation, req>>

Endpoints == ToSet(AllEndpoints)
Lanes == {"standard", "verification", "dedicated"}
Verdicts == {"none", "result", "revert", "failed", "aborted"}
Idle == [lane |-> "none", todo |-> <<>>, out |-> {}, hedged |-> FALSE, reverts |-> {},
         failures |-> {}, verdict |-> "none"]

RpcInit ==
    /\ rotation = [public |-> 0, calls |-> 0, key |-> 0, keyCalls |-> 0, verify |-> 0]
    /\ req = [r \in Requests |-> Idle]

-----------------------------------------------------------------------------
\* The order of the endpoints

\* The place whose turn it is in a pool, and the endpoints with the one at a place first.
InTurn(pool, i) == (i % Len(pool)) + 1
LedBy(i, endpoints) == <<endpoints[i]>> \o RemoveAt(endpoints, i)

\* Faulty variant of Standard: the keys come before the free endpoints.
StandardKeysFirst == LedBy(InTurn(Publics, rotation.public) + Len(Keyed), Keyed \o Publics \o Customs)

\* A pool of one node is not rotated.
Standard == LedBy(InTurn(Publics, rotation.public), AllEndpoints)

\* Faulty variant of Advance: the number of calls is not started again.
AdvanceOnce(i, calls, pool) ==
    IF Len(pool) <= 1 THEN <<i, calls>>
    ELSE IF calls + 1 = RotationCalls THEN <<(i + 1) % Len(pool), calls + 1>>
    ELSE <<i, calls + 1>>

Advance(i, calls, pool) ==
    IF Len(pool) <= 1 THEN <<i, calls>>
    ELSE IF calls + 1 >= RotationCalls THEN <<(i + 1) % Len(pool), 0>>
    ELSE <<i, calls + 1>>

Verification ==
    LET n == Len(Publics)
    IN  [i \in 1 .. n |-> Publics[InTurn(Publics, rotation.verify + i - 1)]] \o Customs \o Keyed

Dedicated ==
    LET ordered == LedBy(InTurn(Keyed, rotation.key), Keyed)
    IN  SubSeq(ordered, 1, IF MaxAttempts < Len(ordered) THEN MaxAttempts ELSE Len(ordered))

-----------------------------------------------------------------------------

\* baseRpcRequest and chainRpcRequest; the dedicated lane of a chain without
\* keys is the standard one.
BeginStandard(r, lane) ==
    /\ req[r] = Idle
    /\ lane = "standard" \/ (lane = "dedicated" /\ Keyed = <<>>)
    /\ LET next == Advance(rotation.public, rotation.calls, Publics)
       IN  rotation' = [rotation EXCEPT !.public = next[1], !.calls = next[2]]
    /\ LET order == Standard
       IN  req' = [req EXCEPT ![r] = [Idle EXCEPT !.lane = "standard", !.todo = Tail(order),
                                                  !.out = {Head(order)}]]

BeginVerification(r) ==
    /\ req[r] = Idle
    /\ rotation' = [rotation EXCEPT !.verify = (@ + 1) % Len(Publics)]
    /\ req' = [req EXCEPT ![r] = [Idle EXCEPT !.lane = "verification", !.todo = Tail(Verification),
                                              !.out = {Head(Verification)}]]

Hedged == IF Hedge < Len(Dedicated) THEN Hedge ELSE Len(Dedicated)

\* Faulty variant of Rest: the endpoint after the hedged ones is left out.
RestAfter(order, n) == SubSeq(order, n + 2, Len(order))

Rest(order, n) == SubSeq(order, n + 1, Len(order))

BeginDedicated(r) ==
    /\ req[r] = Idle /\ Keyed # <<>>
    /\ LET next == Advance(rotation.key, rotation.keyCalls, Keyed)
       IN  rotation' = [rotation EXCEPT !.key = next[1], !.keyCalls = next[2]]
    /\ LET first == IF Hedged > 1 THEN Hedged ELSE 1
       IN  req' = [req EXCEPT ![r] = [Idle EXCEPT !.lane = "dedicated", !.hedged = Hedged > 1,
                                          !.out = ToSet(SubSeq(Dedicated, 1, first)),
                                          !.todo = Rest(Dedicated, first)]]

-----------------------------------------------------------------------------
\* What a node answers

Running(r) == req[r].lane # "none" /\ req[r].verdict = "none"
Ends(r, verdict) == req' = [req EXCEPT ![r].verdict = verdict, ![r].out = {}]

\* The first result ends the request; the other hedged calls are aborted.
Result(r, e) == e \in req[r].out /\ Ends(r, "result")

\* Faulty variant of After: the failed endpoints are tried again and again.
AfterAgain(r, reverts, failures) ==
    IF reverts # {} THEN [req[r] EXCEPT !.out = {}, !.reverts = reverts, !.failures = failures, !.verdict = "revert"]
    ELSE LET order == req[r].todo \o SetToSeq(failures)
         IN  [req[r] EXCEPT !.out = {Head(order)}, !.todo = Tail(order), !.hedged = FALSE]

\* Every call that was out has ended without a result.
After(r, reverts, failures) ==
    IF reverts # {} THEN [req[r] EXCEPT !.out = {}, !.reverts = reverts, !.failures = failures, !.verdict = "revert"]
    ELSE IF req[r].todo = <<>>
    THEN [req[r] EXCEPT !.out = {}, !.failures = failures, !.verdict = "failed"]
    ELSE [req[r] EXCEPT !.out = {Head(req[r].todo)}, !.todo = Tail(req[r].todo), !.hedged = FALSE,
                        !.failures = failures]

NoResult(r, e, reverts, failures) ==
    req' = [req EXCEPT ![r] =
               IF req[r].out = {e} THEN After(r, reverts, failures)
               ELSE [req[r] EXCEPT !.out = req[r].out \ {e}, !.reverts = reverts,
                                   !.failures = failures]]

\* RpcDeterministicError: alone it ends the request, among hedged calls it is
\* kept in case that none of them succeeds.
Revert(r, e) ==
    /\ e \in req[r].out /\ NoResult(r, e, req[r].reverts \cup {e}, req[r].failures)

\* A timeout, an HTTP error, a malformed reply or an error of the node
Failure(r, e) ==
    /\ e \in req[r].out /\ NoResult(r, e, req[r].reverts, req[r].failures \cup {e})

Answer(r, e) == (Result(r, e) \/ Revert(r, e) \/ Failure(r, e)) /\ UNCHANGED rotation

\* The caller's signal
Abort(r) ==
    /\ Running(r)
    /\ Ends(r, IF req[r].reverts # {} THEN "revert" ELSE "aborted")
    /\ UNCHANGED rotation

RpcNext ==
    \E r \in Requests :
        \/ \E lane \in Lanes : BeginStandard(r, lane)
        \/ BeginVerification(r) \/ BeginDedicated(r) \/ Abort(r)
        \/ \E e \in Endpoints : Answer(r, e)

\* Every attempt has a timeout.
RpcSpec == /\ RpcInit /\ [][RpcNext]_vars
           /\ \A r \in Requests : WF_vars(\E e \in Endpoints : Answer(r, e))

-----------------------------------------------------------------------------

RpcTypeOK ==
    /\ rotation.public \in 0 .. Len(Publics) - 1 /\ rotation.verify \in 0 .. Len(Publics) - 1
    /\ rotation.calls \in 0 .. RotationCalls - 1 /\ rotation.keyCalls \in 0 .. RotationCalls - 1
    /\ rotation.key \in 0 .. Len(Keyed)
    /\ \A r \in Requests :
          /\ req[r].lane \in Lanes \cup {"none"} /\ req[r].verdict \in Verdicts
          /\ ToSet(req[r].todo) \cup req[r].out \cup req[r].reverts \cup req[r].failures
                \subseteq Endpoints
          /\ Running(r) <=> req[r].out # {}

\* "They only serve a request when every free endpoint has already failed it."
BackstopLast ==
    \A r \in Requests :
        req[r].lane \in {"standard", "verification"} /\ req[r].out \cap ToSet(Keyed) # {}
            => ToSet(Publics) \cup ToSet(Customs) \subseteq req[r].failures

\* A request gives up only after every endpoint of its lane has failed it,
\* hedged or not, and never when a node has said that the call reverts.
GivesUpLast ==
    \A r \in Requests : req[r].verdict = "failed" =>
        /\ req[r].reverts = {}
        /\ IF req[r].lane = "dedicated"
           THEN Cardinality(req[r].failures) = (IF MaxAttempts < Len(Keyed) THEN MaxAttempts ELSE Len(Keyed))
           ELSE req[r].failures = Endpoints

\* Every request ends.
RequestsEnd == \A r \in Requests : Running(r) ~> ~Running(r)
=============================================================================
