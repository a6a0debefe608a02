--------------------------- MODULE OutgoingRequests ---------------------------
(***************************************************************************)
(* The three ways the API makes its outgoing requests: the micro-batcher   *)
(* of eth_calls, the governor of the quote providers and the dispatch of   *)
(* JSON-RPC requests.  They keep no state in common: one of them is active *)
(* in a behaviour and the others stay in their initial states, so that in  *)
(* a finite instance their states add up, and do not multiply.             *)
(***************************************************************************)
EXTENDS MulticallBatcher

CONSTANTS
    Callers, Keys, Deadlines, None,                     \* AggregatorGovernor
    MinInterval, MaxWait, CoolOff, ValueTTL, NoRouteTTL, LastCall, MaxTime,
    Publics, Customs, Keyed, Requests,                  \* RpcFailover
    RotationCalls, Hedge, MaxAttempts

VARIABLES
    active,             \* the component this behaviour is about
    now, nextSlotAt, breakerUntil, tail, released, cache, flight, call,
    lastAnswer,
    rotation, req

Governor == INSTANCE AggregatorGovernor
governorState == <<now, nextSlotAt, breakerUntil, tail, released, cache, flight, call, lastAnswer>>

Dispatch == INSTANCE RpcFailover
dispatchState == <<rotation, req>>

ASSUME RequestsAssumption == Governor!GovernorAssumption /\ Dispatch!RpcAssumption

RequestsInit ==
    /\ active \in {"batcher", "governor", "dispatch"}
    /\ BatcherInit /\ Governor!GovernorInit /\ Dispatch!RpcInit

BatcherRuns ==
    /\ active = "batcher" /\ BatcherNext
    /\ UNCHANGED <<active, governorState, dispatchState>>

GovernorRuns ==
    /\ active = "governor" /\ Governor!GovernorNext
    /\ UNCHANGED <<active, vars, dispatchState>>

DispatchRuns ==
    /\ active = "dispatch" /\ Dispatch!RpcNext
    /\ UNCHANGED <<active, vars, governorState>>

RequestsNext == BatcherRuns \/ GovernorRuns \/ DispatchRuns

\* The fairness of each component, for the one that is active.
RequestsFairness ==
    /\ WF_vars(active = "batcher" /\ TimerFires)
    /\ \A c \in Calls :
          /\ WF_vars(active = "batcher" /\ runDirect(c))
          /\ WF_vars(active = "batcher" /\ \E items \in batches : c \in ToSet(items) /\ BatchEnds(items))
    /\ WF_governorState(active = "governor" /\ Governor!Tick)
    /\ \A k \in Keys :
          /\ WF_governorState(active = "governor" /\ Governor!Turn(k))
          /\ WF_governorState(active = "governor" /\ Governor!Wake(k))
          /\ WF_governorState(active = "governor" /\ Governor!FetchEnds(k))
    /\ \A r \in Requests :
          WF_dispatchState(active = "dispatch" /\ \E e \in Dispatch!Endpoints : Dispatch!Answer(r, e))

RequestsSpec ==
    /\ RequestsInit /\ [][RequestsNext]_<<active, vars, governorState, dispatchState>>
    /\ RequestsFairness

-----------------------------------------------------------------------------

\* The types of the active component.
RequestsTypeOK ==
    CASE active = "batcher" -> BatcherTypeOK
      [] active = "governor" -> Governor!GovernorTypeOK
      [] active = "dispatch" -> Dispatch!RpcTypeOK

\* AggregatorGovernor: nobody is told of a route, or of none, that the provider
\* did not report a moment ago.
AnswersAreTheProviders == Governor!AnswersAreTheProviders

\* AggregatorGovernor: no call starts in a cool-off or too late.
StartsInTime == Governor!StartsInTime

\* RpcFailover: a request goes through its endpoints in order.  Paid ones serve what
\* every free one has failed, and it gives up only when all of them have failed it.
EndpointsInOrder == Dispatch!BackstopLast /\ Dispatch!GivesUpLast

\* AggregatorGovernor and RpcFailover: whoever waits gets an answer, whatever
\* is skipped, fails or throws before.
EveryRequestAnswered == Governor!EveryCallAnswered /\ Dispatch!RequestsEnd

=============================================================================
