--------------------------- MODULE MulticallBatcher ---------------------------
(***************************************************************************)
(* The micro-batcher of eth_calls (apps/api/src/lib/multicallBatcher.ts)   *)
(* behind callContract: the queue of one chain with its flush timer, the   *)
(* aggregate3 calls under way, the gas canary, the fallback to direct      *)
(* calls and the breaker.  It implements DirectCalls.                      *)
(*                                                                         *)
(* A node that runs out of gas fails the sub-call it has reached and all   *)
(* that follow, the canary included.  The breaker is shared by all chains: *)
(* another chain may trip it.                                              *)
(***************************************************************************)
EXTENDS Naturals, Sequences, SequencesExt

CONSTANTS Calls,   \* eth_calls, each made once
          MaxBatch \* MAX_BATCH

ASSUME BatcherAssumption == MaxBatch \in Nat /\ MaxBatch > 1

VARIABLES
    contract, outcome, \* as in DirectCalls
    queue,   \* calls that wait for the next flush
    timer,   \* flushTimer is set
    batches, \* aggregate3 calls under way
    direct,  \* calls under way on their own
    breaker  \* the breaker is open

vars == <<contract, outcome, queue, timer, batches, direct, breaker>>

BatcherInit ==
    /\ contract \in [Calls -> {"data", "revert"}]
    /\ outcome = [c \in Calls |-> "none"]
    /\ queue = <<>> /\ timer = FALSE /\ batches = {} /\ direct = {} /\ breaker = FALSE

-----------------------------------------------------------------------------

\* executeBatch: a batch of one is sent on its own.
Flushed(items) ==
    /\ queue' = <<>> /\ timer' = FALSE
    /\ IF Len(items) = 1
       THEN direct' = direct \cup ToSet(items) /\ UNCHANGED batches
       ELSE batches' = batches \cup {items} /\ UNCHANGED direct

\* batchedEthCall: the last call of a full batch flushes it.
Enqueue(c) ==
    IF Len(queue) + 1 >= MaxBatch
    THEN Flushed(Append(queue, c))
    ELSE /\ queue' = Append(queue, c) /\ timer' = TRUE
         /\ UNCHANGED <<batches, direct>>

callContract(c) ==
    /\ outcome[c] = "none" /\ outcome' = [outcome EXCEPT ![c] = "asked"]
    /\ IF breaker
       THEN direct' = direct \cup {c} /\ UNCHANGED <<queue, timer, batches>>
       ELSE Enqueue(c)
    /\ UNCHANGED <<contract, breaker>>

\* Faulty variant of TimerFires: the queue is sent and not emptied.
TimerFiresTwice ==
    /\ timer /\ queue # <<>>
    /\ timer' = FALSE
    /\ IF Len(queue) = 1 THEN direct' = direct \cup ToSet(queue) /\ UNCHANGED batches
       ELSE batches' = batches \cup {queue} /\ UNCHANGED direct
    /\ UNCHANGED <<contract, outcome, queue, breaker>>

TimerFires ==
    /\ timer
    /\ IF queue = <<>> THEN timer' = FALSE /\ UNCHANGED <<queue, batches, direct>>
       ELSE Flushed(queue)
    /\ UNCHANGED <<contract, outcome, breaker>>

\* Sub-calls before the one where the gas ends: all of them and the canary
\* when starved = Len(items) + 2.
Reported(items, starved) ==
    [i \in DOMAIN items |-> IF i >= starved THEN "revert" ELSE contract[items[i]]]
Starved(items) == 1 .. Len(items) + 2
CanaryFails(items, starved) == starved <= Len(items) + 1

\* Faulty variant of BatchAnswers: the canary is not looked at.
BatchAnswersUnchecked(items, starved) ==
    /\ outcome' = [c \in Calls |-> IF c \in ToSet(items)
                                   THEN Reported(items, starved)[CHOOSE i \in DOMAIN items : items[i] = c]
                                   ELSE outcome[c]]
    /\ batches' = batches \ {items}
    /\ UNCHANGED <<contract, queue, timer, direct, breaker>>

BatchAnswers(items, starved) ==
    /\ ~CanaryFails(items, starved)
    /\ outcome' = [c \in Calls |-> IF c \in ToSet(items)
                                   THEN Reported(items, starved)[CHOOSE i \in DOMAIN items : items[i] = c]
                                   ELSE outcome[c]]
    /\ batches' = batches \ {items}
    /\ UNCHANGED <<contract, queue, timer, direct, breaker>>

\* The transport, the shape of the result or the canary: every call again, on
\* its own.
BatchFails(items) ==
    /\ batches' = batches \ {items} /\ breaker' = TRUE
    /\ direct' = direct \cup ToSet(items)
    /\ UNCHANGED <<contract, outcome, queue, timer>>

runDirect(c) ==
    /\ c \in direct /\ direct' = direct \ {c}
    /\ \E result \in {contract[c], "failed"} : outcome' = [outcome EXCEPT ![c] = result]
    /\ UNCHANGED <<contract, queue, timer, batches, breaker>>

OtherChainFails ==
    /\ ~breaker /\ breaker' = TRUE
    /\ UNCHANGED <<contract, outcome, queue, timer, batches, direct>>

CoolsOff ==
    /\ breaker /\ breaker' = FALSE
    /\ UNCHANGED <<contract, outcome, queue, timer, batches, direct>>

BatchEnds(items) == BatchFails(items) \/ \E starved \in Starved(items) : BatchAnswers(items, starved)

BatcherNext ==
    \/ \E c \in Calls : callContract(c) \/ runDirect(c)
    \/ TimerFires \/ OtherChainFails \/ CoolsOff
    \/ \E items \in batches : BatchEnds(items)

\* The timer fires, and requests have a timeout.
BatcherFairness ==
    /\ WF_vars(TimerFires)
    /\ \A c \in Calls : /\ WF_vars(runDirect(c))
                        /\ WF_vars(\E items \in batches : c \in ToSet(items) /\ BatchEnds(items))

BatcherSpec == BatcherInit /\ [][BatcherNext]_vars /\ BatcherFairness

-----------------------------------------------------------------------------

Under(c) == {place \in {"queue", "batch", "direct"} :
    \/ place = "queue" /\ c \in ToSet(queue)
    \/ place = "batch" /\ \E items \in batches : c \in ToSet(items)
    \/ place = "direct" /\ c \in direct}

BatcherTypeOK ==
    /\ queue \in Seq(Calls) /\ Len(queue) < MaxBatch
    /\ timer \in BOOLEAN /\ breaker \in BOOLEAN
    /\ \A items \in batches : items \in Seq(Calls) /\ Len(items) \in 2 .. MaxBatch
    /\ direct \subseteq Calls
    /\ outcome \in [Calls -> {"none", "asked", "data", "revert", "failed"}]

\* A call that waits for its answer is in exactly one place, and no other
\* call is anywhere: none is lost, sent twice or answered twice.
EachInOnePlace ==
    \A c \in Calls :
        IF outcome[c] = "asked"
        THEN \E place \in {"queue", "batch", "direct"} : Under(c) = {place}
        ELSE Under(c) = {}

\* SAFETY MODEL: "must never be worse than the direct path".  Batching answers
\* as direct calls do, a batch that was starved of gas included, and it
\* answers every call.
Direct == INSTANCE DirectCalls
ImplementsDirect == Direct!DirectSpec
=============================================================================
