---------------------------- MODULE RequestsProofs ----------------------------
(***************************************************************************)
(* OutgoingRequests for any calls, callers, keys, deadlines, intervals,    *)
(* endpoints and numbers of requests: the safety of the batcher, of the    *)
(* governor and of the dispatch, and that batching implements direct calls *)
(* up to liveness.                                                         *)
(***************************************************************************)
EXTENDS OutgoingRequests, FiniteSetTheorems, SequenceTheorems, TLAPS

-----------------------------------------------------------------------------
\* The batcher

\* A call is in one batch only; with EachInOnePlace that is what makes the answer of a
\* batch the only one its calls get.
BatchesDisjoint ==
    \A one, other \in batches : ToSet(one) \cap ToSet(other) # {} => one = other

BatcherInv ==
    /\ contract \in [Calls -> {"data", "revert"}]
    /\ BatcherTypeOK /\ EachInOnePlace /\ BatchesDisjoint

\* A sequence that is neither empty nor of one element.
LEMMA LongerThanOne ==
  ASSUME NEW S, NEW seq \in Seq(S), NEW most \in Nat, Len(seq) \in 1 .. most, Len(seq) # 1
  PROVE  Len(seq) \in 2 .. most
<1> DEFINE n == Len(seq)
<1>1. n \in Nat /\ n \in 1 .. most /\ n # 1
  OBVIOUS
<1> HIDE DEF n
<1>2. n \in 2 .. most
  BY <1>1
<1> QED
  BY <1>2 DEF n

\* The elements of a sequence, and of one with another element at its end.
LEMMA Elements ==
  ASSUME NEW S, NEW seq \in Seq(S)
  PROVE  /\ ToSet(seq) \subseteq S
         /\ \A e : e \in ToSet(seq) <=> \E i \in 1 .. Len(seq) : seq[i] = e
BY LenProperties DEF ToSet

LEMMA ElementsOfAppend ==
  ASSUME NEW S, NEW seq \in Seq(S), NEW last \in S
  PROVE  ToSet(Append(seq, last)) = ToSet(seq) \cup {last}
<1> DEFINE longer == Append(seq, last)
<1>1. /\ longer \in Seq(S) /\ Len(longer) = Len(seq) + 1
      /\ \A i \in 1 .. Len(seq) : longer[i] = seq[i]
      /\ longer[Len(seq) + 1] = last
  BY AppendProperties
<1>2. Len(seq) \in Nat
  OBVIOUS
<1> HIDE DEF longer
<1>3. \A e : e \in ToSet(seq) <=> \E i \in 1 .. Len(seq) : seq[i] = e
  BY Elements
<1>4. \A e : e \in ToSet(longer) <=> \E i \in 1 .. Len(longer) : longer[i] = e
  BY <1>1, Elements
<1>5. ASSUME NEW e \in ToSet(seq) PROVE e \in ToSet(longer)
  BY <1>1, <1>2, <1>3, <1>4
<1>6. last \in ToSet(longer)
  BY <1>1, <1>2, <1>4
<1>7. ASSUME NEW e \in ToSet(longer), e # last PROVE e \in ToSet(seq)
  <2>1. PICK i \in 1 .. Len(longer) : longer[i] = e
    BY <1>4
  <2>2. i \in 1 .. Len(seq)
    BY <1>1, <1>2, <1>7, <2>1
  <2> QED
    BY <1>1, <1>3, <2>1, <2>2
<1> QED
  BY <1>5, <1>6, <1>7 DEF longer

\* Where a call is, one place at a time.
Queued(c) == c \in ToSet(queue)
Batched(c) == \E items \in batches : c \in ToSet(items)
Alone(c) == c \in direct

Somewhere(c) == Queued(c) \/ Batched(c) \/ Alone(c)
Twice(c) ==
    \/ Queued(c) /\ Batched(c)
    \/ Queued(c) /\ Alone(c)
    \/ Batched(c) /\ Alone(c)
Placed == \A c \in Calls : (outcome[c] = "asked" <=> Somewhere(c)) /\ ~Twice(c)

LEMMA PlaceOfACall == EachInOnePlace <=> Placed
<1>1. \A c \in Calls : /\ "queue" \in Under(c) <=> Queued(c)
                       /\ "batch" \in Under(c) <=> Batched(c)
                       /\ "direct" \in Under(c) <=> Alone(c)
                       /\ Under(c) \subseteq {"queue", "batch", "direct"}
  BY DEF Under, Queued, Batched, Alone
<1>2. ASSUME NEW c \in Calls
      PROVE  /\ (\E place \in {"queue", "batch", "direct"} : Under(c) = {place})
                <=> Somewhere(c) /\ ~Twice(c)
             /\ Under(c) = {} <=> ~Somewhere(c)
             /\ ~Somewhere(c) => ~Twice(c)
  BY <1>1 DEF Somewhere, Twice
<1> QED
  BY <1>1, <1>2 DEF EachInOnePlace, Placed

LEMMA BatcherStarts == BatcherInit => BatcherInv
<1> SUFFICES ASSUME BatcherInit PROVE BatcherInv
  OBVIOUS
<1> USE DEF BatcherInit
<1>1. BatcherTypeOK
  <2>1. queue \in Seq(Calls) /\ Len(queue) = 0
    OBVIOUS
  <2>2. Len(queue) < MaxBatch
    BY <2>1, BatcherAssumption
  <2> QED
    BY <2>1, <2>2 DEF BatcherTypeOK
<1>2. EachInOnePlace
  BY PlaceOfACall DEF Placed, Somewhere, Twice, Queued, Batched, Alone, ToSet
<1> QED
  BY <1>1, <1>2 DEF BatcherInv, BatchesDisjoint

\* A queue without the calls that were asked before, or with one more, is sent off.
LEMMA FlushedKeeps ==
  ASSUME BatcherInv, NEW items \in Seq(Calls), Len(items) \in 1 .. MaxBatch, Flushed(items),
         UNCHANGED <<contract, breaker>>,
         outcome' \in [Calls -> {"none", "asked", "data", "revert", "failed"}],
         \A c \in ToSet(items) : ~Batched(c) /\ ~Alone(c),
         \A c \in Calls : outcome'[c] = "asked" <=> c \in ToSet(items) \/ Batched(c) \/ Alone(c)
  PROVE  BatcherInv'
<1> USE DEF BatcherInv, Flushed
<1>0. /\ ToSet(items) \subseteq Calls /\ ToSet(<<>>) = {} /\ Len(<<>>) = 0 /\ <<>> \in Seq(Calls)
      /\ ToSet(items) # {} /\ MaxBatch \in Nat /\ MaxBatch > 1 /\ Len(items) \in Nat
  BY BatcherAssumption DEF ToSet
<1>1. BatcherTypeOK'
  <2>0. queue' \in Seq(Calls) /\ Len(queue') = 0
    BY <1>0
  <2>3. Len(queue') < MaxBatch
    BY <2>0, <1>0
  <2>1. CASE Len(items) = 1
    BY <1>0, <2>0, <2>1, <2>3 DEF BatcherTypeOK
  <2>2. CASE Len(items) # 1
    <3>1. Len(items) \in 2 .. MaxBatch
      BY <2>2, <1>0, LongerThanOne
    <3>2. \A other \in batches' : other \in Seq(Calls) /\ Len(other) \in 2 .. MaxBatch
      BY <2>2, <3>1 DEF BatcherTypeOK
    <3> QED
      BY <1>0, <2>0, <2>2, <2>3, <3>2 DEF BatcherTypeOK
  <2> QED
    BY <2>1, <2>2
<1>2. EachInOnePlace'
  <2>0. Placed
    BY PlaceOfACall
  <2> SUFFICES ASSUME NEW c \in Calls
               PROVE  ((outcome[c] = "asked" <=> Somewhere(c)) /\ ~Twice(c))'
    <3>1. EachInOnePlace' <=> Placed'
      BY PlaceOfACall, PTL
    <3> QED
      BY <3>1 DEF Placed
  <2>1. ~Queued(c)'
    BY <1>0 DEF Queued
  <2>2. ~(Batched(c) /\ Alone(c)) /\ (c \in ToSet(items) => ~Batched(c) /\ ~Alone(c))
    BY <2>0 DEF Placed, Twice
  <2>3. CASE Len(items) = 1
    <3>1. Alone(c)' <=> Alone(c) \/ c \in ToSet(items)
      BY <2>3 DEF Alone
    <3>2. Batched(c)' <=> Batched(c)
      BY <2>3 DEF Batched
    <3> QED
      BY <2>1, <2>2, <3>1, <3>2 DEF Somewhere, Twice
  <2>4. CASE Len(items) # 1
    <3>1. Alone(c)' <=> Alone(c)
      BY <2>4 DEF Alone
    <3>2. Batched(c)' <=> Batched(c) \/ c \in ToSet(items)
      BY <2>4 DEF Batched
    <3> QED
      BY <2>1, <2>2, <3>1, <3>2 DEF Somewhere, Twice
  <2> QED
    BY <2>3, <2>4
<1>3. BatchesDisjoint'
  BY <1>0 DEF BatchesDisjoint, Batched
<1> QED
  BY <1>1, <1>2, <1>3

LEMMA CallKeeps ==
  ASSUME BatcherInv, NEW c \in Calls, callContract(c)
  PROVE  BatcherInv'
<1> USE DEF BatcherInv, callContract
<1>0. /\ ~Somewhere(c) /\ Placed
      /\ outcome' \in [Calls -> {"none", "asked", "data", "revert", "failed"}]
      /\ \A d \in Calls : outcome'[d] = "asked" <=> outcome[d] = "asked" \/ d = c
      /\ MaxBatch \in Nat /\ MaxBatch > 1
  BY PlaceOfACall, BatcherAssumption DEF Placed, BatcherTypeOK
<1>1. CASE breaker
  <2>1. BatcherTypeOK'
    BY <1>1, <1>0 DEF BatcherTypeOK
  <2>2. Placed'
    <3> SUFFICES ASSUME NEW d \in Calls
                 PROVE  ((outcome[d] = "asked" <=> Somewhere(d)) /\ ~Twice(d))'
      BY DEF Placed
    <3>1. Queued(d)' <=> Queued(d)
      BY <1>1 DEF Queued
    <3>2. Batched(d)' <=> Batched(d)
      BY <1>1 DEF Batched
    <3>3. Alone(d)' <=> Alone(d) \/ d = c
      BY <1>1 DEF Alone
    <3> QED
      BY <1>0, <3>1, <3>2, <3>3 DEF Placed, Somewhere, Twice
  <2>3. EachInOnePlace' <=> Placed'
    BY PlaceOfACall, PTL
  <2> QED
    BY <1>1, <2>1, <2>2, <2>3 DEF BatchesDisjoint
<1>2. CASE ~breaker
  <2> DEFINE longer == Append(queue, c)
  <2>1. /\ longer \in Seq(Calls) /\ Len(longer) = Len(queue) + 1 /\ Len(queue) \in Nat
        /\ ToSet(longer) = ToSet(queue) \cup {c} /\ queue \in Seq(Calls)
        /\ Len(queue) < MaxBatch
    <3>1. queue \in Seq(Calls) /\ Len(queue) < MaxBatch
      BY DEF BatcherTypeOK
    <3>2. ToSet(longer) = ToSet(queue) \cup {c}
      BY <3>1, ElementsOfAppend
    <3> QED
      BY <3>1, <3>2
  <2>2. CASE Len(queue) + 1 >= MaxBatch
    <3>1. Flushed(longer) /\ UNCHANGED <<contract, breaker>>
      BY <1>2, <2>2 DEF Enqueue
    <3>2. \A d \in ToSet(longer) : ~Batched(d) /\ ~Alone(d)
      BY <1>0, <2>1 DEF Placed, Somewhere, Twice, Queued, ToSet
    <3>3. \A d \in Calls : outcome'[d] = "asked" <=> d \in ToSet(longer) \/ Batched(d) \/ Alone(d)
      BY <1>0, <2>1 DEF Placed, Somewhere, Queued
    <3>4. Len(longer) \in 1 .. MaxBatch
      BY <2>1, <1>0
    <3> HIDE DEF longer
    <3> QED
      BY <3>1, <3>2, <3>3, <3>4, <2>1, <1>0, FlushedKeeps
  <2>3. CASE ~(Len(queue) + 1 >= MaxBatch)
    <3>0. queue' = longer /\ timer' = TRUE /\ UNCHANGED <<batches, direct, contract, breaker>>
      BY <1>2, <2>3 DEF Enqueue
    <3>1. BatcherTypeOK'
      BY <3>0, <2>1, <2>3, <1>0 DEF BatcherTypeOK
    <3>2. Placed'
      <4> SUFFICES ASSUME NEW d \in Calls
                   PROVE  ((outcome[d] = "asked" <=> Somewhere(d)) /\ ~Twice(d))'
        BY DEF Placed
      <4>1. Queued(d)' <=> Queued(d) \/ d = c
        BY <3>0, <2>1 DEF Queued
      <4>2. Batched(d)' <=> Batched(d)
        BY <3>0 DEF Batched
      <4>3. Alone(d)' <=> Alone(d)
        BY <3>0 DEF Alone
      <4> QED
        BY <1>0, <4>1, <4>2, <4>3 DEF Placed, Somewhere, Twice
    <3>3. EachInOnePlace' <=> Placed'
      BY PlaceOfACall, PTL
    <3> QED
      BY <3>0, <3>1, <3>2, <3>3 DEF BatchesDisjoint
  <2> QED
    BY <2>2, <2>3
<1> QED
  BY <1>1, <1>2

LEMMA TimerKeeps ==
  ASSUME BatcherInv, TimerFires
  PROVE  BatcherInv'
<1> USE DEF BatcherInv, TimerFires
<1>0. /\ Placed /\ queue \in Seq(Calls) /\ Len(queue) \in Nat /\ Len(queue) < MaxBatch
      /\ MaxBatch \in Nat
  BY PlaceOfACall, BatcherAssumption DEF BatcherTypeOK
<1>1. CASE queue = <<>>
  <2>1. EachInOnePlace'
    BY <1>1 DEF EachInOnePlace, Under
  <2>2. BatcherTypeOK'
    BY <1>1 DEF BatcherTypeOK
  <2> QED
    BY <1>1, <2>1, <2>2 DEF BatchesDisjoint
<1>2. CASE queue # <<>>
  <2>1. Len(queue) \in 1 .. MaxBatch /\ ToSet(queue) \subseteq Calls
    BY <1>0, <1>2 DEF ToSet
  <2>2. \A d \in ToSet(queue) : ~Batched(d) /\ ~Alone(d)
    BY <1>0, <2>1 DEF Placed, Twice, Queued
  <2>3. \A d \in Calls : outcome'[d] = "asked" <=> d \in ToSet(queue) \/ Batched(d) \/ Alone(d)
    BY <1>0 DEF Placed, Somewhere, Queued
  <2>4. outcome' \in [Calls -> {"none", "asked", "data", "revert", "failed"}]
    BY DEF BatcherTypeOK
  <2> QED
    BY <1>0, <1>2, <2>1, <2>2, <2>3, <2>4, FlushedKeeps
<1> QED
  BY <1>1, <1>2

\* Answers and failures: calls leave a batch, or the direct calls, for good, or for the
\* direct calls.
LEMMA BatchFailsKeeps ==
  ASSUME BatcherInv, NEW items \in batches, BatchFails(items)
  PROVE  BatcherInv'
<1> USE DEF BatcherInv, BatchFails
<1>1. BatcherTypeOK'
  BY DEF BatcherTypeOK, ToSet
<1>2. Placed
  BY PlaceOfACall
<1>3. Placed'
  <2> SUFFICES ASSUME NEW d \in Calls
               PROVE  ((outcome[d] = "asked" <=> Somewhere(d)) /\ ~Twice(d))'
    BY DEF Placed
  <2>1. Queued(d)' <=> Queued(d)
    BY DEF Queued
  <2>2. Batched(d)' <=> Batched(d) /\ d \notin ToSet(items)
    BY DEF Batched, BatchesDisjoint
  <2>3. Alone(d)' <=> Alone(d) \/ d \in ToSet(items)
    BY DEF Alone
  <2>4. d \in ToSet(items) => Batched(d)
    BY DEF Batched
  <2> QED
    BY <1>2, <2>1, <2>2, <2>3, <2>4 DEF Placed, Somewhere, Twice
<1>4. EachInOnePlace' <=> Placed'
  BY PlaceOfACall, PTL
<1> QED
  BY <1>1, <1>3, <1>4 DEF BatchesDisjoint

\* What a batch that was not starved reports is what the contracts return.
LEMMA AnswersOfABatch ==
  ASSUME BatcherInv, NEW items \in batches, NEW starved \in Starved(items),
         BatchAnswers(items, starved)
  PROVE  outcome' = [c \in Calls |-> IF c \in ToSet(items) THEN contract[c] ELSE outcome[c]]
<1> USE DEF BatcherInv, BatchAnswers
<1>1. items \in Seq(Calls) /\ Len(items) \in Nat
  BY DEF BatcherTypeOK
<1>2. starved \in Nat /\ starved > Len(items)
  BY <1>1 DEF Starved, CanaryFails
<1>3. ASSUME NEW c \in ToSet(items)
      PROVE  Reported(items, starved)[CHOOSE i \in DOMAIN items : items[i] = c] = contract[c]
  <2> DEFINE i == CHOOSE i \in DOMAIN items : items[i] = c
  <2>1. i \in DOMAIN items /\ items[i] = c
    BY <1>3 DEF ToSet
  <2> HIDE DEF i
  <2>2. ~(i >= starved)
    BY <1>1, <1>2, <2>1
  <2>3. Reported(items, starved)[i] = contract[c]
    BY <2>1, <2>2 DEF Reported
  <2> QED
    BY <2>3 DEF i
<1> QED
  BY <1>3

LEMMA BatchAnswersKeeps ==
  ASSUME BatcherInv, NEW items \in batches, NEW starved \in Starved(items),
         BatchAnswers(items, starved)
  PROVE  BatcherInv'
<1> USE DEF BatcherInv
<1>0. /\ outcome' = [c \in Calls |-> IF c \in ToSet(items) THEN contract[c] ELSE outcome[c]]
      /\ batches' = batches \ {items} /\ UNCHANGED <<contract, queue, timer, direct, breaker>>
  BY AnswersOfABatch DEF BatchAnswers
<1>1. BatcherTypeOK'
  BY <1>0 DEF BatcherTypeOK
<1>2. Placed
  BY PlaceOfACall
<1>3. Placed'
  <2> SUFFICES ASSUME NEW d \in Calls
               PROVE  ((outcome[d] = "asked" <=> Somewhere(d)) /\ ~Twice(d))'
    BY DEF Placed
  <2>1. Queued(d)' <=> Queued(d)
    BY <1>0 DEF Queued
  <2>2. Batched(d)' <=> Batched(d) /\ d \notin ToSet(items)
    BY <1>0 DEF Batched, BatchesDisjoint
  <2>3. Alone(d)' <=> Alone(d)
    BY <1>0 DEF Alone
  <2>4. d \in ToSet(items) => Batched(d)
    BY DEF Batched
  <2>5. outcome'[d] = "asked" <=> outcome[d] = "asked" /\ d \notin ToSet(items)
    BY <1>0
  <2> QED
    BY <1>2, <2>1, <2>2, <2>3, <2>4, <2>5 DEF Placed, Somewhere, Twice
<1>4. EachInOnePlace' <=> Placed'
  BY PlaceOfACall, PTL
<1> QED
  BY <1>0, <1>1, <1>3, <1>4 DEF BatchesDisjoint

LEMMA DirectKeeps ==
  ASSUME BatcherInv, NEW c \in Calls, runDirect(c)
  PROVE  BatcherInv'
<1> USE DEF BatcherInv
<1>1. PICK result \in {contract[c], "failed"} : outcome' = [outcome EXCEPT ![c] = result]
  BY DEF runDirect
<1>2. /\ direct' = direct \ {c} /\ c \in direct
      /\ UNCHANGED <<contract, queue, timer, batches, breaker>>
  BY DEF runDirect
<1>3. BatcherTypeOK'
  BY <1>1, <1>2 DEF BatcherTypeOK
<1>4. Placed
  BY PlaceOfACall
<1>5. Placed'
  <2> SUFFICES ASSUME NEW d \in Calls
               PROVE  ((outcome[d] = "asked" <=> Somewhere(d)) /\ ~Twice(d))'
    BY DEF Placed
  <2>1. (Queued(d)' <=> Queued(d)) /\ (Batched(d)' <=> Batched(d))
    BY <1>2 DEF Queued, Batched
  <2>2. (Alone(d)' <=> Alone(d) /\ d # c) /\ Alone(c)
    BY <1>2 DEF Alone
  <2>3. outcome'[d] = "asked" <=> outcome[d] = "asked" /\ d # c
    BY <1>1 DEF BatcherTypeOK
  <2> QED
    BY <1>4, <2>1, <2>2, <2>3 DEF Placed, Somewhere, Twice
<1>6. EachInOnePlace' <=> Placed'
  BY PlaceOfACall, PTL
<1> QED
  BY <1>2, <1>3, <1>5, <1>6 DEF BatchesDisjoint

LEMMA BatcherKeeps == BatcherInv /\ [BatcherNext]_vars => BatcherInv'
<1> SUFFICES ASSUME BatcherInv, [BatcherNext]_vars PROVE BatcherInv'
  OBVIOUS
<1>1. CASE \E c \in Calls : callContract(c)
  BY <1>1, CallKeeps
<1>2. CASE \E c \in Calls : runDirect(c)
  BY <1>2, DirectKeeps
<1>3. CASE TimerFires
  BY <1>3, TimerKeeps
<1>4. CASE OtherChainFails \/ CoolsOff
  BY <1>4 DEF OtherChainFails, CoolsOff, BatcherInv, BatcherTypeOK, EachInOnePlace, Under, BatchesDisjoint
<1>5. CASE \E items \in batches : BatchEnds(items)
  BY <1>5, BatchFailsKeeps, BatchAnswersKeeps DEF BatchEnds
<1>6. CASE UNCHANGED vars
  BY <1>6 DEF vars, BatcherInv, BatcherTypeOK, EachInOnePlace, Under, BatchesDisjoint
<1> QED
  BY <1>1, <1>2, <1>3, <1>4, <1>5, <1>6 DEF BatcherNext

\* Every step of the batcher is a step of direct calls, or changes nothing that a caller
\* sees: a batch that is answered settles its calls with what their contracts return.
LEMMA BatcherImplements ==
  BatcherInv /\ [BatcherNext]_vars => [Direct!DirectNext]_(Direct!directVars)
<1> SUFFICES ASSUME BatcherInv, [BatcherNext]_vars, ~UNCHANGED <<contract, outcome>>
             PROVE  Direct!DirectNext
  BY DEF Direct!directVars
<1>0. /\ outcome \in [Calls -> {"none", "asked", "data", "revert", "failed"}]
      /\ contract \in [Calls -> {"data", "revert"}] /\ Placed
  BY PlaceOfACall DEF BatcherInv, BatcherTypeOK
<1>1. CASE \E c \in Calls : callContract(c)
  BY <1>1 DEF callContract, Direct!DirectNext, Direct!Ask
<1>2. ASSUME NEW c \in Calls, runDirect(c) PROVE Direct!DirectNext
  <2>1. PICK result \in {contract[c], "failed"} : outcome' = [outcome EXCEPT ![c] = result]
    BY <1>2 DEF runDirect
  <2>2. UNCHANGED contract /\ outcome[c] = "asked"
    BY <1>0, <1>2 DEF runDirect, Placed, Somewhere, Alone
  <2>3. \E failed \in SUBSET {c} :
           outcome' = [d \in Calls |-> IF d \notin {c} THEN outcome[d]
                                       ELSE IF d \in failed THEN "failed" ELSE contract[d]]
    <3>1. CASE result = "failed"
      BY <1>0, <2>1, <3>1, {c} \in SUBSET {c}
    <3>2. CASE result = contract[c]
      BY <1>0, <2>1, <3>2, {} \in SUBSET {c}
    <3> QED
      BY <3>1, <3>2
  <2>4. Direct!Settle({c})
    BY <2>2, <2>3 DEF Direct!Settle
  <2> QED
    BY <2>4 DEF Direct!DirectNext
<1>3. ASSUME NEW items \in batches, NEW starved \in Starved(items), BatchAnswers(items, starved)
      PROVE  Direct!DirectNext
  <2>1. /\ outcome' = [c \in Calls |-> IF c \in ToSet(items) THEN contract[c] ELSE outcome[c]]
        /\ UNCHANGED contract
    BY <1>3, AnswersOfABatch DEF BatchAnswers
  <2>2. ToSet(items) \subseteq Calls
    BY Elements DEF BatcherInv, BatcherTypeOK
  <2>3. \A c \in ToSet(items) : outcome[c] = "asked"
    BY <1>0, <2>2 DEF Placed, Somewhere, Batched
  <2>4. outcome' = [c \in Calls |-> IF c \notin ToSet(items) THEN outcome[c]
                                    ELSE IF c \in {} THEN "failed" ELSE contract[c]]
    BY <2>1
  <2>5. Direct!Settle(ToSet(items))
    BY <2>1, <2>3, <2>4, {} \in SUBSET ToSet(items) DEF Direct!Settle
  <2> QED
    BY <2>2, <2>5 DEF Direct!DirectNext
<1> QED
  BY <1>1, <1>2, <1>3 DEF BatcherNext, TimerFires, Flushed, OtherChainFails, CoolsOff, BatchEnds,
     BatchFails, vars

-----------------------------------------------------------------------------
\* The governor

\* Turns are released in the order of the tickets, the tickets of the calls in flight are
\* theirs alone and not yet released, and who has left the queue had its turn.
TurnsInOrder ==
    /\ \A n \in released : 0 .. n \subseteq released
    /\ \A k \in Keys : flight[k] # None =>
          /\ flight[k].ticket \notin released
          /\ flight[k].at # "queued" => Governor!MyTurn(k)
          /\ \A j \in Keys : flight[j] # None /\ flight[j].ticket = flight[k].ticket => j = k

\* What is cached is what the provider said last, until its lifetime ends.
Remembered ==
    \A k \in Keys : cache[k] # None =>
        /\ lastAnswer[k] # None /\ cache[k].value = lastAnswer[k].value
        /\ cache[k].until = lastAnswer[k].at + Governor!Lifetime(cache[k].value)

\* Who waits was told nothing, and who was told an answer was told a fresh one.
ToldInTime ==
    \A c \in Callers :
        /\ call[c].result = None => call[c].age = 0
        /\ call[c].result \in Governor!Answers =>
              call[c].age < Governor!Lifetime(call[c].result)

GovernorInv == Governor!GovernorTypeOK /\ TurnsInOrder /\ Remembered /\ ToldInTime

\* What the assumptions say of the constants of the governor.
LEMMA GovernorConstants ==
  /\ MinInterval \in Nat /\ MaxWait \in Nat /\ CoolOff \in Nat /\ MaxTime \in Nat
  /\ Deadlines \subseteq Nat
  /\ None \notin Keys /\ None \notin Governor!Results /\ None \notin Governor!Cached
  /\ None \notin Governor!Said /\ None \notin Governor!Flight
  /\ Governor!Answers \subseteq Governor!Results /\ "skipped" \in Governor!Results
  /\ "error" \in Governor!Results
  /\ \A value \in Governor!Answers :
        Governor!Lifetime(value) \in Nat /\ Governor!Lifetime(value) > 0
BY RequestsAssumption
   DEF Governor!GovernorAssumption, Governor!Answers, Governor!Results, Governor!Lifetime

LEMMA GovernorStarts == Governor!GovernorInit => GovernorInv
<1> SUFFICES ASSUME Governor!GovernorInit PROVE GovernorInv
  OBVIOUS
<1> USE GovernorConstants DEF Governor!GovernorInit
<1>1. Governor!GovernorTypeOK
  BY DEF Governor!GovernorTypeOK
<1>2. TurnsInOrder /\ Remembered
  BY DEF TurnsInOrder, Remembered
<1>3. ToldInTime
  BY DEF ToldInTime
<1> QED
  BY <1>1, <1>2, <1>3 DEF GovernorInv

\* A flight is a flight, and what a call was told a result.
LEMMA FlightOf ==
  ASSUME Governor!GovernorTypeOK, NEW k \in Keys, flight[k] # None
  PROVE  /\ flight[k] \in Governor!Flight /\ flight[k].ticket \in 1 .. tail
         /\ flight[k].ticket \in Nat /\ tail \in Nat
BY DEF Governor!GovernorTypeOK, Governor!Flight

\* "per-provider serial queue": a turn is the turn of one key only.
LEMMA OneTurn ==
  ASSUME GovernorInv, NEW j \in Keys, NEW k \in Keys, flight[j] # None, flight[k] # None,
         Governor!MyTurn(j), Governor!MyTurn(k)
  PROVE  j = k
<1> DEFINE tj == flight[j].ticket
           tk == flight[k].ticket
<1>1. tj \in Nat /\ tk \in Nat /\ tj > 0 /\ tk > 0
  BY FlightOf DEF GovernorInv
<1>2. tj \notin released /\ tk \notin released /\ (tj = tk => j = k)
  BY DEF GovernorInv, TurnsInOrder
<1>3. 0 .. tj - 1 \subseteq released /\ 0 .. tk - 1 \subseteq released
  BY DEF GovernorInv, TurnsInOrder, Governor!MyTurn
<1> HIDE DEF tj, tk
<1>4. ~(tj < tk) /\ ~(tk < tj)
  BY <1>1, <1>2, <1>3
<1> QED
  BY <1>1, <1>2, <1>4

\* The outcome of a flight, whatever it is, whose turn it was: its turn is released.
LEMMA SettledKeeps ==
  ASSUME GovernorInv, NEW k \in Keys, flight[k] # None, Governor!MyTurn(k),
         NEW result \in Governor!Results, Governor!Settled(k, result), Governor!Release(k),
         UNCHANGED <<nextSlotAt, tail>>
  PROVE  /\ TurnsInOrder' /\ ToldInTime' /\ released' \subseteq 0 .. tail'
         /\ flight' \in [Keys -> Governor!Flight \cup {None}]
         /\ call' \in [Callers -> [key : Keys \cup {None}, result : Governor!Results \cup {None},
                                   age : Int]]
         /\ \A j \in Keys : flight'[j] # None =>
               /\ flight'[j].ticket \in 1 .. tail'
               /\ flight'[j].projected + MinInterval <= nextSlotAt'
<1> USE DEF GovernorInv, Governor!Settled, Governor!Release
<1> DEFINE t == flight[k].ticket
<1>1. /\ t \in 1 .. tail /\ t \in Nat /\ tail \in Nat /\ released \subseteq 0 .. tail
      /\ t \notin released /\ t - 1 \in released
      /\ released' = released \cup {t} /\ tail' = tail /\ nextSlotAt' = nextSlotAt
  BY FlightOf DEF Governor!GovernorTypeOK, TurnsInOrder, Governor!MyTurn
<1>2. /\ flight \in [Keys -> Governor!Flight \cup {None}]
      /\ flight' \in [Keys -> Governor!Flight \cup {None}]
      /\ \A j \in Keys : flight'[j] = IF j = k THEN None ELSE flight[j]
  BY DEF Governor!GovernorTypeOK
<1>3. released' \subseteq 0 .. tail'
  BY <1>1
<1>4. \A j \in Keys : flight'[j] # None =>
         /\ flight'[j].ticket \in 1 .. tail'
         /\ flight'[j].projected + MinInterval <= nextSlotAt'
  BY <1>1, <1>2 DEF Governor!GovernorTypeOK
<1>5. call' \in [Callers -> [key : Keys \cup {None}, result : Governor!Results \cup {None},
                            age : Int]]
  BY DEF Governor!GovernorTypeOK
<1>6. TurnsInOrder'
  <2>1. ASSUME NEW n \in released' PROVE 0 .. n \subseteq released'
    <3>1. CASE n \in released
      BY <1>1, <3>1 DEF TurnsInOrder
    <3>2. CASE n = t
      <4>1. 0 .. t - 1 \subseteq released
        BY <1>1 DEF TurnsInOrder
      <4> HIDE DEF t
      <4> QED
        BY <1>1, <3>2, <4>1
    <3> QED
      BY <1>1, <3>1, <3>2
  <2>2. ASSUME NEW j \in Keys, flight'[j] # None
        PROVE  /\ flight'[j].ticket \notin released'
               /\ flight'[j].at # "queued" => Governor!MyTurn(j)'
               /\ \A i \in Keys : flight'[i] # None /\ flight'[i].ticket = flight'[j].ticket
                                 => i = j
    BY <1>1, <1>2, <2>2 DEF TurnsInOrder, Governor!MyTurn
  <2> QED
    BY <2>1, <2>2 DEF TurnsInOrder
<1>7. ToldInTime'
  <2> SUFFICES ASSUME NEW c \in Callers
               PROVE  /\ call'[c].result = None => call'[c].age = 0
                      /\ call'[c].result \in Governor!Answers =>
                            call'[c].age < Governor!Lifetime(call'[c].result)
    BY DEF ToldInTime, Governor!Lifetime
  <2>0. call[c] \in [key : Keys \cup {None}, result : Governor!Results \cup {None}, age : Int]
    BY DEF Governor!GovernorTypeOK
  <2>1. CASE Governor!Waiting(c) /\ call[c].key = k
    <3>1. call'[c] = [call[c] EXCEPT !.result = result]
      BY <2>1
    <3>2. call'[c].result = result /\ call'[c].age = call[c].age /\ call[c].age = 0
      BY <2>0, <2>1, <3>1 DEF ToldInTime, Governor!Waiting
    <3> QED
      BY <3>2, GovernorConstants
  <2>2. CASE ~(Governor!Waiting(c) /\ call[c].key = k)
    BY <2>2 DEF ToldInTime
  <2> QED
    BY <2>1, <2>2
<1> QED
  BY <1>2, <1>3, <1>4, <1>5, <1>6, <1>7

\* A flight that goes on, to its slot or to the provider.
LEMMA GoesOnKeeps ==
  ASSUME GovernorInv, NEW k \in Keys, flight[k] # None, Governor!MyTurn(k),
         NEW place \in {"sleep", "fetch"}, flight' = [flight EXCEPT ![k].at = place],
         UNCHANGED <<now, nextSlotAt, breakerUntil, tail, released, cache, call, lastAnswer>>
  PROVE  GovernorInv'
<1> USE DEF GovernorInv
<1>1. flight[k] \in Governor!Flight
  BY FlightOf
<1>2. /\ flight \in [Keys -> Governor!Flight \cup {None}]
      /\ flight' \in [Keys -> Governor!Flight \cup {None}]
      /\ \A j \in Keys : j # k => flight'[j] = flight[j]
      /\ flight'[k] # None /\ flight'[k].ticket = flight[k].ticket
      /\ flight'[k].projected = flight[k].projected
  BY <1>1, GovernorConstants DEF Governor!GovernorTypeOK, Governor!Flight
<1>3. \A j \in Keys : flight'[j] # None =>
         /\ flight[j] # None /\ flight'[j].ticket = flight[j].ticket
         /\ flight'[j].projected = flight[j].projected
         /\ (j = k \/ flight'[j].at = flight[j].at)
  BY <1>2
<1>4. Governor!GovernorTypeOK'
  BY <1>2, <1>3 DEF Governor!GovernorTypeOK
<1>5. TurnsInOrder'
  BY <1>3 DEF TurnsInOrder, Governor!MyTurn
<1>6. Remembered' /\ ToldInTime'
  BY DEF Remembered, ToldInTime, Governor!Lifetime
<1> QED
  BY <1>4, <1>5, <1>6

\* A call that begins: from the cache, on a flight of its key, shed, or queued last.
LEMMA BeginKeeps ==
  ASSUME GovernorInv, NEW c \in Callers, NEW k \in Keys, NEW d \in Deadlines,
         Governor!Begin(c, k, d)
  PROVE  GovernorInv'
<1> USE DEF GovernorInv
<1> DEFINE Call == [key : Keys \cup {None}, result : Governor!Results \cup {None}, age : Int]
<1>0. /\ UNCHANGED <<now, cache, lastAnswer>> /\ call \in [Callers -> Call]
      /\ call[c].key = None /\ d \in Nat
  BY GovernorConstants DEF Governor!Begin, Governor!GovernorTypeOK
<1>1. Remembered'
  BY <1>0 DEF Remembered, Governor!Lifetime
<1>2. ASSUME UNCHANGED <<nextSlotAt, breakerUntil, tail, released, flight>>,
             NEW told \in Call, call' = [call EXCEPT ![c] = told],
             told.result = None => told.age = 0,
             told.result \in Governor!Answers => told.age < Governor!Lifetime(told.result)
      PROVE  GovernorInv'
  <2>1. call' \in [Callers -> Call]
    BY <1>0, <1>2
  <2>2. Governor!GovernorTypeOK'
    BY <1>0, <1>2, <2>1 DEF Governor!GovernorTypeOK
  <2>3. TurnsInOrder'
    BY <1>2 DEF TurnsInOrder, Governor!MyTurn
  <2>4. ToldInTime'
    BY <1>0, <1>2 DEF ToldInTime, Governor!Lifetime
  <2> QED
    BY <1>1, <2>2, <2>3, <2>4
<1>3. CASE Governor!Answered(c, k)
  <2>1. cache[k] # None /\ cache[k].until > now
    BY <1>3 DEF Governor!Answered, Governor!Fresh
  <2>2. /\ cache[k].value \in Governor!Answers /\ lastAnswer[k].at \in Nat /\ now \in Nat
        /\ cache[k].until = lastAnswer[k].at + Governor!Lifetime(cache[k].value)
    BY <2>1, GovernorConstants
       DEF Governor!GovernorTypeOK, Governor!Cached, Governor!Said, Remembered
  <2> DEFINE told == [key |-> k, result |-> cache[k].value, age |-> now - lastAnswer[k].at]
             lifetime == Governor!Lifetime(cache[k].value)
  <2>3. told \in Call /\ told.result # None
    BY <2>2, GovernorConstants
  <2>4. lifetime \in Nat
    BY <2>2, GovernorConstants
  <2>5. now - lastAnswer[k].at < lifetime
    <3> HIDE DEF lifetime
    <3>1. lastAnswer[k].at + lifetime > now
      BY <2>1, <2>2 DEF lifetime
    <3> QED
      BY <3>1, <2>2, <2>4
  <2>6. told.age < Governor!Lifetime(told.result)
    BY <2>5
  <2>7. call' = [call EXCEPT ![c] = told] /\ UNCHANGED <<nextSlotAt, breakerUntil, tail, released, flight>>
    BY <1>3 DEF Governor!Answered, Governor!governorVars
  <2> HIDE DEF told
  <2> QED
    BY <1>2, <2>3, <2>6, <2>7
<1>4. ASSUME Governor!Joins(c, k) PROVE GovernorInv'
  <2> DEFINE told == [call[c] EXCEPT !.key = k]
  <2>1. told \in Call /\ told.result = call[c].result /\ told.age = call[c].age
    BY <1>0
  <2>2. call' = [call EXCEPT ![c] = told] /\ UNCHANGED <<nextSlotAt, breakerUntil, tail, released, flight>>
    BY <1>4 DEF Governor!Joins, Governor!governorVars
  <2>3. /\ told.result = None => told.age = 0
        /\ told.result \in Governor!Answers => told.age < Governor!Lifetime(told.result)
    BY <2>1 DEF ToldInTime
  <2> HIDE DEF told
  <2> QED
    BY <1>2, <2>1, <2>2, <2>3
<1>5. CASE Governor!Shed(c, k, d)
  <2> DEFINE told == [key |-> k, result |-> "skipped", age |-> 0]
  <2>1. told \in Call /\ told.result # None /\ told.result \notin Governor!Answers
    BY GovernorConstants DEF Governor!Answers
  <2>2. call' = [call EXCEPT ![c] = told] /\ UNCHANGED <<nextSlotAt, breakerUntil, tail, released, flight>>
    BY <1>5 DEF Governor!Shed, Governor!governorVars
  <2> HIDE DEF told
  <2> QED
    BY <1>2, <2>1, <2>2
<1>6. CASE Governor!Queued(c, k, d)
  <2> DEFINE slot == Governor!Projected
             new == [at |-> "queued", ticket |-> tail + 1, since |-> now, projected |-> slot,
                     deadline |-> now + d]
  <2>0. /\ now \in Nat /\ nextSlotAt \in Nat /\ tail \in Nat /\ MinInterval \in Nat
        /\ flight \in [Keys -> Governor!Flight \cup {None}] /\ released \subseteq 0 .. tail
        /\ breakerUntil \in Nat
    BY GovernorConstants DEF Governor!GovernorTypeOK
  <2>1. slot \in Nat /\ slot >= nextSlotAt
    BY <2>0 DEF Governor!Projected, Governor!Max2
  <2>2. /\ nextSlotAt' = slot + MinInterval /\ tail' = tail + 1
        /\ flight' = [flight EXCEPT ![k] = new]
        /\ call' = [call EXCEPT ![c].key = k] /\ UNCHANGED <<breakerUntil, released>>
        /\ flight[k] = None
    BY <1>6 DEF Governor!Queued
  <2> HIDE DEF slot
  <2>3. new \in Governor!Flight /\ new # None
    BY <2>0, <2>1, <1>0, GovernorConstants DEF Governor!Flight
  <2>4. new.at = "queued" /\ new.ticket = tail + 1 /\ new.projected = slot
    OBVIOUS
  <2> HIDE DEF new
  <2>5. /\ flight' \in [Keys -> Governor!Flight \cup {None}]
        /\ flight'[k] = new /\ \A j \in Keys : j # k => flight'[j] = flight[j]
    BY <2>0, <2>2, <2>3
  <2>6. /\ call' \in [Callers -> Call]
        /\ \A b \in Callers : call'[b].result = call[b].result /\ call'[b].age = call[b].age
    BY <1>0, <2>2
  <2>7. \A j \in Keys : flight[j] # None =>
           /\ flight[j].ticket \in Nat /\ flight[j].ticket \in 1 .. tail
           /\ flight[j].projected \in Nat /\ flight[j].projected + MinInterval <= nextSlotAt
    BY <2>0 DEF Governor!GovernorTypeOK, Governor!Flight
  <2>8. \A j \in Keys : flight'[j] # None =>
           /\ flight'[j].ticket \in 1 .. tail'
           /\ flight'[j].projected + MinInterval <= nextSlotAt'
    BY <2>0, <2>1, <2>2, <2>4, <2>5, <2>7
  <2>9. Governor!GovernorTypeOK'
    BY <1>0, <2>0, <2>1, <2>2, <2>5, <2>6, <2>8 DEF Governor!GovernorTypeOK
  <2>10. ToldInTime'
    BY <1>0, <2>6 DEF ToldInTime, Governor!Lifetime
  <2>11. TurnsInOrder'
    BY <2>0, <2>2, <2>4, <2>5, <2>7 DEF TurnsInOrder, Governor!MyTurn
  <2> QED
    BY <1>1, <2>9, <2>10, <2>11
<1> QED
  BY <1>3, <1>4, <1>5, <1>6 DEF Governor!Begin

\* Who has left the queue had its turn.
LEMMA Awake ==
  ASSUME GovernorInv, NEW k \in Keys, Governor!At(k, "sleep") \/ Governor!At(k, "fetch")
  PROVE  flight[k] # None /\ Governor!MyTurn(k)
BY DEF GovernorInv, TurnsInOrder, Governor!At

LEMMA SkipKeeps ==
  ASSUME GovernorInv, NEW k \in Keys, flight[k] # None, Governor!MyTurn(k), Governor!Skip(k),
         UNCHANGED <<now, nextSlotAt, breakerUntil, tail, cache>>
  PROVE  GovernorInv'
<1> USE DEF Governor!Skip
<1>1. /\ TurnsInOrder' /\ ToldInTime' /\ released' \subseteq 0 .. tail'
      /\ flight' \in [Keys -> Governor!Flight \cup {None}]
      /\ call' \in [Callers -> [key : Keys \cup {None}, result : Governor!Results \cup {None},
                                age : Int]]
      /\ \A j \in Keys : flight'[j] # None =>
            /\ flight'[j].ticket \in 1 .. tail'
            /\ flight'[j].projected + MinInterval <= nextSlotAt'
  BY SettledKeeps, GovernorConstants
<1>2. Governor!GovernorTypeOK'
  BY <1>1 DEF GovernorInv, Governor!GovernorTypeOK
<1>3. Remembered'
  BY DEF GovernorInv, Remembered, Governor!Lifetime
<1> QED
  BY <1>1, <1>2, <1>3 DEF GovernorInv

LEMMA TurnOrWakeKeeps ==
  ASSUME GovernorInv, NEW k \in Keys, Governor!Turn(k) \/ Governor!Wake(k)
  PROVE  GovernorInv'
<1>1. /\ flight[k] # None /\ Governor!MyTurn(k)
      /\ UNCHANGED <<now, nextSlotAt, breakerUntil, tail, cache>>
  BY Awake DEF Governor!Turn, Governor!Wake, Governor!At
<1>2. \/ Governor!Skip(k)
      \/ \E place \in {"sleep", "fetch"} :
            /\ flight' = [flight EXCEPT ![k].at = place]
            /\ UNCHANGED <<released, call, lastAnswer>>
  BY DEF Governor!Turn, Governor!Wake, Governor!Start
<1> QED
  BY <1>1, <1>2, SkipKeeps, GoesOnKeeps

\* Whatever becomes of a fetch: an answer is remembered, and nothing else is.
LEMMA FetchEndsKeeps ==
  ASSUME GovernorInv, NEW k \in Keys, Governor!FetchEnds(k)
  PROVE  GovernorInv'
<1>1. \E result \in Governor!Results :
         /\ Governor!At(k, "fetch") /\ Governor!Settled(k, result) /\ Governor!Release(k)
         /\ UNCHANGED <<now, nextSlotAt, tail>>
  BY GovernorConstants
     DEF Governor!FetchEnds, Governor!FetchAnswers, Governor!FetchFailsNow, Governor!FetchThrows
<1>2. /\ TurnsInOrder' /\ ToldInTime' /\ released' \subseteq 0 .. tail'
      /\ flight' \in [Keys -> Governor!Flight \cup {None}]
      /\ call' \in [Callers -> [key : Keys \cup {None}, result : Governor!Results \cup {None},
                                age : Int]]
      /\ \A j \in Keys : flight'[j] # None =>
            /\ flight'[j].ticket \in 1 .. tail'
            /\ flight'[j].projected + MinInterval <= nextSlotAt'
  BY <1>1, Awake, SettledKeeps
<1>3. /\ now \in 0 .. MaxTime /\ now \in Nat /\ nextSlotAt \in Nat /\ tail \in Nat
      /\ breakerUntil \in Nat /\ cache \in [Keys -> Governor!Cached \cup {None}]
      /\ lastAnswer \in [Keys -> Governor!Said \cup {None}] /\ CoolOff \in Nat
  BY GovernorConstants DEF GovernorInv, Governor!GovernorTypeOK
<1>4. CASE \E value \in Governor!Answers : Governor!FetchAnswers(k, value)
  <2>1. PICK value \in Governor!Answers : Governor!FetchAnswers(k, value)
    BY <1>4
  <2> DEFINE until == now + Governor!Lifetime(value)
             kept == [value |-> value, until |-> until]
             said == [value |-> value, at |-> now]
  <2>2. /\ cache' = [cache EXCEPT ![k] = kept] /\ lastAnswer' = [lastAnswer EXCEPT ![k] = said]
        /\ UNCHANGED <<now, nextSlotAt, breakerUntil, tail>>
    BY <2>1 DEF Governor!FetchAnswers
  <2>3. until \in Nat
    BY <1>3, GovernorConstants
  <2>4. kept \in Governor!Cached /\ said \in Governor!Said
    BY <1>3, <2>3 DEF Governor!Cached, Governor!Said
  <2>5. said # None
    BY <2>4, GovernorConstants
  <2>6. /\ kept.value = value /\ kept.until = now + Governor!Lifetime(value)
        /\ said.value = value /\ said.at = now
    OBVIOUS
  <2> HIDE DEF kept, said
  <2>7. Remembered'
    BY <1>3, <2>2, <2>5, <2>6 DEF GovernorInv, Remembered, Governor!Lifetime
  <2>8. Governor!GovernorTypeOK'
    BY <1>2, <1>3, <2>2, <2>4 DEF Governor!GovernorTypeOK
  <2> QED
    BY <1>2, <2>7, <2>8 DEF GovernorInv
<1>5. CASE (\E is429 \in BOOLEAN : Governor!FetchFailsNow(k, is429)) \/ Governor!FetchThrows(k)
  <2>1. UNCHANGED <<now, nextSlotAt, tail, cache, lastAnswer>>
    BY <1>5 DEF Governor!FetchFailsNow, Governor!FetchThrows
  <2>2. breakerUntil' = now + CoolOff \/ breakerUntil' = breakerUntil
    BY <1>5 DEF Governor!FetchFailsNow, Governor!FetchThrows
  <2>3. breakerUntil' \in Nat
    BY <1>3, <2>2
  <2>4. Governor!GovernorTypeOK'
    BY <1>2, <1>3, <2>1, <2>3 DEF Governor!GovernorTypeOK
  <2>5. Remembered'
    BY <2>1 DEF GovernorInv, Remembered, Governor!Lifetime
  <2> QED
    BY <1>2, <2>4, <2>5 DEF GovernorInv
<1> QED
  BY <1>4, <1>5 DEF Governor!FetchEnds

LEMMA GovernorKeeps == GovernorInv /\ [Governor!GovernorNext]_governorState => GovernorInv'
<1> SUFFICES ASSUME GovernorInv, [Governor!GovernorNext]_governorState PROVE GovernorInv'
  OBVIOUS
<1>1. CASE \E c \in Callers, k \in Keys, d \in Deadlines : Governor!Begin(c, k, d)
  BY <1>1, BeginKeeps
<1>2. CASE \E k \in Keys : Governor!Turn(k) \/ Governor!Wake(k)
  BY <1>2, TurnOrWakeKeeps
<1>3. CASE \E k \in Keys : Governor!FetchEnds(k)
  BY <1>3, FetchEndsKeeps
<1>4. ASSUME Governor!Tick \/ UNCHANGED governorState PROVE GovernorInv'
  <2>1. /\ UNCHANGED <<nextSlotAt, breakerUntil, tail, released, cache, flight, call, lastAnswer>>
        /\ now' \in 0 .. MaxTime
    BY <1>4, GovernorConstants
       DEF Governor!Tick, governorState, Governor!governorVars, GovernorInv, Governor!GovernorTypeOK
  <2> QED
    BY <2>1 DEF GovernorInv, Governor!GovernorTypeOK, TurnsInOrder, Governor!MyTurn, Remembered,
       ToldInTime, Governor!Lifetime
<1> QED
  BY <1>1, <1>2, <1>3, <1>4 DEF Governor!GovernorNext

\* A call starts with its turn, after the checks that are repeated when it has come: no
\* other call is served, the breaker is closed, and neither time is over.
LEMMA StartsInTurn ==
  ASSUME GovernorInv, [Governor!GovernorNext]_governorState, NEW k \in Keys,
         ~Governor!At(k, "fetch"), Governor!At(k, "fetch")'
  PROVE  /\ \A j \in Keys : ~Governor!At(j, "fetch")
         /\ now >= breakerUntil /\ now < flight[k].deadline
         /\ now - flight[k].since <= MaxWait
<1>1. flight \in [Keys -> Governor!Flight \cup {None}]
  BY DEF GovernorInv, Governor!GovernorTypeOK
<1>2. ~(UNCHANGED flight)
  BY DEF Governor!At
<1>3. \E j \in Keys : Governor!Turn(j) \/ Governor!Wake(j)
  <2>1. ASSUME NEW c \in Callers, NEW j \in Keys, NEW d \in Deadlines, Governor!Begin(c, j, d)
        PROVE  FALSE
    <3>1. PICK new : new.at = "queued" /\ flight' = [flight EXCEPT ![j] = new]
      BY <1>2, <2>1 DEF Governor!Begin, Governor!Answered, Governor!Joins, Governor!Shed,
         Governor!Queued
    <3> QED
      BY <1>1, <3>1 DEF Governor!At
  <2>2. ASSUME NEW j \in Keys, Governor!FetchEnds(j) PROVE FALSE
    <3>1. flight' = [flight EXCEPT ![j] = None]
      BY <2>2 DEF Governor!FetchEnds, Governor!FetchAnswers, Governor!FetchFailsNow,
         Governor!FetchThrows, Governor!Settled
    <3> QED
      BY <1>1, <3>1 DEF Governor!At
  <2> QED
    BY <1>2, <2>1, <2>2 DEF Governor!GovernorNext, Governor!Tick, governorState
<1>4. PICK j \in Keys : Governor!Turn(j) \/ Governor!Wake(j)
  BY <1>3
<1>5. /\ flight[j] # None /\ Governor!MyTurn(j) /\ ~Governor!At(j, "fetch")
  BY <1>4, Awake DEF Governor!Turn, Governor!Wake, Governor!At
<1>6. j = k /\ ~Governor!isBreakerOpen /\ ~Governor!Late(k)
  <2>1. \/ flight' = [flight EXCEPT ![j] = None]
        \/ flight' = [flight EXCEPT ![j].at = "sleep"]
        \/ /\ flight' = [flight EXCEPT ![j].at = "fetch"]
           /\ ~Governor!isBreakerOpen /\ ~Governor!Late(j)
    BY <1>4 DEF Governor!Turn, Governor!Wake, Governor!Start, Governor!Skip, Governor!Settled
  <2>2. \A i \in Keys : i # j => flight'[i] = flight[i]
    BY <1>1, <2>1
  <2>3. j = k
    BY <2>2 DEF Governor!At
  <2>4. flight[j] \in Governor!Flight
    BY <1>5, FlightOf DEF GovernorInv
  <2>5. /\ flight' # [flight EXCEPT ![j] = None]
        /\ flight' # [flight EXCEPT ![j].at = "sleep"]
    BY <1>1, <2>3, <2>4 DEF Governor!At, Governor!Flight
  <2> QED
    BY <2>1, <2>3, <2>5
<1>7. \A i \in Keys : ~Governor!At(i, "fetch")
  BY <1>5, <1>6, Awake, OneTurn
<1>8. /\ now \in Nat /\ breakerUntil \in Nat /\ MaxWait \in Nat
      /\ flight[k].deadline \in Nat /\ flight[k].since \in Nat
  BY <1>5, <1>6, FlightOf, GovernorConstants DEF GovernorInv, Governor!GovernorTypeOK, Governor!Flight
<1> QED
  BY <1>6, <1>7, <1>8 DEF Governor!isBreakerOpen, Governor!Late

-----------------------------------------------------------------------------
\* Orders of endpoints

LEMMA ElementsOfConcat ==
  ASSUME NEW S, NEW one \in Seq(S), NEW other \in Seq(S)
  PROVE  ToSet(one \o other) = ToSet(one) \cup ToSet(other)
<1> DEFINE both == one \o other
<1>1. /\ both \in Seq(S) /\ Len(both) = Len(one) + Len(other)
      /\ Len(one) \in Nat /\ Len(other) \in Nat
      /\ \A i \in 1 .. Len(one) + Len(other) :
            both[i] = IF i <= Len(one) THEN one[i] ELSE other[i - Len(one)]
  BY ConcatProperties, LenProperties
<1> HIDE DEF both
<1>2. /\ \A e : e \in ToSet(both) <=> \E i \in 1 .. Len(both) : both[i] = e
      /\ \A e : e \in ToSet(one) <=> \E i \in 1 .. Len(one) : one[i] = e
      /\ \A e : e \in ToSet(other) <=> \E i \in 1 .. Len(other) : other[i] = e
  BY <1>1, Elements
<1>3. ASSUME NEW e \in ToSet(both) PROVE e \in ToSet(one) \cup ToSet(other)
  <2>1. PICK i \in 1 .. Len(both) : both[i] = e
    BY <1>2
  <2>2. CASE i <= Len(one)
    BY <1>1, <1>2, <2>1, <2>2
  <2>3. CASE ~(i <= Len(one))
    <3>1. i - Len(one) \in 1 .. Len(other)
      BY <1>1, <2>3
    <3> QED
      BY <1>1, <1>2, <2>1, <2>3, <3>1
  <2> QED
    BY <2>2, <2>3
<1>4. ASSUME NEW e \in ToSet(one) PROVE e \in ToSet(both)
  BY <1>1, <1>2
<1>5. ASSUME NEW e \in ToSet(other) PROVE e \in ToSet(both)
  <2>1. PICK i \in 1 .. Len(other) : other[i] = e
    BY <1>2
  <2>2. /\ i + Len(one) \in 1 .. Len(both) /\ ~(i + Len(one) <= Len(one))
        /\ (i + Len(one)) - Len(one) = i
    BY <1>1, <2>1
  <2> QED
    BY <1>1, <1>2, <2>1, <2>2
<1> QED
  BY <1>3, <1>4, <1>5 DEF both

LEMMA HeadAndTail ==
  ASSUME NEW S, NEW seq \in Seq(S), seq # <<>>
  PROVE  /\ Head(seq) \in S /\ Tail(seq) \in Seq(S) /\ Head(seq) = seq[1]
         /\ ToSet(seq) = {Head(seq)} \cup ToSet(Tail(seq))
<1> DEFINE rest == Tail(seq)
<1>1. /\ Head(seq) \in S /\ rest \in Seq(S) /\ Len(rest) = Len(seq) - 1 /\ Len(seq) \in Nat
      /\ \A i \in 1 .. Len(rest) : rest[i] = seq[i + 1]
      /\ Head(seq) = seq[1] /\ Len(seq) > 0
  BY HeadTailProperties, EmptySeq, LenProperties
<1> HIDE DEF rest
<1>2. /\ \A e : e \in ToSet(seq) <=> \E i \in 1 .. Len(seq) : seq[i] = e
      /\ \A e : e \in ToSet(rest) <=> \E i \in 1 .. Len(rest) : rest[i] = e
  BY <1>1, Elements
<1>3. ASSUME NEW e \in ToSet(seq), e # seq[1] PROVE e \in ToSet(rest)
  <2>1. PICK i \in 1 .. Len(seq) : seq[i] = e
    BY <1>2
  <2>2. i - 1 \in 1 .. Len(rest) /\ (i - 1) + 1 = i
    BY <1>1, <1>3, <2>1
  <2> QED
    BY <1>1, <1>2, <2>1, <2>2
<1>4. ASSUME NEW e \in ToSet(rest) PROVE e \in ToSet(seq)
  BY <1>1, <1>2
<1>5. seq[1] \in ToSet(seq)
  BY <1>1, <1>2
<1> QED
  BY <1>1, <1>3, <1>4, <1>5 DEF rest

\* An endpoint is taken out of its place.
LEMMA Removed ==
  ASSUME NEW S, NEW seq \in Seq(S), NEW i \in 1 .. Len(seq)
  PROVE  /\ RemoveAt(seq, i) \in Seq(S) /\ Len(RemoveAt(seq, i)) = Len(seq) - 1
         /\ \A j \in 1 .. Len(seq) - 1 :
               RemoveAt(seq, i)[j] = IF j < i THEN seq[j] ELSE seq[j + 1]
<1> DEFINE before == SubSeq(seq, 1, i - 1)
           after == SubSeq(seq, i + 1, Len(seq))
<1>0. Len(seq) \in Nat /\ \A j \in 1 .. Len(seq) : seq[j] \in S
  BY LenProperties, ElementOfSeq
<1>1. /\ before \in Seq(S) /\ Len(before) = i - 1 /\ \A j \in 1 .. i - 1 : before[j] = seq[j]
  <2>1. \A j \in 1 .. i - 1 : seq[j] \in S
    BY <1>0
  <2>2. /\ before \in Seq(S) /\ Len(before) = IF 1 <= i - 1 THEN (i - 1) - 1 + 1 ELSE 0
        /\ \A j \in 1 .. (i - 1) - 1 + 1 : before[j] = seq[1 + j - 1]
    BY <2>1, SubSeqProperties
  <2> QED
    BY <1>0, <2>2
<1>2. /\ after \in Seq(S) /\ Len(after) = Len(seq) - i
      /\ \A j \in 1 .. Len(seq) - i : after[j] = seq[i + j]
  <2>1. \A j \in i + 1 .. Len(seq) : seq[j] \in S
    BY <1>0
  <2>2. /\ after \in Seq(S)
        /\ Len(after) = IF i + 1 <= Len(seq) THEN Len(seq) - (i + 1) + 1 ELSE 0
        /\ \A j \in 1 .. Len(seq) - (i + 1) + 1 : after[j] = seq[(i + 1) + j - 1]
    BY <1>0, <2>1, SubSeqProperties
  <2> QED
    BY <1>0, <2>2
<1>3. RemoveAt(seq, i) = before \o after
  BY DEF RemoveAt
<1> HIDE DEF before, after
<1>4. /\ before \o after \in Seq(S) /\ Len(before \o after) = Len(before) + Len(after)
      /\ \A j \in 1 .. Len(before) + Len(after) : (before \o after)[j] =
            IF j <= Len(before) THEN before[j] ELSE after[j - Len(before)]
  BY <1>1, <1>2, ConcatProperties
<1>5. ASSUME NEW j \in 1 .. Len(seq) - 1
      PROVE  (before \o after)[j] = IF j < i THEN seq[j] ELSE seq[j + 1]
  <2>1. CASE j < i
    BY <1>0, <1>1, <1>2, <1>4, <2>1
  <2>2. CASE ~(j < i)
    <3>1. /\ j - (i - 1) \in 1 .. Len(seq) - i /\ i + (j - (i - 1)) = j + 1
          /\ ~(j <= i - 1) /\ j \in 1 .. (i - 1) + (Len(seq) - i)
      BY <1>0, <2>2
    <3>2. after[j - (i - 1)] = seq[j + 1]
      BY <1>2, <3>1
    <3> QED
      BY <1>1, <1>2, <1>4, <2>2, <3>1, <3>2
  <2> QED
    BY <2>1, <2>2
<1> QED
  BY <1>0, <1>1, <1>2, <1>3, <1>4, <1>5

\* The same endpoints, with the one at a place first.
LEMMA Led ==
  ASSUME NEW S, NEW seq \in Seq(S), NEW i \in 1 .. Len(seq)
  PROVE  /\ Dispatch!LedBy(i, seq) \in Seq(S) /\ Len(Dispatch!LedBy(i, seq)) = Len(seq)
         /\ Head(Dispatch!LedBy(i, seq)) = seq[i]
         /\ Tail(Dispatch!LedBy(i, seq)) = RemoveAt(seq, i)
         /\ \A j \in 1 .. Len(seq) : Dispatch!LedBy(i, seq)[j] =
               seq[IF j = 1 THEN i ELSE IF j - 1 < i THEN j - 1 ELSE j]
         /\ ToSet(Dispatch!LedBy(i, seq)) = ToSet(seq)
<1> DEFINE rest == RemoveAt(seq, i)
           led == Dispatch!LedBy(i, seq)
           place(j) == IF j = 1 THEN i ELSE IF j - 1 < i THEN j - 1 ELSE j
<1>1. /\ rest \in Seq(S) /\ Len(rest) = Len(seq) - 1 /\ Len(seq) \in Nat /\ i \in Nat
      /\ \A j \in 1 .. Len(seq) - 1 : rest[j] = IF j < i THEN seq[j] ELSE seq[j + 1]
  BY Removed, LenProperties
<1>2. led = <<seq[i]>> \o rest /\ seq[i] \in S /\ <<seq[i]>> \in Seq(S) /\ Len(<<seq[i]>>) = 1
      /\ <<seq[i]>>[1] = seq[i]
  BY ElementOfSeq DEF Dispatch!LedBy, Dispatch!RemoveAt, RemoveAt
<1> HIDE DEF rest, led
<1>3. /\ led \in Seq(S) /\ Len(led) = 1 + Len(rest)
      /\ \A j \in 1 .. 1 + Len(rest) :
            led[j] = IF j <= 1 THEN <<seq[i]>>[j] ELSE rest[j - 1]
  BY <1>1, <1>2, ConcatProperties
<1>4. Len(led) = Len(seq) /\ led # <<>>
  BY <1>1, <1>3, EmptySeq
<1>5. ASSUME NEW j \in 1 .. Len(seq) PROVE led[j] = seq[place(j)] /\ place(j) \in 1 .. Len(seq)
  BY <1>1, <1>2, <1>3
<1>6. Head(led) = seq[i] /\ led[1] = seq[i]
  BY <1>1, <1>3, <1>4, <1>5, HeadAndTail
<1>7. Tail(led) = rest
  <2>1. /\ Tail(led) \in Seq(S) /\ Len(Tail(led)) = Len(led) - 1
        /\ \A j \in 1 .. Len(Tail(led)) : Tail(led)[j] = led[j + 1]
    BY <1>3, <1>4, HeadTailProperties
  <2> DEFINE tl == Tail(led)
  <2> HIDE DEF tl
  <2>2. Len(tl) = Len(rest) /\ tl \in Seq(S)
    BY <1>1, <1>4, <2>1 DEF tl
  <2>3. ASSUME NEW j \in 1 .. Len(tl) PROVE tl[j] = rest[j]
    <3>1. tl[j] = led[j + 1]
      BY <2>1 DEF tl
    <3>2. j + 1 \in 1 .. 1 + Len(rest) /\ ~(j + 1 <= 1) /\ (j + 1) - 1 = j
      BY <1>1, <2>2
    <3> QED
      BY <1>3, <3>1, <3>2
  <2> QED
    BY <1>1, <2>2, <2>3, SeqEqual DEF tl
<1>8. ToSet(led) = ToSet(seq)
  <2>1. /\ \A e : e \in ToSet(seq) <=> \E j \in 1 .. Len(seq) : seq[j] = e
        /\ \A e : e \in ToSet(led) <=> \E j \in 1 .. Len(led) : led[j] = e
    BY <1>3, Elements
  <2>2. ASSUME NEW e \in ToSet(led) PROVE e \in ToSet(seq)
    BY <1>4, <1>5, <2>1
  <2>3. ASSUME NEW e \in ToSet(seq) PROVE e \in ToSet(led)
    <3>1. PICK j \in 1 .. Len(seq) : seq[j] = e
      BY <2>1
    <3> DEFINE l == IF j = i THEN 1 ELSE IF j < i THEN j + 1 ELSE j
    <3>2. l \in 1 .. Len(seq) /\ place(l) = j
      BY <1>1
    <3> HIDE DEF l, place
    <3> QED
      BY <1>4, <1>5, <2>1, <3>1, <3>2
  <2> QED
    BY <2>2, <2>3
<1> QED
  BY <1>3, <1>4, <1>5, <1>6, <1>7, <1>8 DEF rest, led

\* A sequence without repetition has as many elements as places.
LEMMA Counted ==
  ASSUME NEW S, NEW seq \in Seq(S), IsInjective(seq)
  PROVE  IsFiniteSet(ToSet(seq)) /\ Cardinality(ToSet(seq)) = Len(seq)
<1>1. seq \in [1 .. Len(seq) -> S] /\ Len(seq) \in Nat /\ DOMAIN seq = 1 .. Len(seq)
  BY LenProperties
<1>2. seq \in [1 .. Len(seq) -> ToSet(seq)]
  BY <1>1 DEF ToSet
<1>3. seq \in Bijection(1 .. Len(seq), ToSet(seq))
  BY <1>1, <1>2, Elements DEF Bijection, Injection, Surjection, IsInjective
<1>4. ExistsBijection(1 .. Len(seq), ToSet(seq))
  BY <1>3 DEF ExistsBijection
<1> QED
  BY <1>1, <1>4, FS_NatBijection, FS_CountingElements

\* The free endpoints and the paid ones, in the order of a lane: the paid ones last.
Free == ToSet(Publics) \cup ToSet(Customs)
Paid == ToSet(Keyed)

PaidLast(order) ==
    \A i, j \in 1 .. Len(order) : i < j /\ order[i] \in Paid => order[j] \in Paid

\* The operators that the dispatch takes from the libraries are the libraries'.
LEMMA LibraryOperators ==
  \A x : /\ Dispatch!ToSet(x) = ToSet(x) /\ Dispatch!Cardinality(x) = Cardinality(x)
        /\ Dispatch!IsInjective(x) = IsInjective(x)
BY DEF Dispatch!ToSet, ToSet, Dispatch!Cardinality, Cardinality, Dispatch!IsInjective, IsInjective

LEMMA Pools ==
  /\ Publics \in Seq(Dispatch!Endpoints) /\ Customs \in Seq(Dispatch!Endpoints)
  /\ Keyed \in Seq(Dispatch!Endpoints) /\ Publics \o Customs \in Seq(Dispatch!Endpoints)
  /\ Dispatch!AllEndpoints \in Seq(Dispatch!Endpoints)
  /\ Len(Publics) \in Nat /\ Len(Publics) > 0 /\ Len(Customs) \in Nat /\ Len(Keyed) \in Nat
  /\ Len(Dispatch!AllEndpoints) = Len(Publics) + Len(Customs) + Len(Keyed)
  /\ ToSet(Publics \o Customs) = Free /\ ToSet(Dispatch!AllEndpoints) = Free \cup Paid
  /\ Dispatch!Endpoints = Free \cup Paid
  /\ \A i \in 1 .. Len(Publics) : Dispatch!AllEndpoints[i] = Publics[i]
  /\ RotationCalls \in Nat /\ RotationCalls > 0 /\ Hedge \in Nat /\ Hedge > 0
  /\ MaxAttempts \in Nat /\ MaxAttempts > 0
<1> DEFINE front == Publics \o Customs
           all == Dispatch!AllEndpoints
           S == ToSet(Publics) \cup ToSet(Customs) \cup ToSet(Keyed)
<1>1. /\ Publics \in Seq(ToSet(Publics)) /\ Customs \in Seq(ToSet(Customs))
      /\ Keyed \in Seq(ToSet(Keyed)) /\ Publics # <<>>
      /\ RotationCalls \in Nat \ {0} /\ Hedge \in Nat \ {0} /\ MaxAttempts \in Nat \ {0}
  BY RequestsAssumption, LibraryOperators DEF Dispatch!RpcAssumption
<1>2. Publics \in Seq(S) /\ Customs \in Seq(S) /\ Keyed \in Seq(S)
  BY <1>1, SeqMonotonic
<1>3. /\ front \in Seq(S) /\ Len(front) = Len(Publics) + Len(Customs)
      /\ ToSet(front) = ToSet(Publics) \cup ToSet(Customs)
      /\ \A i \in 1 .. Len(Publics) + Len(Customs) :
            front[i] = IF i <= Len(Publics) THEN Publics[i] ELSE Customs[i - Len(Publics)]
  BY <1>2, ConcatProperties, ElementsOfConcat
<1>4. all = front \o Keyed
  BY DEF Dispatch!AllEndpoints
<1> HIDE DEF front, S, all
<1>5. /\ all \in Seq(S) /\ Len(all) = Len(front) + Len(Keyed)
      /\ ToSet(all) = ToSet(front) \cup ToSet(Keyed)
      /\ \A i \in 1 .. Len(front) + Len(Keyed) :
            all[i] = IF i <= Len(front) THEN front[i] ELSE Keyed[i - Len(front)]
  <2>1. front \in Seq(S)
    BY <1>3
  <2>2. /\ front \o Keyed \in Seq(S) /\ Len(front \o Keyed) = Len(front) + Len(Keyed)
        /\ \A i \in 1 .. Len(front) + Len(Keyed) :
              (front \o Keyed)[i] = IF i <= Len(front) THEN front[i] ELSE Keyed[i - Len(front)]
    BY <1>2, <2>1, ConcatProperties
  <2>3. ToSet(front \o Keyed) = ToSet(front) \cup ToSet(Keyed)
    BY <1>2, <2>1, ElementsOfConcat
  <2> QED
    BY <1>4, <2>2, <2>3
<1>6. Dispatch!Endpoints = ToSet(all)
  BY LibraryOperators DEF Dispatch!Endpoints, all
<1>7. /\ Len(Publics) \in Nat /\ Len(Publics) > 0 /\ Len(Customs) \in Nat /\ Len(Keyed) \in Nat
  BY <1>1, LenProperties, EmptySeq
<1>8. S = Dispatch!Endpoints /\ S = Free \cup Paid
  BY <1>3, <1>5, <1>6 DEF Free, Paid, S
<1>9. \A i \in 1 .. Len(Publics) : all[i] = Publics[i]
  BY <1>3, <1>5, <1>7
<1>10. Len(all) = Len(Publics) + Len(Customs) + Len(Keyed)
  BY <1>3, <1>5, <1>7
<1>11. RotationCalls > 0 /\ Hedge > 0 /\ MaxAttempts > 0
  BY <1>1
<1> QED
  BY <1>1, <1>2, <1>3, <1>5, <1>6, <1>7, <1>8, <1>9, <1>10, <1>11 DEF front, all, Free, Paid

\* No endpoint is free and paid: those of the configuration are there once.
LEMMA FreeOrPaid == Free \cap Paid = {}
<1> DEFINE front == Publics \o Customs
           all == Dispatch!AllEndpoints
<1>1. IsInjective(all)
  BY RequestsAssumption, LibraryOperators DEF Dispatch!RpcAssumption
<1>2. all = front \o Keyed /\ front \in Seq(Dispatch!Endpoints) /\ Keyed \in Seq(Dispatch!Endpoints)
  BY Pools DEF Dispatch!AllEndpoints
<1>3. ToSet(front) = Free
  BY Pools
<1> HIDE DEF front, all
<1>4. /\ all \in Seq(Dispatch!Endpoints) /\ Len(all) = Len(front) + Len(Keyed)
      /\ Len(front) \in Nat /\ Len(Keyed) \in Nat /\ DOMAIN all = 1 .. Len(all)
      /\ \A i \in 1 .. Len(front) + Len(Keyed) :
            all[i] = IF i <= Len(front) THEN front[i] ELSE Keyed[i - Len(front)]
  BY <1>2, ConcatProperties, LenProperties
<1>5. SUFFICES ASSUME NEW e \in Free \cap Paid PROVE FALSE
  OBVIOUS
<1>6. PICK i \in 1 .. Len(front) : front[i] = e
  BY <1>2, <1>3, <1>5, Elements
<1>7. PICK j \in 1 .. Len(Keyed) : Keyed[j] = e
  BY <1>2, <1>5, Elements DEF Paid
<1>8. all[i] = e /\ i \in 1 .. Len(all)
  BY <1>4, <1>6
<1>9. /\ j + Len(front) \in 1 .. Len(all) /\ ~(j + Len(front) <= Len(front))
      /\ (j + Len(front)) - Len(front) = j
  BY <1>4, <1>7
<1>10. all[j + Len(front)] = e
  BY <1>4, <1>7, <1>9
<1>11. i = j + Len(front)
  BY <1>1, <1>4, <1>8, <1>9, <1>10 DEF IsInjective
<1> QED
  BY <1>4, <1>6, <1>7, <1>11

\* Paid endpoints behind free ones; without one of them; and without the first.
LEMMA PaidBehindFree ==
  ASSUME NEW front \in Seq(Dispatch!Endpoints), ToSet(front) \subseteq Free
  PROVE  PaidLast(front \o Keyed)
<1> DEFINE order == front \o Keyed
<1>1. /\ Len(order) = Len(front) + Len(Keyed) /\ Len(front) \in Nat /\ Len(Keyed) \in Nat
      /\ \A i \in 1 .. Len(front) + Len(Keyed) :
            order[i] = IF i <= Len(front) THEN front[i] ELSE Keyed[i - Len(front)]
  BY Pools, ConcatProperties, LenProperties
<1> HIDE DEF order
<1>2. \A i \in 1 .. Len(front) : front[i] \notin Paid
  BY Elements, FreeOrPaid
<1>3. \A i \in 1 .. Len(Keyed) : Keyed[i] \in Paid
  BY Pools, Elements DEF Paid
<1>4. ASSUME NEW i \in 1 .. Len(order), NEW j \in 1 .. Len(order), i < j, order[i] \in Paid
      PROVE  order[j] \in Paid
  <2>1. ~(i <= Len(front))
    BY <1>1, <1>2, <1>4
  <2>2. ~(j <= Len(front)) /\ j - Len(front) \in 1 .. Len(Keyed)
    BY <1>1, <1>4, <2>1
  <2> QED
    BY <1>1, <1>3, <2>2
<1> QED
  BY <1>4 DEF order, PaidLast

LEMMA PaidStaysLast ==
  ASSUME NEW S, NEW order \in Seq(S), PaidLast(order), NEW i \in 1 .. Len(order)
  PROVE  PaidLast(RemoveAt(order, i))
<1> DEFINE rest == RemoveAt(order, i)
<1>1. /\ Len(rest) = Len(order) - 1 /\ Len(order) \in Nat
      /\ \A j \in 1 .. Len(order) - 1 : rest[j] = IF j < i THEN order[j] ELSE order[j + 1]
  BY Removed, LenProperties
<1> HIDE DEF rest
<1> DEFINE place(j) == IF j < i THEN j ELSE j + 1
<1>2. \A j \in 1 .. Len(rest) : rest[j] = order[place(j)] /\ place(j) \in 1 .. Len(order)
  BY <1>1
<1>3. \A j, l \in 1 .. Len(rest) : j < l => place(j) < place(l)
  BY <1>1
<1> HIDE DEF place
<1>4. PaidLast(rest)
  BY <1>2, <1>3 DEF PaidLast
<1> QED
  BY <1>4 DEF rest

LEMMA PaidFromThere ==
  ASSUME NEW S, NEW order \in Seq(S), PaidLast(order), order # <<>>
  PROVE  /\ PaidLast(Tail(order))
         /\ Head(order) \in Paid => ToSet(Tail(order)) \subseteq Paid
<1> DEFINE rest == Tail(order)
<1>1. /\ rest \in Seq(S) /\ Len(rest) = Len(order) - 1 /\ Len(order) \in Nat
      /\ \A j \in 1 .. Len(rest) : rest[j] = order[j + 1]
      /\ Head(order) = order[1] /\ Len(order) > 0
  BY HeadTailProperties, LenProperties, EmptySeq, HeadAndTail
<1> HIDE DEF rest
<1>2. PaidLast(rest)
  <2> SUFFICES ASSUME NEW i \in 1 .. Len(rest), NEW j \in 1 .. Len(rest), i < j, rest[i] \in Paid
               PROVE  rest[j] \in Paid
    BY DEF PaidLast
  <2>1. /\ i + 1 \in 1 .. Len(order) /\ j + 1 \in 1 .. Len(order) /\ i + 1 < j + 1
        /\ rest[i] = order[i + 1] /\ rest[j] = order[j + 1]
    BY <1>1
  <2> QED
    BY <2>1 DEF PaidLast
<1>3. ASSUME order[1] \in Paid PROVE ToSet(rest) \subseteq Paid
  <2>1. \A j \in 1 .. Len(rest) : j + 1 \in 1 .. Len(order) /\ 1 < j + 1 /\ 1 \in 1 .. Len(order)
    BY <1>1
  <2>2. \A j \in 1 .. Len(rest) : rest[j] \in Paid
    BY <1>1, <1>3, <2>1 DEF PaidLast
  <2> QED
    BY <1>1, <2>2, Elements
<1> QED
  BY <1>1, <1>2, <1>3 DEF rest

\* An order that serves a request of the free lanes: every endpoint once, the first one
\* free, and the paid ones last.
Serves(order) ==
    /\ order \in Seq(Dispatch!Endpoints) /\ order # <<>>
    /\ Head(order) \in Free /\ PaidLast(Tail(order)) /\ ToSet(order) = Dispatch!Endpoints

LEMMA InTurnOfPool ==
  ASSUME NEW pool, Len(pool) \in Nat, Len(pool) > 0, NEW i \in Nat
  PROVE  Dispatch!InTurn(pool, i) \in 1 .. Len(pool)
BY DEF Dispatch!InTurn

LEMMA StandardServes ==
  ASSUME rotation.public \in Nat
  PROVE  Serves(Dispatch!Standard)
<1> DEFINE all == Dispatch!AllEndpoints
           i == Dispatch!InTurn(Publics, rotation.public)
           order == Dispatch!LedBy(i, all)
<1>1. i \in 1 .. Len(Publics)
  BY Pools, InTurnOfPool
<1>2. all \in Seq(Dispatch!Endpoints) /\ i \in 1 .. Len(all)
  BY <1>1, Pools
<1>3. all[i] \in Free
  <2>1. all[i] = Publics[i]
    BY <1>1, Pools
  <2>2. Publics[i] \in ToSet(Publics)
    BY <1>1, Pools, Elements
  <2> HIDE DEF all, i
  <2> QED
    BY <2>1, <2>2 DEF Free
<1>4. PaidLast(all)
  BY Pools, PaidBehindFree DEF Dispatch!AllEndpoints
<1> HIDE DEF all, i
<1>5. /\ order \in Seq(Dispatch!Endpoints) /\ Len(order) = Len(all) /\ Head(order) = all[i]
      /\ Tail(order) = RemoveAt(all, i) /\ ToSet(order) = ToSet(all)
  BY <1>2, Led
<1>6. PaidLast(Tail(order))
  BY <1>2, <1>4, <1>5, PaidStaysLast
<1>7. order # <<>>
  BY <1>2, <1>5, EmptySeq
<1>8. ToSet(all) = Dispatch!Endpoints
  BY Pools DEF all
<1> HIDE DEF order
<1>9. Serves(order)
  BY <1>3, <1>5, <1>6, <1>7, <1>8 DEF Serves
<1> QED
  BY <1>9 DEF order, i, all, Dispatch!Standard

LEMMA Joined ==
  ASSUME NEW S, NEW one \in Seq(S), NEW other \in Seq(S), one # <<>>
  PROVE  /\ one \o other \in Seq(S) /\ ToSet(one \o other) = ToSet(one) \cup ToSet(other)
         /\ (one \o other)[1] = one[1] /\ one \o other # <<>>
<1>1. /\ one \o other \in Seq(S) /\ Len(one \o other) = Len(one) + Len(other)
      /\ \A i \in 1 .. Len(one) + Len(other) :
            (one \o other)[i] = IF i <= Len(one) THEN one[i] ELSE other[i - Len(one)]
  BY ConcatProperties
<1>2. Len(one) \in Nat /\ Len(other) \in Nat /\ Len(one) > 0
  BY LenProperties, EmptySeq
<1>3. (one \o other)[1] = one[1]
  BY <1>1, <1>2
<1>4. one \o other # <<>>
  BY <1>1, <1>2, EmptySeq
<1>5. ToSet(one \o other) = ToSet(one) \cup ToSet(other)
  BY ElementsOfConcat
<1> QED
  BY <1>1, <1>3, <1>4, <1>5

\* The public nodes from one of them on are all of them.
LEMMA VerificationServes ==
  ASSUME rotation.verify \in 0 .. Len(Publics) - 1
  PROVE  Serves(Dispatch!Verification)
<1> DEFINE n == Len(Publics)
           v == rotation.verify
           turned == [i \in 1 .. n |-> Publics[Dispatch!InTurn(Publics, v + i - 1)]]
           front == turned \o Customs
           order == front \o Keyed
<1>1. n \in Nat /\ n > 0 /\ v \in 0 .. n - 1
  BY Pools
<1>2. \A i \in 1 .. n : Dispatch!InTurn(Publics, v + i - 1) = IF v + i <= n THEN v + i ELSE (v + i) - n
  <2> TAKE i \in 1 .. n
  <2>1. v + i - 1 \in Nat /\ v + i - 1 < n + n
    BY <1>1
  <2> DEFINE x == v + i - 1
  <2>2. x + 1 = v + i
    BY <1>1
  <2>3. CASE x < n
    <3>0. x \in Nat
      BY <2>1
    <3> HIDE DEF x, n
    <3>1. x % n = x
      BY <1>1, <3>0, <2>3
    <3>2. (x % n) + 1 = v + i /\ v + i <= n
      BY <1>1, <2>2, <2>3, <3>0, <3>1
    <3> QED
      BY <3>2 DEF x, n, Dispatch!InTurn
  <2>4. CASE ~(x < n)
    <3>0. x \in Nat /\ x >= n /\ x < n + n
      BY <1>1, <2>1, <2>4
    <3> HIDE DEF x, n
    <3>1. x % n = x - n
      BY <1>1, <3>0
    <3>2. (x % n) + 1 = (v + i) - n /\ ~(v + i <= n)
      BY <1>1, <2>2, <3>0, <3>1
    <3> QED
      BY <3>2 DEF x, n, Dispatch!InTurn
  <2> QED
    BY <2>3, <2>4
<1>3. \A i \in 1 .. n : turned[i] = Publics[IF v + i <= n THEN v + i ELSE (v + i) - n]
  BY <1>2
<1>4. \A i \in 1 .. n : (IF v + i <= n THEN v + i ELSE (v + i) - n) \in 1 .. n
  BY <1>1
<1>5. turned \in Seq(Dispatch!Endpoints) /\ Len(turned) = n
  <2>1. \A i \in 1 .. n : turned[i] \in Dispatch!Endpoints
    BY <1>3, <1>4, Pools, ElementOfSeq
  <2>2. turned \in [1 .. n -> Dispatch!Endpoints]
    BY <2>1
  <2> HIDE DEF turned, n
  <2> QED
    BY <1>1, <2>2
<1> HIDE DEF turned
<1>6. ToSet(turned) = ToSet(Publics)
  <2>1. /\ \A e : e \in ToSet(Publics) <=> \E i \in 1 .. n : Publics[i] = e
        /\ \A e : e \in ToSet(turned) <=> \E i \in 1 .. n : turned[i] = e
    BY <1>5, Pools, Elements
  <2> HIDE DEF n, v
  <2>2. ASSUME NEW e \in ToSet(turned) PROVE e \in ToSet(Publics)
    BY <1>3, <1>4, <2>1
  <2>3. ASSUME NEW e \in ToSet(Publics) PROVE e \in ToSet(turned)
    <3>1. PICK j \in 1 .. n : Publics[j] = e
      BY <2>1
    <3> DEFINE i == IF j > v THEN j - v ELSE j + (n - v)
    <3>2. i \in 1 .. n /\ (IF v + i <= n THEN v + i ELSE (v + i) - n) = j
      BY <1>1
    <3> HIDE DEF i
    <3> QED
      BY <1>3, <2>1, <3>1, <3>2
  <2> QED
    BY <2>2, <2>3
<1>7. turned[1] \in Free /\ turned # <<>>
  BY <1>1, <1>5, <1>6, Elements, EmptySeq DEF Free
<1>8. /\ front \in Seq(Dispatch!Endpoints) /\ ToSet(front) = Free
      /\ front[1] = turned[1] /\ front # <<>>
  BY <1>5, <1>6, <1>7, Pools, Joined DEF Free
<1> HIDE DEF front
<1>9. /\ order \in Seq(Dispatch!Endpoints) /\ ToSet(order) = Free \cup Paid
      /\ order[1] = front[1] /\ order # <<>>
  BY <1>8, Pools, Joined DEF Paid
<1>10. PaidLast(order)
  BY <1>8, PaidBehindFree
<1> HIDE DEF order
<1>12. PaidLast(Tail(order)) /\ Head(order) = order[1]
  BY <1>9, <1>10, PaidFromThere, HeadAndTail
<1>13. Serves(order)
  BY <1>7, <1>8, <1>9, <1>12, Pools DEF Serves
<1> QED
  BY <1>13 DEF order, front, turned, n, v, Dispatch!Verification

\* A sequence in two parts.
LEMMA Parted ==
  ASSUME NEW S, NEW seq \in Seq(S), NEW n \in 1 .. Len(seq)
  PROVE  /\ SubSeq(seq, 1, n) \in Seq(S) /\ Len(SubSeq(seq, 1, n)) = n
         /\ SubSeq(seq, n + 1, Len(seq)) \in Seq(S)
         /\ ToSet(SubSeq(seq, 1, n)) # {}
         /\ ToSet(SubSeq(seq, 1, n)) \cup ToSet(SubSeq(seq, n + 1, Len(seq))) = ToSet(seq)
         /\ \A i \in 1 .. n : SubSeq(seq, 1, n)[i] = seq[i]
<1> DEFINE one == SubSeq(seq, 1, n)
           other == SubSeq(seq, n + 1, Len(seq))
<1>0. Len(seq) \in Nat /\ \A i \in 1 .. Len(seq) : seq[i] \in S
  BY LenProperties, ElementOfSeq
<1>1. one \in Seq(S) /\ Len(one) = n /\ \A i \in 1 .. n : one[i] = seq[i]
  <2>1. \A i \in 1 .. n : seq[i] \in S
    BY <1>0
  <2>2. /\ one \in Seq(S) /\ Len(one) = IF 1 <= n THEN n - 1 + 1 ELSE 0
        /\ \A i \in 1 .. n - 1 + 1 : one[i] = seq[1 + i - 1]
    BY <2>1, SubSeqProperties
  <2> QED
    BY <1>0, <2>2
<1>2. /\ other \in Seq(S) /\ Len(other) = Len(seq) - n
      /\ \A i \in 1 .. Len(seq) - n : other[i] = seq[n + i]
  <2>1. \A i \in n + 1 .. Len(seq) : seq[i] \in S
    BY <1>0
  <2>2. /\ other \in Seq(S)
        /\ Len(other) = IF n + 1 <= Len(seq) THEN Len(seq) - (n + 1) + 1 ELSE 0
        /\ \A i \in 1 .. Len(seq) - (n + 1) + 1 : other[i] = seq[(n + 1) + i - 1]
    BY <1>0, <2>1, SubSeqProperties
  <2> QED
    BY <1>0, <2>2
<1> HIDE DEF one, other
<1>3. /\ \A e : e \in ToSet(seq) <=> \E i \in 1 .. Len(seq) : seq[i] = e
      /\ \A e : e \in ToSet(one) <=> \E i \in 1 .. n : one[i] = e
      /\ \A e : e \in ToSet(other) <=> \E i \in 1 .. Len(seq) - n : other[i] = e
  <2>1. one \in Seq(S) /\ other \in Seq(S)
    BY <1>1, <1>2
  <2>2. /\ \A e : e \in ToSet(seq) <=> \E i \in 1 .. Len(seq) : seq[i] = e
        /\ \A e : e \in ToSet(one) <=> \E i \in 1 .. Len(one) : one[i] = e
        /\ \A e : e \in ToSet(other) <=> \E i \in 1 .. Len(other) : other[i] = e
    BY <2>1, Elements
  <2> QED
    BY <1>1, <1>2, <2>2
<1>4. ToSet(one) \subseteq ToSet(seq)
  BY <1>0, <1>1, <1>3
<1>5. ToSet(other) \subseteq ToSet(seq)
  BY <1>0, <1>2, <1>3
<1>6. ASSUME NEW e \in ToSet(seq) PROVE e \in ToSet(one) \cup ToSet(other)
  <2>1. PICK i \in 1 .. Len(seq) : seq[i] = e
    BY <1>3
  <2>2. CASE i <= n
    BY <1>1, <1>3, <2>1, <2>2
  <2>3. CASE ~(i <= n)
    <3>1. i - n \in 1 .. Len(seq) - n /\ n + (i - n) = i
      BY <1>0, <2>3
    <3> QED
      BY <1>2, <1>3, <2>1, <3>1
  <2> QED
    BY <2>2, <2>3
<1>7. ToSet(one) # {}
  <2>1. 1 \in 1 .. n
    OBVIOUS
  <2>2. one[1] \in ToSet(one)
    BY <1>3, <2>1
  <2> QED
    BY <2>2
<1> QED
  BY <1>1, <1>2, <1>4, <1>5, <1>6, <1>7 DEF one, other

\* The dedicated lane tries as many keyed endpoints as it may, each once.
Attempts == IF MaxAttempts < Len(Keyed) THEN MaxAttempts ELSE Len(Keyed)

LEMMA DedicatedOrder ==
  ASSUME Keyed # <<>>, rotation.key \in Nat
  PROVE  /\ Dispatch!Dedicated \in Seq(Dispatch!Endpoints) /\ Attempts \in Nat /\ Attempts > 0
         /\ Len(Dispatch!Dedicated) = Attempts
         /\ Cardinality(ToSet(Dispatch!Dedicated)) = Attempts
<1> DEFINE i == Dispatch!InTurn(Keyed, rotation.key)
           led == Dispatch!LedBy(i, Keyed)
           order == SubSeq(led, 1, Attempts)
<1>1. Len(Keyed) \in Nat /\ Len(Keyed) > 0 /\ Keyed \in Seq(Dispatch!Endpoints)
  BY Pools, EmptySeq
<1>2. i \in 1 .. Len(Keyed)
  BY <1>1, InTurnOfPool
<1>3. Attempts \in Nat /\ Attempts > 0 /\ Attempts \in 1 .. Len(Keyed)
  BY <1>1, Pools DEF Attempts
<1>4. IsInjective(Keyed)
  <2> DEFINE front == Publics \o Customs
             all == Dispatch!AllEndpoints
  <2>1. IsInjective(all)
    BY RequestsAssumption, LibraryOperators DEF Dispatch!RpcAssumption
  <2>2. all = front \o Keyed /\ front \in Seq(Dispatch!Endpoints)
    BY Pools DEF Dispatch!AllEndpoints
  <2> HIDE DEF front, all
  <2>3. /\ Len(all) = Len(front) + Len(Keyed) /\ Len(front) \in Nat /\ DOMAIN all = 1 .. Len(all)
        /\ \A j \in 1 .. Len(front) + Len(Keyed) :
              all[j] = IF j <= Len(front) THEN front[j] ELSE Keyed[j - Len(front)]
    BY <1>1, <2>2, ConcatProperties, LenProperties
  <2>4. ASSUME NEW a \in 1 .. Len(Keyed), NEW b \in 1 .. Len(Keyed), Keyed[a] = Keyed[b]
        PROVE  a = b
    <3>1. /\ a + Len(front) \in 1 .. Len(all) /\ ~(a + Len(front) <= Len(front))
          /\ b + Len(front) \in 1 .. Len(all) /\ ~(b + Len(front) <= Len(front))
          /\ (a + Len(front)) - Len(front) = a /\ (b + Len(front)) - Len(front) = b
      BY <1>1, <2>3
    <3>2. all[a + Len(front)] = Keyed[a] /\ all[b + Len(front)] = Keyed[b]
      BY <2>3, <3>1
    <3>3. a + Len(front) = b + Len(front)
      BY <2>1, <2>3, <2>4, <3>1, <3>2 DEF IsInjective
    <3> QED
      BY <2>3, <3>3
  <2> QED
    BY <1>1, <2>4, LenProperties DEF IsInjective
<1> HIDE DEF i
<1>5. /\ led \in Seq(Dispatch!Endpoints) /\ Len(led) = Len(Keyed)
      /\ \A j \in 1 .. Len(Keyed) :
            led[j] = Keyed[IF j = 1 THEN i ELSE IF j - 1 < i THEN j - 1 ELSE j]
  BY <1>1, <1>2, Led
<1>6. \A a, b \in 1 .. Len(Keyed) : led[a] = led[b] => a = b
  <2> DEFINE place(j) == IF j = 1 THEN i ELSE IF j - 1 < i THEN j - 1 ELSE j
  <2>1. \A j \in 1 .. Len(Keyed) : led[j] = Keyed[place(j)] /\ place(j) \in 1 .. Len(Keyed)
    BY <1>1, <1>2, <1>5
  <2>2. \A a, b \in 1 .. Len(Keyed) : place(a) = place(b) => a = b
    BY <1>1, <1>2
  <2> HIDE DEF place, led
  <2>3. \A a, b \in 1 .. Len(Keyed) : Keyed[a] = Keyed[b] => a = b
    BY <1>1, <1>4, LenProperties DEF IsInjective
  <2> QED
    BY <2>1, <2>2, <2>3
<1> HIDE DEF led
<1>7. /\ order \in Seq(Dispatch!Endpoints) /\ Len(order) = Attempts
      /\ \A j \in 1 .. Attempts : order[j] = led[j]
  BY <1>3, <1>5, Parted
<1> HIDE DEF order
<1>8. IsInjective(order)
  <2>1. DOMAIN order = 1 .. Attempts
    BY <1>7, LenProperties
  <2> QED
    BY <1>1, <1>3, <1>6, <1>7, <2>1 DEF IsInjective
<1>9. Cardinality(ToSet(order)) = Attempts
  BY <1>7, <1>8, Counted
<1>10. Dispatch!Dedicated = order
  BY <1>5 DEF order, led, i, Attempts, Dispatch!Dedicated
<1> QED
  BY <1>3, <1>7, <1>9, <1>10

-----------------------------------------------------------------------------
\* The dispatch

Request == [lane : Dispatch!Lanes \cup {"none"}, todo : Seq(Dispatch!Endpoints),
            out : SUBSET Dispatch!Endpoints, hedged : BOOLEAN,
            reverts : SUBSET Dispatch!Endpoints, failures : SUBSET Dispatch!Endpoints,
            verdict : Dispatch!Verdicts]

\* The endpoints that a request has called, calls or will call.
Covered(q) == q.out \cup ToSet(q.todo) \cup q.failures \cup q.reverts

\* A request of the free lanes calls one endpoint at a time and leaves none out; one of
\* the dedicated lane keeps to its endpoints.
GoesThrough(q) ==
    /\ q.lane \in {"standard", "verification"} =>
          /\ PaidLast(q.todo)
          /\ q.verdict = "none" =>
                /\ q.reverts = {} /\ Covered(q) = Dispatch!Endpoints
                /\ \E e \in Dispatch!Endpoints :
                      q.out = {e} /\ (e \in Paid => ToSet(q.todo) \subseteq Paid)
          /\ q.verdict = "failed" => q.failures = Dispatch!Endpoints
    /\ q.lane = "dedicated" =>
          /\ q.verdict = "none" => Cardinality(Covered(q)) = Attempts
          /\ q.verdict = "failed" => Cardinality(q.failures) = Attempts

GoodRequest(q) ==
    /\ q \in Request /\ GoesThrough(q)
    /\ q.lane = "none" => q.out = {} /\ q.verdict = "none"
    /\ q.lane # "none" => (q.verdict = "none" <=> q.out # {})
    /\ q.verdict = "failed" => q.reverts = {}

RotationOK ==
    /\ rotation \in [public : Nat, calls : Nat, key : Nat, keyCalls : Nat, verify : Nat]
    /\ rotation.public < Len(Publics) /\ rotation.verify < Len(Publics)
    /\ rotation.calls < RotationCalls /\ rotation.keyCalls < RotationCalls
    /\ rotation.key = 0 \/ rotation.key < Len(Keyed)

DispatchInv ==
    /\ RotationOK
    /\ DOMAIN req = Requests /\ req = [r \in Requests |-> req[r]]
    /\ \A r \in Requests : GoodRequest(req[r])

LEMMA IdleIsGood == GoodRequest(Dispatch!Idle)
<1>1. <<>> \in Seq(Dispatch!Endpoints)
  BY EmptySeq
<1> QED
  BY <1>1 DEF Dispatch!Idle, GoodRequest, GoesThrough, Request, Dispatch!Lanes, Dispatch!Verdicts

LEMMA DispatchStarts == Dispatch!RpcInit => DispatchInv
<1> SUFFICES ASSUME Dispatch!RpcInit PROVE DispatchInv
  OBVIOUS
<1>1. RotationOK
  BY Pools DEF Dispatch!RpcInit, RotationOK
<1> QED
  BY <1>1, IdleIsGood DEF Dispatch!RpcInit, DispatchInv

\* A request that begins in one of the free lanes.
LEMMA BeginsFree ==
  ASSUME NEW order, Serves(order), NEW lane \in {"standard", "verification"}
  PROVE  GoodRequest([Dispatch!Idle EXCEPT !.lane = lane, !.todo = Tail(order), !.out = {Head(order)}])
<1> DEFINE q == [Dispatch!Idle EXCEPT !.lane = lane, !.todo = Tail(order), !.out = {Head(order)}]
<1>1. /\ Head(order) \in Dispatch!Endpoints /\ Tail(order) \in Seq(Dispatch!Endpoints)
      /\ Dispatch!Endpoints = {Head(order)} \cup ToSet(Tail(order))
      /\ Head(order) \notin Paid /\ PaidLast(Tail(order))
  BY HeadAndTail, FreeOrPaid DEF Serves
<1>2. /\ q \in Request /\ q.lane = lane /\ q.todo = Tail(order) /\ q.out = {Head(order)}
      /\ q.reverts = {} /\ q.failures = {} /\ q.verdict = "none"
  BY <1>1 DEF Dispatch!Idle, Request, Dispatch!Lanes, Dispatch!Verdicts
<1> HIDE DEF q
<1>3. Covered(q) = Dispatch!Endpoints
  BY <1>1, <1>2 DEF Covered
<1>4. GoesThrough(q)
  BY <1>1, <1>2, <1>3 DEF GoesThrough
<1>5. GoodRequest(q)
  BY <1>2, <1>4 DEF GoodRequest
<1> QED
  BY <1>5 DEF q

\* A request that begins in the dedicated lane, hedged or not.
LEMMA BeginsDedicated ==
  ASSUME NEW order \in Seq(Dispatch!Endpoints), NEW first \in 1 .. Len(order),
         Cardinality(ToSet(order)) = Attempts, NEW hedged \in BOOLEAN
  PROVE  GoodRequest([Dispatch!Idle EXCEPT !.lane = "dedicated", !.hedged = hedged,
                                           !.out = ToSet(SubSeq(order, 1, first)),
                                           !.todo = SubSeq(order, first + 1, Len(order))])
<1> DEFINE one == SubSeq(order, 1, first)
           other == SubSeq(order, first + 1, Len(order))
           q == [Dispatch!Idle EXCEPT !.lane = "dedicated", !.hedged = hedged,
                                      !.out = ToSet(one), !.todo = other]
<1>1. /\ one \in Seq(Dispatch!Endpoints) /\ other \in Seq(Dispatch!Endpoints)
      /\ ToSet(one) # {} /\ ToSet(one) \cup ToSet(other) = ToSet(order)
      /\ ToSet(one) \subseteq Dispatch!Endpoints
  BY Parted, Elements
<1> HIDE DEF one, other
<1>2. /\ q \in Request /\ q.lane = "dedicated" /\ q.todo = other /\ q.out = ToSet(one)
      /\ q.reverts = {} /\ q.failures = {} /\ q.verdict = "none"
  BY <1>1 DEF Dispatch!Idle, Request, Dispatch!Lanes, Dispatch!Verdicts
<1> HIDE DEF q
<1>3. Covered(q) = ToSet(order)
  BY <1>1, <1>2 DEF Covered
<1>4. GoodRequest(q)
  BY <1>1, <1>2, <1>3 DEF GoodRequest, GoesThrough
<1> QED
  BY <1>4 DEF q, one, other

\* A request that ends before its endpoints do.
LEMMA Ended ==
  ASSUME NEW q, GoodRequest(q), q.out # {}, NEW verdict \in {"result", "revert", "aborted"}
  PROVE  GoodRequest([q EXCEPT !.verdict = verdict, !.out = {}])
<1> DEFINE next == [q EXCEPT !.verdict = verdict, !.out = {}]
<1>1. /\ next \in Request /\ next.lane = q.lane /\ next.todo = q.todo /\ next.out = {}
      /\ next.verdict = verdict
  BY DEF GoodRequest, Request, Dispatch!Verdicts
<1> HIDE DEF next
<1>2. GoodRequest(next)
  BY <1>1 DEF GoodRequest, GoesThrough
<1> QED
  BY <1>2 DEF next

\* An endpoint of a request has reverted or failed it.
LEMMA WithoutResult ==
  ASSUME NEW q, GoodRequest(q), NEW e \in q.out, NEW reverts, NEW failures,
         \/ reverts = q.reverts \cup {e} /\ failures = q.failures
         \/ reverts = q.reverts /\ failures = q.failures \cup {e}
  PROVE  GoodRequest(
           IF q.out # {e} THEN [q EXCEPT !.out = q.out \ {e}, !.reverts = reverts, !.failures = failures]
           ELSE IF reverts # {}
           THEN [q EXCEPT !.out = {}, !.reverts = reverts, !.failures = failures, !.verdict = "revert"]
           ELSE IF q.todo = <<>> THEN [q EXCEPT !.out = {}, !.failures = failures, !.verdict = "failed"]
           ELSE [q EXCEPT !.out = {Head(q.todo)}, !.todo = Tail(q.todo), !.hedged = FALSE,
                          !.failures = failures])
<1>0. /\ q \in Request /\ GoesThrough(q) /\ q.lane # "none" /\ q.verdict = "none"
      /\ q.todo \in Seq(Dispatch!Endpoints) /\ q.out \subseteq Dispatch!Endpoints
      /\ reverts \subseteq Dispatch!Endpoints /\ failures \subseteq Dispatch!Endpoints
  BY DEF GoodRequest, Request
<1>1. CASE q.out # {e}
  <2> DEFINE next == [q EXCEPT !.out = q.out \ {e}, !.reverts = reverts, !.failures = failures]
  <2>1. /\ next \in Request /\ next.lane = q.lane /\ next.todo = q.todo /\ next.out = q.out \ {e}
        /\ next.reverts = reverts /\ next.failures = failures /\ next.verdict = "none"
    BY <1>0 DEF Request
  <2> HIDE DEF next
  <2>2. q.lane = "dedicated"
    BY <1>0, <1>1 DEF GoesThrough, Request, Dispatch!Lanes
  <2>3. Covered(next) = Covered(q)
    BY <2>1 DEF Covered
  <2>4. GoodRequest(next)
    BY <1>0, <1>1, <2>1, <2>2, <2>3 DEF GoodRequest, GoesThrough
  <2> QED
    BY <1>1, <2>4 DEF next
<1>2. CASE q.out = {e} /\ reverts # {}
  <2> DEFINE next == [q EXCEPT !.out = {}, !.reverts = reverts, !.failures = failures,
                               !.verdict = "revert"]
  <2>1. /\ next \in Request /\ next.lane = q.lane /\ next.todo = q.todo /\ next.out = {}
        /\ next.verdict = "revert"
    BY <1>0 DEF Request, Dispatch!Verdicts
  <2> HIDE DEF next
  <2>2. GoodRequest(next)
    BY <1>0, <2>1 DEF GoodRequest, GoesThrough
  <2> QED
    BY <1>2, <2>2 DEF next
<1>3. CASE q.out = {e} /\ reverts = {} /\ q.todo = <<>>
  <2> DEFINE next == [q EXCEPT !.out = {}, !.failures = failures, !.verdict = "failed"]
  <2>1. /\ next \in Request /\ next.lane = q.lane /\ next.todo = q.todo /\ next.out = {}
        /\ next.verdict = "failed" /\ next.failures = failures /\ next.reverts = q.reverts
    BY <1>0 DEF Request, Dispatch!Verdicts
  <2> HIDE DEF next
  <2>2. q.reverts = {} /\ failures = q.failures \cup {e}
    BY <1>3
  <2>3. ToSet(q.todo) = {}
    BY <1>3 DEF ToSet
  <2>4. Covered(q) = failures
    BY <1>3, <2>2, <2>3 DEF Covered
  <2>5. GoodRequest(next)
    BY <1>0, <2>1, <2>2, <2>4 DEF GoodRequest, GoesThrough
  <2> QED
    BY <1>3, <2>5 DEF next
<1>4. CASE q.out = {e} /\ reverts = {} /\ q.todo # <<>>
  <2> DEFINE next == [q EXCEPT !.out = {Head(q.todo)}, !.todo = Tail(q.todo), !.hedged = FALSE,
                               !.failures = failures]
  <2>1. /\ Head(q.todo) \in Dispatch!Endpoints /\ Tail(q.todo) \in Seq(Dispatch!Endpoints)
        /\ ToSet(q.todo) = {Head(q.todo)} \cup ToSet(Tail(q.todo))
    BY <1>0, <1>4, HeadAndTail
  <2>2. /\ next \in Request /\ next.lane = q.lane /\ next.todo = Tail(q.todo)
        /\ next.out = {Head(q.todo)} /\ next.reverts = q.reverts /\ next.failures = failures
        /\ next.verdict = "none"
    BY <1>0, <2>1 DEF Request
  <2> HIDE DEF next
  <2>3. q.reverts = {} /\ failures = q.failures \cup {e}
    BY <1>4
  <2>4. Covered(next) = Covered(q)
    BY <1>4, <2>1, <2>2, <2>3 DEF Covered
  <2>5. q.lane \in {"standard", "verification"} =>
           /\ PaidLast(next.todo) /\ (Head(q.todo) \in Paid => ToSet(next.todo) \subseteq Paid)
    BY <1>0, <1>4, <2>2, PaidFromThere DEF GoesThrough
  <2>6. GoesThrough(next)
    BY <1>0, <2>1, <2>2, <2>3, <2>4, <2>5 DEF GoesThrough
  <2>7. GoodRequest(next)
    BY <1>0, <2>2, <2>3, <2>6 DEF GoodRequest
  <2> QED
    BY <1>4, <2>7 DEF next
<1> QED
  BY <1>1, <1>2, <1>3, <1>4

\* The next place of a pool is a place of it, after at most as many calls as allowed.
LEMMA Advanced ==
  ASSUME NEW pool, Len(pool) \in Nat, NEW i \in Nat, i < Len(pool),
         NEW calls \in Nat, calls < RotationCalls
  PROVE  /\ Dispatch!Advance(i, calls, pool)[1] \in Nat
         /\ Dispatch!Advance(i, calls, pool)[1] < Len(pool)
         /\ Dispatch!Advance(i, calls, pool)[2] \in Nat
         /\ Dispatch!Advance(i, calls, pool)[2] < RotationCalls
<1>1. RotationCalls \in Nat /\ RotationCalls > 0
  BY Pools
<1>2. (i + 1) % Len(pool) \in 0 .. Len(pool) - 1
  OBVIOUS
<1> QED
  BY <1>1, <1>2 DEF Dispatch!Advance

LEMMA OneRequestKeeps ==
  ASSUME DispatchInv, NEW r \in Requests, NEW next, GoodRequest(next),
         req' = [req EXCEPT ![r] = next], RotationOK'
  PROVE  DispatchInv'
<1>1. \A o \in Requests : req'[o] = IF o = r THEN next ELSE req[o]
  BY DEF DispatchInv
<1>2. DOMAIN req' = Requests /\ req' = [o \in Requests |-> req'[o]]
  BY DEF DispatchInv
<1> QED
  BY <1>1, <1>2 DEF DispatchInv

LEMMA BeginStandardKeeps ==
  ASSUME DispatchInv, NEW r \in Requests, NEW lane, Dispatch!BeginStandard(r, lane)
  PROVE  DispatchInv'
<1> DEFINE ahead == Dispatch!Advance(rotation.public, rotation.calls, Publics)
           order == Dispatch!Standard
           begun == [Dispatch!Idle EXCEPT !.lane = "standard", !.todo = Tail(order),
                                          !.out = {Head(order)}]
<1>1. /\ rotation' = [rotation EXCEPT !.public = ahead[1], !.calls = ahead[2]]
      /\ req' = [req EXCEPT ![r] = begun]
  BY DEF Dispatch!BeginStandard
<1>2. RotationOK /\ Len(Publics) \in Nat
  BY Pools DEF DispatchInv
<1>3. GoodRequest(begun)
  <2>1. Serves(order)
    BY <1>2, StandardServes DEF RotationOK
  <2> HIDE DEF order
  <2> QED
    BY <2>1, BeginsFree
<1>4. /\ ahead[1] \in Nat /\ ahead[1] < Len(Publics) /\ ahead[2] \in Nat
      /\ ahead[2] < RotationCalls
  BY <1>2, Advanced DEF RotationOK
<1> HIDE DEF ahead, begun
<1>5. RotationOK'
  BY <1>1, <1>2, <1>4 DEF RotationOK
<1> QED
  BY <1>1, <1>3, <1>5, OneRequestKeeps

LEMMA BeginVerificationKeeps ==
  ASSUME DispatchInv, NEW r \in Requests, Dispatch!BeginVerification(r)
  PROVE  DispatchInv'
<1> DEFINE order == Dispatch!Verification
           begun == [Dispatch!Idle EXCEPT !.lane = "verification", !.todo = Tail(order),
                                          !.out = {Head(order)}]
           verify == (rotation.verify + 1) % Len(Publics)
<1>1. rotation' = [rotation EXCEPT !.verify = verify] /\ req' = [req EXCEPT ![r] = begun]
  BY DEF Dispatch!BeginVerification
<1>2. RotationOK /\ Len(Publics) \in Nat /\ Len(Publics) > 0
  BY Pools DEF DispatchInv
<1>3. GoodRequest(begun)
  <2>1. Serves(order)
    BY <1>2, VerificationServes DEF RotationOK
  <2> HIDE DEF order
  <2> QED
    BY <2>1, BeginsFree
<1>4. verify \in Nat /\ verify < Len(Publics)
  BY <1>2 DEF RotationOK
<1> HIDE DEF verify, begun
<1>5. RotationOK'
  BY <1>1, <1>2, <1>4 DEF RotationOK
<1> QED
  BY <1>1, <1>3, <1>5, OneRequestKeeps

LEMMA BeginDedicatedKeeps ==
  ASSUME DispatchInv, NEW r \in Requests, Dispatch!BeginDedicated(r)
  PROVE  DispatchInv'
<1> DEFINE ahead == Dispatch!Advance(rotation.key, rotation.keyCalls, Keyed)
           order == Dispatch!Dedicated
           hedged == Dispatch!Hedged > 1
           first == IF hedged THEN Dispatch!Hedged ELSE 1
           begun == [Dispatch!Idle EXCEPT !.lane = "dedicated", !.hedged = hedged,
                                          !.out = ToSet(SubSeq(order, 1, first)),
                                          !.todo = SubSeq(order, first + 1, Len(order))]
<1>1. /\ Keyed # <<>>
      /\ rotation' = [rotation EXCEPT !.key = ahead[1], !.keyCalls = ahead[2]]
      /\ req' = [req EXCEPT ![r] = begun]
  BY LibraryOperators DEF Dispatch!BeginDedicated, Dispatch!Rest
<1>2. /\ RotationOK /\ Len(Keyed) \in Nat /\ Len(Keyed) > 0 /\ rotation.key < Len(Keyed)
  BY <1>1, Pools, EmptySeq DEF DispatchInv, RotationOK
<1>3. /\ order \in Seq(Dispatch!Endpoints) /\ Attempts \in Nat /\ Attempts > 0
      /\ Len(order) = Attempts /\ Cardinality(ToSet(order)) = Attempts
  BY <1>1, <1>2, DedicatedOrder DEF RotationOK
<1>4. Dispatch!Hedged = IF Hedge < Len(order) THEN Hedge ELSE Len(order)
  BY DEF Dispatch!Hedged
<1>5. first \in 1 .. Len(order) /\ hedged \in BOOLEAN
  BY <1>3, <1>4, Pools
<1> HIDE DEF order, first, hedged
<1>6. GoodRequest(begun)
  BY <1>3, <1>5, BeginsDedicated
<1>7. /\ ahead[1] \in Nat /\ ahead[1] < Len(Keyed) /\ ahead[2] \in Nat
      /\ ahead[2] < RotationCalls
  BY <1>2, Advanced DEF RotationOK
<1> HIDE DEF ahead, begun
<1>8. RotationOK'
  BY <1>1, <1>2, <1>7 DEF RotationOK
<1> QED
  BY <1>1, <1>6, <1>8, OneRequestKeeps

LEMMA AnswerKeeps ==
  ASSUME DispatchInv, NEW r \in Requests, NEW e, Dispatch!Answer(r, e)
  PROVE  DispatchInv'
<1> DEFINE q == req[r]
<1>0. /\ e \in q.out /\ GoodRequest(q) /\ UNCHANGED rotation /\ RotationOK'
  BY DEF Dispatch!Answer, Dispatch!Result, Dispatch!Revert, Dispatch!Failure, DispatchInv, RotationOK
<1>1. CASE Dispatch!Result(r, e)
  <2>1. req' = [req EXCEPT ![r] = [q EXCEPT !.verdict = "result", !.out = {}]]
    BY <1>1 DEF Dispatch!Result, Dispatch!Ends
  <2>2. GoodRequest([q EXCEPT !.verdict = "result", !.out = {}])
    BY <1>0, Ended, Zenon
  <2> QED
    BY <1>0, <2>1, <2>2, OneRequestKeeps
<1>2. ASSUME NEW reverts, NEW failures, Dispatch!NoResult(r, e, reverts, failures),
             \/ reverts = q.reverts \cup {e} /\ failures = q.failures
             \/ reverts = q.reverts /\ failures = q.failures \cup {e}
      PROVE  DispatchInv'
  <2> DEFINE next ==
        IF q.out # {e} THEN [q EXCEPT !.out = q.out \ {e}, !.reverts = reverts, !.failures = failures]
        ELSE IF reverts # {}
        THEN [q EXCEPT !.out = {}, !.reverts = reverts, !.failures = failures, !.verdict = "revert"]
        ELSE IF q.todo = <<>> THEN [q EXCEPT !.out = {}, !.failures = failures, !.verdict = "failed"]
        ELSE [q EXCEPT !.out = {Head(q.todo)}, !.todo = Tail(q.todo), !.hedged = FALSE,
                       !.failures = failures]
  <2>1. req' = [req EXCEPT ![r] = next]
    BY <1>2, Zenon DEF Dispatch!NoResult, Dispatch!After
  <2>2. GoodRequest(next)
    BY <1>0, <1>2, WithoutResult, Zenon
  <2> HIDE DEF next
  <2> QED
    BY <1>0, <2>1, <2>2, OneRequestKeeps
<1>3. CASE Dispatch!Revert(r, e) \/ Dispatch!Failure(r, e)
  BY <1>2, <1>3 DEF Dispatch!Revert, Dispatch!Failure
<1> QED
  BY <1>1, <1>3 DEF Dispatch!Answer

LEMMA AbortKeeps ==
  ASSUME DispatchInv, NEW r \in Requests, Dispatch!Abort(r)
  PROVE  DispatchInv'
<1> DEFINE q == req[r]
           verdict == IF q.reverts # {} THEN "revert" ELSE "aborted"
<1>1. /\ q.out # {} /\ GoodRequest(q) /\ UNCHANGED rotation /\ RotationOK'
  BY DEF Dispatch!Abort, Dispatch!Running, DispatchInv, GoodRequest, RotationOK
<1>2. req' = [req EXCEPT ![r] = [q EXCEPT !.verdict = verdict, !.out = {}]]
  BY Zenon DEF Dispatch!Abort, Dispatch!Ends, verdict, q
<1>3. verdict \in {"result", "revert", "aborted"}
  OBVIOUS
<1> HIDE DEF verdict
<1>4. GoodRequest([q EXCEPT !.verdict = verdict, !.out = {}])
  BY <1>1, <1>3, Ended, Zenon
<1> QED
  BY <1>1, <1>2, <1>4, OneRequestKeeps

LEMMA DispatchKeeps == DispatchInv /\ [Dispatch!RpcNext]_dispatchState => DispatchInv'
<1> SUFFICES ASSUME DispatchInv, [Dispatch!RpcNext]_dispatchState PROVE DispatchInv'
  OBVIOUS
<1>1. CASE UNCHANGED dispatchState
  BY <1>1 DEF dispatchState, DispatchInv, RotationOK
<1>2. CASE Dispatch!RpcNext
  BY <1>2, BeginStandardKeeps, BeginVerificationKeeps, BeginDedicatedKeeps, AnswerKeeps, AbortKeeps
     DEF Dispatch!RpcNext
<1> QED
  BY <1>1, <1>2

\* What the invariant says of the endpoints of a request.
LEMMA InOrder == DispatchInv => EndpointsInOrder
<1> SUFFICES ASSUME DispatchInv PROVE EndpointsInOrder
  OBVIOUS
<1>1. Dispatch!BackstopLast
  <2> SUFFICES ASSUME NEW r \in Requests, req[r].lane \in {"standard", "verification"},
                      req[r].out \cap Paid # {}
               PROVE  Free \subseteq req[r].failures
    BY LibraryOperators DEF Dispatch!BackstopLast, Free, Paid
  <2> DEFINE q == req[r]
  <2>1. /\ q.verdict = "none" /\ GoesThrough(q)
    BY DEF DispatchInv, GoodRequest
  <2>2. PICK e \in Dispatch!Endpoints : q.out = {e} /\ (e \in Paid => ToSet(q.todo) \subseteq Paid)
    BY <2>1 DEF GoesThrough
  <2>3. q.reverts = {} /\ Covered(q) = Free \cup Paid
    BY <2>1, Pools DEF GoesThrough
  <2>4. e \in Paid /\ ToSet(q.todo) \subseteq Paid
    BY <2>2
  <2> HIDE DEF q
  <2>5. Free \subseteq q.failures
    BY <2>2, <2>3, <2>4, FreeOrPaid DEF Covered
  <2> QED
    BY <2>5 DEF q
<1>2. Dispatch!GivesUpLast
  <2> SUFFICES ASSUME NEW r \in Requests, req[r].verdict = "failed"
               PROVE  /\ req[r].reverts = {}
                      /\ IF req[r].lane = "dedicated" THEN Cardinality(req[r].failures) = Attempts
                         ELSE req[r].failures = Dispatch!Endpoints
    BY LibraryOperators DEF Dispatch!GivesUpLast, Attempts
  <2>1. GoodRequest(req[r])
    BY DEF DispatchInv
  <2>2. req[r].lane \in {"standard", "verification", "dedicated"}
    BY <2>1 DEF GoodRequest, Request, Dispatch!Lanes
  <2> QED
    BY <2>1, <2>2 DEF GoodRequest, GoesThrough
<1> QED
  BY <1>1, <1>2 DEF EndpointsInOrder

LEMMA DispatchTyped == DispatchInv => Dispatch!RpcTypeOK
<1> SUFFICES ASSUME DispatchInv PROVE Dispatch!RpcTypeOK
  OBVIOUS
<1>1. /\ rotation.public \in 0 .. Len(Publics) - 1 /\ rotation.verify \in 0 .. Len(Publics) - 1
      /\ rotation.calls \in 0 .. RotationCalls - 1 /\ rotation.keyCalls \in 0 .. RotationCalls - 1
      /\ rotation.key \in 0 .. Len(Keyed)
  BY Pools DEF DispatchInv, RotationOK
<1>2. ASSUME NEW r \in Requests
      PROVE  /\ req[r].lane \in Dispatch!Lanes \cup {"none"} /\ req[r].verdict \in Dispatch!Verdicts
             /\ ToSet(req[r].todo) \cup req[r].out \cup req[r].reverts \cup req[r].failures
                   \subseteq Dispatch!Endpoints
             /\ Dispatch!Running(r) <=> req[r].out # {}
  <2>1. GoodRequest(req[r])
    BY DEF DispatchInv
  <2>2. ToSet(req[r].todo) \subseteq Dispatch!Endpoints
    BY <2>1, Elements DEF GoodRequest, Request
  <2> QED
    BY <2>1, <2>2 DEF GoodRequest, Request, Dispatch!Running
<1> QED
  BY <1>1, <1>2, LibraryOperators DEF Dispatch!RpcTypeOK

-----------------------------------------------------------------------------
\* All outgoing requests: one component is active and the others stay as they began.

RequestsInv ==
    /\ active \in {"batcher", "governor", "dispatch"}
    /\ BatcherInv /\ GovernorInv /\ DispatchInv

all == <<active, vars, governorState, dispatchState>>

LEMMA RequestsStart == RequestsInit => RequestsInv
BY BatcherStarts, GovernorStarts, DispatchStarts DEF RequestsInit, RequestsInv

\* A step of the system is a step of each component, or leaves it alone.
LEMMA StepsOfComponents ==
  [RequestsNext]_all =>
      /\ [BatcherNext]_vars /\ [Governor!GovernorNext]_governorState
      /\ [Dispatch!RpcNext]_dispatchState /\ active' = active
BY DEF RequestsNext, all, BatcherRuns, GovernorRuns, DispatchRuns

LEMMA RequestsKeep == RequestsInv /\ [RequestsNext]_all => RequestsInv'
BY StepsOfComponents, BatcherKeeps, GovernorKeeps, DispatchKeeps DEF RequestsInv

LEMMA RequestsInvariant == RequestsSpec => []RequestsInv
<1>1. RequestsInit => RequestsInv
  BY RequestsStart
<1>2. RequestsInv /\ [RequestsNext]_all => RequestsInv'
  BY RequestsKeep
<1> QED
  BY <1>1, <1>2, PTL DEF RequestsSpec, all

\* Type correctness of the component that is active.
THEOREM RequestsTyped == RequestsSpec => []RequestsTypeOK
<1>1. RequestsInv => RequestsTypeOK
  BY DispatchTyped DEF RequestsInv, BatcherInv, GovernorInv, RequestsTypeOK
<1> QED
  BY <1>1, RequestsInvariant, PTL

\* multicallBatcher.ts: a call that waits for its answer is in one place, the queue, one
\* batch or the direct calls, and no other call is anywhere.
THEOREM CallsInOnePlace == RequestsSpec => []EachInOnePlace
<1>1. RequestsInv => EachInOnePlace
  BY DEF RequestsInv, BatcherInv
<1> QED
  BY <1>1, RequestsInvariant, PTL

\* multicallBatcher.ts, "must never be worse than the direct path": what callers see of
\* batching are steps of direct calls.
THEOREM BatchingImplementsDirect ==
  RequestsSpec => Direct!DirectInit /\ [][Direct!DirectNext]_(Direct!directVars)
<1>1. RequestsInit => Direct!DirectInit
  BY DEF RequestsInit, BatcherInit, Direct!DirectInit
<1>2. RequestsInv /\ [RequestsNext]_all => [Direct!DirectNext]_(Direct!directVars)
  BY StepsOfComponents, BatcherImplements DEF RequestsInv
<1> QED
  BY <1>1, <1>2, RequestsInvariant, PTL DEF RequestsSpec, all

\* aggregatorGovernor.ts: who is told of a route, or of none, is told what the provider
\* said last, no longer ago than the cache allows.
THEOREM ProvidersAnswer == RequestsSpec => []AnswersAreTheProviders
<1>1. RequestsInv => AnswersAreTheProviders
  BY DEF RequestsInv, GovernorInv, Remembered, ToldInTime, AnswersAreTheProviders,
     Governor!AnswersAreTheProviders
<1> QED
  BY <1>1, RequestsInvariant, PTL

\* aggregatorGovernor.ts, "per-provider serial queue": no call starts while another is
\* served, in a cool-off, after its deadline or after the maximal wait.
THEOREM CallsStartInTime == RequestsSpec => StartsInTime
<1>1. RequestsInv /\ [RequestsNext]_all =>
         [\A k \in Keys : ~Governor!At(k, "fetch") /\ Governor!At(k, "fetch")' =>
             /\ \A j \in Keys : ~Governor!At(j, "fetch")
             /\ now >= breakerUntil /\ now < flight[k].deadline
             /\ now - flight[k].since <= MaxWait]_(Governor!vars)
  BY StepsOfComponents, StartsInTurn DEF RequestsInv
<1> QED
  BY <1>1, RequestsInvariant, PTL DEF RequestsSpec, all, StartsInTime, Governor!StartsInTime

\* baseRpc.ts and chainRpc.ts: the paid endpoints serve what every free one has failed, and
\* a request gives up when every endpoint of its lane has failed it and none reverted.
THEOREM RequestsInOrder == RequestsSpec => []EndpointsInOrder
<1>1. RequestsInv => EndpointsInOrder
  BY InOrder DEF RequestsInv
<1> QED
  BY <1>1, RequestsInvariant, PTL

=============================================================================
