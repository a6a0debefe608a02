----------------------------- MODULE QuestRewards -----------------------------
(***************************************************************************)
(* How a quest is completed and rewarded (apps/api/src/services/           *)
(* questEngine.ts): syncSweepProgressForQuest for the on-chain quests of a *)
(* wallet, startDelayQuest and verifyDelayQuest for the quests that open   *)
(* after a delay, and completeQuest with upsertProgress for both.          *)
(*                                                                         *)
(* Every await is a step.  A quest_progress row keeps what decides a       *)
(* reward: whether it was opened, completed (completed_at) and rewarded    *)
(* (rewarded_at).  One quest of each kind in one cycle stands for all: no  *)
(* two share a row.                                                        *)
(***************************************************************************)
EXTENDS Naturals

CONSTANTS
    OnchainQuests, DelayQuests,
    Target,       \* sweeps that complete an on-chain quest
    Requests,     \* requests served at a time
    SyncsOverlap, \* whether two syncs of one wallet may overlap
    NoQuest,
    MaxFaults     \* bound on crashes and awards that fail

Quests == OnchainQuests \cup DelayQuests

QuestsAssumption ==
    /\ OnchainQuests \cap DelayQuests = {} /\ NoQuest \notin Quests
    /\ Target \in Nat \ {0} /\ SyncsOverlap \in BOOLEAN /\ MaxFaults \in Nat

VARIABLES
    swept,    \* sweeps recorded for the wallet
    progress, \* quest_progress
    awarded,  \* quest_completion awards, by quest
    thrown,   \* history: those after which awardCustomPoints threw all the same
    serving,  \* where each request is and what it has read
    trouble   \* faults so far

questVars == <<swept, progress, awarded, thrown, serving, trouble>>

Row == [exists : BOOLEAN, opened : BOOLEAN, completed : BOOLEAN, rewarded : BOOLEAN]
NoRow == [exists |-> FALSE, opened |-> FALSE, completed |-> FALSE, rewarded |-> FALSE]
Places == {"idle", "existing", "save", "open", "load", "mend", "claim", "award",
           "commission", "release"}
Idle == [at |-> "idle", quest |-> NoQuest, seen |-> NoRow, volume |-> 0]

QuestsInit ==
    /\ swept = 0 /\ trouble = 0
    /\ progress = [q \in Quests |-> NoRow]
    /\ awarded = [q \in Quests |-> 0] /\ thrown = [q \in Quests |-> 0]
    /\ serving = [r \in Requests |-> Idle]

-----------------------------------------------------------------------------

At(r, place) == serving[r].at = place
Quest(r) == serving[r].quest
Seen(r) == serving[r].seen
Goto(r, place) == serving' = [serving EXCEPT ![r].at = place]
Remember(r, place) ==
    serving' = [serving EXCEPT ![r].at = place, ![r].seen = progress[Quest(r)]]
Return(r) == serving' = [serving EXCEPT ![r] = Idle]
Begin(r, q, place, seen) ==
    /\ At(r, "idle")
    /\ serving' = [serving EXCEPT ![r] =
                      [at |-> place, quest |-> q, seen |-> seen, volume |-> swept]]

\* upsertProgress writes every column, from the row that was read and the updates.
Saved(seen, updates) == [updates EXCEPT !.exists = TRUE, !.rewarded = seen.rewarded]

RecordSweep ==
    /\ swept < Target
    /\ swept' = swept + 1
    /\ UNCHANGED <<progress, awarded, thrown, serving, trouble>>

Syncing(r) == Quest(r) \in OnchainQuests

\* syncSweepProgressForQuest: the sweeps are added up, then the row is read.
BeginSync(r) ==
    \E q \in OnchainQuests :
        /\ SyncsOverlap \/ \A s \in Requests : ~Syncing(s)
        /\ Begin(r, q, "existing", NoRow)
        /\ UNCHANGED <<swept, progress, awarded, thrown, trouble>>
ReadExisting(r) ==
    /\ At(r, "existing") /\ Remember(r, "save")
    /\ UNCHANGED <<swept, progress, awarded, thrown, trouble>>
SaveProgress(r) ==
    LET q == Quest(r)  done == serving[r].volume >= Target
    IN  /\ At(r, "save")
        /\ progress' = [progress EXCEPT ![q] = Saved(Seen(r), [Seen(r) EXCEPT !.completed = done])]
        /\ IF done /\ ~Seen(r).completed THEN Goto(r, "load") ELSE Return(r)
        /\ UNCHANGED <<swept, awarded, thrown, trouble>>

\* startDelayQuest, one at a time (runtimeCache.singleFlight) and once.
BeginStart(r) ==
    \E q \in DelayQuests :
        /\ \A s \in Requests : ~(Quest(s) = q /\ At(s, "open"))
        /\ ~progress[q].opened
        /\ Begin(r, q, "open", progress[q])
        /\ UNCHANGED <<swept, progress, awarded, thrown, trouble>>
\* The writes a request ends with: the quest is opened, or a row that completeQuest
\* found rewarded and not completed is completed without a reward.
WriteBack(r) ==
    /\ At(r, "open") \/ At(r, "mend")
    /\ progress' = [progress EXCEPT ![Quest(r)] = Saved(Seen(r),
           IF At(r, "open") THEN [Seen(r) EXCEPT !.opened = TRUE]
                            ELSE [Seen(r) EXCEPT !.completed = TRUE])]
    /\ Return(r)
    /\ UNCHANGED <<swept, awarded, thrown, trouble>>

\* verifyDelayQuest, after the delay.
BeginVerify(r) ==
    \E q \in DelayQuests :
        /\ progress[q].opened
        /\ Begin(r, q, "load", NoRow)
        /\ UNCHANGED <<swept, progress, awarded, thrown, trouble>>

-----------------------------------------------------------------------------
\* completeQuest

LoadProgress(r) ==
    LET now == progress[Quest(r)]
    IN  /\ At(r, "load")
        /\ IF ~now.rewarded THEN Remember(r, "claim")
           ELSE IF ~now.completed THEN Remember(r, "mend") ELSE Return(r)
        /\ UNCHANGED <<swept, progress, awarded, thrown, trouble>>

\* Faulty variant of ClaimReward: the read-then-write guard the code replaced.
ClaimUnguarded(r) ==
    /\ At(r, "claim")
    /\ progress' = [progress EXCEPT ![Quest(r)].completed = TRUE, ![Quest(r)].rewarded = TRUE]
    /\ Goto(r, "award")
    /\ UNCHANGED <<swept, awarded, thrown, trouble>>

\* One conditional UPDATE.
ClaimReward(r) ==
    /\ At(r, "claim")
    /\ IF progress[Quest(r)].rewarded THEN progress' = progress /\ Return(r)
       ELSE /\ progress' = [progress EXCEPT ![Quest(r)].completed = TRUE,
                                            ![Quest(r)].rewarded = TRUE]
            /\ Goto(r, "award")
    /\ UNCHANGED <<swept, awarded, thrown, trouble>>

\* awardCustomPoints: addPoints inserts the event and raises the balance, then waits for
\* the commission of the referrer.
Award(r) ==
    /\ At(r, "award")
    /\ awarded' = [awarded EXCEPT ![Quest(r)] = @ + 1]
    /\ Goto(r, "commission")
    /\ UNCHANGED <<swept, progress, thrown, trouble>>
CommissionDone(r) ==
    /\ At(r, "commission") /\ Return(r)
    /\ UNCHANGED <<swept, progress, awarded, thrown, trouble>>

\* awardCustomPoints throws, before the points are given (getOrCreate) or afterwards
\* (updateReferralLedger), and either way the claim is released for a later sync.
AwardFails(r) ==
    /\ At(r, "award") /\ trouble < MaxFaults
    /\ trouble' = trouble + 1
    /\ Goto(r, "release")
    /\ UNCHANGED <<swept, progress, awarded, thrown>>
CommissionFails(r) ==
    /\ At(r, "commission") /\ trouble < MaxFaults
    /\ trouble' = trouble + 1
    /\ thrown' = [thrown EXCEPT ![Quest(r)] = @ + 1]
    /\ Goto(r, "release")
    /\ UNCHANGED <<swept, progress, awarded>>
ReleaseClaim(r) ==
    /\ At(r, "release")
    /\ progress' = [progress EXCEPT ![Quest(r)].rewarded = FALSE]
    /\ Return(r)
    /\ UNCHANGED <<swept, awarded, thrown, trouble>>

\* A statement fails, or the process dies.
Abandon(r) ==
    /\ ~At(r, "idle") /\ trouble < MaxFaults
    /\ trouble' = trouble + 1
    /\ Return(r)
    /\ UNCHANGED <<swept, progress, awarded, thrown>>

QuestStep(r) ==
    \/ BeginSync(r) \/ ReadExisting(r) \/ SaveProgress(r)
    \/ BeginStart(r) \/ WriteBack(r) \/ BeginVerify(r)
    \/ LoadProgress(r) \/ ClaimReward(r)
    \/ Award(r) \/ CommissionDone(r) \/ AwardFails(r) \/ CommissionFails(r)
    \/ ReleaseClaim(r) \/ Abandon(r)

QuestsNext == RecordSweep \/ \E r \in Requests : QuestStep(r)

QuestsSpec == QuestsInit /\ [][QuestsNext]_questVars

-----------------------------------------------------------------------------

QuestsTypeOK ==
    /\ swept \in 0 .. Target /\ trouble \in 0 .. MaxFaults
    /\ progress \in [Quests -> Row] /\ awarded \in [Quests -> Nat]
    /\ thrown \in [Quests -> Nat]
    /\ serving \in [Requests -> [at : Places, quest : Quests \cup {NoQuest},
                                 seen : Row, volume : Nat]]

\* A comment of completeQuest: points are granted exactly once, even when several
\* syncs race.
QuestRewardedOnce == \A q \in Quests : awarded[q] <= 1

\* What the claim does ensure: a quest is rewarded again only for a reward whose
\* commission threw after the points were given, and whose claim was released for that.
RewardedAgainAfterThrow == \A q \in Quests : awarded[q] <= 1 + thrown[q]

\* Nobody is rewarded for what he has not done.
RewardedForWork ==
    \A q \in Quests : awarded[q] > 0 =>
        IF q \in OnchainQuests THEN swept >= Target ELSE progress[q].opened

=============================================================================
