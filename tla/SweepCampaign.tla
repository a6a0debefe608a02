---------------------------- MODULE SweepCampaign ----------------------------
(***************************************************************************)
(* Credits, standings and prizes of the sweep campaign                     *)
(* (apps/api/src/services/sweepCampaign.ts and sql/sweep_campaign*.sql):   *)
(* enqueueCandidate, verifyCredit, requeueCredit, claimTier, claimPrize,   *)
(* approveClaims, openPrizeClaims and finalizeCampaign.  SweepPayouts has  *)
(* what happens to a claim once it is pending_payout.                      *)
(*                                                                         *)
(* The campaign is over and its claims are not closed yet, so that every   *)
(* operation is possible; whether a sweep was in time is part of what it   *)
(* is worth.  A request is a handler or a pass of the scheduler, and may   *)
(* die between any two of its awaits.  The row of the campaign is read     *)
(* through a cache of one minute.  A user has one wallet.                  *)
(***************************************************************************)
EXTENDS Amounts, Sequences, SequencesExt, FiniteSetsExt

CONSTANTS
    Hashes,         \* hashes clients submit, of transactions or of user operations
    Sweep,          \* the execution a hash leads to, or NoSweep
    Users,          \* user ids
    Tiers,          \* tiers of the campaign
    Threshold,      \* volume that unlocks a tier
    Prizes,         \* number of ranks with a prize
    MaxAttempts,    \* VERIFY_MAX_ATTEMPTS
    MayForce,       \* whether the admin passes force to finalizeCampaign
    Requests,
    MaxFaults,      \* bound on failures, deaths and requeued credits
    NoSweep, NoCopy, NoHash, NoUser

\* worth: what the sweeper received, up to the cap per sweep, or 0 when verifyCredit
\* rejects the execution (reverted, another router, no fee, unknown token, too late).
Execution == [tx : Nat, user : Users, worth : Nat]

CampaignAssumption ==
    /\ IsFiniteSet(Hashes) /\ Users \subseteq Nat
    /\ Sweep \in [Hashes -> Execution \cup {NoSweep}]
    /\ \A g, h \in Hashes : Sweep[g] # NoSweep /\ Sweep[h] # NoSweep
                              => (Sweep[g].tx = Sweep[h].tx <=> Sweep[g] = Sweep[h])
    /\ Threshold \in [Tiers -> Nat \ {0}] /\ Prizes \in Nat /\ MaxAttempts \in Nat \ {0}
    /\ MayForce \in BOOLEAN /\ MaxFaults \in Nat
    /\ NoHash \notin Hashes /\ NoUser \notin Users

VARIABLES
    campaign,   \* the row of sweep_campaigns
    cached,     \* its copy in the runtime cache
    credits,    \* rows of sweep_campaign_credits, by submitted hash
    verified,   \* the verified ones, in the order of verified_at
    tierClaims, \* rows of sweep_campaign_claims for tiers, as <<user, tier>>
    prizes,     \* rows for prizes, by user; rank 0 when there is none
    events,     \* users with the points event of a prize
    awards,     \* history: times the points of a prize were given, by user
    releases,   \* history: times a prize was released for payout
    job,        \* what each request is doing
    late,       \* history: a credit was verified after the standings were frozen
    faults

campaignVars == <<campaign, cached, credits, verified, tierClaims, prizes, events, awards,
                  releases, job, late, faults>>

Row == [finalized : BOOLEAN, open : BOOLEAN]
Places == {"idle", "enqueue", "verify", "resolve", "save", "reject", "release", "stamp",
           "read", "rank", "award", "grant"}
Resting == [at |-> "idle", hash |-> NoHash, attempts |-> 0, user |-> NoUser,
            board |-> <<>>, next |-> 0, missed |-> {}]

\* A campaign in which the credits done were verified before, in some order.
LiveInit(done) ==
    /\ campaign = [finalized |-> FALSE, open |-> FALSE] /\ cached = NoCopy
    /\ credits = [h \in Hashes |->
                     IF h \in done THEN [status |-> "verified", attempts |-> 1, due |-> FALSE]
                     ELSE [status |-> "none", attempts |-> 0, due |-> FALSE]]
    /\ verified \in SetToSeqs(done) /\ tierClaims = {}
    /\ prizes = [u \in Users |-> [rank |-> 0, status |-> "none"]]
    /\ events = {} /\ awards = [u \in Users |-> 0] /\ releases = [u \in Users |-> 0]
    /\ job = [r \in Requests |-> Resting] /\ late = FALSE /\ faults = 0

Creditable(done) ==
    \A g, h \in done : Sweep[g] # NoSweep /\ Sweep[g].worth > 0 /\ (Sweep[g] = Sweep[h] => g = h)
CampaignInit == \E done \in SUBSET Hashes : Creditable(done) /\ LiveInit(done)

At(r, place) == job[r].at = place
Goto(r, place) == job' = [job EXCEPT ![r].at = place]
Rest(r) == job' = [job EXCEPT ![r] = Resting]
Fault == faults < MaxFaults /\ faults' = faults + 1

\* getCampaign: the copy while it is fresh, else the row.
SeenCampaign == IF cached = NoCopy THEN campaign ELSE cached
GetCampaign == cached' = SeenCampaign
Expire ==
    /\ cached # NoCopy /\ cached' = NoCopy
    /\ UNCHANGED <<campaign, credits, verified, tierClaims, prizes, events, awards, releases,
                   job, late, faults>>

claimRows == <<tierClaims, prizes, events, awards, releases>>

-----------------------------------------------------------------------------
\* Credits

\* enqueueCandidate: the campaign, then the row, which only the first submission adds;
\* that one also starts the verification.
BeginEnqueue(r, h) ==
    /\ At(r, "idle") /\ GetCampaign /\ ~SeenCampaign.finalized
    /\ job' = [job EXCEPT ![r].at = "enqueue", ![r].hash = h]
    /\ UNCHANGED <<campaign, credits, verified, claimRows, late, faults>>

Fresh == [status |-> "pending", attempts |-> 0, due |-> TRUE]

InsertCredit(r) ==
    /\ At(r, "enqueue")
    /\ LET h == job[r].hash
       IN  IF credits[h].status = "none"
           THEN credits' = [credits EXCEPT ![h] = Fresh] /\ Goto(r, "verify")
           ELSE Rest(r) /\ UNCHANGED credits
    /\ UNCHANGED <<campaign, cached, verified, claimRows, late, faults>>

\* runVerificationSweep takes the rows that are due; the wait of a row ends.
BeginVerify(r, h) ==
    /\ At(r, "idle") /\ credits[h].status = "pending" /\ credits[h].due
    /\ job' = [job EXCEPT ![r].at = "verify", ![r].hash = h]
    /\ UNCHANGED <<campaign, cached, credits, verified, claimRows, late, faults>>
RetryDue(h) ==
    /\ credits[h].status = "pending" /\ ~credits[h].due
    /\ credits' = [credits EXCEPT ![h].due = TRUE]
    /\ UNCHANGED <<campaign, cached, verified, claimRows, job, late, faults>>

\* requeueCredit: one conditional UPDATE, then the verification.
RequeueCredit(r, h) ==
    /\ At(r, "idle") /\ credits[h].status \in {"pending", "rejected"} /\ Fault
    /\ credits' = [credits EXCEPT ![h] = Fresh]
    /\ job' = [job EXCEPT ![r].at = "verify", ![r].hash = h]
    /\ UNCHANGED <<campaign, cached, verified, claimRows, late>>

\* verifyCredit takes the row, if it is due and pending, with one conditional UPDATE.
ClaimCredit(r) ==
    /\ At(r, "verify")
    /\ LET h == job[r].hash
       IN  IF credits[h].status = "pending" /\ credits[h].due
           THEN /\ credits' = [credits EXCEPT ![h].attempts = @ + 1, ![h].due = FALSE]
                /\ GetCampaign
                /\ job' = [job EXCEPT ![r].at = "resolve", ![r].attempts = credits[h].attempts + 1]
           ELSE Rest(r) /\ UNCHANGED <<credits, cached>>
    /\ UNCHANGED <<campaign, verified, claimRows, late, faults>>

\* The hash leads nowhere, or a call or the update fails: given up at the last attempt.
Unresolved(r) ==
    /\ At(r, "resolve") \/ At(r, "save")
    /\ IF Sweep[job[r].hash] = NoSweep THEN UNCHANGED faults ELSE Fault
    /\ IF job[r].attempts >= MaxAttempts THEN Goto(r, "reject") ELSE Rest(r)
    /\ UNCHANGED <<campaign, cached, credits, verified, claimRows, late>>
Resolve(r) ==
    /\ At(r, "resolve") /\ Sweep[job[r].hash] # NoSweep
    /\ Goto(r, IF Sweep[job[r].hash].worth = 0 THEN "reject" ELSE "save")
    /\ UNCHANGED <<campaign, cached, credits, verified, claimRows, late, faults>>

\* Faulty variant of Credited: submitted hashes are unique, executions are not.
CreditedHash(h) == \E i \in DOMAIN verified : verified[i] = h

\* The unique index on the resolved hash.
Credited(h) == \E i \in DOMAIN verified : Sweep[verified[i]] = Sweep[h]

Save(r) ==
    /\ At(r, "save")
    /\ LET h == job[r].hash
       IN  CASE credits[h].status # "pending" ->
                    Rest(r) /\ UNCHANGED <<credits, verified, late>>
             [] credits[h].status = "pending" /\ Credited(h) ->
                    Goto(r, "reject") /\ UNCHANGED <<credits, verified, late>>
             [] OTHER ->
                    /\ credits' = [credits EXCEPT ![h].status = "verified"]
                    /\ verified' = Append(verified, h) /\ late' = (late \/ campaign.finalized)
                    /\ Rest(r)
    /\ UNCHANGED <<campaign, cached, claimRows, faults>>
RejectCredit(r) ==
    /\ At(r, "reject") /\ Rest(r)
    /\ LET h == job[r].hash
       IN  credits' = [credits EXCEPT ![h].status = IF @ = "pending" THEN "rejected" ELSE @]
    /\ UNCHANGED <<campaign, cached, verified, claimRows, late, faults>>

-----------------------------------------------------------------------------
\* Volumes and standings

CreditsOf(u) == {i \in DOMAIN verified : Sweep[verified[i]].user = u}
Volume(u) == Total([i \in CreditsOf(u) |-> Sweep[verified[i]].worth])

\* get_sweep_campaign_leaderboard_page: most volume first, then who was first.
Ahead(u, w) ==
    \/ Volume(u) > Volume(w)
    \/ Volume(u) = Volume(w) /\ Min(CreditsOf(u)) < Min(CreditsOf(w))
Ranked == {u \in Users : CreditsOf(u) # {}}
Board == CHOOSE b \in SetToSeqs(Ranked) : \A i, j \in DOMAIN b : i < j => Ahead(b[i], b[j])

\* claimTier: volumes only grow, so that it does not matter when in the request the
\* volume is read; the unique key refuses a tier that was claimed before.
ClaimTier(u, t) ==
    /\ GetCampaign
    /\ Volume(u) >= Threshold[t] /\ <<u, t>> \notin tierClaims
    /\ tierClaims' = tierClaims \cup {<<u, t>>}
    /\ UNCHANGED <<campaign, credits, verified, prizes, events, awards, releases, job, late,
                   faults>>

-----------------------------------------------------------------------------
\* finalizeCampaign

Pending == {h \in Hashes : credits[h].status = "pending"}

\* Faulty variant of BeginFinalize: the standings are read before they are frozen.
BeginFinalizeUnfrozen(r) ==
    /\ At(r, "idle") /\ GetCampaign /\ (Pending = {} \/ MayForce)
    /\ Goto(r, "read")
    /\ UNCHANGED <<campaign, credits, verified, claimRows, late, faults>>
BeginFinalize(r) ==
    /\ At(r, "idle") /\ GetCampaign /\ (Pending = {} \/ MayForce)
    /\ Goto(r, "stamp")
    /\ UNCHANGED <<campaign, credits, verified, claimRows, late, faults>>
Stamp(r) ==
    /\ At(r, "stamp") /\ Goto(r, "read")
    /\ campaign' = [campaign EXCEPT !.finalized = TRUE]
    /\ UNCHANGED <<cached, credits, verified, claimRows, late, faults>>

ReadBoard(r) ==
    /\ At(r, "read")
    /\ job' = [job EXCEPT ![r].at = "rank", ![r].next = 1,
                          ![r].board = SubSeq(Board, 1, IF Len(Board) < Prizes THEN Len(Board)
                                                        ELSE Prizes)]
    /\ UNCHANGED <<campaign, cached, credits, verified, claimRows, late, faults>>

Winner(r) == job[r].board[job[r].next]
More(r) == job[r].next <= Len(job[r].board)
Onward(r) == job' = [job EXCEPT ![r].at = "rank", ![r].next = @ + 1]

\* Faulty variant of AddPrize: a rank that has a row is passed over.
AddPrizeOncePerRank(r) ==
    /\ At(r, "rank") /\ More(r)
    /\ IF \A u \in Users : prizes[u].rank # job[r].next
       THEN /\ prizes' = [prizes EXCEPT ![Winner(r)] =
                             [rank |-> job[r].next, status |-> "awaiting_claim"]]
            /\ Goto(r, "award")
       ELSE Onward(r) /\ UNCHANGED prizes
    /\ UNCHANGED <<campaign, cached, credits, verified, tierClaims, events, awards, releases,
                   late, faults>>

\* Faulty variant of AddPrize: the points do not wait for a new row.
AddPrizeUngated(r) ==
    /\ At(r, "rank") /\ More(r) /\ Goto(r, "award")
    /\ prizes' = IF prizes[Winner(r)].rank # 0 THEN prizes
                 ELSE [prizes EXCEPT ![Winner(r)] =
                          [rank |-> job[r].next, status |-> "awaiting_claim"]]
    /\ UNCHANGED <<campaign, cached, credits, verified, tierClaims, events, awards, releases,
                   late, faults>>

\* A winner without a row gets one, and then points.  One that has a row is passed over:
\* at the same rank the insert is ignored, at another the index on the winner refuses it.
AddPrize(r) ==
    /\ At(r, "rank") /\ More(r)
    /\ IF prizes[Winner(r)].rank = 0
       THEN /\ prizes' = [prizes EXCEPT ![Winner(r)] =
                             [rank |-> job[r].next, status |-> "awaiting_claim"]]
            /\ Goto(r, "award")
       ELSE Onward(r) /\ UNCHANGED prizes
    /\ UNCHANGED <<campaign, cached, credits, verified, tierClaims, events, awards, releases,
                   late, faults>>
AddPrizeFails(r) ==
    /\ At(r, "rank") /\ More(r) /\ Fault
    /\ job' = [job EXCEPT ![r].next = @ + 1, ![r].missed = @ \cup {job[r].next}]
    /\ UNCHANGED <<campaign, cached, credits, verified, claimRows, late>>

\* awardOneTimeCampaignPoints: the event is looked for, and if there is none the points are
\* given; whether their own event went in is not looked at.
Award(r) ==
    /\ At(r, "award")
    /\ IF Winner(r) \in events THEN Onward(r) ELSE Goto(r, "grant")
    /\ UNCHANGED <<campaign, cached, credits, verified, claimRows, late, faults>>
Grant(r) ==
    /\ At(r, "grant") /\ Onward(r)
    /\ awards' = [awards EXCEPT ![Winner(r)] = @ + 1]
    /\ events' \in {events, events \cup {Winner(r)}}
    /\ UNCHANGED <<campaign, cached, credits, verified, tierClaims, prizes, releases, late, faults>>

\* It throws before anything is given; the error is logged and the loop goes on.
AwardFails(r) ==
    /\ At(r, "award") \/ At(r, "grant")
    /\ Onward(r) /\ Fault
    /\ UNCHANGED <<campaign, cached, credits, verified, claimRows, late>>

EndFinalize(r) ==
    /\ At(r, "rank") /\ ~More(r) /\ Rest(r) /\ cached' = NoCopy
    /\ UNCHANGED <<campaign, credits, verified, claimRows, late, faults>>

-----------------------------------------------------------------------------
\* Releasing a prize

OpenPrizeClaims ==
    /\ ~campaign.open /\ campaign' = [campaign EXCEPT !.open = TRUE] /\ cached' = NoCopy
    /\ UNCHANGED <<credits, verified, claimRows, job, late, faults>>

Awaiting(u) == prizes[u].status = "awaiting_claim"
Let(u) ==
    /\ prizes' = [prizes EXCEPT ![u].status = "pending_payout"]
    /\ releases' = [releases EXCEPT ![u] = @ + 1]
    /\ UNCHANGED <<tierClaims, events, awards>>

\* claimPrize: the winner signs, the row is read, and one conditional UPDATE releases it.
BeginRelease(r, u) ==
    /\ At(r, "idle") /\ GetCampaign /\ SeenCampaign.finalized /\ SeenCampaign.open
    /\ Awaiting(u) /\ job' = [job EXCEPT ![r].at = "release", ![r].user = u]
    /\ UNCHANGED <<campaign, credits, verified, claimRows, late, faults>>

\* Faulty variant of Release: what was read is taken to hold still.
ReleaseSeen(r) ==
    /\ At(r, "release") /\ Rest(r) /\ Let(job[r].user)
    /\ UNCHANGED <<campaign, cached, credits, verified, late, faults>>
Release(r) ==
    /\ At(r, "release") /\ Rest(r)
    /\ IF Awaiting(job[r].user) THEN Let(job[r].user) ELSE UNCHANGED claimRows
    /\ UNCHANGED <<campaign, cached, credits, verified, late, faults>>

\* approveClaims: the admin releases a prize nobody has claimed.
ApproveClaims(u) ==
    /\ Awaiting(u) /\ Let(u)
    /\ UNCHANGED <<campaign, cached, credits, verified, job, late, faults>>

-----------------------------------------------------------------------------

Dies(r) ==
    /\ ~At(r, "idle") /\ Rest(r) /\ Fault
    /\ UNCHANGED <<campaign, cached, credits, verified, claimRows, late>>

CampaignNext ==
    \/ \E r \in Requests, h \in Hashes : BeginEnqueue(r, h) \/ BeginVerify(r, h) \/ RequeueCredit(r, h)
    \/ \E h \in Hashes : RetryDue(h)
    \/ \E r \in Requests : \/ InsertCredit(r) \/ ClaimCredit(r) \/ Unresolved(r) \/ Resolve(r)
                           \/ Save(r) \/ RejectCredit(r)
                           \/ BeginFinalize(r) \/ Stamp(r) \/ ReadBoard(r) \/ AddPrize(r)
                           \/ AddPrizeFails(r) \/ Award(r) \/ Grant(r) \/ AwardFails(r)
                           \/ EndFinalize(r)
                           \/ Release(r) \/ Dies(r)
    \/ \E r \in Requests, u \in Users : BeginRelease(r, u)
    \/ \E u \in Users : ApproveClaims(u) \/ \E t \in Tiers : ClaimTier(u, t)
    \/ OpenPrizeClaims \/ Expire

CampaignSpec == CampaignInit /\ [][CampaignNext]_campaignVars

-----------------------------------------------------------------------------

CampaignTypeOK ==
    /\ campaign \in Row /\ cached \in Row \cup {NoCopy}
    /\ credits \in [Hashes -> [status : {"none", "pending", "verified", "rejected"},
                               attempts : Nat, due : BOOLEAN]]
    /\ verified \in Seq(Hashes) /\ tierClaims \subseteq Users \X Tiers
    /\ prizes \in [Users -> [rank : 0 .. Prizes, status : {"none", "awaiting_claim",
                                                           "pending_payout"}]]
    /\ events \subseteq Users /\ awards \in [Users -> Nat] /\ releases \in [Users -> Nat]
    /\ job \in [Requests -> [at : Places, hash : Hashes \cup {NoHash}, attempts : Nat,
                             user : Users \cup {NoUser}, board : Seq(Users), next : Nat,
                             missed : SUBSET Nat]]
    /\ late \in BOOLEAN /\ faults \in 0 .. MaxFaults

\* sweep_campaign.sql, idx_scc_resolved_tx: the same execution never credits twice.
\* A claimed tier was reached by different executions, however many hashes each was
\* submitted under and however often a credit was verified, rejected and queued again.
TiersEarned ==
    \A c \in tierClaims :
        Threshold[c[2]] <= Total([e \in {Sweep[verified[i]] : i \in CreditsOf(c[1])} |-> e.worth])

\* A winner's points are given at most once, and the prize is released at most once,
\* whatever passes are repeated, overlap or are cut off, whoever releases it first, and
\* although two passes may both find no event: the row lets only one of them give points.
PrizeGivenOnce == \A u \in Users : awards[u] <= 1 /\ releases[u] <= 1

\* finalizeCampaign says it snapshots the final standings.  As long as no credit is
\* verified after they were frozen, every prize is at the rank of the final board,
\* whichever pass added it.
PrizesFollowBoard ==
    \A u \in Users : ~late /\ prizes[u].rank # 0 => Board[prizes[u].rank] = u

\* "re-running only fills the gaps": a pass leaves no winner it has gone by without a
\* row, unless the insert failed.
NobodyStranded ==
    \A r \in Requests : \A i \in 1 .. job[r].next - 1 :
        i \in job[r].missed \/ prizes[job[r].board[i]].rank # 0

\* The prizes were computed from one snapshot of the standings: no rank has two winners.
OnePrizePerRank ==
    \A u, w \in Users : prizes[u].rank = prizes[w].rank /\ prizes[u].rank # 0 => u = w

=============================================================================
