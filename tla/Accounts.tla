------------------------------- MODULE Accounts -------------------------------
(***************************************************************************)
(* What the API keeps about accounts: check-ins, streaks and spins         *)
(* (DailyRewards), referrals, linked wallets, quests, and the sweep        *)
(* campaign with its payouts (SweepCampaign and SweepPayouts, which this   *)
(* module extends), whose steps interleave in any order.  Their requests   *)
(* and tables are disjoint, except for point_events and the balance, which *)
(* every award writes, in DailyRewards, WalletLink, Referrals,             *)
(* QuestRewards and SweepCampaign alike, all of them by addPoints (and the *)
(* merge of two accounts besides).  Two components model the balance:      *)
(* DailyRewards next to its rows and payments, and WalletLink next to      *)
(* merges.  In each of them addPoints is a step for any award there is     *)
(* ("earn", BeginAward), those of the other components included; what      *)
(* those three say is what is awarded, and how often.                      *)
(***************************************************************************)
EXTENDS SweepPayouts

CONSTANTS
    Requests, Nobody, MaxFaults,
    \* DailyRewards
    Wallets, Txs, Kinds, Prize, Pts, Cost, PerCheckIn, MaxDay, MaxLedger,
    \* Referrals
    Members, Bogus, Referees, Applied, ApiProcesses, Signup, Commission, LedgerAttempts, MaxEarn,
    \* WalletLink
    LinkedWallets, HomeOf, LinkBonus, MaxAccounts, MaxTokens, MaxAwards,
    \* QuestRewards
    OnchainQuests, DelayQuests, Target, SyncsOverlap, NoQuest, MaxTrouble,
    \* SweepCampaign
    Hashes, Sweep, Users, Tiers, Threshold, Prizes, VerifyAttempts, MayForce,
    NoSweep, NoCopy, NoHash, NoUser

VARIABLES
    day, minedOn, user, checkIns, recoveries, spins, tickets, pointEvents, checkInPay, spinPay,
    unrecorded, restores, granted, pointReq, pointFaults,
    activated, referredBy, referrals, welcomed, brought, welcome, signup, commission, missed,
    inflight, recent, referralReq, earned, referralFaults,
    wallet, users, lastId, ledger, unlogged, link, merged, bonuses, uses, stray, linkReq, awards,
    swept, progress, awarded, thrown, serving, trouble,
    campaign, cached, credits, verified, tierClaims, prizes, prizeEvents, prizePoints, releases,
    job, late, campaignFaults

Points == INSTANCE DailyRewards WITH
    NoTx <- Nobody, mined <- minedOn, rows <- checkIns, ledger <- pointEvents, req <- pointReq,
    faults <- pointFaults

Codes == INSTANCE Referrals WITH
    Accounts <- Members, Processes <- ApiProcesses, Attempts <- LedgerAttempts, NoRow <- Nobody,
    active <- activated, rows <- referrals, req <- referralReq, faults <- referralFaults

Links == INSTANCE WalletLink WITH Wallets <- LinkedWallets, req <- linkReq

Quests == INSTANCE QuestRewards WITH MaxFaults <- MaxTrouble

Campaign == INSTANCE SweepCampaign WITH
    MaxAttempts <- VerifyAttempts, events <- prizeEvents, awards <- prizePoints,
    faults <- campaignFaults

pointState == <<day, minedOn, user, checkIns, recoveries, spins, tickets, pointEvents,
                checkInPay, spinPay, unrecorded, restores, granted, pointReq, pointFaults>>
referralState == <<activated, referredBy, referrals, welcomed, brought, welcome, signup,
                   commission, missed, inflight, recent, referralReq, earned, referralFaults>>
linkState == <<wallet, users, lastId, ledger, unlogged, link, merged, bonuses, uses, stray,
               linkReq, awards>>
questState == <<swept, progress, awarded, thrown, serving, trouble>>
campaignState == <<campaign, cached, credits, verified, tierClaims, prizes, prizeEvents,
                   prizePoints, releases, job, late, campaignFaults>>
accountsVars == <<pointState, referralState, linkState, questState, payoutVars, campaignState>>

ASSUME AccountsAssumption ==
    /\ Points!RewardsAssumption /\ Codes!ReferralAssumption /\ Links!WalletLinkAssumption
    /\ Quests!QuestsAssumption /\ Campaign!CampaignAssumption

AccountsInit ==
    /\ Points!RewardsInit /\ Codes!ReferralInit /\ Links!WalletLinkInit
    /\ Quests!QuestsInit /\ PayoutsInit /\ Campaign!CampaignInit

PointsRun ==
    /\ Points!RewardsNext
    /\ UNCHANGED <<referralState, linkState, questState, payoutVars, campaignState>>
ReferralsRun ==
    /\ Codes!ReferralNext
    /\ UNCHANGED <<pointState, linkState, questState, payoutVars, campaignState>>
LinksRun ==
    /\ Links!WalletLinkNext
    /\ UNCHANGED <<pointState, referralState, questState, payoutVars, campaignState>>
QuestsRun ==
    /\ Quests!QuestsNext
    /\ UNCHANGED <<pointState, referralState, linkState, payoutVars, campaignState>>
PayoutsRun ==
    /\ PayoutsNext
    /\ UNCHANGED <<pointState, referralState, linkState, questState, campaignState>>
CampaignRun ==
    /\ Campaign!CampaignNext
    /\ UNCHANGED <<pointState, referralState, linkState, questState, payoutVars>>

AccountsNext ==
    PointsRun \/ ReferralsRun \/ LinksRun \/ QuestsRun \/ PayoutsRun \/ CampaignRun

AccountsSpec == AccountsInit /\ [][AccountsNext]_accountsVars

-----------------------------------------------------------------------------

\* The types of every component.
AccountsTypeOK ==
    /\ Points!RewardsTypeOK /\ Codes!ReferralTypeOK /\ Links!WalletLinkTypeOK
    /\ Quests!QuestsTypeOK /\ PayoutsTypeOK /\ Campaign!CampaignTypeOK

\* DailyRewards and WalletLink: no balance shows more points than were awarded, whatever
\* copies it is written back from.  What was awarded is more than the events say by the
\* awards whose event was not inserted, which addPoints does not look at (unrecorded,
\* unlogged).  And nothing is said of the balances of linked accounts once a second
\* merge has moved what a late award wrote to an account merged away (stray).
BalancesBacked == Points!BalanceEarned /\ Links!LiveBalancesBacked

\* DailyRewards and SweepCampaign: nothing is made up.  A streak has its check-ins
\* behind it, a ticket its activity, and a tier as many different sweeps as it takes.
EverythingEarned == Points!StreakEarned /\ Points!TicketsCovered /\ Campaign!TiersEarned

\* DailyRewards, Referrals, WalletLink, QuestRewards and SweepCampaign: nothing is
\* rewarded more than once, neither a day, a payment, a spin, a signup, a linked wallet
\* nor a place in the standings; and a quest only after a reward that threw when its
\* points were given already (RewardedAgainAfterThrow).  What it says of quests is for
\* wallets whose syncs do not overlap, SyncsOverlap = FALSE: for others it is false.
RewardedOnce ==
    /\ Points!CheckInPaidOnce /\ Points!OneRestorePerPayment /\ Points!OnePrizePerSpin
    /\ Codes!SignupPaidOnce /\ Links!BonusOncePerWallet
    /\ Quests!RewardedAgainAfterThrow /\ Quests!RewardedForWork
    /\ Campaign!PrizeGivenOnce

\* Referrals: the row of a referee agrees to the point with what was awarded for him,
\* whether or not the events of the awards went in.
EarnedAccounted == Codes!EarnedAccounted

\* SweepCampaign: prizes are at the ranks of the frozen standings.
PrizesFollowBoard == Campaign!PrizesFollowBoard

\* SweepCampaign: no winner is passed over.
NobodyStranded == Campaign!NobodyStranded

\* SweepCampaign: finalizeCampaign says that it snapshots the final standings.
OnePrizePerRank == Campaign!OnePrizePerRank

\* QuestRewards: a comment of completeQuest says that points are granted exactly
\* once, even when several syncs race.
QuestRewardedOnce == Quests!QuestRewardedOnce

\* WalletLink: wallet_merge.sql says that every account has one primary wallet,
\* its address.
PrimaryWallet == Links!PrimaryWallet

\* DailyRewards: the docs say that points are not deducted by normal usage.
PointsKept == Points!PointsKept

=============================================================================
