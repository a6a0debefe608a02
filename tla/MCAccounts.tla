------------------------------ MODULE MCAccounts ------------------------------
(***************************************************************************)
(* Small instances of Accounts.  The components share nothing a step of    *)
(* one could disturb in another, so that one of them is enough at a time:  *)
(* their states add up, and do not multiply.  Each instance leaves out of  *)
(* its component what others are about.                                    *)
(***************************************************************************)
EXTENDS Accounts, TLC

CONSTANTS
    Running,    \* the instances
    X, Y, Z,    \* claims
    A, B, C     \* wallets

VARIABLE instance

MCAmount == (X :> 1) @@ (Y :> 2) @@ (Z :> 3)
MCHomeOf == (A :> 1) @@ (B :> 2) @@ (C :> 3)

\* One sweep known by two hashes, a hash that leads nowhere, and a larger sweep.
MCSweep ==
    ("tx" :> [tx |-> 1, user |-> 1, worth |-> 1]) @@ ("userOp" :> [tx |-> 1, user |-> 1, worth |-> 1])
      @@ ("fake" :> NoSweep) @@ ("bigger" :> [tx |-> 2, user |-> 2, worth |-> 2])
MCThreshold == <<1, 2>>

Instances == {"streaks", "spins", "referrals", "links", "awards", "quests", "payouts", "credits",
              "standings"}
ASSUME Running \subseteq Instances

\* Standings: the first sweep is verified.
MCInit ==
    /\ AccountsInit /\ instance \in Running
    /\ verified = IF instance = "standings" THEN <<"tx">> ELSE <<>>

Only(i) == instance = i /\ UNCHANGED instance

\* Two payments, three days, one of the wallets.
StreaksRun ==
    /\ Only("streaks") /\ PointsRun
    /\ \A r \in Requests : \/ pointReq'[r] = Points!Idle
                           \/ pointReq'[r].kind \in {"checkIn", "recover", "reset"} /\ pointReq'[r].wallet = A

\* One day and two wallets: a check-in is worth 11 points, and two spins fit.
SpinsRun ==
    /\ Only("spins") /\ PointsRun
    /\ day' = 1 /\ pointEvents' <= 13
    /\ \A r \in Requests : pointReq'[r].kind \in {"checkIn", "spin", "earn"}

\* Two processes, two codes for one account.  The event of its welcome may be missing, or
\* that of the bonus of one referrer.
CodesRun ==
    /\ Only("referrals") /\ ReferralsRun
    /\ signup'[C][A] > 0 => <<C, A>> \in brought'
    /\ welcome'[A] = 0 \/ A \in welcomed' \/ signup'[B][A] = 0 \/ <<B, A>> \in brought'

\* Three wallets and the account each has created, with two tokens that do not expire, or
\* with one and an award.
LinksOnly ==
    /\ Only("links") /\ LinksRun
    /\ awards' = 0 /\ \A t \in 1 .. 2 : link'[t].status # "expired"
AwardsRun ==
    /\ Only("awards") /\ LinksRun
    /\ link'[2].status = "unused"
    /\ \A r \in Requests : link[1].status # "unused" => linkReq'[r].at # "countOwn"

\* A quest of each kind.
QuestsOnly == Only("quests") /\ QuestsRun

\* Three claims.
PayoutsOnly == Only("payouts") /\ PayoutsRun

\* The first sweep by both its hashes, or by one next to a hash that leads nowhere; a tier
\* that takes one such sweep and one that takes two, before the campaign is finalized.
CreditsRun ==
    /\ Only("credits") /\ CampaignRun
    /\ credits'["bigger"].status = "none" /\ \A r \in Requests : job'[r].hash # "bigger"
    /\ ~campaign'.open /\ \A r \in Requests : job'[r].at # "stamp"
    /\ cached # NoCopy => cached' = cached
    /\ \E h \in {"userOp", "fake"} : credits'[h].status = "none"

\* Two users, two sweeps and two prizes.  The second sweep is verified when it is first
\* looked at, if at all, and the event of one user's prize may be missing.
StandingsRun ==
    /\ Only("standings") /\ CampaignRun /\ (prizePoints'[2] > 0 => 2 \in prizeEvents')
    /\ \A r \in Requests : job'[r].hash \in {"tx", "bigger", NoHash}
    /\ tierClaims' = {} /\ credits'["bigger"].attempts < 2

MCNext ==
    StreaksRun \/ SpinsRun \/ CodesRun \/ LinksOnly \/ AwardsRun \/ QuestsOnly \/ PayoutsOnly
      \/ CreditsRun \/ StandingsRun

MCSpec == MCInit /\ [][MCNext]_<<accountsVars, instance>>

\* Claims differ in their amounts, wallets and accounts in what they own.
Symmetric == Permutations(Requests) \cup Permutations(Txs)

=============================================================================
