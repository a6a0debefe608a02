---------------------- MODULE HolderRewardDistributor ----------------------
(***************************************************************************)
(* modules/HolderRewardDistributor.sol: the destination module of holder   *)
(* coins.  A publisher posts one Merkle root per epoch and reserves each   *)
(* market's total from what that market earned; the owner can veto it in   *)
(* the window before claims open; leftovers return to the market's pot.    *)
(*                                                                         *)
(* A root is the set of its leaves: a proof verifies exactly the leaves    *)
(* hashed into the root.  Leaves carry the epoch in their hash, so a leaf  *)
(* of another epoch can never be claimed and is left out of the roots.     *)
(*                                                                         *)
(* publishEpoch and claimMany are loops.  One iteration is one step; draft *)
(* and recording say that a loop is running, and until it ends nothing     *)
(* else moves.  An iteration that reverts takes the transaction back, so   *)
(* only loops whose every iteration succeeds are behaviours.               *)
(***************************************************************************)
EXTENDS FeeVault

CONSTANTS
    VetoWindow,     \* VETO_WINDOW, 12 hours
    ClaimPeriod,    \* CLAIM_PERIOD, 90 days
    Roots,          \* roots the publisher may post: leaf format and leaves
    MaxEpochs,      \* bound on the epochs published
    NoRoot          \* no epoch, or no draft

Distributor == "HolderRewardDistributor"

EpochIds == 1 .. MaxEpochs

\* A leaf names the primary market of a coin (legacy format) or any market.
Leaf == [market : Markets, index : Nat, amount : Nat]
Root == [poolLeaves : BOOLEAN, leaves : SUBSET Leaf]
Epoch == [poolLeaves : BOOLEAN, leaves : SUBSET Leaf, publishedAt : Nat, vetoed : BOOLEAN]

ASSUME DistributorAssumption ==
    /\ VetoWindow \in Nat /\ ClaimPeriod \in Nat /\ VetoWindow <= ClaimPeriod
    /\ MaxEpochs \in Nat
    /\ Roots \subseteq Root
    /\ \A r \in Roots : IsFiniteSet(r.leaves)
    /\ NoRoot \notin Root /\ NoRoot \notin Epoch

VARIABLES
    available,      \* _available: pulled for a market and not reserved
    lastEpoch,
    epochs,         \* with epochPoolLeaves; NoRoot before publication
    epochTotal,     \* _epochTotal, by epoch and market
    epochClaimed,   \* _epochClaimed
    epochReleased,  \* _epochReleased
    claimed,        \* _claimed: the indexes in the bitmap
    draft,          \* root of the publication in progress, or NoRoot
    recording,      \* claimMany is recording leaves
    paying,         \* recorded leaves <<epoch, leaf>> not paid out yet
    pulled,         \* history: all a market ever pulled from the vault
    paid            \* history: leaves <<epoch, leaf>> paid out

epochVars == <<lastEpoch, epochs, epochTotal, epochClaimed, epochReleased, claimed>>
distVars == <<available, epochVars, draft, recording, paying, pulled, paid>>
allDistVars == <<allVaultVars, distVars>>

\* No loop is running.
Idle == draft = NoRoot /\ ~recording

DistInit ==
    /\ VaultInit
    /\ available = [m \in Markets |-> 0]
    /\ lastEpoch = 0
    /\ epochs = [e \in EpochIds |-> NoRoot]
    /\ epochTotal = [e \in EpochIds |-> [m \in Markets |-> 0]]
    /\ epochClaimed = [e \in EpochIds |-> [m \in Markets |-> 0]]
    /\ epochReleased = [e \in EpochIds |-> [m \in Markets |-> FALSE]]
    /\ claimed = [e \in EpochIds |-> [m \in Markets |-> {}]]
    /\ draft = NoRoot
    /\ recording = FALSE
    /\ paying = {}
    /\ pulled = [m \in Markets |-> 0]
    /\ paid = {}

-----------------------------------------------------------------------------
\* Publishing

\* publishEpoch(For): the publisher starts the next epoch.
BeginPublish(root) ==
    /\ Idle /\ paying = {}
    /\ lastEpoch < MaxEpochs
    /\ draft' = root
    /\ UNCHANGED <<allVaultVars, available, epochVars, recording, paying, pulled, paid>>

\* Faulty variant of Reserve: what is pulled replaces what was available.
ReserveOverPot(m, total) ==
    LET e == lastEpoch + 1
        pull == destinationPending[m[1]][m[2]]
    IN  /\ draft # NoRoot
        /\ CanPull(Distributor, {m})
        /\ ~draft.poolLeaves => m = PrimaryMarket(m[1])
        /\ epochTotal[e][m] = 0
        /\ total # 0 /\ total <= pull
        /\ available' = [available EXCEPT ![m] = pull - total]
        /\ epochTotal' = [epochTotal EXCEPT ![e][m] = total]
        /\ PullDestination(Distributor, {m})
        /\ pulled' = [pulled EXCEPT ![m] = @ + pull]
        /\ UNCHANGED <<hookVars, platformPending, referralPending, creatorPending,
                       authorPending, attribution, tweetAttestor, due, payee, authorHistory,
                       lastEpoch, epochs, epochClaimed, epochReleased, claimed, draft,
                       recording, paying, paid>>

\* _reserve: one market of the publication.  It pulls what the market earned
\* since the last pull and sets its total aside.
Reserve(m, total) ==
    LET e == lastEpoch + 1
        pull == destinationPending[m[1]][m[2]]
    IN  /\ draft # NoRoot
        /\ CanPull(Distributor, {m})
        /\ ~draft.poolLeaves => m = PrimaryMarket(m[1])
        /\ epochTotal[e][m] = 0
        /\ total # 0 /\ total <= available[m] + pull
        /\ available' = [available EXCEPT ![m] = @ + pull - total]
        /\ epochTotal' = [epochTotal EXCEPT ![e][m] = total]
        /\ PullDestination(Distributor, {m})
        /\ pulled' = [pulled EXCEPT ![m] = @ + pull]
        /\ UNCHANGED <<hookVars, platformPending, referralPending, creatorPending,
                       authorPending, attribution, tweetAttestor, due, payee, authorHistory,
                       lastEpoch, epochs, epochClaimed, epochReleased, claimed, draft,
                       recording, paying, paid>>

\* The end of publishEpoch(For).
FinishPublish ==
    /\ draft # NoRoot
    /\ epochs' = [epochs EXCEPT ![lastEpoch + 1] =
           [poolLeaves |-> draft.poolLeaves, leaves |-> draft.leaves,
            publishedAt |-> now, vetoed |-> FALSE]]
    /\ lastEpoch' = lastEpoch + 1
    /\ draft' = NoRoot
    /\ UNCHANGED <<allVaultVars, available, epochTotal, epochClaimed, epochReleased, claimed,
                   recording, paying, pulled, paid>>

-----------------------------------------------------------------------------
\* Vetoes and releases.  Neither takes a lock.

Published(e) == epochs[e] # NoRoot

\* Faulty variant of VetoEpoch: the window is closed one second late.
VetoAtOpening(e) ==
    /\ Idle
    /\ Published(e) /\ ~epochs[e].vetoed
    /\ now <= epochs[e].publishedAt + VetoWindow
    /\ epochs' = [epochs EXCEPT ![e].vetoed = TRUE]
    /\ UNCHANGED <<allVaultVars, available, lastEpoch, epochTotal, epochClaimed, epochReleased,
                   claimed, draft, recording, paying, pulled, paid>>

VetoEpoch(e) ==
    /\ Idle
    /\ Published(e) /\ ~epochs[e].vetoed
    /\ now < epochs[e].publishedAt + VetoWindow
    /\ epochs' = [epochs EXCEPT ![e].vetoed = TRUE]
    /\ UNCHANGED <<allVaultVars, available, lastEpoch, epochTotal, epochClaimed, epochReleased,
                   claimed, draft, recording, paying, pulled, paid>>

Releasable(e) ==
    Published(e) /\ (epochs[e].vetoed \/ now > epochs[e].publishedAt + ClaimPeriod)

\* Faulty variant of ReleaseEpoch: the release is not remembered.
ReleaseForgotten(e, m) ==
    /\ Idle
    /\ Releasable(e)
    /\ epochTotal[e][m] # 0 /\ ~epochReleased[e][m]
    /\ available' = [available EXCEPT ![m] = @ + (epochTotal[e][m] - epochClaimed[e][m])]
    /\ UNCHANGED <<allVaultVars, epochVars, draft, recording, paying, pulled, paid>>

\* releaseEpoch(For), one market of it.
ReleaseEpoch(e, m) ==
    /\ Idle
    /\ Releasable(e)
    /\ epochTotal[e][m] # 0 /\ ~epochReleased[e][m]
    /\ epochReleased' = [epochReleased EXCEPT ![e][m] = TRUE]
    /\ available' = [available EXCEPT ![m] = @ + (epochTotal[e][m] - epochClaimed[e][m])]
    /\ UNCHANGED <<allVaultVars, lastEpoch, epochs, epochTotal, epochClaimed, claimed, draft,
                   recording, paying, pulled, paid>>

-----------------------------------------------------------------------------
\* Claims

\* _recordPool's checks of leaf l of epoch e, but for the bitmap.
Claimable(e, l) ==
    /\ Published(e)
    /\ ~epochs[e].vetoed /\ ~epochReleased[e][l.market]
    /\ ~epochs[e].poolLeaves => l.market = PrimaryMarket(l.market[1])
    /\ now >= epochs[e].publishedAt + VetoWindow
    /\ now <= epochs[e].publishedAt + ClaimPeriod
    /\ l \in epochs[e].leaves
    /\ epochClaimed[e][l.market] + l.amount <= epochTotal[e][l.market]

\* Faulty variant of Record: the bitmap is not set.
RecordUnmarked(e, l) ==
    /\ draft = NoRoot /\ ~Locked
    /\ paying # {} => recording
    /\ Registered(l.market)
    /\ l.index \notin claimed[e][l.market]
    /\ Claimable(e, l)
    /\ epochClaimed' = [epochClaimed EXCEPT ![e][l.market] = @ + l.amount]
    /\ paying' = IF l.amount = 0 THEN paying ELSE paying \cup {<<e, l>>}
    /\ recording' = TRUE
    /\ UNCHANGED <<allVaultVars, available, lastEpoch, epochs, epochTotal, epochReleased,
                   claimed, draft, pulled, paid>>

\* claim, claimMany, claimFor, claimManyFor: one leaf is recorded.
Record(e, l) ==
    /\ draft = NoRoot /\ ~Locked
    /\ paying # {} => recording
    /\ Registered(l.market)
    /\ l.index \notin claimed[e][l.market]
    /\ Claimable(e, l)
    /\ claimed' = [claimed EXCEPT ![e][l.market] = @ \cup {l.index}]
    /\ epochClaimed' = [epochClaimed EXCEPT ![e][l.market] = @ + l.amount]
    /\ paying' = IF l.amount = 0 THEN paying ELSE paying \cup {<<e, l>>}
    /\ recording' = TRUE
    /\ UNCHANGED <<allVaultVars, available, lastEpoch, epochs, epochTotal, epochReleased,
                   draft, pulled, paid>>

\* The loop is over: the PoolManager is unlocked and the payouts begin.
UnlockToPay ==
    /\ recording
    /\ recording' = FALSE
    /\ UNCHANGED <<allVaultVars, available, epochVars, draft, paying, pulled, paid>>

\* unlockCallback: burn the claims of one leaf and take the asset.
PayLeaf(e, l) ==
    LET q == l.market[2]
    IN  /\ Idle
        /\ <<e, l>> \in paying
        /\ l.amount <= claims[Distributor][q]
        /\ claims' = [claims EXCEPT ![Distributor][q] = @ - l.amount]
        /\ paying' = paying \ {<<e, l>>}
        /\ paid' = paid \cup {<<e, l>>}
        /\ UNCHANGED <<hookVars, ledgers, attribution, tweetAttestor, due, payee,
                       authorHistory, available, epochVars, draft, recording, pulled>>

-----------------------------------------------------------------------------

PublishStep ==
    \/ \E root \in Roots : BeginPublish(root)
    \/ \E m \in Markets : \E total \in 1 .. available[m] + destinationPending[m[1]][m[2]] :
          Reserve(m, total)
    \/ FinishPublish

OwnerStep == \E e \in EpochIds : VetoEpoch(e) \/ \E m \in Markets : ReleaseEpoch(e, m)

LeavesOf(e) == IF Published(e) THEN epochs[e].leaves ELSE {}

RewardStep ==
    \/ \E e \in EpochIds : \E l \in LeavesOf(e) : Record(e, l) \/ PayLeaf(e, l)
    \/ UnlockToPay

DistributorStep == PublishStep \/ OwnerStep \/ RewardStep

\* The vault and the other modules, while no loop of the distributor runs; in
\* the middle of a payout of the distributor, only what its recipients can do.
OtherStep ==
    /\ Idle
    /\ IF paying = {}
       THEN VaultStep \/ \E m \in Markets : ModulePull(m) /\ ModuleOf(m) # Distributor
       ELSE InsidePayout
    /\ UNCHANGED distVars

DistNext == DistributorStep \/ OtherStep

DistSpec == DistInit /\ [][DistNext]_allDistVars

-----------------------------------------------------------------------------

DistTypeOK ==
    /\ available \in [Markets -> Nat]
    /\ lastEpoch \in 0 .. MaxEpochs
    /\ epochs \in [EpochIds -> Epoch \cup {NoRoot}]
    /\ epochTotal \in [EpochIds -> [Markets -> Nat]]
    /\ epochClaimed \in [EpochIds -> [Markets -> Nat]]
    /\ epochReleased \in [EpochIds -> [Markets -> BOOLEAN]]
    /\ claimed \in [EpochIds -> [Markets -> SUBSET Nat]]
    /\ draft \in Roots \cup {NoRoot}
    /\ recording \in BOOLEAN
    /\ paying \subseteq EpochIds \X Leaf /\ IsFiniteSet(paying)
    /\ pulled \in [Markets -> Nat]
    /\ draft # NoRoot => lastEpoch < MaxEpochs

MarketsIn(q) == {m \in Markets : m[2] = q}

\* What an epoch still holds for a market.
Remaining(e, m) == IF epochReleased[e][m] THEN 0 ELSE epochTotal[e][m] - epochClaimed[e][m]

\* The distributor's books in a currency.
Books(q) ==
    Total([m \in MarketsIn(q) |-> available[m]])
      + Total([k \in EpochIds \X MarketsIn(q) |-> Remaining(k[1], k[2])])
      + Total([x \in {y \in paying : y[2].market[2] = q} |-> x[2].amount])

\* The distributor holds exactly its books, in every currency: pots, what the
\* epochs still hold, and the payouts under way.
RewardsBacked == \A q \in Quotes : claims[Distributor][q] = Books(q)

\* HolderRewardDistributor.sol, note 1: whatever the roots say, what the leaves
\* of a market were paid, what is under way and what is left make up exactly
\* what that market pulled.  No market spends another's fees.
MarketBudget ==
    \A m \in Markets :
        pulled[m] = available[m]
                      + Total([e \in EpochIds |-> Remaining(e, m)])
                      + Total([x \in {y \in paying \cup paid : y[2].market = m} |-> x[2].amount])

\* A recipient cannot close an epoch it is being paid from: neither veto nor
\* release, which take no lock, and a vetoed epoch never paid anything.
PayoutsFromOpenEpochs ==
    /\ \A x \in paying : ~epochs[x[1]].vetoed /\ ~epochReleased[x[1]][x[2].market]
    /\ \A x \in paid : ~epochs[x[1]].vetoed

\* An index of a market is paid once per epoch, even when a root names it twice.
PaidOnce ==
    /\ paying \cap paid = {}
    /\ \A x, y \in paying \cup paid :
          x[1] = y[1] /\ x[2].market = y[2].market /\ x[2].index = y[2].index => x = y

\* A root that names each index of market m once, and no more than its total.
HonestFor(e, m) ==
    LET leaves == {l \in LeavesOf(e) : l.market = m}
    IN  /\ \A k, l \in leaves : k.index = l.index => k = l
        /\ Total([l \in leaves |-> l.amount]) <= epochTotal[e][m]

\* Every holder of an honest root can still be paid: the claims of the others,
\* in any order and batch, never use up what is left for a leaf.
HonestLeavesFit ==
    \A e \in EpochIds, m \in Markets :
        Published(e) /\ HonestFor(e, m) =>
          \A l \in LeavesOf(e) :
             l.market = m /\ l.index \notin claimed[e][m] =>
               epochClaimed[e][m] + l.amount <= epochTotal[e][m]

=============================================================================
