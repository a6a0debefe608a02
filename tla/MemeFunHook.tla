---------------------------- MODULE MemeFunHook ----------------------------
(***************************************************************************)
(* The registry of MemeFunHook.sol, written by MemeFunFactory.sol in one   *)
(* transaction per launch, and the creator role of each coin.              *)
(*                                                                         *)
(* A market is a pair <<coin, quote>>: the pool id hashes the two          *)
(* currencies with constants, so it identifies exactly that pair           *)
(* (_pairIds).  The coin's first market is its primary one (_keys).        *)
(***************************************************************************)
EXTENDS FeeMath, FiniteSets, Sequences, TLC

CONSTANTS
    Coins,          \* coin addresses the B20 factory can create
    Quotes,         \* listed pair assets
    Accounts,       \* user addresses: creators, traders, referrers, treasuries
    NoAccount,      \* address(0)
    NoQuote,        \* primary quote of a coin that does not exist
    LaunchPlans,    \* the launches creators may ask the factory for
    MaxTime         \* bound on the clock

Modes == {"CREATOR", "BURN", "HOLDERS", "FLOOR"}

\* The destination modules, by mode; creator coins have none.
ModuleOfMode == [CREATOR |-> "none", BURN |-> "BuybackBurnVault",
                 HOLDERS |-> "HolderRewardDistributor", FLOOR |-> "FloorVault"]

Markets == Coins \X Quotes

\* The terms of a market (IMemeFunHook.PoolConfig), or NoPool when unregistered.
PoolConfig == [mode : Modes, feeBps : Nat, platformShareBps : 0 .. BPS,
               referralShareBps : 0 .. BPS, creatorKeepBps : 0 .. BPS,
               protectionStartBps : 0 .. BPS, protectionDurationSec : Nat,
               launchedAt : Nat]
NoPool == [mode |-> "none"]

ASSUME HookAssumption ==
    /\ IsFiniteSet(Coins) /\ IsFiniteSet(Quotes) /\ IsFiniteSet(Accounts)
    /\ NoAccount \notin Accounts
    /\ NoQuote \notin Quotes
    /\ MaxTime \in Nat
    /\ \A p \in LaunchPlans :
          /\ p.coin \in Coins /\ p.creator \in Accounts
          /\ p.quotes \subseteq Quotes /\ p.primary \in p.quotes
          /\ Cardinality(p.quotes) \in 1 .. 5
          /\ p.mode \in Modes
          /\ p.feeBps \in 0 .. BPS
          /\ p.platformShareBps \in 0 .. BPS
          /\ p.referralShareBps \in 0 .. BPS
          /\ p.creatorKeepBps \in 0 .. BPS
          /\ p.protectionStartBps \in 0 .. BPS - 1
          /\ p.protectionDurationSec \in Nat

VARIABLES
    pools,              \* _pools
    primary,            \* quote of the coin's primary market (_keys)
    creatorOf,
    pendingCreatorOf,
    now,                \* block.timestamp
    proposedBy          \* history: who made the pending proposal

hookVars == <<pools, primary, creatorOf, pendingCreatorOf, now, proposedBy>>

Registered(m) == pools[m] # NoPool
MarketsOf(coin) == {m \in Markets : m[1] = coin /\ Registered(m)}
Known(coin) == primary[coin] # NoQuote
PrimaryMarket(coin) == <<coin, primary[coin]>>
ModuleOf(m) == ModuleOfMode[pools[m].mode]

\* MemeFunHook._rate: what any trader but the factory pays on m at this moment.
RateOf(c, time) == LaunchFeeBps(c.feeBps, c.protectionStartBps,
                                c.protectionDurationSec, time - c.launchedAt)
Rate(m) == RateOf(pools[m], now)

HookInit ==
    /\ pools = [m \in Markets |-> NoPool]
    /\ primary = [c \in Coins |-> NoQuote]
    /\ creatorOf = [c \in Coins |-> NoAccount]
    /\ pendingCreatorOf = [c \in Coins |-> NoAccount]
    /\ proposedBy = [c \in Coins |-> NoAccount]
    /\ now = 0

\* The configuration the factory registers for every market of plan p.
TermsOf(p) ==
    [mode |-> p.mode, feeBps |-> p.feeBps,
     platformShareBps |-> p.platformShareBps,
     referralShareBps |-> p.referralShareBps,
     creatorKeepBps |-> IF p.mode = "CREATOR" THEN 0 ELSE p.creatorKeepBps,
     protectionStartBps |-> p.protectionStartBps,
     protectionDurationSec |-> p.protectionDurationSec,
     launchedAt |-> now]

\* The factory registers the coin's markets with one set of terms, in one
\* transaction.  A coin address is created once (createB20 with a used salt
\* reverts), so no market of the coin is registered before.
RegisterPools(p) ==
    /\ ~Known(p.coin)
    /\ pools' = [m \in Markets |-> IF m[1] = p.coin /\ m[2] \in p.quotes
                                   THEN TermsOf(p) ELSE pools[m]]
    /\ primary' = [primary EXCEPT ![p.coin] = p.primary]
    /\ creatorOf' = [creatorOf EXCEPT ![p.coin] = p.creator]
    /\ UNCHANGED <<pendingCreatorOf, proposedBy, now>>

\* Faulty variant of LowerFee: the other markets keep the old fee.
LowerFeePrimaryOnly(caller, coin, newFeeBps) ==
    /\ caller = creatorOf[coin]
    /\ Known(coin)
    /\ newFeeBps < pools[PrimaryMarket(coin)].feeBps
    /\ pools' = [pools EXCEPT ![PrimaryMarket(coin)].feeBps = newFeeBps]
    /\ UNCHANGED <<primary, creatorOf, pendingCreatorOf, now, proposedBy>>

\* lowerFee(coin, newFeeBps): the creator lowers every market of the coin at
\* once; the current fee is read from the primary market.
LowerFee(caller, coin, newFeeBps) ==
    /\ caller = creatorOf[coin]
    /\ Known(coin)
    /\ newFeeBps < pools[PrimaryMarket(coin)].feeBps
    /\ pools' = [m \in Markets |-> IF m \in MarketsOf(coin)
                                   THEN [pools[m] EXCEPT !.feeBps = newFeeBps]
                                   ELSE pools[m]]
    /\ UNCHANGED <<primary, creatorOf, pendingCreatorOf, now, proposedBy>>

\* Faulty variant of ProposeCreator: a one-step transfer of the role.
ProposeInOneStep(caller, coin, proposed) ==
    /\ caller = creatorOf[coin]
    /\ creatorOf' = [creatorOf EXCEPT ![coin] = proposed]
    /\ UNCHANGED <<pools, primary, pendingCreatorOf, proposedBy, now>>

\* proposeCreator(coin, proposed): address(0) cancels a pending proposal.
ProposeCreator(caller, coin, proposed) ==
    /\ caller = creatorOf[coin]
    /\ pendingCreatorOf' = [pendingCreatorOf EXCEPT ![coin] = proposed]
    /\ proposedBy' = [proposedBy EXCEPT ![coin] =
                          IF proposed = NoAccount THEN NoAccount ELSE caller]
    /\ UNCHANGED <<pools, primary, creatorOf, now>>

\* acceptCreator(coin): the proposed account takes the role.
AcceptCreator(caller, coin) ==
    /\ caller = pendingCreatorOf[coin]
    /\ caller # NoAccount
    /\ creatorOf' = [creatorOf EXCEPT ![coin] = caller]
    /\ pendingCreatorOf' = [pendingCreatorOf EXCEPT ![coin] = NoAccount]
    /\ UNCHANGED <<pools, primary, now, proposedBy>>

Tick ==
    /\ now < MaxTime
    /\ now' = now + 1
    /\ UNCHANGED <<pools, primary, creatorOf, pendingCreatorOf, proposedBy>>

CreatorStep ==
    \E coin \in Coins, caller \in Accounts :
        \/ \E fee \in 0 .. BPS : LowerFee(caller, coin, fee)
        \/ \E proposed \in Accounts \cup {NoAccount} : ProposeCreator(caller, coin, proposed)
        \/ AcceptCreator(caller, coin)

HookNext ==
    \/ \E p \in LaunchPlans : RegisterPools(p)
    \/ CreatorStep
    \/ Tick

HookSpec == HookInit /\ [][HookNext]_hookVars

-----------------------------------------------------------------------------

\* Types, and: exactly the launched coins have a creator, so the role is never
\* lost to address(0), which would strand the coin's creator earnings.
HookTypeOK ==
    /\ pools \in [Markets -> PoolConfig \cup {NoPool}]
    /\ primary \in [Coins -> Quotes \cup {NoQuote}]
    /\ creatorOf \in [Coins -> Accounts \cup {NoAccount}]
    /\ pendingCreatorOf \in [Coins -> Accounts \cup {NoAccount}]
    /\ proposedBy \in [Coins -> Accounts \cup {NoAccount}]
    /\ now \in Nat
    /\ \A c \in Coins : Known(c) <=> creatorOf[c] # NoAccount

\* Every market of a coin trades on the same terms, whatever the creator
\* lowered and in whatever order.  lowerFee compares with the primary market
\* only, so its promise that a fee never rises rests on this.
OneSetOfTerms ==
    \A coin \in Coins : \A m \in MarketsOf(coin) :
        /\ Known(coin)
        /\ pools[m] = pools[PrimaryMarket(coin)]

\* A proposal that can still be accepted was made by whoever holds the creator
\* role now: a handover leaves no offer of an earlier creator behind.
ProposalIsCurrent ==
    \A coin \in Coins : pendingCreatorOf[coin] # NoAccount =>
        proposedBy[coin] = creatorOf[coin]

\* The rate a trader pays on a registered market never rises: not with time,
\* not when the creator lowers the fee while launch protection still decays.
RateNeverRises ==
    [][\A m \in Markets : Registered(m) => Registered(m)' /\ Rate(m)' <= Rate(m)]_hookVars

=============================================================================
