# A verification project for DustSwap

TLA+ models of the parts of the DustSwap repository that hold people's money, points and
payouts, the TLC configurations that check them, and TLAPS proofs of what matters most. Paths
are relative to the root of the repository; `memefun-contracts` stands for
`packages/memefun-contracts`, `services` for `apps/api/src/services`.

Contents: [the system](#the-system) · [the modules](#the-modules) · [the runs](#the-runs) ·
[fairness](#fairness) · [the proofs](#the-proofs) · [findings](#findings) ·
[what the models leave out](#what-the-models-leave-out) · [not modelled](#not-modelled)

Running it, in this directory:

    tlc -workers 2 -config MCFees.cfg MCFees
    tlapm FeesProofs.tla

## The system

DustSwap is a monorepo. Its programs, the state each keeps and how they meet:

| Part | Where | State | Operations | Talks to |
|---|---|---|---|---|
| Hook | `memefun-contracts/src/MemeFunHook.sol` | pools and their frozen terms, creator roles, block-start prices | register, lower a fee, hand over the creator role, charge a swap, refuse liquidity | called by the Uniswap PoolManager on every swap; credits the vault |
| Fee vault | `…/FeeVault.sol` | one ledger per payee and currency, tweet attributions, ERC-6909 claims | credit, five kinds of claims, author verification, pulls by modules | PoolManager (burn and take), payees, modules |
| Holder rewards | `…/modules/HolderRewardDistributor.sol` | pots, epochs with a Merkle root, totals, bitmaps | publish, veto, release, claim | pulls from the vault; pays holders |
| Buyback | `…/modules/BuybackBurnVault.sol` | a pot and a clock per market | executeBuyback | pulls from the vault, swaps in the pool |
| Floor | `…/modules/FloorVault.sol` | a pot, a clock and the highest edge per market | addFloor | pulls from the vault, adds liquidity the hook must accept |
| Factory, config, router, launch rewards | `…/src/` | launches, settings, none, campaigns | launch; set terms and roles; trade; fund and claim | all of the above |
| Keeper | `apps/memefun-backend/keeper` | Postgres rows of epochs and leaves, job locks | six jobs, one of them the publication of epochs | chain, index, Postgres |
| Index and read API | `apps/memefun-backend/src`, `lib` | a copy of the chain | apply events | chain, web |
| Points engine | `services/pointsEngine.ts` | users, check-ins, streak recoveries, spins, tickets, point events, referrals | dailyCheckIn, recoverBrokenStreak, resetBrokenStreak, spin, addPoints, applyReferral, commissions | Postgres, chain receipts, prices |
| Wallet linking | `services/walletLink.ts`, `apps/api/sql/wallet_merge.sql` | wallets of an account, link requests, merged accounts | createLinkRequest, confirmLink, unlinkWallet | Postgres functions, the points engine |
| Quest engine | `services/questEngine.ts` | quest progress | start and verify a quest, sync sweeps, complete and reward | Postgres, the points engine |
| Sweep campaign | `services/sweepCampaign.ts`, `apps/api/sql/sweep_campaign*.sql` | credits of sweeps, claims of tiers and prizes, attempts | verify a credit, claim a tier, finalize, release a prize, approve, pay out, recover after a crash | the payout wallet, a chain node |
| Outgoing requests | `apps/api/src/lib/aggregatorGovernor.ts`, `multicallBatcher.ts`, `utils/baseRpc.ts`, `chainRpc.ts` | queues, caches, breakers, rotations in memory | pace quotes, batch calls, fail over between nodes | quote providers, chain nodes |
| DustSwap contracts | `packages/contracts/src` | reward and claim vaults | claim, sweep, spin | wallets |
| Front ends | `apps/web`, `apps/memefun`, `apps/site` | none of the protocol's | | all APIs |

How they interact. A **trade** goes through the hook, which mints the fee as PoolManager claims to
the vault and credits who it is owed to: platform, referrer, creator, author of the tweet a coin
was launched from, and the coin's destination module. A **claim** zeroes a ledger and then pays
through the PoolManager, which hands control to the payee. A **module** pulls its share when it is
run and spends it. The **keeper** watches the pots of the holder coins and, for every half day,
publishes a Merkle root of what holders may claim; the leaves behind the root exist only in its
database and a published file.

The **API** serves requests about an account, each a chain of awaits on Postgres and on nodes:
they read a row, wait, and write. Every source of points, quests, linked wallets, referrals and
prizes included, ends in `addPoints`: an insert into `point_events` whose error nobody looks at, an update of the balance, and the
commission of the referrer, which can throw. The **payout worker** of the sweep campaign
takes approved claims, sends a transaction for each and looks for its receipt; what it knows after
a restart is what the rows say. Whatever the API asks of a chain or a quote provider goes
through the governor, the batcher or the dispatch over endpoints.

What is hard, and would hardly be met by a test:

- *Calls from within payouts.* Every payout of the vault reaches foreign code while the PoolManager is
  unlocked: a payee may call any handler that takes no lock, and trade.
- *Fungible claims.* Modules hold one balance of claims per currency for all their coins, so that
  "each coin spends its own" is a matter of bookkeeping alone.
- *Order within one transaction.* The first buys of a launch pay fees in the launch itself.
- *Moments.* Vetoes end when claims begin; the treasury's right to an unclaimed author balance
  begins while the author may still claim it.
- *The lazy block-start price*, written at the first swap of a block and needed before it.
- *Crashes between awaits* of the keeper and of the payout worker, and transactions that outlive
  the run that sent them.
- *Read, await, overwrite* in the handlers of the API, which run without a transaction and overlap
  with each other, with midnight and with themselves on another process.
- *One step of several failing*: an event that did not go in, and an exception that comes after the points were given.
- *A missing answer is not a no*: a receipt that cannot be looked up, an answer to a broadcast that is lost.
- *Deadlines in queues*: a quote may wait behind others until nobody wants it any more.

`PROJECT.json` lists each hazard at its line with the properties that watch over it, and every
component, the ones that are not modelled with the reason.

What makes each part correct:

- hook: all markets of a coin on the same terms, rates that only fall, a creator role only its
  holder can give away;
- vault: holds exactly what it owes, at all times; honours the author's share; pays the author's
  reserve to the bound wallet or, after the lock, the treasury, and to nobody else; gives a module its markets' shares, whole and once;
- rewards: holds what it owes; no market pays from another's fees whatever the root says; each
  leaf once; nobody with a leaf of an honest root is left unpaid;
- buyback and floor: each market spends its own fees and loses none; a price moved earlier in the
  block moves neither the limit of a buyback nor the place of a floor beyond the stated bounds;
- keeper: every epoch on chain can be claimed with what is in the database; windows follow on;
  what was earned is paid in the end;
- points: no day, payment, spin, signup or linked wallet is rewarded twice; a quest only for what was done, and again only after a
  reward that threw when it was given already; no balance shows points that were not awarded; a streak has its check-ins behind it; tickets are not made up;
  the row of a referral agrees with what was awarded;
- wallets: every account that stands on its own has one primary wallet;
- sweep campaign: a sweep counts once towards volumes and tiers; prizes go to those the frozen standings name, once,
  and nobody is passed over;
- payouts: a claim is transferred at most once; what is called paid was paid; the automatic
  payments of a day stay within its cap;
- requests: every caller gets the answer of the provider, or a failure, and gets it in the end; nothing starts after its
  deadline; paid keys come last, and nobody is given up on while a node is left to try.

## The modules

    Amounts ──────────────┐
    FeeMath ── MemeFunHook ── FeeVault ── HolderRewardDistributor
                                 ┆ implements
                              FeeEscrow ── MarketPrices ─┬─ BuybackBurnVault
                                                         └─ FloorVault
    KeeperEpochs  (the contract's publishEpochFor seen from the keeper)
    SweepPayouts ── Accounts ╌╌ DailyRewards, Referrals, WalletLink, QuestRewards, SweepCampaign
    DirectCalls ┄┄ MulticallBatcher ── OutgoingRequests ╌╌ AggregatorGovernor, RpcFailover
    MemeFunHook ── Markets ╌╌ BuybackBurnVault, FloorVault

A solid line is EXTENDS, a dashed one INSTANCE, a dotted one a refinement. `XProofs` holds the theorems about `X`, `MCX` the small
instances. Operators whose comment begins with "Faulty variant of" belong to no specification:
each is a plausible mistake in the definition after it, kept to show which property notices it.

### Contracts

**FeeMath** is `libraries/FeeMath.sol`: the fee on a gross or net amount (rounded up), the split
(rounded down, the remainder to the last), the decay of launch protection. `BPS` is a constant, 10 000 in the code, so that
small instances meet every rounding case and theorems hold for any scale.

**MemeFunHook** is the registry of the hook and the creator role. `RegisterPools` is what a launch
does to it: all markets in one transaction with one configuration. `LowerFee`, `ProposeCreator`, `AcceptCreator` are the functions
of that name; `Tick` is the clock, which launch protection depends on. `proposedBy` is history.

**FeeVault** adds the ledgers and everything that moves them. `Launch` and `Trade` are the
transactions that collect fees (`_collect` and `credit` are `Collect`, one atomic step: nothing
foreign runs in between). A claim is two kinds of steps: `ClaimCreator`, `ClaimCreatorMany`,
`ClaimReferral`, `ClaimPlatform`, `ClaimAuthor` and `ReclaimExpiredAuthor` take the guard, zero
the ledger and put the payouts in `due`; each `PayNext` is one round of `unlockCallback`. `payee` is history: whom the claim under way pays, since the transfers themselves leave the
state of the vault. Between them the payee acts: every step that takes neither the vault's guard nor the PoolManager's
lock stays enabled (`Locked` says which do not). Trades have all four kinds of inputs, through the sizes of a gross or a net amount.

**FeeEscrow** is the abstract specification of what the vault promises its modules, with three
actions: shares accumulate in markets that have a module, leave whole to that module, and are
spent by it. The refinement mapping (`Escrow` in FeeVault) takes the module of a market from its
terms, the pending share from `destinationPending` and the holdings from `claims`.

**HolderRewardDistributor** runs on top of the whole vault. A root is the set of its leaves, in
both leaf formats. The loops of `publishEpoch` and `claimMany` are stepped through (`draft`,
`recording`), because their length is the caller's choice; nothing else moves until a loop ends,
and a loop that would revert is no behaviour. `PayLeaf` hands control to holders, who may then do what `InsidePayout` says, veto and release included.

**MarketPrices** adds a price per market and the block-start price of the hook to FeeEscrow.
A swap leaves any price behind. **BuybackBurnVault** and **FloorVault** are the modules that trade
with their share, each with both sides of the pool (`QuoteIsCurrency0`): cooldown, pump guard, price limit
and partial spends; band, snapping to the tick spacing, recorded edge, and the hook's refusal of
any other liquidity (`HookAccepts`). They build on FeeEscrow rather than on FeeVault, which
`ImplementsEscrow` justifies: it is checked in the run `fees` and proved for the vault alone and for the distributor on top of it.

**Amounts** defines the total of a ledger as the number of its units, a definition that needs no
recursion; its lemmas (`AmountsProofs`) say how a total changes when one account does.

### Keeper

**KeeperEpochs** is the epochs job, one step per await: `BeginRun`, `Resume`, the three
statements of `deleteEpoch`, `PlanRoot`, `Store` (a database transaction), the simulation, `Send`,
`Settle`. `Interrupt` ends a run at any of them. The next run knows only what the chain and the
database say. Around it the model has the chain (`Mine` succeeds or reverts
as `publishEpochFor` would), a pool of transactions from which the last may be lost, the clock, the index, and the owner who
takes the publisher role away for a while. Runs do not overlap: the advisory lock
(`withJobLock`) and the lock on the signer see to that. `Configurations` says whether the keepers have a key and are run dry,
`Stragglers` whether a transaction may outlive its run.

### Accounts

In these modules a request is a record with the statement it stands at and the copies it has read.
A step is what happens between two awaits; requests overlap, and one may end at any await, by an error or a crash.

**DailyRewards** is one account of the points engine: `dailyCheckIn`, `recoverBrokenStreak`,
`resetBrokenStreak`, `spin` and `addPoints`. The transactions of its wallets have the day they
were mined on, midnight may pass between two statements, and the row of the user a request writes
back is the one it read. The unique keys of the tables (`check_ins` by account and day, recoveries and spins by transaction) are
what refuses an insert, as in the migrations.

**Referrals** is `applyReferral` with the in-flight map and the result cache of each process,
`applyReferralOnce`, `finalizeReferralLink`, the retries of `updateReferralLedger` and the
commissions of `awardReferralCommission`, which wait for the activation of the referee. The rows `welcomed` and `brought`
are what the handlers look for before they award; `welcome`, `signup` and `commission` are histories of what was awarded. They
differ, because `addPoints` goes on when the insert of the event failed: the row of the referee is then raised for an award that has no event.

**WalletLink** is `createLinkRequest`, `confirmLink`, `unlinkWallet` and the database functions
behind them. `merge_accounts` takes its row locks after its first lookup; what it does under them is one step.
An award that overlaps a merge is part of the model, and so is one whose event does not go in (`unlogged` counts them). `lastId` is the sequence of account ids, which gives none out twice.
`stray` is history. Two confirmations of one wallet may both be past the lookup before either merges, and the second then merges
again, on the row the first left behind. That moves nothing, except when an award that had read the account before
the first merge writes its balance to that row in between: the second merge moves those points without the events, which moved before.
`LiveBalancesBacked` therefore speaks of behaviours in which this did not happen, and compares the balance with what was awarded
(`Awarded`: the events and those that did not go in), not with the events alone.

**QuestRewards** is `syncSweepProgressForQuest`, `startDelayQuest` and `verifyDelayQuest` with
`completeQuest`: the conditional update that takes `rewarded_at`, the award, its rollback, and
`upsertProgress`, which writes a whole row from the caller's copy. `SyncsOverlap` says whether two syncs of one wallet may.
The award is two steps, since `awardCustomPoints` gives the points (`Award`) before it waits for the commission of the referrer: it may throw before
the points are given (`AwardFails`) or after (`CommissionFails`, which `thrown` counts), and `completeQuest` releases the claim in either case.

**SweepCampaign** is the campaign from a sweep to a released prize: `enqueueCandidate` and `verifyCredit`, which
takes a row that is due, follows the submitted hash to an execution (`Sweep`: two hashes may lead to one), and stores it under the unique index on
the resolved hash; `claimTier`; `finalizeCampaign`, which freezes the campaign, reads the standings and
adds a row and then points for each winner (`awardOneTimeCampaignPoints`: `Award` looks for the event, `Grant` gives
the points, with awaits in between); `claimPrize`, `approveClaims` and `openPrizeClaims`.
A pass may be cut off between any two of its awaits (`Dies`), overlap with another and be repeated. Whether
the campaign still takes credits is read through the cache of a minute (`GetCampaign`, `Expire`), so that credits arrive
after the freeze; `late` records that one did. `Board` is the standings: those with a verified credit (`Ranked`), most volume first
and, of equals, who was first.

**SweepPayouts** is the payout worker: `processPayouts` takes a batch of approved claims with an atomic
update of each, `sendClaimPayout` signs, stores hash and nonce, broadcasts and waits;
`recoverSendingClaims` decides what becomes of claims an earlier run left in "sending"; the catch
block, `approveClaims`, the caps, the balance of the wallet. The chain mines transactions by nonce, and the owner
may use a nonce himself. `Faults` is the set of what may go wrong besides a crash.

### Requests

**AggregatorGovernor** is one governor (`schedule`, `governAggregatorCall`): a chain of promises as
tickets that are released in turn, the minimum interval, the breaker that a rate limit opens, cached results
with two lifetimes, and callers that share a request in flight.

**MulticallBatcher** is the queue of one chain with its timer, batches of `aggregate3`, the canary
that shows whether the node ran out of gas, the fallback to direct calls and the breaker. It
implements **DirectCalls**, what a caller would get without it: every call answered once, with the contract's own
answer or a failure of the transport.

**RpcFailover** is the dispatch of a request over its endpoints: rotation of public nodes and
keys, the order of the standard, verification and dedicated lanes, sequential failover and hedging.

### Instances

Components that keep no state in common share a run. **Accounts** composes the six of the API, with one action per component, and
their steps interleave in any order. In the code every award of theirs writes `point_events` and the balance, through the one `addPoints`.
The balance is a variable of two of them, apart from each other: DailyRewards has it next to check-ins, restores and spins, WalletLink next to merges, and
in both `addPoints` for any award there is (the request "earn", `BeginAward`) is a step that may come at any time, which stands for the
awards of all the others. Referrals, QuestRewards and SweepCampaign say what is awarded and how often, and leave the balance to those two. Commissions that a check-in or a
quest sets off are likewise the step `Earn` of Referrals.
`MCAccounts` gives the values and a variable `instance`: what one component does disturbs no other, so that in each
instance only one of them runs, leaving out what another instance is about. States then add up and do not multiply.
**Markets** (hook, buyback, floor; values in `MCMarkets`) and **OutgoingRequests** (values in `MCRequests`) do the same with
a variable `active` that names the component a behaviour is about; the others stay in their initial states. `MCFees` and **LiveKeepers** (with the values of `MCKeeper`)
choose between instances of one specification in the same way (`kind`, `live`). Accounts, Markets, OutgoingRequests and LiveKeepers are for any values, and the theorems
are about them.

## The runs

All runs use two workers and end within four minutes. State counts are of distinct states.

| Run | States | Asks |
|---|---|---|
| `markets` | 418 257 | Do all markets of a coin keep one set of terms, and does a rate ever rise? Does a price moved earlier in a block reach a buyback or a floor, do two pots in one currency stay apart, does the hook accept every band? |
| `fees` | 178 398 | Are a coin launched from a tweet, and a creator and a burn coin in one currency, paid out exactly and the author's reserve only to whom it may be, through key rotation, verification, claims, the end of the lock and calls from within payouts? Do two coins that share an epoch pay only from their own, also under roots that overspend or repeat an index? Can a veto, a release, a claim and the next epoch promise one unit twice? Does the vault implement FeeEscrow? |
| `keeper` | 561 882 | Are the epochs on chain claimable, and is everything paid in the end, when runs are cut off anywhere and transactions are lost or refused? What still holds when dry keepers and keepers without a key take turns with real ones? |
| `requests` | 106 336 | Does everybody who asks get an answer of the provider, in time, from the cheapest endpoint that has one? Does batching implement direct calls? |
| `accounts` | 745 022 | Do overlapping and interrupted requests about streaks, spins, referrals, wallets, quests, and credits, prizes and payouts of the sweep campaign reward or pay anything twice? Do the books agree with what was awarded, whichever events did not go in, and with the chain, and the prizes with the frozen standings? |
| `keeper_late_transaction` | violated | Is a crash really harmless when it leaves a transaction pending? |
| `keeper_dry_run` | violated | Does a dry run really leave nothing that a real run would publish? |
| `balance_drops` | violated | Are points really never deducted? |
| `wallet_primary` | violated | Has every account exactly one primary wallet? |
| `sweep_receipts` | violated | Is a claim really requeued only when its attempt can no longer land? |
| `quest_twice` | violated | Are points really granted once, even when several syncs race? |
| `one_prize_per_rank` | violated | Are all prizes really computed from one snapshot of the standings? |

The violated ones are explained under [findings](#findings).

The bounds, and why they are enough to meet the interesting cases:

- `markets`, hook: rates in tenths (`BPS` = 10), a clock to 3 with protections of 0, 1 and 2
  seconds, so that a fee cut falls before, inside and after the decay, and decays that round. One
  coin has a plan with two markets and one with a single market, and two accounts hand the role to and fro.
- `markets`, buyback and floor: three blocks with a cooldown of two; two markets on opposite sides
  of their pools in one currency; trades with and without a fee. Prices 8, 10, 12 with a pump limit
  and an impact of one tenth: within and beyond them in both directions. Floor prices −5, 0, 10
  with spacing 3, offsets 2 and 7 and a range of ±12: ticks of both signs off the spacing, and a band that does not fit.
- `fees`: `BPS` = 4 and trades of 3, so that every share rounds, two credits per currency
  (`MaxCredits`) so that rounding accumulates. The tweet instance has two markets in two currencies, two keys with attestations of
  different deadlines, a lock of 1 and a clock to 1: before and at its end; 2 units, a whole fee, are outstanding in each. The plain instance has two coins in one currency, of which one has a module and one pays its creator, and up to 4 units outstanding (`MaxFees`).
  The shared instance has one epoch; one root is honest, the other has one index twice, with different
  amounts, and a leaf over what its market may have reserved. The fourth has two epochs and a clock to 3, so
  that the second is published before or after the first is vetoed, released, or expires with part of it claimed. These two have holder coins with a fee of one unit and up to 3 or 2 units outstanding.
- `keeper`: three boundaries and epochs, pots of up to 2, three faults (interruptions, lost
  transactions, rotations of the role): two failures in a row, and one in the cleanup after them. One
  pending transaction, as only one can be sent while none outlives its run; in
  `keeper_late_transaction` they may, and the counterexample needs no second one.
- `requests`: four calls in batches of up to three, so that a full batch leaves before the timer and
  one call waits for it; three callers of two keys under the governor, an interval, a cool-off and deadlines that pass in the queue or
  do not, within a clock of 5; two overlapping requests on every lane over two public nodes, one custom endpoint and three keys, two at a time when hedged.
- `accounts`: two requests, the least that overlap, and
  one fault or crash. Streaks: one wallet, two payments, three days, so that a streak can break and be restored.
  Spins: two wallets, one day, tickets for more than one spin. Referrals: three accounts, two
  processes, two codes for one referee. Wallets: three, each with its account, two tokens, or one
  token and an award. Events may fail to go in: of referrals that of the welcome or that of one of the two referrers, of prizes that of one of the two winners, and any of the others. Quests: one of each kind, two sweeps to
  complete the first, two faults, so that a reward can fail before its points are given and another after.
  Payouts: claims of 1, 2 and 3 units with automatic payments up to 2, a cap of 2 a day and 4 in the wallet, so
  that each limit decides something; two attempts, a crash and a transaction of the owner. Sweep campaign, credits: one execution under two hashes, or a hash
  that leads nowhere next to it, a tier that takes the execution once and one that would take it twice. Standings: two users and two prizes; the smaller
  sweep is verified and the larger one may be submitted before or after the freeze, and is looked at once (retries are a matter of the other instance), so that the ranks
  can change under a pass; passes overlap and one fault or death cuts them off. Requests, and
  transactions of wallets, are interchangeable, and used as symmetry sets; the run has no liveness property.

Deadlock checking is on in `fees` and `keeper`: some step is always possible, if only a claim or another
run of the keeper. It is off in `markets`, `requests` and `accounts`, where every caller may have
had an answer, and blocks, days and transactions run out at their bounds.

Each property of a passing run has a mutant in `PROJECT.json`, the faulty variant of a definition
that the property refutes.

## Fairness

The contract modules have only safety properties: nothing on chain happens unless somebody sends a
transaction, and nobody has to. The two modules that are triggered by anyone for anyone (`executeBuyback`, `addFloor`) may wait
forever for a price, so no liveness is claimed for them. The accounts have none either: a request may end at any
await, and nobody has to repeat it.

The keeper has a scheduler. `LiveSpec` assumes, for the keeper that signs and sends, weak fairness of

- `RunStep`: `keeper/scheduler.ts` runs each job again after its interval, whatever became of
  the last run, and awaits return or throw (`Interrupt`, bounded by `MaxFaults`);
- `IndexCatchesUp`: the index follows the chain. A stalled index is an outage, in which the keeper waits by design;
- `Mine`: a pending transaction is mined or lost (`Lose`, bounded);
- `Authorise`: the owner does not leave the keeper without its role for good.

There is no fairness for trades, the clock, interruptions, losses and rotations. Under these assumptions every
epoch on chain gets to `published`, which is when its proofs are handed out
(`LiveEpochsBecomeClaimable`), and what was earned when a boundary passed is paid by an epoch that
reaches it (`LivePotsPaidOut`).

The requests have timers and timeouts. `RequestsSpec` assumes weak fairness of

- the flush timer of the batcher (`setTimeout`), and the end of every batch and direct call, which
  are HTTP requests with a timeout;
- `Tick`, `Turn`, `Wake` and `FetchEnds` of the governor: time passes, a released promise and a timer that is due run, and a
  fetch returns or throws;
- `Answer` of the dispatch, for each request: an endpoint that was asked answers, refuses or times out.

There is none for new callers. Under these assumptions everybody who asks gets an answer
(`EveryRequestAnswered`, and the fairness of `DirectCalls` in `ImplementsDirect`), whatever is
skipped, fails or throws before.

## The proofs

Proved for all values of the constants: any finite sets of coins, currencies, accounts, wallets, claims, requests and hashes, any
launch plans within the limits of the code, any trade sizes, roots, windows, prices and `BPS` > 0. The assumptions are the named
ones of each module (`HookAssumption`, `VaultAssumption`, `RewardsAssumption`, `WalletLinkAssumption` and so on) and the premises below. They ask for what a
database and a process have by being finite (`IsFiniteSet` of requests, claims and hashes), for a wallet to exist, and for names of nothing
(`Nobody`, `NoRow`, `NoHash`) to be none of the things named.
The bounds of the instances (`MaxTime`, `MaxFees`, `MaxEpochs`, `MaxAccounts`, `MaxFaults` and so on) are arbitrary naturals, so no bound limits a theorem.

| Module | Theorems | Argument |
|---|---|---|
| `AmountsProofs` | lemmas only | Totals as cardinalities of sets of units. |
| `MemeFunHookProofs` | `SplitExact`, `LaunchFeeDecays`, `GrossNetAgree`, `HookTypeCorrect`, `TermsAgree`, `ProposalsStayCurrent`, `RateOnlyFalls` | Algebra of integer division, from lemmas about `\div`, for FeeMath. `HookInv` adds that no market was launched in the future (`LaunchedBefore`), without which the decay cannot be compared, and that coins that do not exist have no roles (`UnlaunchedIsNobodys`). `RateOnlyFalls` then follows from `LaunchFeeDecays` for the clock and from monotonicity in the base with `OneSetOfTerms` for `LowerFee`, which compares with the primary market alone. |
| `FeesProofs`, the vault | `VaultTypeCorrect`, `VaultStaysSolvent`, `AuthorReserveStaysLocked`, `AuthorShareAlwaysHonoured`, `VaultImplementsEscrow` | `VaultInv` is the two type invariants with `VaultSolvent`; solvency is inductive with them. Every handler changes one account of some ledgers (`TotalChange`) or moves accounts into the payouts due (`TotalSplit`); the fee is what `Split` divides (`SplitExact`). The reserve theorem (`payee` names the bound wallet or, after the lock, the treasury, and does not change before the payouts are made) also needs that the lock of a coin starts when its markets do. The author's share has an invariant of its own (`AuthorBooks`): the history of a coin begins with its attribution, whose share never changes after, and every credit rounds the author's part down by less than a unit (`CreditRounds`, `RoundingAdds`). The refinement: every step accrues, is one whole pull, or is not seen by the modules (`Unseen`), because no handler touches the mode of a registered pool and `Split` leaves nothing for a destination where the mode has no module. |
| `FeesProofs`, the distributor | `DistTypeCorrect`, `RewardsStayBacked`, `MarketBudgetKept`, `OnlyOpenEpochsPay`, `LeavesPaidOnce`, `HonestHoldersCanClaim`, `DistributorImplementsEscrow` | `DistInv` adds to the vault's invariant: a market claimed at most its total (`ClaimedWithinTotal`), epochs are published in order (`PublishedInOrder`), every leaf recorded has its bit set (`LeavesMarked`), and payouts under way belong to an epoch whose claim period runs now (`PayingInPeriod`), which is what keeps veto and release, that take no lock, from closing an epoch in the middle of its payouts. For the holders of honest roots `ClaimBooks` says that the counter of an epoch's claims is the sum of the leaves recorded; an unclaimed leaf is not one of them, so that both fit into the sum over the root. |
| `MarketModulesProofs` | `BuybackOwnFees`, `BuybacksEndNearOpening`, `FloorKeepsFees`, `EdgeStaysHighest`, `BandsAccepted`, `PumpsLiftNoFloor` | `HookRemembers` (the block-start price the hook keeps is the price the block opened with, in a block in which the market has traded), `Books` (the pots of a currency are what the module holds of it, and what was earned is pending, in the pot or spent), and for the floor that the recorded edge bounds the bands. The rest is the arithmetic of price limits and of snapping a tick to the spacing. `PumpsLiftNoFloor` has the premise `TicksInRange`: prices end less than the near offset beyond the last usable ticks; in the code ±887 272 against ±887 200 and 6 932. |
| `MarketsProofs` | `MarketsTyped`, `BurnMarketsSpendTheirOwn`, `FloorMarketsKeepTheirs`, `RecordedEdgesAreHighest`, `HookTakesEveryBand`, `BuybacksStayNearOpening`, `PumpsRaiseNoFloor` | `MarketsInv` is the conjunction of `HookInv` and of the two modules' invariants, of which there is an instance of `MarketModulesProofs` for each module's markets. The lemmas `Same…` say that the module as Markets instantiates it and as that instance does is the same; then a step of Markets is a step of each component or leaves it alone. |
| `KeeperEpochsProofs` | `WindowsAlwaysFollowOn`, `PublishedProofsVerify`, `LeavesAlwaysKept`, `LiveLeavesAlwaysKept` | Premise of all: no transaction outlives the run that sent it (`~Stragglers`; finding 1 is what happens otherwise); of `LeavesAlwaysKept` also that no keeper is run dry (`RealRuns`; finding 2). `LiveLeavesAlwaysKept` says the same of the two kinds of keepers of LiveKeepers, where that premise is what `live` means. `KeeperInv` says that a row is at most one epoch ahead of the chain and follows on from it (`Ahead`), that every epoch on chain has a row with its root that is not failed (`Kept`), and that a run sees the chain as it is except while its own transaction waits (`SeesChain`). |
| `AccountsProofs`, payouts | `PayoutsTypeCorrect`, `PaidOnlyOnce`, `BooksAlwaysMatch`, `SpendingCapped`, `PayoutsRunAlone` | Premise `OneHonestWorker`: one server process, lookups that find a receipt that exists, updates that are stored when they return (finding 5 is what happens when a lookup fails). `PayoutsInv` says that a row names the only attempt of its claim that is under way or has landed (`Live`, `Landed`), and that the loop acts on rows that have not changed since it read them (`LoopAgrees`). For the daily cap, an approval the loop has read stands (`ApprovalsStand`), and what it is about to take has room (`RoomLeft`). Any number of crashes, attempts and transactions of the owner. `PayoutsRunAlone` says that Accounts does nothing to the payouts that SweepPayouts would not, so that these hold of it. |
| `AccountsProofs`, quests | `QuestsRewardOnce`, `QuestsRewardWork` | Premise `SyncsTakeTurns`: two syncs of one wallet do not overlap (finding 6 is what happens when they do). A row is written back only by a request that still knows it (`ReadNow`) or with its reward set (`Mending`), and whoever took the reward is the only one who can give it back (`OneHolder`). What was given for a quest is then as much as threw, and one more where the reward stands (`AwardsMarked`): a quest is rewarded again only for a reward that threw when its points were given. |
| `AccountsProofs`, campaign | `PrizesAlwaysFollowBoard`, `NobodyEverStranded`, `PrizesGivenOnce`, `TiersAlwaysEarned` | `CampaignInv`: an execution is in `verified` once (`CreditsOnce`), because two hashes that resolve to one meet in the unique index; a pass has its winners from the board and knows which of them it has a row for (`JobRight`); a winner's row is at his place, and the prize came with it (`PrizeRight`); a request that is about to give points has added the row itself and no other one is (`Giving`), so that points are given once although two passes may find no event. Once frozen and without a late credit the board does not move (`Frozen`), so that passes that overlap or repeat agree. |
| `AccountsProofs`, points | `PointsEarned`, `StreaksEarned`, `PointsRewardOnce`, `TicketsAlwaysCovered` | `PointsInv`: what the tables say of days and transactions (`TablesRight`), what a request has read is still backed by them, although others have written since (`PointRight`), and two requests are never about to pay for one row (`PointApart`), because each inserted it. A step then has to keep `NothingLost`: nothing a request may have seen is taken back. For the tickets the bound counts those that requests have taken and not used (`Spending`). |
| `AccountsProofs`, wallets | `BonusPaidOnce`, `LiveBalancesAlwaysBacked` | `LinksInv`: accounts that are named have ids that were given out (`IdsGiven`), so that an account merged away never comes back; what an award has read is backed by what was awarded until it writes it, or the account is gone (`LinkRight`); what was awarded counts with an event or without one, and moves only in a merge, together with the balance (`BalancesHeld`). |
| `AccountsProofs`, referrals | `SignupsPaidOnce`, `EarnedAlwaysAccounted` | `CodesInv`: what the row of a referee shows, what requests still have to add to it and what was given up as missed is together what was awarded for him (`Books`, with cardinalities of the requests that owe). The link of a referee is made once (`LinkStands`), so that the requests behind it are apart (`CodeApart`), on one process or several. |
| `AccountsProofs`, all | `AccountsTypeCorrect`, `BalancesAlwaysBacked`, `EverythingIsEarned`, `NothingRewardedTwice` | The conjunctions the run `accounts` checks, from the above. `NothingRewardedTwice` has the premise of the quests, `AccountsTypeCorrect` also that of the payouts, because the types of what the payout loop holds rest on what it knows. |
| `RequestsProofs` | `RequestsTyped`, `CallsInOnePlace`, `BatchingImplementsDirect`, `ProvidersAnswer`, `CallsStartInTime`, `RequestsInOrder` | `RequestsInv` is an invariant of each component, and a step of OutgoingRequests is a step of each or leaves it alone. Batcher: the queue, the batches and the direct calls are apart, hold every waiting call and never more than a batch, and results were given by the contract or by the transport. Governor: tickets are released in turn and all but the last of the running calls, so that one call is out at a time, and what is cached was said within its lifetime. Dispatch: what a request still has to try is the rest of its lane, in order, and all before has failed. The refinement is shown step by step; its liveness is checked only. |

`PROJECT.json` lists the theorems with the property each one states. Every safety and action property of
the passing runs is stated by a theorem.

Only model-checked: `LiveEpochsBecomeClaimable`, `LivePotsPaidOut`, `EveryRequestAnswered` and the liveness of `ImplementsDirect`,
whose steps `BatchingImplementsDirect` proves.
Out of the prover's reach: liveness under fairness, ENABLED, and facts that need induction over data.

## Findings

1. **A transaction mined after its run has ended costs an epoch its leaves**
   (`keeper_late_transaction`; `apps/memefun-backend/keeper/jobs/epochs.ts:86`). A run sends
   `publishEpochFor` and ends before the receipt: the process dies, or the wait of
   `keeper/tx.ts:47` passes its 120 seconds. The next run finds a built row whose epoch is
   `lastEpoch + 1` and publishes it again; on the pending block, or in a second transaction, the
   epoch is taken, the call reverts, and the row becomes `failed`. Meanwhile the first
   transaction is mined. The run after that deletes a failed epoch without asking whether the contract has it. The
   epoch is on chain, its leaves and proofs are gone from the database, and what it reserved can only come back by a veto within twelve hours, or when the claim period ends. The comment at
   `epochs.ts:25` ("Idempotent: a crash after building but before publishing resumes with the same
   epoch") and `apps/memefun-backend/README.md:105` ("Resumes cleanly after a crash") say otherwise. Comparing a failed row
   with `lastEpoch`, as line 79 does for a built one, would close the gap.
2. **A dry run can leave an epoch that a real run publishes** (`keeper_dry_run`; `epochs.ts:216`).
   The comment at line 218 rules this out, but the row is deleted only after a successful
   simulation: a dry keeper without a publisher key returns before it, and one that throws or dies
   leaves the row as well. With the leaves deleted and the row not (line 196 is three
   statements), the real run even publishes a root whose proofs no longer exist, which is why
   `keeper` asks for the leaves only where the keeper is live (`LiveLeavesKept`).
3. **Of two overlapping awards one can be taken away from the balance** (`balance_drops`;
   `services/pointsEngine.ts:3398`). `addPoints`, and `dailyCheckIn` at line 4550, write
   `total_points` as the value they read plus the award, with awaits in between. The award that read first
   and writes last undoes the other one; `docs/docs/rewards/pp-rewards.md:42` says that points are
   not deducted by normal usage. What was lost is still in `point_events`.
4. **A merged-away account can receive a wallet and has no primary one** (`wallet_primary`;
   `services/walletLink.ts:506`). A link request survives the merge of the account that
   created it. Confirming it merges a third wallet and its points into the account that is gone, where
   nobody finds them; `sql/wallet_merge.sql:19` says that every account has exactly one primary
   wallet. The requests need not overlap.
5. **A failed receipt lookup can pay a claim twice** (`sweep_receipts`;
   `services/sweepCampaign.ts:1608`). After a crash the recovery compares the wallet's
   nonce with that of the attempt; when it is used up it looks for the receipt again and takes any
   error for "the nonce went to a different tx". A lookup that times out, or a node that is behind, requeues a claim that has
   been paid. The comment at line 1552 says that a claim is requeued only when its attempt provably cannot land.
6. **A quest can be rewarded twice by two syncs of one wallet** (`quest_twice`;
   `services/questEngine.ts:4402`). `upsertProgress` writes `rewarded_at` back from the row its caller
   read. The slower of two syncs, having read the row before the reward, sets it to null, and its
   `completeQuest` succeeds again. The comment at line 4231 says that points are granted exactly once. The run has no faults
(`MaxTrouble` = 0). There is a second way, which needs no overlap and one fault: the points are given, the commission of the referrer throws (`updateReferralLedger`,
`services/pointsEngine.ts:3104` or `3138`), and the catch block at line 4289 releases the claim "so a later sync can retry awarding"; the next verification of the quest
pays it again. With `SyncsOverlap = FALSE` and a fault `QuestRewardedOnce` fails in that way, and that it fails in no other is what `RewardedAgainAfterThrow` says in the run `accounts`,
and `QuestsRewardOnce` for all values.
7. **One rank can have two winners** (`one_prize_per_rank`; `services/sweepCampaign.ts:2069`). The comments at lines 2030 and 431
   speak of a snapshot the prizes are computed from, but none is stored: each pass of `finalizeCampaign` reads the
   live leaderboard. A credit that was on its way when the campaign was frozen (one that is still pending under `force`,
   or one taken in by a process that sees the cached campaign) can be verified between two passes, of which the first
   was cut off or runs still. The second pass finds other winners; the row of a winner is unique per claimant and not per rank, so that the
   same rank and its prize are given to both. Without a late credit the prizes are those of the frozen board (`PrizesFollowBoard`).

## What the models leave out

- *Amounts*: the uint128 width of the ledgers and the reverts at it; donations of claims to the
  contracts (the code's equalities are then lower bounds); the ETH sent with a launch, creation
  fees and refunds; the number of coins a buyback burns.
- *The PoolManager*: pool arithmetic, ticks from square-root prices at their boundaries, liquidity formulas. A swap moves the price anywhere, an
  add of liquidity uses any part of the pot.
- *Time*: block number and timestamp advance together in MarketPrices; in the others only the
  timestamp counts. Days are the only time of DailyRewards; the payouts have a single day, so "paid today" is "paid".
- *Epochs*: a publication that reserves nothing is allowed, though useless; a Merkle proof is
  membership in the set of leaves (no collisions).
- *Keeper*: the weights of holders and the dust rule (the pot stands for what pays leaves), the
  first window's start (boundary 0), the file of leaves in the media store, errors of single queries beyond ending the run, and a node that
  answers with an old state. Vetoes are not part of it: the holders of a vetoed window lose that window, by the owner's decision.
- *Points*: tiers and multipliers beyond what one check-in is worth, ETH prices and the exact amounts of
  payments, rate limits, response caches. A transaction is one the account sent, to the right contract; whether it was
  paid enough is a property of the transaction, not of the handlers.
- *Wallets*: of what a merge moves, the points, the events and the wallet; signatures and previews.
- *Requests*: the contents of quotes and answers beyond what tells them apart; the sweep of expired cache
  entries; other chains and providers, which have governors and queues of their own.

- *Sweep campaign*: amounts and the checks of a receipt, which are what a sweep is worth (`worth`); pausing; addresses to pay to, and their signatures.

Some hazards in `PROJECT.json` have no property, with a note. Of two of them the models have the step, and no doc or comment says
otherwise: an attempt that is not stored, because the update failed or the process died before it, and points of a prize that are never given. Manual settlement is not modelled, nor are the
rows of the campaign that a merge of accounts leaves behind.

The remaining one does contradict the docs. A request to apply a code that is cut off after the link of the referee (`Throws` of Referrals
after `LinkUser`) leaves the signup bonuses unpaid for good, since every retry answers "Already referred" (`services/pointsEngine.ts:5783`).
`docs/docs/referrals/anti-sybil-measures.md:19` says that "signup bonuses and commission payouts are applied **exactly once** per qualifying event — duplicate
submissions or retries can't create duplicate rewards", and `docs/docs/referrals/referral-faq.md:49` that "bonuses are idempotent — applied exactly once per
new account. If their application errored mid-way, have them retry; duplicates are automatically prevented." What the code ensures, and `RewardedOnce` states, is
the second half: at most once.

## Not modelled

`PROJECT.json` names each component with its reason. In short:

- *The rest of the memefun contracts.* The router keeps no state. `MemeFunConfig` and the
  validation of the factory decide what a launch plan may be, and are the constant `LaunchPlans`;
  `MemeFunLaunchRewards` pays a wallet once by one mapping in one transaction; `LaunchMath` is fixed-point arithmetic that
  finite instances say nothing about and the repository fuzzes.
- *The DustSwap contracts*: vaults that pay an index once, guarded by one bit in one transaction, and stateless routers.
- *The rest of the keeper and the index*: jobs that call what is modelled as anyone may, and a read model of the chain.
- *Routes, front ends, admin, mail and notification services*: they validate, format, forward and
  display. Their length is most of the repository's, together with generated ABIs and the copies of the API that
  releases leave under `output/`, which repeat the files modelled here. The models therefore stand for a small part of
  all lines, and for the larger part of those that decide over fees, points and payouts.
- *Of the sweep campaign*: manual settlement, pausing and the pages that read. *Of the quest engine*: the other ways to verify a
  quest, which end in the same `completeQuest`.
