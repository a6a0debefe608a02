-------------------------- MODULE BuybackBurnVault --------------------------
(***************************************************************************)
(* modules/BuybackBurnVault.sol: a burn market's fees buy its coin, which  *)
(* goes to 0x...dEaD.  Anyone may run a buyback; it is one transaction and *)
(* none of its calls reaches code outside the protocol, so it is one step. *)
(* While a claim of the vault or a payout of the distributor is under way  *)
(* it reverts, because pulling needs the vault's guard and swapping needs  *)
(* to unlock the PoolManager.                                              *)
(***************************************************************************)
EXTENDS MarketPrices, Amounts

CONSTANTS
    SqrtBps,        \* 10_000, the scale of the next two
    MaxPump,        \* MAX_PUMP_SQRT_BPS
    MaxImpact,      \* MAX_IMPACT_SQRT_BPS
    Cooldown        \* COOLDOWN

Self == "BuybackBurnVault"

BuybackAssumption ==
    /\ Self \in Modules
    /\ SqrtBps \in Nat \ {0}
    /\ MaxPump \in 0 .. SqrtBps /\ MaxImpact \in 0 .. SqrtBps
    /\ Cooldown \in Nat \ {0}
    /\ OpeningPrice \in Nat /\ Prices \subseteq Nat
    /\ IsFiniteSet(Coins)

VARIABLES
    balance,        \* _markets[id].balance
    lastBuyback,    \* _markets[id].lastBuyback, 0 before the first
    spent,          \* _markets[id].spent
    earned          \* history: what the market's trades left for the module

buybackVars == <<balance, lastBuyback, spent, earned>>
allBuybackVars == <<marketVars, buybackVars>>

BuybackInit ==
    /\ MarketInit
    /\ balance = [m \in Markets |-> 0]
    /\ lastBuyback = [m \in Markets |-> 0]
    /\ spent = [m \in Markets |-> 0]
    /\ earned = [m \in Markets |-> 0]

CoolingDown(m) == lastBuyback[m] # 0 /\ block < lastBuyback[m] + Cooldown

\* Faulty variant of Pumped: compared with the live price's own side only.
PumpedEitherWay(m) == price[m] * SqrtBps > BlockStartPrice(m) * (SqrtBps + MaxPump)

\* The coin became pricier earlier in this block than MaxPump allows.
Pumped(m) ==
    IF QuoteIsCurrency0[m]
    THEN price[m] * SqrtBps < BlockStartPrice(m) * (SqrtBps - MaxPump)
    ELSE price[m] * SqrtBps > BlockStartPrice(m) * (SqrtBps + MaxPump)

\* The price limit of the buyback's swap.
Limit(m) ==
    IF QuoteIsCurrency0[m]
    THEN (price[m] * (SqrtBps - MaxImpact)) \div SqrtBps
    ELSE (price[m] * (SqrtBps + MaxImpact)) \div SqrtBps

\* Prices between the current one and the limit.
UpToLimit(m) ==
    IF QuoteIsCurrency0[m] THEN Limit(m) .. price[m] ELSE price[m] .. Limit(m)

\* Faulty variant of Pot: everything the module holds in the currency.
PotOfModule(m) == held[Self][m[2]] + pending[m]

\* What a buyback of m may spend: its pot, and what it pulls now.
Pot(m) == balance[m] + pending[m]

LeftOver(m, cost) == Pot(m) - cost

\* _executeBuyback and unlockCallback: pull the market's share, swap at most all
\* of the market's pot up to the limit, and pay with the claims.  The swap is
\* charged no fee, and what it did not spend stays in the pot: it stops either
\* because everything is spent or at the limit.
ExecuteBuyback(m, cost, newPrice) ==
    /\ moduleOf[m] = Self
    /\ ~CoolingDown(m)
    /\ Pot(m) # 0
    /\ ~Pumped(m)
    /\ cost <= Pot(m) /\ (cost < Pot(m) => newPrice = Limit(m))
    /\ newPrice \in UpToLimit(m)
    /\ held' = [held EXCEPT ![Self][m[2]] = @ + pending[m] - cost]
    /\ pending' = [pending EXCEPT ![m] = 0]
    /\ RecordBlockStart(m)
    /\ price' = [price EXCEPT ![m] = newPrice]
    /\ lastBuyback' = [lastBuyback EXCEPT ![m] = block]
    /\ balance' = [balance EXCEPT ![m] = LeftOver(m, cost)]
    /\ spent' = [spent EXCEPT ![m] = @ + cost]
    /\ UNCHANGED <<moduleOf, block, opening, earned>>

BuybackStep ==
    \E m \in Markets : \E cost \in 0 .. held[Self][m[2]] + pending[m], newPrice \in UpToLimit(m) :
        ExecuteBuyback(m, cost, newPrice)

\* Launches, trades and blocks; earned follows what trades leave in the vault.
OutsideStep ==
    /\ MarketStep
    /\ earned' = [m \in Markets |-> earned[m] + pending'[m] - pending[m]]
    /\ UNCHANGED <<balance, lastBuyback, spent>>

BuybackNext == BuybackStep \/ OutsideStep

BuybackSpec == BuybackInit /\ [][BuybackNext]_allBuybackVars

-----------------------------------------------------------------------------

BuybackTypeOK ==
    /\ MarketTypeOK
    /\ balance \in [Markets -> Nat] /\ lastBuyback \in [Markets -> Nat]
    /\ spent \in [Markets -> Nat] /\ earned \in [Markets -> Nat]

\* Note 4: a burn market never spends another's fees, and none are lost: what it
\* earned was spent on its coin, waits in its pot or in the fee vault.
OwnFeesOnly ==
    \A m \in Markets : moduleOf[m] = Self => earned[m] = spent[m] + balance[m] + pending[m]

\* Note 2: whatever happened earlier in the block and however often buybacks
\* ran, one leaves the coin at most the allowed pump and one impact pricier than
\* it was when the block began.
BuybackNearOpening ==
    [][\A m \in Markets : lastBuyback'[m] # lastBuyback[m] =>
          IF QuoteIsCurrency0[m]
          THEN (price'[m] + 1) * SqrtBps * SqrtBps
                 > opening[m] * (SqrtBps - MaxPump) * (SqrtBps - MaxImpact)
          ELSE price'[m] * SqrtBps * SqrtBps
                 <= opening[m] * (SqrtBps + MaxPump) * (SqrtBps + MaxImpact)]_allBuybackVars

=============================================================================
