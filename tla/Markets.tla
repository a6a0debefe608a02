------------------------------ MODULE Markets ------------------------------
(***************************************************************************)
(* The three components of a market that keep no state in common: the      *)
(* buyback module, the floor module and the registry of the hook.  One of  *)
(* them is active in a behaviour and the others stay in their initial      *)
(* states, so that in a finite instance their states add up, and do not    *)
(* multiply.  Prices of the floor module's markets are ticks, so each of   *)
(* the two modules has markets of its own here.                            *)
(***************************************************************************)
EXTENDS MemeFunHook

CONSTANTS
    PotQuotes,                      \* quotes of the two modules' markets
    Modules, NoModule, QuoteIsCurrency0,
    OpeningPrice, Prices, Fees, MaxBlock, MaxPending,       \* BuybackBurnVault
    SqrtBps, MaxPump, MaxImpact, BuybackCooldown,
    OpeningTick, Ticks, FloorFees, MaxFloorPending,         \* FloorVault
    NearOffset, FarOffset, Spacing, MinUsableTick, MaxUsableTick, FloorCooldown

VARIABLES
    active,         \* the component this behaviour is about
    moduleOf, pending, held, price, blockStart, block, opening,
    balance, lastBuyback, spent, earned,
    fModuleOf, fPending, fHeld, fPrice, fBlockStart, fBlock, fOpening,
    fBalance, lastAdd, floored, nearTick, hasFloor, bands, fEarned

buybackState == <<moduleOf, pending, held, price, blockStart, block, opening,
                  balance, lastBuyback, spent, earned>>
floorState == <<fModuleOf, fPending, fHeld, fPrice, fBlockStart, fBlock, fOpening,
                fBalance, lastAdd, floored, nearTick, hasFloor, bands, fEarned>>

Buyback == INSTANCE BuybackBurnVault WITH Quotes <- PotQuotes, Cooldown <- BuybackCooldown

Floor == INSTANCE FloorVault WITH
    Quotes <- PotQuotes, OpeningPrice <- OpeningTick, Prices <- Ticks, Fees <- FloorFees,
    MaxPending <- MaxFloorPending, Cooldown <- FloorCooldown,
    moduleOf <- fModuleOf, pending <- fPending, held <- fHeld, price <- fPrice,
    blockStart <- fBlockStart, block <- fBlock, opening <- fOpening,
    balance <- fBalance, earned <- fEarned

ASSUME MarketsAssumption ==
    /\ Buyback!PricesAssumption /\ Buyback!BuybackAssumption
    /\ Floor!PricesAssumption /\ Floor!FloorAssumption

-----------------------------------------------------------------------------

MarketsInit ==
    /\ active \in {"buyback", "floor", "hook"}
    /\ Buyback!BuybackInit /\ Floor!FloorInit /\ HookInit

BuybackRuns ==
    /\ active = "buyback" /\ Buyback!BuybackNext
    /\ UNCHANGED <<active, floorState, hookVars>>

FloorRuns ==
    /\ active = "floor" /\ Floor!FloorNext
    /\ UNCHANGED <<active, buybackState, hookVars>>

HookRuns ==
    /\ active = "hook" /\ HookNext
    /\ UNCHANGED <<active, buybackState, floorState>>

MarketsNext == BuybackRuns \/ FloorRuns \/ HookRuns

MarketsSpec ==
    MarketsInit /\ [][MarketsNext]_<<active, buybackState, floorState, hookVars>>

-----------------------------------------------------------------------------

\* The types of the active component.
MarketsTypeOK ==
    CASE active = "buyback" -> Buyback!BuybackTypeOK
      [] active = "floor" -> Floor!FloorTypeOK
      [] active = "hook" -> HookTypeOK

\* BuybackBurnVault: a burn market's fees are spent on its own coin, or kept for it.
OwnFeesOnly == Buyback!OwnFeesOnly

\* BuybackBurnVault: a buyback ends near the price the block began with.
BuybackNearOpening == Buyback!BuybackNearOpening

\* FloorVault: fees end up in the market's own floor, its pot or the fee vault.
FloorFeesKept == Floor!FloorFeesKept

\* FloorVault: the recorded edge is the priciest ever placed.
EdgeIsHighest == Floor!EdgeIsHighest

\* FloorVault and MemeFunHook: the hook accepts every band the module computes.
HookAcceptsBands == Floor!HookAcceptsBands

\* FloorVault: a pump in the block lifts no new floor.
PumpLiftsNoFloor == Floor!PumpLiftsNoFloor

======================================================================================================================================================
