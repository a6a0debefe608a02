---------------------------- MODULE MarketsProofs ----------------------------
(***************************************************************************)
(* What a market's three components promise together, for every set of     *)
(* coins, quotes, markets and prices.  The hook's own invariant is that of *)
(* MemeFunHookProofs; the modules' are those of MarketModulesProofs, of    *)
(* which there is one instance for the markets of each.                    *)
(***************************************************************************)
EXTENDS Markets, MemeFunHookProofs

-----------------------------------------------------------------------------
\* The modules' markets

BB == INSTANCE MarketModulesProofs WITH Quotes <- PotQuotes, Cooldown <- BuybackCooldown

FF == INSTANCE MarketModulesProofs WITH
    Quotes <- PotQuotes, OpeningPrice <- OpeningTick, Prices <- Ticks, Fees <- FloorFees,
    MaxPending <- MaxFloorPending, Cooldown <- FloorCooldown,
    moduleOf <- fModuleOf, pending <- fPending, held <- fHeld, price <- fPrice,
    blockStart <- fBlockStart, block <- fBlock, opening <- fOpening,
    balance <- fBalance, earned <- fEarned

LEMMA BuybackPremises == BB!BuybackPremise
BY MarketsAssumption DEF BB!BuybackPremise, BB!PricesAssumption, BB!Buyback!BuybackAssumption,
   Buyback!PricesAssumption, Buyback!BuybackAssumption, BB!Markets, Buyback!Markets,
   BB!Buyback!Self, Buyback!Self, Buyback!IsFiniteSet, BB!Buyback!IsFiniteSet

LEMMA FloorPremises == FF!FloorPremise
BY MarketsAssumption DEF FF!FloorPremise, FF!PricesAssumption, FF!Floor!FloorAssumption,
   Floor!PricesAssumption, Floor!FloorAssumption, FF!Markets, Floor!Markets,
   FF!Floor!Self, Floor!Self, Floor!IsFiniteSet, FF!Floor!IsFiniteSet

LEMMA SameBuybackInit == Buyback!BuybackInit => BB!Buyback!BuybackInit
BY DEF Buyback!BuybackInit, BB!Buyback!BuybackInit, Buyback!MarketInit, BB!Buyback!MarketInit,
   Buyback!EscrowInit, BB!Buyback!EscrowInit, Buyback!Markets, BB!Buyback!Markets

LEMMA SameFloorInit == Floor!FloorInit => FF!Floor!FloorInit
BY DEF Floor!FloorInit, FF!Floor!FloorInit, Floor!MarketInit, FF!Floor!MarketInit,
   Floor!EscrowInit, FF!Floor!EscrowInit, Floor!Markets, FF!Floor!Markets

LEMMA SameBuybackMarketStep == Buyback!MarketStep => BB!Buyback!MarketStep
BY Zenon DEF Buyback!MarketStep, BB!Buyback!MarketStep, Buyback!OpenMarket, BB!Buyback!OpenMarket,
   Buyback!TradeMarket, BB!Buyback!TradeMarket, Buyback!NextBlock, BB!Buyback!NextBlock,
   Buyback!Accrue, BB!Buyback!Accrue, Buyback!Opened, BB!Buyback!Opened,
   Buyback!RecordBlockStart, BB!Buyback!RecordBlockStart, Buyback!Markets, BB!Buyback!Markets,
   Buyback!priceVars, BB!Buyback!priceVars, Buyback!escrowVars, BB!Buyback!escrowVars

LEMMA SameFloorMarketStep == Floor!MarketStep => FF!Floor!MarketStep
BY Zenon DEF Floor!MarketStep, FF!Floor!MarketStep, Floor!OpenMarket, FF!Floor!OpenMarket,
   Floor!TradeMarket, FF!Floor!TradeMarket, Floor!NextBlock, FF!Floor!NextBlock,
   Floor!Accrue, FF!Floor!Accrue, Floor!Opened, FF!Floor!Opened,
   Floor!RecordBlockStart, FF!Floor!RecordBlockStart, Floor!Markets, FF!Floor!Markets,
   Floor!priceVars, FF!Floor!priceVars, Floor!escrowVars, FF!Floor!escrowVars

LEMMA SameBuybackNext ==
  ASSUME Buyback!BuybackNext
  PROVE  BB!Buyback!BuybackNext
<1>1. CASE Buyback!BuybackStep
  <2> USE DEF Buyback!Markets, BB!Buyback!Markets, Buyback!Self, BB!Buyback!Self, Buyback!UpToLimit,
      BB!Buyback!UpToLimit, Buyback!Limit, BB!Buyback!Limit
  <2>1. BB!Buyback!BuybackStep
    BY <1>1, Zenon DEF Buyback!BuybackStep, BB!Buyback!BuybackStep, Buyback!ExecuteBuyback,
       BB!Buyback!ExecuteBuyback, Buyback!CoolingDown, BB!Buyback!CoolingDown, Buyback!Pot,
       BB!Buyback!Pot, Buyback!Pumped, BB!Buyback!Pumped, Buyback!BlockStartPrice,
       BB!Buyback!BlockStartPrice, Buyback!RecordBlockStart, BB!Buyback!RecordBlockStart,
       Buyback!LeftOver, BB!Buyback!LeftOver
  <2> QED
    BY <2>1 DEF BB!Buyback!BuybackNext
<1>2. CASE Buyback!OutsideStep
  BY <1>2, SameBuybackMarketStep DEF Buyback!OutsideStep, BB!Buyback!OutsideStep,
     BB!Buyback!BuybackNext, Buyback!Markets, BB!Buyback!Markets
<1> QED
  BY <1>1, <1>2 DEF Buyback!BuybackNext

LEMMA SameBands == \A m : FF!Floor!Band(m) = Floor!Band(m)
BY Zenon DEF Floor!Band, FF!Floor!Band, Floor!TickCeil, FF!Floor!TickCeil, Floor!TickFloor,
   FF!Floor!TickFloor, Floor!Truncated, FF!Floor!Truncated, Floor!Smaller, FF!Floor!Smaller,
   Floor!Larger, FF!Floor!Larger, Floor!Reference, FF!Floor!Reference,
   Floor!BlockStartPrice, FF!Floor!BlockStartPrice

LEMMA SameFloorNext ==
  ASSUME Floor!FloorNext
  PROVE  FF!Floor!FloorNext
<1>1. CASE Floor!FloorStep
  <2>1. FF!Floor!FloorStep
    BY <1>1, SameBands, Zenon DEF Floor!FloorStep, FF!Floor!FloorStep, Floor!AddFloor, FF!Floor!AddFloor,
       Floor!CoolingDown, FF!Floor!CoolingDown, Floor!Pot, FF!Floor!Pot, Floor!BandInRange,
       FF!Floor!BandInRange, Floor!HookAccepts, FF!Floor!HookAccepts, Floor!LeftOver,
       FF!Floor!LeftOver, Floor!Ratchet, FF!Floor!Ratchet, Floor!Near, FF!Floor!Near,
       Floor!Pricier, FF!Floor!Pricier, Floor!priceVars, FF!Floor!priceVars, Floor!Markets,
       FF!Floor!Markets, Floor!Self, FF!Floor!Self
  <2> QED
    BY <2>1 DEF FF!Floor!FloorNext
<1>2. CASE Floor!OutsideStep
  BY <1>2, SameFloorMarketStep DEF Floor!OutsideStep, FF!Floor!OutsideStep,
     FF!Floor!FloorNext, Floor!Markets, FF!Floor!Markets
<1> QED
  BY <1>1, <1>2 DEF Floor!FloorNext

-----------------------------------------------------------------------------
\* The three components together

MarketsInv ==
    /\ active \in {"buyback", "floor", "hook"}
    /\ BB!BuybackInv /\ FF!FloorInv /\ HookInv

\* A step of the buyback module's markets, and one that leaves them alone.
LEMMA BuybackKept ==
  ASSUME BB!BuybackInv, Buyback!BuybackNext \/ UNCHANGED buybackState
  PROVE  BB!BuybackInv' /\ (UNCHANGED buybackState \/ BB!BuybackSound)
<1>1. [BB!Buyback!BuybackNext]_(BB!Buyback!allBuybackVars)
  BY SameBuybackNext DEF buybackState, BB!Buyback!allBuybackVars, BB!Buyback!marketVars,
     BB!Buyback!escrowVars, BB!Buyback!priceVars, BB!Buyback!buybackVars
<1>2. UNCHANGED BB!Buyback!allBuybackVars => UNCHANGED buybackState
  BY DEF buybackState, BB!Buyback!allBuybackVars, BB!Buyback!marketVars,
     BB!Buyback!escrowVars, BB!Buyback!priceVars, BB!Buyback!buybackVars
<1> QED
  BY <1>1, <1>2, BuybackPremises, BB!BuybackSteps

LEMMA FloorKept ==
  ASSUME FF!FloorInv, Floor!FloorNext \/ UNCHANGED floorState
  PROVE  FF!FloorInv' /\ (UNCHANGED floorState \/ FF!FloorSound)
<1>1. [FF!Floor!FloorNext]_(FF!Floor!allFloorVars)
  BY SameFloorNext DEF floorState, FF!Floor!allFloorVars, FF!Floor!marketVars,
     FF!Floor!escrowVars, FF!Floor!priceVars, FF!Floor!floorVars
<1>2. UNCHANGED FF!Floor!allFloorVars => UNCHANGED floorState
  BY DEF floorState, FF!Floor!allFloorVars, FF!Floor!marketVars,
     FF!Floor!escrowVars, FF!Floor!priceVars, FF!Floor!floorVars
<1> QED
  BY <1>1, <1>2, FloorPremises, FF!FloorSteps

LEMMA MarketsStart ==
  ASSUME MarketsInit
  PROVE  MarketsInv
<1>1. BB!BuybackInv
  BY SameBuybackInit, BuybackPremises, BB!BuybackStarts DEF MarketsInit
<1>2. FF!FloorInv
  BY SameFloorInit, FloorPremises, FF!FloorStarts DEF MarketsInit
<1> QED
  BY <1>1, <1>2, HookInitInv DEF MarketsInit, MarketsInv

marketsVars == <<active, buybackState, floorState, hookVars>>

\* What a step of one component does, and that the others stay as they are.
LEMMA MarketsStep ==
  ASSUME MarketsInv, [MarketsNext]_marketsVars
  PROVE  /\ MarketsInv'
         /\ UNCHANGED buybackState \/ BB!BuybackSound
         /\ UNCHANGED floorState \/ FF!FloorSound
         /\ [HookNext]_hookVars
<1>1. /\ Buyback!BuybackNext \/ UNCHANGED buybackState
      /\ Floor!FloorNext \/ UNCHANGED floorState
      /\ [HookNext]_hookVars
      /\ active' = active
  BY DEF MarketsNext, BuybackRuns, FloorRuns, HookRuns, marketsVars
<1>2. BB!BuybackInv' /\ (UNCHANGED buybackState \/ BB!BuybackSound)
  BY <1>1, BuybackKept DEF MarketsInv
<1>3. FF!FloorInv' /\ (UNCHANGED floorState \/ FF!FloorSound)
  BY <1>1, FloorKept DEF MarketsInv
<1>4. HookInv'
  BY <1>1, HookNextInv DEF MarketsInv
<1> QED
  BY <1>1, <1>2, <1>3, <1>4 DEF MarketsInv

LEMMA MarketsInvariant == MarketsSpec => []MarketsInv
<1>1. MarketsInv /\ [MarketsNext]_marketsVars => MarketsInv'
  BY MarketsStep
<1> QED
  BY <1>1, MarketsStart, PTL DEF MarketsSpec, marketsVars

\* The variables of each component keep their types.
THEOREM MarketsTyped == MarketsSpec => []MarketsTypeOK
<1>1. ASSUME BB!BuybackInv PROVE Buyback!BuybackTypeOK
  BY <1>1 DEF BB!BuybackInv, BB!MarketTypeOK, BB!Books, BB!Markets, Buyback!BuybackTypeOK,
     Buyback!MarketTypeOK, Buyback!Markets
<1>2. ASSUME FF!FloorInv PROVE Floor!FloorTypeOK
  BY <1>2 DEF FF!FloorInv, FF!FloorsTyped, FF!MarketTypeOK, FF!Books, FF!Markets,
     Floor!FloorTypeOK, Floor!MarketTypeOK, Floor!Markets
<1>3. MarketsInv => MarketsTypeOK
  BY <1>1, <1>2 DEF MarketsInv, HookInv, MarketsTypeOK
<1> QED
  BY <1>3, MarketsInvariant, PTL

\* BuybackBurnVault, note 4: a burn market's fees are spent on its own coin, or wait
\* in its pot or in the fee vault, however many markets share the currency.
THEOREM BurnMarketsSpendTheirOwn == MarketsSpec => []OwnFeesOnly
<1>1. MarketsInv => OwnFeesOnly
  BY DEF MarketsInv, BB!BuybackInv, BB!Books, BB!Markets, BB!Buyback!Self, OwnFeesOnly,
     Buyback!OwnFeesOnly, Buyback!Markets, Buyback!Self
<1> QED
  BY <1>1, MarketsInvariant, PTL

\* FloorVault: the pots of a currency are what the contract holds of it, and what a
\* floor market earned is in its own floor, its pot or the fee vault.
THEOREM FloorMarketsKeepTheirs == MarketsSpec => []FloorFeesKept
<1>1. ASSUME MarketsInv PROVE FloorFeesKept
  <2>1. FF!Floor!FloorFeesKept
    BY <1>1, FF!BooksGiveFees DEF MarketsInv
  <2>2. \A f : FF!Floor!Total(f) = Floor!Total(f)
    BY DEF FF!Floor!Total, Floor!Total, FF!Floor!Units, Floor!Units, FF!Floor!Cardinality,
       Floor!Cardinality
  <2> QED
    BY <2>1, <2>2 DEF FF!Floor!FloorFeesKept, FloorFeesKept, Floor!FloorFeesKept,
       FF!Floor!Markets, Floor!Markets, FF!Floor!Self, Floor!Self
<1> QED
  BY <1>1, MarketsInvariant, PTL

\* FloorVault, note 4: floorNearTickFor is the priciest edge among all the positions
\* the module ever placed in the market.
THEOREM RecordedEdgesAreHighest == MarketsSpec => []EdgeIsHighest
<1>1. MarketsInv => EdgeIsHighest
  BY DEF MarketsInv, FF!FloorInv, FF!Floor!EdgeIsHighest, EdgeIsHighest, Floor!EdgeIsHighest,
     FF!Floor!Near, Floor!Near, FF!Floor!Pricier, Floor!Pricier, FF!Floor!Markets, Floor!Markets
<1> QED
  BY <1>1, MarketsInvariant, PTL

\* FloorVault and MemeFunHook agree: whatever the price, _beforeAddLiquidity accepts
\* the band that _band computes, so no price keeps a market's fees from its floor.
THEOREM HookTakesEveryBand == MarketsSpec => []HookAcceptsBands
<1>1. ASSUME MarketsInv PROVE HookAcceptsBands
  <2>1. FF!Floor!HookAcceptsBands
    BY <1>1, FloorPremises, FF!BandsFit DEF MarketsInv
  <2>2. \A m : FF!Floor!Band(m) = Floor!Band(m)
    BY SameBands
  <2> QED
    BY <2>1, <2>2 DEF FF!Floor!HookAcceptsBands, HookAcceptsBands, Floor!HookAcceptsBands,
       FF!Floor!BandInRange, Floor!BandInRange, FF!Floor!HookAccepts, Floor!HookAccepts,
       FF!Floor!Opened, Floor!Opened, FF!Floor!Markets, Floor!Markets
<1> QED
  BY <1>1, MarketsInvariant, PTL

\* BuybackBurnVault, note 2: a buyback leaves the coin at most one allowed pump and
\* one impact pricier than it was when the block began.
THEOREM BuybacksStayNearOpening == MarketsSpec => BuybackNearOpening
<1> DEFINE Near == \A m \in Buyback!Markets : lastBuyback'[m] # lastBuyback[m] =>
               IF QuoteIsCurrency0[m]
               THEN (price'[m] + 1) * SqrtBps * SqrtBps
                      > opening[m] * (SqrtBps - MaxPump) * (SqrtBps - MaxImpact)
               ELSE price'[m] * SqrtBps * SqrtBps
                      <= opening[m] * (SqrtBps + MaxPump) * (SqrtBps + MaxImpact)
<1>1. UNCHANGED buybackState => UNCHANGED Buyback!allBuybackVars
  BY DEF buybackState, Buyback!allBuybackVars, Buyback!marketVars, Buyback!escrowVars,
     Buyback!priceVars, Buyback!buybackVars
<1>2. BB!BuybackSound => Near
  BY DEF BB!BuybackSound, BB!NearOpening, BB!Markets, Buyback!Markets
<1>3. MarketsInv /\ [MarketsNext]_marketsVars => [Near]_(Buyback!allBuybackVars)
  BY <1>1, <1>2, MarketsStep
<1> QED
  BY <1>3, MarketsInvariant, PTL DEF MarketsSpec, marketsVars, BuybackNearOpening,
     Buyback!BuybackNearOpening

\* FloorVault, note 3: where prices are in the range of the pool's ticks, a new band is
\* at least the near offset cheaper than the coin was when the block began, and its
\* edges are usable ticks.
THEOREM PumpsRaiseNoFloor ==
  ASSUME FF!TicksInRange
  PROVE  MarketsSpec => PumpLiftsNoFloor
<1> DEFINE Placed == \A m \in Floor!Markets : \A b \in bands'[m] \ bands[m] :
               /\ IF QuoteIsCurrency0[m] THEN b.lower >= fOpening[m] + NearOffset
                                         ELSE b.upper <= fOpening[m] - NearOffset
               /\ b.lower % Spacing = 0 /\ b.upper % Spacing = 0
               /\ MinUsableTick <= b.lower /\ b.upper <= MaxUsableTick
<1>1. UNCHANGED floorState => UNCHANGED Floor!allFloorVars
  BY DEF floorState, Floor!allFloorVars, Floor!marketVars, Floor!escrowVars,
     Floor!priceVars, Floor!floorVars
<1>2. FF!FloorSound => Placed
  BY DEF FF!FloorSound, FF!Unlifted, FF!Markets, Floor!Markets
<1>3. MarketsInv /\ [MarketsNext]_marketsVars => [Placed]_(Floor!allFloorVars)
  BY <1>1, <1>2, MarketsStep
<1> QED
  BY <1>3, MarketsInvariant, PTL DEF MarketsSpec, marketsVars, PumpLiftsNoFloor,
     Floor!PumpLiftsNoFloor

=============================================================================
