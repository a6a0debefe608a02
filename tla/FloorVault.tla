----------------------------- MODULE FloorVault -----------------------------
(***************************************************************************)
(* modules/FloorVault.sol: a floor market's fees become a permanent        *)
(* position below its price.  Prices are ticks here.  As with a buyback,   *)
(* an add is one transaction without a call out of the protocol, one step. *)
(***************************************************************************)
EXTENDS MarketPrices, Amounts

CONSTANTS
    NearOffset,     \* NEAR_OFFSET, ticks of a 2x move
    FarOffset,      \* FAR_OFFSET, ticks of a 10x move
    Spacing,        \* LaunchMath.TICK_SPACING
    MinUsableTick,  \* LaunchMath.MIN_USABLE_TICK
    MaxUsableTick,  \* LaunchMath.MAX_USABLE_TICK
    Cooldown        \* COOLDOWN

Self == "FloorVault"

FloorAssumption ==
    /\ Self \in Modules
    /\ Spacing \in Nat \ {0}
    /\ NearOffset \in Nat \ {0} /\ FarOffset \in Nat /\ NearOffset < FarOffset
    /\ MinUsableTick \in Int /\ MaxUsableTick \in Int
    /\ Cooldown \in Nat \ {0}
    /\ IsFiniteSet(Coins)

VARIABLES
    balance,        \* _markets[id].balance
    lastAdd,        \* _markets[id].lastAdd, 0 before the first
    floored,        \* _markets[id].floored
    nearTick,       \* _markets[id].nearTick
    hasFloor,       \* _markets[id].hasFloor
    bands,          \* positions of the module in each pool; nothing removes them
    earned          \* history: what the market's trades left for the module

floorVars == <<balance, lastAdd, floored, nearTick, hasFloor, bands, earned>>
allFloorVars == <<marketVars, floorVars>>

FloorInit ==
    /\ MarketInit
    /\ balance = [m \in Markets |-> 0]
    /\ lastAdd = [m \in Markets |-> 0]
    /\ floored = [m \in Markets |-> 0]
    /\ nearTick = [m \in Markets |-> 0]
    /\ hasFloor = [m \in Markets |-> FALSE]
    /\ bands = [m \in Markets |-> {}]
    /\ earned = [m \in Markets |-> 0]

-----------------------------------------------------------------------------
\* Ticks

\* Solidity's / on int24 truncates towards zero.
Truncated(a, b) == IF a >= 0 THEN a \div b ELSE -((-a) \div b)

\* _floor and _ceil: tick snapped to the spacing, down and up.
TickFloor(tick, spacing) ==
    (Truncated(tick, spacing) - (IF tick < 0 /\ tick % spacing # 0 THEN 1 ELSE 0)) * spacing
TickCeil(tick, spacing) ==
    (Truncated(tick, spacing) + (IF tick > 0 /\ tick % spacing # 0 THEN 1 ELSE 0)) * spacing

Smaller(a, b) == IF a < b THEN a ELSE b
Larger(a, b) == IF a > b THEN a ELSE b

\* Faulty variant of Reference: the live price alone.
LivePrice(m) == price[m]

\* Faulty variant of Reference: the two prices are compared the wrong way round.
PricierPrice(m) ==
    IF QuoteIsCurrency0[m] THEN Smaller(price[m], BlockStartPrice(m))
                           ELSE Larger(price[m], BlockStartPrice(m))

\* The cheaper of the live price and the block-start price, for the coin.
Reference(m) ==
    IF QuoteIsCurrency0[m] THEN Larger(price[m], BlockStartPrice(m))
                           ELSE Smaller(price[m], BlockStartPrice(m))

\* _band: 2x to 10x cheaper than the reference, snapped inward.
Band(m) ==
    IF QuoteIsCurrency0[m]
    THEN [lower |-> TickCeil(Reference(m) + NearOffset, Spacing),
          upper |-> TickFloor(Smaller(Reference(m) + FarOffset, MaxUsableTick), Spacing)]
    ELSE [lower |-> TickCeil(Larger(Reference(m) - FarOffset, MinUsableTick), Spacing),
          upper |-> TickFloor(Reference(m) - NearOffset, Spacing)]

BandInRange(m) == Band(m).lower < Band(m).upper

\* MemeFunHook._beforeAddLiquidity: the only adds after the launch are quote-only
\* ranges of the floor module.
HookAccepts(m, band) ==
    IF QuoteIsCurrency0[m] THEN band.lower > price[m] ELSE band.upper <= price[m]

\* The edge of a band nearest to the price, and whether it is pricier than another.
Near(m, band) == IF QuoteIsCurrency0[m] THEN band.lower ELSE band.upper
Pricier(m, a, b) == IF QuoteIsCurrency0[m] THEN a < b ELSE a > b

-----------------------------------------------------------------------------

CoolingDown(m) == lastAdd[m] # 0 /\ block < lastAdd[m] + Cooldown

\* What an add of m may use: its pot, and what it pulls now.
Pot(m) == balance[m] + pending[m]

\* Faulty variant of LeftOver: the pot from before is forgotten.
LeftOverOfPull(m, used) == pending[m] - used

LeftOver(m, used) == Pot(m) - used

\* Faulty variant of Ratchet: every add moves the recorded edge.
FollowLast(m) == nearTick' = [nearTick EXCEPT ![m] = Near(m, Band(m))]

\* The recorded edge moves only towards a pricier coin.
Ratchet(m) ==
    nearTick' = IF hasFloor[m] /\ ~Pricier(m, Near(m, Band(m)), nearTick[m]) THEN nearTick
                ELSE [nearTick EXCEPT ![m] = Near(m, Band(m))]

\* _addFloor and unlockCallback: pull the market's share and place it.  The
\* liquidity is what the pot affords, rounded down, and costs used; a pot too
\* small for any reverts.
AddFloor(m, used) ==
    /\ moduleOf[m] = Self
    /\ ~CoolingDown(m)
    /\ used <= Pot(m)
    /\ BandInRange(m)
    /\ HookAccepts(m, Band(m))
    /\ held' = [held EXCEPT ![Self][m[2]] = @ + pending[m] - used]
    /\ pending' = [pending EXCEPT ![m] = 0]
    /\ lastAdd' = [lastAdd EXCEPT ![m] = block]
    /\ balance' = [balance EXCEPT ![m] = LeftOver(m, used)]
    /\ floored' = [floored EXCEPT ![m] = @ + used]
    /\ Ratchet(m)
    /\ hasFloor' = [hasFloor EXCEPT ![m] = TRUE]
    /\ bands' = [bands EXCEPT ![m] = @ \cup {Band(m)}]
    /\ UNCHANGED <<moduleOf, priceVars, earned>>

FloorStep == \E m \in Markets : \E used \in 1 .. Pot(m) : AddFloor(m, used)

\* Launches, trades and blocks; earned follows what trades leave in the vault.
OutsideStep ==
    /\ MarketStep
    /\ earned' = [m \in Markets |-> earned[m] + pending'[m] - pending[m]]
    /\ UNCHANGED <<balance, lastAdd, floored, nearTick, hasFloor, bands>>

FloorNext == FloorStep \/ OutsideStep

FloorSpec == FloorInit /\ [][FloorNext]_allFloorVars

-----------------------------------------------------------------------------

FloorTypeOK ==
    /\ MarketTypeOK
    /\ balance \in [Markets -> Nat] /\ lastAdd \in [Markets -> Nat]
    /\ floored \in [Markets -> Nat] /\ earned \in [Markets -> Nat]
    /\ nearTick \in [Markets -> Int] /\ hasFloor \in [Markets -> BOOLEAN]
    /\ bands \in [Markets -> SUBSET [lower : Int, upper : Int]]

\* The pots of a currency's markets are exactly what the contract holds of it,
\* and what a floor market earned is in its own floor, its pot or the fee vault.
FloorFeesKept ==
    /\ \A q \in Quotes :
          held[Self][q] = Total([m \in {x \in Markets : x[2] = q} |-> balance[m]])
    /\ \A m \in Markets : moduleOf[m] = Self => earned[m] = floored[m] + balance[m] + pending[m]

\* Note 4: floorNearTickFor is the priciest edge among all the positions the
\* module ever placed in the market, on either side of the pool.
EdgeIsHighest ==
    \A m \in Markets :
        /\ hasFloor[m] <=> bands[m] # {}
        /\ hasFloor[m] => \E b \in bands[m] : Near(m, b) = nearTick[m]
        /\ \A b \in bands[m] : ~Pricier(m, Near(m, b), nearTick[m])

\* Note 3: whatever was traded earlier in the block, a new band is at least the
\* near offset cheaper than the market was when the block began, and its edges
\* are usable ticks of the pool.
PumpLiftsNoFloor ==
    [][\A m \in Markets : \A b \in bands'[m] \ bands[m] :
          /\ IF QuoteIsCurrency0[m] THEN b.lower >= opening[m] + NearOffset
                                    ELSE b.upper <= opening[m] - NearOffset
          /\ b.lower % Spacing = 0 /\ b.upper % Spacing = 0
          /\ MinUsableTick <= b.lower /\ b.upper <= MaxUsableTick]_allFloorVars

\* The two contracts agree: the hook accepts every band the module computes, so
\* no price leaves a market's fees stuck outside its floor.
HookAcceptsBands ==
    \A m \in Markets : Opened(m) /\ BandInRange(m) => HookAccepts(m, Band(m))

=============================================================================
