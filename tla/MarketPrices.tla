---------------------------- MODULE MarketPrices ----------------------------
(***************************************************************************)
(* The price of each market, and the block-start price MemeFunHook keeps   *)
(* for the modules that trade with their fees.  The hook does not see      *)
(* blocks begin: it writes the price down at the first swap of a block,    *)
(* and reads the live price as long as there was none (_recordBlockStart,  *)
(* blockStartSqrtPriceX96).                                                *)
(*                                                                         *)
(* A price is the pool's own: for a market whose quote is currency0 a      *)
(* lower price is a pricier coin, for the others a higher one.  Swaps move *)
(* it anywhere.  A block advances block.number and block.timestamp by one. *)
(***************************************************************************)
EXTENDS FeeEscrow

CONSTANTS
    QuoteIsCurrency0,   \* by market
    OpeningPrice,       \* price a market is initialised at
    Prices,             \* prices a trade may leave behind
    Fees,               \* fees a trade may leave for the module
    MaxBlock,           \* bound on the blocks
    MaxPending          \* bound on a market's share in the vault

PricesAssumption ==
    /\ QuoteIsCurrency0 \in [Markets -> BOOLEAN]
    /\ OpeningPrice \in Int /\ Prices \subseteq Int
    /\ Fees \subseteq Nat
    /\ MaxBlock \in Nat /\ MaxPending \in Nat
    /\ NoModule \notin Modules

VARIABLES
    price,          \* slot0 of the pool
    blockStart,     \* _blockStart
    block,          \* block.number, and block.timestamp
    opening         \* history: price of each market when the block began

priceVars == <<price, blockStart, block, opening>>
marketVars == <<escrowVars, priceVars>>

Opened(m) == moduleOf[m] # NoModule

MarketInit ==
    /\ EscrowInit
    /\ price = [m \in Markets |-> OpeningPrice]
    /\ blockStart = [m \in Markets |-> [block |-> 0, price |-> 0]]
    /\ block = 1
    /\ opening = price

\* blockStartSqrtPriceX96
BlockStartPrice(m) ==
    IF blockStart[m].block = block THEN blockStart[m].price ELSE price[m]

\* _recordBlockStart, at the start of every swap.
RecordBlockStart(m) ==
    blockStart' = IF blockStart[m].block = block THEN blockStart
                  ELSE [blockStart EXCEPT ![m] = [block |-> block, price |-> price[m]]]

\* A launch registers the market with its module and initialises its pool.
OpenMarket(m, h) ==
    /\ ~Opened(m)
    /\ moduleOf' = [moduleOf EXCEPT ![m] = h]
    /\ pending' = pending
    /\ Accrue
    /\ UNCHANGED priceVars

\* A swap on m: it leaves some price behind and some fee for the module.
TradeMarket(m, newPrice, fee) ==
    /\ Opened(m)
    /\ pending[m] + fee <= MaxPending
    /\ pending' = [pending EXCEPT ![m] = @ + fee]
    /\ moduleOf' = moduleOf
    /\ Accrue
    /\ RecordBlockStart(m)
    /\ price' = [price EXCEPT ![m] = newPrice]
    /\ UNCHANGED <<block, opening>>

NextBlock ==
    /\ block < MaxBlock
    /\ block' = block + 1
    /\ opening' = price
    /\ UNCHANGED <<escrowVars, price, blockStart>>

MarketStep ==
    \/ \E m \in Markets, h \in Modules : OpenMarket(m, h)
    \/ \E m \in Markets, newPrice \in Prices, fee \in Fees :
          TradeMarket(m, newPrice, fee)
    \/ NextBlock

-----------------------------------------------------------------------------

MarketTypeOK ==
    /\ moduleOf \in [Markets -> Modules \cup {NoModule}]
    /\ pending \in [Markets -> Nat]
    /\ held \in [Modules -> [Quotes -> Nat]]
    /\ price \in [Markets -> Int] /\ opening \in [Markets -> Int]
    /\ blockStart \in [Markets -> [block : Nat, price : Int]]
    /\ block \in Nat

=============================================================================
