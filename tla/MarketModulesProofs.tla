------------------------ MODULE MarketModulesProofs ------------------------
(***************************************************************************)
(* The two modules that trade with their share, for any markets, prices,   *)
(* fees and limits: BuybackBurnVault and FloorVault keep the books of      *)
(* their markets apart, and what is traded earlier in a block moves        *)
(* neither a buyback nor a floor beyond the stated bounds.                 *)
(*                                                                         *)
(* Both keep the same kind of book on top of FeeEscrow and read the same   *)
(* block-start price, so the lemmas about those are stated once, and each  *)
(* module is an instance over them.                                        *)
(***************************************************************************)
EXTENDS MarketPrices, AmountsProofs

CONSTANTS SqrtBps, MaxPump, MaxImpact,
          NearOffset, FarOffset, Spacing, MinUsableTick, MaxUsableTick, Cooldown

VARIABLES balance, earned, lastBuyback, spent,
          lastAdd, floored, nearTick, hasFloor, bands

Buyback == INSTANCE BuybackBurnVault
Floor == INSTANCE FloorVault

-----------------------------------------------------------------------------
\* Prices: the block-start price is the price the block began with

HookRemembers ==
    \A m \in Markets :
        /\ blockStart[m].block <= block
        /\ IF blockStart[m].block = block THEN blockStart[m].price = opening[m]
                                          ELSE price[m] = opening[m]

LEMMA BlockStartIsOpening ==
  ASSUME HookRemembers, NEW m \in Markets
  PROVE  BlockStartPrice(m) = opening[m]
BY DEF HookRemembers, BlockStartPrice

LEMMA SwapRemembered ==
  ASSUME MarketTypeOK, HookRemembers, NEW m \in Markets, NEW p \in Int, RecordBlockStart(m),
         price' = [price EXCEPT ![m] = p], UNCHANGED <<block, opening>>
  PROVE  /\ HookRemembers'
         /\ price' \in [Markets -> Int] /\ opening' \in [Markets -> Int] /\ block' \in Nat
         /\ blockStart' \in [Markets -> [block : Nat, price : Int]]
<1> USE DEF MarketTypeOK
<1>1. price' \in [Markets -> Int] /\ \A x \in Markets : x # m => price'[x] = price[x]
  OBVIOUS
<1>2. CASE blockStart[m].block = block
  <2>1. blockStart' = blockStart
    BY <1>2 DEF RecordBlockStart
  <2> QED
    BY <1>1, <1>2, <2>1 DEF HookRemembers
<1>3. CASE blockStart[m].block # block
  <2> DEFINE b == [block |-> block, price |-> price[m]]
  <2>1. b \in [block : Nat, price : Int] /\ b.block = block /\ b.price = opening[m]
    BY <1>3 DEF HookRemembers
  <2>2. blockStart' = [blockStart EXCEPT ![m] = b]
    BY <1>3 DEF RecordBlockStart
  <2> HIDE DEF b
  <2>3. /\ blockStart' \in [Markets -> [block : Nat, price : Int]] /\ blockStart'[m] = b
        /\ \A x \in Markets : x # m => blockStart'[x] = blockStart[x]
    BY <2>1, <2>2
  <2> QED
    BY <1>1, <2>1, <2>3 DEF HookRemembers
<1> QED
  BY <1>2, <1>3

LEMMA BlockRemembered ==
  ASSUME MarketTypeOK, HookRemembers, NextBlock
  PROVE  /\ HookRemembers'
         /\ price' \in [Markets -> Int] /\ opening' \in [Markets -> Int] /\ block' \in Nat
         /\ blockStart' \in [Markets -> [block : Nat, price : Int]]
BY DEF MarketTypeOK, HookRemembers, NextBlock

-----------------------------------------------------------------------------
\* Books: what a market earned is used, in its pot or in the fee vault

MarketsIn(q) == {m \in Markets : m[2] = q}

PotsIn(q) == [m \in MarketsIn(q) |-> balance[m]]

LEMMA MarketsInFinite ==
  ASSUME IsFiniteSet(Coins), NEW q \in Quotes
  PROVE  IsFiniteSet(MarketsIn(q))
<1>1. IsFiniteSet({q})
  BY FS_Singleton
<1>2. IsFiniteSet(Coins \X {q})
  BY <1>1, FS_Product
<1>3. MarketsIn(q) \subseteq Coins \X {q}
  BY DEF MarketsIn, Markets
<1> QED
  BY <1>2, <1>3, FS_Subset

\* The book of the module mod, which counts what each market used in used.
Books(mod, used) ==
    /\ balance \in [Markets -> Nat] /\ earned \in [Markets -> Nat] /\ used \in [Markets -> Nat]
    /\ \A m \in Markets :
          /\ moduleOf[m] = mod => earned[m] = used[m] + balance[m] + pending[m]
          /\ moduleOf[m] # mod => used[m] = 0 /\ balance[m] = 0
          /\ ~Opened(m) => pending[m] = 0 /\ earned[m] = 0
    /\ \A q \in Quotes : held[mod][q] = Total(PotsIn(q))

\* The same of the next state, in which used is what used becomes.
BooksNext(mod, used) ==
    /\ balance' \in [Markets -> Nat] /\ earned' \in [Markets -> Nat] /\ used \in [Markets -> Nat]
    /\ \A m \in Markets :
          /\ moduleOf'[m] = mod => earned'[m] = used[m] + balance'[m] + pending'[m]
          /\ moduleOf'[m] # mod => used[m] = 0 /\ balance'[m] = 0
          /\ ~Opened(m)' => pending'[m] = 0 /\ earned'[m] = 0
    /\ \A q \in Quotes : held'[mod][q] = Total(PotsIn(q)')

\* The escrow's part of the types.
EscrowTyped ==
    /\ moduleOf \in [Markets -> Modules \cup {NoModule}]
    /\ pending \in [Markets -> Nat]
    /\ held \in [Modules -> [Quotes -> Nat]]

LEMMA PotsType ==
  ASSUME balance \in [Markets -> Nat], NEW q \in Quotes
  PROVE  PotsIn(q) \in [MarketsIn(q) -> Nat]
BY DEF PotsIn, MarketsIn

\* Launches, trades and blocks.
LEMMA OutsideBooks ==
  ASSUME PricesAssumption, MarketTypeOK, NEW mod \in Modules, NEW used, Books(mod, used),
         MarketStep, balance' = balance,
         earned' = [m \in Markets |-> earned[m] + pending'[m] - pending[m]]
  PROVE  BooksNext(mod, used) /\ EscrowTyped'
<1> USE DEF MarketTypeOK
<1>1. \A q \in Quotes : PotsIn(q)' = PotsIn(q)
  BY DEF PotsIn, MarketsIn, Markets
<1>2. CASE NextBlock
  <2>1. UNCHANGED escrowVars /\ earned' = earned
    BY <1>2 DEF NextBlock, Books, escrowVars
  <2> QED
    BY <1>1, <2>1 DEF Books, BooksNext, escrowVars, Opened, EscrowTyped
<1>3. ASSUME NEW m \in Markets, NEW h \in Modules, OpenMarket(m, h)
      PROVE  BooksNext(mod, used) /\ EscrowTyped'
  <2>1. /\ ~Opened(m) /\ moduleOf' = [moduleOf EXCEPT ![m] = h] /\ pending' = pending
        /\ held' = held /\ h # NoModule
    BY <1>3 DEF OpenMarket, Accrue, PricesAssumption
  <2>2. earned' = earned
    BY <2>1 DEF Books
  <2>3. /\ moduleOf' \in [Markets -> Modules \cup {NoModule}] /\ moduleOf'[m] = h
        /\ \A x \in Markets : x # m => moduleOf'[x] = moduleOf[x]
    BY <2>1
  <2>4. moduleOf[m] # mod
    BY <2>1 DEF Opened, PricesAssumption
  <2>5. \A x \in Markets :
            /\ moduleOf'[x] = mod => earned[x] = used[x] + balance[x] + pending[x]
            /\ moduleOf'[x] # mod => used[x] = 0 /\ balance[x] = 0
            /\ moduleOf'[x] = NoModule => pending[x] = 0 /\ earned[x] = 0
    <3>1. used[m] = 0 /\ balance[m] = 0 /\ pending[m] = 0 /\ earned[m] = 0
      BY <2>1, <2>4 DEF Books
    <3>2. ASSUME NEW x \in Markets, x # m
          PROVE  /\ moduleOf'[x] = mod => earned[x] = used[x] + balance[x] + pending[x]
                 /\ moduleOf'[x] # mod => used[x] = 0 /\ balance[x] = 0
                 /\ moduleOf'[x] = NoModule => pending[x] = 0 /\ earned[x] = 0
      BY <2>3, <3>2 DEF Books, Opened
    <3> QED
      BY <2>1, <2>3, <3>1, <3>2
  <2>6. EscrowTyped'
    BY <2>1, <2>3 DEF EscrowTyped
  <2> QED
    BY <1>1, <2>1, <2>2, <2>5, <2>6 DEF Books, BooksNext, Opened
<1>4. ASSUME NEW m \in Markets, NEW p \in Prices, NEW fee \in Fees, TradeMarket(m, p, fee)
      PROVE  BooksNext(mod, used) /\ EscrowTyped'
  <2>1. /\ Opened(m) /\ moduleOf' = moduleOf /\ pending' = [pending EXCEPT ![m] = @ + fee]
        /\ held' = held /\ fee \in Nat
    BY <1>4 DEF TradeMarket, Accrue, PricesAssumption
  <2>2. /\ pending' \in [Markets -> Nat] /\ pending'[m] = pending[m] + fee
        /\ \A x \in Markets : x # m => pending'[x] = pending[x]
    BY <2>1
  <2>3. /\ earned' \in [Markets -> Nat] /\ earned'[m] = earned[m] + fee
        /\ \A x \in Markets : x # m => earned'[x] = earned[x]
    <3>1. earned \in [Markets -> Nat] /\ pending \in [Markets -> Nat]
      BY DEF Books
    <3>2. earned' = [x \in Markets |-> IF x = m THEN earned[x] + fee ELSE earned[x]]
      BY <2>1, <2>2, <3>1
    <3> QED
      BY <2>1, <3>1, <3>2
  <2> QED
    BY <1>1, <2>1, <2>2, <2>3 DEF Books, BooksNext, Opened, EscrowTyped
<1> QED
  BY <1>2, <1>3, <1>4 DEF MarketStep

\* A module pulls the share of m and uses cost of its pot.
Uses(mod, used, used2, m, cost) ==
    /\ moduleOf[m] = mod /\ cost \in Nat /\ cost <= balance[m] + pending[m]
    /\ held' = [held EXCEPT ![mod][m[2]] = @ + pending[m] - cost]
    /\ pending' = [pending EXCEPT ![m] = 0]
    /\ balance' = [balance EXCEPT ![m] = balance[m] + pending[m] - cost]
    /\ used2 = [used EXCEPT ![m] = @ + cost]
    /\ UNCHANGED <<moduleOf, earned>>

LEMMA UseBooks ==
  ASSUME PricesAssumption, IsFiniteSet(Coins), MarketTypeOK, NEW mod \in Modules, NEW used,
         NEW used2, Books(mod, used), NEW m \in Markets, NEW cost, Uses(mod, used, used2, m, cost)
  PROVE  BooksNext(mod, used2) /\ EscrowTyped'
<1> USE DEF MarketTypeOK
<1>1. m[2] \in Quotes /\ m \in MarketsIn(m[2])
  BY DEF Markets, MarketsIn
<1>2. /\ balance' \in [Markets -> Nat] /\ balance'[m] = balance[m] + pending[m] - cost
      /\ \A x \in Markets : x # m => balance'[x] = balance[x]
  BY DEF Uses, Books
<1>3. /\ pending' \in [Markets -> Nat] /\ pending'[m] = 0
      /\ \A x \in Markets : x # m => pending'[x] = pending[x]
  BY DEF Uses
<1>4. /\ used2 \in [Markets -> Nat] /\ used2[m] = used[m] + cost
      /\ \A x \in Markets : x # m => used2[x] = used[x]
  BY DEF Uses, Books
<1>5. /\ cost \in Nat /\ moduleOf[m] = mod /\ moduleOf' = moduleOf /\ earned' = earned
      /\ mod # NoModule
  BY DEF Uses, PricesAssumption
<1>6. \A x \in Markets :
          /\ moduleOf'[x] = mod => earned'[x] = used2[x] + balance'[x] + pending'[x]
          /\ moduleOf'[x] # mod => used2[x] = 0 /\ balance'[x] = 0
          /\ ~Opened(x)' => pending'[x] = 0 /\ earned'[x] = 0
  <2> SUFFICES ASSUME NEW x \in Markets
               PROVE  /\ moduleOf[x] = mod => earned[x] = used2[x] + balance'[x] + pending'[x]
                      /\ moduleOf[x] # mod => used2[x] = 0 /\ balance'[x] = 0
                      /\ ~Opened(x) => pending'[x] = 0 /\ earned[x] = 0
    BY <1>5 DEF Opened
  <2>1. CASE x = m
    <3>1. earned[m] = used[m] + balance[m] + pending[m] /\ Opened(m)
      BY <1>5 DEF Books, Opened
    <3>2. used[m] \in Nat /\ balance[m] \in Nat /\ pending[m] \in Nat
      BY DEF Books
    <3> QED
      BY <1>2, <1>3, <1>4, <1>5, <2>1, <3>1, <3>2
  <2>2. CASE x # m
    BY <1>2, <1>3, <1>4, <2>2 DEF Books
  <2> QED
    BY <2>1, <2>2
<1>7. ASSUME NEW q \in Quotes
      PROVE  /\ PotsIn(q) \in [MarketsIn(q) -> Nat] /\ PotsIn(q)' \in [MarketsIn(q) -> Nat]
             /\ \A x \in MarketsIn(q) : PotsIn(q)[x] = balance[x] /\ PotsIn(q)'[x] = balance'[x]
  <2>1. MarketsIn(q)' = MarketsIn(q) /\ MarketsIn(q) \subseteq Markets
    BY DEF MarketsIn, Markets
  <2> QED
    BY <1>2, <2>1 DEF PotsIn, Books
<1>8. /\ held' \in [Modules -> [Quotes -> Int]]
      /\ held'[mod][m[2]] = held[mod][m[2]] + pending[m] - cost
      /\ \A h \in Modules, q \in Quotes : h # mod \/ q # m[2] => held'[h][q] = held[h][q]
  BY <1>1, <1>5 DEF Uses
<1>9. ASSUME NEW q \in Quotes
      PROVE  held'[mod][q] = Total(PotsIn(q)') /\ held'[mod][q] \in Nat
  <2> DEFINE f == PotsIn(q)
             g == PotsIn(q)'
  <2>1. IsFiniteSet(MarketsIn(q)) /\ f \in [MarketsIn(q) -> Nat] /\ g \in [MarketsIn(q) -> Nat]
    BY <1>7, MarketsInFinite
  <2>2. held[mod][q] = Total(f)
    BY DEF Books
  <2>3. \A x \in MarketsIn(q) : f[x] = balance[x] /\ g[x] = balance'[x]
    BY <1>7
  <2> HIDE DEF f, g
  <2>4. Total(g) \in Nat
    BY <2>1, TotalType
  <2>5. CASE q = m[2]
    <3>1. m \in MarketsIn(q) /\ \A x \in MarketsIn(q) \ {m} : g[x] = f[x]
      BY <1>1, <1>2, <2>3, <2>5 DEF MarketsIn
    <3>2. Total(g) = Total(f) - f[m] + g[m]
      BY <2>1, <3>1, TotalChange
    <3>3. f[m] = balance[m] /\ g[m] = balance[m] + pending[m] - cost /\ balance[m] \in Nat
      BY <1>2, <2>3, <3>1 DEF Books
    <3>4. Total(f) \in Nat /\ pending[m] \in Nat
      BY <2>1, TotalType
    <3>5. held'[mod][q] = Total(g)
      BY <1>5, <1>8, <2>2, <2>5, <3>2, <3>3, <3>4
    <3> QED
      BY <2>4, <3>5 DEF g
  <2>6. CASE q # m[2]
    <3>1. \A x \in MarketsIn(q) : g[x] = f[x]
      BY <1>2, <2>3, <2>6 DEF MarketsIn
    <3>2. g = f
      BY <2>1, <3>1
    <3>3. held'[mod][q] = Total(g)
      BY <1>8, <2>2, <2>6, <3>2
    <3> QED
      BY <2>4, <3>3 DEF g
  <2> QED
    BY <2>5, <2>6
<1>10. held' \in [Modules -> [Quotes -> Nat]]
  <2>1. \A h \in Modules, q \in Quotes : held'[h][q] \in Nat
    BY <1>8, <1>9
  <2> QED
    BY <1>8, <2>1
<1> QED
  BY <1>2, <1>3, <1>4, <1>5, <1>6, <1>9, <1>10 DEF BooksNext, Books, EscrowTyped

-----------------------------------------------------------------------------
\* BuybackBurnVault

BuybackPremise == PricesAssumption /\ Buyback!BuybackAssumption

BuybackInv ==
    /\ MarketTypeOK /\ lastBuyback \in [Markets -> Nat]
    /\ price \in [Markets -> Nat] /\ opening \in [Markets -> Nat]
    /\ HookRemembers
    /\ Books(Buyback!Self, spent)

LEMMA BuybackStarts ==
  ASSUME BuybackPremise, Buyback!BuybackInit
  PROVE  BuybackInv
<1> USE DEF BuybackPremise, PricesAssumption, Buyback!BuybackAssumption, Buyback!Self
<1>1. MarketInit /\ spent = [m \in Markets |-> 0] /\ balance = [m \in Markets |-> 0]
      /\ lastBuyback = [m \in Markets |-> 0] /\ earned = [m \in Markets |-> 0]
  BY DEF Buyback!BuybackInit, Buyback!MarketInit, MarketInit, Buyback!EscrowInit, EscrowInit,
     Buyback!Markets, Markets
<1>2. /\ moduleOf = [m \in Markets |-> NoModule] /\ pending = [m \in Markets |-> 0]
      /\ held = [h \in Modules |-> [q \in Quotes |-> 0]]
      /\ price = [m \in Markets |-> OpeningPrice] /\ opening = price /\ block = 1
      /\ blockStart = [m \in Markets |-> [block |-> 0, price |-> 0]]
  BY <1>1 DEF MarketInit, EscrowInit
<1>3. MarketTypeOK /\ price \in [Markets -> Nat] /\ lastBuyback \in [Markets -> Nat]
  BY <1>1, <1>2 DEF MarketTypeOK
<1>4. HookRemembers
  BY <1>2 DEF HookRemembers
<1>5. \A q \in Quotes : held[Buyback!Self][q] = Total(PotsIn(q))
  <2> SUFFICES ASSUME NEW q \in Quotes PROVE held[Buyback!Self][q] = Total(PotsIn(q))
    OBVIOUS
  <2>1. PotsIn(q) \in [MarketsIn(q) -> Nat] /\ \A m \in MarketsIn(q) : PotsIn(q)[m] = 0
    BY <1>1 DEF PotsIn, MarketsIn
  <2>2. Total(PotsIn(q)) = 0
    BY <2>1, TotalZero
  <2> QED
    BY <1>2, <2>2
<1>6. Books(Buyback!Self, spent)
  BY <1>1, <1>2, <1>5 DEF Books, Opened
<1> QED
  BY <1>2, <1>3, <1>4, <1>6 DEF BuybackInv

\* The share of an amount: what \div gives, and where a limit ends.
LEMMA DivBounds ==
  ASSUME NEW a \in Nat, NEW b \in Nat \ {0}
  PROVE  a \div b \in Nat /\ b * (a \div b) <= a /\ a < b * (a \div b) + b
OBVIOUS

LEMMA TimesKeepsOrder ==
  ASSUME NEW a \in Int, NEW b \in Int, NEW c \in Nat
  PROVE  /\ a <= b => a * c <= b * c
         /\ a < b /\ c # 0 => a * c < b * c
OBVIOUS

\* A price pushed at most to the limit, from one that was pumped at most by P.
LEMMA LoweredWithin ==
  ASSUME NEW S \in Nat \ {0}, NEW P \in 0 .. S, NEW I \in 0 .. S, NEW o \in Nat, NEW p \in Nat,
         NEW n \in Nat, p * S >= o * (S - P), n >= (p * (S - I)) \div S
  PROVE  (n + 1) * S * S > o * (S - P) * (S - I)
<1> DEFINE k == S - I
           j == S - P
           a == p * k
           d == a \div S
<1>1. k \in Nat /\ j \in Nat
  OBVIOUS
<1>2. a \in Nat
  BY <1>1
<1> HIDE DEF a, k, j
<1>3. d \in Nat /\ a < S * d + S
  BY <1>2, DivBounds
<1>4. n >= d
  BY DEF a, k
<1> HIDE DEF d
<1>5. S * d + S = (d + 1) * S /\ (d + 1) * S <= (n + 1) * S
  BY <1>3, <1>4, TimesKeepsOrder
<1>6. a < (n + 1) * S
  BY <1>2, <1>3, <1>5
<1>7. a * S < (n + 1) * S * S
  BY <1>2, <1>6, TimesKeepsOrder
<1>8. (o * j) * k <= (p * S) * k
  <2>1. o * j \in Int /\ p * S \in Int /\ o * j <= p * S
    BY <1>1 DEF j
  <2> QED
    BY <1>1, <2>1, TimesKeepsOrder
<1>9. (p * S) * k = a * S
  BY <1>1 DEF a
<1>10. o * j * k \in Int /\ a * S \in Int /\ (n + 1) * S * S \in Int
  BY <1>1, <1>2
<1>11. o * j * k < (n + 1) * S * S
  BY <1>7, <1>8, <1>9, <1>10
<1> QED
  BY <1>11 DEF j, k

LEMMA RaisedWithin ==
  ASSUME NEW S \in Nat \ {0}, NEW P \in 0 .. S, NEW I \in 0 .. S, NEW o \in Nat, NEW p \in Nat,
         NEW n \in Nat, p * S <= o * (S + P), n <= (p * (S + I)) \div S
  PROVE  n * S * S <= o * (S + P) * (S + I)
<1> DEFINE k == S + I
           j == S + P
           a == p * k
           d == a \div S
<1>1. k \in Nat /\ j \in Nat
  OBVIOUS
<1>2. a \in Nat
  BY <1>1
<1> HIDE DEF a, k, j
<1>3. d \in Nat /\ S * d <= a
  BY <1>2, DivBounds
<1>4. n <= d
  BY DEF a, k
<1> HIDE DEF d
<1>5. n * S <= d * S /\ d * S = S * d
  BY <1>3, <1>4, TimesKeepsOrder
<1>6. n * S <= a
  BY <1>2, <1>3, <1>5
<1>7. n * S * S <= a * S
  BY <1>2, <1>6, TimesKeepsOrder
<1>8. (p * S) * k <= (o * j) * k
  <2>1. o * j \in Int /\ p * S \in Int /\ p * S <= o * j
    BY <1>1 DEF j
  <2> QED
    BY <1>1, <2>1, TimesKeepsOrder
<1>9. (p * S) * k = a * S
  BY <1>1 DEF a
<1>10. o * j * k \in Int /\ a * S \in Int /\ n * S * S \in Int
  BY <1>1, <1>2
<1>11. n * S * S <= o * j * k
  BY <1>7, <1>8, <1>9, <1>10
<1> QED
  BY <1>11 DEF j, k

\* Where a buyback leaves the price of its market.
NearOpening(m, newPrice) ==
    IF QuoteIsCurrency0[m]
    THEN (newPrice + 1) * SqrtBps * SqrtBps
           > opening[m] * (SqrtBps - MaxPump) * (SqrtBps - MaxImpact)
    ELSE newPrice * SqrtBps * SqrtBps
           <= opening[m] * (SqrtBps + MaxPump) * (SqrtBps + MaxImpact)

LEMMA BuybackMoves ==
  ASSUME BuybackPremise, BuybackInv, NEW m \in Markets, NEW newPrice \in Buyback!UpToLimit(m),
         ~Buyback!Pumped(m)
  PROVE  newPrice \in Nat /\ NearOpening(m, newPrice)
<1> USE DEF BuybackPremise, PricesAssumption, Buyback!BuybackAssumption
<1>1. price[m] \in Nat /\ opening[m] \in Nat /\ Buyback!BlockStartPrice(m) = opening[m]
  BY BlockStartIsOpening DEF BuybackInv, Buyback!BlockStartPrice, BlockStartPrice
<1>2. SqrtBps \in Nat \ {0} /\ MaxPump \in 0 .. SqrtBps /\ MaxImpact \in 0 .. SqrtBps
  OBVIOUS
<1>3. CASE QuoteIsCurrency0[m]
  <2> DEFINE l == (price[m] * (SqrtBps - MaxImpact)) \div SqrtBps
  <2>1. price[m] * (SqrtBps - MaxImpact) \in Nat
    BY <1>1, <1>2
  <2>2. l \in Nat
    BY <1>2, <2>1, DivBounds
  <2>3. newPrice \in l .. price[m]
    BY <1>3 DEF Buyback!UpToLimit, Buyback!Limit
  <2>4. price[m] * SqrtBps >= opening[m] * (SqrtBps - MaxPump)
    <3>1. ~(price[m] * SqrtBps < opening[m] * (SqrtBps - MaxPump))
      BY <1>1, <1>3 DEF Buyback!Pumped
    <3>2. price[m] * SqrtBps \in Int /\ opening[m] * (SqrtBps - MaxPump) \in Int
      BY <1>1, <1>2
    <3> QED
      BY <3>1, <3>2
  <2>5. newPrice \in Nat /\ newPrice >= l
    BY <2>2, <2>3
  <2>6. (newPrice + 1) * SqrtBps * SqrtBps
          > opening[m] * (SqrtBps - MaxPump) * (SqrtBps - MaxImpact)
    BY <1>1, <1>2, <2>4, <2>5, LoweredWithin
  <2> QED
    BY <1>3, <2>5, <2>6 DEF NearOpening
<1>4. CASE ~QuoteIsCurrency0[m]
  <2> DEFINE l == (price[m] * (SqrtBps + MaxImpact)) \div SqrtBps
  <2>1. price[m] * (SqrtBps + MaxImpact) \in Nat
    BY <1>1, <1>2
  <2>2. l \in Nat
    BY <1>2, <2>1, DivBounds
  <2>3. newPrice \in price[m] .. l
    BY <1>4 DEF Buyback!UpToLimit, Buyback!Limit
  <2>4. price[m] * SqrtBps <= opening[m] * (SqrtBps + MaxPump)
    <3>1. ~(price[m] * SqrtBps > opening[m] * (SqrtBps + MaxPump))
      BY <1>1, <1>4 DEF Buyback!Pumped
    <3>2. price[m] * SqrtBps \in Int /\ opening[m] * (SqrtBps + MaxPump) \in Int
      BY <1>1, <1>2
    <3> QED
      BY <3>1, <3>2
  <2>5. newPrice \in Nat /\ newPrice <= l
    BY <1>1, <2>2, <2>3
  <2>6. newPrice * SqrtBps * SqrtBps
          <= opening[m] * (SqrtBps + MaxPump) * (SqrtBps + MaxImpact)
    BY <1>1, <1>2, <2>4, <2>5, RaisedWithin
  <2> QED
    BY <1>4, <2>5, <2>6 DEF NearOpening
<1> QED
  BY <1>3, <1>4

\* One step of the whole: the invariant is kept, and a buyback ends near the
\* opening price.
BuybackSound ==
    /\ BuybackInv'
    /\ \A m \in Markets : lastBuyback'[m] # lastBuyback[m] => NearOpening(m, price'[m])

LEMMA BuybackExecuted ==
  ASSUME BuybackPremise, BuybackInv, NEW m \in Markets, NEW cost \in Nat,
         NEW newPrice \in Buyback!UpToLimit(m), Buyback!ExecuteBuyback(m, cost, newPrice)
  PROVE  BuybackSound
<1>0. PricesAssumption /\ IsFiniteSet(Coins) /\ Buyback!Self \in Modules
  BY DEF BuybackPremise, Buyback!BuybackAssumption, Buyback!IsFiniteSet, IsFiniteSet
<1>1. /\ moduleOf[m] = Buyback!Self /\ ~Buyback!Pumped(m) /\ cost <= balance[m] + pending[m]
      /\ held' = [held EXCEPT ![Buyback!Self][m[2]] = @ + pending[m] - cost]
      /\ pending' = [pending EXCEPT ![m] = 0] /\ RecordBlockStart(m)
      /\ price' = [price EXCEPT ![m] = newPrice]
      /\ lastBuyback' = [lastBuyback EXCEPT ![m] = block]
      /\ balance' = [balance EXCEPT ![m] = balance[m] + pending[m] - cost]
      /\ spent' = [spent EXCEPT ![m] = @ + cost]
      /\ UNCHANGED <<moduleOf, block, opening, earned>>
  <2>1. RecordBlockStart(m)
    BY DEF Buyback!ExecuteBuyback, Buyback!RecordBlockStart, RecordBlockStart
  <2>2. balance' = [balance EXCEPT ![m] = balance[m] + pending[m] - cost]
    <3>1. balance[m] \in Nat /\ pending[m] \in Nat
      BY DEF BuybackInv, Books, MarketTypeOK
    <3>2. Buyback!LeftOver(m, cost) = balance[m] + pending[m] - cost
      BY <3>1 DEF Buyback!Pot, Buyback!LeftOver
    <3> QED
      BY <3>2 DEF Buyback!ExecuteBuyback
  <2>3. cost <= balance[m] + pending[m]
    BY DEF Buyback!ExecuteBuyback, Buyback!Pot
  <2>4. held' = [held EXCEPT ![Buyback!Self][m[2]] = @ + pending[m] - cost]
    BY DEF Buyback!ExecuteBuyback
  <2>5. /\ moduleOf[m] = Buyback!Self /\ ~Buyback!Pumped(m)
        /\ pending' = [pending EXCEPT ![m] = 0]
        /\ price' = [price EXCEPT ![m] = newPrice]
        /\ lastBuyback' = [lastBuyback EXCEPT ![m] = block]
    BY DEF Buyback!ExecuteBuyback
  <2>6. spent' = [spent EXCEPT ![m] = @ + cost] /\ UNCHANGED <<moduleOf, block, opening, earned>>
    BY DEF Buyback!ExecuteBuyback
  <2> QED
    BY <2>1, <2>2, <2>3, <2>4, <2>5, <2>6
<1>2. newPrice \in Nat /\ NearOpening(m, newPrice)
  BY <1>1, BuybackMoves
<1>3. Uses(Buyback!Self, spent, spent', m, cost)
  BY <1>1 DEF Uses
<1>4. BooksNext(Buyback!Self, spent') /\ EscrowTyped'
  <2> DEFINE used == spent
             used2 == spent'
  <2>1. Books(Buyback!Self, used) /\ Uses(Buyback!Self, used, used2, m, cost) /\ MarketTypeOK
    BY <1>3 DEF BuybackInv
  <2> HIDE DEF used, used2
  <2>2. BooksNext(Buyback!Self, used2) /\ EscrowTyped'
    BY <1>0, <2>1, UseBooks
  <2> QED
    BY <2>2 DEF used2
<1>5. /\ HookRemembers'
      /\ price' \in [Markets -> Int] /\ opening' \in [Markets -> Int] /\ block' \in Nat
      /\ blockStart' \in [Markets -> [block : Nat, price : Int]]
  <2>1. MarketTypeOK /\ HookRemembers /\ newPrice \in Int
    BY <1>2 DEF BuybackInv
  <2> QED
    BY <1>1, <2>1, SwapRemembered
<1>6. MarketTypeOK' /\ Books(Buyback!Self, spent)'
  BY <1>4, <1>5 DEF MarketTypeOK, EscrowTyped, Books, BooksNext
<1>7. /\ price' \in [Markets -> Nat] /\ opening' \in [Markets -> Nat]
      /\ lastBuyback' \in [Markets -> Nat] /\ price'[m] = newPrice
      /\ \A x \in Markets : x # m => lastBuyback'[x] = lastBuyback[x]
  BY <1>1, <1>2 DEF BuybackInv, MarketTypeOK
<1> QED
  BY <1>2, <1>5, <1>6, <1>7 DEF BuybackSound, BuybackInv

\* Prices in the invariant, and their types.
PricesNatural ==
    /\ HookRemembers
    /\ price \in [Markets -> Int] /\ opening \in [Markets -> Int] /\ block \in Nat
    /\ blockStart \in [Markets -> [block : Nat, price : Int]]
    /\ price \in [Markets -> Nat] /\ opening \in [Markets -> Nat]

LEMMA OutsideBuyback ==
  ASSUME BuybackPremise, BuybackInv, Buyback!OutsideStep
  PROVE  BuybackSound
<1> USE DEF BuybackPremise, PricesAssumption, Buyback!BuybackAssumption
<1>1. /\ MarketStep /\ balance' = balance /\ lastBuyback' = lastBuyback /\ spent' = spent
      /\ earned' = [m \in Markets |-> earned[m] + pending'[m] - pending[m]]
  BY DEF Buyback!OutsideStep, Buyback!MarketStep, MarketStep, Buyback!OpenMarket, OpenMarket,
     Buyback!TradeMarket, TradeMarket, Buyback!NextBlock, NextBlock, Buyback!Accrue, Accrue,
     Buyback!Markets, Markets, Buyback!Opened, Opened, Buyback!priceVars, priceVars,
     Buyback!escrowVars, escrowVars, Buyback!RecordBlockStart, RecordBlockStart
<1>2. BooksNext(Buyback!Self, spent) /\ EscrowTyped'
  <2> DEFINE used == spent
  <2>1. Books(Buyback!Self, used) /\ MarketTypeOK
    BY DEF BuybackInv
  <2> HIDE DEF used
  <2>2. BooksNext(Buyback!Self, used) /\ EscrowTyped'
    BY <1>1, <2>1, OutsideBooks
  <2> QED
    BY <2>2 DEF used
<1>3. Books(Buyback!Self, spent)'
  BY <1>1, <1>2 DEF Books, BooksNext
<1>4. PricesNatural'
  <2>1. CASE NextBlock
    <3>1. price' = price /\ opening' = price
      BY <2>1 DEF NextBlock
    <3> QED
      BY <2>1, <3>1, BlockRemembered DEF BuybackInv, PricesNatural
  <2>2. ASSUME NEW m \in Markets, NEW h \in Modules, OpenMarket(m, h)
        PROVE  PricesNatural'
    <3>1. UNCHANGED priceVars
      BY <2>2 DEF OpenMarket
    <3> QED
      BY <3>1 DEF priceVars, BuybackInv, MarketTypeOK, HookRemembers, PricesNatural
  <2>3. ASSUME NEW m \in Markets, NEW p \in Prices, NEW fee \in Fees, TradeMarket(m, p, fee)
        PROVE  PricesNatural'
    <3>1. /\ price' = [price EXCEPT ![m] = p] /\ p \in Nat /\ p \in Int
          /\ RecordBlockStart(m) /\ UNCHANGED <<block, opening>>
      BY <2>3 DEF TradeMarket
    <3>2. /\ HookRemembers'
          /\ price' \in [Markets -> Int] /\ opening' \in [Markets -> Int] /\ block' \in Nat
          /\ blockStart' \in [Markets -> [block : Nat, price : Int]]
      BY <3>1, SwapRemembered DEF BuybackInv
    <3> QED
      BY <3>1, <3>2 DEF BuybackInv, PricesNatural
  <2> QED
    BY <1>1, <2>1, <2>2, <2>3 DEF MarketStep
<1>5. MarketTypeOK'
  BY <1>2, <1>4 DEF MarketTypeOK, EscrowTyped, PricesNatural
<1> QED
  BY <1>1, <1>3, <1>4, <1>5 DEF BuybackInv, BuybackSound, PricesNatural

LEMMA BuybackSteps ==
  ASSUME BuybackPremise, BuybackInv, [Buyback!BuybackNext]_(Buyback!allBuybackVars)
  PROVE  BuybackInv' /\ (UNCHANGED Buyback!allBuybackVars \/ BuybackSound)
<1>1. CASE UNCHANGED Buyback!allBuybackVars
  <2>1. UNCHANGED <<moduleOf, pending, held, price, blockStart, block, opening, balance,
                    lastBuyback, spent, earned>>
    BY <1>1 DEF Buyback!allBuybackVars, Buyback!marketVars, Buyback!escrowVars,
       Buyback!priceVars, Buyback!buybackVars
  <2>2. MarketTypeOK' /\ HookRemembers'
    BY <2>1 DEF BuybackInv, MarketTypeOK, HookRemembers
  <2>3. Books(Buyback!Self, spent)'
    BY <2>1 DEF BuybackInv, Books, Opened, PotsIn, MarketsIn, Markets
  <2> QED
    BY <1>1, <2>1, <2>2, <2>3 DEF BuybackInv
<1>2. CASE Buyback!BuybackStep
  <2>1. PICK m \in Markets :
            \E cost \in 0 .. held[Buyback!Self][m[2]] + pending[m],
               newPrice \in Buyback!UpToLimit(m) : Buyback!ExecuteBuyback(m, cost, newPrice)
    BY <1>2 DEF Buyback!BuybackStep, Buyback!Markets, Markets
  <2>2. PICK cost \in 0 .. held[Buyback!Self][m[2]] + pending[m],
             newPrice \in Buyback!UpToLimit(m) : Buyback!ExecuteBuyback(m, cost, newPrice)
    BY <2>1
  <2>3. cost \in Nat
    OBVIOUS
  <2> QED
    BY <2>2, <2>3, BuybackExecuted DEF BuybackSound
<1>3. CASE Buyback!OutsideStep
  BY <1>3, OutsideBuyback DEF BuybackSound
<1> QED
  BY <1>1, <1>2, <1>3 DEF Buyback!BuybackNext

LEMMA BuybackInvariant ==
  ASSUME BuybackPremise
  PROVE  Buyback!BuybackSpec => []BuybackInv
<1>1. BuybackInv /\ [Buyback!BuybackNext]_(Buyback!allBuybackVars) => BuybackInv'
  BY BuybackSteps
<1>2. Buyback!BuybackInit => BuybackInv
  BY BuybackStarts
<1> QED
  BY <1>1, <1>2, PTL DEF Buyback!BuybackSpec

\* Note 4 of BuybackBurnVault.sol: a burn market spends its own fees and loses
\* none, however many markets share the currency.
THEOREM BuybackOwnFees ==
  ASSUME BuybackPremise
  PROVE  Buyback!BuybackSpec => []Buyback!OwnFeesOnly
<1>1. BuybackInv => Buyback!OwnFeesOnly
  BY DEF BuybackInv, Books, Buyback!OwnFeesOnly, Buyback!Markets, Markets
<1> QED
  BY <1>1, BuybackInvariant, PTL

\* Note 2: a buyback leaves the coin at most one allowed pump and one impact
\* pricier than the price its block began with, at every price, limit and scale.
THEOREM BuybacksEndNearOpening ==
  ASSUME BuybackPremise
  PROVE  Buyback!BuybackSpec => Buyback!BuybackNearOpening
<1> DEFINE Near == \A m \in Markets :
                       lastBuyback'[m] # lastBuyback[m] => NearOpening(m, price'[m])
<1>1. BuybackInv /\ [Buyback!BuybackNext]_(Buyback!allBuybackVars)
          => [Near]_(Buyback!allBuybackVars)
  BY BuybackSteps DEF BuybackSound
<1>2. Near => \A m \in Buyback!Markets : lastBuyback'[m] # lastBuyback[m] =>
          IF QuoteIsCurrency0[m]
          THEN (price'[m] + 1) * SqrtBps * SqrtBps
                 > opening[m] * (SqrtBps - MaxPump) * (SqrtBps - MaxImpact)
          ELSE price'[m] * SqrtBps * SqrtBps
                 <= opening[m] * (SqrtBps + MaxPump) * (SqrtBps + MaxImpact)
  BY DEF NearOpening, Buyback!Markets, Markets
<1> QED
  BY <1>1, <1>2, BuybackInvariant, PTL DEF Buyback!BuybackSpec, Buyback!BuybackNearOpening

-----------------------------------------------------------------------------
\* FloorVault: ticks

LEMMA UniqueQuotient ==
  ASSUME NEW s \in Nat \ {0}, NEW k \in Int, NEW d \in Int, NEW r \in Int,
         k * s = d * s + r, 0 <= r, r < s
  PROVE  d = k /\ r = 0
<1>1. k * s - d * s = (k - d) * s
  OBVIOUS
<1>2. (k - d) * s = r /\ k - d \in Int
  BY <1>1
<1>3. CASE k - d >= 1
  <2>1. 1 * s <= (k - d) * s
    BY <1>3, TimesKeepsOrder
  <2> QED
    BY <1>2, <2>1
<1>4. CASE k - d <= -1
  <2>1. (k - d) * s <= (-1) * s
    BY <1>4, TimesKeepsOrder
  <2> QED
    BY <1>2, <2>1
<1> QED
  BY <1>2, <1>3, <1>4

LEMMA MultipleOnGrid ==
  ASSUME NEW s \in Nat \ {0}, NEW k \in Int
  PROVE  (k * s) % s = 0 /\ (k * s) \div s = k
<1> DEFINE d == (k * s) \div s
           r == (k * s) % s
<1>1. k * s \in Int /\ d \in Int /\ r \in Int /\ k * s = d * s + r /\ 0 <= r /\ r < s
  OBVIOUS
<1> HIDE DEF d, r
<1>2. d = k /\ r = 0
  BY <1>1, UniqueQuotient
<1> QED
  BY <1>2 DEF d, r

\* Whole steps of the spacing towards zero.
LEMMA TruncatedBounds ==
  ASSUME NEW t \in Int, NEW s \in Nat \ {0}
  PROVE  /\ Floor!Truncated(t, s) \in Int
         /\ t >= 0 => Floor!Truncated(t, s) * s <= t /\ t < Floor!Truncated(t, s) * s + s
         /\ t < 0 => t <= Floor!Truncated(t, s) * s /\ Floor!Truncated(t, s) * s < t + s
         /\ t % s = 0 => Floor!Truncated(t, s) * s = t
<1> DEFINE q == Floor!Truncated(t, s)
<1>1. CASE t >= 0
  <2>1. q = t \div s
    BY <1>1 DEF Floor!Truncated
  <2>2. q \in Int /\ s * q <= t /\ t < s * q + s
    BY <1>1, <2>1, DivBounds
  <2>3. t % s = 0 => s * q = t
    BY <1>1, <2>1
  <2> HIDE DEF q
  <2>4. s * q = q * s
    BY <2>2
  <2> QED
    BY <1>1, <2>2, <2>3, <2>4 DEF q
<1>2. CASE t < 0
  <2> DEFINE n == -t
             d == n \div s
  <2>1. q = -d /\ n \in Nat
    BY <1>2 DEF Floor!Truncated
  <2>2. d \in Nat /\ s * d <= n /\ n < s * d + s
    BY <2>1, DivBounds
  <2>3. t % s = 0 => s * d = n
    <3> SUFFICES ASSUME t % s = 0 PROVE s * d = n
      OBVIOUS
    <3> DEFINE k == t \div s
    <3>1. k \in Int /\ t = s * k
      OBVIOUS
    <3> HIDE DEF k
    <3>2. n = (-k) * s
      BY <3>1
    <3>3. n \div s = -k
      BY <3>1, <3>2, MultipleOnGrid
    <3> QED
      BY <3>1, <3>2, <3>3
  <2>4. q * s = -(s * d) /\ q \in Int
    BY <2>1, <2>2
  <2> HIDE DEF q, d
  <2> QED
    BY <1>2, <2>2, <2>3, <2>4 DEF q
<1> QED
  BY <1>1, <1>2

LEMMA FloorOfTick ==
  ASSUME NEW t \in Int, NEW s \in Nat \ {0}
  PROVE  /\ Floor!TickFloor(t, s) \in Int /\ Floor!TickFloor(t, s) <= t
         /\ Floor!TickFloor(t, s) % s = 0
<1> DEFINE q == Floor!Truncated(t, s)
           k == q - (IF t < 0 /\ t % s # 0 THEN 1 ELSE 0)
<1>1. /\ q \in Int
      /\ t >= 0 => q * s <= t
      /\ t < 0 => q * s < t + s
      /\ t % s = 0 => q * s = t
  BY TruncatedBounds
<1> HIDE DEF q
<1>2. k \in Int
  BY <1>1
<1>3. k * s <= t
  <2>1. CASE t < 0 /\ t % s # 0
    <3>1. k = q - 1 /\ (q - 1) * s = q * s - s
      BY <1>1, <2>1
    <3> QED
      BY <1>1, <2>1, <3>1
  <2>2. CASE ~(t < 0 /\ t % s # 0)
    <3>1. k = q
      BY <1>1, <2>2
    <3>2. q * s <= t
      BY <1>1, <2>2
    <3> QED
      BY <3>1, <3>2
  <2> QED
    BY <2>1, <2>2
<1>4. Floor!TickFloor(t, s) = k * s
  BY DEF Floor!TickFloor, q
<1> HIDE DEF k
<1> QED
  BY <1>2, <1>3, <1>4, MultipleOnGrid

LEMMA CeilOfTick ==
  ASSUME NEW t \in Int, NEW s \in Nat \ {0}
  PROVE  /\ Floor!TickCeil(t, s) \in Int /\ t <= Floor!TickCeil(t, s)
         /\ Floor!TickCeil(t, s) % s = 0
<1> DEFINE q == Floor!Truncated(t, s)
           k == q + (IF t > 0 /\ t % s # 0 THEN 1 ELSE 0)
<1>1. /\ q \in Int
      /\ t >= 0 => q * s <= t /\ t < q * s + s
      /\ t < 0 => t <= q * s
      /\ t % s = 0 => q * s = t
  BY TruncatedBounds
<1> HIDE DEF q
<1>2. k \in Int
  BY <1>1
<1>3. t <= k * s
  <2>1. CASE t > 0 /\ t % s # 0
    <3>1. k = q + 1 /\ (q + 1) * s = q * s + s
      BY <1>1, <2>1
    <3> QED
      BY <1>1, <2>1, <3>1
  <2>2. CASE ~(t > 0 /\ t % s # 0)
    <3>1. k = q
      BY <1>1, <2>2
    <3>2. t = 0 => t % s = 0
      OBVIOUS
    <3>3. t <= q * s
      BY <1>1, <2>2, <3>2
    <3> QED
      BY <3>1, <3>3
  <2> QED
    BY <2>1, <2>2
<1>4. Floor!TickCeil(t, s) = k * s
  BY DEF Floor!TickCeil, q
<1> HIDE DEF k
<1> QED
  BY <1>2, <1>3, <1>4, MultipleOnGrid

-----------------------------------------------------------------------------
\* FloorVault: bands

FloorPremise == PricesAssumption /\ Floor!FloorAssumption

\* A band on the side of the reference where the coin is cheaper.
LEMMA BandPlaced ==
  ASSUME FloorPremise, MarketTypeOK, HookRemembers, NEW m \in Markets
  PROVE  /\ Floor!Band(m) \in [lower : Int, upper : Int]
         /\ Floor!Band(m).lower % Spacing = 0 /\ Floor!Band(m).upper % Spacing = 0
         /\ IF QuoteIsCurrency0[m]
            THEN /\ Floor!Band(m).lower >= price[m] + NearOffset
                 /\ Floor!Band(m).lower >= opening[m] + NearOffset
                 /\ Floor!Band(m).upper <= MaxUsableTick
            ELSE /\ Floor!Band(m).upper <= price[m] - NearOffset
                 /\ Floor!Band(m).upper <= opening[m] - NearOffset
                 /\ Floor!Band(m).lower >= MinUsableTick
<1> DEFINE ref == Floor!Reference(m)
<1>1. /\ Spacing \in Nat \ {0} /\ NearOffset \in Nat /\ FarOffset \in Nat
      /\ MinUsableTick \in Int /\ MaxUsableTick \in Int
  BY DEF FloorPremise, Floor!FloorAssumption
<1>2. price[m] \in Int /\ opening[m] \in Int
  BY DEF MarketTypeOK
<1>3. Floor!BlockStartPrice(m) = opening[m]
  BY BlockStartIsOpening DEF Floor!BlockStartPrice, BlockStartPrice
<1>4. /\ ref \in Int
      /\ QuoteIsCurrency0[m] => ref >= price[m] /\ ref >= opening[m]
      /\ ~QuoteIsCurrency0[m] => ref <= price[m] /\ ref <= opening[m]
  BY <1>2, <1>3 DEF Floor!Reference, Floor!Larger, Floor!Smaller
<1> HIDE DEF ref
<1>5. CASE QuoteIsCurrency0[m]
  <2> DEFINE low == Floor!TickCeil(ref + NearOffset, Spacing)
             top == Floor!Smaller(ref + FarOffset, MaxUsableTick)
             high == Floor!TickFloor(top, Spacing)
  <2>1. low \in Int /\ ref + NearOffset <= low /\ low % Spacing = 0
    BY <1>1, <1>4, CeilOfTick
  <2>2. top \in Int /\ top <= MaxUsableTick
    BY <1>1, <1>4 DEF Floor!Smaller
  <2> HIDE DEF top
  <2>3. high \in Int /\ high <= top /\ high % Spacing = 0
    BY <1>1, <2>2, FloorOfTick
  <2>4. Floor!Band(m) = [lower |-> low, upper |-> high]
    BY <1>5 DEF Floor!Band, ref, top
  <2> HIDE DEF low, high
  <2> QED
    BY <1>1, <1>2, <1>4, <1>5, <2>1, <2>2, <2>3, <2>4
<1>6. CASE ~QuoteIsCurrency0[m]
  <2> DEFINE bottom == Floor!Larger(ref - FarOffset, MinUsableTick)
             low == Floor!TickCeil(bottom, Spacing)
             high == Floor!TickFloor(ref - NearOffset, Spacing)
  <2>1. bottom \in Int /\ bottom >= MinUsableTick
    BY <1>1, <1>4 DEF Floor!Larger
  <2> HIDE DEF bottom
  <2>2. low \in Int /\ bottom <= low /\ low % Spacing = 0
    BY <1>1, <2>1, CeilOfTick
  <2>3. high \in Int /\ high <= ref - NearOffset /\ high % Spacing = 0
    BY <1>1, <1>4, FloorOfTick
  <2>4. Floor!Band(m) = [lower |-> low, upper |-> high]
    BY <1>6 DEF Floor!Band, ref, bottom
  <2> HIDE DEF low, high
  <2> QED
    BY <1>1, <1>2, <1>4, <1>6, <2>1, <2>2, <2>3, <2>4
<1> QED
  BY <1>5, <1>6

\* Prices of a pool lie within the range of its ticks, whose ends are less than
\* the near offset away from the last usable ticks.
TicksInRange ==
    \A p \in Prices \cup {OpeningPrice} :
        MinUsableTick <= p + NearOffset /\ p - NearOffset <= MaxUsableTick

PricesSeen ==
    \A m \in Markets : /\ price[m] \in Prices \cup {OpeningPrice}
                       /\ opening[m] \in Prices \cup {OpeningPrice}

FloorsTyped ==
    /\ lastAdd \in [Markets -> Nat]
    /\ nearTick \in [Markets -> Int] /\ hasFloor \in [Markets -> BOOLEAN]
    /\ bands \in [Markets -> SUBSET [lower : Int, upper : Int]]

FloorInv ==
    /\ MarketTypeOK /\ FloorsTyped
    /\ HookRemembers /\ PricesSeen
    /\ Books(Floor!Self, floored)
    /\ Floor!EdgeIsHighest

\* A band that no pump of the block has lifted.
Unlifted(m, b) ==
    /\ IF QuoteIsCurrency0[m] THEN b.lower >= opening[m] + NearOffset
                              ELSE b.upper <= opening[m] - NearOffset
    /\ b.lower % Spacing = 0 /\ b.upper % Spacing = 0
    /\ TicksInRange => MinUsableTick <= b.lower /\ b.upper <= MaxUsableTick

FloorSound ==
    /\ FloorInv'
    /\ \A m \in Markets : \A b \in bands'[m] \ bands[m] : Unlifted(m, b)

LEMMA FloorStarts ==
  ASSUME FloorPremise, Floor!FloorInit
  PROVE  FloorInv
<1> USE DEF FloorPremise, PricesAssumption, Floor!FloorAssumption, Floor!Self
<1>1. /\ MarketInit /\ floored = [m \in Markets |-> 0] /\ balance = [m \in Markets |-> 0]
      /\ lastAdd = [m \in Markets |-> 0] /\ earned = [m \in Markets |-> 0]
      /\ nearTick = [m \in Markets |-> 0] /\ hasFloor = [m \in Markets |-> FALSE]
      /\ bands = [m \in Markets |-> {}]
  BY DEF Floor!FloorInit, Floor!MarketInit, MarketInit, Floor!EscrowInit, EscrowInit,
     Floor!Markets, Markets
<1>2. /\ moduleOf = [m \in Markets |-> NoModule] /\ pending = [m \in Markets |-> 0]
      /\ held = [h \in Modules |-> [q \in Quotes |-> 0]]
      /\ price = [m \in Markets |-> OpeningPrice] /\ opening = price /\ block = 1
      /\ blockStart = [m \in Markets |-> [block |-> 0, price |-> 0]]
  BY <1>1 DEF MarketInit, EscrowInit
<1>3. MarketTypeOK /\ FloorsTyped /\ PricesSeen
  BY <1>1, <1>2 DEF MarketTypeOK, FloorsTyped, PricesSeen
<1>4. HookRemembers
  BY <1>2 DEF HookRemembers
<1>5. \A q \in Quotes : held[Floor!Self][q] = Total(PotsIn(q))
  <2> SUFFICES ASSUME NEW q \in Quotes PROVE held[Floor!Self][q] = Total(PotsIn(q))
    OBVIOUS
  <2>1. PotsIn(q) \in [MarketsIn(q) -> Nat] /\ \A m \in MarketsIn(q) : PotsIn(q)[m] = 0
    BY <1>1 DEF PotsIn, MarketsIn
  <2>2. Total(PotsIn(q)) = 0
    BY <2>1, TotalZero
  <2> QED
    BY <1>2, <2>2
<1>6. Books(Floor!Self, floored)
  BY <1>1, <1>2, <1>5 DEF Books, Opened
<1>7. Floor!EdgeIsHighest
  BY <1>1 DEF Floor!EdgeIsHighest, Floor!Markets, Markets
<1> QED
  BY <1>3, <1>4, <1>6, <1>7 DEF FloorInv

\* The new edge is recorded unless an older one is at least as pricey.
LEMMA EdgeFollows ==
  ASSUME FloorInv, NEW m \in Markets, NEW band \in [lower : Int, upper : Int],
         Floor!Band(m) = band, Floor!Ratchet(m),
         hasFloor' = [hasFloor EXCEPT ![m] = TRUE],
         bands' = [bands EXCEPT ![m] = @ \cup {band}]
  PROVE  /\ Floor!EdgeIsHighest'
         /\ nearTick' \in [Markets -> Int] /\ hasFloor' \in [Markets -> BOOLEAN]
         /\ bands' \in [Markets -> SUBSET [lower : Int, upper : Int]]
         /\ bands'[m] = bands[m] \cup {band}
         /\ \A x \in Markets : x # m => bands'[x] = bands[x]
<1> USE DEF FloorInv, FloorsTyped
<1> DEFINE near == Floor!Near(m, band)
<1>1. near \in Int /\ \A b \in [lower : Int, upper : Int] : Floor!Near(m, b) \in Int
  BY DEF Floor!Near
<1>2. /\ hasFloor' \in [Markets -> BOOLEAN] /\ hasFloor'[m]
      /\ bands' \in [Markets -> SUBSET [lower : Int, upper : Int]]
      /\ bands'[m] = bands[m] \cup {band}
      /\ \A x \in Markets : x # m => bands'[x] = bands[x] /\ hasFloor'[x] = hasFloor[x]
  OBVIOUS
<1>3. \/ /\ nearTick' = nearTick /\ hasFloor[m] /\ ~Floor!Pricier(m, near, nearTick[m])
      \/ /\ nearTick' = [nearTick EXCEPT ![m] = near]
         /\ ~hasFloor[m] \/ Floor!Pricier(m, near, nearTick[m])
  BY DEF Floor!Ratchet
<1> HIDE DEF near
<1>4. /\ nearTick' \in [Markets -> Int]
      /\ \A x \in Markets : x # m => nearTick'[x] = nearTick[x]
  BY <1>1, <1>3
<1>5. ASSUME NEW x \in Markets
      PROVE  /\ hasFloor'[x] <=> bands'[x] # {}
             /\ hasFloor'[x] => \E b \in bands'[x] : Floor!Near(x, b) = nearTick'[x]
             /\ \A b \in bands'[x] : ~Floor!Pricier(x, Floor!Near(x, b), nearTick'[x])
  <2>1. /\ hasFloor[x] <=> bands[x] # {}
        /\ hasFloor[x] => \E b \in bands[x] : Floor!Near(x, b) = nearTick[x]
        /\ \A b \in bands[x] : ~Floor!Pricier(x, Floor!Near(x, b), nearTick[x])
    BY DEF Floor!EdgeIsHighest, Floor!Markets, Markets
  <2>2. CASE x # m
    BY <1>2, <1>4, <2>1, <2>2
  <2>3. CASE x = m
    <3>1. CASE nearTick' = nearTick /\ hasFloor[m] /\ ~Floor!Pricier(m, near, nearTick[m])
      BY <1>2, <2>1, <2>3, <3>1 DEF near
    <3>2. CASE /\ nearTick' = [nearTick EXCEPT ![m] = near]
               /\ ~hasFloor[m] \/ Floor!Pricier(m, near, nearTick[m])
      <4>1. nearTick'[m] = near /\ nearTick[m] \in Int
        BY <3>2
      <4>2. \A b \in bands[m] : ~Floor!Pricier(m, Floor!Near(m, b), near)
        BY <1>1, <2>1, <2>3, <3>2, <4>1 DEF Floor!Pricier
      <4>3. ~Floor!Pricier(m, near, near)
        BY <1>1 DEF Floor!Pricier
      <4>4. \A b \in bands'[m] : ~Floor!Pricier(m, Floor!Near(m, b), near)
        BY <1>2, <4>2, <4>3 DEF near
      <4>5. band \in bands'[m] /\ Floor!Near(m, band) = near
        BY <1>2 DEF near
      <4> QED
        BY <1>2, <2>3, <4>1, <4>4, <4>5
    <3> QED
      BY <1>3, <3>1, <3>2
  <2> QED
    BY <2>2, <2>3
<1>6. Floor!EdgeIsHighest'
  <2>1. Floor!Markets = Markets
    BY DEF Floor!Markets, Markets
  <2> QED
    BY <1>5, <2>1 DEF Floor!EdgeIsHighest, Floor!Near, Floor!Pricier
<1> QED
  BY <1>2, <1>4, <1>6

LEMMA FloorAdded ==
  ASSUME FloorPremise, FloorInv, NEW m \in Markets, NEW used \in Nat, Floor!AddFloor(m, used)
  PROVE  FloorSound
<1> DEFINE band == Floor!Band(m)
<1>0. PricesAssumption /\ IsFiniteSet(Coins) /\ Floor!Self \in Modules
  BY DEF FloorPremise, Floor!FloorAssumption, Floor!IsFiniteSet, IsFiniteSet
<1>1. /\ moduleOf[m] = Floor!Self /\ used <= balance[m] + pending[m]
      /\ pending' = [pending EXCEPT ![m] = 0] /\ lastAdd' = [lastAdd EXCEPT ![m] = block]
      /\ floored' = [floored EXCEPT ![m] = @ + used]
      /\ Floor!BandInRange(m) /\ Floor!Ratchet(m)
      /\ hasFloor' = [hasFloor EXCEPT ![m] = TRUE]
      /\ bands' = [bands EXCEPT ![m] = @ \cup {band}]
  BY DEF Floor!AddFloor, Floor!Pot
<1>2. /\ held' = [held EXCEPT ![Floor!Self][m[2]] = @ + pending[m] - used]
      /\ UNCHANGED <<moduleOf, price, blockStart, block, opening, earned>>
  BY DEF Floor!AddFloor, Floor!priceVars
<1>3. balance' = [balance EXCEPT ![m] = balance[m] + pending[m] - used]
  <2>1. balance[m] \in Nat /\ pending[m] \in Nat
    BY DEF FloorInv, Books, MarketTypeOK
  <2>2. Floor!LeftOver(m, used) = balance[m] + pending[m] - used
    BY <2>1 DEF Floor!Pot, Floor!LeftOver
  <2> QED
    BY <2>2 DEF Floor!AddFloor
<1>4. Uses(Floor!Self, floored, floored', m, used)
  BY <1>1, <1>2, <1>3 DEF Uses
<1>5. BooksNext(Floor!Self, floored') /\ EscrowTyped'
  <2> DEFINE u == floored
             u2 == floored'
  <2>1. Books(Floor!Self, u) /\ Uses(Floor!Self, u, u2, m, used) /\ MarketTypeOK
    BY <1>4 DEF FloorInv
  <2> HIDE DEF u, u2
  <2>2. BooksNext(Floor!Self, u2) /\ EscrowTyped'
    BY <1>0, <2>1, UseBooks
  <2> QED
    BY <2>2 DEF u2
<1>6. Books(Floor!Self, floored)' /\ MarketTypeOK' /\ HookRemembers' /\ PricesSeen'
  <2>1. Books(Floor!Self, floored)'
    BY <1>5 DEF Books, BooksNext
  <2>2. MarketTypeOK'
    BY <1>2, <1>5 DEF FloorInv, MarketTypeOK, EscrowTyped
  <2>3. HookRemembers' /\ PricesSeen'
    BY <1>2 DEF FloorInv, HookRemembers, PricesSeen
  <2> QED
    BY <2>1, <2>2, <2>3
<1>7. /\ band \in [lower : Int, upper : Int] /\ band.lower < band.upper
      /\ band.lower % Spacing = 0 /\ band.upper % Spacing = 0
      /\ IF QuoteIsCurrency0[m]
         THEN band.lower >= opening[m] + NearOffset /\ band.upper <= MaxUsableTick
         ELSE band.upper <= opening[m] - NearOffset /\ band.lower >= MinUsableTick
  BY <1>1, BandPlaced DEF FloorInv, Floor!BandInRange
<1> HIDE DEF band
<1>8. Unlifted(m, band)
  <2>1. /\ NearOffset \in Nat /\ MinUsableTick \in Int /\ MaxUsableTick \in Int
        /\ opening[m] \in Int /\ opening[m] \in Prices \cup {OpeningPrice}
    BY DEF FloorPremise, Floor!FloorAssumption, FloorInv, MarketTypeOK, PricesSeen
  <2>2. TicksInRange => MinUsableTick <= band.lower /\ band.upper <= MaxUsableTick
    BY <1>7, <2>1 DEF TicksInRange
  <2> QED
    BY <1>7, <2>2 DEF Unlifted
<1>9. /\ Floor!EdgeIsHighest'
      /\ nearTick' \in [Markets -> Int] /\ hasFloor' \in [Markets -> BOOLEAN]
      /\ bands' \in [Markets -> SUBSET [lower : Int, upper : Int]]
      /\ bands'[m] = bands[m] \cup {band}
      /\ \A x \in Markets : x # m => bands'[x] = bands[x]
  <2> DEFINE b == band
  <2>1. Floor!Band(m) = b /\ b \in [lower : Int, upper : Int]
        /\ bands' = [bands EXCEPT ![m] = @ \cup {b}]
    BY <1>1, <1>7 DEF band
  <2> HIDE DEF b
  <2>2. /\ Floor!EdgeIsHighest'
        /\ nearTick' \in [Markets -> Int] /\ hasFloor' \in [Markets -> BOOLEAN]
        /\ bands' \in [Markets -> SUBSET [lower : Int, upper : Int]]
        /\ bands'[m] = bands[m] \cup {b}
        /\ \A x \in Markets : x # m => bands'[x] = bands[x]
    BY <1>1, <2>1, EdgeFollows
  <2> QED
    BY <2>2 DEF b
<1>10. FloorsTyped'
  BY <1>1, <1>9 DEF FloorInv, FloorsTyped, MarketTypeOK
<1> QED
  BY <1>6, <1>8, <1>9, <1>10 DEF FloorInv, FloorSound

\* Prices in the invariant, and their types.
PricesKnown ==
    /\ HookRemembers /\ PricesSeen
    /\ price \in [Markets -> Int] /\ opening \in [Markets -> Int] /\ block \in Nat
    /\ blockStart \in [Markets -> [block : Nat, price : Int]]

LEMMA OutsideFloor ==
  ASSUME FloorPremise, FloorInv, Floor!OutsideStep
  PROVE  FloorSound
<1>0. PricesAssumption /\ Floor!Self \in Modules
  BY DEF FloorPremise, Floor!FloorAssumption
<1>1. /\ MarketStep /\ UNCHANGED <<balance, lastAdd, floored, nearTick, hasFloor, bands>>
      /\ earned' = [m \in Markets |-> earned[m] + pending'[m] - pending[m]]
  BY DEF Floor!OutsideStep, Floor!MarketStep, MarketStep, Floor!OpenMarket, OpenMarket,
     Floor!TradeMarket, TradeMarket, Floor!NextBlock, NextBlock, Floor!Accrue, Accrue,
     Floor!Markets, Markets, Floor!Opened, Opened, Floor!priceVars, priceVars,
     Floor!escrowVars, escrowVars, Floor!RecordBlockStart, RecordBlockStart
<1>2. BooksNext(Floor!Self, floored) /\ EscrowTyped'
  <2> DEFINE used == floored
  <2>1. Books(Floor!Self, used) /\ MarketTypeOK
    BY DEF FloorInv
  <2> HIDE DEF used
  <2>2. BooksNext(Floor!Self, used) /\ EscrowTyped'
    BY <1>0, <1>1, <2>1, OutsideBooks
  <2> QED
    BY <2>2 DEF used
<1>3. Books(Floor!Self, floored)'
  BY <1>1, <1>2 DEF Books, BooksNext
<1>4. PricesKnown'
  <2>1. CASE NextBlock
    <3>1. price' = price /\ opening' = price
      BY <2>1 DEF NextBlock
    <3> QED
      BY <2>1, <3>1, BlockRemembered DEF FloorInv, PricesKnown, PricesSeen
  <2>2. ASSUME NEW m \in Markets, NEW h \in Modules, OpenMarket(m, h)
        PROVE  PricesKnown'
    <3>1. UNCHANGED priceVars
      BY <2>2 DEF OpenMarket
    <3> QED
      BY <3>1 DEF priceVars, FloorInv, MarketTypeOK, HookRemembers, PricesKnown, PricesSeen
  <2>3. ASSUME NEW m \in Markets, NEW p \in Prices, NEW fee \in Fees, TradeMarket(m, p, fee)
        PROVE  PricesKnown'
    <3>1. /\ price' = [price EXCEPT ![m] = p] /\ p \in Int
          /\ RecordBlockStart(m) /\ UNCHANGED <<block, opening>>
      BY <1>0, <2>3 DEF TradeMarket, PricesAssumption
    <3>2. /\ HookRemembers'
          /\ price' \in [Markets -> Int] /\ opening' \in [Markets -> Int] /\ block' \in Nat
          /\ blockStart' \in [Markets -> [block : Nat, price : Int]]
      BY <3>1, SwapRemembered DEF FloorInv
    <3>3. PricesSeen'
      BY <3>1 DEF FloorInv, MarketTypeOK, PricesSeen
    <3> QED
      BY <3>2, <3>3 DEF PricesKnown
  <2> QED
    BY <1>1, <2>1, <2>2, <2>3 DEF MarketStep
<1>5. MarketTypeOK'
  BY <1>2, <1>4 DEF MarketTypeOK, EscrowTyped, PricesKnown
<1>6. FloorsTyped' /\ Floor!EdgeIsHighest'
  BY <1>1 DEF FloorInv, FloorsTyped, Floor!EdgeIsHighest, Floor!Near, Floor!Pricier
<1> QED
  BY <1>1, <1>3, <1>4, <1>5, <1>6 DEF FloorInv, FloorSound, PricesKnown

LEMMA FloorSteps ==
  ASSUME FloorPremise, FloorInv, [Floor!FloorNext]_(Floor!allFloorVars)
  PROVE  FloorInv' /\ (UNCHANGED Floor!allFloorVars \/ FloorSound)
<1>1. CASE UNCHANGED Floor!allFloorVars
  <2>1. UNCHANGED <<moduleOf, pending, held, price, blockStart, block, opening, balance,
                    lastAdd, floored, nearTick, hasFloor, bands, earned>>
    BY <1>1 DEF Floor!allFloorVars, Floor!marketVars, Floor!escrowVars, Floor!priceVars,
       Floor!floorVars
  <2>2. MarketTypeOK' /\ HookRemembers' /\ PricesSeen' /\ FloorsTyped'
    BY <2>1 DEF FloorInv, MarketTypeOK, HookRemembers, PricesSeen, FloorsTyped
  <2>3. Books(Floor!Self, floored)'
    BY <2>1 DEF FloorInv, Books, Opened, PotsIn, MarketsIn, Markets
  <2>4. Floor!EdgeIsHighest'
    BY <2>1 DEF FloorInv, Floor!EdgeIsHighest, Floor!Near, Floor!Pricier
  <2> QED
    BY <1>1, <2>2, <2>3, <2>4 DEF FloorInv
<1>2. CASE Floor!FloorStep
  <2>1. PICK m \in Markets : \E used \in 1 .. Floor!Pot(m) : Floor!AddFloor(m, used)
    BY <1>2 DEF Floor!FloorStep, Floor!Markets, Markets
  <2>2. PICK used \in 1 .. Floor!Pot(m) : Floor!AddFloor(m, used)
    BY <2>1
  <2>3. used \in Nat
    OBVIOUS
  <2> QED
    BY <2>2, <2>3, FloorAdded DEF FloorSound
<1>3. CASE Floor!OutsideStep
  BY <1>3, OutsideFloor DEF FloorSound
<1> QED
  BY <1>1, <1>2, <1>3 DEF Floor!FloorNext

LEMMA FloorInvariant ==
  ASSUME FloorPremise
  PROVE  Floor!FloorSpec => []FloorInv
<1>1. FloorInv /\ [Floor!FloorNext]_(Floor!allFloorVars) => FloorInv'
  BY FloorSteps
<1>2. Floor!FloorInit => FloorInv
  BY FloorStarts
<1> QED
  BY <1>1, <1>2, PTL DEF Floor!FloorSpec

LEMMA BooksGiveFees ==
  ASSUME FloorInv
  PROVE  Floor!FloorFeesKept
<1>1. \A q \in Quotes :
          held[Floor!Self][q] = Floor!Total([m \in {x \in Markets : x[2] = q} |-> balance[m]])
  <2> SUFFICES ASSUME NEW q \in Quotes
               PROVE  held[Floor!Self][q] =
                          Floor!Total([m \in {x \in Markets : x[2] = q} |-> balance[m]])
    OBVIOUS
  <2>1. held[Floor!Self][q] = Total(PotsIn(q))
    BY DEF FloorInv, Books
  <2>2. PotsIn(q) = [m \in {x \in Markets : x[2] = q} |-> balance[m]]
    BY DEF PotsIn, MarketsIn
  <2> QED
    BY <2>1, <2>2 DEF Total, Units, Floor!Total, Floor!Units, Floor!Cardinality, Cardinality
<1>2. \A m \in Markets : moduleOf[m] = Floor!Self =>
          earned[m] = floored[m] + balance[m] + pending[m]
  BY DEF FloorInv, Books
<1> QED
  BY <1>1, <1>2 DEF Floor!FloorFeesKept, Floor!Markets, Markets

\* The pots of a currency are what the contract holds of it, and what a floor
\* market earned is in its own floor, its pot or the fee vault (FloorVault.sol,
\* _addFloor).
THEOREM FloorKeepsFees ==
  ASSUME FloorPremise
  PROVE  Floor!FloorSpec => []Floor!FloorFeesKept
<1>1. FloorInv => Floor!FloorFeesKept
  BY BooksGiveFees
<1> QED
  BY <1>1, FloorInvariant, PTL

\* Note 4 of FloorVault.sol: the recorded edge is the priciest of all the bands
\* ever placed in the market.
THEOREM EdgeStaysHighest ==
  ASSUME FloorPremise
  PROVE  Floor!FloorSpec => []Floor!EdgeIsHighest
<1>1. FloorInv => Floor!EdgeIsHighest
  BY DEF FloorInv
<1> QED
  BY <1>1, FloorInvariant, PTL

LEMMA BandsFit ==
  ASSUME FloorPremise, FloorInv
  PROVE  Floor!HookAcceptsBands
<1> SUFFICES ASSUME NEW m \in Markets PROVE Floor!HookAccepts(m, Floor!Band(m))
  BY DEF Floor!HookAcceptsBands, Floor!Markets, Markets
<1>1. NearOffset \in Nat \ {0} /\ price[m] \in Int
  BY DEF FloorPremise, Floor!FloorAssumption, FloorInv, MarketTypeOK
<1> DEFINE band == Floor!Band(m)
<1>2. /\ band \in [lower : Int, upper : Int]
      /\ IF QuoteIsCurrency0[m] THEN band.lower >= price[m] + NearOffset
                                ELSE band.upper <= price[m] - NearOffset
  BY BandPlaced DEF FloorInv
<1> HIDE DEF band
<1>3. Floor!HookAccepts(m, band)
  BY <1>1, <1>2 DEF Floor!HookAccepts
<1> QED
  BY <1>3 DEF band

\* _band and MemeFunHook._beforeAddLiquidity agree: at every price, the hook
\* accepts the band the module computes.
THEOREM BandsAccepted ==
  ASSUME FloorPremise
  PROVE  Floor!FloorSpec => []Floor!HookAcceptsBands
<1>1. FloorInv => Floor!HookAcceptsBands
  BY BandsFit
<1> QED
  BY <1>1, FloorInvariant, PTL

\* Note 3: a new band is at least the near offset cheaper than the market was
\* when the block began, and its edges are usable ticks.
THEOREM PumpsLiftNoFloor ==
  ASSUME FloorPremise, TicksInRange
  PROVE  Floor!FloorSpec => Floor!PumpLiftsNoFloor
<1> DEFINE New == \A m \in Markets : \A b \in bands'[m] \ bands[m] : Unlifted(m, b)
<1>1. FloorInv /\ [Floor!FloorNext]_(Floor!allFloorVars) => [New]_(Floor!allFloorVars)
  BY FloorSteps DEF FloorSound
<1>2. New => \A m \in Floor!Markets : \A b \in bands'[m] \ bands[m] :
          /\ IF QuoteIsCurrency0[m] THEN b.lower >= opening[m] + NearOffset
                                    ELSE b.upper <= opening[m] - NearOffset
          /\ b.lower % Spacing = 0 /\ b.upper % Spacing = 0
          /\ MinUsableTick <= b.lower /\ b.upper <= MaxUsableTick
  BY DEF Unlifted, Floor!Markets, Markets
<1> QED
  BY <1>1, <1>2, FloorInvariant, PTL DEF Floor!FloorSpec, Floor!PumpLiftsNoFloor

=============================================================================
