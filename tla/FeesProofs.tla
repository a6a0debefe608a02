------------------------------ MODULE FeesProofs ------------------------------
(***************************************************************************)
(* FeeVault and HolderRewardDistributor for every set of coins, quotes,    *)
(* accounts, launch plans, trade sizes, roots and epochs.                  *)
(*                                                                         *)
(* The vault's PoolManager claims are, in every reachable state and so in  *)
(* the middle of every claim, exactly what it owes: VaultSolvent is        *)
(* inductive together with the types of the two modules.  Each ledger's    *)
(* column in one currency is a ledger in the sense of Amounts; a handler   *)
(* changes one account of some columns (TotalChange), or moves several     *)
(* accounts into the payouts due (TotalSplit).                             *)
(*                                                                         *)
(* The invariant of the distributor, DistInv, adds to its safety           *)
(* properties what they rest on: no epoch pays more of a market than its   *)
(* total, epochs are published in order and untouched before, and a leaf   *)
(* under way or paid is in the bitmap of an epoch whose claim window has   *)
(* opened.                                                                 *)
(***************************************************************************)
EXTENDS HolderRewardDistributor, MemeFunHookProofs, AmountsProofs

-----------------------------------------------------------------------------
\* The vault

VaultInv == HookInv /\ VaultTypeOK /\ VaultSolvent

\* The columns of a ledger in one currency.
Column(f, q) == [x \in DOMAIN f |-> f[x][q]]

LEMMA ColumnType ==
  ASSUME NEW S, NEW f \in [S -> Amount], NEW q \in Quotes
  PROVE  /\ Column(f, q) \in [S -> Nat]
         /\ \A x \in S : Column(f, q)[x] = f[x][q]
BY DEF Column, Amount

LEMMA FiniteIndexes ==
  IsFiniteSet(Coins) /\ IsFiniteSet(Accounts) /\ IsFiniteSet(Slots) /\ Coins \subseteq Slots
<1>1. IsFiniteSet(Coins) /\ IsFiniteSet(Accounts)
  BY HookAssumption
<1>2. IsFiniteSet(Slots)
  BY <1>1, FS_AddElement DEF Slots
<1>3. QED
  BY <1>1, <1>2 DEF Slots

\* What is owed, in terms of columns; every total is a natural number.
LEMMA OwedColumns ==
  ASSUME VaultTypeOK, NEW q \in Quotes
  PROVE  /\ Owed(q) = platformPending[q] + Total(Column(referralPending, q))
                        + Total(Column(creatorPending, q))
                        + Total(Column(destinationPending, q))
                        + Total(Column(authorPending, q))
         /\ InFlight(q) = Total(Column(due, q))
         /\ platformPending[q] \in Nat
         /\ Total(Column(referralPending, q)) \in Nat
         /\ Total(Column(creatorPending, q)) \in Nat
         /\ Total(Column(destinationPending, q)) \in Nat
         /\ Total(Column(authorPending, q)) \in Nat
         /\ Total(Column(due, q)) \in Nat
         /\ claims[Vault][q] \in Nat
<1>1. /\ referralPending \in [Accounts -> Amount] /\ creatorPending \in [Coins -> Amount]
      /\ destinationPending \in [Coins -> Amount] /\ authorPending \in [Coins -> Amount]
      /\ due \in [Slots -> Amount] /\ platformPending \in Amount
      /\ claims \in [Holders -> Amount]
  BY DEF VaultTypeOK
<1>2. /\ Column(referralPending, q) = [a \in Accounts |-> referralPending[a][q]]
      /\ Column(creatorPending, q) = [c \in Coins |-> creatorPending[c][q]]
      /\ Column(destinationPending, q) = [c \in Coins |-> destinationPending[c][q]]
      /\ Column(authorPending, q) = [c \in Coins |-> authorPending[c][q]]
      /\ Column(due, q) = [s \in Slots |-> due[s][q]]
  BY <1>1 DEF Column
<1>3. /\ Total(Column(referralPending, q)) \in Nat
      /\ Total(Column(creatorPending, q)) \in Nat
      /\ Total(Column(destinationPending, q)) \in Nat
      /\ Total(Column(authorPending, q)) \in Nat
      /\ Total(Column(due, q)) \in Nat
  BY <1>1, ColumnType, FiniteIndexes, TotalType
<1>4. platformPending[q] \in Nat /\ claims[Vault][q] \in Nat
  BY <1>1 DEF Amount, Vault, Holders
<1>5. QED
  BY <1>2, <1>3, <1>4 DEF Owed, InFlight

\* VaultSolvent in one currency, in terms of columns.
CoversColumns(q) ==
    claims[Vault][q] = platformPending[q] + Total(Column(referralPending, q))
                         + Total(Column(creatorPending, q))
                         + Total(Column(destinationPending, q))
                         + Total(Column(authorPending, q)) + Total(Column(due, q))

LEMMA SolventColumns ==
  ASSUME VaultTypeOK
  PROVE  VaultSolvent <=> \A q \in Quotes : CoversColumns(q)
<1>1. ASSUME NEW q \in Quotes
      PROVE  CoversColumns(q) <=> claims[Vault][q] = Owed(q) + InFlight(q)
  BY OwedColumns DEF CoversColumns
<1>2. QED
  BY <1>1 DEF VaultSolvent

LEMMA SolventByColumns ==
  ASSUME VaultTypeOK', \A q \in Quotes : CoversColumns(q)'
  PROVE  VaultSolvent'
<1>1. (VaultTypeOK => (VaultSolvent <=> \A q \in Quotes : CoversColumns(q)))'
  BY SolventColumns, PTL
<1>2. QED
  BY <1>1

\* A column changes at one account only.
LEMMA ColumnChange ==
  ASSUME NEW S, IsFiniteSet(S), NEW f \in [S -> Amount], NEW g \in [S -> Amount],
         NEW x \in S, NEW q \in Quotes, \A y \in S \ {x} : g[y][q] = f[y][q]
  PROVE  Total(Column(g, q)) = Total(Column(f, q)) - f[x][q] + g[x][q]
<1>1. /\ Column(f, q) \in [S -> Nat] /\ \A y \in S : Column(f, q)[y] = f[y][q]
      /\ Column(g, q) \in [S -> Nat] /\ \A y \in S : Column(g, q)[y] = g[y][q]
  BY ColumnType
<1>2. Total(Column(g, q)) = Total(Column(f, q)) - Column(f, q)[x] + Column(g, q)[x]
  BY <1>1, TotalChange
<1>3. QED
  BY <1>1, <1>2

\* One account of a ledger receives an amount.
LEMMA ColumnAdd ==
  ASSUME NEW S, IsFiniteSet(S), NEW f \in [S -> Amount], NEW g \in [S -> Amount],
         NEW x \in S, NEW q \in Quotes, NEW n \in Nat,
         \A y \in S \ {x} : g[y] = f[y], g[x][q] = f[x][q] + n
  PROVE  Total(Column(g, q)) = Total(Column(f, q)) + n
<1>1. Total(Column(g, q)) = Total(Column(f, q)) - f[x][q] + g[x][q]
  BY ColumnChange
<1>2. f[x][q] \in Nat
  BY DEF Amount
<1>3. Total(Column(f, q)) \in Nat
  BY ColumnType, TotalType
<1>4. QED
  BY <1>1, <1>2, <1>3

\* Equal columns have equal totals.
LEMMA ColumnSame ==
  ASSUME NEW S, NEW f \in [S -> Amount], NEW g \in [S -> Amount], NEW q \in Quotes,
         \A y \in S : g[y][q] = f[y][q]
  PROVE  Column(g, q) = Column(f, q)
BY DEF Column

\* Nothing is in flight unless a claim is paying out.
LEMMA UnlockedNothingDue ==
  ASSUME VaultTypeOK, ~Locked, NEW q \in Quotes
  PROVE  /\ \A s \in Slots : due[s][q] = 0
         /\ InFlight(q) = 0
<1>1. due \in [Slots -> Amount]
  BY DEF VaultTypeOK
<1>2. \A s \in Slots : due[s][q] \in Nat /\ ~(due[s][q] > 0)
  BY <1>1 DEF Amount, Locked
<1>3. \A s \in Slots : due[s][q] = 0
  BY <1>2
<1>4. /\ Column(due, q) \in [Slots -> Nat] /\ \A s \in Slots : Column(due, q)[s] = 0
  BY <1>1, <1>3, ColumnType
<1>5. Total(Column(due, q)) = 0
  BY <1>4, TotalZero
<1>6. QED
  BY <1>3, <1>5, OwedColumns

-----------------------------------------------------------------------------
\* Collecting a fee

\* Who a fee is split between, under the terms of a market.
Shares(fee, terms, referrer) ==
    Split(fee, terms.mode = "CREATOR", terms.platformShareBps, terms.referralShareBps,
          terms.creatorKeepBps, referrer # NoAccount)

LEMMA SharesExact ==
  ASSUME NEW fee \in Nat, NEW terms \in PoolConfig, NEW referrer
  PROVE  IsSplitOf(Shares(fee, terms, referrer), fee)
BY SplitExact DEF Shares, PoolConfig

LEMMA AuthorPartBounded ==
  ASSUME NEW creator \in Nat, NEW attr, attr.share \in 0 .. BPS
  PROVE  AuthorPart(creator, attr) \in 0 .. creator
BY ShareBounded DEF AuthorPart

AddsExactly(coin, referrer, fee, q) ==
    \E p \in Nat, r \in Nat, c \in Nat, d \in Nat, a \in Nat :
        /\ p + r + c + d + a = fee
        /\ claims'[Vault][q] = claims[Vault][q] + fee
        /\ platformPending'[q] = platformPending[q] + p
        /\ IF referrer = NoAccount THEN r = 0
           ELSE referralPending'[referrer][q] = referralPending[referrer][q] + r
        /\ creatorPending'[coin][q] = creatorPending[coin][q] + c
        /\ destinationPending'[coin][q] = destinationPending[coin][q] + d
        /\ authorPending'[coin][q] = authorPending[coin][q] + a

\* What Collect adds to the five ledgers in one currency is the fee.
LEMMA CollectParts ==
  ASSUME VaultTypeOK, NEW coin \in Coins, NEW terms \in PoolConfig,
         NEW attr, attr.share \in 0 .. BPS, NEW fees \in Amount,
         NEW referrer \in Accounts \cup {NoAccount},
         Collect(coin, terms, attr, fees, referrer), NEW q \in Quotes
  PROVE  AddsExactly(coin, referrer, fees[q], q)
<1> DEFINE s == Shares(fees[q], terms, referrer)
           a == AuthorPart(s.creator, attr)
<1>1. fees[q] \in Nat
  BY DEF Amount
<1>2. /\ s.platform \in Nat /\ s.referral \in Nat /\ s.creator \in Nat /\ s.destination \in Nat
      /\ s.platform + s.referral + s.creator + s.destination = fees[q]
  BY <1>1, SharesExact DEF IsSplitOf
<1>3. referrer = NoAccount => s.referral = 0
  BY DEF Shares, Split
<1>4. a \in 0 .. s.creator
  BY <1>2, AuthorPartBounded
<1>5. /\ claims'[Vault][q] = claims[Vault][q] + fees[q]
      /\ platformPending'[q] = platformPending[q] + s.platform
      /\ referrer # NoAccount =>
           referralPending'[referrer][q] = referralPending[referrer][q] + s.referral
      /\ creatorPending'[coin][q] = creatorPending[coin][q] + (s.creator - a)
      /\ destinationPending'[coin][q] = destinationPending[coin][q] + s.destination
      /\ authorPending'[coin][q] = authorPending[coin][q] + a
  <2> HIDE DEF s, a
  <2>1. /\ claims \in [Holders -> Amount] /\ Vault \in Holders
        /\ referralPending \in [Accounts -> Amount] /\ creatorPending \in [Coins -> Amount]
        /\ destinationPending \in [Coins -> Amount] /\ authorPending \in [Coins -> Amount]
    BY DEF VaultTypeOK, Vault, Holders
  <2>2. QED
    BY <2>1 DEF Collect, Shares, s, a
<1> HIDE DEF s, a
<1>6. s.creator - a \in Nat /\ s.platform + s.referral + (s.creator - a) + s.destination + a = fees[q]
  BY <1>2, <1>4
<1>7. a \in Nat
  BY <1>2, <1>4
<1>8. QED
  <2> USE <1>2, <1>6, <1>7 DEF AddsExactly
  <2> WITNESS s.platform \in Nat, s.referral \in Nat, s.creator - a \in Nat,
              s.destination \in Nat, a \in Nat
  <2> QED
    BY <1>3, <1>5, <1>6

LEMMA CollectType ==
  ASSUME VaultTypeOK, NEW coin \in Coins, NEW terms \in PoolConfig,
         NEW attr, attr.share \in 0 .. BPS, NEW fees \in Amount,
         NEW referrer \in Accounts \cup {NoAccount},
         Collect(coin, terms, attr, fees, referrer)
  PROVE  /\ claims' \in [Holders -> Amount] /\ platformPending' \in Amount
         /\ referralPending' \in [Accounts -> Amount]
         /\ creatorPending' \in [Coins -> Amount]
         /\ destinationPending' \in [Coins -> Amount]
         /\ authorPending' \in [Coins -> Amount]
<1> DEFINE share == [q \in Quotes |-> Shares(fees[q], terms, referrer)]
           author == [q \in Quotes |-> AuthorPart(share[q].creator, attr)]
<1>1. \A q \in Quotes : /\ share[q].platform \in Nat /\ share[q].referral \in Nat
                        /\ share[q].creator \in Nat /\ share[q].destination \in Nat
  BY SharesExact DEF Amount, IsSplitOf
<1>2. \A q \in Quotes : author[q] \in 0 .. share[q].creator
  BY <1>1, AuthorPartBounded
<1>3. \A q \in Quotes : author[q] \in Nat /\ share[q].creator - author[q] \in Nat
  BY <1>1, <1>2
<1>4. /\ claims' = [claims EXCEPT ![Vault] = [q \in Quotes |-> @[q] + fees[q]]]
      /\ platformPending' = [q \in Quotes |-> platformPending[q] + share[q].platform]
      /\ referralPending' =
           IF referrer = NoAccount THEN referralPending
           ELSE [referralPending EXCEPT ![referrer] =
                     [q \in Quotes |-> @[q] + share[q].referral]]
      /\ authorPending' = [authorPending EXCEPT ![coin] = [q \in Quotes |-> @[q] + author[q]]]
      /\ creatorPending' = [creatorPending EXCEPT ![coin] =
             [q \in Quotes |-> @[q] + (share[q].creator - author[q])]]
      /\ destinationPending' = [destinationPending EXCEPT ![coin] =
             [q \in Quotes |-> @[q] + share[q].destination]]
  BY DEF Collect, Shares
<1> HIDE DEF share, author
<1>5. claims' \in [Holders -> Amount] /\ platformPending' \in Amount
  <2>1. [q \in Quotes |-> claims[Vault][q] + fees[q]] \in Amount
    BY DEF VaultTypeOK, Amount, Vault, Holders
  <2>2. claims' \in [Holders -> Amount]
    BY <2>1, <1>4 DEF VaultTypeOK
  <2>3. platformPending' \in Amount
    BY <1>1, <1>4 DEF VaultTypeOK, Amount
  <2>4. QED
    BY <2>2, <2>3
<1>6. referralPending' \in [Accounts -> Amount]
  BY <1>1, <1>4 DEF VaultTypeOK, Amount
<1>7. creatorPending' \in [Coins -> Amount] /\ destinationPending' \in [Coins -> Amount]
  BY <1>1, <1>3, <1>4 DEF VaultTypeOK, Amount
<1>8. authorPending' \in [Coins -> Amount]
  BY <1>3, <1>4 DEF VaultTypeOK, Amount
<1>9. QED
  BY <1>5, <1>6, <1>7, <1>8

\* A collected fee raises the claims and what is owed by the same amount.
LEMMA CollectSolvent ==
  ASSUME VaultTypeOK, VaultTypeOK', VaultSolvent, NEW coin \in Coins, NEW terms \in PoolConfig,
         NEW attr, attr.share \in 0 .. BPS, NEW fees \in Amount,
         NEW referrer \in Accounts \cup {NoAccount},
         Collect(coin, terms, attr, fees, referrer), due' = due
  PROVE  VaultSolvent'
<1> SUFFICES ASSUME NEW q \in Quotes PROVE CoversColumns(q)'
  BY SolventByColumns
<1>1. PICK p \in Nat, r \in Nat, c \in Nat, d \in Nat, a \in Nat :
           /\ p + r + c + d + a = fees[q]
           /\ claims'[Vault][q] = claims[Vault][q] + fees[q]
           /\ platformPending'[q] = platformPending[q] + p
           /\ IF referrer = NoAccount THEN r = 0
              ELSE referralPending'[referrer][q] = referralPending[referrer][q] + r
           /\ creatorPending'[coin][q] = creatorPending[coin][q] + c
           /\ destinationPending'[coin][q] = destinationPending[coin][q] + d
           /\ authorPending'[coin][q] = authorPending[coin][q] + a
  <2>1. AddsExactly(coin, referrer, fees[q], q)
    BY CollectParts
  <2>2. QED
    BY <2>1 DEF AddsExactly
<1>2. /\ referralPending \in [Accounts -> Amount] /\ referralPending' \in [Accounts -> Amount]
      /\ creatorPending \in [Coins -> Amount] /\ creatorPending' \in [Coins -> Amount]
      /\ destinationPending \in [Coins -> Amount] /\ destinationPending' \in [Coins -> Amount]
      /\ authorPending \in [Coins -> Amount] /\ authorPending' \in [Coins -> Amount]
  BY DEF VaultTypeOK
<1>3. /\ \A x \in Coins \ {coin} : creatorPending'[x] = creatorPending[x]
      /\ \A x \in Coins \ {coin} : destinationPending'[x] = destinationPending[x]
      /\ \A x \in Coins \ {coin} : authorPending'[x] = authorPending[x]
      /\ IF referrer = NoAccount THEN referralPending' = referralPending
         ELSE \A x \in Accounts \ {referrer} : referralPending'[x] = referralPending[x]
  BY <1>2 DEF Collect
<1>5. Total(Column(creatorPending', q)) = Total(Column(creatorPending, q)) + c
  <2> DEFINE f == creatorPending
             g == creatorPending'
  <2>1. /\ f \in [Coins -> Amount] /\ g \in [Coins -> Amount]
        /\ \A y \in Coins \ {coin} : g[y] = f[y]
        /\ g[coin][q] = f[coin][q] + c
    BY <1>1, <1>2, <1>3
  <2> HIDE DEF f, g
  <2>2. Total(Column(g, q)) = Total(Column(f, q)) + c
    BY <2>1, FiniteIndexes, ColumnAdd
  <2>3. QED
    BY <2>2 DEF f, g
<1>6. Total(Column(destinationPending', q)) = Total(Column(destinationPending, q)) + d
  <2> DEFINE f == destinationPending
             g == destinationPending'
  <2>1. /\ f \in [Coins -> Amount] /\ g \in [Coins -> Amount]
        /\ \A y \in Coins \ {coin} : g[y] = f[y]
        /\ g[coin][q] = f[coin][q] + d
    BY <1>1, <1>2, <1>3
  <2> HIDE DEF f, g
  <2>2. Total(Column(g, q)) = Total(Column(f, q)) + d
    BY <2>1, FiniteIndexes, ColumnAdd
  <2>3. QED
    BY <2>2 DEF f, g
<1>7. Total(Column(authorPending', q)) = Total(Column(authorPending, q)) + a
  <2> DEFINE f == authorPending
             g == authorPending'
  <2>1. /\ f \in [Coins -> Amount] /\ g \in [Coins -> Amount]
        /\ \A y \in Coins \ {coin} : g[y] = f[y]
        /\ g[coin][q] = f[coin][q] + a
    BY <1>1, <1>2, <1>3
  <2> HIDE DEF f, g
  <2>2. Total(Column(g, q)) = Total(Column(f, q)) + a
    BY <2>1, FiniteIndexes, ColumnAdd
  <2>3. QED
    BY <2>2 DEF f, g
<1>8. Total(Column(referralPending', q)) = Total(Column(referralPending, q)) + r
  <2>1. CASE referrer = NoAccount
    BY <2>1, <1>1, <1>3, OwedColumns
  <2>2. CASE referrer # NoAccount
    <3> DEFINE f == referralPending
               g == referralPending'
    <3>1. /\ f \in [Accounts -> Amount] /\ g \in [Accounts -> Amount] /\ referrer \in Accounts
          /\ \A y \in Accounts \ {referrer} : g[y] = f[y]
          /\ g[referrer][q] = f[referrer][q] + r
      BY <2>2, <1>1, <1>2, <1>3
    <3> HIDE DEF f, g
    <3>2. Total(Column(g, q)) = Total(Column(f, q)) + r
      BY <3>1, FiniteIndexes, ColumnAdd
    <3>3. QED
      BY <3>2 DEF f, g
  <2>3. QED
    BY <2>1, <2>2
<1>9. CoversColumns(q)
  BY SolventColumns
<1>10. QED
  BY <1>1, <1>5, <1>6, <1>7, <1>8, <1>9, OwedColumns DEF CoversColumns
-----------------------------------------------------------------------------
\* The handlers

LEMMA AttributionType ==
  ASSUME HookTypeOK, NEW p \in LaunchPlans
  PROVE  /\ AttributionOf(p) \in [share : 0 .. BPS, verifyBy : Nat,
                                   wallet : Accounts \cup {NoAccount}]
         /\ AttributionOf(p).share \in 0 .. BPS
BY VaultAssumption, BPSAssumption DEF AttributionOf, NoTweet, HookTypeOK

\* What a launch and a trade hand to Collect.
LEMMA LaunchCollects ==
  ASSUME VaultInv, NEW p \in LaunchPlans, NEW buys \in [p.quotes -> TradeSizes \cup {0}]
  PROVE  /\ p.coin \in Coins /\ TermsOf(p) \in PoolConfig
         /\ FirstBuyFees(p, buys) \in Amount
         /\ AttributionOf(p).share \in 0 .. BPS
<1>1. p.coin \in Coins /\ p.feeBps \in 0 .. BPS
  BY HookAssumption
<1>2. \A n \in TradeSizes \cup {0} : n \in Nat
  BY VaultAssumption
<1>3. \A q \in p.quotes : buys[q] \in Nat
  BY <1>2
<1>4. \A q \in p.quotes : OnGross(buys[q], p.feeBps) \in Nat
  BY <1>1, <1>3, OnGrossBounded
<1>5. HookTypeOK /\ now \in Nat
  BY DEF VaultInv, HookInv, HookTypeOK
<1>6. QED
  BY <1>1, <1>4, <1>5, TermsOfType, AttributionType DEF FirstBuyFees, Amount

LEMMA LaunchInv ==
  ASSUME VaultInv, NEW p \in LaunchPlans, NEW buys \in [p.quotes -> TradeSizes \cup {0}],
         Launch(p, buys)
  PROVE  VaultInv'
<1> USE DEF VaultInv
<1> DEFINE fees == FirstBuyFees(p, buys)
<1>1. /\ p.coin \in Coins /\ fees \in Amount /\ TermsOf(p) \in PoolConfig
      /\ AttributionOf(p).share \in 0 .. BPS
  BY LaunchCollects
<1>2. /\ RegisterPools(p) /\ Collect(p.coin, TermsOf(p), AttributionOf(p), fees, NoAccount)
      /\ attribution' = [attribution EXCEPT ![p.coin] = AttributionOf(p)]
      /\ tweetAttestor' = tweetAttestor /\ due' = due /\ payee' = payee
  BY DEF Launch
<1> HIDE DEF fees
<1>3. HookInv'
  BY <1>2, RegisterInv
<1>4. AttributionOf(p) \in [share : 0 .. BPS, verifyBy : Nat,
                            wallet : Accounts \cup {NoAccount}]
  BY AttributionType DEF HookInv
<1>5. VaultTypeOK'
  <2>1. /\ claims' \in [Holders -> Amount] /\ platformPending' \in Amount
        /\ referralPending' \in [Accounts -> Amount]
        /\ creatorPending' \in [Coins -> Amount]
        /\ destinationPending' \in [Coins -> Amount]
        /\ authorPending' \in [Coins -> Amount]
    BY <1>1, <1>2, CollectType
  <2>2. attribution' \in [Coins -> [share : 0 .. BPS, verifyBy : Nat,
                                   wallet : Accounts \cup {NoAccount}]]
    BY <1>1, <1>2, <1>4 DEF VaultTypeOK
  <2>3. QED
    BY <2>1, <2>2, <1>2 DEF VaultTypeOK
<1>6. VaultSolvent'
  BY <1>1, <1>2, <1>5, CollectSolvent
<1>7. QED
  BY <1>3, <1>5, <1>6

LEMMA HookInvUnchanged ==
  ASSUME HookInv, UNCHANGED hookVars
  PROVE  HookInv'
BY HookNextInv

LEMMA TradeCollects ==
  ASSUME VaultInv, NEW m \in Markets, NEW exactIn \in BOOLEAN, NEW size \in TradeSizes,
         Registered(m), TradeFeeDefined(m, exactIn)
  PROVE  /\ m[1] \in Coins /\ pools[m] \in PoolConfig
         /\ FeesOf(m[2], TradeFee(m, exactIn, size)) \in Amount
         /\ attribution[m[1]].share \in 0 .. BPS
<1> USE DEF VaultInv
<1>1. m[1] \in Coins /\ m[2] \in Quotes /\ size \in Nat
  BY VaultAssumption DEF Markets
<1>2. pools[m] \in PoolConfig
  BY RegisteredType DEF HookInv
<1> DEFINE rate == Rate(m)
<1>3. rate \in Nat
  <2>1. /\ pools[m].feeBps \in Nat /\ pools[m].protectionStartBps \in Nat
        /\ pools[m].protectionDurationSec \in Nat /\ pools[m].launchedAt \in Nat
    BY <1>2, BPSAssumption DEF PoolConfig
  <2>2. now - pools[m].launchedAt \in Nat
    BY <2>1 DEF HookInv, HookTypeOK, LaunchedBefore
  <2>3. QED
    BY <2>1, <2>2, LaunchFeeBounded DEF Rate, RateOf
<1>4. TradeFee(m, exactIn, size) \in Nat
  <2>1. CASE exactIn
    <3>1. rate \in 0 .. BPS
      BY <2>1, <1>3, BPSAssumption DEF TradeFeeDefined, OnGrossDefined
    <3> HIDE DEF rate
    <3>2. OnGross(size, rate) \in Nat
      BY <3>1, <1>1, OnGrossBounded
    <3>3. QED
      BY <3>2, <2>1 DEF TradeFee, rate
  <2>2. CASE ~exactIn
    <3>1. BPS - rate \in Nat \ {0}
      BY <2>2, <1>3, BPSAssumption DEF TradeFeeDefined, OnNetDefined
    <3> HIDE DEF rate
    <3>2. size * rate \in Nat
      BY <1>1, <1>3
    <3>3. OnNet(size, rate) \in Nat
      BY <3>1, <3>2, CeilDivCovers DEF OnNet
    <3>4. QED
      BY <3>3, <2>2 DEF TradeFee, rate
  <2>3. QED
    BY <2>1, <2>2
<1>5. QED
  BY <1>1, <1>2, <1>4 DEF FeesOf, Amount, VaultTypeOK

LEMMA TradeInv ==
  ASSUME VaultInv, NEW m \in Markets, NEW exactIn \in BOOLEAN, NEW size \in TradeSizes,
         NEW referrer \in Accounts \cup {NoAccount}, Trade(m, exactIn, size, referrer)
  PROVE  VaultInv'
<1> USE DEF VaultInv
<1> DEFINE attr == attribution[m[1]]
           fees == FeesOf(m[2], TradeFee(m, exactIn, size))
<1>1. /\ m[1] \in Coins /\ pools[m] \in PoolConfig /\ fees \in Amount
      /\ attr.share \in 0 .. BPS
  BY TradeCollects DEF Trade
<1>2. /\ Collect(m[1], pools[m], attr, fees, referrer)
      /\ UNCHANGED <<hookVars, attribution, tweetAttestor, due, payee>>
  BY DEF Trade
<1> HIDE DEF fees, attr
<1>3. HookInv'
  BY <1>2, HookInvUnchanged
<1>4. VaultTypeOK'
  BY <1>1, <1>2, CollectType DEF VaultTypeOK
<1>5. VaultSolvent'
  BY <1>1, <1>2, <1>4, CollectSolvent
<1>6. QED
  BY <1>3, <1>4, <1>5

\* In currency q, ledger f becomes g by what the payouts due gain from d to e.
Moves(f, g, d, e, q) ==
    \E n \in Nat : /\ Total(Column(f, q)) = Total(Column(g, q)) + n
                  /\ Total(Column(e, q)) = Total(Column(d, q)) + n
                  /\ Total(Column(g, q)) \in Nat

ZeroedAt(g, f, x, q) == g = [f EXCEPT ![x][q] = 0]

\* One account of a ledger, and one payout due, seen from a claim: the ledger
\* gives up what the payout gains.
LEMMA ClaimMoves ==
  ASSUME VaultTypeOK, VaultTypeOK', ~Locked, NEW S, IsFiniteSet(S),
         NEW f \in [S -> Amount], NEW g \in [S -> Amount], NEW x \in S,
         NEW s \in Slots, NEW q0 \in Quotes,
         ZeroedAt(g, f, x, q0), due' = [due EXCEPT ![s][q0] = f[x][q0]],
         NEW q \in Quotes
  PROVE  Moves(f, g, due, due', q)
<1> DEFINE n == IF q = q0 THEN f[x][q0] ELSE 0
           d == due
           e == due'
<1>1. n \in Nat
  BY DEF Amount
<1>2. f[x] \in [Quotes -> Nat]
  BY DEF Amount
<1>3. /\ \A y \in S \ {x} : f[y] = g[y]
      /\ f[x][q] = g[x][q] + n
  BY <1>2 DEF ZeroedAt
<1>4. /\ d \in [Slots -> Amount] /\ e \in [Slots -> Amount]
      /\ \A y \in Slots \ {s} : e[y] = d[y]
  BY DEF VaultTypeOK
<1>5. e[s][q] = d[s][q] + n
  <2>1. d[s][q0] = 0 /\ d[s] \in [Quotes -> Nat]
    BY <1>4, UnlockedNothingDue DEF Amount
  <2>2. e[s] = [d[s] EXCEPT ![q0] = f[x][q0]]
    BY <1>4
  <2>3. QED
    BY <2>1, <2>2, <1>2
<1> HIDE DEF n, d, e
<1>6. Total(Column(f, q)) = Total(Column(g, q)) + n
  BY <1>1, <1>3, ColumnAdd
<1>7. Total(Column(e, q)) = Total(Column(d, q)) + n
  BY <1>1, <1>4, <1>5, FiniteIndexes, ColumnAdd
<1>8. Total(Column(g, q)) \in Nat
  BY ColumnType, TotalType
<1>9. QED
  BY <1>1, <1>6, <1>7, <1>8 DEF Moves, d, e

LEMMA CreatorClaimInv ==
  ASSUME VaultInv, NEW caller \in Accounts, NEW m \in Markets, ClaimCreator(caller, m)
  PROVE  VaultInv'
<1> USE DEF VaultInv
<1>1. m[1] \in Coins /\ m[1] \in Slots /\ m[2] \in Quotes
  BY FiniteIndexes DEF Markets
<1>2. HookInv'
  BY HookInvUnchanged DEF ClaimCreator
<1>3. creatorPending[m[1]][m[2]] \in Nat /\ creatorPending \in [Coins -> Amount]
  BY <1>1 DEF VaultTypeOK, Amount
<1>4. creatorPending' \in [Coins -> Amount] /\ due' \in [Slots -> Amount]
  BY <1>1, <1>3 DEF ClaimCreator, VaultTypeOK, Amount
<1>5. VaultTypeOK'
  BY <1>4 DEF ClaimCreator, VaultTypeOK
<1>6. VaultSolvent'
  <2> SUFFICES ASSUME NEW q \in Quotes PROVE CoversColumns(q)'
    BY <1>5, SolventByColumns
  <2> DEFINE f == creatorPending
             g == creatorPending'
  <2>1. /\ ZeroedAt(g, f, m[1], m[2]) /\ due' = [due EXCEPT ![m[1]][m[2]] = f[m[1]][m[2]]]
        /\ f \in [Coins -> Amount] /\ g \in [Coins -> Amount] /\ ~Locked
    BY <1>3, <1>4 DEF ClaimCreator, ZeroedAt
  <2> HIDE DEF f, g
  <2>2. Moves(f, g, due, due', q)
    BY <1>1, <1>5, <2>1, FiniteIndexes, ClaimMoves
  <2>3. CoversColumns(q)
    BY SolventColumns
  <2>4. QED
    BY <2>2, <2>3, OwedColumns DEF CoversColumns, Moves, ClaimCreator, f, g
<1>7. QED
  BY <1>2, <1>5, <1>6

LEMMA ReferralClaimInv ==
  ASSUME VaultInv, NEW caller \in Accounts, NEW q0 \in Quotes, ClaimReferral(caller, q0)
  PROVE  VaultInv'
<1> USE DEF VaultInv
<1>1. NoCoin \in Slots
  BY DEF Slots
<1>2. HookInv'
  BY HookInvUnchanged DEF ClaimReferral
<1>3. referralPending[caller][q0] \in Nat /\ referralPending \in [Accounts -> Amount]
  BY DEF VaultTypeOK, Amount
<1>4. referralPending' \in [Accounts -> Amount] /\ due' \in [Slots -> Amount]
  BY <1>1, <1>3 DEF ClaimReferral, VaultTypeOK, Amount
<1>5. VaultTypeOK'
  BY <1>4 DEF ClaimReferral, VaultTypeOK
<1>6. VaultSolvent'
  <2> SUFFICES ASSUME NEW q \in Quotes PROVE CoversColumns(q)'
    BY <1>5, SolventByColumns
  <2> DEFINE f == referralPending
             g == referralPending'
  <2>1. /\ ZeroedAt(g, f, caller, q0) /\ due' = [due EXCEPT ![NoCoin][q0] = f[caller][q0]]
        /\ f \in [Accounts -> Amount] /\ g \in [Accounts -> Amount] /\ ~Locked
    BY <1>3, <1>4 DEF ClaimReferral, ZeroedAt
  <2> HIDE DEF f, g
  <2>2. Moves(f, g, due, due', q)
    BY <1>1, <1>5, <2>1, FiniteIndexes, ClaimMoves
  <2>3. CoversColumns(q)
    BY SolventColumns
  <2>4. QED
    BY <2>2, <2>3, OwedColumns DEF CoversColumns, Moves, ClaimReferral, f, g
<1>7. QED
  BY <1>2, <1>5, <1>6

LEMMA AuthorPayoutInv ==
  ASSUME VaultInv, NEW m \in Markets, NEW whom \in Accounts \cup {Treasury},
         PayAuthorBalance(m, whom)
  PROVE  VaultInv'
<1> USE DEF VaultInv
<1>1. m[1] \in Coins /\ m[1] \in Slots /\ m[2] \in Quotes
  BY FiniteIndexes DEF Markets
<1>2. HookInv'
  BY HookInvUnchanged DEF PayAuthorBalance
<1>3. authorPending[m[1]][m[2]] \in Nat /\ authorPending \in [Coins -> Amount]
  BY <1>1 DEF VaultTypeOK, Amount
<1>4. authorPending' \in [Coins -> Amount] /\ due' \in [Slots -> Amount]
  BY <1>1, <1>3 DEF PayAuthorBalance, VaultTypeOK, Amount
<1>5. VaultTypeOK'
  BY <1>4 DEF PayAuthorBalance, VaultTypeOK
<1>6. VaultSolvent'
  <2> SUFFICES ASSUME NEW q \in Quotes PROVE CoversColumns(q)'
    BY <1>5, SolventByColumns
  <2> DEFINE f == authorPending
             g == authorPending'
  <2>1. /\ ZeroedAt(g, f, m[1], m[2]) /\ due' = [due EXCEPT ![m[1]][m[2]] = f[m[1]][m[2]]]
        /\ f \in [Coins -> Amount] /\ g \in [Coins -> Amount] /\ ~Locked
    BY <1>3, <1>4 DEF PayAuthorBalance, ZeroedAt
  <2> HIDE DEF f, g
  <2>2. Moves(f, g, due, due', q)
    BY <1>1, <1>5, <2>1, FiniteIndexes, ClaimMoves
  <2>3. CoversColumns(q)
    BY SolventColumns
  <2>4. QED
    BY <2>2, <2>3, OwedColumns DEF CoversColumns, Moves, PayAuthorBalance, f, g
<1>7. QED
  BY <1>2, <1>5, <1>6

LEMMA PlatformClaimInv ==
  ASSUME VaultInv, NEW q0 \in Quotes, ClaimPlatform(q0)
  PROVE  VaultInv'
<1> USE DEF VaultInv
<1>1. NoCoin \in Slots
  BY DEF Slots
<1>2. HookInv'
  BY HookInvUnchanged DEF ClaimPlatform
<1>3. platformPending[q0] \in Nat /\ platformPending \in Amount
  BY DEF VaultTypeOK, Amount
<1>4. platformPending' \in Amount /\ due' \in [Slots -> Amount]
  BY <1>1, <1>3 DEF ClaimPlatform, VaultTypeOK, Amount
<1>5. VaultTypeOK'
  BY <1>4 DEF ClaimPlatform, VaultTypeOK
<1>6. VaultSolvent'
  <2> SUFFICES ASSUME NEW q \in Quotes PROVE CoversColumns(q)'
    BY <1>5, SolventByColumns
  <2> DEFINE n == IF q = q0 THEN platformPending[q0] ELSE 0
             d == due
             e == due'
  <2>1. n \in Nat /\ platformPending[q] = platformPending'[q] + n /\ platformPending'[q] \in Nat
    BY <1>3, <1>4 DEF ClaimPlatform, Amount
  <2>2. /\ d \in [Slots -> Amount] /\ e \in [Slots -> Amount]
        /\ \A y \in Slots \ {NoCoin} : e[y] = d[y]
    BY <1>4 DEF VaultTypeOK, ClaimPlatform
  <2>3. e[NoCoin][q] = d[NoCoin][q] + n
    <3>1. d[NoCoin][q0] = 0 /\ d[NoCoin] \in [Quotes -> Nat]
      BY <1>1, <2>2, UnlockedNothingDue DEF Amount, ClaimPlatform
    <3>2. e[NoCoin] = [d[NoCoin] EXCEPT ![q0] = platformPending[q0]]
      BY <1>1, <2>2 DEF ClaimPlatform
    <3>3. QED
      BY <3>1, <3>2, <1>3
  <2> HIDE DEF n, d, e
  <2>4. Total(Column(e, q)) = Total(Column(d, q)) + n
    BY <1>1, <2>1, <2>2, <2>3, FiniteIndexes, ColumnAdd
  <2>5. CoversColumns(q)
    BY SolventColumns
  <2>6. QED
    BY <2>1, <2>4, <2>5, OwedColumns DEF CoversColumns, ClaimPlatform, d, e
<1>7. QED
  BY <1>2, <1>5, <1>6

\* Several coins claimed together: the coins claimed in currency q give their
\* creator balances to the payouts due.
LEMMA ManyClaimInv ==
  ASSUME VaultInv, NEW caller \in Accounts, NEW cs \in SUBSET Coins,
         ClaimCreatorMany(caller, cs)
  PROVE  VaultInv'
<1> USE DEF VaultInv
<1> DEFINE taken(q) == {c \in cs : q = primary[c]}
<1>1. HookInv'
  BY HookInvUnchanged DEF ClaimCreatorMany
<1>2. creatorPending \in [Coins -> Amount] /\ due \in [Slots -> Amount]
  BY DEF VaultTypeOK
<1>3. /\ creatorPending' = [c \in Coins |-> [q \in Quotes |->
                              IF c \in taken(q) THEN 0 ELSE creatorPending[c][q]]]
      /\ due' = [s \in Slots |-> [q \in Quotes |->
                   IF s \in taken(q) THEN creatorPending[s][q] ELSE 0]]
  BY DEF ClaimCreatorMany
<1>4. \A q \in Quotes : taken(q) \in SUBSET Coins
  OBVIOUS
<1> HIDE DEF taken
<1>5. creatorPending' \in [Coins -> Amount] /\ due' \in [Slots -> Amount]
  BY <1>2, <1>3, <1>4 DEF Amount
<1>6. VaultTypeOK'
  BY <1>5 DEF ClaimCreatorMany, VaultTypeOK
<1>7. VaultSolvent'
  <2> SUFFICES ASSUME NEW q \in Quotes PROVE CoversColumns(q)'
    BY <1>6, SolventByColumns
  <2> DEFINE T == taken(q)
             f == Column(creatorPending, q)
             g == Column(creatorPending', q)
             h == [c \in T |-> creatorPending[c][q]]
             e == Column(due', q)
  <2>1. /\ f \in [Coins -> Nat] /\ \A c \in Coins : f[c] = creatorPending[c][q]
        /\ g \in [Coins -> Nat] /\ \A c \in Coins : g[c] = creatorPending'[c][q]
        /\ e \in [Slots -> Nat] /\ \A s \in Slots : e[s] = due'[s][q]
    BY <1>2, <1>5, ColumnType
  <2>2. T \in SUBSET Coins /\ T \in SUBSET Slots
    BY <1>4, FiniteIndexes
  <2>3. \A c \in Coins : g[c] = IF c \in T THEN 0 ELSE f[c]
    BY <2>1, <1>3
  <2>4. \A s \in Slots : e[s] = IF s \in T THEN creatorPending[s][q] ELSE 0
    BY <2>1, <1>3
  <2>5. h \in [T -> Nat] /\ \A c \in T : h[c] = f[c] /\ h[c] = creatorPending[c][q]
    BY <2>1, <2>2
  <2> HIDE DEF T, f, g, h, e
  <2>6. Total(f) = Total(g) + Total(h)
    <3>1. /\ \A x \in T : g[x] = 0 /\ h[x] = f[x]
          /\ \A x \in Coins \ T : g[x] = f[x]
      BY <2>2, <2>3, <2>5
    <3>2. f \in [Coins -> Nat] /\ g \in [Coins -> Nat]
      BY <2>1
    <3>3. QED
      BY <3>1, <3>2, <2>2, <2>5, FiniteIndexes, TotalSplit
  <2>7. Total(e) = Total(h)
    <3>1. /\ \A x \in T : e[x] = h[x]
          /\ \A x \in Slots \ T : e[x] = 0
      BY <2>2, <2>4, <2>5
    <3>2. e \in [Slots -> Nat]
      BY <2>1
    <3>3. QED
      BY <3>1, <3>2, <2>2, <2>5, TotalExtend
  <2>8. Total(g) \in Nat /\ Total(e) \in Nat
    BY <2>1, FiniteIndexes, TotalType
  <2>9. Total(Column(due, q)) = 0
    BY UnlockedNothingDue, OwedColumns DEF ClaimCreatorMany
  <2>10. CoversColumns(q)
    BY SolventColumns
  <2>11. QED
    BY <2>6, <2>7, <2>8, <2>9, <2>10, OwedColumns DEF CoversColumns, ClaimCreatorMany, f, g, e
<1>8. QED
  BY <1>1, <1>6, <1>7

LEMMA PayNextInv ==
  ASSUME VaultInv, NEW s \in Slots, NEW q0 \in Quotes, PayNext(s, q0)
  PROVE  VaultInv'
<1> USE DEF VaultInv
<1>1. HookInv'
  BY HookInvUnchanged DEF PayNext
<1>2. /\ due \in [Slots -> Amount] /\ claims \in [Holders -> Amount] /\ Vault \in Holders
      /\ due[s][q0] \in Nat /\ claims[Vault][q0] \in Nat
  BY DEF VaultTypeOK, Amount, Vault, Holders
<1>3. claims[Vault][q0] - due[s][q0] \in Nat
  BY <1>2 DEF PayNext
<1>4. claims' \in [Holders -> Amount] /\ due' \in [Slots -> Amount]
  BY <1>2, <1>3 DEF PayNext, Amount
<1>5. VaultTypeOK'
  BY <1>4 DEF PayNext, VaultTypeOK, ledgers
<1>6. VaultSolvent'
  <2> SUFFICES ASSUME NEW q \in Quotes PROVE CoversColumns(q)'
    BY <1>5, SolventByColumns
  <2> DEFINE n == IF q = q0 THEN due[s][q0] ELSE 0
             d == due
             e == due'
  <2>1. n \in Nat /\ claims[Vault][q] = claims'[Vault][q] + n /\ claims'[Vault][q] \in Nat
    BY <1>2, <1>3, <1>4 DEF PayNext, Amount
  <2>2. /\ d \in [Slots -> Amount] /\ e \in [Slots -> Amount]
        /\ \A y \in Slots \ {s} : d[y] = e[y]
    BY <1>2, <1>4 DEF PayNext
  <2>3. d[s][q] = e[s][q] + n
    BY <1>2 DEF PayNext, Amount
  <2> HIDE DEF n, d, e
  <2>4. Total(Column(d, q)) = Total(Column(e, q)) + n
    BY <2>1, <2>2, <2>3, FiniteIndexes, ColumnAdd
  <2>5. Total(Column(e, q)) \in Nat
    BY <2>2, ColumnType, FiniteIndexes, TotalType
  <2>6. CoversColumns(q)
    BY SolventColumns
  <2>7. /\ UNCHANGED <<platformPending, referralPending, creatorPending, destinationPending,
                      authorPending>>
        /\ claims[Vault][q] \in Nat
    BY OwedColumns DEF PayNext, ledgers
  <2> DEFINE others == platformPending[q] + Total(Column(referralPending, q))
                         + Total(Column(creatorPending, q))
                         + Total(Column(destinationPending, q))
                         + Total(Column(authorPending, q))
  <2>8. others \in Nat
    BY OwedColumns
  <2>9. claims[Vault][q] = others + Total(Column(d, q))
    BY <2>6 DEF CoversColumns, d
  <2>10. CoversColumns(q)' <=> claims'[Vault][q] = others + Total(Column(e, q))
    BY <2>7 DEF CoversColumns, e
  <2> DEFINE have == claims'[Vault][q]
             rest == Total(Column(e, q))
  <2> HIDE DEF others, have, rest
  <2>11. n \in Nat /\ have \in Nat /\ others \in Nat /\ rest \in Nat
    BY <2>1, <2>5, <2>8 DEF have, rest
  <2>12. have + n = others + (rest + n)
    BY <2>1, <2>4, <2>9 DEF have, rest
  <2>13. have = others + rest
    BY <2>11, <2>12
  <2>14. QED
    BY <2>10, <2>13 DEF have, rest
<1>7. QED
  BY <1>1, <1>5, <1>6

\* Steps that touch neither claims nor ledgers.
LEMMA SolventUnchanged ==
  ASSUME VaultSolvent, UNCHANGED <<claims, ledgers, due>>
  PROVE  VaultSolvent'
BY DEF VaultSolvent, Owed, InFlight, ledgers

LEMMA AuthorStepInv ==
  ASSUME VaultInv, AuthorStep
  PROVE  VaultInv'
<1> USE DEF VaultInv
<1>1. HookInv' /\ VaultSolvent'
  BY HookInvUnchanged, SolventUnchanged DEF AuthorStep, VerifyAuthor, SetTweetAttestor
<1>2. VaultTypeOK'
  <2>1. CASE \E a \in Attestations : VerifyAuthor(a)
    <3> PICK a \in Attestations : VerifyAuthor(a)
      BY <2>1
    <3>1. a.wallet \in Accounts
      BY VaultAssumption
    <3>2. QED
      BY <3>1 DEF VerifyAuthor, VaultTypeOK, ledgers
  <2>2. CASE \E key \in Attestors \cup {NoAccount} : SetTweetAttestor(key)
    BY <2>2 DEF SetTweetAttestor, VaultTypeOK, ledgers
  <2>3. QED
    BY <2>1, <2>2 DEF AuthorStep
<1>3. QED
  BY <1>1, <1>2

LEMMA HookStepInv ==
  ASSUME VaultInv, HookStep
  PROVE  VaultInv'
<1> USE DEF VaultInv
<1>1. HookInv'
  BY HookNextInv DEF HookStep, HookNext
<1>2. VaultSolvent'
  BY SolventUnchanged DEF HookStep, vaultVars, ledgers
<1>3. VaultTypeOK'
  BY DEF HookStep, vaultVars, VaultTypeOK
<1>4. QED
  BY <1>1, <1>2, <1>3

\* What the pull of one market gives, by currency.
LEMMA PulledOne ==
  ASSUME destinationPending \in [Coins -> Amount], NEW m \in Markets, NEW q \in Quotes
  PROVE  PulledIn({m}, q) = IF q = m[2] THEN destinationPending[m[1]][q] ELSE 0
<1> DEFINE T == {x \in Coins : <<x, q>> \in {m}}
           f == [c \in T |-> destinationPending[c][q]]
<1>1. m[1] \in Coins /\ m[2] \in Quotes /\ m = <<m[1], m[2]>>
  BY DEF Markets
<1>2. f \in [T -> Nat]
  BY DEF Amount
<1>3. T \in SUBSET Coins /\ IsFiniteSet(T)
  BY FiniteIndexes, FS_Subset
<1>4. PulledIn({m}, q) = Total(f)
  BY DEF PulledIn
<1>5. CASE q # m[2]
  <2>1. T = {}
    BY <1>1, <1>5
  <2>2. \A x \in T : f[x] = 0
    BY <2>1
  <2> HIDE DEF f, T
  <2>3. Total(f) = 0
    BY <1>2, <2>2, TotalZero
  <2>4. QED
    BY <1>4, <1>5, <2>3
<1>6. CASE q = m[2]
  <2>1. T = {m[1]} /\ m[1] \in T
    BY <1>1, <1>6
  <2>2. f[m[1]] = destinationPending[m[1]][q]
    BY <2>1
  <2> DEFINE rest == [y \in T \ {m[1]} |-> f[y]]
  <2>3. rest \in [T \ {m[1]} -> Nat] /\ \A y \in T \ {m[1]} : rest[y] = 0
    BY <1>2, <2>1
  <2> HIDE DEF f, T
  <2>4. Total(f) = Total(rest) + f[m[1]]
    BY <1>2, <1>3, <2>1, TotalRemove
  <2> HIDE DEF rest
  <2>5. Total(rest) = 0
    BY <2>3, TotalZero
  <2>6. f[m[1]] \in Nat
    BY <1>2, <2>1
  <2>7. QED
    BY <1>4, <1>6, <2>2, <2>4, <2>5, <2>6
<1>7. QED
  BY <1>5, <1>6

\* A module pulls the shares of some markets: what it gains is what the vault
\* owed for them and had.
LEMMA PullInv ==
  ASSUME VaultInv, NEW module \in Holders \ {Vault}, NEW ms \in SUBSET Markets,
         PullDestination(module, ms),
         UNCHANGED <<hookVars, platformPending, referralPending, creatorPending, authorPending,
                     attribution, tweetAttestor, due, payee>>
  PROVE  /\ VaultInv'
         /\ \A q \in Quotes : /\ PulledIn(ms, q) \in Nat
                              /\ claims'[module][q] = claims[module][q] + PulledIn(ms, q)
<1> USE DEF VaultInv
<1> DEFINE T(q) == {x \in Coins : <<x, q>> \in ms}
<1>1. HookInv'
  BY HookInvUnchanged
<1>2. /\ destinationPending \in [Coins -> Amount] /\ claims \in [Holders -> Amount]
      /\ Vault \in Holders
  BY DEF VaultTypeOK, Vault, Holders
<1>3. destinationPending' \in [Coins -> Amount]
  BY <1>2 DEF PullDestination, Amount
<1>4. ASSUME NEW q \in Quotes
      PROVE  /\ PulledIn(ms, q) \in Nat
             /\ Total(Column(destinationPending, q)) =
                  Total(Column(destinationPending', q)) + PulledIn(ms, q)
             /\ Total(Column(destinationPending', q)) \in Nat
             /\ PulledIn(ms, q) <= claims[Vault][q]
  <2> DEFINE f == Column(destinationPending, q)
             g == Column(destinationPending', q)
             h == [c \in T(q) |-> destinationPending[c][q]]
  <2>1. /\ f \in [Coins -> Nat] /\ \A c \in Coins : f[c] = destinationPending[c][q]
        /\ g \in [Coins -> Nat] /\ \A c \in Coins : g[c] = destinationPending'[c][q]
    BY <1>2, <1>3, ColumnType
  <2>2. \A c \in Coins : g[c] = IF c \in T(q) THEN 0 ELSE f[c]
    BY <2>1 DEF PullDestination
  <2>3. h \in [T(q) -> Nat] /\ T(q) \in SUBSET Coins /\ \A c \in T(q) : h[c] = f[c]
    BY <2>1
  <2>4. PulledIn(ms, q) = Total(h)
    BY DEF PulledIn
  <2> HIDE DEF f, g, h, T
  <2>5. Total(f) = Total(g) + Total(h)
    <3>1. /\ \A x \in T(q) : g[x] = 0 /\ h[x] = f[x]
          /\ \A x \in Coins \ T(q) : g[x] = f[x]
      BY <2>2, <2>3
    <3>2. f \in [Coins -> Nat] /\ g \in [Coins -> Nat]
      BY <2>1
    <3>3. QED
      BY <3>1, <3>2, <2>3, FiniteIndexes, TotalSplit
  <2>6. IsFiniteSet(T(q))
    BY <2>3, FiniteIndexes, FS_Subset
  <2>7. Total(g) \in Nat /\ Total(h) \in Nat
    BY <2>1, <2>3, <2>6, FiniteIndexes, TotalType
  <2>8. CoversColumns(q)
    BY SolventColumns
  <2>9. Total(f) <= claims[Vault][q]
    BY <2>8, OwedColumns DEF CoversColumns, f
  <2>10. claims[Vault][q] \in Nat /\ Total(h) <= claims[Vault][q]
    BY <2>5, <2>7, <2>9, OwedColumns
  <2>11. QED
    BY <2>4, <2>5, <2>7, <2>10 DEF f, g
<1>5. ASSUME NEW q \in Quotes
      PROVE  /\ claims'[Vault][q] = claims[Vault][q] - PulledIn(ms, q)
             /\ claims'[module][q] = claims[module][q] + PulledIn(ms, q)
             /\ claims[Vault][q] \in Nat
  BY <1>2 DEF PullDestination, Amount
<1>6. claims' \in [Holders -> Amount]
  <2>1. [q \in Quotes |-> claims[Vault][q] - PulledIn(ms, q)] \in Amount
    BY <1>4, <1>5 DEF Amount
  <2>2. [q \in Quotes |-> claims[module][q] + PulledIn(ms, q)] \in Amount
    BY <1>2, <1>4 DEF Amount
  <2>3. QED
    BY <2>1, <2>2, <1>2 DEF PullDestination
<1>7. VaultTypeOK'
  BY <1>3, <1>6 DEF VaultTypeOK
<1>8. VaultSolvent'
  <2> SUFFICES ASSUME NEW q \in Quotes PROVE CoversColumns(q)'
    BY <1>7, SolventByColumns
  <2>1. CoversColumns(q)
    BY SolventColumns
  <2>2. QED
    BY <2>1, <1>4, <1>5, OwedColumns DEF CoversColumns
<1>9. QED
  BY <1>1, <1>4, <1>5, <1>7, <1>8

LEMMA ModulePullInv ==
  ASSUME VaultInv, NEW m \in Markets, ModulePull(m)
  PROVE  VaultInv'
<1>1. ModuleOf(m) \in Holders \ {Vault}
  <2>1. pools[m].mode \in Modes
    BY RegisteredType DEF ModulePull, VaultInv, HookInv, PoolConfig
  <2>2. QED
    BY <2>1 DEF ModulePull, ModuleOf, ModuleOfMode, Modes, Holders, Vault
<1>2. QED
  BY <1>1, PullInv DEF ModulePull

-----------------------------------------------------------------------------

LEMMA VaultInitInv == VaultInit => VaultInv
<1> SUFFICES ASSUME VaultInit PROVE VaultInv
  OBVIOUS
<1>1. HookInv
  BY HookInitInv DEF VaultInit
<1>2. VaultTypeOK
  BY BPSAssumption DEF VaultInit, VaultTypeOK, Zero, Amount, NoTweet, Holders
<1>3. ASSUME NEW q \in Quotes PROVE CoversColumns(q)
  <2>1. /\ platformPending[q] = 0 /\ claims[Vault][q] = 0
        /\ \A a \in Accounts : referralPending[a][q] = 0
        /\ \A c \in Coins : creatorPending[c][q] = 0
        /\ \A c \in Coins : destinationPending[c][q] = 0
        /\ \A c \in Coins : authorPending[c][q] = 0
        /\ \A s \in Slots : due[s][q] = 0
    BY DEF VaultInit, Zero, Holders, Vault
  <2>2. ASSUME NEW S, NEW f \in [S -> Amount], \A x \in S : f[x][q] = 0
        PROVE  Total(Column(f, q)) = 0
    <3>1. Column(f, q) \in [S -> Nat] /\ \A x \in S : Column(f, q)[x] = 0
      BY <2>2, ColumnType
    <3>2. QED
      BY <3>1, TotalZero
  <2>3. /\ referralPending \in [Accounts -> Amount] /\ creatorPending \in [Coins -> Amount]
        /\ destinationPending \in [Coins -> Amount] /\ authorPending \in [Coins -> Amount]
        /\ due \in [Slots -> Amount]
    BY <1>2 DEF VaultTypeOK
  <2>4. /\ Total(Column(referralPending, q)) = 0 /\ Total(Column(creatorPending, q)) = 0
        /\ Total(Column(destinationPending, q)) = 0 /\ Total(Column(authorPending, q)) = 0
        /\ Total(Column(due, q)) = 0
    BY <2>1, <2>2, <2>3
  <2>5. QED
    BY <2>1, <2>4 DEF CoversColumns
<1>4. QED
  BY <1>1, <1>2, <1>3, SolventColumns DEF VaultInv

LEMMA VaultStepInv == VaultInv /\ VaultStep => VaultInv'
<1>1. VaultInv /\ FeeStep => VaultInv'
  BY LaunchInv, TradeInv DEF FeeStep
<1>2. VaultInv /\ ClaimStep => VaultInv'
  BY CreatorClaimInv, ReferralClaimInv, AuthorPayoutInv, PlatformClaimInv, ManyClaimInv,
     PayNextInv DEF ClaimStep, ClaimAuthor, ReclaimExpiredAuthor
<1>3. QED
  BY <1>1, <1>2, AuthorStepInv, HookStepInv DEF VaultStep

LEMMA VaultUnchangedInv == VaultInv /\ UNCHANGED allVaultVars => VaultInv'
BY HookInvUnchanged, SolventUnchanged
   DEF VaultInv, VaultTypeOK, allVaultVars, vaultVars, ledgers

THEOREM VaultInvariant == VaultSpec => []VaultInv
<1>1. VaultInv /\ [VaultNext]_allVaultVars => VaultInv'
  BY VaultStepInv, ModulePullInv, VaultUnchangedInv DEF VaultNext
<1>2. QED
  BY <1>1, VaultInitInv, PTL DEF VaultSpec

\* FeeVault: the types of the ledgers hold in every behaviour.
THEOREM VaultTypeCorrect == VaultSpec => []VaultTypeOK
<1>1. VaultInv => VaultTypeOK
  BY DEF VaultInv
<1>2. QED
  BY <1>1, VaultInvariant, PTL

\* FeeVault, note 1: after every trade, launch, pull, claim and payout, and
\* between the payouts of one claim, the vault's claims are what it owes.
THEOREM VaultStaysSolvent == VaultSpec => []VaultSolvent
<1>1. VaultInv => VaultSolvent
  BY DEF VaultInv
<1>2. QED
  BY <1>1, VaultInvariant, PTL

-----------------------------------------------------------------------------
\* The author's reserve.  Its lock is registered before the coin's markets and
\* runs from the same block timestamp.

LockFromLaunch ==
    \A c \in Coins : attribution[c].share # 0 =>
        /\ Known(c)
        /\ attribution[c].verifyBy = pools[PrimaryMarket(c)].launchedAt + AuthorLock

\* A step that keeps the launches of the known coins and the attributions.
LEMMA LockKept ==
  ASSUME LockFromLaunch,
         \A c \in Coins : /\ attribution'[c].share = attribution[c].share
                          /\ attribution'[c].verifyBy = attribution[c].verifyBy
                          /\ Known(c) => /\ primary'[c] = primary[c]
                                         /\ pools'[PrimaryMarket(c)].launchedAt
                                              = pools[PrimaryMarket(c)].launchedAt
  PROVE  LockFromLaunch'
BY DEF LockFromLaunch, Known, PrimaryMarket

LEMMA LowerFeeKeepsLaunch ==
  ASSUME HookTypeOK, NEW caller, NEW coin \in Coins, NEW fee, LowerFee(caller, coin, fee),
         NEW m \in Markets, Registered(m)
  PROVE  pools'[m].launchedAt = pools[m].launchedAt
<1>1. pools[m] \in PoolConfig
  BY RegisteredType
<1>2. pools'[m] = pools[m] \/ pools'[m] = [pools[m] EXCEPT !.feeBps = fee]
  BY DEF LowerFee
<1>3. QED
  BY <1>1, <1>2 DEF PoolConfig

LEMMA LaunchKeepsLock ==
  ASSUME VaultInv, LockFromLaunch, NEW p \in LaunchPlans,
         NEW buys \in [p.quotes -> TradeSizes \cup {0}], Launch(p, buys)
  PROVE  LockFromLaunch'
<1>1. p.coin \in Coins /\ p.primary \in Quotes /\ p.primary \in p.quotes
  BY HookAssumption
<1>2. /\ RegisterPools(p)
      /\ attribution' = [attribution EXCEPT ![p.coin] = AttributionOf(p)]
  BY DEF Launch
<1>3. /\ HookTypeOK /\ attribution' \in [Coins -> [share : 0 .. BPS, verifyBy : Nat,
                                  wallet : Accounts \cup {NoAccount}]]
      /\ attribution \in [Coins -> [share : 0 .. BPS, verifyBy : Nat,
                                  wallet : Accounts \cup {NoAccount}]]
  BY LaunchInv DEF VaultInv, HookInv, VaultTypeOK
<1> SUFFICES ASSUME NEW c \in Coins, attribution'[c].share # 0
             PROVE  /\ Known(c)'
                    /\ attribution'[c].verifyBy = pools'[PrimaryMarket(c)'].launchedAt + AuthorLock
  BY DEF LockFromLaunch
<1>4. CASE c = p.coin
  <2>1. primary'[c] = p.primary /\ p.primary # NoQuote
    BY <1>1, <1>2, <1>4, HookAssumption DEF RegisterPools, HookInv, HookTypeOK, VaultInv
  <2>2. pools'[<<c, p.primary>>] = TermsOf(p)
    BY <1>1, <1>2, <1>4 DEF RegisterPools, Markets
  <2>3. attribution'[c] = AttributionOf(p)
    BY <1>2, <1>3, <1>4
  <2>4. attribution'[c].verifyBy = now + AuthorLock
    BY <2>3 DEF AttributionOf, NoTweet
  <2>5. TermsOf(p).launchedAt = now
    BY TermsOfType, <1>3 DEF HookTypeOK
  <2>6. QED
    BY <2>1, <2>2, <2>4, <2>5 DEF Known, PrimaryMarket
<1>5. CASE c # p.coin
  <2>1. attribution'[c] = attribution[c] /\ primary'[c] = primary[c]
    BY <1>2, <1>3, <1>5 DEF RegisterPools, HookTypeOK
  <2>2. Known(c) /\ attribution[c].verifyBy = pools[PrimaryMarket(c)].launchedAt + AuthorLock
    BY <2>1 DEF LockFromLaunch
  <2>3. PrimaryMarket(c) \in Markets /\ PrimaryMarket(c)[1] = c
    BY <2>2, <1>3 DEF PrimaryMarket, Markets, Known, HookTypeOK
  <2>4. pools'[PrimaryMarket(c)] = pools[PrimaryMarket(c)]
    BY <2>3, <1>2, <1>5 DEF RegisterPools
  <2>5. QED
    BY <2>1, <2>2, <2>4 DEF Known, PrimaryMarket
<1>6. QED
  BY <1>4, <1>5

LEMMA StepKeepsLock ==
  ASSUME VaultInv, LockFromLaunch, [VaultNext]_allVaultVars
  PROVE  LockFromLaunch'
<1>1. CASE \E p \in LaunchPlans : \E buys \in [p.quotes -> TradeSizes \cup {0}] : Launch(p, buys)
  BY <1>1, LaunchKeepsLock
<1>2. CASE UNCHANGED <<hookVars, attribution>>
  BY <1>2 DEF LockFromLaunch, hookVars, Known, PrimaryMarket
<1>3. CASE \E a \in Attestations : VerifyAuthor(a)
  <2> PICK a \in Attestations : VerifyAuthor(a)
    BY <1>3
  <2>1. \A c \in Coins : /\ attribution'[c].share = attribution[c].share
                         /\ attribution'[c].verifyBy = attribution[c].verifyBy
    BY DEF VerifyAuthor, VaultInv, VaultTypeOK
  <2>2. UNCHANGED <<pools, primary>>
    BY DEF VerifyAuthor, hookVars
  <2>3. QED
    BY <2>1, <2>2, LockKept
<1>4. CASE HookStep
  <2>1. attribution' = attribution
    BY <1>4 DEF HookStep, vaultVars
  <2>2. CASE \E coin \in Coins, caller \in Accounts, fee \in 0 .. BPS : LowerFee(caller, coin, fee)
    <3> PICK coin \in Coins, caller \in Accounts, fee \in 0 .. BPS : LowerFee(caller, coin, fee)
      BY <2>2
    <3>1. primary' = primary
      BY DEF LowerFee
    <3>2. ASSUME NEW c \in Coins, Known(c), attribution[c].share # 0
          PROVE  pools'[PrimaryMarket(c)].launchedAt = pools[PrimaryMarket(c)].launchedAt
      <4>1. PrimaryMarket(c) \in Markets
        BY <3>2 DEF PrimaryMarket, Markets, Known, VaultInv, HookInv, HookTypeOK
      <4>2. CASE Registered(PrimaryMarket(c))
        BY <4>1, <4>2, LowerFeeKeepsLaunch DEF VaultInv, HookInv
      <4>3. CASE ~Registered(PrimaryMarket(c))
        BY <4>1, <4>3 DEF LowerFee, MarketsOf
      <4>4. QED
        BY <4>2, <4>3
    <3>3. QED
      BY <2>1, <3>1, <3>2 DEF LockFromLaunch, Known, PrimaryMarket
  <2>3. CASE UNCHANGED <<pools, primary>>
    BY <2>1, <2>3 DEF LockFromLaunch, Known, PrimaryMarket
  <2>4. QED
    BY <1>4, <2>2, <2>3 DEF HookStep, CreatorStep, ProposeCreator, AcceptCreator, Tick
<1>5. QED
  <2>1. CASE FeeStep
    BY <2>1, <1>1, <1>2 DEF FeeStep, Trade
  <2>2. CASE ClaimStep
    BY <2>2, <1>2 DEF ClaimStep, ClaimCreator, ClaimCreatorMany, ClaimReferral, ClaimPlatform,
       ClaimAuthor, ReclaimExpiredAuthor, PayAuthorBalance, PayNext
  <2>3. CASE AuthorStep
    BY <2>3, <1>2, <1>3 DEF AuthorStep, SetTweetAttestor
  <2>4. CASE \E m \in Markets : ModulePull(m)
    BY <2>4, <1>2 DEF ModulePull
  <2>5. CASE UNCHANGED allVaultVars
    BY <2>5, <1>2 DEF allVaultVars, vaultVars
  <2>6. QED
    BY <2>1, <2>2, <2>3, <2>4, <2>5, <1>4 DEF VaultNext, VaultStep

\* Collecting a fee never lowers an author balance.
LEMMA CollectRaisesAuthor ==
  ASSUME VaultTypeOK, NEW coin \in Coins, NEW terms \in PoolConfig,
         NEW attr, attr.share \in 0 .. BPS, NEW fees \in Amount,
         NEW referrer \in Accounts \cup {NoAccount},
         Collect(coin, terms, attr, fees, referrer), NEW c \in Coins, NEW q \in Quotes
  PROVE  ~(authorPending'[c][q] < authorPending[c][q])
<1>1. authorPending \in [Coins -> Amount] /\ authorPending[c][q] \in Nat
  BY DEF VaultTypeOK, Amount
<1>2. CASE c # coin
  BY <1>1, <1>2 DEF Collect
<1>3. CASE c = coin
  <2>1. AddsExactly(coin, referrer, fees[q], q)
    BY CollectParts
  <2>2. PICK a \in Nat : authorPending'[coin][q] = authorPending[coin][q] + a
    BY <2>1 DEF AddsExactly
  <2>3. QED
    BY <2>2, <1>1, <1>3
<1>4. QED
  BY <1>2, <1>3

\* An author balance only falls in a payout of it, which is either the bound
\* wallet's claim or a reclaim after the lock.
LEMMA ReserveStep ==
  ASSUME VaultInv, LockFromLaunch, [VaultNext]_allVaultVars
  PROVE  ReserveToWhom
<1> SUFFICES ASSUME NEW c \in Coins, NEW q \in Quotes,
                    authorPending'[c][q] < authorPending[c][q]
             PROVE  /\ due'[c][q] = authorPending[c][q] - authorPending'[c][q]
                    /\ \/ payee' \in Accounts /\ payee' = attribution[c].wallet
                       \/ /\ payee' = Treasury
                          /\ now >= pools[PrimaryMarket(c)].launchedAt + AuthorLock
  BY DEF ReserveToWhom
<1>1. /\ authorPending[c][q] \in Nat /\ ~(authorPending[c][q] < authorPending[c][q])
      /\ authorPending \in [Coins -> Amount] /\ due \in [Slots -> Amount] /\ c \in Slots
  BY FiniteIndexes DEF VaultInv, VaultTypeOK, Amount
<1>2. ASSUME NEW m \in Markets, NEW whom \in Accounts \cup {Treasury}, PayAuthorBalance(m, whom)
      PROVE  /\ c = m[1] /\ attribution[c].share # 0 /\ payee' = whom
             /\ due'[c][q] = authorPending[c][q] - authorPending'[c][q]
  <2>1. m[1] \in Coins /\ m[2] \in Quotes /\ m[1] \in Slots
    BY FiniteIndexes DEF Markets
  <2>2. c = m[1] /\ q = m[2]
    BY <1>1, <1>2, <2>1 DEF PayAuthorBalance, Amount
  <2>3. authorPending'[c][q] = 0 /\ due'[c][q] = authorPending[c][q]
    BY <1>1, <1>2, <2>1, <2>2 DEF PayAuthorBalance, Amount
  <2>4. QED
    BY <1>1, <1>2, <2>2, <2>3 DEF PayAuthorBalance
<1>3. CASE FeeStep
  <2>1. ASSUME NEW p \in LaunchPlans, NEW buys \in [p.quotes -> TradeSizes \cup {0}],
               Launch(p, buys)
        PROVE  FALSE
    BY <2>1, LaunchCollects, CollectRaisesAuthor DEF Launch, VaultInv
  <2>2. ASSUME NEW m \in Markets, NEW exactIn \in BOOLEAN, NEW size \in TradeSizes,
               NEW referrer \in Accounts \cup {NoAccount}, Trade(m, exactIn, size, referrer)
        PROVE  FALSE
    BY <2>2, TradeCollects, CollectRaisesAuthor DEF Trade, VaultInv
  <2>3. QED
    BY <1>3, <2>1, <2>2 DEF FeeStep
<1>4. CASE \E m \in Markets, caller \in Accounts : ClaimAuthor(caller, m)
  BY <1>2, <1>4 DEF ClaimAuthor
<1>5. CASE \E m \in Markets : ReclaimExpiredAuthor(m)
  BY <1>2, <1>5 DEF ReclaimExpiredAuthor, LockFromLaunch
<1>6. CASE authorPending' = authorPending
  BY <1>1, <1>6
<1>7. QED
  <2>1. CASE ClaimStep
    BY <2>1, <1>4, <1>5, <1>6 DEF ClaimStep, ClaimCreator, ClaimCreatorMany, ClaimReferral,
       ClaimPlatform, PayNext, ledgers
  <2>2. CASE AuthorStep \/ HookStep \/ UNCHANGED allVaultVars
    BY <2>2, <1>6 DEF AuthorStep, VerifyAuthor, SetTweetAttestor, HookStep, vaultVars,
       allVaultVars, ledgers
  <2>3. CASE \E m \in Markets : ModulePull(m)
    BY <2>3, <1>6 DEF ModulePull
  <2>4. QED
    BY <2>1, <2>2, <2>3, <1>3 DEF VaultNext, VaultStep

\* While a claim pays out, nothing begins another one.
LEMMA PayeeStep ==
  ASSUME [VaultNext]_allVaultVars
  PROVE  PayeeStays
<1> SUFFICES ASSUME Locked, Locked' PROVE payee' = payee
  BY DEF PayeeStays
<1>1. CASE FeeStep
  BY <1>1 DEF FeeStep, Launch, Trade
<1>2. CASE ClaimStep
  BY <1>2 DEF ClaimStep, ClaimCreator, ClaimAuthor, ReclaimExpiredAuthor, PayAuthorBalance,
     ClaimCreatorMany, ClaimReferral, ClaimPlatform, PayNext
<1>3. CASE AuthorStep \/ HookStep \/ UNCHANGED allVaultVars
  BY <1>3 DEF AuthorStep, VerifyAuthor, SetTweetAttestor, HookStep, vaultVars, allVaultVars
<1>4. CASE \E m \in Markets : ModulePull(m)
  BY <1>4 DEF ModulePull
<1>5. QED
  BY <1>1, <1>2, <1>3, <1>4 DEF VaultNext, VaultStep

\* FeeVault.reclaimExpiredAuthor and claimAuthor: whatever happens in between, what is
\* set aside for a tweet author is paid to the wallet bound to the coin, or to the
\* treasury after the lock.
THEOREM AuthorReserveStaysLocked == VaultSpec => AuthorReserveLocked
<1>1. VaultInit => LockFromLaunch
  BY DEF VaultInit, LockFromLaunch, NoTweet
<1>2. VaultInv /\ LockFromLaunch /\ [VaultNext]_allVaultVars =>
        LockFromLaunch' /\ [ReserveToWhom /\ PayeeStays]_allVaultVars
  BY StepKeepsLock, ReserveStep, PayeeStep
<1>3. QED
  BY <1>1, <1>2, VaultInvariant, PTL DEF VaultSpec, AuthorReserveLocked

-----------------------------------------------------------------------------
\* The author's share.  Every credit rounds the author's part down, by less than
\* one unit; the history starts with the attribution, whose share never changes.

NoHistory == [base |-> 0, accrued |-> 0, credits |-> 0]
Honoured(h, share) == h.base * share - h.accrued * BPS \in 0 .. h.credits * (BPS - 1)

AuthorBooks ==
    /\ authorHistory \in [Coins -> [Quotes -> [base : Nat, accrued : Nat, credits : Nat]]]
    /\ \A c \in Coins, q \in Quotes :
          IF attribution[c].share = 0 THEN authorHistory[c][q] = NoHistory
          ELSE Honoured(authorHistory[c][q], attribution[c].share)

\* What one credit adds, and what it rounds down.
LEMMA CreditRounds ==
  ASSUME NEW creator \in Nat, NEW share \in Nat
  PROVE  LET author == (creator * share) \div BPS
         IN  /\ author \in Nat
             /\ creator * share - author * BPS \in 0 .. BPS - 1
<1> DEFINE product == creator * share
           author == product \div BPS
<1>1. product \in Nat
  OBVIOUS
<1> HIDE DEF product
<1>2. author \in Nat /\ product - author * BPS \in 0 .. BPS - 1
  BY <1>1, BPSAssumption
<1> QED
  BY <1>2 DEF product

LEMMA RoundingAdds ==
  ASSUME NEW base \in Nat, NEW accrued \in Nat, NEW credits \in Nat, NEW share \in Nat,
         NEW creator \in Nat, NEW author \in Nat, NEW more \in {0, 1},
         base * share - accrued * BPS \in 0 .. credits * (BPS - 1),
         creator * share - author * BPS \in 0 .. more * (BPS - 1)
  PROVE  (base + creator) * share - (accrued + author) * BPS
             \in 0 .. (credits + more) * (BPS - 1)
<1> DEFINE u == base * share
           v == accrued * BPS
           w == creator * share
           x == author * BPS
           y == credits * (BPS - 1)
           z == more * (BPS - 1)
<1>1. (base + creator) * share = u + w /\ (accrued + author) * BPS = v + x
      /\ (credits + more) * (BPS - 1) = y + z
  BY BPSAssumption
<1>2. u \in Nat /\ v \in Nat /\ w \in Nat /\ x \in Nat /\ y \in Nat /\ z \in Nat
  BY BPSAssumption
<1>3. u - v \in 0 .. y /\ w - x \in 0 .. z
  OBVIOUS
<1> HIDE DEF u, v, w, x, y, z
<1>4. (u + w) - (v + x) \in 0 .. y + z
  BY <1>2, <1>3
<1> QED
  BY <1>1, <1>4

\* A fee of zero leaves nothing for the creator.
LEMMA NothingToShare ==
  ASSUME NEW terms \in PoolConfig, NEW referrer
  PROVE  Shares(0, terms, referrer).creator = 0
<1>1. terms.platformShareBps \in Nat /\ terms.creatorKeepBps \in Nat
  BY BPSAssumption DEF PoolConfig
<1>2. 0 * terms.platformShareBps = 0 /\ 0 * terms.creatorKeepBps = 0 /\ 0 \div BPS = 0
  BY <1>1, BPSAssumption
<1> QED
  BY <1>2 DEF Shares, Split

\* Collect under the attribution the coin ends up with.
LEMMA CollectHonours ==
  ASSUME VaultTypeOK, AuthorBooks, NEW coin \in Coins, NEW terms \in PoolConfig,
         NEW attr, attr.share \in 0 .. BPS, NEW fees \in Amount,
         NEW referrer \in Accounts \cup {NoAccount},
         Collect(coin, terms, attr, fees, referrer),
         attribution'[coin].share = attr.share,
         attribution[coin].share # attr.share => attribution[coin].share = 0,
         \A c \in Coins \ {coin} : attribution'[c].share = attribution[c].share
  PROVE  AuthorBooks'
<1> DEFINE share == [q \in Quotes |-> Shares(fees[q], terms, referrer)]
           author == [q \in Quotes |-> AuthorPart(share[q].creator, attr)]
           Next1(h, q) == [base |-> h.base + share[q].creator,
                           accrued |-> h.accrued + author[q],
                           credits |-> IF fees[q] = 0 THEN h.credits ELSE h.credits + 1]
<1>1. authorHistory' = IF attr.share = 0 THEN authorHistory
                       ELSE [authorHistory EXCEPT ![coin] =
                                [q \in Quotes |-> Next1(authorHistory[coin][q], q)]]
  BY DEF Collect, Shares
<1>2. \A q \in Quotes : share[q].creator \in Nat
  BY SharesExact DEF Amount, IsSplitOf
<1>3. attr.share \in Nat
  BY BPSAssumption
<1>4. ASSUME NEW q \in Quotes
      PROVE  /\ author[q] \in Nat
             /\ share[q].creator * attr.share - author[q] * BPS
                  \in 0 .. (IF fees[q] = 0 THEN 0 ELSE 1) * (BPS - 1)
  <2> DEFINE creator == share[q].creator
  <2>1. creator \in Nat /\ author[q] = (creator * attr.share) \div BPS
    BY <1>2 DEF AuthorPart
  <2>2. fees[q] = 0 => creator = 0
    BY NothingToShare
  <2> HIDE DEF creator, author, share
  <2>3. author[q] \in Nat /\ creator * attr.share - author[q] * BPS \in 0 .. BPS - 1
    BY <2>1, <1>3, CreditRounds
  <2>4. CASE fees[q] # 0
    BY <2>3, <2>4, BPSAssumption DEF creator
  <2>5. CASE fees[q] = 0
    <3>1. creator = 0 /\ creator * attr.share = 0
      BY <2>2, <2>5, <1>3
    <3>2. author[q] = 0
      BY <2>1, <3>1, BPSAssumption
    <3> QED
      BY <3>1, <3>2, <2>5, BPSAssumption DEF creator
  <2> QED
    BY <2>3, <2>4, <2>5
<1> HIDE DEF share, author
<1> DEFINE Entry == [base : Nat, accrued : Nat, credits : Nat]
<1>5. ASSUME NEW q \in Quotes
      PROVE  /\ Next1(authorHistory[coin][q], q) \in Entry
             /\ attr.share # 0 => Honoured(Next1(authorHistory[coin][q], q), attr.share)
  <2> DEFINE h == authorHistory[coin][q]
             more == IF fees[q] = 0 THEN 0 ELSE 1
  <2>1. h \in Entry
    BY DEF AuthorBooks
  <2>2. h.base \in Nat /\ h.accrued \in Nat /\ h.credits \in Nat /\ more \in {0, 1}
    BY <2>1
  <2>3. attr.share # 0 => Honoured(h, attr.share)
    <3>1. CASE attribution[coin].share = 0
      <4>1. h = NoHistory
        BY <3>1 DEF AuthorBooks
      <4>2. h.base = 0 /\ h.accrued = 0 /\ h.credits = 0
        BY <4>1 DEF NoHistory
      <4> QED
        BY <4>2, <1>3, BPSAssumption DEF Honoured
    <3>2. CASE attribution[coin].share # 0
      <4>1. attribution[coin].share = attr.share
        BY <3>2
      <4> QED
        BY <3>2, <4>1 DEF AuthorBooks
    <3> QED
      BY <3>1, <3>2
  <2>4. Next1(h, q) \in Entry /\ Next1(h, q).base = h.base + share[q].creator
        /\ Next1(h, q).accrued = h.accrued + author[q] /\ Next1(h, q).credits = h.credits + more
    BY <2>2, <1>2, <1>4
  <2> HIDE DEF h, more, Next1, Entry
  <2>5. ASSUME attr.share # 0 PROVE Honoured(Next1(h, q), attr.share)
    <3>1. h.base * attr.share - h.accrued * BPS \in 0 .. h.credits * (BPS - 1)
      BY <2>3, <2>5 DEF Honoured
    <3>2. share[q].creator * attr.share - author[q] * BPS \in 0 .. more * (BPS - 1)
      BY <1>4 DEF more
    <3>3. (h.base + share[q].creator) * attr.share - (h.accrued + author[q]) * BPS
              \in 0 .. (h.credits + more) * (BPS - 1)
      BY <2>2, <1>2, <1>3, <1>4, <3>1, <3>2, RoundingAdds
    <3> QED
      BY <2>4, <3>3 DEF Honoured
  <2> QED
    BY <2>4, <2>5 DEF h
<1> HIDE DEF Next1
<1>6. authorHistory' \in [Coins -> [Quotes -> Entry]]
  BY <1>1, <1>5 DEF AuthorBooks
<1> SUFFICES ASSUME NEW c \in Coins, NEW q \in Quotes
             PROVE  IF attribution'[c].share = 0 THEN authorHistory'[c][q] = NoHistory
                    ELSE Honoured(authorHistory'[c][q], attribution'[c].share)
  BY <1>6 DEF AuthorBooks, Honoured
<1>7. CASE c # coin
  <2>1. authorHistory'[c] = authorHistory[c] /\ attribution'[c].share = attribution[c].share
    BY <1>1, <1>7 DEF AuthorBooks
  <2> QED
    BY <2>1 DEF AuthorBooks
<1>8. CASE c = coin /\ attr.share = 0
  <2>1. authorHistory' = authorHistory /\ attribution[c].share = 0
    BY <1>1, <1>8
  <2> QED
    BY <2>1, <1>8 DEF AuthorBooks
<1>9. CASE c = coin /\ attr.share # 0
  <2>1. authorHistory'[c][q] = Next1(authorHistory[coin][q], q)
    BY <1>1, <1>9 DEF AuthorBooks
  <2> QED
    BY <2>1, <1>5, <1>9
<1> QED
  BY <1>7, <1>8, <1>9

\* A step that credits nobody and keeps the shares.
LEMMA BooksKept ==
  ASSUME AuthorBooks, authorHistory' = authorHistory,
         \A c \in Coins : attribution'[c].share = attribution[c].share
  PROVE  AuthorBooks'
BY DEF AuthorBooks, Honoured

LEMMA StepHonours ==
  ASSUME VaultInv, LockFromLaunch, AuthorBooks, [VaultNext]_allVaultVars
  PROVE  AuthorBooks'
<1>1. ASSUME NEW p \in LaunchPlans, NEW buys \in [p.quotes -> TradeSizes \cup {0}],
             Launch(p, buys)
      PROVE  AuthorBooks'
  <2> DEFINE fees == FirstBuyFees(p, buys)
  <2>1. /\ p.coin \in Coins /\ TermsOf(p) \in PoolConfig /\ fees \in Amount
        /\ AttributionOf(p).share \in 0 .. BPS
    BY LaunchCollects
  <2>2. /\ Collect(p.coin, TermsOf(p), AttributionOf(p), fees, NoAccount)
        /\ attribution' = [attribution EXCEPT ![p.coin] = AttributionOf(p)]
        /\ ~Known(p.coin)
    BY <1>1 DEF Launch, RegisterPools
  <2> HIDE DEF fees
  <2>3. attribution[p.coin].share = 0
    BY <2>1, <2>2 DEF LockFromLaunch
  <2>4. /\ attribution'[p.coin] = AttributionOf(p)
        /\ \A c \in Coins \ {p.coin} : attribution'[c] = attribution[c]
    BY <2>1, <2>2 DEF VaultInv, VaultTypeOK
  <2> QED
    BY <2>1, <2>2, <2>3, <2>4, CollectHonours DEF VaultInv
<1>2. ASSUME NEW m \in Markets, NEW exactIn \in BOOLEAN, NEW size \in TradeSizes,
             NEW referrer \in Accounts \cup {NoAccount}, Trade(m, exactIn, size, referrer)
      PROVE  AuthorBooks'
  <2> DEFINE fees == FeesOf(m[2], TradeFee(m, exactIn, size))
  <2>1. /\ m[1] \in Coins /\ pools[m] \in PoolConfig /\ fees \in Amount
        /\ attribution[m[1]].share \in 0 .. BPS
    BY <1>2, TradeCollects DEF Trade
  <2>2. Collect(m[1], pools[m], attribution[m[1]], fees, referrer) /\ attribution' = attribution
    BY <1>2 DEF Trade
  <2> HIDE DEF fees
  <2> QED
    BY <2>1, <2>2, CollectHonours DEF VaultInv
<1>3. CASE UNCHANGED <<attribution, authorHistory>>
  BY <1>3, BooksKept
<1>4. ASSUME NEW a \in Attestations, VerifyAuthor(a) PROVE AuthorBooks'
  <2>1. \A c \in Coins : attribution'[c].share = attribution[c].share
    BY <1>4 DEF VerifyAuthor, VaultInv, VaultTypeOK
  <2> QED
    BY <1>4, <2>1, BooksKept DEF VerifyAuthor
<1> QED
  <2>1. CASE FeeStep
    BY <2>1, <1>1, <1>2 DEF FeeStep
  <2>2. CASE ClaimStep
    BY <2>2, <1>3 DEF ClaimStep, ClaimCreator, ClaimCreatorMany, ClaimReferral, ClaimPlatform,
       ClaimAuthor, ReclaimExpiredAuthor, PayAuthorBalance, PayNext
  <2>3. CASE AuthorStep \/ HookStep
    BY <2>3, <1>3, <1>4 DEF AuthorStep, SetTweetAttestor, HookStep, vaultVars
  <2>4. CASE \E m \in Markets : ModulePull(m)
    BY <2>4, <1>3 DEF ModulePull
  <2>5. CASE UNCHANGED allVaultVars
    BY <2>5, <1>3 DEF allVaultVars, vaultVars
  <2> QED
    BY <2>1, <2>2, <2>3, <2>4, <2>5 DEF VaultNext, VaultStep

\* FeeVault.credit: since launch, first buys included, a tweet author was credited
\* the disclosed share of everything that went to the creator side, within the
\* fraction of a unit each credit rounds down, at every share, size and scale.
THEOREM AuthorShareAlwaysHonoured == VaultSpec => []AuthorShareHonoured
<1>1. ASSUME VaultInit PROVE LockFromLaunch /\ AuthorBooks
  <2>1. LockFromLaunch
    BY <1>1 DEF VaultInit, LockFromLaunch, NoTweet
  <2>2. authorHistory = [c \in Coins |-> [q \in Quotes |-> NoHistory]]
        /\ attribution = [c \in Coins |-> NoTweet]
    BY <1>1 DEF VaultInit, NoHistory
  <2> QED
    BY <2>1, <2>2 DEF AuthorBooks, NoHistory, NoTweet
<1>2. VaultInv /\ LockFromLaunch /\ AuthorBooks /\ [VaultNext]_allVaultVars
        => LockFromLaunch' /\ AuthorBooks'
  BY StepKeepsLock, StepHonours
<1>3. AuthorBooks => AuthorShareHonoured
  BY DEF AuthorBooks, AuthorShareHonoured, Honoured
<1> QED
  BY <1>1, <1>2, <1>3, VaultInvariant, PTL DEF VaultSpec

-----------------------------------------------------------------------------
\* FeeVault implements FeeEscrow, the promise its modules are modelled on: every
\* step accrues shares, is a pull, or is not seen by the modules.  Two facts carry
\* the proof.  A market's module never changes once it is registered, because no
\* handler touches the mode of a pool.  And a fee leaves a destination share only
\* where the mode has a module, because Split gives all of a creator coin's rest
\* to its creator.

\* The refinement mapping, market by market.
ModuleAt(m) == IF Registered(m) THEN ModuleOf(m) ELSE "none"
ShareOf(m) == destinationPending[m[1]][m[2]]
Modules == Holders \ {Vault}

\* Every market but those of creator coins has a module.
HasModule(m) == ModuleAt(m) # "none" <=> Registered(m) /\ pools[m].mode # "CREATOR"

LEMMA ModuleAtType ==
  ASSUME HookTypeOK, NEW m \in Markets
  PROVE  ModuleAt(m) \in Modules \cup {"none"} /\ HasModule(m)
<1>1. Registered(m) => pools[m].mode \in Modes
  BY RegisteredType DEF PoolConfig
<1>2. Registered(m) => /\ ModuleOf(m) \in Modules \cup {"none"}
                       /\ ModuleOf(m) # "none" <=> pools[m].mode # "CREATOR"
  BY <1>1 DEF ModuleOf, ModuleOfMode, Modes, Modules, Holders, Vault
<1>3. QED
  BY <1>2 DEF ModuleAt, HasModule

\* The same of the next state.
ModulesAssigned == \A m \in Markets : ModuleAt(m) \in Modules \cup {"none"} /\ HasModule(m)

LEMMA ModulesAssignedNow == HookTypeOK => ModulesAssigned
BY ModuleAtType DEF ModulesAssigned

LEMMA ModuleAtTypeNext ==
  ASSUME HookTypeOK'
  PROVE  \A m \in Markets : (ModuleAt(m) \in Modules \cup {"none"})' /\ HasModule(m)'
<1>1. (HookTypeOK => ModulesAssigned)'
  BY ModulesAssignedNow, PTL
<1>2. QED
  BY <1>1 DEF ModulesAssigned

LEMMA ShareType ==
  ASSUME VaultTypeOK, NEW m \in Markets
  PROVE  ShareOf(m) \in Nat /\ m = <<m[1], m[2]>> /\ m[1] \in Coins /\ m[2] \in Quotes
BY DEF VaultTypeOK, ShareOf, Markets, Amount

-----------------------------------------------------------------------------
\* What a step has to do to be one of FeeEscrow's

AccruesAt(m) ==
    /\ ModuleAt(m) # "none" => ModuleAt(m)' = ModuleAt(m)
    /\ ShareOf(m)' >= ShareOf(m)
    /\ ShareOf(m)' > ShareOf(m) => ModuleAt(m)' # "none"

LEMMA AccrueByMarket ==
  ASSUME HookTypeOK', VaultTypeOK', \A m \in Markets : AccruesAt(m),
         \A h \in Modules : claims'[h] = claims[h]
  PROVE  Escrow!Accrue
<1>1. \A m \in Markets : /\ (ModuleAt(m) \in Modules \cup {"none"})'
                         /\ (ShareOf(m) \in Nat)'
  <2>1. \A m \in Markets : (ModuleAt(m) \in Modules \cup {"none"})'
    BY ModuleAtTypeNext
  <2>2. ASSUME NEW m \in Markets PROVE (VaultTypeOK => ShareOf(m) \in Nat)'
    BY ShareType, PTL
  <2>3. QED
    BY <2>1, <2>2
<1>2. QED
  BY <1>1 DEF Escrow!Accrue, Escrow!Markets, Markets, AccruesAt, ModuleAt, ShareOf, Modules

\* A step the modules do not see.
Unseen ==
    /\ \A m \in Markets : ModuleAt(m)' = ModuleAt(m) /\ ShareOf(m)' = ShareOf(m)
    /\ \A h \in Modules : claims'[h] = claims[h]

LEMMA UnseenStutters ==
  ASSUME Unseen
  PROVE  UNCHANGED Escrow!escrowVars
BY DEF Unseen, Escrow!escrowVars, ModuleAt, ShareOf, Modules

-----------------------------------------------------------------------------
\* Steps that collect fees

\* Where a fee leaves a destination share.
LEMMA DestinationShare ==
  ASSUME NEW fee \in Nat, NEW terms \in PoolConfig, NEW referrer
  PROVE  /\ Shares(fee, terms, referrer).destination \in Nat
         /\ Shares(fee, terms, referrer).destination # 0 => fee # 0 /\ terms.mode # "CREATOR"
<1> DEFINE s == Shares(fee, terms, referrer)
<1>1. /\ s.platform \in Nat /\ s.referral \in Nat /\ s.creator \in Nat /\ s.destination \in Nat
      /\ s.platform + s.referral + s.creator + s.destination = fee
  BY SharesExact DEF IsSplitOf
<1>2. terms.mode = "CREATOR" => s.destination = s.creator - s.creator
  BY DEF Shares, Split
<1> HIDE DEF s
<1>3. s.destination # 0 => fee # 0
  BY <1>1
<1>4. terms.mode = "CREATOR" => s.destination = 0
  BY <1>1, <1>2
<1>5. QED
  BY <1>1, <1>3, <1>4 DEF s

LEMMA CollectShares ==
  ASSUME VaultTypeOK, NEW coin \in Coins, NEW terms \in PoolConfig, NEW attr,
         NEW fees \in Amount, NEW referrer \in Accounts \cup {NoAccount},
         Collect(coin, terms, attr, fees, referrer), NEW m \in Markets
  PROVE  /\ ShareOf(m)' >= ShareOf(m)
         /\ ShareOf(m)' > ShareOf(m) =>
              m[1] = coin /\ fees[m[2]] # 0 /\ terms.mode # "CREATOR"
<1> DEFINE n == Shares(fees[m[2]], terms, referrer).destination
<1>1. /\ ShareOf(m) \in Nat /\ m[1] \in Coins /\ m[2] \in Quotes
      /\ fees[m[2]] \in Nat
  BY ShareType DEF Amount
<1>2. n \in Nat /\ (n # 0 => fees[m[2]] # 0 /\ terms.mode # "CREATOR")
  BY <1>1, DestinationShare
<1>3. ShareOf(m)' = IF m[1] = coin THEN ShareOf(m) + n ELSE ShareOf(m)
  BY <1>1 DEF Collect, ShareOf, Shares, VaultTypeOK
<1> HIDE DEF n
<1>4. QED
  BY <1>1, <1>2, <1>3

LEMMA CollectKeepsModules ==
  ASSUME VaultTypeOK, NEW coin, NEW terms, NEW attr, NEW fees, NEW referrer,
         Collect(coin, terms, attr, fees, referrer), NEW h \in Modules
  PROVE  claims'[h] = claims[h]
BY DEF Collect, VaultTypeOK, Modules

LEMMA LaunchAccrues ==
  ASSUME VaultInv, NEW p \in LaunchPlans, NEW buys \in [p.quotes -> TradeSizes \cup {0}],
         Launch(p, buys)
  PROVE  Escrow!Accrue
<1> DEFINE fees == FirstBuyFees(p, buys)
<1>1. /\ p.coin \in Coins /\ fees \in Amount /\ TermsOf(p) \in PoolConfig
  BY LaunchCollects
<1>2. /\ RegisterPools(p) /\ Collect(p.coin, TermsOf(p), AttributionOf(p), fees, NoAccount)
      /\ \A q \in Quotes : fees[q] # 0 => q \in p.quotes
  BY DEF Launch, FirstBuyFees
<1> HIDE DEF fees
<1>3. /\ HookTypeOK /\ VaultTypeOK /\ OneSetOfTerms
      /\ HookTypeOK' /\ VaultTypeOK'
  BY LaunchInv DEF VaultInv, HookInv
<1>4. ASSUME NEW m \in Markets PROVE AccruesAt(m)
  <2>1. m[1] \in Coins /\ m[2] \in Quotes
    BY DEF Markets
  <2>2. ModuleAt(m) # "none" => ModuleAt(m)' = ModuleAt(m)
    <3>1. Registered(m) => m[1] # p.coin
      BY <1>1, <1>2, <1>3, <2>1 DEF RegisterPools, OneSetOfTerms, MarketsOf
    <3>2. m[1] # p.coin => pools'[m] = pools[m]
      BY <1>2 DEF RegisterPools
    <3>3. QED
      BY <3>1, <3>2 DEF ModuleAt, Registered, ModuleOf
  <2>3. m[1] = p.coin /\ m[2] \in p.quotes => pools'[m] = TermsOf(p)
    BY <1>2 DEF RegisterPools
  <2>4. HasModule(m)'
    BY <1>3, ModuleAtTypeNext
  <2>5. ShareOf(m)' > ShareOf(m) => ModuleAt(m)' # "none"
    <3>1. ShareOf(m)' > ShareOf(m) => m[1] = p.coin /\ m[2] \in p.quotes
                                       /\ TermsOf(p).mode # "CREATOR"
      BY <1>1, <1>2, <1>3, <2>1, CollectShares
    <3>2. m[1] = p.coin /\ m[2] \in p.quotes => Registered(m)'
      BY <1>1, <1>3, <2>3, RegisteredType DEF Registered, PoolConfig, NoPool, Modes
    <3>3. QED
      BY <1>3, <2>3, <2>4, <3>1, <3>2 DEF HasModule
  <2>6. ShareOf(m)' >= ShareOf(m)
    BY <1>1, <1>2, <1>3, CollectShares
  <2>7. QED
    BY <2>2, <2>5, <2>6 DEF AccruesAt
<1>5. \A h \in Modules : claims'[h] = claims[h]
  BY <1>2, <1>3, CollectKeepsModules
<1>6. QED
  BY <1>3, <1>4, <1>5, AccrueByMarket

LEMMA TradeAccrues ==
  ASSUME VaultInv, NEW m \in Markets, NEW exactIn \in BOOLEAN, NEW size \in TradeSizes,
         NEW referrer \in Accounts \cup {NoAccount}, Trade(m, exactIn, size, referrer)
  PROVE  Escrow!Accrue
<1> DEFINE fees == FeesOf(m[2], TradeFee(m, exactIn, size))
<1>1. m[1] \in Coins /\ pools[m] \in PoolConfig /\ fees \in Amount
  BY TradeCollects DEF Trade
<1>2. /\ Collect(m[1], pools[m], attribution[m[1]], fees, referrer)
      /\ UNCHANGED hookVars /\ Registered(m)
      /\ \A q \in Quotes : fees[q] # 0 => q = m[2]
  BY DEF Trade, FeesOf
<1> HIDE DEF fees
<1>3. HookTypeOK /\ VaultTypeOK /\ HookTypeOK' /\ VaultTypeOK'
  BY TradeInv DEF VaultInv, HookInv
<1>4. ASSUME NEW n \in Markets PROVE AccruesAt(n)
  <2>1. ModuleAt(n)' = ModuleAt(n)
    BY <1>2 DEF hookVars, ModuleAt, Registered, ModuleOf
  <2>2. /\ ShareOf(n)' >= ShareOf(n)
        /\ ShareOf(n)' > ShareOf(n) => n[1] = m[1] /\ fees[n[2]] # 0 /\ pools[m].mode # "CREATOR"
    BY <1>1, <1>2, <1>3, CollectShares
  <2>3. ShareOf(n)' > ShareOf(n) => n = m
    BY <1>2, <2>2 DEF Markets
  <2>4. HasModule(m)
    BY <1>3, ModuleAtType
  <2>5. QED
    BY <1>2, <2>1, <2>2, <2>3, <2>4 DEF AccruesAt, HasModule
<1>5. \A h \in Modules : claims'[h] = claims[h]
  BY <1>2, <1>3, CollectKeepsModules
<1>6. QED
  BY <1>3, <1>4, <1>5, AccrueByMarket

-----------------------------------------------------------------------------
\* Steps the modules do not see

LEMMA QuietIsUnseen ==
  ASSUME pools' = pools, destinationPending' = destinationPending,
         \A h \in Modules : claims'[h] = claims[h]
  PROVE  Unseen
BY DEF Unseen, ModuleAt, ShareOf, Registered, ModuleOf

LEMMA ClaimUnseen ==
  ASSUME VaultTypeOK, ClaimStep
  PROVE  Unseen
<1>1. /\ UNCHANGED <<hookVars, destinationPending>>
      /\ claims' = claims \/ \E n : claims' = [claims EXCEPT ![Vault] = n]
  BY DEF ClaimStep, ClaimCreator, ClaimAuthor, ReclaimExpiredAuthor, PayAuthorBalance,
         ClaimCreatorMany, ClaimReferral, ClaimPlatform, PayNext, ledgers
<1>2. \A h \in Modules : claims'[h] = claims[h]
  BY <1>1 DEF VaultTypeOK, Modules
<1>3. QED
  BY <1>1, <1>2, QuietIsUnseen DEF hookVars

LEMMA AuthorUnseen ==
  ASSUME AuthorStep
  PROVE  Unseen
BY QuietIsUnseen DEF AuthorStep, VerifyAuthor, SetTweetAttestor, hookVars, ledgers

LEMMA LowerFeeUnseen ==
  ASSUME HookTypeOK, NEW caller, NEW coin \in Coins, NEW fee \in 0 .. BPS,
         LowerFee(caller, coin, fee), UNCHANGED vaultVars
  PROVE  Unseen
<1>1. ASSUME NEW m \in Markets PROVE ModuleAt(m)' = ModuleAt(m)
  <2>1. Registered(m) <=> pools[m] \in PoolConfig
    BY RegisteredType
  <2>2. pools'[m] = pools[m] \/ (Registered(m) /\ pools'[m] = [pools[m] EXCEPT !.feeBps = fee])
    BY DEF LowerFee, MarketsOf
  <2>3. pools[m] \in PoolConfig =>
          LET lowered == [pools[m] EXCEPT !.feeBps = fee]
          IN  lowered # NoPool /\ lowered.mode = pools[m].mode
    BY DEF PoolConfig, NoPool, Modes
  <2>4. QED
    BY <2>1, <2>2, <2>3 DEF ModuleAt, Registered, ModuleOf
<1>2. QED
  BY <1>1 DEF Unseen, ShareOf, vaultVars

LEMMA HookUnseen ==
  ASSUME HookTypeOK, CreatorStep \/ Tick, UNCHANGED vaultVars
  PROVE  Unseen
<1>1. CASE \E coin \in Coins, caller \in Accounts, fee \in 0 .. BPS : LowerFee(caller, coin, fee)
  BY <1>1, LowerFeeUnseen
<1>2. CASE pools' = pools
  BY <1>2, QuietIsUnseen DEF vaultVars
<1>3. QED
  BY <1>1, <1>2 DEF CreatorStep, ProposeCreator, AcceptCreator, Tick

LEMMA StillUnseen ==
  ASSUME UNCHANGED allVaultVars
  PROVE  Unseen
BY QuietIsUnseen DEF allVaultVars, hookVars, vaultVars

-----------------------------------------------------------------------------
\* Pulls

LEMMA PullIsPull ==
  ASSUME VaultTypeOK, HookTypeOK, NEW m \in Markets, Registered(m),
         ModuleOf(m) \in Modules, PullDestination(ModuleOf(m), {m}), UNCHANGED hookVars
  PROVE  Escrow!Pull(m)
<1> DEFINE h == ModuleOf(m)
           before == [x \in Modules |-> claims[x]]
           after == [x \in Modules |-> claims'[x]]
<1>1. /\ m = <<m[1], m[2]>> /\ m[1] \in Coins /\ m[2] \in Quotes
      /\ destinationPending \in [Coins -> Amount] /\ claims \in [Holders -> Amount]
  BY DEF Markets, VaultTypeOK
<1>2. /\ h \in Modules /\ h \in Holders /\ h # Vault /\ h # "none"
      /\ ModuleAt(m) = h
  BY DEF ModuleAt, Modules, Holders
<1>3. \A n \in Markets : ModuleAt(n)' = ModuleAt(n)
  BY DEF hookVars, ModuleAt, Registered, ModuleOf
<1>4. [n \in Markets |-> ShareOf(n)'] = [[n \in Markets |-> ShareOf(n)] EXCEPT ![m] = 0]
  <2>1. \A n \in Markets : ShareOf(n)' = IF n = m THEN 0 ELSE ShareOf(n)
    BY <1>1 DEF ShareOf, PullDestination, Markets, Amount
  <2>2. QED
    BY <2>1
<1>5. \A q \in Quotes : PulledIn({m}, q) = IF q = m[2] THEN ShareOf(m) ELSE 0
  BY <1>1, PulledOne DEF ShareOf
<1>6. after = [before EXCEPT ![h][m[2]] = @ + ShareOf(m)]
  <2>1. claims' = [claims EXCEPT ![Vault] = [q \in Quotes |-> @[q] - PulledIn({m}, q)],
                                 ![h] = [q \in Quotes |-> @[q] + PulledIn({m}, q)]]
    BY DEF PullDestination
  <2>2. \A x \in Modules : claims'[x] = IF x = h
                         THEN [q \in Quotes |-> claims[h][q] + PulledIn({m}, q)] ELSE claims[x]
    BY <1>1, <1>2, <2>1 DEF Modules
  <2>3. [q \in Quotes |-> claims[h][q] + PulledIn({m}, q)]
          = [claims[h] EXCEPT ![m[2]] = @ + ShareOf(m)]
    <3> DEFINE was == claims[h]
               add == [q \in Quotes |-> PulledIn({m}, q)]
    <3>1. was \in [Quotes -> Nat] /\ m[2] \in Quotes /\ ShareOf(m) \in Nat
      BY <1>1, <1>2, ShareType DEF Amount
    <3>2. \A q \in Quotes : add[q] = IF q = m[2] THEN ShareOf(m) ELSE 0
      BY <1>5
    <3> HIDE DEF was, add
    <3>3. [q \in Quotes |-> was[q] + add[q]] = [was EXCEPT ![m[2]] = @ + ShareOf(m)]
      <4>1. \A q \in Quotes : was[q] + add[q] = IF q = m[2] THEN was[q] + ShareOf(m) ELSE was[q]
        BY <3>1, <3>2
      <4>2. QED
        BY <3>1, <4>1
    <3>4. QED
      BY <3>3 DEF was, add
  <2>4. QED
    BY <1>2, <2>2, <2>3
<1>7. QED
  BY <1>1, <1>2, <1>3, <1>4, <1>6
     DEF Escrow!Pull, Escrow!Markets, Markets, ModuleAt, ShareOf, Modules

-----------------------------------------------------------------------------
\* The refinement

LEMMA EscrowStarts ==
  ASSUME VaultInit
  PROVE  Escrow!EscrowInit
BY DEF VaultInit, HookInit, Zero, Escrow!EscrowInit, Escrow!Markets, Markets, Registered

LEMMA VaultStepSeen ==
  ASSUME VaultInv, VaultStep
  PROVE  Escrow!Accrue \/ Unseen
<1>1. HookTypeOK /\ VaultTypeOK
  BY DEF VaultInv, HookInv
<1>2. CASE FeeStep
  BY <1>2, LaunchAccrues, TradeAccrues DEF FeeStep
<1>3. CASE ClaimStep
  BY <1>1, <1>3, ClaimUnseen
<1>4. CASE AuthorStep
  BY <1>4, AuthorUnseen
<1>5. CASE HookStep
  BY <1>1, <1>5, HookUnseen DEF HookStep
<1>6. QED
  BY <1>2, <1>3, <1>4, <1>5 DEF VaultStep

LEMMA EscrowSteps ==
  ASSUME VaultInv, [VaultNext]_allVaultVars
  PROVE  [Escrow!EscrowNext]_(Escrow!escrowVars)
<1>1. HookTypeOK /\ VaultTypeOK
  BY DEF VaultInv, HookInv
<1>2. CASE VaultStep
  BY <1>2, VaultStepSeen, UnseenStutters DEF Escrow!EscrowNext
<1>3. ASSUME NEW m \in Markets, ModulePull(m) PROVE Escrow!EscrowNext
  <2>1. /\ Registered(m) /\ ModuleOf(m) # "none" /\ UNCHANGED hookVars
        /\ PullDestination(ModuleOf(m), {m})
    BY <1>3 DEF ModulePull
  <2>2. ModuleOf(m) \in Modules
    BY <1>1, <2>1, ModuleAtType DEF ModuleAt
  <2>3. Escrow!Pull(m)
    BY <1>1, <2>1, <2>2, PullIsPull
  <2>4. QED
    BY <2>3 DEF Escrow!EscrowNext, Escrow!Markets, Markets
<1>4. CASE UNCHANGED allVaultVars
  BY <1>4, StillUnseen, UnseenStutters
<1>5. QED
  BY <1>2, <1>3, <1>4 DEF VaultNext

\* FeeVault implements FeeEscrow: whatever is launched, traded, claimed and
\* handed over, a market's share leaves the vault whole and only to the module
\* the market was registered with, that module never changes, and a creator coin
\* accumulates none.
THEOREM VaultImplementsEscrow == VaultSpec => ImplementsEscrow
<1>1. VaultInit => Escrow!EscrowInit
  BY EscrowStarts
<1>2. VaultInv /\ [VaultNext]_allVaultVars => [Escrow!EscrowNext]_(Escrow!escrowVars)
  BY EscrowSteps
<1>3. VaultSpec => []VaultInv
  BY VaultInvariant
<1>4. QED
  BY <1>1, <1>2, <1>3, PTL DEF VaultSpec, ImplementsEscrow, Escrow!EscrowSpec

-----------------------------------------------------------------------------
\* The distributor

ClaimedWithinTotal ==
    \A e \in EpochIds, m \in Markets : epochClaimed[e][m] <= epochTotal[e][m]

PublishedInOrder ==
    \A e \in EpochIds :
        /\ Published(e) <=> e <= lastEpoch
        /\ ~Published(e) => \A m \in Markets : ~epochReleased[e][m]

LeavesMarked ==
    \A x \in paying \cup paid :
        /\ x \in EpochIds \X Leaf
        /\ x[2].index \in claimed[x[1]][x[2].market]
        /\ Published(x[1])
        /\ now >= epochs[x[1]].publishedAt + VetoWindow

PayingInPeriod ==
    \A x \in paying : /\ now <= epochs[x[1]].publishedAt + ClaimPeriod
                      /\ x[2].amount # 0

DistInv ==
    /\ VaultInv
    /\ DistTypeOK /\ IsFiniteSet(paid)
    /\ ClaimedWithinTotal
    /\ PublishedInOrder
    /\ LeavesMarked
    /\ PayingInPeriod
    /\ RewardsBacked
    /\ MarketBudget
    /\ PayoutsFromOpenEpochs
    /\ PaidOnce

-----------------------------------------------------------------------------
\* The books

Pots(q) == [m \in MarketsIn(q) |-> available[m]]
Held(q) == [k \in EpochIds \X MarketsIn(q) |-> Remaining(k[1], k[2])]
UnderWay(q) == {y \in paying : y[2].market[2] = q}
Owing(q) == [x \in UnderWay(q) |-> x[2].amount]

HeldFor(m) == [e \in EpochIds |-> Remaining(e, m)]
SpentOn(m) == {y \in paying \cup paid : y[2].market = m}
Spent(m) == [x \in SpentOn(m) |-> x[2].amount]

LEMMA FiniteMarkets ==
  /\ IsFiniteSet(Markets) /\ IsFiniteSet(EpochIds)
  /\ \A q \in Quotes : IsFiniteSet(MarketsIn(q)) /\ IsFiniteSet(EpochIds \X MarketsIn(q))
<1>1. IsFiniteSet(Markets)
  BY HookAssumption, FS_Product DEF Markets
<1>2. IsFiniteSet(EpochIds)
  BY DistributorAssumption, FS_Interval DEF EpochIds
<1>3. ASSUME NEW q \in Quotes
      PROVE  IsFiniteSet(MarketsIn(q)) /\ IsFiniteSet(EpochIds \X MarketsIn(q))
  <2>1. MarketsIn(q) \in SUBSET Markets
    BY DEF MarketsIn
  <2>2. IsFiniteSet(MarketsIn(q))
    BY <1>1, <2>1, FS_Subset
  <2>3. QED
    BY <1>2, <2>2, FS_Product
<1>4. QED
  BY <1>1, <1>2, <1>3

LEMMA RemainingType ==
  ASSUME DistTypeOK, ClaimedWithinTotal, NEW e \in EpochIds, NEW m \in Markets
  PROVE  Remaining(e, m) \in Nat
BY DEF DistTypeOK, ClaimedWithinTotal, Remaining

LEMMA BooksParts ==
  ASSUME DistTypeOK, ClaimedWithinTotal, NEW q \in Quotes
  PROVE  /\ Books(q) = Total(Pots(q)) + Total(Held(q)) + Total(Owing(q))
         /\ Pots(q) \in [MarketsIn(q) -> Nat]
         /\ Held(q) \in [EpochIds \X MarketsIn(q) -> Nat]
         /\ Owing(q) \in [UnderWay(q) -> Nat] /\ IsFiniteSet(UnderWay(q))
         /\ Total(Pots(q)) \in Nat /\ Total(Held(q)) \in Nat /\ Total(Owing(q)) \in Nat
<1>1. Pots(q) \in [MarketsIn(q) -> Nat]
  BY DEF Pots, MarketsIn, DistTypeOK
<1>2. Held(q) \in [EpochIds \X MarketsIn(q) -> Nat]
  BY RemainingType DEF Held, MarketsIn
<1>3. UnderWay(q) \in SUBSET paying /\ IsFiniteSet(paying)
  BY DEF UnderWay, DistTypeOK
<1>4. IsFiniteSet(UnderWay(q))
  BY <1>3, FS_Subset
<1>5. Owing(q) \in [UnderWay(q) -> Nat]
  BY DEF Owing, UnderWay, DistTypeOK, Leaf
<1>6. Total(Pots(q)) \in Nat /\ Total(Held(q)) \in Nat /\ Total(Owing(q)) \in Nat
  BY <1>1, <1>2, <1>4, <1>5, FiniteMarkets, TotalType
<1>7. QED
  BY <1>1, <1>2, <1>4, <1>5, <1>6 DEF Books, Pots, Held, Owing, UnderWay

LEMMA BudgetParts ==
  ASSUME DistTypeOK, ClaimedWithinTotal, LeavesMarked, IsFiniteSet(paid), NEW m \in Markets
  PROVE  /\ HeldFor(m) \in [EpochIds -> Nat]
         /\ Spent(m) \in [SpentOn(m) -> Nat] /\ IsFiniteSet(SpentOn(m))
         /\ available[m] \in Nat /\ pulled[m] \in Nat
         /\ Total(HeldFor(m)) \in Nat /\ Total(Spent(m)) \in Nat
<1>1. HeldFor(m) \in [EpochIds -> Nat]
  BY RemainingType DEF HeldFor
<1>2. SpentOn(m) \in SUBSET (paying \cup paid) /\ IsFiniteSet(paying \cup paid)
  BY FS_Union DEF SpentOn, DistTypeOK
<1>3. IsFiniteSet(SpentOn(m))
  BY <1>2, FS_Subset
<1>4. Spent(m) \in [SpentOn(m) -> Nat]
  BY DEF Spent, SpentOn, LeavesMarked, Leaf
<1>5. QED
  BY <1>1, <1>3, <1>4, FiniteMarkets, TotalType DEF DistTypeOK

\* MarketBudget of one market, in these terms.
WithinBudget(m) == pulled[m] = available[m] + Total(HeldFor(m)) + Total(Spent(m))
Backed(q) == claims[Distributor][q] = Total(Pots(q)) + Total(Held(q)) + Total(Owing(q))

LEMMA BudgetIsBudget == MarketBudget <=> \A m \in Markets : WithinBudget(m)
BY DEF MarketBudget, WithinBudget, HeldFor, Spent, SpentOn

LEMMA BackedIsBacked == RewardsBacked <=> \A q \in Quotes : Backed(q)
BY DEF RewardsBacked, Backed, Books, Pots, Held, Owing, UnderWay
-----------------------------------------------------------------------------
\* The vault's steps

LEMMA InsideIsVaultStep == InsidePayout => VaultStep /\ now' = now
<1>1. ASSUME NEW m \in Markets, NEW exactIn \in BOOLEAN, NEW size \in TradeSizes,
             Trade(m, exactIn, size, NoAccount)
      PROVE  VaultStep /\ now' = now
  BY <1>1 DEF VaultStep, FeeStep, Trade, hookVars
<1>2. CASE AuthorStep
  BY <1>2 DEF VaultStep, AuthorStep, VerifyAuthor, SetTweetAttestor, hookVars
<1>3. CASE CreatorStep /\ UNCHANGED vaultVars
  BY <1>3 DEF VaultStep, HookStep, CreatorStep, LowerFee, ProposeCreator, AcceptCreator
<1>4. QED
  BY <1>1, <1>2, <1>3 DEF InsidePayout

\* The vault's own steps leave the modules' claims alone, and time goes on.
LEMMA VaultStepHolds ==
  ASSUME VaultInv, VaultStep
  PROVE  /\ claims'[Distributor] = claims[Distributor]
         /\ now' \in Nat /\ now <= now'
<1>1. claims \in [Holders -> Amount] /\ now \in Nat /\ Distributor \in Holders \ {Vault}
  BY DEF VaultInv, VaultTypeOK, HookInv, HookTypeOK, Holders, Distributor, Vault
<1>2. CASE FeeStep
  <2>1. ASSUME NEW coin, NEW terms, NEW attr, NEW fees, NEW referrer,
               Collect(coin, terms, attr, fees, referrer)
        PROVE  claims'[Distributor] = claims[Distributor]
    BY <1>1, <2>1 DEF Collect
  <2>2. now' = now
    BY <1>2 DEF FeeStep, Launch, RegisterPools, Trade, hookVars
  <2>3. CASE \E p \in LaunchPlans : \E buys \in [p.quotes -> TradeSizes \cup {0}] :
                Launch(p, buys)
    BY <1>1, <2>1, <2>2, <2>3 DEF Launch
  <2>4. ASSUME NEW m \in Markets, NEW exactIn \in BOOLEAN, NEW size \in TradeSizes,
               NEW referrer \in Accounts \cup {NoAccount}, Trade(m, exactIn, size, referrer)
        PROVE  claims'[Distributor] = claims[Distributor]
    <3> DEFINE fees == FeesOf(m[2], TradeFee(m, exactIn, size))
    <3>1. Collect(m[1], pools[m], attribution[m[1]], fees, referrer)
      BY <2>4 DEF Trade
    <3>2. QED
      BY <3>1, <2>1
  <2>5. QED
    BY <1>1, <1>2, <2>2, <2>3, <2>4 DEF FeeStep
<1>3. CASE ClaimStep
  <2>1. now' = now
    BY <1>3 DEF ClaimStep, ClaimCreator, ClaimAuthor, ReclaimExpiredAuthor, PayAuthorBalance,
       ClaimCreatorMany, ClaimReferral, ClaimPlatform, PayNext, hookVars
  <2>2. CASE \E s \in Slots, q \in Quotes : PayNext(s, q)
    BY <1>1, <2>1, <2>2 DEF PayNext
  <2>3. CASE claims' = claims
    BY <1>1, <2>1, <2>3
  <2>4. QED
    BY <1>3, <2>2, <2>3 DEF ClaimStep, ClaimCreator, ClaimAuthor, ReclaimExpiredAuthor,
       PayAuthorBalance, ClaimCreatorMany, ClaimReferral, ClaimPlatform
<1>4. CASE AuthorStep
  <2>1. claims' = claims /\ now' = now
    BY <1>4 DEF AuthorStep, VerifyAuthor, SetTweetAttestor, hookVars
  <2>2. QED
    BY <1>1, <2>1
<1>5. CASE HookStep
  BY <1>1, <1>5 DEF HookStep, vaultVars, CreatorStep, LowerFee, ProposeCreator, AcceptCreator, Tick
<1>6. QED
  BY <1>2, <1>3, <1>4, <1>5 DEF VaultStep

\* What another module pulls goes to that module.
LEMMA OtherPullHolds ==
  ASSUME VaultInv, NEW m \in Markets, ModulePull(m), ModuleOf(m) # Distributor
  PROVE  claims'[Distributor] = claims[Distributor] /\ now' = now
BY DEF ModulePull, PullDestination, VaultInv, VaultTypeOK, Holders, Distributor, Vault, hookVars

LEMMA OtherInv ==
  ASSUME DistInv, OtherStep
  PROVE  DistInv'
<1> USE DEF DistInv
<1>1. /\ VaultInv' /\ claims'[Distributor] = claims[Distributor]
      /\ now' \in Nat /\ now <= now' /\ (paying # {} => now' = now)
  <2>1. now \in Nat
    BY DEF VaultInv, HookInv, HookTypeOK
  <2>2. CASE VaultStep /\ paying = {}
    BY <2>2, VaultStepInv, VaultStepHolds
  <2>3. CASE \E m \in Markets : ModulePull(m) /\ ModuleOf(m) # Distributor
    BY <2>1, <2>3, ModulePullInv, OtherPullHolds
  <2>4. CASE InsidePayout
    BY <2>1, <2>4, InsideIsVaultStep, VaultStepInv, VaultStepHolds
  <2>5. QED
    BY <2>2, <2>3, <2>4 DEF OtherStep
<1>2. UNCHANGED distVars
  BY DEF OtherStep
<1>3. DistTypeOK' /\ IsFiniteSet(paid)' /\ ClaimedWithinTotal' /\ PublishedInOrder'
  BY <1>2 DEF distVars, epochVars, DistTypeOK, ClaimedWithinTotal, PublishedInOrder, Published
<1>4. LeavesMarked' /\ PayingInPeriod'
  <2>1. now \in Nat
    BY DEF VaultInv, HookInv, HookTypeOK
  <2>2. \A x \in paying \cup paid : epochs[x[1]].publishedAt + VetoWindow \in Nat
    BY DistributorAssumption DEF LeavesMarked, Published, DistTypeOK, Epoch
  <2>3. UNCHANGED <<epochs, claimed, paying, paid>>
    BY <1>2 DEF distVars, epochVars
  <2>4. LeavesMarked'
    BY <1>1, <2>1, <2>2, <2>3 DEF LeavesMarked, Published
  <2>5. PayingInPeriod'
    BY <1>1, <2>3 DEF PayingInPeriod
  <2>6. QED
    BY <2>4, <2>5
<1>5. RewardsBacked' /\ MarketBudget' /\ PayoutsFromOpenEpochs' /\ PaidOnce'
  BY <1>1, <1>2 DEF distVars, epochVars, RewardsBacked, Books, Remaining, MarketBudget,
     PayoutsFromOpenEpochs, PaidOnce
<1>6. QED
  BY <1>1, <1>3, <1>4, <1>5

-----------------------------------------------------------------------------
\* How the totals move when one market's pot and one epoch's holding change

\* A step changes at most the pot of m and what e holds for m.
ChangesOnly(e, m) ==
    /\ \A n \in Markets \ {m} : available'[n] = available[n]
    /\ \A d \in EpochIds, n \in Markets :
          <<d, n>> # <<e, m>> => Remaining(d, n)' = Remaining(d, n)

LEMMA PotsMove ==
  ASSUME DistTypeOK, DistTypeOK', ClaimedWithinTotal, ClaimedWithinTotal',
         NEW e \in EpochIds, NEW m \in Markets, ChangesOnly(e, m)
  PROVE  /\ \A q \in Quotes \ {m[2]} : Pots(q)' = Pots(q) /\ Held(q)' = Held(q)
         /\ Total(Pots(m[2]))' = Total(Pots(m[2])) - available[m] + available'[m]
         /\ Total(Held(m[2]))' = Total(Held(m[2])) - Remaining(e, m) + Remaining(e, m)'
<1>1. ASSUME NEW q \in Quotes \ {m[2]}
      PROVE  Pots(q)' = Pots(q) /\ Held(q)' = Held(q)
  <2>1. \A n \in MarketsIn(q) : n \in Markets \ {m}
    BY DEF MarketsIn
  <2>2. Pots(q)' = Pots(q)
    BY <2>1 DEF Pots, ChangesOnly
  <2>3. \A k \in EpochIds \X MarketsIn(q) : Remaining(k[1], k[2])' = Remaining(k[1], k[2])
    BY <2>1 DEF ChangesOnly
  <2>4. Held(q)' = Held(q)
    BY <2>3 DEF Held
  <2>5. QED
    BY <2>2, <2>4
<1>2. m[2] \in Quotes /\ m \in MarketsIn(m[2])
  BY DEF Markets, MarketsIn
<1>3. Total(Pots(m[2]))' = Total(Pots(m[2])) - available[m] + available'[m]
  <2> DEFINE S == MarketsIn(m[2])
             f == Pots(m[2])
             g == Pots(m[2])'
  <2>1. f \in [S -> Nat] /\ g \in [S -> Nat] /\ IsFiniteSet(S) /\ m \in S
    BY <1>2, FiniteMarkets DEF Pots, MarketsIn, DistTypeOK
  <2>2. /\ \A y \in S \ {m} : g[y] = f[y]
        /\ f[m] = available[m] /\ g[m] = available'[m]
    BY <1>2 DEF Pots, ChangesOnly, MarketsIn
  <2>3. Total(Pots(m[2]))' = Total(g) /\ Total(Pots(m[2])) = Total(f)
    BY DEF Total, Units
  <2> HIDE DEF S, f, g
  <2>4. Total(g) = Total(f) - f[m] + g[m]
    BY <2>1, <2>2, TotalChange
  <2>5. QED
    BY <2>2, <2>3, <2>4
<1>4. Total(Held(m[2]))' = Total(Held(m[2])) - Remaining(e, m) + Remaining(e, m)'
  <2> DEFINE S == EpochIds \X MarketsIn(m[2])
             f == Held(m[2])
             g == Held(m[2])'
             k == <<e, m>>
  <2>1. f \in [S -> Nat]
    BY <1>2, BooksParts
  <2>2. g \in [S -> Nat]
    <3>1. \A d \in EpochIds, n \in Markets : Remaining(d, n)' \in Nat
      BY DEF DistTypeOK, ClaimedWithinTotal, Remaining
    <3>2. QED
      BY <3>1 DEF Held, MarketsIn
  <2>3. IsFiniteSet(S) /\ k \in S
    BY <1>2, FiniteMarkets
  <2>4. /\ \A y \in S \ {k} : g[y] = f[y]
        /\ f[k] = Remaining(e, m) /\ g[k] = Remaining(e, m)'
    <3>1. \A y \in S : f[y] = Remaining(y[1], y[2]) /\ g[y] = Remaining(y[1], y[2])'
      BY DEF Held
    <3>2. \A y \in S \ {k} : y[1] \in EpochIds /\ y[2] \in Markets /\ <<y[1], y[2]>> # k
      BY DEF MarketsIn
    <3>3. QED
      BY <2>3, <3>1, <3>2 DEF ChangesOnly
  <2>5. Total(Held(m[2]))' = Total(g) /\ Total(Held(m[2])) = Total(f)
    BY DEF Total, Units
  <2> HIDE DEF S, f, g, k
  <2>6. Total(g) = Total(f) - f[k] + g[k]
    BY <2>1, <2>2, <2>3, <2>4, TotalChange
  <2>7. QED
    BY <2>4, <2>5, <2>6
<1>5. QED
  BY <1>1, <1>3, <1>4

LEMMA HoldingMoves ==
  ASSUME DistTypeOK, DistTypeOK', ClaimedWithinTotal, ClaimedWithinTotal',
         NEW e \in EpochIds, NEW m \in Markets, ChangesOnly(e, m)
  PROVE  /\ \A n \in Markets \ {m} : HeldFor(n)' = HeldFor(n)
         /\ Total(HeldFor(m))' = Total(HeldFor(m)) - Remaining(e, m) + Remaining(e, m)'
<1>1. ASSUME NEW n \in Markets \ {m}
      PROVE  HeldFor(n)' = HeldFor(n)
  BY DEF HeldFor, ChangesOnly
<1>2. Total(HeldFor(m))' = Total(HeldFor(m)) - Remaining(e, m) + Remaining(e, m)'
  <2> DEFINE f == HeldFor(m)
             g == HeldFor(m)'
  <2>1. f \in [EpochIds -> Nat]
    BY RemainingType DEF HeldFor
  <2>2. g \in [EpochIds -> Nat]
    <3>1. \A d \in EpochIds : Remaining(d, m)' \in Nat
      BY DEF DistTypeOK, ClaimedWithinTotal, Remaining
    <3>2. QED
      BY <3>1 DEF HeldFor
  <2>3. /\ \A d \in EpochIds \ {e} : g[d] = f[d]
        /\ f[e] = Remaining(e, m) /\ g[e] = Remaining(e, m)'
    BY DEF HeldFor, ChangesOnly
  <2>4. Total(HeldFor(m))' = Total(g) /\ Total(HeldFor(m)) = Total(f)
    BY DEF Total, Units
  <2> HIDE DEF f, g
  <2>5. Total(g) = Total(f) - f[e] + g[e]
    BY <2>1, <2>2, <2>3, FiniteMarkets, TotalChange
  <2>6. QED
    BY <2>3, <2>4, <2>5
<1>3. QED
  BY <1>1, <1>2

-----------------------------------------------------------------------------
\* The steps of the distributor

\* Steps that leave every amount alone keep the books.
LEMMA BooksUnchanged ==
  ASSUME RewardsBacked, MarketBudget,
         UNCHANGED <<claims, available, epochTotal, epochClaimed, epochReleased, paying, paid,
                     pulled>>
  PROVE  RewardsBacked' /\ MarketBudget'
BY DEF RewardsBacked, Books, Remaining, MarketBudget

LEMMA BeginPublishInv ==
  ASSUME DistInv, NEW root \in Roots, BeginPublish(root)
  PROVE  DistInv'
<1> USE DEF DistInv, BeginPublish, epochVars
<1>1. VaultInv'
  BY VaultUnchangedInv
<1>2. DistTypeOK' /\ IsFiniteSet(paid)' /\ ClaimedWithinTotal' /\ PublishedInOrder'
  BY DEF DistTypeOK, ClaimedWithinTotal, PublishedInOrder, Published
<1>3. UNCHANGED <<now, claims>>
  BY DEF allVaultVars, hookVars, vaultVars
<1>4. RewardsBacked' /\ MarketBudget'
  BY <1>3, BooksUnchanged
<1>5. LeavesMarked' /\ PayingInPeriod' /\ PayoutsFromOpenEpochs' /\ PaidOnce'
  BY <1>3 DEF LeavesMarked, Published, PayingInPeriod, PayoutsFromOpenEpochs, PaidOnce
<1>6. QED
  BY <1>1, <1>2, <1>4, <1>5

LEMMA FinishPublishInv ==
  ASSUME DistInv, FinishPublish
  PROVE  DistInv'
<1> USE DEF DistInv
<1> DEFINE e == lastEpoch + 1
           record == [poolLeaves |-> draft.poolLeaves, leaves |-> draft.leaves,
                      publishedAt |-> now, vetoed |-> FALSE]
<1>1. VaultInv' /\ UNCHANGED <<now, claims, available, epochTotal, epochClaimed, epochReleased,
                               claimed, paying, paid, pulled, recording>>
  BY VaultUnchangedInv DEF FinishPublish, allVaultVars, hookVars, vaultVars
<1>2. /\ e \in EpochIds /\ record \in Epoch /\ record # NoRoot /\ ~Published(e)
      /\ epochs' = [epochs EXCEPT ![e] = record] /\ lastEpoch' = e /\ draft' = NoRoot
  <2>1. draft \in Root /\ now \in Nat
    BY DistributorAssumption
       DEF FinishPublish, DistTypeOK, VaultInv, HookInv, HookTypeOK
  <2>2. record \in Epoch /\ record # NoRoot
    <3>1. draft.poolLeaves \in BOOLEAN /\ draft.leaves \in SUBSET Leaf
      BY <2>1 DEF Root
    <3>2. record \in Epoch
      BY <2>1, <3>1 DEF Epoch
    <3>3. QED
      BY <3>2, DistributorAssumption
  <2>3. e \in EpochIds
    BY DistributorAssumption DEF FinishPublish, DistTypeOK, EpochIds
  <2>4. ~Published(e)
    BY <2>3 DEF PublishedInOrder, DistTypeOK
  <2>5. QED
    BY <2>2, <2>3, <2>4 DEF FinishPublish
<1> HIDE DEF record
<1>3. \A d \in EpochIds : Published(d) => d # e /\ epochs'[d] = epochs[d] /\ Published(d)'
  BY <1>2 DEF Published, DistTypeOK
<1>4. DistTypeOK' /\ IsFiniteSet(paid)' /\ ClaimedWithinTotal'
  <2>1. DistTypeOK'
    BY <1>1, <1>2, DistributorAssumption DEF DistTypeOK, EpochIds
  <2>2. QED
    BY <1>1, <2>1 DEF ClaimedWithinTotal
<1>5. PublishedInOrder'
  BY <1>1, <1>2, <1>3 DEF PublishedInOrder, Published, DistTypeOK, EpochIds
<1>6. LeavesMarked' /\ PayingInPeriod' /\ PayoutsFromOpenEpochs' /\ PaidOnce'
  <2>1. \A x \in paying \cup paid : x[1] \in EpochIds /\ Published(x[1])
    BY DEF LeavesMarked
  <2>2. QED
    BY <1>1, <1>3, <2>1 DEF LeavesMarked, PayingInPeriod, PayoutsFromOpenEpochs, PaidOnce
<1>7. QED
  BY <1>1, <1>4, <1>5, <1>6, BooksUnchanged

\* A veto comes before the window ends, a recorded leaf after it.
LEMMA VetoInv ==
  ASSUME DistInv, NEW e \in EpochIds, VetoEpoch(e)
  PROVE  DistInv'
<1> USE DEF DistInv
<1>1. VaultInv' /\ UNCHANGED <<now, claims, available, epochTotal, epochClaimed, epochReleased,
                               claimed, paying, paid, pulled, recording, draft, lastEpoch>>
  BY VaultUnchangedInv DEF VetoEpoch, allVaultVars, hookVars, vaultVars
<1>2. epochs[e] \in Epoch
  BY DEF VetoEpoch, Published, DistTypeOK
<1>3. /\ epochs' \in [EpochIds -> Epoch \cup {NoRoot}]
      /\ \A d \in EpochIds : Published(d)' <=> Published(d)
      /\ \A d \in EpochIds : epochs'[d].publishedAt = epochs[d].publishedAt
      /\ \A d \in EpochIds \ {e} : epochs'[d] = epochs[d]
  <2>1. [epochs[e] EXCEPT !.vetoed = TRUE] \in Epoch
    BY <1>2 DEF Epoch
  <2>2. epochs' = [epochs EXCEPT ![e] = [epochs[e] EXCEPT !.vetoed = TRUE]]
    BY DEF VetoEpoch
  <2>3. [epochs[e] EXCEPT !.vetoed = TRUE].publishedAt = epochs[e].publishedAt
    BY <1>2 DEF Epoch
  <2>4. QED
    BY <2>1, <2>2, <2>3, DistributorAssumption DEF Published, DistTypeOK, VetoEpoch
<1>4. \A x \in paying \cup paid : x[1] # e
  <2>1. now \in Nat /\ epochs[e].publishedAt + VetoWindow \in Nat
    BY <1>2, DistributorAssumption DEF Epoch, VaultInv, HookInv, HookTypeOK
  <2>2. QED
    BY <2>1 DEF LeavesMarked, VetoEpoch
<1>5. DistTypeOK' /\ IsFiniteSet(paid)' /\ ClaimedWithinTotal' /\ PublishedInOrder'
  BY <1>1, <1>3 DEF DistTypeOK, ClaimedWithinTotal, PublishedInOrder
<1>6. LeavesMarked' /\ PayingInPeriod' /\ PayoutsFromOpenEpochs' /\ PaidOnce'
  <2>1. \A x \in paying \cup paid : x[1] \in EpochIds
    BY DEF LeavesMarked
  <2>2. QED
    BY <1>1, <1>3, <1>4, <2>1 DEF LeavesMarked, PayingInPeriod, PayoutsFromOpenEpochs, PaidOnce
<1>7. QED
  BY <1>1, <1>5, <1>6, BooksUnchanged

LEMMA UnlockToPayInv ==
  ASSUME DistInv, UnlockToPay
  PROVE  DistInv'
<1> USE DEF DistInv
<1>1. VaultInv' /\ UNCHANGED <<now, claims, available, epochVars, paying, paid, pulled, draft>>
  BY VaultUnchangedInv DEF UnlockToPay, allVaultVars, hookVars, vaultVars
<1>2. DistTypeOK' /\ IsFiniteSet(paid)' /\ ClaimedWithinTotal' /\ PublishedInOrder'
  BY <1>1 DEF DistTypeOK, ClaimedWithinTotal, PublishedInOrder, Published, epochVars, UnlockToPay
<1>3. LeavesMarked' /\ PayingInPeriod' /\ PayoutsFromOpenEpochs' /\ PaidOnce'
  BY <1>1 DEF LeavesMarked, Published, PayingInPeriod, PayoutsFromOpenEpochs, PaidOnce, epochVars
<1>4. QED
  BY <1>1, <1>2, <1>3, BooksUnchanged DEF epochVars

\* An epoch is released only once no leaf of it can be under way.
LEMMA ReleaseInv ==
  ASSUME DistInv, NEW e \in EpochIds, NEW m \in Markets, ReleaseEpoch(e, m)
  PROVE  DistInv'
<1> USE DEF DistInv
<1>1. VaultInv' /\ UNCHANGED <<now, claims, epochs, lastEpoch, epochTotal, epochClaimed, claimed,
                               paying, paid, pulled, recording, draft>>
  BY VaultUnchangedInv DEF ReleaseEpoch, allVaultVars, hookVars, vaultVars
<1>2. /\ epochTotal[e][m] \in Nat /\ epochClaimed[e][m] \in Nat
      /\ epochClaimed[e][m] <= epochTotal[e][m]
      /\ available[m] \in Nat /\ Published(e)
      /\ ~epochReleased[e][m]
  BY DEF DistTypeOK, ClaimedWithinTotal, ReleaseEpoch, Releasable
<1>3. /\ epochReleased' \in [EpochIds -> [Markets -> BOOLEAN]]
      /\ epochReleased'[e][m]
      /\ \A d \in EpochIds, n \in Markets :
            <<d, n>> # <<e, m>> => epochReleased'[d][n] = epochReleased[d][n]
  BY DEF ReleaseEpoch, DistTypeOK
<1>4. /\ available' \in [Markets -> Nat]
      /\ available'[m] = available[m] + Remaining(e, m)
      /\ \A n \in Markets \ {m} : available'[n] = available[n]
  BY <1>2 DEF ReleaseEpoch, DistTypeOK, Remaining
<1>5. DistTypeOK' /\ IsFiniteSet(paid)' /\ ClaimedWithinTotal'
  BY <1>1, <1>3, <1>4 DEF DistTypeOK, ClaimedWithinTotal
<1>6. PublishedInOrder'
  BY <1>1, <1>2, <1>3 DEF PublishedInOrder, Published
<1>7. ChangesOnly(e, m) /\ Remaining(e, m)' = 0
  BY <1>1, <1>3, <1>4 DEF ChangesOnly, Remaining
<1>8. RewardsBacked'
  <2> SUFFICES ASSUME NEW q \in Quotes PROVE Backed(q)'
    BY <1>1, BackedIsBacked DEF RewardsBacked, Backed, Books, Pots, Held, Owing, UnderWay
  <2>1. Backed(q)
    BY BackedIsBacked
  <2>2. Total(Owing(q))' = Total(Owing(q))
    BY <1>1 DEF Owing, UnderWay, Total, Units
  <2>3. CASE q # m[2]
    <3>1. Pots(q)' = Pots(q) /\ Held(q)' = Held(q)
      BY <1>5, <1>7, <2>3, PotsMove
    <3>2. QED
      BY <1>1, <2>1, <2>2, <3>1 DEF Backed
  <2>4. CASE q = m[2]
    <3>1. /\ Total(Pots(q))' = Total(Pots(q)) - available[m] + available'[m]
          /\ Total(Held(q))' = Total(Held(q)) - Remaining(e, m) + Remaining(e, m)'
      BY <1>5, <1>7, <2>4, PotsMove
    <3>2. Total(Pots(q)) \in Nat /\ Total(Held(q)) \in Nat /\ Total(Owing(q)) \in Nat
      BY BooksParts
    <3>3. Remaining(e, m) \in Nat
      BY RemainingType
    <3>4. QED
      BY <1>1, <1>2, <1>4, <1>7, <2>1, <2>2, <3>1, <3>2, <3>3 DEF Backed
  <2>5. QED
    BY <2>3, <2>4
<1>9. MarketBudget'
  <2> SUFFICES ASSUME NEW n \in Markets PROVE WithinBudget(n)'
    BY DEF MarketBudget, WithinBudget, HeldFor, Spent, SpentOn
  <2>1. WithinBudget(n)
    BY BudgetIsBudget
  <2>2. Total(Spent(n))' = Total(Spent(n))
    BY <1>1 DEF Spent, SpentOn, Total, Units
  <2>3. CASE n # m
    <3>1. HeldFor(n)' = HeldFor(n)
      BY <1>5, <1>7, <2>3, HoldingMoves
    <3>2. QED
      BY <1>1, <1>4, <2>1, <2>2, <2>3, <3>1 DEF WithinBudget
  <2>4. CASE n = m
    <3>1. Total(HeldFor(m))' = Total(HeldFor(m)) - Remaining(e, m) + Remaining(e, m)'
      BY <1>5, <1>7, HoldingMoves
    <3>2. Total(HeldFor(m)) \in Nat /\ Total(Spent(m)) \in Nat
      BY BudgetParts
    <3>3. Remaining(e, m) \in Nat
      BY RemainingType
    <3>4. QED
      BY <1>1, <1>2, <1>4, <1>7, <2>1, <2>2, <2>4, <3>1, <3>2, <3>3 DEF WithinBudget
  <2>5. QED
    BY <2>3, <2>4
<1>10. LeavesMarked' /\ PayingInPeriod' /\ PaidOnce'
  BY <1>1 DEF LeavesMarked, PayingInPeriod, PaidOnce, Published
<1>11. PayoutsFromOpenEpochs'
  <2>1. \A x \in paying : x[1] # e
    <3>1. now \in Nat /\ epochs[e].publishedAt \in Nat
      BY <1>2 DEF Published, DistTypeOK, Epoch, VaultInv, HookInv, HookTypeOK
    <3>2. CASE epochs[e].vetoed
      BY <3>2 DEF PayoutsFromOpenEpochs
    <3>3. CASE now > epochs[e].publishedAt + ClaimPeriod
      BY <3>1, <3>3, DistributorAssumption DEF PayingInPeriod
    <3>4. QED
      BY <3>2, <3>3 DEF ReleaseEpoch, Releasable
  <2>2. \A x \in paying : x[1] \in EpochIds /\ x[2].market \in Markets
    BY DEF DistTypeOK, Leaf
  <2>3. QED
    BY <1>1, <1>3, <2>1, <2>2 DEF PayoutsFromOpenEpochs
<1>12. QED
  BY <1>1, <1>5, <1>6, <1>8, <1>9, <1>10, <1>11

\* What a market pulls, and no more than that and its pot, is set aside for it.
LEMMA ReserveInv ==
  ASSUME DistInv, NEW m \in Markets, NEW total \in Nat, Reserve(m, total),
         NEW e, e = lastEpoch + 1
  PROVE  DistInv'
<1> USE DEF DistInv
<1> DEFINE pull == destinationPending[m[1]][m[2]]
<1>1. Distributor \in Holders \ {Vault} /\ m[1] \in Coins /\ m[2] \in Quotes
  BY DEF Distributor, Holders, Vault, Markets
<1>2. UNCHANGED <<hookVars, platformPending, referralPending, creatorPending, authorPending,
                  attribution, tweetAttestor, due, payee>>
  BY DEF Reserve
<1>3. PullDestination(Distributor, {m})
  BY DEF Reserve
<1>4. VaultInv' /\ \A q \in Quotes :
                      /\ PulledIn({m}, q) \in Nat
                      /\ claims'[Distributor][q] = claims[Distributor][q] + PulledIn({m}, q)
  <2>1. {m} \in SUBSET Markets
    OBVIOUS
  <2>2. QED
    BY <1>1, <1>2, <1>3, <2>1, PullInv
<1>5. destinationPending \in [Coins -> Amount] /\ pull \in Nat
  BY <1>1 DEF VaultInv, VaultTypeOK, Amount
<1>6. \A q \in Quotes : claims'[Distributor][q] =
                           claims[Distributor][q] + (IF q = m[2] THEN pull ELSE 0)
  BY <1>4, <1>5, PulledOne
<1>7. UNCHANGED <<now, epochs, lastEpoch, epochClaimed, epochReleased, claimed, paying, paid,
                  recording, draft>>
  BY DEF Reserve, hookVars
<1>8. /\ e \in EpochIds /\ ~Published(e) /\ ~epochReleased[e][m]
      /\ epochTotal[e][m] = 0 /\ epochClaimed[e][m] = 0
  <2>1. e \in EpochIds
    BY DistributorAssumption DEF Reserve, DistTypeOK, EpochIds
  <2>2. ~Published(e)
    BY <2>1 DEF PublishedInOrder, DistTypeOK
  <2>3. ~epochReleased[e][m]
    BY <2>1, <2>2 DEF PublishedInOrder
  <2>4. epochTotal[e][m] = 0
    BY DEF Reserve
  <2>5. epochClaimed[e][m] = 0
    BY <2>1, <2>4 DEF ClaimedWithinTotal, DistTypeOK
  <2>6. QED
    BY <2>1, <2>2, <2>3, <2>4, <2>5
<1>9. /\ epochTotal' \in [EpochIds -> [Markets -> Nat]]
      /\ epochTotal'[e][m] = total
      /\ \A d \in EpochIds, n \in Markets :
            <<d, n>> # <<e, m>> => epochTotal'[d][n] = epochTotal[d][n]
  <2>1. epochTotal' = [epochTotal EXCEPT ![e][m] = total]
    BY DEF Reserve
  <2>2. QED
    BY <1>8, <2>1 DEF DistTypeOK
<1>10. /\ available' \in [Markets -> Nat] /\ available[m] \in Nat
       /\ available'[m] = available[m] + pull - total
       /\ \A n \in Markets \ {m} : available'[n] = available[n]
  <2>1. available \in [Markets -> Nat] /\ total <= available[m] + pull
    BY DEF Reserve, DistTypeOK
  <2>2. available' = [available EXCEPT ![m] = @ + pull - total]
    BY DEF Reserve
  <2>3. available[m] + pull - total \in Nat
    BY <1>5, <2>1
  <2>4. QED
    BY <2>1, <2>2, <2>3
<1>11. /\ pulled' \in [Markets -> Nat] /\ pulled[m] \in Nat
       /\ pulled'[m] = pulled[m] + pull
       /\ \A n \in Markets \ {m} : pulled'[n] = pulled[n]
  <2>1. pulled' = [pulled EXCEPT ![m] = @ + pull]
    BY DEF Reserve
  <2>2. QED
    BY <1>5, <2>1 DEF DistTypeOK
<1> HIDE DEF pull
<1>12. DistTypeOK' /\ IsFiniteSet(paid)' /\ ClaimedWithinTotal'
  <2>1. DistTypeOK'
    BY <1>7, <1>9, <1>10, <1>11 DEF DistTypeOK
  <2>2. ASSUME NEW d \in EpochIds, NEW n \in Markets
        PROVE  epochClaimed'[d][n] <= epochTotal'[d][n]
    BY <1>7, <1>8, <1>9 DEF ClaimedWithinTotal
  <2>3. QED
    BY <1>7, <2>1, <2>2 DEF ClaimedWithinTotal
<1>13. PublishedInOrder' /\ LeavesMarked' /\ PayingInPeriod' /\ PayoutsFromOpenEpochs' /\ PaidOnce'
  BY <1>7 DEF PublishedInOrder, Published, LeavesMarked, PayingInPeriod, PayoutsFromOpenEpochs,
     PaidOnce
<1>14. ChangesOnly(e, m) /\ Remaining(e, m) = 0 /\ Remaining(e, m)' = total
  BY <1>7, <1>8, <1>9, <1>10 DEF ChangesOnly, Remaining
<1>15. RewardsBacked'
  <2> SUFFICES ASSUME NEW q \in Quotes PROVE Backed(q)'
    BY DEF RewardsBacked, Backed, Books, Pots, Held, Owing, UnderWay
  <2>1. Backed(q)
    BY BackedIsBacked
  <2>2. Total(Owing(q))' = Total(Owing(q))
    BY <1>7 DEF Owing, UnderWay, Total, Units
  <2>3. Total(Pots(q)) \in Nat /\ Total(Held(q)) \in Nat /\ Total(Owing(q)) \in Nat
    BY BooksParts
  <2>4. CASE q # m[2]
    <3>1. Pots(q)' = Pots(q) /\ Held(q)' = Held(q)
      BY <1>8, <1>12, <1>14, <2>4, PotsMove
    <3>2. claims'[Distributor][q] = claims[Distributor][q]
      BY <1>6, <2>1, <2>3, <2>4 DEF Backed
    <3>3. QED
      BY <2>1, <2>2, <3>1, <3>2 DEF Backed
  <2>5. CASE q = m[2]
    <3>1. /\ Total(Pots(q))' = Total(Pots(q)) - available[m] + available'[m]
          /\ Total(Held(q))' = Total(Held(q)) - Remaining(e, m) + Remaining(e, m)'
      BY <1>8, <1>12, <1>14, <2>5, PotsMove
    <3>2. claims'[Distributor][q] = claims[Distributor][q] + pull
      BY <1>6, <2>5
    <3>3. QED
      BY <1>5, <1>10, <1>14, <2>1, <2>2, <2>3, <3>1, <3>2 DEF Backed
  <2>6. QED
    BY <2>4, <2>5
<1>16. MarketBudget'
  <2> SUFFICES ASSUME NEW n \in Markets PROVE WithinBudget(n)'
    BY DEF MarketBudget, WithinBudget, HeldFor, Spent, SpentOn
  <2>1. WithinBudget(n)
    BY BudgetIsBudget
  <2>2. Total(Spent(n))' = Total(Spent(n))
    BY <1>7 DEF Spent, SpentOn, Total, Units
  <2>3. CASE n # m
    <3>1. HeldFor(n)' = HeldFor(n)
      BY <1>8, <1>12, <1>14, <2>3, HoldingMoves
    <3>2. QED
      BY <1>10, <1>11, <2>1, <2>2, <2>3, <3>1 DEF WithinBudget
  <2>4. CASE n = m
    <3>1. Total(HeldFor(m))' = Total(HeldFor(m)) - Remaining(e, m) + Remaining(e, m)'
      BY <1>8, <1>12, <1>14, HoldingMoves
    <3>2. Total(HeldFor(m)) \in Nat /\ Total(Spent(m)) \in Nat
      BY BudgetParts
    <3>3. QED
      BY <1>5, <1>10, <1>11, <1>14, <2>1, <2>2, <2>4, <3>1, <3>2 DEF WithinBudget
  <2>5. QED
    BY <2>3, <2>4
<1>17. QED
  BY <1>4, <1>12, <1>13, <1>15, <1>16

\* A recorded leaf moves from what its epoch holds to what is under way.
LEMMA RecordInv ==
  ASSUME DistInv, NEW e \in EpochIds, NEW l \in LeavesOf(e), Record(e, l)
  PROVE  DistInv'
<1> USE DEF DistInv
<1> DEFINE m == l.market
           q0 == m[2]
           x == <<e, l>>
<1>1. VaultInv' /\ UNCHANGED <<now, claims, available, lastEpoch, epochs, epochTotal,
                               epochReleased, draft, pulled, paid>>
  BY VaultUnchangedInv DEF Record, allVaultVars, hookVars, vaultVars
<1>2. /\ Published(e) /\ epochs[e] \in Epoch /\ l \in Leaf
      /\ m \in Markets /\ l.amount \in Nat /\ l.index \in Nat /\ q0 \in Quotes
  BY DEF LeavesOf, Published, DistTypeOK, Epoch, Leaf, Record, Claimable, Markets
<1>3. /\ ~epochs[e].vetoed /\ ~epochReleased[e][m]
      /\ now >= epochs[e].publishedAt + VetoWindow
      /\ now <= epochs[e].publishedAt + ClaimPeriod
      /\ epochClaimed[e][m] + l.amount <= epochTotal[e][m]
      /\ epochClaimed[e][m] \in Nat /\ epochTotal[e][m] \in Nat
      /\ l.index \notin claimed[e][m]
  BY <1>2 DEF Record, Claimable, DistTypeOK
<1>4. x \notin paying \cup paid
  BY <1>3 DEF LeavesMarked
<1>5. /\ claimed' \in [EpochIds -> [Markets -> SUBSET Nat]]
      /\ l.index \in claimed'[e][m]
      /\ \A d \in EpochIds, n \in Markets : claimed[d][n] \subseteq claimed'[d][n]
  <2>1. claimed' = [claimed EXCEPT ![e][m] = @ \cup {l.index}]
    BY DEF Record
  <2>2. QED
    BY <1>2, <2>1 DEF DistTypeOK
<1>6. /\ epochClaimed' \in [EpochIds -> [Markets -> Nat]]
      /\ epochClaimed'[e][m] = epochClaimed[e][m] + l.amount
      /\ \A d \in EpochIds, n \in Markets :
            <<d, n>> # <<e, m>> => epochClaimed'[d][n] = epochClaimed[d][n]
  <2>1. epochClaimed' = [epochClaimed EXCEPT ![e][m] = @ + l.amount]
    BY DEF Record
  <2>2. QED
    BY <1>2, <1>3, <2>1 DEF DistTypeOK
<1>7. /\ paying' = IF l.amount = 0 THEN paying ELSE paying \cup {x}
      /\ recording' = TRUE
  BY DEF Record
<1> HIDE DEF m, q0
<1>8. DistTypeOK' /\ IsFiniteSet(paid)'
  <2>1. paying' \subseteq EpochIds \X Leaf
    BY <1>2, <1>7 DEF DistTypeOK
  <2>2. IsFiniteSet(paying)'
    BY <1>7, FS_AddElement DEF DistTypeOK
  <2>3. QED
    BY <1>1, <1>5, <1>6, <1>7, <2>1, <2>2 DEF DistTypeOK
<1>9. ClaimedWithinTotal'
  <2> SUFFICES ASSUME NEW d \in EpochIds, NEW n \in Markets
               PROVE  epochClaimed'[d][n] <= epochTotal[d][n]
    BY <1>1 DEF ClaimedWithinTotal
  <2>1. CASE <<d, n>> = <<e, m>>
    BY <1>3, <1>6, <2>1
  <2>2. CASE <<d, n>> # <<e, m>>
    BY <1>6, <2>2 DEF ClaimedWithinTotal
  <2>3. QED
    BY <2>1, <2>2
<1>10. PublishedInOrder'
  BY <1>1 DEF PublishedInOrder, Published
<1>11. LeavesMarked'
  <2> SUFFICES ASSUME NEW y \in (paying \cup paid) \cup {x}
               PROVE  /\ y \in EpochIds \X Leaf
                      /\ y[2].index \in claimed'[y[1]][y[2].market]
                      /\ Published(y[1])
                      /\ now >= epochs[y[1]].publishedAt + VetoWindow
    BY <1>1, <1>7 DEF LeavesMarked, Published
  <2>1. CASE y = x
    BY <1>2, <1>3, <1>5, <2>1 DEF m
  <2>2. CASE y \in paying \cup paid
    <3>1. y[1] \in EpochIds /\ y[2].market \in Markets
      BY <2>2 DEF LeavesMarked, Leaf
    <3>2. QED
      BY <1>5, <2>2, <3>1 DEF LeavesMarked
  <2>3. QED
    BY <2>1, <2>2
<1>12. PayingInPeriod' /\ PayoutsFromOpenEpochs'
  <2>1. PayingInPeriod'
    BY <1>1, <1>3, <1>7 DEF PayingInPeriod
  <2>2. PayoutsFromOpenEpochs'
    BY <1>1, <1>3, <1>7 DEF PayoutsFromOpenEpochs, m
  <2>3. QED
    BY <2>1, <2>2
<1>13. PaidOnce'
  <2>1. paying' \cap paid' = {}
    BY <1>1, <1>4, <1>7 DEF PaidOnce
  <2>2. ASSUME NEW y \in paying \cup paid
        PROVE  ~(y[1] = e /\ y[2].market = m /\ y[2].index = l.index)
    BY <1>3, <2>2 DEF LeavesMarked
  <2>3. QED
    BY <1>1, <1>7, <2>1, <2>2 DEF PaidOnce, m
<1>14. ChangesOnly(e, m) /\ Remaining(e, m)' = Remaining(e, m) - l.amount
  <2>1. UNCHANGED <<available, epochTotal, epochReleased>>
    BY <1>1
  <2>2. ASSUME NEW d \in EpochIds, NEW n \in Markets, <<d, n>> # <<e, m>>
        PROVE  Remaining(d, n)' = Remaining(d, n)
    BY <1>6, <2>1, <2>2 DEF Remaining
  <2>3. ChangesOnly(e, m)
    BY <2>1, <2>2 DEF ChangesOnly, m
  <2>4. Remaining(e, m)' = epochTotal[e][m] - (epochClaimed[e][m] + l.amount)
    BY <1>3, <1>6, <2>1 DEF Remaining, m
  <2>5. Remaining(e, m) = epochTotal[e][m] - epochClaimed[e][m]
    BY <1>3 DEF Remaining
  <2>6. QED
    BY <1>2, <1>3, <2>3, <2>4, <2>5
<1>15. RewardsBacked'
  <2> SUFFICES ASSUME NEW q \in Quotes PROVE Backed(q)'
    BY DEF RewardsBacked, Backed, Books, Pots, Held, Owing, UnderWay
  <2>1. Backed(q)
    BY BackedIsBacked
  <2>2. Total(Pots(q)) \in Nat /\ Total(Held(q)) \in Nat /\ Total(Owing(q)) \in Nat
    BY BooksParts
  <2>3. CASE q # q0
    <3>1. Pots(q)' = Pots(q) /\ Held(q)' = Held(q)
      BY <1>2, <1>8, <1>9, <1>14, <2>3, PotsMove DEF q0
    <3>2. UnderWay(q)' = UnderWay(q)
      BY <1>7, <2>3 DEF UnderWay, q0, m
    <3>3. Total(Owing(q))' = Total(Owing(q))
      BY <3>2 DEF Owing, Total, Units
    <3>4. QED
      BY <1>1, <2>1, <3>1, <3>3 DEF Backed
  <2>4. CASE q = q0
    <3>1. /\ Total(Pots(q))' = Total(Pots(q)) - available[m] + available'[m]
          /\ Total(Held(q))' = Total(Held(q)) - Remaining(e, m) + Remaining(e, m)'
      BY <1>2, <1>8, <1>9, <1>14, <2>4, PotsMove DEF q0
    <3>2. Total(Owing(q))' = Total(Owing(q)) + l.amount
      <4>1. CASE l.amount = 0
        <5>1. paying' = paying
          BY <1>7, <4>1
        <5>2. Total(Owing(q))' = Total(Owing(q))
          BY <5>1 DEF Owing, UnderWay, Total, Units
        <5>3. QED
          BY <2>2, <4>1, <5>2
      <4>2. CASE l.amount # 0
        <5> DEFINE S == UnderWay(q)
                   f == Owing(q)
                   g == [y \in S \cup {x} |-> y[2].amount]
        <5>1. UnderWay(q)' = S \cup {x}
          BY <1>7, <2>4, <4>2 DEF UnderWay, q0, m
        <5>2. Total(Owing(q))' = Total(g)
          BY <5>1 DEF Owing, Total, Units
        <5>3. f \in [S -> Nat] /\ IsFiniteSet(S)
          BY BooksParts
        <5>4. x \notin S
          BY <1>4 DEF UnderWay
        <5>5. /\ g \in [S \cup {x} -> Nat] /\ g[x] = l.amount
              /\ \A y \in S : g[y] = f[y]
          <6>1. \A y \in S : f[y] = y[2].amount /\ f[y] \in Nat
            BY <5>3 DEF Owing
          <6>2. QED
            BY <1>2, <6>1
        <5> HIDE DEF S, f, g, x
        <5>6. Total(g) = Total(f) + l.amount
          BY <1>2, <5>3, <5>4, <5>5, TotalInsert
        <5>7. QED
          BY <5>2, <5>6 DEF f
      <4>3. QED
        BY <4>1, <4>2
    <3>3. available' = available /\ available[m] \in Nat /\ Remaining(e, m) \in Nat
      BY <1>1, <1>2, RemainingType DEF DistTypeOK
    <3>4. QED
      BY <1>1, <1>2, <1>14, <2>1, <2>2, <3>1, <3>2, <3>3 DEF Backed
  <2>5. QED
    BY <2>3, <2>4
<1>16. MarketBudget'
  <2> SUFFICES ASSUME NEW n \in Markets PROVE WithinBudget(n)'
    BY DEF MarketBudget, WithinBudget, HeldFor, Spent, SpentOn
  <2>1. WithinBudget(n)
    BY BudgetIsBudget
  <2>2. Total(HeldFor(n)) \in Nat /\ Total(Spent(n)) \in Nat
    BY BudgetParts
  <2>3. CASE n # m
    <3>1. HeldFor(n)' = HeldFor(n)
      BY <1>2, <1>8, <1>9, <1>14, <2>3, HoldingMoves
    <3>2. SpentOn(n)' = SpentOn(n)
      BY <1>1, <1>7, <2>3 DEF SpentOn, m
    <3>3. Total(Spent(n))' = Total(Spent(n))
      BY <3>2 DEF Spent, Total, Units
    <3>4. QED
      BY <1>1, <2>1, <3>1, <3>3 DEF WithinBudget
  <2>4. CASE n = m
    <3>1. Total(HeldFor(n))' = Total(HeldFor(n)) - Remaining(e, n) + Remaining(e, n)'
      BY <1>2, <1>8, <1>9, <1>14, <2>4, HoldingMoves
    <3>2. Total(Spent(n))' = Total(Spent(n)) + l.amount
      <4>1. CASE l.amount = 0
        <5>1. paying' = paying
          BY <1>7, <4>1
        <5>2. Total(Spent(n))' = Total(Spent(n))
          BY <1>1, <5>1 DEF Spent, SpentOn, Total, Units
        <5>3. QED
          BY <2>2, <4>1, <5>2
      <4>2. CASE l.amount # 0
        <5> DEFINE S == SpentOn(n)
                   f == Spent(n)
                   g == [y \in S \cup {x} |-> y[2].amount]
        <5>1. SpentOn(n)' = S \cup {x}
          BY <1>1, <1>7, <2>4, <4>2 DEF SpentOn, m
        <5>2. Total(Spent(n))' = Total(g)
          BY <5>1 DEF Spent, Total, Units
        <5>3. f \in [S -> Nat] /\ IsFiniteSet(S)
          BY BudgetParts
        <5>4. x \notin S
          BY <1>4 DEF SpentOn
        <5>5. /\ g \in [S \cup {x} -> Nat] /\ g[x] = l.amount
              /\ \A y \in S : g[y] = f[y]
          <6>1. \A y \in S : f[y] = y[2].amount /\ f[y] \in Nat
            BY <5>3 DEF Spent
          <6>2. QED
            BY <1>2, <6>1
        <5> HIDE DEF S, f, g, x
        <5>6. Total(g) = Total(f) + l.amount
          BY <1>2, <5>3, <5>4, <5>5, TotalInsert
        <5>7. QED
          BY <5>2, <5>6 DEF f
      <4>3. QED
        BY <4>1, <4>2
    <3>3. available[n] \in Nat /\ Remaining(e, n) \in Nat
      BY RemainingType DEF DistTypeOK
    <3>4. QED
      BY <1>1, <1>2, <1>14, <2>1, <2>2, <2>4, <3>1, <3>2, <3>3 DEF WithinBudget
  <2>5. QED
    BY <2>3, <2>4
<1>17. QED
  BY <1>1, <1>8, <1>9, <1>10, <1>11, <1>12, <1>13, <1>15, <1>16

\* A payout burns what was under way; the vault is not touched.
LEMMA PayLeafInv ==
  ASSUME DistInv, NEW e \in EpochIds, NEW l \in LeavesOf(e), PayLeaf(e, l)
  PROVE  DistInv'
<1> USE DEF DistInv
<1> DEFINE q0 == l.market[2]
           x == <<e, l>>
<1>1. UNCHANGED <<hookVars, ledgers, attribution, tweetAttestor, due, payee, available, epochVars,
                  draft, recording, pulled>>
  BY DEF PayLeaf
<1>2. /\ x \in paying /\ x \notin paid /\ l \in Leaf
      /\ l.amount \in Nat /\ q0 \in Quotes
      /\ l.amount <= claims[Distributor][q0]
      /\ paying' = paying \ {x} /\ paid' = paid \cup {x}
  <2>1. x \in paying /\ x \in EpochIds \X Leaf
    BY DEF PayLeaf, DistTypeOK
  <2>2. l \in Leaf /\ l.amount \in Nat /\ q0 \in Quotes
    BY <2>1 DEF Leaf, Markets
  <2>3. QED
    BY <2>1, <2>2 DEF PayLeaf, PaidOnce
<1>3. /\ claims' \in [Holders -> Amount] /\ claims'[Vault] = claims[Vault]
      /\ claims[Distributor][q0] \in Nat
      /\ claims'[Distributor][q0] = claims[Distributor][q0] - l.amount
      /\ \A q \in Quotes \ {q0} : claims'[Distributor][q] = claims[Distributor][q]
  <2>1. /\ claims \in [Holders -> Amount]
        /\ Distributor \in Holders /\ Vault \in Holders /\ Vault # Distributor
    BY DEF VaultInv, VaultTypeOK, Holders, Vault, Distributor
  <2>2. claims' = [claims EXCEPT ![Distributor][q0] = @ - l.amount]
    BY DEF PayLeaf
  <2>3. claims[Distributor][q0] - l.amount \in Nat
    BY <1>2, <2>1 DEF Amount
  <2>4. QED
    BY <1>2, <2>1, <2>2, <2>3 DEF Amount
<1>4. VaultInv'
  <2>1. HookInv'
    BY <1>1, HookInvUnchanged DEF VaultInv
  <2>2. VaultTypeOK'
    BY <1>1, <1>3 DEF VaultInv, VaultTypeOK, ledgers
  <2>3. VaultSolvent'
    BY <1>1, <1>3 DEF VaultInv, VaultSolvent, Owed, InFlight, ledgers
  <2>4. QED
    BY <2>1, <2>2, <2>3 DEF VaultInv
<1>5. now' = now
  BY <1>1 DEF hookVars
<1>6. DistTypeOK' /\ IsFiniteSet(paid)' /\ ClaimedWithinTotal' /\ PublishedInOrder'
  <2>1. paying' \subseteq EpochIds \X Leaf
    BY <1>2 DEF DistTypeOK
  <2>2. IsFiniteSet(paying)' /\ IsFiniteSet(paid)'
    BY <1>2, FS_RemoveElement, FS_AddElement DEF DistTypeOK
  <2>3. QED
    BY <1>1, <2>1, <2>2
       DEF DistTypeOK, ClaimedWithinTotal, PublishedInOrder, Published, epochVars
<1>7. paying' \cup paid' = paying \cup paid
  BY <1>2
<1>8. LeavesMarked' /\ PayingInPeriod' /\ PayoutsFromOpenEpochs' /\ PaidOnce'
  <2>1. UNCHANGED <<epochs, epochReleased, claimed>>
    BY <1>1 DEF epochVars
  <2>2. QED
    BY <1>2, <1>5, <1>7, <2>1
       DEF LeavesMarked, PayingInPeriod, PayoutsFromOpenEpochs, PaidOnce, Published
<1>9. RewardsBacked'
  <2> SUFFICES ASSUME NEW q \in Quotes PROVE Backed(q)'
    BY DEF RewardsBacked, Backed, Books, Pots, Held, Owing, UnderWay
  <2>1. Backed(q)
    BY BackedIsBacked
  <2>2. Pots(q)' = Pots(q) /\ Held(q)' = Held(q)
    BY <1>1 DEF Pots, Held, Remaining, epochVars
  <2>3. Total(Pots(q)) \in Nat /\ Total(Held(q)) \in Nat /\ Total(Owing(q)) \in Nat
    BY BooksParts
  <2>4. CASE q # q0
    <3>1. UnderWay(q)' = UnderWay(q)
      BY <1>2, <2>4 DEF UnderWay
    <3>2. Total(Owing(q))' = Total(Owing(q))
      BY <3>1 DEF Owing, Total, Units
    <3>3. QED
      BY <1>3, <2>1, <2>2, <2>4, <3>2 DEF Backed
  <2>5. CASE q = q0
    <3> DEFINE S == UnderWay(q)
               f == Owing(q)
               g == [y \in S \ {x} |-> f[y]]
    <3>1. UnderWay(q)' = S \ {x}
      BY <1>2 DEF UnderWay
    <3>2. Owing(q)' = g
      BY <3>1 DEF Owing
    <3>3. f \in [S -> Nat] /\ IsFiniteSet(S) /\ x \in S /\ f[x] = l.amount
      <4>1. x \in S
        BY <1>2, <2>5 DEF UnderWay
      <4>2. QED
        BY <4>1, BooksParts DEF Owing
    <3>4. Total(Owing(q))' = Total(g)
      BY <3>2 DEF Total, Units
    <3> HIDE DEF S, f, x
    <3>5. Total(f) = Total(g) + f[x]
      BY <3>3, TotalRemove
    <3>6. Total(g) \in Nat
      <4>1. g \in [S \ {x} -> Nat] /\ IsFiniteSet(S \ {x})
        BY <3>3, FS_RemoveElement
      <4>2. QED
        BY <4>1, TotalType
    <3>7. Total(Owing(q)) = Total(g) + l.amount
      BY <3>3, <3>5 DEF f
    <3> HIDE DEF g
    <3>8. QED
      BY <1>2, <1>3, <2>1, <2>2, <2>3, <2>5, <3>4, <3>6, <3>7 DEF Backed
  <2>6. QED
    BY <2>4, <2>5
<1>10. MarketBudget'
  BY <1>1, <1>7 DEF MarketBudget, Remaining, epochVars
<1>11. QED
  BY <1>4, <1>6, <1>8, <1>9, <1>10

-----------------------------------------------------------------------------
\* Every behaviour

LEMMA DistInitInv == DistInit => DistInv
<1> SUFFICES ASSUME DistInit PROVE DistInv
  OBVIOUS
<1> USE DEF DistInit
<1>1. VaultInv
  BY VaultInitInv
<1>2. DistTypeOK /\ IsFiniteSet(paid)
  <2>1. IsFiniteSet(paying) /\ IsFiniteSet(paid)
    BY FS_EmptySet
  <2>2. lastEpoch \in 0 .. MaxEpochs
    BY DistributorAssumption
  <2>3. QED
    BY <2>1, <2>2 DEF DistTypeOK
<1>3. ClaimedWithinTotal /\ LeavesMarked /\ PayingInPeriod /\ PayoutsFromOpenEpochs /\ PaidOnce
  BY DEF ClaimedWithinTotal, LeavesMarked, PayingInPeriod, PayoutsFromOpenEpochs, PaidOnce
<1>4. PublishedInOrder
  BY DEF PublishedInOrder, Published, EpochIds
<1>5. ASSUME NEW q \in Quotes PROVE Backed(q)
  <2>1. /\ Pots(q) \in [MarketsIn(q) -> Nat] /\ \A m \in MarketsIn(q) : Pots(q)[m] = 0
        /\ Held(q) \in [EpochIds \X MarketsIn(q) -> Nat]
        /\ \A k \in EpochIds \X MarketsIn(q) : Held(q)[k] = 0
    BY DEF Pots, Held, Remaining, MarketsIn
  <2>2. UnderWay(q) = {} /\ Owing(q) \in [{} -> Nat]
    BY DEF UnderWay, Owing
  <2>3. Total(Pots(q)) = 0 /\ Total(Held(q)) = 0
    BY <2>1, TotalZero
  <2>4. Total(Owing(q)) = 0
    BY <2>2, TotalZero
  <2>5. claims[Distributor][q] = 0
    BY DEF VaultInit, Zero, Holders, Distributor
  <2>6. QED
    BY <2>3, <2>4, <2>5 DEF Backed
<1>6. ASSUME NEW m \in Markets PROVE WithinBudget(m)
  <2>1. /\ HeldFor(m) \in [EpochIds -> Nat] /\ \A e \in EpochIds : HeldFor(m)[e] = 0
        /\ SpentOn(m) = {} /\ Spent(m) \in [{} -> Nat]
    BY DEF HeldFor, Remaining, SpentOn, Spent
  <2>2. Total(HeldFor(m)) = 0 /\ Total(Spent(m)) = 0
    BY <2>1, TotalZero
  <2>3. QED
    BY <2>2 DEF WithinBudget
<1>7. QED
  BY <1>1, <1>2, <1>3, <1>4, <1>5, <1>6, BackedIsBacked, BudgetIsBudget DEF DistInv

LEMMA DistNextInv == DistInv /\ DistNext => DistInv'
<1>1. DistInv /\ PublishStep => DistInv'
  <2> SUFFICES ASSUME DistInv, PublishStep PROVE DistInv'
    OBVIOUS
  <2>1. CASE \E root \in Roots : BeginPublish(root)
    BY <2>1, BeginPublishInv
  <2>2. ASSUME NEW m \in Markets,
               NEW total \in 1 .. available[m] + destinationPending[m[1]][m[2]],
               Reserve(m, total)
        PROVE  DistInv'
    <3>1. total \in Nat
      BY <2>2 DEF DistInv, DistTypeOK
    <3>2. QED
      BY <2>2, <3>1, ReserveInv
  <2>3. CASE FinishPublish
    BY <2>3, FinishPublishInv
  <2>4. QED
    BY <2>1, <2>2, <2>3 DEF PublishStep
<1>2. DistInv /\ OwnerStep => DistInv'
  BY VetoInv, ReleaseInv DEF OwnerStep
<1>3. DistInv /\ RewardStep => DistInv'
  BY RecordInv, PayLeafInv, UnlockToPayInv DEF RewardStep
<1>4. QED
  BY <1>1, <1>2, <1>3, OtherInv DEF DistNext, DistributorStep

LEMMA DistUnchangedInv == DistInv /\ UNCHANGED allDistVars => DistInv'
<1> SUFFICES ASSUME DistInv, UNCHANGED allDistVars PROVE DistInv'
  OBVIOUS
<1> USE DEF DistInv, allDistVars, distVars, epochVars
<1>1. VaultInv' /\ now' = now /\ claims' = claims
  BY VaultUnchangedInv DEF allVaultVars, hookVars, vaultVars
<1>2. DistTypeOK' /\ IsFiniteSet(paid)' /\ ClaimedWithinTotal' /\ PublishedInOrder'
  BY DEF DistTypeOK, ClaimedWithinTotal, PublishedInOrder, Published
<1>3. LeavesMarked' /\ PayingInPeriod' /\ PayoutsFromOpenEpochs' /\ PaidOnce'
  BY <1>1 DEF LeavesMarked, PayingInPeriod, PayoutsFromOpenEpochs, PaidOnce, Published
<1>4. QED
  BY <1>1, <1>2, <1>3, BooksUnchanged

\* The distributor's invariant, for every set of coins, roots and epochs.
THEOREM DistInvariant == DistSpec => []DistInv
BY DistInitInv, DistNextInv, DistUnchangedInv, PTL DEF DistSpec

\* The types of the distributor's state hold in every behaviour.
THEOREM DistTypeCorrect == DistSpec => []DistTypeOK
<1>1. DistInv => DistTypeOK
  BY DEF DistInv
<1>2. QED
  BY <1>1, DistInvariant, PTL

\* The distributor's PoolManager claims are exactly its pots, what its epochs
\* still hold and the payouts under way, in every currency and at every moment.
THEOREM RewardsStayBacked == DistSpec => []RewardsBacked
<1>1. DistInv => RewardsBacked
  BY DEF DistInv
<1>2. QED
  BY <1>1, DistInvariant, PTL

\* HolderRewardDistributor.sol, note 1: no root makes one market spend more than
\* the fees it pulled itself.
THEOREM MarketBudgetKept == DistSpec => []MarketBudget
<1>1. DistInv => MarketBudget
  BY DEF DistInv
<1>2. QED
  BY <1>1, DistInvariant, PTL

\* No leaf is paid from an epoch that is vetoed, or released while it is paid.
THEOREM OnlyOpenEpochsPay == DistSpec => []PayoutsFromOpenEpochs
<1>1. DistInv => PayoutsFromOpenEpochs
  BY DEF DistInv
<1>2. QED
  BY <1>1, DistInvariant, PTL

\* No index of a market is ever paid twice in an epoch, whatever the root.
THEOREM LeavesPaidOnce == DistSpec => []PaidOnce
<1>1. DistInv => PaidOnce
  BY DEF DistInv
<1>2. QED
  BY <1>1, DistInvariant, PTL

-----------------------------------------------------------------------------
\* The holders of an honest root

\* The leaves of epoch e for market m that were recorded for a payout.
Recorded(e, m) == {l \in LeavesOf(e) : l.market = m /\ <<e, l>> \in paying \cup paid}

\* The counter of an epoch's claims is the sum of its recorded leaves, all of
\* them leaves of the epoch's root.
ClaimBooks ==
    /\ \A e \in EpochIds : IsFiniteSet(LeavesOf(e))
    /\ \A e \in EpochIds, m \in Markets :
          epochClaimed[e][m] = Total([l \in Recorded(e, m) |-> l.amount])

LEMMA ClaimBooksKept ==
  ASSUME ClaimBooks, UNCHANGED epochClaimed,
         paying' \cup paid' = paying \cup paid,
         \A e \in EpochIds : LeavesOf(e)' = LeavesOf(e)
  PROVE  ClaimBooks'
<1>1. \A e \in EpochIds, m \in Markets : Recorded(e, m)' = Recorded(e, m)
  BY DEF Recorded
<1>2. \A e \in EpochIds, m \in Markets :
         Total([l \in Recorded(e, m) |-> l.amount])' = Total([l \in Recorded(e, m) |-> l.amount])
  BY <1>1 DEF Total, Units
<1>3. QED
  BY <1>2 DEF ClaimBooks

\* A new epoch has nothing recorded, whatever its root.
LEMMA FinishPublishBooks ==
  ASSUME DistInv, ClaimBooks, FinishPublish
  PROVE  ClaimBooks'
<1>1. /\ UNCHANGED <<epochClaimed, paying, paid>>
      /\ draft \in Roots /\ lastEpoch \in Nat /\ lastEpoch < MaxEpochs
  BY DEF FinishPublish, epochVars, DistInv, DistTypeOK
<1>2. PICK new \in EpochIds : new = lastEpoch + 1
  BY <1>1, DistributorAssumption DEF EpochIds
<1> DEFINE epoch == [poolLeaves |-> draft.poolLeaves, leaves |-> draft.leaves,
                     publishedAt |-> now, vetoed |-> FALSE]
<1>3. epochs' = [epochs EXCEPT ![new] = epoch]
  BY <1>2 DEF FinishPublish
<1>4. /\ epochs \in [EpochIds -> Epoch \cup {NoRoot}]
      /\ draft \in Root /\ IsFiniteSet(draft.leaves) /\ epoch \in Epoch
  <2>1. now \in Nat /\ draft \in Root /\ IsFiniteSet(draft.leaves)
    BY <1>1, DistributorAssumption DEF DistInv, VaultInv, HookInv, HookTypeOK
  <2>2. QED
    BY <2>1 DEF DistInv, DistTypeOK, Root, Epoch
<1>5. /\ LeavesOf(new)' = draft.leaves
      /\ \A e \in EpochIds \ {new} : LeavesOf(e)' = LeavesOf(e)
  <2>1. epochs'[new] = epoch /\ \A e \in EpochIds \ {new} : epochs'[e] = epochs[e]
    BY <1>3, <1>4
  <2>2. epoch # NoRoot /\ epoch.leaves = draft.leaves
    BY <1>4, DistributorAssumption
  <2> HIDE DEF epoch
  <2>3. QED
    BY <2>1, <2>2 DEF LeavesOf, Published
<1>6. \A l : <<new, l>> \notin paying \cup paid
  <2>1. ~Published(new)
    BY <1>1, <1>2 DEF DistInv, PublishedInOrder
  <2>2. QED
    BY <2>1 DEF DistInv, LeavesMarked
<1>7. \A e \in EpochIds, m \in Markets : Recorded(e, m)' = Recorded(e, m)
  BY <1>1, <1>5, <1>6 DEF Recorded
<1>8. \A e \in EpochIds, m \in Markets :
         Total([l \in Recorded(e, m) |-> l.amount])' = Total([l \in Recorded(e, m) |-> l.amount])
  BY <1>7 DEF Total, Units
<1>9. \A e \in EpochIds : IsFiniteSet(LeavesOf(e))'
  <2>1. ASSUME NEW e \in EpochIds PROVE IsFiniteSet(LeavesOf(e)')
    <3>1. CASE e = new
      BY <1>4, <1>5, <3>1
    <3>2. CASE e # new
      BY <1>5, <3>2 DEF ClaimBooks
    <3>3. QED
      BY <3>1, <3>2
  <2>2. QED
    BY <2>1 DEF IsFiniteSet
<1>10. QED
  BY <1>1, <1>8, <1>9 DEF ClaimBooks

\* A veto changes no leaf of the epoch's root.
LEMMA VetoBooks ==
  ASSUME DistInv, ClaimBooks, NEW v \in EpochIds, VetoEpoch(v)
  PROVE  ClaimBooks'
<1>1. /\ UNCHANGED <<epochClaimed, paying, paid>> /\ Published(v)
      /\ epochs' = [epochs EXCEPT ![v].vetoed = TRUE]
  BY DEF VetoEpoch
<1>2. epochs \in [EpochIds -> Epoch \cup {NoRoot}]
  BY DEF DistInv, DistTypeOK
<1>3. /\ \A e \in EpochIds \ {v} : epochs'[e] = epochs[e]
      /\ epochs'[v] = [epochs[v] EXCEPT !.vetoed = TRUE] /\ epochs[v] \in Epoch
  BY <1>1, <1>2 DEF Published
<1>4. /\ epochs'[v] \in Epoch /\ epochs'[v].leaves = epochs[v].leaves
      /\ epochs'[v] # NoRoot
  BY <1>3, DistributorAssumption DEF Epoch
<1>5. \A e \in EpochIds : LeavesOf(e)' = LeavesOf(e)
  BY <1>1, <1>3, <1>4 DEF LeavesOf, Published
<1>6. QED
  BY <1>1, <1>5, ClaimBooksKept

\* A recorded leaf is new, and adds its amount; one worth nothing only its mark.
LEMMA RecordBooks ==
  ASSUME DistInv, ClaimBooks, NEW e \in EpochIds, NEW l \in LeavesOf(e), Record(e, l)
  PROVE  ClaimBooks'
<1> DEFINE m == l.market
           x == <<e, l>>
<1>1. /\ UNCHANGED <<epochs, paid>>
      /\ paying' = IF l.amount = 0 THEN paying ELSE paying \cup {x}
      /\ epochClaimed' = [epochClaimed EXCEPT ![e][m] = @ + l.amount]
      /\ l.index \notin claimed[e][m]
  BY DEF Record
<1>2. /\ \A d \in EpochIds : LeavesOf(d)' = LeavesOf(d) /\ IsFiniteSet(LeavesOf(d))
      /\ l \in Leaf /\ m \in Markets /\ l.amount \in Nat
      /\ LeavesOf(e) \subseteq Leaf
  BY <1>1 DEF LeavesOf, Published, DistInv, DistTypeOK, Epoch, Leaf, ClaimBooks
<1>3. x \notin paying \cup paid
  BY <1>1 DEF DistInv, LeavesMarked
<1>4. /\ epochClaimed'[e][m] = epochClaimed[e][m] + l.amount
      /\ epochClaimed[e][m] \in Nat
      /\ \A d \in EpochIds, n \in Markets :
            <<d, n>> # <<e, m>> => epochClaimed'[d][n] = epochClaimed[d][n]
  BY <1>1, <1>2 DEF DistInv, DistTypeOK
<1>5. ASSUME NEW d \in EpochIds, NEW n \in Markets, <<d, n>> # <<e, m>>
      PROVE  epochClaimed'[d][n] = Total([k \in Recorded(d, n) |-> k.amount])'
  <2>1. Recorded(d, n)' = Recorded(d, n)
    BY <1>1, <1>2, <1>5 DEF Recorded
  <2>2. Total([k \in Recorded(d, n) |-> k.amount])' = Total([k \in Recorded(d, n) |-> k.amount])
    BY <2>1 DEF Total, Units
  <2>3. QED
    BY <1>4, <1>5, <2>2 DEF ClaimBooks
<1>6. epochClaimed'[e][m] = Total([k \in Recorded(e, m) |-> k.amount])'
  <2>1. CASE l.amount = 0
    <3>1. Recorded(e, m)' = Recorded(e, m)
      BY <1>1, <1>2, <2>1 DEF Recorded
    <3>2. Total([k \in Recorded(e, m) |-> k.amount])' = Total([k \in Recorded(e, m) |-> k.amount])
      BY <3>1 DEF Total, Units
    <3>3. epochClaimed'[e][m] = epochClaimed[e][m]
      BY <1>4, <2>1
    <3>4. QED
      BY <1>2, <3>2, <3>3 DEF ClaimBooks
  <2>2. CASE l.amount # 0
    <3> DEFINE S == Recorded(e, m)
               f == [k \in S |-> k.amount]
               g == [k \in S \cup {l} |-> k.amount]
    <3>1. Recorded(e, m)' = S \cup {l}
      BY <1>1, <1>2, <2>2 DEF Recorded
    <3>2. Total([k \in Recorded(e, m) |-> k.amount])' = Total(g)
      BY <3>1 DEF Total, Units
    <3>3. IsFiniteSet(S) /\ l \notin S /\ S \subseteq Leaf
      BY <1>2, <1>3, FS_Subset DEF Recorded
    <3>4. /\ f \in [S -> Nat] /\ g \in [S \cup {l} -> Nat]
          /\ g[l] = l.amount /\ \A k \in S : g[k] = f[k]
      BY <1>2, <3>3 DEF Leaf
    <3>5. epochClaimed[e][m] = Total(f)
      BY <1>2 DEF ClaimBooks
    <3> HIDE DEF S, f, g
    <3>6. Total(g) = Total(f) + l.amount
      BY <1>2, <3>3, <3>4, TotalInsert
    <3>7. QED
      BY <1>4, <3>2, <3>5, <3>6
  <2>3. QED
    BY <2>1, <2>2
<1>7. \A d \in EpochIds, n \in Markets :
         epochClaimed'[d][n] = Total([k \in Recorded(d, n) |-> k.amount])'
  BY <1>5, <1>6
<1>8. \A d \in EpochIds : IsFiniteSet(LeavesOf(d))'
  <2>1. ASSUME NEW d \in EpochIds PROVE IsFiniteSet(LeavesOf(d)')
    BY <1>2
  <2>2. QED
    BY <2>1 DEF IsFiniteSet
<1> HIDE DEF m, x
<1>9. QED
  BY <1>7, <1>8 DEF ClaimBooks

LEMMA StepClaimBooks ==
  DistInv /\ ClaimBooks /\ [DistNext]_allDistVars => ClaimBooks'
<1> SUFFICES ASSUME DistInv, ClaimBooks, [DistNext]_allDistVars PROVE ClaimBooks'
  OBVIOUS
<1>1. ASSUME UNCHANGED <<epochs, epochClaimed, paying, paid>> PROVE ClaimBooks'
  <2>1. \A e \in EpochIds : LeavesOf(e)' = LeavesOf(e)
    BY <1>1 DEF LeavesOf, Published
  <2>2. QED
    BY <1>1, <2>1, ClaimBooksKept
<1>2. ASSUME NEW root \in Roots, BeginPublish(root) PROVE ClaimBooks'
  BY <1>1, <1>2 DEF BeginPublish, epochVars
<1>3. ASSUME NEW m, NEW total, Reserve(m, total) PROVE ClaimBooks'
  BY <1>1, <1>3 DEF Reserve
<1>4. CASE FinishPublish
  BY <1>4, FinishPublishBooks
<1>5. ASSUME NEW e \in EpochIds, VetoEpoch(e) PROVE ClaimBooks'
  BY <1>5, VetoBooks
<1>6. ASSUME NEW e \in EpochIds, NEW m \in Markets, ReleaseEpoch(e, m) PROVE ClaimBooks'
  BY <1>1, <1>6 DEF ReleaseEpoch
<1>7. ASSUME NEW e \in EpochIds, NEW l \in LeavesOf(e), Record(e, l) PROVE ClaimBooks'
  BY <1>7, RecordBooks
<1>8. ASSUME NEW e \in EpochIds, NEW l \in LeavesOf(e), PayLeaf(e, l) PROVE ClaimBooks'
  <2>1. /\ UNCHANGED <<epochs, epochClaimed>>
        /\ paying' \cup paid' = paying \cup paid
    BY <1>8 DEF PayLeaf, epochVars
  <2>2. \A d \in EpochIds : LeavesOf(d)' = LeavesOf(d)
    BY <2>1 DEF LeavesOf, Published
  <2>3. QED
    BY <2>1, <2>2, ClaimBooksKept
<1>9. CASE UnlockToPay
  BY <1>1, <1>9 DEF UnlockToPay, epochVars
<1>10. CASE OtherStep
  BY <1>1, <1>10 DEF OtherStep, distVars, epochVars
<1>11. CASE UNCHANGED allDistVars
  BY <1>1, <1>11 DEF allDistVars, distVars, epochVars
<1>12. QED
  BY <1>2, <1>3, <1>4, <1>5, <1>6, <1>7, <1>8, <1>9, <1>10, <1>11
  DEF DistNext, DistributorStep, PublishStep, OwnerStep, RewardStep

\* What an honest root still owes a holder fits beside what it already paid: the
\* recorded leaves and this one are different leaves of the market.
LEMMA HonestFits == DistInv /\ ClaimBooks => HonestLeavesFit
<1> SUFFICES ASSUME DistInv, ClaimBooks, NEW e \in EpochIds, NEW m \in Markets,
                    Published(e), HonestFor(e, m),
                    NEW l \in LeavesOf(e), l.market = m, l.index \notin claimed[e][m]
             PROVE  epochClaimed[e][m] + l.amount <= epochTotal[e][m]
  BY DEF HonestLeavesFit
<1> DEFINE M == {k \in LeavesOf(e) : k.market = m}
           S == Recorded(e, m)
           T == S \cup {l}
           all == [k \in M |-> k.amount]
           others == [k \in M |-> IF k \in T THEN 0 ELSE k.amount]
           f == [k \in S |-> k.amount]
           g == [k \in T |-> k.amount]
<1>1. /\ LeavesOf(e) \subseteq Leaf /\ IsFiniteSet(M)
      /\ epochTotal[e][m] \in Nat /\ l.amount \in Nat
  <2>1. LeavesOf(e) \subseteq Leaf
    BY DEF LeavesOf, Published, DistInv, DistTypeOK, Epoch
  <2>2. IsFiniteSet(LeavesOf(e)) /\ M \subseteq LeavesOf(e)
    BY DEF ClaimBooks
  <2>3. QED
    BY <2>1, <2>2, FS_Subset DEF DistInv, DistTypeOK, Leaf
<1>2. Total(all) <= epochTotal[e][m]
  BY DEF HonestFor
<1>3. l \notin S
  BY DEF Recorded, DistInv, LeavesMarked
<1>4. S \subseteq M /\ T \in SUBSET M
  BY DEF Recorded
<1>5. IsFiniteSet(S)
  BY <1>1, <1>4, FS_Subset
<1>6. /\ all \in [M -> Nat] /\ others \in [M -> Nat]
      /\ f \in [S -> Nat] /\ g \in [T -> Nat]
  BY <1>1, <1>4 DEF Leaf
<1>7. /\ g[l] = l.amount /\ \A k \in S : g[k] = f[k]
      /\ \A k \in T : others[k] = 0 /\ g[k] = all[k]
      /\ \A k \in M \ T : others[k] = all[k]
  BY <1>4
<1>8. epochClaimed[e][m] = Total(f)
  BY DEF ClaimBooks
<1> HIDE DEF all, others, f, g, S
<1>9. Total(g) = Total(f) + l.amount
  <2>1. f \in [S -> Nat] /\ g \in [S \cup {l} -> Nat] /\ l.amount \in Nat
    BY <1>1, <1>6
  <2>2. g[l] = l.amount /\ \A k \in S : g[k] = f[k]
    BY <1>7
  <2>3. QED
    BY <1>3, <1>5, <2>1, <2>2, TotalInsert
<1> HIDE DEF T, M
<1>10. Total(all) = Total(others) + Total(g)
  BY <1>1, <1>4, <1>6, <1>7, TotalSplit
<1>11. Total(others) \in Nat /\ Total(f) \in Nat
  BY <1>1, <1>5, <1>6, TotalType
<1>12. QED
  BY <1>1, <1>2, <1>8, <1>9, <1>10, <1>11

LEMMA ClaimBooksStart == DistInit => ClaimBooks
<1> SUFFICES ASSUME DistInit PROVE ClaimBooks
  OBVIOUS
<1>1. \A e \in EpochIds : LeavesOf(e) = {} /\ IsFiniteSet(LeavesOf(e))
  BY FS_EmptySet DEF DistInit, LeavesOf, Published
<1>2. ASSUME NEW e \in EpochIds, NEW m \in Markets
      PROVE  epochClaimed[e][m] = Total([l \in Recorded(e, m) |-> l.amount])
  <2>1. Recorded(e, m) = {} /\ [l \in Recorded(e, m) |-> l.amount] \in [{} -> Nat]
    BY <1>1 DEF Recorded
  <2>2. Total([l \in Recorded(e, m) |-> l.amount]) = 0
    BY <2>1, TotalZero
  <2>3. QED
    BY <2>2 DEF DistInit
<1>3. QED
  BY <1>1, <1>2 DEF ClaimBooks

\* Every holder of an honest root can be paid to the end: whatever the other
\* holders claim, in whatever batches, their claims and his own leaf together
\* never exceed what the epoch set aside for the market.
THEOREM HonestHoldersCanClaim == DistSpec => []HonestLeavesFit
<1>1. DistSpec => []ClaimBooks
  BY ClaimBooksStart, StepClaimBooks, DistInvariant, PTL DEF DistSpec
<1>2. QED
  BY <1>1, HonestFits, DistInvariant, PTL

-----------------------------------------------------------------------------
\* The distributor on top of the vault implements FeeEscrow

LEMMA ReservePulls ==
  ASSUME VaultInv, NEW m \in Markets, NEW total, Reserve(m, total)
  PROVE  Escrow!EscrowNext
<1>1. /\ HookTypeOK /\ VaultTypeOK /\ UNCHANGED hookVars
      /\ PullDestination(Distributor, {m}) /\ CanPull(Distributor, {m})
  BY DEF Reserve, VaultInv, HookInv
<1>2. Registered(m) /\ ModuleOf(m) = Distributor /\ Distributor \in Modules
  BY <1>1 DEF CanPull, Distributor, Modules, Holders, Vault
<1>3. Escrow!Pull(m)
  BY <1>1, <1>2, PullIsPull
<1>4. QED
  BY <1>3 DEF Escrow!EscrowNext, Escrow!Markets, Markets

LEMMA PayLeafSpends ==
  ASSUME VaultTypeOK, DistTypeOK, NEW e \in EpochIds, NEW l, PayLeaf(e, l)
  PROVE  Escrow!EscrowNext \/ Unseen
<1> DEFINE q == l.market[2]
           n == l.amount
           before == [x \in Modules |-> claims[x]]
           after == [x \in Modules |-> claims'[x]]
<1>1. q \in Quotes /\ n \in Nat
  <2>1. l \in Leaf
    BY DEF PayLeaf, DistTypeOK
  <2>2. QED
    BY <2>1 DEF Leaf, Markets
<1>2. /\ claims \in [Holders -> Amount] /\ Distributor \in Modules /\ Modules \subseteq Holders
      /\ claims' = [claims EXCEPT ![Distributor][q] = @ - n]
      /\ n <= claims[Distributor][q]
      /\ UNCHANGED hookVars /\ destinationPending' = destinationPending
  BY DEF PayLeaf, VaultTypeOK, Modules, Holders, Distributor, Vault, ledgers
<1>3. claims[Distributor][q] \in Nat
  BY <1>1, <1>2 DEF Amount
<1> HIDE DEF q, n
<1>4. after = [before EXCEPT ![Distributor][q] = @ - n]
  BY <1>2
<1>5. CASE n = 0
  <2>1. claims[Distributor][q] - n = claims[Distributor][q]
    BY <1>3, <1>5
  <2>2. claims'[Distributor] = claims[Distributor]
    BY <1>1, <1>2, <2>1 DEF Amount
  <2>3. \A h \in Modules : claims'[h] = claims[h]
    BY <1>2, <2>2
  <2>4. QED
    BY <1>2, <2>3, QuietIsUnseen DEF hookVars
<1>6. CASE n # 0
  <2>1. n \in 1 .. before[Distributor][q]
    BY <1>1, <1>2, <1>3, <1>6
  <2>2. \A m \in Markets : ModuleAt(m)' = ModuleAt(m) /\ ShareOf(m)' = ShareOf(m)
    BY <1>2 DEF hookVars, ModuleAt, ShareOf, Registered, ModuleOf
  <2>3. Escrow!Spend(Distributor, q)
    BY <1>4, <2>1, <2>2 DEF Escrow!Spend, ModuleAt, ShareOf, Modules
  <2>4. QED
    BY <1>1, <1>2, <2>3 DEF Escrow!EscrowNext, Modules
<1>7. QED
  BY <1>5, <1>6

LEMMA DistSteps ==
  ASSUME DistInv, [DistNext]_allDistVars
  PROVE  [Escrow!EscrowNext]_(Escrow!escrowVars)
<1>1. VaultInv /\ VaultTypeOK /\ DistTypeOK
  BY DEF DistInv, VaultInv
<1>2. CASE UNCHANGED allVaultVars
  BY <1>1, <1>2, EscrowSteps
<1>3. CASE PublishStep
  BY <1>1, <1>2, <1>3, ReservePulls DEF PublishStep, BeginPublish, FinishPublish
<1>4. CASE OwnerStep
  BY <1>2, <1>4 DEF OwnerStep, VetoEpoch, ReleaseEpoch
<1>5. CASE RewardStep
  <2>1. ASSUME NEW e \in EpochIds, NEW l \in LeavesOf(e), PayLeaf(e, l)
        PROVE  Escrow!EscrowNext \/ Unseen
    BY <1>1, <2>1, PayLeafSpends
  <2>2. QED
    BY <1>2, <1>5, <2>1, UnseenStutters DEF RewardStep, Record, UnlockToPay
<1>6. CASE OtherStep
  <2>1. VaultNext
    BY <1>6, InsideIsVaultStep DEF OtherStep, VaultNext
  <2>2. QED
    BY <1>1, <2>1, EscrowSteps
<1>7. CASE UNCHANGED allDistVars
  BY <1>2, <1>7 DEF allDistVars
<1>8. QED
  BY <1>3, <1>4, <1>5, <1>6, <1>7 DEF DistNext, DistributorStep

\* The distributor uses the vault as FeeEscrow says: each reservation is one
\* whole pull for a market of its own, each leaf it pays spends what it holds,
\* and nothing a recipient does in the middle of a payout, and no publication,
\* veto or release, touches another module's share.
THEOREM DistributorImplementsEscrow == DistSpec => ImplementsEscrow
<1>1. DistInit => Escrow!EscrowInit
  BY EscrowStarts DEF DistInit
<1>2. DistInv /\ [DistNext]_allDistVars => [Escrow!EscrowNext]_(Escrow!escrowVars)
  BY DistSteps
<1>3. DistSpec => []DistInv
  BY DistInvariant
<1>4. QED
  BY <1>1, <1>2, <1>3, PTL DEF DistSpec, ImplementsEscrow, Escrow!EscrowSpec

=============================================================================
