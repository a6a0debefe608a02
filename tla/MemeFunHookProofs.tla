------------------------- MODULE MemeFunHookProofs -------------------------
(***************************************************************************)
(* MemeFunHook for every set of coins, quotes, accounts and launch plans.  *)
(* The inductive invariant HookInv adds to the two safety invariants that  *)
(* no market was launched in the future, which the decay of launch         *)
(* protection needs, and that a coin nobody launched has no creator and    *)
(* nobody to become one.                                                   *)
(***************************************************************************)
EXTENDS MemeFunHook, TLAPS

-----------------------------------------------------------------------------
\* What the fee formulas guarantee for every amount, rate and share


\* A share of at most BPS of an amount is a natural number no larger than it.
LEMMA ShareBounded ==
  ASSUME NEW a \in Nat, NEW s \in 0 .. BPS
  PROVE  (a * s) \div BPS \in 0 .. a
<1>1. a * s \in Nat /\ a * s <= a * BPS
  BY BPSAssumption
<1>2. QED
  BY <1>1, BPSAssumption

\* Rounding up loses nothing: the quotient covers the dividend.
LEMMA CeilDivCovers ==
  ASSUME NEW a \in Nat, NEW b \in Nat \ {0}
  PROVE  /\ CeilDiv(a, b) \in Nat
         /\ a <= b * CeilDiv(a, b)
         /\ b * CeilDiv(a, b) < a + b
BY DEF CeilDiv

\* FeeMath.split: the four shares are natural numbers that add up to exactly
\* the fee collected, whatever the terms of the coin.
THEOREM SplitExact ==
  ASSUME NEW fee \in Nat, NEW creatorMode \in BOOLEAN, NEW hasReferrer \in BOOLEAN,
         NEW ps \in 0 .. BPS, NEW rs \in 0 .. BPS, NEW keep \in 0 .. BPS
  PROVE  IsSplitOf(Split(fee, creatorMode, ps, rs, keep, hasReferrer), fee)
<1> DEFINE platformGross == (fee * ps) \div BPS
           rest == fee - platformGross
<1>1. platformGross \in 0 .. fee
  BY ShareBounded
<1>2. platformGross \in Nat /\ rest \in Nat
  BY <1>1
<1>3. Split(fee, creatorMode, ps, rs, keep, hasReferrer) =
        LET referral == IF hasReferrer THEN (platformGross * rs) \div BPS ELSE 0
            creator == IF creatorMode THEN rest ELSE (rest * keep) \div BPS
        IN  [platform |-> platformGross - referral, referral |-> referral,
             creator |-> creator, destination |-> rest - creator]
  BY DEF Split
<1>4. platformGross + rest = fee
  BY <1>1
<1> HIDE DEF platformGross, rest
<1>5. (platformGross * rs) \div BPS \in 0 .. platformGross
  BY <1>2, ShareBounded
<1>6. (rest * keep) \div BPS \in 0 .. rest
  BY <1>2, ShareBounded
<1>7. QED
  BY <1>2, <1>3, <1>4, <1>5, <1>6 DEF IsSplitOf

\* FeeMath.launchFeeBps: the rate stays between the coin's fee and the
\* protection start (or is the coin's fee when protection is not above it).
THEOREM LaunchFeeBounded ==
  ASSUME NEW base \in Nat, NEW start \in Nat, NEW duration \in Nat, NEW elapsed \in Nat
  PROVE  LET r == LaunchFeeBps(base, start, duration, elapsed)
         IN  r \in Nat /\ base <= r /\ (r <= start \/ r = base)
<1>1. CASE duration = 0 \/ start <= base \/ elapsed >= duration
  BY <1>1 DEF LaunchFeeBps
<1>2. CASE ~(duration = 0 \/ start <= base \/ elapsed >= duration)
  <2> DEFINE gap == start - base
             left == duration - elapsed
  <2>1. gap \in Nat /\ left \in Nat /\ left <= duration /\ duration \in Nat \ {0}
    BY <1>2
  <2>2. LaunchFeeBps(base, start, duration, elapsed) = base + (gap * left) \div duration
    BY <1>2 DEF LaunchFeeBps
  <2>3. base + gap = start
    OBVIOUS
  <2> HIDE DEF gap, left
  <2>4. gap * left \in Nat /\ gap * left <= gap * duration
    BY <2>1
  <2>5. (gap * left) \div duration \in 0 .. gap
    BY <2>1, <2>4
  <2>6. QED
    BY <2>1, <2>2, <2>3, <2>5
<1>3. QED
  BY <1>1, <1>2

\* Division is monotone, and adding whole multiples passes through it.
LEMMA DivMonotone ==
  ASSUME NEW d \in Nat \ {0}, NEW a \in Nat, NEW b \in Nat, a <= b
  PROVE  /\ a \div d \in Nat
         /\ a \div d <= b \div d
OBVIOUS

LEMMA DivAddMultiple ==
  ASSUME NEW d \in Nat \ {0}, NEW a \in Nat, NEW k \in Nat
  PROVE  (a + k * d) \div d = a \div d + k
OBVIOUS

\* FeeMath.launchFeeBps: waiting never makes a trade dearer.
THEOREM LaunchFeeDecays ==
  ASSUME NEW base \in Nat, NEW start \in Nat, NEW duration \in Nat,
         NEW e1 \in Nat, NEW e2 \in Nat, e1 <= e2
  PROVE  LaunchFeeBps(base, start, duration, e2) <= LaunchFeeBps(base, start, duration, e1)
<1>1. CASE duration = 0 \/ start <= base \/ e2 >= duration
  <2>1. LaunchFeeBps(base, start, duration, e2) = base
    BY <1>1 DEF LaunchFeeBps
  <2>2. QED
    BY <2>1, LaunchFeeBounded
<1>2. CASE ~(duration = 0 \/ start <= base \/ e2 >= duration)
  <2> DEFINE gap == start - base
             l1 == duration - e1
             l2 == duration - e2
  <2>1. gap \in Nat /\ l1 \in Nat /\ l2 \in Nat /\ l2 <= l1 /\ duration \in Nat \ {0}
    BY <1>2
  <2>2. LaunchFeeBps(base, start, duration, e2) = base + (gap * l2) \div duration
    BY <1>2 DEF LaunchFeeBps
  <2>3. LaunchFeeBps(base, start, duration, e1) = base + (gap * l1) \div duration
    BY <1>2 DEF LaunchFeeBps
  <2> HIDE DEF gap, l1, l2
  <2>4. gap * l1 \in Nat /\ gap * l2 \in Nat /\ gap * l2 <= gap * l1
    BY <2>1
  <2>5. (gap * l2) \div duration \in Nat /\ (gap * l1) \div duration \in Nat
        /\ (gap * l2) \div duration <= (gap * l1) \div duration
    BY <2>1, <2>4, DivMonotone
  <2>6. QED
    BY <2>2, <2>3, <2>5
<1>3. QED
  BY <1>1, <1>2

\* MemeFunHook.lowerFee with launch protection still running: a lower base fee
\* lowers, or leaves, the rate of the very next trade.
THEOREM LaunchFeeMonotoneInBase ==
  ASSUME NEW low \in Nat, NEW high \in Nat, low <= high,
         NEW start \in Nat, NEW duration \in Nat, NEW elapsed \in Nat
  PROVE  LaunchFeeBps(low, start, duration, elapsed)
           <= LaunchFeeBps(high, start, duration, elapsed)
<1>1. CASE duration = 0 \/ start <= low \/ elapsed >= duration
  <2>1. LaunchFeeBps(low, start, duration, elapsed) = low
    BY <1>1 DEF LaunchFeeBps
  <2>2. /\ LaunchFeeBps(high, start, duration, elapsed) \in Nat
        /\ high <= LaunchFeeBps(high, start, duration, elapsed)
    BY LaunchFeeBounded
  <2>3. QED
    BY <2>1, <2>2
<1>2. CASE ~(duration = 0 \/ start <= low \/ elapsed >= duration) /\ start <= high
  <2>1. LaunchFeeBps(high, start, duration, elapsed) = high
    BY <1>2 DEF LaunchFeeBps
  <2>2. LaunchFeeBps(low, start, duration, elapsed) \in Nat
        /\ (\/ LaunchFeeBps(low, start, duration, elapsed) <= start
            \/ LaunchFeeBps(low, start, duration, elapsed) = low)
    BY LaunchFeeBounded
  <2>3. QED
    BY <1>2, <2>1, <2>2
<1>3. CASE ~(duration = 0 \/ start <= high \/ elapsed >= duration)
  <2> DEFINE k == high - low
             gap == start - high
             left == duration - elapsed
             wide == start - low
  <2>1. /\ k \in Nat /\ gap \in Nat /\ left \in Nat /\ left <= duration
        /\ duration \in Nat \ {0} /\ wide = gap + k /\ low + k = high /\ wide \in Nat
    BY <1>3
  <2>2. LaunchFeeBps(low, start, duration, elapsed) = low + (wide * left) \div duration
    BY <1>3 DEF LaunchFeeBps
  <2>3. LaunchFeeBps(high, start, duration, elapsed) = high + (gap * left) \div duration
    BY <1>3 DEF LaunchFeeBps
  <2> HIDE DEF k, gap, left, wide
  <2>4. /\ gap * left \in Nat /\ wide * left \in Nat
        /\ wide * left <= gap * left + k * duration
    <3>1. k * left <= k * duration /\ k * left \in Nat /\ k * duration \in Nat
      BY <2>1
    <3>2. wide * left = gap * left + k * left
      BY <2>1
    <3>3. gap * left \in Nat
      BY <2>1
    <3>4. QED
      BY <3>1, <3>2, <3>3
  <2>5. (wide * left) \div duration <= (gap * left + k * duration) \div duration
    <3>1. gap * left + k * duration \in Nat
      BY <2>1
    <3>2. QED
      BY <3>1, <2>1, <2>4, DivMonotone
  <2>6. (gap * left + k * duration) \div duration = (gap * left) \div duration + k
    BY <2>1, <2>4, DivAddMultiple
  <2>7. (gap * left) \div duration \in Nat /\ (wide * left) \div duration \in Nat
    BY <2>1, <2>4, DivMonotone
  <2>8. QED
    BY <2>1, <2>2, <2>3, <2>5, <2>6, <2>7
<1>4. QED
  BY <1>1, <1>2, <1>3

\* FeeMath.onGross never charges more than the amount itself.
THEOREM OnGrossBounded ==
  ASSUME NEW amount \in Nat, NEW feeBps \in 0 .. BPS
  PROVE  OnGross(amount, feeBps) \in 0 .. amount
<1>1. amount * feeBps \in Nat /\ amount * feeBps <= BPS * amount
  BY BPSAssumption
<1>2. /\ CeilDiv(amount * feeBps, BPS) \in Nat
      /\ BPS * CeilDiv(amount * feeBps, BPS) < amount * feeBps + BPS
  BY <1>1, BPSAssumption, CeilDivCovers
<1> DEFINE q == CeilDiv(amount * feeBps, BPS)
<1> HIDE DEF q
<1>3. q \in Nat /\ BPS * q < BPS * amount + BPS
  BY <1>1, <1>2, BPSAssumption DEF q
<1>4. q <= amount
  <2>1. SUFFICES ASSUME q >= amount + 1 PROVE FALSE
    BY <1>3
  <2>2. BPS * q >= BPS * (amount + 1)
    BY <2>1, <1>3, BPSAssumption
  <2>3. QED
    BY <2>2, <1>3, BPSAssumption
<1>5. QED
  BY <1>3, <1>4 DEF OnGross, q

\* FeeMath.onGross and onNet agree: a trade whose net side is fixed pays the
\* fee that an exact-input trade of the same gross amount pays.
THEOREM GrossNetAgree ==
  ASSUME NEW net \in Nat, NEW feeBps \in 0 .. BPS - 1
  PROVE  OnGross(net + OnNet(net, feeBps), feeBps) = OnNet(net, feeBps)
<1> DEFINE f == OnNet(net, feeBps)
           keep == BPS - feeBps
           gross == net + f
<1>1. keep \in Nat \ {0} /\ feeBps \in Nat /\ keep + feeBps = BPS /\ BPS \in Nat \ {0}
  BY BPSAssumption
<1>2. net * feeBps \in Nat
  BY <1>1
<1>3. f \in Nat /\ net * feeBps <= keep * f /\ keep * f < net * feeBps + keep
  BY <1>1, <1>2, CeilDivCovers DEF OnNet
<1>4. gross * feeBps <= BPS * f
  BY <1>1, <1>2, <1>3
<1>5. BPS * f < gross * feeBps + BPS
  BY <1>1, <1>2, <1>3
<1>6. gross \in Nat /\ gross * feeBps \in Nat
  BY <1>1, <1>3
<1> DEFINE q == CeilDiv(gross * feeBps, BPS)
<1>7. q \in Nat /\ gross * feeBps <= BPS * q /\ BPS * q < gross * feeBps + BPS
  BY <1>1, <1>6, CeilDivCovers
<1>8. OnGross(gross, feeBps) = q
  BY DEF OnGross
<1>9. \A a, b \in Nat : BPS * a < BPS * b + BPS => a <= b
  BY <1>1
<1> HIDE DEF q, f, gross, keep
<1>10. BPS * q < BPS * f + BPS /\ BPS * f < BPS * q + BPS
  BY <1>1, <1>3, <1>4, <1>5, <1>6, <1>7
<1>11. q = f
  BY <1>3, <1>7, <1>9, <1>10
<1>12. QED
  BY <1>8, <1>11 DEF f, gross

-----------------------------------------------------------------------------
\* The registry

LaunchedBefore == \A m \in Markets : Registered(m) => pools[m].launchedAt <= now

UnlaunchedIsNobodys ==
    \A coin \in Coins : ~Known(coin) =>
        creatorOf[coin] = NoAccount /\ pendingCreatorOf[coin] = NoAccount

HookInv ==
    /\ HookTypeOK
    /\ OneSetOfTerms
    /\ ProposalIsCurrent
    /\ LaunchedBefore
    /\ UnlaunchedIsNobodys

LEMMA RegisteredType ==
  ASSUME HookTypeOK, NEW m \in Markets
  PROVE  Registered(m) <=> pools[m] \in PoolConfig
BY DEF HookTypeOK, Registered, PoolConfig, NoPool, Modes

LEMMA TermsOfType ==
  ASSUME NEW p \in LaunchPlans, now \in Nat
  PROVE  TermsOf(p) \in PoolConfig /\ TermsOf(p).launchedAt = now
BY HookAssumption, BPSAssumption DEF TermsOf, PoolConfig

LEMMA RegisterInv ==
  ASSUME HookInv, NEW p \in LaunchPlans, RegisterPools(p)
  PROVE  HookInv'
<1> USE DEF HookInv
<1>1. p.coin \in Coins /\ p.creator \in Accounts /\ p.quotes \subseteq Quotes
      /\ p.primary \in p.quotes
  BY HookAssumption
<1>2. TermsOf(p) \in PoolConfig /\ TermsOf(p).launchedAt = now /\ TermsOf(p) # NoPool
  BY TermsOfType DEF HookTypeOK, PoolConfig, NoPool, Modes
<1>3. HookTypeOK'
  BY <1>1, <1>2, HookAssumption DEF RegisterPools, HookTypeOK, Known
<1>4. \A q \in Quotes : ~Registered(<<p.coin, q>>)
  BY <1>1 DEF RegisterPools, OneSetOfTerms, MarketsOf, Markets
<1>5. OneSetOfTerms'
  <2> SUFFICES ASSUME NEW coin \in Coins, NEW m \in MarketsOf(coin)'
               PROVE  Known(coin)' /\ pools'[m] = pools'[PrimaryMarket(coin)']
    BY DEF OneSetOfTerms
  <2>1. m \in Markets /\ m[1] = coin /\ m = <<m[1], m[2]>> /\ m[2] \in Quotes
    BY DEF MarketsOf, Markets
  <2>2. CASE coin = p.coin
    <3>1. Known(coin)' /\ PrimaryMarket(coin)' = <<coin, p.primary>>
      BY <2>2, <1>1, HookAssumption DEF RegisterPools, Known, PrimaryMarket, HookTypeOK
    <3>2. m[2] \in p.quotes
      BY <2>1, <2>2, <1>4 DEF RegisterPools, MarketsOf, Registered
    <3>3. QED
      BY <2>1, <2>2, <3>1, <3>2, <1>1 DEF RegisterPools, Markets
  <2>3. CASE coin # p.coin
    <3>1. primary'[coin] = primary[coin]
      BY <2>3 DEF RegisterPools, HookTypeOK
    <3>2. pools'[m] = pools[m]
      BY <2>1, <2>3 DEF RegisterPools
    <3>3. m \in MarketsOf(coin)
      BY <3>2, <2>1 DEF MarketsOf, Registered
    <3>4. Known(coin) /\ pools[m] = pools[PrimaryMarket(coin)]
      BY <3>3 DEF OneSetOfTerms
    <3>5. PrimaryMarket(coin) \in Markets /\ PrimaryMarket(coin)[1] = coin
      BY <3>4 DEF Known, PrimaryMarket, Markets, HookTypeOK
    <3>6. pools'[PrimaryMarket(coin)] = pools[PrimaryMarket(coin)]
      BY <2>3, <3>5 DEF RegisterPools
    <3>7. QED
      BY <3>1, <3>2, <3>4, <3>6 DEF Known, PrimaryMarket
  <2>4. QED
    BY <2>2, <2>3
<1>6. pendingCreatorOf[p.coin] = NoAccount
  BY <1>1 DEF RegisterPools, UnlaunchedIsNobodys
<1>7. ProposalIsCurrent'
  BY <1>1, <1>6 DEF RegisterPools, ProposalIsCurrent, HookTypeOK
<1>8. LaunchedBefore'
  BY <1>2 DEF RegisterPools, LaunchedBefore, Registered, HookTypeOK
<1>9. UnlaunchedIsNobodys'
  BY <1>1, HookAssumption DEF RegisterPools, UnlaunchedIsNobodys, Known, HookTypeOK
<1>10. QED
  BY <1>3, <1>5, <1>7, <1>8, <1>9

LEMMA LowerFeeInv ==
  ASSUME HookInv, NEW caller \in Accounts, NEW coin \in Coins, NEW fee \in 0 .. BPS,
         LowerFee(caller, coin, fee)
  PROVE  HookInv'
<1> USE DEF HookInv
<1>1. \A m \in MarketsOf(coin) : /\ pools[m] \in PoolConfig
                                 /\ [pools[m] EXCEPT !.feeBps = fee] \in PoolConfig
                                 /\ [pools[m] EXCEPT !.feeBps = fee] # NoPool
  BY RegisteredType, BPSAssumption DEF MarketsOf, PoolConfig, NoPool, Modes
<1>2. HookTypeOK'
  BY <1>1 DEF LowerFee, HookTypeOK, Known
<1>3. \A c \in Coins : MarketsOf(c)' = MarketsOf(c)
  BY <1>1 DEF LowerFee, MarketsOf, Registered
<1>4. OneSetOfTerms'
  <2> SUFFICES ASSUME NEW c \in Coins, NEW m \in MarketsOf(c)
               PROVE  Known(c) /\ pools'[m] = pools'[PrimaryMarket(c)]
    BY <1>3 DEF OneSetOfTerms, LowerFee, Known, PrimaryMarket
  <2>1. /\ Known(c) /\ pools[m] = pools[PrimaryMarket(c)]
        /\ m \in Markets /\ m[1] = c /\ Registered(m)
    BY DEF OneSetOfTerms, MarketsOf
  <2>2. PrimaryMarket(c) \in MarketsOf(c)
    BY <2>1 DEF PrimaryMarket, MarketsOf, Markets, Registered, Known, HookTypeOK
  <2>3. m \in MarketsOf(coin) <=> PrimaryMarket(c) \in MarketsOf(coin)
    BY <2>1, <2>2 DEF MarketsOf
  <2>4. PrimaryMarket(c) \in Markets
    BY <2>2 DEF MarketsOf
  <2>5. QED
    BY <2>1, <2>3, <2>4 DEF LowerFee
<1>5. LaunchedBefore'
  <2> SUFFICES ASSUME NEW m \in Markets, Registered(m)'
               PROVE  pools'[m].launchedAt <= now'
    BY DEF LaunchedBefore
  <2>1. CASE m \in MarketsOf(coin)
    <3>1. pools'[m] = [pools[m] EXCEPT !.feeBps = fee] /\ pools[m] \in PoolConfig
      BY <2>1, <1>1 DEF LowerFee
    <3>2. pools'[m].launchedAt = pools[m].launchedAt
      BY <3>1 DEF PoolConfig
    <3>3. QED
      BY <2>1, <3>2 DEF LaunchedBefore, MarketsOf, LowerFee
  <2>2. CASE m \notin MarketsOf(coin)
    BY <2>2 DEF LaunchedBefore, LowerFee, Registered
  <2>3. QED
    BY <2>1, <2>2
<1>6. ProposalIsCurrent' /\ UnlaunchedIsNobodys'
  BY DEF LowerFee, ProposalIsCurrent, UnlaunchedIsNobodys, Known
<1>7. QED
  BY <1>2, <1>4, <1>5, <1>6

\* Steps that leave the registry alone keep what is said about it.
LEMMA RegistryUnchanged ==
  ASSUME OneSetOfTerms, LaunchedBefore, now \in Nat, now' \in Nat, now <= now',
         HookTypeOK, UNCHANGED <<pools, primary>>
  PROVE  OneSetOfTerms' /\ LaunchedBefore'
<1>1. OneSetOfTerms'
  BY DEF OneSetOfTerms, MarketsOf, Registered, Known, PrimaryMarket
<1>2. LaunchedBefore'
  BY RegisteredType DEF LaunchedBefore, Registered, PoolConfig
<1>3. QED
  BY <1>1, <1>2

LEMMA RoleStepInv ==
  ASSUME HookInv, NEW caller \in Accounts, NEW coin \in Coins,
         \/ \E proposed \in Accounts \cup {NoAccount} : ProposeCreator(caller, coin, proposed)
         \/ AcceptCreator(caller, coin)
  PROVE  HookInv'
<1> USE DEF HookInv
<1>1. creatorOf[coin] # NoAccount \/ pendingCreatorOf[coin] # NoAccount
  BY HookAssumption DEF ProposeCreator, AcceptCreator
<1>2. Known(coin)
  BY <1>1 DEF UnlaunchedIsNobodys
<1>3. UNCHANGED <<pools, primary, now>>
  BY DEF ProposeCreator, AcceptCreator
<1>4. OneSetOfTerms' /\ LaunchedBefore'
  BY <1>3, RegistryUnchanged DEF HookTypeOK
<1>5. CASE \E proposed \in Accounts \cup {NoAccount} : ProposeCreator(caller, coin, proposed)
  <2> PICK proposed \in Accounts \cup {NoAccount} : ProposeCreator(caller, coin, proposed)
    BY <1>5
  <2>1. HookTypeOK'
    BY DEF ProposeCreator, HookTypeOK, Known
  <2>2. ProposalIsCurrent'
    BY DEF ProposeCreator, ProposalIsCurrent, HookTypeOK
  <2>3. UnlaunchedIsNobodys'
    BY <1>2 DEF ProposeCreator, UnlaunchedIsNobodys, Known, HookTypeOK
  <2>4. QED
    BY <1>4, <2>1, <2>2, <2>3
<1>6. CASE AcceptCreator(caller, coin)
  <2>1. HookTypeOK'
    BY <1>2, <1>6 DEF AcceptCreator, HookTypeOK, Known
  <2>2. ProposalIsCurrent'
    BY <1>6 DEF AcceptCreator, ProposalIsCurrent, HookTypeOK
  <2>3. UnlaunchedIsNobodys'
    BY <1>2, <1>6 DEF AcceptCreator, UnlaunchedIsNobodys, Known, HookTypeOK
  <2>4. QED
    BY <1>4, <2>1, <2>2, <2>3
<1>7. QED
  BY <1>5, <1>6

LEMMA TickInv ==
  ASSUME HookInv, Tick
  PROVE  HookInv'
<1> USE DEF HookInv
<1>1. now' \in Nat /\ now <= now' /\ HookTypeOK'
  BY DEF Tick, HookTypeOK, Known
<1>2. OneSetOfTerms' /\ LaunchedBefore'
  BY <1>1, RegistryUnchanged DEF Tick, HookTypeOK
<1>3. ProposalIsCurrent' /\ UnlaunchedIsNobodys'
  BY DEF Tick, ProposalIsCurrent, UnlaunchedIsNobodys, Known
<1>4. QED
  BY <1>1, <1>2, <1>3

LEMMA HookInitInv == HookInit => HookInv
BY HookAssumption DEF HookInit, HookInv, HookTypeOK, Known, OneSetOfTerms, MarketsOf, Registered,
   ProposalIsCurrent, LaunchedBefore, UnlaunchedIsNobodys

LEMMA HookNextInv == HookInv /\ [HookNext]_hookVars => HookInv'
<1> SUFFICES ASSUME HookInv, [HookNext]_hookVars PROVE HookInv'
  OBVIOUS
<1>1. CASE \E p \in LaunchPlans : RegisterPools(p)
  BY <1>1, RegisterInv
<1>2. CASE CreatorStep
  BY <1>2, LowerFeeInv, RoleStepInv DEF CreatorStep
<1>3. CASE Tick
  BY <1>3, TickInv
<1>4. CASE UNCHANGED hookVars
  BY <1>4 DEF hookVars, HookInv, HookTypeOK, OneSetOfTerms, MarketsOf, Registered,
     ProposalIsCurrent, LaunchedBefore, UnlaunchedIsNobodys, Known, PrimaryMarket
<1>5. QED
  BY <1>1, <1>2, <1>3, <1>4 DEF HookNext

THEOREM HookInvariant == HookSpec => []HookInv
BY HookInitInv, HookNextInv, PTL DEF HookSpec

\* MemeFunHook: every variable keeps its type in every behaviour.
THEOREM HookTypeCorrect == HookSpec => []HookTypeOK
<1>1. HookInv => HookTypeOK
  BY DEF HookInv
<1>2. QED
  BY <1>1, HookInvariant, PTL

\* lowerFee and registerPool keep one set of terms on all markets of a coin.
THEOREM TermsAgree == HookSpec => []OneSetOfTerms
<1>1. HookInv => OneSetOfTerms
  BY DEF HookInv
<1>2. QED
  BY <1>1, HookInvariant, PTL

\* proposeCreator and acceptCreator: no proposal outlives its proposer's role.
THEOREM ProposalsStayCurrent == HookSpec => []ProposalIsCurrent
<1>1. HookInv => ProposalIsCurrent
  BY DEF HookInv
<1>2. QED
  BY <1>1, HookInvariant, PTL

\* The rate of an unchanged market, or of one whose fee was lowered, at the
\* same time or later.
LEMMA RateFalls ==
  ASSUME NEW c \in PoolConfig, NEW fee \in Nat, fee <= c.feeBps,
         NEW t1 \in Nat, NEW t2 \in Nat, c.launchedAt <= t1, t1 <= t2
  PROVE  RateOf([c EXCEPT !.feeBps = fee], t2) <= RateOf(c, t1)
<1> DEFINE d == [c EXCEPT !.feeBps = fee]
           e1 == t1 - c.launchedAt
           e2 == t2 - c.launchedAt
<1>1. /\ c.feeBps \in Nat /\ c.protectionStartBps \in Nat
      /\ c.protectionDurationSec \in Nat /\ c.launchedAt \in Nat
  BY BPSAssumption DEF PoolConfig
<1>2. /\ d.feeBps = fee /\ d.protectionStartBps = c.protectionStartBps
      /\ d.protectionDurationSec = c.protectionDurationSec
      /\ d.launchedAt = c.launchedAt
  BY DEF PoolConfig
<1>3. e1 \in Nat /\ e2 \in Nat /\ e1 <= e2
  BY <1>1
<1>4. RateOf(d, t2) = LaunchFeeBps(fee, c.protectionStartBps, c.protectionDurationSec, e2)
  BY <1>2 DEF RateOf
<1>5. RateOf(c, t1) = LaunchFeeBps(c.feeBps, c.protectionStartBps, c.protectionDurationSec, e1)
  BY DEF RateOf
<1> HIDE DEF d, e1, e2
<1>6. LaunchFeeBps(fee, c.protectionStartBps, c.protectionDurationSec, e2)
        <= LaunchFeeBps(c.feeBps, c.protectionStartBps, c.protectionDurationSec, e2)
  BY <1>1, <1>3, LaunchFeeMonotoneInBase
<1>7. LaunchFeeBps(c.feeBps, c.protectionStartBps, c.protectionDurationSec, e2)
        <= LaunchFeeBps(c.feeBps, c.protectionStartBps, c.protectionDurationSec, e1)
  BY <1>1, <1>3, LaunchFeeDecays
<1>8. /\ LaunchFeeBps(fee, c.protectionStartBps, c.protectionDurationSec, e2) \in Nat
      /\ LaunchFeeBps(c.feeBps, c.protectionStartBps, c.protectionDurationSec, e2) \in Nat
      /\ LaunchFeeBps(c.feeBps, c.protectionStartBps, c.protectionDurationSec, e1) \in Nat
  BY <1>1, <1>3, LaunchFeeBounded
<1>9. RateOf(d, t2) <= RateOf(c, t1)
  BY <1>4, <1>5, <1>6, <1>7, <1>8
<1>10. QED
  BY <1>9 DEF d

LEMMA RateStep ==
  ASSUME HookInv, [HookNext]_hookVars, NEW m \in Markets, Registered(m)
  PROVE  Registered(m)' /\ Rate(m)' <= Rate(m)
<1> DEFINE c == pools[m]
<1>1. /\ c \in PoolConfig /\ c.launchedAt <= now /\ now \in Nat /\ c.feeBps \in Nat
      /\ c = [c EXCEPT !.feeBps = c.feeBps]
  BY RegisteredType DEF HookInv, LaunchedBefore, HookTypeOK, PoolConfig
<1>2. Rate(m) = RateOf(c, now)
  BY DEF Rate
<1>3. SUFFICES \E fee \in Nat : /\ fee <= c.feeBps
                                /\ pools'[m] = [c EXCEPT !.feeBps = fee]
                                /\ now' \in Nat /\ now <= now'
  <2> PICK fee \in Nat : /\ fee <= c.feeBps
                         /\ pools'[m] = [c EXCEPT !.feeBps = fee]
                         /\ now' \in Nat /\ now <= now'
    BY <1>3
  <2>1. Registered(m)'
    BY <1>1 DEF Registered, PoolConfig, NoPool, Modes
  <2>2. RateOf([c EXCEPT !.feeBps = fee], now') <= RateOf(c, now)
    BY <1>1, RateFalls
  <2>3. QED
    BY <1>2, <2>1, <2>2 DEF Rate, RateOf
<1>4. CASE pools'[m] = pools[m] /\ now' \in Nat /\ now <= now'
  BY <1>1, <1>4
<1>5. CASE \E p \in LaunchPlans : RegisterPools(p)
  <2> PICK p \in LaunchPlans : RegisterPools(p)
    BY <1>5
  <2>1. m[1] # p.coin
    BY DEF RegisterPools, HookInv, OneSetOfTerms, MarketsOf, Markets
  <2>2. QED
    BY <2>1, <1>1, <1>4 DEF RegisterPools
<1>6. CASE CreatorStep
  <2>1. CASE \E coin \in Coins, caller \in Accounts, fee \in 0 .. BPS : LowerFee(caller, coin, fee)
    <3> PICK coin \in Coins, caller \in Accounts, fee \in 0 .. BPS : LowerFee(caller, coin, fee)
      BY <2>1
    <3>1. CASE m \in MarketsOf(coin)
      <4>1. pools[m] = pools[PrimaryMarket(coin)]
        BY <3>1 DEF HookInv, OneSetOfTerms
      <4>2. fee \in Nat /\ fee <= c.feeBps /\ pools'[m] = [c EXCEPT !.feeBps = fee]
        BY <3>1, <4>1, <1>1, BPSAssumption DEF LowerFee
      <4>3. QED
        BY <4>2, <1>1 DEF LowerFee
    <3>2. CASE m \notin MarketsOf(coin)
      BY <3>2, <1>1, <1>4 DEF LowerFee
    <3>3. QED
      BY <3>1, <3>2
  <2>2. CASE \E coin \in Coins, caller \in Accounts :
               \/ \E proposed \in Accounts \cup {NoAccount} :
                    ProposeCreator(caller, coin, proposed)
               \/ AcceptCreator(caller, coin)
    BY <2>2, <1>1, <1>4 DEF ProposeCreator, AcceptCreator
  <2>3. QED
    BY <1>6, <2>1, <2>2 DEF CreatorStep
<1>7. CASE Tick
  BY <1>7, <1>1, <1>4 DEF Tick
<1>8. CASE UNCHANGED hookVars
  BY <1>8, <1>1, <1>4 DEF hookVars
<1>9. QED
  BY <1>5, <1>6, <1>7, <1>8 DEF HookNext

\* MemeFunHook._rate: in every behaviour, the rate of a launched market only
\* falls.
THEOREM RateOnlyFalls == HookSpec => RateNeverRises
<1>1. HookInv /\ [HookNext]_hookVars =>
        [\A m \in Markets : Registered(m) => Registered(m)' /\ Rate(m)' <= Rate(m)]_hookVars
  BY RateStep
<1>2. QED
  BY <1>1, HookInvariant, PTL DEF HookSpec, RateNeverRises
=============================================================================
