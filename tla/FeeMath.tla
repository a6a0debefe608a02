------------------------------ MODULE FeeMath ------------------------------
(***************************************************************************)
(* The fee formulas of libraries/FeeMath.sol.  Amounts are in the quote    *)
(* asset's smallest unit, rates in parts of BPS.  BPS is 10_000 in the     *)
(* source; it is a constant here so that small instances still meet every  *)
(* rounding case.  Solidity's unsigned division is \div on naturals.       *)
(***************************************************************************)
EXTENDS Integers

CONSTANT BPS

ASSUME BPSAssumption == BPS \in Nat \ {0}

CeilDiv(a, b) == (a + b - 1) \div b

\* Fee on a gross quote amount.  The guard is the FeeRateTooHigh revert.
OnGrossDefined(feeBps) == feeBps <= BPS
OnGross(amount, feeBps) == CeilDiv(amount * feeBps, BPS)

\* Fee to add to a net quote amount so that it is feeBps of net + fee.
OnNetDefined(feeBps) == feeBps < BPS
OnNet(net, feeBps) == CeilDiv(net * feeBps, BPS - feeBps)

\* Faulty variant of LaunchFeeBps: protection grows with the time elapsed.
LaunchFeeBpsElapsed(base, start, duration, elapsed) ==
    IF duration = 0 \/ start <= base \/ elapsed >= duration
    THEN base
    ELSE base + ((start - base) * elapsed) \div duration

\* Rate elapsed seconds after launch: from start down to base, linearly.
LaunchFeeBps(base, start, duration, elapsed) ==
    IF duration = 0 \/ start <= base \/ elapsed >= duration
    THEN base
    ELSE base + ((start - base) * (duration - elapsed)) \div duration

\* Faulty variant of Split: the referral share is not taken out of the
\* platform's.
SplitReferralOnTop(fee, creatorMode, platformShareBps, referralShareBps, keepBps, hasReferrer) ==
    LET platformGross == (fee * platformShareBps) \div BPS
        rest == fee - platformGross
        creator == IF creatorMode THEN rest ELSE (rest * keepBps) \div BPS
    IN  [platform    |-> platformGross,
         referral    |-> IF hasReferrer
                         THEN (platformGross * referralShareBps) \div BPS ELSE 0,
         creator     |-> creator,
         destination |-> rest - creator]

\* Who a collected fee is owed to.
Split(fee, creatorMode, platformShareBps, referralShareBps, keepBps, hasReferrer) ==
    LET platformGross == (fee * platformShareBps) \div BPS
        referral == IF hasReferrer
                    THEN (platformGross * referralShareBps) \div BPS ELSE 0
        rest == fee - platformGross
        creator == IF creatorMode THEN rest ELSE (rest * keepBps) \div BPS
    IN  [platform    |-> platformGross - referral,
         referral    |-> referral,
         creator     |-> creator,
         destination |-> rest - creator]

\* s says exactly who a fee belongs to: natural shares that add up to it.
IsSplitOf(s, fee) ==
    /\ s \in [platform : Nat, referral : Nat, creator : Nat, destination : Nat]
    /\ s.platform + s.referral + s.creator + s.destination = fee

=============================================================================
