------------------------------ MODULE MCMarkets ------------------------------
(***************************************************************************)
(* A small instance of Markets.  Both modules get two coins in one         *)
(* currency, one on each side of its pool, so that both branches of every  *)
(* price rule run and two pots share one balance of claims.  Ticks,        *)
(* offsets and spacing of the floor are small, but with ticks of both      *)
(* signs, on and off the spacing, and close enough to the end of the range *)
(* for a band to fall outside.  The hook gets one two-market coin launched *)
(* with protection, one single-market coin and two accounts.               *)
(***************************************************************************)
EXTENDS Markets

CONSTANTS c1, c2, eth, usdc, alice, bob

MCCurrency0 == [m \in {c1, c2} \X {eth} |-> m[1] = c1]
MCTicks == {-5, 10}
MCMinUsableTick == -12

Plan(coin, quotes, main, mode, fee, start, duration) ==
    [coin |-> coin, creator |-> alice, quotes |-> quotes, primary |-> main,
     mode |-> mode, feeBps |-> fee, platformShareBps |-> 2, referralShareBps |-> 3,
     creatorKeepBps |-> 5, protectionStartBps |-> start,
     protectionDurationSec |-> duration]

MCLaunchPlans ==
    {Plan(c1, {eth, usdc}, usdc, "HOLDERS", 4, 9, 2),
     Plan(c1, {eth}, eth, "CREATOR", 3, 5, 0),
     Plan(c2, {eth}, eth, "BURN", 2, 2, 1)}

=============================================================================
