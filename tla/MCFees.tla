-------------------------------- MODULE MCFees --------------------------------
(***************************************************************************)
(* Small instances of FeeVault, alone and with HolderRewardDistributor on  *)
(* top of it.  A behaviour is about one of them, so their states add up:   *)
(*                                                                         *)
(*   tweet   one coin launched from a tweet with two markets, an account   *)
(*           and two attestor keys                                         *)
(*   plain   a creator coin and a burn coin in one currency, and no        *)
(*           attestor                                                      *)
(*   shared  two holder coins in one currency share an epoch, with roots   *)
(*           that are honest, over budget or name an index twice           *)
(*   epochs  one holder coin goes through two epochs                       *)
(***************************************************************************)
EXTENDS HolderRewardDistributor

CONSTANTS c1, c2, eth, usdc, alice, key1, key2

VARIABLE kind   \* the instance this behaviour is about

Plan(coin, quotes, mode, fee, platform, share, author) ==
    [coin |-> coin, creator |-> alice, quotes |-> quotes, primary |-> eth,
     mode |-> mode, feeBps |-> fee, platformShareBps |-> platform, referralShareBps |-> share,
     creatorKeepBps |-> share, protectionStartBps |-> 0, protectionDurationSec |-> 0,
     authorShareBps |-> author]

TweetPlans == {Plan(c1, {eth, usdc}, "CREATOR", 2, 1, 2, 2)}
PlainPlans == {Plan(c1, {eth}, "CREATOR", 1, 2, 2, 0), Plan(c2, {eth}, "BURN", 3, 3, 2, 0)}
HolderPlans == {Plan(c, {eth}, "HOLDERS", 1, 0, 0, 0) : c \in {c1, c2}}
MCLaunchPlans == TweetPlans \cup PlainPlans \cup HolderPlans

MCAttestations == {[coin |-> c1, wallet |-> alice, deadline |-> 1, signer |-> key1],
                   [coin |-> c1, wallet |-> alice, deadline |-> 0, signer |-> key2]}

L(m, i, n) == [market |-> m, index |-> i, amount |-> n]
e1 == <<c1, eth>>
e2 == <<c2, eth>>

SharedRoots ==
    {[poolLeaves |-> FALSE, leaves |-> {L(e1, 0, 1), L(e1, 1, 1), L(e2, 0, 1)}],
     [poolLeaves |-> TRUE, leaves |-> {L(e1, 0, 1), L(e1, 0, 2), L(e2, 1, 2)}]}
EpochRoots == {[poolLeaves |-> TRUE, leaves |-> {L(e1, 0, 1), L(e1, 1, 1)}],
               [poolLeaves |-> FALSE, leaves |-> {L(e1, 0, 2)}]}
MCRoots == SharedRoots \cup EpochRoots

WithRewards == kind \in {"shared", "epochs"}

\* Markets whose shares of an epoch were released.
Released == {m \in Markets : \E e \in EpochIds : epochReleased[e][m]}

\* What the launches, clock, attestor, roots, fees and releases of an instance may be.
Kind ==
    /\ \A m \in Markets : Registered(m) => (pools[m].mode = "HOLDERS" <=> WithRewards)
    /\ IF WithRewards THEN /\ tweetAttestor = NoAccount /\ Outstanding(eth) <= 3
                           /\ \A m \in Markets : Registered(m) => pools[m].feeBps = 1 /\ pools[m].launchedAt = 0
       ELSE draft = NoRoot /\ now <= 1
    /\ \A m \in Released : Registered(m)
    /\ CASE kind = "tweet" -> /\ \A q \in Quotes : Outstanding(q) <= 2
                               /\ \A m \in Markets : Registered(m) => attribution[m[1]].share > 0
         [] kind = "plain" -> /\ now = 0 /\ tweetAttestor = NoAccount
                              /\ \A c \in Coins : attribution[c].share = 0
         [] kind = "shared" -> /\ now <= 2 /\ lastEpoch <= 1
                               /\ draft # NoRoot => draft \in SharedRoots /\ lastEpoch = 0
         [] kind = "epochs" -> /\ ~Registered(e2) /\ Outstanding(eth) <= 2
                               /\ draft # NoRoot => draft \in EpochRoots

FeesSpec ==
    /\ kind \in {"tweet", "plain", "shared", "epochs"}
    /\ DistInit /\ (kind # "tweet" => tweetAttestor = NoAccount)
    /\ [][DistNext /\ UNCHANGED kind /\ Kind']_<<kind, allDistVars>>

=============================================================================
