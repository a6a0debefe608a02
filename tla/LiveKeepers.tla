----------------------------- MODULE LiveKeepers -----------------------------
(***************************************************************************)
(* Two kinds of keepers on one database: one that signs and sends, run     *)
(* again and again under fairness, and keepers with and without a key that *)
(* are also run dry.  A behaviour is about one kind, so that in a finite   *)
(* instance their states add up.                                           *)
(***************************************************************************)
EXTENDS KeeperEpochs

VARIABLE live

liveVars == <<live, keeperVars>>

\* A live keeper never changes its configuration.
Kind == live => ~mode.dry /\ mode.wallet
LiveInit == live \in BOOLEAN /\ KeeperInit /\ Kind
LiveNext == KeeperNext /\ UNCHANGED live /\ Kind'

LiveSpec ==
    /\ LiveInit /\ [][LiveNext]_liveVars
    /\ WF_liveVars(live /\ RunStep /\ UNCHANGED live /\ Kind')
    /\ WF_liveVars(live /\ IndexCatchesUp /\ UNCHANGED live)
    /\ WF_liveVars(live /\ Mine /\ UNCHANGED live)
    /\ WF_liveVars(live /\ Authorise /\ UNCHANGED live)

\* KeeperEpochs, for live keepers: the leaves of an epoch on chain are stored.
LiveLeavesKept == live => PublishedLeavesKept

\* KeeperEpochs, for live keepers: the leaves of an epoch on chain are handed out in
\* the end, and what was earned by a boundary is paid in the end.
LiveEpochsBecomeClaimable == []live => EpochsBecomeClaimable
LivePotsPaidOut == []live => PotsPaidOut
=============================================================================
