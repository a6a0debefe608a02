------------------------------- MODULE MCKeeper -------------------------------
(* The instance of both kinds of keepers, with every configuration.         *)
EXTENDS MCKeeperEpochs, LiveKeepers
=============================================================================
