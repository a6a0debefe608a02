--------------------------- MODULE MCKeeperEpochs ---------------------------
(* Instances of KeeperEpochs: keepers that sign and send, and keepers that  *)
(* are also run dry, with or without a key.                                 *)
EXTENDS KeeperEpochs

Real == {[dry |-> FALSE, wallet |-> TRUE]}
RealOrDry == {[dry |-> d, wallet |-> TRUE] : d \in BOOLEAN}
Any == [dry : BOOLEAN, wallet : BOOLEAN]
=============================================================================
