------------------------------ MODULE DirectCalls ------------------------------
(***************************************************************************)
(* What callContract (apps/api/src/routes/dustsweep.ts) promises its       *)
(* callers: an eth_call is answered once, with what the contract returns   *)
(* or reverts with, unless the transport fails.                            *)
(***************************************************************************)
CONSTANT Calls

VARIABLES contract, \* what the contract does with the call: "data" or "revert"
          outcome   \* what the caller has got

directVars == <<contract, outcome>>

DirectInit ==
    /\ contract \in [Calls -> {"data", "revert"}]
    /\ outcome = [c \in Calls |-> "none"]

Ask(c) ==
    /\ outcome[c] = "none" /\ outcome' = [outcome EXCEPT ![c] = "asked"]
    /\ UNCHANGED contract

\* Several callers may get their answers at once.
Settle(S) ==
    /\ \A c \in S : outcome[c] = "asked"
    /\ \E failed \in SUBSET S :
          outcome' = [c \in Calls |-> IF c \notin S THEN outcome[c]
                                      ELSE IF c \in failed THEN "failed" ELSE contract[c]]
    /\ UNCHANGED contract

DirectNext == (\E c \in Calls : Ask(c)) \/ \E S \in SUBSET Calls : Settle(S)

DirectSpec ==
    /\ DirectInit /\ [][DirectNext]_directVars
    /\ \A c \in Calls : WF_directVars(\E S \in SUBSET Calls : c \in S /\ Settle(S))
=============================================================================
