----------------------------- MODULE FeeEscrow -----------------------------
(***************************************************************************)
(* What FeeVault promises the destination modules: each market's share     *)
(* accumulates, and only ever leaves whole, to the one module the market   *)
(* was registered with.  What a module holds in a currency grows by such   *)
(* pulls alone; the module spends it as it likes.  FeeVault implements     *)
(* this specification (FeeVault!ImplementsEscrow), and the modules that    *)
(* trade with their share are modelled on top of it.                       *)
(***************************************************************************)
EXTENDS Integers

CONSTANTS Coins, Quotes, Modules,
          NoModule      \* module of a market that is not registered or has none

VARIABLES
    moduleOf,   \* _pools[id].module, by market
    pending,    \* _coinPending.destination, by market
    held        \* ERC-6909 claims of the modules, by module and currency

escrowVars == <<moduleOf, pending, held>>

Markets == Coins \X Quotes

EscrowInit ==
    /\ moduleOf = [m \in Markets |-> NoModule]
    /\ pending = [m \in Markets |-> 0]
    /\ held = [h \in Modules |-> [q \in Quotes |-> 0]]

\* Markets are registered, for good, and fees are collected.  A market without a
\* module accumulates nothing: nobody could ever pull it.
Accrue ==
    /\ moduleOf' \in [Markets -> Modules \cup {NoModule}]
    /\ pending' \in [Markets -> Nat]
    /\ \A m \in Markets :
          /\ moduleOf[m] # NoModule => moduleOf'[m] = moduleOf[m]
          /\ pending'[m] >= pending[m]
          /\ pending'[m] > pending[m] => moduleOf'[m] # NoModule
    /\ held' = held

\* pullDestination(For), called by the module of the market.
Pull(m) ==
    /\ moduleOf[m] # NoModule
    /\ held' = [held EXCEPT ![moduleOf[m]][m[2]] = @ + pending[m]]
    /\ pending' = [pending EXCEPT ![m] = 0]
    /\ moduleOf' = moduleOf

\* A module burns claims it holds.
Spend(h, q) ==
    /\ \E n \in 1 .. held[h][q] : held' = [held EXCEPT ![h][q] = @ - n]
    /\ UNCHANGED <<moduleOf, pending>>

EscrowNext ==
    \/ Accrue
    \/ \E m \in Markets : Pull(m)
    \/ \E h \in Modules, q \in Quotes : Spend(h, q)

EscrowSpec == EscrowInit /\ [][EscrowNext]_escrowVars

=============================================================================
