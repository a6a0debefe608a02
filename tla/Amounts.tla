------------------------------ MODULE Amounts ------------------------------
(***************************************************************************)
(* Totals of ledgers.  A ledger is a function from its accounts to the     *)
(* natural number each of them holds.  Its total is the number of units    *)
(* in it: one unit is a pair <<account, i>> with i in 1 .. the account's   *)
(* amount.  Counting units, rather than adding recursively, gives the      *)
(* total of a ledger over ANY finite set of accounts a first-order         *)
(* definition, so AmountsProofs can derive how a total changes when one    *)
(* account changes from the theorems about the cardinality of finite sets. *)
(***************************************************************************)
EXTENDS Integers, FiniteSets

Units(f) == UNION {{x} \X (1 .. f[x]) : x \in DOMAIN f}

Total(f) == Cardinality(Units(f))

=============================================================================
