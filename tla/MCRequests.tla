------------------------------ MODULE MCRequests ------------------------------
(***************************************************************************)
(* A small instance of OutgoingRequests.  The batcher gets four calls and  *)
(* batches of up to three; the governor three callers of two keys, with a  *)
(* deadline that can pass in the queue and one that cannot; the dispatch   *)
(* two overlapping requests on all lanes over two public nodes, one custom *)
(* endpoint and three keys.                                                *)
(***************************************************************************)
EXTENDS OutgoingRequests

MCPublics == <<"p1", "p2">>
MCCustoms == <<"custom">>
MCKeyed == <<"a1", "a2", "a3">>

\* What contracts answer is left open for the batcher only, which it is about.
MCRequestsInit ==
    RequestsInit /\ (active # "batcher" => contract = [c \in Calls |-> "data"])

MCRequestsSpec ==
    /\ MCRequestsInit /\ [][RequestsNext]_<<active, vars, governorState, dispatchState>>
    /\ RequestsFairness

=============================================================================
