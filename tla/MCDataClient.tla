----------------------------- MODULE MCDataClient -----------------------------
(* Model-checking instance of DataClient: two overlapping requests need three *)
(* clients, the first one and one for each second run.                        *)
EXTENDS DataClient

ThreeClients == 1..3
=============================================================================
