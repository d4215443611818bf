---------------------------- MODULE MCDashboard -----------------------------
(* Prices that rise and fall, so that no two charts have the same statistics*)
EXTENDS Dashboard

MCPrice == [k \in 1..NumKlines |-> <<30, 20, 50, 10>>[k]]
=============================================================================
