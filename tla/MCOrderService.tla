----------------------------- MODULE MCOrderService -----------------------------
(* Symmetry for the runs of OrderService that check safety only. *)
EXTENDS OrderService, TLC

Symmetry == Permutations(Orders) \cup Permutations(Requests)
===============================================================================
