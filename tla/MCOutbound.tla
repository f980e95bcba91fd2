----------------------------- MODULE MCOutbound -----------------------------
(* Instances of Outbound for TLC.                                          *)
EXTENDS Outbound, TLC

(* Slots, tasks, orders, products and serials are interchangeable.         *)
Interchangeable ==
    Permutations(Req) \cup Permutations(Task) \cup Permutations(Order)
        \cup Permutations(Product) \cup Permutations(Serial)
=============================================================================
