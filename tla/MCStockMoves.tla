---------------------------- MODULE MCStockMoves ----------------------------
(* Instances of StockMoves for TLC.                                        *)
EXTENDS StockMoves, TLC

(* All bins are in one warehouse.                                          *)
InOne == [b \in Bin |-> CHOOSE w \in Warehouse : TRUE]

(* Slots, jobs and the bins of the one warehouse are interchangeable.      *)
Interchangeable ==
    Permutations(Req) \cup Permutations(Transfer) \cup Permutations(Transform)
        \cup Permutations(Bin)
=============================================================================
