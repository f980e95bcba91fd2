---------------------------- MODULE MCReceiving ----------------------------
(* Instances of Receiving for TLC.                                         *)
EXTENDS Receiving, TLC

(* Request slots, bins and products are interchangeable.                   *)
Interchangeable == Permutations(Req) \cup Permutations(Bin) \cup Permutations(Product)
=============================================================================
