-------------------------- MODULE MCCustomsRelease --------------------------
(* Instances of CustomsRelease for TLC.                                    *)
EXTENDS CustomsRelease, TLC

(* Slots and ids are interchangeable.                                      *)
Interchangeable ==
    Permutations(Req) \cup Permutations(Receipt) \cup Permutations(Asn)
        \cup Permutations(Consignment)
=============================================================================
