\* Two requests at a time on a held receipt whose ASN moves between two consignments.
SPECIFICATION Spec
CONSTANTS
    Req = {r1, r2}
    Receipt = {x1}
    Asn = {a1}
    Consignment = {c1, c2}
    None = None
    PickedNo = {2}
    ReviewStatus = {"DRAFT", "MATCHED"}
SYMMETRY Interchangeable
INVARIANTS TypeOK BilledOnceUnlessRaced GateHoldsUnlessStale OnlyNamedIsAhead LinkedIsReviewed
