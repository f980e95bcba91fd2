\* Two requests at a time on one ASN of two products, with a serial number that
\* transformations and outbound tasks may use as well.
SPECIFICATION Spec
CONSTANTS
    Req = {r1, r2}
    Asn = {a1}
    Product = {p1, p2}
    Bin = {b1}
    Serial = {s1}
    ExpectedQty = {0, 2}
    ReceiveQty = {0, 1, 2}
    MaxReceipts = 2
    MaxGen = 2
SYMMETRY Interchangeable
INVARIANTS TypeOK BalanceIsLanded RowWithinExpected RowIsLanded FullyReceivedIsCompleted
    NoOrphanUnlessRaced SerialsUniqueUnlessRaced
PROPERTIES CompletedIsFinalUnlessRaced ImplementsLifecycle
