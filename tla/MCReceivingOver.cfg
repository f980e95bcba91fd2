\* Lost update of a line's received quantity.
SPECIFICATION Spec
CONSTANTS
    Req = {r1, r2}
    Asn = {a1}
    Product = {p1}
    Bin = {b1, b2}
    Serial = {}
    ExpectedQty = {1}
    ReceiveQty = {1}
    MaxReceipts = 3
    MaxGen = 1
SYMMETRY Interchangeable
INVARIANT NoOverReceipt
