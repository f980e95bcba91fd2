\* A transfer and a transformation of up to two lines each, while an operator
\* empties balances, below the held quantity too.
SPECIFICATION Spec
CONSTANTS
    Req = {r1, r2}
    Transfer = {t1}
    Transform = {m1}
    Product = {p1}
    Bin = {b1, b2}
    Warehouse = {w1}
    WarehouseOf <- InOne
    Qty = {1}
    SetQty = {0}
    MaxLines = 2
    MaxReceipts = 1
SYMMETRY Interchangeable
INVARIANTS TypeOK StockIsAccounted CompletedOnceUnlessRaced HoldIsKeptUnlessRaced
PROPERTY TransfersConserve
