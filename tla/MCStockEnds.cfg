\* Two transfers that may run in opposite directions, under fairness.
SPECIFICATION FairSpec
CONSTANTS
    Req = {r1, r2}
    Transfer = {t1, t2}
    Transform = {}
    Product = {p1}
    Bin = {b1, b2}
    Warehouse = {w1}
    WarehouseOf <- InOne
    Qty = {1}
    SetQty = {1}
    MaxLines = 1
    MaxReceipts = 0
PROPERTY CompletionsEnd
