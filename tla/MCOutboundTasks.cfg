\* Two overlapping requests on one order of two lines, without serials.
SPECIFICATION Spec
CONSTANTS
    Req = {r1, r2}
    Order = {o1}
    Task = {t1, t2}
    Product = {p1, p2}
    Serial = {}
    Bin = {b1}
    Type = {"LOADING"}
    Ordered = {1}
    Qty = {2}
    OnHand = {1}
    MaxWorked = 2
    MaxRaced = 1
    Keep = Keep
SYMMETRY Interchangeable
INVARIANTS TypeOK LineIsWorkedUnlessRaced ShippedWhenAllShippedUnlessRaced BilledWithinDoneUnlessRaced
INVARIANT AllocatedWithinOrderUnlessRaced
PROPERTY ShippedIsFinalUnlessRaced
