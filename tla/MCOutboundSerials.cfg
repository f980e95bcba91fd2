\* Two orders that want the same serials, tasks completed in parts.
SPECIFICATION Spec
CONSTANTS
    Req = {r1}
    Order = {o1, o2}
    Task = {t1, t2}
    Product = {p1}
    Serial = {s1}
    Bin = {}
    Type = {"LOADING"}
    Ordered = {1}
    Qty = {1}
    OnHand = {1}
    MaxWorked = 2
    MaxRaced = 1
    Keep = Keep
SYMMETRY Interchangeable
INVARIANT SerialsAreKeptUnlessRaced
