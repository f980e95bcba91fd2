CONSTANTS
    Customer = {c1, c2}
    Company = {o1, o2}
    Warehouse = {w1, w2}
    Area = {a1}
    Zone = {z1}
    Bin = {b1}
    Product = {p1}
    Supplier = {s1}
    Uom = {u1, u2}
    Conversion = {v1}
    User = {n1}
    Role = {g1}
    Menu = {m1, m2}
    PlatformUser = {f1, f2}
    Contract = {k1}
    Rate = {t1}
    Transaction = {x1}
    Req = {r1, r2}
    MaxRequests = 3
    Refused = Refused
    None = None
    Focus <- Pairs
SPECIFICATION Spec
INVARIANTS TypeOK PlacedTogetherUnlessMoved SuppliersAreOwn SummaryIsWholeUnlessRaced
PROPERTIES ReachNeverGrowsUnlessRaced PlatformKeepsAnAccountUnlessRaced
CHECK_DEADLOCK FALSE
SYMMETRY Symmetry
