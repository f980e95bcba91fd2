CONSTANTS
    Customer = {c1}
    Company = {o1}
    Warehouse = {w1}
    Area = {}
    Zone = {}
    Bin = {}
    Product = {p1}
    Supplier = {}
    Uom = {u1, u2}
    Conversion = {v1}
    User = {n1}
    Role = {}
    Menu = {}
    PlatformUser = {}
    Contract = {}
    Rate = {}
    Transaction = {}
    Req = {r1, r2}
    MaxRequests = 3
    Refused = Refused
    None = None
    Focus <- Conversions
SPECIFICATION Spec
INVARIANT ConversionsConvert
CHECK_DEADLOCK FALSE
