\* Requests that follow one another, without serials.
SPECIFICATION Spec
CONSTANTS
    Req = {r1}
    Order = {o1}
    Task = {t1}
    Product = {p1}
    Serial = {}
    Bin = {}
    Type = {"LOADING"}
    Ordered = {1}
    Qty = {1}
    OnHand = {1}
    MaxWorked = 1
    MaxRaced = 0
    Keep = Keep
PROPERTY FinalIsFinal
CHECK_DEADLOCK FALSE
