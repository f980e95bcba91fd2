\* A tenant suspended while its pipeline is under way.
SPECIFICATION Spec
CONSTANTS
    Tenant = {a}
    None = None
    Public = Public
    Refused = Refused
    Req = {r1}
    Worker = worker
    Handler = {}
    MaxRetries = 1
    MaxCrashes = 0
    MaxMessages = 0
PROPERTY SuspendedStaysRefused
