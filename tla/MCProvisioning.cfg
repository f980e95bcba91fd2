\* One tenant, two requests, the queue and a message handler; one retry, one
\* message, and the process ends once.
SPECIFICATION FairSpec
CONSTANTS
    Tenant = {a}
    None = None
    Public = Public
    Refused = Refused
    Req = {r1, r2}
    Worker = worker
    Handler = {h1}
    MaxRetries = 1
    MaxCrashes = 1
    MaxMessages = 1
INVARIANTS TypeOK ProvisionedIsSeeded WaitingIsWorkedOnUnlessLost ServedIsSeededUnlessRevived
PROPERTY ProvisioningEnds
