CONSTANTS
    Alerts = {a1}
    Peers = {p1}
    Senders = {p1}
    Cap = 1
    FreshnessPast = 1
    FreshnessFuture = 0
    QuotaWindow = 2
    Quota = 2
    Handlers = {h1, h2}
    Endpoints = 2
    Backoff <- MCBackoff
    MsgType <- MCMsgType
    Deadline <- MCDeadline
    Start = 3
    MaxTime = 5
    Excursion = 2
    MaxSteps = 1
    MaxAttempts = 2
    MaxCopies = 1
SPECIFICATION FairSpec
 
INVARIANT GuardsInv
 
PROPERTY CountsGrow
PROPERTY NothingHangs
CHECK_DEADLOCK FALSE
