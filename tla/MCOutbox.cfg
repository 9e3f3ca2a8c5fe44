SPECIFICATION FairSpec
CONSTANTS
    w1 = w1
    w2 = w2
    x1 = x1
    Clients = {c1, c2}
    Webhooks <- MCWebhooks
    Changes <- MCChanges
    Sweepers = {s1, s2}
    FailUntil <- MCFailUntil
    MaxAttempts = 3
    Limit = 1
    MaxRows = 2
    MaxAborts = 1
INVARIANTS OneRowPerWebhook CommittedIsAnnounced AttemptsCapped
PROPERTIES EveryRowSettles DeliverySpec
CHECK_DEADLOCK FALSE
