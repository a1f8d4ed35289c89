SPECIFICATION FairSpec
CONSTANTS
    w1 = w1
    w2 = w2
    d1 = d1
    d2 = d2
    d3 = d3
    ann = ann
    Workers = {w1, w2}
    NoWorker = NoWorker
    LeaseTime = 1
    BaseDelay = 1
    Deliveries = {d1, d2, d3}
    NoDelivery = NoDelivery
    People = {ann}
    Recipient <- AllToAnn
    Historical = {d3}
    MaxAttempts = 2
    Limit = 1
    MaxFaults = 1
INVARIANTS
    Inv
    SendsAreCounted
    SentOnce
PROPERTIES
    EveryDeliveryEnds
CHECK_DEADLOCK FALSE

