SPECIFICATION Spec
CONSTANTS
    w1 = w1
    w2 = w2
    e1 = e1
    e2 = e2
    ann = ann
    toAnn = toAnn
    toNobody = toNobody
    Workers = {w1, w2}
    NoWorker = NoWorker
    LeaseTime = 1
    BaseDelay = 1
    MaxDelay = 2
    Events = {e1}
    NoEvent = NoEvent
    Contents = {"a", "b"}
    Said <- SaidTwice
    NoContent = NoContent
    Answers = {toAnn, toNobody}
    NoAnswer = NoAnswer
    People = {ann}
    Recipients <- RecipientsOf
    MaxAttempts = 2
    Limit = 2
    MaxFaults = 1
INVARIANT
    AttemptsAreBounded
CHECK_DEADLOCK FALSE
SYMMETRY SameWorkers
