SPECIFICATION Spec
CONSTANTS
    ask = ask
    reply = reply
    follow = follow
    r1 = r1
    r2 = r2
    None = None
    Deliveries = {ask, reply, follow}
    Requests = {r1, r2}
    Asks <- MCAsks
    Answers <- MCAnswers
    Settings <- MCSettings
    MaxGenerations = 2
    MaxAttempts = 2
    MaxStops = 1
INVARIANTS AtMostOneFrame OneAnswer StoreAgreesWithOwner CancelledReplyReleases
PROPERTY OrphanIsOnlyCancelled
CHECK_DEADLOCK FALSE
