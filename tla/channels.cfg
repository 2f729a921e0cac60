SPECIFICATION MCSpec
CONSTANTS
    plain = plain
    late = late
    anonymous = anonymous
    broken = broken
    Mails = {plain, late, anonymous, broken}
    Unreadable = {broken}
    Unnamed = {anonymous}
    p1 = p1
    Pollers = {p1, p2}
    h1 = h1
    h2 = h2
    Webhooks = {h1, h2}
    hello = hello
    junk = junk
    Texts = {hello, junk}
    Acceptable = {hello}
    Payload <- MCPayload
    MaxValidity = 2
    MaxRefusals = 1
    JobEvents <- MCJobEvents
    WebEvents = {f1}
    w1 = w1
    Workers = {w1, w2}
    Clients = {c1, c2}
    MaxAttempts = 2
    MaxClaims = 6
    None = None
    Shared = {plain, anonymous}
CHECK_DEADLOCK FALSE
INVARIANT IngestionInv
INVARIANT AtMostOneGraphRun
INVARIANT NothingIsLost
PROPERTY MessagesAreHandled
