\* Two requests over one pool, two batches over two rows, one post of events, one restart.
SPECIFICATION FairServer
CONSTANTS
    Request = {r1, r2}
    MaxConns = 2
    NullChannels = TRUE
    a = a
    b = b
    unknown = unknown
    None = None
    Batch = {b1, b2}
    Entry = {a, b, unknown}
    Row = {a, b}
    Lists <- TestLists
    MaxStatementErrors = 1
    twitter = twitter
    ahbap = ahbap
    Post = {p1}
    Channel = {twitter, ahbap}
    Bodies <- TestBodies
    MaxSendErrors = 1
    MaxRestarts = 1
INVARIANTS
    TypeOK
    OnlyUnclosedResultsAreLost
    BatchTypeOK
    SortedListsNeverDeadlock
    ReplyTellsOutcome
    EventTypeOK
    CreatedMeansTried
    BodyOrderKept
PROPERTIES
    PatchesAtomic
    TimedCallsAnswered
    ShutdownEnds
    BatchEnds
    PostAnswered
\* The bounds end every behaviour.
CHECK_DEADLOCK FALSE
