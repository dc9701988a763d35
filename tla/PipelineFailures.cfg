\* Every kind of message and of failing call, and no crash.
SPECIFICATION Spec
CONSTANTS
    Consumer = {c1}
    Partition = {loc, int}
    LocationPartition = {loc}
    IntentPartition = {int}
    DocId = {d1, d2}
    Outside = {"located", "unlocated", "garbage"}
    Intents = {"empty", "labels"}
    MaxPublished = 2
    MaxDisruptions = 0
    MaxErrors <- OneError
    MaxLog <- OffsetsOnce
SYMMETRY DocSymmetry
INVARIANTS
    AckedFeedForwarded
    DuplicateEntryNeedsDisruption
    OrphanNeedsFault
    AckedIntentApplied
    IndexMatchesRow
\* The bounds end every behaviour.
CHECK_DEADLOCK FALSE
