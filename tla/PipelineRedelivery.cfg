\* Two messages, a database error and a crash or rebalance.
SPECIFICATION Spec
CONSTANTS
    Consumer = {c1}
    Partition = {loc, int}
    LocationPartition = {loc}
    IntentPartition = {int}
    DocId = {d1}
    Outside = {"located"}
    Intents = {"labels"}
    MaxPublished = 2
    MaxDisruptions = 1
    MaxErrors <- OneDbError
    MaxLog <- OffsetsOnce
INVARIANTS
    CommittedWasFinished
    LossNeedsDbError
    IndexFollowsUpdate
\* The bounds end every behaviour.
CHECK_DEADLOCK FALSE
