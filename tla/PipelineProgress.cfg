\* A feed through both handlers, with a database error and two crashes or rebalances.
SPECIFICATION FairSpec
CONSTANTS
    Consumer = {c1}
    Partition = {loc, int}
    LocationPartition = {loc}
    IntentPartition = {int}
    DocId = {d1}
    Outside = {"located"}
    Intents = {"labels"}
    MaxPublished = 1
    MaxDisruptions = 2
    MaxErrors <- OneDbError
    MaxLog <- OffsetsOnce
PROPERTIES
    EveryMessageFinished
    EveryMessageCommitted
\* The bounds end every behaviour.
CHECK_DEADLOCK FALSE
