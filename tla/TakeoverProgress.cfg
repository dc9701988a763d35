\* Two processes, one of which may be given up and never come back.
SPECIFICATION TakeoverSpec
CONSTANTS
    Consumer = {c1, c2}
    Partition = {loc, int}
    LocationPartition = {loc}
    IntentPartition = {int}
    DocId = {d1}
    Outside = {"located"}
    Intents = {}
    MaxPublished = 1
    MaxDisruptions = 1
    MaxErrors <- NoErrors
    MaxLog <- OffsetsOnce
PROPERTY EveryMessageCommitted
\* The bounds end every behaviour.
CHECK_DEADLOCK FALSE
