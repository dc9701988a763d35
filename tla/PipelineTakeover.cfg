\* Two processes, one of which crashes, is given up or is told to rejoin.
SPECIFICATION Spec
CONSTANTS
    Consumer = {c1, c2}
    Partition = {loc, int}
    LocationPartition = {loc}
    IntentPartition = {int}
    DocId = {d1}
    Outside = {"located"}
    Intents = {"labels"}
    MaxPublished = 1
    MaxDisruptions = 1
    MaxErrors <- NoErrors
    MaxLog <- OffsetsOnce
SYMMETRY ConsumerSymmetry
INVARIANTS
    TypeOK
    DeliveryInv
    IntentNamesEntry
PROPERTIES
    OffsetsNeverRewind
    DeliveryContractKept
\* The bounds end every behaviour.
CHECK_DEADLOCK FALSE
