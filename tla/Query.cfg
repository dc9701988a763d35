\* One feed of four, handled twice by the classifier, over two days of a leap year or another.
SPECIFICATION QuerySpec
CONSTANTS
    None = None
    NoNumber = NoNumber
    Payloads <- TestPayloads
    Others <- TestOthers
    Answers <- TestAnswers
    Points <- TestPoints
    Lower <- TestLower
    Like <- TestLike
    Parameters <- TestParameters
    StartDates <- TestDates
    MaxResolves = 2
    MaxDays = 1
INVARIANTS
    QueryTypeOK
    FoundByIntents
    ZoomingOutKeeps
    CommaListIsUnion
    LastYearAnswered
    IndexAgrees
PROPERTIES
    StaysOut
    PatchOnlyVerifies
\* The bounds end every behaviour.
CHECK_DEADLOCK FALSE
