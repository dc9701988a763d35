\* The documented answer of PATCH /feeds/areas.
SPECIFICATION FairSpec
CONSTANTS
    Request = {r1}
    NullChannels = FALSE
    MaxConns = 2
PROPERTY PatchAnswered
