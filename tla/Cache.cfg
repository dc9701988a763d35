\* Two requests at once, over a table that is written by both programs.
SPECIFICATION FairSpec
CONSTANTS
    areas = areas
    feed = feed
    location = location
    Request = {r1, r2}
    Table = {location}
    FedTable = {location}
    DataUrl = {areas, feed}
    ListUrl = {areas}
    TableOf <- OneTable
    WriteUrl = {areas}
    BatchUrl = {areas}
    PruneUrl = prune
    MaxWrites = 1
    MaxFailures = 1
INVARIANTS
    TypeOK
    FreshWithoutOverlap
PROPERTY EventuallyConsistent
