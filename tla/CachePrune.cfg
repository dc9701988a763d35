\* The comment on not caching write endpoints.
SPECIFICATION Spec
CONSTANTS
    areas = areas
    feed = feed
    location = location
    Request = {r1, r2}
    Table = {location}
    FedTable = {location}
    DataUrl = {areas, feed}
    ListUrl = {areas}
    TableOf <- OneTable
    WriteUrl = {areas}
    BatchUrl = {areas}
    PruneUrl = prune
    MaxWrites = 1
    MaxFailures = 0
INVARIANT PruneFlushes
