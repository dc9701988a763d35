\* The comment on deleting the entry of a written URL.
SPECIFICATION Spec
CONSTANTS
    areas = areas
    feed = feed
    location = location
    Request = {r1, r2}
    Table = {location}
    FedTable = {location}
    DataUrl = {areas, feed}
    ListUrl = {areas}
    TableOf <- OneTable
    WriteUrl = {areas}
    BatchUrl = {areas}
    PruneUrl = prune
    MaxWrites = 2
    MaxFailures = 0
INVARIANT WriteRemovesEntry
