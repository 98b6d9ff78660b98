SPECIFICATION Spec
CONSTANTS
    Requests = {r1, r2}
    Engines = {mysql, postgres}
    MaxRevision = 2
    MaxGeneration = 3
    NoRow = NoRow
INVARIANTS QuietWhileRevoked SentIsCurrent EnabledIsUsable
