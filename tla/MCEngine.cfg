SPECIFICATION FairSpec
CONSTANTS
    Requests = {r1, r2}
    Targets = {t1}
    Offered = {"ssh", "file", "deploy", "list", "query", "script"}
    Concurrencies = {1, 2}
INVARIANTS WritesAreAlone AuditIsTruthful
PROPERTIES Returns
