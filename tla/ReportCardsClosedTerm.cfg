\* One director, nobody else: publishing an approved card after the closing
\* of the term writes its ranking before the closing is noticed.
SPECIFICATION Spec
CONSTANTS
    Requests = {r1}
    Cards = {c1}
    Annual = {}
    Remarked = {c1}
    MaxChanges = 1
    MaxMissing = 1
    MaxCrashes = 0
PROPERTY
    ClosedTermFrozen
