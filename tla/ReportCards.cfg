SPECIFICATION Spec
CONSTANTS
    Requests = {r1}
    Cards = {c1, c2}
    Annual = {c2}
    Remarked = {c1}
    MaxChanges = 1
    MaxMissing = 1
    MaxCrashes = 1
INVARIANTS
    PublishedArchived
    DraftsFollowGrades
PROPERTIES
    PublishedDefinitive
    PublishedImmutable
    TermGetsClosed
