SPECIFICATION SpecOnline
CONSTANTS
    Pupils = {s1}
    Reachable = {s1}
    Pages = {p1}
    Tabs = {1}
    Directors = {c1}
    MaxMarks = 2
    MaxLate = 1
INVARIANTS
    AbsencesAnnounced
    AbsencesFollowed
PROPERTIES
    ValidatedFrozen
    ContactsKept
    LastMarksSettle
