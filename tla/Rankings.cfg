SPECIFICATION Spec
CONSTANTS
    Students = {s1, s2, s3, s4}
    Averages = {0, 5, 6, 9}
    Tolerance = 1
CHECK_DEADLOCK FALSE
INVARIANTS
    RankIsStanding
