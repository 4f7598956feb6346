SPECIFICATION DaySpec
CONSTANTS
    Runs = {d1, d2}
    Notices = {n1, n2}
    MaxAttempts = 2
    RunLimit = 2
    Reminders = {n1}
    Due = {n1}
    DueJobs = {j1}
    CollectionJobs = {}
INVARIANTS
    OneHandler
    AttemptsBounded
    RemindersQueued
PROPERTIES
    SettledUnlessKilled
    RemindedUnlessKilled
    ImplementsDelivery
