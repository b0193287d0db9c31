SPECIFICATION FairSpec
CONSTANTS
    Tokens = {t1, t2}
    Subjects = {u1, u2}
    SessionTTL = 1
    Unused = Unused
    Deleted = Deleted
    Requests = {r1}
    MaxTime = 3
INVARIANTS
    TypeOK
    RevocationIsFinal
PROPERTIES
    CleanupSparesLiveSessions
    NoRevival
    DeadSessionsAreCollected
