SPECIFICATION FairSpec
CONSTANTS
    Tokens = {t1, t2}
    Subjects = {o1, o2}
    SessionTTL = 1
    Unused = Unused
    Deleted = Deleted
    Procs = {p1, p2}
    MaxTime = 2
    DBFaults = TRUE
    Crashes = TRUE
    Nobody = Nobody
INVARIANTS
    TypeOK
    AtMostOneOperator
    SessionsBelongToOperators
    LogoutIsFinal
PROPERTY RequestsAreAnswered
