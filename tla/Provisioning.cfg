SPECIFICATION Spec
CONSTANTS
    Procs = {p1, p2}
    Users = {u1, u2, u3, u4}
    Accounts <- MCAccounts
    SyntheticEmail <- MCSyntheticEmail
    DBFaults = TRUE
    Crashes = TRUE
    Empty = ""
    NoUser = NoUser
    NoReport = NoReport
SYMMETRY Symmetry
INVARIANTS
    TypeOK
    OneUserPerIdentity
    LinkedOnlyByVerifiedEmail
    AddressLeadsToOneUser
    NoUserWithoutIdentity
