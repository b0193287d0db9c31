SPECIFICATION Spec
CONSTANTS
    Procs = {p1, p2}
    AppIds = {a1, a2}
    ClientIds = {c1, c2}
    Secrets = {x1, x2}
    Names = {"n1"}
    Spellings = {"openid", "profile", "email", "OpenID", "offline"}
    Lower <- MCLower
    Forms <- MCForms
    None = None
    DBFaults = TRUE
    Crashes = TRUE
SYMMETRY Symmetry
INVARIANTS
    TypeOK
    NoHalfRegistration
    ShownCredentialsWork
    EditsAddUp
