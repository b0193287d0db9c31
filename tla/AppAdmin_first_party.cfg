SPECIFICATION Spec
CONSTANTS
    Procs = {p1}
    AppIds = {a1}
    ClientIds = {c1, c2}
    Secrets = {x1, x2}
    Names = {"n1"}
    Spellings = {"openid", "profile", "email", "OpenID", "offline"}
    Lower <- MCLower
    Forms <- MCForms
    None = None
    DBFaults = FALSE
    Crashes = FALSE
INVARIANT RegisteredAsSubmitted
