SPECIFICATION FairSpec
CONSTANTS
    webApp = webApp
    spaApp = spaApp
    Tokens = {t1}
    Subjects = {u1}
    SessionTTL = 1
    Unused = Unused
    Deleted = Deleted
    Procs = {p1, p2}
    Codes = {c1}
    Clients <- MCClients
    ClientRow <- MCClientRow
    Apps <- MCApps
    Scopes <- MCScopes
    InitialScopes <- MCInitialScopes
    ScopeChoices <- MCScopeChoices
    AuthorizeRequests <- MCFewAuthorizeRequests
    TokenRequests <- MCFewTokenRequests
    S256 <- MCS256
    Length <- MCLength
    CodeTTL = 1
    MaxTime = 2
    DBFaults = FALSE
    Crashes = FALSE
    Empty = ""
    NoCode = NoCode
    NoRequest = NoRequest
    Nobody = Nobody
PROPERTIES
    RequestsAreAnswered
    SpentCodesAreSettled
