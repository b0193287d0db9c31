SPECIFICATION Spec
SYMMETRY Symmetry
CONSTANTS
    b1 = b1
    b2 = b2
    t1 = t1
    t2 = t2
    app = app
    None = None
    Browsers = {b1, b2}
    Tabs = {t1, t2}
    BrowserOf <- Apart
    Requests = {r1}
    AppOf <- OneApp
    Apps = {app}
    Providers = {"github"}
    Accounts = {alice, bob}
    States = {s1, s2}
    TTL = 1
    MaxTime = 2
    Faults = TRUE
INVARIANT TypeOK
INVARIANT SignedInByOwnFlow
INVARIANT DisabledProviderAdmitsNobody
