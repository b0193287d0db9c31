SPECIFICATION FairSpec
CONSTANTS
    b1 = b1
    b2 = b2
    t1 = t1
    t2 = t2
    app = app
    None = None
    Browsers = {b1}
    Tabs = {t1}
    BrowserOf <- Together
    Requests = {r1, r2}
    AppOf <- OneApp
    Apps = {app}
    Providers = {"google", "github"}
    Accounts = {alice, bob}
    States = {s1, s2}
    TTL = 1
    MaxTime = 2
    Faults = FALSE
INVARIANT ResumesOriginalRequest
PROPERTY SignInIsNotRepeated
