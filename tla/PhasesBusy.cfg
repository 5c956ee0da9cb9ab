SPECIFICATION Spec
CONSTANTS
    email = email
    url = url
    bad = bad
    emailtxt = emailtxt
    urltxt = urltxt
    alerts = alerts
    plain = plain
    other = other
    Scanner = {email, url}
    Sbuf = {s1}
    Worker = {w1}
    NoScanner = NoScanner
    Idle = Idle
    RecorderName = {emailtxt, urltxt, alerts}
    ALERT_RECORDER_NAME = alerts
    Def = {plain, other}
    DefaultDef = plain
    default_enabled = {email}
    no_all = {}
    feature_defs <- MCfeature_defs
    histogram_defs <- MChistogram_defs
    ALL_SCANNERS = ALL_SCANNERS
    CommandLists <- FewCommandLists
    no_alert = FALSE
    ThrowIn = {}
    benchmark_wanted = FALSE
    MaxFailures = 0
    DestroyBusy = TRUE
    MaxApplies = 1
INVARIANTS NothingAfterCleaned
