SPECIFICATION Spec
CONSTANTS
    email = email
    url = url
    bad = bad
    emailtxt = emailtxt
    urltxt = urltxt
    alerts = alerts
    plain = plain
    other = other
    Scanner = {email, url, bad}
    Sbuf = {s1, s2}
    Worker = {w1, w2}
    NoScanner = NoScanner
    Idle = Idle
    RecorderName = {emailtxt, urltxt, alerts}
    ALERT_RECORDER_NAME = alerts
    Def = {plain, other}
    DefaultDef = plain
    default_enabled = {email, bad}
    no_all = {bad}
    feature_defs <- MCfeature_defs
    histogram_defs <- MChistogram_defs
    ALL_SCANNERS = ALL_SCANNERS
    CommandLists <- SomeCommandLists
    no_alert = FALSE
    ThrowIn = {2, 5, 6}
    benchmark_wanted = TRUE
    MaxFailures = 2
    DestroyBusy = FALSE
    MaxApplies = 2
INVARIANTS TypeOK   NotCleanedWhileScanning  NoTerminate
PROPERTIES Destroyed
