CONSTANTS
    t1 = t1
    t2 = t2
    t3 = t3
    Timer = {t1, t2, t3}
    None = None
    VersionMax = 3
    FailMax = 1
    CrashMax = 1
    q1 = q1
    a1 = a1
    a2 = a2
    e1 = e1
    e2 = e2
    n1 = n1
    Request = {q1}
    Admin = {a1, a2}
    Down = Down
    Entry = {e1, e2}
    SaveMax = 2
    ClientMax = 3
    Note = {n1}
    max_retries = 3
    ConfigField <- Fields
    Secret = {"key", "token"}
    Restarting = {"port"}
    AuthToken = "token"
    Template <- MCTemplate
    ManifestDefault <- Defaults
    BuiltIn <- Defaults
    Profile = {"work"}
    Outside <- MCOutside
    Updates <- MCUpdates
    WriteMax = 2
    m1 = m1
    m2 = m2
    DedupKey = {m1, m2}
    SubmitMax = 3
    RetryMax = 1
    Failures = {"flood", "transient", "other"}
    CanShutDown = TRUE
SPECIFICATION MCSpec
INVARIANTS SwitchIsInUse
CHECK_DEADLOCK FALSE
