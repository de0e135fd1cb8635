SPECIFICATION Spec
CONSTANTS
    c1 = c1
    c2 = c2
    okta = okta
    google = google
    u1 = u1
    u2 = u2
    mail = mail
    Callback = {c1, c2}
    Provider = {okta, google}
    Account = {u1, u2}
    Home <- MCHome
    Email = {mail}
    EmailOf <- MCEmailOf
    Mapped = {u1}
    Ttl = 2
    Faults = TRUE
    MaxLogins = 2
    MaxCodes = 3
    MaxTime = 2
    MaxRestarts = 1
SYMMETRY Symmetry
INVARIANTS
    TypeOK
    SingleUse
    LoginBound
    KnownPersonKept
CHECK_DEADLOCK FALSE
