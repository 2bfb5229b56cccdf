\* Two API processes, two users, two tenants, one session and two API keys.
CONSTANTS
    Procs = {p1, p2}
    Users = {alice, bob}
    Orgs = {acme, other}
    Home = acme
    Tokens = {t1}
    Keys = {k1, k2}
    Nobody = Nobody
    MaxAudit = 4
    MaxFaults = 1
    MaxChanges = 1
SPECIFICATION IdentitySpec
SYMMETRY Interchangeable
INVARIANTS
    DeadCredentialStaysOut
    AuditChainIntact
    BootstrapIsAtomic
    KeyWithinGrant
    ChangesAreAudited
\* An operator may lock the only user out, and then no request is served.
CHECK_DEADLOCK FALSE
