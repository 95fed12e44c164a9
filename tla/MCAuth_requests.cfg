\* Accounts with two requests at a time; a second factor with three requests.
SPECIFICATION AuthSpec
CONSTANTS
    Procs = {p1, p2}
    Spellings <- MCSpellings
    Normal <- MCNormal
    Tenants = {"t1", "t2"}
    Keys = {"k1", "k2"}
    Used <- MCUsed
    MaxRequests = 3
    Requests = {r1, r2, r3}
    MaxCounter = 3
    CodesPerSet = 2
    First = First
    None = None
SYMMETRY AuthSymmetry
CHECK_DEADLOCK FALSE
INVARIANTS VerifiedByMail OkMeansReachable SentIsUsable StaysInTenant EnabledIsVerified AcceptedOnce
PROPERTIES KeyLogins ReplacementIsWhole LeftoversAreNewer
