SPECIFICATION MCSpec
CONSTANTS
    Admin = {a1}
    Tab = {t1, t2}
    Code = {c1}
    MaxIssues = 2
    MaxSessions = 2
    Limit = 1
    MaxFaults = 1
    None = None
INVARIANTS PanelInv RequestsAreOwned
PROPERTIES SessionsStayGone LockoutEnds
