SPECIFICATION Spec
CONSTANTS
    AccountIds = {a}
    Emails = {e}
    Subjects = {g, h}
    SessionIds = {s1, s2}
    FlowIds = {f1, f2}
    Requests = {r1, r2}
    Instances = {{"oauth", "refresh", "logout", "lapse", "delete", "crash"},
                 {"signup", "verify", "reset", "change", "login", "rehash", "oauth", "challenge", "app",
                  "link", "unlink", "revoke_all"}}
    NoAccount = NoAccount
    NoEmail = NoEmail
    NoSession = NoSession
    NoFlow = NoFlow
    MaxPairs = 3
    MaxPasswords = 1
    MaxUses = 2
    MaxCrashes = 1
SYMMETRY Symmetry
INVARIANTS
    ReuseOnlyIfRepeated
    RepeatEndsFamily
    OneSessionPerAppLogin
    WayInKept
PROPERTY Chain
CHECK_DEADLOCK FALSE
