SPECIFICATION MCSpec
CONSTANTS
    Unknown = Unknown
    Action = "discount_apply"
    Facts <- MCFacts
    Cases <- MCCases
    Scopes = {"discount:apply", "quotation:prepare"}
    SettingsValues <- MCSettingsValues
    PolicyValues <- MCPolicyValues
    DefaultSettings <- MCDefaultSettings
    Roles = {"admin", "sales"}
    Starters = {s1, s2}
    u1 = u1
    Admins = {u1, u2}
    e1 = e1
    e2 = e2
    Evaluators = {e1, e2}
    Ledger = {e1}
    Previews = {e2}
    MaxVersions = 3
    MaxApprovals = 2
    Calls = {1, 2, 3}
    Keys = {1, 2}
    Files <- MCFiles
    Flagged = {"stock", "catalog", "customer_import_staging"}
    Absent = Absent
CHECK_DEADLOCK FALSE
INVARIANT AuthorityInv
INVARIANT ApprovalsAreAskedFor
INVARIANT RevokedIsPowerless
INVARIANT TighterIsNeverFreer
INVARIANT PreviewPromisesNoMore
INVARIANT ImportsInv
INVARIANT OneFileInEffect
