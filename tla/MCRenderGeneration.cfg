CONSTANTS
    old = old
    new = new
    Workers <- MCWorkers
    GenOf <- MCGenOf
    Config <- MCConfig
    Visible = {v}
    Hidden = {h}
    MaxAttempts = 2
    MaxJobs = 3
SPECIFICATION Spec
INVARIANTS
    TypeOK
    WarningsAreShown
PROPERTIES
    NoDowngrade
    EnabledForGood
    EnabledAsConfigured
