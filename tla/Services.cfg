SPECIFICATION Spec
CONSTANTS
    Runs = {1, 2}
    Invalid = {2}
    Workers = {a1, a2}
    Cron = Cron
    None = None
    Restarts = {TRUE}
    Attempt = {a1, a2}
    MaxSecrets = 2
    MaxFailed = 3
    MaxWrites = 5
    Connection = {a1, a2}
    Work = {k1, k2}
    Actor = {x, y}
    Job = {"j1", "j2"}
    Replica = {"a", "b"}
    Handler = {"x", "y"}
    Known <- Releases
    MaxActive = 1
    MaxJobWrites = 2
    MaxExecutions = 2
    Request = {a1, a2}
    Fingerprint = {"f1", "f2"}
    Response <- Responses
    MaxTries = 2
    Id = {"i1", "i2"}
    Code = {"c1"}
    Tenant = {"t1"}
    Body = {"b1", "b2"}
    DocumentSize <- Sizes
    MaxPublishedRows = 2
    MaxPublishedBytes = 3
    MaxVersions = 2
    MaxPolicyWrites = 3
    Value = {"x", "y"}
    ConfigReader = {a1, a2}
    MaxConfigWrites = 3
    Person = {"p1"}
    Organisation = {"o1"}
    Task = {a1, a2}
    UserStatus = {"disabled"}
    MaxRowVersion = 2
    OutCall = {a1, a2}
    MaxAttempts = 3
    FailureThreshold = 2
    Dependency = {"database", "redis"}
    Caller = {"c1", "pub"}
    Publisher = "pub"
    Route <- Routes
    Candidate <- Descriptors
    ActionScope <- Scopes
    Principal <- Principals
    Target = {"r1"}
    Idempotent <- SelectedRoutes
    FailOpen = TRUE
    MaxChanges = 2
    ListRow = {1, 2, 3}
    DefaultPageSize = 1
    MaxPageSize = 2
    MaxListRows = 2
    MaxListWrites = 1
INVARIANTS CompletedOnce AccountsAreSound ActorsAreOwn QueriesAreSound RequestsAreAnswered
    ScheduleIsSound CallsAreSound ReadsAreCurrent
PROPERTIES LatestClaimDecides PublishesWhatWasReviewed
SYMMETRY Symmetry
CHECK_DEADLOCK FALSE
