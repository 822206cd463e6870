SPECIFICATION Spec
CONSTANTS
    Events = {1}
    Contents = {a, b}
    Consumers = {c1, c2}
    MaxDeliver = 2
    MaxCopies = 2
    Nothing = Nothing
    Nodes = {n1}
    Threads = {t1}
    Runner = Runner
    Nobody = Nobody
    MaxRev = 2
    Broken = {1}
INVARIANTS AuditIsKept SnapshotIsSound ClosedAfterUse
PROPERTIES SnapshotNeverRegresses EventuallyLogged SyncConverges RunsProgress EntriesFollowDefinitions ShutdownEnds
CHECK_DEADLOCK FALSE
