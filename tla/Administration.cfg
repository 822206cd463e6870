SPECIFICATION Spec
CONSTANTS
    Permission = {p1, p2}
    Role = {r1}
    Member = {m1, m2}
    CodeAction = {"c1"}
    ManualAction = {"x1"}
    CatalogBuild = {1, 2, 3}
    Defined <- BuildActions
    TenantScope <- BuildTenantScope
    PermissionNode = {"n1"}
    SeedNode = {"g1"}
    Principal = {"q1"}
    Department = {"a", "b", "c"}
    Staff = {"s1"}
    MaxDepartmentNodes = 2
    Item = {"i1", "i2"}
    Value = {"", "i1"}
    MaxTreeNodes = 2
    MaxDepth = 2
    ItemBytes <- ItemSizes
    MaxItemsBytes = 2
    MaxVersion = 4
    SnapshotReads = FALSE
    App = {"h"}
    Home = "h"
    Nav = {"a", "b", "c"}
    MaxNavNodes = 2
    Segment = {"u"}
    MaxWrites = 3
INVARIANTS AccessIsSound CatalogIsSound TreesAreSound
PROPERTIES DelegationIsBounded CatalogFollowsNewestBuild
SYMMETRY Symmetry
CHECK_DEADLOCK FALSE
