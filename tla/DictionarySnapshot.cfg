SPECIFICATION Spec
CONSTANTS
    Item = {i1, i2}
    Value = {"", i1}
    MaxTreeNodes = 2
    MaxDepth = 2
    ItemBytes <- ItemSizes
    MaxItemsBytes = 2
    MaxVersion = 5
    SnapshotReads = TRUE
INVARIANT EveryItemIsServed
CHECK_DEADLOCK FALSE
