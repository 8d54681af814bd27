SPECIFICATION Spec
CONSTANTS
    feature = feature
    library = library
    feature1 = feature1
    feature2 = feature2
    library1 = library1
    tEntry = tEntry
    tShared = tShared
    Name = {feature, library}
    Binary = {feature1, feature2, library1}
    NameOf <- MCNameOf
    TypeName = {tEntry, tShared}
    Types <- MCTypes
    Placeholders <- MCPlaceholders
    Batches <- MCBatches
    NoBinary = NoBinary
    MaxObjects = 4
    MaxListed = 3
    MaxNesting = 2
INVARIANTS CachesAreCurrent HotfixStays LoaderFollowsRuntime RuntimeFindsNoHalfBuilt
