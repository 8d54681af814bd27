SPECIFICATION Spec
CONSTANTS
    core = core
    feature = feature
    library = library
    Name = {core, feature, library}
    AOTNames <- MCAOTNames
    Placeholders <- MCPlaceholders
    MaxObjects = 6
INVARIANTS ReferencesAreBuilt LoadedAfterUsesNewest LoadedAreListed
