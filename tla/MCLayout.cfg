SPECIFICATION Spec
CONSTANTS
    Maps <- MCMaps
    ImageEnds <- MCImageEnds
CHECK_DEADLOCK FALSE
INVARIANTS
    PoolMappable
    PoolInMemory
    FaultsOnlyBeyondBootMap
    StartsUp
    MappingKept
PROPERTY StartUpEnds
