\* Three layers, prompts of up to three chunks.
SPECIFICATION GenerateSpec
CONSTANTS
    Layers = 3
    Context = 7
    Chunk = 3
    Bodies <- MCBodies
    DefaultTokens = 3
    Architectures = {"hunyuan-dense", "hy_v3"}
    Samplings <- MCSamplings
INVARIANTS
    CachesAligned
    LayersInStep
    KvBounded
    ConsumedAsReported
    NeverRefused
    PreparedIsInOrder
    SampledInPlace
    UsageIsExact
PROPERTIES
    PoisonIsFinal
    CancelledPassFails
    GenerationEnds
CHECK_DEADLOCK FALSE
