SPECIFICATION SamplerSpec
CONSTANTS
    Vocab = 3
    PromptTokens = {0, 2, 3}
    Temperatures = {0, 1, 2, 3}
    TopKs <- SmallTopKs
    TopPs <- SmallTopPs
    Penalties <- SmallPenalties
    Logits <- SmallLogits
    MaxFinite = 4
    Underflow = 3
    Exp <- SmallExp
PROPERTIES
    SampledFromNucleus
CHECK_DEADLOCK FALSE
