SPECIFICATION MCExchangeSpec
CONSTANTS
    payload1 = payload1
    payload2 = payload2
    None = None
    Imprint = {payload1, payload2}
    Width = 2
    HalfByte = 2
    Draws <- MCDraws
    MaxRetries = 1
    Timeout = 1
    MaxDivergence = 2
    Drifts <- MCDrifts
    MaxTime = 3
    MaxTokens = 2
INVARIANTS
    NonceIsFaithful
PROPERTIES
    KeepsThePromise
    GoodAnswersPass
    ExchangeEnds
CHECK_DEADLOCK FALSE
