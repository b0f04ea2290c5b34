SPECIFICATION PayloadSpec
CONSTANTS
    IntBits = 10
    FloatBits = 4
    Names = {"X-Job-Id", "Idempotency-Key", "Content-Type", "X-Custom"}
    Spellings = {"canonical", "lower"}
    Bodies <- MCBodies
    Timeouts <- MCTimeouts
    DefaultTimeoutMs = 5
    NsPerMs = 10
INVARIANTS
    RequestIsAsGiven
PROPERTIES
    StoredWebhookIsStable
