\* The budget changes back and forth while deliveries hold old limiters.
CONSTANTS
    Deliveries = {d1, d2}
    Limiters = {l1, l2, l3}
    NoLimiter = NoLimiter
    Budgets <- MCBudgets
    Configured <- MCConfigured
    ExchangeMessagesPerMinute = 2
    ExchangeConcurrentConnections = 2
    Minute = 2
SPECIFICATION FairSpec
INVARIANTS BurstBounded SlotsAccounted
PROPERTY SomebodyProceeds
