SPECIFICATION OutboxFairSpec
CONSTANTS
    t1 = t1
    None = None
    Tenants = {t1}
    Workers = {w1, w2}
    Rows = {1, 2}
    TenantOf <- OneTenantOf
    TenantBatch = 1
    SeqBatch = 2
    PublishBatch = 2
    MaxFailures = 1
    MaxRollbacks = 1
INVARIANT Numbering
PROPERTIES ImplementsEventLog EventuallyDispatched
