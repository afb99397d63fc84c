SPECIFICATION Spec
CONSTANTS
    m1 = m1
    m2 = m2
    Id = {m1, m2}
    MaxRetries = 2
    RetryDelay = 1
    Concurrency = 2
    MaxEnqueues <- MCMaxEnqueues
    MaxRequeues = 1
PROPERTIES
    FailedMessageIsKept
