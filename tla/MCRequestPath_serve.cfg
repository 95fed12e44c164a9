SPECIFICATION Spec
CONSTANTS
    Deployments <- MCDeployments
    Requests <- MCRequests
    TenantOf <- MCTenantOf
    MaxOps = 3
    MaxBytes = 2
CHECK_DEADLOCK FALSE
INVARIANTS OneAnswer ObserversAgree CachedAsSent CacheKeepsApart TenantIsolation
