SPECIFICATION FairSpec
CONSTANTS
    default = default
    good = good
    good2 = good2
    invalid = invalid
    garbage = garbage
    Tenants <- MCTenants
    Registry <- MCTenants
    Hosts <- MCHosts
    HostTenantMap <- MCHostTenantMap
    DefaultTenant = default
    ValidatorLoaded = TRUE
    RequireTenant = FALSE
    Msgs = {good, garbage}
    BodyOf <- MCBodyOf
    NoMsg = NoMsg
    UseManualDlx = TRUE
    DlqBound = TRUE
    Prefetch = 2
    Retries = 3
    MaxFaults = 2
INVARIANT DuplicatesBounded
PROPERTY ImplementsLiveDelivery
\* once every message is settled the consumer waits for more
CHECK_DEADLOCK FALSE
