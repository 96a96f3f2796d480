SPECIFICATION FairSpec
CONSTANTS
    default = default
    good = good
    good2 = good2
    invalid = invalid
    garbage = garbage
    Tenants <- MCTenants
    Registry <- MCTenants
    Hosts <- MCHosts
    HostTenantMap <- MCHostTenantMap
    DefaultTenant = default
    ValidatorLoaded = TRUE
    RequireTenant = FALSE
    Msgs = {good, good2, invalid}
    BodyOf <- MCBodyOf
    NoMsg = NoMsg
    UseManualDlx = FALSE
    DlqBound = TRUE
    Prefetch = 2
    Retries = 1
    MaxFaults = 2
INVARIANT NoLoss
INVARIANT TagsOutstanding
INVARIANT RejectedNeverIndexed
INVARIANT DuplicatesBounded
INVARIANT DeadOrPending
INVARIANT CountersBalance
PROPERTY SettledIsFinal
PROPERTY EventuallySettled
PROPERTY ImplementsDelivery
\* once every message is settled the consumer waits for more
CHECK_DEADLOCK FALSE
