SPECIFICATION Spec
CONSTANTS
    default = default
    acme = acme
    ghost = ghost
    firewall = firewall
    laptop = laptop
    Tenants <- MCTenants
    Registry <- MCRegistry
    Hosts <- MCHosts
    HostTenantMap <- MCHostTenantMap
    DefaultTenant = default
    FallbackTenant = default
    SeverityDefault = "info"
    ValidatorLoaded = TRUE
    RequireTenant = TRUE
    Quarantine = TRUE
    MaxRounds = 2
INVARIANT TenantComesFromProducer
\* an event that is indexed, discarded or quarantined goes nowhere else
CHECK_DEADLOCK FALSE
