SPECIFICATION FairSpec
CONSTANTS
    default = default
    ghost = ghost
    repairable = repairable
    hopeless = hopeless
    garbage = garbage
    poison = poison
    surrogate = surrogate
    Tenants <- MCTenants
    Registry <- MCRegistry
    Hosts <- MCHosts
    HostTenantMap <- MCHostTenantMap
    DefaultTenant = default
    FallbackTenant = default
    SeverityDefault = "info"
    ValidatorLoaded = TRUE
    RequireTenant = FALSE
    Msgs = {repairable, hopeless, garbage, poison, surrogate}
    BodyOf <- MCBodyOf
    Unencodable <- MCUnencodable
    Nothing = Nothing
    Tools = {"replay", "dryrun", "peek"}
    Limit = 2
    Attempts = 2
    QuarantineBound = TRUE
    MaxFaults = 1
INVARIANT TypeOK
INVARIANT ReplayLosesNothing
INVARIANT CopiesBounded
PROPERTY DryRunKeepsQueue
PROPERTY SessionEnds
PROPERTY OnlyPoisonBlocks
