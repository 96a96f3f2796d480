-------------------------- MODULE MCEventLifecycle --------------------------
\* Values for EventLifecycle: a default tenant, a registered tenant and one
\* that is not in the registry; a host mapped to the registered tenant and a
\* host that is not mapped.
EXTENDS EventLifecycle

CONSTANTS default, acme, ghost, firewall, laptop

MCTenants == {default, acme, ghost}
MCRegistry == {default, acme}
MCHosts == {firewall, laptop}
MCHostTenantMap == [h \in {firewall} |-> acme]
=============================================================================
