--------------------------- MODULE MCTenantAccess ---------------------------
\* Values for TenantAccess: two tenants and the admin (users share nothing
\* but the table of tenants).  The alias of the default tenant also holds events
\* of the other one.  The configuration lists one tenant, both, or one without
\* a policy.
EXTENDS TenantAccess

CONSTANTS default, acme, admin

MCContent == [t \in Tenants |-> IF t = default THEN {default, acme} ELSE {acme}]
MCConfigs == {[t \in Tenants |-> IF t = default THEN "active" ELSE s] :
                 s \in {"unlisted", "inactive", "nopolicy"}}
=============================================================================
