------------------------- MODULE MCTenantOnboarding -------------------------
\* Values for TenantOnboarding: a tenant that is listed at first and one that
\* is onboarded, by one job or by two at a time.
EXTENDS TenantOnboarding

CONSTANTS default, acme, job1, job2
=============================================================================
