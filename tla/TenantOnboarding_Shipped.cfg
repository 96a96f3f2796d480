SPECIFICATION Spec
CONSTANTS
    default = default
    acme = acme
    job1 = job1
    job2 = job2
    Tenants = {default, acme}
    Runs = {job1, job2}
    Formats = {"wrapped"}
    Default = default
    MaxFaults = 0
INVARIANT ShippedTenantsKnown
