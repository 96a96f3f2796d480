SPECIFICATION FairSpec
CONSTANTS
    default = default
    acme = acme
    job1 = job1
    job2 = job2
    Tenants = {default, acme}
    Runs = {job1, job2}
    Formats = {"missing", "strings", "objects"}
    Default = default
    MaxFaults = 1
INVARIANT TypeOK
INVARIANT OnboardedStays
INVARIANT AliasNotTaken
INVARIANT NoBareIndexLeft
PROPERTY RegisteredIsKnown
