SPECIFICATION FairSpec
CONSTANTS
    default = default
    acme = acme
    admin = admin
    Tenants = {default, acme}
    Users = {admin}
    Admin = admin
    Nobody = Nobody
    Content <- MCContent
    Configs <- MCConfigs
    Ttl = 2
    MaxTokens = 2
INVARIANT TokensAge
INVARIANT RepliesAreScoped
PROPERTY AccessEnds
