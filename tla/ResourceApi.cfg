SPECIFICATION Spec
CONSTANTS
    Slots = {s1, s2, s3}
    MaxPageSize = 3
    DefaultPageSize = 3
    Qualified = {2, 3, 4, 5, 6}
    BadSpecs = {"bad"}
    GatewaySpecs = {"b"}
    Users = {"u1", "u2"}
    MaxKubectl = 2
    Readers = {"r1", "r2"}
    ExpirationTime = 2
    MaxFetch = 1
    MaxTime = 5
    Deployments <- MCDeployments
INVARIANTS
    
    ListComplete
    CacheBounded
    

    
