CONSTANTS
    Alphabet <- MCAlphabet
    BadStrings <- MCBadStrings
    Profiles <- MCProfiles
    None = None
    Panic = Panic
    MeshName = "default"
    Proxy = "web"
    Meshes <- MCMeshes
    Networkings <- MCNetworkings
    PolicyInputs <- MCPolicies
    Metadata <- MCMetadata
    MaxPolicies = 2
    MaxClock = 2
SPECIFICATION Spec
INVARIANTS
    
    ReferencesResolve
    EndpointsServe
    HttpOnlyToHttp
    InboundsGuarded
    
    MostSpecific
