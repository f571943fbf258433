SPECIFICATION Spec
CONSTANTS
    ControlPlanes = {"a", "b"}
    Setups <- MCSetups
INVARIANTS
    TokensAccepted
    IdentityProven
    AnsweredOnce

    
CHECK_DEADLOCK FALSE
