CONSTANTS
    Undefined = Undefined
    RoleInputs <- MCRoleInputs
    LowerOf <- MCLowerOf
    ProtoKeys <- MCProtoKeys
    Providers <- MCProviders
SPECIFICATION Spec
INVARIANT AgreesWithPolicy
