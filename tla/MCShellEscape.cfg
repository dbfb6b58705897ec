CONSTANTS
    Alphabet <- MCAlphabet
    MaxLen = 3
    EnvKeys <- MCEnvKeys

SPECIFICATION Spec

INVARIANT CdArgumentIsLiteral
INVARIANT SourcedEnvIsLiteral
