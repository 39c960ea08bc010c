CONSTANTS
    Char <- MCChar
    MaxLen = 3
SPECIFICATION Spec
INVARIANTS
    TypeOK
    FormIsKept
    Converges
    FollowIsMerge
    IdentityStaysIdentity
    ComposeIsSequential
    TotalIsOneInsert
    DiffIsMinimal
    MirrorsGo
