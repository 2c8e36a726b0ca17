CONSTANTS
    Lower <- MCLower
    Private <- MCPrivate
    Policies <- MCPolicies
    Kinds = {"tcp", "connect", "packets"}
    Dests <- MCDests
    Answers <- MCAnswers
    TTL = 1
    MaxCached = 2
    MaxTime = 3
SPECIFICATION Spec
INVARIANT OnlyListedNames
