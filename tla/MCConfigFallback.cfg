CONSTANTS
    Malformed = Malformed
    Null = Null
    Absent = Absent
    Modules <- MCModules
    Broken <- MCBroken
    Directives <- MCDirectives
    MaxDirectives = 2
    JSONConfigs <- MCJSON
SPECIFICATION Spec
INVARIANTS FallbackFalseInForce
