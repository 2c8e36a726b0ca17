CONSTANTS
    Malformed = Malformed
    Null = Null
    Absent = Absent
    Modules <- MCModules
    Broken <- MCBroken
    Directives <- MCDirectives
    MaxDirectives = 4
    JSONConfigs <- MCJSON
SPECIFICATION Spec
INVARIANTS AcceptedIffWellFormed RunningAsWritten DetectorMatchesService
