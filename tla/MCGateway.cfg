CONSTANTS
    Migrations = 2
    MaxFailures = 1

SPECIFICATION Spec

INVARIANTS
    TypeOK
    BrokenIsLogged
    RefusedMeansUntouched
    FailuresAreTold

PROPERTIES
    EveryRequestEnds

