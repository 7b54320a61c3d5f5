SPECIFICATION EffectsSpec
CONSTANTS
    Modules <- MCModules
    Effects <- MCEffects
    Unknown = Unknown
    Known <- MCKnown
    Graph = {}
    Inputs <- MCInputs
    None = None
INVARIANTS EffectsTypeOK EffectsCoverExecutions IndirectEffectsCoverExecutions
           NoEffectsInvented
PROPERTIES PassEnds
