SPECIFICATION Spec
CONSTANTS
    Workers = {w1, w2, w3}
    Pipelines <- MCPipelines
    Modules <- MCModules
    Calls <- MCCalls
    IndirectCallers <- MCIndirectCallers
    Referenced <- MCReferenced
    Unknown = Unknown
INVARIANTS IndirectEffectsCover
