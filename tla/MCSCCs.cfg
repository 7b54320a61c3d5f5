SPECIFICATION Spec
CONSTANTS
    Graph <- MCGraphs
    Inputs <- MCInputs
    None = None
INVARIANTS TypeOK AssertionsHold StackInOrder DeliversComponents CalleesFirst
PROPERTIES DeliversAll
