SPECIFICATION Spec
CONSTANTS
    Modules <- MCModules
    NoGlobal = NoGlobal
    Host = Host
    No = No
    MaxScript = 2
    MaxAnswers = 3
    Fuel = 12
INVARIANTS AssertionsHold SameBehaviour
PROPERTIES Terminates
