SPECIFICATION Spec
CONSTANTS
    Modules <- TailCallModules
    NoGlobal = NoGlobal
    Host = Host
    No = No
    MaxScript = 2
    MaxAnswers = 3
    Fuel = 12
INVARIANTS SameBehaviour
