SPECIFICATION Spec
CONSTANTS
    Modules <- MCModules
    Export = "main"
    Waiting = {"wait"}
    Fibers <- MCFibers
    Answers = {0, 1}
    MaxAnswers = 3
    Room = 16
    StackEnds = {3, 16}
INVARIANTS SameAsOriginal StackBalanced TrapsForAReason
CHECK_DEADLOCK FALSE
