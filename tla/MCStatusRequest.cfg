SPECIFICATION Spec
CONSTANTS
    Programs = {"PatternMatcher"}
    Table <- MCTable
    Inputs <- StatusInputs
    Later <- StatusInputs
INVARIANT StatusIsRunnable
