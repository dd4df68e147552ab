SPECIFICATION Spec
CONSTANTS
    Programs <- MCPrograms
    Table <- MCTable
    Inputs <- MCInputs
    Later <- MCLater
INVARIANTS
    VerdictIsRight ValuesAreItsOwn RequestIsRunnable ModesAgree
