SPECIFICATION Spec
CONSTANTS
    Programs <- MCPrograms
    Table <- MCTable
    Inputs <- MCInputs
    Later <- MCLater
INVARIANT OverridingIsAlone
