SPECIFICATION Spec
CONSTANT Setups <- MCSetups
INVARIANTS
    TypeOK
    FoundWhereItIs
    HistogramsAgree
    StopsAgain
