\* A user is removed and another is added.
SPECIFICATION Spec
CONSTANTS
    o1 = o1
    o2 = o2
    ada = ada
    bob = bob
    Nothing = Nothing
    Operators = {o1}
    Names = {ada, bob}
    Commands = {"add", "rm"}
    MaxTokens = 2
INVARIANTS
    RowsOfOnePerson
