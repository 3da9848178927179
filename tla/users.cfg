\* Two operators run commands, one after the other or at once.
SPECIFICATION Spec
CONSTANTS
    o1 = o1
    o2 = o2
    ada = ada
    bob = bob
    Nothing = Nothing
    Operators = {o1, o2}
    Names = {ada, bob}
    Commands = {"add", "rm", "rotate"}
    MaxTokens = 3
SYMMETRY Symmetry
INVARIANTS
    FileLoads
    TokensAsReported
    RowsStayApart
PROPERTIES
    IdsStay
