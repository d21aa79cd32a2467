CONSTANTS
    Docs = {d1, d2}
    Runs = {x1, x2, x3}
    Clients = {c1}
SPECIFICATION Spec
SYMMETRY Symmetry
INVARIANTS
    TypeOK
    CompletedIsReadable
    ListedIsFound
PROPERTIES
    ListsGrow
