CONSTANTS
    Extractions = {e1, e2}
    DocTypes = {t1, t2}
    Strategies = {"full", "smart"}
    Models = {m1, m2}
    Priced = {m1}
    MaxTime = 1
SPECIFICATION Spec
INVARIANT
    UnknownModelFails
SYMMETRY
    Symmetry
