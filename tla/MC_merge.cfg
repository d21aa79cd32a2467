CONSTANTS
    Fields = {f1}
    PageCount = 3
    Items = {x, y, z}
    MaxSize = 2
SPECIFICATION Spec
INVARIANTS
    TypeOK
    LongestTextWins
    ListsUnite
    SourcesBroughtNews
PROPERTIES
    FieldsOnlyGrow
SYMMETRY
    Symmetry
