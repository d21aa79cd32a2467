CONSTANTS
    Batches = {b1, b2}
    Files = 2
    Limit = 1
    PoolSize = 1
    Others = {o1}
SPECIFICATION FairSpec
INVARIANTS
    TypeOK
    AnswersAddUp
PROPERTIES
    LimitsFit
    BatchesAnswered
