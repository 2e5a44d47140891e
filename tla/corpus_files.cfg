SPECIFICATION Spec
CONSTANTS
    p = p
    q = q
    r = r
    none = none
    Title = {p, q, r}
    NoAbstract = none
    Breaking = {r}
    Answers <- FewAnswers
    Queries = 2
    MAX_RETRIES = 2
    BuildModel = "e5"
    QueryModel = "e5"
INVARIANTS
    TypeOK
    CorpusIsComplete
    DimensionsAgree
    UncutMeansUsable
