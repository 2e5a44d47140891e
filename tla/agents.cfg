SPECIFICATION Spec
CONSTANTS
    target_chars = 5
    min_chars = 2
    block_chars = 3
    overlap = 1
    parse_retries = 1
    InflectionEndings = {1, 2}
    MinSharedPrefix = 2
    MaxInflectionSuffix = 1
    MaxSegments = 4
    MaxPages = 2
    MaxLength = 6
    MaxCandidates = 4
    RuModel = ru_core_news_lg
    EnModel = en_core_web_sm
    DEFAULT_N = 1
    TOP_TERMS = 1
    MaxTexts = 3
    MaxEntries = 3
    MaxYear = 2
    MAX_UPLOAD_BYTES = 3
    UPLOAD_CHUNK_BYTES = 2
    MaxUploads = 2
    Requests <- AllRequests
INVARIANTS
    ChunksFit
    BlocksCover
    AnyAnswerCounts
    MarksAsMeant
    TermsAccountForAll
    TermsAreDistinct
    TextsKeepTheirPlaces
    BestInRange
    AllDocumentsOrNoTask
CHECK_DEADLOCK FALSE
