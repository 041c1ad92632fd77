SPECIFICATION ServicesSpec
CONSTANTS
    m1 = m1
    m2 = m2
    p1 = p1
    p2 = p2
    c1 = c1
    c2 = c2
    k1 = k1
    k2 = k2
    R001 = R001
    R901 = R901
    Mails = {m1, m2}
    Passwords = {p1, p2}
    NoUser = NoUser
    Sizes <- MCSizes
    Sentences <- MCSentences
    LlmDrafts <- MCLlmDrafts
    NoDraft = NoDraft
    Hash <- MCHash
    SeedIds = {R901}
    PilotSeeds = {R901}
    Editors = {c1, c2}
    MaxEpoch = 1
    Owners = {m1}
    Slots = {"text", "multimodal"}
    WorkingKeys = {k1}
    BadKeys = {k2}
    Handlers = {c1, c2}
    MaxProviders = 2
    Scores = {1, 2}
    RowIds = {1, 2, 3}
    WriterPools <- MCPools
    MaxSeconds = 2
    MaxReports = 1
    Limit = 2
    Window = 2
    RequestPools = {{c1}}
    MaxClock = 3
    risky = risky
    empty = empty
    Nobody = Nobody
    Companies = {m1, m2}
    Fixtures = {risky}
    Questions <- MCQuestions
    Askers = {c1, c2}
    MaxUploads = 1
    MaxIndexings = 2
    MaxPieces = 1
INVARIANT StreamIsServed
CHECK_DEADLOCK FALSE
