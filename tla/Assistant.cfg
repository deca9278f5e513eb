SPECIFICATION FairAssistantSpec
CONSTANTS
    h1 = h1 h2 = h2 e1 = e1 r1 = r1 r2 = r2 q1 = q1 q2 = q2 a1 = a1 a2 = a2
    Chats = {h1, h2}
    Explains = {e1}
    Reloads = {r1, r2}
    Boot = boot
    Questions = {q1, q2}
    Similar <- MCSimilar
    AlertIds = {a1, a2}
    ConvIds = {c1, c2}
    NoConv = NoConv
    MaxConvs = 1
    MaxTurns = 3
    MaxIter = 2
    ExactMax = 1
    SemanticMax = 2
    Targets = {"base", "finetuned", "other"}
    About <- MCAbout
    MaxUpkeep = 1
    Arrivals <- MCArrivals
INVARIANTS
    AssistantTypeOK
    LoadsTakeTurns
    AnswersStayWithQuestions
    CachedAnswersFit
PROPERTIES
    GoneStaysGone
    RequestsEnd
CHECK_DEADLOCK FALSE
