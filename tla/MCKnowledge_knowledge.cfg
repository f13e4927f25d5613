\* Turns that curate, skills by name, and what the model is given.
SPECIFICATION KnowledgeSpec

CONSTANTS
    Mems = {m1}
    Turns = {t1, t2}
    Enabled = TRUE
    Interval = 2
    StaleAfter = 1
    ArchiveAfter = 2
    MemoryTTL = 2
    MaxRecorded = 4
    SkillNames <- SkillNamesMC
    OperatorStems <- OperatorStemsMC
    Queries <- QueriesMC
    Chats = {r1}
    KeepLast = 2
    MaxMessages = 6

INVARIANTS
    KnowledgeTypeOK
    CurationsEarned
    MadeSkillsAreReached
    RecentSurvive
    InstructionsSurvive

PROPERTIES
    ConsolidationKeepsTheArchive
    ImportantStayOut
    CountedAreCurated
