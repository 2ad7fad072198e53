SPECIFICATION Spec
CONSTANTS
    None = None
    Failed = Failed
    Lexicon <- MCLexicon
    Fragments <- MCFragments
    Canned <- MCCanned
    Fillers <- MCFillers
    FrameMs = 250
    StartFrames = 2
    SilenceFrames = 2
    PreRollFrames = 1
    MaxUtterance = 4
    PartialWindow = 3
    PartialFrames = 3
    PartialSpeechMs = 750
    FinalSpeechMs = 400
    FinalFrames = 3
    BargeIn = TRUE
    SecondPass = TRUE
    Decodes <- MCDecodes
    Replies <- MCReplies
    Answers <- MCAnswers
    Providers = {"llm", "fake"}
    FakeFallback = FALSE
    MinWords = 2
    MaxFrames = 5
INVARIANTS SpeechTypeOK QueueAccounting EvidenceIsEarned CountsAgree ReportHolds
CHECK_DEADLOCK FALSE
PROPERTIES QueueDrains StopEnds
