SPECIFICATION Spec
CONSTANTS
    None = None
    Scripts <- MCScripts
    Fallback <- MCFallback
    Greeting <- MCGreeting
    Stops = {12}
    PhraseWords = 2
    PhraseRoom = 1
    KeepTurns = 2
    MaxReplies = 2
    MaxSessions = 2
INVARIANTS ReplyTypeOK SpokenInOrder LoggedWhereAsked
CHECK_DEADLOCK FALSE
PROPERTIES MicOpens SessionEnds
