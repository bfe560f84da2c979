SPECIFICATION FairSpec
CONSTANTS
    Questions = 2
    Trust <- MCTrust
    MaxQueue = 2
    MaxEnters = 3
    Cooldown = 2
    StallSeconds = 1
PROPERTIES
    AnswersRead
    QuestionAnswered
    HangActedOnAgain
CHECK_DEADLOCK FALSE
