CONSTANTS
    Size = 255
    Boots = {1, 2, 3, 4, 5, 6}
    Messages = {"m1", "m2", "long"}
    TooLong = {"long"}
    SelfSend = FALSE
SPECIFICATION FairSpec
INVARIANTS EveryProcPlaced EntriesBounded MailGenuine
PROPERTIES ReceiverRunsNext EveryoneRuns
