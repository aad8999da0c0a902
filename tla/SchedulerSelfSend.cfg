CONSTANTS
    Size = 255
    Boots = {5}
    Messages = {"m1"}
    TooLong = {}
    SelfSend = TRUE
SPECIFICATION Spec
PROPERTY OnlyReceiverTakenOut
