CONSTANTS
    VIRTIO_QUEUE_SIZE = 4
    QueueMaxima = {0, 1, 3, 5}
    CommandSlots = 2
    MaxCommands = 12
    MaxDrawings = 3
    MaxTimeouts = 3
    InputCount = 2
    EventQueue = 2
    CharQueueSize = 2
    Wrap = 4
    MaxEvents = 3
    EventKinds <- MCEventKinds
    Columns = 2
    Lines = 3
    RunSize = 4
    MaxLen = 9
    Letters = {"a"}
    Outputs <- MCOutputs
    VIRTIO_INPUT_MAX_DEVICES = 2
    DeviceIds = {"input", "net"}
    MaxNodes = 3
SPECIFICATION DevicesSpec
INVARIANTS DevicesTypeOK OldPictureStays KeysAsTyped NoEventStranded ScreenShowsLine FoundAsListed
PROPERTIES StaysInStep ShowsAllDrawn RingIsFifo KeysGetRead
CHECK_DEADLOCK FALSE
