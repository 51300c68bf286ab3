SPECIFICATION Spec
CONSTANTS
    Requests <- MCRequests
    SizeRequests <- MCSizeRequests
    Sizes <- MCSizes
    LEN = 40
    PAGE = 16
    MARGIN = 2
    Ranges <- MCRanges
    Writes <- MCWrites
    MaxOps = 3
    CHUNK = 2
    Files <- MCFiles
    Outcomes <- MCOutcomes
    Objects = {q1, q2}
    QIDs = {0, 1, 2}
    QSizes = {1, 2}
    Entries <- MCEntries
    Index <- MCIndex
    MaxInserts = 2
    CQSizes = {1, 3}
    MaxPosts = 7
    Values <- MCValues
    MaxSets = 4
    Cqes <- MCCqes
    SQEs = {c1, c2}
    Bufs = {b1, b2, l1}
    Lists = {l1}
    Chains <- MCChains
    Spaces <- MCSpaces
    Devices <- MCDevices
    Formats <- MCFormats
    Opcodes = {0, 1, 255}
    MaxCaps = 4
    MaxWrites = 3
    Lines <- MCLines
    PERIOD = 2
    FILES = {1, 2}
    SAMPLE = 2
    MaxLines = 6
    MaxClicks = 3
INVARIANTS
    ArrivesAsAsked
    FoundWhereWritten
    ImageArrives
    
    QueuesDeliver
    DmaStaysAllocated
CHECK_DEADLOCK FALSE
