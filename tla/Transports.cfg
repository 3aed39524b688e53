SPECIFICATION FairSpec
CONSTANTS
    Top = 3
    Lengths = {1, 2}
    MaxRead = 1
    MaxFails = 1
    TagNames <- MCTagNames
    Registrations <- MCRegistrations
    BaseOrder <- MCBaseOrder
    InputBases <- MCInputBases
    Types <- MCTypes
    Values = {0, 2}
    SendsPartly = FALSE
    MaxSeq = 2
    MaxTrouble = 1
    Hosts = {"plc1"}
    S7Tags = {"MB0", "MB1"}
    Gateway <- MCGateway
    Undecodable = {}
    S7Values = {"a"}
    NoValue = "none"
    Topics = {"t1", "t2"}
    OpcUaTags = {"byUri", "byIndex"}
    ByUri = {"byUri"}
    AdsTags = {"x", "y"}
    PlcTags = {"sensor", "motor", "lamp"}
    Programs = {"sort", "blink", "bad"}
    NoProgram = "no program"
    ProgramInputs <- MCProgramInputs
    ProgramOutputs <- MCProgramOutputs
    Faulty = {"bad"}
    Nominal = 2
    MaxFrame = 2
    Endpoints = {"e1", "e2"}
    NoEndpoint = ""
    MaxPages = 2
    MaxSessions = 3
INVARIANTS
    TypeOK
    CoveredSinceMove
    ReadsOwnBytes
    WritesReachPlc
    AnswersInStep
    FieldsFound
    InputsAsWritten
    LastProgramRuns
    ProgramOwnsOutputs
    TimeIsPhysics
    SessionsForgotten
    PeersHeld
    InitCountOnce
    FreshAfterPoll
PROPERTIES
    TagsFetched
    RoundsEnd
    Recovers
