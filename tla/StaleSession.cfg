SPECIFICATION Spec
CONSTANTS
    Top = 2
    Lengths = {1, 2}
    MaxRead = 1
    MaxFails = 0
    TagNames <- MCTagNames
    Registrations <- MCRegistrations
    BaseOrder <- MCBaseOrder
    InputBases <- MCInputBases
    Types <- MCTypes
    Values = {0, 2}
    SendsPartly = FALSE
    MaxSeq = 1
    MaxTrouble = 0
    Hosts = {"plc1"}
    S7Tags = {"MB0", "MB1"}
    Gateway <- MCGateway
    Undecodable = {}
    S7Values = {"a"}
    NoValue = "none"
    Topics = {"t1"}
    OpcUaTags = {"byUri", "byIndex", "other"}
    ByUri = {"byUri"}
    AdsTags = {"x"}
    PlcTags = {"sensor", "motor", "lamp"}
    Programs = {"sort", "blink", "bad"}
    NoProgram = "no program"
    ProgramInputs <- MCProgramInputs
    ProgramOutputs <- MCProgramOutputs
    Faulty = {"bad"}
    Nominal = 2
    MaxFrame = 1
    Endpoints = {"e1"}
    NoEndpoint = ""
    MaxPages = 1
    MaxSessions = 2
INVARIANTS
    OfThisSession
