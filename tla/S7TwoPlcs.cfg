SPECIFICATION Spec
CONSTANTS
    Hosts = {"plc1", "plc2"}
    S7Tags = {"MB0", "MB9"}
    Gateway <- MCGateway
    Undecodable = {}
    S7Values = {"a"}
    NoValue = "none"
INVARIANTS
    FoundInOwnPlc
