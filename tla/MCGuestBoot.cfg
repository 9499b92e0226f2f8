SPECIFICATION Spec
CONSTANTS
    NoPath = ""
    Absolute <- MCPaths
    Existing <- MCPaths
    WithComma <- MCComma
    Calls <- MCCalls
    Arguments <- MCArguments
    Wanted = "wanted"
    Emptied <- MCEmptied
    Clients = {c1, c2}
    Owners = {c1}
    Astray = {c2}
    NoClient = NoClient
    Commands <- MCCommands
    MaxTries = 1
    MaxAttempts <- MCAttempts
INVARIANTS
    GuestTypeOK
    AcceptedNeverPanics
    LayoutMatchesInit
    ConfidentialRootVerified
    AttestedMeansExpected
    PassphraseGone
    SecretsFromOneRequest
    InjectedMeansStored
PROPERTIES
    BootEnds
    
CHECK_DEADLOCK FALSE
