SPECIFICATION FairSpec
CONSTANTS
    Nil = Nil
    Hosts <- MCHosts
    Configs <- MCConfigs
    Messages <- MCMessages
    Pods <- MCPods
    Segments <- MCSegments
    localIDToType <- LocalIds
    Senders <- MCSenders
    Accounts <- MCAccounts
    Guarded <- MCGuarded
    BadUrl = "%"
INVARIANTS
    StubTypeOK
    AnswerIsCurrent
    UseIsReported
    ResultIsTrue
    CallsAreConfigured
    SessionIsUsed
PROPERTIES
    RequestsEnd
