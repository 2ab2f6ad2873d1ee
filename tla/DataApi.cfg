SPECIFICATION Spec
CONSTANTS
    t1 = t1
    t2 = t2
    a1 = a1
    b1 = b1
    b2 = b2
    s1 = s1
    k1 = k1
    v1 = v1
    TxnId <- MCTxnId
    ArtifactId <- MCArtifactId
    BlockId <- MCBlockId
    ArtifactState <- MCArtifactState
    ZeroUuid = ZeroUuid
    FFUuid = FFUuid
    RootBlock = RootBlock
    BadCert = BadCert
    Requests <- MCRequests
    BlockReqs <- MCBlockReqs
    Attestation = TRUE
    CommitMayFail = FALSE
    MaxSubmits = 3
    MaxChildContexts = 2
    SettingKey <- MCSettingKey
    SettingsBuffer = 1
    Calls <- MCCalls
    RootCaps <- MCRootCaps
    MaxOutstanding = 1
PROPERTIES
    AnswersAreTrue
    RefusalsChangeNothing
    CallsReturn
CHECK_DEADLOCK FALSE
