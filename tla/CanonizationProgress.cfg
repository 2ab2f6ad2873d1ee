SPECIFICATION Spec
CONSTANTS
    t1 = t1
    t2 = t2
    t3 = t3
    a1 = a1
    b1 = b1
    b2 = b2
    b3 = b3
    b4 = b4
    b5 = b5
    s1 = s1
    ZeroUuid = ZeroUuid
    FFUuid = FFUuid
    RootBlock = RootBlock
    BadCert = BadCert
    TxnId <- MCTxnId
    ArtifactId <- MCArtifactId
    BlockId <- MCBlockId
    ArtifactState <- MCArtifactState
    Requests <- WellFormed
    BlockReqs <- MCBlockReqs
    Attestation = FALSE
    CommitMayFail = FALSE
    OrderlyClients = TRUE
    MaxTransactions = 2
    MaxSubmits = 3
    MaxFaults = 1
PROPERTIES
    FirstComeFirstCanonized
    AnnouncementsAdvance
    EventuallyCanonized
    EventuallyAnnounced
