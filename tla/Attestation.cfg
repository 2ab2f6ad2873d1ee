SPECIFICATION FairSpec
CONSTANTS
    t1 = t1
    t2 = t2
    t3 = t3
    a1 = a1
    a2 = a2
    b1 = b1
    b2 = b2
    b3 = b3
    b4 = b4
    s1 = s1
    ZeroUuid = ZeroUuid
    FFUuid = FFUuid
    RootBlock = RootBlock
    BadCert = BadCert
    TxnId <- MCTxnId
    ArtifactId <- MCArtifactId
    BlockId <- MCBlockId
    ArtifactState <- MCArtifactState
    Requests <- MCRequests
    BlockReqs = {}
    CommitMayFail = FALSE
    MaxSubmits = 4
    MaxTransactions = 2
    VerifiedSets <- MCVerifiedSets
    MaxFaults = 2
INVARIANTS
    WalkIsLive
PROPERTIES
    EveryTransactionDecided
