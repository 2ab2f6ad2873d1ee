SPECIFICATION Spec
CONSTANTS
    t1 = t1
    t2 = t2
    t3 = t3
    a1 = a1
    a2 = a2
    b1 = b1
    b2 = b2
    s1 = s1
    ZeroUuid = ZeroUuid
    FFUuid = FFUuid
    RootBlock = RootBlock
    BadCert = BadCert
    TxnId <- MCTxnId
    ArtifactId <- MCArtifactId
    BlockId <- MCBlockId
    ArtifactState <- MCArtifactState
    Requests <- MCRequests
    BlockReqs <- MCBlockReqs
    Attestation = TRUE
    CommitMayFail = TRUE
    MaxSubmits = 4
    MaxBlockTxns = 2
INVARIANTS
    QueueIsFifo
    ChainMatchesHeights
    IndexesMatchChain
PROPERTIES
    ImplementsLedger
