---------------------------- MODULE MCDataStore ----------------------------
(* A small instance of DataStore: three transactions of two artifacts, one  *)
(* of which continues another, and the blocks that can be built from them.  *)
EXTENDS DataStoreRefinement

CONSTANTS t1, t2, t3, a1, a2, b1, b2, s1, MaxBlockTxns

MCTxnId == {t1, t2, t3}
MCArtifactId == {a1, a2}
MCBlockId == {b1, b2}
MCArtifactState == {s1}

CertOf(t, prev, a) == [id |-> t, prev |-> prev, artifact |-> a, state |-> s1]

Req(c) == [id |-> c.id, artifact |-> c.artifact, cert |-> c]

First == CertOf(t1, ZeroUuid, a1)
Second == CertOf(t2, t1, a1)
Other == CertOf(t3, ZeroUuid, a2)

\* The certificate of the third request does not parse.
MCRequests ==
    {Req(First), Req(Second), Req(Other), [Req(Other) EXCEPT !.cert = BadCert]}

MCCerts == {First, Second, Other, BadCert}

Header(id, height, prev) ==
    [id |-> id, uuid |-> id, height |-> height, prev |-> prev, txns |-> <<Other>>]

\* The chain is built from b1 and b2, out of every list of certificates up to
\* the length bound, in every order and also with repetitions.
MCBlocks ==
    {[h EXCEPT !.txns = txns] :
        h \in {Header(b1, 1, RootBlock), Header(b2, 2, b1)},
        txns \in UNION {[1 .. n -> MCCerts] : n \in 0 .. MaxBlockTxns}}

\* Headers that fit no chain, or only some: a wrong height, a wrong previous
\* block, a block id used before, the id of the root block, an id that is not
\* the certificate's.
MCBlockReqs ==
    MCBlocks \cup
    {Header(b2, 2, RootBlock), Header(b2, 1, b1), Header(b1, 2, b1),
     Header(RootBlock, 1, RootBlock),
     [Header(b1, 1, RootBlock) EXCEPT !.uuid = b2]}
=============================================================================
