----------------------------- MODULE MCSessions -----------------------------
(* Two connections on a chain of two blocks and three transactions of two     *)
(* artifacts.                                                                  *)
EXTENDS Sessions, TLC

CONSTANTS c1, c2, e1, e2, t1, t2, t3, t4, a1, a2, b1, b2, s1, verb1

MCClient == {c1, c2}

Cert(id, prev, artifact) == [id |-> id, prev |-> prev, artifact |-> artifact, state |-> s1]
X1 == Cert(t1, ZeroUuid, a1)
X2 == Cert(t2, t1, a1)
X3 == Cert(t3, ZeroUuid, a2)

MCChain == <<[id |-> b1, txns |-> <<X1, X3>>], [id |-> b2, txns |-> <<X2>>]>>

\* The tables as block_make leaves them.
MCDb ==
    LET block(prev, next, first, height, txns) ==
            [prev |-> prev, next |-> next, first |-> first, height |-> height, txns |-> txns]
        txn(x, next, b) == [prev |-> x.prev, next |-> next, artifact |-> x.artifact,
                            block |-> b, state |-> "CANONIZED", cert |-> x]
    IN  [block |->
            [b \in {ZeroUuid, b1, b2, FFUuid} |->
                CASE b = ZeroUuid -> block(ZeroUuid, b1, ZeroUuid, 0, <<>>)
                  [] b = b1 -> block(RootBlock, b2, t1, 1, <<X1, X3>>)
                  [] b = b2 -> block(b1, FFUuid, t2, 2, <<X2>>)
                  [] b = FFUuid -> block(b2, FFUuid, ZeroUuid, 2, <<>>)],
         height |-> <<b1, b2>>,
         txn |-> [t \in {t1, t2, t3} |->
                    CASE t = t1 -> txn(X1, t2, b1)
                      [] t = t2 -> txn(X2, FFUuid, b2)
                      [] t = t3 -> txn(X3, FFUuid, b1)],
         artifact |-> [a \in {a1, a2} |->
                        [txn_first |-> IF a = a1 THEN t1 ELSE t3,
                         txn_latest |-> IF a = a1 THEN t2 ELSE t3,
                         height_first |-> 1, height_latest |-> IF a = a1 THEN 2 ELSE 1,
                         state_latest |-> s1]]]

Everything ==
    {"BLOCK_ID_LATEST_READ", "TRANSACTION_SUBMIT", "BLOCK_READ", "BLOCK_ID_BY_HEIGHT_READ",
     "TRANSACTION_READ", "ARTIFACT_READ", "EXTENDED_API_ENABLE", "EXTENDED_API_SENDRECV",
     "EXTENDED_API_RESP"}

\* The second entity may read blocks, and offer the extended API without answers.
MCCapability ==
    (e1 :> Everything @@ e2 :> {"BLOCK_READ", "EXTENDED_API_ENABLE", "EXTENDED_API_SENDRECV"})
MCExtCapability == {<<e1, verb1, e1>>, <<e1, verb1, e2>>, <<e2, verb1, e1>>}

Reads ==
    {SendreqLatestBlockIdGet, SendreqStatusGet, SendreqTransactionSubmit(t4, a2, <<X3>>),
     SendreqTransactionSubmit(t4, a2, <<X3, X3>>)}
    \cup {SendreqBlockGet(b) : b \in {RootBlock, b1, t1}}
    \cup {SendreqBlockNextIdGet(b) : b \in {RootBlock, b1, b2}}
    \cup {SendreqBlockPrevIdGet(b) : b \in {RootBlock, b1}}
    \cup {SendreqBlockIdByHeightGet(h) : h \in 2 .. 3}
    \cup {SendreqTransactionGet(t) : t \in {t1, t4}}
    \cup {SendreqTransactionNextIdGet(t) : t \in {t1, t3}}
    \cup {SendreqTransactionPrevIdGet(t) : t \in {t1, t2}}
    \cup {SendreqTransactionBlockIdGet(t) : t \in {t3, t4}}
    \cup {SendreqArtifactFirstTxnIdGet(a1), SendreqArtifactFirstTxnIdGet(t1),
          SendreqArtifactLastTxnIdGet(a1)}

Odd == {<<"STATUS_GET">>, <<"UNKNOWN", 0>>, <<"STATUS_GET", 0, 0>>, <<"BLOCK_BY_ID_GET", 0>>,
        <<"TRANSACTION_SUBMIT", 0, t4>>, <<"EXTENDED_API_ENABLE", 0, 0>>}

Few == {SendreqBlockGet(b1), SendreqLatestBlockIdGet, SendreqClose}

Extended(c, e) ==
    {<<"EXTENDED_API_ENABLE", 0>>, <<"EXTENDED_API_SENDRECV", 99, e, verb1, c>>}

\* Every request of one client while another asks for what its entity may not read.
AllRequests ==
    [entity |-> (c1 :> e1 @@ c2 :> e2), table |-> {1, 2}, faults |-> {},
     menu |-> (c1 :> Reads \cup Odd @@ c2 :> {SendreqLatestBlockIdGet}),
     limit |-> (c1 :> 1 @@ c2 :> 1)]

\* A client leaves at any point.
Leaves ==
    [entity |-> (c1 :> e1 @@ c2 :> e2), table |-> {1, 2}, faults |-> {c1},
     menu |-> (c1 :> Few @@ c2 :> {SendreqBlockGet(b1)}), limit |-> (c1 :> 2 @@ c2 :> 1)]

\* There is one context only, and the data service may exit.
Crowded ==
    [entity |-> (c1 :> e1 @@ c2 :> e1), table |-> {1}, faults |-> {"dataservice"},
     menu |-> (c1 :> Few @@ c2 :> Few), limit |-> (c1 :> 1 @@ c2 :> 1)]

\* Two connections of one entity, of which one can offer the extended API.
Alike ==
    [entity |-> (c1 :> e1 @@ c2 :> e1), table |-> {1, 2}, faults |-> {c1},
     menu |-> (c1 :> Extended(c1, e1) @@ c2 :> Extended(c2, e1)),
     limit |-> (c1 :> 1 @@ c2 :> 2)]

\* Two entities that use the extended API of each other.
Different ==
    [entity |-> (c1 :> e1 @@ c2 :> e2), table |-> {1, 2}, faults |-> {},
     menu |-> (c1 :> Extended(c1, e2) @@ c2 :> Extended(c2, e1)),
     limit |-> (c1 :> 2 @@ c2 :> 2)]

MCSetups ==
    [all |-> AllRequests, leaves |-> Leaves, crowded |-> Crowded, alike |-> Alike,
     different |-> Different]
=============================================================================
