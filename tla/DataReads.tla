----------------------------- MODULE DataReads -----------------------------
(***************************************************************************)
(* The read operations of the data service on a database d, which is a     *)
(* record of tables as in DataStore.  Each answers a status and a record.  *)
(* (src/src/dataservice: dataservice_artifact_get, _block_get,             *)
(* _block_id_by_height_get, _latest_block_id_get, _transaction_get,        *)
(* _canonized_transaction_get, _transaction_get_first)                     *)
(***************************************************************************)
CONSTANTS ZeroUuid, FFUuid, RootBlock

Sentinels == {ZeroUuid, FFUuid}

Found(node) == [status |-> "SUCCESS", node |-> node]
Fails(status) == [status |-> status, node |-> <<>>]

ArtifactGet(d, id) ==
    IF id \notin DOMAIN d.artifact THEN Fails("NOT_FOUND")
    ELSE LET a == d.artifact[id] IN
         Found([key |-> id, txn_first |-> a.txn_first, txn_latest |-> a.txn_latest,
                height_first |-> a.height_first, height_latest |-> a.height_latest,
                state_latest |-> a.state_latest])

BlockIdByHeightGet(d, height) ==
    IF height \in DOMAIN d.height THEN Found(d.height[height]) ELSE Fails("NOT_FOUND")

LatestBlockIdGet(d) ==
    Found(IF FFUuid \in DOMAIN d.block THEN d.block[FFUuid].prev ELSE RootBlock)

StoredBlock(d, id, cert) ==
    LET b == d.block[id] IN
    Found([key |-> id, prev |-> b.prev, next |-> b.next, first_transaction_id |-> b.first,
           block_height |-> b.height, cert |-> cert])

\* The root block is answered by the begin sentinel.  A node without a
\* certificate, which only a sentinel is, is refused when it is asked for by its
\* own key.
BlockGet(d, id) ==
    IF id \in DOMAIN d.block \ Sentinels THEN StoredBlock(d, id, <<d.block[id].txns>>)
    ELSE IF id \in DOMAIN d.block THEN Fails("INVALID_STORED_BLOCK_NODE")
    ELSE IF id = RootBlock /\ ZeroUuid \in DOMAIN d.block
         THEN StoredBlock(d, ZeroUuid, <<>>)
    ELSE Fails("NOT_FOUND")

TransactionGet(d, id) ==
    IF id \notin DOMAIN d.pq THEN Fails("NOT_FOUND")
    ELSE IF id \notin DOMAIN d.pq \ Sentinels THEN Fails("INVALID_STORED_TRANSACTION_NODE")
    ELSE LET n == d.pq[id] IN
         Found([key |-> id, prev |-> n.prev, next |-> n.next, artifact_id |-> n.artifact,
                txn_state |-> n.state, cert |-> <<n.cert>>])

CanonizedTransactionGet(d, id) ==
    IF id \notin DOMAIN d.txn THEN Fails("NOT_FOUND")
    ELSE LET t == d.txn[id] IN
         Found([key |-> id, prev |-> t.prev, next |-> t.next, artifact_id |-> t.artifact,
                block_id |-> t.block, txn_state |-> t.state, cert |-> <<t.cert>>])

\* The first read transaction of transaction_get_first: what the begin sentinel
\* names.
FirstId(d) == IF ZeroUuid \in DOMAIN d.pq THEN d.pq[ZeroUuid].next ELSE FFUuid
=============================================================================
