----------------------------- MODULE DataClient -----------------------------
(***************************************************************************)
(* The functions that clients of the data service call: one sendreq and    *)
(* one recvresp function per operation, each in up to three variants.  The *)
(* plain one uses the buffered sockets of fibers (psock), "Old" the        *)
(* non-blocking ones of the event loop, which can ask the caller to come   *)
(* back, and "Block" a blocking descriptor.  (src/src/dataservice:         *)
(* dataservice_api_sendreq_x, dataservice_api_recvresp_x)                  *)
(*                                                                         *)
(* "io" is what the socket answers: OK, WOULD_BLOCK or ERROR.              *)
(***************************************************************************)
EXTENDS DataWire
LOCAL INSTANCE Naturals
LOCAL INSTANCE Sequences

Sent(retval, msgs) == [retval |-> retval, msgs |-> msgs]

\* A fiber waits until its socket can be written.
PsockSend(io, m) ==
    IF io = "OK" THEN Sent("SUCCESS", <<m>>) ELSE Sent("IPC_WRITE_DATA_FAILURE", <<>>)

NoblockSend(io, m) ==
    IF io = "WOULD_BLOCK" THEN Sent("WOULD_BLOCK", <<>>) ELSE PsockSend(io, m)

BlockSend(io, m) == PsockSend(io, m)

PsockRecv(io, response) ==
    IF io = "OK" THEN response ELSE Malformed("IPC_READ_DATA_FAILURE")

NoblockRecv(io, response) ==
    IF io = "WOULD_BLOCK" THEN Malformed("WOULD_BLOCK") ELSE PsockRecv(io, response)

BlockRecv(io, response) == PsockRecv(io, response)
-----------------------------------------------------------------------------
SendreqRootContextInit(io, max_database_size, datadir) ==
    PsockSend(io, EncodeRequestRootContextInit(max_database_size, datadir))

SendreqRootContextInitOld(io, max_database_size, datadir) ==
    NoblockSend(io, EncodeRequestRootContextInit(max_database_size, datadir))

SendreqRootContextInitBlock(io, max_database_size, datadir) ==
    BlockSend(io, EncodeRequestRootContextInit(max_database_size, datadir))

SendreqRootContextReduceCaps(io, caps) ==
    PsockSend(io, EncodeRequestRootContextReduceCaps(caps))

SendreqRootContextReduceCapsOld(io, caps) ==
    NoblockSend(io, EncodeRequestRootContextReduceCaps(caps))

SendreqRootContextReduceCapsBlock(io, caps) ==
    BlockSend(io, EncodeRequestRootContextReduceCaps(caps))

SendreqChildContextCreate(io, caps) ==
    PsockSend(io, EncodeRequestChildContextCreate(caps))

SendreqChildContextCreateOld(io, caps) ==
    NoblockSend(io, EncodeRequestChildContextCreate(caps))

SendreqChildContextCreateBlock(io, caps) ==
    BlockSend(io, EncodeRequestChildContextCreate(caps))

SendreqChildContextClose(io, child) ==
    PsockSend(io, EncodeRequestChildContextClose(child))

SendreqChildContextCloseOld(io, child) ==
    NoblockSend(io, EncodeRequestChildContextClose(child))

SendreqChildContextCloseBlock(io, child) ==
    BlockSend(io, EncodeRequestChildContextClose(child))

SendreqGlobalSettingsGet(io, child, key) ==
    PsockSend(io, EncodeRequestGlobalSettingsGet(child, key))

SendreqGlobalSettingsGetOld(io, child, key) ==
    NoblockSend(io, EncodeRequestGlobalSettingsGet(child, key))

SendreqGlobalSettingsGetBlock(io, child, key) ==
    BlockSend(io, EncodeRequestGlobalSettingsGet(child, key))

SendreqGlobalSettingsSet(io, child, key, val) ==
    PsockSend(io, EncodeRequestGlobalSettingsSet(child, key, val))

SendreqGlobalSettingsSetOld(io, child, key, val) ==
    NoblockSend(io, EncodeRequestGlobalSettingsSet(child, key, val))

SendreqGlobalSettingsSetBlock(io, child, key, val) ==
    BlockSend(io, EncodeRequestGlobalSettingsSet(child, key, val))

SendreqTransactionSubmit(io, child, txn_id, artifact_id, val) ==
    PsockSend(io, EncodeRequestTransactionSubmit(child, txn_id, artifact_id, val))

SendreqTransactionSubmitOld(io, child, txn_id, artifact_id, val) ==
    NoblockSend(io, EncodeRequestTransactionSubmit(child, txn_id, artifact_id, val))

SendreqTransactionGetFirst(io, child) ==
    PsockSend(io, EncodeRequestTransactionGetFirst(child))

SendreqTransactionGetFirstOld(io, child) ==
    NoblockSend(io, EncodeRequestTransactionGetFirst(child))

SendreqTransactionGet(io, child, txn_id) ==
    PsockSend(io, EncodeRequestTransactionGet(child, txn_id))

SendreqTransactionGetOld(io, child, txn_id) ==
    NoblockSend(io, EncodeRequestTransactionGet(child, txn_id))

SendreqTransactionDrop(io, child, txn_id) ==
    PsockSend(io, EncodeRequestTransactionDrop(child, txn_id))

SendreqTransactionDropOld(io, child, txn_id) ==
    NoblockSend(io, EncodeRequestTransactionDrop(child, txn_id))

SendreqTransactionPromote(io, child, txn_id) ==
    PsockSend(io, EncodeRequestTransactionPromote(child, txn_id))

SendreqTransactionPromoteOld(io, child, txn_id) ==
    NoblockSend(io, EncodeRequestTransactionPromote(child, txn_id))

SendreqArtifactGet(io, child, artifact_id) ==
    PsockSend(io, EncodeRequestArtifactGet(child, artifact_id))

SendreqArtifactGetOld(io, child, artifact_id) ==
    NoblockSend(io, EncodeRequestArtifactGet(child, artifact_id))

SendreqBlockMake(io, child, block_id, block_cert) ==
    PsockSend(io, EncodeRequestBlockMake(child, block_id, block_cert))

SendreqBlockMakeOld(io, child, block_id, block_cert) ==
    NoblockSend(io, EncodeRequestBlockMake(child, block_id, block_cert))

SendreqBlockGet(io, child, block_id, read_cert) ==
    PsockSend(io, EncodeRequestBlockGet(child, block_id, read_cert))

SendreqBlockGetOld(io, child, block_id, read_cert) ==
    NoblockSend(io, EncodeRequestBlockGet(child, block_id, read_cert))

SendreqBlockIdByHeightGet(io, child, height) ==
    PsockSend(io, EncodeRequestBlockIdByHeightGet(child, height))

SendreqBlockIdByHeightGetOld(io, child, height) ==
    NoblockSend(io, EncodeRequestBlockIdByHeightGet(child, height))

SendreqLatestBlockIdGet(io, child) ==
    PsockSend(io, EncodeRequestLatestBlockIdGet(child))

SendreqLatestBlockIdGetOld(io, child) ==
    NoblockSend(io, EncodeRequestLatestBlockIdGet(child))

SendreqCanonizedTransactionGet(io, child, txn_id, read_cert) ==
    PsockSend(io, EncodeRequestCanonizedTransactionGet(child, txn_id, read_cert))

SendreqCanonizedTransactionGetOld(io, child, txn_id, read_cert) ==
    NoblockSend(io, EncodeRequestCanonizedTransactionGet(child, txn_id, read_cert))

-----------------------------------------------------------------------------
RecvrespRootContextInit(io, m) == PsockRecv(io, DecodeResponseRootContextInit(m))

RecvrespRootContextInitOld(io, m) == NoblockRecv(io, DecodeResponseRootContextInit(m))

RecvrespRootContextInitBlock(io, m) == BlockRecv(io, DecodeResponseRootContextInit(m))

RecvrespRootContextReduceCaps(io, m) ==
    PsockRecv(io, DecodeResponseRootContextReduceCaps(m))

RecvrespRootContextReduceCapsOld(io, m) ==
    NoblockRecv(io, DecodeResponseRootContextReduceCaps(m))

RecvrespRootContextReduceCapsBlock(io, m) ==
    BlockRecv(io, DecodeResponseRootContextReduceCaps(m))

RecvrespChildContextCreate(io, m) == PsockRecv(io, DecodeResponseChildContextCreate(m))

RecvrespChildContextCreateOld(io, m) ==
    NoblockRecv(io, DecodeResponseChildContextCreate(m))

RecvrespChildContextCreateBlock(io, m) ==
    BlockRecv(io, DecodeResponseChildContextCreate(m))

RecvrespChildContextClose(io, m) == PsockRecv(io, DecodeResponseChildContextClose(m))

RecvrespChildContextCloseOld(io, m) ==
    NoblockRecv(io, DecodeResponseChildContextClose(m))

RecvrespChildContextCloseBlock(io, m) ==
    BlockRecv(io, DecodeResponseChildContextClose(m))

\* The value is copied to a buffer of the caller, which must hold it.
Copied(r, data_size) ==
    IF Len(r.data) > data_size THEN Malformed("MALFORMED_PAYLOAD_DATA") ELSE r

RecvrespGlobalSettingsGet(io, m, data_size) ==
    Copied(PsockRecv(io, DecodeResponseGlobalSettingsGet(m)), data_size)

RecvrespGlobalSettingsGetOld(io, m, data_size) ==
    Copied(NoblockRecv(io, DecodeResponseGlobalSettingsGet(m)), data_size)

RecvrespGlobalSettingsGetBlock(io, m, data_size) ==
    Copied(BlockRecv(io, DecodeResponseGlobalSettingsGet(m)), data_size)

RecvrespGlobalSettingsSet(io, m) == PsockRecv(io, DecodeResponseGlobalSettingsSet(m))

RecvrespGlobalSettingsSetOld(io, m) ==
    NoblockRecv(io, DecodeResponseGlobalSettingsSet(m))

RecvrespGlobalSettingsSetBlock(io, m) ==
    BlockRecv(io, DecodeResponseGlobalSettingsSet(m))

RecvrespTransactionSubmit(io, m) == PsockRecv(io, DecodeResponseTransactionSubmit(m))

RecvrespTransactionSubmitOld(io, m) ==
    NoblockRecv(io, DecodeResponseTransactionSubmit(m))

RecvrespTransactionGetFirst(io, m) ==
    PsockRecv(io, DecodeResponseTransactionGetFirst(m))

RecvrespTransactionGetFirstOld(io, m) ==
    NoblockRecv(io, DecodeResponseTransactionGetFirst(m))

RecvrespTransactionGet(io, m) == PsockRecv(io, DecodeResponseTransactionGet(m))

RecvrespTransactionGetOld(io, m) == NoblockRecv(io, DecodeResponseTransactionGet(m))

RecvrespTransactionDrop(io, m) == PsockRecv(io, DecodeResponseTransactionDrop(m))

RecvrespTransactionDropOld(io, m) == NoblockRecv(io, DecodeResponseTransactionDrop(m))

RecvrespTransactionPromote(io, m) == PsockRecv(io, DecodeResponseTransactionPromote(m))

RecvrespTransactionPromoteOld(io, m) ==
    NoblockRecv(io, DecodeResponseTransactionPromote(m))

RecvrespArtifactGet(io, m) == PsockRecv(io, DecodeResponseArtifactGet(m))

RecvrespArtifactGetOld(io, m) == NoblockRecv(io, DecodeResponseArtifactGet(m))

RecvrespBlockMake(io, m) == PsockRecv(io, DecodeResponseBlockMake(m))

RecvrespBlockMakeOld(io, m) == NoblockRecv(io, DecodeResponseBlockMake(m))

RecvrespBlockGet(io, m) == PsockRecv(io, DecodeResponseBlockGet(m))

RecvrespBlockGetOld(io, m) == NoblockRecv(io, DecodeResponseBlockGet(m))

RecvrespBlockIdByHeightGet(io, m) == PsockRecv(io, DecodeResponseBlockIdByHeightGet(m))

RecvrespBlockIdByHeightGetOld(io, m) ==
    NoblockRecv(io, DecodeResponseBlockIdByHeightGet(m))

RecvrespLatestBlockIdGet(io, m) == PsockRecv(io, DecodeResponseLatestBlockIdGet(m))

RecvrespLatestBlockIdGetOld(io, m) == NoblockRecv(io, DecodeResponseLatestBlockIdGet(m))

RecvrespCanonizedTransactionGet(io, m) ==
    PsockRecv(io, DecodeResponseCanonizedTransactionGet(m))

RecvrespCanonizedTransactionGetOld(io, m) ==
    NoblockRecv(io, DecodeResponseCanonizedTransactionGet(m))
=============================================================================
