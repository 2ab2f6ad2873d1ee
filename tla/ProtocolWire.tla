---------------------------- MODULE ProtocolWire ----------------------------
(***************************************************************************)
(* The messages of the client protocol and how the protocol service        *)
(* translates them: what the client functions write and read, how a        *)
(* connection turns a request into one to the data service, and how its    *)
(* write endpoint turns the answer of the data service into a response.    *)
(* (src/src/protocolservice: protocolservice_api_sendreq_x, _recvresp_x,   *)
(* protocolservice_protocol_dnd_x, protocolservice_pwe_dnd_x)              *)
(*                                                                         *)
(* As in DataWire a message is a sequence of fields.  A request is         *)
(* <<request id, offset, ...>>, a response <<request id, status, offset,   *)
(* ...>>.  The encryption of a packet is in Sessions; the codecs of the    *)
(* vcblockchain library are modelled by how they are used.                 *)
(***************************************************************************)
EXTENDS DataWire, DataReads
LOCAL INSTANCE Naturals
LOCAL INSTANCE Sequences
-----------------------------------------------------------------------------
(* Requests, as the client functions write them: the offset is always 0.   *)

SendreqLatestBlockIdGet == <<"LATEST_BLOCK_ID_GET", 0>>
SendreqStatusGet == <<"STATUS_GET", 0>>
SendreqClose == <<"CLOSE", 0>>
SendreqBlockGet(block_id) == <<"BLOCK_BY_ID_GET", 0, block_id>>
SendreqBlockNextIdGet(block_id) == <<"BLOCK_ID_GET_NEXT", 0, block_id>>
SendreqBlockPrevIdGet(block_id) == <<"BLOCK_ID_GET_PREV", 0, block_id>>
SendreqBlockIdByHeightGet(height) == <<"BLOCK_ID_BY_HEIGHT_GET", 0, height>>
SendreqTransactionGet(txn_id) == <<"TRANSACTION_BY_ID_GET", 0, txn_id>>
SendreqTransactionNextIdGet(txn_id) == <<"TRANSACTION_ID_GET_NEXT", 0, txn_id>>
SendreqTransactionPrevIdGet(txn_id) == <<"TRANSACTION_ID_GET_PREV", 0, txn_id>>
SendreqTransactionBlockIdGet(txn_id) == <<"TRANSACTION_ID_GET_BLOCK_ID", 0, txn_id>>
SendreqArtifactFirstTxnIdGet(artifact_id) ==
    <<"ARTIFACT_FIRST_TXN_BY_ID_GET", 0, artifact_id>>
SendreqArtifactLastTxnIdGet(artifact_id) ==
    <<"ARTIFACT_LAST_TXN_BY_ID_GET", 0, artifact_id>>
SendreqTransactionSubmit(txn_id, artifact_id, cert) ==
    <<"TRANSACTION_SUBMIT", 0, txn_id, artifact_id>> \o cert
-----------------------------------------------------------------------------
(* Responses, as the client functions read them.                           *)

Unread(error) == [retval |-> error, status |-> "SUCCESS", offset |-> 0, data |-> <<>>]

\* The payload is read only if the status is success.
ReadResponse(m, id, fits, data) ==
    IF Len(m) < 3 THEN Unread("UNEXPECTED_DATA_SIZE")
    ELSE IF m[1] # id THEN Unread("UNEXPECTED_DATA_TYPE")
    ELSE IF m[2] = "SUCCESS" /\ ~fits THEN Unread("UNEXPECTED_DATA_SIZE")
    ELSE [retval |-> "SUCCESS", status |-> m[2], offset |-> m[3],
          data |-> IF m[2] = "SUCCESS" THEN data ELSE <<>>]

RecvrespLatestBlockIdGet(m) ==
    ReadResponse(m, "LATEST_BLOCK_ID_GET", Len(m) = 4, <<m[4]>>)
RecvrespBlockIdByHeightGet(m) ==
    ReadResponse(m, "BLOCK_ID_BY_HEIGHT_GET", Len(m) = 4, <<m[4]>>)
RecvrespBlockNextIdGet(m) == ReadResponse(m, "BLOCK_ID_GET_NEXT", Len(m) >= 4, <<m[4]>>)
RecvrespBlockPrevIdGet(m) == ReadResponse(m, "BLOCK_ID_GET_PREV", Len(m) >= 4, <<m[4]>>)
RecvrespTransactionNextIdGet(m) ==
    ReadResponse(m, "TRANSACTION_ID_GET_NEXT", Len(m) >= 4, <<m[4]>>)
RecvrespTransactionPrevIdGet(m) ==
    ReadResponse(m, "TRANSACTION_ID_GET_PREV", Len(m) >= 4, <<m[4]>>)
RecvrespTransactionBlockIdGet(m) ==
    ReadResponse(m, "TRANSACTION_ID_GET_BLOCK_ID", Len(m) >= 4, <<m[4]>>)
RecvrespArtifactFirstTxnIdGet(m) ==
    ReadResponse(m, "ARTIFACT_FIRST_TXN_BY_ID_GET", Len(m) >= 4, <<m[4]>>)
RecvrespArtifactLastTxnIdGet(m) ==
    ReadResponse(m, "ARTIFACT_LAST_TXN_BY_ID_GET", Len(m) >= 4, <<m[4]>>)

RecvrespBlockGet(m) ==
    ReadResponse(m, "BLOCK_BY_ID_GET", Len(m) >= 9,
        [key |-> m[4], prev |-> m[5], next |-> m[6], first_transaction_id |-> m[7],
         block_height |-> m[8], cert |-> SubSeq(m, 10, Len(m))])

RecvrespTransactionGet(m) ==
    ReadResponse(m, "TRANSACTION_BY_ID_GET", Len(m) >= 10,
        [key |-> m[4], prev |-> m[5], next |-> m[6], artifact_id |-> m[7],
         block_id |-> m[8], txn_state |-> m[10], cert |-> SubSeq(m, 11, Len(m))])

RecvrespTransactionSubmit(m) ==
    IF Len(m) # 3 THEN Unread("UNEXPECTED_DATA_SIZE")
    ELSE ReadResponse(m, "TRANSACTION_SUBMIT", TRUE, <<>>)

RecvrespStatusGet(m) == ReadResponse(m, "STATUS_GET", TRUE, <<>>)

\* The status and the offset are not looked at.
RecvrespClose(m) ==
    IF Len(m) < 3 THEN Unread("UNEXPECTED_DATA_SIZE")
    ELSE IF m[1] # "CLOSE" THEN Unread("UNEXPECTED_DATA_TYPE") ELSE Unread("SUCCESS")
-----------------------------------------------------------------------------
(* A request, as the connection translates it: the message to the data     *)
(* service, whose child index is filled in by the data service endpoint.   *)

Undecoded(error) == [retval |-> error, msg |-> <<>>]
Decoded(msg) == [retval |-> "SUCCESS", msg |-> msg]

\* vcblockchain_protocol_decode_req_x: n fields follow the header.
DecodeReq(m, n, msg) == IF Len(m) = 2 + n THEN Decoded(msg) ELSE Undecoded("DECODE")

\* The payload is not looked at.
DndLatestBlockIdGet(m) == Decoded(EncodeRequestLatestBlockIdGet(0))
DndBlockByIdGet(m) == DecodeReq(m, 1, EncodeRequestBlockGet(0, m[3], TRUE))
DndBlockIdNextGet(m) == DecodeReq(m, 1, EncodeRequestBlockGet(0, m[3], FALSE))
DndBlockIdPrevGet(m) == DecodeReq(m, 1, EncodeRequestBlockGet(0, m[3], FALSE))
DndBlockIdByHeightGet(m) == DecodeReq(m, 1, EncodeRequestBlockIdByHeightGet(0, m[3]))
DndTransactionByIdGet(m) ==
    DecodeReq(m, 1, EncodeRequestCanonizedTransactionGet(0, m[3], TRUE))
DndTransactionIdNextGet(m) ==
    DecodeReq(m, 1, EncodeRequestCanonizedTransactionGet(0, m[3], FALSE))
DndTransactionIdPrevGet(m) ==
    DecodeReq(m, 1, EncodeRequestCanonizedTransactionGet(0, m[3], FALSE))
DndTransactionBlockIdGet(m) ==
    DecodeReq(m, 1, EncodeRequestCanonizedTransactionGet(0, m[3], FALSE))
DndArtifactFirstTransactionIdGet(m) == DecodeReq(m, 1, EncodeRequestArtifactGet(0, m[3]))
DndArtifactLastTransactionIdGet(m) == DecodeReq(m, 1, EncodeRequestArtifactGet(0, m[3]))

\* A certificate may have one field here; one of more is too large.
DndTransactionSubmit(m) ==
    IF Len(m) < 4 THEN Undecoded("DECODE")
    ELSE IF Len(m) > 5 THEN Undecoded("TRANSACTION_VERIFICATION")
    ELSE Decoded(EncodeRequestTransactionSubmit(0, m[3], m[4], SubSeq(m, 5, Len(m))))
-----------------------------------------------------------------------------
(* An answer of the data service, as the write endpoint translates it.     *)
(* "req" holds the original_request_id and the offset of the request.      *)

\* vcblockchain_protocol_encode_error_resp.
ErrorResponse(request_id, status, offset) == <<request_id, status, offset>>

Untranslated(error) == [retval |-> error, msg |-> <<>>]
Translated(msg) == [retval |-> "SUCCESS", msg |-> msg]

\* The next or previous id, unless the sentinel is there.
IdUnless(sentinel, id, req) ==
    IF id = sentinel
    THEN ErrorResponse(req.original_request_id, "NOT_FOUND", req.offset)
    ELSE <<req.original_request_id, "SUCCESS", req.offset, id>>

EncodeProtocolBlockIdGetNext(req, node) == IdUnless(FFUuid, node.next, req)
EncodeProtocolBlockIdGetPrev(req, node) == IdUnless(ZeroUuid, node.prev, req)

EncodeProtocolBlockGet(req, node) ==
    <<"BLOCK_BY_ID_GET", "SUCCESS", req.offset, node.key, node.prev, node.next,
      node.first_transaction_id, node.block_height, Len(node.cert)>> \o node.cert

\* A response with a record in it, or else the error of the data service.
TranslateRecord(dresp, req, payload) ==
    IF dresp.retval # "SUCCESS" THEN Untranslated(dresp.retval)
    ELSE IF dresp.status # "SUCCESS"
    THEN Translated(ErrorResponse(req.original_request_id, dresp.status, req.offset))
    ELSE Translated(payload)

PweDataserviceBlockGet(m, req) ==
    LET dresp == DecodeResponseBlockGet(m)
        node == dresp.data
    IN  TranslateRecord(dresp, req,
            CASE req.original_request_id = "BLOCK_ID_GET_NEXT" ->
                    EncodeProtocolBlockIdGetNext(req, node)
              [] req.original_request_id = "BLOCK_ID_GET_PREV" ->
                    EncodeProtocolBlockIdGetPrev(req, node)
              [] OTHER -> EncodeProtocolBlockGet(req, node))

EncodeProtocolTransactionIdGetNext(req, node) == IdUnless(FFUuid, node.next, req)
EncodeProtocolTransactionIdGetPrev(req, node) == IdUnless(ZeroUuid, node.prev, req)

EncodeProtocolTransactionBlockIdGet(req, node) ==
    <<"TRANSACTION_ID_GET_BLOCK_ID", "SUCCESS", req.offset, node.block_id>>

EncodeProtocolTransactionGet(req, node) ==
    <<"TRANSACTION_BY_ID_GET", "SUCCESS", req.offset, node.key, node.prev, node.next,
      node.artifact_id, node.block_id, Len(node.cert), node.txn_state>> \o node.cert

PweDataserviceTransactionGet(m, req) ==
    LET dresp == DecodeResponseCanonizedTransactionGet(m)
        node == dresp.data
    IN  TranslateRecord(dresp, req,
            CASE req.original_request_id = "TRANSACTION_ID_GET_NEXT" ->
                    EncodeProtocolTransactionIdGetNext(req, node)
              [] req.original_request_id = "TRANSACTION_ID_GET_PREV" ->
                    EncodeProtocolTransactionIdGetPrev(req, node)
              [] req.original_request_id = "TRANSACTION_ID_GET_BLOCK_ID" ->
                    EncodeProtocolTransactionBlockIdGet(req, node)
              [] OTHER -> EncodeProtocolTransactionGet(req, node))

EncodeProtocolArtifactFirstTxnGet(req, rec) ==
    <<"ARTIFACT_FIRST_TXN_BY_ID_GET", "SUCCESS", req.offset, rec.txn_first>>

EncodeProtocolArtifactLastTxnGet(req, rec) ==
    <<"ARTIFACT_LAST_TXN_BY_ID_GET", "SUCCESS", req.offset, rec.txn_latest>>

PweDataserviceArtifactGet(m, req) ==
    LET dresp == DecodeResponseArtifactGet(m)
        rec == dresp.data
    IN  TranslateRecord(dresp, req,
            IF req.original_request_id = "ARTIFACT_LAST_TXN_BY_ID_GET"
            THEN EncodeProtocolArtifactLastTxnGet(req, rec)
            ELSE EncodeProtocolArtifactFirstTxnGet(req, rec))

\* These three send a whole response even for an error; the id is zero then.
TranslateId(dresp, id, req) ==
    IF dresp.retval # "SUCCESS" THEN Untranslated(dresp.retval)
    ELSE Translated(<<id, dresp.status, req.offset,
                      IF dresp.status = "SUCCESS" THEN dresp.data[1] ELSE ZeroUuid>>)

PweDataserviceBlockIdLatestGet(m, req) ==
    TranslateId(DecodeResponseLatestBlockIdGet(m), "LATEST_BLOCK_ID_GET", req)

PweDataserviceBlockIdByHeightGet(m, req) ==
    TranslateId(DecodeResponseBlockIdByHeightGet(m), "BLOCK_ID_BY_HEIGHT_GET", req)

PweDataserviceTransactionSubmit(m, req) ==
    LET dresp == DecodeResponseTransactionSubmit(m) IN
    IF dresp.retval # "SUCCESS" THEN Untranslated(dresp.retval)
    ELSE Translated(<<"TRANSACTION_SUBMIT", dresp.status, req.offset>>)

\* protocolservice_pwe_dnd_dataservice_message: by the method of the answer.
PweDataserviceMessage(m, req) ==
    CASE m[1] = "APP_BLOCK_ID_LATEST_READ" -> PweDataserviceBlockIdLatestGet(m, req)
      [] m[1] = "APP_BLOCK_READ" -> PweDataserviceBlockGet(m, req)
      [] m[1] = "APP_TRANSACTION_READ" -> PweDataserviceTransactionGet(m, req)
      [] m[1] = "APP_ARTIFACT_READ" -> PweDataserviceArtifactGet(m, req)
      [] m[1] = "APP_PQ_TRANSACTION_SUBMIT" -> PweDataserviceTransactionSubmit(m, req)
      [] m[1] = "APP_BLOCK_ID_BY_HEIGHT_READ" -> PweDataserviceBlockIdByHeightGet(m, req)
      [] OTHER -> Untranslated("DATASERVICE_INVALID_RESPONSE_ID")
=============================================================================
