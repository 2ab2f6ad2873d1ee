------------------------------ MODULE DataWire ------------------------------
(***************************************************************************)
(* The messages of the data service: how a client encodes a request, how  *)
(* the service decodes it, how it encodes the response and how the client *)
(* decodes that.  (src/src/dataservice: dataservice_encode_request_x,     *)
(* dataservice_decode_request_x, dataservice_encode_response_x,           *)
(* dataservice_decode_response_x, and the dataservice_api functions that  *)
(* clients call.)                                                         *)
(*                                                                         *)
(* A message is a sequence of fields: a method code, an index, a UUID, a  *)
(* height or a certificate is one element each, so a size in bytes is a   *)
(* number of fields here.  A request is <<method, child index, ...>>, a   *)
(* response <<method, child index, status, ...>>.                         *)
(***************************************************************************)
LOCAL INSTANCE Naturals
LOCAL INSTANCE Sequences

-----------------------------------------------------------------------------
(* Requests, as a client writes them. *)

EncodeRequestRootContextInit(max_database_size, datadir) ==
    <<"LL_ROOT_CONTEXT_CREATE", max_database_size>> \o datadir

EncodeRequestRootContextReduceCaps(caps) == <<"LL_ROOT_CONTEXT_REDUCE_CAPS", caps>>

EncodeRequestChildContextCreate(caps) == <<"LL_CHILD_CONTEXT_CREATE", caps>>

EncodeRequestChildContextClose(child) == <<"LL_CHILD_CONTEXT_CLOSE", child>>

EncodeRequestGlobalSettingsGet(child, key) == <<"APP_GLOBAL_SETTING_READ", child, key>>

EncodeRequestGlobalSettingsSet(child, key, val) ==
    <<"APP_GLOBAL_SETTING_WRITE", child, key>> \o val

EncodeRequestTransactionSubmit(child, txn_id, artifact_id, val) ==
    <<"APP_PQ_TRANSACTION_SUBMIT", child, txn_id, artifact_id>> \o val

EncodeRequestTransactionGetFirst(child) == <<"APP_PQ_TRANSACTION_FIRST_READ", child>>

EncodeRequestTransactionGet(child, txn_id) == <<"APP_PQ_TRANSACTION_READ", child, txn_id>>

EncodeRequestTransactionDrop(child, txn_id) == <<"APP_PQ_TRANSACTION_DROP", child, txn_id>>

EncodeRequestTransactionPromote(child, txn_id) ==
    <<"APP_PQ_TRANSACTION_PROMOTE", child, txn_id>>

EncodeRequestArtifactGet(child, artifact_id) == <<"APP_ARTIFACT_READ", child, artifact_id>>

EncodeRequestBlockMake(child, block_id, block_cert) ==
    <<"APP_BLOCK_WRITE", child, block_id>> \o block_cert

EncodeRequestBlockGet(child, block_id, read_cert) ==
    <<"APP_BLOCK_READ", child, block_id, read_cert>>

EncodeRequestBlockIdByHeightGet(child, height) ==
    <<"APP_BLOCK_ID_BY_HEIGHT_READ", child, height>>

EncodeRequestLatestBlockIdGet(child) == <<"APP_BLOCK_ID_LATEST_READ", child>>

EncodeRequestCanonizedTransactionGet(child, txn_id, read_cert) ==
    <<"APP_TRANSACTION_READ", child, txn_id, read_cert>>
-----------------------------------------------------------------------------
(* Requests, as the service reads them.  "p" is the message without its    *)
(* method code.  A request of the wrong size is cleared again, so that the *)
(* response to it names child context 0.                                   *)

Rejected == [retval |-> "REQUEST_PACKET_INVALID_SIZE", child_index |-> 0]

\* dataservice_request_init: there is a child index to read.
RequestInit(p) == p # <<>>

\* dataservice_request_init_empty: a request of the root context names no child.
RequestInitEmpty == [retval |-> "SUCCESS", child_index |-> 0]

DecodeRequestRootContextInit(p) ==
    IF Len(p) > 1
    THEN [retval |-> "SUCCESS", child_index |-> 0, max_database_size |-> p[1],
          datadir |-> SubSeq(p, 2, Len(p))]
    ELSE Rejected

DecodeRequestRootContextReduceCaps(p) ==
    IF Len(p) = 1
    THEN [retval |-> RequestInitEmpty.retval, child_index |-> 0, caps |-> p[1]]
    ELSE Rejected

DecodeRequestChildContextCreate(p) ==
    IF Len(p) = 1
    THEN [retval |-> RequestInitEmpty.retval, child_index |-> 0, caps |-> p[1]]
    ELSE Rejected

DecodeRequestChildContextClose(p) ==
    IF RequestInit(p) THEN [retval |-> "SUCCESS", child_index |-> p[1]] ELSE Rejected

DecodeRequestGlobalSettingGet(p) ==
    IF RequestInit(p) /\ Len(p) = 2
    THEN [retval |-> "SUCCESS", child_index |-> p[1], key |-> p[2]] ELSE Rejected

DecodeRequestGlobalSettingSet(p) ==
    IF RequestInit(p) /\ Len(p) > 2
    THEN [retval |-> "SUCCESS", child_index |-> p[1], key |-> p[2],
          val |-> SubSeq(p, 3, Len(p))]
    ELSE Rejected

\* Faulty variant: the two identifiers are read in the other order.
DecodeSubmitSwapped(p) ==
    IF RequestInit(p) /\ Len(p) > 3
    THEN [retval |-> "SUCCESS", child_index |-> p[1], txn_id |-> p[3],
          artifact_id |-> p[2], cert |-> SubSeq(p, 4, Len(p))]
    ELSE Rejected

DecodeRequestTransactionSubmit(p) ==
    IF RequestInit(p) /\ Len(p) > 3
    THEN [retval |-> "SUCCESS", child_index |-> p[1], txn_id |-> p[2],
          artifact_id |-> p[3], cert |-> SubSeq(p, 4, Len(p))]
    ELSE Rejected

DecodeRequestTransactionGetFirst(p) ==
    IF RequestInit(p) THEN [retval |-> "SUCCESS", child_index |-> p[1]] ELSE Rejected

DecodeRequestTransactionGet(p) ==
    IF RequestInit(p) /\ Len(p) = 2
    THEN [retval |-> "SUCCESS", child_index |-> p[1], txn_id |-> p[2]] ELSE Rejected

DecodeRequestTransactionDrop(p) ==
    IF RequestInit(p) /\ Len(p) = 2
    THEN [retval |-> "SUCCESS", child_index |-> p[1], txn_id |-> p[2]] ELSE Rejected

DecodeRequestTransactionPromote(p) ==
    IF RequestInit(p) /\ Len(p) = 2
    THEN [retval |-> "SUCCESS", child_index |-> p[1], txn_id |-> p[2]] ELSE Rejected

DecodeRequestPayloadArtifactRead(p) ==
    IF RequestInit(p) /\ Len(p) = 2
    THEN [retval |-> "SUCCESS", child_index |-> p[1], artifact_id |-> p[2]] ELSE Rejected

\* A block without a certificate passes here; block_make refuses it.
DecodeRequestBlockMake(p) ==
    IF RequestInit(p) /\ Len(p) >= 2
    THEN [retval |-> "SUCCESS", child_index |-> p[1], block_id |-> p[2],
          cert |-> SubSeq(p, 3, Len(p))]
    ELSE Rejected

DecodeRequestBlockRead(p) ==
    IF RequestInit(p) /\ Len(p) = 3
    THEN [retval |-> "SUCCESS", child_index |-> p[1], block_id |-> p[2],
          read_cert |-> p[3]]
    ELSE Rejected

DecodeRequestBlockIdByHeightRead(p) ==
    IF RequestInit(p) /\ Len(p) = 2
    THEN [retval |-> "SUCCESS", child_index |-> p[1], block_height |-> p[2]] ELSE Rejected

DecodeRequestBlockIdLatestRead(p) ==
    IF RequestInit(p) THEN [retval |-> "SUCCESS", child_index |-> p[1]] ELSE Rejected

DecodeRequestCanonizedTransactionGet(p) ==
    IF RequestInit(p) /\ Len(p) = 3
    THEN [retval |-> "SUCCESS", child_index |-> p[1], txn_id |-> p[2],
          read_cert |-> p[3]]
    ELSE Rejected
-----------------------------------------------------------------------------
(* Response payloads, as the service writes them; certificates are         *)
(* sequences of fields, empty for a record without one.                    *)

EncodeResponseChildContextCreate(child_offset) == <<child_offset>>

EncodeResponseTransactionGetFirst(node) ==
    <<node.key, node.prev, node.next, node.artifact_id, node.txn_state>> \o node.cert

EncodeResponseTransactionGet(node) ==
    <<node.key, node.prev, node.next, node.artifact_id, node.txn_state>> \o node.cert

EncodeResponsePayloadArtifactRead(rec) ==
    <<rec.key, rec.txn_first, rec.txn_latest, rec.height_first, rec.height_latest,
      rec.state_latest>>

EncodeResponseBlockRead(node, write_cert) ==
    <<node.key, node.prev, node.next, node.first_transaction_id, node.block_height>>
        \o (IF write_cert THEN node.cert ELSE <<>>)

EncodeResponseBlockIdByHeightRead(block_id) == <<block_id>>

EncodeResponseBlockIdLatestRead(block_id) == <<block_id>>

EncodeResponseCanonizedTransactionGet(node, write_cert) ==
    <<node.key, node.prev, node.next, node.artifact_id, node.block_id, node.txn_state>>
        \o (IF write_cert THEN node.cert ELSE <<>>)

\* dataservice_decode_and_dispatch_write_status.
StatusMessage(method, offset, status, data) == <<method, offset, status>> \o data
-----------------------------------------------------------------------------
(* Responses, as a client decodes them.                                    *)

Malformed(error) == [retval |-> error, offset |-> 0, status |-> "SUCCESS", data |-> <<>>]

Header(m, data) == [retval |-> "SUCCESS", offset |-> m[2], status |-> m[3], data |-> data]

\* A response that carries nothing but its status.
StatusOnly(m, method) ==
    IF Len(m) # 3 THEN Malformed("RESPONSE_PACKET_INVALID_SIZE")
    ELSE IF m[1] # method THEN Malformed("UNEXPECTED_METHOD_CODE")
    ELSE Header(m, <<>>)

\* A response with a payload, which is read only if the status is success.
WithPayload(m, method, fits, data) ==
    IF Len(m) < 3 THEN Malformed("RESPONSE_PACKET_INVALID_SIZE")
    ELSE IF m[1] # method THEN Malformed("UNEXPECTED_METHOD_CODE")
    ELSE IF m[3] # "SUCCESS" THEN Header(m, <<>>)
    ELSE IF ~fits THEN Malformed("RESPONSE_PACKET_INVALID_SIZE")
    ELSE Header(m, data)

DecodeResponseRootContextInit(m) == StatusOnly(m, "LL_ROOT_CONTEXT_CREATE")

DecodeResponseRootContextReduceCaps(m) == StatusOnly(m, "LL_ROOT_CONTEXT_REDUCE_CAPS")

DecodeResponseChildContextCreate(m) ==
    WithPayload(m, "LL_CHILD_CONTEXT_CREATE", Len(m) >= 4, <<m[4]>>)

DecodeResponseChildContextClose(m) == StatusOnly(m, "LL_CHILD_CONTEXT_CLOSE")

\* The rest of the message is the value, whatever the status.
DecodeResponseGlobalSettingsGet(m) ==
    IF Len(m) < 3 THEN Malformed("RESPONSE_PACKET_INVALID_SIZE")
    ELSE IF m[1] # "APP_GLOBAL_SETTING_READ" THEN Malformed("UNEXPECTED_METHOD_CODE")
    ELSE Header(m, SubSeq(m, 4, Len(m)))

DecodeResponseGlobalSettingsSet(m) == StatusOnly(m, "APP_GLOBAL_SETTING_WRITE")

DecodeResponseTransactionSubmit(m) == StatusOnly(m, "APP_PQ_TRANSACTION_SUBMIT")

QueueNode(m) ==
    [key |-> m[4], prev |-> m[5], next |-> m[6], artifact_id |-> m[7],
     txn_state |-> m[8], cert |-> SubSeq(m, 9, Len(m))]

DecodeResponseTransactionGetFirst(m) ==
    WithPayload(m, "APP_PQ_TRANSACTION_FIRST_READ", Len(m) >= 8, QueueNode(m))

DecodeResponseTransactionGet(m) ==
    WithPayload(m, "APP_PQ_TRANSACTION_READ", Len(m) >= 8, QueueNode(m))

DecodeResponseTransactionDrop(m) == StatusOnly(m, "APP_PQ_TRANSACTION_DROP")

DecodeResponseTransactionPromote(m) == StatusOnly(m, "APP_PQ_TRANSACTION_PROMOTE")

\* The only response whose size must be exact.
DecodeResponseArtifactGet(m) ==
    WithPayload(m, "APP_ARTIFACT_READ", Len(m) = 9,
        [key |-> m[4], txn_first |-> m[5], txn_latest |-> m[6], height_first |-> m[7],
         height_latest |-> m[8], state_latest |-> m[9]])

DecodeResponseBlockMake(m) == StatusOnly(m, "APP_BLOCK_WRITE")

DecodeResponseBlockGet(m) ==
    WithPayload(m, "APP_BLOCK_READ", Len(m) >= 8,
        [key |-> m[4], prev |-> m[5], next |-> m[6], first_transaction_id |-> m[7],
         block_height |-> m[8], cert |-> SubSeq(m, 9, Len(m))])

DecodeResponseBlockIdByHeightGet(m) ==
    WithPayload(m, "APP_BLOCK_ID_BY_HEIGHT_READ", Len(m) >= 4, <<m[4]>>)

DecodeResponseLatestBlockIdGet(m) ==
    WithPayload(m, "APP_BLOCK_ID_LATEST_READ", Len(m) >= 4, <<m[4]>>)

DecodeResponseCanonizedTransactionGet(m) ==
    WithPayload(m, "APP_TRANSACTION_READ", Len(m) >= 9,
        [key |-> m[4], prev |-> m[5], next |-> m[6], artifact_id |-> m[7],
         block_id |-> m[8], txn_state |-> m[9], cert |-> SubSeq(m, 10, Len(m))])
=============================================================================
