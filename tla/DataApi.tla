------------------------------ MODULE DataApi ------------------------------
(***************************************************************************)
(* A data service process and a client of it, over their socket: the       *)
(* client calls the functions of DataClient, the service decodes each      *)
(* request, looks up the child context, performs the operation on          *)
(* DataStore or DataContexts and writes a response, and the client decodes *)
(* it.  Other data service processes write the same database meanwhile.    *)
(*                                                                         *)
(* The service answers one request at a time and in order.  block_make and *)
(* transaction_get_first take several steps, between which other processes *)
(* read or write.                                                          *)
(***************************************************************************)
EXTENDS DataClient, DataReads, Naturals, Sequences, FiniteSets

CONSTANTS
    TxnId, ArtifactId, BlockId, ArtifactState, BadCert, Requests, BlockReqs,
    Attestation, CommitMayFail, MaxSubmits,                        \* as in DataStore
    MaxChildContexts,                                             \* as in DataContexts
    SettingKey,         \* keys of the global settings
    SettingsBuffer,     \* size of the buffer that a setting is read into
    Calls,              \* the calls that clients make
    RootCaps,           \* what the supervisor leaves of the root capabilities
    MaxOutstanding      \* calls a client has outstanding; all wait for the response

VARIABLES
    db, work, making, arrivals, reply,                \* as in DataStore
    apicaps, children, child_head, running, ctxreply, \* as in DataContexts
    settings,   \* global_db
    current,    \* the request being answered over several steps
    request,    \* requests on the socket
    response,   \* responses on the socket
    phase,      \* what the process on the other side is about to do
    calls,      \* calls that await their response, oldest first
    held        \* child contexts that the client was given and did not close

AppCap ==
    {"APP_GLOBAL_SETTING_READ", "APP_GLOBAL_SETTING_WRITE", "APP_PQ_TRANSACTION_SUBMIT",
     "APP_PQ_TRANSACTION_FIRST_READ", "APP_PQ_TRANSACTION_READ",
     "APP_PQ_TRANSACTION_DROP", "APP_PQ_TRANSACTION_PROMOTE", "APP_ARTIFACT_READ",
     "APP_BLOCK_WRITE", "APP_BLOCK_READ", "APP_BLOCK_ID_BY_HEIGHT_READ",
     "APP_BLOCK_ID_LATEST_READ", "APP_TRANSACTION_READ"}

DS == INSTANCE DataStore

DC == INSTANCE DataContexts WITH
        reply <- ctxreply,
        RootCreate <- "LL_ROOT_CONTEXT_CREATE",
        ReduceCaps <- "LL_ROOT_CONTEXT_REDUCE_CAPS",
        ChildCreate <- "LL_CHILD_CONTEXT_CREATE",
        ChildClose <- "LL_CHILD_CONTEXT_CLOSE"

storeVars == <<db, work, making, arrivals, reply>>
ctxVars == <<apicaps, children, child_head, running, ctxreply>>
clientVars == <<phase, calls, held>>
vars == <<storeVars, ctxVars, settings, current, request, response, clientVars>>

Idle == [op |-> "idle", child |-> 0, id |-> ZeroUuid]

Init ==
    /\ DS!Init
    /\ DC!Init
    /\ settings = [k \in {} |-> <<>>]
    /\ current = Idle
    /\ request = <<>> /\ response = <<>>
    /\ phase = "init"
    /\ calls = <<>>
    /\ held = {}
-----------------------------------------------------------------------------
GlobalSettingsGet(key) ==
    IF key \notin DOMAIN settings THEN Fails("NOT_FOUND")
    ELSE IF Len(settings[key]) > SettingsBuffer THEN Fails("WOULD_TRUNCATE")
    ELSE Found(settings[key])
-----------------------------------------------------------------------------
(* The service. *)

Free == running /\ current = Idle /\ ~making.open

MethodOf(m) == IF m = <<>> THEN "NONE" ELSE Head(m)

\* dataservice_decode_and_dispatch: the next request has this method.
Received(method) ==
    /\ Free
    /\ request # <<>>
    /\ MethodOf(Head(request)) = method

Payload == Tail(Head(request))

WriteStatus(method, offset, status, data) ==
    response' = Append(response, StatusMessage(method, offset, status, data))

Consume == request' = Tail(request)

\* The request was decoded and dataservice_child_context_lookup finds its child.
Lookup(dreq) ==
    IF dreq.retval # "SUCCESS" THEN dreq.retval
    ELSE IF dreq.child_index \notin DC!Slot THEN "BAD_INDEX"
    ELSE IF ~DC!Lookup(dreq.child_index) THEN "INVALID"
    ELSE "SUCCESS"

\* Every operation begins with a test of the child's capability.
Permit(dreq, cap) ==
    IF Lookup(dreq) # "SUCCESS" THEN Lookup(dreq)
    ELSE IF cap \notin children[dreq.child_index].caps THEN "NOT_AUTHORIZED"
    ELSE "SUCCESS"

\* A read operation: nothing changes but the sockets.  The payload is encoded only
\* if the read succeeds.
AnswerRead(method, dreq, result, payload) ==
    LET status == IF Permit(dreq, method) = "SUCCESS" THEN result.status
                  ELSE Permit(dreq, method)
    IN  /\ WriteStatus(method, dreq.child_index, status,
                       IF status = "SUCCESS" THEN payload ELSE <<>>)
        /\ Consume
        /\ UNCHANGED <<storeVars, ctxVars, settings, current, clientVars>>

DispatchArtifactRead ==
    LET dreq == DecodeRequestPayloadArtifactRead(Payload)
        got == ArtifactGet(db, dreq.artifact_id)
    IN  /\ Received("APP_ARTIFACT_READ")
        /\ AnswerRead("APP_ARTIFACT_READ", dreq, got,
                      EncodeResponsePayloadArtifactRead(got.node))

DispatchBlockRead ==
    LET dreq == DecodeRequestBlockRead(Payload)
        got == BlockGet(db, dreq.block_id)
    IN  /\ Received("APP_BLOCK_READ")
        /\ AnswerRead("APP_BLOCK_READ", dreq, got,
                      EncodeResponseBlockRead(got.node, dreq.read_cert))

DispatchBlockIdByHeightRead ==
    LET dreq == DecodeRequestBlockIdByHeightRead(Payload)
        got == BlockIdByHeightGet(db, dreq.block_height)
    IN  /\ Received("APP_BLOCK_ID_BY_HEIGHT_READ")
        /\ AnswerRead("APP_BLOCK_ID_BY_HEIGHT_READ", dreq, got,
                      EncodeResponseBlockIdByHeightRead(got.node))

DispatchBlockIdLatestRead ==
    LET dreq == DecodeRequestBlockIdLatestRead(Payload)
        got == LatestBlockIdGet(db)
    IN  /\ Received("APP_BLOCK_ID_LATEST_READ")
        /\ AnswerRead("APP_BLOCK_ID_LATEST_READ", dreq, got,
                      EncodeResponseBlockIdLatestRead(got.node))

DispatchTransactionGet ==
    LET dreq == DecodeRequestTransactionGet(Payload)
        got == TransactionGet(db, dreq.txn_id)
    IN  /\ Received("APP_PQ_TRANSACTION_READ")
        /\ AnswerRead("APP_PQ_TRANSACTION_READ", dreq, got,
                      EncodeResponseTransactionGet(got.node))

DispatchCanonizedTransactionGet ==
    LET dreq == DecodeRequestCanonizedTransactionGet(Payload)
        got == CanonizedTransactionGet(db, dreq.txn_id)
    IN  /\ Received("APP_TRANSACTION_READ")
        /\ AnswerRead("APP_TRANSACTION_READ", dreq, got,
                      EncodeResponseCanonizedTransactionGet(got.node, dreq.read_cert))

DispatchGlobalSettingGet ==
    LET dreq == DecodeRequestGlobalSettingGet(Payload)
        got == GlobalSettingsGet(dreq.key)
    IN  /\ Received("APP_GLOBAL_SETTING_READ")
        /\ AnswerRead("APP_GLOBAL_SETTING_READ", dreq, got, got.node)

\* Faulty variant: an empty queue is not answered.
FirstReadSilent ==
    LET dreq == DecodeRequestTransactionGetFirst(Payload) IN
    /\ Received("APP_PQ_TRANSACTION_FIRST_READ")
    /\ Consume
    /\ IF Permit(dreq, "APP_PQ_TRANSACTION_FIRST_READ") = "SUCCESS"
       THEN /\ current' = IF FirstId(db) = FFUuid THEN Idle
                          ELSE [op |-> "first", child |-> dreq.child_index,
                                id |-> FirstId(db)]
            /\ UNCHANGED response
       ELSE /\ WriteStatus("APP_PQ_TRANSACTION_FIRST_READ", dreq.child_index,
                           Permit(dreq, "APP_PQ_TRANSACTION_FIRST_READ"), <<>>)
            /\ UNCHANGED current
    /\ UNCHANGED <<storeVars, ctxVars, settings, clientVars>>

\* transaction_get_first reads the id of the first transaction ...
DispatchTransactionGetFirst ==
    LET dreq == DecodeRequestTransactionGetFirst(Payload)
        permit == Permit(dreq, "APP_PQ_TRANSACTION_FIRST_READ")
        status == IF permit = "SUCCESS" /\ FirstId(db) = FFUuid THEN "NOT_FOUND" ELSE permit
    IN  /\ Received("APP_PQ_TRANSACTION_FIRST_READ")
        /\ Consume
        /\ IF status = "SUCCESS"
           THEN /\ current' = [op |-> "first", child |-> dreq.child_index,
                               id |-> FirstId(db)]
                /\ UNCHANGED response
           ELSE /\ WriteStatus("APP_PQ_TRANSACTION_FIRST_READ", dreq.child_index, status,
                               <<>>)
                /\ UNCHANGED current
        /\ UNCHANGED <<storeVars, ctxVars, settings, clientVars>>

\* ... and then, in a read transaction of its own, that transaction, which may be
\* gone by then.
FirstTransactionRead ==
    LET result == TransactionGet(db, current.id) IN
    /\ running
    /\ current.op = "first"
    /\ WriteStatus("APP_PQ_TRANSACTION_FIRST_READ", current.child, result.status,
                   IF result.status = "SUCCESS"
                   THEN EncodeResponseTransactionGetFirst(result.node) ELSE <<>>)
    /\ current' = Idle
    /\ UNCHANGED <<storeVars, ctxVars, settings, request, clientVars>>

\* A request that is refused before its operation begins.
Refuse(method, dreq) ==
    /\ WriteStatus(method, dreq.child_index, Permit(dreq, method), <<>>)
    /\ UNCHANGED storeVars

\* The queue writers.
DispatchTransactionSubmit ==
    LET dreq == DecodeRequestTransactionSubmit(Payload) IN
    /\ Received("APP_PQ_TRANSACTION_SUBMIT")
    /\ IF Permit(dreq, "APP_PQ_TRANSACTION_SUBMIT") = "SUCCESS"
       THEN /\ DS!Submit([id |-> dreq.txn_id, artifact |-> dreq.artifact_id,
                          cert |-> dreq.cert[1]])
            /\ WriteStatus("APP_PQ_TRANSACTION_SUBMIT", dreq.child_index,
                           reply'.status, <<>>)
       ELSE Refuse("APP_PQ_TRANSACTION_SUBMIT", dreq)
    /\ Consume
    /\ UNCHANGED <<ctxVars, settings, current, clientVars>>

DispatchTransactionDrop ==
    LET dreq == DecodeRequestTransactionDrop(Payload) IN
    /\ Received("APP_PQ_TRANSACTION_DROP")
    /\ IF Permit(dreq, "APP_PQ_TRANSACTION_DROP") = "SUCCESS"
       THEN /\ DS!Drop(dreq.txn_id)
            /\ WriteStatus("APP_PQ_TRANSACTION_DROP", dreq.child_index, reply'.status, <<>>)
       ELSE Refuse("APP_PQ_TRANSACTION_DROP", dreq)
    /\ Consume
    /\ UNCHANGED <<ctxVars, settings, current, clientVars>>

DispatchTransactionPromote ==
    LET dreq == DecodeRequestTransactionPromote(Payload) IN
    /\ Received("APP_PQ_TRANSACTION_PROMOTE")
    /\ IF Permit(dreq, "APP_PQ_TRANSACTION_PROMOTE") = "SUCCESS"
       THEN /\ DS!Promote(dreq.txn_id)
            /\ WriteStatus("APP_PQ_TRANSACTION_PROMOTE", dreq.child_index,
                           reply'.status, <<>>)
       ELSE Refuse("APP_PQ_TRANSACTION_PROMOTE", dreq)
    /\ Consume
    /\ UNCHANGED <<ctxVars, settings, current, clientVars>>

\* The arguments of block_make; without a certificate no check of it succeeds.
BlockOf(dreq) ==
    IF dreq.cert = <<>> THEN [DS!NoBlock EXCEPT !.id = dreq.block_id]
    ELSE [id |-> dreq.block_id, uuid |-> dreq.cert[1].uuid, height |-> dreq.cert[1].height,
          prev |-> dreq.cert[1].prev, txns |-> dreq.cert[1].txns]

DispatchBlockMake ==
    LET dreq == DecodeRequestBlockMake(Payload)
        permitted == Permit(dreq, "APP_BLOCK_WRITE") = "SUCCESS"
        accepted == permitted /\ DS!BeginStatus(db, BlockOf(dreq)) = "SUCCESS"
    IN  /\ Received("APP_BLOCK_WRITE")
        /\ IF accepted
           THEN /\ DS!BlockBegin(BlockOf(dreq))
                /\ current' = [op |-> "make", child |-> dreq.child_index,
                               id |-> dreq.block_id]
                /\ UNCHANGED response
           ELSE IF permitted
           THEN /\ DS!BlockReject(BlockOf(dreq))
                /\ WriteStatus("APP_BLOCK_WRITE", dreq.child_index, reply'.status, <<>>)
                /\ UNCHANGED current
           ELSE Refuse("APP_BLOCK_WRITE", dreq) /\ UNCHANGED current
        /\ Consume
        /\ UNCHANGED <<ctxVars, settings, clientVars>>

\* block_make processes one wrapped transaction, ...
BlockMakeStep ==
    /\ running
    /\ DS!BlockChild
    /\ UNCHANGED <<ctxVars, settings, current, request, response, clientVars>>

\* ... or it ends, by its commit or by an error, and is answered.
BlockMakeEnds ==
    /\ running
    /\ DS!BlockChildFails \/ DS!BlockFault \/ DS!BlockCommit
    /\ WriteStatus("APP_BLOCK_WRITE", current.child, reply'.status, <<>>)
    /\ current' = Idle
    /\ UNCHANGED <<ctxVars, settings, request, clientVars>>

\* Faulty variant: the setting is written before the request is refused.
SettingSetFirst ==
    LET dreq == DecodeRequestGlobalSettingSet(Payload) IN
    /\ Received("APP_GLOBAL_SETTING_WRITE")
    /\ settings' = IF Lookup(dreq) = "SUCCESS" THEN DS!Put(settings, dreq.key, dreq.val)
                   ELSE settings
    /\ WriteStatus("APP_GLOBAL_SETTING_WRITE", dreq.child_index,
                   Permit(dreq, "APP_GLOBAL_SETTING_WRITE"), <<>>)
    /\ Consume
    /\ UNCHANGED <<storeVars, ctxVars, current, clientVars>>

\* The only writer that looks at the result of its commit.
DispatchGlobalSettingSet ==
    LET dreq == DecodeRequestGlobalSettingSet(Payload)
        permit == Permit(dreq, "APP_GLOBAL_SETTING_WRITE")
    IN  /\ Received("APP_GLOBAL_SETTING_WRITE")
        /\ \E committed \in {TRUE} \cup {~CommitMayFail} :
              LET status == IF permit = "SUCCESS" /\ ~committed
                            THEN "MDB_TXN_COMMIT_FAILURE" ELSE permit
              IN  /\ settings' = IF status = "SUCCESS"
                                 THEN DS!Put(settings, dreq.key, dreq.val) ELSE settings
                  /\ WriteStatus("APP_GLOBAL_SETTING_WRITE", dreq.child_index, status, <<>>)
        /\ Consume
        /\ UNCHANGED <<storeVars, ctxVars, current, clientVars>>

\* A root context request that cannot be decoded or one with no known method ends the
\* event loop, and with it the process and its half of the socket.  The client can still
\* read the responses that have left the write buffer.  No other call is outstanding
\* when a client sends such a request.
Exit(responses) ==
    /\ DC!ExitEventLoop
    /\ IF making.open THEN DS!BlockFault ELSE UNCHANGED storeVars
    /\ current' = Idle
    /\ request' = <<>>
    /\ \E n \in 0 .. Len(responses) : response' = SubSeq(responses, 1, n)
    /\ UNCHANGED <<settings, clientVars>>

DispatchRootContextCreate ==
    /\ Received("LL_ROOT_CONTEXT_CREATE")
    /\ IF DecodeRequestRootContextInit(Payload).retval # "SUCCESS" THEN Exit(response)
       ELSE /\ DC!RootContextInit
            /\ WriteStatus("LL_ROOT_CONTEXT_CREATE", 0, ctxreply'.status, <<>>)
            /\ Consume
            /\ UNCHANGED <<storeVars, settings, current, clientVars>>

DispatchRootContextReduceCaps ==
    LET dreq == DecodeRequestRootContextReduceCaps(Payload) IN
    /\ Received("LL_ROOT_CONTEXT_REDUCE_CAPS")
    /\ IF dreq.retval # "SUCCESS"
       THEN /\ WriteStatus("LL_ROOT_CONTEXT_REDUCE_CAPS", 0, dreq.retval, <<>>)
            /\ UNCHANGED ctxVars
       ELSE /\ DC!RootContextReduceCapabilities(dreq.caps)
            /\ WriteStatus("LL_ROOT_CONTEXT_REDUCE_CAPS", 0, ctxreply'.status, <<>>)
    /\ Consume
    /\ UNCHANGED <<storeVars, settings, current, clientVars>>

DispatchChildContextCreate ==
    LET dreq == DecodeRequestChildContextCreate(Payload) IN
    /\ Received("LL_CHILD_CONTEXT_CREATE")
    /\ IF dreq.retval # "SUCCESS"
       THEN /\ WriteStatus("LL_CHILD_CONTEXT_CREATE", 0, dreq.retval, <<>>)
            /\ UNCHANGED ctxVars
       ELSE /\ DC!ChildContextCreate(dreq.caps) \/ DC!ChildContextCreateFails
            /\ WriteStatus("LL_CHILD_CONTEXT_CREATE", 0, ctxreply'.status,
                   IF ctxreply'.status = "SUCCESS"
                   THEN EncodeResponseChildContextCreate(ctxreply'.index) ELSE <<>>)
    /\ Consume
    /\ UNCHANGED <<storeVars, settings, current, clientVars>>

DispatchChildContextClose ==
    LET dreq == DecodeRequestChildContextClose(Payload) IN
    /\ Received("LL_CHILD_CONTEXT_CLOSE")
    /\ IF dreq.retval # "SUCCESS"
       THEN /\ WriteStatus("LL_CHILD_CONTEXT_CLOSE", 0, dreq.retval, <<>>)
            /\ UNCHANGED ctxVars
       ELSE /\ \/ DC!ChildContextClose(dreq.child_index)
               \/ DC!ChildContextCloseFails(dreq.child_index)
            /\ WriteStatus("LL_CHILD_CONTEXT_CLOSE", dreq.child_index,
                           ctxreply'.status, <<>>)
    /\ Consume
    /\ UNCHANGED <<storeVars, settings, current, clientVars>>

Methods ==
    AppCap \cup {"LL_ROOT_CONTEXT_CREATE", "LL_ROOT_CONTEXT_REDUCE_CAPS",
                 "LL_CHILD_CONTEXT_CREATE", "LL_CHILD_CONTEXT_CLOSE"}

\* dataservice_decode_and_dispatch: no method code, or one that is not known and is
\* answered by an error.
DispatchUnknown ==
    /\ Free
    /\ request # <<>>
    /\ LET method == MethodOf(Head(request)) IN
       /\ method \notin Methods
       /\ Exit(IF method = "NONE" THEN response
               ELSE Append(response, StatusMessage(method, 0, "REQUEST_PACKET_BAD", <<>>)))

\* The socket fails, a response cannot be allocated or written, or the process is
\* told to stop.
EventLoopFails == phase # "gone" /\ Exit(response)

\* What can still be submitted, by this client and by others.
SubmitsLeft ==
    Cardinality({n \in DOMAIN calls : calls[n].api = "transaction_submit"}) + arrivals < MaxSubmits

\* What block_make does as a whole: another process sees none of its stages.
BlockStages(d, b) ==
    LET stage[n \in 0 .. Len(b.txns)] ==
            IF n = 0 THEN DS!LinkBlock(d, b)
            ELSE DS!ProcessChild(stage[n - 1], b, b.txns[n])
    IN  stage

\* The databases that one successful write of another process can leave.
OtherWrites ==
    LET Pq(q) == [db EXCEPT !.pq = q] IN
    {Pq(DS!PqDrop(db.pq, t)) : t \in {u \in TxnId : DS!DropStatus(db.pq, u) = "SUCCESS"}}
    \cup {Pq(DS!PqPromote(db.pq, t)) :
             t \in {u \in TxnId : DS!PromoteStatus(db.pq, u) = "SUCCESS"}}
    \cup {BlockStages(db, b)[Len(b.txns)] :
             b \in {c \in BlockReqs :
                      /\ DS!BeginStatus(db, c) = "SUCCESS"
                      /\ \A n \in DOMAIN c.txns :
                           DS!ChildStatus(BlockStages(db, c)[n - 1], c.txns[n]) = "SUCCESS"}}

\* The data service process of another service writes the database, between two calls
\* of this client or while one is being answered.  (A write while a request is on its
\* way is a write before it was sent.)
OtherProcess ==
    /\ running /\ ~making.open
    /\ calls = <<>> \/ current # Idle
    /\ \/ db' \in OtherWrites /\ UNCHANGED arrivals
       \/ \E r \in Requests :
             /\ SubmitsLeft
             /\ DS!SubmitStatus(db.pq, r) = "SUCCESS"
             /\ db' = [db EXCEPT !.pq = DS!PqSubmit(db.pq, r, arrivals + 1)]
             /\ arrivals' = arrivals + 1
    /\ work' = db'
    /\ UNCHANGED <<making, reply, ctxVars, settings, current, request, response, clientVars>>

Dispatch ==
    \/ DispatchArtifactRead \/ DispatchBlockRead \/ DispatchBlockIdByHeightRead
    \/ DispatchBlockIdLatestRead \/ DispatchTransactionGet
    \/ DispatchCanonizedTransactionGet \/ DispatchGlobalSettingGet
    \/ DispatchTransactionGetFirst \/ FirstTransactionRead
    \/ DispatchTransactionSubmit \/ DispatchTransactionDrop \/ DispatchTransactionPromote
    \/ DispatchBlockMake \/ BlockMakeStep \/ BlockMakeEnds
    \/ DispatchGlobalSettingSet \/ DispatchRootContextCreate
    \/ DispatchRootContextReduceCaps \/ DispatchChildContextCreate
    \/ DispatchChildContextClose \/ DispatchUnknown
-----------------------------------------------------------------------------
(* The client: first the supervisor, which sets up the root context with     *)
(* the blocking functions, then the service that it starts.  A call is a     *)
(* record of the operation and its arguments.                                *)

Io == {"OK", "WOULD_BLOCK", "ERROR"}

\* The sendreq functions that make this call, with the socket answering io.
Sendreqs(c, io) ==
    CASE c.api = "root_context_init" ->
            {SendreqRootContextInit(io, c.size, c.datadir),
             SendreqRootContextInitOld(io, c.size, c.datadir),
             SendreqRootContextInitBlock(io, c.size, c.datadir)}
      [] c.api = "root_context_reduce_caps" ->
            {SendreqRootContextReduceCaps(io, c.caps),
             SendreqRootContextReduceCapsOld(io, c.caps),
             SendreqRootContextReduceCapsBlock(io, c.caps)}
      [] c.api = "child_context_create" ->
            {SendreqChildContextCreate(io, c.caps), SendreqChildContextCreateOld(io, c.caps),
             SendreqChildContextCreateBlock(io, c.caps)}
      [] c.api = "child_context_close" ->
            {SendreqChildContextClose(io, c.child), SendreqChildContextCloseOld(io, c.child),
             SendreqChildContextCloseBlock(io, c.child)}
      [] c.api = "global_settings_get" ->
            {SendreqGlobalSettingsGet(io, c.child, c.key),
             SendreqGlobalSettingsGetOld(io, c.child, c.key),
             SendreqGlobalSettingsGetBlock(io, c.child, c.key)}
      [] c.api = "global_settings_set" ->
            {SendreqGlobalSettingsSet(io, c.child, c.key, c.val),
             SendreqGlobalSettingsSetOld(io, c.child, c.key, c.val),
             SendreqGlobalSettingsSetBlock(io, c.child, c.key, c.val)}
      [] c.api = "transaction_submit" ->
            {SendreqTransactionSubmit(io, c.child, c.id, c.artifact, <<c.cert>>),
             SendreqTransactionSubmitOld(io, c.child, c.id, c.artifact, <<c.cert>>)}
      [] c.api = "transaction_get_first" ->
            {SendreqTransactionGetFirst(io, c.child), SendreqTransactionGetFirstOld(io, c.child)}
      [] c.api = "transaction_get" ->
            {SendreqTransactionGet(io, c.child, c.id), SendreqTransactionGetOld(io, c.child, c.id)}
      [] c.api = "transaction_drop" ->
            {SendreqTransactionDrop(io, c.child, c.id),
             SendreqTransactionDropOld(io, c.child, c.id)}
      [] c.api = "transaction_promote" ->
            {SendreqTransactionPromote(io, c.child, c.id),
             SendreqTransactionPromoteOld(io, c.child, c.id)}
      [] c.api = "artifact_get" ->
            {SendreqArtifactGet(io, c.child, c.id), SendreqArtifactGetOld(io, c.child, c.id)}
      [] c.api = "block_make" ->
            {SendreqBlockMake(io, c.child, c.id, c.cert), SendreqBlockMakeOld(io, c.child, c.id, c.cert)}
      [] c.api = "block_get" ->
            {SendreqBlockGet(io, c.child, c.id, c.read_cert),
             SendreqBlockGetOld(io, c.child, c.id, c.read_cert)}
      [] c.api = "block_id_by_height_get" ->
            {SendreqBlockIdByHeightGet(io, c.child, c.height),
             SendreqBlockIdByHeightGetOld(io, c.child, c.height)}
      [] c.api = "latest_block_id_get" ->
            {SendreqLatestBlockIdGet(io, c.child), SendreqLatestBlockIdGetOld(io, c.child)}
      [] c.api = "canonized_transaction_get" ->
            {SendreqCanonizedTransactionGet(io, c.child, c.id, c.read_cert),
             SendreqCanonizedTransactionGetOld(io, c.child, c.id, c.read_cert)}
      [] c.api = "raw" -> {PsockSend(io, c.msg)}

\* The recvresp functions that end this call, when the socket answers io and m.
Recvresps(c, io, m) ==
    CASE c.api = "root_context_init" ->
            {RecvrespRootContextInit(io, m),
             RecvrespRootContextInitOld(io, m),
             RecvrespRootContextInitBlock(io, m)}
      [] c.api = "root_context_reduce_caps" ->
            {RecvrespRootContextReduceCaps(io, m),
             RecvrespRootContextReduceCapsOld(io, m),
             RecvrespRootContextReduceCapsBlock(io, m)}
      [] c.api = "child_context_create" ->
            {RecvrespChildContextCreate(io, m),
             RecvrespChildContextCreateOld(io, m),
             RecvrespChildContextCreateBlock(io, m)}
      [] c.api = "child_context_close" ->
            {RecvrespChildContextClose(io, m),
             RecvrespChildContextCloseOld(io, m),
             RecvrespChildContextCloseBlock(io, m)}
      [] c.api = "global_settings_get" ->
            {RecvrespGlobalSettingsGet(io, m, SettingsBuffer),
             RecvrespGlobalSettingsGetOld(io, m, SettingsBuffer),
             RecvrespGlobalSettingsGetBlock(io, m, SettingsBuffer)}
      [] c.api = "global_settings_set" ->
            {RecvrespGlobalSettingsSet(io, m),
             RecvrespGlobalSettingsSetOld(io, m),
             RecvrespGlobalSettingsSetBlock(io, m)}
      [] c.api = "transaction_submit" ->
            {RecvrespTransactionSubmit(io, m), RecvrespTransactionSubmitOld(io, m)}
      [] c.api = "transaction_get_first" ->
            {RecvrespTransactionGetFirst(io, m),
             RecvrespTransactionGetFirstOld(io, m)}
      [] c.api = "transaction_get" ->
            {RecvrespTransactionGet(io, m), RecvrespTransactionGetOld(io, m)}
      [] c.api = "transaction_drop" ->
            {RecvrespTransactionDrop(io, m), RecvrespTransactionDropOld(io, m)}
      [] c.api = "transaction_promote" ->
            {RecvrespTransactionPromote(io, m), RecvrespTransactionPromoteOld(io, m)}
      [] c.api = "artifact_get" ->
            {RecvrespArtifactGet(io, m), RecvrespArtifactGetOld(io, m)}
      [] c.api = "block_make" ->
            {RecvrespBlockMake(io, m), RecvrespBlockMakeOld(io, m)}
      [] c.api = "block_get" ->
            {RecvrespBlockGet(io, m), RecvrespBlockGetOld(io, m)}
      [] c.api = "block_id_by_height_get" ->
            {RecvrespBlockIdByHeightGet(io, m), RecvrespBlockIdByHeightGetOld(io, m)}
      [] c.api = "latest_block_id_get" ->
            {RecvrespLatestBlockIdGet(io, m), RecvrespLatestBlockIdGetOld(io, m)}
      [] c.api = "canonized_transaction_get" ->
            {RecvrespCanonizedTransactionGet(io, m),
             RecvrespCanonizedTransactionGetOld(io, m)}
      [] c.api = "raw" -> {PsockRecv(io, Header(m, SubSeq(m, 4, Len(m))))}

\* The supervisor makes its two calls one after the other, and the service the
\* rest; it closes a child context that it was given, or tries an index that it
\* has no reason to use while nothing else is outstanding.
MayCall(c) ==
    /\ Len(calls) < MaxOutstanding
    /\ CASE c.api = "root_context_init" -> phase = "init" /\ calls = <<>>
         [] c.api = "root_context_reduce_caps" -> phase = "reduce" /\ calls = <<>>
         [] c.api = "transaction_submit" -> phase = "ready" /\ SubmitsLeft
         [] c.api = "child_context_close" ->
              phase = "ready" /\ (c.child \in held \/ calls = <<>>)
         [] OTHER -> phase = "ready"

Call(c) ==
    /\ MayCall(c)
    /\ \E io \in Io : \E s \in Sendreqs(c, io) :
          CASE s.retval = "SUCCESS" ->
                 /\ running
                 /\ request' = request \o s.msgs
                 /\ calls' = Append(calls, c)
                 /\ held' = IF c.api = "child_context_close" THEN held \ {c.child} ELSE held
                 /\ UNCHANGED phase
            [] s.retval = "WOULD_BLOCK" -> UNCHANGED <<request, clientVars>>
            [] OTHER ->
                 ~running /\ phase' = "gone" /\ UNCHANGED <<request, calls, held>>
    /\ UNCHANGED <<storeVars, ctxVars, settings, current, response>>

\* What the client does next: it gives up if the root context cannot be set up.
PhaseAfter(c, r) ==
    CASE c.api \in {"root_context_init", "root_context_reduce_caps"}
            /\ r.status # "SUCCESS" -> "gone"
      [] c.api = "root_context_init" /\ r.status = "SUCCESS" -> "reduce"
      [] c.api = "root_context_reduce_caps" /\ r.status = "SUCCESS" -> "ready"
      [] OTHER -> phase

\* The return values of the operations are forgotten with the response.
Receive ==
    /\ calls # <<>> /\ response # <<>>
    /\ \E r \in Recvresps(Head(calls), "OK", Head(response)) :
          /\ phase' = IF r.retval = "SUCCESS" THEN PhaseAfter(Head(calls), r) ELSE "gone"
          /\ held' = IF /\ Head(calls).api = "child_context_create"
                        /\ r.retval = "SUCCESS" /\ r.status = "SUCCESS"
                     THEN held \cup {r.data[1]} ELSE held
    /\ response' = Tail(response)
    /\ calls' = Tail(calls)
    /\ reply' = DS!NoReply /\ ctxreply' = DC!Answer("none", 0, "SUCCESS")
    /\ UNCHANGED <<db, work, making, arrivals, apicaps, children, child_head, running,
                   settings, current, request>>

\* A read that would block is tried again; a read from a service that is gone
\* fails, and the client gives up.
ReceiveFails ==
    /\ calls # <<>> /\ response = <<>>
    /\ \E io \in {"WOULD_BLOCK", "ERROR"} :
       \E r \in Recvresps(Head(calls), io, <<>>) :
          /\ r.retval = "WOULD_BLOCK" \/ ~running
          /\ phase' = IF r.retval = "WOULD_BLOCK" THEN phase ELSE "gone"
          /\ calls' = IF r.retval = "WOULD_BLOCK" THEN calls ELSE <<>>
    /\ UNCHANGED <<storeVars, ctxVars, settings, current, request, response, held>>

Next ==
    \/ Dispatch
    \/ EventLoopFails
    \/ OtherProcess
    \/ \E c \in Calls : Call(c)
    \/ Receive \/ ReceiveFails

\* The event loop handles what it has received, and the client reads.
Spec ==
    Init /\ [][Next]_vars /\ WF_vars(Dispatch) /\ WF_vars(Receive) /\ WF_vars(ReceiveFails)
-----------------------------------------------------------------------------
(* Properties. *)

\* Type invariant: what is outstanding is on its way in one direction or being
\* answered, and an answer in several steps belongs to one request.
TypeOK ==
    /\ phase \in {"init", "reduce", "ready", "gone"}
    /\ calls \in Seq(Calls)
    /\ held \subseteq DC!Slot
    /\ current.op \in {"idle", "first", "make"}
    /\ (current.op = "make") = making.open
    /\ running => Len(calls) = Len(request) + Len(response)
                               + (IF current.op = "idle" THEN 0 ELSE 1)

\* The capability that a call needs.
CapOf(c) ==
    CASE c.api = "global_settings_get" -> "APP_GLOBAL_SETTING_READ"
      [] c.api = "global_settings_set" -> "APP_GLOBAL_SETTING_WRITE"
      [] c.api = "transaction_submit" -> "APP_PQ_TRANSACTION_SUBMIT"
      [] c.api = "transaction_get_first" -> "APP_PQ_TRANSACTION_FIRST_READ"
      [] c.api = "transaction_get" -> "APP_PQ_TRANSACTION_READ"
      [] c.api = "transaction_drop" -> "APP_PQ_TRANSACTION_DROP"
      [] c.api = "transaction_promote" -> "APP_PQ_TRANSACTION_PROMOTE"
      [] c.api = "artifact_get" -> "APP_ARTIFACT_READ"
      [] c.api = "block_make" -> "APP_BLOCK_WRITE"
      [] c.api = "block_get" -> "APP_BLOCK_READ"
      [] c.api = "block_id_by_height_get" -> "APP_BLOCK_ID_BY_HEIGHT_READ"
      [] c.api = "latest_block_id_get" -> "APP_BLOCK_ID_LATEST_READ"
      [] c.api = "canonized_transaction_get" -> "APP_TRANSACTION_READ"
      [] c.api = "child_context_close" -> "LL_CHILD_CONTEXT_CLOSE"

NamesChild(c) ==
    c.api \notin {"root_context_init", "root_context_reduce_caps", "child_context_create",
                  "raw"}

Entitled(c) ==
    NamesChild(c) => DC!Lookup(c.child) /\ CapOf(c) \in children[c.child].caps

Height(d) == Cardinality(DOMAIN d.height)

\* The block at a height, the root block being at height 0.
At(d, h) == IF h = 0 THEN RootBlock ELSE d.height[h]

\* The certificates of an artifact in the order of the chain: (height, position).
InOrder(d, x, y) ==
    \E g, h \in DOMAIN d.height :
       \E i \in DOMAIN d.block[d.height[g]].txns, j \in DOMAIN d.block[d.height[h]].txns :
          /\ d.block[d.height[g]].txns[i].id = x /\ d.block[d.height[h]].txns[j].id = y
          /\ g < h \/ (g = h /\ i <= j)

OfArtifact(d, a) == {t \in DS!Canonized(d) : d.txn[t].artifact = a}

\* The transaction that has been on the queue longest.
IsOldest(d, id) == id \in DS!Queued(d) /\ \A t \in DS!Queued(d) : d.pq[id].at <= d.pq[t].at

\* What a successful answer to a read says, in terms of the chain and the queue
\* instead of the tables.  transaction_get_first answers with a transaction that was
\* the oldest when its first read was made.
ReadIsTrue(c, data) ==
    CASE c.api = "block_get" ->
           \E h \in 0 .. Height(db) :
              /\ At(db, h) = c.id
              /\ data.block_height = h
              /\ h > 0 => data.key = c.id /\ data.prev = At(db, h - 1)
              /\ data.next = IF h < Height(db) THEN At(db, h + 1) ELSE FFUuid
              /\ data.cert # <<>> <=> c.read_cert /\ h > 0
      [] c.api = "block_id_by_height_get" -> data = <<At(db, c.height)>>
      [] c.api = "latest_block_id_get" -> data = <<At(db, Height(db))>>
      [] c.api = "artifact_get" ->
           /\ data.key = c.id
           /\ {data.txn_first, data.txn_latest} \subseteq OfArtifact(db, c.id)
           /\ \A t \in OfArtifact(db, c.id) :
                 InOrder(db, data.txn_first, t) /\ InOrder(db, t, data.txn_latest)
           /\ At(db, data.height_latest) = db.txn[data.txn_latest].block
           /\ At(db, data.height_first) = db.txn[data.txn_first].block
      [] c.api \in {"transaction_get", "transaction_get_first"} ->
           /\ data.key \in DS!Queued(db)
           /\ data.key = IF c.api = "transaction_get" THEN c.id ELSE current.id
           /\ \A t \in DS!Queued(db) : (db.pq[t].at > db.pq[data.key].at) =>
                 data.next # FFUuid /\ db.pq[data.next].at <= db.pq[t].at
           /\ data.cert = <<db.pq[data.key].cert>>
      [] c.api = "canonized_transaction_get" ->
           /\ data.key = c.id
           /\ \E h \in 1 .. Height(db) :
                 /\ At(db, h) = data.block_id
                 /\ \E i \in DOMAIN db.block[data.block_id].txns :
                       LET cert == db.block[data.block_id].txns[i] IN
                       /\ cert.id = c.id /\ cert.artifact = data.artifact_id
                       /\ cert.prev = data.prev
                       /\ data.cert = IF c.read_cert THEN <<cert>> ELSE <<>>
      [] c.api = "global_settings_get" -> data = settings[c.key]
      [] OTHER -> TRUE

\* What a successful answer to a write says of the state it leaves.
WriteIsTrue(c, data) ==
    CASE c.api = "transaction_submit" ->
           /\ c.id \in DS!Queued(db')
           /\ \A t \in DS!Queued(db') : db'.pq[t].at <= db'.pq[c.id].at
           /\ db'.pq[c.id].artifact = c.artifact /\ db'.pq[c.id].cert = c.cert
      [] c.api = "transaction_drop" -> DS!Queued(db') = DS!Queued(db) \ {c.id}
      [] c.api = "transaction_promote" -> db'.pq[c.id].state = "ATTESTED"
      [] c.api = "block_make" ->
           /\ At(db', Height(db')) = c.id /\ Height(db') = Height(db) + 1
           /\ \A i \in DOMAIN c.cert[1].txns :
                 c.cert[1].txns[i].id \in DS!Canonized(db') \ DS!Queued(db')
      [] c.api = "global_settings_set" -> settings'[c.key] = c.val
      [] c.api = "child_context_create" ->
           /\ ~children[data[1]].open /\ children'[data[1]].open
           /\ children'[data[1]].caps \subseteq c.caps
      [] c.api = "child_context_close" -> ~children'[c.child].open
      [] OTHER -> TRUE

\* The service answers requests in order, so a new response is for this call.
Answered == calls[Len(response) + 1]
NewResponse == Len(response') > Len(response)
Decoded == CHOOSE r \in Recvresps(Answered, "OK", response'[Len(response')]) : TRUE

\* Every answer is the truth: whatever the client calls and at whatever moment,
\* with other processes at the database, the response decodes as one to that call
\* and names its child context, success is answered only to those entitled
\* to it, and a success says what is so when it is read: of the chain and the queue
\* for a read, of the state it leaves for a write.  transaction_get_first reads
\* twice: its id is the oldest at the first read, and what the answer says of that
\* transaction is so at the second, when it need not be the oldest any more.
\* (dataservice_decode_and_dispatch and all it calls, dataservice_transaction_get_first,
\* dataservice_api_sendreq_x, dataservice_api_recvresp_x)
AnswersAreTrue ==
    [][ /\ current.op = "idle" /\ current'.op = "first" => IsOldest(db, current'.id)
        /\ NewResponse /\ Answered.api # "raw" =>
              /\ Decoded.retval = "SUCCESS"
              /\ NamesChild(Answered) => Decoded.offset = Answered.child
              /\ Decoded.status = "SUCCESS" =>
                    /\ Entitled(Answered)
                    /\ ReadIsTrue(Answered, Decoded.data)
                    /\ WriteIsTrue(Answered, Decoded.data) ]_vars

\* A request that is answered with an error changed nothing, except that a root
\* context whose database cannot be opened has used up its capability to try.
\* (the early returns of the operations)
RefusalsChangeNothing ==
    [][ NewResponse /\ Decoded.retval = "SUCCESS"
            /\ Decoded.status \notin {"SUCCESS", "OPEN_FAILURE"} =>
           UNCHANGED <<db, settings, apicaps, children, child_head>> ]_vars

\* A child context that the client was given is open until the client closes it,
\* however creations, closings and failures interleave with it.
\* (dataservice_decode_and_dispatch_child_context_create, _close)
HeldContextsAreOpen == \A i \in held : children[i].open

\* The client never waits for good: again and again it has no call outstanding,
\* or one of its calls comes back, even when the service ends.
\* (dataservice_decode_and_dispatch and the dataservice_api_recvresp functions)
CallsReturn == []<>(calls = <<>>) \/ []<><<Receive \/ ReceiveFails>>_vars
=============================================================================
