------------------------------ MODULE Sessions ------------------------------
(***************************************************************************)
(* The connections of the protocol service after their handshake: the      *)
(* fiber that reads requests, the write endpoint fiber that writes         *)
(* responses, the data service endpoint that all connections share, and    *)
(* the clients on the other side.  (src/src/protocolservice:               *)
(* protocolservice_protocol_x, protocolservice_dataservice_endpoint_x,     *)
(* pde_decode_and_dispatch_x, protocolservice_extended_api_x)              *)
(*                                                                         *)
(* Fibers take turns; a fiber runs until it waits for a socket or a        *)
(* mailbox, so what it does between two waits is one step.  Mailboxes are  *)
(* FIFO, and a message to a closed mailbox fails.  The notification        *)
(* service endpoint is in Assertions, the handshake in Handshake.          *)
(***************************************************************************)
EXTENDS ProtocolWire, Naturals, Sequences, FiniteSets

CONSTANTS
    Client,         \* one connection each
    Setups,         \* by name: for each client its entity, as the handshake found out, its
                    \* requests and their number; the child contexts of the data service
    Capability,     \* entity -> verbs on the agent that it may use
    ExtCapability,  \* <<entity, verb, entity>>: extended requests that it may send
    Db,             \* the database, tables as in DataStore
    Chain           \* the blocks in Db, in order, each with the certificates in it

VARIABLES
    setup,              \* the name of one of Setups
    conn,               \* protocolservice_protocol_fiber_context of each connection
    mail,               \* the mailbox return_addr
    fibermail,          \* the mailbox fiber_addr holds a reply
    queue,              \* the mailbox of the data service endpoint
    endpoint,           \* the data service endpoint fiber
    mailbox_context,    \* its mailbox_context_tree
    context_mailbox,    \* its context_mailbox_tree
    slots,              \* child contexts that the data service holds, with their caps
    dataservice,        \* the data service process answers
    extended_api_dict,  \* entity -> connection that offers its extended API
    up, down,           \* packets to and from the service
    client,             \* the clients
    refused,            \* history: the data service refused a context
    accepted            \* history: transactions that the data service accepted

endpointVars == <<queue, endpoint, mailbox_context, context_mailbox, slots, dataservice,
                  refused, accepted>>
vars == <<setup, conn, mail, fibermail, endpointVars, extended_api_dict, up, down, client>>

entity == Setups[setup].entity    \* ctx->entity_uuid of each connection

NewConnection ==
    [pc |-> "start", writer |-> "none", reference_count |-> 1, opened |-> FALSE,
     req_shutdown |-> FALSE, extended_api_enabled |-> FALSE, can_respond |-> FALSE,
     extended_api_offset |-> 0, extended_api_offset_dict |-> [k \in {} |-> 0],
     client_iv |-> 2, server_iv |-> 2, released |-> FALSE]

NewClient ==
    [gone |-> FALSE, pending |-> {}, asked |-> {}, made |-> 0,
     client_iv |-> 2, server_iv |-> 2]

\* Its mailbox, its two trees and its fiber.
DataserviceEndpointAdd ==
    /\ queue = <<>> /\ endpoint = "running"
    /\ mailbox_context = [c \in {} |-> 0] /\ context_mailbox = [s \in {} |-> 0]

Init ==
    /\ setup \in DOMAIN Setups
    /\ conn = [c \in Client |-> NewConnection]
    /\ mail = [c \in Client |-> <<>>]
    /\ fibermail = [c \in Client |-> FALSE]
    /\ DataserviceEndpointAdd
    /\ slots = [s \in {} |-> {}] /\ dataservice = TRUE
    /\ extended_api_dict = [e \in {} |-> 0]
    /\ up = [c \in Client |-> <<>>] /\ down = [c \in Client |-> <<>>]
    /\ client = [c \in Client |-> NewClient]
    /\ refused = FALSE /\ accepted = {}
-----------------------------------------------------------------------------
(* Helpers on functions used as trees. *)

Insert(f, k, v) == [x \in DOMAIN f \cup {k} |-> IF x = k THEN v ELSE f[x]]
Delete(f, k) == [x \in DOMAIN f \ {k} |-> f[x]]

Open(c) == ~conn[c].released

\* protocolservice_protocol_write_endpoint_message_create.
Packet(payload) ==
    [message_type |-> "PACKET", original_request_id |-> "NONE", offset |-> 0,
     payload |-> payload]
DataserviceMsg(req, payload) ==
    [message_type |-> "DATASERVICE_MSG", original_request_id |-> req.protocol_request_id,
     offset |-> req.offset, payload |-> payload]
Shutdown ==
    [message_type |-> "SHUTDOWN", original_request_id |-> "NONE", offset |-> 0,
     payload |-> <<>>]

\* protocolservice_dataservice_request_message_create.
EndpointRequest(id, c, protocol_request_id, offset, payload) ==
    [request_id |-> id, from |-> c, protocol_request_id |-> protocol_request_id,
     offset |-> offset, payload |-> payload]

\* protocolservice_send_error_response_message.
ErrorMessage(request_id, status, offset) ==
    Packet(ErrorResponse(request_id, status, offset))
-----------------------------------------------------------------------------
(* Opening and releasing a connection. *)

\* protocolservice_dataservice_map_user_capabilities.
MapUserCapabilities(e) ==
    {"LL_CHILD_CONTEXT_CLOSE"} \cup
    {p[2] : p \in {q \in {<<"BLOCK_ID_LATEST_READ", "APP_BLOCK_ID_LATEST_READ">>,
                          <<"TRANSACTION_SUBMIT", "APP_PQ_TRANSACTION_SUBMIT">>,
                          <<"BLOCK_READ", "APP_BLOCK_READ">>,
                          <<"BLOCK_ID_BY_HEIGHT_READ", "APP_BLOCK_ID_BY_HEIGHT_READ">>,
                          <<"TRANSACTION_READ", "APP_TRANSACTION_READ">>,
                          <<"ARTIFACT_READ", "APP_ARTIFACT_READ">>} :
                       q[1] \in Capability[e]}}

\* protocolservice_protocol_unroute_extended_api_for_entity.
Unroute(e) == Delete(extended_api_dict, e)

\* protocolservice_protocol_fiber_context_release, for the connection record cn:
\* the last reference withdraws the extended API, gives up the child context, and
\* waits for the endpoint before the mailboxes are closed.
Release(c, cn) ==
    LET last == cn.reference_count = 1
        gives == last /\ cn.opened /\ endpoint = "running"
        left == [cn EXCEPT !.reference_count = @ - 1, !.released = last /\ ~gives]
    IN  /\ conn' = [conn EXCEPT ![c] = left]
        /\ extended_api_dict' = IF last /\ cn.extended_api_enabled
                                THEN Unroute(entity[c]) ELSE extended_api_dict
        /\ queue' = IF gives
                    THEN Append(queue, EndpointRequest("CONTEXT_CLOSE", c, "NONE", 0, <<>>))
                    ELSE queue

\* protocolservice_protocol_request_data_service_context, up to its wait.
RequestDataServiceContext(c) ==
    /\ conn[c].pc = "start"
    /\ IF endpoint = "running"
       THEN /\ queue' = Append(queue, EndpointRequest("CONTEXT_OPEN", c, "NONE", 0,
                                                      <<MapUserCapabilities(entity[c])>>))
            /\ conn' = [conn EXCEPT ![c].pc = "opening"]
            /\ UNCHANGED extended_api_dict
       ELSE Release(c, [conn[c] EXCEPT !.pc = "ended"])
    /\ UNCHANGED <<setup, mail, fibermail, endpoint, mailbox_context, context_mailbox,
                   slots, dataservice, up, down, client, refused, accepted>>

\* ... and after it, whatever the reply was; then the write endpoint is added,
\* which holds a reference of its own.
ContextOpened(c) ==
    /\ conn[c].pc = "opening" /\ fibermail[c]
    /\ fibermail' = [fibermail EXCEPT ![c] = FALSE]
    /\ \/ /\ conn' = [conn EXCEPT ![c].pc = "reading", ![c].opened = TRUE,
                                  ![c].writer = "running", ![c].reference_count = 2]
          /\ UNCHANGED <<queue, extended_api_dict>>
       \/ Release(c, [conn[c] EXCEPT !.pc = "ended", !.opened = TRUE])
    /\ UNCHANGED <<setup, mail, endpoint, mailbox_context, context_mailbox, slots,
                   dataservice, up, down, client, refused, accepted>>

\* Faulty variant: the write endpoint is not told.
ShutdownSilently(c) ==
    /\ conn[c].pc = "stopping"
    /\ Release(c, [conn[c] EXCEPT !.pc = "ended"])
    /\ UNCHANGED <<setup, mail, fibermail, endpoint, mailbox_context, context_mailbox, slots,
                   dataservice, up, down, client, refused, accepted>>

\* protocolservice_protocol_shutdown_write_endpoint, and the fiber's release.
ShutdownWriteEndpoint(c) ==
    /\ conn[c].pc = "stopping"
    /\ mail' = [mail EXCEPT ![c] = Append(@, Shutdown)]
    /\ Release(c, [conn[c] EXCEPT !.pc = "ended"])
    /\ UNCHANGED <<setup, fibermail, endpoint, mailbox_context, context_mailbox, slots,
                   dataservice, up, down, client, refused, accepted>>

\* The end of protocolservice_protocol_close_data_service_context, and the rest
\* of the release: the socket and both mailboxes are closed.
ContextClosed(c) ==
    /\ conn[c].reference_count = 0 /\ ~conn[c].released
    /\ fibermail[c]
    /\ fibermail' = [fibermail EXCEPT ![c] = FALSE]
    /\ conn' = [conn EXCEPT ![c].released = TRUE, ![c].opened = FALSE]
    /\ mail' = [mail EXCEPT ![c] = <<>>]
    /\ UNCHANGED <<setup, endpointVars, extended_api_dict, up, down, client>>
-----------------------------------------------------------------------------
(* The fiber that reads. *)

DataIds ==
    {"LATEST_BLOCK_ID_GET", "TRANSACTION_SUBMIT", "BLOCK_BY_ID_GET", "BLOCK_ID_GET_NEXT",
     "BLOCK_ID_GET_PREV", "BLOCK_ID_BY_HEIGHT_GET", "TRANSACTION_BY_ID_GET",
     "TRANSACTION_ID_GET_NEXT", "TRANSACTION_ID_GET_PREV", "TRANSACTION_ID_GET_BLOCK_ID",
     "ARTIFACT_FIRST_TXN_BY_ID_GET", "ARTIFACT_LAST_TXN_BY_ID_GET"}

\* The requests that go to the data service.
Dnd(m) ==
    CASE m[1] = "LATEST_BLOCK_ID_GET" -> DndLatestBlockIdGet(m)
      [] m[1] = "TRANSACTION_SUBMIT" -> DndTransactionSubmit(m)
      [] m[1] = "BLOCK_BY_ID_GET" -> DndBlockByIdGet(m)
      [] m[1] = "BLOCK_ID_GET_NEXT" -> DndBlockIdNextGet(m)
      [] m[1] = "BLOCK_ID_GET_PREV" -> DndBlockIdPrevGet(m)
      [] m[1] = "BLOCK_ID_BY_HEIGHT_GET" -> DndBlockIdByHeightGet(m)
      [] m[1] = "TRANSACTION_BY_ID_GET" -> DndTransactionByIdGet(m)
      [] m[1] = "TRANSACTION_ID_GET_NEXT" -> DndTransactionIdNextGet(m)
      [] m[1] = "TRANSACTION_ID_GET_PREV" -> DndTransactionIdPrevGet(m)
      [] m[1] = "TRANSACTION_ID_GET_BLOCK_ID" -> DndTransactionBlockIdGet(m)
      [] m[1] = "ARTIFACT_FIRST_TXN_BY_ID_GET" -> DndArtifactFirstTransactionIdGet(m)
      [] m[1] = "ARTIFACT_LAST_TXN_BY_ID_GET" -> DndArtifactLastTransactionIdGet(m)

\* protocolservice_protocol_read_decode_and_dispatch_packet: a packet with this
\* request id has been read and decrypted with the expected iv.
Received(c, ids) ==
    /\ conn[c].pc = "reading" /\ up[c] # <<>>
    /\ Head(up[c]).iv = conn[c].client_iv
    /\ Len(Head(up[c]).payload) >= 2
    /\ Head(up[c]).payload[1] \in ids
    /\ up' = [up EXCEPT ![c] = Tail(@)]
    /\ UNCHANGED <<setup, fibermail, endpoint, mailbox_context, context_mailbox, slots,
                   dataservice, down, client, refused, accepted>>

Request(c) == Head(up[c]).payload

\* The connection after a packet: the loop ends once CLOSE was read.
AfterPacket(cn) ==
    [cn EXCEPT !.client_iv = @ + 1, !.pc = IF cn.req_shutdown THEN "stopping" ELSE "reading"]

\* A response of the connection itself; a dispatch function that fails is
\* answered with its error.
Respond(c, status) ==
    mail' = [mail EXCEPT ![c] =
                Append(@, ErrorMessage(Request(c)[1], status, Request(c)[2]))]

\* Faulty variant: a request that cannot be decoded is not answered.
DispatchSilently(c) ==
    LET dnd == Dnd(Request(c)) IN
    /\ Received(c, DataIds)
    /\ queue' = IF dnd.retval = "SUCCESS" /\ endpoint = "running"
                THEN Append(queue, EndpointRequest("DATASERVICE_REQ", c, Request(c)[1],
                                                   Request(c)[2], dnd.msg))
                ELSE queue
    /\ conn' = [conn EXCEPT ![c] = AfterPacket(@)]
    /\ UNCHANGED <<mail, extended_api_dict>>

\* protocolservice_dataservice_send_request.
DispatchDataRequest(c) ==
    LET dnd == Dnd(Request(c)) IN
    /\ Received(c, DataIds)
    /\ IF dnd.retval = "SUCCESS" /\ endpoint = "running"
       THEN /\ queue' = Append(queue, EndpointRequest("DATASERVICE_REQ", c, Request(c)[1],
                                                      Request(c)[2], dnd.msg))
            /\ UNCHANGED mail
       ELSE /\ Respond(c, IF dnd.retval = "SUCCESS" THEN "MAILBOX_CLOSED" ELSE dnd.retval)
            /\ UNCHANGED queue
    /\ conn' = [conn EXCEPT ![c] = AfterPacket(@)]
    /\ UNCHANGED extended_api_dict

DispatchStatusGet(c) ==
    /\ Received(c, {"STATUS_GET"})
    /\ Respond(c, IF Len(Request(c)) = 2 THEN "SUCCESS" ELSE "DECODE")
    /\ conn' = [conn EXCEPT ![c] = AfterPacket(@)]
    /\ UNCHANGED <<queue, extended_api_dict>>

DispatchClose(c) ==
    /\ Received(c, {"CLOSE"})
    /\ Respond(c, "SUCCESS")
    /\ conn' = [conn EXCEPT ![c] = AfterPacket([@ EXCEPT !.req_shutdown = TRUE])]
    /\ UNCHANGED <<queue, extended_api_dict>>

DispatchUnknown(c) ==
    /\ Received(c, {"UNKNOWN"})
    /\ Respond(c, "INVALID_REQUEST_ID")
    /\ conn' = [conn EXCEPT ![c] = AfterPacket(@)]
    /\ UNCHANGED <<queue, extended_api_dict>>

\* The packet is too short, does not authenticate, or cannot be read because the
\* client is gone.
ReadFails(c) ==
    /\ conn[c].pc = "reading"
    /\ IF up[c] # <<>>
       THEN /\ Len(Head(up[c]).payload) < 2 \/ Head(up[c]).iv # conn[c].client_iv
            /\ up' = [up EXCEPT ![c] = Tail(@)]
            /\ conn' = [conn EXCEPT ![c].pc = "stopping", ![c].client_iv = @ + 1]
       ELSE /\ client[c].gone
            /\ conn' = [conn EXCEPT ![c].pc = "stopping"]
            /\ UNCHANGED up
    /\ mail' = [mail EXCEPT ![c] = Append(@, ErrorMessage("NONE", "MALFORMED_REQUEST", 0))]
    /\ UNCHANGED <<setup, fibermail, endpointVars, extended_api_dict, down, client>>
-----------------------------------------------------------------------------
(* The extended API: a connection offers it for its entity, and requests    *)
(* of other connections are passed on to it.                                *)

May(c, verb) == verb \in Capability[entity[c]]

\* Faulty variant: a second connection of the entity takes the route over.
RouteTakesOver(c) ==
    [status |-> "SUCCESS", dict |-> Insert(extended_api_dict, entity[c], c)]

\* protocolservice_protocol_route_extended_api_for_entity: an entity has one route.
Route(c) ==
    IF entity[c] \in DOMAIN extended_api_dict
    THEN [status |-> "EXTENDED_API_ALREADY_ENABLED", dict |-> extended_api_dict]
    ELSE [status |-> "SUCCESS", dict |-> Insert(extended_api_dict, entity[c], c)]

\* protocolservice_protocol_dnd_extended_api_enable.
DispatchExtendedApiEnable(c) ==
    LET tried == May(c, "EXTENDED_API_ENABLE") /\ Len(Request(c)) = 2
        status == IF tried THEN Route(c).status
                  ELSE IF May(c, "EXTENDED_API_ENABLE") THEN "DECODE" ELSE "UNAUTHORIZED"
    IN  /\ Received(c, {"EXTENDED_API_ENABLE"})
        /\ extended_api_dict' = IF tried THEN Route(c).dict ELSE extended_api_dict
        /\ conn' = [conn EXCEPT ![c] =
                AfterPacket([@ EXCEPT
                    !.can_respond = IF tried THEN May(c, "EXTENDED_API_RESP") ELSE @,
                    !.extended_api_enabled = @ \/ status = "SUCCESS"])]
        /\ Respond(c, status)
        /\ UNCHANGED queue

\* protocolservice_extended_api_response_xlat_entry_add.
XlatEntry(c, client_offset) ==
    [client_offset |-> client_offset, client_return_address |-> c]

\* protocolservice_protocol_create_extended_api_clientreq_payload.
ClientreqPayload(k, e, m) == <<"EXTENDED_API_CLIENTREQ", k, e, m[4], m[5]>>

\* protocolservice_protocol_extended_api_send_req: the provider gets the request
\* under an offset of its own.
SendReq(c, p) ==
    LET m == Request(c)
        k == conn[p].extended_api_offset + 1
        provided == [conn[p] EXCEPT
            !.extended_api_offset = k,
            !.extended_api_offset_dict =
                IF conn[p].can_respond THEN Insert(@, k, XlatEntry(c, m[2])) ELSE @]
        passed == Append(mail[p], Packet(ClientreqPayload(k, entity[c], m)))
        told == [mail EXCEPT ![p] = passed]
    IN  /\ conn' = IF p = c THEN [conn EXCEPT ![c] = AfterPacket(provided)]
                   ELSE [conn EXCEPT ![p] = provided, ![c] = AfterPacket(@)]
        /\ mail' = IF conn[p].can_respond THEN told
                   ELSE [told EXCEPT ![c] = Append(@, ErrorMessage(m[1], "SUCCESS", m[2]))]

\* protocolservice_protocol_dnd_extended_api_sendrecv.
DispatchExtendedApiSendrecv(c) ==
    LET m == Request(c)
        status == IF ~May(c, "EXTENDED_API_SENDRECV") THEN "UNAUTHORIZED"
                  ELSE IF Len(m) # 5 THEN "DECODE"
                  ELSE IF <<entity[c], m[4], m[3]>> \notin ExtCapability THEN "UNAUTHORIZED"
                  ELSE IF m[3] \notin DOMAIN extended_api_dict
                  THEN "EXTENDED_API_UNKNOWN_ENTITY" ELSE "SUCCESS"
    IN  /\ Received(c, {"EXTENDED_API_SENDRECV"})
        /\ IF status = "SUCCESS" THEN SendReq(c, extended_api_dict[m[3]])
           ELSE Respond(c, status) /\ conn' = [conn EXCEPT ![c] = AfterPacket(@)]
        /\ UNCHANGED <<queue, extended_api_dict>>

\* protocolservice_protocol_read_decode_and_dispatch_packet reads 32 bits of offset from
\* every packet: of the 64 bit offset of an answer it has the high half.
HeaderOffset(m) ==
    IF m[1] = "EXTENDED_API_SENDRESP" THEN (m[2] \div 2^16) \div 2^16 ELSE m[2]

\* protocolservice_protocol_dnd_extended_api_sendresp: the entry is kept if the
\* client that asked is gone.  A refusal goes to the offset of the packet header.
DispatchExtendedApiSendresp(c) ==
    LET m == Request(c)
        dict == conn[c].extended_api_offset_dict
        status == IF ~May(c, "EXTENDED_API_RESP") THEN "UNAUTHORIZED"
                  ELSE IF Len(m) # 4 THEN "DECODE"
                  ELSE IF m[2] \notin DOMAIN dict THEN "NOT_FOUND"
                  ELSE IF ~Open(dict[m[2]].client_return_address) THEN "MAILBOX_CLOSED"
                  ELSE "SUCCESS"
        answer == Packet(<<"EXTENDED_API_SENDRECV", m[3], dict[m[2]].client_offset, m[4]>>)
        to == dict[m[2]].client_return_address
        ack == ErrorMessage(m[1], status, m[2])
    IN  /\ Received(c, {"EXTENDED_API_SENDRESP"})
        /\ IF status = "SUCCESS"
           THEN /\ mail' = IF to = c THEN [mail EXCEPT ![c] = @ \o <<answer, ack>>]
                           ELSE [mail EXCEPT ![to] = Append(@, answer), ![c] = Append(@, ack)]
                /\ conn' = [conn EXCEPT ![c] =
                       AfterPacket([@ EXCEPT !.extended_api_offset_dict = Delete(@, m[2])])]
           ELSE /\ mail' = [mail EXCEPT ![c] =
                                Append(@, ErrorMessage(m[1], status, HeaderOffset(m)))]
                /\ conn' = [conn EXCEPT ![c] = AfterPacket(@)]
        /\ UNCHANGED <<queue, extended_api_dict>>

Dispatch(c) ==
    \/ DispatchDataRequest(c) \/ DispatchStatusGet(c) \/ DispatchClose(c)
    \/ DispatchUnknown(c) \/ ReadFails(c) \/ DispatchExtendedApiEnable(c)
    \/ DispatchExtendedApiSendrecv(c) \/ DispatchExtendedApiSendresp(c)
-----------------------------------------------------------------------------
(* The data service endpoint, and the data service behind it. *)

\* protocolservice_dataservice_endpoint_context_release; fibers that wait for
\* the endpoint wait forever.
EndpointEnds ==
    /\ endpoint' = "ended" /\ queue' = <<>>
    /\ mailbox_context' = [c \in {} |-> 0] /\ context_mailbox' = [s \in {} |-> 0]
    /\ UNCHANGED <<mail, fibermail, slots, refused, accepted>>

\* The endpoint fiber takes the next message.
Serving(id) ==
    /\ endpoint = "running" /\ queue # <<>> /\ Head(queue).request_id = id
    /\ UNCHANGED <<setup, conn, dataservice, extended_api_dict, up, down, client>>

Message == Head(queue)
Served == endpoint' = endpoint /\ queue' = Tail(queue)

Free == Setups[setup].table \ DOMAIN slots

\* pde_decode_and_dispatch_req_context_open: a refusal is answered all the same.
ContextOpen ==
    /\ Serving("CONTEXT_OPEN")
    /\ IF ~dataservice THEN EndpointEnds
       ELSE /\ Served
            /\ fibermail' = [fibermail EXCEPT ![Message.from] = TRUE]
            /\ UNCHANGED <<mail, accepted>>
            /\ IF Free = {}
               THEN /\ refused' = TRUE
                    /\ UNCHANGED <<mailbox_context, context_mailbox, slots>>
               ELSE \E s \in Free :
                    /\ mailbox_context' = Insert(mailbox_context, Message.from, s)
                    /\ context_mailbox' = Insert(context_mailbox, s, Message.from)
                    /\ slots' = Insert(slots, s, Message.payload[1])
                    /\ UNCHANGED refused

\* Faulty variant: the index by context keeps its entry.
ContextCloseKeepsIndex ==
    /\ Serving("CONTEXT_CLOSE")
    /\ Served
    /\ fibermail' = [fibermail EXCEPT ![Message.from] = TRUE]
    /\ UNCHANGED <<mail, refused, accepted, context_mailbox>>
    /\ IF dataservice /\ Message.from \in DOMAIN mailbox_context
       THEN LET s == mailbox_context[Message.from] IN
            /\ mailbox_context' = Delete(mailbox_context, Message.from)
            /\ slots' = Delete(slots, s)
       ELSE UNCHANGED <<mailbox_context, slots>>

\* pde_decode_and_dispatch_req_context_close: always answered.
ContextClose ==
    /\ Serving("CONTEXT_CLOSE")
    /\ Served
    /\ fibermail' = [fibermail EXCEPT ![Message.from] = TRUE]
    /\ UNCHANGED <<mail, refused, accepted>>
    /\ IF dataservice /\ Message.from \in DOMAIN mailbox_context
       THEN LET s == mailbox_context[Message.from] IN
            /\ mailbox_context' = Delete(mailbox_context, Message.from)
            /\ context_mailbox' = Delete(context_mailbox, s)
            /\ slots' = Delete(slots, s)
       ELSE UNCHANGED <<mailbox_context, context_mailbox, slots>>

\* The answer of the data service to request m, as in DataApi: the child is open
\* and holds the capability, which for these requests is named like the method.
Answer(m, dreq, result, payload) ==
    LET status == IF dreq.retval # "SUCCESS" THEN dreq.retval
                  ELSE IF dreq.child_index \notin DOMAIN slots THEN "INVALID"
                  ELSE IF m[1] \notin slots[dreq.child_index] THEN "NOT_AUTHORIZED"
                  ELSE result.status
    IN  StatusMessage(m[1], dreq.child_index, status,
                      IF status = "SUCCESS" THEN payload ELSE <<>>)

\* Whether a transaction is accepted depends on the queue, which is not here.
DataserviceAnswers(m) ==
    LET p == Tail(m)
        art == DecodeRequestPayloadArtifactRead(p)
        blk == DecodeRequestBlockRead(p)
        hgt == DecodeRequestBlockIdByHeightRead(p)
        txn == DecodeRequestCanonizedTransactionGet(p)
        gotArt == ArtifactGet(Db, art.artifact_id)
        gotBlk == BlockGet(Db, blk.block_id)
        gotHgt == BlockIdByHeightGet(Db, hgt.block_height)
        gotTxn == CanonizedTransactionGet(Db, txn.txn_id)
        latest == LatestBlockIdGet(Db)
    IN  CASE m[1] = "APP_ARTIFACT_READ" ->
                {Answer(m, art, gotArt, EncodeResponsePayloadArtifactRead(gotArt.node))}
          [] m[1] = "APP_BLOCK_READ" ->
                {Answer(m, blk, gotBlk, EncodeResponseBlockRead(gotBlk.node, blk.read_cert))}
          [] m[1] = "APP_BLOCK_ID_BY_HEIGHT_READ" ->
                {Answer(m, hgt, gotHgt, EncodeResponseBlockIdByHeightRead(gotHgt.node))}
          [] m[1] = "APP_BLOCK_ID_LATEST_READ" ->
                {Answer(m, DecodeRequestBlockIdLatestRead(p), latest,
                        EncodeResponseBlockIdLatestRead(latest.node))}
          [] m[1] = "APP_TRANSACTION_READ" ->
                {Answer(m, txn, gotTxn,
                        EncodeResponseCanonizedTransactionGet(gotTxn.node, txn.read_cert))}
          [] m[1] = "APP_PQ_TRANSACTION_SUBMIT" ->
                {Answer(m, DecodeRequestTransactionSubmit(p), r, <<>>) :
                    r \in {Found(<<>>), Fails("MDB_FAILURE")}}

\* Faulty variant: the request goes to whichever context is open.
PatchAnyContext(m, s) == [m EXCEPT ![2] = CHOOSE x \in DOMAIN slots : TRUE]

\* The child context of the connection is written into the request.
PatchContext(m, s) == [m EXCEPT ![2] = s]

\* pde_decode_and_dispatch_req_dataservice_req: a connection without a context
\* ends the endpoint.
DataserviceReq ==
    /\ Serving("DATASERVICE_REQ")
    /\ IF ~dataservice \/ Message.from \notin DOMAIN mailbox_context \/ ~Open(Message.from)
       THEN EndpointEnds
       ELSE LET m == PatchContext(Message.payload, mailbox_context[Message.from]) IN
            /\ Served
            /\ \E answer \in DataserviceAnswers(m) :
                  /\ mail' = [mail EXCEPT ![Message.from] =
                                Append(@, DataserviceMsg(Message, answer))]
                  /\ accepted' = IF m[1] = "APP_PQ_TRANSACTION_SUBMIT" /\ answer[3] = "SUCCESS"
                                 THEN accepted \cup {m[3]} ELSE accepted
            /\ UNCHANGED <<fibermail, mailbox_context, context_mailbox, slots, refused>>

Endpoint == ContextOpen \/ ContextClose \/ DataserviceReq

DataServiceExits ==
    /\ dataservice /\ "dataservice" \in Setups[setup].faults
    /\ dataservice' = FALSE
    /\ UNCHANGED <<setup, conn, mail, fibermail, queue, endpoint, mailbox_context,
                   context_mailbox, slots, refused, accepted, extended_api_dict, up, down,
                   client>>
-----------------------------------------------------------------------------
(* The write endpoint of a connection. *)

\* protocolservice_protocol_write_endpoint_write_packet, _write_raw_packet: a
\* write to a client that is gone may fail, which ends the fiber.
WritePacket(c, payload) ==
    LET written == [conn[c] EXCEPT !.server_iv = @ + 1] IN
    /\ mail' = [mail EXCEPT ![c] = Tail(@)]
    /\ \/ /\ conn' = [conn EXCEPT ![c] = written]
          /\ down' = IF client[c].gone THEN down
                     ELSE [down EXCEPT ![c] =
                            Append(@, [iv |-> conn[c].server_iv, payload |-> payload])]
          /\ UNCHANGED <<queue, extended_api_dict>>
       \/ /\ client[c].gone
          /\ Release(c, [written EXCEPT !.writer = "ended"])
          /\ UNCHANGED down

\* protocolservice_protocol_write_endpoint_decode_and_dispatch.
WriteEndpoint(c) ==
    /\ conn[c].writer = "running" /\ mail[c] # <<>>
    /\ LET m == Head(mail[c])
           answer == PweDataserviceMessage(m.payload, m)
       IN  CASE m.message_type = "PACKET" -> WritePacket(c, m.payload)
             [] m.message_type = "DATASERVICE_MSG" /\ answer.retval = "SUCCESS" ->
                    WritePacket(c, answer.msg)
             [] OTHER ->
                    /\ mail' = [mail EXCEPT ![c] = Tail(@)]
                    /\ Release(c, [conn[c] EXCEPT !.writer = "ended"])
                    /\ UNCHANGED down
    /\ UNCHANGED <<setup, fibermail, endpoint, mailbox_context, context_mailbox, slots,
                   dataservice, up, client, refused, accepted>>
-----------------------------------------------------------------------------
(* Clients. A client waits for the answer before it uses an offset again.  *)

Offset(m) == IF Len(m) < 2 THEN 0 ELSE m[2]

Send(c, m) ==
    /\ ~client[c].gone
    /\ \A n \in client[c].pending : Offset(n) # Offset(m)
    /\ up' = [up EXCEPT ![c] = Append(@, [iv |-> client[c].client_iv, payload |-> m])]
    /\ UNCHANGED <<setup, conn, mail, fibermail, endpointVars, extended_api_dict, down>>

Call(c) ==
    /\ client[c].made < Setups[setup].limit[c]
    /\ \E m \in Setups[setup].menu[c] :
          /\ Send(c, m)
          /\ client' = [client EXCEPT ![c].client_iv = @ + 1, ![c].made = @ + 1,
                                      ![c].pending = @ \cup {m}]

\* The client answers an extended request that it was sent.
AnswerExtended(c) ==
    \E q \in client[c].asked :
        LET m == <<"EXTENDED_API_SENDRESP", q[2], "SUCCESS", q[5]>> IN
        /\ Send(c, m)
        /\ client' = [client EXCEPT ![c].client_iv = @ + 1, ![c].asked = @ \ {q},
                                    ![c].pending = @ \cup {m}]

Answers(r, m) ==
    /\ r[1] # "EXTENDED_API_CLIENTREQ"
    /\ r[1] = IF Len(m) < 2 THEN "NONE" ELSE m[1]
    /\ r[3] = Offset(m)

\* A refused answer to an extended request, which does not name that answer.
RefusedAnswer(r) == r[1] = "EXTENDED_API_SENDRESP" /\ r[2] # "SUCCESS"

Receive(c) ==
    /\ ~client[c].gone /\ down[c] # <<>>
    /\ LET r == Head(down[c]).payload IN
       client' = [client EXCEPT
            ![c].server_iv = @ + 1,
            ![c].asked = IF r[1] = "EXTENDED_API_CLIENTREQ" THEN @ \cup {r} ELSE @,
            ![c].pending = {m \in @ : ~Answers(r, m)}]
    /\ down' = [down EXCEPT ![c] = Tail(@)]
    /\ UNCHANGED <<setup, conn, mail, fibermail, endpointVars, extended_api_dict, up>>

\* What the client has sent stays readable; what was sent to it is lost.
Disconnect(c) ==
    /\ ~client[c].gone
    /\ c \in Setups[setup].faults \/ (conn[c].released /\ down[c] = <<>>)
    /\ client' = [client EXCEPT ![c].gone = TRUE]
    /\ down' = [down EXCEPT ![c] = <<>>]
    /\ UNCHANGED <<setup, conn, mail, fibermail, endpointVars, extended_api_dict, up>>
-----------------------------------------------------------------------------
Fiber(c) ==
    \/ RequestDataServiceContext(c) \/ ContextOpened(c)
    \/ ShutdownWriteEndpoint(c) \/ ContextClosed(c) \/ Dispatch(c)

Next ==
    \/ Endpoint \/ DataServiceExits
    \/ \E c \in Client :
          \/ Fiber(c) \/ WriteEndpoint(c)
          \/ Call(c) \/ AnswerExtended(c) \/ Receive(c) \/ Disconnect(c)

\* The scheduler runs every fiber that can go on, and clients read their sockets.
Fairness ==
    /\ WF_vars(Endpoint)
    /\ \A c \in Client : WF_vars(Fiber(c)) /\ WF_vars(WriteEndpoint(c)) /\ WF_vars(Receive(c))

Spec == Init /\ [][Next]_vars /\ Fairness
-----------------------------------------------------------------------------
(* What the chain says, taken from the certificates of its blocks.         *)

Certs == UNION {{Chain[i].txns[j] : j \in 1 .. Len(Chain[i].txns)} : i \in 1 .. Len(Chain)}
BlockOf(t) == {Chain[i].id : i \in {k \in 1 .. Len(Chain) :
                  \E j \in 1 .. Len(Chain[k].txns) : Chain[k].txns[j].id = t}}
After(t) == {u.id : u \in {v \in Certs : v.prev = t}}
Before(t) == {u.prev : u \in {v \in Certs : v.id = t}} \ {ZeroUuid}

\* The id at height h; the root block is at height 0.
IdAt(h) == IF h = 0 THEN {RootBlock}
           ELSE IF h \in 1 .. Len(Chain) THEN {Chain[h].id} ELSE {}
HeightOf(b) == {h \in 0 .. Len(Chain) : IdAt(h) = {b}}

One(S, otherwise) == IF S = {} THEN otherwise ELSE CHOOSE x \in S : TRUE

\* The block at height h; the certificate of the root block is not stored.
BlockAt(h) ==
    IF h = 0
    THEN [key |-> ZeroUuid, prev |-> ZeroUuid, next |-> Chain[1].id,
          first_transaction_id |-> ZeroUuid, block_height |-> 0, cert |-> <<>>]
    ELSE [key |-> Chain[h].id, prev |-> One(IdAt(h - 1), ZeroUuid),
          next |-> One(IdAt(h + 1), FFUuid),
          first_transaction_id |-> Chain[h].txns[1].id, block_height |-> h,
          cert |-> <<Chain[h].txns>>]

TransactionOf(u) ==
    [key |-> u.id, prev |-> u.prev, next |-> One(After(u.id), FFUuid),
     artifact_id |-> u.artifact, block_id |-> One(BlockOf(u.id), ZeroUuid),
     txn_state |-> "CANONIZED", cert |-> <<u>>]

\* The true answers to request m: one or, if there is no such thing, none.
TrueAnswers(m) ==
    CASE m[1] = "LATEST_BLOCK_ID_GET" -> {<<b>> : b \in IdAt(Len(Chain))}
      [] m[1] = "BLOCK_BY_ID_GET" -> {BlockAt(h) : h \in HeightOf(m[3])}
      [] m[1] = "BLOCK_ID_GET_NEXT" -> {<<b>> : b \in UNION {IdAt(h + 1) : h \in HeightOf(m[3])}}
      [] m[1] = "BLOCK_ID_GET_PREV" ->
            {<<b>> : b \in UNION {IdAt(h - 1) : h \in HeightOf(m[3]) \ {0}}}
      [] m[1] = "BLOCK_ID_BY_HEIGHT_GET" -> {<<b>> : b \in IF m[3] = 0 THEN {} ELSE IdAt(m[3])}
      [] m[1] = "TRANSACTION_BY_ID_GET" ->
            {TransactionOf(u) : u \in {v \in Certs : v.id = m[3]}}
      [] m[1] = "TRANSACTION_ID_GET_NEXT" -> {<<u>> : u \in After(m[3])}
      [] m[1] = "TRANSACTION_ID_GET_PREV" -> {<<u>> : u \in Before(m[3])}
      [] m[1] = "TRANSACTION_ID_GET_BLOCK_ID" -> {<<b>> : b \in BlockOf(m[3])}
      [] m[1] = "ARTIFACT_FIRST_TXN_BY_ID_GET" ->
            {<<u.id>> : u \in {v \in Certs : v.artifact = m[3] /\ v.prev = ZeroUuid}}
      [] m[1] = "ARTIFACT_LAST_TXN_BY_ID_GET" ->
            {<<u.id>> : u \in {v \in Certs : v.artifact = m[3] /\ After(v.id) = {}}}

\* The verb that a request needs.
Verb(id) ==
    CASE id = "LATEST_BLOCK_ID_GET" -> "BLOCK_ID_LATEST_READ"
      [] id \in {"BLOCK_BY_ID_GET", "BLOCK_ID_GET_NEXT", "BLOCK_ID_GET_PREV"} -> "BLOCK_READ"
      [] id = "BLOCK_ID_BY_HEIGHT_GET" -> "BLOCK_ID_BY_HEIGHT_READ"
      [] id \in {"TRANSACTION_BY_ID_GET", "TRANSACTION_ID_GET_NEXT",
                 "TRANSACTION_ID_GET_PREV", "TRANSACTION_ID_GET_BLOCK_ID"} -> "TRANSACTION_READ"
      [] id \in {"ARTIFACT_FIRST_TXN_BY_ID_GET", "ARTIFACT_LAST_TXN_BY_ID_GET"} -> "ARTIFACT_READ"
      [] OTHER -> id

\* How the client function for the request reads the response.
Recvresp(r) ==
    CASE r[1] = "LATEST_BLOCK_ID_GET" -> RecvrespLatestBlockIdGet(r)
      [] r[1] = "STATUS_GET" -> RecvrespStatusGet(r)
      [] r[1] = "CLOSE" -> RecvrespClose(r)
      [] r[1] = "BLOCK_BY_ID_GET" -> RecvrespBlockGet(r)
      [] r[1] = "BLOCK_ID_GET_NEXT" -> RecvrespBlockNextIdGet(r)
      [] r[1] = "BLOCK_ID_GET_PREV" -> RecvrespBlockPrevIdGet(r)
      [] r[1] = "BLOCK_ID_BY_HEIGHT_GET" -> RecvrespBlockIdByHeightGet(r)
      [] r[1] = "TRANSACTION_BY_ID_GET" -> RecvrespTransactionGet(r)
      [] r[1] = "TRANSACTION_ID_GET_NEXT" -> RecvrespTransactionNextIdGet(r)
      [] r[1] = "TRANSACTION_ID_GET_PREV" -> RecvrespTransactionPrevIdGet(r)
      [] r[1] = "TRANSACTION_ID_GET_BLOCK_ID" -> RecvrespTransactionBlockIdGet(r)
      [] r[1] = "ARTIFACT_FIRST_TXN_BY_ID_GET" -> RecvrespArtifactFirstTxnIdGet(r)
      [] r[1] = "ARTIFACT_LAST_TXN_BY_ID_GET" -> RecvrespArtifactLastTxnIdGet(r)
      [] r[1] = "TRANSACTION_SUBMIT" -> RecvrespTransactionSubmit(r)

\* A response r that is on its way to client c tells the truth about m.
TellsTruth(c, m, r) ==
    CASE r[1] \in DataIds ->
            LET resp == Recvresp(r) IN
            /\ resp.retval = "SUCCESS"
            /\ resp.status = "SUCCESS" =>
                  /\ May(c, Verb(m[1]))
                  /\ IF m[1] = "TRANSACTION_SUBMIT" THEN m[3] \in accepted
                     ELSE TrueAnswers(m) = {resp.data}
            /\ resp.status = "NOT_FOUND" => TrueAnswers(m) = {}
      [] r[1] = "EXTENDED_API_SENDRECV" ->
            r[2] = "SUCCESS" => /\ <<entity[c], m[4], m[3]>> \in ExtCapability
                                /\ Len(r) = 4 => r[4] = m[5]
      [] r[1] \in {"STATUS_GET", "CLOSE"} -> Recvresp(r).retval = "SUCCESS"
      [] OTHER -> TRUE
-----------------------------------------------------------------------------
\* The state of every connection is one that the code can be in.
TypeOK ==
    /\ setup \in DOMAIN Setups
    /\ \A c \in Client :
          /\ conn[c].pc \in {"start", "opening", "reading", "stopping", "ended"}
          /\ conn[c].writer \in {"none", "running", "ended"}
          /\ conn[c].reference_count = (IF conn[c].pc = "ended" THEN 0 ELSE 1)
                                        + (IF conn[c].writer = "running" THEN 1 ELSE 0)
          /\ conn[c].released => conn[c].reference_count = 0
    /\ endpoint \in {"running", "ended"}
    /\ DOMAIN mailbox_context \subseteq Client
    /\ DOMAIN slots \subseteq Setups[setup].table
    /\ DOMAIN extended_api_dict \subseteq {entity[c] : c \in Client}

\* Every packet that is on its way to a client has the iv the client expects; it
\* is the only answer to a request that is pending there, at that request's
\* offset, and what it says is true of the block chain and permitted to the
\* client's entity (the codecs, the context patched into the request in
\* pde_decode_and_dispatch_req_dataservice_req, the extended API offsets).  Only
\* the refusal of an answer to an extended request is not at its offset: it is at
\* the high half of that offset, and some such answer is pending.
ResponsesAreTrue ==
    \A c \in Client : \A i \in DOMAIN down[c] :
        LET r == down[c][i].payload IN
        /\ down[c][i].iv = client[c].server_iv + i - 1
        /\ RefusedAnswer(r) =>
              \E m \in client[c].pending : m[1] = r[1] /\ HeaderOffset(m) = r[3]
        /\ r[1] # "EXTENDED_API_CLIENTREQ" /\ ~RefusedAnswer(r) =>
              /\ \E m \in client[c].pending : Answers(r, m) /\ TellsTruth(c, m, r)
              /\ \A j \in DOMAIN down[c] \ {i} :
                    \/ down[c][j].payload[1] = "EXTENDED_API_CLIENTREQ"
                    \/ RefusedAnswer(down[c][j].payload)
                    \/ down[c][j].payload[3] # r[3]

\* While the endpoint runs, its two trees are inverse to each other and name
\* exactly the contexts that the data service holds; a connection that is gone has
\* none, and one that reads has one with the capabilities of its entity, unless the
\* data service ran out of contexts.
ContextsMatchConnections ==
    endpoint = "running" /\ dataservice =>
        /\ DOMAIN context_mailbox = DOMAIN slots
        /\ {<<mailbox_context[c], c>> : c \in DOMAIN mailbox_context}
              = {<<s, context_mailbox[s]>> : s \in DOMAIN context_mailbox}
        /\ \A c \in Client :
              /\ conn[c].released => c \notin DOMAIN mailbox_context
              /\ conn[c].pc = "reading" =>
                    \/ c \in DOMAIN mailbox_context
                         /\ slots[mailbox_context[c]] = MapUserCapabilities(entity[c])
                    \/ c \notin DOMAIN mailbox_context /\ refused

\* An extended API request is routed to a connection of that entity that is still
\* there, and a connection that was told it offers the API is the one routed to.
RoutesAreLive ==
    /\ \A e \in DOMAIN extended_api_dict :
          LET c == extended_api_dict[e] IN
          entity[c] = e /\ conn[c].extended_api_enabled /\ conn[c].reference_count > 0
    /\ \A c \in Client :
          conn[c].extended_api_enabled /\ conn[c].reference_count > 0 =>
              entity[c] \in DOMAIN extended_api_dict /\ extended_api_dict[entity[c]] = c

\* Every request that the connection or the data service answers is answered, as
\* long as the endpoint runs and the client waits.
\* (protocolservice_dataservice_endpoint_fiber_entry, protocolservice_protocol_fiber_entry)
RequestsAnswered ==
    \A c \in Client :
        (\E m \in client[c].pending : Offset(m) = 0)
            ~> (\/ \A m \in client[c].pending : Offset(m) # 0
                \/ client[c].gone \/ conn[c].released \/ endpoint = "ended")

\* A connection whose client is gone is released: its mailboxes, its socket and
\* its child context.  (protocolservice_protocol_fiber_context_release)
ConnectionsReleased ==
    \A c \in Client : client[c].gone ~> (conn[c].released \/ endpoint = "ended")
=============================================================================
