----------------------------- MODULE Handshake -----------------------------
(***************************************************************************)
(* How a client gets a connection to the protocol service.  The            *)
(* supervisor gives the service its keys and authorised entities over the  *)
(* control socket; the listen service accepts a socket and passes it on;   *)
(* a fiber of the protocol service takes the handshake on it, with random  *)
(* bytes that the random endpoint fetches from the random service.         *)
(* (src/src/protocolservice, src/src/listenservice, src/src/randomservice, *)
(* src/src/supervisor/supervisor_create_protocol_service.c)                *)
(*                                                                         *)
(* A fiber runs until it waits for a socket or a mailbox, so what it does  *)
(* between two waits is one step.  A key pair is a model value; whoever    *)
(* holds one private and the other public key of two pairs gets the same   *)
(* secret.  What follows the handshake is in Sessions.                     *)
(***************************************************************************)
EXTENDS Naturals, Sequences, Functions

CONSTANTS
    Client,     \* the clients
    Setups,     \* keys and entities of the configuration, entity and key of each
                \* client, the number of its attempts, and the faults
    MaxAttempts,    \* bound on the attempts of a client
    None            \* no value

ASSUME AttemptsAssumption ==
    /\ MaxAttempts \in Nat
    /\ \A s \in Setups : \A c \in Client : s.attempts[c] \in 0..MaxAttempts

\* The absence of an error is none of the errors, each an id and a status.
ASSUME NoneAssumption ==
    None \notin {"NONE", "HANDSHAKE_INITIATE"}
                \X {"MALFORMED_REQUEST", "UNAUTHORIZED", "PRNG_REQUEST_FAILURE"}

VARIABLES
    setup,      \* one of Setups
    sup,        \* supervisor_start_protocol_service: requests made, its result
    control,    \* the control socket
    listener,   \* the listen service
    accepted,   \* descriptors on the way to the protocol service
    svc,        \* the protocol service: protocolservice_context and its fibers
    random,     \* the random endpoint and the random service
    conn,       \* protocolservice_protocol_fiber_context of each connection
    up, down,   \* packets to and from the service, for each connection
    client,     \* the clients
    sealed      \* history: encrypted packets, with their key and iv: those written to
                \* a socket, and those whose write failed

vars == <<setup, sup, control, listener, accepted, svc, random, conn, up, down, client, sealed>>

\* A connection is named by the client and the number of its attempt.
Desc == Client \X (1..MaxAttempts)

\* Stands for 2^63: the iv values of the two directions never meet.
HighBit == 1048576

\* vccrypt_key_agreement_short_term_secret_create
Secret(private_key, public_key, server_nonce, client_nonce) ==
    <<{private_key, public_key}, server_nonce, client_nonce>>
Mac(secret, m) == <<secret, m>>
Packet(secret, iv, m) == [key |-> secret, iv |-> iv, m |-> m]
-----------------------------------------------------------------------------
(* The control requests of the supervisor and their responses.             *)

SendreqPrivateKeySet(id, key) == <<"PRIVATE_KEY_SET", 0, id, key>>
SendreqAuthorizedEntityAdd(id, pubkey) == <<"AUTH_ENTITY_ADD", 0, id, pubkey>>
SendreqAuthorizedEntityCapabilityAdd(id, cap) == <<"AUTH_ENTITY_CAP_ADD", 0, id, cap>>

RecvrespControl(m, method) ==
    IF Len(m) # 3 THEN "UNEXPECTED_DATA_SIZE"
    ELSE IF m[1] # method THEN "UNEXPECTED_DATA_TYPE"
    ELSE m[3]
RecvrespPrivateKeySet(m) == RecvrespControl(m, "PRIVATE_KEY_SET")
RecvrespAuthorizedEntityAdd(m) == RecvrespControl(m, "AUTH_ENTITY_ADD")
RecvrespAuthorizedEntityCapabilityAdd(m) == RecvrespControl(m, "AUTH_ENTITY_CAP_ADD")

RecvrespOf(request, m) ==
    CASE request[1] = "PRIVATE_KEY_SET" -> RecvrespPrivateKeySet(m)
      [] request[1] = "AUTH_ENTITY_ADD" -> RecvrespAuthorizedEntityAdd(m)
      [] OTHER -> RecvrespAuthorizedEntityCapabilityAdd(m)

\* The key, then each entity followed by its capabilities.
StartRequests ==
    LET Requests[n \in 0..Len(setup.entities)] ==
            IF n = 0
            THEN <<SendreqPrivateKeySet(setup.id, setup.key)>>
            ELSE LET e == setup.entities[n] IN
                 Requests[n - 1]
                 \o <<SendreqAuthorizedEntityAdd(e.id, e.pubkey)>>
                 \o [j \in DOMAIN e.caps |-> SendreqAuthorizedEntityCapabilityAdd(e.id, e.caps[j])]
    IN  Requests[Len(setup.entities)]

SupervisorRequests ==
    /\ ~sup.waiting /\ sup.result = None
    /\ IF sup.sent = Len(StartRequests)
       THEN /\ sup' = [sup EXCEPT !.result = "SUCCESS"]
            /\ UNCHANGED control
       ELSE /\ sup' = [sup EXCEPT !.sent = @ + 1, !.waiting = TRUE]
            /\ control' = [control EXCEPT !.req = Append(@, StartRequests[sup.sent + 1])]
    /\ UNCHANGED <<setup, listener, accepted, svc, random, conn, up, down, client, sealed>>

SupervisorReads ==
    /\ sup.waiting
    /\ control.resp # <<>>
    /\ LET status == RecvrespOf(StartRequests[sup.sent], Head(control.resp)) IN
       sup' = [sup EXCEPT !.waiting = FALSE,
                          !.result = IF status = "SUCCESS" THEN None ELSE status]
    /\ control' = [control EXCEPT !.resp = Tail(@)]
    /\ UNCHANGED <<setup, listener, accepted, svc, random, conn, up, down, client, sealed>>

\* Sockets that nobody serves any more are closed.
Close(descs) == [d \in DOMAIN conn |->
                    IF d \in descs THEN [conn[d] EXCEPT !.pc = "closed"] ELSE conn[d]]

\* The supervisor does not close the ends that it has given to the protocol service:
\* while it lives, reads from their other ends do not fail and writes to them succeed,
\* whatever becomes of the service, and descriptors on the way to it stay open.
Outlived(descs) == IF control.open THEN {} ELSE Range(descs)
Undelivered(descs) == IF control.open THEN descs ELSE <<>>
Accepts == svc.pc = "starting" \/ svc.accepting

\* The supervisor dies, and its ends of all sockets are closed.
SupervisorGone ==
    /\ "supervisor" \in setup.faults
    /\ control.open
    /\ control' = [control EXCEPT !.open = FALSE]
    /\ sup' = [sup EXCEPT !.waiting = FALSE, !.result = "GONE"]
    /\ conn' = Close(IF Accepts THEN {} ELSE Range(accepted))
    /\ accepted' = IF Accepts THEN accepted ELSE <<>>
    /\ UNCHANGED <<setup, listener, svc, random, up, down, client, sealed>>
-----------------------------------------------------------------------------
(* The control fiber.                                                      *)

ControlResponse(method, status) == <<<<method, 0, status>>>>

\* Result of a request: the service after it, the responses written, and whether the
\* fiber goes on.
Dispatched(s, resp, ok) == [svc |-> s, resp |-> resp, ok |-> ok]

ControlPrivateKeySet(m) ==
    IF Len(m) < 4
    THEN Dispatched(svc, ControlResponse("PRIVATE_KEY_SET", "REQUEST_PACKET_INVALID_SIZE"), FALSE)
    ELSE Dispatched([svc EXCEPT !.id = m[3], !.key = m[4], !.private_key_set = TRUE],
                    ControlResponse("PRIVATE_KEY_SET", "SUCCESS"), TRUE)

\* A second entity with the same id is refused, as rbtree_insert fails.
AuthorizedEntityAdd(entities, id, pubkey) ==
    IF id \in DOMAIN entities THEN entities
    ELSE [i \in DOMAIN entities \union {id} |->
            IF i = id THEN [pubkey |-> pubkey, capabilities |-> {}] ELSE entities[i]]

ControlAuthEntityAdd(m) ==
    IF Len(m) < 4
    THEN Dispatched(svc, ControlResponse("AUTH_ENTITY_ADD", "REQUEST_PACKET_INVALID_SIZE"), FALSE)
    ELSE LET table == AuthorizedEntityAdd(svc.entities, m[3], m[4]) IN
         IF table = svc.entities
         THEN Dispatched(svc, ControlResponse("AUTH_ENTITY_ADD", "RBTREE_DUPLICATE"), TRUE)
         ELSE Dispatched([svc EXCEPT !.entities = table],
                         ControlResponse("AUTH_ENTITY_ADD", "SUCCESS"), TRUE)

\* An unknown entity and a capability that is already there end the fiber without a
\* response.
ControlAuthEntityCapabilityAdd(m) ==
    IF Len(m) < 4
    THEN Dispatched(svc, ControlResponse("AUTH_ENTITY_CAP_ADD", "REQUEST_PACKET_INVALID_SIZE"), FALSE)
    ELSE IF m[3] \notin DOMAIN svc.entities \/ m[4] \in svc.entities[m[3]].capabilities
    THEN Dispatched(svc, <<>>, FALSE)
    ELSE Dispatched([svc EXCEPT !.entities[m[3]].capabilities = @ \union {m[4]}],
                    ControlResponse("AUTH_ENTITY_CAP_ADD", "SUCCESS"), TRUE)

\* The fiber ends after the response, and the service goes on.
ControlFinalize(m) ==
    Dispatched([svc EXCEPT !.controlling = FALSE], ControlResponse("FINALIZE", "SUCCESS"), TRUE)

ControlDecodeAndDispatch(m) ==
    IF m = <<>> THEN Dispatched(svc, <<>>, FALSE)
    ELSE CASE m[1] = "PRIVATE_KEY_SET" -> ControlPrivateKeySet(m)
           [] m[1] = "AUTH_ENTITY_ADD" -> ControlAuthEntityAdd(m)
           [] m[1] = "AUTH_ENTITY_CAP_ADD" -> ControlAuthEntityCapabilityAdd(m)
           [] m[1] = "FINALIZE" -> ControlFinalize(m)
           [] OTHER -> Dispatched(svc, ControlResponse(m[1], "REQUEST_PACKET_BAD"), FALSE)

\* Faulty variant: the control fiber ends and the service goes on.
ForceExitQuiet(s) == [s EXCEPT !.controlling = FALSE]

\* The main fiber is told to terminate; it exits when its turn comes.
ForceExit(s) == [s EXCEPT !.controlling = FALSE, !.pc = "exiting"]

Serving == svc.pc \in {"running", "exiting"}

ControlFiber ==
    /\ Serving /\ svc.controlling
    /\ control.req # <<>>
    /\ LET r == ControlDecodeAndDispatch(Head(control.req)) IN
       /\ svc' = IF r.ok THEN r.svc ELSE ForceExit(r.svc)
       /\ control' = [control EXCEPT !.req = Tail(@), !.resp = @ \o r.resp]
    /\ UNCHANGED <<setup, sup, listener, accepted, random, conn, up, down, client, sealed>>

ControlReadFails ==
    /\ Serving /\ svc.controlling
    /\ control.req = <<>> /\ ~control.open
    /\ svc' = ForceExit(svc)
    /\ UNCHANGED <<setup, sup, control, listener, accepted, random, conn, up, down, client, sealed>>
-----------------------------------------------------------------------------
(* The listen service: a fiber that accepts, and an endpoint that passes    *)
(* the descriptors on.  Each looks at its quiesce flag after the next       *)
(* descriptor only.                                                         *)

ListenFiberAdd(l) == [l EXCEPT !.listening = TRUE]
AcceptEndpointFiberAdd(l) == [l EXCEPT !.endpoint = TRUE]
ListenserviceEventLoop ==
    AcceptEndpointFiberAdd(ListenFiberAdd(
        [pc |-> "running", listening |-> FALSE, listen_quiesce |-> FALSE, backlog |-> <<>>,
         endpoint |-> FALSE, accept_quiesce |-> FALSE, box |-> <<>>]))

InBacklog == Range(listener.backlog)
InBox == Range(listener.box)

ListenFiberContextRelease == [listener EXCEPT !.listening = FALSE, !.backlog = <<>>]
AcceptEndpointContextRelease == [listener EXCEPT !.endpoint = FALSE, !.box = <<>>]

ListenFiber ==
    /\ listener.listening /\ listener.backlog # <<>>
    /\ LET desc == Head(listener.backlog) IN
       IF listener.listen_quiesce \/ ~listener.endpoint
       THEN /\ listener' = ListenFiberContextRelease
            /\ conn' = Close(InBacklog)
       ELSE /\ listener' = [listener EXCEPT !.backlog = Tail(@), !.box = Append(@, desc)]
            /\ UNCHANGED conn
    /\ UNCHANGED <<setup, sup, control, accepted, svc, random, up, down, client, sealed>>

ListenAcceptEndpoint ==
    /\ listener.endpoint /\ listener.box # <<>>
    /\ LET desc == Head(listener.box)
           sent == control.open \/ Accepts
           done == ~sent \/ listener.accept_quiesce
       IN  /\ accepted' = IF sent THEN Append(accepted, desc) ELSE accepted
           /\ listener' = IF done THEN AcceptEndpointContextRelease
                          ELSE [listener EXCEPT !.box = Tail(@)]
           /\ conn' = Close((IF done THEN InBox ELSE {}) \ (IF sent THEN {desc} ELSE {}))
    /\ UNCHANGED <<setup, sup, control, svc, random, up, down, client, sealed>>

ListenFiberUnexpectedHandler(l) == [l EXCEPT !.listen_quiesce = TRUE]
AcceptEndpointUnexpectedHandler(l) == [l EXCEPT !.accept_quiesce = TRUE]

\* The signal thread announces the end, waits a little, and asks for it.
ListenQuiesce ==
    /\ "stop" \in setup.faults
    /\ listener.pc = "running" /\ ~listener.listen_quiesce
    /\ listener' = ListenFiberUnexpectedHandler(AcceptEndpointUnexpectedHandler(listener))
    /\ UNCHANGED <<setup, sup, control, accepted, svc, random, conn, up, down, client, sealed>>

ListenTerminate ==
    /\ listener.pc = "running" /\ listener.listen_quiesce
    /\ listener' = [listener EXCEPT !.pc = "exited", !.listening = FALSE, !.endpoint = FALSE,
                                    !.backlog = <<>>, !.box = <<>>]
    /\ conn' = Close(InBacklog \union InBox)
    /\ UNCHANGED <<setup, sup, control, accepted, svc, random, up, down, client, sealed>>
-----------------------------------------------------------------------------
(* The protocol service: start, accept fiber, stop.                         *)

ControlFiberAdd(s) == [s EXCEPT !.controlling = TRUE]
AcceptFiberAdd(s) == [s EXCEPT !.accepting = TRUE]
RandomserviceEndpointAdd ==
    [pc |-> "running", box |-> <<>>, pending |-> None, mail |-> [d \in Desc |-> None],
     req |-> <<>>, resp |-> <<>>, service |-> "running", given |-> 0, failed |-> FALSE]
ContextCreate ==
    [pc |-> "starting", quiesce |-> FALSE, id |-> None, key |-> None, private_key_set |-> FALSE,
     entities |-> [i \in {} |-> None], controlling |-> FALSE, accepting |-> FALSE]

\* Every fiber is there before the main fiber waits for the first time.
ProtocolserviceRun ==
    /\ svc.pc = "starting"
    /\ svc' = [AcceptFiberAdd(ControlFiberAdd(ContextCreate)) EXCEPT !.pc = "running"]
    /\ UNCHANGED <<setup, sup, control, listener, accepted, random, conn, up, down, client, sealed>>

\* The service has exited: what it held is closed.
Exited == [svc EXCEPT !.pc = "exited", !.controlling = FALSE, !.accepting = FALSE]
Held == {d \in DOMAIN conn : conn[d].pc \in {"start", "request", "random", "ack", "data"}}
                \union Outlived(accepted)

\* One of the calls that add an endpoint or a fiber has failed.
ProtocolserviceRunFails ==
    /\ "start" \in setup.faults
    /\ svc.pc = "starting"
    /\ svc' = Exited
    /\ conn' = Close(Held)
    /\ accepted' = Undelivered(accepted)
    /\ random' = [random EXCEPT !.pc = "ended"]
    /\ UNCHANGED <<setup, sup, control, listener, up, down, client, sealed>>

AcceptFiber ==
    /\ Serving /\ svc.accepting /\ accepted # <<>>
    /\ \E added \in {TRUE} \union {FALSE : f \in setup.faults \intersect {"memory"}} :
       LET desc == Head(accepted)
           next == [conn EXCEPT ![desc].pc = IF added THEN "start" ELSE "closed"]
       IN  IF svc.quiesce
           THEN /\ svc' = [svc EXCEPT !.accepting = FALSE]
                /\ conn' = [d \in DOMAIN conn |->
                              IF d \in Outlived(Tail(accepted)) THEN [next[d] EXCEPT !.pc = "closed"]
                              ELSE next[d]]
                /\ accepted' = Undelivered(Tail(accepted))
           ELSE /\ conn' = next
                /\ accepted' = Tail(accepted)
                /\ UNCHANGED svc
    /\ UNCHANGED <<setup, sup, control, listener, random, up, down, client, sealed>>

\* A signal, for all fibers; the supervisor sends one if the start has failed.
Quiesce ==
    /\ "stop" \in setup.faults \/ sup.result \notin {None, "SUCCESS", "GONE"}
    /\ svc.pc = "running" /\ ~svc.quiesce
    /\ svc' = [svc EXCEPT !.quiesce = TRUE]
    /\ UNCHANGED <<setup, sup, control, listener, accepted, random, conn, up, down, client, sealed>>

\* Encrypted if the secret is known by then.  A peer that has left gets nothing.
Answered(d, m) == IF client[d[1]].conn = d THEN [down EXCEPT ![d] = Append(@, m)] ELSE down
WriteErrorResponse(d, id, status) == Answered(d, <<id, status, 0>>)
AuthedError(d) == Packet(conn[d].secret, conn[d].server_iv, <<"NONE", "MALFORMED_REQUEST", 0>>)

\* Results of a write.  It may fail if the peer has left, or for lack of memory.
WriteResults(d) ==
    {TRUE} \union {b \in {FALSE} : client[d[1]].conn # d \/ "memory" \in setup.faults}
Sealed(s, p, written) ==
    [sent |-> IF written THEN s.sent \union {p} ELSE s.sent,
     unsent |-> IF written THEN s.unsent ELSE s.unsent \union {p}]

\* A fiber that is told to terminate writes an error response if it waits for random
\* bytes or for the acknowledgement.
LastWords(told) ==
    [d \in DOMAIN conn |->
        IF d \notin told \/ client[d[1]].conn # d
        THEN down[d]
        ELSE CASE conn[d].pc = "random" ->
                      Append(down[d], <<"HANDSHAKE_INITIATE", "PRNG_REQUEST_FAILURE", 0>>)
               [] conn[d].pc = "ack" -> Append(down[d], AuthedError(d))
               [] OTHER -> down[d]]

Exit(told) ==
    /\ svc' = Exited
    /\ down' = LastWords(told)
    /\ LET last == {d \in told : conn[d].pc = "ack"}
           here == {d \in last : client[d[1]].conn = d}
       IN  sealed' = [sent |-> sealed.sent \union {AuthedError(d) : d \in here},
                      unsent |-> sealed.unsent \union {AuthedError(d) : d \in last \ here}]
    /\ conn' = Close(Held)
    /\ accepted' = Undelivered(accepted)
    /\ random' = [random EXCEPT !.pc = "ended"]
    /\ UNCHANGED <<setup, sup, control, listener, up, client>>

\* The main fiber tells all fibers and exits; some have had their turn by then.
Terminate ==
    /\ svc.pc = "running" /\ svc.quiesce
    /\ \E told \in SUBSET {d \in DOMAIN conn : conn[d].pc \in {"random", "ack"}} : Exit(told)

MainExits ==
    /\ svc.pc = "exiting"
    /\ Exit({})
-----------------------------------------------------------------------------
(* The random endpoint and the random service.                              *)

SendreqRandomBytesGet(count) == <<"GET_RANDOM_BYTES", 0, count>>
RandomResponse(status, bytes) == <<"GET_RANDOM_BYTES", 0, status>> \o bytes
RecvrespRandomBytesGet(m) ==
    IF Len(m) < 3 \/ m[1] # "GET_RANDOM_BYTES" \/ m[3] # "SUCCESS" \/ Len(m) = 3
    THEN None
    ELSE SubSeq(m, 4, Len(m))

\* The mailbox is closed with the requests in it, and so is the socket.
RandomEndpointContextRelease == [random EXCEPT !.pc = "ended", !.box = <<>>, !.pending = None]

RandomEndpointReceives ==
    /\ Serving /\ random.pc = "running" /\ random.pending = None /\ random.box # <<>>
    /\ random' = IF random.service = "running"
                 THEN [random EXCEPT !.pending = Head(random.box), !.box = Tail(@),
                                     !.req = Append(@, SendreqRandomBytesGet(2))]
                 ELSE RandomEndpointContextRelease
    /\ UNCHANGED <<setup, sup, control, listener, accepted, svc, conn, up, down, client, sealed>>

\* A reply to a mailbox that is closed ends the endpoint.
RandomEndpointReplies ==
    /\ Serving /\ random.pc = "running" /\ random.pending # None
    /\ random.resp # <<>> \/ random.service = "exited"
    /\ LET bytes == IF random.resp = <<>> THEN None ELSE RecvrespRandomBytesGet(Head(random.resp)) IN
       random' = IF bytes = None \/ conn[random.pending].pc # "random"
                 THEN RandomEndpointContextRelease
                 ELSE [random EXCEPT !.mail[random.pending] = bytes, !.pending = None,
                                     !.resp = Tail(@)]
    /\ UNCHANGED <<setup, sup, control, listener, accepted, svc, conn, up, down, client, sealed>>

MaxRandomBytes == 1024

\* The service reads its device; bytes are numbered in the order in which they are read,
\* a nonce each.  The device may give fewer bytes than it is asked for.
GetRandomBytes(m, enough) ==
    IF Len(m) # 3 THEN RandomResponse("REQUEST_PACKET_INVALID_SIZE", <<>>)
    ELSE IF m[3] = 0 \/ m[3] > MaxRandomBytes
    THEN RandomResponse("GET_RANDOM_BYTES_INVALID_SIZE", <<>>)
    ELSE IF ~enough THEN RandomResponse("GET_RANDOM_BYTES_READ_FAILED", <<>>)
    ELSE RandomResponse("SUCCESS", [i \in 1..m[3] |-> random.given + i])

\* A request that is answered with an error ends the service only if it is unknown.
RandomserviceDecodeAndDispatch(m, enough) ==
    IF m[1] = "GET_RANDOM_BYTES"
    THEN [resp |-> GetRandomBytes(m, enough), ok |-> TRUE]
    ELSE [resp |-> <<m[1], 0, "REQUEST_PACKET_BAD">>, ok |-> FALSE]

RandomService ==
    /\ random.service = "running" /\ random.req # <<>>
    /\ \E enough \in {TRUE} \union {FALSE : f \in setup.faults \intersect {"random"}} :
       LET m == Head(random.req)
           r == RandomserviceDecodeAndDispatch(m, enough)
       IN  random' = [random EXCEPT !.req = Tail(@), !.resp = Append(@, r.resp),
                                    !.given = @ + m[3], !.failed = @ \/ ~enough,
                                    !.service = IF r.ok THEN "running" ELSE "exited"]
    /\ UNCHANGED <<setup, sup, control, listener, accepted, svc, conn, up, down, client, sealed>>

\* The random service dies, or both holders of the other end of its socket are gone.
RandomServiceExits ==
    /\ random.service = "running"
    /\ "random" \in setup.faults \/ (random.pc = "ended" /\ ~control.open)
    /\ random' = [random EXCEPT !.service = "exited", !.failed = @ \/ random.pc = "running"]
    /\ UNCHANGED <<setup, sup, control, listener, accepted, svc, conn, up, down, client, sealed>>
-----------------------------------------------------------------------------
(* The handshake, on the side of the protocol service.                      *)

FiberAdd ==
    [pc |-> "none", entity |-> None, client_key_nonce |-> None, client_challenge_nonce |-> None,
     server_key_nonce |-> None, server_challenge_nonce |-> None, secret |-> None,
     client_iv |-> 0, server_iv |-> 0]

Left(d) == up[d] = <<>> /\ client[d[1]].conn # d

\* Faulty variant: a connection that comes too early is forgotten.
HandleHandshakeForgets(d) == [conn[d] EXCEPT !.pc = IF svc.private_key_set THEN "request" ELSE "lost"]

\* Without a key the connection is closed, and nothing is read or written.
HandleHandshake(d) == [conn[d] EXCEPT !.pc = IF svc.private_key_set THEN "request" ELSE "closed"]

FiberStarts(d) ==
    /\ Serving /\ conn[d].pc = "start"
    /\ conn' = [conn EXCEPT ![d] = HandleHandshake(d)]
    /\ UNCHANGED <<setup, sup, control, listener, accepted, svc, random, up, down, client, sealed>>

\* The first thing that is wrong with the request, as an id and a status.
HandshakeReqError(m) ==
    IF Len(m) # 7 \/ m[1] # "HANDSHAKE_INITIATE" THEN <<"NONE", "MALFORMED_REQUEST">>
    ELSE IF m[2] # 0 \/ m[3] # 1 \/ m[4] # "VELO_V1"
    THEN <<"HANDSHAKE_INITIATE", "MALFORMED_REQUEST">>
    ELSE None

AuthorizedEntityLookup(id) ==
    IF id \in DOMAIN svc.entities THEN None ELSE <<"HANDSHAKE_INITIATE", "UNAUTHORIZED">>

\* The request for random bytes cannot be sent.
RandomEndpointError ==
    IF random.pc = "running" THEN None ELSE <<"HANDSHAKE_INITIATE", "PRNG_REQUEST_FAILURE">>

\* Reads the request, looks the entity up and asks for random bytes.
ReadHandshakeReq(d) ==
    /\ Serving /\ conn[d].pc = "request" /\ up[d] # <<>>
    /\ LET m == Head(up[d])
           error == IF HandshakeReqError(m) # None THEN HandshakeReqError(m)
                    ELSE IF AuthorizedEntityLookup(m[5]) # None THEN AuthorizedEntityLookup(m[5])
                    ELSE RandomEndpointError
       IN  IF error # None
           THEN /\ down' = WriteErrorResponse(d, error[1], error[2])
                /\ conn' = [conn EXCEPT ![d].pc = "closed"]
                /\ UNCHANGED random
           ELSE /\ conn' = [conn EXCEPT ![d].pc = "random", ![d].entity = m[5],
                                ![d].client_key_nonce = m[6], ![d].client_challenge_nonce = m[7]]
                /\ random' = [random EXCEPT !.box = Append(@, d)]
                /\ UNCHANGED down
    /\ up' = [up EXCEPT ![d] = Tail(@)]
    /\ UNCHANGED <<setup, sup, control, listener, accepted, svc, client, sealed>>

\* The client has closed the connection.  A fiber that waits for the acknowledgement
\* writes an error response nevertheless.
ReadFails(d) ==
    /\ Serving /\ conn[d].pc \in {"request", "ack"} /\ Left(d)
    /\ conn' = [conn EXCEPT ![d].pc = "closed"]
    /\ \E written \in WriteResults(d) :
          sealed' = IF conn[d].pc = "ack" THEN Sealed(sealed, AuthedError(d), written) ELSE sealed
    /\ UNCHANGED <<setup, sup, control, listener, accepted, svc, random, up, down, client>>

\* Faulty variant: both directions count from one.
ComputeSharedSecretSameIv(cn) ==
    [cn EXCEPT !.client_iv = 1, !.server_iv = 1,
        !.secret = Secret(svc.key, svc.entities[cn.entity].pubkey, cn.server_key_nonce, cn.client_key_nonce)]

ComputeSharedSecret(cn) ==
    [cn EXCEPT !.client_iv = 1, !.server_iv = HighBit + 1,
        !.secret = Secret(svc.key, svc.entities[cn.entity].pubkey, cn.server_key_nonce, cn.client_key_nonce)]

HandshakeReqResp(cn) ==
    LET payload == <<"HANDSHAKE_INITIATE", "SUCCESS", 0, 1, "VELO_V1", svc.id, svc.key,
                     cn.server_key_nonce, cn.server_challenge_nonce>>
    IN  Append(payload, Mac(cn.secret, Append(payload, cn.client_challenge_nonce)))

\* Random bytes have arrived: the challenge nonce comes first.
ReadRandomBytes(d) ==
    /\ Serving /\ conn[d].pc = "random" /\ random.mail[d] # None
    /\ \E written \in WriteResults(d) :
       LET bytes == random.mail[d]
           cn == ComputeSharedSecret([conn[d] EXCEPT !.server_challenge_nonce = bytes[1],
                                                     !.server_key_nonce = bytes[2]])
       IN  /\ conn' = [conn EXCEPT ![d] = [cn EXCEPT !.pc = IF written THEN "ack" ELSE "closed"]]
           /\ down' = IF written THEN Answered(d, HandshakeReqResp(cn))
                      ELSE WriteErrorResponse(d, "HANDSHAKE_INITIATE", "UNAUTHORIZED")
    /\ random' = [random EXCEPT !.mail[d] = None]
    /\ UNCHANGED <<setup, sup, control, listener, accepted, svc, up, client, sealed>>

\* Faulty variant: the iv of the response is used again for the next packet.
WriteHandshakeAckRespSameIv(cn) == cn

WriteHandshakeAckResp(cn) == [cn EXCEPT !.server_iv = @ + 1]

\* A packet that is not encrypted with this secret and iv is answered by an error, and
\* so is a response that could not be written, with the iv of the response.
AckValid(d) == Head(up[d]).key = conn[d].secret /\ Head(up[d]).iv = conn[d].client_iv
AckResp(d, status) ==
    Packet(conn[d].secret, conn[d].server_iv, <<"HANDSHAKE_ACKNOWLEDGE", status, 0>>)
AckError(d) == IF AckValid(d) THEN AckResp(d, "WRITE_FAILED") ELSE AuthedError(d)

Acknowledges(d) ==
    /\ AckValid(d)
    /\ down' = Answered(d, AckResp(d, "SUCCESS"))
    /\ sealed' = Sealed(sealed, AckResp(d, "SUCCESS"), TRUE)
    /\ conn' = [conn EXCEPT ![d] =
          [WriteHandshakeAckResp(conn[d]) EXCEPT !.client_iv = @ + 1, !.pc = "data"]]

AcknowledgeFails(d, reported) ==
    /\ down' = IF reported THEN Answered(d, AckError(d)) ELSE down
    /\ sealed' = Sealed(IF AckValid(d) THEN Sealed(sealed, AckResp(d, "SUCCESS"), FALSE) ELSE sealed,
                        AckError(d), reported)
    /\ conn' = [conn EXCEPT ![d].pc = "closed"]

ReadHandshakeAckReq(d) ==
    /\ Serving /\ conn[d].pc = "ack" /\ up[d] # <<>>
    /\ \E written, reported \in WriteResults(d) :
          IF AckValid(d) /\ written THEN Acknowledges(d) ELSE AcknowledgeFails(d, reported)
    /\ up' = [up EXCEPT ![d] = Tail(@)]
    /\ UNCHANGED <<setup, sup, control, listener, accepted, svc, random, client>>

\* The connection is served by Sessions from here on; it ends when the client leaves.
DataFiberEnds(d) ==
    /\ Serving /\ conn[d].pc = "data" /\ Left(d)
    /\ conn' = [conn EXCEPT ![d].pc = "closed"]
    /\ UNCHANGED <<setup, sup, control, listener, accepted, svc, random, up, down, client, sealed>>
-----------------------------------------------------------------------------
(* The clients.                                                              *)

NewClient ==
    [pc |-> "idle", conn |-> None, made |-> 0, secret |-> None, client_iv |-> 0, server_iv |-> 0]

\* The nonces of an attempt; the client reads them from its own generator.
KeyNonce(d) == <<"key", d>>
ChallengeNonce(d) == <<"challenge", d>>

SendreqHandshakeRequest(d) ==
    <<"HANDSHAKE_INITIATE", 0, setup.client[d[1]].version, "VELO_V1", setup.client[d[1]].id,
      KeyNonce(d), ChallengeNonce(d)>>

Connect(c) ==
    LET d == <<c, client[c].made + 1>> IN
    /\ client[c].pc = "idle" /\ client[c].made < setup.attempts[c]
    /\ listener.listening
    /\ listener' = [listener EXCEPT !.backlog = Append(@, d)]
    /\ conn' = [conn EXCEPT ![d].pc = "queued"]
    /\ up' = [up EXCEPT ![d] = <<SendreqHandshakeRequest(d)>>]
    /\ client' = [client EXCEPT ![c].pc = "request", ![c].conn = d, ![c].made = @ + 1]
    /\ UNCHANGED <<setup, sup, control, accepted, svc, random, down, sealed>>

\* The shared secret, or None if the response is not what it should be.
RecvrespHandshakeRequest(d, m) ==
    LET secret == Secret(setup.client[d[1]].key, m[7], m[8], KeyNonce(d)) IN
    IF \/ Len(m) < 3 \/ m[2] # "SUCCESS"
       \/ Len(m) # 10 \/ m[4] # 1 \/ m[5] # "VELO_V1"
       \/ m[10] # Mac(secret, Append(SubSeq(m, 1, 9), ChallengeNonce(d)))
    THEN None
    ELSE secret

SendreqHandshakeAck(secret, m) == Packet(secret, 1, Mac(secret, m[9]))

\* The client closes its end and may try again.
GivesUp(c) == [client EXCEPT ![c] = [NewClient EXCEPT !.made = client[c].made]]

ClientReadsResponse(c) ==
    LET d == client[c].conn
        secret == RecvrespHandshakeRequest(d, Head(down[d]))
        ack == SendreqHandshakeAck(secret, Head(down[d]))
    IN  /\ client[c].pc = "request" /\ down[d] # <<>>
        /\ IF secret = None
           THEN /\ client' = GivesUp(c)
                /\ UNCHANGED <<up, sealed>>
           ELSE /\ client' = [client EXCEPT ![c].pc = "ack", ![c].secret = secret,
                                            ![c].client_iv = 2]
                /\ up' = [up EXCEPT ![d] = Append(@, ack)]
                /\ sealed' = Sealed(sealed, ack, TRUE)
        /\ down' = [down EXCEPT ![d] = Tail(@)]
        /\ UNCHANGED <<setup, sup, control, listener, accepted, svc, random, conn>>

RecvrespHandshakeAck(c, p) ==
    /\ p.key = client[c].secret /\ p.iv = HighBit + 1
    /\ Len(p.m) = 3 /\ p.m[1] = "HANDSHAKE_ACKNOWLEDGE" /\ p.m[2] = "SUCCESS"

ClientReadsAck(c) ==
    LET d == client[c].conn IN
    /\ client[c].pc = "ack" /\ down[d] # <<>>
    /\ client' = IF RecvrespHandshakeAck(c, Head(down[d]))
                 THEN [client EXCEPT ![c].pc = "done", ![c].server_iv = HighBit + 2]
                 ELSE GivesUp(c)
    /\ down' = [down EXCEPT ![d] = Tail(@)]
    /\ UNCHANGED <<setup, sup, control, listener, accepted, svc, random, conn, up, sealed>>

\* The service has closed the connection.
ClientReadFails(c) ==
    /\ client[c].pc \in {"request", "ack", "done"}
    /\ down[client[c].conn] = <<>> /\ conn[client[c].conn].pc = "closed"
    /\ client' = GivesUp(c)
    /\ UNCHANGED <<setup, sup, control, listener, accepted, svc, random, conn, up, down, sealed>>

Leave(c) ==
    /\ "leave" \in setup.faults
    /\ client[c].pc \in {"request", "ack", "done"}
    /\ client' = GivesUp(c)
    /\ UNCHANGED <<setup, sup, control, listener, accepted, svc, random, conn, up, down, sealed>>
-----------------------------------------------------------------------------
Init ==
    /\ setup \in Setups
    /\ sup = [sent |-> 0, waiting |-> FALSE, result |-> None]
    /\ control = [open |-> TRUE, req |-> <<>>, resp |-> <<>>]
    /\ listener = ListenserviceEventLoop
    /\ accepted = <<>>
    /\ svc = ContextCreate
    /\ random = RandomserviceEndpointAdd
    /\ conn = [d \in Desc |-> FiberAdd]
    /\ up = [d \in Desc |-> <<>>]
    /\ down = [d \in Desc |-> <<>>]
    /\ client = [c \in Client |-> NewClient]
    /\ sealed = [sent |-> {}, unsent |-> {}]

SupervisorStep == SupervisorRequests \/ SupervisorReads
ControlStep == ControlFiber \/ ControlReadFails
MainStep == ProtocolserviceRun \/ Terminate \/ MainExits
RandomEndpoint == RandomEndpointReceives \/ RandomEndpointReplies
Fiber(d) ==
    \/ FiberStarts(d) \/ ReadHandshakeReq(d) \/ ReadFails(d) \/ ReadRandomBytes(d)
    \/ ReadHandshakeAckReq(d) \/ DataFiberEnds(d)
ClientReads(c) == ClientReadsResponse(c) \/ ClientReadsAck(c) \/ ClientReadFails(c)

Next ==
    \/ SupervisorStep \/ SupervisorGone \/ ControlStep
    \/ ListenFiber \/ ListenAcceptEndpoint \/ ListenQuiesce \/ ListenTerminate
    \/ MainStep \/ ProtocolserviceRunFails \/ AcceptFiber \/ Quiesce
    \/ RandomEndpoint \/ RandomService \/ RandomServiceExits
    \/ \E d \in Desc : Fiber(d)
    \/ \E c \in Client : Connect(c) \/ ClientReads(c) \/ Leave(c)

Spec == Init /\ [][Next]_vars

\* Processes run, fibers get their turn, sockets that are readable are read; nobody has
\* to connect, to leave, or to fail.
FairSpec ==
    /\ Spec
    /\ WF_vars(SupervisorStep) /\ WF_vars(ControlStep) /\ WF_vars(AcceptFiber) /\ WF_vars(MainStep)
    /\ WF_vars(ListenFiber) /\ WF_vars(ListenAcceptEndpoint) /\ WF_vars(ListenTerminate)
    /\ WF_vars(RandomEndpoint) /\ WF_vars(RandomService)
    /\ \A d \in Desc : WF_vars(Fiber(d))
    /\ \A c \in Client : WF_vars(ClientReads(c))
-----------------------------------------------------------------------------
Key == {setup.key} \union {setup.client[c].key : c \in Client}

TypeOK ==
    /\ sup.sent \in 0..Len(StartRequests) /\ sup.waiting \in BOOLEAN
    /\ listener.pc \in {"running", "exited"}
    /\ svc.pc \in {"starting", "running", "exiting", "exited"}
    /\ svc.private_key_set => svc.key \in Key
    /\ \A d \in Desc :
        /\ conn[d].pc \in {"none", "queued", "start", "request", "random", "ack", "data", "closed"}
        /\ conn[d].client_iv \in {0, 1, 2}
        /\ conn[d].server_iv \in {0, HighBit + 1, HighBit + 2}
    /\ random.pc \in {"running", "ended"} /\ random.pending \in Desc \union {None}
    /\ \A c \in Client :
        /\ client[c].pc \in {"idle", "request", "ack", "done"}
        /\ client[c].pc # "idle" => client[c].conn \in Desc

\* When a client has finished its handshake, the service has finished it too, with the
\* same secret and the same next iv in both directions, for the entity of the client,
\* however many handshakes share the random endpoint.
\* (protocolservice_protocol_handle_handshake)
PeersAgree ==
    \A c \in Client :
        client[c].pc = "done" =>
            LET cn == conn[client[c].conn] IN
            /\ cn.pc \in {"data", "closed"}
            /\ cn.secret = client[c].secret
            /\ cn.client_iv = client[c].client_iv /\ cn.server_iv = client[c].server_iv
            /\ cn.entity = setup.client[c].id
            /\ svc.entities[cn.entity].pubkey = setup.client[c].key

\* No key and iv encrypt two different packets that are written, of whichever direction
\* or connection.  A response that could not be written is followed by an error under its
\* iv; no connection that goes on has the key of such a response.
\* (protocolservice_compute_shared_secret, protocolservice_protocol_write_handshake_ack_resp)
IvUsedOnce ==
    /\ \A p, q \in sealed.sent : p.key = q.key /\ p.iv = q.iv => p = q
    /\ \A p \in sealed.unsent : \A d \in Desc :
          conn[d].pc \in {"ack", "data"} => conn[d].secret # p.key

\* If the supervisor takes the start for a success, the service has the configured key,
\* and the configured entities with their capabilities.
\* (supervisor_start_protocol_service)
StartedAsConfigured ==
    sup.result = "SUCCESS" =>
        /\ svc.private_key_set /\ svc.key = setup.key
        /\ DOMAIN svc.entities = {setup.entities[i].id : i \in DOMAIN setup.entities}
        /\ \A i \in DOMAIN setup.entities :
            LET e == setup.entities[i] IN
            svc.entities[e.id] = [pubkey |-> e.pubkey, capabilities |-> Range(e.caps)]

\* The start of the service ends in the supervisor, with a result, or the service is gone,
\* also if it refuses a request without an answer.  A supervisor whose service is gone may
\* wait for its response for good.  (protocolservice_control_fiber_entry)
StartEnds == <>(sup.result # None \/ svc.pc = "exited")

\* A client that waits in its handshake gets a connection or sees its connection closed,
\* unless its random bytes were asked for when the random service failed, or its
\* descriptor was on the way when the accept fiber ended.
\* (protocolservice_protocol_fiber_entry, protocolservice_random_endpoint_fiber_entry,
\* protocolservice_accept_fiber_entry)
HandshakesEnd ==
    \A c \in Client :
        client[c].pc \in {"request", "ack"}
            ~> \/ client[c].pc \in {"idle", "done"}
               \/ /\ random.failed /\ random.pc = "ended"
                  /\ conn[client[c].conn].pc = "random"
               \/ /\ client[c].conn \in Range(accepted)
                  /\ control.open /\ ~Accepts
=============================================================================
