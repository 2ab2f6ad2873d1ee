--------------------------- MODULE HandshakeProofs ---------------------------
(***************************************************************************)
(* A client and the fiber that serves it agree at the end of a handshake,  *)
(* and no two packets are sent under one key and iv, for any number of     *)
(* clients, connections and entities.                                      *)
(*                                                                         *)
(* Neither follows by itself.  That both ends agree rests on which packet  *)
(* can be on its way in which state of fiber and client; that no iv is     *)
(* used twice rests on the nonce in the key, which names the connection,   *)
(* on each end of a connection sending once under the first iv, and on the *)
(* end of the connection once a write has failed.  A descriptor must also  *)
(* not reach two fibers: it is at one place between the listen service and *)
(* the fiber it is for.                                                    *)
(***************************************************************************)
EXTENDS Handshake, TLAPS

\* The fields of a fiber, of the service, of the listen service, of a client and of an
\* entity.
FiberFields ==
    {"pc", "entity", "client_key_nonce", "client_challenge_nonce", "server_key_nonce",
     "server_challenge_nonce", "secret", "client_iv", "server_iv"}
SvcFields ==
    {"pc", "quiesce", "id", "key", "private_key_set", "entities", "controlling", "accepting"}
ListenerFields ==
    {"pc", "listening", "listen_quiesce", "backlog", "endpoint", "accept_quiesce", "box"}
ClientFields == {"pc", "conn", "made", "secret", "client_iv", "server_iv"}

SvcShape ==
    /\ DOMAIN svc = SvcFields
    /\ \A i \in DOMAIN svc.entities : DOMAIN svc.entities[i] = {"pubkey", "capabilities"}

Shapes ==
    /\ setup \in Setups
    /\ SvcShape /\ DOMAIN listener = ListenerFields
    /\ DOMAIN conn = Desc /\ \A d \in Desc : DOMAIN conn[d] = FiberFields
    /\ DOMAIN up = Desc /\ DOMAIN down = Desc
    /\ DOMAIN client = Client /\ \A c \in Client : DOMAIN client[c] = ClientFields

\* A descriptor is at one place on its way to its fiber.
Once(s) == \A i, j \in DOMAIN s : s[i] = s[j] => i = j
Passed ==
    /\ accepted \in Seq(Desc) /\ listener.box \in Seq(Desc) /\ listener.backlog \in Seq(Desc)
    /\ Once(accepted) /\ Once(listener.box) /\ Once(listener.backlog)
    /\ Range(accepted) \intersect InBox = {} /\ Range(accepted) \intersect InBacklog = {}
    /\ InBox \intersect InBacklog = {}
    /\ \A d \in Range(accepted) \union InBox \union InBacklog : conn[d].pc = "queued"

\* What a fiber knows of its client.
Knows(d) ==
    /\ svc.pc # "starting"
    /\ conn[d].entity = setup.client[d[1]].id /\ conn[d].entity \in DOMAIN svc.entities
    /\ conn[d].client_key_nonce = KeyNonce(d)
Keyed(d) ==
    /\ conn[d].secret[3] = KeyNonce(d)
    /\ conn[d].client_iv = 1 /\ conn[d].server_iv = HighBit + 1
Moved(d) ==
    /\ conn[d].secret[3] = KeyNonce(d)
    /\ conn[d].client_iv = 2 /\ conn[d].server_iv = HighBit + 2

FiberInv(d) ==
    /\ d[2] > client[d[1]].made => conn[d].pc = "none" /\ down[d] = <<>>
    /\ conn[d].pc \in {"queued", "start", "request"} => up[d] = <<SendreqHandshakeRequest(d)>>
    /\ conn[d].pc \in {"start", "request"} => svc.pc # "starting"
    /\ conn[d].pc = "random" => up[d] = <<>>
    /\ conn[d].pc \in {"random", "ack", "data"} => Knows(d)
    /\ conn[d].pc = "ack" => Keyed(d)
    /\ conn[d].pc = "data" => conn[d].secret[3] = KeyNonce(d)

\* The key that the service has of the client of a connection.
KeyOf(d) == svc.entities[conn[d].entity].pubkey

\* A response of the service to a handshake request.
IsRefusal(m) == m[2] # "SUCCESS"
IsResponse(d, m) ==
    /\ Knows(d) /\ Keyed(d)
    /\ conn[d].secret = <<{m[7], KeyOf(d)}, m[8], KeyNonce(d)>>
    /\ m[10][1] = conn[d].secret

\* A connection whose client has sent its request: the fiber is at p, and u and w are on
\* their way to it and from it;
RequestedAs(d, p, u, w, e) ==
    /\ p \in {"queued", "start", "request", "random", "ack", "closed"}
    /\ p \in {"queued", "start", "request", "random"} => w = <<>>
    /\ p = "ack" => u = <<>> /\ w # <<>>
    /\ w # <<>> =>
        \/ w = <<w[1]>> /\ IsRefusal(w[1]) /\ p # "ack"
        \/ /\ w = <<w[1]>> \/ w = <<w[1], e>>
           /\ IsResponse(d, w[1])
           /\ p = "ack" => w = <<w[1]>>
Requested(d) == RequestedAs(d, conn[d].pc, up[d], down[d], AuthedError(d))

\* one whose client c has taken the response and sent its acknowledgement under the key k;
Agreed(c, d) ==
    /\ Knows(d)
    /\ conn[d].secret = client[c].secret
    /\ KeyOf(d) = setup.client[c].key
    /\ client[c].client_iv = 2
AcknowledgedAs(d, p, u, w, k) ==
    \/ p = "ack" /\ Keyed(d) /\ w = <<>> /\ u = <<u[1]>> /\ u[1].key = k /\ u[1].iv = 1
    \/ p \in {"data", "closed"} /\ Moved(d)
    \/ p = "closed" /\ w = <<>>
    \/ p = "closed" /\ w = <<w[1]>> /\ w[1].m[2] # "SUCCESS"
Acknowledged(c, d) ==
    /\ Agreed(c, d)
    /\ AcknowledgedAs(d, conn[d].pc, up[d], down[d], client[c].secret)

\* and one whose client has finished.
Finished(c, d) ==
    /\ Agreed(c, d) /\ Moved(d) /\ conn[d].pc \in {"data", "closed"}
    /\ client[c].server_iv = HighBit + 2

ClientInv(c) ==
    /\ client[c].pc \in {"idle", "request", "ack", "done"}
    /\ client[c].made \in 0..MaxAttempts
    /\ client[c].pc # "idle" => client[c].conn = <<c, client[c].made>> /\ client[c].made # 0
    /\ client[c].pc = "request" => Requested(client[c].conn)
    /\ client[c].pc = "ack" => Acknowledged(c, client[c].conn)
    /\ client[c].pc = "done" => Finished(c, client[c].conn)

\* Whose packet it is, and why the same connection does not send another; and whose a
\* packet is that could not be written.
SealedBy(p, d) ==
    /\ p.key[3] = KeyNonce(d)
    /\ \/ /\ p.iv = 1
          /\ d[2] <= client[d[1]].made
          /\ client[d[1]].pc = "request" => client[d[1]].conn # d
       \/ /\ p.iv = HighBit + 1
          /\ conn[d].pc \in {"data", "closed"}
LostBy(p, d) == p.key[3] = KeyNonce(d) /\ conn[d].pc = "closed"
SealInv ==
    /\ \A p \in sealed.sent : \E d \in Desc : SealedBy(p, d)
    /\ \A p, q \in sealed.sent : p.key = q.key /\ p.iv = q.iv => p = q
    /\ \A p \in sealed.unsent : \E d \in Desc : LostBy(p, d)

HandInv ==
    /\ Shapes /\ Passed
    /\ \A d \in Desc : FiberInv(d)
    /\ \A c \in Client : ClientInv(c)
    /\ SealInv
-----------------------------------------------------------------------------
(* Steps that move connections on or close them, and change nothing else of  *)
(* them.                                                                     *)

\* The service keeps its entities once it runs.
SvcKeeps ==
    svc.pc # "starting" =>
        /\ svc'.pc # "starting"
        /\ \A i \in DOMAIN svc.entities :
            i \in DOMAIN svc'.entities /\ svc'.entities[i].pubkey = svc.entities[i].pubkey

Moves(d) ==
    \/ conn'[d] = conn[d]
    \/ conn[d].pc # "none" /\ conn'[d] = [conn[d] EXCEPT !.pc = "closed"]
    \/ conn[d].pc = "queued" /\ conn'[d] = [conn[d] EXCEPT !.pc = "start"] /\ svc'.pc # "starting"
    \/ conn[d].pc = "start" /\ conn'[d] = [conn[d] EXCEPT !.pc = "request"]

Same(d) == up'[d] = up[d] /\ down'[d] = down[d]

\* A connection has its client and its attempt.
LEMMA DescFacts ==
    ASSUME NEW d \in Desc
    PROVE  d[1] \in Client /\ d[2] \in 1..MaxAttempts /\ d = <<d[1], d[2]>>
  BY DEF Desc

\* A move changes the place of a fiber only.
LEMMA MoveFacts ==
    ASSUME NEW d \in Desc, Shapes, Moves(d)
    PROVE  /\ conn'[d].entity = conn[d].entity /\ conn'[d].secret = conn[d].secret
           /\ conn'[d].client_key_nonce = conn[d].client_key_nonce
           /\ conn'[d].client_iv = conn[d].client_iv /\ conn'[d].server_iv = conn[d].server_iv
           /\ DOMAIN conn'[d] = FiberFields
           /\ \/ conn'[d].pc = conn[d].pc
              \/ conn[d].pc # "none" /\ conn'[d].pc = "closed"
              \/ conn[d].pc = "queued" /\ conn'[d].pc = "start" /\ svc'.pc # "starting"
              \/ conn[d].pc = "start" /\ conn'[d].pc = "request"
<1>1. DOMAIN conn[d] = FiberFields
  BY DEF Shapes
<1>2. \A v : LET x == [conn[d] EXCEPT !.pc = v] IN
             /\ x.pc = v /\ x.entity = conn[d].entity /\ x.secret = conn[d].secret
             /\ x.client_key_nonce = conn[d].client_key_nonce
             /\ x.client_iv = conn[d].client_iv /\ x.server_iv = conn[d].server_iv
             /\ DOMAIN x = FiberFields
  BY <1>1 DEF FiberFields
<1>3. CASE conn'[d] = conn[d]
  BY <1>1, <1>3
<1>4. CASE conn[d].pc # "none" /\ conn'[d] = [conn[d] EXCEPT !.pc = "closed"]
  BY <1>2, <1>4
<1>5. CASE conn[d].pc = "queued" /\ conn'[d] = [conn[d] EXCEPT !.pc = "start"] /\ svc'.pc # "starting"
  BY <1>2, <1>5
<1>6. CASE conn[d].pc = "start" /\ conn'[d] = [conn[d] EXCEPT !.pc = "request"]
  BY <1>2, <1>6
<1> QED BY <1>3, <1>4, <1>5, <1>6 DEF Moves

\* What a fiber knows stays true.
LEMMA KnowsKeeps ==
    ASSUME NEW d \in Desc, Shapes, Knows(d), SvcKeeps, setup' = setup,
           conn'[d].entity = conn[d].entity,
           conn'[d].client_key_nonce = conn[d].client_key_nonce
    PROVE  /\ Knows(d)'
           /\ KeyOf(d)' = KeyOf(d)
<1>1. PICK i : i = conn[d].entity /\ i = conn'[d].entity
  OBVIOUS
<1>2. svc.pc # "starting" /\ i \in DOMAIN svc.entities /\ i = setup.client[d[1]].id
      /\ conn'[d].client_key_nonce = KeyNonce(d)
  BY <1>1 DEF Knows
<1>3. svc'.pc # "starting" /\ i \in DOMAIN svc'.entities
      /\ svc'.entities[i].pubkey = svc.entities[i].pubkey
  BY <1>2 DEF SvcKeeps
<1>4. KeyOf(d)' = KeyOf(d)
  BY <1>1, <1>3 DEF KeyOf
<1>5. Knows(d)'
  BY <1>1, <1>2, <1>3 DEF Knows
<1> QED BY <1>4, <1>5

\* A move of a fiber keeps what is known of its connection.
LEMMA FiberKeeps ==
    ASSUME NEW d \in Desc, Shapes, FiberInv(d), Moves(d), SvcKeeps, setup' = setup, up'[d] = up[d],
           client'[d[1]].made = client[d[1]].made, d[2] > client[d[1]].made => down'[d] = down[d]
    PROVE  FiberInv(d)'
<1>1. /\ conn'[d].entity = conn[d].entity /\ conn'[d].secret = conn[d].secret
      /\ conn'[d].client_key_nonce = conn[d].client_key_nonce
      /\ conn'[d].client_iv = conn[d].client_iv /\ conn'[d].server_iv = conn[d].server_iv
      /\ \/ conn'[d].pc = conn[d].pc
         \/ conn[d].pc # "none" /\ conn'[d].pc = "closed"
         \/ conn[d].pc = "queued" /\ conn'[d].pc = "start" /\ svc'.pc # "starting"
         \/ conn[d].pc = "start" /\ conn'[d].pc = "request"
  BY MoveFacts
<1>2. SendreqHandshakeRequest(d)' = SendreqHandshakeRequest(d)
  BY DEF SendreqHandshakeRequest
<1>3. Knows(d) => Knows(d)'
  BY <1>1, KnowsKeeps
<1>4. Keyed(d) => Keyed(d)'
  BY <1>1 DEF Keyed
<1>5. svc.pc # "starting" => svc'.pc # "starting"
  BY DEF SvcKeeps
<1>6. (d[2] > client[d[1]].made => conn[d].pc = "none" /\ down[d] = <<>>)'
  BY <1>1 DEF FiberInv
<1>7. (conn[d].pc \in {"queued", "start", "request"} => up[d] = <<SendreqHandshakeRequest(d)>>)'
  BY <1>1, <1>2 DEF FiberInv
<1>8. (conn[d].pc \in {"start", "request"} => svc.pc # "starting")'
  BY <1>1, <1>5 DEF FiberInv
<1>9. (conn[d].pc = "random" => up[d] = <<>>)'
  BY <1>1 DEF FiberInv
<1>10. (conn[d].pc \in {"random", "ack", "data"} => Knows(d))' /\ (conn[d].pc = "ack" => Keyed(d))'
  BY <1>1, <1>3, <1>4 DEF FiberInv
<1>11. (conn[d].pc = "data" => conn[d].secret[3] = KeyNonce(d))'
  BY <1>1 DEF FiberInv, KeyNonce
<1> QED BY <1>6, <1>7, <1>8, <1>9, <1>10, <1>11 DEF FiberInv

\* So does what a client may rely on.
LEMMA ClientKeeps ==
    ASSUME NEW c \in Client, Shapes, ClientInv(c), client'[c] = client[c], setup' = setup, SvcKeeps,
           client[c].pc # "idle" =>
                client[c].conn \in Desc /\ Moves(client[c].conn) /\ Same(client[c].conn)
    PROVE  ClientInv(c)'
<1>1. CASE client[c].pc = "idle"
  BY <1>1 DEF ClientInv
<1>2. CASE client[c].pc # "idle"
  <2> PICK d \in Desc : d = client[c].conn
    BY <1>2
  <2>1. d \in Desc /\ Moves(d) /\ Same(d) /\ client'[c].conn = d
    BY <1>2
  <2>2. /\ conn'[d].entity = conn[d].entity /\ conn'[d].secret = conn[d].secret
        /\ conn'[d].client_key_nonce = conn[d].client_key_nonce
        /\ conn'[d].client_iv = conn[d].client_iv /\ conn'[d].server_iv = conn[d].server_iv
        /\ \/ conn'[d].pc = conn[d].pc
           \/ conn[d].pc # "none" /\ conn'[d].pc = "closed"
           \/ conn[d].pc = "queued" /\ conn'[d].pc = "start" /\ svc'.pc # "starting"
           \/ conn[d].pc = "start" /\ conn'[d].pc = "request"
    BY <2>1, MoveFacts
  <2>3. Knows(d) => Knows(d)' /\ KeyOf(d)' = KeyOf(d)
    BY <2>1, <2>2, KnowsKeeps
  <2>4. (Keyed(d) => Keyed(d)') /\ (Moved(d) => Moved(d)')
    BY <2>2 DEF Keyed, Moved
  <2>5. AuthedError(d)' = AuthedError(d)
    BY <2>2 DEF AuthedError
  <2>6. PICK p, q, u, w, e : /\ p = conn[d].pc /\ q = conn'[d].pc /\ u = up[d] /\ w = down[d]
                             /\ e = AuthedError(d)
    OBVIOUS
  <2>7. /\ up'[d] = u /\ down'[d] = w /\ AuthedError(d)' = e
        /\ \/ q = p
           \/ p # "none" /\ q = "closed"
           \/ p = "queued" /\ q = "start"
           \/ p = "start" /\ q = "request"
    BY <2>1, <2>2, <2>5, <2>6 DEF Same
  <2>8. Requested(d) => Requested(d)'
    <3> SUFFICES ASSUME Requested(d) PROVE Requested(d)'
      OBVIOUS
    <3>1. RequestedAs(d, p, u, w, e)
      BY <2>6 DEF Requested
    <3>2. ASSUME NEW m, IsResponse(d, m) PROVE IsResponse(d, m)'
      BY Zenon, <2>2, <2>3, <2>4, <3>2 DEF IsResponse
    <3>3. RequestedAs(d, q, u, w, e)'
      BY <2>7, <3>1, <3>2 DEF RequestedAs
    <3> QED BY <2>6, <2>7, <3>3 DEF Requested
  <2>9. Agreed(c, d) => Agreed(c, d)'
    BY <2>2, <2>3 DEF Agreed
  <2>10. Acknowledged(c, d) => Acknowledged(c, d)'
    <3> SUFFICES ASSUME Acknowledged(c, d) PROVE Acknowledged(c, d)'
      OBVIOUS
    <3>1. PICK k : k = client[c].secret
      OBVIOUS
    <3>2. AcknowledgedAs(d, p, u, w, k)
      BY <2>6, <3>1 DEF Acknowledged
    <3>3. AcknowledgedAs(d, q, u, w, k)'
      BY <2>4, <2>7, <3>2 DEF AcknowledgedAs
    <3>4. Agreed(c, d)'
      BY <2>9 DEF Acknowledged
    <3> QED BY <2>6, <2>7, <3>1, <3>3, <3>4 DEF Acknowledged
  <2>11. Finished(c, d) => Finished(c, d)'
    BY <2>2, <2>4, <2>9 DEF Finished
  <2>12. /\ client[c].pc = "request" => Requested(d)
         /\ client[c].pc = "ack" => Acknowledged(c, d)
         /\ client[c].pc = "done" => Finished(c, d)
    BY DEF ClientInv
  <2> QED BY <2>1, <2>8, <2>10, <2>11, <2>12 DEF ClientInv
<1> QED BY <1>1, <1>2

\* What a client that is on a connection may rely on there.
LEMMA ClientAt ==
    ASSUME NEW c, NEW d, ClientInv(c), client[c].conn = d
    PROVE  /\ client[c].pc \in {"idle", "request", "ack", "done"}
           /\ client[c].pc = "request" => Requested(d)
           /\ client[c].pc = "ack" => Acknowledged(c, d)
           /\ client[c].pc = "done" => Finished(c, d)
  BY DEF ClientInv

\* Before the fiber has answered, the client has nothing to read.
LEMMA ClientWaits ==
    ASSUME NEW c, NEW d, ClientInv(c), client[c].conn = d, client[c].pc # "idle",
           conn[d].pc \in {"queued", "start", "request", "random"}
    PROVE  client[c].pc = "request" /\ down[d] = <<>>
<1>1. PICK p, u, w, e, k : /\ p = conn[d].pc /\ u = up[d] /\ w = down[d] /\ e = AuthedError(d)
                           /\ k = client[c].secret
  OBVIOUS
<1>2. p \in {"queued", "start", "request", "random"}
  BY <1>1
<1>3. client[c].pc # "ack"
  <2> SUFFICES ASSUME client[c].pc = "ack" PROVE FALSE
    OBVIOUS
  <2>1. AcknowledgedAs(d, p, u, w, k)
    BY <1>1, ClientAt DEF Acknowledged
  <2> QED BY <1>2, <2>1 DEF AcknowledgedAs
<1>4. client[c].pc # "done"
  BY ClientAt DEF Finished
<1>5. client[c].pc = "request" /\ RequestedAs(d, p, u, w, e)
  BY <1>1, <1>3, <1>4, ClientAt DEF Requested
<1> QED BY <1>1, <1>2, <1>5 DEF RequestedAs

\* A client is on the connection of its last attempt.
LEMMA ClientDesc ==
    ASSUME NEW c \in Client, ClientInv(c), client[c].pc # "idle"
    PROVE  /\ client[c].conn \in Desc /\ client[c].conn = <<c, client[c].made>>
           /\ client[c].conn[1] = c /\ client[c].conn[2] = client[c].made
<1>1. client[c].conn = <<c, client[c].made>> /\ client[c].made \in 0..MaxAttempts
      /\ client[c].made # 0
  BY DEF ClientInv
<1>2. client[c].made \in 1..MaxAttempts
  BY <1>1, AttemptsAssumption
<1> QED BY <1>1, <1>2 DEF Desc

\* A connection that has been served does not come back, nor does a closed one.
EndsLater(d) ==
    /\ conn[d].pc = "data" => conn'[d].pc \in {"data", "closed"}
    /\ conn[d].pc = "closed" => conn'[d].pc = "closed"

\* Sealed packets stay justified while no new attempt is made; new ones are of other
\* connections or under another iv.
LEMMA SealStep ==
    ASSUME SealInv, NEW new, NEW lost, sealed'.sent = sealed.sent \union new,
           sealed'.unsent = sealed.unsent \union lost, \A d \in Desc : EndsLater(d),
           \A c \in Client : \/ client'[c] = client[c]
                             \/ client'[c].made = client[c].made /\ client'[c].pc # "request",
           \A p \in new : \E d \in Desc : SealedBy(p, d)',
           \A p, q \in new : p.key = q.key => p = q,
           \A p \in new : \A q \in sealed.sent : \A d \in Desc :
              p.key[3] = KeyNonce(d) /\ SealedBy(q, d) => p.iv # q.iv,
           \A p \in lost : \E d \in Desc : LostBy(p, d)'
    PROVE  SealInv'
<1>1. ASSUME NEW p \in sealed.sent, NEW d \in Desc, SealedBy(p, d)
      PROVE  SealedBy(p, d)'
  BY <1>1, DescFacts DEF SealedBy, EndsLater
<1>2. ASSUME NEW p, NEW d \in Desc, LostBy(p, d)
      PROVE  LostBy(p, d)'
  BY <1>2 DEF LostBy, EndsLater, KeyNonce
<1>3. ASSUME NEW p \in new, NEW q \in sealed.sent, p.key = q.key PROVE p.iv # q.iv
  <2>1. PICK d \in Desc : SealedBy(q, d)
    BY DEF SealInv
  <2> QED BY <1>3, <2>1 DEF SealedBy
<1>4. \A p, q \in sealed'.sent : p.key = q.key /\ p.iv = q.iv => p = q
  BY <1>3 DEF SealInv
<1>5. \A p \in sealed'.sent : \E d \in Desc : SealedBy(p, d)'
  BY <1>1 DEF SealInv
<1>6. \A p \in sealed'.unsent : \E d \in Desc : LostBy(p, d)'
  BY <1>2 DEF SealInv
<1> QED BY <1>4, <1>5, <1>6 DEF SealInv

LEMMA SealKeeps ==
    ASSUME SealInv, sealed' = sealed, \A d \in Desc : EndsLater(d),
           \A c \in Client : \/ client'[c] = client[c]
                             \/ client'[c].made = client[c].made /\ client'[c].pc # "request"
    PROVE  SealInv'
<1>1. ASSUME NEW p \in sealed.sent, NEW d \in Desc, SealedBy(p, d)
      PROVE  SealedBy(p, d)'
  BY <1>1, DescFacts DEF SealedBy, EndsLater
<1>2. ASSUME NEW p, NEW d \in Desc, LostBy(p, d)
      PROVE  LostBy(p, d)'
  BY <1>2 DEF LostBy, EndsLater, KeyNonce
<1>3. \A p \in sealed.sent : \E d \in Desc : SealedBy(p, d)'
  BY <1>1 DEF SealInv
<1>4. \A p \in sealed.unsent : \E d \in Desc : LostBy(p, d)'
  BY <1>2 DEF SealInv
<1> QED BY <1>3, <1>4 DEF SealInv

\* Steps that move connections on, and may seal packets.
LEMMA SealingStep ==
    ASSUME HandInv, SvcShape', DOMAIN listener' = ListenerFields, Passed', SvcKeeps,
           UNCHANGED <<setup, up, down, client>>, SealInv',
           DOMAIN conn' = Desc, \A d \in Desc : Moves(d)
    PROVE  HandInv'
<1>1. Shapes
  BY DEF HandInv
<1>2. \A d \in Desc : DOMAIN conn'[d] = FiberFields
  BY <1>1, MoveFacts
<1>3. Shapes'
  BY <1>1, <1>2 DEF Shapes
<1>4. ASSUME NEW d \in Desc PROVE FiberInv(d)'
  <2>1. FiberInv(d) /\ Same(d)
    BY DEF HandInv, Same
  <2> QED BY <1>1, <2>1, FiberKeeps DEF Same
<1>5. ASSUME NEW c \in Client PROVE ClientInv(c)'
  <2>1. ClientInv(c)
    BY DEF HandInv
  <2>2. client[c].pc # "idle" => client[c].conn \in Desc
    BY <2>1, ClientDesc
  <2>3. client[c].pc # "idle" => Moves(client[c].conn) /\ Same(client[c].conn)
    BY <2>2 DEF Same
  <2> QED BY <1>1, <2>1, <2>2, <2>3, ClientKeeps
<1> QED BY <1>3, <1>4, <1>5 DEF HandInv

\* A move does not take a connection back.
LEMMA MoveEnds ==
    ASSUME NEW d \in Desc, Shapes, Moves(d)
    PROVE  EndsLater(d)
  BY MoveFacts DEF EndsLater

\* Steps that only move connections on.
LEMMA MoveStep ==
    ASSUME HandInv, SvcShape', DOMAIN listener' = ListenerFields, Passed', SvcKeeps,
           UNCHANGED <<setup, up, down, client, sealed>>,
           DOMAIN conn' = Desc, \A d \in Desc : Moves(d)
    PROVE  HandInv'
<1>1. Shapes /\ SealInv
  BY DEF HandInv
<1>2. \A d \in Desc : EndsLater(d)
  BY <1>1, MoveEnds
<1>3. SealInv'
  BY <1>1, <1>2, SealKeeps
<1> QED BY <1>3, SealingStep

\* Steps that leave connections and clients alone.
LEMMA OtherStep ==
    ASSUME HandInv, SvcShape', SvcKeeps, DOMAIN listener' = ListenerFields,
           accepted' = accepted, listener'.box = listener.box,
           listener'.backlog = listener.backlog,
           UNCHANGED <<setup, conn, up, down, client, sealed>>
    PROVE  HandInv'
<1>1. Passed'
  BY DEF HandInv, Passed, InBox, InBacklog
<1>2. DOMAIN conn' = Desc
  BY DEF HandInv, Shapes
<1>3. \A d \in Desc : Moves(d)
  BY DEF Moves
<1> QED BY <1>1, <1>2, <1>3, MoveStep

\* A service that only sets flags keeps its entities.
LEMMA SvcSame ==
    ASSUME HandInv, svc' = svc
    PROVE  SvcShape' /\ SvcKeeps
  BY DEF HandInv, Shapes, SvcShape, SvcKeeps

\* The same when the service changes flags only.
LEMMA SvcFlags ==
    ASSUME HandInv, DOMAIN svc' = SvcFields, svc'.entities = svc.entities,
           svc.pc # "starting" => svc'.pc # "starting"
    PROVE  SvcShape' /\ SvcKeeps
  BY DEF HandInv, Shapes, SvcShape, SvcKeeps

\* A listen service that does nothing keeps its queues.
LEMMA ListenerSame ==
    ASSUME HandInv, listener' = listener
    PROVE  DOMAIN listener' = ListenerFields /\ listener'.box = listener.box /\ listener'.backlog = listener.backlog
  BY DEF HandInv, Shapes

\* The supervisor, the random endpoint and the random service.
LEMMA ElsewhereInv ==
    ASSUME HandInv,
           SupervisorStep \/ RandomEndpoint \/ RandomService \/ RandomServiceExits
    PROVE  HandInv'
<1>1. UNCHANGED <<setup, listener, accepted, svc, conn, up, down, client, sealed>>
  BY Zenon DEF SupervisorStep, SupervisorRequests, SupervisorReads,
         RandomEndpoint, RandomEndpointReceives, RandomEndpointReplies, RandomService,
         RandomServiceExits
<1> QED BY <1>1, SvcSame, ListenerSame, OtherStep

\* The control fiber.
LEMMA DispatchKeeps ==
    ASSUME HandInv, NEW m
    PROVE  LET s == ControlDecodeAndDispatch(m).svc IN
           /\ DOMAIN s = SvcFields /\ s.pc = svc.pc
           /\ \A i \in DOMAIN s.entities : DOMAIN s.entities[i] = {"pubkey", "capabilities"}
           /\ \A i \in DOMAIN svc.entities :
                i \in DOMAIN s.entities /\ s.entities[i].pubkey = svc.entities[i].pubkey
<1> DEFINE Fine(s) ==
        /\ DOMAIN s = SvcFields /\ s.pc = svc.pc
        /\ \A i \in DOMAIN s.entities : DOMAIN s.entities[i] = {"pubkey", "capabilities"}
        /\ \A i \in DOMAIN svc.entities :
             i \in DOMAIN s.entities /\ s.entities[i].pubkey = svc.entities[i].pubkey
<1>0. SvcShape
  BY DEF HandInv, Shapes
<1>1. Fine(svc)
  BY <1>0 DEF SvcShape
<1>2. \A id, key : Fine([svc EXCEPT !.id = id, !.key = key, !.private_key_set = TRUE])
  BY <1>0 DEF SvcShape, SvcFields
<1>3. Fine([svc EXCEPT !.controlling = FALSE])
  BY <1>0 DEF SvcShape, SvcFields
<1>4. ASSUME NEW id, NEW pubkey
      PROVE  Fine([svc EXCEPT !.entities = AuthorizedEntityAdd(svc.entities, id, pubkey)])
  <2> DEFINE old == svc.entities
             e == AuthorizedEntityAdd(old, id, pubkey)
             s == [svc EXCEPT !.entities = e]
  <2>1. \A i \in DOMAIN e : DOMAIN e[i] = {"pubkey", "capabilities"}
    BY <1>0 DEF AuthorizedEntityAdd, SvcShape
  <2>2. \A i \in DOMAIN old : i \in DOMAIN e /\ e[i].pubkey = old[i].pubkey
    BY DEF AuthorizedEntityAdd
  <2> HIDE DEF e
  <2>3. DOMAIN s = SvcFields /\ s.pc = svc.pc /\ s.entities = e
    BY <1>0 DEF SvcShape, SvcFields
  <2> HIDE DEF s
  <2>4. Fine(s)
    BY <2>1, <2>2, <2>3
  <2> QED BY <2>4 DEF s, e
<1>5. ASSUME NEW id, NEW cap, id \in DOMAIN svc.entities
      PROVE  Fine([svc EXCEPT !.entities[id].capabilities = @ \union {cap}])
  <2> DEFINE old == svc.entities
             x == [old[id] EXCEPT !.capabilities = @ \union {cap}]
             e == [old EXCEPT ![id] = x]
             s == [svc EXCEPT !.entities[id].capabilities = @ \union {cap}]
  <2>1. DOMAIN s = SvcFields /\ s.pc = svc.pc /\ s.entities = e
    BY <1>0 DEF SvcShape, SvcFields
  <2>2. DOMAIN x = {"pubkey", "capabilities"} /\ x.pubkey = old[id].pubkey
    BY <1>0, <1>5 DEF SvcShape
  <2> HIDE DEF x
  <2>3. DOMAIN e = DOMAIN old
        /\ \A i \in DOMAIN old : DOMAIN e[i] = {"pubkey", "capabilities"} /\ e[i].pubkey = old[i].pubkey
    BY <1>0, <2>2 DEF SvcShape
  <2> HIDE DEF e, s
  <2>4. Fine(s)
    BY <2>1, <2>3
  <2> QED BY <2>4 DEF s
<1> HIDE DEF Fine
<1>6. Fine(ControlPrivateKeySet(m).svc)
  BY Zenon, <1>1, <1>2 DEF ControlPrivateKeySet, Dispatched
<1>7. Fine(ControlAuthEntityAdd(m).svc)
  BY <1>1, <1>4 DEF ControlAuthEntityAdd, Dispatched
<1>8. Fine(ControlAuthEntityCapabilityAdd(m).svc)
  BY Zenon, <1>1, <1>5 DEF ControlAuthEntityCapabilityAdd, Dispatched
<1>9. Fine(ControlFinalize(m).svc)
  BY <1>3 DEF ControlFinalize, Dispatched
<1>10. Fine(ControlDecodeAndDispatch(m).svc)
  BY <1>1, <1>6, <1>7, <1>8, <1>9 DEF ControlDecodeAndDispatch, Dispatched
<1> QED BY <1>10 DEF Fine

\* The control requests add entities and take none away once the service runs.
LEMMA ControlInv ==
    ASSUME HandInv, ControlStep
    PROVE  HandInv'
<1>0. SvcShape /\ svc.pc \in {"running", "exiting"}
  BY DEF HandInv, Shapes, ControlStep, ControlFiber, ControlReadFails, Serving
<1>1. UNCHANGED <<setup, listener, accepted, conn, up, down, client, sealed>>
  BY DEF ControlStep, ControlFiber, ControlReadFails
<1>2. CASE ControlFiber
  <2> DEFINE r == ControlDecodeAndDispatch(Head(control.req))
             s == r.svc
  <2>1. /\ DOMAIN s = SvcFields /\ s.pc = svc.pc
        /\ \A i \in DOMAIN s.entities : DOMAIN s.entities[i] = {"pubkey", "capabilities"}
        /\ \A i \in DOMAIN svc.entities :
             i \in DOMAIN s.entities /\ s.entities[i].pubkey = svc.entities[i].pubkey
    BY DispatchKeeps
  <2>2. svc' = IF r.ok THEN s ELSE ForceExit(s)
    BY <1>2 DEF ControlFiber
  <2> HIDE DEF r, s
  <2>3. DOMAIN svc' = SvcFields /\ svc'.entities = s.entities /\ svc'.pc # "starting"
    <3>1. DOMAIN ForceExit(s) = SvcFields /\ ForceExit(s).entities = s.entities /\ ForceExit(s).pc = "exiting"
      BY <2>1 DEF ForceExit, SvcFields
    <3> QED BY <1>0, <2>1, <2>2, <3>1
  <2>4. SvcShape' /\ SvcKeeps
    BY <2>1, <2>3 DEF SvcShape, SvcKeeps
  <2> QED BY <1>1, <2>4, ListenerSame, OtherStep
<1>3. CASE ControlReadFails
  <2>1. DOMAIN svc' = SvcFields /\ svc'.entities = svc.entities /\ svc'.pc # "starting"
    BY <1>0, <1>3 DEF ControlReadFails, ForceExit, SvcShape, SvcFields
  <2> QED BY <1>1, <2>1, SvcFlags, ListenerSame, OtherStep
<1> QED BY <1>2, <1>3 DEF ControlStep
-----------------------------------------------------------------------------
(* The way of a descriptor to its fiber.                                     *)

\* A sequence without repetition, without its first element,
LEMMA TailFacts ==
    ASSUME NEW S, NEW s \in Seq(S), s # <<>>, Once(s)
    PROVE  /\ Head(s) \in S /\ Head(s) \in Range(s) /\ Tail(s) \in Seq(S) /\ Once(Tail(s))
           /\ Range(s) = Range(Tail(s)) \union {Head(s)} /\ Head(s) \notin Range(Tail(s))
<1>1. /\ Len(s) \in Nat /\ Len(s) >= 1 /\ DOMAIN s = 1..Len(s)
      /\ Tail(s) \in Seq(S) /\ Len(Tail(s)) = Len(s) - 1 /\ DOMAIN Tail(s) = 1..(Len(s) - 1)
      /\ \A i \in 1..(Len(s) - 1) : Tail(s)[i] = s[i + 1]
      /\ Head(s) = s[1] /\ Head(s) \in S
  OBVIOUS
<1>2. \A i \in 2..Len(s) : s[i] = Tail(s)[i - 1] /\ i - 1 \in 1..(Len(s) - 1)
  BY <1>1
<1>3. Head(s) \in Range(s)
  BY <1>1 DEF Range
<1>4. Once(Tail(s))
  BY <1>1 DEF Once
<1>5. Head(s) \notin Range(Tail(s))
  BY <1>1 DEF Range, Once
<1>6. Range(Tail(s)) \subseteq Range(s)
  BY <1>1 DEF Range
<1>7. Range(s) \subseteq Range(Tail(s)) \union {Head(s)}
  <2> SUFFICES ASSUME NEW i \in 1..Len(s) PROVE s[i] \in Range(Tail(s)) \union {Head(s)}
    BY <1>1 DEF Range
  <2>1. CASE i = 1
    BY <1>1, <2>1
  <2>2. CASE i # 1
    <3>1. i - 1 \in DOMAIN Tail(s) /\ Tail(s)[i - 1] = s[i]
      BY <1>1, <1>2, <2>2
    <3> QED BY Zenon, <3>1 DEF Range
  <2> QED BY <2>1, <2>2
<1> QED BY <1>1, <1>3, <1>4, <1>5, <1>6, <1>7

\* with a new one at its end,
LEMMA AppendFacts ==
    ASSUME NEW S, NEW s \in Seq(S), Once(s), NEW d \in S, d \notin Range(s)
    PROVE  /\ Append(s, d) \in Seq(S) /\ Once(Append(s, d))
           /\ Range(Append(s, d)) = Range(s) \union {d}
<1> DEFINE t == Append(s, d)
           n == Len(s)
<1>1. /\ n \in Nat /\ DOMAIN s = 1..n /\ t \in Seq(S) /\ DOMAIN t = 1..(n + 1)
      /\ t[n + 1] = d /\ \A i \in 1..n : t[i] = s[i]
  OBVIOUS
<1>2. \A i \in 1..n : s[i] # d
  BY <1>1 DEF Range
<1> HIDE DEF t, n
<1>3. Once(t)
  BY <1>1, <1>2 DEF Once
<1>4. Range(t) \subseteq Range(s) \union {d}
  <2> SUFFICES ASSUME NEW i \in 1..(n + 1) PROVE t[i] \in Range(s) \union {d}
    BY <1>1 DEF Range
  <2>1. i \in 1..n \/ i = n + 1
    BY <1>1
  <2> QED BY <1>1, <2>1 DEF Range
<1>5. Range(s) \union {d} \subseteq Range(t)
  <2>1. n + 1 \in DOMAIN t
    BY <1>1
  <2>2. \A i \in DOMAIN s : s[i] = t[i] /\ i \in DOMAIN t
    BY <1>1
  <2> QED BY <1>1, <2>1, <2>2 DEF Range
<1>6. t \in Seq(S) /\ Once(t) /\ Range(t) = Range(s) \union {d}
  BY <1>1, <1>3, <1>4, <1>5
<1> QED BY <1>6 DEF t

\* and the empty one.
LEMMA EmptyFacts ==
    ASSUME NEW S
    PROVE  <<>> \in Seq(S) /\ Once(<<>>) /\ Range(<<>>) = {}
  BY DEF Once, Range

\* Sockets that are closed.
LEMMA CloseFacts ==
    ASSUME HandInv, NEW D, conn' = Close(D), \A d \in D : d \in Desc => conn[d].pc # "none"
    PROVE  /\ DOMAIN conn' = Desc /\ \A d \in Desc : Moves(d)
           /\ \A d \in Desc \ D : conn'[d] = conn[d]
<1>1. DOMAIN conn = Desc
  BY DEF HandInv, Shapes
<1>2. conn' = [d \in Desc |-> IF d \in D THEN [conn[d] EXCEPT !.pc = "closed"] ELSE conn[d]]
  BY <1>1 DEF Close
<1>3. DOMAIN conn' = Desc /\ \A d \in Desc \ D : conn'[d] = conn[d]
  BY <1>2
<1>4. \A d \in Desc \intersect D : conn'[d] = [conn[d] EXCEPT !.pc = "closed"] /\ conn[d].pc # "none"
  BY <1>2
<1>5. \A d \in Desc : Moves(d)
  BY <1>3, <1>4 DEF Moves
<1> QED BY <1>3, <1>5

\* Where the descriptors are, for steps that take some of them away or pass one on.
LEMMA PassedStep ==
    ASSUME HandInv, NEW D, D \subseteq Desc,
           accepted' \in Seq(Desc), listener'.box \in Seq(Desc), listener'.backlog \in Seq(Desc),
           Once(accepted'), Once(listener'.box), Once(listener'.backlog),
           Range(accepted') \intersect Range(listener'.box) = {},
           Range(accepted') \intersect Range(listener'.backlog) = {},
           Range(listener'.box) \intersect Range(listener'.backlog) = {},
           Range(accepted') \union Range(listener'.box) \union Range(listener'.backlog)
              \subseteq (Range(accepted) \union InBox \union InBacklog) \ D,
           \A d \in Desc \ D : conn'[d] = conn[d]
    PROVE  Passed'
<1>1. \A d \in Range(accepted) \union InBox \union InBacklog : d \in Desc /\ conn[d].pc = "queued"
  BY DEF HandInv, Passed, InBox, InBacklog, Range
<1>2. \A d \in Range(accepted') \union Range(listener'.box) \union Range(listener'.backlog) :
        conn'[d].pc = "queued"
  BY <1>1
<1> QED BY <1>2 DEF Passed, InBox, InBacklog

\* The sequences of descriptors are apart from each other.
LEMMA PassedFacts ==
    ASSUME HandInv
    PROVE  /\ accepted \in Seq(Desc) /\ listener.box \in Seq(Desc) /\ listener.backlog \in Seq(Desc)
           /\ Once(accepted) /\ Once(listener.box) /\ Once(listener.backlog)
           /\ Range(accepted) \intersect InBox = {} /\ Range(accepted) \intersect InBacklog = {}
           /\ InBox \intersect InBacklog = {}
           /\ InBox = Range(listener.box) /\ InBacklog = Range(listener.backlog)
           /\ \A d \in Range(accepted) \union InBox \union InBacklog :
                 d \in Desc /\ conn[d].pc = "queued"
           /\ DOMAIN listener = ListenerFields
<1>1. Passed /\ DOMAIN listener = ListenerFields
  BY DEF HandInv, Shapes
<1>2. Range(accepted) \subseteq Desc /\ InBox \subseteq Desc /\ InBacklog \subseteq Desc
  BY <1>1 DEF Passed, InBox, InBacklog, Range
<1> QED BY <1>1, <1>2 DEF Passed, InBox, InBacklog

\* The listen fiber passes a descriptor to the endpoint.
LEMMA ListenFiberInv ==
    ASSUME HandInv, ListenFiber
    PROVE  HandInv'
<1>1. UNCHANGED <<setup, accepted, svc, up, down, client, sealed>>
  BY DEF ListenFiber
<1>2. SvcShape' /\ SvcKeeps
  BY <1>1, SvcSame
<1> DEFINE b == listener.backlog
           x == listener.box
<1>3. /\ Head(b) \in Desc /\ Head(b) \in Range(b) /\ Tail(b) \in Seq(Desc) /\ Once(Tail(b))
      /\ Range(b) = Range(Tail(b)) \union {Head(b)} /\ Head(b) \notin Range(Tail(b))
  BY PassedFacts, TailFacts DEF ListenFiber
<1>4. CASE listener.listen_quiesce \/ ~listener.endpoint
  <2>1. listener' = ListenFiberContextRelease /\ conn' = Close(InBacklog)
    BY <1>4 DEF ListenFiber
  <2>2. DOMAIN listener' = ListenerFields /\ listener'.box = x /\ listener'.backlog = <<>>
    BY <2>1, PassedFacts DEF ListenFiberContextRelease, ListenerFields
  <2>3. /\ DOMAIN conn' = Desc /\ \A d \in Desc : Moves(d)
        /\ \A d \in Desc \ InBacklog : conn'[d] = conn[d]
    BY <2>1, PassedFacts, CloseFacts
  <2>4. Passed'
    <3>1. Range(accepted) \union Range(x) \subseteq (Range(accepted) \union InBox \union InBacklog) \ InBacklog
          /\ InBacklog \subseteq Desc
      BY PassedFacts
    <3> QED BY ZenonT(40), <1>1, <2>2, <2>3, <3>1, PassedFacts, EmptyFacts, PassedStep
  <2> QED BY <1>1, <1>2, <2>2, <2>3, <2>4, MoveStep
<1>5. CASE ~(listener.listen_quiesce \/ ~listener.endpoint)
  <2>1. listener' = [listener EXCEPT !.backlog = Tail(@), !.box = Append(@, Head(b))] /\ conn' = conn
    BY <1>5 DEF ListenFiber
  <2>2. DOMAIN listener' = ListenerFields /\ listener'.box = Append(x, Head(b))
        /\ listener'.backlog = Tail(b)
    BY <2>1, PassedFacts DEF ListenerFields
  <2>3. /\ Append(x, Head(b)) \in Seq(Desc) /\ Once(Append(x, Head(b)))
        /\ Range(Append(x, Head(b))) = Range(x) \union {Head(b)}
    BY <1>3, PassedFacts, AppendFacts
  <2>4. DOMAIN conn' = Desc /\ (\A d \in Desc : Moves(d)) /\ (\A d \in Desc \ {} : conn'[d] = conn[d])
    BY <2>1 DEF HandInv, Shapes, Moves
  <2>5. Passed'
    BY ZenonT(40), <1>1, <1>3, <2>2, <2>3, <2>4, PassedFacts, PassedStep
  <2> QED BY <1>1, <1>2, <2>2, <2>4, <2>5, MoveStep
<1> QED BY <1>4, <1>5

\* The accept endpoint sends it to the protocol service.
LEMMA ListenAcceptInv ==
    ASSUME HandInv, ListenAcceptEndpoint
    PROVE  HandInv'
<1> DEFINE x == listener.box
           b == listener.backlog
           sent == control.open \/ Accepts
           done == ~sent \/ listener.accept_quiesce
           D == (IF done THEN InBox ELSE {}) \ (IF sent THEN {Head(x)} ELSE {})
<1>1. UNCHANGED <<setup, svc, up, down, client, sealed>>
  BY DEF ListenAcceptEndpoint
<1>2. SvcShape' /\ SvcKeeps
  BY <1>1, SvcSame
<1>3. /\ Head(x) \in Desc /\ Head(x) \in Range(x) /\ Tail(x) \in Seq(Desc) /\ Once(Tail(x))
      /\ Range(x) = Range(Tail(x)) \union {Head(x)} /\ Head(x) \notin Range(Tail(x))
  BY PassedFacts, TailFacts DEF ListenAcceptEndpoint
<1>4. /\ accepted' = IF sent THEN Append(accepted, Head(x)) ELSE accepted
      /\ listener' = IF done THEN AcceptEndpointContextRelease ELSE [listener EXCEPT !.box = Tail(@)]
      /\ conn' = Close(D)
  BY DEF ListenAcceptEndpoint
<1>5. D \subseteq InBox /\ (done /\ ~sent => D = InBox) /\ (done /\ sent => D = InBox \ {Head(x)})
      /\ (~done => sent /\ D = {})
  OBVIOUS
<1> HIDE DEF D, done, sent
<1>6. DOMAIN listener' = ListenerFields /\ listener'.box = (IF done THEN <<>> ELSE Tail(x))
      /\ listener'.backlog = b
  BY <1>4, PassedFacts DEF AcceptEndpointContextRelease, ListenerFields
<1>7. /\ DOMAIN conn' = Desc /\ \A d \in Desc : Moves(d)
      /\ \A d \in Desc \ D : conn'[d] = conn[d]
  BY <1>4, <1>5, PassedFacts, CloseFacts
<1>8. /\ Append(accepted, Head(x)) \in Seq(Desc) /\ Once(Append(accepted, Head(x)))
      /\ Range(Append(accepted, Head(x))) = Range(accepted) \union {Head(x)}
  BY <1>3, PassedFacts, AppendFacts
<1>9. Passed'
  <2>1. /\ accepted' \in Seq(Desc) /\ Once(accepted')
        /\ Range(accepted') = Range(accepted) \union (IF sent THEN {Head(x)} ELSE {})
    BY <1>4, <1>8, PassedFacts
  <2>2. /\ listener'.box \in Seq(Desc) /\ Once(listener'.box)
        /\ Range(listener'.box) = IF done THEN {} ELSE Range(Tail(x))
    BY ZenonT(40), <1>3, <1>6, EmptyFacts
  <2>3. D \subseteq Desc
    BY <1>5, PassedFacts
  <2>4. Range(accepted') \intersect Range(listener'.box) = {}
        /\ Range(accepted') \intersect Range(listener'.backlog) = {}
        /\ Range(listener'.box) \intersect Range(listener'.backlog) = {}
    BY <1>3, <1>6, <2>1, <2>2, PassedFacts
  <2>5. Range(accepted') \union Range(listener'.box) \union Range(listener'.backlog)
              \subseteq (Range(accepted) \union InBox \union InBacklog) \ D
    BY <1>3, <1>5, <1>6, <2>1, <2>2, PassedFacts
  <2> QED BY Zenon, <1>6, <1>7, <2>1, <2>2, <2>3, <2>4, <2>5, PassedFacts, PassedStep
<1> QED BY <1>1, <1>2, <1>6, <1>7, <1>9, MoveStep

\* The listen service is told to stop.
LEMMA ListenStopInv ==
    ASSUME HandInv, ListenQuiesce \/ ListenTerminate
    PROVE  HandInv'
<1>1. UNCHANGED <<setup, accepted, svc, up, down, client, sealed>>
  BY DEF ListenQuiesce, ListenTerminate
<1>2. SvcShape' /\ SvcKeeps
  BY <1>1, SvcSame
<1>3. CASE ListenQuiesce
  <2>1. DOMAIN listener' = ListenerFields /\ listener'.box = listener.box
        /\ listener'.backlog = listener.backlog
    BY <1>3, PassedFacts DEF ListenQuiesce, ListenFiberUnexpectedHandler,
                             AcceptEndpointUnexpectedHandler, ListenerFields
  <2> QED BY <1>1, <1>2, <1>3, <2>1, OtherStep DEF ListenQuiesce
<1>4. CASE ListenTerminate
  <2> DEFINE D == InBacklog \union InBox
  <2>1. DOMAIN listener' = ListenerFields /\ listener'.box = <<>> /\ listener'.backlog = <<>>
    BY <1>4, PassedFacts DEF ListenTerminate, ListenerFields
  <2>2. conn' = Close(D)
    BY <1>4 DEF ListenTerminate
  <2>3. D \subseteq Desc /\ \A d \in D : conn[d].pc # "none"
    BY PassedFacts
  <2>4. Range(accepted) \subseteq (Range(accepted) \union InBox \union InBacklog) \ D
    BY PassedFacts
  <2> HIDE DEF D
  <2>5. /\ DOMAIN conn' = Desc /\ \A d \in Desc : Moves(d)
        /\ \A d \in Desc \ D : conn'[d] = conn[d]
    BY <2>2, <2>3, CloseFacts
  <2>6. Passed'
    <3>1. /\ listener'.box \in Seq(Desc) /\ Once(listener'.box) /\ Range(listener'.box) = {}
          /\ listener'.backlog \in Seq(Desc) /\ Once(listener'.backlog)
          /\ Range(listener'.backlog) = {}
      BY <2>1, EmptyFacts
    <3>2. accepted' \in Seq(Desc) /\ Once(accepted')
          /\ Range(accepted') \subseteq (Range(accepted) \union InBox \union InBacklog) \ D
      BY <1>1, <2>4, PassedFacts
    <3>3. /\ Range(accepted') \intersect Range(listener'.box) = {}
          /\ Range(accepted') \intersect Range(listener'.backlog) = {}
          /\ Range(listener'.box) \intersect Range(listener'.backlog) = {}
          /\ Range(accepted') \union Range(listener'.box) \union Range(listener'.backlog)
                \subseteq (Range(accepted) \union InBox \union InBacklog) \ D
      BY <3>1, <3>2
    <3> QED BY ZenonT(40), <2>3, <2>5, <3>1, <3>2, <3>3, PassedStep
  <2> QED BY <1>1, <1>2, <2>1, <2>5, <2>6, MoveStep
<1> QED BY <1>3, <1>4

\* The protocol service runs, or is told to stop.
LEMMA RunInv ==
    ASSUME HandInv, ProtocolserviceRun \/ Quiesce
    PROVE  HandInv'
<1>1. UNCHANGED <<setup, listener, accepted, conn, up, down, client, sealed>>
  BY DEF ProtocolserviceRun, Quiesce
<1>2. SvcShape
  BY DEF HandInv, Shapes
<1>3. CASE ProtocolserviceRun
  <2>1. DOMAIN svc' = SvcFields /\ svc'.entities = [i \in {} |-> None] /\ svc.pc = "starting"
    BY <1>3 DEF ProtocolserviceRun, ContextCreate, AcceptFiberAdd, ControlFiberAdd, SvcFields
  <2>2. SvcShape' /\ SvcKeeps
    BY <2>1 DEF SvcShape, SvcKeeps
  <2> QED BY <1>1, <2>2, ListenerSame, OtherStep
<1>4. CASE Quiesce
  <2>1. DOMAIN svc' = SvcFields /\ svc'.entities = svc.entities /\ svc'.pc = svc.pc
    BY <1>2, <1>4 DEF Quiesce, SvcShape, SvcFields
  <2> QED BY <1>1, <2>1, SvcFlags, ListenerSame, OtherStep
<1> QED BY <1>3, <1>4

\* Descriptors on the way to a service that has ended stay, or are closed.
LEMMA OutlivedFacts ==
    ASSUME NEW S, NEW s \in Seq(S), Once(s)
    PROVE  /\ Undelivered(s) \in Seq(S) /\ Once(Undelivered(s))
           /\ Range(Undelivered(s)) \subseteq Range(s) /\ Outlived(s) \subseteq Range(s)
           /\ Range(Undelivered(s)) \intersect Outlived(s) = {}
  BY EmptyFacts DEF Undelivered, Outlived

\* What the service holds when it exits.
LEMMA HeldFacts ==
    ASSUME HandInv
    PROVE  /\ Held \subseteq Desc /\ \A d \in Held : conn[d].pc # "none"
           /\ Range(Undelivered(accepted)) \intersect Held = {}
           /\ \A d \in InBox \union InBacklog : d \notin Held
<1>1. DOMAIN conn = Desc
  BY DEF HandInv, Shapes
<1>2. /\ Outlived(accepted) \subseteq Range(accepted)
      /\ Range(Undelivered(accepted)) \subseteq Range(accepted)
      /\ Range(Undelivered(accepted)) \intersect Outlived(accepted) = {}
  BY PassedFacts, OutlivedFacts
<1> QED BY <1>1, <1>2, PassedFacts DEF Held

\* A service that has ended keeps its entities.
LEMMA ExitedFacts ==
    ASSUME HandInv, svc' = Exited
    PROVE  SvcShape' /\ SvcKeeps /\ svc'.pc = "exited"
<1>1. SvcShape
  BY DEF HandInv, Shapes
<1>2. DOMAIN svc' = SvcFields /\ svc'.entities = svc.entities /\ svc'.pc = "exited"
  BY <1>1 DEF Exited, SvcShape, SvcFields
<1> QED BY <1>2, SvcFlags

\* All that was accepted is closed.
LEMMA AllClosed ==
    ASSUME HandInv, conn' = Close(Held), accepted' = Undelivered(accepted), listener' = listener
    PROVE  /\ DOMAIN conn' = Desc /\ \A d \in Desc : Moves(d)
           /\ \A d \in Desc \ Held : conn'[d] = conn[d]
           /\ Passed'
<1>1. /\ DOMAIN conn' = Desc /\ \A d \in Desc : Moves(d)
      /\ \A d \in Desc \ Held : conn'[d] = conn[d]
  BY HeldFacts, CloseFacts
<1>4. /\ accepted' \in Seq(Desc) /\ Once(accepted') /\ Range(accepted') \subseteq Range(accepted)
      /\ Range(accepted') \intersect Held = {}
  BY PassedFacts, OutlivedFacts, HeldFacts
<1>2. /\ Range(accepted') \union InBox \union InBacklog
            \subseteq (Range(accepted) \union InBox \union InBacklog) \ Held
      /\ Range(accepted') \intersect InBox = {} /\ Range(accepted') \intersect InBacklog = {}
  BY <1>4, HeldFacts, PassedFacts
<1>3. Passed'
  BY ZenonT(40), <1>1, <1>2, <1>4, HeldFacts, PassedFacts, PassedStep
<1> QED BY <1>1, <1>3

\* The protocol service fails to start.
LEMMA RunFailsInv ==
    ASSUME HandInv, ProtocolserviceRunFails
    PROVE  HandInv'
<1>1. UNCHANGED <<setup, listener, up, down, client, sealed>>
      /\ svc' = Exited /\ conn' = Close(Held) /\ accepted' = Undelivered(accepted)
  BY DEF ProtocolserviceRunFails
<1> QED BY <1>1, ExitedFacts, AllClosed, ListenerSame, MoveStep

\* The supervisor dies, and with it what is on the way to a service that has ended.
LEMMA SupervisorGoneInv ==
    ASSUME HandInv, SupervisorGone
    PROVE  HandInv'
<1>1. UNCHANGED <<setup, listener, svc, up, down, client, sealed>>
  BY DEF SupervisorGone
<1>2. PICK D : /\ conn' = Close(D)
               /\ \/ D = {} /\ accepted' = accepted
                  \/ D = Range(accepted) /\ accepted' = <<>>
  BY DEF SupervisorGone
<1>3. D \subseteq Range(accepted) /\ D \subseteq Desc
  BY <1>2, PassedFacts
<1>4. /\ DOMAIN conn' = Desc /\ \A d \in Desc : Moves(d)
      /\ \A d \in Desc \ D : conn'[d] = conn[d]
  BY <1>2, <1>3, PassedFacts, CloseFacts
<1>5. /\ accepted' \in Seq(Desc) /\ Once(accepted') /\ Range(accepted') \subseteq Range(accepted)
      /\ Range(accepted') \intersect D = {}
  BY Zenon, <1>2, PassedFacts, EmptyFacts
<1>6. /\ Range(accepted') \union InBox \union InBacklog
            \subseteq (Range(accepted) \union InBox \union InBacklog) \ D
      /\ Range(accepted') \intersect InBox = {} /\ Range(accepted') \intersect InBacklog = {}
  BY <1>3, <1>5, PassedFacts
<1>7. Passed'
  BY ZenonT(40), <1>1, <1>3, <1>4, <1>5, <1>6, PassedFacts, PassedStep
<1> QED BY <1>1, <1>4, <1>7, SvcSame, ListenerSame, MoveStep

\* A descriptor gets its fiber.
LEMMA AcceptFiberInv ==
    ASSUME HandInv, AcceptFiber
    PROVE  HandInv'
<1> DEFINE desc == Head(accepted)
           rest == Tail(accepted)
<1>1. UNCHANGED <<setup, listener, up, down, client, sealed>>
  BY DEF AcceptFiber
<1>2. /\ desc \in Desc /\ desc \in Range(accepted) /\ rest \in Seq(Desc) /\ Once(rest)
      /\ Range(accepted) = Range(rest) \union {desc} /\ desc \notin Range(rest)
  BY PassedFacts, TailFacts DEF AcceptFiber
<1>3. PICK added \in BOOLEAN :
        IF svc.quiesce
        THEN /\ svc' = [svc EXCEPT !.accepting = FALSE]
             /\ conn' = [d \in DOMAIN conn |->
                  IF d \in Outlived(rest)
                  THEN [[conn EXCEPT ![desc].pc = IF added THEN "start" ELSE "closed"][d] EXCEPT !.pc = "closed"]
                  ELSE [conn EXCEPT ![desc].pc = IF added THEN "start" ELSE "closed"][d]]
             /\ accepted' = Undelivered(rest)
        ELSE /\ conn' = [conn EXCEPT ![desc].pc = IF added THEN "start" ELSE "closed"]
             /\ accepted' = rest
             /\ svc' = svc
  BY Zenon DEF AcceptFiber
<1> DEFINE next == [conn EXCEPT ![desc].pc = IF added THEN "start" ELSE "closed"]
<1>4. SvcShape /\ DOMAIN conn = Desc /\ svc.pc # "starting" /\ conn[desc].pc = "queued"
  BY <1>2, PassedFacts DEF HandInv, Shapes, AcceptFiber, Serving
<1>5. /\ DOMAIN svc' = SvcFields /\ svc'.entities = svc.entities /\ svc'.pc = svc.pc
  BY <1>3, <1>4 DEF SvcShape, SvcFields
<1>6. SvcShape' /\ SvcKeeps
  BY <1>5, SvcFlags
<1>7. /\ DOMAIN next = Desc /\ \A d \in Desc \ {desc} : next[d] = conn[d]
      /\ next[desc] = [conn[desc] EXCEPT !.pc = IF added THEN "start" ELSE "closed"]
  BY <1>2, <1>4
<1>8. Moves(desc) <=> conn'[desc] = conn[desc]
                      \/ conn'[desc] = [conn[desc] EXCEPT !.pc = "closed"]
                      \/ conn'[desc] = [conn[desc] EXCEPT !.pc = "start"]
  BY <1>4, <1>5 DEF Moves
<1> HIDE DEF next, desc, rest
<1>9. CASE svc.quiesce
  <2>1. /\ conn' = [d \in Desc |-> IF d \in Outlived(rest) THEN [next[d] EXCEPT !.pc = "closed"] ELSE next[d]]
        /\ accepted' = Undelivered(rest)
    BY <1>3, <1>4, <1>9 DEF next
  <2>7. /\ accepted' \in Seq(Desc) /\ Once(accepted')
        /\ Range(accepted') \subseteq Range(rest) /\ Outlived(rest) \subseteq Range(rest)
        /\ Range(accepted') \intersect Outlived(rest) = {}
    BY Zenon, <1>2, <2>1, OutlivedFacts
  <2> DEFINE D == Outlived(rest) \union {desc}
  <2>8. D \subseteq Desc /\ D \subseteq Range(accepted) /\ Range(accepted') \intersect D = {}
    BY <1>2, <2>7, PassedFacts
  <2>2. DOMAIN conn' = Desc /\ \A d \in Desc \ D : conn'[d] = conn[d]
    BY <1>2, <1>7, <2>1
  <2>3. \A d \in Outlived(rest) : Moves(d)
    <3>1. \A d \in Outlived(rest) : d \in Desc /\ d # desc /\ conn[d].pc = "queued"
      BY <1>2, <2>7, PassedFacts
    <3>2. \A d \in Outlived(rest) : conn'[d] = [conn[d] EXCEPT !.pc = "closed"]
      BY <1>7, <2>1, <3>1
    <3> QED BY <3>1, <3>2 DEF Moves
  <2>4. Moves(desc)
    <3>1. conn'[desc] = next[desc]
      BY <1>2, <2>1, <2>7
    <3> QED BY <1>7, <1>8, <3>1
  <2>5. \A d \in Desc : Moves(d)
    <3>1. \A d \in Desc \ D : Moves(d)
      BY <2>2 DEF Moves
    <3> QED BY <2>3, <2>4, <3>1
  <2> HIDE DEF D
  <2>6. Passed'
    <3>1. /\ Range(accepted') \union InBox \union InBacklog
                \subseteq (Range(accepted) \union InBox \union InBacklog) \ D
          /\ Range(accepted') \intersect InBox = {} /\ Range(accepted') \intersect InBacklog = {}
      BY <1>2, <2>7, <2>8, PassedFacts
    <3> QED BY ZenonT(40), <1>1, <2>2, <2>7, <2>8, <3>1, PassedFacts, PassedStep
  <2> QED BY <1>1, <1>6, <2>2, <2>5, <2>6, ListenerSame, MoveStep
<1>10. CASE ~svc.quiesce
  <2>1. conn' = next /\ accepted' = rest
    BY <1>3, <1>10 DEF next
  <2>2. DOMAIN conn' = Desc /\ \A d \in Desc \ {desc} : conn'[d] = conn[d]
    BY <1>7, <2>1
  <2>3. \A d \in Desc : Moves(d)
    <3>1. Moves(desc)
      BY <1>7, <1>8, <2>1
    <3>2. \A d \in Desc \ {desc} : Moves(d)
      BY <2>2 DEF Moves
    <3> QED BY <3>1, <3>2
  <2>4. Passed'
    <3>1. Range(rest) \union InBox \union InBacklog
            \subseteq (Range(accepted) \union InBox \union InBacklog) \ {desc}
          /\ {desc} \subseteq Desc
      BY <1>2, PassedFacts
    <3>2. Range(rest) \intersect InBox = {} /\ Range(rest) \intersect InBacklog = {}
      BY <1>2, PassedFacts
    <3> QED BY ZenonT(40), <1>1, <1>2, <2>1, <2>2, <3>1, <3>2, PassedFacts, PassedStep
  <2> QED BY <1>1, <1>6, <2>2, <2>3, <2>4, ListenerSame, MoveStep
<1> QED BY <1>9, <1>10

\* A fiber that begins its handshake, or ends because its client has left.
LEMMA FiberMovesInv ==
    ASSUME HandInv, NEW d \in Desc, FiberStarts(d) \/ DataFiberEnds(d)
    PROVE  HandInv'
<1>1. UNCHANGED <<setup, listener, accepted, svc, up, down, client, sealed>>
  BY DEF FiberStarts, DataFiberEnds
<1>2. DOMAIN conn = Desc
  BY DEF HandInv, Shapes
<1>3. DOMAIN conn' = Desc /\ \A x \in Desc \ {d} : conn'[x] = conn[x]
  BY <1>2 DEF FiberStarts, DataFiberEnds
<1>4. Moves(d)
  <2>1. CASE FiberStarts(d)
    <3>1. conn'[d] = HandleHandshake(d) /\ conn[d].pc = "start"
      BY <1>2, <2>1 DEF FiberStarts
    <3> QED BY <3>1 DEF HandleHandshake, Moves
  <2>2. CASE DataFiberEnds(d)
    <3>1. conn'[d] = [conn[d] EXCEPT !.pc = "closed"] /\ conn[d].pc # "none"
      BY <1>2, <2>2 DEF DataFiberEnds
    <3> QED BY <3>1 DEF Moves
  <2> QED BY <2>1, <2>2
<1>5. \A x \in Desc : Moves(x)
  BY <1>3, <1>4 DEF Moves
<1>6. Passed'
  <2>1. d \notin Range(accepted) \union InBox \union InBacklog
    BY PassedFacts DEF FiberStarts, DataFiberEnds
  <2>2. Range(accepted) \union InBox \union InBacklog
          \subseteq (Range(accepted) \union InBox \union InBacklog) \ {d}
        /\ {d} \subseteq Desc
    BY <2>1
  <2> QED BY ZenonT(40), <1>1, <1>3, <2>2, PassedFacts, PassedStep
<1> QED BY <1>1, <1>3, <1>5, <1>6, SvcSame, ListenerSame, MoveStep
-----------------------------------------------------------------------------
(* The handshake.                                                            *)

\* A step of the fiber of one connection: what is left to show is about that connection
\* and, if its client is still there, that client.
LEMMA FiberStep ==
    ASSUME HandInv, NEW d \in Desc, conn[d].pc # "queued",
           UNCHANGED <<setup, listener, accepted, svc, client>>,
           DOMAIN conn' = Desc, DOMAIN up' = Desc, DOMAIN down' = Desc,
           \A x \in Desc \ {d} : conn'[x] = conn[x] /\ up'[x] = up[x] /\ down'[x] = down[x],
           DOMAIN conn'[d] = FiberFields, FiberInv(d)',
           client[d[1]].pc # "idle" /\ client[d[1]].conn = d => ClientInv(d[1])',
           SealInv'
    PROVE  HandInv'
<1>1. Shapes /\ SvcKeeps /\ d[1] \in Client
  BY SvcSame, DescFacts DEF HandInv
<1>2. Shapes'
  BY <1>1 DEF Shapes, SvcShape
<1>3. Passed'
  <2>1. Range(accepted) \union InBox \union InBacklog
          \subseteq (Range(accepted) \union InBox \union InBacklog) \ {d}
        /\ {d} \subseteq Desc
    BY PassedFacts
  <2> QED BY ZenonT(40), <2>1, PassedFacts, PassedStep
<1>4. \A x \in Desc \ {d} : Moves(x) /\ Same(x)
  BY DEF Moves, Same
<1>5. ASSUME NEW x \in Desc PROVE FiberInv(x)'
  <2>1. CASE x = d
    BY <2>1
  <2>2. CASE x # d
    <3>1. FiberInv(x) /\ Moves(x) /\ Same(x)
      BY <1>4, <2>2 DEF HandInv
    <3> QED BY <1>1, <3>1, FiberKeeps DEF Same
  <2> QED BY <2>1, <2>2
<1>6. ASSUME NEW c \in Client PROVE ClientInv(c)'
  <2>1. ClientInv(c)
    BY DEF HandInv
  <2>2. CASE client[c].pc # "idle" /\ client[c].conn = d
    <3>1. c = d[1]
      BY <2>1, <2>2, ClientDesc
    <3> QED BY <2>2, <3>1
  <2>3. CASE client[c].pc = "idle" \/ client[c].conn # d
    <3>1. client[c].pc # "idle" => client[c].conn \in Desc /\ client[c].conn # d
      BY <2>1, <2>3, ClientDesc
    <3>2. client[c].pc # "idle" => Moves(client[c].conn) /\ Same(client[c].conn)
      BY <1>4, <3>1
    <3> QED BY <1>1, <2>1, <3>1, <3>2, ClientKeeps
  <2> QED BY <2>2, <2>3
<1> QED BY <1>2, <1>3, <1>5, <1>6 DEF HandInv

\* What can be said of a connection whose fiber is not done, and of its client.
LEMMA AtConnection ==
    ASSUME HandInv, NEW d \in Desc
    PROVE  /\ FiberInv(d) /\ DOMAIN conn[d] = FiberFields
           /\ DOMAIN conn = Desc /\ DOMAIN up = Desc /\ DOMAIN down = Desc
           /\ d[1] \in Client /\ ClientInv(d[1])
           /\ conn[d].pc # "none" => d[2] <= client[d[1]].made
<1>1. /\ FiberInv(d) /\ DOMAIN conn[d] = FiberFields
      /\ DOMAIN conn = Desc /\ DOMAIN up = Desc /\ DOMAIN down = Desc
      /\ d[1] \in Client /\ ClientInv(d[1])
  BY DescFacts DEF HandInv, Shapes
<1>2. d[2] \in Nat /\ client[d[1]].made \in Nat
  BY <1>1, DescFacts, AttemptsAssumption DEF ClientInv
<1>3. conn[d].pc # "none" => ~(d[2] > client[d[1]].made)
  BY <1>1 DEF FiberInv
<1> QED BY <1>1, <1>2, <1>3

\* The sequence numbers of the two directions are apart.
LEMMA HighBitFacts == HighBit \in Nat /\ HighBit > 2
  BY SMT DEF HighBit

\* The fields of a packet.
LEMMA PacketFacts ==
    ASSUME NEW k, NEW iv, NEW m
    PROVE  Packet(k, iv, m).key = k /\ Packet(k, iv, m).iv = iv /\ Packet(k, iv, m).m = m
  BY DEF Packet

\* The error that a fiber sends when it is told to stop is under its own key and iv.
LEMMA AuthedErrorFacts ==
    ASSUME NEW d
    PROVE  /\ AuthedError(d).key = conn[d].secret /\ AuthedError(d).iv = conn[d].server_iv
           /\ AuthedError(d).m[2] # "SUCCESS"
  BY PacketFacts DEF AuthedError

\* Packets that could be written, and packets that could not.
LEMMA SealedFacts ==
    ASSUME NEW s, NEW p
    PROVE  /\ Sealed(s, p, TRUE).sent = s.sent \union {p} /\ Sealed(s, p, TRUE).unsent = s.unsent
           /\ Sealed(s, p, FALSE).sent = s.sent
           /\ Sealed(s, p, FALSE).unsent = s.unsent \union {p}
  BY DEF Sealed

LEMMA WriteFacts == ASSUME NEW d PROVE WriteResults(d) \subseteq BOOLEAN
  BY DEF WriteResults

\* The last packets of a handshake: at most one is sent, and if one is lost then the
\* connection is closed.
LEMMA FiberSeals ==
    ASSUME HandInv, NEW d \in Desc, conn[d].pc = "ack", conn'[d].pc \in {"data", "closed"},
           \A x \in Desc \ {d} : conn'[x] = conn[x], client' = client,
           NEW new, NEW lost, NEW z,
           sealed'.sent = sealed.sent \union new, sealed'.unsent = sealed.unsent \union lost,
           z.key = conn[d].secret, z.iv = conn[d].server_iv, new \subseteq {z},
           \A p \in lost : p.key = conn[d].secret /\ conn'[d].pc = "closed"
    PROVE  SealInv'
<1>1. SealInv /\ Keyed(d)
  BY AtConnection DEF HandInv, FiberInv
<1>2. conn[d].secret[3] = KeyNonce(d) /\ conn[d].server_iv = HighBit + 1
  BY <1>1 DEF Keyed
<1>3. \A x \in Desc : EndsLater(x)
  BY DEF EndsLater
<1>4. SealedBy(z, d)'
  BY <1>2 DEF SealedBy
<1>5. ASSUME NEW q \in sealed.sent, NEW x \in Desc, z.key[3] = KeyNonce(x), SealedBy(q, x)
      PROVE  z.iv # q.iv
  <2>1. x = d
    BY <1>2, <1>5 DEF KeyNonce
  <2> QED BY <1>2, <1>5, <2>1, HighBitFacts DEF SealedBy
<1>6. \A p \in lost : LostBy(p, d)'
  BY <1>2 DEF LostBy, KeyNonce
<1>7. /\ \A p \in new : \E x \in Desc : SealedBy(p, x)'
      /\ \A p, q \in new : p.key = q.key => p = q
      /\ \A p \in lost : \E x \in Desc : LostBy(p, x)'
  BY <1>4, <1>6
<1>8. \A p \in new : \A q \in sealed.sent : \A x \in Desc :
         p.key[3] = KeyNonce(x) /\ SealedBy(q, x) => p.iv # q.iv
  BY <1>5
<1>9. \A c \in Client : \/ client'[c] = client[c]
                        \/ client'[c].made = client[c].made /\ client'[c].pc # "request"
  OBVIOUS
<1> QED BY ZenonT(40), <1>1, <1>3, <1>7, <1>8, <1>9, SealStep

LEMMA NoneMore == ASSUME NEW S PROVE S \union {} = S
  OBVIOUS

\* The client has left; if it was to send its acknowledgement, an error is written.
LEMMA ReadFailsInv ==
    ASSUME HandInv, NEW d \in Desc, ReadFails(d)
    PROVE  HandInv'
<1>1. /\ UNCHANGED <<setup, listener, accepted, svc, up, down, client>>
      /\ conn[d].pc \in {"request", "ack"} /\ conn' = [conn EXCEPT ![d].pc = "closed"]
      /\ \/ sealed' = sealed
         \/ conn[d].pc = "ack" /\ sealed' = Sealed(sealed, AuthedError(d), TRUE)
         \/ conn[d].pc = "ack" /\ sealed' = Sealed(sealed, AuthedError(d), FALSE)
  <2>1. PICK written \in WriteResults(d) :
           sealed' = IF conn[d].pc = "ack" THEN Sealed(sealed, AuthedError(d), written) ELSE sealed
    BY DEF ReadFails
  <2>2. written = TRUE \/ written = FALSE
    BY <2>1, WriteFacts
  <2>3. /\ UNCHANGED <<setup, listener, accepted, svc, up, down, client>>
        /\ conn[d].pc \in {"request", "ack"} /\ conn' = [conn EXCEPT ![d].pc = "closed"]
    BY DEF ReadFails
  <2> QED BY Zenon, <2>1, <2>2, <2>3
<1>2. DOMAIN conn = Desc /\ DOMAIN conn[d] = FiberFields
  BY DEF HandInv, Shapes
<1>3. /\ DOMAIN conn' = Desc /\ \A x \in Desc \ {d} : conn'[x] = conn[x]
      /\ conn'[d] = [conn[d] EXCEPT !.pc = "closed"] /\ conn'[d].pc = "closed"
  BY <1>1, <1>2 DEF FiberFields
<1>4. \A x \in Desc : Moves(x)
  BY <1>1, <1>3 DEF Moves
<1>5. Passed'
  <2>1. d \notin Range(accepted) \union InBox \union InBacklog
    BY <1>1, PassedFacts
  <2>2. Range(accepted) \union InBox \union InBacklog
          \subseteq (Range(accepted) \union InBox \union InBacklog) \ {d}
        /\ {d} \subseteq Desc
    BY <2>1
  <2> QED BY ZenonT(40), <1>1, <1>3, <2>2, PassedFacts, PassedStep
<1>6. SealInv'
  <2>1. CASE sealed' = sealed
    <3>1. SealInv /\ Shapes
      BY DEF HandInv
    <3>2. \A x \in Desc : EndsLater(x)
      BY <1>4, <3>1, MoveEnds
    <3> QED BY <1>1, <2>1, <3>1, <3>2, SealKeeps
  <2>2. CASE sealed' # sealed
    <3>1. PICK z : z = AuthedError(d)
      OBVIOUS
    <3>2. z.key = conn[d].secret /\ z.iv = conn[d].server_iv
      BY Zenon, <3>1, AuthedErrorFacts
    <3>3. \/ sealed' = Sealed(sealed, z, TRUE)
          \/ sealed' = Sealed(sealed, z, FALSE)
      BY <1>1, <2>2, <3>1
    <3>4. \/ sealed'.sent = sealed.sent \union {z} /\ sealed'.unsent = sealed.unsent
          \/ sealed'.sent = sealed.sent /\ sealed'.unsent = sealed.unsent \union {z}
      <4>1. CASE sealed' = Sealed(sealed, z, TRUE)
        BY <4>1, SealedFacts
      <4>2. CASE sealed' = Sealed(sealed, z, FALSE)
        BY <4>2, SealedFacts
      <4> QED BY <3>3, <4>1, <4>2
    <3>5. PICK new : (new = {z} \/ new = {}) /\ sealed'.sent = sealed.sent \union new
      BY Zenon, <3>4, NoneMore
    <3>6. PICK lost : (lost = {z} \/ lost = {}) /\ sealed'.unsent = sealed.unsent \union lost
      BY Zenon, <3>4, NoneMore
    <3>7. /\ conn[d].pc = "ack" /\ conn'[d].pc \in {"data", "closed"} /\ new \subseteq {z}
          /\ \A p \in lost : p.key = conn[d].secret /\ conn'[d].pc = "closed"
      BY <1>1, <1>3, <2>2, <3>2, <3>5, <3>6
    <3> QED BY ZenonT(40), <1>1, <1>3, <3>2, <3>5, <3>6, <3>7, FiberSeals
  <2> QED BY <2>1, <2>2
<1> QED BY <1>1, <1>3, <1>4, <1>5, <1>6, SvcSame, ListenerSame, SealingStep

\* The request that is read is the one that the client of the connection has sent.
LEMMA RequestFacts ==
    ASSUME HandInv, NEW d \in Desc, ReadHandshakeReq(d)
    PROVE  /\ Head(up[d]) = SendreqHandshakeRequest(d) /\ Tail(up[d]) = <<>>
           /\ Head(up[d])[5] = setup.client[d[1]].id /\ Head(up[d])[6] = KeyNonce(d)
<1>0. conn[d].pc = "request"
  BY DEF ReadHandshakeReq
<1>1. up[d] = <<SendreqHandshakeRequest(d)>>
  BY <1>0, AtConnection DEF FiberInv
<1>2. Head(up[d]) = SendreqHandshakeRequest(d) /\ Tail(up[d]) = <<>>
  BY <1>1
<1>3. /\ SendreqHandshakeRequest(d)[5] = setup.client[d[1]].id
      /\ SendreqHandshakeRequest(d)[6] = KeyNonce(d)
  BY DEF SendreqHandshakeRequest
<1> QED BY Zenon, <1>2, <1>3

\* Sequences of at most two packets.
LEMMA AppendShort ==
    ASSUME NEW a, NEW b
    PROVE  /\ Append(<<>>, a) = <<a>> /\ Append(<<a>>, b) = <<a, b>>
           /\ Head(<<a>>) = a /\ Tail(<<a>>) = <<>> /\ Head(<<a, b>>) = a
<1>1. Append(<<>>, a) = <<a>>
  OBVIOUS
<1>2. Append(<<a>>, b) = <<a, b>>
  <2> DEFINE t == Append(<<a>>, b)
             S == {a, b}
  <2>1. <<a>> \in Seq(S) /\ Len(<<a>>) = 1 /\ b \in S
    OBVIOUS
  <2>2. <<a, b>> \in Seq(S) /\ Len(<<a, b>>) = 2
    OBVIOUS
  <2> HIDE DEF S
  <2>3. t \in Seq(S) /\ Len(t) = 2 /\ t[1] = a /\ t[2] = b
    BY <2>1
  <2> HIDE DEF t
  <2>4. t = <<a, b>>
    BY <2>2, <2>3
  <2> QED BY <2>4 DEF t
<1>3. Head(<<a>>) = a /\ Tail(<<a>>) = <<>> /\ Head(<<a, b>>) = a
  OBVIOUS
<1> QED BY <1>1, <1>2, <1>3

Errors ==
    {"NONE", "HANDSHAKE_INITIATE"} \X {"MALFORMED_REQUEST", "UNAUTHORIZED", "PRNG_REQUEST_FAILURE"}

\* A fiber reads the request of its client.
LEMMA ReadHandshakeReqInv ==
    ASSUME HandInv, NEW d \in Desc, ReadHandshakeReq(d)
    PROVE  HandInv'
<1> DEFINE m == Head(up[d])
           error == IF HandshakeReqError(m) # None THEN HandshakeReqError(m)
                    ELSE IF AuthorizedEntityLookup(m[5]) # None THEN AuthorizedEntityLookup(m[5])
                    ELSE RandomEndpointError
<1>1. /\ UNCHANGED <<setup, listener, accepted, svc, client, sealed>>
      /\ conn[d].pc = "request" /\ up' = [up EXCEPT ![d] = Tail(@)]
  BY DEF ReadHandshakeReq
<1>2. /\ FiberInv(d) /\ DOMAIN conn[d] = FiberFields
      /\ DOMAIN conn = Desc /\ DOMAIN up = Desc /\ DOMAIN down = Desc
      /\ d[1] \in Client /\ ClientInv(d[1])
      /\ d[2] <= client[d[1]].made
  BY <1>1, AtConnection
<1>3. m[5] = setup.client[d[1]].id /\ m[6] = KeyNonce(d) /\ Tail(up[d]) = <<>>
  BY RequestFacts
<1>4. up'[d] = <<>> /\ DOMAIN up' = Desc /\ \A x \in Desc \ {d} : up'[x] = up[x]
  BY <1>1, <1>2, <1>3
<1>5. client[d[1]].pc # "idle" /\ client[d[1]].conn = d => client[d[1]].pc = "request" /\ down[d] = <<>>
  BY <1>1, <1>2, ClientWaits
<1>6. IF error # None
      THEN /\ down' = WriteErrorResponse(d, error[1], error[2])
           /\ conn' = [conn EXCEPT ![d].pc = "closed"]
      ELSE /\ conn' = [conn EXCEPT ![d].pc = "random", ![d].entity = m[5],
                           ![d].client_key_nonce = m[6], ![d].client_challenge_nonce = m[7]]
           /\ down' = down
  BY DEF ReadHandshakeReq
<1>7. error = None \/ error \in Errors
  BY DEF HandshakeReqError, AuthorizedEntityLookup, RandomEndpointError, Errors
<1>8. error = None => m[5] \in DOMAIN svc.entities
  BY NoneAssumption DEF AuthorizedEntityLookup
<1>9. svc.pc # "starting"
  BY DEF ReadHandshakeReq, Serving
<1> HIDE DEF error, m
<1>10. CASE error # None
  <2> DEFINE e == <<error[1], error[2], 0>>
  <2>1. e[2] # "SUCCESS"
    BY <1>7, <1>10 DEF Errors
  <2>2. down' = IF client[d[1]].conn = d THEN [down EXCEPT ![d] = Append(@, e)] ELSE down
    BY <1>6, <1>10 DEF WriteErrorResponse, Answered
  <2>3. DOMAIN down' = Desc /\ \A x \in Desc \ {d} : down'[x] = down[x]
    BY <1>2, <2>2
  <2>4. /\ DOMAIN conn' = Desc /\ DOMAIN conn'[d] = FiberFields /\ conn'[d].pc = "closed"
        /\ \A x \in Desc \ {d} : conn'[x] = conn[x]
    BY <1>2, <1>6, <1>10 DEF FiberFields
  <2>5. FiberInv(d)'
    BY ZenonT(40), <1>1, <1>2, <2>4 DEF FiberInv
  <2> HIDE DEF e
  <2>6. ASSUME client[d[1]].pc # "idle", client[d[1]].conn = d PROVE ClientInv(d[1])'
    <3>1. client'[d[1]].pc = "request" /\ client'[d[1]].conn = d
      BY <1>1, <1>5, <2>6
    <3>2. down'[d] = <<e>>
      <4>1. down'[d] = Append(down[d], e)
        BY <1>2, <2>2, <2>6
      <4> QED BY Zenon, <1>5, <2>6, <4>1, AppendShort
    <3>3. Requested(d)'
      <4>0. PICK z : z = e
        OBVIOUS
      <4>1. /\ <<z>> # <<>> /\ <<z>>[1] = z /\ IsRefusal(z) /\ down'[d] = <<z>>
        BY <2>1, <3>2, <4>0 DEF IsRefusal
      <4>2. ASSUME NEW u, NEW x PROVE RequestedAs(d, "closed", u, <<z>>, x)'
        BY <4>1 DEF RequestedAs
      <4> QED BY <2>4, <4>1, <4>2 DEF Requested
    <3> QED BY ZenonT(40), <1>1, <1>2, <3>1, <3>3 DEF ClientInv
  <2>7. SealInv'
    BY <1>1, <2>4, SealKeeps DEF HandInv, EndsLater
  <2> QED BY <1>1, <1>4, <2>3, <2>4, <2>5, <2>6, <2>7, FiberStep
<1>11. CASE error = None
  <2>1. /\ DOMAIN conn' = Desc /\ DOMAIN conn'[d] = FiberFields /\ conn'[d].pc = "random"
        /\ conn'[d].entity = m[5] /\ conn'[d].client_key_nonce = m[6]
        /\ \A x \in Desc \ {d} : conn'[x] = conn[x]
    BY <1>2, <1>6, <1>11 DEF FiberFields
  <2>2. down' = down
    BY <1>6, <1>11
  <2>3. FiberInv(d)'
    <3>1. Knows(d)'
      BY <1>1, <1>3, <1>8, <1>9, <1>11, <2>1 DEF Knows
    <3>2. ~(d[2] > client'[d[1]].made)
      BY SMTT(20), <1>1, <1>2, DescFacts, AttemptsAssumption DEF ClientInv
    <3> QED BY <1>4, <2>1, <3>1, <3>2 DEF FiberInv
  <2>4. ASSUME client[d[1]].pc # "idle", client[d[1]].conn = d PROVE ClientInv(d[1])'
    <3>1. client'[d[1]].pc = "request" /\ client'[d[1]].conn = d /\ down'[d] = <<>>
      BY <1>1, <1>5, <2>2, <2>4
    <3>2. Requested(d)'
      BY <2>1, <3>1 DEF Requested, RequestedAs
    <3> QED BY ZenonT(40), <1>1, <1>2, <3>1, <3>2 DEF ClientInv
  <2>5. SealInv'
    BY <1>1, <2>1, SealKeeps DEF HandInv, EndsLater
  <2> QED BY <1>1, <1>2, <1>4, <2>1, <2>2, <2>3, <2>4, <2>5, FiberStep
<1> QED BY <1>10, <1>11

\* The response carries the key and the nonce that its secret was made of.
LEMMA ResponseFacts ==
    ASSUME NEW cn
    PROVE  LET m == HandshakeReqResp(cn) IN
           m[7] = svc.key /\ m[8] = cn.server_key_nonce /\ m[10][1] = cn.secret
<1> DEFINE payload == <<"HANDSHAKE_INITIATE", "SUCCESS", 0, 1, "VELO_V1", svc.id, svc.key,
                     cn.server_key_nonce, cn.server_challenge_nonce>>
           mac == Mac(cn.secret, Append(payload, cn.client_challenge_nonce))
           S == {"HANDSHAKE_INITIATE", "SUCCESS", 0, 1, "VELO_V1", svc.id, svc.key,
                     cn.server_key_nonce, cn.server_challenge_nonce, mac}
<1>1. HandshakeReqResp(cn) = Append(payload, mac)
  BY DEF HandshakeReqResp
<1>2. mac[1] = cn.secret
  BY DEF Mac
<1> HIDE DEF mac
<1>3. payload \in Seq(S) /\ mac \in S
  OBVIOUS
<1>4. Len(payload) = 9 /\ payload[7] = svc.key /\ payload[8] = cn.server_key_nonce
  OBVIOUS
<1> HIDE DEF payload, S
<1>5. /\ Append(payload, mac)[Len(payload) + 1] = mac
      /\ \A i \in 1..Len(payload) : Append(payload, mac)[i] = payload[i]
  BY <1>3
<1> DEFINE t == Append(payload, mac)
<1> HIDE DEF t
<1>6. t[10] = mac /\ t[7] = payload[7] /\ t[8] = payload[8]
  <2>1. t[Len(payload) + 1] = mac /\ \A i \in 1..Len(payload) : t[i] = payload[i]
    BY <1>5 DEF t
  <2> QED BY <1>4, <2>1
<1> QED BY <1>1, <1>2, <1>4, <1>6 DEF t

\* It receives its random bytes and sends its response.
LEMMA ReadRandomBytesInv ==
    ASSUME HandInv, NEW d \in Desc, ReadRandomBytes(d)
    PROVE  HandInv'
<1> DEFINE bytes == random.mail[d]
           cn == ComputeSharedSecret([conn[d] EXCEPT !.server_challenge_nonce = bytes[1],
                                                     !.server_key_nonce = bytes[2]])
           refusal == <<"HANDSHAKE_INITIATE", "UNAUTHORIZED", 0>>
<1>0. PICK written :
         /\ UNCHANGED <<setup, listener, accepted, svc, up, client, sealed>> /\ svc.pc # "starting"
         /\ conn[d].pc = "random"
         /\ conn' = [conn EXCEPT ![d] = [cn EXCEPT !.pc = IF written THEN "ack" ELSE "closed"]]
         /\ down' = IF written THEN Answered(d, HandshakeReqResp(cn))
                    ELSE WriteErrorResponse(d, "HANDSHAKE_INITIATE", "UNAUTHORIZED")
  BY ZenonT(40) DEF ReadRandomBytes, Serving
<1>1. PICK q :
         /\ UNCHANGED <<setup, listener, accepted, svc, up, client, sealed>> /\ svc.pc # "starting"
         /\ conn[d].pc = "random"
         /\ conn' = [conn EXCEPT ![d] = [cn EXCEPT !.pc = q]]
         /\ \/ q = "ack" /\ down' = Answered(d, HandshakeReqResp(cn))
            \/ q = "closed" /\ down' = Answered(d, refusal)
  <2> HIDE DEF cn
  <2>1. CASE written
    BY ZenonT(40), <1>0, <2>1
  <2>2. CASE ~written
    BY ZenonT(40), <1>0, <2>2 DEF WriteErrorResponse
  <2> QED BY <2>1, <2>2
<1>2. /\ FiberInv(d) /\ DOMAIN conn[d] = FiberFields
      /\ DOMAIN conn = Desc /\ DOMAIN up = Desc /\ DOMAIN down = Desc
      /\ d[1] \in Client /\ ClientInv(d[1])
      /\ d[2] <= client[d[1]].made
  BY <1>1, AtConnection
<1>3. Knows(d) /\ up[d] = <<>>
  BY <1>1, <1>2 DEF FiberInv
<1>4. /\ DOMAIN cn = FiberFields /\ cn.entity = conn[d].entity
      /\ cn.client_key_nonce = conn[d].client_key_nonce
      /\ cn.client_iv = 1 /\ cn.server_iv = HighBit + 1
      /\ cn.secret = <<{svc.key, KeyOf(d)}, cn.server_key_nonce, conn[d].client_key_nonce>>
  BY <1>2 DEF ComputeSharedSecret, FiberFields, Secret, KeyOf
<1> HIDE DEF cn, bytes
<1>5. PICK m : /\ m = HandshakeReqResp(cn) /\ m[7] = svc.key /\ m[8] = cn.server_key_nonce
               /\ m[10][1] = cn.secret
  BY ResponseFacts
<1>6. /\ DOMAIN conn' = Desc /\ DOMAIN conn'[d] = FiberFields
      /\ conn'[d].pc = q
      /\ conn'[d].entity = conn[d].entity /\ conn'[d].secret = cn.secret
      /\ conn'[d].client_key_nonce = conn[d].client_key_nonce
      /\ conn'[d].client_iv = 1 /\ conn'[d].server_iv = HighBit + 1
      /\ \A x \in Desc \ {d} : conn'[x] = conn[x]
  BY <1>1, <1>2, <1>4 DEF FiberFields
<1> HIDE DEF refusal
<1>14. PICK z : /\ (q = "ack" /\ z = m) \/ (q = "closed" /\ z = refusal)
                /\ down' = IF client[d[1]].conn = d THEN [down EXCEPT ![d] = Append(@, z)] ELSE down
  BY ZenonT(40), <1>1, <1>5 DEF Answered
<1>8. /\ DOMAIN down' = Desc /\ \A x \in Desc \ {d} : down'[x] = down[x]
      /\ client[d[1]].conn = d => down'[d] = Append(down[d], z)
  BY <1>2, <1>14
<1>9. Knows(d)'
  BY <1>1, <1>3, <1>6 DEF Knows
<1>10. Keyed(d)'
  <2>1. conn[d].client_key_nonce = KeyNonce(d)
    BY <1>3 DEF Knows
  <2> QED BY SMTT(20), <1>4, <1>6, <2>1 DEF Keyed
<1>11. FiberInv(d)'
  <2>1. ~(d[2] > client'[d[1]].made)
    BY <1>1, <1>2, DescFacts, AttemptsAssumption DEF ClientInv
  <2> QED BY <1>1, <1>6, <1>9, <1>10, <2>1 DEF FiberInv
<1>12. ASSUME client[d[1]].pc # "idle", client[d[1]].conn = d PROVE ClientInv(d[1])'
  <2>1. client[d[1]].pc = "request" /\ down[d] = <<>>
    BY <1>1, <1>2, <1>12, ClientWaits
  <2>2. client'[d[1]].pc = "request" /\ client'[d[1]].conn = d /\ up'[d] = <<>>
    BY <1>1, <1>3, <1>12, <2>1
  <2>3. down'[d] = <<z>>
    <3>1. down'[d] = Append(down[d], z)
      BY <1>8, <1>12
    <3> QED BY <2>1, <3>1, AppendShort
  <2>4. ASSUME q = "ack" PROVE Requested(d)'
    <3>1. conn[d].client_key_nonce = KeyNonce(d) /\ z = m
      BY <1>3, <1>14, <2>4 DEF Knows
    <3>2. KeyOf(d)' = KeyOf(d)
      BY <1>1, <1>6 DEF KeyOf
    <3>3. conn'[d].secret = <<{m[7], KeyOf(d)'}, m[8], KeyNonce(d)>>
      BY <1>4, <1>5, <1>6, <3>1, <3>2
    <3>4. m[10][1] = conn'[d].secret
      BY <1>5, <1>6
    <3>5. IsResponse(d, m)'
      BY <1>9, <1>10, <3>3, <3>4 DEF IsResponse
    <3>6. <<m>> # <<>> /\ <<m>>[1] = m
      OBVIOUS
    <3>7. ASSUME NEW x PROVE RequestedAs(d, "ack", <<>>, <<m>>, x)'
      BY <3>5, <3>6 DEF RequestedAs
    <3> QED BY <1>6, <2>2, <2>3, <2>4, <3>1, <3>7 DEF Requested
  <2>5. ASSUME q = "closed" PROVE Requested(d)'
    <3>1. <<z>> # <<>> /\ <<z>>[1] = z
      OBVIOUS
    <3>2. IsRefusal(z)
      BY <1>14, <2>5 DEF IsRefusal, refusal
    <3>3. ASSUME NEW x PROVE RequestedAs(d, "closed", <<>>, <<z>>, x)'
      BY <3>1, <3>2 DEF RequestedAs
    <3> QED BY <1>6, <2>2, <2>3, <2>5, <3>3 DEF Requested
  <2>6. Requested(d)'
    BY <1>1, <2>4, <2>5
  <2> QED BY <1>1, <1>2, <2>2, <2>6 DEF ClientInv
<1>13. SealInv'
  BY <1>1, <1>6, SealKeeps DEF HandInv, EndsLater
<1> QED BY <1>1, <1>2, <1>6, <1>8, <1>11, <1>12, <1>13, FiberStep

\* It reads the acknowledgement, and answers it.
LEMMA ReadHandshakeAckReqInv ==
    ASSUME HandInv, NEW d \in Desc, ReadHandshakeAckReq(d)
    PROVE  HandInv'
<1> DEFINE cn == conn[d]
<1>1. /\ UNCHANGED <<setup, listener, accepted, svc, client>> /\ svc.pc # "starting"
      /\ conn[d].pc = "ack" /\ up[d] # <<>> /\ up' = [up EXCEPT ![d] = Tail(@)]
      /\ \/ Acknowledges(d)
         \/ AcknowledgeFails(d, TRUE)
         \/ AcknowledgeFails(d, FALSE)
  <2>1. PICK written, reported \in WriteResults(d) :
           IF AckValid(d) /\ written THEN Acknowledges(d) ELSE AcknowledgeFails(d, reported)
    BY DEF ReadHandshakeAckReq
  <2>2. reported = TRUE \/ reported = FALSE
    BY <2>1, WriteFacts
  <2>3. /\ UNCHANGED <<setup, listener, accepted, svc, client>> /\ svc.pc # "starting"
        /\ conn[d].pc = "ack" /\ up[d] # <<>> /\ up' = [up EXCEPT ![d] = Tail(@)]
    BY DEF ReadHandshakeAckReq, Serving
  <2> QED BY Zenon, <2>1, <2>2, <2>3
<1>0. PICK ack : ack = AckResp(d, "SUCCESS")
  OBVIOUS
<1>16. PICK error : error = AckError(d)
  OBVIOUS
<1>15. /\ ack.key = cn.secret /\ ack.iv = cn.server_iv
       /\ error.key = cn.secret /\ error.iv = cn.server_iv /\ error.m[2] # "SUCCESS"
  <2>1. ack.key = cn.secret /\ ack.iv = cn.server_iv
    BY <1>0, PacketFacts DEF AckResp
  <2>2. PICK x : x = AckResp(d, "WRITE_FAILED")
    OBVIOUS
  <2>3. PICK y : y = AuthedError(d)
    OBVIOUS
  <2>4. error = x \/ error = y
    BY Zenon, <1>16, <2>2, <2>3 DEF AckError
  <2>5. x.key = cn.secret /\ x.iv = cn.server_iv /\ x.m[2] # "SUCCESS"
    BY SMTT(20), <2>2, PacketFacts DEF AckResp
  <2>6. y.key = cn.secret /\ y.iv = cn.server_iv /\ y.m[2] # "SUCCESS"
    BY <2>3, AuthedErrorFacts
  <2> QED BY <2>1, <2>4, <2>5, <2>6
\* The packet that may be sent, and what becomes of the connection.
<1>2. PICK next :
         \/ /\ next = "data" /\ down' = Answered(d, ack)
            /\ sealed'.sent = sealed.sent \union {ack} /\ sealed'.unsent = sealed.unsent
            /\ conn' = [conn EXCEPT ![d] =
                  [WriteHandshakeAckResp(cn) EXCEPT !.client_iv = @ + 1, !.pc = "data"]]
         \/ /\ next = "closed"
            /\ conn' = [conn EXCEPT ![d].pc = "closed"]
            /\ \/ /\ down' = Answered(d, error) /\ sealed'.sent = sealed.sent \union {error}
                  /\ \/ sealed'.unsent = sealed.unsent
                     \/ sealed'.unsent = sealed.unsent \union {ack}
               \/ /\ down' = down /\ sealed'.sent = sealed.sent
                  /\ \/ sealed'.unsent = sealed.unsent \union {error}
                     \/ sealed'.unsent = sealed.unsent \union {ack, error}
  <2>1. CASE Acknowledges(d)
    <3>1. /\ down' = Answered(d, ack) /\ sealed' = Sealed(sealed, ack, TRUE)
          /\ conn' = [conn EXCEPT ![d] =
                [WriteHandshakeAckResp(cn) EXCEPT !.client_iv = @ + 1, !.pc = "data"]]
      BY Zenon, <1>0, <2>1 DEF Acknowledges
    <3>2. sealed'.sent = sealed.sent \union {ack} /\ sealed'.unsent = sealed.unsent
      BY <3>1, SealedFacts
    <3> QED BY ZenonT(40), <3>1, <3>2
  <2>2. PICK here : (here = sealed \/ here = Sealed(sealed, ack, FALSE))
                    /\ here = IF AckValid(d) THEN Sealed(sealed, ack, FALSE) ELSE sealed
    BY Zenon
  <2>3. here.sent = sealed.sent /\ (here.unsent = sealed.unsent \/ here.unsent = sealed.unsent \union {ack})
    BY <2>2, SealedFacts
  <2>4. CASE AcknowledgeFails(d, TRUE)
    <3>1. /\ down' = Answered(d, error) /\ sealed' = Sealed(here, error, TRUE)
          /\ conn' = [conn EXCEPT ![d].pc = "closed"]
      BY Zenon, <1>0, <1>16, <2>2, <2>4 DEF AcknowledgeFails
    <3>2. sealed'.sent = here.sent \union {error} /\ sealed'.unsent = here.unsent
      BY <3>1, SealedFacts
    <3> QED BY ZenonT(40), <2>3, <3>1, <3>2
  <2>5. CASE AcknowledgeFails(d, FALSE)
    <3>1. /\ down' = down /\ sealed' = Sealed(here, error, FALSE)
          /\ conn' = [conn EXCEPT ![d].pc = "closed"]
      BY Zenon, <1>0, <1>16, <2>2, <2>5 DEF AcknowledgeFails
    <3>2. sealed'.sent = here.sent /\ sealed'.unsent = here.unsent \union {error}
      BY <3>1, SealedFacts
    <3>3. \/ sealed'.unsent = sealed.unsent \union {error}
          \/ sealed'.unsent = sealed.unsent \union {ack, error}
      BY <2>3, <3>2
    <3> QED BY ZenonT(40), <2>3, <3>1, <3>2, <3>3
  <2> QED BY <1>1, <2>1, <2>4, <2>5
<1> HIDE DEF cn
<1>17. PICK z : (next = "data" /\ z = ack) \/ (next = "closed" /\ z = error)
  BY <1>2
<1>18. PICK new : /\ (new = {} \/ new = {z}) /\ sealed'.sent = sealed.sent \union new
                  /\ down' = Answered(d, z) \/ down' = down
  BY <1>2, <1>17
<1>19. PICK lost : /\ lost \in {{}, {ack}, {error}, {ack, error}} /\ (lost = {} \/ next = "closed")
                   /\ sealed'.unsent = sealed.unsent \union lost
  <2>1. sealed.unsent = sealed.unsent \union {}
    BY NoneMore
  <2> QED BY ZenonT(40), <1>2, <2>1
<1> USE DEF cn
<1>3. /\ FiberInv(d) /\ DOMAIN conn[d] = FiberFields
      /\ DOMAIN conn = Desc /\ DOMAIN up = Desc /\ DOMAIN down = Desc
      /\ d[1] \in Client /\ ClientInv(d[1])
      /\ d[2] <= client[d[1]].made
  BY <1>1, AtConnection
<1>4. Knows(d) /\ Keyed(d)
  BY <1>1, <1>3 DEF FiberInv
<1>5. z.key = conn[d].secret /\ z.iv = conn[d].server_iv
  BY <1>15, <1>17
<1>6. DOMAIN up' = Desc /\ \A x \in Desc \ {d} : up'[x] = up[x]
  BY <1>1, <1>3
<1>7. down' = down \/ down' = [down EXCEPT ![d] = Append(@, z)]
  BY <1>18 DEF Answered
<1>8. /\ DOMAIN down' = Desc /\ \A x \in Desc \ {d} : down'[x] = down[x]
      /\ \/ down'[d] = down[d]
         \/ down'[d] = Append(down[d], z)
  BY <1>3, <1>7
<1>9. /\ DOMAIN conn' = Desc /\ \A x \in Desc \ {d} : conn'[x] = conn[x]
      /\ next = "closed" => conn'[d] = [cn EXCEPT !.pc = "closed"]
      /\ next = "data" => conn'[d] =
             [WriteHandshakeAckResp(cn) EXCEPT !.client_iv = @ + 1, !.pc = "data"]
      /\ next \in {"data", "closed"}
  BY <1>2, <1>3
<1>10. /\ DOMAIN conn'[d] = FiberFields /\ conn'[d].entity = conn[d].entity
       /\ conn'[d].secret = conn[d].secret
       /\ conn'[d].client_key_nonce = conn[d].client_key_nonce
       /\ conn'[d].pc = next /\ next \in {"data", "closed"}
       /\ next = "data" => conn'[d].client_iv = conn[d].client_iv + 1
                           /\ conn'[d].server_iv = conn[d].server_iv + 1
  BY <1>3, <1>9 DEF WriteHandshakeAckResp, FiberFields
<1>11. Knows(d)'
  BY <1>1, <1>4, <1>10 DEF Knows
<1>12. FiberInv(d)'
  <2>1. ~(d[2] > client'[d[1]].made)
    <3>1. PICK m \in 0..MaxAttempts : m = client[d[1]].made
      BY Zenon, <1>3 DEF ClientInv
    <3>2. d[2] <= m /\ d[2] \in 1..MaxAttempts
      BY Zenon, <1>3, <3>1, DescFacts
    <3>3. ~(d[2] > m)
      BY <3>1, <3>2, AttemptsAssumption
    <3>4. client'[d[1]].made = m
      BY <1>1, <3>1
    <3> QED BY Zenon, <3>3, <3>4
  <2>2. conn'[d].secret[3] = KeyNonce(d)
    BY <1>4, <1>10 DEF Keyed
  <2> QED BY ZenonT(40), <1>10, <1>11, <2>1, <2>2 DEF FiberInv
<1>13. ASSUME client[d[1]].pc # "idle", client[d[1]].conn = d PROVE ClientInv(d[1])'
  <2>1. PICK u, w, e, k : /\ u = up[d] /\ w = down[d] /\ e = AuthedError(d)
                          /\ k = client[d[1]].secret
    OBVIOUS
  <2>2. client[d[1]].pc = "ack" /\ Agreed(d[1], d) /\ w = <<>>
    <3>1. client[d[1]].pc # "request"
      <4> SUFFICES ASSUME client[d[1]].pc = "request" PROVE FALSE
        OBVIOUS
      <4>1. RequestedAs(d, "ack", u, w, e)
        BY ZenonT(40), <1>1, <1>3, <1>13, <2>1, ClientAt DEF Requested
      <4>2. u = <<>>
        BY <4>1 DEF RequestedAs
      <4> QED BY <1>1, <2>1, <4>2
    <3>2. client[d[1]].pc # "done"
      BY ZenonT(40), <1>1, <1>3, <1>13, ClientAt DEF Finished
    <3>3. client[d[1]].pc = "ack" /\ Acknowledged(d[1], d)
      BY ZenonT(40), <1>3, <1>13, <3>1, <3>2, ClientAt
    <3>4. Agreed(d[1], d) /\ AcknowledgedAs(d, "ack", u, w, k)
      BY Zenon, <1>1, <2>1, <3>3 DEF Acknowledged
    <3>5. w = <<>>
      BY <3>4 DEF AcknowledgedAs
    <3> QED BY <3>3, <3>4, <3>5
  <2>3. ASSUME next = "data"
        PROVE  AcknowledgedAs(d, conn[d].pc, up[d], down[d], client[d[1]].secret)'
    <3>1. /\ conn[d].secret[3] = KeyNonce(d) /\ conn[d].client_iv = 1
          /\ conn[d].server_iv = HighBit + 1
      BY <1>4 DEF Keyed
    <3>2. conn'[d].client_iv = conn[d].client_iv + 1 /\ conn'[d].server_iv = conn[d].server_iv + 1
          /\ conn'[d].pc = "data"
      BY <1>10, <2>3
    <3>3. conn'[d].client_iv = 2 /\ conn'[d].server_iv = HighBit + 2
      BY <3>1, <3>2, HighBitFacts
    <3>4. Moved(d)'
      BY <1>10, <3>1, <3>2, <3>3 DEF Moved
    <3>5. ASSUME NEW x, NEW y, NEW v PROVE AcknowledgedAs(d, "data", x, y, v)'
      BY <3>4 DEF AcknowledgedAs
    <3> QED BY <1>10, <2>3, <3>5
  <2>4. ASSUME next = "closed"
        PROVE  AcknowledgedAs(d, conn[d].pc, up[d], down[d], client[d[1]].secret)'
    <3>1. z.m[2] # "SUCCESS"
      BY <1>15, <1>17, <2>4
    <3>2. down'[d] = <<>> \/ down'[d] = <<z>>
      BY <1>8, <2>1, <2>2, AppendShort
    <3>3. ASSUME NEW x, NEW v PROVE AcknowledgedAs(d, "closed", x, <<>>, v)'
      BY DEF AcknowledgedAs
    <3>4. ASSUME NEW x, NEW v PROVE AcknowledgedAs(d, "closed", x, <<z>>, v)'
      <4>1. <<z>>[1] = z
        OBVIOUS
      <4> QED BY <3>1, <4>1 DEF AcknowledgedAs
    <3> QED BY <1>10, <2>4, <3>2, <3>3, <3>4
  <2>5. AcknowledgedAs(d, conn[d].pc, up[d], down[d], client[d[1]].secret)'
    BY <1>10, <2>3, <2>4
  <2>6. Agreed(d[1], d)'
    <3>1. KeyOf(d)' = KeyOf(d)
      BY <1>1, <1>10 DEF KeyOf
    <3> QED BY <1>1, <1>10, <1>11, <2>2, <3>1 DEF Agreed
  <2>7. Acknowledged(d[1], d)'
    BY ZenonT(40), <2>5, <2>6 DEF Acknowledged
  <2> QED BY <1>1, <1>3, <1>13, <2>2, <2>7 DEF ClientInv
<1>14. SealInv'
  <2>1. /\ \A p \in lost : p.key = conn[d].secret /\ conn'[d].pc = "closed"
        /\ conn'[d].pc \in {"data", "closed"} /\ new \subseteq {z}
    BY <1>10, <1>15, <1>18, <1>19
  <2>2. /\ conn[d].pc = "ack" /\ client' = client
        /\ sealed'.sent = sealed.sent \union new /\ sealed'.unsent = sealed.unsent \union lost
        /\ \A x \in Desc \ {d} : conn'[x] = conn[x]
    BY ZenonT(40), <1>1, <1>9, <1>18, <1>19
  <2> QED BY ZenonT(40), <1>5, <2>1, <2>2, FiberSeals
<1> QED BY Zenon, <1>1, <1>6, <1>8, <1>9, <1>10, <1>12, <1>13, <1>14, FiberStep

\* The error of a fiber that waits for random bytes.
RandomFailure == <<"HANDSHAKE_INITIATE", "PRNG_REQUEST_FAILURE", 0>>

\* The service exits; fibers that were told before may have written an error.
LEMMA ExitInv ==
    ASSUME HandInv, NEW told \in SUBSET {d \in Desc : conn[d].pc \in {"random", "ack"}}, Exit(told)
    PROVE  HandInv'
<1>1. /\ UNCHANGED <<setup, listener, up, client>>
      /\ svc' = Exited /\ conn' = Close(Held) /\ accepted' = Undelivered(accepted)
      /\ down' = LastWords(told)
  BY DEF Exit
<1>2. Shapes /\ SealInv /\ DOMAIN conn = Desc
  BY DEF HandInv, Shapes
<1>3. SvcShape' /\ SvcKeeps
  BY <1>1, ExitedFacts
<1>4. /\ DOMAIN conn' = Desc /\ (\A d \in Desc : Moves(d)) /\ Passed'
  BY <1>1, AllClosed
<1>5. /\ DOMAIN down' = Desc
      /\ \A d \in Desc :
          \/ down'[d] = down[d]
          \/ /\ d \in told /\ client[d[1]].conn = d /\ conn[d].pc = "random"
             /\ down'[d] = Append(down[d], RandomFailure)
          \/ /\ d \in told /\ client[d[1]].conn = d /\ conn[d].pc = "ack"
             /\ down'[d] = Append(down[d], AuthedError(d))
  <2>1. DOMAIN down' = Desc
    BY <1>1, <1>2 DEF LastWords
  <2>2. ASSUME NEW d \in Desc
        PROVE  \/ down'[d] = down[d]
               \/ /\ d \in told /\ client[d[1]].conn = d /\ conn[d].pc = "random"
                  /\ down'[d] = Append(down[d], RandomFailure)
               \/ /\ d \in told /\ client[d[1]].conn = d /\ conn[d].pc = "ack"
                  /\ down'[d] = Append(down[d], AuthedError(d))
    <3>1. PICK p, v, w, x : /\ p = conn[d].pc /\ v = down[d]
                            /\ w = Append(down[d], RandomFailure)
                            /\ x = Append(down[d], AuthedError(d))
      BY ZenonT(40)
    <3>2. PICK b : b = IF d \notin told \/ client[d[1]].conn # d THEN "no" ELSE "yes"
      OBVIOUS
    <3>3. down'[d] = IF b = "no" THEN v
                     ELSE CASE p = "random" -> w [] p = "ack" -> x [] OTHER -> v
      BY <1>1, <1>2, <3>1, <3>2 DEF LastWords, RandomFailure
    <3>4. \/ down'[d] = v
          \/ b # "no" /\ p = "random" /\ down'[d] = w
          \/ b # "no" /\ p = "ack" /\ down'[d] = x
      BY <3>3
    <3> QED BY <3>1, <3>2, <3>4
  <2> QED BY <2>1, <2>2
<1>6. Shapes'
  <2>1. \A d \in Desc : DOMAIN conn'[d] = FiberFields
    BY <1>2, <1>4, MoveFacts
  <2> QED BY <1>1, <1>2, <1>3, <1>4, <1>5, <2>1 DEF Shapes
<1>7. ASSUME NEW d \in Desc PROVE FiberInv(d)'
  <2>1. FiberInv(d) /\ (conn[d].pc # "none" => ~(d[2] > client[d[1]].made))
    BY AtConnection DEF FiberInv
  <2>2. d[2] > client[d[1]].made => down'[d] = down[d]
    BY <1>5, <2>1
  <2> QED BY ZenonT(40), <1>1, <1>2, <1>3, <1>4, <2>1, <2>2, FiberKeeps
<1>8. ASSUME NEW d \in Desc, conn[d].pc \in {"random", "ack"} PROVE conn'[d].pc = "closed"
  <2>1. d \in Held
    BY <1>2, <1>8 DEF Held
  <2>2. conn'[d] = [conn[d] EXCEPT !.pc = "closed"]
    BY <1>1, <1>2, <2>1 DEF Close
  <2> QED BY <1>2, <2>2 DEF Shapes, FiberFields
<1>9. ASSUME NEW c \in Client PROVE ClientInv(c)'
  <2>1. ClientInv(c)
    BY DEF HandInv
  <2>2. CASE client[c].pc = "idle"
    BY <1>1, <1>2, <1>3, <2>1, <2>2, ClientKeeps
  <2>3. CASE client[c].pc # "idle"
    <3>1. PICK d \in Desc : d = client[c].conn /\ d[1] = c
      BY <2>1, <2>3, ClientDesc
    <3>2. CASE down'[d] = down[d]
      BY ZenonT(40), <1>1, <1>2, <1>3, <1>4, <2>1, <3>1, <3>2, ClientKeeps DEF Same
    <3>3. CASE /\ conn[d].pc = "random"
               /\ down'[d] = Append(down[d], RandomFailure)
      <4>1. client[c].pc = "request" /\ down[d] = <<>>
        BY <2>1, <2>3, <3>1, <3>3, ClientWaits
      <4>2. down'[d] = <<RandomFailure>>
        BY <3>3, <4>1, AppendShort
      <4>3. conn'[d].pc = "closed"
        BY <1>8, <3>3
      <4>4. Requested(d)'
        <5>1. /\ <<RandomFailure>> # <<>> /\ <<RandomFailure>>[1] = RandomFailure
              /\ IsRefusal(RandomFailure)
          BY DEF RandomFailure, IsRefusal
        <5>2. ASSUME NEW u, NEW x PROVE RequestedAs(d, "closed", u, <<RandomFailure>>, x)'
          BY <5>1 DEF RequestedAs
        <5> QED BY <4>2, <4>3, <5>2 DEF Requested
      <4> QED BY ZenonT(40), <1>1, <2>1, <3>1, <4>1, <4>4 DEF ClientInv
    <3>4. CASE conn[d].pc = "ack" /\ down'[d] = Append(down[d], AuthedError(d))
      <4>1. conn'[d].pc = "closed" /\ Moves(d)
        BY <1>4, <1>8, <3>4
      <4>2. /\ conn'[d].entity = conn[d].entity /\ conn'[d].secret = conn[d].secret
            /\ conn'[d].client_key_nonce = conn[d].client_key_nonce
            /\ conn'[d].client_iv = conn[d].client_iv /\ conn'[d].server_iv = conn[d].server_iv
        BY <1>2, <4>1, MoveFacts
      <4>3. AuthedError(d)' = AuthedError(d)
        BY <4>2 DEF AuthedError
      <4>4. Knows(d)
        BY <3>4, AtConnection DEF FiberInv
      <4>5. Knows(d)' /\ KeyOf(d)' = KeyOf(d)
        BY ZenonT(40), <1>1, <1>2, <1>3, <4>2, <4>4, KnowsKeeps
      <4>0. PICK u, w, e, k : /\ u = up[d] /\ w = down[d] /\ e = AuthedError(d)
                              /\ k = client[c].secret
        OBVIOUS
      <4>6. CASE client[c].pc = "request"
        <5>0. RequestedAs(d, "ack", u, w, e)
          BY ZenonT(40), <2>1, <3>1, <3>4, <4>0, <4>6, ClientAt DEF Requested
        <5>1. PICK m : w = <<m>> /\ IsResponse(d, m)
          BY <5>0 DEF RequestedAs
        <5>2. down'[d] = <<m, e>>
          BY <3>4, <4>0, <5>1, AppendShort
        <5>3. IsResponse(d, m)'
          <6>1. Keyed(d)'
            BY <4>2, <5>1 DEF IsResponse, Keyed
          <6> QED BY ZenonT(40), <4>2, <4>5, <5>1, <6>1 DEF IsResponse
        <5>4. <<m, e>> # <<>> /\ <<m, e>>[1] = m
          OBVIOUS
        <5>5. RequestedAs(d, "closed", u, <<m, e>>, e)'
          BY <5>3, <5>4 DEF RequestedAs
        <5>6. Requested(d)'
          BY <1>1, <4>0, <4>1, <4>3, <5>2, <5>5 DEF Requested
        <5> QED BY ZenonT(40), <1>1, <2>1, <3>1, <4>6, <5>6 DEF ClientInv
      <4>7. CASE client[c].pc = "ack"
        <5>1. Agreed(c, d) /\ w = <<>>
          <6>1. Agreed(c, d) /\ AcknowledgedAs(d, "ack", u, w, k)
            BY ZenonT(40), <2>1, <3>1, <3>4, <4>0, <4>7, ClientAt DEF Acknowledged
          <6> QED BY <6>1 DEF AcknowledgedAs
        <5>2. down'[d] = <<e>>
          BY <3>4, <4>0, <5>1, AppendShort
        <5>3. Agreed(c, d)'
          BY Zenon, <1>1, <4>2, <4>5, <5>1 DEF Agreed
        <5>4. AcknowledgedAs(d, "closed", u, <<e>>, k)'
          <6>1. <<e>>[1] = e /\ e.m[2] # "SUCCESS"
            BY <4>0, AuthedErrorFacts
          <6> QED BY <6>1 DEF AcknowledgedAs
        <5>5. Acknowledged(c, d)'
          BY ZenonT(40), <1>1, <4>0, <4>1, <4>3, <5>2, <5>3, <5>4 DEF Acknowledged
        <5> QED BY ZenonT(40), <1>1, <2>1, <3>1, <4>7, <5>5 DEF ClientInv
      <4>8. client[c].pc \in {"request", "ack"}
        BY <2>1, <2>3, <3>1, <3>4, ClientAt DEF Finished
      <4> QED BY <4>6, <4>7, <4>8
    <3> QED BY <1>5, <3>2, <3>3, <3>4
  <2> QED BY <2>2, <2>3
<1>10. SealInv'
  <2> DEFINE last == {d \in told : conn[d].pc = "ack"}
             here == {d \in last : client[d[1]].conn = d}
  <2>8. PICK new : new = {AuthedError(d) : d \in here}
    OBVIOUS
  <2>9. PICK lost : lost = {AuthedError(d) : d \in last \ here}
    OBVIOUS
  <2>10. sealed' = [sent |-> sealed.sent \union new, unsent |-> sealed.unsent \union lost]
    BY Zenon, <2>8, <2>9 DEF Exit
  <2>1. /\ sealed'.sent = sealed.sent \union new /\ sealed'.unsent = sealed.unsent \union lost
        /\ \A p \in new \union lost : \E d \in told : conn[d].pc = "ack" /\ p = AuthedError(d)
    <3>1. sealed'.sent = sealed.sent \union new /\ sealed'.unsent = sealed.unsent \union lost
      BY <2>10
    <3>2. \A p \in new \union lost : \E d \in told : conn[d].pc = "ack" /\ p = AuthedError(d)
      BY ZenonT(40), <2>8, <2>9
    <3> QED BY <3>1, <3>2
  <2> HIDE DEF last, here
  <2>2. ASSUME NEW p \in new \union lost
        PROVE  \E d \in Desc : /\ conn[d].pc = "ack" /\ p = AuthedError(d)
                               /\ p.key[3] = KeyNonce(d) /\ p.iv = HighBit + 1
    <3>1. PICK d \in Desc : conn[d].pc = "ack" /\ p = AuthedError(d)
      BY <2>1
    <3>2. Keyed(d)
      BY <3>1, AtConnection DEF FiberInv
    <3>3. p.key = conn[d].secret /\ p.iv = conn[d].server_iv
      BY Zenon, <3>1, AuthedErrorFacts
    <3> QED BY <3>1, <3>2, <3>3 DEF Keyed
  <2>3. \A p \in new : \E d \in Desc : SealedBy(p, d)'
    <3>1. ASSUME NEW p \in new PROVE \E d \in Desc : SealedBy(p, d)'
      <4>1. p \in new \union lost
        OBVIOUS
      <4>2. PICK d \in Desc : /\ conn[d].pc = "ack" /\ p = AuthedError(d)
                              /\ p.key[3] = KeyNonce(d) /\ p.iv = HighBit + 1
        BY Zenon, <2>2, <4>1
      <4>3. conn'[d].pc = "closed"
        BY <1>8, <4>2
      <4> QED BY Zenon, <4>2, <4>3 DEF SealedBy, KeyNonce
    <3> QED BY <3>1
  <2>4. \A p \in lost : \E d \in Desc : LostBy(p, d)'
    BY <1>8, <2>2 DEF LostBy, KeyNonce
  <2>5. \A p, q \in new : p.key = q.key => p = q
    <3> SUFFICES ASSUME NEW p \in new, NEW q \in new, p.key = q.key PROVE p = q
      OBVIOUS
    <3>1. PICK d \in Desc : p = AuthedError(d) /\ p.key[3] = KeyNonce(d)
      BY <2>2
    <3>2. PICK e \in Desc : q = AuthedError(e) /\ q.key[3] = KeyNonce(e)
      BY <2>2
    <3>3. d = e
      BY <3>1, <3>2 DEF KeyNonce
    <3> QED BY <3>1, <3>2, <3>3
  <2>6. \A p \in new : \A q \in sealed.sent : \A e \in Desc :
           p.key[3] = KeyNonce(e) /\ SealedBy(q, e) => p.iv # q.iv
    <3> SUFFICES ASSUME NEW p \in new, NEW q \in sealed.sent, NEW e \in Desc,
                        p.key[3] = KeyNonce(e), SealedBy(q, e)
                 PROVE  p.iv # q.iv
      OBVIOUS
    <3>1. PICK d \in Desc : conn[d].pc = "ack" /\ p.key[3] = KeyNonce(d) /\ p.iv = HighBit + 1
      BY <2>2
    <3>2. d = e
      BY <3>1 DEF KeyNonce
    <3> QED BY SMTT(20), <3>1, <3>2, HighBitFacts DEF SealedBy
  <2>7. \A d \in Desc : EndsLater(d)
    BY <1>2, <1>4, MoveEnds
  <2> QED BY Zenon, <1>1, <1>2, <2>1, <2>3, <2>4, <2>5, <2>6, <2>7, SealStep
<1> QED BY Zenon, <1>4, <1>6, <1>7, <1>9, <1>10 DEF HandInv
-----------------------------------------------------------------------------
(* The clients.                                                              *)

\* A client gives up and leaves its connection to the fiber.
LEMMA GivesUpInv ==
    ASSUME HandInv, NEW c \in Client, client' = GivesUp(c), client[c].pc # "idle",
           UNCHANGED <<setup, listener, accepted, svc, conn, up, sealed>>,
           DOMAIN down' = Desc, \A x \in Desc \ {client[c].conn} : down'[x] = down[x]
    PROVE  HandInv'
<1>1. Shapes /\ SealInv /\ SvcKeeps
  BY SvcSame DEF HandInv
<1>2. /\ DOMAIN client' = Client /\ \A b \in Client \ {c} : client'[b] = client[b]
      /\ DOMAIN client'[c] = ClientFields /\ client'[c].pc = "idle"
      /\ client'[c].made = client[c].made
  BY <1>1 DEF GivesUp, NewClient, Shapes, ClientFields
<1>3. Shapes'
  <2>1. SvcShape'
    BY <1>1 DEF Shapes, SvcShape
  <2>2. \A b \in Client : DOMAIN client'[b] = ClientFields
    BY <1>1, <1>2 DEF Shapes
  <2> QED BY <1>1, <1>2, <2>1, <2>2 DEF Shapes
<1>4. Passed'
  BY DEF HandInv, Passed, InBox, InBacklog
<1>5. \A d \in Desc : Moves(d)
  BY DEF Moves
<1>6. ASSUME NEW d \in Desc PROVE FiberInv(d)'
  <2>1. client'[d[1]].made = client[d[1]].made
    BY <1>2, DescFacts
  <2>2. d[2] > client[d[1]].made => down'[d] = down[d]
    <3>1. ClientInv(c)
      BY DEF HandInv
    <3>2. client[c].conn[1] = c /\ client[c].conn[2] = client[c].made
      BY Zenon, <3>1, ClientDesc
    <3>3. client[c].made \in 0..MaxAttempts
      BY Zenon, <3>1 DEF ClientInv
    <3>4. d = client[c].conn => ~(d[2] > client[d[1]].made)
      BY <3>2, <3>3
    <3> QED BY <3>4
  <2>3. FiberInv(d)
    BY DEF HandInv
  <2> QED BY <1>1, <1>5, <2>1, <2>2, <2>3, FiberKeeps
<1>7. ASSUME NEW b \in Client PROVE ClientInv(b)'
  <2>1. ClientInv(b) /\ ClientInv(c)
    BY DEF HandInv
  <2>2. CASE b = c
    BY ZenonT(40), <1>2, <2>1, <2>2 DEF ClientInv
  <2>3. CASE b # c
    <3>1. client[b].pc # "idle" => client[b].conn \in Desc /\ client[b].conn # client[c].conn
      BY <2>1, <2>3, ClientDesc
    <3>2. client[b].pc # "idle" => Moves(client[b].conn) /\ Same(client[b].conn)
      BY <1>5, <3>1 DEF Same
    <3> QED BY ZenonT(40), <1>1, <1>2, <2>1, <2>3, <3>1, <3>2, ClientKeeps
  <2> QED BY <2>2, <2>3
<1>8. SealInv'
  <2>1. \A d \in Desc : EndsLater(d)
    BY <1>1, <1>5, MoveEnds
  <2> QED BY <1>1, <1>2, <2>1, SealKeeps
<1> QED BY <1>3, <1>4, <1>6, <1>7, <1>8 DEF HandInv

\* A client leaves, or finds its connection closed.
LEMMA LeaveInv ==
    ASSUME HandInv, NEW c \in Client, ClientReadFails(c) \/ Leave(c)
    PROVE  HandInv'
<1>1. /\ UNCHANGED <<setup, listener, accepted, svc, conn, up, down, sealed>>
      /\ client' = GivesUp(c) /\ client[c].pc # "idle"
  BY DEF ClientReadFails, Leave
<1>2. DOMAIN down' = Desc
  BY <1>1 DEF HandInv, Shapes
<1> QED BY <1>1, <1>2, GivesUpInv

\* A step of one client: what is left to show is about that client and its connection.
LEMMA ClientStep ==
    ASSUME HandInv, NEW c \in Client, NEW d \in Desc, d[1] = c,
           client[c].pc # "idle" => client[c].conn = d,
           UNCHANGED <<setup, svc, accepted>>, DOMAIN listener' = ListenerFields,
           Passed',
           DOMAIN conn' = Desc, DOMAIN up' = Desc, DOMAIN down' = Desc,
           DOMAIN conn'[d] = FiberFields,
           \A x \in Desc \ {d} : conn'[x] = conn[x] /\ up'[x] = up[x] /\ down'[x] = down[x],
           DOMAIN client' = Client, DOMAIN client'[c] = ClientFields,
           \A b \in Client \ {c} : client'[b] = client[b],
           \A x \in Desc : x # d /\ x[1] = c /\ x[2] > client'[c].made => x[2] > client[c].made,
           FiberInv(d)', ClientInv(c)', SealInv'
    PROVE  HandInv'
<1>1. Shapes /\ SvcKeeps
  BY ZenonT(40), SvcSame DEF HandInv
<1>2. Shapes'
  <2>1. SvcShape'
    BY ZenonT(40), <1>1 DEF Shapes, SvcShape
  <2>2. \A b \in Client : DOMAIN client'[b] = ClientFields
    BY ZenonT(40), <1>1 DEF Shapes
  <2>3. \A x \in Desc : DOMAIN conn'[x] = FiberFields
    BY <1>1 DEF Shapes
  <2> QED BY <1>1, <2>1, <2>2, <2>3 DEF Shapes
<1>3. \A x \in Desc \ {d} : Moves(x) /\ Same(x)
  BY DEF Moves, Same
<1>4. ASSUME NEW x \in Desc PROVE FiberInv(x)'
  <2>1. CASE x = d
    BY <2>1
  <2>2. CASE x # d /\ x[1] # c
    <3>1. FiberInv(x) /\ client'[x[1]] = client[x[1]]
      BY <2>2, DescFacts DEF HandInv
    <3> QED BY <1>1, <1>3, <2>2, <3>1, FiberKeeps DEF Same
  <2>3. CASE x # d /\ x[1] = c
    <3>1. FiberInv(x)
      BY ZenonT(40) DEF HandInv
    <3>2. conn'[x] = conn[x] /\ up'[x] = up[x] /\ down'[x] = down[x]
          /\ (x[2] > client'[x[1]].made => x[2] > client[x[1]].made)
      BY <2>3
    <3>3. SendreqHandshakeRequest(x)' = SendreqHandshakeRequest(x)
          /\ (Knows(x) => Knows(x)') /\ (Keyed(x) => Keyed(x)')
      BY ZenonT(40), <3>2 DEF SendreqHandshakeRequest, Knows, Keyed
    <3> QED BY ZenonT(40), <3>1, <3>2, <3>3 DEF FiberInv
  <2> QED BY <2>1, <2>2, <2>3
<1>5. ASSUME NEW b \in Client PROVE ClientInv(b)'
  <2>1. ClientInv(b)
    BY DEF HandInv
  <2>2. CASE b = c
    BY <2>2
  <2>3. CASE b # c
    <3>1. client[b].pc # "idle" => client[b].conn \in Desc /\ client[b].conn # d
      BY ZenonT(40), <2>1, <2>3, ClientDesc
    <3>2. client[b].pc # "idle" => Moves(client[b].conn) /\ Same(client[b].conn)
      BY Zenon, <1>3, <3>1
    <3> QED BY ZenonT(40), <1>1, <2>1, <2>3, <3>1, <3>2, ClientKeeps
  <2> QED BY <2>2, <2>3
<1> QED BY ZenonT(40), <1>2, <1>4, <1>5 DEF HandInv

\* A client connects with a descriptor that nobody has used.
LEMMA ConnectInv ==
    ASSUME HandInv, NEW c \in Client, Connect(c)
    PROVE  HandInv'
<1>1. Shapes /\ Passed /\ SealInv /\ ClientInv(c)
  BY DEF HandInv
<1>2. client[c].made \in 0..MaxAttempts /\ client[c].made < setup.attempts[c] /\ client[c].pc = "idle"
  BY <1>1 DEF Connect, ClientInv
<1>3. client[c].made + 1 \in 1..MaxAttempts
  BY <1>1, <1>2, AttemptsAssumption DEF Shapes
<1>4. PICK d \in Desc : d = <<c, client[c].made + 1>>
  BY Zenon, <1>3 DEF Desc
<1>5. d[1] = c /\ d[2] = client[c].made + 1
  BY <1>4
<1>6. /\ UNCHANGED <<setup, svc, accepted, down, sealed>>
      /\ listener' = [listener EXCEPT !.backlog = Append(@, d)]
      /\ conn' = [conn EXCEPT ![d].pc = "queued"]
      /\ up' = [up EXCEPT ![d] = <<SendreqHandshakeRequest(d)>>]
      /\ client' = [client EXCEPT ![c].pc = "request", ![c].conn = d, ![c].made = @ + 1]
  BY <1>4 DEF Connect
<1>7. conn[d].pc = "none" /\ down[d] = <<>>
  <2>1. FiberInv(d)
    BY DEF HandInv
  <2>2. d[2] > client[d[1]].made
    BY SMTT(20), <1>2, <1>5
  <2> QED BY Zenon, <2>1, <2>2 DEF FiberInv
<1>8. /\ DOMAIN conn' = Desc /\ DOMAIN up' = Desc /\ DOMAIN down' = Desc
      /\ DOMAIN conn'[d] = FiberFields /\ conn'[d].pc = "queued"
      /\ up'[d] = <<SendreqHandshakeRequest(d)>> /\ down'[d] = <<>>
      /\ \A x \in Desc \ {d} : conn'[x] = conn[x] /\ up'[x] = up[x] /\ down'[x] = down[x]
  BY <1>1, <1>6, <1>7 DEF Shapes, FiberFields
<1>9. /\ DOMAIN client' = Client /\ DOMAIN client'[c] = ClientFields
      /\ client'[c].pc = "request" /\ client'[c].conn = d /\ client'[c].made = client[c].made + 1
      /\ \A b \in Client \ {c} : client'[b] = client[b]
  BY <1>1, <1>6 DEF Shapes, ClientFields
<1>10. /\ DOMAIN listener' = ListenerFields /\ listener'.box = listener.box
       /\ listener'.backlog = Append(listener.backlog, d)
  BY <1>1, <1>6 DEF Shapes, ListenerFields
<1>11. Passed'
  <2>1. d \notin Range(accepted) /\ d \notin InBox /\ d \notin InBacklog
    BY <1>1, <1>7 DEF Passed
  <2>2. /\ listener'.backlog \in Seq(Desc) /\ Once(listener'.backlog)
        /\ Range(listener'.backlog) = InBacklog \union {d}
    <3>1. /\ listener.backlog \in Seq(Desc) /\ Once(listener.backlog)
          /\ Range(listener.backlog) = InBacklog
      BY Zenon, PassedFacts
    <3>2. /\ Append(listener.backlog, d) \in Seq(Desc) /\ Once(Append(listener.backlog, d))
          /\ Range(Append(listener.backlog, d)) = Range(listener.backlog) \union {d}
      BY <2>1, <3>1, AppendFacts
    <3> QED BY Zenon, <1>10, <3>1, <3>2
  <2>3. InBox' = InBox /\ InBacklog' = InBacklog \union {d}
    BY <1>10, <2>2 DEF InBox, InBacklog
  <2>4. \A x \in Range(accepted) \union InBox \union InBacklog : x \in Desc /\ conn'[x].pc = "queued"
    <3>1. \A x \in Range(accepted) \union InBox \union InBacklog :
             x \in Desc /\ conn[x].pc = "queued"
      BY Zenon, PassedFacts
    <3> QED BY <1>7, <1>8, <3>1
  <2>5. accepted' = accepted /\ listener'.box = listener.box
    BY <1>6, <1>10
  <2> QED BY ZenonT(40), <1>1, <1>8, <2>1, <2>2, <2>3, <2>4, <2>5 DEF Passed
<1>12. \A x \in Desc : x # d /\ x[1] = c /\ x[2] > client'[c].made => x[2] > client[c].made
  BY <1>2, <1>9, DescFacts
<1>13. FiberInv(d)'
  <2>1. SendreqHandshakeRequest(d)' = SendreqHandshakeRequest(d)
    BY <1>6 DEF SendreqHandshakeRequest
  <2>2. ~(d[2] > client'[d[1]].made)
    <3>1. PICK m \in 0..MaxAttempts : m = client[c].made
      BY Zenon, <1>2
    <3>2. d[2] = m + 1 /\ client'[d[1]].made = m + 1
      BY Zenon, <1>5, <1>9, <3>1
    <3>3. ~(m + 1 > m + 1)
      BY <3>1
    <3> QED BY Zenon, <3>2, <3>3
  <2> QED BY <1>8, <2>1, <2>2 DEF FiberInv
<1>14. ClientInv(c)'
  <2>1. Requested(d)'
    BY ZenonT(40), <1>8 DEF Requested, RequestedAs
  <2>2. client'[c].made \in 0..MaxAttempts /\ client'[c].made # 0 /\ client'[c].conn = <<c, client'[c].made>>
    BY <1>3, <1>4, <1>9
  <2> QED BY <1>9, <2>1, <2>2 DEF ClientInv
<1>15. SealInv'
  <2>1. ASSUME NEW q \in sealed.sent, NEW x \in Desc, SealedBy(q, x) PROVE SealedBy(q, x)'
    <3>1. CASE q.iv = 1 /\ x[2] <= client[x[1]].made /\ x[1] = c
      <4>1. x # d /\ x[2] <= client'[c].made
        BY <1>2, <1>5, <1>9, <3>1, DescFacts
      <4> QED BY ZenonT(40), <1>9, <2>1, <3>1, <4>1 DEF SealedBy
    <3>2. CASE x[1] # c /\ q.iv = 1
      <4>1. client'[x[1]] = client[x[1]]
        BY <1>9, <3>2, DescFacts
      <4> QED BY SMTT(20), <2>1, <3>2, <4>1, HighBitFacts DEF SealedBy
    <3>3. CASE q.iv = HighBit + 1 /\ conn[x].pc \in {"data", "closed"}
      <4>1. conn'[x] = conn[x]
        BY <1>7, <1>8, <3>3
      <4> QED BY <2>1, <3>3, <4>1 DEF SealedBy
    <3> QED BY ZenonT(40), <2>1, <3>1, <3>2, <3>3 DEF SealedBy
  <2>2. ASSUME NEW q, NEW x \in Desc, LostBy(q, x) PROVE LostBy(q, x)'
    <3>1. conn[x].pc = "closed"
      BY <2>2 DEF LostBy
    <3>2. conn'[x] = conn[x]
      BY <1>7, <1>8, <3>1
    <3> QED BY <2>2, <3>2 DEF LostBy, KeyNonce
  <2>3. \A q \in sealed.sent : \E x \in Desc : SealedBy(q, x)'
    BY <1>1, <2>1 DEF SealInv
  <2>4. \A q \in sealed.unsent : \E x \in Desc : LostBy(q, x)'
    BY <1>1, <2>2 DEF SealInv
  <2> QED BY <1>1, <1>6, <2>3, <2>4 DEF SealInv
<1> QED BY <1>2, <1>5, <1>6, <1>8, <1>9, <1>10, <1>11, <1>12, <1>13, <1>14, <1>15, ClientStep

\* A client reads the response: only the one that its own handshake gave has the mac.
LEMMA ClientReadsResponseInv ==
    ASSUME HandInv, NEW c \in Client, ClientReadsResponse(c)
    PROVE  HandInv'
<1>1. Shapes /\ Passed /\ SealInv /\ ClientInv(c)
  BY DEF HandInv
<1>2. PICK d \in Desc : client[c].conn = d /\ d = <<c, client[c].made>> /\ d[1] = c
                        /\ d[2] = client[c].made
  BY Zenon, <1>1, ClientDesc DEF ClientReadsResponse
<1>3. PICK m : m = Head(down[d])
  OBVIOUS
<1>4. PICK secret : secret = RecvrespHandshakeRequest(d, m)
  OBVIOUS
<1>5. /\ client[c].pc = "request" /\ down[d] # <<>>
      /\ \/ secret = None /\ client' = GivesUp(c) /\ UNCHANGED <<up, sealed>>
         \/ /\ secret # None
            /\ client' = [client EXCEPT ![c].pc = "ack", ![c].secret = secret, ![c].client_iv = 2]
            /\ up' = [up EXCEPT ![d] = Append(@, SendreqHandshakeAck(secret, m))]
            /\ sealed' = Sealed(sealed, SendreqHandshakeAck(secret, m), TRUE)
      /\ down' = [down EXCEPT ![d] = Tail(@)]
      /\ UNCHANGED <<setup, sup, control, listener, accepted, svc, random, conn>>
  BY Zenon, <1>2, <1>3, <1>4 DEF ClientReadsResponse
<1>6. DOMAIN down' = Desc /\ down'[d] = Tail(down[d]) /\ \A x \in Desc \ {d} : down'[x] = down[x]
  BY <1>1, <1>5 DEF Shapes
<1>7. CASE secret = None /\ client' = GivesUp(c) /\ UNCHANGED <<up, sealed>>
  BY <1>2, <1>5, <1>6, <1>7, GivesUpInv
<1>8. CASE secret # None
  <2>1. PICK ack : ack = SendreqHandshakeAck(secret, m)
    OBVIOUS
  <2>2. /\ client' = [client EXCEPT ![c].pc = "ack", ![c].secret = secret, ![c].client_iv = 2]
        /\ up' = [up EXCEPT ![d] = Append(@, ack)] /\ sealed' = Sealed(sealed, ack, TRUE)
    BY <1>5, <1>8, <2>1
  <2>3. ack.key = secret /\ ack.iv = 1
    BY <2>1, PacketFacts DEF SendreqHandshakeAck
  <2>4. /\ secret = <<{setup.client[c].key, m[7]}, m[8], KeyNonce(d)>>
        /\ m[2] = "SUCCESS" /\ m[10][1] = secret
    <3>1. PICK k : k = Secret(setup.client[d[1]].key, m[7], m[8], KeyNonce(d))
      OBVIOUS
    <3>2. PICK x : x = Mac(k, Append(SubSeq(m, 1, 9), ChallengeNonce(d)))
      OBVIOUS
    <3>3. secret = IF \/ Len(m) < 3 \/ m[2] # "SUCCESS"
                      \/ Len(m) # 10 \/ m[4] # 1 \/ m[5] # "VELO_V1" \/ m[10] # x
                   THEN None ELSE k
      BY <1>4, <3>1, <3>2 DEF RecvrespHandshakeRequest
    <3>4. secret = k /\ m[2] = "SUCCESS" /\ m[10] = x
      BY <1>8, <3>3
    <3>5. x[1] = k
      BY <3>2 DEF Mac
    <3> QED BY <1>2, <3>1, <3>4, <3>5 DEF Secret
  <2>5. PICK p, u, w, e : /\ p = conn[d].pc /\ u = up[d] /\ w = down[d] /\ e = AuthedError(d)
    OBVIOUS
  <2>6. /\ w = <<m>> \/ w = <<m, e>>
        /\ IsResponse(d, m) /\ p \in {"ack", "closed"}
        /\ p = "ack" => w = <<m>> /\ u = <<>>
    <3>0. RequestedAs(d, p, u, w, e) /\ w # <<>> /\ m = Head(w)
      BY <1>1, <1>2, <1>3, <1>5, <2>5, ClientAt DEF Requested
    <3>1. w[1] = m
      <4>1. w = <<w[1]>> \/ w = <<w[1], e>>
        BY <3>0 DEF RequestedAs
      <4> QED BY <3>0, <4>1, AppendShort
    <3>2. ~IsRefusal(w[1])
      BY <2>4, <3>1 DEF IsRefusal
    <3> QED BY <3>0, <3>1, <3>2 DEF RequestedAs
  <2>7. /\ Knows(d) /\ Keyed(d) /\ conn[d].secret = secret
        /\ KeyOf(d) = setup.client[c].key
    <3>1. PICK k, x : k = KeyOf(d) /\ x = setup.client[c].key
      OBVIOUS
    <3>2. /\ Knows(d) /\ Keyed(d) /\ conn[d].secret = secret
          /\ secret = <<{m[7], k}, m[8], KeyNonce(d)>>
      BY Zenon, <2>4, <2>6, <3>1 DEF IsResponse
    <3>3. {m[7], k} = {x, m[7]}
      BY SMTT(20), <2>4, <3>1, <3>2
    <3>4. k = x
      BY <3>3
    <3> QED BY <3>1, <3>2, <3>4
  <2>8. /\ DOMAIN client' = Client /\ DOMAIN client'[c] = ClientFields
        /\ client'[c].pc = "ack" /\ client'[c].secret = secret /\ client'[c].client_iv = 2
        /\ client'[c].made = client[c].made /\ client'[c].conn = d
        /\ \A b \in Client \ {c} : client'[b] = client[b]
    BY <1>1, <1>2, <2>2 DEF Shapes, ClientFields
  <2>9. DOMAIN up' = Desc /\ up'[d] = Append(up[d], ack) /\ \A x \in Desc \ {d} : up'[x] = up[x]
    BY <1>1, <2>2 DEF Shapes
  <2>10. /\ down'[d] = <<>> \/ down'[d] = <<e>>
         /\ p = "ack" => down'[d] = <<>> /\ up'[d] = <<ack>>
    <3>1. Tail(<<m>>) = <<>> /\ Tail(<<m, e>>) = <<e>>
      OBVIOUS
    <3>2. down'[d] = Tail(w) /\ up'[d] = Append(u, ack)
      BY <1>6, <2>5, <2>9
    <3> QED BY Zenon, <2>6, <3>1, <3>2, AppendShort
  <2>11. Knows(d)' /\ Keyed(d)' /\ AuthedError(d)' = e /\ KeyOf(d)' = KeyOf(d)
    <3>1. Knows(d)'
      BY <1>5, <2>7 DEF Knows
    <3>2. Keyed(d)'
      BY <1>5, <2>7 DEF Keyed
    <3>3. AuthedError(d)' = e /\ KeyOf(d)' = KeyOf(d)
      BY <1>5, <2>5 DEF AuthedError, KeyOf
    <3> QED BY <3>1, <3>2, <3>3
  <2>12. FiberInv(d)'
    <3>1. FiberInv(d) /\ conn' = conn /\ client'[d[1]].made = client[d[1]].made
      BY <1>2, <1>5, <2>8 DEF HandInv
    <3>2. ~(d[2] > client[d[1]].made)
      <4>1. client[c].made \in 0..MaxAttempts
        BY Zenon, <1>1 DEF ClientInv
      <4> QED BY <1>2, <4>1
    <3> QED BY ZenonT(40), <2>5, <2>6, <2>11, <3>1, <3>2 DEF FiberInv
  <2>13. ClientInv(c)'
    <3>0. /\ client'[c].pc = "ack" /\ client'[c].made \in 0..MaxAttempts
          /\ client'[c].conn = <<c, client'[c].made>> /\ client'[c].made # 0
      <4>1. client[c].made \in 0..MaxAttempts /\ client[c].made # 0
        BY <1>1, <1>5 DEF ClientInv
      <4> QED BY <1>2, <2>8, <4>1
    <3>1. Agreed(c, d)'
      BY <1>5, <2>7, <2>8, <2>11 DEF Agreed
    <3>2. conn'[d].pc = p /\ client'[c].conn = d
      BY <1>5, <2>5, <2>8
    <3>3. PICK v, x : v = up'[d] /\ x = down'[d]
      OBVIOUS
    <3>4. AcknowledgedAs(d, p, v, x, secret)'
      <4>1. CASE p = "ack"
        <5>1. x = <<>> /\ v = <<ack>> /\ v = <<v[1]>> /\ v[1] = ack
          BY <2>10, <3>3, <4>1
        <5> QED BY <2>3, <2>11, <4>1, <5>1 DEF AcknowledgedAs
      <4>2. CASE p = "closed"
        <5>1. e.m[2] # "SUCCESS" /\ <<e>>[1] = e
          BY <2>5, AuthedErrorFacts
        <5>2. x = <<>> \/ (x = <<x[1]>> /\ x[1].m[2] # "SUCCESS")
          BY <2>10, <3>3, <5>1
        <5> QED BY <4>2, <5>2 DEF AcknowledgedAs
      <4> QED BY <2>6, <4>1, <4>2
    <3>5. Acknowledged(c, d)'
      BY ZenonT(40), <2>8, <2>11, <3>1, <3>2, <3>3, <3>4 DEF Acknowledged
    <3> QED BY ZenonT(40), <3>0, <3>2, <3>5 DEF ClientInv
  <2>14. SealInv'
    <3>1. SealedBy(ack, d)'
      <4>1. ack.key[3] = KeyNonce(d)
        BY <2>3, <2>4
      <4>2. d[2] <= client'[d[1]].made /\ client'[d[1]].pc # "request"
        <5>1. client[c].made \in 0..MaxAttempts
          BY Zenon, <1>1 DEF ClientInv
        <5> QED BY SMTT(20), <1>2, <2>8, <5>1
      <4> QED BY <2>3, <4>1, <4>2 DEF SealedBy
    <3>2. \A b \in Client : \/ client'[b] = client[b]
                            \/ client'[b].made = client[b].made /\ client'[b].pc # "request"
      BY <2>8
    <3>3. ASSUME NEW q \in sealed.sent, NEW x \in Desc, ack.key[3] = KeyNonce(x), SealedBy(q, x)
          PROVE  ack.iv # q.iv
      <4>1. x = d
        BY <2>3, <2>4, <3>3 DEF KeyNonce
      <4> QED BY <1>2, <1>5, <2>3, <3>3, <4>1, HighBitFacts DEF SealedBy
    <3>4. sealed'.sent = sealed.sent \union {ack} /\ sealed'.unsent = sealed.unsent \union {}
      BY <2>2, SealedFacts
    <3>5. \A x \in Desc : EndsLater(x)
      BY <1>5 DEF EndsLater
    <3>6. PICK new : new = {ack}
      OBVIOUS
    <3>7. /\ sealed'.sent = sealed.sent \union new /\ \A q \in new : \E x \in Desc : SealedBy(q, x)'
          /\ \A q, r \in new : q.key = r.key => q = r
      BY Zenon, <3>1, <3>4, <3>6
    <3>8. \A q \in new : \A r \in sealed.sent : \A x \in Desc :
             q.key[3] = KeyNonce(x) /\ SealedBy(r, x) => q.iv # r.iv
      BY Zenon, <3>3, <3>6
    <3>9. PICK lost : lost = {}
      OBVIOUS
    <3>10. /\ sealed'.unsent = sealed.unsent \union lost
           /\ \A q \in lost : \E x \in Desc : LostBy(q, x)'
      BY Zenon, <3>4, <3>9
    <3> QED BY ZenonT(40), <1>1, <3>2, <3>5, <3>7, <3>8, <3>10, SealStep
  <2>15. Passed'
    BY <1>1, <1>5 DEF Passed, InBox, InBacklog
  <2>16. /\ DOMAIN listener' = ListenerFields /\ DOMAIN conn' = Desc /\ DOMAIN conn'[d] = FiberFields
         /\ conn' = conn /\ UNCHANGED <<setup, svc, accepted>>
    BY <1>1, <1>5 DEF Shapes
  <2> QED BY ZenonT(40), <1>2, <1>6, <2>8, <2>9, <2>12, <2>13, <2>14, <2>15, <2>16, ClientStep
<1> QED BY <1>5, <1>7, <1>8

\* A client reads the acknowledgement: a success has the next iv of both sides.
LEMMA ClientReadsAckInv ==
    ASSUME HandInv, NEW c \in Client, ClientReadsAck(c)
    PROVE  HandInv'
<1>1. Shapes /\ Passed /\ SealInv /\ ClientInv(c)
  BY DEF HandInv
<1>2. PICK d \in Desc : client[c].conn = d /\ d = <<c, client[c].made>> /\ d[1] = c
                        /\ d[2] = client[c].made
  BY Zenon, <1>1, ClientDesc DEF ClientReadsAck
<1>3. PICK m : m = Head(down[d])
  OBVIOUS
<1>4. /\ client[c].pc = "ack" /\ down[d] # <<>>
      /\ client' = IF RecvrespHandshakeAck(c, m)
                   THEN [client EXCEPT ![c].pc = "done", ![c].server_iv = HighBit + 2]
                   ELSE GivesUp(c)
      /\ down' = [down EXCEPT ![d] = Tail(@)]
      /\ UNCHANGED <<setup, sup, control, listener, accepted, svc, random, conn, up, sealed>>
  BY <1>2, <1>3 DEF ClientReadsAck
<1>5. DOMAIN down' = Desc /\ \A x \in Desc \ {d} : down'[x] = down[x]
  BY <1>1, <1>4 DEF Shapes
<1>6. CASE ~RecvrespHandshakeAck(c, m)
  <2>1. client' = GivesUp(c)
    BY <1>4, <1>6
  <2> QED BY Zenon, <1>2, <1>4, <1>5, <2>1, GivesUpInv
<1>7. CASE RecvrespHandshakeAck(c, m)
  <2>1. client' = [client EXCEPT ![c].pc = "done", ![c].server_iv = HighBit + 2]
    BY <1>4, <1>7
  <2>2. Acknowledged(c, d)
    BY <1>1, <1>2, <1>4, ClientAt
  <2>3. m.m[2] = "SUCCESS"
    BY <1>7 DEF RecvrespHandshakeAck
  <2>4. Agreed(c, d) /\ Moved(d) /\ conn[d].pc \in {"data", "closed"}
    <3>1. PICK p, u, w, k : /\ p = conn[d].pc /\ u = up[d] /\ w = down[d]
                            /\ k = client[c].secret
      OBVIOUS
    <3>2. Agreed(c, d) /\ AcknowledgedAs(d, p, u, w, k)
      BY <2>2, <3>1 DEF Acknowledged
    <3>3. w # <<>> /\ ~(w = <<w[1]>> /\ w[1].m[2] # "SUCCESS")
      BY <1>3, <1>4, <2>3, <3>1, AppendShort
    <3>4. p \in {"data", "closed"} /\ Moved(d)
      BY <3>2, <3>3 DEF AcknowledgedAs
    <3> QED BY <3>1, <3>2, <3>4
  <2>5. /\ DOMAIN client' = Client /\ DOMAIN client'[c] = ClientFields
        /\ client'[c].pc = "done" /\ client'[c].secret = client[c].secret
        /\ client'[c].client_iv = client[c].client_iv /\ client'[c].server_iv = HighBit + 2
        /\ client'[c].made = client[c].made /\ client'[c].conn = d
        /\ \A b \in Client \ {c} : client'[b] = client[b]
    BY <1>1, <1>2, <2>1 DEF Shapes, ClientFields
  <2>6. client[c].made \in 0..MaxAttempts /\ client[c].made # 0
    BY <1>1, <1>4 DEF ClientInv
  <2>7. ClientInv(c)'
    <3>1. Agreed(c, d)'
      <4>1. Knows(d)'
        BY <1>4, <2>4 DEF Knows, Agreed
      <4>2. KeyOf(d)' = KeyOf(d)
        BY <1>4 DEF KeyOf
      <4> QED BY <1>4, <2>4, <2>5, <4>1, <4>2 DEF Agreed
    <3>2. Moved(d)' /\ conn'[d].pc \in {"data", "closed"}
      BY <1>4, <2>4 DEF Moved
    <3>3. Finished(c, d)'
      BY <2>5, <3>1, <3>2 DEF Finished
    <3> QED BY ZenonT(40), <1>2, <2>5, <2>6, <3>3 DEF ClientInv
  <2>8. FiberInv(d)'
    <3>1. FiberInv(d) /\ SvcKeeps
      BY <1>4, SvcSame DEF HandInv
    <3>2. /\ client'[d[1]].made = client[d[1]].made /\ ~(d[2] > client[d[1]].made)
          /\ up'[d] = up[d] /\ setup' = setup
      BY <1>2, <1>4, <2>5, <2>6
    <3>3. Moves(d)
      BY <1>4 DEF Moves
    <3> QED BY <1>1, <3>1, <3>2, <3>3, FiberKeeps
  <2>9. SealInv'
    <3>1. \A b \in Client : \/ client'[b] = client[b]
                            \/ client'[b].made = client[b].made /\ client'[b].pc # "request"
      BY <2>5
    <3>2. \A x \in Desc : EndsLater(x)
      BY <1>4 DEF EndsLater
    <3> QED BY Zenon, <1>1, <1>4, <3>1, <3>2, SealKeeps
  <2>10. Passed'
    BY <1>1, <1>4 DEF Passed, InBox, InBacklog
  <2>11. /\ DOMAIN listener' = ListenerFields /\ DOMAIN conn' = Desc /\ DOMAIN conn'[d] = FiberFields
         /\ conn' = conn /\ DOMAIN up' = Desc /\ up' = up /\ UNCHANGED <<setup, svc, accepted>>
    BY <1>1, <1>4 DEF Shapes
  <2> QED BY <1>2, <1>5, <2>5, <2>7, <2>8, <2>9, <2>10, <2>11, ClientStep
<1> QED BY <1>6, <1>7

-----------------------------------------------------------------------------
(* The inductive invariant of the handshakes.                                *)

\* Initially there is no connection.
LEMMA InitHandInv == Init => HandInv
<1> SUFFICES ASSUME Init PROVE HandInv
  OBVIOUS
<1>1. Shapes
  <2>1. SvcShape
    BY Zenon DEF Init, SvcShape, ContextCreate, SvcFields
  <2>2. DOMAIN listener = ListenerFields
    BY DEF Init, ListenserviceEventLoop, ListenFiberAdd, AcceptEndpointFiberAdd, ListenerFields
  <2>3. DOMAIN conn = Desc /\ \A d \in Desc : DOMAIN conn[d] = FiberFields
    BY ZenonT(40) DEF Init, FiberAdd, FiberFields
  <2>4. DOMAIN client = Client /\ \A c \in Client : DOMAIN client[c] = ClientFields
    BY ZenonT(40) DEF Init, NewClient, ClientFields
  <2>5. setup \in Setups /\ DOMAIN up = Desc /\ DOMAIN down = Desc
    BY DEF Init
  <2> QED BY <2>1, <2>2, <2>3, <2>4, <2>5 DEF Shapes
<1>2. Passed
  <2>1. accepted = <<>> /\ listener.box = <<>> /\ listener.backlog = <<>>
    BY DEF Init, ListenserviceEventLoop, ListenFiberAdd, AcceptEndpointFiberAdd
  <2> QED BY <2>1, EmptyFacts DEF Passed, InBox, InBacklog
<1>3. ASSUME NEW d \in Desc PROVE FiberInv(d)
  <2>1. conn[d].pc = "none" /\ down[d] = <<>>
    BY DEF Init, FiberAdd
  <2> QED BY <2>1 DEF FiberInv
<1>4. ASSUME NEW c \in Client PROVE ClientInv(c)
  <2>1. client[c].pc = "idle" /\ client[c].made = 0
    BY DEF Init, NewClient
  <2>2. client[c].made \in 0..MaxAttempts
    <3>1. 0 \in 0..MaxAttempts
      BY AttemptsAssumption
    <3> QED BY Zenon, <2>1, <3>1
  <2> QED BY Zenon, <2>1, <2>2 DEF ClientInv
<1>5. SealInv
  BY DEF Init, SealInv
<1> QED BY <1>1, <1>2, <1>3, <1>4, <1>5 DEF HandInv

\* A step that changes nothing.
LEMMA StutterInv ==
    ASSUME HandInv, UNCHANGED vars
    PROVE  HandInv'
<1>1. UNCHANGED <<setup, listener, accepted, svc, conn, up, down, client, sealed>>
  BY DEF vars
<1> QED BY <1>1, SvcSame, ListenerSame, OtherStep

\* Every step keeps the invariant.
LEMMA StepHandInv == HandInv /\ [Next]_vars => HandInv'
<1> SUFFICES ASSUME HandInv, [Next]_vars PROVE HandInv'
  OBVIOUS
<1>1. CASE UNCHANGED vars
  BY <1>1, StutterInv
<1>13. CASE SupervisorGone
  BY <1>13, SupervisorGoneInv
<1>2. CASE SupervisorStep \/ RandomEndpoint \/ RandomService \/ RandomServiceExits
  BY <1>2, ElsewhereInv
<1>3. CASE ControlStep
  BY <1>3, ControlInv
<1>4. CASE ListenFiber
  BY <1>4, ListenFiberInv
<1>5. CASE ListenAcceptEndpoint
  BY <1>5, ListenAcceptInv
<1>6. CASE ListenQuiesce \/ ListenTerminate
  BY <1>6, ListenStopInv
<1>7. CASE MainStep
  <2>1. CASE ProtocolserviceRun
    BY <2>1, RunInv
  <2>2. CASE Terminate
    <3>1. DOMAIN conn = Desc
      BY DEF HandInv, Shapes
    <3>2. PICK told \in SUBSET {d \in Desc : conn[d].pc \in {"random", "ack"}} : Exit(told)
      BY <2>2, <3>1 DEF Terminate
    <3> QED BY <3>2, ExitInv
  <2>3. CASE MainExits
    BY <2>3, ExitInv DEF MainExits
  <2> QED BY <1>7, <2>1, <2>2, <2>3 DEF MainStep
<1>8. CASE ProtocolserviceRunFails
  BY <1>8, RunFailsInv
<1>9. CASE AcceptFiber
  BY <1>9, AcceptFiberInv
<1>10. CASE Quiesce
  BY <1>10, RunInv
<1>11. ASSUME NEW d \in Desc, Fiber(d) PROVE HandInv'
  <2>1. CASE FiberStarts(d) \/ DataFiberEnds(d)
    BY <2>1, FiberMovesInv
  <2>5. CASE ReadFails(d)
    BY <2>5, ReadFailsInv
  <2>2. CASE ReadHandshakeReq(d)
    BY <2>2, ReadHandshakeReqInv
  <2>3. CASE ReadRandomBytes(d)
    BY <2>3, ReadRandomBytesInv
  <2>4. CASE ReadHandshakeAckReq(d)
    BY <2>4, ReadHandshakeAckReqInv
  <2> QED BY <1>11, <2>1, <2>2, <2>3, <2>4, <2>5 DEF Fiber
<1>12. ASSUME NEW c \in Client, Connect(c) \/ ClientReads(c) \/ Leave(c) PROVE HandInv'
  <2>1. CASE Connect(c)
    BY <2>1, ConnectInv
  <2>2. CASE ClientReadsResponse(c)
    BY <2>2, ClientReadsResponseInv
  <2>3. CASE ClientReadsAck(c)
    BY <2>3, ClientReadsAckInv
  <2>4. CASE ClientReadFails(c) \/ Leave(c)
    BY <2>4, LeaveInv
  <2> QED BY <1>12, <2>1, <2>2, <2>3, <2>4 DEF ClientReads
<1> QED BY <1>1, <1>2, <1>3, <1>4, <1>5, <1>6, <1>7, <1>8, <1>9, <1>10, <1>11, <1>12, <1>13 DEF Next

\* The inductive invariant holds in every reachable state, for any clients, setups and
\* number of attempts.  (protocolservice_protocol_fiber_entry)
THEOREM HandshakeInvariant == Spec => []HandInv
<1> QED BY InitHandInv, StepHandInv, PTL DEF Spec

\* No two packets that the protocol service and its clients send are under the same key
\* and iv: not in both directions of one connection, not in two connections of one client,
\* not when a fiber writes an error after the handshake has given out its last iv.  After
\* a packet that could not be written comes at most the error that reports it, under its
\* iv, and no connection goes on with its key.  (protocolservice_compute_shared_secret)
THEOREM IvCorrect == Spec => []IvUsedOnce
<1>1. HandInv => IvUsedOnce
  <2> SUFFICES ASSUME HandInv PROVE IvUsedOnce
    OBVIOUS
  <2>1. ASSUME NEW p \in sealed.unsent, NEW d \in Desc, conn[d].pc \in {"ack", "data"}
        PROVE  conn[d].secret # p.key
    <3>1. PICK x \in Desc : LostBy(p, x)
      BY DEF HandInv, SealInv
    <3>2. conn[d].secret[3] = KeyNonce(d)
      BY <2>1, AtConnection DEF FiberInv, Keyed
    <3>3. p.key[3] = KeyNonce(x) /\ x # d
      BY <2>1, <3>1 DEF LostBy
    <3> QED BY <3>2, <3>3 DEF KeyNonce
  <2>2. \A p, q \in sealed.sent : p.key = q.key /\ p.iv = q.iv => p = q
    BY DEF HandInv, SealInv
  <2> QED BY <2>1, <2>2 DEF IvUsedOnce
<1> QED BY <1>1, HandshakeInvariant, PTL

\* A client that has finished its handshake and the fiber that serves it agree on the
\* secret, on the next iv of both directions and on who the client is.
\* (protocolservice_protocol_handle_handshake)
THEOREM PeersCorrect == Spec => []PeersAgree
<1>1. HandInv => PeersAgree
  <2>1. ASSUME HandInv, NEW c \in Client, client[c].pc = "done"
        PROVE  LET cn == conn[client[c].conn] IN
               /\ cn.pc \in {"data", "closed"}
               /\ cn.secret = client[c].secret
               /\ cn.client_iv = client[c].client_iv /\ cn.server_iv = client[c].server_iv
               /\ cn.entity = setup.client[c].id
               /\ svc.entities[cn.entity].pubkey = setup.client[c].key
    <3>1. ClientInv(c)
      BY <2>1 DEF HandInv
    <3>2. PICK d \in Desc : d = client[c].conn /\ d[1] = c
      BY <2>1, <3>1, ClientDesc
    <3>3. /\ Agreed(c, d) /\ Moved(d) /\ conn[d].pc \in {"data", "closed"}
          /\ client[c].server_iv = HighBit + 2
      BY ZenonT(40), <2>1, <3>1, <3>2, ClientAt DEF Finished
    <3>4. /\ Knows(d) /\ conn[d].secret = client[c].secret
          /\ svc.entities[conn[d].entity].pubkey = setup.client[c].key
          /\ client[c].client_iv = 2
      BY ZenonT(40), <3>3 DEF Agreed, KeyOf
    <3>5. conn[d].client_iv = 2 /\ conn[d].server_iv = HighBit + 2
      BY <3>3 DEF Moved
    <3>6. conn[d].entity = setup.client[c].id
      BY <3>2, <3>4 DEF Knows
    <3> QED BY <3>2, <3>3, <3>4, <3>5, <3>6
  <2> QED BY ZenonT(40), <2>1 DEF PeersAgree
<1> QED BY <1>1, HandshakeInvariant, PTL
====
