# Verification of agentd

TLA+ specifications of the blockchain agent `agentd` (`src/src`, `src/include`),
with TLC configurations and TLAPS proofs. Paths below are relative to the
repository; *DS*, *CA*, *AT*, *NO* and *PS* abbreviate
`src/src/dataservice/dataservice_`, `src/src/canonization/canonizationservice_`,
`src/src/attestationservice/attestationservice_`,
`src/src/notificationservice/notificationservice_` and
`src/src/protocolservice/protocolservice_`.

## The system

`agentd` is a set of processes that a supervisor starts and that talk over socket
pairs. Each is single threaded: an event loop with callbacks, or fibers that take
turns and exchange messages through mailboxes.

| part | sources | what it does | state it keeps |
|---|---|---|---|
| data service | `dataservice` | database of queue, blocks, transactions, artifacts; authorises each request by a child context | LMDB tables, root and child contexts |
| canonization service | `canonization` | turns queued transactions into the next block, announces it | one state machine with a request in flight |
| attestation service | `attestationservice` | walks the queue, promotes or drops | transaction and artifact trees |
| notification service | `notificationservice` | tells clients when the latest block id changes | latest block id, assertion trees per client |
| protocol service | `protocolservice` | handshake and requests of remote clients | connections, mailboxes, translation maps, contexts |
| random, listen, auth service | `randomservice`, `listenservice`, `authservice` | random bytes; accepted sockets; keys | none between requests, except the stored keys of the last |
| supervisor | `supervisor`, `process`, `command` | starts, waits for a signal, stops, starts again | a process record per service, `keep_running` |
| foundation | `ipc`, `inet`, `signalthread`, `config`, `commandline`, `bootstrap_config`, `readers`, `privsep`, `path`, `string`, `agentd` | sockets, event loop, configuration, privileges | per socket buffers |

A transaction goes from a client through the protocol service to `submit`, waits in
the process queue until it is attested, is read by the canonization service, becomes
part of a block in `block_make`, and the id of the block reaches the notification
service, which tells every client that had asserted an older one. There are three
data service processes on one database: for canonization, for attestation and for
the protocol service.

## Modules

| module | models | checked by |
|---|---|---|
| `Ledger` | abstract promise of the data service: pending transactions in order of arrival, a chain that grows at its end | `data_store` |
| `DataStore` | submit, drop, promote and `block_make` on the five tables | `data_store` |
| `DataStoreRefinement` | the mapping from `DataStore` to `Ledger` | `data_store` |
| `DataContexts` | root and child contexts, free list, capabilities | through `DataSocket`, `DataApi` |
| `Ipc` | a non-blocking socket with its buffers, and the event loop that serves it | through `DataSocket` |
| `DataSocket` | the read and write callbacks of the data service over `Ipc`, the requests of `DataContexts`, a client that sends ahead | `data_socket` |
| `DataWire`, `DataClient`, `DataReads`, `DataApi` | requests and responses of the data service, its client functions, its reads, and the process that dispatches them over `DataStore` and `DataContexts` | `data_api` |
| `Canonization` | the canonization service composed with `DataStore`, clients, notification, crashes and restart | `canonization_*` |
| `Attestation` | the attestation service composed with `DataStore`, clients, canonization, signals and restart | `attestation` |
| `Notification` | the notification service | through `Assertions` |
| `Assertions` | assertions from the remote client through the protocol service to `Notification` and back | `assertions`, `assertions_lost` |
| `ProtocolWire`, `Sessions` | requests and responses of remote clients; their connections, the data service endpoint, the extended API | `sessions` |
| `Handshake` | start of the protocol service, listen and random service, handshake | `handshake` |
| `Supervisor` | `supervisor_run`, signal handler, process methods | `supervisor_*` |
| `DataStoreProofs`, `DataStoreIndexProofs`, `DataSocketProofs`, `CanonizationProofs`, `SupervisorProofs`, `AssertionsProofs`, `AnswersProofs`, `HandshakeProofs` | proofs | tlapm |
| `MC*` | small instances | |

Operators whose comment begins with "Faulty variant" are used by no specification.
Each replaces one definition by a plausible mistake, to show that a property
notices it.

### DataStore

`db` is what a reader sees, a record of five functions (`pq`, `block`, `height`,
`txn`, `artifact`) from keys to nodes. Both linked lists are kept as in the code:
nodes name neighbours by UUID, the all-zero and all-FF UUIDs are the sentinels, and
neither exists before the first insertion. LMDB has one writer at a time. Submit,
drop and promote are therefore one step each. `block_make` is a step for its
checks and the block, a step per transaction, and a step for the commit, on the
private copy `work`; it can fail at every one of them. A commit may fail without
notice (`CommitMayFail`), because none of these writers looks at its result. Certificates are
records of the fields that `block_make` reads, and `BadCert` is one that lacks a
field. The history field `at` of a queue node is the number of its submission.
`mdb_put`, `mdb_del` and `mdb_txn_commit` are external and modelled by how they are
used.

Assumption: the identifiers of transactions and blocks are not the sentinels
(`SentinelAssumption`). The code does not check this of a transaction id.

### DataContexts

One step per dispatch function. The free list is the sequence of its slots;
`granted` is a history field that holds what the root could give when the child was
made. Failures to open the database and to encode a response are included, and so
is the end of the event loop.

### Ipc and DataSocket

A frame is a sequence of units (type, size, data), and the kernel holds at most
`Capacity` units in either direction, so a frame may be cut anywhere and is read and
written in parts. `sock` has the read buffer, the write buffer and the write event of a
socket; `active` are the events of the current turn of the loop. libevent is external: a
turn collects the events that are ready and calls their callbacks, an event that is freed
meanwhile is not called, and a write event is pending for one call. `DataSocket` is the
data service on such a socket: `IpcRead` and `Dispatch` are the two halves of the loop in
`dataservice_ipc_read`, `IpcWrite` is `dataservice_ipc_write`. A step of the client may come
between any two calls of the kernel. `answered` is the history of the responses that the
client has not read.

### DataWire, DataClient, DataReads, DataApi

A message is a sequence of fields in the order of the code. `DataWire` has an encoder
and a decoder for every request and response, with the size checks that they make as
checks on the number of fields; `DataClient` has the functions `sendreq` and
`recvresp` that clients call; `DataReads` the read operations on the tables. `DataApi`
puts a client and a service process on the two ends of a socket. Every dispatch
function is a step: decode, look up the child context, test the capability, perform,
respond, in the order of the code, with its early returns. `transaction_get_first` and
`block_make` take several steps. Between the two reads of the first, and between calls,
another data service process submits, drops, promotes or makes a block; while
`block_make` holds the writer's lock it cannot. Requests that are cut short or have no
known method are sent as well, and sockets fail; when the process ends, the client can
still read the responses that have left its write buffer.

### Canonization

`svc` is the instance; `data` and `notify` are its two sockets, each with at most
one request in flight. Every callback is an action, every answer of a service is
another, and clients submit and the attestation service promotes or drops at any
time between them. `transaction_get_first` is two actions, as the code uses two read
transactions. The random service returns an id that is not in use, and the bound of a
run is that one is left. The service and its data service may die at any point; the
death of the data service between blocks ends the canonization service through its
closed socket, which is the same `Crash`. `Restart` is the supervisor's round: it stops
and starts everything; `Supervisor` shows that a round leaves no old process behind when
it starts a new one, and that data services are stopped last.

### Attestation

`inst` is the instance with the program counter of its main fiber, the copy of the
node it last read, and its two trees; `data` is its socket. Between a request and its
response clients submit, and the canonization service takes attested transactions
from the front of the queue. The three functions that verify a transaction are stubs
that refuse everything. `verified` stands for what they accept: the empty set is the
program as it stands, and the other sets exercise the promotion, the trees and the
artifact query that the code has for the rest. The main fiber has no handler for
unexpected events, so a quiesce request fails whatever it waits for.

### Notification and Assertions

`inst[i]` has the capabilities, the assertion tree and the two fibers of an instance,
`wire[i]` both directions of its socket. A block update replaces the trees of all
instances in one step and notifies the old entries one by one, with a wait at every
message; other fibers dispatch meanwhile. In `Assertions`, `conn[c]` is a connection
with its reading fiber and its write endpoint, and `clientMap` and `serverMap` are the
two offset maps that the two fibers of the endpoint share. `asked` and `answers` are
the histories of each client. Clients leave, the canonization service and the
supervisor end and the service is signalled at any time. The first of the two endpoint
fibers to end gives up its share of their context; the second one closes mailbox and
socket and frees both maps (`FiberContextRelease`).

### ProtocolWire and Sessions

`conn[c]` is the context of a connection with its reference count, `mail[c]` its
mailbox, `context_mailbox` and `mailbox_context` the two trees of the data service
endpoint, `slots` the contexts that the data service has open, and
`extended_api_dict` the routing table. The database is fixed, so that the truth of a
response is decided by the chain that it was built from. A fiber runs until it waits,
so what it does between two waits is one step. A context that the data service
refuses is reported to the connection as success, as in the code. The offset of an
answer to an extended request has 64 bits, of which the packet header yields the high
half; a refused answer is reported there, and an accepted one at its offset.

### Handshake

The supervisor sends the key, the entities and the capabilities over the control
socket and waits for each answer; the listen service accepts and passes descriptors
on; each connection has a fiber that checks the request, obtains random bytes
through the endpoint that all share, computes the secret and exchanges the
acknowledgement. Keys are model values; the two halves of a key pair are one value, and a secret is
the set of the keys of both sides with the two nonces. `sealed` is the history of what
was encrypted, under which key and with which iv: the packets that were written and
those whose write failed. A write to a client may fail when the client has left, or for
lack of memory.

### Supervisor

`pc` and `step` walk through the `START_PROCESS` lines, the wait, and the stop,
kill and dispose calls in the order of the code. `running` is the supervisor's flag
and `child` the process as the kernel sees it (`told` is alive with SIGTERM sent,
`dead` is a zombie). Signals arrive between any two steps; they are pending while
blocked. Modelled is the build without `AUTHSERVICE`.

### Who holds the ends of a socket pair

The supervisor creates the pairs and hands the ends out. It closes its copy of the ends of
the random, listen, canonization, attestation and data service. Of the ends that it gives to
the protocol service (`src/src/supervisor/supervisor_create_protocol_service.c:149`) and to
the notification service (`src/src/supervisor/supervisor_create_notification_service.c:169`)
it only forgets the number. As long as the supervisor lives, these ends stay open when their
service has gone: who reads from the other side waits for good, and who writes there
succeeds. So the supervisor itself may wait for an answer of a protocol service that has
exited (`Handshake`), and the protocol service does not notice the end of the notification
service, nor that one the end of the protocol service (`Assertions`).

### Assumptions about rcpr

Fibers, mailboxes and sockets come from the library rcpr, which is not part of
`src/`. The models assume, from how the code uses it: a mailbox is first in first out;
sending to a closed mailbox fails; sending does not let another fiber run; addresses
of mailboxes are not used again; closing a mailbox releases the messages in it; a
fiber without a handler for unexpected events fails in its wait when a quiesce request
arrives, and one with a handler does what the handler says.

## Runs

`tlc -config <cfg> <module>` in this directory; states are distinct states.

| run | module, cfg | states | result |
|---|---|---|---|
| `data_store` | MCDataStore | 99,410 | holds |
| `canonization_faults` | MCCanonization, CanonizationFaults | 338,874 | holds |
| `canonization_progress` | MCCanonization, CanonizationProgress | 8,858 | holds |
| `data_socket` | MCDataSocket | 570,599 | holds |
| `data_api` | MCDataApi, DataApi | 647,211 | holds |
| `attestation` | MCAttestation, Attestation | 45,644 | holds |
| `assertions` | Assertions | 248,334 | holds |
| `assertions_lost` | Assertions, AssertionsLost | | violated |
| `sessions` | MCSessions, Sessions | 93,399 | holds |
| `handshake` | MCHandshake, Handshake | 92,223 | holds |
| `supervisor_rounds` | Supervisor, SupervisorRounds | 12,167 | holds |
| `supervisor_lost_signal` | Supervisor, SupervisorLostSignal | | violated |

What they show:

- `data_store`: after any sequence of writers, bad blocks and faults the queue is one
  list in order of submission (`QueueIsFifo`), block list and height index describe
  one chain (`ChainMatchesHeights`), transactions and artifacts point at the blocks
  that hold them, the history of an artifact can be walked both ways and no half of a
  block is stored (`IndexesMatchChain`), and every step is a step of `Ledger`
  (`ImplementsLedger`).
- `canonization_faults`: a response is dispatched by its method alone and still finds
  the state that waits for it (`InFlightMatchesState`), no path loses the child
  context (`NoContextLeak`), and a block is built on the end of the chain
  (`BlockFitsChain`).
- `canonization_progress`: transactions are canonized in their order
  (`FirstComeFirstCanonized`), all of them (`EventuallyCanonized`), and the latest
  block is announced, also after a crash between commit and announcement
  (`EventuallyAnnounced`); announcements do not go back (`AnnouncementsAdvance`).
- `data_socket`: however the streams are cut, requests and responses stay whole and in
  order (`ResponsesInOrder`), the loop never waits with a request in its buffer or a
  response without its event (`NothingStranded`), requests keep being served
  (`RequestsServed`), a slot is open or on the free list once (`SlotsAccountedFor`), and
  no step gives back a capability (`AuthorityOnlyShrinks`).
- `data_api`: what a client function returns is what the tables said when the service
  read them (`AnswersAreTrue`). The first transaction is the first at the first of two
  reads; when it is answered it may be first no more, or, if it is gone, the answer is
  that there is none. A request that is refused has no effect (`RefusalsChangeNothing`), and
  every call comes back (`CallsReturn`).
- `attestation`: the links of old copies lead to live nodes and attested transactions
  stay in front of submitted ones (`WalkIsLive`), and every transaction is decided
  (`EveryTransactionDecided`).
- `assertions`: no instance holds an assertion about an old block (`StaleNeverHeld`),
  what is held can be translated back until the last endpoint fiber has ended
  (`HeldIsTranslated`), no request is answered twice (`AnsweredOnce`), an invalidation has a
  reason, unless the notification service had not heard of the block, as after a restart
  (`InvalidationJustified`), and a stale assertion is answered while the two endpoint fibers
  run (`StaleAnswered`).
- `sessions`: a response says what the chain says and goes to the client that asked
  (`ResponsesAreTrue`), open contexts and connections match
  (`ContextsMatchConnections`), a route of the extended API leads to a connection
  that offers it (`RoutesAreLive`), requests are answered (`RequestsAnswered`), and
  what a client leaves behind is released (`ConnectionsReleased`).
- `handshake`: both ends agree on entity, secret and counters (`PeersAgree`). No two
  packets that are written have the same key and iv, and after a write that failed no
  connection goes on with its key (`IvUsedOnce`). The start has a result or the service
  exits, also if it refuses a request silently (`StartEnds`); the supervisor may then wait
  for good. Handshakes end, except those whose random bytes were asked for when the
  random service failed and descriptors that were on their way when the accept fiber
  ended (`HandshakesEnd`).
- `supervisor_rounds`: only own, unreaped children are signalled (`SignalsOwnChild`),
  no service runs twice (`OneProcessPerService`), a data service is told to stop after
  its client has ended (`DataServiceOutlivesClient`), what is left behind at the exit
  is known (`LeftBehind`), and a shutdown ends (`ShutdownEnds`).

Two runs show a disagreement between the code and what the repository says of it:

- `supervisor_lost_signal`: `SIGCHLD` is blocked only when the wait begins
  (`src/src/supervisor/supervisor_sighandler_wait.c:26`). A service that dies while
  later ones are still being started wakes nobody and is not replaced, although
  `src/README.md:116` calls the supervisor a "reincarnation service".
- `assertions_lost`: when a client leaves with an assertion pending, the fiber that
  passes invalidations on fails to send to the closed mailbox and ends
  (`PSnotificationservice_write_endpoint_fiber_entry.c:127`). From then on no client
  receives an invalidation, which `src/include/agentd/notificationservice/api.h:196`
  promises.

Further disagreements are stated as definitions and can be reproduced by a change of
a cfg:

| definition | change | what TLC finds |
|---|---|---|
| `SuccessIsStored` (DataStore) | add it to `MCDataStore.cfg` as an INVARIANT | a commit fails and the caller is told of success |
| `AnnouncedIsOnChain` (Canonization) | add it to `CanonizationProgress.cfg` as an INVARIANT, `OrderlyClients = FALSE` | a block that `block_make` rejected is announced |
| `EventuallyCanonized` (Canonization) | keep it as the only property of `CanonizationProgress.cfg`, `OrderlyClients = FALSE`, `Requests <- Independent`, `MaxFaults = 0` | a canonized transaction that is submitted again is rejected with each block and stays at the head of the queue |
| `DisposeStopsProcess` (Supervisor) | add it to `SupervisorRounds.cfg` as an INVARIANT | after a failed start the notification service is still running when the supervisor has exited |

The type invariant of each module, and `HeldContextsAreOpen` (DataApi), `TreesAreTrue`
(Attestation) and `StartedAsConfigured` (Handshake), hold on the same instances; they
are kept for readers and for proofs and can be added to the cfg of their module.

## Bounds

| run | bound | why it is enough |
|---|---|---|
| `data_store` | 3 transactions of 2 artifacts, one certificate that lacks a field, 2 blocks, 4 submissions, at most 2 transactions in a block | a node at either end and in the middle of the queue, a transaction submitted again, two transactions of one artifact in one block, a fault after the first of two |
| `canonization_*` | 3 transactions of 1 artifact, 2 in a block, 3 submissions, 1 fault | a full block with a rest, a chain of predecessors, a crash in every state |
| `data_socket` | a kernel that holds 3 units, 2 requests outstanding, 4 different requests, 2 slots (1024 in the code), 1 capability of the application | a request is 3 units and a response up to 4, so every frame is cut at every place and a response may find no room; the proofs hold for every number |
| `data_api` | 2 transactions, 2 blocks, 2 slots, 3 submissions, 1 call outstanding | every request with success, with each refusal, and cut short; between the two reads of `transaction_get_first` the first transaction is dropped and submitted again behind the second |
| `attestation` | 3 transactions of 2 artifacts, 4 submissions, 2 faults, 3 sets of verdicts | the walk with nodes in front, behind and of the same artifact; a death and one more before the walk is repeated |
| `assertions` | 2 clients, 2 blocks, 4 events of clients and blocks, of which 1 signal, end of the canonization service or bad request counts as two | both clients assert, one cancels or leaves, a block overtakes, and the endpoint loses one fiber or both. That both are lost while the service still holds an assertion takes five events: with `MaxEvents = 5` and `MaxOdd = 0` the same properties hold (4,830,192 states, which takes too long to be repeated each time), and the proofs cover it |
| `sessions` | 5 setups of 2 clients: every request once; a client that leaves; too few contexts; two connections of one entity; two entities | each setup is one question; all requests with all faults at once is out of reach |
| `handshake` | 8 setups of 2 clients with at most 2 connections each | refused, wrong key, shutdown, failing supervisor, failing random service, doubled configuration, failing writes |
| `supervisor_*` | all 10 services, 2 deaths or failed starts, 2 signals | the proofs hold for any number |

A history or a counter that grows has its bound in the guard of the action that makes
it grow, and the bound is a constant of the module. No run uses symmetry.

Deadlock is checked in `data_store`, `canonization_*` and `attestation`. It is not
checked where the system may stop: the supervisor exits, a service that was told to
stop has no steps, and clients that have made all their requests make no more
(`Supervisor`, `DataSocket`, `DataApi`, `Assertions`, `Sessions`, `Handshake`).

## Fairness

Weak fairness of what runs by itself, and of nothing else.

- Callbacks and fibers: the event loop and the rcpr scheduler run whatever is ready,
  so a handler that stays enabled runs. This is the fairness of `Callbacks`
  (Canonization), `MainFiber`, `ReaperFiber` (Attestation), `ServiceStep`, `MainFiber`,
  `WriteFiber`, `EndpointFiber`, `WriteEndpointFiber` (Assertions), `Endpoint`, `Fiber`,
  `WriteEndpoint` (Sessions), the fibers in Handshake, and `Service` (DataSocket).
- A live service answers: `Services`, `Dataservice`, `Dispatch`, `RandomService`.
- A client that waits for a response reads it: `Receive`, `ClientReads`, and
  `ReceiveFails` on a closed socket; in `DataSocket` it also sends the rest of what it has
  begun to send (`SendSome`, `ReadSome`). Without it a full socket blocks a writer for ever,
  which is what the code does.
- The supervisor starts its services again: `Restart`; `Supervise` is the supervisor's
  own program.
- A process that was told to terminate does so: `ChildTerminates`. The code waits for
  it without a limit and kills only afterwards, so `ShutdownEnds` rests on this.
- `Attestation` also assumes that canonization makes its blocks
  (`CanonizationMakesBlock`, `BlockMakeGoesOn`), which is what `EventuallyCanonized`
  says of it.

Clients, crashes, faults, signals and timeouts are never fair.

## Proofs

`tlapm <module>.tla`. A theorem that ends in `Invariant`, `OffsetsApart` and
`OffsetsAtOnePlace` say by induction that an inductive invariant holds; the theorems
after it follow from it. The invariants are `IndInv` in most modules, `IndexInv` in
`DataStoreIndexProofs`, `LoopInv` in `DataSocketProofs` beside the `IndInv` of the
contexts, `FitInv` in `CanonizationProofs` for the chain, `PlaceInv` and `JustInv` in
`AnswersProofs`, and `HandInv` in `HandshakeProofs`.

| module | theorems | assumptions |
|---|---|---|
| `DataStoreProofs` | `Invariant`, `TypeCorrect`, `QueueCorrect` (`QueueIsFifo`), `ChainCorrect` (`ChainMatchesHeights`) | `SentinelAssumption`; requests and blocks are records of the right fields (`InputAssumption`) |
| `DataStoreIndexProofs` | `IndexesCorrect` (`IndexesMatchChain`) | as above |
| `DataSocketProofs` | of the contexts: `Invariant`, `SlotsCorrect` (`SlotsAccountedFor`), `GrantCorrect` (`ChildWithinGrant`), `AuthorityCorrect` (`AuthorityOnlyShrinks`); of the event loop: `LoopInvariant`, `StrandedCorrect` (`NothingStranded`), `CauseCorrect` (`LeavesForCause`), `SocketImplements` (every behaviour of `DataSocket` is one of `DataContexts`), `SocketSlots`, `SocketAuthority` | the capabilities to create the root and a child are different from the others, at least one slot (`CapAssumption`); the kernel holds at least one unit (`CapacityAssumption`), requests have capabilities and an index (`RequestsAssumption`) |
| `SupervisorProofs` | `Invariant`, `SignalsCorrect` (`SignalsOwnChild`), `OneProcessCorrect` (`OneProcessPerService`), `DataServiceCorrect` (`DataServiceOutlivesClient`), `LeftBehindCorrect` (`LeftBehind`) | the bounds are natural numbers (`BoundAssumption`) |
| `CanonizationProofs` | `Invariant`, `InFlightCorrect` (`InFlightMatchesState`), `ContextsCorrect` (`NoContextLeak`); `ChainInvariant`, `BlockFitsCorrect` (`BlockFitsChain`) | none for the first three, which are about control and hold whatever the data; for the others the random ids of blocks are neither the sentinels nor the root block (`BlockIdAssumption`) |
| `AssertionsProofs` | `OffsetsApart`, `TranslatedCorrect` (`HeldIsTranslated`), `StaleCorrect` (`StaleNeverHeld`) | none beyond the definitions: any clients, blocks and bounds |
| `AnswersProofs` | `OffsetsAtOnePlace`, `AnsweredOnceCorrect` (`AnsweredOnce`); `InvalidationsInvariant`, `InvalidationCorrect` (`InvalidationJustified`) | as above, and blocks are numbers (`BlockAssumption`); uses `OffsetsApart` |
| `HandshakeProofs` | `HandshakeInvariant`, `IvCorrect` (`IvUsedOnce`), `PeersCorrect` (`PeersAgree`) | the bound on attempts is a natural number that no setup exceeds (`AttemptsAssumption`), the value that stands for no error is not an error (`NoneAssumption`) |

- DataStore. That the queue is a list says nothing about the private copy of a block
  that is being made, which becomes the database at the commit. The invariant
  therefore states queue and chain of both, and the order of submission is carried by
  the history field `at`, which grows along the links.
  The indexes of that copy are not those of a chain: the block is there, and only the
  first of its transactions are. `PartlyIndexed` says what holds with a number of
  transactions of the last block indexed. Nothing of the block is, when it is linked; each
  transaction moves the number by one, with its artifact; at the commit all of them
  are, which is `IndexesMatchChain` (`IndexInv`).
- DataContexts. The argument is that a slot is on the free list exactly when it is not
  open, and that the list has no slot twice; the second part is what makes the first
  survive a creation.
- DataSocket. `NothingStranded` rests on what is in the stream. The invariant says that
  read buffer, kernel and client together hold a sequence of frames of three units, the
  first perhaps partly read (`Framed`), so that the buffer either has the whole of its
  first frame or waits for more; that a write callback about to be called finds room; and
  that the loop is only left after it was asked (`Between`). For `SocketImplements` a
  `Dispatch` is the step of `DataContexts` that the request asks for, `Leave` its
  `ExitEventLoop`, and every other step leaves its variables alone.
- Supervisor. None of the properties is inductive: they depend on where the
  supervisor is in its program. The invariant says that a service that runs is named
  by an entry still to come (`StillToCome`), after an ordinary wait by a stop entry before
  the first dispose (`StillToStop`), that what is still to be started does not run
  (`NotStartedYet`), and that only the process that is waited for has been told to stop.
- Canonization. `InFlightMatchesState` is not inductive, because the state says what is
  waited for and not what the data service is doing. The invariant adds what is being
  served for each phase of a request, and counts the child contexts by the state of
  the service: one while a round is on, none between rounds.
  `BlockFitsChain` is about the data that is read in three requests and used in a fourth.
  `FitInv` says of each state what the instance knows by then of the committed chain
  (`KnowsChain`): the unused id, the last block, the next height. It stays true because
  no other process makes blocks, and a `block_make` that is still running when the
  service dies is over before `Restart`, since the supervisor waits for the data service. For the commit to keep it, the chain
  is also described in the private copy (`ChainOk`).
- Assertions. The endpoint takes an offset out of its maps when any response with it
  arrives, be it the invalidation or the answer to a cancel, so `HeldIsTranslated` needs
  that an offset that is being answered is neither held nor still on the wire as an
  assertion (`Apart`). It is stated while the endpoint has a fiber: the last one to end frees
  the maps while the service may still hold assertions. A cancel behind its assertion on the same socket could break this;
  the order of the socket (`InTurn`) and the counter that never gives an offset twice
  (`Given`) exclude it.
- Answers. `AnsweredOnce` follows from where the offset of a request can be: on the
  client's socket, in the mailbox of the endpoint, in the maps, in the mailbox of the
  connection, or with the client (`OnePlace`), at each of them once. When a response is
  passed on, no second entry of the client may stay in the maps; this is the inverse
  property of `HeldIsTranslated`.
- Invalidations. `InvalidationJustified` compares the answer with what was asserted, and
  between the two the request has changed its offset twice. `JustInv` says that block
  updates are on their way in rising order, so that `latest` only advances, up to the
  chain (`OrderInv`); that an asserted block is not beyond the latest unless the client
  asserted it before the notification service knew of it (`AskedInv`); that mailboxes, maps and the service carry the
  block that was asserted under the offset (`ForwardInv`, `MapInv`, `ServiceInv`); and that
  what is being invalidated is out of date, which it stays (`DeliverInv`).
- Handshake. Of `HandInv`, `Passed` says that a descriptor is at one place between the
  listen service and its fiber, and none twice; `FiberInv` what a fiber knows of its
  client in each state; `ClientInv` which packets can be on their way for each state of a
  client, and that both ends hold the same secret once the acknowledgement is under way;
  `SealInv` who encrypted a packet, why it will not write another with that iv, and that
  the connection of a packet that could not be written is over. The
  key carries the nonce of the client, which is that of one connection, so two
  connections never share a key.

## Model-checked only

- Liveness (`EventuallyCanonized`, `EventuallyAnnounced`, `EveryTransactionDecided`,
  `CallsReturn`, `StaleAnswered`, `RequestsAnswered`, `ConnectionsReleased`, `StartEnds`,
  `HandshakesEnd`, `ShutdownEnds`, `RequestsServed`): fairness and ENABLED are beyond the prover.
- The refinement of `Ledger`: the abstract queue and chain are sequences computed from
  the links by recursion, and what a recursive definition computes needs induction over
  data.
- `ResponsesInOrder`: it compares the buffers with the concatenation of the frames of a
  sequence of messages, which is defined by recursion too.
- `AnswersAreTrue`, `RefusalsChangeNothing`, `WalkIsLive`, `ResponsesAreTrue`,
  `ContextsMatchConnections` and `RoutesAreLive`, of the compositions `DataApi`,
  `Attestation` and `Sessions`, and `FirstComeFirstCanonized` and `AnnouncementsAdvance` of
  `Canonization`: safety properties that compare histories of messages with the tables.
  Their invariants would have to follow every kind of request; no proof has been made.

## Not modelled

- Byte layout of messages, encryption, and failures of allocation, except where a
  fiber that cannot be created or a packet that cannot be written is a step of its own
  (`Handshake`). A packet whose write failed counts as not written, also if a part of
  it has left.
- LMDB: pages, lifetime of handles and of memory that a read transaction returns
  (`DStransaction_submit.c:191`), the abort after a failed commit
  (`DSglobal_settings_set.c:85`), and the opening of the database
  (`DSdatabase_open.c:157`). The tables are functions and a commit is atomic.
- Values read before they are assigned on malformed input, such as the child index in
  the answer to a close request that cannot be decoded.
- A context that is used after it was released while a block update is notified: the
  outcome is left open (`NotifyReleased`), the memory is not modelled.
- The forked copy of the supervisor that fails before `exec`
  (`src/src/randomservice/random_service_proc.c:109`) and returns into the supervisor's cleanup.
- Time. Timers and sleeps are steps that may happen; the retry after a busy round has
  no clock.
- The auth service: one request that stores identity and keys that nothing reads,
  and only in builds with `AUTHSERVICE`.
- Of `ipc`: blocking reads and writes, authenticated packets, packets with a single
  value, the passing of descriptors, timers, and failures of `event_new` and of
  allocation.
- Configuration, command line, `readers`, privilege separation, paths and strings:
  parsing and wrappers of system calls, run once before there is any concurrency.

## Plan

1. Proofs of `RoutesAreLive` and `ContextsMatchConnections` for any number of clients.
2. A proof of `WalkIsLive` over `DataStoreProofs`.
3. The forked copy of the supervisor.
