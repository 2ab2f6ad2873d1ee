---------------------------- MODULE Canonization ----------------------------
(***************************************************************************)
(* The canonization service (src/src/canonization) at work: it wakes up,  *)
(* reads attested transactions from the process queue one request at a    *)
(* time, makes a block of them and announces the block to the             *)
(* notification service.  Composed with the data store it reads and       *)
(* writes, with the clients that submit meanwhile through another data    *)
(* service process, and with the supervisor, which restarts the services  *)
(* when one of them has died.                                             *)
(*                                                                         *)
(* An instance talks to three services over sockets, with one request in  *)
(* flight.  Every callback of its event loop is one action; between a     *)
(* request and the callback for its response anything may happen to the   *)
(* database.                                                               *)
(***************************************************************************)
EXTENDS Naturals, Sequences

CONSTANTS
    TxnId, ArtifactId, BlockId, ArtifactState, ZeroUuid, FFUuid, RootBlock,
    BadCert, Requests, BlockReqs, Attestation, CommitMayFail, MaxSubmits,
    MaxTransactions,   \* block_max_transactions of the configuration
    OrderlyClients,    \* a transaction is submitted once, after its predecessor
    MaxFaults          \* bound on crashes and storage faults

VARIABLES
    db, work, making, arrivals, reply,   \* the data store
    svc,        \* canonizationservice_instance_t
    data,       \* the socket to the data service
    notify,     \* the socket to the notification service
    contexts,   \* how many child contexts the instance has open
    latest,     \* latest_block_id of the notification service
    faults      \* how many faults have happened

vars == <<db, work, making, arrivals, reply, svc, data, notify, contexts,
          latest, faults>>

DS == INSTANCE DataStore

ASSUME BoundAssumption ==
    /\ MaxTransactions \in Nat /\ MaxFaults \in Nat
    /\ OrderlyClients \in BOOLEAN

ASSUME BlockIdAssumption == {ZeroUuid, FFUuid, RootBlock} \cap BlockId = {}
-----------------------------------------------------------------------------
(* The instance and its sockets. *)

\* Faulty variant: a new instance does not announce what it finds.
SilentInstance ==
    [up |-> TRUE, state |-> "IDLE", block_id |-> ZeroUuid,
     previous_block_id |-> ZeroUuid, block_height |-> 0,
     transaction_list |-> <<>>, first_time |-> FALSE]

\* instance_create, then started: the supervisor has configured the instance,
\* given it its key and sent the start command, which arms the timer.
StartedInstance ==
    [up |-> TRUE, state |-> "IDLE", block_id |-> ZeroUuid,
     previous_block_id |-> ZeroUuid, block_height |-> 0,
     transaction_list |-> <<>>, first_time |-> TRUE]

Quiet == [phase |-> "quiet", method |-> "none", arg |-> ZeroUuid]

Request(method, arg) == [phase |-> "request", method |-> method, arg |-> arg]

Response(status, val) ==
    [phase |-> "response", method |-> data.method, status |-> status, val |-> val]

\* The instance i sends a request to the data service and waits in state s.
SendReq(i, s, method, arg) ==
    /\ svc' = [i EXCEPT !.state = s]
    /\ data' = Request(method, arg)
    /\ UNCHANGED notify

ChildContextClose(i) ==
    SendReq(i, "CHILD_CONTEXT_CLOSE", "child_context_close", ZeroUuid)

\* Faulty variant: the state is not set when the announcement is sent.
NotifyInOldState(i) ==
    /\ svc' = i
    /\ notify' = Request("block_update", i.block_id)
    /\ data' = Quiet

\* canonizationservice_notify_block_update.
NotifyBlockUpdate(i) ==
    /\ svc' = [i EXCEPT !.state = "NOTIFY_BLOCK_UPDATE"]
    /\ notify' = Request("block_update", i.block_id)
    /\ data' = Quiet

\* Faulty variant: the id drawn for the next block is announced.
CompleteUpdateNewId(i) ==
    IF i.first_time
    THEN NotifyBlockUpdate([i EXCEPT !.first_time = FALSE])
    ELSE ChildContextClose(i)

\* Faulty variant: the round ends without closing the child context.
CompleteUpdateNoClose(i) ==
    IF i.first_time
    THEN NotifyBlockUpdate([i EXCEPT !.first_time = FALSE,
                                     !.block_id = i.previous_block_id])
    ELSE svc' = [i EXCEPT !.state = "IDLE"] /\ data' = Quiet /\ UNCHANGED notify

\* The block id that is announced for an update without a block is the one that
\* was the latest when this update began.
CompleteUpdate(i) ==
    IF i.first_time
    THEN NotifyBlockUpdate([i EXCEPT !.first_time = FALSE,
                                     !.block_id = i.previous_block_id])
    ELSE ChildContextClose(i)

\* The certificate that the builder emits, as block_make will parse it.
BuiltBlock(i) ==
    [id |-> i.block_id, uuid |-> i.block_id, height |-> i.block_height,
     prev |-> i.previous_block_id, txns |-> i.transaction_list]

BlockMake(i) ==
    IF i.transaction_list = <<>> THEN CompleteUpdate(i)
    ELSE SendReq(i, "BLOCK_MAKE", "block_make", BuiltBlock(i))

\* A transaction was read and is attested: the block is complete when it is full
\* or the queue ends here.  The state does not change for the next read.
AddTransaction(node) ==
    LET i == [svc EXCEPT !.transaction_list = Append(@, node.cert)]
    IN  IF Len(i.transaction_list) = MaxTransactions \/ node.next = FFUuid
        THEN BlockMake(i)
        ELSE SendReq(i, i.state, "transaction_get", node.next)

ExitEventLoop ==
    /\ svc' = [svc EXCEPT !.up = FALSE]
    /\ UNCHANGED <<data, notify>>
-----------------------------------------------------------------------------
(* The callbacks of the event loop. *)

Awake(i) == [i EXCEPT !.state = "GET_RANDOM_BYTES", !.transaction_list = <<>>]

TimerCb ==
    /\ svc.up /\ svc.state = "IDLE"
    /\ svc' = Awake(svc)
    /\ UNCHANGED <<db, work, making, arrivals, reply, data, notify, contexts, latest, faults>>

\* The random service answers with 16 bytes: an id that nobody has used (bound: there
\* is one left).
Unused == BlockId \ ({latest} \cup DS!Blocks(db))

FreshBlockId == CHOOSE b \in Unused : TRUE

RandomRead ==
    /\ svc.up /\ svc.state = "GET_RANDOM_BYTES"
    /\ Unused # {}
    /\ SendReq([svc EXCEPT !.block_id = FreshBlockId],
               "CHILD_CONTEXT_CREATE", "child_context_create", ZeroUuid)
    /\ UNCHANGED <<db, work, making, arrivals, reply, contexts, latest, faults>>

\* The data socket is readable; data_read dispatches on the method alone.
DataRead(method) ==
    /\ svc.up
    /\ data.phase = "response" /\ data.method = method
    /\ UNCHANGED <<db, work, making, arrivals, reply, contexts, latest, faults>>

ResponseChildContextCreate ==
    /\ DataRead("child_context_create")
    /\ SendReq(svc, "LATEST_BLOCK_ID_GET", "latest_block_id_get", ZeroUuid)

ResponseLatestBlockIdRead ==
    /\ DataRead("latest_block_id_get")
    /\ LET i == [svc EXCEPT !.previous_block_id = data.val]
       IN  IF data.val = RootBlock
           THEN SendReq([i EXCEPT !.block_height = 1],
                        "PQ_TXN_FIRST_GET", "transaction_get_first", ZeroUuid)
           ELSE SendReq(i, "BLOCK_GET", "block_get", data.val)

\* Faulty variant: the height of the previous block is used for the new one.
ResponseBlockReadSameHeight ==
    /\ DataRead("block_get")
    /\ IF data.status = "SUCCESS"
       THEN SendReq([svc EXCEPT !.block_height = data.val],
                    "PQ_TXN_FIRST_GET", "transaction_get_first", ZeroUuid)
       ELSE ExitEventLoop

ResponseBlockRead ==
    /\ DataRead("block_get")
    /\ IF data.status = "SUCCESS"
       THEN SendReq([svc EXCEPT !.block_height = data.val + 1],
                    "PQ_TXN_FIRST_GET", "transaction_get_first", ZeroUuid)
       ELSE ExitEventLoop

Attested(node) == node.state = "ATTESTED"

ResponseTransactionFirstRead ==
    /\ DataRead("transaction_get_first")
    /\ IF data.status = "NOT_FOUND" THEN CompleteUpdate(svc)
       ELSE IF ~Attested(data.val) THEN CompleteUpdate(svc)
       ELSE AddTransaction(data.val)

ResponseTransactionRead ==
    /\ DataRead("transaction_get")
    /\ IF data.status = "NOT_FOUND" THEN BlockMake(svc)
       ELSE IF ~Attested(data.val) THEN BlockMake(svc)
       ELSE AddTransaction(data.val)

\* The response, and with it the status of block_make, is not looked at.
ResponseBlockWrite ==
    /\ DataRead("block_make")
    /\ NotifyBlockUpdate(svc)

NotifyRead ==
    /\ svc.up
    /\ notify.phase = "response"
    /\ IF svc.state = "NOTIFY_BLOCK_UPDATE"
       THEN /\ svc' = [svc EXCEPT !.state = "CHILD_CONTEXT_CLOSE"]
            /\ data' = Request("child_context_close", ZeroUuid)
       ELSE svc' = [svc EXCEPT !.up = FALSE] /\ UNCHANGED data
    /\ notify' = Quiet
    /\ UNCHANGED <<db, work, making, arrivals, reply, contexts, latest, faults>>

\* canonizationservice_reset: a full block means that there may be more to do,
\* so the timer callback is called at once instead of after the interval.
ResponseChildContextClose ==
    /\ DataRead("child_context_close")
    /\ LET i == [svc EXCEPT !.state = "IDLE", !.block_id = ZeroUuid,
                            !.transaction_list = <<>>]
       IN  svc' = IF Len(svc.transaction_list) # MaxTransactions
                  THEN i ELSE Awake(i)
    /\ data' = Quiet
    /\ UNCHANGED notify
-----------------------------------------------------------------------------
(* The data service process of the canonization service. *)

Asked(method) == data.phase = "request" /\ data.method = method

\* A request that only reads is answered from the committed database.
Answers(status, val) ==
    /\ data' = Response(status, val)
    /\ UNCHANGED <<db, work, making, arrivals, reply, svc, notify, latest, faults>>

ServeContexts ==
    \/ /\ Asked("child_context_create")
       /\ contexts' = contexts + 1
       /\ Answers("SUCCESS", ZeroUuid)
    \/ /\ Asked("child_context_close")
       /\ contexts' = contexts - 1
       /\ Answers("SUCCESS", ZeroUuid)

ServeLatestBlockId ==
    /\ Asked("latest_block_id_get")
    /\ Answers("SUCCESS", DS!LatestBlockId(db))
    /\ UNCHANGED contexts

ServeBlockGet ==
    /\ Asked("block_get")
    /\ IF data.arg \in DS!Blocks(db)
       THEN Answers("SUCCESS", db.block[data.arg].height)
       ELSE Answers("NOT_FOUND", ZeroUuid)
    /\ UNCHANGED contexts

AnswerNode(t) ==
    IF t \in DS!Queued(db)
    THEN Answers("SUCCESS", [next |-> db.pq[t].next, state |-> db.pq[t].state,
                             cert |-> db.pq[t].cert])
    ELSE Answers("NOT_FOUND", ZeroUuid)

\* Faulty variant: the node before the end node is read.
ServeLastLookup ==
    /\ Asked("transaction_get_first")
    /\ IF FFUuid \notin DOMAIN db.pq \/ db.pq[FFUuid].prev = ZeroUuid
       THEN Answers("NOT_FOUND", ZeroUuid)
       ELSE /\ data' = [data EXCEPT !.phase = "second_read",
                                    !.arg = db.pq[FFUuid].prev]
            /\ UNCHANGED <<db, work, making, arrivals, reply, svc, notify, latest, faults>>
    /\ UNCHANGED contexts

\* transaction_get_first looks up the begin node in one read transaction and
\* the node that follows it in another.
ServeFirstLookup ==
    /\ Asked("transaction_get_first")
    /\ IF ZeroUuid \notin DOMAIN db.pq \/ db.pq[ZeroUuid].next = FFUuid
       THEN Answers("NOT_FOUND", ZeroUuid)
       ELSE /\ data' = [data EXCEPT !.phase = "second_read",
                                    !.arg = db.pq[ZeroUuid].next]
            /\ UNCHANGED <<db, work, making, arrivals, reply, svc, notify, latest, faults>>
    /\ UNCHANGED contexts

ServeFirstRead ==
    /\ data.phase = "second_read"
    /\ AnswerNode(data.arg)
    /\ UNCHANGED contexts

ServeTransactionGet ==
    /\ Asked("transaction_get")
    /\ AnswerNode(data.arg)
    /\ UNCHANGED contexts

ServeBlockMakeBegin ==
    /\ Asked("block_make")
    /\ \/ DS!BlockBegin(data.arg) /\ data' = [data EXCEPT !.phase = "making"]
       \/ DS!BlockReject(data.arg) /\ data' = Response(reply'.status, ZeroUuid)
    /\ UNCHANGED <<svc, notify, contexts, latest, faults>>

ServeBlockMake ==
    /\ \/ DS!BlockChild /\ UNCHANGED data
       \/ /\ DS!BlockChildFails \/ DS!BlockCommit
          /\ data' = Response(reply'.status, ZeroUuid)
    /\ UNCHANGED <<svc, notify, contexts, latest, faults>>
-----------------------------------------------------------------------------
(* Everybody else. *)

\* The notification service: block_update of an instance that may send it.
ServeNotify ==
    /\ notify.phase = "request"
    /\ latest' = notify.arg
    /\ notify' = [notify EXCEPT !.phase = "response"]
    /\ UNCHANGED <<db, work, making, arrivals, reply, svc, data, contexts, faults>>

\* A client submits through the protocol service and its data service.
ClientSubmit(r) ==
    /\ OrderlyClients =>
         /\ r.id \notin DS!Canonized(db)
         /\ r.cert.prev \in {ZeroUuid} \cup DS!Queued(db) \cup DS!Canonized(db)
    /\ DS!Submit(r)
    /\ UNCHANGED <<svc, data, notify, contexts, latest, faults>>

\* With attestation, the attestation service drops or promotes a transaction
\* that is waiting for it.
Attest(t) ==
    /\ t \in DS!Queued(db) /\ db.pq[t].state = "SUBMITTED"
    /\ DS!Promote(t) \/ DS!Drop(t)
    /\ UNCHANGED <<svc, data, notify, contexts, latest, faults>>

\* The canonization service dies, or ends its event loop for want of memory or
\* because a socket fails.
Crash ==
    /\ svc.up
    /\ faults < MaxFaults
    /\ svc' = [svc EXCEPT !.up = FALSE]
    /\ faults' = faults + 1
    /\ UNCHANGED <<db, work, making, arrivals, reply, data, notify, contexts, latest>>

\* Its data service dies in the middle of a block; the canonization service
\* finds its socket closed.
DataServiceCrash ==
    /\ faults < MaxFaults
    /\ DS!BlockFault
    /\ svc' = [svc EXCEPT !.up = FALSE]
    /\ data' = Quiet
    /\ faults' = faults + 1
    /\ UNCHANGED <<notify, contexts, latest>>

\* An LMDB call or an allocation fails in the middle of a block.
StorageFault ==
    /\ CommitMayFail
    /\ faults < MaxFaults
    /\ DS!BlockFault
    /\ data' = Response(reply'.status, ZeroUuid)
    /\ faults' = faults + 1
    /\ UNCHANGED <<svc, notify, contexts, latest>>

\* The supervisor sees that a service has ended, stops all the others, the data
\* services last and after they have finished what they are doing, and starts
\* everything again.
Restart ==
    /\ ~svc.up
    /\ ~making.open
    /\ svc' = StartedInstance
    /\ data' = Quiet /\ notify' = Quiet
    /\ contexts' = 0
    /\ latest' = ZeroUuid
    /\ UNCHANGED <<db, work, making, arrivals, reply, faults>>
-----------------------------------------------------------------------------
Init ==
    /\ DS!Init
    /\ svc = StartedInstance
    /\ data = Quiet /\ notify = Quiet
    /\ contexts = 0
    /\ latest = ZeroUuid
    /\ faults = 0

Callbacks ==
    \/ TimerCb \/ RandomRead
    \/ ResponseChildContextCreate \/ ResponseLatestBlockIdRead \/ ResponseBlockRead
    \/ ResponseTransactionFirstRead \/ ResponseTransactionRead
    \/ ResponseBlockWrite \/ NotifyRead \/ ResponseChildContextClose

Services ==
    \/ ServeContexts \/ ServeLatestBlockId \/ ServeBlockGet
    \/ ServeFirstLookup \/ ServeFirstRead \/ ServeTransactionGet
    \/ ServeBlockMakeBegin \/ ServeBlockMake \/ ServeNotify

Next ==
    \/ Callbacks
    \/ Services
    \/ \E r \in Requests : ClientSubmit(r)
    \/ \E t \in TxnId : Attest(t)
    \/ Crash \/ DataServiceCrash \/ StorageFault
    \/ Restart

\* The event loop runs the callback of a readable socket and of a timer that is
\* due, a service answers the request it has, and the supervisor acts on the
\* death of a service.  Nothing obliges clients to submit.
Fairness == WF_vars(Callbacks) /\ WF_vars(Services) /\ WF_vars(Restart)

Spec == Init /\ [][Next]_vars /\ Fairness
-----------------------------------------------------------------------------
DataStates ==
    [CHILD_CONTEXT_CREATE |-> {"child_context_create"},
     LATEST_BLOCK_ID_GET |-> {"latest_block_id_get"},
     BLOCK_GET |-> {"block_get"},
     PQ_TXN_FIRST_GET |-> {"transaction_get_first", "transaction_get"},
     BLOCK_MAKE |-> {"block_make"},
     CHILD_CONTEXT_CLOSE |-> {"child_context_close"}]

States ==
    {"IDLE", "GET_RANDOM_BYTES", "NOTIFY_BLOCK_UPDATE"} \cup DOMAIN DataStates

\* Type invariant of the instance and its sockets.
TypeOK ==
    /\ DS!TypeOK
    /\ DOMAIN svc = DOMAIN StartedInstance
    /\ svc.up \in BOOLEAN /\ svc.first_time \in BOOLEAN
    /\ svc.state \in States
    /\ svc.block_id \in DS!AnyBlockId /\ svc.previous_block_id \in DS!AnyBlockId
    /\ svc.block_height \in Nat
    /\ svc.transaction_list \in Seq(DS!Cert \cup {BadCert})
    /\ data.phase \in {"quiet", "request", "second_read", "making", "response"}
    /\ notify.phase \in {"quiet", "request", "response"}
    /\ contexts \in Nat
    /\ latest \in DS!AnyBlockId
    /\ faults \in 0 .. MaxFaults

\* The response that arrives is the one that the instance waits for: data_read
\* picks the handler by the method of the response and does not compare it with
\* the state, so this is what keeps the handlers in step with the state.  There is
\* one request in flight at most, on one socket.
InFlightMatchesState ==
    svc.up =>
        /\ data.phase # "quiet" <=> svc.state \in DOMAIN DataStates
        /\ data.phase # "quiet" => data.method \in DataStates[svc.state]
        /\ notify.phase # "quiet" <=> svc.state = "NOTIFY_BLOCK_UPDATE"

\* No child context leaks: the data service has 1024 of them for the lifetime of
\* the process, and a round ends with as many open as it began with.
NoContextLeak ==
    /\ contexts <= 1
    /\ svc.up /\ svc.state \in {"IDLE", "GET_RANDOM_BYTES"} => contexts = 0

\* Whatever happened since the instance read the latest block and its height, the
\* block it presents to block_make is the successor of the last block of the
\* chain and passes the constraints on its header.
BlockFitsChain ==
    data.phase = "request" /\ data.method = "block_make" =>
        /\ DS!ConstraintMatchingHeight(db, data.arg)
        /\ DS!ConstraintMatchingPrevUuid(db, data.arg)
        /\ DS!ConstraintSaneBlockUuid(data.arg)
        /\ DS!CanInsertBlock(db, data.arg)

\* First come, first canonized: a block never takes a transaction and leaves one
\* behind that was submitted before it, although the queue is read over several
\* requests while clients submit.
FirstComeFirstCanonized ==
    [][ \A t \in DS!Canonized(db') \ DS!Canonized(db), u \in DS!Queued(db') :
            db.pq[t].at < db'.pq[u].at ]_vars

\* What is announced as the latest block is on the chain, or is the root block.
AnnouncedIsOnChain ==
    latest \in {ZeroUuid, RootBlock} \cup DS!Blocks(db)

HeightOf(b) == IF b \in DS!Blocks(db) THEN db.block[b].height ELSE 0

\* Announcements do not go back: until the notification service is restarted, the
\* latest block id never names a block below the one it named before.
\* (canonizationservice_notify_block_update, canonizationservice_complete_update)
AnnouncementsAdvance ==
    [][ latest' = ZeroUuid \/ HeightOf(latest) <= HeightOf(latest)' ]_vars

\* Attested transactions that are found on the queue are used to build the next
\* block: every queued transaction is canonized in the end, also when services
\* crash and are restarted in between.
EventuallyCanonized ==
    \A t \in TxnId : t \in DS!Queued(db) ~> t \in DS!Canonized(db)

\* The last block of the chain is announced in the end, also when the
\* canonization service died between the commit and the announcement: after a
\* restart the first round announces what it finds (first_time).
EventuallyAnnounced == []<>(latest = DS!LatestBlockId(db))
=============================================================================
