------------------------- MODULE CanonizationProofs -------------------------
(***************************************************************************)
(* Proofs that the canonization service stays in step with its sockets and *)
(* returns its child contexts, for any data, any number of faults, orderly *)
(* clients or not, and commits that may fail.                              *)
(*                                                                         *)
(* InFlightMatchesState alone is not inductive: a block that is being made *)
(* answers on the data socket when it ends, so the socket must be known to *)
(* wait for it.  The count of open contexts follows from the state and     *)
(* from whether the request in flight was served, also while the service   *)
(* is down and its last request is still being served.                     *)
(*                                                                         *)
(* The second part is about the data: a block that is sent to block_make   *)
(* fits the end of the chain.  What the instance has read of the chain     *)
(* stays true, since only its own block_make commits a block.              *)
(***************************************************************************)
EXTENDS Canonization, TLAPS

Fields == {"up", "state", "block_id", "previous_block_id", "block_height",
           "transaction_list", "first_time"}

\* The fields that the control depends on.
Shape ==
    /\ DOMAIN svc = Fields
    /\ svc.up \in BOOLEAN /\ svc.state \in States
    /\ {"phase", "method"} \subseteq DOMAIN data
    /\ data.phase \in {"quiet", "request", "second_read", "making", "response"}
    /\ "phase" \in DOMAIN notify
    /\ notify.phase \in {"quiet", "request", "response"}
    /\ "open" \in DOMAIN making

\* The data service is at work on the request that is in flight.
Serving ==
    /\ making.open => data.phase = "making"
    /\ data.phase = "making" => data.method = "block_make"
    /\ data.phase = "second_read" => data.method = "transaction_get_first"

\* A request to create a context finds none open, a request to close finds one.
Counted ==
    /\ contexts \in {0, 1}
    /\ data.phase = "request" /\ data.method = "child_context_create" => contexts = 0
    /\ data.phase = "request" /\ data.method = "child_context_close" => contexts = 1

\* What the state says of the number of open contexts.
CountedByState ==
    svc.up =>
        /\ svc.state \in {"IDLE", "GET_RANDOM_BYTES"} => contexts = 0
        /\ svc.state \in {"LATEST_BLOCK_ID_GET", "BLOCK_GET", "PQ_TXN_FIRST_GET",
                          "BLOCK_MAKE", "NOTIFY_BLOCK_UPDATE"} => contexts = 1
        /\ svc.state = "CHILD_CONTEXT_CREATE" /\ data.phase = "response" => contexts = 1
        /\ svc.state = "CHILD_CONTEXT_CLOSE" /\ data.phase = "response" => contexts = 0

IndInv == Shape /\ InFlightMatchesState /\ Serving /\ Counted /\ CountedByState
-----------------------------------------------------------------------------
\* The states of the service and the requests that each of them waits for.
LEMMA StateFacts ==
    /\ DOMAIN DataStates = {"CHILD_CONTEXT_CREATE", "LATEST_BLOCK_ID_GET", "BLOCK_GET",
                            "PQ_TXN_FIRST_GET", "BLOCK_MAKE", "CHILD_CONTEXT_CLOSE"}
    /\ DataStates["CHILD_CONTEXT_CREATE"] = {"child_context_create"}
    /\ DataStates["LATEST_BLOCK_ID_GET"] = {"latest_block_id_get"}
    /\ DataStates["BLOCK_GET"] = {"block_get"}
    /\ DataStates["PQ_TXN_FIRST_GET"] = {"transaction_get_first", "transaction_get"}
    /\ DataStates["BLOCK_MAKE"] = {"block_make"}
    /\ DataStates["CHILD_CONTEXT_CLOSE"] = {"child_context_close"}
    /\ States = {"IDLE", "GET_RANDOM_BYTES", "NOTIFY_BLOCK_UPDATE",
                 "CHILD_CONTEXT_CREATE", "LATEST_BLOCK_ID_GET", "BLOCK_GET",
                 "PQ_TXN_FIRST_GET", "BLOCK_MAKE", "CHILD_CONTEXT_CLOSE"}
  BY DEF DataStates, States

\* The method of a response tells the state that waits for it.
LEMMA StateOfMethod ==
    \A s \in DOMAIN DataStates : \A method \in DataStates[s] :
        /\ method = "child_context_create" => s = "CHILD_CONTEXT_CREATE"
        /\ method = "latest_block_id_get" => s = "LATEST_BLOCK_ID_GET"
        /\ method = "block_get" => s = "BLOCK_GET"
        /\ method \in {"transaction_get_first", "transaction_get"} => s = "PQ_TXN_FIRST_GET"
        /\ method = "block_make" => s = "BLOCK_MAKE"
        /\ method = "child_context_close" => s = "CHILD_CONTEXT_CLOSE"
<1> SUFFICES ASSUME NEW s \in DOMAIN DataStates, NEW method \in DataStates[s]
             PROVE  /\ method = "child_context_create" => s = "CHILD_CONTEXT_CREATE"
                    /\ method = "latest_block_id_get" => s = "LATEST_BLOCK_ID_GET"
                    /\ method = "block_get" => s = "BLOCK_GET"
                    /\ method \in {"transaction_get_first", "transaction_get"} => s = "PQ_TXN_FIRST_GET"
                    /\ method = "block_make" => s = "BLOCK_MAKE"
                    /\ method = "child_context_close" => s = "CHILD_CONTEXT_CLOSE"
  OBVIOUS
<1>1. CASE s = "CHILD_CONTEXT_CREATE"
  BY <1>1, StateFacts
<1>2. CASE s = "LATEST_BLOCK_ID_GET"
  BY <1>2, StateFacts
<1>3. CASE s = "BLOCK_GET"
  BY <1>3, StateFacts
<1>4. CASE s = "PQ_TXN_FIRST_GET"
  BY <1>4, StateFacts
<1>5. CASE s = "BLOCK_MAKE"
  BY <1>5, StateFacts
<1>6. CASE s = "CHILD_CONTEXT_CLOSE"
  BY <1>6, StateFacts
<1>7. QED
  BY <1>1, <1>2, <1>3, <1>4, <1>5, <1>6, StateFacts

\* The service starts idle, with quiet sockets and no context.
LEMMA InitInv == Init => IndInv
  BY StateFacts
  DEF Init, DS!Init, DS!NotMaking, StartedInstance, Quiet, Fields, IndInv, Shape,
      InFlightMatchesState, Serving, Counted, CountedByState

\* A running instance that has the turn: the request in flight is answered or
\* there is none, and it sends the next one.
LEMMA SendReqInv ==
    ASSUME NEW i, DOMAIN i = Fields, i.up = TRUE,
           NEW s \in DOMAIN DataStates, NEW method \in DataStates[s], NEW arg,
           SendReq(i, s, method, arg), Shape,
           ~making.open, UNCHANGED <<making, contexts>>,
           notify.phase = "quiet",
           contexts = IF s = "CHILD_CONTEXT_CREATE" THEN 0 ELSE 1
    PROVE  IndInv'
<1>1. /\ DOMAIN svc' = Fields /\ svc'.state = s /\ svc'.up = TRUE
      /\ data' = [phase |-> "request", method |-> method, arg |-> arg]
      /\ notify' = notify
  BY DEF SendReq, Request, Fields
<1>2. {"phase", "method"} \subseteq DOMAIN data' /\ data'.phase = "request" /\ data'.method = method
  BY <1>1
<1>3. Shape' /\ Serving'
  BY Zenon, <1>1, <1>2, StateFacts DEF Shape, Serving
<1>4. InFlightMatchesState'
  BY <1>1, <1>2, StateFacts DEF InFlightMatchesState
<1>5. Counted' /\ CountedByState'
  BY <1>1, <1>2, StateFacts DEF Counted, CountedByState
<1>6. QED
  BY <1>3, <1>4, <1>5 DEF IndInv

\* An announcement is sent from a quiet socket, with the context open.
\* (canonizationservice_notify_block_update)
LEMMA NotifyInv ==
    ASSUME NEW i, DOMAIN i = Fields, i.up = TRUE, NotifyBlockUpdate(i), Shape,
           ~making.open, UNCHANGED <<making, contexts>>, contexts = 1
    PROVE  IndInv'
<1>1. /\ DOMAIN svc' = Fields /\ svc'.state = "NOTIFY_BLOCK_UPDATE" /\ svc'.up = TRUE
      /\ "phase" \in DOMAIN notify' /\ notify'.phase = "request"
      /\ {"phase", "method"} \subseteq DOMAIN data' /\ data'.phase = "quiet"
  BY DEF NotifyBlockUpdate, Request, Quiet, Fields
<1>2. QED
  BY Zenon, <1>1, StateFacts
  DEF IndInv, Shape, Serving, InFlightMatchesState, Counted, CountedByState

\* The end of a round asks for the context to be closed.
\* (canonizationservice_complete_update)
LEMMA CompleteUpdateInv ==
    ASSUME NEW i, DOMAIN i = Fields, i.up = TRUE, CompleteUpdate(i), Shape,
           ~making.open, UNCHANGED <<making, contexts>>, contexts = 1,
           notify.phase = "quiet"
    PROVE  IndInv'
<1>1. CASE i.first_time
  <2> DEFINE k == [i EXCEPT !.first_time = FALSE, !.block_id = i.previous_block_id]
  <2>1. DOMAIN k = Fields /\ k.up = TRUE /\ NotifyBlockUpdate(k)
    BY <1>1 DEF CompleteUpdate, Fields
  <2> HIDE DEF k
  <2>2. QED
    BY Zenon, <2>1, NotifyInv
<1>2. CASE ~i.first_time
  <2>1. SendReq(i, "CHILD_CONTEXT_CLOSE", "child_context_close", ZeroUuid)
    BY <1>2 DEF CompleteUpdate, ChildContextClose
  <2>2. QED
    BY Zenon, <2>1, SendReqInv, StateFacts
<1>3. QED
  BY <1>1, <1>2

\* The block that was collected is sent to the data service, or there is none.
\* (canonizationservice_block_make)
LEMMA BlockMakeInv ==
    ASSUME NEW i, DOMAIN i = Fields, i.up = TRUE, BlockMake(i), Shape,
           ~making.open, UNCHANGED <<making, contexts>>, contexts = 1,
           notify.phase = "quiet"
    PROVE  IndInv'
<1>1. CASE i.transaction_list = <<>>
  BY Zenon, <1>1, CompleteUpdateInv DEF BlockMake
<1>2. CASE i.transaction_list # <<>>
  BY Zenon, <1>2, SendReqInv, StateFacts DEF BlockMake
<1>3. QED
  BY <1>1, <1>2

\* A transaction that was read is collected, and the next one is asked for or the
\* block is made.  (canonizationservice_dataservice_response_transaction_read)
LEMMA AddTransactionInv ==
    ASSUME NEW node, AddTransaction(node), Shape, svc.up = TRUE,
           svc.state = "PQ_TXN_FIRST_GET",
           ~making.open, UNCHANGED <<making, contexts>>, contexts = 1,
           notify.phase = "quiet"
    PROVE  IndInv'
<1> DEFINE i == [svc EXCEPT !.transaction_list = Append(@, node.cert)]
<1>1. DOMAIN i = Fields /\ i.up = TRUE /\ i.state = "PQ_TXN_FIRST_GET"
  BY DEF Shape, Fields
<1>2. \/ BlockMake(i)
      \/ SendReq(i, i.state, "transaction_get", node.next)
  BY DEF AddTransaction
<1> HIDE DEF i
<1>3. CASE BlockMake(i)
  BY Zenon, <1>1, <1>3, BlockMakeInv
<1>4. CASE SendReq(i, i.state, "transaction_get", node.next)
  BY Zenon, <1>1, <1>4, SendReqInv, StateFacts
<1>5. QED
  BY <1>2, <1>3, <1>4
-----------------------------------------------------------------------------
(* The callbacks. *)

\* A running instance whose data socket is readable.
LEMMA DataReadFacts ==
    ASSUME IndInv, NEW method, DataRead(method)
    PROVE  /\ Shape /\ svc.up = TRUE /\ DOMAIN svc = Fields
           /\ notify.phase = "quiet" /\ ~making.open
           /\ UNCHANGED <<making, contexts>>
           /\ data.phase = "response" /\ data.method = method
           /\ svc.state \in DOMAIN DataStates /\ method \in DataStates[svc.state]
  BY StateFacts
  DEF IndInv, Shape, InFlightMatchesState, Serving, DataRead

\* The timer starts a round from the idle state.  (canonizationservice_timer_cb)
LEMMA TimerInv == ASSUME IndInv, TimerCb PROVE IndInv'
<1>1. /\ svc.up = TRUE /\ svc.state = "IDLE"
      /\ DOMAIN svc' = Fields /\ svc'.up = TRUE /\ svc'.state = "GET_RANDOM_BYTES"
      /\ UNCHANGED <<making, data, notify, contexts>>
  BY DEF IndInv, Shape, Fields, TimerCb, Awake
<1>2. QED
  BY Zenon, <1>1, StateFacts
  DEF IndInv, Shape, Serving, InFlightMatchesState, Counted, CountedByState

\* The block id has arrived and a context is asked for.  (canonizationservice_random_read)
LEMMA RandomReadInv == ASSUME IndInv, RandomRead PROVE IndInv'
<1> DEFINE i == [svc EXCEPT !.block_id = FreshBlockId]
<1>1. DOMAIN i = Fields /\ i.up = TRUE /\ svc.up = TRUE /\ svc.state = "GET_RANDOM_BYTES"
  BY DEF IndInv, Shape, Fields, RandomRead
<1>2. /\ SendReq(i, "CHILD_CONTEXT_CREATE", "child_context_create", ZeroUuid)
      /\ UNCHANGED <<making, contexts>>
  BY DEF RandomRead
<1> HIDE DEF i
<1>3. notify.phase = "quiet" /\ contexts = 0 /\ ~making.open /\ Shape
  BY <1>1, StateFacts DEF IndInv, InFlightMatchesState, CountedByState, Serving, Shape
<1>4. QED
  BY Zenon, <1>1, <1>2, <1>3, SendReqInv, StateFacts

\* A handler that fails ends the event loop: the service is down.
LEMMA ExitInv ==
    ASSUME IndInv, ExitEventLoop, UNCHANGED <<making, contexts>>
    PROVE  IndInv'
<1>1. DOMAIN svc' = Fields /\ svc'.up = FALSE /\ svc'.state = svc.state /\ UNCHANGED <<data, notify>>
  BY DEF IndInv, Shape, Fields, ExitEventLoop
<1>2. QED
  BY Zenon, <1>1 DEF IndInv, Shape, Serving, InFlightMatchesState, Counted, CountedByState

\* The context is there; the latest block id is asked for.
LEMMA ResponseChildContextCreateInv ==
    ASSUME IndInv, ResponseChildContextCreate PROVE IndInv'
<1>1. DataRead("child_context_create") /\ SendReq(svc, "LATEST_BLOCK_ID_GET", "latest_block_id_get", ZeroUuid)
  BY DEF ResponseChildContextCreate
<1>2. svc.state = "CHILD_CONTEXT_CREATE"
  BY Zenon, <1>1, DataReadFacts, StateOfMethod
<1>3. contexts = 1
  BY Zenon, <1>1, <1>2, DataReadFacts DEF IndInv, CountedByState
<1>4. QED
  BY Zenon, <1>1, <1>3, DataReadFacts, SendReqInv, StateFacts

\* The latest block id is there; the block or the queue is read.
LEMMA ResponseLatestBlockIdReadInv ==
    ASSUME IndInv, ResponseLatestBlockIdRead PROVE IndInv'
<1>1. DataRead("latest_block_id_get")
  BY DEF ResponseLatestBlockIdRead
<1>2. svc.state = "LATEST_BLOCK_ID_GET" /\ contexts = 1
  BY Zenon, <1>1, DataReadFacts, StateOfMethod DEF IndInv, CountedByState
<1> DEFINE i == [svc EXCEPT !.previous_block_id = data.val]
           k == [i EXCEPT !.block_height = 1]
<1>3. DOMAIN i = Fields /\ i.up = TRUE /\ DOMAIN k = Fields /\ k.up = TRUE
  BY Zenon, <1>1, DataReadFacts DEF Fields
<1>4. \/ SendReq(k, "PQ_TXN_FIRST_GET", "transaction_get_first", ZeroUuid)
      \/ SendReq(i, "BLOCK_GET", "block_get", data.val)
  BY DEF ResponseLatestBlockIdRead
<1> HIDE DEF i, k
<1>5. QED
  BY Zenon, <1>1, <1>2, <1>3, <1>4, DataReadFacts, SendReqInv, StateFacts

\* The latest block is there; the queue is read.
LEMMA ResponseBlockReadInv ==
    ASSUME IndInv, ResponseBlockRead PROVE IndInv'
<1>1. DataRead("block_get")
  BY DEF ResponseBlockRead
<1>2. svc.state = "BLOCK_GET" /\ contexts = 1
  BY Zenon, <1>1, DataReadFacts, StateOfMethod DEF IndInv, CountedByState
<1> DEFINE i == [svc EXCEPT !.block_height = data.val + 1]
<1>3. DOMAIN i = Fields /\ i.up = TRUE
  BY Zenon, <1>1, DataReadFacts DEF Fields
<1>4. \/ SendReq(i, "PQ_TXN_FIRST_GET", "transaction_get_first", ZeroUuid)
      \/ ExitEventLoop
  BY DEF ResponseBlockRead
<1> HIDE DEF i
<1>5. QED
  BY Zenon, <1>1, <1>2, <1>3, <1>4, DataReadFacts, SendReqInv, ExitInv, StateFacts

\* A transaction of the queue, or its end, has arrived.
LEMMA ResponseTransactionInv ==
    ASSUME IndInv, ResponseTransactionFirstRead \/ ResponseTransactionRead
    PROVE  IndInv'
<1>1. PICK method \in {"transaction_get_first", "transaction_get"} : DataRead(method)
  BY DEF ResponseTransactionFirstRead, ResponseTransactionRead
<1>2. svc.state = "PQ_TXN_FIRST_GET" /\ contexts = 1
  BY Zenon, <1>1, DataReadFacts, StateOfMethod DEF IndInv, CountedByState
<1>3. CompleteUpdate(svc) \/ BlockMake(svc) \/ AddTransaction(data.val)
  BY DEF ResponseTransactionFirstRead, ResponseTransactionRead
<1>4. CASE CompleteUpdate(svc)
  BY Zenon, <1>1, <1>2, <1>4, DataReadFacts, CompleteUpdateInv
<1>5. CASE BlockMake(svc)
  BY Zenon, <1>1, <1>2, <1>5, DataReadFacts, BlockMakeInv
<1>6. CASE AddTransaction(data.val)
  BY Zenon, <1>1, <1>2, <1>6, DataReadFacts, AddTransactionInv
<1>7. QED
  BY <1>3, <1>4, <1>5, <1>6

\* The block was made or refused; it is announced.
LEMMA ResponseBlockWriteInv ==
    ASSUME IndInv, ResponseBlockWrite PROVE IndInv'
<1>1. DataRead("block_make") /\ NotifyBlockUpdate(svc)
  BY DEF ResponseBlockWrite
<1>2. svc.state = "BLOCK_MAKE" /\ contexts = 1
  BY Zenon, <1>1, DataReadFacts, StateOfMethod DEF IndInv, CountedByState
<1>3. QED
  BY Zenon, <1>1, <1>2, DataReadFacts, NotifyInv

\* The announcement was answered; the round ends.  (canonizationservice_notify_read)
LEMMA NotifyReadInv == ASSUME IndInv, NotifyRead PROVE IndInv'
<1>1. /\ svc.up = TRUE /\ notify.phase = "response" /\ UNCHANGED <<making, contexts>>
      /\ "phase" \in DOMAIN notify' /\ notify'.phase = "quiet"
  BY DEF IndInv, Shape, NotifyRead, Quiet
<1>2. svc.state = "NOTIFY_BLOCK_UPDATE" /\ contexts = 1 /\ data.phase = "quiet" /\ ~making.open
  BY <1>1, StateFacts DEF IndInv, Shape, InFlightMatchesState, CountedByState, Serving
<1>3. /\ DOMAIN svc' = Fields /\ svc'.up = TRUE /\ svc'.state = "CHILD_CONTEXT_CLOSE"
      /\ {"phase", "method"} \subseteq DOMAIN data' /\ data'.phase = "request"
      /\ data'.method = "child_context_close"
  BY <1>1, <1>2 DEF IndInv, Shape, Fields, NotifyRead, Request
<1>4. QED
  BY Zenon, <1>1, <1>2, <1>3, StateFacts
  DEF IndInv, Shape, Serving, InFlightMatchesState, Counted, CountedByState

\* The context is closed; the service is idle.
LEMMA ResponseChildContextCloseInv ==
    ASSUME IndInv, ResponseChildContextClose PROVE IndInv'
<1>1. DataRead("child_context_close")
  BY DEF ResponseChildContextClose
<1>2. svc.state = "CHILD_CONTEXT_CLOSE" /\ contexts = 0
  BY Zenon, <1>1, DataReadFacts, StateOfMethod DEF IndInv, CountedByState
<1> DEFINE i == [svc EXCEPT !.state = "IDLE", !.block_id = ZeroUuid, !.transaction_list = <<>>]
<1>3. DOMAIN i = Fields /\ i.up = TRUE /\ i.state = "IDLE"
  BY Zenon, <1>1, DataReadFacts DEF Fields
<1>4. DOMAIN Awake(i) = Fields /\ Awake(i).up = TRUE /\ Awake(i).state = "GET_RANDOM_BYTES"
  BY <1>3 DEF Awake, Fields
<1>5. svc' \in {i, Awake(i)}
  BY DEF ResponseChildContextClose
<1> HIDE DEF i
<1>6. DOMAIN svc' = Fields /\ svc'.up = TRUE /\ svc'.state \in {"IDLE", "GET_RANDOM_BYTES"}
  BY <1>3, <1>4, <1>5
<1>7. /\ {"phase", "method"} \subseteq DOMAIN data' /\ data'.phase = "quiet"
      /\ notify' = notify
  BY DEF ResponseChildContextClose, Quiet
<1>8. QED
  BY ZenonT(40), <1>1, <1>2, <1>6, <1>7, DataReadFacts, StateFacts
  DEF IndInv, Shape, Serving, InFlightMatchesState, Counted, CountedByState
-----------------------------------------------------------------------------
(* The services and everybody else. *)

\* The open contexts once the request in flight is answered.
ContextsAfterAnswer ==
    IF data.phase = "request" /\ data.method = "child_context_create" THEN 1
    ELSE IF data.phase = "request" /\ data.method = "child_context_close" THEN 0
    ELSE contexts

\* The request in flight is answered; the state of the instance stays.
LEMMA AnsweredInv ==
    ASSUME IndInv, NEW status, NEW val,
           data.phase \in {"request", "second_read", "making"},
           data' = Response(status, val), "open" \in DOMAIN making', ~making'.open,
           UNCHANGED <<svc, notify>>,
           contexts' = ContextsAfterAnswer
    PROVE  IndInv'
<1>1. /\ {"phase", "method"} \subseteq DOMAIN data' /\ data'.phase = "response"
      /\ data'.method = data.method
  BY DEF Response
<1>2. Shape' /\ Serving' /\ InFlightMatchesState' /\ Counted'
  BY <1>1 DEF IndInv, Shape, Serving, InFlightMatchesState, Counted, ContextsAfterAnswer
<1>3. CountedByState'
  <2> SUFFICES ASSUME svc.up = TRUE PROVE CountedByState'
    BY DEF IndInv, Shape, CountedByState
  <2>1. svc.state \in DOMAIN DataStates /\ data.method \in DataStates[svc.state]
    BY DEF IndInv, Shape, InFlightMatchesState
  <2>2. CASE svc.state = "CHILD_CONTEXT_CREATE"
    <3>1. data.method = "child_context_create"
      BY <2>1, <2>2, StateFacts
    <3>2. data.phase = "request"
      BY <3>1 DEF IndInv, Serving
    <3>3. QED
      BY <2>2, <3>1, <3>2, <1>1 DEF CountedByState, ContextsAfterAnswer
  <2>3. CASE svc.state = "CHILD_CONTEXT_CLOSE"
    <3>1. data.method = "child_context_close"
      BY <2>1, <2>3, StateFacts
    <3>2. data.phase = "request"
      BY <3>1 DEF IndInv, Serving
    <3>3. QED
      BY <2>3, <3>1, <3>2, <1>1 DEF CountedByState, ContextsAfterAnswer
  <2>4. CASE svc.state \notin {"CHILD_CONTEXT_CREATE", "CHILD_CONTEXT_CLOSE"}
    <3>1. data.method # "child_context_create" /\ data.method # "child_context_close"
      BY <2>1, <2>4, StateOfMethod
    <3>2. QED
      BY <2>1, <2>4, <3>1, StateFacts DEF IndInv, CountedByState, ContextsAfterAnswer
  <2>5. QED
    BY <2>2, <2>3, <2>4
<1>4. QED
  BY <1>2, <1>3 DEF IndInv

\* An answer from the database alone, by a data service that makes no block.
LEMMA AnswersInv ==
    ASSUME IndInv, data.phase \in {"request", "second_read"},
           \E status, val : Answers(status, val),
           contexts' = ContextsAfterAnswer
    PROVE  IndInv'
<1>1. PICK status, val : data' = Response(status, val) /\ UNCHANGED <<svc, notify, making>>
  BY DEF Answers
<1>2. "open" \in DOMAIN making' /\ ~making'.open
  BY <1>1 DEF IndInv, Shape, Serving
<1>3. data' = Response(status, val) /\ UNCHANGED <<svc, notify>>
  BY <1>1
<1>4. QED
  BY <1>2, <1>3, AnsweredInv

\* The data service opens and closes the context.
LEMMA ServeContextsInv == ASSUME IndInv, ServeContexts PROVE IndInv'
<1>1. CASE Asked("child_context_create") /\ contexts' = contexts + 1 /\ Answers("SUCCESS", ZeroUuid)
  <2>1. data.phase = "request" /\ data.method = "child_context_create" /\ contexts' = 1
    BY <1>1 DEF Asked, IndInv, Counted
  <2>2. QED
    BY <1>1, <2>1, AnswersInv DEF ContextsAfterAnswer
<1>2. CASE Asked("child_context_close") /\ contexts' = contexts - 1 /\ Answers("SUCCESS", ZeroUuid)
  <2>1. data.phase = "request" /\ data.method = "child_context_close" /\ contexts' = 0
    BY <1>2 DEF Asked, IndInv, Counted
  <2>2. QED
    BY Zenon, <1>2, <2>1, AnswersInv DEF ContextsAfterAnswer
<1>3. QED
  BY <1>1, <1>2 DEF ServeContexts

\* The data service answers a read in one step.
LEMMA ServeReadsInv ==
    ASSUME IndInv,
           ServeLatestBlockId \/ ServeBlockGet \/ ServeFirstRead \/ ServeTransactionGet
    PROVE  IndInv'
<1>1. \E status, val : Answers(status, val)
  BY DEF ServeLatestBlockId, ServeBlockGet, ServeFirstRead, ServeTransactionGet, AnswerNode
<1>2. /\ contexts' = contexts /\ data.phase \in {"request", "second_read"}
      /\ data.phase = "request" =>
           data.method \in {"latest_block_id_get", "block_get", "transaction_get"}
  BY DEF ServeLatestBlockId, ServeBlockGet, ServeFirstRead, ServeTransactionGet, Asked
<1>3. contexts' = ContextsAfterAnswer
  BY <1>2 DEF ContextsAfterAnswer
<1>4. QED
  BY <1>1, <1>2, <1>3, AnswersInv

\* The first of the two reads of transaction_get_first.
LEMMA ServeFirstLookupInv == ASSUME IndInv, ServeFirstLookup PROVE IndInv'
<1>1. data.phase = "request" /\ data.method = "transaction_get_first" /\ contexts' = contexts
  BY DEF ServeFirstLookup, Asked
<1>2. CASE Answers("NOT_FOUND", ZeroUuid)
  BY <1>1, <1>2, AnswersInv DEF ContextsAfterAnswer
<1>3. CASE /\ data' = [data EXCEPT !.phase = "second_read", !.arg = db.pq[ZeroUuid].next]
           /\ UNCHANGED <<making, svc, notify>>
  <2>1. /\ {"phase", "method"} \subseteq DOMAIN data' /\ data'.phase = "second_read"
        /\ data'.method = "transaction_get_first"
    BY <1>1, <1>3 DEF IndInv, Shape
  <2>2. ~making.open
    BY <1>1 DEF IndInv, Serving
  <2>3. QED
    BY <1>1, <1>3, <2>1, <2>2, StateFacts
    DEF IndInv, Shape, Serving, InFlightMatchesState, Counted, CountedByState
<1>4. QED
  BY <1>2, <1>3 DEF ServeFirstLookup

\* block_make is refused at once or begins.
LEMMA ServeBlockMakeBeginInv == ASSUME IndInv, ServeBlockMakeBegin PROVE IndInv'
<1>1. /\ data.phase = "request" /\ data.method = "block_make"
      /\ UNCHANGED <<svc, notify, contexts>>
  BY DEF ServeBlockMakeBegin, Asked
<1>2. CASE DS!BlockBegin(data.arg) /\ data' = [data EXCEPT !.phase = "making"]
  <2>1. /\ {"phase", "method"} \subseteq DOMAIN data' /\ data'.phase = "making"
        /\ data'.method = "block_make"
    BY <1>1, <1>2 DEF IndInv, Shape
  <2>2. "open" \in DOMAIN making'
    BY <1>2 DEF DS!BlockBegin
  <2>3. QED
    BY <1>1, <2>1, <2>2, StateFacts
    DEF IndInv, Shape, Serving, InFlightMatchesState, Counted, CountedByState
<1>3. CASE DS!BlockReject(data.arg) /\ data' = Response(reply'.status, ZeroUuid)
  <2>1. "open" \in DOMAIN making' /\ ~making'.open
    BY <1>3 DEF IndInv, Shape, DS!BlockReject
  <2>2. QED
    BY <1>1, <1>3, <2>1, AnsweredInv DEF ContextsAfterAnswer
<1>4. QED
  BY <1>2, <1>3 DEF ServeBlockMakeBegin

\* A block that is being made goes on, or ends in one way or the other.
LEMMA BlockEnds ==
    ASSUME IndInv, DS!BlockChildFails \/ DS!BlockCommit \/ DS!BlockFault
    PROVE  /\ data.phase = "making" /\ data.method = "block_make"
           /\ "open" \in DOMAIN making' /\ ~making'.open
<1>1. making.open /\ making' = DS!NotMaking
  BY DEF DS!BlockChildFails, DS!BlockCommit, DS!BlockFault, DS!BlockAbort
<1>2. QED
  BY <1>1 DEF IndInv, Serving, DS!NotMaking

\* block_make goes on, is committed or is aborted.
LEMMA ServeBlockMakeInv == ASSUME IndInv, ServeBlockMake PROVE IndInv'
<1>1. UNCHANGED <<svc, notify, contexts>>
  BY DEF ServeBlockMake
<1>2. CASE DS!BlockChild /\ UNCHANGED data
  <2>1. "open" \in DOMAIN making' /\ making'.open = making.open
    BY Zenon, <1>2 DEF IndInv, Shape, DS!BlockChild
  <2>2. QED
    BY <1>1, <1>2, <2>1
    DEF IndInv, Shape, Serving, InFlightMatchesState, Counted, CountedByState
<1>3. CASE (DS!BlockChildFails \/ DS!BlockCommit) /\ data' = Response(reply'.status, ZeroUuid)
  <2>1. /\ data.phase = "making" /\ data.method = "block_make"
        /\ "open" \in DOMAIN making' /\ ~making'.open
    BY <1>3, BlockEnds
  <2>2. data' = Response(reply'.status, ZeroUuid) /\ UNCHANGED <<svc, notify>> /\ contexts' = contexts
    BY <1>1, <1>3
  <2>3. QED
    BY <2>1, <2>2, AnsweredInv DEF ContextsAfterAnswer
<1>4. QED
  BY <1>2, <1>3 DEF ServeBlockMake

\* The notification service answers.
LEMMA ServeNotifyInv == ASSUME IndInv, ServeNotify PROVE IndInv'
<1>1. /\ notify.phase = "request" /\ "phase" \in DOMAIN notify' /\ notify'.phase = "response"
      /\ UNCHANGED <<making, svc, data, contexts>>
  BY DEF IndInv, Shape, ServeNotify
<1>2. QED
  BY <1>1 DEF IndInv, Shape, Serving, InFlightMatchesState, Counted, CountedByState

\* Clients and the attestation service only write the queue.
LEMMA QueueWritersInv ==
    ASSUME IndInv, (\E r \in Requests : ClientSubmit(r)) \/ (\E t \in TxnId : Attest(t))
    PROVE  IndInv'
<1>1. UNCHANGED <<making, svc, data, notify, contexts>>
  BY Zenon DEF ClientSubmit, Attest, DS!Submit, DS!Promote, DS!Drop, DS!EndPqWrite
<1>2. QED
  BY <1>1 DEF IndInv, Shape, Serving, InFlightMatchesState, Counted, CountedByState

\* A crash takes the service down; a request in flight may still be served.
LEMMA FaultsInv ==
    ASSUME IndInv, Crash \/ DataServiceCrash \/ StorageFault PROVE IndInv'
<1>1. CASE Crash
  <2>1. ExitEventLoop /\ UNCHANGED <<making, contexts>>
    BY <1>1 DEF Crash, ExitEventLoop
  <2>2. QED
    BY <2>1, ExitInv
<1>2. CASE DataServiceCrash
  <2>1. "open" \in DOMAIN making' /\ ~making'.open
    BY <1>2, BlockEnds DEF DataServiceCrash
  <2>2. /\ DOMAIN svc' = Fields /\ svc'.up = FALSE /\ svc'.state = svc.state
        /\ {"phase", "method"} \subseteq DOMAIN data' /\ data'.phase = "quiet"
        /\ UNCHANGED <<notify, contexts>>
    BY <1>2 DEF IndInv, Shape, Fields, DataServiceCrash, Quiet
  <2>3. QED
    BY Zenon, <2>1, <2>2
    DEF IndInv, Shape, Serving, InFlightMatchesState, Counted, CountedByState
<1>3. CASE StorageFault
  <2>1. /\ data.phase = "making" /\ data.method = "block_make"
        /\ "open" \in DOMAIN making' /\ ~making'.open
    BY <1>3, BlockEnds DEF StorageFault
  <2>2. data' = Response(reply'.status, ZeroUuid) /\ UNCHANGED <<svc, notify>> /\ contexts' = contexts
    BY <1>3 DEF StorageFault
  <2>3. QED
    BY <2>1, <2>2, AnsweredInv DEF ContextsAfterAnswer
<1>4. QED
  BY <1>1, <1>2, <1>3

\* A restart begins with quiet sockets and no context.
LEMMA RestartInv == ASSUME IndInv, Restart PROVE IndInv'
<1>1. /\ ~making.open /\ making' = making /\ svc' = StartedInstance
      /\ data' = Quiet /\ notify' = Quiet /\ contexts' = 0
  BY DEF Restart
<1>2. QED
  BY <1>1, StateFacts
  DEF IndInv, Shape, Fields, StartedInstance, Quiet, Serving, InFlightMatchesState, Counted,
      CountedByState
-----------------------------------------------------------------------------
\* Every step preserves the invariant.
LEMMA StepInv == IndInv /\ [Next]_vars => IndInv'
<1> SUFFICES ASSUME IndInv, [Next]_vars PROVE IndInv'
  OBVIOUS
<1>1. CASE Callbacks
  BY <1>1, TimerInv, RandomReadInv, ResponseChildContextCreateInv,
     ResponseLatestBlockIdReadInv, ResponseBlockReadInv, ResponseTransactionInv,
     ResponseBlockWriteInv, NotifyReadInv, ResponseChildContextCloseInv DEF Callbacks
<1>2. CASE Services
  BY <1>2, ServeContextsInv, ServeReadsInv, ServeFirstLookupInv, ServeBlockMakeBeginInv,
     ServeBlockMakeInv, ServeNotifyInv DEF Services
<1>3. CASE (\E r \in Requests : ClientSubmit(r)) \/ (\E t \in TxnId : Attest(t))
  BY <1>3, QueueWritersInv
<1>4. CASE Crash \/ DataServiceCrash \/ StorageFault
  BY <1>4, FaultsInv
<1>5. CASE Restart
  BY <1>5, RestartInv
<1>6. CASE UNCHANGED vars
  BY <1>6
  DEF vars, IndInv, Shape, Serving, InFlightMatchesState, Counted, CountedByState
<1>7. QED
  BY <1>1, <1>2, <1>3, <1>4, <1>5, <1>6 DEF Next

\* The instance, its sockets and its data service agree in every reachable state.
THEOREM Invariant == Spec => []IndInv
  BY InitInv, StepInv, PTL DEF Spec

\* Every response finds the instance in the state that waits for it, although
\* data_read looks at the method only.
THEOREM InFlightCorrect == Spec => []InFlightMatchesState
<1>1. IndInv => InFlightMatchesState
  BY DEF IndInv
<1>2. QED
  BY <1>1, Invariant, PTL

\* A round returns the child context that it took.
THEOREM ContextsCorrect == Spec => []NoContextLeak
<1>1. IndInv => NoContextLeak
  BY DEF IndInv, Counted, CountedByState, NoContextLeak
<1>2. QED
  BY <1>1, Invariant, PTL
-----------------------------------------------------------------------------
(* The block that is presented to block_make. *)

Tables == {"pq", "block", "height", "txn", "artifact"}

\* The latest block id and the next height, as the block table B tells them.
Tip(B) == IF FFUuid \in DOMAIN B THEN B[FFUuid].prev ELSE RootBlock

NextHeight(B) == IF FFUuid \in DOMAIN B THEN 1 + B[FFUuid].height ELSE 1

\* The end node of the block table B names the last block and its height, and no
\* block is entered in the height table H above it.
ChainOk(B, H) ==
    IF FFUuid \in DOMAIN B
    THEN /\ {"prev", "height"} \subseteq DOMAIN B[FFUuid]
         /\ B[FFUuid].height \in Nat
         /\ B[FFUuid].prev \in DOMAIN B \ {ZeroUuid, FFUuid, RootBlock}
         /\ B[B[FFUuid].prev].height = B[FFUuid].height
         /\ DOMAIN H \subseteq 1 .. B[FFUuid].height
    ELSE DOMAIN H = {}

\* The committed database and the copy of the block being made are such tables.
ChainInv ==
    /\ DOMAIN db = Tables /\ DOMAIN work = Tables
    /\ ChainOk(db.block, db.height) /\ ChainOk(work.block, work.height)

\* What an instance in state s with these fields and this data socket knows of B.
KnowsChain(s, id, prev, height, x, B) ==
    /\ s \in {"CHILD_CONTEXT_CREATE", "LATEST_BLOCK_ID_GET", "BLOCK_GET", "PQ_TXN_FIRST_GET"}
          => id \in BlockId \ DOMAIN B
    /\ s = "LATEST_BLOCK_ID_GET" /\ x.phase = "response" => x.val = Tip(B)
    /\ s = "BLOCK_GET" => /\ FFUuid \in DOMAIN B /\ prev = Tip(B)
                          /\ x.phase = "request" => x.arg = prev
                          /\ x.phase = "response" => x.val = B[FFUuid].height
    /\ s = "PQ_TXN_FIRST_GET" => prev = Tip(B) /\ height = NextHeight(B)

Round ==
    svc.up => KnowsChain(svc.state, svc.block_id, svc.previous_block_id, svc.block_height,
                         data, db.block)

\* The block b is the successor of the last block of these tables.
Fits(b, B, H) ==
    /\ b.height = NextHeight(B) /\ b.prev = Tip(B)
    /\ b.id = b.uuid /\ b.id \notin {RootBlock, ZeroUuid, FFUuid}
    /\ b.id \notin DOMAIN B /\ b.height \notin DOMAIN H

Presented ==
    data.phase = "request" /\ data.method = "block_make" => Fits(data.arg, db.block, db.height)

FitInv == ChainInv /\ Round /\ Presented

\* The next height is not taken.
LEMMA HeightFree ==
    ASSUME NEW B, NEW H, ChainOk(B, H)
    PROVE  NextHeight(B) \in Nat /\ NextHeight(B) \notin DOMAIN H
  BY DEF ChainOk, NextHeight

\* A block that fits is linked behind the last one.  (block_make)
LEMMA LinkOk ==
    ASSUME ChainInv, NEW b, DS!BeginStatus(db, b) = "SUCCESS"
    PROVE  LET d == DS!LinkBlock(db, b)
           IN  DOMAIN d = Tables /\ ChainOk(d.block, d.height)
<1>1. PICK B, H : B = db.block /\ H = db.height
  OBVIOUS
<1>2. ChainOk(B, H) /\ Fits(b, B, H)
  <2>1. /\ DS!ConstraintMatchingHeight(db, b) /\ DS!ConstraintMatchingPrevUuid(db, b)
        /\ DS!ConstraintSaneBlockUuid(b) /\ DS!CanInsertBlock(db, b)
    BY DEF DS!BeginStatus
  <2>2. b.height = NextHeight(B) /\ b.prev = Tip(B)
    BY <1>1, <2>1 DEF DS!ConstraintMatchingHeight, DS!ConstraintMatchingPrevUuid,
       DS!ExpectedHeight, DS!HasChain, NextHeight, Tip
  <2>3. /\ b.id = b.uuid /\ b.id \notin {RootBlock, ZeroUuid, FFUuid}
        /\ b.id \notin DOMAIN B /\ b.height \notin DOMAIN H
    BY <1>1, <2>1 DEF DS!ConstraintSaneBlockUuid, DS!CanInsertBlock
  <2> QED BY <1>1, <2>2, <2>3 DEF Fits, ChainInv
<1> DEFINE C == DS!Put(B, b.id, DS!BlockNode(b))
           G == DS!Put(H, b.height, b.id)
           L == IF FFUuid \notin DOMAIN B THEN DS!BlockCreateQueue(C, b.id, b.height)
                ELSE DS!BlockUpdateEnd(DS!BlockUpdatePrev(C, b.id, B[FFUuid].prev),
                                       b.id, b.height, B[FFUuid])
<1>3. LET d == DS!LinkBlock(db, b) IN DOMAIN d = Tables /\ d.block = L /\ d.height = G
  BY <1>1 DEF DS!LinkBlock, DS!InsertBlock, DS!HasChain, ChainInv, Tables
<1>4. PICK n, h, id : n = DS!BlockNode(b) /\ h = b.height /\ id = b.id
  OBVIOUS
<1>5. n.height = h
  BY <1>4 DEF DS!BlockNode
<1>6. /\ DOMAIN C = DOMAIN B \cup {id} /\ C[id] = n /\ \A x \in DOMAIN B \ {id} : C[x] = B[x]
      /\ DOMAIN G = DOMAIN H \cup {h}
  BY <1>4 DEF DS!Put
<1>7. /\ id \notin {RootBlock, ZeroUuid, FFUuid} /\ id \notin DOMAIN B /\ h = NextHeight(B)
      /\ h \in Nat
  BY <1>2, <1>4, HeightFree DEF Fits
<1>8. /\ FFUuid \in DOMAIN L /\ {"prev", "height"} \subseteq DOMAIN L[FFUuid]
      /\ L[FFUuid].prev = id /\ L[FFUuid].height = h /\ id \in DOMAIN L /\ L[id].height = h
  <2> HIDE DEF C, G
  <2>1. CASE FFUuid \notin DOMAIN B
    <3> DEFINE S == DS!BlockSentinel(ZeroUuid, id, 0)
               E == DS!BlockSentinel(id, FFUuid, h)
    <3>1. {"prev", "height"} \subseteq DOMAIN E /\ E.prev = id /\ E.height = h
      BY DEF DS!BlockSentinel
    <3>2. L = DS!Put(DS!Put(C, ZeroUuid, S), FFUuid, E)
      BY <1>4, <2>1 DEF DS!BlockCreateQueue
    <3> HIDE DEF S, E
    <3>3. L[FFUuid] = E /\ FFUuid \in DOMAIN L /\ id \in DOMAIN L /\ L[id] = C[id]
      BY Zenon, <1>6, <1>7, <3>2 DEF DS!Put
    <3> QED BY Zenon, <1>5, <1>6, <3>1, <3>3
  <2>2. CASE FFUuid \in DOMAIN B
    <3> DEFINE E == [B[FFUuid] EXCEPT !.prev = id, !.height = h]
               z == B[FFUuid].prev
               N == [C[z] EXCEPT !.next = id]
    <3>1. {"prev", "height"} \subseteq DOMAIN E /\ E.prev = id /\ E.height = h /\ z # id
      BY <1>2, <1>7, <2>2 DEF ChainOk
    <3>2. L = DS!Put(DS!Put(C, z, N), FFUuid, E)
      BY <1>4, <2>2 DEF DS!BlockUpdateEnd, DS!BlockUpdatePrev
    <3> HIDE DEF N, E, z
    <3>3. L[FFUuid] = E /\ FFUuid \in DOMAIN L /\ id \in DOMAIN L /\ L[id] = C[id]
      BY ZenonT(40), <1>6, <1>7, <3>1, <3>2 DEF DS!Put
    <3> QED BY Zenon, <1>5, <1>6, <3>1, <3>3
  <2> QED BY ZenonT(40), <2>1, <2>2
<1>9. DOMAIN G \subseteq 1 .. h
  BY <1>2, <1>6, <1>7 DEF ChainOk, NextHeight
<1> HIDE DEF L, G
<1>10. ChainOk(L, G)
  BY <1>7, <1>8, <1>9 DEF ChainOk
<1> QED BY <1>3, <1>10

\* The tables of the chain stay as they are.
SameChain ==
    /\ DOMAIN db' = Tables /\ db'.block = db.block /\ db'.height = db.height

\* The small writers write the process queue only.  (transaction_submit, _drop, _promote)
LEMMA QueueWriteChain ==
    ASSUME ChainInv, NEW op, NEW id, NEW status, NEW q, DS!EndPqWrite(op, id, status, q)
    PROVE  ChainInv' /\ SameChain
<1>1. (db' = db \/ db' = [db EXCEPT !.pq = q]) /\ work' = db'
  BY DEF DS!EndPqWrite, DS!CommitOutcomes
<1>2. SameChain
  BY <1>1 DEF ChainInv, SameChain, Tables
<1> QED BY <1>1, <1>2 DEF ChainInv, SameChain

\* The children of a block leave the tables of the chain alone.
LEMMA ChildChain ==
    ASSUME ChainInv, DS!BlockChild
    PROVE  ChainInv' /\ SameChain
<1>1. db' = db /\ \E b, c : work' = DS!ProcessChild(work, b, c)
  BY DEF DS!BlockChild
<1>2. PICK b, c : work' = DS!ProcessChild(work, b, c)
  BY <1>1
<1>3. DOMAIN work' = Tables /\ work'.block = work.block /\ work'.height = work.height
  BY <1>2 DEF ChainInv, Tables, DS!ProcessChild
<1> QED BY <1>1, <1>3 DEF ChainInv, SameChain

\* A block that is given up leaves the database as it was.  (mdb_txn_abort)
LEMMA AbortChain ==
    ASSUME ChainInv, NEW status, DS!BlockAbort(status)
    PROVE  ChainInv' /\ SameChain
  BY DEF DS!BlockAbort, ChainInv, SameChain
-----------------------------------------------------------------------------
\* The instance and its socket stay as they are, and the chain does.
LEMMA QuietFit ==
    ASSUME FitInv, ChainInv', SameChain, data' = data, svc' = svc \/ (svc'.up = FALSE)
    PROVE  FitInv'
<1>1. Presented'
  BY DEF FitInv, Presented, SameChain
<1>2. Round'
  BY DEF FitInv, Round, SameChain
<1> QED BY <1>1, <1>2 DEF FitInv

\* The instance goes to state s in which it needs not know the chain, and no block is
\* presented.
LEMMA ForgetFit ==
    ASSUME FitInv, UNCHANGED <<db, work>>,
           ~(data'.phase = "request" /\ data'.method = "block_make"),
           svc'.up => svc'.state \in {"IDLE", "GET_RANDOM_BYTES", "NOTIFY_BLOCK_UPDATE",
                                      "BLOCK_MAKE", "CHILD_CONTEXT_CLOSE"}
    PROVE  FitInv'
<1>1. ChainInv'
  BY DEF FitInv, ChainInv
<1>2. Presented'
  BY DEF Presented
<1>3. Round'
  BY DEF Round, KnowsChain
<1> QED BY <1>1, <1>2, <1>3 DEF FitInv

\* The instance sends a request and knows what its new state needs.
LEMMA SendFit ==
    ASSUME FitInv, UNCHANGED <<db, work>>, NEW i, DOMAIN i = Fields, NEW s, NEW method, NEW arg,
           SendReq(i, s, method, arg),
           NEW id, id = i.block_id, NEW prev, prev = i.previous_block_id,
           NEW height, height = i.block_height,
           KnowsChain(s, id, prev, height, Request(method, arg), db.block),
           method = "block_make" => Fits(arg, db.block, db.height)
    PROVE  FitInv'
<1>1. /\ svc'.state = s /\ svc'.block_id = id /\ svc'.previous_block_id = prev
      /\ svc'.block_height = height /\ data' = Request(method, arg)
  BY DEF SendReq, Fields
<1>2. data'.method = method /\ data'.arg = arg
  BY <1>1 DEF Request
<1>3. ChainInv'
  BY DEF FitInv, ChainInv
<1>4. Presented'
  BY <1>2 DEF Presented
<1>5. Round'
  BY <1>1 DEF Round
<1> QED BY <1>3, <1>4, <1>5 DEF FitInv

\* A request that reads needs no block that fits.
LEMMA ReadFit ==
    ASSUME FitInv, UNCHANGED <<db, work>>, NEW i, DOMAIN i = Fields, NEW s, NEW method, NEW arg,
           method # "block_make", SendReq(i, s, method, arg), NEW B, B = db.block,
           \A r : KnowsChain(s, i.block_id, i.previous_block_id, i.block_height, r, B)
    PROVE  FitInv'
<1>1. PICK id, prev, height : id = i.block_id /\ prev = i.previous_block_id /\ height = i.block_height
  BY Zenon
<1>2. KnowsChain(s, id, prev, height, Request(method, arg), db.block)
  BY Zenon, <1>1
<1>3. method = "block_make" => Fits(arg, db.block, db.height)
  BY Zenon
<1> QED BY Zenon, <1>1, <1>2, <1>3, SendFit

\* What a running instance knows of the chain.
LEMMA RoundFacts ==
    ASSUME FitInv, svc.up
    PROVE  KnowsChain(svc.state, svc.block_id, svc.previous_block_id, svc.block_height,
                      data, db.block)
  BY DEF FitInv, Round

\* The round ends, with or without an announcement.
LEMMA CompleteFit ==
    ASSUME FitInv, UNCHANGED <<db, work>>, NEW i, DOMAIN i = Fields, CompleteUpdate(i)
    PROVE  FitInv'
<1>1. CASE i.first_time
  <2> DEFINE k == [i EXCEPT !.first_time = FALSE, !.block_id = i.previous_block_id]
  <2>1. NotifyBlockUpdate(k) /\ DOMAIN k = Fields
    BY <1>1 DEF CompleteUpdate
  <2> HIDE DEF k
  <2>2. data'.phase = "quiet" /\ svc'.state = "NOTIFY_BLOCK_UPDATE"
    BY <2>1 DEF NotifyBlockUpdate, Quiet, Fields
  <2> QED BY <2>2, ForgetFit
<1>2. CASE ~i.first_time
  <2>1. data'.method = "child_context_close" /\ svc'.state = "CHILD_CONTEXT_CLOSE"
    BY <1>2 DEF CompleteUpdate, ChildContextClose, SendReq, Request, Fields
  <2> QED BY <2>1, ForgetFit
<1> QED BY <1>1, <1>2

\* The block that is built fits.
LEMMA BlockMakeFit ==
    ASSUME FitInv, UNCHANGED <<db, work>>, NEW i, DOMAIN i = Fields, BlockMake(i),
           i.block_id \in BlockId \ DOMAIN db.block, i.previous_block_id = Tip(db.block),
           i.block_height = NextHeight(db.block)
    PROVE  FitInv'
<1>1. CASE i.transaction_list = <<>>
  BY <1>1, CompleteFit DEF BlockMake
<1>2. CASE i.transaction_list # <<>>
  <2>1. SendReq(i, "BLOCK_MAKE", "block_make", BuiltBlock(i))
    BY <1>2 DEF BlockMake
  <2>2. PICK b, B, H : b = BuiltBlock(i) /\ B = db.block /\ H = db.height
    OBVIOUS
  <2>3. /\ b.id = i.block_id /\ b.uuid = i.block_id /\ b.height = i.block_height
        /\ b.prev = i.previous_block_id
    BY <2>2 DEF BuiltBlock
  <2>4. i.block_id \notin {RootBlock, ZeroUuid, FFUuid}
    BY BlockIdAssumption
  <2>5. ChainOk(B, H)
    BY <2>2 DEF FitInv, ChainInv
  <2>6. Fits(b, B, H)
    BY <2>2, <2>3, <2>4, <2>5, HeightFree DEF Fits
  <2>7. \A x, y, z, r : KnowsChain("BLOCK_MAKE", x, y, z, r, B)
    BY DEF KnowsChain
  <2> QED BY <2>1, <2>2, <2>6, <2>7, SendFit
<1> QED BY <1>1, <1>2
-----------------------------------------------------------------------------
(* The callbacks, once more. *)

\* The timer, or a socket that is answered in a state that needs not know the chain.
LEMMA OtherCallbacksFit ==
    ASSUME IndInv, FitInv,
           TimerCb \/ ResponseBlockWrite \/ NotifyRead \/ ResponseChildContextClose
    PROVE  FitInv'
<1> USE DEF IndInv, Shape, Fields
<1>1. CASE TimerCb
  <2>1. /\ svc'.state = "GET_RANDOM_BYTES" /\ UNCHANGED <<db, work>> /\ data' = data
        /\ data.phase = "quiet"
    BY <1>1, StateFacts DEF TimerCb, Awake, InFlightMatchesState
  <2> QED BY <2>1, ForgetFit
<1>2. CASE ResponseBlockWrite
  <2>1. svc'.state = "NOTIFY_BLOCK_UPDATE" /\ UNCHANGED <<db, work>> /\ data'.phase = "quiet"
    BY <1>2 DEF ResponseBlockWrite, DataRead, NotifyBlockUpdate, Quiet
  <2> QED BY <2>1, ForgetFit
<1>3. CASE NotifyRead /\ svc.state = "NOTIFY_BLOCK_UPDATE"
  <2>1. /\ svc'.state = "CHILD_CONTEXT_CLOSE" /\ UNCHANGED <<db, work>>
        /\ data'.method = "child_context_close"
    BY <1>3 DEF NotifyRead, Request
  <2> QED BY <2>1, ForgetFit
<1>4. CASE NotifyRead /\ svc.state # "NOTIFY_BLOCK_UPDATE"
  BY <1>4 DEF NotifyRead, InFlightMatchesState
<1>5. CASE ResponseChildContextClose
  <2>1. /\ svc'.state \in {"IDLE", "GET_RANDOM_BYTES"} /\ UNCHANGED <<db, work>>
        /\ data'.phase = "quiet"
    BY <1>5 DEF ResponseChildContextClose, DataRead, Awake, Quiet
  <2> QED BY <2>1, ForgetFit
<1> QED BY <1>1, <1>2, <1>3, <1>4, <1>5

\* The random service gives an id that is not in the database.  (canonizationservice_random_read)
LEMMA RandomReadFit == ASSUME IndInv, FitInv, RandomRead PROVE FitInv'
<1>1. PICK b, B : b = FreshBlockId /\ B = db.block
  OBVIOUS
<1>2. FreshBlockId \in Unused
  <2>1. Unused # {}
    BY DEF RandomRead
  <2> QED BY <2>1, Zenon DEF FreshBlockId
<1>3. b \in BlockId \ DOMAIN B
  <2>1. b \in BlockId /\ b \notin DOMAIN db.block \ {ZeroUuid, FFUuid}
    BY <1>1, <1>2 DEF Unused, DS!Blocks
  <2> QED BY <1>1, <2>1, BlockIdAssumption
<1> DEFINE i == [svc EXCEPT !.block_id = b]
<1>4. /\ SendReq(i, "CHILD_CONTEXT_CREATE", "child_context_create", ZeroUuid)
      /\ UNCHANGED <<db, work>>
  BY <1>1 DEF RandomRead
<1>5. DOMAIN i = Fields /\ i.block_id = b
  BY DEF IndInv, Shape, Fields
<1>6. \A y, z, r : KnowsChain("CHILD_CONTEXT_CREATE", b, y, z, r, B)
  BY <1>3 DEF KnowsChain
<1> HIDE DEF i
<1> QED BY <1>1, <1>4, <1>5, <1>6, SendFit

\* The context is there: the id that was drawn is kept.
LEMMA ChildContextFit == ASSUME IndInv, FitInv, ResponseChildContextCreate PROVE FitInv'
<1>1. DataRead("child_context_create") /\ SendReq(svc, "LATEST_BLOCK_ID_GET", "latest_block_id_get", ZeroUuid)
  BY DEF ResponseChildContextCreate
<1>2. svc.state = "CHILD_CONTEXT_CREATE" /\ UNCHANGED <<db, work>> /\ svc.up /\ DOMAIN svc = Fields
  BY <1>1, DataReadFacts, StateOfMethod DEF DataRead
<1>3. PICK id, prev, height, B : /\ id = svc.block_id /\ prev = svc.previous_block_id
                                 /\ height = svc.block_height /\ B = db.block
  OBVIOUS
<1>4. id \in BlockId \ DOMAIN B
  BY <1>2, <1>3, RoundFacts DEF KnowsChain
<1>5. PICK r : r = Request("latest_block_id_get", ZeroUuid)
  OBVIOUS
<1>6. r.phase = "request"
  BY <1>5 DEF Request
<1>7. KnowsChain("LATEST_BLOCK_ID_GET", id, prev, height, r, B)
  BY <1>4, <1>6 DEF KnowsChain
<1> QED BY <1>1, <1>2, <1>3, <1>5, <1>7, SendFit

\* The latest block id is there: it is the one of the chain still, and the root block
\* means that there is none.  (canonizationservice_dataservice_response_latest_block_id_read)
LEMMA LatestFit == ASSUME IndInv, FitInv, ResponseLatestBlockIdRead PROVE FitInv'
<1>1. DataRead("latest_block_id_get")
  BY DEF ResponseLatestBlockIdRead
<1>2. /\ svc.state = "LATEST_BLOCK_ID_GET" /\ UNCHANGED <<db, work>> /\ svc.up
      /\ DOMAIN svc = Fields /\ data.phase = "response"
  BY <1>1, DataReadFacts, StateOfMethod DEF DataRead
<1>3. PICK id, v, height, B : /\ id = svc.block_id /\ v = data.val
                              /\ height = svc.block_height /\ B = db.block
  OBVIOUS
<1>4. id \in BlockId \ DOMAIN B /\ v = Tip(B)
  BY <1>2, <1>3, RoundFacts DEF KnowsChain
<1>5. v = RootBlock <=> FFUuid \notin DOMAIN B
  BY <1>3, <1>4 DEF FitInv, ChainInv, ChainOk, Tip
<1> DEFINE i == [svc EXCEPT !.previous_block_id = v]
           k == [i EXCEPT !.block_height = 1]
<1>6. /\ DOMAIN i = Fields /\ DOMAIN k = Fields /\ i.block_id = id /\ k.block_id = id
      /\ i.previous_block_id = v /\ k.previous_block_id = v /\ i.block_height = height
      /\ k.block_height = 1
  BY <1>2, <1>3 DEF Fields
<1>7. IF v = RootBlock THEN SendReq(k, "PQ_TXN_FIRST_GET", "transaction_get_first", ZeroUuid)
      ELSE SendReq(i, "BLOCK_GET", "block_get", v)
  BY <1>3 DEF ResponseLatestBlockIdRead
<1> HIDE DEF i, k
<1>8. CASE v = RootBlock
  <2>1. \A r : KnowsChain("PQ_TXN_FIRST_GET", id, v, 1, r, B)
    BY <1>4, <1>5, <1>8 DEF KnowsChain, NextHeight
  <2>2. \A r : KnowsChain("PQ_TXN_FIRST_GET", k.block_id, k.previous_block_id, k.block_height, r, B)
    BY Zenon, <1>6, <2>1
  <2>3. SendReq(k, "PQ_TXN_FIRST_GET", "transaction_get_first", ZeroUuid)
    BY Zenon, <1>7, <1>8
  <2> QED BY Zenon, <1>2, <1>3, <1>6, <2>2, <2>3, ReadFit
<1>9. CASE v # RootBlock
  <2>1. PICK r : r = Request("block_get", v)
    OBVIOUS
  <2>2. r.phase = "request" /\ r.arg = v
    BY <2>1 DEF Request
  <2>3. KnowsChain("BLOCK_GET", id, v, height, r, B)
    BY <1>4, <1>5, <1>9, <2>2 DEF KnowsChain
  <2> QED BY <1>2, <1>3, <1>6, <1>7, <1>9, <2>1, <2>3, SendFit
<1> QED BY <1>8, <1>9

\* The event loop ends: the request in flight, if any, stays.
LEMMA ExitFit == ASSUME FitInv, ExitEventLoop, UNCHANGED <<db, work>>, DOMAIN svc = Fields PROVE FitInv'
<1>1. ChainInv' /\ SameChain /\ data' = data
  BY DEF FitInv, ChainInv, SameChain, ExitEventLoop
<1>2. svc'.up = FALSE
  BY DEF ExitEventLoop, Fields
<1> QED BY Zenon, <1>1, <1>2, QuietFit

\* The last block is there: the height of the next one is the one that fits.
LEMMA BlockReadFit == ASSUME IndInv, FitInv, ResponseBlockRead PROVE FitInv'
<1>1. DataRead("block_get")
  BY DEF ResponseBlockRead
<1>2. /\ svc.state = "BLOCK_GET" /\ UNCHANGED <<db, work>> /\ svc.up
      /\ DOMAIN svc = Fields /\ data.phase = "response"
  BY <1>1, DataReadFacts, StateOfMethod DEF DataRead
<1>3. PICK id, v, prev, B : /\ id = svc.block_id /\ v = data.val
                            /\ prev = svc.previous_block_id /\ B = db.block
  OBVIOUS
<1>4. id \in BlockId \ DOMAIN B /\ FFUuid \in DOMAIN B /\ prev = Tip(B) /\ v = B[FFUuid].height
  BY <1>2, <1>3, RoundFacts DEF KnowsChain
<1>5. v + 1 = NextHeight(B)
  <2>1. ChainOk(B, db.height)
    BY Zenon, <1>3 DEF FitInv, ChainInv
  <2> QED BY <1>4, <2>1 DEF ChainOk, NextHeight
<1> DEFINE i == [svc EXCEPT !.block_height = v + 1]
<1>6. /\ DOMAIN i = Fields /\ i.block_id = id /\ i.previous_block_id = prev
      /\ i.block_height = v + 1
  BY <1>2, <1>3 DEF Fields
<1>7. SendReq(i, "PQ_TXN_FIRST_GET", "transaction_get_first", ZeroUuid) \/ ExitEventLoop
  BY <1>3 DEF ResponseBlockRead
<1>8. \A r : KnowsChain("PQ_TXN_FIRST_GET", id, prev, v + 1, r, B)
  BY <1>4, <1>5 DEF KnowsChain
<1> HIDE DEF i
<1>9. \A r : KnowsChain("PQ_TXN_FIRST_GET", i.block_id, i.previous_block_id, i.block_height, r, B)
  BY Zenon, <1>6, <1>8
<1>10. CASE SendReq(i, "PQ_TXN_FIRST_GET", "transaction_get_first", ZeroUuid)
  BY Zenon, <1>2, <1>3, <1>6, <1>9, <1>10, ReadFit
<1>11. CASE ExitEventLoop
  BY Zenon, <1>2, <1>11, ExitFit
<1> QED BY Zenon, <1>7, <1>10, <1>11

\* A transaction was read: the rest of the round keeps what was read of the chain.
LEMMA TransactionFit ==
    ASSUME IndInv, FitInv, ResponseTransactionFirstRead \/ ResponseTransactionRead
    PROVE  FitInv'
<1>1. PICK method \in {"transaction_get_first", "transaction_get"} : DataRead(method)
  BY DEF ResponseTransactionFirstRead, ResponseTransactionRead
<1>2. svc.state = "PQ_TXN_FIRST_GET" /\ UNCHANGED <<db, work>> /\ svc.up /\ DOMAIN svc = Fields
  BY <1>1, DataReadFacts, StateOfMethod DEF DataRead
<1>3. /\ svc.block_id \in BlockId \ DOMAIN db.block /\ svc.previous_block_id = Tip(db.block)
      /\ svc.block_height = NextHeight(db.block)
  BY <1>2, RoundFacts DEF KnowsChain
<1>4. CompleteUpdate(svc) \/ BlockMake(svc) \/ AddTransaction(data.val)
  BY DEF ResponseTransactionFirstRead, ResponseTransactionRead
<1>5. CASE CompleteUpdate(svc)
  BY <1>2, <1>5, CompleteFit
<1>6. CASE BlockMake(svc)
  BY <1>2, <1>3, <1>6, BlockMakeFit
<1>7. CASE AddTransaction(data.val)
  <2> DEFINE i == [svc EXCEPT !.transaction_list = Append(@, data.val.cert)]
  <2>1. BlockMake(i) \/ SendReq(i, i.state, "transaction_get", data.val.next)
    BY <1>7 DEF AddTransaction
  <2>2. /\ DOMAIN i = Fields /\ i.block_id = svc.block_id /\ i.block_height = svc.block_height
        /\ i.previous_block_id = svc.previous_block_id /\ i.state = "PQ_TXN_FIRST_GET"
    BY <1>2 DEF Fields
  <2> HIDE DEF i
  <2>3. CASE BlockMake(i)
    BY <1>2, <1>3, <2>2, <2>3, BlockMakeFit
  <2>4. CASE SendReq(i, i.state, "transaction_get", data.val.next)
    <3>1. PICK id, prev, height, B, n :
             /\ id = svc.block_id /\ prev = svc.previous_block_id
             /\ height = svc.block_height /\ B = db.block /\ n = data.val.next
      OBVIOUS
    <3>2. \A r : KnowsChain("PQ_TXN_FIRST_GET", id, prev, height, r, B)
      BY <1>3, <3>1 DEF KnowsChain
    <3>3. SendReq(i, "PQ_TXN_FIRST_GET", "transaction_get", n)
      BY <2>2, <2>4, <3>1
    <3>4. \A r : KnowsChain("PQ_TXN_FIRST_GET", i.block_id, i.previous_block_id, i.block_height,
                           r, B)
      BY Zenon, <2>2, <3>1, <3>2
    <3> QED BY Zenon, <1>2, <2>2, <3>1, <3>3, <3>4, ReadFit
  <2> QED BY <2>1, <2>3, <2>4
<1> QED BY <1>4, <1>5, <1>6, <1>7
-----------------------------------------------------------------------------
(* The data service and everybody else, once more. *)

\* A running instance waits for the answer to what is asked.
LEMMA AskedState ==
    ASSUME IndInv, svc.up, data.phase # "quiet"
    PROVE  svc.state \in DOMAIN DataStates /\ data.method \in DataStates[svc.state]
  BY DEF IndInv, InFlightMatchesState

\* The data service answers, or goes on with its work.
LEMMA AnsweredFit ==
    ASSUME FitInv, ChainInv', SameChain, svc' = svc, data'.phase # "request",
           svc.up /\ svc.state = "LATEST_BLOCK_ID_GET" /\ data'.phase = "response"
              => data'.val = Tip(db.block),
           svc.up /\ svc.state = "BLOCK_GET" /\ data'.phase = "response"
              => data'.val = db.block[FFUuid].height
    PROVE  FitInv'
<1>1. PICK id, prev, height, s, B, x, y :
         /\ id = svc.block_id /\ prev = svc.previous_block_id /\ height = svc.block_height
         /\ s = svc.state /\ B = db.block /\ x = data /\ y = data'
  OBVIOUS
<1>2. KnowsChain(s, id, prev, height, x, B) => KnowsChain(s, id, prev, height, y, B) \/ ~svc.up
  BY <1>1 DEF KnowsChain
<1>3. Round'
  BY <1>1, <1>2 DEF FitInv, Round, SameChain
<1>4. Presented'
  BY DEF Presented
<1> QED BY <1>3, <1>4 DEF FitInv

\* Requests that only read.
LEMMA ReadsFit ==
    ASSUME IndInv, FitInv,
           ServeContexts \/ ServeLatestBlockId \/ ServeBlockGet \/ ServeFirstLookup
             \/ ServeFirstRead \/ ServeTransactionGet
    PROVE  FitInv'
<1>1. UNCHANGED <<db, work, svc>> /\ data.phase # "quiet" /\ data'.phase \in {"response", "second_read"}
  <2>1. ASSUME NEW status, NEW v, Answers(status, v)
        PROVE  UNCHANGED <<db, work, svc>> /\ data'.phase = "response"
    BY <2>1 DEF Answers, Response
  <2>2. CASE ServeContexts
    BY <2>1, <2>2 DEF ServeContexts, Asked
  <2>3. CASE ServeLatestBlockId
    BY <2>1, <2>3 DEF ServeLatestBlockId, Asked
  <2>4. CASE ServeBlockGet
    BY <2>1, <2>4 DEF ServeBlockGet, Asked
  <2>5. CASE ServeFirstLookup
    <3>1. data.phase = "request"
      BY <2>5 DEF ServeFirstLookup, Asked
    <3>2. CASE Answers("NOT_FOUND", ZeroUuid)
      BY <2>1, <3>1, <3>2
    <3>3. CASE ~Answers("NOT_FOUND", ZeroUuid)
      <4>1. /\ data' = [data EXCEPT !.phase = "second_read", !.arg = db.pq[ZeroUuid].next]
            /\ UNCHANGED <<db, work, svc>>
        BY <2>5, <3>3 DEF ServeFirstLookup
      <4>2. data'.phase = "second_read"
        BY <4>1 DEF IndInv, Shape
      <4> QED BY <3>1, <4>1, <4>2
    <3> QED BY <3>2, <3>3
  <2>6. CASE ServeFirstRead \/ ServeTransactionGet
    <3>1. data.phase \in {"request", "second_read"} /\ AnswerNode(data.arg)
      BY <2>6 DEF ServeFirstRead, ServeTransactionGet, Asked
    <3>2. \E status, v : Answers(status, v)
      BY <3>1, Zenon DEF AnswerNode
    <3> QED BY <2>1, <3>1, <3>2
  <2> QED BY <2>2, <2>3, <2>4, <2>5, <2>6
<1>2. ChainInv' /\ SameChain
  BY <1>1 DEF FitInv, ChainInv, SameChain
<1>3. svc.up /\ svc.state = "LATEST_BLOCK_ID_GET" => data'.val = Tip(db.block)
  <2> SUFFICES ASSUME svc.up, svc.state = "LATEST_BLOCK_ID_GET" PROVE data'.val = Tip(db.block)
    OBVIOUS
  <2>1. data.method = "latest_block_id_get"
    BY <1>1, AskedState, StateFacts
  <2>2. ServeLatestBlockId
    BY <2>1 DEF ServeContexts, ServeBlockGet, ServeFirstLookup, ServeFirstRead,
       ServeTransactionGet, Asked, IndInv, Serving
  <2> QED BY <2>2 DEF ServeLatestBlockId, Answers, Response, DS!LatestBlockId, DS!HasChain, Tip
<1>4. svc.up /\ svc.state = "BLOCK_GET" => data'.val = db.block[FFUuid].height
  <2> SUFFICES ASSUME svc.up, svc.state = "BLOCK_GET" PROVE data'.val = db.block[FFUuid].height
    OBVIOUS
  <2>1. data.method = "block_get"
    BY <1>1, AskedState, StateFacts
  <2>2. ServeBlockGet /\ data.phase = "request"
    BY <2>1 DEF ServeContexts, ServeLatestBlockId, ServeBlockGet, ServeFirstLookup, ServeFirstRead,
       ServeTransactionGet, Asked, IndInv, Serving
  <2>3. FFUuid \in DOMAIN db.block /\ data.arg = Tip(db.block)
    BY <2>2, RoundFacts DEF KnowsChain
  <2>4. data.arg \in DS!Blocks(db) /\ db.block[data.arg].height = db.block[FFUuid].height
    BY <2>3 DEF FitInv, ChainInv, ChainOk, Tip, DS!Blocks
  <2>5. data' = Response("SUCCESS", db.block[data.arg].height)
    BY <2>2, <2>4 DEF ServeBlockGet, Answers
  <2> QED BY <2>4, <2>5 DEF Response
<1> QED BY <1>1, <1>2, <1>3, <1>4, AnsweredFit

\* While a block is presented or made, a running instance waits for it.
LEMMA MakingState ==
    ASSUME IndInv, svc.up, data.phase # "quiet", data.method = "block_make"
    PROVE  svc.state = "BLOCK_MAKE"
  BY AskedState, StateOfMethod

\* block_make begins or rejects the block.
LEMMA MakeBeginFit == ASSUME IndInv, FitInv, ServeBlockMakeBegin PROVE FitInv'
<1>1. data.phase = "request" /\ data.method = "block_make" /\ svc' = svc
  BY DEF ServeBlockMakeBegin, Asked
<1>2. svc.up => svc.state = "BLOCK_MAKE"
  BY <1>1, MakingState
<1>3. CASE DS!BlockBegin(data.arg) /\ data' = [data EXCEPT !.phase = "making"]
  <2>1. PICK d : d = DS!LinkBlock(db, data.arg) /\ DOMAIN d = Tables /\ ChainOk(d.block, d.height)
    BY <1>3, LinkOk DEF FitInv, DS!BlockBegin
  <2>2. db' = db /\ work' = d
    BY <1>3, <2>1 DEF DS!BlockBegin
  <2>3. ChainInv' /\ SameChain
    BY <2>1, <2>2 DEF FitInv, ChainInv, SameChain
  <2>4. data'.phase = "making"
    BY <1>3 DEF IndInv, Shape
  <2> QED BY <1>1, <2>3, <2>4, AnsweredFit
<1>4. CASE DS!BlockReject(data.arg) /\ data' = Response(reply'.status, ZeroUuid)
  <2>1. ChainInv' /\ SameChain
    BY Zenon, <1>4 DEF DS!BlockReject, FitInv, ChainInv, SameChain
  <2>2. data'.phase = "response"
    BY <1>4 DEF Response
  <2> QED BY <1>1, <1>2, <2>1, <2>2, AnsweredFit
<1> QED BY <1>3, <1>4 DEF ServeBlockMakeBegin

\* block_make is given up, with an answer.
LEMMA GivenUpFit ==
    ASSUME IndInv, FitInv, DS!BlockChildFails \/ DS!BlockFault,
           data' = Response(reply'.status, ZeroUuid), svc' = svc
    PROVE  FitInv'
<1>1. data.phase = "making" /\ data.method = "block_make"
  BY BlockEnds
<1>2. svc.up => svc.state = "BLOCK_MAKE"
  BY <1>1, MakingState
<1>3. ChainInv' /\ SameChain
  BY AbortChain DEF DS!BlockChildFails, DS!BlockFault, FitInv
<1>4. data'.phase = "response"
  BY DEF Response
<1> QED BY <1>2, <1>3, <1>4, AnsweredFit

\* block_make goes on, is given up or is committed: the chain changes only while a
\* running instance waits for the answer to block_make.
LEMMA MakeFit == ASSUME IndInv, FitInv, ServeBlockMake PROVE FitInv'
<1>1. svc' = svc
  BY DEF ServeBlockMake
<1>2. CASE DS!BlockChild /\ UNCHANGED data
  BY <1>1, <1>2, ChildChain, QuietFit DEF FitInv
<1>3. CASE DS!BlockChildFails /\ data' = Response(reply'.status, ZeroUuid)
  BY <1>1, <1>3, GivenUpFit
<1>4. CASE DS!BlockCommit /\ data' = Response(reply'.status, ZeroUuid)
  <2>1. (db' = db \/ db' = work) /\ work' = db'
    BY <1>4 DEF DS!BlockCommit, DS!CommitOutcomes
  <2>2. ChainInv'
    BY <2>1 DEF FitInv, ChainInv
  <2>3. data.phase = "making" /\ data.method = "block_make"
    BY <1>4, BlockEnds
  <2>4. svc.up => svc.state = "BLOCK_MAKE"
    BY <2>3, MakingState
  <2>5. Round'
    BY <1>1, <2>4 DEF Round, KnowsChain
  <2>6. Presented'
    BY <1>4 DEF Presented, Response
  <2> QED BY <2>2, <2>5, <2>6 DEF FitInv
<1> QED BY <1>2, <1>3, <1>4 DEF ServeBlockMake

\* Clients, the attestation service and the notification service do not change the chain.
LEMMA OthersFit ==
    ASSUME IndInv, FitInv,
           (\E r \in Requests : ClientSubmit(r)) \/ (\E t \in TxnId : Attest(t)) \/ ServeNotify
    PROVE  FitInv'
<1>1. ChainInv
  BY DEF FitInv
<1>2. CASE ServeNotify
  <2>1. UNCHANGED <<db, work, svc, data>>
    BY <1>2 DEF ServeNotify
  <2>2. ChainInv' /\ SameChain
    BY <1>1, <2>1 DEF ChainInv, SameChain
  <2> QED BY <2>1, <2>2, QuietFit
<1>3. CASE (\E r \in Requests : ClientSubmit(r)) \/ (\E t \in TxnId : Attest(t))
  <2>1. UNCHANGED <<svc, data>>
    BY Zenon, <1>3 DEF ClientSubmit, Attest
  <2>2. \E op, id, status, q : DS!EndPqWrite(op, id, status, q)
    BY <1>3, Zenon DEF ClientSubmit, Attest, DS!Submit, DS!Promote, DS!Drop
  <2>3. ChainInv' /\ SameChain
    BY <1>1, <2>2, QueueWriteChain
  <2> QED BY <2>1, <2>3, QuietFit
<1> QED BY <1>2, <1>3

\* Crashes and faults do not change the chain; a restart begins with quiet sockets.
LEMMA FaultsFit ==
    ASSUME IndInv, FitInv, Crash \/ DataServiceCrash \/ StorageFault \/ Restart PROVE FitInv'
<1> USE DEF IndInv, Shape, Fields
<1>1. CASE Crash
  BY <1>1, ExitFit DEF Crash, ExitEventLoop
<1>2. CASE DataServiceCrash
  <2>1. UNCHANGED db /\ work' = db /\ svc'.up = FALSE /\ data'.phase = "quiet"
    BY <1>2 DEF DataServiceCrash, DS!BlockFault, DS!BlockAbort, Quiet
  <2> QED BY Zenon, <2>1 DEF FitInv, ChainInv, Round, Presented
<1>3. CASE StorageFault
  BY <1>3, GivenUpFit DEF StorageFault
<1>4. CASE Restart
  <2>1. UNCHANGED <<db, work>> /\ svc'.state = "IDLE" /\ data'.phase = "quiet"
    BY <1>4 DEF Restart, StartedInstance, Quiet
  <2> QED BY <2>1, ForgetFit
<1> QED BY <1>1, <1>2, <1>3, <1>4
-----------------------------------------------------------------------------
\* The first round finds no chain.
LEMMA InitFit == Init => FitInv
<1> SUFFICES ASSUME Init PROVE FitInv
  OBVIOUS
<1>1. db = DS!EmptyDb /\ work = DS!EmptyDb /\ svc.state = "IDLE" /\ data.phase = "quiet"
  BY DEF Init, DS!Init, StartedInstance, Quiet
<1>2. /\ DOMAIN DS!EmptyDb = Tables
      /\ DS!EmptyDb.block = DS!NoEntries /\ DS!EmptyDb.height = DS!NoEntries
  BY Zenon DEF DS!EmptyDb, Tables
<1>3. ChainOk(DS!NoEntries, DS!NoEntries)
  BY DEF ChainOk, DS!NoEntries
<1>4. ChainInv
  BY <1>1, <1>2, <1>3 DEF ChainInv
<1>5. Round /\ Presented
  BY <1>1 DEF Round, KnowsChain, Presented
<1> QED BY <1>4, <1>5 DEF FitInv

\* Every step preserves it.
LEMMA StepFit == IndInv /\ FitInv /\ [Next]_vars => FitInv'
<1> SUFFICES ASSUME IndInv, FitInv, [Next]_vars PROVE FitInv'
  OBVIOUS
<1>1. CASE Callbacks
  BY <1>1, OtherCallbacksFit, RandomReadFit, ChildContextFit, LatestFit, BlockReadFit,
     TransactionFit DEF Callbacks
<1>2. CASE Services
  BY <1>2, ReadsFit, MakeBeginFit, MakeFit, OthersFit DEF Services
<1>3. CASE (\E r \in Requests : ClientSubmit(r)) \/ (\E t \in TxnId : Attest(t))
  BY <1>3, OthersFit
<1>4. CASE Crash \/ DataServiceCrash \/ StorageFault \/ Restart
  BY <1>4, FaultsFit
<1>5. CASE UNCHANGED vars
  BY Zenon, <1>5 DEF vars, FitInv, ChainInv, Round, Presented
<1> QED BY <1>1, <1>2, <1>3, <1>4, <1>5 DEF Next

\* What the instance read of the chain stays true until its block is presented, whatever
\* clients, crashes and failed commits do meanwhile.
THEOREM ChainInvariant == Spec => []FitInv
  BY InitFit, StepFit, Invariant, PTL DEF Spec

\* The block that is presented to block_make is the successor of the last block: it
\* passes the constraints on its header and can be inserted.
THEOREM BlockFitsCorrect == Spec => []BlockFitsChain
<1>1. FitInv => BlockFitsChain
  <2> SUFFICES ASSUME Presented PROVE BlockFitsChain
    BY DEF FitInv
  <2> QED
    BY DEF BlockFitsChain, Presented, Fits, Tip, NextHeight, DS!ConstraintMatchingHeight,
       DS!ConstraintMatchingPrevUuid, DS!ConstraintSaneBlockUuid, DS!CanInsertBlock,
       DS!ExpectedHeight, DS!HasChain
<1>2. QED
  BY <1>1, ChainInvariant, PTL
=============================================================================
