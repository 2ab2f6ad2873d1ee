------------------------------ MODULE Notification ------------------------------
(***************************************************************************)
(* The notification service (src/src/notificationservice): it remembers    *)
(* the id of the latest block and tells a client when the block id that    *)
(* the client asserted to be the latest is not the latest any more.        *)
(*                                                                         *)
(* It is one process of cooperative fibers.  Each of its two instances     *)
(* (one for the canonization service, one for the protocol service) has a  *)
(* protocol fiber, which reads requests, and an outbound endpoint fiber,   *)
(* which writes responses from a mailbox.  A fiber yields only when it     *)
(* reads, writes, sends or receives a message: each action below is what a *)
(* fiber does between two such points.                                     *)
(***************************************************************************)
EXTENDS Integers, Sequences, FiniteSets, Functions

CONSTANTS Block,        \* block ids, numbered in the order of the chain
          ZeroBlock     \* the all-zero id, which no block has

ASSUME BlockAssumption == Block \subseteq Nat \ {0} /\ ZeroBlock = 0

VARIABLES latest,   \* latest_block_id of the context
          inst,     \* the instances: capabilities, assertions, fibers, mailbox
          work,     \* per instance: what a block update has still to notify
          wire,     \* per instance: the socket, both directions, and its peer
          signal,   \* how far SIGTERM has got
          alive     \* the process runs

nvars == <<latest, inst, work, wire, signal, alive>>

Instances == {"consensus", "protocol"}

(* The order in which run() adds the instances to the context's list. *)
InstanceList == <<"consensus", "protocol">>

Caps == {"REDUCE_CAPS", "BLOCK_UPDATE", "BLOCK_ASSERTION", "BLOCK_ASSERTION_CANCEL"}

UuidBytes == 16
CapBytes == 4

(* Requests, as the functions of the API encode them.  size is the number  *)
(* of bytes behind the header of method and offset.                        *)
SendreqReduceCaps(o, c) ==
    [method |-> "REDUCE_CAPS", offset |-> o, size |-> CapBytes,
     block |-> ZeroBlock, caps |-> c]

SendreqBlockUpdate(o, b) ==
    [method |-> "BLOCK_UPDATE", offset |-> o, size |-> UuidBytes,
     block |-> b, caps |-> {}]

SendreqBlockAssertion(o, b) ==
    [method |-> "BLOCK_ASSERTION", offset |-> o, size |-> UuidBytes,
     block |-> b, caps |-> {}]

SendreqAssertionCancel(o) ==
    [method |-> "BLOCK_ASSERTION_CANCEL", offset |-> o, size |-> 0,
     block |-> ZeroBlock, caps |-> {}]

Response(m, o, s) == [method |-> m, offset |-> o, status |-> s]

(* An instance: all capabilities and an empty tree, *)
InstanceCreate ==
    [caps |-> Caps, assertions |-> {}, fiber |-> "none",
     outbound |-> <<>>, endpoint |-> FALSE]

(* then the fiber that reads its socket, *)
ProtocolFiberAdd(rec) == [rec EXCEPT !.fiber = "reading"]

(* then the fiber that writes it, with its mailbox. *)
OutboundEndpointAdd(rec) == [rec EXCEPT !.outbound = <<>>, !.endpoint = TRUE]

NoWork == [todo |-> {}, offset |-> 0]

InitNotification ==
    /\ latest = ZeroBlock
    /\ inst = [i \in Instances |->
                  OutboundEndpointAdd(ProtocolFiberAdd(InstanceCreate))]
    /\ work = [i \in Instances |-> NoWork]
    /\ wire = [i \in Instances |-> [req |-> <<>>, resp |-> <<>>, peer |-> TRUE]]
    /\ signal = "none"
    /\ alive = TRUE

-----------------------------------------------------------------------------

(* A response goes to the mailbox of the instance's outbound endpoint. *)
SendResponse(rec, m, o, s) ==
    [rec EXCEPT !.outbound = Append(@, Response(m, o, s))]

(* The loop of the protocol fiber goes on after a packet that was handled  *)
(* with success, unless the service quiesces.  Otherwise the fiber sends   *)
(* SIGTERM to its own process and ends.                                    *)
Goes(s) == s = "SUCCESS" /\ signal \notin {"quiesced", "terminated"}

LoopFiber(rec, s) == [rec EXCEPT !.fiber = IF Goes(s) THEN "reading" ELSE "ended"]

LoopSignal(s) == IF ~Goes(s) /\ signal = "none" THEN "raised" ELSE signal

(* The next packet of instance i, taken off its socket. *)
ReadPacket(i, r) ==
    /\ alive
    /\ inst[i].fiber = "reading"
    /\ wire[i].req # <<>>
    /\ r = Head(wire[i].req)
    /\ wire' = [wire EXCEPT ![i].req = Tail(@)]

(* Capabilities can only be lost. *)
ReduceCapsStatus(i, r) ==
    IF "REDUCE_CAPS" \notin inst[i].caps THEN "NOT_AUTHORIZED"
    ELSE IF r.size # CapBytes THEN "MALFORMED_REQUEST" ELSE "SUCCESS"

DispatchReduceCaps(i, r) ==
    /\ ReadPacket(i, r)
    /\ r.method = "REDUCE_CAPS"
    /\ LET s == ReduceCapsStatus(i, r)
           kept == IF s = "SUCCESS" THEN inst[i].caps \cap r.caps ELSE inst[i].caps
       IN  /\ inst' = [inst EXCEPT ![i] =
                          LoopFiber(SendResponse([@ EXCEPT !.caps = kept],
                                                 r.method, r.offset, s), s)]
           /\ signal' = LoopSignal(s)
    /\ UNCHANGED <<latest, work, alive>>

(* The entry that assertion_entry_add puts in the tree.  The code keeps    *)
(* the offset only; block is a history field.                              *)
AssertionEntry(r) == [offset |-> r.offset, block |-> r.block]

Holds(i, o) == \E a \in inst[i].assertions : a.offset = o

(* An assertion of a block that is not the latest is answered at once; the *)
(* others are kept, without an answer, until the next block update.        *)
DispatchBlockAssertion(i, r) ==
    /\ ReadPacket(i, r)
    /\ r.method = "BLOCK_ASSERTION"
    /\ LET valid == "BLOCK_ASSERTION" \in inst[i].caps /\ r.size = UuidBytes
           keep == valid /\ r.block = latest /\ ~Holds(i, r.offset)
           s == IF "BLOCK_ASSERTION" \notin inst[i].caps THEN "NOT_AUTHORIZED"
                ELSE IF r.size # UuidBytes THEN "MALFORMED_REQUEST"
                ELSE IF r.block = latest /\ Holds(i, r.offset) THEN "DUPLICATE"
                ELSE "SUCCESS"
           after == IF keep
                    THEN [inst[i] EXCEPT !.assertions = @ \cup {AssertionEntry(r)}]
                    ELSE SendResponse(inst[i], r.method, r.offset, s)
       IN  /\ inst' = [inst EXCEPT ![i] = LoopFiber(after, s)]
           /\ signal' = LoopSignal(s)
    /\ UNCHANGED <<latest, work, alive>>

(* A cancel is answered whether or not the assertion is (still) there. *)
DispatchBlockAssertionCancel(i, r) ==
    /\ ReadPacket(i, r)
    /\ r.method = "BLOCK_ASSERTION_CANCEL"
    /\ LET s == IF "BLOCK_ASSERTION" \notin inst[i].caps THEN "NOT_AUTHORIZED"
                ELSE IF r.size # 0 THEN "MALFORMED_REQUEST" ELSE "SUCCESS"
           left == {a \in inst[i].assertions : s = "SUCCESS" => a.offset # r.offset}
       IN  /\ inst' = [inst EXCEPT ![i] =
                          LoopFiber(SendResponse([@ EXCEPT !.assertions = left],
                                                 r.method, r.offset, s), s)]
           /\ signal' = LoopSignal(s)
    /\ UNCHANGED <<latest, work, alive>>

(* A method that the service does not know is answered and ends the fiber. *)
DispatchUnknown(i, r) ==
    /\ ReadPacket(i, r)
    /\ r.method \notin Caps
    /\ inst' = [inst EXCEPT ![i] =
                   LoopFiber(SendResponse(@, r.method, r.offset, "INVALID_REQUEST_ID"),
                             "INVALID_REQUEST_ID")]
    /\ signal' = LoopSignal("INVALID_REQUEST_ID")
    /\ UNCHANGED <<latest, work, alive>>

(* The assertions of an instance, as what is to be notified. *)
OfInstance(i) == {[inst |-> i, offset |-> a.offset] : a \in inst[i].assertions}

(* Faulty variant: the walk over the list stops after the first instance. *)
BadToNotify == OfInstance(InstanceList[1])

ToNotify == OfInstance(InstanceList[1]) \cup OfInstance(InstanceList[2])

(* They are notified instance by instance in the order of the list, and in *)
(* each in the order of the tree.                                          *)
Before(a, b) ==
    IF a.inst = b.inst THEN a.offset <= b.offset ELSE a.inst = InstanceList[1]

IsNext(a, todo) == a \in todo /\ \A b \in todo : Before(a, b)

(* Faulty variant: only the tree of the instance that sent the update is   *)
(* swapped for an empty one.                                               *)
BadSwapTrees(i) ==
    [inst EXCEPT ![i].assertions = {}, ![i].fiber = "updating"]

(* Every instance gets an empty tree; the old trees are notified below. *)
SwapTrees(i) ==
    [j \in Instances |->
        [inst[j] EXCEPT !.assertions = {},
                        !.fiber = IF j = i THEN "updating" ELSE @]]

(* A block update, up to the first response that is sent. *)
DispatchBlockUpdate(i, r) ==
    /\ ReadPacket(i, r)
    /\ r.method = "BLOCK_UPDATE"
    /\ "BLOCK_UPDATE" \in inst[i].caps
    /\ r.size = UuidBytes
    /\ latest' = r.block
    /\ inst' = SwapTrees(i)
    /\ work' = [work EXCEPT ![i] = [todo |-> ToNotify, offset |-> r.offset]]
    /\ UNCHANGED <<signal, alive>>

(* A block update that is refused. *)
RefuseBlockUpdate(i, r) ==
    /\ ReadPacket(i, r)
    /\ r.method = "BLOCK_UPDATE"
    /\ "BLOCK_UPDATE" \notin inst[i].caps \/ r.size # UuidBytes
    /\ LET s == IF "BLOCK_UPDATE" \notin inst[i].caps
                THEN "NOT_AUTHORIZED" ELSE "MALFORMED_REQUEST"
       IN  /\ inst' = [inst EXCEPT ![i] =
                          LoopFiber(SendResponse(@, r.method, r.offset, s), s)]
           /\ signal' = LoopSignal(s)
    /\ UNCHANGED <<latest, work, alive>>

(* One assertion of the old trees is notified.  The entry points at the    *)
(* context of the fiber that made it, through which it finds the mailbox.  *)
NotifyAssertion(i) ==
    /\ alive
    /\ inst[i].fiber = "updating"
    /\ \E a \in work[i].todo :
          /\ IsNext(a, work[i].todo)
          /\ inst[a.inst].fiber # "ended"
          /\ inst' = [inst EXCEPT ![a.inst] =
                         SendResponse(@, "BLOCK_ASSERTION", a.offset, "SUCCESS")]
          /\ work' = [work EXCEPT ![i].todo = @ \ {a}]
    /\ UNCHANGED <<latest, wire, signal, alive>>

(* The same when that fiber has ended and has released its context: the    *)
(* memory is read after it was cleared and freed.  The process dies, or    *)
(* the response is lost.                                                   *)
NotifyReleased(i) ==
    /\ alive
    /\ inst[i].fiber = "updating"
    /\ \E a \in work[i].todo :
          /\ IsNext(a, work[i].todo)
          /\ inst[a.inst].fiber = "ended"
          /\ work' = [work EXCEPT ![i].todo = @ \ {a}]
    /\ alive' \in BOOLEAN
    /\ UNCHANGED <<latest, inst, wire, signal>>

(* All old assertions are notified: the update itself is answered. *)
FinishBlockUpdate(i) ==
    /\ alive
    /\ inst[i].fiber = "updating"
    /\ work[i].todo = {}
    /\ inst' = [inst EXCEPT ![i] =
                   LoopFiber(SendResponse(@, "BLOCK_UPDATE", work[i].offset, "SUCCESS"),
                             "SUCCESS")]
    /\ signal' = LoopSignal("SUCCESS")
    /\ work' = [work EXCEPT ![i] = NoWork]
    /\ UNCHANGED <<latest, wire, alive>>

(* The peer has closed its end: the read fails and the fiber ends. *)
ReadFails(i) ==
    /\ alive
    /\ inst[i].fiber = "reading"
    /\ wire[i].req = <<>>
    /\ ~wire[i].peer
    /\ inst' = [inst EXCEPT ![i].fiber = "ended"]
    /\ signal' = IF signal = "none" THEN "raised" ELSE signal
    /\ UNCHANGED <<latest, work, wire, alive>>

(* The outbound endpoint fiber writes a message of its mailbox, or ends    *)
(* when the write fails.                                                   *)
OutboundEndpoint(i) ==
    /\ alive
    /\ inst[i].endpoint
    /\ inst[i].outbound # <<>>
    /\ \/ /\ wire[i].peer
          /\ wire' = [wire EXCEPT ![i].resp = Append(@, Head(inst[i].outbound))]
          /\ inst' = [inst EXCEPT ![i].outbound = Tail(@)]
       \/ /\ ~wire[i].peer
          /\ inst' = [inst EXCEPT ![i].outbound = Tail(@), ![i].endpoint = FALSE]
          /\ UNCHANGED wire
    /\ UNCHANGED <<latest, work, signal, alive>>

(* The supervisor's SIGTERM, or the one that a fiber sent. *)
Sigterm ==
    /\ alive
    /\ signal = "none"
    /\ signal' = "raised"
    /\ UNCHANGED <<latest, inst, work, wire, alive>>

(* The signal thread reports the signal; the main fiber tells all fibers,  *)
(* whose handler sets the flag and lets them wait on.                      *)
Quiesce ==
    /\ alive
    /\ signal = "raised"
    /\ signal' = "quiesced"
    /\ UNCHANGED <<latest, inst, work, wire, alive>>

(* After its sleep the signal thread asks for the end; the process exits. *)
Terminate ==
    /\ alive
    /\ signal = "quiesced"
    /\ signal' = "terminated"
    /\ alive' = FALSE
    /\ UNCHANGED <<latest, inst, work, wire>>

FiberStep(i) ==
    \/ \E r \in Range(wire[i].req) :
          \/ DispatchReduceCaps(i, r)
          \/ DispatchBlockAssertion(i, r)
          \/ DispatchBlockAssertionCancel(i, r)
          \/ DispatchUnknown(i, r)
          \/ DispatchBlockUpdate(i, r)
          \/ RefuseBlockUpdate(i, r)
    \/ NotifyAssertion(i)
    \/ NotifyReleased(i)
    \/ FinishBlockUpdate(i)
    \/ ReadFails(i)
    \/ OutboundEndpoint(i)
=============================================================================
