----------------------------- MODULE Attestation -----------------------------
(***************************************************************************)
(* The attestation service (src/src/attestationservice, in the build with  *)
(* ATTESTATION): it wakes up, walks the process queue from its first node  *)
(* and promotes or drops every transaction on its way.  Composed with the  *)
(* data store, with clients that submit and the canonization service that  *)
(* makes blocks of attested transactions meanwhile, both through other     *)
(* data service processes, and with the supervisor.                        *)
(*                                                                         *)
(* The main fiber has at most one request on its data socket.  What it     *)
(* knows of the queue is the copy of a node that it read with an earlier   *)
(* request, and it finds the next node by that copy.                       *)
(*                                                                         *)
(* "verified" are the transactions that the three verify functions accept. *)
(* They are stubs that refuse every transaction, so the empty set is the   *)
(* program as it stands; the other values let the walk reach the promotion *)
(* that the code has for a transaction that they accept.                   *)
(***************************************************************************)
EXTENDS Naturals, Sequences, FiniteSets, TLC

CONSTANTS
    TxnId, ArtifactId, BlockId, ArtifactState, ZeroUuid, FFUuid, RootBlock,
    BadCert, Requests, BlockReqs, CommitMayFail, MaxSubmits,
    MaxTransactions,   \* block_max_transactions of the configuration
    VerifiedSets,      \* what the verify functions may accept
    MaxFaults          \* bound on signals, failing sockets and aborted blocks

VARIABLES
    db, work, making, arrivals, reply,   \* the data store
    inst,       \* attestationservice_instance, and where its main fiber is
    data,       \* its socket to the data service
    signal,     \* a signal on its way through the signal thread to the reaper
    verified,   \* what the verify functions accept
    faults      \* how many faults have happened

store == <<db, work, making, arrivals, reply>>
vars == <<store, inst, data, signal, verified, faults>>

DS == INSTANCE DataStore WITH Attestation <- TRUE
DR == INSTANCE DataReads

ASSUME AttestationAssumption ==
    /\ MaxTransactions \in Nat \ {0} /\ MaxFaults \in Nat
    /\ VerifiedSets \subseteq SUBSET TxnId
-----------------------------------------------------------------------------
(* The instance and its data socket. *)

NoNode == [key |-> ZeroUuid]

EmptyTree == [k \in {} |-> NoNode]

Quiet == [phase |-> "quiet"]
Request(method, arg) == [phase |-> "request", method |-> method, arg |-> arg]
Response(r) == [phase |-> "response", status |-> r.status, node |-> r.node]

CreateInstance ==
    [pc |-> "starting", txn_node |-> NoNode,
     transaction_tree |-> EmptyTree, artifact_tree |-> EmptyTree]

\* The main fiber at "pc" waits for the answer to a request.
Ask(i, pc, method, arg) ==
    /\ inst' = [i EXCEPT !.pc = pc]
    /\ data' = Request(method, arg)

\* cleanup_inst: the event loop returns, and with it the process.
Exits ==
    /\ inst' = [CreateInstance EXCEPT !.pc = "exited"]
    /\ data' = Quiet

\* attestationservice_sleep: a request to the sleep thread.
Sleep(i) ==
    /\ inst' = [i EXCEPT !.pc = "asleep"]
    /\ data' = Quiet

\* The rest of the event loop's round: both trees are cleared.
EndRound(i) ==
    Sleep([i EXCEPT !.transaction_tree = EmptyTree, !.artifact_tree = EmptyTree,
                    !.txn_node = NoNode])

QueryFirstPendingTxn(i) == Ask(i, "first", "transaction_get_first", ZeroUuid)
QueryPendingTxn(i, id) == Ask(i, "next", "transaction_get", id)

\* attestationservice_dataservice_query_pending_transaction, with NULL as <<>>.
QueryPendingTransaction(i, id) ==
    IF id = <<>> THEN QueryFirstPendingTxn(i) ELSE QueryPendingTxn(i, id[1])

\* The three stubs, each of which refuses.
VerifyTxnHasValidFields(node) == node.key \in verified
VerifyTxnIsInCorrectSequence(node) == node.key \in verified
VerifyTxnIsUnique(node) == node.key \in verified

DropTxn(i) == Ask(i, "drop", "transaction_drop", i.txn_node.key)

\* Faulty variant: a transaction that is refused stays where it is.
LeaveTxn(i) ==
    IF i.txn_node.next = FFUuid THEN EndRound(i)
    ELSE QueryPendingTransaction(i, <<i.txn_node.next>>)

TransactionPromote(i) ==
    Ask(i, "promote", "transaction_promote", i.txn_node.key)

\* Faulty variant: what the verify functions refuse is not dropped.
AttestOrLeave(i) ==
    IF i.txn_node.key \in verified THEN TransactionPromote(i) ELSE LeaveTxn(i)

\* The body of the loop in do_attestation, up to its first wait.
AttestTxn(i) ==
    IF /\ VerifyTxnHasValidFields(i.txn_node)
       /\ VerifyTxnIsInCorrectSequence(i.txn_node)
       /\ VerifyTxnIsUnique(i.txn_node)
    THEN TransactionPromote(i) ELSE DropTxn(i)

\* txn_cleanup: on to the node that the copy names, unless the copy was the last.
NextTxn(i) ==
    IF i.txn_node.next = FFUuid THEN EndRound(i)
    ELSE QueryPendingTransaction(i, <<i.txn_node.next>>)
-----------------------------------------------------------------------------
(* attestationservice_transaction_tree_insert and the records it makes. *)

TransactionRecordValueCreate(node) == node

ArtifactRecordValueCreate(node) ==
    [txn_first |-> node.key, txn_latest |-> node.key, height_first |-> 0,
     height_latest |-> 0, state_latest |-> node.txn_state]

ArtifactRecordValueCreateFromArtifact(a) ==
    [txn_first |-> a.txn_first, txn_latest |-> a.txn_latest,
     height_first |-> a.height_first, height_latest |-> a.height_latest,
     state_latest |-> a.state_latest]

UpdateOrInsertArtifact(tree, id, rec) ==
    IF id \notin DOMAIN tree THEN (id :> rec) @@ tree
    ELSE [tree EXCEPT ![id].txn_latest = rec.txn_latest,
                      ![id].state_latest = rec.state_latest]

\* The artifact's record is brought up to date with the promoted transaction, and
\* the walk goes on.
NoteArtifact(i, rec) ==
    LET node == i.txn_node
        now == [rec EXCEPT !.txn_latest = node.key, !.state_latest = node.txn_state]
    IN  NextTxn([i EXCEPT !.artifact_tree =
                    UpdateOrInsertArtifact(@, node.artifact_id, now)])

\* From the tree, or from the data service.
GetOrQueryArtifact(i) ==
    LET id == i.txn_node.artifact_id IN
    IF id \in DOMAIN i.artifact_tree
    THEN NoteArtifact(i, ArtifactRecordValueCreateFromArtifact(i.artifact_tree[id]))
    ELSE Ask(i, "artifact", "artifact_get", id)

\* A node whose prev is zero, which the first of the queue is, starts a record.
TransactionTreeInsert ==
    LET node == inst.txn_node
        i == [inst EXCEPT !.transaction_tree =
                  (node.key :> TransactionRecordValueCreate(node)) @@ @]
    IN  IF node.key \in DOMAIN inst.transaction_tree THEN Exits
        ELSE IF node.prev = ZeroUuid
             THEN NoteArtifact(i, ArtifactRecordValueCreate(node))
             ELSE GetOrQueryArtifact(i)
-----------------------------------------------------------------------------
(* The steps of the main fiber: it resumes with an answer. *)

Receives(pc) == inst.pc = pc /\ data.phase = "response"

FiberOnly == UNCHANGED <<store, signal, verified, faults>>

ChildContextCreated ==
    /\ Receives("starting")
    /\ IF data.status = "SUCCESS" THEN Sleep(inst) ELSE Exits
    /\ FiberOnly

\* sleep_thread_entry writes back after the time has passed.
Awakes ==
    /\ inst.pc = "asleep"
    /\ QueryPendingTransaction(inst, <<>>)
    /\ FiberOnly

\* Faulty variant: the walk also starts at a transaction that is attested.
FirstAnyState ==
    /\ Receives("first")
    /\ IF data.status = "NOT_FOUND" THEN EndRound(inst)
       ELSE IF data.status # "SUCCESS" THEN Exits
       ELSE AttestTxn([inst EXCEPT !.txn_node = data.node])
    /\ FiberOnly

\* The state of the first node alone decides whether there is anything to do.
FirstReceived ==
    /\ Receives("first")
    /\ IF data.status = "NOT_FOUND" THEN EndRound(inst)
       ELSE IF data.status # "SUCCESS" THEN Exits
       ELSE IF data.node.txn_state # "SUBMITTED" THEN EndRound(inst)
       ELSE AttestTxn([inst EXCEPT !.txn_node = data.node])
    /\ FiberOnly

NextReceived ==
    /\ Receives("next")
    /\ IF data.status # "SUCCESS" THEN Exits
       ELSE AttestTxn([inst EXCEPT !.txn_node = data.node])
    /\ FiberOnly

PromoteReceived ==
    /\ Receives("promote")
    /\ IF data.status # "SUCCESS" THEN Exits ELSE TransactionTreeInsert
    /\ FiberOnly

ArtifactReceived ==
    /\ Receives("artifact")
    /\ IF data.status # "SUCCESS" THEN Exits
       ELSE NoteArtifact(inst, ArtifactRecordValueCreateFromArtifact(data.node))
    /\ FiberOnly

\* The status of the drop is not looked at.
DropReceived ==
    /\ Receives("drop")
    /\ NextTxn(inst)
    /\ FiberOnly

MainFiber ==
    \/ ChildContextCreated \/ Awakes \/ FirstReceived \/ NextReceived
    \/ PromoteReceived \/ ArtifactReceived \/ DropReceived
-----------------------------------------------------------------------------
(* The data service of the attestation service (see DataStore, DataReads). *)

Asked(method) == data.phase = "request" /\ data.method = method

Answers(r) ==
    /\ data' = Response(r)
    /\ UNCHANGED <<inst, signal, verified, faults>>

DataserviceContext ==
    Asked("child_context_create") /\ Answers(DR!Found(NoNode)) /\ UNCHANGED store

DataserviceFirstId ==
    /\ Asked("transaction_get_first")
    /\ IF DR!FirstId(db) = FFUuid
       THEN Answers(DR!Fails("NOT_FOUND"))
       ELSE /\ data' = Request("transaction_get", DR!FirstId(db))
            /\ UNCHANGED <<inst, signal, verified, faults>>
    /\ UNCHANGED store

DataserviceGet ==
    /\ Asked("transaction_get")
    /\ Answers(DR!TransactionGet(db, data.arg)) /\ UNCHANGED store

DataserviceArtifact ==
    /\ Asked("artifact_get")
    /\ Answers(DR!ArtifactGet(db, data.arg)) /\ UNCHANGED store

DataservicePqWritten == Answers([status |-> reply'.status, node |-> NoNode])

DataserviceDrop ==
    Asked("transaction_drop") /\ DS!Drop(data.arg) /\ DataservicePqWritten

DataservicePromote ==
    Asked("transaction_promote") /\ DS!Promote(data.arg) /\ DataservicePqWritten

Dataservice ==
    \/ DataserviceContext \/ DataserviceFirstId \/ DataserviceGet
    \/ DataserviceArtifact \/ DataserviceDrop \/ DataservicePromote
-----------------------------------------------------------------------------
(* Everything else. *)

OthersOnly == UNCHANGED <<inst, data, signal, verified, faults>>

\* A client submits what is not canonized, after its predecessor.
ClientSubmits ==
    /\ \E r \in Requests :
         /\ r.id \notin DOMAIN db.txn
         /\ r.cert.prev \in {ZeroUuid} \cup DOMAIN db.txn \cup DOMAIN db.pq
         /\ DS!Submit(r)
    /\ OthersOnly

Canonizable(t) == t \in DS!Queued(db) /\ db.pq[t].state = "ATTESTED"

\* What the canonization service reads: attested nodes from the first on.
AttestedPrefixes ==
    {s \in UNION {[1 .. n -> DS!Queued(db)] : n \in 1 .. MaxTransactions} :
        /\ s[1] = db.pq[ZeroUuid].next
        /\ \A k \in DOMAIN s : Canonizable(s[k])
        /\ \A k \in 2 .. Len(s) : s[k] = db.pq[s[k - 1]].next}

\* The canonization service presents a block of them.
CanonizationMakesBlock ==
    /\ DS!Queued(db) # {}
    /\ BlockId \ DOMAIN db.block # {}
    /\ \E s \in AttestedPrefixes :
         LET id == CHOOSE b \in BlockId : b \notin DOMAIN db.block IN
         DS!BlockBegin([id |-> id, uuid |-> id, height |-> DS!ExpectedHeight(db),
                        prev |-> DS!LatestBlockId(db),
                        txns |-> [k \in DOMAIN s |-> db.pq[s[k]].cert]])
    /\ OthersOnly

BlockMakeGoesOn ==
    /\ DS!BlockChild \/ DS!BlockChildFails \/ DS!BlockCommit
    /\ OthersOnly

BlockMakeFails ==
    /\ faults < MaxFaults /\ faults' = faults + 1
    /\ DS!BlockFault
    /\ UNCHANGED <<inst, data, signal, verified>>

\* The data service is gone: the read of its answer fails.
DataSocketFails ==
    /\ faults < MaxFaults /\ faults' = faults + 1
    /\ data.phase = "request"
    /\ Exits
    /\ UNCHANGED <<store, signal, verified>>

\* signal_thread_entry: a signal becomes a quiesce request for the reaper.
SignalThread ==
    /\ faults < MaxFaults /\ faults' = faults + 1
    /\ inst.pc # "exited" /\ signal = "none"
    /\ signal' = "quiesce"
    /\ UNCHANGED <<store, inst, data, verified>>

\* reaper_fiber_entry: the quiesce request goes to all fibers, and fails the wait
\* of the main fiber, which has no handler for it.  The process is gone before the
\* signal thread writes the terminate request.
ReaperFiber ==
    /\ signal = "quiesce" /\ inst.pc # "exited"
    /\ signal' = "none"
    /\ Exits
    /\ UNCHANGED <<store, verified, faults>>

\* The supervisor stops everything and starts again.
Restart ==
    /\ inst.pc = "exited" /\ ~making.open
    /\ signal' = "none"
    /\ Ask(CreateInstance, "starting", "child_context_create", ZeroUuid)
    /\ UNCHANGED <<store, verified, faults>>

Init ==
    /\ DS!Init
    /\ inst = CreateInstance
    /\ data = Request("child_context_create", ZeroUuid)
    /\ signal = "none" /\ faults = 0
    /\ verified \in VerifiedSets

Next ==
    \/ MainFiber \/ Dataservice \/ SignalThread \/ ReaperFiber \/ Restart
    \/ ClientSubmits \/ CanonizationMakesBlock \/ BlockMakeGoesOn \/ BlockMakeFails
    \/ DataSocketFails

\* Sockets and the sleep thread answer, the supervisor restarts, and the
\* canonization service goes on making blocks.  Clients and faults owe nothing.
FairSpec ==
    /\ Init /\ [][Next]_vars
    /\ WF_vars(MainFiber) /\ WF_vars(Dataservice) /\ WF_vars(ReaperFiber)
    /\ WF_vars(Restart) /\ WF_vars(CanonizationMakesBlock) /\ WF_vars(BlockMakeGoesOn)
-----------------------------------------------------------------------------
Submitted(t) == t \in DS!Queued(db) /\ db.pq[t].state = "SUBMITTED"

\* The types of the variables of this module.
TypeOK ==
    /\ DOMAIN db.pq \subseteq DS!TxnKey
    /\ inst.pc \in {"starting", "asleep", "first", "next", "promote", "artifact",
                    "drop", "exited"}
    /\ inst.txn_node.key \in TxnId \cup {ZeroUuid}
    /\ DOMAIN inst.transaction_tree \subseteq TxnId
    /\ DOMAIN inst.artifact_tree \subseteq ArtifactId
    /\ data.phase \in {"quiet", "request", "response"}
    /\ inst.pc = "exited" => data = Quiet
    /\ signal \in {"none", "quiesce"} /\ faults \in 0 .. MaxFaults

\* Attested transactions come before submitted ones.
AttestedFirst ==
    \A t \in DS!Queued(db) :
        Submitted(t) /\ db.pq[t].next # FFUuid => Submitted(db.pq[t].next)

\* Attestation works from the front of the queue: what is attested comes before what
\* is not, on which canonization relies when it stops reading at the first that is not
\* attested.  The node that the walk holds or has asked for is still on the queue and
\* still submitted, although its copy may be old: a promotion, a drop and a query by
\* the link of an old copy never miss.
\* (attestationservice_event_loop, dataservice_transaction_get_first)
WalkIsLive ==
    /\ AttestedFirst
    /\ data.phase = "request" /\ inst.pc \in {"next", "promote", "drop"}
         => Submitted(data.arg)

\* The trees agree with the database: a transaction in the tree is attested or
\* already canonized there, and the record of its artifact names the one that was
\* promoted last in this round.
TreesAreTrue ==
    /\ \A t \in DOMAIN inst.transaction_tree :
         Canonizable(t) \/ t \in DOMAIN db.txn
    /\ inst.pc # "artifact" =>
         \A t \in DOMAIN inst.transaction_tree :
            LET a == inst.transaction_tree[t].artifact_id
            IN  /\ a \in DOMAIN inst.artifact_tree
                /\ LET last == inst.artifact_tree[a].txn_latest
                   IN  last # t /\ Canonizable(t) =>
                         Canonizable(last) /\ db.pq[t].at < db.pq[last].at

\* A transaction that waits is promoted or dropped, whatever dies in between.
\* (attestationservice_event_loop, attestationservice_dataservice_transaction_promote)
EveryTransactionDecided ==
    \A t \in TxnId : Submitted(t) ~> ~Submitted(t)
=============================================================================
