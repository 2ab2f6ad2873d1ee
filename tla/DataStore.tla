------------------------------ MODULE DataStore ------------------------------
(***************************************************************************)
(* The database behind the data service: the process queue (pq_db), the   *)
(* block chain (block_db), its height index (height_db), the canonized    *)
(* transactions (txn_db) and the artifact index (artifact_db), with the   *)
(* operations of src/src/dataservice that write them.                     *)
(*                                                                         *)
(* Both linked lists live in the database: a node is stored under its     *)
(* UUID and names its neighbours by UUID.  The all-zero UUID is the begin *)
(* sentinel of a list and the all-FF UUID its end sentinel; neither       *)
(* exists until the first insertion.                                      *)
(*                                                                         *)
(* LMDB gives every writer a private copy that becomes visible at commit, *)
(* and lets one writer in at a time.  The small writers (submit, drop,    *)
(* promote) are one step each.  block_make is a step per stage of its     *)
(* transaction: "work" is its private copy and "db" what everybody else   *)
(* reads meanwhile.                                                        *)
(***************************************************************************)
EXTENDS Naturals, Sequences

CONSTANTS
    TxnId,          \* transaction UUIDs that clients choose
    ArtifactId,     \* artifact UUIDs
    BlockId,        \* block UUIDs that the canonization service draws
    ArtifactState,  \* values of the certificate's new artifact state field
    ZeroUuid,       \* 00..00: begin sentinel, and "no previous transaction"
    FFUuid,         \* FF..FF: end sentinel, and "no next node"
    RootBlock,      \* vccert_certificate_type_uuid_root_block
    BadCert,        \* a transaction certificate that lacks a field
    Requests,       \* the submit requests that clients send
    BlockReqs,      \* the blocks that are presented to block_make
    Attestation,    \* the build option ATTESTATION
    CommitMayFail,  \* mdb_txn_commit can fail (full disk, I/O error)
    MaxSubmits      \* bound on the number of accepted submissions

TxnKey == TxnId \cup {ZeroUuid, FFUuid}
BlockKey == BlockId \cup {ZeroUuid, FFUuid}
AnyBlockId == BlockId \cup {ZeroUuid, FFUuid, RootBlock}

\* The fields of a transaction certificate that block_make reads.
Cert ==
    [id : TxnId, prev : TxnId \cup {ZeroUuid}, artifact : ArtifactId,
     state : ArtifactState]

Request == [id : TxnId, artifact : ArtifactId, cert : Cert \cup {BadCert}]

\* The arguments of block_make: the block id and the fields of its certificate.
BlockReq ==
    [id : AnyBlockId, uuid : AnyBlockId, height : Nat, prev : AnyBlockId,
     txns : Seq(Cert \cup {BadCert})]

ASSUME SentinelAssumption ==
    /\ ZeroUuid # FFUuid
    /\ {ZeroUuid, FFUuid} \cap TxnId = {}
    /\ {ZeroUuid, FFUuid, RootBlock} \cap BlockId = {}
    /\ RootBlock \notin {ZeroUuid, FFUuid}
    /\ BadCert \notin Cert

ASSUME InputAssumption ==
    /\ Requests \subseteq Request
    /\ BlockReqs \subseteq BlockReq
    /\ Attestation \in BOOLEAN
    /\ CommitMayFail \in BOOLEAN
    /\ MaxSubmits \in Nat

VARIABLES
    db,        \* the committed database, as every reader sees it
    work,      \* the private copy of the open block_make transaction
    making,    \* the progress of the open block_make transaction
    arrivals,  \* history: how many submissions were accepted
    reply      \* the last status that an operation returned

vars == <<db, work, making, arrivals, reply>>
-----------------------------------------------------------------------------
(* LMDB, as the data service uses it. *)

\* mdb_put without MDB_NOOVERWRITE.
Put(f, k, v) == [x \in DOMAIN f \cup {k} |-> IF x = k THEN v ELSE f[x]]

\* mdb_del.
Del(f, k) == [x \in DOMAIN f \ {k} |-> f[x]]

\* mdb_txn_commit: the copy becomes the database.  The writers below ignore
\* its result, so a commit that fails silently leaves the database as it was.
CommitOutcomes(d) == {d} \cup (IF CommitMayFail THEN {db} ELSE {})

NoEntries == [x \in {} |-> ZeroUuid]

\* The six databases as database_open creates them (global settings excluded).
EmptyDb ==
    [pq |-> NoEntries, block |-> NoEntries, height |-> NoEntries,
     txn |-> NoEntries, artifact |-> NoEntries]
-----------------------------------------------------------------------------
(* The process queue. "at" is a history field: the order of arrival.       *)

\* The sentinels are zeroed records apart from their links.
Sentinel(prev, next, at) ==
    [prev |-> prev, next |-> next, artifact |-> ZeroUuid, cert |-> BadCert,
     state |-> "UNKNOWN", at |-> at]

NewNode(r, prev, n) ==
    [prev |-> prev, next |-> FFUuid, artifact |-> r.artifact, cert |-> r.cert,
     state |-> IF Attestation THEN "SUBMITTED" ELSE "ATTESTED", at |-> n]

SubmitCreateQueue(q, t) ==
    Put(Put(q, ZeroUuid, Sentinel(ZeroUuid, t, 0)),
        FFUuid, Sentinel(t, FFUuid, MaxSubmits + 1))

\* Faulty variant: the node before the new one is not linked to it.
SubmitKeepPrev(q, t, prev) == q

SubmitUpdatePrev(q, t, prev) == Put(q, prev, [q[prev] EXCEPT !.next = t])

SubmitUpdateEnd(q, t, end) == Put(q, FFUuid, [end EXCEPT !.prev = t])

\* The put of the new node is MDB_NOOVERWRITE; update_prev must find the node
\* that the end sentinel calls the last one.
SubmitStatus(q, r) ==
    IF \/ r.id \in DOMAIN q
       \/ FFUuid \in DOMAIN q /\ q[FFUuid].prev \notin DOMAIN q
    THEN "MDB_FAILURE" ELSE "SUCCESS"

PqSubmit(q, r, n) ==
    IF FFUuid \notin DOMAIN q
    THEN SubmitCreateQueue(Put(q, r.id, NewNode(r, ZeroUuid, n)), r.id)
    ELSE LET end == q[FFUuid]
             inserted == Put(q, r.id, NewNode(r, end.prev, n))
         IN  SubmitUpdateEnd(SubmitUpdatePrev(inserted, r.id, end.prev),
                             r.id, end)

\* Faulty variant: the next node keeps its link to the dropped one.
DropFixupPrevOnly(q, node) ==
    Put(q, node.prev, [q[node.prev] EXCEPT !.next = node.next])

DropFixupPrevNext(q, node) ==
    LET p == Put(q, node.prev, [q[node.prev] EXCEPT !.next = node.next])
    IN  Put(p, node.next, [p[node.next] EXCEPT !.prev = node.prev])

DropStatus(q, t) ==
    CASE t \in {ZeroUuid, FFUuid} \/ t \notin DOMAIN q -> "NOT_FOUND"
      [] OTHER ->
           IF {q[t].prev, q[t].next} \subseteq DOMAIN q \ {t}
           THEN "SUCCESS" ELSE "MDB_FAILURE"

PqDrop(q, t) == DropFixupPrevNext(Del(q, t), q[t])

PromoteStatus(q, t) ==
    IF t \in {ZeroUuid, FFUuid} \/ t \notin DOMAIN q
    THEN "NOT_FOUND" ELSE "SUCCESS"

PqPromote(q, t) == Put(q, t, [q[t] EXCEPT !.state = "ATTESTED"])
-----------------------------------------------------------------------------
(* The block chain. *)

BlockSentinel(prev, next, height) ==
    [prev |-> prev, next |-> next, first |-> ZeroUuid, height |-> height,
     txns |-> <<>>]

\* query_end_node found an end node: the chain has a block.
HasChain(d) == FFUuid \in DOMAIN d.block

ExpectedHeight(d) == IF HasChain(d) THEN 1 + d.block[FFUuid].height ELSE 1

ConstraintMatchingHeight(d, b) == b.height = ExpectedHeight(d)

ConstraintMatchingPrevUuid(d, b) ==
    b.prev = IF HasChain(d) THEN d.block[FFUuid].prev ELSE RootBlock

ConstraintSaneBlockUuid(b) ==
    b.id = b.uuid /\ b.id \notin {RootBlock, ZeroUuid, FFUuid}

\* dataservice_make_block_get_first_transaction_id: there is a first wrapped
\* transaction and it has an id.
HasFirstTransaction(b) == Len(b.txns) > 0 /\ b.txns[1] # BadCert

BlockNode(b) ==
    [prev |-> b.prev, next |-> FFUuid, first |-> b.txns[1].id,
     height |-> b.height, txns |-> b.txns]

\* Both puts are MDB_NOOVERWRITE.
CanInsertBlock(d, b) == b.id \notin DOMAIN d.block /\ b.height \notin DOMAIN d.height

InsertBlock(d, b) ==
    [d EXCEPT !.block = Put(@, b.id, BlockNode(b)),
              !.height = Put(@, b.height, b.id)]

BlockCreateQueue(blocks, id, height) ==
    Put(Put(blocks, ZeroUuid, BlockSentinel(ZeroUuid, id, 0)),
        FFUuid, BlockSentinel(id, FFUuid, height))

BlockUpdatePrev(blocks, id, prev) ==
    Put(blocks, prev, [blocks[prev] EXCEPT !.next = id])

\* Faulty variant: the end node keeps the height of the block before.
BlockUpdateEndLink(blocks, id, height, end) ==
    Put(blocks, FFUuid, [end EXCEPT !.prev = id])

BlockUpdateEnd(blocks, id, height, end) ==
    Put(blocks, FFUuid, [end EXCEPT !.prev = id, !.height = height])

\* The stages of block_make up to its loop over the wrapped transactions.
BeginStatus(d, b) ==
    CASE ~ (/\ ConstraintMatchingHeight(d, b)
            /\ ConstraintMatchingPrevUuid(d, b)
            /\ ConstraintSaneBlockUuid(b)
            /\ HasFirstTransaction(b)) -> "INVALID_BLOCK"
      [] OTHER ->
           IF /\ CanInsertBlock(d, b)
              /\ HasChain(d) => d.block[FFUuid].prev \in DOMAIN d.block
           THEN "SUCCESS" ELSE "MDB_FAILURE"

LinkBlock(d, b) ==
    LET inserted == InsertBlock(d, b)
        end == d.block[FFUuid]
    IN  [inserted EXCEPT !.block =
            IF ~HasChain(d)
            THEN BlockCreateQueue(@, b.id, b.height)
            ELSE BlockUpdateEnd(BlockUpdatePrev(@, b.id, end.prev),
                                b.id, b.height, end)]
-----------------------------------------------------------------------------
(* The wrapped transactions of a block. *)

TxnRecord(b, c) ==
    [prev |-> c.prev, next |-> FFUuid, artifact |-> c.artifact,
     block |-> b.id, state |-> "CANONIZED", cert |-> c]

\* Faulty variant: the previous transaction does not learn of its successor.
KeepPrevTxn(txns, prev, t) == txns

UpdatePrevTxn(txns, prev, t) == Put(txns, prev, [txns[prev] EXCEPT !.next = t])

\* Faulty variant: the latest height of a known artifact is not updated.
UpdateArtifactTxnOnly(artifacts, b, c) ==
    Put(artifacts, c.artifact,
        IF c.artifact \notin DOMAIN artifacts
        THEN [txn_first |-> c.id, txn_latest |-> c.id,
              height_first |-> b.height, height_latest |-> b.height,
              state_latest |-> c.state]
        ELSE [artifacts[c.artifact] EXCEPT !.txn_latest = c.id,
                                           !.state_latest = c.state])

UpdateArtifact(artifacts, b, c) ==
    Put(artifacts, c.artifact,
        IF c.artifact \notin DOMAIN artifacts
        THEN [txn_first |-> c.id, txn_latest |-> c.id,
              height_first |-> b.height, height_latest |-> b.height,
              state_latest |-> c.state]
        ELSE [artifacts[c.artifact] EXCEPT !.txn_latest = c.id,
                                           !.height_latest = b.height,
                                           !.state_latest = c.state])

\* The put into txn_db is MDB_NOOVERWRITE; the transaction must be on the
\* process queue; a named previous transaction must be in txn_db, which holds
\* the transaction itself by then.
ChildStatus(d, c) ==
    CASE c = BadCert -> "MISSING_CHILD_FIELD"
      [] c # BadCert ->
           IF c.id \in DOMAIN d.txn THEN "MDB_FAILURE"
           ELSE IF DropStatus(d.pq, c.id) # "SUCCESS" THEN DropStatus(d.pq, c.id)
           ELSE IF c.prev \notin DOMAIN d.txn \cup {ZeroUuid, c.id}
                THEN "MDB_FAILURE" ELSE "SUCCESS"

ProcessChild(d, b, c) ==
    LET put == Put(d.txn, c.id, TxnRecord(b, c))
    IN  [d EXCEPT !.txn = IF c.prev = ZeroUuid THEN put
                          ELSE UpdatePrevTxn(put, c.prev, c.id),
                  !.pq = PqDrop(@, c.id),
                  !.artifact = UpdateArtifact(@, b, c)]
-----------------------------------------------------------------------------
(* What the read operations answer, from the database they are given.      *)

\* transaction_get, canonized_transaction_get and artifact_get fail with
\* NOT_FOUND outside these sets.
Queued(d) == DOMAIN d.pq \ {ZeroUuid, FFUuid}
Canonized(d) == DOMAIN d.txn
Blocks(d) == DOMAIN d.block \ {ZeroUuid, FFUuid}

\* latest_block_id_get.
LatestBlockId(d) == IF HasChain(d) THEN d.block[FFUuid].prev ELSE RootBlock
-----------------------------------------------------------------------------
NoBlock ==
    [id |-> ZeroUuid, uuid |-> ZeroUuid, height |-> 0, prev |-> RootBlock,
     txns |-> <<>>]

NotMaking == [open |-> FALSE, block |-> NoBlock, done |-> 0]

Answer(op, id, status) == [op |-> op, id |-> id, status |-> status]

NoReply == Answer("none", ZeroUuid, "SUCCESS")

Init ==
    /\ db = EmptyDb
    /\ work = EmptyDb
    /\ making = NotMaking
    /\ arrivals = 0
    /\ reply = NoReply

\* How a small writer ends: a new process queue is committed, or the
\* transaction is aborted with a failure status.
EndPqWrite(op, id, status, q) ==
    /\ reply' = Answer(op, id, status)
    /\ db' \in IF status = "SUCCESS"
               THEN CommitOutcomes([db EXCEPT !.pq = q]) ELSE {db}
    /\ work' = db'
    /\ UNCHANGED making

Submit(r) ==
    /\ ~making.open
    /\ arrivals < MaxSubmits
    /\ LET status == SubmitStatus(db.pq, r)
       IN  /\ EndPqWrite("submit", r.id, status, PqSubmit(db.pq, r, arrivals + 1))
           /\ arrivals' = IF status = "SUCCESS" THEN arrivals + 1 ELSE arrivals

Drop(t) ==
    /\ ~making.open
    /\ EndPqWrite("drop", t, DropStatus(db.pq, t), PqDrop(db.pq, t))
    /\ UNCHANGED arrivals

Promote(t) ==
    /\ ~making.open
    /\ EndPqWrite("promote", t, PromoteStatus(db.pq, t), PqPromote(db.pq, t))
    /\ UNCHANGED arrivals

BlockBegin(b) ==
    /\ ~making.open
    /\ BeginStatus(db, b) = "SUCCESS"
    /\ work' = LinkBlock(db, b)
    /\ making' = [open |-> TRUE, block |-> b, done |-> 0]
    /\ reply' = NoReply
    /\ UNCHANGED <<db, arrivals>>

BlockReject(b) ==
    /\ ~making.open
    /\ BeginStatus(db, b) # "SUCCESS"
    /\ reply' = Answer("block_make", b.id, BeginStatus(db, b))
    /\ UNCHANGED <<db, work, making, arrivals>>

NextChild == making.block.txns[making.done + 1]

BlockChild ==
    /\ making.open
    /\ making.done < Len(making.block.txns)
    /\ ChildStatus(work, NextChild) = "SUCCESS"
    /\ work' = ProcessChild(work, making.block, NextChild)
    /\ making' = [making EXCEPT !.done = @ + 1]
    /\ UNCHANGED <<db, arrivals, reply>>

\* Faulty variant: the error path commits what was done so far.
BlockCommitOnError(status) ==
    /\ db' = work
    /\ work' = work
    /\ making' = NotMaking
    /\ reply' = Answer("block_make", making.block.id, status)
    /\ UNCHANGED arrivals

\* mdb_txn_abort: the private copy is dropped.
BlockAbort(status) ==
    /\ work' = db
    /\ making' = NotMaking
    /\ reply' = Answer("block_make", making.block.id, status)
    /\ UNCHANGED <<db, arrivals>>

BlockChildFails ==
    /\ making.open
    /\ making.done < Len(making.block.txns)
    /\ ChildStatus(work, NextChild) # "SUCCESS"
    /\ BlockAbort(ChildStatus(work, NextChild))

\* An allocation or an LMDB call fails in the middle, or the process that
\* holds the write transaction dies: LMDB drops the copy either way.
BlockFault ==
    /\ making.open
    /\ BlockAbort("MDB_FAILURE")

BlockCommit ==
    /\ making.open
    /\ making.done = Len(making.block.txns)
    /\ db' \in CommitOutcomes(work)
    /\ work' = db'
    /\ making' = NotMaking
    /\ reply' = Answer("block_make", making.block.id, "SUCCESS")
    /\ UNCHANGED arrivals

Next ==
    \/ \E r \in Requests : Submit(r)
    \/ \E t \in TxnKey : Drop(t) \/ Promote(t)
    \/ \E b \in BlockReqs : BlockBegin(b) \/ BlockReject(b)
    \/ BlockChild \/ BlockChildFails \/ BlockFault \/ BlockCommit

Spec == Init /\ [][Next]_vars
-----------------------------------------------------------------------------
(* What the database looks like. *)

Statuses ==
    {"SUCCESS", "NOT_FOUND", "MDB_FAILURE", "INVALID_BLOCK",
     "MISSING_CHILD_FIELD"}

PqNode ==
    [prev : TxnKey, next : TxnKey, artifact : ArtifactId \cup {ZeroUuid},
     cert : Cert \cup {BadCert},
     state : {"UNKNOWN", "SUBMITTED", "ATTESTED"}, at : 0 .. MaxSubmits + 1]

BlockNodes ==
    [prev : AnyBlockId, next : BlockKey, first : TxnId \cup {ZeroUuid},
     height : Nat, txns : Seq(Cert \cup {BadCert})]

TxnNode ==
    [prev : TxnId \cup {ZeroUuid}, next : TxnId \cup {FFUuid},
     artifact : ArtifactId, block : BlockId, state : {"CANONIZED"}, cert : Cert]

ArtifactRecord ==
    [txn_first : TxnId, txn_latest : TxnId, height_first : Nat,
     height_latest : Nat, state_latest : ArtifactState]

PqType(q) == q \in [DOMAIN q -> PqNode] /\ DOMAIN q \subseteq TxnKey

DbType(d) ==
    /\ DOMAIN d = {"pq", "block", "height", "txn", "artifact"}
    /\ PqType(d.pq)
    /\ d.block \in [DOMAIN d.block -> BlockNodes] /\ DOMAIN d.block \subseteq BlockKey
    /\ d.height \in [DOMAIN d.height -> BlockId] /\ DOMAIN d.height \subseteq Nat
    /\ d.txn \in [DOMAIN d.txn -> TxnNode] /\ DOMAIN d.txn \subseteq TxnId
    /\ d.artifact \in [DOMAIN d.artifact -> ArtifactRecord]
    /\ DOMAIN d.artifact \subseteq ArtifactId

MakingType ==
    /\ making \in [open : BOOLEAN, block : BlockReqs \cup {NoBlock}, done : Nat]
    /\ making.open => making.block \in BlockReqs
    /\ making.done <= Len(making.block.txns)

\* Type invariant: every stored node is a well-formed record, in the committed
\* database and in the private copy of block_make.
TypeOK ==
    /\ DbType(db)
    /\ DbType(work)
    /\ MakingType
    /\ arrivals \in 0 .. MaxSubmits
    /\ reply \in [op : {"none", "submit", "drop", "promote", "block_make"},
                  id : TxnKey \cup AnyBlockId, status : Statuses]

\* n and m are neighbours: linked both ways, and nothing arrived in between.
Adjacent(q, n, m) ==
    /\ n \in DOMAIN q /\ m \in DOMAIN q
    /\ q[n].next = m /\ q[m].prev = n
    /\ q[n].at < q[m].at
    /\ \A o \in DOMAIN q : q[o].at <= q[n].at \/ q[m].at <= q[o].at

FifoQueue(q) ==
    /\ DOMAIN q # {} => {ZeroUuid, FFUuid} \subseteq DOMAIN q
    /\ \A n \in DOMAIN q \ {FFUuid} : Adjacent(q, n, q[n].next)
    /\ \A n \in DOMAIN q \ {ZeroUuid} : Adjacent(q, q[n].prev, n)

\* The process queue is a doubly linked list from sentinel to sentinel that
\* holds every queued transaction, in the order in which the submissions were
\* accepted: what canonization walks is first come, first served.
\* (dataservice_transaction_submit, dataservice_transaction_drop_internal)
QueueIsFifo == FifoQueue(db.pq)

ChainLinks(d) ==
    \A h \in DOMAIN d.height :
        LET node == d.block[d.height[h]] IN
        /\ node.height = h
        /\ node.prev = IF h = 1 THEN RootBlock ELSE d.height[h - 1]
        /\ node.next = IF h = d.block[FFUuid].height THEN FFUuid ELSE d.height[h + 1]

ChainIndexed(d) ==
    IF ~HasChain(d)
    THEN DOMAIN d.block = {} /\ DOMAIN d.height = {}
    ELSE /\ ZeroUuid \in DOMAIN d.block
         /\ d.block[FFUuid].height >= 1
         /\ DOMAIN d.height = 1 .. d.block[FFUuid].height
         /\ \A h \in DOMAIN d.height : d.height[h] \in Blocks(d)
         /\ \A b \in Blocks(d) :
               /\ d.block[b].height \in DOMAIN d.height
               /\ d.height[d.block[b].height] = b
         /\ ChainLinks(d)
         /\ d.block[ZeroUuid].next = d.height[1]
         /\ d.block[FFUuid].prev = d.height[d.block[FFUuid].height]

\* The block chain is one unbroken chain from the root block: heights are 1, 2,
\* 3 ... without gap or duplicate, every block's links name the blocks one below
\* and one above, and the height index agrees with the blocks themselves.
\* (dataservice_block_make, dataservice_make_block_insert_block)
ChainMatchesHeights == ChainIndexed(db)

\* The certificates that block b carries.
Wrapped(d, b) == {d.block[b].txns[i] : i \in DOMAIN d.block[b].txns}

TxnsBelongToBlocks(d) ==
    \A t \in Canonized(d) :
        /\ d.txn[t].block \in Blocks(d)
        /\ \E c \in Wrapped(d, d.txn[t].block) :
              c # BadCert /\ c.id = t /\ c.artifact = d.txn[t].artifact

BlockIsWhole(d, b) ==
    /\ \A c \in Wrapped(d, b) :
         c # BadCert /\ c.id \in Canonized(d) /\ d.txn[c.id].block = b
    /\ d.block[b].first \in Canonized(d)

TxnHeight(d, t) == d.block[d.txn[t].block].height

ArtifactBrackets(d) ==
    /\ \A t \in Canonized(d) : d.txn[t].artifact \in DOMAIN d.artifact
    /\ \A a \in DOMAIN d.artifact :
         LET r == d.artifact[a] IN
         /\ {r.txn_first, r.txn_latest} \subseteq Canonized(d)
         /\ d.txn[r.txn_first].artifact = a /\ d.txn[r.txn_latest].artifact = a
         /\ TxnHeight(d, r.txn_first) = r.height_first
         /\ TxnHeight(d, r.txn_latest) = r.height_latest
         /\ \A t \in Canonized(d) :
              d.txn[t].artifact = a =>
                  TxnHeight(d, t) \in r.height_first .. r.height_latest

TxnHistory(d) ==
    \A t \in Canonized(d) :
        /\ d.txn[t].prev # ZeroUuid =>
              /\ d.txn[t].prev \in Canonized(d)
              /\ TxnHeight(d, d.txn[t].prev) <= TxnHeight(d, t)
              /\ d.txn[d.txn[t].prev].next # FFUuid
        /\ d.txn[t].next # FFUuid =>
              /\ d.txn[t].next \in Canonized(d)
              /\ d.txn[d.txn[t].next].prev = t

\* The two indexes that block_make derives describe the chain, whatever fails
\* while a block is made.  The transaction index holds exactly the transactions
\* that the blocks carry, each under the one block that carries it.  In the
\* artifact index first and latest name canonized transactions of that artifact,
\* in the blocks at the recorded heights, and no transaction of the artifact is
\* in an earlier or a later block.  The history of a transaction can be walked
\* both ways: its predecessor is canonized in the same or an earlier block and
\* knows a successor, and the successor of a transaction names it as its
\* predecessor.
\* (dataservice_block_make_process_child, dataservice_block_make_update_artifact,
\* dataservice_block_make_update_prev_txn)
IndexesMatchChain ==
    /\ TxnsBelongToBlocks(db)
    /\ \A b \in Blocks(db) : BlockIsWhole(db, b)
    /\ ArtifactBrackets(db)
    /\ TxnHistory(db)

\* An operation that reports success has done its work: the transaction it
\* submitted is on the queue, the one it dropped is not, the block it made is on
\* the chain.
SuccessIsStored ==
    reply.status = "SUCCESS" =>
        /\ reply.op = "submit" => reply.id \in Queued(db)
        /\ reply.op = "drop" => reply.id \notin Queued(db)
        /\ reply.op = "block_make" => reply.id \in Blocks(db)
=============================================================================
