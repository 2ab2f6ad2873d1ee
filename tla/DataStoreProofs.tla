--------------------------- MODULE DataStoreProofs ---------------------------
(* Proofs about DataStore, for any sets of ids, requests and blocks.        *)
EXTENDS DataStore, TLAPS

\* History stamps: unique, 0 at the begin sentinel, above every possible
\* arrival at the end sentinel, and at most n in between.
Stamped(q, n) ==
    /\ \A x, y \in DOMAIN q : q[x].at = q[y].at => x = y
    /\ ZeroUuid \in DOMAIN q => q[ZeroUuid].at = 0
    /\ FFUuid \in DOMAIN q => q[FFUuid].at = MaxSubmits + 1
    /\ \A x \in DOMAIN q \ {ZeroUuid, FFUuid} : q[x].at \in 1 .. n

\* What every writer of the process queue preserves.
PqInv(q, n) == PqType(q) /\ FifoQueue(q) /\ Stamped(q, n)

\* Writing one key of a table gives a function of the same kind (mdb_put).
LEMMA PutIsFunction ==
    ASSUME NEW f, NEW k, NEW v
    PROVE  Put(f, k, v) = [x \in DOMAIN Put(f, k, v) |-> Put(f, k, v)[x]]
BY DEF Put

\* Promotion writes the state of one node and leaves the links alone.
LEMMA PromoteKeepsPq ==
    ASSUME NEW q, NEW t, NEW n \in Nat, PqInv(q, n),
           PromoteStatus(q, t) = "SUCCESS"
    PROVE  PqInv(PqPromote(q, t), n)
<1> DEFINE p == PqPromote(q, t)
<1>1. t \in DOMAIN q /\ t \notin {ZeroUuid, FFUuid}
  BY DEF PromoteStatus
<1>2. q[t] \in PqNode
  BY <1>1 DEF PqInv, PqType
<1>3. DOMAIN p = DOMAIN q
  BY <1>1 DEF PqPromote, Put
<1>4. \A x \in DOMAIN q : /\ p[x].prev = q[x].prev
                          /\ p[x].next = q[x].next
                          /\ p[x].at = q[x].at
                          /\ p[x] \in PqNode
  BY <1>1, <1>2 DEF PqPromote, Put, PqNode, PqInv, PqType
<1> HIDE DEF p
<1>5. PqType(p)
  <2>1. p = [x \in DOMAIN p |-> p[x]]
    BY PutIsFunction DEF p, PqPromote
  <2> QED BY <2>1, <1>3, <1>4 DEF PqType, PqInv
<1>6. FifoQueue(p)
  <2>1. \A x, y \in DOMAIN q : Adjacent(q, x, y) => Adjacent(p, x, y)
    BY <1>3, <1>4 DEF Adjacent
  <2>2. \A x \in DOMAIN q \ {FFUuid} : q[x].next \in DOMAIN q
    BY DEF PqInv, FifoQueue, Adjacent
  <2>3. \A x \in DOMAIN q \ {ZeroUuid} : q[x].prev \in DOMAIN q
    BY DEF PqInv, FifoQueue, Adjacent
  <2> QED BY <2>1, <2>2, <2>3, <1>3, <1>4 DEF PqInv, FifoQueue
<1>7. Stamped(p, n)
  BY <1>3, <1>4 DEF PqInv, Stamped
<1> QED BY <1>5, <1>6, <1>7 DEF PqInv, p

\* Dropping a node joins its two neighbours: the order of the others stays.
LEMMA DropKeepsPq ==
    ASSUME NEW q, NEW t, NEW n \in Nat, PqInv(q, n),
           DropStatus(q, t) = "SUCCESS"
    PROVE  /\ PqInv(PqDrop(q, t), n)
           /\ DOMAIN PqDrop(q, t) = DOMAIN q \ {t}
<1> DEFINE p == PqDrop(q, t)
           a == q[t].prev
           z == q[t].next
<1>1. t \in DOMAIN q /\ t \notin {ZeroUuid, FFUuid}
  BY DEF DropStatus
<1>2. Adjacent(q, a, t) /\ Adjacent(q, t, z)
  BY <1>1 DEF PqInv, FifoQueue
<1>3. q \in [DOMAIN q -> PqNode]
  BY DEF PqInv, PqType
<1>4. \A x \in DOMAIN q : q[x].at \in Nat
  BY <1>3, InputAssumption DEF PqNode
<1>5. a \in DOMAIN q \ {t} /\ z \in DOMAIN q \ {t} /\ a # z
  BY <1>2, <1>4 DEF Adjacent
<1>6. DOMAIN p = DOMAIN q \ {t}
  BY <1>5 DEF PqDrop, DropFixupPrevNext, Del, Put
<1>7. \A x \in DOMAIN p :
        p[x] = IF x = z THEN [q[x] EXCEPT !.prev = a]
               ELSE IF x = a THEN [q[x] EXCEPT !.next = z] ELSE q[x]
  BY <1>5 DEF PqDrop, DropFixupPrevNext, Del, Put
<1>8. p = [x \in DOMAIN p |-> p[x]]
  <2> DEFINE g == Put(Del(q, t), a, [Del(q, t)[a] EXCEPT !.next = z])
             v == [g[z] EXCEPT !.prev = a]
  <2>1. p = Put(g, z, v)
    BY DEF PqDrop, DropFixupPrevNext
  <2> HIDE DEF p, g, v
  <2>2. Put(g, z, v) = [x \in DOMAIN Put(g, z, v) |-> Put(g, z, v)[x]]
    BY PutIsFunction
  <2> QED BY <2>1, <2>2
<1> HIDE DEF p
<1>9. a \in TxnKey /\ z \in TxnKey
  BY <1>1, <1>3 DEF PqNode
<1>10. \A x \in DOMAIN p : /\ p[x] \in PqNode
                           /\ p[x].at = q[x].at
                           /\ p[x].prev = IF x = z THEN a ELSE q[x].prev
                           /\ p[x].next = IF x = a THEN z ELSE q[x].next
  BY <1>3, <1>5, <1>6, <1>7, <1>9 DEF PqNode
<1>11. PqType(p)
  BY <1>6, <1>8, <1>10 DEF PqType, PqInv
<1>12. Stamped(p, n)
  BY <1>6, <1>10 DEF PqInv, Stamped
<1>13. Adjacent(p, a, z)
  <2>1. \A o \in DOMAIN p : q[o].at <= q[a].at \/ q[z].at <= q[o].at
    BY <1>1, <1>2, <1>4, <1>5, <1>6 DEF Adjacent, PqInv, Stamped
  <2>2. q[a].at < q[z].at
    BY <1>1, <1>2, <1>4, <1>5 DEF Adjacent
  <2> QED BY <2>1, <2>2, <1>5, <1>6, <1>10 DEF Adjacent
<1>14. ASSUME NEW x \in DOMAIN p, NEW y \in DOMAIN p, x # a, y # z,
              Adjacent(q, x, y)
       PROVE  Adjacent(p, x, y)
  BY <1>14, <1>6, <1>10 DEF Adjacent
<1>15. ASSUME NEW x \in DOMAIN p \ {FFUuid}
       PROVE  Adjacent(p, x, p[x].next)
  <2>1. CASE x = a
    BY <2>1, <1>10, <1>13
  <2>2. CASE x # a
    <3>1. Adjacent(q, x, q[x].next) /\ p[x].next = q[x].next
      BY <2>2, <1>6, <1>10 DEF PqInv, FifoQueue
    <3>2. q[x].next \in DOMAIN p /\ q[x].next # z
      BY <2>2, <3>1, <1>2, <1>6 DEF Adjacent
    <3> QED BY <2>2, <3>1, <3>2, <1>14
  <2> QED BY <2>1, <2>2
<1>16. ASSUME NEW y \in DOMAIN p \ {ZeroUuid}
       PROVE  Adjacent(p, p[y].prev, y)
  <2>1. CASE y = z
    BY <2>1, <1>10, <1>13
  <2>2. CASE y # z
    <3>1. Adjacent(q, q[y].prev, y) /\ p[y].prev = q[y].prev
      BY <2>2, <1>6, <1>10 DEF PqInv, FifoQueue
    <3>2. q[y].prev \in DOMAIN p /\ q[y].prev # a
      BY <2>2, <3>1, <1>2, <1>6 DEF Adjacent
    <3> QED BY <2>2, <3>1, <3>2, <1>14
  <2> QED BY <2>1, <2>2
<1>17. FifoQueue(p)
  BY <1>1, <1>6, <1>15, <1>16 DEF PqInv, FifoQueue
<1> QED BY <1>6, <1>11, <1>12, <1>17 DEF PqInv, p

\* The first submission creates both sentinels around its node.
LEMMA FirstSubmitKeepsPq ==
    ASSUME NEW q, NEW r \in Request, NEW n \in Nat, PqInv(q, n),
           n < MaxSubmits, FFUuid \notin DOMAIN q
    PROVE  PqInv(PqSubmit(q, r, n + 1), n + 1)
<1> DEFINE p == PqSubmit(q, r, n + 1)
           t == r.id
<1>1. DOMAIN q = {}
  BY DEF PqInv, FifoQueue
<1>2. t \in TxnId /\ r.artifact \in ArtifactId /\ r.cert \in Cert \cup {BadCert}
  BY DEF Request
<1>3. t # ZeroUuid /\ t # FFUuid /\ ZeroUuid # FFUuid
  BY <1>2, SentinelAssumption
<1>4. DOMAIN p = {t, ZeroUuid, FFUuid}
  BY <1>1 DEF PqSubmit, SubmitCreateQueue, Put
<1>5. /\ p[t] = NewNode(r, ZeroUuid, n + 1)
      /\ p[ZeroUuid] = Sentinel(ZeroUuid, t, 0)
      /\ p[FFUuid] = Sentinel(t, FFUuid, MaxSubmits + 1)
  BY <1>1, <1>3 DEF PqSubmit, SubmitCreateQueue, Put
<1>6. p = [x \in DOMAIN p |-> p[x]]
  BY <1>1, PutIsFunction DEF PqSubmit, SubmitCreateQueue
<1> HIDE DEF p
<1>7. p[t].prev = ZeroUuid /\ p[t].next = FFUuid /\ p[t].at = n + 1
  BY <1>5 DEF NewNode
<1>8. p[ZeroUuid].prev = ZeroUuid /\ p[ZeroUuid].next = t /\ p[ZeroUuid].at = 0
  BY <1>5 DEF Sentinel
<1>9. p[FFUuid].prev = t /\ p[FFUuid].next = FFUuid /\ p[FFUuid].at = MaxSubmits + 1
  BY <1>5 DEF Sentinel
<1>10. p[t] \in PqNode
  BY <1>2, <1>5, InputAssumption DEF NewNode, PqNode, TxnKey
<1>11. p[ZeroUuid] \in PqNode /\ p[FFUuid] \in PqNode
  BY <1>2, <1>5, InputAssumption DEF Sentinel, PqNode, TxnKey
<1>12. PqType(p)
  BY <1>2, <1>4, <1>6, <1>10, <1>11 DEF PqType, TxnKey
<1>13. Stamped(p, n + 1)
  BY <1>3, <1>4, <1>7, <1>8, <1>9, InputAssumption DEF Stamped
<1>14. Adjacent(p, ZeroUuid, t) /\ Adjacent(p, t, FFUuid)
  BY <1>4, <1>7, <1>8, <1>9, InputAssumption DEF Adjacent
<1>15. FifoQueue(p)
  BY <1>3, <1>4, <1>7, <1>8, <1>9, <1>14 DEF FifoQueue
<1> QED BY <1>12, <1>13, <1>15 DEF PqInv, p

\* A later submission goes between the last node and the end sentinel.
LEMMA LaterSubmitKeepsPq ==
    ASSUME NEW q, NEW r \in Request, NEW n \in Nat, PqInv(q, n),
           n < MaxSubmits, FFUuid \in DOMAIN q, r.id \notin DOMAIN q
    PROVE  PqInv(PqSubmit(q, r, n + 1), n + 1)
<1> DEFINE p == PqSubmit(q, r, n + 1)
           t == r.id
           a == q[FFUuid].prev
<1>1. t \in TxnId /\ r.artifact \in ArtifactId /\ r.cert \in Cert \cup {BadCert}
  BY DEF Request
<1>2. t # ZeroUuid /\ t # FFUuid /\ ZeroUuid # FFUuid
  BY <1>1, SentinelAssumption
<1>3. q \in [DOMAIN q -> PqNode] /\ DOMAIN q \subseteq TxnKey
  BY DEF PqInv, PqType
<1>4. \A x \in DOMAIN q : q[x].at \in Nat
  BY <1>3, InputAssumption DEF PqNode
<1>5. Adjacent(q, a, FFUuid)
  BY <1>2 DEF PqInv, FifoQueue
<1>6. a \in DOMAIN q /\ a # FFUuid /\ a # t
  BY <1>4, <1>5 DEF Adjacent
<1>7. DOMAIN p = DOMAIN q \cup {t}
  BY <1>6 DEF PqSubmit, SubmitUpdateEnd, SubmitUpdatePrev, Put
<1>8. /\ p[t] = NewNode(r, a, n + 1)
      /\ p[FFUuid] = [q[FFUuid] EXCEPT !.prev = t]
      /\ p[a] = [q[a] EXCEPT !.next = t]
      /\ \A x \in DOMAIN q \ {a, FFUuid} : p[x] = q[x]
  BY <1>2, <1>6 DEF PqSubmit, SubmitUpdateEnd, SubmitUpdatePrev, Put
<1>9. p = [x \in DOMAIN p |-> p[x]]
  BY PutIsFunction DEF PqSubmit, SubmitUpdateEnd
<1> HIDE DEF p
<1>10. p[t].prev = a /\ p[t].next = FFUuid /\ p[t].at = n + 1
  BY <1>8 DEF NewNode
<1>11. p[t] \in PqNode
  BY <1>1, <1>3, <1>6, <1>8, InputAssumption DEF NewNode, PqNode, TxnKey
<1>12. \A x \in DOMAIN q : /\ p[x] \in PqNode
                           /\ p[x].at = q[x].at
                           /\ p[x].prev = IF x = FFUuid THEN t ELSE q[x].prev
                           /\ p[x].next = IF x = a THEN t ELSE q[x].next
  BY <1>1, <1>3, <1>6, <1>8 DEF PqNode, TxnKey
<1>13. PqType(p)
  BY <1>1, <1>3, <1>7, <1>9, <1>11, <1>12 DEF PqType, TxnKey
<1>14. Stamped(p, n + 1)
  BY <1>2, <1>4, <1>7, <1>10, <1>12, InputAssumption DEF PqInv, Stamped
<1>15. q[FFUuid].at = MaxSubmits + 1 /\ q[a].at <= n
  BY <1>5, <1>6, InputAssumption DEF PqInv, Stamped, Adjacent
<1>16. \A o \in DOMAIN q : q[o].at <= q[a].at \/ q[FFUuid].at <= q[o].at
  BY <1>5 DEF Adjacent
<1>17. Adjacent(p, a, t)
  BY <1>4, <1>6, <1>7, <1>10, <1>12, <1>15, <1>16, InputAssumption DEF Adjacent
<1>18. Adjacent(p, t, FFUuid)
  <2>1. p[FFUuid].at = MaxSubmits + 1 /\ p[FFUuid].prev = t
    BY <1>12, <1>15
  <2>2. \A o \in DOMAIN p : p[o].at <= n + 1 \/ MaxSubmits + 1 <= p[o].at
    BY <1>4, <1>6, <1>7, <1>10, <1>12, <1>15, <1>16, InputAssumption
  <2> QED BY <2>1, <2>2, <1>7, <1>10, InputAssumption DEF Adjacent
<1>19. ASSUME NEW x \in DOMAIN q, NEW y \in DOMAIN q, x # a, y # FFUuid,
              Adjacent(q, x, y)
       PROVE  Adjacent(p, x, y)
  <2>1. q[y].at <= n
    BY <1>19, InputAssumption DEF PqInv, Stamped
  <2> QED BY <2>1, <1>4, <1>7, <1>10, <1>12, <1>19 DEF Adjacent
<1>20. ASSUME NEW x \in DOMAIN p \ {FFUuid}
       PROVE  Adjacent(p, x, p[x].next)
  <2>1. CASE x \in {a, t}
    BY <2>1, <1>6, <1>10, <1>12, <1>17, <1>18
  <2>2. CASE x \notin {a, t}
    <3>1. x \in DOMAIN q /\ Adjacent(q, x, q[x].next) /\ p[x].next = q[x].next
      BY <2>2, <1>7, <1>12 DEF PqInv, FifoQueue
    <3>2. q[x].next \in DOMAIN q /\ q[x].next # FFUuid
      BY <2>2, <3>1 DEF Adjacent
    <3> QED BY <2>2, <3>1, <3>2, <1>19
  <2> QED BY <2>1, <2>2
<1>21. ASSUME NEW y \in DOMAIN p \ {ZeroUuid}
       PROVE  Adjacent(p, p[y].prev, y)
  <2>1. CASE y \in {FFUuid, t}
    BY <2>1, <1>10, <1>12, <1>17, <1>18
  <2>2. CASE y \notin {FFUuid, t}
    <3>1. y \in DOMAIN q /\ Adjacent(q, q[y].prev, y) /\ p[y].prev = q[y].prev
      BY <2>2, <1>7, <1>12 DEF PqInv, FifoQueue
    <3>2. q[y].prev \in DOMAIN q /\ q[y].prev # a
      BY <2>2, <3>1, <1>5 DEF Adjacent
    <3> QED BY <2>2, <3>1, <3>2, <1>19
  <2> QED BY <2>1, <2>2
<1>22. FifoQueue(p)
  BY <1>7, <1>20, <1>21 DEF PqInv, FifoQueue
<1> QED BY <1>13, <1>14, <1>22 DEF PqInv, p

\* Submission of a new transaction keeps the queue, empty or not.
LEMMA SubmitKeepsPq ==
    ASSUME NEW q, NEW r \in Request, NEW n \in Nat, PqInv(q, n),
           n < MaxSubmits, SubmitStatus(q, r) = "SUCCESS"
    PROVE  PqInv(PqSubmit(q, r, n + 1), n + 1)
<1>1. r.id \notin DOMAIN q
  BY DEF SubmitStatus
<1> QED BY <1>1, FirstSubmitKeepsPq, LaterSubmitKeepsPq

\* The stamps of a queue stay within a larger number of arrivals.
LEMMA PqInvMonotone ==
    ASSUME NEW q, NEW n \in Nat, PqInv(q, n)
    PROVE  PqInv(q, n + 1)
BY DEF PqInv, Stamped
-----------------------------------------------------------------------------
(* Types of the operations on the block chain.                              *)

TableOf(f, K, S) == f \in [DOMAIN f -> S] /\ DOMAIN f \subseteq K

\* Writing a typed value under a typed key keeps the type of a table.
LEMMA PutType ==
    ASSUME NEW f, NEW K, NEW S, TableOf(f, K, S), NEW k \in K, NEW v \in S
    PROVE  TableOf(Put(f, k, v), K, S)
BY DEF Put, TableOf

\* The type of a database is the type of each of its tables.
LEMMA DbTypeTables ==
    ASSUME NEW d
    PROVE  DbType(d) <=>
             /\ DOMAIN d = {"pq", "block", "height", "txn", "artifact"}
             /\ TableOf(d.pq, TxnKey, PqNode)
             /\ TableOf(d.block, BlockKey, BlockNodes)
             /\ TableOf(d.height, Nat, BlockId)
             /\ TableOf(d.txn, TxnId, TxnNode)
             /\ TableOf(d.artifact, ArtifactId, ArtifactRecord)
BY DEF DbType, PqType, TableOf

\* What the constraint checks of block_make establish about a block id.
LEMMA SaneBlock ==
    ASSUME NEW d, NEW b \in BlockReqs, BeginStatus(d, b) = "SUCCESS"
    PROVE  /\ b \in BlockReq
           /\ b.id \in BlockId
           /\ b.height = ExpectedHeight(d)
           /\ b.prev = LatestBlockId(d)
           /\ Len(b.txns) \in Nat /\ Len(b.txns) > 0
           /\ b.txns[1] \in Cert
           /\ CanInsertBlock(d, b)
           /\ HasChain(d) => d.block[FFUuid].prev \in DOMAIN d.block
<1>1. b \in BlockReq
  BY InputAssumption
<1>2. /\ ConstraintMatchingHeight(d, b)
      /\ ConstraintMatchingPrevUuid(d, b)
      /\ ConstraintSaneBlockUuid(b)
      /\ HasFirstTransaction(b)
      /\ CanInsertBlock(d, b)
      /\ HasChain(d) => d.block[FFUuid].prev \in DOMAIN d.block
  BY DEF BeginStatus
<1>3. b.id \in BlockId
  BY <1>1, <1>2 DEF BlockReq, AnyBlockId, ConstraintSaneBlockUuid
<1>4. b.txns \in Seq(Cert \cup {BadCert}) /\ Len(b.txns) \in Nat /\ Len(b.txns) > 0
  BY <1>1, <1>2 DEF BlockReq, HasFirstTransaction
<1>5. b.txns[1] \in Cert
  BY <1>2, <1>4 DEF HasFirstTransaction
<1> QED BY <1>1, <1>2, <1>3, <1>4, <1>5
    DEF ConstraintMatchingHeight, ConstraintMatchingPrevUuid, LatestBlockId

\* What LinkBlock does, table by table and key by key.
LEMMA LinkBlockFacts ==
    ASSUME NEW d, DbType(d), NEW b \in BlockReqs, BeginStatus(d, b) = "SUCCESS"
    PROVE  LET l == LinkBlock(d, b)
               z == d.block[FFUuid].prev IN
           /\ l.pq = d.pq /\ l.txn = d.txn /\ l.artifact = d.artifact
           /\ l.height = Put(d.height, b.height, b.id)
           /\ DOMAIN l = DOMAIN d
           /\ ~HasChain(d) => l.block =
                BlockCreateQueue(Put(d.block, b.id, BlockNode(b)), b.id, b.height)
           /\ HasChain(d) => l.block =
                BlockUpdateEnd(
                    BlockUpdatePrev(Put(d.block, b.id, BlockNode(b)), b.id, z),
                    b.id, b.height, d.block[FFUuid])
<1> DEFINE ins == Put(d.block, b.id, BlockNode(b))
           hgt == Put(d.height, b.height, b.id)
           i == InsertBlock(d, b)
<1>1. DOMAIN d = {"pq", "block", "height", "txn", "artifact"}
  BY DEF DbType
<1> HIDE DEF ins, hgt
<1>2. /\ DOMAIN i = DOMAIN d
      /\ i.pq = d.pq /\ i.txn = d.txn /\ i.artifact = d.artifact
      /\ i.block = ins /\ i.height = hgt
  BY <1>1 DEF InsertBlock, ins, hgt
<1> HIDE DEF i
<1>3. LinkBlock(d, b) =
        [i EXCEPT !.block =
            IF ~HasChain(d)
            THEN BlockCreateQueue(ins, b.id, b.height)
            ELSE BlockUpdateEnd(
                     BlockUpdatePrev(ins, b.id, d.block[FFUuid].prev),
                     b.id, b.height, d.block[FFUuid])]
  BY <1>2 DEF LinkBlock, i
<1> QED BY <1>1, <1>2, <1>3 DEF ins, hgt

\* Linking a block keeps every table well typed.
LEMMA LinkBlockType ==
    ASSUME NEW d, DbType(d), NEW b \in BlockReqs, BeginStatus(d, b) = "SUCCESS"
    PROVE  DbType(LinkBlock(d, b))
<1> DEFINE l == LinkBlock(d, b)
           ins == Put(d.block, b.id, BlockNode(b))
           z == d.block[FFUuid].prev
<1>1. b \in BlockReq /\ b.id \in BlockId /\ b.txns[1] \in Cert
  BY SaneBlock
<1>2. /\ TableOf(d.block, BlockKey, BlockNodes)
      /\ TableOf(d.height, Nat, BlockId)
  BY DbTypeTables
<1>3. BlockNode(b) \in BlockNodes
  BY <1>1 DEF BlockNode, BlockNodes, BlockReq, BlockKey, Cert
<1>4. b.id \in BlockKey /\ ZeroUuid \in BlockKey /\ FFUuid \in BlockKey
  BY <1>1 DEF BlockKey
<1>5. TableOf(ins, BlockKey, BlockNodes)
  BY <1>2, <1>3, <1>4, PutType
<1>6. TableOf(Put(d.height, b.height, b.id), Nat, BlockId)
  BY <1>1, <1>2, PutType DEF BlockReq
<1>7. CASE ~HasChain(d)
  <2> DEFINE s == BlockSentinel(ZeroUuid, b.id, 0)
             e == BlockSentinel(b.id, FFUuid, b.height)
  <2>1. s \in BlockNodes /\ e \in BlockNodes
    BY <1>1, <1>4 DEF BlockSentinel, BlockNodes, BlockReq, AnyBlockId, BlockKey
  <2>2. TableOf(Put(ins, ZeroUuid, s), BlockKey, BlockNodes)
    BY <2>1, <1>4, <1>5, PutType
  <2>3. TableOf(Put(Put(ins, ZeroUuid, s), FFUuid, e), BlockKey, BlockNodes)
    BY <2>1, <2>2, <1>4, PutType
  <2>4. TableOf(l.block, BlockKey, BlockNodes)
    BY <2>3, <1>7, LinkBlockFacts DEF BlockCreateQueue
  <2> QED BY <2>4, <1>6, LinkBlockFacts, DbTypeTables
<1>8. CASE HasChain(d)
  <2> DEFINE p == [ins[z] EXCEPT !.next = b.id]
             e == [d.block[FFUuid] EXCEPT !.prev = b.id, !.height = b.height]
  <2>1. z \in DOMAIN ins /\ z \in BlockKey
    BY <1>2, <1>8, SaneBlock DEF Put, TableOf
  <2>2. ins[z] \in BlockNodes /\ d.block[FFUuid] \in BlockNodes
    BY <2>1, <1>2, <1>5, <1>8 DEF TableOf, HasChain
  <2>3. p \in BlockNodes /\ e \in BlockNodes
    BY <2>2, <1>1, <1>4 DEF BlockNodes, BlockReq, AnyBlockId
  <2>4. TableOf(Put(ins, z, p), BlockKey, BlockNodes)
    BY <2>1, <2>3, <1>5, PutType
  <2>5. TableOf(Put(Put(ins, z, p), FFUuid, e), BlockKey, BlockNodes)
    BY <2>3, <2>4, <1>4, PutType
  <2>6. TableOf(l.block, BlockKey, BlockNodes)
    BY <2>5, <1>8, LinkBlockFacts DEF BlockUpdateEnd, BlockUpdatePrev
  <2> QED BY <2>6, <1>6, LinkBlockFacts, DbTypeTables
<1> QED BY <1>7, <1>8

\* Canonizing a transaction touches neither blocks nor heights.
LEMMA ProcessChildFacts ==
    ASSUME NEW d, DbType(d), NEW b, NEW c
    PROVE  LET e == ProcessChild(d, b, c)
               put == Put(d.txn, c.id, TxnRecord(b, c)) IN
           /\ DOMAIN e = DOMAIN d
           /\ e.block = d.block /\ e.height = d.height
           /\ e.pq = PqDrop(d.pq, c.id)
           /\ e.artifact = UpdateArtifact(d.artifact, b, c)
           /\ e.txn = IF c.prev = ZeroUuid THEN put
                      ELSE UpdatePrevTxn(put, c.prev, c.id)
<1>1. DOMAIN d = {"pq", "block", "height", "txn", "artifact"}
  BY DEF DbType
<1> QED BY <1>1 DEF ProcessChild

\* A transaction that is accepted is a queued one with its own key.
LEMMA ChildAccepted ==
    ASSUME NEW d, NEW c, ChildStatus(d, c) = "SUCCESS",
           c \in Cert \cup {BadCert}
    PROVE  /\ c \in Cert
           /\ c.id \notin DOMAIN d.txn
           /\ DropStatus(d.pq, c.id) = "SUCCESS"
           /\ c.prev \in DOMAIN d.txn \cup {ZeroUuid, c.id}
<1>1. c \in Cert /\ c # BadCert
  BY SentinelAssumption DEF ChildStatus
<1> QED BY <1>1 DEF ChildStatus

\* Canonizing a transaction keeps every table well typed.
LEMMA ProcessChildType ==
    ASSUME NEW d, DbType(d), NEW n \in Nat, PqInv(d.pq, n),
           NEW b \in BlockReq, b.id \in BlockId,
           NEW c \in Cert \cup {BadCert}, ChildStatus(d, c) = "SUCCESS"
    PROVE  DbType(ProcessChild(d, b, c))
<1> DEFINE e == ProcessChild(d, b, c)
           put == Put(d.txn, c.id, TxnRecord(b, c))
<1>1. c \in Cert /\ c.prev \in DOMAIN d.txn \cup {ZeroUuid, c.id}
  BY ChildAccepted
<1>2. /\ c.id \in TxnId /\ c.prev \in TxnId \cup {ZeroUuid}
      /\ c.artifact \in ArtifactId /\ c.state \in ArtifactState
      /\ b.height \in Nat
  BY <1>1 DEF Cert, BlockReq
<1>3. TableOf(e.pq, TxnKey, PqNode)
  <2>1. PqInv(PqDrop(d.pq, c.id), n)
    BY ChildAccepted, DropKeepsPq
  <2> QED BY <2>1, ProcessChildFacts DEF PqInv, PqType, TableOf
<1>4. TableOf(put, TxnId, TxnNode)
  <2>1. TxnRecord(b, c) \in TxnNode
    BY <1>1, <1>2 DEF TxnRecord, TxnNode
  <2> QED BY <2>1, <1>2, DbTypeTables, PutType
<1>5. TableOf(e.txn, TxnId, TxnNode)
  <2>1. CASE c.prev = ZeroUuid
    BY <2>1, <1>4, ProcessChildFacts
  <2>2. CASE c.prev # ZeroUuid
    <3>1. c.prev \in DOMAIN put /\ c.prev \in TxnId
      BY <2>2, <1>1, <1>2 DEF Put
    <3>2. [put[c.prev] EXCEPT !.next = c.id] \in TxnNode
      BY <3>1, <1>2, <1>4 DEF TableOf, TxnNode
    <3>3. TableOf(UpdatePrevTxn(put, c.prev, c.id), TxnId, TxnNode)
      BY <3>1, <3>2, <1>4, PutType DEF UpdatePrevTxn
    <3> QED BY <3>3, <2>2, ProcessChildFacts
  <2> QED BY <2>1, <2>2
<1>6. TableOf(e.artifact, ArtifactId, ArtifactRecord)
  <2> DEFINE r == IF c.artifact \notin DOMAIN d.artifact
                  THEN [txn_first |-> c.id, txn_latest |-> c.id,
                        height_first |-> b.height, height_latest |-> b.height,
                        state_latest |-> c.state]
                  ELSE [d.artifact[c.artifact] EXCEPT
                            !.txn_latest = c.id, !.height_latest = b.height,
                            !.state_latest = c.state]
  <2>1. TableOf(d.artifact, ArtifactId, ArtifactRecord)
    BY DbTypeTables
  <2>2. r \in ArtifactRecord
    BY <2>1, <1>2 DEF TableOf, ArtifactRecord
  <2>3. e.artifact = Put(d.artifact, c.artifact, r)
    <3>1. e.artifact = UpdateArtifact(d.artifact, b, c)
      BY ProcessChildFacts
    <3> QED BY <3>1 DEF UpdateArtifact
  <2> HIDE DEF r
  <2> QED BY <2>1, <2>2, <2>3, <1>2, PutType
<1> HIDE DEF e
<1> QED BY <1>3, <1>5, <1>6, DbTypeTables, ProcessChildFacts DEF e
-----------------------------------------------------------------------------
(* The block chain and its height index.                                    *)

\* The first block on an empty database forms a chain of one.
LEMMA FirstBlockKeepsChain ==
    ASSUME NEW d, DbType(d), ChainIndexed(d), NEW b \in BlockReqs,
           BeginStatus(d, b) = "SUCCESS", ~HasChain(d)
    PROVE  ChainIndexed(LinkBlock(d, b))
<1> DEFINE l == LinkBlock(d, b)
<1>1. DOMAIN d.block = {} /\ DOMAIN d.height = {}
  BY DEF ChainIndexed
<1>2. b.height = 1 /\ b.prev = RootBlock /\ b.id \in BlockId
  BY SaneBlock DEF ExpectedHeight, LatestBlockId
<1>3. b.id # ZeroUuid /\ b.id # FFUuid /\ ZeroUuid # FFUuid
  BY <1>2, SentinelAssumption
<1>4. DOMAIN l.height = {1} /\ l.height[1] = b.id
  <2>1. l.height = Put(d.height, 1, b.id)
    BY <1>2, LinkBlockFacts
  <2> HIDE DEF l
  <2> QED BY <2>1, <1>1 DEF Put
<1>5. l.block = BlockCreateQueue(Put(d.block, b.id, BlockNode(b)), b.id, 1)
  BY <1>2, LinkBlockFacts
<1>6. /\ DOMAIN l.block = {b.id, ZeroUuid, FFUuid}
      /\ l.block[b.id] = BlockNode(b)
      /\ l.block[ZeroUuid] = BlockSentinel(ZeroUuid, b.id, 0)
      /\ l.block[FFUuid] = BlockSentinel(b.id, FFUuid, 1)
  BY <1>1, <1>3, <1>5 DEF BlockCreateQueue, Put
<1> HIDE DEF l
<1>7. /\ l.block[b.id].height = 1 /\ l.block[b.id].prev = RootBlock
      /\ l.block[b.id].next = FFUuid
  BY <1>2, <1>6 DEF BlockNode
<1>8. /\ l.block[ZeroUuid].next = b.id
      /\ l.block[FFUuid].prev = b.id /\ l.block[FFUuid].height = 1
  BY <1>6 DEF BlockSentinel
<1>9. ChainLinks(l)
  BY <1>4, <1>7, <1>8 DEF ChainLinks
<1>10. HasChain(l) /\ Blocks(l) = {b.id}
  BY <1>3, <1>6 DEF HasChain, Blocks
<1>11. DOMAIN l.height = 1 .. l.block[FFUuid].height
  BY <1>4, <1>8
<1>12. ChainIndexed(l)
  BY <1>4, <1>6, <1>7, <1>8, <1>9, <1>10, <1>11 DEF ChainIndexed
<1> QED BY <1>12 DEF l

\* A block on top of the last one extends the chain by one.
LEMMA LaterBlockKeepsChain ==
    ASSUME NEW d, DbType(d), ChainIndexed(d), NEW b \in BlockReqs,
           BeginStatus(d, b) = "SUCCESS", HasChain(d)
    PROVE  ChainIndexed(LinkBlock(d, b))
<1> DEFINE l == LinkBlock(d, b)
           top == d.block[FFUuid].height
           z == d.block[FFUuid].prev
<1>1. /\ d.block \in [DOMAIN d.block -> BlockNodes] /\ DOMAIN d.block \subseteq BlockKey
      /\ FFUuid \in DOMAIN d.block
  BY DEF DbType, HasChain
<1>2. top \in Nat /\ top >= 1 /\ DOMAIN d.height = 1 .. top /\ z = d.height[top]
  BY <1>1 DEF ChainIndexed, BlockNodes
<1>3. b.height = top + 1 /\ b.prev = z /\ b.id \in BlockId /\ b.id \notin DOMAIN d.block
  BY SaneBlock, <1>2 DEF ExpectedHeight, LatestBlockId, CanInsertBlock
<1>4. b.id # ZeroUuid /\ b.id # FFUuid /\ ZeroUuid # FFUuid
  BY <1>3, SentinelAssumption
<1>5. z \in Blocks(d) /\ z # b.id /\ z # FFUuid /\ z # ZeroUuid /\ z \in DOMAIN d.block
  <2>1. top \in DOMAIN d.height
    BY <1>2
  <2>2. z \in Blocks(d)
    BY <1>2, <2>1 DEF ChainIndexed
  <2> HIDE DEF z
  <2>3. z \in DOMAIN d.block /\ z # FFUuid /\ z # ZeroUuid
    BY <2>2 DEF Blocks
  <2> QED BY <2>2, <2>3, <1>3
<1>6. /\ DOMAIN l.height = 1 .. top + 1
      /\ l.height[top + 1] = b.id
      /\ \A h \in 1 .. top : l.height[h] = d.height[h]
  <2>1. l.height = Put(d.height, top + 1, b.id)
    BY <1>3, LinkBlockFacts
  <2> HIDE DEF l
  <2>2. DOMAIN l.height = (1 .. top) \cup {top + 1}
    BY <2>1, <1>2 DEF Put
  <2>3. (1 .. top) \cup {top + 1} = 1 .. top + 1
    BY <1>2
  <2>4. l.height[top + 1] = b.id /\ \A h \in 1 .. top : l.height[h] = d.height[h]
    BY <2>1, <1>2 DEF Put
  <2> QED BY <2>2, <2>3, <2>4
<1>7. l.block = BlockUpdateEnd(
                    BlockUpdatePrev(Put(d.block, b.id, BlockNode(b)), b.id, z),
                    b.id, top + 1, d.block[FFUuid])
  BY <1>3, LinkBlockFacts
<1>8. /\ DOMAIN l.block = DOMAIN d.block \cup {b.id}
      /\ l.block[b.id] = BlockNode(b)
      /\ l.block[z] = [d.block[z] EXCEPT !.next = b.id]
      /\ l.block[FFUuid] = [d.block[FFUuid] EXCEPT !.prev = b.id, !.height = top + 1]
      /\ \A x \in DOMAIN d.block \ {z, FFUuid} : l.block[x] = d.block[x]
  <2> DEFINE i == Put(d.block, b.id, BlockNode(b))
             u == BlockUpdatePrev(i, b.id, z)
  <2>1. /\ DOMAIN i = DOMAIN d.block \cup {b.id} /\ i[b.id] = BlockNode(b)
        /\ \A x \in DOMAIN d.block : i[x] = d.block[x]
    BY <1>3 DEF Put
  <2>2. l.block = BlockUpdateEnd(u, b.id, top + 1, d.block[FFUuid])
    BY <1>7
  <2> HIDE DEF i, l
  <2>3. /\ DOMAIN u = DOMAIN i
        /\ u[z] = [i[z] EXCEPT !.next = b.id]
        /\ \A x \in DOMAIN i \ {z} : u[x] = i[x]
    BY <2>1, <1>5 DEF BlockUpdatePrev, Put
  <2> HIDE DEF u
  <2>4. /\ DOMAIN l.block = DOMAIN u \cup {FFUuid}
        /\ l.block[FFUuid] = [d.block[FFUuid] EXCEPT !.prev = b.id, !.height = top + 1]
        /\ \A x \in DOMAIN u \ {FFUuid} : l.block[x] = u[x]
    BY <2>2 DEF BlockUpdateEnd, Put
  <2>5. DOMAIN l.block = DOMAIN d.block \cup {b.id}
    BY <2>1, <2>3, <2>4, <1>1
  <2>6. l.block[b.id] = BlockNode(b)
    BY <2>1, <2>3, <2>4, <1>4, <1>5
  <2>7. l.block[z] = [d.block[z] EXCEPT !.next = b.id]
    <3>1. z \in DOMAIN u \ {FFUuid} /\ i[z] = d.block[z]
      BY <2>1, <2>3, <1>5
    <3> QED BY <2>3, <2>4, <3>1
  <2>8. ASSUME NEW x \in DOMAIN d.block \ {z, FFUuid} PROVE l.block[x] = d.block[x]
    BY <2>1, <2>3, <2>4
  <2> QED BY <2>4, <2>5, <2>6, <2>7, <2>8
<1> HIDE DEF l
<1>9. /\ l.block[b.id].height = top + 1 /\ l.block[b.id].prev = z
      /\ l.block[b.id].next = FFUuid
  BY <1>3, <1>8 DEF BlockNode
<1>10. l.block[FFUuid].prev = b.id /\ l.block[FFUuid].height = top + 1
  BY <1>1, <1>8 DEF BlockNodes
<1>11. \A x \in Blocks(d) : /\ l.block[x].height = d.block[x].height
                            /\ l.block[x].prev = d.block[x].prev
                            /\ l.block[x].next = IF x = z THEN b.id ELSE d.block[x].next
  <2> SUFFICES ASSUME NEW x \in Blocks(d)
               PROVE  /\ l.block[x].height = d.block[x].height
                      /\ l.block[x].prev = d.block[x].prev
                      /\ l.block[x].next = IF x = z THEN b.id ELSE d.block[x].next
    OBVIOUS
  <2>1. x \in DOMAIN d.block /\ x # FFUuid /\ d.block[x] \in BlockNodes
    BY <1>1 DEF Blocks
  <2>2. CASE x = z
    <3>1. l.block[x] = [d.block[x] EXCEPT !.next = b.id]
      BY <1>8, <2>2
    <3> QED BY <2>1, <2>2, <3>1 DEF BlockNodes
  <2>3. CASE x # z
    <3>1. l.block[x] = d.block[x]
      BY <1>8, <2>1, <2>3
    <3> QED BY <2>3, <3>1
  <2> QED BY <2>2, <2>3
<1>12. HasChain(l) /\ Blocks(l) = Blocks(d) \cup {b.id}
  BY <1>1, <1>4, <1>8 DEF HasChain, Blocks
<1>13. \A h \in 1 .. top : d.height[h] \in Blocks(d) /\ d.block[d.height[h]].height = h
  BY <1>2 DEF ChainIndexed, ChainLinks
<1>14. \A h \in 1 .. top : d.height[h] = z <=> h = top
  BY <1>2, <1>13
<1>15. ChainLinks(l)
  <2> SUFFICES ASSUME NEW h \in 1 .. top + 1
               PROVE  LET node == l.block[l.height[h]] IN
                      /\ node.height = h
                      /\ node.prev = IF h = 1 THEN RootBlock ELSE l.height[h - 1]
                      /\ node.next = IF h = top + 1 THEN FFUuid ELSE l.height[h + 1]
    BY <1>6, <1>10 DEF ChainLinks
  <2>1. CASE h = top + 1
    <3>1. h # 1 /\ h - 1 = top /\ top \in 1 .. top
      BY <2>1, <1>2
    <3>2. l.height[h] = b.id /\ l.height[h - 1] = z
      BY <2>1, <3>1, <1>2, <1>6
    <3> QED BY <2>1, <3>1, <3>2, <1>9
  <2>2. CASE h \in 1 .. top
    <3>1. LET node == d.block[d.height[h]] IN
            /\ node.height = h
            /\ node.prev = IF h = 1 THEN RootBlock ELSE d.height[h - 1]
            /\ node.next = IF h = top THEN FFUuid ELSE d.height[h + 1]
      BY <2>2, <1>2 DEF ChainIndexed, ChainLinks
    <3>2. l.height[h] = d.height[h] /\ (h # 1 => l.height[h - 1] = d.height[h - 1])
      <4>1. h # 1 => h - 1 \in 1 .. top
        BY <2>2, <1>2
      <4> QED BY <2>2, <4>1, <1>6
    <3>3. l.height[h + 1] = IF h = top THEN b.id ELSE d.height[h + 1]
      BY <2>2, <1>2, <1>6
    <3>4. LET node == l.block[d.height[h]] IN
            /\ node.height = h
            /\ node.prev = IF h = 1 THEN RootBlock ELSE d.height[h - 1]
            /\ node.next = IF h = top THEN b.id ELSE d.height[h + 1]
      BY <2>2, <3>1, <1>11, <1>13, <1>14
    <3>5. h # top + 1
      BY <2>2, <1>2
    <3> QED BY <3>2, <3>3, <3>4, <3>5
  <2> QED BY <2>1, <2>2, <1>2
<1>16. \A h \in DOMAIN l.height : l.height[h] \in Blocks(l)
  <2>1. \A h \in 1 .. top + 1 : h \in 1 .. top \/ h = top + 1
    BY <1>2
  <2> QED BY <2>1, <1>6, <1>12, <1>13
<1>17. \A x \in Blocks(l) : /\ l.block[x].height \in DOMAIN l.height
                            /\ l.height[l.block[x].height] = x
  <2> TAKE x \in Blocks(l)
  <2>1. CASE x = b.id
    BY <2>1, <1>2, <1>6, <1>9
  <2>2. CASE x # b.id
    <3>1. x \in Blocks(d) /\ d.block[x].height \in 1 .. top
            /\ d.height[d.block[x].height] = x
      BY <2>2, <1>2, <1>12 DEF ChainIndexed
    <3>2. l.block[x].height = d.block[x].height
      BY <3>1, <1>11
    <3>3. d.block[x].height \in 1 .. top + 1
      BY <3>1, <1>2
    <3>4. l.height[d.block[x].height] = d.height[d.block[x].height]
      BY <3>1, <1>6
    <3> QED BY <3>1, <3>2, <3>3, <3>4, <1>6
  <2> QED BY <2>1, <2>2
<1>18. ZeroUuid \in DOMAIN l.block /\ l.block[ZeroUuid].next = l.height[1]
  <2>1. ZeroUuid \in DOMAIN d.block /\ d.block[ZeroUuid].next = d.height[1]
    BY DEF ChainIndexed
  <2>2. l.block[ZeroUuid] = d.block[ZeroUuid]
    BY <2>1, <1>4, <1>5, <1>8
  <2>3. l.height[1] = d.height[1]
    BY <1>2, <1>6
  <2> QED BY <2>1, <2>2, <2>3, <1>8
<1>19. l.block[FFUuid].prev = l.height[l.block[FFUuid].height]
  BY <1>6, <1>10
<1>20. l.block[FFUuid].height >= 1 /\ DOMAIN l.height = 1 .. l.block[FFUuid].height
  BY <1>2, <1>6, <1>10
<1> QED BY <1>12, <1>15, <1>16, <1>17, <1>18, <1>19, <1>20 DEF ChainIndexed, l

\* Linking a block keeps the chain and its height index in step.
LEMMA LinkBlockKeepsChain ==
    ASSUME NEW d, DbType(d), ChainIndexed(d), NEW b \in BlockReqs,
           BeginStatus(d, b) = "SUCCESS"
    PROVE  ChainIndexed(LinkBlock(d, b))
BY FirstBlockKeepsChain, LaterBlockKeepsChain

\* ChainIndexed only looks at the blocks and the height index.
LEMMA ChainDependsOn ==
    ASSUME NEW d, NEW e, e.block = d.block, e.height = d.height, ChainIndexed(d)
    PROVE  ChainIndexed(e)
<1>1. Blocks(e) = Blocks(d) /\ (HasChain(e) <=> HasChain(d))
  BY DEF HasChain, Blocks
<1>2. ChainLinks(e) <=> ChainLinks(d)
  BY DEF ChainLinks
<1>3. CASE HasChain(d)
  BY <1>1, <1>2, <1>3 DEF ChainIndexed
<1>4. CASE ~HasChain(d)
  BY <1>1, <1>4 DEF ChainIndexed
<1> QED BY <1>3, <1>4

-----------------------------------------------------------------------------
(* The inductive invariant of the data store.                               *)

DbInv(d, n) == DbType(d) /\ PqInv(d.pq, n) /\ ChainIndexed(d)

\* QueueIsFifo is not inductive by itself: a drop needs unique stamps, and a
\* block commits what it did to its private copy.  So the copy satisfies the
\* same invariant, and it is the database itself while no block is made.
IndInv ==
    /\ TypeOK
    /\ DbInv(db, arrivals)
    /\ DbInv(work, arrivals)
    /\ making.open => making.block.id \in BlockId
    /\ ~making.open => work = db

\* The empty database satisfies the invariant.
LEMMA EmptyDbInv == DbInv(EmptyDb, 0)
<1> DEFINE d == EmptyDb
<1>1. /\ DOMAIN d = {"pq", "block", "height", "txn", "artifact"}
      /\ d.pq = NoEntries /\ d.block = NoEntries /\ d.height = NoEntries
      /\ d.txn = NoEntries /\ d.artifact = NoEntries
  BY DEF EmptyDb
<1>2. DOMAIN NoEntries = {} /\ \A S : NoEntries \in [DOMAIN NoEntries -> S]
  BY DEF NoEntries
<1> HIDE DEF d
<1>3. DbType(d)
  BY <1>1, <1>2 DEF DbType, PqType
<1>4. PqInv(d.pq, 0)
  BY <1>1, <1>2 DEF PqInv, PqType, FifoQueue, Stamped
<1>5. ChainIndexed(d)
  BY <1>1, <1>2 DEF ChainIndexed, HasChain
<1> QED BY <1>3, <1>4, <1>5 DEF DbInv, d

\* Replacing the process queue of a database.
LEMMA NewPqInv ==
    ASSUME NEW d, NEW n \in Nat, NEW m \in Nat, DbInv(d, n), NEW q, PqInv(q, m)
    PROVE  DbInv([d EXCEPT !.pq = q], m)
<1> DEFINE e == [d EXCEPT !.pq = q]
<1>1. DOMAIN d = {"pq", "block", "height", "txn", "artifact"}
  BY DEF DbInv, DbType
<1>2. /\ DOMAIN e = DOMAIN d
      /\ e.pq = q /\ e.block = d.block /\ e.height = d.height
      /\ e.txn = d.txn /\ e.artifact = d.artifact
  BY <1>1
<1> HIDE DEF e
<1>3. DbType(e)
  BY <1>2 DEF DbInv, DbType, PqInv
<1>4. ChainIndexed(e)
  BY <1>2, ChainDependsOn DEF DbInv
<1> QED BY <1>2, <1>3, <1>4 DEF DbInv, e

\* The initial state satisfies the invariant.
LEMMA InitInv == Init => IndInv
<1> SUFFICES ASSUME Init PROVE IndInv
  OBVIOUS
<1> USE DEF Init
<1>1. DbInv(db, arrivals) /\ DbInv(work, arrivals)
  BY EmptyDbInv
<1>2. making.open = FALSE /\ making.block = NoBlock /\ making.done = 0
  BY DEF NotMaking
<1>3. MakingType
  <2>1. Len(NoBlock.txns) = 0
    BY DEF NoBlock
  <2>2. making \in [open : BOOLEAN, block : BlockReqs \cup {NoBlock}, done : Nat]
    BY DEF NotMaking
  <2> QED BY <2>1, <2>2, <1>2 DEF MakingType
<1>4. reply \in [op : {"none", "submit", "drop", "promote", "block_make"},
                 id : TxnKey \cup AnyBlockId, status : Statuses]
  BY DEF NoReply, Answer, TxnKey, Statuses
<1>5. arrivals \in 0 .. MaxSubmits
  BY InputAssumption
<1>6. TypeOK
  BY <1>1, <1>3, <1>4, <1>5 DEF TypeOK, DbInv
<1> QED BY <1>1, <1>2, <1>6 DEF IndInv

\* The end of a small writer: the database is the old one or has the new queue.
LEMMA EndPqWriteInv ==
    ASSUME IndInv, ~making.open, NEW op \in {"submit", "drop", "promote"},
           NEW id \in TxnKey, NEW status \in Statuses, NEW q,
           EndPqWrite(op, id, status, q),
           arrivals' \in Nat, arrivals' = arrivals \/ arrivals' = arrivals + 1,
           arrivals' <= MaxSubmits,
           status = "SUCCESS" => PqInv(q, arrivals')
    PROVE  IndInv'
<1>1. arrivals \in Nat /\ DbInv(db, arrivals)
  BY InputAssumption DEF IndInv, TypeOK
<1>2. DbInv(db, arrivals')
  BY <1>1, PqInvMonotone DEF DbInv
<1>3. DbInv(db', arrivals')
  <2>1. CASE db' = db
    BY <2>1, <1>2
  <2>2. CASE db' # db
    <3>1. status = "SUCCESS" /\ db' = [db EXCEPT !.pq = q]
      BY <2>2 DEF EndPqWrite, CommitOutcomes
    <3> QED BY <3>1, <1>1, NewPqInv
  <2> QED BY <2>1, <2>2
<1>4. work' = db' /\ making' = making
  BY DEF EndPqWrite
<1>5. MakingType'
  BY <1>4 DEF IndInv, TypeOK, MakingType
<1>6. reply' \in [op : {"none", "submit", "drop", "promote", "block_make"},
                  id : TxnKey \cup AnyBlockId, status : Statuses]
  BY DEF EndPqWrite, Answer
<1>7. arrivals' \in 0 .. MaxSubmits
  BY InputAssumption
<1>8. TypeOK'
  BY <1>3, <1>4, <1>5, <1>6, <1>7 DEF TypeOK, DbInv
<1> QED BY <1>3, <1>4, <1>8 DEF IndInv

\* Every step of every writer preserves the invariant.
LEMMA StepInv == IndInv /\ [Next]_vars => IndInv'
<1> SUFFICES ASSUME IndInv, [Next]_vars PROVE IndInv'
  OBVIOUS
<1>1. /\ TypeOK /\ MakingType /\ DbInv(db, arrivals) /\ DbInv(work, arrivals)
      /\ arrivals \in Nat /\ arrivals <= MaxSubmits
  BY InputAssumption DEF IndInv, TypeOK
<1>2. ASSUME NEW r \in Requests, Submit(r) PROVE IndInv'
  <2>1. r \in Request /\ r.id \in TxnKey
    BY InputAssumption DEF Request, TxnKey
  <2>2. SubmitStatus(db.pq, r) \in Statuses
    BY DEF SubmitStatus, Statuses
  <2>3. SubmitStatus(db.pq, r) = "SUCCESS" =>
          PqInv(PqSubmit(db.pq, r, arrivals + 1), arrivals + 1)
    BY <1>1, <1>2, <2>1, SubmitKeepsPq DEF Submit, DbInv
  <2>4. /\ ~making.open
        /\ EndPqWrite("submit", r.id, SubmitStatus(db.pq, r),
                      PqSubmit(db.pq, r, arrivals + 1))
        /\ arrivals' = IF SubmitStatus(db.pq, r) = "SUCCESS"
                       THEN arrivals + 1 ELSE arrivals
        /\ arrivals < MaxSubmits
    BY <1>2 DEF Submit
  <2>5. arrivals' \in Nat /\ arrivals' <= MaxSubmits
    BY <1>1, <2>4, InputAssumption
  <2> QED BY <2>1, <2>2, <2>3, <2>4, <2>5, EndPqWriteInv
<1>3. ASSUME NEW t \in TxnKey, Drop(t) PROVE IndInv'
  <2>1. DropStatus(db.pq, t) \in Statuses
    BY DEF DropStatus, Statuses
  <2>2. DropStatus(db.pq, t) = "SUCCESS" => PqInv(PqDrop(db.pq, t), arrivals)
    BY <1>1, DropKeepsPq DEF DbInv
  <2>3. /\ ~making.open /\ arrivals' = arrivals
        /\ EndPqWrite("drop", t, DropStatus(db.pq, t), PqDrop(db.pq, t))
    BY <1>3 DEF Drop
  <2> QED BY <1>1, <2>1, <2>2, <2>3, EndPqWriteInv
<1>4. ASSUME NEW t \in TxnKey, Promote(t) PROVE IndInv'
  <2>1. PromoteStatus(db.pq, t) \in Statuses
    BY DEF PromoteStatus, Statuses
  <2>2. PromoteStatus(db.pq, t) = "SUCCESS" => PqInv(PqPromote(db.pq, t), arrivals)
    BY <1>1, PromoteKeepsPq DEF DbInv
  <2>3. /\ ~making.open /\ arrivals' = arrivals
        /\ EndPqWrite("promote", t, PromoteStatus(db.pq, t), PqPromote(db.pq, t))
    BY <1>4 DEF Promote
  <2> QED BY <1>1, <2>1, <2>2, <2>3, EndPqWriteInv
<1>5. ASSUME NEW b \in BlockReqs, BlockBegin(b) PROVE IndInv'
  <2>1. /\ BeginStatus(db, b) = "SUCCESS" /\ work' = LinkBlock(db, b)
        /\ db' = db /\ arrivals' = arrivals /\ reply' = NoReply
        /\ making' = [open |-> TRUE, block |-> b, done |-> 0]
    BY <1>5 DEF BlockBegin
  <2>2. b.id \in BlockId /\ Len(b.txns) \in Nat
    BY <2>1, SaneBlock
  <2>3. DbInv(work', arrivals)
    <3>1. work'.pq = db.pq
      BY <2>1, <1>1, LinkBlockFacts DEF DbInv
    <3> QED BY <3>1, <2>1, <1>1, LinkBlockType, LinkBlockKeepsChain DEF DbInv
  <2>4. MakingType'
    BY <2>1, <2>2 DEF MakingType
  <2>5. reply' \in [op : {"none", "submit", "drop", "promote", "block_make"},
                    id : TxnKey \cup AnyBlockId, status : Statuses]
    BY <2>1 DEF NoReply, Answer, TxnKey, Statuses
  <2>6. TypeOK'
    BY <1>1, <2>1, <2>3, <2>4, <2>5 DEF TypeOK, DbInv
  <2> QED BY <1>1, <2>1, <2>2, <2>3, <2>6 DEF IndInv
<1>6. ASSUME NEW b \in BlockReqs, BlockReject(b) PROVE IndInv'
  <2>1. UNCHANGED <<db, work, making, arrivals>>
    BY <1>6 DEF BlockReject
  <2>2. BeginStatus(db, b) \in Statuses
    BY DEF BeginStatus, Statuses
  <2>3. b.id \in AnyBlockId
    BY InputAssumption DEF BlockReq
  <2>4. reply' \in [op : {"none", "submit", "drop", "promote", "block_make"},
                    id : TxnKey \cup AnyBlockId, status : Statuses]
    BY <1>6, <2>2, <2>3 DEF BlockReject, Answer
  <2>5. MakingType'
    BY <1>1, <2>1 DEF MakingType
  <2> QED BY <1>1, <2>1, <2>4, <2>5 DEF IndInv, TypeOK, DbInv
<1>7. CASE BlockChild
  <2> DEFINE b == making.block
  <2>1. /\ making.open /\ making.done < Len(b.txns)
        /\ ChildStatus(work, NextChild) = "SUCCESS"
        /\ work' = ProcessChild(work, b, NextChild)
        /\ making' = [making EXCEPT !.done = @ + 1]
        /\ db' = db /\ arrivals' = arrivals /\ reply' = reply
    BY <1>7 DEF BlockChild
  <2>2. b \in BlockReqs /\ b \in BlockReq /\ b.id \in BlockId
    BY <1>1, <2>1, InputAssumption DEF MakingType, IndInv
  <2>3. making.done \in Nat /\ Len(b.txns) \in Nat
    BY <1>1, <2>2 DEF MakingType, BlockReq
  <2>4. NextChild \in Cert \cup {BadCert}
    BY <2>1, <2>2, <2>3 DEF NextChild, BlockReq
  <2>5. DbInv(work', arrivals)
    <3>1. DbType(work')
      BY <1>1, <2>1, <2>2, <2>4, ProcessChildType DEF DbInv
    <3>2. PqInv(work'.pq, arrivals)
      <4>1. work'.pq = PqDrop(work.pq, NextChild.id)
        BY <1>1, <2>1, ProcessChildFacts DEF DbInv
      <4>2. DropStatus(work.pq, NextChild.id) = "SUCCESS"
        BY <2>1, <2>4, ChildAccepted
      <4>3. PqInv(work.pq, arrivals)
        BY <1>1 DEF DbInv
      <4>4. PqInv(PqDrop(work.pq, NextChild.id), arrivals)
        BY <4>2, <4>3, <1>1, DropKeepsPq
      <4> QED BY <4>1, <4>4
    <3>3. ChainIndexed(work')
      BY <1>1, <2>1, ProcessChildFacts, ChainDependsOn DEF DbInv
    <3> QED BY <3>1, <3>2, <3>3 DEF DbInv
  <2>6. /\ making' \in [open : BOOLEAN, block : BlockReqs \cup {NoBlock}, done : Nat]
        /\ making'.open /\ making'.block = b /\ making'.done = making.done + 1
    BY <1>1, <2>1, <2>3 DEF MakingType
  <2>7. MakingType'
    BY <2>1, <2>2, <2>3, <2>6 DEF MakingType
  <2>8. TypeOK'
    BY <1>1, <2>1, <2>5, <2>7 DEF TypeOK, DbInv
  <2> QED BY <1>1, <2>1, <2>2, <2>5, <2>6, <2>8 DEF IndInv
<1>8. ASSUME NEW status \in Statuses, making.open, BlockAbort(status) PROVE IndInv'
  <2>1. /\ work' = db /\ making' = NotMaking /\ db' = db /\ arrivals' = arrivals
        /\ reply' = Answer("block_make", making.block.id, status)
    BY <1>8 DEF BlockAbort
  <2>2. making.block.id \in AnyBlockId
    BY <1>8 DEF IndInv, AnyBlockId
  <2>3. reply' \in [op : {"none", "submit", "drop", "promote", "block_make"},
                    id : TxnKey \cup AnyBlockId, status : Statuses]
    BY <2>1, <2>2 DEF Answer
  <2>4. MakingType' /\ ~making'.open
    BY <2>1 DEF MakingType, NotMaking, NoBlock
  <2>5. TypeOK'
    BY <1>1, <2>1, <2>3, <2>4 DEF TypeOK, DbInv
  <2> QED BY <1>1, <2>1, <2>4, <2>5 DEF IndInv
<1>9. CASE BlockChildFails
  <2>1. ChildStatus(work, NextChild) \in Statuses
    BY DEF ChildStatus, DropStatus, Statuses
  <2> QED BY <1>8, <1>9, <2>1 DEF BlockChildFails
<1>10. CASE BlockFault
  BY <1>8, <1>10 DEF BlockFault, Statuses
<1>11. CASE BlockCommit
  <2>1. /\ making.open /\ (db' = work \/ db' = db) /\ work' = db'
        /\ making' = NotMaking /\ arrivals' = arrivals
        /\ reply' = Answer("block_make", making.block.id, "SUCCESS")
    BY <1>11 DEF BlockCommit, CommitOutcomes
  <2>2. DbInv(db', arrivals)
    BY <1>1, <2>1
  <2>3. making.block.id \in AnyBlockId
    BY <2>1 DEF IndInv, AnyBlockId
  <2>4. reply' \in [op : {"none", "submit", "drop", "promote", "block_make"},
                    id : TxnKey \cup AnyBlockId, status : Statuses]
    BY <2>1, <2>3 DEF Answer, Statuses
  <2>5. MakingType' /\ ~making'.open
    BY <2>1 DEF MakingType, NotMaking, NoBlock
  <2>6. TypeOK'
    BY <1>1, <2>1, <2>2, <2>4, <2>5 DEF TypeOK, DbInv
  <2> QED BY <2>1, <2>2, <2>5, <2>6 DEF IndInv
<1>12. CASE UNCHANGED vars
  <2>1. UNCHANGED <<db, work, making, arrivals, reply>>
    BY <1>12 DEF vars
  <2> QED BY <2>1 DEF IndInv, TypeOK, MakingType
<1> QED BY <1>2, <1>3, <1>4, <1>5, <1>6, <1>7, <1>9, <1>10, <1>11, <1>12 DEF Next

\* The inductive invariant holds in every reachable state.
THEOREM Invariant == Spec => []IndInv
BY InitInv, StepInv, PTL DEF Spec

\* Type correctness of the database, for any ids, requests and blocks.
THEOREM TypeCorrect == Spec => []TypeOK
<1>1. IndInv => TypeOK
  BY DEF IndInv
<1> QED BY <1>1, Invariant, PTL

\* The process queue is always a complete doubly linked list in the order of
\* arrival, however submissions, drops, promotions and blocks interleave and
\* fail (dataservice_transaction_submit, _drop_internal, dataservice_block_make).
THEOREM QueueCorrect == Spec => []QueueIsFifo
<1>1. IndInv => QueueIsFifo
  BY DEF IndInv, DbInv, PqInv, QueueIsFifo
<1> QED BY <1>1, Invariant, PTL

\* The block chain is always unbroken and the height index describes it
\* (dataservice_block_make, dataservice_make_block_insert_block).
THEOREM ChainCorrect == Spec => []ChainMatchesHeights
<1>1. IndInv => ChainMatchesHeights
  BY DEF IndInv, DbInv, ChainMatchesHeights
<1> QED BY <1>1, Invariant, PTL
==============================================================================
