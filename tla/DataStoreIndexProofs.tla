------------------------ MODULE DataStoreIndexProofs ------------------------
(* Proofs about the two indexes that block_make derives in DataStore: the    *)
(* transaction index and the artifact index describe the chain at every       *)
(* commit, for any sets of ids, requests and blocks.                          *)
EXTENDS DataStoreProofs

-----------------------------------------------------------------------------
(* The transaction index and the artifact index.                            *)

\* What both indexes say of the chain, except of the block x, which is being made.
IndexedBut(d, x) ==
    /\ TxnsBelongToBlocks(d)
    /\ \A y \in Blocks(d) \ {x} : BlockIsWhole(d, y)
    /\ ArtifactBrackets(d)
    /\ TxnHistory(d)

\* The copy of a block_make that has canonized the first k transactions of b.
PartlyIndexed(d, b, k) ==
    /\ IndexedBut(d, b.id)
    /\ b.id \in Blocks(d)
    /\ d.block[b.id].first = b.txns[1].id /\ d.block[b.id].txns = b.txns
    /\ d.block[b.id].height = b.height /\ d.block[FFUuid].height = b.height
    /\ Len(b.txns) > 0
    /\ \A i \in 1 .. k : /\ b.txns[i] # BadCert /\ b.txns[i].id \in Canonized(d)
                         /\ d.txn[b.txns[i].id].block = b.id

\* Linking a block leaves heights and transactions of the others as they are.
LEMMA LinkedNodes ==
    ASSUME NEW d, DbType(d), ChainIndexed(d), NEW b \in BlockReqs,
           BeginStatus(d, b) = "SUCCESS"
    PROVE  LET l == LinkBlock(d, b) IN
           /\ l.txn = d.txn /\ l.artifact = d.artifact
           /\ Blocks(l) = Blocks(d) \cup {b.id} /\ b.id \notin Blocks(d)
           /\ l.block[b.id] = BlockNode(b) /\ l.block[FFUuid].height = b.height
           /\ \A x \in Blocks(d) : /\ l.block[x].height = d.block[x].height
                                   /\ l.block[x].first = d.block[x].first
                                   /\ l.block[x].txns = d.block[x].txns
<1> DEFINE l == LinkBlock(d, b)
           i == Put(d.block, b.id, BlockNode(b))
           end == d.block[FFUuid]
           z == end.prev
<1>1. b.id \in BlockId /\ b.id \notin DOMAIN d.block /\ b.height \in Nat
  BY SaneBlock DEF CanInsertBlock, BlockReq
<1>2. b.id # ZeroUuid /\ b.id # FFUuid /\ ZeroUuid # FFUuid
  BY <1>1, SentinelAssumption
<1>3. l.txn = d.txn /\ l.artifact = d.artifact
  BY LinkBlockFacts
<1>4. /\ DOMAIN i = DOMAIN d.block \cup {b.id} /\ i[b.id] = BlockNode(b)
      /\ \A x \in DOMAIN d.block : i[x] = d.block[x]
  BY <1>1 DEF Put
<1>5. CASE ~HasChain(d)
  <2>1. l.block = BlockCreateQueue(i, b.id, b.height)
    BY <1>5, LinkBlockFacts
  <2>2. DOMAIN d.block = {}
    BY <1>5 DEF ChainIndexed
  <2> HIDE DEF i, l
  <2>3. /\ DOMAIN l.block = {b.id, ZeroUuid, FFUuid}
        /\ l.block[b.id] = BlockNode(b)
        /\ l.block[FFUuid] = BlockSentinel(b.id, FFUuid, b.height)
    BY <2>1, <2>2, <1>2, <1>4 DEF BlockCreateQueue, Put
  <2>4. l.block[FFUuid].height = b.height
    BY <2>3 DEF BlockSentinel
  <2>5. Blocks(l) = {b.id} /\ Blocks(d) = {}
    BY <2>2, <2>3, <1>2 DEF Blocks
  <2> QED BY <2>3, <2>4, <2>5, <1>3 DEF l
<1>6. CASE HasChain(d)
  <2> DEFINE u == BlockUpdatePrev(i, b.id, z)
  <2>1. l.block = BlockUpdateEnd(u, b.id, b.height, end)
    BY <1>6, LinkBlockFacts
  <2>2. /\ z \in DOMAIN d.block /\ z # FFUuid /\ z # b.id
        /\ d.block \in [DOMAIN d.block -> BlockNodes]
        /\ FFUuid \in DOMAIN d.block /\ end \in BlockNodes
    <3>1. d.block \in [DOMAIN d.block -> BlockNodes] /\ FFUuid \in DOMAIN d.block
      BY <1>6 DEF DbType, HasChain
    <3>2. end \in BlockNodes /\ end.height \in Nat
      BY <3>1 DEF BlockNodes
    <3>3. end.height \in DOMAIN d.height /\ z = d.height[end.height]
      BY <1>6, <3>2 DEF ChainIndexed
    <3>4. z \in Blocks(d)
      BY <1>6, <3>3 DEF ChainIndexed
    <3> HIDE DEF z, end
    <3> QED BY <3>1, <3>2, <3>4, <1>1 DEF Blocks
  <2> HIDE DEF i, l, end, z
  <2>3. /\ DOMAIN u = DOMAIN i
        /\ u[z] = [i[z] EXCEPT !.next = b.id]
        /\ \A x \in DOMAIN i \ {z} : u[x] = i[x]
    BY <2>2, <1>4 DEF BlockUpdatePrev, Put
  <2> HIDE DEF u
  <2>4. /\ DOMAIN l.block = DOMAIN u \cup {FFUuid}
        /\ l.block[FFUuid] = [end EXCEPT !.prev = b.id, !.height = b.height]
        /\ \A x \in DOMAIN u \ {FFUuid} : l.block[x] = u[x]
    BY <2>1 DEF BlockUpdateEnd, Put
  <2>5. Blocks(l) = Blocks(d) \cup {b.id} /\ b.id \notin Blocks(d)
    BY <2>2, <2>3, <2>4, <1>1, <1>2, <1>4 DEF Blocks
  <2>6. l.block[FFUuid].height = b.height
    BY <2>2, <2>4 DEF BlockNodes
  <2>7. l.block[b.id] = BlockNode(b)
    <3>1. b.id \in DOMAIN u \ {FFUuid} /\ b.id \in DOMAIN i \ {z}
      BY <2>2, <2>3, <1>2, <1>4
    <3> QED BY <3>1, <2>3, <2>4, <1>4
  <2>8. ASSUME NEW x \in Blocks(d)
        PROVE  /\ l.block[x].height = d.block[x].height
               /\ l.block[x].first = d.block[x].first
               /\ l.block[x].txns = d.block[x].txns
    <3>1. x \in DOMAIN d.block /\ x # FFUuid /\ d.block[x] \in BlockNodes
      BY <2>2 DEF Blocks
    <3>2. l.block[x] = u[x] /\ i[x] = d.block[x]
      BY <3>1, <2>3, <2>4, <1>4
    <3>3. CASE x = z
      <4>1. l.block[x] = [d.block[x] EXCEPT !.next = b.id]
        BY <3>2, <3>3, <2>3
      <4> QED BY <4>1, <3>1 DEF BlockNodes
    <3>4. CASE x # z
      <4>1. u[x] = i[x]
        BY <3>1, <3>4, <2>3, <1>4
      <4> QED BY <4>1, <3>2
    <3> QED BY <3>3, <3>4
  <2> QED BY <2>5, <2>6, <2>7, <2>8, <1>3 DEF l
<1> QED BY <1>5, <1>6

\* Canonizing a transaction, record by record: it adds one, and of the others it
\* changes the successor of the previous transaction only.
LEMMA CanonizedNodes ==
    ASSUME NEW d, DbType(d), NEW b, NEW c \in Cert, c.id \notin DOMAIN d.txn,
           c.prev \in DOMAIN d.txn \cup {ZeroUuid, c.id}
    PROVE  LET e == ProcessChild(d, b, c) IN
           /\ DOMAIN e.txn = DOMAIN d.txn \cup {c.id}
           /\ \A t \in DOMAIN d.txn :
                /\ e.txn[t].prev = d.txn[t].prev /\ e.txn[t].block = d.txn[t].block
                /\ e.txn[t].artifact = d.txn[t].artifact
                /\ e.txn[t].next = IF t = c.prev THEN c.id ELSE d.txn[t].next
           /\ e.txn[c.id].prev = c.prev /\ e.txn[c.id].block = b.id
           /\ e.txn[c.id].artifact = c.artifact
           /\ e.txn[c.id].next = IF c.prev = c.id THEN c.id ELSE FFUuid
<1> DEFINE e == ProcessChild(d, b, c)
           r == TxnRecord(b, c)
           put == Put(d.txn, c.id, r)
<1>1. /\ d.txn \in [DOMAIN d.txn -> TxnNode] /\ DOMAIN d.txn \subseteq TxnId
      /\ c.id \in TxnId /\ c.id # ZeroUuid
  BY SentinelAssumption DEF DbType, Cert
<1>2. r.prev = c.prev /\ r.block = b.id /\ r.artifact = c.artifact /\ r.next = FFUuid
      /\ [r EXCEPT !.next = c.id] = [prev |-> c.prev, next |-> c.id, artifact |-> c.artifact,
                                     block |-> b.id, state |-> "CANONIZED", cert |-> c]
  BY DEF TxnRecord
<1>3. e.txn = IF c.prev = ZeroUuid THEN put ELSE UpdatePrevTxn(put, c.prev, c.id)
  BY ProcessChildFacts
<1> HIDE DEF e, r
<1>4. /\ DOMAIN put = DOMAIN d.txn \cup {c.id} /\ put[c.id] = r
      /\ \A t \in DOMAIN d.txn : put[t] = d.txn[t]
  BY DEF Put
<1> HIDE DEF put
<1>5. CASE c.prev = ZeroUuid
  <2>1. e.txn = put /\ \A t \in DOMAIN d.txn : t # c.prev
    BY <1>1, <1>3, <1>5, SentinelAssumption
  <2> QED BY <2>1, <1>1, <1>2, <1>4, <1>5 DEF e
<1>6. CASE c.prev # ZeroUuid
  <2>1. c.prev \in DOMAIN put
    BY <1>4, <1>6
  <2>2. /\ DOMAIN e.txn = DOMAIN put
        /\ e.txn[c.prev] = [put[c.prev] EXCEPT !.next = c.id]
        /\ \A t \in DOMAIN put \ {c.prev} : e.txn[t] = put[t]
    BY <2>1, <1>3, <1>6 DEF UpdatePrevTxn, Put
  <2>3. ASSUME NEW t \in DOMAIN d.txn
        PROVE  /\ e.txn[t].prev = d.txn[t].prev /\ e.txn[t].block = d.txn[t].block
               /\ e.txn[t].artifact = d.txn[t].artifact
               /\ e.txn[t].next = IF t = c.prev THEN c.id ELSE d.txn[t].next
    <3>1. CASE t = c.prev
      <4>1. e.txn[t] = [d.txn[t] EXCEPT !.next = c.id] /\ d.txn[t] \in TxnNode
        BY <3>1, <2>2, <1>1, <1>4
      <4> QED BY <4>1, <3>1 DEF TxnNode
    <3>2. CASE t # c.prev
      <4>1. e.txn[t] = d.txn[t]
        BY <3>2, <2>2, <1>4
      <4> QED BY <4>1, <3>2
    <3> QED BY <3>1, <3>2
  <2>4. /\ e.txn[c.id].prev = c.prev /\ e.txn[c.id].block = b.id
        /\ e.txn[c.id].artifact = c.artifact
        /\ e.txn[c.id].next = IF c.prev = c.id THEN c.id ELSE FFUuid
    <3>1. CASE c.prev = c.id
      <4>1. e.txn[c.id] = [r EXCEPT !.next = c.id]
        BY <3>1, <2>2, <1>4
      <4> QED BY <4>1, <3>1, <1>2
    <3>2. CASE c.prev # c.id
      <4>1. e.txn[c.id] = r
        BY <3>2, <2>2, <1>4
      <4> QED BY <4>1, <3>2, <1>2
    <3> QED BY <3>1, <3>2
  <2>5. DOMAIN e.txn = DOMAIN d.txn \cup {c.id}
    BY <2>2, <1>4
  <2> QED BY <2>3, <2>4, <2>5 DEF e
<1> QED BY <1>5, <1>6

\* The record of the artifact of a canonized transaction.
LEMMA ArtifactNodes ==
    ASSUME NEW d, DbType(d), NEW b, NEW c
    PROVE  LET e == ProcessChild(d, b, c)
               r == e.artifact[c.artifact]
               old == d.artifact[c.artifact] IN
           /\ DOMAIN e.artifact = DOMAIN d.artifact \cup {c.artifact}
           /\ \A a \in DOMAIN d.artifact \ {c.artifact} : e.artifact[a] = d.artifact[a]
           /\ r.txn_latest = c.id /\ r.height_latest = b.height
           /\ IF c.artifact \in DOMAIN d.artifact
              THEN r.txn_first = old.txn_first /\ r.height_first = old.height_first
              ELSE r.txn_first = c.id /\ r.height_first = b.height
<1> DEFINE e == ProcessChild(d, b, c)
           new == [txn_first |-> c.id, txn_latest |-> c.id,
                   height_first |-> b.height, height_latest |-> b.height,
                   state_latest |-> c.state]
           old == d.artifact[c.artifact]
           changed == [old EXCEPT !.txn_latest = c.id, !.height_latest = b.height,
                                  !.state_latest = c.state]
           r == IF c.artifact \notin DOMAIN d.artifact THEN new ELSE changed
<1>1. e.artifact = Put(d.artifact, c.artifact, r)
  <2>1. e.artifact = UpdateArtifact(d.artifact, b, c)
    BY ProcessChildFacts
  <2> QED BY <2>1 DEF UpdateArtifact
<1>2. c.artifact \in DOMAIN d.artifact => old \in ArtifactRecord
  BY DEF DbType
<1>3. c.artifact \in DOMAIN d.artifact =>
        /\ r.txn_first = old.txn_first /\ r.height_first = old.height_first
        /\ r.txn_latest = c.id /\ r.height_latest = b.height
  BY <1>2 DEF ArtifactRecord
<1>4. c.artifact \notin DOMAIN d.artifact =>
        /\ r.txn_first = c.id /\ r.height_first = b.height
        /\ r.txn_latest = c.id /\ r.height_latest = b.height
  OBVIOUS
<1> HIDE DEF e, r, old
<1>5. /\ DOMAIN e.artifact = DOMAIN d.artifact \cup {c.artifact}
      /\ e.artifact[c.artifact] = r
      /\ \A a \in DOMAIN d.artifact \ {c.artifact} : e.artifact[a] = d.artifact[a]
  BY <1>1 DEF Put
<1> QED BY <1>3, <1>4, <1>5 DEF e, old

\* No transaction is above the last block.
LEMMA HeightsBounded ==
    ASSUME NEW d, DbType(d), ChainIndexed(d), TxnsBelongToBlocks(d), NEW t \in Canonized(d)
    PROVE  /\ TxnHeight(d, t) \in Nat /\ d.block[FFUuid].height \in Nat
           /\ 1 <= TxnHeight(d, t) /\ TxnHeight(d, t) <= d.block[FFUuid].height
<1> DEFINE x == d.txn[t].block
<1>1. x \in Blocks(d) /\ HasChain(d)
  <2>1. x \in Blocks(d)
    BY DEF TxnsBelongToBlocks
  <2> QED BY <2>1 DEF Blocks, ChainIndexed
<1> HIDE DEF x
<1>2. d.block[FFUuid].height \in Nat
  BY <1>1 DEF DbType, HasChain, BlockNodes
<1>3. PICK h : h = d.block[FFUuid].height
  OBVIOUS
<1>4. PICK y : y = d.block[x].height
  OBVIOUS
<1>5. y \in 1 .. h
  BY <1>1, <1>3, <1>4 DEF ChainIndexed
<1>6. TxnHeight(d, t) = y
  BY <1>4 DEF TxnHeight, x
<1>7. h \in Nat
  BY <1>2, <1>3
<1>8. y \in Nat /\ 1 <= y /\ y <= h
  BY <1>5, <1>7
<1> QED BY <1>3, <1>6, <1>7, <1>8

\* What ArtifactBrackets says of one entry r of the index.
Brackets(d, a, r) ==
    /\ r.txn_first \in Canonized(d) /\ r.txn_latest \in Canonized(d)
    /\ d.txn[r.txn_first].artifact = a /\ d.txn[r.txn_latest].artifact = a
    /\ TxnHeight(d, r.txn_first) = r.height_first
    /\ TxnHeight(d, r.txn_latest) = r.height_latest
    /\ \A t \in Canonized(d) :
         d.txn[t].artifact = a => TxnHeight(d, t) \in r.height_first .. r.height_latest

\* The artifacts bracket their histories when each of them does.
LEMMA BracketsByEntry ==
    ASSUME NEW d
    PROVE  ArtifactBrackets(d) <=>
             /\ \A t \in Canonized(d) : d.txn[t].artifact \in DOMAIN d.artifact
             /\ \A a \in DOMAIN d.artifact : Brackets(d, a, d.artifact[a])
  BY DEF ArtifactBrackets, Brackets

\* The brackets depend on the transactions, their heights and the artifacts alone.
LEMMA BracketsAgree ==
    ASSUME NEW d, NEW e, ArtifactBrackets(d), e.txn = d.txn, e.artifact = d.artifact,
           Canonized(e) = Canonized(d),
           \A t \in Canonized(d) : TxnHeight(e, t) = TxnHeight(d, t)
    PROVE  ArtifactBrackets(e)
<1>1. ASSUME NEW a, NEW r, Brackets(d, a, r) PROVE Brackets(e, a, r)
  BY <1>1 DEF Brackets
<1>2. \A a \in DOMAIN e.artifact : Brackets(e, a, e.artifact[a])
  BY <1>1, BracketsByEntry
<1>3. \A t \in Canonized(e) : e.txn[t].artifact \in DOMAIN e.artifact
  BY BracketsByEntry
<1> QED BY <1>2, <1>3, BracketsByEntry

\* Linking a block disturbs neither index.
LEMMA LinkKeepsIndexes ==
    ASSUME NEW d, DbType(d), ChainIndexed(d), IndexedBut(d, ZeroUuid), NEW b \in BlockReqs,
           BeginStatus(d, b) = "SUCCESS"
    PROVE  PartlyIndexed(LinkBlock(d, b), b, 0)
<1> DEFINE l == LinkBlock(d, b)
<1>1. /\ l.txn = d.txn /\ l.artifact = d.artifact
      /\ Blocks(l) = Blocks(d) \cup {b.id} /\ b.id \notin Blocks(d)
      /\ l.block[b.id] = BlockNode(b) /\ l.block[FFUuid].height = b.height
      /\ \A x \in Blocks(d) : /\ l.block[x].height = d.block[x].height
                              /\ l.block[x].first = d.block[x].first
                              /\ l.block[x].txns = d.block[x].txns
  BY LinkedNodes
<1> HIDE DEF l
<1>2. Canonized(l) = Canonized(d)
  BY <1>1 DEF Canonized
<1>3. \A x \in Blocks(d) : Wrapped(l, x) = Wrapped(d, x)
  BY <1>1 DEF Wrapped
<1>4. TxnsBelongToBlocks(d) /\ ArtifactBrackets(d) /\ TxnHistory(d)
  BY DEF IndexedBut
<1>5. TxnsBelongToBlocks(l)
  BY <1>1, <1>2, <1>3, <1>4 DEF TxnsBelongToBlocks
<1>6. \A t \in Canonized(d) : TxnHeight(l, t) = TxnHeight(d, t)
  BY <1>1, <1>4 DEF TxnHeight, TxnsBelongToBlocks
<1>7. \A y \in Blocks(l) \ {b.id} : BlockIsWhole(l, y)
  <2> SUFFICES ASSUME NEW y \in Blocks(d) PROVE BlockIsWhole(l, y)
    BY <1>1
  <2>1. BlockIsWhole(d, y)
    BY DEF IndexedBut, Blocks
  <2> QED BY <2>1, <1>1, <1>2, <1>3 DEF BlockIsWhole
<1>8. ArtifactBrackets(l)
  BY <1>1, <1>2, <1>4, <1>6, BracketsAgree
<1>9. TxnHistory(l)
  BY <1>1, <1>2, <1>4, <1>6 DEF TxnHistory
<1>10. /\ l.block[b.id].first = b.txns[1].id /\ l.block[b.id].txns = b.txns
       /\ l.block[b.id].height = b.height
  BY <1>1 DEF BlockNode
<1>11. Len(b.txns) > 0
  BY SaneBlock
<1>12. IndexedBut(l, b.id)
  BY <1>5, <1>7, <1>8, <1>9 DEF IndexedBut
<1> QED BY <1>1, <1>10, <1>11, <1>12 DEF PartlyIndexed, l

-----------------------------------------------------------------------------
(* The indexes of a block in the making.                                    *)

\* Canonizing the next transaction of a block.
LEMMA ChildKeepsIndexes ==
    ASSUME NEW d, DbType(d), ChainIndexed(d), NEW b \in BlockReq, NEW k \in Nat,
           k < Len(b.txns), PartlyIndexed(d, b, k),
           ChildStatus(d, b.txns[k + 1]) = "SUCCESS"
    PROVE  PartlyIndexed(ProcessChild(d, b, b.txns[k + 1]), b, k + 1)
<1> DEFINE c == b.txns[k + 1]
           e == ProcessChild(d, b, c)
<1>1. /\ Len(b.txns) \in Nat /\ k + 1 \in DOMAIN b.txns
      /\ c \in Cert \cup {BadCert} /\ b.height \in Nat
  BY DEF BlockReq
<1>2. /\ c \in Cert /\ c # BadCert /\ c.id \notin DOMAIN d.txn
      /\ c.prev \in DOMAIN d.txn \cup {ZeroUuid, c.id}
  BY <1>1, ChildAccepted, SentinelAssumption
<1>3. c.id \in TxnId /\ c.id # ZeroUuid /\ c.id # FFUuid
  BY <1>2, SentinelAssumption DEF Cert
<1>4. e.block = d.block
  BY ProcessChildFacts
<1>5. /\ DOMAIN e.txn = DOMAIN d.txn \cup {c.id}
      /\ \A t \in DOMAIN d.txn :
           /\ e.txn[t].prev = d.txn[t].prev /\ e.txn[t].block = d.txn[t].block
           /\ e.txn[t].artifact = d.txn[t].artifact
           /\ e.txn[t].next = IF t = c.prev THEN c.id ELSE d.txn[t].next
      /\ e.txn[c.id].prev = c.prev /\ e.txn[c.id].block = b.id
      /\ e.txn[c.id].artifact = c.artifact
      /\ e.txn[c.id].next = IF c.prev = c.id THEN c.id ELSE FFUuid
  <2> HIDE DEF c
  <2> QED BY <1>2, CanonizedNodes
<1>6. /\ DOMAIN e.artifact = DOMAIN d.artifact \cup {c.artifact}
      /\ \A a \in DOMAIN d.artifact \ {c.artifact} : e.artifact[a] = d.artifact[a]
      /\ e.artifact[c.artifact].txn_latest = c.id
      /\ e.artifact[c.artifact].height_latest = b.height
      /\ IF c.artifact \in DOMAIN d.artifact
         THEN /\ e.artifact[c.artifact].txn_first = d.artifact[c.artifact].txn_first
              /\ e.artifact[c.artifact].height_first = d.artifact[c.artifact].height_first
         ELSE /\ e.artifact[c.artifact].txn_first = c.id
              /\ e.artifact[c.artifact].height_first = b.height
  <2> HIDE DEF c
  <2> QED BY ArtifactNodes
<1>7. /\ IndexedBut(d, b.id) /\ b.id \in Blocks(d)
      /\ d.block[b.id].first = b.txns[1].id /\ d.block[b.id].txns = b.txns
      /\ d.block[b.id].height = b.height /\ d.block[FFUuid].height = b.height
      /\ \A i \in 1 .. k : /\ b.txns[i] # BadCert /\ b.txns[i].id \in Canonized(d)
                           /\ d.txn[b.txns[i].id].block = b.id
  BY DEF PartlyIndexed
<1>8. c \in Wrapped(d, b.id)
  BY <1>1, <1>7 DEF Wrapped
<1> HIDE DEF c, e
<1>9. /\ TxnsBelongToBlocks(d) /\ ArtifactBrackets(d) /\ TxnHistory(d)
      /\ \A y \in Blocks(d) \ {b.id} : BlockIsWhole(d, y)
  BY <1>7 DEF IndexedBut
<1>10. /\ Canonized(e) = Canonized(d) \cup {c.id} /\ Blocks(e) = Blocks(d)
       /\ \A x : Wrapped(e, x) = Wrapped(d, x)
  BY <1>4, <1>5 DEF Canonized, Blocks, Wrapped
<1>11. TxnsBelongToBlocks(e)
  <2> SUFFICES ASSUME NEW t \in Canonized(e)
               PROVE  /\ e.txn[t].block \in Blocks(d)
                      /\ \E w \in Wrapped(d, e.txn[t].block) :
                            w # BadCert /\ w.id = t /\ w.artifact = e.txn[t].artifact
    BY <1>10 DEF TxnsBelongToBlocks
  <2>1. CASE t = c.id
    BY <2>1, <1>2, <1>5, <1>7, <1>8
  <2>2. CASE t \in Canonized(d)
    BY <2>2, <1>5, <1>9 DEF TxnsBelongToBlocks, Canonized
  <2> QED BY <2>1, <2>2, <1>10
<1>12. ASSUME NEW y \in Blocks(d) \ {b.id} PROVE BlockIsWhole(e, y)
  BY <1>4, <1>5, <1>9, <1>10 DEF BlockIsWhole, Canonized
<1>13. /\ \A t \in Canonized(d) : TxnHeight(e, t) = TxnHeight(d, t)
       /\ TxnHeight(e, c.id) = b.height
  BY <1>4, <1>5, <1>7 DEF TxnHeight, Canonized
<1>14. ASSUME NEW t \in Canonized(d)
       PROVE  TxnHeight(d, t) \in Nat /\ TxnHeight(d, t) <= b.height
  BY <1>7, <1>9, HeightsBounded
<1>15. ArtifactBrackets(e)
  <2>1. \A t \in Canonized(e) : e.txn[t].artifact \in DOMAIN e.artifact
    BY <1>5, <1>6, <1>9, <1>10 DEF ArtifactBrackets, Canonized
  <2>2. ASSUME NEW a \in DOMAIN e.artifact PROVE Brackets(e, a, e.artifact[a])
    <3>1. PICK r : r = e.artifact[a]
      OBVIOUS
    <3>2. PICK o : o = d.artifact[a]
      OBVIOUS
    <3>3. PICK w : w = c.id
      OBVIOUS
    <3>4. /\ Canonized(e) = Canonized(d) \cup {w} /\ w \notin Canonized(d)
          /\ e.txn[w].artifact = c.artifact /\ TxnHeight(e, w) = b.height
          /\ \A t \in Canonized(d) : /\ e.txn[t].artifact = d.txn[t].artifact
                                    /\ TxnHeight(e, t) = TxnHeight(d, t)
      BY <3>3, <1>2, <1>5, <1>10, <1>13 DEF Canonized
    <3>5. CASE a # c.artifact
      <4>1. Brackets(d, a, r)
        BY <3>1, <3>5, <1>6, <1>9, BracketsByEntry
      <4>2. Brackets(e, a, r)
        BY <4>1, <3>4, <3>5 DEF Brackets
      <4> QED BY <4>2, <3>1
    <3>6. CASE a = c.artifact /\ a \notin DOMAIN d.artifact
      <4>1. /\ r.txn_first = w /\ r.txn_latest = w
            /\ r.height_first = b.height /\ r.height_latest = b.height
        BY <3>1, <3>3, <3>6, <1>6
      <4>2. \A t \in Canonized(d) : d.txn[t].artifact # a
        BY <3>6, <1>9 DEF ArtifactBrackets
      <4>3. PICK h \in Nat : h = b.height
        BY <1>1
      <4>4. h \in h .. h
        OBVIOUS
      <4>5. Brackets(e, a, r)
        BY <3>4, <3>6, <4>1, <4>2, <4>3, <4>4 DEF Brackets
      <4> QED BY <4>5, <3>1
    <3>7. CASE a = c.artifact /\ a \in DOMAIN d.artifact
      <4>1. Brackets(d, a, o)
        BY <3>2, <3>7, <1>9, BracketsByEntry
      <4>2. /\ r.txn_first = o.txn_first /\ r.height_first = o.height_first
            /\ r.txn_latest = w /\ r.height_latest = b.height
        BY <3>1, <3>2, <3>3, <3>7, <1>6
      <4>3. PICK h, f, g : h = b.height /\ f = o.height_first /\ g = o.height_latest
        OBVIOUS
      <4>4. h \in Nat /\ f \in Nat /\ g \in Nat /\ f <= h /\ g <= h
        <5>1. /\ o.txn_first \in Canonized(d) /\ TxnHeight(d, o.txn_first) = f
              /\ o.txn_latest \in Canonized(d) /\ TxnHeight(d, o.txn_latest) = g
          BY <4>1, <4>3 DEF Brackets
        <5> QED BY <5>1, <4>3, <1>1, <1>14
      <4>5. h \in f .. h /\ \A i \in f .. g : i \in f .. h
        BY <4>4
      <4>6. /\ r.txn_first \in Canonized(e) /\ e.txn[r.txn_first].artifact = a
            /\ TxnHeight(e, r.txn_first) = r.height_first
        BY <4>1, <4>2, <3>4 DEF Brackets
      <4>7. /\ r.txn_latest \in Canonized(e) /\ e.txn[r.txn_latest].artifact = a
            /\ TxnHeight(e, r.txn_latest) = r.height_latest
        BY <4>2, <3>4, <3>7
      <4>8. ASSUME NEW t \in Canonized(e), e.txn[t].artifact = a
            PROVE  TxnHeight(e, t) \in f .. h
        <5>1. CASE t = w
          BY <5>1, <3>4, <4>3, <4>5
        <5>2. CASE t \in Canonized(d)
          <6>1. TxnHeight(d, t) \in f .. g
            BY <5>2, <4>8, <4>1, <4>3, <3>4 DEF Brackets
          <6> QED BY <6>1, <5>2, <3>4, <4>5
        <5> QED BY <5>1, <5>2, <3>4
      <4>9. Brackets(e, a, r)
        BY <4>2, <4>3, <4>6, <4>7, <4>8 DEF Brackets
      <4> QED BY <4>9, <3>1
    <3> QED BY <3>5, <3>6, <3>7
  <2> QED BY <2>1, <2>2, BracketsByEntry
<1>16. TxnHistory(e)
  <2> SUFFICES ASSUME NEW t \in Canonized(e)
               PROVE  /\ e.txn[t].prev # ZeroUuid =>
                           /\ e.txn[t].prev \in Canonized(e)
                           /\ TxnHeight(e, e.txn[t].prev) <= TxnHeight(e, t)
                           /\ e.txn[e.txn[t].prev].next # FFUuid
                      /\ e.txn[t].next # FFUuid =>
                           /\ e.txn[t].next \in Canonized(e)
                           /\ e.txn[e.txn[t].next].prev = t
    BY DEF TxnHistory
  <2>1. CASE t = c.id
    <3>1. e.txn[t].prev = c.prev /\ TxnHeight(e, t) = b.height
      BY <2>1, <1>5, <1>13
    <3>2. c.prev # ZeroUuid => c.prev \in Canonized(e)
      BY <1>2, <1>10 DEF Canonized
    <3>3. c.prev # ZeroUuid => TxnHeight(e, c.prev) <= b.height
      <4>1. PICK p, h : p = c.prev /\ h = b.height
        OBVIOUS
      <4>2. CASE p = c.id
        BY <4>1, <4>2, <1>1, <1>13
      <4>3. CASE p \in Canonized(d)
        BY <4>1, <4>3, <1>13, <1>14
      <4> QED BY <4>1, <4>2, <4>3, <3>2, <1>10
    <3>4. c.prev # ZeroUuid => e.txn[c.prev].next # FFUuid
      <4>1. CASE c.prev = c.id
        BY <4>1, <1>3, <1>5
      <4>2. CASE c.prev \in Canonized(d)
        BY <4>2, <1>3, <1>5 DEF Canonized
      <4> QED BY <4>1, <4>2, <3>2, <1>10
    <3>5. e.txn[t].next # FFUuid => c.prev = c.id /\ e.txn[t].next = c.id
      BY <2>1, <1>5
    <3> QED BY <2>1, <3>1, <3>2, <3>3, <3>4, <3>5, <1>10
  <2>2. CASE t \in Canonized(d)
    <3> DEFINE p == d.txn[t].prev
               n == d.txn[t].next
    <3>1. /\ p # ZeroUuid => /\ p \in Canonized(d)
                             /\ TxnHeight(d, p) <= TxnHeight(d, t)
                             /\ d.txn[p].next # FFUuid
          /\ n # FFUuid => n \in Canonized(d) /\ d.txn[n].prev = t
      BY <2>2, <1>9 DEF TxnHistory
    <3>2. e.txn[t].prev = p /\ e.txn[t].next = IF t = c.prev THEN c.id ELSE n
      BY <2>2, <1>5 DEF Canonized
    <3> HIDE DEF p, n
    <3>3. p # ZeroUuid => /\ p \in Canonized(e) /\ TxnHeight(e, p) <= TxnHeight(e, t)
                          /\ e.txn[p].next # FFUuid
      <4> SUFFICES ASSUME p # ZeroUuid
                   PROVE  /\ p \in Canonized(e) /\ TxnHeight(e, p) <= TxnHeight(e, t)
                          /\ e.txn[p].next # FFUuid
        OBVIOUS
      <4>1. p \in Canonized(d) /\ p \in DOMAIN d.txn
        BY <3>1 DEF Canonized
      <4>2. TxnHeight(e, p) <= TxnHeight(e, t)
        BY <4>1, <2>2, <3>1, <1>13
      <4>3. e.txn[p].next # FFUuid
        BY <4>1, <3>1, <1>3, <1>5
      <4> QED BY <4>1, <4>2, <4>3, <1>10
    <3>4. CASE t = c.prev
      BY <3>2, <3>3, <3>4, <1>5, <1>10
    <3>5. CASE t # c.prev
      <4>1. n # FFUuid => n \in Canonized(e) /\ e.txn[n].prev = t
        BY <3>1, <1>5, <1>10 DEF Canonized
      <4> QED BY <3>2, <3>3, <3>5, <4>1
    <3> QED BY <3>4, <3>5
  <2> QED BY <2>1, <2>2, <1>10
<1>17. ASSUME NEW i \in 1 .. k + 1
       PROVE  /\ b.txns[i] # BadCert /\ b.txns[i].id \in Canonized(e)
              /\ e.txn[b.txns[i].id].block = b.id
  <2>1. CASE i = k + 1
    <3>1. b.txns[i] = c
      BY <2>1 DEF c
    <3> QED BY <3>1, <1>2, <1>5, <1>10
  <2>2. CASE i # k + 1
    <3>1. i \in 1 .. k
      BY <2>2
    <3> QED BY <3>1, <1>5, <1>7, <1>10 DEF Canonized
  <2> QED BY <2>1, <2>2
<1>18. IndexedBut(e, b.id)
  BY <1>10, <1>11, <1>12, <1>15, <1>16 DEF IndexedBut
<1>19. /\ b.id \in Blocks(e) /\ Len(b.txns) > 0
       /\ e.block[b.id].first = b.txns[1].id /\ e.block[b.id].txns = b.txns
       /\ e.block[b.id].height = b.height /\ e.block[FFUuid].height = b.height
  <2>1. Len(b.txns) > 0
    BY <1>1
  <2>2. b.id \in Blocks(e)
    BY <1>7, <1>10
  <2> QED BY <2>1, <2>2, <1>4, <1>7
<1>20. PartlyIndexed(e, b, k + 1)
  BY <1>17, <1>18, <1>19 DEF PartlyIndexed
<1> QED BY <1>20 DEF c, e

\* When all its transactions are canonized the block is whole.
LEMMA WholeBlockIsIndexed ==
    ASSUME NEW d, NEW b \in BlockReq, PartlyIndexed(d, b, Len(b.txns))
    PROVE  IndexedBut(d, ZeroUuid)
<1>1. b.txns \in Seq(Cert \cup {BadCert}) /\ Len(b.txns) \in Nat
  BY DEF BlockReq
<1>2. /\ IndexedBut(d, b.id) /\ Len(b.txns) > 0
      /\ d.block[b.id].first = b.txns[1].id /\ d.block[b.id].txns = b.txns
      /\ \A i \in 1 .. Len(b.txns) :
            /\ b.txns[i] # BadCert /\ b.txns[i].id \in Canonized(d)
            /\ d.txn[b.txns[i].id].block = b.id
  BY DEF PartlyIndexed
<1>3. DOMAIN b.txns = 1 .. Len(b.txns) /\ 1 \in DOMAIN b.txns
  BY <1>1, <1>2
<1>4. BlockIsWhole(d, b.id)
  BY <1>2, <1>3 DEF BlockIsWhole, Wrapped
<1> QED BY <1>2, <1>4 DEF IndexedBut

\* The indexes do not depend on the queue.
LEMMA NewPqKeepsIndexes ==
    ASSUME NEW d, DbType(d), NEW q, IndexedBut(d, ZeroUuid)
    PROVE  IndexedBut([d EXCEPT !.pq = q], ZeroUuid)
<1> DEFINE e == [d EXCEPT !.pq = q]
<1>1. DOMAIN d = {"pq", "block", "height", "txn", "artifact"}
  BY DEF DbType
<1>2. e.block = d.block /\ e.txn = d.txn /\ e.artifact = d.artifact
  BY <1>1
<1> HIDE DEF e
<1>3. /\ Canonized(e) = Canonized(d) /\ Blocks(e) = Blocks(d)
      /\ \A x : Wrapped(e, x) = Wrapped(d, x)
      /\ \A t : TxnHeight(e, t) = TxnHeight(d, t)
  BY <1>2 DEF Canonized, Blocks, Wrapped, TxnHeight
<1>4. TxnsBelongToBlocks(e)
  BY <1>2, <1>3 DEF IndexedBut, TxnsBelongToBlocks
<1>5. \A y \in Blocks(e) \ {ZeroUuid} : BlockIsWhole(e, y)
  BY <1>2, <1>3 DEF IndexedBut, BlockIsWhole
<1>6. ArtifactBrackets(e)
  <2>1. ArtifactBrackets(d)
    BY DEF IndexedBut
  <2> QED BY <1>2, <1>3, <2>1, BracketsAgree
<1>7. TxnHistory(e)
  BY <1>2, <1>3 DEF IndexedBut, TxnHistory
<1> QED BY <1>4, <1>5, <1>6, <1>7 DEF IndexedBut, e

\* IndexesMatchChain is not inductive by itself: a block commits what it did to its
\* copy, of which the transactions that are still to come are not yet true.
IndexInv ==
    /\ IndexedBut(db, ZeroUuid)
    /\ making.open => PartlyIndexed(work, making.block, making.done)

\* The empty tables are the indexes of the empty chain.
LEMMA InitIndexInv == Init => IndexInv
<1> SUFFICES ASSUME Init PROVE IndexInv
  OBVIOUS
<1>1. db.txn = NoEntries /\ db.block = NoEntries /\ db.artifact = NoEntries /\ ~making.open
  BY DEF Init, EmptyDb, NotMaking
<1>2. DOMAIN NoEntries = {}
  BY DEF NoEntries
<1>3. Canonized(db) = {} /\ Blocks(db) = {} /\ DOMAIN db.artifact = {}
  BY <1>1, <1>2 DEF Canonized, Blocks
<1> QED BY <1>1, <1>3
    DEF IndexInv, IndexedBut, TxnsBelongToBlocks, ArtifactBrackets, TxnHistory

\* Every step of every writer keeps both indexes.
LEMMA StepIndexInv == IndInv /\ IndexInv /\ [Next]_vars => IndexInv'
<1> SUFFICES ASSUME IndInv, IndexInv, [Next]_vars PROVE IndexInv'
  OBVIOUS
<1>1. /\ DbType(db) /\ ChainIndexed(db) /\ DbType(work) /\ ChainIndexed(work) /\ MakingType
      /\ IndexedBut(db, ZeroUuid)
  BY DEF IndInv, TypeOK, DbInv, IndexInv
<1>2. ASSUME NEW op, NEW id, NEW status, NEW q, EndPqWrite(op, id, status, q), ~making.open
      PROVE  IndexInv'
  <2>1. (db' = db \/ db' = [db EXCEPT !.pq = q]) /\ making' = making
    BY <1>2 DEF EndPqWrite, CommitOutcomes
  <2>2. IndexedBut(db', ZeroUuid)
    BY <2>1, <1>1, NewPqKeepsIndexes
  <2> QED BY <2>1, <2>2, <1>2 DEF IndexInv
<1>3. ASSUME NEW r \in Requests, Submit(r) PROVE IndexInv'
  BY <1>2, <1>3 DEF Submit
<1>4. ASSUME NEW t \in TxnKey, Drop(t) \/ Promote(t) PROVE IndexInv'
  BY <1>2, <1>4 DEF Drop, Promote
<1>5. ASSUME NEW b \in BlockReqs, BlockBegin(b) PROVE IndexInv'
  <2>1. /\ BeginStatus(db, b) = "SUCCESS" /\ work' = LinkBlock(db, b) /\ db' = db
        /\ making' = [open |-> TRUE, block |-> b, done |-> 0]
    BY <1>5 DEF BlockBegin
  <2>2. making'.block = b /\ making'.done = 0
    BY <2>1
  <2>3. PartlyIndexed(work', b, 0)
    BY <2>1, <1>1, LinkKeepsIndexes
  <2> QED BY <2>1, <2>2, <2>3, <1>1 DEF IndexInv
<1>6. ASSUME NEW b \in BlockReqs, BlockReject(b) PROVE IndexInv'
  BY <1>6 DEF BlockReject, IndexInv
<1>7. CASE BlockChild
  <2> DEFINE b == making.block
             k == making.done
  <2>1. /\ making.open /\ k < Len(b.txns) /\ ChildStatus(work, b.txns[k + 1]) = "SUCCESS"
        /\ work' = ProcessChild(work, b, b.txns[k + 1])
        /\ making' = [making EXCEPT !.done = @ + 1] /\ db' = db
    BY <1>7 DEF BlockChild, NextChild
  <2>2. b \in BlockReq /\ k \in Nat /\ making'.block = b /\ making'.done = k + 1
    BY <1>1, <2>1, InputAssumption DEF MakingType
  <2>3. PartlyIndexed(work, b, k)
    BY <2>1 DEF IndexInv
  <2>4. PartlyIndexed(work', b, k + 1)
    BY <2>1, <2>2, <2>3, <1>1, ChildKeepsIndexes
  <2> QED BY <2>1, <2>2, <2>4, <1>1 DEF IndexInv
<1>8. CASE BlockChildFails \/ BlockFault
  <2>1. db' = db /\ ~making'.open
    BY <1>8 DEF BlockChildFails, BlockFault, BlockAbort, NotMaking
  <2> QED BY <2>1, <1>1 DEF IndexInv
<1>9. CASE BlockCommit
  <2>1. /\ making.open /\ making.done = Len(making.block.txns)
        /\ (db' = work \/ db' = db) /\ ~making'.open
    BY <1>9 DEF BlockCommit, CommitOutcomes, NotMaking
  <2>2. making.block \in BlockReq
    BY <1>1, <2>1, InputAssumption DEF MakingType
  <2>3. IndexedBut(work, ZeroUuid)
    BY <2>1, <2>2, WholeBlockIsIndexed DEF IndexInv
  <2> QED BY <2>1, <2>3, <1>1 DEF IndexInv
<1>10. CASE UNCHANGED vars
  BY <1>10 DEF vars, IndexInv
<1> QED BY <1>3, <1>4, <1>5, <1>6, <1>7, <1>8, <1>9, <1>10 DEF Next

\* The transaction index and the artifact index always describe the chain, wherever
\* in a block a certificate is refused, a write or a commit fails
\* (dataservice_block_make_process_child, _update_artifact, _update_prev_txn).
THEOREM IndexesCorrect == Spec => []IndexesMatchChain
<1>1. IndexInv => IndexesMatchChain
  BY DEF IndexInv, IndexedBut, IndexesMatchChain, Blocks
<1> QED BY <1>1, InitIndexInv, StepIndexInv, Invariant, PTL DEF Spec
==============================================================================
