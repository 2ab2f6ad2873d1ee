---------------------------- MODULE AssertionsProofs ----------------------------
(***************************************************************************)
(* The notification service never holds a stale assertion, and what it     *)
(* holds can be translated back to the client that made it, as long as the *)
(* endpoint has a fiber left that could do so.                             *)
(*                                                                         *)
(* The second does not follow by itself, because the endpoint removes an   *)
(* offset from its maps when any response with that offset arrives, be it  *)
(* the invalidation or the answer to a cancel.  The invariant says that an *)
(* offset is at one place only: asked for on the wire, held in the tree,   *)
(* or being answered.  Cancels make this depend on the order of the wire.  *)
(***************************************************************************)
EXTENDS Assertions, TLAPS

IsSeq(s) == s \in Seq(Range(s))

Req == wire["protocol"].req

\* Offsets of assertions that the notification service has still to read.
Asserting == {r.offset : r \in {x \in Range(Req) : x.method = "BLOCK_ASSERTION"}}

\* Offsets in the tree of the protocol service's instance.
Held == {a.offset : a \in inst["protocol"].assertions}

\* Offsets for which a response is to be sent or is on its way.
Notifying(i) == {a.offset : a \in {b \in work[i].todo : b.inst = "protocol"}}

Answering ==
    {r.offset : r \in Range(inst["protocol"].outbound) \cup Range(wire["protocol"].resp)}
    \cup Notifying("consensus") \cup Notifying("protocol")

Fields == {"caps", "assertions", "fiber", "outbound", "endpoint"}

Shape ==
    /\ DOMAIN wire = Instances /\ DOMAIN inst = Instances /\ DOMAIN work = Instances
    /\ \A i \in Instances :
          /\ DOMAIN wire[i] = {"req", "resp", "peer"}
          /\ IsSeq(wire[i].req) /\ IsSeq(wire[i].resp)
          /\ DOMAIN inst[i] = Fields
          /\ IsSeq(inst[i].outbound)
          /\ DOMAIN work[i] = {"todo", "offset"}

\* The protocol service only asserts and cancels, in requests of the right size.
WellFormed(r) ==
    \/ r.method = "BLOCK_ASSERTION" /\ r.size = UuidBytes
    \/ r.method = "BLOCK_ASSERTION_CANCEL" /\ r.size = 0

Asks ==
    /\ inst["protocol"].caps = Caps
    /\ inst["protocol"].fiber # "updating"
    /\ \A r \in Range(Req) : WellFormed(r)

\* The endpoint gives an offset once, and only what it has given is on its way.
Given ==
    /\ counter \in Nat
    /\ DOMAIN serverMap \subseteq 1 .. counter
    /\ \A r \in Range(Req) : r.offset \in 1 .. counter
    /\ Answering \subseteq 1 .. counter
    /\ Held \subseteq 1 .. counter

\* An assertion comes before everything else with its offset.
InTurn ==
    \A j, k \in 1 .. Len(Req) :
        j < k /\ Req[k].method = "BLOCK_ASSERTION" => Req[j].offset # Req[k].offset

\* An offset is at one place only.
Apart ==
    /\ Asserting \cap Held = {}
    /\ Asserting \cap Answering = {}
    /\ Held \cap Answering = {}

IndInv == Shape /\ Asks /\ Given /\ InTurn /\ Apart /\ HeldIsTranslated

-----------------------------------------------------------------------------
\* What Append does to a sequence of whatever.
LEMMA AppendFacts ==
    ASSUME NEW s, IsSeq(s), NEW x
    PROVE  /\ IsSeq(Append(s, x))
           /\ Len(s) \in Nat /\ Len(Append(s, x)) = Len(s) + 1
           /\ \A j \in 1 .. Len(s) : Append(s, x)[j] = s[j]
           /\ Append(s, x)[Len(s) + 1] = x
           /\ Range(Append(s, x)) = Range(s) \cup {x}
<1> DEFINE S == Range(s) \cup {x}
           t == Append(s, x)
<1>1. s \in Seq(S)
  BY DEF IsSeq
<1>2. t \in Seq(S) /\ Len(s) \in Nat /\ Len(t) = Len(s) + 1 /\ DOMAIN t = 1 .. Len(s) + 1
      /\ DOMAIN s = 1 .. Len(s)
  BY <1>1
<1>3. (\A j \in 1 .. Len(s) : t[j] = s[j]) /\ t[Len(s) + 1] = x
  BY <1>1
<1> HIDE DEF t
<1>4. Range(t) = S
  <2>1. \A y \in Range(t) : y \in S
    BY <1>2 DEF Range
  <2>2. \A j \in 1 .. Len(s) : j \in DOMAIN t /\ t[j] = s[j]
    BY <1>2, <1>3
  <2>3. Len(s) + 1 \in DOMAIN t
    BY <1>2
  <2>4. Range(s) \subseteq Range(t) /\ x \in Range(t)
    BY <2>2, <2>3, <1>2, <1>3 DEF Range
  <2> QED BY <2>1, <2>4
<1> QED BY <1>2, <1>3, <1>4 DEF IsSeq, t

\* What Head and Tail do to one.
LEMMA TailFacts ==
    ASSUME NEW s, IsSeq(s), s # <<>>
    PROVE  /\ IsSeq(Tail(s))
           /\ Len(s) \in Nat /\ Len(Tail(s)) = Len(s) - 1 /\ Len(Tail(s)) \in Nat
           /\ \A j \in 1 .. Len(s) - 1 : Tail(s)[j] = s[j + 1]
           /\ Head(s) = s[1] /\ 1 \in 1 .. Len(s)
           /\ Range(s) = Range(Tail(s)) \cup {Head(s)}
<1> DEFINE t == Tail(s)
<1>1. t \in Seq(Range(s)) /\ Len(s) \in Nat \ {0} /\ Len(t) = Len(s) - 1
      /\ DOMAIN t = 1 .. Len(s) - 1 /\ DOMAIN s = 1 .. Len(s)
  BY DEF IsSeq
<1>2. (\A j \in 1 .. Len(s) - 1 : t[j] = s[j + 1]) /\ Head(s) = s[1]
  BY DEF IsSeq
<1> HIDE DEF t
<1>3. t \in Seq(Range(t))
  <2>1. \A j \in 1 .. Len(t) : t[j] \in Range(t)
    BY <1>1 DEF Range
  <2> QED BY <2>1, <1>1
<1>4. Range(s) = Range(t) \cup {s[1]}
  <2>1. \A j \in DOMAIN t : t[j] = s[j + 1] /\ j + 1 \in DOMAIN s
    BY <1>1, <1>2
  <2>2. \A j \in DOMAIN s : j = 1 \/ (j - 1 \in DOMAIN t /\ t[j - 1] = s[j])
    BY <1>1, <1>2
  <2>3. 1 \in DOMAIN s
    BY <1>1
  <2> QED BY <2>1, <2>2, <2>3 DEF Range
<1> QED BY <1>1, <1>2, <1>3, <1>4 DEF IsSeq, t

\* What is in a sequence has an index.
LEMMA IndexOf ==
    ASSUME NEW s, IsSeq(s), NEW x \in Range(s)
    PROVE  \E j \in 1 .. Len(s) : s[j] = x
<1>1. DOMAIN s = 1 .. Len(s)
  BY DEF IsSeq
<1> QED BY <1>1 DEF Range

-----------------------------------------------------------------------------
\* Nothing is asked, held or answered in the beginning.
LEMMA InitInv == Init => IndInv
<1> SUFFICES ASSUME Init PROVE IndInv
  OBVIOUS
<1>1. IsSeq(<<>>) /\ Range(<<>>) = {}
  BY DEF IsSeq, Range
<1>2. \A i \in Instances :
         /\ wire[i].req = <<>> /\ wire[i].resp = <<>> /\ inst[i].outbound = <<>>
         /\ inst[i].caps = Caps /\ inst[i].fiber = "reading" /\ inst[i].assertions = {}
         /\ work[i].todo = {}
  BY DEF Init, InitNotification, InstanceCreate, ProtocolFiberAdd, OutboundEndpointAdd, NoWork
<1>3. Shape
  BY <1>1, <1>2 DEF Shape, Init, InitNotification, InstanceCreate, ProtocolFiberAdd,
     OutboundEndpointAdd, NoWork, Fields
<1>4. "protocol" \in Instances /\ "consensus" \in Instances
  BY DEF Instances
<1>5. Req = <<>> /\ Range(Req) = {} /\ Len(Req) = 0
  BY <1>1, <1>2, <1>4 DEF Req
<1>6. Held = {} /\ Answering = {} /\ Asserting = {}
  BY <1>1, <1>2, <1>4, <1>5 DEF Held, Answering, Asserting, Notifying
<1>7. DOMAIN serverMap = {} /\ DOMAIN clientMap = {} /\ counter = 0
  BY DEF Init, EndpointAdd
<1>8. HeldIsTranslated
  BY <1>2, <1>4, <1>5, <1>7 DEF HeldIsTranslated, Req
<1> QED
  BY <1>2, <1>3, <1>4, <1>5, <1>6, <1>7, <1>8 DEF IndInv, Asks, Given, InTurn, Apart

-----------------------------------------------------------------------------
\* The maps and the counter stay as they are, and so do the fibers that share them.
MapsUnchanged == UNCHANGED <<clientMap, serverMap, counter, endpoint, writer>>

\* Steps that take nothing from the requests of the protocol service: an offset may
\* leave the tree if it is answered.
LEMMA OtherStepInv ==
    ASSUME IndInv, Shape', MapsUnchanged,
           Req' = Req, inst["protocol"].caps' = Caps, inst["protocol"].fiber' # "updating",
           Held' \subseteq Held, Answering' \subseteq Answering \cup (Held \ Held')
    PROVE  IndInv'
<1>1. (Served => Held \subseteq DOMAIN serverMap) /\ Served' = Served
  BY DEF IndInv, HeldIsTranslated, Held, Served, MapsUnchanged
<1>2. Asserting' = Asserting
  BY DEF Asserting
<1>3. Asks'
  BY DEF IndInv, Asks, WellFormed
<1>4. Given'
  BY DEF IndInv, Given, MapsUnchanged
<1>5. InTurn'
  BY DEF IndInv, InTurn
<1>6. Apart'
  BY <1>2 DEF IndInv, Apart
<1>7. HeldIsTranslated'
  <2>1. Served => \A a \in inst["protocol"].assertions' : a.offset \in DOMAIN serverMap
    BY <1>1 DEF Held
  <2> QED
    BY <1>1, <2>1 DEF IndInv, HeldIsTranslated, MapsUnchanged, Req
<1> QED BY <1>3, <1>4, <1>5, <1>6, <1>7 DEF IndInv

\* Steps that read a request of the protocol service: its offset is held, or it is
\* answered and not held any more.
LEMMA ReadStepInv ==
    ASSUME IndInv, Shape', MapsUnchanged, NEW r,
           Req # <<>>, r = Head(Req), Req' = Tail(Req),
           inst["protocol"].caps' = Caps, inst["protocol"].fiber' # "updating",
           \/ /\ r.method = "BLOCK_ASSERTION"
              /\ Held' = Held \cup {r.offset} /\ Answering' = Answering
           \/ Held' = Held \ {r.offset} /\ Answering' = Answering \cup {r.offset}
    PROVE  IndInv'
<1>1. IsSeq(Req)
  BY DEF IndInv, Shape, Req, Instances
<1>2. /\ Len(Req) \in Nat /\ Len(Req') = Len(Req) - 1 /\ 1 \in 1 .. Len(Req)
      /\ \A j \in 1 .. Len(Req) - 1 : Req'[j] = Req[j + 1]
      /\ r = Req[1] /\ Range(Req) = Range(Req') \cup {r}
  BY <1>1, TailFacts
<1>3. (Served => Held \subseteq DOMAIN serverMap) /\ Served' = Served
  BY DEF IndInv, HeldIsTranslated, Held, Served, MapsUnchanged
<1>4. Asserting' \subseteq Asserting
  BY <1>2 DEF Asserting
<1>5. r.offset \notin Asserting'
  <2> SUFFICES ASSUME NEW x \in Range(Req'), x.method = "BLOCK_ASSERTION", x.offset = r.offset
               PROVE  FALSE
    BY DEF Asserting
  <2>1. IsSeq(Tail(Req)) /\ x \in Range(Tail(Req))
    BY <1>1, TailFacts
  <2>2. \E j \in 1 .. Len(Tail(Req)) : Tail(Req)[j] = x
    BY <2>1, IndexOf, Zenon
  <2>3. PICK j \in 1 .. Len(Req') : Req'[j] = x
    BY <2>2, Zenon
  <2>4. j + 1 \in 1 .. Len(Req) /\ 1 < j + 1 /\ Req[j + 1] = x
    BY <1>2, <2>3
  <2> QED
    BY <1>2, <2>4 DEF IndInv, InTurn
<1>6. r.method = "BLOCK_ASSERTION" => r.offset \in Asserting
  BY <1>2 DEF Asserting
<1>7. r.offset \in 1 .. counter
  BY <1>2 DEF IndInv, Given
<1>8. Asks'
  BY <1>2 DEF IndInv, Asks, WellFormed
<1>9. Given'
  BY <1>2, <1>7 DEF IndInv, Given, MapsUnchanged
<1>10. InTurn'
  <2> SUFFICES ASSUME NEW j \in 1 .. Len(Req'), NEW k \in 1 .. Len(Req'), j < k,
                      Req'[k].method = "BLOCK_ASSERTION"
               PROVE  Req'[j].offset # Req'[k].offset
    BY DEF InTurn
  <2>1. j + 1 \in 1 .. Len(Req) /\ k + 1 \in 1 .. Len(Req) /\ j + 1 < k + 1
        /\ Req'[j] = Req[j + 1] /\ Req'[k] = Req[k + 1]
    BY <1>2
  <2> QED
    BY <2>1 DEF IndInv, InTurn
<1>11. Apart'
  BY <1>4, <1>5, <1>6 DEF IndInv, Apart
<1>12. HeldIsTranslated'
  <2>1. Served /\ r.method = "BLOCK_ASSERTION" => r.offset \in DOMAIN serverMap
    BY <1>2 DEF IndInv, HeldIsTranslated, Req
  <2>2. Served => \A a \in inst["protocol"].assertions' : a.offset \in DOMAIN serverMap
    BY <1>3, <2>1 DEF Held
  <2> QED
    BY <1>2, <1>3, <2>2 DEF IndInv, HeldIsTranslated, MapsUnchanged, Req
<1> QED BY <1>8, <1>9, <1>10, <1>11, <1>12 DEF IndInv

-----------------------------------------------------------------------------
(* The steps of the notification service. *)

\* A step that leaves the instance of the protocol service and its socket alone.
LEMMA ElsewhereInv ==
    ASSUME IndInv, Shape', MapsUnchanged, work' = work,
           inst'["protocol"] = inst["protocol"], wire'["protocol"] = wire["protocol"]
    PROVE  IndInv'
<1>1. Req' = Req /\ Held' = Held /\ Answering' = Answering
  BY DEF Req, Held, Answering, Notifying
<1>2. inst["protocol"].caps' = Caps /\ inst["protocol"].fiber' # "updating"
  BY DEF IndInv, Asks
<1> QED BY <1>1, <1>2, OtherStepInv

\* A step in which the fiber of an instance reads a packet and its record becomes q.
LEMMA PacketFacts ==
    ASSUME IndInv, NEW i \in Instances, NEW r, ReadPacket(i, r), work' = work,
           NEW q, inst' = [inst EXCEPT ![i] = q], DOMAIN q = Fields, IsSeq(q.outbound)
    PROVE  /\ Shape'
           /\ inst'[i] = q /\ \A j \in Instances \ {i} : inst'[j] = inst[j] /\ wire'[j] = wire[j]
           /\ wire[i].req # <<>> /\ r = Head(wire[i].req)
           /\ wire'[i].req = Tail(wire[i].req) /\ wire'[i].resp = wire[i].resp
<1>1. wire[i].req # <<>> /\ r = Head(wire[i].req) /\ wire' = [wire EXCEPT ![i].req = Tail(@)]
  BY DEF ReadPacket
<1>2. IsSeq(Tail(wire[i].req))
  BY <1>1, TailFacts DEF IndInv, Shape
<1>3. /\ DOMAIN wire' = Instances /\ wire'[i].req = Tail(wire[i].req)
      /\ wire'[i].resp = wire[i].resp /\ DOMAIN wire'[i] = {"req", "resp", "peer"}
      /\ \A j \in Instances \ {i} : wire'[j] = wire[j]
  BY <1>1 DEF IndInv, Shape
<1>4. DOMAIN inst' = Instances /\ inst'[i] = q /\ \A j \in Instances \ {i} : inst'[j] = inst[j]
  BY DEF IndInv, Shape
<1>5. Shape'
  BY <1>2, <1>3, <1>4 DEF IndInv, Shape, Fields
<1> QED BY <1>1, <1>3, <1>4, <1>5

\* A packet that is read and answered by an instance whose tree becomes held.
LEMMA AnswerInv ==
    ASSUME IndInv, NEW i \in Instances, NEW r, ReadPacket(i, r), work' = work, MapsUnchanged,
           NEW rec, DOMAIN rec = Fields, rec.outbound = inst[i].outbound, NEW s,
           inst' = [inst EXCEPT ![i] = LoopFiber(SendResponse(rec, r.method, r.offset, s), s)],
           i = "protocol" => /\ rec.caps = Caps
                             /\ {a.offset : a \in rec.assertions} = Held \ {r.offset}
    PROVE  IndInv'
<1> DEFINE q == LoopFiber(SendResponse(rec, r.method, r.offset, s), s)
<1>1. IsSeq(rec.outbound)
  BY DEF IndInv, Shape
<1>2. /\ DOMAIN q = Fields /\ IsSeq(q.outbound)
      /\ q.caps = rec.caps /\ q.assertions = rec.assertions /\ q.fiber \in {"reading", "ended"}
      /\ Range(q.outbound) = Range(rec.outbound) \cup {Response(r.method, r.offset, s)}
  <2> DEFINE out == Append(rec.outbound, Response(r.method, r.offset, s))
  <2>1. IsSeq(out) /\ Range(out) = Range(rec.outbound) \cup {Response(r.method, r.offset, s)}
    BY <1>1, AppendFacts
  <2>2. q = [[rec EXCEPT !.outbound = out] EXCEPT !.fiber = IF Goes(s) THEN "reading" ELSE "ended"]
    BY DEF LoopFiber, SendResponse
  <2> HIDE DEF q, out
  <2> QED BY <2>1, <2>2 DEF Fields
<1> HIDE DEF q
<1>3. /\ Shape'
      /\ inst'[i] = q /\ \A j \in Instances \ {i} : inst'[j] = inst[j] /\ wire'[j] = wire[j]
      /\ wire[i].req # <<>> /\ r = Head(wire[i].req)
      /\ wire'[i].req = Tail(wire[i].req) /\ wire'[i].resp = wire[i].resp
  <2>1. inst' = [inst EXCEPT ![i] = q]
    BY DEF q
  <2> QED BY <1>2, <2>1, PacketFacts
<1>4. CASE i # "protocol"
  BY <1>3, <1>4, ElsewhereInv DEF Instances
<1>5. CASE i = "protocol"
  <2>1. Req # <<>> /\ r = Head(Req) /\ Req' = Tail(Req)
    BY <1>3, <1>5 DEF Req
  <2>2. Held' = Held \ {r.offset}
    BY <1>2, <1>3, <1>5 DEF Held
  <2>3. Answering' = Answering \cup {r.offset}
    <3> DEFINE new == Response(r.method, r.offset, s)
               old == Range(inst["protocol"].outbound) \cup Range(wire["protocol"].resp)
    <3>1. new.offset = r.offset
      BY DEF Response
    <3>2. Range(inst'["protocol"].outbound) \cup Range(wire'["protocol"].resp) = old \cup {new}
      BY <1>2, <1>3, <1>5
    <3>3. \A j : Notifying(j)' = Notifying(j)
      BY DEF Notifying
    <3> HIDE DEF new, old
    <3>4. {x.offset : x \in old \cup {new}} = {x.offset : x \in old} \cup {r.offset}
      BY <3>1
    <3> QED BY <3>2, <3>3, <3>4 DEF Answering, old
  <2>4. inst["protocol"].caps' = Caps /\ inst["protocol"].fiber' # "updating"
    BY <1>2, <1>3, <1>5
  <2> QED BY <1>3, <2>1, <2>2, <2>3, <2>4, ReadStepInv
<1> QED BY <1>4, <1>5

\* The head of the requests of the protocol service is well formed.
LEMMA HeadFacts ==
    ASSUME IndInv, NEW r, ReadPacket("protocol", r)
    PROVE  /\ WellFormed(r)
           /\ r.method = "BLOCK_ASSERTION" => r.offset \notin Held
<1>1. IsSeq(Req) /\ Req # <<>> /\ r = Head(Req)
  BY DEF IndInv, Shape, Instances, Req, ReadPacket
<1>2. r \in Range(Req)
  BY <1>1, TailFacts
<1> QED BY <1>2 DEF IndInv, Asks, Apart, Asserting

\* Capabilities are never reduced by the protocol service.
LEMMA ReduceCapsInv ==
    ASSUME IndInv, NEW i \in Instances, NEW r, MapsUnchanged, DispatchReduceCaps(i, r)
    PROVE  IndInv'
<1> DEFINE s == ReduceCapsStatus(i, r)
           kept == IF s = "SUCCESS" THEN inst[i].caps \cap r.caps ELSE inst[i].caps
           rec == [inst[i] EXCEPT !.caps = kept]
<1>1. ReadPacket(i, r) /\ work' = work /\ r.method = "REDUCE_CAPS"
      /\ inst' = [inst EXCEPT ![i] = LoopFiber(SendResponse(rec, r.method, r.offset, s), s)]
  BY DEF DispatchReduceCaps
<1>2. i # "protocol"
  BY <1>1, HeadFacts DEF WellFormed
<1>3. DOMAIN rec = Fields /\ rec.outbound = inst[i].outbound
  BY DEF IndInv, Shape, Fields
<1> QED BY <1>1, <1>2, <1>3, AnswerInv

\* A cancel takes the assertion from the tree and is answered.
LEMMA CancelInv ==
    ASSUME IndInv, NEW i \in Instances, NEW r, MapsUnchanged,
           DispatchBlockAssertionCancel(i, r)
    PROVE  IndInv'
<1> DEFINE s == IF "BLOCK_ASSERTION" \notin inst[i].caps THEN "NOT_AUTHORIZED"
                ELSE IF r.size # 0 THEN "MALFORMED_REQUEST" ELSE "SUCCESS"
           left == {a \in inst[i].assertions : s = "SUCCESS" => a.offset # r.offset}
           rec == [inst[i] EXCEPT !.assertions = left]
<1>1. ReadPacket(i, r) /\ work' = work /\ r.method = "BLOCK_ASSERTION_CANCEL"
      /\ inst' = [inst EXCEPT ![i] = LoopFiber(SendResponse(rec, r.method, r.offset, s), s)]
  BY DEF DispatchBlockAssertionCancel
<1>2. /\ DOMAIN rec = Fields /\ rec.outbound = inst[i].outbound
      /\ rec.caps = inst[i].caps /\ rec.assertions = left
  BY DEF IndInv, Shape, Fields
<1>3. ASSUME i = "protocol"
      PROVE  rec.caps = Caps /\ {a.offset : a \in rec.assertions} = Held \ {r.offset}
  <2>1. r.size = 0 /\ inst[i].caps = Caps
    BY <1>1, <1>3, HeadFacts DEF IndInv, Asks, WellFormed
  <2>2. s = "SUCCESS"
    BY <2>1 DEF Caps
  <2>3. left = {a \in inst["protocol"].assertions : a.offset # r.offset}
    BY <1>3, <2>2
  <2> QED BY <1>2, <2>1, <2>3 DEF Held
<1> HIDE DEF s, rec
<1> QED BY <1>1, <1>2, <1>3, AnswerInv

\* An assertion is kept in the tree, or answered at once and not kept.
LEMMA AssertInv ==
    ASSUME IndInv, NEW i \in Instances, NEW r, MapsUnchanged, DispatchBlockAssertion(i, r)
    PROVE  IndInv'
<1> DEFINE valid == "BLOCK_ASSERTION" \in inst[i].caps /\ r.size = UuidBytes
           keep == valid /\ r.block = latest /\ ~Holds(i, r.offset)
           s == IF "BLOCK_ASSERTION" \notin inst[i].caps THEN "NOT_AUTHORIZED"
                ELSE IF r.size # UuidBytes THEN "MALFORMED_REQUEST"
                ELSE IF r.block = latest /\ Holds(i, r.offset) THEN "DUPLICATE"
                ELSE "SUCCESS"
           after == IF keep
                    THEN [inst[i] EXCEPT !.assertions = @ \cup {AssertionEntry(r)}]
                    ELSE SendResponse(inst[i], r.method, r.offset, s)
<1>1. ReadPacket(i, r) /\ work' = work /\ r.method = "BLOCK_ASSERTION"
  BY DEF DispatchBlockAssertion
<1>2. inst' = [inst EXCEPT ![i] = LoopFiber(after, s)]
  BY DEF DispatchBlockAssertion
<1>3. i = "protocol" => r.offset \notin Held /\ inst[i].caps = Caps
  BY <1>1, HeadFacts DEF IndInv, Asks
<1>4. DOMAIN inst[i] = Fields /\ IsSeq(inst[i].outbound)
  BY DEF IndInv, Shape
<1>5. CASE ~keep
  <2>1. inst' = [inst EXCEPT ![i] =
                    LoopFiber(SendResponse(inst[i], r.method, r.offset, s), s)]
    BY <1>5, <1>2
  <2>2. ASSUME i = "protocol"
        PROVE  inst[i].caps = Caps /\ {a.offset : a \in inst[i].assertions} = Held \ {r.offset}
    BY <1>3, <2>2 DEF Held
  <2> DEFINE rec == inst[i]
  <2>3. /\ DOMAIN rec = Fields /\ rec.outbound = inst[i].outbound
        /\ inst' = [inst EXCEPT ![i] = LoopFiber(SendResponse(rec, r.method, r.offset, s), s)]
        /\ i = "protocol" => /\ rec.caps = Caps
                             /\ {a.offset : a \in rec.assertions} = Held \ {r.offset}
    BY <1>4, <2>1, <2>2
  <2> HIDE DEF s, rec
  <2> QED BY <1>1, <2>3, AnswerInv
<1>6. CASE keep
  <2> DEFINE q == LoopFiber(after, s)
  <2>1. after = [inst[i] EXCEPT !.assertions = @ \cup {AssertionEntry(r)}]
    BY <1>6
  <2> HIDE DEF after, s
  <2>2. /\ DOMAIN q = Fields /\ q.outbound = inst[i].outbound /\ q.caps = inst[i].caps
        /\ q.assertions = inst[i].assertions \cup {AssertionEntry(r)}
        /\ q.fiber \in {"reading", "ended"}
    BY <1>4, <2>1 DEF LoopFiber, Fields
  <2> HIDE DEF q
  <2>3. /\ Shape'
        /\ inst'[i] = q /\ \A j \in Instances \ {i} : inst'[j] = inst[j] /\ wire'[j] = wire[j]
        /\ wire[i].req # <<>> /\ r = Head(wire[i].req)
        /\ wire'[i].req = Tail(wire[i].req) /\ wire'[i].resp = wire[i].resp
    <3>1. inst' = [inst EXCEPT ![i] = q]
      BY <1>2 DEF q
    <3> QED BY <1>1, <1>4, <2>2, <3>1, PacketFacts
  <2>4. CASE i # "protocol"
    BY <1>1, <2>3, <2>4, ElsewhereInv DEF Instances
  <2>5. CASE i = "protocol"
    <3>1. Req # <<>> /\ r = Head(Req) /\ Req' = Tail(Req)
      BY <2>3, <2>5 DEF Req
    <3>2. Held' = Held \cup {r.offset}
      <4> DEFINE e == AssertionEntry(r)
      <4>1. e.offset = r.offset
        BY DEF AssertionEntry
      <4>2. inst'["protocol"].assertions = inst["protocol"].assertions \cup {e}
        BY <2>2, <2>3, <2>5
      <4> HIDE DEF e
      <4> QED BY <4>1, <4>2 DEF Held
    <3>3. Answering' = Answering
      BY <1>1, <2>2, <2>3, <2>5 DEF Answering, Notifying
    <3>4. inst["protocol"].caps' = Caps /\ inst["protocol"].fiber' # "updating"
      BY <1>3, <2>2, <2>3, <2>5
    <3> QED BY <1>1, <2>3, <3>1, <3>2, <3>3, <3>4, ReadStepInv
  <2> QED BY <2>4, <2>5
<1> QED BY <1>5, <1>6

\* The protocol service sends no unknown request and no block update.
LEMMA RefusedInv ==
    ASSUME IndInv, NEW i \in Instances, NEW r, MapsUnchanged,
           DispatchUnknown(i, r) \/ RefuseBlockUpdate(i, r)
    PROVE  IndInv'
<1>1. PICK s : /\ ReadPacket(i, r) /\ work' = work
               /\ r.method = "BLOCK_UPDATE" \/ r.method \notin Caps
               /\ inst' = [inst EXCEPT ![i] =
                            LoopFiber(SendResponse(inst[i], r.method, r.offset, s), s)]
  BY DEF DispatchUnknown, RefuseBlockUpdate
<1>2. i # "protocol"
  BY <1>1, HeadFacts DEF WellFormed, Caps
<1>3. DOMAIN inst[i] = Fields
  BY DEF IndInv, Shape
<1> QED BY <1>1, <1>2, <1>3, AnswerInv

\* A block update empties the trees; what was held is now to be answered.
LEMMA UpdateInv ==
    ASSUME IndInv, NEW i \in Instances, NEW r, MapsUnchanged, DispatchBlockUpdate(i, r)
    PROVE  IndInv'
<1>1. /\ ReadPacket(i, r) /\ r.method = "BLOCK_UPDATE" /\ inst' = SwapTrees(i)
      /\ work' = [work EXCEPT ![i] = [todo |-> ToNotify, offset |-> r.offset]]
  BY DEF DispatchBlockUpdate
<1>2. i = "consensus"
  BY <1>1, HeadFacts DEF WellFormed, Instances
<1>3. wire[i].req # <<>> /\ wire' = [wire EXCEPT ![i].req = Tail(@)]
  BY <1>1 DEF ReadPacket
<1>4. IsSeq(Tail(wire[i].req))
  BY <1>3, TailFacts DEF IndInv, Shape
<1>5. /\ DOMAIN wire' = Instances /\ wire'["protocol"] = wire["protocol"]
      /\ DOMAIN wire'[i] = {"req", "resp", "peer"}
      /\ wire'[i].req = Tail(wire[i].req) /\ wire'[i].resp = wire[i].resp
  BY <1>2, <1>3 DEF IndInv, Shape, Instances
<1>6. /\ DOMAIN inst' = Instances
      /\ \A j \in Instances : /\ DOMAIN inst'[j] = Fields /\ inst'[j].assertions = {}
                              /\ inst'[j].outbound = inst[j].outbound
                              /\ inst'[j].caps = inst[j].caps
                              /\ j # i => inst'[j].fiber = inst[j].fiber
  BY <1>1 DEF SwapTrees, IndInv, Shape, Fields
<1>7. /\ DOMAIN work' = Instances /\ work'["protocol"] = work["protocol"]
      /\ DOMAIN work'[i] = {"todo", "offset"} /\ work'[i].todo = ToNotify
  BY <1>1, <1>2 DEF IndInv, Shape, Instances
<1>8. Shape'
  BY <1>2, <1>4, <1>5, <1>6, <1>7 DEF IndInv, Shape, Instances
<1>9. Req' = Req /\ Held' = {}
  BY <1>5, <1>6 DEF Req, Held, Instances
<1>10. Notifying("consensus")' \subseteq Held
  BY <1>2, <1>7 DEF Notifying, ToNotify, OfInstance, InstanceList, Held
<1>11. Answering' \subseteq Answering \cup Held
  <2>1. Notifying("protocol")' = Notifying("protocol")
    BY <1>7 DEF Notifying
  <2> QED BY <1>5, <1>6, <1>10, <2>1 DEF Answering, Instances
<1>12. inst["protocol"].caps' = Caps /\ inst["protocol"].fiber' # "updating"
  BY <1>2, <1>6 DEF IndInv, Asks, Instances
<1> QED BY <1>8, <1>9, <1>11, <1>12, OtherStepInv

\* What was to be answered is sent, or lost with a released context.
LEMMA NotifyInv ==
    ASSUME IndInv, NEW i \in Instances, MapsUnchanged,
           NotifyAssertion(i) \/ NotifyReleased(i)
    PROVE  IndInv'
<1>1. PICK a \in work[i].todo :
         /\ work' = [work EXCEPT ![i].todo = @ \ {a}] /\ wire' = wire
         /\ \/ inst' = inst
            \/ inst' = [inst EXCEPT ![a.inst] =
                           SendResponse(@, "BLOCK_ASSERTION", a.offset, "SUCCESS")]
  BY DEF NotifyAssertion, NotifyReleased
<1> DEFINE new == Response("BLOCK_ASSERTION", a.offset, "SUCCESS")
<1>2. /\ DOMAIN work' = Instances /\ \A j \in Instances \ {i} : work'[j] = work[j]
      /\ DOMAIN work'[i] = {"todo", "offset"} /\ work'[i].todo = work[i].todo \ {a}
  BY <1>1 DEF IndInv, Shape
<1>3. \A j \in Instances : Notifying(j)' \subseteq Notifying(j)
  BY <1>2 DEF Notifying
<1>4. new.offset = a.offset
  BY DEF Response
<1>5. /\ DOMAIN inst' = Instances
      /\ \A j \in Instances : /\ DOMAIN inst'[j] = Fields /\ inst'[j].caps = inst[j].caps
                              /\ inst'[j].assertions = inst[j].assertions
                              /\ inst'[j].fiber = inst[j].fiber
                              /\ \/ inst'[j].outbound = inst[j].outbound
                                 \/ /\ j = a.inst
                                    /\ inst'[j].outbound = Append(inst[j].outbound, new)
  BY <1>1 DEF IndInv, Shape, Fields, SendResponse
<1> HIDE DEF new
<1>6. \A j \in Instances : /\ IsSeq(inst'[j].outbound)
                           /\ \/ inst'[j].outbound = inst[j].outbound
                              \/ /\ j = a.inst
                                 /\ Range(inst'[j].outbound) = Range(inst[j].outbound) \cup {new}
  <2>1. \A j \in Instances : /\ IsSeq(inst[j].outbound)
                             /\ IsSeq(Append(inst[j].outbound, new))
                             /\ Range(Append(inst[j].outbound, new)) =
                                   Range(inst[j].outbound) \cup {new}
    BY AppendFacts DEF IndInv, Shape
  <2> QED BY <1>5, <2>1, Zenon
<1>7. Shape'
  BY <1>1, <1>2, <1>5, <1>6 DEF IndInv, Shape
<1>8. "protocol" \in Instances /\ "consensus" \in Instances
      /\ \A j \in Instances : j \in {"protocol", "consensus"}
  BY DEF Instances
<1>9. Req' = Req /\ Held' = Held
  BY <1>1, <1>5, <1>8 DEF Req, Held
<1>10. Answering' \subseteq Answering
  <2>1. a.inst = "protocol" => a.offset \in Answering
    BY <1>8 DEF Answering, Notifying
  <2>2. \A x \in Range(inst'["protocol"].outbound) :
           x \in Range(inst["protocol"].outbound) \/ (x = new /\ a.inst = "protocol")
    BY <1>6, <1>8
  <2>3. \A x \in Range(inst'["protocol"].outbound) : x.offset \in Answering
    BY <1>4, <2>1, <2>2 DEF Answering
  <2>4. \A x \in Range(wire'["protocol"].resp) : x.offset \in Answering
    BY <1>1 DEF Answering
  <2>5. Notifying("protocol")' \subseteq Answering /\ Notifying("consensus")' \subseteq Answering
    BY <1>3, <1>8 DEF Answering
  <2> QED BY <2>3, <2>4, <2>5 DEF Answering
<1>11. inst["protocol"].caps' = Caps /\ inst["protocol"].fiber' # "updating"
  BY <1>5, <1>8 DEF IndInv, Asks
<1> QED BY <1>7, <1>9, <1>10, <1>11, OtherStepInv

\* The update itself is answered by the instance that sent it.
LEMMA FinishInv ==
    ASSUME IndInv, NEW i \in Instances, MapsUnchanged, FinishBlockUpdate(i)
    PROVE  IndInv'
<1>1. i = "consensus"
  BY DEF FinishBlockUpdate, IndInv, Asks, Instances
<1> DEFINE out == Append(inst[i].outbound, Response("BLOCK_UPDATE", work[i].offset, "SUCCESS"))
<1>2. IsSeq(out)
  BY AppendFacts DEF IndInv, Shape
<1>3. inst' = [inst EXCEPT ![i] =
                 [[@ EXCEPT !.outbound = out] EXCEPT
                     !.fiber = IF Goes("SUCCESS") THEN "reading" ELSE "ended"]]
  BY DEF FinishBlockUpdate, LoopFiber, SendResponse
<1> HIDE DEF out
<1>4. /\ DOMAIN inst' = Instances /\ inst'["protocol"] = inst["protocol"]
      /\ DOMAIN inst'[i] = Fields /\ inst'[i].outbound = out
  BY <1>1, <1>3 DEF IndInv, Shape, Instances, Fields
<1>5. /\ DOMAIN work' = Instances /\ work'["protocol"] = work["protocol"]
      /\ DOMAIN work'[i] = {"todo", "offset"} /\ work'[i].todo = {} /\ wire' = wire
  BY <1>1 DEF FinishBlockUpdate, IndInv, Shape, Instances, NoWork
<1>6. Shape'
  BY <1>1, <1>2, <1>4, <1>5 DEF IndInv, Shape, Instances
<1>7. Req' = Req /\ Held' = Held
  BY <1>4, <1>5 DEF Req, Held
<1>8. Answering' \subseteq Answering
  BY <1>1, <1>4, <1>5 DEF Answering, Notifying
<1>9. inst["protocol"].caps' = Caps /\ inst["protocol"].fiber' # "updating"
  BY <1>4 DEF IndInv, Asks
<1> QED BY <1>6, <1>7, <1>8, <1>9, OtherStepInv

\* The fiber of an instance ends.
LEMMA ReadFailsInv ==
    ASSUME IndInv, NEW i \in Instances, MapsUnchanged, ReadFails(i)
    PROVE  IndInv'
<1>1. inst' = [inst EXCEPT ![i].fiber = "ended"] /\ wire' = wire /\ work' = work
  BY DEF ReadFails
<1>2. /\ DOMAIN inst' = Instances
      /\ \A j \in Instances : /\ DOMAIN inst'[j] = Fields
                              /\ inst'[j].outbound = inst[j].outbound
                              /\ inst'[j].assertions = inst[j].assertions
                              /\ inst'[j].caps = inst[j].caps
                              /\ inst'[j].fiber \in {inst[j].fiber, "ended"}
  BY <1>1 DEF IndInv, Shape, Fields
<1>3. Shape'
  BY <1>1, <1>2 DEF IndInv, Shape
<1>4. Req' = Req /\ Held' = Held /\ Answering' = Answering
  BY <1>1, <1>2 DEF Req, Held, Answering, Notifying, Instances
<1>5. inst["protocol"].caps' = Caps /\ inst["protocol"].fiber' # "updating"
  BY <1>2 DEF IndInv, Asks, Instances
<1> QED BY <1>3, <1>4, <1>5, OtherStepInv

\* A response goes from the mailbox to the socket, or is lost.
LEMMA OutboundInv ==
    ASSUME IndInv, NEW i \in Instances, MapsUnchanged, OutboundEndpoint(i)
    PROVE  IndInv'
<1> DEFINE out == inst[i].outbound
<1>1. out # <<>> /\ IsSeq(out) /\ IsSeq(Tail(out)) /\ Range(out) = Range(Tail(out)) \cup {Head(out)}
  BY TailFacts DEF OutboundEndpoint, IndInv, Shape
<1>2. /\ IsSeq(Append(wire[i].resp, Head(out)))
      /\ Range(Append(wire[i].resp, Head(out))) = Range(wire[i].resp) \cup {Head(out)}
  BY AppendFacts DEF IndInv, Shape
<1>3. /\ DOMAIN inst' = Instances
      /\ \A j \in Instances \ {i} : inst'[j] = inst[j]
      /\ DOMAIN inst'[i] = Fields /\ inst'[i].outbound = Tail(out)
      /\ inst'[i].assertions = inst[i].assertions /\ inst'[i].caps = inst[i].caps
      /\ inst'[i].fiber = inst[i].fiber
  <2>1. \/ inst' = [inst EXCEPT ![i].outbound = Tail(@)]
        \/ inst' = [inst EXCEPT ![i].outbound = Tail(@), ![i].endpoint = FALSE]
    BY DEF OutboundEndpoint
  <2>2. DOMAIN inst = Instances /\ DOMAIN inst[i] = Fields
    BY DEF IndInv, Shape
  <2>3. CASE inst' = [inst EXCEPT ![i].outbound = Tail(@)]
    BY <2>2, <2>3 DEF Fields
  <2>4. CASE inst' = [inst EXCEPT ![i].outbound = Tail(@), ![i].endpoint = FALSE]
    BY <2>2, <2>4 DEF Fields
  <2> QED BY <2>1, <2>3, <2>4
<1>4. /\ DOMAIN wire' = Instances
      /\ \A j \in Instances \ {i} : wire'[j] = wire[j]
      /\ DOMAIN wire'[i] = {"req", "resp", "peer"} /\ wire'[i].req = wire[i].req
      /\ wire'[i].resp \in {wire[i].resp, Append(wire[i].resp, Head(out))}
  BY DEF OutboundEndpoint, IndInv, Shape
<1>5. work' = work
  BY DEF OutboundEndpoint
<1>6. Shape'
  <2>1. IsSeq(wire'[i].req) /\ IsSeq(wire'[i].resp) /\ IsSeq(inst'[i].outbound)
    BY <1>1, <1>2, <1>3, <1>4 DEF IndInv, Shape
  <2>2. \A j \in Instances \ {i} :
          /\ DOMAIN wire'[j] = {"req", "resp", "peer"} /\ DOMAIN inst'[j] = Fields
          /\ IsSeq(wire'[j].req) /\ IsSeq(wire'[j].resp) /\ IsSeq(inst'[j].outbound)
    BY <1>3, <1>4 DEF IndInv, Shape
  <2>3. DOMAIN work' = Instances /\ \A j \in Instances : DOMAIN work'[j] = {"todo", "offset"}
    BY <1>5 DEF IndInv, Shape
  <2>4. \A j \in Instances :
          /\ DOMAIN wire'[j] = {"req", "resp", "peer"} /\ DOMAIN inst'[j] = Fields
          /\ IsSeq(wire'[j].req) /\ IsSeq(wire'[j].resp) /\ IsSeq(inst'[j].outbound)
    BY <1>3, <1>4, <2>1, <2>2
  <2> QED BY <1>3, <1>4, <2>3, <2>4 DEF Shape
<1>7. Range(inst'[i].outbound) \cup Range(wire'[i].resp) \subseteq Range(out) \cup Range(wire[i].resp)
  BY <1>1, <1>2, <1>3, <1>4
<1>8. \A j \in Instances : /\ wire'[j].req = wire[j].req
                           /\ inst'[j].assertions = inst[j].assertions
                           /\ inst'[j].caps = inst[j].caps /\ inst'[j].fiber = inst[j].fiber
  BY <1>3, <1>4
<1>9. Range(inst'["protocol"].outbound) \cup Range(wire'["protocol"].resp)
         \subseteq Range(inst["protocol"].outbound) \cup Range(wire["protocol"].resp)
  BY <1>3, <1>4, <1>7 DEF Instances
<1>10. Req' = Req /\ Held' = Held /\ inst["protocol"].caps' = Caps
       /\ inst["protocol"].fiber' # "updating"
  BY <1>8 DEF Req, Held, Instances, IndInv, Asks
<1>11. Answering' \subseteq Answering
  BY <1>5, <1>9 DEF Answering, Notifying
<1> QED BY <1>6, <1>10, <1>11, OtherStepInv

\* All steps of the notification service.
LEMMA FiberStepInv ==
    ASSUME IndInv, NEW i \in Instances, MapsUnchanged, FiberStep(i)
    PROVE  IndInv'
  BY ReduceCapsInv, AssertInv, CancelInv, RefusedInv, UpdateInv, NotifyInv, FinishInv,
     ReadFailsInv, OutboundInv DEF FiberStep

-----------------------------------------------------------------------------
(* The steps of the protocol service and of the world outside. *)

\* A client map and a server map are the inverse of each other.
Inverted(cm, sm) ==
    /\ \A c \in DOMAIN cm : cm[c] \in DOMAIN sm /\ sm[cm[c]].client = c
    /\ \A n \in DOMAIN sm : sm[n].client \in DOMAIN cm /\ cm[sm[n].client] = n

Inverses == Inverted(clientMap, serverMap)

\* Steps that neither the notification service nor its sockets nor the maps notice.
LEMMA QuietInv ==
    ASSUME IndInv, MapsUnchanged, UNCHANGED <<inst, work, wire>>
    PROVE  IndInv'
<1>1. Shape'
  BY DEF IndInv, Shape
<1> QED BY <1>1, ElsewhereInv

\* Steps at the socket of the canonization service, or at the state of a peer.
LEMMA OutsideInv ==
    ASSUME IndInv, MapsUnchanged, UNCHANGED <<inst, work>>, Shape',
           wire'["protocol"].req = wire["protocol"].req,
           wire'["protocol"].resp = wire["protocol"].resp
    PROVE  IndInv'
<1>1. Req' = Req /\ Held' = Held /\ Answering' = Answering
  BY DEF Req, Held, Answering, Notifying
<1>2. inst["protocol"].caps' = Caps /\ inst["protocol"].fiber' # "updating"
  BY DEF IndInv, Asks
<1> QED BY <1>1, <1>2, OtherStepInv

\* The state of a peer changes.
LEMMA PeerInv ==
    ASSUME IndInv, NEW i \in Instances, NEW p, wire' = [wire EXCEPT ![i].peer = p],
           UNCHANGED <<inst, work>>, MapsUnchanged
    PROVE  IndInv'
<1>1. /\ DOMAIN wire' = Instances
      /\ \A j \in Instances : /\ DOMAIN wire'[j] = {"req", "resp", "peer"}
                              /\ wire'[j].req = wire[j].req /\ wire'[j].resp = wire[j].resp
  BY DEF IndInv, Shape
<1>2. Shape'
  BY <1>1 DEF IndInv, Shape
<1>3. wire'["protocol"].req = wire["protocol"].req /\ wire'["protocol"].resp = wire["protocol"].resp
  BY <1>1 DEF Instances
<1> QED BY <1>2, <1>3, OutsideInv

\* The canonization service or the supervisor ends.
LEMMA PeersInv ==
    ASSUME IndInv, CanonizationEnds \/ SupervisorEnds
    PROVE  IndInv'
<1>1. UNCHANGED <<inst, work>> /\ MapsUnchanged /\ "protocol" \in Instances
      /\ "consensus" \in Instances
  BY DEF CanonizationEnds, SupervisorEnds, svars, epvars, MapsUnchanged, Instances
<1>2. CASE CanonizationEnds
  BY <1>1, <1>2, PeerInv DEF CanonizationEnds
<1>3. CASE SupervisorEnds
  BY <1>1, <1>3, PeerInv DEF SupervisorEnds, ProtocolEnd
<1> QED BY <1>2, <1>3

\* A request of the canonization service.
LEMMA CanonizationInv ==
    ASSUME IndInv, Announce \/ SendOdd
    PROVE  IndInv'
<1>1. PICK r : \/ wire' = [wire EXCEPT !["consensus"].resp = <<>>, !["consensus"].req = Append(@, r)]
               \/ wire' = [wire EXCEPT !["consensus"].req = Append(@, r)]
  BY DEF Announce, SendOdd
<1> DEFINE q == Append(wire["consensus"].req, r)
<1>2. IsSeq(q) /\ IsSeq(<<>>) /\ "consensus" \in Instances /\ "protocol" \in Instances
  <2>1. IsSeq(<<>>) /\ "consensus" \in Instances /\ "protocol" \in Instances
    BY DEF IsSeq, Range, Instances
  <2> QED BY <2>1, AppendFacts DEF IndInv, Shape
<1>3. /\ DOMAIN wire' = Instances /\ wire'["protocol"] = wire["protocol"]
      /\ DOMAIN wire'["consensus"] = {"req", "resp", "peer"} /\ wire'["consensus"].req = q
      /\ wire'["consensus"].resp \in {<<>>, wire["consensus"].resp}
  <2>1. DOMAIN wire = Instances /\ DOMAIN wire["consensus"] = {"req", "resp", "peer"}
    BY <1>2 DEF IndInv, Shape
  <2>2. CASE wire' = [wire EXCEPT !["consensus"].req = Append(@, r)]
    BY <1>2, <2>1, <2>2
  <2>3. CASE wire' = [wire EXCEPT !["consensus"].resp = <<>>, !["consensus"].req = Append(@, r)]
    BY <1>2, <2>1, <2>3
  <2> QED BY <1>1, <2>2, <2>3
<1> HIDE DEF q
<1>4. UNCHANGED <<inst, work>> /\ MapsUnchanged
  BY DEF Announce, SendOdd, svars, epvars, MapsUnchanged
<1>5. Shape'
  BY <1>2, <1>3, <1>4 DEF IndInv, Shape, Instances
<1> QED BY <1>3, <1>4, <1>5, OutsideInv

\* A request that the endpoint appends: an assertion under a new offset, which has its
\* way back, or a cancel under an offset that was given.
LEMMA AskInv ==
    ASSUME IndInv, Served, UNCHANGED <<inst, work>>, NEW r,
           wire' = [wire EXCEPT !["protocol"].req = Append(@, r)],
           WellFormed(r), counter' \in {counter, counter + 1}, r.offset \in 1 .. counter',
           r.method = "BLOCK_ASSERTION" => r.offset = counter + 1 /\ r.offset \in DOMAIN serverMap',
           DOMAIN serverMap \subseteq DOMAIN serverMap', DOMAIN serverMap' \subseteq 1 .. counter',
           Inverses'
    PROVE  IndInv'
<1>1. "protocol" \in Instances /\ IsSeq(Req) /\ counter \in Nat
  BY DEF IndInv, Shape, Req, Instances, Given
<1>2. /\ DOMAIN wire' = Instances /\ Req' = Append(Req, r)
      /\ DOMAIN wire'["protocol"] = {"req", "resp", "peer"}
      /\ wire'["protocol"].resp = wire["protocol"].resp
      /\ \A j \in Instances \ {"protocol"} : wire'[j] = wire[j]
  BY <1>1 DEF IndInv, Shape, Req
<1>3. /\ IsSeq(Req') /\ Len(Req) \in Nat /\ Len(Req') = Len(Req) + 1
      /\ \A j \in 1 .. Len(Req) : Req'[j] = Req[j]
      /\ Req'[Len(Req) + 1] = r /\ Range(Req') = Range(Req) \cup {r}
  BY <1>1, <1>2, AppendFacts
<1>4. Shape'
  <2>1. IsSeq(wire'["protocol"].req)
    BY <1>3 DEF Req
  <2> QED BY <1>2, <2>1 DEF IndInv, Shape
<1>5. Held' = Held /\ Answering' = Answering
  BY <1>2 DEF Held, Answering, Notifying
<1>6. Asks'
  BY <1>3 DEF IndInv, Asks, WellFormed
<1>7. 1 .. counter \subseteq 1 .. counter' /\ counter' \in Nat /\ counter + 1 \notin 1 .. counter
  BY <1>1
<1>8. Given'
  BY <1>3, <1>5, <1>7 DEF IndInv, Given
<1>9. Held \subseteq 1 .. counter /\ Answering \subseteq 1 .. counter
  BY DEF IndInv, Given
<1>10. Asserting' = Asserting
          \cup (IF r.method = "BLOCK_ASSERTION" THEN {r.offset} ELSE {})
  BY <1>3 DEF Asserting
<1>11. Apart'
  BY <1>5, <1>7, <1>9, <1>10 DEF IndInv, Apart
<1>12. InTurn'
  <2> SUFFICES ASSUME NEW j \in 1 .. Len(Req'), NEW k \in 1 .. Len(Req'), j < k,
                      Req'[k].method = "BLOCK_ASSERTION"
               PROVE  Req'[j].offset # Req'[k].offset
    BY DEF InTurn
  <2>1. j \in 1 .. Len(Req) /\ Req'[j] = Req[j]
    BY <1>3
  <2>2. CASE k = Len(Req) + 1
    <3>1. Req[j] \in Range(Req)
      BY <1>1, <2>1 DEF IsSeq, Range
    <3>2. Req[j].offset \in 1 .. counter
      BY <3>1 DEF IndInv, Given
    <3> QED BY <1>3, <1>7, <2>1, <2>2, <3>2
  <2>3. CASE k # Len(Req) + 1
    <3>1. k \in 1 .. Len(Req) /\ Req'[k] = Req[k]
      BY <1>3, <2>3
    <3> QED BY <2>1, <3>1 DEF IndInv, InTurn
  <2> QED BY <2>2, <2>3
<1>13. HeldIsTranslated'
  <2>1. \A a \in inst["protocol"].assertions : a.offset \in DOMAIN serverMap'
    BY DEF IndInv, HeldIsTranslated
  <2>2. \A x \in Range(Req') : x.method = "BLOCK_ASSERTION" => x.offset \in DOMAIN serverMap'
    BY <1>3 DEF IndInv, HeldIsTranslated, Req
  <2> QED BY <2>1, <2>2 DEF HeldIsTranslated, Inverses, Inverted, Req
<1> QED BY <1>4, <1>6, <1>8, <1>11, <1>12, <1>13 DEF IndInv

\* What xlat_map_add does under the offset that comes next.
LEMMA AddFacts ==
    ASSUME IndInv, NEW m, m.client \notin DOMAIN clientMap
    PROVE  /\ DOMAIN ServerMapAdd(m) = DOMAIN serverMap \cup {counter + 1}
           /\ Inverted(ClientMapAdd(m), ServerMapAdd(m))
<1> DEFINE n == counter + 1
           c == m.client
           cm == ClientMapAdd(m)
           sm == ServerMapAdd(m)
<1>1. n \notin DOMAIN serverMap
  BY DEF IndInv, Given
<1>2. /\ DOMAIN cm = DOMAIN clientMap \cup {c} /\ cm[c] = n
      /\ \A d \in DOMAIN clientMap : cm[d] = clientMap[d]
  BY DEF ClientMapAdd, NextOffset, With
<1>3. /\ DOMAIN sm = DOMAIN serverMap \cup {n} /\ sm[n].client = c
      /\ \A k \in DOMAIN serverMap : sm[k] = serverMap[k]
  BY <1>1 DEF ServerMapAdd, NextOffset, With
<1>4. Inverted(clientMap, serverMap)
  BY DEF IndInv, HeldIsTranslated, Inverted
<1>5. c \notin DOMAIN clientMap
  OBVIOUS
<1> HIDE DEF n, c, cm, sm
<1>6. \A d \in DOMAIN cm : cm[d] \in DOMAIN sm /\ sm[cm[d]].client = d
  BY <1>2, <1>3, <1>4 DEF Inverted
<1>7. \A k \in DOMAIN sm : sm[k].client \in DOMAIN cm /\ cm[sm[k].client] = k
  BY <1>2, <1>3, <1>4, <1>5 DEF Inverted
<1> QED BY <1>3, <1>6, <1>7 DEF Inverted, n, cm, sm

\* What the lookup of an offset leaves.
LEMMA LookupFacts ==
    ASSUME IndInv, NEW n \in DOMAIN serverMap
    PROVE  /\ DOMAIN Lookup(n).server = DOMAIN serverMap \ {n}
           /\ Inverted(Lookup(n).client, Lookup(n).server)
<1> DEFINE c == serverMap[n].client
           cm == Without(clientMap, c)
           sm == Without(serverMap, n)
<1>1. Lookup(n).client = cm /\ Lookup(n).server = sm
  BY DEF Lookup
<1>2. /\ DOMAIN cm = DOMAIN clientMap \ {c} /\ \A d \in DOMAIN cm : cm[d] = clientMap[d]
      /\ DOMAIN sm = DOMAIN serverMap \ {n} /\ \A k \in DOMAIN sm : sm[k] = serverMap[k]
  BY DEF Without
<1>3. Inverted(clientMap, serverMap)
  BY DEF IndInv, HeldIsTranslated, Inverted
<1>4. c \in DOMAIN clientMap /\ clientMap[c] = n
  BY <1>3 DEF Inverted
<1> HIDE DEF cm, sm
<1>5. \A d \in DOMAIN cm : cm[d] \in DOMAIN sm /\ sm[cm[d]].client = d
  BY <1>2, <1>3 DEF Inverted
<1>6. \A k \in DOMAIN sm : sm[k].client \in DOMAIN cm /\ cm[sm[k].client] = k
  BY <1>2, <1>3, <1>4 DEF Inverted
<1> QED BY <1>1, <1>2, <1>5, <1>6 DEF Inverted

\* What is left of the maps when e and w are left of the fibers.
LEMMA ReleaseFacts ==
    ASSUME NEW e, NEW w, NEW box, NEW cm, NEW sm, Inverted(cm, sm),
           FiberContextRelease(e, w, box, cm, sm)
    PROVE  /\ Inverses' /\ DOMAIN serverMap' \subseteq DOMAIN sm
           /\ Served' => (e \/ w) /\ clientMap' = cm /\ serverMap' = sm
<1>1. Inverted(<<>>, <<>>) /\ DOMAIN <<>> = {}
  BY DEF Inverted
<1>2. CASE e \/ w
  BY <1>2 DEF FiberContextRelease, Inverses
<1>3. CASE ~(e \/ w)
  <2>1. clientMap' = <<>> /\ serverMap' = <<>> /\ ~Served'
    BY <1>3 DEF FiberContextRelease, Served
  <2> QED BY <1>1, <2>1 DEF Inverses
<1> QED BY <1>2, <1>3

\* Steps at the maps, while nothing is asked and responses may be taken.
LEMMA MapsStepInv ==
    ASSUME IndInv, Shape', UNCHANGED <<inst, work>>, Req' = Req, Answering' \subseteq Answering,
           counter' \in {counter, counter + 1}, DOMAIN serverMap' \subseteq 1 .. counter', Inverses',
           Served' => Held \subseteq DOMAIN serverMap' /\ Asserting \subseteq DOMAIN serverMap'
    PROVE  IndInv'
<1>1. Held' = Held /\ Asserting' = Asserting
  BY DEF Held, Asserting
<1>2. 1 .. counter \subseteq 1 .. counter' /\ counter' \in Nat
  BY DEF IndInv, Given
<1>3. Given'
  BY <1>1, <1>2 DEF IndInv, Given
<1>4. Asks' /\ InTurn' /\ Apart'
  BY <1>1 DEF IndInv, Asks, WellFormed, InTurn, Apart
<1>5. Served' => \A a \in inst'["protocol"].assertions : a.offset \in DOMAIN serverMap'
  BY DEF Held
<1>6. Served' => \A x \in Range(Req') : x.method = "BLOCK_ASSERTION" => x.offset \in DOMAIN serverMap'
  BY DEF Asserting
<1>7. HeldIsTranslated'
  BY <1>5, <1>6 DEF HeldIsTranslated, Inverses, Inverted, Req
<1> QED BY <1>3, <1>4, <1>7 DEF IndInv

\* The socket of the protocol service when a fiber has ended and q are its responses.
LEMMA SocketFacts ==
    ASSUME IndInv, NEW p, NEW q, IsSeq(q), UNCHANGED <<inst, work>>,
           \/ wire' = [wire EXCEPT !["protocol"].peer = p] /\ q = wire["protocol"].resp
           \/ wire' = [wire EXCEPT !["protocol"].resp = q]
           \/ wire' = [[wire EXCEPT !["protocol"].peer = p] EXCEPT !["protocol"].resp = q],
           Range(q) \subseteq Range(wire["protocol"].resp)
    PROVE  Shape' /\ Req' = Req /\ Answering' \subseteq Answering
<1>1. "protocol" \in Instances /\ DOMAIN wire = Instances
      /\ DOMAIN wire["protocol"] = {"req", "resp", "peer"}
  BY DEF IndInv, Shape, Instances
<1>2. /\ DOMAIN wire' = Instances /\ \A j \in Instances \ {"protocol"} : wire'[j] = wire[j]
      /\ DOMAIN wire'["protocol"] = {"req", "resp", "peer"}
      /\ wire'["protocol"].req = wire["protocol"].req /\ wire'["protocol"].resp = q
  <2>1. CASE wire' = [wire EXCEPT !["protocol"].peer = p] /\ q = wire["protocol"].resp
    BY <1>1, <2>1
  <2>2. CASE wire' = [wire EXCEPT !["protocol"].resp = q]
    BY <1>1, <2>2
  <2>3. CASE wire' = [[wire EXCEPT !["protocol"].peer = p] EXCEPT !["protocol"].resp = q]
    BY <1>1, <2>3
  <2> QED BY <2>1, <2>2, <2>3
<1>3. Shape'
  BY <1>2 DEF IndInv, Shape
<1>4. Req' = Req /\ Answering' \subseteq Answering
  BY <1>2 DEF Req, Answering, Notifying
<1> QED BY <1>3, <1>4

\* An assertion is forwarded.
LEMMA EndpointAssertInv ==
    ASSUME IndInv, EndpointAssert
    PROVE  IndInv'
<1> DEFINE m == Head(notifybox)
           r == SendreqBlockAssertion(counter + 1, m.block)
<1>1. UNCHANGED <<inst, work>> /\ counter' = counter + 1 /\ counter \in Nat /\ Served
  BY DEF EndpointAssert, svars, NextOffset, IndInv, Given, Served
<1>2. /\ m.client \notin DOMAIN clientMap
      /\ clientMap' = ClientMapAdd(m) /\ serverMap' = ServerMapAdd(m)
      /\ wire' = [wire EXCEPT !["protocol"].req = Append(@, r)]
  BY DEF EndpointAssert, NextOffset
<1>3. WellFormed(r) /\ r.offset = counter + 1
  BY DEF SendreqBlockAssertion, WellFormed
<1> HIDE DEF r, m
<1>4. DOMAIN serverMap' = DOMAIN serverMap \cup {counter + 1} /\ Inverses'
  BY <1>2, AddFacts DEF Inverses
<1>5. DOMAIN serverMap \subseteq 1 .. counter
  BY DEF IndInv, Given
<1>6. DOMAIN serverMap' \subseteq 1 .. counter' /\ r.offset \in 1 .. counter'
  BY <1>1, <1>3, <1>4, <1>5
<1> QED BY <1>1, <1>2, <1>3, <1>4, <1>6, AskInv

\* A cancel is forwarded.
LEMMA EndpointCancelInv ==
    ASSUME IndInv, EndpointCancel
    PROVE  IndInv'
<1> DEFINE n == clientMap[Head(notifybox).client]
           r == SendreqAssertionCancel(n)
<1>1. UNCHANGED <<inst, work>> /\ UNCHANGED <<clientMap, serverMap, counter>> /\ counter \in Nat
      /\ Served
  BY DEF EndpointCancel, svars, IndInv, Given, Served
<1>2. wire' = [wire EXCEPT !["protocol"].req = Append(@, r)]
  BY DEF EndpointCancel
<1>3. DOMAIN serverMap \subseteq 1 .. counter /\ n \in DOMAIN serverMap
  BY DEF EndpointCancel, IndInv, Given, HeldIsTranslated
<1>4. WellFormed(r) /\ r.offset = n /\ r.method # "BLOCK_ASSERTION"
  BY DEF SendreqAssertionCancel, WellFormed
<1>5. Inverses'
  BY <1>1 DEF IndInv, HeldIsTranslated, Inverses, Inverted
<1> HIDE DEF r, n
<1> QED BY <1>1, <1>2, <1>3, <1>4, <1>5, AskInv

\* What is asked or held has its way back as long as there is one.
LEMMA WaysBack ==
    ASSUME IndInv, Served
    PROVE  Held \subseteq DOMAIN serverMap /\ Asserting \subseteq DOMAIN serverMap
  BY DEF IndInv, HeldIsTranslated, Held, Asserting, Req

\* The endpoint fiber ends; the maps may have got an entry for a request that was not
\* sent, or they are gone.
LEMMA EndpointFailsInv ==
    ASSUME IndInv, EndpointFails
    PROVE  IndInv'
<1> DEFINE m == Head(notifybox)
           box == Tail(notifybox)
<1>1. /\ UNCHANGED <<inst, work>> /\ endpoint
      /\ wire' = [wire EXCEPT !["protocol"].peer = supervised \/ FALSE \/ writer]
  BY DEF EndpointFails, svars, ProtocolEnd
<1>2. PICK cm, sm :
         /\ FiberContextRelease(FALSE, writer, box, cm, sm) /\ counter' \in {counter, counter + 1}
         /\ \/ cm = clientMap /\ sm = serverMap
            \/ /\ m.client \notin DOMAIN clientMap /\ counter' = counter + 1
               /\ cm = ClientMapAdd(m) /\ sm = ServerMapAdd(m)
  BY Zenon DEF EndpointFails, NextOffset
<1> HIDE DEF m, box
<1>3. Inverted(cm, sm) /\ DOMAIN serverMap \subseteq DOMAIN sm /\ DOMAIN sm \subseteq 1 .. counter'
  <2>1. CASE cm = clientMap /\ sm = serverMap
    BY <1>2, <2>1 DEF IndInv, HeldIsTranslated, Inverted, Given
  <2>2. CASE /\ m.client \notin DOMAIN clientMap /\ counter' = counter + 1
             /\ cm = ClientMapAdd(m) /\ sm = ServerMapAdd(m)
    <3>1. DOMAIN sm = DOMAIN serverMap \cup {counter + 1} /\ Inverted(cm, sm)
      BY <2>2, AddFacts
    <3> QED BY <2>2, <3>1 DEF IndInv, Given
  <2> QED BY <1>2, <2>1, <2>2
<1>4. /\ Inverses' /\ DOMAIN serverMap' \subseteq DOMAIN sm
      /\ Served' => serverMap' = sm
  BY <1>2, <1>3, ReleaseFacts
<1>5. Served
  BY <1>1 DEF Served
<1>6. Shape' /\ Req' = Req /\ Answering' \subseteq Answering
  <2>1. IsSeq(wire["protocol"].resp)
    BY DEF IndInv, Shape, Instances
  <2> QED BY <1>1, <2>1, SocketFacts
<1>7. Served' => Held \subseteq DOMAIN serverMap' /\ Asserting \subseteq DOMAIN serverMap'
  BY <1>3, <1>4, <1>5, WaysBack
<1> QED BY <1>1, <1>2, <1>3, <1>4, <1>6, <1>7, MapsStepInv

\* A response leaves the socket, and an entry with its offset leaves the maps; a response
\* to nobody ends the fiber.
LEMMA WriteEndpointInv ==
    ASSUME IndInv, WriteEndpointPasses \/ WriteEndpointDrops
    PROVE  IndInv'
<1> DEFINE resp == wire["protocol"].resp
           n == Head(resp).offset
<1>1. resp # <<>> /\ UNCHANGED <<inst, work, counter>> /\ writer
  BY DEF WriteEndpointPasses, WriteEndpointDrops, svars, pvars, epvars
<1>2. PICK p : \/ wire' = [wire EXCEPT !["protocol"].resp = Tail(resp)]
               \/ wire' = [[wire EXCEPT !["protocol"].peer = p] EXCEPT !["protocol"].resp = Tail(resp)]
  <2>1. CASE WriteEndpointDrops
    BY <2>1 DEF WriteEndpointDrops
  <2>2. CASE WriteEndpointPasses
    <3>1. PICK p : wire' = [[wire EXCEPT !["protocol"].peer = p] EXCEPT !["protocol"].resp = Tail(@)]
      BY Zenon, <2>2 DEF WriteEndpointPasses, ProtocolEnd
    <3>2. [wire EXCEPT !["protocol"].peer = p]["protocol"].resp = resp
      BY DEF IndInv, Shape, Instances
    <3> QED BY <3>1, <3>2
  <2> QED BY <2>1, <2>2
<1>3. IsSeq(resp) /\ IsSeq(Tail(resp)) /\ Range(resp) = Range(Tail(resp)) \cup {Head(resp)}
  <2>1. IsSeq(resp)
    BY DEF IndInv, Shape, Instances
  <2> QED BY <1>1, <2>1, TailFacts
<1>4. Shape' /\ Req' = Req /\ Answering' \subseteq Answering
  BY <1>1, <1>2, <1>3, SocketFacts
<1>5. n \notin Held /\ n \notin Asserting
  <2>1. n \in Answering
    BY <1>3 DEF Answering
  <2> QED BY <2>1 DEF IndInv, Apart
<1>6. Held \subseteq DOMAIN serverMap /\ Asserting \subseteq DOMAIN serverMap
  BY <1>1, WaysBack DEF Served
<1>7. DOMAIN serverMap \subseteq 1 .. counter
  BY DEF IndInv, Given
<1>8. /\ DOMAIN serverMap' \subseteq DOMAIN serverMap /\ Inverses'
      /\ Served' => DOMAIN serverMap \ {n} \subseteq DOMAIN serverMap'
  <2>1. CASE WriteEndpointDrops
    <3>1. UNCHANGED <<clientMap, serverMap>>
      BY <2>1 DEF WriteEndpointDrops, pvars, epvars
    <3> QED BY <3>1 DEF IndInv, HeldIsTranslated, Inverses, Inverted
  <2>2. CASE WriteEndpointPasses
    <3>1. PICK w : /\ n \in DOMAIN serverMap
                   /\ FiberContextRelease(endpoint, w, notifybox, Lookup(n).client, Lookup(n).server)
      BY Zenon, <2>2 DEF WriteEndpointPasses
    <3> HIDE DEF n
    <3>2. DOMAIN Lookup(n).server = DOMAIN serverMap \ {n}
          /\ Inverted(Lookup(n).client, Lookup(n).server)
      BY <3>1, LookupFacts
    <3>3. PICK cm, sm : cm = Lookup(n).client /\ sm = Lookup(n).server
      OBVIOUS
    <3>4. /\ Inverses' /\ DOMAIN serverMap' \subseteq DOMAIN sm
          /\ Served' => serverMap' = sm
      BY <3>1, <3>2, <3>3, ReleaseFacts
    <3> QED BY <3>2, <3>3, <3>4
  <2> QED BY <2>1, <2>2
<1> HIDE DEF n, resp
<1>9. Served' => Held \subseteq DOMAIN serverMap' /\ Asserting \subseteq DOMAIN serverMap'
  BY <1>5, <1>6, <1>8
<1> QED BY <1>1, <1>4, <1>7, <1>8, <1>9, MapsStepInv

\* The write endpoint fiber ends.
LEMMA WriteEndpointEndsInv ==
    ASSUME IndInv, WriteEndpointEnds
    PROVE  IndInv'
<1>1. /\ UNCHANGED <<inst, work, counter>> /\ writer
      /\ wire' = [wire EXCEPT !["protocol"].peer = supervised \/ endpoint \/ FALSE]
      /\ FiberContextRelease(endpoint, FALSE, notifybox, clientMap, serverMap)
  BY DEF WriteEndpointEnds, svars, ProtocolEnd
<1>2. Inverted(clientMap, serverMap) /\ DOMAIN serverMap \subseteq 1 .. counter
  BY DEF IndInv, HeldIsTranslated, Inverted, Given
<1>3. /\ Inverses' /\ DOMAIN serverMap' \subseteq DOMAIN serverMap
      /\ Served' => serverMap' = serverMap
  BY <1>1, <1>2, ReleaseFacts
<1>4. Shape' /\ Req' = Req /\ Answering' \subseteq Answering
  <2>1. IsSeq(wire["protocol"].resp)
    BY DEF IndInv, Shape, Instances
  <2> QED BY <1>1, <2>1, SocketFacts
<1>5. Served' => Held \subseteq DOMAIN serverMap' /\ Asserting \subseteq DOMAIN serverMap'
  BY <1>1, <1>3, WaysBack DEF Served
<1> QED BY <1>1, <1>2, <1>3, <1>4, <1>5, MapsStepInv

\* Clients, connections and signals touch none of it.
LEMMA OtherFibersInv ==
    ASSUME IndInv,
           \/ SignalStep \/ Stopped
           \/ \E c \in Client : \/ ClientAsserts(c) \/ ClientCancels(c) \/ ClientCloses(c)
                                \/ MainFiber(c) \/ WriteFiber(c)
    PROVE  IndInv'
<1>1. CASE SignalStep \/ Stopped
  <2>1. UNCHANGED <<inst, work, wire>> /\ MapsUnchanged
    BY <1>1 DEF SignalStep, Quiesce, Terminate, Stopped, Sigterm, pvars, epvars,
       nvars, MapsUnchanged
  <2> QED BY <2>1, QuietInv
<1>2. ASSUME NEW c \in Client, ClientAsserts(c) \/ ClientCancels(c) \/ ClientCloses(c)
      PROVE  IndInv'
  <2>1. UNCHANGED <<inst, work, wire>> /\ MapsUnchanged
    BY <1>2 DEF ClientAsserts, ClientCancels, ClientSends, ClientCloses, epvars, nvars,
       MapsUnchanged
  <2> QED BY <2>1, QuietInv
<1>3. ASSUME NEW c \in Client, MainFiber(c) \/ WriteFiber(c)
      PROVE  IndInv'
  <2>1. UNCHANGED <<inst, work, wire>> /\ MapsUnchanged
    BY <1>3 DEF MainFiber, RefuseRequest, AssertLatestBlockId, AssertLatestBlockIdCancel,
       AssertionReplied, CancelReplied, ReadEnds, WriteFiber, WritePacket, WriteEnds,
       ReleaseContext, epvars, nvars, MapsUnchanged
  <2> QED BY <2>1, QuietInv
<1> QED BY <1>1, <1>2, <1>3

-----------------------------------------------------------------------------
\* Every step preserves the invariant.
LEMMA StepInv == IndInv /\ [Next]_vars => IndInv'
<1> SUFFICES ASSUME IndInv, [Next]_vars PROVE IndInv'
  OBVIOUS
<1>1. CASE UNCHANGED vars
  BY <1>1, QuietInv DEF vars, nvars, pvars, epvars, MapsUnchanged
<1>2. ASSUME NEW i \in Instances, ServiceStep(i) PROVE IndInv'
  BY <1>2, FiberStepInv DEF ServiceStep, pvars, epvars, MapsUnchanged
<1>3. CASE CanonizationEnds \/ SupervisorEnds
  BY <1>3, PeersInv
<1>4. CASE EndpointFiber
  BY <1>4, EndpointAssertInv, EndpointCancelInv, EndpointFailsInv DEF EndpointFiber
<1>5. CASE WriteEndpointFiber
  BY <1>5, WriteEndpointInv, WriteEndpointEndsInv DEF WriteEndpointFiber
<1>6. CASE Announce \/ SendOdd
  BY <1>6, CanonizationInv
<1>7. CASE \/ SignalStep \/ Stopped
           \/ \E c \in Client : \/ ClientAsserts(c) \/ ClientCancels(c) \/ ClientCloses(c)
                                \/ MainFiber(c) \/ WriteFiber(c)
  BY <1>7, OtherFibersInv
<1> QED BY <1>1, <1>2, <1>3, <1>4, <1>5, <1>6, <1>7 DEF Next

\* An offset is asked for, held or being answered, and never two of these at a time
\* (assertion_entry_add, lookup_return_address_from_offset).
THEOREM OffsetsApart == Spec => []IndInv
  BY InitInv, StepInv, PTL DEF Spec

\* What the notification service holds, or has still to read, can be translated back until
\* the last fiber of the endpoint frees the maps, and the two maps are the inverse of each
\* other, for any number of clients.
THEOREM TranslatedCorrect == Spec => []HeldIsTranslated
<1>1. IndInv => HeldIsTranslated
  BY DEF IndInv
<1> QED BY <1>1, OffsetsApart, PTL

-----------------------------------------------------------------------------
\* The latest block id changes only in the step that empties all trees, and only an
\* assertion of the latest block id is added to one.
LEMMA StaleStep ==
    ASSUME Shape, StaleNeverHeld, [Next]_vars
    PROVE  StaleNeverHeld'
<1>1. CASE UNCHANGED <<inst, latest>>
  BY <1>1 DEF StaleNeverHeld
<1>2. ASSUME NEW i \in Instances, ServiceStep(i)
      PROVE  StaleNeverHeld'
  <2>1. ASSUME NEW r, DispatchReduceCaps(i, r) \/ DispatchBlockAssertionCancel(i, r)
                      \/ DispatchUnknown(i, r) \/ RefuseBlockUpdate(i, r)
        PROVE  StaleNeverHeld'
    <3>1. /\ latest' = latest /\ DOMAIN inst' = Instances
          /\ \A j \in Instances : inst'[j].assertions \subseteq inst[j].assertions
      <4>1. CASE DispatchReduceCaps(i, r)
        BY <4>1 DEF DispatchReduceCaps, LoopFiber, SendResponse, Shape, Fields
      <4>2. CASE DispatchBlockAssertionCancel(i, r)
        BY <4>2 DEF DispatchBlockAssertionCancel, LoopFiber, SendResponse, Shape, Fields
      <4>3. CASE DispatchUnknown(i, r)
        BY <4>3 DEF DispatchUnknown, LoopFiber, SendResponse, Shape, Fields
      <4>4. CASE RefuseBlockUpdate(i, r)
        BY <4>4 DEF RefuseBlockUpdate, LoopFiber, SendResponse, Shape, Fields
      <4> QED BY <2>1, <4>1, <4>2, <4>3, <4>4
    <3> QED BY <3>1 DEF StaleNeverHeld
  <2>2. ASSUME NEW r, DispatchBlockAssertion(i, r)
        PROVE  StaleNeverHeld'
    <3>1. PICK after, s : /\ inst' = [inst EXCEPT ![i] = LoopFiber(after, s)]
                          /\ \/ /\ r.block = latest
                                /\ after = [inst[i] EXCEPT !.assertions = @ \cup {AssertionEntry(r)}]
                             \/ after = SendResponse(inst[i], r.method, r.offset, s)
      BY <2>2 DEF DispatchBlockAssertion
    <3>2. AssertionEntry(r).block = r.block
      BY DEF AssertionEntry
    <3>3. DOMAIN after = Fields /\ \A a \in after.assertions : a.block = latest
      <4>1. DOMAIN inst[i] = Fields /\ \A a \in inst[i].assertions : a.block = latest
        BY DEF Shape, StaleNeverHeld
      <4>2. CASE /\ r.block = latest
                 /\ after = [inst[i] EXCEPT !.assertions = @ \cup {AssertionEntry(r)}]
        BY <3>2, <4>1, <4>2 DEF Fields
      <4>3. CASE after = SendResponse(inst[i], r.method, r.offset, s)
        BY <4>1, <4>3 DEF SendResponse, Fields
      <4> QED BY <3>1, <4>2, <4>3
    <3>4. /\ latest' = latest
          /\ inst'[i].assertions = after.assertions
          /\ \A j \in Instances \ {i} : inst'[j].assertions = inst[j].assertions
      BY <2>2, <3>1, <3>3 DEF DispatchBlockAssertion, Shape, Fields, LoopFiber
    <3> QED BY <3>3, <3>4 DEF StaleNeverHeld
  <2>3. ASSUME NEW r, DispatchBlockUpdate(i, r)
        PROVE  StaleNeverHeld'
    <3>1. \A j \in Instances : inst'[j].assertions = {}
      BY <2>3 DEF DispatchBlockUpdate, SwapTrees, Shape, Fields
    <3> QED BY <3>1 DEF StaleNeverHeld
  <2>4. CASE NotifyAssertion(i) \/ NotifyReleased(i) \/ FinishBlockUpdate(i)
             \/ ReadFails(i) \/ OutboundEndpoint(i)
    <3>1. latest' = latest /\ \A j \in Instances : inst'[j].assertions = inst[j].assertions
      <4>1. CASE NotifyAssertion(i) \/ NotifyReleased(i)
        <5>1. PICK a : /\ latest' = latest
                       /\ \/ inst' = inst
                          \/ inst' = [inst EXCEPT ![a.inst] =
                                         SendResponse(@, "BLOCK_ASSERTION", a.offset, "SUCCESS")]
          BY <4>1 DEF NotifyAssertion, NotifyReleased
        <5> QED BY <5>1 DEF SendResponse, Shape, Fields
      <4>2. CASE FinishBlockUpdate(i)
        BY <4>2 DEF FinishBlockUpdate, SendResponse, LoopFiber, Shape, Fields
      <4>3. CASE ReadFails(i)
        BY <4>3 DEF ReadFails, Shape, Fields
      <4>4. CASE OutboundEndpoint(i)
        <5>1. \/ inst' = [inst EXCEPT ![i].outbound = Tail(@)]
              \/ inst' = [inst EXCEPT ![i].outbound = Tail(@), ![i].endpoint = FALSE]
          BY <4>4 DEF OutboundEndpoint
        <5>2. CASE inst' = [inst EXCEPT ![i].outbound = Tail(@)]
          BY <4>4, <5>2 DEF OutboundEndpoint, Shape, Fields
        <5>3. CASE inst' = [inst EXCEPT ![i].outbound = Tail(@), ![i].endpoint = FALSE]
          BY <4>4, <5>3 DEF OutboundEndpoint, Shape, Fields
        <5> QED BY <5>1, <5>2, <5>3
      <4> QED BY <2>4, <4>1, <4>2, <4>3, <4>4
    <3> QED BY <3>1 DEF StaleNeverHeld
  <2> QED BY <1>2, <2>1, <2>2, <2>3, <2>4 DEF ServiceStep, FiberStep
<1>3. CASE SignalStep \/ Announce \/ SendOdd \/ Stopped \/ CanonizationEnds \/ SupervisorEnds
  BY <1>1, <1>3 DEF SignalStep, Quiesce, Terminate, Announce, SendOdd, Stopped, Sigterm,
     CanonizationEnds, SupervisorEnds, svars
<1>4. CASE EndpointFiber \/ WriteEndpointFiber
  BY <1>1, <1>4 DEF EndpointFiber, EndpointAssert, EndpointCancel, EndpointFails,
     WriteEndpointFiber, WriteEndpointPasses, WriteEndpointDrops, WriteEndpointEnds, svars, nvars
<1>5. ASSUME NEW c \in Client, ClientAsserts(c) \/ ClientCancels(c) \/ ClientCloses(c)
      PROVE  StaleNeverHeld'
  BY <1>1, <1>5 DEF ClientAsserts, ClientCancels, ClientSends, ClientCloses, nvars
<1>6. ASSUME NEW c \in Client, MainFiber(c) \/ WriteFiber(c)
      PROVE  StaleNeverHeld'
  BY <1>1, <1>6 DEF MainFiber, RefuseRequest, AssertLatestBlockId, AssertLatestBlockIdCancel,
     AssertionReplied, CancelReplied, ReadEnds, WriteFiber, WritePacket, WriteEnds,
     ReleaseContext, nvars
<1>7. CASE UNCHANGED vars
  BY <1>1, <1>7 DEF vars, nvars
<1> QED BY <1>2, <1>3, <1>4, <1>5, <1>6, <1>7 DEF Next

\* No instance of the notification service keeps an assertion about a block id that is not
\* the latest, whatever the clients, the canonization service and the signals do
\* (dispatch_block_update).
THEOREM StaleCorrect == Spec => []StaleNeverHeld
<1>1. Init => StaleNeverHeld
  <2>1. OutboundEndpointAdd(ProtocolFiberAdd(InstanceCreate)).assertions = {}
    BY DEF InstanceCreate, ProtocolFiberAdd, OutboundEndpointAdd
  <2>2. Init => \A i \in Instances : inst[i].assertions = {}
    BY <2>1 DEF Init, InitNotification
  <2> QED BY <2>2 DEF StaleNeverHeld
<1>2. IndInv /\ StaleNeverHeld /\ [Next]_vars => StaleNeverHeld'
  BY StaleStep DEF IndInv
<1> QED BY <1>1, <1>2, OffsetsApart, PTL DEF Spec
=============================================================================
