-------------------------- MODULE DataSocketProofs --------------------------
(* Proofs about the data service's socket loop (DataSocket), for any capacity *)
(* of the kernel, any set of requests and any number of them outstanding, and *)
(* about the contexts it keeps (DataContexts), for any number of slots and    *)
(* any set of application capabilities.                                       *)
EXTENDS DataSocket, TLAPS

\* The inductive invariant: the free list is what ties the slots together.
IndInv == TypeOK /\ SlotsAccountedFor /\ ChildWithinGrant

\* Taking the head from a list without repetition: what is left holds every
\* other member once.  (dataservice_child_details_create)
LEMMA PopFacts ==
    ASSUME NEW S, NEW s \in Seq(S), s # <<>>
    PROVE  /\ Head(s) = s[1] /\ Head(s) \in S
           /\ Tail(s) \in Seq(S)
           /\ Len(s) \in Nat \ {0}
           /\ DOMAIN s = 1 .. Len(s)
           /\ DOMAIN Tail(s) = 1 .. Len(s) - 1
           /\ \A n \in 1 .. Len(s) - 1 : Tail(s)[n] = s[n + 1]
  OBVIOUS

\* Pushing an element: the list has it at its head and the rest behind.
\* (dataservice_child_details_delete)
LEMMA PushFacts ==
    ASSUME NEW s \in Seq(Slot), NEW x \in Slot
    PROVE  /\ PushFront(s, x) \in Seq(Slot)
           /\ DOMAIN s = 1 .. Len(s)
           /\ Len(s) \in Nat
           /\ DOMAIN PushFront(s, x) = 1 .. Len(s) + 1
           /\ PushFront(s, x)[1] = x
           /\ \A n \in 2 .. Len(s) + 1 : PushFront(s, x)[n] = s[n - 1]
<1>1. Len(s) \in Nat /\ DOMAIN s = 1 .. Len(s) /\ \A n \in 1 .. Len(s) : s[n] \in Slot
  OBVIOUS
<1>2. \A n \in 1 .. Len(s) + 1 : (IF n = 1 THEN x ELSE s[n - 1]) \in Slot
  <2>1. TAKE n \in 1 .. Len(s) + 1
  <2>2. CASE n = 1
    BY <2>2
  <2>3. CASE n # 1
    <3>1. n - 1 \in 1 .. Len(s)
      BY <1>1, <2>1, <2>3
    <3> QED
      BY <1>1, <2>3, <3>1
  <2> QED
    BY <2>2, <2>3
<1>3. PushFront(s, x) \in [1 .. Len(s) + 1 -> Slot]
  BY <1>2 DEF PushFront
<1>4. PushFront(s, x) \in Seq(Slot)
  BY <1>1, <1>3, Len(s) + 1 \in Nat
<1>5. /\ DOMAIN PushFront(s, x) = 1 .. Len(s) + 1
      /\ PushFront(s, x)[1] = x
      /\ \A n \in 2 .. Len(s) + 1 : PushFront(s, x)[n] = s[n - 1]
  BY <1>1 DEF PushFront
<1> QED
  BY <1>1, <1>4, <1>5

\* What one slot has, the others keep.
LEMMA SlotUpdate ==
    ASSUME children \in [Slot -> Child], NEW i \in Slot, NEW c \in Child
    PROVE  LET f == [children EXCEPT ![i] = c]
           IN  /\ f \in [Slot -> Child]
               /\ f[i] = c
               /\ \A j \in Slot : j # i => f[j] = children[j]
  OBVIOUS

\* A slot is taken from the free list and opened.
LEMMA CreateInv ==
    ASSUME IndInv, NEW caps \in SUBSET Cap, ChildContextCreate(caps)
    PROVE  IndInv'
<1> DEFINE h == Head(child_head)
           c == [open |-> TRUE, caps |-> ChildCaps(caps), granted |-> apicaps]
<1>1. child_head \in Seq(Slot) /\ child_head # <<>>
  BY DEF IndInv, TypeOK, ChildContextCreate
<1>2. /\ h = child_head[1] /\ h \in Slot
      /\ Tail(child_head) \in Seq(Slot)
      /\ Len(child_head) \in Nat \ {0}
      /\ DOMAIN child_head = 1 .. Len(child_head)
      /\ DOMAIN Tail(child_head) = 1 .. Len(child_head) - 1
      /\ \A n \in 1 .. Len(child_head) - 1 : Tail(child_head)[n] = child_head[n + 1]
  BY <1>1, PopFacts
<1>3. c \in Child
  BY DEF IndInv, TypeOK, Child, ChildCaps
<1>4. /\ children' \in [Slot -> Child]
      /\ children'[h] = c
      /\ \A j \in Slot : j # h => children'[j] = children[j]
  BY <1>2, <1>3, SlotUpdate DEF IndInv, TypeOK, ChildContextCreate
<1>5. TypeOK'
  <2>1. h \in Index
    BY <1>2, CapAssumption DEF Slot, Index
  <2>2. /\ child_head' = Tail(child_head) /\ apicaps' = apicaps /\ running' = running
        /\ reply' = [op |-> "child_create", index |-> h, status |-> "SUCCESS"]
    BY DEF ChildContextCreate, Answer
  <2> HIDE DEF h
  <2> QED
    BY <1>2, <1>4, <2>1, <2>2 DEF IndInv, TypeOK
<1>6. SlotsAccountedFor'
  <2>1. child_head' = Tail(child_head)
    BY DEF ChildContextCreate
  <2>2. \A m, n \in DOMAIN child_head : child_head[m] = child_head[n] => m = n
    BY DEF IndInv, SlotsAccountedFor
  <2>3. \A m, n \in DOMAIN child_head' : child_head'[m] = child_head'[n] => m = n
    BY <1>2, <2>1, <2>2
  <2>4. ASSUME NEW i \in Slot
        PROVE  ~children'[i].open <=> \E n \in DOMAIN child_head' : child_head'[n] = i
    <3>1. ~children[i].open <=> \E n \in DOMAIN child_head : child_head[n] = i
      BY DEF IndInv, SlotsAccountedFor
    <3>2. CASE i = h
      <4>1. children'[i].open
        BY <1>4, <3>2
      <4>2. \A n \in 1 .. Len(child_head) - 1 : child_head[n + 1] # child_head[1]
        BY <1>2, <2>2
      <4> QED
        BY <1>2, <2>1, <3>2, <4>1, <4>2
    <3>3. CASE i # h
      <4>1. children'[i].open = children[i].open
        BY <1>4, <3>3
      <4>2. ASSUME NEW n \in DOMAIN child_head, child_head[n] = i
            PROVE  \E m \in DOMAIN child_head' : child_head'[m] = i
        <5>1. n # 1
          BY <1>2, <3>3, <4>2
        <5>2. n - 1 \in 1 .. Len(child_head) - 1 /\ (n - 1) + 1 = n
          BY <1>2, <5>1
        <5> QED
          BY <1>2, <2>1, <4>2, <5>2
      <4>3. ASSUME NEW m \in DOMAIN child_head', child_head'[m] = i
            PROVE  \E n \in DOMAIN child_head : child_head[n] = i
        <5>1. m \in 1 .. Len(child_head) - 1 /\ m + 1 \in 1 .. Len(child_head)
          BY <1>2, <2>1
        <5> QED
          BY <1>2, <2>1, <4>3, <5>1
      <4> QED
        BY <3>1, <4>1, <4>2, <4>3
    <3> QED
      BY <3>2, <3>3
  <2> QED
    BY <2>3, <2>4 DEF SlotsAccountedFor
<1>7. ChildWithinGrant'
  BY <1>2, <1>3, <1>4 DEF IndInv, ChildWithinGrant, ChildCaps
<1> QED
  BY <1>5, <1>6, <1>7 DEF IndInv

\* An open slot is closed and pushed on the free list.
LEMMA CloseInv ==
    ASSUME IndInv, NEW i \in Index, ChildContextClose(i)
    PROVE  IndInv'
<1>1. child_head \in Seq(Slot) /\ i \in Slot /\ children[i].open
  BY DEF IndInv, TypeOK, ChildContextClose, MayClose, Lookup
<1>2. /\ child_head' \in Seq(Slot)
      /\ DOMAIN child_head = 1 .. Len(child_head)
      /\ Len(child_head) \in Nat
      /\ DOMAIN child_head' = 1 .. Len(child_head) + 1
      /\ child_head'[1] = i
      /\ \A n \in 2 .. Len(child_head) + 1 : child_head'[n] = child_head[n - 1]
  <2>1. child_head' = PushFront(child_head, i)
    BY DEF ChildContextClose
  <2> DEFINE pushed == PushFront(child_head, i)
  <2>2. /\ pushed \in Seq(Slot)
        /\ DOMAIN child_head = 1 .. Len(child_head)
        /\ Len(child_head) \in Nat
        /\ DOMAIN pushed = 1 .. Len(child_head) + 1
        /\ pushed[1] = i
        /\ \A n \in 2 .. Len(child_head) + 1 : pushed[n] = child_head[n - 1]
    BY <1>1, PushFacts
  <2> QED
    BY <2>1, <2>2
<1>3. Closed \in Child /\ ~Closed.open /\ Closed.caps = {} /\ Closed.granted = {}
  BY DEF Closed, Child
<1>4. /\ children' \in [Slot -> Child]
      /\ children'[i] = Closed
      /\ \A j \in Slot : j # i => children'[j] = children[j]
  BY <1>1, <1>3, SlotUpdate DEF IndInv, TypeOK, ChildContextClose
<1>5. TypeOK'
  BY <1>2, <1>4 DEF IndInv, TypeOK, ChildContextClose, Answer, Index, Slot
<1>6. SlotsAccountedFor'
  <2>1. \A n \in DOMAIN child_head : child_head[n] # i
    BY <1>1 DEF IndInv, SlotsAccountedFor
  <2>2. \A m, n \in DOMAIN child_head : child_head[m] = child_head[n] => m = n
    BY DEF IndInv, SlotsAccountedFor
  <2>3. \A n \in 2 .. Len(child_head) + 1 : n - 1 \in DOMAIN child_head
    BY <1>2
  <2>4. \A m, n \in DOMAIN child_head' : child_head'[m] = child_head'[n] => m = n
    <3>1. SUFFICES ASSUME NEW m \in DOMAIN child_head', NEW n \in DOMAIN child_head',
                          child_head'[m] = child_head'[n]
                   PROVE  m = n
      OBVIOUS
    <3>2. CASE m = 1 /\ n = 1
      BY <3>2
    <3>3. CASE m = 1 /\ n # 1
      <4>1. n \in 2 .. Len(child_head) + 1
        BY <1>2, <3>3
      <4> QED
        BY <1>2, <2>1, <2>3, <3>1, <3>3, <4>1
    <3>4. CASE m # 1 /\ n = 1
      <4>1. m \in 2 .. Len(child_head) + 1
        BY <1>2, <3>4
      <4> QED
        BY <1>2, <2>1, <2>3, <3>1, <3>4, <4>1
    <3>5. CASE m # 1 /\ n # 1
      <4>1. m \in 2 .. Len(child_head) + 1 /\ n \in 2 .. Len(child_head) + 1
        BY <1>2, <3>5
      <4>2. child_head[m - 1] = child_head[n - 1]
        BY <1>2, <3>1, <4>1
      <4>3. m - 1 = n - 1
        BY <2>2, <2>3, <4>1, <4>2
      <4> QED
        BY <1>2, <4>1, <4>3
    <3> QED
      BY <3>2, <3>3, <3>4, <3>5
  <2>5. ASSUME NEW j \in Slot
        PROVE  ~children'[j].open <=> \E n \in DOMAIN child_head' : child_head'[n] = j
    <3>1. ~children[j].open <=> \E n \in DOMAIN child_head : child_head[n] = j
      BY DEF IndInv, SlotsAccountedFor
    <3>2. CASE j = i
      <4>1. ~children'[j].open
        BY <1>3, <1>4, <3>2
      <4>2. 1 \in DOMAIN child_head'
        BY <1>2
      <4> QED
        BY <1>2, <3>2, <4>1, <4>2
    <3>3. CASE j # i
      <4>1. children'[j].open = children[j].open
        BY <1>4, <3>3
      <4>2. ASSUME NEW n \in DOMAIN child_head, child_head[n] = j
            PROVE  \E m \in DOMAIN child_head' : child_head'[m] = j
        <5>1. n + 1 \in 2 .. Len(child_head) + 1 /\ (n + 1) - 1 = n
              /\ n + 1 \in DOMAIN child_head'
          BY <1>2
        <5> QED
          BY <1>2, <4>2, <5>1
      <4>3. ASSUME NEW m \in DOMAIN child_head', child_head'[m] = j
            PROVE  \E n \in DOMAIN child_head : child_head[n] = j
        <5>1. m \in 2 .. Len(child_head) + 1
          BY <1>2, <3>3, <4>3
        <5> QED
          BY <1>2, <2>3, <4>3, <5>1
      <4> QED
        BY <3>1, <4>1, <4>2, <4>3
    <3> QED
      BY <3>2, <3>3
  <2> QED
    BY <2>4, <2>5 DEF SlotsAccountedFor
<1>7. ChildWithinGrant'
  BY <1>1, <1>3, <1>4 DEF IndInv, ChildWithinGrant
<1> QED
  BY <1>5, <1>6, <1>7 DEF IndInv


\* The invariant holds initially: the free list holds every slot once.
LEMMA InitInv == Init => IndInv
<1> SUFFICES ASSUME Init PROVE IndInv
  OBVIOUS
<1> DEFINE N == MaxChildContexts
<1>1. N \in Nat \ {0}
  BY CapAssumption
<1>2. child_head = [n \in 1 .. N |-> N - n] /\ children = [i \in Slot |-> Closed]
  BY DEF Init
<1>3. \A n \in 1 .. N : N - n \in Slot
  BY <1>1 DEF Slot
<1>4. child_head \in [1 .. N -> Slot]
  BY <1>2, <1>3
<1>5. child_head \in Seq(Slot)
  BY <1>1, <1>4
<1>6. Closed \in Child /\ ~Closed.open /\ Closed.caps = {} /\ Closed.granted = {}
  BY DEF Closed, Child
<1>7. TypeOK
  BY <1>1, <1>2, <1>5, <1>6 DEF Init, TypeOK, Cap, Answer, Index
<1>8. SlotsAccountedFor
  <2>1. \A m, n \in DOMAIN child_head : child_head[m] = child_head[n] => m = n
    BY <1>1, <1>2
  <2>2. ASSUME NEW i \in Slot
        PROVE  ~children[i].open /\ \E n \in DOMAIN child_head : child_head[n] = i
    <3>1. N - i \in 1 .. N /\ N - (N - i) = i
      BY <1>1 DEF Slot
    <3>2. child_head[N - i] = i
      BY <1>2, <3>1
    <3> QED
      BY <1>2, <1>6, <3>1, <3>2
  <2> QED
    BY <2>1, <2>2 DEF SlotsAccountedFor
<1>9. ChildWithinGrant
  BY <1>2, <1>6 DEF ChildWithinGrant
<1> QED
  BY <1>7, <1>8, <1>9 DEF IndInv

\* Every step keeps the invariant.  Only creation and closing touch the slots.
LEMMA StepInv == IndInv /\ [Next]_vars => IndInv'
<1> SUFFICES ASSUME IndInv, [Next]_vars PROVE IndInv'
  OBVIOUS
<1>0. 0 \in Index
  BY CapAssumption DEF Index
<1>1. ASSUME UNCHANGED <<children, child_head>>, TypeOK'
      PROVE  IndInv'
  BY <1>1 DEF IndInv, SlotsAccountedFor, ChildWithinGrant
<1>2. CASE RootContextInit
  <2>1. TypeOK'
    BY <1>0, <1>2 DEF IndInv, TypeOK, RootContextInit, Authorised, Answer, Cap
  <2> QED
    BY <1>1, <1>2, <2>1 DEF RootContextInit
<1>3. ASSUME NEW caps \in SUBSET Cap, RootContextReduceCapabilities(caps)
      PROVE  IndInv'
  <2>1. TypeOK'
    BY <1>0, <1>3 DEF IndInv, TypeOK, RootContextReduceCapabilities, Authorised, Answer
  <2> QED
    BY <1>1, <1>3, <2>1 DEF RootContextReduceCapabilities
<1>4. ASSUME NEW caps \in SUBSET Cap, ChildContextCreate(caps)
      PROVE  IndInv'
  BY <1>4, CreateInv
<1>5. CASE ChildContextCreateFails
  <2>1. TypeOK'
    BY <1>0, <1>5 DEF IndInv, TypeOK, ChildContextCreateFails, Answer
  <2> QED
    BY <1>1, <1>5, <2>1 DEF ChildContextCreateFails
<1>6. ASSUME NEW i \in Index, ChildContextClose(i)
      PROVE  IndInv'
  BY <1>6, CloseInv
<1>7. ASSUME NEW i \in Index, ChildContextCloseFails(i)
      PROVE  IndInv'
  <2>1. TypeOK'
    BY <1>7 DEF IndInv, TypeOK, ChildContextCloseFails, Answer
  <2> QED
    BY <1>1, <1>7, <2>1 DEF ChildContextCloseFails
<1>8. CASE ExitEventLoop
  <2>1. TypeOK'
    BY <1>8 DEF IndInv, TypeOK, ExitEventLoop
  <2> QED
    BY <1>1, <1>8, <2>1 DEF ExitEventLoop
<1>9. CASE UNCHANGED vars
  BY <1>9 DEF IndInv, TypeOK, SlotsAccountedFor, ChildWithinGrant, vars
<1> QED
  BY <1>2, <1>3, <1>4, <1>5, <1>6, <1>7, <1>8, <1>9 DEF Next

\* The inductive invariant holds in every reachable state.
THEOREM Invariant == Spec => []IndInv
  BY InitInv, StepInv, PTL DEF Spec

\* No slot is lost and none is handed out while it is in use, for any number of
\* slots: each is either open or on the free list once.
THEOREM SlotsCorrect == Spec => []SlotsAccountedFor
<1>1. IndInv => SlotsAccountedFor
  BY DEF IndInv
<1> QED
  BY <1>1, Invariant, PTL

\* A child context never holds more than the root context had when it made it,
\* and a slot that is not in use holds nothing.
THEOREM GrantCorrect == Spec => []ChildWithinGrant
<1>1. IndInv => ChildWithinGrant
  BY DEF IndInv
<1> QED
  BY <1>1, Invariant, PTL

\* One step adds no capability: to the root context once it is initialised, or
\* to a child context that stays open.
LEMMA StepShrinks ==
    ASSUME IndInv, [Next]_vars
    PROVE  /\ RootCreate \notin apicaps => apicaps' \subseteq apicaps
           /\ \A i \in Slot :
                children[i].open /\ children'[i].open =>
                    children'[i].caps \subseteq children[i].caps
<1>1. RootCreate \notin apicaps => apicaps' \subseteq apicaps
  BY DEF Next, vars, RootContextInit, RootContextReduceCapabilities,
         ChildContextCreate, ChildContextCreateFails, ChildContextClose,
         ChildContextCloseFails, ExitEventLoop
<1>2. ASSUME NEW i \in Slot, children[i].open, children'[i].open
      PROVE  children'[i].caps \subseteq children[i].caps
  <2>1. ASSUME NEW caps \in SUBSET Cap, ChildContextCreate(caps)
        PROVE  children'[i] = children[i]
    <3>1. child_head \in Seq(Slot) /\ child_head # <<>>
      BY <2>1 DEF IndInv, TypeOK, ChildContextCreate
    <3>2. Head(child_head) = child_head[1] /\ 1 \in DOMAIN child_head
      BY <3>1, PopFacts
    <3>3. i # Head(child_head)
      BY <1>2, <3>2 DEF IndInv, SlotsAccountedFor
    <3> QED
      BY <2>1, <3>3 DEF ChildContextCreate, IndInv, TypeOK
  <2>2. ASSUME NEW j \in Index, ChildContextClose(j)
        PROVE  children'[i] = children[i]
    <3>1. i # j
      BY <1>2, <2>2 DEF ChildContextClose, IndInv, TypeOK, Closed
    <3> QED
      BY <2>2, <3>1 DEF ChildContextClose, IndInv, TypeOK
  <2> QED
    BY <2>1, <2>2
    DEF Next, vars, RootContextInit, RootContextReduceCapabilities,
        ChildContextCreateFails, ChildContextCloseFails, ExitEventLoop
<1> QED
  BY <1>1, <1>2

\* Authority is never regained, whatever requests arrive in whatever order.
THEOREM AuthorityCorrect == Spec => AuthorityOnlyShrinks
<1>1. IndInv /\ [Next]_vars =>
        [ /\ RootCreate \notin apicaps => apicaps' \subseteq apicaps
          /\ \A i \in Slot :
               children[i].open /\ children'[i].open =>
                   children'[i].caps \subseteq children[i].caps ]_vars
  BY StepShrinks
<1> QED
  BY <1>1, Invariant, PTL DEF Spec, AuthorityOnlyShrinks

-----------------------------------------------------------------------------
(* The socket loop.                                                          *)

IsSeq(s) == s \in Seq(Range(s))

\* The unit u may be the p-th of a stream of requests, each of three units.
Good(p, u) ==
    /\ p % 3 = 1 => u = <<"type", DataPacket>>
    /\ p % 3 = 2 => u = <<"size", 1>>
    /\ p % 3 = 0 => u \in Requests

\* s may follow k units of such a stream.
Fits(k, s) == \A j \in 1 .. Len(s) : Good(k + j, s[j])

\* What the loop keeps: types;
LoopTypes ==
    /\ sock = [readbuf |-> sock.readbuf, writebuf |-> sock.writebuf,
               write_ev |-> sock.write_ev]
    /\ client = [calls |-> client.calls, unsent |-> client.unsent,
                 inbuf |-> client.inbuf]
    /\ IsSeq(sock.readbuf) /\ IsSeq(incoming) /\ IsSeq(client.unsent)
    /\ IsSeq(sock.writebuf) /\ IsSeq(outgoing)
    /\ pc \in {"loop", "read", "dispatch"}
    /\ exit \in {"no", "asked", "last", "left"}
    /\ peer \in {"open", "closed"}

\* that what was sent and not dispatched is one stream of requests, cut anywhere, whose
\* end the client has while it is there;
Framed ==
    exit # "left" =>
        /\ Fits(0, sock.readbuf) /\ Fits(Len(sock.readbuf), incoming)
        /\ peer = "open" =>
             /\ Fits(Len(sock.readbuf) + Len(incoming), client.unsent)
             /\ (Len(sock.readbuf) + Len(incoming) + Len(client.unsent)) % 3 = 0

\* and, between callbacks, that a write event about to be called finds room, that no
\* request is left and that a response to be sent has its event.
Between ==
    /\ force_exit => exit # "no"
    /\ exit = "left" => pc = "loop" /\ active = {}
    /\ pc = "dispatch" => request \in Requests
    /\ pc = "loop" /\ "write" \in active /\ sock.writebuf # <<>> =>
          Space > 0 \/ peer = "closed"
    /\ pc = "loop" /\ exit = "no" =>
          /\ ReadStatus(sock.readbuf) = "WOULD_BLOCK"
          /\ sock.writebuf # <<>> => sock.write_ev = "pending"

LoopInv == LoopTypes /\ Framed /\ Between

-----------------------------------------------------------------------------
\* Every sequence is one over its own elements.
LEMMA SeqIsSeq ==
    ASSUME NEW S, NEW s \in Seq(S)
    PROVE  IsSeq(s)
<1>1. \A i \in 1 .. Len(s) : s[i] \in Range(s)
  BY DEF Range
<1>2. s \in Seq(Range(s))
  BY <1>1
<1> QED BY <1>2 DEF IsSeq

\* Concatenation.
LEMMA ConcatFacts ==
    ASSUME NEW a, NEW b, IsSeq(a), IsSeq(b)
    PROVE  /\ IsSeq(a \o b) /\ Len(a) \in Nat /\ Len(b) \in Nat
           /\ Len(a \o b) = Len(a) + Len(b)
           /\ \A i \in 1 .. Len(a) : (a \o b)[i] = a[i]
           /\ \A i \in 1 .. Len(b) : (a \o b)[Len(a) + i] = b[i]
<1> DEFINE S == Range(a) \cup Range(b)
           t == a \o b
<1>1. a \in Seq(S) /\ b \in Seq(S)
  BY DEF IsSeq
<1> HIDE DEF S
<1>2. /\ t \in Seq(S) /\ Len(a) \in Nat /\ Len(b) \in Nat /\ Len(t) = Len(a) + Len(b)
      /\ \A i \in 1 .. Len(a) : t[i] = a[i]
      /\ \A i \in 1 .. Len(b) : t[Len(a) + i] = b[i]
  BY <1>1
<1> HIDE DEF t
<1>3. IsSeq(t)
  BY <1>2, SeqIsSeq
<1> QED BY <1>2, <1>3 DEF t

\* A part of a sequence.
LEMMA SliceFacts ==
    ASSUME NEW s, IsSeq(s), NEW m \in Nat, NEW n \in Nat,
           m >= 1, m <= n + 1, n <= Len(s)
    PROVE  /\ IsSeq(SubSeq(s, m, n)) /\ Len(s) \in Nat
           /\ Len(SubSeq(s, m, n)) = n + 1 - m
           /\ \A i \in 1 .. n + 1 - m : SubSeq(s, m, n)[i] = s[m + i - 1]
<1> DEFINE S == Range(s)
           t == SubSeq(s, m, n)
<1>1. s \in Seq(S) /\ Len(s) \in Nat
  BY DEF IsSeq
<1> HIDE DEF S
<1>2. /\ t \in Seq(S) /\ Len(t) = n + 1 - m
      /\ \A i \in 1 .. n + 1 - m : t[i] = s[m + i - 1]
  BY <1>1
<1> HIDE DEF t
<1>3. IsSeq(t)
  BY <1>2, SeqIsSeq
<1> QED BY <1>1, <1>2, <1>3 DEF t

\* The place of a unit matters only up to a whole frame.
LEMMA GoodShift ==
    ASSUME NEW p \in Nat, NEW u
    PROVE  Good(p + 3, u) <=> Good(p, u)
<1>1. (p + 3) % 3 = p % 3
  OBVIOUS
<1> QED BY <1>1 DEF Good

\* Some of b is moved to the end of a.  (evbuffer_read, and the send of the client)
LEMMA MoveFits ==
    ASSUME NEW a, NEW b, IsSeq(a), IsSeq(b), NEW k \in Nat,
           NEW n \in Nat, n <= Len(b), Fits(k, a), Fits(k + Len(a), b)
    PROVE  LET c == a \o SubSeq(b, 1, n)
               d == SubSeq(b, n + 1, Len(b))
           IN  /\ IsSeq(c) /\ IsSeq(d) /\ Len(a) \in Nat /\ Len(b) \in Nat
               /\ Len(c) = Len(a) + n /\ Len(d) = Len(b) - n
               /\ Fits(k, c) /\ Fits(k + Len(c), d)
<1> DEFINE e == SubSeq(b, 1, n)
           c == a \o e
           d == SubSeq(b, n + 1, Len(b))
<1>1. Len(a) \in Nat /\ Len(b) \in Nat
  BY ConcatFacts
<1>2. IsSeq(e) /\ Len(e) = n /\ \A i \in 1 .. n : e[i] = b[i]
  BY <1>1, SliceFacts
<1>3. IsSeq(d) /\ Len(d) = Len(b) - n /\ \A i \in 1 .. Len(b) - n : d[i] = b[n + i]
  BY <1>1, SliceFacts
<1> HIDE DEF e, d
<1>4. /\ IsSeq(c) /\ Len(c) = Len(a) + n
      /\ \A i \in 1 .. Len(a) : c[i] = a[i]
      /\ \A i \in 1 .. n : c[Len(a) + i] = e[i]
  BY <1>2, ConcatFacts
<1> HIDE DEF c
<1>5. Fits(k, c)
  <2> SUFFICES ASSUME NEW j \in 1 .. Len(a) + n PROVE Good(k + j, c[j])
    BY <1>4 DEF Fits
  <2>1. CASE j \in 1 .. Len(a)
    BY <1>4, <2>1 DEF Fits
  <2>2. CASE j > Len(a)
    <3>1. PICK i \in 1 .. n : j = Len(a) + i
      BY <1>1, <2>2
    <3>2. c[j] = b[i] /\ i \in 1 .. Len(b)
      BY <1>1, <1>2, <1>4, <3>1
    <3>3. Good((k + Len(a)) + i, b[i])
      BY <3>2 DEF Fits
    <3>4. (k + Len(a)) + i = k + j
      BY <1>1, <3>1
    <3> QED BY <3>2, <3>3, <3>4
  <2> QED BY <1>1, <2>1, <2>2
<1>6. Fits(k + Len(c), d)
  <2> SUFFICES ASSUME NEW j \in 1 .. Len(b) - n PROVE Good((k + Len(c)) + j, d[j])
    BY <1>3 DEF Fits
  <2>1. n + j \in 1 .. Len(b) /\ d[j] = b[n + j]
    BY <1>1, <1>3
  <2>2. Good((k + Len(a)) + (n + j), b[n + j])
    BY <2>1 DEF Fits
  <2>3. (k + Len(a)) + (n + j) = (k + Len(c)) + j
    BY <1>1, <1>4
  <2> QED BY <2>1, <2>2, <2>3
<1> QED BY <1>1, <1>3, <1>4, <1>5, <1>6 DEF c, d, e

\* The first frame is taken from a, which b follows.
LEMMA DrainFits ==
    ASSUME NEW a, NEW b, IsSeq(a), IsSeq(b), Len(a) >= 3, Fits(0, a), Fits(Len(a), b)
    PROVE  LET d == SubSeq(a, 4, Len(a))
           IN  /\ IsSeq(d) /\ Len(a) \in Nat /\ Len(b) \in Nat /\ Len(d) = Len(a) - 3
               /\ Fits(0, d) /\ Fits(Len(d), b)
<1> DEFINE d == SubSeq(a, 4, Len(a))
<1>1. Len(a) \in Nat /\ Len(b) \in Nat
  BY ConcatFacts
<1>2. IsSeq(d) /\ Len(d) = Len(a) - 3 /\ \A i \in 1 .. Len(a) - 3 : d[i] = a[i + 3]
  <2> DEFINE n == Len(a)
  <2>1. n \in Nat /\ 4 \in Nat /\ 4 >= 1 /\ 4 <= n + 1 /\ n <= Len(a)
    BY <1>1
  <2> HIDE DEF n
  <2>2. /\ IsSeq(SubSeq(a, 4, n)) /\ Len(SubSeq(a, 4, n)) = n + 1 - 4
        /\ \A i \in 1 .. n + 1 - 4 : SubSeq(a, 4, n)[i] = a[4 + i - 1]
    BY <2>1, SliceFacts
  <2>3. \A i \in 1 .. n - 3 : 4 + i - 1 = i + 3 /\ i \in 1 .. n + 1 - 4
    BY <2>1
  <2>4. n + 1 - 4 = n - 3
    BY <2>1
  <2> QED BY <2>2, <2>3, <2>4 DEF n
<1> HIDE DEF d
<1>3. Fits(0, d)
  <2> SUFFICES ASSUME NEW j \in 1 .. Len(a) - 3 PROVE Good(0 + j, d[j])
    BY <1>2 DEF Fits
  <2>1. j + 3 \in 1 .. Len(a) /\ d[j] = a[j + 3] /\ j \in Nat /\ 0 + (j + 3) = j + 3 /\ 0 + j = j
    BY <1>1, <1>2
  <2>2. Good(j + 3, a[j + 3])
    BY <2>1 DEF Fits
  <2> QED BY <2>1, <2>2, GoodShift
<1>4. Fits(Len(d), b)
  <2> SUFFICES ASSUME NEW j \in 1 .. Len(b) PROVE Good(Len(d) + j, b[j])
    BY DEF Fits
  <2>1. Good(Len(a) + j, b[j])
    BY DEF Fits
  <2>2. Len(a) + j = (Len(d) + j) + 3 /\ Len(d) + j \in Nat
    BY <1>1, <1>2
  <2> QED BY <2>1, <2>2, GoodShift
<1> QED BY <1>1, <1>2, <1>3, <1>4 DEF d

\* A frame is added where a frame may begin.  (ipc_write_data_noblock, by the client)
LEMMA FrameFits ==
    ASSUME NEW c, IsSeq(c), NEW k \in Nat, Fits(k, c), (k + Len(c)) % 3 = 0,
           NEW r \in Requests
    PROVE  /\ IsSeq(c \o Frame(<<r>>)) /\ Fits(k, c \o Frame(<<r>>)) /\ Len(c) \in Nat
           /\ Len(c \o Frame(<<r>>)) = Len(c) + 3
           /\ (k + Len(c \o Frame(<<r>>))) % 3 = 0
<1> DEFINE f == Frame(<<r>>)
           t == c \o f
<1>1. f = <<<<"type", DataPacket>>, <<"size", 1>>>> \o <<r>>
  BY DEF Frame
<1> HIDE DEF f
<1>2. /\ Len(f) = 3 /\ f[1] = <<"type", DataPacket>> /\ f[2] = <<"size", 1>> /\ f[3] = r
      /\ IsSeq(f)
  <2> DEFINE S == {<<"type", DataPacket>>, <<"size", 1>>, r}
             g == <<<<"type", DataPacket>>, <<"size", 1>>>>
             h == <<r>>
  <2>1. /\ g \in Seq(S) /\ Len(g) = 2
        /\ g[1] = <<"type", DataPacket>> /\ g[2] = <<"size", 1>>
    OBVIOUS
  <2>2. h \in Seq(S) /\ Len(h) = 1 /\ h[1] = r
    OBVIOUS
  <2>0. f = g \o h
    BY <1>1
  <2> HIDE DEF S, g, h
  <2>3. IsSeq(g) /\ IsSeq(h)
    BY <2>1, <2>2, SeqIsSeq
  <2>4. /\ IsSeq(f) /\ Len(f) = Len(g) + Len(h)
        /\ \A i \in 1 .. Len(g) : f[i] = g[i]
        /\ \A i \in 1 .. Len(h) : f[Len(g) + i] = h[i]
    <3>1. /\ IsSeq(g \o h) /\ Len(g \o h) = Len(g) + Len(h)
          /\ \A i \in 1 .. Len(g) : (g \o h)[i] = g[i]
          /\ \A i \in 1 .. Len(h) : (g \o h)[Len(g) + i] = h[i]
      BY <2>3, ConcatFacts
    <3> QED BY <3>1, <2>0
  <2>5. Len(f) = 3 /\ f[1] = g[1] /\ f[2] = g[2] /\ f[3] = h[1]
    BY <2>1, <2>2, <2>4
  <2> QED BY <2>1, <2>2, <2>4, <2>5
<1>3. /\ IsSeq(t) /\ Len(c) \in Nat /\ Len(t) = Len(c) + 3
      /\ \A i \in 1 .. Len(c) : t[i] = c[i]
      /\ t[Len(c) + 1] = f[1] /\ t[Len(c) + 2] = f[2] /\ t[Len(c) + 3] = f[3]
  <2>1. /\ IsSeq(t) /\ Len(c) \in Nat /\ Len(t) = Len(c) + Len(f)
        /\ \A i \in 1 .. Len(c) : t[i] = c[i]
        /\ \A i \in 1 .. Len(f) : t[Len(c) + i] = f[i]
    <3>1. IsSeq(f)
      BY <1>2
    <3> QED BY <3>1, ConcatFacts
  <2> HIDE DEF t
  <2>2. Len(f) = 3 /\ 1 \in 1 .. 3 /\ 2 \in 1 .. 3 /\ 3 \in 1 .. 3
    BY <1>2
  <2> QED BY <2>1, <2>2
<1> HIDE DEF t
<1>4. (k + Len(t)) % 3 = 0
  BY <1>3
<1>5. Fits(k, t)
  <2> SUFFICES ASSUME NEW j \in 1 .. Len(c) + 3 PROVE Good(k + j, t[j])
    BY <1>3 DEF Fits
  <2>1. CASE j \in 1 .. Len(c)
    BY <1>3, <2>1 DEF Fits
  <2>2. CASE j = Len(c) + 1
    <3>1. (k + j) % 3 = 1
      BY <1>3, <2>2
    <3>2. t[j] = <<"type", DataPacket>>
      BY <1>2, <1>3, <2>2
    <3> QED BY <3>1, <3>2 DEF Good
  <2>3. CASE j = Len(c) + 2
    <3>1. (k + j) % 3 = 2
      BY <1>3, <2>3
    <3>2. t[j] = <<"size", 1>>
      BY <1>2, <1>3, <2>3
    <3> QED BY <3>1, <3>2 DEF Good
  <2>4. CASE j = Len(c) + 3
    <3>1. (k + j) % 3 = 0
      BY <1>3, <2>4
    <3>2. t[j] \in Requests
      BY <1>2, <1>3, <2>4
    <3> QED BY <3>1, <3>2 DEF Good
  <2> QED BY <1>3, <2>1, <2>2, <2>3, <2>4
<1> QED BY <1>3, <1>4, <1>5 DEF t, f

\* What a read makes of a buffer that fits: it waits, or it takes a request.
LEMMA ReadFits ==
    ASSUME NEW a, IsSeq(a), Fits(0, a)
    PROVE  /\ Len(a) < 3 => ReadStatus(a) = "WOULD_BLOCK"
           /\ Len(a) >= 3 => /\ ReadStatus(a) = "SUCCESS"
                             /\ FirstData(a)[1] \in Requests
                             /\ Drained(a) = SubSeq(a, 4, Len(a))
<1>1. Len(a) \in Nat
  BY ConcatFacts
<1>2. Len(a) >= 2 => a[1] = <<"type", DataPacket>> /\ a[2] = <<"size", 1>>
  <2>1. HAVE Len(a) >= 2
  <2>2. Good(0 + 1, a[1]) /\ Good(0 + 2, a[2])
    BY <1>1, <2>1 DEF Fits
  <2> QED BY <2>2 DEF Good
<1>3. CASE Len(a) < 2
  BY <1>1, <1>3 DEF ReadStatus, HeaderSize
<1>4. CASE Len(a) >= 2
  <2>1. a[1] = <<"type", DataPacket>> /\ a[2] # <<"size", 0>> /\ a[2][2] = 1
    BY <1>2, <1>4
  <2>2. ReadStatus(a) = IF Len(a) < 3 THEN "WOULD_BLOCK" ELSE "SUCCESS"
    BY <1>1, <1>4, <2>1 DEF ReadStatus, HeaderSize
  <2>3. ASSUME Len(a) >= 3
        PROVE  FirstData(a)[1] \in Requests /\ Drained(a) = SubSeq(a, 4, Len(a))
    <3>1. FirstData(a) = SubSeq(a, 3, 3) /\ Drained(a) = SubSeq(a, 4, Len(a))
      BY <2>1 DEF FirstData, Drained, HeaderSize
    <3>2. SubSeq(a, 3, 3)[1] = a[3]
      BY <1>1, <2>3, SliceFacts
    <3>3. Good(0 + 3, a[3])
      BY <1>1, <2>3 DEF Fits
    <3> QED BY <3>1, <3>2, <3>3 DEF Good
  <2> QED BY <1>1, <2>2, <2>3
<1> QED BY <1>1, <1>3, <1>4

\* So a stream that fits behind a frame fits without it.
LEMMA FitsShift ==
    ASSUME NEW k \in Nat, NEW s, IsSeq(s), Fits(k + 3, s)
    PROVE  Fits(k, s)
<1> SUFFICES ASSUME NEW j \in 1 .. Len(s) PROVE Good(k + j, s[j])
  BY DEF Fits
<1>1. Good((k + 3) + j, s[j])
  BY DEF Fits
<1>2. (k + 3) + j = (k + j) + 3 /\ k + j \in Nat
  BY ConcatFacts
<1> QED BY <1>1, <1>2, GoodShift

-----------------------------------------------------------------------------
\* Initially nothing is in any buffer.
LEMMA LoopInit == SocketInit => LoopInv
<1> SUFFICES ASSUME SocketInit PROVE LoopInv
  OBVIOUS
<1>1. /\ sock = Socket /\ incoming = <<>> /\ peer = "open" /\ active = {} /\ exit = "no"
      /\ pc = "loop" /\ force_exit = FALSE /\ outgoing = <<>>
      /\ client = [calls |-> <<>>, unsent |-> <<>>, inbuf |-> <<>>]
  BY DEF SocketInit, IpcInit
<1>2. IsSeq(<<>>) /\ Len(<<>>) = 0
  <2>1. <<>> \in Seq({}) /\ Len(<<>>) = 0
    OBVIOUS
  <2> QED BY <2>1, SeqIsSeq
<1>3. \A k : Fits(k, <<>>)
  BY <1>2 DEF Fits
<1>4. LoopTypes
  BY <1>1, <1>2 DEF LoopTypes, Socket
<1>5. Framed
  BY <1>1, <1>2, <1>3 DEF Framed, Socket
<1>6. Between
  BY <1>1, <1>2 DEF Between, Socket, ReadStatus, HeaderSize
<1> QED BY <1>4, <1>5, <1>6 DEF LoopInv

\* What is written and what is left of it.
LEMMA WriteFacts ==
    ASSUME NEW buf, IsSeq(buf), IsSeq(outgoing), NEW n \in Writable(buf)
    PROVE  IsSeq(outgoing \o SubSeq(buf, 1, n)) /\ IsSeq(Unsent(buf, n))
<1>1. Len(buf) \in Nat /\ Len(outgoing) \in Nat
  BY ConcatFacts
<1>2. Space \in Int
  BY <1>1, CapacityAssumption DEF Space
<1>3. n \in Nat /\ n <= Len(buf)
  BY <1>1, <1>2 DEF Writable
<1>4. IsSeq(SubSeq(buf, 1, n))
  BY <1>1, <1>3, SliceFacts
<1>5. IsSeq(SubSeq(buf, n + 1, Len(buf)))
  BY <1>1, <1>3, SliceFacts
<1> QED BY <1>4, <1>5, ConcatFacts DEF Unsent

\* A write buffer with a response added is a sequence.
LEMMA AddedSeq ==
    ASSUME NEW buf, IsSeq(buf), NEW answer
    PROVE  IsSeq(Added(buf, Response(answer)))
<1> DEFINE x == <<"status", answer.op, answer.status>>
           y == <<"data", answer.index>>
           z == IF answer.op = "child_create" /\ answer.status = "SUCCESS" THEN <<y>> ELSE <<>>
           r == <<x>> \o z
           g == <<<<"type", DataPacket>>, <<"size", Len(r)>>>>
<1>1. <<x>> \in Seq({x}) /\ <<y>> \in Seq({y}) /\ <<>> \in Seq({y})
  OBVIOUS
<1>2. g \in Seq({<<"type", DataPacket>>, <<"size", Len(r)>>})
  OBVIOUS
<1>3. Added(buf, Response(answer)) = buf \o (g \o r)
  BY DEF Added, Response, Frame
<1>4. z \in Seq({y})
  BY <1>1
<1> HIDE DEF x, y, z, g
<1>5. IsSeq(<<x>>) /\ IsSeq(z) /\ IsSeq(g)
  BY <1>1, <1>2, <1>4, SeqIsSeq
<1>6. IsSeq(r)
  BY <1>5, ConcatFacts
<1> HIDE DEF r
<1>7. IsSeq(g \o r)
  BY <1>5, <1>6, ConcatFacts
<1> QED BY <1>3, <1>7, ConcatFacts

\* A step that moves no part of the stream of requests.
LEMMA StreamKept ==
    ASSUME LoopInv, sock'.readbuf = sock.readbuf, UNCHANGED <<incoming, peer>>,
           client'.unsent = client.unsent, exit = "left" => exit' = "left"
    PROVE  Framed' /\ IsSeq(sock.readbuf)' /\ IsSeq(incoming)' /\ IsSeq(client.unsent)'
  BY DEF LoopInv, LoopTypes, Framed

\* The loop calls the read callback.
LEMMA BeginIpcReadInv ==
    ASSUME LoopInv, BeginIpcRead
    PROVE  LoopInv'
<1>1. LoopTypes'
  BY DEF LoopInv, LoopTypes, BeginIpcRead
<1>2. Framed'
  BY StreamKept DEF BeginIpcRead
<1>3. Between'
  BY DEF LoopInv, LoopTypes, Between, BeginIpcRead, Space
<1> QED BY <1>1, <1>2, <1>3 DEF LoopInv

\* How the read callback ends.
LEMMA EndFacts ==
    ASSUME NEW r, NEW w, NEW e,
           EndIpcRead([readbuf |-> r, writebuf |-> w, write_ev |-> e])
    PROVE  /\ pc' = "loop"
           /\ sock' = [readbuf |-> r, writebuf |-> w, write_ev |-> sock'.write_ev]
           /\ w # <<>> => sock'.write_ev = "pending" /\ "write" \notin active'
           /\ active' \subseteq active
  BY DEF EndIpcRead, SetWritecb

\* The read moves what it finds to the read buffer.  A request that is not whole is
\* left there, and the loop is left only at the end of the stream.
LEMMA IpcReadInv ==
    ASSUME LoopInv, IpcRead
    PROVE  LoopInv' /\ (exit' # exit => peer = "closed")
<1> DEFINE a == sock.readbuf
           b == incoming
           u == client.unsent
           Took(n) ==
             LET buf == a \o SubSeq(b, 1, n)
                 status == IF AtEnd THEN "EVBUFFER_EOF" ELSE ReadStatus(buf)
                 read == [sock EXCEPT !.readbuf = buf]
             IN  /\ incoming' = SubSeq(b, n + 1, Len(b))
                 /\ \/ /\ status = "SUCCESS"
                       /\ request' = FirstData(buf)[1]
                       /\ sock' = [sock EXCEPT !.readbuf = Drained(buf)]
                       /\ pc' = "dispatch"
                       /\ Stay /\ UNCHANGED active
                    \/ /\ status = "WOULD_BLOCK"
                       /\ EndIpcRead(read)
                       /\ Stay /\ UNCHANGED request
                    \/ /\ status \notin {"SUCCESS", "WOULD_BLOCK"}
                       /\ EndIpcRead(read)
                       /\ DataserviceExitEventLoop /\ UNCHANGED request
<1>1. PICK n \in Readable : Took(n)
  BY DEF IpcRead
<1>2. UNCHANGED <<outgoing, peer, client>> /\ pc = "read"
  BY DEF IpcRead, contextVars
<1>3. /\ exit \in {"no", "asked", "last"} /\ IsSeq(a) /\ IsSeq(b) /\ IsSeq(u)
      /\ Fits(0, a) /\ Fits(Len(a), b) /\ peer \in {"open", "closed"}
      /\ peer = "open" => /\ Fits(Len(a) + Len(b), u)
                          /\ (Len(a) + Len(b) + Len(u)) % 3 = 0
      /\ sock = [readbuf |-> a, writebuf |-> sock.writebuf, write_ev |-> sock.write_ev]
      /\ force_exit => exit # "no"
  BY <1>2 DEF LoopInv, LoopTypes, Framed, Between
<1>4. Len(a) \in Nat /\ Len(b) \in Nat /\ Len(u) \in Nat
  BY <1>3, ConcatFacts
<1>5. n \in Nat /\ n <= Len(b)
  BY <1>4 DEF Readable
<1> DEFINE c == a \o SubSeq(b, 1, n)
           d == SubSeq(b, n + 1, Len(b))
<1>6. /\ IsSeq(c) /\ IsSeq(d) /\ Len(c) = Len(a) + n /\ Len(d) = Len(b) - n
      /\ Fits(0, c) /\ Fits(Len(c), d)
  <2>1. Fits(0 + Len(a), b)
    BY <1>3, <1>4
  <2>2. /\ IsSeq(c) /\ IsSeq(d) /\ Len(c) = Len(a) + n /\ Len(d) = Len(b) - n
        /\ Fits(0, c) /\ Fits(0 + Len(c), d)
    BY <1>3, <1>5, <2>1, MoveFits
  <2> HIDE DEF c, d
  <2>3. 0 + Len(c) = Len(c)
    BY <1>4, <1>5, <2>2
  <2> QED BY <2>2, <2>3
<1>7. /\ incoming' = d
      /\ \/ /\ ~AtEnd /\ ReadStatus(c) = "SUCCESS"
            /\ request' = FirstData(c)[1]
            /\ sock' = [sock EXCEPT !.readbuf = Drained(c)]
            /\ pc' = "dispatch"
            /\ Stay /\ UNCHANGED active
         \/ /\ ~AtEnd /\ ReadStatus(c) = "WOULD_BLOCK"
            /\ EndIpcRead([sock EXCEPT !.readbuf = c])
            /\ Stay
         \/ /\ AtEnd \/ ReadStatus(c) \notin {"SUCCESS", "WOULD_BLOCK"}
            /\ EndIpcRead([sock EXCEPT !.readbuf = c])
            /\ DataserviceExitEventLoop
  BY <1>1
<1> HIDE DEF Took, c, d
<1>8. Len(c) \in Nat /\ Len(d) \in Nat /\ Len(c) + Len(d) = Len(a) + Len(b)
  BY <1>4, <1>5, <1>6
<1>9. ReadStatus(c) = IF Len(c) < 3 THEN "WOULD_BLOCK" ELSE "SUCCESS"
  BY <1>6, <1>8, ReadFits
<1> DEFINE Ends == EndIpcRead([sock EXCEPT !.readbuf = c])
<1>10. ASSUME Ends
       PROVE  /\ pc' = "loop" /\ sock'.readbuf = c /\ sock'.writebuf = sock.writebuf
              /\ sock' = [readbuf |-> sock'.readbuf, writebuf |-> sock'.writebuf,
                          write_ev |-> sock'.write_ev]
              /\ sock'.writebuf # <<>> => sock'.write_ev = "pending" /\ "write" \notin active'
  <2>1. [sock EXCEPT !.readbuf = c]
          = [readbuf |-> c, writebuf |-> sock.writebuf, write_ev |-> sock.write_ev]
    BY <1>3
  <2> QED BY <1>10, <2>1, EndFacts
<1> HIDE DEF Ends
<1>11. CASE ~AtEnd /\ Len(c) >= 3
  <2>1. /\ request' = FirstData(c)[1] /\ pc' = "dispatch" /\ Stay
        /\ sock' = [sock EXCEPT !.readbuf = Drained(c)]
    BY <1>7, <1>8, <1>9, <1>11 DEF Ends
  <2> DEFINE e == SubSeq(c, 4, Len(c))
  <2>2. request' \in Requests /\ Drained(c) = e
    BY <1>6, <1>11, <2>1, ReadFits
  <2>3. IsSeq(e) /\ Len(e) = Len(c) - 3 /\ Fits(0, e) /\ Fits(Len(e), d)
    BY <1>6, <1>11, DrainFits
  <2> HIDE DEF e
  <2>4. sock' = [readbuf |-> e, writebuf |-> sock.writebuf, write_ev |-> sock.write_ev]
    BY <1>3, <2>1, <2>2
  <2>5. Len(e) + Len(d) \in Nat /\ Len(a) + Len(b) = (Len(e) + Len(d)) + 3
    BY <1>8, <1>11, <2>3
  <2>6. peer = "open" => Fits(Len(e) + Len(d), u)
    BY <1>3, <2>5, FitsShift
  <2>7. peer = "open" => (Len(e) + Len(d) + Len(u)) % 3 = 0
    <3> DEFINE y == Len(e) + Len(d)
               v == Len(u)
               w == Len(a) + Len(b)
    <3>1. y \in Nat /\ v \in Nat /\ w = y + 3
      BY <1>4, <2>5
    <3>2. peer = "open" => (w + v) % 3 = 0
      BY <1>3
    <3> HIDE DEF y, v, w
    <3>3. (w + v) % 3 = (y + v) % 3
      BY <3>1
    <3> QED BY <3>2, <3>3 DEF y, v
  <2>8. LoopTypes'
    BY <1>2, <1>3, <1>6, <1>7, <2>1, <2>3, <2>4 DEF LoopInv, LoopTypes, Stay
  <2>9. Framed'
    BY <1>2, <1>7, <2>3, <2>4, <2>6, <2>7 DEF Framed
  <2>10. Between'
    BY <1>3, <2>1, <2>2 DEF Between, Stay
  <2> QED BY <2>1, <2>8, <2>9, <2>10 DEF LoopInv, Stay
<1>12. CASE AtEnd \/ Len(c) < 3
  <2>1. /\ Ends
        /\ \/ ~AtEnd /\ Len(c) < 3 /\ Stay
           \/ AtEnd /\ DataserviceExitEventLoop
    BY <1>7, <1>8, <1>9, <1>12 DEF Ends
  <2>2. /\ pc' = "loop" /\ sock'.readbuf = c /\ sock'.writebuf = sock.writebuf
        /\ sock' = [readbuf |-> sock'.readbuf, writebuf |-> sock'.writebuf,
                    write_ev |-> sock'.write_ev]
        /\ sock'.writebuf # <<>> => sock'.write_ev = "pending" /\ "write" \notin active'
    BY <1>10, <2>1
  <2>3. /\ exit' \in {"no", "asked", "last"}
        /\ exit' # exit => peer = "closed"
        /\ exit' = "no" => exit = "no" /\ force_exit' = force_exit /\ Len(c) < 3
    BY <1>3, <2>1 DEF Stay, DataserviceExitEventLoop, ExitLoop, AtEnd
  <2>4. LoopTypes'
    BY <1>2, <1>3, <1>6, <1>7, <2>2, <2>3 DEF LoopInv, LoopTypes
  <2>5. Framed'
    BY <1>2, <1>3, <1>6, <1>7, <1>8, <2>2 DEF Framed
  <2>6. Between'
    BY <1>3, <1>9, <2>2, <2>3 DEF Between
  <2> QED BY <2>3, <2>4, <2>5, <2>6 DEF LoopInv
<1> QED BY <1>8, <1>11, <1>12

\* The request is answered; only a response that found no room makes the service leave.
LEMMA DispatchInv ==
    ASSUME LoopInv, Dispatch
    PROVE  LoopInv' /\ (exit' # exit => peer = "closed" \/ Space = 0)
<1> DEFINE buf == Added(sock.writebuf, Response(reply'))
           Wrote(n) ==
             LET written == [sock EXCEPT !.writebuf = Unsent(buf, n)] IN
             /\ outgoing' = outgoing \o SubSeq(buf, 1, n)
             /\ answered' = IF peer = "open" THEN Append(answered, Response(reply'))
                            ELSE answered
             /\ IF n = 0 THEN DataserviceExitEventLoop ELSE Stay
             /\ IF sock.readbuf # <<>>
                THEN pc' = "read" /\ sock' = written /\ UNCHANGED active
                ELSE EndIpcRead(written)
<1>1. PICK n \in Writable(buf) : Wrote(n)
  BY DEF Dispatch
<1>2. pc = "dispatch" /\ UNCHANGED <<incoming, peer, client>>
  BY DEF Dispatch
<1> DEFINE w == Unsent(buf, n)
<1>3. n = 0 => peer = "closed" \/ Space = 0
  <2> DEFINE m == IF Len(buf) < Space THEN Len(buf) ELSE Space
  <2>1. SUFFICES ASSUME n = 0, peer # "closed", Space # 0 PROVE FALSE
    OBVIOUS
  <2>2. n \in 1 .. m
    BY <2>1 DEF Writable
  <2> HIDE DEF m
  <2> QED BY <2>1, <2>2
<1>4. /\ IF n = 0 THEN DataserviceExitEventLoop ELSE Stay
      /\ IF sock.readbuf # <<>>
         THEN pc' = "read" /\ sock' = [sock EXCEPT !.writebuf = w]
         ELSE EndIpcRead([sock EXCEPT !.writebuf = w])
  BY <1>1
<1>13. outgoing' = outgoing \o SubSeq(buf, 1, n)
  BY <1>1
<1>14. IsSeq(outgoing') /\ IsSeq(w)
  <2>1. IsSeq(sock.writebuf) /\ IsSeq(outgoing)
    BY DEF LoopInv, LoopTypes
  <2>2. IsSeq(buf)
    BY <2>1, AddedSeq
  <2> HIDE DEF buf
  <2> QED BY <1>13, <2>1, <2>2, WriteFacts
<1> HIDE DEF buf, Wrote, w
<1>5. /\ sock = [readbuf |-> sock.readbuf, writebuf |-> sock.writebuf,
                 write_ev |-> sock.write_ev]
      /\ exit \in {"no", "asked", "last"} /\ (force_exit => exit # "no")
  BY <1>2 DEF LoopInv, LoopTypes, Between
<1>6. /\ exit' \in {"no", "asked", "last"} /\ (force_exit' => exit' # "no")
      /\ exit' # exit => peer = "closed" \/ Space = 0
  BY <1>3, <1>4, <1>5 DEF Stay, DataserviceExitEventLoop, ExitLoop
<1>7. [sock EXCEPT !.writebuf = w]
        = [readbuf |-> sock.readbuf, writebuf |-> w, write_ev |-> sock.write_ev]
  BY <1>5
<1>8. /\ sock' = [readbuf |-> sock'.readbuf, writebuf |-> sock'.writebuf,
                  write_ev |-> sock'.write_ev]
      /\ sock'.readbuf = sock.readbuf /\ sock'.writebuf = w /\ pc' \in {"loop", "read"}
      /\ pc' = "loop" =>
           /\ sock.readbuf = <<>>
           /\ sock'.writebuf # <<>> => sock'.write_ev = "pending" /\ "write" \notin active'
  <2>1. CASE sock.readbuf # <<>>
    BY <1>4, <1>7, <2>1
  <2>2. CASE sock.readbuf = <<>>
    <3>1. EndIpcRead([readbuf |-> sock.readbuf, writebuf |-> w, write_ev |-> sock.write_ev])
      BY <1>4, <1>7, <2>2
    <3> QED BY <3>1, <2>2, EndFacts
  <2> QED BY <2>1, <2>2
<1>9. Framed' /\ IsSeq(sock.readbuf)' /\ IsSeq(incoming)' /\ IsSeq(client.unsent)'
  BY <1>2, <1>5, <1>8, StreamKept
<1>10. LoopTypes'
  BY <1>2, <1>6, <1>8, <1>9, <1>14 DEF LoopInv, LoopTypes
<1>11. pc' = "loop" => ReadStatus(sock.readbuf)' = "WOULD_BLOCK"
  <2>1. Len(<<>>) = 0
    OBVIOUS
  <2> QED BY <1>8, <2>1 DEF ReadStatus, HeaderSize
<1>12. Between'
  BY <1>6, <1>8, <1>11 DEF Between
<1> QED BY <1>6, <1>9, <1>10, <1>12 DEF LoopInv

\* The write callback finds the room for which it was called, so that what it leaves in
\* the buffer has its event again.
LEMMA IpcWriteInv ==
    ASSUME LoopInv, IpcWrite
    PROVE  LoopInv' /\ (exit' # exit => peer = "closed")
<1>1. /\ pc = "loop" /\ "write" \in active /\ pc' = "loop"
      /\ UNCHANGED <<incoming, peer, client, request>>
  BY DEF IpcWrite
<1>2. /\ sock = [readbuf |-> sock.readbuf, writebuf |-> sock.writebuf,
                 write_ev |-> sock.write_ev]
      /\ exit \in {"no", "asked", "last"} /\ (force_exit => exit # "no")
      /\ sock.writebuf # <<>> => Space > 0 \/ peer = "closed"
      /\ exit = "no" => ReadStatus(sock.readbuf) = "WOULD_BLOCK"
      /\ IsSeq(sock.writebuf) /\ IsSeq(outgoing)
  BY <1>1 DEF LoopInv, LoopTypes, Between
<1> DEFINE Rec(r, w, e) == [readbuf |-> r, writebuf |-> w, write_ev |-> e]
<1>3. /\ sock' = Rec(sock'.readbuf, sock'.writebuf, sock'.write_ev)
      /\ sock'.readbuf = sock.readbuf /\ IsSeq(sock'.writebuf) /\ IsSeq(outgoing')
      /\ "write" \notin active' /\ active' \subseteq active
      /\ exit' \in {"no", "asked", "last"} /\ (force_exit' => exit' # "no")
      /\ exit' # exit => peer = "closed"
      /\ exit' = "no" => exit = "no"
      /\ exit' = "no" /\ sock'.writebuf # <<>> => sock'.write_ev = "pending"
  <2>1. CASE sock.writebuf = <<>>
    <3>1. /\ sock' = [[sock EXCEPT !.write_ev = "called"] EXCEPT !.write_ev = "none"]
          /\ active' = active \ {"write"} /\ Stay /\ outgoing' = outgoing
      BY <2>1 DEF IpcWrite, ClearWritecb
    <3>2. sock' = Rec(sock.readbuf, sock.writebuf, "none")
      BY <1>2, <3>1
    <3> QED BY <1>2, <2>1, <3>1, <3>2 DEF Stay
  <2>2. CASE sock.writebuf # <<>>
    <3> DEFINE called == [sock EXCEPT !.write_ev = "called"]
    <3>1. PICK n \in Writable(sock.writebuf) :
            /\ outgoing' = outgoing \o SubSeq(sock.writebuf, 1, n)
            /\ AfterWrite([called EXCEPT !.writebuf = Unsent(@, n)], n)
      BY <2>2 DEF IpcWrite
    <3>2. IF peer = "closed" THEN DataserviceExitEventLoop ELSE Stay
      BY <2>2 DEF IpcWrite
    <3> DEFINE w == Unsent(sock.writebuf, n)
    <3>3. [called EXCEPT !.writebuf = Unsent(@, n)] = Rec(sock.readbuf, w, "called")
      <4>1. called = Rec(sock.readbuf, sock.writebuf, "called")
        BY <1>2
      <4> HIDE DEF called
      <4> QED BY <4>1
    <3>8. IsSeq(outgoing') /\ IsSeq(w)
      BY <1>2, <3>1, WriteFacts
    <3> HIDE DEF called, w
    <3>4. peer # "closed" => n > 0
      BY <1>2, <2>2 DEF Writable
    <3>5. AfterWrite(Rec(sock.readbuf, w, "called"), n)
      BY <3>1, <3>3
    <3>6. /\ active' = active \ {"write"}
          /\ sock' = Rec(sock.readbuf, w, IF n > 0 /\ w # <<>> THEN "pending" ELSE "called")
      BY <3>5 DEF AfterWrite, SetWritecb
    <3>7. /\ exit' \in {"no", "asked", "last"} /\ (force_exit' => exit' # "no")
          /\ exit' # exit => peer = "closed"
          /\ exit' = "no" => peer # "closed" /\ exit = "no"
      BY <1>2, <3>2 DEF Stay, DataserviceExitEventLoop, ExitLoop
    <3> QED BY <3>4, <3>6, <3>7, <3>8
  <2> QED BY <2>1, <2>2
<1>4. Framed' /\ IsSeq(sock.readbuf)' /\ IsSeq(incoming)' /\ IsSeq(client.unsent)'
  BY <1>1, <1>2, <1>3, StreamKept
<1>5. LoopTypes'
  BY <1>1, <1>3, <1>4 DEF LoopInv, LoopTypes
<1>6. Between'
  BY <1>1, <1>2, <1>3 DEF Between
<1> QED BY <1>3, <1>4, <1>5, <1>6 DEF LoopInv

\* A turn of the loop makes the write event ready only if there is room, or no peer.
LEMMA TurnInv ==
    ASSUME LoopInv, Turn
    PROVE  LoopInv' /\ (exit = "no" => exit' = "no")
<1>1. /\ pc = "loop" /\ exit \in {"no", "asked"} /\ active' = ReadyEvents
      /\ exit' = IF exit = "asked" THEN "last" ELSE "no"
      /\ UNCHANGED <<sock, incoming, outgoing, peer, pc, request, force_exit, client>>
  BY DEF Turn, BeginTurn
<1>2. "write" \in active' => Space > 0 \/ peer = "closed"
  BY <1>1 DEF ReadyEvents
<1>3. Framed'
  BY <1>1, StreamKept
<1>4. LoopTypes'
  BY <1>1 DEF LoopInv, LoopTypes
<1>5. Space' = Space
  BY <1>1 DEF Space
<1>6. Between'
  BY <1>1, <1>2, <1>5 DEF LoopInv, Between
<1> QED BY <1>1, <1>3, <1>4, <1>6 DEF LoopInv

\* The service leaves its event loop.
LEMMA LeaveInv ==
    ASSUME LoopInv, Leave
    PROVE  LoopInv' /\ exit # "no"
<1>1. /\ pc = "loop" /\ active = {} /\ exit = "last" /\ exit' = "left" /\ sock' = Socket
      /\ UNCHANGED <<incoming, outgoing, peer, active, pc, request, force_exit, client>>
  BY DEF Leave
<1>2. <<>> \in Seq({})
  OBVIOUS
<1>3. IsSeq(<<>>)
  BY <1>2, SeqIsSeq
<1>4. LoopTypes'
  BY <1>1, <1>3 DEF LoopInv, LoopTypes, Socket
<1>5. Framed'
  BY <1>1 DEF Framed
<1>6. Between'
  BY <1>1 DEF Between
<1> QED BY <1>1, <1>4, <1>5, <1>6 DEF LoopInv

\* A signal asks it to.
LEMMA SignalInv ==
    ASSUME LoopInv, Signal
    PROVE  LoopInv'
<1>1. /\ pc = "loop" /\ exit = "no" /\ exit' = "asked"
      /\ UNCHANGED <<sock, incoming, outgoing, peer, active, pc, request, force_exit, client>>
  BY DEF Signal, SignalCb, ExitLoop
<1>2. Framed'
  BY <1>1, StreamKept
<1>3. LoopTypes'
  BY <1>1 DEF LoopInv, LoopTypes
<1>4. Between'
  BY <1>1 DEF LoopInv, Between, Space
<1> QED BY <1>2, <1>3, <1>4 DEF LoopInv

-----------------------------------------------------------------------------
\* The steps of the client take no room from the service and leave its events alone.
LEMMA ClientKeeps ==
    ASSUME LoopInv, Connected, clientStep, peer' = peer \/ peer' = "closed",
           Space > 0 => Space' > 0 \/ peer' = "closed"
    PROVE  Between' /\ UNCHANGED <<sock, exit>> /\ exit # "left"
<1>1. UNCHANGED <<sock, active, exit, pc, request, force_exit>> /\ exit # "left"
  BY DEF clientStep, Connected
<1>2. Space > 0 \/ peer = "closed" => Space' > 0 \/ peer' = "closed"
  OBVIOUS
<1> QED BY <1>1, <1>2 DEF LoopInv, Between

\* The client puts a request behind those it has not sent.
LEMMA CallInv ==
    ASSUME LoopInv, Call
    PROVE  LoopInv'
<1>1. PICK r \in Requests :
        client' = [client EXCEPT !.calls = Append(@, r), !.unsent = @ \o Frame(<<r>>)]
  BY DEF Call
<1>2. Connected /\ clientStep /\ UNCHANGED <<incoming, outgoing, peer>>
  BY DEF Call
<1>3. Between' /\ UNCHANGED <<sock, exit, pc>> /\ exit # "left" /\ peer = "open"
  BY <1>2, ClientKeeps DEF clientStep, Connected, Space
<1> DEFINE u == client.unsent
           t == u \o Frame(<<r>>)
           k == Len(sock.readbuf) + Len(incoming)
<1>4. client' = [calls |-> client'.calls, unsent |-> t, inbuf |-> client'.inbuf]
  BY <1>1 DEF LoopInv, LoopTypes
<1>5. /\ IsSeq(sock.readbuf) /\ IsSeq(incoming) /\ IsSeq(u)
      /\ Fits(0, sock.readbuf) /\ Fits(Len(sock.readbuf), incoming)
      /\ Fits(k, u) /\ (k + Len(u)) % 3 = 0
  BY <1>3 DEF LoopInv, LoopTypes, Framed
<1>6. k \in Nat
  BY <1>5, ConcatFacts
<1> HIDE DEF k, u
<1>7. IsSeq(t) /\ Fits(k, t) /\ (k + Len(t)) % 3 = 0
  BY <1>5, <1>6, FrameFits
<1> HIDE DEF t
<1>8. LoopTypes'
  BY <1>2, <1>3, <1>4, <1>7 DEF LoopInv, LoopTypes
<1>9. Framed'
  <2>1. client'.unsent = t /\ sock'.readbuf = sock.readbuf /\ incoming' = incoming
    BY <1>2, <1>3, <1>4
  <2>2. Fits(Len(sock'.readbuf) + Len(incoming'), client'.unsent)
    BY <1>7, <2>1 DEF k
  <2>3. (Len(sock'.readbuf) + Len(incoming') + Len(client'.unsent)) % 3 = 0
    BY <1>7, <2>1 DEF k
  <2>4. Fits(0, sock'.readbuf) /\ Fits(Len(sock'.readbuf), incoming')
    BY <1>5, <2>1
  <2> QED BY <2>2, <2>3, <2>4 DEF Framed
<1> QED BY <1>3, <1>8, <1>9 DEF LoopInv

\* The kernel takes some of it.
LEMMA SendSomeInv ==
    ASSUME LoopInv, SendSome
    PROVE  LoopInv'
<1> DEFINE a == incoming
           u == client.unsent
           k == Len(sock.readbuf)
<1>1. PICK n \in 1 .. Len(u) :
        /\ incoming' = a \o SubSeq(u, 1, n)
        /\ client' = [client EXCEPT !.unsent = SubSeq(@, n + 1, Len(@))]
  BY DEF SendSome
<1>2. Connected /\ clientStep /\ UNCHANGED <<outgoing, peer>>
  BY DEF SendSome
<1>3. Between' /\ UNCHANGED <<sock, exit, pc>> /\ exit # "left" /\ peer = "open"
  BY <1>2, ClientKeeps DEF clientStep, Connected, Space
<1>4. /\ IsSeq(sock.readbuf) /\ IsSeq(a) /\ IsSeq(u)
      /\ Fits(0, sock.readbuf) /\ Fits(k, a) /\ Fits(k + Len(a), u)
      /\ (k + Len(a) + Len(u)) % 3 = 0
  BY <1>3 DEF LoopInv, LoopTypes, Framed
<1>5. k \in Nat /\ Len(a) \in Nat /\ Len(u) \in Nat
  BY <1>4, ConcatFacts
<1>6. n \in Nat /\ n <= Len(u)
  BY <1>5
<1> DEFINE c == a \o SubSeq(u, 1, n)
           d == SubSeq(u, n + 1, Len(u))
<1>7. client' = [calls |-> client'.calls, unsent |-> d, inbuf |-> client'.inbuf]
  BY <1>1 DEF LoopInv, LoopTypes
<1>8. incoming' = c
  BY <1>1
<1> HIDE DEF a, u, k
<1>9. /\ IsSeq(c) /\ IsSeq(d) /\ Len(c) = Len(a) + n /\ Len(d) = Len(u) - n
      /\ Fits(k, c) /\ Fits(k + Len(c), d)
  BY <1>4, <1>5, <1>6, MoveFits
<1> HIDE DEF c, d
<1>10. k + Len(c) + Len(d) = k + Len(a) + Len(u)
  BY <1>5, <1>6, <1>9
<1>11. LoopTypes'
  BY <1>2, <1>3, <1>7, <1>8, <1>9 DEF LoopInv, LoopTypes
<1>12. Framed'
  <2>1. client'.unsent = d /\ sock'.readbuf = sock.readbuf
    BY <1>3, <1>7
  <2>2. Fits(Len(sock'.readbuf) + Len(incoming'), client'.unsent)
    BY <1>8, <1>9, <2>1 DEF k
  <2>3. (Len(sock'.readbuf) + Len(incoming') + Len(client'.unsent)) % 3 = 0
    <3>1. (k + Len(c) + Len(d)) % 3 = 0
      BY <1>4, <1>10
    <3> QED BY <1>8, <2>1, <3>1 DEF k
  <2>4. Fits(0, sock'.readbuf) /\ Fits(Len(sock'.readbuf), incoming')
    BY <1>4, <1>8, <1>9, <2>1 DEF k
  <2> QED BY <2>2, <2>3, <2>4 DEF Framed
<1> QED BY <1>3, <1>11, <1>12 DEF LoopInv

\* The client takes some of what the kernel holds for it,
LEMMA ReadSomeInv ==
    ASSUME LoopInv, ReadSome
    PROVE  LoopInv'
<1>1. PICK n \in 1 .. Len(outgoing) :
        /\ outgoing' = SubSeq(outgoing, n + 1, Len(outgoing))
        /\ client' = [client EXCEPT !.inbuf = @ \o SubSeq(outgoing, 1, n)]
  BY DEF ReadSome
<1>2. Connected /\ clientStep /\ UNCHANGED <<incoming, peer>>
  BY DEF ReadSome
<1>3. UNCHANGED <<sock, exit, pc>>
  BY <1>2 DEF clientStep
<1>4. IsSeq(outgoing) /\ Len(outgoing) \in Nat
  BY ConcatFacts DEF LoopInv, LoopTypes
<1>5. n \in Nat /\ n + 1 <= Len(outgoing) + 1 /\ n + 1 \in Nat
  BY <1>4
<1>6. IsSeq(outgoing') /\ Len(outgoing') = Len(outgoing) + 1 - (n + 1)
  BY <1>1, <1>4, <1>5, SliceFacts
<1>7. Space > 0 => Space' > 0
  BY <1>4, <1>5, <1>6, CapacityAssumption DEF Space
<1>8. Between'
  BY <1>2, <1>7, ClientKeeps
<1>9. client' = [calls |-> client.calls, unsent |-> client.unsent, inbuf |-> client'.inbuf]
  BY <1>1 DEF LoopInv, LoopTypes
<1>10. LoopTypes'
  BY <1>2, <1>3, <1>6, <1>9 DEF LoopInv, LoopTypes
<1>11. Framed'
  <2>1. sock'.readbuf = sock.readbuf /\ client'.unsent = client.unsent
    BY <1>3, <1>9
  <2> QED BY <1>2, <1>3, <2>1, StreamKept
<1> QED BY <1>8, <1>10, <1>11 DEF LoopInv

\* and removes a whole response.
LEMMA ReceiveInv ==
    ASSUME LoopInv, Receive
    PROVE  LoopInv'
<1>1. /\ Connected /\ clientStep /\ UNCHANGED <<incoming, outgoing, peer>>
      /\ client' = [client EXCEPT !.calls = Tail(@), !.inbuf = Drained(@)]
  BY DEF Receive
<1>2. UNCHANGED <<sock, exit, pc>> /\ Between'
  BY <1>1, ClientKeeps DEF clientStep, Space
<1>3. client' = [calls |-> client'.calls, unsent |-> client.unsent, inbuf |-> client'.inbuf]
  BY <1>1 DEF LoopInv, LoopTypes
<1>4. LoopTypes'
  BY <1>1, <1>2, <1>3 DEF LoopInv, LoopTypes
<1>5. Framed'
  <2>1. sock'.readbuf = sock.readbuf /\ client'.unsent = client.unsent
    BY <1>2, <1>3
  <2> QED BY <1>1, <1>2, <2>1, StreamKept
<1> QED BY <1>2, <1>4, <1>5 DEF LoopInv

\* The client goes away.
LEMMA ClientCloseInv ==
    ASSUME LoopInv, Close
    PROVE  LoopInv'
<1>1. /\ Connected /\ clientStep /\ incoming' = incoming
      /\ peer' = "closed" /\ outgoing' = <<>>
      /\ client' = [client EXCEPT !.calls = <<>>, !.unsent = <<>>, !.inbuf = <<>>]
  BY DEF Close
<1>2. UNCHANGED <<sock, exit, pc>> /\ Between'
  BY <1>1, ClientKeeps DEF clientStep
<1>3. client' = [calls |-> <<>>, unsent |-> <<>>, inbuf |-> <<>>]
  BY <1>1 DEF LoopInv, LoopTypes
<1>4. <<>> \in Seq({})
  OBVIOUS
<1>5. IsSeq(<<>>)
  BY <1>4, SeqIsSeq
<1>6. LoopTypes'
  BY <1>1, <1>2, <1>3, <1>5 DEF LoopInv, LoopTypes
<1>7. Framed'
  BY <1>1, <1>2 DEF LoopInv, Framed
<1> QED BY <1>2, <1>6, <1>7 DEF LoopInv

\* Every step keeps the invariant of the loop.
LEMMA LoopStep == LoopInv /\ [SocketNext]_socketVars => LoopInv'
<1> SUFFICES ASSUME LoopInv, [SocketNext]_socketVars PROVE LoopInv'
  OBVIOUS
<1>1. CASE Service
  BY <1>1, BeginIpcReadInv, IpcReadInv, DispatchInv, IpcWriteInv, TurnInv, LeaveInv DEF Service
<1>2. CASE Signal \/ Call \/ SendSome \/ ReadSome \/ Receive \/ Close
  BY <1>2, SignalInv, CallInv, SendSomeInv, ReadSomeInv, ReceiveInv, ClientCloseInv
<1>3. CASE UNCHANGED socketVars
  BY <1>3 DEF socketVars, ipcVars, LoopInv, LoopTypes, Framed, Between, Space
<1> QED BY <1>1, <1>2, <1>3 DEF SocketNext
-----------------------------------------------------------------------------
\* The buffers, the streams and the events of the loop stay in the relation that its
\* callbacks rely on: the read buffer begins at the start of a frame
\* (ipc_read_data_noblock), and between two turns nothing that can go on waits
\* (dataservice_ipc_read, dataservice_ipc_write).
THEOREM LoopInvariant == SocketSpec => []LoopInv
  BY LoopInit, LoopStep, PTL DEF SocketSpec

\* Whenever the loop waits for the kernel, every request that was read whole is
\* dispatched and every response that is not sent has its event, wherever the kernel
\* cuts the streams (dataservice_ipc_read, dataservice_ipc_write).
THEOREM StrandedCorrect == SocketSpec => []NothingStranded
<1>1. LoopInv => NothingStranded
  BY DEF LoopInv, Between, NothingStranded
<1> QED BY <1>1, LoopInvariant, PTL

\* The service leaves its loop for a signal, at the end of its client, or when the
\* kernel takes nothing of a response, and for nothing else.
THEOREM CauseCorrect == SocketSpec => LeavesForCause
<1>1. LoopInv /\ [SocketNext]_socketVars =>
        [exit = "no" /\ exit' # "no" => Signal \/ peer = "closed" \/ Space = 0]_socketVars
  <2> SUFFICES ASSUME LoopInv, SocketNext, exit = "no", exit' # "no"
               PROVE  Signal \/ peer = "closed" \/ Space = 0
    OBVIOUS
  <2>1. CASE Service
    <3>1. BeginIpcRead => exit' = exit
      BY DEF BeginIpcRead
    <3> QED BY <2>1, <3>1, IpcReadInv, DispatchInv, IpcWriteInv, TurnInv, LeaveInv DEF Service
  <2>2. CASE Call \/ SendSome \/ ReadSome \/ Receive \/ Close
    BY <2>2 DEF Call, SendSome, ReadSome, Receive, Close, clientStep
  <2> QED BY <2>1, <2>2 DEF SocketNext
<1> QED BY <1>1, LoopInvariant, PTL DEF SocketSpec, LeavesForCause

\* Behind its socket the process is the one of DataContexts: every request that comes
\* out of the stream is one of its operations, so that what holds there holds for a
\* client that pipelines its requests.
THEOREM SocketImplements == SocketSpec => Spec
<1>1. SocketInit => Init
  BY DEF SocketInit
<1>2. LoopInv /\ [SocketNext]_socketVars => [Next]_vars
  <2> SUFFICES ASSUME LoopInv, [SocketNext]_socketVars, ~UNCHANGED vars PROVE Next
    OBVIOUS
  <2>1. CASE Dispatch
    <3>1. request \in Requests /\ Perform(request)
      BY <2>1 DEF Dispatch, LoopInv, Between
    <3>2. request.caps \in SUBSET Cap /\ request.index \in Index
      BY <3>1, RequestsAssumption
    <3> QED BY <3>1, <3>2 DEF Perform, Next
  <2>2. CASE Leave
    BY <2>2 DEF Leave, Next
  <2>3. ~(BeginIpcRead \/ IpcRead \/ IpcWrite \/ Turn \/ Signal)
    BY DEF BeginIpcRead, IpcRead, IpcWrite, Turn, Signal, contextVars, vars
  <2>4. ~(Call \/ SendSome \/ ReadSome \/ Receive \/ Close)
    BY DEF Call, SendSome, ReadSome, Receive, Close, clientStep, contextVars, vars
  <2>5. ~UNCHANGED socketVars
    BY DEF socketVars, contextVars, vars
  <2> QED BY <2>1, <2>2, <2>3, <2>4, <2>5 DEF SocketNext, Service
<1> QED BY <1>1, <1>2, LoopInvariant, PTL DEF SocketSpec, Spec

\* So no slot is lost and none is handed out twice, whatever is sent.
THEOREM SocketSlots == SocketSpec => []SlotsAccountedFor
  BY SocketImplements, SlotsCorrect, PTL

\* And authority is never regained.
THEOREM SocketAuthority == SocketSpec => AuthorityOnlyShrinks
  BY SocketImplements, AuthorityCorrect, PTL
=============================================================================
