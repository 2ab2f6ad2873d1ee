------------------------------ MODULE AnswersProofs ------------------------------
(***************************************************************************)
(* A client receives at most one packet for each of its offsets, and one   *)
(* that says its block is not the latest has a reason.                     *)
(*                                                                         *)
(* The offset of a request wanders: from the socket of the connection to   *)
(* the mailbox of the endpoint, to the maps, to the mailbox of the write   *)
(* endpoint, and to the client.  The invariant says that it is at one of   *)
(* these places, and there once.  That the maps hold one offset per client *)
(* is what HeldIsTranslated adds: they are the inverse of each other.      *)
(*                                                                         *)
(* The reason depends on which assertion an offset stands for.  The second *)
(* invariant follows the block that was asserted through both offsets, and *)
(* the block updates, which reach the service in rising order.             *)
(***************************************************************************)
EXTENDS AssertionsProofs

\* No two messages of s, those in e left out, have the same offset.
Once(s, e) ==
    \A j, k \in 1 .. Len(s) :
        s[j] \notin e /\ s[k] \notin e /\ s[j].offset = s[k].offset => j = k

Offsets(s, e) == {m.offset : m \in Range(s) \ e}

\* No two messages of a client in the endpoint's mailbox have the same offset.
OncePerClient(s) ==
    \A j, k \in 1 .. Len(s) : s[j].client = s[k].client /\ s[j].offset = s[k].offset => j = k

OfClient(s, c) == {m.offset : m \in {x \in Range(s) : x.client = c}}

\* The places of an offset.
Unread(c) == Range(conn[c].input)

Forwarded(c) == OfClient(notifybox, c)

Mapped(c) == {serverMap[n].offset : n \in {k \in DOMAIN serverMap : serverMap[k].client = c}}

Boxed(c) == Offsets(conn[c].box, {Shutdown})

Told(c) == Offsets(answers[c], {})

ConnFields == {"main", "set", "write", "box", "reply", "open", "peer", "input"}

Mailboxes ==
    /\ DOMAIN conn = Client /\ DOMAIN asked = Client /\ DOMAIN answers = Client
    /\ IsSeq(notifybox) /\ OncePerClient(notifybox)
    /\ \A c \in Client :
          /\ DOMAIN conn[c] = ConnFields
          /\ IsSeq(conn[c].input) /\ Len(conn[c].input) <= 1
          /\ IsSeq(conn[c].box) /\ Once(conn[c].box, {Shutdown})
          /\ IsSeq(answers[c]) /\ Once(answers[c], {})
          /\ IsSeq(asked[c])

\* The client numbers its requests; 0 is the offset of the packet that ends a connection.
Numbered(c) ==
    /\ Unread(c) \cup Forwarded(c) \cup Mapped(c) \subseteq 1 .. Len(asked[c])
    /\ Boxed(c) \cup Told(c) \subseteq 0 .. Len(asked[c])
    /\ conn[c].main # "ended" => 0 \notin Boxed(c) \cup Told(c)

Separate(U, F, M, B, T) ==
    /\ U \cap (F \cup M \cup B \cup T) = {}
    /\ F \cap (M \cup B \cup T) = {}
    /\ M \cap (B \cup T) = {}
    /\ B \cap T = {}

OnePlace(c) == Separate(Unread(c), Forwarded(c), Mapped(c), Boxed(c), Told(c))

PlaceInv == Mailboxes /\ \A c \in Client : Numbered(c) /\ OnePlace(c)

-----------------------------------------------------------------------------
\* A message whose offset is not there yet is appended.
LEMMA OnceAppend ==
    ASSUME NEW s, NEW e, IsSeq(s), Once(s, e), NEW x, x \in e \/ x.offset \notin Offsets(s, e)
    PROVE  /\ IsSeq(Append(s, x)) /\ Once(Append(s, x), e)
           /\ Offsets(Append(s, x), e) = Offsets(s, e) \cup {m.offset : m \in {x} \ e}
<1> DEFINE t == Append(s, x)
<1>1. /\ IsSeq(t) /\ Len(s) \in Nat /\ Len(t) = Len(s) + 1
      /\ \A j \in 1 .. Len(s) : t[j] = s[j]
      /\ t[Len(s) + 1] = x /\ Range(t) = Range(s) \cup {x}
  BY AppendFacts
<1>2. \A j \in 1 .. Len(s) : s[j] \in Range(s)
  BY DEF IsSeq, Range
<1> HIDE DEF t
<1>3. \A j \in 1 .. Len(s) : s[j] \notin e => s[j].offset \in Offsets(s, e)
  BY <1>2 DEF Offsets
<1>4. Once(t, e)
  <2> SUFFICES ASSUME NEW j \in 1 .. Len(t), NEW k \in 1 .. Len(t),
                      t[j] \notin e, t[k] \notin e, t[j].offset = t[k].offset
               PROVE  j = k
    BY DEF Once
  <2>1. CASE j \in 1 .. Len(s) /\ k \in 1 .. Len(s)
    BY <1>1, <2>1 DEF Once
  <2>2. CASE j \in 1 .. Len(s) /\ k = Len(s) + 1
    BY <1>1, <1>3, <2>2
  <2>3. CASE k \in 1 .. Len(s) /\ j = Len(s) + 1
    BY <1>1, <1>3, <2>3
  <2>4. CASE j = Len(s) + 1 /\ k = Len(s) + 1
    BY <2>4
  <2> QED BY <1>1, <2>1, <2>2, <2>3, <2>4
<1>5. Offsets(t, e) = Offsets(s, e) \cup {m.offset : m \in {x} \ e}
  BY <1>1 DEF Offsets
<1> QED BY <1>1, <1>4, <1>5 DEF t

\* The first message is taken.
LEMMA OnceTail ==
    ASSUME NEW s, NEW e, IsSeq(s), Once(s, e), s # <<>>
    PROVE  /\ IsSeq(Tail(s)) /\ Once(Tail(s), e)
           /\ Offsets(Tail(s), e) \subseteq Offsets(s, e)
           /\ Head(s) \notin e => /\ Head(s).offset \in Offsets(s, e)
                                  /\ Head(s).offset \notin Offsets(Tail(s), e)
<1> DEFINE t == Tail(s)
<1>1. /\ IsSeq(t) /\ Len(s) \in Nat /\ Len(t) = Len(s) - 1 /\ Len(t) \in Nat
      /\ \A j \in 1 .. Len(s) - 1 : t[j] = s[j + 1]
      /\ Head(s) = s[1] /\ 1 \in 1 .. Len(s) /\ Range(s) = Range(t) \cup {Head(s)}
  BY TailFacts
<1> HIDE DEF t
<1>2. Once(t, e)
  <2> SUFFICES ASSUME NEW j \in 1 .. Len(t), NEW k \in 1 .. Len(t),
                      t[j] \notin e, t[k] \notin e, t[j].offset = t[k].offset
               PROVE  j = k
    BY DEF Once
  <2>1. j + 1 \in 1 .. Len(s) /\ k + 1 \in 1 .. Len(s) /\ t[j] = s[j + 1] /\ t[k] = s[k + 1]
    BY <1>1
  <2>2. j + 1 = k + 1
    BY <2>1 DEF Once
  <2> QED BY <2>2
<1>3. ASSUME Head(s) \notin e PROVE Head(s).offset \notin Offsets(t, e)
  <2> SUFFICES ASSUME NEW m \in Range(t), m \notin e, m.offset = Head(s).offset PROVE FALSE
    BY DEF Offsets
  <2>1. \E j \in 1 .. Len(t) : t[j] = m
    BY <1>1, IndexOf, Zenon
  <2>2. PICK j \in 1 .. Len(t) : t[j] = m
    BY <2>1
  <2>3. j + 1 \in 1 .. Len(s) /\ s[j + 1] = m /\ j + 1 # 1
    BY <1>1, <2>2
  <2> QED BY <1>1, <1>3, <2>3 DEF Once
<1>4. Offsets(t, e) \subseteq Offsets(s, e)
      /\ (Head(s) \notin e => Head(s).offset \in Offsets(s, e))
  BY <1>1 DEF Offsets
<1> QED BY <1>1, <1>2, <1>3, <1>4 DEF t

\* The same for the mailbox of the endpoint.
LEMMA ClientAppend ==
    ASSUME NEW s, IsSeq(s), OncePerClient(s), NEW x, x.offset \notin OfClient(s, x.client)
    PROVE  /\ IsSeq(Append(s, x)) /\ OncePerClient(Append(s, x))
           /\ \A c : c # x.client => OfClient(Append(s, x), c) = OfClient(s, c)
           /\ OfClient(Append(s, x), x.client) = OfClient(s, x.client) \cup {x.offset}
<1> DEFINE t == Append(s, x)
<1>1. /\ IsSeq(t) /\ Len(s) \in Nat /\ Len(t) = Len(s) + 1
      /\ \A j \in 1 .. Len(s) : t[j] = s[j]
      /\ t[Len(s) + 1] = x /\ Range(t) = Range(s) \cup {x}
  BY AppendFacts
<1>2. \A j \in 1 .. Len(s) : s[j] \in Range(s)
  BY DEF IsSeq, Range
<1> HIDE DEF t
<1>3. \A j \in 1 .. Len(s) : s[j].client = x.client => s[j].offset # x.offset
  BY <1>2 DEF OfClient
<1>4. OncePerClient(t)
  <2> SUFFICES ASSUME NEW j \in 1 .. Len(t), NEW k \in 1 .. Len(t),
                      t[j].client = t[k].client, t[j].offset = t[k].offset
               PROVE  j = k
    BY DEF OncePerClient
  <2>1. CASE j \in 1 .. Len(s) /\ k \in 1 .. Len(s)
    BY <1>1, <2>1 DEF OncePerClient
  <2>2. CASE j \in 1 .. Len(s) /\ k = Len(s) + 1
    BY <1>1, <1>3, <2>2
  <2>3. CASE k \in 1 .. Len(s) /\ j = Len(s) + 1
    BY <1>1, <1>3, <2>3
  <2>4. CASE j = Len(s) + 1 /\ k = Len(s) + 1
    BY <2>4
  <2> QED BY <1>1, <2>1, <2>2, <2>3, <2>4
<1>5. /\ \A c : c # x.client => OfClient(t, c) = OfClient(s, c)
      /\ OfClient(t, x.client) = OfClient(s, x.client) \cup {x.offset}
  BY <1>1 DEF OfClient
<1> QED BY <1>1, <1>4, <1>5 DEF t

\* The endpoint takes the first of them.
LEMMA ClientTail ==
    ASSUME NEW s, IsSeq(s), OncePerClient(s), s # <<>>
    PROVE  /\ IsSeq(Tail(s)) /\ OncePerClient(Tail(s))
           /\ \A c : OfClient(Tail(s), c) \subseteq OfClient(s, c)
           /\ Head(s).offset \in OfClient(s, Head(s).client)
           /\ Head(s).offset \notin OfClient(Tail(s), Head(s).client)
<1> DEFINE t == Tail(s)
           h == Head(s)
<1>1. /\ IsSeq(t) /\ Len(s) \in Nat /\ Len(t) = Len(s) - 1 /\ Len(t) \in Nat
      /\ \A j \in 1 .. Len(s) - 1 : t[j] = s[j + 1]
      /\ h = s[1] /\ 1 \in 1 .. Len(s) /\ Range(s) = Range(t) \cup {h}
  BY TailFacts
<1> HIDE DEF t, h
<1>2. OncePerClient(t)
  <2> SUFFICES ASSUME NEW j \in 1 .. Len(t), NEW k \in 1 .. Len(t),
                      t[j].client = t[k].client, t[j].offset = t[k].offset
               PROVE  j = k
    BY DEF OncePerClient
  <2>1. j + 1 \in 1 .. Len(s) /\ k + 1 \in 1 .. Len(s) /\ t[j] = s[j + 1] /\ t[k] = s[k + 1]
    BY <1>1
  <2>2. j + 1 = k + 1
    BY <2>1 DEF OncePerClient
  <2> QED BY <2>2
<1>3. h.offset \notin OfClient(t, h.client)
  <2> SUFFICES ASSUME NEW m \in Range(t), m.client = h.client, m.offset = h.offset PROVE FALSE
    BY DEF OfClient
  <2>1. \E j \in 1 .. Len(t) : t[j] = m
    BY <1>1, IndexOf, Zenon
  <2>2. PICK j \in 1 .. Len(t) : t[j] = m
    BY <2>1
  <2>3. j + 1 \in 1 .. Len(s) /\ s[j + 1] = m /\ j + 1 # 1
    BY <1>1, <2>2
  <2> QED BY <1>1, <2>3 DEF OncePerClient
<1>4. (\A c : OfClient(t, c) \subseteq OfClient(s, c)) /\ h.offset \in OfClient(s, h.client)
  BY <1>1 DEF OfClient
<1> QED BY <1>1, <1>2, <1>3, <1>4 DEF t, h

-----------------------------------------------------------------------------
\* An offset that was forwarded, or is in the mailbox, is at no other place.
LEMMA PlaceOffset ==
    ASSUME NEW c, OnePlace(c), NEW o
    PROVE  /\ o \in Forwarded(c) => o \notin Unread(c) /\ o \notin Boxed(c) /\ o \notin Told(c)
           /\ o \in Mapped(c) => /\ o \notin Unread(c) /\ o \notin Forwarded(c)
                                 /\ o \notin Boxed(c) /\ o \notin Told(c)
           /\ o \in Boxed(c) => /\ o \notin Unread(c) /\ o \notin Forwarded(c)
                                /\ o \notin Mapped(c) /\ o \notin Told(c)
<1>1. PICK U, F, M, B, T : /\ U = Unread(c) /\ F = Forwarded(c) /\ M = Mapped(c)
                           /\ B = Boxed(c) /\ T = Told(c)
  OBVIOUS
<1>2. Separate(U, F, M, B, T)
  BY <1>1 DEF OnePlace
<1>3. /\ o \in F => o \notin U /\ o \notin B /\ o \notin T
      /\ o \in M => o \notin U /\ o \notin F /\ o \notin B /\ o \notin T
      /\ o \in B => o \notin U /\ o \notin F /\ o \notin M /\ o \notin T
  BY <1>2 DEF Separate
<1> QED BY <1>1, <1>3

\* No offset of a client comes to a place where it was not.
Stays(c) ==
    /\ Unread(c)' \subseteq Unread(c) /\ Forwarded(c)' \subseteq Forwarded(c)
    /\ Mapped(c)' \subseteq Mapped(c) /\ Boxed(c)' \subseteq Boxed(c) /\ Told(c)' \subseteq Told(c)
    /\ asked'[c] = asked[c]
    /\ conn'[c].main # "ended" => conn[c].main # "ended"

\* Then the client keeps what the invariant says of it.
LEMMA StaysInv ==
    ASSUME NEW c, Numbered(c), OnePlace(c), Stays(c)
    PROVE  Numbered(c)' /\ OnePlace(c)'
<1>1. Numbered(c)'
  BY DEF Numbered, Stays
<1>2. OnePlace(c)'
  BY DEF OnePlace, Separate, Stays
<1> QED BY <1>1, <1>2

\* In the beginning all places are empty.
LEMMA InitPlace == Init => PlaceInv
<1> SUFFICES ASSUME Init PROVE PlaceInv
  OBVIOUS
<1>1. IsSeq(<<>>) /\ Range(<<>>) = {} /\ Len(<<>>) = 0 /\ \A e : Once(<<>>, e)
      /\ OncePerClient(<<>>)
  BY DEF IsSeq, Range, Once, OncePerClient
<1>2. \A c \in Client : /\ conn[c].input = <<>> /\ conn[c].box = <<>> /\ DOMAIN conn[c] = ConnFields
                        /\ answers[c] = <<>> /\ asked[c] = <<>>
  BY DEF Init, NewConnection, ConnFields
<1>3. notifybox = <<>> /\ DOMAIN serverMap = {}
  BY DEF Init, EndpointAdd
<1>4. Mailboxes
  BY <1>1, <1>2, <1>3 DEF Mailboxes, Init
<1>5. \A c \in Client : Unread(c) = {} /\ Forwarded(c) = {} /\ Mapped(c) = {} /\ Boxed(c) = {}
                        /\ Told(c) = {}
  BY <1>1, <1>2, <1>3 DEF Unread, Forwarded, Mapped, Boxed, Told, OfClient, Offsets
<1>6. \A c \in Client : Numbered(c) /\ OnePlace(c)
  BY <1>5 DEF Numbered, OnePlace, Separate
<1> QED BY <1>4, <1>6 DEF PlaceInv

\* Steps that touch none of the places.
LEMMA StillPlace ==
    ASSUME PlaceInv, UNCHANGED <<conn, asked, answers, notifybox, serverMap>>
    PROVE  PlaceInv'
<1>1. Mailboxes'
  BY Zenon DEF PlaceInv, Mailboxes
<1>2. \A c \in Client : Stays(c)
  BY DEF Stays, Unread, Forwarded, Mapped, Boxed, Told
<1> QED BY <1>1, <1>2, StaysInv DEF PlaceInv

\* Steps in which the record of one connection changes, and nothing else but what is said.
LEMMA ConnFacts ==
    ASSUME PlaceInv, NEW d \in Client, NEW q, conn' = [conn EXCEPT ![d] = q],
           DOMAIN q = ConnFields, IsSeq(q.input), Len(q.input) <= 1,
           IsSeq(q.box), Once(q.box, {Shutdown}),
           asked' = asked, DOMAIN answers' = Client, IsSeq(answers'[d]), Once(answers'[d], {}),
           \A c \in Client \ {d} : answers'[c] = answers[c],
           IsSeq(notifybox'), OncePerClient(notifybox'),
           \A c \in Client \ {d} : Forwarded(c)' \subseteq Forwarded(c) /\ Mapped(c)' \subseteq Mapped(c),
           Numbered(d)', OnePlace(d)'
    PROVE  PlaceInv'
<1>1. DOMAIN conn' = Client /\ conn'[d] = q /\ \A c \in Client \ {d} : conn'[c] = conn[c]
  BY DEF PlaceInv, Mailboxes
<1>2. Mailboxes'
  <2>1. \A c \in Client : /\ DOMAIN conn'[c] = ConnFields
                          /\ IsSeq(conn'[c].input) /\ Len(conn'[c].input) <= 1
                          /\ IsSeq(conn'[c].box) /\ Once(conn'[c].box, {Shutdown})
                          /\ IsSeq(answers'[c]) /\ Once(answers'[c], {})
                          /\ IsSeq(asked'[c])
    BY Zenon, <1>1 DEF PlaceInv, Mailboxes
  <2>2. Shutdown' = Shutdown /\ DOMAIN asked' = Client
    BY DEF PlaceInv, Mailboxes, Shutdown, WriteEndpointMessage
  <2> QED BY Zenon, <1>1, <2>1, <2>2 DEF Mailboxes
<1>3. \A c \in Client \ {d} : Stays(c)
  BY <1>1 DEF Stays, Unread, Boxed, Told
<1>4. \A c \in Client \ {d} : Numbered(c)' /\ OnePlace(c)'
  BY <1>3, StaysInv DEF PlaceInv
<1> QED BY <1>2, <1>4 DEF PlaceInv

\* At most one request waits on the socket of a connection.
LEMMA InputFacts ==
    ASSUME NEW s, IsSeq(s), Len(s) <= 1, s # <<>>
    PROVE  /\ IsSeq(Tail(s)) /\ Len(Tail(s)) = 0 /\ Range(Tail(s)) = {}
           /\ Head(s) \in Range(s)
<1>1. /\ IsSeq(Tail(s)) /\ Len(s) \in Nat /\ Len(Tail(s)) = Len(s) - 1 /\ Len(Tail(s)) \in Nat
      /\ Range(s) = Range(Tail(s)) \cup {Head(s)}
  BY TailFacts
<1>2. Len(Tail(s)) = 0
  BY <1>1
<1>3. \A x \in Range(Tail(s)) : \E j \in 1 .. Len(Tail(s)) : Tail(s)[j] = x
  BY Zenon, <1>1, IndexOf
<1> QED BY <1>1, <1>2, <1>3

-----------------------------------------------------------------------------
\* A client gives its request the next number.
LEMMA SendsPlace ==
    ASSUME PlaceInv, NEW d \in Client, NEW kind, NEW b, ClientSends(d, kind, b)
    PROVE  PlaceInv'
<1> DEFINE n == Len(asked[d]) + 1
           a == Append(asked[d], [kind |-> kind, block |-> b, early |-> b # latest])
           in == Append(conn[d].input, n)
<1>1. /\ conn' = [conn EXCEPT ![d].input = in] /\ asked' = [asked EXCEPT ![d] = a]
      /\ conn[d].input = <<>> /\ UNCHANGED <<answers, notifybox, serverMap>>
  BY DEF ClientSends, epvars
<1>2. IsSeq(a) /\ Len(asked[d]) \in Nat /\ Len(a) = n
  BY AppendFacts DEF PlaceInv, Mailboxes
<1>3. IsSeq(<<>>) /\ Len(<<>>) = 0 /\ Range(<<>>) = {}
  BY DEF IsSeq, Range
<1>4. IsSeq(in) /\ Len(in) = 1 /\ Range(in) = {n}
  <2>1. IsSeq(conn[d].input) /\ Len(conn[d].input) = 0 /\ Range(conn[d].input) = {}
    BY <1>1, <1>3
  <2>2. IsSeq(in) /\ Len(in) = Len(conn[d].input) + 1 /\ Range(in) = Range(conn[d].input) \cup {n}
    BY <2>1, AppendFacts
  <2> HIDE DEF in, n
  <2> QED BY <2>1, <2>2
<1> HIDE DEF a, in
<1>5. /\ DOMAIN conn' = Client /\ DOMAIN conn'[d] = ConnFields /\ conn'[d].input = in
      /\ conn'[d].box = conn[d].box /\ conn'[d].main = conn[d].main
      /\ \A c \in Client \ {d} : conn'[c] = conn[c] /\ asked'[c] = asked[c]
      /\ DOMAIN asked' = Client /\ asked'[d] = a
  BY <1>1 DEF PlaceInv, Mailboxes, ConnFields
<1>6. Mailboxes'
  <2>1. Shutdown' = Shutdown
    BY DEF Shutdown, WriteEndpointMessage
  <2>2. \A c \in Client : /\ DOMAIN conn'[c] = ConnFields
                          /\ IsSeq(conn'[c].input) /\ Len(conn'[c].input) <= 1
                          /\ IsSeq(conn'[c].box) /\ Once(conn'[c].box, {Shutdown})
                          /\ IsSeq(asked'[c])
    <3>1. Len(conn'[d].input) <= 1
      <4>1. Len(in) <= 1
        BY <1>4
      <4>2. conn'[d].input = in
        BY <1>5
      <4> QED BY <4>1, <4>2
    <3>2. /\ DOMAIN conn'[d] = ConnFields /\ IsSeq(conn'[d].input) /\ IsSeq(conn'[d].box)
          /\ Once(conn'[d].box, {Shutdown}) /\ IsSeq(asked'[d])
      <4>1. IsSeq(conn[d].box) /\ Once(conn[d].box, {Shutdown})
        BY Zenon DEF PlaceInv, Mailboxes
      <4> HIDE DEF n
      <4> QED BY <1>2, <1>4, <1>5, <4>1
    <3>3. \A c \in Client \ {d} : /\ DOMAIN conn'[c] = ConnFields
                                  /\ IsSeq(conn'[c].input) /\ Len(conn'[c].input) <= 1
                                  /\ IsSeq(conn'[c].box) /\ Once(conn'[c].box, {Shutdown})
                                  /\ IsSeq(asked'[c])
      BY Zenon, <1>5 DEF PlaceInv, Mailboxes
    <3> QED BY Zenon, <3>1, <3>2, <3>3
  <2> QED BY Zenon, <1>1, <1>5, <2>1, <2>2 DEF PlaceInv, Mailboxes
<1>7. \A c \in Client \ {d} : Numbered(c)' /\ OnePlace(c)'
  <2>1. \A c \in Client \ {d} : Stays(c)
    BY <1>1, <1>5 DEF Stays, Unread, Forwarded, Mapped, Boxed, Told
  <2> QED BY <2>1, StaysInv DEF PlaceInv
<1>8. /\ Unread(d)' = {n} /\ Forwarded(d)' = Forwarded(d) /\ Mapped(d)' = Mapped(d)
      /\ Boxed(d)' = Boxed(d) /\ Told(d)' = Told(d)
  BY <1>1, <1>4, <1>5 DEF Unread, Forwarded, Mapped, Boxed, Told
<1>9. /\ n \notin 0 .. Len(asked[d]) /\ n \notin 1 .. Len(asked[d]) /\ n \in 1 .. n
      /\ 1 .. Len(asked[d]) \subseteq 1 .. n /\ 0 .. Len(asked[d]) \subseteq 0 .. n
  BY <1>2
<1> HIDE DEF n
<1>10. Numbered(d) /\ OnePlace(d)
  BY DEF PlaceInv
<1>11. Numbered(d)'
  BY <1>2, <1>5, <1>8, <1>9, <1>10 DEF Numbered
<1>12. OnePlace(d)'
  BY <1>8, <1>9, <1>10 DEF Numbered, OnePlace, Separate
<1> QED BY <1>6, <1>7, <1>11, <1>12 DEF PlaceInv

\* A request is refused: its offset goes to the mailbox of the write endpoint.
LEMMA RefusePlace ==
    ASSUME PlaceInv, NEW d \in Client, NEW o, RefuseRequest(d, o)
    PROVE  PlaceInv'
<1>1. PICK m : /\ m = Packet(asked[d][o].kind, o, Refusal(d, asked[d][o]))
               /\ conn' = [conn EXCEPT ![d].input = Tail(@), ![d].box = Append(@, m)]
  BY ZenonT(40) DEF RefuseRequest
<1>2. m.offset = o /\ m # Shutdown
  BY <1>1 DEF Packet, Shutdown, WriteEndpointMessage
<1>3. conn[d].input # <<>> /\ o = Head(conn[d].input) /\ conn[d].main # "ended"
      /\ UNCHANGED <<asked, answers, notifybox, serverMap>>
  BY DEF RefuseRequest, Reads, epvars
<1> DEFINE in == Tail(conn[d].input)
           box == Append(conn[d].box, m)
           q == [conn[d] EXCEPT !.input = in, !.box = box]
<1>4. IsSeq(in) /\ Len(in) <= 1 /\ Range(in) = {} /\ o \in Unread(d)
  <2>1. IsSeq(in) /\ Len(in) = 0 /\ Range(in) = {} /\ o \in Unread(d)
    BY <1>3, InputFacts DEF PlaceInv, Mailboxes, Unread
  <2> HIDE DEF in
  <2> QED BY <2>1
<1>5. Numbered(d) /\ OnePlace(d)
  BY DEF PlaceInv
<1>6. o \notin Boxed(d) /\ o \notin Told(d) /\ o \notin Mapped(d) /\ o \notin Forwarded(d)
      /\ o \in 1 .. Len(asked[d]) /\ o # 0
  BY <1>4, <1>5 DEF OnePlace, Separate, Numbered
<1>7. /\ IsSeq(box) /\ Once(box, {Shutdown}) /\ Offsets(box, {Shutdown}) = Boxed(d) \cup {o}
  <2>1. /\ IsSeq(box) /\ Once(box, {Shutdown})
        /\ Offsets(box, {Shutdown}) = Offsets(conn[d].box, {Shutdown})
              \cup {x.offset : x \in {m} \ {Shutdown}}
    BY ZenonT(40), <1>2, <1>6, OnceAppend DEF PlaceInv, Mailboxes, Boxed
  <2>2. {x.offset : x \in {m} \ {Shutdown}} = {o}
    BY <1>2
  <2> QED BY <2>1, <2>2 DEF Boxed
<1> HIDE DEF in, box
<1>8. /\ conn' = [conn EXCEPT ![d] = q] /\ DOMAIN q = ConnFields /\ q.input = in /\ q.box = box
      /\ q.main = conn[d].main /\ conn'[d] = q
  BY <1>1 DEF PlaceInv, Mailboxes, ConnFields, in, box
<1> HIDE DEF q
<1>9. Shutdown' = Shutdown
  BY DEF Shutdown, WriteEndpointMessage
<1>10. /\ Unread(d)' = {} /\ Boxed(d)' = Boxed(d) \cup {o} /\ Told(d)' = Told(d)
       /\ \A c \in Client : Forwarded(c)' = Forwarded(c) /\ Mapped(c)' = Mapped(c)
  BY ZenonT(40), <1>3, <1>4, <1>7, <1>8, <1>9 DEF Unread, Boxed, Told, Forwarded, Mapped
<1>11. Numbered(d)'
  BY <1>3, <1>5, <1>6, <1>8, <1>10 DEF Numbered
<1>12. OnePlace(d)'
  BY <1>5, <1>6, <1>10 DEF OnePlace, Separate
<1>13. /\ IsSeq(answers'[d]) /\ Once(answers'[d], {}) /\ DOMAIN answers' = Client
       /\ IsSeq(notifybox') /\ OncePerClient(notifybox')
  BY <1>3 DEF PlaceInv, Mailboxes
<1> QED BY Zenon, <1>3, <1>4, <1>7, <1>8, <1>10, <1>11, <1>12, <1>13, ConnFacts

\* A request is forwarded: its offset goes to the mailbox of the endpoint.
LEMMA ForwardPlace ==
    ASSUME PlaceInv, NEW d \in Client, NEW o,
           AssertLatestBlockId(d, o) \/ AssertLatestBlockIdCancel(d, o)
    PROVE  PlaceInv'
<1>1. PICK m, main : /\ m.client = d /\ m.offset = o /\ main # "ended"
                     /\ notifybox' = Append(notifybox, m)
                     /\ conn' = [conn EXCEPT ![d].input = Tail(@), ![d].main = main]
  BY Zenon DEF AssertLatestBlockId, AssertLatestBlockIdCancel, AssertionRequest
<1>2. conn[d].input # <<>> /\ o = Head(conn[d].input) /\ conn[d].main # "ended"
      /\ UNCHANGED <<asked, answers, serverMap>>
  BY Zenon DEF AssertLatestBlockId, AssertLatestBlockIdCancel, Reads
<1> DEFINE in == Tail(conn[d].input)
           q == [conn[d] EXCEPT !.input = in, !.main = main]
<1>3. IsSeq(in) /\ Len(in) <= 1 /\ Range(in) = {} /\ o \in Unread(d)
  <2>1. IsSeq(in) /\ Len(in) = 0 /\ Range(in) = {} /\ o \in Unread(d)
    BY Zenon, <1>2, InputFacts DEF PlaceInv, Mailboxes, Unread
  <2> HIDE DEF in
  <2> QED BY <2>1
<1>4. Numbered(d) /\ OnePlace(d)
  BY DEF PlaceInv
<1>5. o \notin Boxed(d) /\ o \notin Told(d) /\ o \notin Mapped(d) /\ o \notin Forwarded(d)
      /\ o \in 1 .. Len(asked[d])
  BY <1>3, <1>4 DEF OnePlace, Separate, Numbered
<1>6. /\ IsSeq(notifybox') /\ OncePerClient(notifybox') /\ Forwarded(d)' = Forwarded(d) \cup {o}
      /\ \A c \in Client \ {d} : Forwarded(c)' = Forwarded(c)
  <2>1. IsSeq(notifybox) /\ OncePerClient(notifybox) /\ m.offset \notin OfClient(notifybox, m.client)
    BY <1>1, <1>5 DEF PlaceInv, Mailboxes, Forwarded
  <2>2. /\ IsSeq(Append(notifybox, m)) /\ OncePerClient(Append(notifybox, m))
        /\ \A c : c # m.client => OfClient(Append(notifybox, m), c) = OfClient(notifybox, c)
        /\ OfClient(Append(notifybox, m), m.client) = OfClient(notifybox, m.client) \cup {m.offset}
    BY <2>1, ClientAppend, Zenon
  <2> QED BY <1>1, <2>2 DEF Forwarded
<1> HIDE DEF in
<1>7. /\ conn' = [conn EXCEPT ![d] = q] /\ DOMAIN q = ConnFields /\ q.input = in
      /\ q.box = conn[d].box /\ q.main = main /\ conn'[d] = q
  BY Zenon, <1>1 DEF PlaceInv, Mailboxes, ConnFields, in
<1> HIDE DEF q
<1>8. /\ Unread(d)' = {} /\ Boxed(d)' = Boxed(d) /\ Told(d)' = Told(d)
      /\ \A c \in Client : Mapped(c)' = Mapped(c)
  BY <1>2, <1>3, <1>7 DEF Unread, Boxed, Told, Mapped
<1>9. Numbered(d)'
  BY <1>1, <1>2, <1>4, <1>5, <1>6, <1>7, <1>8 DEF Numbered
<1>10. OnePlace(d)'
  BY <1>4, <1>5, <1>6, <1>8 DEF OnePlace, Separate
<1>11. /\ IsSeq(answers'[d]) /\ Once(answers'[d], {}) /\ DOMAIN answers' = Client
       /\ IsSeq(q.box) /\ Once(q.box, {Shutdown})
  BY Zenon, <1>2, <1>7 DEF PlaceInv, Mailboxes
<1> QED BY Zenon, <1>2, <1>3, <1>6, <1>7, <1>8, <1>9, <1>10, <1>11, ConnFacts

\* Steps of one connection after which its mailbox and its socket hold the same or less.
LEMMA LessPlace ==
    ASSUME PlaceInv, NEW d \in Client, UNCHANGED <<asked, answers, notifybox, serverMap>>,
           NEW q, conn' = [conn EXCEPT ![d] = q], DOMAIN q = ConnFields,
           q.input = conn[d].input, q.main # "ended" => conn[d].main # "ended",
           IsSeq(q.box), Once(q.box, {Shutdown}), Offsets(q.box, {Shutdown}) \subseteq Boxed(d)
    PROVE  PlaceInv'
<1>1. conn'[d] = q
  BY DEF PlaceInv, Mailboxes
<1>2. Stays(d) /\ \A c \in Client \ {d} : Forwarded(c)' = Forwarded(c) /\ Mapped(c)' = Mapped(c)
  <2>1. Shutdown' = Shutdown
    BY DEF Shutdown, WriteEndpointMessage
  <2> QED BY Zenon, <1>1, <2>1 DEF Stays, Unread, Boxed, Told, Forwarded, Mapped
<1>3. Numbered(d)' /\ OnePlace(d)'
  BY <1>2, StaysInv DEF PlaceInv
<1>4. /\ IsSeq(answers'[d]) /\ Once(answers'[d], {}) /\ DOMAIN answers' = Client
      /\ IsSeq(q.input) /\ Len(q.input) <= 1
      /\ IsSeq(notifybox') /\ OncePerClient(notifybox')
  BY DEF PlaceInv, Mailboxes
<1> QED BY ZenonT(40), <1>2, <1>3, <1>4, ConnFacts

\* Replies arrive, the client goes, the write endpoint ends, the context is released.
LEMMA ConnPlace ==
    ASSUME PlaceInv, NEW d \in Client,
           \/ AssertionReplied(d) \/ CancelReplied(d) \/ ClientCloses(d)
           \/ WriteEnds(d) \/ ReleaseContext(d)
    PROVE  PlaceInv'
<1>1. UNCHANGED <<asked, answers, notifybox, serverMap>>
  BY DEF AssertionReplied, CancelReplied, ClientCloses, WriteEnds, ReleaseContext, epvars
<1>2. /\ DOMAIN conn = Client /\ DOMAIN conn[d] = ConnFields
      /\ IsSeq(conn[d].box) /\ Once(conn[d].box, {Shutdown})
  BY Zenon DEF PlaceInv, Mailboxes
<1>3. CASE AssertionReplied(d) \/ CancelReplied(d) \/ ClientCloses(d)
  <2>1. PICK q : /\ conn' = [conn EXCEPT ![d] = q] /\ DOMAIN q = ConnFields
                 /\ q.input = conn[d].input /\ q.box = conn[d].box
                 /\ q.main # "ended" => conn[d].main # "ended"
    <3>1. CASE AssertionReplied(d)
      <4>1. conn' = [conn EXCEPT ![d] = [conn[d] EXCEPT !.reply = FALSE, !.main = "reading",
                                                        !.set = TRUE]]
        BY <1>2, <3>1 DEF AssertionReplied, ConnFields
      <4> QED BY <1>2, <3>1, <4>1 DEF AssertionReplied, ConnFields
    <3>2. CASE CancelReplied(d)
      <4>1. conn' = [conn EXCEPT ![d] = [conn[d] EXCEPT !.reply = FALSE, !.main = "reading"]]
        BY <1>2, <3>2 DEF CancelReplied, ConnFields
      <4> QED BY <1>2, <3>2, <4>1 DEF CancelReplied, ConnFields
    <3>3. CASE ClientCloses(d)
      <4>1. conn' = [conn EXCEPT ![d] = [conn[d] EXCEPT !.peer = FALSE]]
        BY <1>2, <3>3 DEF ClientCloses, ConnFields
      <4> QED BY Zenon, <1>2, <3>3, <4>1 DEF ClientCloses, ConnFields
    <3> QED BY <1>3, <3>1, <3>2, <3>3
  <2> QED BY Zenon, <1>1, <1>2, <2>1, LessPlace DEF Boxed
<1>4. CASE WriteEnds(d)
  <2> DEFINE q == [conn[d] EXCEPT !.write = "ended", !.box = Tail(conn[d].box)]
  <2>1. conn' = [conn EXCEPT ![d] = q] /\ conn[d].box # <<>>
    BY <1>2, <1>4 DEF WriteEnds, ConnFields
  <2>2. /\ DOMAIN q = ConnFields /\ q.input = conn[d].input /\ q.main = conn[d].main
        /\ q.box = Tail(conn[d].box)
    BY <1>2 DEF ConnFields
  <2> HIDE DEF q
  <2>3. IsSeq(q.box) /\ Once(q.box, {Shutdown}) /\ Offsets(q.box, {Shutdown}) \subseteq Boxed(d)
    <3>1. /\ IsSeq(Tail(conn[d].box)) /\ Once(Tail(conn[d].box), {Shutdown})
          /\ Offsets(Tail(conn[d].box), {Shutdown}) \subseteq Offsets(conn[d].box, {Shutdown})
      BY <1>2, <2>1, OnceTail, Zenon
    <3> QED BY <2>2, <3>1 DEF Boxed
  <2> QED BY Zenon, <1>1, <2>1, <2>2, <2>3, LessPlace
<1>5. CASE ReleaseContext(d)
  <2> DEFINE q == [conn[d] EXCEPT !.open = FALSE, !.box = <<>>]
  <2>1. conn' = [conn EXCEPT ![d] = q]
    BY Zenon, <1>2, <1>5 DEF ReleaseContext, ConnFields
  <2>2. DOMAIN q = ConnFields /\ q.input = conn[d].input /\ q.main = conn[d].main /\ q.box = <<>>
    BY <1>2 DEF ConnFields
  <2> HIDE DEF q
  <2>3. IsSeq(<<>>) /\ Once(<<>>, {Shutdown}) /\ Offsets(<<>>, {Shutdown}) = {}
    <3>1. IsSeq(<<>>) /\ Range(<<>>) = {} /\ Len(<<>>) = 0
      BY DEF IsSeq, Range
    <3> QED BY <3>1 DEF Once, Offsets
  <2> QED BY Zenon, <1>1, <2>1, <2>2, <2>3, LessPlace
<1> QED BY <1>3, <1>4, <1>5

\* The connection ends: the packet with offset 0 and the shutdown message are sent once.
LEMMA EndPlace ==
    ASSUME PlaceInv, NEW d \in Client, ReadEnds(d)
    PROVE  PlaceInv'
<1> DEFINE m == Packet("NONE", 0, "ERROR")
           b1 == Append(conn[d].box, m)
           b2 == Append(b1, Shutdown)
           q == [conn[d] EXCEPT !.main = "ended", !.box = b2]
<1>1. /\ conn' = [conn EXCEPT ![d].main = "ended", ![d].box = b2]
      /\ conn[d].main # "ended" /\ UNCHANGED <<asked, answers, notifybox, serverMap>>
  BY DEF ReadEnds, epvars
<1>2. m.offset = 0 /\ m # Shutdown /\ Shutdown' = Shutdown
  BY DEF Packet, Shutdown, WriteEndpointMessage
<1>3. /\ DOMAIN conn[d] = ConnFields /\ IsSeq(conn[d].box) /\ Once(conn[d].box, {Shutdown})
      /\ IsSeq(conn[d].input) /\ Len(conn[d].input) <= 1 /\ DOMAIN conn = Client
      /\ Numbered(d) /\ OnePlace(d)
  BY Zenon DEF PlaceInv, Mailboxes
<1> HIDE DEF m
<1>4. 0 \notin Boxed(d) /\ 0 \notin Told(d)
  BY <1>1, <1>3 DEF Numbered
<1>5. IsSeq(b1) /\ Once(b1, {Shutdown}) /\ Offsets(b1, {Shutdown}) = Boxed(d) \cup {0}
  <2>1. /\ IsSeq(b1) /\ Once(b1, {Shutdown})
        /\ Offsets(b1, {Shutdown}) = Offsets(conn[d].box, {Shutdown})
              \cup {x.offset : x \in {m} \ {Shutdown}}
    BY Zenon, <1>2, <1>3, <1>4, OnceAppend DEF Boxed
  <2>2. {x.offset : x \in {m} \ {Shutdown}} = {0}
    BY <1>2
  <2> QED BY <2>1, <2>2 DEF Boxed
<1> HIDE DEF b1
<1>6. IsSeq(b2) /\ Once(b2, {Shutdown}) /\ Offsets(b2, {Shutdown}) = Boxed(d) \cup {0}
  <2>1. /\ IsSeq(b2) /\ Once(b2, {Shutdown})
        /\ Offsets(b2, {Shutdown}) = Offsets(b1, {Shutdown})
              \cup {x.offset : x \in {Shutdown} \ {Shutdown}}
    BY Zenon, <1>5, OnceAppend
  <2>2. {x.offset : x \in {Shutdown} \ {Shutdown}} = {}
    OBVIOUS
  <2> QED BY <1>5, <2>1, <2>2
<1> HIDE DEF b2
<1>7. /\ conn' = [conn EXCEPT ![d] = q] /\ DOMAIN q = ConnFields /\ q.input = conn[d].input
      /\ q.box = b2 /\ q.main = "ended" /\ conn'[d] = q
  BY Zenon, <1>1, <1>3 DEF ConnFields
<1> HIDE DEF q
<1>8. /\ Unread(d)' = Unread(d) /\ Boxed(d)' = Boxed(d) \cup {0} /\ Told(d)' = Told(d)
      /\ \A c \in Client : Forwarded(c)' = Forwarded(c) /\ Mapped(c)' = Mapped(c)
  <2>1. Boxed(d)' = Offsets(b2, {Shutdown})
    BY <1>2, <1>7 DEF Boxed
  <2>2. Unread(d)' = Unread(d) /\ Told(d)' = Told(d)
        /\ \A c \in Client : Forwarded(c)' = Forwarded(c) /\ Mapped(c)' = Mapped(c)
    BY <1>1, <1>7 DEF Unread, Told, Forwarded, Mapped
  <2> QED BY <1>6, <2>1, <2>2
<1>9. 0 \notin 1 .. Len(asked[d]) /\ 0 \in 0 .. Len(asked[d])
  <2>1. Len(asked[d]) \in Nat
    BY DEF PlaceInv, Mailboxes, IsSeq
  <2> QED BY <2>1
<1>10. Numbered(d)'
  BY <1>1, <1>3, <1>7, <1>8, <1>9 DEF Numbered
<1>11. OnePlace(d)'
  <2>1. 0 \notin Unread(d) /\ 0 \notin Forwarded(d) /\ 0 \notin Mapped(d)
    BY <1>3, <1>9 DEF Numbered
  <2>2. PICK U, F, M, B, T : /\ U = Unread(d) /\ F = Forwarded(d) /\ M = Mapped(d)
                             /\ B = Boxed(d) /\ T = Told(d)
    OBVIOUS
  <2>3. /\ Separate(U, F, M, B, T)
        /\ 0 \notin U /\ 0 \notin F /\ 0 \notin M /\ 0 \notin T
    BY <1>3, <1>4, <2>1, <2>2 DEF OnePlace
  <2>4. Separate(U, F, M, B \cup {0}, T)
    BY <2>3 DEF Separate
  <2> QED BY <1>8, <2>2, <2>4 DEF OnePlace
<1>12. /\ IsSeq(answers'[d]) /\ Once(answers'[d], {}) /\ DOMAIN answers' = Client
       /\ IsSeq(notifybox') /\ OncePerClient(notifybox')
  BY <1>1 DEF PlaceInv, Mailboxes
<1>13. IsSeq(q.input) /\ Len(q.input) <= 1 /\ IsSeq(q.box) /\ Once(q.box, {Shutdown})
  BY <1>3, <1>6, <1>7
<1>14. \A c \in Client \ {d} : /\ answers'[c] = answers[c]
                                /\ Forwarded(c)' \subseteq Forwarded(c)
                                /\ Mapped(c)' \subseteq Mapped(c)
  BY <1>1, <1>8
<1>15. asked' = asked
  BY <1>1
<1> QED BY Zenon, <1>7, <1>10, <1>11, <1>12, <1>13, <1>14, <1>15, ConnFacts

\* A packet is written: its offset goes to the client.
LEMMA WritePlace ==
    ASSUME PlaceInv, NEW d \in Client, WritePacket(d)
    PROVE  PlaceInv'
<1> DEFINE m == Head(conn[d].box)
           p == [id |-> m.id, offset |-> m.offset, status |-> m.status]
           box == Tail(conn[d].box)
           told == Append(answers[d], p)
           q == [conn[d] EXCEPT !.box = box, !.set = @ /\ m.type # "NOTIFICATION"]
<1>1. /\ conn' = [conn EXCEPT ![d] = q] /\ answers' = [answers EXCEPT ![d] = told]
      /\ conn[d].box # <<>> /\ m.type # "SHUTDOWN" /\ UNCHANGED <<asked, notifybox, serverMap>>
  BY DEF WritePacket, Written, epvars
<1>2. m # Shutdown /\ Shutdown' = Shutdown
  BY <1>1 DEF Shutdown, WriteEndpointMessage
<1>3. /\ DOMAIN conn[d] = ConnFields /\ IsSeq(conn[d].box) /\ Once(conn[d].box, {Shutdown})
      /\ IsSeq(conn[d].input) /\ Len(conn[d].input) <= 1 /\ DOMAIN conn = Client
      /\ DOMAIN answers = Client /\ IsSeq(answers[d]) /\ Once(answers[d], {})
      /\ Numbered(d) /\ OnePlace(d)
  BY Zenon DEF PlaceInv, Mailboxes
<1>4. /\ IsSeq(box) /\ Once(box, {Shutdown}) /\ Offsets(box, {Shutdown}) \subseteq Boxed(d)
      /\ m.offset \in Boxed(d) /\ m.offset \notin Offsets(box, {Shutdown})
  BY ZenonT(40), <1>1, <1>2, <1>3, OnceTail DEF Boxed
<1>5. m.offset \notin Told(d) /\ m.offset \notin Unread(d) /\ m.offset \notin Forwarded(d)
      /\ m.offset \notin Mapped(d)
  BY Zenon, <1>3, <1>4, PlaceOffset
<1>6. p.offset = m.offset
  OBVIOUS
<1> HIDE DEF p
<1>7. IsSeq(told) /\ Once(told, {}) /\ Offsets(told, {}) = Told(d) \cup {m.offset}
  <2>1. /\ IsSeq(told) /\ Once(told, {})
        /\ Offsets(told, {}) = Offsets(answers[d], {}) \cup {x.offset : x \in {p} \ {}}
    BY <1>3, <1>5, <1>6, OnceAppend DEF Told
  <2>2. {x.offset : x \in {p} \ {}} = {m.offset}
    BY <1>6
  <2> QED BY <2>1, <2>2 DEF Told
<1> HIDE DEF told, box, m
<1>8. /\ DOMAIN q = ConnFields /\ q.input = conn[d].input /\ q.box = box
      /\ q.main = conn[d].main /\ conn'[d] = q
  BY <1>1, <1>3 DEF ConnFields
<1> HIDE DEF q
<1>9. /\ DOMAIN answers' = Client /\ answers'[d] = told
      /\ \A c \in Client \ {d} : answers'[c] = answers[c]
  BY <1>1, <1>3
<1>10. /\ Unread(d)' = Unread(d) /\ Boxed(d)' = Offsets(box, {Shutdown})
       /\ Told(d)' = Told(d) \cup {m.offset}
       /\ \A c \in Client : Forwarded(c)' = Forwarded(c) /\ Mapped(c)' = Mapped(c)
  <2>1. Unread(d)' = Unread(d)
    BY <1>8 DEF Unread
  <2>2. Boxed(d)' = Offsets(box, {Shutdown})
    BY <1>2, <1>8 DEF Boxed
  <2>3. Told(d)' = Told(d) \cup {m.offset}
    BY <1>7, <1>9 DEF Told
  <2>4. \A c \in Client : Forwarded(c)' = Forwarded(c) /\ Mapped(c)' = Mapped(c)
    BY <1>1 DEF Forwarded, Mapped
  <2> QED BY <2>1, <2>2, <2>3, <2>4
<1>11. Numbered(d)'
  BY ZenonT(40), <1>1, <1>3, <1>4, <1>8, <1>10 DEF Numbered
<1>12. OnePlace(d)'
  <2> DEFINE o == m.offset
             B == Offsets(box, {Shutdown})
  <2>1. /\ Unread(d)' = Unread(d) /\ Forwarded(d)' = Forwarded(d) /\ Mapped(d)' = Mapped(d)
        /\ Boxed(d)' = B /\ Told(d)' = Told(d) \cup {o} /\ B \subseteq Boxed(d) /\ o \notin B
    BY <1>4, <1>10
  <2>2. o \notin Unread(d) /\ o \notin Forwarded(d) /\ o \notin Mapped(d)
    BY <1>5
  <2> HIDE DEF o, B
  <2>3. PICK U, F, M, A, T : /\ U = Unread(d) /\ F = Forwarded(d) /\ M = Mapped(d)
                             /\ A = Boxed(d) /\ T = Told(d)
    OBVIOUS
  <2>4. /\ Separate(U, F, M, A, T) /\ B \subseteq A
        /\ o \notin U /\ o \notin F /\ o \notin M /\ o \notin B
    BY <1>3, <2>1, <2>2, <2>3 DEF OnePlace
  <2>5. Separate(U, F, M, B, T \cup {o})
    BY <2>4 DEF Separate
  <2> QED BY <2>1, <2>3, <2>5 DEF OnePlace
<1>13. IsSeq(notifybox') /\ OncePerClient(notifybox')
  BY <1>1 DEF PlaceInv, Mailboxes
<1> QED BY ZenonT(40), <1>1, <1>3, <1>4, <1>7, <1>8, <1>9, <1>10, <1>11, <1>12, <1>13, ConnFacts

\* Connections keep what the places of their offsets are made of.
SameConn(c) ==
    /\ DOMAIN conn'[c] = ConnFields /\ conn'[c].input = conn[c].input
    /\ conn'[c].box = conn[c].box /\ conn'[c].main = conn[c].main

\* The endpoint takes a request: its offset goes to the maps or is forgotten.
LEMMA EndpointStep ==
    ASSUME PlaceInv, notifybox # <<>>, notifybox' = Tail(notifybox), UNCHANGED <<asked, answers>>,
           DOMAIN conn' = Client, \A c \in Client : SameConn(c), NEW m, m = Head(notifybox),
           \A c \in Client : \/ Mapped(c)' = Mapped(c)
                             \/ c = m.client /\ Mapped(c)' = Mapped(c) \cup {m.offset}
    PROVE  PlaceInv'
<1>1. /\ IsSeq(notifybox') /\ OncePerClient(notifybox')
      /\ \A c : Forwarded(c)' \subseteq Forwarded(c)
      /\ m.offset \in Forwarded(m.client) /\ m.offset \notin Forwarded(m.client)'
  <2>1. IsSeq(notifybox) /\ OncePerClient(notifybox)
    BY Zenon DEF PlaceInv, Mailboxes
  <2>2. /\ IsSeq(Tail(notifybox)) /\ OncePerClient(Tail(notifybox))
        /\ \A c : OfClient(Tail(notifybox), c) \subseteq OfClient(notifybox, c)
        /\ m.offset \in OfClient(notifybox, m.client)
        /\ m.offset \notin OfClient(Tail(notifybox), m.client)
    BY <2>1, ClientTail, Zenon
  <2> QED BY <2>2 DEF Forwarded
<1>2. Shutdown' = Shutdown
  BY DEF Shutdown, WriteEndpointMessage
<1>3. Mailboxes'
  BY Zenon, <1>1, <1>2 DEF PlaceInv, Mailboxes, SameConn
<1>4. \A c \in Client : /\ Unread(c)' = Unread(c) /\ Boxed(c)' = Boxed(c) /\ Told(c)' = Told(c)
                        /\ conn'[c].main = conn[c].main /\ asked'[c] = asked[c]
  BY <1>2 DEF Unread, Boxed, Told, SameConn
<1>5. ASSUME NEW c \in Client PROVE Numbered(c)' /\ OnePlace(c)'
  <2>1. Numbered(c) /\ OnePlace(c)
    BY DEF PlaceInv
  <2>2. CASE Mapped(c)' = Mapped(c)
    <3>1. Stays(c)
      BY <1>1, <1>4, <2>2 DEF Stays
    <3> QED BY <2>1, <3>1, StaysInv
  <2>3. CASE c = m.client /\ Mapped(c)' = Mapped(c) \cup {m.offset}
    <3> DEFINE o == m.offset
    <3>1. /\ o \in Forwarded(c) /\ o \notin Forwarded(c)' /\ Forwarded(c)' \subseteq Forwarded(c)
          /\ Mapped(c)' = Mapped(c) \cup {o}
      BY <1>1, <2>3
    <3> HIDE DEF o
    <3>2. Numbered(c)'
      BY ZenonT(40), <1>4, <2>1, <3>1 DEF Numbered
    <3>3. o \notin Unread(c) /\ o \notin Boxed(c) /\ o \notin Told(c)
      BY <2>1, <3>1, PlaceOffset
    <3>4. OnePlace(c)'
      <4>1. PICK U, F, M, B, T : /\ U = Unread(c) /\ F = Forwarded(c) /\ M = Mapped(c)
                                 /\ B = Boxed(c) /\ T = Told(c)
        OBVIOUS
      <4>2. PICK G : G = Forwarded(c)'
        OBVIOUS
      <4>3. /\ Separate(U, F, M, B, T) /\ G \subseteq F /\ o \notin G
            /\ o \notin U /\ o \notin B /\ o \notin T
        BY <4>1, <4>2, <2>1, <3>1, <3>3 DEF OnePlace
      <4>4. Separate(U, G, M \cup {o}, B, T)
        BY <4>3 DEF Separate
      <4>5. /\ Unread(c)' = U /\ Forwarded(c)' = G /\ Mapped(c)' = M \cup {o}
            /\ Boxed(c)' = B /\ Told(c)' = T
        BY <4>1, <4>2, <1>4, <3>1
      <4> QED BY ZenonT(40), <4>4, <4>5 DEF OnePlace
    <3> QED BY <3>2, <3>4
  <2> QED BY <2>2, <2>3
<1> QED BY <1>3, <1>5 DEF PlaceInv

\* The endpoint's mailbox and its maps go.
LEMMA ReleasePlace ==
    ASSUME PlaceInv, notifybox' = <<>>, serverMap' = <<>>, UNCHANGED <<asked, answers>>,
           DOMAIN conn' = Client, \A c \in Client : SameConn(c)
    PROVE  PlaceInv'
<1>1. IsSeq(<<>>) /\ Range(<<>>) = {} /\ OncePerClient(<<>>) /\ DOMAIN <<>> = {}
  BY DEF IsSeq, Range, OncePerClient
<1>2. Shutdown' = Shutdown
  BY DEF Shutdown, WriteEndpointMessage
<1>3. Mailboxes'
  BY Zenon, <1>1, <1>2 DEF PlaceInv, Mailboxes, SameConn
<1>4. \A c : Forwarded(c)' = {} /\ Mapped(c)' = {}
  BY <1>1 DEF Forwarded, OfClient, Mapped
<1>5. \A c \in Client : Stays(c)
  BY <1>2, <1>4 DEF Stays, Unread, Boxed, Told, SameConn
<1> QED BY <1>3, <1>5, StaysInv DEF PlaceInv

\* What xlat_map_add does to the offsets of the clients.
LEMMA AddPlace ==
    ASSUME IndInv, NEW m, m.client \notin DOMAIN clientMap, serverMap' = ServerMapAdd(m)
    PROVE  /\ Mapped(m.client)' = Mapped(m.client) \cup {m.offset}
           /\ \A c : c # m.client => Mapped(c)' = Mapped(c)
<1> DEFINE n == counter + 1
<1>1. n \notin DOMAIN serverMap
  BY DEF IndInv, Given
<1>0. PICK d, o : d = m.client /\ o = m.offset
  OBVIOUS
<1> HIDE DEF n
<1>2. /\ DOMAIN serverMap' = DOMAIN serverMap \cup {n}
      /\ serverMap'[n].client = d /\ serverMap'[n].offset = o
      /\ \A k \in DOMAIN serverMap : serverMap'[k] = serverMap[k]
  BY <1>0, <1>1 DEF ServerMapAdd, NextOffset, With, n
<1>3. ASSUME NEW c
      PROVE  {k \in DOMAIN serverMap' : serverMap'[k].client = c}
               = {k \in DOMAIN serverMap : serverMap[k].client = c}
                   \cup {k \in {n} : c = d}
  BY <1>1, <1>2
<1>4. Mapped(d)' = Mapped(d) \cup {o}
  BY <1>1, <1>2, <1>3 DEF Mapped
<1>5. ASSUME NEW c, c # d PROVE Mapped(c)' = Mapped(c)
  <2>1. {k \in DOMAIN serverMap' : serverMap'[k].client = c}
          = {k \in DOMAIN serverMap : serverMap[k].client = c}
    BY <1>3, <1>5
  <2>2. \A k \in DOMAIN serverMap : serverMap'[k].offset = serverMap[k].offset
    BY <1>2
  <2> QED BY <2>1, <2>2 DEF Mapped
<1>6. Mapped(m.client)' = Mapped(d)'
  BY <1>0 DEF Mapped
<1> QED BY <1>0, <1>4, <1>5, <1>6

\* What a step of the endpoint fiber does to its mailbox and its server map.
LEMMA EndpointSteps ==
    ASSUME EndpointFiber
    PROVE  LET m == Head(notifybox) IN
           /\ notifybox # <<>> /\ UNCHANGED <<asked, answers>>
           /\ conn' = conn \/ ReplyTo(m.client)
           /\ \/ notifybox' = <<>> /\ serverMap' = <<>>
              \/ notifybox' = Tail(notifybox) /\ serverMap' = serverMap
              \/ /\ notifybox' = Tail(notifybox)
                 /\ m.client \notin DOMAIN clientMap /\ serverMap' = ServerMapAdd(m)
<1>1. CASE EndpointAssert
  BY <1>1 DEF EndpointAssert
<1>2. CASE EndpointCancel
  BY <1>2 DEF EndpointCancel
<1>3. CASE EndpointFails
  <2>1. PICK m : m = Head(notifybox)
    OBVIOUS
  <2>2. PICK cm, sm :
           /\ FiberContextRelease(FALSE, writer, Tail(notifybox), cm, sm)
           /\ \/ sm = serverMap
              \/ m.client \notin DOMAIN clientMap /\ sm = ServerMapAdd(m)
    BY Zenon, <1>3, <2>1 DEF EndpointFails
  <2>3. /\ notifybox # <<>> /\ UNCHANGED <<asked, answers>>
        /\ conn' = conn \/ ReplyTo(m.client)
    BY Zenon, <1>3, <2>1 DEF EndpointFails
  <2>4. \/ notifybox' = <<>> /\ serverMap' = <<>>
        \/ notifybox' = Tail(notifybox) /\ serverMap' = sm
    BY <2>2 DEF FiberContextRelease
  <2> QED BY <2>1, <2>2, <2>3, <2>4
<1> QED BY <1>1, <1>2, <1>3 DEF EndpointFiber

\* All steps of the endpoint fiber.
LEMMA EndpointPlace ==
    ASSUME IndInv, PlaceInv, EndpointFiber
    PROVE  PlaceInv'
<1>1. PICK m : m = Head(notifybox)
  OBVIOUS
<1>2. /\ notifybox # <<>> /\ UNCHANGED <<asked, answers>>
      /\ conn' = conn \/ ReplyTo(m.client)
      /\ \/ notifybox' = <<>> /\ serverMap' = <<>>
         \/ notifybox' = Tail(notifybox) /\ serverMap' = serverMap
         \/ /\ notifybox' = Tail(notifybox)
            /\ m.client \notin DOMAIN clientMap /\ serverMap' = ServerMapAdd(m)
  BY <1>1, EndpointSteps
<1>3. DOMAIN conn' = Client /\ \A c \in Client : SameConn(c)
  <2>1. DOMAIN conn = Client /\ \A c \in Client : DOMAIN conn[c] = ConnFields
    BY DEF PlaceInv, Mailboxes
  <2>2. CASE conn' = conn
    BY <2>1, <2>2 DEF SameConn
  <2>3. CASE ReplyTo(m.client)
    BY <2>1, <2>3 DEF ReplyTo, SameConn, ConnFields
  <2> QED BY <1>2, <2>2, <2>3
<1>4. CASE notifybox' = <<>> /\ serverMap' = <<>>
  BY <1>2, <1>3, <1>4, ReleasePlace
<1>5. CASE /\ notifybox' = Tail(notifybox)
           /\ \/ serverMap' = serverMap
              \/ m.client \notin DOMAIN clientMap /\ serverMap' = ServerMapAdd(m)
  <2>1. \A c \in Client : \/ Mapped(c)' = Mapped(c)
                          \/ c = m.client /\ Mapped(c)' = Mapped(c) \cup {m.offset}
    <3>1. CASE serverMap' = serverMap
      BY <3>1 DEF Mapped
    <3>2. CASE m.client \notin DOMAIN clientMap /\ serverMap' = ServerMapAdd(m)
      BY <3>2, AddPlace
    <3> QED BY <1>5, <3>1, <3>2
  <2> QED BY <1>1, <1>2, <1>3, <1>5, <2>1, EndpointStep
<1> QED BY <1>2, <1>4, <1>5

\* What passing a response on does to the maps and the mailboxes.
LEMMA PassSteps ==
    ASSUME WriteEndpointPasses
    PROVE  LET r == Head(wire["protocol"].resp)
               n == r.offset
               e == serverMap[n] IN
           /\ n \in DOMAIN serverMap /\ UNCHANGED <<asked, answers>>
           /\ \/ /\ conn' = conn
                 /\ \/ notifybox' = <<>> /\ serverMap' = <<>>
                    \/ notifybox' = notifybox /\ serverMap' = Lookup(n).server
              \/ /\ conn' = [conn EXCEPT ![e.client].box =
                                Append(@, Notice(ReturnMethod(r), e.offset))]
                 /\ notifybox' = notifybox /\ serverMap' = Lookup(n).server
<1>1. PICK r, n, e : r = Head(wire["protocol"].resp) /\ n = r.offset /\ e = serverMap[n]
  OBVIOUS
<1>2. /\ n \in DOMAIN serverMap /\ UNCHANGED <<asked, answers>>
      /\ FiberContextRelease(endpoint, conn[e.client].open, notifybox,
                             Lookup(n).client, Lookup(n).server)
      /\ conn' = IF conn[e.client].open
                 THEN [conn EXCEPT ![e.client].box = Append(@, Notice(ReturnMethod(r), e.offset))]
                 ELSE conn
  BY Zenon, <1>1 DEF WriteEndpointPasses
<1>3. \/ notifybox' = <<>> /\ serverMap' = <<>> /\ ~conn[e.client].open
      \/ notifybox' = notifybox /\ serverMap' = Lookup(n).server
  BY <1>2 DEF FiberContextRelease
<1> QED BY <1>1, <1>2, <1>3

\* A response is passed on: its offset goes from the maps, which have one per client, to
\* the mailbox of the connection, or is forgotten with the connection.
LEMMA PassPlace ==
    ASSUME IndInv, PlaceInv, WriteEndpointPasses
    PROVE  PlaceInv'
<1>11. PICK r, n, e : r = Head(wire["protocol"].resp) /\ n = r.offset /\ e = serverMap[n]
  OBVIOUS
<1>12. PICK id : id = ReturnMethod(r)
  OBVIOUS
<1>13. PICK d, o : d = e.client /\ o = e.offset
  OBVIOUS
<1>14. /\ n \in DOMAIN serverMap /\ UNCHANGED <<asked, answers>>
       /\ d = serverMap[n].client /\ o = serverMap[n].offset
  BY <1>11, <1>13, PassSteps
<1>15. \/ /\ conn' = conn
          /\ \/ notifybox' = <<>> /\ serverMap' = <<>>
             \/ notifybox' = notifybox /\ serverMap' = Lookup(n).server
       \/ /\ conn' = [conn EXCEPT ![d].box = Append(@, Notice(id, o))]
          /\ notifybox' = notifybox /\ serverMap' = Lookup(n).server
  BY <1>11, <1>12, <1>13, PassSteps
<1>5. CASE conn' = conn /\ notifybox' = <<>> /\ serverMap' = <<>>
  <2>1. DOMAIN conn' = Client /\ \A c \in Client : SameConn(c)
    BY <1>5 DEF PlaceInv, Mailboxes, SameConn
  <2> QED BY <1>14, <1>15, <1>5, <2>1, ReleasePlace
<1>10. SUFFICES ASSUME notifybox' = notifybox, serverMap' = Lookup(n).server
                PROVE  PlaceInv'
  BY <1>14, <1>15, <1>5
<1>1. /\ n \in DOMAIN serverMap /\ UNCHANGED <<asked, answers, notifybox>>
      /\ d = serverMap[n].client /\ o = serverMap[n].offset
      /\ \/ conn' = conn
         \/ conn' = [conn EXCEPT ![d].box = Append(@, Notice(id, o))]
  BY <1>14, <1>15, <1>10
<1>2. /\ DOMAIN serverMap' = DOMAIN serverMap \ {n}
      /\ \A k \in DOMAIN serverMap' : serverMap'[k] = serverMap[k]
  BY <1>1, <1>10 DEF Lookup, Without
<1>3. \A k \in DOMAIN serverMap : serverMap[k].client = d => k = n
  BY <1>1 DEF IndInv, HeldIsTranslated
<1>4. (\A c : Mapped(c)' \subseteq Mapped(c)) /\ Mapped(d)' = {} /\ o \in Mapped(d)
  BY <1>1, <1>2, <1>3 DEF Mapped
<1> DEFINE x == Notice(id, o)
<1>6. x.offset = o /\ x # Shutdown /\ Shutdown' = Shutdown
  BY DEF Notice, Shutdown, WriteEndpointMessage
<1> HIDE DEF x
<1>7. CASE conn' = conn
  <2>1. Mailboxes'
    BY Zenon, <1>1, <1>6, <1>7 DEF PlaceInv, Mailboxes
  <2>2. \A c \in Client : Stays(c)
    BY <1>1, <1>4, <1>6, <1>7 DEF Stays, Unread, Forwarded, Boxed, Told
  <2> QED BY <2>1, <2>2, StaysInv DEF PlaceInv
<1>8. CASE d \notin Client /\ conn' = [conn EXCEPT ![d].box = Append(@, x)]
  <2>1. DOMAIN conn' = Client /\ \A c \in Client : conn'[c] = conn[c]
    BY <1>8 DEF PlaceInv, Mailboxes
  <2>2. Mailboxes'
    BY ZenonT(40), <1>1, <1>6, <2>1 DEF PlaceInv, Mailboxes
  <2>3. \A c \in Client : Stays(c)
    BY <1>1, <1>4, <1>6, <2>1 DEF Stays, Unread, Forwarded, Boxed, Told
  <2> QED BY <2>2, <2>3, StaysInv DEF PlaceInv
<1>9. CASE d \in Client /\ conn' = [conn EXCEPT ![d].box = Append(@, x)]
  <2> DEFINE box == Append(conn[d].box, x)
             q == [conn[d] EXCEPT !.box = box]
  <2>1. /\ DOMAIN conn = Client /\ DOMAIN conn[d] = ConnFields
        /\ IsSeq(conn[d].box) /\ Once(conn[d].box, {Shutdown})
        /\ IsSeq(conn[d].input) /\ Len(conn[d].input) <= 1 /\ Numbered(d) /\ OnePlace(d)
        /\ IsSeq(answers'[d]) /\ Once(answers'[d], {}) /\ DOMAIN answers' = Client
        /\ IsSeq(notifybox') /\ OncePerClient(notifybox')
    BY Zenon, <1>1, <1>9 DEF PlaceInv, Mailboxes
  <2>2. o \notin Unread(d) /\ o \notin Forwarded(d) /\ o \notin Boxed(d) /\ o \notin Told(d)
        /\ o \in 1 .. Len(asked[d]) /\ o # 0
    <3>1. o \in 1 .. Len(asked[d])
      BY Zenon, <1>4, <2>1 DEF Numbered
    <3>2. o # 0
      BY <3>1
    <3> QED BY <3>1, <3>2, <1>4, <2>1, PlaceOffset
  <2>3. IsSeq(box) /\ Once(box, {Shutdown}) /\ Offsets(box, {Shutdown}) = Boxed(d) \cup {o}
    <3>1. /\ IsSeq(box) /\ Once(box, {Shutdown})
          /\ Offsets(box, {Shutdown}) = Offsets(conn[d].box, {Shutdown})
                \cup {y.offset : y \in {x} \ {Shutdown}}
      BY Zenon, <1>6, <2>1, <2>2, OnceAppend DEF Boxed
    <3>2. {y.offset : y \in {x} \ {Shutdown}} = {o}
      BY <1>6
    <3> QED BY <3>1, <3>2 DEF Boxed
  <2>4. conn' = [conn EXCEPT ![d] = q]
    BY <1>9, <2>1
  <2> HIDE DEF box
  <2>5. DOMAIN q = ConnFields /\ q.input = conn[d].input /\ q.box = box /\ q.main = conn[d].main
        /\ conn'[d] = q
    BY ZenonT(40), <1>9, <2>1, <2>4 DEF ConnFields
  <2> HIDE DEF q
  <2>6. Boxed(d)' = Boxed(d) \cup {o}
    BY <1>6, <2>3, <2>5 DEF Boxed
  <2>7. /\ Unread(d)' = Unread(d) /\ Told(d)' = Told(d) /\ \A c : Forwarded(c)' = Forwarded(c)
    BY <1>1, <2>5 DEF Unread, Told, Forwarded
  <2>8. Numbered(d)'
    BY <1>1, <1>4, <2>1, <2>2, <2>5, <2>6, <2>7 DEF Numbered
  <2>9. OnePlace(d)'
    <3>1. Mapped(d)' = {}
      BY <1>4
    <3>2. PICK U, F, M, B, T : /\ U = Unread(d) /\ F = Forwarded(d) /\ M = Mapped(d)
                               /\ B = Boxed(d) /\ T = Told(d)
      OBVIOUS
    <3>3. Separate(U, F, M, B, T) /\ o \notin U /\ o \notin F /\ o \notin T
      BY <2>1, <2>2, <3>2 DEF OnePlace
    <3>4. Separate(U, F, {}, B \cup {o}, T)
      BY <3>3 DEF Separate
    <3> QED BY <2>6, <2>7, <3>1, <3>2, <3>4 DEF OnePlace
  <2> QED BY Zenon, <1>1, <1>4, <1>9, <2>1, <2>3, <2>4, <2>5, <2>7, <2>8, <2>9, ConnFacts
<1> QED BY <1>1, <1>7, <1>8, <1>9 DEF x

-----------------------------------------------------------------------------
\* Every step keeps each offset at one place.
LEMMA StepPlace == IndInv /\ PlaceInv /\ [Next]_vars => PlaceInv'
<1> SUFFICES ASSUME IndInv, PlaceInv, [Next]_vars PROVE PlaceInv'
  OBVIOUS
<1>1. CASE UNCHANGED <<conn, asked, answers, notifybox, serverMap>>
  BY <1>1, StillPlace
<1>2. CASE UNCHANGED vars \/ SignalStep \/ Announce \/ SendOdd \/ Stopped
           \/ CanonizationEnds \/ SupervisorEnds \/ \E i \in Instances : ServiceStep(i)
  BY <1>1, <1>2 DEF vars, SignalStep, Announce, SendOdd, Stopped, ServiceStep, CanonizationEnds, SupervisorEnds, pvars,
     epvars
<1>3. ASSUME NEW c \in Client, ClientAsserts(c) \/ ClientCancels(c)
      PROVE  PlaceInv'
  BY <1>3, SendsPlace DEF ClientAsserts, ClientCancels
<1>4. ASSUME NEW c \in Client, ClientCloses(c) \/ MainFiber(c) \/ WriteFiber(c)
      PROVE  PlaceInv'
  BY <1>4, RefusePlace, ForwardPlace, ConnPlace, EndPlace, WritePlace DEF MainFiber, WriteFiber
<1>5. CASE EndpointFiber
  BY <1>5, EndpointPlace
<1>6. CASE WriteEndpointPasses
  BY <1>6, PassPlace
<1>7. CASE WriteEndpointDrops
  BY <1>1, <1>7 DEF WriteEndpointDrops, pvars, epvars
<1>8. CASE WriteEndpointEnds
  <2>1. /\ UNCHANGED <<conn, asked, answers>>
        /\ \/ notifybox' = <<>> /\ serverMap' = <<>>
           \/ notifybox' = notifybox /\ serverMap' = serverMap
    BY <1>8 DEF WriteEndpointEnds, FiberContextRelease
  <2>2. DOMAIN conn' = Client /\ \A c \in Client : SameConn(c)
    BY <2>1 DEF PlaceInv, Mailboxes, SameConn
  <2> QED BY <1>1, <2>1, <2>2, ReleasePlace
<1> QED BY <1>2, <1>3, <1>4, <1>5, <1>6, <1>7, <1>8 DEF Next, WriteEndpointFiber

\* The offset of a request is at one place only on its way through the protocol service
\* (dnd_assert_latest_block_id, xlat_map_add, the write endpoints).
THEOREM OffsetsAtOnePlace == Spec => []PlaceInv
  BY InitPlace, StepPlace, OffsetsApart, PTL DEF Spec

\* No client receives two packets for one offset, for any number of clients and requests,
\* although a cancel is answered under the offset of the assertion and both may be.
THEOREM AnsweredOnceCorrect == Spec => []AnsweredOnce
<1>1. PlaceInv => AnsweredOnce
  <2> SUFFICES ASSUME PlaceInv, NEW c \in Client, NEW j \in DOMAIN answers[c],
                      NEW k \in DOMAIN answers[c], answers[c][j].offset = answers[c][k].offset
               PROVE  j = k
    BY DEF AnsweredOnce
  <2>1. IsSeq(answers[c]) /\ Once(answers[c], {})
    BY DEF PlaceInv, Mailboxes
  <2>2. DOMAIN answers[c] = 1 .. Len(answers[c])
    BY <2>1 DEF IsSeq
  <2> QED BY <2>1, <2>2 DEF Once
<1> QED BY <1>1, OffsetsAtOnePlace, PTL
-----------------------------------------------------------------------------
(* An invalidation has a reason. *)

\* The assertion q is out of date, or was when it was made.
Late(q) == q.block < chain \/ q.early

LateAt(c, o) == o \in 1 .. Len(asked[c]) /\ Late(asked[c][o])

IsUpdate(r) == r.method = "BLOCK_UPDATE" /\ r.size = UuidBytes

\* The updates on the socket s name blocks above low, in rising order, up to high.
Upcoming(s, low, high) ==
    /\ \A j \in 1 .. Len(s) : IsUpdate(s[j]) =>
          s[j].block \in Nat /\ low < s[j].block /\ s[j].block <= high
    /\ \A j, k \in 1 .. Len(s) :
          j < k /\ IsUpdate(s[j]) /\ IsUpdate(s[k]) => s[j].block < s[k].block

\* The latest block id only moves forward, up to the block that was made last.
OrderInv ==
    /\ latest \in Nat /\ chain \in Nat /\ latest <= chain
    /\ Upcoming(wire["consensus"].req, latest, chain)

AskedInv ==
    \A c \in Client : \A o \in 1 .. Len(asked[c]) :
       asked[c][o].block \in Nat /\ (asked[c][o].early \/ asked[c][o].block <= latest)

Named(c, o) == c \in Client /\ o \in 1 .. Len(asked[c])

\* The endpoint has and forwards what the client asked.
ForwardInv ==
    \A m \in Range(notifybox) :
       Named(m.client, m.offset) /\ (~m.cancel => m.block = asked[m.client][m.offset].block)

MapInv == \A n \in DOMAIN serverMap : Named(serverMap[n].client, serverMap[n].offset)

\* What was asked under the offset n of the endpoint.
Claim(n) == asked[serverMap[n].client][serverMap[n].offset]

Invalid(s) == {r.offset : r \in {x \in Range(s) : x.method # "BLOCK_ASSERTION_CANCEL"}}

\* The offsets for which an invalidation is due or on its way.
Invalidating ==
    Invalid(inst["protocol"].outbound) \cup Invalid(wire["protocol"].resp)
      \cup Notifying("consensus") \cup Notifying("protocol")

\* The notification service reads and holds the blocks that were asserted, and
\* invalidates what is out of date, as far as the endpoint still knows.
ServiceInv ==
    Served =>
        /\ \A r \in Range(Req) : r.method = "BLOCK_ASSERTION" => r.block = Claim(r.offset).block
        /\ \A a \in inst["protocol"].assertions : a.block = Claim(a.offset).block
        /\ \A n \in Invalidating \cap DOMAIN serverMap : Late(Claim(n))

\* If the message m tells the client c of an invalidation, the assertion is out of date.
Right(c, m) == m.id = "ASSERT" /\ m.status = "SUCCESS" => LateAt(c, m.offset)

DeliverInv ==
    \A c \in Client : \A m \in Range(conn[c].box) \cup Range(answers[c]) : Right(c, m)

JustInv == OrderInv /\ AskedInv /\ ForwardInv /\ MapInv /\ ServiceInv /\ DeliverInv

-----------------------------------------------------------------------------
\* The updates that are left when the first request is read.
LEMMA UpcomingTail ==
    ASSUME NEW s, IsSeq(s), s # <<>>, NEW low \in Nat, NEW high, Upcoming(s, low, high)
    PROVE  /\ Upcoming(Tail(s), low, high)
           /\ IsUpdate(Head(s)) =>
                 /\ Head(s).block \in Nat /\ low < Head(s).block /\ Head(s).block <= high
                 /\ Upcoming(Tail(s), Head(s).block, high)
<1> DEFINE t == Tail(s)
<1>1. /\ Len(s) \in Nat /\ Len(t) = Len(s) - 1 /\ 1 \in 1 .. Len(s) /\ Head(s) = s[1]
      /\ \A j \in 1 .. Len(s) - 1 : t[j] = s[j + 1]
  BY TailFacts
<1> HIDE DEF t
<1>2. \A j \in 1 .. Len(t) : j + 1 \in 1 .. Len(s) /\ 1 < j + 1 /\ t[j] = s[j + 1]
  BY <1>1
<1>3. \A j, k \in 1 .. Len(t) : j < k => j + 1 < k + 1
  BY <1>1
<1>4. \A j, k \in 1 .. Len(t) : j < k /\ IsUpdate(t[j]) /\ IsUpdate(t[k]) => t[j].block < t[k].block
  BY <1>2, <1>3 DEF Upcoming
<1>5. \A j \in 1 .. Len(t) : IsUpdate(t[j]) => t[j].block \in Nat /\ low < t[j].block /\ t[j].block <= high
  BY <1>2 DEF Upcoming
<1>6. IsUpdate(s[1]) => /\ s[1].block \in Nat /\ low < s[1].block /\ s[1].block <= high
                        /\ \A j \in 1 .. Len(t) : IsUpdate(t[j]) => s[1].block < t[j].block
  BY <1>1, <1>2 DEF Upcoming
<1> QED BY <1>1, <1>4, <1>5, <1>6 DEF Upcoming, t

\* A request that is no update, or the update to the next block, is sent.
LEMMA UpcomingAppend ==
    ASSUME NEW s, IsSeq(s), NEW low \in Nat, NEW high \in Nat, low <= high,
           Upcoming(s, low, high), NEW r
    PROVE  /\ ~IsUpdate(r) => Upcoming(Append(s, r), low, high)
           /\ r.block = high + 1 => Upcoming(Append(s, r), low, high + 1)
<1> DEFINE t == Append(s, r)
<1>1. /\ Len(s) \in Nat /\ Len(t) = Len(s) + 1 /\ t[Len(s) + 1] = r
      /\ \A j \in 1 .. Len(s) : t[j] = s[j]
  BY AppendFacts
<1> HIDE DEF t
<1>2. \A j \in 1 .. Len(t) : (j \in 1 .. Len(s) /\ t[j] = s[j]) \/ (j = Len(s) + 1 /\ t[j] = r)
  BY <1>1
<1>3. \A j, k \in 1 .. Len(t) : j < k => j \in 1 .. Len(s) /\ t[j] = s[j]
  BY <1>1
<1>4. \A j \in 1 .. Len(s) : IsUpdate(s[j]) =>
         s[j].block \in Nat /\ low < s[j].block /\ s[j].block <= high /\ s[j].block < high + 1
  BY DEF Upcoming
<1>5. ASSUME ~IsUpdate(r)
      PROVE  Upcoming(t, low, high)
  <2>1. \A j \in 1 .. Len(t) : IsUpdate(t[j]) =>
           t[j].block \in Nat /\ low < t[j].block /\ t[j].block <= high
    BY <1>2, <1>4, <1>5
  <2>2. \A j, k \in 1 .. Len(t) :
           j < k /\ IsUpdate(t[j]) /\ IsUpdate(t[k]) => t[j].block < t[k].block
    <3>1. \A k \in 1 .. Len(t) : IsUpdate(t[k]) => k \in 1 .. Len(s) /\ t[k] = s[k]
      BY <1>2, <1>5
    <3>2. \A j, k \in 1 .. Len(s) :
             j < k /\ IsUpdate(s[j]) /\ IsUpdate(s[k]) => s[j].block < s[k].block
      BY DEF Upcoming
    <3> QED BY <3>1, <3>2
  <2> QED BY <2>1, <2>2 DEF Upcoming
<1>6. ASSUME r.block = high + 1
      PROVE  Upcoming(t, low, high + 1)
  <2>1. \A j \in 1 .. Len(t) : IsUpdate(t[j]) =>
           t[j].block \in Nat /\ low < t[j].block /\ t[j].block <= high + 1
    BY <1>2, <1>4, <1>6
  <2>2. \A j, k \in 1 .. Len(t) :
           j < k /\ IsUpdate(t[j]) /\ IsUpdate(t[k]) => t[j].block < t[k].block
    <3> SUFFICES ASSUME NEW j \in 1 .. Len(t), NEW k \in 1 .. Len(t), j < k,
                        IsUpdate(t[j]), IsUpdate(t[k])
                 PROVE  t[j].block < t[k].block
      OBVIOUS
    <3>1. j \in 1 .. Len(s) /\ t[j] = s[j]
      BY <1>3
    <3>2. CASE k \in 1 .. Len(s) /\ t[k] = s[k]
      BY <3>1, <3>2 DEF Upcoming
    <3>3. CASE t[k] = r
      BY <1>4, <1>6, <3>1, <3>3
    <3> QED BY <1>2, <3>2, <3>3
  <2> QED BY <2>1, <2>2 DEF Upcoming
<1> QED BY <1>5, <1>6 DEF t

\* Steps at which nothing is read from or sent to the canonization service's socket.
LEMMA OrderStays ==
    ASSUME OrderInv, UNCHANGED <<latest, chain>>, wire'["consensus"].req = wire["consensus"].req
    PROVE  OrderInv' /\ latest <= latest' /\ chain <= chain'
<1>1. OrderInv'
  BY Zenon DEF OrderInv
<1>2. latest \in Nat /\ chain \in Nat
  BY Zenon DEF OrderInv
<1> QED BY <1>1, <1>2

\* A packet is read that is no block update.
LEMMA OrderRead ==
    ASSUME IndInv, OrderInv, UNCHANGED <<latest, chain>>, NEW i \in Instances, NEW r,
           ReadPacket(i, r)
    PROVE  OrderInv' /\ latest <= latest' /\ chain <= chain'
<1>1. wire[i].req # <<>> /\ wire' = [wire EXCEPT ![i].req = Tail(@)]
  BY DEF ReadPacket
<1>2. CASE i # "consensus"
  <2>1. wire'["consensus"].req = wire["consensus"].req
    BY <1>1, <1>2 DEF IndInv, Shape, Instances
  <2> QED BY <2>1, OrderStays
<1>3. CASE i = "consensus"
  <2>1. wire'["consensus"].req = Tail(wire["consensus"].req) /\ IsSeq(wire["consensus"].req)
    BY <1>1, <1>3 DEF IndInv, Shape
  <2>2. latest \in Nat /\ chain \in Nat /\ Upcoming(wire["consensus"].req, latest, chain)
    BY DEF OrderInv
  <2>3. Upcoming(Tail(wire["consensus"].req), latest, chain)
    BY <1>1, <1>3, <2>1, <2>2, UpcomingTail
  <2> QED BY <2>1, <2>2, <2>3 DEF OrderInv
<1> QED BY <1>2, <1>3

\* A block update is read: the latest block id moves forward.
LEMMA OrderUpdate ==
    ASSUME IndInv, OrderInv, chain' = chain, NEW i \in Instances, NEW r,
           DispatchBlockUpdate(i, r)
    PROVE  /\ OrderInv' /\ latest < latest' /\ latest' <= chain /\ chain <= chain'
           /\ i = "consensus"
<1>1. ReadPacket(i, r) /\ r.method = "BLOCK_UPDATE" /\ r.size = UuidBytes /\ latest' = r.block
  BY DEF DispatchBlockUpdate
<1>2. i = "consensus"
  BY <1>1, HeadFacts DEF WellFormed, Instances
<1>3. /\ wire["consensus"].req # <<>> /\ r = Head(wire["consensus"].req)
      /\ wire' = [wire EXCEPT !["consensus"].req = Tail(@)]
  BY <1>1, <1>2 DEF ReadPacket
<1>4. wire'["consensus"].req = Tail(wire["consensus"].req) /\ IsSeq(wire["consensus"].req)
  BY <1>2, <1>3 DEF IndInv, Shape
<1>5. latest \in Nat /\ chain \in Nat /\ Upcoming(wire["consensus"].req, latest, chain)
  BY DEF OrderInv
<1>6. IsUpdate(r)
  BY <1>1 DEF IsUpdate
<1>7. /\ r.block \in Nat /\ latest < r.block /\ r.block <= chain
      /\ Upcoming(Tail(wire["consensus"].req), r.block, chain)
  BY <1>3, <1>4, <1>5, <1>6, UpcomingTail
<1>8. OrderInv'
  BY Zenon, <1>1, <1>4, <1>5, <1>7 DEF OrderInv
<1> QED BY <1>1, <1>2, <1>5, <1>7, <1>8

\* The canonization service sends a request.
LEMMA OrderSend ==
    ASSUME IndInv, OrderInv, Announce \/ SendOdd
    PROVE  OrderInv' /\ latest <= latest' /\ chain <= chain'
<1> DEFINE s == wire["consensus"].req
<1>1. /\ latest \in Nat /\ chain \in Nat /\ latest <= chain /\ Upcoming(s, latest, chain)
      /\ IsSeq(s) /\ DOMAIN wire = Instances /\ DOMAIN wire["consensus"] = {"req", "resp", "peer"}
      /\ "consensus" \in Instances
  BY DEF OrderInv, IndInv, Shape, Instances
<1>2. latest' = latest
  BY DEF Announce, SendOdd, svars
<1>3. CASE Announce
  <2> DEFINE r == SendreqBlockUpdate(chain + 1, chain + 1)
  <2>1. chain' = chain + 1 /\ wire' = [wire EXCEPT !["consensus"].resp = <<>>,
                                                   !["consensus"].req = Append(@, r)]
    BY <1>3 DEF Announce
  <2>2. r.block = chain + 1
    BY DEF SendreqBlockUpdate
  <2> HIDE DEF r
  <2>3. wire'["consensus"].req = Append(s, r)
    BY <1>1, <2>1
  <2> HIDE DEF s
  <2>4. Upcoming(Append(s, r), latest, chain + 1)
    BY <1>1, <2>2, UpcomingAppend
  <2> QED BY <1>1, <1>2, <2>1, <2>3, <2>4 DEF OrderInv
<1>4. CASE SendOdd
  <2>1. PICK r \in OddRequests : wire' = [wire EXCEPT !["consensus"].req = Append(@, r)]
    BY Zenon, <1>4 DEF SendOdd
  <2>2. ~IsUpdate(r)
    BY DEF IsUpdate, OddRequests, SendreqReduceCaps, SendreqBlockUpdate, UuidBytes
  <2>3. wire'["consensus"].req = Append(s, r) /\ chain' = chain
    BY <1>1, <1>4, <2>1 DEF SendOdd
  <2> HIDE DEF s
  <2>4. Upcoming(Append(s, r), latest, chain)
    BY <1>1, <2>2, UpcomingAppend
  <2> QED BY <1>1, <1>2, <2>3, <2>4 DEF OrderInv
<1> QED BY <1>3, <1>4

\* Every step: blocks are made and announced in order.
LEMMA OrderStep ==
    ASSUME IndInv, OrderInv, [Next]_vars
    PROVE  OrderInv' /\ latest <= latest' /\ chain <= chain'
<1>1. DOMAIN wire = Instances /\ \A i \in Instances : DOMAIN wire[i] = {"req", "resp", "peer"}
  BY DEF IndInv, Shape
<1>2. ASSUME NEW i \in Instances, ServiceStep(i)
      PROVE  OrderInv' /\ latest <= latest' /\ chain <= chain'
  <2>1. chain' = chain
    BY <1>2 DEF ServiceStep, pvars, evars
  <2>2. ASSUME NEW r, \/ DispatchReduceCaps(i, r) \/ DispatchBlockAssertion(i, r)
                      \/ DispatchBlockAssertionCancel(i, r) \/ DispatchUnknown(i, r)
                      \/ RefuseBlockUpdate(i, r)
        PROVE  OrderInv' /\ latest <= latest' /\ chain <= chain'
    <3>1. ReadPacket(i, r) /\ latest' = latest
      BY <2>2 DEF DispatchReduceCaps, DispatchBlockAssertion, DispatchBlockAssertionCancel,
         DispatchUnknown, RefuseBlockUpdate
    <3> QED BY <2>1, <3>1, OrderRead
  <2>3. ASSUME NEW r, DispatchBlockUpdate(i, r)
        PROVE  OrderInv' /\ latest <= latest' /\ chain <= chain'
    <3>1. OrderInv' /\ latest < latest' /\ chain <= chain'
      BY <2>1, <2>3, OrderUpdate
    <3> QED BY <3>1 DEF OrderInv
  <2>4. CASE \/ NotifyAssertion(i) \/ NotifyReleased(i) \/ FinishBlockUpdate(i)
             \/ ReadFails(i) \/ OutboundEndpoint(i)
    <3>1. latest' = latest /\ wire'["consensus"].req = wire["consensus"].req
      <4>1. CASE NotifyAssertion(i) \/ NotifyReleased(i) \/ FinishBlockUpdate(i) \/ ReadFails(i)
        BY <4>1 DEF NotifyAssertion, NotifyReleased, FinishBlockUpdate, ReadFails
      <4>2. CASE OutboundEndpoint(i)
        BY <1>1, <4>2 DEF OutboundEndpoint, Instances
      <4> QED BY <2>4, <4>1, <4>2
    <3> QED BY <2>1, <3>1, OrderStays
  <2> QED BY <1>2, <2>2, <2>3, <2>4 DEF ServiceStep, FiberStep
<1>3. CASE Announce \/ SendOdd
  BY <1>3, OrderSend
<1>4. CASE EndpointFiber \/ WriteEndpointFiber \/ CanonizationEnds \/ SupervisorEnds
  <2>1. UNCHANGED <<latest, chain>>
    BY ZenonT(40), <1>4 DEF EndpointFiber, EndpointAssert, EndpointCancel, EndpointFails, WriteEndpointFiber,
       WriteEndpointPasses, WriteEndpointDrops, WriteEndpointEnds, CanonizationEnds, SupervisorEnds,
       svars, nvars, evars, pvars
  <2>2. \/ \E r : wire' = [wire EXCEPT !["protocol"].req = Append(@, r)]
        \/ wire' = [wire EXCEPT !["protocol"].resp = Tail(@)]
        \/ \E p : wire' = [[wire EXCEPT !["protocol"].peer = p] EXCEPT !["protocol"].resp = Tail(@)]
        \/ \E i, p : wire' = [wire EXCEPT ![i].peer = p]
    BY Zenon, <1>4 DEF EndpointFiber, EndpointAssert, EndpointCancel, EndpointFails, WriteEndpointFiber,
       WriteEndpointPasses, WriteEndpointDrops, WriteEndpointEnds, CanonizationEnds, SupervisorEnds,
       ProtocolEnd, nvars
  <2>3. wire'["consensus"].req = wire["consensus"].req
    BY <1>1, <2>2 DEF Instances
  <2> QED BY <2>1, <2>3, OrderStays
<1>5. CASE \/ SignalStep \/ Stopped \/ UNCHANGED vars
           \/ \E c \in Client : \/ ClientAsserts(c) \/ ClientCancels(c) \/ ClientCloses(c)
                                \/ MainFiber(c) \/ WriteFiber(c)
  <2>1. UNCHANGED <<latest, chain, wire>>
    <3>1. CASE SignalStep \/ Stopped \/ UNCHANGED vars
      BY <3>1 DEF SignalStep, Quiesce, Terminate, Stopped, Sigterm, vars, nvars, pvars, evars
    <3>2. ASSUME NEW c \in Client, ClientAsserts(c) \/ ClientCancels(c) \/ ClientCloses(c)
          PROVE  UNCHANGED <<latest, chain, wire>>
      BY <3>2 DEF ClientAsserts, ClientCancels, ClientSends, ClientCloses, nvars
    <3>3. ASSUME NEW c \in Client, MainFiber(c) \/ WriteFiber(c)
          PROVE  UNCHANGED <<latest, chain, wire>>
      BY Zenon, <3>3 DEF MainFiber, RefuseRequest, AssertLatestBlockId, AssertLatestBlockIdCancel,
         AssertionReplied, CancelReplied, ReadEnds, WriteFiber, WritePacket, WriteEnds,
         ReleaseContext, nvars, evars
    <3> QED BY <1>5, <3>1, <3>2, <3>3
  <2> QED BY <2>1, OrderStays
<1> QED BY <1>2, <1>3, <1>4, <1>5 DEF Next

-----------------------------------------------------------------------------
\* What a client has asked stays.
Grown ==
    \A c \in Client : \A o \in 1 .. Len(asked[c]) :
       o \in 1 .. Len(asked'[c]) /\ asked'[c][o] = asked[c][o]

\* An assertion that does not name the id that the notification service has is early.
LEMMA AskedStep ==
    ASSUME PlaceInv, OrderInv, AskedInv, [Next]_vars, latest' \in Nat, latest <= latest'
    PROVE  AskedInv' /\ Grown
<1>1. latest \in Nat /\ chain \in Nat /\ ZeroBlock \in Nat
  BY BlockAssumption DEF OrderInv
<1>2. CASE asked' = asked
  <2>1. Grown
    BY <1>2 DEF Grown
  <2>2. AskedInv'
    BY <1>1, <1>2 DEF AskedInv
  <2> QED BY <2>1, <2>2
<1>3. ASSUME NEW d \in Client, NEW kind, NEW b \in Nat, ClientSends(d, kind, b)
      PROVE  AskedInv' /\ Grown
  <2> DEFINE q == [kind |-> kind, block |-> b, early |-> b # latest]
             a == Append(asked[d], q)
  <2>1. asked' = [asked EXCEPT ![d] = a] /\ latest' = latest
    BY <1>3 DEF ClientSends, nvars
  <2>2. q.block \in Nat /\ (q.early \/ q.block <= latest)
    <3>1. q.block = b
      OBVIOUS
    <3>2. b # latest => q.early
      BY Zenon
    <3> HIDE DEF q
    <3>3. CASE b = latest
      BY <1>1, <3>1, <3>3
    <3> QED BY <3>1, <3>2, <3>3
  <2>3. DOMAIN asked = Client /\ IsSeq(asked[d])
    BY DEF PlaceInv, Mailboxes
  <2> HIDE DEF q
  <2>4. /\ Len(asked[d]) \in Nat /\ Len(a) = Len(asked[d]) + 1 /\ a[Len(asked[d]) + 1] = q
        /\ \A o \in 1 .. Len(asked[d]) : a[o] = asked[d][o]
    <3>1. PICK x : x = asked[d]
      BY Zenon
    <3>2. /\ Len(x) \in Nat /\ Len(Append(x, q)) = Len(x) + 1 /\ Append(x, q)[Len(x) + 1] = q
          /\ \A o \in 1 .. Len(x) : Append(x, q)[o] = x[o]
      BY <2>3, <3>1, AppendFacts
    <3> QED BY <3>1, <3>2
  <2> HIDE DEF a
  <2>5. asked'[d] = a /\ \A c \in Client \ {d} : asked'[c] = asked[c]
    BY <2>1, <2>3
  <2>6. Grown
    <3>1. \A o \in 1 .. Len(asked[d]) : o \in 1 .. Len(a) /\ a[o] = asked[d][o]
      BY <2>4
    <3> QED BY <2>5, <3>1 DEF Grown
  <2>7. \A o \in 1 .. Len(a) : a[o].block \in Nat /\ (a[o].early \/ a[o].block <= latest)
    <3>1. \A o \in 1 .. Len(a) : o = Len(asked[d]) + 1 \/ o \in 1 .. Len(asked[d])
      BY <2>4
    <3> QED BY <2>2, <2>4, <3>1 DEF AskedInv
  <2>8. AskedInv'
    BY <2>1, <2>5, <2>7 DEF AskedInv
  <2> QED BY <2>6, <2>8
<1>4. ASSUME NEW c \in Client, ClientAsserts(c) \/ ClientCancels(c)
      PROVE  AskedInv' /\ Grown
  BY <1>1, <1>3, <1>4 DEF ClientAsserts, ClientCancels
<1>5. CASE \/ SignalStep \/ Stopped \/ UNCHANGED vars \/ Announce \/ SendOdd
           \/ EndpointFiber \/ WriteEndpointFiber
           \/ CanonizationEnds \/ SupervisorEnds \/ \E i \in Instances : ServiceStep(i)
  <2>1. asked' = asked
    BY Zenon, <1>5 DEF SignalStep, Stopped, vars, pvars, Announce, SendOdd, ServiceStep, CanonizationEnds, SupervisorEnds,
       EndpointFiber, EndpointAssert, EndpointCancel, EndpointFails, WriteEndpointFiber,
       WriteEndpointPasses, WriteEndpointDrops, WriteEndpointEnds
  <2> QED BY <1>2, <2>1
<1>6. ASSUME NEW c \in Client, ClientCloses(c) \/ MainFiber(c) \/ WriteFiber(c)
      PROVE  AskedInv' /\ Grown
  <2>1. asked' = asked
    BY Zenon, <1>6 DEF ClientCloses, MainFiber, RefuseRequest, AssertLatestBlockId,
       AssertLatestBlockIdCancel, AssertionReplied, CancelReplied, ReadEnds, WriteFiber,
       WritePacket, WriteEnds, ReleaseContext
  <2> QED BY <1>2, <2>1
<1> QED BY <1>4, <1>5, <1>6 DEF Next

\* What was late stays late.
LEMMA LateStays ==
    ASSUME OrderInv, AskedInv, Grown, chain' \in Nat, chain <= chain', NEW c, NEW o, Named(c, o)
    PROVE  /\ Named(c, o)' /\ asked'[c][o] = asked[c][o]
           /\ Late(asked[c][o]) => Late(asked[c][o])'
<1>1. Named(c, o)' /\ asked'[c][o] = asked[c][o]
  BY DEF Named, Grown
<1>2. asked[c][o].block \in Nat /\ chain \in Nat
  BY DEF AskedInv, OrderInv, Named
<1> QED BY <1>1, <1>2 DEF Late

-----------------------------------------------------------------------------
\* The mailbox of the endpoint has what was asked.
LEMMA ForwardStep ==
    ASSUME PlaceInv, ForwardInv, Grown, [Next]_vars
    PROVE  ForwardInv'
<1>1. CASE Range(notifybox') \subseteq Range(notifybox)
  BY <1>1 DEF ForwardInv, Named, Grown
<1>2. ASSUME NEW d \in Client, NEW o, AssertLatestBlockId(d, o) \/ AssertLatestBlockIdCancel(d, o)
      PROVE  ForwardInv'
  <2>1. PICK m : /\ m.client = d /\ m.offset = o /\ notifybox' = Append(notifybox, m)
                 /\ ~m.cancel => m.block = asked[d][o].block
    BY <1>2 DEF AssertLatestBlockId, AssertLatestBlockIdCancel, AssertionRequest
  <2>2. conn[d].input # <<>> /\ o = Head(conn[d].input) /\ asked' = asked
    BY Zenon, <1>2 DEF AssertLatestBlockId, AssertLatestBlockIdCancel, Reads
  <2>3. o \in Unread(d)
    BY <2>2, InputFacts DEF PlaceInv, Mailboxes, Unread
  <2>4. Named(d, o)
    BY <2>3 DEF PlaceInv, Numbered, Named
  <2>5. Range(notifybox') = Range(notifybox) \cup {m}
    BY <2>1, AppendFacts DEF PlaceInv, Mailboxes
  <2> QED BY <2>1, <2>2, <2>4, <2>5 DEF ForwardInv, Named
<1>3. CASE EndpointFiber
  <2>1. notifybox # <<>> /\ notifybox' \in {<<>>, Tail(notifybox)}
    BY <1>3, EndpointSteps
  <2>2. Range(<<>>) = {}
    BY DEF Range
  <2>3. IsSeq(notifybox) /\ notifybox # <<>>
    BY <2>1 DEF PlaceInv, Mailboxes
  <2>4. Range(Tail(notifybox)) \subseteq Range(notifybox)
    BY Zenon, <2>3, TailFacts
  <2> QED BY <1>1, <2>1, <2>2, <2>4
<1>7. CASE WriteEndpointFiber
  <2>1. notifybox' \in {<<>>, notifybox}
    BY <1>7, PassSteps DEF WriteEndpointFiber, WriteEndpointDrops, WriteEndpointEnds,
       FiberContextRelease, pvars, epvars
  <2>2. Range(<<>>) = {}
    BY DEF Range
  <2> QED BY <1>1, <2>1, <2>2
<1>4. CASE \/ SignalStep \/ Stopped \/ UNCHANGED vars \/ Announce \/ SendOdd
           \/ CanonizationEnds \/ SupervisorEnds \/ \E i \in Instances : ServiceStep(i)
  <2>1. notifybox' = notifybox
    BY Zenon, <1>4 DEF SignalStep, Stopped, vars, pvars, epvars, Announce, SendOdd, ServiceStep,
       CanonizationEnds, SupervisorEnds
  <2> QED BY <1>1, <2>1
<1>5. ASSUME NEW c \in Client, ClientAsserts(c) \/ ClientCancels(c) \/ ClientCloses(c) \/ WriteFiber(c)
      PROVE  ForwardInv'
  <2>1. notifybox' = notifybox
    BY Zenon, <1>5 DEF ClientAsserts, ClientCancels, ClientSends, ClientCloses, WriteFiber,
       WritePacket, WriteEnds, ReleaseContext, epvars
  <2> QED BY <1>1, <2>1
<1>6. ASSUME NEW c \in Client, MainFiber(c)
      PROVE  ForwardInv'
  <2>1. \/ notifybox' = notifybox
        \/ \E o : AssertLatestBlockId(c, o) \/ AssertLatestBlockIdCancel(c, o)
    BY <1>6 DEF MainFiber, RefuseRequest, AssertionReplied, CancelReplied, ReadEnds, epvars
  <2> QED BY <1>1, <1>2, <2>1
<1> QED BY <1>3, <1>4, <1>5, <1>6, <1>7 DEF Next

\* An entry of the server map that stays keeps its claim; a new one has the next offset.
ClaimsStay ==
    /\ \A n \in DOMAIN serverMap' : n \in DOMAIN serverMap \/ n = counter + 1
    /\ \A n \in DOMAIN serverMap \cap DOMAIN serverMap' :
          Claim(n)' = Claim(n) /\ (Late(Claim(n)) => Late(Claim(n))')

\* Then the entries that stay name requests as before.
LEMMA EntriesStay ==
    ASSUME OrderInv, AskedInv, MapInv, Grown, chain' \in Nat, chain <= chain',
           NEW n \in DOMAIN serverMap, n \in DOMAIN serverMap', serverMap'[n] = serverMap[n]
    PROVE  /\ Named(serverMap[n].client, serverMap[n].offset)'
           /\ Claim(n)' = Claim(n) /\ (Late(Claim(n)) => Late(Claim(n))')
<1>1. PICK c, o : c = serverMap[n].client /\ o = serverMap[n].offset
  OBVIOUS
<1>2. Named(c, o)
  BY <1>1 DEF MapInv
<1>3. /\ Named(c, o)' /\ asked'[c][o] = asked[c][o]
      /\ Late(asked[c][o]) => Late(asked[c][o])'
  BY <1>2, LateStays
<1> QED BY <1>1, <1>3 DEF Claim

\* What a step does to the server map.
LEMMA MapStep ==
    ASSUME IndInv, PlaceInv, OrderInv, AskedInv, ForwardInv, MapInv, Grown,
           chain' \in Nat, chain <= chain', [Next]_vars
    PROVE  MapInv' /\ ClaimsStay
<1>1. CASE /\ DOMAIN serverMap' \subseteq DOMAIN serverMap
           /\ \A n \in DOMAIN serverMap' : serverMap'[n] = serverMap[n]
  <2>1. \A n \in DOMAIN serverMap' : /\ Named(serverMap[n].client, serverMap[n].offset)'
                                     /\ Claim(n)' = Claim(n) /\ (Late(Claim(n)) => Late(Claim(n))')
    BY <1>1, EntriesStay
  <2> QED BY <1>1, <2>1 DEF MapInv, ClaimsStay
<1>2. ASSUME NEW m \in Range(notifybox), serverMap' = ServerMapAdd(m)
      PROVE  MapInv' /\ ClaimsStay
  <2>0. PICK n : n = counter + 1
    OBVIOUS
  <2>1. n \notin DOMAIN serverMap
    BY <2>0 DEF IndInv, Given
  <2>2. /\ DOMAIN serverMap' = DOMAIN serverMap \cup {n}
        /\ serverMap'[n].client = m.client /\ serverMap'[n].offset = m.offset
        /\ \A k \in DOMAIN serverMap : serverMap'[k] = serverMap[k]
    BY <1>2, <2>0, <2>1 DEF ServerMapAdd, NextOffset, With
  <2>3. \A k \in DOMAIN serverMap : /\ Named(serverMap[k].client, serverMap[k].offset)'
                                    /\ Claim(k)' = Claim(k) /\ (Late(Claim(k)) => Late(Claim(k))')
    BY <2>2, EntriesStay
  <2>4. Named(m.client, m.offset)'
    <3>1. PICK c, o : c = m.client /\ o = m.offset
      OBVIOUS
    <3>2. Named(c, o)
      BY <3>1 DEF ForwardInv
    <3> QED BY <3>1, <3>2, LateStays
  <2>5. Named(serverMap[n].client, serverMap[n].offset)'
    BY <2>2, <2>4 DEF Named
  <2> QED BY <2>0, <2>2, <2>3, <2>5 DEF MapInv, ClaimsStay
<1>3. CASE EndpointFiber
  <2>1. /\ notifybox # <<>>
        /\ \/ serverMap' = <<>> \/ serverMap' = serverMap
           \/ serverMap' = ServerMapAdd(Head(notifybox))
    BY <1>3, EndpointSteps
  <2>3. IsSeq(notifybox) /\ notifybox # <<>>
    BY <2>1 DEF PlaceInv, Mailboxes
  <2>2. Head(notifybox) \in Range(notifybox)
    BY Zenon, <2>3, TailFacts
  <2> QED BY <1>1, <1>2, <2>1, <2>2
<1>4. CASE WriteEndpointPasses
  <2>1. PICK k : serverMap' = <<>> \/ serverMap' = Lookup(k).server
    BY <1>4, PassSteps
  <2> QED BY <1>1, <2>1 DEF Lookup, Without
<1>7. CASE WriteEndpointEnds
  <2>1. serverMap' = <<>> \/ serverMap' = serverMap
    BY <1>7 DEF WriteEndpointEnds, FiberContextRelease
  <2> QED BY <1>1, <2>1
<1>5. CASE \/ SignalStep \/ Stopped \/ UNCHANGED vars \/ Announce \/ SendOdd
           \/ WriteEndpointDrops
           \/ CanonizationEnds \/ SupervisorEnds \/ \E i \in Instances : ServiceStep(i)
  <2>1. serverMap' = serverMap
    BY <1>5 DEF SignalStep, Stopped, vars, pvars, epvars, Announce, SendOdd, ServiceStep,
       CanonizationEnds, SupervisorEnds, WriteEndpointDrops
  <2> QED BY <1>1, <2>1
<1>6. ASSUME NEW c \in Client, \/ ClientAsserts(c) \/ ClientCancels(c) \/ ClientCloses(c)
                               \/ MainFiber(c) \/ WriteFiber(c)
      PROVE  MapInv' /\ ClaimsStay
  <2>1. serverMap' = serverMap
    BY Zenon, <1>6 DEF ClientAsserts, ClientCancels, ClientSends, ClientCloses, MainFiber,
       RefuseRequest, AssertLatestBlockId, AssertLatestBlockIdCancel, AssertionReplied,
       CancelReplied, ReadEnds, WriteFiber, WritePacket, WriteEnds, ReleaseContext, epvars
  <2> QED BY <1>1, <2>1
<1> QED BY <1>3, <1>4, <1>5, <1>6, <1>7 DEF Next, WriteEndpointFiber

-----------------------------------------------------------------------------
\* What the step adds to the requests, the tree and the invalidations of the protocol
\* service's instance is as it was asked, and late.
Kept ==
    /\ \A r \in Range(Req') : r.method = "BLOCK_ASSERTION" =>
          r \in Range(Req) \/ r.block = Claim(r.offset)'.block
    /\ \A a \in inst'["protocol"].assertions :
          \/ a \in inst["protocol"].assertions
          \/ \E r \in Range(Req) : r.method = "BLOCK_ASSERTION" /\ a = AssertionEntry(r)
    /\ \A n \in Invalidating' :
          n \in Invalidating \/ (n \in DOMAIN serverMap /\ Late(Claim(n)))

\* An invalidation is an answer.
LEMMA InvalidatingAnswers == Invalidating \subseteq Answering
  BY DEF Invalidating, Answering, Invalid

\* Then the instance keeps what the invariant says of it.
LEMMA ServiceKeeps ==
    ASSUME IndInv, IndInv', ServiceInv, ClaimsStay, Kept, Served, Served'
    PROVE  ServiceInv'
<1>1. counter + 1 \notin Invalidating
  BY InvalidatingAnswers DEF IndInv, Given
<1>2. \A r \in Range(Req) : r.method = "BLOCK_ASSERTION" =>
         r.offset \in DOMAIN serverMap /\ r.block = Claim(r.offset).block
  BY DEF IndInv, HeldIsTranslated, Req, ServiceInv
<1>3. \A r \in Range(Req') : r.method = "BLOCK_ASSERTION" => r.offset \in DOMAIN serverMap'
  BY DEF IndInv, HeldIsTranslated, Req
<1>4. \A r \in Range(Req') : r.method = "BLOCK_ASSERTION" => r.block = Claim(r.offset)'.block
  BY <1>2, <1>3 DEF Kept, ClaimsStay
<1>5. ASSUME NEW a \in inst'["protocol"].assertions
      PROVE  a.block = Claim(a.offset)'.block
  <2>1. a.offset \in DOMAIN serverMap'
    BY DEF IndInv, HeldIsTranslated
  <2>2. CASE a \in inst["protocol"].assertions
    <3>1. a.offset \in DOMAIN serverMap /\ a.block = Claim(a.offset).block
      BY <2>2 DEF IndInv, HeldIsTranslated, ServiceInv
    <3> QED BY <2>1, <3>1 DEF ClaimsStay
  <2>3. ASSUME NEW r \in Range(Req), r.method = "BLOCK_ASSERTION", a = AssertionEntry(r)
        PROVE  a.block = Claim(a.offset)'.block
    <3>1. a.offset = r.offset /\ a.block = r.block
      BY <2>3 DEF AssertionEntry
    <3>2. a.offset \in DOMAIN serverMap /\ a.block = Claim(a.offset).block
      BY <1>2, <2>3, <3>1
    <3> QED BY <2>1, <3>2 DEF ClaimsStay
  <2> QED BY <2>2, <2>3 DEF Kept
<1>6. ASSUME NEW n \in Invalidating', n \in DOMAIN serverMap'
      PROVE  Late(Claim(n))'
  <2>1. n \in DOMAIN serverMap /\ Late(Claim(n))
    <3>1. CASE n \in Invalidating
      BY <1>1, <1>6, <3>1 DEF ServiceInv, ClaimsStay
    <3> QED BY <3>1 DEF Kept
  <2> QED BY <1>6, <2>1 DEF ClaimsStay
<1> QED BY <1>4, <1>5, <1>6 DEF ServiceInv

\* Steps after which the instance has the same or less.
LEMMA LessKept ==
    ASSUME Range(Req') \subseteq Range(Req),
           inst'["protocol"].assertions \subseteq inst["protocol"].assertions,
           Invalidating' \subseteq Invalidating
    PROVE  Kept
  BY DEF Kept

\* A packet is read by the fiber of an instance, whose record becomes q.
LEMMA DispatchKept ==
    ASSUME IndInv, NEW i \in Instances, NEW r, ReadPacket(i, r), work' = work,
           NEW q, inst' = [inst EXCEPT ![i] = q], DOMAIN q = Fields, IsSeq(q.outbound),
           i = "protocol" =>
              /\ \A a \in q.assertions :
                    \/ a \in inst["protocol"].assertions
                    \/ r.method = "BLOCK_ASSERTION" /\ a = AssertionEntry(r)
              /\ \A x \in Range(q.outbound) :
                    \/ x \in Range(inst["protocol"].outbound)
                    \/ x.method = "BLOCK_ASSERTION_CANCEL"
                    \/ x.offset \in DOMAIN serverMap /\ Late(Claim(x.offset))
    PROVE  Kept
<1>1. /\ inst'[i] = q /\ \A j \in Instances \ {i} : inst'[j] = inst[j] /\ wire'[j] = wire[j]
      /\ wire[i].req # <<>> /\ r = Head(wire[i].req)
      /\ wire'[i].req = Tail(wire[i].req) /\ wire'[i].resp = wire[i].resp
  BY ZenonT(40), PacketFacts
<1>2. CASE i # "protocol"
  <2>1. inst'["protocol"] = inst["protocol"] /\ wire'["protocol"] = wire["protocol"]
    BY <1>1, <1>2 DEF Instances
  <2>2. Req' = Req /\ Invalidating' = Invalidating
    BY <2>1 DEF Req, Invalidating, Notifying
  <2> QED BY <2>1, <2>2, LessKept
<1>3. CASE i = "protocol"
  <2>1. IsSeq(Req) /\ Req # <<>> /\ r = Head(Req) /\ Req' = Tail(Req)
    BY <1>1, <1>3 DEF Req, IndInv, Shape
  <2>2. r \in Range(Req) /\ Range(Req') \subseteq Range(Req)
    BY <2>1, TailFacts
  <2>3. Invalidating' = Invalid(q.outbound) \cup Invalid(wire["protocol"].resp)
                           \cup Notifying("consensus") \cup Notifying("protocol")
    BY <1>1, <1>3 DEF Invalidating, Notifying
  <2>4. \A n \in Invalid(q.outbound) :
           \/ n \in Invalid(inst["protocol"].outbound)
           \/ n \in DOMAIN serverMap /\ Late(Claim(n))
    BY <1>3 DEF Invalid
  <2>5. \A n \in Invalidating' : n \in Invalidating \/ (n \in DOMAIN serverMap /\ Late(Claim(n)))
    BY <2>3, <2>4 DEF Invalidating
  <2>6. \A a \in inst'["protocol"].assertions :
           \/ a \in inst["protocol"].assertions
           \/ r.method = "BLOCK_ASSERTION" /\ a = AssertionEntry(r)
    BY <1>1, <1>3
  <2> QED BY <2>2, <2>5, <2>6 DEF Kept
<1> QED BY <1>2, <1>3

\* A packet that is read and answered with s by an instance whose record was rec.
LEMMA AnswerKept ==
    ASSUME IndInv, NEW i \in Instances, NEW r, ReadPacket(i, r), work' = work,
           NEW rec, DOMAIN rec = Fields, rec.outbound = inst[i].outbound, NEW s,
           inst' = [inst EXCEPT ![i] = LoopFiber(SendResponse(rec, r.method, r.offset, s), s)],
           i = "protocol" =>
              /\ rec.assertions \subseteq inst[i].assertions
              /\ \/ r.method = "BLOCK_ASSERTION_CANCEL"
                 \/ r.offset \in DOMAIN serverMap /\ Late(Claim(r.offset))
    PROVE  Kept
<1> DEFINE new == Response(r.method, r.offset, s)
           out == Append(rec.outbound, new)
           q == LoopFiber(SendResponse(rec, r.method, r.offset, s), s)
<1>1. IsSeq(out) /\ Range(out) = Range(inst[i].outbound) \cup {new}
  BY AppendFacts DEF IndInv, Shape
<1>2. new.method = r.method /\ new.offset = r.offset
  BY DEF Response
<1>3. q = [[rec EXCEPT !.outbound = out] EXCEPT !.fiber = IF Goes(s) THEN "reading" ELSE "ended"]
  BY DEF LoopFiber, SendResponse
<1>4. inst' = [inst EXCEPT ![i] = q]
  OBVIOUS
<1> HIDE DEF q, out, new
<1>5. DOMAIN q = Fields /\ q.outbound = out /\ q.assertions = rec.assertions
  BY <1>3 DEF Fields
<1> QED BY ZenonT(40), <1>1, <1>2, <1>4, <1>5, DispatchKept

\* Requests that the protocol service does not send.
LEMMA RefusedKept ==
    ASSUME IndInv, NEW i \in Instances, NEW r,
           DispatchReduceCaps(i, r) \/ DispatchUnknown(i, r) \/ RefuseBlockUpdate(i, r)
    PROVE  Kept
<1>1. i # "protocol"
  <2>1. ReadPacket(i, r) /\ r.method \notin {"BLOCK_ASSERTION", "BLOCK_ASSERTION_CANCEL"}
    BY DEF DispatchReduceCaps, DispatchUnknown, RefuseBlockUpdate, Caps
  <2> QED BY <2>1, HeadFacts DEF WellFormed
<1>2. DOMAIN inst[i] = Fields
  BY DEF IndInv, Shape
<1>3. CASE DispatchReduceCaps(i, r)
  <2> DEFINE s == ReduceCapsStatus(i, r)
             kept == IF s = "SUCCESS" THEN inst[i].caps \cap r.caps ELSE inst[i].caps
             rec == [inst[i] EXCEPT !.caps = kept]
  <2>1. ReadPacket(i, r) /\ work' = work
        /\ inst' = [inst EXCEPT ![i] = LoopFiber(SendResponse(rec, r.method, r.offset, s), s)]
    BY <1>3 DEF DispatchReduceCaps
  <2>2. DOMAIN rec = Fields /\ rec.outbound = inst[i].outbound
    BY <1>2 DEF Fields
  <2> HIDE DEF rec, s
  <2> QED BY Zenon, <1>1, <2>1, <2>2, AnswerKept
<1>4. CASE DispatchUnknown(i, r) \/ RefuseBlockUpdate(i, r)
  <2>1. PICK s : /\ ReadPacket(i, r) /\ work' = work
                 /\ inst' = [inst EXCEPT ![i] =
                               LoopFiber(SendResponse(inst[i], r.method, r.offset, s), s)]
    BY <1>4 DEF DispatchUnknown, RefuseBlockUpdate
  <2> QED BY Zenon, <1>1, <1>2, <2>1, AnswerKept
<1> QED BY <1>3, <1>4

\* A cancel is answered as a cancel.
LEMMA CancelKept ==
    ASSUME IndInv, NEW i \in Instances, NEW r, DispatchBlockAssertionCancel(i, r)
    PROVE  Kept
<1> DEFINE s == IF "BLOCK_ASSERTION" \notin inst[i].caps THEN "NOT_AUTHORIZED"
                ELSE IF r.size # 0 THEN "MALFORMED_REQUEST" ELSE "SUCCESS"
           left == {a \in inst[i].assertions : s = "SUCCESS" => a.offset # r.offset}
           rec == [inst[i] EXCEPT !.assertions = left]
<1>1. ReadPacket(i, r) /\ work' = work /\ r.method = "BLOCK_ASSERTION_CANCEL"
      /\ inst' = [inst EXCEPT ![i] = LoopFiber(SendResponse(rec, r.method, r.offset, s), s)]
  BY DEF DispatchBlockAssertionCancel
<1>2. left \subseteq inst[i].assertions
  OBVIOUS
<1> HIDE DEF left
<1>3. /\ DOMAIN rec = Fields /\ rec.outbound = inst[i].outbound /\ rec.assertions = left
  BY DEF IndInv, Shape, Fields
<1> HIDE DEF s, rec
<1> QED BY ZenonT(40), <1>1, <1>2, <1>3, AnswerKept

\* An assertion that is answered at once is late: it names an earlier block, or one that
\* the service did not have when it was asked.
LEMMA AssertKept ==
    ASSUME IndInv, OrderInv, AskedInv, MapInv, ServiceInv, Served, NEW i \in Instances, NEW r,
           DispatchBlockAssertion(i, r)
    PROVE  Kept
<1> DEFINE valid == "BLOCK_ASSERTION" \in inst[i].caps /\ r.size = UuidBytes
           keep == valid /\ r.block = latest /\ ~Holds(i, r.offset)
           s == IF "BLOCK_ASSERTION" \notin inst[i].caps THEN "NOT_AUTHORIZED"
                ELSE IF r.size # UuidBytes THEN "MALFORMED_REQUEST"
                ELSE IF r.block = latest /\ Holds(i, r.offset) THEN "DUPLICATE"
                ELSE "SUCCESS"
           after == IF keep
                    THEN [inst[i] EXCEPT !.assertions = @ \cup {AssertionEntry(r)}]
                    ELSE SendResponse(inst[i], r.method, r.offset, s)
<1>1. ReadPacket(i, r) /\ work' = work /\ r.method = "BLOCK_ASSERTION"
  BY DEF DispatchBlockAssertion
<1>2. inst' = [inst EXCEPT ![i] = LoopFiber(after, s)]
  BY DEF DispatchBlockAssertion
<1>3. DOMAIN inst[i] = Fields /\ IsSeq(inst[i].outbound)
  BY DEF IndInv, Shape
<1>4. CASE ~keep
  <2>1. inst' = [inst EXCEPT ![i] =
                    LoopFiber(SendResponse(inst[i], r.method, r.offset, s), s)]
    BY ZenonT(40), <1>2, <1>4
  <2>2. ASSUME i = "protocol"
        PROVE  r.offset \in DOMAIN serverMap /\ Late(Claim(r.offset))
    <3>1. r.offset \notin Held /\ inst[i].caps = Caps /\ r.size = UuidBytes
      BY <1>1, <2>2, HeadFacts DEF IndInv, Asks, WellFormed
    <3>2. ~Holds(i, r.offset) /\ valid
      BY <2>2, <3>1 DEF Holds, Held, Caps
    <3>3. r.block # latest
      BY <1>4, <3>2
    <3>4. r \in Range(Req)
      <4>1. IsSeq(Req) /\ Req # <<>> /\ r = Head(Req)
        BY <1>1, <2>2 DEF IndInv, Shape, Req, ReadPacket
      <4> QED BY <4>1, TailFacts
    <3>5. r.offset \in DOMAIN serverMap /\ r.block = Claim(r.offset).block
      BY <1>1, <3>4 DEF IndInv, HeldIsTranslated, ServiceInv, Req
    <3>6. PICK c, o : c = serverMap[r.offset].client /\ o = serverMap[r.offset].offset
      OBVIOUS
    <3>7. c \in Client /\ o \in 1 .. Len(asked[c]) /\ Claim(r.offset) = asked[c][o]
      BY <3>5, <3>6 DEF MapInv, Named, Claim
    <3>8. asked[c][o].block \in Nat /\ (asked[c][o].early \/ asked[c][o].block <= latest)
      BY <3>7 DEF AskedInv
    <3>9. latest \in Nat /\ chain \in Nat /\ latest <= chain
      BY DEF OrderInv
    <3>10. Late(asked[c][o])
      <4>1. asked[c][o].block # latest
        BY Zenon, <3>3, <3>5, <3>7
      <4>2. asked[c][o].early \/ asked[c][o].block < chain
        BY <3>8, <3>9, <4>1
      <4> QED BY Zenon, <4>2 DEF Late
    <3> QED BY Zenon, <3>5, <3>7, <3>10
  <2> HIDE DEF s
  <2> QED BY Zenon, <1>1, <1>3, <2>1, <2>2, AnswerKept
<1>5. CASE keep
  <2> DEFINE q == LoopFiber(after, s)
  <2>1. after = [inst[i] EXCEPT !.assertions = @ \cup {AssertionEntry(r)}]
    BY <1>5
  <2> HIDE DEF after, s
  <2>2. /\ DOMAIN q = Fields /\ q.outbound = inst[i].outbound
        /\ q.assertions = inst[i].assertions \cup {AssertionEntry(r)}
    BY <1>3, <2>1 DEF LoopFiber, Fields
  <2>3. inst' = [inst EXCEPT ![i] = q]
    BY <1>2
  <2> HIDE DEF q
  <2> QED BY ZenonT(40), <1>1, <1>3, <2>2, <2>3, DispatchKept
<1> QED BY <1>4, <1>5

\* A block update: what was held named the id that was the latest until now.
LEMMA UpdateKept ==
    ASSUME IndInv, OrderInv, ServiceInv, Served, StaleNeverHeld, chain' = chain,
           NEW i \in Instances, NEW r, DispatchBlockUpdate(i, r)
    PROVE  Kept
<1>1. /\ ReadPacket(i, r) /\ inst' = SwapTrees(i)
      /\ work' = [work EXCEPT ![i] = [todo |-> ToNotify, offset |-> r.offset]]
  BY DEF DispatchBlockUpdate
<1>2. i = "consensus" /\ latest < latest' /\ latest' <= chain /\ latest' \in Nat
  BY OrderUpdate DEF OrderInv
<1>3. latest \in Nat /\ chain \in Nat /\ latest < chain
  BY <1>2 DEF OrderInv
<1>4. wire' = [wire EXCEPT ![i].req = Tail(@)]
  BY <1>1 DEF ReadPacket
<1>5. wire'["protocol"] = wire["protocol"]
  BY <1>2, <1>4 DEF IndInv, Shape, Instances
<1>6. inst'["protocol"].assertions = {} /\ inst'["protocol"].outbound = inst["protocol"].outbound
  BY Zenon, <1>1 DEF SwapTrees, IndInv, Shape, Fields, Instances
<1>7. work'["protocol"] = work["protocol"] /\ work'["consensus"].todo = ToNotify
  BY <1>1, <1>2 DEF IndInv, Shape, Instances
<1>8. Notifying("consensus")' \subseteq Held
  <2>1. ToNotify = OfInstance("consensus") \cup OfInstance("protocol")
    BY DEF ToNotify, InstanceList
  <2>2. \A b \in ToNotify : b.inst = "protocol" => b.offset \in Held
    <3>1. \A b \in OfInstance("consensus") : b.inst = "consensus"
      BY DEF OfInstance
    <3>2. \A b \in OfInstance("protocol") : b.offset \in Held
      BY DEF OfInstance, Held
    <3> QED BY Zenon, <2>1, <3>1, <3>2
  <2> QED BY Zenon, <1>7, <2>2 DEF Notifying
<1>9. \A n \in Held : n \in DOMAIN serverMap /\ Late(Claim(n))
  <2> SUFFICES ASSUME NEW a \in inst["protocol"].assertions
               PROVE  a.offset \in DOMAIN serverMap /\ Late(Claim(a.offset))
    BY DEF Held
  <2>1. a.block = latest
    BY DEF StaleNeverHeld, Instances
  <2>2. a.offset \in DOMAIN serverMap /\ a.block = Claim(a.offset).block
    BY DEF IndInv, HeldIsTranslated, ServiceInv
  <2> QED BY <1>3, <2>1, <2>2 DEF Late
<1>10. Req' = Req
  BY <1>5 DEF Req
<1>11. Invalidating' \subseteq Invalidating \cup Held
  <2>1. Notifying("protocol")' = Notifying("protocol")
    BY <1>7 DEF Notifying
  <2> QED BY <1>5, <1>6, <1>8, <2>1 DEF Invalidating
<1> QED BY <1>6, <1>9, <1>10, <1>11 DEF Kept

\* What was to be notified is sent, or lost.
LEMMA NotifyKept ==
    ASSUME IndInv, NEW i \in Instances, NotifyAssertion(i) \/ NotifyReleased(i)
    PROVE  Kept
<1>1. PICK a \in work[i].todo :
         /\ work' = [work EXCEPT ![i].todo = @ \ {a}] /\ wire' = wire
         /\ \/ inst' = inst
            \/ inst' = [inst EXCEPT ![a.inst] =
                           SendResponse(@, "BLOCK_ASSERTION", a.offset, "SUCCESS")]
  BY DEF NotifyAssertion, NotifyReleased
<1> DEFINE new == Response("BLOCK_ASSERTION", a.offset, "SUCCESS")
<1>2. \A j \in Instances \ {i} : work'[j] = work[j]
  BY <1>1 DEF IndInv, Shape
<1>3. work'[i].todo = work[i].todo \ {a}
  BY <1>1 DEF IndInv, Shape
<1>4. \A j \in Instances : Notifying(j)' \subseteq Notifying(j)
  BY <1>2, <1>3 DEF Notifying
<1>5. new.offset = a.offset
  BY DEF Response
<1>6. "protocol" \in Instances /\ "consensus" \in Instances
      /\ \A j \in Instances : j \in {"protocol", "consensus"}
  BY DEF Instances
<1>7. /\ inst'["protocol"].assertions = inst["protocol"].assertions
      /\ \/ inst'["protocol"].outbound = inst["protocol"].outbound
         \/ /\ a.inst = "protocol"
            /\ inst'["protocol"].outbound = Append(inst["protocol"].outbound, new)
  BY <1>1, <1>6 DEF IndInv, Shape, Fields, SendResponse
<1> HIDE DEF new
<1>8. Range(Append(inst["protocol"].outbound, new)) = Range(inst["protocol"].outbound) \cup {new}
  BY <1>6, AppendFacts DEF IndInv, Shape
<1>9. a.inst = "protocol" => a.offset \in Notifying("consensus") \cup Notifying("protocol")
  BY <1>6 DEF Notifying
<1>10. \A n \in Invalid(inst'["protocol"].outbound) : n \in Invalidating
  <2>1. \A x \in Range(inst'["protocol"].outbound) :
           x \in Range(inst["protocol"].outbound) \/ (x = new /\ a.inst = "protocol")
    BY ZenonT(40), <1>7, <1>8
  <2> QED BY <1>5, <1>9, <2>1 DEF Invalid, Invalidating
<1>11. Invalidating' \subseteq Invalidating
  BY <1>1, <1>4, <1>6, <1>10 DEF Invalidating
<1>12. Req' = Req
  BY <1>1 DEF Req
<1> QED BY <1>7, <1>11, <1>12, LessKept

\* The update is answered, a fiber ends, or a response goes to the socket or is lost.
LEMMA OtherKept ==
    ASSUME IndInv, NEW i \in Instances, FinishBlockUpdate(i) \/ ReadFails(i) \/ OutboundEndpoint(i)
    PROVE  Kept
<1>1. /\ DOMAIN inst = Instances /\ DOMAIN inst["protocol"] = Fields /\ "protocol" \in Instances
      /\ DOMAIN work = Instances /\ DOMAIN wire = Instances
      /\ DOMAIN wire["protocol"] = {"req", "resp", "peer"}
  BY DEF IndInv, Shape, Instances
<1>2. CASE FinishBlockUpdate(i)
  <2>1. i = "consensus"
    BY <1>2 DEF FinishBlockUpdate, IndInv, Asks, Instances
  <2>2. inst'["protocol"] = inst["protocol"]
    BY <1>1, <1>2, <2>1 DEF FinishBlockUpdate
  <2>3. work'["protocol"] = work["protocol"] /\ work'["consensus"].todo = {} /\ wire' = wire
    BY <1>1, <1>2, <2>1 DEF FinishBlockUpdate, NoWork
  <2>4. Invalidating' \subseteq Invalidating
    BY <2>2, <2>3 DEF Invalidating, Notifying
  <2> QED BY <2>2, <2>3, <2>4, LessKept DEF Req
<1>3. CASE ReadFails(i)
  <2>1. wire' = wire /\ work' = work /\ inst' = [inst EXCEPT ![i].fiber = "ended"]
    BY <1>3 DEF ReadFails
  <2>2. /\ inst'["protocol"].assertions = inst["protocol"].assertions
        /\ inst'["protocol"].outbound = inst["protocol"].outbound
    BY <1>1, <2>1 DEF Fields
  <2>3. Invalidating' \subseteq Invalidating
    BY <2>1, <2>2 DEF Invalidating, Notifying
  <2> QED BY <2>1, <2>2, <2>3, LessKept DEF Req
<1>4. CASE OutboundEndpoint(i)
  <2>1. PICK out, m : out = inst[i].outbound /\ m = Head(out)
    OBVIOUS
  <2>2. out # <<>> /\ Range(out) = Range(Tail(out)) \cup {m}
    BY <1>4, <2>1, TailFacts DEF OutboundEndpoint, IndInv, Shape
  <2>3. Range(Append(wire[i].resp, m)) = Range(wire[i].resp) \cup {m}
    BY AppendFacts DEF IndInv, Shape
  <2>4. CASE i # "protocol"
    <3>1. inst'["protocol"] = inst["protocol"] /\ wire'["protocol"] = wire["protocol"] /\ work' = work
      BY <1>1, <1>4, <2>4 DEF OutboundEndpoint
    <3>2. Invalidating' \subseteq Invalidating
      BY <3>1 DEF Invalidating, Notifying
    <3> QED BY <3>1, <3>2, LessKept DEF Req
  <2>5. CASE i = "protocol"
    <3>1. /\ inst'["protocol"].assertions = inst["protocol"].assertions
          /\ inst'["protocol"].outbound = Tail(out)
      <4>1. \/ inst' = [inst EXCEPT ![i].outbound = Tail(@)]
            \/ inst' = [inst EXCEPT ![i].outbound = Tail(@), ![i].endpoint = FALSE]
        BY <1>4 DEF OutboundEndpoint
      <4>2. CASE inst' = [inst EXCEPT ![i].outbound = Tail(@)]
        BY <1>1, <2>1, <2>5, <4>2 DEF Fields
      <4>3. CASE inst' = [inst EXCEPT ![i].outbound = Tail(@), ![i].endpoint = FALSE]
        BY <1>1, <2>1, <2>5, <4>3 DEF Fields
      <4> QED BY <4>1, <4>2, <4>3
    <3>2. /\ wire'["protocol"].req = wire["protocol"].req /\ work' = work
          /\ wire'["protocol"].resp \in {wire["protocol"].resp, Append(wire["protocol"].resp, m)}
      <4>1. /\ work' = work
            /\ wire' = wire \/ wire' = [wire EXCEPT !["protocol"].resp = Append(@, m)]
        BY Zenon, <1>4, <2>1, <2>5 DEF OutboundEndpoint
      <4>2. CASE wire' = wire
        BY Zenon, <4>1, <4>2
      <4>3. CASE wire' = [wire EXCEPT !["protocol"].resp = Append(@, m)]
        BY <1>1, <2>5, <4>1, <4>3
      <4> QED BY Zenon, <4>1, <4>2, <4>3
    <3>3. Invalid(inst'["protocol"].outbound) \cup Invalid(wire'["protocol"].resp)
            \subseteq Invalid(inst["protocol"].outbound) \cup Invalid(wire["protocol"].resp)
      BY ZenonT(40), <2>1, <2>2, <2>3, <2>5, <3>1, <3>2 DEF Invalid
    <3>4. Invalidating' \subseteq Invalidating
      BY <3>2, <3>3 DEF Invalidating, Notifying
    <3> QED BY <3>1, <3>2, <3>4, LessKept DEF Req
  <2> QED BY <2>4, <2>5
<1> QED BY <1>2, <1>3, <1>4

\* The endpoint forwards a request, or does not.
LEMMA EndpointKept ==
    ASSUME IndInv, PlaceInv, ForwardInv, EndpointFiber
    PROVE  Kept
<1>1. PICK m : m = Head(notifybox)
  OBVIOUS
<1>2. UNCHANGED <<inst, work, asked>> /\ notifybox # <<>>
  BY DEF EndpointFiber, EndpointAssert, EndpointCancel, EndpointFails, svars, nvars
<1>3. m \in Range(notifybox)
  BY <1>1, <1>2, TailFacts DEF PlaceInv, Mailboxes
<1>4. wire'["protocol"].resp = wire["protocol"].resp => Invalidating' = Invalidating
  BY <1>2 DEF Invalidating, Notifying
<1>5. "protocol" \in Instances /\ IsSeq(Req) /\ DOMAIN wire = Instances
      /\ DOMAIN wire["protocol"] = {"req", "resp", "peer"}
  BY DEF IndInv, Shape, Req, Instances
<1>6. CASE EndpointFails
  <2>1. wire' = [wire EXCEPT !["protocol"].peer = supervised \/ FALSE \/ writer]
    BY <1>6 DEF EndpointFails, ProtocolEnd
  <2>2. /\ wire'["protocol"].req = wire["protocol"].req
        /\ wire'["protocol"].resp = wire["protocol"].resp
    BY <1>5, <2>1
  <2> QED BY <1>2, <1>4, <2>2, LessKept DEF Req
<1>7. ASSUME NEW r, wire' = [wire EXCEPT !["protocol"].req = Append(@, r)],
             r.method = "BLOCK_ASSERTION" => r.block = Claim(r.offset)'.block
      PROVE  Kept
  <2>1. Req' = Append(Req, r) /\ wire'["protocol"].resp = wire["protocol"].resp
    BY <1>5, <1>7 DEF Req
  <2>2. Range(Req') = Range(Req) \cup {r}
    BY <1>5, <2>1, AppendFacts
  <2> QED BY <1>2, <1>4, <1>7, <2>1, <2>2 DEF Kept
<1>8. CASE EndpointCancel
  <2>1. PICK r : r = SendreqAssertionCancel(clientMap[m.client])
    OBVIOUS
  <2>2. wire' = [wire EXCEPT !["protocol"].req = Append(@, r)]
    BY <1>1, <1>8, <2>1 DEF EndpointCancel
  <2>3. r.method # "BLOCK_ASSERTION"
    BY <2>1 DEF SendreqAssertionCancel
  <2> QED BY Zenon, <1>7, <2>2, <2>3
<1>9. CASE EndpointAssert
  <2>1. PICK n, r : n = counter + 1 /\ r = SendreqBlockAssertion(n, m.block)
    OBVIOUS
  <2>2. /\ serverMap' = ServerMapAdd(m) /\ ~m.cancel
        /\ wire' = [wire EXCEPT !["protocol"].req = Append(@, r)]
    BY <1>1, <1>9, <2>1 DEF EndpointAssert, NextOffset
  <2>3. r.offset = n /\ r.block = m.block
    BY <2>1 DEF SendreqBlockAssertion
  <2>4. serverMap'[n].client = m.client /\ serverMap'[n].offset = m.offset
    BY <2>1, <2>2 DEF ServerMapAdd, NextOffset, With
  <2>5. Claim(n)' = asked[m.client][m.offset]
    BY <1>2, <2>4 DEF Claim
  <2>6. m.block = asked[m.client][m.offset].block
    BY <1>3, <2>2 DEF ForwardInv
  <2>7. r.block = Claim(r.offset)'.block
    BY <2>3, <2>5, <2>6
  <2> QED BY Zenon, <1>7, <2>2, <2>7
<1> QED BY <1>6, <1>8, <1>9 DEF EndpointFiber

\* Every step.
LEMMA ServiceStepKept ==
    ASSUME IndInv, PlaceInv, StaleNeverHeld, OrderInv, AskedInv, ForwardInv, MapInv, ServiceInv,
           Served, [Next]_vars
    PROVE  Kept
<1>1. CASE /\ UNCHANGED <<inst, work>> /\ wire'["protocol"].req = wire["protocol"].req
           /\ wire'["protocol"].resp = wire["protocol"].resp
  <2>1. Req' = Req /\ Invalidating' = Invalidating
    BY <1>1 DEF Req, Invalidating, Notifying
  <2> QED BY <1>1, <2>1, LessKept
<1>2. ASSUME NEW i \in Instances, ServiceStep(i)
      PROVE  Kept
  <2>1. chain' = chain
    BY <1>2 DEF ServiceStep, pvars, evars
  <2> QED BY <1>2, <2>1, RefusedKept, CancelKept, AssertKept, UpdateKept, NotifyKept, OtherKept
          DEF ServiceStep, FiberStep
<1>3. CASE EndpointFiber
  BY <1>3, EndpointKept
<1>4. /\ DOMAIN wire = Instances /\ "protocol" \in Instances /\ "consensus" \in Instances
      /\ \A i \in Instances : DOMAIN wire[i] = {"req", "resp", "peer"}
  BY DEF IndInv, Shape, Instances
<1>5. CASE WriteEndpointPasses \/ WriteEndpointDrops
  <2>1. wire["protocol"].resp # <<>> /\ UNCHANGED <<inst, work>>
    BY Zenon, <1>5 DEF WriteEndpointPasses, WriteEndpointDrops, svars
  <2>6. \/ wire' = [wire EXCEPT !["protocol"].resp = Tail(@)]
        \/ \E p : wire' = [[wire EXCEPT !["protocol"].peer = p] EXCEPT !["protocol"].resp = Tail(@)]
    BY Zenon, <1>5 DEF WriteEndpointPasses, WriteEndpointDrops, ProtocolEnd
  <2>2. Range(Tail(wire["protocol"].resp)) \subseteq Range(wire["protocol"].resp)
    BY <1>4, <2>1, TailFacts DEF IndInv, Shape
  <2>3. Req' = Req /\ wire'["protocol"].resp = Tail(wire["protocol"].resp)
    <3>1. PICK v : /\ DOMAIN v = Instances /\ DOMAIN v["protocol"] = {"req", "resp", "peer"}
                   /\ v["protocol"].req = wire["protocol"].req
                   /\ v["protocol"].resp = wire["protocol"].resp
                   /\ wire' = [v EXCEPT !["protocol"].resp = Tail(@)]
      <4>1. CASE wire' = [wire EXCEPT !["protocol"].resp = Tail(@)]
        BY <1>4, <4>1
      <4>2. ASSUME NEW p,
                   wire' = [[wire EXCEPT !["protocol"].peer = p] EXCEPT !["protocol"].resp = Tail(@)]
            PROVE  \E v : /\ DOMAIN v = Instances /\ DOMAIN v["protocol"] = {"req", "resp", "peer"}
                          /\ v["protocol"].req = wire["protocol"].req
                          /\ v["protocol"].resp = wire["protocol"].resp
                          /\ wire' = [v EXCEPT !["protocol"].resp = Tail(@)]
        <5>1. PICK v : v = [wire EXCEPT !["protocol"].peer = p]
          OBVIOUS
        <5>2. /\ DOMAIN v = Instances /\ DOMAIN v["protocol"] = {"req", "resp", "peer"}
              /\ v["protocol"].req = wire["protocol"].req
              /\ v["protocol"].resp = wire["protocol"].resp
          BY <1>4, <5>1
        <5>3. wire' = [v EXCEPT !["protocol"].resp = Tail(@)]
          BY <4>2, <5>1
        <5> QED BY <5>2, <5>3
      <4> QED BY <2>6, <4>1, <4>2
    <3> QED BY <1>4, <3>1 DEF Req
  <2>4. Invalid(wire'["protocol"].resp) \subseteq Invalid(wire["protocol"].resp)
    BY <2>2, <2>3 DEF Invalid
  <2>5. Invalidating' \subseteq Invalidating
    BY <2>1, <2>4 DEF Invalidating, Notifying
  <2> QED BY <2>1, <2>3, <2>5, LessKept
<1>6. CASE Announce \/ SendOdd \/ CanonizationEnds \/ SupervisorEnds
  <2>1. UNCHANGED <<inst, work>>
    BY <1>6 DEF Announce, SendOdd, CanonizationEnds, SupervisorEnds, svars
  <2>2. CASE Announce \/ SendOdd
    <3>1. wire'["protocol"] = wire["protocol"]
      BY <1>4, <2>2 DEF Announce, SendOdd
    <3> QED BY <1>1, <2>1, <3>1
  <2>3. CASE CanonizationEnds \/ SupervisorEnds
    <3>1. /\ wire'["protocol"].req = wire["protocol"].req
          /\ wire'["protocol"].resp = wire["protocol"].resp
      BY <1>4, <2>3 DEF CanonizationEnds, SupervisorEnds, ProtocolEnd
    <3> QED BY <1>1, <2>1, <3>1
  <2> QED BY <1>6, <2>2, <2>3
<1>7. CASE SignalStep \/ Stopped \/ UNCHANGED vars
  BY <1>1, <1>7 DEF SignalStep, Quiesce, Terminate, Stopped, Sigterm, vars, nvars
<1>10. CASE WriteEndpointEnds
  <2>1. UNCHANGED <<inst, work>>
        /\ wire' = [wire EXCEPT !["protocol"].peer = supervised \/ endpoint \/ FALSE]
    BY <1>10 DEF WriteEndpointEnds, ProtocolEnd, svars
  <2>2. /\ wire'["protocol"].req = wire["protocol"].req
        /\ wire'["protocol"].resp = wire["protocol"].resp
    BY <1>4, <2>1
  <2> QED BY <1>1, <2>1, <2>2
<1>8. ASSUME NEW c \in Client, ClientAsserts(c) \/ ClientCancels(c) \/ ClientCloses(c)
      PROVE  Kept
  BY <1>1, <1>8 DEF ClientAsserts, ClientCancels, ClientSends, ClientCloses, nvars
<1>9. ASSUME NEW c \in Client, MainFiber(c) \/ WriteFiber(c)
      PROVE  Kept
  BY ZenonT(40), <1>1, <1>9 DEF MainFiber, RefuseRequest, AssertLatestBlockId, AssertLatestBlockIdCancel,
     AssertionReplied, CancelReplied, ReadEnds, WriteFiber, WritePacket, WriteEnds,
     ReleaseContext, nvars
<1> QED BY <1>2, <1>3, <1>5, <1>6, <1>7, <1>8, <1>9, <1>10 DEF Next, WriteEndpointFiber

-----------------------------------------------------------------------------
\* A step after which every message to a client was right before it.
Delivers ==
    \A c \in Client : \A m \in Range(conn'[c].box) \cup Range(answers'[c]) : Right(c, m)

\* What was right stays right.
LEMMA DeliverStays ==
    ASSUME OrderInv, AskedInv, Grown, chain' \in Nat, chain <= chain', Delivers
    PROVE  DeliverInv'
<1> SUFFICES ASSUME NEW c \in Client, NEW m \in Range(conn'[c].box) \cup Range(answers'[c]),
                    m.id = "ASSERT", m.status = "SUCCESS"
             PROVE  LateAt(c, m.offset)'
  BY DEF DeliverInv, Right
<1>1. PICK o : o = m.offset
  OBVIOUS
<1>2. LateAt(c, o)
  BY <1>1 DEF Delivers, Right
<1>3. LateAt(c, o)'
  BY <1>2, LateStays DEF LateAt, Named
<1> QED BY <1>1, <1>3 DEF LateAt

\* The mailbox of one connection gets messages that are right, or loses some.
LEMMA BoxDelivers ==
    ASSUME PlaceInv, DeliverInv, NEW d \in Client, DOMAIN conn' = Client,
           \A c \in Client \ {d} : conn'[c].box = conn[c].box, answers' = answers,
           \A m \in Range(conn'[d].box) : m \in Range(conn[d].box) \/ Right(d, m)
    PROVE  Delivers
  BY DEF Delivers, DeliverInv

\* The steps of a connection.
LEMMA ConnDelivers ==
    ASSUME PlaceInv, DeliverInv, NEW d \in Client,
           \/ ClientAsserts(d) \/ ClientCancels(d) \/ ClientCloses(d)
           \/ MainFiber(d) \/ WriteFiber(d)
    PROVE  Delivers
<1>1. /\ DOMAIN conn = Client /\ DOMAIN conn[d] = ConnFields /\ IsSeq(conn[d].box)
      /\ DOMAIN answers = Client /\ IsSeq(answers[d])
  BY Zenon DEF PlaceInv, Mailboxes
<1>2. ASSUME NEW q, conn' = [conn EXCEPT ![d] = q], answers' = answers,
             \A m \in Range(q.box) : m \in Range(conn[d].box) \/ Right(d, m)
      PROVE  Delivers
  <2>1. DOMAIN conn' = Client /\ conn'[d] = q /\ \A c \in Client \ {d} : conn'[c] = conn[c]
    BY <1>1, <1>2
  <2> QED BY <1>2, <2>1, BoxDelivers
<1>3. CASE \/ ClientAsserts(d) \/ ClientCancels(d) \/ ClientCloses(d)
           \/ AssertionReplied(d) \/ CancelReplied(d)
           \/ \E o : AssertLatestBlockId(d, o) \/ AssertLatestBlockIdCancel(d, o)
  <2>1. answers' = answers
    BY ZenonT(40), <1>3 DEF ClientAsserts, ClientCancels, ClientSends, ClientCloses, AssertionReplied,
       CancelReplied, AssertLatestBlockId, AssertLatestBlockIdCancel
  <2>2. DOMAIN conn' = Client /\ conn'[d].box = conn[d].box
        /\ \A c \in Client \ {d} : conn'[c] = conn[c]
    <3>1. CASE ClientAsserts(d) \/ ClientCancels(d)
      <4>1. PICK q : conn' = [conn EXCEPT ![d].input = q]
        BY Zenon, <3>1 DEF ClientAsserts, ClientCancels, ClientSends
      <4> QED BY <1>1, <4>1 DEF ConnFields
    <3>2. CASE ClientCloses(d)
      BY <1>1, <3>2 DEF ClientCloses, ConnFields
    <3>3. CASE AssertionReplied(d)
      BY <1>1, <3>3 DEF AssertionReplied, ConnFields
    <3>4. CASE CancelReplied(d)
      BY <1>1, <3>4 DEF CancelReplied, ConnFields
    <3>5. ASSUME NEW o, AssertLatestBlockId(d, o)
          PROVE  DOMAIN conn' = Client /\ conn'[d].box = conn[d].box
                 /\ \A c \in Client \ {d} : conn'[c] = conn[c]
      BY <1>1, <3>5 DEF AssertLatestBlockId, ConnFields
    <3>6. ASSUME NEW o, AssertLatestBlockIdCancel(d, o)
          PROVE  DOMAIN conn' = Client /\ conn'[d].box = conn[d].box
                 /\ \A c \in Client \ {d} : conn'[c] = conn[c]
      BY <1>1, <3>6 DEF AssertLatestBlockIdCancel, ConnFields
    <3> QED BY ZenonT(40), <1>3, <3>1, <3>2, <3>3, <3>4, <3>5, <3>6
  <2> QED BY <2>1, <2>2, BoxDelivers
<1>4. ASSUME NEW o, RefuseRequest(d, o) PROVE Delivers
  <2>1. PICK m : /\ m = Packet(asked[d][o].kind, o, Refusal(d, asked[d][o]))
                 /\ conn' = [conn EXCEPT ![d].input = Tail(@), ![d].box = Append(@, m)]
    BY Zenon, <1>4 DEF RefuseRequest
  <2>2. m.status # "SUCCESS" /\ answers' = answers
    BY <1>4, <2>1 DEF RefuseRequest, Packet, WriteEndpointMessage
  <2>3. Range(Append(conn[d].box, m)) = Range(conn[d].box) \cup {m}
    BY <1>1, AppendFacts
  <2>4. DOMAIN conn' = Client /\ conn'[d].box = Append(conn[d].box, m)
        /\ \A c \in Client \ {d} : conn'[c] = conn[c]
    BY <1>1, <2>1 DEF ConnFields
  <2> QED BY ZenonT(40), <2>2, <2>3, <2>4, BoxDelivers DEF Right
<1>5. CASE ReadEnds(d)
  <2>1. PICK m, b : m = Packet("NONE", 0, "ERROR") /\ b = Append(conn[d].box, m)
    BY ZenonT(40)
  <2>2. conn' = [conn EXCEPT ![d].main = "ended", ![d].box = Append(b, Shutdown)]
        /\ answers' = answers
    BY <1>5, <2>1 DEF ReadEnds
  <2>3. m.id = "NONE" /\ Shutdown.id = "NONE"
    BY <2>1 DEF Packet, Shutdown, WriteEndpointMessage
  <2>4. IsSeq(b) /\ Range(b) = Range(conn[d].box) \cup {m}
    BY <1>1, <2>1, AppendFacts
  <2>5. Range(Append(b, Shutdown)) = Range(b) \cup {Shutdown}
    BY <2>4, AppendFacts
  <2>6. DOMAIN conn' = Client /\ conn'[d].box = Append(b, Shutdown)
        /\ \A c \in Client \ {d} : conn'[c] = conn[c]
    BY <1>1, <2>2 DEF ConnFields
  <2> QED BY <2>2, <2>3, <2>4, <2>5, <2>6, BoxDelivers DEF Right
<1>6. CASE WritePacket(d)
  <2>1. PICK m, p : /\ m = Head(conn[d].box)
                    /\ p = [id |-> m.id, offset |-> m.offset, status |-> m.status]
    BY ZenonT(40)
  <2>2. /\ conn[d].box # <<>> /\ conn' = [conn EXCEPT ![d] = Written(@, m)]
        /\ answers' = [answers EXCEPT ![d] = Append(@, p)]
    BY Zenon, <1>6, <2>1 DEF WritePacket
  <2>3. p.id = m.id /\ p.offset = m.offset /\ p.status = m.status
    BY <2>1
  <2>4. Range(conn[d].box) = Range(Tail(conn[d].box)) \cup {m}
    BY ZenonT(40), <1>1, <2>1, <2>2, TailFacts
  <2>5. Range(Append(answers[d], p)) = Range(answers[d]) \cup {p}
    BY Zenon, <1>1, AppendFacts
  <2>6. /\ conn'[d].box = Tail(conn[d].box) /\ \A c \in Client \ {d} : conn'[c] = conn[c]
        /\ answers'[d] = Append(answers[d], p) /\ \A c \in Client \ {d} : answers'[c] = answers[c]
    BY <1>1, <2>2 DEF Written, ConnFields
  <2>7. Right(d, m) /\ Right(d, p)
    BY <2>3, <2>4 DEF DeliverInv, Right
  <2> QED BY ZenonT(40), <2>4, <2>5, <2>6, <2>7 DEF Delivers, DeliverInv
<1>7. CASE WriteEnds(d)
  <2>1. conn[d].box # <<>> /\ answers' = answers
        /\ conn' = [conn EXCEPT ![d].write = "ended", ![d].box = Tail(@)]
    BY <1>7 DEF WriteEnds
  <2>2. Range(Tail(conn[d].box)) \subseteq Range(conn[d].box)
    BY <1>1, <2>1, TailFacts
  <2>3. DOMAIN conn' = Client /\ conn'[d].box = Tail(conn[d].box)
        /\ \A c \in Client \ {d} : conn'[c] = conn[c]
    BY <1>1, <2>1 DEF ConnFields
  <2> QED BY <2>1, <2>2, <2>3, BoxDelivers
<1>8. CASE ReleaseContext(d)
  <2>1. answers' = answers /\ conn' = [conn EXCEPT ![d].open = FALSE, ![d].box = <<>>]
    BY <1>8 DEF ReleaseContext
  <2>2. Range(<<>>) = {}
    BY DEF Range
  <2>3. DOMAIN conn' = Client /\ conn'[d].box = <<>> /\ \A c \in Client \ {d} : conn'[c] = conn[c]
    BY <1>1, <2>1 DEF ConnFields
  <2> QED BY <2>1, <2>2, <2>3, BoxDelivers
<1> QED BY <1>3, <1>4, <1>5, <1>6, <1>7, <1>8 DEF MainFiber, WriteFiber

\* An invalidation is passed on to the client that asked, for what it asked.
LEMMA PassDelivers ==
    ASSUME IndInv, PlaceInv, MapInv, ServiceInv, DeliverInv, WriteEndpointPasses
    PROVE  Delivers
<1>1. PICK r, d, o : /\ r = Head(wire["protocol"].resp)
                     /\ d = serverMap[r.offset].client /\ o = serverMap[r.offset].offset
  OBVIOUS
<1>2. /\ wire["protocol"].resp # <<>> /\ r.offset \in DOMAIN serverMap /\ answers' = answers
      /\ \/ conn' = conn
         \/ conn' = [conn EXCEPT ![d].box = Append(@, Notice(ReturnMethod(r), o))]
  BY Zenon, <1>1, PassSteps DEF WriteEndpointPasses
<1>3. d \in Client /\ o \in 1 .. Len(asked[d]) /\ Claim(r.offset) = asked[d][o]
  BY Zenon, <1>1, <1>2 DEF MapInv, Named, Claim
<1>4. PICK m : m = Notice(ReturnMethod(r), o)
  OBVIOUS
<1>5. m.id = ReturnMethod(r) /\ m.offset = o
  BY <1>4 DEF Notice, WriteEndpointMessage
<1>6. Right(d, m)
  <2> SUFFICES ASSUME m.id = "ASSERT" PROVE LateAt(d, o)
    BY <1>5 DEF Right
  <2>1. r.method # "BLOCK_ASSERTION_CANCEL"
    BY <1>5 DEF ReturnMethod
  <2>2. r \in Range(wire["protocol"].resp)
    <3>1. IsSeq(wire["protocol"].resp)
      BY DEF IndInv, Shape, Instances
    <3>2. wire["protocol"].resp # <<>>
      BY <1>2
    <3>3. Head(wire["protocol"].resp) \in Range(wire["protocol"].resp)
      BY <3>1, <3>2, TailFacts
    <3> QED BY <1>1, <3>3
  <2>3. r.offset \in Invalidating
    BY <2>1, <2>2 DEF Invalidating, Invalid
  <2>4. Late(Claim(r.offset))
    BY <1>2, <2>3 DEF ServiceInv, Served, WriteEndpointPasses
  <2> QED BY <1>3, <2>4 DEF LateAt
<1>7. /\ DOMAIN conn = Client /\ DOMAIN conn[d] = ConnFields
      /\ Range(Append(conn[d].box, m)) = Range(conn[d].box) \cup {m}
  BY <1>3, AppendFacts DEF PlaceInv, Mailboxes
<1>8. CASE conn' = conn
  BY <1>2, <1>8 DEF Delivers, DeliverInv
<1>9. CASE conn' = [conn EXCEPT ![d].box = Append(@, m)]
  <2>1. DOMAIN conn' = Client /\ conn'[d].box = Append(conn[d].box, m)
        /\ \A c \in Client \ {d} : conn'[c] = conn[c]
    BY <1>3, <1>7, <1>9 DEF ConnFields
  <2> QED BY ZenonT(40), <1>2, <1>3, <1>6, <1>7, <2>1, BoxDelivers
<1> QED BY <1>2, <1>4, <1>8, <1>9

\* Every step.
LEMMA DeliverStep ==
    ASSUME IndInv, PlaceInv, MapInv, ServiceInv, DeliverInv, [Next]_vars
    PROVE  Delivers
<1>1. CASE answers' = answers /\ \A c \in Client : conn'[c].box = conn[c].box
  BY <1>1 DEF Delivers, DeliverInv
<1>2. CASE \/ SignalStep \/ Stopped \/ UNCHANGED vars \/ Announce \/ SendOdd
           \/ WriteEndpointDrops \/ WriteEndpointEnds
           \/ CanonizationEnds \/ SupervisorEnds \/ \E i \in Instances : ServiceStep(i)
  <2>1. UNCHANGED <<conn, answers>>
    BY <1>2 DEF SignalStep, Stopped, vars, pvars, Announce, SendOdd, ServiceStep, CanonizationEnds, SupervisorEnds,
       WriteEndpointDrops, WriteEndpointEnds
  <2> QED BY <1>1, <2>1
<1>3. CASE EndpointFiber
  <2>1. PICK d : answers' = answers /\ (conn' = conn \/ ReplyTo(d))
    BY <1>3, EndpointSteps
  <2>2. \A c \in Client : conn'[c].box = conn[c].box
    BY <2>1 DEF ReplyTo, PlaceInv, Mailboxes, ConnFields
  <2> QED BY <1>1, <2>1, <2>2
<1>4. CASE WriteEndpointPasses
  BY <1>4, PassDelivers
<1>5. ASSUME NEW c \in Client, \/ ClientAsserts(c) \/ ClientCancels(c) \/ ClientCloses(c)
                               \/ MainFiber(c) \/ WriteFiber(c)
      PROVE  Delivers
  BY <1>5, ConnDelivers
<1> QED BY <1>2, <1>3, <1>4, <1>5 DEF Next, WriteEndpointFiber

-----------------------------------------------------------------------------
\* In the beginning there is no block, nothing asked and nothing invalidated.
LEMMA InitJust == Init => JustInv
<1> SUFFICES ASSUME Init PROVE JustInv
  OBVIOUS
<1>1. Range(<<>>) = {} /\ Len(<<>>) = 0
  BY DEF Range
<1>2. "protocol" \in Instances /\ "consensus" \in Instances
  BY DEF Instances
<1>3. \A i \in Instances :
         /\ wire[i].req = <<>> /\ wire[i].resp = <<>> /\ inst[i].outbound = <<>>
         /\ inst[i].assertions = {} /\ work[i].todo = {}
  BY ZenonT(40) DEF Init, InitNotification, InstanceCreate, ProtocolFiberAdd, OutboundEndpointAdd, NoWork
<1>4. \A c \in Client : conn[c].box = <<>> /\ answers[c] = <<>> /\ asked[c] = <<>>
  BY DEF Init, NewConnection
<1>5. OrderInv
  <2>1. latest = 0 /\ chain = 0
    BY BlockAssumption DEF Init, InitNotification
  <2>2. wire["consensus"].req = <<>>
    BY Zenon, <1>2, <1>3
  <2>3. Upcoming(<<>>, 0, 0)
    BY DEF Upcoming
  <2> QED BY <2>1, <2>2, <2>3 DEF OrderInv
<1>6. AskedInv /\ DeliverInv
  <2>1. AskedInv
    <3>1. \A c \in Client : 1 .. Len(asked[c]) = {}
      BY <1>1, <1>4
    <3> QED BY Zenon, <3>1 DEF AskedInv
  <2>2. DeliverInv
    <3>1. \A c \in Client : Range(conn[c].box) \cup Range(answers[c]) = {}
      BY <1>1, <1>4
    <3> QED BY Zenon, <3>1 DEF DeliverInv
  <2> QED BY <2>1, <2>2
<1>7. ForwardInv /\ MapInv
  BY <1>1 DEF ForwardInv, MapInv, Init, EndpointAdd
<1>8. Invalidating = {}
  BY ZenonT(40), <1>1, <1>2, <1>3 DEF Invalidating, Invalid, Notifying
<1>9. ServiceInv
  BY <1>1, <1>2, <1>3, <1>8 DEF ServiceInv, Req
<1> QED BY <1>5, <1>6, <1>7, <1>9 DEF JustInv

\* A fiber that has ended does not come back.
LEMMA ServedStays ==
    ASSUME [Next]_vars, Served'
    PROVE  Served
<1> SUFFICES ASSUME ~Served PROVE UNCHANGED <<endpoint, writer>>
  BY DEF Served
<1>1. ~EndpointFiber /\ ~WriteEndpointFiber
  BY DEF EndpointFiber, EndpointAssert, EndpointCancel, EndpointFails, WriteEndpointFiber,
     WriteEndpointPasses, WriteEndpointDrops, WriteEndpointEnds, Served
<1>2. CASE \/ SignalStep \/ Stopped \/ UNCHANGED vars \/ Announce \/ SendOdd
           \/ CanonizationEnds \/ SupervisorEnds \/ \E i \in Instances : ServiceStep(i)
  BY Zenon, <1>2 DEF SignalStep, Stopped, vars, pvars, epvars, Announce, SendOdd, ServiceStep,
     CanonizationEnds, SupervisorEnds
<1>3. ASSUME NEW c \in Client, \/ ClientAsserts(c) \/ ClientCancels(c) \/ ClientCloses(c)
                               \/ MainFiber(c) \/ WriteFiber(c)
      PROVE  UNCHANGED <<endpoint, writer>>
  BY ZenonT(40), <1>3 DEF ClientAsserts, ClientCancels, ClientSends, ClientCloses, MainFiber,
     RefuseRequest, AssertLatestBlockId, AssertLatestBlockIdCancel, AssertionReplied,
     CancelReplied, ReadEnds, WriteFiber, WritePacket, WriteEnds, ReleaseContext, epvars
<1> QED BY <1>1, <1>2, <1>3 DEF Next

\* Every step preserves it, given where the offsets are and that nothing stale is held.
LEMMA StepJust == IndInv /\ PlaceInv /\ StaleNeverHeld /\ JustInv /\ [Next]_vars => JustInv'
<1> SUFFICES ASSUME IndInv, PlaceInv, StaleNeverHeld, JustInv, [Next]_vars PROVE JustInv'
  OBVIOUS
<1>1. OrderInv /\ AskedInv /\ ForwardInv /\ MapInv /\ ServiceInv /\ DeliverInv
  BY DEF JustInv
<1>2. OrderInv' /\ latest <= latest' /\ chain <= chain'
  BY <1>1, OrderStep
<1>3. latest' \in Nat /\ chain' \in Nat
  BY <1>2 DEF OrderInv
<1>4. AskedInv' /\ Grown
  BY <1>1, <1>2, <1>3, AskedStep
<1>5. ForwardInv'
  BY <1>1, <1>4, ForwardStep
<1>6. MapInv' /\ ClaimsStay
  BY <1>1, <1>2, <1>3, <1>4, MapStep
<1>7. ServiceInv'
  <2> SUFFICES ASSUME Served' PROVE ServiceInv'
    BY DEF ServiceInv
  <2>3. Served
    BY ServedStays
  <2>1. Kept
    BY <1>1, <2>3, ServiceStepKept
  <2>2. IndInv'
    BY StepInv
  <2> QED BY <1>1, <1>6, <2>1, <2>2, <2>3, ServiceKeeps
<1>8. DeliverInv'
  <2>1. Delivers
    BY <1>1, DeliverStep
  <2> QED BY <1>1, <1>2, <1>3, <1>4, <2>1, DeliverStays
<1> QED BY <1>2, <1>4, <1>5, <1>6, <1>7, <1>8 DEF JustInv

\* What is on its way to a client as an invalidation is about an assertion that is late
\* (dispatch_assertion, dispatch_block_update, the endpoint's maps).
THEOREM InvalidationsInvariant == Spec => []JustInv
  BY InitJust, StepJust, OffsetsApart, OffsetsAtOnePlace, StaleCorrect, PTL DEF Spec

\* No client is told of an invalidation without a reason: there is a later block, or the
\* service did not have the id when the client asserted it.  This holds for any number of
\* clients and blocks, and for any order of updates, cancels and closed connections.
THEOREM InvalidationCorrect == Spec => []InvalidationJustified
<1>1. JustInv => InvalidationJustified
  BY DEF JustInv, DeliverInv, Right, LateAt, Late, InvalidationJustified
<1> QED BY <1>1, InvalidationsInvariant, PTL
=============================================================================
