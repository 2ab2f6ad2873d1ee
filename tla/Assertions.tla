------------------------------- MODULE Assertions -------------------------------
(***************************************************************************)
(* Block assertions end to end: remote clients, their connections in the   *)
(* protocol service, its notification service endpoint (the files of       *)
(* src/src/protocolservice that begin with                                 *)
(* protocolservice_notificationservice_) and the notification service      *)
(* itself, which module Notification models.                               *)
(*                                                                         *)
(* A connection has a main fiber, which reads the client's requests, and a *)
(* write endpoint fiber, which writes to the client what arrives in the    *)
(* mailbox return_addr.  The endpoint has a fiber that sends requests to   *)
(* the notification service and one that reads its responses; they share   *)
(* two maps between the offsets of both sides, and whichever ends last     *)
(* releases what they share.                                               *)
(***************************************************************************)
EXTENDS Notification

CONSTANTS Client,      \* remote clients, one connection each
          Entitled,    \* the clients whose entity has the assertion capabilities
          MaxEvents,   \* bound: events from outside: requests, blocks, ends
          MaxOdd       \* bound: those that are neither requests of clients nor blocks

ASSUME ClientAssumption == Entitled \subseteq Client /\ MaxEvents \in Nat /\ MaxOdd \in Nat

VARIABLES conn,      \* the connections
          notifybox, \* mailbox of the endpoint fiber
          clientMap, \* client_xlat_map: return address -> server offset
          serverMap, \* server_xlat_map: server offset -> address, client offset
          counter,   \* request_offset_counter
          endpoint,  \* the endpoint fiber runs
          writer,    \* the write endpoint fiber runs
          supervised, \* the supervisor lives: it holds both ends of the socket pair
                      \* between the endpoint and the notification service
          asked,     \* history: the requests of each client, by offset
          answers,   \* history: the packets each client has received
          chain,     \* the block last made by the canonization service
          events,    \* events from outside so far
          odd        \* those of them that are counted by MaxOdd

svars == <<latest, inst, work, signal, alive>>
epvars == <<notifybox, clientMap, serverMap, counter, endpoint, writer>>
evars == <<chain, events, odd, supervised>>
pvars == <<conn, epvars, asked, answers, evars>>
vars == <<nvars, pvars>>

NewConnection ==
    [main |-> "reading", set |-> FALSE, write |-> "waiting", box |-> <<>>,
     reply |-> FALSE, open |-> TRUE, peer |-> TRUE, input |-> <<>>]

(* The endpoint's two fibers share its maps and its counter. *)
EndpointAdd ==
    /\ notifybox = <<>>
    /\ clientMap = <<>>
    /\ serverMap = <<>>
    /\ counter = 0
    /\ endpoint = TRUE
    /\ writer = TRUE

Init ==
    /\ InitNotification
    /\ conn = [c \in Client |-> NewConnection]
    /\ EndpointAdd
    /\ asked = [c \in Client |-> <<>>]
    /\ answers = [c \in Client |-> <<>>]
    /\ chain = ZeroBlock
    /\ events = 0
    /\ odd = 0
    /\ supervised = TRUE

With(f, x, v) == [y \in DOMAIN f \cup {x} |-> IF y = x THEN v ELSE f[y]]

Without(f, x) == [y \in DOMAIN f \ {x} |-> f[y]]

-----------------------------------------------------------------------------
(* Clients and the canonization service. *)

Event == events < MaxEvents /\ events' = events + 1

(* Bound: such an event counts as two. *)
OddEvent ==
    /\ odd < MaxOdd
    /\ odd' = odd + 1
    /\ events + 2 <= MaxEvents
    /\ events' = events + 2

(* A client sends a request; its offset is the number of the request.      *)
(* early is history: the notification service does not have this id.  The  *)
(* next request is not sent before the last was read (bound).              *)
ClientSends(c, kind, b) ==
    /\ conn[c].peer
    /\ conn[c].input = <<>>
    /\ Event
    /\ asked' = [asked EXCEPT ![c] =
                    Append(@, [kind |-> kind, block |-> b, early |-> b # latest])]
    /\ conn' = [conn EXCEPT ![c].input = Append(@, Len(asked[c]) + 1)]
    /\ UNCHANGED <<nvars, epvars, answers, chain, odd, supervised>>

ClientAsserts(c) == \E b \in {chain, latest} : ClientSends(c, "ASSERT", b)

ClientCancels(c) == asked[c] # <<>> /\ ClientSends(c, "CANCEL", ZeroBlock)

(* A client closes its connection; one that never asked is of no interest. *)
ClientCloses(c) ==
    /\ Event
    /\ asked[c] # <<>>
    /\ conn[c].peer
    /\ conn' = [conn EXCEPT ![c].peer = FALSE]
    /\ UNCHANGED <<nvars, epvars, asked, answers, chain, odd, supervised>>

(* The canonization service announces the next block, once the last        *)
(* announcement was answered.                                              *)
Announce ==
    /\ Event
    /\ wire["consensus"].peer
    /\ chain = ZeroBlock \/ wire["consensus"].resp # <<>>
    /\ chain + 1 \in Block
    /\ chain' = chain + 1
    /\ wire' = [wire EXCEPT !["consensus"].resp = <<>>,
                            !["consensus"].req =
                                Append(@, SendreqBlockUpdate(chain + 1, chain + 1))]
    /\ UNCHANGED <<svars, epvars, conn, asked, answers, odd, supervised>>

(* Other requests that the notification service knows how to refuse. *)
OddRequests ==
    {SendreqReduceCaps(0, Caps \ {"BLOCK_UPDATE"}),
     [SendreqBlockUpdate(0, ZeroBlock) EXCEPT !.size = 8],
     [SendreqReduceCaps(0, Caps) EXCEPT !.method = "UNKNOWN"]}

SendOdd ==
    /\ OddEvent
    /\ wire["consensus"].peer
    /\ \E r \in OddRequests :
          wire' = [wire EXCEPT !["consensus"].req = Append(@, r)]
    /\ UNCHANGED <<svars, epvars, conn, asked, answers, chain, supervised>>

(* The supervisor stops the service, or the canonization service ends and  *)
(* with it the only open copy of its end of the socket pair.               *)
Stopped ==
    /\ OddEvent
    /\ Sigterm
    /\ UNCHANGED <<epvars, conn, asked, answers, chain, supervised>>

CanonizationEnds ==
    /\ OddEvent
    /\ wire["consensus"].peer
    /\ wire' = [wire EXCEPT !["consensus"].peer = FALSE]
    /\ UNCHANGED <<svars, epvars, conn, asked, answers, chain, supervised>>

(* The end of the pair that belongs to the protocol service is open as     *)
(* long as its endpoint has a fiber or the supervisor lives.               *)
ProtocolEnd(lives, e, w) == [wire EXCEPT !["protocol"].peer = lives \/ e \/ w]

(* The supervisor ends.  It never closed its copies of the ends that it    *)
(* gave to the protocol and the notification service; now they are gone.   *)
SupervisorEnds ==
    /\ Event
    /\ supervised
    /\ supervised' = FALSE
    /\ wire' = ProtocolEnd(FALSE, endpoint, writer)
    /\ UNCHANGED <<svars, epvars, conn, asked, answers, chain, odd>>

-----------------------------------------------------------------------------
(* The main fiber of a connection. *)

(* Messages to the write endpoint of a connection. *)
WriteEndpointMessage(t, id, o, s) == [type |-> t, id |-> id, offset |-> o, status |-> s]

Packet(id, o, s) == WriteEndpointMessage("PACKET", id, o, s)

Notice(id, o) == WriteEndpointMessage("NOTIFICATION", id, o, "SUCCESS")

Shutdown == WriteEndpointMessage("SHUTDOWN", "NONE", 0, "SUCCESS")

(* A message to the notification service endpoint. *)
AssertionRequest(c, cancel, o, b) ==
    [client |-> c, cancel |-> cancel, offset |-> o, block |-> b]

(* The endpoint's mailbox and maps are there while it has a fiber. *)
Served == endpoint \/ writer

(* The status with which a request is refused before it is forwarded, and  *)
(* that of the send to a mailbox that is closed.                           *)
Refusal(c, r) ==
    IF c \notin Entitled THEN "UNAUTHORIZED"
    ELSE IF r.kind = "ASSERT" /\ conn[c].set THEN "BLOCK_ASSERTION_ALREADY_SET"
    ELSE IF r.kind = "CANCEL" /\ ~conn[c].set THEN "BLOCK_ASSERTION_NOT_SET"
    ELSE IF ~Served THEN "MAILBOX_CLOSED"
    ELSE "SUCCESS"

Reads(c, o) ==
    /\ conn[c].main = "reading"
    /\ conn[c].input # <<>>
    /\ o = Head(conn[c].input)

(* A refused request is answered through the write endpoint. *)
RefuseRequest(c, o) ==
    /\ Reads(c, o)
    /\ LET s == Refusal(c, asked[c][o])
       IN  /\ s # "SUCCESS"
           /\ conn' = [conn EXCEPT ![c].input = Tail(@),
                                   ![c].box = Append(@, Packet(asked[c][o].kind, o, s))]
    /\ UNCHANGED <<nvars, epvars, evars, asked, answers>>

(* dnd_assert_latest_block_id, up to the wait for the endpoint's reply. *)
AssertLatestBlockId(c, o) ==
    /\ Reads(c, o)
    /\ asked[c][o].kind = "ASSERT"
    /\ Refusal(c, asked[c][o]) = "SUCCESS"
    /\ notifybox' = Append(notifybox, AssertionRequest(c, FALSE, o, asked[c][o].block))
    /\ conn' = [conn EXCEPT ![c].input = Tail(@), ![c].main = "asserting"]
    /\ UNCHANGED <<nvars, evars, clientMap, serverMap, counter, endpoint, writer,
                   asked, answers>>

(* dnd_assert_latest_block_id_cancel, up to the same wait. *)
AssertLatestBlockIdCancel(c, o) ==
    /\ Reads(c, o)
    /\ asked[c][o].kind = "CANCEL"
    /\ Refusal(c, asked[c][o]) = "SUCCESS"
    /\ notifybox' = Append(notifybox, AssertionRequest(c, TRUE, o, ZeroBlock))
    /\ conn' = [conn EXCEPT ![c].input = Tail(@), ![c].main = "cancelling"]
    /\ UNCHANGED <<nvars, evars, clientMap, serverMap, counter, endpoint, writer,
                   asked, answers>>

(* The reply of the endpoint arrives; whether it reports success is not    *)
(* looked at.  The assertion is now marked as set.                         *)
AssertionReplied(c) ==
    /\ conn[c].main = "asserting"
    /\ conn[c].reply
    /\ conn' = [conn EXCEPT ![c].reply = FALSE, ![c].main = "reading", ![c].set = TRUE]
    /\ UNCHANGED <<nvars, epvars, evars, asked, answers>>

(* The reply to a cancel changes nothing: the mark is taken away when the  *)
(* response has been written.                                              *)
CancelReplied(c) ==
    /\ conn[c].main = "cancelling"
    /\ conn[c].reply
    /\ conn' = [conn EXCEPT ![c].reply = FALSE, ![c].main = "reading"]
    /\ UNCHANGED <<nvars, epvars, evars, asked, answers>>

(* The client is gone: an error packet and the shutdown message go to the  *)
(* write endpoint and the main fiber gives up its share of the context.    *)
ReadEnds(c) ==
    /\ conn[c].main = "reading"
    /\ conn[c].input = <<>>
    /\ ~conn[c].peer
    /\ conn' = [conn EXCEPT ![c].main = "ended",
                            ![c].box = Append(Append(@, Packet("NONE", 0, "ERROR")),
                                              Shutdown)]
    /\ UNCHANGED <<nvars, epvars, evars, asked, answers>>

-----------------------------------------------------------------------------
(* The write endpoint fiber of a connection. *)

(* What a message of the mailbox leaves behind once it is written; a       *)
(* notification clears the mark of the assertion.                          *)
Written(rec, m) ==
    [rec EXCEPT !.box = Tail(@), !.set = @ /\ m.type # "NOTIFICATION"]

(* A message is written to the client, which takes as long as the client's *)
(* socket is full.  The reply to an assertion was sent before the          *)
(* notification, and fibers run in the order in which they became ready:   *)
(* the main fiber has marked the assertion by then.                        *)
WritePacket(c) ==
    /\ conn[c].write = "waiting"
    /\ conn[c].box # <<>>
    /\ conn[c].peer
    /\ LET m == Head(conn[c].box)
       IN  /\ m.type # "SHUTDOWN"
           /\ m.type = "NOTIFICATION" => ~(conn[c].main = "asserting" /\ conn[c].reply)
           /\ conn' = [conn EXCEPT ![c] = Written(@, m)]
           /\ answers' = [answers EXCEPT ![c] =
                             Append(@, [id |-> m.id, offset |-> m.offset,
                                        status |-> m.status])]
    /\ UNCHANGED <<nvars, epvars, evars, asked>>

(* The write fails or the shutdown message arrives: the fiber ends. *)
WriteEnds(c) ==
    /\ conn[c].write # "ended"
    /\ conn[c].box # <<>>
    /\ Head(conn[c].box).type = "SHUTDOWN" \/ ~conn[c].peer
    /\ conn' = [conn EXCEPT ![c].write = "ended", ![c].box = Tail(@)]
    /\ UNCHANGED <<nvars, epvars, evars, asked, answers>>

(* The fiber that releases the context last closes the mailboxes. *)
ReleaseContext(c) ==
    /\ conn[c].open
    /\ conn[c].main = "ended"
    /\ conn[c].write = "ended"
    /\ conn' = [conn EXCEPT ![c].open = FALSE, ![c].box = <<>>]
    /\ UNCHANGED <<nvars, epvars, evars, asked, answers>>

-----------------------------------------------------------------------------
(* The notification service endpoint. *)

(* notificationservice_fiber_context_release: the fibers e and w are left. *)
(* The first to end only gives up its share; the second one closes the     *)
(* mailbox and the socket and frees both maps, here cm and sm.             *)
FiberContextRelease(e, w, box, cm, sm) ==
    /\ endpoint' = e
    /\ writer' = w
    /\ notifybox' = IF e \/ w THEN box ELSE <<>>
    /\ clientMap' = IF e \/ w THEN cm ELSE <<>>
    /\ serverMap' = IF e \/ w THEN sm ELSE <<>>

(* The reply to the main fiber that waits on fiber_addr. *)
ReplyTo(c) == conn' = [conn EXCEPT ![c].reply = TRUE]

(* The notification service's end of the pair.  While the supervisor lives *)
(* a write to it succeeds, and a read waits, even if the service is gone.  *)
NotifySocketOpen == alive \/ supervised

NextOffset == counter + 1

(* xlat_map_add enters the client map and then the server map. *)
ClientMapAdd(m) == With(clientMap, m.client, NextOffset)

ServerMapAdd(m) == With(serverMap, NextOffset, [client |-> m.client, offset |-> m.offset])

(* The endpoint fiber forwards an assertion under an offset of its own. *)
EndpointAssert ==
    /\ endpoint
    /\ notifybox # <<>>
    /\ LET m == Head(notifybox)
       IN  /\ ~m.cancel
           /\ m.client \notin DOMAIN clientMap
           /\ NotifySocketOpen
           /\ clientMap' = ClientMapAdd(m)
           /\ serverMap' = ServerMapAdd(m)
           /\ wire' = [wire EXCEPT !["protocol"].req =
                          Append(@, SendreqBlockAssertion(NextOffset, m.block))]
           /\ ReplyTo(m.client)
    /\ counter' = NextOffset
    /\ notifybox' = Tail(notifybox)
    /\ UNCHANGED <<svars, evars, endpoint, writer, asked, answers>>

(* The endpoint fiber forwards a cancel under the assertion's offset. *)
EndpointCancel ==
    /\ endpoint
    /\ notifybox # <<>>
    /\ LET m == Head(notifybox)
       IN  /\ m.cancel
           /\ m.client \in DOMAIN clientMap
           /\ NotifySocketOpen
           /\ wire' = [wire EXCEPT !["protocol"].req =
                          Append(@, SendreqAssertionCancel(clientMap[m.client]))]
           /\ ReplyTo(m.client)
    /\ notifybox' = Tail(notifybox)
    /\ UNCHANGED <<svars, evars, clientMap, serverMap, counter, endpoint, writer,
                   asked, answers>>

(* The end of the endpoint fiber: a cancel whose assertion is not in the   *)
(* map, a request that cannot be written (its entry is made by then), both *)
(* with an error reply; and an assertion of a client that is in the map    *)
(* already, without a reply.                                               *)
EndpointFails ==
    /\ endpoint
    /\ notifybox # <<>>
    /\ LET m == Head(notifybox)
           left(cm, sm) == FiberContextRelease(FALSE, writer, Tail(notifybox), cm, sm)
       IN  \/ /\ m.cancel
              /\ m.client \notin DOMAIN clientMap \/ ~NotifySocketOpen
              /\ left(clientMap, serverMap)
              /\ ReplyTo(m.client)
              /\ UNCHANGED counter
           \/ /\ ~m.cancel
              /\ NotifySocketOpen => m.client \in DOMAIN clientMap
              /\ IF m.client \in DOMAIN clientMap
                 THEN left(clientMap, serverMap) /\ UNCHANGED conn
                 ELSE left(ClientMapAdd(m), ServerMapAdd(m)) /\ ReplyTo(m.client)
              /\ counter' = NextOffset
    /\ wire' = ProtocolEnd(supervised, FALSE, writer)
    /\ UNCHANGED <<svars, evars, asked, answers>>

(* Faulty variant: the cancel is not told apart. *)
BadReturnMethod(r) == "ASSERT"

(* The method under which the client is told. *)
ReturnMethod(r) == IF r.method = "BLOCK_ASSERTION_CANCEL" THEN "CANCEL" ELSE "ASSERT"

(* Faulty variants: the entry stays in the client map, or in both. *)
ServerOnlyLookup(n) == [client |-> clientMap, server |-> Without(serverMap, n)]

KeepingLookup(n) == [client |-> clientMap, server |-> serverMap]

(* lookup_return_address_from_offset takes the entry out of both maps. *)
Lookup(n) ==
    [client |-> Without(clientMap, serverMap[n].client), server |-> Without(serverMap, n)]

(* The write endpoint fiber passes a response on to the connection that    *)
(* asked.  A connection that is gone has no mailbox: the send fails and    *)
(* the fiber ends.                                                         *)
WriteEndpointPasses ==
    /\ writer
    /\ wire["protocol"].resp # <<>>
    /\ LET r == Head(wire["protocol"].resp)
           e == serverMap[r.offset]
           left == Lookup(r.offset)
       IN  /\ r.offset \in DOMAIN serverMap
           /\ FiberContextRelease(endpoint, conn[e.client].open, notifybox,
                                  left.client, left.server)
           /\ conn' = IF conn[e.client].open
                      THEN [conn EXCEPT ![e.client].box =
                               Append(@, Notice(ReturnMethod(r), e.offset))]
                      ELSE conn
    /\ wire' = [ProtocolEnd(supervised, endpoint, writer') EXCEPT !["protocol"].resp = Tail(@)]
    /\ UNCHANGED <<svars, evars, counter, asked, answers>>

(* A response whose offset is not in the map is dropped. *)
WriteEndpointDrops ==
    /\ writer
    /\ wire["protocol"].resp # <<>>
    /\ Head(wire["protocol"].resp).offset \notin DOMAIN serverMap
    /\ wire' = [wire EXCEPT !["protocol"].resp = Tail(@)]
    /\ UNCHANGED <<svars, pvars>>

(* The notification service is gone, and so is the supervisor. *)
WriteEndpointEnds ==
    /\ writer
    /\ wire["protocol"].resp = <<>>
    /\ ~NotifySocketOpen
    /\ FiberContextRelease(endpoint, FALSE, notifybox, clientMap, serverMap)
    /\ wire' = ProtocolEnd(supervised, endpoint, FALSE)
    /\ UNCHANGED <<svars, evars, conn, counter, asked, answers>>

-----------------------------------------------------------------------------

ServiceStep(i) == FiberStep(i) /\ UNCHANGED pvars

SignalStep == (Quiesce \/ Terminate) /\ UNCHANGED pvars

MainFiber(c) ==
    \/ \E o \in Range(conn[c].input) :
          \/ RefuseRequest(c, o)
          \/ AssertLatestBlockId(c, o)
          \/ AssertLatestBlockIdCancel(c, o)
    \/ AssertionReplied(c)
    \/ CancelReplied(c)
    \/ ReadEnds(c)

WriteFiber(c) == WritePacket(c) \/ WriteEnds(c) \/ ReleaseContext(c)

EndpointFiber == EndpointAssert \/ EndpointCancel \/ EndpointFails

WriteEndpointFiber == WriteEndpointPasses \/ WriteEndpointDrops \/ WriteEndpointEnds

Next ==
    \/ \E i \in Instances : ServiceStep(i)
    \/ SignalStep
    \/ \E c \in Client :
          \/ ClientAsserts(c)
          \/ ClientCancels(c)
          \/ ClientCloses(c)
          \/ MainFiber(c)
          \/ WriteFiber(c)
    \/ EndpointFiber
    \/ WriteEndpointFiber
    \/ Announce
    \/ SendOdd
    \/ Stopped
    \/ CanonizationEnds
    \/ SupervisorEnds

Spec == Init /\ [][Next]_vars

(* Every fiber that can go on does so in time; a blocked write ends when   *)
(* the client reads or goes.  Clients, the canonization service and stops  *)
(* are under no obligation.                                                *)
Fairness ==
    /\ \A i \in Instances : WF_vars(ServiceStep(i))
    /\ \A c \in Client : WF_vars(MainFiber(c)) /\ WF_vars(WriteFiber(c))
    /\ WF_vars(EndpointFiber)
    /\ WF_vars(WriteEndpointFiber)

FairSpec == Spec /\ Fairness

-----------------------------------------------------------------------------
(* Properties. *)

(* Every variable has the shape that the code gives it. *)
TypeOK ==
    /\ latest \in Block \cup {ZeroBlock}
    /\ \A i \in Instances :
          /\ inst[i].caps \subseteq Caps
          /\ inst[i].fiber \in {"reading", "updating", "ended"}
          /\ \A a \in inst[i].assertions : a.offset \in Nat
    /\ signal \in {"none", "raised", "quiesced", "terminated"}
    /\ \A c \in Client :
          /\ conn[c].main \in {"reading", "asserting", "cancelling", "ended"}
          /\ conn[c].write \in {"waiting", "ended"}
          /\ Len(asked[c]) <= MaxEvents
    /\ DOMAIN clientMap \subseteq Client
    /\ DOMAIN serverMap \subseteq 1 .. counter

(* No instance keeps an assertion about a block that is not the latest: a  *)
(* block update empties the trees of all instances in the same step in     *)
(* which it changes latest_block_id (dispatch_block_update).               *)
StaleNeverHeld ==
    \A i \in Instances : \A a \in inst[i].assertions : a.block = latest

(* As long as the endpoint has a fiber, and so its maps, every assertion   *)
(* that the notification service holds or has still to read has its way    *)
(* back: its offset is in the server map.  The two maps are the inverse of *)
(* each other (xlat_map_add, lookup_return_address_from_offset).           *)
HeldIsTranslated ==
    /\ Served =>
          /\ \A a \in inst["protocol"].assertions : a.offset \in DOMAIN serverMap
          /\ \A r \in Range(wire["protocol"].req) :
                r.method = "BLOCK_ASSERTION" => r.offset \in DOMAIN serverMap
    /\ \A c \in DOMAIN clientMap :
          clientMap[c] \in DOMAIN serverMap /\ serverMap[clientMap[c]].client = c
    /\ \A n \in DOMAIN serverMap :
          serverMap[n].client \in DOMAIN clientMap /\ clientMap[serverMap[n].client] = n

(* A client never receives two packets for one offset, although a cancel   *)
(* is answered under the offset of the assertion and the notification      *)
(* service may answer both the assertion and its cancel.                   *)
AnsweredOnce ==
    \A c \in Client : \A j, k \in DOMAIN answers[c] :
       answers[c][j].offset = answers[c][k].offset => j = k

(* An assertion about the id that the notification service had is only     *)
(* invalidated when there is a later block.                                *)
InvalidationJustified ==
    \A c \in Client : \A p \in Range(answers[c]) :
       (p.id = "ASSERT" /\ p.status = "SUCCESS") =>
          \/ asked[c][p.offset].block < chain
          \/ asked[c][p.offset].early

Stale(c, o) ==
    /\ asked[c][o].kind = "ASSERT"
    /\ asked[c][o].block < latest

Answered(c, o) == \E p \in Range(answers[c]) : p.offset = o

(* Once a block has a successor, every assertion about it is answered,     *)
(* unless the client goes, the services stop, or a fiber of the endpoint   *)
(* has ended.  All of these are for ever, so that it is enough that again  *)
(* and again no such assertion is open.                                    *)
StaleAnswered ==
    []<>(\A c \in Client : \A o \in DOMAIN asked[c] :
            Stale(c, o) => \/ Answered(c, o) \/ ~conn[c].peer
                           \/ signal # "none" \/ ~endpoint \/ ~writer)

(* The same without the last exception: whoever asserts a block id that is *)
(* not the latest receives an invalidation, as the API of the notification *)
(* service says, whatever other clients do.                                *)
AssertionInvalidated ==
    []<>(\A c \in Client : \A o \in DOMAIN asked[c] :
            Stale(c, o) => Answered(c, o) \/ ~conn[c].peer \/ signal # "none")
=============================================================================
