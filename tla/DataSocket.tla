----------------------------- MODULE DataSocket -----------------------------
(***************************************************************************)
(* The event loop of a data service process: its callbacks read requests   *)
(* from the socket, dispatch them and write the responses.  The client     *)
(* sends several requests before it reads a response, as the data service  *)
(* endpoint of the protocol service does, and counts on their order.       *)
(*                                                                         *)
(* The requests are those of DataContexts.  A callback is interrupted only *)
(* by what the client does, so each call of the kernel is a step.          *)
(***************************************************************************)
EXTENDS DataContexts, Ipc, Functions

CONSTANTS
    Requests,           \* the requests that the client makes: [op, caps, index]
    MaxOutstanding      \* how many requests it makes before it waits for a response

ASSUME RequestsAssumption ==
    \A r \in Requests : r.caps \in SUBSET Cap /\ r.index \in Index

VARIABLES
    pc,            \* "loop" in libevent, else where dataservice_ipc_read is
    request,       \* the request that was read last
    force_exit,    \* dataservice_force_exit
    client,        \* [calls, unsent, inbuf] of the client
    answered       \* history: the responses written that the client has not read

contextVars == <<apicaps, children, child_head, running, reply>>
socketVars == <<contextVars, ipcVars, pc, request, force_exit, client, answered>>

NoRequest == [op |-> "none", caps |-> {}, index |-> 0]

SocketInit ==
    /\ Init
    /\ IpcInit
    /\ pc = "loop" /\ request = NoRequest /\ force_exit = FALSE
    /\ client = [calls |-> <<>>, unsent |-> <<>>, inbuf |-> <<>>]
    /\ answered = <<>>

-----------------------------------------------------------------------------
\* The data service.

DataserviceExitEventLoop == force_exit' = TRUE /\ ExitLoop

Stay == UNCHANGED <<force_exit, exit>>

\* Faulty variant: the write callback is left to the next write.
EndIpcReadQuiet(s) == pc' = "loop" /\ sock' = s /\ UNCHANGED active

\* The read callback ends: the write callback is fired up if there is data to write.
EndIpcRead(s) ==
    /\ pc' = "loop"
    /\ IF s.writebuf # <<>> THEN SetWritecb(s) ELSE sock' = s /\ UNCHANGED active

\* ipc_event_loop_cb calls dataservice_ipc_read.
BeginIpcRead ==
    /\ pc = "loop" /\ "read" \in active
    /\ active' = active \ {"read"}
    /\ pc' = IF force_exit THEN "loop" ELSE "read"
    /\ UNCHANGED <<contextVars, sock, incoming, outgoing, peer, exit, request, force_exit,
                   client, answered>>

\* ipc_read_data_noblock at the top of the loop.
IpcRead ==
    /\ pc = "read"
    /\ \E n \in Readable :
        LET buf == sock.readbuf \o SubSeq(incoming, 1, n)
            status == IF AtEnd THEN "EVBUFFER_EOF" ELSE ReadStatus(buf)
            read == [sock EXCEPT !.readbuf = buf]
        IN  /\ incoming' = SubSeq(incoming, n + 1, Len(incoming))
            /\ \/ /\ status = "SUCCESS"
                  /\ request' = FirstData(buf)[1]
                  /\ sock' = [sock EXCEPT !.readbuf = Drained(buf)]
                  /\ pc' = "dispatch"
                  /\ Stay /\ UNCHANGED active
               \/ /\ status = "WOULD_BLOCK"
                  /\ EndIpcRead(read)
                  /\ Stay /\ UNCHANGED request
               \/ /\ status \notin {"SUCCESS", "WOULD_BLOCK"}
                  /\ EndIpcRead(read)
                  /\ DataserviceExitEventLoop /\ UNCHANGED request
    /\ UNCHANGED <<contextVars, outgoing, peer, client, answered>>

\* The operation that a request asks for.
Perform(r) ==
    \/ r.op = "root_init" /\ RootContextInit
    \/ r.op = "reduce_caps" /\ RootContextReduceCapabilities(r.caps)
    \/ r.op = "child_create" /\ (ChildContextCreate(r.caps) \/ ChildContextCreateFails)
    \/ r.op = "child_close" /\ (ChildContextClose(r.index) \/ ChildContextCloseFails(r.index))

\* The response: the status, and for a new child context its index.
Response(answer) ==
    <<<<"status", answer.op, answer.status>>>>
    \o IF answer.op = "child_create" /\ answer.status = "SUCCESS"
       THEN <<<<"data", answer.index>>>> ELSE <<>>

\* The request is dispatched and its response written.  Whether or not it could be
\* written, the loop goes on while there is something in the read buffer.
Dispatch ==
    /\ pc = "dispatch"
    /\ Perform(request)
    /\ LET response == Response(reply')
           buf == Added(sock.writebuf, response)
       IN  \E n \in Writable(buf) :
            LET written == [sock EXCEPT !.writebuf = Unsent(buf, n)] IN
            /\ outgoing' = outgoing \o SubSeq(buf, 1, n)
            /\ answered' = IF peer = "open" THEN Append(answered, response) ELSE answered
            /\ IF n = 0 THEN DataserviceExitEventLoop ELSE Stay
            /\ IF sock.readbuf # <<>>
               THEN pc' = "read" /\ sock' = written /\ UNCHANGED active
               ELSE EndIpcRead(written)
    /\ request' = NoRequest
    /\ UNCHANGED <<incoming, peer, client>>

\* Faulty variant: the callback is not enabled again after a part was written.
AfterWriteOnce(s, n) == sock' = s /\ active' = active \ {"write"}

\* The callback is enabled again after a part was written, but not if the kernel had no
\* room.
AfterWrite(s, n) ==
    IF n > 0 /\ s.writebuf # <<>> THEN SetWritecb(s)
    ELSE sock' = s /\ active' = active \ {"write"}

\* dataservice_ipc_write, for whose call the event is no longer pending.  If the peer is
\* gone the loop is left, or SIGPIPE ends the process, which nobody can tell apart.
IpcWrite ==
    /\ pc = "loop" /\ "write" \in active
    /\ LET called == [sock EXCEPT !.write_ev = "called"] IN
       \/ /\ sock.writebuf # <<>>
          /\ \E n \in Writable(sock.writebuf) :
                /\ outgoing' = outgoing \o SubSeq(sock.writebuf, 1, n)
                /\ AfterWrite([called EXCEPT !.writebuf = Unsent(@, n)], n)
          /\ IF peer = "closed" THEN DataserviceExitEventLoop ELSE Stay
       \/ /\ sock.writebuf = <<>>
          /\ ClearWritecb(called)
          /\ UNCHANGED outgoing /\ Stay
    /\ UNCHANGED <<contextVars, incoming, peer, pc, request, client, answered>>

Turn == pc = "loop" /\ BeginTurn
        /\ UNCHANGED <<contextVars, pc, request, force_exit, client, answered>>

\* The loop returns and the socket is disposed of.
Leave ==
    /\ pc = "loop" /\ active = {} /\ exit = "last"
    /\ ExitEventLoop
    /\ exit' = "left" /\ sock' = Socket
    /\ UNCHANGED <<incoming, outgoing, peer, active, pc, request, force_exit, client, answered>>

\* A signal is handled as an event of the loop.
Signal == pc = "loop" /\ SignalCb
          /\ UNCHANGED <<contextVars, pc, request, force_exit, client, answered>>

Service == BeginIpcRead \/ IpcRead \/ Dispatch \/ IpcWrite \/ Turn \/ Leave

-----------------------------------------------------------------------------
\* The client.

Connected == peer = "open" /\ exit # "left"

clientStep == UNCHANGED <<contextVars, sock, active, exit, pc, request, force_exit>>

Call ==
    /\ Connected
    /\ Len(client.calls) < MaxOutstanding
    /\ \E r \in Requests :
        client' = [client EXCEPT !.calls = Append(@, r), !.unsent = @ \o Frame(<<r>>)]
    /\ clientStep /\ UNCHANGED <<incoming, outgoing, peer, answered>>

SendSome ==
    /\ Connected
    /\ \E n \in 1 .. Len(client.unsent) :
        /\ Len(incoming) + n <= Capacity
        /\ incoming' = incoming \o SubSeq(client.unsent, 1, n)
        /\ client' = [client EXCEPT !.unsent = SubSeq(@, n + 1, Len(@))]
    /\ clientStep /\ UNCHANGED <<outgoing, peer, answered>>

ReadSome ==
    /\ Connected
    /\ \E n \in 1 .. Len(outgoing) :
        /\ outgoing' = SubSeq(outgoing, n + 1, Len(outgoing))
        /\ client' = [client EXCEPT !.inbuf = @ \o SubSeq(outgoing, 1, n)]
    /\ clientStep /\ UNCHANGED <<incoming, peer, answered>>

\* A whole response is taken for the response to the oldest request.
Receive ==
    /\ Connected
    /\ ReadStatus(client.inbuf) = "SUCCESS"
    /\ client' = [client EXCEPT !.calls = Tail(@), !.inbuf = Drained(@)]
    /\ answered' = Tail(answered)
    /\ clientStep /\ UNCHANGED <<incoming, outgoing, peer>>

\* The client goes.  What it sent is still there to be read.
Close ==
    /\ Connected
    /\ peer' = "closed" /\ outgoing' = <<>>
    /\ client' = [client EXCEPT !.calls = <<>>, !.unsent = <<>>, !.inbuf = <<>>]
    /\ answered' = <<>>
    /\ clientStep /\ UNCHANGED incoming

SocketNext ==
    \/ Service \/ Signal
    \/ Call \/ SendSome \/ ReadSome \/ Receive \/ Close

\* The service and the client run: the client sends what it has begun to send and
\* reads what there is to read.
SocketSpec ==
    /\ SocketInit /\ [][SocketNext]_socketVars
    /\ WF_socketVars(Service)
    /\ WF_socketVars(SendSome) /\ WF_socketVars(ReadSome) /\ WF_socketVars(Receive)
-----------------------------------------------------------------------------
Flat(frames) ==
    LET Joined[n \in 0..Len(frames)] == IF n = 0 THEN <<>> ELSE Joined[n - 1] \o frames[n]
    IN  Joined[Len(frames)]

\* The requests that were not read yet.
Waiting ==
    SubSeq(client.calls, Len(answered) + (IF pc = "dispatch" THEN 2 ELSE 1), Len(client.calls))

\* Whatever way the streams are cut, the buffers hold whole frames in order: the next
\* response that the client reads answers its oldest request, and what it sent and is
\* not read yet are the requests after the ones answered.
\* (ipc_read_data_noblock, ipc_write_data_noblock, dataservice_ipc_write)
ResponsesInOrder ==
    Connected =>
        /\ Len(answered) <= Len(client.calls)
        /\ \A i \in DOMAIN answered : answered[i][1][2] = client.calls[i].op
        /\ pc = "dispatch" => request = client.calls[Len(answered) + 1]
        /\ client.inbuf \o outgoing \o sock.writebuf
             = Flat([i \in DOMAIN answered |-> Frame(answered[i])])
        /\ sock.readbuf \o incoming \o client.unsent
             = Flat([i \in DOMAIN Waiting |-> Frame(<<Waiting[i]>>)])

\* When the loop waits for the kernel, no whole request is left in the read buffer, for
\* which no event would come, and a response that is not sent has its write event.
\* (dataservice_ipc_read, ipc_set_writecb_noblock)
NothingStranded ==
    pc = "loop" /\ active = {} /\ exit = "no" =>
        /\ ReadStatus(sock.readbuf) = "WOULD_BLOCK"
        /\ sock.writebuf # <<>> => sock.write_ev = "pending"

\* Only a signal, the end of the client, or a response for which the kernel has no room
\* at all makes the service leave its loop; a frame in pieces does not.
LeavesForCause ==
    [][exit = "no" /\ exit' # "no" => Signal \/ peer = "closed" \/ Space = 0]_socketVars

\* Every request is answered, unless the client goes or the service leaves its loop:
\* while there are requests that wait, responses keep coming.
\* (dataservice_ipc_read, dataservice_ipc_write)
RequestsServed ==
    \/ <>(exit # "no" \/ peer = "closed")
    \/ []<>(client.calls = <<>>)
    \/ []<><<Receive>>_socketVars
=============================================================================
