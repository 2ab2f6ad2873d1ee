-------------------------------- MODULE Ipc --------------------------------
(***************************************************************************)
(* A non-blocking socket and the event loop that serves it, as the data    *)
(* service uses them.  The kernel holds a bounded stream of units in       *)
(* either direction; a frame may be cut between any two of them.           *)
(*                                                                         *)
(* libevent is external.  Its loop looks for ready events, then calls the  *)
(* callback of each.  An event that is freed in between is not called, and *)
(* a write event is pending for one call only.                             *)
(***************************************************************************)
EXTENDS Naturals, Sequences

CONSTANT Capacity       \* units that the kernel holds in one direction

ASSUME CapacityAssumption == Capacity \in Nat \ {0}

VARIABLES
    sock,        \* [readbuf, writebuf, write_ev] of ipc_socket_impl_t
    incoming,    \* what the kernel holds for the socket
    outgoing,    \* what the kernel holds for its peer
    peer,        \* whether the peer is there
    active,      \* events whose callbacks are to be called in this turn of the loop
    exit         \* whether the loop was asked to exit, is in its last turn, or is left

ipcVars == <<sock, incoming, outgoing, peer, active, exit>>

\* ipc_make_noblock and ipc_event_loop_add: buffers and a persistent read event, but
\* no write event.
Socket == [readbuf |-> <<>>, writebuf |-> <<>>, write_ev |-> "none"]

IpcInit ==
    /\ sock = Socket
    /\ incoming = <<>> /\ outgoing = <<>> /\ peer = "open"
    /\ active = {} /\ exit = "no"

-----------------------------------------------------------------------------
\* Frames.

DataPacket == "IPC_DATA_TYPE_DATA_PACKET"

\* sizeof(uint32_t) + sizeof(uint32_t)
HeaderSize == 2

\* What ipc_write_data_noblock adds to the write buffer: the type, the size, the data.
Frame(val) == <<<<"type", DataPacket>>, <<"size", Len(val)>>>> \o val

\* What ipc_read_data_noblock makes of the read buffer.
ReadStatus(readbuf) ==
    IF Len(readbuf) < HeaderSize THEN "WOULD_BLOCK"
    ELSE IF readbuf[1] # <<"type", DataPacket>> THEN "UNEXPECTED_DATA_TYPE"
    ELSE IF readbuf[2] = <<"size", 0>> THEN "UNEXPECTED_DATA_SIZE"
    ELSE IF Len(readbuf) < readbuf[2][2] + HeaderSize THEN "WOULD_BLOCK"
    ELSE "SUCCESS"

\* The data of the first frame, and what is left when it is drained and removed.
FirstData(readbuf) == SubSeq(readbuf, HeaderSize + 1, HeaderSize + readbuf[2][2])
Drained(readbuf) == SubSeq(readbuf, HeaderSize + readbuf[2][2] + 1, Len(readbuf))

\* evbuffer_read takes some of what there is.
Readable == IF incoming = <<>> THEN {0} ELSE 1 .. Len(incoming)

\* The stream is at its end, or the peer is gone and the socket has an error.
AtEnd == incoming = <<>> /\ peer = "closed"

Space == Capacity - Len(outgoing)

\* evbuffer_write sends some of the buffer, or fails: the kernel has no room (EAGAIN),
\* or there is no peer.
Writable(writebuf) ==
    IF peer = "closed" \/ Space = 0 THEN {0}
    ELSE 1 .. IF Len(writebuf) < Space THEN Len(writebuf) ELSE Space

Unsent(writebuf, n) == SubSeq(writebuf, n + 1, Len(writebuf))

\* Faulty variant: the new frame overtakes what is still in the buffer.
AddedAhead(writebuf, val) == Frame(val) \o writebuf

\* The write buffer when ipc_write_data_noblock has added to it.
Added(writebuf, val) == writebuf \o Frame(val)

-----------------------------------------------------------------------------
\* The event loop.

\* ipc_set_writecb_noblock: the event is freed, also if it waits to be called, and a new
\* one is added unless the callback is cleared.
SetWritecb(s) == sock' = [s EXCEPT !.write_ev = "pending"] /\ active' = active \ {"write"}
ClearWritecb(s) == sock' = [s EXCEPT !.write_ev = "none"] /\ active' = active \ {"write"}

\* ipc_exit_loop: the loop exits after its next turn.
ExitLoop == exit' = IF exit = "no" THEN "asked" ELSE exit

ReadyEvents ==
    {e \in {"read", "write"} :
        CASE e = "read" -> incoming # <<>> \/ peer = "closed"
          [] e = "write" -> sock.write_ev = "pending" /\ (Space > 0 \/ peer = "closed")}

\* A turn begins.  It waits for an event unless the loop is to exit.
BeginTurn ==
    /\ active = {}
    /\ exit \in {"no", "asked"}
    /\ ReadyEvents # {} \/ exit = "asked"
    /\ active' = ReadyEvents
    /\ exit' = IF exit = "asked" THEN "last" ELSE "no"
    /\ UNCHANGED <<sock, incoming, outgoing, peer>>

\* ipc_signal_cb
SignalCb ==
    /\ exit = "no"
    /\ ExitLoop
    /\ UNCHANGED <<sock, incoming, outgoing, peer, active>>
=============================================================================
