----------------------------- MODULE GcdBroker ------------------------------
(***************************************************************************)
(* gcdbroker while it is running: the single guacd_send_handler thread that *)
(* dials guacd, writes to every guacd connection and relays verdicts; one  *)
(* detached guacd_read_handler thread per connection; the channel table    *)
(* they share; and the two queues that the UDP threads fill and empty.     *)
(*                                                                         *)
(* A step ends wherever another thread can intervene: at every call on the *)
(* table (its mutex), on a queue, and on a socket.  File descriptors are   *)
(* handed out by the kernel and handed out again once closed.              *)
(*                                                                         *)
(* Payloads are not told apart: "guac" is any Guacamole text, from the     *)
(* browser, from guacd, or a faked sync acknowledgement.                   *)
(***************************************************************************)
EXTENDS Wire

CONSTANTS
    Fd,            \* descriptors for guacd connections
    NoFd,          \* "no descriptor"
    QueueCap       \* queue length up to which input is taken in

ASSUME GcdAssumption ==
    /\ Channel # {}
    /\ NoFd \notin Fd
    /\ QueueCap \in Nat

VARIABLES
    table,       \* ChannelTable: channel -> descriptor
    conn,        \* socket: "free", "open", "eof" (guacd closed), "shut" (shutdown(2))
    reader,      \* reader thread of a descriptor: "none", "read", "remove",
                 \* "announce" (it removed the binding), "close"
    channelOf,   \* the channel the reader captured
    last_ack,    \* does the reader hold a sync to repeat as a keepalive?
    recv_queue,  \* to the send handler: from the bridge, and acks from readers
    send_queue,  \* to the bridge
    handler,     \* where the send handler is: "idle", "send", "shut", "relay"
    msg,         \* the message it is handling
    fd,          \* the descriptor it looked up, or removed and is to shut down
    notice       \* history: how gmlbroker hears of the end of a connection

vars == <<table, conn, reader, channelOf, last_ack, recv_queue, send_queue,
          handler, msg, fd, notice>>

handlerVars == <<handler, msg, fd>>
readerVars == <<conn, reader, channelOf, last_ack>>

Init ==
    /\ table = [ch \in Channel |-> NoFd]
    /\ conn = [d \in Fd |-> "free"]
    /\ reader = [d \in Fd |-> "none"]
    /\ channelOf \in [Fd -> Channel]
    /\ last_ack = [d \in Fd |-> FALSE]
    /\ recv_queue = <<>>
    /\ send_queue = <<>>
    /\ handler = "idle"
    /\ msg = Malformed
    /\ fd = NoFd
    /\ notice = [d \in Fd |-> "due"]

(* Messages on the two queues.                                              *)
Msg ==
    [action : {"NONE", "CREATE", "APPROVAL", "SHUTDOWN"},
     channel : Channel,
     verdict : {"-", APPROVAL_APPROVE, APPROVAL_DENY},
     data : Id \cup {"guac", "-"}]

-----------------------------------------------------------------------------
(* The queues and the table.                                                *)

(* The queues are unbounded and never block a producer.  QueueCap bounds    *)
(* what arrives from outside; whatever the threads owe is always accepted.  *)
Room(q) == Len(q) < QueueCap

(* The history of a connection: no SHUTDOWN on its channel was queued since *)
(* it was dialled ("due"), one was ("sent"), a failed write unbound it      *)
(* before one was ("skipped"), or it was dialled while an earlier reader    *)
(* still served the channel ("hasty").                                      *)
Notice == {"due", "sent", "skipped", "hasty"}

(* send_queue.Enqueue; the history variable records the SHUTDOWNs.          *)
Enqueue(f) ==
    /\ send_queue' = Append(send_queue, f)
    /\ notice' = [d \in Fd |->
                     IF f = Shutdown(channelOf[d]) /\ reader[d] # "none"
                          /\ notice[d] # "hasty"
                     THEN "sent" ELSE notice[d]]

Remove(ch) == table' = [table EXCEPT ![ch] = NoFd]

(* GuacdClient::Shutdown; a descriptor that is closed by now stays closed.  *)
ShutdownFd(d) ==
    conn' = [conn EXCEPT ![d] = IF @ \in {"open", "eof"} THEN "shut" ELSE @]

-----------------------------------------------------------------------------
(* The UDP threads.                                                         *)

(* What the guard may send: it forwards CREATE, and issues the others.      *)
Inbound ==
    {Create(ch, id) : ch \in Channel, id \in Id}
    \cup {Approval(ch, v, id) : ch \in Channel, id \in Id,
                                v \in {APPROVAL_APPROVE, APPROVAL_DENY}}
    \cup {Shutdown(ch) : ch \in Channel}
    \cup {None(ch, "guac") : ch \in Channel}

UdpReceive(f) ==
    /\ Room(recv_queue) /\ Room(send_queue)
    /\ recv_queue' = Append(recv_queue, f)
    /\ UNCHANGED <<table, readerVars, send_queue, handlerVars, notice>>

UdpSend ==
    /\ send_queue # <<>>
    /\ send_queue' = Tail(send_queue)
    /\ UNCHANGED <<table, readerVars, recv_queue, handlerVars, notice>>

-----------------------------------------------------------------------------
(* The send handler.                                                        *)

(* CREATE: wait for the verdict.                                            *)
HandleCreate(f) ==
    /\ f.action = "CREATE"
    /\ UNCHANGED <<table, readerVars, send_queue, handlerVars, notice>>

(* A verdict to relay as it stands.                                         *)
Relay(f) ==
    /\ handler' = "relay"
    /\ msg' = f
    /\ fd' = NoFd

HandleDenial(f) ==
    /\ f.action = "APPROVAL" /\ f.verdict # APPROVAL_APPROVE
    /\ Relay(f)
    /\ UNCHANGED <<table, readerVars, send_queue, notice>>

(* Approved, guacd answered and the channel is not bound: bind it and start *)
(* the reader, and only then relay the verdict.                             *)
Dial(f) ==
    /\ f.action = "APPROVAL" /\ f.verdict = APPROVAL_APPROVE
    /\ table[f.channel] = NoFd
    /\ \E d \in {e \in Fd : conn[e] = "free"} :
          /\ table' = [table EXCEPT ![f.channel] = d]
          /\ conn' = [conn EXCEPT ![d] = "open"]
          /\ reader' = [reader EXCEPT ![d] = "read"]
          /\ channelOf' = [channelOf EXCEPT ![d] = f.channel]
          /\ notice' = [notice EXCEPT ![d] =
                           IF \E e \in Fd : /\ reader[e] # "none"
                                            /\ channelOf[e] = f.channel
                           THEN "hasty" ELSE "due"]
    /\ Relay(f)
    /\ UNCHANGED <<last_ack, send_queue>>

(* guacd refused, or the channel is bound already (the new connection is    *)
(* closed again): the relayed verdict becomes a denial.                     *)
DialFailed(f) ==
    /\ f.action = "APPROVAL" /\ f.verdict = APPROVAL_APPROVE
    /\ Relay([f EXCEPT !.verdict = APPROVAL_DENY])
    /\ UNCHANGED <<table, readerVars, send_queue, notice>>

(* table.Remove by the handler.  A descriptor that it finds is the next     *)
(* thing to shut down; without one the handler goes on.                     *)
Unbind(ch, f) ==
    /\ Remove(ch)
    /\ table[ch] # NoFd
    /\ handler' = "shut"
    /\ msg' = f
    /\ fd' = table[ch]

(* Mutant: the connection is unbound but not shut down.                     *)
HandleShutdown_NoWake(f) ==
    /\ f.action = "SHUTDOWN"
    /\ Remove(f.channel)
    /\ Relay(Shutdown(f.channel))
    /\ UNCHANGED <<readerVars, send_queue, notice>>

HandleShutdown(f) ==
    /\ f.action = "SHUTDOWN"
    /\ \/ Unbind(f.channel, Shutdown(f.channel))
       \/ table[f.channel] = NoFd /\ UNCHANGED table /\ Relay(Shutdown(f.channel))
    /\ UNCHANGED <<readerVars, send_queue, notice>>

DropUndialled(f) ==
    /\ f.action = "NONE" /\ table[f.channel] = NoFd
    /\ UNCHANGED <<table, readerVars, send_queue, handlerVars, notice>>

(* Mutant: the lookup finds the binding of whatever channel comes first.    *)
LookUp_AnyChannel(f) ==
    /\ f.action = "NONE"
    /\ \E ch \in Channel : table[ch] # NoFd /\ fd' = table[ch]
    /\ handler' = "send"
    /\ msg' = f
    /\ UNCHANGED <<table, readerVars, send_queue, notice>>

LookUp(f) ==
    /\ f.action = "NONE" /\ table[f.channel] # NoFd
    /\ handler' = "send"
    /\ msg' = f
    /\ fd' = table[f.channel]
    /\ UNCHANGED <<table, readerVars, send_queue, notice>>

Take ==
    /\ handler = "idle"
    /\ recv_queue # <<>>
    /\ recv_queue' = Tail(recv_queue)
    /\ LET f == Head(recv_queue)
       IN  \/ HandleCreate(f)
           \/ HandleDenial(f)
           \/ Dial(f)
           \/ DialFailed(f)
           \/ HandleShutdown(f)
           \/ DropUndialled(f)
           \/ LookUp(f)

(* Back to recv_queue.Dequeue.                                              *)
Done == handler' = "idle" /\ msg' = Malformed /\ fd' = NoFd

(* send_queue.Enqueue of a verdict, or of the echo of a SHUTDOWN.           *)
RelayMessage ==
    /\ handler = "relay"
    /\ Enqueue(msg)
    /\ Done
    /\ UNCHANGED <<table, readerVars, recv_queue>>

WriteSucceeds ==
    /\ handler = "send"
    /\ conn[fd] \in {"open", "eof"}
    /\ Done
    /\ UNCHANGED <<table, readerVars, recv_queue, send_queue, notice>>

(* The write failed: the reader has closed the descriptor, guacd reset the  *)
(* connection, or the send timeout of a stalled guacd ran out.  Unbind the  *)
(* channel and shut its connection down, but queue no SHUTDOWN.             *)
WriteFails ==
    /\ handler = "send"
    /\ \/ Unbind(msg.channel, msg)
       \/ table[msg.channel] = NoFd /\ UNCHANGED table /\ Done
    /\ notice' = [d \in Fd |->
                     IF d = table[msg.channel] /\ notice[d] = "due"
                     THEN "skipped" ELSE notice[d]]
    /\ UNCHANGED <<readerVars, recv_queue, send_queue>>

(* The connection that the handler unbound is shut down, which wakes its    *)
(* reader; a SHUTDOWN is then echoed, a payload is dropped.                 *)
ShutConnection ==
    /\ handler = "shut"
    /\ ShutdownFd(fd)
    /\ \/ msg.action = "SHUTDOWN" /\ Relay(msg)
       \/ msg.action # "SHUTDOWN" /\ Done
    /\ UNCHANGED <<table, reader, channelOf, last_ack, recv_queue, send_queue,
                   notice>>

(* guacd closed the connection and answered an earlier write with a reset:  *)
(* send raises SIGPIPE, which gcdbroker does not ignore, so the process     *)
(* ends and its supervisor starts it again, with nothing of what it knew.   *)
WriteKills ==
    /\ handler = "send"
    /\ conn[fd] = "eof"
    /\ table' = [ch \in Channel |-> NoFd]
    /\ conn' = [d \in Fd |-> "free"]
    /\ reader' = [d \in Fd |-> "none"]
    /\ last_ack' = [d \in Fd |-> FALSE]
    /\ recv_queue' = <<>>
    /\ send_queue' = <<>>
    /\ notice' = [d \in Fd |-> "due"]
    /\ Done
    /\ UNCHANGED channelOf

Handler ==
    \/ Take \/ RelayMessage \/ ShutConnection
    \/ WriteSucceeds \/ WriteFails \/ WriteKills

-----------------------------------------------------------------------------
(* The reader of descriptor d.                                              *)

(* The acknowledgements that SyncFaker finds due for a read of d: an echo   *)
(* of each sync in it, one chunk for all of them.                           *)
Feed(d, sync) == IF sync THEN <<None(channelOf[d], "guac")>> ELSE <<>>

(* guacd sent something; if it held a sync, its acknowledgement goes back   *)
(* through recv_queue.  No thread sees both queues, so the two calls are    *)
(* one step.  What was received before the connection was closed or shut    *)
(* down may be queued after it.                                             *)
ReadData(d, sync) ==
    /\ reader[d] = "read"
    /\ Room(recv_queue) /\ Room(send_queue)
    /\ Enqueue(None(channelOf[d], "guac"))
    /\ recv_queue' = recv_queue \o Feed(d, sync)
    /\ last_ack' = [last_ack EXCEPT ![d] = @ \/ sync]
    /\ UNCHANGED <<table, conn, reader, channelOf, handlerVars>>

(* The receive timed out, or data without a sync came: a keepalive is due.  *)
Keepalive(d) ==
    /\ reader[d] = "read"
    /\ last_ack[d]
    /\ Room(recv_queue)
    /\ recv_queue' = Append(recv_queue, None(channelOf[d], "guac"))
    /\ UNCHANGED <<table, readerVars, send_queue, handlerVars, notice>>

(* Mutant: an error of recv is taken for the receive timeout.               *)
ReadEnds_EofOnly(d) ==
    /\ reader[d] = "read" /\ conn[d] = "eof"
    /\ reader' = [reader EXCEPT ![d] = "remove"]
    /\ UNCHANGED <<table, conn, channelOf, last_ack, recv_queue, send_queue,
                   handlerVars, notice>>

(* recv returns 0 or an error.                                              *)
ReadEnds(d) ==
    /\ reader[d] = "read" /\ conn[d] \in {"eof", "shut"}
    /\ reader' = [reader EXCEPT ![d] = "remove"]
    /\ UNCHANGED <<table, conn, channelOf, last_ack, recv_queue, send_queue,
                   handlerVars, notice>>

(* Mutant: the table keeps the binding of a connection that is closed.      *)
ReaderRemoves_Keeps(d) ==
    /\ reader[d] = "remove"
    /\ reader' = [reader EXCEPT ![d] = IF table[channelOf[d]] # NoFd
                                       THEN "announce" ELSE "close"]
    /\ UNCHANGED <<table, conn, channelOf, last_ack, recv_queue, send_queue,
                   handlerVars, notice>>

(* Whoever removes the binding announces the SHUTDOWN.                      *)
ReaderRemoves(d) ==
    /\ reader[d] = "remove"
    /\ Remove(channelOf[d])
    /\ reader' = [reader EXCEPT ![d] = IF table[channelOf[d]] # NoFd
                                       THEN "announce" ELSE "close"]
    /\ UNCHANGED <<conn, channelOf, last_ack, recv_queue, send_queue,
                   handlerVars, notice>>

(* Mutant: a close by guacd is not announced.                               *)
ReaderAnnounces_Silent(d) ==
    /\ reader[d] = "announce"
    /\ reader' = [reader EXCEPT ![d] = "close"]
    /\ UNCHANGED <<table, conn, channelOf, last_ack, recv_queue, send_queue,
                   handlerVars, notice>>

(* send_queue.Enqueue of that SHUTDOWN.                                     *)
ReaderAnnounces(d) ==
    /\ reader[d] = "announce"
    /\ Enqueue(Shutdown(channelOf[d]))
    /\ reader' = [reader EXCEPT ![d] = "close"]
    /\ UNCHANGED <<table, conn, channelOf, last_ack, recv_queue, handlerVars>>

ReaderCloses(d) ==
    /\ reader[d] = "close"
    /\ conn' = [conn EXCEPT ![d] = "free"]
    /\ reader' = [reader EXCEPT ![d] = "none"]
    /\ last_ack' = [last_ack EXCEPT ![d] = FALSE]
    /\ notice' = [notice EXCEPT ![d] = "due"]
    /\ UNCHANGED <<table, channelOf, recv_queue, send_queue, handlerVars>>

ReaderExits(d) ==
    ReadEnds(d) \/ ReaderRemoves(d) \/ ReaderAnnounces(d) \/ ReaderCloses(d)

(* External: guacd closes the connection.                                   *)
GuacdCloses(d) ==
    /\ conn[d] = "open"
    /\ conn' = [conn EXCEPT ![d] = "eof"]
    /\ UNCHANGED <<table, reader, channelOf, last_ack, recv_queue, send_queue,
                   handlerVars, notice>>

-----------------------------------------------------------------------------
Next ==
    \/ \E f \in Inbound : UdpReceive(f)
    \/ UdpSend
    \/ Handler
    \/ \E d \in Fd :
          \/ \E sync \in BOOLEAN : ReadData(d, sync)
          \/ Keepalive(d)
          \/ ReaderExits(d)
          \/ GuacdCloses(d)

Spec == Init /\ [][Next]_vars

(* The threads are scheduled, and each call they make returns: sends time   *)
(* out (SO_SNDTIMEO), receives time out (SO_RCVTIMEO), queues do not block  *)
(* a producer.                                                              *)
FairSpec ==
    /\ Spec
    /\ WF_vars(UdpSend)
    /\ WF_vars(Handler)
    /\ \A d \in Fd : WF_vars(ReaderExits(d))

-----------------------------------------------------------------------------
(* Properties.                                                              *)

(* Every variable stays in its range.                                       *)
TypeOK ==
    /\ table \in [Channel -> Fd \cup {NoFd}]
    /\ conn \in [Fd -> {"free", "open", "eof", "shut"}]
    /\ reader \in [Fd -> {"none", "read", "remove", "announce", "close"}]
    /\ channelOf \in [Fd -> Channel]
    /\ last_ack \in [Fd -> BOOLEAN]
    /\ recv_queue \in Seq(Msg)
    /\ send_queue \in Seq(Msg)
    /\ handler \in {"idle", "send", "shut", "relay"}
    /\ msg \in Msg \cup {Malformed}
    /\ handler # "idle" => msg \in Msg
    /\ fd \in Fd \cup {NoFd}
    /\ handler \in {"send", "shut"} => fd \in Fd
    /\ notice \in [Fd -> Notice]

(* A channel is bound only to a descriptor that is open and whose reader    *)
(* serves that very channel: "the reader is the sole owner of close() for   *)
(* its fd", and it unbinds the channel first, so a recycled descriptor is   *)
(* never reached through a stale binding.                                   *)
BoundToOwnReader ==
    \A ch \in Channel :
        table[ch] # NoFd =>
            /\ channelOf[table[ch]] = ch
            /\ reader[table[ch]] \in {"read", "remove"}
            /\ conn[table[ch]] # "free"

(* Between table.Get and the write, and between table.Remove and the        *)
(* shutdown, the reader may close the descriptor, but the number cannot     *)
(* have been recycled for another channel: a payload is never written to    *)
(* another channel's guacd, and no other channel's guacd is shut down.      *)
WritesToOwnConnection ==
    handler \in {"send", "shut"} =>
        \/ conn[fd] = "free"
        \/ channelOf[fd] = msg.channel

(* A SHUTDOWN of the channel of d has been queued since d was dialled, or   *)
(* is about to be.                                                          *)
Announced(d) ==
    \/ notice[d] = "sent"
    \/ handler \in {"shut", "relay"} /\ msg = Shutdown(channelOf[d])

(* A connection whose reader leaves was announced as shut down to           *)
(* gmlbroker, by the reader or by the echo of the peer's SHUTDOWN, unless   *)
(* its channel was reused while an earlier reader still served it.          *)
CloseAnnounced ==
    \A d \in Fd : reader[d] = "close" => Announced(d) \/ notice[d] = "hasty"

(* A failed write is the only way for a connection to end unannounced: the  *)
(* handler removes the binding whose presence makes the reader announce.    *)
OnlyFailedWritesAreSilent ==
    \A d \in Fd :
        reader[d] = "close" => Announced(d) \/ notice[d] \in {"hasty", "skipped"}

(* A guacd session that is still open can be reached through the table, so  *)
(* a SHUTDOWN ends it, or the handler is shutting it down; unless its       *)
(* channel was reused while an earlier reader still served it: that reader  *)
(* unbinds the newer session.                                               *)
OpenSessionIsBound ==
    \A d \in Fd :
        conn[d] = "open" =>
            \/ table[channelOf[d]] = d
            \/ handler = "shut" /\ fd = d
            \/ notice[d] = "hasty"

(* A reader that leaves removes its own binding, or finds it removed        *)
(* already: only the first to remove a channel announces its end.  Refuted: *)
(* a late reader meets the binding of the channel's next session.           *)
RemovesOwnBinding ==
    \A d \in Fd : reader[d] = "remove" => table[channelOf[d]] \in {d, NoFd}

(* "Only that channel is torn down": a write that fails leaves the sessions *)
(* of the other channels as they are.  Refuted: SIGPIPE (WriteKills).       *)
OthersHealthy ==
    [][\A d \in Fd : handler = "send" /\ conn[d] = "open" /\ d # fd
                        => conn'[d] # "free"]_vars

(* Once guacd or the bridge has ended a connection its descriptor is closed.*)
EndedIsClosed ==
    \A d \in Fd : conn[d] \in {"eof", "shut"} ~> conn[d] = "free"

=============================================================================
