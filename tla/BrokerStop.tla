----------------------------- MODULE BrokerStop -----------------------------
(***************************************************************************)
(* How a broker stops.  gmlbroker and gcdbroker share the protocol: SIGINT *)
(* clears `running`, the producers of recv_queue fall out of their loops,  *)
(* main closes recv_queue and joins the handler thread, shuts down every   *)
(* connection in the table, waits for the detached readers (ReaderGroup),  *)
(* closes send_queue, joins the UDP sender and returns, which destroys the *)
(* queues, the table and the sockets.                                      *)
(*                                                                         *)
(* They differ in who starts the readers (gmlbroker's accept thread,       *)
(* gcdbroker's handler) and in whether a reader writes to its socket       *)
(* (gmlbroker's does, and may block there).  Messages are only counted.    *)
(***************************************************************************)
EXTENDS Naturals, FiniteSets

CONSTANTS
    Reader,     \* one per connection the broker serves in its lifetime
    NoReader,
    QueueCap    \* queue length up to which input is taken in

ASSUME StopAssumption ==
    /\ IsFiniteSet(Reader)
    /\ NoReader \notin Reader
    /\ QueueCap \in Nat

Thread == {"accept", "udp_recv", "control", "handler", "udp_send"}

VARIABLES
    broker,      \* which of the two this is: "gml" or "gcd"
    running,
    main,        \* where main is
    thread,      \* "loop" (at the test of running), "work" (past it), "busy"
                 \* (holds a message), "enter", "launch" (starts a reader),
                 \* "relay", "gone"
    spawning,    \* the reader that the spawner is starting
    recv_len, recv_closed,    \* recv_queue
    send_len, send_closed,    \* send_queue
    table,       \* the connections bound in the ChannelTable
    conn,        \* "none", "open", "asked" (teardown request), "shut", "closed"
    fds,         \* main's snapshot of the table, as far as not yet shut down
    count,       \* ReaderGroup
    reader       \* "none", "run" (at the test), "recv", "write", then
                 \* "remove", "announce", "close", "leave", "notify", "gone"

queues == <<recv_len, recv_closed, send_len, send_closed>>
vars == <<broker, running, main, thread, spawning, queues, table, conn, fds,
          count, reader>>

(* The threads that feed recv_queue or start readers, and the relay of the  *)
(* operator's switch.  gcdbroker has only the first.                        *)
Producer ==
    IF broker = "gml" THEN {"udp_recv", "accept", "control"} ELSE {"udp_recv"}

Spawner == IF broker = "gml" THEN "accept" ELSE "handler"

Init ==
    /\ broker \in {"gml", "gcd"}
    /\ running = TRUE
    /\ main = "join_producers"
    /\ thread = [t \in Thread |->
                    IF t \in Producer \cup {"handler", "udp_send"} THEN "loop"
                                                                   ELSE "gone"]
    /\ spawning = NoReader
    /\ recv_len = 0 /\ recv_closed = FALSE
    /\ send_len = 0 /\ send_closed = FALSE
    /\ table = {}
    /\ conn = [r \in Reader |-> "none"]
    /\ fds = {}
    /\ count = 0
    /\ reader = [r \in Reader |-> "none"]

At(t, from, to) ==
    /\ thread[t] = from
    /\ thread' = [thread EXCEPT ![t] = to]

-----------------------------------------------------------------------------
(* The loops of the long-lived threads.                                     *)

interrupt_handler ==
    /\ running
    /\ running' = FALSE
    /\ UNCHANGED <<broker, main, thread, spawning, queues, table, conn, fds,
                   count, reader>>

(* while (running).  What the control thread does in its loop touches       *)
(* nothing that is modelled here.                                           *)
TestRunning(t) ==
    /\ At(t, "loop", CASE ~running -> "gone"
                       [] running /\ t = "control" -> "loop"
                       [] running /\ t # "control" -> "work")
    /\ UNCHANGED <<broker, running, main, spawning, queues, table, conn, fds,
                   count, reader>>

(* A blocking call of a producer timed out, or what it returned is dropped. *)
NothingReceived(t) ==
    /\ t \in Producer
    /\ At(t, "work", "loop")
    /\ UNCHANGED <<broker, running, main, spawning, queues, table, conn, fds,
                   count, reader>>

Receive ==
    /\ At("udp_recv", "work", "loop")
    /\ recv_len < QueueCap /\ send_len < QueueCap
    /\ recv_len' = recv_len + 1
    /\ UNCHANGED <<broker, running, main, spawning, recv_closed, send_len,
                   send_closed,
                   table, conn, fds, count, reader>>

(* recv_queue.Dequeue in the handler.                                       *)
HandlerDequeue ==
    /\ recv_len > 0 \/ recv_closed
    /\ IF recv_len > 0
       THEN At("handler", "work", "busy") /\ recv_len' = recv_len - 1
       ELSE At("handler", "work", "gone") /\ UNCHANGED recv_len
    /\ UNCHANGED <<broker, running, main, spawning, recv_closed, send_len,
                   send_closed,
                   table, conn, fds, count, reader>>

(* A message that is dropped, or posted to a mailbox.                       *)
HandlerDone ==
    /\ At("handler", "busy", "loop")
    /\ UNCHANGED <<broker, running, main, spawning, queues, table, conn, fds,
                   count, reader>>

(* gcdbroker: a verdict or the echo of a SHUTDOWN.                          *)
HandlerRelays ==
    /\ broker = "gcd"
    /\ At("handler", "busy", "loop") \/ At("handler", "relay", "loop")
    /\ send_len' = send_len + 1
    /\ UNCHANGED <<broker, running, main, spawning, recv_len, recv_closed,
                   send_closed,
                   table, conn, fds, count, reader>>

(* gcdbroker: unbind the channel and shut its connection down, on a         *)
(* SHUTDOWN that is then echoed, or on a failed write.                      *)
HandlerUnbinds(r) ==
    /\ broker = "gcd"
    /\ At("handler", "busy", "relay") \/ At("handler", "busy", "loop")
    /\ r \in table
    /\ table' = table \ {r}
    /\ conn' = [conn EXCEPT ![r] = "shut"]
    /\ UNCHANGED <<broker, running, main, spawning, queues, fds, count, reader>>

(* gmlbroker: ask the reader to tear down.                                  *)
HandlerAsks(r) ==
    /\ broker = "gml"
    /\ At("handler", "busy", "loop")
    /\ conn[r] = "open"
    /\ conn' = [conn EXCEPT ![r] = "asked"]
    /\ UNCHANGED <<broker, running, main, spawning, queues, table, fds,
                   count, reader>>

(* send_queue.Dequeue in the UDP sender.                                    *)
SenderDequeue ==
    /\ send_len > 0 \/ send_closed
    /\ IF send_len > 0
       THEN At("udp_send", "work", "busy") /\ send_len' = send_len - 1
       ELSE At("udp_send", "work", "gone") /\ UNCHANGED send_len
    /\ UNCHANGED <<broker, running, main, spawning, recv_len, recv_closed,
                   send_closed,
                   table, conn, fds, count, reader>>

SenderSends ==
    /\ At("udp_send", "busy", "loop")
    /\ UNCHANGED <<broker, running, main, spawning, queues, table, conn, fds,
                   count, reader>>

-----------------------------------------------------------------------------
(* Starting a reader: bind the channel, count the reader in, launch it.     *)

Connect(r) ==
    /\ At(Spawner, IF broker = "gml" THEN "work" ELSE "busy", "enter")
    /\ conn[r] = "none"
    /\ conn' = [conn EXCEPT ![r] = "open"]
    /\ table' = table \cup {r}
    /\ spawning' = r
    /\ UNCHANGED <<broker, running, main, queues, fds, count, reader>>

Enter ==
    /\ At(Spawner, "enter", "launch")
    /\ count' = count + 1
    /\ UNCHANGED <<broker, running, main, spawning, queues, table, conn, fds,
                   reader>>

(* The accept thread goes back to its loop, gcdbroker's handler on to relay *)
(* the verdict.                                                             *)
Launch ==
    /\ At(Spawner, "launch", IF broker = "gml" THEN "loop" ELSE "relay")
    /\ reader' = [reader EXCEPT ![spawning] = "run"]
    /\ spawning' = NoReader
    /\ UNCHANGED <<broker, running, main, queues, table, conn, fds, count>>

-----------------------------------------------------------------------------
(* A reader.                                                                *)

Move(r, from, to) ==
    /\ reader[r] = from
    /\ reader' = [reader EXCEPT ![r] = to]

ReaderTests(r) ==
    /\ Move(r, "run", IF running THEN "recv" ELSE "remove")
    /\ UNCHANGED <<broker, running, main, thread, spawning, queues, table,
                   conn, fds, count>>

(* The receive times out, or returns data that is sent on, and maybe        *)
(* answered through recv_queue.                                             *)
ReaderReceives(r, data, answer) ==
    /\ Move(r, "recv", "run")
    /\ data => conn[r] \in {"open", "asked"} /\ send_len < QueueCap
    /\ answer => data /\ recv_len < QueueCap
    /\ send_len' = IF data THEN send_len + 1 ELSE send_len
    /\ recv_len' = IF answer THEN recv_len + 1 ELSE recv_len
    /\ UNCHANGED <<broker, running, main, thread, spawning, recv_closed,
                   send_closed,
                   table, conn, fds, count>>

(* gmlbroker: something to write to the browser.                            *)
ReaderWrites(r) ==
    /\ broker = "gml"
    /\ Move(r, "recv", "write")
    /\ UNCHANGED <<broker, running, main, thread, spawning, queues, table,
                   conn, fds, count>>

(* External: the browser reads; until then the write blocks.                *)
BrowserReads(r) ==
    /\ Move(r, "write", "run")
    /\ UNCHANGED <<broker, running, main, thread, spawning, queues, table,
                   conn, fds, count>>

(* The connection was shut down, the peer closed, or a teardown was asked   *)
(* for; a blocked write only ends in the first case.                        *)
ReaderEnds(r) ==
    /\ \/ Move(r, "recv", "remove")
       \/ Move(r, "write", "remove") /\ conn[r] = "shut"
    /\ conn[r] # "open"
    /\ UNCHANGED <<broker, running, main, thread, spawning, queues, table,
                   conn, fds, count>>

PeerCloses(r) ==
    /\ Move(r, "recv", "remove")
    /\ UNCHANGED <<broker, running, main, thread, spawning, queues, table,
                   conn, fds, count>>

(* table.Remove.  A reader of gcdbroker announces the SHUTDOWN if it found  *)
(* its channel bound, one of gmlbroker unless it was asked not to.          *)
ReaderRemoves(r) ==
    /\ \/ /\ Move(r, "remove", "announce")
          /\ broker = "gcd" => r \in table
       \/ /\ Move(r, "remove", "close")
          /\ IF broker = "gcd" THEN r \notin table ELSE conn[r] = "asked"
    /\ table' = table \ {r}
    /\ UNCHANGED <<broker, running, main, thread, spawning, queues, conn,
                   fds, count>>

ReaderAnnounces(r) ==
    /\ Move(r, "announce", "close")
    /\ send_len' = send_len + 1
    /\ UNCHANGED <<broker, running, main, thread, spawning, recv_len,
                   recv_closed, send_closed, table, conn, fds, count>>

ReaderCloses(r, from, to) ==
    /\ Move(r, from, to)
    /\ conn' = [conn EXCEPT ![r] = "closed"]
    /\ UNCHANGED <<broker, running, main, thread, spawning, queues, table,
                   fds, count>>

(* The Sentinel's destructor: Leave counts the reader out under the lock,   *)
(* and notifies the condition variable after unlocking.                     *)
Leave(r, from, to) ==
    /\ Move(r, from, to)
    /\ count' = count - 1
    /\ UNCHANGED <<broker, running, main, thread, spawning, queues, table,
                   conn, fds>>

Notify(r) ==
    /\ Move(r, "notify", "gone")
    /\ UNCHANGED <<broker, running, main, thread, spawning, queues, table,
                   conn, fds, count>>

(* Mutant: the Sentinel is destroyed before the reader closes its socket.   *)
ReaderExits_SentinelFirst(r) ==
    \/ ReaderRemoves(r) \/ ReaderAnnounces(r)
    \/ Leave(r, "close", "leave") \/ ReaderCloses(r, "leave", "gone")

(* The Sentinel is the reader's first local, so it is destroyed last.       *)
ReaderExits(r) ==
    \/ ReaderRemoves(r) \/ ReaderAnnounces(r)
    \/ ReaderCloses(r, "close", "leave") \/ Leave(r, "leave", "notify")
    \/ Notify(r)

ReaderRuns(r) ==
    \/ ReaderTests(r)
    \/ \E data, answer \in BOOLEAN : ReaderReceives(r, data, answer)
    \/ ReaderWrites(r)
    \/ ReaderEnds(r)

-----------------------------------------------------------------------------
(* main                                                                     *)

Goto(from, to) == main = from /\ main' = to

JoinProducers ==
    /\ Goto("join_producers", "close_recv")
    /\ \A t \in Producer : thread[t] = "gone"
    /\ UNCHANGED <<broker, running, thread, spawning, queues, table, conn,
                   fds, count, reader>>

(* Mutant: recv_queue is not closed.                                        *)
CloseRecv_Forgotten ==
    /\ Goto("close_recv", "join_handler")
    /\ UNCHANGED <<broker, running, thread, spawning, queues, table, conn,
                   fds, count, reader>>

CloseRecv ==
    /\ Goto("close_recv", "join_handler")
    /\ recv_closed' = TRUE
    /\ UNCHANGED <<broker, running, thread, spawning, recv_len, send_len,
                   send_closed,
                   table, conn, fds, count, reader>>

(* Mutant: the table is read while the handler may still be running.        *)
JoinHandler_NoJoin ==
    /\ Goto("join_handler", "fds")
    /\ UNCHANGED <<broker, running, thread, spawning, queues, table, conn,
                   fds, count, reader>>

JoinHandler ==
    /\ Goto("join_handler", "fds")
    /\ thread["handler"] = "gone"
    /\ UNCHANGED <<broker, running, thread, spawning, queues, table, conn,
                   fds, count, reader>>

(* table.Fds(): a snapshot.                                                 *)
Fds ==
    /\ Goto("fds", "shutdown")
    /\ fds' = table
    /\ UNCHANGED <<broker, running, thread, spawning, queues, table, conn,
                   count, reader>>

(* Mutant: the connections are not shut down.                               *)
ShutdownFd_Skipped(r) ==
    /\ main = "shutdown" /\ r \in fds
    /\ fds' = fds \ {r}
    /\ UNCHANGED <<broker, running, main, thread, spawning, queues, table,
                   conn, count, reader>>

(* shutdown(2) of a descriptor that its reader may have closed meanwhile.   *)
ShutdownFd(r) ==
    /\ main = "shutdown" /\ r \in fds
    /\ fds' = fds \ {r}
    /\ conn' = [conn EXCEPT ![r] = IF @ = "closed" THEN @ ELSE "shut"]
    /\ UNCHANGED <<broker, running, main, thread, spawning, queues, table,
                   count, reader>>

AllShutDown ==
    /\ Goto("shutdown", "wait_all")
    /\ fds = {}
    /\ UNCHANGED <<broker, running, thread, spawning, queues, table, conn,
                   fds, count, reader>>

(* The predicate of the wait; the last Leave's notification wakes a main    *)
(* that found readers left.                                                 *)
WaitAll ==
    /\ Goto("wait_all", "close_send")
    /\ count = 0
    /\ UNCHANGED <<broker, running, thread, spawning, queues, table, conn,
                   fds, count, reader>>

CloseSend ==
    /\ Goto("close_send", "join_udp_send")
    /\ send_closed' = TRUE
    /\ UNCHANGED <<broker, running, thread, spawning, recv_len, recv_closed,
                   send_len,
                   table, conn, fds, count, reader>>

JoinSender ==
    /\ Goto("join_udp_send", "done")
    /\ thread["udp_send"] = "gone"
    /\ UNCHANGED <<broker, running, thread, spawning, queues, table, conn,
                   fds, count, reader>>

Main ==
    \/ JoinProducers \/ CloseRecv \/ JoinHandler \/ Fds
    \/ (\E r \in Reader : ShutdownFd(r)) \/ AllShutDown
    \/ WaitAll \/ CloseSend \/ JoinSender

-----------------------------------------------------------------------------
(* The steps of a thread that do not start a reader.                        *)
Step(t) ==
    \/ TestRunning(t)
    \/ NothingReceived(t)
    \/ t = "udp_recv" /\ Receive
    \/ t = "handler" /\ (HandlerDequeue \/ HandlerDone \/ HandlerRelays)
    \/ t = "udp_send" /\ (SenderDequeue \/ SenderSends)

Spawn == (\E r \in Reader : Connect(r)) \/ Enter \/ Launch

Finished == main = "done" /\ UNCHANGED vars

Next ==
    \/ interrupt_handler
    \/ \E t \in Thread : Step(t)
    \/ Spawn
    \/ \E r \in Reader :
          \/ HandlerUnbinds(r) \/ HandlerAsks(r)
          \/ ReaderRuns(r) \/ PeerCloses(r) \/ BrowserReads(r) \/ ReaderExits(r)
    \/ Main
    \/ Finished

Spec == Init /\ [][Next]_vars

(* Every thread is scheduled; accept, recvfrom, recv and poll time out.     *)
(* Nothing makes a browser read.                                            *)
FairSpec ==
    /\ Spec
    /\ WF_vars(Main)
    /\ \A t \in Thread : WF_vars(Step(t))
    /\ WF_vars(Enter \/ Launch)
    /\ \A r \in Reader : WF_vars(ReaderRuns(r)) /\ WF_vars(ReaderExits(r))

-----------------------------------------------------------------------------
(* Properties.                                                              *)

(* The reader's thread exists and still uses queues, table or sockets.  A   *)
(* reader at "notify" uses nothing but the ReaderGroup's condition variable,*)
(* which main may have destroyed: Leave notifies after unlocking.           *)
Live(r) == reader[r] \notin {"none", "notify", "gone"}

(* Every variable stays in its range; the ReaderGroup never counts more     *)
(* readers than there are, or fewer than none.                              *)
TypeOK ==
    /\ broker \in {"gml", "gcd"}
    /\ running \in BOOLEAN
    /\ main \in {"join_producers", "close_recv", "join_handler", "fds",
                 "shutdown", "wait_all", "close_send", "join_udp_send", "done"}
    /\ thread \in [Thread -> {"loop", "work", "busy", "enter", "launch", "relay",
                              "gone"}]
    /\ spawning \in Reader \cup {NoReader}
    /\ recv_len \in Nat /\ recv_closed \in BOOLEAN
    /\ send_len \in Nat /\ send_closed \in BOOLEAN
    /\ table \subseteq Reader
    /\ conn \in [Reader -> {"none", "open", "asked", "shut", "closed"}]
    /\ fds \subseteq Reader
    /\ count \in 0..Cardinality(Reader)
    /\ reader \in [Reader -> {"none", "run", "recv", "write", "remove",
                              "announce", "close", "leave", "notify", "gone"}]

(* When main returns and destroys the queues, the table and the sockets, no *)
(* thread is left that could touch them: main.cpp joins every thread but    *)
(* the detached readers, and for those relies on the count that the spawner *)
(* keeps and the Sentinel gives back last (reader_group.h 30-42).           *)
NothingOutlivesMain ==
    main = "done" =>
        /\ \A t \in Thread : thread[t] = "gone"
        /\ \A r \in Reader : ~Live(r)

(* While main waits for the readers, none of them is still attached to a    *)
(* connection that nobody has shut down: the snapshot missed no connection, *)
(* because whoever binds channels was joined before it was taken.           *)
EveryReaderWoken ==
    main = "wait_all" =>
        \A r \in Reader :
            reader[r] \in {"run", "recv", "write"} => conn[r] = "shut"

(* A broker that is told to stop stops, even with a reader blocked on a     *)
(* browser that does not read.                                              *)
StopsWhenTold == ~running ~> main = "done"

(* What the comments on the shutdown order say: when the broker is done the *)
(* messages queued for the bridge, the readers' SHUTDOWNs among them, were  *)
(* drained.                                                                 *)
SendQueueDrained == main = "done" => send_len = 0

=============================================================================
