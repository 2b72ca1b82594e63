-------------------------- MODULE BrokerStop_proofs -------------------------
(***************************************************************************)
(* Proofs that a broker stops cleanly whatever the number of its readers:  *)
(* no thread outlives main, and main wakes every reader it waits for.      *)
(***************************************************************************)
EXTENDS BrokerStop, FiniteSetTheorems, TLAPS

-----------------------------------------------------------------------------
(* The inductive invariant.                                                 *)

(* TypeOK, but for the upper bound on the count of readers.                 *)
Typed ==
    /\ broker \in {"gml", "gcd"}
    /\ running \in BOOLEAN
    /\ main \in {"join_producers", "close_recv", "join_handler", "fds",
                 "shutdown", "wait_all", "close_send", "join_udp_send", "done"}
    /\ thread \in [Thread -> {"loop", "work", "busy", "enter", "launch", "relay",
                              "gone"}]
    /\ spawning \in Reader \cup {NoReader}
    /\ recv_len \in Nat /\ recv_closed \in BOOLEAN
    /\ send_len \in Nat /\ send_closed \in BOOLEAN
    /\ table \subseteq Reader
    /\ conn \in [Reader -> {"none", "open", "asked", "shut", "closed"}]
    /\ fds \subseteq Reader
    /\ reader \in [Reader -> {"none", "run", "recv", "write", "remove",
                              "announce", "close", "leave", "notify", "gone"}]

(* Only the spawner starts readers, one at a time, and each one once.       *)
Spawning ==
    /\ \A t \in Thread : thread[t] \in {"enter", "launch"} => t = Spawner
    /\ thread[Spawner] \in {"enter", "launch"} => spawning \in Reader
    /\ thread[Spawner] \notin {"enter", "launch"} => spawning = NoReader
    /\ \A r \in Reader : spawning = r => reader[r] = "none"
    /\ \A r \in Reader : conn[r] = "none" => reader[r] = "none" /\ spawning # r

(* The readers that were counted in and not yet counted out.                *)
Counted ==
    {r \in Reader : Live(r) \/ (thread[Spawner] = "launch" /\ spawning = r)}

Counting == count = Cardinality(Counted)

(* What main has waited for so far.                                         *)
Joined ==
    /\ \A t \in Thread \ (Producer \cup {"handler", "udp_send"}) :
          thread[t] = "gone"
    /\ main # "join_producers" => \A t \in Producer : thread[t] = "gone"
    /\ main \in {"fds", "shutdown", "wait_all", "close_send", "join_udp_send",
                 "done"}
       => thread["handler"] = "gone"
    /\ main \in {"close_send", "join_udp_send", "done"}
       => \A r \in Reader : ~Live(r)
    /\ main = "done" => thread["udp_send"] = "gone"

(* A reader at its connection can be found through the table, is about to   *)
(* be shut down by main, or has been shut down.                             *)
Attached(r) == reader[r] \in {"run", "recv", "write"} \/ spawning = r

Reachable ==
    \A r \in Reader : Attached(r) =>
        /\ conn[r] # "closed"
        /\ conn[r] # "shut" =>
              /\ main # "wait_all"
              /\ IF main = "shutdown" THEN r \in fds ELSE r \in table

(* All of it but the count.                                                 *)
Shape == Typed /\ Spawning /\ Joined /\ Reachable

-----------------------------------------------------------------------------
(* Facts about the count.                                                   *)

(* The set of counted readers is finite, and empty when the count is zero.  *)
LEMMA CountedFinite ==
    /\ IsFiniteSet(Counted)
    /\ Cardinality(Counted) \in Nat
    /\ Cardinality(Counted) <= Cardinality(Reader)
    /\ Cardinality(Counted) = 0 => Counted = {}
<1>1. Counted \subseteq Reader
  BY DEF Counted
<1> QED
  BY <1>1, StopAssumption, FS_Subset, FS_CardinalityType, FS_EmptySet

-----------------------------------------------------------------------------
(* The steps.                                                               *)

(* Every step of every thread keeps the shape of the state.                 *)
LEMMA ShapeStep ==
    Shape /\ Counting /\ [Next]_vars => Shape'
<1> SUFFICES ASSUME Shape, Counting, [Next]_vars PROVE Shape'
  OBVIOUS
<1> USE StopAssumption DEF queues, Shape, Typed, Spawning, Joined, Reachable,
          Attached, Live, Thread, Producer, Spawner
<1>1. CASE interrupt_handler
  BY <1>1 DEF interrupt_handler
<1>2. ASSUME NEW t \in Thread, TestRunning(t) PROVE Shape'
  BY <1>2 DEF TestRunning, At
<1>3. ASSUME NEW t \in Thread, NothingReceived(t) PROVE Shape'
  BY <1>3 DEF NothingReceived, At
<1>4. CASE Receive
  BY <1>4 DEF Receive, At
<1>5. CASE HandlerDequeue
  BY <1>5 DEF HandlerDequeue, At
<1>6. CASE HandlerDone
  BY <1>6 DEF HandlerDone, At
<1>7. CASE HandlerRelays
  BY <1>7 DEF HandlerRelays, At
<1>8. CASE SenderDequeue
  BY <1>8 DEF SenderDequeue, At
<1>9. CASE SenderSends
  BY <1>9 DEF SenderSends, At
<1>10. ASSUME NEW r \in Reader, Connect(r) PROVE Shape'
  BY <1>10 DEF Connect, At
<1>11. CASE Enter
  BY <1>11 DEF Enter, At
<1>12. CASE Launch
  BY <1>12 DEF Launch, At
<1>13. ASSUME NEW r \in Reader, HandlerUnbinds(r) PROVE Shape'
  BY <1>13 DEF HandlerUnbinds, At
<1>14. ASSUME NEW r \in Reader, HandlerAsks(r) PROVE Shape'
  BY <1>14 DEF HandlerAsks, At
<1>15. ASSUME NEW r \in Reader, ReaderTests(r) PROVE Shape'
  BY <1>15 DEF ReaderTests, Move
<1>16. ASSUME NEW r \in Reader, NEW data \in BOOLEAN, NEW answer \in BOOLEAN,
             ReaderReceives(r, data, answer)
      PROVE  Shape'
  BY <1>16 DEF ReaderReceives, Move
<1>17. ASSUME NEW r \in Reader, ReaderWrites(r) PROVE Shape'
  BY <1>17 DEF ReaderWrites, Move
<1>18. ASSUME NEW r \in Reader, BrowserReads(r) PROVE Shape'
  BY <1>18 DEF BrowserReads, Move
<1>19. ASSUME NEW r \in Reader, ReaderEnds(r) PROVE Shape'
  BY <1>19 DEF ReaderEnds, Move
<1>20. ASSUME NEW r \in Reader, PeerCloses(r) PROVE Shape'
  BY <1>20 DEF PeerCloses, Move
<1>21. ASSUME NEW r \in Reader, ReaderRemoves(r) PROVE Shape'
  BY <1>21 DEF ReaderRemoves, Move
<1>22. ASSUME NEW r \in Reader, ReaderAnnounces(r) PROVE Shape'
  BY <1>22 DEF ReaderAnnounces, Move
<1>23. ASSUME NEW r \in Reader,
             ReaderCloses(r, "close", "leave")
      PROVE  Shape'
  BY <1>23 DEF ReaderCloses, Move
<1>24. ASSUME NEW r \in Reader, Leave(r, "leave", "notify") PROVE Shape'
  BY <1>24 DEF Leave, Move
<1>25. CASE JoinProducers
  BY <1>25 DEF JoinProducers, Goto
<1>26. CASE CloseRecv
  BY <1>26 DEF CloseRecv, Goto
<1>27. CASE JoinHandler
  BY <1>27 DEF JoinHandler, Goto
<1>28. CASE Fds
  BY <1>28 DEF Fds, Goto
<1>29. ASSUME NEW r \in Reader, ShutdownFd(r) PROVE Shape'
  BY <1>29 DEF ShutdownFd
<1>30. CASE AllShutDown
  BY <1>30 DEF AllShutDown, Goto
<1>31. CASE WaitAll
  <2>1. Counted = {}
    BY <1>31, CountedFinite DEF WaitAll, Counting
  <2>2. \A r \in Reader : ~Live(r)
    BY <2>1 DEF Counted
  <2> QED
    BY <1>31, <2>2 DEF WaitAll, Goto
<1>32. CASE CloseSend
  BY <1>32 DEF CloseSend, Goto
<1>33. CASE JoinSender
  BY <1>33 DEF JoinSender, Goto
<1>34. CASE Finished
  BY <1>34 DEF Finished, vars
<1>35. CASE UNCHANGED vars
  BY <1>35 DEF vars
<1>36. ASSUME NEW r \in Reader, Notify(r) PROVE Shape'
  BY <1>36 DEF Notify, Move
<1> HIDE DEF queues, Shape, Typed, Spawning, Joined, Reachable, Attached, Live,
             Producer, Spawner
<1> QED
  BY <1>1, <1>2, <1>3, <1>4, <1>5, <1>6, <1>7, <1>8, <1>9, <1>10,
     <1>11, <1>12, <1>13, <1>14, <1>15, <1>16, <1>17, <1>18, <1>19, <1>20,
     <1>21, <1>22, <1>23, <1>24, <1>25, <1>26, <1>27, <1>28, <1>29, <1>30,
     <1>31, <1>32, <1>33, <1>34, <1>35, <1>36
     DEF Next, Step, Spawn, ReaderRuns, ReaderExits, Main

(* A step that counts nobody in or out keeps the count right.               *)
LEMMA CountingSame ==
    ASSUME Counting, Counted' = Counted, count' = count
    PROVE  Counting'
BY DEF Counting

(* The ReaderGroup counts exactly the readers that were counted in and have *)
(* not left.                                                                *)
LEMMA CountingStep ==
    Shape /\ Counting /\ [Next]_vars => Counting'
<1> SUFFICES ASSUME Shape, Counting, [Next]_vars PROVE Counting'
  OBVIOUS
<1> USE StopAssumption DEF queues, Counted, Live, Shape, Typed, Spawning,
          Thread, Producer, Spawner
<1>1. CASE interrupt_handler
  BY <1>1, CountingSame DEF interrupt_handler
<1>2. ASSUME NEW t \in Thread, TestRunning(t) PROVE Counting'
  BY <1>2, CountingSame DEF TestRunning, At
<1>3. ASSUME NEW t \in Thread, NothingReceived(t) PROVE Counting'
  BY <1>3, CountingSame DEF NothingReceived, At
<1>4. CASE Receive
  BY <1>4, CountingSame DEF Receive, At
<1>5. CASE HandlerDequeue
  BY <1>5, CountingSame DEF HandlerDequeue, At
<1>6. CASE HandlerDone
  BY <1>6, CountingSame DEF HandlerDone, At
<1>7. CASE HandlerRelays
  BY <1>7, CountingSame DEF HandlerRelays, At
<1>8. CASE SenderDequeue
  BY <1>8, CountingSame DEF SenderDequeue, At
<1>9. CASE SenderSends
  BY <1>9, CountingSame DEF SenderSends, At
<1>10. ASSUME NEW r \in Reader, Connect(r) PROVE Counting'
  BY <1>10, CountingSame DEF Connect, At
<1>11. CASE Enter
  <2>1. spawning \in Reader /\ spawning \notin Counted
    BY <1>11 DEF Enter, At
  <2>2. Counted' = Counted \cup {spawning}
    BY <1>11, <2>1 DEF Enter, At
  <2> HIDE DEF Counted
  <2>3. Cardinality(Counted') = Cardinality(Counted) + 1
    BY <2>1, <2>2, CountedFinite, FS_AddElement
  <2> QED
    BY <1>11, <2>3 DEF Enter, Counting
<1>12. CASE Launch
  BY <1>12, CountingSame DEF Launch, At
<1>13. ASSUME NEW r \in Reader, HandlerUnbinds(r) PROVE Counting'
  BY <1>13, CountingSame DEF HandlerUnbinds, At
<1>14. ASSUME NEW r \in Reader, HandlerAsks(r) PROVE Counting'
  BY <1>14, CountingSame DEF HandlerAsks, At
<1>15. ASSUME NEW r \in Reader, ReaderTests(r) PROVE Counting'
  BY <1>15, CountingSame DEF ReaderTests, Move
<1>16. ASSUME NEW r \in Reader, NEW data \in BOOLEAN, NEW answer \in BOOLEAN,
             ReaderReceives(r, data, answer)
      PROVE  Counting'
  BY <1>16, CountingSame DEF ReaderReceives, Move
<1>17. ASSUME NEW r \in Reader, ReaderWrites(r) PROVE Counting'
  BY <1>17, CountingSame DEF ReaderWrites, Move
<1>18. ASSUME NEW r \in Reader, BrowserReads(r) PROVE Counting'
  BY <1>18, CountingSame DEF BrowserReads, Move
<1>19. ASSUME NEW r \in Reader, ReaderEnds(r) PROVE Counting'
  BY <1>19, CountingSame DEF ReaderEnds, Move
<1>20. ASSUME NEW r \in Reader, PeerCloses(r) PROVE Counting'
  BY <1>20, CountingSame DEF PeerCloses, Move
<1>21. ASSUME NEW r \in Reader, ReaderRemoves(r) PROVE Counting'
  BY <1>21, CountingSame DEF ReaderRemoves, Move
<1>22. ASSUME NEW r \in Reader, ReaderAnnounces(r) PROVE Counting'
  BY <1>22, CountingSame DEF ReaderAnnounces, Move
<1>23. ASSUME NEW r \in Reader,
             ReaderCloses(r, "close", "leave")
      PROVE  Counting'
  BY <1>23, CountingSame DEF ReaderCloses, Move
<1>24. ASSUME NEW r \in Reader, Leave(r, "leave", "notify") PROVE Counting'
  <2>1. r \in Counted
    BY <1>24 DEF Leave, Move
  <2>2. Counted' = Counted \ {r}
    BY <1>24 DEF Leave, Move
  <2> HIDE DEF Counted
  <2>3. Cardinality(Counted') = Cardinality(Counted) - 1
    BY <2>1, <2>2, CountedFinite, FS_RemoveElement
  <2> QED
    BY <1>24, <2>3 DEF Leave, Counting
<1>25. CASE JoinProducers
  BY <1>25, CountingSame DEF JoinProducers, Goto
<1>26. CASE CloseRecv
  BY <1>26, CountingSame DEF CloseRecv, Goto
<1>27. CASE JoinHandler
  BY <1>27, CountingSame DEF JoinHandler, Goto
<1>28. CASE Fds
  BY <1>28, CountingSame DEF Fds, Goto
<1>29. ASSUME NEW r \in Reader, ShutdownFd(r) PROVE Counting'
  BY <1>29, CountingSame DEF ShutdownFd
<1>30. CASE AllShutDown
  BY <1>30, CountingSame DEF AllShutDown, Goto
<1>31. CASE WaitAll
  BY <1>31, CountingSame DEF WaitAll, Goto
<1>32. CASE CloseSend
  BY <1>32, CountingSame DEF CloseSend, Goto
<1>33. CASE JoinSender
  BY <1>33, CountingSame DEF JoinSender, Goto
<1>34. CASE Finished
  BY <1>34, CountingSame DEF Finished, vars
<1>35. CASE UNCHANGED vars
  BY <1>35, CountingSame DEF vars
<1>36. ASSUME NEW r \in Reader, Notify(r) PROVE Counting'
  BY <1>36, CountingSame DEF Notify, Move
<1> HIDE DEF queues, Counted, Live, Shape, Typed, Spawning, Producer, Spawner
<1> QED
  BY <1>1, <1>2, <1>3, <1>4, <1>5, <1>6, <1>7, <1>8, <1>9, <1>10,
     <1>11, <1>12, <1>13, <1>14, <1>15, <1>16, <1>17, <1>18, <1>19, <1>20,
     <1>21, <1>22, <1>23, <1>24, <1>25, <1>26, <1>27, <1>28, <1>29, <1>30,
     <1>31, <1>32, <1>33, <1>34, <1>35, <1>36
     DEF Next, Step, Spawn, ReaderRuns, ReaderExits, Main

(* Everything a broker's stopping relies on holds in every reachable state. *)
LEMMA Invariant == Spec => [](Shape /\ Counting)
<1>1. Init => Shape /\ Counting
  <2> SUFFICES ASSUME Init PROVE Shape /\ Counting
    OBVIOUS
  <2>1. Typed
    BY DEF Init, Typed, Thread
  <2>2. Spawning
    BY StopAssumption DEF Init, Spawning, Thread, Spawner, Producer
  <2>3. Joined
    BY DEF Init, Joined, Live, Thread
  <2>4. Reachable
    BY StopAssumption DEF Init, Reachable, Attached
  <2>5. Counted = {}
    BY StopAssumption DEF Init, Counted, Live
  <2>6. Counting
    BY <2>5, FS_EmptySet DEF Init, Counting
  <2> QED
    BY <2>1, <2>2, <2>3, <2>4, <2>6 DEF Shape
<1>2. Shape /\ Counting /\ [Next]_vars => (Shape /\ Counting)'
  BY ShapeStep, CountingStep
<1> QED
  BY <1>1, <1>2, PTL DEF Spec

-----------------------------------------------------------------------------
(* The theorems.                                                            *)

(* Every reachable state is well typed; in particular the ReaderGroup       *)
(* counts no more readers than there are, and never fewer than none.        *)
THEOREM TypeCorrect == Spec => []TypeOK
<1>1. Shape /\ Counting => TypeOK
  <2> SUFFICES ASSUME Shape, Counting PROVE TypeOK
    OBVIOUS
  <2>1. Cardinality(Reader) \in Nat
    BY StopAssumption, FS_CardinalityType
  <2>2. count \in 0..Cardinality(Reader)
    BY <2>1, CountedFinite DEF Counting
  <2> QED
    BY <2>2 DEF Shape, Typed, TypeOK
<1> QED
  BY <1>1, Invariant, PTL

(* Whatever the number of connections, when main returns no thread is left  *)
(* that could use the queues, the table or the sockets it destroys.         *)
THEOREM NothingOutlivesMainCorrect == Spec => []NothingOutlivesMain
<1>1. Shape /\ Counting => NothingOutlivesMain
  BY DEF Shape, Joined, NothingOutlivesMain
<1> QED
  BY <1>1, Invariant, PTL

(* Whatever the number of connections, every reader that main waits for was *)
(* woken: its connection is shut down.                                      *)
THEOREM EveryReaderWokenCorrect == Spec => []EveryReaderWoken
<1>1. Shape /\ Counting => EveryReaderWoken
  BY DEF Shape, Reachable, Attached, EveryReaderWoken
<1> QED
  BY <1>1, Invariant, PTL

=============================================================================
