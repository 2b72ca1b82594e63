-------------------------- MODULE GcdBroker_proofs --------------------------
(***************************************************************************)
(* Proofs about gcdbroker for every number of channels and descriptors:    *)
(* a binding always leads to the connection of its own reader, and a       *)
(* payload is never written to another channel's connection, although      *)
(* descriptors are recycled while the handler holds one.  And how sessions *)
(* end: an open one stays bound, one that ends is announced, unless a      *)
(* write failed or the channel was dialled in haste.                       *)
(***************************************************************************)
EXTENDS GcdBroker, TLAPS

(* A descriptor is in use exactly while its reader thread exists.           *)
ReaderOwnsFd == \A d \in Fd : reader[d] = "none" <=> conn[d] = "free"

(* The inductive invariant.                                                 *)
Ownership ==
    /\ TypeOK
    /\ ReaderOwnsFd
    /\ BoundToOwnReader
    /\ WritesToOwnConnection

-----------------------------------------------------------------------------
(* The messages the threads build are messages.                             *)
LEMMA MessageConstructors ==
    /\ \A ch \in Channel : Shutdown(ch) \in Msg
    /\ \A ch \in Channel, p \in {"guac"} : None(ch, p) \in Msg
    /\ Inbound \subseteq Msg
    /\ \A f \in Msg : f.channel \in Channel
    /\ \A f \in Msg : [f EXCEPT !.verdict = APPROVAL_DENY] \in Msg
BY DEF Shutdown, None, Create, Approval, Msg, Inbound, APPROVAL_APPROVE,
       APPROVAL_DENY

(* Initially nothing is bound.                                              *)
LEMMA InitOwnership == Init => Ownership
<1> SUFFICES ASSUME Init
             PROVE  Ownership
  OBVIOUS
<1>1. channelOf \in [Fd -> Channel]
  BY DEF Init
<1>2. recv_queue \in Seq(Msg) /\ send_queue \in Seq(Msg)
  BY DEF Init
<1>3. TypeOK
  BY <1>1, <1>2 DEF Init, TypeOK, Notice
<1>4. QED
  BY <1>3, GcdAssumption
  DEF Init, Ownership, ReaderOwnsFd, BoundToOwnReader, WritesToOwnConnection

-----------------------------------------------------------------------------
(* The send handler.                                                        *)

(* Taking a message from recv_queue keeps the queue and the message typed.  *)
LEMMA TakenMessage ==
    ASSUME TypeOK, recv_queue # <<>>
    PROVE  /\ Head(recv_queue) \in Msg
           /\ Tail(recv_queue) \in Seq(Msg)
           /\ Head(recv_queue).channel \in Channel
<1>1. recv_queue \in Seq(Msg)
  BY DEF TypeOK
<1>2. Head(recv_queue) \in Msg /\ Tail(recv_queue) \in Seq(Msg)
  BY <1>1
<1>3. QED
  BY <1>2, MessageConstructors

(* A guacd connection is dialled on a free descriptor, which nothing is     *)
(* bound to, while the handler holds no descriptor.                         *)
LEMMA DialKeepsOwnership ==
    ASSUME Ownership, recv_queue # <<>>, recv_queue' = Tail(recv_queue),
           Dial(Head(recv_queue))
    PROVE  Ownership'
<1> DEFINE f == Head(recv_queue)
<1>1. f \in Msg /\ f.channel \in Channel /\ Tail(recv_queue) \in Seq(Msg)
  BY TakenMessage DEF Ownership
<1> HIDE DEF f
<1>2. PICK d \in Fd :
         /\ conn[d] = "free"
         /\ table' = [table EXCEPT ![f.channel] = d]
         /\ conn' = [conn EXCEPT ![d] = "open"]
         /\ reader' = [reader EXCEPT ![d] = "read"]
         /\ channelOf' = [channelOf EXCEPT ![d] = f.channel]
         /\ notice' = [notice EXCEPT ![d] =
                          IF \E e \in Fd : /\ reader[e] # "none"
                                           /\ channelOf[e] = f.channel
                          THEN "hasty" ELSE "due"]
  BY DEF Dial, f
<1>3. /\ handler' = "relay" /\ msg' = f /\ fd' = NoFd
      /\ UNCHANGED <<last_ack, send_queue>>
  BY DEF Dial, Relay, f
<1>4. TypeOK'
  BY <1>1, <1>2, <1>3 DEF Ownership, TypeOK, Notice
<1>5. ReaderOwnsFd'
  BY <1>2 DEF Ownership, TypeOK, ReaderOwnsFd
<1>6. \A ch \in Channel : table[ch] # d
  BY <1>2, GcdAssumption DEF Ownership, BoundToOwnReader, TypeOK
<1>7. BoundToOwnReader'
  <2> SUFFICES ASSUME NEW ch \in Channel, table'[ch] # NoFd
               PROVE  /\ channelOf'[table'[ch]] = ch
                      /\ reader'[table'[ch]] \in {"read", "remove"}
                      /\ conn'[table'[ch]] # "free"
    BY DEF BoundToOwnReader
  <2>1. CASE ch = f.channel
    BY <1>2, <2>1 DEF Ownership, TypeOK
  <2>2. CASE ch # f.channel
    <3>1. table'[ch] = table[ch] /\ table[ch] \in Fd /\ table[ch] # d
      BY <1>2, <1>6, <2>2 DEF Ownership, TypeOK
    <3>2. QED
      BY <1>2, <3>1 DEF Ownership, TypeOK, BoundToOwnReader
  <2>3. QED
    BY <2>1, <2>2
<1>8. WritesToOwnConnection'
  BY <1>3 DEF WritesToOwnConnection
<1>9. QED
  BY <1>4, <1>5, <1>7, <1>8 DEF Ownership

(* The handler takes a binding out of the table to shut its connection      *)
(* down, for a SHUTDOWN or after a failed write: it holds the descriptor of *)
(* the channel's own connection.                                            *)
LEMMA UnbindKeepsOwnership ==
    ASSUME Ownership, NEW ch \in Channel, NEW f \in Msg, f.channel = ch,
           Unbind(ch, f), UNCHANGED <<conn, reader, channelOf, last_ack>>,
           recv_queue' \in Seq(Msg), send_queue' \in Seq(Msg),
           notice' \in [Fd -> Notice]
    PROVE  Ownership'
<1>1. /\ table' = [table EXCEPT ![ch] = NoFd] /\ table[ch] \in Fd
      /\ handler' = "shut" /\ msg' = f /\ fd' = table[ch]
  BY DEF Unbind, Remove, Ownership, TypeOK
<1>2. TypeOK'
  BY <1>1 DEF Ownership, TypeOK
<1>3. ReaderOwnsFd'
  BY DEF Ownership, ReaderOwnsFd
<1>4. WritesToOwnConnection'
  BY <1>1, GcdAssumption DEF Ownership, BoundToOwnReader, WritesToOwnConnection
<1>5. BoundToOwnReader'
  <2> SUFFICES ASSUME NEW c \in Channel, table'[c] # NoFd
               PROVE  /\ channelOf'[table'[c]] = c
                      /\ reader'[table'[c]] \in {"read", "remove"}
                      /\ conn'[table'[c]] # "free"
    BY DEF BoundToOwnReader
  <2>1. table'[c] = table[c] /\ table[c] \in Fd
    BY <1>1, GcdAssumption DEF Ownership, TypeOK
  <2>2. QED
    BY <2>1 DEF Ownership, BoundToOwnReader
<1>6. QED
  BY <1>2, <1>3, <1>4, <1>5 DEF Ownership

(* Whatever message it takes, the handler keeps the ownership of            *)
(* descriptors intact.                                                      *)
LEMMA TakeKeepsOwnership == Ownership /\ Take => Ownership'
<1> SUFFICES ASSUME Ownership, Take
             PROVE  Ownership'
  OBVIOUS
<1> DEFINE f == Head(recv_queue)
<1>1. recv_queue # <<>> /\ recv_queue' = Tail(recv_queue) /\ handler = "idle"
  BY DEF Take
<1>2. f \in Msg /\ f.channel \in Channel /\ recv_queue' \in Seq(Msg)
  BY <1>1, TakenMessage DEF Ownership
<1>3. \/ HandleCreate(f) \/ HandleDenial(f) \/ Dial(f) \/ DialFailed(f)
      \/ HandleShutdown(f) \/ DropUndialled(f) \/ LookUp(f)
  BY DEF Take
<1>4. CASE Dial(f)
  BY <1>1, <1>4, DialKeepsOwnership
<1>5. [f EXCEPT !.verdict = APPROVAL_DENY] \in Msg /\ Shutdown(f.channel) \in Msg
  BY <1>2, MessageConstructors
<1> HIDE DEF f
<1>6. CASE HandleCreate(f) \/ DropUndialled(f)
  BY <1>1, <1>2, <1>6
  DEF HandleCreate, DropUndialled, Ownership, TypeOK, ReaderOwnsFd,
      BoundToOwnReader, WritesToOwnConnection, readerVars, handlerVars
<1>7. CASE HandleDenial(f) \/ DialFailed(f)
  <2>1. /\ handler' = "relay" /\ msg' \in Msg /\ fd' = NoFd
        /\ UNCHANGED <<table, conn, reader, channelOf, last_ack, send_queue, notice>>
    BY <1>2, <1>5, <1>7 DEF HandleDenial, DialFailed, Relay, readerVars
  <2>2. QED
    BY <1>2, <2>1
    DEF Ownership, TypeOK, ReaderOwnsFd, BoundToOwnReader, WritesToOwnConnection
<1>8. CASE HandleShutdown(f)
  <2>1. UNCHANGED <<conn, reader, channelOf, last_ack, send_queue, notice>>
    BY <1>8 DEF HandleShutdown, readerVars
  <2>2. send_queue' \in Seq(Msg) /\ notice' \in [Fd -> Notice]
    BY <2>1 DEF Ownership, TypeOK
  <2>3. CASE Unbind(f.channel, Shutdown(f.channel))
    <3>1. Shutdown(f.channel).channel = f.channel
      BY DEF Shutdown
    <3> QED
      BY <1>2, <1>5, <2>1, <2>2, <2>3, <3>1, UnbindKeepsOwnership
  <2>4. CASE UNCHANGED table /\ Relay(Shutdown(f.channel))
    BY <1>2, <1>5, <2>1, <2>4
    DEF Relay, Ownership, TypeOK, ReaderOwnsFd, BoundToOwnReader, WritesToOwnConnection
  <2>5. QED
    BY <1>8, <2>3, <2>4 DEF HandleShutdown
<1>9. CASE LookUp(f)
  <2>1. /\ handler' = "send" /\ msg' = f /\ fd' = table[f.channel]
        /\ table[f.channel] \in Fd
        /\ UNCHANGED <<table, conn, reader, channelOf, last_ack, send_queue, notice>>
    BY <1>2, <1>9 DEF LookUp, readerVars, Ownership, TypeOK
  <2>2. channelOf[table[f.channel]] = f.channel
    BY <1>2, <2>1, GcdAssumption DEF Ownership, BoundToOwnReader
  <2>3. WritesToOwnConnection'
    BY <2>1, <2>2 DEF WritesToOwnConnection
  <2>4. QED
    BY <1>2, <2>1, <2>3
    DEF Ownership, TypeOK, ReaderOwnsFd, BoundToOwnReader
<1>10. QED
  BY <1>3, <1>4, <1>6, <1>7, <1>8, <1>9

-----------------------------------------------------------------------------
(* All other steps.                                                         *)

(* The other steps of the handler.                                          *)
LEMMA HandlerKeepsOwnership ==
    ASSUME Ownership,
           RelayMessage \/ WriteSucceeds \/ WriteFails \/ ShutConnection \/ WriteKills
    PROVE  Ownership'
<1>1. CASE RelayMessage
  <2>1. msg \in Msg
    BY <1>1 DEF RelayMessage, Ownership, TypeOK
  <2>2. send_queue' \in Seq(Msg) /\ notice' \in [Fd -> Notice]
    BY <1>1, <2>1 DEF RelayMessage, Enqueue, Ownership, TypeOK, Notice
  <2>3. QED
    BY <1>1, <2>2
    DEF RelayMessage, Done, Ownership, TypeOK, ReaderOwnsFd, BoundToOwnReader,
        WritesToOwnConnection, readerVars
<1>2. CASE WriteSucceeds
  BY <1>2
  DEF WriteSucceeds, Done, Ownership, TypeOK, ReaderOwnsFd, BoundToOwnReader,
      WritesToOwnConnection, readerVars
<1>3. CASE WriteFails
  <2>1. msg \in Msg /\ msg.channel \in Channel
    BY <1>3, MessageConstructors DEF WriteFails, Ownership, TypeOK
  <2>2. /\ UNCHANGED <<conn, reader, channelOf, last_ack, recv_queue, send_queue>>
        /\ notice' \in [Fd -> Notice]
    BY <1>3 DEF WriteFails, readerVars, Ownership, TypeOK, Notice
  <2>3. recv_queue' \in Seq(Msg) /\ send_queue' \in Seq(Msg)
    BY <2>2 DEF Ownership, TypeOK
  <2>4. CASE Unbind(msg.channel, msg)
    BY <2>1, <2>2, <2>3, <2>4, UnbindKeepsOwnership
  <2>5. CASE UNCHANGED table /\ Done
    BY <2>2, <2>5
    DEF Done, Ownership, TypeOK, ReaderOwnsFd, BoundToOwnReader, WritesToOwnConnection
  <2>6. QED
    BY <1>3, <2>4, <2>5 DEF WriteFails
<1>4. CASE ShutConnection
  <2>1. /\ conn' \in [Fd -> {"free", "open", "eof", "shut"}]
        /\ \A d \in Fd : conn'[d] = "free" <=> conn[d] = "free"
    BY <1>4 DEF ShutConnection, ShutdownFd, Ownership, TypeOK
  <2>2. /\ UNCHANGED <<table, reader, channelOf, last_ack, recv_queue, send_queue, notice>>
        /\ \/ handler' = "relay" /\ msg' = msg /\ fd' = NoFd
           \/ handler' = "idle" /\ msg' = Malformed /\ fd' = NoFd
        /\ msg \in Msg
    BY <1>4 DEF ShutConnection, Relay, Done, Ownership, TypeOK
  <2>3. TypeOK'
    BY <2>1, <2>2 DEF Ownership, TypeOK
  <2>4. ReaderOwnsFd' /\ WritesToOwnConnection'
    BY <2>1, <2>2 DEF Ownership, ReaderOwnsFd, WritesToOwnConnection
  <2>5. BoundToOwnReader'
    BY <2>1, <2>2 DEF Ownership, TypeOK, BoundToOwnReader
  <2>6. QED
    BY <2>3, <2>4, <2>5 DEF Ownership
<1>5. CASE WriteKills
  <2>1. /\ table' = [ch \in Channel |-> NoFd] /\ conn' = [d \in Fd |-> "free"]
        /\ reader' = [d \in Fd |-> "none"] /\ last_ack' = [d \in Fd |-> FALSE]
        /\ recv_queue' = <<>> /\ send_queue' = <<>> /\ notice' = [d \in Fd |-> "due"]
        /\ handler' = "idle" /\ msg' = Malformed /\ fd' = NoFd /\ UNCHANGED channelOf
    BY <1>5 DEF WriteKills, Done
  <2>2. recv_queue' \in Seq(Msg) /\ send_queue' \in Seq(Msg)
    BY <2>1
  <2>3. TypeOK'
    BY <2>1, <2>2 DEF Ownership, TypeOK, Notice
  <2>4. QED
    BY <2>1, <2>3
    DEF Ownership, ReaderOwnsFd, BoundToOwnReader, WritesToOwnConnection
<1>6. QED
  BY <1>1, <1>2, <1>3, <1>4, <1>5

(* A reader that found its connection ended unbinds the channel before it   *)
(* closes the descriptor.                                                   *)
LEMMA ReaderKeepsOwnership ==
    ASSUME Ownership, NEW d \in Fd, ReaderExits(d)
    PROVE  Ownership'
<1>1. CASE ReadEnds(d)
  BY <1>1
  DEF ReadEnds, Ownership, TypeOK, ReaderOwnsFd, BoundToOwnReader,
      WritesToOwnConnection, handlerVars
<1>2. CASE ReaderRemoves(d)
  <2> DEFINE ch == channelOf[d]
  <2>1. /\ ch \in Channel
        /\ table' = [table EXCEPT ![ch] = NoFd]
        /\ \E st \in {"announce", "close"} : reader' = [reader EXCEPT ![d] = st]
        /\ UNCHANGED <<conn, channelOf, last_ack, recv_queue, send_queue, notice,
                       handler, msg, fd>>
    BY <1>2 DEF ReaderRemoves, Remove, handlerVars, Ownership, TypeOK
  <2> HIDE DEF ch
  <2>3. TypeOK'
    BY <2>1 DEF Ownership, TypeOK
  <2>4. ReaderOwnsFd'
    BY <1>2, <2>1 DEF ReaderRemoves, Ownership, TypeOK, ReaderOwnsFd
  <2>5. BoundToOwnReader'
    <3> SUFFICES ASSUME NEW c \in Channel, table'[c] # NoFd
                 PROVE  /\ channelOf'[table'[c]] = c
                        /\ reader'[table'[c]] \in {"read", "remove"}
                        /\ conn'[table'[c]] # "free"
      BY DEF BoundToOwnReader
    <3>1. c # ch /\ table'[c] = table[c] /\ table[c] \in Fd
      BY <2>1 DEF Ownership, TypeOK
    <3>2. channelOf[table[c]] = c
      BY <3>1 DEF Ownership, BoundToOwnReader
    <3>3. table[c] # d
      BY <3>1, <3>2 DEF ch
    <3>4. QED
      BY <2>1, <3>1, <3>3 DEF Ownership, TypeOK, BoundToOwnReader
  <2>6. QED
    BY <2>1, <2>3, <2>4, <2>5 DEF Ownership, WritesToOwnConnection
<1>3. CASE ReaderCloses(d)
  <2>1. /\ reader[d] = "close"
        /\ conn' = [conn EXCEPT ![d] = "free"]
        /\ reader' = [reader EXCEPT ![d] = "none"]
        /\ last_ack' = [last_ack EXCEPT ![d] = FALSE]
        /\ notice' = [notice EXCEPT ![d] = "due"]
        /\ UNCHANGED <<table, channelOf, recv_queue, send_queue, handler, msg, fd>>
    BY <1>3 DEF ReaderCloses, handlerVars
  <2>2. \A c \in Channel : table[c] # d
    BY <2>1, GcdAssumption DEF Ownership, BoundToOwnReader
  <2>3. TypeOK'
    BY <2>1 DEF Ownership, TypeOK, Notice
  <2>4. ReaderOwnsFd' /\ WritesToOwnConnection'
    BY <2>1 DEF Ownership, TypeOK, ReaderOwnsFd, WritesToOwnConnection
  <2>5. BoundToOwnReader'
    <3> SUFFICES ASSUME NEW c \in Channel, table'[c] # NoFd
                 PROVE  /\ channelOf'[table'[c]] = c
                        /\ reader'[table'[c]] \in {"read", "remove"}
                        /\ conn'[table'[c]] # "free"
      BY DEF BoundToOwnReader
    <3>1. table'[c] = table[c] /\ table[c] \in Fd /\ table[c] # d
      BY <2>1, <2>2 DEF Ownership, TypeOK
    <3>2. QED
      BY <2>1, <3>1 DEF Ownership, TypeOK, BoundToOwnReader
  <2>6. QED
    BY <2>3, <2>4, <2>5 DEF Ownership
<1>4. CASE ReaderAnnounces(d)
  <2>1. /\ reader[d] = "announce" /\ reader' = [reader EXCEPT ![d] = "close"]
        /\ UNCHANGED <<table, conn, channelOf, last_ack, recv_queue, handler, msg, fd>>
    BY <1>4 DEF ReaderAnnounces, handlerVars
  <2>2. Shutdown(channelOf[d]) \in Msg
    BY MessageConstructors DEF Ownership, TypeOK
  <2>3. send_queue' \in Seq(Msg) /\ notice' \in [Fd -> Notice]
    BY <1>4, <2>2 DEF ReaderAnnounces, Enqueue, Ownership, TypeOK, Notice
  <2>4. TypeOK'
    BY <2>1, <2>3 DEF Ownership, TypeOK
  <2>5. ReaderOwnsFd' /\ WritesToOwnConnection'
    BY <2>1 DEF Ownership, TypeOK, ReaderOwnsFd, WritesToOwnConnection
  <2>6. BoundToOwnReader'
    BY <2>1 DEF Ownership, TypeOK, BoundToOwnReader
  <2>7. QED
    BY <2>4, <2>5, <2>6 DEF Ownership
<1>5. QED
  BY <1>1, <1>2, <1>3, <1>4 DEF ReaderExits

(* Steps that neither bind nor close anything.                              *)
LEMMA QuietKeepsOwnership ==
    ASSUME Ownership,
           \/ \E f \in Inbound : UdpReceive(f)
           \/ UdpSend
           \/ \E d \in Fd : \/ \E sync \in BOOLEAN : ReadData(d, sync)
                            \/ Keepalive(d)
                            \/ GuacdCloses(d)
    PROVE  Ownership'
<1>1. ASSUME NEW f \in Inbound, UdpReceive(f)
      PROVE  Ownership'
  <2>1. recv_queue' \in Seq(Msg)
    BY <1>1, MessageConstructors DEF UdpReceive, Ownership, TypeOK
  <2>2. QED
    BY <1>1, <2>1
    DEF UdpReceive, readerVars, handlerVars, Ownership, TypeOK, ReaderOwnsFd,
        BoundToOwnReader, WritesToOwnConnection
<1>2. CASE UdpSend
  <2>1. send_queue' \in Seq(Msg)
    BY <1>2 DEF UdpSend, Ownership, TypeOK
  <2>2. QED
    BY <1>2, <2>1
    DEF UdpSend, readerVars, handlerVars, Ownership, TypeOK, ReaderOwnsFd,
        BoundToOwnReader, WritesToOwnConnection
<1>3. ASSUME NEW d \in Fd, NEW sync \in BOOLEAN, ReadData(d, sync)
      PROVE  Ownership'
  <2>1. None(channelOf[d], "guac") \in Msg
    BY MessageConstructors DEF Ownership, TypeOK
  <2>2. send_queue' \in Seq(Msg) /\ notice' \in [Fd -> Notice]
    BY <1>3, <2>1 DEF ReadData, Enqueue, Ownership, TypeOK, Notice
  <2>3. recv_queue' \in Seq(Msg) /\ last_ack' \in [Fd -> BOOLEAN]
    <3>1. Feed(d, sync) \in Seq(Msg)
      BY <2>1 DEF Feed
    <3>2. QED
      BY <1>3, <3>1 DEF ReadData, Ownership, TypeOK
  <2>4. QED
    BY <1>3, <2>2, <2>3
    DEF ReadData, handlerVars, Ownership, TypeOK, ReaderOwnsFd,
        BoundToOwnReader, WritesToOwnConnection
<1>4. ASSUME NEW d \in Fd, Keepalive(d)
      PROVE  Ownership'
  <2>1. None(channelOf[d], "guac") \in Msg
    BY MessageConstructors DEF Ownership, TypeOK
  <2>2. recv_queue' \in Seq(Msg)
    BY <1>4, <2>1 DEF Keepalive, Ownership, TypeOK
  <2>3. QED
    BY <1>4, <2>2
    DEF Keepalive, readerVars, handlerVars, Ownership, TypeOK, ReaderOwnsFd,
        BoundToOwnReader, WritesToOwnConnection
<1>5. ASSUME NEW d \in Fd, GuacdCloses(d)
      PROVE  Ownership'
  BY <1>5
  DEF GuacdCloses, handlerVars, Ownership, TypeOK, ReaderOwnsFd,
      BoundToOwnReader, WritesToOwnConnection
<1>6. QED
  BY <1>1, <1>2, <1>3, <1>4, <1>5

-----------------------------------------------------------------------------
(* The invariant holds throughout.                                          *)
LEMMA OwnershipInvariant == Spec => []Ownership
<1>1. Init => Ownership
  BY InitOwnership
<1>2. Ownership /\ [Next]_vars => Ownership'
  <2> SUFFICES ASSUME Ownership, [Next]_vars
               PROVE  Ownership'
    OBVIOUS
  <2>1. CASE Handler
    BY <2>1, TakeKeepsOwnership, HandlerKeepsOwnership DEF Handler
  <2>2. ASSUME NEW d \in Fd, ReaderExits(d)
        PROVE  Ownership'
    BY <2>2, ReaderKeepsOwnership
  <2>3. CASE UNCHANGED vars
    BY <2>3
    DEF vars, Ownership, TypeOK, ReaderOwnsFd, BoundToOwnReader,
        WritesToOwnConnection
  <2>4. QED
    BY <2>1, <2>2, <2>3, QuietKeepsOwnership DEF Next
<1>3. QED
  BY <1>1, <1>2, PTL DEF Spec

(* The queues hold messages only, and the handler writes to a descriptor    *)
(* it has really looked up (guacd_send_handler.cpp 116-130).                *)
THEOREM TypeCorrect == Spec => []TypeOK
<1>1. Ownership => TypeOK
  BY DEF Ownership
<1>2. QED
  BY <1>1, OwnershipInvariant, PTL

(* A binding leads to the open connection of its own reader, for every      *)
(* number of channels and descriptors, however readers and handler          *)
(* interleave (guacd_read_handler.cpp 109-119).                             *)
THEOREM BoundToOwnReaderCorrect == Spec => []BoundToOwnReader
<1>1. Ownership => BoundToOwnReader
  BY DEF Ownership
<1>2. QED
  BY <1>1, OwnershipInvariant, PTL

(* The handler never writes a payload to another channel's connection,      *)
(* although the descriptor it looked up may be closed and its number handed *)
(* out again before the write (guacd_send_handler.cpp 121-130).             *)
THEOREM WritesToOwnConnectionCorrect == Spec => []WritesToOwnConnection
<1>1. Ownership => WritesToOwnConnection
  BY DEF Ownership
<1>2. QED
  BY <1>1, OwnershipInvariant, PTL

-----------------------------------------------------------------------------
(* How a session ends.  The history variable notice tells apart the         *)
(* connections that were dialled while an earlier reader still served their *)
(* channel; the others have their channel to themselves while bound to it.  *)

(* A reader leaves only after its connection has ended.                     *)
LeavesEnded ==
    \A d \in Fd : reader[d] \in {"remove", "announce", "close"} => conn[d] # "open"

(* No other reader serves the channel of a bound connection.                *)
SoleReader ==
    \A d, e \in Fd :
        /\ table[channelOf[d]] = d /\ notice[d] # "hasty"
        /\ reader[e] # "none" /\ channelOf[e] = channelOf[d]
        => e = d

Echoing(d) == handler \in {"shut", "relay"} /\ msg = Shutdown(channelOf[d])

(* A connection whose end was not announced is bound, or its reader is      *)
(* announcing it, or the echo of the SHUTDOWN that unbound it is to come.   *)
DueIsBound ==
    \A d \in Fd : reader[d] # "none" /\ notice[d] = "due" =>
        table[channelOf[d]] = d \/ Echoing(d) \/ reader[d] = "announce"

EndInv == LeavesEnded /\ SoleReader /\ DueIsBound /\ OpenSessionIsBound

(* A step that binds, unbinds and frees nothing.                            *)
Quiet ==
    /\ UNCHANGED <<table, channelOf>>
    /\ \A d \in Fd :
          /\ reader'[d] = "none" <=> reader[d] = "none"
          /\ conn'[d] = "open" => conn[d] = "open" /\ reader'[d] = reader[d]
          /\ notice'[d] = notice[d] \/ (notice'[d] = "sent" /\ notice[d] # "hasty")
          /\ Echoing(d) /\ reader[d] # "none" /\ notice[d] = "due" =>
                Echoing(d)' \/ notice'[d] = "sent"
          /\ reader[d] = "announce" => reader'[d] = "announce" \/ notice'[d] # "due"
          /\ handler = "shut" /\ fd = d => conn'[d] # "open" \/ UNCHANGED <<handler, fd>>

(* Such a step keeps EndInv.                                                *)
LEMMA QuietKeepsEnd ==
    ASSUME Ownership, EndInv, Quiet
    PROVE  EndInv'
<1>1. LeavesEnded'
  BY DEF EndInv, Quiet, LeavesEnded
<1>2. SoleReader'
  BY DEF EndInv, Quiet, SoleReader
<1>3. DueIsBound'
  <2> SUFFICES ASSUME NEW d \in Fd, reader'[d] # "none", notice'[d] = "due"
               PROVE  \/ table'[channelOf'[d]] = d \/ Echoing(d)'
                      \/ reader'[d] = "announce"
    BY DEF DueIsBound
  <2>1. reader[d] # "none" /\ notice[d] = "due" /\ UNCHANGED <<table, channelOf>>
    BY DEF Quiet
  <2>2. table[channelOf[d]] = d \/ Echoing(d) \/ reader[d] = "announce"
    BY <2>1 DEF EndInv, DueIsBound
  <2> QED
    BY <2>1, <2>2 DEF Quiet
<1>4. OpenSessionIsBound'
  BY DEF EndInv, Quiet, OpenSessionIsBound
<1> QED
  BY <1>1, <1>2, <1>3, <1>4 DEF EndInv

(* The verdicts, payloads and socket events.                                *)
LEMMA QuietSteps ==
    ASSUME Ownership, EndInv,
           \/ \E f \in Inbound : UdpReceive(f)
           \/ UdpSend \/ RelayMessage \/ WriteSucceeds \/ ShutConnection
           \/ Take /\ LET f == Head(recv_queue)
                      IN  \/ HandleCreate(f) \/ HandleDenial(f) \/ DialFailed(f)
                          \/ DropUndialled(f) \/ LookUp(f)
                          \/ HandleShutdown(f) /\ UNCHANGED table
           \/ WriteFails /\ table[msg.channel] = NoFd
           \/ \E d \in Fd : \/ \E sync \in BOOLEAN : ReadData(d, sync)
                            \/ Keepalive(d) \/ GuacdCloses(d) \/ ReadEnds(d)
                            \/ ReaderAnnounces(d)
           \/ UNCHANGED vars
    PROVE  Quiet
<1> USE DEF readerVars, handlerVars, Ownership, TypeOK
<1>1. CASE (\E f \in Inbound : UdpReceive(f)) \/ UdpSend \/ UNCHANGED vars
  BY <1>1 DEF UdpReceive, UdpSend, vars, Quiet, Echoing
<1>2. CASE RelayMessage
  <2>1. /\ handler = "relay" /\ UNCHANGED <<table, conn, reader, channelOf>>
        /\ notice' = [d \in Fd |-> IF msg = Shutdown(channelOf[d]) /\ reader[d] # "none"
                                      /\ notice[d] # "hasty" THEN "sent" ELSE notice[d]]
    BY <1>2 DEF RelayMessage, Enqueue
  <2> QED
    BY <2>1 DEF Quiet, Echoing
<1>3. CASE WriteSucceeds
  BY <1>3 DEF WriteSucceeds, Quiet, Echoing
<1>4. CASE Take /\ LET f == Head(recv_queue)
                   IN  \/ HandleCreate(f) \/ HandleDenial(f) \/ DialFailed(f)
                       \/ DropUndialled(f) \/ LookUp(f)
                       \/ HandleShutdown(f) /\ UNCHANGED table
  <2>1. handler = "idle" /\ UNCHANGED <<table, conn, reader, channelOf, notice>>
    BY <1>4 DEF Take, HandleCreate, HandleDenial, DialFailed, DropUndialled, LookUp,
                HandleShutdown
  <2> QED
    BY <2>1 DEF Quiet, Echoing
<1>5. ASSUME NEW d \in Fd, NEW sync \in BOOLEAN, ReadData(d, sync) PROVE Quiet
  <2>1. /\ UNCHANGED <<table, conn, reader, channelOf, handler, msg, fd>>
        /\ \A e \in Fd : notice'[e] = notice[e] \/ (notice'[e] = "sent" /\ notice[e] # "hasty")
    BY <1>5 DEF ReadData, Enqueue
  <2> QED
    BY <2>1 DEF Quiet, Echoing
<1>6. ASSUME NEW d \in Fd, Keepalive(d) \/ GuacdCloses(d) \/ ReadEnds(d) PROVE Quiet
  <2>1. /\ UNCHANGED <<table, channelOf, handler, msg, fd, notice>>
        /\ \A e \in Fd : reader[e] = "announce" => reader'[e] = "announce"
        /\ \A e \in Fd : /\ reader'[e] = "none" <=> reader[e] = "none"
                         /\ conn'[e] = "open" => conn[e] = "open" /\ reader'[e] = reader[e]
    BY <1>6 DEF Keepalive, GuacdCloses, ReadEnds
  <2> QED
    BY <2>1 DEF Quiet, Echoing
<1>7. ASSUME NEW d \in Fd, ReaderAnnounces(d) PROVE Quiet
  <2>1. /\ UNCHANGED <<table, conn, channelOf, handler, msg, fd>>
        /\ reader[d] = "announce" /\ reader' = [reader EXCEPT ![d] = "close"]
        /\ notice' = [e \in Fd |-> IF Shutdown(channelOf[d]) = Shutdown(channelOf[e])
                                      /\ reader[e] # "none" /\ notice[e] # "hasty"
                                   THEN "sent" ELSE notice[e]]
    BY <1>7 DEF ReaderAnnounces, Enqueue
  <2>2. \A e \in Fd :
           /\ reader'[e] = "none" <=> reader[e] = "none"
           /\ conn[e] = "open" => conn[e] = "open" /\ reader'[e] = reader[e]
           /\ notice'[e] = notice[e] \/ (notice'[e] = "sent" /\ notice[e] # "hasty")
           /\ reader[e] = "announce" => reader'[e] = "announce" \/ notice'[e] # "due"
    <3>1. conn[d] # "open"
      BY <2>1 DEF EndInv, LeavesEnded
    <3>2. notice'[d] # "due" /\ reader'[d] = "close"
      BY <2>1
    <3>3. \A e \in Fd : e # d => reader'[e] = reader[e]
      BY <2>1
    <3> QED
      BY <2>1, <3>1, <3>2, <3>3
  <2> QED
    BY <2>1, <2>2 DEF Quiet, Echoing
<1>8. CASE ShutConnection
  <2>1. /\ UNCHANGED <<table, reader, channelOf, notice>>
        /\ handler = "shut" /\ fd \in Fd
        /\ conn' = [conn EXCEPT ![fd] = IF @ \in {"open", "eof"} THEN "shut" ELSE @]
        /\ \/ msg.action = "SHUTDOWN" /\ handler' = "relay" /\ msg' = msg
           \/ msg.action # "SHUTDOWN"
    BY <1>8 DEF ShutConnection, ShutdownFd, Relay, Done
  <2>2. \A e \in Fd : /\ conn'[e] = "open" => conn[e] = "open"
                      /\ fd = e => conn'[e] # "open"
    BY <2>1
  <2>3. \A e \in Fd : Echoing(e) => Echoing(e)'
    BY <2>1 DEF Echoing, Shutdown
  <2> QED
    BY <2>1, <2>2, <2>3 DEF Quiet
<1>9. CASE WriteFails /\ table[msg.channel] = NoFd
  <2>1. handler = "send" /\ UNCHANGED <<table, conn, reader, channelOf, notice>>
    BY <1>9, GcdAssumption DEF WriteFails, Unbind
  <2> QED
    BY <2>1 DEF Quiet, Echoing
<1> QED
  BY <1>1, <1>2, <1>3, <1>4, <1>5, <1>6, <1>7, <1>8, <1>9

(* A channel is dialled only while it is unbound: the session that had it   *)
(* has ended, and the new one knows whether it has the channel alone.       *)
LEMMA DialKeepsEnd ==
    ASSUME Ownership, EndInv, NEW f \in Msg, f.channel \in Channel, handler = "idle",
           Dial(f)
    PROVE  EndInv'
<1>1. PICK n \in Fd :
         /\ conn[n] = "free"
         /\ table' = [table EXCEPT ![f.channel] = n]
         /\ conn' = [conn EXCEPT ![n] = "open"]
         /\ reader' = [reader EXCEPT ![n] = "read"]
         /\ channelOf' = [channelOf EXCEPT ![n] = f.channel]
         /\ notice' = [notice EXCEPT ![n] =
                          IF \E e \in Fd : /\ reader[e] # "none"
                                           /\ channelOf[e] = f.channel
                          THEN "hasty" ELSE "due"]
  BY DEF Dial
<1>2. table[f.channel] = NoFd /\ \A d \in Fd : ~Echoing(d)
  BY DEF Dial, Echoing
<1>3. /\ table'[channelOf'[n]] = n /\ channelOf'[n] = f.channel /\ reader'[n] = "read"
      /\ notice'[n] # "hasty" => ~\E e \in Fd : reader[e] # "none" /\ channelOf[e] = f.channel
  BY <1>1 DEF Ownership, TypeOK
<1>4. \A d \in Fd : d # n =>
         /\ channelOf'[d] = channelOf[d] /\ conn'[d] = conn[d] /\ reader'[d] = reader[d]
         /\ notice'[d] = notice[d] /\ channelOf[d] \in Channel
  BY <1>1 DEF Ownership, TypeOK
<1>5. \A d \in Fd : d # n => (table'[channelOf[d]] = d <=> table[channelOf[d]] = d)
  BY <1>1, <1>2, <1>4, GcdAssumption DEF Ownership, TypeOK
<1>6. LeavesEnded'
  BY <1>3, <1>4 DEF LeavesEnded, EndInv
<1>7. SoleReader'
  <2> SUFFICES ASSUME NEW d \in Fd, NEW e \in Fd, table'[channelOf'[d]] = d,
                      notice'[d] # "hasty", reader'[e] # "none",
                      channelOf'[e] = channelOf'[d]
               PROVE  e = d
    BY DEF SoleReader
  <2>1. CASE d = n
    BY <1>3, <1>4, <2>1
  <2>2. CASE d # n /\ e # n
    BY <1>4, <1>5, <2>2 DEF SoleReader, EndInv
  <2>3. CASE d # n /\ e = n
    BY <1>2, <1>3, <1>4, <1>5, <2>3, GcdAssumption
  <2> QED
    BY <2>1, <2>2, <2>3
<1>8. DueIsBound'
  BY <1>2, <1>3, <1>4, <1>5 DEF DueIsBound, EndInv
<1>9. OpenSessionIsBound'
  BY <1>3, <1>4, <1>5 DEF OpenSessionIsBound, EndInv
<1> QED
  BY <1>6, <1>7, <1>8, <1>9 DEF EndInv

(* The handler unbinds a channel for a SHUTDOWN, which it then echoes, or   *)
(* after a failed write; either way it goes on to shut the connection down. *)
LEMMA UnbindKeepsEnd ==
    ASSUME Ownership, EndInv, NEW ch \in Channel, NEW f, Unbind(ch, f),
           handler \notin {"shut", "relay"},
           UNCHANGED <<conn, reader, channelOf>>,
           \A d \in Fd : notice'[d] = notice[d] \/ (table[ch] = d /\ notice[d] = "due"
                                                    /\ notice'[d] = "skipped"),
           \A d \in Fd : table[ch] = d => notice'[d] # "due" \/ Echoing(d)'
    PROVE  EndInv'
<1>1. /\ table' = [table EXCEPT ![ch] = NoFd]
      /\ handler' = "shut" /\ fd' = table[ch]
  BY DEF Unbind, Remove
<1>2. \A d \in Fd : channelOf[d] \in Channel
  BY DEF Ownership, TypeOK
<1>3. \A d \in Fd : /\ table'[channelOf[d]] = d => table[channelOf[d]] = d
                    /\ table[channelOf[d]] = d => table[ch] = d \/ table'[channelOf[d]] = d
  BY <1>1, <1>2, GcdAssumption DEF Ownership, TypeOK
<1>4. \A d \in Fd : notice'[d] = "hasty" <=> notice[d] = "hasty"
  OBVIOUS
<1>5. LeavesEnded'
  BY DEF LeavesEnded, EndInv
<1>6. SoleReader'
  BY <1>3, <1>4 DEF SoleReader, EndInv
<1>7. DueIsBound'
  <2> SUFFICES ASSUME NEW d \in Fd, reader'[d] # "none", notice'[d] = "due"
               PROVE  \/ table'[channelOf'[d]] = d \/ Echoing(d)'
                      \/ reader'[d] = "announce"
    BY DEF DueIsBound
  <2>1. reader[d] # "none" /\ notice[d] = "due" /\ ~Echoing(d)
    BY DEF Echoing
  <2>2. table[channelOf[d]] = d \/ reader[d] = "announce"
    BY <2>1 DEF DueIsBound, EndInv
  <2> QED
    BY <1>3, <2>2
<1>8. OpenSessionIsBound'
  <2>1. \A d \in Fd : conn[d] = "open" => table[channelOf[d]] = d \/ notice[d] = "hasty"
    BY DEF OpenSessionIsBound, EndInv
  <2> QED
    BY <1>1, <1>3, <1>4, <2>1 DEF OpenSessionIsBound
<1> QED
  BY <1>5, <1>6, <1>7, <1>8 DEF EndInv

(* A reader that leaves goes on to announce the binding that it removes;    *)
(* another reader's binding it removes only if that one is hasty.           *)
LEMMA RemoveKeepsEnd ==
    ASSUME Ownership, EndInv, NEW r \in Fd, ReaderRemoves(r)
    PROVE  EndInv'
<1> DEFINE ch == channelOf[r]
<1>1. /\ ch \in Channel /\ reader[r] = "remove"
      /\ table' = [table EXCEPT ![ch] = NoFd]
      /\ reader' = [reader EXCEPT ![r] = IF table[ch] # NoFd THEN "announce" ELSE "close"]
      /\ UNCHANGED <<conn, channelOf, handler, msg, fd, notice>>
  BY DEF ReaderRemoves, Remove, handlerVars, Ownership, TypeOK
<1>2. \A d \in Fd : /\ reader'[d] = "none" <=> reader[d] = "none"
                    /\ reader[d] = "announce" => reader'[d] = "announce"
                    /\ channelOf[d] \in Channel
  BY <1>1 DEF Ownership, TypeOK
<1>3. \A d \in Fd : table[ch] = d /\ channelOf[d] = ch /\ notice[d] # "hasty" => d = r
  BY <1>1 DEF SoleReader, EndInv
<1>4. table[ch] = r => reader'[r] = "announce"
  BY <1>1, GcdAssumption DEF Ownership, TypeOK
<1> HIDE DEF ch
<1>5. \A d \in Fd : /\ table'[channelOf[d]] = d => table[channelOf[d]] = d
                    /\ table[channelOf[d]] = d => channelOf[d] = ch \/ table'[channelOf[d]] = d
  BY <1>1, <1>2, GcdAssumption DEF Ownership, TypeOK
<1>6. LeavesEnded'
  BY <1>1 DEF LeavesEnded, EndInv, Ownership, TypeOK
<1>7. SoleReader'
  BY <1>1, <1>2, <1>5 DEF SoleReader, EndInv
<1>8. DueIsBound'
  <2> SUFFICES ASSUME NEW d \in Fd, reader'[d] # "none", notice'[d] = "due"
               PROVE  \/ table'[channelOf'[d]] = d \/ Echoing(d)'
                      \/ reader'[d] = "announce"
    BY DEF DueIsBound
  <2>1. reader[d] # "none" /\ notice[d] = "due"
    BY <1>1, <1>2
  <2>2. table[channelOf[d]] = d \/ Echoing(d) \/ reader[d] = "announce"
    BY <2>1 DEF DueIsBound, EndInv
  <2>3. CASE table[channelOf[d]] = d
    BY <1>1, <1>3, <1>4, <1>5, <2>1, <2>3
  <2> QED
    BY <1>1, <1>2, <2>2, <2>3 DEF Echoing
<1>9. OpenSessionIsBound'
  <2> SUFFICES ASSUME NEW d \in Fd, conn'[d] = "open", notice'[d] # "hasty",
                      ~(handler' = "shut" /\ fd' = d)
               PROVE  table'[channelOf'[d]] = d
    BY DEF OpenSessionIsBound
  <2>1. conn[d] = "open" /\ notice[d] # "hasty" /\ table[channelOf[d]] = d
    BY <1>1 DEF OpenSessionIsBound, EndInv
  <2>2. channelOf[d] # ch
    <3> SUFFICES ASSUME channelOf[d] = ch PROVE FALSE
      OBVIOUS
    <3>1. r = d
      BY <1>3, <2>1
    <3> QED
      BY <1>1, <2>1, <3>1 DEF LeavesEnded, EndInv
  <2> QED
    BY <1>1, <1>5, <2>1, <2>2
<1> QED
  BY <1>6, <1>7, <1>8, <1>9 DEF EndInv

(* A closed connection was unbound.                                         *)
LEMMA CloseKeepsEnd ==
    ASSUME Ownership, EndInv, NEW r \in Fd, ReaderCloses(r)
    PROVE  EndInv'
<1>1. /\ reader[r] = "close" /\ table[channelOf[r]] # r
      /\ conn' = [conn EXCEPT ![r] = "free"]
      /\ reader' = [reader EXCEPT ![r] = "none"]
      /\ notice' = [notice EXCEPT ![r] = "due"]
      /\ UNCHANGED <<table, channelOf, handler, msg, fd>>
  BY GcdAssumption DEF ReaderCloses, handlerVars, Ownership, BoundToOwnReader, TypeOK
<1>2. /\ conn'[r] = "free" /\ reader'[r] = "none"
      /\ \A d \in Fd : d # r => /\ conn'[d] = conn[d] /\ reader'[d] = reader[d]
                                /\ notice'[d] = notice[d]
  BY <1>1 DEF Ownership, TypeOK
<1>3. LeavesEnded'
  BY <1>2 DEF LeavesEnded, EndInv
<1>4. SoleReader'
  BY <1>1, <1>2 DEF SoleReader, EndInv
<1>5. DueIsBound'
  BY <1>1, <1>2 DEF DueIsBound, Echoing, EndInv
<1>6. OpenSessionIsBound'
  BY <1>1, <1>2 DEF OpenSessionIsBound, EndInv
<1> QED
  BY <1>3, <1>4, <1>5, <1>6 DEF EndInv

(* How sessions end is an invariant of the broker.                          *)
LEMMA EndInvariant == Spec => [](Ownership /\ EndInv)
<1>1. Init => EndInv
  BY GcdAssumption
  DEF Init, EndInv, LeavesEnded, SoleReader, DueIsBound, OpenSessionIsBound
<1>2. Ownership /\ EndInv /\ [Next]_vars => EndInv'
  <2> SUFFICES ASSUME Ownership, EndInv, [Next]_vars PROVE EndInv'
    OBVIOUS
  <2>1. CASE Take
    <3> DEFINE f == Head(recv_queue)
    <3>1. handler = "idle" /\ f \in Msg /\ f.channel \in Channel
      BY <2>1, TakenMessage DEF Take, Ownership
    <3>2. CASE Dial(f)
      BY <3>1, <3>2, DialKeepsEnd
    <3>3. CASE HandleShutdown(f) /\ Unbind(f.channel, Shutdown(f.channel))
      <4>1. /\ UNCHANGED <<conn, reader, channelOf, notice>>
            /\ handler' = "shut" /\ msg' = Shutdown(f.channel)
        BY <3>3 DEF HandleShutdown, Unbind, readerVars
      <4>2. \A d \in Fd : table[f.channel] = d => Echoing(d)'
        BY <3>1, <4>1, GcdAssumption DEF Ownership, BoundToOwnReader, Echoing
      <4> QED
        BY <3>1, <3>3, <4>1, <4>2, UnbindKeepsEnd
    <3>4. CASE \/ HandleCreate(f) \/ HandleDenial(f) \/ DialFailed(f)
               \/ DropUndialled(f) \/ LookUp(f)
               \/ HandleShutdown(f) /\ UNCHANGED table
      BY <2>1, <3>4, QuietSteps, QuietKeepsEnd
    <3>5. HandleShutdown(f) => Unbind(f.channel, Shutdown(f.channel)) \/ UNCHANGED table
      BY DEF HandleShutdown
    <3> QED
      BY <2>1, <3>2, <3>3, <3>4, <3>5 DEF Take
  <2>2. CASE WriteFails
    <3>1. msg.channel \in Channel /\ handler = "send"
      BY <2>2, MessageConstructors DEF WriteFails, Ownership, TypeOK
    <3>2. CASE table[msg.channel] = NoFd
      BY <2>2, <3>2, QuietSteps, QuietKeepsEnd
    <3>3. CASE table[msg.channel] # NoFd
      <4>1. /\ Unbind(msg.channel, msg) /\ UNCHANGED <<conn, reader, channelOf>>
            /\ notice' = [d \in Fd |-> IF d = table[msg.channel] /\ notice[d] = "due"
                                       THEN "skipped" ELSE notice[d]]
        BY <2>2, <3>3 DEF WriteFails, readerVars
      <4>2. \A d \in Fd : /\ \/ notice'[d] = notice[d]
                             \/ /\ table[msg.channel] = d /\ notice[d] = "due"
                                /\ notice'[d] = "skipped"
                          /\ table[msg.channel] = d => notice'[d] # "due"
        BY <4>1
      <4> QED
        BY <3>1, <4>1, <4>2, UnbindKeepsEnd
    <3> QED
      BY <3>2, <3>3
  <2>3. ASSUME NEW d \in Fd, ReaderExits(d) PROVE EndInv'
    BY <2>3, QuietSteps, QuietKeepsEnd, RemoveKeepsEnd, CloseKeepsEnd DEF ReaderExits
  <2>4. CASE RelayMessage \/ WriteSucceeds \/ ShutConnection \/ UNCHANGED vars
    BY <2>4, QuietSteps, QuietKeepsEnd
  <2>5. ASSUME \/ \E f \in Inbound : UdpReceive(f)
               \/ UdpSend
               \/ \E d \in Fd : \/ \E sync \in BOOLEAN : ReadData(d, sync)
                                \/ Keepalive(d)
                                \/ GuacdCloses(d)
        PROVE  EndInv'
    BY <2>5, QuietSteps, QuietKeepsEnd
  <2>6. CASE WriteKills
    <3>1. /\ table' = [ch \in Channel |-> NoFd] /\ conn' = [d \in Fd |-> "free"]
          /\ reader' = [d \in Fd |-> "none"]
      BY <2>6 DEF WriteKills
    <3> QED
      BY <3>1 DEF EndInv, LeavesEnded, SoleReader, DueIsBound, OpenSessionIsBound
  <2> QED
    BY <2>1, <2>2, <2>3, <2>4, <2>5, <2>6 DEF Next, Handler
<1> QED
  BY <1>1, <1>2, OwnershipInvariant, PTL DEF Spec

(* A guacd session that is still open is reached through the channel table, *)
(* so that a SHUTDOWN, or a failed write, ends it: only a connection that   *)
(* was dialled while an earlier reader still served its channel can lose    *)
(* its binding to that reader (guacd_read_handler.cpp 109-119).             *)
THEOREM OpenSessionIsBoundCorrect == Spec => []OpenSessionIsBound
<1>1. Ownership /\ EndInv => OpenSessionIsBound
  BY DEF EndInv
<1> QED
  BY <1>1, EndInvariant, PTL

(* gmlbroker hears of the end of every guacd connection, from its reader or *)
(* by the echo of its own SHUTDOWN, unless a failed write took the binding  *)
(* away first or the channel was dialled again too early                    *)
(* (guacd_send_handler.cpp 121-130).                                        *)
THEOREM OnlyFailedWritesAreSilentCorrect == Spec => []OnlyFailedWritesAreSilent
<1>1. Ownership /\ EndInv => OnlyFailedWritesAreSilent
  <2> SUFFICES ASSUME Ownership, EndInv, NEW d \in Fd, reader[d] = "close",
                      notice[d] \notin {"hasty", "skipped"}
               PROVE  Announced(d)
    BY DEF OnlyFailedWritesAreSilent
  <2>1. notice[d] \in {"due", "sent"}
    BY DEF Ownership, TypeOK, Notice
  <2>2. table[channelOf[d]] # d
    BY GcdAssumption DEF Ownership, TypeOK, BoundToOwnReader
  <2> QED
    BY <2>1, <2>2 DEF EndInv, DueIsBound, Echoing, Announced
<1> QED
  BY <1>1, EndInvariant, PTL

=============================================================================
