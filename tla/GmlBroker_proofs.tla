-------------------------- MODULE GmlBroker_proofs --------------------------
(***************************************************************************)
(* Proofs about gmlbroker for any number of channels and connections and   *)
(* any interleaving of the accept thread, the readers and the send         *)
(* handler: the three registries agree about who has a channel, so that    *)
(* verdicts, filters and teardowns reach the connection they are for.      *)
(***************************************************************************)
EXTENDS GmlBroker, WellFoundedInduction, TLAPS

(* c has a channel: from Allocate until its reader gives the channel back.  *)
Holds(c) ==
    \/ accepted = c /\ accept \in {"approvals", "mailboxes", "spawn"}
    \/ reader[c] \in {"start", "poll", "set", "create", "teardown1", "teardown2",
                      "teardown3"}

(* c's approval entry, and its mailbox, are registered.                     *)
HasApproval(c) ==
    \/ Serving(c) \/ reader[c] = "teardown1"
    \/ accepted = c /\ accept \in {"mailboxes", "spawn"}

HasMailbox(c) ==
    \/ Serving(c) \/ reader[c] \in {"teardown1", "teardown2"}
    \/ accepted = c /\ accept = "spawn"

(* The connection that is being registered has no reader yet.               *)
AcceptInv ==
    /\ accept = "accept" <=> accepted = NoConn
    /\ accepted # NoConn => reader[accepted] = "none"

(* A channel belongs to one connection, and no registry names another.      *)
TableInv ==
    /\ \A c \in Conn : Holds(c) => table[channelOf[c]] = c
    /\ \A ch \in Channel :
          table[ch] # NoConn => Holds(table[ch]) /\ channelOf[table[ch]] = ch

OwnerInv ==
    /\ \A c \in Conn : HasApproval(c) => owner[channelOf[c]] = c
    /\ \A ch \in Channel : owner[ch] # NoConn => HasApproval(owner[ch])
                                                 /\ channelOf[owner[ch]] = ch

MailboxInv ==
    /\ \A c \in Conn : HasMailbox(c) => mailboxes[channelOf[c]] = c
    /\ \A ch \in Channel : mailboxes[ch] # NoConn => HasMailbox(mailboxes[ch])
                                                     /\ channelOf[mailboxes[ch]] = ch

(* What a reader has done by the time it is where it is.                    *)
ReaderInv ==
    \A c \in Conn :
        /\ flag[c] \in {c, NoConn} /\ mailbox[c] \in {c, NoConn}
        /\ reader[c] \in {"none", "start"} => phase[c] = "handshake"
        /\ reader[c] \in {"set", "create"} => phase[c] = "established"
        /\ reader[c] = "create" => request_id[channelOf[c]] = c

(* A registered request id is the owner's, and its handshake is complete.   *)
RequestInv ==
    \A ch \in Channel :
        request_id[ch] # NoConn =>
            request_id[ch] = owner[ch] /\ phase[owner[ch]] # "handshake"

(* A CREATE that stands on the bridge was sent by a reader past it.         *)
SessionInv ==
    \A c \in Conn, ch \in Channel : session[ch] = c =>
        /\ channelOf[c] = ch /\ phase[c] # "handshake"
        /\ reader[c] \notin {"none", "start", "set", "create"}
        /\ Serving(c) => request_id[ch] = c

(* Approved, and piped, are only connections whose own request was granted. *)
GrantInv ==
    \A c \in Conn :
        /\ approved[c] => c \in granted /\ phase[c] # "handshake"
        /\ phase[c] = "replayed" => c \in granted

(* The filter of an approved connection is armed, or about to be, or a      *)
(* teardown is on its way to it.                                            *)
FilterInv ==
    /\ \A c \in Conn :
          Serving(c) /\ approved[c] /\ teardown[c] = "no" =>
              \/ filters[channelOf[c]] = c
              \/ handler = "arm" /\ target = c /\ msg.channel = channelOf[c]
              \/ handler = "request" /\ target = c
    /\ handler = "arm" =>
          \A c \in Conn :
              Holds(c) /\ channelOf[c] = msg.channel => c = target \/ ~approved[c]

(* Only a peer's SHUTDOWN makes a reader leave without announcing.          *)
SilenceInv ==
    \A c \in Conn :
        /\ teardown[c] = "silent" \/ ~announce[c] => c \in ended
        /\ reader[c] = "close" /\ session[channelOf[c]] = c => ~announce[c]

(* A connection that got a settled channel shares it with no reader of an   *)
(* earlier one and with no denial that was for an earlier one.              *)
SettledInv ==
    /\ \A c \in Conn \ hasty, d \in Conn :
          Holds(c) /\ reader[d] \in {"announce", "close"} => channelOf[d] # channelOf[c]
    /\ handler = "deny" =>
          \A c \in Conn \ hasty : Holds(c) /\ channelOf[c] = msg.channel => c = msg.data

GmlInv ==
    /\ TypeOK /\ AcceptInv /\ TableInv /\ OwnerInv /\ MailboxInv
    /\ ReaderInv /\ RequestInv /\ SessionInv /\ GrantInv
    /\ FilterInv /\ SilenceInv /\ SettledInv
    /\ SettledSessionIntact /\ DenialHitsItsRequest

-----------------------------------------------------------------------------
(* Ranges.                                                                  *)

(* A nonempty set of natural numbers has a least element.                   *)
LEMMA LeastNatural ==
    ASSUME NEW T, T \subseteq Nat, T # {}
    PROVE  \E x \in T : \A y \in T : x <= y
<1> DEFINE R == OpToRel(<, Nat)
<1>1. \E x \in T : \A y \in T : ~(<<y, x>> \in R)
  <2> HIDE DEF R
  <2>1. IsWellFoundedOn(R, Nat)
    BY NatLessThanWellFounded DEF R
  <2> QED
    BY <2>1, WFMin
<1>2. \A x, y \in Nat : ~(<<y, x>> \in R) => x <= y
  BY DEF OpToRel
<1> QED
  BY <1>1, <1>2

(* Allocate takes a free channel and leaves the cursor on a channel id.     *)
LEMMA AllocatesFree ==
    ASSUME NEW free \in SUBSET Channel, free # {}, NEW cursor \in Channel
    PROVE  NextFree(free, cursor) \in free /\ After(NextFree(free, cursor)) \in Channel
<1> DEFINE T == {Distance(cursor, ch) : ch \in free}
<1>1. \A ch \in Channel : Distance(cursor, ch) \in Nat /\ After(ch) \in Channel
  BY RoundRobinAssumption, GmlAssumption DEF Distance, ChannelIds, After
<1>2. T \subseteq Nat /\ T # {}
  BY <1>1
<1>3. PICK x \in T : \A y \in T : x <= y
  BY <1>2, LeastNatural
<1>4. \E ch \in free : \A other \in free : Distance(cursor, ch) <= Distance(cursor, other)
  BY <1>3
<1>5. NextFree(free, cursor) \in free
  BY <1>4 DEF NextFree
<1> QED
  BY <1>1, <1>5

(* The messages of the send handler.                                        *)
LEMMA InboundFrames ==
    /\ NoMessage \in Frame
    /\ \A f \in Inbound : /\ f \in Frame /\ f.channel \in Channel
                          /\ f.action \in {"SHUTDOWN", "APPROVAL"}
                          /\ f.action = "APPROVAL" => f.data \in Conn
<1>1. 0 \in Channel
  BY RoundRobinAssumption, GmlAssumption DEF ChannelIds
<1>2. \A ch \in Channel : Shutdown(ch) \in Frame
  BY DEF Shutdown, Frame
<1>3. ASSUME NEW f \in Inbound
      PROVE  /\ f \in Frame /\ f.channel \in Channel
             /\ f.action \in {"SHUTDOWN", "APPROVAL"}
             /\ f.action = "APPROVAL" => f.data \in Conn
  <2>1. CASE f \in {Shutdown(ch) : ch \in Channel}
    BY <1>2, <2>1 DEF Shutdown
  <2>2. CASE f \in [action : {"APPROVAL"}, channel : Channel,
                    verdict : {APPROVAL_APPROVE, APPROVAL_DENY}, data : Id]
    BY <2>2, GmlAssumption DEF Frame
  <2> QED
    BY <2>1, <2>2 DEF Inbound
<1>4. NoMessage \in Frame
  BY <1>1, <1>2 DEF NoMessage
<1> QED
  BY <1>3, <1>4

(* What Allocate does, with the channel it takes named.                     *)
LEMMA AllocateFacts ==
    ASSUME TypeOK, Allocate
    PROVE  \E ch \in Channel :
              /\ table[ch] = NoConn /\ After(ch) \in Channel
              /\ table' = [table EXCEPT ![ch] = accepted]
              /\ next_channel' = After(ch)
              /\ channelOf' = [channelOf EXCEPT ![accepted] = ch]
              /\ hasty' = IF Settled(ch) THEN hasty ELSE hasty \cup {accepted}
<1> DEFINE free == {ch \in Channel : table[ch] = NoConn}
           ch == NextFree(free, next_channel)
<1>1. free \in SUBSET Channel /\ free # {} /\ next_channel \in Channel
  BY DEF Allocate, TypeOK
<1> HIDE DEF free
<1>2. ch \in free /\ After(ch) \in Channel
  BY <1>1, AllocatesFree
<1>3. /\ table' = [table EXCEPT ![ch] = accepted]
      /\ next_channel' = After(ch)
      /\ channelOf' = [channelOf EXCEPT ![accepted] = ch]
      /\ hasty' = IF Settled(ch) THEN hasty ELSE hasty \cup {accepted}
  BY DEF Allocate, free
<1> HIDE DEF ch
<1> QED
  BY <1>2, <1>3 DEF free

(* At first.                                                                *)
LEMMA TypeInit == Init => TypeOK
<1>1. 0 \in Channel
  BY RoundRobinAssumption, GmlAssumption DEF ChannelIds
<1> QED
  BY <1>1, InboundFrames DEF Init, TypeOK

(* Every step keeps the variables in their ranges.                          *)
LEMMA TypeStep == TypeOK /\ [Next]_vars => TypeOK'
<1> SUFFICES ASSUME TypeOK, [Next]_vars PROVE TypeOK'
  OBVIOUS
<1> USE DEF registries, acceptVars, readerVars, handlerVars, history
<1>1. CASE UNCHANGED vars
  BY <1>1 DEF vars, TypeOK
<1>2. CASE Allocate
  <2>1. PICK ch \in Channel :
              /\ After(ch) \in Channel
              /\ table' = [table EXCEPT ![ch] = accepted]
              /\ next_channel' = After(ch)
              /\ channelOf' = [channelOf EXCEPT ![accepted] = ch]
              /\ hasty' \in {hasty, hasty \cup {accepted}}
    BY <1>2, AllocateFacts
  <2>2. accepted \in Conn
    BY <1>2 DEF Allocate, TypeOK
  <2>3. /\ table' \in [Channel -> Conn \cup {NoConn}] /\ next_channel' \in Channel
        /\ channelOf' \in [Conn -> Channel] /\ hasty' \subseteq Conn
    BY <2>1, <2>2 DEF TypeOK
  <2> QED
    BY <1>2, <2>3 DEF Allocate, TypeOK
<1>3. CASE AllocateFails
  BY <1>3 DEF AllocateFails, TypeOK
<1>4. CASE CreateApproval
  BY <1>4 DEF CreateApproval, TypeOK
<1>5. CASE CreateMailbox
  BY <1>5 DEF CreateMailbox, TypeOK
<1>6. CASE SpawnReader
  BY <1>6 DEF SpawnReader, TypeOK
<1>7. ASSUME NEW f \in Inbound, Take(f) PROVE TypeOK'
  <2>1. f \in Frame /\ f.channel \in Channel /\ (f.action = "APPROVAL" => f.data \in Conn)
    BY InboundFrames
  <2>2. CASE HandleShutdown(f)
    BY <1>7, <2>1, <2>2 DEF Take, HandleShutdown, TypeOK
  <2>3. CASE HandleApproval(f)
    BY <1>7, <2>1, <2>3, GmlAssumption DEF Take, HandleApproval, Matches, TypeOK
  <2>4. CASE HandleDenial(f)
    BY <1>7, <2>1, <2>4 DEF Take, HandleDenial, TypeOK
  <2> QED
    BY <1>7, <2>2, <2>3, <2>4 DEF Take
<1>8. CASE HandlerStep
  <2>1. msg.channel \in Channel /\ NoMessage \in Frame
    BY InboundFrames DEF TypeOK, Frame
  <2>2. CASE ArmFilter
    BY <2>1, <2>2 DEF ArmFilter, Done, TypeOK
  <2>3. CASE FindDenied
    BY <2>1, <2>3 DEF FindDenied, Done, TypeOK
  <2>4. CASE RequestTeardown
    BY <2>1, <2>4 DEF RequestTeardown, Done, TypeOK
  <2> QED
    BY <1>8, <2>2, <2>3, <2>4 DEF HandlerStep
<1>9. ASSUME NEW c \in Conn, Accept(c) \/ Establish(c) \/ ReaderBreaks(c) \/ ReaderStep(c)
      PROVE  TypeOK'
  <2> USE DEF Move
  <2>1. CASE Accept(c)
    BY <2>1 DEF Accept, TypeOK
  <2>2. CASE Establish(c) \/ ReaderBreaks(c) \/ maybe_replay(c) \/ Close(c)
    BY <2>2 DEF Establish, ReaderBreaks, maybe_replay, Close, TypeOK
  <2>3. CASE RequestApproval(c)
    BY <2>3 DEF RequestApproval, SetRequestId, SendCreate, TypeOK
  <2>4. CASE Unregister(c)
    BY <2>4 DEF Unregister, RemoveApproval, RemoveMailbox, RemoveChannel, TypeOK
  <2>5. CASE Announce(c)
    BY <2>5 DEF Announce, TypeOK
  <2>6. CASE ReaderStarts(c)
    BY <2>6 DEF ReaderStarts, TypeOK
  <2>7. CASE Drain(c)
    <3>1. announce' \in [Conn -> BOOLEAN]
      BY <2>7 DEF Drain, TypeOK
    <3> QED
      BY <2>7, <3>1 DEF Drain, TypeOK
  <2> QED
    BY <1>9, <2>1, <2>2, <2>3, <2>4, <2>5, <2>6, <2>7 DEF ReaderStep
<1> QED
  BY <1>1, <1>2, <1>3, <1>4, <1>5, <1>6, <1>7, <1>8, <1>9 DEF Next, Register

(* Every variable of gmlbroker stays in its range; in particular the send   *)
(* handler only acts on a mailbox or a flag that it has found, although the *)
(* registries change between its look-up and its use of what it found       *)
(* (guacamole_send_handler.cpp 59-135).                                     *)
THEOREM TypeCorrect == Spec => []TypeOK
  BY TypeInit, TypeStep, PTL DEF Spec

-----------------------------------------------------------------------------
(* Who has a channel, an approval entry and a mailbox.                      *)

Taken == \E c \in Conn : RemoveChannel(c, "teardown3", "announce")
Unapproved == \E c \in Conn : RemoveApproval(c, "teardown1", "teardown2")
Unposted == \E c \in Conn : RemoveMailbox(c, "teardown2", "teardown3")

(* The steps of a thread, one by one.                                       *)
LEMMA Steps ==
    ASSUME Next
    PROVE  \/ Allocate \/ AllocateFails \/ CreateApproval \/ CreateMailbox \/ SpawnReader
           \/ \E f \in Inbound : Take(f)
           \/ ArmFilter \/ FindDenied \/ RequestTeardown
           \/ Unapproved \/ Unposted \/ Taken
           \/ \E c \in Conn :
                 \/ Accept(c) \/ ReaderStarts(c) \/ Establish(c)
                 \/ SetRequestId(c, "set", "create") \/ SendCreate(c, "create", "poll")
                 \/ maybe_replay(c) \/ Drain(c) \/ ReaderBreaks(c)
                 \/ Announce(c) \/ Close(c)
  BY DEF Next, Register, HandlerStep, ReaderStep, RequestApproval, Unregister, Taken,
         Unapproved, Unposted

(* Only the operation of a registry changes it and who is entered in it.    *)
LEMMA RegistrySteps ==
    ASSUME TypeOK, AcceptInv, Next
    PROVE  /\ \/ Allocate \/ Taken
              \/ UNCHANGED <<table, channelOf>> /\ \A d \in Conn : Holds(d)' <=> Holds(d)
           /\ \/ CreateApproval \/ Unapproved
              \/ UNCHANGED owner /\ \A d \in Conn : HasApproval(d)' <=> HasApproval(d)
           /\ \/ CreateMailbox \/ Unposted
              \/ UNCHANGED mailboxes /\ \A d \in Conn : HasMailbox(d)' <=> HasMailbox(d)
           /\ Allocate \/ UNCHANGED channelOf
<1> DEFINE T == UNCHANGED <<table, channelOf>> /\ \A d \in Conn : Holds(d)' <=> Holds(d)
           O == UNCHANGED owner /\ \A d \in Conn : HasApproval(d)' <=> HasApproval(d)
           M == UNCHANGED mailboxes /\ \A d \in Conn : HasMailbox(d)' <=> HasMailbox(d)
<1> USE DEF registries, acceptVars, readerVars, handlerVars, history, Holds, HasApproval,
            HasMailbox, Serving, Move
<1>1. CASE Allocate
  BY <1>1 DEF Allocate, TypeOK, AcceptInv
<1>2. CASE AllocateFails
  BY <1>2 DEF AllocateFails, TypeOK, AcceptInv
<1>3. CASE CreateApproval
  BY <1>3 DEF CreateApproval, TypeOK, AcceptInv
<1>4. CASE CreateMailbox
  BY <1>4 DEF CreateMailbox, TypeOK, AcceptInv
<1>5. CASE SpawnReader
  BY <1>5 DEF SpawnReader, TypeOK, AcceptInv
<1>6. CASE (\E f \in Inbound : Take(f)) \/ ArmFilter \/ FindDenied \/ RequestTeardown
  BY <1>6 DEF Take, ArmFilter, FindDenied, RequestTeardown
<1>7. CASE Unapproved
  <2>1. PICK c \in Conn : RemoveApproval(c, "teardown1", "teardown2")
    BY <1>7 DEF Unapproved
  <2>2. /\ reader[c] = "teardown1" /\ reader' = [reader EXCEPT ![c] = "teardown2"]
        /\ UNCHANGED <<table, mailboxes, channelOf, accept, accepted>>
    BY <2>1 DEF RemoveApproval
  <2>3. T /\ M
    BY <2>2 DEF TypeOK
  <2> QED
    BY <1>7, <2>2, <2>3
<1>8. CASE Unposted
  <2>1. PICK c \in Conn : RemoveMailbox(c, "teardown2", "teardown3")
    BY <1>8 DEF Unposted
  <2>2. /\ reader[c] = "teardown2" /\ reader' = [reader EXCEPT ![c] = "teardown3"]
        /\ UNCHANGED <<table, owner, channelOf, accept, accepted>>
    BY <2>1 DEF RemoveMailbox
  <2>3. T /\ O
    BY <2>2 DEF TypeOK
  <2> QED
    BY <1>8, <2>2, <2>3
<1>9. CASE Taken
  <2>1. PICK c \in Conn : RemoveChannel(c, "teardown3", "announce")
    BY <1>9 DEF Taken
  <2>2. /\ reader[c] = "teardown3" /\ reader' = [reader EXCEPT ![c] = "announce"]
        /\ UNCHANGED <<owner, mailboxes, channelOf, accept, accepted>>
    BY <2>1 DEF RemoveChannel
  <2>3. O /\ M
    BY <2>2 DEF TypeOK
  <2> QED
    BY <1>9, <2>2, <2>3
<1>10. ASSUME NEW c \in Conn, Accept(c) \/ maybe_replay(c)
       PROVE  T /\ O /\ M
  BY <1>10 DEF Accept, maybe_replay, AcceptInv, TypeOK
<1>11. ASSUME NEW c \in Conn, NEW from, NEW to, Move(c, from, to),
              UNCHANGED <<table, owner, mailboxes, acceptVars>>,
              <<from, to>> \in {<<"start", "poll">>, <<"poll", "set">>, <<"set", "create">>,
                               <<"create", "poll">>, <<"announce", "close">>,
                               <<"close", "gone">>}
       PROVE  T /\ O /\ M
  BY <1>11 DEF TypeOK
<1>12. ASSUME NEW c \in Conn,
              \/ ReaderStarts(c) \/ Establish(c) \/ SetRequestId(c, "set", "create")
              \/ SendCreate(c, "create", "poll") \/ Announce(c) \/ Close(c)
       PROVE  T /\ O /\ M
  <2>1. UNCHANGED <<table, owner, mailboxes, acceptVars>>
    BY <1>12 DEF ReaderStarts, Establish, SetRequestId, SendCreate, Announce, Close
  <2>2. \/ Move(c, "start", "poll") \/ Move(c, "poll", "set") \/ Move(c, "set", "create")
        \/ Move(c, "create", "poll") \/ Move(c, "announce", "close")
        \/ Move(c, "close", "gone")
    BY <1>12 DEF ReaderStarts, Establish, SetRequestId, SendCreate, Announce, Close
  <2> QED
    BY <1>11, <2>1, <2>2
<1>13. ASSUME NEW c \in Conn, Drain(c) \/ ReaderBreaks(c)
       PROVE  T /\ O /\ M
  <2>1. UNCHANGED <<table, owner, mailboxes, acceptVars>> /\ Move(c, "poll", "teardown1")
    BY <1>13 DEF Drain, ReaderBreaks
  <2> QED
    BY <2>1 DEF TypeOK
<1> QED
  BY <1>1, <1>2, <1>3, <1>4, <1>5, <1>6, <1>7, <1>8, <1>9, <1>10, <1>12, <1>13, Steps

(* The accept thread.                                                       *)
LEMMA AcceptStep ==
    ASSUME TypeOK, AcceptInv, Next
    PROVE  AcceptInv'
<1> USE DEF registries, acceptVars, readerVars, handlerVars, history, Move
<1>1. CASE Allocate \/ CreateApproval \/ CreateMailbox
  BY <1>1 DEF Allocate, CreateApproval, CreateMailbox, AcceptInv
<1>2. CASE AllocateFails \/ SpawnReader
  BY <1>2 DEF AllocateFails, SpawnReader, AcceptInv
<1>3. ASSUME NEW c \in Conn, Accept(c) PROVE AcceptInv'
  BY <1>3, GmlAssumption DEF Accept, AcceptInv
<1>4. CASE (\E f \in Inbound : Take(f)) \/ ArmFilter \/ FindDenied \/ RequestTeardown
  BY <1>4 DEF Take, ArmFilter, FindDenied, RequestTeardown, AcceptInv
<1>5. CASE Unapproved \/ Unposted \/ Taken
  BY <1>5 DEF Unapproved, RemoveApproval, Unposted, RemoveMailbox, Taken, RemoveChannel,
              AcceptInv, TypeOK
<1>6. ASSUME NEW c \in Conn,
             \/ ReaderStarts(c) \/ Establish(c) \/ SetRequestId(c, "set", "create")
             \/ SendCreate(c, "create", "poll") \/ maybe_replay(c)
      PROVE  AcceptInv'
  BY <1>6 DEF ReaderStarts, Establish, SetRequestId, SendCreate, maybe_replay, AcceptInv, TypeOK
<1>7. ASSUME NEW c \in Conn, Drain(c) \/ ReaderBreaks(c) \/ Announce(c) \/ Close(c)
      PROVE  AcceptInv'
  BY <1>7 DEF Drain, ReaderBreaks, Announce, Close, AcceptInv, TypeOK
<1> QED
  BY <1>1, <1>2, <1>3, <1>4, <1>5, <1>6, <1>7, Steps

(* Two connections never have the same channel.                             *)
LEMMA OneHolder ==
    ASSUME TableInv, NEW c \in Conn, NEW d \in Conn, Holds(c), Holds(d),
           channelOf[c] = channelOf[d]
    PROVE  c = d
  BY DEF TableInv

(* The channel table: Allocate takes a free channel, and only the one who   *)
(* has a channel gives it back.                                             *)
LEMMA TableStep ==
    ASSUME TypeOK, AcceptInv, TableInv, Next
    PROVE  TableInv'
<1>1. CASE UNCHANGED <<table, channelOf>> /\ \A d \in Conn : Holds(d)' <=> Holds(d)
  <2>1. \A ch \in Channel : table[ch] \in Conn \cup {NoConn}
    BY DEF TypeOK
  <2> QED
    BY <1>1, <2>1 DEF TableInv
<1>2. CASE Allocate
  <2>1. PICK ch \in Channel :
              /\ table[ch] = NoConn
              /\ table' = [table EXCEPT ![ch] = accepted]
              /\ channelOf' = [channelOf EXCEPT ![accepted] = ch]
    BY <1>2, AllocateFacts
  <2>2. /\ accepted \in Conn /\ accepted' = accepted /\ reader' = reader
        /\ accept = "allocate" /\ accept' = "approvals" /\ reader[accepted] = "none"
    BY <1>2, GmlAssumption DEF Allocate, readerVars, TypeOK, AcceptInv
  <2>3. Holds(accepted)' /\ ~Holds(accepted)
    BY <2>2 DEF Holds
  <2>4. \A d \in Conn : d # accepted => (Holds(d)' <=> Holds(d)) /\ channelOf'[d] = channelOf[d]
    BY <2>1, <2>2 DEF Holds, TypeOK
  <2>5. channelOf'[accepted] = ch /\ \A x \in Channel : x # ch => table'[x] = table[x]
    BY <2>1, <2>2 DEF TypeOK
  <2>6. table'[ch] = accepted /\ \A x \in Channel : table[x] \in Conn \cup {NoConn}
    BY <2>1 DEF TypeOK
  <2>7. \A d \in Conn : channelOf[d] \in Channel /\ d # NoConn
    BY GmlAssumption DEF TypeOK
  <2>8. \A d \in Conn : Holds(d)' => table'[channelOf'[d]] = d
    BY <2>1, <2>3, <2>4, <2>5, <2>6, <2>7 DEF TableInv
  <2>9. ASSUME NEW x \in Channel, table'[x] # NoConn
        PROVE  (Holds(table[x]) /\ channelOf[table[x]] = x)'
    <3>1. CASE x = ch
      BY <2>2, <2>5, <2>6, <3>1 DEF Holds
    <3>2. CASE x # ch
      <4>1. PICK d \in Conn : table'[x] = d /\ Holds(d) /\ channelOf[d] = x
        BY <2>5, <2>6, <2>9, <3>2 DEF TableInv
      <4>2. d # accepted
        BY <2>3, <4>1
      <4>3. channelOf'[d] = x /\ Holds(d)'
        BY <2>4, <4>1, <4>2
      <4> QED
        BY <4>1, <4>3 DEF Holds
    <3> QED
      BY <3>1, <3>2
  <2> QED
    BY <2>8, <2>9 DEF TableInv
<1>3. CASE Taken
  <2>1. PICK c \in Conn : RemoveChannel(c, "teardown3", "announce")
    BY <1>3 DEF Taken
  <2>2. /\ table' = [table EXCEPT ![channelOf[c]] = NoConn]
        /\ reader[c] = "teardown3" /\ reader' = [reader EXCEPT ![c] = "announce"]
        /\ UNCHANGED <<channelOf, accept, accepted>>
    BY <2>1 DEF RemoveChannel, Move, acceptVars
  <2>3. Holds(c) /\ ~Holds(c)' /\ \A d \in Conn : d # c => (Holds(d)' <=> Holds(d))
    BY <2>2 DEF Holds, TypeOK, AcceptInv
  <2>4. \A d \in Conn : d # c /\ Holds(d) => channelOf[d] # channelOf[c]
    BY <2>3, OneHolder
  <2> QED
    BY <2>2, <2>3, <2>4 DEF TableInv, TypeOK
<1> QED
  BY <1>1, <1>2, <1>3, RegistrySteps

(* Who is entered in a registry has the channel.                            *)
LEMMA EntriesHeld ==
    ASSUME NEW c \in Conn
    PROVE  (HasApproval(c) => Holds(c)) /\ (HasMailbox(c) => Holds(c))
  BY DEF HasApproval, HasMailbox, Holds, Serving

(* The approvals: an entry is made and removed by who has the channel.      *)
LEMMA OwnerStep ==
    ASSUME TypeOK, AcceptInv, TableInv, OwnerInv, Next
    PROVE  OwnerInv'
<1>1. CASE UNCHANGED owner /\ \A d \in Conn : HasApproval(d)' <=> HasApproval(d)
  <2>1. \A d \in Conn : HasApproval(d) => channelOf'[d] = channelOf[d]
    <3>1. CASE Allocate
      <4>1. accepted \in Conn /\ accept = "allocate" /\ reader[accepted] = "none"
        BY <3>1, GmlAssumption DEF Allocate, TypeOK, AcceptInv
      <4>2. ~HasApproval(accepted)
        BY <4>1 DEF HasApproval, Serving
      <4>3. \E ch \in Channel : channelOf' = [channelOf EXCEPT ![accepted] = ch]
        BY <3>1, AllocateFacts
      <4> QED
        BY <4>1, <4>2, <4>3 DEF TypeOK
    <3> QED
      BY <3>1, RegistrySteps
  <2>2. \A ch \in Channel : owner[ch] \in Conn \cup {NoConn}
    BY DEF TypeOK
  <2> QED
    BY <1>1, <2>1, <2>2 DEF OwnerInv
<1>2. CASE CreateApproval
  <2>1. /\ owner' = [owner EXCEPT ![channelOf[accepted]] = accepted]
        /\ accepted \in Conn /\ accept = "approvals" /\ accept' = "mailboxes"
        /\ UNCHANGED <<reader, accepted, channelOf>>
    BY <1>2 DEF CreateApproval, TypeOK, readerVars
  <2>2. Holds(accepted) /\ HasApproval(accepted)'
    BY <2>1 DEF Holds, HasApproval
  <2>3. \A d \in Conn : d # accepted => (HasApproval(d)' <=> HasApproval(d))
    BY <2>1 DEF HasApproval, Serving
  <2>4. \A d \in Conn : d # accepted /\ HasApproval(d) => channelOf[d] # channelOf[accepted]
    BY <2>1, <2>2, OneHolder, EntriesHeld
  <2>5. \A d \in Conn : HasApproval(d)' => owner'[channelOf'[d]] = d
    BY <2>1, <2>3, <2>4 DEF OwnerInv, TypeOK
  <2>6. ASSUME NEW ch \in Channel, owner'[ch] # NoConn
        PROVE  (HasApproval(owner[ch]) /\ channelOf[owner[ch]] = ch)'
    <3>1. PICK d \in Conn : /\ d = owner'[ch] /\ channelOf[d] = ch
                            /\ d = accepted \/ HasApproval(d)
      BY <2>1, <2>6 DEF OwnerInv, TypeOK
    <3>2. HasApproval(d)' /\ channelOf'[d] = ch
      BY <2>1, <2>2, <2>3, <3>1 DEF HasApproval, Serving
    <3> QED
      BY <3>1, <3>2 DEF HasApproval, Serving
  <2> QED
    BY <2>5, <2>6 DEF OwnerInv
<1>3. CASE Unapproved
  <2>1. PICK c \in Conn : RemoveApproval(c, "teardown1", "teardown2")
    BY <1>3 DEF Unapproved
  <2>2. /\ owner' = [owner EXCEPT ![channelOf[c]] = NoConn]
        /\ reader[c] = "teardown1" /\ reader' = [reader EXCEPT ![c] = "teardown2"]
        /\ UNCHANGED <<channelOf, accept, accepted>>
    BY <2>1 DEF RemoveApproval, Move, acceptVars
  <2>3. HasApproval(c) /\ ~HasApproval(c)' /\ \A d \in Conn : d # c => (HasApproval(d)' <=> HasApproval(d))
    BY <2>2, GmlAssumption DEF HasApproval, Serving, TypeOK, AcceptInv
  <2>4. \A d \in Conn : d # c /\ HasApproval(d) => channelOf[d] # channelOf[c]
    BY <2>3, OneHolder, EntriesHeld
  <2> QED
    BY <2>2, <2>3, <2>4 DEF OwnerInv, TypeOK
<1> QED
  BY <1>1, <1>2, <1>3, RegistrySteps

(* The mailboxes, likewise.                                                 *)
LEMMA MailboxStep ==
    ASSUME TypeOK, AcceptInv, TableInv, MailboxInv, Next
    PROVE  MailboxInv'
<1>1. CASE UNCHANGED mailboxes /\ \A d \in Conn : HasMailbox(d)' <=> HasMailbox(d)
  <2>1. \A d \in Conn : HasMailbox(d) => channelOf'[d] = channelOf[d]
    <3>1. CASE Allocate
      <4>1. accepted \in Conn /\ accept = "allocate" /\ reader[accepted] = "none"
        BY <3>1, GmlAssumption DEF Allocate, TypeOK, AcceptInv
      <4>2. ~HasMailbox(accepted)
        BY <4>1 DEF HasMailbox, Serving
      <4>3. \E ch \in Channel : channelOf' = [channelOf EXCEPT ![accepted] = ch]
        BY <3>1, AllocateFacts
      <4> QED
        BY <4>1, <4>2, <4>3 DEF TypeOK
    <3> QED
      BY <3>1, RegistrySteps
  <2>2. \A ch \in Channel : mailboxes[ch] \in Conn \cup {NoConn}
    BY DEF TypeOK
  <2> QED
    BY <1>1, <2>1, <2>2 DEF MailboxInv
<1>2. CASE CreateMailbox
  <2>1. /\ mailboxes' = [mailboxes EXCEPT ![channelOf[accepted]] = accepted]
        /\ accepted \in Conn /\ accept = "mailboxes" /\ accept' = "spawn"
        /\ UNCHANGED <<reader, accepted, channelOf>>
    BY <1>2 DEF CreateMailbox, TypeOK, readerVars
  <2>2. Holds(accepted) /\ HasMailbox(accepted)'
    BY <2>1 DEF Holds, HasMailbox
  <2>3. \A d \in Conn : d # accepted => (HasMailbox(d)' <=> HasMailbox(d))
    BY <2>1 DEF HasMailbox, Serving
  <2>4. \A d \in Conn : d # accepted /\ HasMailbox(d) => channelOf[d] # channelOf[accepted]
    BY <2>1, <2>2, OneHolder, EntriesHeld
  <2>5. \A d \in Conn : HasMailbox(d)' => mailboxes'[channelOf'[d]] = d
    BY <2>1, <2>3, <2>4 DEF MailboxInv, TypeOK
  <2>6. ASSUME NEW ch \in Channel, mailboxes'[ch] # NoConn
        PROVE  (HasMailbox(mailboxes[ch]) /\ channelOf[mailboxes[ch]] = ch)'
    <3>1. PICK d \in Conn : /\ d = mailboxes'[ch] /\ channelOf[d] = ch
                            /\ d = accepted \/ HasMailbox(d)
      BY <2>1, <2>6 DEF MailboxInv, TypeOK
    <3>2. HasMailbox(d)' /\ channelOf'[d] = ch
      BY <2>1, <2>2, <2>3, <3>1 DEF HasMailbox, Serving
    <3> QED
      BY <3>1, <3>2 DEF HasMailbox, Serving
  <2> QED
    BY <2>5, <2>6 DEF MailboxInv
<1>3. CASE Unposted
  <2>1. PICK c \in Conn : RemoveMailbox(c, "teardown2", "teardown3")
    BY <1>3 DEF Unposted
  <2>2. /\ mailboxes' = [mailboxes EXCEPT ![channelOf[c]] = NoConn]
        /\ reader[c] = "teardown2" /\ reader' = [reader EXCEPT ![c] = "teardown3"]
        /\ UNCHANGED <<channelOf, accept, accepted>>
    BY <2>1 DEF RemoveMailbox, Move, acceptVars
  <2>3. HasMailbox(c) /\ ~HasMailbox(c)' /\ \A d \in Conn : d # c => (HasMailbox(d)' <=> HasMailbox(d))
    BY <2>2, GmlAssumption DEF HasMailbox, Serving, TypeOK, AcceptInv
  <2>4. \A d \in Conn : d # c /\ HasMailbox(d) => channelOf[d] # channelOf[c]
    BY <2>3, OneHolder, EntriesHeld
  <2> QED
    BY <2>2, <2>3, <2>4 DEF MailboxInv, TypeOK
<1> QED
  BY <1>1, <1>2, <1>3, RegistrySteps

-----------------------------------------------------------------------------
(* What the readers have done.                                              *)

RegInv == TypeOK /\ AcceptInv /\ TableInv /\ OwnerInv /\ MailboxInv

(* Nobody but the one who has a channel changes its request id.             *)
LEMMA RequestIdStep ==
    ASSUME RegInv, Next, NEW c \in Conn, Serving(c)
    PROVE  \/ request_id'[channelOf[c]] = request_id[channelOf[c]]
           \/ SetRequestId(c, "set", "create") /\ request_id'[channelOf[c]] = c
<1> DEFINE ch == channelOf[c]
<1>1. Holds(c) /\ ch \in Channel /\ owner[ch] = c /\ reader[c] # "none" /\ c # NoConn
  BY GmlAssumption DEF Serving, Holds, RegInv, TypeOK, OwnerInv, HasApproval
<1>2. \A d \in Conn : d # c /\ Holds(d) => channelOf[d] # ch
  BY <1>1, OneHolder DEF RegInv
<1>3. CASE CreateApproval
  <2>1. accepted \in Conn /\ Holds(accepted) /\ accepted # c
    BY <1>1, <1>3 DEF CreateApproval, Holds, RegInv, TypeOK, AcceptInv
  <2> QED
    BY <1>1, <1>2, <1>3, <2>1 DEF CreateApproval, RegInv, TypeOK
<1>4. CASE Unapproved
  <2>1. PICK d \in Conn : RemoveApproval(d, "teardown1", "teardown2")
    BY <1>4 DEF Unapproved
  <2>2. Holds(d) /\ d # c
    BY <2>1 DEF RemoveApproval, Move, Holds, Serving
  <2> QED
    BY <1>1, <1>2, <2>1, <2>2 DEF RemoveApproval, RegInv, TypeOK
<1>5. ASSUME NEW d \in Conn, SetRequestId(d, "set", "create"), d # c
      PROVE  request_id'[ch] = request_id[ch]
  <2>1. channelOf[d] # ch
    BY <1>2, <1>5 DEF SetRequestId, Move, Holds
  <2> QED
    BY <1>1, <1>5, <2>1 DEF SetRequestId, RegInv, TypeOK
<1>6. SetRequestId(c, "set", "create") => request_id'[ch] = c
  BY <1>1 DEF SetRequestId, RegInv, TypeOK
<1>7. \/ UNCHANGED request_id \/ CreateApproval \/ Unapproved
      \/ \E d \in Conn : SetRequestId(d, "set", "create")
  BY Steps DEF Allocate, AllocateFails, CreateMailbox, SpawnReader, Take, ArmFilter,
     FindDenied, RequestTeardown, Unposted, RemoveMailbox, Taken, RemoveChannel, Accept,
     ReaderStarts, Establish, SendCreate, maybe_replay, Drain, ReaderBreaks, Announce, Close,
     registries
<1> QED
  BY <1>3, <1>4, <1>5, <1>6, <1>7

(* How a reader moves on.                                                   *)
LEMMA ReaderMoves ==
    ASSUME RegInv, Next, NEW c \in Conn
    PROVE  /\ \/ reader'[c] = reader[c]
              \/ AllocateFails /\ reader[c] = "none" /\ reader'[c] = "gone"
              \/ SpawnReader /\ reader[c] = "none" /\ reader'[c] = "start"
              \/ ReaderStarts(c) \/ Establish(c) \/ SetRequestId(c, "set", "create")
              \/ SendCreate(c, "create", "poll") \/ Drain(c) \/ ReaderBreaks(c)
              \/ RemoveApproval(c, "teardown1", "teardown2")
              \/ RemoveMailbox(c, "teardown2", "teardown3")
              \/ RemoveChannel(c, "teardown3", "announce")
              \/ Announce(c) \/ Close(c)
           /\ phase'[c] = phase[c] \/ Establish(c) \/ maybe_replay(c)
           /\ reader[c] # "none" => channelOf'[c] = channelOf[c]
<1> USE DEF registries, acceptVars, readerVars, handlerVars, history, Move, RegInv
<1>1. CASE Allocate
  <2>1. \E ch \in Channel : channelOf' = [channelOf EXCEPT ![accepted] = ch]
    BY <1>1, AllocateFacts
  <2>2. accepted \in Conn /\ reader[accepted] = "none" /\ UNCHANGED <<reader, phase>>
    BY <1>1, GmlAssumption DEF Allocate, AcceptInv, TypeOK
  <2> QED
    BY <2>1, <2>2 DEF TypeOK
<1>2. CASE AllocateFails \/ SpawnReader
  BY <1>2 DEF AllocateFails, SpawnReader, AcceptInv, TypeOK
<1>3. CASE \/ CreateApproval \/ CreateMailbox \/ \E f \in Inbound : Take(f)
           \/ ArmFilter \/ FindDenied \/ RequestTeardown
  BY <1>3 DEF CreateApproval, CreateMailbox, Take, ArmFilter, FindDenied, RequestTeardown
<1>4. CASE Unapproved \/ Unposted \/ Taken
  BY <1>4 DEF Unapproved, RemoveApproval, Unposted, RemoveMailbox, Taken, RemoveChannel, TypeOK
<1>5. ASSUME NEW d \in Conn, Accept(d) \/ ReaderStarts(d) \/ Establish(d) \/ maybe_replay(d)
      PROVE  /\ reader'[c] = reader[c] \/ (d = c /\ (ReaderStarts(c) \/ Establish(c)))
             /\ phase'[c] = phase[c] \/ (d = c /\ (Establish(c) \/ maybe_replay(c)))
             /\ channelOf' = channelOf
  BY <1>5 DEF Accept, ReaderStarts, Establish, maybe_replay, TypeOK
<1>6. ASSUME NEW d \in Conn, SetRequestId(d, "set", "create") \/ SendCreate(d, "create", "poll")
      PROVE  /\ \/ reader'[c] = reader[c]
                \/ SetRequestId(c, "set", "create") \/ SendCreate(c, "create", "poll")
             /\ UNCHANGED <<phase, channelOf>>
  BY <1>6 DEF SetRequestId, SendCreate, TypeOK
<1>7. ASSUME NEW d \in Conn, Drain(d) \/ ReaderBreaks(d) \/ Announce(d) \/ Close(d)
      PROVE  /\ \/ reader'[c] = reader[c]
                \/ Drain(c) \/ ReaderBreaks(c) \/ Announce(c) \/ Close(c)
             /\ UNCHANGED <<phase, channelOf>>
  BY <1>7 DEF Drain, ReaderBreaks, Announce, Close, TypeOK
<1> QED
  BY <1>1, <1>2, <1>3, <1>4, <1>5, <1>6, <1>7, Steps

(* A reader holds its own flag and mailbox, and asks after the handshake.   *)
LEMMA ReaderInvStep ==
    ASSUME RegInv, ReaderInv, Next
    PROVE  ReaderInv'
<1> SUFFICES ASSUME NEW c \in Conn
             PROVE  /\ flag'[c] \in {c, NoConn} /\ mailbox'[c] \in {c, NoConn}
                    /\ reader'[c] \in {"none", "start"} => phase'[c] = "handshake"
                    /\ reader'[c] \in {"set", "create"} => phase'[c] = "established"
                    /\ reader'[c] = "create" => request_id'[channelOf'[c]] = c
  BY DEF ReaderInv
<1> USE DEF RegInv, Move
<1>1. /\ reader[c] \in {"none", "start"} => phase[c] = "handshake"
      /\ reader[c] \in {"set", "create"} => phase[c] = "established"
      /\ reader[c] = "create" => request_id[channelOf[c]] = c
  BY DEF ReaderInv
<1>2. /\ reader'[c] \in {"none", "start"} =>
            reader[c] \in {"none", "start"} /\ phase'[c] = phase[c]
      /\ reader'[c] \in {"set", "create"} =>
            \/ reader[c] \in {"set", "create"} /\ phase'[c] = phase[c]
            \/ phase'[c] = "established"
  <2>1. (Establish(c) => reader'[c] = "set" /\ phase'[c] = "established")
        /\ (maybe_replay(c) => reader'[c] = "poll")
    BY DEF Establish, maybe_replay, readerVars, TypeOK
  <2> QED
    BY <2>1, ReaderMoves DEF ReaderStarts, Establish, SetRequestId, SendCreate, Drain,
       ReaderBreaks, RemoveApproval, RemoveMailbox, RemoveChannel, Announce, Close, TypeOK
<1>3. reader'[c] = "create" => request_id'[channelOf'[c]] = c
  <2> SUFFICES ASSUME reader'[c] = "create" PROVE request_id'[channelOf'[c]] = c
    OBVIOUS
  <2>1. reader[c] = "create" \/ SetRequestId(c, "set", "create")
    BY ReaderMoves DEF ReaderStarts, Establish, SendCreate, Drain, ReaderBreaks,
       RemoveApproval, RemoveMailbox, RemoveChannel, Announce, Close, TypeOK
  <2>2. Serving(c) /\ channelOf'[c] = channelOf[c]
    BY <2>1, ReaderMoves DEF SetRequestId, Serving
  <2>3. SetRequestId(c, "set", "create") => reader[c] = "set" /\ request_id'[channelOf[c]] = c
    <3>1. owner[channelOf[c]] = c /\ c # NoConn
      BY <2>2, GmlAssumption DEF OwnerInv, HasApproval
    <3> QED
      BY <3>1 DEF SetRequestId, TypeOK
  <2> QED
    BY <1>1, <2>1, <2>2, <2>3, RequestIdStep
<1>4. flag'[c] \in {c, NoConn} /\ mailbox'[c] \in {c, NoConn}
  <2>1. \/ flag' = flag /\ mailbox' = mailbox
        \/ \E d \in Conn : ReaderStarts(d)
    BY Steps DEF Allocate, AllocateFails, CreateApproval, CreateMailbox, SpawnReader, Take,
       ArmFilter, FindDenied, RequestTeardown, Unapproved, RemoveApproval, Unposted,
       RemoveMailbox, Taken, RemoveChannel, Accept, Establish, SetRequestId, SendCreate,
       maybe_replay, Drain, ReaderBreaks, Announce, Close, readerVars
  <2>2. ASSUME NEW d \in Conn, ReaderStarts(d)
        PROVE  flag'[c] \in {c, NoConn} /\ mailbox'[c] \in {c, NoConn}
    <3>1. Serving(d)
      BY <2>2 DEF ReaderStarts, Serving
    <3>2. owner[channelOf[d]] = d /\ mailboxes[channelOf[d]] = d
      BY <3>1 DEF OwnerInv, MailboxInv, HasApproval, HasMailbox
    <3> QED
      BY <2>2, <3>2 DEF ReaderStarts, ReaderInv, TypeOK
  <2> QED
    BY <2>1, <2>2 DEF ReaderInv
<1> QED
  BY <1>1, <1>2, <1>3, <1>4

(* A request id is registered once the handshake is complete.               *)
LEMMA RequestStep ==
    ASSUME RegInv, ReaderInv, RequestInv, Next
    PROVE  RequestInv'
<1> SUFFICES ASSUME NEW ch \in Channel, request_id'[ch] # NoConn
             PROVE  request_id'[ch] = owner'[ch] /\ (phase[owner[ch]])' # "handshake"
  BY DEF RequestInv
<1> USE DEF RegInv
<1>1. ASSUME NEW c \in Conn, phase[c] # "handshake" PROVE phase'[c] # "handshake"
  BY <1>1, ReaderMoves DEF Establish, maybe_replay, TypeOK
<1>2. \A x \in Channel : owner[x] \in Conn \cup {NoConn} /\ request_id[x] \in Conn \cup {NoConn}
  BY DEF TypeOK
<1>3. CASE request_id'[ch] = request_id[ch] /\ owner'[ch] = owner[ch]
  BY <1>1, <1>2, <1>3 DEF RequestInv
<1>4. CASE CreateApproval
  BY <1>3, <1>4 DEF CreateApproval, TypeOK
<1>5. CASE Unapproved
  BY <1>3, <1>5 DEF Unapproved, RemoveApproval, TypeOK
<1>6. ASSUME NEW c \in Conn, SetRequestId(c, "set", "create"), ch = channelOf[c]
      PROVE  request_id'[ch] = owner'[ch] /\ (phase[owner[ch]])' # "handshake"
  <2>1. Serving(c) /\ reader[c] = "set" /\ UNCHANGED <<owner, phase>>
    BY <1>6 DEF SetRequestId, Move, Serving
  <2>2. owner[ch] = c /\ phase[c] = "established"
    BY <1>6, <2>1 DEF OwnerInv, HasApproval, ReaderInv
  <2> QED
    BY <1>6, <2>1, <2>2, GmlAssumption DEF SetRequestId, TypeOK
<1>7. ASSUME NEW c \in Conn, SetRequestId(c, "set", "create"), ch # channelOf[c]
      PROVE  request_id'[ch] = request_id[ch] /\ owner'[ch] = owner[ch]
  BY <1>7 DEF SetRequestId, TypeOK
<1>8. \/ UNCHANGED <<request_id, owner>> \/ CreateApproval \/ Unapproved
      \/ \E d \in Conn : SetRequestId(d, "set", "create")
  BY Steps DEF Allocate, AllocateFails, CreateMailbox, SpawnReader, Take, ArmFilter,
     FindDenied, RequestTeardown, Unposted, RemoveMailbox, Taken, RemoveChannel, Accept,
     ReaderStarts, Establish, SendCreate, maybe_replay, Drain, ReaderBreaks, Announce, Close,
     registries
<1> QED
  BY <1>3, <1>4, <1>5, <1>6, <1>7, <1>8

(* A CREATE that stands on the bridge.                                      *)
LEMMA SessionStep ==
    ASSUME RegInv, ReaderInv, SessionInv, Next
    PROVE  SessionInv'
<1> SUFFICES ASSUME NEW c \in Conn, NEW ch \in Channel, session'[ch] = c
             PROVE  /\ channelOf'[c] = ch /\ phase'[c] # "handshake"
                    /\ reader'[c] \notin {"none", "start", "set", "create"}
                    /\ Serving(c)' => request_id'[ch] = c
  BY DEF SessionInv, Serving
<1> USE DEF RegInv, Move
<1>1. CASE session[ch] = c
  <2>1. /\ channelOf[c] = ch /\ phase[c] # "handshake"
        /\ reader[c] \notin {"none", "start", "set", "create"}
        /\ Serving(c) => request_id[ch] = c
    BY <1>1 DEF SessionInv
  <2>2. channelOf'[c] = ch /\ phase'[c] # "handshake"
    BY <2>1, ReaderMoves DEF Establish, maybe_replay, TypeOK
  <2>3. reader'[c] \notin {"none", "start", "set", "create"} /\ (Serving(c)' => Serving(c))
    BY <2>1, ReaderMoves DEF ReaderStarts, Establish, SetRequestId, SendCreate, Drain,
       ReaderBreaks, RemoveApproval, RemoveMailbox, RemoveChannel, Announce, Close, TypeOK,
       Serving
  <2>4. Serving(c)' => request_id'[ch] = c
    BY <2>1, <2>3, RequestIdStep DEF SetRequestId
  <2> QED
    BY <2>2, <2>3, <2>4
<1>2. CASE session[ch] # c
  <2>1. SendCreate(c, "create", "poll") /\ ch = channelOf[c]
    <3>1. \/ session' = session \/ (\E d \in Conn : SendCreate(d, "create", "poll"))
          \/ \E d \in Conn : Announce(d)
      BY Steps DEF Allocate, AllocateFails, CreateApproval, CreateMailbox, SpawnReader, Take,
         ArmFilter, FindDenied, RequestTeardown, Unapproved, RemoveApproval, Unposted,
         RemoveMailbox, Taken, RemoveChannel, Accept, ReaderStarts, Establish, SetRequestId,
         maybe_replay, Drain, ReaderBreaks, Close, history
    <3> QED
      BY <1>2, <3>1, GmlAssumption DEF SendCreate, Announce, TypeOK
  <2>2. phase[c] = "established" /\ request_id[ch] = c
    BY <2>1 DEF ReaderInv, SendCreate
  <2> QED
    BY <2>1, <2>2 DEF SendCreate, registries, acceptVars, TypeOK
<1> QED
  BY <1>1, <1>2

(* Approvals: the id test and the flag are one step, so the flag that is    *)
(* set is the one whose id was granted.                                     *)
LEMMA GrantStep ==
    ASSUME RegInv, ReaderInv, RequestInv, GrantInv, Next
    PROVE  GrantInv'
<1> SUFFICES ASSUME NEW c \in Conn
             PROVE  /\ approved'[c] => c \in granted' /\ phase'[c] # "handshake"
                    /\ phase'[c] = "replayed" => c \in granted'
  BY DEF GrantInv
<1> USE DEF RegInv
<1>1. phase[c] # "handshake" => phase'[c] # "handshake"
  BY ReaderMoves DEF Establish, maybe_replay, TypeOK
<1>2. /\ \/ UNCHANGED approved
         \/ \E f \in Inbound : Take(f) /\ HandleApproval(f)
      /\ granted \subseteq granted'
  BY Steps DEF Allocate, AllocateFails, CreateApproval, CreateMailbox, SpawnReader, Take,
     ArmFilter, FindDenied, RequestTeardown, Unapproved, RemoveApproval, Unposted,
     RemoveMailbox, Taken, RemoveChannel, Accept, ReaderStarts, Establish, SetRequestId,
     SendCreate, maybe_replay, Drain, ReaderBreaks, Announce, Close, history,
     HandleShutdown, HandleApproval, HandleDenial
<1>3. phase'[c] = "replayed" => c \in granted'
  <2>1. phase'[c] = "replayed" => phase[c] = "replayed" \/ maybe_replay(c)
    BY ReaderMoves DEF Establish, TypeOK
  <2>2. maybe_replay(c) => approved[c]
    BY DEF maybe_replay, ReaderInv
  <2> QED
    BY <1>2, <2>1, <2>2 DEF GrantInv
<1>4. ASSUME NEW f \in Inbound, Take(f), HandleApproval(f), approved'[c]
      PROVE  c \in granted' /\ phase[c] # "handshake"
  <2>1. f.channel \in Channel /\ f.data \in Conn
    BY <1>4, InboundFrames DEF HandleApproval
  <2>2. approved[c] \/ (Matches(f) /\ owner[f.channel] = c)
    BY <1>4 DEF HandleApproval, TypeOK
  <2>3. CASE Matches(f) /\ owner[f.channel] = c
    <3>1. request_id[f.channel] = f.data /\ f.data # NoConn
      BY <2>1, <2>3, GmlAssumption DEF Matches
    <3>2. c = f.data /\ phase[c] # "handshake"
      BY <2>1, <2>3, <3>1 DEF RequestInv
    <3> QED
      BY <1>4, <3>2 DEF HandleApproval
  <2> QED
    BY <1>2, <2>2, <2>3 DEF GrantInv
<1> QED
  BY <1>1, <1>2, <1>3, <1>4 DEF GrantInv

-----------------------------------------------------------------------------
(* What the send handler does meanwhile.                                    *)

CoreInv == RegInv /\ ReaderInv /\ RequestInv /\ SessionInv /\ GrantInv

(* The steps of the accept thread and the readers leave the handler alone,  *)
(* and those of the handler leave the threads and the registries alone.     *)
LEMMA HandlerSteps ==
    ASSUME Next
    PROVE  \/ UNCHANGED <<handlerVars, approved, teardown, granted, ended>>
           \/ /\ (\E f \in Inbound : Take(f)) \/ ArmFilter \/ FindDenied \/ RequestTeardown
              /\ UNCHANGED <<registries, acceptVars, readerVars, session, hasty>>
  BY Steps DEF Allocate, AllocateFails, CreateApproval, CreateMailbox, SpawnReader, Take,
     ArmFilter, FindDenied, RequestTeardown, Unapproved, RemoveApproval, Unposted,
     RemoveMailbox, Taken, RemoveChannel, Accept, ReaderStarts, Establish, SetRequestId,
     SendCreate, maybe_replay, Drain, ReaderBreaks, Announce, Close, history

(* A connection comes to have a channel by Allocate, to be served by        *)
(* SpawnReader; it is not approved then.                                    *)
LEMMA NewHolder ==
    ASSUME CoreInv, Next, NEW c \in Conn
    PROVE  /\ Holds(c)' => \/ Holds(c) /\ channelOf'[c] = channelOf[c]
                           \/ Allocate /\ c = accepted /\ ~approved[c]
           /\ Serving(c)' => \/ Serving(c) /\ channelOf'[c] = channelOf[c]
                             \/ ~approved[c]
<1> USE DEF CoreInv, RegInv
<1>1. reader[c] = "none" => ~approved[c]
  BY DEF ReaderInv, GrantInv
<1>2. ASSUME Holds(c)', ~Holds(c) PROVE Allocate /\ c = accepted /\ reader[c] = "none"
  <2>1. ~Taken
    <3> SUFFICES ASSUME NEW d \in Conn, RemoveChannel(d, "teardown3", "announce") PROVE FALSE
      BY DEF Taken
    <3> QED
      BY <1>2 DEF RemoveChannel, Move, Holds, TypeOK, acceptVars
  <2>2. Allocate
    BY <1>2, <2>1, RegistrySteps
  <2>3. c = accepted
    BY <1>2, <2>2 DEF Allocate, Holds, readerVars
  <2> QED
    BY <2>2, <2>3, GmlAssumption DEF AcceptInv
<1>3. ASSUME Holds(c), Allocate PROVE reader[c] # "none"
  BY <1>3 DEF Holds, Allocate
<1>4. Holds(c) => channelOf'[c] = channelOf[c]
  BY <1>3, RegistrySteps, ReaderMoves
<1>5. Serving(c)' => Serving(c) \/ reader[c] = "none"
  BY ReaderMoves DEF ReaderStarts, Establish, SetRequestId, SendCreate, Drain, ReaderBreaks,
     RemoveApproval, RemoveMailbox, RemoveChannel, Announce, Close, TypeOK, Serving, Move
<1>6. Serving(c) => Holds(c)
  BY DEF Serving, Holds
<1> QED
  BY <1>1, <1>2, <1>4, <1>5, <1>6

(* Filters: armed for the connection that was approved.                     *)
LEMMA FilterStep ==
    ASSUME CoreInv, FilterInv, Next
    PROVE  FilterInv'
<1> USE DEF CoreInv, RegInv, registries, acceptVars, readerVars, handlerVars
<1> DEFINE Armed(c) == \/ filters[channelOf[c]] = c
                       \/ handler = "arm" /\ target = c /\ msg.channel = channelOf[c]
                       \/ handler = "request" /\ target = c
           Waits(c) == Serving(c) /\ approved[c] /\ teardown[c] = "no"
           Alone(c) == Holds(c) /\ channelOf[c] = msg.channel => c = target \/ ~approved[c]
<1> SUFFICES ASSUME NEW c \in Conn
             PROVE  (Waits(c)' => Armed(c)') /\ (handler' = "arm" => Alone(c)')
  BY DEF FilterInv
<1>1. (Waits(c) => Armed(c)) /\ (handler = "arm" => Alone(c))
  BY DEF FilterInv
<1>2. CASE UNCHANGED <<handlerVars, approved, teardown, granted, ended>>
  BY <1>1, <1>2, NewHolder
<1>3. CASE UNCHANGED <<registries, acceptVars, readerVars, session, hasty>>
  <2>1. (Serving(c)' <=> Serving(c)) /\ (Holds(c)' <=> Holds(c)) /\ channelOf' = channelOf
    BY <1>3 DEF Serving, Holds
  <2>2. Serving(c) => mailboxes[channelOf[c]] = c /\ c # NoConn /\ channelOf[c] \in Channel
    BY GmlAssumption DEF MailboxInv, HasMailbox, TypeOK
  <2>3. ASSUME NEW f \in Inbound, Take(f) PROVE (Waits(c)' => Armed(c)') /\ (handler' = "arm" => Alone(c)')
    <3>1. f.channel \in Channel /\ handler = "idle" /\ teardown' = teardown
      BY <2>3, InboundFrames DEF Take
    <3>2. CASE HandleShutdown(f)
      <4>1. handler' # "arm" /\ approved' = approved
        BY <3>1, <3>2 DEF HandleShutdown
      <4>2. ASSUME Waits(c)' PROVE Armed(c)'
        <5>1. Waits(c) /\ filters[channelOf[c]] = c
          BY <1>1, <2>1, <3>1, <4>1, <4>2
        <5>2. CASE f.channel = channelOf[c]
          BY <2>1, <2>2, <3>2, <5>1, <5>2 DEF HandleShutdown
        <5>3. CASE f.channel # channelOf[c]
          BY <2>1, <2>2, <3>1, <3>2, <5>1, <5>3 DEF HandleShutdown, TypeOK
        <5> QED
          BY <5>2, <5>3
      <4> QED
        BY <4>1, <4>2
    <3>3. CASE HandleApproval(f)
      <4>1. CASE Matches(f)
        <5>1. PICK t \in Conn : t = owner[f.channel]
          BY <3>1, <4>1 DEF Matches, TypeOK
        <5>2. Holds(t) /\ channelOf[t] = f.channel
          BY <3>1, <4>1, <5>1, EntriesHeld DEF Matches, OwnerInv
        <5>3. /\ approved' = [approved EXCEPT ![t] = TRUE] /\ filters' = filters
              /\ handler' = "arm" /\ msg' = f /\ target' = t
          BY <3>3, <4>1, <5>1 DEF HandleApproval
        <5>4. Alone(c)'
          BY <2>1, <5>2, <5>3, OneHolder
        <5>5. CASE c = t
          BY <2>1, <5>2, <5>3, <5>4, <5>5
        <5>6. CASE c # t
          <6>1. approved'[c] = approved[c]
            BY <5>3, <5>6 DEF TypeOK
          <6> QED
            BY <1>1, <2>1, <3>1, <5>3, <5>4, <6>1
        <5> QED
          BY <5>5, <5>6
      <4>2. CASE ~Matches(f)
        BY <1>1, <2>1, <3>1, <3>3, <4>2 DEF HandleApproval
      <4> QED
        BY <4>1, <4>2
    <3>4. CASE HandleDenial(f)
      BY <1>1, <2>1, <3>1, <3>4 DEF HandleDenial
    <3> QED
      BY <2>3, <3>2, <3>3, <3>4 DEF Take
  <2>4. CASE ArmFilter
    <3>1. /\ handler = "arm" /\ handler' = "idle" /\ UNCHANGED <<approved, teardown>>
          /\ filters' = [filters EXCEPT ![msg.channel] = target] /\ msg.channel \in Channel
      BY <2>4 DEF ArmFilter, Done, TypeOK, Frame
    <3>2. CASE channelOf[c] = msg.channel
      <4>1. Serving(c) => Holds(c)
        BY DEF Serving, Holds
      <4> QED
        BY <1>1, <2>1, <3>1, <3>2, <4>1 DEF TypeOK
    <3>3. CASE channelOf[c] # msg.channel
      <4>1. filters'[channelOf[c]] = filters[channelOf[c]]
        BY <3>1, <3>3 DEF TypeOK
      <4> QED
        BY <1>1, <2>1, <3>1, <3>3, <4>1
    <3> QED
      BY <3>2, <3>3
  <2>5. CASE FindDenied
    BY <1>1, <2>1, <2>5 DEF FindDenied, Done
  <2>6. CASE RequestTeardown
    <3>1. /\ handler = "request" /\ handler' = "idle" /\ UNCHANGED <<approved, filters>>
          /\ teardown' = [teardown EXCEPT ![target] = "silent"]
             \/ teardown' = [teardown EXCEPT ![target] = "announce"]
      BY <2>6 DEF RequestTeardown, Done
    <3>2. c = target => teardown'[c] # "no"
      BY <3>1 DEF TypeOK
    <3>3. c # target => teardown'[c] = teardown[c]
      BY <3>1 DEF TypeOK
    <3> QED
      BY <1>1, <2>1, <3>1, <3>2, <3>3
  <2>7. \/ \E f \in Inbound : Take(f)
        \/ ArmFilter \/ FindDenied \/ RequestTeardown
        \/ UNCHANGED <<handlerVars, approved, teardown, granted, ended>>
    BY HandlerSteps
  <2> QED
    BY <1>2, <2>3, <2>4, <2>5, <2>6, <2>7
<1> QED
  BY <1>2, <1>3, HandlerSteps

(* A CREATE or a SHUTDOWN is sent for a channel.                            *)
LEMMA SessionMoves ==
    ASSUME RegInv, Next, NEW ch \in Channel
    PROVE  \/ session'[ch] = session[ch]
           \/ \E d \in Conn : /\ SendCreate(d, "create", "poll")
                              /\ channelOf[d] = ch /\ session'[ch] = d
           \/ \E d \in Conn : Announce(d) /\ channelOf[d] = ch /\ session'[ch] = NoConn
<1>1. \/ session' = session \/ (\E d \in Conn : SendCreate(d, "create", "poll"))
      \/ \E d \in Conn : Announce(d)
  BY Steps DEF Allocate, AllocateFails, CreateApproval, CreateMailbox, SpawnReader, Take,
     ArmFilter, FindDenied, RequestTeardown, Unapproved, RemoveApproval, Unposted,
     RemoveMailbox, Taken, RemoveChannel, Accept, ReaderStarts, Establish, SetRequestId,
     maybe_replay, Drain, ReaderBreaks, Close, history
<1>2. ASSUME NEW d \in Conn, SendCreate(d, "create", "poll")
      PROVE  session'[ch] = session[ch] \/ (channelOf[d] = ch /\ session'[ch] = d)
  BY <1>2 DEF SendCreate, RegInv, TypeOK
<1>3. ASSUME NEW d \in Conn, Announce(d)
      PROVE  session'[ch] = session[ch] \/ (channelOf[d] = ch /\ session'[ch] = NoConn)
  BY <1>3 DEF Announce, RegInv, TypeOK
<1> QED
  BY <1>1, <1>2, <1>3

(* Leaving without a word.                                                  *)
LEMMA SilenceStep ==
    ASSUME CoreInv, SilenceInv, Next
    PROVE  SilenceInv'
<1> USE DEF CoreInv, RegInv, registries, acceptVars, readerVars, handlerVars
<1> SUFFICES ASSUME NEW c \in Conn
             PROVE  /\ teardown'[c] = "silent" \/ ~announce'[c] => c \in ended'
                    /\ reader'[c] = "close" /\ session'[channelOf'[c]] = c => ~announce'[c]
  BY DEF SilenceInv
<1>1. /\ teardown[c] = "silent" \/ ~announce[c] => c \in ended
      /\ reader[c] = "close" /\ session[channelOf[c]] = c => ~announce[c]
  BY DEF SilenceInv
<1>2. /\ ended \subseteq ended'
      /\ teardown'[c] = "silent" => teardown[c] = "silent" \/ c \in ended'
  <2>1. CASE UNCHANGED <<handlerVars, approved, teardown, granted, ended>>
    BY <2>1
  <2>2. CASE (\E f \in Inbound : Take(f)) \/ ArmFilter \/ FindDenied
    BY <2>2 DEF Take, ArmFilter, FindDenied, history
  <2>3. CASE RequestTeardown
    BY <2>3 DEF RequestTeardown, TypeOK
  <2> QED
    BY <2>1, <2>2, <2>3, HandlerSteps
<1>3. announce'[c] = announce[c] \/ Drain(c)
  <2>1. announce' = announce \/ \E d \in Conn : Drain(d)
    BY Steps DEF Allocate, AllocateFails, CreateApproval, CreateMailbox, SpawnReader, Take,
       ArmFilter, FindDenied, RequestTeardown, Unapproved, RemoveApproval, Unposted,
       RemoveMailbox, Taken, RemoveChannel, Accept, ReaderStarts, Establish, SetRequestId,
       SendCreate, maybe_replay, ReaderBreaks, Announce, Close
  <2>2. ASSUME NEW d \in Conn, Drain(d), d # c PROVE announce'[c] = announce[c]
    BY <2>2 DEF Drain, TypeOK
  <2> QED
    BY <2>1, <2>2
<1>4. Drain(c) /\ ~announce'[c] => c \in ended
  <2> SUFFICES ASSUME Drain(c), ~announce'[c] PROVE c \in ended
    OBVIOUS
  <2>1. mailbox[c] = c /\ teardown[c] # "no"
    BY DEF Drain, ReaderInv
  <2>2. announce'[c] = (teardown[c] = "announce")
    BY <2>1 DEF Drain, TypeOK
  <2>3. teardown[c] = "silent"
    BY <2>1, <2>2 DEF TypeOK
  <2> QED
    BY <1>1, <2>3
<1>5. ASSUME reader'[c] = "close", session'[channelOf'[c]] = c PROVE ~announce'[c]
  <2>1. CASE reader[c] = "close"
    <3>1. channelOf'[c] = channelOf[c] /\ channelOf[c] \in Channel
      BY <2>1, ReaderMoves DEF TypeOK
    <3>2. session[channelOf[c]] = c
      BY <1>5, <2>1, <3>1, SessionMoves, GmlAssumption DEF SendCreate, Move
    <3>3. ~Drain(c)
      BY <2>1 DEF Drain, Move
    <3> QED
      BY <1>1, <1>3, <2>1, <3>2, <3>3
  <2>2. CASE reader[c] # "close"
    <3>1. Announce(c)
      BY <1>5, <2>2, ReaderMoves DEF ReaderStarts, Establish, SetRequestId, SendCreate, Drain,
         ReaderBreaks, RemoveApproval, RemoveMailbox, RemoveChannel, Close, Move, TypeOK
    <3> QED
      BY <1>5, <3>1, GmlAssumption DEF Announce, TypeOK
  <2> QED
    BY <2>1, <2>2
<1> QED
  BY <1>1, <1>2, <1>3, <1>4, <1>5

(* A connection once hasty stays so.                                        *)
LEMMA HastyGrows ==
    ASSUME CoreInv, Next
    PROVE  hasty \subseteq hasty'
<1> USE DEF CoreInv, RegInv
<1>1. hasty' = hasty \/ Allocate
  BY Steps DEF AllocateFails, CreateApproval, CreateMailbox, SpawnReader, Take,
     ArmFilter, FindDenied, RequestTeardown, Unapproved, RemoveApproval, Unposted,
     RemoveMailbox, Taken, RemoveChannel, Accept, ReaderStarts, Establish, SetRequestId,
     SendCreate, maybe_replay, Drain, ReaderBreaks, Announce, Close, history
<1> QED
  BY <1>1, AllocateFacts

(* Who has a settled channel goes on having it alone.                       *)
LEMMA SettledStep ==
    ASSUME CoreInv, SettledInv, Next
    PROVE  SettledInv'
<1> USE DEF CoreInv, RegInv, registries, acceptVars, readerVars, handlerVars
<1>1. hasty \subseteq hasty'
  BY HastyGrows
<1>2. ASSUME NEW c \in Conn \ hasty', Holds(c)', Allocate, c = accepted
      PROVE  Settled(channelOf'[c]) /\ UNCHANGED <<reader, handlerVars>>
             /\ \A d \in Conn : d # c => channelOf'[d] = channelOf[d]
  <2>1. \E ch \in Channel : /\ channelOf' = [channelOf EXCEPT ![accepted] = ch]
                            /\ hasty' = IF Settled(ch) THEN hasty ELSE hasty \cup {accepted}
    BY <1>2, AllocateFacts
  <2> QED
    BY <1>2, <2>1 DEF Allocate, TypeOK
<1>3. ASSUME NEW c \in Conn \ hasty', NEW d \in Conn, Holds(c)',
             reader'[d] \in {"announce", "close"}
      PROVE  channelOf'[d] # channelOf'[c]
  <2>1. CASE Holds(c) /\ channelOf'[c] = channelOf[c]
    <3>1. CASE reader[d] \in {"announce", "close"}
      <4>1. channelOf'[d] = channelOf[d]
        BY <3>1, ReaderMoves
      <4> QED
        BY <1>1, <1>3, <2>1, <3>1, <4>1 DEF SettledInv
    <3>2. CASE reader[d] \notin {"announce", "close"}
      <4>1. RemoveChannel(d, "teardown3", "announce")
        BY <1>3, <3>2, ReaderMoves DEF ReaderStarts, Establish, SetRequestId, SendCreate,
           Drain, ReaderBreaks, RemoveApproval, RemoveMailbox, Announce, Close, Move, TypeOK
      <4>2. Holds(d) /\ channelOf'[d] = channelOf[d] /\ accepted # d
        BY <4>1, GmlAssumption DEF RemoveChannel, Move, Holds, AcceptInv
      <4>3. ~Holds(d)'
        BY <1>3, <4>1, <4>2 DEF RemoveChannel, Holds
      <4>4. d # c
        BY <1>3, <4>3
      <4> QED
        BY <2>1, <4>2, <4>4, OneHolder
    <3> QED
      BY <3>1, <3>2
  <2>2. CASE Allocate /\ c = accepted
    <3>1. d # c
      BY <1>3, <2>2, GmlAssumption DEF Allocate, AcceptInv
    <3> QED
      BY <1>2, <1>3, <2>2, <3>1 DEF Settled
  <2> QED
    BY <1>3, <2>1, <2>2, NewHolder
<1>4. ASSUME handler' = "deny", NEW c \in Conn \ hasty', Holds(c)',
             channelOf'[c] = msg'.channel
      PROVE  c = msg'.data
  <2>1. CASE UNCHANGED <<handlerVars, approved, teardown, granted, ended>>
    <3>1. CASE Holds(c) /\ channelOf'[c] = channelOf[c]
      BY <1>1, <1>4, <2>1, <3>1 DEF SettledInv
    <3>2. CASE Allocate /\ c = accepted
      BY <1>2, <1>4, <2>1, <3>2 DEF Settled
    <3> QED
      BY <1>4, <3>1, <3>2, NewHolder
  <2>2. ASSUME NEW f \in Inbound, Take(f) PROVE c = msg'.data
    <3>1. HandleDenial(f) /\ Matches(f) /\ msg' = f
      BY <1>4, <2>2 DEF Take, HandleShutdown, HandleApproval, HandleDenial
    <3>2. f.channel \in Channel /\ f.data \in Conn
      BY <3>1, InboundFrames DEF HandleDenial
    <3>3. owner[f.channel] = f.data /\ Holds(f.data) /\ channelOf[f.data] = f.channel
      BY <3>1, <3>2, GmlAssumption, EntriesHeld DEF Matches, RequestInv, OwnerInv
    <3>4. Holds(c) /\ channelOf[c] = f.channel
      BY <1>4, <2>2, <3>1 DEF Take, Holds
    <3> QED
      BY <3>1, <3>2, <3>3, <3>4, OneHolder
  <2>3. CASE ArmFilter \/ FindDenied \/ RequestTeardown
    BY <1>4, <2>3 DEF ArmFilter, FindDenied, RequestTeardown, Done
  <2> QED
    BY <2>1, <2>2, <2>3, HandlerSteps
<1> QED
  BY <1>3, <1>4 DEF SettledInv

(* The CREATE of a connection with a settled channel stands.                *)
LEMMA IntactStep ==
    ASSUME CoreInv, SettledInv, SettledSessionIntact, Next
    PROVE  SettledSessionIntact'
<1> USE DEF CoreInv, RegInv, Move
<1> SUFFICES ASSUME NEW c \in Conn \ hasty', reader'[c] = "poll", phase'[c] # "handshake"
             PROVE  session'[channelOf'[c]] = c
  BY DEF SettledSessionIntact
<1>1. CASE SendCreate(c, "create", "poll")
  BY <1>1 DEF SendCreate, acceptVars, TypeOK
<1>2. CASE reader[c] = "poll"
  <2>1. phase[c] # "handshake" /\ channelOf'[c] = channelOf[c] /\ channelOf[c] \in Channel
    BY <1>2, ReaderMoves DEF Establish, maybe_replay, TypeOK
  <2>2. session[channelOf[c]] = c /\ Holds(c) /\ c \notin hasty
    BY <1>2, <2>1, HastyGrows DEF SettledSessionIntact, Holds
  <2>3. ASSUME NEW d \in Conn, Announce(d) PROVE channelOf[d] # channelOf[c]
    BY <2>2, <2>3 DEF Announce, SettledInv
  <2>4. ASSUME NEW d \in Conn, SendCreate(d, "create", "poll"), channelOf[d] = channelOf[c]
        PROVE  d = c
    BY <2>2, <2>4, OneHolder DEF SendCreate, Holds
  <2> QED
    BY <2>1, <2>2, <2>3, <2>4, SessionMoves
<1>3. CASE reader[c] # "poll" /\ ~SendCreate(c, "create", "poll")
  <2>1. ReaderStarts(c)
    BY <1>3, ReaderMoves DEF Establish, SetRequestId, Drain, ReaderBreaks, RemoveApproval,
       RemoveMailbox, RemoveChannel, Announce, Close, TypeOK
  <2> QED
    BY <2>1 DEF ReaderStarts, ReaderInv
<1> QED
  BY <1>1, <1>2, <1>3

(* A matched denial finds the mailbox of the connection it denies.          *)
LEMMA DenialStep ==
    ASSUME CoreInv, SettledInv, DenialHitsItsRequest, Next
    PROVE  DenialHitsItsRequest'
<1> USE DEF CoreInv, RegInv, handlerVars, history
<1> SUFFICES ASSUME handler' = "request", msg'.action = "APPROVAL", target' \notin hasty'
             PROVE  target' = msg'.data
  BY DEF DenialHitsItsRequest
<1>1. CASE UNCHANGED <<handlerVars, approved, teardown, granted, ended>>
  BY <1>1, HastyGrows DEF DenialHitsItsRequest
<1>2. CASE \E f \in Inbound : Take(f)
  BY <1>2 DEF Take, HandleShutdown, HandleApproval, HandleDenial
<1>3. CASE ArmFilter \/ RequestTeardown
  BY <1>3 DEF ArmFilter, RequestTeardown, Done
<1>4. CASE FindDenied
  <2>1. /\ handler = "deny" /\ mailboxes[msg.channel] # NoConn /\ msg' = msg
        /\ target' = mailboxes[msg.channel] /\ msg.channel \in Channel
    BY <1>4 DEF FindDenied, Done, TypeOK, Frame
  <2>2. PICK t \in Conn : t = mailboxes[msg.channel]
    BY <2>1 DEF TypeOK
  <2>3. Holds(t) /\ channelOf[t] = msg.channel
    BY <2>1, <2>2, EntriesHeld DEF MailboxInv
  <2>4. t \notin hasty
    BY <2>1, <2>2, HastyGrows
  <2> QED
    BY <2>1, <2>2, <2>3, <2>4 DEF SettledInv
<1> QED
  BY <1>1, <1>2, <1>3, <1>4, HandlerSteps

-----------------------------------------------------------------------------
(* The inductive invariant.                                                 *)

(* Every part of the invariant holds at the start.                          *)
LEMMA GmlInit == Init => GmlInv
<1> SUFFICES ASSUME Init PROVE GmlInv
  OBVIOUS
<1> USE GmlAssumption DEF Init
<1>1. TypeOK
  BY TypeInit
<1>2. \A c \in Conn : ~Holds(c) /\ ~HasApproval(c) /\ ~HasMailbox(c) /\ ~Serving(c)
  BY DEF Holds, HasApproval, HasMailbox, Serving
<1>3. AcceptInv /\ TableInv /\ OwnerInv /\ MailboxInv
  BY <1>2 DEF AcceptInv, TableInv, OwnerInv, MailboxInv
<1>4. ReaderInv /\ RequestInv /\ SessionInv /\ GrantInv
  BY DEF ReaderInv, RequestInv, SessionInv, GrantInv
<1>5. FilterInv /\ SettledInv
  BY <1>2 DEF FilterInv, SettledInv
<1>6. SilenceInv /\ SettledSessionIntact /\ DenialHitsItsRequest
  BY DEF SilenceInv, SettledSessionIntact, DenialHitsItsRequest
<1> QED
  BY <1>1, <1>3, <1>4, <1>5, <1>6 DEF GmlInv

(* A step that changes nothing keeps the invariant.                         *)
LEMMA GmlStutter == GmlInv /\ UNCHANGED vars => GmlInv'
<1> SUFFICES ASSUME GmlInv, UNCHANGED vars PROVE GmlInv'
  OBVIOUS
<1> USE DEF GmlInv, vars, registries, acceptVars, readerVars, handlerVars, history
<1>1. TypeOK'
  BY TypeStep
<1>2. AcceptInv' /\ TableInv' /\ OwnerInv' /\ MailboxInv'
  BY DEF AcceptInv, TableInv, OwnerInv, MailboxInv, Holds, HasApproval, HasMailbox, Serving
<1>3. ReaderInv' /\ RequestInv' /\ SessionInv' /\ GrantInv'
  BY DEF ReaderInv, RequestInv, SessionInv, GrantInv, Serving
<1>4. FilterInv' /\ SilenceInv' /\ SettledInv'
  BY DEF FilterInv, SilenceInv, SettledInv, Holds, Serving
<1>5. SettledSessionIntact' /\ DenialHitsItsRequest'
  BY DEF SettledSessionIntact, DenialHitsItsRequest
<1> QED
  BY <1>1, <1>2, <1>3, <1>4, <1>5

(* Each thread of gmlbroker keeps the invariant.                            *)
LEMMA GmlNext == GmlInv /\ [Next]_vars => GmlInv'
<1> SUFFICES ASSUME GmlInv, Next PROVE GmlInv'
  BY GmlStutter
<1>1. RegInv /\ CoreInv
  BY DEF GmlInv, RegInv, CoreInv
<1>2. TypeOK' /\ AcceptInv' /\ TableInv' /\ OwnerInv' /\ MailboxInv'
  BY TypeStep, AcceptStep, TableStep, OwnerStep, MailboxStep DEF GmlInv
<1>3. ReaderInv' /\ RequestInv' /\ SessionInv' /\ GrantInv'
  BY <1>1, ReaderInvStep, RequestStep, SessionStep, GrantStep DEF GmlInv
<1>4. FilterInv' /\ SilenceInv' /\ SettledInv'
  BY <1>1, FilterStep, SilenceStep, SettledStep DEF GmlInv
<1>5. SettledSessionIntact' /\ DenialHitsItsRequest'
  BY <1>1, IntactStep, DenialStep DEF GmlInv
<1> QED
  BY <1>2, <1>3, <1>4, <1>5 DEF GmlInv

(* So it is one.                                                            *)
LEMMA GmlInvariant == Spec => []GmlInv
  BY GmlInit, GmlNext, PTL DEF Spec

-----------------------------------------------------------------------------
(* What the threads of gmlbroker guarantee between them.                    *)

(* While guacamole_read_handler serves a connection, the channel table, the *)
(* approval registry and the mailbox registry route its channel to it, and  *)
(* a request that is out is registered under its id: the accept thread      *)
(* fills the registries before it spawns the reader, and the reader gives   *)
(* the channel back last, so a connection never removes a successor's entry.*)
THEOREM RegisteredWhileServedCorrect == Spec => []RegisteredWhileServed
<1>1. GmlInv => RegisteredWhileServed
  <2> SUFFICES ASSUME GmlInv, NEW c \in Conn, Serving(c)
               PROVE  /\ table[channelOf[c]] = c /\ owner[channelOf[c]] = c
                      /\ mailboxes[channelOf[c]] = c
                      /\ session[channelOf[c]] = c => request_id[channelOf[c]] = c
    BY DEF RegisteredWhileServed
  <2>1. Holds(c) /\ HasApproval(c) /\ HasMailbox(c) /\ channelOf[c] \in Channel
    BY DEF Holds, HasApproval, HasMailbox, Serving, GmlInv, TypeOK
  <2> QED
    BY <2>1 DEF GmlInv, TableInv, OwnerInv, MailboxInv, SessionInv
<1> QED
  BY <1>1, GmlInvariant, PTL

(* Browser input is piped onto the bridge only for a connection whose own   *)
(* request id an approval carried: ApprovalRegistry::Approve compares the   *)
(* id under the lock under which it sets the flag, so a stale or repeated   *)
(* verdict approves no later connection on the channel.                     *)
THEOREM PipesOnlyApprovedCorrect == Spec => []PipesOnlyApproved
<1>1. GmlInv => PipesOnlyApproved
  BY DEF GmlInv, GrantInv, PipesOnlyApproved
<1> QED
  BY <1>1, GmlInvariant, PTL

(* Whenever guacamole_send_handler waits for a message, each approved       *)
(* connection that nobody asked to close has the return filter that was     *)
(* made for it: no predecessor's filter state meets its traffic.            *)
THEOREM FilterArmedCorrect == Spec => []FilterArmed
<1>1. GmlInv => FilterArmed
  BY DEF GmlInv, FilterInv, FilterArmed
<1> QED
  BY <1>1, GmlInvariant, PTL

(* A reader leaves a CREATE standing on the bridge only if the peer's own   *)
(* SHUTDOWN asked it to close: every other way out announces SHUTDOWN.      *)
THEOREM SilentOnlyToPeerCorrect == Spec => []SilentOnlyToPeer
<1>1. GmlInv => SilentOnlyToPeer
  BY DEF GmlInv, SilenceInv, SilentOnlyToPeer
<1> QED
  BY <1>1, GmlInvariant, PTL

(* The SHUTDOWN that a reader queues after it has given its channel back    *)
(* ends no later session, if the channel was allocated when no thread was   *)
(* at work for an earlier connection on it.                                 *)
THEOREM SettledSessionIntactCorrect == Spec => []SettledSessionIntact
<1>1. GmlInv => SettledSessionIntact
  BY DEF GmlInv
<1> QED
  BY <1>1, GmlInvariant, PTL

(* A denial, matched in one critical section and routed in the next, tears  *)
(* down the connection whose request it answers, unless the channel changed *)
(* hands between the two.                                                   *)
THEOREM DenialHitsItsRequestCorrect == Spec => []DenialHitsItsRequest
<1>1. GmlInv => DenialHitsItsRequest
  BY DEF GmlInv
<1> QED
  BY <1>1, GmlInvariant, PTL

=============================================================================
