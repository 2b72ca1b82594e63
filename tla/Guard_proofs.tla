---------------------------- MODULE Guard_proofs ----------------------------
(***************************************************************************)
(* Proofs that the guard's invariants hold for every finite set of         *)
(* channels and every set of request ids, and that the guard implements    *)
(* Gate.                                                                   *)
(***************************************************************************)
EXTENDS Guard, FiniteSetTheorems, TLAPS

-----------------------------------------------------------------------------
(* Facts about the datagrams the guard sends.                               *)

(* Every constructor of Wire applied to its kind of data yields a frame.    *)
LEMMA FrameConstructors ==
    /\ \A ch \in Channel : Shutdown(ch) \in Frame
    /\ \A ch \in Channel, p \in Payload : None(ch, p) \in Frame
    /\ \A ch \in Channel, id \in Id : Create(ch, id) \in Frame
    /\ \A ch \in Channel, v \in {APPROVAL_APPROVE, APPROVAL_DENY}, id \in Id :
          Approval(ch, v, id) \in Frame
    /\ Verdicts \subseteq Frame
BY DEF Shutdown, None, Create, Approval, Frame, Verdicts, Payload, APPROVAL_APPROVE,
       APPROVAL_DENY

(* The frames that are read as Guacamole.                                   *)
Guacamole == {None(ch, p) : ch \in Channel, p \in Payload} \cup Verdicts

(* They are frames with a payload that the parser can read, and stay frames *)
(* when it is trimmed.                                                      *)
LEMMA GuacamoleFrames ==
    ASSUME NEW f \in Guacamole
    PROVE  /\ f \in Frame
           /\ f.action \in {"NONE", "APPROVAL"}
           /\ f.channel \in Channel
           /\ f.data \in Payload
           /\ \A q \in Payload : /\ Carrying(f, q) \in Frame
                                 /\ Carrying(f, q).channel = f.channel
                                 /\ Carrying(f, q).action = f.action
                                 /\ Carrying(f, q).data = q
<1>1. f \in Frame
  BY FrameConstructors DEF Guacamole
<1>2. f.action \in {"NONE", "APPROVAL"} /\ f.data \in Payload
  BY DEF Guacamole, Verdicts, None, Approval, Payload
<1>3. f.channel \in Channel
  BY <1>1 DEF Frame
<1>4. \A q \in Payload : /\ Carrying(f, q) \in Frame
                         /\ Carrying(f, q).channel = f.channel
                         /\ Carrying(f, q).action = f.action
                         /\ Carrying(f, q).data = q
  BY <1>1 DEF Frame, Carrying
<1>5. QED
  BY <1>1, <1>2, <1>3, <1>4

(* What can come in is malformed, a CREATE, a SHUTDOWN, or read as          *)
(* Guacamole.                                                               *)
LEMMA InboundCases ==
    ASSUME NEW f \in Inbound, Handle(f)
    PROVE  \/ f.action = "MALFORMED" /\ ReceiveNothing
           \/ \E ch \in Channel, id \in Id \cup {BadId} : HandleCreate(ch, id)
           \/ \E ch \in Channel : HandleShutdown(ch)
           \/ f \in Guacamole /\ HandleNone(f)
<1>1. CASE f = Malformed
  BY <1>1 DEF Handle, Malformed
<1>2. ASSUME NEW ch \in Channel, NEW id \in Id \cup {BadId}, f = Create(ch, id)
      PROVE  HandleCreate(ch, id)
  BY <1>2 DEF Handle, Create
<1>3. ASSUME NEW ch \in Channel, f = Shutdown(ch)
      PROVE  HandleShutdown(ch)
  BY <1>3 DEF Handle, Shutdown
<1>4. CASE f \in Guacamole
  BY <1>4, GuacamoleFrames DEF Handle
<1>5. QED
  BY <1>1, <1>2, <1>3, <1>4 DEF Inbound, Guacamole

(* The teardown of a set of channels, in whatever order the set is          *)
(* iterated, is a sequence of frames with one SHUTDOWN per channel.         *)
LEMMA ShutdownAllAnnounces ==
    ASSUME NEW S \in SUBSET Channel, NEW order \in Orders(S)
    PROVE  /\ ShutdownAll(order) \in Seq(Frame)
           /\ G!Announces(ShutdownAll(order), S)
<1>1. Cardinality(S) \in Nat
  BY GuardAssumption, FS_Subset, FS_CardinalityType
<1>2. order \in [1..Cardinality(S) -> S]
  BY DEF Orders
<1>3. ShutdownAll(order) \in [1..Cardinality(S) -> Frame]
  BY <1>2, FrameConstructors DEF ShutdownAll
<1>4. ShutdownAll(order) \in Seq(Frame)
  BY <1>1, <1>3
<1>5. \A a, b \in Channel : Shutdown(a) = Shutdown(b) => a = b
  BY DEF Shutdown
<1>6. G!Announces(ShutdownAll(order), S)
  <2> DEFINE fs == ShutdownAll(order)
  <2>1. /\ DOMAIN fs = 1..Cardinality(S)
        /\ DOMAIN order = 1..Cardinality(S)
        /\ \A i \in DOMAIN fs : fs[i] = Shutdown(order[i])
    BY <1>2 DEF ShutdownAll
  <2>2. \A i \in DOMAIN fs : order[i] \in S
    BY <1>2, <2>1
  <2>3. \A ch \in S : \E i \in DOMAIN fs : order[i] = ch
    BY <2>1 DEF Orders
  <2>4. \A i, j \in DOMAIN fs : order[i] = order[j] => i = j
    BY <2>1 DEF Orders
  <2>5. \A i \in DOMAIN fs : \E ch \in S : fs[i] = Shutdown(ch)
    BY <2>1, <2>2
  <2>6. \A ch \in S : \E i \in DOMAIN fs : fs[i] = Shutdown(ch)
    BY <2>1, <2>3
  <2>7. \A i, j \in DOMAIN fs : fs[i] = fs[j] => i = j
    <3> SUFFICES ASSUME NEW i \in DOMAIN fs, NEW j \in DOMAIN fs, fs[i] = fs[j]
                 PROVE  i = j
      OBVIOUS
    <3>1. Shutdown(order[i]) = Shutdown(order[j])
      BY <2>1
    <3>2. order[i] \in Channel /\ order[j] \in Channel
      BY <2>2
    <3>3. QED
      BY <3>1, <3>2, <1>5, <2>4
  <2>8. QED
    BY <2>5, <2>6, <2>7 DEF G!Announces, G!Shutdown, Shutdown
<1>7. QED
  BY <1>4, <1>6

-----------------------------------------------------------------------------
(* Handling one datagram.                                                   *)

(* The part of TypeOK that a handler can disturb.                           *)
MainTypeOK ==
    /\ approved \subseteq Channel
    /\ parsers \in [Channel -> Position]
    /\ poisoned \subseteq Channel
    /\ sent \in Seq(Frame)
    /\ late \in Nat
    /\ stale \subseteq Channel

(* Whatever arrives, the handler leaves the containers and the datagrams it *)
(* sends in their types.                                                    *)
LEMMA HandleType ==
    ASSUME TypeOK, NEW f \in Inbound, Handle(f)
    PROVE  MainTypeOK'
<1> USE DEF TypeOK, MainTypeOK, Position
<1>1. ASSUME ReceiveNothing
      PROVE  MainTypeOK'
  BY <1>1 DEF ReceiveNothing
<1>3. ASSUME NEW ch \in Channel, NEW id \in Id \cup {BadId}, HandleCreate(ch, id)
      PROVE  MainTypeOK'
  <2>2. CASE id \notin Id
    BY <1>1, <1>3, <2>2 DEF HandleCreate
  <2>3. CASE id \in Id
    <3> DEFINE c == Create(ch, id)
               a(v) == Approval(ch, v, id)
    <3>1. c \in Frame /\ Shutdown(ch) \in Frame
      BY <2>3, FrameConstructors
    <3>2. a(APPROVAL_APPROVE) \in Frame /\ a(APPROVAL_DENY) \in Frame
      BY <2>3, FrameConstructors
    <3>3. CASE approve
      <4>1. /\ sent' = <<c, a(APPROVAL_APPROVE)>>
            /\ parsers' = [parsers EXCEPT ![ch] = "boundary"]
            /\ approved' = approved \cup {ch}
            /\ poisoned' = poisoned \ {ch}
            /\ late' = late
            /\ stale' \subseteq stale \cup {ch}
        BY <1>3, <2>3, <3>3 DEF HandleCreate, Decide, HandleRequest
      <4> HIDE DEF c, a
      <4>2. QED
        BY <3>1, <3>2, <4>1
    <3>4. CASE ~approve
      <4>1. /\ sent' = <<c, a(APPROVAL_DENY), Shutdown(ch)>>
            /\ parsers' = [parsers EXCEPT ![ch] = "none"]
            /\ approved' = approved \ {ch}
            /\ poisoned' = poisoned \ {ch}
            /\ late' = late
            /\ stale' \subseteq stale \cup {ch}
        BY <1>3, <2>3, <3>4 DEF HandleCreate, Decide, HandleRequest
      <4> HIDE DEF c, a
      <4>2. QED
        BY <3>1, <3>2, <4>1
    <3>5. QED
      BY <3>3, <3>4
  <2>4. QED
    BY <2>2, <2>3
<1>4. ASSUME NEW ch \in Channel, HandleShutdown(ch)
      PROVE  MainTypeOK'
  BY <1>4, FrameConstructors DEF HandleShutdown
<1>5. ASSUME f \in Guacamole, HandleNone(f)
      PROVE  MainTypeOK'
  <2>1. f.channel \in Channel /\ f.data \in Payload
    BY <1>5, GuacamoleFrames
  <2>2. CASE ReceiveNothing
    BY <1>1, <2>2
  <2>3. CASE Poison(f.channel)
    BY <2>1, <2>3, FrameConstructors DEF Poison
  <2>4. ASSUME NEW rest \in {<<f.data>>, <<"whole">>, <<>>}, Forward(f, rest)
        PROVE  MainTypeOK'
    <3>1. rest \in Seq(Payload) /\ Len(rest) \in Nat
      <4>1. <<f.data>> \in Seq(Payload) /\ <<"whole">> \in Seq(Payload)
        BY <2>1 DEF Payload
      <4>2. <<>> \in Seq(Payload)
        OBVIOUS
      <4>3. rest \in Seq(Payload)
        BY <4>1, <4>2
      <4>4. QED
        BY <4>3
    <3>2. sent' \in Seq(Frame)
      <4>1. \A i \in DOMAIN rest : Carrying(f, rest[i]) \in Frame
        BY <1>5, <3>1, GuacamoleFrames
      <4>2. QED
        BY <2>4, <3>1, <4>1 DEF Forward
    <3>3. parsers' \in [Channel -> Position]
      BY <2>1, <2>4 DEF Forward, PositionAfter
    <3>4. QED
      BY <2>4, <3>1, <3>2, <3>3 DEF Forward
  <2>5. QED
    BY <1>5, <2>2, <2>3, <2>4 DEF HandleNone, Excise
<1>6. QED
  BY <1>1, <1>3, <1>4, <1>5, InboundCases

-----------------------------------------------------------------------------
(* Type correctness.                                                        *)

(* The guard's variables stay in their ranges, whatever arrives and however *)
(* its threads interleave.                                                  *)
THEOREM TypeCorrect == Spec => []TypeOK
<1>1. Init => TypeOK
  <2> SUFFICES ASSUME Init
               PROVE  TypeOK
    OBVIOUS
  <2>1. sent \in Seq(Frame)
    <3>1. <<>> \in Seq(Frame)
      OBVIOUS
    <3>2. QED
      BY <3>1, Zenon DEF Init
  <2>2. parsers \in [Channel -> Position]
    BY DEF Init, Position
  <2>3. unseen \in Seq(BOOLEAN)
    <3>1. <<>> \in Seq(BOOLEAN)
      OBVIOUS
    <3>2. QED
      BY <3>1, Zenon DEF Init
  <2>4. QED
    BY <2>1, <2>2, <2>3 DEF Init, TypeOK
<1>2. TypeOK /\ [Next]_vars => TypeOK'
  <2> SUFFICES ASSUME TypeOK, [Next]_vars
               PROVE  TypeOK'
    OBVIOUS
  <2>1. CASE DenyTeardown
    <3>1. sent' \in Seq(Frame)
      BY <2>1, ShutdownAllAnnounces DEF TypeOK, DenyTeardown, ctlVars
    <3>2. parsers' \in [Channel -> Position]
      BY <2>1 DEF TypeOK, DenyTeardown, Position
    <3>3. QED
      BY <2>1, <3>1, <3>2 DEF TypeOK, DenyTeardown, ctlVars
  <2>2. CASE NoDeny
    BY <2>2 DEF TypeOK, NoDeny, ctlVars
  <2>3. CASE ReceiveTimeout
    BY <2>3 DEF TypeOK, ReceiveTimeout, ReceiveNothing, ctlVars
  <2>4. ASSUME NEW f \in Inbound, Receive(f)
        PROVE  TypeOK'
    <3>1. Handle(f)
      BY <2>4 DEF Receive
    <3>2. QED
      BY <2>4, <3>1, HandleType DEF TypeOK, MainTypeOK, Receive, ctlVars
  <2>5. CASE AnnounceStop
    <3>1. sent' \in Seq(Frame)
      BY <2>5, ShutdownAllAnnounces DEF TypeOK, AnnounceStop, ctlVars
    <3>2. QED
      BY <2>5, <3>1 DEF TypeOK, AnnounceStop, ctlVars
  <2>6. CASE JoinControl
    BY <2>6 DEF TypeOK, JoinControl, ctlVars
  <2>7. ASSUME NEW mode \in BOOLEAN, SetApprove(mode)
        PROVE  TypeOK'
    BY <2>7 DEF TypeOK, SetApprove, mainVars
  <2>8. CASE FlagDeny
    BY <2>8 DEF TypeOK, FlagDeny, mainVars
  <2>9. CASE ControlStop
    BY <2>9 DEF TypeOK, ControlStop, mainVars
  <2>10. CASE interrupt_handler
    BY <2>10 DEF TypeOK, interrupt_handler, mainVars, ctlVars
  <2>11. CASE UNCHANGED vars
    BY <2>11 DEF TypeOK, vars, mainVars, ctlVars
  <2>12. CASE ApproveSeen
    <3>1. Head(unseen) \in BOOLEAN /\ Tail(unseen) \in Seq(BOOLEAN)
      BY <2>12 DEF TypeOK, ApproveSeen
    <3>2. QED
      BY <2>12, <3>1 DEF TypeOK, ApproveSeen, mainVars
  <2>13. CASE FlagSeen
    BY <2>13 DEF TypeOK, FlagSeen, mainVars
  <2>14. QED
    BY <2>1, <2>2, <2>3, <2>4, <2>5, <2>6, <2>7, <2>8, <2>9, <2>10, <2>11, <2>12,
       <2>13
    DEF Next, MainStep, ControlStep, StoreSeen, Stopped
<1>3. QED
  BY <1>1, <1>2, PTL DEF Spec

-----------------------------------------------------------------------------
(* What one step of Next can be, for the invariants below.                  *)

(* A datagram that adds a channel to approved after the teardown of the     *)
(* last deny makes a note of it.                                            *)
LEMMA OnlyStaleAdds ==
    ASSUME TypeOK, NEW f \in Inbound, Handle(f), DenyTaken, approved \subseteq stale
    PROVE  approved' \subseteq stale'
BY DEF Handle, HandleCreate, Decide, HandleRequest, HandleShutdown, HandleNone,
       ReceiveNothing, Poison, Forward

(* Once the teardown of the last deny is done only channels approved since  *)
(* by a switch not yet seen are approved.  The formula is inductive: a deny *)
(* always has its flag still to come, and it counts as taken only by a      *)
(* teardown, which leaves nothing approved.                                 *)
THEOREM DenySettlesCorrect == Spec => []DenySettles
<1>1. Init => DenySettles
  BY DEF Init, DenySettles, DenyTaken
<1>2. TypeOK /\ DenySettles /\ [Next]_vars => DenySettles'
  <2> SUFFICES ASSUME TypeOK, DenySettles, [Next]_vars
               PROVE  DenySettles'
    OBVIOUS
  <2>1. CASE DenyTeardown
    BY <2>1 DEF DenyTeardown, DenySettles
  <2>2. CASE NoDeny
    BY <2>2 DEF NoDeny, DenySettles, DenyTaken, ctlVars
  <2>3. CASE ReceiveTimeout
    BY <2>3 DEF ReceiveTimeout, ReceiveNothing, DenySettles, DenyTaken, ctlVars
  <2>4. ASSUME NEW f \in Inbound, Receive(f)
        PROVE  DenySettles'
    <3>1. Handle(f) /\ DenyTaken' = DenyTaken
      BY <2>4 DEF Receive, DenyTaken, ctlVars
    <3>2. QED
      BY <3>1, OnlyStaleAdds DEF DenySettles
  <2>5. CASE AnnounceStop
    BY <2>5 DEF AnnounceStop, DenySettles
  <2>6. CASE JoinControl
    BY <2>6 DEF JoinControl, DenySettles, DenyTaken, ctlVars
  <2>7. ASSUME NEW mode \in BOOLEAN, SetApprove(mode)
        PROVE  DenySettles'
    BY <2>7 DEF SetApprove, DenySettles, DenyTaken
  <2>8. CASE FlagDeny
    BY <2>8 DEF FlagDeny, TypeOK, DenySettles, DenyTaken
  <2>9. CASE ControlStop
    BY <2>9 DEF ControlStop, mainVars, DenySettles, DenyTaken
  <2>10. CASE interrupt_handler
    BY <2>10 DEF interrupt_handler, mainVars, ctlVars, DenySettles, DenyTaken
  <2>11. CASE UNCHANGED vars
    BY <2>11 DEF vars, mainVars, ctlVars, DenySettles, DenyTaken
  <2>12. CASE ApproveSeen
    BY <2>12 DEF ApproveSeen, mainVars, DenySettles, DenyTaken
  <2>13. CASE FlagSeen
    BY <2>13 DEF FlagSeen, DenySettles, DenyTaken
  <2>14. QED
    BY <2>1, <2>2, <2>3, <2>4, <2>5, <2>6, <2>7, <2>8, <2>9, <2>10, <2>11, <2>12,
       <2>13
    DEF Next, MainStep, ControlStep, StoreSeen, Stopped
<1>3. QED
  BY <1>1, <1>2, TypeCorrect, PTL DEF Spec

-----------------------------------------------------------------------------
(* The containers of the main loop.                                         *)

(* Handling a datagram keeps the containers in agreement.                   *)
LEMMA HandleAgrees ==
    ASSUME TypeOK, ContainersAgree, main = "recv", main' = "top",
           NEW f \in Inbound, Handle(f)
    PROVE  ContainersAgree'
<1> USE DEF TypeOK, ContainersAgree
<1>1. CASE ReceiveNothing
  BY <1>1 DEF ReceiveNothing
<1>2. ASSUME NEW ch \in Channel, NEW id \in Id, HandleCreate(ch, id)
      PROVE  ContainersAgree'
  BY <1>2 DEF HandleCreate, Decide, HandleRequest
<1>3. ASSUME NEW ch \in Channel, HandleShutdown(ch)
      PROVE  ContainersAgree'
  BY <1>3 DEF HandleShutdown
<1>4. ASSUME NEW ch \in Channel, Poison(ch)
      PROVE  ContainersAgree'
  BY <1>4 DEF Poison
<1>5. ASSUME f.channel \in approved, NEW rest, Forward(f, rest)
      PROVE  ContainersAgree'
  BY <1>5 DEF Forward, PositionAfter
<1>6. ASSUME NEW ch \in Channel, NEW id \in Id \cup {BadId}, HandleCreate(ch, id)
      PROVE  ContainersAgree'
  BY <1>6, <1>1, <1>2 DEF HandleCreate
<1>7. ASSUME f \in Guacamole, HandleNone(f)
      PROVE  ContainersAgree'
  BY <1>7, <1>1, <1>4, <1>5, GuacamoleFrames DEF HandleNone
<1>8. QED
  BY <1>1, <1>3, <1>6, <1>7, InboundCases

(* A channel has a parser exactly when it is approved, and no approved      *)
(* channel is poisoned.                                                     *)
THEOREM ContainersAgreeCorrect == Spec => []ContainersAgree
<1>1. Init => ContainersAgree
  BY DEF Init, ContainersAgree
<1>2. TypeOK /\ ContainersAgree /\ [Next]_vars => ContainersAgree'
  <2> SUFFICES ASSUME TypeOK, ContainersAgree, [Next]_vars
               PROVE  ContainersAgree'
    OBVIOUS
  <2>1. CASE DenyTeardown
    BY <2>1 DEF DenyTeardown, TypeOK, ContainersAgree
  <2>2. CASE NoDeny
    BY <2>2 DEF NoDeny, ContainersAgree
  <2>3. CASE ReceiveTimeout
    BY <2>3 DEF ReceiveTimeout, ReceiveNothing, ContainersAgree
  <2>4. ASSUME NEW f \in Inbound, Receive(f)
        PROVE  ContainersAgree'
    <3>1. Handle(f) /\ main = "recv" /\ main' = "top"
      BY <2>4 DEF Receive
    <3>2. QED
      BY <3>1, HandleAgrees
  <2>5. CASE AnnounceStop
    BY <2>5 DEF AnnounceStop, ContainersAgree
  <2>6. CASE JoinControl
    BY <2>6 DEF JoinControl, ContainersAgree
  <2>7. CASE ControlStep \/ StoreSeen \/ interrupt_handler \/ UNCHANGED vars
    BY <2>7 DEF ControlStep, SetApprove, FlagDeny, ControlStop, StoreSeen,
                ApproveSeen, FlagSeen, interrupt_handler, vars, mainVars,
                ContainersAgree
  <2>8. QED
    BY <2>1, <2>2, <2>3, <2>4, <2>5, <2>6, <2>7 DEF Next, MainStep, Stopped
<1>3. QED
  BY <1>1, <1>2, TypeCorrect, PTL DEF Spec

-----------------------------------------------------------------------------
(* Promptness of a deny.                                                    *)

(* The inductive form: whenever the loop is about to receive it has just    *)
(* looked at the flag, so nothing has been counted; and a datagram that was *)
(* counted means the flag is still up.                                      *)
PromptInv ==
    /\ late \in {0, 1}
    /\ main = "recv" => late = 0
    /\ late = 1 => deny_teardown

(* Handling a datagram counts at most one, and only while the flag is up.   *)
LEMMA HandleCounts ==
    ASSUME TypeOK, late = 0, NEW f \in Inbound, Handle(f)
    PROVE  late' \in {0, 1} /\ (late' = 1 => deny_teardown)
<1>1. ASSUME NEW rest, Len(rest) \in {0, 1}, Forward(f, rest)
      PROVE  late' \in {0, 1} /\ (late' = 1 => deny_teardown)
  BY <1>1 DEF Forward
<1>2. CASE late' = late
  BY <1>2
<1>3. ASSUME HandleNone(f), late' # late
      PROVE  late' \in {0, 1} /\ (late' = 1 => deny_teardown)
  <2>1. \/ Forward(f, Excise(f.data))
        \/ Forward(f, <<f.data>>)
    BY <1>3 DEF HandleNone, ReceiveNothing, Poison
  <2>2. Len(Excise(f.data)) \in {0, 1} /\ Len(<<f.data>>) \in {0, 1}
    BY DEF Excise
  <2>3. QED
    BY <2>1, <2>2, <1>1
<1>4. QED
  BY <1>2, <1>3
  DEF Handle, HandleCreate, Decide, HandleRequest, HandleShutdown, ReceiveNothing

(* At most one Guacamole datagram is forwarded between the moment a deny is *)
(* flagged and the teardown of all approved channels.                       *)
THEOREM DenyIsPromptCorrect == Spec => []DenyIsPrompt
<1>1. Init => PromptInv
  BY DEF Init, PromptInv
<1>2. TypeOK /\ PromptInv /\ [Next]_vars => PromptInv'
  <2> SUFFICES ASSUME TypeOK, PromptInv, [Next]_vars
               PROVE  PromptInv'
    OBVIOUS
  <2> USE DEF PromptInv
  <2>1. CASE DenyTeardown
    BY <2>1 DEF DenyTeardown
  <2>2. CASE NoDeny
    BY <2>2 DEF NoDeny
  <2>3. CASE ReceiveTimeout
    BY <2>3 DEF ReceiveTimeout, ReceiveNothing
  <2>4. ASSUME NEW f \in Inbound, Receive(f)
        PROVE  PromptInv'
    <3>1. Handle(f) /\ late = 0 /\ main' = "top" /\ deny_teardown' = deny_teardown
      BY <2>4 DEF Receive
    <3>2. late' \in {0, 1} /\ (late' = 1 => deny_teardown)
      BY <3>1, HandleCounts
    <3>3. QED
      BY <3>1, <3>2
  <2>5. CASE AnnounceStop
    BY <2>5 DEF AnnounceStop
  <2>6. CASE JoinControl
    BY <2>6 DEF JoinControl
  <2>7. CASE ControlStep \/ StoreSeen \/ interrupt_handler \/ UNCHANGED vars
    BY <2>7 DEF ControlStep, SetApprove, FlagDeny, ControlStop, StoreSeen,
                ApproveSeen, FlagSeen, interrupt_handler, vars, mainVars
  <2>8. QED
    BY <2>1, <2>2, <2>3, <2>4, <2>5, <2>6, <2>7 DEF Next, MainStep, Stopped
<1>3. PromptInv => DenyIsPrompt
  BY DEF PromptInv, DenyIsPrompt
<1>4. QED
  BY <1>1, <1>2, <1>3, TypeCorrect, PTL DEF Spec

-----------------------------------------------------------------------------
(* The guard implements Gate.                                               *)

(* The frames of Gate are those of the guard.                               *)
LEMMA SameFrames ==
    /\ \A ch : G!Shutdown(ch) = Shutdown(ch)
    /\ \A ch, p : G!None(ch, p) = None(ch, p)
    /\ \A ch, id : G!Create(ch, id) = Create(ch, id)
    /\ \A ch, v, id : G!Approval(ch, v, id) = Approval(ch, v, id)
    /\ G!Payload = Payload
    /\ G!Frame = Frame
    /\ G!APPROVAL_APPROVE = APPROVAL_APPROVE
    /\ G!APPROVAL_DENY = APPROVAL_DENY
BY DEF G!Shutdown, Shutdown, G!None, None, G!Create, Create, G!Approval, Approval,
       G!Payload, Payload, G!Frame, Frame, G!APPROVAL_APPROVE, APPROVAL_APPROVE,
       G!APPROVAL_DENY, APPROVAL_DENY

(* One SHUTDOWN announces one channel.                                      *)
LEMMA OneShutdown ==
    ASSUME NEW ch \in Channel
    PROVE  G!Announces(<<Shutdown(ch)>>, {ch})
<1>1. DOMAIN <<Shutdown(ch)>> = {1} /\ <<Shutdown(ch)>>[1] = Shutdown(ch)
  OBVIOUS
<1>2. QED
  BY <1>1, SameFrames DEF G!Announces

(* Every way of handling a datagram is a step of Gate.                      *)
LEMMA HandleIsGateStep ==
    ASSUME TypeOK, NEW f \in Inbound, Handle(f)
    PROVE  G!GateNext
<1>1. ASSUME ReceiveNothing
      PROVE  G!GateNext
  BY <1>1 DEF ReceiveNothing, G!GateNext, G!Quiet
<1>2. ASSUME NEW ch \in Channel, NEW id \in Id, HandleCreate(ch, id), approve
      PROVE  G!GateNext
  <2>1. G!Admit(ch, id)
    BY <1>2, SameFrames DEF HandleCreate, Decide, HandleRequest, G!Admit
  <2>2. QED
    BY <2>1 DEF G!GateNext
<1>3. ASSUME NEW ch \in Channel, NEW id \in Id, HandleCreate(ch, id), ~approve
      PROVE  G!GateNext
  <2>1. G!Refuse(ch, id)
    BY <1>3, SameFrames DEF HandleCreate, Decide, HandleRequest, G!Refuse
  <2>2. QED
    BY <2>1 DEF G!GateNext
<1>4. ASSUME NEW ch \in Channel, HandleShutdown(ch) \/ Poison(ch)
      PROVE  G!GateNext
  <2>1. approved' = approved \ {ch} /\ sent' = <<Shutdown(ch)>>
    BY <1>4 DEF HandleShutdown, Poison
  <2>2. G!CloseChannels({ch})
    BY <2>1, OneShutdown DEF G!CloseChannels
  <2>3. QED
    BY <2>2 DEF G!GateNext
<1>5. ASSUME f \in Guacamole, f.channel \in approved,
             NEW q \in Payload, Forward(f, <<q>>)
      PROVE  G!GateNext
  <2> DEFINE g == Carrying(f, q)
  <2>1. sent' = <<g>> /\ approved' = approved
    BY <1>5 DEF Forward
  <2>2. /\ g \in Frame
        /\ g.channel \in approved
        /\ g.action \in {"NONE", "APPROVAL"}
        /\ g.data \in Payload
    BY <1>5, GuacamoleFrames
  <2> HIDE DEF g
  <2>3. G!Pass(g)
    BY <2>1, <2>2, SameFrames DEF G!Pass
  <2>4. QED
    BY <2>2, <2>3, SameFrames DEF G!GateNext
<1>6. ASSUME Forward(f, <<>>)
      PROVE  G!GateNext
  <2>1. sent' = <<>> /\ approved' = approved
    BY <1>6 DEF Forward
  <2>2. QED
    BY <2>1 DEF G!GateNext, G!Quiet
<1>7. ASSUME NEW ch \in Channel, NEW id \in Id \cup {BadId}, HandleCreate(ch, id)
      PROVE  G!GateNext
  <2>1. CASE id \notin Id
    BY <1>7, <2>1, <1>1 DEF HandleCreate
  <2>2. CASE id \in Id
    BY <1>7, <2>2, <1>2, <1>3
  <2>3. QED
    BY <2>1, <2>2
<1>8. ASSUME f \in Guacamole, HandleNone(f)
      PROVE  G!GateNext
  <2>1. CASE f.channel \in poisoned \/ f.channel \notin approved
    BY <1>8, <2>1, <1>1 DEF HandleNone
  <2>2. CASE f.channel \notin poisoned /\ f.channel \in approved
    <3>1. "whole" \in Payload /\ f.data \in Payload /\ f.channel \in Channel
      BY <1>8, GuacamoleFrames DEF Payload
    <3>2. \/ Poison(f.channel)
          \/ Forward(f, <<"whole">>)
          \/ Forward(f, <<>>)
          \/ Forward(f, <<f.data>>)
      BY <1>8, <2>2 DEF HandleNone, Excise
    <3>3. QED
      BY <1>8, <2>2, <3>1, <3>2, <1>4, <1>5, <1>6
  <2>3. QED
    BY <2>1, <2>2
<1>9. QED
  BY <1>1, <1>4, <1>7, <1>8, InboundCases

(* The guard implements Gate: what it relays, under whatever action, leaves *)
(* it only on a channel that it has announced as approved and has not       *)
(* announced as shut down since, and no approved channel is dropped without *)
(* a SHUTDOWN.                                                              *)
THEOREM GuardImplementsGate == Spec => GateSpec
<1>1. Init => G!GateInit
  BY DEF Init, G!GateInit
<1>2. TypeOK /\ [Next]_vars => [G!GateNext]_(G!gateVars)
  <2> SUFFICES ASSUME TypeOK, [Next]_vars
               PROVE  G!GateNext \/ UNCHANGED <<approved, sent>>
    BY DEF G!gateVars
  <2>1. ASSUME NEW order \in Orders(approved), sent' = ShutdownAll(order),
               approved' = {}
        PROVE  G!GateNext
    <3>1. approved \in SUBSET Channel
      BY DEF TypeOK
    <3>2. G!Announces(sent', approved)
      BY <2>1, <3>1, ShutdownAllAnnounces
    <3>3. G!CloseChannels(approved)
      BY <2>1, <3>2 DEF G!CloseChannels
    <3>4. QED
      BY <3>1, <3>3 DEF G!GateNext
  <2>2. CASE DenyTeardown
    BY <2>1, <2>2 DEF DenyTeardown
  <2>3. CASE NoDeny
    BY <2>3 DEF NoDeny, G!GateNext, G!Quiet
  <2>4. CASE ReceiveTimeout
    BY <2>4 DEF ReceiveTimeout, ReceiveNothing, G!GateNext, G!Quiet
  <2>5. ASSUME NEW f \in Inbound, Receive(f)
        PROVE  G!GateNext
    BY <2>5, HandleIsGateStep DEF Receive
  <2>6. CASE AnnounceStop
    BY <2>1, <2>6 DEF AnnounceStop
  <2>7. CASE JoinControl
    BY <2>7 DEF JoinControl, G!GateNext, G!Quiet
  <2>8. CASE ControlStep \/ StoreSeen \/ interrupt_handler \/ UNCHANGED vars
    BY <2>8 DEF ControlStep, SetApprove, FlagDeny, ControlStop, StoreSeen,
                ApproveSeen, FlagSeen, interrupt_handler, vars, mainVars
  <2>9. QED
    BY <2>2, <2>3, <2>4, <2>5, <2>6, <2>7, <2>8 DEF Next, MainStep, Stopped
<1>3. QED
  BY <1>1, <1>2, TypeCorrect, PTL DEF Spec, GateSpec, G!GateSpec

=============================================================================
