--------------------------- MODULE Bridge_proofs ----------------------------
(***************************************************************************)
(* Proofs about Bridge, for any set of connections and any number of       *)
(* faults: approvals reach only the connection whose request was approved, *)
(* and payloads and drawings only the connection they belong to.           *)
(***************************************************************************)
EXTENDS Bridge, TLAPS, SequenceTheorems

(* The datagrams that claim no approval the guard has not given.            *)
Sound ==
    {f \in Datagram :
        f.action = "APPROVAL" /\ f.verdict = APPROVAL_APPROVE => f.data \in granted}

(* Downstream of the guard every approval on its way is a given one.        *)
LinksSound ==
    relaying \in Seq(Sound) /\ mid \in Seq(Sound) /\ back \in Seq(Sound)

BridgeInv == TypeOK /\ VerdictIsOwn /\ SessionIsGranted /\ LinksSound

(* gcdbroker's steps that take no datagram of the guard.                    *)
Returning == Relay \/ ReaderAnnounces \/ \E c \in Id : Reader(c)

-----------------------------------------------------------------------------
(* Taking the first element off.                                            *)
LEMMA HeadTail ==
    ASSUME NEW S, NEW s \in Seq(S), s # <<>>
    PROVE  Head(s) \in S /\ Tail(s) \in Seq(S)
  BY HeadTailProperties

(* No fault of a link (losing, repeating, overtaking a datagram) makes up a *)
(* datagram.                                                                *)
LEMMA FaultsKeepSeq ==
    ASSUME NEW S, NEW s \in Seq(S), NEW t, NEW i \in DOMAIN s,
           \/ t = Without(s, i)
           \/ t = Append(s, s[i])
           \/ /\ i + 1 \in DOMAIN s
              /\ t = [s EXCEPT ![i] = s[i + 1], ![i + 1] = s[i]]
    PROVE  t \in Seq(S)
<1>1. /\ i \in 1..Len(s) /\ Len(s) \in Nat /\ s \in [1..Len(s) -> S]
  BY LenProperties
<1>2. SubSeq(s, 1, i - 1) \in Seq(S)
  BY <1>1, SubSeqProperties
<1>3. SubSeq(s, i + 1, Len(s)) \in Seq(S)
  BY <1>1, SubSeqProperties
<1>4. Without(s, i) \in Seq(S)
  BY <1>2, <1>3, ConcatProperties DEF Without
<1>5. Append(s, s[i]) \in Seq(S)
  BY <1>1, AppendProperties
<1>6. ASSUME i + 1 \in DOMAIN s
      PROVE  [s EXCEPT ![i] = s[i + 1], ![i + 1] = s[i]] \in Seq(S)
  <2>1. [s EXCEPT ![i] = s[i + 1], ![i + 1] = s[i]] \in [1..Len(s) -> S]
    BY <1>1, <1>6
  <2> QED
    BY <1>1, <2>1, SeqDef
<1> QED
  BY <1>4, <1>5, <1>6

(* The frames of the bridge are datagrams that claim no approval, except an *)
(* approval itself.                                                         *)
LEMMA FramesSound ==
    /\ Shutdown(ch) \in Sound
    /\ \A c \in Id : /\ None(ch, c) \in Sound
                     /\ Create(ch, c) \in Sound
                     /\ Approval(ch, APPROVAL_DENY, c) \in Sound
                     /\ c \in granted => Approval(ch, APPROVAL_APPROVE, c) \in Sound
<1>1. Shutdown(ch) \in Sound
  BY DEF Sound, Datagram, Shutdown
<1>2. \A c \in Id : None(ch, c) \in Sound /\ Create(ch, c) \in Sound
  BY DEF Sound, Datagram, None, Create
<1>3. \A c \in Id : Approval(ch, APPROVAL_DENY, c) \in Sound
  BY DEF Sound, Datagram, Approval, APPROVAL_DENY, APPROVAL_APPROVE
<1>4. \A c \in Id : c \in granted => Approval(ch, APPROVAL_APPROVE, c) \in Sound
  BY DEF Sound, Datagram, Approval, APPROVAL_DENY, APPROVAL_APPROVE
<1> QED
  BY <1>1, <1>2, <1>3, <1>4

(* What a sound datagram says, by its action.                               *)
LEMMA SoundFacts ==
    ASSUME NEW f \in Sound
    PROVE  /\ f \in Datagram
           /\ f.action \in {"NONE", "CREATE", "APPROVAL"} => f.data \in Id
           /\ f.action = "APPROVAL" /\ f.verdict = APPROVAL_APPROVE => f.data \in granted
  BY DEF Sound, Datagram, Shutdown

(* What is sound stays sound when the guard approves more requests.         *)
LEMMA SoundGrows ==
    ASSUME granted \subseteq granted'
    PROVE  Sound \subseteq Sound'
  BY DEF Sound, Datagram

-----------------------------------------------------------------------------
(* Nothing is on the links at first.                                        *)
LEMMA InitInv == Init => BridgeInv
<1> SUFFICES ASSUME Init PROVE BridgeInv
  OBVIOUS
<1>1. \A S : <<>> \in Seq(S)
  BY EmptySeq
<1>2. TypeOK
  BY <1>1, BridgeAssumption DEF Init, TypeOK
<1>3. VerdictIsOwn /\ SessionIsGranted
  BY DEF Init, VerdictIsOwn, SessionIsGranted
<1>4. LinksSound
  BY <1>1 DEF Init, LinksSound
<1> QED
  BY <1>2, <1>3, <1>4 DEF BridgeInv

(* Steps of a browser: they add a request, a payload or a SHUTDOWN to the   *)
(* link to the guard, and pipe nothing through.                             *)
LEMMA BrowserStep ==
    ASSUME BridgeInv, NEW c \in Id, Browser(c)
    PROVE  BridgeInv'
<1>1. Create(ch, c) \in Datagram /\ None(ch, c) \in Datagram /\ Shutdown(ch) \in Datagram
  BY FramesSound, SoundFacts
<1>2. UNCHANGED <<approve, approved, bound, readers, announcing, relaying, mid,
                  back, faults, granted,
                  misfired, crossed>>
  BY DEF Browser, Accept, Ask, Type, BrowserClose, Announce, sessions, gmlElse, history
<1>3. conn' \in [Id -> {"new", "open", "asked", "piped", "leaving", "closed"}]
  BY DEF BridgeInv, TypeOK, Browser, Accept, Ask, Type, BrowserClose, Announce
<1>4. up' \in Seq(Datagram)
  <2>1. \/ up' = up \/ up' = Append(up, Create(ch, c))
        \/ up' = Append(up, None(ch, c)) \/ up' = Append(up, Shutdown(ch))
    BY DEF Browser, Accept, Ask, Type, BrowserClose, Announce
  <2>2. up \in Seq(Datagram)
    BY DEF BridgeInv, TypeOK
  <2> QED
    BY <1>1, <2>1, <2>2, AppendProperties
<1>5. early' \subseteq Id /\ heirs' \subseteq Id
  BY DEF BridgeInv, TypeOK, Browser, Accept, Ask, Type, BrowserClose, Announce, history
<1>6. \A d \in Id : conn'[d] = "piped" => conn[d] = "piped"
  BY DEF BridgeInv, TypeOK, Browser, Accept, Ask, Type, BrowserClose, Announce
<1>7. TypeOK'
  BY <1>2, <1>3, <1>4, <1>5 DEF BridgeInv, TypeOK, Datagram
<1>8. VerdictIsOwn' /\ SessionIsGranted'
  BY <1>2, <1>6 DEF BridgeInv, VerdictIsOwn, SessionIsGranted
<1>9. LinksSound'
  BY <1>2 DEF BridgeInv, LinksSound, Sound, Datagram
<1> QED
  BY <1>7, <1>8, <1>9 DEF BridgeInv

(* gmlbroker receives: only an approval of the connection's own request     *)
(* pipes it through, and that approval was given.                           *)
LEMMA ReceiveBackStep ==
    ASSUME BridgeInv, ReceiveBack
    PROVE  BridgeInv'
<1> DEFINE f == Head(back)
           Kept ==
             /\ conn' \in [Id -> {"new", "open", "asked", "piped", "leaving", "closed"}]
             /\ crossed' \subseteq {"payload", "drawing"} \X Id \X Id
             /\ \A d \in Id : conn'[d] = "piped" => d \in granted
<1>1. f \in Sound /\ back' \in Seq(Sound)
  BY HeadTail DEF sessions, ReceiveBack, BridgeInv, LinksSound
<1>2. UNCHANGED <<approve, approved, bound, readers, announcing, relaying, up, mid,
                  faults, granted, early, heirs, misfired>>
  BY DEF sessions, ReceiveBack
<1>4. Kept
  <2>1. CASE Free /\ UNCHANGED <<conn, crossed>>
    BY <2>1 DEF BridgeInv, TypeOK, VerdictIsOwn
  <2>2. ASSUME NEW c \in Id, Open(c), Deliver(c, f)
        PROVE  Kept
    <3>1. CASE f.action = "SHUTDOWN"
      BY <2>2, <3>1 DEF Deliver, BridgeInv, TypeOK, VerdictIsOwn
    <3>2. CASE f.action = "APPROVAL"
      <4>1. OnVerdict(c, f) /\ UNCHANGED crossed
        BY <2>2, <3>2 DEF Deliver
      <4>4. f.verdict = APPROVAL_APPROVE => f.data \in granted
        BY <1>1, <3>2, SoundFacts
      <4>5. /\ conn' \in [Id -> {"new", "open", "asked", "piped", "leaving", "closed"}]
            /\ \A d \in Id : conn'[d] = "piped" => d \in granted
        BY <4>1, <4>4 DEF OnVerdict, ApplyVerdict, BridgeInv, TypeOK, VerdictIsOwn
      <4> QED
        BY <4>1, <4>5 DEF BridgeInv, TypeOK
    <3>3. CASE f.action = "NONE"
      <4>1. Cross("drawing", f.data, c) /\ UNCHANGED conn
        BY <2>2, <3>3 DEF Deliver
      <4>2. f.data \in Id
        BY <1>1, <3>3, SoundFacts
      <4>3. <<"drawing", f.data, c>> \in {"payload", "drawing"} \X Id \X Id
        BY <4>2
      <4>4. crossed' \subseteq {"payload", "drawing"} \X Id \X Id
        BY <4>1, <4>3 DEF Cross, BridgeInv, TypeOK
      <4> QED
        BY <4>1, <4>4 DEF BridgeInv, TypeOK, VerdictIsOwn
    <3> QED
      BY <2>2, <3>1, <3>2, <3>3 DEF Deliver
  <2> QED
    BY <2>1, <2>2 DEF sessions, ReceiveBack
<1>5. back' \in Seq(Datagram)
  BY <1>1, SeqMonotonic DEF Sound
<1>6. TypeOK'
  BY <1>2, <1>4, <1>5 DEF BridgeInv, TypeOK, Datagram
<1>7. VerdictIsOwn' /\ SessionIsGranted'
  BY <1>2, <1>4 DEF BridgeInv, VerdictIsOwn, SessionIsGranted
<1>8. LinksSound'
  BY <1>1, <1>2 DEF BridgeInv, LinksSound, Sound, Datagram
<1> QED
  BY <1>6, <1>7, <1>8 DEF BridgeInv

(* The guard's steps: granted grows by the request that is approved, and    *)
(* its approval is sent on; everything else sent on claims none.            *)
LEMMA GuardStep ==
    ASSUME BridgeInv,
           /\ UNCHANGED guardElse
           /\ approve' \in BOOLEAN
           /\ up' \in Seq(Datagram)
           /\ faults' \in 0..MaxFaults,
           \/ Unmoved \/ TearDown
           \/ \E f \in Datagram :
                 \/ f.action = "CREATE" /\ Decide(f)
                 \/ f.action # "APPROVAL" /\ HandleShutdown(f)
                 \/ f.action # "APPROVAL" /\ Forward(f)
    PROVE  BridgeInv'
<1> DEFINE Kept ==
             /\ approved' \in Id \cup {NoConn}
             /\ granted \subseteq granted' /\ granted' \subseteq Id
             /\ misfired' \subseteq Id
             /\ mid' \in Seq(Sound')
<1>1. mid \in Seq(Sound)
  BY DEF BridgeInv, LinksSound
<1>2. ASSUME granted' = granted PROVE Sound' = Sound
  BY <1>2 DEF Sound, Datagram
<1>3. ASSUME Unmoved PROVE Kept
  BY <1>1, <1>2, <1>3 DEF Unmoved, BridgeInv, TypeOK
<1>4. ASSUME TearDown PROVE Kept
  <2>1. mid' \in Seq(Sound)
    BY <1>1, <1>4, FramesSound, AppendProperties DEF TearDown
  <2> QED
    BY <1>2, <1>4, <2>1 DEF TearDown, BridgeInv, TypeOK
<1>5. ASSUME NEW f \in Datagram, f.action = "CREATE", Decide(f)
      PROVE  Kept
  <2>1. f.data \in Id
    BY <1>5 DEF Datagram, Shutdown
  <2>2. granted \subseteq granted' /\ granted' \subseteq Id
    BY <1>5, <2>1 DEF Decide, BridgeInv, TypeOK
  <2>3. Sound \subseteq Sound' /\ f \in Sound
    BY <1>5, <2>2, SoundGrows DEF Sound
  <2>4. mid \in Seq(Sound')
    BY <1>1, <2>3, SeqMonotonic
  <2>5. CASE approve
    <3>1. f.data \in granted'
      BY <1>5, <2>5 DEF Decide
    <3>2. Approval(ch, APPROVAL_APPROVE, f.data) \in Sound'
      BY <2>1, <3>1 DEF Sound, Datagram, Approval
    <3>3. <<f, Approval(ch, APPROVAL_APPROVE, f.data)>> \in Seq(Sound')
      BY <2>3, <3>2
    <3>4. mid' \in Seq(Sound')
      BY <1>5, <2>4, <2>5, <3>3, ConcatProperties DEF Decide
    <3> QED
      BY <1>5, <2>1, <2>2, <2>5, <3>4 DEF Decide, BridgeInv, TypeOK
  <2>6. CASE ~approve
    <3>1. Approval(ch, APPROVAL_DENY, f.data) \in Sound' /\ Shutdown(ch) \in Sound'
      BY <2>1, <2>3, FramesSound
    <3>2. <<f, Approval(ch, APPROVAL_DENY, f.data), Shutdown(ch)>> \in Seq(Sound')
      BY <2>3, <3>1
    <3>3. mid' \in Seq(Sound')
      BY <1>5, <2>4, <2>6, <3>2, ConcatProperties DEF Decide
    <3> QED
      BY <1>5, <2>1, <2>2, <2>6, <3>3 DEF Decide, BridgeInv, TypeOK
  <2> QED
    BY <2>5, <2>6
<1>6. ASSUME NEW f \in Datagram, f.action # "APPROVAL", HandleShutdown(f) \/ Forward(f)
      PROVE  Kept
  <2>1. f \in Sound
    BY <1>6 DEF Sound
  <2>2. mid' = Append(mid, f)
    BY <1>6 DEF HandleShutdown, Forward
  <2>3. Append(mid, f) \in Seq(Sound)
    BY <1>1, <2>1, AppendProperties
  <2>4. mid' \in Seq(Sound)
    BY <2>2, <2>3
  <2> QED
    BY <1>2, <1>6, <2>4 DEF HandleShutdown, Forward, BridgeInv, TypeOK
<1>7. Kept
  BY <1>3, <1>4, <1>5, <1>6
<1>8. UNCHANGED <<conn, bound, readers, announcing, relaying, back, early, heirs,
                  crossed>>
  BY DEF sessions, guardElse
<1>9. Sound \subseteq Sound'
  BY <1>7, SoundGrows
<1>10. LinksSound'
  BY <1>7, <1>8, <1>9, SeqMonotonic DEF LinksSound, BridgeInv
<1>11. mid' \in Seq(Datagram)
  BY <1>7, SeqMonotonic DEF Sound, Datagram
<1>12. TypeOK'
  BY <1>7, <1>8, <1>11 DEF BridgeInv, TypeOK, Datagram
<1>13. VerdictIsOwn' /\ SessionIsGranted'
  BY <1>7, <1>8 DEF BridgeInv, VerdictIsOwn, SessionIsGranted
<1> QED
  BY <1>10, <1>12, <1>13 DEF BridgeInv

(* The guard receives.                                                      *)
LEMMA ReceiveUpStep ==
    ASSUME BridgeInv, ReceiveUp
    PROVE  BridgeInv'
<1>1. Head(up) \in Datagram /\ up' \in Seq(Datagram)
  BY HeadTail DEF ReceiveUp, BridgeInv, TypeOK
<1>2. UNCHANGED <<approve, faults, guardElse>>
  BY DEF ReceiveUp
<1>3. \/ Unmoved \/ TearDown
      \/ \E f \in Datagram :
            \/ f.action = "CREATE" /\ Decide(f)
            \/ f.action # "APPROVAL" /\ HandleShutdown(f)
            \/ f.action # "APPROVAL" /\ Forward(f)
  BY <1>1 DEF ReceiveUp, HandleNone
<1> QED
  BY <1>1, <1>2, <1>3, GuardStep DEF BridgeInv, TypeOK

(* The operator turns the switch, or the guard is restarted.                *)
LEMMA OperatorStep ==
    ASSUME BridgeInv, Flip \/ GuardRestart
    PROVE  BridgeInv'
<1>1. Unmoved \/ TearDown
  BY DEF Flip, GuardRestart, EndApproval
<1>2. UNCHANGED guardElse /\ approve' \in BOOLEAN
  BY DEF Flip, GuardRestart, BridgeInv, TypeOK
<1>3. up' \in Seq(Datagram)
  BY EmptySeq DEF Flip, GuardRestart, BridgeInv, TypeOK
<1>4. faults' \in 0..MaxFaults
  BY BridgeAssumption DEF Flip, GuardRestart, Fails, BridgeInv, TypeOK
<1> QED
  BY <1>1, <1>2, <1>3, <1>4, GuardStep

(* gcdbroker receives: it dials only for a given approval, and relays no    *)
(* approval but that one.                                                   *)
LEMMA ReceiveMidStep ==
    ASSUME BridgeInv, ReceiveMid
    PROVE  BridgeInv'
<1> DEFINE f == Head(mid)
           Kept ==
             /\ bound' \in Id \cup {NoConn}
             /\ bound' # NoConn => bound' \in granted
             /\ relaying' \in Seq(Sound) /\ back' \in Seq(Sound)
             /\ crossed' \subseteq {"payload", "drawing"} \X Id \X Id
             /\ faults' \in 0..MaxFaults
             /\ readers' \in [Id -> Nat] /\ announcing' \in Nat
<1>1. f \in Sound /\ mid' \in Seq(Sound)
  BY HeadTail DEF sessions, ReceiveMid, BridgeInv, LinksSound
<1>2. UNCHANGED <<conn, approve, approved, up, granted, early, heirs, misfired>>
  BY DEF sessions, ReceiveMid, gcdElse
<1>3. relaying \in Seq(Sound) /\ back \in Seq(Sound)
  BY DEF BridgeInv, LinksSound
<1>4. ASSUME f.action = "CREATE", UNCHANGED <<sessions, relaying, back, crossed, faults>>
      PROVE  Kept
  BY <1>3, <1>4 DEF sessions, BridgeInv, TypeOK, SessionIsGranted
<1>5. ASSUME f.action = "APPROVAL", OnApproval(f), UNCHANGED <<back, crossed, faults>>
      PROVE  Kept
  <2>1. f.data \in Id /\ (f.verdict = APPROVAL_APPROVE => f.data \in granted)
    BY <1>1, <1>5, SoundFacts
  <2>2. /\ f.verdict = APPROVAL_APPROVE =>
              Approval(ch, APPROVAL_APPROVE, f.data) \in Sound
        /\ Approval(ch, APPROVAL_DENY, f.data) \in Sound
    BY <2>1, FramesSound
  <2>3. \A x \in Sound : <<x>> \in Seq(Sound)
    OBVIOUS
  <2>4. relaying' \in Seq(Sound)
    BY <1>1, <1>5, <2>2, <2>3 DEF OnApproval, Dial, DialFails
  <2>5. bound' = bound \/ (bound' = f.data /\ f.verdict = APPROVAL_APPROVE)
    BY <1>5 DEF OnApproval, Dial, DialFails, sessions
  <2>6. readers' \in [Id -> Nat] /\ announcing' = announcing
    <3>1. /\ announcing' = announcing
          /\ readers' = readers \/ readers' = [readers EXCEPT ![f.data] = @ + 1]
      BY <1>5 DEF OnApproval, Dial, DialFails, sessions
    <3>2. readers \in [Id -> Nat]
      BY DEF BridgeInv, TypeOK
    <3> QED
      BY <2>1, <3>1, <3>2
  <2> QED
    BY <1>3, <1>5, <2>1, <2>4, <2>5, <2>6 DEF BridgeInv, TypeOK, SessionIsGranted
<1>6. ASSUME f.action = "SHUTDOWN", OnShutdown, UNCHANGED <<relaying, crossed, faults>>
      PROVE  Kept
  <2>1. back' \in Seq(Sound)
    BY <1>3, <1>6, FramesSound, AppendProperties DEF sessions, OnShutdown
  <2> QED
    BY <1>3, <1>6, <2>1 DEF sessions, OnShutdown, BridgeInv, TypeOK
<1>7. ASSUME f.action = "NONE", OnPayload(f),
             UNCHANGED <<readers, announcing, relaying, back>>
      PROVE  Kept
  <2>1. f.data \in Id
    BY <1>1, <1>7, SoundFacts
  <2>2. bound' = bound \/ bound' = NoConn
    BY <1>7 DEF OnPayload
  <2>3. crossed' = crossed \/ (bound \in Id /\ crossed' = crossed \cup {<<"payload", f.data, bound>>})
    BY <1>7 DEF OnPayload, Cross, BridgeInv, TypeOK
  <2>4. crossed' \subseteq {"payload", "drawing"} \X Id \X Id
    BY <2>1, <2>3 DEF BridgeInv, TypeOK
  <2>5. faults' \in 0..MaxFaults
    BY <1>7, BridgeAssumption DEF OnPayload, Fails, BridgeInv, TypeOK
  <2> QED
    BY <1>3, <1>7, <2>2, <2>4, <2>5 DEF BridgeInv, TypeOK, SessionIsGranted
<1>8. Kept
  BY <1>4, <1>5, <1>6, <1>7 DEF sessions, ReceiveMid
<1>9. Sound' = Sound
  BY <1>2 DEF Sound, Datagram
<1>10. /\ relaying' \in Seq(Datagram) /\ back' \in Seq(Datagram)
       /\ mid' \in Seq(Datagram)
  BY <1>1, <1>8, SeqMonotonic DEF Sound
<1>11. TypeOK'
  BY <1>2, <1>8, <1>10 DEF BridgeInv, TypeOK, Datagram
<1>12. VerdictIsOwn' /\ SessionIsGranted' /\ LinksSound'
  BY <1>1, <1>2, <1>8, <1>9 DEF BridgeInv, VerdictIsOwn, SessionIsGranted, LinksSound
<1> QED
  BY <1>11, <1>12 DEF BridgeInv

(* gcdbroker relays the verdict; its readers draw, end and announce that.   *)
LEMMA SessionStep ==
    ASSUME BridgeInv, Returning
    PROVE  BridgeInv'
<1>1. UNCHANGED <<conn, approve, approved, up, granted, early, heirs, misfired,
                  mid, faults, crossed>>
  BY DEF Returning, Relay, Reader, ReaderEnds, ReaderAnnounces, Draw, gcdElse
<1>2. bound' \in {bound, NoConn} /\ relaying' \in {relaying, <<>>}
  BY DEF Returning, sessions, Relay, Reader, ReaderEnds, ReaderAnnounces, Draw
<1>9. readers' \in [Id -> Nat] /\ announcing' \in Nat
  <2>1. readers \in [Id -> Nat] /\ announcing \in Nat
    BY DEF BridgeInv, TypeOK
  <2>2. CASE UNCHANGED <<readers, announcing>>
    BY <2>1, <2>2
  <2>3. CASE ReaderAnnounces
    BY <2>1, <2>3 DEF ReaderAnnounces
  <2>4. ASSUME NEW c \in Id, ReaderEnds(c)
        PROVE  readers' \in [Id -> Nat] /\ announcing' \in Nat
    BY <2>1, <2>4 DEF ReaderEnds
  <2> QED
    BY <2>2, <2>3, <2>4 DEF Returning, Relay, Reader, Draw, sessions
<1>3. relaying' \in Seq(Sound)
  BY <1>2, EmptySeq DEF BridgeInv, LinksSound
<1>4. back' \in Seq(Sound)
  <2>1. CASE Relay
    BY <2>1, ConcatProperties DEF Relay, BridgeInv, LinksSound
  <2>2. CASE ReaderAnnounces
    BY <2>2, FramesSound, AppendProperties DEF ReaderAnnounces, BridgeInv, LinksSound
  <2>3. ASSUME NEW c \in Id, Draw(c) PROVE back' \in Seq(Sound)
    <3>1. None(ch, c) \in Sound
      BY FramesSound
    <3> QED
      BY <2>3, <3>1, AppendProperties DEF Draw, BridgeInv, LinksSound
  <2>4. ASSUME NEW c \in Id, ReaderEnds(c) PROVE back' \in Seq(Sound)
    BY <2>4 DEF ReaderEnds, BridgeInv, LinksSound
  <2> QED
    BY <2>1, <2>2, <2>3, <2>4 DEF Returning, Reader
<1>5. Sound' = Sound
  BY <1>1 DEF Sound, Datagram
<1>6. relaying' \in Seq(Datagram) /\ back' \in Seq(Datagram)
  BY <1>3, <1>4, SeqMonotonic DEF Sound
<1>7. TypeOK'
  BY <1>1, <1>2, <1>6, <1>9 DEF BridgeInv, TypeOK, Datagram
<1>8. VerdictIsOwn' /\ SessionIsGranted' /\ LinksSound'
  BY <1>1, <1>2, <1>3, <1>4, <1>5
  DEF BridgeInv, VerdictIsOwn, SessionIsGranted, LinksSound
<1> QED
  BY <1>7, <1>8 DEF BridgeInv

(* gcdbroker is restarted: sessions and datagrams are lost, nothing else.   *)
LEMMA KillStep ==
    ASSUME BridgeInv, WriteKills
    PROVE  BridgeInv'
<1>1. UNCHANGED <<conn, approve, approved, relaying, up, granted, early, heirs,
                  misfired, crossed>>
  BY DEF WriteKills, gcdElse
<1>2. /\ bound' = NoConn /\ readers' \in [Id -> Nat] /\ announcing' \in Nat
      /\ faults' \in 0..MaxFaults
  BY BridgeAssumption DEF WriteKills, Fails, BridgeInv, TypeOK
<1>3. mid' \in Seq(Sound) /\ back' \in Seq(Sound)
  <2>1. mid \in Seq(Sound) /\ back \in Seq(Sound) /\ mid # <<>>
    BY DEF WriteKills, BridgeInv, LinksSound
  <2>2. mid' \in {Tail(mid), <<>>} /\ back' \in {back, <<>>}
    BY DEF WriteKills
  <2>3. Tail(mid) \in Seq(Sound) /\ <<>> \in Seq(Sound)
    BY <2>1, HeadTail, EmptySeq
  <2> QED
    BY <2>1, <2>2, <2>3
<1>4. Sound' = Sound
  BY <1>1 DEF Sound, Datagram
<1>5. mid' \in Seq(Datagram) /\ back' \in Seq(Datagram)
  BY <1>3, SeqMonotonic DEF Sound
<1>6. TypeOK'
  BY <1>1, <1>2, <1>5 DEF BridgeInv, TypeOK, Datagram
<1>7. VerdictIsOwn' /\ SessionIsGranted' /\ LinksSound'
  BY <1>1, <1>2, <1>3, <1>4
  DEF BridgeInv, VerdictIsOwn, SessionIsGranted, LinksSound
<1> QED
  BY <1>6, <1>7 DEF BridgeInv

(* A fault of the network makes up no datagram.                             *)
LEMMA FaultStep ==
    ASSUME BridgeInv, NetworkFault
    PROVE  BridgeInv'
<1>1. UNCHANGED <<conn, approve, approved, bound, readers, announcing, relaying,
                  granted, early, heirs, misfired, crossed>>
  BY DEF sessions, NetworkFault, history
<1>2. faults' \in 0..MaxFaults
  <2>1. Fails
    BY DEF NetworkFault, Fault, Lose, Repeat, Overtake
  <2> QED
    BY <2>1, BridgeAssumption DEF Fails, BridgeInv, TypeOK
<1>3. up' \in Seq(Datagram)
  <2>1. CASE UNCHANGED up
    BY <2>1 DEF BridgeInv, TypeOK
  <2>2. CASE Fault(up)
    <3>1. up \in Seq(Datagram)
      BY DEF BridgeInv, TypeOK
    <3>2. PICK i \in DOMAIN up :
             \/ up' = Without(up, i)
             \/ up' = Append(up, up[i])
             \/ /\ i + 1 \in DOMAIN up
                /\ up' = [up EXCEPT ![i] = up[i + 1], ![i + 1] = up[i]]
      BY <2>2 DEF Fault, Lose, Repeat, Overtake
    <3> QED
      BY <3>1, <3>2, FaultsKeepSeq
  <2> QED
    BY <2>1, <2>2 DEF sessions, NetworkFault
<1>4. mid' \in Seq(Sound)
  <2>1. CASE UNCHANGED mid
    BY <2>1 DEF BridgeInv, LinksSound
  <2>2. CASE Fault(mid)
    <3>1. mid \in Seq(Sound)
      BY DEF BridgeInv, LinksSound
    <3>2. PICK i \in DOMAIN mid :
             \/ mid' = Without(mid, i)
             \/ mid' = Append(mid, mid[i])
             \/ /\ i + 1 \in DOMAIN mid
                /\ mid' = [mid EXCEPT ![i] = mid[i + 1], ![i + 1] = mid[i]]
      BY <2>2 DEF Fault, Lose, Repeat, Overtake
    <3> QED
      BY <3>1, <3>2, FaultsKeepSeq
  <2> QED
    BY <2>1, <2>2 DEF sessions, NetworkFault
<1>5. back' \in Seq(Sound)
  <2>1. CASE UNCHANGED back
    BY <2>1 DEF BridgeInv, LinksSound
  <2>2. CASE Fault(back)
    <3>1. back \in Seq(Sound)
      BY DEF BridgeInv, LinksSound
    <3>2. PICK i \in DOMAIN back :
             \/ back' = Without(back, i)
             \/ back' = Append(back, back[i])
             \/ /\ i + 1 \in DOMAIN back
                /\ back' = [back EXCEPT ![i] = back[i + 1], ![i + 1] = back[i]]
      BY <2>2 DEF Fault, Lose, Repeat, Overtake
    <3> QED
      BY <3>1, <3>2, FaultsKeepSeq
  <2> QED
    BY <2>1, <2>2 DEF sessions, NetworkFault
<1>6. Sound' = Sound
  BY <1>1 DEF Sound, Datagram
<1>7. mid' \in Seq(Datagram) /\ back' \in Seq(Datagram)
  BY <1>4, <1>5, SeqMonotonic DEF Sound
<1>8. TypeOK'
  BY <1>1, <1>2, <1>3, <1>7 DEF BridgeInv, TypeOK, Datagram
<1>9. VerdictIsOwn' /\ SessionIsGranted' /\ LinksSound'
  BY <1>1, <1>4, <1>5, <1>6
  DEF BridgeInv, VerdictIsOwn, SessionIsGranted, LinksSound
<1> QED
  BY <1>8, <1>9 DEF BridgeInv

-----------------------------------------------------------------------------
(* The invariant is inductive.                                              *)
LEMMA NextInv ==
    BridgeInv /\ [Next]_vars => BridgeInv'
<1> SUFFICES ASSUME BridgeInv, [Next]_vars PROVE BridgeInv'
  OBVIOUS
<1>1. CASE UNCHANGED vars
  <2>1. UNCHANGED <<conn, approve, approved, bound, readers, announcing, relaying, up,
                    mid, back, faults, granted, early, heirs, misfired, crossed>>
    BY <1>1 DEF vars, sessions, links, history
  <2> QED
    BY <2>1 DEF BridgeInv, TypeOK, VerdictIsOwn, SessionIsGranted, LinksSound, Sound,
                Datagram
<1>2. CASE \E c \in Id : Browser(c)
  BY <1>2, BrowserStep
<1>3. CASE ReceiveUp
  BY <1>3, ReceiveUpStep
<1>4. CASE ReceiveMid
  BY <1>4, ReceiveMidStep
<1>5. CASE ReceiveBack
  BY <1>5, ReceiveBackStep
<1>6. CASE Returning
  BY <1>6, SessionStep
<1>7. CASE Flip \/ GuardRestart
  BY <1>7, OperatorStep
<1>8. CASE NetworkFault
  BY <1>8, FaultStep
<1>9. CASE WriteKills
  BY <1>9, KillStep
<1> QED
  BY <1>1, <1>2, <1>3, <1>4, <1>5, <1>6, <1>7, <1>8, <1>9 DEF Next, Returning

(* The invariant holds throughout.                                          *)
LEMMA BridgeInvariant == Spec => []BridgeInv
  BY InitInv, NextInv, PTL DEF Spec

(* No fault puts anything on a link that is not one of the bridge's         *)
(* datagrams, and every verdict names a request.                            *)
THEOREM TypeCorrect == Spec => []TypeOK
<1>1. BridgeInv => TypeOK
  BY DEF BridgeInv
<1> QED
  BY <1>1, BridgeInvariant, PTL

(* However the links lose, repeat and reorder, however often the guard is   *)
(* restarted and whoever shares the channel: a browser is piped through     *)
(* only when the guard approved its own request                             *)
(* (guacamole_send_handler.cpp 67-85), and guacd is dialled only for an     *)
(* approved request (guacd_send_handler.cpp 57-76).                         *)
THEOREM ApprovalsAreOwnCorrect == Spec => []ApprovalsAreOwn
<1>1. BridgeInv => ApprovalsAreOwn
  BY DEF BridgeInv, ApprovalsAreOwn
<1> QED
  BY <1>1, BridgeInvariant, PTL

-----------------------------------------------------------------------------
(* What flows where.                                                        *)

Grant(c) == Approval(ch, APPROVAL_APPROVE, c)

(* A datagram is the frame that its action names.                           *)
LEMMA DatagramShape ==
    ASSUME NEW f \in Datagram
    PROVE  /\ f.action = "NONE" => f = None(ch, f.data) /\ f.data \in Id
           /\ f.action = "CREATE" => f = Create(ch, f.data) /\ f.data \in Id
           /\ f.action = "APPROVAL" =>
                 /\ f.verdict \in {APPROVAL_APPROVE, APPROVAL_DENY}
                 /\ f = Approval(ch, f.verdict, f.data) /\ f.data \in Id
           /\ f.action = "SHUTDOWN" => f = Shutdown(ch)
           /\ f.action \in {"NONE", "CREATE", "APPROVAL", "SHUTDOWN"}
<1>1. CASE f \in [action : {"NONE", "CREATE"}, channel : {ch}, verdict : {"-"}, data : Id]
  BY <1>1 DEF None, Create
<1>2. CASE f \in [action : {"APPROVAL"}, channel : {ch},
                  verdict : {APPROVAL_APPROVE, APPROVAL_DENY}, data : Id]
  BY <1>2 DEF Approval
<1>3. CASE f = Shutdown(ch)
  BY <1>3 DEF Shutdown
<1> QED
  BY <1>1, <1>2, <1>3 DEF Datagram

(* The frames of the bridge are datagrams.                                  *)
LEMMA FramesAreDatagrams ==
    /\ Shutdown(ch) \in Datagram
    /\ \A c \in Id : /\ None(ch, c) \in Datagram /\ Create(ch, c) \in Datagram
                     /\ \A v \in {APPROVAL_APPROVE, APPROVAL_DENY} :
                           Approval(ch, v, c) \in Datagram
<1>1. Shutdown(ch) \in Datagram
  BY DEF Datagram
<1>2. \A c \in Id : None(ch, c) \in Datagram /\ Create(ch, c) \in Datagram
  BY DEF Datagram, None, Create
<1>3. \A c \in Id, v \in {APPROVAL_APPROVE, APPROVAL_DENY} : Approval(ch, v, c) \in Datagram
  BY DEF Datagram, Approval
<1> QED
  BY <1>1, <1>2, <1>3

(* A fault of a link leaves it with datagrams it had.                       *)
LEMMA FaultKeepsContents ==
    ASSUME NEW S, NEW s \in Seq(S), NEW t,
           \E i \in DOMAIN s :
              \/ t = Without(s, i)
              \/ t = Append(s, s[i])
              \/ /\ i + 1 \in DOMAIN s
                 /\ t = [s EXCEPT ![i] = s[i + 1], ![i + 1] = s[i]]
    PROVE  t \in Seq(S)
  BY FaultsKeepSeq

(* If every kind of datagram that a process may send on, given what its     *)
(* links hold, is allowed on the next link, then the links go on holding    *)
(* allowed datagrams only.                                                  *)
LEMMA Flow ==
    ASSUME BridgeInv, Next,
           NEW U \in SUBSET Datagram, NEW M \in SUBSET Datagram,
           NEW R \in SUBSET Datagram, NEW B \in SUBSET Datagram,
           up \in Seq(U), mid \in Seq(M), relaying \in Seq(R), back \in Seq(B),
           Shutdown(ch) \in U /\ Shutdown(ch) \in M /\ Shutdown(ch) \in B,
           \A c \in Id : Ask(c) => Create(ch, c) \in U,
           \A c \in Id : Type(c) => None(ch, c) \in U,
           \A f \in U : f.action # "APPROVAL" => f \in M,
           \A f \in U : f.action = "CREATE" =>
              \A v \in {APPROVAL_APPROVE, APPROVAL_DENY} : Approval(ch, v, f.data) \in M,
           \A f \in M : f.action = "APPROVAL" =>
              /\ Approval(ch, APPROVAL_DENY, f.data) \in R
              /\ f.verdict = APPROVAL_APPROVE /\ bound' = f.data => Grant(f.data) \in R,
           R \subseteq B,
           \A c \in Id : readers[c] > 0 => None(ch, c) \in B
    PROVE  up' \in Seq(U) /\ mid' \in Seq(M) /\ relaying' \in Seq(R) /\ back' \in Seq(B)
<1>a. /\ Append(up, Shutdown(ch)) \in Seq(U)
      /\ Append(mid, Shutdown(ch)) \in Seq(M)
      /\ Append(back, Shutdown(ch)) \in Seq(B)
  BY AppendProperties
<1>1. ASSUME NEW c \in Id, Browser(c)
      PROVE  up' \in Seq(U) /\ UNCHANGED <<mid, relaying, back>>
  <2>1. CASE Accept(c)
    BY <2>1 DEF Accept, sessions, gmlElse
  <2>2. CASE Ask(c)
    BY <2>2, AppendProperties DEF Ask, sessions, gmlElse
  <2>3. CASE Type(c)
    BY <2>3, AppendProperties DEF Type, sessions, gmlElse
  <2>4. CASE BrowserClose(c)
    BY <2>4 DEF BrowserClose, gmlElse
  <2>5. CASE Announce(c)
    BY <1>a, <2>5 DEF Announce, gmlElse
  <2> QED
    BY <1>1, <2>1, <2>2, <2>3, <2>4, <2>5 DEF Browser
<1>2. CASE ReceiveBack
  <2>1. back' \in Seq(B)
    BY <1>2, HeadTail DEF sessions, ReceiveBack
  <2> QED
    BY <1>2, <2>1 DEF ReceiveBack
<1>3. CASE ReceiveUp
  <2> DEFINE f == Head(up)
  <2>1. f \in U /\ up' \in Seq(U)
    BY <1>3, HeadTail DEF ReceiveUp
  <2>2. UNCHANGED <<relaying, back>>
    BY <1>3 DEF ReceiveUp, sessions, guardElse
  <2> HIDE DEF f
  <2>3. \/ f.action = "CREATE" /\ Decide(f)
        \/ f.action = "SHUTDOWN" /\ HandleShutdown(f)
        \/ f.action = "NONE" /\ HandleNone(f)
    BY <1>3 DEF ReceiveUp, f
  <2>4. CASE f.action = "CREATE" /\ Decide(f)
    <3>1. f \in M /\ \A v \in {APPROVAL_APPROVE, APPROVAL_DENY} : Approval(ch, v, f.data) \in M
      BY <2>1, <2>4
    <3>2. /\ <<f, Approval(ch, APPROVAL_APPROVE, f.data)>> \in Seq(M)
          /\ <<f, Approval(ch, APPROVAL_DENY, f.data), Shutdown(ch)>> \in Seq(M)
      BY <3>1
    <3>3. PICK x \in Seq(M) : mid' = mid \o x
      BY <2>4, <3>2 DEF Decide
    <3>4. mid' \in Seq(M)
      BY <3>3, ConcatProperties
    <3> QED
      BY <2>1, <2>2, <3>4
  <2>5. CASE f.action = "SHUTDOWN" /\ HandleShutdown(f)
    <3>1. mid' = Append(mid, f) /\ f \in M
      BY <2>1, <2>5 DEF HandleShutdown
    <3> QED
      BY <2>1, <2>2, <3>1, AppendProperties
  <2>6. CASE f.action = "NONE" /\ HandleNone(f)
    <3>1. f \in M
      BY <2>1, <2>6
    <3>2. mid' = mid \/ mid' = Append(mid, f) \/ mid' = Append(mid, Shutdown(ch))
      BY <2>6 DEF HandleNone, Unmoved, Forward, TearDown
    <3>3. Append(mid, f) \in Seq(M)
      BY <3>1, AppendProperties
    <3> QED
      BY <1>a, <2>1, <2>2, <3>2, <3>3
  <2> QED
    BY <2>3, <2>4, <2>5, <2>6
<1>4. CASE Flip \/ GuardRestart
  <2>1. UNCHANGED <<relaying, back>> /\ up' \in {up, <<>>}
    BY <1>4 DEF Flip, GuardRestart, sessions, guardElse
  <2>2. mid' = mid \/ mid' = Append(mid, Shutdown(ch))
    BY <1>4 DEF Flip, GuardRestart, EndApproval, Unmoved, TearDown
  <2> QED
    BY <1>a, <2>1, <2>2, EmptySeq
<1>5. CASE ReceiveMid
  <2> DEFINE f == Head(mid)
  <2>1. f \in M /\ mid' \in Seq(M)
    BY <1>5, HeadTail DEF sessions, ReceiveMid
  <2>2. UNCHANGED up
    BY <1>5 DEF sessions, ReceiveMid, gcdElse
  <2> HIDE DEF f
  <2>3. \/ UNCHANGED <<relaying, back>>
        \/ f.action = "APPROVAL" /\ OnApproval(f) /\ UNCHANGED back
        \/ OnShutdown /\ UNCHANGED relaying
    BY <1>5 DEF sessions, ReceiveMid, f
  <2>4. CASE UNCHANGED <<relaying, back>>
    BY <2>1, <2>2, <2>4
  <2>5. CASE f.action = "APPROVAL" /\ OnApproval(f) /\ UNCHANGED back
    <3>1. \/ relaying' = <<Grant(f.data)>> /\ f.verdict = APPROVAL_APPROVE /\ bound' = f.data
          \/ relaying' = <<Approval(ch, APPROVAL_DENY, f.data)>>
          \/ relaying' = <<f>> /\ f.verdict = APPROVAL_DENY
      BY <2>5 DEF OnApproval, Dial, DialFails, Grant
    <3>2. f.verdict = APPROVAL_DENY => f = Approval(ch, APPROVAL_DENY, f.data)
      BY <2>1, <2>5, DatagramShape
    <3>3. \/ relaying' = <<Grant(f.data)>> /\ Grant(f.data) \in R
          \/ /\ relaying' = <<Approval(ch, APPROVAL_DENY, f.data)>>
             /\ Approval(ch, APPROVAL_DENY, f.data) \in R
      BY <2>1, <2>5, <3>1, <3>2
    <3>4. \A x \in R : <<x>> \in Seq(R)
      OBVIOUS
    <3>5. relaying' \in Seq(R)
      BY <3>3, <3>4
    <3> QED
      BY <2>1, <2>2, <2>5, <3>5
  <2>6. CASE OnShutdown /\ UNCHANGED relaying
    BY <2>1, <2>2, <2>6, AppendProperties DEF sessions, OnShutdown
  <2> QED
    BY <2>3, <2>4, <2>5, <2>6
<1>6. CASE Relay
  <2>1. relaying \in Seq(B)
    BY SeqMonotonic
  <2>2. back' \in Seq(B)
    BY <1>6, <2>1, ConcatProperties DEF sessions, Relay
  <2> QED
    BY <1>6, <2>2, EmptySeq DEF sessions, Relay, gcdElse
<1>7. CASE ReaderAnnounces
  BY <1>a, <1>7 DEF ReaderAnnounces, gcdElse
<1>8. ASSUME NEW c \in Id, Reader(c)
      PROVE  back' \in Seq(B) /\ UNCHANGED <<up, mid, relaying>>
  <2>1. CASE ReaderEnds(c)
    BY <2>1 DEF ReaderEnds, gcdElse
  <2>2. CASE Draw(c)
    <3>1. None(ch, c) \in B /\ back' = Append(back, None(ch, c))
      BY <2>2 DEF Draw
    <3>2. back' \in Seq(B)
      BY <3>1, AppendProperties
    <3> QED
      BY <2>2, <3>2 DEF Draw, gcdElse
  <2> QED
    BY <1>8, <2>1, <2>2 DEF Reader
<1>10. CASE WriteKills
  <2>1. Tail(mid) \in Seq(M) /\ <<>> \in Seq(M) /\ <<>> \in Seq(B)
    BY <1>10, HeadTail, EmptySeq DEF WriteKills
  <2>2. mid' \in {Tail(mid), <<>>} /\ back' \in {back, <<>>} /\ UNCHANGED <<up, relaying>>
    BY <1>10 DEF WriteKills, gcdElse
  <2> QED
    BY <2>1, <2>2
<1>9. CASE NetworkFault
  <2>1. UNCHANGED relaying
    BY <1>9 DEF sessions, NetworkFault
  <2>2. up' \in Seq(U)
    BY <1>9, FaultKeepsContents DEF sessions, NetworkFault, Fault, Lose, Repeat, Overtake
  <2>3. mid' \in Seq(M)
    BY <1>9, FaultKeepsContents DEF sessions, NetworkFault, Fault, Lose, Repeat, Overtake
  <2>4. back' \in Seq(B)
    BY <1>9, FaultKeepsContents DEF sessions, NetworkFault, Fault, Lose, Repeat, Overtake
  <2> QED
    BY <2>1, <2>2, <2>3, <2>4
<1> QED
  BY <1>1, <1>2, <1>3, <1>4, <1>5, <1>6, <1>7, <1>8, <1>9, <1>10 DEF Next

-----------------------------------------------------------------------------
(* Connections take turns.                                                  *)

(* The datagrams that are not c's.                                          *)
Others(c) == {f \in Datagram : f.data = c => f = Shutdown(ch)}

(* Nothing of c is under way, but drawings of a session left behind.        *)
NoTrace(c) ==
    /\ up \in Seq(Others(c)) /\ mid \in Seq(Others(c)) /\ relaying \in Seq(Others(c))
    /\ back \in Seq(Others(c) \cup {None(ch, c)})

(* c has asked for nothing yet.                                             *)
Fresh(c) ==
    /\ up \in Seq(Others(c)) /\ mid \in Seq(Others(c)) /\ relaying \in Seq(Others(c))
    /\ back \in Seq(Others(c))
    /\ bound # c /\ readers[c] = 0 /\ approved # c

(* One connection has the channel at a time.  If it got the channel when    *)
(* its predecessors were gone nothing of another one is under way, and no   *)
(* other has its end to announce; of two such connections at most one has   *)
(* datagrams under way.                                                     *)
Turns ==
    /\ \A c, d \in Id : Open(c) /\ Open(d) => c = d
    /\ \A c \in Id : conn[c] \in {"new", "open"} => Fresh(c)
    /\ \A c, d \in Id : c # d /\ Open(d) /\ d \notin early =>
          NoTrace(c) /\ conn[c] # "leaving"
    /\ \A c, d \in Id \ early : c # d => NoTrace(c) \/ NoTrace(d)

(* Which frames are c's.                                                    *)
LEMMA OthersFrames ==
    ASSUME NEW c \in Id
    PROVE  /\ Others(c) \in SUBSET Datagram
           /\ Shutdown(ch) \in Others(c)
           /\ \A d \in Id : d # c =>
                 /\ Create(ch, d) \in Others(c) /\ None(ch, d) \in Others(c)
                 /\ \A v \in {APPROVAL_APPROVE, APPROVAL_DENY} :
                       Approval(ch, v, d) \in Others(c)
           /\ \A f \in Others(c) : f.action # "SHUTDOWN" => f.data \in Id /\ f.data # c
<1>1. Others(c) \in SUBSET Datagram
  BY DEF Others
<1>2. Shutdown(ch) \in Others(c)
  BY FramesAreDatagrams DEF Others
<1>3. ASSUME NEW d \in Id, d # c
      PROVE  Create(ch, d) \in Others(c) /\ None(ch, d) \in Others(c)
  <2>1. Create(ch, d).data = d /\ None(ch, d).data = d
    BY DEF Create, None
  <2> QED
    BY <1>3, <2>1, FramesAreDatagrams DEF Others
<1>4. ASSUME NEW d \in Id, d # c, NEW v \in {APPROVAL_APPROVE, APPROVAL_DENY}
      PROVE  Approval(ch, v, d) \in Others(c)
  <2>1. Approval(ch, v, d).data = d
    BY DEF Approval
  <2> QED
    BY <1>4, <2>1, FramesAreDatagrams DEF Others
<1>5. ASSUME NEW f \in Others(c), f.action # "SHUTDOWN"
      PROVE  f.data \in Id /\ f.data # c
  <2>1. f.data \in Id
    BY <1>1, <1>5, DatagramShape
  <2>2. f # Shutdown(ch)
    BY <1>5 DEF Shutdown
  <2> QED
    BY <1>5, <2>1, <2>2 DEF Others
<1> QED
  BY <1>1, <1>2, <1>3, <1>4, <1>5

(* Only a step of c's own puts something of c on the links.                 *)
LEMMA TraceStep ==
    ASSUME BridgeInv, Next, NEW c \in Id, ~Ask(c), ~Type(c)
    PROVE  /\ NoTrace(c) => NoTrace(c)'
           /\ Fresh(c) => up' \in Seq(Others(c)) /\ mid' \in Seq(Others(c))
                          /\ relaying' \in Seq(Others(c)) /\ back' \in Seq(Others(c))
<1> DEFINE O == Others(c)
           P == O \cup {None(ch, c)}
<1>1. O \in SUBSET Datagram /\ P \in SUBSET Datagram /\ Shutdown(ch) \in O /\ O \subseteq P
  BY OthersFrames, FramesAreDatagrams
<1>2. \A d \in Id : (Ask(d) => Create(ch, d) \in O) /\ (Type(d) => None(ch, d) \in O)
  BY OthersFrames
<1>3. \A f \in O : f.action = "CREATE" =>
         \A v \in {APPROVAL_APPROVE, APPROVAL_DENY} : Approval(ch, v, f.data) \in O
  BY OthersFrames
<1>4. \A f \in O : f.action = "APPROVAL" =>
         Approval(ch, APPROVAL_DENY, f.data) \in O /\ Grant(f.data) \in O
  BY OthersFrames DEF Grant
<1>5. \A d \in Id : None(ch, d) \in P /\ (d # c => None(ch, d) \in O)
  BY OthersFrames
<1> HIDE DEF O, P
<1>6. ASSUME up \in Seq(O), mid \in Seq(O), relaying \in Seq(O), back \in Seq(P)
      PROVE  up' \in Seq(O) /\ mid' \in Seq(O) /\ relaying' \in Seq(O) /\ back' \in Seq(P)
  BY <1>1, <1>2, <1>3, <1>4, <1>5, <1>6, Flow
<1>7. ASSUME up \in Seq(O), mid \in Seq(O), relaying \in Seq(O), back \in Seq(O), readers[c] = 0
      PROVE  up' \in Seq(O) /\ mid' \in Seq(O) /\ relaying' \in Seq(O) /\ back' \in Seq(O)
  BY <1>1, <1>2, <1>3, <1>4, <1>5, <1>7, Flow
<1>8. NoTrace(c) => NoTrace(c)'
  BY <1>6 DEF NoTrace, O, P, Others, Datagram
<1> QED
  BY <1>7, <1>8 DEF Fresh, O

(* A session is opened only for a grant that arrives, and an approval made  *)
(* only for a request that arrives.                                         *)
LEMMA BoundStep ==
    ASSUME BridgeInv, Next, bound' # bound, bound' # NoConn
    PROVE  /\ ReceiveMid /\ bound = NoConn /\ bound' \in Id
           /\ mid # <<>> /\ Head(mid) = Grant(bound')
<1>1. ReceiveMid
  BY DEF Next, Browser, Accept, Ask, Type, BrowserClose, Announce, sessions, gmlElse,
         ReceiveUp, guardElse, ReceiveBack, Relay, Flip, GuardRestart, Reader,
         ReaderEnds, ReaderAnnounces, WriteKills, Draw, NetworkFault, gcdElse
<1>2. mid # <<>> /\ Head(mid) \in Datagram
  BY <1>1, HeadTail DEF sessions, ReceiveMid, BridgeInv, TypeOK
<1>3. /\ Head(mid).action = "APPROVAL" /\ Head(mid).verdict = APPROVAL_APPROVE
      /\ bound = NoConn /\ bound' = Head(mid).data
  BY <1>1 DEF sessions, ReceiveMid, OnApproval, Dial, DialFails, OnShutdown, OnPayload
<1> QED
  BY <1>1, <1>2, <1>3, DatagramShape DEF Grant

(* A connection gets a reader only with a session.                          *)
LEMMA ReadersStep ==
    ASSUME BridgeInv, Next, NEW c \in Id, readers[c] = 0, readers'[c] # 0
    PROVE  bound' = c /\ bound # c
<1>1. readers \in [Id -> Nat]
  BY DEF BridgeInv, TypeOK
<1>2. ~(readers' = readers) /\ ~WriteKills /\ \A d \in Id : ~ReaderEnds(d)
  BY <1>1 DEF WriteKills, ReaderEnds
<1>3. ReceiveMid
  BY <1>2 DEF Next, Browser, Accept, Ask, Type, BrowserClose, Announce, sessions, gmlElse,
         ReceiveUp, guardElse, ReceiveBack, Relay, Flip, GuardRestart, Reader,
         ReaderAnnounces, Draw, NetworkFault, gcdElse
<1>4. Dial(Head(mid).data)
  BY <1>2, <1>3 DEF ReceiveMid, sessions, OnApproval, DialFails, OnShutdown
<1>5. bound = NoConn /\ bound' = Head(mid).data /\ c # NoConn
      /\ readers' = [readers EXCEPT ![bound'] = readers[bound'] + 1]
  BY <1>4, BridgeAssumption DEF Dial
<1>6. bound' = c
  BY <1>1, <1>5
<1> QED
  BY <1>5, <1>6

(* A connection becomes open only by getting the channel.                   *)
LEMMA ConnStep ==
    ASSUME BridgeInv, Next, NEW c \in Id
    PROVE  /\ Open(c)' => Open(c) \/ Accept(c)
           /\ conn'[c] = "new" => conn[c] = "new"
           /\ conn'[c] = "open" => conn[c] = "open" \/ Accept(c)
           /\ conn'[c] = "leaving" => conn[c] = "leaving" \/ Open(c)
           /\ Ask(c) => Open(c) /\ conn'[c] = "asked"
           /\ Type(c) => Open(c) /\ conn'[c] = "piped"
<1>1. conn \in [Id -> {"new", "open", "asked", "piped", "leaving", "closed"}]
  BY DEF BridgeInv, TypeOK
<1>2. (Ask(c) => Open(c) /\ conn'[c] = "asked") /\ (Type(c) => Open(c) /\ conn'[c] = "piped")
  BY <1>1 DEF Ask, Type, Open
<1>3. ASSUME NEW d \in Id, Browser(d)
      PROVE  /\ Open(c)' => Open(c) \/ Accept(c)
             /\ conn'[c] = "new" => conn[c] = "new"
             /\ conn'[c] = "open" => conn[c] = "open" \/ Accept(c)
             /\ conn'[c] = "leaving" => conn[c] = "leaving" \/ Open(c)
  BY <1>1, <1>3 DEF Browser, Accept, Ask, Type, BrowserClose, Announce, Open
<1>4. CASE ReceiveBack
  <2>1. \/ UNCHANGED conn
        \/ \E d \in Id : Open(d) /\ \E v \in {"piped", "leaving", "closed"} :
                             conn' = [conn EXCEPT ![d] = v]
    BY <1>4 DEF sessions, ReceiveBack, Deliver, OnVerdict, ApplyVerdict
  <2> QED
    BY <1>1, <1>2, <2>1 DEF Open
<1>5. CASE UNCHANGED conn
  BY <1>1, <1>5, <1>2 DEF Open
<1>6. \/ \E d \in Id : Browser(d)
      \/ ReceiveBack
      \/ UNCHANGED conn
  BY DEF Next, ReceiveUp, sessions, ReceiveMid, guardElse, Relay, Flip, GuardRestart,
         Reader, ReaderEnds, ReaderAnnounces, WriteKills, Draw, NetworkFault, gcdElse
<1> QED
  BY <1>3, <1>4, <1>5, <1>6, <1>2

(* The connections go on taking turns.                                      *)
LEMMA TurnsStep ==
    ASSUME BridgeInv, Turns, Next
    PROVE  Turns'
<1>1. \A c, d \in Id : Open(c)' /\ Open(d)' => c = d
  <2> SUFFICES ASSUME NEW c \in Id, NEW d \in Id, Open(c)', Open(d)'
               PROVE  c = d
    OBVIOUS
  <2>1. (Open(c) \/ Accept(c)) /\ (Open(d) \/ Accept(d))
    BY ConnStep
  <2>2. Open(c) /\ Open(d) => c = d
    BY DEF Turns
  <2>3. Accept(c) => ~Open(d)
    BY DEF Accept, Free
  <2>4. Accept(d) => ~Open(c)
    BY DEF Accept, Free
  <2>5. Accept(c) /\ Accept(d) => c = d
    BY DEF Accept
  <2> QED
    BY <2>1, <2>2, <2>3, <2>4, <2>5
<1>2. ASSUME NEW c \in Id, conn'[c] \in {"new", "open"}
      PROVE  Fresh(c)'
  <2>1. ~Ask(c) /\ ~Type(c)
    BY <1>2, ConnStep
  <2>2. conn[c] \in {"new", "open"}
    BY <1>2, ConnStep DEF Accept
  <2>3. Fresh(c)
    BY <2>2 DEF Turns
  <2>4. up' \in Seq(Others(c)) /\ mid' \in Seq(Others(c))
        /\ relaying' \in Seq(Others(c)) /\ back' \in Seq(Others(c))
    BY <2>1, <2>3, TraceStep
  <2>5. bound' # c
    <3> SUFFICES ASSUME bound' = c PROVE FALSE
      OBVIOUS
    <3>1. bound' # bound /\ bound' # NoConn
      BY <2>3, BridgeAssumption DEF Fresh
    <3>2. mid # <<>> /\ Head(mid) = Grant(c)
      BY <3>1, BoundStep
    <3>3. Head(mid) \in Others(c)
      BY <2>3, <3>2, HeadTail DEF Fresh
    <3>4. Grant(c).action = "APPROVAL" /\ Grant(c).data = c
      BY DEF Grant, Approval
    <3> QED
      BY <3>2, <3>3, <3>4, OthersFrames
  <2>6. approved' # c
    <3> SUFFICES ASSUME approved' = c PROVE FALSE
      OBVIOUS
    <3>1. approved # c /\ c # NoConn
      BY <2>3, BridgeAssumption DEF Fresh
    <3>2. ReceiveUp /\ Head(up).action = "CREATE" /\ Decide(Head(up)) /\ Head(up).data = c
      BY <3>1 DEF Next, Browser, Accept, Ask, Type, BrowserClose, Announce, sessions,
                  gmlElse, ReceiveUp, ReceiveBack, ReceiveMid, Relay, Flip,
                  GuardRestart, Reader, ReaderEnds, ReaderAnnounces, WriteKills,
                  Draw, NetworkFault, gcdElse, Decide, HandleShutdown, HandleNone,
                  Unmoved, Forward, TearDown, EndApproval
    <3>3. Head(up) \in Others(c)
      BY <2>3, <3>2, HeadTail DEF Fresh, ReceiveUp
    <3> QED
      BY <3>2, <3>3, OthersFrames
  <2>7. Others(c)' = Others(c)
    BY DEF Others, Datagram
  <2>8. readers'[c] = 0
    BY <2>3, <2>5, ReadersStep DEF Fresh
  <2> QED
    BY <2>4, <2>5, <2>6, <2>7, <2>8 DEF Fresh
<1>3. early \subseteq early'
  BY DEF Next, Browser, Accept, Ask, Type, BrowserClose, Announce, ReceiveUp,
         sessions, guardElse, history, ReceiveBack, ReceiveMid, Relay, Flip,
         GuardRestart, Reader, ReaderEnds, ReaderAnnounces, WriteKills, Draw,
         NetworkFault, gcdElse
<1>4. ASSUME NEW c \in Id, NEW d \in Id, c # d, Open(d)', d \notin early'
      PROVE  NoTrace(c)' /\ conn'[c] # "leaving"
  <2>1. ~Open(c)'
    BY <1>1, <1>4
  <2>2. ~Ask(c) /\ ~Type(c)
    BY <2>1, ConnStep DEF Open
  <2>3. NoTrace(c) /\ conn[c] # "leaving" /\ ~Open(c)
    <3>1. CASE Open(d)
      BY <1>3, <1>4, <3>1 DEF Turns
    <3>2. CASE Accept(d)
      <4>1. Drained
        BY <1>4, <3>2 DEF Accept
      <4>2. ~Open(c)
        BY <3>2 DEF Accept, Free
      <4> QED
        BY <4>1, <4>2, EmptySeq DEF Drained, NoTrace
    <3> QED
      BY <1>4, <3>1, <3>2, ConnStep
  <2> QED
    BY <2>2, <2>3, TraceStep, ConnStep
<1>5. ASSUME NEW c \in Id \ early', NEW d \in Id \ early', c # d, NoTrace(c)
      PROVE  NoTrace(c)' \/ NoTrace(d)'
  <2>1. CASE ~Ask(c) /\ ~Type(c)
    BY <1>5, <2>1, TraceStep
  <2>2. CASE Ask(c) \/ Type(c)
    <3>1. Open(c) /\ Open(c)'
      BY <2>2, ConnStep DEF Open
    <3> QED
      BY <1>4, <1>5, <3>1
  <2> QED
    BY <2>1, <2>2
<1>6. \A c, d \in Id \ early' : c # d => NoTrace(c)' \/ NoTrace(d)'
  BY <1>3, <1>5 DEF Turns
<1> QED
  BY <1>1, <1>2, <1>4, <1>6 DEF Turns

(* At first nothing is on the links and nobody has the channel.             *)
LEMMA TurnsInit == Init => Turns
  BY EmptySeq, BridgeAssumption DEF Init, Turns, Fresh, NoTrace, Open

(* A step that changes nothing of the connections and links keeps turns.    *)
LEMMA TurnsStutter ==
    ASSUME Turns, UNCHANGED vars
    PROVE  Turns'
<1>1. UNCHANGED <<conn, approved, bound, readers, relaying, up, mid, back, early>>
  BY DEF vars, sessions, links, history
<1>2. \A c \in Id : (Fresh(c) => Fresh(c)') /\ (NoTrace(c) => NoTrace(c)')
                    /\ (Open(c)' <=> Open(c))
  BY <1>1 DEF Fresh, NoTrace, Open, Others, Datagram
<1> QED
  BY <1>1, <1>2 DEF Turns

-----------------------------------------------------------------------------
(* What a browser types.                                                    *)

(* c is not let through, nothing of what it typed is under way to a         *)
(* session, and no grant is under way to it.                                *)
Unserved(c) ==
    /\ conn[c] # "piped"
    /\ up \in Seq(Datagram \ {None(ch, c)}) /\ mid \in Seq(Datagram \ {None(ch, c)})
    /\ relaying \in Seq(Datagram \ {Grant(c)}) /\ back \in Seq(Datagram \ {Grant(c)})

(* While a session that got its channel in good order is open, no other     *)
(* such connection is let through.                                          *)
PayloadInv ==
    \A c \in Id \ early : bound \notin {c, NoConn} \cup early => Unserved(c)

(* Frames differ.                                                           *)
LEMMA FramesDiffer ==
    ASSUME NEW c \in Id, NEW d \in Id
    PROVE  /\ Shutdown(ch) \notin {None(ch, c), Grant(c), Create(ch, c)}
           /\ None(ch, d) # Grant(c) /\ Create(ch, d) # None(ch, c)
           /\ Create(ch, d) # Grant(c)
           /\ None(ch, d) = None(ch, c) => d = c
           /\ Grant(d) = Grant(c) => d = c
           /\ Create(ch, d) = Create(ch, c) => d = c
           /\ Approval(ch, APPROVAL_DENY, d) # Grant(c)
           /\ \A v : Approval(ch, v, d) # None(ch, c) /\ Approval(ch, v, d) # Shutdown(ch)
                     /\ Approval(ch, v, d) # Create(ch, c)
<1>1. /\ \A e : None(ch, e).action = "NONE" /\ None(ch, e).data = e
      /\ \A e : Create(ch, e).action = "CREATE" /\ Create(ch, e).data = e
      /\ \A v, e : /\ Approval(ch, v, e).action = "APPROVAL" /\ Approval(ch, v, e).data = e
                   /\ Approval(ch, v, e).verdict = v
      /\ Shutdown(ch).action = "SHUTDOWN"
  BY DEF None, Create, Approval, Shutdown
<1>2. APPROVAL_DENY # APPROVAL_APPROVE
  BY DEF APPROVAL_DENY, APPROVAL_APPROVE
<1> QED
  BY <1>1, <1>2 DEF Grant

(* A connection is let through only by its own grant, which arrives.        *)
LEMMA PipedStep ==
    ASSUME BridgeInv, Next, NEW c \in Id, conn'[c] = "piped", conn[c] # "piped"
    PROVE  back # <<>> /\ Head(back) = Grant(c)
<1>1. conn \in [Id -> {"new", "open", "asked", "piped", "leaving", "closed"}]
  BY DEF BridgeInv, TypeOK
<1>2. \A d \in Id : ~Browser(d)
  BY <1>1 DEF Browser, Accept, Ask, Type, BrowserClose, Announce
<1>3. ReceiveBack
  BY <1>2 DEF Next, ReceiveUp, sessions, ReceiveMid, guardElse, Relay, Flip,
              GuardRestart, Reader, ReaderEnds, ReaderAnnounces, WriteKills, Draw,
              NetworkFault, gcdElse
<1>4. Head(back) \in Datagram /\ back # <<>>
  BY <1>3, HeadTail DEF sessions, ReceiveBack, BridgeInv, TypeOK
<1>5. /\ Head(back).action = "APPROVAL" /\ Head(back).data = c
      /\ Head(back).verdict = APPROVAL_APPROVE
  BY <1>1, <1>3 DEF sessions, ReceiveBack, Deliver, OnVerdict, ApplyVerdict
<1> QED
  BY <1>4, <1>5, DatagramShape DEF Grant

(* A connection stays unserved until a session is opened for it.            *)
LEMMA UnservedStep ==
    ASSUME BridgeInv, Next, NEW c \in Id, Unserved(c), bound' # c
    PROVE  Unserved(c)'
<1> DEFINE U == Datagram \ {None(ch, c)}
           R == Datagram \ {Grant(c)}
<1>1. U \in SUBSET Datagram /\ R \in SUBSET Datagram /\ Shutdown(ch) \in U /\ Shutdown(ch) \in R
  BY FramesAreDatagrams, FramesDiffer
<1>2. \A d \in Id : (Ask(d) => Create(ch, d) \in U) /\ (Type(d) => None(ch, d) \in U)
  <2>1. ~Type(c)
    BY DEF Type, Unserved
  <2> QED
    BY <2>1, FramesAreDatagrams, FramesDiffer
<1>3. \A f \in U : f.action = "CREATE" =>
         \A v \in {APPROVAL_APPROVE, APPROVAL_DENY} : Approval(ch, v, f.data) \in U
  BY DatagramShape, FramesAreDatagrams, FramesDiffer
<1>4. \A f \in U : f.action = "APPROVAL" =>
         /\ Approval(ch, APPROVAL_DENY, f.data) \in R
         /\ f.verdict = APPROVAL_APPROVE /\ bound' = f.data => Grant(f.data) \in R
  <2> SUFFICES ASSUME NEW f \in U, f.action = "APPROVAL"
               PROVE  /\ Approval(ch, APPROVAL_DENY, f.data) \in R
                      /\ bound' = f.data => Grant(f.data) \in R
    OBVIOUS
  <2>1. f.data \in Id
    BY DatagramShape
  <2> QED
    BY <2>1, FramesAreDatagrams, FramesDiffer DEF Grant
<1>5. \A d \in Id : None(ch, d) \in R
  BY FramesAreDatagrams, FramesDiffer
<1>6. up \in Seq(U) /\ mid \in Seq(U) /\ relaying \in Seq(R) /\ back \in Seq(R)
  BY DEF Unserved
<1>7. conn'[c] # "piped"
  <2>1. back # <<>> => Head(back) \in R
    BY <1>6, HeadTail
  <2> QED
    BY <2>1, PipedStep DEF Unserved
<1> HIDE DEF U, R
<1>8. up' \in Seq(U) /\ mid' \in Seq(U) /\ relaying' \in Seq(R) /\ back' \in Seq(R)
  BY <1>1, <1>2, <1>3, <1>4, <1>5, <1>6, Flow
<1> QED
  BY <1>7, <1>8 DEF Unserved, U, R, Datagram, Grant

(* Datagrams of others are neither c's payload nor c's grant.               *)
LEMMA NoTraceUnserved ==
    ASSUME NEW c \in Id, NoTrace(c), ~Open(c)
    PROVE  Unserved(c)
<1>1. /\ Others(c) \subseteq Datagram \ {None(ch, c)}
      /\ Others(c) \cup {None(ch, c)} \subseteq Datagram \ {Grant(c)}
  <2>1. None(ch, c) \notin Others(c) /\ Grant(c) \notin Others(c)
    BY OthersFrames DEF None, Grant, Approval
  <2> QED
    BY <2>1, OthersFrames, FramesAreDatagrams, FramesDiffer
<1>2. Others(c) \subseteq Datagram \ {Grant(c)}
  BY <1>1
<1> QED
  BY <1>1, <1>2, SeqMonotonic DEF NoTrace, Unserved, Open

(* A session is opened only while its grant is on the link, when no other   *)
(* connection has anything under way.                                       *)
LEMMA PayloadStep ==
    ASSUME BridgeInv, Turns, PayloadInv, Next
    PROVE  PayloadInv'
<1> SUFFICES ASSUME NEW c \in Id \ early', bound' \notin {c, NoConn} \cup early'
             PROVE  Unserved(c)'
  BY DEF PayloadInv
<1>1. early \subseteq early'
  BY DEF Next, Browser, Accept, Ask, Type, BrowserClose, Announce, ReceiveUp,
         sessions, guardElse, history, ReceiveBack, ReceiveMid, Relay, Flip,
         GuardRestart, Reader, ReaderEnds, ReaderAnnounces, WriteKills, Draw,
         NetworkFault, gcdElse
<1>2. CASE bound' = bound
  BY <1>1, <1>2, UnservedStep DEF PayloadInv
<1>3. CASE bound' # bound
  <2> DEFINE d == bound'
  <2>1. d \in Id \ early /\ mid # <<>> /\ Head(mid) = Grant(d)
    BY <1>1, <1>3, BoundStep
  <2>2. ~NoTrace(d)
    <3>1. Grant(d) \notin Others(d)
      BY <2>1, OthersFrames DEF Grant, Approval
    <3> QED
      BY <2>1, <3>1, HeadTail DEF NoTrace
  <2>3. NoTrace(c) /\ ~Open(c)
    BY <1>1, <2>1, <2>2 DEF Turns
  <2> QED
    BY <2>3, NoTraceUnserved, UnservedStep
<1> QED
  BY <1>2, <1>3

(* A payload that reaches a session is recorded when it is another's.       *)
LEMMA OwnPayloadStep ==
    ASSUME BridgeInv, Turns, PayloadInv, OwnPayload, Next
    PROVE  OwnPayload'
<1>1. early \subseteq early'
  BY DEF Next, Browser, Accept, Ask, Type, BrowserClose, Announce, ReceiveUp,
         sessions, guardElse, history, ReceiveBack, ReceiveMid, Relay, Flip,
         GuardRestart, Reader, ReaderEnds, ReaderAnnounces, WriteKills, Draw,
         NetworkFault, gcdElse
<1> SUFFICES ASSUME NEW p \in crossed', p[1] = "payload", p \notin crossed
             PROVE  p[2] \in early' \/ p[3] \in early'
  BY <1>1 DEF OwnPayload
<1>2. ReceiveBack => \E x, y : p = <<"drawing", x, y>>
  BY DEF sessions, ReceiveBack, Deliver, Cross
<1>3. ~ReceiveBack
  BY <1>2
<1>4. ReceiveMid
  BY <1>3 DEF Next, Browser, Accept, Ask, Type, BrowserClose, Announce, ReceiveUp,
              sessions, guardElse, history, Relay, Flip, GuardRestart, Reader,
              ReaderEnds, ReaderAnnounces, WriteKills, Draw, NetworkFault
<1>5. Head(mid).action = "NONE" /\ bound # NoConn /\ p = <<"payload", Head(mid).data, bound>>
  BY <1>4 DEF sessions, ReceiveMid, OnPayload, Cross
<1>6. Head(mid).data # bound
  BY <1>4, <1>5 DEF sessions, ReceiveMid, OnPayload, Cross
<1> DEFINE c == Head(mid).data
<1>7. mid # <<>> /\ Head(mid) \in Datagram
  BY <1>4, HeadTail DEF sessions, ReceiveMid, BridgeInv, TypeOK
<1>8. c \in Id /\ Head(mid) = None(ch, c)
  BY <1>5, <1>7, DatagramShape
<1>9. ~Unserved(c)
  BY <1>7, <1>8, HeadTail DEF Unserved
<1>10. c \in early \/ bound \in early
  BY <1>5, <1>6, <1>8, <1>9 DEF PayloadInv
<1> QED
  BY <1>1, <1>5, <1>10

(* The three invariants hold together.                                      *)
LEMMA PayloadInvariant == Spec => [](Turns /\ PayloadInv /\ OwnPayload)
<1> DEFINE Inv == Turns /\ PayloadInv /\ OwnPayload
<1>1. Init => Inv
  <2> SUFFICES ASSUME Init PROVE PayloadInv /\ OwnPayload
    BY TurnsInit
  <2> QED
    BY DEF Init, PayloadInv, OwnPayload
<1>2. BridgeInv /\ Inv /\ [Next]_vars => Inv'
  <2> SUFFICES ASSUME BridgeInv, Inv, [Next]_vars PROVE Inv'
    OBVIOUS
  <2>1. CASE Next
    BY <2>1, TurnsStep, PayloadStep, OwnPayloadStep
  <2>2. CASE UNCHANGED vars
    <3>1. UNCHANGED <<conn, bound, relaying, up, mid, back, early, crossed>>
      BY <2>2 DEF vars, sessions, links, history
    <3>2. PayloadInv' /\ OwnPayload'
      BY <3>1 DEF PayloadInv, OwnPayload, Unserved, Datagram, Grant
    <3> QED
      BY <2>2, <3>2, TurnsStutter
  <2> QED
    BY <2>1, <2>2
<1> QED
  BY <1>1, <1>2, BridgeInvariant, PTL DEF Spec

(* Whatever is lost, repeated, overtaken or restarted: a payload never      *)
(* reaches the session of another connection when both got the channel with *)
(* the links drained.  The dial that finds a session in the channel's slot  *)
(* answers with a denial, so its browser is never let through               *)
(* (guacd_send_handler.cpp 61-76).                                          *)
THEOREM OwnPayloadCorrect == Spec => []OwnPayload
  BY PayloadInvariant, PTL

-----------------------------------------------------------------------------
(* The order of datagrams on a link.                                        *)

Has(s, f) == \E i \in DOMAIN s : s[i] = f

(* Every f has a g behind it.                                               *)
Followed(s, f, g) ==
    \A i \in DOMAIN s : s[i] = f => \E j \in DOMAIN s : j > i /\ s[j] = g

(* f occurs at most once, and before every g.                               *)
Leads(s, f, g) ==
    \A i, j \in DOMAIN s : s[i] = f /\ s[j] \in {f, g} => j >= i

(* What receiving a datagram does to the order.                             *)
LEMMA TailOrder ==
    ASSUME NEW S, NEW s \in Seq(S), s # <<>>, NEW f, NEW g
    PROVE  /\ Has(s, f) <=> Head(s) = f \/ Has(Tail(s), f)
           /\ Followed(s, f, g) =>
                 Followed(Tail(s), f, g) /\ (Head(s) = f => Has(Tail(s), g))
           /\ Leads(s, f, g) =>
                 Leads(Tail(s), f, g) /\ (Head(s) \in {f, g} => ~Has(Tail(s), f))
<1>1. /\ DOMAIN s = 1..Len(s) /\ Len(s) \in Nat /\ Len(s) >= 1 /\ Head(s) = s[1]
      /\ DOMAIN Tail(s) = 1..(Len(s) - 1)
      /\ \A i \in 1..(Len(s) - 1) : Tail(s)[i] = s[i + 1]
  BY LenProperties, EmptySeq, HeadTailProperties
<1> DEFINE t == Tail(s)
           n == Len(s)
           h == Head(s)
<1>2. /\ DOMAIN s = 1..n /\ n \in Nat /\ n >= 1 /\ h = s[1]
      /\ DOMAIN t = 1..(n - 1)
      /\ \A i \in 1..(n - 1) : i + 1 \in 1..n /\ t[i] = s[i + 1]
      /\ \A i \in 1..n : i # 1 => i - 1 \in 1..(n - 1) /\ t[i - 1] = s[i]
      /\ 1 \in 1..n
  BY <1>1
<1> HIDE DEF t, n, h
<1>3. Has(s, f) <=> h = f \/ Has(t, f)
  <2>1. ASSUME NEW i \in 1..n, s[i] = f PROVE h = f \/ Has(t, f)
    <3>1. CASE i = 1
      BY <1>2, <2>1, <3>1
    <3>2. CASE i # 1
      <4>1. i - 1 \in 1..(n - 1) /\ t[i - 1] = f
        BY <1>2, <2>1, <3>2
      <4> QED
        BY <1>2, <4>1 DEF Has
    <3> QED
      BY <3>1, <3>2
  <2>2. ASSUME NEW i \in 1..(n - 1), t[i] = f PROVE Has(s, f)
    <3>1. i + 1 \in 1..n /\ s[i + 1] = f
      BY <1>2, <2>2
    <3> QED
      BY <1>2, <3>1 DEF Has
  <2>3. h = f => Has(s, f)
    BY <1>2 DEF Has
  <2> QED
    BY <1>2, <2>1, <2>2, <2>3 DEF Has
<1>4. ASSUME Followed(s, f, g)
      PROVE  Followed(t, f, g) /\ (h = f => Has(t, g))
  <2>1. ASSUME h = f PROVE Has(t, g)
    <3>1. PICK k \in 1..n : k > 1 /\ s[k] = g
      BY <1>2, <1>4, <2>1 DEF Followed
    <3>2. k - 1 \in 1..(n - 1) /\ t[k - 1] = g
      BY <1>2, <3>1
    <3> QED
      BY <1>2, <3>2 DEF Has
  <2>2. ASSUME NEW i \in 1..(n - 1), t[i] = f
        PROVE  \E j \in 1..(n - 1) : j > i /\ t[j] = g
    <3>1. PICK k \in 1..n : k > i + 1 /\ s[k] = g
      BY <1>2, <1>4, <2>2 DEF Followed
    <3> QED
      BY <1>2, <3>1
  <2> QED
    BY <1>2, <2>1, <2>2 DEF Followed
<1>5. ASSUME Leads(s, f, g)
      PROVE  Leads(t, f, g) /\ (h \in {f, g} => ~Has(t, f))
  <2>1. ASSUME NEW i \in 1..(n - 1), NEW j \in 1..(n - 1), t[i] = f, t[j] \in {f, g}
        PROVE  j >= i
    <3>1. j + 1 >= i + 1
      BY <1>2, <1>5, <2>1 DEF Leads
    <3> QED
      BY <3>1
  <2>2. ASSUME h \in {f, g}, NEW i \in 1..(n - 1), t[i] = f
        PROVE  FALSE
    <3>1. i + 1 \in 1..n /\ s[i + 1] = f /\ s[1] \in {f, g}
      BY <1>2, <2>2
    <3>2. 1 >= i + 1
      BY <1>2, <1>5, <3>1 DEF Leads
    <3> QED
      BY <3>2
  <2> QED
    BY <1>2, <2>1, <2>2 DEF Leads, Has
<1> QED
  BY <1>3, <1>4, <1>5 DEF t, h

(* What sending a datagram does to the order.                               *)
LEMMA AppendOrder ==
    ASSUME NEW S, NEW s \in Seq(S), NEW x, NEW f, NEW g, f # g
    PROVE  /\ Has(Append(s, x), f) <=> Has(s, f) \/ x = f
           /\ Followed(s, f, g) /\ x # f => Followed(Append(s, x), f, g)
           /\ x = g => Followed(Append(s, x), f, g)
           /\ Leads(s, f, g) /\ x # f => Leads(Append(s, x), f, g)
           /\ ~Has(s, f) /\ ~Has(s, g) => Leads(Append(s, x), f, g)
<1> DEFINE t == Append(s, x)
           n == Len(s)
<1>1. /\ DOMAIN s = 1..n /\ n \in Nat /\ DOMAIN t = 1..(n + 1)
      /\ t[n + 1] = x /\ \A i \in 1..n : t[i] = s[i]
  <2>1. s \in Seq(S \cup {x})
    BY SeqMonotonic
  <2> QED
    BY <2>1, LenProperties, AppendProperties
<1> HIDE DEF t, n
<1>2. \A i \in 1..(n + 1) : i = n + 1 \/ i \in 1..n
  BY <1>1
<1>3. n + 1 \in 1..(n + 1) /\ \A i \in 1..n : i \in 1..(n + 1) /\ n + 1 > i
  BY <1>1
<1>4. Has(t, f) <=> Has(s, f) \/ x = f
  BY <1>1, <1>2, <1>3 DEF Has
<1>5. Followed(s, f, g) /\ x # f => Followed(t, f, g)
  BY <1>1, <1>2, <1>3 DEF Followed
<1>6. x = g => Followed(t, f, g)
  BY <1>1, <1>2, <1>3 DEF Followed
<1>7. Leads(s, f, g) /\ x # f => Leads(t, f, g)
  BY <1>1, <1>2, <1>3 DEF Leads
<1>8. ~Has(s, f) /\ ~Has(s, g) => Leads(t, f, g)
  BY <1>1, <1>2, <1>3 DEF Leads, Has
<1> QED
  BY <1>4, <1>5, <1>6, <1>7, <1>8 DEF t

(* A handler that sends several datagrams sends them one by one.            *)
LEMMA ConcatOrder ==
    ASSUME NEW S, NEW s \in Seq(S)
    PROVE  /\ \A a, b \in S : s \o <<a, b>> = Append(Append(s, a), b)
           /\ \A a, b, e \in S : s \o <<a, b, e>> = Append(Append(Append(s, a), b), e)
           /\ \A t \in Seq(S) : \A f : Has(s \o t, f) <=> Has(s, f) \/ Has(t, f)
<1>1. \A a, b \in S : s \o <<a, b>> = Append(Append(s, a), b)
  OBVIOUS
<1>2. \A a, b, e \in S : s \o <<a, b, e>> = Append(Append(Append(s, a), b), e)
  OBVIOUS
<1>3. ASSUME NEW t \in Seq(S), NEW f
      PROVE  Has(s \o t, f) <=> Has(s, f) \/ Has(t, f)
  <2>1. /\ DOMAIN s = 1..Len(s) /\ DOMAIN t = 1..Len(t) /\ Len(s) \in Nat /\ Len(t) \in Nat
        /\ DOMAIN (s \o t) = 1..(Len(s) + Len(t))
        /\ \A i \in 1..(Len(s) + Len(t)) :
              (s \o t)[i] = IF i <= Len(s) THEN s[i] ELSE t[i - Len(s)]
    BY LenProperties, ConcatProperties
  <2>2. \A i \in 1..(Len(s) + Len(t)) :
           \/ i \in 1..Len(s) /\ (s \o t)[i] = s[i]
           \/ i - Len(s) \in 1..Len(t) /\ (s \o t)[i] = t[i - Len(s)]
    BY <2>1
  <2>3. \A i \in 1..Len(s) : i \in 1..(Len(s) + Len(t)) /\ (s \o t)[i] = s[i]
    BY <2>1
  <2>4. \A i \in 1..Len(t) : Len(s) + i \in 1..(Len(s) + Len(t)) /\ (s \o t)[Len(s) + i] = t[i]
    BY <2>1
  <2> QED
    BY <2>1, <2>2, <2>3, <2>4 DEF Has
<1> QED
  BY <1>1, <1>2, <1>3

(* What a link holds, as a set of allowed datagrams.                        *)
LEMMA HasNot ==
    ASSUME NEW S, NEW s \in Seq(S), NEW f
    PROVE  ~Has(s, f) <=> s \in Seq(S \ {f})
<1>1. s \in [1..Len(s) -> S] /\ Len(s) \in Nat
  BY LenProperties
<1>2. ASSUME ~Has(s, f) PROVE s \in Seq(S \ {f})
  <2>1. s \in [1..Len(s) -> S \ {f}]
    BY <1>1, <1>2 DEF Has
  <2> QED
    BY <1>1, <2>1, SeqDef
<1>3. ASSUME s \in Seq(S \ {f}) PROVE ~Has(s, f)
  <2>1. s \in [1..Len(s) -> S \ {f}]
    BY <1>3, LenProperties
  <2> QED
    BY <1>1, <2>1 DEF Has
<1> QED
  BY <1>2, <1>3

-----------------------------------------------------------------------------
(* The session of a dependable connection.                                  *)

Shut == Shutdown(ch)

(* A SHUTDOWN is on its way to gmlbroker.                                   *)
Told == announcing # 0 \/ Has(back, Shut)

(* While c has the channel no SHUTDOWN is before its request, its grant or  *)
(* its session, and the three follow one another.                           *)
OpenInv(c) ==
    /\ bound \in {c, NoConn}
    /\ ~Has(up, Shut)
    /\ Leads(up, Create(ch, c), Shut)
    /\ conn[c] = "open" \/ Has(up, Create(ch, c)) =>
          /\ ~Has(mid, Shut) /\ ~Told /\ ~Has(mid, Grant(c))
          /\ approved # c /\ bound = NoConn
    /\ Leads(mid, Grant(c), Shut)
    /\ Has(mid, Grant(c)) => ~Told /\ bound = NoConn
    /\ bound = c => ~Told

(* When c has left, a SHUTDOWN is behind its request, its grant and its     *)
(* session.                                                                 *)
ClosedInv(c) ==
    /\ Followed(up, Create(ch, c), Shut)
    /\ Has(up, Shut) \/ Followed(mid, Grant(c), Shut)
    /\ bound = c => Has(up, Shut) \/ Has(mid, Shut)

SessionInv ==
    /\ ~Has(relaying, Shut)
    /\ \A c \in Id : Dependable(c) =>
          /\ Open(c) => OpenInv(c)
          /\ conn[c] = "closed" => ClosedInv(c)

(* What was not dependable stays so.                                        *)
LEMMA DependableStep ==
    ASSUME BridgeInv, Next
    PROVE  /\ early \subseteq early' /\ heirs \subseteq heirs'
           /\ misfired \subseteq misfired' /\ faults' <= faults
           /\ \A c : Dependable(c)' => Dependable(c)
<1>a. faults \in 0..MaxFaults /\ MaxFaults \in Nat
  BY BridgeAssumption DEF BridgeInv, TypeOK
<1>b. ASSUME Fails PROVE faults' <= faults /\ faults' # MaxFaults
  BY <1>a, <1>b DEF Fails
<1>1. CASE \E c \in Id : Browser(c)
  BY <1>a, <1>1 DEF Browser, Accept, Ask, Type, BrowserClose, Announce, gmlElse, history,
                    Dependable
<1>2. CASE ReceiveBack
  BY <1>a, <1>2 DEF ReceiveBack, Dependable
<1>3. CASE ReceiveUp
  BY <1>a, <1>3 DEF ReceiveUp, guardElse, Decide, HandleShutdown, HandleNone, Unmoved,
                    TearDown, Forward, Dependable
<1>4. CASE Flip
  BY <1>a, <1>4 DEF Flip, guardElse, EndApproval, Unmoved, TearDown, Dependable
<1>5. CASE GuardRestart
  BY <1>a, <1>b, <1>5 DEF GuardRestart, guardElse, EndApproval, Unmoved, TearDown,
                          Dependable
<1>6. CASE ReceiveMid
  BY <1>a, <1>b, <1>6 DEF ReceiveMid, OnPayload, gcdElse, Dependable
<1>7. CASE Returning
  <2>1. UNCHANGED <<early, heirs, misfired, faults>>
    BY <1>7 DEF Returning, Relay, ReaderAnnounces, Reader, ReaderEnds, Draw, gcdElse
  <2> QED
    BY <1>a, <2>1 DEF Dependable
<1>8. CASE NetworkFault
  <2>1. Fails
    BY <1>8 DEF NetworkFault, Fault, Lose, Repeat, Overtake
  <2> QED
    BY <1>b, <1>8, <2>1 DEF NetworkFault, history, Dependable
<1>9. CASE WriteKills
  BY <1>b, <1>9 DEF WriteKills, gcdElse, Dependable
<1> QED
  BY <1>1, <1>2, <1>3, <1>4, <1>5, <1>6, <1>7, <1>8, <1>9 DEF Next, Returning

(* No SHUTDOWN is ever relayed for a verdict.                               *)
LEMMA RelayingStep ==
    ASSUME BridgeInv, ~Has(relaying, Shut), Next
    PROVE  ~Has(relaying', Shut)
<1> DEFINE R == Datagram \ {Shut}
<1>1. relaying \in Seq(Datagram) /\ up \in Seq(Datagram) /\ mid \in Seq(Datagram)
      /\ back \in Seq(Datagram)
  BY DEF BridgeInv, TypeOK
<1>2. relaying \in Seq(R)
  BY <1>1, HasNot
<1>3. R \in SUBSET Datagram /\ Datagram \in SUBSET Datagram /\ R \subseteq Datagram
  OBVIOUS
<1>4. Shutdown(ch) \in Datagram
      /\ \A c \in Id : Create(ch, c) \in Datagram /\ None(ch, c) \in Datagram
  BY FramesAreDatagrams
<1>5. \A f \in Datagram : f.action = "CREATE" =>
         \A v \in {APPROVAL_APPROVE, APPROVAL_DENY} : Approval(ch, v, f.data) \in Datagram
  BY DatagramShape, FramesAreDatagrams
<1>6. \A f \in Datagram : f.action = "APPROVAL" =>
         Approval(ch, APPROVAL_DENY, f.data) \in R /\ Grant(f.data) \in R
  BY DatagramShape, FramesAreDatagrams, FramesDiffer DEF Grant, Shut
<1>7. \A c \in Id : None(ch, c) \in Datagram
  BY FramesAreDatagrams
<1> HIDE DEF R
<1>8. relaying' \in Seq(R)
  BY <1>1, <1>2, <1>3, <1>4, <1>5, <1>6, <1>7, Flow
<1>9. relaying' \in Seq(Datagram)
  BY <1>3, <1>8, SeqMonotonic
<1> QED
  BY <1>8, <1>9, HasNot DEF R

(* A request or a grant on a link is a trace of its connection.             *)
LEMMA TraceOf ==
    ASSUME NEW c \in Id
    PROVE  /\ NoTrace(c) => /\ ~Has(up, Create(ch, c)) /\ ~Has(mid, Grant(c))
                            /\ up # <<>> => Head(up) # Create(ch, c)
                            /\ mid # <<>> => Head(mid) # Grant(c)
           /\ Fresh(c) => /\ ~Has(up, Create(ch, c)) /\ ~Has(mid, Grant(c))
                          /\ approved # c /\ bound # c
<1>1. Create(ch, c) \notin Others(c) /\ Grant(c) \notin Others(c)
  BY OthersFrames DEF Create, Grant, Approval
<1>2. up \in Seq(Others(c)) => ~Has(up, Create(ch, c)) /\ (up # <<>> => Head(up) # Create(ch, c))
  <2>1. Others(c) \ {Create(ch, c)} = Others(c)
    BY <1>1
  <2> QED
    BY <1>1, <2>1, HasNot, HeadTail
<1>3. mid \in Seq(Others(c)) => ~Has(mid, Grant(c)) /\ (mid # <<>> => Head(mid) # Grant(c))
  <2>1. Others(c) \ {Grant(c)} = Others(c)
    BY <1>1
  <2> QED
    BY <1>1, <2>1, HasNot, HeadTail
<1> QED
  BY <1>2, <1>3 DEF NoTrace, Fresh

(* A connection that has just got the channel.                              *)
LEMMA OpenAtAccept ==
    ASSUME BridgeInv, Turns, NEW c \in Id, Accept(c), Dependable(c)'
    PROVE  OpenInv(c)'
<1>1. c \notin early' /\ c \notin heirs'
  BY DEF Dependable
<1>2. Drained /\ bound = NoConn
  BY <1>1 DEF Accept
<1>3. /\ up' = <<>> /\ mid' = <<>> /\ back' = <<>> /\ bound' = NoConn
      /\ approved' = approved /\ announcing' = 0
  BY <1>2 DEF Accept, sessions, gmlElse, Drained
<1>4. approved # c /\ c # NoConn
  BY BridgeAssumption DEF Accept, Turns, Fresh
<1>5. /\ \A f : ~Has(<<>>, f)
      /\ \A f, g : Leads(<<>>, f, g)
  BY DEF Has, Leads
<1> QED
  BY <1>3, <1>4, <1>5 DEF OpenInv, Told, Grant, Shut

(* Steps of the browser that has the channel.                               *)
LEMMA OpenBrowser ==
    ASSUME BridgeInv, Turns, NEW c \in Id, OpenInv(c), Open(c)', Ask(c) \/ Type(c)
    PROVE  OpenInv(c)'
<1>1. UNCHANGED <<mid, back, bound, announcing, approved>>
  BY DEF Ask, Type, sessions, gmlElse
<1>2. up \in Seq(Datagram) /\ conn \in [Id -> {"new", "open", "asked", "piped", "leaving", "closed"}]
  BY DEF BridgeInv, TypeOK
<1>3. /\ Create(ch, c) # Shut /\ None(ch, c) # Shut /\ None(ch, c) # Create(ch, c)
      /\ Shut' = Shut /\ Grant(c)' = Grant(c)
  BY FramesDiffer DEF Shut, Grant
<1>4. CASE Ask(c)
  <2>1. up' = Append(up, Create(ch, c)) /\ conn[c] = "open" /\ conn'[c] = "asked"
    BY <1>2, <1>4 DEF Ask
  <2>2. ~Has(up, Create(ch, c))
    BY <2>1, TraceOf DEF Turns
  <2>3. ~Has(up', Shut) /\ Leads(up', Create(ch, c), Shut)
    BY <1>2, <1>3, <2>1, <2>2, AppendOrder DEF OpenInv
  <2> QED
    BY <1>1, <1>3, <2>1, <2>3 DEF OpenInv, Told
<1>5. CASE Type(c)
  <2>1. up' = Append(up, None(ch, c)) /\ conn' = conn
    BY <1>5 DEF Type
  <2>2. /\ ~Has(up', Shut) /\ Leads(up', Create(ch, c), Shut)
        /\ Has(up', Create(ch, c)) <=> Has(up, Create(ch, c))
    BY <1>2, <1>3, <2>1, AppendOrder DEF OpenInv
  <2> QED
    BY <1>1, <1>3, <2>1, <2>2 DEF OpenInv, Told
<1> QED
  BY <1>4, <1>5

(* gmlbroker receives for the connection that has the channel.              *)
LEMMA OpenReceiveBack ==
    ASSUME BridgeInv, Turns, NEW c \in Id, Open(c), OpenInv(c), ReceiveBack, Open(c)'
    PROVE  OpenInv(c)'
<1>1. UNCHANGED <<up, mid, bound, announcing, approved>> /\ back' = Tail(back) /\ back # <<>>
  BY DEF sessions, ReceiveBack
<1>2. back \in Seq(Datagram) /\ conn \in [Id -> {"new", "open", "asked", "piped", "leaving", "closed"}]
  BY DEF BridgeInv, TypeOK
<1>3. Deliver(c, Head(back))
  BY DEF sessions, ReceiveBack, Turns, Free
<1>4. conn'[c] = "open" => conn[c] = "open"
  BY <1>2, <1>3 DEF Deliver, OnVerdict, ApplyVerdict, Open
<1>5. Has(back', Shut) => Has(back, Shut)
  BY <1>1, <1>2, TailOrder
<1>6. Shut' = Shut /\ Grant(c)' = Grant(c)
  BY DEF Shut, Grant
<1> QED
  BY <1>1, <1>4, <1>5, <1>6 DEF OpenInv, Told

(* The guard ends c's approval, or does not touch it.                       *)
LEMMA OpenTearDown ==
    ASSUME BridgeInv, NEW c \in Id, Open(c), OpenInv(c),
           UNCHANGED guardElse, up' = up \/ (up # <<>> /\ up' = Tail(up)),
           Unmoved \/ TearDown, c \notin misfired'
    PROVE  OpenInv(c)'
<1>1. UNCHANGED <<conn, bound, announcing, back>>
  BY DEF sessions, guardElse
<1>2. up \in Seq(Datagram) /\ mid \in Seq(Datagram)
  BY DEF BridgeInv, TypeOK
<1>3. Create(ch, c) # Shut /\ Grant(c) # Shut /\ Shut' = Shut /\ Grant(c)' = Grant(c)
  BY FramesDiffer DEF Shut, Grant
<1>4. /\ Has(up', Create(ch, c)) => Has(up, Create(ch, c))
      /\ ~Has(up', Shut) /\ Leads(up', Create(ch, c), Shut)
  <2>1. ~Has(up, Shut) /\ Leads(up, Create(ch, c), Shut)
    BY DEF OpenInv
  <2>2. CASE up' = up
    BY <2>1, <2>2
  <2>3. CASE up # <<>> /\ up' = Tail(up)
    BY <1>2, <2>1, <2>3, TailOrder
  <2> QED
    BY <2>2, <2>3
<1>5. CASE Unmoved
  BY <1>1, <1>3, <1>4, <1>5 DEF OpenInv, Told, Unmoved
<1>6. CASE TearDown
  <2>1. approved = c /\ mid' = Append(mid, Shut)
    BY <1>6 DEF TearDown, Shut
  <2>2. ~(conn[c] = "open" \/ Has(up, Create(ch, c)))
    BY <2>1 DEF OpenInv
  <2>3. Leads(mid', Grant(c), Shut) /\ (Has(mid', Grant(c)) => Has(mid, Grant(c)))
    BY <1>2, <1>3, <2>1, AppendOrder DEF OpenInv
  <2> QED
    BY <1>1, <1>3, <1>4, <2>2, <2>3 DEF OpenInv, Told
<1> QED
  BY <1>5, <1>6

(* The guard receives while c has the channel.                              *)
LEMMA OpenReceiveUp ==
    ASSUME BridgeInv, Turns, NEW c \in Id, Open(c), OpenInv(c), ReceiveUp,
           c \notin early, c \notin misfired'
    PROVE  OpenInv(c)'
<1> DEFINE f == Head(up)
           Req == Create(ch, c)
<1>1. UNCHANGED guardElse /\ up # <<>> /\ up' = Tail(up)
  BY DEF ReceiveUp
<1>2. UNCHANGED <<conn, bound, announcing, back>>
  BY <1>1 DEF sessions, guardElse
<1>3. up \in Seq(Datagram) /\ mid \in Seq(Datagram) /\ f \in Datagram
  BY <1>1, HeadTail DEF BridgeInv, TypeOK
<1>4. /\ Req # Shut /\ Grant(c) # Shut /\ Shut' = Shut /\ Grant(c)' = Grant(c)
      /\ Shut \in Datagram /\ \A v : Approval(ch, v, c) # Shut
      /\ Req # Grant(c) /\ Approval(ch, APPROVAL_DENY, c) # Grant(c)
  BY FramesDiffer, FramesAreDatagrams DEF Shut, Grant
<1>5. /\ Has(up', Req) => Has(up, Req)
      /\ f = Req => ~Has(up', Req)
      /\ f \in {Req, Shut} => Has(up, f)
      /\ ~Has(up', Shut) /\ Leads(up', Req, Shut)
  BY <1>1, <1>3, TailOrder DEF OpenInv
<1>6. CASE f.action = "CREATE" /\ Decide(f)
  <2>1. f = Create(ch, f.data) /\ f.data \in Id
    BY <1>3, <1>6, DatagramShape
  <2>2. f.data = c
    BY <1>1, <2>1, TraceOf DEF Turns
  <2>3. /\ ~Has(mid, Shut) /\ ~Told /\ ~Has(mid, Grant(c)) /\ bound = NoConn
        /\ conn[c] # "open"
    <3>1. Has(up, Req)
      BY <1>5, <2>1, <2>2
    <3> QED
      BY <3>1, TraceOf DEF OpenInv, Turns
  <2>4. ~Has(up', Req)
    BY <1>5, <2>1, <2>2
  <2>5. /\ \A v \in {APPROVAL_APPROVE, APPROVAL_DENY} : Approval(ch, v, c) \in Datagram
        /\ Req \in Datagram
    BY FramesAreDatagrams
  <2> DEFINE m == Append(mid, Req)
  <2>6. m \in Seq(Datagram) /\ ~Has(m, Shut) /\ ~Has(m, Grant(c))
    BY <1>3, <1>4, <2>3, <2>5, AppendOrder, AppendProperties
  <2>7. CASE approve
    <3>1. mid' = mid \o <<Req, Grant(c)>>
      BY <1>6, <2>1, <2>2, <2>7 DEF Decide, Grant
    <3>2. mid' = Append(m, Grant(c))
      BY <1>3, <2>5, <3>1, ConcatOrder DEF Grant
    <3> HIDE DEF m
    <3>3. Leads(mid', Grant(c), Shut)
      BY <1>4, <2>6, <3>2, AppendOrder
    <3> QED
      BY <1>2, <1>4, <1>5, <2>3, <2>4, <3>3 DEF OpenInv, Told
  <2>8. CASE ~approve
    <3> DEFINE D == Approval(ch, APPROVAL_DENY, c)
               n == Append(m, D)
    <3>1. mid' = mid \o <<Req, D, Shut>>
      BY <1>6, <2>1, <2>2, <2>8 DEF Decide, Shut
    <3>2. mid' = Append(n, Shut)
      BY <1>3, <1>4, <2>5, <3>1, ConcatOrder
    <3>3. n \in Seq(Datagram) /\ ~Has(n, Grant(c))
      BY <1>4, <2>5, <2>6, AppendOrder, AppendProperties
    <3> HIDE DEF n, m
    <3>4. ~Has(mid', Grant(c))
      BY <1>4, <3>2, <3>3, AppendOrder
    <3>5. Leads(mid', Grant(c), Shut)
      BY <3>4 DEF Leads, Has
    <3> QED
      BY <1>2, <1>4, <1>5, <2>3, <2>4, <3>4, <3>5 DEF OpenInv, Told
  <2> QED
    BY <2>7, <2>8
<1>7. CASE f.action = "SHUTDOWN"
  BY <1>3, <1>5, <1>7, DatagramShape DEF OpenInv, Shut
<1>8. CASE f.action = "NONE" /\ HandleNone(f)
  <2>1. CASE Unmoved \/ TearDown
    BY <1>1, <2>1, OpenTearDown
  <2>2. CASE Forward(f)
    <3>1. f # Shut /\ f # Grant(c)
      BY <1>8 DEF Shut, Shutdown, Grant, Approval
    <3>2. mid' = Append(mid, f) /\ approved' = approved
      BY <2>2 DEF Forward
    <3> HIDE DEF f, Req
    <3>3. /\ Leads(mid', Grant(c), Shut)
          /\ Has(mid', Grant(c)) <=> Has(mid, Grant(c))
      BY <1>3, <1>4, <3>1, <3>2, AppendOrder DEF OpenInv
    <3>4. Has(mid', Shut) <=> Has(mid, Shut)
      BY <1>3, <1>4, <3>1, <3>2, AppendOrder
    <3> QED
      BY <1>2, <1>4, <1>5, <3>2, <3>3, <3>4 DEF OpenInv, Told, Req
  <2> QED
    BY <1>8, <2>1, <2>2 DEF HandleNone
<1> QED
  BY <1>6, <1>7, <1>8 DEF ReceiveUp

(* gcdbroker receives while c has the channel.                              *)
LEMMA OpenReceiveMid ==
    ASSUME BridgeInv, Turns, NEW c \in Id, Open(c), OpenInv(c), ReceiveMid,
           c \notin early, faults = MaxFaults, faults' = MaxFaults
    PROVE  OpenInv(c)'
<1> DEFINE f == Head(mid)
<1>1. mid # <<>> /\ mid' = Tail(mid) /\ UNCHANGED <<conn, approved, up, announcing>>
  BY DEF sessions, ReceiveMid, gcdElse, OnApproval, Dial, DialFails, OnShutdown
<1>2. mid \in Seq(Datagram) /\ f \in Datagram /\ back \in Seq(Datagram)
  BY <1>1, HeadTail DEF BridgeInv, TypeOK
<1>3. /\ Grant(c) # Shut /\ Shut' = Shut /\ Grant(c)' = Grant(c) /\ Create(ch, c) # Shut
  BY FramesDiffer DEF Shut, Grant
<1>4. /\ Has(mid', Shut) => Has(mid, Shut)
      /\ Has(mid', Grant(c)) => Has(mid, Grant(c))
      /\ Leads(mid', Grant(c), Shut)
      /\ f \in {Grant(c), Shut} => ~Has(mid', Grant(c)) /\ Has(mid, f)
  BY <1>1, <1>2, TailOrder DEF OpenInv
<1>5. CASE UNCHANGED <<bound, back>>
  BY <1>1, <1>3, <1>4, <1>5 DEF OpenInv, Told
<1>6. CASE f.action = "APPROVAL" /\ f.verdict = APPROVAL_APPROVE /\ Dial(f.data)
           /\ UNCHANGED back
  <2>1. f = Grant(f.data) /\ f.data \in Id
    BY <1>2, <1>6, DatagramShape DEF Grant
  <2>2. f.data = c
    BY <1>1, <2>1, TraceOf DEF Turns
  <2>3. Has(mid, Grant(c)) /\ ~Has(mid', Grant(c)) /\ bound' = c
    BY <1>4, <1>6, <2>1, <2>2 DEF Dial
  <2> QED
    BY <1>1, <1>3, <1>4, <1>6, <2>3 DEF OpenInv, Told
<1>7. CASE f.action = "SHUTDOWN" /\ OnShutdown
  <2>1. f = Shut
    BY <1>2, <1>7, DatagramShape DEF Shut
  <2>2. Has(mid, Shut) /\ ~Has(mid', Grant(c)) /\ bound' = NoConn
    BY <1>4, <1>7, <2>1 DEF sessions, OnShutdown
  <2>3. c # NoConn
    BY BridgeAssumption
  <2> QED
    BY <1>1, <1>3, <1>4, <2>2, <2>3 DEF OpenInv, Told
<1>8. \/ UNCHANGED <<bound, back>>
      \/ /\ f.action = "APPROVAL" /\ f.verdict = APPROVAL_APPROVE /\ Dial(f.data)
         /\ UNCHANGED back
      \/ f.action = "SHUTDOWN" /\ OnShutdown
  <2>1. ~Fails
    BY BridgeAssumption DEF Fails
  <2> QED
    BY <2>1 DEF sessions, ReceiveMid, OnApproval, DialFails, OnPayload
<1> QED
  BY <1>5, <1>6, <1>7, <1>8

(* The session of c, or the return path, moves.                             *)
LEMMA OpenSession ==
    ASSUME BridgeInv, ~Has(relaying, Shut), NEW c \in Id, OpenInv(c), Returning
    PROVE  OpenInv(c)'
<1>1. UNCHANGED <<conn, approved, up, mid>>
  BY DEF Returning, Relay, ReaderAnnounces, Reader, ReaderEnds, Draw, gcdElse
<1>2. /\ back \in Seq(Datagram) /\ relaying \in Seq(Datagram) /\ bound \in Id \cup {NoConn}
      /\ announcing \in Nat
  BY DEF BridgeInv, TypeOK
<1>3. /\ Shut' = Shut /\ Grant(c)' = Grant(c) /\ c # NoConn /\ Shut # Grant(c)
      /\ Shut = Shutdown(ch)
  BY BridgeAssumption, FramesDiffer DEF Shut, Grant
<1>4. ASSUME UNCHANGED bound, Told' => Told PROVE OpenInv(c)'
  BY <1>1, <1>3, <1>4 DEF OpenInv
<1>5. CASE Relay
  <2>1. back' = back \o relaying /\ UNCHANGED <<bound, announcing>>
    BY <1>5 DEF Relay, sessions
  <2>2. Has(back', Shut) <=> Has(back, Shut)
    BY <1>2, <2>1, ConcatOrder
  <2> QED
    BY <1>3, <1>4, <2>1, <2>2 DEF Told
<1>6. CASE ReaderAnnounces
  <2>1. UNCHANGED bound /\ announcing # 0
    BY <1>2, <1>6 DEF ReaderAnnounces
  <2> QED
    BY <1>4, <2>1 DEF Told
<1>7. ASSUME NEW d \in Id, ReaderEnds(d) PROVE OpenInv(c)'
  <2>1. bound' = NoConn /\ UNCHANGED back /\ (bound = NoConn => announcing' = announcing)
    BY <1>7 DEF ReaderEnds
  <2>2. CASE bound = NoConn
    BY <1>3, <1>4, <2>1, <2>2 DEF Told
  <2>3. CASE bound # NoConn
    BY <1>1, <1>3, <2>1, <2>3 DEF OpenInv
  <2> QED
    BY <2>2, <2>3
<1>8. ASSUME NEW d \in Id, Draw(d) PROVE OpenInv(c)'
  <2>1. back' = Append(back, None(ch, d)) /\ UNCHANGED <<bound, announcing>>
    BY <1>8 DEF Draw, sessions
  <2>2. None(ch, d) # Shut
    BY FramesDiffer DEF Shut
  <2>3. Has(back', Shut) <=> Has(back, Shut)
    BY <1>2, <1>3, <2>1, <2>2, AppendOrder
  <2> QED
    BY <1>3, <1>4, <2>1, <2>3 DEF Told
<1> QED
  BY <1>5, <1>6, <1>7, <1>8 DEF Returning, Reader

(* The part of SessionInv about the connection that has the channel.        *)
LEMMA OpenStep ==
    ASSUME BridgeInv, Turns, SessionInv, Next, NEW c \in Id, Dependable(c)', Open(c)'
    PROVE  OpenInv(c)'
<1>1. /\ Dependable(c) /\ c \notin early' /\ c \notin misfired' /\ c \notin early
      /\ faults = MaxFaults /\ faults' = MaxFaults
  BY DependableStep DEF Dependable
<1>2. CASE Accept(c)
  BY <1>2, OpenAtAccept
<1>3. CASE Open(c)
  <2>1. OpenInv(c) /\ ~Has(relaying, Shut)
    BY <1>1, <1>3 DEF SessionInv
  <2>2. CASE \E d \in Id : Browser(d)
    <3>1. PICK d \in Id : Browser(d)
      BY <2>2
    <3>2. ~Accept(d)
      BY <1>3 DEF Accept, Free
    <3>3. ~Announce(d)
      <4>1. d # c => conn[d] # "leaving"
        BY <1>1, <1>3 DEF Turns
      <4>2. conn[c] # "leaving"
        BY <1>3 DEF Open
      <4> QED
        BY <4>1, <4>2 DEF Announce
    <3>4. d = c
      BY <1>3, <3>1, <3>2, <3>3 DEF Browser, Ask, Type, BrowserClose, Open, Turns
    <3>5. ~BrowserClose(c)
      BY DEF BrowserClose, Open, BridgeInv, TypeOK
    <3> QED
      BY <2>1, <3>1, <3>2, <3>3, <3>4, <3>5, OpenBrowser DEF Browser
  <2>3. CASE ReceiveBack
    BY <1>3, <2>1, <2>3, OpenReceiveBack
  <2>4. CASE ReceiveUp
    BY <1>1, <1>3, <2>1, <2>4, OpenReceiveUp
  <2>5. CASE Flip \/ GuardRestart
    <3>1. UNCHANGED guardElse /\ up' = up /\ (Unmoved \/ TearDown)
      BY <1>1, <2>5, BridgeAssumption DEF Flip, GuardRestart, EndApproval, Fails
    <3> QED
      BY <1>1, <1>3, <2>1, <3>1, OpenTearDown
  <2>6. CASE ReceiveMid
    BY <1>1, <1>3, <2>1, <2>6, OpenReceiveMid
  <2>7. CASE Returning
    BY <2>1, <2>7, OpenSession
  <2>8. ~NetworkFault /\ ~WriteKills
    <3>1. ~Fails
      BY <1>1, BridgeAssumption DEF Fails
    <3> QED
      BY <3>1 DEF NetworkFault, Fault, Lose, Repeat, Overtake, WriteKills
  <2> QED
    BY <2>2, <2>3, <2>4, <2>5, <2>6, <2>7, <2>8 DEF Next, Returning
<1> QED
  BY <1>2, <1>3, ConnStep

(* A connection that leaves: either it sends a SHUTDOWN behind everything   *)
(* of its own, or the SHUTDOWN it got shows that nothing of it is left.     *)
LEMMA ClosedAtLeave ==
    ASSUME BridgeInv, Turns, SessionInv, Next, NEW c \in Id, Dependable(c),
           conn'[c] = "closed", conn[c] # "closed"
    PROVE  ClosedInv(c)'
<1>1. /\ up \in Seq(Datagram) /\ back \in Seq(Datagram)
      /\ conn \in [Id -> {"new", "open", "asked", "piped", "leaving", "closed"}]
  BY DEF BridgeInv, TypeOK
<1>2. /\ Create(ch, c) # Shut /\ Grant(c) # Shut /\ Shut' = Shut /\ Grant(c)' = Grant(c)
      /\ Shut = Shutdown(ch)
  BY FramesDiffer DEF Shut, Grant
<1>3. ASSUME up' = Append(up, Shut) PROVE ClosedInv(c)'
  <2>1. Followed(up', Create(ch, c), Shut)
    BY <1>1, <1>2, <1>3, AppendOrder
  <2>2. Has(up', Shut)
    BY <1>1, <1>2, <1>3, AppendOrder
  <2> QED
    BY <1>2, <2>1, <2>2 DEF ClosedInv
<1>4. CASE \E d \in Id : Browser(d)
  <2>1. PICK d \in Id : Browser(d)
    BY <1>4
  <2>2. Announce(d)
    BY <1>1, <2>1 DEF Browser, Accept, Ask, Type, BrowserClose
  <2> QED
    BY <1>2, <1>3, <2>2 DEF Announce
<1>5. CASE ReceiveBack
  <2>1. PICK d \in Id : Open(d) /\ Deliver(d, Head(back))
    BY <1>5 DEF sessions, ReceiveBack
  <2>2. d = c
    BY <1>1, <2>1 DEF Deliver, OnVerdict, ApplyVerdict
  <2>3. Head(back).action = "SHUTDOWN" /\ up' = up
    BY <1>1, <1>5, <2>1, <2>2 DEF ReceiveBack, Deliver, OnVerdict, ApplyVerdict
  <2>4. back # <<>> /\ UNCHANGED <<mid, bound>> /\ Head(back) \in Datagram
    BY <1>1, <1>5, HeadTail DEF ReceiveBack, sessions
  <2>5. Head(back) = Shut
    BY <2>3, <2>4, DatagramShape DEF Shut
  <2>6. Told
    BY <1>1, <2>4, <2>5, TailOrder DEF Told
  <2>7. ~Has(up, Create(ch, c)) /\ ~Has(mid, Grant(c)) /\ bound # c
    BY <2>1, <2>2, <2>6 DEF SessionInv, OpenInv
  <2> QED
    BY <1>2, <2>3, <2>4, <2>7 DEF ClosedInv, Has, Followed
<1>6. \/ \E d \in Id : Browser(d)
      \/ ReceiveBack
      \/ UNCHANGED conn
  BY DEF Next, ReceiveUp, sessions, ReceiveMid, guardElse, Relay, Flip, GuardRestart,
         Reader, ReaderEnds, ReaderAnnounces, WriteKills, Draw, NetworkFault, gcdElse
<1> QED
  BY <1>4, <1>5, <1>6

(* The guard's steps for a connection that has left.                        *)
LEMMA ClosedGuard ==
    ASSUME BridgeInv, NEW c \in Id, ClosedInv(c), ReceiveUp
    PROVE  ClosedInv(c)'
<1> DEFINE f == Head(up)
           Req == Create(ch, c)
<1>1. UNCHANGED guardElse /\ up # <<>> /\ up' = Tail(up)
  BY DEF ReceiveUp
<1>2. bound' = bound
  BY <1>1 DEF sessions, guardElse
<1>3. up \in Seq(Datagram) /\ mid \in Seq(Datagram) /\ f \in Datagram
  BY <1>1, HeadTail DEF BridgeInv, TypeOK
<1>4. /\ Req # Shut /\ Grant(c) # Shut /\ Shut' = Shut /\ Grant(c)' = Grant(c)
      /\ Shut \in Datagram
  BY FramesDiffer, FramesAreDatagrams DEF Shut, Grant
<1>5. /\ Followed(up', Req, Shut)
      /\ f = Req => Has(up', Shut)
      /\ Has(up, Shut) => f = Shut \/ Has(up', Shut)
  BY <1>1, <1>3, TailOrder DEF ClosedInv
<1>6. ASSUME NEW x, mid' = Append(mid, x), x # Grant(c), f # Shut
      PROVE  ClosedInv(c)'
  <2>1. Followed(mid, Grant(c), Shut) => Followed(mid', Grant(c), Shut)
    BY <1>3, <1>4, <1>6, AppendOrder
  <2>2. Has(mid, Shut) => Has(mid', Shut)
    BY <1>3, <1>4, <1>6, AppendOrder
  <2> QED
    BY <1>2, <1>4, <1>5, <1>6, <2>1, <2>2 DEF ClosedInv
<1>7. ASSUME mid' = Append(mid, Shut)
      PROVE  ClosedInv(c)'
  <2>1. Followed(mid', Grant(c), Shut)
    BY <1>3, <1>4, <1>7, AppendOrder
  <2>2. Has(mid', Shut)
    BY <1>3, <1>4, <1>7, AppendOrder
  <2> QED
    BY <1>4, <1>5, <2>1, <2>2 DEF ClosedInv
<1>8. CASE f.action = "CREATE" /\ Decide(f)
  <2> DEFINE d == f.data
  <2>1. f = Create(ch, d) /\ d \in Id
    BY <1>3, <1>8, DatagramShape
  <2>2. f # Shut
    BY <2>1, FramesDiffer DEF Shut
  <2>3. CASE d = c
    BY <1>4, <1>5, <2>1, <2>3 DEF ClosedInv
  <2>4. CASE d # c
    <3>1. /\ f # Grant(c) /\ \A v : Approval(ch, v, d) # Grant(c)
      <4>1. \A v : Approval(ch, v, d).data = d /\ Grant(c).data = c
        BY DEF Approval, Grant
      <4> QED
        BY <2>1, <2>4, <4>1, FramesDiffer
    <3>2. \A v \in {APPROVAL_APPROVE, APPROVAL_DENY} : Approval(ch, v, d) \in Datagram
      BY <2>1, FramesAreDatagrams
    <3> DEFINE m == Append(mid, f)
               W(v) == Append(m, Approval(ch, v, d))
    <3> HIDE DEF f, d
    <3>3. /\ m \in Seq(Datagram)
          /\ Followed(mid, Grant(c), Shut) => Followed(m, Grant(c), Shut)
          /\ Has(mid, Shut) => Has(m, Shut)
      <4>1. /\ m \in Seq(Datagram)
            /\ Followed(mid, Grant(c), Shut) => Followed(m, Grant(c), Shut)
        BY <1>3, <1>4, <3>1, AppendOrder, AppendProperties
      <4>2. Has(mid, Shut) => Has(m, Shut)
        BY <1>3, <1>4, AppendOrder
      <4> QED
        BY <4>1, <4>2
    <3> HIDE DEF m
    <3>4. ASSUME NEW v \in {APPROVAL_APPROVE, APPROVAL_DENY}
          PROVE  /\ W(v) \in Seq(Datagram)
                 /\ Followed(mid, Grant(c), Shut) => Followed(W(v), Grant(c), Shut)
                 /\ Has(mid, Shut) => Has(W(v), Shut)
      <4>1. /\ W(v) \in Seq(Datagram)
            /\ Followed(m, Grant(c), Shut) => Followed(W(v), Grant(c), Shut)
        BY <1>4, <3>1, <3>2, <3>3, AppendOrder, AppendProperties
      <4>2. Has(m, Shut) => Has(W(v), Shut)
        BY <1>4, <3>3, AppendOrder
      <4> QED
        BY <3>3, <4>1, <4>2
    <3>5. CASE approve
      <4>1. mid' = W(APPROVAL_APPROVE)
        BY <1>3, <1>8, <3>2, <3>5, ConcatOrder DEF Decide, d, m
      <4> HIDE DEF W
      <4>2. /\ Followed(mid, Grant(c), Shut) => Followed(mid', Grant(c), Shut)
            /\ Has(mid, Shut) => Has(mid', Shut)
        BY <3>4, <4>1
      <4> QED
        BY <1>2, <1>4, <1>5, <2>2, <4>2 DEF ClosedInv
    <3>6. CASE ~approve
      <4>1. mid' = Append(W(APPROVAL_DENY), Shut)
        BY <1>3, <1>4, <1>8, <3>2, <3>6, ConcatOrder DEF Decide, d, m, Shut
      <4>2. W(APPROVAL_DENY) \in Seq(Datagram)
        BY <3>4
      <4> HIDE DEF W
      <4>3. Followed(mid', Grant(c), Shut) /\ Has(mid', Shut)
        <5>1. Followed(mid', Grant(c), Shut)
          BY <1>4, <4>1, <4>2, AppendOrder
        <5>2. Has(mid', Shut)
          BY <1>4, <4>1, <4>2, AppendOrder
        <5> QED
          BY <5>1, <5>2
      <4> QED
        BY <1>4, <1>5, <4>3 DEF ClosedInv
    <3> QED
      BY <3>5, <3>6
  <2> QED
    BY <2>3, <2>4
<1>9. CASE f.action = "SHUTDOWN" /\ HandleShutdown(f)
  <2>1. f = Shut
    BY <1>3, <1>9, DatagramShape DEF Shut
  <2> QED
    BY <1>7, <1>9, <2>1 DEF HandleShutdown
<1>10. CASE f.action = "NONE" /\ HandleNone(f)
  <2>1. f # Shut /\ f # Grant(c)
    BY <1>10 DEF Shut, Shutdown, Grant, Approval
  <2>2. mid' = mid \/ mid' = Append(mid, f) \/ mid' = Append(mid, Shut)
    BY <1>10 DEF HandleNone, Unmoved, Forward, TearDown, Shut
  <2>3. CASE mid' = mid
    BY <1>2, <1>4, <1>5, <2>1, <2>3 DEF ClosedInv
  <2> QED
    BY <1>6, <1>7, <2>1, <2>2, <2>3
<1> QED
  BY <1>8, <1>9, <1>10 DEF ReceiveUp

(* gcdbroker receives after c has left.                                     *)
LEMMA ClosedReceiveMid ==
    ASSUME BridgeInv, NEW c \in Id, ClosedInv(c), ReceiveMid
    PROVE  ClosedInv(c)'
<1> DEFINE f == Head(mid)
<1>1. mid # <<>> /\ mid' = Tail(mid) /\ up' = up
  BY DEF sessions, ReceiveMid, gcdElse
<1>2. mid \in Seq(Datagram) /\ f \in Datagram /\ c # NoConn
  BY <1>1, HeadTail, BridgeAssumption DEF BridgeInv, TypeOK
<1>3. Shut' = Shut /\ Grant(c)' = Grant(c)
  BY DEF Shut, Grant
<1>4. /\ Followed(mid, Grant(c), Shut) =>
            Followed(mid', Grant(c), Shut) /\ (f = Grant(c) => Has(mid', Shut))
      /\ Has(mid, Shut) => f = Shut \/ Has(mid', Shut)
  BY <1>1, <1>2, TailOrder
<1>5. /\ f = Shut => bound' = NoConn
      /\ bound' = c => bound = c \/ f = Grant(c)
  <2>1. f = Shut => f.action = "SHUTDOWN"
    BY DEF Shut, Shutdown
  <2>2. f.action = "SHUTDOWN" => bound' = NoConn
    BY DEF sessions, ReceiveMid, OnShutdown
  <2>3. ASSUME bound' = c, bound # c PROVE f = Grant(c)
    <3>1. f.action = "APPROVAL" /\ f.verdict = APPROVAL_APPROVE /\ f.data = c
      BY <1>2, <2>3 DEF sessions, ReceiveMid, OnApproval, Dial, DialFails,
                        OnShutdown, OnPayload
    <3> QED
      BY <1>2, <3>1, DatagramShape DEF Grant
  <2> QED
    BY <2>1, <2>2, <2>3
<1> QED
  BY <1>1, <1>2, <1>3, <1>4, <1>5 DEF ClosedInv

(* The part of SessionInv about the connections that have left.             *)
LEMMA ClosedStep ==
    ASSUME BridgeInv, Turns, SessionInv, Next, NEW c \in Id, Dependable(c)',
           conn'[c] = "closed"
    PROVE  ClosedInv(c)'
<1>1. Dependable(c) /\ faults = MaxFaults /\ faults' = MaxFaults
  BY DependableStep DEF Dependable
<1>2. CASE conn[c] # "closed"
  BY <1>1, <1>2, ClosedAtLeave
<1>3. CASE conn[c] = "closed"
  <2>1. ClosedInv(c)
    BY <1>1, <1>3 DEF SessionInv
  <2>2. /\ up \in Seq(Datagram) /\ mid \in Seq(Datagram)
        /\ conn \in [Id -> {"new", "open", "asked", "piped", "leaving", "closed"}]
    BY DEF BridgeInv, TypeOK
  <2>3. /\ Create(ch, c) # Shut /\ Grant(c) # Shut /\ Shut' = Shut /\ Grant(c)' = Grant(c)
        /\ Shut = Shutdown(ch) /\ c # NoConn
    BY FramesDiffer, BridgeAssumption DEF Shut, Grant
  <2>4. ASSUME NEW x, x # Create(ch, c), up' = Append(up, x), UNCHANGED <<mid, bound>>
        PROVE  ClosedInv(c)'
    <3>1. Followed(up', Create(ch, c), Shut)
      BY <2>1, <2>2, <2>3, <2>4, AppendOrder DEF ClosedInv
    <3>2. Has(up, Shut) => Has(up', Shut)
      BY <2>2, <2>3, <2>4, AppendOrder
    <3> QED
      BY <2>1, <2>3, <2>4, <3>1, <3>2 DEF ClosedInv
  <2>5. CASE UNCHANGED <<up, mid, bound>>
    BY <2>1, <2>3, <2>5 DEF ClosedInv
  <2>6. CASE \E d \in Id : Browser(d)
    <3>1. PICK d \in Id : Browser(d)
      BY <2>6
    <3>2. UNCHANGED <<mid, bound>>
      BY <3>1 DEF Browser, Accept, Ask, Type, BrowserClose, Announce, sessions, gmlElse
    <3>3. up' = up \/ \E x : x # Create(ch, c) /\ up' = Append(up, x)
      <4>1. Ask(d) => d # c
        BY <1>3 DEF Ask
      <4>2. Create(ch, d) = Create(ch, c) => d = c
        BY FramesDiffer
      <4>3. None(ch, d) # Create(ch, c)
        BY FramesDiffer
      <4> QED
        BY <2>3, <3>1, <4>1, <4>2, <4>3 DEF Browser, Accept, Ask, Type, BrowserClose,
            Announce
    <3> QED
      BY <2>4, <2>5, <3>2, <3>3
  <2>7. CASE ReceiveBack
    <3>1. UNCHANGED <<mid, bound>>
      BY <2>7 DEF sessions, ReceiveBack
    <3> QED
      BY <2>5, <2>7, <3>1 DEF ReceiveBack
  <2>8. CASE ReceiveUp
    BY <2>1, <2>8, ClosedGuard
  <2>9. CASE Flip \/ GuardRestart
    <3>1. up' = up /\ bound' = bound
      BY <1>1, <2>9, BridgeAssumption DEF Fails, Flip, GuardRestart, sessions, guardElse
    <3>2. mid' = mid \/ mid' = Append(mid, Shut)
      BY <2>9 DEF Flip, GuardRestart, EndApproval, Unmoved, TearDown, Shut
    <3>3. ASSUME mid' = Append(mid, Shut)
          PROVE  Followed(mid', Grant(c), Shut) /\ Has(mid', Shut)
      <4>1. Followed(mid', Grant(c), Shut)
        BY <2>2, <2>3, <3>3, AppendOrder
      <4>2. Has(mid', Shut)
        BY <2>2, <2>3, <3>3, AppendOrder
      <4> QED
        BY <4>1, <4>2
    <3> QED
      BY <2>1, <2>3, <2>5, <3>1, <3>2, <3>3 DEF ClosedInv
  <2>10. CASE ReceiveMid
    BY <2>1, <2>10, ClosedReceiveMid
  <2>11. CASE Returning
    <3>1. UNCHANGED <<up, mid>> /\ (bound' = bound \/ bound' = NoConn)
      BY <2>11 DEF Returning, Relay, ReaderAnnounces, Reader, ReaderEnds, Draw, gcdElse,
                   sessions
    <3> QED
      BY <2>1, <2>3, <3>1 DEF ClosedInv
  <2>12. ~NetworkFault /\ ~WriteKills
    <3>1. ~Fails
      BY <1>1, BridgeAssumption DEF Fails
    <3> QED
      BY <3>1 DEF NetworkFault, Fault, Lose, Repeat, Overtake, WriteKills
  <2> QED
    BY <2>6, <2>7, <2>8, <2>9, <2>10, <2>11, <2>12 DEF Next, Returning
<1> QED
  BY <1>2, <1>3

(* The next connection finds nothing that a dependable one has drawn.       *)
DrawInv ==
    \A c, d \in Id : c # d /\ Open(d) /\ d \notin early /\ Dependable(c) =>
        bound # c /\ readers[c] = 0 /\ back \in Seq(Datagram \ {None(ch, c)})

(* A dependable connection that has left has no session once the channel is *)
(* drained, and then no reader either; a session is opened only for the     *)
(* connection that has the channel.                                         *)
LEMMA DrawStep ==
    ASSUME BridgeInv, Turns, SessionInv, DrawInv, Next
    PROVE  DrawInv'
<1> DEFINE B(c) == Datagram \ {None(ch, c)}
<1> SUFFICES ASSUME NEW c \in Id, NEW d \in Id, c # d, Open(d)', d \notin early', Dependable(c)'
             PROVE  bound' # c /\ readers'[c] = 0 /\ back' \in Seq(B(c))
  BY DEF DrawInv, Datagram
<1>1. Dependable(c) /\ d \notin early
  BY DependableStep
<1>2. CASE Accept(d)
  <2>1. Drained /\ ~Open(c) /\ UNCHANGED <<bound, readers, back>>
    BY <1>2 DEF Accept, gmlElse, sessions, Free
  <2>2. conn[c] = "new" \/ conn[c] = "closed"
    BY <2>1 DEF Open, Drained, BridgeInv, TypeOK
  <2>3. bound # c
    <3>1. CASE conn[c] = "new"
      BY <3>1 DEF Turns, Fresh
    <3>2. CASE conn[c] = "closed"
      BY <1>1, <2>1, <3>2 DEF SessionInv, ClosedInv, Drained, Has
    <3> QED
      BY <2>2, <3>1, <3>2
  <2>4. readers[c] = 0
    <3>1. readers[c] \in Nat /\ (readers[c] > 0 => c = bound)
      BY <2>1 DEF Drained, BridgeInv, TypeOK
    <3> QED
      BY <2>3, <3>1
  <2> QED
    BY <2>1, <2>3, <2>4, EmptySeq DEF Drained
<1>3. CASE Open(d)
  <2>1. bound # c /\ readers[c] = 0 /\ back \in Seq(B(c)) /\ NoTrace(c)
    BY <1>1, <1>3 DEF DrawInv, Turns
  <2>2. bound' # c
    <3> SUFFICES ASSUME bound' = c PROVE FALSE
      OBVIOUS
    <3>1. mid # <<>> /\ Head(mid) = Grant(c)
      BY <2>1, BoundStep, BridgeAssumption
    <3> QED
      BY <2>1, <3>1, TraceOf
  <2>3. readers'[c] = 0
    BY <2>1, <2>2, ReadersStep
  <2>4. back' \in Seq(B(c))
    <3>1. Append(back, Shutdown(ch)) \in Seq(B(c))
      BY <2>1, FramesAreDatagrams, FramesDiffer, AppendProperties
    <3>2. CASE ReceiveBack
      BY <2>1, <3>2, HeadTail DEF ReceiveBack
    <3>3. CASE ReceiveMid
      BY <2>1, <3>1, <3>3 DEF ReceiveMid, OnShutdown
    <3>4. CASE Relay
      <4>1. Others(c) \subseteq B(c)
        BY OthersFrames DEF None
      <4>2. relaying \in Seq(B(c))
        BY <2>1, <4>1, SeqMonotonic DEF NoTrace
      <4> QED
        BY <2>1, <3>4, <4>2, ConcatProperties DEF Relay
    <3>5. CASE ReaderAnnounces
      BY <3>1, <3>5 DEF ReaderAnnounces
    <3>6. ASSUME NEW e \in Id, Draw(e) PROVE back' \in Seq(B(c))
      <4>1. e # c /\ back' = Append(back, None(ch, e))
        BY <2>1, <3>6 DEF Draw
      <4>2. None(ch, e) \in B(c)
        BY <4>1, FramesAreDatagrams, FramesDiffer
      <4> QED
        BY <2>1, <4>1, <4>2, AppendProperties
    <3>7. CASE NetworkFault
      BY <2>1, <3>7, FaultKeepsContents DEF NetworkFault, Fault, Lose, Repeat, Overtake
    <3>8. ASSUME NEW e \in Id, Browser(e) \/ ReaderEnds(e) PROVE back' = back
      BY <3>8 DEF Browser, Accept, Ask, Type, BrowserClose, Announce, ReaderEnds, gmlElse
    <3>9. CASE ReceiveUp \/ Flip \/ GuardRestart
      BY <2>1, <3>9 DEF ReceiveUp, Flip, GuardRestart, guardElse
    <3>10. CASE WriteKills
      BY <2>1, <3>10, EmptySeq DEF WriteKills
    <3> QED
      BY <2>1, <3>2, <3>3, <3>4, <3>5, <3>6, <3>7, <3>8, <3>9, <3>10 DEF Next, Reader
  <2> QED
    BY <2>2, <2>3, <2>4
<1> QED
  BY <1>2, <1>3, ConnStep

(* A drawing that reaches another connection is recorded.                   *)
LEMMA OwnDrawingStep ==
    ASSUME BridgeInv, Turns, DrawInv, OwnDrawing, Next
    PROVE  OwnDrawing'
<1> SUFFICES ASSUME NEW p \in crossed', p[1] = "drawing", p \notin crossed
             PROVE  p[3] \in early' \/ ~Dependable(p[2])'
  BY DependableStep DEF OwnDrawing
<1>1. ReceiveMid => \E x, y : p = <<"payload", x, y>>
  BY DEF sessions, ReceiveMid, OnPayload, Cross
<1>2. ReceiveBack
  <2>1. ~ReceiveMid /\ crossed' # crossed
    BY <1>1
  <2>2. \A e \in Id : Browser(e) \/ Reader(e) => UNCHANGED crossed
    BY DEF Browser, Accept, Ask, Type, BrowserClose, Announce, history, Reader, ReaderEnds,
           Draw
  <2>3. ReceiveUp \/ Flip \/ GuardRestart => UNCHANGED crossed
    BY DEF ReceiveUp, Flip, GuardRestart, guardElse
  <2>4. Relay \/ ReaderAnnounces \/ WriteKills \/ NetworkFault => UNCHANGED crossed
    BY DEF Relay, ReaderAnnounces, WriteKills, NetworkFault, history
  <2> QED
    BY <2>1, <2>2, <2>3, <2>4 DEF Next
<1>3. PICK d \in Id : Open(d) /\ Deliver(d, Head(back))
  BY <1>2 DEF sessions, ReceiveBack
<1>4. Head(back).action = "NONE" /\ p = <<"drawing", Head(back).data, d>>
      /\ Head(back).data # d
  BY <1>3 DEF Deliver, Cross
<1>5. back # <<>> /\ Head(back) \in Datagram
  BY <1>2, HeadTail DEF sessions, ReceiveBack, BridgeInv, TypeOK
<1> DEFINE c == Head(back).data
<1>6. c \in Id /\ Head(back) = None(ch, c)
  BY <1>4, <1>5, DatagramShape
<1>7. back \notin Seq(Datagram \ {None(ch, c)})
  BY <1>5, <1>6, HeadTail
<1>8. d \in early \/ ~Dependable(c)
  BY <1>3, <1>4, <1>6, <1>7 DEF DrawInv
<1> QED
  BY <1>4, <1>8, DependableStep

(* The invariants of sessions and drawings hold together.                   *)
LEMMA DrawingInvariant == Spec => [](SessionInv /\ DrawInv /\ OwnDrawing)
<1> DEFINE Inv == SessionInv /\ DrawInv /\ OwnDrawing
<1>1. Init => Inv
  BY DEF Init, SessionInv, DrawInv, OwnDrawing, Has, Open
<1>2. BridgeInv /\ Turns /\ Inv /\ [Next]_vars => Inv'
  <2> SUFFICES ASSUME BridgeInv, Turns, Inv, [Next]_vars PROVE Inv'
    OBVIOUS
  <2>1. CASE Next
    <3>1. SessionInv'
      <4>1. ~Has(relaying', Shut) /\ Shut' = Shut
        BY <2>1, RelayingStep DEF SessionInv, Shut
      <4> QED
        BY <2>1, <4>1, OpenStep, ClosedStep DEF SessionInv
    <3> QED
      BY <2>1, <3>1, DrawStep, OwnDrawingStep
  <2>2. CASE UNCHANGED vars
    <3>1. UNCHANGED <<conn, approved, bound, readers, announcing, relaying, up, mid, back,
                      faults, early, heirs, misfired, crossed>>
      BY <2>2 DEF vars, sessions, links, history
    <3>2. \A c : /\ Dependable(c)' <=> Dependable(c)
                 /\ Open(c)' <=> Open(c)
                 /\ OpenInv(c) => OpenInv(c)'
                 /\ ClosedInv(c) => ClosedInv(c)'
      BY <3>1 DEF Dependable, Open, OpenInv, ClosedInv, Told, Shut, Grant
    <3>3. SessionInv'
      BY <3>1, <3>2 DEF SessionInv, Shut
    <3>4. DrawInv' /\ OwnDrawing'
      BY <3>1, <3>2 DEF DrawInv, OwnDrawing, Datagram
    <3> QED
      BY <3>3, <3>4
  <2> QED
    BY <2>1, <2>2
<1> QED
  BY <1>1, <1>2, BridgeInvariant, PayloadInvariant, PTL DEF Spec

(* On links that deliver: a browser that got the channel when it was        *)
(* drained, every reader that removed it having announced that, never sees  *)
(* what the session of a dependable predecessor drew, although gmlbroker    *)
(* posts every payload to whoever has the channel                           *)
(* (guacamole_send_handler.cpp 106-127).  A SHUTDOWN travels behind the     *)
(* predecessor's request, grant and session and closes it, and the channel  *)
(* is not drained before the predecessor's reader of the session has ended. *)
THEOREM OwnDrawingCorrect == Spec => []OwnDrawing
  BY DrawingInvariant, PTL

(* Once the channel is drained, a dependable connection that has left has   *)
(* no session in guacd: the quarantine of channeltable.h 45-58 does what it *)
(* is for when it outlasts the frames and the threads of the connection     *)
(* that had the channel before.                                             *)
NoSessionLeft ==
    \A c \in Id : Dependable(c) /\ Drained /\ conn[c] = "closed" => bound # c

(* A drained channel has no SHUTDOWN under way that would still be due for  *)
(* it, neither on a link nor in the hands of a reader that has removed the  *)
(* channel (guacamole_read_handler.cpp 278-287).                            *)
THEOREM NoSessionLeftCorrect == Spec => []NoSessionLeft
<1>1. SessionInv => NoSessionLeft
  BY DEF SessionInv, ClosedInv, NoSessionLeft, Drained, Has
<1> QED
  BY <1>1, DrawingInvariant, PTL

=============================================================================
