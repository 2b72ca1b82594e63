-------------------------------- MODULE Bridge ------------------------------
(***************************************************************************)
(* gmlbroker, the guard and gcdbroker together, on one channel that        *)
(* several browser connections use one after the other.  The three         *)
(* processes share nothing but the three UDP links, which may lose, repeat *)
(* and reorder datagrams.  A message that is handled is one step here, but *)
(* a reader that ends takes two: it removes the channel, and announces     *)
(* that later, when the channel may have gone to another connection.  What *)
(* else the threads of a process do to each other is the matter of the     *)
(* modules of the processes.                                               *)
(*                                                                         *)
(* A connection is named by its request id.                                *)
(***************************************************************************)
EXTENDS Wire, FiniteSets

CONSTANTS ch,         \* the channel
          NoConn,     \* no connection
          MaxFaults,  \* bound: datagrams lost, repeated or overtaken, failed
                      \* writes to guacd, and restarts that lose datagrams
          MaxDrawn    \* bound: drawings of a connection on the way at a time

ASSUME BridgeAssumption ==
    /\ NoConn \notin Id
    /\ MaxFaults \in Nat /\ MaxDrawn \in Nat

VARIABLES
    conn,       \* gmlbroker: how far each connection is
    approve,    \* the guard's switch
    approved,   \* whose request the guard's approval of the channel stands for
    bound,      \* gcdbroker: whose guacd session the channel is bound to
    readers,    \* gcdbroker: how many readers each connection's sessions have
    announcing, \* gcdbroker: how many readers have removed the channel and have
                \* yet to announce that
    relaying,   \* gcdbroker's send handler: the verdict it has yet to relay
    up,         \* the link from gmlbroker to the guard
    mid,        \* the link from the guard to gcdbroker
    back,       \* the link from gcdbroker to gmlbroker
    faults,     \* how many faults may still happen
    granted,    \* history: requests the guard has approved
    early,      \* history: connections accepted before the frames and the
                \* threads of their predecessors were gone
    heirs,      \* history: connections accepted after that, but while the
                \* session of a predecessor was still open
    misfired,   \* history: connections that had the channel when the guard
                \* ended its approval of a predecessor's request
    crossed     \* history: <<"payload", c, d>> when the session of d got what c
                \* typed, <<"drawing", c, d>> when d saw what c's session drew

links == <<up, mid, back>>
history == <<granted, early, heirs, misfired, crossed>>
sessions == <<bound, readers, announcing>>
vars == <<conn, approve, approved, sessions, relaying, links, faults, history>>

Init ==
    /\ conn = [c \in Id |-> "new"]
    /\ approve = TRUE /\ approved = NoConn
    /\ bound = NoConn /\ readers = [c \in Id |-> 0] /\ announcing = 0
    /\ relaying = <<>>
    /\ up = <<>> /\ mid = <<>> /\ back = <<>>
    /\ faults = MaxFaults
    /\ granted = {} /\ early = {} /\ heirs = {} /\ misfired = {} /\ crossed = {}

-----------------------------------------------------------------------------
(* The links.                                                               *)

(* One of the faults the bound allows happens.                              *)
Fails == faults > 0 /\ faults' = faults - 1

(* link without its i-th datagram.                                          *)
Without(link, i) == SubSeq(link, 1, i - 1) \o SubSeq(link, i + 1, Len(link))

Lose(link, i) == Fails /\ link' = Without(link, i)

Repeat(link, i) == Fails /\ link' = Append(link, link[i])

(* The next datagram arrives before the i-th.                               *)
Overtake(link, i) ==
    /\ i + 1 \in DOMAIN link
    /\ Fails
    /\ link' = [link EXCEPT ![i] = link[i + 1], ![i + 1] = link[i]]

Fault(link) ==
    \E i \in DOMAIN link : Lose(link, i) \/ Repeat(link, i) \/ Overtake(link, i)

NetworkFault ==
    /\ \/ Fault(up) /\ UNCHANGED <<mid, back>>
       \/ Fault(mid) /\ UNCHANGED <<up, back>>
       \/ Fault(back) /\ UNCHANGED <<up, mid>>
    /\ UNCHANGED <<conn, approve, approved, sessions, relaying, history>>

(* Nothing is on the links, and no thread has something to send that is not *)
(* of the session the channel is bound to.                                  *)
Drained ==
    /\ up = <<>> /\ mid = <<>> /\ back = <<>>
    /\ \A c \in Id : conn[c] # "leaving"
    /\ relaying = <<>> /\ announcing = 0
    /\ \A c \in Id : readers[c] > 0 => c = bound

(* A payload of one connection that reaches another is recorded.            *)
Cross(kind, from, to) ==
    crossed' = IF from = to THEN crossed ELSE crossed \cup {<<kind, from, to>>}

-----------------------------------------------------------------------------
(* gmlbroker.                                                               *)

Open(c) == conn[c] \in {"open", "asked", "piped"}

Free == \A c \in Id : ~Open(c)

gmlElse == <<approve, approved, sessions, relaying, mid, back, faults>>

(* A browser connects and gets the channel.                                 *)
Accept(c) ==
    /\ conn[c] = "new" /\ Free
    /\ c = CHOOSE d \in Id : conn[d] = "new"   \* names are all the same
    /\ conn' = [conn EXCEPT ![c] = "open"]
    /\ early' = IF Drained THEN early ELSE early \cup {c}
    /\ heirs' = IF Drained /\ bound # NoConn THEN heirs \cup {c} ELSE heirs
    /\ UNCHANGED <<up, granted, misfired, crossed, gmlElse>>

(* Its handshake is complete: the request goes out.                         *)
Ask(c) ==
    /\ conn[c] = "open"
    /\ conn' = [conn EXCEPT ![c] = "asked"]
    /\ up' = Append(up, Create(ch, c))
    /\ UNCHANGED <<history, gmlElse>>

(* Input of an approved connection, one datagram on the way at a time.      *)
Type(c) ==
    /\ conn[c] = "piped"
    /\ \A link \in {up, mid} : \A i \in DOMAIN link : link[i] # None(ch, c)
    /\ up' = Append(up, None(ch, c))
    /\ UNCHANGED <<conn, history, gmlElse>>

(* The browser, or its reader on an error, ends the connection: the channel *)
(* is removed and may be given to another from here on.                     *)
BrowserClose(c) ==
    /\ Open(c)
    /\ conn' = [conn EXCEPT ![c] = "leaving"]
    /\ UNCHANGED <<up, history, gmlElse>>

(* The reader that removed the channel announces it.                        *)
Announce(c) ==
    /\ conn[c] = "leaving"
    /\ conn' = [conn EXCEPT ![c] = "closed"]
    /\ up' = Append(up, Shutdown(ch))
    /\ UNCHANGED <<history, gmlElse>>

(* A denial makes the reader end the connection, as above.                  *)
ApplyVerdict(c, v) ==
    conn' = [conn EXCEPT ![c] = IF v = APPROVAL_APPROVE THEN "piped" ELSE "leaving"]

(* Mutant: any verdict is taken for the one that is waited for.             *)
OnVerdict_AnyId(c, f) ==
    IF conn[c] # "open" THEN ApplyVerdict(c, f.verdict) ELSE UNCHANGED conn

(* A verdict takes effect on the request it names and on no other.          *)
OnVerdict(c, f) ==
    IF conn[c] # "open" /\ f.data = c
    THEN ApplyVerdict(c, f.verdict)
    ELSE UNCHANGED conn

(* What a datagram from gcdbroker does to the connection on the channel.    *)
Deliver(c, f) ==
    \/ /\ f.action = "SHUTDOWN"
       /\ conn' = [conn EXCEPT ![c] = "closed"]
       /\ UNCHANGED crossed
    \/ f.action = "APPROVAL" /\ OnVerdict(c, f) /\ UNCHANGED crossed
    \/ f.action = "NONE" /\ Cross("drawing", f.data, c) /\ UNCHANGED conn

ReceiveBack ==
    /\ back # <<>>
    /\ back' = Tail(back)
    /\ \/ \E c \in Id : Open(c) /\ Deliver(c, Head(back))
       \/ Free /\ UNCHANGED <<conn, crossed>>
    /\ UNCHANGED <<approve, approved, sessions, relaying, up, mid, faults, granted,
                   early, heirs, misfired>>

-----------------------------------------------------------------------------
(* The guard.                                                               *)

guardElse == <<conn, sessions, relaying, back, early, heirs, crossed>>

(* The request is decided; CREATE and verdict are sent on.                  *)
Decide(f) ==
    /\ IF approve
       THEN /\ approved' = f.data
            /\ mid' = mid \o <<f, Approval(ch, APPROVAL_APPROVE, f.data)>>
            /\ granted' = granted \cup {f.data}
       ELSE /\ approved' = NoConn
            /\ mid' = mid \o <<f, Approval(ch, APPROVAL_DENY, f.data), Shutdown(ch)>>
            /\ UNCHANGED granted
    /\ UNCHANGED misfired

HandleShutdown(f) ==
    /\ approved' = NoConn
    /\ mid' = Append(mid, f)
    /\ UNCHANGED <<granted, misfired>>

(* The guard ends a session of its own accord.                              *)
TearDown ==
    /\ approved' = NoConn
    /\ mid' = Append(mid, Shutdown(ch))
    /\ misfired' = misfired \cup {c \in Id : Open(c) /\ c # approved}
    /\ UNCHANGED granted

Unmoved == UNCHANGED <<approved, mid, granted, misfired>>

Forward(f) ==
    /\ mid' = Append(mid, f)
    /\ UNCHANGED <<approved, granted, misfired>>

(* A payload is dropped or cut out whole, forwarded, or found to be corrupt.*)
HandleNone(f) ==
    \/ Unmoved
    \/ approved # NoConn /\ Forward(f)
    \/ approved # NoConn /\ TearDown

ReceiveUp ==
    /\ up # <<>>
    /\ up' = Tail(up)
    /\ \/ Head(up).action = "CREATE" /\ Decide(Head(up))
       \/ Head(up).action = "SHUTDOWN" /\ HandleShutdown(Head(up))
       \/ Head(up).action = "NONE" /\ HandleNone(Head(up))
    /\ UNCHANGED <<approve, faults, guardElse>>

(* Every approved channel is torn down.                                     *)
EndApproval == IF approved # NoConn THEN TearDown ELSE Unmoved

(* The operator turns the switch; a deny disconnects a running session.     *)
Flip ==
    /\ approve' = ~approve
    /\ IF approve THEN EndApproval ELSE Unmoved
    /\ UNCHANGED <<up, faults, guardElse>>

(* SIGTERM: the session is announced as ended, the process is started anew, *)
(* and what its receive socket held may be gone.                            *)
GuardRestart ==
    /\ approve' = TRUE
    /\ EndApproval
    /\ \/ UNCHANGED <<up, faults>>
       \/ Fails /\ up' = <<>>
    /\ UNCHANGED guardElse

-----------------------------------------------------------------------------
(* gcdbroker and guacd.                                                     *)

gcdElse == <<conn, approve, approved, up, granted, early, heirs, misfired>>

(* guacd cannot be reached, or the channel has a session already: the       *)
(* verdict is turned into a denial.                                         *)
DialFails(id) ==
    /\ relaying' = <<Approval(ch, APPROVAL_DENY, id)>>
    /\ UNCHANGED sessions

(* Mutant: whether the table took the connection is not looked at.          *)
Dial_Unchecked(id) ==
    /\ bound' = IF bound = NoConn THEN id ELSE bound
    /\ readers' = [readers EXCEPT ![id] = @ + 1]
    /\ relaying' = <<Approval(ch, APPROVAL_APPROVE, id)>>
    /\ UNCHANGED announcing

(* A session is opened.  Its reader runs from here on, and the verdict has  *)
(* still to be relayed.                                                     *)
Dial(id) ==
    /\ bound = NoConn
    /\ bound' = id
    /\ readers' = [readers EXCEPT ![id] = @ + 1]
    /\ relaying' = <<Approval(ch, APPROVAL_APPROVE, id)>>
    /\ UNCHANGED announcing

OnApproval(f) ==
    \/ f.verdict = APPROVAL_APPROVE /\ (Dial(f.data) \/ DialFails(f.data))
    \/ f.verdict = APPROVAL_DENY /\ relaying' = <<f>> /\ UNCHANGED sessions

(* Mutant: the session of the channel is left open.                         *)
OnShutdown_KeepsSession ==
    /\ back' = Append(back, Shutdown(ch))
    /\ UNCHANGED sessions

(* The session is taken off the channel and the teardown echoed; its reader *)
(* notices in its own time.                                                 *)
OnShutdown ==
    /\ bound' = NoConn
    /\ back' = Append(back, Shutdown(ch))
    /\ UNCHANGED <<readers, announcing>>

(* A payload for guacd.  When the write fails the session ends, and nobody  *)
(* is told.                                                                 *)
OnPayload(f) ==
    \/ bound = NoConn /\ UNCHANGED <<bound, crossed, faults>>
    \/ /\ bound # NoConn
       /\ Cross("payload", f.data, bound)
       /\ UNCHANGED <<bound, faults>>
    \/ /\ bound # NoConn /\ Fails
       /\ bound' = NoConn
       /\ UNCHANGED crossed

ReceiveMid ==
    /\ mid # <<>> /\ relaying = <<>>
    /\ mid' = Tail(mid)
    /\ \/ /\ Head(mid).action = "CREATE"
          /\ UNCHANGED <<sessions, relaying, back, crossed, faults>>
       \/ /\ Head(mid).action = "APPROVAL" /\ OnApproval(Head(mid))
          /\ UNCHANGED <<back, crossed, faults>>
       \/ /\ Head(mid).action = "SHUTDOWN" /\ OnShutdown
          /\ UNCHANGED <<relaying, crossed, faults>>
       \/ /\ Head(mid).action = "NONE" /\ OnPayload(Head(mid))
          /\ UNCHANGED <<readers, announcing, relaying, back>>
    /\ UNCHANGED gcdElse

(* The verdict goes out on the return path.                                 *)
Relay ==
    /\ relaying # <<>>
    /\ back' = back \o relaying
    /\ relaying' = <<>>
    /\ UNCHANGED <<sessions, mid, faults, crossed, gcdElse>>

(* A payload is written to a connection that guacd has closed: SIGPIPE ends *)
(* the process, which is started anew.  What its queues held is gone, and   *)
(* what its socket held may be.                                             *)
WriteKills ==
    /\ mid # <<>> /\ relaying = <<>> /\ Head(mid).action = "NONE"
    /\ bound # NoConn /\ Fails
    /\ bound' = NoConn /\ readers' = [c \in Id |-> 0] /\ announcing' = 0
    /\ mid' \in {Tail(mid), <<>>}
    /\ back' \in {back, <<>>}
    /\ UNCHANGED <<relaying, crossed, gcdElse>>

(* Mutant: the reader goes without a word.                                  *)
ReaderEnds_Silent(c) ==
    /\ readers[c] > 0
    /\ readers' = [readers EXCEPT ![c] = @ - 1]
    /\ bound' = NoConn
    /\ UNCHANGED <<announcing, relaying, mid, back, faults, crossed, gcdElse>>

(* guacd closes a connection, or it was shut: its reader takes whatever the *)
(* channel is bound to off it, and has to announce that if it was bound.    *)
ReaderEnds(c) ==
    /\ readers[c] > 0
    /\ readers' = [readers EXCEPT ![c] = @ - 1]
    /\ bound' = NoConn
    /\ announcing' = IF bound = NoConn THEN announcing ELSE announcing + 1
    /\ UNCHANGED <<relaying, mid, back, faults, crossed, gcdElse>>

ReaderAnnounces ==
    /\ announcing > 0
    /\ announcing' = announcing - 1
    /\ back' = Append(back, Shutdown(ch))
    /\ UNCHANGED <<bound, readers, relaying, mid, faults, crossed, gcdElse>>

(* A reader queues a drawing.  It may have received it before the session   *)
(* was taken off the channel.                                               *)
Draw(c) ==
    /\ readers[c] > 0
    /\ Cardinality({i \in DOMAIN back : back[i] = None(ch, c)}) < MaxDrawn
    /\ back' = Append(back, None(ch, c))
    /\ UNCHANGED <<sessions, relaying, mid, faults, crossed, gcdElse>>

-----------------------------------------------------------------------------
Browser(c) == Accept(c) \/ Ask(c) \/ Type(c) \/ BrowserClose(c) \/ Announce(c)

Reader(c) == ReaderEnds(c) \/ Draw(c)

Next ==
    \/ \E c \in Id : Browser(c) \/ Reader(c)
    \/ ReceiveUp \/ ReceiveMid \/ ReceiveBack \/ Relay \/ ReaderAnnounces
    \/ Flip \/ GuardRestart
    \/ WriteKills \/ NetworkFault

Spec == Init /\ [][Next]_vars

(* Every receive loop goes on receiving; the verdict is relayed and a       *)
(* removed channel announced by the next statements.  Nothing is assumed of *)
(* browsers, operator, guacd and network.                                   *)
FairSpec ==
    /\ Spec
    /\ WF_vars(ReceiveUp)
    /\ WF_vars(ReceiveMid)
    /\ WF_vars(ReceiveBack)
    /\ WF_vars(Relay)
    /\ WF_vars(ReaderAnnounces)
    /\ \A c \in Id : WF_vars(Announce(c))

-----------------------------------------------------------------------------
(* Properties.                                                              *)

(* What is on the links: everything but a SHUTDOWN names a connection.      *)
Datagram ==
    [action : {"NONE", "CREATE"}, channel : {ch}, verdict : {"-"}, data : Id]
    \cup [action : {"APPROVAL"}, channel : {ch},
          verdict : {APPROVAL_APPROVE, APPROVAL_DENY}, data : Id]
    \cup {Shutdown(ch)}

(* Every variable stays in its range.                                       *)
TypeOK ==
    /\ conn \in [Id -> {"new", "open", "asked", "piped", "leaving", "closed"}]
    /\ approve \in BOOLEAN
    /\ approved \in Id \cup {NoConn}
    /\ bound \in Id \cup {NoConn}
    /\ readers \in [Id -> Nat] /\ announcing \in Nat
    /\ relaying \in Seq(Datagram)
    /\ up \in Seq(Datagram) /\ mid \in Seq(Datagram) /\ back \in Seq(Datagram)
    /\ faults \in 0..MaxFaults
    /\ granted \subseteq Id /\ early \subseteq Id /\ heirs \subseteq Id
    /\ misfired \subseteq Id
    /\ crossed \subseteq {"payload", "drawing"} \X Id \X Id

(* A browser is piped through only when the guard approved its own request, *)
(* however the links lose, repeat and reorder, and whichever connection had *)
(* the channel before (guacamole_send_handler.cpp 73-80).                   *)
VerdictIsOwn == \A c \in Id : conn[c] = "piped" => c \in granted

(* guacd is dialled only for a request the guard approved, under the same   *)
(* faults (guacd_send_handler.cpp 61-76).                                   *)
SessionIsGranted == bound # NoConn => bound \in granted

(* Both ends of a session rest on the guard's approval of that session.     *)
ApprovalsAreOwn == VerdictIsOwn /\ SessionIsGranted

(* What a browser types reaches its own session or none, even when losses   *)
(* leave the session of an earlier connection open on the channel: the      *)
(* dial that finds the channel taken is answered with a denial.             *)
OwnPayload ==
    \A p \in crossed : p[1] = "payload" => p[2] \in early \/ p[3] \in early

(* c got the channel when its predecessors had left neither frames nor      *)
(* threads nor a session behind, and no approval but its own was ended      *)
(* since.                                                                   *)
Dependable(c) == faults = MaxFaults /\ c \notin early \cup heirs \cup misfired

(* On links that deliver, what a session draws is shown to its own browser. *)
(* gmlbroker posts every payload to whoever has the channel, approved or    *)
(* not (guacamole_send_handler.cpp 106-127), so this rests on the session   *)
(* being closed before the channel is drained.  Between the removal of a    *)
(* channel and its announcement (guacamole_read_handler.cpp 278-287) it is  *)
(* not, and who is accepted then may well see the session of another.       *)
OwnDrawing ==
    \A p \in crossed : p[1] = "drawing" => p[3] \in early \/ ~Dependable(p[2])

(* c waits for a verdict, is let through to no session of its own, or has   *)
(* left a session behind.                                                   *)
Unsettled(c) ==
    \/ conn[c] = "asked"
    \/ conn[c] = "piped" /\ (bound # c \/ approved # c)
    \/ conn[c] \in {"leaving", "closed"} /\ bound = c

(* On links that deliver, whatever guard, operator, browser and guacd do,   *)
(* every request is answered, a browser without a session is disconnected   *)
(* (also when guacd closes between the dial and the relay of the verdict,   *)
(* guacd_send_handler.cpp 75-92), and a session without a browser closed.   *)
Settles ==
    \A c \in Id : Unsettled(c) ~> (~Unsettled(c) \/ ~Dependable(c))

(* On links that deliver, a connection that got its channel when nothing of *)
(* its predecessors was on the way leaves no session behind ("Delaying      *)
(* reuse lets the old frames drain first", channeltable.h 45).              *)
NoOrphan ==
    \A c \in Id :
        faults = MaxFaults /\ c \notin early /\ Drained /\ conn[c] = "closed" => bound # c

=============================================================================
