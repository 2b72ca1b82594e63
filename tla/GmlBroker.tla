----------------------------- MODULE GmlBroker ------------------------------
(***************************************************************************)
(* gmlbroker while it is running: the accept thread that allocates a       *)
(* channel for each browser connection and registers it, one detached      *)
(* guacamole_read_handler thread per connection, the guacamole_send_handler*)
(* thread that acts on what the bridge delivers, and the three shared      *)
(* registries (channel table, approvals, mailboxes), each under a mutex of *)
(* its own.  A step ends wherever another thread can intervene.            *)
(*                                                                         *)
(* The bridge may lose, repeat and delay datagrams, so the send handler    *)
(* takes any message at any time and recv_queue is not modelled; send_queue*)
(* is represented by what the bridge's far end will make of it, `session`. *)
(* NONE messages change none of this state: what a mailbox does with them  *)
(* is the subject of ChannelMailbox.                                       *)
(*                                                                         *)
(* A connection stands for its socket, its mailbox, its approval flag and  *)
(* its request id: the 12 random digits of make_request_id are taken to be *)
(* unique.                                                                 *)
(***************************************************************************)
EXTENDS Wire, RoundRobin

CONSTANTS
    Conn,          \* the connections that are ever made
    NoConn

ASSUME GmlAssumption ==
    /\ Channel = ChannelIds
    /\ Id = Conn
    /\ NoConn \notin Conn

VARIABLES
    table, next_channel,   \* ChannelTable
    owner, request_id,     \* ApprovalRegistry: whose flag the entry is, and its id
    mailboxes,             \* MailboxRegistry
    channelOf,    \* the channel of a connection
    approved,     \* the approval flag
    teardown,     \* the mailbox's teardown request: "no", "announce" or "silent"
    accept,       \* the accept thread: "accept", "allocate", "approvals", "mailboxes",
                  \* "spawn"
    accepted,     \* the connection it is registering
    reader,       \* the reader: "none", "start", "poll", "set", "create", then
                  \* "teardown1", "teardown2", "teardown3", "announce", "close", "gone"
    phase,        \* "handshake", "established" (waiting screen), "replayed"
    flag,         \* whose approval flag and mailbox the reader holds
    mailbox,
    announce,     \* will the reader announce SHUTDOWN?
    handler,      \* the send handler: "idle", "arm", "deny", "request"
    msg,          \* the message it is handling
    target,       \* the connection it found in a registry
    filters,      \* the connection a channel's return filter was armed for
    session,      \* history: whose CREATE stands on the bridge, not followed by SHUTDOWN
    granted,      \* history: the request ids of the approvals received
    ended,        \* history: the connections that a peer's SHUTDOWN reached
    hasty         \* history: the connections whose channel was allocated while a
                  \* thread was still at work for an earlier connection on it

registries == <<table, next_channel, owner, request_id, mailboxes>>
acceptVars == <<accept, accepted, channelOf>>
readerVars == <<reader, phase, flag, mailbox, announce>>
handlerVars == <<handler, msg, target, filters>>
history == <<session, granted, ended, hasty>>
vars == <<registries, acceptVars, readerVars, handlerVars, approved, teardown,
          history>>

(* What msg holds while the handler waits.                                  *)
NoMessage == Shutdown(0)

Init ==
    /\ table = [ch \in Channel |-> NoConn]
    /\ next_channel = 0
    /\ owner = [ch \in Channel |-> NoConn]
    /\ request_id = [ch \in Channel |-> NoConn]
    /\ mailboxes = [ch \in Channel |-> NoConn]
    /\ channelOf = [c \in Conn |-> 0]
    /\ approved = [c \in Conn |-> FALSE]
    /\ teardown = [c \in Conn |-> "no"]
    /\ accept = "accept"
    /\ accepted = NoConn
    /\ reader = [c \in Conn |-> "none"]
    /\ phase = [c \in Conn |-> "handshake"]
    /\ flag = [c \in Conn |-> NoConn]
    /\ mailbox = [c \in Conn |-> NoConn]
    /\ announce = [c \in Conn |-> TRUE]
    /\ handler = "idle"
    /\ msg = NoMessage
    /\ target = NoConn
    /\ filters = [ch \in Channel |-> NoConn]
    /\ session = [ch \in Channel |-> NoConn]
    /\ granted = {}
    /\ ended = {}
    /\ hasty = {}

-----------------------------------------------------------------------------
(* The accept thread.                                                       *)

Accept(c) ==
    /\ accept = "accept" /\ reader[c] = "none"
    /\ accept' = "allocate"
    /\ accepted' = c
    /\ UNCHANGED <<registries, channelOf, readerVars, handlerVars, approved,
                   teardown, history>>

(* No thread is still at work for an earlier connection on ch.              *)
Settled(ch) ==
    /\ \A c \in Conn : reader[c] \in {"announce", "close"} => channelOf[c] # ch
    /\ handler # "idle" => msg.channel # ch

Allocate ==
    /\ accept = "allocate"
    /\ LET free == {ch \in Channel : table[ch] = NoConn}
           ch == NextFree(free, next_channel)
       IN  /\ free # {}
           /\ table' = [table EXCEPT ![ch] = accepted]
           /\ next_channel' = After(ch)
           /\ channelOf' = [channelOf EXCEPT ![accepted] = ch]
           /\ hasty' = IF Settled(ch) THEN hasty ELSE hasty \cup {accepted}
    /\ accept' = "approvals"
    /\ UNCHANGED <<owner, request_id, mailboxes, accepted, readerVars,
                   handlerVars, approved, teardown, session, granted, ended>>

(* The table is full: the client is rejected and its socket closed.         *)
AllocateFails ==
    /\ accept = "allocate"
    /\ \A ch \in Channel : table[ch] # NoConn
    /\ accept' = "accept"
    /\ accepted' = NoConn
    /\ reader' = [reader EXCEPT ![accepted] = "gone"]
    /\ UNCHANGED <<registries, channelOf, phase, flag, mailbox, announce,
                   handlerVars, approved, teardown, history>>

(* approvals.Create: a new flag, and no request id yet.                     *)
CreateApproval ==
    /\ accept = "approvals"
    /\ owner' = [owner EXCEPT ![channelOf[accepted]] = accepted]
    /\ request_id' = [request_id EXCEPT ![channelOf[accepted]] = NoConn]
    /\ accept' = "mailboxes"
    /\ UNCHANGED <<table, next_channel, mailboxes, accepted, channelOf,
                   readerVars, handlerVars, approved, teardown, history>>

CreateMailbox ==
    /\ accept = "mailboxes"
    /\ mailboxes' = [mailboxes EXCEPT ![channelOf[accepted]] = accepted]
    /\ accept' = "spawn"
    /\ UNCHANGED <<table, next_channel, owner, request_id, accepted, channelOf,
                   readerVars, handlerVars, approved, teardown, history>>

SpawnReader ==
    /\ accept = "spawn"
    /\ reader' = [reader EXCEPT ![accepted] = "start"]
    /\ accept' = "accept"
    /\ accepted' = NoConn
    /\ UNCHANGED <<registries, channelOf, phase, flag, mailbox, announce,
                   handlerVars, approved, teardown, history>>

Register ==
    Allocate \/ AllocateFails \/ CreateApproval \/ CreateMailbox \/ SpawnReader

-----------------------------------------------------------------------------
(* The reader of connection c.                                              *)

Move(c, from, to) ==
    /\ reader[c] = from
    /\ reader' = [reader EXCEPT ![c] = to]

(* approvals.Flag and mailboxes.Get.                                        *)
ReaderStarts(c) ==
    /\ Move(c, "start", "poll")
    /\ flag' = [flag EXCEPT ![c] = owner[channelOf[c]]]
    /\ mailbox' = [mailbox EXCEPT ![c] = mailboxes[channelOf[c]]]
    /\ UNCHANGED <<registries, acceptVars, phase, announce, handlerVars,
                   approved, teardown, history>>

(* HandshakeForger::Feed is given the browser's connect, the last            *)
(* instruction of the forged handshake, and answers with the waiting screen.*)
Establish(c) ==
    /\ Move(c, "poll", "set")
    /\ phase[c] = "handshake"
    /\ phase' = [phase EXCEPT ![c] = "established"]
    /\ UNCHANGED <<registries, acceptVars, flag, mailbox, announce, handlerVars,
                   approved, teardown, history>>

SetRequestId(c, from, to) ==
    /\ Move(c, from, to)
    /\ request_id' = IF owner[channelOf[c]] # NoConn
                     THEN [request_id EXCEPT ![channelOf[c]] = c]
                     ELSE request_id
    /\ UNCHANGED <<table, next_channel, owner, mailboxes, acceptVars, phase,
                   flag, mailbox, announce, handlerVars, approved, teardown,
                   history>>

(* The inert CREATE goes onto send_queue.                                   *)
SendCreate(c, from, to) ==
    /\ Move(c, from, to)
    /\ session' = [session EXCEPT ![channelOf[c]] = c]
    /\ UNCHANGED <<registries, acceptVars, phase, flag, mailbox, announce,
                   handlerVars, approved, teardown, granted, ended, hasty>>

(* The id is registered before the request is sent.                         *)
RequestApproval(c) ==
    SetRequestId(c, "set", "create") \/ SendCreate(c, "create", "poll")

(* Mutant: the approval flag is only looked at during the handshake.        *)
maybe_replay_InHandshake(c) ==
    /\ reader[c] = "poll" /\ phase[c] = "handshake"
    /\ flag[c] # NoConn /\ approved[flag[c]]
    /\ phase' = [phase EXCEPT ![c] = "replayed"]
    /\ UNCHANGED <<registries, acceptVars, reader, flag, mailbox, announce,
                   handlerVars, approved, teardown, history>>

(* Approved, and poll timed out or browser input came: replay the captured  *)
(* handshake.  From then on browser input is piped; before, it is dropped.  *)
maybe_replay(c) ==
    /\ reader[c] = "poll" /\ phase[c] = "established"
    /\ flag[c] # NoConn /\ approved[flag[c]]
    /\ phase' = [phase EXCEPT ![c] = "replayed"]
    /\ UNCHANGED <<registries, acceptVars, reader, flag, mailbox, announce,
                   handlerVars, approved, teardown, history>>

(* Mutant: the teardown request is only looked at on browser input.         *)
Drain_OnInput(c) ==
    /\ Move(c, "poll", "teardown1")
    /\ phase[c] = "replayed"
    /\ mailbox[c] # NoConn /\ teardown[mailbox[c]] # "no"
    /\ announce' = [announce EXCEPT ![c] = teardown[mailbox[c]] = "announce"]
    /\ UNCHANGED <<registries, acceptVars, phase, flag, mailbox, handlerVars,
                   approved, teardown, history>>

(* mailbox->Drain finds a teardown request.                                 *)
Drain(c) ==
    /\ Move(c, "poll", "teardown1")
    /\ mailbox[c] # NoConn /\ teardown[mailbox[c]] # "no"
    /\ announce' = [announce EXCEPT ![c] = teardown[mailbox[c]] = "announce"]
    /\ UNCHANGED <<registries, acceptVars, phase, flag, mailbox, handlerVars,
                   approved, teardown, history>>

(* The browser closed, a socket call failed or the handshake is corrupted.  *)
ReaderBreaks(c) ==
    /\ Move(c, "poll", "teardown1")
    /\ UNCHANGED <<registries, acceptVars, phase, flag, mailbox, announce,
                   handlerVars, approved, teardown, history>>

RemoveApproval(c, from, to) ==
    /\ Move(c, from, to)
    /\ owner' = [owner EXCEPT ![channelOf[c]] = NoConn]
    /\ request_id' = [request_id EXCEPT ![channelOf[c]] = NoConn]
    /\ UNCHANGED <<table, next_channel, mailboxes, acceptVars, phase, flag,
                   mailbox, announce, handlerVars, approved, teardown, history>>

RemoveMailbox(c, from, to) ==
    /\ Move(c, from, to)
    /\ mailboxes' = [mailboxes EXCEPT ![channelOf[c]] = NoConn]
    /\ UNCHANGED <<table, next_channel, owner, request_id, acceptVars, phase,
                   flag, mailbox, announce, handlerVars, approved, teardown,
                   history>>

RemoveChannel(c, from, to) ==
    /\ Move(c, from, to)
    /\ table' = [table EXCEPT ![channelOf[c]] = NoConn]
    /\ UNCHANGED <<next_channel, owner, request_id, mailboxes, acceptVars, phase,
                   flag, mailbox, announce, handlerVars, approved, teardown,
                   history>>

(* Mutant: the channel is given back before its other entries are removed.  *)
Unregister_ChannelFirst(c) ==
    \/ RemoveChannel(c, "teardown1", "teardown2")
    \/ RemoveApproval(c, "teardown2", "teardown3")
    \/ RemoveMailbox(c, "teardown3", "announce")

(* The channel is given back last, so that what is removed is still c's.    *)
Unregister(c) ==
    \/ RemoveApproval(c, "teardown1", "teardown2")
    \/ RemoveMailbox(c, "teardown2", "teardown3")
    \/ RemoveChannel(c, "teardown3", "announce")

Announce(c) ==
    /\ Move(c, "announce", "close")
    /\ session' = IF announce[c] THEN [session EXCEPT ![channelOf[c]] = NoConn]
                                 ELSE session
    /\ UNCHANGED <<registries, acceptVars, phase, flag, mailbox, announce,
                   handlerVars, approved, teardown, granted, ended, hasty>>

Close(c) ==
    /\ Move(c, "close", "gone")
    /\ UNCHANGED <<registries, acceptVars, phase, flag, mailbox, announce,
                   handlerVars, approved, teardown, history>>

ReaderStep(c) ==
    \/ ReaderStarts(c) \/ RequestApproval(c) \/ maybe_replay(c) \/ Drain(c)
    \/ Unregister(c) \/ Announce(c) \/ Close(c)

-----------------------------------------------------------------------------
(* The send handler.                                                        *)

(* gcdbroker relays verdicts and sends SHUTDOWN; stale and repeated ones    *)
(* included.                                                                *)
Inbound ==
    {Shutdown(ch) : ch \in Channel}
    \cup [action : {"APPROVAL"}, channel : Channel,
          verdict : {APPROVAL_APPROVE, APPROVAL_DENY}, data : Id]

Done == handler' = "idle" /\ msg' = NoMessage /\ target' = NoConn

(* Has the entry of f's channel the request id that f carries?              *)
Matches(f) == owner[f.channel] # NoConn /\ request_id[f.channel] = f.data

HandleShutdown(f) ==
    /\ f.action = "SHUTDOWN"
    /\ filters' = [filters EXCEPT ![f.channel] = NoConn]
    /\ IF mailboxes[f.channel] # NoConn
       THEN handler' = "request" /\ msg' = f /\ target' = mailboxes[f.channel]
       ELSE UNCHANGED <<handler, msg, target>>
    /\ UNCHANGED <<approved, granted>>

(* Mutant: any verdict approves the channel's current occupant.             *)
HandleApproval_AnyId(f) ==
    /\ f.action = "APPROVAL" /\ f.verdict = APPROVAL_APPROVE
    /\ granted' = granted \cup {f.data}
    /\ IF owner[f.channel] # NoConn
       THEN /\ approved' = [approved EXCEPT ![owner[f.channel]] = TRUE]
            /\ handler' = "arm" /\ msg' = f /\ target' = owner[f.channel]
       ELSE UNCHANGED <<approved, handler, msg, target>>
    /\ UNCHANGED filters

(* approvals.Approve tests the id and sets the flag under one lock.         *)
HandleApproval(f) ==
    /\ f.action = "APPROVAL" /\ f.verdict = APPROVAL_APPROVE
    /\ granted' = granted \cup {f.data}
    /\ IF Matches(f)
       THEN /\ approved' = [approved EXCEPT ![owner[f.channel]] = TRUE]
            /\ handler' = "arm" /\ msg' = f /\ target' = owner[f.channel]
       ELSE UNCHANGED <<approved, handler, msg, target>>
    /\ UNCHANGED filters

(* Mutant: a denial is not matched to the outstanding request.              *)
HandleDenial_AnyId(f) ==
    /\ f.action = "APPROVAL" /\ f.verdict # APPROVAL_APPROVE
    /\ handler' = "deny" /\ msg' = f /\ target' = NoConn
    /\ UNCHANGED <<approved, granted, filters>>

HandleDenial(f) ==
    /\ f.action = "APPROVAL" /\ f.verdict # APPROVAL_APPROVE
    /\ IF Matches(f) THEN handler' = "deny" /\ msg' = f /\ target' = NoConn
                     ELSE UNCHANGED <<handler, msg, target>>
    /\ UNCHANGED <<approved, granted, filters>>

Take(f) ==
    /\ handler = "idle"
    /\ HandleShutdown(f) \/ HandleApproval(f) \/ HandleDenial(f)
    /\ UNCHANGED <<registries, acceptVars, readerVars, teardown, session, ended,
                   hasty>>

(* Mutant: an existing return filter is kept.                               *)
ArmFilter_Keeps ==
    /\ handler = "arm"
    /\ filters' = IF filters[msg.channel] = NoConn
                  THEN [filters EXCEPT ![msg.channel] = target] ELSE filters
    /\ Done
    /\ UNCHANGED <<registries, acceptVars, readerVars, approved, teardown, history>>

(* A new ReturnFilter for the approved connection.                          *)
ArmFilter ==
    /\ handler = "arm"
    /\ filters' = [filters EXCEPT ![msg.channel] = target]
    /\ Done
    /\ UNCHANGED <<registries, acceptVars, readerVars, approved, teardown, history>>

(* A matched denial looks up the mailbox, in a second critical section.     *)
FindDenied ==
    /\ handler = "deny"
    /\ IF mailboxes[msg.channel] # NoConn
       THEN handler' = "request" /\ msg' = msg /\ target' = mailboxes[msg.channel]
       ELSE Done
    /\ UNCHANGED <<registries, acceptVars, readerVars, filters, approved,
                   teardown, history>>

(* Mutant: a denied connection is torn down without telling the peer.       *)
RequestTeardown_Silent ==
    /\ handler = "request"
    /\ teardown' = [teardown EXCEPT ![target] = "silent"]
    /\ ended' = IF msg.action = "SHUTDOWN" THEN ended \cup {target} ELSE ended
    /\ Done
    /\ UNCHANGED <<registries, acceptVars, readerVars, filters, approved,
                   session, granted, hasty>>

(* For a denial the denied screen is posted first, and the close announced. *)
RequestTeardown ==
    /\ handler = "request"
    /\ IF msg.action = "SHUTDOWN"
       THEN /\ teardown' = [teardown EXCEPT ![target] = "silent"]
            /\ ended' = ended \cup {target}
       ELSE /\ teardown' = [teardown EXCEPT ![target] = "announce"]
            /\ UNCHANGED ended
    /\ Done
    /\ UNCHANGED <<registries, acceptVars, readerVars, filters, approved,
                   session, granted, hasty>>

HandlerStep == ArmFilter \/ FindDenied \/ RequestTeardown

-----------------------------------------------------------------------------
Next ==
    \/ Register
    \/ \E f \in Inbound : Take(f)
    \/ HandlerStep
    \/ \E c \in Conn :
          Accept(c) \/ Establish(c) \/ ReaderBreaks(c) \/ ReaderStep(c)

Spec == Init /\ [][Next]_vars

(* The threads are scheduled, and poll times out: nothing is posted to a    *)
(* connection that is not yet replayed but a teardown, so its reader gets   *)
(* to the idle branch.  A browser that stops reading, so that a write to it *)
(* blocks, is not modelled here.                                            *)
FairSpec ==
    /\ Spec
    /\ WF_vars(Register)
    /\ WF_vars(HandlerStep)
    /\ \A c \in Conn : WF_vars(ReaderStep(c))

-----------------------------------------------------------------------------
(* Properties.                                                              *)

(* The reader of c is running, and not yet tearing down.                    *)
Serving(c) == reader[c] \in {"start", "poll", "set", "create"}

(* Every variable stays in its range; the handler never acts on a mailbox   *)
(* or a flag that it did not find.                                          *)
TypeOK ==
    /\ table \in [Channel -> Conn \cup {NoConn}]
    /\ next_channel \in Channel
    /\ owner \in [Channel -> Conn \cup {NoConn}]
    /\ request_id \in [Channel -> Conn \cup {NoConn}]
    /\ mailboxes \in [Channel -> Conn \cup {NoConn}]
    /\ channelOf \in [Conn -> Channel]
    /\ approved \in [Conn -> BOOLEAN]
    /\ teardown \in [Conn -> {"no", "announce", "silent"}]
    /\ accept \in {"accept", "allocate", "approvals", "mailboxes", "spawn"}
    /\ accepted \in Conn \cup {NoConn}
    /\ accept # "accept" => accepted \in Conn
    /\ reader \in [Conn -> {"none", "start", "poll", "set", "create", "teardown1",
                            "teardown2", "teardown3", "announce", "close", "gone"}]
    /\ phase \in [Conn -> {"handshake", "established", "replayed"}]
    /\ flag \in [Conn -> Conn \cup {NoConn}]
    /\ mailbox \in [Conn -> Conn \cup {NoConn}]
    /\ announce \in [Conn -> BOOLEAN]
    /\ handler \in {"idle", "arm", "deny", "request"}
    /\ msg \in Frame
    /\ target \in Conn \cup {NoConn}
    /\ handler \in {"arm", "request"} => target \in Conn
    /\ filters \in [Channel -> Conn \cup {NoConn}]
    /\ session \in [Channel -> Conn \cup {NoConn}]
    /\ granted \subseteq Id
    /\ ended \subseteq Conn
    /\ hasty \subseteq Conn

(* As long as a connection is served, all three registries route its        *)
(* channel to it, "so the guacamole_send thread can always route to it":    *)
(* an earlier connection on the channel, still tearing down, removes none   *)
(* of its entries.  A request that is on its way is registered under its id *)
(* too, so the verdict cannot arrive too early to be matched.               *)
RegisteredWhileServed ==
    \A c \in Conn : Serving(c) =>
        /\ table[channelOf[c]] = c
        /\ owner[channelOf[c]] = c
        /\ mailboxes[channelOf[c]] = c
        /\ session[channelOf[c]] = c => request_id[channelOf[c]] = c

(* No Guacamole traffic of a connection crosses the bridge unless an        *)
(* approval that names that very connection's request id was received: a    *)
(* stale verdict does not approve the next connection on its channel.       *)
PipesOnlyApproved == \A c \in Conn : phase[c] = "replayed" => c \in granted

(* Return traffic of an approved connection passes a filter that was armed  *)
(* for it, not for an earlier connection on the channel.                    *)
FilterArmed ==
    \A c \in Conn :
        Serving(c) /\ approved[c] /\ teardown[c] = "no" /\ handler = "idle" =>
            filters[channelOf[c]] = c

(* A connection that closes and leaves its CREATE standing, without a       *)
(* SHUTDOWN, was ended by the peer's own SHUTDOWN.                          *)
SilentOnlyToPeer ==
    \A c \in Conn :
        reader[c] = "close" /\ session[channelOf[c]] = c => c \in ended

(* A connection that has asked for approval and is still served has not     *)
(* been shut down on the bridge: the SHUTDOWN of an earlier connection on   *)
(* its channel went out before its CREATE ("Delaying reuse lets the old     *)
(* frames drain first").  Only for a connection that got its channel when   *)
(* no thread was still at work for an earlier one: a reader gives its       *)
(* channel back before it queues its SHUTDOWN.                              *)
SettledSessionIntact ==
    \A c \in Conn \ hasty :
        reader[c] = "poll" /\ phase[c] # "handshake" => session[channelOf[c]] = c

(* A denial tears down the connection whose request it answers, unless the  *)
(* channel changed hands while the denial was being handled.                *)
DenialHitsItsRequest ==
    handler = "request" /\ msg.action = "APPROVAL" /\ target \notin hasty =>
        target = msg.data

(* "Delaying reuse lets the old frames drain first": of no connection that  *)
(* has asked for approval and is still served has a SHUTDOWN gone out after *)
(* its CREATE, whenever it got its channel.  Refuted: the channel is given  *)
(* back before the SHUTDOWN is queued (guacamole_read_handler.cpp 278-287). *)
SessionIntact ==
    \A c \in Conn :
        reader[c] = "poll" /\ phase[c] # "handshake" => session[channelOf[c]] = c

(* "Match the verdict to the outstanding request before acting": the        *)
(* connection that a denial tears down is the one that it answers.          *)
(* Refuted: the channel may change hands between Matches and Get            *)
(* (guacamole_send_handler.cpp 87-97).                                      *)
DenialIsOwn ==
    handler = "request" /\ msg.action = "APPROVAL" => target = msg.data

(* A teardown request ends the connection.                                  *)
AskedIsClosed ==
    \A c \in Conn : (Serving(c) /\ teardown[c] # "no") ~> reader[c] = "gone"

(* An approved connection gets its handshake replayed, or ends.             *)
ApprovedIsPiped ==
    \A c \in Conn : (Serving(c) /\ approved[c]) ~> (phase[c] = "replayed" \/ ~Serving(c))

=============================================================================
