# TLA+ models of guacamole-datadiode

The bridge carries Guacamole sessions across a pair of data diodes. A browser's
Guacamole web application connects to **gmlbroker**; traffic goes one way through
**gmguard** to **gcdbroker**, which talks to guacd; what guacd answers goes one way back
from gcdbroker to gmlbroker. All links of the bridge are UDP.

    browser/Guacamole --TCP--> gmlbroker --UDP--> gmguard --UDP--> gcdbroker --TCP--> guacd
                                   ^                                   |
                                   +----------------UDP----------------+

Every browser connection has a 16-bit channel. A connection begins with CREATE and a
random request id; the guard forwards the CREATE and adds an APPROVAL with its operator's
verdict; gcdbroker dials guacd if the verdict is "approve" and relays the (possibly
changed) verdict to gmlbroker, which until then has kept the browser on a waiting screen
with a forged handshake. NONE frames carry Guacamole, SHUTDOWN ends a channel.

The sources are under `src/proxies/`; paths below are relative to it.

## Inventory

| Component | State | Operations | What makes it correct |
|---|---|---|---|
| gmguard (`gmguard/src/main.cpp`, `approver.*`) | switch `approve_`, flag `deny_teardown`, `approved`, `parsers`, `poisoned`, `running` | handle CREATE, SHUTDOWN, NONE; poison a corrupted stream; flip the switch; tear all channels down after a deny; announce at exit | a deny leaves nothing open and takes effect at once; the containers agree; Guacamole passes only on channels announced as open |
| gcdbroker (`gcdbroker/src/nethandlers`) | channel table, connections, `recv_queue`, `send_queue`, a reader per connection | dial, relay, look up and write, shut down; read, keepalive, unbind, close | no payload reaches another channel's guacd though descriptors are recycled; each close is announced once; nothing leaks |
| gmlbroker (`gmlbroker/src/nethandlers`, `approval_registry`, `channel_mailbox`) | channel table, approval registry, mailbox registry, return filters, a reader per connection | accept and register; handshake, request approval, replay, drain, tear down; act on verdicts and SHUTDOWN | three registries agree while a connection is served; only approved traffic crosses; stale verdicts hit nobody |
| `ChannelMailbox` | outbox, teardown request, eventfd | Post, RequestTeardown, Drain | FIFO, no lost wake-up, the last screen is painted before the close |
| Broker stop (`*/src/main.cpp`, `reader_group.h`, `netqueue.h`) | `running`, closed flags of the queues, `ReaderGroup` | SIGINT; join, close, shut down, wait, close, join | main returns, and no thread outlives what it refers to |
| `ChannelTable` (`channeltable.h`) | bindings, round-robin cursor | Allocate, Insert, Get, Remove, Fds | the scan finds a free channel if there is one; reuse is spaced out |
| `Multiplexer` | none | Serialize, TryCast | round trip, rejection of what is not a frame |
| `OpcodeParser` and its subclasses (guard policy, keepalive filter, clipboard ack faker, return filter, handshake forger, sync faker) | position in the stream, open clipboard stream, what was observed | Parse with its hooks, Excise, Reset, Feed, Filter | only allowed instructions pass and nothing else is removed, however the stream is split into reads; replies that are faked are those that would be missing |
| The bridge as a whole | what each process believes of a channel, three links | all of the above across lossy links, restarts | approvals, payloads and drawings reach their own connection; the two sides agree in the end |

Interactions: the three processes exchange frames only. Within a process, threads share
the queues (mutex and condition variable), the tables and registries (one mutex each), an
eventfd per mailbox, `running`, and the sockets, which one thread may shut down while
another is blocked on them.

What is hard here, and what the properties are for: steps of two threads between two
critical sections (look-up and write, match and route, unbind and announce), descriptors
and channels that are reused while something stale still refers to them, late and repeated
verdicts, who announces a close, wake-ups, and a shutdown with detached threads.
Across processes: a guard that is not on the return path, control frames without
acknowledgement, and streams that TCP cuts where it likes. `PROJECT.json` lists these
hazards line by line with the properties that cover them, and says of each uncovered one why.

## Modules

| Module | Models |
|---|---|
| `Wire` | the frames the three processes exchange. A payload is what the guard's parser would make of it; a request id is a model value |
| `Guard` | gmguard's main loop, control thread, signal handler |
| `Gate` | abstract: what the guard promises the network behind it |
| `GcdBroker` | gcdbroker's send handler, its readers, the table and the queues |
| `GmlBroker` | gmlbroker's accept thread, its readers, its send handler and the registries |
| `ChannelMailbox` | one mailbox at the level of its mutex and its eventfd, with its reader's drain loop |
| `FifoMailbox` | abstract: a FIFO that stops |
| `BrokerStop` | start-up of readers and the stop protocol, for either broker |
| `Multiplexer` | the bytes of a datagram |
| `OpcodeParser` | the parser and its six subclasses, as operators on records |
| `Session` | the two streams of one connection through all parsers and filters, end to end |
| `Bridge` | the three processes and their links, on one channel |
| `RoundRobin`, `ChannelTable` | the allocation of channels; `RoundRobin` is shared with `GmlBroker` |
| `*_proofs` | theorems about the module of that name; `Stream_proofs` is about `Multiplexer`, `OpcodeParser` and `Session` |
| `MC*` | model values for TLC |

`Guard`, `GcdBroker`, `GmlBroker` and `Bridge` extend `Wire`; `Session` extends
`OpcodeParser` and `Multiplexer`; `GmlBroker` and `ChannelTable` extend `RoundRobin`;
`Guard` instantiates `Gate`, `ChannelMailbox` instantiates `FifoMailbox`.

**State and steps.** Variables keep the names of the code. A step ends wherever another
thread can intervene: at each critical section, queue call, socket call and shared flag.
`Bridge`, which has all three processes, is coarser (see there). Program counters (`main`,
`ctl`, `handler`, `reader`, `thread`) name the place between two steps. History variables are
marked as such; they never enable or disable a step.

- *Guard.* An iteration of the main loop is two steps, the exchange of `deny_teardown` and
  one datagram. A deny is two stores by the control thread. These and the main loop's reads
  are `memory_order_relaxed`, so C++ promises an order of the stores to each variable and
  none between the two: `approve` and `deny_teardown` are what the main loop finds, `unseen`
  and `flags` the stores that have yet to reach it, and those of either variable may come
  first (`ApproveSeen`, `FlagSeen`). `sent` holds the datagrams of the last step. The parser is
  `Parse`: it tells whole, split, disallowed and corrupt payloads apart, and `Excise` is what
  is left after disallowed instructions are cut out. The sender is not trusted, so any
  action may come in (`Inbound`); an APPROVAL takes the same branch as NONE, and what passes
  the parser is relayed under the action it came with. `Gate` has that too: it relays
  what others send, under any action, on open channels only.
- *GcdBroker.* `conn` is the kernel's side of a descriptor, which is handed out again once
  it is closed. Removing a binding, shutting its connection down (handler) and announcing the
  end (reader) are steps of their own. A write may fail on a healthy descriptor (guacd
  stalls past SO_SNDTIMEO) and, where guacd has gone away, kills the process by SIGPIPE, which
  is then started anew (`WriteKills`). A channel may be dialled again while its last reader is
  on the way out. `notice` records for each connection whether a SHUTDOWN was queued, whether
  a failed write unbound it first, and whether it was dialled in such haste.
- *GmlBroker.* The send handler takes any verdict or SHUTDOWN at any time, so losing,
  repeating and reordering on the return path are included. `session` is what the far
  end makes of the CREATEs and SHUTDOWNs queued so far. `hasty` marks the connections that
  got their channel while a thread was still at work for the channel's last one. Request
  ids (12 random digits) are taken to be unique.
- *ChannelMailbox.* Emptying the eventfd and taking the queue are separate steps, and so
  are the locked update and the eventfd write of the producer. The eventfd may be missing from
  the start (`event_fd` < 0), and the mailbox is used all the same.
- *BrokerStop.* Queues are counted. `broker`, chosen at the start, is "gml" (the accept
  thread starts the readers, which also write to the browser and may block there) or "gcd"
  (the handler starts them).
- *OpcodeParser.* A parser is a record with the members of the base class, its class and
  the members of the subclasses; the virtual hooks dispatch on the class. `ParseByte` is
  one iteration of the loop in `Parse`, `Call` the local variables of a call, and `Calls` the
  call after each symbol (`Stepwise`: every loop is a recursive function of the number of
  steps, which proofs can unfold). An observer starts
  afresh behind a symbol that corrupts its stream (`ObserveByte`, `Observed`). Streams
  are sequences of symbols: digits with their dot, a delimiter, any other byte. What a symbol
  means depends on where the parser is, so a number in a text is data, or a length
  to a parser that starts afresh before it. A read that ends
  within the digits of a length has the same effect as one that ends after the dot (the
  element has begun, its data have not), so lengths are not taken apart. An opcode or a
  stream index is one byte long. A length stands for the value that `current_length`, 64 bits
  wide, comes to; only a tolerant parser can be given enough digits to overflow it, and is then
  led astray like by any other wrong length.
- *Session.* One connection from its handshake on. Any number of symbols up to the payload
  limit may be read at a time, on both sides; each read becomes a datagram through
  `Serialize`, `Received` and `TryCast`, which may get lost. The links are FIFOs with one
  consumer, so a datagram is handled in the step that sends it. `Scenarios` are the pairs of
  streams that are fed in; what one step sends the guard reads one after the other, but for
  what is lost (`Relayed`). The operators from `DelimOf` to `CutsRefused` are
  the reference: they take whole streams apart by their lengths and apply the
  policy to whole instructions. They are sets of places in the stream, without any
  parser's state, and proofs compare them with the parser. `met` records what befell
  the streams (a refused instruction was cut, piping began inside one, a datagram was lost,
  an ack was made before guacd's ready), and the properties say under which of these what
  holds. guacd answers `select` with its args and `connect` with the rest (`Answered`). The
  web server is assumed to wait for args and ready, so that nothing follows `connect` in the
  read that completes the handshake.
- *Bridge.* A message that is handled is one step; connections that use the channel one after
  the other are named by their request ids. Where a channel is given up before that is
  announced there are two steps: gmlbroker's reader removes the channel (`BrowserClose`, or a
  denial) and is `"leaving"` until it queues its SHUTDOWN (`Announce`), and the channel
  may have a new connection by then; gcdbroker's reader does the same (`ReaderEnds`,
  `announcing`, `ReaderAnnounces`), and until it ends it may still queue what it has
  received (`Draw`), its session taken off the channel or not. `relaying` keeps the gap between
  dial and relay of the verdict, in which the new session's reader already runs. Still merged
  are a teardown that gmlbroker's send handler posts and its reader's removal of the channel
  (`ChannelMailbox` and `GmlBroker` are about that), and `recv` and the queueing of a drawing,
  the first of which changes nothing that is shared. Faults are counted down from
  `MaxFaults`: a datagram lost, repeated or overtaken, a failed write to guacd, a write
  that kills gcdbroker, a restart of the guard that loses what its socket held. `early`
  marks connections that got the channel while datagrams were under way on it or a thread had
  still to announce or draw something for an earlier one, `heirs` those that got it when a
  session of an earlier one was still open in guacd, `misfired` those that had it when the guard
  ended an older approval. On links that deliver, the others are `Dependable`.

## Runs

| Run | Bounds | Shows |
|---|---|---|
| `guard` | 2 channels, 1 id, 2 stores under way to each variable | once a deny is done only what a switch not yet seen has let in is approved (`DenySettles`); a deny lets at most one more Guacamole datagram through (`DenyIsPrompt`), and disconnects; the containers agree; SIGTERM ends the process; `Guard` implements `Gate` |
| `gcdbroker` | 2 channels, 2 descriptors, `QueueCap` 1 | a channel is bound only to its own reader's descriptor, nothing is written to, or shut down on, another channel's guacd, only failed writes end a session unannounced, an open session can be reached through the table unless its channel was reused in haste, and what has ended is closed |
| `gcdbroker_write_fails` (violated) | as `gcdbroker` | after a failed write nobody announces the close |
| `mailbox` | 3 posts of 2 chunks, 2 requests | with its eventfd: no lost wake-up, painting before stopping, a request takes effect and a posted chunk is written, FIFO |
| `stop` | either broker, 2 readers, `QueueCap` 1 | SIGINT at any moment: main returns, every reader is woken, none outlives main's objects |
| `stop_drain` (violated) | the same | `send_queue` is not drained |
| `channel_table` | 4 channels | a whole lap between two allocations of a channel |
| `gmlbroker` | 2 connections on 1 channel | the registries agree while a connection is served, its request id included from before the verdict can arrive; only approved connections are piped, through a filter armed for them; who closes silently was told by the peer; sessions and denials of connections not allocated in haste are their own; requests and approvals take effect |
| `session` | 12 pairs of streams of up to 5 instructions, payloads of up to 10 symbols, element buffer 3, clipboard cap 1, at most 1 loss | the guard's policy holds for all it forwards, and it forwards everything else unchanged (`PolicyEnforced`, `NothingElseRemoved`); a channel is poisoned, or a keepalive crosses, only for the reasons named (`HarmHasCause`); one ack for each dropped paste, and it arrives (`AcksExact`); one echo per sync, also behind bytes the parser rejects unless the rest of their instruction reads like a length or a sync (`EchoesExact`); acks, echoes and drawings are those of uncut streams (`ReadsUncut`); the browser sees all of guacd's drawing and nothing of its handshake (`DrawingComplete`); faked replies fall between instructions if no read ended inside one |
| `session_paste` (violated) | one long paste | a long paste may poison the channel |
| `bridge` | 2 connections, 1 fault, 1 drawing of each under way; after a fault no drawings and at most 4 datagrams under way | under any fault a browser is piped through, and guacd dialled, only for a request of its own that was approved (`ApprovalsAreOwn`), and what is typed reaches its own session (`OwnPayload`); without faults, for dependable connections drawings are shown to their own browser or to one that came early (`OwnDrawing`), every request is answered, and neither a browser nor a session is left behind (`Settles`) |
| `bridge_orphan` (violated) | no fault | a session is left behind after the guard ended a stale approval |

**Why the bounds are enough.** The hazards are conflicts between two users of one
resource: two connections on one channel, two channels on one recycled descriptor, a
connection and its successor. Two of each is the smallest instance in which they
happen, and the mutants (one per property) show that a plausible bug of that kind is
found within the bounds. `QueueCap` limits only what arrives from outside; what the
threads themselves queue is always accepted, so queues get longer than it. `mailbox` needs
three posts so that one can come before, between and after a drain; its posts and requests
are finite, so it may end and deadlock is not checked there. `channel_table` has four
channels, so that the cursor can skip a bound channel and wrap. In `session` the
payload limit is shorter than the handshake, so the replay takes several datagrams, and
just as long as a paste over the cap, so that one can come whole or in pieces; payloads of
1, 2 and 4 symbols lie at the cap, over it and over the element buffer. In `guard` two stores
may be under way to each variable, so that the stores of two commands can be seen in any
order that C++ allows, and the halves of a deny on either side of a teardown. The streams are
finite, and so are the connections of `bridge`, so both may come to rest and deadlock is not checked. One
fault in `bridge` is enough for each property to be put to the test by each kind. Two runs
leave states out by a `CONSTRAINT`. In `gcdbroker` the uplink keeps up (`PromptUplink`):
no thread looks at what waits for it, so longer queues show nothing new. In `bridge`
(`FewAfterFault`) few datagrams are under way once a fault has happened, and nothing is
drawn any more; `OwnDrawing` and `Settles` are claimed of links that deliver, of which nothing is
left out. The theorems cover any number of connections, faults, drawings and queued
messages for all safety properties of both.

**Fairness.** Weak fairness of each thread's own steps, never of the environment.
- Guard: the main loop and the control thread receive with a 200 ms timeout, and a store is
  seen after a finite time.
- gcdbroker: reads and writes have socket timeouts, a queue never blocks a producer.
- gmlbroker: `poll` has a timeout, so a reader reaches its idle branch; nothing makes a
  browser send or close.
- mailbox: the producer's signal never blocks (EFD_NONBLOCK), and a write to the browser
  returns; a browser that stops reading while its socket stays open is seen in `stop` only.
- stop: threads are scheduled, calls with a timeout return. A browser is *not* assumed to
  read: only the shutdown of its socket ends a blocked write.
- bridge: each process goes on receiving, the verdict is relayed, and a reader that has
  removed a channel announces it, by its next statements; nothing is assumed
  of browsers, guacd, the operator or the network. Who closes first, guacd or the browser,
  is open.

**Mutants.** For every property of a passing run, `PROJECT.json` names a definition and a
mutated form of it (named `<definition>_<what is wrong>`, defined just before it), under
which the run finds the property violated.

## Findings

1. *A failed write is not announced* (`gcdbroker_write_fails`). The send handler unbinds
   the channel and shuts the connection down; its reader then finds the channel already
   removed and keeps quiet. gmlbroker is never told, the browser's session stays open.
2. *`send_queue` is not drained at the stop* (`stop_drain`). The sender tests `running`
   before each message, so the readers' last SHUTDOWNs may not be sent, against the
   comments in both `main.cpp`.
3. *A long paste ends the session* (`session_paste`). A clipboard blob over the cap can be
   cut out only when its whole instruction is in one read; otherwise the guard takes the
   stream for corrupted, sends SHUTDOWN and poisons the channel. Its header says that the
   blob is excised and the channel lives on.
4. *An approval outlives its session* (`bridge_orphan`). The guard is not told when
   guacd ends a session. A later deny, or a stop of the guard, sends a SHUTDOWN for a channel
   that has a new connection by then; its echo closes that browser without a SHUTDOWN, while
   its CREATE is still on the way. If the switch is back at approve when the
   CREATE arrives, gcdbroker dials a session that nobody will close.

These are kept as runs that must end in a violation. For the following, what a comment or a
header of the code promises is stated as a property as well, and TLC refutes it in the
instance of the run in brackets when it is put in place of that run's properties. They are in
no run: the runs check what is left of each promise, the exception named in the property.

5. *The stores of a deny are not ordered* (`DenyLeavesNothing`, run `guard`). Seen flag first,
   the teardown runs before the switch is found at deny, and a request in between is approved
   and stays so. On x86-64 the hardware keeps the order; the language does not. A release
   store and an acquire exchange of `deny_teardown` would. What is left: `DenySettles`.
6. *SIGPIPE ends gcdbroker* (`OthersHealthy`, run `gcdbroker`). A second write to a guacd that
   has closed its connection raises it; gmlbroker ignores the signal, gcdbroker does not,
   against "only that channel is torn down, leaving the others healthy" (`guacd_client.cpp` 38).
7. *A reader removes its channel by number* (`RemovesOwnBinding`, run `gcdbroker`), even if it
   is bound to the channel's next session by then, which stays open, unbound and announced as
   ended. What is left: `OpenSessionIsBound`, `OnlyFailedWritesAreSilent`.
8. *A mailbox without eventfd is used all the same* (`NothingLost`, run `mailbox`), and nothing
   wakes its reader. What is left: `NoLostWake`, for mailboxes with one.
9. *The lap counts from the allocation* (`FreedRests`, run `channel_table`). A channel that is
   freed just before the cursor reaches it is reused at once, against `channeltable.h` 41.
   This is what lets 10 and 11 happen with 65536 channels. What is left: `FullLap`.
10. *A channel is given back before the SHUTDOWN is queued* (`SessionIntact`, run `gmlbroker`),
    so that it can follow the next connection's CREATE, against "Delaying reuse lets the old
    frames drain first" (`channeltable.h` 45). What is left: `SettledSessionIntact`, and in
    `Bridge` what is said of `Dependable` connections.
11. *A denial is matched and routed in two critical sections* (`DenialIsOwn`, run `gmlbroker`),
    between which the channel can change hands. What is left: `DenialHitsItsRequest`.
12. *A number in a text is taken for a length* (`EverySyncEchoed`, run `session`), once the sync
    faker has restarted behind a byte that is not ASCII; the syncs in that many bytes get no
    echo, against `sync_faker.cpp` 29. What is left: `EchoesExact`.
13. *Faked replies get inside instructions* (`AcksAreInstructions`, `EchoesAreInstructions`, run
    `session`): acks and echoes join queues that hold reads, not instructions. What is left:
    `RepliesBetweenInstructions`, for reads that end between instructions.

Smaller disagreements, seen while modelling and not kept as runs:

- `ReaderGroup::Leave` notifies after unlocking, so main may see the count at zero, return
  and destroy the group before `notify_all` is called.
- An ack that is faked before guacd's ready has come back goes into the return filter,
  which swallows it, or loses its position if it comes between the fragments of an
  instruction (`"early"` in `Session`); the browser's stream stalls, which the ack was to prevent.
- A keepalive that is split across two reads is not swallowed; the guard refuses it and,
  being cut, it poisons the channel (`"cut"`).
- A repeated APPROVAL arms the return filter of a session that runs already, which then
  swallows all drawings.
- After a lost SHUTDOWN the session that is left is shown to the channel's next browser,
  which has not been approved: gmlbroker posts every payload to whoever has the channel.
  `OwnDrawing` therefore speaks of links that deliver. Typed input does not go astray
  even then, because the second dial finds the channel bound and is answered with a denial.
- `approver.h` says in its class comment that the switch defaults to deny, and initialises
  it to approve.
- A read with a byte that the keepalive filter rejects passes it whole, and so does the next
  if it begins inside an instruction: a keepalive in them crosses (`HarmHasCause` names this
  cause). The guard poisons the channel for such a byte anyway.

## Proofs

All for arbitrary values of the constants, from the assumptions named in the modules
(`GuardAssumption`: finitely many channels, room for a store under way; `GcdAssumption`, `GmlAssumption`,
`MailboxAssumption`, `StopAssumption`, `RoundRobinAssumption`, `ParserAssumption`,
`BridgeAssumption`, `ChannelAssumption`, `HandshakeAssumption`, `ScenarioAssumption`: the
kinds of the constants; `MultiplexerAssumption`: a payload has room for a byte). The type
invariants are proved too (`TypeCorrect`); the runs are spent on the other properties.

- `Guard_proofs`: `TypeCorrect`; `DenySettlesCorrect`, `DenyIsPromptCorrect` and
  `ContainersAgreeCorrect`. None assumes an order between the stores of a deny.
  `DenySettles` says what is left of the promise without one, and is inductive with the types:
  a deny that is not yet taken makes it vacuous, the teardown empties `approved`, and a channel
  that is approved later is in `stale`. `GuardImplementsGate`: each step of the main loop is a
  step of `Gate`, whatever action comes in, the teardown loops because the iteration order is
  a permutation of the approved channels.
- `GcdBroker_proofs`: `TypeCorrect`, `BoundToOwnReaderCorrect` and
  `WritesToOwnConnectionCorrect`, from one inductive invariant. The last is not inductive by
  itself: that a looked-up descriptor cannot be recycled for another channel needs that only
  the send handler dials, and that a binding belongs to a reader that has not closed yet.
  `OpenSessionIsBoundCorrect` and `OnlyFailedWritesAreSilentCorrect` need how
  sessions end (`EndInv`): a bound connection that was not dialled in haste is the only one on
  its channel, and one whose end is still due to be announced is bound, or the handler
  is about to shut it down or to echo the SHUTDOWN that unbound it, or its reader has
  removed it and is about to announce that.
- `GmlBroker_proofs`: `TypeCorrect` and all six safety properties of the run, for any
  number of connections and channels. `GmlInv` says at each place of the accept thread and of
  a reader which registries hold the connection (`TableInv`, `OwnerInv`, `MailboxInv`), that a
  registered request id is that of the channel's owner (`RequestInv`), that a standing
  CREATE belongs to a reader past it (`SessionInv`), and what the send handler may still
  do with a message it has matched (`FilterInv`, `SettledInv`): the verdict it holds was
  looked up in one registry and is applied through another, with the channel possibly in
  new hands. `SettledInv` is where the `hasty` connections have to be left out.
- `ChannelMailbox_proofs`: `TypeCorrect`, `NoLostWakeCorrect`,
  `PaintsBeforeStoppingCorrect`, `MailboxImplementsFifo`. `Wakeable` says that whatever is
  in the mailbox is followed by a set eventfd, a pending signal or a reader that is about to
  take it; `Accounted` counts what is written, taken and queued against what was posted.
- `BrokerStop_proofs`: `TypeCorrect`, `NothingOutlivesMainCorrect`,
  `EveryReaderWokenCorrect`, for any number of connections and either broker. `Shape` says
  which threads are gone at each place of main and which readers are in the table;
  `Counting` that the group's count is the number of readers entered and not left.
- `ChannelTable_proofs`: `ScanFindsFree`, `TypeCorrect`, `FullLapCorrect`. `LapInv` says
  that the channels not yet passed since a channel's allocation lie between the
  cursor and that channel.
- `Bridge_proofs`: `TypeCorrect` and all safety properties, for any number of connections
  and faults. `ApprovalsAreOwnCorrect`: `LinksSound` says that downstream of the guard every
  approval on its way, the one being relayed included, is one the guard has given; no fault
  of a link makes up a datagram (`FaultsKeepSeq`). `OwnPayloadCorrect`: connections have
  the channel in turns (`Turns`), and while one's session is open no other is let
  through (`PayloadInv`). `OwnDrawingCorrect` and `NoSessionLeftCorrect` follow the order of
  the datagrams on the links: while a dependable connection has the channel no
  SHUTDOWN is before its request, its grant or its session, nobody else is leaving
  and no reader but its own is running, and once it has left, a SHUTDOWN is
  behind whichever of them is still under way, or it has yet to announce that it left (`Told`,
  `SessionInv`). That the reader of its own session is the only one, and has nothing to
  announce, is what keeps late drawings and late announcements from the next connection. This
  proof showed that being
  neither early nor misfired is not enough with three connections or more: a session that
  is left open by a misfired one is inherited by the next, whose request is then
  denied and whose own SHUTDOWN closes it. Hence `heirs`.
- `Stream_proofs`, for streams of any length.
  - `RoundTrip` and `CastIsExact` about datagrams, for every payload limit.
  - `DeniedIsRefused`: what an uncorrupted call of `Parse` denies is, instruction by
    instruction, what its hooks refuse, whichever element was refused. `GuardPolicy` says
    what that means for the guard: an opcode outside the whitelist, a payload over the
    cap, a blob off the open stream takes its whole instruction out. The invariant
    (`DenyInv`) ties the call's `denying` and `opcode_start_idx` to the element that was
    refused and to the place where the opcode began.
  - `CutsOnlyCorrupt`: read in one piece or in two that are not taken for corrupted, a
    stream leaves the same parser and has the same symbols denied. So a cut can cost a
    session (finding 3), but never changes what passes. A simulation (`Match`) between the
    call on the whole and the call on the second piece.
  - `GuardIdempotent`: the guard decides packet by packet and cuts refused instructions out;
    a fresh guard that reads what came through so far denies none of it and stands in the
    same place (`Alike`). The proof steps over the denied instructions one by one
    (`Skipped`): each begins and ends where an instruction may, and leaves the clipboard
    state as it was.
  - `GuardReference`: a stream of which the guard denies nothing satisfies the
    policy as the reference states it, with no parser in sight. `IsReading` relates the two
    readings place by place: the parser begins an element where the lengths say it does, its
    buffer holds the element, and its clipboard state is that of the last clipboard
    instruction that no `end` on that stream has followed.
  - `PolicyEnforcedCorrect`: `[]PolicyEnforced` for every handshake, every pair of
    streams, every payload limit and any losses. The property is not inductive: what the
    guard does with the next packet depends on its parser, of which a policy on whole
    instructions says nothing. `SessionInv` says that the guard, unless poisoned, stands
    where a guard stands that has read what was forwarded and denied none of it
    (`GuardInv`), and that every datagram is within the limit, so that it arrives whole
    (`RoundTrip`). `GuardIdempotent` makes that inductive, `GuardReference` gives
    the property.
  - `ObserverCuts`: the acks and sync echoes do not depend on the cuts at all, corrupted
    bytes included. `ReturnCuts`: neither does what the return filter releases, although it
    keeps the place of guacd's ready as an index into the read at hand.
  - `ReadsUncutCorrect`: `[]ReadsUncut`, for all streams, legible or not. The outputs alone
    are not inductive: `Heard` and `Fed` add that the fakers and the filter stand where one
    read of everything so far would have left them, and `DrawingInv` that guacd is silent
    before the approval, so that the filter that the approval replaces had swallowed nothing.
  - `BufferHoldsElement`: the parser stays within its element buffer, and the hooks see
    an element only when all of it was read.

  The loops are recursive functions of the position in the stream, which exist
  (`CourseExists`). Induction over them is by the least
  position at which a claim fails (`LeastNatural`, from the well-foundedness of `<`), with
  the claim as a set of numbers (`CountingUp`).

**Only model-checked:** the liveness properties (`DenyDisconnects`, `Stops`,
`EndedIsClosed`, `TeardownHonoured`, `PostsDelivered`, `StopsWhenTold`, `AskedIsClosed`,
`ApprovedIsPiped`, `Settles`), since liveness under fairness and ENABLED are out of the
prover's reach, and six of the eight safety properties of `Session`: `NothingElseRemoved`,
`HarmHasCause`, `AcksExact`, `EchoesExact`, `DrawingComplete`, `RepliesBetweenInstructions`.
These are about the streams a browser and guacd send, which `Scenarios` has samples of; of
arbitrary sequences of elements several of them are false. A byte the framer rejects makes a
tolerant parser start afresh in the middle of an instruction, and an argument that happens to
read `sync` is then taken for an opcode, a number for a length (`Misleading`); the
`ack` and `ready` that the properties look for may as well be data. A theorem would first need the streams of the protocol defined for
every length. `NothingElseRemoved` and `HarmHasCause` also need the keepalive filter composed
with the guard over streams of which instructions are denied. What of them holds of all streams
is in `PolicyEnforced`, `ReadsUncut` and the theorems about single parsers.

## Not modelled

Sockets, TLS and UDP wrappers (`shared/src/network`, `util/tls.h`, `util/sockbuf.h`): thin
calls whose outcomes are choices of the modules that make them; what they decide
themselves (the receive buffer, shutdown and close, a blocked write) is in `Multiplexer`,
`GcdBroker` and `BrokerStop`. Under TLS a browser that sends part of a record holds its
reader in `SSL_read`, which the models do not see. The queue monitor
(diagnostics, not started). `scripts/approval.py` (the guard's operator) and `nettest`
(test driver). Command lines, logging, certificates, the wording of screens and of the
canned args. Durations: a dial that hangs holds up all channels of gcdbroker. Restarts of
gmlbroker, and of gcdbroker other than by SIGPIPE: they drop all their connections, and the
browsers or guacd behind them see that.

## Plan

1. *Done:* guard and gate; gcdbroker; mailbox; stop protocol; channel table; gmlbroker;
   datagrams; parsers, filters and the streams of a session; the bridge. Proofs of every
   safety property of every run but `session`; of `session`, that the policy is enforced and
   that cuts make no difference to acks, echoes and drawings, for all streams.
2. *Next:* the streams of the protocol, of any length, as a set that theorems can quantify
   over; for these, that the keepalive filter removes keepalives only, and from that and
   `GuardIdempotent` the theorem for `NothingElseRemoved`.
