------------------------------- MODULE Session ------------------------------
(***************************************************************************)
(* The Guacamole stream of one connection, end to end: what the browser    *)
(* writes passes gmlbroker's reader (handshake forger, clipboard ack       *)
(* faker, keepalive filter), the guard's parser and gcdbroker on its way   *)
(* to guacd; what guacd writes passes gcdbroker's reader (sync faker) and  *)
(* gmlbroker's return filter on its way to the browser.  TCP may deliver   *)
(* either stream in any pieces, and each piece becomes a datagram of its   *)
(* own, which may be lost.                                                 *)
(*                                                                         *)
(* Which thread may act when, and what a teardown does, is the matter of   *)
(* GmlBroker, Guard and GcdBroker.  Each link is a FIFO with one consumer, *)
(* so a datagram is handled where it is sent; recv_queue of either broker  *)
(* is the order in which it is filled.                                     *)
(***************************************************************************)
EXTENDS OpcodeParser, Multiplexer, FiniteSets

CONSTANTS
    ChannelId,      \* the channel of the connection
    Handshake,      \* the browser's handshake: select, then connect
    Scenarios       \* records: what the browser sends after the handshake and
                    \* what guacd sends (sequences of instructions), and two
                    \* bounds: datagrams lost, keepalives sent to guacd

(* What the data of an element is made of: bytes, and digits with a dot,    *)
(* which spell a length.                                                    *)
Data == ({"byte"} \X STRING) \cup ({"length"} \X Nat)

(* Instructions: sequences of elements, which are sequences of data.        *)
Program == Seq(Seq(Seq(Data)))

ASSUME ChannelAssumption == ChannelId \in Channel16

ASSUME HandshakeAssumption == Handshake \in Program /\ Len(Handshake) = 2

ASSUME ScenarioAssumption ==
    \A s \in Scenarios : /\ s.browser \in Program /\ s.guacd \in Program
                         /\ s.loss \in Nat /\ s.keepalive \in Nat

VARIABLES
    input,            \* the browser's stream
    received,         \* how much of it gmlbroker has read
    forger, handshake_raw,
    approved, replayed,
    clipboard_faker, keepalive_filter,
    guard,            \* the guard's parser, its poison, what it forwarded
    toGuacd,          \* what is queued for guacd, in gcdbroker's recv_queue
    output,           \* guacd's stream
    guacdReceived,    \* how much of it gcdbroker has read
    sync_faker, last_ack,
    keepalives,       \* bound: keepalives that may still be sent
    return_filter,
    toBrowser,        \* what is posted to the connection's mailbox
    mayLose,          \* bound: datagrams that may still be lost
    piped,            \* history: what of the input went into the pipe
    start,            \* history: where in the input piping began, -1: not yet
    faked,            \* history: acks faked, by stream
    echoes,           \* history: syncs echoed
    met               \* history: what befell the streams on the way

browserVars == <<input, received, forger, handshake_raw, approved, replayed,
                 clipboard_faker, keepalive_filter, piped, start, faked>>
guacdVars == <<output, guacdReceived, sync_faker, last_ack, keepalives, echoes>>
vars == <<browserVars, guard, toGuacd, guacdVars, return_filter, toBrowser,
          mayLose, met>>

Flatten(instrs) == FlattenSeq([i \in DOMAIN instrs |-> instr(instrs[i])])

Hello == Flatten(Handshake)

Init ==
    /\ \E s \in Scenarios : /\ input = Hello \o Flatten(s.browser)
                             /\ output = Flatten(s.guacd)
                             /\ mayLose = s.loss
                             /\ keepalives = s.keepalive
    /\ received = 0 /\ guacdReceived = 0
    /\ forger = New("forger") /\ handshake_raw = <<>>
    /\ approved = FALSE /\ replayed = FALSE
    /\ clipboard_faker = New("acks") /\ keepalive_filter = New("keepalive")
    /\ guard = [parser |-> New("guard"), poisoned |-> FALSE, forwarded |-> <<>>]
    /\ toGuacd = <<>> /\ toBrowser = <<>>
    /\ sync_faker = New("sync") /\ last_ack = <<>>
    /\ return_filter = New("return")
    /\ piped = <<>> /\ start = -1 /\ faked = <<>> /\ echoes = <<>>
    /\ met = {}

-----------------------------------------------------------------------------
(* Reference: a stream taken apart by its lengths, and the guard's policy   *)
(* on whole instructions.  An element is named by the place of its first    *)
(* symbol, an instruction by that of its last.                              *)

DelimOf(str, j) == j + str[j][2] + 1

(* Where elements begin, as far as the lengths before tell.                 *)
Places(str) ==
    LET tell(told, i) == IF i \in told /\ str[i][1] = "length"
                         THEN told \cup {DelimOf(str, i) + 1} ELSE told
    IN  Stepwise(tell, {1}, Len(str))[Len(str)]

Elements(str) == Places(str) \cap DOMAIN str

(* str is a prefix of a sequence of well-formed instructions.               *)
WellFramed(str) ==
    \A j \in Elements(str) :
        /\ str[j][1] = "length"
        /\ DelimOf(str, j) \in DOMAIN str => str[DelimOf(str, j)][1] = "delim"

(* The semicolons that end an instruction.                                  *)
Ends(str) ==
    {DelimOf(str, j) : j \in Elements(str)} \cap {i \in DOMAIN str : str[i] = Semicolon}

(* The first three elements of the instruction from first to last: its      *)
(* opcode and the two arguments that a parser of the bridge may look at.    *)
Heading(str, first, last) ==
    LET element(j) == SubSeq(str, j + 1, DelimOf(str, j) - 1)
        second == DelimOf(str, first) + 1
        third == DelimOf(str, second) + 1
    IN  CASE last < second -> <<element(first)>>
          [] second <= last /\ last < third -> <<element(first), element(second)>>
          [] OTHER -> <<element(first), element(second), element(third)>>

(* The whole instructions of a well-framed stream, by their last place.     *)
Decode(str) ==
    LET ends == Ends(str)
        first(e) == Max({i \in ends \cup {0} : i < e}) + 1
    IN  [e \in ends |-> [range |-> first(e)..e, elem |-> Heading(str, first(e), e)]]

OpcodeIs(ins, v) == ins.elem[1] = <<Byte(v)>>

StreamOf(ins) == IF Len(ins.elem) > 1 THEN ins.elem[2] ELSE <<>>

(* Instruction k of prog is a blob on the clipboard stream open at its time. *)
OnClipboard(prog, k) ==
    /\ OpcodeIs(prog[k], "blob")
    /\ StreamOf(prog[k]) \in {<<Byte("0")>>, <<Byte("1")>>}
    /\ \E c \in DOMAIN prog :
          /\ c < k
          /\ OpcodeIs(prog[c], "clipboard")
          /\ StreamOf(prog[c]) = StreamOf(prog[k])
          /\ \A i \in {j \in DOMAIN prog : c < j /\ j < k} :
                /\ OpcodeIs(prog[i], "clipboard") => Len(prog[i].elem) = 1
                /\ OpcodeIs(prog[i], "end") => StreamOf(prog[i]) # StreamOf(prog[k])

TooLong(prog, k) ==
    /\ OnClipboard(prog, k)
    /\ Len(prog[k].elem) > 2
    /\ Len(prog[k].elem[3]) > MAX_BYTES

Refused(prog, k) ==
    \/ ~IsAllowedOpcode(prog[k].elem[1])
    \/ OpcodeIs(prog[k], "blob") /\ Len(prog[k].elem) > 1 /\ ~OnClipboard(prog, k)
    \/ TooLong(prog, k)

RefusedRanges(str) ==
    LET prog == Decode(str) IN
    {prog[k].range : k \in {j \in DOMAIN prog : Refused(prog, j)}}

(* str without the instructions the policy refuses.                         *)
Permitted(str) == Excise(str, RefusedRanges(str))

(* A stream the guard cannot read, however it is cut.                       *)
Unreadable(str) ==
    \/ \E i \in DOMAIN str : str[i] = NonAscii
    \/ \E j \in Elements(str) : str[j][1] = "length" /\ str[j][2] > MAX_ELEMENT_SIZE

(* Behind a byte that the parser cannot read, the rest of the instruction   *)
(* may be taken for something else: a length in its data, or a sync in its  *)
(* arguments.                                                               *)
Misleading(str) ==
    \E ins \in Range(Decode(str)) : \E i, j \in ins.range :
        /\ i < j /\ str[i] = NonAscii
        /\ \/ str[j][1] = "length" /\ j \notin Elements(str)
           \/ str[j] = Byte("sync")

(* The first q symbols of str end between two instructions; inside one that *)
(* the policy refuses.                                                      *)
AtBoundary(str, q) == q = 0 \/ str[q] = Semicolon

CutsRefused(str, q) == \E r \in RefusedRanges(str) : q \in r /\ q + 1 \in r

-----------------------------------------------------------------------------
(* The bridge.                                                              *)

Datagram(data) == Serialize(BridgeMessage(ChannelId, NONE, data))

(* gmguard's handling of one NONE datagram on the approved channel.         *)
GuardNone(g, d) ==
    LET payload == TryCast(Received(d)).payload
        c == Parse(g.parser, payload)
        rest == Excise(payload, c.denied_ranges)
    IN  CASE ~IsMessage(Received(d)) \/ g.poisoned -> g
          [] OTHER ->
             IF c.p.state = "STREAM_CORRUPTED"
             THEN [g EXCEPT !.poisoned = TRUE, !.parser = New("guard")]
             ELSE [g EXCEPT !.parser = c.p,
                            !.forwarded = @ \o TryCast(Received(Datagram(rest))).payload]

(* The guard after the datagrams ds but the lost ones.                      *)
Relayed(g, ds, lost) ==
    LET relay(x, i) == IF i \in lost THEN x ELSE GuardNone(x, ds[i])
    IN  Stepwise(relay, g, Len(ds))[Len(ds)]

(* Datagrams ds go to the guard, some may get lost; what it forwards joins  *)
(* gcdbroker's recv_queue.                                                  *)
Send(ds) ==
    \E lost \in SUBSET DOMAIN ds :
        /\ Cardinality(lost) <= mayLose
        /\ mayLose' = mayLose - Cardinality(lost)
        /\ guard' = Relayed(guard, ds, lost)
        /\ toGuacd' = toGuacd \o SubSeq(guard'.forwarded,
                            Len(guard.forwarded) + 1, Len(guard'.forwarded))

LostFlag == IF mayLose' = mayLose THEN {} ELSE {"lost"}

(* gmlbroker's send handler: what passes the return filter is posted.       *)
Deliver(data) ==
    LET r == FeedReturn(return_filter, data) IN
    /\ return_filter' = r.p
    /\ toBrowser' = toBrowser \o r.data

-----------------------------------------------------------------------------
(* gmlbroker's reader.                                                      *)

Established == forger.hs_state = "ESTABLISHED"

(* The reader takes the next n symbols of the input.                        *)
Chunk(n) == SubSeq(input, received + 1, received + n)

(* Before the handshake is established the forger answers.  The web server  *)
(* waits for args after select, and for ready after connect.                *)
HandshakeRead(n) ==
    /\ ~Established
    /\ received + n <= IF forger.hs_state = "UNESTABLISHED"
                       THEN Len(instr(Handshake[1])) ELSE Len(Hello)
    /\ received' = received + n
    /\ forger' = FeedForger(forger, Chunk(n))
    /\ handshake_raw' = handshake_raw \o Chunk(n)
    /\ UNCHANGED <<input, approved, replayed, clipboard_faker, keepalive_filter,
                   piped, start, faked, guard, toGuacd, guacdVars,
                   return_filter, toBrowser, mayLose, met>>

(* The matching verdict: the flag is set and the return filter armed.       *)
Approve ==
    /\ Established /\ ~approved
    /\ approved' = TRUE
    /\ return_filter' = New("return")
    /\ UNCHANGED <<input, received, forger, handshake_raw, replayed,
                   clipboard_faker, keepalive_filter, piped, start, faked,
                   guard, toGuacd, guacdVars, toBrowser, mayLose, met>>

(* The captured handshake in chunks of the payload limit.                   *)
ReplayHandshake ==
    LET chunks == (Len(handshake_raw) + MAX_PAYLOAD_SIZE - 1) \div MAX_PAYLOAD_SIZE
        upto(k) == IF k = chunks THEN Len(handshake_raw) ELSE k * MAX_PAYLOAD_SIZE
    IN  [k \in 1..chunks |->
            Datagram(SubSeq(handshake_raw, (k - 1) * MAX_PAYLOAD_SIZE + 1, upto(k)))]

MaybeReplay == IF approved /\ ~replayed THEN ReplayHandshake ELSE <<>>

(* The idle branch of the poll loop.  (Before the approval it writes a sync *)
(* of its own to the waiting screen, which nothing here depends on.)        *)
IdleReplay ==
    /\ Established /\ approved /\ ~replayed
    /\ replayed' = TRUE
    /\ piped' = handshake_raw
    /\ Send(MaybeReplay)
    /\ met' = met \cup LostFlag
    /\ UNCHANGED <<input, received, forger, handshake_raw, approved,
                   clipboard_faker, keepalive_filter, start, faked, guacdVars,
                   return_filter, toBrowser>>

(* Input before the approval is dropped.                                    *)
DropInput(n) ==
    /\ Established /\ ~approved
    /\ received + n <= Len(input)
    /\ received' = received + n
    /\ met' = IF AtBoundary(input, received') THEN met ELSE met \cup {"ragged"}
    /\ UNCHANGED <<input, forger, handshake_raw, approved, replayed,
                   clipboard_faker, keepalive_filter, piped, start, faked,
                   guard, toGuacd, guacdVars, return_filter, toBrowser, mayLose>>

AckBytes(acks) ==
    Flatten([i \in DOMAIN acks |-> <<<<Byte("ack")>>, <<Byte(acks[i])>>>>])

(* What the part of the stream that is piped will have been.                *)
Course(begin) == Hello \o SubSeq(input, begin + 1, Len(input))

PipeHistory(n) ==
    LET begin == IF start = -1 THEN received ELSE start
        q == Len(Hello) + (received + n - begin)
    IN  /\ start' = begin
        /\ piped' = SubSeq(Course(begin), 1, q)
        /\ met' = met \cup LostFlag
             \cup (IF AtBoundary(input, begin) THEN {} ELSE {"askew"})
             \cup (IF AtBoundary(input, received + n) THEN {} ELSE {"ragged"})
             \cup (IF AtBoundary(input, begin) /\ CutsRefused(Course(begin), q)
                   THEN {"cut"} ELSE {})
             \cup (IF Contains(Filter(keepalive_filter, Chunk(n)).data, Byte("nop"))
                   THEN {"crossed"} ELSE {})
             \cup (IF clipboard_faker'.out # <<>> /\ ~return_filter.piping
                   THEN {"early"} ELSE {})

(* Approved: acks are faked from the bytes as they came, then keepalives    *)
(* are swallowed, and the rest is sent.                                     *)
PipeInput(n) ==
    /\ Established /\ approved
    /\ received + n <= Len(input)
    /\ received' = received + n
    /\ replayed' = TRUE
    /\ clipboard_faker' = FeedObserver(clipboard_faker, Chunk(n))
    /\ Deliver(AckBytes(clipboard_faker'.out))
    /\ LET f == Filter(keepalive_filter, Chunk(n)) IN
       /\ keepalive_filter' = f.p
       /\ Send(MaybeReplay \o (IF f.data = <<>> THEN <<>> ELSE <<Datagram(f.data)>>))
    /\ faked' = faked \o clipboard_faker'.out
    /\ PipeHistory(n)
    /\ UNCHANGED <<input, forger, handshake_raw, approved, guacdVars>>

-----------------------------------------------------------------------------
(* gcdbroker's reader, and guacd behind it.                                 *)

GuacdHas(v) == \E ins \in Range(Decode(guard.forwarded)) : OpcodeIs(ins, v)

(* guacd answers select with args, its first instruction, and connect with  *)
(* ready and whatever follows: the first q symbols may have been sent.      *)
Answered(q) ==
    /\ GuacdHas("select")
    /\ GuacdHas("connect") \/ \A i \in 1..(q - 1) : output[i] # Semicolon

SyncBytes(stamps) ==
    FlattenSeq([i \in DOMAIN stamps |->
        <<Length(1), Byte("sync"), Comma, Length(Len(stamps[i]))>>
        \o stamps[i] \o <<Semicolon>>])

(* A read of n symbols: it goes back across the bridge, where it may be     *)
(* lost; each sync that is complete now is echoed to guacd.                 *)
GuacdRead(n) ==
    LET data == SubSeq(output, guacdReceived + 1, guacdReceived + n) IN
    /\ guacdReceived + n <= Len(output)
    /\ Answered(guacdReceived + n)
    /\ guacdReceived' = guacdReceived + n
    /\ sync_faker' = FeedObserver(sync_faker, data)
    /\ last_ack' = IF sync_faker'.out = <<>> THEN last_ack ELSE sync_faker'.out
    /\ toGuacd' = toGuacd \o SyncBytes(sync_faker'.out)
    /\ echoes' = echoes \o sync_faker'.out
    /\ \/ /\ Deliver(TryCast(Received(Datagram(data))).payload)
          /\ UNCHANGED mayLose
       \/ /\ mayLose > 0
          /\ mayLose' = mayLose - 1
          /\ UNCHANGED <<return_filter, toBrowser>>
    /\ met' = met \cup (IF mayLose' = mayLose THEN {} ELSE {"guacdLost"})
                  \cup (IF AtBoundary(output, guacdReceived') THEN {}
                        ELSE {"guacdRagged"})
    /\ UNCHANGED <<browserVars, guard, output, keepalives>>

(* guacd has not heard a sync for a while: the last one again.              *)
Keepalive ==
    /\ last_ack # <<>>
    /\ keepalives > 0
    /\ keepalives' = keepalives - 1
    /\ toGuacd' = toGuacd \o SyncBytes(last_ack)
    /\ UNCHANGED <<browserVars, guard, output, guacdReceived, sync_faker,
                   last_ack, echoes, return_filter, toBrowser, mayLose, met>>

Next ==
    \/ \E n \in 1..MAX_PAYLOAD_SIZE :
           HandshakeRead(n) \/ DropInput(n) \/ PipeInput(n) \/ GuacdRead(n)
    \/ Approve \/ IdleReplay \/ Keepalive

Spec == Init /\ [][Next]_vars

-----------------------------------------------------------------------------
(* Properties.                                                              *)

(* The guard lets nothing through that its policy refuses, wherever reads   *)
(* are cut, piping begins or a datagram is lost: every whole instruction it *)
(* has forwarded is one it allows at that place.                            *)
PolicyEnforced ==
    /\ WellFramed(guard.forwarded)
    /\ RefusedRanges(guard.forwarded) = {}

(* The guard forwards everything its policy permits, unchanged and in       *)
(* order: the keepalive filter and the excision take out refused            *)
(* instructions and nothing else.                                           *)
NothingElseRemoved ==
    (replayed /\ ~guard.poisoned /\ met \cap {"lost", "askew"} = {})
        => guard.forwarded = Permitted(piped)

(* What the filters may fail to prevent has a cause.  A channel is poisoned *)
(* only if a refused instruction did not arrive in one piece, piping began  *)
(* inside an instruction, a datagram was lost, or the browser sent what the *)
(* parser cannot read; a keepalive of the browser passes the filter for any *)
(* of these reasons but a loss (a read that the filter cannot read passes   *)
(* whole, and so may the next, forward_keepalive_filter.cpp 24-32).         *)
HarmHasCause ==
    /\ guard.poisoned => \/ met \cap {"cut", "askew", "lost"} # {}
                         \/ Unreadable(piped)
    /\ "crossed" \in met => \/ met \cap {"cut", "askew"} # {}
                            \/ Unreadable(piped)

(* One ack is faked for each clipboard payload over the cap, as soon as the *)
(* payload is complete, however the stream is cut, and it reaches the       *)
(* browser unless it was made before guacd's ready came back.               *)
AcksExact ==
    /\ (start # -1 /\ "askew" \notin met /\ ~Unreadable(piped))
           => LET prog == Decode(piped) IN
              Len(faked) = Cardinality({k \in DOMAIN prog : TooLong(prog, k)})
    /\ met \cap {"early", "guacdLost"} = {}
           => Len(faked) = Cardinality({i \in DOMAIN toBrowser : toBrowser[i] = Byte("ack")})

(* Where TCP cuts a stream makes no difference to what the brokers make of  *)
(* it: acks and echoes are those that one read of all the bytes so far would *)
(* have made, whatever is lost behind the readers, and so is what is shown  *)
(* of guacd's stream if nothing of it is lost and no ack is mixed in; bytes *)
(* that no parser understands are no exception.                             *)
ReadsUncut ==
    /\ start # -1 =>
          faked = FeedObserver(New("acks"), SubSeq(input, start + 1, received)).out
    /\ echoes = FeedObserver(New("sync"), SubSeq(output, 1, guacdReceived)).out
    /\ (faked = <<>> /\ "guacdLost" \notin met)
           => toBrowser = FeedReturn(New("return"), SubSeq(output, 1, guacdReceived)).data

(* The syncs that guacd has sent, each by the place of its last symbol.     *)
Syncs(prog) == {e \in DOMAIN prog : OpcodeIs(prog[e], "sync")}

(* Each sync of guacd is echoed once, with its timestamp and in order, when *)
(* its last byte has been read.  Bytes the parser rejects are no exception, *)
(* unless something that reads like a length or a sync follows one of them  *)
(* in the same instruction.                                                 *)
EchoesExact ==
    LET seen == SubSeq(output, 1, guacdReceived)
        prog == Decode(seen)
        syncs == SetToSortSeq(Syncs(prog), <)
    IN  ~Misleading(seen) => echoes = [k \in DOMAIN syncs |-> prog[syncs[k]].elem[2]]

(* What SyncFaker::Feed says of bytes it rejects: it skips them, resyncs    *)
(* and keeps scanning, so that every sync behind them is echoed.  Refuted:  *)
(* a number in the rest of the text is taken for a length.                  *)
EverySyncEchoed ==
    LET prog == Decode(SubSeq(output, 1, guacdReceived)) IN
    \A e \in Syncs(prog) : Contains(echoes, prog[e].elem[2])

(* The browser is shown exactly what guacd sent after its ready, and        *)
(* guacd's own handshake never, not even if part of it is lost.             *)
DrawingComplete ==
    /\ (met \cap {"early", "guacdLost"} = {} /\ faked = <<>>)
           => LET seen == SubSeq(output, 1, guacdReceived)
                  prog == Decode(seen)
                  hidden == {e \in DOMAIN prog : Cardinality({i \in DOMAIN prog : i < e}) < 2}
              IN  toBrowser = IF Cardinality(hidden) < 2 THEN <<>>
                              ELSE Excise(seen, {prog[e].range : e \in hidden})
    /\ ~Contains(toBrowser, Byte("args")) /\ ~Contains(toBrowser, Byte("ready"))

(* If no read ended inside an instruction, the replies that the brokers     *)
(* make up fall between instructions on both sides.                         *)
RepliesBetweenInstructions ==
    /\ "ragged" \notin met => WellFramed(toGuacd)
    /\ met \cap {"guacdRagged", "early"} = {} => WellFramed(toBrowser)

(* What the ack faker's header says of a paste that the guard drops: it     *)
(* fails cleanly, so the faked ack is one more instruction on the way to    *)
(* the browser, wherever the reads of guacd's stream ended.  Refuted: it    *)
(* gets inside an instruction that a read has divided.                      *)
AcksAreInstructions ==
    met \cap {"early", "guacdLost"} = {} => WellFramed(toBrowser)

(* What the sync faker's header says of its echoes: guacd gets what a real  *)
(* client sends, which is a sequence of instructions.  Refuted likewise.    *)
EchoesAreInstructions == WellFramed(toGuacd)

(* What the guard's header says of a clipboard payload over the cap: the    *)
(* blob is cut out and the channel lives on.                                *)
LongPasteIsCutOut ==
    ( /\ guard.poisoned
      /\ met \cap {"askew", "lost"} = {}
      /\ ~Unreadable(piped) )
        => LET course == Decode(Course(start)) IN
           \E k \in DOMAIN course : Refused(course, k) /\ ~TooLong(course, k)

=============================================================================
