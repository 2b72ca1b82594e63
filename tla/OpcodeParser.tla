---------------------------- MODULE OpcodeParser ----------------------------
(***************************************************************************)
(* OpcodeParser, the incremental Guacamole framer, and its subclasses: the *)
(* guard's policy, gmlbroker's keepalive filter, clipboard ack faker,      *)
(* return filter and handshake forger, and gcdbroker's sync faker.         *)
(*                                                                         *)
(* A parser is a record: the fields of the base class, the class it is an  *)
(* object of, and the fields of the subclasses (each uses its own).  The   *)
(* virtual hooks dispatch on the class.                                    *)
(*                                                                         *)
(* Streams are sequences of symbols, the units the parser tells apart:     *)
(* digits with their dot, a delimiter, any other byte.  What a symbol means *)
(* depends on where the parser is: data may hold a symbol that spells a    *)
(* length, and a parser that lost its place will take it for one.  Every   *)
(* symbol counts as one byte of data, so an opcode or a stream index is    *)
(* one byte long.                                                          *)
(*                                                                         *)
(* A length stands for the value that current_length comes to.  The guard  *)
(* rejects it long before 64 bits overflow; in the parsers that tolerate   *)
(* large elements twenty digits make some other length of it.              *)
(***************************************************************************)
EXTENDS Integers, Sequences, SequencesExt

CONSTANTS MAX_ELEMENT_SIZE,   \* what a parser buffers of an element
          MAX_BYTES           \* the cap of a clipboard payload

ASSUME ParserAssumption ==
    /\ MAX_ELEMENT_SIZE \in Nat
    /\ MAX_BYTES \in 1..(MAX_ELEMENT_SIZE - 1)

-----------------------------------------------------------------------------
(* The wire format.                                                         *)

Length(n) == <<"length", n>>
Byte(v) == <<"byte", v>>
NonAscii == Byte(">127")
Comma == <<"delim", ",">>
Semicolon == <<"delim", ";">>

(* One instruction from its elements, each a sequence of symbols.           *)
instr(elems) ==
    FlattenSeq([i \in DOMAIN elems |->
        <<Length(Len(elems[i]))>>
        \o elems[i]
        \o <<IF i = Len(elems) THEN Semicolon ELSE Comma>>])

-----------------------------------------------------------------------------
(* Objects.                                                                 *)

NoStream == "-1"

Base == [state |-> "READING_LENGTH", current_length |-> -1, current_read |-> 0,
         reading_opcode |-> TRUE, element_buffer |-> <<>>]

(* A new object of a class.  marked is the guard's cap_next_arg and the ack *)
(* faker's blob_on_clipboard; out is what the observers produce: acks,      *)
(* sync echoes, the forger's replies.                                       *)
New(class) ==
    [class |-> class,
     state |-> Base.state, current_length |-> Base.current_length,
     current_read |-> Base.current_read, reading_opcode |-> Base.reading_opcode,
     element_buffer |-> Base.element_buffer,
     current_opcode |-> <<>>, current_arg |-> 0, clipboard_sidx |-> NoStream,
     marked |-> FALSE, timestamp |-> <<>>, out |-> <<>>,
     piping |-> FALSE, ready_end |-> 0, hs_state |-> "UNESTABLISHED"]

(* Forget the position in the stream, and nothing of the subclass.          *)
Reset(p) ==
    [p EXCEPT !.state = Base.state, !.current_length = Base.current_length,
              !.current_read = Base.current_read,
              !.reading_opcode = Base.reading_opcode]

ToleratesOversizedElements(p) == p.class \in {"keepalive", "acks", "sync"}

-----------------------------------------------------------------------------
(* The hooks.                                                               *)

Is(e, v) == e = <<Byte(v)>>

IsAllowedOpcode(e) ==
    \E v \in {"key", "ack", "end", "size", "name", "argv", "blob", "audio",
              "video", "image", "mouse", "select", "connect", "timezone",
              "clipboard", "disconnect"} : Is(e, v)

parse_stream_index(e) ==
    IF \E v \in {"0", "1"} : Is(e, v) THEN e[1][2] ELSE NoStream

OnInstructionBegin(p, e) ==
    [p |-> [p EXCEPT !.current_opcode = e, !.current_arg = 0,
                     !.marked = FALSE, !.timestamp = <<>>],
     allowed |-> CASE p.class = "guard" -> IsAllowedOpcode(e)
                   [] p.class = "keepalive" -> ~Is(e, "sync") /\ ~Is(e, "nop")
                   [] OTHER -> TRUE]

(* The stream index of clipboard and end: which clipboard stream is open.   *)
TrackStream(p, sidx) ==
    [p EXCEPT !.clipboard_sidx =
        CASE Is(p.current_opcode, "clipboard") -> sidx
          [] Is(p.current_opcode, "end") /\ sidx = @ -> NoStream
          [] OTHER -> @]

OnOpenStream(p, sidx) == sidx # NoStream /\ sidx = p.clipboard_sidx

(* The guard: only the open clipboard stream may carry blobs, up to the cap. *)
GuardArgument(p, e) ==
    LET sidx == parse_stream_index(e)
        blob == Is(p.current_opcode, "blob") IN
    CASE p.marked ->
            [p |-> [p EXCEPT !.marked = FALSE], allowed |-> Len(e) <= MAX_BYTES]
      [] ~p.marked /\ p.current_arg = 1 /\ blob ->
            [p |-> [p EXCEPT !.marked = OnOpenStream(p, sidx)],
             allowed |-> OnOpenStream(p, sidx)]
      [] ~p.marked /\ p.current_arg = 1 /\ ~blob ->
            [p |-> TrackStream(p, sidx), allowed |-> TRUE]
      [] OTHER -> [p |-> p, allowed |-> TRUE]

(* Mutant: a payload of exactly the cap is acked too.                       *)
AckArgument_AtCap(p, e) ==
    LET sidx == parse_stream_index(e)
        blob == Is(p.current_opcode, "blob") IN
    CASE p.current_arg = 1 /\ blob ->
            [p EXCEPT !.marked = OnOpenStream(p, sidx)]
      [] p.current_arg = 1 /\ ~blob -> TrackStream(p, sidx)
      [] p.current_arg = 2 /\ p.marked /\ Len(e) >= MAX_BYTES ->
            [p EXCEPT !.out = Append(@, p.clipboard_sidx)]
      [] OTHER -> p

(* The ack faker: one ack for each payload the guard will find too long.    *)
AckArgument(p, e) ==
    LET sidx == parse_stream_index(e)
        blob == Is(p.current_opcode, "blob") IN
    CASE p.current_arg = 1 /\ blob ->
            [p EXCEPT !.marked = OnOpenStream(p, sidx)]
      [] p.current_arg = 1 /\ ~blob -> TrackStream(p, sidx)
      [] p.current_arg = 2 /\ p.marked /\ Len(e) > MAX_BYTES ->
            [p EXCEPT !.out = Append(@, p.clipboard_sidx)]
      [] OTHER -> p

SyncArgument(p, e) ==
    IF Is(p.current_opcode, "sync") /\ p.current_arg = 1
    THEN [p EXCEPT !.timestamp = e] ELSE p

OnArgument(p0, e) ==
    LET p == [p0 EXCEPT !.current_arg = @ + 1] IN
    CASE p.class = "guard" -> GuardArgument(p, e)
      [] p.class = "acks" -> [p |-> AckArgument(p, e), allowed |-> TRUE]
      [] p.class = "sync" -> [p |-> SyncArgument(p, e), allowed |-> TRUE]
      [] OTHER -> [p |-> p, allowed |-> TRUE]

(* i is the index of the instruction's semicolon in the buffer.             *)
OnInstructionEnd(p, i) ==
    CASE p.class = "sync" /\ Is(p.current_opcode, "sync")
                          /\ p.timestamp # <<>> ->
            [p EXCEPT !.out = Append(@, p.timestamp)]
      [] p.class = "return" /\ ~p.piping /\ Is(p.current_opcode, "ready") ->
            [p EXCEPT !.piping = TRUE, !.ready_end = i]
      [] p.class = "forger" /\ Is(p.current_opcode, "select") ->
            [p EXCEPT !.out = Append(@, "args"),
                      !.hs_state = "EXCHANGING_PARAMETERS"]
      [] p.class = "forger" /\ Is(p.current_opcode, "connect") ->
            [p EXCEPT !.out = @ \o <<"ready", "waiting">>,
                      !.hs_state = "ESTABLISHED"]
      [] OTHER -> p

-----------------------------------------------------------------------------
(* Parse.  A call is a record: the parser and the call's local variables.   *)

Call(p) == [p |-> p, denying |-> FALSE, opcode_in_this_call |-> FALSE,
            opcode_start_idx |-> 0, denied_ranges |-> {}]

Corrupt(c) == [c EXCEPT !.p.state = "STREAM_CORRUPTED"]

(* Mutant: only the first instruction of a buffer counts as begun there.    *)
ReadLength_FirstOnly(c, i, n) ==
    IF n > MAX_ELEMENT_SIZE /\ ~ToleratesOversizedElements(c.p)
    THEN Corrupt(c)
    ELSE [c EXCEPT
            !.p.current_length = n, !.p.current_read = 0,
            !.p.element_buffer = <<>>,
            !.p.state = IF n = 0 THEN "EXPECT_DELIM" ELSE "READING_DATA",
            !.opcode_in_this_call = c.p.reading_opcode /\ i = 1,
            !.opcode_start_idx = IF c.p.reading_opcode THEN i ELSE @]

ReadLength(c, i, n) ==
    IF n > MAX_ELEMENT_SIZE /\ ~ToleratesOversizedElements(c.p)
    THEN Corrupt(c)
    ELSE [c EXCEPT
            !.p.current_length = n, !.p.current_read = 0,
            !.p.element_buffer = <<>>,
            !.p.state = IF n = 0 THEN "EXPECT_DELIM" ELSE "READING_DATA",
            !.opcode_in_this_call = @ \/ c.p.reading_opcode,
            !.opcode_start_idx = IF c.p.reading_opcode THEN i ELSE @]

(* Bytes beyond MAX_ELEMENT_SIZE are counted, not looked at.                *)
ReadData(c, s) ==
    IF c.p.current_read < MAX_ELEMENT_SIZE /\ s = NonAscii
    THEN Corrupt(c)
    ELSE [c EXCEPT
            !.p.current_read = @ + 1,
            !.p.element_buffer = IF c.p.current_read < MAX_ELEMENT_SIZE
                                 THEN Append(@, s) ELSE @,
            !.p.state = IF c.p.current_read + 1 = c.p.current_length
                        THEN "EXPECT_DELIM" ELSE @]

(* The hooks' word on the element just completed.                           *)
Validate(c) ==
    LET h == IF c.p.reading_opcode
             THEN OnInstructionBegin(c.p, c.p.element_buffer)
             ELSE OnArgument(c.p, c.p.element_buffer) IN
    CASE c.denying -> c
      [] ~c.denying /\ h.allowed ->
            [c EXCEPT !.p = [h.p EXCEPT !.reading_opcode = FALSE]]
      [] ~c.denying /\ ~h.allowed /\ c.opcode_in_this_call ->
            [c EXCEPT !.p = [h.p EXCEPT !.reading_opcode = FALSE],
                      !.denying = TRUE]
      [] OTHER -> Corrupt([c EXCEPT !.p = h.p])

(* Comma or semicolon after an element.                                     *)
NextElement(c) ==
    [c EXCEPT !.p.current_length = -1, !.p.state = "READING_LENGTH"]

(* Mutant: the range of a denied instruction stops short of its semicolon.  *)
EndInstruction_KeepsSemicolon(c, i) ==
    IF c.denying
    THEN [c EXCEPT !.denied_ranges = @ \cup {c.opcode_start_idx..(i - 1)},
                   !.denying = FALSE, !.p.reading_opcode = TRUE]
    ELSE [c EXCEPT !.p = [OnInstructionEnd(c.p, i) EXCEPT !.reading_opcode = TRUE]]

(* Mutant: the place of the last denied instruction is not kept apart.      *)
EndInstruction_FromStart(c, i) ==
    IF c.denying
    THEN [c EXCEPT !.denied_ranges = @ \cup {1..i},
                   !.denying = FALSE, !.p.reading_opcode = TRUE]
    ELSE [c EXCEPT !.p = [OnInstructionEnd(c.p, i) EXCEPT !.reading_opcode = TRUE]]

EndInstruction(c, i) ==
    IF c.denying
    THEN [c EXCEPT !.denied_ranges = @ \cup {c.opcode_start_idx..i},
                   !.denying = FALSE, !.p.reading_opcode = TRUE]
    ELSE [c EXCEPT !.p = [OnInstructionEnd(c.p, i) EXCEPT !.reading_opcode = TRUE]]

ReadDelim(c, i, s) ==
    LET v == Validate(c) IN
    CASE s \notin {Comma, Semicolon} -> Corrupt(c)
      [] s \in {Comma, Semicolon} /\ v.p.state = "STREAM_CORRUPTED" -> v
      [] s = Comma /\ v.p.state # "STREAM_CORRUPTED" -> NextElement(v)
      [] OTHER -> NextElement(EndInstruction(v, i))

ParseByte(c, i, s) ==
    CASE c.p.state = "STREAM_CORRUPTED" -> c
      [] c.p.state = "READING_LENGTH" ->
            IF s[1] = "length" THEN ReadLength(c, i, s[2]) ELSE Corrupt(c)
      [] c.p.state = "READING_DATA" -> ReadData(c, s)
      [] c.p.state = "EXPECT_DELIM" -> ReadDelim(c, i, s)

(* Mutant: a call that ends while denying is taken for clean.               *)
EndOfCall_Lenient(c) == c

(* A denied instruction without its semicolon cannot be cut out.            *)
EndOfCall(c) == IF c.denying THEN Corrupt(c) ELSE c

(* What base becomes after each of n steps, numbered from 1.                *)
Stepwise(step(_, _), base, n) ==
    LET after[i \in 0..n] == IF i = 0 THEN base ELSE step(after[i - 1], i)
    IN  after

(* The call after each byte of data.                                        *)
Calls(p, data) ==
    Stepwise(LAMBDA c, i : ParseByte(c, i, data[i]), Call(p), Len(data))

Parse(p, data) == EndOfCall(Calls(p, data)[Len(data)])

(* The bytes outside the denied ranges.                                     *)
Excise(data, ranges) ==
    LET keep(kept, i) == IF \E r \in ranges : i \in r THEN kept ELSE Append(kept, data[i])
    IN  Stepwise(keep, <<>>, Len(data))[Len(data)]

-----------------------------------------------------------------------------
(* What the owners of a parser call.                                        *)

(* Mutant: an observer stays at the byte that corrupted its stream.         *)
FeedObserver_Latched(p, data) == Parse([p EXCEPT !.out = <<>>], data).p

(* The observers never give up: past the byte that corrupted the stream the *)
(* parser starts afresh, and whatever spells a length from there on is one. *)
ObserveByte(c, i, s) ==
    LET d == ParseByte(c, i, s) IN
    IF d.p.state = "STREAM_CORRUPTED" THEN Call(Reset(d.p)) ELSE d

Observed(p, data) ==
    Stepwise(LAMBDA c, i : ObserveByte(c, i, data[i]), Call(p), Len(data))

(* Mutant: replies already made are made again with the next read.          *)
FeedObserver_Again(p, data) == Observed(p, data)[Len(data)].p

FeedObserver(p, data) == Observed([p EXCEPT !.out = <<>>], data)[Len(data)].p

(* ForwardKeepaliveFilter::Filter: the parser and what is left of the read. *)
Filter(p, data) ==
    LET c == Parse(p, data) IN
    IF c.p.state = "STREAM_CORRUPTED"
    THEN [p |-> Reset(c.p), data |-> data]
    ELSE [p |-> c.p, data |-> Excise(data, c.denied_ranges)]

(* Mutant: the end of ready is off by one.                                  *)
FeedReturn_OffByOne(p, data) ==
    LET q == Parse([p EXCEPT !.ready_end = 0], data).p IN
    CASE p.piping -> [p |-> p, data |-> data]
      [] ~p.piping /\ q.piping ->
            [p |-> q, data |-> SubSeq(data, q.ready_end + 2, Len(data))]
      [] OTHER -> [p |-> q, data |-> <<>>]

(* ReturnFilter::Feed: swallow everything up to guacd's ready.              *)
FeedReturn(p, data) ==
    LET q == Parse([p EXCEPT !.ready_end = 0], data).p IN
    CASE p.piping -> [p |-> p, data |-> data]
      [] ~p.piping /\ q.piping ->
            [p |-> q, data |-> SubSeq(data, q.ready_end + 1, Len(data))]
      [] OTHER -> [p |-> q, data |-> <<>>]

(* HandshakeForger::Feed.                                                   *)
FeedForger(p, data) ==
    LET q == Parse([p EXCEPT !.out = <<>>], data).p IN
    [q EXCEPT !.hs_state =
        IF q.state = "STREAM_CORRUPTED" THEN "INVALID_HANDSHAKE" ELSE @]

=============================================================================
