---------------------------- MODULE Stream_proofs ---------------------------
(***************************************************************************)
(* Proofs about what a stream goes through: the datagrams of Multiplexer,  *)
(* for every payload limit, the parser of OpcodeParser, for streams of any *)
(* length, and the session that puts them together, for every handshake    *)
(* and every scenario.                                                     *)
(*                                                                         *)
(*   - What is sent is what is received, and Serialize and TryCast are     *)
(*     inverse.                                                            *)
(*   - What an uncorrupted call of Parse denies is what its hooks refuse,  *)
(*     instruction by instruction; for the guard that is its policy.       *)
(*   - How the stream is cut into calls of Parse changes neither, nor the  *)
(*     replies of the observers, nor what the return filter lets through.  *)
(*   - The element buffer holds the element on the wire, within its size.  *)
(*   - A guard that read what a guard has forwarded would deny nothing,    *)
(*     and a stream of which it denies nothing satisfies the policy as     *)
(*     Session states it on whole instructions.  So the guard of a session *)
(*     enforces it, whatever is cut, dropped or lost (PolicyEnforced).     *)
(*   - The replies and the drawings of a session are those of one read     *)
(*     (ReadsUncut).                                                       *)
(*                                                                         *)
(* Parse is a recursive function of the symbols read.  Induction over them *)
(* is by the least natural number at which a claim fails (LeastNatural,    *)
(* CountingUp).  A lemma ...Step gives the effect of an operator of the    *)
(* parser on the call, field by field; the later sections use the effects  *)
(* only.                                                                   *)
(***************************************************************************)
EXTENDS Session, SequenceTheorems, FiniteSetTheorems, WellFoundedInduction, TLAPS

-----------------------------------------------------------------------------
(* Datagrams.                                                               *)

(* Channel ids in two bytes: the bytes come back out of the number.         *)
LEMMA TwoBytes ==
    ASSUME NEW a \in Octet, NEW b \in Octet
    PROVE  /\ (256 * a + b) \div 256 = a
           /\ (256 * a + b) % 256 = b
           /\ 256 * a + b \in Channel16
<1>1. a \in Int /\ b \in Int /\ 0 <= a /\ a <= 255 /\ 0 <= b /\ b <= 255
  BY DEF Octet
<1>2. (256 * a + b) \div 256 = a
  BY <1>1
<1>3. (256 * a + b) % 256 = b
  BY <1>1, SMTT(30)
<1>4. 256 * a + b \in Channel16
  BY DEF Channel16
<1> QED BY <1>2, <1>3, <1>4

(* What follows the three bytes of the header.                              *)
LEMMA AfterHeader ==
    ASSUME NEW S, NEW s \in Seq(S), NEW n \in Nat, n = Len(s), n >= 3
    PROVE  /\ SubSeq(s, 4, n) \in Seq(S)
           /\ Len(SubSeq(s, 4, n)) = n - 3
           /\ \A i \in 1..(n - 3) : SubSeq(s, 4, n)[i] = s[i + 3]
<1> DEFINE r == SubSeq(s, 4, n)
<1>1. \A i \in 4..n : s[i] \in S
  OBVIOUS
<1>2. 4 \in Int /\ n \in Int
  OBVIOUS
<1>3. /\ r \in Seq(S)
      /\ Len(r) = IF 4 <= n THEN n - 4 + 1 ELSE 0
      /\ \A i \in 1..n - 4 + 1 : r[i] = s[4 + i - 1]
  BY <1>1, <1>2, SubSeqProperties
<1> HIDE DEF r
<1>4. n = 3 \/ n >= 4
  OBVIOUS
<1>5. Len(r) = n - 3
  BY <1>3, <1>4
<1>6. \A i \in 1..(n - 3) : i \in 1..n - 4 + 1 /\ 4 + i - 1 = i + 3
  OBVIOUS
<1>7. \A i \in 1..(n - 3) : r[i] = s[i + 3]
  BY <1>3, <1>6
<1> QED BY <1>3, <1>5, <1>7 DEF r

(* A flags byte whose six low bits are clear is the value of its top bits.  *)
LEMMA TopBits ==
    ASSUME NEW f \in Octet, f % 64 = 0
    PROVE  64 * (f \div 64) = f
  BY DEF Octet

(* Every message whose payload is within the limit arrives unchanged.       *)
THEOREM RoundTrip ==
    ASSUME NEW ch \in Channel16, NEW act \in ChannelAction,
           NEW S, NEW data \in Seq(S), Len(data) <= MAX_PAYLOAD_SIZE
    PROVE  LET d == Serialize(BridgeMessage(ch, act, data)) IN
           /\ Received(d) = d
           /\ IsMessage(d)
           /\ TryCast(d) = BridgeMessage(ch, act, data)
<1> DEFINE h == <<ch \div 256, ch % 256, act>>
           d == h \o data
<1>1. Serialize(BridgeMessage(ch, act, data)) = d
  BY DEF Serialize, BridgeMessage
<1>2. act \in {0, 64, 128, 192}
  BY DEF ChannelAction, NONE, CREATE_CHANNEL, SHUTDOWN_CHANNEL, APPROVAL
<1>3. ch \in Int /\ ch >= 0
  <2>1. PICK high \in Octet, low \in Octet : ch = 256 * high + low
    BY DEF Channel16
  <2> QED
    BY <2>1 DEF Octet
<1> DEFINE T == S \cup Int
<1>4. h \in Seq(T) /\ Len(h) = 3 /\ data \in Seq(T)
  <2>1. /\ ch \div 256 \in Int /\ ch % 256 \in Int /\ act \in Int
    BY <1>2, <1>3
  <2> QED BY <2>1
<1>5. d \in Seq(T) /\ Len(d) = 3 + Len(data)
  BY <1>4
<1>6. d[1] = ch \div 256 /\ d[2] = ch % 256 /\ d[3] = act
  BY <1>4
<1>7. 256 * (ch \div 256) + (ch % 256) = ch
  BY <1>3
<1>8. act % 64 = 0 /\ 64 * (act \div 64) = act
  BY <1>2
<1>9. SubSeq(d, 4, Len(d)) = data
  <2>1. Len(data) \in Nat /\ data = [i \in 1..Len(data) |-> data[i]]
    BY <1>4
  <2>2. SubSeq(d, 4, Len(d)) = [i \in 1..(Len(d) - 4 + 1) |-> d[i + 4 - 1]]
    BY <1>5
  <2>3. Len(d) - 4 + 1 = Len(data)
    BY <1>5, <2>1
  <2>4. \A i \in 1..Len(data) : d[i + 4 - 1] = data[i]
    BY <1>4, <2>1
  <2> QED BY <2>1, <2>2, <2>3, <2>4
<1>10. Len(d) <= MAX_DATAGRAM_SIZE /\ Len(d) >= 3
  BY <1>5, MultiplexerAssumption DEF MAX_DATAGRAM_SIZE, HEADER_SIZE
<1> HIDE DEF h, d
<1>11. Received(d) = d
  BY <1>10 DEF Received
<1>12. IsMessage(d)
  BY <1>5, <1>6, <1>8, <1>10, <1>2 DEF IsMessage, HEADER_SIZE
<1>13. TryCast(d) = BridgeMessage(ch, act, data)
  <2>1. HEADER_SIZE + 1 = 4
    BY DEF HEADER_SIZE
  <2> QED BY <1>6, <1>7, <1>8, <1>9, <2>1 DEF TryCast
<1> QED BY <1>1, <1>11, <1>12, <1>13

(* A datagram that is taken for a message is what Serialize makes of it: no *)
(* two datagrams carry the same message, and no reserved bit gets lost.     *)
THEOREM CastIsExact ==
    ASSUME NEW d \in Seq(Octet), IsMessage(d)
    PROVE  /\ Serialize(TryCast(d)) = d
           /\ TryCast(d).channel \in Channel16
           /\ TryCast(d).action \in ChannelAction
<1>1. Len(d) \in Nat /\ Len(d) >= 3
  BY DEF IsMessage, HEADER_SIZE
<1>2. d[1] \in Octet /\ d[2] \in Octet /\ d[3] \in Octet
  BY <1>1
<1>3. /\ (256 * d[1] + d[2]) \div 256 = d[1]
      /\ (256 * d[1] + d[2]) % 256 = d[2]
      /\ 256 * d[1] + d[2] \in Channel16
  BY <1>2, TwoBytes
<1>4. 64 * (d[3] \div 64) = d[3]
  BY <1>2, TopBits DEF IsMessage
<1>5. d[3] \in ChannelAction
  BY <1>4 DEF IsMessage
<1> DEFINE r == SubSeq(d, 4, Len(d))
<1>6. r \in Seq(Octet) /\ Len(r) = Len(d) - 3
      /\ \A i \in 1..(Len(d) - 3) : r[i] = d[i + 3]
  BY <1>1, AfterHeader DEF r
<1>7. <<d[1], d[2], d[3]>> \o r = d
  <2> DEFINE h == <<d[1], d[2], d[3]>>
             e == h \o r
  <2>1. h \in Seq(Octet) /\ Len(h) = 3
    BY <1>2
  <2> HIDE DEF r
  <2>2. e \in Seq(Octet) /\ Len(e) = Len(d)
    BY <2>1, <1>6, <1>1
  <2>3. \A i \in 1..Len(d) : e[i] = d[i]
    <3> SUFFICES ASSUME NEW i \in 1..Len(d) PROVE e[i] = d[i]
      OBVIOUS
    <3>1. CASE i <= 3
      <4>1. e[i] = h[i]
        BY <2>1, <1>6, <3>1
      <4>2. i = 1 \/ i = 2 \/ i = 3
        BY <3>1, <1>1
      <4> QED BY <4>1, <4>2
    <3>2. CASE i > 3
      <4>1. e[i] = r[i - 3]
        BY <2>1, <1>6, <3>2, <1>1
      <4>2. i - 3 \in 1..(Len(d) - 3) /\ (i - 3) + 3 = i
        BY <3>2, <1>1
      <4> QED BY <4>1, <4>2, <1>6
    <3>3. i <= 3 \/ i > 3
      BY <1>1
    <3> QED BY <3>1, <3>2, <3>3
  <2>4. d = [i \in 1..Len(d) |-> d[i]] /\ e = [i \in 1..Len(e) |-> e[i]]
    BY <2>2
  <2> QED BY <2>2, <2>3, <2>4
<1> HIDE DEF r
<1>8. TryCast(d) = [channel |-> 256 * d[1] + d[2], action |-> d[3], payload |-> r]
  <2>1. HEADER_SIZE + 1 = 4
    BY DEF HEADER_SIZE
  <2> QED BY <1>4, <2>1 DEF TryCast, BridgeMessage, r
<1> QED BY <1>3, <1>5, <1>7, <1>8 DEF Serialize

-----------------------------------------------------------------------------
(* Induction over the symbols of a stream.                                  *)

(* A set of natural numbers has a least one.                                *)
LEMMA LeastNatural ==
    ASSUME NEW T, T \subseteq Nat, T # {}
    PROVE  \E x \in T : \A y \in T : x <= y
<1> DEFINE R == OpToRel(<, Nat)
<1>1. \E x \in T : \A y \in T : ~(<<y, x>> \in R)
  <2> HIDE DEF R
  <2>1. IsWellFoundedOn(R, Nat)
    BY NatLessThanWellFounded DEF R
  <2> QED
    BY <2>1, WFMin
<1>2. \A x, y \in Nat : ~(<<y, x>> \in R) => x <= y
  BY DEF OpToRel
<1> QED
  BY <1>1, <1>2

(* Counting up to n: what holds of 0 and goes from one number to the next   *)
(* holds of all.                                                            *)
LEMMA CountingUp ==
    ASSUME NEW n \in Nat, NEW T \in SUBSET Nat, 0 \in T,
           \A i \in 1..n : i - 1 \in T => i \in T
    PROVE  0..n \subseteq T
<1> SUFFICES ASSUME (0..n) \ T # {} PROVE FALSE
  OBVIOUS
<1>1. PICK x \in (0..n) \ T : \A y \in (0..n) \ T : x <= y
  <2>1. (0..n) \ T \subseteq Nat
    OBVIOUS
  <2> QED
    BY <2>1, LeastNatural
<1>2. x \in 1..n /\ x - 1 \in 0..n /\ ~(x <= x - 1)
  BY <1>1
<1> QED
  BY <1>1, <1>2

(* One step of each of the recursive functions of the model.                *)
Step(kind, x, i, arg) ==
    CASE kind = "Calls" -> ParseByte(x, i, arg[i])
      [] kind = "Observed" -> ObserveByte(x, i, arg[i])
      [] kind = "Excise" ->
            IF \E r \in arg.ranges : i \in r THEN x ELSE Append(x, arg.data[i])
      [] kind = "Places" ->
            IF i \in x /\ arg[i][1] = "length" THEN x \cup {DelimOf(arg, i) + 1} ELSE x
      [] kind = "Relayed" -> IF i \in arg.lost THEN x ELSE GuardNone(x, arg.ds[i])
      [] kind = "FlattenSeq" -> x \o arg[i + 1]

(* f is the course of such a function up to n.                              *)
IsCourse(f, kind, base, arg, n) ==
    f = [i \in 0..n |-> IF i = 0 THEN base ELSE Step(kind, f[i - 1], i, arg)]

(* Each recursion has a solution.                                           *)
LEMMA CourseExists ==
    ASSUME NEW kind, NEW base, NEW arg, NEW n \in Nat
    PROVE  \E f : IsCourse(f, kind, base, arg, n)
<1> DEFINE T == {m \in Nat : \E f : IsCourse(f, kind, base, arg, m)}
<1>1. 0 \in T
  <2>1. IsCourse([i \in 0..0 |-> base], kind, base, arg, 0)
    BY DEF IsCourse
  <2> QED
    BY <2>1
<1>2. ASSUME NEW m \in 1..n, m - 1 \in T PROVE m \in T
  <2>1. PICK f : IsCourse(f, kind, base, arg, m - 1)
    BY <1>2
  <2> DEFINE g == [i \in 0..m |-> IF i = m THEN Step(kind, f[m - 1], m, arg) ELSE f[i]]
             h == [i \in 0..m |-> IF i = 0 THEN base
                                           ELSE Step(kind, g[i - 1], i, arg)]
  <2>2. ASSUME NEW i \in 0..m PROVE g[i] = h[i]
    <3>1. CASE i = 0
      BY <2>1, <3>1 DEF IsCourse
    <3>2. CASE i = m /\ i # 0
      BY <3>2
    <3>3. CASE i \in 1..(m - 1)
      <4>1. f[i] = Step(kind, f[i - 1], i, arg)
        BY <2>1, <3>3 DEF IsCourse
      <4>2. g[i] = f[i] /\ g[i - 1] = f[i - 1]
        BY <3>3
      <4> QED
        BY <3>3, <4>1, <4>2
    <3> QED
      BY <3>1, <3>2, <3>3
  <2>3. g = h
    <3>1. h = [i \in 0..m |-> h[i]] /\ g = [i \in 0..m |-> g[i]]
      OBVIOUS
    <3> HIDE DEF g, h
    <3> QED
      BY <2>2, <3>1
  <2>4. IsCourse(g, kind, base, arg, m)
    BY <2>3 DEF IsCourse
  <2> HIDE DEF g
  <2> QED
    BY <2>4
<1> HIDE DEF T
<1>3. n \in T
  <2>1. T \in SUBSET Nat
    BY DEF T
  <2>2. \A i \in 1..n : i - 1 \in T => i \in T
    BY <1>2
  <2>3. 0..n \subseteq T
    BY <1>1, <2>1, <2>2, CountingUp
  <2> QED
    BY <2>3
<1> QED
  BY <1>3 DEF T

(* So Calls is one: the call after i symbols comes from the one before.     *)
LEMMA CallsEquation ==
    ASSUME NEW p, NEW data, Len(data) \in Nat
    PROVE  /\ Calls(p, data)[0] = Call(p)
           /\ \A i \in 1..Len(data) :
                 Calls(p, data)[i] = ParseByte(Calls(p, data)[i - 1], i, data[i])
<1> DEFINE F(f) == f = [i \in 0..Len(data) |-> IF i = 0 THEN Call(p)
                                               ELSE ParseByte(f[i - 1], i, data[i])]
<1>1. Calls(p, data) = CHOOSE f : F(f)
  BY DEF Calls, Stepwise
<1>2. \A f : IsCourse(f, "Calls", Call(p), data, Len(data)) => F(f)
  BY DEF IsCourse, Step
<1>3. F(Calls(p, data))
  <2> HIDE DEF F
  <2>1. \E f : F(f)
    BY <1>2, CourseExists
  <2> QED
    BY <1>1, <2>1
<1> QED
  BY <1>3

(* And so is Observed.                                                      *)
LEMMA ObservedEquation ==
    ASSUME NEW p, NEW data, Len(data) \in Nat
    PROVE  /\ Observed(p, data)[0] = Call(p)
           /\ \A i \in 1..Len(data) :
                 Observed(p, data)[i] = ObserveByte(Observed(p, data)[i - 1], i, data[i])
<1> DEFINE F(f) == f = [i \in 0..Len(data) |-> IF i = 0 THEN Call(p)
                                               ELSE ObserveByte(f[i - 1], i, data[i])]
<1>1. Observed(p, data) = CHOOSE f : F(f)
  BY DEF Observed, Stepwise
<1>2. \A f : IsCourse(f, "Observed", Call(p), data, Len(data)) => F(f)
  BY DEF IsCourse, Step
<1>3. F(Observed(p, data))
  <2> HIDE DEF F
  <2>1. \E f : F(f)
    BY <1>2, CourseExists
  <2> QED
    BY <1>1, <2>1
<1> QED
  BY <1>3

-----------------------------------------------------------------------------
(* Parsers and calls are records.                                           *)

IsParser(p) ==
    /\ p = [field \in DOMAIN p |-> p[field]]
    /\ DOMAIN p = {"class", "state", "current_length", "current_read", "reading_opcode",
                   "element_buffer", "current_opcode", "current_arg", "clipboard_sidx",
                   "marked", "timestamp", "out", "piping", "ready_end", "hs_state"}
    /\ p.state \in {"READING_LENGTH", "READING_DATA", "EXPECT_DELIM", "STREAM_CORRUPTED"}

IsCall(c) ==
    /\ c = [field \in DOMAIN c |-> c[field]]
    /\ DOMAIN c = {"p", "denying", "opcode_in_this_call", "opcode_start_idx",
                   "denied_ranges"}
    /\ IsParser(c.p)

(* The hooks change fields of the subclass only.                            *)
Framing(p) == <<p.class, p.state, p.current_length, p.current_read, p.reading_opcode,
                p.element_buffer>>

(* OnInstructionBegin leaves the framing alone.                             *)
LEMMA BeginHook ==
    ASSUME NEW p, NEW e, IsParser(p)
    PROVE  LET q == OnInstructionBegin(p, e).p IN IsParser(q) /\ Framing(q) = Framing(p)
  BY DEF OnInstructionBegin, IsParser, Framing

(* So does OnArgument, of every class.                                      *)
LEMMA ArgumentHook ==
    ASSUME NEW p, NEW e, IsParser(p)
    PROVE  LET q == OnArgument(p, e).p IN IsParser(q) /\ Framing(q) = Framing(p)
<1> DEFINE q == [p EXCEPT !.current_arg = @ + 1]
<1>1. IsParser(q) /\ Framing(q) = Framing(p)
  BY DEF IsParser, Framing
<1> HIDE DEF q
<1>2. ASSUME NEW sidx PROVE IsParser(TrackStream(q, sidx)) /\ Framing(TrackStream(q, sidx)) = Framing(q)
  BY <1>1 DEF TrackStream, IsParser, Framing
<1>3. \A b : LET r == [q EXCEPT !.marked = b] IN IsParser(r) /\ Framing(r) = Framing(q)
  BY <1>1 DEF IsParser, Framing
<1>4. IsParser(GuardArgument(q, e).p) /\ Framing(GuardArgument(q, e).p) = Framing(q)
  BY <1>1, <1>2, <1>3 DEF GuardArgument
<1>5. \A v : LET r == [q EXCEPT !.out = v] IN IsParser(r) /\ Framing(r) = Framing(q)
  BY <1>1 DEF IsParser, Framing
<1>6. IsParser(AckArgument(q, e)) /\ Framing(AckArgument(q, e)) = Framing(q)
  BY <1>1, <1>2, <1>3, <1>5 DEF AckArgument
<1>7. \A v : LET r == [q EXCEPT !.timestamp = v] IN IsParser(r) /\ Framing(r) = Framing(q)
  BY <1>1 DEF IsParser, Framing
<1>8. IsParser(SyncArgument(q, e)) /\ Framing(SyncArgument(q, e)) = Framing(q)
  BY <1>1, <1>7 DEF SyncArgument
<1>9. OnArgument(p, e).p \in {GuardArgument(q, e).p, AckArgument(q, e), SyncArgument(q, e), q}
  BY DEF OnArgument, q
<1> QED
  BY <1>1, <1>4, <1>6, <1>8, <1>9

(* And OnInstructionEnd.                                                    *)
LEMMA EndHook ==
    ASSUME NEW p, NEW i, IsParser(p)
    PROVE  LET q == OnInstructionEnd(p, i) IN IsParser(q) /\ Framing(q) = Framing(p)
<1>1. \A v : LET q == [p EXCEPT !.out = v] IN IsParser(q) /\ Framing(q) = Framing(p)
  BY DEF IsParser, Framing
<1>2. \A v, w : LET q == [p EXCEPT !.piping = v, !.ready_end = w]
                IN  IsParser(q) /\ Framing(q) = Framing(p)
  <2> TAKE v, w
  <2> DEFINE q == [p EXCEPT !.piping = v, !.ready_end = w]
  <2>1. IsParser(q)
    BY DEF IsParser
  <2>2. Framing(q) = Framing(p)
    BY DEF IsParser, Framing
  <2> QED
    BY <2>1, <2>2
<1>3. \A v, w : LET q == [p EXCEPT !.out = v, !.hs_state = w]
                IN  IsParser(q) /\ Framing(q) = Framing(p)
  <2> TAKE v, w
  <2> DEFINE q == [p EXCEPT !.out = v, !.hs_state = w]
  <2>1. IsParser(q)
    BY DEF IsParser
  <2>2. Framing(q) = Framing(p)
    BY DEF IsParser, Framing
  <2> QED
    BY <2>1, <2>2
<1> QED
  BY <1>1, <1>2, <1>3 DEF OnInstructionEnd

(* Updates of a parser and of a call, whatever the value.                   *)
LEMMA Reading ==
    ASSUME NEW p, NEW b, IsParser(p)
    PROVE  LET q == [p EXCEPT !.reading_opcode = b]
           IN  IsParser(q) /\ q.class = p.class /\ q.state = p.state
  BY DEF IsParser

(* The steps of a call.                                                     *)
Corrupted(c) == c.p.state = "STREAM_CORRUPTED"

(* d is a call of c's parser object, at another place in the stream.        *)
Continues(d, c) == IsCall(d) /\ d.p.class = c.p.class

(* The local variables of d are those of c.                                 *)
SameLocals(d, c) ==
    /\ d.denying = c.denying
    /\ d.opcode_in_this_call = c.opcode_in_this_call
    /\ d.opcode_start_idx = c.opcode_start_idx
    /\ d.denied_ranges = c.denied_ranges

(* Corrupting a call changes the state of its parser and nothing else.      *)
LEMMA CorruptStep ==
    ASSUME NEW c, IsCall(c)
    PROVE  /\ Continues(Corrupt(c), c) /\ Corrupted(Corrupt(c))
           /\ Corrupt(c).p = [c.p EXCEPT !.state = "STREAM_CORRUPTED"]
           /\ SameLocals(Corrupt(c), c)
  BY DEF Corrupt, IsCall, IsParser, Corrupted, Continues, SameLocals

Oversized(p, n) == n > MAX_ELEMENT_SIZE /\ ~ToleratesOversizedElements(p)

LengthEffect(d, c, i, n) ==
    /\ Continues(d, c)
    /\ Oversized(c.p, n) => d = Corrupt(c)
    /\ ~Oversized(c.p, n) =>
          /\ d.p = [c.p EXCEPT !.current_length = n, !.current_read = 0,
                      !.element_buffer = <<>>,
                      !.state = IF n = 0 THEN "EXPECT_DELIM" ELSE "READING_DATA"]
          /\ d.denying = c.denying
          /\ d.opcode_in_this_call = (c.opcode_in_this_call \/ c.p.reading_opcode)
          /\ d.opcode_start_idx = IF c.p.reading_opcode THEN i ELSE c.opcode_start_idx
          /\ d.denied_ranges = c.denied_ranges

(* The length of an element.                                                *)
LEMMA LengthStep ==
    ASSUME NEW c, NEW i, NEW n, IsCall(c)
    PROVE  LengthEffect(ReadLength(c, i, n), c, i, n)
<1>1. CASE Oversized(c.p, n)
  BY <1>1, CorruptStep DEF ReadLength, Oversized, LengthEffect
<1>2. CASE ~Oversized(c.p, n)
  <2> DEFINE q == [c.p EXCEPT !.current_length = n, !.current_read = 0,
                     !.element_buffer = <<>>,
                     !.state = IF n = 0 THEN "EXPECT_DELIM" ELSE "READING_DATA"]
             d == [c EXCEPT !.p = q,
                     !.opcode_in_this_call = @ \/ c.p.reading_opcode,
                     !.opcode_start_idx = IF c.p.reading_opcode THEN i ELSE @]
  <2>1. ReadLength(c, i, n) = d
    BY <1>2 DEF ReadLength, IsCall, Oversized
  <2>2. IsParser(q) /\ q.class = c.p.class
    BY DEF IsCall, IsParser
  <2> HIDE DEF q
  <2>3. /\ IsCall(d) /\ d.p = q /\ d.denying = c.denying
        /\ d.opcode_in_this_call = (c.opcode_in_this_call \/ c.p.reading_opcode)
        /\ d.opcode_start_idx = IF c.p.reading_opcode THEN i ELSE c.opcode_start_idx
        /\ d.denied_ranges = c.denied_ranges
    BY <2>2 DEF IsCall
  <2> HIDE DEF d
  <2> QED
    BY <1>2, <2>1, <2>2, <2>3 DEF Continues, LengthEffect, q
<1> QED
  BY <1>1, <1>2

DataEffect(d, c, s) ==
    LET wide == c.p.current_read < MAX_ELEMENT_SIZE /\ s = NonAscii IN
    /\ Continues(d, c) /\ SameLocals(d, c)
    /\ wide => d.p = [c.p EXCEPT !.state = "STREAM_CORRUPTED"]
    /\ ~wide =>
          d.p = [c.p EXCEPT
                   !.current_read = @ + 1,
                   !.element_buffer = IF c.p.current_read < MAX_ELEMENT_SIZE
                                      THEN Append(@, s) ELSE @,
                   !.state = IF c.p.current_read + 1 = c.p.current_length
                             THEN "EXPECT_DELIM" ELSE @]

(* A byte of an element.                                                    *)
LEMMA DataStep ==
    ASSUME NEW c, NEW s, IsCall(c)
    PROVE  DataEffect(ReadData(c, s), c, s)
<1>1. CASE c.p.current_read < MAX_ELEMENT_SIZE /\ s = NonAscii
  BY <1>1, CorruptStep DEF ReadData, DataEffect
<1>2. CASE ~(c.p.current_read < MAX_ELEMENT_SIZE /\ s = NonAscii)
  <2> DEFINE q == [c.p EXCEPT
                     !.current_read = @ + 1,
                     !.element_buffer = IF c.p.current_read < MAX_ELEMENT_SIZE
                                        THEN Append(@, s) ELSE @,
                     !.state = IF c.p.current_read + 1 = c.p.current_length
                               THEN "EXPECT_DELIM" ELSE @]
             d == [c EXCEPT !.p = q]
  <2>1. ReadData(c, s) = d
    BY <1>2 DEF ReadData, IsCall
  <2>2. IsParser(q) /\ q.class = c.p.class
    BY DEF IsCall, IsParser
  <2> HIDE DEF q
  <2>3. IsCall(d) /\ d.p = q /\ SameLocals(d, c)
    BY <2>2 DEF IsCall, SameLocals
  <2> HIDE DEF d
  <2> QED
    BY <1>2, <2>1, <2>2, <2>3 DEF Continues, DataEffect, q
<1> QED
  BY <1>1, <1>2

(* What the hooks make of the element that c has completed.                 *)
Hook(c) ==
    IF c.p.reading_opcode THEN OnInstructionBegin(c.p, c.p.element_buffer)
                          ELSE OnArgument(c.p, c.p.element_buffer)

Refuses(c) == ~c.denying /\ ~Hook(c).allowed

ValidateEffect(d, c) ==
    /\ Continues(d, c)
    /\ d.opcode_in_this_call = c.opcode_in_this_call
    /\ d.opcode_start_idx = c.opcode_start_idx
    /\ d.denied_ranges = c.denied_ranges
    /\ c.denying => d = c
    /\ ~c.denying /\ ~Refuses(c) =>
          d.p = [Hook(c).p EXCEPT !.reading_opcode = FALSE] /\ d.denying = c.denying
    /\ Refuses(c) /\ c.opcode_in_this_call =>
          d.p = [Hook(c).p EXCEPT !.reading_opcode = FALSE] /\ d.denying = TRUE
    /\ Refuses(c) /\ ~c.opcode_in_this_call => Corrupted(d)

(* The word of the hooks on an element.                                     *)
LEMMA ValidateStep ==
    ASSUME NEW c, IsCall(c)
    PROVE  ValidateEffect(Validate(c), c)
<1>1. IsParser(Hook(c).p) /\ Framing(Hook(c).p) = Framing(c.p)
  BY BeginHook, ArgumentHook DEF Hook, IsCall
<1>2. Validate(c) =
        CASE c.denying -> c
          [] ~c.denying /\ Hook(c).allowed ->
                [c EXCEPT !.p = [Hook(c).p EXCEPT !.reading_opcode = FALSE]]
          [] ~c.denying /\ ~Hook(c).allowed /\ c.opcode_in_this_call ->
                [c EXCEPT !.p = [Hook(c).p EXCEPT !.reading_opcode = FALSE],
                          !.denying = TRUE]
          [] OTHER -> Corrupt([c EXCEPT !.p = Hook(c).p])
  BY DEF Validate, Hook
<1> DEFINE h == Hook(c).p
           q == [h EXCEPT !.reading_opcode = FALSE]
           x == [h EXCEPT !.state = "STREAM_CORRUPTED"]
<1>3. IsParser(q) /\ q.class = c.p.class
  BY <1>1, Reading DEF Framing
<1>4. IsParser(x) /\ x.class = c.p.class /\ x.state = "STREAM_CORRUPTED"
  BY <1>1 DEF IsParser, Framing
<1>5. CASE c.denying
  BY <1>2, <1>5 DEF Continues, Refuses, ValidateEffect
<1>6. CASE ~c.denying /\ Hook(c).allowed
  <2>1. Validate(c) = [c EXCEPT !.p = q]
    BY <1>2, <1>6
  <2> HIDE DEF q
  <2>2. /\ IsCall([c EXCEPT !.p = q]) /\ [c EXCEPT !.p = q].p = q
        /\ [c EXCEPT !.p = q].denying = c.denying
        /\ [c EXCEPT !.p = q].opcode_in_this_call = c.opcode_in_this_call
        /\ [c EXCEPT !.p = q].opcode_start_idx = c.opcode_start_idx
        /\ [c EXCEPT !.p = q].denied_ranges = c.denied_ranges
    BY <1>3 DEF IsCall
  <2> QED
    BY <1>3, <1>6, <2>1, <2>2 DEF Continues, Refuses, ValidateEffect, q
<1>7. CASE ~c.denying /\ ~Hook(c).allowed /\ c.opcode_in_this_call
  <2> DEFINE d == [c EXCEPT !.p = q, !.denying = TRUE]
  <2>1. Validate(c) = d
    BY <1>2, <1>7
  <2> HIDE DEF q
  <2>2. /\ IsCall(d) /\ d.p = q /\ d.denying = TRUE
        /\ d.opcode_in_this_call = c.opcode_in_this_call
        /\ d.opcode_start_idx = c.opcode_start_idx
        /\ d.denied_ranges = c.denied_ranges
    BY <1>3 DEF IsCall
  <2> HIDE DEF d
  <2> QED
    BY <1>3, <1>7, <2>1, <2>2 DEF Continues, Refuses, ValidateEffect, q
<1>8. CASE ~c.denying /\ ~Hook(c).allowed /\ ~c.opcode_in_this_call
  <2> DEFINE d == [c EXCEPT !.p = x]
  <2>1. Validate(c) = d
    <3>1. Validate(c) = Corrupt([c EXCEPT !.p = h])
      BY <1>2, <1>8
    <3> HIDE DEF h
    <3>2. Corrupt([c EXCEPT !.p = h]) = [c EXCEPT !.p = [h EXCEPT !.state = "STREAM_CORRUPTED"]]
      BY <1>1 DEF Corrupt, IsCall
    <3> QED
      BY <3>1, <3>2 DEF h
  <2> HIDE DEF x
  <2>2. /\ IsCall(d) /\ d.p = x
        /\ d.opcode_in_this_call = c.opcode_in_this_call
        /\ d.opcode_start_idx = c.opcode_start_idx
        /\ d.denied_ranges = c.denied_ranges
    BY <1>4 DEF IsCall
  <2> HIDE DEF d
  <2> QED
    BY <1>4, <1>8, <2>1, <2>2 DEF Continues, Refuses, Corrupted, ValidateEffect
<1> QED
  BY <1>5, <1>6, <1>7, <1>8

EndEffect(d, c, i) ==
    /\ Continues(d, c)
    /\ d.p.state = c.p.state
    /\ ~d.denying
    /\ d.opcode_in_this_call = c.opcode_in_this_call
    /\ d.opcode_start_idx = c.opcode_start_idx
    /\ c.denying =>
          /\ d.p = [c.p EXCEPT !.reading_opcode = TRUE] /\ d.denying = FALSE
          /\ d.denied_ranges = c.denied_ranges \cup {c.opcode_start_idx..i}
    /\ ~c.denying =>
          /\ d.p = [OnInstructionEnd(c.p, i) EXCEPT !.reading_opcode = TRUE]
          /\ d.denying = c.denying
          /\ d.denied_ranges = c.denied_ranges

(* The semicolon of an instruction.                                         *)
LEMMA EndStep ==
    ASSUME NEW c, NEW i, IsCall(c)
    PROVE  EndEffect(EndInstruction(c, i), c, i)
<1>1. IsParser(OnInstructionEnd(c.p, i)) /\ Framing(OnInstructionEnd(c.p, i)) = Framing(c.p)
  BY EndHook DEF IsCall
<1>2. CASE c.denying
  <2> DEFINE q == [c.p EXCEPT !.reading_opcode = TRUE]
             d == [c EXCEPT !.p = q, !.denying = FALSE,
                            !.denied_ranges = @ \cup {c.opcode_start_idx..i}]
  <2>1. IsParser(q) /\ q.class = c.p.class /\ q.state = c.p.state
    BY Reading DEF IsCall
  <2>2. EndInstruction(c, i) = d
    BY <1>2 DEF EndInstruction, IsCall
  <2> HIDE DEF q
  <2>3. /\ IsCall(d) /\ d.p = q /\ d.denying = FALSE
        /\ d.opcode_in_this_call = c.opcode_in_this_call
        /\ d.opcode_start_idx = c.opcode_start_idx
        /\ d.denied_ranges = c.denied_ranges \cup {c.opcode_start_idx..i}
    BY <2>1 DEF IsCall
  <2> HIDE DEF d
  <2> QED
    BY <1>2, <2>1, <2>2, <2>3 DEF Continues, EndEffect, q
<1>3. CASE ~c.denying
  <2> DEFINE q == [OnInstructionEnd(c.p, i) EXCEPT !.reading_opcode = TRUE]
             d == [c EXCEPT !.p = q]
  <2>1. IsParser(q) /\ q.class = c.p.class /\ q.state = c.p.state
    BY <1>1, Reading DEF Framing
  <2>2. EndInstruction(c, i) = d
    BY <1>3 DEF EndInstruction
  <2> HIDE DEF q
  <2>3. IsCall(d) /\ d.p = q /\ SameLocals(d, c)
    BY <2>1 DEF IsCall, SameLocals
  <2> HIDE DEF d
  <2> QED
    BY <1>3, <2>1, <2>2, <2>3 DEF Continues, SameLocals, EndEffect, q
<1> QED
  BY <1>2, <1>3

NextElementEffect(d, c) ==
    /\ Continues(d, c) /\ SameLocals(d, c) /\ ~Corrupted(d)
    /\ d.p = [c.p EXCEPT !.current_length = -1, !.state = "READING_LENGTH"]

(* The next element is due.                                                 *)
LEMMA NextElementStep ==
    ASSUME NEW c, IsCall(c)
    PROVE  NextElementEffect(NextElement(c), c)
<1> DEFINE q == [c.p EXCEPT !.current_length = -1, !.state = "READING_LENGTH"]
           d == [c EXCEPT !.p = q]
<1>1. NextElement(c) = d
  BY DEF NextElement, IsCall
<1>2. IsParser(q) /\ q.class = c.p.class /\ q.state = "READING_LENGTH"
  BY DEF IsCall, IsParser
<1> HIDE DEF q
<1>3. IsCall(d) /\ d.p = q /\ SameLocals(d, c)
  BY <1>2 DEF IsCall, SameLocals
<1> HIDE DEF d
<1> QED
  BY <1>1, <1>2, <1>3 DEF Continues, Corrupted, NextElementEffect, q

(* A delimiter takes a call to a call of the same object.                   *)
LEMMA DelimStep ==
    ASSUME NEW c, NEW i, NEW s, IsCall(c)
    PROVE  Continues(ReadDelim(c, i, s), c)
<1> DEFINE v == Validate(c)
<1>1. Continues(v, c)
  BY ValidateStep DEF ValidateEffect
<1>2. Continues(NextElement(v), v) /\ Continues(EndInstruction(v, i), v)
  BY <1>1, NextElementStep, EndStep DEF Continues, NextElementEffect, EndEffect
<1>3. Continues(NextElement(EndInstruction(v, i)), EndInstruction(v, i))
  BY <1>2, NextElementStep DEF Continues, NextElementEffect
<1>4. Continues(Corrupt(c), c)
  BY CorruptStep
<1>5. ReadDelim(c, i, s) \in {Corrupt(c), v, NextElement(v), NextElement(EndInstruction(v, i))}
  BY DEF ReadDelim
<1> HIDE DEF v
<1> QED
  BY <1>1, <1>2, <1>3, <1>4, <1>5 DEF Continues

(* One symbol takes a call to a call of the same object.                    *)
LEMMA ByteStep ==
    ASSUME NEW c, NEW i, NEW s, IsCall(c)
    PROVE  Continues(ParseByte(c, i, s), c)
<1>1. Continues(c, c)
  BY DEF Continues
<1>2. ParseByte(c, i, s) \in {c, ReadLength(c, i, s[2]), Corrupt(c), ReadData(c, s),
                              ReadDelim(c, i, s)}
  BY DEF ParseByte, IsCall, IsParser
<1>3. Continues(ReadLength(c, i, s[2]), c)
  BY LengthStep DEF LengthEffect
<1>4. Continues(ReadData(c, s), c)
  BY DataStep DEF DataEffect
<1>5. Continues(Corrupt(c), c) /\ Continues(ReadDelim(c, i, s), c)
  BY CorruptStep, DelimStep
<1> QED
  BY <1>1, <1>2, <1>3, <1>4, <1>5

(* A call begins with the parser it was called on.                          *)
LEMMA NewCall ==
    ASSUME NEW p, IsParser(p)
    PROVE  IsCall(Call(p)) /\ Call(p).p = p
  BY DEF Call, IsCall

-----------------------------------------------------------------------------
(* Cutting the stream.  A stream that is read in one piece, C, is compared  *)
(* with a later piece of it, c, k symbols into the stream.                  *)

Denied(c) == UNION c.denied_ranges

Match(C, c, k) ==
    /\ C.p = c.p /\ (C.denying <=> c.denying)
    /\ c.denying => c.opcode_in_this_call
    /\ c.opcode_in_this_call =>
          /\ C.opcode_in_this_call
          /\ c.opcode_start_idx \in Nat \ {0}
          /\ C.opcode_start_idx = c.opcode_start_idx + k

(* The same symbols are denied in both.                                     *)
SameDenied(C, c, k) ==
    \A x \in Nat \ {0} : x + k \in Denied(C) <=> x \in Denied(c)

(* Neither the first k symbols.                                             *)
SameBefore(D, C, k) ==
    \A x \in 1..k : x \in Denied(D) <=> x \in Denied(C)

(* Steps that leave the locals alone.                                       *)
LEMMA MatchLocals ==
    ASSUME NEW C, NEW c, NEW k, NEW D, NEW d, Match(C, c, k), SameDenied(C, c, k),
           SameLocals(D, C), SameLocals(d, c), D.p = d.p
    PROVE  Match(D, d, k) /\ SameDenied(D, d, k) /\ SameBefore(D, C, k)
  BY DEF Match, SameLocals, SameDenied, SameBefore, Denied

(* A length, unless it corrupts the piece.                                  *)
LEMMA MatchLength ==
    ASSUME NEW C, NEW c, NEW k \in Nat, NEW i \in Nat \ {0}, NEW n, IsCall(C), IsCall(c),
           Match(C, c, k), SameDenied(C, c, k), ~Corrupted(ReadLength(c, i, n))
    PROVE  LET D == ReadLength(C, i + k, n)
               d == ReadLength(c, i, n)
           IN  Match(D, d, k) /\ SameDenied(D, d, k) /\ SameBefore(D, C, k)
<1> DEFINE D == ReadLength(C, i + k, n)
           d == ReadLength(c, i, n)
<1>1. LengthEffect(D, C, i + k, n) /\ LengthEffect(d, c, i, n) /\ C.p = c.p
  BY LengthStep DEF Match
<1> HIDE DEF D, d
<1>2. Corrupted(Corrupt(c)) /\ ~Corrupted(d)
  BY CorruptStep DEF d
<1>3. ~Oversized(c.p, n)
  BY <1>1, <1>2 DEF LengthEffect
<1>4. D.p = d.p
  BY <1>1, <1>3 DEF LengthEffect
<1>5. /\ (D.denying <=> d.denying)
      /\ d.denying => d.opcode_in_this_call
      /\ d.opcode_in_this_call => /\ D.opcode_in_this_call
                                  /\ d.opcode_start_idx \in Nat \ {0}
                                  /\ D.opcode_start_idx = d.opcode_start_idx + k
  BY <1>1, <1>3 DEF Match, LengthEffect
<1>6. SameDenied(D, d, k) /\ SameBefore(D, C, k)
  BY <1>1, <1>3 DEF SameDenied, SameBefore, Denied, LengthEffect
<1> QED
  BY <1>4, <1>5, <1>6 DEF Match, D, d

(* A byte.                                                                  *)
LEMMA MatchData ==
    ASSUME NEW C, NEW c, NEW k \in Nat, NEW s, IsCall(C), IsCall(c),
           Match(C, c, k), SameDenied(C, c, k)
    PROVE  LET D == ReadData(C, s)
               d == ReadData(c, s)
           IN  Match(D, d, k) /\ SameDenied(D, d, k) /\ SameBefore(D, C, k)
<1>1. DataEffect(ReadData(C, s), C, s) /\ DataEffect(ReadData(c, s), c, s) /\ C.p = c.p
  BY DataStep DEF Match
<1>2. SameLocals(ReadData(C, s), C) /\ SameLocals(ReadData(c, s), c)
  BY <1>1 DEF DataEffect
<1>3. ReadData(C, s).p = ReadData(c, s).p
  BY <1>1 DEF DataEffect
<1> QED
  BY <1>2, <1>3, MatchLocals

(* The hooks, unless they corrupt the piece: they see the same parser.      *)
LEMMA MatchValidate ==
    ASSUME NEW C, NEW c, NEW k \in Nat, IsCall(C), IsCall(c),
           Match(C, c, k), SameDenied(C, c, k), ~Corrupted(Validate(c))
    PROVE  LET D == Validate(C)
               d == Validate(c)
           IN  Match(D, d, k) /\ SameDenied(D, d, k) /\ SameBefore(D, C, k)
<1> DEFINE D == Validate(C)
           d == Validate(c)
<1>1. ValidateEffect(D, C) /\ ValidateEffect(d, c) /\ C.p = c.p
  BY ValidateStep DEF Match
<1>2. Hook(C) = Hook(c) /\ (Refuses(C) <=> Refuses(c)) /\ (C.denying <=> c.denying)
  BY DEF Match, Hook, Refuses
<1> HIDE DEF D, d
<1>3. ~Corrupted(d)
  BY DEF d
<1>4. Refuses(c) => c.opcode_in_this_call /\ C.opcode_in_this_call
  BY <1>1, <1>3 DEF ValidateEffect, Match
<1>5. D.p = d.p /\ (D.denying <=> d.denying)
  <2>1. CASE c.denying
    BY <1>1, <1>2, <2>1 DEF ValidateEffect, Match
  <2>2. CASE ~c.denying /\ ~Refuses(c)
    BY <1>1, <1>2, <2>2 DEF ValidateEffect, Match
  <2>3. CASE Refuses(c)
    BY <1>1, <1>2, <1>4, <2>3 DEF ValidateEffect
  <2> QED
    BY <2>1, <2>2, <2>3
<1>6. d.denying => d.opcode_in_this_call
  <2>1. CASE Refuses(c)
    BY <1>1, <1>4, <2>1 DEF ValidateEffect
  <2>2. CASE ~Refuses(c)
    BY <1>1, <2>2 DEF ValidateEffect, Match
  <2> QED
    BY <2>1, <2>2
<1>7. SameDenied(D, d, k) /\ SameBefore(D, C, k)
  BY <1>1 DEF ValidateEffect, SameDenied, SameBefore, Denied
<1>8. d.opcode_in_this_call => /\ D.opcode_in_this_call
                               /\ d.opcode_start_idx \in Nat \ {0}
                               /\ D.opcode_start_idx = d.opcode_start_idx + k
  BY <1>1 DEF ValidateEffect, Match
<1> QED
  BY <1>5, <1>6, <1>7, <1>8 DEF Match, D, d

(* A semicolon: the two denied ranges are k symbols apart.                  *)
LEMMA MatchEnd ==
    ASSUME NEW C, NEW c, NEW k \in Nat, NEW i \in Nat \ {0}, IsCall(C), IsCall(c),
           Match(C, c, k), SameDenied(C, c, k), c.p.class # "return"
    PROVE  LET D == EndInstruction(C, i + k)
               d == EndInstruction(c, i)
           IN  Match(D, d, k) /\ SameDenied(D, d, k) /\ SameBefore(D, C, k)
<1> DEFINE D == EndInstruction(C, i + k)
           d == EndInstruction(c, i)
<1>1. EndEffect(D, C, i + k) /\ EndEffect(d, c, i) /\ C.p = c.p
  BY EndStep DEF Match
<1>2. OnInstructionEnd(C.p, i + k) = OnInstructionEnd(c.p, i)
  BY <1>1 DEF OnInstructionEnd
<1> HIDE DEF D, d
<1>3. D.p = d.p
  BY <1>1, <1>2 DEF EndEffect, Match
<1>4. Match(D, d, k)
  <2>1. ~D.denying /\ ~d.denying
    BY <1>1 DEF EndEffect, Match
  <2>2. d.opcode_in_this_call => /\ D.opcode_in_this_call
                                 /\ d.opcode_start_idx \in Nat \ {0}
                                 /\ D.opcode_start_idx = d.opcode_start_idx + k
    BY <1>1 DEF EndEffect, Match
  <2> QED
    BY <1>3, <2>1, <2>2 DEF Match
<1>5. CASE c.denying
  <2>1. /\ c.opcode_start_idx \in Nat \ {0}
        /\ D.denied_ranges = C.denied_ranges \cup {(c.opcode_start_idx + k)..(i + k)}
        /\ d.denied_ranges = c.denied_ranges \cup {c.opcode_start_idx..i}
    BY <1>1, <1>5 DEF EndEffect, Match
  <2>2. \A x : /\ x \in Denied(D) <=> x \in Denied(C) \/ x \in (c.opcode_start_idx + k)..(i + k)
               /\ x \in Denied(d) <=> x \in Denied(c) \/ x \in c.opcode_start_idx..i
    BY <2>1 DEF Denied
  <2>3. SameDenied(D, d, k)
    <3>1. \A x \in Nat \ {0} : /\ x + k \in (c.opcode_start_idx + k)..(i + k)
                                  <=> x \in c.opcode_start_idx..i
      BY <2>1
    <3> QED
      BY <2>2, <3>1 DEF SameDenied
  <2>4. SameBefore(D, C, k)
    BY <2>1, <2>2 DEF SameBefore
  <2> QED
    BY <1>4, <2>3, <2>4 DEF D, d
<1>6. CASE ~c.denying
  <2>1. SameDenied(D, d, k) /\ SameBefore(D, C, k)
    BY <1>1, <1>6 DEF EndEffect, Match, SameDenied, SameBefore, Denied
  <2> QED
    BY <1>4, <2>1 DEF D, d
<1> QED
  BY <1>5, <1>6

(* The next element.                                                        *)
LEMMA MatchNextElement ==
    ASSUME NEW C, NEW c, NEW k \in Nat, IsCall(C), IsCall(c),
           Match(C, c, k), SameDenied(C, c, k)
    PROVE  LET D == NextElement(C)
               d == NextElement(c)
           IN  Match(D, d, k) /\ SameDenied(D, d, k) /\ SameBefore(D, C, k)
<1>1. NextElementEffect(NextElement(C), C) /\ NextElementEffect(NextElement(c), c)
  BY NextElementStep
<1>2. NextElement(C).p = NextElement(c).p
  BY <1>1 DEF NextElementEffect, Match
<1>3. SameLocals(NextElement(C), C) /\ SameLocals(NextElement(c), c)
  BY <1>1 DEF NextElementEffect
<1> QED
  BY <1>2, <1>3, MatchLocals

(* A delimiter, unless it corrupts the piece.                               *)
LEMMA MatchDelim ==
    ASSUME NEW C, NEW c, NEW k \in Nat, NEW i \in Nat \ {0}, NEW s, IsCall(C), IsCall(c),
           Match(C, c, k), SameDenied(C, c, k), c.p.class # "return",
           ~Corrupted(ReadDelim(c, i, s))
    PROVE  LET D == ReadDelim(C, i + k, s)
               d == ReadDelim(c, i, s)
           IN  Match(D, d, k) /\ SameDenied(D, d, k) /\ SameBefore(D, C, k)
<1> DEFINE V == Validate(C)
           v == Validate(c)
           E == EndInstruction(V, i + k)
           e == EndInstruction(v, i)
<1>1. s \in {Comma, Semicolon} /\ ~Corrupted(v)
  <2>1. Corrupted(Corrupt(c))
    BY CorruptStep
  <2> QED
    BY <2>1 DEF ReadDelim, Corrupted
<1>2. Match(V, v, k) /\ SameDenied(V, v, k) /\ SameBefore(V, C, k)
  BY <1>1, MatchValidate
<1>3. Continues(V, C) /\ Continues(v, c)
  BY ValidateStep DEF ValidateEffect
<1>4. V.p.state # "STREAM_CORRUPTED" /\ v.p.state # "STREAM_CORRUPTED"
  BY <1>1, <1>2 DEF Match, Corrupted
<1> HIDE DEF V, v
<1>5. CASE s = Comma
  <2>1. ReadDelim(C, i + k, s) = NextElement(V) /\ ReadDelim(c, i, s) = NextElement(v)
    BY <1>4, <1>5 DEF ReadDelim, V, v, Comma, Semicolon
  <2>2. /\ Match(NextElement(V), NextElement(v), k)
        /\ SameDenied(NextElement(V), NextElement(v), k)
        /\ SameBefore(NextElement(V), V, k)
    BY <1>2, <1>3, MatchNextElement DEF Continues
  <2> QED
    BY <1>2, <2>1, <2>2 DEF SameBefore
<1>6. CASE s = Semicolon
  <2>1. /\ ReadDelim(C, i + k, s) = NextElement(E)
        /\ ReadDelim(c, i, s) = NextElement(e)
    BY <1>4, <1>6 DEF ReadDelim, V, v, Comma, Semicolon
  <2>2. v.p.class # "return" /\ IsCall(V) /\ IsCall(v)
    BY <1>3 DEF Continues
  <2>3. Match(E, e, k) /\ SameDenied(E, e, k) /\ SameBefore(E, V, k)
    BY <1>2, <2>2, MatchEnd
  <2>4. IsCall(E) /\ IsCall(e)
    BY <2>2, EndStep DEF EndEffect, Continues
  <2> HIDE DEF E, e
  <2>5. /\ Match(NextElement(E), NextElement(e), k)
        /\ SameDenied(NextElement(E), NextElement(e), k)
        /\ SameBefore(NextElement(E), E, k)
    BY <2>3, <2>4, MatchNextElement
  <2> QED
    BY <1>2, <2>1, <2>3, <2>5 DEF SameBefore
<1> QED
  BY <1>1, <1>5, <1>6

(* One symbol of the piece, unless it corrupts it.                          *)
LEMMA MatchByte ==
    ASSUME NEW C, NEW c, NEW k \in Nat, NEW i \in Nat \ {0}, NEW s, IsCall(C), IsCall(c),
           Match(C, c, k), SameDenied(C, c, k), c.p.class # "return",
           ~Corrupted(ParseByte(c, i, s))
    PROVE  LET D == ParseByte(C, i + k, s)
               d == ParseByte(c, i, s)
           IN  Match(D, d, k) /\ SameDenied(D, d, k) /\ SameBefore(D, C, k)
<1>1. C.p = c.p
  BY DEF Match
<1>2. ~Corrupted(c)
  BY DEF ParseByte, Corrupted
<1>3. CASE c.p.state = "READING_LENGTH"
  <2>1. s[1] = "length"
    BY <1>3, CorruptStep DEF ParseByte
  <2>2. /\ ParseByte(C, i + k, s) = ReadLength(C, i + k, s[2])
        /\ ParseByte(c, i, s) = ReadLength(c, i, s[2])
    BY <1>1, <1>3, <2>1 DEF ParseByte
  <2> QED
    BY <2>2, MatchLength
<1>4. CASE c.p.state = "READING_DATA"
  <2>1. ParseByte(C, i + k, s) = ReadData(C, s) /\ ParseByte(c, i, s) = ReadData(c, s)
    BY <1>1, <1>4 DEF ParseByte
  <2> QED
    BY <2>1, MatchData
<1>5. CASE c.p.state = "EXPECT_DELIM"
  <2>1. /\ ParseByte(C, i + k, s) = ReadDelim(C, i + k, s)
        /\ ParseByte(c, i, s) = ReadDelim(c, i, s)
    BY <1>1, <1>5 DEF ParseByte
  <2> QED
    BY <2>1, MatchDelim
<1> QED
  BY <1>2, <1>3, <1>4, <1>5 DEF IsCall, IsParser, Corrupted

(* What is denied was read before.                                          *)
Within(c, i) == c.opcode_start_idx \in Nat /\ Denied(c) \subseteq 0..i

(* Nothing more is denied.                                                  *)
LEMMA WithinLocals ==
    ASSUME NEW c, NEW d, NEW i \in Nat \ {0}, Within(c, i - 1) \/ Within(c, i),
           d.opcode_start_idx = c.opcode_start_idx, d.denied_ranges = c.denied_ranges
    PROVE  Within(d, i)
  BY DEF Within, Denied

(* A delimiter denies what was read up to it.                               *)
LEMMA WithinDelim ==
    ASSUME NEW c, NEW i \in Nat \ {0}, NEW s, IsCall(c), Within(c, i - 1)
    PROVE  Within(ReadDelim(c, i, s), i)
<1> DEFINE v == Validate(c)
           e == EndInstruction(v, i)
<1>1. ValidateEffect(v, c) /\ IsCall(v)
  BY ValidateStep DEF ValidateEffect, Continues
<1>2. EndEffect(e, v, i) /\ IsCall(e)
  BY <1>1, EndStep DEF EndEffect, Continues
<1>3. SameLocals(Corrupt(c), c)
  BY CorruptStep
<1>4. NextElementEffect(NextElement(v), v) /\ NextElementEffect(NextElement(e), e)
  BY <1>1, <1>2, NextElementStep
<1>5. ReadDelim(c, i, s) \in {Corrupt(c), v, NextElement(v), NextElement(e)}
  BY DEF ReadDelim
<1> HIDE DEF v, e
<1>6. Within(Corrupt(c), i)
  BY <1>3, WithinLocals DEF SameLocals
<1>7. Within(v, i)
  BY <1>1, WithinLocals DEF ValidateEffect
<1>8. Within(NextElement(v), i)
  BY <1>4, <1>7, WithinLocals DEF NextElementEffect, SameLocals
<1>9. Within(e, i)
  <2>1. CASE v.denying
    <3>1. /\ v.opcode_start_idx \in Nat /\ e.opcode_start_idx = v.opcode_start_idx
          /\ e.denied_ranges = v.denied_ranges \cup {v.opcode_start_idx..i}
      BY <1>2, <1>7, <2>1 DEF EndEffect, Within
    <3>2. v.opcode_start_idx..i \subseteq 0..i
      BY <3>1
    <3>3. Denied(e) = Denied(v) \cup (v.opcode_start_idx..i)
      BY <3>1 DEF Denied
    <3> QED
      BY <1>7, <3>1, <3>2, <3>3 DEF Within
  <2>2. CASE ~v.denying
    <3>1. e.opcode_start_idx = v.opcode_start_idx /\ e.denied_ranges = v.denied_ranges
      BY <1>2, <2>2 DEF EndEffect, SameLocals
    <3> QED
      BY <1>7, <3>1, WithinLocals
  <2> QED
    BY <2>1, <2>2
<1>10. Within(NextElement(e), i)
  BY <1>4, <1>9, WithinLocals DEF NextElementEffect, SameLocals
<1> QED
  BY <1>5, <1>6, <1>7, <1>8, <1>10

(* So does any symbol.                                                      *)
LEMMA WithinByte ==
    ASSUME NEW c, NEW i \in Nat \ {0}, NEW s, IsCall(c), Within(c, i - 1)
    PROVE  Within(ParseByte(c, i, s), i)
<1>1. ParseByte(c, i, s) \in {c, ReadLength(c, i, s[2]), Corrupt(c), ReadData(c, s),
                              ReadDelim(c, i, s)}
  BY DEF ParseByte, IsCall, IsParser
<1>2. Within(c, i)
  BY WithinLocals
<1>3. Within(Corrupt(c), i)
  <2>1. SameLocals(Corrupt(c), c)
    BY CorruptStep
  <2> QED
    BY <2>1, WithinLocals DEF SameLocals
<1>4. Within(ReadData(c, s), i)
  <2>1. SameLocals(ReadData(c, s), c)
    BY DataStep DEF DataEffect
  <2> QED
    BY <2>1, WithinLocals DEF SameLocals
<1>5. Within(ReadLength(c, i, s[2]), i)
  <2> DEFINE d == ReadLength(c, i, s[2])
  <2>1. LengthEffect(d, c, i, s[2])
    BY LengthStep
  <2> HIDE DEF d
  <2>2. CASE Oversized(c.p, s[2])
    <3>1. d = Corrupt(c)
      BY <2>1, <2>2 DEF LengthEffect
    <3> QED
      BY <1>3, <3>1 DEF d
  <2>3. CASE ~Oversized(c.p, s[2])
    <3>1. d.denied_ranges = c.denied_ranges /\ d.opcode_start_idx \in {i, c.opcode_start_idx}
      BY <2>1, <2>3 DEF LengthEffect
    <3>2. d.opcode_start_idx \in Nat
      BY <3>1 DEF Within
    <3> QED
      BY <1>2, <3>1, <3>2 DEF Within, Denied, d
  <2> QED
    BY <2>2, <2>3
<1>6. Within(ReadDelim(c, i, s), i)
  BY WithinDelim
<1> QED
  BY <1>1, <1>2, <1>3, <1>4, <1>5, <1>6

(* The calls of a stream are calls of one object.                           *)
LEMMA CallsAreCalls ==
    ASSUME NEW p, NEW data, Len(data) \in Nat, IsParser(p), NEW i \in 0..Len(data)
    PROVE  IsCall(Calls(p, data)[i]) /\ Calls(p, data)[i].p.class = p.class
<1> DEFINE f == Calls(p, data)
           T == {j \in Nat : j <= Len(data) => IsCall(f[j]) /\ f[j].p.class = p.class}
<1>1. 0 \in T
  BY CallsEquation, NewCall
<1>2. ASSUME NEW j \in 1..Len(data), j - 1 \in T PROVE j \in T
  <2>1. IsCall(f[j - 1]) /\ f[j - 1].p.class = p.class
    BY <1>2
  <2>2. f[j] = ParseByte(f[j - 1], j, data[j])
    BY CallsEquation
  <2> HIDE DEF f
  <2>3. Continues(f[j], f[j - 1])
    BY <2>1, <2>2, ByteStep
  <2> QED
    BY <2>1, <2>3 DEF Continues
<1>3. 0..Len(data) \subseteq T
  <2> HIDE DEF f
  <2>1. T \in SUBSET Nat
    OBVIOUS
  <2> HIDE DEF T
  <2> QED
    BY <1>1, <1>2, <2>1, CountingUp
<1> QED
  BY <1>3

(* What is denied by the i-th symbol lies within the first i.               *)
LEMMA CallsWithin ==
    ASSUME NEW p, NEW data, Len(data) \in Nat, IsParser(p), NEW i \in 0..Len(data)
    PROVE  Within(Calls(p, data)[i], i)
<1> DEFINE f == Calls(p, data)
           T == {j \in Nat : j <= Len(data) => Within(f[j], j)}
<1>1. 0 \in T
  <2>1. f[0] = Call(p)
    BY CallsEquation
  <2>2. Within(Call(p), 0)
    BY DEF Call, Within, Denied
  <2> QED
    BY <2>1, <2>2
<1>2. ASSUME NEW j \in 1..Len(data), j - 1 \in T PROVE j \in T
  <2>1. IsCall(f[j - 1]) /\ Within(f[j - 1], j - 1)
    BY <1>2, CallsAreCalls
  <2>2. f[j] = ParseByte(f[j - 1], j, data[j])
    BY CallsEquation
  <2> HIDE DEF f
  <2>3. Within(f[j], j)
    BY <2>1, <2>2, WithinByte
  <2> QED
    BY <2>3
<1>3. 0..Len(data) \subseteq T
  <2> HIDE DEF f
  <2>1. T \in SUBSET Nat
    OBVIOUS
  <2> HIDE DEF T
  <2> QED
    BY <1>1, <1>2, <2>1, CountingUp
<1> QED
  BY <1>3

(* A corrupted call stays as it is.                                         *)
LEMMA CorruptedStays ==
    ASSUME NEW p, NEW data, Len(data) \in Nat, NEW i \in 0..Len(data),
           Corrupted(Calls(p, data)[i])
    PROVE  Calls(p, data)[Len(data)] = Calls(p, data)[i]
<1> DEFINE f == Calls(p, data)
           T == {j \in Nat : j + i <= Len(data) => f[j + i] = f[i]}
<1>1. 0 \in T
  OBVIOUS
<1>2. ASSUME NEW j \in 1..(Len(data) - i), j - 1 \in T PROVE j \in T
  <2>1. f[j + i - 1] = f[i] /\ j + i \in 1..Len(data)
    BY <1>2
  <2>2. f[j + i] = ParseByte(f[j + i - 1], j + i, data[j + i])
    BY <2>1, CallsEquation
  <2> HIDE DEF f
  <2>3. Corrupted(f[i])
    BY DEF f
  <2>4. ParseByte(f[i], j + i, data[j + i]) = f[i]
    BY <2>3 DEF ParseByte, Corrupted
  <2> QED
    BY <2>1, <2>2, <2>4
<1>3. 0..(Len(data) - i) \subseteq T
  <2> HIDE DEF f
  <2>1. T \in SUBSET Nat /\ Len(data) - i \in Nat
    OBVIOUS
  <2> HIDE DEF T
  <2> QED
    BY <1>1, <1>2, <2>1, CountingUp
<1>4. Len(data) - i \in T
  <2> HIDE DEF T
  <2> QED
    BY <1>3
<1>5. (Len(data) - i) + i = Len(data)
  OBVIOUS
<1> QED
  BY <1>4, <1>5

(* The first symbols do not see the ones behind them.                       *)
LEMMA CallsPrefix ==
    ASSUME NEW S, NEW a \in Seq(S), NEW b \in Seq(S), NEW p, NEW i \in 0..Len(a)
    PROVE  Calls(p, a \o b)[i] = Calls(p, a)[i]
<1> DEFINE f == Calls(p, a \o b)
           g == Calls(p, a)
           T == {j \in Nat : j <= Len(a) => f[j] = g[j]}
<1>0. /\ Len(a) \in Nat /\ Len(a \o b) = Len(a) + Len(b) /\ Len(b) \in Nat
      /\ \A j \in 1..Len(a) : (a \o b)[j] = a[j]
  OBVIOUS
<1>1. 0 \in T
  BY <1>0, CallsEquation
<1>2. ASSUME NEW j \in 1..Len(a), j - 1 \in T PROVE j \in T
  <2>1. f[j - 1] = g[j - 1]
    BY <1>0, <1>2
  <2>2. Len(a \o b) \in Nat /\ j \in 1..Len(a \o b)
    BY <1>0
  <2>3. f[j] = ParseByte(f[j - 1], j, (a \o b)[j])
    BY <2>2, CallsEquation
  <2>4. g[j] = ParseByte(g[j - 1], j, a[j])
    BY <1>0, CallsEquation
  <2> HIDE DEF f, g
  <2> QED
    BY <1>0, <2>1, <2>3, <2>4
<1>3. 0..Len(a) \subseteq T
  <2> HIDE DEF f, g
  <2>1. T \in SUBSET Nat /\ Len(a) \in Nat
    BY <1>0
  <2> HIDE DEF T
  <2> QED
    BY <1>1, <1>2, <2>1, CountingUp
<1> QED
  BY <1>3

(* A call that ends uncorrupted ends outside a denied instruction, and was  *)
(* never corrupted.                                                         *)
LEMMA CleanCall ==
    ASSUME NEW p, NEW data, Len(data) \in Nat, IsParser(p), ~Corrupted(Parse(p, data))
    PROVE  /\ Parse(p, data) = Calls(p, data)[Len(data)]
           /\ ~Calls(p, data)[Len(data)].denying
           /\ \A i \in 0..Len(data) : ~Corrupted(Calls(p, data)[i])
<1> DEFINE last == Calls(p, data)[Len(data)]
<1>1. IsCall(last)
  BY CallsAreCalls
<1>2. Corrupted(Corrupt(last))
  BY <1>1, CorruptStep
<1>3. ~last.denying /\ Parse(p, data) = last
  BY <1>2 DEF Parse, EndOfCall
<1>4. ASSUME NEW i \in 0..Len(data), Corrupted(Calls(p, data)[i]) PROVE FALSE
  BY <1>3, <1>4, CorruptedStays
<1> QED
  BY <1>3, <1>4

(***************************************************************************)
(* Where the stream is cut into packets does not matter, as long as no     *)
(* piece corrupts its parser: read in one piece it leaves the same parser, *)
(* and the same symbols of it are denied.  So a cut may corrupt a stream   *)
(* (a denied instruction that does not end in its packet does), but it     *)
(* cannot let through what would be denied, nor deny what would pass.      *)
(* (OpcodeParser::Parse carries its state from call to call.)  The return  *)
(* filter, whose ready_end is an index into the packet, has a theorem of   *)
(* its own (ReturnCuts).                                                   *)
(***************************************************************************)
THEOREM CutsOnlyCorrupt ==
    ASSUME NEW S, NEW a \in Seq(S), NEW b \in Seq(S), NEW p, IsParser(p),
           p.class # "return",
           ~Corrupted(Parse(p, a)), ~Corrupted(Parse(Parse(p, a).p, b))
    PROVE  LET one == Parse(p, a \o b)
               first == Parse(p, a)
               second == Parse(first.p, b)
           IN  /\ one.p = second.p
               /\ \A x \in 1..Len(a) : x \in Denied(one) <=> x \in Denied(first)
               /\ \A x \in 1..Len(b) : x + Len(a) \in Denied(one) <=> x \in Denied(second)
<1> DEFINE la == Len(a)
           lb == Len(b)
           q == Parse(p, a).p
           W == Calls(p, a \o b)
           A == Calls(p, a)
           B == Calls(q, b)
<1>1. /\ la \in Nat /\ lb \in Nat /\ Len(a \o b) = la + lb
      /\ \A j \in 1..lb : (a \o b)[la + j] = b[j]
  OBVIOUS
<1>2. /\ Parse(p, a) = A[la] /\ ~A[la].denying
  BY <1>1, CleanCall
<1>3. W[la] = A[la]
  BY <1>1, CallsPrefix
<1>4. IsParser(q) /\ q.class = p.class
  <2>1. IsCall(A[la]) /\ A[la].p.class = p.class
    BY <1>1, CallsAreCalls
  <2> QED
    BY <1>2, <2>1 DEF IsCall
<1>5. /\ Parse(q, b) = B[lb] /\ ~B[lb].denying
      /\ \A j \in 0..lb : ~Corrupted(B[j])
  BY <1>1, <1>4, CleanCall
<1>6. ASSUME NEW j \in 0..lb
      PROVE  IsCall(W[la + j]) /\ IsCall(B[j]) /\ B[j].p.class # "return"
  <2>1. Len(a \o b) \in Nat /\ la + j \in 0..Len(a \o b)
    BY <1>1
  <2>2. IsCall(W[la + j])
    BY <2>1, CallsAreCalls
  <2>3. IsCall(B[j]) /\ B[j].p.class = q.class
    BY <1>1, <1>4, CallsAreCalls
  <2> QED
    BY <1>4, <2>2, <2>3
<1>7. ASSUME NEW j \in 1..lb
      PROVE  /\ W[la + j] = ParseByte(W[la + (j - 1)], la + j, b[j])
             /\ B[j] = ParseByte(B[j - 1], j, b[j])
  <2>1. Len(a \o b) \in Nat /\ la + j \in 1..Len(a \o b) /\ (la + j) - 1 = la + (j - 1)
    BY <1>1
  <2>2. W[la + j] = ParseByte(W[(la + j) - 1], la + j, (a \o b)[la + j])
    BY <2>1, CallsEquation
  <2>3. B[j] = ParseByte(B[j - 1], j, b[j])
    BY <1>1, CallsEquation
  <2> QED
    BY <1>1, <2>1, <2>2, <2>3
<1>8. /\ Match(W[la], B[0], la) /\ SameDenied(W[la], B[0], la)
  <2>1. B[0] = Call(q) /\ Call(q).p = q
    BY <1>1, <1>4, CallsEquation, NewCall
  <2>2. Within(W[la], la)
    BY <1>1, <1>3, CallsWithin
  <2>3. W[la].p = q /\ ~W[la].denying
    BY <1>2, <1>3
  <2>4. /\ ~Call(q).denying /\ ~Call(q).opcode_in_this_call
        /\ Denied(Call(q)) = {}
    BY DEF Call, Denied
  <2> HIDE DEF q, W, B, la
  <2>5. \A x \in Nat \ {0} : x + la \notin Denied(W[la])
    BY <1>1, <2>2 DEF Within
  <2> QED
    BY <2>1, <2>3, <2>4, <2>5 DEF Match, SameDenied
<1> DEFINE T == {j \in Nat : j <= lb => /\ Match(W[la + j], B[j], la)
                                        /\ SameDenied(W[la + j], B[j], la)
                                        /\ SameBefore(W[la + j], W[la], la)}
<1> HIDE DEF W, B, q, A, la, lb
<1>9. 0 \in T
  <2>1. la + 0 = la
    BY <1>1
  <2> QED
    BY <1>8, <2>1 DEF SameBefore
<1>10. ASSUME NEW j \in 1..lb, j - 1 \in T PROVE j \in T
  <2>1. /\ Match(W[la + (j - 1)], B[j - 1], la)
        /\ SameDenied(W[la + (j - 1)], B[j - 1], la)
        /\ SameBefore(W[la + (j - 1)], W[la], la)
    BY <1>1, <1>10
  <2>2. IsCall(W[la + (j - 1)]) /\ IsCall(B[j - 1]) /\ B[j - 1].p.class # "return"
    <3>1. j - 1 \in 0..lb
      BY <1>1
    <3> QED
      BY <1>6, <3>1
  <2>3. ~Corrupted(ParseByte(B[j - 1], j, b[j]))
    BY <1>1, <1>5, <1>7
  <2>4. la + j = j + la /\ la \in Nat /\ j \in Nat \ {0}
    BY <1>1
  <2>5. W[la + j] = ParseByte(W[la + (j - 1)], j + la, b[j]) /\ B[j] = ParseByte(B[j - 1], j, b[j])
    BY <1>7, <2>4
  <2> DEFINE C == W[la + (j - 1)]
             c == B[j - 1]
             D == W[la + j]
             d == B[j]
             s == b[j]
  <2> HIDE DEF C, c, D, d, s
  <2>6. Match(D, d, la) /\ SameDenied(D, d, la) /\ SameBefore(D, C, la)
    <3>1. D = ParseByte(C, j + la, s) /\ d = ParseByte(c, j, s)
      BY <2>5 DEF C, c, D, d, s
    <3>2. /\ IsCall(C) /\ IsCall(c) /\ Match(C, c, la) /\ SameDenied(C, c, la)
          /\ c.p.class # "return" /\ ~Corrupted(ParseByte(c, j, s))
      BY <2>1, <2>2, <2>3 DEF C, c, s
    <3> QED
      BY <2>4, <3>1, <3>2, MatchByte
  <2>7. SameBefore(D, W[la], la)
    BY <2>1, <2>6 DEF SameBefore, C
  <2> QED
    BY <2>6, <2>7 DEF D, d
<1>11. lb \in T
  <2>1. T \in SUBSET Nat
    OBVIOUS
  <2> HIDE DEF T
  <2>2. 0..lb \subseteq T
    BY <1>1, <1>9, <1>10, <2>1, CountingUp
  <2> QED
    BY <1>1, <2>2
<1>12. /\ Match(W[la + lb], B[lb], la)
       /\ SameDenied(W[la + lb], B[lb], la)
       /\ SameBefore(W[la + lb], W[la], la)
  BY <1>1, <1>11
<1>13. Parse(p, a \o b) = W[la + lb]
  BY <1>1, <1>5, <1>12 DEF Match, Parse, EndOfCall, W, la, lb
<1>14. /\ W[la + lb].p = B[lb].p
       /\ \A x \in 1..la : x \in Denied(W[la + lb]) <=> x \in Denied(W[la])
       /\ \A x \in 1..lb : x + la \in Denied(W[la + lb]) <=> x \in Denied(B[lb])
  <2>1. 1..lb \subseteq Nat \ {0}
    BY <1>1
  <2>2. \A x \in 1..lb : x + la \in Denied(W[la + lb]) <=> x \in Denied(B[lb])
    BY <1>12, <2>1 DEF SameDenied
  <2>3. \A x \in 1..la : x \in Denied(W[la + lb]) <=> x \in Denied(W[la])
    BY <1>12 DEF SameBefore
  <2>4. W[la + lb].p = B[lb].p
    BY <1>12 DEF Match
  <2> QED
    BY <2>2, <2>3, <2>4
<1> QED
  BY <1>2, <1>3, <1>5, <1>13, <1>14 DEF la, lb, q

-----------------------------------------------------------------------------
(* What a call denies.                                                      *)

(* The next symbol is the length of an opcode.                              *)
Begins(c) == c.p.state = "READING_LENGTH" /\ c.p.reading_opcode

(* The symbol s ends an element that the hooks refuse.                      *)
Refusal(c, s) ==
    c.p.state = "EXPECT_DELIM" /\ s \in {Comma, Semicolon} /\ Refuses(c)

(* The symbol s ends an instruction.                                        *)
Finishes(c, s) == c.p.state = "EXPECT_DELIM" /\ s = Semicolon

(* One symbol, as far as denying goes.                                      *)
DenyEffect(d, c, i, s) ==
    /\ d.opcode_start_idx = IF Begins(c) THEN i ELSE c.opcode_start_idx
    /\ d.opcode_in_this_call <=> Begins(c) \/ c.opcode_in_this_call
    /\ Refusal(c, s) => c.opcode_in_this_call
    /\ c.denying \/ Refusal(c, s) => ~Begins(c)
    /\ (c.denying \/ Refusal(c, s)) /\ Finishes(c, s) =>
          ~d.denying /\ d.denied_ranges = c.denied_ranges \cup {c.opcode_start_idx..i}
    /\ (c.denying \/ Refusal(c, s)) /\ ~Finishes(c, s) =>
          d.denying /\ ~d.p.reading_opcode /\ d.denied_ranges = c.denied_ranges
    /\ ~c.denying /\ ~Refusal(c, s) =>
          ~d.denying /\ d.denied_ranges = c.denied_ranges

(* A delimiter, as far as denying goes.                                     *)
LEMMA DenyDelim ==
    ASSUME NEW c, NEW i, NEW s, IsCall(c), c.p.state = "EXPECT_DELIM",
           c.denying => ~c.p.reading_opcode, ~Corrupted(ReadDelim(c, i, s))
    PROVE  DenyEffect(ReadDelim(c, i, s), c, i, s)
<1> DEFINE v == Validate(c)
           e == EndInstruction(v, i)
<1>1. s \in {Comma, Semicolon} /\ ~Corrupted(v)
  <2>1. Corrupted(Corrupt(c))
    BY CorruptStep
  <2> QED
    BY <2>1 DEF ReadDelim, Corrupted
<1>2. ValidateEffect(v, c) /\ IsCall(v)
  BY ValidateStep DEF ValidateEffect, Continues
<1>3. EndEffect(e, v, i) /\ IsCall(e)
  BY <1>2, EndStep DEF EndEffect, Continues
<1>4. NextElementEffect(NextElement(v), v) /\ NextElementEffect(NextElement(e), e)
  BY <1>2, <1>3, NextElementStep
<1>5. ReadDelim(c, i, s) = IF s = Comma THEN NextElement(v) ELSE NextElement(e)
  BY <1>1 DEF ReadDelim, Corrupted, Comma, Semicolon
<1>7. ~Begins(c) /\ (Refusal(c, s) <=> Refuses(c)) /\ (Finishes(c, s) <=> s # Comma)
  <2>1. Comma # Semicolon
    BY DEF Comma, Semicolon
  <2>2. ~Begins(c)
    BY DEF Begins
  <2>3. Refusal(c, s) <=> Refuses(c)
    BY <1>1 DEF Refusal
  <2>4. Finishes(c, s) <=> s # Comma
    BY <1>1, <2>1 DEF Finishes
  <2> QED
    BY <2>2, <2>3, <2>4
<1> HIDE DEF v, e
<1>8. /\ v.opcode_start_idx = c.opcode_start_idx
      /\ v.opcode_in_this_call = c.opcode_in_this_call
      /\ v.denied_ranges = c.denied_ranges
      /\ Refuses(c) => c.opcode_in_this_call
  BY <1>1, <1>2 DEF ValidateEffect
<1>9. v.denying <=> c.denying \/ Refuses(c)
  <2>1. CASE c.denying
    BY <1>2, <2>1 DEF ValidateEffect
  <2>2. CASE Refuses(c)
    BY <1>2, <1>8, <2>2 DEF ValidateEffect
  <2>3. CASE ~c.denying /\ ~Refuses(c)
    <3>1. v.denying = c.denying
      BY <1>2, <2>3 DEF ValidateEffect
    <3> QED
      BY <2>3, <3>1
  <2> QED
    BY <2>1, <2>2, <2>3
<1>10. v.denying => ~v.p.reading_opcode
  <2>1. CASE c.denying
    BY <1>2, <2>1 DEF ValidateEffect
  <2>2. CASE Refuses(c)
    <3>1. v.p = [Hook(c).p EXCEPT !.reading_opcode = FALSE]
      BY <1>2, <1>8, <2>2 DEF ValidateEffect
    <3>2. IsParser(Hook(c).p)
      BY BeginHook, ArgumentHook DEF Hook, IsCall
    <3> QED
      BY <3>1, <3>2 DEF IsParser
  <2> QED
    BY <1>9, <2>1, <2>2
<1>11. CASE s = Comma
  <2> DEFINE d == NextElement(v)
  <2>1. SameLocals(d, v) /\ d.p = [v.p EXCEPT !.current_length = -1, !.state = "READING_LENGTH"]
    BY <1>4 DEF NextElementEffect
  <2>2. d.p.reading_opcode = v.p.reading_opcode
    BY <1>2, <2>1 DEF IsCall, IsParser
  <2> HIDE DEF d
  <2>3. DenyEffect(d, c, i, s)
    BY <1>7, <1>8, <1>9, <1>10, <1>11, <2>1, <2>2 DEF SameLocals, DenyEffect
  <2> QED
    BY <1>5, <1>11, <2>3 DEF d
<1>12. CASE s # Comma
  <2> DEFINE d == NextElement(e)
  <2>1. SameLocals(d, e)
    BY <1>4 DEF NextElementEffect
  <2> HIDE DEF d
  <2>2. /\ e.opcode_start_idx = v.opcode_start_idx
        /\ e.opcode_in_this_call = v.opcode_in_this_call
        /\ ~e.denying
        /\ v.denying => e.denied_ranges = v.denied_ranges \cup {v.opcode_start_idx..i}
        /\ ~v.denying => e.denied_ranges = v.denied_ranges
    BY <1>3 DEF EndEffect
  <2>3. DenyEffect(d, c, i, s)
    BY <1>7, <1>8, <1>9, <1>12, <2>1, <2>2 DEF SameLocals, DenyEffect
  <2> QED
    BY <1>5, <1>12, <2>3 DEF d
<1> QED
  BY <1>11, <1>12

(* Any symbol, as far as denying goes.                                      *)
LEMMA DenyByte ==
    ASSUME NEW c, NEW i, NEW s, IsCall(c), c.denying => ~c.p.reading_opcode,
           ~Corrupted(ParseByte(c, i, s))
    PROVE  DenyEffect(ParseByte(c, i, s), c, i, s)
<1>1. ~Corrupted(c)
  BY DEF ParseByte, Corrupted
<1>2. CASE c.p.state = "READING_LENGTH"
  <2> DEFINE d == ReadLength(c, i, s[2])
  <2>1. s[1] = "length"
    BY <1>2, CorruptStep DEF ParseByte
  <2>2. ParseByte(c, i, s) = d
    BY <1>2, <2>1 DEF ParseByte
  <2>3. LengthEffect(d, c, i, s[2]) /\ Corrupted(Corrupt(c))
    BY LengthStep, CorruptStep
  <2> HIDE DEF d
  <2>4. ~Oversized(c.p, s[2])
    BY <2>2, <2>3 DEF LengthEffect
  <2>5. /\ d.denying = c.denying
        /\ d.opcode_in_this_call = (c.opcode_in_this_call \/ c.p.reading_opcode)
        /\ d.opcode_start_idx = IF c.p.reading_opcode THEN i ELSE c.opcode_start_idx
        /\ d.denied_ranges = c.denied_ranges
        /\ d.p.reading_opcode = c.p.reading_opcode
    BY <2>3, <2>4 DEF LengthEffect, IsCall, IsParser
  <2>6. (Begins(c) <=> c.p.reading_opcode) /\ ~Refusal(c, s) /\ ~Finishes(c, s)
    BY <1>2 DEF Begins, Refusal, Finishes
  <2>7. DenyEffect(d, c, i, s)
    BY <2>5, <2>6 DEF DenyEffect
  <2> QED
    BY <2>2, <2>7
<1>3. CASE c.p.state = "READING_DATA"
  <2> DEFINE d == ReadData(c, s)
  <2>1. ParseByte(c, i, s) = d
    BY <1>3 DEF ParseByte
  <2>2. DataEffect(d, c, s)
    BY DataStep
  <2> HIDE DEF d
  <2>3. SameLocals(d, c) /\ d.p.reading_opcode = c.p.reading_opcode
    BY <2>2 DEF DataEffect, IsCall, IsParser
  <2>4. ~Begins(c) /\ ~Refusal(c, s) /\ ~Finishes(c, s)
    BY <1>3 DEF Begins, Refusal, Finishes
  <2>5. DenyEffect(d, c, i, s)
    BY <2>3, <2>4 DEF DenyEffect, SameLocals
  <2> QED
    BY <2>1, <2>5
<1>4. CASE c.p.state = "EXPECT_DELIM"
  <2>1. ParseByte(c, i, s) = ReadDelim(c, i, s)
    BY <1>4 DEF ParseByte
  <2> QED
    BY <1>4, <2>1, DenyDelim
<1> QED
  BY <1>1, <1>2, <1>3, <1>4 DEF IsCall, IsParser, Corrupted

(* The symbols s..j are one instruction: an opcode's length, its semicolon, *)
(* and no other opcode between.                                             *)
IsInstruction(f, data, s, j) ==
    /\ s \in 1..j /\ Begins(f[s - 1]) /\ Finishes(f[j - 1], data[j])
    /\ \A m \in s..j : f[m].opcode_start_idx = s

(* Symbol i ends a refused element, of an instruction that began at Start.  *)
RefusedAt(f, data, i) == Refusal(f[i - 1], data[i])
Start(f, i) == f[i - 1].opcode_start_idx

(* The instruction of the refused element at i ends at j.                   *)
CutOut(f, data, i, j) ==
    i \in Start(f, i)..j /\ IsInstruction(f, data, Start(f, i), j)

(* Where the instruction at hand began, if it did in this call.             *)
Placed(f, k) ==
    f[k].opcode_in_this_call =>
        /\ f[k].opcode_start_idx \in 1..k /\ Begins(f[f[k].opcode_start_idx - 1])
        /\ \A m \in f[k].opcode_start_idx..k :
              f[m].opcode_start_idx = f[k].opcode_start_idx

(* A call denies because of an element of the instruction at hand.          *)
DeniesWithCause(f, data, k) ==
    f[k].denying =>
        /\ ~f[k].p.reading_opcode /\ f[k].opcode_in_this_call
        /\ \E i \in 1..k : RefusedAt(f, data, i) /\ Start(f, i) = f[k].opcode_start_idx

RefusedHere(f, data, k) ==
    \A i \in 1..k : RefusedAt(f, data, i) => Start(f, i) \in 1..i

(* A refused element's instruction is being denied, or has been.            *)
RefusedDenied(f, data, k) ==
    \A i \in 1..k : RefusedAt(f, data, i) =>
        \/ f[k].denying /\ f[k].opcode_start_idx = Start(f, i)
        \/ \E j \in i..k : CutOut(f, data, i, j) /\ Start(f, i)..j \in f[k].denied_ranges

(* A denied range is an instruction with a refused element.                 *)
DeniedRefused(f, data, k) ==
    \A r \in f[k].denied_ranges : \E i \in 1..k : \E j \in i..k :
        RefusedAt(f, data, i) /\ CutOut(f, data, i, j) /\ r = Start(f, i)..j

DenyInv(f, data, k) ==
    /\ Placed(f, k) /\ DeniesWithCause(f, data, k) /\ RefusedHere(f, data, k)
    /\ RefusedDenied(f, data, k) /\ DeniedRefused(f, data, k)

(* One symbol keeps what is known of the refused and the denied.            *)
LEMMA DenyInvStep ==
    ASSUME NEW f, NEW data, NEW k \in Nat \ {0}, DenyInv(f, data, k - 1),
           DenyEffect(f[k], f[k - 1], k, data[k])
    PROVE  DenyInv(f, data, k)
<1> DEFINE c == f[k - 1]
           d == f[k]
           s == data[k]
           Active == c.denying \/ Refusal(c, s)
<1>1. 1..k = 1..(k - 1) \cup {k} /\ k - 1 \in Nat
  OBVIOUS
<1>2. Placed(f, k)
  <2> SUFFICES ASSUME d.opcode_in_this_call
               PROVE  /\ d.opcode_start_idx \in 1..k /\ Begins(f[d.opcode_start_idx - 1])
                      /\ \A m \in d.opcode_start_idx..k :
                            f[m].opcode_start_idx = d.opcode_start_idx
    BY DEF Placed
  <2>1. CASE Begins(c)
    <3>1. d.opcode_start_idx = k
      BY <2>1 DEF DenyEffect
    <3>2. \A m \in k..k : m = k
      OBVIOUS
    <3> QED
      BY <2>1, <3>1, <3>2
  <2>2. CASE ~Begins(c)
    <3>1. d.opcode_start_idx = c.opcode_start_idx /\ c.opcode_in_this_call
      BY <2>2 DEF DenyEffect
    <3>2. /\ c.opcode_start_idx \in 1..(k - 1) /\ Begins(f[c.opcode_start_idx - 1])
          /\ \A m \in c.opcode_start_idx..(k - 1) :
                f[m].opcode_start_idx = c.opcode_start_idx
      BY <3>1 DEF DenyInv, Placed
    <3>3. \A m \in c.opcode_start_idx..k : m = k \/ m \in c.opcode_start_idx..(k - 1)
      BY <3>2
    <3>4. c.opcode_start_idx \in 1..k
      BY <3>2
    <3> HIDE DEF c
    <3> QED
      BY <3>1, <3>2, <3>3, <3>4
  <2> QED
    BY <2>1, <2>2
<1>3. RefusedHere(f, data, k)
  <2>1. ASSUME RefusedAt(f, data, k) PROVE Start(f, k) \in 1..k
    <3>1. c.opcode_in_this_call
      BY <2>1 DEF RefusedAt, DenyEffect
    <3>2. c.opcode_start_idx \in 1..(k - 1)
      BY <3>1 DEF DenyInv, Placed
    <3> QED
      BY <3>2 DEF Start
  <2> QED
    BY <1>1, <2>1 DEF DenyInv, RefusedHere
<1>4. Active => /\ d.opcode_start_idx = c.opcode_start_idx /\ c.opcode_in_this_call
                /\ d.opcode_in_this_call
                /\ \E i \in 1..k : RefusedAt(f, data, i) /\ Start(f, i) = c.opcode_start_idx
  <2>1. CASE Refusal(c, s)
    <3>1. RefusedAt(f, data, k) /\ Start(f, k) = c.opcode_start_idx /\ k \in 1..k
      BY <2>1 DEF RefusedAt, Start
    <3>2. /\ d.opcode_start_idx = c.opcode_start_idx /\ c.opcode_in_this_call
          /\ d.opcode_in_this_call
      BY <2>1 DEF DenyEffect
    <3> QED
      BY <3>1, <3>2
  <2>2. CASE c.denying
    <3>1. /\ c.opcode_in_this_call
          /\ \E i \in 1..(k - 1) : RefusedAt(f, data, i) /\ Start(f, i) = c.opcode_start_idx
      BY <2>2 DEF DenyInv, DeniesWithCause
    <3>2. d.opcode_start_idx = c.opcode_start_idx /\ d.opcode_in_this_call
      BY <2>2, <3>1 DEF DenyEffect
    <3> QED
      BY <1>1, <3>1, <3>2
  <2> QED
    BY <2>1, <2>2
<1>5. DeniesWithCause(f, data, k)
  <2> SUFFICES ASSUME d.denying
               PROVE  /\ ~d.p.reading_opcode /\ d.opcode_in_this_call
                      /\ \E i \in 1..k : RefusedAt(f, data, i)
                                         /\ Start(f, i) = d.opcode_start_idx
    BY DEF DeniesWithCause
  <2>1. Active /\ ~d.p.reading_opcode
    BY DEF DenyEffect
  <2> QED
    BY <1>4, <2>1
<1>6. Active /\ Finishes(c, s) =>
        /\ d.denied_ranges = c.denied_ranges \cup {c.opcode_start_idx..k}
        /\ IsInstruction(f, data, c.opcode_start_idx, k)
  <2> SUFFICES ASSUME Active, Finishes(c, s)
               PROVE  /\ d.denied_ranges = c.denied_ranges \cup {c.opcode_start_idx..k}
                      /\ IsInstruction(f, data, c.opcode_start_idx, k)
    OBVIOUS
  <2>1. d.denied_ranges = c.denied_ranges \cup {c.opcode_start_idx..k}
    BY DEF DenyEffect
  <2>2. d.opcode_start_idx = c.opcode_start_idx /\ d.opcode_in_this_call
    BY <1>4
  <2>3. /\ d.opcode_start_idx \in 1..k /\ Begins(f[d.opcode_start_idx - 1])
        /\ \A m \in d.opcode_start_idx..k : f[m].opcode_start_idx = d.opcode_start_idx
    BY <1>2, <2>2 DEF Placed
  <2> QED
    BY <2>1, <2>2, <2>3 DEF IsInstruction
<1>7. ~(Active /\ Finishes(c, s)) => d.denied_ranges = c.denied_ranges
  BY DEF DenyEffect
<1>8. c.denied_ranges \subseteq d.denied_ranges
  BY <1>6, <1>7
<1>9. DeniedRefused(f, data, k)
  <2> SUFFICES ASSUME NEW r \in d.denied_ranges
               PROVE  \E i \in 1..k : \E j \in i..k :
                         RefusedAt(f, data, i) /\ CutOut(f, data, i, j) /\ r = Start(f, i)..j
    BY DEF DeniedRefused
  <2>1. CASE r \in c.denied_ranges
    <3>1. PICK i \in 1..(k - 1) : \E j \in i..(k - 1) :
             RefusedAt(f, data, i) /\ CutOut(f, data, i, j) /\ r = Start(f, i)..j
      BY <2>1 DEF DenyInv, DeniedRefused
    <3>2. i \in 1..k /\ i..(k - 1) \subseteq i..k
      OBVIOUS
    <3> QED
      BY <3>1, <3>2
  <2>2. CASE r \notin c.denied_ranges
    <3>1. Active /\ r = c.opcode_start_idx..k /\ IsInstruction(f, data, c.opcode_start_idx, k)
      BY <1>6, <1>7, <2>2
    <3>2. PICK i \in 1..k : RefusedAt(f, data, i) /\ Start(f, i) = c.opcode_start_idx
      BY <1>4, <3>1
    <3>3. Start(f, i) \in 1..i
      BY <1>3, <3>2 DEF RefusedHere
    <3>4. CutOut(f, data, i, k) /\ k \in i..k
      BY <3>1, <3>2, <3>3 DEF CutOut
    <3> QED
      BY <3>1, <3>2, <3>4
  <2> QED
    BY <2>1, <2>2
<1>10. RefusedDenied(f, data, k)
  <2> SUFFICES ASSUME NEW i \in 1..k, RefusedAt(f, data, i)
               PROVE  \/ d.denying /\ d.opcode_start_idx = Start(f, i)
                      \/ \E j \in i..k : /\ CutOut(f, data, i, j)
                                         /\ Start(f, i)..j \in d.denied_ranges
    BY DEF RefusedDenied
  <2>1. Start(f, i) \in 1..i
    BY <1>3 DEF RefusedHere
  <2>2. ASSUME Active, Start(f, i) = c.opcode_start_idx
        PROVE  \/ d.denying /\ d.opcode_start_idx = Start(f, i)
               \/ /\ CutOut(f, data, i, k)
                  /\ Start(f, i)..k \in d.denied_ranges
    <3>1. CASE Finishes(c, s)
      BY <1>6, <2>1, <2>2, <3>1 DEF CutOut
    <3>2. CASE ~Finishes(c, s)
      BY <1>4, <2>2, <3>2 DEF DenyEffect
    <3> QED
      BY <3>1, <3>2
  <2>3. CASE i = k
    <3>1. Active /\ Start(f, i) = c.opcode_start_idx
      BY <2>3 DEF RefusedAt, Start
    <3> QED
      BY <2>2, <3>1
  <2>4. CASE i # k
    <3>1. i \in 1..(k - 1) /\ k \in i..k /\ i..(k - 1) \subseteq i..k
      BY <2>4
    <3>2. \/ c.denying /\ c.opcode_start_idx = Start(f, i)
          \/ \E j \in i..(k - 1) : /\ CutOut(f, data, i, j)
                                   /\ Start(f, i)..j \in c.denied_ranges
      BY <3>1 DEF DenyInv, RefusedDenied
    <3> QED
      BY <1>8, <2>2, <3>1, <3>2
  <2> QED
    BY <2>3, <2>4
<1> QED
  BY <1>2, <1>3, <1>5, <1>9, <1>10 DEF DenyInv

(* So it is known all along an uncorrupted call.                            *)
LEMMA CallsDeny ==
    ASSUME NEW p, NEW data, Len(data) \in Nat, IsParser(p), ~Corrupted(Parse(p, data)),
           NEW k \in 0..Len(data)
    PROVE  DenyInv(Calls(p, data), data, k)
<1> DEFINE f == Calls(p, data)
           T == {j \in Nat : j <= Len(data) => DenyInv(f, data, j)}
<1>1. 0 \in T
  <2>1. f[0] = Call(p)
    BY CallsEquation
  <2>2. ~Call(p).denying /\ ~Call(p).opcode_in_this_call /\ Call(p).denied_ranges = {}
    BY DEF Call
  <2>3. DenyInv(f, data, 0)
    <3> HIDE DEF f
    <3> QED
      BY <2>1, <2>2 DEF DenyInv, Placed, DeniesWithCause, RefusedHere, RefusedDenied,
                        DeniedRefused
  <2> QED
    BY <2>3
<1>2. ASSUME NEW j \in 1..Len(data), j - 1 \in T PROVE j \in T
  <2>1. DenyInv(f, data, j - 1) /\ j \in Nat \ {0}
    BY <1>2
  <2>2. f[j] = ParseByte(f[j - 1], j, data[j])
    BY CallsEquation
  <2>3. IsCall(f[j - 1]) /\ ~Corrupted(f[j])
    BY CallsAreCalls, CleanCall
  <2> HIDE DEF f
  <2>4. DenyEffect(f[j], f[j - 1], j, data[j])
    <3>1. f[j - 1].denying => ~f[j - 1].p.reading_opcode
      BY <2>1 DEF DenyInv, DeniesWithCause
    <3> QED
      BY <2>2, <2>3, <3>1, DenyByte
  <2>5. DenyInv(f, data, j)
    BY <2>1, <2>4, DenyInvStep
  <2> QED
    BY <2>5
<1>3. 0..Len(data) \subseteq T
  <2> HIDE DEF f
  <2>1. T \in SUBSET Nat
    OBVIOUS
  <2> HIDE DEF T
  <2> QED
    BY <1>1, <1>2, <2>1, CountingUp
<1> QED
  BY <1>3

(***************************************************************************)
(* What an uncorrupted call of Parse denies is exactly what its hooks      *)
(* refuse: an instruction with a refused element is cut out from the       *)
(* length of its opcode to its semicolon, whichever element it was and     *)
(* however much of the instruction came before or after it, and a range    *)
(* that is cut out is one such instruction.                                *)
(***************************************************************************)
THEOREM DeniedIsRefused ==
    ASSUME NEW p, NEW data, Len(data) \in Nat, IsParser(p), ~Corrupted(Parse(p, data))
    PROVE  LET f == Calls(p, data)
               denied == Parse(p, data).denied_ranges
           IN  /\ \A i \in 1..Len(data) : RefusedAt(f, data, i) =>
                     \E j \in i..Len(data) :
                        CutOut(f, data, i, j) /\ Start(f, i)..j \in denied
               /\ \A r \in denied : \E i \in 1..Len(data) : \E j \in i..Len(data) :
                     RefusedAt(f, data, i) /\ CutOut(f, data, i, j) /\ r = Start(f, i)..j
<1> DEFINE f == Calls(p, data)
           n == Len(data)
<1>1. Parse(p, data) = f[n] /\ ~f[n].denying
  BY CleanCall
<1>2. DenyInv(f, data, n)
  BY CallsDeny
<1> HIDE DEF f
<1> QED
  BY <1>1, <1>2 DEF DenyInv, RefusedDenied, DeniedRefused, f

(* The guard's policy on the element that p has read: the whitelist of      *)
(* opcodes, the cap of a clipboard payload, blobs on the open stream only.  *)
Forbidden(p) ==
    \/ p.reading_opcode /\ ~IsAllowedOpcode(p.element_buffer)
    \/ ~p.reading_opcode /\ p.marked /\ ~(Len(p.element_buffer) <= MAX_BYTES)
    \/ /\ ~p.reading_opcode /\ ~p.marked
       /\ p.current_arg = 0 /\ Is(p.current_opcode, "blob")
       /\ ~OnOpenStream(p, parse_stream_index(p.element_buffer))

(* The guard's hooks refuse what the policy forbids.                        *)
LEMMA ForbiddenIsRefused ==
    ASSUME NEW c, IsCall(c), c.p.class = "guard", ~c.denying, Forbidden(c.p)
    PROVE  Refuses(c)
<1>1. CASE c.p.reading_opcode
  BY <1>1 DEF Forbidden, Refuses, Hook, OnInstructionBegin
<1>2. CASE ~c.p.reading_opcode
  <2> DEFINE e == c.p.element_buffer
             q == [c.p EXCEPT !.current_arg = @ + 1]
  <2>1. /\ q.class = "guard" /\ q.marked = c.p.marked
        /\ q.current_opcode = c.p.current_opcode
        /\ q.clipboard_sidx = c.p.clipboard_sidx
        /\ q.current_arg = c.p.current_arg + 1
    BY DEF IsCall, IsParser
  <2>2. Hook(c) = GuardArgument(q, e)
    BY <1>2, <2>1 DEF Hook, OnArgument
  <2> HIDE DEF q, e
  <2>3. OnOpenStream(q, parse_stream_index(e)) <=> OnOpenStream(c.p, parse_stream_index(e))
    BY <2>1 DEF OnOpenStream
  <2>4. CASE c.p.marked
    <3>1. ~(Len(e) <= MAX_BYTES)
      BY <1>2, <2>4 DEF Forbidden, e
    <3>2. GuardArgument(q, e).allowed = (Len(e) <= MAX_BYTES)
      BY <2>1, <2>4 DEF GuardArgument
    <3> QED
      BY <2>2, <3>1, <3>2 DEF Refuses
  <2>5. CASE ~c.p.marked
    <3>1. /\ c.p.current_arg = 0 /\ Is(c.p.current_opcode, "blob")
          /\ ~OnOpenStream(q, parse_stream_index(e))
      BY <1>2, <2>3, <2>5 DEF Forbidden, e
    <3>2. ~q.marked /\ q.current_arg = 1 /\ Is(q.current_opcode, "blob")
      BY <2>1, <2>5, <3>1
    <3>3. GuardArgument(q, e).allowed = OnOpenStream(q, parse_stream_index(e))
      BY <3>2 DEF GuardArgument
    <3> QED
      BY <2>2, <3>1, <3>3 DEF Refuses
  <2> QED
    BY <2>4, <2>5
<1> QED
  BY <1>1, <1>2

(***************************************************************************)
(* The guard lets no forbidden instruction through.  In a packet that it   *)
(* does not drop, an instruction with an opcode outside the whitelist, a   *)
(* clipboard payload over the cap or a blob outside the open clipboard     *)
(* stream is cut out whole (GuardOpcodeParser's hooks, applied by          *)
(* OpcodeParser::Parse).                                                   *)
(***************************************************************************)
THEOREM GuardPolicy ==
    ASSUME NEW p, NEW data, Len(data) \in Nat, IsParser(p), p.class = "guard",
           ~Corrupted(Parse(p, data)),
           NEW i \in 1..Len(data),
           Calls(p, data)[i - 1].p.state = "EXPECT_DELIM",
           ~Calls(p, data)[i - 1].denying,
           Forbidden(Calls(p, data)[i - 1].p)
    PROVE  \E j \in i..Len(data) :
              /\ CutOut(Calls(p, data), data, i, j)
              /\ Start(Calls(p, data), i)..j \subseteq Denied(Parse(p, data))
<1> DEFINE f == Calls(p, data)
           c == f[i - 1]
<1>1. IsCall(c) /\ c.p.class = "guard"
  BY CallsAreCalls
<1>2. Refuses(c)
  BY <1>1, ForbiddenIsRefused
<1>3. data[i] \in {Comma, Semicolon}
  <2>1. f[i] = ParseByte(c, i, data[i])
    BY CallsEquation
  <2>2. ~Corrupted(f[i])
    BY CleanCall
  <2>3. f[i] = ReadDelim(c, i, data[i])
    BY <2>1 DEF ParseByte
  <2> HIDE DEF f
  <2>4. Corrupted(Corrupt(c))
    BY <1>1, CorruptStep
  <2> QED
    BY <2>2, <2>3, <2>4 DEF ReadDelim
<1>4. RefusedAt(f, data, i)
  BY <1>2, <1>3 DEF RefusedAt, Refusal
<1>5. PICK j \in i..Len(data) :
        CutOut(f, data, i, j) /\ Start(f, i)..j \in Parse(p, data).denied_ranges
  BY <1>4, DeniedIsRefused
<1> QED
  BY <1>5 DEF Denied

(* Every parser of the program is one: a new object, and what Parse leaves. *)
LEMMA ParsersStay ==
    /\ \A class : IsParser(New(class))
    /\ \A p, data : Len(data) \in Nat /\ IsParser(p) => IsParser(Parse(p, data).p)
<1>1. \A class : IsParser(New(class))
  BY DEF New, Base, IsParser
<1>2. ASSUME NEW p, NEW data, Len(data) \in Nat, IsParser(p) PROVE IsParser(Parse(p, data).p)
  <2>1. IsCall(Calls(p, data)[Len(data)])
    BY <1>2, CallsAreCalls
  <2>2. IsCall(Corrupt(Calls(p, data)[Len(data)]))
    BY <2>1, CorruptStep DEF Continues
  <2> QED
    BY <2>1, <2>2 DEF Parse, EndOfCall, IsCall
<1> QED
  BY <1>1, <1>2

-----------------------------------------------------------------------------
(* The observers: gmlbroker's ack faker and gcdbroker's sync faker.         *)

IsObserver(p) == IsParser(p) /\ p.class \in {"acks", "sync"}

IsSequence(x) == \E S : x \in Seq(S)

(* P has made the replies o before those of p; they agree otherwise.        *)
SameButOut(P, p) ==
    /\ P.class = p.class /\ P.state = p.state
    /\ P.current_length = p.current_length /\ P.current_read = p.current_read
    /\ P.reading_opcode = p.reading_opcode /\ P.element_buffer = p.element_buffer
    /\ P.current_opcode = p.current_opcode /\ P.current_arg = p.current_arg
    /\ P.clipboard_sidx = p.clipboard_sidx /\ P.marked = p.marked
    /\ P.timestamp = p.timestamp /\ P.piping = p.piping
    /\ P.ready_end = p.ready_end /\ P.hs_state = p.hs_state

Ahead(P, p, o) ==
    /\ IsObserver(P) /\ IsObserver(p)
    /\ SameButOut(P, p)
    /\ IsSequence(p.out) /\ P.out = o \o p.out

(* A reply at the end of the second part is one at the end of both.         *)
LEMMA AppendBehind ==
    ASSUME NEW o, NEW x, NEW e, IsSequence(o), IsSequence(x)
    PROVE  IsSequence(Append(x, e)) /\ Append(o \o x, e) = o \o Append(x, e)
<1>1. PICK S : o \in Seq(S)
  BY DEF IsSequence
<1>2. PICK R : x \in Seq(R)
  BY DEF IsSequence
<1> DEFINE U == S \cup R \cup {e}
<1>3. o \in Seq(U) /\ x \in Seq(U) /\ e \in U
  BY <1>1, <1>2
<1> HIDE DEF U
<1>4. Append(x, e) \in Seq(U)
  BY <1>3
<1>5. Append(o \o x, e) = o \o Append(x, e)
  BY <1>3
<1> QED
  BY <1>4, <1>5 DEF IsSequence

(* Assignments to one member.                                               *)
SetState(p, v) == [p EXCEPT !.state = v]
SetReading(p, v) == [p EXCEPT !.reading_opcode = v]
SetArg(p, v) == [p EXCEPT !.current_arg = v]
SetMarked(p, v) == [p EXCEPT !.marked = v]
SetStream(p, v) == [p EXCEPT !.clipboard_sidx = v]
SetTimestamp(p, v) == [p EXCEPT !.timestamp = v]
Reply(p, v) == [p EXCEPT !.out = Append(@, v)]

(* The same member is set to the same value on both sides.                  *)
LEMMA AheadUpdates ==
    ASSUME NEW P, NEW p, NEW o, Ahead(P, p, o)
    PROVE  /\ \A v \in {"READING_LENGTH", "READING_DATA", "EXPECT_DELIM", "STREAM_CORRUPTED"} :
                 Ahead(SetState(P, v), SetState(p, v), o)
           /\ \A v : Ahead(SetReading(P, v), SetReading(p, v), o)
           /\ \A v : Ahead(SetArg(P, v), SetArg(p, v), o)
           /\ \A v : Ahead(SetMarked(P, v), SetMarked(p, v), o)
           /\ \A v : Ahead(SetStream(P, v), SetStream(p, v), o)
           /\ \A v : Ahead(SetTimestamp(P, v), SetTimestamp(p, v), o)
<1>1. \A v \in {"READING_LENGTH", "READING_DATA", "EXPECT_DELIM", "STREAM_CORRUPTED"} :
         Ahead(SetState(P, v), SetState(p, v), o)
  BY DEF Ahead, IsObserver, IsParser, SameButOut, SetState
<1>2. \A v : Ahead(SetReading(P, v), SetReading(p, v), o)
  BY DEF Ahead, IsObserver, IsParser, SameButOut, SetReading
<1>3. \A v : Ahead(SetArg(P, v), SetArg(p, v), o)
  BY DEF Ahead, IsObserver, IsParser, SameButOut, SetArg
<1>4. \A v : Ahead(SetMarked(P, v), SetMarked(p, v), o)
  BY DEF Ahead, IsObserver, IsParser, SameButOut, SetMarked
<1>5. \A v : Ahead(SetStream(P, v), SetStream(p, v), o)
  BY DEF Ahead, IsObserver, IsParser, SameButOut, SetStream
<1>6. \A v : Ahead(SetTimestamp(P, v), SetTimestamp(p, v), o)
  BY DEF Ahead, IsObserver, IsParser, SameButOut, SetTimestamp
<1> QED
  BY <1>1, <1>2, <1>3, <1>4, <1>5, <1>6

(* One more reply on both sides.                                            *)
LEMMA AheadReply ==
    ASSUME NEW P, NEW p, NEW o, NEW v, IsSequence(o), Ahead(P, p, o)
    PROVE  Ahead(Reply(P, v), Reply(p, v), o)
<1> DEFINE Q == Reply(P, v)
           q == Reply(p, v)
           x == p.out
<1>1. IsObserver(Q) /\ IsObserver(q) /\ SameButOut(Q, q)
  BY DEF Ahead, IsObserver, IsParser, SameButOut, Reply
<1>2. Q.out = Append(o \o x, v) /\ q.out = Append(x, v)
  BY DEF Ahead, IsObserver, IsParser, Reply
<1>3. IsSequence(x)
  BY DEF Ahead
<1> HIDE DEF Q, q, x
<1>4. IsSequence(Append(x, v)) /\ Append(o \o x, v) = o \o Append(x, v)
  BY <1>3, AppendBehind
<1>5. IsSequence(q.out) /\ Q.out = o \o q.out
  BY <1>2, <1>4, Zenon
<1> QED
  BY <1>1, <1>5 DEF Ahead, Q, q

(* OnInstructionBegin: observers refuse nothing.                            *)
LEMMA AheadBegin ==
    ASSUME NEW P, NEW p, NEW o, NEW e, Ahead(P, p, o)
    PROVE  /\ Ahead(OnInstructionBegin(P, e).p, OnInstructionBegin(p, e).p, o)
           /\ OnInstructionBegin(p, e).allowed
<1> DEFINE Q == [P EXCEPT !.current_opcode = e, !.current_arg = 0,
                          !.marked = FALSE, !.timestamp = <<>>]
           q == [p EXCEPT !.current_opcode = e, !.current_arg = 0,
                          !.marked = FALSE, !.timestamp = <<>>]
<1>1. OnInstructionBegin(P, e).p = Q /\ OnInstructionBegin(p, e).p = q
  BY DEF OnInstructionBegin
<1>2. OnInstructionBegin(p, e).allowed
  BY DEF OnInstructionBegin, Ahead, IsObserver
<1>3. IsObserver(Q) /\ IsObserver(q)
  BY DEF Ahead, IsObserver, IsParser
<1>4. SameButOut(Q, q) /\ Q.out = P.out /\ q.out = p.out
  BY DEF Ahead, IsObserver, IsParser, SameButOut
<1> HIDE DEF Q, q
<1> QED
  BY <1>1, <1>2, <1>3, <1>4 DEF Ahead

(* OnArgument: the same acks, the same timestamp.                           *)
LEMMA AheadArgument ==
    ASSUME NEW P, NEW p, NEW o, NEW e, IsSequence(o), Ahead(P, p, o)
    PROVE  /\ Ahead(OnArgument(P, e).p, OnArgument(p, e).p, o)
           /\ OnArgument(p, e).allowed
<1> DEFINE Q == [P EXCEPT !.current_arg = @ + 1]
           q == [p EXCEPT !.current_arg = @ + 1]
           sidx == parse_stream_index(e)
<1>1. Ahead(Q, q, o)
  <2>1. P.current_arg = p.current_arg
    BY DEF Ahead, SameButOut
  <2> QED
    BY <2>1, AheadUpdates DEF SetArg
<1>2. q.class = p.class /\ Q.class = p.class /\ p.class \in {"acks", "sync"}
  BY <1>1 DEF Ahead, SameButOut, IsObserver, IsParser
<1>3. /\ OnArgument(p, e).allowed
      /\ OnArgument(P, e).p = IF p.class = "acks" THEN AckArgument(Q, e) ELSE SyncArgument(Q, e)
      /\ OnArgument(p, e).p = IF p.class = "acks" THEN AckArgument(q, e) ELSE SyncArgument(q, e)
  BY <1>2 DEF OnArgument
<1> HIDE DEF Q, q, sidx
<1>4. /\ Q.current_opcode = q.current_opcode /\ Q.current_arg = q.current_arg
      /\ Q.marked = q.marked /\ Q.clipboard_sidx = q.clipboard_sidx
  BY <1>1 DEF Ahead, SameButOut
<1>5. Ahead(TrackStream(Q, sidx), TrackStream(q, sidx), o)
  <2> DEFINE v == CASE Is(q.current_opcode, "clipboard") -> sidx
                    [] Is(q.current_opcode, "end") /\ sidx = q.clipboard_sidx -> NoStream
                    [] OTHER -> q.clipboard_sidx
  <2>1. /\ TrackStream(Q, sidx) = SetStream(Q, v)
        /\ TrackStream(q, sidx) = SetStream(q, v)
    BY <1>4 DEF TrackStream, SetStream
  <2> HIDE DEF v
  <2> QED
    BY <1>1, <2>1, AheadUpdates
<1>6. Ahead(AckArgument(Q, e), AckArgument(q, e), o)
  <2>1. OnOpenStream(Q, sidx) = OnOpenStream(q, sidx)
    BY <1>4 DEF OnOpenStream
  <2> DEFINE b == OnOpenStream(q, sidx)
             x == q.clipboard_sidx
  <2>2. CASE q.current_arg = 1 /\ Is(q.current_opcode, "blob")
    <3>1. AckArgument(Q, e) = SetMarked(Q, b) /\ AckArgument(q, e) = SetMarked(q, b)
      BY <1>4, <2>1, <2>2 DEF AckArgument, SetMarked, sidx
    <3> HIDE DEF b
    <3> QED
      BY <1>1, <3>1, AheadUpdates
  <2>3. CASE q.current_arg = 1 /\ ~Is(q.current_opcode, "blob")
    <3>1. AckArgument(Q, e) = TrackStream(Q, sidx) /\ AckArgument(q, e) = TrackStream(q, sidx)
      BY <1>4, <2>3 DEF AckArgument, sidx
    <3> QED
      BY <1>5, <3>1
  <2>4. CASE q.current_arg = 2 /\ q.marked /\ Len(e) > MAX_BYTES
    <3>1. /\ AckArgument(Q, e) = Reply(Q, x)
          /\ AckArgument(q, e) = Reply(q, x)
      BY <1>4, <2>4 DEF AckArgument, Reply
    <3> HIDE DEF x
    <3> QED
      BY <1>1, <3>1, AheadReply
  <2>5. CASE q.current_arg # 1 /\ ~(q.current_arg = 2 /\ q.marked /\ Len(e) > MAX_BYTES)
    <3>1. AckArgument(Q, e) = Q /\ AckArgument(q, e) = q
      BY <1>4, <2>5 DEF AckArgument
    <3> QED
      BY <1>1, <3>1
  <2> QED
    BY <2>2, <2>3, <2>4, <2>5
<1>7. Ahead(SyncArgument(Q, e), SyncArgument(q, e), o)
  <2>1. \/ /\ SyncArgument(Q, e) = SetTimestamp(Q, e)
           /\ SyncArgument(q, e) = SetTimestamp(q, e)
        \/ SyncArgument(Q, e) = Q /\ SyncArgument(q, e) = q
    BY <1>4 DEF SyncArgument, SetTimestamp
  <2> QED
    BY <1>1, <2>1, AheadUpdates
<1> QED
  BY <1>3, <1>6, <1>7

(* OnInstructionEnd: the same sync echo.                                    *)
LEMMA AheadEnd ==
    ASSUME NEW P, NEW p, NEW o, NEW i, NEW k, IsSequence(o), Ahead(P, p, o)
    PROVE  Ahead(OnInstructionEnd(P, k), OnInstructionEnd(p, i), o)
<1>1. /\ P.class = p.class /\ P.current_opcode = p.current_opcode
      /\ P.timestamp = p.timestamp /\ p.class \in {"acks", "sync"}
  BY DEF Ahead, SameButOut, IsObserver
<1> DEFINE x == p.timestamp
<1>2. CASE p.class = "sync" /\ Is(p.current_opcode, "sync") /\ x # <<>>
  <2>1. /\ OnInstructionEnd(P, k) = Reply(P, x)
        /\ OnInstructionEnd(p, i) = Reply(p, x)
    BY <1>1, <1>2 DEF OnInstructionEnd, Reply
  <2> HIDE DEF x
  <2> QED
    BY <2>1, AheadReply
<1>3. CASE ~(p.class = "sync" /\ Is(p.current_opcode, "sync") /\ x # <<>>)
  <2>1. OnInstructionEnd(P, k) = P /\ OnInstructionEnd(p, i) = p
    BY <1>1, <1>3 DEF OnInstructionEnd
  <2> QED
    BY <2>1
<1> QED
  BY <1>2, <1>3

(* The same for two calls.                                                  *)
AheadCall(C, c, o) ==
    /\ IsCall(C) /\ IsCall(c) /\ ~C.denying /\ ~c.denying
    /\ Ahead(C.p, c.p, o)

(* A symbol that corrupts the stream.                                       *)
LEMMA AheadCorrupt ==
    ASSUME NEW C, NEW c, NEW o, AheadCall(C, c, o)
    PROVE  AheadCall(Corrupt(C), Corrupt(c), o)
<1>1. /\ IsCall(Corrupt(C)) /\ SameLocals(Corrupt(C), C)
      /\ Corrupt(C).p = SetState(C.p, "STREAM_CORRUPTED")
  BY CorruptStep DEF AheadCall, Continues, SetState
<1>2. /\ IsCall(Corrupt(c)) /\ SameLocals(Corrupt(c), c)
      /\ Corrupt(c).p = SetState(c.p, "STREAM_CORRUPTED")
  BY CorruptStep DEF AheadCall, Continues, SetState
<1>3. Ahead(SetState(C.p, "STREAM_CORRUPTED"), SetState(c.p, "STREAM_CORRUPTED"), o)
  BY AheadUpdates DEF AheadCall
<1> QED
  BY <1>1, <1>2, <1>3 DEF AheadCall, SameLocals

(* A length, of any size: observers tolerate them all.                      *)
LEMMA AheadLength ==
    ASSUME NEW C, NEW c, NEW o, NEW i, NEW k, NEW n, AheadCall(C, c, o)
    PROVE  AheadCall(ReadLength(C, k, n), ReadLength(c, i, n), o)
<1> DEFINE D == ReadLength(C, k, n)
           d == ReadLength(c, i, n)
<1>1. LengthEffect(D, C, k, n) /\ LengthEffect(d, c, i, n)
  BY LengthStep DEF AheadCall
<1> HIDE DEF D, d
<1>2. ~Oversized(C.p, n) /\ ~Oversized(c.p, n)
  BY DEF AheadCall, Ahead, IsObserver, Oversized, ToleratesOversizedElements
<1>3. IsCall(D) /\ IsCall(d) /\ ~D.denying /\ ~d.denying
  BY <1>1, <1>2 DEF LengthEffect, Continues, AheadCall
<1>4. Ahead(D.p, d.p, o)
  <2> DEFINE v == IF n = 0 THEN "EXPECT_DELIM" ELSE "READING_DATA"
  <2>1. /\ D.p = [C.p EXCEPT !.current_length = n, !.current_read = 0,
                             !.element_buffer = <<>>, !.state = v]
        /\ d.p = [c.p EXCEPT !.current_length = n, !.current_read = 0,
                             !.element_buffer = <<>>, !.state = v]
    BY <1>1, <1>2 DEF LengthEffect
  <2>3. Ahead(C.p, c.p, o)
    BY DEF AheadCall
  <2> HIDE DEF v
  <2>4. IsObserver(D.p) /\ IsObserver(d.p)
    BY <1>1, <2>3 DEF LengthEffect, Continues, IsCall, Ahead, IsObserver
  <2>5. SameButOut(D.p, d.p) /\ D.p.out = C.p.out /\ d.p.out = c.p.out
    BY <2>1, <2>3 DEF Ahead, IsObserver, IsParser, SameButOut
  <2> QED
    BY <2>3, <2>4, <2>5 DEF Ahead
<1> QED
  BY <1>3, <1>4 DEF AheadCall, D, d

(* A byte.                                                                  *)
LEMMA AheadData ==
    ASSUME NEW C, NEW c, NEW o, NEW s, AheadCall(C, c, o)
    PROVE  AheadCall(ReadData(C, s), ReadData(c, s), o)
<1> DEFINE D == ReadData(C, s)
           d == ReadData(c, s)
<1>1. DataEffect(D, C, s) /\ DataEffect(d, c, s)
  BY DataStep DEF AheadCall
<1> HIDE DEF D, d
<1>2. IsCall(D) /\ IsCall(d) /\ ~D.denying /\ ~d.denying
  BY <1>1 DEF DataEffect, Continues, AheadCall, SameLocals
<1>3. /\ Ahead(C.p, c.p, o) /\ SameButOut(C.p, c.p)
  BY DEF AheadCall, Ahead
<1>4. /\ C.p.current_read = c.p.current_read /\ C.p.current_length = c.p.current_length
      /\ C.p.element_buffer = c.p.element_buffer /\ C.p.state = c.p.state
  BY <1>3 DEF SameButOut
<1>5. CASE c.p.current_read < MAX_ELEMENT_SIZE /\ s = NonAscii
  <2>1. D.p = SetState(C.p, "STREAM_CORRUPTED") /\ d.p = SetState(c.p, "STREAM_CORRUPTED")
    BY <1>1, <1>4, <1>5 DEF DataEffect, SetState
  <2>2. Ahead(SetState(C.p, "STREAM_CORRUPTED"), SetState(c.p, "STREAM_CORRUPTED"), o)
    BY <1>3, AheadUpdates
  <2> QED
    BY <1>2, <2>1, <2>2 DEF AheadCall, D, d
<1>6. CASE ~(c.p.current_read < MAX_ELEMENT_SIZE /\ s = NonAscii)
  <2> DEFINE r == c.p.current_read + 1
             b == IF c.p.current_read < MAX_ELEMENT_SIZE
                  THEN Append(c.p.element_buffer, s) ELSE c.p.element_buffer
             v == IF r = c.p.current_length THEN "EXPECT_DELIM" ELSE c.p.state
  <2>1. D.p = [C.p EXCEPT !.current_read = r, !.element_buffer = b, !.state = v]
    BY <1>1, <1>4, <1>6 DEF DataEffect
  <2>2. d.p = [c.p EXCEPT !.current_read = r, !.element_buffer = b, !.state = v]
    BY <1>1, <1>6 DEF DataEffect
  <2> HIDE DEF r, b, v
  <2>4. IsObserver(D.p) /\ IsObserver(d.p)
    BY <1>1, <1>3 DEF DataEffect, Continues, IsCall, Ahead, IsObserver
  <2>5. SameButOut(D.p, d.p) /\ D.p.out = C.p.out /\ d.p.out = c.p.out
    BY <1>3, <2>1, <2>2 DEF Ahead, IsObserver, IsParser, SameButOut
  <2>6. Ahead(D.p, d.p, o)
    BY <1>3, <2>4, <2>5 DEF Ahead
  <2> QED
    BY <1>2, <2>6 DEF AheadCall, D, d
<1> QED
  BY <1>5, <1>6

(* The hooks.                                                               *)
LEMMA AheadValidate ==
    ASSUME NEW C, NEW c, NEW o, IsSequence(o), AheadCall(C, c, o)
    PROVE  AheadCall(Validate(C), Validate(c), o)
<1> DEFINE D == Validate(C)
           d == Validate(c)
<1>1. ValidateEffect(D, C) /\ ValidateEffect(d, c)
  BY ValidateStep DEF AheadCall
<1>2. Ahead(C.p, c.p, o)
  BY DEF AheadCall
<1>3. C.p.reading_opcode = c.p.reading_opcode /\ C.p.element_buffer = c.p.element_buffer
  BY <1>2 DEF Ahead, SameButOut
<1>4. Ahead(Hook(C).p, Hook(c).p, o)
  BY <1>2, <1>3, AheadBegin, AheadArgument DEF Hook
<1>5. ASSUME NEW x, IsObserver(x.p) PROVE Hook(x).allowed
  <2>1. \A e : OnInstructionBegin(x.p, e).allowed
    BY <1>5 DEF OnInstructionBegin, IsObserver
  <2>2. \A e : OnArgument(x.p, e).allowed
    BY <1>5 DEF OnArgument, IsObserver, IsParser
  <2> QED
    BY <2>1, <2>2 DEF Hook
<1>6. ~Refuses(C) /\ ~Refuses(c)
  BY <1>2, <1>5 DEF Ahead, Refuses
<1> HIDE DEF D, d
<1>7. /\ D.p = SetReading(Hook(C).p, FALSE) /\ d.p = SetReading(Hook(c).p, FALSE)
      /\ D.denying = C.denying /\ d.denying = c.denying
  BY <1>1, <1>6 DEF ValidateEffect, AheadCall, SetReading
<1>8. Ahead(SetReading(Hook(C).p, FALSE), SetReading(Hook(c).p, FALSE), o)
  BY <1>4, AheadUpdates
<1>9. IsCall(D) /\ IsCall(d)
  BY <1>1 DEF ValidateEffect, Continues
<1> QED
  BY <1>7, <1>8, <1>9 DEF AheadCall, D, d

(* A semicolon, whatever its index.                                         *)
LEMMA AheadEndInstruction ==
    ASSUME NEW C, NEW c, NEW o, NEW i, NEW k, IsSequence(o), AheadCall(C, c, o)
    PROVE  AheadCall(EndInstruction(C, k), EndInstruction(c, i), o)
<1> DEFINE D == EndInstruction(C, k)
           d == EndInstruction(c, i)
<1>1. EndEffect(D, C, k) /\ EndEffect(d, c, i)
  BY EndStep DEF AheadCall
<1> HIDE DEF D, d
<1>2. /\ D.p = SetReading(OnInstructionEnd(C.p, k), TRUE)
      /\ d.p = SetReading(OnInstructionEnd(c.p, i), TRUE)
      /\ ~D.denying /\ ~d.denying /\ IsCall(D) /\ IsCall(d)
  BY <1>1 DEF EndEffect, AheadCall, Continues, SetReading
<1>3. Ahead(OnInstructionEnd(C.p, k), OnInstructionEnd(c.p, i), o)
  BY AheadEnd DEF AheadCall
<1>4. Ahead(SetReading(OnInstructionEnd(C.p, k), TRUE),
            SetReading(OnInstructionEnd(c.p, i), TRUE), o)
  BY <1>3, AheadUpdates
<1> QED
  BY <1>2, <1>4 DEF AheadCall, D, d

(* The next element.                                                        *)
LEMMA AheadNextElement ==
    ASSUME NEW C, NEW c, NEW o, AheadCall(C, c, o)
    PROVE  AheadCall(NextElement(C), NextElement(c), o)
<1> DEFINE D == NextElement(C)
           d == NextElement(c)
<1>1. NextElementEffect(D, C) /\ NextElementEffect(d, c)
  BY NextElementStep DEF AheadCall
<1> HIDE DEF D, d
<1>2. IsCall(D) /\ IsCall(d) /\ ~D.denying /\ ~d.denying
  BY <1>1 DEF NextElementEffect, Continues, AheadCall, SameLocals
<1>3. Ahead(C.p, c.p, o)
  BY DEF AheadCall
<1>4. /\ D.p = [C.p EXCEPT !.current_length = -1, !.state = "READING_LENGTH"]
      /\ d.p = [c.p EXCEPT !.current_length = -1, !.state = "READING_LENGTH"]
  BY <1>1 DEF NextElementEffect
<1>5. IsObserver(D.p) /\ IsObserver(d.p)
  BY <1>1, <1>3 DEF NextElementEffect, Continues, IsCall, Ahead, IsObserver
<1>6. SameButOut(D.p, d.p) /\ D.p.out = C.p.out /\ d.p.out = c.p.out
  BY <1>3, <1>4 DEF Ahead, IsObserver, IsParser, SameButOut
<1>7. Ahead(D.p, d.p, o)
  BY <1>3, <1>5, <1>6 DEF Ahead
<1> QED
  BY <1>2, <1>7 DEF AheadCall, D, d

(* A delimiter.                                                             *)
LEMMA AheadDelim ==
    ASSUME NEW C, NEW c, NEW o, NEW i, NEW k, NEW s, IsSequence(o), AheadCall(C, c, o)
    PROVE  AheadCall(ReadDelim(C, k, s), ReadDelim(c, i, s), o)
<1> DEFINE V == Validate(C)
           v == Validate(c)
<1>1. AheadCall(V, v, o)
  BY AheadValidate
<1>2. AheadCall(Corrupt(C), Corrupt(c), o)
  BY AheadCorrupt
<1>3. AheadCall(NextElement(V), NextElement(v), o)
  BY <1>1, AheadNextElement
<1>4. AheadCall(NextElement(EndInstruction(V, k)), NextElement(EndInstruction(v, i)), o)
  BY <1>1, AheadEndInstruction, AheadNextElement
<1>5. V.p.state = v.p.state
  BY <1>1 DEF AheadCall, Ahead, SameButOut
<1>6. \/ ReadDelim(C, k, s) = Corrupt(C) /\ ReadDelim(c, i, s) = Corrupt(c)
      \/ ReadDelim(C, k, s) = V /\ ReadDelim(c, i, s) = v
      \/ ReadDelim(C, k, s) = NextElement(V) /\ ReadDelim(c, i, s) = NextElement(v)
      \/ /\ ReadDelim(C, k, s) = NextElement(EndInstruction(V, k))
         /\ ReadDelim(c, i, s) = NextElement(EndInstruction(v, i))
  BY <1>5 DEF ReadDelim
<1> HIDE DEF V, v
<1> QED
  BY <1>1, <1>2, <1>3, <1>4, <1>6

(* Any symbol, the new start after a corrupted one included.                *)
LEMMA AheadByte ==
    ASSUME NEW C, NEW c, NEW o, NEW i, NEW k, NEW s, IsSequence(o), AheadCall(C, c, o)
    PROVE  AheadCall(ObserveByte(C, k, s), ObserveByte(c, i, s), o)
<1> DEFINE D == ParseByte(C, k, s)
           d == ParseByte(c, i, s)
<1>1. C.p.state = c.p.state
  BY DEF AheadCall, Ahead, SameButOut
<1>2. c.p.state \in {"READING_LENGTH", "READING_DATA", "EXPECT_DELIM", "STREAM_CORRUPTED"}
  BY DEF AheadCall, IsCall, IsParser
<1>3. \/ D = C /\ d = c
      \/ D = Corrupt(C) /\ d = Corrupt(c)
      \/ D = ReadLength(C, k, s[2]) /\ d = ReadLength(c, i, s[2])
      \/ D = ReadData(C, s) /\ d = ReadData(c, s)
      \/ D = ReadDelim(C, k, s) /\ d = ReadDelim(c, i, s)
  BY <1>1, <1>2 DEF ParseByte
<1> HIDE DEF D, d
<1>4. AheadCall(D, d, o)
  BY <1>3, AheadCorrupt, AheadLength, AheadData, AheadDelim
<1>5. D.p.state = d.p.state
  BY <1>4 DEF AheadCall, Ahead, SameButOut
<1>6. AheadCall(Call(Reset(D.p)), Call(Reset(d.p)), o)
  <2> DEFINE Q == Reset(D.p)
             q == Reset(d.p)
  <2>1. Ahead(D.p, d.p, o)
    BY <1>4 DEF AheadCall
  <2>2. IsObserver(Q) /\ IsObserver(q)
    <3>1. ASSUME NEW x, IsObserver(x) PROVE IsObserver(Reset(x))
      BY <3>1 DEF Reset, Base, IsObserver, IsParser
    <3> QED
      BY <2>1, <3>1 DEF Ahead
  <2>3. SameButOut(Q, q) /\ Q.out = D.p.out /\ q.out = d.p.out
    BY <2>1 DEF Reset, Base, Ahead, IsObserver, IsParser, SameButOut
  <2> HIDE DEF Q, q
  <2>4. Ahead(Q, q, o)
    BY <2>1, <2>2, <2>3 DEF Ahead
  <2>5. /\ IsCall(Call(Q)) /\ IsCall(Call(q)) /\ Call(Q).p = Q /\ Call(q).p = q
        /\ ~Call(Q).denying /\ ~Call(q).denying
    BY <2>2, NewCall DEF IsObserver, Call
  <2> QED
    BY <2>4, <2>5 DEF AheadCall, Q, q
<1>7. \/ ObserveByte(C, k, s) = D /\ ObserveByte(c, i, s) = d
      \/ ObserveByte(C, k, s) = Call(Reset(D.p)) /\ ObserveByte(c, i, s) = Call(Reset(d.p))
  BY <1>5 DEF ObserveByte, D, d
<1> QED
  BY <1>4, <1>6, <1>7

(* An observer's reading stays one, and its replies a sequence.             *)
LEMMA ObservedIsCall ==
    ASSUME NEW p, NEW data, Len(data) \in Nat, IsObserver(p), p.out = <<>>,
           NEW i \in 0..Len(data)
    PROVE  LET c == Observed(p, data)[i]
           IN  IsCall(c) /\ ~c.denying /\ IsObserver(c.p) /\ IsSequence(c.p.out)
<1> DEFINE f == Observed(p, data)
           T == {j \in Nat : j <= Len(data) => AheadCall(f[j], f[j], <<>>)}
<1>0. IsSequence(<<>>) /\ <<>> \o <<>> = <<>>
  <2>1. <<>> \in Seq({})
    OBVIOUS
  <2> QED
    BY <2>1 DEF IsSequence
<1>1. 0 \in T
  <2>1. f[0] = Call(p) /\ IsCall(Call(p)) /\ Call(p).p = p
    BY ObservedEquation, NewCall DEF IsObserver
  <2>2. ~Call(p).denying
    BY DEF Call
  <2>3. Ahead(p, p, <<>>)
    BY <1>0 DEF Ahead, SameButOut
  <2> HIDE DEF f
  <2>4. AheadCall(f[0], f[0], <<>>)
    BY <2>1, <2>2, <2>3 DEF AheadCall
  <2> QED
    BY <2>4
<1>2. ASSUME NEW j \in 1..Len(data), j - 1 \in T PROVE j \in T
  <2>1. AheadCall(f[j - 1], f[j - 1], <<>>)
    BY <1>2
  <2>2. f[j] = ObserveByte(f[j - 1], j, data[j])
    BY ObservedEquation
  <2> HIDE DEF f
  <2>3. AheadCall(f[j], f[j], <<>>)
    BY <1>0, <2>1, <2>2, AheadByte
  <2> QED
    BY <2>3
<1>3. i \in T
  <2> HIDE DEF f
  <2>1. T \in SUBSET Nat
    OBVIOUS
  <2> HIDE DEF T
  <2> QED
    BY <1>1, <1>2, <2>1, CountingUp
<1>4. AheadCall(f[i], f[i], <<>>)
  BY <1>3
<1> HIDE DEF f
<1> QED
  BY <1>4 DEF AheadCall, Ahead, f

(* The first symbols do not see the ones behind them.                       *)
LEMMA ObservedPrefix ==
    ASSUME NEW S, NEW a \in Seq(S), NEW b \in Seq(S), NEW p, NEW i \in 0..Len(a)
    PROVE  Observed(p, a \o b)[i] = Observed(p, a)[i]
<1> DEFINE f == Observed(p, a \o b)
           g == Observed(p, a)
           T == {j \in Nat : j <= Len(a) => f[j] = g[j]}
<1>0. /\ Len(a) \in Nat /\ Len(a \o b) = Len(a) + Len(b) /\ Len(b) \in Nat
      /\ \A j \in 1..Len(a) : (a \o b)[j] = a[j]
  OBVIOUS
<1>1. 0 \in T
  BY <1>0, ObservedEquation
<1>2. ASSUME NEW j \in 1..Len(a), j - 1 \in T PROVE j \in T
  <2>1. f[j - 1] = g[j - 1]
    BY <1>0, <1>2
  <2>2. Len(a \o b) \in Nat /\ j \in 1..Len(a \o b)
    BY <1>0
  <2>3. f[j] = ObserveByte(f[j - 1], j, (a \o b)[j])
    BY <2>2, ObservedEquation
  <2>4. g[j] = ObserveByte(g[j - 1], j, a[j])
    BY <1>0, ObservedEquation
  <2> HIDE DEF f, g
  <2> QED
    BY <1>0, <2>1, <2>3, <2>4
<1>3. 0..Len(a) \subseteq T
  <2> HIDE DEF f, g
  <2>1. T \in SUBSET Nat /\ Len(a) \in Nat
    BY <1>0
  <2> HIDE DEF T
  <2> QED
    BY <1>1, <1>2, <2>1, CountingUp
<1> QED
  BY <1>3

(***************************************************************************)
(* The replies that an observer makes depend on the stream and not on how  *)
(* it is cut into reads: over any stream, bytes that corrupt it included,  *)
(* the acks (ClipboardAckFaker::Feed) and the sync echoes (SyncFaker::     *)
(* Feed) of two reads are those of the two in one, in the same order, and  *)
(* the parser ends in the same place.                                      *)
(***************************************************************************)
THEOREM ObserverCuts ==
    ASSUME NEW S, NEW a \in Seq(S), NEW b \in Seq(S), NEW p, IsObserver(p)
    PROVE  LET one == FeedObserver(p, a \o b)
               first == FeedObserver(p, a)
               second == FeedObserver(first, b)
           IN  /\ one.out = first.out \o second.out
               /\ SameButOut(one, second)
<1> DEFINE la == Len(a)
           lb == Len(b)
           p0 == [p EXCEPT !.out = <<>>]
           W == Observed(p0, a \o b)
           A == Observed(p0, a)
           first == A[la].p
           o == first.out
           q0 == [first EXCEPT !.out = <<>>]
           B == Observed(q0, b)
<1>1. /\ la \in Nat /\ lb \in Nat /\ Len(a \o b) = la + lb
      /\ \A j \in 1..lb : (a \o b)[la + j] = b[j]
  OBVIOUS
<1>2. IsObserver(p0) /\ p0.out = <<>>
  BY DEF IsObserver, IsParser
<1>3. W[la] = A[la]
  <2> HIDE DEF p0
  <2> QED
    BY <1>1, ObservedPrefix
<1>4. IsCall(A[la]) /\ ~A[la].denying /\ IsObserver(first) /\ IsSequence(o)
  <2> HIDE DEF p0
  <2> QED
    BY <1>1, <1>2, ObservedIsCall
<1>5. IsObserver(q0) /\ q0.out = <<>> /\ SameButOut(first, q0)
  <2> HIDE DEF first
  <2> QED
    BY <1>4 DEF IsObserver, IsParser, SameButOut
<1>6. ASSUME NEW j \in 1..lb
      PROVE  /\ W[la + j] = ObserveByte(W[la + (j - 1)], la + j, b[j])
             /\ B[j] = ObserveByte(B[j - 1], j, b[j])
  <2>1. Len(a \o b) \in Nat /\ la + j \in 1..Len(a \o b) /\ (la + j) - 1 = la + (j - 1)
    BY <1>1
  <2> HIDE DEF p0, q0
  <2>2. W[la + j] = ObserveByte(W[(la + j) - 1], la + j, (a \o b)[la + j])
    BY <2>1, ObservedEquation
  <2>3. B[j] = ObserveByte(B[j - 1], j, b[j])
    BY <1>1, ObservedEquation
  <2> HIDE DEF W, B
  <2> QED
    BY <1>1, <2>1, <2>2, <2>3
<1>7. AheadCall(W[la], B[0], o)
  <2>1. B[0] = Call(q0) /\ IsCall(Call(q0)) /\ Call(q0).p = q0 /\ ~Call(q0).denying
    <3> HIDE DEF q0
    <3>1. B[0] = Call(q0)
      BY <1>1, ObservedEquation
    <3>2. IsCall(Call(q0)) /\ Call(q0).p = q0
      BY <1>5, NewCall DEF IsObserver
    <3>3. ~Call(q0).denying
      BY DEF Call
    <3> QED
      BY <3>1, <3>2, <3>3
  <2>2. o \o <<>> = o /\ IsSequence(<<>>)
    <3>1. PICK R : o \in Seq(R)
      BY <1>4 DEF IsSequence
    <3> HIDE DEF o
    <3>2. o \o <<>> = o /\ <<>> \in Seq(R)
      BY <3>1
    <3> QED
      BY <3>2 DEF IsSequence
  <2> HIDE DEF B, q0, W, A
  <2>3. Ahead(first, q0, o)
    <3> HIDE DEF first
    <3> QED
      BY <1>4, <1>5, <2>2 DEF Ahead, o
  <2> QED
    BY <1>3, <1>4, <2>1, <2>3 DEF AheadCall
<1> DEFINE T == {j \in Nat : j <= lb => AheadCall(W[la + j], B[j], o)}
<1> HIDE DEF W, B, q0, o, la, lb
<1>8. 0 \in T
  <2>1. la + 0 = la
    BY <1>1
  <2> QED
    BY <1>7, <2>1
<1>9. ASSUME NEW j \in 1..lb, j - 1 \in T PROVE j \in T
  <2>1. AheadCall(W[la + (j - 1)], B[j - 1], o)
    BY <1>1, <1>9
  <2>2. AheadCall(W[la + j], B[j], o)
    BY <1>4, <1>6, <2>1, AheadByte
  <2> QED
    BY <2>2
<1>10. lb \in T
  <2>1. T \in SUBSET Nat
    OBVIOUS
  <2> HIDE DEF T
  <2>2. 0..lb \subseteq T
    BY <1>1, <1>8, <1>9, <2>1, CountingUp
  <2> QED
    BY <1>1, <2>2
<1>11. Ahead(W[la + lb].p, B[lb].p, o)
  BY <1>1, <1>10 DEF AheadCall
<1>12. /\ FeedObserver(p, a \o b) = W[la + lb].p
       /\ FeedObserver(p, a) = first
       /\ FeedObserver(first, b) = B[lb].p
  <2>1. FeedObserver(p, a \o b) = W[la + lb].p
    BY <1>1 DEF FeedObserver, W, la, lb
  <2>2. FeedObserver(p, a) = first
    BY DEF FeedObserver, la
  <2>3. FeedObserver(first, b) = B[lb].p
    <3> HIDE DEF first
    <3> QED
      BY DEF FeedObserver, B, q0, lb
  <2> QED
    BY <2>1, <2>2, <2>3
<1> HIDE DEF first
<1> QED
  BY <1>11, <1>12 DEF Ahead, o

-----------------------------------------------------------------------------
(* The element buffer.                                                      *)

(* What the hooks get to see: the buffer holds the bytes read, up to its    *)
(* size, and is handed over when all of the element was read.               *)
Framed(p) ==
    p.state \in {"READING_DATA", "EXPECT_DELIM"} =>
        /\ p.current_read \in Nat /\ p.current_length \in Nat
        /\ IsSequence(p.element_buffer)
        /\ Len(p.element_buffer) = IF p.current_read < MAX_ELEMENT_SIZE
                                   THEN p.current_read ELSE MAX_ELEMENT_SIZE
        /\ p.state = "READING_DATA" => p.current_read < p.current_length
        /\ p.state = "EXPECT_DELIM" => p.current_read = p.current_length
        /\ ~ToleratesOversizedElements(p) => p.current_length <= MAX_ELEMENT_SIZE

(* A length begins an empty buffer.                                         *)
LEMMA FramedLength ==
    ASSUME NEW c, NEW i, NEW n \in Nat, IsCall(c)
    PROVE  Framed(ReadLength(c, i, n).p)
<1> DEFINE d == ReadLength(c, i, n)
<1>1. LengthEffect(d, c, i, n) /\ Corrupted(Corrupt(c))
  BY LengthStep, CorruptStep
<1> HIDE DEF d
<1>2. CASE Oversized(c.p, n)
  BY <1>1, <1>2 DEF LengthEffect, Corrupted, Framed, d
<1>3. CASE ~Oversized(c.p, n)
  <2>1. d.p = [c.p EXCEPT !.current_length = n, !.current_read = 0, !.element_buffer = <<>>,
                          !.state = IF n = 0 THEN "EXPECT_DELIM" ELSE "READING_DATA"]
    BY <1>1, <1>3 DEF LengthEffect
  <2>2. /\ d.p.current_length = n /\ d.p.current_read = 0 /\ d.p.element_buffer = <<>>
        /\ d.p.state = IF n = 0 THEN "EXPECT_DELIM" ELSE "READING_DATA"
        /\ d.p.class = c.p.class
    BY <2>1 DEF IsCall, IsParser
  <2>3. IsSequence(<<>>) /\ Len(<<>>) = 0
    <3>1. <<>> \in Seq({})
      OBVIOUS
    <3> QED
      BY <3>1 DEF IsSequence
  <2>4. ~ToleratesOversizedElements(d.p) => n <= MAX_ELEMENT_SIZE
    BY <1>3, <2>2, ParserAssumption DEF Oversized, ToleratesOversizedElements
  <2>5. Framed(d.p)
    BY <2>2, <2>3, <2>4, ParserAssumption DEF Framed
  <2> QED
    BY <2>5 DEF d
<1> QED
  BY <1>2, <1>3

(* A byte is buffered while there is room.                                  *)
LEMMA FramedData ==
    ASSUME NEW c, NEW s, IsCall(c), Framed(c.p), c.p.state = "READING_DATA"
    PROVE  Framed(ReadData(c, s).p)
<1> DEFINE d == ReadData(c, s)
           r == c.p.current_read
           b == c.p.element_buffer
<1>1. DataEffect(d, c, s)
  BY DataStep
<1> HIDE DEF d
<1>2. CASE r < MAX_ELEMENT_SIZE /\ s = NonAscii
  <2>1. d.p = [c.p EXCEPT !.state = "STREAM_CORRUPTED"]
    BY <1>1, <1>2 DEF DataEffect
  <2>2. d.p.state = "STREAM_CORRUPTED"
    BY <2>1 DEF IsCall, IsParser
  <2> QED
    BY <2>2 DEF Framed, d
<1>3. CASE ~(r < MAX_ELEMENT_SIZE /\ s = NonAscii)
  <2>1. d.p = [c.p EXCEPT
                 !.current_read = @ + 1,
                 !.element_buffer = IF r < MAX_ELEMENT_SIZE THEN Append(@, s) ELSE @,
                 !.state = IF r + 1 = c.p.current_length THEN "EXPECT_DELIM" ELSE @]
    BY <1>1, <1>3 DEF DataEffect
  <2>2. /\ d.p.current_read = r + 1 /\ d.p.current_length = c.p.current_length
        /\ d.p.element_buffer = IF r < MAX_ELEMENT_SIZE THEN Append(b, s) ELSE b
        /\ d.p.state = IF r + 1 = c.p.current_length THEN "EXPECT_DELIM" ELSE "READING_DATA"
        /\ d.p.class = c.p.class
    BY <2>1 DEF IsCall, IsParser
  <2>3. /\ r \in Nat /\ c.p.current_length \in Nat /\ r < c.p.current_length
        /\ IsSequence(b) /\ Len(b) = IF r < MAX_ELEMENT_SIZE THEN r ELSE MAX_ELEMENT_SIZE
        /\ ~ToleratesOversizedElements(c.p) => c.p.current_length <= MAX_ELEMENT_SIZE
    BY DEF Framed
  <2> HIDE DEF r, b
  <2>4. IsSequence(Append(b, s)) /\ Len(Append(b, s)) = Len(b) + 1
    <3>1. PICK S : b \in Seq(S)
      BY <2>3 DEF IsSequence
    <3> DEFINE R == S \cup {s}
    <3>2. b \in Seq(R) /\ s \in R
      BY <3>1
    <3> HIDE DEF R
    <3>3. Append(b, s) \in Seq(R) /\ Len(Append(b, s)) = Len(b) + 1
      BY <3>2
    <3> QED
      BY <3>3 DEF IsSequence
  <2>5. /\ IsSequence(d.p.element_buffer)
        /\ Len(d.p.element_buffer) = IF r + 1 < MAX_ELEMENT_SIZE THEN r + 1 ELSE MAX_ELEMENT_SIZE
    <3>1. CASE r < MAX_ELEMENT_SIZE
      BY <2>2, <2>3, <2>4, <3>1, ParserAssumption
    <3>2. CASE ~(r < MAX_ELEMENT_SIZE)
      BY <2>2, <2>3, <3>2, ParserAssumption
    <3> QED
      BY <3>1, <3>2
  <2>6. ToleratesOversizedElements(d.p) <=> ToleratesOversizedElements(c.p)
    BY <2>2 DEF ToleratesOversizedElements
  <2>7. Framed(d.p)
    BY <2>2, <2>3, <2>5, <2>6 DEF Framed
  <2> QED
    BY <2>7 DEF d
<1> QED
  BY <1>2, <1>3

(* Any symbol.                                                              *)
LEMMA FramedByte ==
    ASSUME NEW c, NEW i, NEW s, IsCall(c), Framed(c.p), s[1] = "length" => s[2] \in Nat
    PROVE  Framed(ParseByte(c, i, s).p)
<1>1. Framed(Corrupt(c).p)
  BY CorruptStep DEF Corrupted, Framed
<1>2. CASE c.p.state = "READING_LENGTH"
  <2>1. CASE s[1] = "length"
    <3>1. ParseByte(c, i, s) = ReadLength(c, i, s[2])
      BY <1>2, <2>1 DEF ParseByte
    <3> QED
      BY <2>1, <3>1, FramedLength
  <2>2. CASE s[1] # "length"
    BY <1>1, <1>2, <2>2 DEF ParseByte
  <2> QED
    BY <2>1, <2>2
<1>3. CASE c.p.state = "READING_DATA"
  <2>1. ParseByte(c, i, s) = ReadData(c, s)
    BY <1>3 DEF ParseByte
  <2> QED
    BY <1>3, <2>1, FramedData
<1>4. CASE c.p.state = "EXPECT_DELIM"
  <2> DEFINE v == Validate(c)
             e == EndInstruction(v, i)
  <2>1. IsCall(v)
    BY ValidateStep DEF ValidateEffect, Continues
  <2>2. IsCall(e)
    BY <2>1, EndStep DEF EndEffect, Continues
  <2>3. NextElementEffect(NextElement(v), v) /\ NextElementEffect(NextElement(e), e)
    BY <2>1, <2>2, NextElementStep
  <2>4. \/ ReadDelim(c, i, s) = Corrupt(c)
        \/ ReadDelim(c, i, s) = v /\ v.p.state = "STREAM_CORRUPTED"
        \/ ReadDelim(c, i, s) = NextElement(v)
        \/ ReadDelim(c, i, s) = NextElement(e)
    BY DEF ReadDelim
  <2>5. ASSUME NEW x, NEW y, IsCall(y), NextElementEffect(x, y) PROVE Framed(x.p)
    <3>1. x.p = [y.p EXCEPT !.current_length = -1, !.state = "READING_LENGTH"]
      BY <2>5 DEF NextElementEffect
    <3>2. x.p.state = "READING_LENGTH"
      BY <2>5, <3>1 DEF IsCall, IsParser
    <3> QED
      BY <3>2 DEF Framed
  <2>6. ParseByte(c, i, s) = ReadDelim(c, i, s)
    BY <1>4 DEF ParseByte
  <2> HIDE DEF v, e
  <2>7. Framed(NextElement(v).p) /\ Framed(NextElement(e).p)
    BY <2>1, <2>2, <2>3, <2>5
  <2>8. v.p.state = "STREAM_CORRUPTED" => Framed(v.p)
    BY DEF Framed
  <2> QED
    BY <1>1, <2>4, <2>6, <2>7, <2>8
<1>5. CASE c.p.state = "STREAM_CORRUPTED"
  BY <1>5 DEF ParseByte
<1> QED
  BY <1>2, <1>3, <1>4, <1>5 DEF IsCall, IsParser

(***************************************************************************)
(* The parser never writes past its buffer, and never hands the hooks      *)
(* anything but the element on the wire: over any stream, in any number of *)
(* calls, the buffer holds what was read of the element, or its first      *)
(* MAX_ELEMENT_SIZE bytes, and when the delimiter is due all of the        *)
(* element was read, however it came in pieces.  Only the observers see    *)
(* elements that are longer.                                               *)
(***************************************************************************)
THEOREM BufferHoldsElement ==
    /\ \A class : Framed(New(class))
    /\ \A p : IsParser(p) => Framed(Reset(p))
    /\ \A p, data :
          /\ Len(data) \in Nat /\ IsParser(p) /\ Framed(p)
          /\ \A i \in 1..Len(data) : data[i][1] = "length" => data[i][2] \in Nat
          => /\ \A i \in 0..Len(data) : Framed(Calls(p, data)[i].p)
             /\ Framed(Parse(p, data).p)
<1>1. \A class : Framed(New(class))
  BY DEF New, Base, Framed
<1>2. \A p : IsParser(p) => Framed(Reset(p))
  BY DEF Reset, Base, Framed, IsParser
<1>3. ASSUME NEW p, NEW data, Len(data) \in Nat, IsParser(p), Framed(p),
             \A i \in 1..Len(data) : data[i][1] = "length" => data[i][2] \in Nat
      PROVE  /\ \A i \in 0..Len(data) : Framed(Calls(p, data)[i].p)
             /\ Framed(Parse(p, data).p)
  <2> DEFINE f == Calls(p, data)
             T == {j \in Nat : j <= Len(data) => Framed(f[j].p)}
  <2>1. 0 \in T
    <3>1. f[0] = Call(p) /\ Call(p).p = p
      BY <1>3, CallsEquation, NewCall
    <3> QED
      BY <1>3, <3>1
  <2>2. ASSUME NEW j \in 1..Len(data), j - 1 \in T PROVE j \in T
    <3>1. Framed(f[j - 1].p) /\ j - 1 \in 0..Len(data)
      BY <1>3, <2>2
    <3>2. IsCall(f[j - 1])
      BY <1>3, <3>1, CallsAreCalls
    <3>3. f[j] = ParseByte(f[j - 1], j, data[j])
      BY <1>3, CallsEquation
    <3> HIDE DEF f
    <3>4. Framed(f[j].p)
      BY <1>3, <3>1, <3>2, <3>3, FramedByte
    <3> QED
      BY <3>4
  <2>3. 0..Len(data) \subseteq T
    <3> HIDE DEF f
    <3>1. T \in SUBSET Nat
      OBVIOUS
    <3> HIDE DEF T
    <3> QED
      BY <1>3, <2>1, <2>2, <3>1, CountingUp
  <2>4. \A i \in 0..Len(data) : Framed(f[i].p)
    <3> HIDE DEF f
    <3> QED
      BY <1>3, <2>3
  <2> DEFINE last == f[Len(data)]
  <2>5. Framed(last.p) /\ IsCall(last)
    BY <1>3, <2>4, CallsAreCalls
  <2>6. Parse(p, data) = last \/ Parse(p, data) = Corrupt(last)
    BY DEF Parse, EndOfCall
  <2> HIDE DEF last, f
  <2>7. Framed(Corrupt(last).p)
    BY <2>5, CorruptStep DEF Corrupted, Framed
  <2> QED
    BY <2>4, <2>5, <2>6, <2>7 DEF f
<1> QED
  BY <1>1, <1>2, <1>3

-----------------------------------------------------------------------------
(* The guard's parser, field by field.                                      *)

IsGuard(c) ==
    /\ IsCall(c) /\ c.p.class = "guard"
    /\ c.p.marked \in BOOLEAN /\ c.p.reading_opcode \in BOOLEAN
    /\ c.p.marked => Is(c.p.current_opcode, "blob")

(* The members of GuardOpcodeParser are those of p.                         *)
SamePolicy(q, p) ==
    /\ q.current_opcode = p.current_opcode /\ q.current_arg = p.current_arg
    /\ q.clipboard_sidx = p.clipboard_sidx /\ q.marked = p.marked

(* What the hooks make of them at the end of an element e.                  *)
BeginEffect(q, e) ==
    q.current_opcode = e /\ q.current_arg = 0 /\ q.marked = FALSE

ArgumentEffect(q, p, e) ==
    LET sidx == parse_stream_index(e)
        blob == Is(p.current_opcode, "blob")
        first == p.current_arg + 1 = 1 /\ ~p.marked
    IN  /\ q.current_opcode = p.current_opcode /\ q.current_arg = p.current_arg + 1
        /\ q.marked \in BOOLEAN
        /\ q.marked <=> (first /\ blob /\ OnOpenStream(p, sidx))
        /\ q.clipboard_sidx =
              IF first /\ ~blob THEN TrackStream(p, sidx).clipboard_sidx
                                ELSE p.clipboard_sidx

GuardAllows(p) ==
    LET e == p.element_buffer IN
    IF p.reading_opcode THEN IsAllowedOpcode(e)
    ELSE /\ p.marked => Len(e) <= MAX_BYTES
         /\ (p.current_arg + 1 = 1 /\ ~p.marked /\ Is(p.current_opcode, "blob"))
               => OnOpenStream(p, parse_stream_index(e))

HookEffect(q, p) ==
    /\ p.reading_opcode =>
          BeginEffect(q, p.element_buffer) /\ q.clipboard_sidx = p.clipboard_sidx
    /\ ~p.reading_opcode => ArgumentEffect(q, p, p.element_buffer)

(* The hooks of the guard do what GuardAllows and HookEffect say.           *)
LEMMA GuardHook ==
    ASSUME NEW c, IsGuard(c)
    PROVE  /\ Hook(c).allowed <=> GuardAllows(c.p)
           /\ HookEffect(Hook(c).p, c.p)
<1> DEFINE p == c.p
           e == c.p.element_buffer
<1>1. IsParser(p) /\ p.class = "guard"
  BY DEF IsGuard, IsCall
<1> USE DEF IsGuard
<1>2. CASE p.reading_opcode
  <2>1. Hook(c) = OnInstructionBegin(p, e)
    BY <1>2 DEF Hook
  <2>2. OnInstructionBegin(p, e).allowed <=> IsAllowedOpcode(e)
    BY <1>1 DEF OnInstructionBegin
  <2>3. OnInstructionBegin(p, e).p = [p EXCEPT !.current_opcode = e, !.current_arg = 0,
                                               !.marked = FALSE, !.timestamp = <<>>]
    BY DEF OnInstructionBegin
  <2>4. HookEffect(OnInstructionBegin(p, e).p, p)
    BY <1>1, <1>2, <2>3 DEF HookEffect, BeginEffect, IsParser
  <2> QED
    BY <1>2, <2>1, <2>2, <2>4 DEF GuardAllows
<1>3. CASE ~p.reading_opcode
  <2> DEFINE q == [p EXCEPT !.current_arg = @ + 1]
             sidx == parse_stream_index(e)
             t == TrackStream(q, sidx)
  <2>1. Hook(c) = GuardArgument(q, e)
    BY <1>1, <1>3 DEF Hook, OnArgument, IsParser
  <2>2. /\ IsParser(q) /\ q.current_arg = p.current_arg + 1 /\ q.marked = p.marked
        /\ q.current_opcode = p.current_opcode /\ q.clipboard_sidx = p.clipboard_sidx
    BY <1>1 DEF IsParser
  <2> HIDE DEF q
  <2>3. OnOpenStream(q, sidx) <=> OnOpenStream(p, sidx)
    BY <2>2 DEF OnOpenStream
  <2>4. /\ IsParser(t) /\ t.current_arg = q.current_arg /\ t.marked = q.marked
        /\ t.current_opcode = q.current_opcode
        /\ t.clipboard_sidx = TrackStream(p, sidx).clipboard_sidx
    BY <1>1, <2>2 DEF TrackStream, IsParser
  <2>5. \A b : LET r == [q EXCEPT !.marked = b] IN
               /\ r.current_arg = q.current_arg /\ r.marked = b
               /\ r.current_opcode = q.current_opcode /\ r.clipboard_sidx = q.clipboard_sidx
    BY <2>2 DEF IsParser
  <2> HIDE DEF p
  <2>6. CASE p.marked
    <3>1. /\ GuardArgument(q, e).p = [q EXCEPT !.marked = FALSE]
          /\ GuardArgument(q, e).allowed = (Len(e) <= MAX_BYTES)
      BY <2>2, <2>6 DEF GuardArgument
    <3> DEFINE r == Hook(c).p
    <3>2. /\ r.current_arg = p.current_arg + 1 /\ r.marked = FALSE
          /\ r.current_opcode = p.current_opcode /\ r.clipboard_sidx = p.clipboard_sidx
      BY <2>1, <2>2, <2>5, <3>1
    <3>3. Hook(c).allowed <=> Len(e) <= MAX_BYTES
      BY <2>1, <3>1
    <3> HIDE DEF r, e
    <3>4. ArgumentEffect(r, p, e)
      BY <2>6, <3>2 DEF ArgumentEffect
    <3> QED
      BY <1>3, <2>6, <3>3, <3>4 DEF HookEffect, GuardAllows, p, r, e
  <2>7. CASE ~p.marked /\ p.current_arg + 1 = 1 /\ Is(p.current_opcode, "blob")
    <3>1. /\ GuardArgument(q, e).p = [q EXCEPT !.marked = OnOpenStream(q, sidx)]
          /\ GuardArgument(q, e).allowed = OnOpenStream(q, sidx)
      BY <2>2, <2>7 DEF GuardArgument
    <3> DEFINE r == Hook(c).p
    <3>2. /\ r.current_arg = p.current_arg + 1 /\ r.marked = OnOpenStream(q, sidx)
          /\ r.current_opcode = p.current_opcode /\ r.clipboard_sidx = p.clipboard_sidx
      BY <2>1, <2>2, <2>5, <3>1
    <3>3. r.marked \in BOOLEAN /\ (r.marked <=> OnOpenStream(p, sidx))
      BY <2>3, <3>2 DEF OnOpenStream
    <3>4. Hook(c).allowed <=> OnOpenStream(p, sidx)
      BY <2>1, <2>3, <3>1
    <3> HIDE DEF r, e
    <3>5. ArgumentEffect(r, p, e)
      BY <2>7, <3>2, <3>3 DEF ArgumentEffect
    <3> QED
      BY <1>3, <2>7, <3>4, <3>5 DEF HookEffect, GuardAllows, p, r, e
  <2>8. CASE ~p.marked /\ p.current_arg + 1 = 1 /\ ~Is(p.current_opcode, "blob")
    <3>1. /\ GuardArgument(q, e).p = t
          /\ GuardArgument(q, e).allowed = TRUE
      BY <2>2, <2>8 DEF GuardArgument
    <3> HIDE DEF t
    <3> QED
      BY <1>3, <2>1, <2>2, <2>4, <2>8, <3>1 DEF HookEffect, ArgumentEffect, GuardAllows, p
  <2>9. CASE ~p.marked /\ p.current_arg + 1 # 1
    <3>1. /\ GuardArgument(q, e).p = q
          /\ GuardArgument(q, e).allowed = TRUE
      BY <2>2, <2>9 DEF GuardArgument
    <3> QED
      BY <1>3, <2>1, <2>2, <2>9, <3>1 DEF HookEffect, ArgumentEffect, GuardAllows, p
  <2> QED
    BY <2>6, <2>7, <2>8, <2>9
<1> QED
  BY <1>2, <1>3

LengthRead(d, c, s) ==
    /\ s[1] = "length" /\ ~(s[2] > MAX_ELEMENT_SIZE)
    /\ d.p.state = IF s[2] = 0 THEN "EXPECT_DELIM" ELSE "READING_DATA"
    /\ d.p.current_length = s[2] /\ d.p.current_read = 0 /\ d.p.element_buffer = <<>>
    /\ d.p.reading_opcode = c.p.reading_opcode /\ SamePolicy(d.p, c.p)

DataRead(d, c, s) ==
    /\ ~(c.p.current_read < MAX_ELEMENT_SIZE /\ s = NonAscii)
    /\ d.p.state = IF c.p.current_read + 1 = c.p.current_length
                   THEN "EXPECT_DELIM" ELSE "READING_DATA"
    /\ d.p.current_length = c.p.current_length /\ d.p.current_read = c.p.current_read + 1
    /\ d.p.element_buffer = IF c.p.current_read < MAX_ELEMENT_SIZE
                            THEN Append(c.p.element_buffer, s) ELSE c.p.element_buffer
    /\ d.p.reading_opcode = c.p.reading_opcode /\ SamePolicy(d.p, c.p)

DelimRead(d, c, s) ==
    /\ s \in {Comma, Semicolon}
    /\ d.p.state = "READING_LENGTH"
    /\ d.p.reading_opcode = (s = Semicolon)
    /\ c.denying => SamePolicy(d.p, c.p)
    /\ ~c.denying => HookEffect(d.p, c.p)

GuardEffect(d, c, s) ==
    /\ IsGuard(d)
    /\ c.p.state = "READING_LENGTH" => LengthRead(d, c, s)
    /\ c.p.state = "READING_DATA" => DataRead(d, c, s)
    /\ c.p.state = "EXPECT_DELIM" => DelimRead(d, c, s)

(* A delimiter that does not corrupt the stream.                            *)
LEMMA GuardDelim ==
    ASSUME NEW c, NEW i, NEW s, IsGuard(c), c.denying => ~c.p.reading_opcode,
           ~Corrupted(ReadDelim(c, i, s)), c.p.state = "EXPECT_DELIM"
    PROVE  LET d == ReadDelim(c, i, s) IN DelimRead(d, c, s) /\ IsGuard(d)
<1> DEFINE v == Validate(c)
           w == IF s = Semicolon THEN EndInstruction(v, i) ELSE v
           d == NextElement(w)
<1>1. IsCall(c) /\ Corrupted(Corrupt(c))
  BY CorruptStep DEF IsGuard
<1>2. ValidateEffect(v, c) /\ IsCall(v) /\ v.p.class = "guard"
  BY <1>1, ValidateStep DEF ValidateEffect, Continues, IsGuard
<1>3. s \in {Comma, Semicolon} /\ ~Corrupted(v)
  BY <1>1 DEF ReadDelim, Corrupted
<1>4. Comma # Semicolon
  BY DEF Comma, Semicolon
<1>5. ReadDelim(c, i, s) = d
  BY <1>3, <1>4 DEF ReadDelim, Corrupted
<1> DEFINE Policy(q) == /\ c.denying => SamePolicy(q, c.p)
                        /\ ~c.denying => HookEffect(q, c.p)
                        /\ q.marked \in BOOLEAN
                        /\ q.marked => Is(q.current_opcode, "blob")
<1>6. Policy(v.p) /\ v.p.reading_opcode = FALSE
  <2>1. CASE c.denying
    <3>1. v = c
      BY <1>2, <2>1 DEF ValidateEffect
    <3> QED
      BY <2>1, <3>1 DEF SamePolicy, IsGuard
  <2>2. CASE ~c.denying
    <3> DEFINE q == Hook(c).p
    <3>1. v.p = [q EXCEPT !.reading_opcode = FALSE]
      BY <1>2, <1>3, <2>2 DEF ValidateEffect
    <3>2. IsParser(q)
      BY <1>1, BeginHook, ArgumentHook DEF Hook, IsCall
    <3>3. HookEffect(q, c.p)
      BY GuardHook
    <3> HIDE DEF q, v
    <3>4. SamePolicy(v.p, q) /\ v.p.reading_opcode = FALSE
      BY <3>1, <3>2 DEF SamePolicy, IsParser
    <3>5. HookEffect(v.p, c.p)
      BY <3>3, <3>4 DEF HookEffect, SamePolicy, BeginEffect, ArgumentEffect
    <3>6. v.p.marked \in BOOLEAN /\ (v.p.marked => Is(v.p.current_opcode, "blob"))
      BY <3>5 DEF HookEffect, BeginEffect, ArgumentEffect
    <3> QED
      BY <2>2, <3>4, <3>5, <3>6
  <2> QED
    BY <2>1, <2>2
<1> HIDE DEF v
<1>7. IsCall(w) /\ w.p.class = "guard" /\ SamePolicy(w.p, v.p) /\ w.p.reading_opcode = (s = Semicolon)
  <2>1. CASE s = Semicolon
    <3> DEFINE u == EndInstruction(v, i)
    <3>1. EndEffect(u, v, i) /\ IsCall(u) /\ u.p.class = "guard"
      BY <1>2, EndStep DEF EndEffect, Continues
    <3>2. OnInstructionEnd(v.p, i) = v.p
      BY <1>2 DEF OnInstructionEnd
    <3>3. u.p = [v.p EXCEPT !.reading_opcode = TRUE]
      BY <3>1, <3>2 DEF EndEffect
    <3>4. w = u
      BY <2>1
    <3> HIDE DEF u, w
    <3>5. IsParser(v.p)
      BY <1>2 DEF IsCall
    <3> QED
      BY <2>1, <3>1, <3>3, <3>4, <3>5 DEF SamePolicy, IsParser
  <2>2. CASE s # Semicolon
    BY <1>2, <1>6, <2>2 DEF SamePolicy
  <2> QED
    BY <2>1, <2>2
<1> HIDE DEF w
<1>8. /\ IsCall(d) /\ d.p.class = "guard" /\ SamePolicy(d.p, w.p)
      /\ d.p.reading_opcode = w.p.reading_opcode /\ d.p.state = "READING_LENGTH"
  <2>1. NextElementEffect(d, w)
    BY <1>7, NextElementStep
  <2>2. IsParser(w.p)
    BY <1>7 DEF IsCall
  <2> HIDE DEF d
  <2> QED
    BY <1>7, <2>1, <2>2 DEF NextElementEffect, Continues, SamePolicy, IsParser
<1> HIDE DEF d
<1>9. Policy(d.p)
  BY <1>6, <1>7, <1>8 DEF SamePolicy, HookEffect, BeginEffect, ArgumentEffect
<1>10. DelimRead(d, c, s)
  BY <1>3, <1>7, <1>8, <1>9 DEF DelimRead
<1>11. IsGuard(d)
  BY <1>7, <1>8, <1>9 DEF IsGuard
<1> QED
  BY <1>5, <1>10, <1>11

(* Any symbol that does not corrupt the stream.                             *)
LEMMA GuardByte ==
    ASSUME NEW c, NEW i, NEW s, IsGuard(c), c.denying => ~c.p.reading_opcode,
           ~Corrupted(ParseByte(c, i, s))
    PROVE  GuardEffect(ParseByte(c, i, s), c, s)
<1> DEFINE d == ParseByte(c, i, s)
<1>1. IsCall(c) /\ IsParser(c.p) /\ Corrupted(Corrupt(c)) /\ c.p.class = "guard"
  BY CorruptStep DEF IsGuard, IsCall
<1>2. ~Corrupted(c)
  BY DEF ParseByte, Corrupted
<1>3. CASE c.p.state = "READING_LENGTH"
  <2>1. s[1] = "length" /\ d = ReadLength(c, i, s[2])
    BY <1>1, <1>3 DEF ParseByte
  <2>2. LengthEffect(d, c, i, s[2])
    BY <1>1, <2>1, LengthStep
  <2>3. ~Oversized(c.p, s[2]) /\ ~(s[2] > MAX_ELEMENT_SIZE)
    BY <1>1, <2>2 DEF LengthEffect, Oversized, ToleratesOversizedElements
  <2> HIDE DEF d
  <2>4. LengthRead(d, c, s) /\ IsCall(d) /\ d.p.class = "guard"
    BY <1>1, <2>1, <2>2, <2>3 DEF LengthEffect, LengthRead, Continues, SamePolicy, IsParser
  <2>5. IsGuard(d)
    BY <2>4 DEF IsGuard, LengthRead, SamePolicy
  <2> QED
    BY <1>3, <2>4, <2>5 DEF GuardEffect, d
<1>4. CASE c.p.state = "READING_DATA"
  <2>1. d = ReadData(c, s)
    BY <1>4 DEF ParseByte
  <2>2. DataEffect(d, c, s)
    BY <1>1, <2>1, DataStep
  <2> HIDE DEF d
  <2>3. ~(c.p.current_read < MAX_ELEMENT_SIZE /\ s = NonAscii)
    <3>1. SUFFICES ASSUME c.p.current_read < MAX_ELEMENT_SIZE /\ s = NonAscii PROVE FALSE
      OBVIOUS
    <3>2. d.p = [c.p EXCEPT !.state = "STREAM_CORRUPTED"]
      BY <2>2, <3>1 DEF DataEffect
    <3> QED
      BY <1>1, <3>2 DEF IsParser, Corrupted, d
  <2>4. DataRead(d, c, s) /\ IsCall(d) /\ d.p.class = "guard"
    BY <1>1, <1>4, <2>2, <2>3 DEF DataEffect, DataRead, Continues, SamePolicy, IsParser
  <2>5. IsGuard(d)
    BY <2>4 DEF IsGuard, DataRead, SamePolicy
  <2> QED
    BY <1>4, <2>4, <2>5 DEF GuardEffect, d
<1>5. CASE c.p.state = "EXPECT_DELIM"
  <2>1. d = ReadDelim(c, i, s)
    BY <1>5 DEF ParseByte
  <2> QED
    BY <1>5, <2>1, GuardDelim DEF GuardEffect
<1> QED
  BY <1>1, <1>2, <1>3, <1>4, <1>5 DEF Corrupted, IsParser

(* A symbol that the guard can go on from.                                  *)
Readable(c, s) ==
    /\ ~Corrupted(c)
    /\ c.p.state = "READING_LENGTH" => s[1] = "length" /\ ~(s[2] > MAX_ELEMENT_SIZE)
    /\ c.p.state = "READING_DATA" => ~(c.p.current_read < MAX_ELEMENT_SIZE /\ s = NonAscii)
    /\ c.p.state = "EXPECT_DELIM" => /\ s \in {Comma, Semicolon}
                                     /\ Refuses(c) => c.opcode_in_this_call

(* It does.                                                                 *)
LEMMA ReadableIsRead ==
    ASSUME NEW c, NEW i, NEW s, IsGuard(c), Readable(c, s)
    PROVE  ~Corrupted(ParseByte(c, i, s))
<1> DEFINE d == ParseByte(c, i, s)
<1>1. IsCall(c) /\ IsParser(c.p) /\ c.p.class = "guard"
  BY DEF IsGuard, IsCall
<1>2. CASE c.p.state = "READING_LENGTH"
  <2>1. s[1] = "length" /\ ~Oversized(c.p, s[2])
    BY <1>2 DEF Readable, Oversized
  <2>2. d = ReadLength(c, i, s[2])
    BY <1>2, <2>1 DEF ParseByte
  <2>3. LengthEffect(d, c, i, s[2])
    BY <1>1, <2>2, LengthStep
  <2> HIDE DEF d
  <2>4. d.p.state \in {"EXPECT_DELIM", "READING_DATA"}
    BY <1>1, <2>1, <2>3 DEF LengthEffect, IsParser
  <2> QED
    BY <2>4 DEF Corrupted, d
<1>3. CASE c.p.state = "READING_DATA"
  <2>1. d = ReadData(c, s)
    BY <1>3 DEF ParseByte
  <2>2. DataEffect(d, c, s)
    BY <1>1, <2>1, DataStep
  <2> HIDE DEF d
  <2>3. d.p.state \in {"EXPECT_DELIM", "READING_DATA"}
    BY <1>1, <1>3, <2>2 DEF DataEffect, IsParser, Readable
  <2> QED
    BY <2>3 DEF Corrupted, d
<1>4. CASE c.p.state = "EXPECT_DELIM"
  <2> DEFINE v == Validate(c)
             u == EndInstruction(v, i)
  <2>1. ValidateEffect(v, c) /\ IsCall(v)
    BY <1>1, ValidateStep DEF ValidateEffect, Continues
  <2>2. ~Corrupted(v)
    <3>1. CASE c.denying
      BY <2>1, <3>1 DEF ValidateEffect, Readable
    <3>2. CASE ~c.denying
      <4>1. v.p = [Hook(c).p EXCEPT !.reading_opcode = FALSE]
        BY <1>4, <2>1, <3>2 DEF ValidateEffect, Readable
      <4>2. IsParser(Hook(c).p) /\ Framing(Hook(c).p) = Framing(c.p)
        BY <1>1, BeginHook, ArgumentHook DEF Hook
      <4> HIDE DEF v
      <4>3. v.p.state = c.p.state
        BY <4>1, <4>2 DEF Framing, IsParser
      <4> QED
        BY <1>4, <4>3 DEF Corrupted
    <3> QED
      BY <3>1, <3>2
  <2>3. IsCall(u)
    BY <2>1, EndStep DEF EndEffect, Continues
  <2>4. ~Corrupted(NextElement(v)) /\ ~Corrupted(NextElement(u))
    BY <2>1, <2>3, NextElementStep DEF NextElementEffect
  <2>5. d \in {NextElement(v), NextElement(u)}
    BY <1>4, <2>2 DEF ParseByte, ReadDelim, Readable, Corrupted
  <2> QED
    BY <2>4, <2>5
<1> QED
  BY <1>1, <1>2, <1>3, <1>4 DEF Readable, Corrupted, IsParser

(* And it goes on only from such.                                           *)
LEMMA ReadIsReadable ==
    ASSUME NEW c, NEW i, NEW s, IsGuard(c), c.denying => ~c.p.reading_opcode,
           ~Corrupted(ParseByte(c, i, s))
    PROVE  Readable(c, s)
<1>1. ~Corrupted(c)
  BY DEF ParseByte, Corrupted
<1>2. GuardEffect(ParseByte(c, i, s), c, s)
  BY GuardByte
<1>3. DenyEffect(ParseByte(c, i, s), c, i, s)
  BY DenyByte DEF IsGuard
<1>4. c.p.state = "EXPECT_DELIM" => /\ s \in {Comma, Semicolon}
                                    /\ Refuses(c) => c.opcode_in_this_call
  BY <1>2, <1>3 DEF GuardEffect, DelimRead, DenyEffect, Refusal
<1> QED
  BY <1>1, <1>2, <1>4 DEF GuardEffect, LengthRead, DataRead, Readable

-----------------------------------------------------------------------------
(* A second guard behind the first.                                         *)

(* Two guards that will treat what follows alike.                           *)
Alike(p, q) ==
    /\ p.state = q.state /\ p.reading_opcode = q.reading_opcode
    /\ p.clipboard_sidx = q.clipboard_sidx
    /\ p.state # "READING_LENGTH" =>
          /\ p.current_length = q.current_length /\ p.current_read = q.current_read
          /\ p.element_buffer = q.element_buffer
    /\ ~p.reading_opcode =>
          /\ p.current_opcode = q.current_opcode /\ p.current_arg = q.current_arg
          /\ p.marked = q.marked

(* They refuse the same.                                                    *)
LEMMA AlikeRefuse ==
    ASSUME NEW c, NEW C, IsGuard(c), IsGuard(C), ~c.denying, ~C.denying,
           Alike(c.p, C.p), c.p.state = "EXPECT_DELIM"
    PROVE  Refuses(C) <=> Refuses(c)
<1>1. GuardAllows(C.p) <=> GuardAllows(c.p)
  <2>1. CASE c.p.reading_opcode
    BY <2>1 DEF Alike, GuardAllows
  <2>2. CASE ~c.p.reading_opcode
    BY <2>2 DEF Alike, GuardAllows, OnOpenStream
  <2> QED
    BY <2>1, <2>2
<1> QED
  BY <1>1, GuardHook DEF Refuses

(* A symbol that the first guard reads and does not refuse.                 *)
LEMMA AlikeByte ==
    ASSUME NEW c, NEW C, NEW i, NEW j, NEW s, IsGuard(c), IsGuard(C),
           ~c.denying, ~C.denying, Alike(c.p, C.p), ~Refusal(c, s),
           ~Corrupted(ParseByte(c, i, s))
    PROVE  LET d == ParseByte(c, i, s)
               D == ParseByte(C, j, s)
           IN  /\ IsGuard(d) /\ IsGuard(D) /\ ~Corrupted(D) /\ Alike(d.p, D.p)
               /\ ~d.denying /\ ~D.denying
               /\ d.denied_ranges = c.denied_ranges /\ D.denied_ranges = C.denied_ranges
<1> DEFINE d == ParseByte(c, i, s)
           D == ParseByte(C, j, s)
<1>1. Readable(c, s)
  BY ReadIsReadable
<1>2. C.p.state = "EXPECT_DELIM" => ~Refuses(C)
  BY <1>1, AlikeRefuse DEF Refusal, Alike, Readable
<1>3. Readable(C, s)
  BY <1>1, <1>2 DEF Readable, Alike, Corrupted
<1>4. ~Corrupted(D)
  BY <1>3, ReadableIsRead
<1>5. GuardEffect(d, c, s) /\ GuardEffect(D, C, s)
  BY <1>4, GuardByte
<1>6. DenyEffect(d, c, i, s) /\ DenyEffect(D, C, j, s)
  BY <1>4, DenyByte DEF IsGuard
<1>7. ~Refusal(C, s)
  BY <1>2 DEF Refusal
<1> HIDE DEF d, D
<1>8. /\ ~d.denying /\ ~D.denying
      /\ d.denied_ranges = c.denied_ranges /\ D.denied_ranges = C.denied_ranges
  BY <1>6, <1>7 DEF DenyEffect
<1>9. Alike(d.p, D.p)
  <2>1. CASE c.p.state = "READING_LENGTH"
    BY <1>5, <2>1 DEF GuardEffect, LengthRead, SamePolicy, Alike
  <2>2. CASE c.p.state = "READING_DATA"
    BY <1>5, <2>2 DEF GuardEffect, DataRead, SamePolicy, Alike
  <2>3. CASE c.p.state = "EXPECT_DELIM"
    <3>1. /\ DelimRead(d, c, s) /\ DelimRead(D, C, s)
          /\ HookEffect(d.p, c.p) /\ HookEffect(D.p, C.p)
      BY <1>5, <2>3 DEF GuardEffect, DelimRead, Alike
    <3>2. CASE c.p.reading_opcode
      BY <2>3, <3>1, <3>2 DEF DelimRead, HookEffect, BeginEffect, Alike
    <3>3. CASE ~c.p.reading_opcode
      <4> DEFINE e == c.p.element_buffer
                 sidx == parse_stream_index(e)
      <4>1. ArgumentEffect(d.p, c.p, e) /\ ArgumentEffect(D.p, C.p, e)
        BY <2>3, <3>1, <3>3 DEF HookEffect, Alike
      <4>2. /\ OnOpenStream(c.p, sidx) <=> OnOpenStream(C.p, sidx)
            /\ TrackStream(c.p, sidx).clipboard_sidx = TrackStream(C.p, sidx).clipboard_sidx
        <5>1. IsParser(c.p) /\ IsParser(C.p)
          BY DEF IsGuard, IsCall
        <5> QED
          BY <3>3, <5>1 DEF OnOpenStream, TrackStream, Alike, IsParser
      <4>3. /\ c.p.current_opcode = C.p.current_opcode /\ c.p.current_arg = C.p.current_arg
            /\ c.p.marked = C.p.marked /\ c.p.clipboard_sidx = C.p.clipboard_sidx
        BY <3>3 DEF Alike
      <4> HIDE DEF e
      <4>4. /\ d.p.current_opcode = D.p.current_opcode /\ d.p.current_arg = D.p.current_arg
            /\ d.p.clipboard_sidx = D.p.clipboard_sidx
        BY <4>1, <4>2, <4>3 DEF ArgumentEffect
      <4>5. d.p.marked = D.p.marked
        <5>1. d.p.marked <=> D.p.marked
          BY <4>1, <4>2, <4>3 DEF ArgumentEffect
        <5>2. d.p.marked \in BOOLEAN /\ D.p.marked \in BOOLEAN
          BY <4>1 DEF ArgumentEffect
        <5> QED
          BY <5>1, <5>2
      <4> QED
        BY <3>1, <4>4, <4>5 DEF DelimRead, Alike
    <3> QED
      BY <3>2, <3>3
  <2>4. IsParser(c.p)
    BY DEF IsGuard, IsCall
  <2> QED
    BY <1>1, <2>1, <2>2, <2>3, <2>4 DEF Readable, Corrupted, IsParser
<1> QED
  BY <1>4, <1>5, <1>8, <1>9 DEF GuardEffect, d, D

(* The calls of a guard, as long as they are not corrupted.                 *)
LEMMA GuardCalls ==
    ASSUME NEW p, NEW data, Len(data) \in Nat, IsGuard(Call(p)), NEW k \in 0..Len(data),
           \A i \in 0..k : ~Corrupted(Calls(p, data)[i])
    PROVE  LET c == Calls(p, data)[k] IN IsGuard(c) /\ (c.denying => ~c.p.reading_opcode)
<1> DEFINE f == Calls(p, data)
           T == {j \in Nat : j <= k => IsGuard(f[j]) /\ (f[j].denying => ~f[j].p.reading_opcode)}
<1>1. 0 \in T
  <2>1. ~Call(p).denying
    BY DEF Call
  <2> QED
    BY <2>1, CallsEquation
<1>2. ASSUME NEW j \in 1..k, j - 1 \in T PROVE j \in T
  <2>1. /\ IsGuard(f[j - 1]) /\ (f[j - 1].denying => ~f[j - 1].p.reading_opcode)
        /\ j \in 1..Len(data)
    BY <1>2
  <2>2. f[j] = ParseByte(f[j - 1], j, data[j]) /\ ~Corrupted(f[j])
    BY <2>1, CallsEquation
  <2> HIDE DEF f
  <2>3. GuardEffect(f[j], f[j - 1], data[j])
    BY <2>1, <2>2, GuardByte
  <2>4. DenyEffect(f[j], f[j - 1], j, data[j])
    BY <2>1, <2>2, DenyByte DEF IsGuard
  <2>5. f[j].denying => ~f[j].p.reading_opcode
    BY <2>4 DEF DenyEffect
  <2> QED
    BY <2>3, <2>5 DEF GuardEffect
<1>3. 0..k \subseteq T
  <2> HIDE DEF f
  <2>1. T \in SUBSET Nat /\ k \in Nat
    OBVIOUS
  <2> HIDE DEF T
  <2> QED
    BY <1>1, <1>2, <2>1, CountingUp
<1> QED
  BY <1>3

(* Clipboard and end are the instructions that tell the guard of streams.   *)
Tracking(o) == Is(o, "clipboard") \/ Is(o, "end")

(* The instruction at hand, if it began in this call, has changed the open  *)
(* stream only if it is one of these, and then it is not denied.            *)
StreamKept(f, k) ==
    f[k].opcode_in_this_call /\ ~Begins(f[k]) =>
        \/ f[k].p.clipboard_sidx = f[f[k].opcode_start_idx - 1].p.clipboard_sidx
        \/ ~f[k].denying /\ ~f[k].p.reading_opcode /\ Tracking(f[k].p.current_opcode)

(* They are never refused, and nothing else changes it.                     *)
LEMMA TrackingHook ==
    ASSUME NEW c, NEW q, IsGuard(c), HookEffect(q, c.p), ~c.denying
    PROVE  /\ Refuses(c) => c.p.reading_opcode \/ ~Tracking(c.p.current_opcode)
           /\ q.clipboard_sidx # c.p.clipboard_sidx =>
                 ~c.p.reading_opcode /\ Tracking(c.p.current_opcode)
           /\ ~c.p.reading_opcode => q.current_opcode = c.p.current_opcode
<1>1. Refuses(c) <=> ~GuardAllows(c.p)
  BY GuardHook DEF Refuses
<1>2. Tracking(c.p.current_opcode) => ~Is(c.p.current_opcode, "blob")
  BY DEF Tracking, Is, Byte
<1>3. Refuses(c) => c.p.reading_opcode \/ ~Tracking(c.p.current_opcode)
  BY <1>1, <1>2 DEF GuardAllows, IsGuard
<1>4. q.clipboard_sidx # c.p.clipboard_sidx =>
          ~c.p.reading_opcode /\ Tracking(c.p.current_opcode)
  <2>1. IsParser(c.p)
    BY DEF IsGuard, IsCall
  <2>2. \A sidx : TrackStream(c.p, sidx).clipboard_sidx # c.p.clipboard_sidx =>
            Tracking(c.p.current_opcode)
    BY <2>1 DEF TrackStream, Tracking, IsParser
  <2> QED
    BY <2>2 DEF HookEffect, ArgumentEffect
<1>5. ~c.p.reading_opcode => q.current_opcode = c.p.current_opcode
  BY DEF HookEffect, ArgumentEffect
<1> QED
  BY <1>3, <1>4, <1>5

(* One symbol keeps that.                                                   *)
LEMMA StreamKeptStep ==
    ASSUME NEW f, NEW k \in Nat \ {0}, NEW s, IsGuard(f[k - 1]), ~Corrupted(f[k - 1]),
           GuardEffect(f[k], f[k - 1], s), DenyEffect(f[k], f[k - 1], k, s),
           StreamKept(f, k - 1)
    PROVE  StreamKept(f, k)
<1> DEFINE c == f[k - 1]
           d == f[k]
<1> SUFFICES ASSUME d.opcode_in_this_call, ~Begins(d)
             PROVE  \/ d.p.clipboard_sidx = f[d.opcode_start_idx - 1].p.clipboard_sidx
                    \/ ~d.denying /\ ~d.p.reading_opcode /\ Tracking(d.p.current_opcode)
  BY DEF StreamKept
<1> HIDE DEF c, d
<1>1. IsParser(c.p)
  BY DEF IsGuard, IsCall, c
<1>2. CASE Begins(c)
  <2>1. d.opcode_start_idx = k
    BY <1>2 DEF DenyEffect, c, d
  <2>2. d.p.clipboard_sidx = c.p.clipboard_sidx
    BY <1>2 DEF GuardEffect, Begins, LengthRead, SamePolicy, c, d
  <2> QED
    BY <2>1, <2>2 DEF c
<1>3. CASE ~Begins(c)
  <2> DEFINE b == f[c.opcode_start_idx - 1].p.clipboard_sidx
  <2>1. d.opcode_start_idx = c.opcode_start_idx /\ c.opcode_in_this_call
    BY <1>3 DEF DenyEffect, c, d
  <2>2. \/ c.p.clipboard_sidx = b
        \/ ~c.denying /\ ~c.p.reading_opcode /\ Tracking(c.p.current_opcode)
    BY <1>3, <2>1 DEF StreamKept, c
  <2> HIDE DEF b
  <2>3. SUFFICES \/ d.p.clipboard_sidx = b
                 \/ ~d.denying /\ ~d.p.reading_opcode /\ Tracking(d.p.current_opcode)
    BY <2>1 DEF b
  <2>4. CASE c.p.state \in {"READING_LENGTH", "READING_DATA"}
    <3>1. SamePolicy(d.p, c.p) /\ d.p.reading_opcode = c.p.reading_opcode
      BY <2>4 DEF GuardEffect, LengthRead, DataRead, c, d
    <3>2. ~Refusal(c, s) /\ ~Finishes(c, s)
      BY <2>4 DEF Refusal, Finishes
    <3>3. d.denying => c.denying
      BY <3>2 DEF DenyEffect, c, d
    <3> QED
      BY <2>2, <3>1, <3>3 DEF SamePolicy
  <2>5. CASE c.p.state = "EXPECT_DELIM"
    <3>1. DelimRead(d, c, s)
      BY <2>5 DEF GuardEffect, c, d
    <3>2. ~d.p.reading_opcode
      BY <3>1 DEF DelimRead, Begins
    <3>3. CASE c.denying
      BY <2>2, <3>1, <3>3 DEF DelimRead, SamePolicy
    <3>4. CASE ~c.denying
      <4>1. HookEffect(d.p, c.p)
        BY <3>1, <3>4 DEF DelimRead
      <4>2. /\ Refuses(c) => c.p.reading_opcode \/ ~Tracking(c.p.current_opcode)
            /\ d.p.clipboard_sidx # c.p.clipboard_sidx =>
                 ~c.p.reading_opcode /\ Tracking(c.p.current_opcode)
            /\ ~c.p.reading_opcode => d.p.current_opcode = c.p.current_opcode
        BY <3>4, <4>1, TrackingHook DEF c
      <4>3. d.denying => Refuses(c)
        BY <3>4 DEF DenyEffect, Refusal, c, d
      <4> QED
        BY <2>2, <3>2, <4>2, <4>3
    <3> QED
      BY <3>3, <3>4
  <2> QED
    BY <1>1, <2>4, <2>5 DEF Corrupted, IsParser, c
<1> QED
  BY <1>2, <1>3

(* One symbol of an uncorrupted call of a guard: all that is known of it.   *)
LEMMA GuardCallStep ==
    ASSUME NEW p, NEW data, Len(data) \in Nat, IsGuard(Call(p)), ~Corrupted(Parse(p, data)),
           NEW k \in 1..Len(data)
    PROVE  LET f == Calls(p, data) IN
           /\ f[k] = ParseByte(f[k - 1], k, data[k])
           /\ IsGuard(f[k - 1]) /\ ~Corrupted(f[k - 1]) /\ ~Corrupted(f[k])
           /\ f[k - 1].denying => ~f[k - 1].p.reading_opcode
           /\ GuardEffect(f[k], f[k - 1], data[k])
           /\ DenyEffect(f[k], f[k - 1], k, data[k])
<1> DEFINE f == Calls(p, data)
<1>1. IsParser(p)
  BY NewCall DEF IsGuard, IsCall, Call
<1>2. \A i \in 0..Len(data) : ~Corrupted(f[i])
  BY <1>1, CleanCall
<1>3. k - 1 \in 0..Len(data) /\ \A i \in 0..(k - 1) : i \in 0..Len(data)
  OBVIOUS
<1>4. IsGuard(f[k - 1]) /\ (f[k - 1].denying => ~f[k - 1].p.reading_opcode)
  BY <1>2, <1>3, GuardCalls
<1>5. f[k] = ParseByte(f[k - 1], k, data[k])
  BY CallsEquation
<1>6. ~Corrupted(f[k - 1]) /\ ~Corrupted(f[k])
  BY <1>2, <1>3
<1> HIDE DEF f
<1>7. GuardEffect(f[k], f[k - 1], data[k])
  BY <1>4, <1>5, <1>6, GuardByte
<1>8. DenyEffect(f[k], f[k - 1], k, data[k])
  BY <1>4, <1>5, <1>6, DenyByte DEF IsGuard
<1> QED
  BY <1>4, <1>5, <1>6, <1>7, <1>8 DEF f

(* So the open stream is kept all along.                                    *)
LEMMA StreamKeptCalls ==
    ASSUME NEW p, NEW data, Len(data) \in Nat, IsGuard(Call(p)), ~Corrupted(Parse(p, data)),
           NEW k \in 0..Len(data)
    PROVE  StreamKept(Calls(p, data), k)
<1> DEFINE f == Calls(p, data)
           T == {j \in Nat : j <= Len(data) => StreamKept(f, j)}
<1>1. 0 \in T
  <2>1. f[0] = Call(p)
    BY CallsEquation
  <2>2. ~Call(p).opcode_in_this_call
    BY DEF Call
  <2> QED
    BY <2>1, <2>2 DEF StreamKept
<1>2. ASSUME NEW j \in 1..Len(data), j - 1 \in T PROVE j \in T
  <2>1. StreamKept(f, j - 1) /\ j \in Nat \ {0}
    BY <1>2
  <2>2. /\ IsGuard(f[j - 1]) /\ ~Corrupted(f[j - 1])
        /\ GuardEffect(f[j], f[j - 1], data[j]) /\ DenyEffect(f[j], f[j - 1], j, data[j])
    BY GuardCallStep
  <2> HIDE DEF f
  <2>3. StreamKept(f, j)
    BY <2>1, <2>2, StreamKeptStep
  <2> QED
    BY <2>3
<1>3. 0..Len(data) \subseteq T
  <2> HIDE DEF f
  <2>1. T \in SUBSET Nat
    OBVIOUS
  <2> HIDE DEF T
  <2> QED
    BY <1>1, <1>2, <2>1, CountingUp
<1> QED
  BY <1>3

(* An instruction of n symbols' reading that is as if it had not been there. *)
Skipped(f, n, s, j) ==
    /\ s \in 1..n /\ j \in (s + 1)..n
    /\ Begins(f[s - 1]) /\ Begins(f[j])
    /\ \A m \in s..j : f[m].opcode_start_idx = s
    /\ f[j].p.clipboard_sidx = f[s - 1].p.clipboard_sidx

(* What a guard denies is of that kind.                                     *)
LEMMA DeniedIsSkipped ==
    ASSUME NEW p, NEW data, Len(data) \in Nat, IsGuard(Call(p)), ~Corrupted(Parse(p, data)),
           NEW r \in Parse(p, data).denied_ranges
    PROVE  \E s, j \in Nat : r = s..j /\ Skipped(Calls(p, data), Len(data), s, j)
<1> DEFINE f == Calls(p, data)
           n == Len(data)
<1>1. IsParser(p)
  BY NewCall DEF IsGuard, IsCall, Call
<1>2. PICK i \in 1..n : \E k \in i..n :
          RefusedAt(f, data, i) /\ CutOut(f, data, i, k) /\ r = Start(f, i)..k
  <2>1. Parse(p, data) = f[n] /\ ~f[n].denying
    BY <1>1, CleanCall
  <2>2. DenyInv(f, data, n)
    BY <1>1, CallsDeny
  <2> HIDE DEF f
  <2>3. \A x \in f[n].denied_ranges : \E i \in 1..n : \E k \in i..n :
          RefusedAt(f, data, i) /\ CutOut(f, data, i, k) /\ x = Start(f, i)..k
    BY <2>1, <2>2 DEF DenyInv, DeniedRefused
  <2> QED
    BY <2>1, <2>3
<1>3. PICK j \in i..n :
          RefusedAt(f, data, i) /\ CutOut(f, data, i, j) /\ r = Start(f, i)..j
  BY <1>2
<1> DEFINE s == Start(f, i)
           c == f[j - 1]
           d == f[j]
<1>4. /\ i \in s..j /\ s \in 1..j /\ Begins(f[s - 1]) /\ Finishes(f[j - 1], data[j])
      /\ \A m \in s..j : f[m].opcode_start_idx = s
  BY <1>3 DEF CutOut, IsInstruction
<1>5. j \in 1..n /\ j - 1 \in 0..n /\ s \in Nat /\ j \in Nat
  BY <1>4
<1>6. /\ IsGuard(c) /\ ~Corrupted(c)
      /\ GuardEffect(d, c, data[j]) /\ DenyEffect(d, c, j, data[j])
  BY <1>5, GuardCallStep
<1>7. StreamKept(f, j - 1)
  BY <1>5, StreamKeptCalls
<1>8. DenyInv(f, data, j - 1)
  BY <1>1, <1>5, CallsDeny
<1>9. \A m \in 1..n : f[m].opcode_start_idx = IF Begins(f[m - 1]) THEN m
                                              ELSE f[m - 1].opcode_start_idx
  BY GuardCallStep DEF DenyEffect
<1> HIDE DEF f, s
<1>10. s # j
  BY <1>4 DEF Begins, Finishes
<1>11. s \in 1..n /\ j \in (s + 1)..n /\ j - 1 \in s..j
  BY <1>4, <1>5, <1>10
<1>12. DelimRead(d, c, data[j]) /\ data[j] = Semicolon /\ Begins(d)
  BY <1>4, <1>6 DEF GuardEffect, DelimRead, Finishes, Begins
<1>13. c.opcode_start_idx = s /\ ~Begins(c)
  BY <1>4, <1>11 DEF Begins, Finishes
<1>14. c.denying \/ Refuses(c)
  <2>1. CASE i = j
    BY <1>3, <2>1 DEF RefusedAt, Refusal
  <2>2. CASE i # j
    <3>1. i \in 1..(j - 1)
      BY <1>3, <2>2
    <3>2. \/ c.denying
          \/ \E m \in i..(j - 1) : CutOut(f, data, i, m)
      BY <1>3, <1>8, <3>1 DEF DenyInv, RefusedDenied
    <3>3. ASSUME NEW m \in i..(j - 1), CutOut(f, data, i, m) PROVE FALSE
      <4>1. Finishes(f[m - 1], data[m]) /\ m \in 1..n /\ m + 1 \in 1..n /\ m + 1 \in s..j
        BY <1>4, <1>5, <3>3 DEF CutOut, IsInstruction
      <4>2. DelimRead(f[m], f[m - 1], data[m])
        BY <4>1, GuardCallStep DEF f, GuardEffect, Finishes
      <4>3. Begins(f[m])
        BY <4>1, <4>2 DEF DelimRead, Finishes, Begins
      <4>4. f[m + 1].opcode_start_idx = m + 1
        BY <1>9, <4>1, <4>3
      <4>5. f[m + 1].opcode_start_idx = s /\ m + 1 # s
        BY <1>4, <3>3, <4>1
      <4> QED
        BY <4>4, <4>5
    <3> QED
      BY <3>2, <3>3
  <2> QED
    BY <2>1, <2>2
<1>15. c.opcode_in_this_call
  <2>1. Refuses(c) => Refusal(c, data[j])
    BY <1>4, <1>12 DEF Refusal, Finishes
  <2>2. c.denying => c.opcode_in_this_call
    BY <1>8 DEF DenyInv, DeniesWithCause
  <2> QED
    BY <1>6, <1>14, <2>1, <2>2 DEF DenyEffect
<1>16. \/ c.p.clipboard_sidx = f[s - 1].p.clipboard_sidx
       \/ ~c.denying /\ ~c.p.reading_opcode /\ Tracking(c.p.current_opcode)
  BY <1>7, <1>13, <1>15 DEF StreamKept
<1>17. d.p.clipboard_sidx = f[s - 1].p.clipboard_sidx
  <2>1. CASE c.denying
    BY <1>12, <1>16, <2>1 DEF DelimRead, SamePolicy
  <2>2. CASE ~c.denying
    <3>1. HookEffect(d.p, c.p)
      BY <1>12, <2>2 DEF DelimRead
    <3>2. /\ Refuses(c) => c.p.reading_opcode \/ ~Tracking(c.p.current_opcode)
          /\ d.p.clipboard_sidx # c.p.clipboard_sidx =>
               ~c.p.reading_opcode /\ Tracking(c.p.current_opcode)
      BY <1>6, <2>2, <3>1, TrackingHook
    <3> QED
      BY <1>14, <1>16, <2>2, <3>2
  <2> QED
    BY <2>1, <2>2
<1>18. r = s..j
  BY <1>3 DEF s
<1>19. Skipped(f, n, s, j)
  BY <1>4, <1>11, <1>12, <1>17 DEF Skipped
<1> QED
  BY <1>5, <1>18, <1>19 DEF f

(* What Excise leaves of the first symbols: the symbols outside the ranges. *)
IsExcised(kept, data, ranges) ==
    /\ kept[0] = <<>>
    /\ \A i \in 1..Len(data) :
          kept[i] = IF \E r \in ranges : i \in r THEN kept[i - 1]
                                                 ELSE Append(kept[i - 1], data[i])

(* Excise, symbol by symbol.                                                *)
LEMMA ExciseEquation ==
    ASSUME NEW S, NEW data \in Seq(S), NEW ranges
    PROVE  \E kept : /\ IsExcised(kept, data, ranges)
                     /\ \A i \in 0..Len(data) : kept[i] \in Seq(S) /\ Len(kept[i]) <= i
                     /\ Excise(data, ranges) = kept[Len(data)]
<1> DEFINE n == Len(data)
           F(f) == f = [i \in 0..n |-> IF i = 0 THEN <<>>
                                       ELSE IF \E r \in ranges : i \in r
                                            THEN f[i - 1] ELSE Append(f[i - 1], data[i])]
           arg == [data |-> data, ranges |-> ranges]
           kept == CHOOSE f : F(f)
<1>1. Excise(data, ranges) = kept[n]
  BY DEF Excise, Stepwise
<1>2. \A f : IsCourse(f, "Excise", <<>>, arg, n) => F(f)
  <2>1. arg.data = data /\ arg.ranges = ranges
    OBVIOUS
  <2> HIDE DEF arg
  <2>2. \A x, i : Step("Excise", x, i, arg) =
            IF \E r \in ranges : i \in r THEN x ELSE Append(x, data[i])
    BY <2>1 DEF Step
  <2> QED
    BY <2>2 DEF IsCourse
<1>3. n \in Nat /\ \A i \in 1..n : data[i] \in S
  OBVIOUS
<1>4. F(kept)
  <2> HIDE DEF F, arg, n
  <2>1. \E f : F(f)
    BY <1>2, <1>3, CourseExists
  <2> QED
    BY <2>1
<1> HIDE DEF kept
<1>5. IsExcised(kept, data, ranges)
  <2> HIDE DEF n
  <2>1. kept[0] = <<>>
    BY <1>3, <1>4
  <2>2. ASSUME NEW i \in 1..n
        PROVE  kept[i] = IF \E r \in ranges : i \in r THEN kept[i - 1]
                                                     ELSE Append(kept[i - 1], data[i])
    <3>1. i \in 0..n /\ i # 0
      BY <1>3
    <3> QED
      BY <1>4, <3>1
  <2> QED
    BY <2>1, <2>2 DEF IsExcised, n
<1> DEFINE T == {j \in Nat : j <= n => kept[j] \in Seq(S) /\ Len(kept[j]) <= j}
<1>6. 0 \in T
  <2>1. <<>> \in Seq(S) /\ Len(<<>>) = 0
    OBVIOUS
  <2>2. kept[0] \in Seq(S) /\ Len(kept[0]) = 0
    BY <1>5, <2>1 DEF IsExcised
  <2> QED
    BY <2>2
<1>7. ASSUME NEW j \in 1..n, j - 1 \in T PROVE j \in T
  <2>1. kept[j - 1] \in Seq(S) /\ Len(kept[j - 1]) <= j - 1 /\ data[j] \in S /\ j \in Nat
    BY <1>3, <1>7
  <2> DEFINE before == kept[j - 1]
             after == Append(before, data[j])
  <2>2. kept[j] = before \/ kept[j] = after
    BY <1>5 DEF IsExcised
  <2> HIDE DEF before
  <2>3. after \in Seq(S) /\ Len(after) = Len(before) + 1 /\ Len(before) \in Nat
    BY <2>1 DEF before
  <2> HIDE DEF after
  <2>4. kept[j] \in Seq(S) /\ Len(kept[j]) <= j
    BY <2>1, <2>2, <2>3 DEF before
  <2> QED
    BY <2>4
<1>8. 0..n \subseteq T
  <2>1. T \in SUBSET Nat
    OBVIOUS
  <2> HIDE DEF T, n
  <2> QED
    BY <1>3, <1>6, <1>7, <2>1, CountingUp
<1>9. \A i \in 0..n : kept[i] \in Seq(S) /\ Len(kept[i]) <= i
  BY <1>3, <1>8
<1> QED
  BY <1>1, <1>5, <1>9

(* A stream that a new guard reads without denying any of it, and the guard *)
(* that has read it.                                                        *)
Reread(str) == Calls(New("guard"), str)[Len(str)]

Clean(str) ==
    /\ ~Corrupted(Reread(str)) /\ ~Reread(str).denying
    /\ Reread(str).denied_ranges = {}

After(str) == Reread(str).p

(* A new guard is one.                                                      *)
LEMMA NewGuard == IsGuard(Call(New("guard"))) /\ ~Corrupted(Call(New("guard")))
<1>1. IsParser(New("guard"))
  BY DEF New, Base, IsParser
<1>2. IsCall(Call(New("guard"))) /\ Call(New("guard")).p = New("guard")
  BY <1>1, NewCall
<1>3. /\ New("guard").class = "guard" /\ New("guard").marked = FALSE
      /\ New("guard").reading_opcode = TRUE /\ New("guard").state = "READING_LENGTH"
  BY DEF New, Base
<1> QED
  BY <1>2, <1>3 DEF IsGuard, Corrupted

(* So is the guard that has read a clean stream.                            *)
LEMMA CleanIsGuard ==
    ASSUME NEW str, Len(str) \in Nat, ~Corrupted(Reread(str))
    PROVE  IsGuard(Reread(str))
<1> DEFINE f == Calls(New("guard"), str)
<1>1. \A i \in 0..Len(str) : ~Corrupted(f[i])
  BY CorruptedStays DEF Reread
<1> QED
  BY <1>1, NewGuard, GuardCalls DEF Reread

(* One more symbol that a guard like it reads and does not refuse.          *)
LEMMA CleanAppend ==
    ASSUME NEW S, NEW str \in Seq(S), NEW s \in S, Clean(str), NEW c, NEW i,
           IsGuard(c), ~c.denying, Alike(c.p, After(str)), ~Refusal(c, s),
           ~Corrupted(ParseByte(c, i, s))
    PROVE  Clean(Append(str, s)) /\ Alike(ParseByte(c, i, s).p, After(Append(str, s)))
<1> DEFINE more == Append(str, s)
           n == Len(str)
           C == Reread(str)
           D == Reread(more)
<1>1. n \in Nat /\ more \in Seq(S) /\ Len(more) = n + 1 /\ more[n + 1] = s
  OBVIOUS
<1>2. more = str \o <<s>> /\ <<s>> \in Seq(S)
  BY AppendIsConcat
<1>3. Calls(New("guard"), more)[n] = C
  <2> DEFINE one == <<s>>
  <2>1. one \in Seq(S) /\ n \in 0..Len(str)
    BY <1>1, <1>2
  <2> HIDE DEF one
  <2>2. Calls(New("guard"), str \o one)[n] = Calls(New("guard"), str)[n]
    BY <2>1, CallsPrefix
  <2> QED
    BY <1>2, <2>2 DEF Reread, one
<1>4. D = ParseByte(C, n + 1, s)
  <2>1. n + 1 \in 1..Len(more) /\ (n + 1) - 1 = n /\ Len(more) \in Nat
    BY <1>1
  <2>2. Calls(New("guard"), more)[n + 1] = ParseByte(Calls(New("guard"), more)[(n + 1) - 1], n + 1, more[n + 1])
    BY <2>1, CallsEquation
  <2> HIDE DEF more, n
  <2> QED
    BY <1>1, <1>3, <2>1, <2>2 DEF Reread
<1>5. IsGuard(C) /\ ~C.denying /\ C.denied_ranges = {} /\ Alike(c.p, C.p)
  BY <1>1, CleanIsGuard DEF Clean, After
<1> HIDE DEF C, D, n
<1>6. /\ ~Corrupted(D) /\ Alike(ParseByte(c, i, s).p, D.p)
      /\ ~D.denying /\ D.denied_ranges = C.denied_ranges
  BY <1>4, <1>5, AlikeByte
<1> QED
  BY <1>5, <1>6 DEF Clean, After, D

(* Nothing is denied outside the denied ranges.                             *)
LEMMA OutsideDenied ==
    ASSUME NEW p, NEW data, Len(data) \in Nat, IsGuard(Call(p)), ~Corrupted(Parse(p, data)),
           NEW k \in 1..Len(data),
           ~ \E r \in Parse(p, data).denied_ranges : k \in r
    PROVE  LET c == Calls(p, data)[k - 1] IN ~c.denying /\ ~Refusal(c, data[k])
<1> DEFINE f == Calls(p, data)
           n == Len(data)
           D == Parse(p, data).denied_ranges
<1>1. IsParser(p)
  BY NewCall DEF IsGuard, IsCall, Call
<1>2. \A i \in 1..n : RefusedAt(f, data, i) =>
          \E j \in i..n : CutOut(f, data, i, j) /\ Start(f, i)..j \in D
  BY <1>1, DeniedIsRefused
<1>3. DenyInv(f, data, k - 1)
  BY <1>1, CallsDeny
<1>4. \A m \in 1..n : f[m].opcode_start_idx = IF Begins(f[m - 1]) THEN m
                                              ELSE f[m - 1].opcode_start_idx
  BY GuardCallStep DEF DenyEffect
<1>5. ASSUME NEW m \in 1..n, Finishes(f[m - 1], data[m]) PROVE Begins(f[m])
  <2>1. GuardEffect(f[m], f[m - 1], data[m])
    BY GuardCallStep
  <2> HIDE DEF f
  <2> QED
    BY <1>5, <2>1 DEF GuardEffect, DelimRead, Finishes, Begins
<1> HIDE DEF f, D
<1>6. ~Refusal(f[k - 1], data[k])
  <2>1. SUFFICES ASSUME RefusedAt(f, data, k) PROVE FALSE
    BY DEF RefusedAt
  <2>2. PICK j \in k..n : CutOut(f, data, k, j) /\ Start(f, k)..j \in D
    BY <1>2, <2>1
  <2>3. k \in Start(f, k)..j
    BY <2>2 DEF CutOut
  <2> QED
    BY <2>2, <2>3 DEF D
<1>7. ~f[k - 1].denying
  <2>1. SUFFICES ASSUME f[k - 1].denying PROVE FALSE
    OBVIOUS
  <2> DEFINE s == f[k - 1].opcode_start_idx
  <2>2. /\ ~f[k - 1].p.reading_opcode /\ f[k - 1].opcode_in_this_call
        /\ \E i \in 1..(k - 1) : RefusedAt(f, data, i) /\ Start(f, i) = s
    BY <1>3, <2>1 DEF DenyInv, DeniesWithCause
  <2>3. PICK i \in 1..(k - 1) : RefusedAt(f, data, i) /\ Start(f, i) = s
    BY <2>2
  <2>4. /\ s \in 1..(k - 1)
        /\ \A m \in s..(k - 1) : f[m].opcode_start_idx = s
    BY <1>3, <2>2 DEF DenyInv, Placed
  <2>5. PICK j \in i..n : CutOut(f, data, i, j) /\ s..j \in D
    <3>1. i \in 1..n
      OBVIOUS
    <3> QED
      BY <1>2, <2>3, <3>1
  <2> HIDE DEF s
  <2>6. i \in s..j /\ Finishes(f[j - 1], data[j]) /\ j \in 1..n
    BY <2>3, <2>5 DEF CutOut, IsInstruction
  <2>7. Begins(f[j])
    BY <1>5, <2>6
  <2>8. k \notin s..j
    BY <2>5 DEF D
  <2>9. j <= k - 1 /\ s \in Nat
    BY <2>4, <2>8
  <2>10. j # k - 1
    BY <2>2, <2>7 DEF Begins
  <2>11. j + 1 \in s..(k - 1) /\ j + 1 \in 1..n /\ (j + 1) - 1 = j /\ j + 1 # s
    BY <2>6, <2>9, <2>10
  <2>12. f[j + 1].opcode_start_idx = j + 1
    BY <1>4, <2>7, <2>11
  <2> QED
    BY <2>4, <2>11, <2>12
<1> QED
  BY <1>6, <1>7 DEF f

(* Symbols k and k + 1 are in one of the ranges D.                          *)
Inside(D, k) == \E r \in D : k \in r /\ k + 1 \in r

(* After k symbols the second guard, which has read what was left of them,  *)
(* is where the first is; or, inside a denied instruction, where the first  *)
(* was before it.                                                           *)
Follows(f, n, D, k, out) ==
    /\ Clean(out)
    /\ \E m \in 0..k :
          /\ Alike(f[m].p, After(out))
          /\ \/ m = k /\ ~Inside(D, k)
             \/ \E j \in (k + 1)..n : /\ m < k /\ (m + 1)..j \in D
                                      /\ Skipped(f, n, m + 1, j)

(***************************************************************************)
(* What the guard lets through, it would let through again: a guard that   *)
(* reads what the first forwarded denies nothing of it and ends where the  *)
(* first did, whatever was denied and cut out before.  Taking out refused  *)
(* instructions never makes a permitted one of what is left into one that  *)
(* is refused, and never moves the boundaries of instructions              *)
(* (OpcodeParser::Parse and CutRanges, per packet, with the clipboard      *)
(* state of GuardOpcodeParser carried along).                              *)
(***************************************************************************)
THEOREM GuardIdempotent ==
    ASSUME NEW S, NEW str \in Seq(S), NEW data \in Seq(S), NEW p, IsGuard(Call(p)),
           Clean(str), Alike(p, After(str)), ~Corrupted(Parse(p, data))
    PROVE  LET c == Parse(p, data)
               out == str \o Excise(data, c.denied_ranges)
           IN  Clean(out) /\ Alike(c.p, After(out)) /\ IsGuard(Call(c.p))
<1> DEFINE f == Calls(p, data)
           n == Len(data)
           D == Parse(p, data).denied_ranges
<1>1. n \in Nat /\ \A i \in 1..n : data[i] \in S
  OBVIOUS
<1>2. IsParser(p) /\ Call(p).p = p
  BY NewCall DEF IsGuard, IsCall, Call
<1>3. Parse(p, data) = f[n]
  BY <1>1, <1>2, CleanCall
<1>4. \A r \in D : \E s, j \in Nat : r = s..j /\ Skipped(f, n, s, j)
  BY <1>1, DeniedIsSkipped
<1>5. \A k \in 1..n :
          /\ f[k] = ParseByte(f[k - 1], k, data[k])
          /\ IsGuard(f[k - 1]) /\ ~Corrupted(f[k - 1]) /\ ~Corrupted(f[k])
          /\ GuardEffect(f[k], f[k - 1], data[k])
          /\ DenyEffect(f[k], f[k - 1], k, data[k])
  BY <1>1, GuardCallStep
<1>6. \A k \in 1..n : ~(\E r \in D : k \in r) =>
          ~f[k - 1].denying /\ ~Refusal(f[k - 1], data[k])
  BY <1>1, OutsideDenied
<1>7. f[0] = Call(p)
  BY <1>1, CallsEquation
<1>8. PICK kept : /\ IsExcised(kept, data, D)
                  /\ \A i \in 0..n : kept[i] \in Seq(S) /\ Len(kept[i]) <= i
                  /\ Excise(data, D) = kept[n]
  BY ExciseEquation
<1>9. \A k \in 0..n : IsGuard(f[k])
  <2>1. \A k \in 1..n : IsGuard(f[k])
    BY <1>5 DEF GuardEffect
  <2> QED
    BY <1>1, <1>7, <2>1
<1> HIDE DEF f, D
<1> DEFINE T == {k \in Nat : k <= n => Follows(f, n, D, k, str \o kept[k])}
<1>10. 0 \in T
  <2>1. str \o kept[0] = str
    <3>1. kept[0] = <<>>
      BY <1>8 DEF IsExcised
    <3> QED
      BY <3>1
  <2>2. ~Inside(D, 0)
    <3>1. ASSUME NEW r \in D, 0 \in r PROVE FALSE
      <4>1. PICK s \in Nat : \E j \in Nat : r = s..j /\ Skipped(f, n, s, j)
        BY <1>4
      <4> QED
        BY <3>1, <4>1 DEF Skipped
    <3> QED
      BY <3>1 DEF Inside
  <2>3. Follows(f, n, D, 0, str)
    BY <1>2, <1>7, <2>2 DEF Follows
  <2> QED
    BY <2>1, <2>3
<1>11. ASSUME NEW k \in 1..n, k - 1 \in T PROVE k \in T
  <2> DEFINE out == str \o kept[k - 1]
             new == str \o kept[k]
  <2>1. Follows(f, n, D, k - 1, out) /\ k \in Nat /\ k - 1 \in 0..n
    BY <1>1, <1>11
  <2>2. out \in Seq(S)
    BY <1>8, <2>1
  <2>3. PICK m \in 0..(k - 1) :
          /\ Alike(f[m].p, After(out))
          /\ \/ m = k - 1 /\ ~Inside(D, k - 1)
             \/ \E j \in k..n : /\ m < k - 1 /\ (m + 1)..j \in D
                                /\ Skipped(f, n, m + 1, j)
    <3>1. (k - 1) + 1 = k
      OBVIOUS
    <3> QED
      BY <2>1, <3>1 DEF Follows
  <2>4. kept[k] = IF \E r \in D : k \in r THEN kept[k - 1] ELSE Append(kept[k - 1], data[k])
    BY <1>8 DEF IsExcised
  <2>5. Clean(out)
    BY <2>1 DEF Follows
  <2>6. CASE m = k - 1 /\ ~ \E r \in D : k \in r
    <3>1. new = Append(out, data[k])
      <4>1. kept[k] = Append(kept[k - 1], data[k])
        BY <2>4, <2>6
      <4>2. kept[k - 1] \in Seq(S) /\ data[k] \in S
        BY <1>1, <1>8, <2>1
      <4> QED
        BY <4>1, <4>2
    <3> HIDE DEF out, new
    <3> DEFINE c == f[k - 1]
    <3>2. /\ IsGuard(c) /\ f[k] = ParseByte(c, k, data[k]) /\ ~Corrupted(f[k])
          /\ ~c.denying /\ ~Refusal(c, data[k]) /\ Alike(c.p, After(out))
          /\ data[k] \in S
      BY <1>1, <1>5, <1>6, <2>3, <2>6
    <3> HIDE DEF c
    <3>3. Clean(new) /\ Alike(f[k].p, After(new))
      BY <2>2, <2>5, <3>1, <3>2, CleanAppend
    <3>4. ~Inside(D, k)
      BY <2>6 DEF Inside
    <3>5. Follows(f, n, D, k, new)
      BY <3>3, <3>4 DEF Follows
    <3> QED
      BY <3>5 DEF new
  <2>7. CASE m = k - 1 /\ \E r \in D : k \in r
    <3>1. PICK r \in D : k \in r
      BY <2>7
    <3>2. PICK s \in Nat : \E j \in Nat : r = s..j /\ Skipped(f, n, s, j)
      BY <1>4
    <3>3. PICK j \in Nat : r = s..j /\ Skipped(f, n, s, j)
      BY <3>2
    <3>4. s = k
      <4>1. ~(k - 1 \in r) \/ ~((k - 1) + 1 \in r)
        BY <2>3, <2>7 DEF Inside
      <4> QED
        BY <3>1, <3>3, <4>1
    <3>5. new = out
      BY <2>4, <2>7
    <3>6. j \in (k + 1)..n /\ m + 1 = k /\ m < k /\ m \in 0..k
      BY <2>7, <3>3, <3>4 DEF Skipped
    <3> HIDE DEF out, new
    <3>7. Follows(f, n, D, k, new)
      BY <2>3, <2>5, <3>3, <3>4, <3>5, <3>6 DEF Follows
    <3> QED
      BY <3>7 DEF new
  <2>8. CASE m # k - 1
    <3>1. PICK j \in k..n : m < k - 1 /\ (m + 1)..j \in D /\ Skipped(f, n, m + 1, j)
      BY <2>3, <2>8
    <3>2. k \in (m + 1)..j /\ m \in 0..k /\ m < k
      BY <3>1
    <3>3. new = out
      BY <2>4, <3>1, <3>2
    <3> HIDE DEF out, new
    <3>4. CASE k # j
      <4>1. j \in (k + 1)..n
        BY <3>4
      <4>2. Follows(f, n, D, k, new)
        BY <2>3, <2>5, <3>1, <3>2, <3>3, <4>1 DEF Follows
      <4> QED
        BY <4>2 DEF new
    <3>5. CASE k = j
      <4>1. /\ Begins(f[m]) /\ Begins(f[k]) /\ f[k].p.clipboard_sidx = f[m].p.clipboard_sidx
        <5>1. (m + 1) - 1 = m
          OBVIOUS
        <5> QED
          BY <3>1, <3>5, <5>1 DEF Skipped
      <4>2. f[k].p.reading_opcode = f[m].p.reading_opcode
        <5>1. IsGuard(f[k]) /\ IsGuard(f[m])
          BY <1>9, <3>2
        <5> QED
          BY <4>1, <5>1 DEF IsGuard, Begins
      <4>3. Alike(f[k].p, After(new))
        BY <2>3, <3>3, <4>1, <4>2 DEF Alike, Begins
      <4>4. ~Inside(D, k)
        <5>1. ASSUME NEW r \in D, k \in r, k + 1 \in r PROVE FALSE
          <6>1. PICK s \in Nat : \E i \in Nat : r = s..i /\ Skipped(f, n, s, i)
            BY <1>4
          <6>2. PICK i \in Nat : r = s..i /\ Skipped(f, n, s, i)
            BY <6>1
          <6>3. k + 1 \in 1..n /\ (k + 1) - 1 = k
            BY <5>1, <6>2 DEF Skipped
          <6>4. f[k + 1].opcode_start_idx = k + 1
            BY <1>5, <4>1, <6>3 DEF DenyEffect
          <6>5. f[k + 1].opcode_start_idx = s /\ s <= k
            BY <5>1, <6>2 DEF Skipped
          <6> QED
            BY <6>4, <6>5
        <5> QED
          BY <5>1 DEF Inside
      <4>5. k \in 0..k
        OBVIOUS
      <4>6. Follows(f, n, D, k, new)
        BY <2>5, <3>3, <4>3, <4>4, <4>5 DEF Follows
      <4> QED
        BY <4>6 DEF new
    <3> QED
      BY <3>4, <3>5
  <2> QED
    BY <2>6, <2>7, <2>8
<1>12. n \in T
  <2>1. T \in SUBSET Nat
    OBVIOUS
  <2> HIDE DEF T, n
  <2>2. 0..n \subseteq T
    BY <1>1, <1>10, <1>11, <2>1, CountingUp
  <2> QED
    BY <1>1, <2>2
<1> DEFINE out == str \o kept[n]
<1>13. Follows(f, n, D, n, out)
  BY <1>1, <1>12
<1>14. Clean(out) /\ Alike(f[n].p, After(out))
  <2> HIDE DEF out, n
  <2> QED
    BY <1>1, <1>13 DEF Follows
<1>15. IsGuard(Call(f[n].p))
  <2>1. IsGuard(f[n])
    BY <1>1, <1>9
  <2>2. IsParser(f[n].p)
    BY <2>1 DEF IsGuard, IsCall
  <2>3. IsCall(Call(f[n].p)) /\ Call(f[n].p).p = f[n].p
    BY <2>2, NewCall
  <2> QED
    BY <2>1, <2>3 DEF IsGuard
<1> QED
  BY <1>3, <1>8, <1>14, <1>15 DEF D

-----------------------------------------------------------------------------
(* What a clean stream says: the parser against the reference.              *)

IsStream(str) ==
    /\ IsSequence(str)
    /\ \A i \in 1..Len(str) : str[i][1] = "length" => str[i][2] \in Nat

(* A sequence has a length and a domain.                                    *)
LEMMA SequenceLength ==
    ASSUME NEW str, IsSequence(str)
    PROVE  Len(str) \in Nat /\ DOMAIN str = 1..Len(str)
  BY DEF IsSequence

(* A clean stream, as a new guard reads it.                                 *)
IsReading(f, str) ==
    /\ IsStream(str)
    /\ f[0] = Call(New("guard"))
    /\ \A k \in 0..Len(str) :
          /\ IsGuard(f[k]) /\ ~Corrupted(f[k]) /\ ~f[k].denying /\ Framed(f[k].p)
          /\ Placed(f, k) /\ (k # 0 => f[k].opcode_in_this_call)
    /\ \A k \in 1..Len(str) :
          /\ GuardEffect(f[k], f[k - 1], str[k]) /\ DenyEffect(f[k], f[k - 1], k, str[k])
          /\ ~Refusal(f[k - 1], str[k])

(* There is one.                                                            *)
LEMMA CleanReading ==
    ASSUME NEW str, IsStream(str), Clean(str)
    PROVE  IsReading(Calls(New("guard"), str), str)
<1> DEFINE p == New("guard")
           f == Calls(p, str)
           n == Len(str)
<1>1. n \in Nat
  BY SequenceLength DEF IsStream
<1>2. IsGuard(Call(p)) /\ IsParser(p)
  BY NewGuard, NewCall DEF IsGuard, IsCall, Call
<1>3. f[n] = Reread(str) /\ Parse(p, str) = f[n] /\ ~Corrupted(Parse(p, str))
  BY DEF Reread, Clean, Parse, EndOfCall
<1>4. Parse(p, str).denied_ranges = {}
  BY <1>3 DEF Clean
<1>5. f[0] = Call(p)
  BY <1>1, CallsEquation
<1>6. Framed(p)
  BY BufferHoldsElement
<1> HIDE DEF p
<1>7. ASSUME NEW k \in 1..n
      PROVE  /\ GuardEffect(f[k], f[k - 1], str[k]) /\ DenyEffect(f[k], f[k - 1], k, str[k])
             /\ ~Refusal(f[k - 1], str[k]) /\ ~f[k - 1].denying
  <2>1. GuardEffect(f[k], f[k - 1], str[k]) /\ DenyEffect(f[k], f[k - 1], k, str[k])
    BY <1>1, <1>2, <1>3, GuardCallStep
  <2>2. ~Refusal(f[k - 1], str[k]) /\ ~f[k - 1].denying
    BY <1>1, <1>2, <1>3, <1>4, OutsideDenied
  <2> QED
    BY <2>1, <2>2
<1>8. ASSUME NEW k \in 0..n PROVE ~Corrupted(f[k]) /\ Framed(f[k].p) /\ Placed(f, k)
  <2>1. ~Corrupted(f[k])
    BY <1>1, <1>2, <1>3, CleanCall
  <2>2. Framed(f[k].p)
    <3>1. \A i \in 1..n : str[i][1] = "length" => str[i][2] \in Nat
      BY DEF IsStream
    <3> QED
      BY <1>1, <1>2, <1>6, <3>1, BufferHoldsElement
  <2>3. DenyInv(f, str, k)
    BY <1>1, <1>2, <1>3, CallsDeny
  <2> QED
    BY <2>1, <2>2, <2>3 DEF DenyInv
<1>9. ~f[n].denying
  BY <1>3 DEF Clean
<1> HIDE DEF f
<1>10. \A k \in 0..n : ~f[k].denying
  <2> SUFFICES ASSUME NEW k \in 0..n, k # n PROVE ~f[k].denying
    BY <1>9
  <2>1. k + 1 \in 1..n /\ (k + 1) - 1 = k
    BY <1>1
  <2> QED
    BY <1>7, <2>1
<1>11. \A k \in 0..n : IsGuard(f[k])
  <2>1. \A k \in 1..n : IsGuard(f[k])
    BY <1>7 DEF GuardEffect
  <2> QED
    BY <1>1, <1>2, <1>5, <2>1
<1>12. \A k \in 0..n : k # 0 => f[k].opcode_in_this_call
  <2> DEFINE T == {k \in Nat : k # 0 /\ k <= n => f[k].opcode_in_this_call}
  <2>1. 0 \in T
    OBVIOUS
  <2>2. ASSUME NEW k \in 1..n, k - 1 \in T PROVE k \in T
    <3>1. k = 1 => Begins(f[k - 1])
      <4>1. Begins(Call(New("guard")))
        BY DEF Begins, Call, New, Base
      <4> QED
        BY <1>5, <4>1 DEF p
    <3>2. k # 1 => f[k - 1].opcode_in_this_call
      BY <1>1, <2>2
    <3>3. f[k].opcode_in_this_call
      BY <1>7, <3>1, <3>2 DEF DenyEffect
    <3> QED
      BY <3>3
  <2>3. 0..n \subseteq T
    <3>1. T \in SUBSET Nat
      OBVIOUS
    <3> HIDE DEF T, n
    <3> QED
      BY <1>1, <2>1, <2>2, <3>1, CountingUp
  <2> QED
    BY <2>3
<1> QED
  BY <1>5, <1>7, <1>8, <1>10, <1>11, <1>12 DEF IsReading, f, p

(* Where elements begin, as told by the first i symbols.                    *)
IsTold(upto, str) ==
    /\ upto[0] = {1}
    /\ \A i \in 1..Len(str) :
          upto[i] = IF i \in upto[i - 1] /\ str[i][1] = "length"
                    THEN upto[i - 1] \cup {DelimOf(str, i) + 1} ELSE upto[i - 1]

(* Places, symbol by symbol: each symbol tells of places beyond the next.   *)
LEMMA PlacesEquation ==
    ASSUME NEW str, IsStream(str)
    PROVE  \E upto : /\ IsTold(upto, str)
                     /\ \A i \in 0..Len(str) :
                           /\ upto[i] \subseteq Places(str)
                           /\ \A y \in Places(str) : y <= i + 1 => y \in upto[i]
                     /\ Places(str) \subseteq Nat \ {0}
<1> DEFINE n == Len(str)
           F(f) == f = [i \in 0..n |-> IF i = 0 THEN {1}
                                       ELSE IF i \in f[i - 1] /\ str[i][1] = "length"
                                            THEN f[i - 1] \cup {DelimOf(str, i) + 1}
                                            ELSE f[i - 1]]
           upto == CHOOSE f : F(f)
           P == Places(str)
<1>1. P = upto[n]
  BY DEF Places, Stepwise
<1>2. \A f : IsCourse(f, "Places", {1}, str, n) => F(f)
  <2>1. \A x, i : Step("Places", x, i, str) =
            IF i \in x /\ str[i][1] = "length" THEN x \cup {DelimOf(str, i) + 1} ELSE x
    BY DEF Step
  <2>2. ASSUME NEW f, IsCourse(f, "Places", {1}, str, n) PROVE F(f)
    <3> DEFINE g == [i \in 0..n |-> IF i = 0 THEN {1} ELSE Step("Places", f[i - 1], i, str)]
               h == [i \in 0..n |-> IF i = 0 THEN {1}
                                    ELSE LET told == f[i - 1] IN
                                         IF i \in told /\ str[i][1] = "length"
                                         THEN told \cup {DelimOf(str, i) + 1} ELSE told]
    <3>1. f = g
      BY <2>2 DEF IsCourse
    <3>2. ASSUME NEW i \in 0..n PROVE g[i] = h[i]
      BY <2>1
    <3>3. g = [i \in 0..n |-> g[i]] /\ h = [i \in 0..n |-> h[i]]
      OBVIOUS
    <3>4. g = h
      <4> HIDE DEF g, h
      <4> QED
        BY <3>2, <3>3
    <3> QED
      BY <3>1, <3>4
  <2> QED
    BY <2>2
<1>3. n \in Nat /\ \A i \in 1..n : str[i][1] = "length" => DelimOf(str, i) + 1 \in Nat
                                                         /\ DelimOf(str, i) + 1 > i + 1
  BY SequenceLength DEF IsStream, DelimOf
<1>4. F(upto)
  <2> HIDE DEF F, n
  <2>1. \E f : F(f)
    BY <1>2, <1>3, CourseExists
  <2> QED
    BY <2>1
<1> HIDE DEF upto, n, P
<1>5. IsTold(upto, str)
  <2>1. upto[0] = {1}
    BY <1>3, <1>4
  <2>2. ASSUME NEW i \in 1..n
        PROVE  upto[i] = IF i \in upto[i - 1] /\ str[i][1] = "length"
                         THEN upto[i - 1] \cup {DelimOf(str, i) + 1} ELSE upto[i - 1]
    <3>1. i \in 0..n /\ i # 0
      BY <1>3
    <3> QED
      BY <1>4, <3>1
  <2> QED
    BY <2>1, <2>2 DEF IsTold, n
<1> DEFINE T == {j \in Nat : j <= n => /\ upto[j] \subseteq Nat \ {0}
                                       /\ \A i \in 0..j : /\ upto[i] \subseteq upto[j]
                                                          /\ \A y \in upto[j] : y <= i + 1 => y \in upto[i]}
<1>6. 0 \in T
  BY <1>5 DEF IsTold
<1>7. ASSUME NEW j \in 1..n, j - 1 \in T PROVE j \in T
  <2>1. /\ upto[j - 1] \subseteq Nat \ {0}
        /\ \A i \in 0..(j - 1) : /\ upto[i] \subseteq upto[j - 1]
                                 /\ \A y \in upto[j - 1] : y <= i + 1 => y \in upto[i]
    BY <1>3, <1>7
  <2>2. \/ upto[j] = upto[j - 1]
        \/ upto[j] = upto[j - 1] \cup {DelimOf(str, j) + 1} /\ str[j][1] = "length"
    BY <1>5 DEF IsTold, n
  <2>3. upto[j - 1] \subseteq upto[j]
    BY <2>2
  <2>4. upto[j] \subseteq Nat \ {0}
    BY <1>3, <2>1, <2>2
  <2>5. ASSUME NEW y \in upto[j], y <= j + 1 PROVE y \in upto[j - 1]
    BY <1>3, <2>2, <2>5
  <2>6. ASSUME NEW i \in 0..j
        PROVE  /\ upto[i] \subseteq upto[j]
               /\ \A y \in upto[j] : y <= i + 1 => y \in upto[i]
    <3>1. CASE i = j
      BY <3>1
    <3>2. CASE i # j
      <4>1. i \in 0..(j - 1)
        BY <3>2
      <4>2. \A y \in upto[j] : y \in Nat /\ (y <= i + 1 => y <= j + 1)
        BY <2>4, <4>1
      <4> QED
        BY <2>1, <2>3, <2>5, <4>1, <4>2
    <3> QED
      BY <3>1, <3>2
  <2> QED
    BY <2>4, <2>6
<1>8. n \in T
  <2>1. T \in SUBSET Nat
    OBVIOUS
  <2> HIDE DEF T
  <2>2. 0..n \subseteq T
    BY <1>3, <1>6, <1>7, <2>1, CountingUp
  <2> QED
    BY <1>3, <2>2
<1>9. /\ P \subseteq Nat \ {0}
      /\ \A i \in 0..n : /\ upto[i] \subseteq P
                         /\ \A y \in P : y <= i + 1 => y \in upto[i]
  BY <1>1, <1>8
<1> QED
  BY <1>5, <1>9 DEF n, P

(* The place of the element at hand after k symbols.                        *)
At(c, k) == IF c.p.state = "READING_LENGTH" THEN k + 1 ELSE k - c.p.current_read

(* The element at y is whole and well formed.                               *)
Complete(str, y) ==
    /\ y \in 1..Len(str) /\ str[y][1] = "length"
    /\ DelimOf(str, y) \in 1..Len(str) /\ str[DelimOf(str, y)] \in {Comma, Semicolon}

(* After k symbols the parser is where the lengths say.                     *)
InFrame(c, str, told, k) ==
    LET at == At(c, k) IN
    /\ at \in told /\ at \in 1..(k + 1)
    /\ \A y \in told : y < at => Complete(str, y) /\ DelimOf(str, y) < at
    /\ \A y \in told : at < y => at <= k /\ y = DelimOf(str, at) + 1
    /\ c.p.state # "READING_LENGTH" =>
          /\ at <= k /\ k <= DelimOf(str, at) - 1
          /\ str[at][1] = "length" /\ c.p.current_length = str[at][2]
          /\ DelimOf(str, at) + 1 \in told
          /\ c.p.element_buffer = SubSeq(str, at + 1, k)

(* One symbol.                                                              *)
LEMMA InFrameStep ==
    ASSUME NEW f, NEW str, NEW upto, IsReading(f, str), IsTold(upto, str),
           NEW k \in 1..Len(str), upto[k - 1] \subseteq Nat \ {0},
           InFrame(f[k - 1], str, upto[k - 1], k - 1)
    PROVE  InFrame(f[k], str, upto[k], k)
<1> DEFINE n == Len(str)
           c == f[k - 1]
           d == f[k]
           a == At(c, k - 1)
           U == upto[k - 1]
           s == str[k]
<1>1. n \in Nat /\ IsSequence(str) /\ \A i \in 1..n : str[i][1] = "length" => str[i][2] \in Nat
  BY SequenceLength DEF IsReading, IsStream
<1>2. /\ GuardEffect(d, c, s) /\ IsGuard(c) /\ IsParser(c.p) /\ ~Corrupted(c) /\ c.p.class = "guard"
      /\ Framed(c.p) /\ Framed(d.p)
  <2>1. k - 1 \in 0..n /\ k \in 0..n
    BY <1>1
  <2>2. /\ GuardEffect(d, c, s) /\ IsGuard(c) /\ ~Corrupted(c)
        /\ Framed(c.p) /\ Framed(d.p)
    BY <1>1, <2>1 DEF IsReading
  <2> HIDE DEF c
  <2>3. IsParser(c.p) /\ c.p.class = "guard"
    BY <2>2 DEF IsGuard, IsCall
  <2> QED
    BY <2>2, <2>3
<1>3. upto[k] = IF k \in U /\ str[k][1] = "length" THEN U \cup {DelimOf(str, k) + 1} ELSE U
  BY DEF IsTold
<1>4. /\ a \in U /\ a \in 1..k
      /\ \A y \in U : y < a => Complete(str, y) /\ DelimOf(str, y) < a
      /\ \A y \in U : a < y => a <= k - 1 /\ y = DelimOf(str, a) + 1
      /\ c.p.state # "READING_LENGTH" =>
            /\ a <= k - 1 /\ k - 1 <= DelimOf(str, a) - 1
            /\ str[a][1] = "length" /\ c.p.current_length = str[a][2]
            /\ DelimOf(str, a) + 1 \in U
            /\ c.p.element_buffer = SubSeq(str, a + 1, k - 1)
  BY DEF InFrame
<1>5. \A y \in U : y \in Nat
  OBVIOUS
<1> HIDE DEF U, c, d, n
<1>6. CASE c.p.state = "READING_LENGTH"
  <2>1. LengthRead(d, c, s)
    BY <1>2, <1>6 DEF GuardEffect
  <2>2. a = k
    BY <1>6 DEF At
  <2>3. /\ d.p.state # "READING_LENGTH" /\ d.p.current_read = 0 /\ d.p.element_buffer = <<>>
        /\ s[1] = "length" /\ d.p.current_length = s[2]
    BY <2>1 DEF LengthRead
  <2>4. At(d, k) = k
    BY <2>3 DEF At
  <2>5. upto[k] = U \cup {DelimOf(str, k) + 1}
    BY <1>3, <1>4, <2>2, <2>3
  <2>6. DelimOf(str, k) \in Nat /\ k <= DelimOf(str, k) - 1
    BY <1>1, <2>3 DEF DelimOf, n
  <2>7. SubSeq(str, k + 1, k) = <<>>
    BY SubSeqEmpty
  <2>8. \A y \in upto[k] : k < y => y = DelimOf(str, k) + 1
    BY <1>4, <1>5, <2>2, <2>5
  <2>9. \A y \in upto[k] : y < k => Complete(str, y) /\ DelimOf(str, y) < k
    BY <1>4, <1>5, <2>2, <2>5, <2>6
  <2>10. k \in upto[k] /\ k \in 1..(k + 1) /\ k <= k
    BY <1>4, <2>2, <2>5
  <2> QED
    BY <2>3, <2>4, <2>5, <2>6, <2>7, <2>8, <2>9, <2>10 DEF InFrame, d
<1>7. CASE c.p.state # "READING_LENGTH"
  <2>1. /\ a <= k - 1 /\ k - 1 <= DelimOf(str, a) - 1
        /\ str[a][1] = "length" /\ c.p.current_length = str[a][2]
        /\ DelimOf(str, a) + 1 \in U
        /\ c.p.element_buffer = SubSeq(str, a + 1, k - 1)
    BY <1>4, <1>7
  <2>2. a \in 1..n /\ DelimOf(str, a) = a + c.p.current_length + 1 /\ c.p.current_length \in Nat
    BY <1>1, <1>4, <2>1 DEF DelimOf, n
  <2>3. c.p.current_read \in Nat /\ a = (k - 1) - c.p.current_read
    BY <1>2, <1>7 DEF Framed, At, Corrupted, IsParser
  <2> HIDE DEF a
  <2>4. k \notin U
    BY <1>4, <2>1, <2>2
  <2>5. upto[k] = U
    BY <1>3, <2>4
  <2>6. CASE c.p.state = "READING_DATA"
    <3>1. DataRead(d, c, s) /\ c.p.current_read < c.p.current_length
      BY <1>2, <2>6 DEF GuardEffect, Framed
    <3>2. c.p.current_read < MAX_ELEMENT_SIZE
      BY <1>2, <2>2, <2>3, <2>6, <3>1, ParserAssumption DEF Framed, ToleratesOversizedElements
    <3>3. /\ d.p.state # "READING_LENGTH" /\ d.p.current_read = c.p.current_read + 1
          /\ d.p.current_length = c.p.current_length
          /\ d.p.element_buffer = Append(c.p.element_buffer, s)
      BY <3>1, <3>2 DEF DataRead
    <3>4. At(d, k) = a
      BY <2>3, <3>3 DEF At
    <3>5. k <= DelimOf(str, a) - 1
      BY <2>2, <2>3, <3>1
    <3>6. Append(SubSeq(str, a + 1, k - 1), s) = SubSeq(str, a + 1, k)
      <4>1. PICK S : str \in Seq(S)
        BY <1>1 DEF IsSequence
      <4>2. a + 1 \in 1..Len(str) /\ k \in (a + 1)..Len(str)
        BY <2>1, <2>2 DEF n
      <4>3. SubSeq(str, a + 1, k) = SubSeq(str, a + 1, k - 1) \o <<str[k]>>
        BY <4>1, <4>2, SubSeqRecursiveSecond
      <4>4. SubSeq(str, a + 1, k - 1) \in Seq(S) /\ str[k] \in S
        <5>1. a + 1 \in Int /\ k - 1 \in Int /\ \A i \in (a + 1)..(k - 1) : i \in 1..Len(str)
          BY <4>2
        <5>2. \A i \in (a + 1)..(k - 1) : str[i] \in S
          BY <4>1, <5>1
        <5> QED
          BY <4>1, <5>1, <5>2, SubSeqProperties
      <4> QED
        BY <4>3, <4>4, AppendIsConcat
    <3>7. a \in 1..(k + 1) /\ a <= k
      BY <1>4, <2>1, <2>2 DEF a
    <3>8. \A y \in U : y < a => Complete(str, y) /\ DelimOf(str, y) < a
      BY <1>4 DEF a
    <3>9. \A y \in U : a < y => a <= k /\ y = DelimOf(str, a) + 1
      BY <1>4, <3>7 DEF a
    <3>10. a \in U
      BY <1>4 DEF a
    <3> QED
      BY <2>1, <2>5, <3>3, <3>4, <3>5, <3>6, <3>7, <3>8, <3>9, <3>10 DEF InFrame, d
  <2>7. CASE c.p.state = "EXPECT_DELIM"
    <3>1. DelimRead(d, c, s) /\ c.p.current_read = c.p.current_length
      BY <1>2, <2>7 DEF GuardEffect, Framed
    <3>2. d.p.state = "READING_LENGTH" /\ At(d, k) = k + 1 /\ s \in {Comma, Semicolon}
      BY <3>1 DEF DelimRead, At
    <3>3. k = DelimOf(str, a)
      BY <2>2, <2>3, <3>1
    <3>4. Complete(str, a)
      BY <2>1, <2>2, <3>2, <3>3 DEF Complete, n
    <3>5. \A y \in U : y < k + 1 => Complete(str, y) /\ DelimOf(str, y) < k + 1
      <4> SUFFICES ASSUME NEW y \in U, y < k + 1 PROVE Complete(str, y) /\ DelimOf(str, y) < k + 1
        OBVIOUS
      <4>1. CASE y = a
        BY <3>3, <3>4, <4>1
      <4>2. CASE y < a
        <5>1. Complete(str, y) /\ DelimOf(str, y) < a
          BY <1>4, <4>2 DEF a
        <5>2. DelimOf(str, y) \in Nat
          BY <5>1 DEF Complete
        <5> QED
          BY <2>1, <2>2, <5>1, <5>2
      <4>3. CASE y > a
        BY <1>4, <3>3, <4>3 DEF a
      <4>4. y \in Nat /\ a \in Nat
        BY <1>5, <2>2
      <4> QED
        BY <4>1, <4>2, <4>3, <4>4
    <3>6. \A y \in U : ~(k + 1 < y)
      <4> SUFFICES ASSUME NEW y \in U, k + 1 < y PROVE FALSE
        OBVIOUS
      <4>1. y \in Nat /\ a < y
        BY <1>5, <2>1, <2>2
      <4>2. y = DelimOf(str, a) + 1
        BY <1>4, <4>1 DEF a
      <4> QED
        BY <3>3, <4>1, <4>2
    <3>7. k + 1 \in U /\ k + 1 \in 1..(k + 1)
      BY <2>1, <3>3
    <3> QED
      BY <2>5, <3>2, <3>5, <3>6, <3>7 DEF InFrame, d
  <2> QED
    BY <1>2, <1>7, <2>6, <2>7 DEF IsParser, Corrupted
<1> QED
  BY <1>6, <1>7

(* The same against all of the places.                                      *)
InPlace(c, str, k) ==
    LET at == At(c, k) IN
    /\ at \in Places(str) /\ at \in 1..(k + 1)
    /\ \A y \in Places(str) : y < at => Complete(str, y) /\ DelimOf(str, y) < at
    /\ \A y \in Places(str) : at < y => k + 1 < y
    /\ at <= k <=> c.p.state # "READING_LENGTH"
    /\ c.p.state # "READING_LENGTH" =>
          /\ k <= DelimOf(str, at) - 1 /\ DelimOf(str, at) \in Nat
          /\ str[at][1] = "length" /\ c.p.current_length = str[at][2]
          /\ DelimOf(str, at) + 1 \in Places(str)
          /\ c.p.element_buffer = SubSeq(str, at + 1, k)

(* It holds all along.                                                      *)
LEMMA ReadingInPlace ==
    ASSUME NEW f, NEW str, IsReading(f, str), NEW k \in 0..Len(str)
    PROVE  InPlace(f[k], str, k)
<1> DEFINE n == Len(str)
           P == Places(str)
<1>1. n \in Nat /\ IsStream(str) /\ \A i \in 1..n : str[i][1] = "length" => str[i][2] \in Nat
  BY SequenceLength DEF IsReading, IsStream
<1>2. PICK upto : /\ IsTold(upto, str)
                  /\ \A i \in 0..n : /\ upto[i] \subseteq P
                                     /\ \A y \in P : y <= i + 1 => y \in upto[i]
                  /\ P \subseteq Nat \ {0}
  BY <1>1, PlacesEquation
<1> HIDE DEF P
<1> DEFINE T == {j \in Nat : j <= n => InFrame(f[j], str, upto[j], j)}
<1>3. 0 \in T
  <2>1. f[0].p.state = "READING_LENGTH" /\ upto[0] = {1}
    BY <1>2 DEF IsReading, IsTold, Call, New, Base
  <2>2. At(f[0], 0) = 1
    BY <2>1 DEF At
  <2>3. InFrame(f[0], str, upto[0], 0)
    BY <2>1, <2>2 DEF InFrame
  <2> QED
    BY <2>3
<1>4. ASSUME NEW j \in 1..n, j - 1 \in T PROVE j \in T
  <2>1. InFrame(f[j - 1], str, upto[j - 1], j - 1) /\ upto[j - 1] \subseteq Nat \ {0}
    <3>1. j - 1 \in 0..n
      BY <1>1
    <3>2. upto[j - 1] \subseteq Nat \ {0}
      BY <1>2, <3>1
    <3>3. InFrame(f[j - 1], str, upto[j - 1], j - 1)
      BY <1>4, <3>1
    <3> QED
      BY <3>2, <3>3
  <2>2. InFrame(f[j], str, upto[j], j)
    BY <1>2, <2>1, InFrameStep
  <2> QED
    BY <2>2
<1>5. InFrame(f[k], str, upto[k], k)
  <2>1. T \in SUBSET Nat
    OBVIOUS
  <2> HIDE DEF T, n
  <2>2. 0..n \subseteq T
    BY <1>1, <1>3, <1>4, <2>1, CountingUp
  <2> QED
    BY <2>2 DEF T, n
<1> DEFINE a == At(f[k], k)
           U == upto[k]
<1>6. /\ a \in U /\ a \in 1..(k + 1)
      /\ \A y \in U : y < a => Complete(str, y) /\ DelimOf(str, y) < a
      /\ \A y \in U : a < y => a <= k /\ y = DelimOf(str, a) + 1
      /\ f[k].p.state # "READING_LENGTH" =>
            /\ a <= k /\ k <= DelimOf(str, a) - 1
            /\ str[a][1] = "length" /\ f[k].p.current_length = str[a][2]
            /\ DelimOf(str, a) + 1 \in U
            /\ f[k].p.element_buffer = SubSeq(str, a + 1, k)
  BY <1>5 DEF InFrame
<1>7. /\ U \subseteq P /\ \A y \in P : y \in Nat /\ (y <= k + 1 => y \in U)
  BY <1>2
<1>8. a <= k <=> f[k].p.state # "READING_LENGTH"
  <2>1. f[k].p.state = "READING_LENGTH" => a = k + 1
    BY DEF At
  <2> QED
    BY <1>6, <2>1
<1> HIDE DEF a, U
<1>9. f[k].p.state # "READING_LENGTH" => DelimOf(str, a) \in Nat
  BY <1>1, <1>6, <1>8 DEF DelimOf, n
<1>10. \A y \in P : y < a => Complete(str, y) /\ DelimOf(str, y) < a
  BY <1>6, <1>7
<1>11. \A y \in P : a < y => k + 1 < y
  <2> SUFFICES ASSUME NEW y \in P, a < y, ~(k + 1 < y) PROVE FALSE
    OBVIOUS
  <2>1. y \in U
    BY <1>7
  <2>2. a <= k /\ y = DelimOf(str, a) + 1
    BY <1>6, <2>1
  <2> QED
    BY <1>6, <1>8, <1>9, <2>2
<1> QED
  BY <1>6, <1>7, <1>8, <1>9, <1>10, <1>11 DEF InPlace, a, P

(* An element is at hand from its length to its last byte.                  *)
LEMMA ElementAtHand ==
    ASSUME NEW f, NEW str, IsReading(f, str), NEW j \in Places(str), j <= Len(str)
    PROVE  /\ j \in 1..Len(str) /\ str[j][1] = "length" /\ DelimOf(str, j) \in Nat
           /\ DelimOf(str, j) > j
           /\ f[j - 1].p.state = "READING_LENGTH" /\ At(f[j - 1], j - 1) = j
           /\ \A k \in j..(DelimOf(str, j) - 1) : k <= Len(str) =>
                 f[k].p.state # "READING_LENGTH" /\ At(f[k], k) = j
           /\ DelimOf(str, j) <= Len(str) =>
                 /\ f[DelimOf(str, j) - 1].p.state = "EXPECT_DELIM"
                 /\ f[DelimOf(str, j) - 1].p.element_buffer =
                       SubSeq(str, j + 1, DelimOf(str, j) - 1)
                 /\ str[DelimOf(str, j)] \in {Comma, Semicolon}
<1> DEFINE n == Len(str)
           e == DelimOf(str, j)
<1>1. n \in Nat /\ IsStream(str) /\ \A i \in 1..n : str[i][1] = "length" => str[i][2] \in Nat
  BY SequenceLength DEF IsReading, IsStream
<1>2. Places(str) \subseteq Nat \ {0}
  BY <1>1, PlacesEquation
<1>3. j \in 1..n /\ j - 1 \in 0..n /\ j \in 0..n
  BY <1>1, <1>2
<1>4. InPlace(f[j - 1], str, j - 1) /\ InPlace(f[j], str, j)
  BY <1>3, ReadingInPlace
<1>5. At(f[j - 1], j - 1) = j /\ f[j - 1].p.state = "READING_LENGTH"
  BY <1>3, <1>4 DEF InPlace
<1>6. At(f[j], j) = j /\ f[j].p.state # "READING_LENGTH" /\ str[j][1] = "length"
  <2>1. GuardEffect(f[j], f[j - 1], str[j])
    BY <1>3 DEF IsReading
  <2>2. LengthRead(f[j], f[j - 1], str[j])
    BY <1>5, <2>1 DEF GuardEffect
  <2>3. f[j].p.state # "READING_LENGTH" /\ f[j].p.current_read = 0 /\ str[j][1] = "length"
    BY <2>2 DEF LengthRead
  <2> QED
    BY <1>3, <2>3 DEF At
<1>7. e \in Nat /\ e > j /\ e = j + str[j][2] + 1
  BY <1>1, <1>3, <1>6 DEF DelimOf
<1> HIDE DEF e
<1>8. ASSUME NEW k \in j..(e - 1), k <= n
      PROVE  f[k].p.state # "READING_LENGTH" /\ At(f[k], k) = j
  <2>1. k \in 0..n
    BY <1>3, <1>8
  <2>2. InPlace(f[k], str, k)
    BY <2>1, ReadingInPlace
  <2> DEFINE a == At(f[k], k)
  <2>3. /\ a \in 1..(k + 1) /\ (j < a => e < a) /\ (a < j => k + 1 < j)
        /\ (a <= k => f[k].p.state # "READING_LENGTH")
    BY <2>2 DEF InPlace, e
  <2> HIDE DEF a
  <2>4. a = j
    BY <1>3, <1>7, <2>3
  <2> QED
    BY <2>3, <2>4 DEF a
<1>9. ASSUME e <= n
      PROVE  /\ f[e - 1].p.state = "EXPECT_DELIM"
             /\ f[e - 1].p.element_buffer = SubSeq(str, j + 1, e - 1)
             /\ str[e] \in {Comma, Semicolon}
  <2> DEFINE c == f[e - 1]
  <2>1. e - 1 \in j..(e - 1) /\ e - 1 <= n /\ e - 1 \in 0..n /\ e \in 1..n
    BY <1>3, <1>7, <1>9
  <2>2. c.p.state # "READING_LENGTH" /\ At(c, e - 1) = j
    BY <1>8, <2>1
  <2>3. InPlace(c, str, e - 1)
    BY <2>1, ReadingInPlace
  <2>4. IsGuard(c) /\ ~Corrupted(c) /\ Framed(c.p) /\ GuardEffect(f[e], c, str[e])
    BY <2>1 DEF IsReading
  <2> HIDE DEF c
  <2>5. c.p.state \in {"READING_DATA", "EXPECT_DELIM"}
    BY <2>2, <2>4 DEF IsGuard, IsCall, IsParser, Corrupted
  <2>6. c.p.current_length = str[j][2] /\ c.p.element_buffer = SubSeq(str, j + 1, e - 1)
    BY <2>2, <2>3 DEF InPlace
  <2>7. c.p.current_read \in Nat /\ j = (e - 1) - c.p.current_read
    BY <2>2, <2>4, <2>5 DEF At, Framed
  <2>8. c.p.current_read = c.p.current_length
    <3> DEFINE l == str[j][2]
               r == c.p.current_read
    <3>1. l \in Nat /\ j \in Nat /\ c.p.current_length = l /\ e = j + l + 1
      BY <1>1, <1>3, <1>6, <1>7, <2>6
    <3>2. r \in Nat /\ j = (e - 1) - r
      BY <2>7
    <3> HIDE DEF l, r
    <3>3. r = l
      BY <3>1, <3>2
    <3> QED
      BY <3>1, <3>3 DEF r
  <2>9. c.p.state = "EXPECT_DELIM"
    BY <2>4, <2>5, <2>8 DEF Framed
  <2>10. str[e] \in {Comma, Semicolon}
    BY <2>4, <2>9 DEF GuardEffect, DelimRead
  <2> QED
    BY <2>6, <2>9, <2>10 DEF c
<1> QED
  BY <1>3, <1>5, <1>6, <1>7, <1>8, <1>9 DEF e

(* The semicolons that end an instruction are those at which the parser     *)
(* ends one, and behind them it expects an opcode.                          *)
LEMMA EndsAreFinishes ==
    ASSUME NEW f, NEW str, IsReading(f, str)
    PROVE  /\ \A e \in 1..Len(str) : e \in Ends(str) <=> Finishes(f[e - 1], str[e])
           /\ \A k \in 0..Len(str) : Begins(f[k]) <=> k \in Ends(str) \cup {0}
           /\ Ends(str) \subseteq 2..Len(str)
<1> DEFINE n == Len(str)
<1>1. /\ n \in Nat /\ IsStream(str) /\ DOMAIN str = 1..n
      /\ \A i \in 1..n : str[i][1] = "length" => str[i][2] \in Nat
  BY SequenceLength DEF IsReading, IsStream
<1>2. ASSUME NEW e \in Ends(str) PROVE e \in 2..n /\ Finishes(f[e - 1], str[e])
  <2>1. e \in 1..n /\ str[e] = Semicolon
    BY <1>1 DEF Ends
  <2>2. PICK j \in Elements(str) : DelimOf(str, j) = e
    BY DEF Ends
  <2>3. j \in Places(str) /\ j <= n
    BY <1>1 DEF Elements
  <2>4. j \in 1..n /\ e > j /\ f[e - 1].p.state = "EXPECT_DELIM"
    BY <1>1, <2>1, <2>2, <2>3, ElementAtHand
  <2> QED
    BY <2>1, <2>4 DEF Finishes
<1>3. ASSUME NEW e \in 1..n, Finishes(f[e - 1], str[e]) PROVE e \in Ends(str)
  <2> DEFINE c == f[e - 1]
             a == At(c, e - 1)
             l == str[a][2]
             r == c.p.current_read
  <2>1. c.p.state = "EXPECT_DELIM" /\ str[e] = Semicolon
    BY <1>3 DEF Finishes
  <2>2. e - 1 \in 0..n
    BY <1>1
  <2>3. InPlace(c, str, e - 1) /\ Framed(c.p)
    BY <2>2, ReadingInPlace DEF IsReading
  <2>4. /\ a \in Places(str) /\ a \in 1..e /\ a <= e - 1 /\ str[a][1] = "length"
        /\ c.p.current_length = l
    BY <2>1, <2>3 DEF InPlace
  <2>5. r \in Nat /\ r = c.p.current_length /\ a = (e - 1) - r
    BY <2>1, <2>3 DEF Framed, At
  <2>6. a \in 1..n
    BY <1>1, <2>4
  <2> HIDE DEF a, l, r
  <2>7. a + l + 1 = e
    BY <2>4, <2>5
  <2>8. DelimOf(str, a) = e
    BY <2>7 DEF DelimOf, l
  <2> QED
    BY <1>1, <2>1, <2>4, <2>6, <2>8 DEF Ends, Elements
<1>4. ASSUME NEW k \in 0..n PROVE Begins(f[k]) <=> k \in Ends(str) \cup {0}
  <2>1. CASE k = 0
    <3>1. Begins(f[0])
      BY DEF IsReading, Begins, Call, New, Base
    <3> QED
      BY <2>1, <3>1
  <2>2. CASE k # 0
    <3> DEFINE c == f[k - 1]
               d == f[k]
               s == str[k]
    <3>1. k \in 1..n /\ k - 1 \in 0..n
      BY <1>1, <2>2
    <3>2. GuardEffect(d, c, s) /\ IsGuard(c) /\ ~Corrupted(c)
      BY <3>1 DEF IsReading
    <3>3. Finishes(c, s) <=> k \in Ends(str)
      BY <1>2, <1>3, <3>1
    <3> HIDE DEF c, d, s
    <3>4. c.p.state \in {"READING_LENGTH", "READING_DATA", "EXPECT_DELIM"}
      BY <3>2 DEF IsGuard, IsCall, IsParser, Corrupted
    <3>5. Begins(d) <=> Finishes(c, s)
      <4>1. CASE c.p.state = "READING_LENGTH"
        BY <3>2, <4>1 DEF GuardEffect, LengthRead, Begins, Finishes
      <4>2. CASE c.p.state = "READING_DATA"
        BY <3>2, <4>2 DEF GuardEffect, DataRead, Begins, Finishes
      <4>3. CASE c.p.state = "EXPECT_DELIM"
        BY <3>2, <4>3 DEF GuardEffect, DelimRead, Begins, Finishes
      <4> QED
        BY <3>4, <4>1, <4>2, <4>3
    <3> QED
      BY <2>2, <3>3, <3>5 DEF d
  <2> QED
    BY <2>1, <2>2
<1> QED
  BY <1>2, <1>3, <1>4

(* Where the instruction that ends at e begins.                             *)
First(str, e) == Max({i \in Ends(str) \cup {0} : i < e}) + 1

(* The parser knows it, and no instruction ends between.                    *)
LEMMA FirstIsStart ==
    ASSUME NEW f, NEW str, IsReading(f, str), NEW e \in Ends(str)
    PROVE  LET g == f[e].opcode_start_idx IN
           /\ First(str, e) = g /\ g \in 1..(e - 1) /\ g - 1 \in Ends(str) \cup {0}
           /\ \A i \in Ends(str) : i < e => i <= g - 1
           /\ f[e - 1].opcode_start_idx = g
<1> DEFINE n == Len(str)
           g == f[e - 1].opcode_start_idx
           E == Ends(str) \cup {0}
<1>1. n \in Nat
  BY SequenceLength DEF IsReading, IsStream
<1>2. e \in 2..n /\ e - 1 \in 1..n /\ e \in 1..n /\ e - 1 \in 0..n /\ e - 1 # 0
  BY <1>1, EndsAreFinishes
<1>3. Finishes(f[e - 1], str[e])
  BY <1>2, EndsAreFinishes
<1>4. f[e].opcode_start_idx = g
  BY <1>2, <1>3 DEF IsReading, DenyEffect, Finishes, Begins
<1>5. Placed(f, e - 1) /\ f[e - 1].opcode_in_this_call
  BY <1>2 DEF IsReading
<1>6. /\ g \in 1..(e - 1) /\ Begins(f[g - 1])
      /\ \A m \in g..(e - 1) : f[m].opcode_start_idx = g
  BY <1>5 DEF Placed
<1> HIDE DEF g, E
<1>7. g - 1 \in E
  <2>1. g - 1 \in 0..n
    BY <1>1, <1>2, <1>6
  <2> QED
    BY <1>6, <2>1, EndsAreFinishes DEF E
<1>8. ASSUME NEW i \in Ends(str), i < e PROVE i <= g - 1
  <2>1. SUFFICES ASSUME i >= g PROVE FALSE
    BY <1>6, EndsAreFinishes
  <2>2. i \in 0..n /\ Begins(f[i])
    BY EndsAreFinishes
  <2>3. i # e - 1
    BY <1>3, <2>2 DEF Begins, Finishes
  <2>4. i + 1 \in g..(e - 1) /\ i + 1 \in 1..n /\ (i + 1) - 1 = i /\ i + 1 # g
    BY <1>2, <1>6, <1>8, <2>1, <2>2, <2>3
  <2>5. f[i + 1].opcode_start_idx = i + 1
    BY <2>2, <2>4 DEF IsReading, DenyEffect
  <2> QED
    BY <1>6, <2>4, <2>5
<1>9. Max({i \in E : i < e}) = g - 1
  <2> DEFINE X == {i \in E : i < e}
  <2>1. X \subseteq Nat
    BY EndsAreFinishes DEF E
  <2>2. g - 1 \in X
    BY <1>2, <1>6, <1>7
  <2>3. \A y \in X : g - 1 >= y
    <3>1. \A y \in Ends(str) : y < e => g - 1 >= y
      BY <1>6, <1>8, EndsAreFinishes
    <3> QED
      BY <1>6, <3>1 DEF E
  <2> HIDE DEF X
  <2>4. \E x \in X : \A y \in X : x >= y
    BY <2>2, <2>3
  <2>5. Max(X) \in X /\ \A y \in X : Max(X) >= y
    BY <2>4 DEF Max
  <2>6. Max(X) \in Nat /\ g - 1 \in Nat /\ Max(X) >= g - 1 /\ g - 1 >= Max(X)
    BY <2>1, <2>2, <2>3, <2>5
  <2>7. Max(X) = g - 1
    BY <2>6
  <2> QED
    BY <2>7 DEF X
<1>10. First(str, e) = g
  BY <1>2, <1>6, <1>9 DEF First, E
<1> QED
  BY <1>4, <1>6, <1>7, <1>8, <1>10 DEF g, E

(* The element at j, and the places of the next two elements after g.       *)
Element(str, j) == SubSeq(str, j + 1, DelimOf(str, j) - 1)
Second(str, g) == DelimOf(str, g) + 1
Third(str, g) == DelimOf(str, Second(str, g)) + 1

(* The open stream behind an instruction with opcode o and first argument e. *)
Tracked(old, o, e) ==
    LET sidx == parse_stream_index(e) IN
    CASE Is(o, "clipboard") -> sidx
      [] Is(o, "end") /\ sidx = old -> NoStream
      [] OTHER -> old

(* Which element of the instruction that began at g is at a.                *)
ArgumentAt(p, str, g, a) ==
    /\ p.current_opcode = Element(str, g)
    /\ Second(str, g) \in Places(str) /\ Second(str, g) <= a
    /\ p.marked <=> p.current_arg = 1 /\ Is(Element(str, g), "blob")
    /\ \/ p.current_arg = 0 /\ a = Second(str, g)
       \/ p.current_arg = 1 /\ a = Third(str, g)
       \/ /\ p.current_arg \in Nat /\ p.current_arg > 1
          /\ Third(str, g) \in Nat /\ a > Third(str, g)

(* After k symbols the guard's members tell of the instruction at hand.     *)
InInstruction(f, str, k) ==
    LET p == f[k].p
        g == f[k].opcode_start_idx
        a == At(f[k], k)
        before == f[g - 1].p.clipboard_sidx
    IN  /\ g \in 1..k /\ g \in Places(str) /\ g <= a
        /\ p.state # "READING_LENGTH" /\ p.reading_opcode => a = g
        /\ ~p.reading_opcode => ArgumentAt(p, str, g, a)
        /\ p.clipboard_sidx =
              IF a > Second(str, g)
              THEN Tracked(before, Element(str, g), Element(str, Second(str, g)))
              ELSE before

(* The first symbol of an instruction.                                      *)
LEMMA InstructionBegins ==
    ASSUME NEW f, NEW str, IsReading(f, str), NEW k \in 1..Len(str), Begins(f[k - 1])
    PROVE  InInstruction(f, str, k)
<1> DEFINE n == Len(str)
           c == f[k - 1]
           d == f[k]
<1>1. /\ n \in Nat /\ \A i \in 1..n : str[i][1] = "length" => str[i][2] \in Nat
  BY SequenceLength DEF IsReading, IsStream
<1>2. k - 1 \in 0..n /\ (k - 1) + 1 = k
  BY <1>1
<1>3. /\ GuardEffect(d, c, str[k]) /\ DenyEffect(d, c, k, str[k])
  BY DEF IsReading
<1>4. InPlace(c, str, k - 1)
  BY <1>2, ReadingInPlace
<1> HIDE DEF d
<1>5. c.p.state = "READING_LENGTH" /\ c.p.reading_opcode /\ d.opcode_start_idx = k
  BY <1>3 DEF Begins, DenyEffect
<1>6. k \in Places(str)
  BY <1>2, <1>4, <1>5 DEF InPlace, At
<1>7. LengthRead(d, c, str[k])
  BY <1>3, <1>5 DEF GuardEffect
<1>8. /\ str[k][1] = "length" /\ d.p.state # "READING_LENGTH" /\ d.p.current_read = 0
      /\ d.p.reading_opcode /\ d.p.clipboard_sidx = c.p.clipboard_sidx
  BY <1>5, <1>7 DEF LengthRead, SamePolicy
<1>9. At(d, k) = k
  BY <1>8 DEF At
<1>10. ~(k > Second(str, k))
  BY <1>1, <1>8 DEF Second, DelimOf
<1> QED
  BY <1>5, <1>6, <1>8, <1>9, <1>10 DEF InInstruction, d

(* A symbol that is not the last of an element.                             *)
LEMMA InstructionContinues ==
    ASSUME NEW f, NEW str, IsReading(f, str), NEW k \in 1..Len(str), ~Begins(f[k - 1]),
           f[k - 1].p.state \in {"READING_LENGTH", "READING_DATA"},
           InInstruction(f, str, k - 1)
    PROVE  InInstruction(f, str, k)
<1> DEFINE n == Len(str)
           c == f[k - 1]
           d == f[k]
           g == c.opcode_start_idx
<1>1. n \in Nat
  BY SequenceLength DEF IsReading, IsStream
<1>2. k - 1 \in 0..n
  BY <1>1
<1>3. /\ GuardEffect(d, c, str[k]) /\ DenyEffect(d, c, k, str[k]) /\ Framed(c.p)
  BY <1>2 DEF IsReading
<1> HIDE DEF c, d
<1>4. d.opcode_start_idx = g
  BY <1>3 DEF DenyEffect, c
<1>5. /\ SamePolicy(d.p, c.p) /\ d.p.reading_opcode = c.p.reading_opcode
      /\ At(d, k) = At(c, k - 1) /\ d.p.state # "READING_LENGTH"
      /\ c.p.state # "READING_LENGTH" \/ ~c.p.reading_opcode
  <2>1. CASE c.p.state = "READING_LENGTH"
    <3>1. LengthRead(d, c, str[k])
      BY <1>3, <2>1 DEF GuardEffect
    <3>2. d.p.current_read = 0 /\ d.p.state # "READING_LENGTH"
      BY <3>1 DEF LengthRead
    <3>3. At(d, k) = k /\ At(c, k - 1) = k
      BY <2>1, <3>2 DEF At
    <3> QED
      BY <2>1, <3>1, <3>2, <3>3 DEF LengthRead, Begins, c
  <2>2. CASE c.p.state = "READING_DATA"
    <3>1. DataRead(d, c, str[k]) /\ c.p.current_read \in Nat
      BY <1>3, <2>2 DEF GuardEffect, Framed
    <3>2. d.p.current_read = c.p.current_read + 1 /\ d.p.state # "READING_LENGTH"
      BY <3>1 DEF DataRead
    <3>3. At(d, k) = At(c, k - 1)
      BY <2>2, <3>1, <3>2 DEF At
    <3> QED
      BY <2>2, <3>1, <3>2, <3>3 DEF DataRead
  <2> QED
    BY <2>1, <2>2 DEF c
<1> DEFINE a == At(c, k - 1)
<1>6. /\ g \in 1..(k - 1) /\ g \in Places(str) /\ g <= a
      /\ c.p.state # "READING_LENGTH" /\ c.p.reading_opcode => a = g
      /\ ~c.p.reading_opcode => ArgumentAt(c.p, str, g, a)
      /\ c.p.clipboard_sidx =
              IF a > Second(str, g)
              THEN Tracked(f[g - 1].p.clipboard_sidx, Element(str, g), Element(str, Second(str, g)))
              ELSE f[g - 1].p.clipboard_sidx
  BY DEF InInstruction, c
<1> HIDE DEF a, g
<1>7. ~d.p.reading_opcode => ArgumentAt(d.p, str, g, a)
  BY <1>5, <1>6 DEF ArgumentAt, SamePolicy
<1>8. g \in 1..k
  BY <1>6
<1>9. d.p.clipboard_sidx = c.p.clipboard_sidx
  BY <1>5 DEF SamePolicy
<1>10. d.p.reading_opcode => a = g
  BY <1>5, <1>6
<1>11. f[k].opcode_start_idx = g /\ At(f[k], k) = a /\ f[k].p = d.p
  BY <1>4, <1>5 DEF d, a
<1> QED
  BY <1>6, <1>7, <1>8, <1>9, <1>10, <1>11 DEF InInstruction

(* The guard's members at the end of an argument that it allows.            *)
LEMMA ArgumentDone ==
    ASSUME NEW p, NEW q, NEW str, NEW g, NEW a \in Nat, NEW b \in Nat, IsParser(p),
           ArgumentEffect(q, p, Element(str, a)), ArgumentAt(p, str, g, a),
           p.element_buffer = Element(str, a), ~p.reading_opcode, GuardAllows(p),
           b = DelimOf(str, a) + 1, a < b, Second(str, g) \in Nat,
           Third(str, g) \in Nat, Second(str, g) < Third(str, g)
    PROVE  /\ ArgumentAt(q, str, g, b)
           /\ q.clipboard_sidx = IF a = Second(str, g)
                                 THEN Tracked(p.clipboard_sidx, Element(str, g), Element(str, a))
                                 ELSE p.clipboard_sidx
           /\ b > Second(str, g)
<1> DEFINE o == Element(str, g)
           e == Element(str, a)
           sidx == parse_stream_index(e)
           blob == Is(o, "blob")
           first == p.current_arg + 1 = 1 /\ ~p.marked
<1>1. /\ p.current_opcode = o /\ Second(str, g) \in Places(str) /\ Second(str, g) <= a
      /\ p.marked <=> p.current_arg = 1 /\ blob
      /\ \/ p.current_arg = 0 /\ a = Second(str, g)
         \/ p.current_arg = 1 /\ a = Third(str, g)
         \/ /\ p.current_arg \in Nat /\ p.current_arg > 1
            /\ Third(str, g) \in Nat /\ a > Third(str, g)
  BY DEF ArgumentAt
<1>2. /\ q.current_opcode = o /\ q.current_arg = p.current_arg + 1
      /\ q.marked <=> (first /\ blob /\ OnOpenStream(p, sidx))
      /\ q.clipboard_sidx = IF first /\ ~blob THEN TrackStream(p, sidx).clipboard_sidx
                                              ELSE p.clipboard_sidx
  BY <1>1 DEF ArgumentEffect
<1>3. first /\ blob => OnOpenStream(p, sidx)
  BY <1>1 DEF GuardAllows
<1>4. TrackStream(p, sidx).clipboard_sidx = Tracked(p.clipboard_sidx, o, e)
  BY <1>1 DEF TrackStream, Tracked, IsParser
<1>5. blob => Tracked(p.clipboard_sidx, o, e) = p.clipboard_sidx
  BY DEF Tracked, Is, Byte
<1>6. a \in Nat /\ b \in Nat /\ Second(str, g) \in Nat /\ b > Second(str, g)
  BY <1>1
<1> HIDE DEF o, e, sidx, blob
<1>7. CASE p.current_arg = 0 /\ a = Second(str, g)
  <2>1. first /\ q.current_arg = 1 /\ b = Third(str, g)
    BY <1>1, <1>2, <1>7 DEF Third
  <2>2. q.marked <=> blob
    BY <1>2, <1>3, <2>1
  <2>3. ArgumentAt(q, str, g, b)
    BY <1>1, <1>2, <1>6, <2>1, <2>2 DEF ArgumentAt, o, blob
  <2>4. q.clipboard_sidx = Tracked(p.clipboard_sidx, o, e)
    BY <1>2, <1>4, <1>5, <2>1
  <2> QED
    BY <1>6, <1>7, <2>3, <2>4 DEF o, e
<1>8. CASE p.current_arg # 0
  <2>1. ~first /\ q.current_arg \in Nat /\ q.current_arg > 1 /\ q.current_arg # 1
    BY <1>1, <1>2, <1>8
  <2>2. Third(str, g) \in Nat /\ b > Third(str, g)
    BY <1>1, <1>6, <1>8
  <2>3. ~q.marked
    BY <1>2, <2>1
  <2>4. ArgumentAt(q, str, g, b)
    BY <1>1, <1>2, <1>6, <2>1, <2>2, <2>3 DEF ArgumentAt, o
  <2>5. a # Second(str, g)
    BY <1>1, <1>6, <1>8
  <2>6. q.clipboard_sidx = p.clipboard_sidx
    BY <1>2, <2>1
  <2> QED
    BY <1>6, <2>4, <2>5, <2>6
<1> QED
  BY <1>1, <1>7, <1>8

(* The last symbol of an element.                                           *)
LEMMA InstructionDelim ==
    ASSUME NEW f, NEW str, IsReading(f, str), NEW k \in 1..Len(str),
           f[k - 1].p.state = "EXPECT_DELIM", InInstruction(f, str, k - 1)
    PROVE  InInstruction(f, str, k)
<1> DEFINE n == Len(str)
           c == f[k - 1]
           d == f[k]
           g == c.opcode_start_idx
           a == At(c, k - 1)
           before == f[g - 1].p.clipboard_sidx
<1>1. n \in Nat
  BY SequenceLength DEF IsReading, IsStream
<1>2. k - 1 \in 0..n
  BY <1>1
<1>3. /\ GuardEffect(d, c, str[k]) /\ DenyEffect(d, c, k, str[k])
      /\ IsGuard(c) /\ ~c.denying /\ ~Refusal(c, str[k])
  BY <1>2 DEF IsReading
<1>4. InPlace(c, str, k - 1)
  BY <1>2, ReadingInPlace
<1>5. /\ g \in 1..(k - 1) /\ g \in Places(str) /\ g <= a
      /\ c.p.reading_opcode => a = g
      /\ ~c.p.reading_opcode => ArgumentAt(c.p, str, g, a)
      /\ c.p.clipboard_sidx =
              IF a > Second(str, g)
              THEN Tracked(before, Element(str, g), Element(str, Second(str, g)))
              ELSE before
  BY DEF InInstruction
<1> HIDE DEF d, n
<1>6. /\ DelimRead(d, c, str[k]) /\ HookEffect(d.p, c.p) /\ d.opcode_start_idx = g
      /\ d.p.state = "READING_LENGTH" /\ At(d, k) = k + 1
  BY <1>3 DEF GuardEffect, DenyEffect, DelimRead, Begins, At
<1>7. GuardAllows(c.p)
  <2>1. ~Refuses(c)
    BY <1>3, <1>6 DEF Refusal, DelimRead
  <2> QED
    BY <1>3, <2>1, GuardHook DEF Refuses
<1>8. /\ a \in Places(str) /\ a \in 1..k /\ a <= k - 1 /\ DelimOf(str, a) + 1 \in Places(str)
      /\ c.p.element_buffer = SubSeq(str, a + 1, k - 1)
  BY <1>4 DEF InPlace
<1>9. k = DelimOf(str, a)
  <2>1. a <= Len(str)
    BY <1>1, <1>8 DEF n
  <2>2. DelimOf(str, a) \in Nat /\ \A i \in a..(DelimOf(str, a) - 1) : i <= n =>
          f[i].p.state # "READING_LENGTH"
    BY <1>8, <2>1, ElementAtHand DEF n
  <2>3. k - 1 <= DelimOf(str, a) - 1
    BY <1>4 DEF InPlace
  <2>4. k \notin a..(DelimOf(str, a) - 1)
    BY <1>1, <1>6, <2>2 DEF d, n
  <2> QED
    BY <1>8, <2>2, <2>3, <2>4
<1>10. c.p.element_buffer = Element(str, a)
  BY <1>8, <1>9 DEF Element
<1>11. g \in 1..k /\ g <= k + 1
  BY <1>5
<1>12. Second(str, g) \in Nat /\ g < Second(str, g)
  <2>1. g <= Len(str)
    BY <1>1, <1>5 DEF n
  <2>2. DelimOf(str, g) \in Nat /\ DelimOf(str, g) > g /\ g \in 1..Len(str)
    BY <1>5, <2>1, ElementAtHand
  <2> QED
    BY <2>2 DEF Second
<1> HIDE DEF a, g, before, c
<1>13. ASSUME /\ ~d.p.reading_opcode => ArgumentAt(d.p, str, g, k + 1)
              /\ d.p.clipboard_sidx =
                    IF k + 1 > Second(str, g)
                    THEN Tracked(before, Element(str, g), Element(str, Second(str, g)))
                    ELSE before
       PROVE  InInstruction(f, str, k)
  <2>1. f[k].opcode_start_idx = g /\ At(f[k], k) = k + 1 /\ f[k].p = d.p
    BY <1>6 DEF d
  <2> QED
    BY <1>5, <1>6, <1>11, <1>13, <2>1 DEF InInstruction, before
<1>14. CASE c.p.reading_opcode
  <2>1. /\ d.p.current_opcode = Element(str, g) /\ d.p.current_arg = 0 /\ d.p.marked = FALSE
        /\ d.p.clipboard_sidx = c.p.clipboard_sidx /\ a = g
    BY <1>5, <1>6, <1>10, <1>14 DEF HookEffect, BeginEffect
  <2>2. k + 1 = Second(str, g)
    BY <1>9, <2>1 DEF Second
  <2>3. ArgumentAt(d.p, str, g, k + 1)
    BY <1>8, <1>9, <1>12, <2>1, <2>2 DEF ArgumentAt
  <2>4. d.p.clipboard_sidx = before
    BY <1>5, <1>12, <2>1
  <2> QED
    BY <1>12, <1>13, <2>2, <2>3, <2>4
<1>15. CASE ~c.p.reading_opcode
  <2>1. ArgumentEffect(d.p, c.p, Element(str, a)) /\ ArgumentAt(c.p, str, g, a)
    BY <1>5, <1>6, <1>10, <1>15 DEF HookEffect
  <2>2. IsParser(c.p)
    BY <1>3 DEF IsGuard, IsCall
  <2>3. Second(str, g) \in Places(str) /\ Second(str, g) <= a
    BY <2>1 DEF ArgumentAt
  <2>4. Third(str, g) \in Nat /\ Second(str, g) < Third(str, g)
    <3>1. Second(str, g) <= Len(str)
      BY <1>1, <1>8, <1>12, <2>3 DEF n
    <3>2. DelimOf(str, Second(str, g)) \in Nat /\ DelimOf(str, Second(str, g)) > Second(str, g)
      BY <2>3, <3>1, ElementAtHand
    <3> QED
      BY <1>12, <3>2 DEF Third
  <2>5. a \in Nat /\ k + 1 \in Nat /\ k + 1 = DelimOf(str, a) + 1 /\ a < k + 1
    BY <1>8, <1>9
  <2>6. /\ ArgumentAt(d.p, str, g, k + 1)
        /\ d.p.clipboard_sidx = IF a = Second(str, g)
                                THEN Tracked(c.p.clipboard_sidx, Element(str, g), Element(str, a))
                                ELSE c.p.clipboard_sidx
        /\ k + 1 > Second(str, g)
    BY <1>7, <1>10, <1>12, <1>15, <2>1, <2>2, <2>4, <2>5, ArgumentDone
  <2>7. d.p.clipboard_sidx = Tracked(before, Element(str, g), Element(str, Second(str, g)))
    <3>1. CASE a = Second(str, g)
      BY <1>5, <1>12, <2>6, <3>1
    <3>2. CASE a # Second(str, g)
      BY <1>5, <1>12, <2>3, <2>5, <2>6, <3>2
    <3> QED
      BY <3>1, <3>2
  <2> QED
    BY <1>13, <2>6, <2>7
<1> QED
  BY <1>14, <1>15

(* So it is all along.                                                      *)
LEMMA ReadingInInstruction ==
    ASSUME NEW f, NEW str, IsReading(f, str), NEW k \in 1..Len(str)
    PROVE  InInstruction(f, str, k)
<1> DEFINE n == Len(str)
           T == {j \in Nat : j \in 1..n => InInstruction(f, str, j)}
<1>1. n \in Nat
  BY SequenceLength DEF IsReading, IsStream
<1>2. 0 \in T
  OBVIOUS
<1>3. ASSUME NEW j \in 1..n, j - 1 \in T PROVE j \in T
  <2>1. CASE Begins(f[j - 1])
    BY <2>1, InstructionBegins
  <2>2. CASE ~Begins(f[j - 1])
    <3>1. j - 1 \in 0..n
      BY <1>1
    <3>2. j # 1
      BY <2>2, <3>1, EndsAreFinishes
    <3>3. InInstruction(f, str, j - 1)
      BY <1>3, <3>1, <3>2
    <3>4. IsGuard(f[j - 1]) /\ ~Corrupted(f[j - 1])
      BY <3>1 DEF IsReading
    <3>5. f[j - 1].p.state \in {"READING_LENGTH", "READING_DATA", "EXPECT_DELIM"}
      BY <3>4 DEF IsGuard, IsCall, IsParser, Corrupted
    <3>6. InInstruction(f, str, j)
      BY <2>2, <3>3, <3>5, InstructionContinues, InstructionDelim
    <3> QED
      BY <3>6
  <2> QED
    BY <2>1, <2>2
<1>4. 0..n \subseteq T
  <2>1. T \in SUBSET Nat
    OBVIOUS
  <2> HIDE DEF T, n
  <2> QED
    BY <1>1, <1>2, <1>3, <2>1, CountingUp
<1> QED
  BY <1>1, <1>4

(* An element of the instruction that ends at e: the parser has read it     *)
(* whole, knows where it belongs, and allowed it.                           *)
LEMMA ElementOfInstruction ==
    ASSUME NEW f, NEW str, IsReading(f, str), NEW e \in Ends(str),
           NEW x \in Places(str), First(str, e) <= x, x <= e
    PROVE  LET c == f[DelimOf(str, x) - 1] IN
           /\ x \in 1..e /\ DelimOf(str, x) \in (x + 1)..e
           /\ DelimOf(str, x) + 1 \in Places(str)
           /\ InInstruction(f, str, DelimOf(str, x) - 1)
           /\ c.p.state = "EXPECT_DELIM" /\ At(c, DelimOf(str, x) - 1) = x
           /\ c.opcode_start_idx = First(str, e)
           /\ c.p.element_buffer = Element(str, x) /\ GuardAllows(c.p)
<1> DEFINE n == Len(str)
           g == First(str, e)
           y == DelimOf(str, x)
           c == f[y - 1]
<1>1. n \in Nat /\ e \in 2..n /\ e \in 0..n
  BY SequenceLength, EndsAreFinishes DEF IsReading, IsStream
<1>2. /\ g \in 1..(e - 1) /\ g = f[e - 1].opcode_start_idx
  BY FirstIsStart
<1>3. \A m \in g..(e - 1) : f[m].opcode_start_idx = g
  <2>1. e - 1 \in 0..n /\ e - 1 # 0
    BY <1>1
  <2>2. Placed(f, e - 1) /\ f[e - 1].opcode_in_this_call
    BY <2>1 DEF IsReading
  <2> QED
    BY <1>2, <2>2 DEF Placed
<1>4. /\ x \in 1..n /\ y \in Nat /\ y > x
  <2>1. x \in Nat
    BY <1>1, PlacesEquation DEF IsReading
  <2>2. x <= Len(str)
    BY <1>1, <2>1
  <2> QED
    BY <2>2, ElementAtHand
<1> HIDE DEF g
<1>5. y <= e
  <2>1. InPlace(f[e], str, e) /\ Begins(f[e])
    BY <1>1, ReadingInPlace, EndsAreFinishes
  <2>2. At(f[e], e) = e + 1
    BY <2>1 DEF At, Begins
  <2>3. x < e + 1
    BY <1>1, <1>4
  <2>4. y < e + 1
    BY <2>1, <2>2, <2>3 DEF InPlace
  <2> QED
    BY <1>1, <1>4, <2>4
<1>6. y \in 1..n /\ y - 1 \in 1..n /\ y - 1 \in 0..n /\ y <= Len(str) /\ y - 1 \in x..(y - 1) /\ x <= Len(str)
      /\ y - 1 <= Len(str) /\ y - 1 \in g..(e - 1)
  BY <1>1, <1>2, <1>4, <1>5 DEF g
<1> HIDE DEF y
<1>7. /\ c.p.state = "EXPECT_DELIM" /\ At(c, y - 1) = x
      /\ c.p.element_buffer = SubSeq(str, x + 1, y - 1) /\ str[y] \in {Comma, Semicolon}
  BY <1>6, ElementAtHand DEF y
<1>8. c.p.element_buffer = Element(str, x)
  BY <1>7 DEF Element, y
<1>9. GuardAllows(c.p)
  <2>1. IsGuard(c) /\ ~c.denying /\ ~Refusal(c, str[y])
    BY <1>6 DEF IsReading
  <2>2. ~Refuses(c)
    BY <1>7, <2>1 DEF Refusal
  <2> QED
    BY <2>1, <2>2, GuardHook DEF Refuses
<1>10. InInstruction(f, str, y - 1)
  BY <1>6, ReadingInInstruction
<1>11. y + 1 \in Places(str)
  <2>1. InPlace(c, str, y - 1)
    BY <1>6, ReadingInPlace
  <2> QED
    BY <1>7, <2>1 DEF InPlace, y
<1>12. x \in 1..e /\ y \in (x + 1)..e
  BY <1>1, <1>4, <1>5
<1> QED
  BY <1>3, <1>6, <1>7, <1>8, <1>9, <1>10, <1>11, <1>12 DEF y, g

(* What is known of an instruction that the guard has let through.          *)
Permits(f, str, e) ==
    LET g == First(str, e)
        o == Element(str, g)
        before == f[g - 1].p.clipboard_sidx
        sidx == parse_stream_index(Element(str, Second(str, g)))
    IN  /\ IsAllowedOpcode(o)
        /\ Second(str, g) \in Nat
        /\ Second(str, g) <= e => Third(str, g) \in Nat
        /\ Is(o, "blob") /\ Second(str, g) <= e => sidx # NoStream /\ sidx = before
        /\ Is(o, "blob") /\ Second(str, g) <= e /\ Third(str, g) <= e =>
              /\ Len(Element(str, Third(str, g))) \in Nat
              /\ Len(Element(str, Third(str, g))) <= MAX_BYTES
        /\ f[e].p.clipboard_sidx =
              IF Second(str, g) <= e
              THEN Tracked(before, o, Element(str, Second(str, g))) ELSE before

(* It has seen to all of it.                                                *)
LEMMA ReadingPermits ==
    ASSUME NEW f, NEW str, IsReading(f, str), NEW e \in Ends(str)
    PROVE  Permits(f, str, e)
<1> DEFINE n == Len(str)
           g == First(str, e)
           o == Element(str, g)
           second == Second(str, g)
           third == Third(str, g)
           before == f[g - 1].p.clipboard_sidx
<1>1. n \in Nat /\ e \in 2..n /\ e \in 1..n
  <2>1. n \in Nat
    BY SequenceLength DEF IsReading, IsStream
  <2>2. Ends(str) \subseteq 2..n
    BY EndsAreFinishes
  <2> HIDE DEF n
  <2> QED
    BY <2>1, <2>2
<1>2. /\ g \in 1..(e - 1) /\ g = f[e].opcode_start_idx
  BY FirstIsStart
<1>3. g \in Places(str) /\ InInstruction(f, str, e)
  BY <1>1, <1>2, ReadingInInstruction DEF InInstruction
<1>4. g <= g /\ g <= e
  BY <1>1, <1>2
<1> HIDE DEF g
<1> DEFINE y == DelimOf(str, g)
           c == f[y - 1]
<1>5. /\ y \in (g + 1)..e /\ second \in Places(str) /\ second = y + 1
      /\ InInstruction(f, str, y - 1)
      /\ c.p.state = "EXPECT_DELIM" /\ At(c, y - 1) = g /\ c.opcode_start_idx = g
      /\ c.p.element_buffer = o /\ GuardAllows(c.p)
  BY <1>3, <1>4, ElementOfInstruction DEF g, Second
<1>6. second \in Nat /\ second > g
  BY <1>1, <1>2, <1>5
<1> HIDE DEF y, second
<1>7. IsAllowedOpcode(o)
  <2>1. c.p.reading_opcode
    <3>1. ~c.p.reading_opcode => second <= g
      BY <1>5 DEF InInstruction, ArgumentAt, second
    <3> QED
      BY <1>2, <1>6, <3>1
  <2> QED
    BY <1>5, <2>1 DEF GuardAllows
<1>8. f[e].p.clipboard_sidx = IF second <= e THEN Tracked(before, o, Element(str, second)) ELSE before
  <2>1. At(f[e], e) = e + 1
    BY <1>1, EndsAreFinishes DEF Begins, At
  <2>2. e + 1 > second <=> second <= e
    BY <1>1, <1>6
  <2> QED
    BY <1>2, <1>3, <2>1, <2>2 DEF InInstruction, second
<1>9. ASSUME second <= e
      PROVE  /\ third \in Nat /\ third > second
             /\ Is(o, "blob") => LET sidx == parse_stream_index(Element(str, second))
                                 IN  sidx # NoStream /\ sidx = before
             /\ third \in Places(str)
  <2> DEFINE z == DelimOf(str, second)
             b == f[z - 1]
  <2>1. g <= second
    BY <1>2, <1>6
  <2>2. /\ z \in (second + 1)..e /\ third \in Places(str) /\ third = z + 1
        /\ InInstruction(f, str, z - 1)
        /\ b.p.state = "EXPECT_DELIM" /\ At(b, z - 1) = second /\ b.opcode_start_idx = g
        /\ b.p.element_buffer = Element(str, second) /\ GuardAllows(b.p)
    BY <1>5, <1>9, <2>1, ElementOfInstruction DEF g, Third, second
  <2>3. third \in Nat /\ third > second
    BY <1>1, <1>6, <2>2
  <2> HIDE DEF z, third
  <2>4. ~b.p.reading_opcode
    <3>1. b.p.reading_opcode => second = g
      BY <2>2 DEF InInstruction
    <3> QED
      BY <1>2, <1>6, <3>1
  <2>5. ArgumentAt(b.p, str, g, second) /\ ~(second > second)
    BY <1>6, <2>2, <2>4 DEF InInstruction
  <2>6. b.p.clipboard_sidx = before
    BY <2>2, <2>5 DEF InInstruction, second
  <2>7. b.p.current_arg = 0 /\ ~b.p.marked /\ b.p.current_opcode = o
    BY <1>6, <2>3, <2>5 DEF ArgumentAt, second, third
  <2>8. Is(o, "blob") => OnOpenStream(b.p, parse_stream_index(Element(str, second)))
    BY <2>2, <2>4, <2>7 DEF GuardAllows
  <2> QED
    BY <2>2, <2>3, <2>6, <2>8 DEF OnOpenStream
<1>10. ASSUME second <= e, third <= e, Is(o, "blob")
       PROVE  Len(Element(str, third)) \in Nat /\ Len(Element(str, third)) <= MAX_BYTES
  <2> DEFINE z == DelimOf(str, third)
             b == f[z - 1]
  <2>1. third \in Nat /\ third > second /\ g <= third /\ third \in Places(str)
    BY <1>2, <1>6, <1>9, <1>10
  <2>2. /\ InInstruction(f, str, z - 1)
        /\ b.p.state = "EXPECT_DELIM" /\ At(b, z - 1) = third /\ b.opcode_start_idx = g
        /\ b.p.element_buffer = Element(str, third) /\ GuardAllows(b.p)
    BY <1>10, <2>1, ElementOfInstruction DEF g
  <2> HIDE DEF z, third
  <2>3. ~b.p.reading_opcode
    <3>1. b.p.reading_opcode => third = g
      BY <2>2 DEF InInstruction
    <3> QED
      BY <1>2, <1>6, <2>1, <3>1
  <2>4. ArgumentAt(b.p, str, g, third)
    BY <2>2, <2>3 DEF InInstruction
  <2>5. b.p.current_arg = 1
    BY <1>6, <2>1, <2>4 DEF ArgumentAt, second, third
  <2>6. b.p.marked
    BY <1>10, <2>4, <2>5 DEF ArgumentAt
  <2>7. Len(b.p.element_buffer) \in Nat
    <3>1. z \in (third + 1)..e
      BY <1>10, <2>1, ElementOfInstruction DEF g, z
    <3>2. z - 1 \in 0..n
      BY <1>1, <2>1, <3>1
    <3>3. Framed(b.p) /\ IsParser(b.p)
      BY <3>2 DEF IsReading, IsGuard, IsCall
    <3> QED
      BY <3>3 DEF Framed, IsParser
  <2> QED
    BY <2>2, <2>3, <2>6, <2>7 DEF GuardAllows
<1> QED
  BY <1>6, <1>7, <1>8, <1>9, <1>10 DEF Permits, g, second

(* The reference, instruction by instruction.                               *)
LEMMA DecodeIs ==
    ASSUME NEW f, NEW str, IsReading(f, str), NEW e \in Ends(str)
    PROVE  LET ins == Decode(str)[e]
               g == First(str, e)
           IN  /\ DOMAIN Decode(str) = Ends(str)
               /\ ins.elem[1] = Element(str, g)
               /\ Len(ins.elem) > 1 <=> Second(str, g) <= e
               /\ Len(ins.elem) = 1 <=> ~(Second(str, g) <= e)
               /\ StreamOf(ins) = IF Second(str, g) <= e THEN Element(str, Second(str, g)) ELSE <<>>
               /\ Len(ins.elem) > 2 =>
                     /\ Second(str, g) <= e /\ Third(str, g) <= e
                     /\ ins.elem[3] = Element(str, Third(str, g))
<1> DEFINE g == First(str, e)
           elem == Heading(str, g, e)
           second == Second(str, g)
           third == Third(str, g)
<1>1. /\ DOMAIN Decode(str) = Ends(str)
      /\ Decode(str)[e].elem = elem
  BY DEF Decode, First
<1>2. e \in Nat /\ second \in Nat /\ (second <= e => third \in Nat)
  BY ReadingPermits, EndsAreFinishes DEF Permits
<1>3. elem = IF e < second THEN <<Element(str, g)>>
             ELSE IF e < third THEN <<Element(str, g), Element(str, second)>>
             ELSE <<Element(str, g), Element(str, second), Element(str, third)>>
  BY <1>2 DEF Heading, Element, Second, Third
<1> DEFINE u == Element(str, g)
           v == Element(str, second)
           w == Element(str, third)
<1>4. /\ Len(<<u>>) = 1 /\ Len(<<u, v>>) = 2 /\ Len(<<u, v, w>>) = 3
      /\ <<u>>[1] = u /\ <<u, v>>[1] = u /\ <<u, v, w>>[1] = u
      /\ <<u, v>>[2] = v /\ <<u, v, w>>[2] = v /\ <<u, v, w>>[3] = w
  OBVIOUS
<1> HIDE DEF elem, g, second, third, u, v, w
<1>5. elem = IF e < second THEN <<u>> ELSE IF e < third THEN <<u, v>> ELSE <<u, v, w>>
  BY <1>3 DEF u, v, w
<1>6. /\ elem[1] = u
      /\ Len(elem) > 1 <=> second <= e
      /\ Len(elem) = 1 <=> ~(second <= e)
      /\ second <= e => elem[2] = v
      /\ Len(elem) > 2 => second <= e /\ third <= e /\ elem[3] = w
  <2>1. CASE e < second
    BY <1>2, <1>4, <1>5, <2>1
  <2>2. CASE ~(e < second) /\ e < third
    BY <1>2, <1>4, <1>5, <2>2
  <2>3. CASE ~(e < second) /\ ~(e < third)
    BY <1>2, <1>4, <1>5, <2>3
  <2> QED
    BY <2>1, <2>2, <2>3
<1>7. StreamOf(Decode(str)[e]) = IF second <= e THEN v ELSE <<>>
  BY <1>1, <1>6 DEF StreamOf
<1> QED
  BY <1>1, <1>6, <1>7 DEF u, v, w, g, second, third

(* Clipboard stream v is open behind the instruction that ends at b.        *)
Opened(str, b, v) ==
    LET prog == Decode(str) IN
    \E c \in Ends(str) :
        /\ c <= b /\ OpcodeIs(prog[c], "clipboard") /\ StreamOf(prog[c]) = <<Byte(v)>>
        /\ \A i \in Ends(str) : c < i /\ i <= b =>
              /\ OpcodeIs(prog[i], "clipboard") => Len(prog[i].elem) = 1
              /\ OpcodeIs(prog[i], "end") => StreamOf(prog[i]) # <<Byte(v)>>

(* Stream indices of one byte.                                              *)
LEMMA StreamIndex ==
    ASSUME NEW e, NEW v \in {"0", "1"}
    PROVE  parse_stream_index(e) = v <=> e = <<Byte(v)>>
<1>1. \A w : <<Byte(w)>>[1][2] = w
  BY DEF Byte
<1>2. CASE \E w \in {"0", "1"} : e = <<Byte(w)>>
  <2>1. PICK w \in {"0", "1"} : e = <<Byte(w)>>
    BY <1>2
  <2>2. parse_stream_index(e) = w
    BY <1>1, <2>1 DEF parse_stream_index, Is
  <2>3. <<Byte(w)>> = <<Byte(v)>> => w = v
    BY <1>1
  <2> QED
    BY <2>1, <2>2, <2>3
<1>3. CASE ~ \E w \in {"0", "1"} : e = <<Byte(w)>>
  <2>1. parse_stream_index(e) = NoStream
    BY <1>3 DEF parse_stream_index, Is
  <2> QED
    BY <1>3, <2>1 DEF NoStream
<1> QED
  BY <1>2, <1>3

(* The stream that is open behind an instruction.                           *)
LEMMA TrackedIs ==
    ASSUME NEW old, NEW o, NEW e
    PROVE  /\ Is(o, "clipboard") => Tracked(old, o, e) = parse_stream_index(e)
           /\ ~Is(o, "clipboard") /\ Is(o, "end") /\ parse_stream_index(e) = old =>
                 Tracked(old, o, e) = NoStream
           /\ ~Is(o, "clipboard") /\ ~(Is(o, "end") /\ parse_stream_index(e) = old) =>
                 Tracked(old, o, e) = old
<1>1. Byte("clipboard")[2] = "clipboard" /\ Byte("end")[2] = "end"
  BY DEF Byte
<1>2. <<Byte("clipboard")>>[1] = Byte("clipboard") /\ <<Byte("end")>>[1] = Byte("end")
  OBVIOUS
<1>3. ~(Is(o, "clipboard") /\ Is(o, "end"))
  BY <1>1, <1>2 DEF Is
<1> QED
  BY <1>3, Zenon DEF Tracked

(* The stream that the guard takes for open is.                             *)
LEMMA ReadingOpened ==
    ASSUME NEW f, NEW str, IsReading(f, str), NEW b \in Ends(str) \cup {0},
           NEW v \in {"0", "1"}, f[b].p.clipboard_sidx = v
    PROVE  Opened(str, b, v)
<1> DEFINE n == Len(str)
           E == Ends(str) \cup {0}
           prog == Decode(str)
           T == {j \in Nat : \A i \in E : i <= j /\ f[i].p.clipboard_sidx = v => Opened(str, i, v)}
<1>1. n \in Nat /\ E \subseteq 0..n
  BY SequenceLength, EndsAreFinishes DEF IsReading, IsStream
<1>2. 0 \in T
  <2>1. \A i \in E : i <= 0 => i = 0
    BY <1>1
  <2>2. f[0].p.clipboard_sidx = NoStream
    BY DEF IsReading, Call, New
  <2> HIDE DEF E
  <2> QED
    BY <2>1, <2>2 DEF NoStream
<1>3. ASSUME NEW j \in 1..n, j - 1 \in T PROVE j \in T
  <2> SUFFICES ASSUME j \in E, f[j].p.clipboard_sidx = v PROVE Opened(str, j, v)
    <3>1. \A i \in E : i <= j => i = j \/ i <= j - 1
      BY <1>1
    <3> HIDE DEF E
    <3> QED
      BY <1>3, <3>1
  <2>1. j \in Ends(str)
    OBVIOUS
  <2> DEFINE g == First(str, j)
             o == Element(str, g)
             before == f[g - 1].p.clipboard_sidx
             arg == Element(str, Second(str, g))
             ins == prog[j]
  <2>2. /\ g \in 1..(j - 1) /\ g - 1 \in E /\ \A i \in Ends(str) : i < j => i <= g - 1
    BY <2>1, FirstIsStart
  <2>3. f[j].p.clipboard_sidx = IF Second(str, g) <= j THEN Tracked(before, o, arg) ELSE before
    BY <2>1, ReadingPermits DEF Permits
  <2>4. /\ ins.elem[1] = o
        /\ Len(ins.elem) = 1 <=> ~(Second(str, g) <= j)
        /\ StreamOf(ins) = IF Second(str, g) <= j THEN arg ELSE <<>>
    BY <2>1, DecodeIs
  <2> HIDE DEF g, o, arg, ins, prog, E
  <2>5. before = v => Opened(str, g - 1, v)
    <3>1. g - 1 <= j - 1
      BY <2>2
    <3> QED
      BY <1>3, <2>2, <3>1
  <2>6. ASSUME before = v, Is(o, "clipboard") => Len(ins.elem) = 1,
               Is(o, "end") => StreamOf(ins) # <<Byte(v)>>
        PROVE  Opened(str, j, v)
    <3>1. PICK c \in Ends(str) :
            /\ c <= g - 1 /\ OpcodeIs(prog[c], "clipboard") /\ StreamOf(prog[c]) = <<Byte(v)>>
            /\ \A i \in Ends(str) : c < i /\ i <= g - 1 =>
                  /\ OpcodeIs(prog[i], "clipboard") => Len(prog[i].elem) = 1
                  /\ OpcodeIs(prog[i], "end") => StreamOf(prog[i]) # <<Byte(v)>>
      BY <2>5, <2>6 DEF Opened, prog
    <3>2. \A i \in Ends(str) : i \in Nat
      BY EndsAreFinishes
    <3>3. c <= j
      BY <2>2, <3>1, <3>2
    <3>4. ASSUME NEW i \in Ends(str), c < i, i <= j
          PROVE  /\ OpcodeIs(prog[i], "clipboard") => Len(prog[i].elem) = 1
                 /\ OpcodeIs(prog[i], "end") => StreamOf(prog[i]) # <<Byte(v)>>
      <4>1. CASE i = j
        BY <2>4, <2>6, <4>1 DEF OpcodeIs, Is, ins
      <4>2. CASE i # j
        <5>1. i < j
          BY <3>2, <3>4, <4>2
        <5> QED
          BY <2>2, <3>1, <3>4, <5>1
      <4> QED
        BY <4>1, <4>2
    <3> QED
      BY <3>1, <3>3, <3>4 DEF Opened, prog
  <2>7. CASE ~(Second(str, g) <= j)
    <3>1. before = v /\ Len(ins.elem) = 1 /\ StreamOf(ins) = <<>>
      BY <2>3, <2>4, <2>7
    <3>2. <<>> # <<Byte(v)>>
      OBVIOUS
    <3> QED
      BY <2>6, <3>1, <3>2
  <2>8. CASE Second(str, g) <= j /\ Is(o, "clipboard")
    <3>1. parse_stream_index(arg) = v
      BY <2>3, <2>8, TrackedIs
    <3>2. arg = <<Byte(v)>>
      BY <3>1, StreamIndex
    <3>3. OpcodeIs(prog[j], "clipboard") /\ StreamOf(prog[j]) = <<Byte(v)>>
      BY <2>4, <2>8, <3>2 DEF OpcodeIs, Is, ins
    <3>4. \A i \in Ends(str) : ~(j < i /\ i <= j)
      BY EndsAreFinishes
    <3>5. j <= j
      OBVIOUS
    <3> QED
      BY <2>1, <3>3, <3>4, <3>5 DEF Opened, prog
  <2>9. CASE Second(str, g) <= j /\ ~Is(o, "clipboard")
    <3>1. ~(Is(o, "end") /\ parse_stream_index(arg) = before) /\ before = v
      BY <2>3, <2>9, TrackedIs DEF NoStream
    <3>2. Is(o, "end") => arg # <<Byte(v)>>
      BY <3>1, StreamIndex
    <3> QED
      BY <2>4, <2>6, <2>9, <3>1, <3>2
  <2> QED
    BY <2>7, <2>8, <2>9
<1>4. 0..n \subseteq T
  <2>1. T \in SUBSET Nat
    OBVIOUS
  <2> HIDE DEF T, n
  <2> QED
    BY <1>1, <1>2, <1>3, <2>1, CountingUp
<1>5. b \in T /\ b <= b
  BY <1>1, <1>4
<1> QED
  BY <1>5

(***************************************************************************)
(* What a guard reads without denying any of it satisfies the policy as    *)
(* the reference states it on whole instructions: the stream is well       *)
(* framed, every opcode is on the whitelist, every blob is on the          *)
(* clipboard stream that was opened last and not ended since, and no       *)
(* payload on it is over the cap.  (GuardOpcodeParser decides each element *)
(* when its delimiter comes, from cap_next_arg, current_arg and            *)
(* clipboard_sidx.)                                                        *)
(***************************************************************************)
THEOREM GuardReference ==
    ASSUME NEW str, IsStream(str), Clean(str)
    PROVE  WellFramed(str) /\ RefusedRanges(str) = {}
<1> DEFINE f == Calls(New("guard"), str)
           n == Len(str)
           prog == Decode(str)
<1>1. IsReading(f, str)
  BY CleanReading
<1>2. n \in Nat /\ DOMAIN str = 1..n
  BY SequenceLength DEF IsStream
<1> HIDE DEF f
<1>3. WellFramed(str)
  <2> SUFFICES ASSUME NEW j \in Elements(str)
               PROVE  /\ str[j][1] = "length"
                      /\ DelimOf(str, j) \in DOMAIN str => str[DelimOf(str, j)][1] = "delim"
    BY DEF WellFramed
  <2>1. j \in Places(str) /\ j <= Len(str)
    BY <1>2 DEF Elements
  <2>2. str[j][1] = "length" /\ (DelimOf(str, j) <= Len(str) =>
            str[DelimOf(str, j)] \in {Comma, Semicolon})
    BY <1>1, <2>1, ElementAtHand
  <2>3. Comma[1] = "delim" /\ Semicolon[1] = "delim"
    BY DEF Comma, Semicolon
  <2> QED
    BY <1>2, <2>2, <2>3
<1>4. ASSUME NEW e \in DOMAIN prog PROVE ~Refused(prog, e)
  <2>1. e \in Ends(str) /\ DOMAIN prog = Ends(str)
    BY <1>4 DEF Decode
  <2> DEFINE g == First(str, e)
             o == Element(str, g)
             before == f[g - 1].p.clipboard_sidx
             arg == Element(str, Second(str, g))
             ins == prog[e]
  <2>2. Permits(f, str, e)
    BY <1>1, <2>1, ReadingPermits
  <2>3. /\ ins.elem[1] = o
        /\ Len(ins.elem) > 1 <=> Second(str, g) <= e
        /\ StreamOf(ins) = IF Second(str, g) <= e THEN arg ELSE <<>>
        /\ Len(ins.elem) > 2 =>
              /\ Second(str, g) <= e /\ Third(str, g) <= e
              /\ ins.elem[3] = Element(str, Third(str, g))
    BY <1>1, <2>1, DecodeIs
  <2>4. /\ g \in 1..(e - 1) /\ g - 1 \in Ends(str) \cup {0}
        /\ \A i \in Ends(str) : i < e => i <= g - 1
    BY <1>1, <2>1, FirstIsStart
  <2>5. /\ IsAllowedOpcode(o)
        /\ Is(o, "blob") /\ Second(str, g) <= e =>
              parse_stream_index(arg) # NoStream /\ parse_stream_index(arg) = before
        /\ Is(o, "blob") /\ Second(str, g) <= e /\ Third(str, g) <= e =>
              /\ Len(Element(str, Third(str, g))) \in Nat
              /\ Len(Element(str, Third(str, g))) <= MAX_BYTES
    BY <2>2 DEF Permits
  <2> HIDE DEF g, o, arg, ins, prog
  <2>6. ASSUME OpcodeIs(ins, "blob"), Len(ins.elem) > 1 PROVE OnClipboard(prog, e)
    <3>1. Is(o, "blob") /\ Second(str, g) <= e /\ StreamOf(ins) = arg
      BY <2>3, <2>6 DEF OpcodeIs, Is
    <3>2. parse_stream_index(arg) # NoStream /\ parse_stream_index(arg) = before
      BY <2>5, <3>1
    <3>3. PICK v \in {"0", "1"} : arg = <<Byte(v)>>
      BY <3>2 DEF parse_stream_index, Is
    <3>4. before = v
      BY <3>2, <3>3, StreamIndex
    <3>5. Opened(str, g - 1, v)
      BY <1>1, <2>4, <3>4, ReadingOpened
    <3>6. PICK c \in Ends(str) :
            /\ c <= g - 1 /\ OpcodeIs(prog[c], "clipboard") /\ StreamOf(prog[c]) = <<Byte(v)>>
            /\ \A i \in Ends(str) : c < i /\ i <= g - 1 =>
                  /\ OpcodeIs(prog[i], "clipboard") => Len(prog[i].elem) = 1
                  /\ OpcodeIs(prog[i], "end") => StreamOf(prog[i]) # <<Byte(v)>>
      BY <3>5 DEF Opened, prog
    <3>7. \A i \in Ends(str) : i \in Nat
      BY <1>1, EndsAreFinishes
    <3>8. c < e
      BY <2>1, <2>4, <3>6, <3>7
    <3>9. StreamOf(prog[e]) = <<Byte(v)>> /\ OpcodeIs(prog[e], "blob")
      BY <2>6, <3>1, <3>3 DEF ins
    <3>10. StreamOf(prog[e]) \in {<<Byte("0")>>, <<Byte("1")>>}
      BY <3>9
    <3>11. ASSUME NEW i \in DOMAIN prog, c < i, i < e
           PROVE  /\ OpcodeIs(prog[i], "clipboard") => Len(prog[i].elem) = 1
                  /\ OpcodeIs(prog[i], "end") => StreamOf(prog[i]) # <<Byte(v)>>
      BY <2>1, <2>4, <3>6, <3>11
    <3> QED
      BY <2>1, <3>6, <3>8, <3>9, <3>10, <3>11 DEF OnClipboard
  <2>7. IsAllowedOpcode(ins.elem[1])
    BY <2>3, <2>5
  <2>8. ~TooLong(prog, e)
    <3> SUFFICES ASSUME OpcodeIs(ins, "blob"), Len(ins.elem) > 2, Len(ins.elem[3]) > MAX_BYTES
                 PROVE  FALSE
      BY DEF TooLong, OnClipboard, ins
    <3>1. /\ Is(o, "blob") /\ Second(str, g) <= e /\ Third(str, g) <= e
          /\ ins.elem[3] = Element(str, Third(str, g))
      BY <2>3 DEF OpcodeIs, Is
    <3>2. /\ Len(Element(str, Third(str, g))) \in Nat
          /\ Len(Element(str, Third(str, g))) <= MAX_BYTES
      BY <2>5, <3>1
    <3> QED
      BY <3>1, <3>2, ParserAssumption
  <2> QED
    BY <2>6, <2>7, <2>8 DEF Refused, ins
<1>5. RefusedRanges(str) = {}
  BY <1>4 DEF RefusedRanges
<1> QED
  BY <1>3, <1>5

-----------------------------------------------------------------------------
(* The session.  What the browser and guacd send is made of symbols.        *)

SymbolOf(V) == {Length(n) : n \in Nat} \cup {Byte(v) : v \in V} \cup {Comma, Semicolon}

Symbol == SymbolOf(STRING)

(* Such sequences are streams.                                              *)
LEMMA SymbolsAreStreams ==
    ASSUME NEW str \in Seq(Symbol)
    PROVE  IsStream(str)
<1>1. \A n : Length(n)[1] = "length" /\ Length(n)[2] = n
  BY DEF Length
<1>2. \A v : Byte(v)[1] = "byte"
  BY DEF Byte
<1>3. Comma[1] = "delim" /\ Semicolon[1] = "delim"
  BY DEF Comma, Semicolon
<1>4. \A s \in Symbol : s[1] = "length" => s[2] \in Nat
  BY <1>1, <1>2, <1>3 DEF Symbol, SymbolOf
<1>5. \A i \in 1..Len(str) : str[i] \in Symbol
  OBVIOUS
<1> QED
  BY <1>4, <1>5 DEF IsStream, IsSequence

(* FlattenSeq joins sequences over S to one that is no shorter than the     *)
(* first of them.                                                           *)
LEMMA FlattenJoins ==
    ASSUME NEW S, NEW seqs \in Seq(Seq(S))
    PROVE  /\ FlattenSeq(seqs) \in Seq(S)
           /\ seqs # <<>> => Len(seqs[1]) <= Len(FlattenSeq(seqs))
<1> DEFINE n == Len(seqs)
           F(f) == f = [i \in 1..n |-> IF i = 1 THEN seqs[i] ELSE f[i - 1] \o seqs[i]]
           flat == CHOOSE f : F(f)
<1>1. n \in Nat /\ \A i \in 1..n : seqs[i] \in Seq(S)
  OBVIOUS
<1>2. CASE n = 0
  <2>1. seqs = <<>>
    BY <1>2
  <2> QED
    BY <1>2, <2>1 DEF FlattenSeq
<1>3. CASE n # 0
  <2>1. FlattenSeq(seqs) = flat[n]
    BY <1>3 DEF FlattenSeq
  <2>2. PICK g : IsCourse(g, "FlattenSeq", seqs[1], seqs, n - 1)
    <3>1. n - 1 \in Nat
      BY <1>1, <1>3
    <3> HIDE DEF n
    <3> QED
      BY <3>1, CourseExists
  <2>3. F([i \in 1..n |-> g[i - 1]])
    <3> DEFINE h == [i \in 1..n |-> g[i - 1]]
    <3>1. ASSUME NEW i \in 1..n
          PROVE  h[i] = IF i = 1 THEN seqs[i] ELSE h[i - 1] \o seqs[i]
      <4>1. CASE i = 1
        BY <2>2, <4>1 DEF IsCourse
      <4>2. CASE i # 1
        <5>1. i - 1 \in 0..(n - 1) /\ i - 1 # 0 /\ (i - 1) + 1 = i /\ i - 1 \in 1..n
          BY <4>2
        <5>2. g[i - 1] = Step("FlattenSeq", g[(i - 1) - 1], i - 1, seqs)
          BY <2>2, <5>1 DEF IsCourse
        <5>3. \A x, k : Step("FlattenSeq", x, k, seqs) = x \o seqs[k + 1]
          BY DEF Step
        <5> QED
          BY <4>2, <5>1, <5>2, <5>3
      <4> QED
        BY <4>1, <4>2
    <3> QED
      BY <3>1
  <2>4. F(flat)
    <3> HIDE DEF F
    <3> QED
      BY <2>3
  <2> HIDE DEF flat
  <2> DEFINE T == {j \in Nat : j + 1 <= n =>
                      flat[j + 1] \in Seq(S) /\ Len(seqs[1]) <= Len(flat[j + 1])}
  <2>5. 0 \in T
    <3>1. 1 \in 1..n /\ seqs[1] \in Seq(S)
      BY <1>1, <1>3
    <3>2. flat[1] = seqs[1]
      BY <2>4, <3>1
    <3> QED
      BY <3>1, <3>2
  <2>6. ASSUME NEW j \in 1..(n - 1), j - 1 \in T PROVE j \in T
    <3>1. j \in 1..n /\ j + 1 \in 1..n /\ j + 1 # 1 /\ (j + 1) - 1 = j /\ (j - 1) + 1 = j
      BY <1>1
    <3>2. flat[j + 1] = flat[j] \o seqs[j + 1]
      <4> HIDE DEF n
      <4> QED
        BY <2>4, <3>1
    <3>3. flat[j] \in Seq(S) /\ Len(seqs[1]) <= Len(flat[j])
      <4>1. j <= n
        BY <3>1
      <4> QED
        BY <2>6, <3>1, <4>1
    <3>4. seqs[j + 1] \in Seq(S) /\ seqs[1] \in Seq(S)
      BY <1>1, <3>1
    <3> DEFINE x == flat[j]
               y == seqs[j + 1]
    <3> HIDE DEF x, y
    <3>5. x \o y \in Seq(S) /\ Len(x \o y) = Len(x) + Len(y) /\ Len(x) \in Nat /\ Len(y) \in Nat
      BY <3>3, <3>4 DEF x, y
    <3>6. flat[j + 1] \in Seq(S) /\ Len(seqs[1]) <= Len(flat[j + 1])
      <4> DEFINE l == Len(seqs[1])
      <4>1. l \in Nat /\ l <= Len(x) /\ flat[j + 1] = x \o y
        BY <3>2, <3>3, <3>4 DEF x, y
      <4> HIDE DEF l
      <4>2. l <= Len(x \o y)
        BY <3>5, <4>1
      <4> QED
        BY <3>5, <4>1, <4>2 DEF l
    <3> QED
      BY <3>6
  <2>7. 0..(n - 1) \subseteq T
    <3>1. T \in SUBSET Nat /\ n - 1 \in Nat
      BY <1>1, <1>3
    <3> HIDE DEF T, n
    <3> QED
      BY <2>5, <2>6, <3>1, CountingUp
  <2>8. n - 1 \in T /\ (n - 1) + 1 = n /\ n <= n
    <3> HIDE DEF T
    <3> QED
      BY <1>1, <1>3, <2>7
  <2>9. flat[n] \in Seq(S) /\ Len(seqs[1]) <= Len(flat[n])
    BY <2>8
  <2> QED
    BY <2>1, <2>9
<1> QED
  BY <1>2, <1>3

(* An instruction is a sequence of symbols.                                 *)
LEMMA InstructionOf ==
    ASSUME NEW V, NEW elems \in Seq(Seq(SymbolOf(V)))
    PROVE  instr(elems) \in Seq(SymbolOf(V))
<1> DEFINE part(i) == <<Length(Len(elems[i]))>> \o elems[i]
                      \o <<IF i = Len(elems) THEN Semicolon ELSE Comma>>
           parts == [i \in DOMAIN elems |-> part(i)]
<1>1. ASSUME NEW i \in DOMAIN elems PROVE part(i) \in Seq(SymbolOf(V))
  <2> DEFINE e == elems[i]
             d == IF i = Len(elems) THEN Semicolon ELSE Comma
  <2>1. e \in Seq(SymbolOf(V))
    OBVIOUS
  <2> HIDE DEF e
  <2>2. Len(e) \in Nat
    BY <2>1
  <2>3. Length(Len(e)) \in SymbolOf(V) /\ d \in SymbolOf(V)
    BY <2>2 DEF SymbolOf
  <2> HIDE DEF d
  <2>4. <<Length(Len(e))>> \in Seq(SymbolOf(V)) /\ <<d>> \in Seq(SymbolOf(V))
    BY <2>3
  <2>5. <<Length(Len(e))>> \o e \o <<d>> \in Seq(SymbolOf(V))
    BY <2>1, <2>4
  <2> QED
    BY <2>5 DEF e, d
<1> HIDE DEF part
<1>2. parts \in Seq(Seq(SymbolOf(V)))
  <2>1. Len(elems) \in Nat /\ DOMAIN elems = 1..Len(elems)
    OBVIOUS
  <2>2. parts \in [1..Len(elems) -> Seq(SymbolOf(V))]
    BY <1>1, <2>1
  <2> QED
    BY <2>1, <2>2, SeqDef
<1>3. instr(elems) = FlattenSeq(parts)
  BY DEF instr, part
<1> HIDE DEF parts
<1> QED
  BY <1>2, <1>3, FlattenJoins

(* And so are several.                                                      *)
LEMMA ProgramOf ==
    ASSUME NEW V, NEW prog \in Seq(Seq(Seq(SymbolOf(V))))
    PROVE  /\ Flatten(prog) \in Seq(SymbolOf(V))
           /\ prog # <<>> => Len(instr(prog[1])) <= Len(Flatten(prog))
<1> DEFINE parts == [i \in DOMAIN prog |-> instr(prog[i])]
<1>1. Len(prog) \in Nat /\ DOMAIN prog = 1..Len(prog)
      /\ \A i \in 1..Len(prog) : prog[i] \in Seq(Seq(SymbolOf(V)))
  OBVIOUS
<1>2. parts \in Seq(Seq(SymbolOf(V)))
  <2>1. parts \in [1..Len(prog) -> Seq(SymbolOf(V))]
    BY <1>1, InstructionOf
  <2> QED
    BY <1>1, <2>1, SeqDef
<1>3. Flatten(prog) = FlattenSeq(parts)
  BY DEF Flatten
<1>4. prog # <<>> => parts # <<>> /\ parts[1] = instr(prog[1])
  <2> SUFFICES ASSUME prog # <<>> PROVE parts # <<>> /\ parts[1] = instr(prog[1])
    OBVIOUS
  <2>1. Len(prog) # 0
    OBVIOUS
  <2>2. 1 \in DOMAIN prog
    BY <1>1, <2>1
  <2>3. DOMAIN parts = DOMAIN prog /\ DOMAIN <<>> = {}
    OBVIOUS
  <2> QED
    BY <2>2, <2>3
<1> HIDE DEF parts
<1> QED
  BY <1>2, <1>3, <1>4, FlattenJoins

(* What an element's data is made of are symbols.                           *)
LEMMA DataAreSymbols == Data \subseteq Symbol
<1> SUFFICES ASSUME NEW d \in Data PROVE d \in Symbol
  OBVIOUS
<1>1. CASE d \in {"byte"} \X STRING
  <2>1. d[2] \in STRING /\ d = <<"byte", d[2]>>
    BY <1>1
  <2>2. d = Byte(d[2])
    BY <2>1 DEF Byte
  <2> QED
    BY <2>1, <2>2 DEF Symbol, SymbolOf
<1>2. CASE d \in {"length"} \X Nat
  <2>1. d[2] \in Nat /\ d = <<"length", d[2]>>
    BY <1>2
  <2>2. d = Length(d[2])
    BY <2>1 DEF Length
  <2> QED
    BY <2>1, <2>2 DEF Symbol, SymbolOf
<1> QED
  BY <1>1, <1>2 DEF Data

LEMMA InstructionSymbols ==
    ASSUME NEW elems \in Seq(Seq(Data))
    PROVE  instr(elems) \in Seq(Symbol)
<1>1. Seq(Seq(Data)) \subseteq Seq(Seq(Symbol))
  <2>1. Seq(Data) \subseteq Seq(Symbol)
    BY DataAreSymbols
  <2> QED
    BY <2>1
<1>2. elems \in Seq(Seq(SymbolOf(STRING)))
  BY <1>1 DEF Symbol
<1> QED
  BY <1>2, InstructionOf DEF Symbol

LEMMA ProgramSymbols ==
    ASSUME NEW prog \in Program
    PROVE  /\ Flatten(prog) \in Seq(Symbol)
           /\ prog # <<>> => Len(instr(prog[1])) <= Len(Flatten(prog))
<1>1. Seq(Seq(Seq(Data))) \subseteq Seq(Seq(Seq(Symbol)))
  <2>1. Seq(Data) \subseteq Seq(Symbol)
    BY DataAreSymbols
  <2>2. Seq(Seq(Data)) \subseteq Seq(Seq(Symbol))
    BY <2>1
  <2> QED
    BY <2>2
<1>2. prog \in Seq(Seq(Seq(SymbolOf(STRING))))
  BY <1>1 DEF Program, Symbol
<1> QED
  BY <1>2, ProgramOf DEF Symbol

(* The datagrams that the brokers send in a session.                        *)
Traffic == {Datagram(data) : data \in {x \in Seq(Symbol) : Len(x) <= MAX_PAYLOAD_SIZE}}

(* Everything the guard g has forwarded is clean, and unless it is poisoned *)
(* its parser is where a new one would be that had read just that.          *)
GuardInv(g) ==
    /\ g = [parser |-> g.parser, poisoned |-> g.poisoned, forwarded |-> g.forwarded]
    /\ g.poisoned \in BOOLEAN
    /\ g.forwarded \in Seq(Symbol) /\ Clean(g.forwarded)
    /\ IsGuard(Call(g.parser))
    /\ ~g.poisoned => Alike(g.parser, After(g.forwarded))

(* So it is in the beginning.                                               *)
LEMMA GuardInvInit ==
    GuardInv([parser |-> New("guard"), poisoned |-> FALSE, forwarded |-> <<>>])
<1> DEFINE p == New("guard")
           f == Calls(p, <<>>)
<1>1. Len(<<>>) = 0 /\ <<>> \in Seq(Symbol)
  OBVIOUS
<1>2. f[0] = Call(p)
  BY <1>1, CallsEquation
<1>3. Reread(<<>>) = Call(p)
  BY <1>1, <1>2 DEF Reread
<1>4. IsParser(p)
  BY DEF New, Base, IsParser
<1>5. Call(p).p = p /\ Call(p).denying = FALSE /\ Call(p).denied_ranges = {}
  BY DEF Call
<1>6. Clean(<<>>)
  BY <1>3, <1>5, NewGuard DEF Clean
<1>7. After(<<>>) = p
  BY <1>3, <1>5 DEF After
<1>8. Alike(p, After(<<>>))
  BY <1>7 DEF Alike
<1> HIDE DEF p
<1>9. IsGuard(Call(p))
  BY NewGuard DEF p
<1> QED
  BY <1>1, <1>6, <1>8, <1>9 DEF GuardInv, p

(* The header of a session's datagrams can be encoded.                      *)
LEMMA DatagramHeader == ChannelId \in Channel16 /\ NONE \in ChannelAction
  BY ChannelAssumption DEF ChannelAction

(* A datagram that comes through leaves it so: what is not poisoned is      *)
(* forwarded, within the limit, and read back whole.                        *)
LEMMA GuardInvNone ==
    ASSUME NEW g, GuardInv(g), NEW d \in Traffic
    PROVE  GuardInv(GuardNone(g, d))
<1>1. PICK data \in Seq(Symbol) : Len(data) <= MAX_PAYLOAD_SIZE /\ d = Datagram(data)
  BY DEF Traffic
<1>2. ChannelId \in Channel16 /\ NONE \in ChannelAction
  BY DatagramHeader
<1>3. /\ Received(d) = d /\ IsMessage(d) /\ TryCast(d).payload = data
  <2>1. TryCast(d) = BridgeMessage(ChannelId, NONE, data) /\ Received(d) = d /\ IsMessage(d)
    BY <1>1, <1>2, RoundTrip DEF Datagram
  <2> QED
    BY <2>1 DEF BridgeMessage
<1> DEFINE c == Parse(g.parser, data)
           rest == Excise(data, c.denied_ranges)
<1>4. rest \in Seq(Symbol) /\ Len(rest) <= MAX_PAYLOAD_SIZE
  <2> HIDE DEF c
  <2>1. PICK kept : /\ \A i \in 0..Len(data) : kept[i] \in Seq(Symbol) /\ Len(kept[i]) <= i
                    /\ rest = kept[Len(data)]
    BY ExciseEquation
  <2>2. Len(data) \in 0..Len(data)
    OBVIOUS
  <2>3. rest \in Seq(Symbol) /\ Len(rest) <= Len(data)
    BY <2>1, <2>2
  <2> HIDE DEF rest
  <2> QED
    BY <1>1, <2>3, MultiplexerAssumption
<1>5. TryCast(Received(Datagram(rest))).payload = rest
  <2> HIDE DEF rest
  <2>1. LET m == Datagram(rest) IN TryCast(m) = BridgeMessage(ChannelId, NONE, rest) /\ Received(m) = m
    BY <1>2, <1>4, RoundTrip DEF Datagram
  <2> QED
    BY <2>1 DEF BridgeMessage
<1>6. GuardNone(g, d) =
        IF g.poisoned THEN g
        ELSE IF c.p.state = "STREAM_CORRUPTED"
             THEN [g EXCEPT !.poisoned = TRUE, !.parser = New("guard")]
             ELSE [g EXCEPT !.parser = c.p, !.forwarded = g.forwarded \o rest]
  BY <1>3, <1>5 DEF GuardNone
<1>7. CASE g.poisoned
  BY <1>6, <1>7
<1>8. CASE ~g.poisoned /\ c.p.state = "STREAM_CORRUPTED"
  <2> DEFINE h == [parser |-> New("guard"), poisoned |-> TRUE, forwarded |-> g.forwarded]
  <2>1. GuardNone(g, d) = h
    BY <1>6, <1>8 DEF GuardInv
  <2>2. GuardInv(h)
    BY NewGuard DEF GuardInv
  <2> QED
    BY <2>1, <2>2
<1>9. CASE ~g.poisoned /\ c.p.state # "STREAM_CORRUPTED"
  <2> DEFINE out == g.forwarded \o rest
             h == [parser |-> c.p, poisoned |-> g.poisoned, forwarded |-> out]
  <2>1. GuardNone(g, d) = h
    BY <1>6, <1>9 DEF GuardInv
  <2>2. ~Corrupted(c)
    BY <1>9 DEF Corrupted
  <2>3. Clean(out) /\ Alike(c.p, After(out)) /\ IsGuard(Call(c.p))
    BY <1>9, <2>2, GuardIdempotent DEF GuardInv
  <2>4. out \in Seq(Symbol)
    BY <1>4 DEF GuardInv
  <2> HIDE DEF out, c
  <2>5. GuardInv(h)
    BY <2>3, <2>4 DEF GuardInv
  <2> QED
    BY <2>1, <2>5
<1> QED
  BY <1>7, <1>8, <1>9

(* So do several of which some are lost.                                    *)
LEMMA GuardInvRelayed ==
    ASSUME NEW g, GuardInv(g), NEW ds \in Seq(Traffic), NEW lost
    PROVE  GuardInv(Relayed(g, ds, lost))
<1> DEFINE n == Len(ds)
           F(f) == f = [i \in 0..n |-> IF i = 0 THEN g
                                       ELSE IF i \in lost THEN f[i - 1]
                                            ELSE GuardNone(f[i - 1], ds[i])]
           arg == [ds |-> ds, lost |-> lost]
           after == CHOOSE f : F(f)
<1>1. Relayed(g, ds, lost) = after[n]
  BY DEF Relayed, Stepwise
<1>2. \A f : IsCourse(f, "Relayed", g, arg, n) => F(f)
  <2>1. arg.ds = ds /\ arg.lost = lost
    OBVIOUS
  <2> HIDE DEF arg
  <2>2. \A x, i : Step("Relayed", x, i, arg) = IF i \in lost THEN x ELSE GuardNone(x, ds[i])
    BY <2>1 DEF Step
  <2> QED
    BY <2>2 DEF IsCourse
<1>3. n \in Nat /\ \A i \in 1..n : ds[i] \in Traffic
  OBVIOUS
<1>4. F(after)
  <2> HIDE DEF F, arg, n
  <2>1. \E f : F(f)
    BY <1>2, <1>3, CourseExists
  <2> QED
    BY <2>1
<1> HIDE DEF after, n
<1> DEFINE T == {j \in Nat : j <= n => GuardInv(after[j])}
<1>5. 0 \in T
  BY <1>3, <1>4
<1>6. ASSUME NEW j \in 1..n, j - 1 \in T PROVE j \in T
  <2>1. j \in 0..n /\ j # 0 /\ j \in Nat /\ j - 1 <= n
    BY <1>3
  <2>2. after[j] = IF j \in lost THEN after[j - 1] ELSE GuardNone(after[j - 1], ds[j])
    BY <1>4, <2>1
  <2>3. GuardInv(after[j - 1])
    BY <1>6, <2>1
  <2>4. GuardInv(after[j])
    BY <1>3, <2>2, <2>3, GuardInvNone
  <2> QED
    BY <2>1, <2>4
<1>7. 0..n \subseteq T
  <2>1. T \in SUBSET Nat
    OBVIOUS
  <2> HIDE DEF T
  <2> QED
    BY <1>3, <1>5, <1>6, <2>1, CountingUp
<1>8. n \in T /\ n <= n
  BY <1>3, <1>7
<1> QED
  BY <1>1, <1>8

(* The chunks of the captured handshake are within the limit.               *)
LEMMA ReplayTraffic ==
    ASSUME handshake_raw \in Seq(Symbol)
    PROVE  MaybeReplay \in Seq(Traffic)
<1> DEFINE L == Len(handshake_raw)
           P == MAX_PAYLOAD_SIZE
           q == (L + P - 1) \div P
           upto(k) == IF k = q THEN L ELSE k * P
           chunk(k) == SubSeq(handshake_raw, (k - 1) * P + 1, upto(k))
<1>1. L \in Nat /\ P \in Nat /\ P > 0
  BY MultiplexerAssumption
<1>2. q \in Nat /\ q * P <= L + P - 1 /\ L + P - 1 < q * P + P
  <2> HIDE DEF L, P
  <2> DEFINE m == L + P - 1
  <2>1. m \in Nat
    BY <1>1
  <2> HIDE DEF m
  <2>2. m \div P \in Int /\ P * (m \div P) <= m /\ m < P * (m \div P) + P /\ m \div P >= 0
    BY <1>1, <2>1
  <2> QED
    BY <1>1, <2>2 DEF m
<1> HIDE DEF L, P, q
<1>3. ASSUME NEW k \in 1..q
      PROVE  chunk(k) \in Seq(Symbol) /\ Len(chunk(k)) <= P
  <2> DEFINE a == (k - 1) * P
             b == upto(k)
  <2>1. k \in Nat /\ k >= 1 /\ k <= q
    BY <1>2
  <2>2. a \in Nat /\ k * P = a + P
    BY <1>1, <2>1
  <2>3. k = q => b = L /\ b <= a + P /\ a <= b
    BY <1>1, <1>2, <2>2
  <2>4. k # q => b = a + P /\ b <= L
    <3> SUFFICES ASSUME k # q PROVE b = a + P /\ b <= L
      OBVIOUS
    <3>1. q - 1 - k \in Nat
      BY <1>2, <2>1
    <3>2. (q - 1 - k) * P \in Nat /\ (q - 1 - k) * P = q * P - P - k * P
      BY <1>1, <1>2, <2>1, <3>1
    <3>3. k * P \in Nat /\ q * P \in Nat
      BY <1>1, <1>2, <2>1
    <3>4. k * P <= L
      BY <1>1, <1>2, <3>2, <3>3
    <3> QED
      BY <2>2, <3>4
  <2> HIDE DEF a, b
  <2>5. b \in Nat /\ b <= L /\ b <= a + P
    <3>1. CASE k = q
      BY <1>1, <2>2, <2>3, <3>1
    <3>2. CASE k # q
      BY <1>1, <2>2, <2>4, <3>2
    <3> QED
      BY <3>1, <3>2
  <2> DEFINE s == SubSeq(handshake_raw, a + 1, b)
  <2>6. s \in Seq(Symbol) /\ Len(s) = IF a + 1 <= b THEN b - (a + 1) + 1 ELSE 0
    BY <2>2, <2>5, SubSeqProperties DEF L
  <2> HIDE DEF s
  <2>7. Len(s) <= P
    BY <1>1, <2>2, <2>5, <2>6
  <2> QED
    BY <2>6, <2>7 DEF s, a, b
<1> HIDE DEF chunk
<1>4. ReplayHandshake = [k \in 1..q |-> Datagram(chunk(k))]
  BY DEF ReplayHandshake, chunk, L, P, q
<1>5. ReplayHandshake \in [1..q -> Traffic]
  BY <1>3, <1>4 DEF Traffic, P
<1>6. ReplayHandshake \in Seq(Traffic)
  BY <1>2, <1>5, SeqDef
<1>7. <<>> \in Seq(Traffic)
  OBVIOUS
<1> QED
  BY <1>6, <1>7 DEF MaybeReplay

(***************************************************************************)
(* The inductive invariant.  PolicyEnforced alone is not inductive: what   *)
(* the guard forwards next depends on its parser, which must not have got  *)
(* ahead of, or stayed behind, what went out.                              *)
(***************************************************************************)
SessionInv ==
    /\ input \in Seq(Symbol) /\ Len(Hello) <= Len(input)
    /\ received \in Nat
    /\ handshake_raw \in Seq(Symbol)
    /\ GuardInv(guard)

(* The handshake.                                                           *)
LEMMA HelloSymbols ==
    /\ Hello \in Seq(Symbol) /\ Len(Hello) \in Nat
    /\ Len(instr(Handshake[1])) \in Nat /\ Len(instr(Handshake[1])) <= Len(Hello)
<1>1. Handshake \in Program /\ Len(Handshake) = 2
  BY HandshakeAssumption
<1>2. Handshake # <<>> /\ Handshake[1] \in Seq(Seq(Data))
  <2> DEFINE S == Seq(Seq(Data))
  <2>1. Handshake \in Seq(S)
    BY <1>1 DEF Program
  <2> HIDE DEF S
  <2>2. Handshake # <<>> /\ Handshake[1] \in S
    BY <1>1, <2>1
  <2> QED
    BY <2>2 DEF S
<1>3. Hello \in Seq(Symbol) /\ Len(instr(Handshake[1])) <= Len(Hello)
  BY <1>1, <1>2, ProgramSymbols DEF Hello
<1>4. instr(Handshake[1]) \in Seq(Symbol)
  BY <1>2, InstructionSymbols
<1> QED
  BY <1>3, <1>4

LEMMA SessionInvInit == Init => SessionInv
<1> SUFFICES ASSUME Init PROVE SessionInv
  OBVIOUS
<1>1. PICK s \in Scenarios : input = Hello \o Flatten(s.browser)
  BY DEF Init
<1>2. s.browser \in Program
  BY ScenarioAssumption
<1>3. Hello \in Seq(Symbol) /\ Flatten(s.browser) \in Seq(Symbol)
  BY <1>2, ProgramSymbols, HelloSymbols
<1> DEFINE tail == Flatten(s.browser)
<1> HIDE DEF tail
<1>4. input \in Seq(Symbol) /\ Len(Hello) <= Len(input)
  <2>1. Hello \o tail \in Seq(Symbol) /\ Len(Hello \o tail) = Len(Hello) + Len(tail)
        /\ Len(Hello) \in Nat /\ Len(tail) \in Nat
    BY <1>3 DEF tail
  <2> QED
    BY <1>1, <2>1 DEF tail
<1>5. received = 0 /\ handshake_raw = <<>>
      /\ guard = [parser |-> New("guard"), poisoned |-> FALSE, forwarded |-> <<>>]
  BY DEF Init
<1>6. GuardInv(guard)
  BY <1>5, GuardInvInit
<1>7. received \in Nat /\ handshake_raw \in Seq(Symbol)
  BY <1>5
<1> QED
  BY <1>4, <1>6, <1>7 DEF SessionInv

(* What is read is part of the input.                                       *)
LEMMA ChunkSymbols ==
    ASSUME SessionInv, NEW n \in Nat \ {0}, received + n <= Len(input)
    PROVE  Chunk(n) \in Seq(Symbol) /\ Len(Chunk(n)) = n
<1>1. input \in Seq(Symbol) /\ received \in Nat /\ Len(input) \in Nat
  BY DEF SessionInv
<1> DEFINE a == received + 1
           b == received + n
<1>2. a \in 1..Len(input) /\ b \in 1..Len(input) /\ a <= b /\ b - a + 1 = n
  BY <1>1
<1> HIDE DEF a, b
<1>3. SubSeq(input, a, b) \in Seq(Symbol) /\ Len(SubSeq(input, a, b)) = b - a + 1
  BY <1>1, <1>2, SubSeqProperties
<1> QED
  BY <1>2, <1>3 DEF Chunk, a, b

(* Sending traffic keeps the guard's part.                                  *)
LEMMA SendKeeps ==
    ASSUME SessionInv, NEW ds \in Seq(Traffic), Send(ds)
    PROVE  GuardInv(guard')
<1>1. PICK lost : guard' = Relayed(guard, ds, lost)
  BY DEF Send
<1> QED
  BY <1>1, GuardInvRelayed DEF SessionInv

(* The reader sends traffic.                                                *)
LEMMA PipeSends ==
    ASSUME SessionInv, NEW n \in 1..MAX_PAYLOAD_SIZE, PipeInput(n)
    PROVE  \E ds \in Seq(Traffic) : Send(ds)
<1>0. MAX_PAYLOAD_SIZE \in Nat
  BY MultiplexerAssumption
<1> DEFINE f == Filter(keepalive_filter, Chunk(n))
           rest == IF f.data = <<>> THEN <<>> ELSE <<Datagram(f.data)>>
<1>1. received + n <= Len(input) /\ Send(MaybeReplay \o rest)
  BY DEF PipeInput
<1>2. n \in Nat \ {0} /\ received \in Nat /\ n <= MAX_PAYLOAD_SIZE
  BY <1>0 DEF SessionInv
<1>3. Chunk(n) \in Seq(Symbol) /\ Len(Chunk(n)) = n
  BY <1>1, <1>2, ChunkSymbols
<1>4. f.data \in Seq(Symbol) /\ Len(f.data) <= MAX_PAYLOAD_SIZE
  <2> DEFINE data == Chunk(n)
             ranges == Parse(keepalive_filter, data).denied_ranges
  <2> HIDE DEF data
  <2>1. f.data = data \/ f.data = Excise(data, ranges)
    BY DEF Filter, data
  <2> HIDE DEF ranges
  <2>2. PICK kept : /\ \A i \in 0..Len(data) : kept[i] \in Seq(Symbol) /\ Len(kept[i]) <= i
                    /\ Excise(data, ranges) = kept[Len(data)]
    BY <1>3, ExciseEquation DEF data
  <2>3. Len(data) = n /\ n \in 0..n
    BY <1>2, <1>3 DEF data
  <2>4. Excise(data, ranges) \in Seq(Symbol) /\ Len(Excise(data, ranges)) <= n
    BY <2>2, <2>3
  <2>5. f.data \in Seq(Symbol) /\ Len(f.data) <= n
    BY <1>2, <1>3, <2>1, <2>3, <2>4 DEF data
  <2> HIDE DEF f
  <2> QED
    BY <1>0, <1>2, <2>5
<1> HIDE DEF f
<1>5. rest \in Seq(Traffic)
  <2>1. Datagram(f.data) \in Traffic
    BY <1>4 DEF Traffic
  <2> QED
    BY <2>1
<1> HIDE DEF rest
<1>6. MaybeReplay \in Seq(Traffic)
  BY ReplayTraffic DEF SessionInv
<1>7. MaybeReplay \o rest \in Seq(Traffic)
  BY <1>5, <1>6
<1> QED
  BY <1>1, <1>7

LEMMA SessionInvNext == SessionInv /\ [Next]_vars => SessionInv'
<1> SUFFICES ASSUME SessionInv, [Next]_vars PROVE SessionInv'
  OBVIOUS
<1>0. MAX_PAYLOAD_SIZE \in Nat
  BY MultiplexerAssumption
<1>1. ASSUME NEW n \in 1..MAX_PAYLOAD_SIZE, HandshakeRead(n) PROVE SessionInv'
  <2>1. n \in Nat \ {0} /\ received \in Nat /\ Len(input) \in Nat
    BY <1>0 DEF SessionInv
  <2>2. received + n <= Len(Hello) /\ Len(Hello) <= Len(input)
    <3>1. received + n <= Len(instr(Handshake[1])) \/ received + n <= Len(Hello)
      BY <1>1 DEF HandshakeRead
    <3> QED
      BY <2>1, <3>1, HelloSymbols DEF SessionInv
  <2>3. received + n <= Len(input)
    BY <2>1, <2>2, HelloSymbols
  <2>4. Chunk(n) \in Seq(Symbol)
    BY <2>1, <2>3, ChunkSymbols
  <2>5. /\ input' = input /\ received' = received + n /\ guard' = guard
        /\ handshake_raw' = handshake_raw \o Chunk(n)
    BY <1>1 DEF HandshakeRead
  <2>6. handshake_raw' \in Seq(Symbol) /\ received' \in Nat
    BY <2>1, <2>4, <2>5 DEF SessionInv
  <2> QED
    BY <2>5, <2>6 DEF SessionInv
<1>2. ASSUME NEW n \in 1..MAX_PAYLOAD_SIZE, DropInput(n) PROVE SessionInv'
  <2>1. /\ input' = input /\ received' = received + n /\ guard' = guard
        /\ handshake_raw' = handshake_raw
    BY <1>2 DEF DropInput
  <2>2. received' \in Nat
    BY <1>0, <2>1 DEF SessionInv
  <2> QED
    BY <2>1, <2>2 DEF SessionInv
<1>3. ASSUME NEW n \in 1..MAX_PAYLOAD_SIZE, PipeInput(n) PROVE SessionInv'
  <2>1. input' = input /\ received' = received + n /\ handshake_raw' = handshake_raw
    BY <1>3 DEF PipeInput
  <2>2. GuardInv(guard')
    BY <1>3, PipeSends, SendKeeps
  <2>3. received' \in Nat
    BY <1>0, <2>1 DEF SessionInv
  <2> QED
    BY <2>1, <2>2, <2>3 DEF SessionInv
<1>4. CASE IdleReplay
  <2>1. /\ input' = input /\ received' = received /\ handshake_raw' = handshake_raw
        /\ Send(MaybeReplay)
    BY <1>4 DEF IdleReplay
  <2>2. MaybeReplay \in Seq(Traffic)
    BY ReplayTraffic DEF SessionInv
  <2>3. GuardInv(guard')
    BY <2>1, <2>2, SendKeeps
  <2> QED
    BY <2>1, <2>3 DEF SessionInv
<1>5. ASSUME \/ Approve \/ Keepalive \/ UNCHANGED vars
             \/ \E n \in 1..MAX_PAYLOAD_SIZE : GuacdRead(n)
      PROVE  SessionInv'
  <2>1. UNCHANGED <<input, received, handshake_raw, guard>>
    BY <1>5 DEF Approve, Keepalive, GuacdRead, vars, browserVars
  <2> QED
    BY <2>1 DEF SessionInv
<1> QED
  BY <1>1, <1>2, <1>3, <1>4, <1>5 DEF Next

(***************************************************************************)
(* For every handshake, every course of the browser and of guacd, wherever *)
(* the reads are cut, piping begins and datagrams are lost: what the guard *)
(* has forwarded is well framed and holds no instruction its policy        *)
(* refuses (PolicyEnforced; GuardOpcodeParser, gmguard's NONE branch).     *)
(***************************************************************************)
THEOREM PolicyEnforcedCorrect == Spec => []PolicyEnforced
<1>1. SessionInv => PolicyEnforced
  <2> SUFFICES ASSUME SessionInv PROVE PolicyEnforced
    OBVIOUS
  <2>1. guard.forwarded \in Seq(Symbol) /\ Clean(guard.forwarded)
    BY DEF SessionInv, GuardInv
  <2> DEFINE str == guard.forwarded
  <2> HIDE DEF str
  <2>2. IsStream(str) /\ Clean(str)
    BY <2>1, SymbolsAreStreams DEF str
  <2>3. WellFramed(str) /\ RefusedRanges(str) = {}
    BY <2>2, GuardReference
  <2> QED
    BY <2>3 DEF PolicyEnforced, str
<1> QED
  BY <1>1, SessionInvInit, SessionInvNext, PTL DEF Spec

-----------------------------------------------------------------------------
(* The replies.  An observer of a class has heard the stream a, cut in some *)
(* way or other, and these are the replies it has made.                     *)

Heard(p, replies, class, a) ==
    /\ IsObserver(p)
    /\ SameButOut(p, FeedObserver(New(class), a))
    /\ replies = FeedObserver(New(class), a).out

(* A new observer has heard nothing.                                        *)
LEMMA HeardNothing ==
    ASSUME NEW class \in {"acks", "sync"}
    PROVE  Heard(New(class), <<>>, class, <<>>)
<1> DEFINE p == New(class)
<1>1. IsParser(p) /\ p.class = class /\ p.out = <<>>
  BY DEF New, Base, IsParser
<1> HIDE DEF p
<1>2. IsObserver(p) /\ [p EXCEPT !.out = <<>>] = p
  BY <1>1 DEF IsObserver, IsParser
<1>3. Len(<<>>) = 0
  OBVIOUS
<1>4. Observed(p, <<>>)[0] = Call(p) /\ Call(p).p = p
  BY <1>1, <1>3, ObservedEquation, NewCall
<1>5. FeedObserver(p, <<>>) = p
  BY <1>2, <1>3, <1>4 DEF FeedObserver
<1> QED
  BY <1>1, <1>2, <1>5 DEF Heard, SameButOut, p

(* Another read.                                                            *)
LEMMA HeardMore ==
    ASSUME NEW S, NEW a \in Seq(S), NEW b \in Seq(S), NEW class \in {"acks", "sync"},
           NEW p, NEW replies, Heard(p, replies, class, a)
    PROVE  LET q == FeedObserver(p, b) IN Heard(q, replies \o q.out, class, a \o b)
<1> DEFINE new == New(class)
           first == FeedObserver(new, a)
           second == FeedObserver(first, b)
           one == FeedObserver(new, a \o b)
<1>1. IsObserver(new)
  BY DEF New, Base, IsParser, IsObserver
<1> HIDE DEF new
<1>2. one.out = first.out \o second.out /\ SameButOut(one, second)
  BY <1>1, ObserverCuts
<1>3. IsObserver(first)
  <2> DEFINE n0 == [new EXCEPT !.out = <<>>]
  <2>1. IsObserver(n0) /\ n0.out = <<>>
    BY <1>1 DEF IsObserver, IsParser
  <2>2. Len(a) \in Nat /\ Len(a) \in 0..Len(a)
    OBVIOUS
  <2> HIDE DEF n0
  <2>3. IsObserver(Observed(n0, a)[Len(a)].p)
    BY <2>1, <2>2, ObservedIsCall
  <2> QED
    BY <2>3 DEF FeedObserver, n0
<1> HIDE DEF first
<1>4. IsObserver(p) /\ SameButOut(p, first) /\ replies = first.out
  BY DEF Heard, first, new
<1> DEFINE p0 == [p EXCEPT !.out = <<>>]
           f0 == [first EXCEPT !.out = <<>>]
<1>5. p0 = f0
  <2>1. IsParser(p0) /\ IsParser(f0)
    BY <1>3, <1>4 DEF IsObserver, IsParser
  <2>2. SameButOut(p0, f0) /\ p0.out = <<>> /\ f0.out = <<>>
    BY <1>3, <1>4 DEF IsObserver, IsParser, SameButOut
  <2> HIDE DEF p0, f0
  <2>3. \A x \in DOMAIN p0 : p0[x] = f0[x]
    BY <2>1, <2>2 DEF IsParser, SameButOut
  <2> QED
    BY <2>1, <2>3 DEF IsParser
<1>6. FeedObserver(p, b) = second
  BY <1>5 DEF FeedObserver
<1>7. IsObserver(second)
  <2>1. IsObserver(f0) /\ f0.out = <<>>
    BY <1>3 DEF IsObserver, IsParser
  <2>2. Len(b) \in Nat /\ Len(b) \in 0..Len(b)
    OBVIOUS
  <2> HIDE DEF f0
  <2>3. IsObserver(Observed(f0, b)[Len(b)].p)
    BY <2>1, <2>2, ObservedIsCall
  <2> QED
    BY <2>3 DEF FeedObserver, f0
<1> HIDE DEF second, one
<1>8. SameButOut(second, one)
  BY <1>2 DEF SameButOut
<1> QED
  BY <1>2, <1>4, <1>6, <1>7, <1>8 DEF Heard, one, new

(* Two reads that follow each other are one part of the stream.             *)
LEMMA ReadsJoin ==
    ASSUME NEW S, NEW str \in Seq(S), NEW i \in Nat, NEW j \in Nat, NEW k \in Nat,
           i <= j, j <= k, k <= Len(str)
    PROVE  /\ SubSeq(str, i + 1, j) \in Seq(S) /\ SubSeq(str, j + 1, k) \in Seq(S)
           /\ SubSeq(str, i + 1, k) = SubSeq(str, i + 1, j) \o SubSeq(str, j + 1, k)
<1> DEFINE x == SubSeq(str, i + 1, j)
           y == SubSeq(str, j + 1, k)
           z == SubSeq(str, i + 1, k)
<1>1. /\ x \in Seq(S) /\ Len(x) = j - i /\ \A m \in 1..(j - i) : x[m] = str[i + m]
  <2>1. \A m \in 1..(j - i) : (i + 1) + m - 1 = i + m
    OBVIOUS
  <2>2. i + 1 <= j <=> i # j
    OBVIOUS
  <2> QED
    BY <2>1, <2>2, SubSeqProperties
<1>2. /\ y \in Seq(S) /\ Len(y) = k - j /\ \A m \in 1..(k - j) : y[m] = str[j + m]
  <2>1. \A m \in 1..(k - j) : (j + 1) + m - 1 = j + m
    OBVIOUS
  <2> QED
    BY <2>1, SubSeqProperties
<1>3. /\ z \in Seq(S) /\ Len(z) = k - i /\ \A m \in 1..(k - i) : z[m] = str[i + m]
  <2>1. \A m \in 1..(k - i) : (i + 1) + m - 1 = i + m
    OBVIOUS
  <2> QED
    BY <2>1, SubSeqProperties
<1> HIDE DEF x, y, z
<1>4. /\ x \o y \in Seq(S) /\ Len(x \o y) = k - i
      /\ \A m \in 1..(k - i) : (x \o y)[m] = IF m <= j - i THEN x[m] ELSE y[m - (j - i)]
  <2> DEFINE w == x \o y
  <2>1. /\ w \in Seq(S) /\ Len(w) = Len(x) + Len(y)
        /\ \A m \in 1..(Len(x) + Len(y)) : w[m] = IF m <= Len(x) THEN x[m] ELSE y[m - Len(x)]
    BY <1>1, <1>2, ConcatProperties
  <2>2. Len(x) + Len(y) = k - i /\ Len(x) = j - i
    BY <1>1, <1>2
  <2> HIDE DEF w
  <2> QED
    BY <2>1, <2>2 DEF w
<1>5. ASSUME NEW m \in 1..(k - i) PROVE z[m] = (x \o y)[m]
  <2>1. CASE m <= j - i
    <3>1. m \in 1..(j - i)
      BY <2>1
    <3> QED
      BY <1>1, <1>3, <1>4, <2>1, <3>1
  <2>2. CASE ~(m <= j - i)
    <3>1. m - (j - i) \in 1..(k - j) /\ j + (m - (j - i)) = i + m
      BY <2>2
    <3> QED
      BY <1>2, <1>3, <1>4, <2>2, <3>1
  <2> QED
    BY <2>1, <2>2
<1>6. z = x \o y
  <2> DEFINE w == x \o y
  <2>1. w \in Seq(S) /\ z \in Seq(S) /\ Len(z) = Len(w) /\ \A m \in 1..Len(z) : z[m] = w[m]
    BY <1>3, <1>4, <1>5
  <2> HIDE DEF w
  <2>2. z = w
    BY <2>1, SeqEqual
  <2> QED
    BY <2>2 DEF w
<1> QED
  BY <1>1, <1>2, <1>6 DEF x, y, z

(* The inductive invariant: each observer has heard all that was read of    *)
(* its stream, the ack faker from where the piping began.                   *)
RepliesInv ==
    /\ SessionInv
    /\ received <= Len(input)
    /\ start = -1 \/ (start \in Nat /\ start <= received /\ Established /\ approved)
    /\ start = -1 => Heard(clipboard_faker, faked, "acks", <<>>)
    /\ start # -1 => Heard(clipboard_faker, faked, "acks", SubSeq(input, start + 1, received))
    /\ output \in Seq(Symbol) /\ guacdReceived \in Nat /\ guacdReceived <= Len(output)
    /\ Heard(sync_faker, echoes, "sync", SubSeq(output, 1, guacdReceived))

LEMMA RepliesInvInit == Init => RepliesInv
<1> SUFFICES ASSUME Init PROVE RepliesInv
  OBVIOUS
<1>1. SessionInv
  BY SessionInvInit
<1>2. PICK s \in Scenarios : output = Flatten(s.guacd)
  BY DEF Init
<1>3. s.guacd \in Program
  BY ScenarioAssumption
<1>4. output \in Seq(Symbol)
  BY <1>2, <1>3, ProgramSymbols
<1>5. /\ received = 0 /\ guacdReceived = 0 /\ start = -1 /\ faked = <<>> /\ echoes = <<>>
      /\ clipboard_faker = New("acks") /\ sync_faker = New("sync")
  BY DEF Init
<1>6. SubSeq(output, 1, 0) = <<>>
  BY <1>4
<1>7. Len(input) \in Nat /\ Len(output) \in Nat
  BY <1>1, <1>4 DEF SessionInv
<1>8. Heard(clipboard_faker, faked, "acks", <<>>)
  BY <1>5, HeardNothing
<1>9. Heard(sync_faker, echoes, "sync", SubSeq(output, 1, guacdReceived))
  BY <1>5, <1>6, HeardNothing
<1>10. received <= Len(input) /\ guacdReceived <= Len(output) /\ guacdReceived \in Nat
  BY <1>5, <1>7
<1> QED
  BY <1>1, <1>4, <1>5, <1>8, <1>9, <1>10 DEF RepliesInv

LEMMA RepliesInvNext == RepliesInv /\ [Next]_vars => RepliesInv'
<1> SUFFICES ASSUME RepliesInv, [Next]_vars PROVE RepliesInv'
  OBVIOUS
<1>0. SessionInv'
  BY SessionInvNext DEF RepliesInv
<1>t. /\ MAX_PAYLOAD_SIZE \in Nat /\ received \in Nat /\ input \in Seq(Symbol)
      /\ Len(input) \in Nat /\ output \in Seq(Symbol) /\ Len(output) \in Nat
      /\ guacdReceived \in Nat
  BY MultiplexerAssumption DEF RepliesInv, SessionInv
<1>1. ASSUME NEW n \in 1..MAX_PAYLOAD_SIZE, HandshakeRead(n) PROVE RepliesInv'
  <2>1. start = -1
    BY <1>1 DEF HandshakeRead, RepliesInv
  <2>2. UNCHANGED <<input, start, clipboard_faker, faked, output, guacdReceived,
                    sync_faker, echoes>> /\ received' = received + n
    BY <1>1 DEF HandshakeRead, guacdVars
  <2>3. received + n <= Len(input)
    <3>1. received + n <= Len(instr(Handshake[1])) \/ received + n <= Len(Hello)
      BY <1>1 DEF HandshakeRead
    <3>2. Len(Hello) <= Len(input)
      BY DEF RepliesInv, SessionInv
    <3>3. n \in Nat
      BY <1>t
    <3> QED
      BY <1>t, <3>1, <3>2, <3>3, HelloSymbols
  <2> QED
    BY <1>0, <2>1, <2>2, <2>3 DEF RepliesInv
<1>2. ASSUME NEW n \in 1..MAX_PAYLOAD_SIZE, DropInput(n) PROVE RepliesInv'
  <2>1. start = -1
    BY <1>2 DEF DropInput, RepliesInv
  <2>2. UNCHANGED <<input, start, clipboard_faker, faked, output, guacdReceived,
                    sync_faker, echoes>> /\ received' = received + n
        /\ received + n <= Len(input)
    BY <1>2 DEF DropInput, guacdVars
  <2> QED
    BY <1>0, <2>1, <2>2 DEF RepliesInv
<1>3. ASSUME NEW n \in 1..MAX_PAYLOAD_SIZE, PipeInput(n) PROVE RepliesInv'
  <2> DEFINE begin == IF start = -1 THEN received ELSE start
             a == SubSeq(input, begin + 1, received)
             b == SubSeq(input, received + 1, received + n)
  <2>1. /\ UNCHANGED <<input, output, guacdReceived, sync_faker, echoes, forger>>
        /\ received' = received + n /\ received + n <= Len(input)
        /\ approved' = approved /\ Established /\ approved
        /\ clipboard_faker' = FeedObserver(clipboard_faker, b)
        /\ faked' = faked \o clipboard_faker'.out
        /\ start' = begin
    BY <1>3 DEF PipeInput, PipeHistory, Chunk, guacdVars
  <2>2. begin \in Nat /\ begin <= received /\ n \in Nat
    BY <1>t DEF RepliesInv
  <2>3. /\ a \in Seq(Symbol) /\ b \in Seq(Symbol)
        /\ SubSeq(input, begin + 1, received + n) = a \o b
    <3>1. received <= received + n /\ received + n \in Nat
      BY <1>t, <2>2
    <3> HIDE DEF begin
    <3> QED
      BY <1>t, <2>1, <2>2, <3>1, ReadsJoin
  <2>4. Heard(clipboard_faker, faked, "acks", a)
    <3>1. CASE start = -1
      <4>1. a = <<>>
        BY <1>t, <3>1
      <4> QED
        BY <3>1, <4>1 DEF RepliesInv
    <3>2. CASE start # -1
      BY <3>2 DEF RepliesInv
    <3> QED
      BY <3>1, <3>2
  <2> HIDE DEF a, b, begin
  <2>5. Heard(clipboard_faker', faked', "acks", a \o b)
    BY <2>1, <2>3, <2>4, HeardMore
  <2>6. Established'
    BY <2>1 DEF Established
  <2>7. start' # -1 /\ start' \in Nat /\ start' <= received'
    BY <1>t, <2>1, <2>2
  <2>8. Heard(sync_faker', echoes', "sync", SubSeq(output', 1, guacdReceived'))
        /\ output' \in Seq(Symbol) /\ guacdReceived' \in Nat /\ guacdReceived' <= Len(output')
    BY <2>1 DEF RepliesInv
  <2>9. Heard(clipboard_faker', faked', "acks", SubSeq(input', start' + 1, received'))
    BY <2>1, <2>3, <2>5
  <2>10. received' <= Len(input') /\ approved'
    BY <2>1
  <2> QED
    BY <1>0, <2>6, <2>7, <2>8, <2>9, <2>10 DEF RepliesInv
<1>4. ASSUME NEW n \in 1..MAX_PAYLOAD_SIZE, GuacdRead(n) PROVE RepliesInv'
  <2> DEFINE a == SubSeq(output, 1, guacdReceived)
             b == SubSeq(output, guacdReceived + 1, guacdReceived + n)
  <2>1. /\ UNCHANGED <<input, output, received, start, clipboard_faker, faked, forger, approved>>
        /\ guacdReceived' = guacdReceived + n /\ guacdReceived + n <= Len(output)
        /\ sync_faker' = FeedObserver(sync_faker, b)
        /\ echoes' = echoes \o sync_faker'.out
    BY <1>4 DEF GuacdRead, browserVars
  <2>2. guacdReceived + n <= Len(output) /\ guacdReceived + n \in Nat
        /\ guacdReceived <= guacdReceived + n /\ n \in Nat
    BY <1>t, <2>1
  <2>3. /\ a \in Seq(Symbol) /\ b \in Seq(Symbol)
        /\ SubSeq(output, 1, guacdReceived + n) = a \o b
    <3>1. 0 \in Nat /\ 0 <= guacdReceived /\ 0 + 1 = 1
      BY <1>t
    <3> QED
      BY <1>t, <2>2, <3>1, ReadsJoin
  <2>4. Heard(sync_faker, echoes, "sync", a)
    BY DEF RepliesInv
  <2> HIDE DEF a, b
  <2>5. Heard(sync_faker', echoes', "sync", a \o b)
    BY <2>1, <2>3, <2>4, HeardMore
  <2>6. Heard(sync_faker', echoes', "sync", SubSeq(output', 1, guacdReceived'))
        /\ output' \in Seq(Symbol) /\ guacdReceived' \in Nat /\ guacdReceived' <= Len(output')
    BY <1>t, <2>1, <2>2, <2>3, <2>5
  <2> QED
    BY <1>0, <2>1, <2>6 DEF RepliesInv, Established
<1>5. ASSUME Approve \/ IdleReplay \/ Keepalive \/ UNCHANGED vars PROVE RepliesInv'
  <2>1. UNCHANGED <<input, received, start, clipboard_faker, faked, output, guacdReceived,
                    sync_faker, echoes, forger>> /\ (approved => approved')
    BY <1>5 DEF Approve, IdleReplay, Keepalive, vars, browserVars, guacdVars
  <2> QED
    BY <1>0, <2>1 DEF RepliesInv, Established
<1> QED
  BY <1>1, <1>2, <1>3, <1>4, <1>5 DEF Next

-----------------------------------------------------------------------------
(* The return filter.  Its hooks refuse nothing, and note the first ready.  *)

IsReturn(c) == IsCall(c) /\ c.p.class = "return" /\ ~c.denying

(* d has noted no other ready than c.                                       *)
SameReady(d, c) ==
    IsReturn(d) /\ d.p.piping = c.p.piping /\ d.p.ready_end = c.p.ready_end

(* d has noted the ready that ends at i.                                    *)
NotedAt(d, c, i) == IsReturn(d) /\ ~c.p.piping /\ d.p.piping /\ d.p.ready_end = i

(* The filter's hooks on an element.                                        *)
LEMMA ReturnHook ==
    ASSUME NEW c, IsReturn(c)
    PROVE  /\ ~Refuses(c)
           /\ Hook(c).p = IF c.p.reading_opcode
                          THEN [c.p EXCEPT !.current_opcode = c.p.element_buffer,
                                           !.current_arg = 0, !.marked = FALSE,
                                           !.timestamp = <<>>]
                          ELSE [c.p EXCEPT !.current_arg = @ + 1]
<1> DEFINE p == c.p
           e == p.element_buffer
           q == [p EXCEPT !.current_arg = @ + 1]
<1>1. IsParser(p) /\ p.class = "return"
  BY DEF IsReturn, IsCall
<1> HIDE DEF p
<1>2. q.class = "return"
  BY <1>1 DEF IsParser
<1>3. /\ OnInstructionBegin(p, e).allowed
      /\ OnInstructionBegin(p, e).p = [p EXCEPT !.current_opcode = e, !.current_arg = 0,
                                                !.marked = FALSE, !.timestamp = <<>>]
  BY <1>1 DEF OnInstructionBegin
<1>4. OnArgument(p, e).allowed /\ OnArgument(p, e).p = q
  BY <1>2 DEF OnArgument
<1> QED
  BY <1>3, <1>4 DEF Hook, Refuses, p

(* A symbol notes a ready at its own place, or none.                        *)
LEMMA ReturnByte ==
    ASSUME NEW c, NEW i, NEW s, IsReturn(c)
    PROVE  LET d == ParseByte(c, i, s) IN SameReady(d, c) \/ NotedAt(d, c, i)
<1>1. ASSUME NEW x, IsReturn(x) PROVE SameReady(Corrupt(x), x)
  <2> DEFINE d == Corrupt(x)
  <2>1. /\ Continues(d, x) /\ SameLocals(d, x)
        /\ d.p = [x.p EXCEPT !.state = "STREAM_CORRUPTED"] /\ IsParser(x.p)
    BY <1>1, CorruptStep DEF IsReturn, IsCall
  <2> HIDE DEF d
  <2>2. d.p.piping = x.p.piping /\ d.p.ready_end = x.p.ready_end
    BY <2>1 DEF IsParser
  <2>3. IsReturn(d)
    BY <1>1, <2>1 DEF Continues, SameLocals, IsReturn
  <2> QED
    BY <2>2, <2>3 DEF SameReady, d
<1>2. SameReady(ReadLength(c, i, s[2]), c)
  <2> DEFINE d == ReadLength(c, i, s[2])
  <2>1. LengthEffect(d, c, i, s[2])
    BY LengthStep DEF IsReturn
  <2> HIDE DEF d
  <2>2. Oversized(c.p, s[2]) => SameReady(d, c)
    BY <1>1, <2>1 DEF LengthEffect
  <2>3. ASSUME ~Oversized(c.p, s[2]) PROVE SameReady(d, c)
    <3> DEFINE u == IF s[2] = 0 THEN "EXPECT_DELIM" ELSE "READING_DATA"
    <3>1. /\ d.p = [c.p EXCEPT !.current_length = s[2], !.current_read = 0,
                               !.element_buffer = <<>>, !.state = u]
          /\ d.denying = c.denying /\ Continues(d, c)
      BY <2>1, <2>3 DEF LengthEffect
    <3> HIDE DEF u
    <3>2. IsParser(c.p)
      BY DEF IsReturn, IsCall
    <3>3. d.p.piping = c.p.piping /\ d.p.ready_end = c.p.ready_end
      BY <3>1, <3>2 DEF IsParser
    <3>4. IsReturn(d)
      BY <3>1 DEF Continues, IsReturn
    <3> QED
      BY <3>3, <3>4 DEF SameReady
  <2> QED
    BY <2>2, <2>3 DEF d
<1>3. SameReady(ReadData(c, s), c)
  <2> DEFINE d == ReadData(c, s)
  <2>1. DataEffect(d, c, s)
    BY DataStep DEF IsReturn
  <2> HIDE DEF d
  <2>2. d.p.piping = c.p.piping /\ d.p.ready_end = c.p.ready_end
    BY <2>1 DEF DataEffect, IsReturn, IsCall, IsParser
  <2>3. IsReturn(d)
    BY <2>1 DEF DataEffect, Continues, SameLocals, IsReturn
  <2> QED
    BY <2>2, <2>3 DEF SameReady, d
<1> DEFINE v == Validate(c)
<1>4. SameReady(v, c)
  <2>1. ValidateEffect(v, c)
    BY ValidateStep DEF IsReturn
  <2> DEFINE h == Hook(c).p
  <2> HIDE DEF v
  <2>2. v.p = [h EXCEPT !.reading_opcode = FALSE] /\ v.denying = c.denying
    BY <2>1, ReturnHook DEF ValidateEffect, IsReturn
  <2>3. IsParser(c.p)
    BY DEF IsReturn, IsCall
  <2>4. IsParser(h) /\ h.piping = c.p.piping /\ h.ready_end = c.p.ready_end
    <3>1. \/ h = [c.p EXCEPT !.current_opcode = c.p.element_buffer,
                             !.current_arg = 0, !.marked = FALSE, !.timestamp = <<>>]
          \/ h = [c.p EXCEPT !.current_arg = @ + 1]
      BY ReturnHook
    <3> HIDE DEF h
    <3> QED
      BY <2>3, <3>1 DEF IsParser
  <2> HIDE DEF h
  <2>5. v.p.piping = c.p.piping /\ v.p.ready_end = c.p.ready_end
    BY <2>2, <2>4 DEF IsParser
  <2>6. IsReturn(v)
    BY <2>1, <2>2 DEF ValidateEffect, Continues, IsReturn
  <2> QED
    BY <2>5, <2>6 DEF SameReady
<1> HIDE DEF v
<1>5. ASSUME NEW x, IsReturn(x) PROVE SameReady(NextElement(x), x)
  <2>1. NextElementEffect(NextElement(x), x)
    BY <1>5, NextElementStep DEF IsReturn
  <2> QED
    BY <1>5, <2>1 DEF NextElementEffect, Continues, SameLocals, IsReturn, SameReady, IsCall, IsParser
<1>6. LET d == EndInstruction(v, i) IN SameReady(d, v) \/ NotedAt(d, v, i)
  <2> DEFINE d == EndInstruction(v, i)
             q == OnInstructionEnd(v.p, i)
  <2>1. EndEffect(d, v, i) /\ IsReturn(v)
    BY <1>4, EndStep DEF IsReturn, SameReady
  <2> HIDE DEF d
  <2>2. d.p = [q EXCEPT !.reading_opcode = TRUE] /\ IsReturn(d)
    BY <2>1 DEF EndEffect, IsReturn, Continues
  <2>3. \/ q = v.p
        \/ ~v.p.piping /\ q = [v.p EXCEPT !.piping = TRUE, !.ready_end = i]
    BY <2>1 DEF OnInstructionEnd, IsReturn
  <2>4. IsParser(v.p)
    BY <2>1 DEF IsReturn, IsCall
  <2>5. \/ q.piping = v.p.piping /\ q.ready_end = v.p.ready_end
        \/ ~v.p.piping /\ q.piping /\ q.ready_end = i
    BY <2>3, <2>4 DEF IsParser
  <2>6. IsParser(q)
    BY <2>3, <2>4 DEF IsParser
  <2> HIDE DEF q
  <2>7. d.p.piping = q.piping /\ d.p.ready_end = q.ready_end
    BY <2>2, <2>6 DEF IsParser
  <2> QED
    BY <2>2, <2>5, <2>7 DEF SameReady, NotedAt, d
<1>7. SameReady(NextElement(v), v)
  BY <1>4, <1>5 DEF SameReady
<1> DEFINE w == EndInstruction(v, i)
<1> HIDE DEF w
<1>8. SameReady(NextElement(w), w)
  BY <1>5, <1>6 DEF SameReady, NotedAt, w
<1>9. SameReady(c, c) /\ SameReady(Corrupt(c), c)
  BY <1>1 DEF SameReady
<1>10. ReadDelim(c, i, s) \in {Corrupt(c), v, NextElement(v), NextElement(w)}
  BY DEF ReadDelim, v, w
<1>11. SameReady(ReadDelim(c, i, s), c) \/ NotedAt(ReadDelim(c, i, s), c, i)
  <2>1. SameReady(NextElement(v), c)
    BY <1>4, <1>7 DEF SameReady
  <2>2. SameReady(NextElement(w), c) \/ NotedAt(NextElement(w), c, i)
    BY <1>4, <1>6, <1>8 DEF SameReady, NotedAt, w
  <2> QED
    BY <1>4, <1>9, <1>10, <2>1, <2>2
<1>12. ParseByte(c, i, s) \in {c, ReadLength(c, i, s[2]), Corrupt(c), ReadData(c, s),
                               ReadDelim(c, i, s)}
  BY DEF ParseByte, IsReturn, IsCall, IsParser
<1> QED
  BY <1>2, <1>3, <1>9, <1>11, <1>12

(* Two filters at different places of a stream agree but for the place of   *)
(* the ready.                                                               *)
SameButEnd(P, p) ==
    /\ P.class = p.class /\ P.state = p.state
    /\ P.current_length = p.current_length /\ P.current_read = p.current_read
    /\ P.reading_opcode = p.reading_opcode /\ P.element_buffer = p.element_buffer
    /\ P.current_opcode = p.current_opcode /\ P.current_arg = p.current_arg
    /\ P.clipboard_sidx = p.clipboard_sidx /\ P.marked = p.marked
    /\ P.timestamp = p.timestamp /\ P.out = p.out
    /\ P.piping = p.piping /\ P.hs_state = p.hs_state

Twins(C, c) == IsReturn(C) /\ IsReturn(c) /\ SameButEnd(C.p, c.p)

(* Assignments to several members.                                          *)
SetElement(p, n, r, b, v) == [p EXCEPT !.current_length = n, !.current_read = r,
                                       !.element_buffer = b, !.state = v]
SetData(p, r, b, v) == [p EXCEPT !.current_read = r, !.element_buffer = b, !.state = v]
SetNext(p, n, v) == [p EXCEPT !.current_length = n, !.state = v]
SetBegin(p, e) == [p EXCEPT !.current_opcode = e, !.current_arg = 0,
                               !.marked = FALSE, !.timestamp = <<>>]
SetReady(p, i) == [p EXCEPT !.piping = TRUE, !.ready_end = i]

(* The same members are set on both sides.                                  *)
LEMMA TwinUpdates ==
    ASSUME NEW P, NEW p, IsParser(P), IsParser(p), SameButEnd(P, p)
    PROVE  /\ \A v : SameButEnd(SetState(P, v), SetState(p, v))
           /\ \A v : SameButEnd(SetReading(P, v), SetReading(p, v))
           /\ \A v : SameButEnd(SetArg(P, v), SetArg(p, v))
           /\ \A n, r, b, v : SameButEnd(SetElement(P, n, r, b, v), SetElement(p, n, r, b, v))
           /\ \A r, b, v : SameButEnd(SetData(P, r, b, v), SetData(p, r, b, v))
           /\ \A n, v : SameButEnd(SetNext(P, n, v), SetNext(p, n, v))
           /\ \A e : SameButEnd(SetBegin(P, e), SetBegin(p, e))
           /\ \A i, k : SameButEnd(SetReady(P, k), SetReady(p, i))
<1>1. \A v : SameButEnd(SetState(P, v), SetState(p, v))
  BY DEF IsParser, SameButEnd, SetState
<1>2. \A v : SameButEnd(SetReading(P, v), SetReading(p, v))
  BY DEF IsParser, SameButEnd, SetReading
<1>3. \A v : SameButEnd(SetArg(P, v), SetArg(p, v))
  BY DEF IsParser, SameButEnd, SetArg
<1>4. \A n, r, b, v : SameButEnd(SetElement(P, n, r, b, v), SetElement(p, n, r, b, v))
  BY DEF IsParser, SameButEnd, SetElement
<1>5. \A r, b, v : SameButEnd(SetData(P, r, b, v), SetData(p, r, b, v))
  BY DEF IsParser, SameButEnd, SetData
<1>6. \A n, v : SameButEnd(SetNext(P, n, v), SetNext(p, n, v))
  BY DEF IsParser, SameButEnd, SetNext
<1>7. \A e : SameButEnd(SetBegin(P, e), SetBegin(p, e))
  BY DEF IsParser, SameButEnd, SetBegin
<1>8. \A i, k : SameButEnd(SetReady(P, k), SetReady(p, i))
  BY DEF IsParser, SameButEnd, SetReady
<1> QED
  BY <1>1, <1>2, <1>3, <1>4, <1>5, <1>6, <1>7, <1>8

(* One symbol, whatever its index on either side.                           *)
LEMMA TwinByte ==
    ASSUME NEW C, NEW c, NEW i, NEW k, NEW s, Twins(C, c)
    PROVE  SameButEnd(ParseByte(C, k, s).p, ParseByte(c, i, s).p)
<1>0. /\ IsReturn(C) /\ IsReturn(c) /\ SameButEnd(C.p, c.p)
      /\ IsCall(C) /\ IsCall(c) /\ IsParser(C.p) /\ IsParser(c.p)
  BY DEF Twins, IsReturn, IsCall
<1>1. SameButEnd(Corrupt(C).p, Corrupt(c).p)
  <2>1. /\ Corrupt(C).p = SetState(C.p, "STREAM_CORRUPTED")
        /\ Corrupt(c).p = SetState(c.p, "STREAM_CORRUPTED")
    BY <1>0, CorruptStep DEF SetState
  <2> QED
    BY <1>0, <2>1, TwinUpdates
<1>2. SameButEnd(ReadLength(C, k, s[2]).p, ReadLength(c, i, s[2]).p)
  <2> DEFINE D == ReadLength(C, k, s[2])
             d == ReadLength(c, i, s[2])
             n == s[2]
             v == IF n = 0 THEN "EXPECT_DELIM" ELSE "READING_DATA"
  <2>1. LengthEffect(D, C, k, n) /\ LengthEffect(d, c, i, n)
    BY <1>0, LengthStep
  <2>2. Oversized(C.p, n) <=> Oversized(c.p, n)
    BY <1>0 DEF Oversized, ToleratesOversizedElements, SameButEnd
  <2> HIDE DEF D, d, n
  <2>3. CASE Oversized(c.p, n)
    <3>1. D = Corrupt(C) /\ d = Corrupt(c)
      BY <2>1, <2>2, <2>3 DEF LengthEffect
    <3> QED
      BY <1>1, <3>1 DEF D, d
  <2>4. CASE ~Oversized(c.p, n)
    <3>1. D.p = SetElement(C.p, n, 0, <<>>, v) /\ d.p = SetElement(c.p, n, 0, <<>>, v)
      BY <2>1, <2>2, <2>4 DEF LengthEffect, SetElement
    <3> HIDE DEF v
    <3> QED
      BY <1>0, <3>1, TwinUpdates DEF D, d
  <2> QED
    BY <2>3, <2>4
<1>3. SameButEnd(ReadData(C, s).p, ReadData(c, s).p)
  <2> DEFINE D == ReadData(C, s)
             d == ReadData(c, s)
  <2>1. DataEffect(D, C, s) /\ DataEffect(d, c, s)
    BY <1>0, DataStep
  <2> HIDE DEF D, d
  <2>2. /\ C.p.current_read = c.p.current_read /\ C.p.current_length = c.p.current_length
        /\ C.p.element_buffer = c.p.element_buffer /\ C.p.state = c.p.state
    BY <1>0 DEF SameButEnd
  <2>3. CASE c.p.current_read < MAX_ELEMENT_SIZE /\ s = NonAscii
    <3>1. D.p = SetState(C.p, "STREAM_CORRUPTED") /\ d.p = SetState(c.p, "STREAM_CORRUPTED")
      BY <2>1, <2>2, <2>3 DEF DataEffect, SetState
    <3> QED
      BY <1>0, <3>1, TwinUpdates DEF D, d
  <2>4. CASE ~(c.p.current_read < MAX_ELEMENT_SIZE /\ s = NonAscii)
    <3> DEFINE r == c.p.current_read + 1
               b == IF c.p.current_read < MAX_ELEMENT_SIZE
                    THEN Append(c.p.element_buffer, s) ELSE c.p.element_buffer
               v == IF r = c.p.current_length THEN "EXPECT_DELIM" ELSE c.p.state
    <3>1. D.p = SetData(C.p, r, b, v)
      BY <2>1, <2>2, <2>4 DEF DataEffect, SetData
    <3>2. d.p = SetData(c.p, r, b, v)
      BY <2>1, <2>4 DEF DataEffect, SetData
    <3> HIDE DEF r, b, v
    <3> QED
      BY <1>0, <3>1, <3>2, TwinUpdates DEF D, d
  <2> QED
    BY <2>3, <2>4
<1> DEFINE V == Validate(C)
           v == Validate(c)
<1>4. Twins(V, v)
  <2>1. ValidateEffect(V, C) /\ ValidateEffect(v, c)
    BY <1>0, ValidateStep
  <2> DEFINE H == Hook(C).p
             h == Hook(c).p
  <2> HIDE DEF V, v
  <2>2. /\ V.p = SetReading(H, FALSE) /\ V.denying = C.denying
        /\ v.p = SetReading(h, FALSE) /\ v.denying = c.denying
    BY <1>0, <2>1, ReturnHook DEF ValidateEffect, IsReturn, SetReading
  <2>3. SameButEnd(H, h) /\ IsParser(H) /\ IsParser(h)
    <3>1. C.p.reading_opcode = c.p.reading_opcode /\ C.p.element_buffer = c.p.element_buffer
          /\ C.p.current_arg = c.p.current_arg
      BY <1>0 DEF SameButEnd
    <3> DEFINE e == c.p.element_buffer
               a == c.p.current_arg + 1
    <3>2. \/ H = SetBegin(C.p, e) /\ h = SetBegin(c.p, e)
          \/ H = SetArg(C.p, a) /\ h = SetArg(c.p, a)
      <4>1. CASE c.p.reading_opcode
        BY <1>0, <3>1, <4>1, ReturnHook DEF SetBegin
      <4>2. CASE ~c.p.reading_opcode
        BY <1>0, <3>1, <4>2, ReturnHook DEF SetArg
      <4> QED
        BY <4>1, <4>2
    <3> HIDE DEF e, a
    <3>3. SameButEnd(H, h)
      BY <1>0, <3>2, TwinUpdates
    <3>4. IsParser(H) /\ IsParser(h)
      BY <1>0, BeginHook, ArgumentHook DEF Hook
    <3> QED
      BY <3>3, <3>4
  <2> HIDE DEF H, h
  <2>4. SameButEnd(V.p, v.p)
    BY <2>2, <2>3, TwinUpdates
  <2>5. IsReturn(V) /\ IsReturn(v)
    BY <1>0, <2>1, <2>2 DEF ValidateEffect, Continues, IsReturn
  <2> QED
    BY <2>4, <2>5 DEF Twins
<1> HIDE DEF V, v
<1>5. ASSUME NEW X, NEW x, IsCall(X), IsCall(x), SameButEnd(X.p, x.p)
      PROVE  SameButEnd(NextElement(X).p, NextElement(x).p)
  <2>1. NextElementEffect(NextElement(X), X) /\ NextElementEffect(NextElement(x), x)
    BY <1>5, NextElementStep
  <2>2. IsParser(X.p) /\ IsParser(x.p)
    BY <1>5 DEF IsCall
  <2>3. /\ NextElement(X).p = SetNext(X.p, -1, "READING_LENGTH")
        /\ NextElement(x).p = SetNext(x.p, -1, "READING_LENGTH")
    BY <2>1 DEF NextElementEffect, SetNext
  <2> QED
    BY <1>5, <2>2, <2>3, TwinUpdates
<1>6. /\ IsCall(EndInstruction(V, k)) /\ IsCall(EndInstruction(v, i))
      /\ SameButEnd(EndInstruction(V, k).p, EndInstruction(v, i).p)
  <2> DEFINE D == EndInstruction(V, k)
             d == EndInstruction(v, i)
             Q == OnInstructionEnd(V.p, k)
             q == OnInstructionEnd(v.p, i)
  <2>1. EndEffect(D, V, k) /\ EndEffect(d, v, i) /\ IsReturn(V) /\ IsReturn(v)
        /\ IsParser(V.p) /\ IsParser(v.p) /\ SameButEnd(V.p, v.p)
    BY <1>4, EndStep DEF IsReturn, Twins, IsCall
  <2> HIDE DEF D, d
  <2>2. /\ D.p = SetReading(Q, TRUE) /\ IsCall(D) /\ d.p = SetReading(q, TRUE) /\ IsCall(d)
    BY <2>1 DEF EndEffect, IsReturn, Continues, SetReading
  <2>3. V.p.piping = v.p.piping /\ V.p.current_opcode = v.p.current_opcode
        /\ V.p.class = "return" /\ v.p.class = "return"
    BY <2>1 DEF SameButEnd, IsReturn
  <2>4. \/ Q = V.p /\ q = v.p
        \/ Q = SetReady(V.p, k) /\ q = SetReady(v.p, i)
    BY <2>3 DEF OnInstructionEnd, SetReady
  <2>5. IsParser(Q) /\ IsParser(q)
    BY <2>1, EndHook
  <2> HIDE DEF Q, q
  <2>6. SameButEnd(Q, q)
    BY <2>1, <2>4, TwinUpdates
  <2>7. SameButEnd(D.p, d.p)
    BY <2>2, <2>5, <2>6, TwinUpdates
  <2> QED
    BY <2>2, <2>7 DEF D, d
<1>7. SameButEnd(ReadDelim(C, k, s).p, ReadDelim(c, i, s).p)
  <2>1. V.p.state = v.p.state /\ SameButEnd(V.p, v.p) /\ IsCall(V) /\ IsCall(v)
    BY <1>4 DEF Twins, SameButEnd, IsReturn
  <2>2. \/ ReadDelim(C, k, s) = Corrupt(C) /\ ReadDelim(c, i, s) = Corrupt(c)
        \/ ReadDelim(C, k, s) = V /\ ReadDelim(c, i, s) = v
        \/ ReadDelim(C, k, s) = NextElement(V) /\ ReadDelim(c, i, s) = NextElement(v)
        \/ /\ ReadDelim(C, k, s) = NextElement(EndInstruction(V, k))
           /\ ReadDelim(c, i, s) = NextElement(EndInstruction(v, i))
    BY <2>1 DEF ReadDelim, V, v
  <2> QED
    BY <1>1, <1>5, <1>6, <2>1, <2>2
<1>8. c.p.state = C.p.state
      /\ c.p.state \in {"READING_LENGTH", "READING_DATA", "EXPECT_DELIM", "STREAM_CORRUPTED"}
  BY <1>0 DEF IsParser, SameButEnd
<1>9. \/ ParseByte(C, k, s) = C /\ ParseByte(c, i, s) = c
      \/ ParseByte(C, k, s) = Corrupt(C) /\ ParseByte(c, i, s) = Corrupt(c)
      \/ ParseByte(C, k, s) = ReadLength(C, k, s[2]) /\ ParseByte(c, i, s) = ReadLength(c, i, s[2])
      \/ ParseByte(C, k, s) = ReadData(C, s) /\ ParseByte(c, i, s) = ReadData(c, s)
      \/ ParseByte(C, k, s) = ReadDelim(C, k, s) /\ ParseByte(c, i, s) = ReadDelim(c, i, s)
  BY <1>8 DEF ParseByte
<1> QED
  BY <1>0, <1>1, <1>2, <1>3, <1>7, <1>9

(* The calls of a filter that waits for the ready: what they noted lies     *)
(* within what they read, and once noted stays noted.                       *)
Noted(c, i) == IsReturn(c) /\ (c.p.piping => c.p.ready_end \in 1..i)

LEMMA ReturnCalls ==
    ASSUME NEW p, NEW data, Len(data) \in Nat, IsParser(p), p.class = "return", ~p.piping,
           NEW i \in 0..Len(data)
    PROVE  Noted(Calls(p, data)[i], i)
<1> DEFINE f == Calls(p, data)
           T == {j \in Nat : j <= Len(data) => Noted(f[j], j)}
<1>1. 0 \in T
  <2>1. f[0] = Call(p) /\ IsCall(Call(p)) /\ Call(p).p = p
    BY CallsEquation, NewCall
  <2>2. ~Call(p).denying
    BY DEF Call
  <2> HIDE DEF f
  <2>3. Noted(f[0], 0)
    BY <2>1, <2>2 DEF Noted, IsReturn
  <2> QED
    BY <2>3
<1>2. ASSUME NEW j \in 1..Len(data), j - 1 \in T PROVE j \in T
  <2>1. Noted(f[j - 1], j - 1)
    BY <1>2
  <2>2. f[j] = ParseByte(f[j - 1], j, data[j])
    BY CallsEquation
  <2> HIDE DEF f
  <2>3. SameReady(f[j], f[j - 1]) \/ NotedAt(f[j], f[j - 1], j)
    BY <2>1, <2>2, ReturnByte DEF Noted
  <2>4. Noted(f[j], j)
    BY <2>1, <2>3 DEF Noted, SameReady, NotedAt
  <2> QED
    BY <2>4
<1>3. 0..Len(data) \subseteq T
  <2> HIDE DEF f
  <2>1. T \in SUBSET Nat
    OBVIOUS
  <2> HIDE DEF T
  <2> QED
    BY <1>1, <1>2, <2>1, CountingUp
<1> QED
  BY <1>3

LEMMA NotedStays ==
    ASSUME NEW p, NEW data, Len(data) \in Nat, IsParser(p), p.class = "return", ~p.piping,
           NEW i \in 0..Len(data), Calls(p, data)[i].p.piping
    PROVE  LET last == Calls(p, data)[Len(data)].p IN
           last.piping /\ last.ready_end = Calls(p, data)[i].p.ready_end
<1> DEFINE f == Calls(p, data)
           Stays(j) == f[j].p.piping /\ f[j].p.ready_end = f[i].p.ready_end
           T == {j \in Nat : i + j <= Len(data) => Stays(i + j)}
<1>1. 0 \in T
  <2>1. i + 0 = i
    OBVIOUS
  <2> HIDE DEF f
  <2> QED
    BY <2>1 DEF f
<1>2. ASSUME NEW j \in 1..(Len(data) - i), j - 1 \in T PROVE j \in T
  <2> DEFINE k == i + j
  <2>1. k \in 1..Len(data) /\ k - 1 \in 0..Len(data) /\ i + (j - 1) = k - 1 /\ k \in Nat
    OBVIOUS
  <2>2. Stays(k - 1)
    BY <1>2, <2>1
  <2> HIDE DEF k
  <2>3. f[k] = ParseByte(f[k - 1], k, data[k]) /\ IsReturn(f[k - 1])
    BY <2>1, CallsEquation, ReturnCalls DEF Noted
  <2> HIDE DEF f
  <2>4. SameReady(f[k], f[k - 1])
    BY <2>2, <2>3, ReturnByte DEF NotedAt
  <2>5. Stays(k)
    BY <2>2, <2>4 DEF SameReady
  <2> QED
    BY <2>5 DEF k
<1>3. 0..(Len(data) - i) \subseteq T
  <2> HIDE DEF f
  <2>1. T \in SUBSET Nat /\ Len(data) - i \in Nat
    OBVIOUS
  <2> HIDE DEF T
  <2> QED
    BY <1>1, <1>2, <2>1, CountingUp
<1>4. Len(data) - i \in 0..(Len(data) - i) /\ i + (Len(data) - i) = Len(data)
  OBVIOUS
<1> HIDE DEF f
<1>5. Len(data) - i \in T
  BY <1>3, <1>4
<1>6. Stays(i + (Len(data) - i))
  <2> HIDE DEF Stays
  <2> QED
    BY <1>4, <1>5
<1>7. Stays(Len(data))
  BY <1>4, <1>6
<1> QED
  BY <1>7 DEF f

(* A filter that waits, asked for what it parsed.                           *)
LEMMA ReturnParse ==
    ASSUME NEW p, NEW data, Len(data) \in Nat, IsParser(p), p.class = "return", ~p.piping
    PROVE  LET p0 == [p EXCEPT !.ready_end = 0]
               q == Calls(p0, data)[Len(data)].p
           IN  /\ IsParser(p0) /\ p0.class = "return" /\ ~p0.piping
               /\ FeedReturn(p, data).p = q
               /\ FeedReturn(p, data).data = IF q.piping THEN SubSeq(data, q.ready_end + 1, Len(data))
                                             ELSE <<>>
<1> DEFINE p0 == [p EXCEPT !.ready_end = 0]
           c == Calls(p0, data)[Len(data)]
<1>1. IsParser(p0) /\ p0.class = "return" /\ ~p0.piping
  BY DEF IsParser
<1> HIDE DEF p0
<1>2. ~c.denying
  BY <1>1, ReturnCalls DEF Noted, IsReturn
<1>3. Parse(p0, data) = c
  BY <1>2 DEF Parse, EndOfCall
<1> HIDE DEF c
<1>4. /\ FeedReturn(p, data).p = c.p
      /\ FeedReturn(p, data).data = IF c.p.piping THEN SubSeq(data, c.p.ready_end + 1, Len(data))
                                    ELSE <<>>
  BY <1>3 DEF FeedReturn, p0
<1> QED
  BY <1>1, <1>4 DEF c, p0

(* The parts of two sequences in a row.                                     *)
LEMMA JoinedParts ==
    ASSUME NEW S, NEW a \in Seq(S), NEW b \in Seq(S), NEW m \in Nat
    PROVE  /\ m <= Len(a) => SubSeq(a \o b, m + 1, Len(a)) = SubSeq(a, m + 1, Len(a))
           /\ m <= Len(b) => SubSeq(a \o b, (Len(a) + m) + 1, Len(a) + Len(b))
                             = SubSeq(b, m + 1, Len(b))
           /\ SubSeq(a \o b, Len(a) + 1, Len(a) + Len(b)) = b
<1> DEFINE ab == a \o b
           la == Len(a)
           lb == Len(b)
<1>1. /\ la \in Nat /\ lb \in Nat /\ ab \in Seq(S) /\ Len(ab) = la + lb
      /\ \A j \in 1..lb : ab[la + j] = b[j]
      /\ \A j \in 1..la : ab[j] = a[j]
  OBVIOUS
<1> HIDE DEF ab, la, lb
<1>2. ASSUME m <= la PROVE SubSeq(ab, m + 1, la) = SubSeq(a, m + 1, la)
  <2> DEFINE x == SubSeq(ab, m + 1, la)
             y == SubSeq(a, m + 1, la)
  <2>1. x \in Seq(S) /\ Len(x) = la - m /\ \A j \in 1..(la - m) : x[j] = ab[m + j]
    <3>1. \A j \in 1..(la - m) : (m + 1) + j - 1 = m + j
      BY <1>1, <1>2
    <3> QED
      BY <1>1, <1>2, <3>1, SubSeqProperties
  <2>2. y \in Seq(S) /\ Len(y) = la - m /\ \A j \in 1..(la - m) : y[j] = a[m + j]
    <3>1. \A j \in 1..(la - m) : (m + 1) + j - 1 = m + j
      BY <1>1, <1>2
    <3> QED
      BY <1>1, <1>2, <3>1, SubSeqProperties DEF la
  <2> HIDE DEF x, y
  <2>3. \A j \in 1..(la - m) : m + j \in 1..la
    BY <1>1, <1>2
  <2>4. \A j \in 1..Len(x) : x[j] = y[j]
    BY <1>1, <2>1, <2>2, <2>3
  <2>5. x = y
    BY <2>1, <2>2, <2>4, SeqEqual
  <2> QED
    BY <2>5 DEF x, y
<1>3. ASSUME m <= lb PROVE SubSeq(ab, (la + m) + 1, la + lb) = SubSeq(b, m + 1, lb)
  <2> DEFINE x == SubSeq(ab, (la + m) + 1, la + lb)
             y == SubSeq(b, m + 1, lb)
  <2>1. x \in Seq(S) /\ Len(x) = lb - m /\ \A j \in 1..(lb - m) : x[j] = ab[la + (m + j)]
    <3>1. \A j \in 1..(lb - m) : ((la + m) + 1) + j - 1 = la + (m + j)
      BY <1>1, <1>3
    <3>2. (la + lb) - ((la + m) + 1) + 1 = lb - m /\ la + m \in Nat
      BY <1>1
    <3> QED
      BY <1>1, <1>3, <3>1, <3>2, SubSeqProperties
  <2>2. y \in Seq(S) /\ Len(y) = lb - m /\ \A j \in 1..(lb - m) : y[j] = b[m + j]
    <3>1. \A j \in 1..(lb - m) : (m + 1) + j - 1 = m + j
      BY <1>1, <1>3
    <3> QED
      BY <1>1, <1>3, <3>1, SubSeqProperties DEF lb
  <2> HIDE DEF x, y
  <2>3. \A j \in 1..(lb - m) : m + j \in 1..lb
    BY <1>1, <1>3
  <2>4. \A j \in 1..Len(x) : x[j] = y[j]
    BY <1>1, <2>1, <2>2, <2>3
  <2>5. x = y
    BY <2>1, <2>2, <2>4, SeqEqual
  <2> QED
    BY <2>5 DEF x, y
<1>4. SubSeq(ab, la + 1, la + lb) = b
  <2> DEFINE x == SubSeq(ab, la + 1, la + lb)
  <2>1. x \in Seq(S) /\ Len(x) = lb /\ \A j \in 1..lb : x[j] = ab[la + j]
    <3>1. \A j \in 1..lb : (la + 1) + j - 1 = la + j
      BY <1>1
    <3>2. (la + lb) - (la + 1) + 1 = lb
      BY <1>1
    <3> QED
      BY <1>1, <3>1, <3>2, SubSeqProperties
  <2> HIDE DEF x
  <2>2. \A j \in 1..Len(x) : x[j] = b[j]
    BY <1>1, <2>1
  <2>3. x = b
    BY <2>1, <2>2, SeqEqual DEF lb
  <2> QED
    BY <2>3 DEF x
<1> QED
  BY <1>2, <1>3, <1>4 DEF ab, la, lb

(***************************************************************************)
(* Where guacd's stream is cut into reads does not matter to the return    *)
(* filter: fed in two reads, it releases what it would have released of    *)
(* both in one, and it is open after the one exactly if after the other.   *)
(* (ReturnFilter::Feed keeps the place of the ready as an index into the   *)
(* read at hand, which each call sets back.)                               *)
(***************************************************************************)
THEOREM ReturnCuts ==
    ASSUME NEW S, NEW a \in Seq(S), NEW b \in Seq(S), NEW p, IsParser(p), p.class = "return"
    PROVE  LET one == FeedReturn(p, a \o b)
               first == FeedReturn(p, a)
               second == FeedReturn(first.p, b)
           IN  /\ one.data = first.data \o second.data
               /\ one.p.piping <=> second.p.piping
               /\ ~one.p.piping => SameButEnd(one.p, second.p)
<1> DEFINE la == Len(a)
           lb == Len(b)
           ab == a \o b
           one == FeedReturn(p, ab)
           first == FeedReturn(p, a)
           second == FeedReturn(first.p, b)
           Same == /\ one.data = first.data \o second.data
                   /\ one.p.piping <=> second.p.piping
                   /\ ~one.p.piping => SameButEnd(one.p, second.p)
<1>1. /\ la \in Nat /\ lb \in Nat /\ ab \in Seq(S) /\ Len(ab) = la + lb
      /\ \A j \in 1..lb : ab[la + j] = b[j]
      /\ \A j \in 1..la : ab[j] = a[j]
  OBVIOUS
<1>2. ASSUME p.piping PROVE Same
  BY <1>2 DEF FeedReturn
<1>3. ASSUME ~p.piping PROVE Same
  <2> DEFINE p0 == [p EXCEPT !.ready_end = 0]
             F == Calls(p0, ab)
             q == F[la].p
             z == F[la + lb].p
  <2>1. /\ IsParser(p0) /\ p0.class = "return" /\ ~p0.piping
        /\ one.p = z /\ one.data = IF z.piping THEN SubSeq(ab, z.ready_end + 1, la + lb) ELSE <<>>
    <3> HIDE DEF ab
    <3>1. Len(ab) \in Nat /\ Len(ab) = la + lb
      BY <1>1
    <3>2. /\ IsParser(p0) /\ p0.class = "return" /\ ~p0.piping
          /\ FeedReturn(p, ab).p = F[Len(ab)].p
          /\ FeedReturn(p, ab).data = IF F[Len(ab)].p.piping
                                      THEN SubSeq(ab, F[Len(ab)].p.ready_end + 1, Len(ab)) ELSE <<>>
      BY <1>3, <3>1, ReturnParse
    <3> HIDE DEF F, p0
    <3> QED
      BY <3>1, <3>2
  <2>2. F[la] = Calls(p0, a)[la]
    <3> HIDE DEF p0
    <3> QED
      BY <1>1, CallsPrefix
  <2>3. /\ first.p = q
        /\ first.data = IF q.piping THEN SubSeq(a, q.ready_end + 1, la) ELSE <<>>
    BY <1>1, <1>3, <2>2, ReturnParse
  <2>4. /\ \A j \in 0..(la + lb) : Noted(F[j], j)
        /\ \A j \in 1..(la + lb) : F[j] = ParseByte(F[j - 1], j, ab[j])
    <3> HIDE DEF p0, ab
    <3>1. \A j \in 0..Len(ab) : Noted(F[j], j)
      <4>1. Len(ab) \in Nat
        BY <1>1
      <4> QED
        BY <2>1, <4>1, ReturnCalls
    <3>2. \A j \in 1..Len(ab) : F[j] = ParseByte(F[j - 1], j, ab[j])
      <4>1. Len(ab) \in Nat
        BY <1>1
      <4> QED
        BY <4>1, CallsEquation
    <3> HIDE DEF F
    <3> QED
      BY <1>1, <3>1, <3>2
  <2>5. q.piping => z.piping /\ z.ready_end = q.ready_end
    <3> HIDE DEF p0, ab
    <3>1. Len(ab) \in Nat /\ Len(ab) = la + lb /\ la \in 0..Len(ab)
      BY <1>1
    <3>2. F[la].p.piping => F[Len(ab)].p.piping /\ F[Len(ab)].p.ready_end = F[la].p.ready_end
      BY <2>1, <3>1, NotedStays
    <3> HIDE DEF F
    <3> QED
      BY <3>1, <3>2
  <2> HIDE DEF one, first, F, p0, ab
  <2>6. IsReturn(F[la]) /\ (q.piping => q.ready_end \in 1..la)
    BY <1>1, <2>4 DEF Noted
  <2>7. CASE q.piping
    <3>1. second.p = q /\ second.data = b
      BY <2>3, <2>7 DEF FeedReturn
    <3> DEFINE r == q.ready_end
    <3>2. r \in 1..la /\ one.data = SubSeq(ab, r + 1, la + lb) /\ first.data = SubSeq(a, r + 1, la)
      BY <2>1, <2>3, <2>5, <2>6, <2>7
    <3> HIDE DEF r
    <3>3. SubSeq(ab, r + 1, la + lb) = SubSeq(ab, r + 1, la) \o SubSeq(ab, la + 1, la + lb)
      <4> DEFINE k == la + lb
                 w == la
      <4>1. /\ r \in Nat /\ k \in Nat /\ w \in Nat /\ r <= w /\ w <= k /\ k <= Len(ab)
            /\ ab \in Seq(S)
        BY <1>1, <3>2
      <4> HIDE DEF k, w
      <4>2. SubSeq(ab, r + 1, k) = SubSeq(ab, r + 1, w) \o SubSeq(ab, w + 1, k)
        BY <4>1, ReadsJoin
      <4> QED
        BY <4>2 DEF k, w
    <3>4. SubSeq(ab, r + 1, la) = SubSeq(a, r + 1, la) /\ SubSeq(ab, la + 1, la + lb) = b
      <4>1. r \in Nat /\ r <= la
        BY <1>1, <3>2
      <4> QED
        BY <1>1, <4>1, JoinedParts DEF ab
    <3>5. one.data = first.data \o second.data
      BY <3>1, <3>2, <3>3, <3>4
    <3>6. one.p.piping /\ second.p.piping
      <4>1. z.piping /\ one.p = z
        BY <2>1, <2>5, <2>7
      <4> HIDE DEF z, q
      <4> QED
        BY <2>7, <3>1, <4>1
    <3> QED
      BY <3>5, <3>6
  <2>8. CASE ~q.piping
    <3> DEFINE q0 == [q EXCEPT !.ready_end = 0]
               G == Calls(q0, b)
               y == G[lb].p
               Pair(j) == /\ Twins(F[la + j], G[j])
                          /\ G[j].p.piping => F[la + j].p.ready_end = la + G[j].p.ready_end
               T == {j \in Nat : j <= lb => Pair(j)}
    <3>1. IsParser(q) /\ q.class = "return"
      BY <2>6 DEF IsReturn, IsCall
    <3>2. /\ IsParser(q0) /\ q0.class = "return" /\ ~q0.piping
          /\ second.p = y
          /\ second.data = IF y.piping THEN SubSeq(b, y.ready_end + 1, lb) ELSE <<>>
      <4>1. /\ IsParser([q EXCEPT !.ready_end = 0])
            /\ [q EXCEPT !.ready_end = 0].class = "return"
            /\ ~[q EXCEPT !.ready_end = 0].piping
            /\ FeedReturn(q, b).p = Calls([q EXCEPT !.ready_end = 0], b)[Len(b)].p
            /\ FeedReturn(q, b).data
                = IF Calls([q EXCEPT !.ready_end = 0], b)[Len(b)].p.piping
                  THEN SubSeq(b, Calls([q EXCEPT !.ready_end = 0], b)[Len(b)].p.ready_end + 1, Len(b))
                  ELSE <<>>
        <5> HIDE DEF q
        <5> QED
          BY <1>1, <2>8, <3>1, ReturnParse
      <4> HIDE DEF q
      <4> QED
        BY <2>3, <4>1
    <3>3. SameButEnd(q, q0)
      BY <3>1 DEF IsParser, SameButEnd
    <3> HIDE DEF q0, q, second
    <3>4. G[0] = Call(q0) /\ Call(q0).p = q0 /\ \A j \in 0..lb : Noted(G[j], j)
      BY <1>1, <3>2, CallsEquation, NewCall, ReturnCalls
    <3>5. \A j \in 1..lb : G[j] = ParseByte(G[j - 1], j, b[j])
      BY <1>1, CallsEquation
    <3> HIDE DEF G
    <3>6. 0 \in T
      <4>1. la + 0 = la /\ IsReturn(G[0]) /\ G[0].p = q0
        BY <1>1, <3>4 DEF Noted
      <4>2. Pair(0)
        BY <2>6, <3>2, <3>3, <4>1 DEF Twins, q
      <4> HIDE DEF Pair
      <4> QED
        BY <4>2
    <3>7. ASSUME NEW j \in 1..lb, j - 1 \in T PROVE j \in T
      <4> DEFINE C == F[la + (j - 1)]
                 c == G[j - 1]
                 D == F[la + j]
                 d == G[j]
                 k == la + j
      <4>1. Pair(j - 1)
        <5> HIDE DEF Pair
        <5> QED
          BY <1>1, <3>7
      <4>2. /\ k \in 1..(la + lb) /\ la + (j - 1) = k - 1 /\ ab[k] = b[j]
            /\ k \in 0..(la + lb) /\ j \in 0..lb /\ k = la + j
        BY <1>1
      <4>3. D = ParseByte(C, k, b[j]) /\ d = ParseByte(c, j, b[j]) /\ IsReturn(D) /\ IsReturn(d)
        BY <2>4, <3>4, <3>5, <4>2 DEF Noted
      <4>4. Twins(C, c) /\ (c.p.piping => C.p.ready_end = la + c.p.ready_end)
        BY <4>1
      <4> HIDE DEF C, c, D, d, k
      <4>5. SameButEnd(D.p, d.p)
        BY <4>3, <4>4, TwinByte
      <4>6. /\ SameReady(D, C) \/ NotedAt(D, C, k)
            /\ SameReady(d, c) \/ NotedAt(d, c, j)
        BY <4>3, <4>4, ReturnByte DEF Twins
      <4>7. D.p.piping = d.p.piping /\ C.p.piping = c.p.piping
        BY <4>4, <4>5 DEF Twins, SameButEnd
      <4>8. d.p.piping => D.p.ready_end = la + d.p.ready_end
        <5>1. CASE c.p.piping
          BY <4>4, <4>6, <4>7, <5>1 DEF SameReady, NotedAt
        <5>2. CASE ~c.p.piping
          BY <4>2, <4>6, <4>7, <5>2 DEF SameReady, NotedAt
        <5> QED
          BY <5>1, <5>2
      <4>9. Pair(j)
        BY <4>3, <4>5, <4>8 DEF Twins, D, d
      <4> HIDE DEF Pair
      <4> QED
        BY <4>9
    <3>8. Pair(lb)
      <4> HIDE DEF Pair
      <4>1. T \in SUBSET Nat
        OBVIOUS
      <4>2. lb \in T
        <5> HIDE DEF T
        <5>1. 0..lb \subseteq T
          BY <1>1, <3>6, <3>7, <4>1, CountingUp
        <5> QED
          BY <1>1, <5>1
      <4> QED
        BY <1>1, <4>2
    <3>9. SameButEnd(z, y) /\ z.piping = y.piping
          /\ (y.piping => z.ready_end = la + y.ready_end /\ y.ready_end \in 1..lb)
      BY <1>1, <3>4, <3>8 DEF Twins, SameButEnd, Noted
    <3> HIDE DEF z, y
    <3>10. y.piping => SubSeq(ab, z.ready_end + 1, la + lb) = SubSeq(b, y.ready_end + 1, lb)
      <4>1. y.piping => y.ready_end \in Nat /\ y.ready_end <= lb
        BY <1>1, <3>9
      <4> SUFFICES ASSUME y.piping
                   PROVE  SubSeq(ab, z.ready_end + 1, la + lb) = SubSeq(b, y.ready_end + 1, lb)
        OBVIOUS
      <4> DEFINE m == y.ready_end
      <4>2. m \in Nat /\ m <= lb /\ z.ready_end = la + m
        BY <3>9, <4>1
      <4> HIDE DEF m
      <4>3. SubSeq(a \o b, (Len(a) + m) + 1, Len(a) + Len(b)) = SubSeq(b, m + 1, Len(b))
        BY <4>2, JoinedParts
      <4> QED
        BY <4>2, <4>3 DEF ab, m
    <3>11. first.data = <<>> /\ second.data \in Seq(S) /\ one.data = second.data
      <4>1. first.data = <<>>
        BY <2>3, <2>8 DEF q
      <4>2. CASE y.piping
        <5>1. /\ one.data = SubSeq(ab, z.ready_end + 1, la + lb)
              /\ second.data = SubSeq(b, y.ready_end + 1, lb)
          BY <2>1, <3>2, <3>9, <4>2
        <5>2. y.ready_end \in Nat
          BY <3>9, <4>2
        <5>3. SubSeq(b, y.ready_end + 1, lb) \in Seq(S)
          BY <1>1, <5>2
        <5> QED
          BY <3>10, <4>1, <4>2, <5>1, <5>3
      <4>3. CASE ~y.piping
        BY <2>1, <3>2, <3>9, <4>1, <4>3
      <4> QED
        BY <4>2, <4>3
    <3> QED
      BY <2>1, <3>2, <3>9, <3>11
  <2> QED
    BY <2>7, <2>8
<1> QED
  BY <1>2, <1>3

(* A return filter p has been fed the stream a, cut in some way or other,   *)
(* and has let through what is shown.                                       *)
Fed(p, shown, a) ==
    LET x == FeedReturn(New("return"), a) IN
    /\ IsParser(p) /\ p.class = "return"
    /\ shown = x.data
    /\ p.piping <=> x.p.piping
    /\ ~x.p.piping => SameButEnd(p, x.p)

LEMMA NewReturn ==
    LET p == New("return") IN IsParser(p) /\ p.class = "return" /\ ~p.piping /\ p.ready_end = 0
  BY DEF New, Base, IsParser

(* Nothing comes of nothing.                                                *)
LEMMA FeedNothing ==
    ASSUME NEW p, IsParser(p), p.class = "return"
    PROVE  LET r == FeedReturn(p, <<>>) IN
           /\ r.data = <<>> /\ (r.p.piping <=> p.piping) /\ SameButEnd(r.p, p)
<1> DEFINE r == FeedReturn(p, <<>>)
           p0 == [p EXCEPT !.ready_end = 0]
<1>1. CASE p.piping
  <2>1. r = [p |-> p, data |-> <<>>]
    BY <1>1 DEF FeedReturn
  <2> QED
    BY <2>1 DEF SameButEnd
<1>2. CASE ~p.piping
  <2>1. Len(<<>>) = 0 /\ Len(<<>>) \in Nat
    OBVIOUS
  <2>2. /\ IsParser(p0) /\ ~p0.piping /\ r.p = Calls(p0, <<>>)[0].p
        /\ r.data = IF Calls(p0, <<>>)[0].p.piping
                    THEN SubSeq(<<>>, Calls(p0, <<>>)[0].p.ready_end + 1, 0) ELSE <<>>
    BY <1>2, <2>1, ReturnParse
  <2>3. SameButEnd(p0, p)
    BY DEF IsParser, SameButEnd
  <2> HIDE DEF p0
  <2>4. Calls(p0, <<>>)[0].p = p0
    BY <2>1, <2>2, CallsEquation, NewCall
  <2> HIDE DEF r
  <2>5. r.p = p0 /\ r.data = <<>>
    BY <2>2, <2>4
  <2> QED
    BY <1>2, <2>2, <2>3, <2>5 DEF r
<1> QED
  BY <1>1, <1>2

LEMMA FedNothing == Fed(New("return"), <<>>, <<>>)
<1> DEFINE p == New("return")
           x == FeedReturn(p, <<>>)
<1>1. IsParser(p) /\ p.class = "return"
  BY NewReturn
<1>2. x.data = <<>> /\ (x.p.piping <=> p.piping) /\ SameButEnd(x.p, p)
  BY <1>1, FeedNothing
<1> HIDE DEF p, x
<1>3. SameButEnd(p, x.p)
  BY <1>2 DEF SameButEnd
<1> QED
  BY <1>1, <1>2, <1>3 DEF Fed, p, x

(* A filter stays one.                                                      *)
LEMMA FilterStays ==
    ASSUME NEW p, NEW data, Len(data) \in Nat, IsParser(p), p.class = "return"
    PROVE  IsParser(FeedReturn(p, data).p) /\ FeedReturn(p, data).p.class = "return"
<1> DEFINE q == FeedReturn(p, data).p
           p0 == [p EXCEPT !.ready_end = 0]
<1>1. CASE p.piping
  <2>1. q = p
    BY <1>1 DEF FeedReturn
  <2> QED
    BY <2>1
<1>2. CASE ~p.piping
  <2>1. IsParser(p0) /\ p0.class = "return" /\ ~p0.piping /\ q = Calls(p0, data)[Len(data)].p
    BY <1>2, ReturnParse
  <2> HIDE DEF p0, q
  <2>2. IsReturn(Calls(p0, data)[Len(data)])
    BY <2>1, ReturnCalls DEF Noted
  <2>3. IsParser(q) /\ q.class = "return"
    BY <2>1, <2>2 DEF IsReturn, IsCall
  <2> QED
    BY <2>3 DEF q
<1> QED
  BY <1>1, <1>2

(* Another read.                                                            *)
LEMMA FedMore ==
    ASSUME NEW S, NEW a \in Seq(S), NEW b \in Seq(S), NEW p, NEW shown, Fed(p, shown, a)
    PROVE  LET r == FeedReturn(p, b) IN Fed(r.p, shown \o r.data, a \o b)
<1> DEFINE new == New("return")
           first == FeedReturn(new, a)
           second == FeedReturn(first.p, b)
           one == FeedReturn(new, a \o b)
           r == FeedReturn(p, b)
<1>1. IsParser(new) /\ new.class = "return"
  BY NewReturn
<1>2. Len(a) \in Nat /\ Len(b) \in Nat
  OBVIOUS
<1> HIDE DEF new
<1>3. /\ one.data = first.data \o second.data /\ (one.p.piping <=> second.p.piping)
      /\ ~one.p.piping => SameButEnd(one.p, second.p)
  BY <1>1, ReturnCuts
<1>4. IsParser(first.p) /\ first.p.class = "return"
  BY <1>1, <1>2, FilterStays
<1>5. /\ IsParser(p) /\ p.class = "return" /\ shown = first.data
      /\ p.piping <=> first.p.piping
      /\ ~first.p.piping => SameButEnd(p, first.p)
  BY DEF Fed, new
<1>6. IsParser(r.p) /\ r.p.class = "return"
  BY <1>2, <1>5, FilterStays
<1> HIDE DEF first, one
<1>7. CASE p.piping
  <2>1. r = [p |-> p, data |-> b]
    BY <1>7 DEF FeedReturn
  <2>2. second = [p |-> first.p, data |-> b]
    BY <1>5, <1>7 DEF FeedReturn
  <2>3. r.data = second.data /\ r.p.piping /\ one.p.piping
    BY <1>3, <1>5, <1>7, <2>1, <2>2
  <2> HIDE DEF r, second
  <2> QED
    BY <1>3, <1>5, <1>6, <2>3 DEF Fed, r, one, new
<1>8. CASE ~p.piping
  <2> DEFINE p0 == [p EXCEPT !.ready_end = 0]
             f0 == [first.p EXCEPT !.ready_end = 0]
  <2>1. p0 = f0
    <3>1. IsParser(p0) /\ IsParser(f0)
      BY <1>4, <1>5 DEF IsParser
    <3>2. SameButEnd(p0, f0) /\ p0.ready_end = 0 /\ f0.ready_end = 0
      BY <1>4, <1>5, <1>8 DEF IsParser, SameButEnd
    <3> HIDE DEF p0, f0
    <3>3. \A x \in DOMAIN p0 : p0[x] = f0[x]
      BY <3>1, <3>2 DEF IsParser, SameButEnd
    <3> QED
      BY <3>1, <3>3 DEF IsParser
  <2>2. r = second
    BY <1>5, <1>8, <2>1 DEF FeedReturn
  <2> HIDE DEF r, second
  <2>3. ~one.p.piping => SameButEnd(r.p, one.p)
    BY <1>3, <2>2 DEF SameButEnd
  <2> QED
    BY <1>3, <1>5, <1>6, <2>2, <2>3 DEF Fed, r, one, new
<1> QED
  BY <1>7, <1>8

(***************************************************************************)
(* The inductive invariant: the return filter was fed all that was read of *)
(* guacd, and the approval, which replaces it, comes before the first of   *)
(* that: until the handshake is forwarded guacd is silent.                 *)
(***************************************************************************)
DrawingInv ==
    /\ RepliesInv
    /\ mayLose \in Int
    /\ IsParser(return_filter) /\ return_filter.class = "return"
    /\ ~approved => guacdReceived = 0 /\ guard.forwarded = <<>> /\ toBrowser = <<>>
    /\ (faked = <<>> /\ "guacdLost" \notin met)
           => Fed(return_filter, toBrowser, SubSeq(output, 1, guacdReceived))

LEMMA DrawingInvInit == Init => DrawingInv
<1> SUFFICES ASSUME Init PROVE DrawingInv
  OBVIOUS
<1>1. RepliesInv
  BY RepliesInvInit
<1>2. mayLose \in Int
  BY ScenarioAssumption DEF Init
<1>3. /\ return_filter = New("return") /\ toBrowser = <<>> /\ guacdReceived = 0
      /\ guard = [parser |-> New("guard"), poisoned |-> FALSE, forwarded |-> <<>>]
  BY DEF Init
<1>4. guard.forwarded = <<>>
  BY <1>3
<1>5. SubSeq(output, 1, 0) = <<>>
  BY <1>1 DEF RepliesInv
<1>6. Fed(return_filter, toBrowser, SubSeq(output, 1, guacdReceived))
  BY <1>3, <1>5, FedNothing
<1> QED
  BY <1>1, <1>2, <1>3, <1>4, <1>6, NewReturn DEF DrawingInv

(* The bound stays a number.                                                *)
LEMMA SendBound ==
    ASSUME NEW ds \in Seq(Traffic), Send(ds), mayLose \in Int
    PROVE  mayLose' \in Int
<1>1. PICK lost \in SUBSET DOMAIN ds : mayLose' = mayLose - Cardinality(lost)
  BY DEF Send
<1>2. Len(ds) \in Nat /\ DOMAIN ds = 1..Len(ds)
  OBVIOUS
<1>3. IsFiniteSet(1..Len(ds))
  <2>1. 1 \in Int /\ Len(ds) \in Int
    BY <1>2
  <2> QED
    BY <2>1, FS_Interval
<1>4. IsFiniteSet(lost)
  BY <1>2, <1>3, FS_Subset
<1>5. Cardinality(lost) \in Nat
  BY <1>4, FS_CardinalityType
<1> QED
  BY <1>1, <1>5

(* guacd is silent as long as nothing is forwarded.                         *)
LEMMA SilentAtFirst ==
    guard.forwarded = <<>> => \A q : ~Answered(q)
<1> SUFFICES ASSUME guard.forwarded = <<>>, NEW q PROVE ~Answered(q)
  OBVIOUS
<1>1. Ends(<<>>) = {}
  <2>1. {i \in DOMAIN <<>> : (<<>>)[i] = Semicolon} = {}
    OBVIOUS
  <2> QED
    BY <2>1 DEF Ends
<1>2. DOMAIN Decode(<<>>) = {}
  BY <1>1 DEF Decode
<1>3. Range(Decode(<<>>)) = {}
  BY <1>2 DEF Range
<1> QED
  BY <1>3 DEF Answered, GuacdHas

(* No acks, no bytes.                                                       *)
LEMMA NoAckBytes == AckBytes(<<>>) = <<>>
<1> DEFINE none == [i \in DOMAIN <<>> |-> <<<<Byte("ack")>>, <<Byte((<<>>)[i])>>>>]
           flat == [i \in DOMAIN none |-> instr(none[i])]
<1>1. DOMAIN none = {} /\ DOMAIN flat = {}
  OBVIOUS
<1>2. flat = <<>>
  BY <1>1
<1>3. Len(<<>>) = 0
  OBVIOUS
<1>4. FlattenSeq(<<>>) = <<>>
  BY <1>3 DEF FlattenSeq
<1> QED
  BY <1>2, <1>4 DEF AckBytes, Flatten

(* Acks are a sequence of bytes.                                            *)
LEMMA AckBytesAreBytes ==
    ASSUME NEW acks, IsSequence(acks)
    PROVE  Len(AckBytes(acks)) \in Nat
<1>1. PICK S : acks \in Seq(S)
  BY DEF IsSequence
<1> DEFINE V == S \cup {"ack"}
           prog == [i \in DOMAIN acks |-> <<<<Byte("ack")>>, <<Byte(acks[i])>>>>]
<1>2. Len(acks) \in Nat /\ DOMAIN acks = 1..Len(acks) /\ \A i \in 1..Len(acks) : acks[i] \in V
  BY <1>1
<1>3. "ack" \in V
  OBVIOUS
<1> HIDE DEF V
<1>4. prog \in Seq(Seq(Seq(SymbolOf(V))))
  <2>1. ASSUME NEW i \in 1..Len(acks)
        PROVE <<<<Byte("ack")>>, <<Byte(acks[i])>>>> \in Seq(Seq(SymbolOf(V)))
    <3>1. Byte("ack") \in SymbolOf(V) /\ Byte(acks[i]) \in SymbolOf(V)
      BY <1>2, <1>3 DEF SymbolOf
    <3>2. <<Byte("ack")>> \in Seq(SymbolOf(V)) /\ <<Byte(acks[i])>> \in Seq(SymbolOf(V))
      BY <3>1
    <3> QED
      BY <3>2
  <2>2. prog \in [1..Len(acks) -> Seq(Seq(SymbolOf(V)))]
    BY <1>2, <2>1
  <2> QED
    BY <1>2, <2>2, SeqDef
<1> HIDE DEF prog
<1>5. Flatten(prog) \in Seq(SymbolOf(V))
  BY <1>4, ProgramOf
<1> QED
  BY <1>5 DEF AckBytes, prog

(* Two sequences that join to nothing are nothing.                          *)
LEMMA NothingJoined ==
    ASSUME NEW x, NEW y, IsSequence(x), IsSequence(y), x \o y = <<>>
    PROVE  x = <<>> /\ y = <<>>
<1>1. PICK S : x \in Seq(S)
  BY DEF IsSequence
<1>2. PICK R : y \in Seq(R)
  BY DEF IsSequence
<1> DEFINE U == S \cup R
<1>3. x \in Seq(U) /\ y \in Seq(U)
  BY <1>1, <1>2
<1> HIDE DEF U
<1>4. Len(x \o y) = Len(x) + Len(y) /\ Len(x) \in Nat /\ Len(y) \in Nat /\ Len(x \o y) = 0
  BY <1>3
<1>5. Len(x) = 0 /\ Len(y) = 0
  BY <1>4
<1> QED
  BY <1>3, <1>5

(* Replies are sequences.                                                   *)
LEMMA RepliesAreSequence ==
    ASSUME NEW p, NEW data, Len(data) \in Nat, IsObserver(p)
    PROVE  IsSequence(FeedObserver(p, data).out)
<1> DEFINE p0 == [p EXCEPT !.out = <<>>]
<1>1. IsObserver(p0) /\ p0.out = <<>>
  BY DEF IsObserver, IsParser
<1>2. Len(data) \in 0..Len(data)
  OBVIOUS
<1> HIDE DEF p0
<1>3. IsSequence(Observed(p0, data)[Len(data)].p.out)
  BY <1>1, <1>2, ObservedIsCall
<1> QED
  BY <1>3 DEF FeedObserver, p0

LEMMA DrawingInvNext == DrawingInv /\ [Next]_vars => DrawingInv'
<1> SUFFICES ASSUME DrawingInv, [Next]_vars PROVE DrawingInv'
  OBVIOUS
<1>0. RepliesInv' /\ RepliesInv /\ SessionInv
  BY RepliesInvNext DEF DrawingInv, RepliesInv
<1> DEFINE seen == SubSeq(output, 1, guacdReceived)
           Calm == faked = <<>> /\ "guacdLost" \notin met
<1>1. ASSUME NEW n \in 1..MAX_PAYLOAD_SIZE, HandshakeRead(n) \/ DropInput(n) PROVE DrawingInv'
  <2>1. UNCHANGED <<mayLose, return_filter, approved, guacdReceived, guard, toBrowser, faked,
                    output>>
        /\ ("guacdLost" \in met => "guacdLost" \in met')
    BY <1>1 DEF HandshakeRead, DropInput, guacdVars
  <2> QED
    BY <1>0, <2>1 DEF DrawingInv
<1>2. ASSUME NEW n \in 1..MAX_PAYLOAD_SIZE, PipeInput(n) PROVE DrawingInv'
  <2> DEFINE acks == AckBytes(clipboard_faker'.out)
             r == FeedReturn(return_filter, acks)
  <2>1. /\ approved' /\ UNCHANGED <<output, guacdReceived>>
        /\ clipboard_faker' = FeedObserver(clipboard_faker, Chunk(n))
        /\ faked' = faked \o clipboard_faker'.out
        /\ return_filter' = r.p /\ toBrowser' = toBrowser \o r.data
        /\ received + n <= Len(input)
        /\ ("guacdLost" \in met => "guacdLost" \in met')
    BY <1>2 DEF PipeInput, PipeHistory, Deliver, guacdVars
  <2>2. mayLose' \in Int
    BY <1>0, <1>2, PipeSends, SendBound DEF DrawingInv
  <2>3. Len(Chunk(n)) \in Nat
    <3>1. n \in Nat \ {0}
      BY MultiplexerAssumption
    <3> QED
      BY <1>0, <2>1, <3>1, ChunkSymbols
  <2>4. IsObserver(clipboard_faker) /\ IsSequence(faked)
    <3>1. IsObserver(New("acks"))
      BY DEF New, Base, IsParser, IsObserver
    <3>2. PICK a : Heard(clipboard_faker, faked, "acks", a) /\ Len(a) \in Nat
      <4>1. CASE start = -1
        <5>1. Len(<<>>) \in Nat
          OBVIOUS
        <5> QED
          BY <1>0, <4>1, <5>1 DEF RepliesInv
      <4>2. CASE start # -1
        <5>1. /\ input \in Seq(Symbol) /\ received \in Nat /\ received <= Len(input)
              /\ start \in Nat /\ start <= received
          BY <1>0, <4>2 DEF RepliesInv, SessionInv
        <5>2. SubSeq(input, start + 1, received) \in Seq(Symbol)
          BY <5>1, ReadsJoin
        <5> QED
          BY <1>0, <4>2, <5>2 DEF RepliesInv
      <4> QED
        BY <4>1, <4>2
    <3>3. IsSequence(FeedObserver(New("acks"), a).out)
      BY <3>1, <3>2, RepliesAreSequence
    <3> QED
      BY <3>2, <3>3 DEF Heard
  <2>5. IsSequence(clipboard_faker'.out)
    BY <2>1, <2>3, <2>4, RepliesAreSequence
  <2>6. IsParser(r.p) /\ r.p.class = "return"
    <3>1. Len(acks) \in Nat
      BY <2>5, AckBytesAreBytes
    <3> HIDE DEF acks
    <3> QED
      BY <3>1, FilterStays DEF DrawingInv
  <2>7. Calm' => Fed(r.p, toBrowser', seen')
    <3> SUFFICES ASSUME Calm' PROVE Fed(r.p, toBrowser', seen')
      OBVIOUS
    <3>1. faked = <<>> /\ clipboard_faker'.out = <<>> /\ "guacdLost" \notin met
      BY <2>1, <2>4, <2>5, NothingJoined
    <3>2. acks = <<>>
      BY <3>1, NoAckBytes
    <3>3. Fed(return_filter, toBrowser, seen) /\ seen \in Seq(Symbol)
      BY <3>1 DEF DrawingInv, RepliesInv
    <3>4. <<>> \in Seq(Symbol) /\ seen \o <<>> = seen
      BY <3>3
    <3> HIDE DEF seen
    <3>5. Fed(r.p, toBrowser \o r.data, seen \o <<>>)
      BY <3>2, <3>3, <3>4, FedMore
    <3>6. seen' = seen
      BY <2>1 DEF seen
    <3> QED
      BY <2>1, <3>4, <3>5, <3>6
  <2> HIDE DEF r
  <2> QED
    BY <1>0, <2>1, <2>2, <2>6, <2>7 DEF DrawingInv
<1>3. ASSUME NEW n \in 1..MAX_PAYLOAD_SIZE, GuacdRead(n) PROVE DrawingInv'
  <2> DEFINE b == SubSeq(output, guacdReceived + 1, guacdReceived + n)
             r == FeedReturn(return_filter, b)
  <2>1. n \in Nat \ {0} /\ n <= MAX_PAYLOAD_SIZE /\ MAX_PAYLOAD_SIZE \in Nat
    BY MultiplexerAssumption
  <2>2. /\ output \in Seq(Symbol) /\ guacdReceived \in Nat /\ guacdReceived <= Len(output)
        /\ Len(output) \in Nat
    BY <1>0 DEF RepliesInv
  <2>3. /\ UNCHANGED <<output, approved, guard, faked>>
        /\ guacdReceived' = guacdReceived + n /\ guacdReceived + n <= Len(output)
        /\ Answered(guacdReceived + n)
    BY <1>3 DEF GuacdRead, browserVars
  <2>4. approved
    <3> SUFFICES ASSUME ~approved PROVE FALSE
      OBVIOUS
    <3>1. ~Answered(guacdReceived + n)
      BY SilentAtFirst DEF DrawingInv
    <3> QED
      BY <2>3, <3>1
  <2>5. guacdReceived + n <= Len(output)
    BY <2>3
  <2>6. /\ seen \in Seq(Symbol) /\ b \in Seq(Symbol) /\ Len(b) = n
        /\ SubSeq(output, 1, guacdReceived + n) = seen \o b
    <3> DEFINE k == guacdReceived
               m == k + n
    <3>1. /\ k \in Nat /\ m \in Nat /\ k <= m /\ m <= Len(output) /\ 0 + 1 = 1 /\ 0 <= k
          /\ k + 1 \in 1..Len(output) /\ m \in 1..Len(output) /\ k + 1 <= m
          /\ m - (k + 1) + 1 = n
      BY <2>1, <2>2, <2>5
    <3> HIDE DEF k, m
    <3>2. /\ SubSeq(output, 1, k) \in Seq(Symbol) /\ SubSeq(output, k + 1, m) \in Seq(Symbol)
          /\ SubSeq(output, 1, m) = SubSeq(output, 1, k) \o SubSeq(output, k + 1, m)
      BY <2>2, <3>1, ReadsJoin
    <3>3. Len(SubSeq(output, k + 1, m)) = n
      BY <2>2, <3>1, SubSeqProperties
    <3> QED
      BY <3>2, <3>3 DEF k, m
  <2>7. TryCast(Received(Datagram(b))).payload = b
    <3>1. ChannelId \in Channel16 /\ NONE \in ChannelAction
      BY DatagramHeader
    <3> HIDE DEF b
    <3>2. LET m == Datagram(b) IN TryCast(m) = BridgeMessage(ChannelId, NONE, b) /\ Received(m) = m
      BY <2>1, <2>6, <3>1, RoundTrip DEF Datagram
    <3> QED
      BY <3>2 DEF BridgeMessage
  <2>8. \/ return_filter' = r.p /\ toBrowser' = toBrowser \o r.data /\ mayLose' = mayLose
        \/ UNCHANGED <<return_filter, toBrowser>> /\ mayLose' = mayLose - 1
    BY <1>3, <2>7 DEF GuacdRead, Deliver
  <2>9. /\ ("guacdLost" \in met => "guacdLost" \in met')
        /\ mayLose' # mayLose => "guacdLost" \in met'
    BY <1>3 DEF GuacdRead
  <2>10. mayLose' \in Int
    BY <2>8 DEF DrawingInv
  <2> HIDE DEF b
  <2>11. IsParser(return_filter') /\ return_filter'.class = "return"
    <3>1. IsParser(r.p) /\ r.p.class = "return"
      BY <2>1, <2>6, FilterStays DEF DrawingInv
    <3> HIDE DEF r
    <3> QED
      BY <2>8, <3>1 DEF DrawingInv
  <2>12. Calm' => Fed(return_filter', toBrowser', seen')
    <3> SUFFICES ASSUME Calm' PROVE Fed(return_filter', toBrowser', seen')
      OBVIOUS
    <3>1. mayLose' = mayLose /\ Calm
      BY <2>3, <2>9
    <3>2. return_filter' = r.p /\ toBrowser' = toBrowser \o r.data
      <4> HIDE DEF r
      <4>1. mayLose - 1 # mayLose
        BY DEF DrawingInv
      <4> QED
        BY <2>8, <3>1, <4>1
    <3>3. Fed(return_filter, toBrowser, seen)
      BY <3>1 DEF DrawingInv
    <3>4. seen' = seen \o b
      BY <2>3, <2>6
    <3> HIDE DEF seen
    <3>5. Fed(r.p, toBrowser \o r.data, seen \o b)
      BY <2>6, <3>3, FedMore
    <3> QED
      BY <3>2, <3>4, <3>5
  <2> QED
    BY <1>0, <2>3, <2>4, <2>10, <2>11, <2>12 DEF DrawingInv
<1>4. CASE Approve
  <2>1. /\ return_filter' = New("return") /\ approved' /\ ~approved
        /\ UNCHANGED <<mayLose, guacdReceived, guard, toBrowser, faked, output, met>>
    BY <1>4 DEF Approve, guacdVars
  <2>2. toBrowser' = <<>> /\ guacdReceived' = 0
    BY <2>1 DEF DrawingInv
  <2>3. SubSeq(output', 1, 0) = <<>>
    BY <1>0, <2>1 DEF RepliesInv
  <2>4. Fed(return_filter', toBrowser', SubSeq(output', 1, guacdReceived'))
    BY <2>1, <2>2, <2>3, FedNothing
  <2>5. IsParser(return_filter') /\ return_filter'.class = "return"
    BY <2>1, NewReturn
  <2> QED
    BY <1>0, <2>1, <2>4, <2>5 DEF DrawingInv
<1>5. CASE IdleReplay
  <2>1. /\ UNCHANGED <<return_filter, approved, guacdReceived, toBrowser, faked, output>>
        /\ approved /\ Send(MaybeReplay)
        /\ ("guacdLost" \in met => "guacdLost" \in met')
    BY <1>5 DEF IdleReplay, guacdVars
  <2>2. MaybeReplay \in Seq(Traffic)
    BY <1>0, ReplayTraffic DEF SessionInv
  <2>3. mayLose' \in Int
    BY <2>1, <2>2, SendBound DEF DrawingInv
  <2> QED
    BY <1>0, <2>1, <2>3 DEF DrawingInv
<1>6. ASSUME Keepalive \/ UNCHANGED vars PROVE DrawingInv'
  <2>1. UNCHANGED <<mayLose, return_filter, approved, guacdReceived, guard, toBrowser, faked,
                    output, met>>
    BY <1>6 DEF Keepalive, vars, browserVars, guacdVars
  <2> QED
    BY <1>0, <2>1 DEF DrawingInv
<1> QED
  BY <1>1, <1>2, <1>3, <1>4, <1>5, <1>6 DEF Next

(***************************************************************************)
(* For every course of the browser and of guacd, legible or not, and every *)
(* way to cut them into reads, the acks and the sync echoes of a session   *)
(* are those of one read of everything: none is made twice, none is missed *)
(* and none comes out of order (ClipboardAckFaker::Feed, SyncFaker::Feed). *)
(* While no ack was made and nothing of guacd was lost, the same goes for  *)
(* what the browser is shown (ReturnFilter::Feed).                         *)
(***************************************************************************)
THEOREM ReadsUncutCorrect == Spec => []ReadsUncut
<1>1. DrawingInv => ReadsUncut
  BY DEF DrawingInv, RepliesInv, ReadsUncut, Heard, Fed
<1> QED
  BY <1>1, DrawingInvInit, DrawingInvNext, PTL DEF Spec

=============================================================================
