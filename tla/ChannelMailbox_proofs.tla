----------------------- MODULE ChannelMailbox_proofs ------------------------
(***************************************************************************)
(* Proofs that, for every set of chunks and every bound, the mailbox loses *)
(* no wake-up, writes what is due before it stops, and implements the      *)
(* abstract FIFO.                                                          *)
(***************************************************************************)
EXTENDS ChannelMailbox, SequenceTheorems, TLAPS

-----------------------------------------------------------------------------
(* Type correctness.                                                        *)

(* A nonempty sequence is its head followed by its tail, one shorter.       *)
LEMMA HeadTail ==
    ASSUME NEW S, NEW s \in Seq(S), s # <<>>
    PROVE  /\ Head(s) \in S
           /\ Tail(s) \in Seq(S)
           /\ Len(Tail(s)) = Len(s) - 1
BY HeadTailProperties

(* One step of either thread keeps every variable in its range.             *)
LEMMA TypeStep == TypeOK /\ [Next]_vars => TypeOK'
<1> SUFFICES ASSUME TypeOK, [Next]_vars PROVE TypeOK'
  OBVIOUS
<1>e. <<>> \in Seq(Chunk)
  OBVIOUS
<1> USE MailboxAssumption
<1>1. ASSUME NEW c \in Chunk, Post(c) PROVE TypeOK'
  <2>1. Append(outbox, c) \in Seq(Chunk)
    BY DEF TypeOK
  <2> QED
    BY <1>1, <2>1 DEF Post, TypeOK, drained
<1>2. ASSUME NEW a \in BOOLEAN, RequestTeardown(a) PROVE TypeOK'
  BY <1>2 DEF RequestTeardown, TypeOK, drained
<1>3. CASE Signal
  BY <1>3 DEF Signal, TypeOK, mailboxVars, drained, counters
<1>4. CASE Wake("clear")
  BY <1>4 DEF Wake, TypeOK, mailboxVars, drained, counters
<1>5. CASE DrainEvent("take")
  BY <1>5 DEF DrainEvent, TypeOK, mailboxVars, drained, counters
<1>6. CASE DrainTake("write")
  BY <1>6, <1>e DEF DrainTake, TypeOK, counters
<1>7. CASE WriteChunk
  <2>1. /\ Append(written, Head(chunks)) \in Seq(Chunk)
        /\ Tail(chunks) \in Seq(Chunk)
    BY <1>7, HeadTail DEF WriteChunk, TypeOK
  <2> QED
    BY <1>7, <2>1 DEF WriteChunk, TypeOK, mailboxVars, counters
<1>8. CASE Written
  BY <1>8 DEF Written, TypeOK, mailboxVars, drained, counters
<1>9. CASE WriteFails
  BY <1>9 DEF WriteFails, TypeOK, mailboxVars, drained, counters
<1>10. CASE BrowserCloses
  BY <1>10 DEF BrowserCloses, TypeOK, mailboxVars, drained, counters
<1>11. CASE UNCHANGED vars
  BY <1>11 DEF vars, TypeOK
<1> QED
  BY <1>1, <1>2, <1>3, <1>4, <1>5, <1>6, <1>7, <1>8, <1>9, <1>10, <1>11
     DEF Next, ReaderStep

(* Every reachable state of the mailbox is well typed, and Drain is only    *)
(* entered when the reader's chunks are written.                            *)
THEOREM TypeCorrect == Spec => []TypeOK
<1>1. Init => TypeOK
  <2>1. <<>> \in Seq(Chunk)
    OBVIOUS
  <2>2. 0 \in 0..MaxPosts /\ 0 \in 0..MaxRequests
    BY MailboxAssumption
  <2> QED
    BY <2>1, <2>2, Zenon DEF Init, TypeOK
<1> QED
  BY <1>1, TypeStep, PTL DEF Spec

-----------------------------------------------------------------------------
(* No lost wake-up.                                                         *)

(* The strengthening of NoLostWake: a reader that writes what it drained    *)
(* and was not told to stop is about to poll again, and must be woken for   *)
(* whatever arrived since it emptied the eventfd.                           *)
Wakeable ==
    /\ reader = "poll" \/ (reader = "write" /\ ~stop)
    /\ outbox # <<>> \/ teardown
    /\ event_fd
    => event \/ poster = "signal"

(* One step of either thread keeps the reader wakeable.                     *)
LEMMA WakeStep == TypeOK /\ Wakeable /\ [Next]_vars => Wakeable'
<1> SUFFICES ASSUME TypeOK, Wakeable, [Next]_vars PROVE Wakeable'
  OBVIOUS
<1>1. ASSUME NEW c \in Chunk, Post(c) PROVE Wakeable'
  BY <1>1 DEF Post, Wakeable
<1>2. ASSUME NEW a \in BOOLEAN, RequestTeardown(a) PROVE Wakeable'
  BY <1>2 DEF RequestTeardown, Wakeable
<1>3. CASE Signal
  BY <1>3 DEF Signal, Wakeable, mailboxVars
<1>4. CASE Wake("clear")
  BY <1>4 DEF Wake, Wakeable, mailboxVars
<1>5. CASE DrainEvent("take")
  BY <1>5 DEF DrainEvent, Wakeable, mailboxVars
<1>6. CASE DrainTake("write")
  BY <1>6 DEF DrainTake, Wakeable
<1>7. CASE WriteChunk
  BY <1>7 DEF WriteChunk, Wakeable, mailboxVars
<1>8. CASE Written
  BY <1>8 DEF Written, Wakeable, mailboxVars, drained, TypeOK
<1>9. CASE WriteFails
  BY <1>9 DEF WriteFails, Wakeable
<1>10. CASE BrowserCloses
  BY <1>10 DEF BrowserCloses, Wakeable
<1>11. CASE UNCHANGED vars
  BY <1>11 DEF vars, Wakeable
<1> QED
  BY <1>1, <1>2, <1>3, <1>4, <1>5, <1>6, <1>7, <1>8, <1>9, <1>10, <1>11
     DEF Next, ReaderStep

(* With an eventfd, a reader that is about to block in poll while something *)
(* waits for it is woken: the eventfd is readable, or the poster is about to write it.      *)
THEOREM NoLostWakeCorrect == Spec => []NoLostWake
<1>1. Init => Wakeable
  BY DEF Init, Wakeable
<1>2. Wakeable => NoLostWake
  BY DEF Wakeable, NoLostWake, Woken
<1> QED
  BY <1>1, <1>2, WakeStep, TypeCorrect, PTL DEF Spec

-----------------------------------------------------------------------------
(* What is due is written before the reader stops.                          *)

(* Chunks are neither lost nor made up, and once the reader saw the request *)
(* the chunks due are written or in its hands.                              *)
Accounted ==
    /\ posts = Len(written) + Len(chunks) + Len(outbox)
    /\ due <= posts
    /\ stop => teardown /\ Len(written) + Len(chunks) >= due
    /\ reader = "exit" => stop /\ chunks = <<>>

(* One step of either thread keeps the chunks accounted for.                *)
LEMMA AccountStep == TypeOK /\ Accounted /\ [Next]_vars => Accounted'
<1> SUFFICES ASSUME TypeOK, Accounted, [Next]_vars PROVE Accounted'
  OBVIOUS
<1>n. /\ Len(written) \in Nat /\ Len(chunks) \in Nat /\ Len(outbox) \in Nat
      /\ posts \in Nat /\ due \in Nat
      /\ Len(<<>>) = 0
  BY LenProperties, MailboxAssumption DEF TypeOK
<1>1. ASSUME NEW c \in Chunk, Post(c) PROVE Accounted'
  <2>1. Len(outbox') = Len(outbox) + 1
    BY <1>1 DEF Post, TypeOK
  <2> QED
    BY <1>1, <1>n, <2>1 DEF Post, Accounted, drained
<1>2. ASSUME NEW a \in BOOLEAN, RequestTeardown(a) PROVE Accounted'
  BY <1>2, <1>n DEF RequestTeardown, Accounted, drained
<1>3. CASE Signal
  BY <1>3 DEF Signal, Accounted, mailboxVars, drained, counters
<1>4. CASE Wake("clear")
  BY <1>4 DEF Wake, Accounted, mailboxVars, drained, counters
<1>5. CASE DrainEvent("take")
  BY <1>5 DEF DrainEvent, Accounted, mailboxVars, drained, counters
<1>6. CASE DrainTake("write")
  <2>1. Len(chunks) = 0
    BY <1>6, <1>n DEF DrainTake, TypeOK
  <2> QED
    BY <1>6, <1>n, <2>1 DEF DrainTake, Accounted, counters
<1>7. CASE WriteChunk
  <2>1. /\ Len(written') = Len(written) + 1
        /\ Len(chunks') = Len(chunks) - 1
    BY <1>7, HeadTail DEF WriteChunk, TypeOK
  <2> QED
    BY <1>7, <1>n, <2>1 DEF WriteChunk, Accounted, mailboxVars, counters
<1>8. CASE Written
  BY <1>8 DEF Written, Accounted, mailboxVars, drained, counters, TypeOK
<1>9. CASE WriteFails
  BY <1>9 DEF WriteFails, Accounted, mailboxVars, drained, counters
<1>10. CASE BrowserCloses
  BY <1>10 DEF BrowserCloses, Accounted, mailboxVars, drained, counters
<1>11. CASE UNCHANGED vars
  BY <1>11 DEF vars, Accounted
<1> QED
  BY <1>1, <1>2, <1>3, <1>4, <1>5, <1>6, <1>7, <1>8, <1>9, <1>10, <1>11
     DEF Next, ReaderStep

(* A reader that stops on request has written every chunk posted before the *)
(* first request: the denied screen is painted before the connection ends.  *)
THEOREM PaintsBeforeStoppingCorrect == Spec => []PaintsBeforeStopping
<1>1. Init => Accounted
  <2>1. Len(<<>>) = 0
    OBVIOUS
  <2> QED
    BY <2>1 DEF Init, Accounted
<1>2. TypeOK /\ Accounted => PaintsBeforeStopping
  <2> SUFFICES ASSUME TypeOK, Accounted, reader = "exit"
               PROVE  Len(written) >= due
    BY DEF PaintsBeforeStopping
  <2>1. Len(chunks) = 0 /\ Len(written) \in Nat
    BY LenProperties DEF Accounted, TypeOK
  <2> QED
    BY <2>1 DEF Accounted
<1> QED
  BY <1>1, <1>2, AccountStep, TypeCorrect, PTL DEF Spec

-----------------------------------------------------------------------------
(* The mailbox implements the FIFO.                                         *)

(* Posting at the end of the outbox posts at the end of everything pending. *)
LEMMA AppendPending ==
    ASSUME NEW S, NEW s \in Seq(S), NEW t \in Seq(S), NEW c \in S
    PROVE  s \o Append(t, c) = Append(s \o t, c)
<1>1. /\ Append(t, c) = t \o <<c>>
      /\ Append(s \o t, c) = (s \o t) \o <<c>>
  BY AppendIsConcat, ConcatProperties
<1>2. <<c>> \in Seq(S)
  OBVIOUS
<1> QED
  BY <1>1, <1>2, ConcatAssociative

(* The reader's next chunk is the first one pending.                        *)
LEMMA TakePending ==
    ASSUME NEW S, NEW s \in Seq(S), NEW t \in Seq(S), s # <<>>
    PROVE  /\ s \o t # <<>>
           /\ Head(s \o t) = Head(s)
           /\ Tail(s \o t) = Tail(s) \o t
<1>1. /\ s \o t \in Seq(S)
      /\ Len(s \o t) = Len(s) + Len(t)
      /\ Len(s) \in Nat /\ Len(t) \in Nat
      /\ Len(s) # 0
      /\ \A i \in 1 .. Len(s) + Len(t) :
            (s \o t)[i] = IF i <= Len(s) THEN s[i] ELSE t[i - Len(s)]
  BY ConcatProperties, LenProperties, EmptySeq
<1>2. s \o t # <<>>
  BY ConcatEqualIffEmpty
<1>3. Head(s \o t) = Head(s)
  BY <1>1, <1>2
<1>4. /\ Tail(s \o t) \in Seq(S)
      /\ Len(Tail(s \o t)) = Len(s) + Len(t) - 1
      /\ \A i \in 1 .. Len(s) + Len(t) - 1 : Tail(s \o t)[i] = (s \o t)[i + 1]
  BY <1>1, <1>2, HeadTailProperties
<1>5. /\ Tail(s) \in Seq(S)
      /\ Len(Tail(s)) = Len(s) - 1
      /\ \A i \in 1 .. Len(s) - 1 : Tail(s)[i] = s[i + 1]
  BY <1>1, HeadTailProperties
<1>6. /\ Tail(s) \o t \in Seq(S)
      /\ Len(Tail(s) \o t) = Len(s) - 1 + Len(t)
      /\ \A i \in 1 .. Len(s) - 1 + Len(t) :
            (Tail(s) \o t)[i] = IF i <= Len(s) - 1 THEN Tail(s)[i]
                                                   ELSE t[i - (Len(s) - 1)]
  BY <1>5, ConcatProperties
<1>7. ASSUME NEW i \in 1 .. Len(s) + Len(t) - 1
      PROVE  Tail(s \o t)[i] = (Tail(s) \o t)[i]
  <2>1. Tail(s \o t)[i] = (s \o t)[i + 1]
    BY <1>4
  <2>2. (s \o t)[i + 1] = IF i + 1 <= Len(s) THEN s[i + 1]
                                             ELSE t[i + 1 - Len(s)]
    BY <1>1
  <2>3. CASE i + 1 <= Len(s)
    BY <1>1, <1>5, <1>6, <2>1, <2>2, <2>3
  <2>4. CASE ~(i + 1 <= Len(s))
    <3>1. i + 1 - Len(s) = i - (Len(s) - 1) /\ ~(i <= Len(s) - 1)
      BY <1>1, <2>4
    <3>2. (Tail(s) \o t)[i] = t[i - (Len(s) - 1)]
      BY <1>1, <1>6, <3>1
    <3> QED
      BY <2>1, <2>2, <2>4, <3>1, <3>2
  <2> QED
    BY <2>3, <2>4
<1>8. Tail(s \o t) = Tail(s) \o t
  BY <1>1, <1>4, <1>6, <1>7, SeqEqual
<1> QED
  BY <1>2, <1>3, <1>8

(* Every step of the mailbox is a step of the FIFO, or leaves it unchanged. *)
LEMMA FifoStep ==
    TypeOK /\ Accounted /\ [Next]_vars => [Fifo!FifoNext]_(Fifo!fifoVars)
<1> SUFFICES ASSUME TypeOK, Accounted, [Next]_vars
             PROVE  Fifo!FifoNext \/ UNCHANGED Fifo!fifoVars
  OBVIOUS
<1> USE DEF Fifo!FifoNext, Fifo!fifoVars
<1>1. ASSUME NEW c \in Chunk, Post(c) PROVE Fifo!FifoPost(c)
  <2>1. chunks' \o outbox' = Append(chunks \o outbox, c)
    BY <1>1, AppendPending DEF Post, TypeOK, drained
  <2> QED
    BY <1>1, <2>1 DEF Post, Fifo!FifoPost
<1>2. ASSUME NEW a \in BOOLEAN, RequestTeardown(a) PROVE Fifo!FifoAsk
  <2>1. Len(chunks \o outbox) = Len(chunks) + Len(outbox)
    BY ConcatProperties DEF TypeOK
  <2>2. Len(written) + Len(chunks \o outbox) = posts
    <3>1. Len(written) \in Nat /\ Len(chunks) \in Nat /\ Len(outbox) \in Nat
      BY LenProperties DEF TypeOK
    <3> QED
      BY <2>1, <3>1 DEF Accounted
  <2> QED
    BY <1>2, <2>2 DEF RequestTeardown, Fifo!FifoAsk, drained
<1>3. CASE Signal
  BY <1>3 DEF Signal, mailboxVars, drained, counters
<1>4. CASE Wake("clear")
  BY <1>4 DEF Wake, mailboxVars, drained, counters
<1>5. CASE DrainEvent("take")
  BY <1>5 DEF DrainEvent, mailboxVars, drained, counters
<1>6. CASE DrainTake("write")
  <2>1. chunks = <<>>
    BY <1>6 DEF DrainTake, TypeOK
  <2>2. chunks' \o outbox' = outbox \o <<>>
    BY <1>6 DEF DrainTake
  <2>3. chunks' \o outbox' = chunks \o outbox
    BY <2>1, <2>2, ConcatEmptySeq DEF TypeOK
  <2>4. UNCHANGED <<written, teardown, due>>
    BY <1>6 DEF DrainTake, counters
  <2>5. reader = "take" /\ reader' = "write"
    BY <1>6 DEF DrainTake
  <2> QED
    BY <2>3, <2>4, <2>5
<1>7. CASE WriteChunk
  <2>1. /\ chunks \o outbox # <<>>
        /\ Head(chunks \o outbox) = Head(chunks)
        /\ Tail(chunks \o outbox) = Tail(chunks) \o outbox
    BY <1>7, TakePending DEF WriteChunk, TypeOK
  <2> QED
    BY <1>7, <2>1 DEF WriteChunk, Fifo!FifoWrite, mailboxVars, counters
<1>8. CASE Written
  <2>1. CASE stop
    <3>1. teardown /\ Len(written) >= due
      <4>1. Len(chunks) = 0 /\ Len(written) \in Nat
        BY <1>8, LenProperties DEF Written, TypeOK
      <4> QED
        BY <2>1, <4>1 DEF Accounted
    <3> QED
      BY <1>8, <2>1, <3>1 DEF Written, Fifo!FifoStop, mailboxVars, drained, counters
  <2>2. CASE ~stop
    BY <1>8, <2>2 DEF Written, mailboxVars, drained, counters
  <2> QED
    BY <2>1, <2>2
<1>9. CASE WriteFails
  BY <1>9 DEF WriteFails, Fifo!FifoFail, mailboxVars, drained, counters
<1>10. CASE BrowserCloses
  BY <1>10 DEF BrowserCloses, Fifo!FifoFail, mailboxVars, drained, counters
<1>11. CASE UNCHANGED vars
  BY <1>11 DEF vars
<1> QED
  BY <1>1, <1>2, <1>3, <1>4, <1>5, <1>6, <1>7, <1>8, <1>9, <1>10, <1>11
     DEF Next, ReaderStep

(* The browser receives the posted chunks, each once and in order, and a    *)
(* reader that stops for any reason but a failed connection was asked to    *)
(* and has written all that was posted before, whatever the interleaving of *)
(* the two threads on the mutex and the eventfd.                            *)
THEOREM MailboxImplementsFifo == Spec => FifoSpec
<1>1. Init => Fifo!FifoInit
  <2>1. <<>> \o <<>> = <<>>
    BY ConcatEmptySeq
  <2> QED
    BY <2>1 DEF Init, Fifo!FifoInit
<1>2. Init => Accounted
  <2>1. Len(<<>>) = 0
    OBVIOUS
  <2> QED
    BY <2>1 DEF Init, Accounted
<1> QED
  BY <1>1, <1>2, AccountStep, FifoStep, TypeCorrect, PTL
  DEF Spec, FifoSpec, Fifo!FifoSpec

=============================================================================
