--------------------------- MODULE ChannelMailbox ---------------------------
(***************************************************************************)
(* One ChannelMailbox of gmlbroker, at the level of its mutex and its      *)
(* eventfd: the guacamole_send thread posts chunks and teardown requests,  *)
(* the channel's reader polls the eventfd, drains the mailbox and writes   *)
(* the chunks to the browser.                                              *)
(*                                                                         *)
(* A Post or RequestTeardown is two steps (the locked update, then the     *)
(* write to the eventfd); a Drain is the reads that empty the eventfd, one *)
(* step each, and then the locked take.  A mailbox whose eventfd could not *)
(* be created is used all the same: nothing ever wakes its reader.         *)
(***************************************************************************)
EXTENDS Naturals, Sequences

CONSTANTS Chunk,      \* pieces of return traffic
          MaxPosts,   \* bound on the number of chunks posted
          MaxRequests \* bound on the number of teardown requests

ASSUME MailboxAssumption == MaxPosts \in Nat /\ MaxRequests \in Nat

VARIABLES
    outbox, teardown, announce,   \* under the mailbox's mutex
    event_fd,   \* was the eventfd created?
    event,      \* is the eventfd's counter nonzero?
    poster,     \* the guacamole_send thread: "idle" or about to "signal"
    reader,     \* the reader: "poll", "clear", "take", "write"; out of its loop:
                \* "exit" (on request), "broken" (browser gone, write failed)
    chunks,     \* what Drain handed to the reader
    stop,       \* out_teardown: the reader saw the request
    do_announce,\* out_announce: what the request said about announcing
    posts,      \* how many chunks were posted
    requests,   \* how often a teardown was requested
    due,        \* history: how many of them before the first teardown request
    written     \* history: the chunks written to the browser

vars == <<outbox, teardown, announce, event_fd, event, poster, reader, chunks,
          stop, do_announce, posts, requests, due, written>>

mailboxVars == <<outbox, teardown, announce, event_fd>>
drained == <<chunks, stop, do_announce>>
counters == <<posts, requests, due>>

Init ==
    /\ outbox = <<>>
    /\ teardown = FALSE
    /\ announce = TRUE
    /\ event_fd \in BOOLEAN
    /\ event = FALSE
    /\ poster = "idle"
    /\ reader = "poll"
    /\ chunks = <<>>
    /\ stop = FALSE
    /\ do_announce = TRUE
    /\ posts = 0
    /\ requests = 0
    /\ due = 0
    /\ written = <<>>

-----------------------------------------------------------------------------
(* The guacamole_send thread.                                               *)

Post(c) ==
    /\ poster = "idle" /\ posts < MaxPosts
    /\ outbox' = Append(outbox, c)
    /\ posts' = posts + 1
    /\ poster' = "signal"
    /\ UNCHANGED <<teardown, announce, event_fd, event, reader, drained, requests,
                   due, written>>

RequestTeardown(announce_on_close) ==
    /\ poster = "idle" /\ requests < MaxRequests
    /\ requests' = requests + 1
    /\ teardown' = TRUE
    /\ announce' = announce_on_close
    /\ due' = IF teardown THEN due ELSE posts
    /\ poster' = "signal"
    /\ UNCHANGED <<outbox, event_fd, event, reader, drained, posts, written>>

(* Mutant: the wake-up is only written when the outbox holds a chunk.       *)
Signal_ChunksOnly ==
    /\ poster = "signal"
    /\ event' = (event \/ (event_fd /\ outbox # <<>>))
    /\ poster' = "idle"
    /\ UNCHANGED <<mailboxVars, reader, drained, counters, written>>

Signal ==
    /\ poster = "signal"
    /\ event' = event_fd
    /\ poster' = "idle"
    /\ UNCHANGED <<mailboxVars, reader, drained, counters, written>>

-----------------------------------------------------------------------------
(* The reader.                                                              *)

(* poll() reports the eventfd readable; Drain begins at step first.         *)
Wake(first) ==
    /\ reader = "poll" /\ event
    /\ reader' = first
    /\ UNCHANGED <<mailboxVars, event, poster, drained, counters, written>>

(* One read() of the eventfd: it empties the counter, and fails once the    *)
(* counter is found empty, which ends the loop.                             *)
DrainEvent(next) ==
    /\ reader = "clear"
    /\ event' = FALSE
    /\ reader' = IF event THEN "clear" ELSE next
    /\ UNCHANGED <<mailboxVars, poster, drained, counters, written>>

(* Mutant: one chunk per drain.                                             *)
DrainTake_One(next) ==
    /\ reader = "take"
    /\ chunks' = IF outbox = <<>> THEN <<>> ELSE <<Head(outbox)>>
    /\ outbox' = IF outbox = <<>> THEN <<>> ELSE Tail(outbox)
    /\ stop' = teardown
    /\ do_announce' = announce
    /\ reader' = next
    /\ UNCHANGED <<teardown, announce, event_fd, event, poster, counters, written>>

(* Mutant: the chunks are copied out, and stay in the outbox.               *)
DrainTake_Copies(next) ==
    /\ reader = "take"
    /\ chunks' = outbox
    /\ stop' = teardown
    /\ do_announce' = announce
    /\ reader' = next
    /\ UNCHANGED <<mailboxVars, event, poster, counters, written>>

DrainTake(next) ==
    /\ reader = "take"
    /\ chunks' = outbox
    /\ outbox' = <<>>
    /\ stop' = teardown
    /\ do_announce' = announce
    /\ reader' = next
    /\ UNCHANGED <<teardown, announce, event_fd, event, poster, counters, written>>

WriteChunk ==
    /\ reader = "write" /\ chunks # <<>>
    /\ written' = Append(written, Head(chunks))
    /\ chunks' = Tail(chunks)
    /\ UNCHANGED <<mailboxVars, event, poster, reader, stop, do_announce,
                   counters>>

(* The loop ends, whether or not a teardown was requested too.              *)
WriteFails ==
    /\ reader = "write" /\ chunks # <<>>
    /\ reader' = "broken"
    /\ UNCHANGED <<mailboxVars, event, poster, drained, counters, written>>

(* Mutant: a teardown request is honoured before the chunks are written.    *)
Written_StopsEarly ==
    /\ reader = "write" /\ (chunks = <<>> \/ stop)
    /\ reader' = IF stop THEN "exit" ELSE "poll"
    /\ UNCHANGED <<mailboxVars, event, poster, drained, counters, written>>

(* All chunks are written: honour the teardown request, or poll again.      *)
Written ==
    /\ reader = "write" /\ chunks = <<>>
    /\ reader' = IF stop THEN "exit" ELSE "poll"
    /\ UNCHANGED <<mailboxVars, event, poster, drained, counters, written>>

(* The reader's loop ends for another reason: the browser closed.           *)
BrowserCloses ==
    /\ reader = "poll"
    /\ reader' = "broken"
    /\ UNCHANGED <<mailboxVars, event, poster, drained, counters, written>>

-----------------------------------------------------------------------------
(* Mutant: Drain takes the queue first and empties the eventfd afterwards.  *)
ReaderStep_TakeFirst ==
    \/ Wake("take") \/ DrainTake("clear") \/ DrainEvent("write")
    \/ WriteChunk \/ Written

(* Drain empties the eventfd, then takes the queue.                         *)
ReaderStep ==
    \/ Wake("clear") \/ DrainEvent("take") \/ DrainTake("write")
    \/ WriteChunk \/ Written

Next ==
    \/ \E c \in Chunk : Post(c)
    \/ \E a \in BOOLEAN : RequestTeardown(a)
    \/ Signal
    \/ ReaderStep
    \/ WriteFails
    \/ BrowserCloses

Spec == Init /\ [][Next]_vars

(* Both threads are scheduled and Signal never blocks (EFD_NONBLOCK); a     *)
(* browser that stops reading is not modelled, so a write returns.          *)
FairSpec ==
    /\ Spec
    /\ WF_vars(Signal)
    /\ WF_vars(ReaderStep)

-----------------------------------------------------------------------------
(* Properties.                                                              *)

(* The reader has left its loop.                                            *)
Left == reader \in {"exit", "broken"}

(* Every variable stays in its range, and Drain never overwrites chunks     *)
(* that are still to be written, or a request still to be honoured.         *)
TypeOK ==
    /\ outbox \in Seq(Chunk)
    /\ teardown \in BOOLEAN
    /\ announce \in BOOLEAN
    /\ event_fd \in BOOLEAN
    /\ event \in BOOLEAN
    /\ poster \in {"idle", "signal"}
    /\ reader \in {"poll", "clear", "take", "write", "exit", "broken"}
    /\ chunks \in Seq(Chunk)
    /\ reader \in {"poll", "clear", "take"} => chunks = <<>> /\ ~stop
    /\ stop \in BOOLEAN
    /\ do_announce \in BOOLEAN
    /\ posts \in 0..MaxPosts
    /\ requests \in 0..MaxRequests
    /\ due \in 0..MaxPosts
    /\ written \in Seq(Chunk)

(* Whatever waits for a reader about to poll will wake it.                  *)
Woken == reader = "poll" /\ (outbox # <<>> \/ teardown) => event \/ poster = "signal"

(* No wake-up is lost: with an eventfd, a reader about to poll while a      *)
(* chunk or a teardown request waits will be woken, because the eventfd is  *)
(* readable or is about to be, wherever in Drain it was when that came.     *)
NoLostWake == event_fd => Woken

(* The comment in Drain (channel_mailbox.cpp 71-73) claims that "no item or *)
(* teardown is ever lost".  Refuted: without an eventfd all of them are.    *)
NothingLost == Woken

(* A reader that stops on request has first written every chunk that was    *)
(* posted before the request: the denied screen is painted before the       *)
(* connection closes (guacamole_send_handler.cpp 95-100).                   *)
PaintsBeforeStopping == reader = "exit" => Len(written) >= due

(* With an eventfd, a teardown request ends the reader.                     *)
TeardownHonoured == event_fd /\ teardown ~> Left

(* With an eventfd, the n-th chunk posted is written (the n-th to be so, by *)
(* FifoSpec), or the reader leaves its loop.                                *)
PostsDelivered ==
    \A n \in 1..MaxPosts : event_fd /\ posts >= n ~> Len(written) >= n \/ Left

(* The mailbox implements the abstract FIFO.                                *)
Fifo == INSTANCE FifoMailbox
    WITH pending <- chunks \o outbox,
         asked <- teardown,
         stopped <- CASE reader = "exit" -> "asked"
                      [] reader = "broken" -> "failed"
                      [] OTHER -> "no"

FifoSpec == Fifo!FifoSpec

=============================================================================
