---------------------------- MODULE FifoMailbox -----------------------------
(***************************************************************************)
(* What a channel's mailbox promises: the reader writes to the browser     *)
(* exactly the chunks that were posted, each once and in the order they    *)
(* were posted.  It stops when it was asked to and has written all that    *)
(* was posted before it was asked, or when the browser's connection fails. *)
(***************************************************************************)
EXTENDS Naturals, Sequences

CONSTANTS Chunk

VARIABLES pending,   \* chunks posted and not yet written
          written,   \* chunks written to the browser
          asked,     \* the reader was asked to stop
          due,       \* how many chunks were posted before that
          stopped    \* "no", or why the reader has left its loop

fifoVars == <<pending, written, asked, due, stopped>>

FifoInit ==
    /\ pending = <<>>
    /\ written = <<>>
    /\ asked = FALSE
    /\ due = 0
    /\ stopped = "no"

FifoPost(c) ==
    /\ pending' = Append(pending, c)
    /\ UNCHANGED <<written, asked, due, stopped>>

FifoWrite ==
    /\ stopped = "no"
    /\ pending # <<>>
    /\ written' = Append(written, Head(pending))
    /\ pending' = Tail(pending)
    /\ UNCHANGED <<asked, due, stopped>>

FifoAsk ==
    /\ asked' = TRUE
    /\ due' = IF asked THEN due ELSE Len(written) + Len(pending)
    /\ UNCHANGED <<pending, written, stopped>>

FifoStop ==
    /\ stopped = "no"
    /\ asked
    /\ Len(written) >= due
    /\ stopped' = "asked"
    /\ UNCHANGED <<pending, written, asked, due>>

FifoFail ==
    /\ stopped = "no"
    /\ stopped' = "failed"
    /\ UNCHANGED <<pending, written, asked, due>>

FifoNext ==
    \/ \E c \in Chunk : FifoPost(c)
    \/ FifoWrite
    \/ FifoAsk
    \/ FifoStop
    \/ FifoFail

FifoSpec == FifoInit /\ [][FifoNext]_fifoVars

=============================================================================
