-------------------------------- MODULE Guard -------------------------------
(***************************************************************************)
(* gmguard: the main receive loop (gmguard/src/main.cpp) and the control   *)
(* listener thread that flips the operator's approve/deny switch, with the *)
(* Approver between them.                                                  *)
(*                                                                         *)
(* The main loop is the only owner of approved, parsers and poisoned; it   *)
(* shares approve (Approver::approve_), deny_teardown and running with the *)
(* control thread and the signal handler.  One iteration of the loop is    *)
(* two steps: the exchange of deny_teardown at the top, and the receipt    *)
(* and handling of one datagram.  The handler reads shared state once      *)
(* (Approver::HandleRequest), so it is one step.                           *)
(*                                                                         *)
(* The control thread takes two steps for a deny: SetApprove, then the     *)
(* store to deny_teardown.  Stores and loads of both are relaxed, so the   *)
(* two may reach the main thread in either order: approve and              *)
(* deny_teardown are what the main thread finds, and stores on their way   *)
(* to it arrive in order for each variable, but in any order between them. *)
(***************************************************************************)
EXTENDS Wire, FiniteSets

CONSTANT MaxUnseen   \* bound on the stores under way to either variable

ASSUME GuardAssumption ==
    /\ IsFiniteSet(Channel)   \* channel ids are 16 bits wide
    /\ MaxUnseen \in Nat \ {0}

VARIABLES
    running,        \* cleared by SIGINT / SIGTERM
    main,           \* where the main thread is
    ctl,            \* where the control thread is
    approve,        \* Approver::approve_, as the main thread finds it
    deny_teardown,
    unseen,         \* stores to approve_ that the main thread cannot see yet
    flags,          \* how many such stores to deny_teardown there are
    commanded,      \* history: the mode of the last command
    approved,       \* channels cleared to carry Guacamole
    parsers,        \* per channel: "none", or the position of its parser
    poisoned,
    sent,           \* the datagrams sent by the last step of the main thread
    late,           \* history: Guacamole datagrams sent since a deny was flagged
    stale           \* history: channels approved after the last deny's teardown

ctlVars == <<ctl, approve, unseen, flags, commanded>>

mainVars == <<main, approved, parsers, poisoned, sent, late, stale>>

vars == <<running, deny_teardown, ctlVars, mainVars>>

Position == {"none", "boundary", "inside"}

Init ==
    /\ running = TRUE
    /\ main = "top"
    /\ ctl = "recv"
    /\ approve = TRUE
    /\ deny_teardown = FALSE
    /\ unseen = <<>>
    /\ flags = 0
    /\ commanded = TRUE
    /\ approved = {}
    /\ parsers = [ch \in Channel |-> "none"]
    /\ poisoned = {}
    /\ sent = <<>>
    /\ late = 0
    /\ stale = {}

-----------------------------------------------------------------------------
(* The per-channel GuardOpcodeParser, by what it reports for a payload.     *)

(* A payload that does not continue where the last one stopped corrupts the *)
(* stream; disallowed instructions are reported only when whole.            *)
Parse(pos, p) ==
    CASE pos = "boundary" /\ p = "whole" -> "clean"
      [] pos = "boundary" /\ p = "head" -> "clean"
      [] pos = "inside" /\ p = "tail" -> "clean"
      [] pos = "boundary" /\ p \in {"denied", "mixed"} -> "DENIED_DATA"
      [] OTHER -> "STREAM_CORRUPTED"

PositionAfter(p) == IF p = "head" THEN "inside" ELSE "boundary"

(* The send buffer once the disallowed instructions are cut out of it.      *)
Excise(p) == IF p = "mixed" THEN <<"whole">> ELSE <<>>

-----------------------------------------------------------------------------
(* The main loop.                                                           *)

(* All orders in which an unordered_set can be iterated.                    *)
Orders(S) ==
    {f \in [1..Cardinality(S) -> S] :
        /\ \A ch \in S : \E i \in DOMAIN f : f[i] = ch
        /\ \A i, j \in DOMAIN f : f[i] = f[j] => i = j}

ShutdownAll(order) == [i \in DOMAIN order |-> Shutdown(order[i])]

(* Mutant: a channel in the middle of an instruction is left alone.         *)
DenyTeardown_Polite ==
    LET idle == {ch \in approved : parsers[ch] = "boundary"}
    IN  /\ main = "top" /\ running /\ deny_teardown
        /\ deny_teardown' = FALSE
        /\ \E order \in Orders(idle) : sent' = ShutdownAll(order)
        /\ parsers' = [ch \in Channel |-> IF ch \in idle THEN "none" ELSE parsers[ch]]
        /\ approved' = approved \ idle
        /\ late' = 0
        /\ stale' = {}
        /\ main' = "recv"
        /\ UNCHANGED <<running, ctlVars, poisoned>>

(* Top of the loop, deny_teardown found set: tear every approved channel    *)
(* down and clear the flag.                                                 *)
DenyTeardown ==
    /\ main = "top" /\ running /\ deny_teardown
    /\ deny_teardown' = FALSE
    /\ \E order \in Orders(approved) : sent' = ShutdownAll(order)
    /\ parsers' = [ch \in Channel |->
                      IF ch \in approved THEN "none" ELSE parsers[ch]]
    /\ approved' = {}
    /\ late' = 0
    /\ stale' = {}
    /\ main' = "recv"
    /\ UNCHANGED <<running, ctlVars, poisoned>>

NoDeny ==
    /\ main = "top" /\ running /\ ~deny_teardown
    /\ main' = "recv"
    /\ sent' = <<>>
    /\ UNCHANGED <<running, deny_teardown, ctlVars, approved, parsers, poisoned,
                   late, stale>>

(* Nothing received before the 200 ms receive timeout, or a datagram that   *)
(* TryCast rejects.                                                         *)
ReceiveNothing ==
    /\ sent' = <<>>
    /\ UNCHANGED <<approved, parsers, poisoned, late, stale>>

(* The stand-in for an operator's decision: whatever the switch says now.   *)
HandleRequest == approve

(* The last command was a deny, its flag has come through and the teardown  *)
(* it asked for is done.                                                    *)
DenyTaken == ~commanded /\ ctl # "flag" /\ flags = 0 /\ ~deny_teardown

(* The request is decided; CREATE and verdict are sent on.                  *)
Decide(ch, id) ==
    /\ poisoned' = poisoned \ {ch}
    /\ IF HandleRequest
       THEN /\ parsers' = [parsers EXCEPT ![ch] = "boundary"]
            /\ approved' = approved \cup {ch}
            /\ sent' = <<Create(ch, id), Approval(ch, APPROVAL_APPROVE, id)>>
            /\ stale' = IF DenyTaken THEN stale \cup {ch} ELSE stale
       ELSE /\ parsers' = [parsers EXCEPT ![ch] = "none"]
            /\ approved' = approved \ {ch}
            /\ sent' = <<Create(ch, id), Approval(ch, APPROVAL_DENY, id),
                         Shutdown(ch)>>
            /\ UNCHANGED stale
    /\ UNCHANGED late

(* Mutant: a fresh CREATE does not clear the poison of a reused channel.    *)
HandleCreate_KeepsPoison(ch, id) ==
    /\ id \in Id
    /\ parsers' = [parsers EXCEPT ![ch] = "boundary"]
    /\ approved' = approved \cup {ch}
    /\ sent' = <<Create(ch, id), Approval(ch, APPROVAL_APPROVE, id)>>
    /\ UNCHANGED <<poisoned, late, stale>>

HandleCreate(ch, id) == IF id \in Id THEN Decide(ch, id) ELSE ReceiveNothing

HandleShutdown(ch) ==
    /\ parsers' = [parsers EXCEPT ![ch] = "none"]
    /\ poisoned' = poisoned \ {ch}
    /\ approved' = approved \ {ch}
    /\ sent' = <<Shutdown(ch)>>
    /\ UNCHANGED <<late, stale>>

(* Mutant: the OT side is not told that the channel is gone.                *)
Poison_Silent(ch) ==
    /\ sent' = <<>>
    /\ parsers' = [parsers EXCEPT ![ch] = "none"]
    /\ approved' = approved \ {ch}
    /\ poisoned' = poisoned \cup {ch}
    /\ UNCHANGED <<late, stale>>

(* The stream on ch can no longer be trusted.                               *)
Poison(ch) ==
    /\ sent' = <<Shutdown(ch)>>
    /\ parsers' = [parsers EXCEPT ![ch] = "none"]
    /\ approved' = approved \ {ch}
    /\ poisoned' = poisoned \cup {ch}
    /\ UNCHANGED <<late, stale>>

(* Forward what is left of the payload, under the action it came with:      *)
(* nothing, or one datagram.                                                *)
Forward(f, rest) ==
    /\ parsers' = [parsers EXCEPT ![f.channel] = PositionAfter(f.data)]
    /\ sent' = [i \in DOMAIN rest |-> Carrying(f, rest[i])]
    /\ late' = IF deny_teardown THEN late + Len(rest) ELSE late
    /\ UNCHANGED <<approved, poisoned, stale>>

(* NONE, and every action without a case of its own.                        *)
HandleNone(f) ==
    LET ch == f.channel
        state == Parse(parsers[ch], f.data)
    IN  IF ch \in poisoned \/ ch \notin approved
        THEN ReceiveNothing
        ELSE CASE state = "STREAM_CORRUPTED" -> Poison(ch)
               [] state = "DENIED_DATA" -> Forward(f, Excise(f.data))
               [] OTHER -> Forward(f, <<f.data>>)

Handle(f) ==
    \/ f.action = "MALFORMED" /\ ReceiveNothing
    \/ f.action = "CREATE" /\ HandleCreate(f.channel, f.data)
    \/ f.action = "SHUTDOWN" /\ HandleShutdown(f.channel)
    \/ f.action \in {"NONE", "APPROVAL"} /\ HandleNone(f)

ReceiveTimeout ==
    /\ main = "recv"
    /\ ReceiveNothing
    /\ main' = "top"
    /\ UNCHANGED <<running, deny_teardown, ctlVars>>

(* Mutant: the flag is looked at only when the loop is idle.                *)
Receive_Eager(f) ==
    /\ main = "recv"
    /\ Handle(f)
    /\ main' = "recv"
    /\ UNCHANGED <<running, deny_teardown, ctlVars>>

Receive(f) ==
    /\ main = "recv"
    /\ Handle(f)
    /\ main' = "top"
    /\ UNCHANGED <<running, deny_teardown, ctlVars>>

(* running was found cleared: announce a teardown of every approved channel *)
(* and wait for the control thread.                                         *)
AnnounceStop ==
    /\ main = "top" /\ ~running
    /\ \E order \in Orders(approved) : sent' = ShutdownAll(order)
    /\ approved' = {}
    /\ main' = "join"
    /\ UNCHANGED <<running, deny_teardown, ctlVars, parsers, poisoned, late, stale>>

JoinControl ==
    /\ main = "join" /\ ctl = "done"
    /\ main' = "done"
    /\ sent' = <<>>
    /\ UNCHANGED <<running, deny_teardown, ctlVars, approved, parsers, poisoned,
                   late, stale>>

-----------------------------------------------------------------------------
(* The control thread and the signal handler.                               *)

(* A recognised command: SetApprove.  A deny still has to be flagged.       *)
SetApprove(mode) ==
    /\ ctl = "recv" /\ running
    /\ Len(unseen) < MaxUnseen
    /\ unseen' = Append(unseen, mode)
    /\ commanded' = mode
    /\ ctl' = IF mode THEN "recv" ELSE "flag"
    /\ UNCHANGED <<running, approve, deny_teardown, flags, mainVars>>

(* Mutant: a deny flips the switch and nothing else.                        *)
FlagDeny_Forgotten ==
    /\ ctl = "flag"
    /\ ctl' = "recv"
    /\ UNCHANGED <<running, approve, deny_teardown, unseen, flags, commanded,
                   mainVars>>

FlagDeny ==
    /\ ctl = "flag"
    /\ flags < MaxUnseen
    /\ flags' = flags + 1
    /\ ctl' = "recv"
    /\ UNCHANGED <<running, approve, deny_teardown, unseen, commanded, mainVars>>

(* The oldest store under way to approve_ reaches the main thread.          *)
ApproveSeen ==
    /\ unseen # <<>>
    /\ approve' = Head(unseen)
    /\ unseen' = Tail(unseen)
    /\ UNCHANGED <<running, ctl, deny_teardown, flags, commanded, mainVars>>

(* A store under way to deny_teardown takes its place among the exchanges.  *)
FlagSeen ==
    /\ flags > 0
    /\ deny_teardown' = TRUE
    /\ flags' = flags - 1
    /\ UNCHANGED <<running, ctl, approve, unseen, commanded, mainVars>>

(* Mutant: the listener goes on receiving when running is cleared.          *)
ControlStop_Never ==
    /\ ctl = "recv" /\ ~running
    /\ UNCHANGED vars

ControlStop ==
    /\ ctl = "recv" /\ ~running
    /\ ctl' = "done"
    /\ UNCHANGED <<running, approve, deny_teardown, unseen, flags, commanded,
                   mainVars>>

interrupt_handler ==
    /\ running
    /\ running' = FALSE
    /\ UNCHANGED <<deny_teardown, ctlVars, mainVars>>

-----------------------------------------------------------------------------
(* What may come in over UDP.  A payload under APPROVAL that starts like a  *)
(* verdict is no instruction: it can only go on with one, or be junk.       *)
Verdicts ==
    {Approval(ch, "-", p) : ch \in Channel, p \in Payload}
    \cup {Approval(ch, v, p) : ch \in Channel, p \in {"tail", "junk"},
                               v \in {APPROVAL_APPROVE, APPROVAL_DENY}}

Inbound ==
    {Create(ch, id) : ch \in Channel, id \in Id \cup {BadId}}
    \cup {Shutdown(ch) : ch \in Channel}
    \cup {None(ch, p) : ch \in Channel, p \in Payload}
    \cup Verdicts
    \cup {Malformed}

MainStep ==
    \/ DenyTeardown
    \/ NoDeny
    \/ ReceiveTimeout
    \/ \E f \in Inbound : Receive(f)
    \/ AnnounceStop
    \/ JoinControl

ControlStep ==
    \/ \E mode \in BOOLEAN : SetApprove(mode)
    \/ FlagDeny
    \/ ControlStop

StoreSeen == ApproveSeen \/ FlagSeen

Stopped ==
    /\ main = "done"
    /\ UNCHANGED vars

Next == MainStep \/ ControlStep \/ StoreSeen \/ interrupt_handler \/ Stopped

Spec == Init /\ [][Next]_vars

(* Each thread is scheduled, and both loops receive with a 200 ms timeout,  *)
(* so neither blocks: the main thread always takes another step, and the    *)
(* control thread always gets from SetApprove to the store and, once        *)
(* running is cleared, out of its loop.  A store is seen in finite time.    *)
FairSpec ==
    /\ Spec
    /\ WF_vars(MainStep)
    /\ WF_vars(ApproveSeen)
    /\ WF_vars(FlagSeen)
    /\ WF_vars(FlagDeny)
    /\ WF_vars(ControlStop)

-----------------------------------------------------------------------------
(* Properties.                                                              *)

(* Every variable stays in its range.                                       *)
TypeOK ==
    /\ running \in BOOLEAN
    /\ main \in {"top", "recv", "join", "done"}
    /\ ctl \in {"recv", "flag", "done"}
    /\ approve \in BOOLEAN
    /\ deny_teardown \in BOOLEAN
    /\ unseen \in Seq(BOOLEAN)
    /\ flags \in Nat
    /\ commanded \in BOOLEAN
    /\ approved \subseteq Channel
    /\ parsers \in [Channel -> Position]
    /\ poisoned \subseteq Channel
    /\ sent \in Seq(Frame)
    /\ late \in Nat
    /\ stale \subseteq Channel

(* Once the teardown of the last deny is done, every channel that is still  *)
(* approved was approved after that teardown, by a main loop that has seen  *)
(* the flag and not yet the switch: no CREATE slips in between the two      *)
(* stores in any other way, in whatever order they are seen (main.cpp       *)
(* 179-183, 194-204, 238-254).                                              *)
DenySettles == DenyTaken => approved \subseteq stale

(* "a deny disconnects live sessions and not just future requests"          *)
(* (main.cpp 151-153): once both stores of a deny are seen and the flag is  *)
(* taken, no channel is approved.  Refuted: see the stale switch above.     *)
DenyLeavesNothing == DenyTaken /\ unseen = <<>> => approved = {}

(* Between iterations a channel has a parser exactly when it is approved,   *)
(* and no approved channel is poisoned: the three containers of the main    *)
(* loop are erased and filled together on all of its paths, so a verdict    *)
(* never leaves a channel that is approved but dropped as poisoned, and no  *)
(* parser outlives the session it was reading.                              *)
ContainersAgree ==
    /\ approved \cap poisoned = {}
    /\ main \in {"top", "recv"} =>
          \A ch \in Channel : ch \in approved <=> parsers[ch] # "none"

(* After a deny has been flagged at most one more Guacamole datagram is     *)
(* forwarded before every approved channel is torn down: the flag is looked *)
(* at before every receive, not only when the loop is idle.                 *)
DenyIsPrompt == late <= 1

(* A deny always disconnects the running sessions (main.cpp 151-154).       *)
DenyDisconnects == (ctl = "flag") ~> (approved = {})

(* SIGTERM ends the process: both threads leave their loops.                *)
Stops == ~running ~> (main = "done")

(* The guard implements Gate, with approved as the set of open channels.    *)
G == INSTANCE Gate WITH open <- approved, sent <- sent

GateSpec == G!GateSpec

=============================================================================
