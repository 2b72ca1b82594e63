---------------------------- MODULE ChannelTable ----------------------------
(***************************************************************************)
(* ChannelTable as gmlbroker uses it: connections come and go, each gets a *)
(* channel from Allocate and gives it back with Remove.  Every operation   *)
(* holds the table's mutex, so each is one step.                           *)
(***************************************************************************)
EXTENDS RoundRobin

VARIABLES
    bound,        \* the channels in channel_to_fd
    next_channel, \* the cursor
    passed,       \* history: the channels the cursor has passed since each channel
                  \* was last allocated
    lap,          \* history: those it had passed when the last Allocate reused one
    freed         \* history: the channels freed since the last Allocate

vars == <<bound, next_channel, passed, lap, freed>>

Init ==
    /\ bound = {}
    /\ next_channel = 0
    /\ passed = [ch \in ChannelIds |-> ChannelIds]
    /\ lap = ChannelIds
    /\ freed = {}

Free == ChannelIds \ bound

(* The channels the scan steps over or takes.                               *)
Scanned(ch) ==
    {other \in ChannelIds :
        Distance(next_channel, other) <= Distance(next_channel, ch)}

(* Mutant: the cursor stays where it is, so the lowest free channel is      *)
(* taken (lowest-free allocation).                                          *)
Allocate_LowestFree ==
    /\ Free # {}
    /\ LET ch == NextFree(Free, 0)
       IN  /\ bound' = bound \cup {ch}
           /\ next_channel' = 0
           /\ passed' = [other \in ChannelIds |->
                            IF other = ch THEN {} ELSE passed[other] \cup {ch}]
           /\ lap' = passed[ch] \cup {ch}
    /\ freed' = {}

Allocate ==
    /\ Free # {}
    /\ LET ch == NextFree(Free, next_channel)
       IN  /\ bound' = bound \cup {ch}
           /\ next_channel' = After(ch)
           /\ passed' = [other \in ChannelIds |->
                            IF other = ch THEN {} ELSE passed[other] \cup Scanned(ch)]
           /\ lap' = passed[ch] \cup Scanned(ch)
    /\ freed' = {}

(* All channels are in use: the client is rejected.                         *)
AllocateFails ==
    /\ Free = {}
    /\ UNCHANGED vars

Remove(ch) ==
    /\ ch \in bound
    /\ bound' = bound \ {ch}
    /\ freed' = freed \cup {ch}
    /\ UNCHANGED <<next_channel, passed, lap>>

Next == Allocate \/ AllocateFails \/ \E ch \in ChannelIds : Remove(ch)

Spec == Init /\ [][Next]_vars

-----------------------------------------------------------------------------
(* Properties.                                                              *)

(* Every variable stays in its range; the cursor is always a channel id.    *)
TypeOK ==
    /\ bound \subseteq ChannelIds
    /\ next_channel \in ChannelIds
    /\ passed \in [ChannelIds -> SUBSET ChannelIds]
    /\ lap \subseteq ChannelIds
    /\ freed \subseteq ChannelIds

(* Between two allocations of a channel the cursor has passed every other   *)
(* channel: it was handed out, or in use when its turn came.  (The channel  *)
(* may still have been freed only just before the cursor came back to it.)  *)
FullLap == lap = ChannelIds

(* "A freed channel is not reused until the cursor wraps": what was freed   *)
(* since the last Allocate is not what the next one takes, as long as there *)
(* is another channel to take.  Refuted: the lap counts from its allocation.*)
FreedRests ==
    Free \ freed # {} => NextFree(Free, next_channel) \notin freed

=============================================================================
