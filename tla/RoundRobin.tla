----------------------------- MODULE RoundRobin -----------------------------
(***************************************************************************)
(* How ChannelTable::Allocate chooses a channel.  The 65536 channel ids    *)
(* are 0 .. NumChannels-1.                                                 *)
(***************************************************************************)
EXTENDS Integers

CONSTANT NumChannels

ASSUME RoundRobinAssumption == NumChannels \in Nat \ {0}

ChannelIds == 0 .. NumChannels - 1

(* How far the cursor moves to reach ch: the cast to uint16_t wraps, so     *)
(* this is (ch - cursor) % NumChannels.                                     *)
Distance(cursor, ch) ==
    IF ch >= cursor THEN ch - cursor ELSE ch - cursor + NumChannels

(* The channel the scan finds: the first free one from the cursor on.       *)
NextFree(free, cursor) ==
    CHOOSE ch \in free :
        \A other \in free : Distance(cursor, ch) <= Distance(cursor, other)

(* Where the cursor goes from there, (ch + 1) % NumChannels.                *)
After(ch) == IF ch + 1 = NumChannels THEN 0 ELSE ch + 1

=============================================================================
