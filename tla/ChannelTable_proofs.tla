------------------------- MODULE ChannelTable_proofs ------------------------
(***************************************************************************)
(* Proofs that, whatever the width of a channel id, Allocate finds a free  *)
(* channel whenever there is one and hands no channel out twice within one *)
(* lap of the cursor.                                                      *)
(***************************************************************************)
EXTENDS ChannelTable, WellFoundedInduction, TLAPS

(* A nonempty set of natural numbers has a least element.                   *)
LEMMA LeastNatural ==
    ASSUME NEW T, T \subseteq Nat, T # {}
    PROVE  \E x \in T : \A y \in T : x <= y
<1> DEFINE R == OpToRel(<, Nat)
<1>1. \E x \in T : \A y \in T : ~(<<y, x>> \in R)
  <2> HIDE DEF R
  <2>1. IsWellFoundedOn(R, Nat)
    BY NatLessThanWellFounded DEF R
  <2> QED
    BY <2>1, WFMin
<1>2. \A x, y \in Nat : ~(<<y, x>> \in R) => x <= y
  BY DEF OpToRel
<1> QED
  BY <1>1, <1>2

(* Distances are natural numbers below NumChannels, and tell channels apart.*)
LEMMA DistanceProperties ==
    ASSUME NEW cursor \in ChannelIds
    PROVE  /\ \A ch \in ChannelIds : Distance(cursor, ch) \in ChannelIds
           /\ \A a, b \in ChannelIds :
                 Distance(cursor, a) = Distance(cursor, b) => a = b
BY RoundRobinAssumption DEF ChannelIds, Distance

(* The scan of Allocate finds a free channel if there is one, and it is the *)
(* first one from the cursor on.                                            *)
THEOREM ScanFindsFree ==
    ASSUME NEW free \in SUBSET ChannelIds, free # {}, NEW cursor \in ChannelIds
    PROVE  /\ NextFree(free, cursor) \in free
           /\ \A other \in free :
                 Distance(cursor, NextFree(free, cursor)) <= Distance(cursor, other)
<1> DEFINE T == {Distance(cursor, ch) : ch \in free}
<1>1. T \subseteq Nat /\ T # {}
  <2>1. \A ch \in free : Distance(cursor, ch) \in Nat
    <3>1. ChannelIds \subseteq Nat
      BY RoundRobinAssumption DEF ChannelIds
    <3>2. \A ch \in ChannelIds : Distance(cursor, ch) \in ChannelIds
      BY DistanceProperties
    <3> QED
      BY <3>1, <3>2
  <2> QED
    BY <2>1
<1>2. PICK x \in T : \A y \in T : x <= y
  BY <1>1, LeastNatural
<1>3. PICK ch \in free : x = Distance(cursor, ch)
  BY <1>2
<1>4. \A other \in free : Distance(cursor, ch) <= Distance(cursor, other)
  BY <1>2, <1>3
<1> QED
  BY <1>4 DEF NextFree

(* An Allocate that succeeds takes a channel that was free.                 *)
LEMMA AllocatesFree ==
    ASSUME TypeOK, Allocate
    PROVE  NextFree(Free, next_channel) \in ChannelIds
<1>1. Free \in SUBSET ChannelIds /\ Free # {} /\ next_channel \in ChannelIds
  BY DEF Free, Allocate, TypeOK
<1> HIDE DEF Free
<1>2. NextFree(Free, next_channel) \in Free
  BY <1>1, ScanFindsFree
<1> QED
  BY <1>1, <1>2

-----------------------------------------------------------------------------
(* The inductive invariant: since ch was allocated, the cursor has passed   *)
(* every channel but those between the cursor and ch.                       *)
LapInv ==
    \A ch, other \in ChannelIds :
        other # ch /\ other \notin passed[ch] =>
            Distance(next_channel, other) < Distance(next_channel, ch)

(* One operation keeps every variable in its range.                         *)
LEMMA TypeStep == TypeOK /\ [Next]_vars => TypeOK'
<1> SUFFICES ASSUME TypeOK, [Next]_vars PROVE TypeOK'
  OBVIOUS
<1>1. CASE Allocate
  <2> DEFINE ch == NextFree(Free, next_channel)
  <2>1. ch \in ChannelIds
    BY <1>1, AllocatesFree
  <2>2. Scanned(ch) \subseteq ChannelIds
    BY DEF Scanned
  <2> HIDE DEF ch
  <2>3. After(ch) \in ChannelIds
    BY <2>1, RoundRobinAssumption DEF After, ChannelIds
  <2>4. bound' \subseteq ChannelIds /\ next_channel' \in ChannelIds
    BY <1>1, <2>1, <2>3 DEF Allocate, TypeOK, ch
  <2>5. passed' \in [ChannelIds -> SUBSET ChannelIds]
    BY <1>1, <2>2 DEF Allocate, TypeOK, ch
  <2>6. lap' \subseteq ChannelIds
    BY <1>1, <2>1, <2>2 DEF Allocate, TypeOK, ch
  <2>7. freed' \subseteq ChannelIds
    BY <1>1 DEF Allocate
  <2> QED
    BY <2>4, <2>5, <2>6, <2>7 DEF TypeOK
<1>2. CASE AllocateFails
  BY <1>2 DEF AllocateFails, vars, TypeOK
<1>3. ASSUME NEW ch \in ChannelIds, Remove(ch) PROVE TypeOK'
  BY <1>3, RoundRobinAssumption DEF Remove, TypeOK
<1>4. CASE UNCHANGED vars
  BY <1>4 DEF vars, TypeOK
<1> QED
  BY <1>1, <1>2, <1>3, <1>4 DEF Next

(* The cursor of a channel table is always a channel id, and everything     *)
(* else stays in its range, at whatever width ids have.                     *)
THEOREM TypeCorrect == Spec => []TypeOK
<1>1. Init => TypeOK
  BY RoundRobinAssumption DEF Init, TypeOK, ChannelIds
<1> QED
  BY <1>1, TypeStep, PTL DEF Spec

(* One operation keeps the account of the lap, and an Allocate that reuses  *)
(* a channel completes its lap.                                             *)
LEMMA LapStep ==
    TypeOK /\ LapInv /\ FullLap /\ [Next]_vars => (LapInv /\ FullLap)'
<1> SUFFICES ASSUME TypeOK, LapInv, FullLap, [Next]_vars
             PROVE  (LapInv /\ FullLap)'
  OBVIOUS
<1>1. CASE Allocate
  <2> DEFINE ch == NextFree(Free, next_channel)
  <2>1. ch \in ChannelIds
    BY <1>1, AllocatesFree
  <2> HIDE DEF ch
  <2>2. /\ next_channel' = After(ch)
        /\ lap' = passed[ch] \cup Scanned(ch)
        /\ \A other \in ChannelIds :
              passed'[other] = IF other = ch THEN {}
                                             ELSE passed[other] \cup Scanned(ch)
    BY <1>1 DEF Allocate, ch
  <2>3. FullLap'
    <3>1. \A other \in ChannelIds : other \in passed[ch] \cup Scanned(ch)
      BY <2>1, RoundRobinAssumption
         DEF LapInv, Scanned, TypeOK, Distance, ChannelIds
    <3>2. passed[ch] \cup Scanned(ch) \subseteq ChannelIds
      BY <2>1 DEF TypeOK, Scanned
    <3> QED
      BY <2>2, <3>1, <3>2 DEF FullLap
  <2>4. ASSUME NEW c \in ChannelIds, NEW other \in ChannelIds,
               other # c, other \notin passed'[c]
        PROVE  Distance(After(ch), other) < Distance(After(ch), c)
    <3>1. CASE c = ch
      BY <2>1, <2>4, <3>1, RoundRobinAssumption
         DEF After, Distance, ChannelIds
    <3>2. CASE c # ch
      <4>1. /\ Distance(next_channel, other) < Distance(next_channel, c)
            /\ ~(Distance(next_channel, other) <= Distance(next_channel, ch))
        BY <2>2, <2>4, <3>2 DEF LapInv, Scanned
      <4> QED
        BY <2>1, <4>1, RoundRobinAssumption
           DEF TypeOK, After, Distance, ChannelIds
    <3> QED
      BY <3>1, <3>2
  <2>5. LapInv'
    BY <2>2, <2>4 DEF LapInv
  <2> QED
    BY <2>3, <2>5
<1>2. CASE AllocateFails
  BY <1>2 DEF AllocateFails, vars, LapInv, FullLap
<1>3. ASSUME NEW ch \in ChannelIds, Remove(ch) PROVE (LapInv /\ FullLap)'
  BY <1>3 DEF Remove, LapInv, FullLap
<1>4. CASE UNCHANGED vars
  BY <1>4 DEF vars, LapInv, FullLap
<1> QED
  BY <1>1, <1>2, <1>3, <1>4 DEF Next

(* Between two allocations of a channel the cursor passes every channel,    *)
(* for every number of channels, 65536 included.                            *)
THEOREM FullLapCorrect == Spec => []FullLap
<1>1. Init => LapInv /\ FullLap
  BY DEF Init, LapInv, FullLap
<1> QED
  BY <1>1, LapStep, TypeCorrect, PTL DEF Spec

=============================================================================
