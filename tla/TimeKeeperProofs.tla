-------------------------- MODULE TimeKeeperProofs --------------------------
(***************************************************************************)
(* Proofs about TimeKeeper, for any lengths of minute, year and interval,  *)
(* any stack and any time of boot.                                         *)
(***************************************************************************)
EXTENDS TimeKeeper, TLAPS

-----------------------------------------------------------------------------
(* The clock *)

Wake == BootTime .. BootTime + MaxTime

(* The clock counts from the boot, until a synchronisation sets it; then   *)
(* it shows the real time.                                                 *)
Set == sys = real
Unset == sys = real - BootTime

(* The next synchronisation falls due one interval after the last attempt, *)
(* on whichever of its two times the clock is.                             *)
ClockInv ==
    /\ real \in Wake
    /\ Set \/ Unset
    /\ next \in Nat
    /\ tried \in Wake \cup {None} /\ tried <= real
    /\ IF tried = None THEN pc = "boot" /\ next = 0
       ELSE pc # "boot" /\ next - sys = tried + SyncInterval - real

(* What a reading of the clock does to it.                                 *)
LEMMA NowKeepsClock ==
    ASSUME ClockInv, tried # None, Now, real' = real
    PROVE  /\ sys' = real' \/ sys' = real' - BootTime
           /\ next' \in Nat
           /\ tried' \in Wake /\ tried' <= real'
           /\ next' - sys' = tried' + SyncInterval - real'
           /\ tried' \in {tried, real}
           /\ tried' # tried => tried' - tried >= SyncInterval
           /\ sys' # sys => tried' = real
  <1> USE LengthsAssumption DEF ClockInv, Set, Unset, Wake, None
  <1>1. CASE next <= sys
    <2>1. Synchronise
      BY <1>1 DEF Now
    <2> QED  BY <1>1, <2>1 DEF Synchronise
  <1>2. CASE ~(next <= sys)
    <2>1. UNCHANGED clock
      BY <1>2 DEF Now
    <2> QED  BY <2>1 DEF clock
  <1> QED  BY <1>1, <1>2

LEMMA ClockInvariant == ClockInv /\ [Next]_vars => ClockInv'
  <1> SUFFICES ASSUME ClockInv, [Next]_vars PROVE ClockInv'
    OBVIOUS
  <1>1. CASE Tick
    BY <1>1, LengthsAssumption DEF Tick, ClockInv, Set, Unset, Wake, None
  <1>2. CASE StartClock
    BY <1>2, LengthsAssumption DEF StartClock, ClockInv, Set, Unset, Wake, None
  <1>3. CASE Call \/ Overflow
    BY <1>3 DEF Call, Overflow, ClockInv, clock, Set, Unset, Wake
  <1>4. ASSUME NEW f \in Fields, ReadField(f) PROVE ClockInv'
    <2>1. Now /\ real' = real /\ pc = "read" /\ pc' \in {"check", "read"}
      BY <1>4 DEF ReadField
    <2> QED  BY <2>1, NowKeepsClock, LengthsAssumption DEF ClockInv, Set, Unset, Wake, None
  <1>5. CASE CheckYear
    <2>1. Now /\ real' = real /\ pc = "check" /\ pc' \in {"again", "returned", "reset"}
      BY <1>5 DEF CheckYear, Return
    <2> QED  BY <2>1, NowKeepsClock, LengthsAssumption DEF ClockInv, Set, Unset, Wake, None
  <1>6. CASE UNCHANGED vars
    BY <1>6 DEF vars, clock, ClockInv, Set, Unset, Wake
  <1> QED  BY <1>1, <1>2, <1>3, <1>4, <1>5, <1>6 DEF Next

LEMMA ClockAlways == Spec => []ClockInv
  <1>1. Init => ClockInv
    BY LengthsAssumption DEF Init, ClockInv, Set, Unset, Wake, None
  <1> QED  BY <1>1, ClockInvariant, PTL DEF Spec

(* An attempt that was made is never followed by another within the        *)
(* interval, whether it succeeded or not, and whichever reading makes it.  *)
THEOREM SyncsAreSpaced == Spec => SyncsSpaced
  <1>1. ClockInv /\ [Next]_vars
          => [tried' # tried /\ tried # None => tried' - tried >= SyncInterval]_vars
    <2> SUFFICES ASSUME ClockInv, Next, tried' # tried, tried # None
                 PROVE  tried' - tried >= SyncInterval
      BY DEF vars, clock
    <2>1. Now /\ real' = real
      BY DEF Next, Tick, StartClock, Call, Overflow, ReadField, CheckYear, clock, ClockInv
    <2> QED  BY <2>1, NowKeepsClock
  <1> QED  BY <1>1, ClockAlways, PTL DEF Spec, SyncsSpaced

-----------------------------------------------------------------------------
(* Types *)

LEMMA FieldType ==
    ASSUME NEW f \in Fields, NEW t \in Nat
    PROVE  FieldOf(f, t) \in Nat
  <1>1. \A a \in Nat, b \in Nat \ {0} : a \div b \in Nat /\ a % b \in Nat
    OBVIOUS
  <1> QED  BY <1>1, LengthsAssumption DEF FieldOf, Fields

(* What does not concern the clock.                                        *)
CallsTypeOK ==
    /\ called \in Wake \cup {None}
    /\ pc \in {"boot", "work", "again", "read", "check", "returned", "reset"}
    /\ depth \in 0 .. MaxDepth
    /\ stamp \in [Fields -> Nat \cup {None}]
    /\ result \in {"none", "true", "false"}

LEMMA ClockType == ClockInv => sys \in 0 .. BootTime + MaxTime
                               /\ next \in 0 .. BootTime + MaxTime + SyncInterval
  BY LengthsAssumption DEF ClockInv, Set, Unset, Wake, None

LEMMA CallsTypeInvariant == ClockInv /\ ClockInv' /\ CallsTypeOK /\ [Next]_vars => CallsTypeOK'
  <1> SUFFICES ASSUME ClockInv, ClockInv', CallsTypeOK, [Next]_vars PROVE CallsTypeOK'
    OBVIOUS
  <1> USE DEF CallsTypeOK
  <1>1. CASE Tick
    BY <1>1 DEF Tick
  <1>2. CASE StartClock
    BY <1>2 DEF StartClock
  <1>3. CASE Call
    <2>1. called' \in Wake /\ depth' \in 0 .. MaxDepth
      BY <1>3, LengthsAssumption DEF Call, ClockInv
    <2> QED  BY <1>3, <2>1 DEF Call, Blank
  <1>4. CASE Overflow
    BY <1>4 DEF Overflow
  <1>5. ASSUME NEW f \in Fields, ReadField(f) PROVE CallsTypeOK'
    <2>1. FieldOf(f, sys') \in Nat
      BY FieldType, LengthsAssumption DEF ClockInv, Set, Unset, Wake
    <2> QED  BY <1>5, <2>1 DEF ReadField
  <1>6. CASE CheckYear
    BY <1>6 DEF CheckYear, Return
  <1>7. CASE UNCHANGED vars
    BY <1>7 DEF vars
  <1> QED  BY <1>1, <1>2, <1>3, <1>4, <1>5, <1>6, <1>7 DEF Next

LEMMA CallsTypeAlways == Spec => []CallsTypeOK
  <1>1. Init => CallsTypeOK
    BY LengthsAssumption DEF Init, CallsTypeOK, Blank
  <1> QED  BY <1>1, CallsTypeInvariant, ClockAlways, PTL DEF Spec

(* Every variable keeps its type; the clock never lies beyond the wake, nor *)
(* the next synchronisation more than an interval beyond it.               *)
THEOREM TypeCorrect == Spec => []TypeOK
  <1>1. ClockInv /\ CallsTypeOK => TypeOK
    BY ClockType DEF ClockInv, CallsTypeOK, TypeOK, Wake
  <1> QED  BY <1>1, ClockAlways, CallsTypeAlways, PTL

-----------------------------------------------------------------------------
(* Stamps *)

(* A year is past the first exactly when the clock is set: a wake is       *)
(* shorter than a year, and the boot is not in the first one.              *)
LEMMA YearTellsSet ==
    ASSUME ClockInv
    PROVE  (FieldOf("year", sys) < 1 <=> Unset) /\ (Set <=> ~Unset)
  <1>1. \A t \in Nat : t \div YearLength < 1 <=> t < YearLength
    BY LengthsAssumption
  <1> QED  BY <1>1, LengthsAssumption DEF FieldOf, ClockInv, Set, Unset, Wake

(* A year of 1970 in the stamp of a call under way is explained by a clock *)
(* that is not set yet, or by an attempt since the call began.             *)
EpochInv ==
    /\ pc = "returned" => Set
    /\ pc \in {"read", "check", "returned"} =>
         /\ called # None /\ called <= real
         /\ stamp["year"] \in Nat /\ stamp["year"] < 1 => Unset \/ tried >= called
    /\ pc \in {"check", "returned"} => stamp["year"] # None

LEMMA EpochInvariant ==
    ClockInv /\ ClockInv' /\ CallsTypeOK /\ CallsTypeOK' /\ EpochInv /\ [Next]_vars => EpochInv'
  <1> SUFFICES ASSUME ClockInv, ClockInv', CallsTypeOK, CallsTypeOK', EpochInv, [Next]_vars
               PROVE  EpochInv'
    OBVIOUS
  <1>1. (FieldOf("year", sys') < 1 <=> Unset') /\ (Set' <=> ~Unset')
    <2>1. \A t \in Nat : t \div YearLength < 1 <=> t < YearLength
      BY LengthsAssumption
    <2> QED  BY <2>1, LengthsAssumption DEF FieldOf, ClockInv, Set, Unset, Wake
  <1> USE LengthsAssumption DEF EpochInv
  <1>2. CASE Tick
    BY <1>2 DEF Tick, Ended, ClockInv, CallsTypeOK, Wake, None, Unset
  <1>3. CASE StartClock \/ Overflow
    BY <1>3 DEF StartClock, Overflow
  <1>4. CASE Call
    BY <1>4 DEF Call, Blank, Fields, ClockInv, Wake, None
  <1>5. ASSUME NEW f \in Fields, ReadField(f) PROVE EpochInv'
    <2>1. /\ pc = "read" /\ pc' \in {"read", "check"} /\ Now /\ UNCHANGED <<real, called>>
          /\ stamp' = [stamp EXCEPT ![f] = FieldOf(f, sys')]
          /\ pc' = "check" => \A g \in Fields \ {f} : stamp[g] # None
      BY <1>5 DEF ReadField
    <2>2. FieldOf(f, sys') \in Nat
      BY FieldType DEF ClockInv, Set, Unset, Wake
    <2>3. called' # None /\ called' <= real'
      BY <2>1
    <2>4. pc' = "check" => stamp'["year"] # None
      BY <2>1, <2>2 DEF CallsTypeOK, Fields, None
    <2>5. ASSUME stamp'["year"] < 1, stamp'["year"] \in Nat PROVE Unset' \/ tried' >= called'
      <3>1. CASE f = "year"
        BY <2>1, <2>5, <3>1, <1>1 DEF CallsTypeOK, Fields
      <3>2. CASE f # "year"
        <4>1. stamp["year"] = stamp'["year"]
          BY <2>1, <3>2 DEF CallsTypeOK, Fields
        <4>2. sys' # sys => tried' = real'
          BY <2>1, NowKeepsClock DEF ClockInv
        <4>3. tried' \in {tried, real}
          BY <2>1, NowKeepsClock DEF ClockInv
        <4> QED  BY <2>1, <2>3, <2>5, <4>1, <4>2, <4>3 DEF Unset, ClockInv, CallsTypeOK, Wake, None
      <3> QED  BY <3>1, <3>2
    <2> QED  BY <2>1, <2>3, <2>4, <2>5
  <1>6. CASE CheckYear
    <2>1. /\ pc = "check" /\ pc' \in {"again", "returned", "reset"} /\ Now
          /\ UNCHANGED <<real, called, stamp>>
          /\ pc' = "returned" => ~(FieldOf("year", sys') < 1)
      BY <1>6 DEF CheckYear, Return
    <2>2. pc' = "returned" => Set'
      BY <2>1, <1>1
    <2>3. (sys' # sys => tried' = real') /\ tried' \in {tried, real}
      BY <2>1, NowKeepsClock DEF ClockInv
    <2> QED  BY <2>1, <2>2, <2>3 DEF Unset, ClockInv, CallsTypeOK, Wake, None
  <1>7. CASE UNCHANGED vars
    BY <1>7 DEF vars, clock, Set, Unset
  <1> QED  BY <1>2, <1>3, <1>4, <1>5, <1>6, <1>7 DEF Next

LEMMA EpochAlways == Spec => []EpochInv
  <1>1. Init => EpochInv
    BY DEF Init, EpochInv
  <1> QED  BY <1>1, EpochInvariant, ClockAlways, CallsTypeAlways, PTL DEF Spec

(* However many synchronisations fail, and in whichever call they fail, a   *)
(* stamp is handed out only by a clock that shows the real time.           *)
THEOREM AlwaysReturnsWithClockSet == Spec => []ReturnsWithClockSet
  <1>1. EpochInv => ReturnsWithClockSet
    BY DEF EpochInv, ReturnsWithClockSet, Set
  <1> QED  BY <1>1, EpochAlways, PTL

(* A stamp of 1970 is handed out only when an attempt to synchronise fell   *)
(* between the readings of the call that made it.                          *)
THEOREM EpochOnlyEverAcrossSync == Spec => []EpochOnlyAcrossSync
  <1>1. ClockInv /\ CallsTypeOK /\ EpochInv => EpochOnlyAcrossSync
    <2> SUFFICES ASSUME ClockInv, CallsTypeOK, EpochInv, pc = "returned", stamp["year"] < 1
                 PROVE  tried >= called
      BY DEF EpochOnlyAcrossSync
    <2>1. stamp["year"] \in Nat
      BY DEF CallsTypeOK, EpochInv, Fields
    <2> QED  BY <2>1, YearTellsSet DEF EpochInv
  <1> QED  BY <1>1, ClockAlways, CallsTypeAlways, EpochAlways, PTL
=============================================================================
