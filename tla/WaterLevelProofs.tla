-------------------------- MODULE WaterLevelProofs --------------------------
(***************************************************************************)
(* Proofs about WaterLevel, for every set of distances, every interval and *)
(* every word.                                                             *)
(***************************************************************************)
EXTENDS WaterLevel, TLAPS

(* Both edges of the band are apart, and zeroes are not far.               *)
LEMMA BandIsOpen == \A mm \in Nat : ~(Far(mm) /\ Near(mm)) /\ ~Far(0)
  BY DEF Far, Near, Inches

LEMMA AfterType ==
    ASSUME NEW d \in Durations, millis \in 0 .. Word - 1
    PROVE  After(d) \in 0 .. Word - 1
  BY TankAssumption DEF After

LEMMA SampleType ==
    ASSUME TypeOK, Sample
    PROVE  /\ node' = node /\ distance' = distance /\ answers' = answers
           /\ millis' \in 0 .. Word - 1
           /\ i2c_rx_buf' \in Distances \cup {0}
           /\ relay_flag' \in {0, 1} /\ relay' \in {"unset", "low", "high"}
           /\ {wentFar', wentNear'} \subseteq BOOLEAN
  <1>1. millis' \in 0 .. Word - 1
    BY AfterType DEF Sample, TypeOK
  <1>2. i2c_rx_buf' \in Distances \cup {0}
    BY DEF Sample, SensorRead, TypeOK
  <1>3. relay_flag' \in {0, 1} /\ relay' \in {"unset", "low", "high"}
    BY DEF Sample, Switch, TypeOK
  <1>4. (Far(distance) \in BOOLEAN) /\ (Near(distance) \in BOOLEAN)
    BY DEF Far, Near
  <1>5. {wentFar', wentNear'} \subseteq BOOLEAN
    BY <1>4, Zenon DEF Sample, Switch, TypeOK, seen
  <1> QED  BY <1>1, <1>2, <1>3, <1>5 DEF Sample, water

LEMMA TypeInvariant == TypeOK /\ [Next]_vars => TypeOK'
  <1> SUFFICES ASSUME TypeOK, [Next]_vars PROVE TypeOK'
    OBVIOUS
  <1>1. CASE SampleOnTimer
    BY <1>1, SampleType DEF SampleOnTimer, TypeOK
  <1>2. CASE SampleOnWake
    BY <1>2, SampleType DEF SampleOnWake, TypeOK
  <1>3. CASE Tick
    <2>1. 1 \in Nat /\ millis' \in 0 .. Word - 1
      BY <1>3, TankAssumption DEF Tick, After, TypeOK
    <2> QED  BY <1>3, <2>1 DEF Tick, TypeOK, water, switch, seen
  <1>4. CASE Restart
    <2>1. {wentFar', wentNear'} \subseteq BOOLEAN
      BY <1>4, Zenon DEF Restart, Boot
    <2> QED  BY <1>4, <2>1, TankAssumption DEF Restart, Boot, TypeOK, water
  <1>5. CASE WaterMoves
    <2>1. {wentFar', wentNear'} \subseteq BOOLEAN
      BY <1>5, Zenon DEF WaterMoves
    <2> QED  BY <1>5, <2>1 DEF WaterMoves, TypeOK, timer, switch
  <1>6. CASE SensorFails
    BY <1>6 DEF SensorFails, TypeOK, timer, switch, seen
  <1>7. CASE UNCHANGED vars
    BY <1>7 DEF vars, TypeOK, timer, water, switch, seen
  <1> QED  BY <1>1, <1>2, <1>3, <1>4, <1>5, <1>6, <1>7 DEF Next, Device

(* Every variable of both nodes keeps its type: the clock and the timer    *)
(* stay in their word, the buffer holds a distance or the zeroes of boot.  *)
THEOREM TypeCorrect == Spec => []TypeOK
  <1>1. Init => TypeOK
    <2> SUFFICES ASSUME Init PROVE TypeOK
      OBVIOUS
    <2>1. {wentFar, wentNear} \subseteq BOOLEAN
      BY Zenon DEF Init
    <2> QED  BY <2>1, TankAssumption DEF Init, TypeOK
  <1> QED  BY <1>1, TypeInvariant, PTL DEF Spec

-----------------------------------------------------------------------------
(* The sensor *)

(* What was read last has been acted on.                                   *)
ActedOn ==
    /\ relay_flag = 0 => ~Far(i2c_rx_buf)
    /\ relay_flag = 1 => ~Near(i2c_rx_buf)

LEMMA SampleActsOn ==
    ASSUME TypeOK, TypeOK', Sample
    PROVE  ActedOn'
  <1>1. i2c_rx_buf' \in Nat
    BY TankAssumption DEF TypeOK
  <1>2. /\ relay_flag' = 0 => ~Far(i2c_rx_buf')
        /\ relay_flag' = 1 => ~Near(i2c_rx_buf')
    BY <1>1, BandIsOpen DEF Sample, Switch, TypeOK
  <1> QED  BY <1>2 DEF ActedOn, Far, Near, Inches

LEMMA ActedOnInvariant == TypeOK /\ TypeOK' /\ ActedOn /\ [Next]_vars => ActedOn'
  <1> SUFFICES ASSUME TypeOK, TypeOK', ActedOn, [Next]_vars PROVE ActedOn'
    OBVIOUS
  <1>1. CASE SampleOnTimer \/ SampleOnWake
    BY <1>1, SampleActsOn DEF SampleOnTimer, SampleOnWake
  <1>2. CASE Restart
    BY <1>2, BandIsOpen DEF Restart, Boot, ActedOn, Far, Near, Inches
  <1>3. CASE Tick \/ WaterMoves \/ SensorFails \/ UNCHANGED vars
    <2>1. UNCHANGED <<relay_flag, i2c_rx_buf>>
      BY <1>3 DEF Tick, WaterMoves, SensorFails, vars, switch
    <2> QED  BY <2>1 DEF ActedOn, Far, Near, Inches
  <1> QED  BY <1>1, <1>2, <1>3 DEF Next, Device

LEMMA ActedOnAlways == Spec => []ActedOn
  <1>1. Init => ActedOn
    BY BandIsOpen DEF Init, ActedOn
  <1> QED  BY <1>1, ActedOnInvariant, TypeCorrect, PTL DEF Spec

(* A sample without an answer leaves the relay and its flag alone.         *)
THEOREM SilentSensorNeverMovesAnything == Spec => SilentSensorMovesNothing
  <1>1. ActedOn /\ TypeOK => [~answers /\ Sample => UNCHANGED <<relay_flag, relay>>]_vars
    <2> SUFFICES ASSUME ActedOn, TypeOK, ~answers, Sample
                 PROVE  UNCHANGED <<relay_flag, relay>>
      OBVIOUS
    <2>1. i2c_rx_buf' = i2c_rx_buf
      BY DEF Sample, SensorRead
    <2>2. Switch(i2c_rx_buf)
      BY <2>1 DEF Sample, Switch
    <2> QED  BY <2>2 DEF Switch, ActedOn
  <1> QED  BY <1>1, ActedOnAlways, TypeCorrect, PTL DEF SilentSensorMovesNothing

-----------------------------------------------------------------------------
(* The relay *)

(* The flag says what the relay was told, and the observers include where  *)
(* the water is now.                                                       *)
FlagTellsRelay == relay_flag = 1 <=> relay = "low"
SeenSinceSwitch ==
    /\ relay = "low" /\ Near(distance) => wentNear
    /\ relay = "high" /\ Far(distance) => wentFar

BandInv == FlagTellsRelay /\ SeenSinceSwitch

LEMMA SampleKeepsBand ==
    ASSUME TypeOK, BandInv, Sample
    PROVE  BandInv'
  <1>1. distance' = distance
    BY DEF Sample, water
  <1>2. FlagTellsRelay'
    BY DEF Sample, Switch, BandInv, FlagTellsRelay, seen, TypeOK
  <1>3. /\ relay' = "low" /\ Near(distance) => wentNear'
        /\ relay' = "high" /\ Far(distance) => wentFar'
    BY DEF Sample, Switch, BandInv, SeenSinceSwitch, seen
  <1> QED  BY <1>1, <1>2, <1>3 DEF BandInv, SeenSinceSwitch, Near, Far, Inches

LEMMA BandInvariant == TypeOK /\ BandInv /\ [Next]_vars => BandInv'
  <1> SUFFICES ASSUME TypeOK, BandInv, [Next]_vars PROVE BandInv'
    OBVIOUS
  <1> USE DEF BandInv, FlagTellsRelay
  <1>1. CASE SampleOnTimer \/ SampleOnWake
    BY <1>1, SampleKeepsBand DEF SampleOnTimer, SampleOnWake
  <1>2. CASE Restart
    BY <1>2 DEF Restart, Boot, SeenSinceSwitch
  <1>3. CASE WaterMoves
    <2>1. /\ relay = "low" /\ Near(distance') => wentNear'
          /\ relay = "high" /\ Far(distance') => wentFar'
      BY <1>3 DEF WaterMoves
    <2> QED  BY <1>3, <2>1 DEF WaterMoves, switch, SeenSinceSwitch, Near, Far, Inches
  <1>4. CASE Tick \/ SensorFails \/ UNCHANGED vars
    <2>1. UNCHANGED <<distance, switch, seen>>
      BY <1>4 DEF Tick, SensorFails, vars, water
    <2> QED  BY <2>1 DEF switch, seen, SeenSinceSwitch, Near, Far, Inches
  <1> QED  BY <1>1, <1>2, <1>3, <1>4 DEF Next, Device

LEMMA BandAlways == Spec => []BandInv
  <1>1. Init => BandInv
    BY DEF Init, BandInv, FlagTellsRelay, SeenSinceSwitch
  <1> QED  BY <1>1, BandInvariant, TypeCorrect, PTL DEF Spec

(* The relay is released only once the water was near, and set again only  *)
(* once it was far, for every set of distances: between two switchings it  *)
(* crosses the whole band.                                                 *)
THEOREM SwitchesAlwaysSpanTheBand == Spec => SwitchesSpanTheBand
  <1> DEFINE Spans ==
        relay # "unset" /\ relay' \notin {relay, "unset"} =>
            IF relay' = "high" THEN wentNear ELSE wentFar
  <1>1. TypeOK /\ TypeOK' /\ ActedOn /\ BandInv /\ [Next]_vars => [Spans]_vars
    <2> SUFFICES ASSUME TypeOK, TypeOK', ActedOn, BandInv, [Next]_vars,
                        relay # "unset", relay' \notin {relay, "unset"}
                 PROVE  IF relay' = "high" THEN wentNear ELSE wentFar
      OBVIOUS
    <2>1. Sample
      BY DEF Next, Device, SampleOnTimer, SampleOnWake, Tick, Restart, Boot,
             WaterMoves, SensorFails, vars, switch
    <2>2. Switch(i2c_rx_buf') /\ (answers => i2c_rx_buf' = distance)
                              /\ (~answers => i2c_rx_buf' = i2c_rx_buf)
      BY <2>1 DEF Sample, SensorRead
    <2>3. CASE answers
      <3>1. Switch(distance)
        BY <2>2, <2>3 DEF Switch
      <3> QED  BY <3>1 DEF Switch, BandInv, FlagTellsRelay, SeenSinceSwitch, TypeOK
    <2>4. CASE ~answers
      <3>1. Switch(i2c_rx_buf)
        BY <2>2, <2>4 DEF Switch
      <3> QED  BY <3>1 DEF Switch, ActedOn
    <2> QED  BY <2>3, <2>4 DEF TypeOK
  <1> QED  BY <1>1, ActedOnAlways, BandAlways, TypeCorrect, PTL
              DEF SwitchesSpanTheBand, Spec

-----------------------------------------------------------------------------
(* The integrated node *)

(* Before the one sample of a wake the flag is as it was at boot, and from  *)
(* then on the clock is past zero.                                         *)
FlagClearAtBoot == node = "integrated" /\ millis = 0 => relay_flag = 0

IntegratedInv == FlagClearAtBoot /\ IntegratedNeverReleases

LEMMA IntegratedInvariant == TypeOK /\ IntegratedInv /\ [Next]_vars => IntegratedInv'
  <1> SUFFICES ASSUME TypeOK, IntegratedInv, [Next]_vars PROVE IntegratedInv'
    OBVIOUS
  <1> USE DEF IntegratedInv, FlagClearAtBoot, IntegratedNeverReleases
  <1>1. CASE SampleOnTimer
    BY <1>1 DEF SampleOnTimer, Sample
  <1>2. CASE SampleOnWake
    <2>1. relay_flag = 0 /\ millis' # 0
      BY <1>2 DEF SampleOnWake, TypeOK
    <2>2. relay' # "high"
      BY <1>2, <2>1 DEF SampleOnWake, Sample, Switch
    <2> QED  BY <2>1, <2>2
  <1>3. CASE Restart
    BY <1>3 DEF Restart, Boot
  <1>4. CASE Tick
    BY <1>4 DEF Tick
  <1>5. CASE WaterMoves \/ SensorFails \/ UNCHANGED vars
    BY <1>5 DEF WaterMoves, SensorFails, vars, timer, switch
  <1> QED  BY <1>1, <1>2, <1>3, <1>4, <1>5 DEF Next, Device

(* A node that forgets its flag in every sleep never lets go of the relay. *)
THEOREM IntegratedNodeNeverReleases == Spec => []IntegratedNeverReleases
  <1>1. Init => IntegratedInv
    BY DEF Init, IntegratedInv, FlagClearAtBoot, IntegratedNeverReleases
  <1>2. IntegratedInv => IntegratedNeverReleases
    BY DEF IntegratedInv
  <1> QED  BY <1>1, <1>2, IntegratedInvariant, TypeCorrect, PTL DEF Spec
=============================================================================
