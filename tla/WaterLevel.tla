----------------------------- MODULE WaterLevel -----------------------------
(***************************************************************************)
(* A distance sensor above a tank and a relay: far means refill, near      *)
(* means stop.  The bench node stays awake and samples by a SimpleTimer;   *)
(* the integrated node samples once in every wake and loses its globals in *)
(* deep sleep.                                                             *)
(***************************************************************************)
EXTENDS Naturals

CONSTANTS
    Distances,  \* of the water, in millimetres
    Interval,   \* of the timer
    Word,       \* millis() counts modulo this
    Durations   \* what a sample may take

ASSUME TankAssumption ==
    /\ Distances \subseteq Nat
    /\ Word \in Nat /\ Interval \in Nat \ {0} /\ Interval < Word
    /\ Durations \subseteq 0 .. Word - 1

VARIABLES
    node,        \* "bench" or "integrated"
    distance,    \* of the water now
    answers,     \* the sensor answers
    millis, _start,
    i2c_rx_buf,  \* the distance read last
    relay_flag,
    relay,       \* what was written to the pin last
    wentFar, wentNear \* observers: where the water has been since the relay was switched last

timer == <<millis, _start>>
water == <<distance, answers>>
switch == <<i2c_rx_buf, relay_flag, relay>>
seen == <<wentFar, wentNear>>
vars == <<node, timer, water, switch, seen>>

(* Ten thousandths of an inch: the factor 0.0394, not a division by 25.4.  *)
Inches(mm) == mm * 394
Far(mm) == Inches(mm) > 10 * 10000
Near(mm) == Inches(mm) <= 5 * 10000

TypeOK ==
    /\ node \in {"bench", "integrated"}
    /\ distance \in Distances /\ answers \in BOOLEAN
    /\ millis \in 0 .. Word - 1 /\ _start \in 0 .. Word - 1
    /\ i2c_rx_buf \in Distances \cup {0}
    /\ relay_flag \in {0, 1} /\ relay \in {"unset", "low", "high"}
    /\ {wentFar, wentNear} \subseteq BOOLEAN

(* A defect: the buffer holds whatever was in memory. *)
BootDirty ==
    /\ i2c_rx_buf' \in Distances
    /\ relay_flag' = 0 /\ relay' = "unset" /\ millis' = 0 /\ _start' = 0
    /\ wentFar' = FALSE /\ wentNear' = FALSE

(* A defect: the flag outlives the sleep. *)
BootKeepsFlag ==
    /\ i2c_rx_buf' = 0 /\ relay_flag' = relay_flag
    /\ relay' = "unset" /\ millis' = 0 /\ _start' = 0
    /\ wentFar' = FALSE /\ wentNear' = FALSE

(* The globals and the timer after power-up, and after deep sleep.         *)
Boot ==
    /\ i2c_rx_buf' = 0
    /\ relay_flag' = 0 /\ relay' = "unset" /\ millis' = 0 /\ _start' = 0
    /\ wentFar' = FALSE /\ wentNear' = FALSE

Init ==
    /\ node \in {"bench", "integrated"}
    /\ distance \in Distances /\ answers \in BOOLEAN
    /\ i2c_rx_buf = 0 /\ relay_flag = 0 /\ relay = "unset"
    /\ millis = 0 /\ _start = 0
    /\ wentFar = FALSE /\ wentNear = FALSE
-----------------------------------------------------------------------------
(* A defect: the moment itself does not count. *)
IsReadyLate == _start + Interval < millis

(* The sum is taken in 64 bits, millis() in 32: a sum beyond the word is    *)
(* never reached, and the timer is never ready again.                      *)
IsReady == _start + Interval <= millis

(* A defect: the clock does not wrap around. *)
AfterWide(d) == millis + d
After(d) == (millis + d) % Word

(* A defect: both edges of the band are one. *)
SwitchNoBand(mm) ==
    \/ /\ Far(mm) /\ relay_flag = 0
       /\ relay_flag' = 1 /\ relay' = "low" /\ wentFar' = FALSE /\ wentNear' = Near(distance)
    \/ /\ ~Far(mm) /\ relay_flag = 1
       /\ relay_flag' = 0 /\ relay' = "high" /\ wentFar' = Far(distance) /\ wentNear' = FALSE
    \/ /\ IF relay_flag = 0 THEN ~Far(mm) ELSE Far(mm)
       /\ UNCHANGED <<relay_flag, relay, seen>>

(* A defect: the flag is not taken back with the relay. *)
SwitchFlagStays(mm) ==
    \/ /\ Far(mm) /\ relay_flag = 0
       /\ relay_flag' = 1 /\ relay' = "low" /\ wentFar' = FALSE /\ wentNear' = Near(distance)
    \/ /\ Near(mm) /\ relay_flag = 1
       /\ relay' = "high" /\ wentFar' = Far(distance) /\ wentNear' = FALSE
       /\ UNCHANGED relay_flag
    \/ /\ IF relay_flag = 0 THEN ~Far(mm) ELSE ~Near(mm)
       /\ UNCHANGED <<relay_flag, relay, seen>>

(* The flag keeps the relay from switching again inside the band.          *)
Switch(mm) ==
    \/ /\ Far(mm) /\ relay_flag = 0
       /\ relay_flag' = 1 /\ relay' = "low" /\ wentFar' = FALSE /\ wentNear' = Near(distance)
    \/ /\ Near(mm) /\ relay_flag = 1
       /\ relay_flag' = 0 /\ relay' = "high" /\ wentFar' = Far(distance) /\ wentNear' = FALSE
    \/ /\ IF relay_flag = 0 THEN ~Far(mm) ELSE ~Near(mm)
       /\ UNCHANGED <<relay_flag, relay, seen>>

(* With fewer bytes than asked for the buffer keeps the last distance.     *)
SensorRead == i2c_rx_buf' = IF answers THEN distance ELSE i2c_rx_buf

Sample ==
    /\ SensorRead
    /\ Switch(i2c_rx_buf')
    /\ \E d \in Durations : millis' = After(d)
    /\ UNCHANGED <<node, water>>

(* loop() of the bench node; the timer starts again after the sample. *)
SampleOnTimer ==
    /\ node = "bench" /\ IsReady
    /\ Sample
    /\ _start' = millis'

(* processWaterLeveling, once in every wake: the flag as it was at boot. *)
SampleOnWake ==
    /\ node = "integrated" /\ millis = 0
    /\ Sample
    /\ millis' > 0 /\ UNCHANGED _start

(* Deep sleep and the wake-up, or a power failure. *)
Restart ==
    /\ Boot
    /\ UNCHANGED <<node, water>>

(* loop() asks more often than the clock counts. *)
Tick ==
    /\ node = "bench" /\ ~IsReady
    /\ millis' = After(1)
    /\ UNCHANGED <<node, water, switch, seen, _start>>

(* The water, and the sensor's cable. *)
WaterMoves ==
    /\ distance' \in Distances
    /\ wentFar' = (wentFar \/ Far(distance'))
    /\ wentNear' = (wentNear \/ Near(distance'))
    /\ UNCHANGED <<node, answers, timer, switch>>

SensorFails ==
    /\ answers' = ~answers
    /\ UNCHANGED <<node, distance, timer, switch, seen>>

Device == SampleOnTimer \/ SampleOnWake \/ Tick
Next == Device \/ Restart \/ WaterMoves \/ SensorFails
Spec == Init /\ [][Next]_vars /\ WF_vars(Device)
-----------------------------------------------------------------------------
(* A sensor that does not answer moves nothing: what is left in the buffer, *)
(* the zeroes of the boot included, was acted on already.                   *)
SilentSensorMovesNothing == [][~answers /\ Sample => UNCHANGED <<relay_flag, relay>>]_vars

(* Between two switchings of the relay the water was both far and near: it  *)
(* does not chatter, however the water moves between two samples.           *)
SwitchesSpanTheBand ==
    [][relay # "unset" /\ relay' \notin {relay, "unset"} =>
          IF relay' = "high" THEN wentNear ELSE wentFar]_vars

(* The integrated node never writes HIGH: it forgets in its sleep that it   *)
(* has written LOW.                                                         *)
IntegratedNeverReleases == node = "integrated" => relay # "high"

(* The timer of a bench node stops only once its next moment lies beyond    *)
(* the word: until then every interval brings a sample.                     *)
Stuck == _start + Interval >= Word
StopsOnlyAtTheEnd == (node = "bench" /\ <>[](~IsReady)) => <>[]Stuck \/ []<>(millis = 0 /\ _start = 0)

(* When the water stays near and the sensor answers, a bench node whose     *)
(* timer still runs lets go of the relay for good.                          *)
FullTank == Near(distance) /\ answers
FullTankReleases ==
    (node = "bench" /\ <>[]FullTank) => <>[](relay_flag = 0 \/ Stuck)
=============================================================================
