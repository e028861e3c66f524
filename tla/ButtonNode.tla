----------------------------- MODULE ButtonNode -----------------------------
(***************************************************************************)
(* The generation of the firmware that stays awake: loop() measures        *)
(* whenever ten seconds have been counted, and polls a button that erases  *)
(* the device.  Time is the lap of the loop: every turn, however long its  *)
(* calls took, is counted twice while the button is released, and once     *)
(* while it is pressed.                                                    *)
(***************************************************************************)
EXTENDS Integers

CONSTANTS
    Absent,
    Requests,  \* what /setting is sent, with credentials: [mode : ...]
    Stamps,    \* keys of readings
    Laps,      \* what one turn of the loop may take
    BurstModeInterval,
    LongMax    \* the largest signed long

Modes == {"setup", "burst", Absent}

ASSUME NodeAssumption ==
    /\ Requests \subseteq [mode : Modes]
    /\ Laps \subseteq Nat \ {0}
    /\ BurstModeInterval \in Nat \ {0}
    /\ LongMax \in Nat /\ BurstModeInterval < LongMax
    /\ \A lap \in Laps : lap < LongMax

VARIABLES
    pc,
    flash,       \* the EEPROM: are there credentials, and the working mode
    ledTime,     \* counted, not yet measured for
    gResetCount,
    lap,         \* of this turn of the loop
    pressed,     \* the button
    history,     \* the readings in the cloud
    calm,        \* from here on nothing fails and the power stays
    durable      \* observer: readings saved out of setup mode since the last request or erasure

device == <<pc, flash, ledTime, gResetCount, lap>>
vars == <<device, pressed, history, calm, durable>>

Blank == [creds |-> FALSE, mode |-> Absent]

TypeOK ==
    /\ pc \in {"setup", "hotspot", "create", "leave", "loop", "tasks", "listen", "again"}
    /\ flash \in [creds : BOOLEAN, mode : Modes]
    /\ ledTime \in (-LongMax - 1) .. LongMax
    /\ gResetCount \in 0 .. 3
    /\ lap \in Laps \cup {0}
    /\ {pressed, calm} \subseteq BOOLEAN
    /\ history \subseteq Stamps /\ durable \subseteq Stamps

Init ==
    /\ pc = "setup" /\ flash = Blank
    /\ ledTime = 0 /\ gResetCount = 0 /\ lap = 0
    /\ pressed = FALSE /\ history = {}
    /\ calm = FALSE /\ durable = {}

(* A defect: the counter never wraps around. *)
LongWide(n) == n

(* A signed long wraps around. *)
Long(n) == IF n > LongMax THEN n - 2 * (LongMax + 1) ELSE n

(* ESP.reset, or the power: the globals start again. *)
Reset ==
    /\ pc' = "setup"
    /\ ledTime' = 0 /\ gResetCount' = 0 /\ lap' = 0

Outcome == IF calm THEN {TRUE} ELSE BOOLEAN
-----------------------------------------------------------------------------
(* setup() *)

(* A defect: any mode but burst mode is taken for setup mode. *)
JoinWifiUnlessBurst ==
    /\ pc = "setup" /\ flash.creds
    /\ pc' = IF flash.mode # "burst" THEN "create" ELSE "loop"
    /\ UNCHANGED <<flash, ledTime, gResetCount, lap, pressed, history, calm, durable>>

JoinWifi ==
    /\ pc = "setup" /\ flash.creds
    /\ pc' = IF flash.mode = "setup" THEN "create" ELSE "loop"
    /\ UNCHANGED <<flash, ledTime, gResetCount, lap, pressed, history, calm, durable>>

(* No network within half a minute: the hotspot, which drops the stored    *)
(* connection, never looks at the button, and ends only with a request.    *)
OpenHotspot ==
    /\ pc = "setup" /\ (flash.creds => ~calm)
    /\ pc' = "hotspot"
    /\ UNCHANGED <<flash, ledTime, gResetCount, lap, pressed, history, calm, durable>>

(* A request clears everything and writes what it brings. *)
Setting ==
    \E r \in Requests :
        /\ pc = "hotspot"
        /\ flash' = [creds |-> TRUE, mode |-> r.mode]
        /\ durable' = IF r.mode = "setup" THEN {} ELSE durable
        /\ Reset
        /\ UNCHANGED <<pressed, history, calm>>

(* Setting the node replaces it, the history below it included.  Whether   *)
(* the reply arrives is another matter: without it the device measures in  *)
(* setup mode, and registers again at its next boot.                       *)
CreateDevice ==
    \E done, answered \in Outcome :
        /\ pc = "create" /\ (answered => done)
        /\ history' = IF done THEN {} ELSE history
        /\ pc' = IF answered THEN "leave" ELSE "loop"
        /\ UNCHANGED <<flash, ledTime, gResetCount, lap, pressed, calm, durable>>

(* A defect: the mode is written but not committed. *)
LeaveSetupUncommitted ==
    /\ pc = "leave"
    /\ Reset
    /\ UNCHANGED <<flash, pressed, history, calm, durable>>

(* updateWorkingMode(BURST_MODE), then ESP.reset. *)
LeaveSetup ==
    /\ pc = "leave"
    /\ flash' = [flash EXCEPT !.mode = "burst"]
    /\ Reset
    /\ UNCHANGED <<pressed, history, calm, durable>>
-----------------------------------------------------------------------------
(* loop() *)

Lap ==
    /\ pc = "loop"
    /\ lap' \in Laps
    /\ pc' = "tasks"
    /\ UNCHANGED <<flash, ledTime, gResetCount, pressed, history, calm, durable>>

(* A defect: a full interval is not yet enough. *)
LeftLate(t) == IF t > BurstModeInterval THEN t - BurstModeInterval ELSE t

(* What is left of t once a measurement was made for it. *)
Left(t) == IF t >= BurstModeInterval THEN t - BurstModeInterval ELSE t

Measure(sensed, done, answered, stamp) ==
    /\ history' = IF sensed /\ done THEN history \cup {stamp} ELSE history
    /\ durable' = IF sensed /\ answered /\ flash.mode # "setup"
                    THEN durable \cup {stamp} ELSE durable

(* Without a connection the lap is not counted at all. *)
ProcessNormalTasks ==
    \/ /\ ~calm
       /\ UNCHANGED <<ledTime, history, durable>>
    \/ /\ ledTime' = Left(Long(ledTime + lap))
       /\ \/ /\ Long(ledTime + lap) < BurstModeInterval
             /\ UNCHANGED <<history, durable>>
          \/ /\ Long(ledTime + lap) >= BurstModeInterval
             /\ \E sensed, done, answered \in Outcome, stamp \in Stamps :
                    /\ answered => done
                    /\ Measure(sensed, done, answered, stamp)

Tasks ==
    /\ pc = "tasks" /\ pc' = "listen"
    /\ ProcessNormalTasks
    /\ UNCHANGED <<flash, gResetCount, lap, pressed, calm>>

(* A defect: the count starts again at every turn. *)
PressForgets ==
    /\ pc = "listen" /\ pressed /\ gResetCount < 3
    /\ gResetCount' = 1
    /\ pc' = "loop"
    /\ UNCHANGED <<flash, ledTime, lap, pressed, history, calm, durable>>

Press ==
    /\ pc = "listen" /\ pressed /\ gResetCount < 3
    /\ gResetCount' = gResetCount + 1
    /\ pc' = "loop"
    /\ UNCHANGED <<flash, ledTime, lap, pressed, history, calm, durable>>

(* A defect: the device goes on without its restart. *)
ResetManufacturingModeGoesOn ==
    /\ pc = "listen" /\ pressed /\ gResetCount = 3
    /\ flash' = Blank
    /\ gResetCount' = 0
    /\ pc' = "loop"
    /\ UNCHANGED <<ledTime, lap, pressed, history, calm, durable>>

(* The setup mode is written after EEPROM.end has given the buffer away:   *)
(* the device restarts blank.                                              *)
ResetManufacturingMode ==
    /\ pc = "listen" /\ pressed /\ gResetCount = 3
    /\ flash' = Blank
    /\ Reset
    /\ UNCHANGED <<pressed, history, calm, durable>>

(* The presses so far stay counted. *)
Released ==
    /\ pc = "listen" /\ ~pressed
    /\ pc' = "again"
    /\ UNCHANGED <<flash, ledTime, gResetCount, lap, pressed, history, calm, durable>>

(* The same lap, counted again. *)
TasksAgain ==
    /\ pc = "again" /\ pc' = "loop"
    /\ ProcessNormalTasks
    /\ UNCHANGED <<flash, gResetCount, lap, pressed, calm>>
-----------------------------------------------------------------------------
PowerCycle ==
    /\ ~calm
    /\ Reset
    /\ UNCHANGED <<flash, pressed, history, calm, durable>>

Button ==
    /\ pressed' = ~pressed
    /\ UNCHANGED <<device, history, calm, durable>>

CalmDown ==
    /\ ~calm /\ calm' = TRUE
    /\ UNCHANGED <<device, pressed, history, durable>>

DeviceStep ==
    \/ JoinWifi \/ OpenHotspot \/ CreateDevice \/ LeaveSetup
    \/ Lap \/ Tasks \/ Press \/ ResetManufacturingMode \/ Released \/ TasksAgain

Next == DeviceStep \/ Setting \/ PowerCycle \/ Button \/ CalmDown

(* Every call of the device returns. *)
Spec == Init /\ [][Next]_vars /\ WF_vars(DeviceStep)
-----------------------------------------------------------------------------
(* A reading that was saved out of setup mode stays in the cloud until      *)
(* somebody registers the device again: no restart, at any point, sends it  *)
(* back to the registration that replaces the node.                         *)
DurableHistory == durable \subseteq history

(* From its erasure to its next request a device leaves the cloud alone.    *)
BlankIsSilent == [][~flash.creds => history' = history]_vars

(* A button that is held while the loop runs ends in an erasure or in the   *)
(* hotspot, with the network down or the sensor broken too, unless the      *)
(* power never stops failing: the count is lost with it.                    *)
HeldButtonErases ==
    <>[][~PowerCycle]_vars =>
        []((pc = "listen" /\ []pressed) => <>(pc = "hotspot" \/ ~flash.creds))

(* Once nothing fails and turns are shorter than the interval, any backlog  *)
(* is worked off, whatever slow turns left, wrapped around or not.          *)
CatchesUp ==
    <>[](calm /\ lap < BurstModeInterval) => <>[](ledTime \in 0 .. BurstModeInterval - 1)

(* Once nothing fails a device that is not in its hotspot measures for      *)
(* ever, and registers no more.                                             *)
Due == pc \in {"tasks", "again"} /\ Long(ledTime + lap) >= BurstModeInterval
KeepsMeasuring ==
    <>[](calm /\ pc # "hotspot") => []<>Due /\ <>[](pc # "create")
=============================================================================
