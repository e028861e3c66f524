-------------------------- MODULE ButtonNodeProofs --------------------------
(***************************************************************************)
(* Proofs about ButtonNode, for every set of requests, stamps and laps,    *)
(* every interval and every width of the counter.                          *)
(***************************************************************************)
EXTENDS ButtonNode, TLAPS

Counter == (-LongMax - 1) .. LongMax

(* The counter wraps around within its width, whatever is added.           *)
LEMMA LongType ==
    ASSUME NEW t \in Counter, NEW l \in Laps \cup {0}
    PROVE  Long(t + l) \in Counter
  BY NodeAssumption DEF Long, Counter

LEMMA LeftType ==
    ASSUME NEW t \in Counter
    PROVE  Left(t) \in Counter
  BY NodeAssumption DEF Left, Counter

(* Everything but the readings, and the readings.                          *)
DeviceTypeOK ==
    /\ pc \in {"setup", "hotspot", "create", "leave", "loop", "tasks", "listen", "again"}
    /\ flash \in [creds : BOOLEAN, mode : Modes]
    /\ ledTime \in Counter
    /\ gResetCount \in 0 .. 3
    /\ lap \in Laps \cup {0}
    /\ {pressed, calm} \subseteq BOOLEAN

ReadingsTypeOK == history \subseteq Stamps /\ durable \subseteq Stamps

LEMMA ResetType ==
    ASSUME Reset
    PROVE  pc' = "setup" /\ ledTime' \in Counter /\ gResetCount' \in 0 .. 3 /\ lap' \in Laps \cup {0}
  BY NodeAssumption DEF Reset, Counter

LEMMA ProcessNormalTasksType ==
    ASSUME DeviceTypeOK, ReadingsTypeOK, ProcessNormalTasks
    PROVE  ledTime' \in Counter /\ ReadingsTypeOK'
  <1>1. ledTime' \in Counter
    BY LongType, LeftType DEF ProcessNormalTasks, DeviceTypeOK
  <1>2. \/ UNCHANGED <<history, durable>>
        \/ \E sensed, done, answered \in Outcome, stamp \in Stamps :
               Measure(sensed, done, answered, stamp)
    BY DEF ProcessNormalTasks
  <1> QED  BY <1>1, <1>2 DEF ReadingsTypeOK, Measure

LEMMA TypeInvariant == TypeOK /\ [Next]_vars => TypeOK'
  <1> SUFFICES ASSUME DeviceTypeOK, ReadingsTypeOK, [Next]_vars
               PROVE  DeviceTypeOK' /\ ReadingsTypeOK'
    BY DEF TypeOK, DeviceTypeOK, ReadingsTypeOK, Counter
  <1> USE DEF DeviceTypeOK, ReadingsTypeOK
  <1>1. CASE JoinWifi
    BY <1>1 DEF JoinWifi
  <1>2. CASE OpenHotspot
    BY <1>2 DEF OpenHotspot
  <1>3. CASE CreateDevice
    BY <1>3 DEF CreateDevice
  <1>4. CASE LeaveSetup
    BY <1>4, ResetType DEF LeaveSetup, Modes
  <1>5. CASE Lap
    BY <1>5 DEF Lap
  <1>6. CASE Tasks
    BY <1>6, ProcessNormalTasksType DEF Tasks
  <1>7. CASE Press
    BY <1>7 DEF Press
  <1>8. CASE ResetManufacturingMode
    BY <1>8, ResetType DEF ResetManufacturingMode, Blank, Modes
  <1>9. CASE Released
    BY <1>9 DEF Released
  <1>10. CASE TasksAgain
    BY <1>10, ProcessNormalTasksType DEF TasksAgain
  <1>11. CASE Setting
    BY <1>11, ResetType, NodeAssumption DEF Setting
  <1>12. CASE PowerCycle
    BY <1>12, ResetType DEF PowerCycle
  <1>13. CASE Button
    BY <1>13 DEF Button, device
  <1>14. CASE CalmDown
    BY <1>14 DEF CalmDown, device
  <1>15. CASE UNCHANGED vars
    BY <1>15 DEF vars, device
  <1> QED  BY <1>1, <1>2, <1>3, <1>4, <1>5, <1>6, <1>7, <1>8, <1>9, <1>10, <1>11,
              <1>12, <1>13, <1>14, <1>15 DEF Next, DeviceStep

(* Every variable keeps its type: the counted time wraps around within its *)
(* signed long however slow the turns are, and the presses never pass      *)
(* three.                                                                  *)
THEOREM TypeCorrect == Spec => []TypeOK
  <1>1. Init => TypeOK
    <2> SUFFICES ASSUME Init PROVE TypeOK
      OBVIOUS
    <2>1. {pressed, calm} \subseteq BOOLEAN
      BY Zenon DEF Init
    <2>2. flash \in [creds : BOOLEAN, mode : Modes]
      BY DEF Init, Blank, Modes
    <2> QED  BY <2>1, <2>2, NodeAssumption DEF Init, TypeOK
  <1> QED  BY <1>1, TypeInvariant, PTL DEF Spec

-----------------------------------------------------------------------------
(* Readings that stay *)

(* A device on its way into the registration has nothing to lose.          *)
NothingToLose == flash.creds /\ flash.mode = "setup" => durable = {}
RegistersInSetup == pc \in {"create", "leave"} => flash.creds /\ flash.mode = "setup"

HistoryInv == DurableHistory /\ NothingToLose /\ RegistersInSetup

LEMMA TasksKeepHistory ==
    ASSUME HistoryInv, ProcessNormalTasks, UNCHANGED flash
    PROVE  DurableHistory' /\ NothingToLose'
  <1> USE DEF HistoryInv, DurableHistory, NothingToLose
  <1>1. CASE UNCHANGED <<history, durable>>
    BY <1>1
  <1>2. CASE \E sensed, done, answered \in Outcome, stamp \in Stamps :
                 (answered => done) /\ Measure(sensed, done, answered, stamp)
    BY <1>2 DEF Measure
  <1> QED  BY <1>1, <1>2 DEF ProcessNormalTasks

LEMMA HistoryInvariant == TypeOK /\ HistoryInv /\ [Next]_vars => HistoryInv'
  <1> SUFFICES ASSUME TypeOK, HistoryInv, [Next]_vars PROVE HistoryInv'
    OBVIOUS
  <1> USE DEF HistoryInv, DurableHistory, NothingToLose, RegistersInSetup
  <1>1. CASE JoinWifi
    BY <1>1 DEF JoinWifi
  <1>2. CASE CreateDevice
    BY <1>2 DEF CreateDevice
  <1>3. CASE LeaveSetup
    BY <1>3 DEF LeaveSetup, Reset, TypeOK
  <1>4. CASE Tasks \/ TasksAgain
    BY <1>4, TasksKeepHistory DEF Tasks, TasksAgain
  <1>5. CASE ResetManufacturingMode
    BY <1>5 DEF ResetManufacturingMode, Reset, Blank
  <1>6. CASE Setting
    BY <1>6 DEF Setting, Reset
  <1>7. CASE PowerCycle
    BY <1>7 DEF PowerCycle, Reset
  <1>8. CASE OpenHotspot \/ Lap \/ Press \/ Released
    BY <1>8 DEF OpenHotspot, Lap, Press, Released
  <1>9. CASE Button \/ CalmDown \/ UNCHANGED vars
    BY <1>9 DEF Button, CalmDown, vars, device
  <1> QED  BY <1>1, <1>2, <1>3, <1>4, <1>5, <1>6, <1>7, <1>8, <1>9 DEF Next, DeviceStep

(* A reading saved out of setup mode is still there, whenever the power     *)
(* fails and whichever replies are lost: only a device with nothing to      *)
(* lose reaches the registration that replaces the node.                    *)
THEOREM HistoryIsDurable == Spec => []DurableHistory
  <1>1. Init => HistoryInv
    BY DEF Init, Blank, HistoryInv, DurableHistory, NothingToLose, RegistersInSetup
  <1>2. HistoryInv => DurableHistory
    BY DEF HistoryInv
  <1> QED  BY <1>1, <1>2, HistoryInvariant, TypeCorrect, PTL DEF Spec

-----------------------------------------------------------------------------
(* The erased device *)

(* An erasure is always followed by a restart, and without credentials a   *)
(* device gets no further than its hotspot.                                *)
BlankWaits == ~flash.creds => pc \in {"setup", "hotspot"}

LEMMA BlankInvariant == BlankWaits /\ [Next]_vars => BlankWaits'
  <1> SUFFICES ASSUME BlankWaits, [Next]_vars PROVE BlankWaits'
    OBVIOUS
  <1> USE DEF BlankWaits
  <1>1. CASE Setting \/ PowerCycle \/ LeaveSetup \/ ResetManufacturingMode
    BY <1>1 DEF Setting, PowerCycle, LeaveSetup, ResetManufacturingMode, Reset
  <1>2. CASE JoinWifi \/ OpenHotspot \/ CreateDevice
    BY <1>2 DEF JoinWifi, OpenHotspot, CreateDevice
  <1>3. CASE Lap \/ Tasks \/ Press \/ Released \/ TasksAgain
    BY <1>3 DEF Lap, Tasks, Press, Released, TasksAgain
  <1>4. CASE Button \/ CalmDown \/ UNCHANGED vars
    BY <1>4 DEF Button, CalmDown, vars, device
  <1> QED  BY <1>1, <1>2, <1>3, <1>4 DEF Next, DeviceStep

(* Between its erasure and its next request a device writes nothing into    *)
(* the cloud.                                                               *)
THEOREM BlankIsAlwaysSilent == Spec => BlankIsSilent
  <1>1. Init => BlankWaits
    BY DEF Init, BlankWaits
  <1>2. BlankWaits /\ [Next]_vars => [~flash.creds => history' = history]_vars
    <2> SUFFICES ASSUME pc \in {"setup", "hotspot"}, [Next]_vars
                 PROVE  history' = history
      BY DEF BlankWaits
    <2> QED  BY DEF Next, DeviceStep, Setting, PowerCycle, Button, CalmDown, JoinWifi,
                    OpenHotspot, CreateDevice, LeaveSetup, Lap, Tasks, Press,
                    ResetManufacturingMode, Released, TasksAgain, vars, device
  <1> QED  BY <1>1, <1>2, BlankInvariant, PTL DEF Spec, BlankIsSilent
=============================================================================
