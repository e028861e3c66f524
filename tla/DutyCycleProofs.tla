-------------------------- MODULE DutyCycleProofs --------------------------
(***************************************************************************)
(* Proofs about DutyCycle: it is type correct, and keeps its invariants,   *)
(* for every set of intervals, stamps, readings, notification objects and  *)
(* requests the assumptions allow.                                         *)
(***************************************************************************)
EXTENDS DutyCycle, TLAPS

USE DEF DefaultHigher, DefaultInterval

(* The conversions between the three shapes of the notification settings   *)
(* keep each field in its type.                                            *)
LEMMA NotifyDefaultType == NotifyDefault \in NotifyInRam
  BY LevelsAssumption, EmailsAssumption
     DEF NotifyDefault, NotifyInRam, FieldValues, AnyValue, NotifyField, NumericField

LEMMA LoadNotifyType ==
    ASSUME NEW st \in NotifyInEeprom
    PROVE  LoadNotify(st) \in NotifyInRam
  BY NotifyDefaultType, AbsentAssumption, LevelsAssumption, EmailsAssumption
     DEF LoadNotify, NotifyInRam, NotifyInEeprom, FieldValues, AnyValue, NotifyField, NumericField

LEMMA StoreType ==
    ASSUME NEW f \in NotifyField, NEW v \in FieldValues(f)
    PROVE  Store(f, v) \in FieldValues(f) \cup {Absent}
  BY DEF Store

LEMMA UidOverNotifyType ==
    ASSUME NEW st \in NotifyInEeprom
    PROVE  UidOverNotify(st) \in NotifyInEeprom
  BY LevelsAssumption
     DEF UidOverNotify, NotifyInEeprom, FieldValues, AnyValue, NotifyField, NumericField

LEMMA ErasedType == ErasedNotify \in NotifyInEeprom
  BY DEF ErasedNotify, NotifyInEeprom, FieldValues, AnyValue, NotifyField, NumericField

LEMMA SwitchType ==
    ASSUME NEW v \in {On, Off, Absent}
    PROVE  [ErasedNotify EXCEPT !["isSend"] = v] \in NotifyInEeprom
  BY DEF ErasedNotify, NotifyInEeprom, FieldValues, AnyValue, NotifyField, NumericField

LEMMA ClearedNotifyType ==
    ASSUME NEW st \in NotifyInEeprom
    PROVE  ClearedNotify(st) \in NotifyInEeprom
  BY SwitchType DEF ClearedNotify, NotifyInEeprom, FieldValues, NotifyField, NumericField

LEMMA ReadNotifyType ==
    ASSUME NEW n, IsNotifyNode(n)
    PROVE  ReadNotify(n) \in NotifyInRam
  BY LevelsAssumption, EmailsAssumption
     DEF ReadNotify, JsonGet, OrDefaultHigher, IsNotifyNode, NotifyInRam, FieldValues,
         AnyValue, NotifyField, NumericField

(* What the database gives is an object, or the one without keys.           *)
LEMMA CloudNodeType == cloud \in CloudRecords => IsNotifyNode(cloud.notify)
<1>1. IsNotifyNode(NoNotifyNode)
  BY DEF IsNotifyNode, NoNotifyNode
<1> QED
  BY <1>1, CloudNotifyAssumption DEF CloudRecords

-----------------------------------------------------------------------------
(* Types *)

LEMMA LoadInternalConfigType ==
    ASSUME NEW st \in FlashRecords
    PROVE  LoadInternalConfig(st) \in RamRecords
  BY LoadNotifyType, IntervalsAssumption
     DEF LoadInternalConfig, LoadInterval, FlashRecords, RamRecords

LEMMA InitialRamType == InitialRam \in RamRecords
<1>1. [NotifyDefault EXCEPT !["email"] = NoEmail] \in NotifyInRam
  BY NotifyDefaultType, EmailsAssumption
     DEF NotifyInRam, FieldValues, AnyValue, NotifyField, NumericField
<1> QED
  BY <1>1, IntervalsAssumption DEF InitialRam, RamRecords, Modes

LEMMA AfterSettingType ==
    ASSUME NEW q \in SettingRequests, NEW st \in FlashRecords
    PROVE  AfterSetting(q, st) \in FlashRecords
<1> DEFINE base == IF q.creds = Absent THEN st
                   ELSE [creds |-> q.creds, mode |-> Absent, interval |-> Absent,
                         notify |-> ClearedNotify(st.notify)]
<1>1. base \in FlashRecords
  BY ClearedNotifyType DEF FlashRecords, SettingRequests
<1>2. UidOverNotify(base.notify) \in NotifyInEeprom
  BY <1>1, UidOverNotifyType DEF FlashRecords
<1>3. /\ OrOld(q.mode, base.mode) \in Modes \cup {Absent}
      /\ OrOld(q.interval, base.interval) \in Intervals \cup {Absent}
  BY <1>1 DEF OrOld, FlashRecords, SettingRequests, Modes
<1>4. AfterSetting(q, st) =
        [creds |-> base.creds, mode |-> OrOld(q.mode, base.mode),
         interval |-> OrOld(q.interval, base.interval),
         notify |-> IF q.uid THEN UidOverNotify(base.notify) ELSE base.notify]
  BY DEF AfterSetting
<1> HIDE DEF base
<1> QED
  BY <1>1, <1>2, <1>3, <1>4 DEF FlashRecords

(* Every setting has its place in the order, and only one. *)
LEMMA WriteOrderIndex ==
    /\ Len(WriteOrder) = 6
    /\ \A j \in 1 .. 6 : WriteOrder[j] \in NotifyField
    /\ \A f \in NotifyField : \E j \in 1 .. 6 : WriteOrder[j] = f
    /\ \A j, k \in 1 .. 6 : WriteOrder[j] = WriteOrder[k] => j = k
<1>1. Len(WriteOrder) = 6
  BY DEF WriteOrder
<1>2. /\ WriteOrder[1] = "humidLower" /\ WriteOrder[2] = "humidHigher"
      /\ WriteOrder[3] = "tempLower" /\ WriteOrder[4] = "tempHigher"
      /\ WriteOrder[5] = "email" /\ WriteOrder[6] = "isSend"
  BY DEF WriteOrder
<1>3. \A j \in 1 .. 6 : j \in {1, 2, 3, 4, 5, 6}
  OBVIOUS
<1>4. {1, 2, 3, 4, 5, 6} \subseteq 1 .. 6
  OBVIOUS
<1> QED
  BY <1>1, <1>2, <1>3, <1>4 DEF NotifyField, NumericField

LEMMA FirstStep == 1 \in 1 .. Len(WriteOrder) + 1
  BY WriteOrderIndex

LEMMA ResetType ==
    ASSUME Reset
    PROVE  /\ pc' \in Labels /\ step' \in 1 .. Len(WriteOrder) + 1
           /\ ram' \in RamRecords /\ reading' \in SensorReadings \cup {InitialReading}
           /\ clean' \in BOOLEAN /\ mailed' \subseteq {"humidity", "temperature"}
           /\ reported' \in BOOLEAN
  BY InitialRamType, FirstStep DEF Reset, Labels

(* Each step of the program leaves each variable in its type. *)
LEMMA TypeStep == TypeOK /\ [Next]_vars => TypeOK'
<1> SUFFICES ASSUME TypeOK, [Next]_vars
             PROVE  TypeOK'
  OBVIOUS
<1> USE DEF TypeOK
<1>1. CASE Boot
  BY <1>1, LoadInternalConfigType DEF Boot, Goto, Labels, observer
<1>2. CASE JoinWifi
  BY <1>2 DEF JoinWifi, Goto, Labels, observer
<1>3. CASE OpenHotspot
  BY <1>3 DEF OpenHotspot, Goto, Labels
<1>4. ASSUME NEW reached \in BOOLEAN, CreateDevice(reached)
      PROVE  TypeOK'
  <2>1. ram' \in RamRecords
    BY <1>4 DEF CreateDevice, RamRecords
  <2>2. [id |-> TRUE, interval |-> Absent, notify |-> NoNotifyNode, history |-> {},
         updatedWhen |-> Absent] \in CloudRecords
    BY DEF CloudRecords
  <2>3. cloud' \in CloudRecords
    BY <1>4, <2>2 DEF CreateDevice
  <2>4. excused' \in BOOLEAN
    BY <1>4 DEF CreateDevice
  <2> QED
    BY <1>4, <2>1, <2>3, <2>4 DEF CreateDevice, Goto, Labels
<1>5. CASE CreateNoTime
  BY <1>5 DEF CreateNoTime, Goto, Labels, RamRecords
<1>6. CASE LeaveSetup
  BY <1>6, ResetType DEF LeaveSetup, FlashRecords, Modes
<1>7. CASE Sense
  BY <1>7 DEF Sense, Goto, Labels, observer
<1>8. CASE SenseFails
  BY <1>8, FirstStep DEF SenseFails, Labels
<1>9. CASE MailHumid
  BY <1>9 DEF MailHumid, Goto, Labels
<1>10. CASE MailTemp
  BY <1>10 DEF MailTemp, Goto, Labels
<1>11. ASSUME NEW answered \in BOOLEAN, GetInterval(answered)
       PROVE  TypeOK'
  <2>1. FetchedInterval(answered) \in Intervals
    BY IntervalsAssumption DEF FetchedInterval, CloudRecords
  <2> QED
    BY <1>11, <2>1 DEF GetInterval, Goto, Labels, RamRecords
<1>12. ASSUME NEW answered \in BOOLEAN, GetNotify(answered)
       PROVE  TypeOK'
  <2>1. ReadNotify(cloud.notify) \in NotifyInRam
    BY CloudNodeType, ReadNotifyType
  <2> QED
    BY <1>12, <2>1 DEF GetNotify, Goto, Labels, RamRecords
<1>13. ASSUME NEW reached \in BOOLEAN, NEW answered \in BOOLEAN,
              SaveHistory(reached, answered)
       PROVE  TypeOK'
  BY <1>13, FirstStep DEF SaveHistory, Goto, Labels, RamRecords, CloudRecords
<1>14. ASSUME NEW reached \in BOOLEAN, NEW answered \in BOOLEAN,
              SaveRoot(reached, answered)
       PROVE  TypeOK'
  BY <1>14, FirstStep DEF SaveRoot, Labels, RamRecords, CloudRecords
<1>15. CASE SaveNoTime
  BY <1>15, FirstStep DEF SaveNoTime, Labels, RamRecords
<1>16. CASE PersistNotify
  <2> DEFINE f == WriteOrder[step]
  <2>1. step \in 1 .. 6 /\ step' \in 1 .. 7 /\ f \in NotifyField
    BY <1>16, WriteOrderIndex DEF PersistNotify
  <2>2. Store(f, ram.notify[f]) \in FieldValues(f) \cup {Absent}
    BY <2>1, StoreType DEF RamRecords, NotifyInRam
  <2>3. [flash.notify EXCEPT ![f] = Store(f, ram.notify[f])] \in NotifyInEeprom
    BY <2>1, <2>2
       DEF FlashRecords, NotifyInEeprom, FieldValues, AnyValue, NotifyField, NumericField
  <2>4. flash' \in FlashRecords
    BY <1>16, <2>3 DEF PersistNotify, FlashRecords
  <2> QED
    BY <1>16, <2>1, <2>4, WriteOrderIndex DEF PersistNotify, observer
<1>17. CASE PersistInterval
  BY <1>17, WriteOrderIndex DEF PersistInterval, Labels, RamRecords, FlashRecords, observer
<1>18. CASE Sleep
  BY <1>18 DEF Sleep, Goto, Labels, observer
<1>19. CASE Wake
  BY <1>19, ResetType DEF Wake
<1>20. ASSUME NEW q \in Requests, Setting(q)
       PROVE  TypeOK'
  <2>1. flash' \in FlashRecords
    BY <1>20, AfterSettingType, RequestsAssumption DEF Setting
  <2>2. CASE q.creds # Absent
    BY <1>20, <2>1, <2>2, ResetType DEF Setting
  <2>3. CASE q.creds = Absent
    BY <1>20, <2>1, <2>3, LoadInternalConfigType DEF Setting
  <2> QED
    BY <2>2, <2>3
<1>21. CASE PowerCycle
  BY <1>21, ResetType DEF PowerCycle
<1>22. ASSUME NEW v \in Intervals, AppSetsInterval(v)
       PROVE  TypeOK'
  <2>1. ChosenInterval \in BOOLEAN
    BY DEF ChosenInterval
  <2> QED
    BY <1>22, <2>1 DEF AppSetsInterval, device, CloudRecords
<1>23. ASSUME NEW n \in CloudNotify, AppSetsNotify(n)
       PROVE  TypeOK'
  BY <1>23 DEF AppSetsNotify, device, CloudRecords
<1>24. CASE CalmDown
  BY <1>24 DEF CalmDown, device, observer
<1>25. CASE UNCHANGED vars
  BY <1>25 DEF vars, device, observer
<1> QED
  BY <1>1, <1>2, <1>3, <1>4, <1>5, <1>6, <1>7, <1>8, <1>9, <1>10, <1>11, <1>12, <1>13,
     <1>14, <1>15, <1>16, <1>17, <1>18, <1>19, <1>20, <1>21, <1>22, <1>23, <1>24, <1>25
     DEF Next, DeviceStep, Environment

LEMMA TypeInit == Init => TypeOK
<1> SUFFICES ASSUME Init PROVE TypeOK
  OBVIOUS
<1>1. flash \in FlashRecords
  <2>1. PICK s \in {On, Absent} :
          flash = [creds |-> Absent, mode |-> Absent, interval |-> Absent,
                   notify |-> [ErasedNotify EXCEPT !["isSend"] = s]]
    BY DEF Init, FreshFlash
  <2> QED
    BY <2>1, SwitchType DEF FlashRecords
<1> QED
  BY <1>1, InitialRamType, FirstStep DEF Init, TypeOK, Labels, CloudRecords

(* Every variable of the node always holds a value of its type: in RAM and  *)
(* EEPROM no setting is ever missing or of a foreign kind, whatever call or *)
(* write was cut off.                                                       *)
THEOREM TypeCorrect == Spec => []TypeOK
  BY TypeInit, TypeStep, PTL DEF Spec

-----------------------------------------------------------------------------
(* The history *)

(* The node is updated after its entry, and both are replaced together.    *)
LEMMA RootStep == TypeOK /\ RootInv /\ [Next]_vars => RootInv'
<1> SUFFICES ASSUME TypeOK, RootInv, [Next]_vars
             PROVE  RootInv'
  OBVIOUS
<1> USE DEF TypeOK, RootInv, RootPointsIntoHistory, RamRecords, CloudRecords
<1>1. CASE Boot
  BY <1>1 DEF Boot, Goto, observer, At
<1>2. CASE JoinWifi
  BY <1>2 DEF JoinWifi, Goto, observer, At
<1>3. CASE OpenHotspot
  BY <1>3 DEF OpenHotspot, Goto, At
<1>4. ASSUME NEW reached \in BOOLEAN, CreateDevice(reached)
       PROVE  RootInv'
  BY <1>4 DEF CreateDevice, Goto, At
<1>5. CASE CreateNoTime
  BY <1>5 DEF CreateNoTime, Goto, At
<1>6. CASE LeaveSetup
  BY <1>6 DEF LeaveSetup, Reset, At
<1>7. CASE Sense
  BY <1>7 DEF Sense, Goto, observer, At
<1>8. CASE SenseFails
  BY <1>8 DEF SenseFails, At
<1>9. CASE MailHumid
  BY <1>9 DEF MailHumid, Goto, At
<1>10. CASE MailTemp
  BY <1>10 DEF MailTemp, Goto, At
<1>11. ASSUME NEW answered \in BOOLEAN, GetInterval(answered)
       PROVE  RootInv'
  BY <1>11 DEF GetInterval, Goto, At
<1>12. ASSUME NEW answered \in BOOLEAN, GetNotify(answered)
       PROVE  RootInv'
  BY <1>12 DEF GetNotify, Goto, At
<1>13. ASSUME NEW reached \in BOOLEAN, NEW answered \in BOOLEAN, SaveHistory(reached, answered)
       PROVE  RootInv'
  BY <1>13 DEF SaveHistory, Goto, At
<1>14. ASSUME NEW reached \in BOOLEAN, NEW answered \in BOOLEAN, SaveRoot(reached, answered)
       PROVE  RootInv'
  BY <1>14 DEF SaveRoot, At
<1>15. CASE SaveNoTime
  BY <1>15 DEF SaveNoTime, At
<1>16. CASE PersistNotify
  BY <1>16 DEF PersistNotify, observer, At
<1>17. CASE PersistInterval
  BY <1>17 DEF PersistInterval, observer, At
<1>18. CASE Sleep
  BY <1>18 DEF Sleep, Goto, observer, At
<1>19. CASE Wake
  BY <1>19 DEF Wake, Reset, At
<1>20. ASSUME NEW q \in Requests, Setting(q)
       PROVE  RootInv'
  BY <1>20 DEF Setting, Reset, At
<1>21. CASE PowerCycle
  BY <1>21 DEF PowerCycle, Reset
<1>22. ASSUME NEW v \in Intervals, AppSetsInterval(v)
       PROVE  RootInv'
  BY <1>22 DEF AppSetsInterval, device
<1>23. ASSUME NEW n \in CloudNotify, AppSetsNotify(n)
       PROVE  RootInv'
  BY <1>23 DEF AppSetsNotify, device
<1>24. CASE CalmDown
  BY <1>24 DEF CalmDown, device, observer
<1>25. CASE UNCHANGED vars
  BY <1>25 DEF vars, device, observer
<1> QED
  BY <1>1, <1>2, <1>3, <1>4, <1>5, <1>6, <1>7, <1>8, <1>9, <1>10, <1>11, <1>12, <1>13,
     <1>14, <1>15, <1>16, <1>17, <1>18, <1>19, <1>20, <1>21, <1>22, <1>23, <1>24, <1>25
     DEF Next, DeviceStep, Environment

(* At every moment, the updatedWhen of a device node names an entry of the  *)
(* history: no interleaving of lost calls, power failures and writes of the *)
(* app makes the node claim a reading that was never stored.                *)
THEOREM RootAlwaysPointsIntoHistory == Spec => []RootPointsIntoHistory
<1>1. Init => RootInv
  BY DEF Init, RootInv, RootPointsIntoHistory
<1>2. RootInv => RootPointsIntoHistory
  BY DEF RootInv
<1> QED
  BY <1>1, <1>2, RootStep, TypeCorrect, PTL DEF Spec

(* Setup mode in RAM is setup mode in the EEPROM until it is left.           *)
LEMMA SetupStep == TypeOK /\ SetupInv /\ [Next]_vars => SetupInv'
<1> SUFFICES ASSUME TypeOK, SetupInv, [Next]_vars
             PROVE  SetupInv'
  OBVIOUS
<1> USE DEF TypeOK, SetupInv, RamRecords, FlashRecords
<1>1. CASE Boot
  BY <1>1 DEF Boot, At, Goto, LoadInternalConfig
<1>2. CASE JoinWifi
  BY <1>2 DEF JoinWifi, Goto, observer, At
<1>3. CASE OpenHotspot
  BY <1>3 DEF OpenHotspot, Goto, At
<1>4. ASSUME NEW reached \in BOOLEAN, CreateDevice(reached)
       PROVE  SetupInv'
  BY <1>4 DEF CreateDevice, Goto, At
<1>5. CASE CreateNoTime
  BY <1>5 DEF CreateNoTime, Goto, At
<1>6. CASE LeaveSetup
  BY <1>6 DEF LeaveSetup, Reset, At
<1>7. CASE Sense
  BY <1>7 DEF Sense, Goto, observer, At
<1>8. CASE SenseFails
  BY <1>8 DEF SenseFails, At
<1>9. CASE MailHumid
  BY <1>9 DEF MailHumid, Goto, At
<1>10. CASE MailTemp
  BY <1>10 DEF MailTemp, Goto, At
<1>11. ASSUME NEW answered \in BOOLEAN, GetInterval(answered)
       PROVE  SetupInv'
  BY <1>11 DEF GetInterval, Goto, At
<1>12. ASSUME NEW answered \in BOOLEAN, GetNotify(answered)
       PROVE  SetupInv'
  BY <1>12 DEF GetNotify, Goto, At
<1>13. ASSUME NEW reached \in BOOLEAN, NEW answered \in BOOLEAN, SaveHistory(reached, answered)
       PROVE  SetupInv'
  BY <1>13 DEF SaveHistory, Goto, At
<1>14. ASSUME NEW reached \in BOOLEAN, NEW answered \in BOOLEAN, SaveRoot(reached, answered)
       PROVE  SetupInv'
  BY <1>14 DEF SaveRoot, At
<1>15. CASE SaveNoTime
  BY <1>15 DEF SaveNoTime, At
<1>16. CASE PersistNotify
  BY <1>16 DEF PersistNotify, observer, At
<1>17. CASE PersistInterval
  BY <1>17 DEF PersistInterval, observer, At
<1>18. CASE Sleep
  BY <1>18 DEF Sleep, Goto, observer, At
<1>19. CASE Wake
  BY <1>19 DEF Wake, Reset, At
<1>20. ASSUME NEW q \in Requests, Setting(q)
       PROVE  SetupInv'
  BY <1>20 DEF Setting, Reset, At
<1>21. CASE PowerCycle
  BY <1>21 DEF PowerCycle, Reset
<1>22. ASSUME NEW v \in Intervals, AppSetsInterval(v)
       PROVE  SetupInv'
  BY <1>22 DEF AppSetsInterval, device
<1>23. ASSUME NEW n \in CloudNotify, AppSetsNotify(n)
       PROVE  SetupInv'
  BY <1>23 DEF AppSetsNotify, device
<1>24. CASE CalmDown
  BY <1>24 DEF CalmDown, device, observer
<1>25. CASE UNCHANGED vars
  BY <1>25 DEF vars, device, observer
<1> QED
  BY <1>1, <1>2, <1>3, <1>4, <1>5, <1>6, <1>7, <1>8, <1>9, <1>10, <1>11, <1>12, <1>13,
     <1>14, <1>15, <1>16, <1>17, <1>18, <1>19, <1>20, <1>21, <1>22, <1>23, <1>24, <1>25
     DEF Next, DeviceStep, Environment

(* No step but a registration removes an entry, and those are taken in setup *)
(* mode.                                                                     *)
LEMMA HistoryStep == TypeOK /\ SetupInv /\ [Next]_vars => (flash.mode # "setup" => cloud.history \subseteq cloud'.history)
<1> SUFFICES ASSUME TypeOK, SetupInv, [Next]_vars
             PROVE  (flash.mode # "setup" => cloud.history \subseteq cloud'.history)
  OBVIOUS
<1> USE DEF TypeOK, SetupInv, RamRecords, FlashRecords, CloudRecords
<1>1. CASE Boot
  BY <1>1 DEF Boot, Goto, observer, At
<1>2. CASE JoinWifi
  BY <1>2 DEF JoinWifi, Goto, observer, At
<1>3. CASE OpenHotspot
  BY <1>3 DEF OpenHotspot, Goto, At
<1>4. ASSUME NEW reached \in BOOLEAN, CreateDevice(reached)
       PROVE  (flash.mode # "setup" => cloud.history \subseteq cloud'.history)
  BY <1>4 DEF CreateDevice, Goto, At
<1>5. CASE CreateNoTime
  BY <1>5 DEF CreateNoTime, Goto, At
<1>6. CASE LeaveSetup
  BY <1>6 DEF LeaveSetup, Reset, At
<1>7. CASE Sense
  BY <1>7 DEF Sense, Goto, observer, At
<1>8. CASE SenseFails
  BY <1>8 DEF SenseFails, At
<1>9. CASE MailHumid
  BY <1>9 DEF MailHumid, Goto, At
<1>10. CASE MailTemp
  BY <1>10 DEF MailTemp, Goto, At
<1>11. ASSUME NEW answered \in BOOLEAN, GetInterval(answered)
       PROVE  (flash.mode # "setup" => cloud.history \subseteq cloud'.history)
  BY <1>11 DEF GetInterval, Goto, At
<1>12. ASSUME NEW answered \in BOOLEAN, GetNotify(answered)
       PROVE  (flash.mode # "setup" => cloud.history \subseteq cloud'.history)
  BY <1>12 DEF GetNotify, Goto, At
<1>13. ASSUME NEW reached \in BOOLEAN, NEW answered \in BOOLEAN, SaveHistory(reached, answered)
       PROVE  (flash.mode # "setup" => cloud.history \subseteq cloud'.history)
  BY <1>13 DEF SaveHistory, Goto, At
<1>14. ASSUME NEW reached \in BOOLEAN, NEW answered \in BOOLEAN, SaveRoot(reached, answered)
       PROVE  (flash.mode # "setup" => cloud.history \subseteq cloud'.history)
  BY <1>14 DEF SaveRoot, At
<1>15. CASE SaveNoTime
  BY <1>15 DEF SaveNoTime, At
<1>16. CASE PersistNotify
  BY <1>16 DEF PersistNotify, observer, At
<1>17. CASE PersistInterval
  BY <1>17 DEF PersistInterval, observer, At
<1>18. CASE Sleep
  BY <1>18 DEF Sleep, Goto, observer, At
<1>19. CASE Wake
  BY <1>19 DEF Wake, Reset, At
<1>20. ASSUME NEW q \in Requests, Setting(q)
       PROVE  (flash.mode # "setup" => cloud.history \subseteq cloud'.history)
  BY <1>20 DEF Setting, Reset, At
<1>21. CASE PowerCycle
  BY <1>21 DEF PowerCycle, Reset
<1>22. ASSUME NEW v \in Intervals, AppSetsInterval(v)
       PROVE  (flash.mode # "setup" => cloud.history \subseteq cloud'.history)
  BY <1>22 DEF AppSetsInterval, device
<1>23. ASSUME NEW n \in CloudNotify, AppSetsNotify(n)
       PROVE  (flash.mode # "setup" => cloud.history \subseteq cloud'.history)
  BY <1>23 DEF AppSetsNotify, device
<1>24. CASE CalmDown
  BY <1>24 DEF CalmDown, device, observer
<1>25. CASE UNCHANGED vars
  BY <1>25 DEF vars, device, observer
<1> QED
  BY <1>1, <1>2, <1>3, <1>4, <1>5, <1>6, <1>7, <1>8, <1>9, <1>10, <1>11, <1>12, <1>13,
     <1>14, <1>15, <1>16, <1>17, <1>18, <1>19, <1>20, <1>21, <1>22, <1>23, <1>24, <1>25
     DEF Next, DeviceStep, Environment

(* Out of setup mode no step, of the device, of the app or of a fault,       *)
(* removes an entry of the history: what the earlier versions got wrong.     *)
THEOREM HistoryAlwaysKept == Spec => HistoryKept
<1>1. Init => SetupInv
  BY DEF Init, SetupInv
<1>2. TypeOK /\ SetupInv /\ [Next]_vars
        => [flash.mode # "setup" => cloud.history \subseteq cloud'.history]_vars
  BY HistoryStep
<1> QED
  BY <1>1, <1>2, SetupStep, TypeCorrect, PTL DEF Spec, HistoryKept

-----------------------------------------------------------------------------
(* The wish *)

(* What is fetched while the wish stands is the wish.                        *)
LEMMA WishStep == TypeOK /\ WishInv /\ [Next]_vars => WishInv'
<1> SUFFICES ASSUME TypeOK, WishInv, [Next]_vars
             PROVE  WishInv'
  OBVIOUS
<1> USE DEF TypeOK, WishInv, WishLostOnlyWithExcuse, ChosenInterval, RamRecords, CloudRecords
<1>1. CASE Boot
  BY <1>1 DEF Boot, Goto, observer, At
<1>2. CASE JoinWifi
  BY <1>2 DEF JoinWifi, Goto, observer, At
<1>3. CASE OpenHotspot
  BY <1>3 DEF OpenHotspot, Goto, At
<1>4. ASSUME NEW reached \in BOOLEAN, CreateDevice(reached)
       PROVE  WishInv'
  BY <1>4 DEF CreateDevice, Goto, At
<1>5. CASE CreateNoTime
  BY <1>5 DEF CreateNoTime, Goto, At
<1>6. CASE LeaveSetup
  BY <1>6 DEF LeaveSetup, Reset, At
<1>7. CASE Sense
  BY <1>7 DEF Sense, Goto, observer, At
<1>8. CASE SenseFails
  BY <1>8 DEF SenseFails, At
<1>9. CASE MailHumid
  BY <1>9 DEF MailHumid, Goto, At
<1>10. CASE MailTemp
  BY <1>10 DEF MailTemp, Goto, At
<1>11. ASSUME NEW answered \in BOOLEAN, GetInterval(answered)
       PROVE  WishInv'
  <2>1. UNCHANGED <<cloud, wish>> /\ (excused' <=> excused \/ ~answered)
    BY <1>11 DEF GetInterval
  <2>2. ram'.interval = FetchedInterval(answered)
    BY <1>11 DEF GetInterval
  <2>3. answered /\ cloud.interval # Absent => FetchedInterval(answered) = cloud.interval
    BY DEF FetchedInterval
  <2> QED
    BY <2>1, <2>2, <2>3
<1>12. ASSUME NEW answered \in BOOLEAN, GetNotify(answered)
       PROVE  WishInv'
  BY <1>12 DEF GetNotify, Goto, At
<1>13. ASSUME NEW reached \in BOOLEAN, NEW answered \in BOOLEAN, SaveHistory(reached, answered)
       PROVE  WishInv'
  BY <1>13 DEF SaveHistory, Goto, At
<1>14. ASSUME NEW reached \in BOOLEAN, NEW answered \in BOOLEAN, SaveRoot(reached, answered)
       PROVE  WishInv'
  BY <1>14 DEF SaveRoot, At
<1>15. CASE SaveNoTime
  BY <1>15 DEF SaveNoTime, At
<1>16. CASE PersistNotify
  BY <1>16 DEF PersistNotify, observer, At
<1>17. CASE PersistInterval
  BY <1>17 DEF PersistInterval, observer, At
<1>18. CASE Sleep
  BY <1>18 DEF Sleep, Goto, observer, At
<1>19. CASE Wake
  BY <1>19 DEF Wake, Reset, At
<1>20. ASSUME NEW q \in Requests, Setting(q)
       PROVE  WishInv'
  BY <1>20 DEF Setting, Reset, At
<1>21. CASE PowerCycle
  BY <1>21 DEF PowerCycle, Reset
<1>22. ASSUME NEW v \in Intervals, AppSetsInterval(v)
       PROVE  WishInv'
  BY <1>22 DEF AppSetsInterval, device
<1>23. ASSUME NEW n \in CloudNotify, AppSetsNotify(n)
       PROVE  WishInv'
  BY <1>23 DEF AppSetsNotify, device
<1>24. CASE CalmDown
  BY <1>24 DEF CalmDown, device, observer
<1>25. CASE UNCHANGED vars
  BY <1>25 DEF vars, device, observer
<1> QED
  BY <1>1, <1>2, <1>3, <1>4, <1>5, <1>6, <1>7, <1>8, <1>9, <1>10, <1>11, <1>12, <1>13,
     <1>14, <1>15, <1>16, <1>17, <1>18, <1>19, <1>20, <1>21, <1>22, <1>23, <1>24, <1>25
     DEF Next, DeviceStep, Environment

(* Whatever the interleaving, the interval the app asked for leaves the      *)
(* cloud only by a failed read, a write-back under way or a registration.    *)
THEOREM WishIsKept == Spec => []WishLostOnlyWithExcuse
<1>1. Init => WishInv
  BY DEF Init, WishInv, WishLostOnlyWithExcuse
<1>2. WishInv => WishLostOnlyWithExcuse
  BY DEF WishInv
<1> QED
  BY <1>1, <1>2, WishStep, TypeCorrect, PTL DEF Spec

-----------------------------------------------------------------------------
(* Writing the settings down *)

(* Each commit adds its field to those already written.                     *)
LEMMA PersistStep == TypeOK /\ PersistInv /\ [Next]_vars => PersistInv'
<1> SUFFICES ASSUME TypeOK, PersistInv, [Next]_vars
             PROVE  PersistInv'
  OBVIOUS
<1> USE DEF TypeOK, PersistInv, RamRecords, FlashRecords
<1>1. CASE Boot
  BY <1>1 DEF Boot, Goto, observer, At
<1>2. CASE JoinWifi
  BY <1>2 DEF JoinWifi, Goto, observer, At
<1>3. CASE OpenHotspot
  BY <1>3 DEF OpenHotspot, Goto, At
<1>4. ASSUME NEW reached \in BOOLEAN, CreateDevice(reached)
       PROVE  PersistInv'
  BY <1>4 DEF CreateDevice, Goto, At
<1>5. CASE CreateNoTime
  BY <1>5 DEF CreateNoTime, Goto, At
<1>6. CASE LeaveSetup
  BY <1>6 DEF LeaveSetup, Reset, At
<1>7. CASE Sense
  BY <1>7 DEF Sense, Goto, observer, At
<1>8. CASE SenseFails
  BY <1>8 DEF SenseFails, At
<1>9. CASE MailHumid
  BY <1>9 DEF MailHumid, Goto, At
<1>10. CASE MailTemp
  BY <1>10 DEF MailTemp, Goto, At
<1>11. ASSUME NEW answered \in BOOLEAN, GetInterval(answered)
       PROVE  PersistInv'
  BY <1>11 DEF GetInterval, Goto, At
<1>12. ASSUME NEW answered \in BOOLEAN, GetNotify(answered)
       PROVE  PersistInv'
  BY <1>12 DEF GetNotify, Goto, At
<1>13. ASSUME NEW reached \in BOOLEAN, NEW answered \in BOOLEAN, SaveHistory(reached, answered)
       PROVE  PersistInv'
  BY <1>13 DEF SaveHistory, Goto, At
<1>14. ASSUME NEW reached \in BOOLEAN, NEW answered \in BOOLEAN, SaveRoot(reached, answered)
       PROVE  PersistInv'
  BY <1>14 DEF SaveRoot, At
<1>15. CASE SaveNoTime
  BY <1>15 DEF SaveNoTime, At
<1>16. CASE PersistNotify
  <2> DEFINE f == WriteOrder[step]
             new == [flash.notify EXCEPT ![f] = Store(f, ram.notify[f])]
  <2>1. /\ step \in 1 .. 6 /\ step' = step + 1 /\ pc' = "persist"
        /\ UNCHANGED ram /\ f \in NotifyField
    BY <1>16, WriteOrderIndex DEF PersistNotify, At
  <2>2. flash'.notify = new
    BY <1>16 DEF PersistNotify
  <2>3. ASSUME NEW j \in 1 .. 6, j < step + 1
        PROVE  new[WriteOrder[j]] = Store(WriteOrder[j], ram.notify[WriteOrder[j]])
    <3>1. /\ WriteOrder[j] \in NotifyField /\ DOMAIN flash.notify = NotifyField
          /\ j # step => WriteOrder[j] # f
      BY <2>1, WriteOrderIndex DEF NotifyInEeprom
    <3>2. CASE j = step
      BY <2>1, <3>1, <3>2
    <3>3. CASE j # step
      <4>1. j < step
        BY <2>1, <2>3, <3>3
      <4>2. flash.notify[WriteOrder[j]] = Store(WriteOrder[j], ram.notify[WriteOrder[j]])
        BY <1>16, <4>1, WriteOrderIndex DEF PersistNotify, At
      <4>3. new[WriteOrder[j]] = flash.notify[WriteOrder[j]]
        BY <3>1, <3>3 DEF NotifyInEeprom
      <4> QED
        BY <4>2, <4>3
    <3> QED
      BY <3>2, <3>3
  <2> HIDE DEF new, f
  <2> QED
    BY <2>1, <2>2, <2>3, WriteOrderIndex
<1>17. CASE PersistInterval
  <2>1. /\ pc' = "sleep" /\ UNCHANGED ram
        /\ flash'.interval = ram.interval /\ flash'.notify = flash.notify
    BY <1>17 DEF PersistInterval
  <2>2. \A j \in 1 .. 6 :
           flash.notify[WriteOrder[j]] = Store(WriteOrder[j], ram.notify[WriteOrder[j]])
    BY <1>17, WriteOrderIndex DEF PersistInterval, At
  <2>3. \A f \in NotifyField : flash.notify[f] = Store(f, ram.notify[f])
    BY <2>2, WriteOrderIndex
  <2> QED
    BY <2>1, <2>3
<1>18. CASE Sleep
  BY <1>18 DEF Sleep, Goto, observer, At
<1>19. CASE Wake
  BY <1>19 DEF Wake, Reset, At
<1>20. ASSUME NEW q \in Requests, Setting(q)
       PROVE  PersistInv'
  BY <1>20 DEF Setting, Reset, At
<1>21. CASE PowerCycle
  BY <1>21 DEF PowerCycle, Reset
<1>22. ASSUME NEW v \in Intervals, AppSetsInterval(v)
       PROVE  PersistInv'
  BY <1>22 DEF AppSetsInterval, device
<1>23. ASSUME NEW n \in CloudNotify, AppSetsNotify(n)
       PROVE  PersistInv'
  BY <1>23 DEF AppSetsNotify, device
<1>24. CASE CalmDown
  BY <1>24 DEF CalmDown, device, observer
<1>25. CASE UNCHANGED vars
  BY <1>25 DEF vars, device, observer
<1> QED
  BY <1>1, <1>2, <1>3, <1>4, <1>5, <1>6, <1>7, <1>8, <1>9, <1>10, <1>11, <1>12, <1>13,
     <1>14, <1>15, <1>16, <1>17, <1>18, <1>19, <1>20, <1>21, <1>22, <1>23, <1>24, <1>25
     DEF Next, DeviceStep, Environment

(* A reset finds in the EEPROM the settings the device slept with.          *)
THEOREM AlwaysWakesWithWhatItSlept == Spec => []WakesWithWhatItSlept
<1>1. Init => PersistInv
  BY DEF Init, PersistInv
<1>2. TypeOK /\ PersistInv => WakesWithWhatItSlept
  <2> SUFFICES ASSUME TypeOK, PersistInv, pc \in {"sleep", "asleep"}
               PROVE  /\ LoadInterval(flash.interval) = ram.interval
                      /\ \A f \in NotifyField :
                           LoadNotify(flash.notify)[f] =
                             IF f = "email" /\ ram.notify[f] = NoEmail
                             THEN DefaultEmail ELSE ram.notify[f]
    BY DEF WakesWithWhatItSlept
  <2>1. LoadInterval(flash.interval) = ram.interval
    BY AbsentIsNoValue DEF PersistInv, LoadInterval, TypeOK, RamRecords
  <2>2. ASSUME NEW f \in NotifyField
        PROVE  LoadNotify(flash.notify)[f] =
                  IF f = "email" /\ ram.notify[f] = NoEmail
                  THEN DefaultEmail ELSE ram.notify[f]
    <3>1. flash.notify[f] = Store(f, ram.notify[f])
      BY DEF PersistInv
    <3>2. LoadNotify(flash.notify)[f] =
            IF flash.notify[f] = Absent THEN NotifyDefault[f] ELSE flash.notify[f]
      BY DEF LoadNotify
    <3>3. ram.notify[f] # Absent
      BY AbsentAssumption DEF TypeOK, RamRecords, NotifyInRam, FieldValues
    <3>4. NotifyDefault["email"] = DefaultEmail
      BY DEF NotifyDefault, NotifyField
    <3> QED
      BY <3>1, <3>2, <3>3, <3>4 DEF Store
  <2> QED
    BY <2>1, <2>2
<1> QED
  BY <1>1, <1>2, PersistStep, TypeCorrect, PTL DEF Spec

-----------------------------------------------------------------------------
(* A clean wake *)

(* Each answered call of a clean wake brings one more part into agreement.  *)
LEMMA CleanStep == TypeOK /\ CleanInv /\ [Next]_vars => CleanInv'
<1> SUFFICES ASSUME TypeOK, CleanInv, [Next]_vars
             PROVE  CleanInv'
  OBVIOUS
<1> USE DEF TypeOK, CleanInv, RamRecords, CloudRecords
<1>1. CASE Boot
  BY <1>1 DEF Boot, Goto, observer, At
<1>2. CASE JoinWifi
  BY <1>2 DEF JoinWifi, Goto, observer, At
<1>3. CASE OpenHotspot
  BY <1>3 DEF OpenHotspot, Goto, At
<1>4. ASSUME NEW reached \in BOOLEAN, CreateDevice(reached)
       PROVE  CleanInv'
  BY <1>4 DEF CreateDevice, Goto, At
<1>5. CASE CreateNoTime
  BY <1>5 DEF CreateNoTime, Goto, At
<1>6. CASE LeaveSetup
  BY <1>6 DEF LeaveSetup, Reset, At
<1>7. CASE Sense
  BY <1>7 DEF Sense, Goto, observer, At
<1>8. CASE SenseFails
  BY <1>8 DEF SenseFails, At
<1>9. CASE MailHumid
  BY <1>9 DEF MailHumid, Goto, At
<1>10. CASE MailTemp
  BY <1>10 DEF MailTemp, Goto, At
<1>11. ASSUME NEW answered \in BOOLEAN, GetInterval(answered)
       PROVE  CleanInv'
  BY <1>11 DEF GetInterval, Goto, At
<1>12. ASSUME NEW answered \in BOOLEAN, GetNotify(answered)
       PROVE  CleanInv'
  BY <1>12 DEF GetNotify, Goto, At
<1>13. ASSUME NEW reached \in BOOLEAN, NEW answered \in BOOLEAN, SaveHistory(reached, answered)
       PROVE  CleanInv'
  BY <1>13 DEF SaveHistory, Goto, At
<1>14. ASSUME NEW reached \in BOOLEAN, NEW answered \in BOOLEAN, SaveRoot(reached, answered)
       PROVE  CleanInv'
  <2>1. pc' = "persist" /\ UNCHANGED ram /\ (clean' => clean /\ reached)
    BY <1>14 DEF SaveRoot
  <2>2. reached => /\ cloud'.id /\ cloud'.updatedWhen = ram.stamp
                   /\ cloud'.interval = ram.interval
    BY <1>14 DEF SaveRoot
  <2>3. cloud'.notify = cloud.notify /\ cloud'.history = cloud.history
    BY <1>14 DEF SaveRoot
  <2>4. clean => ram.stamp \in cloud.history
    BY <1>14 DEF SaveRoot, At
  <2> QED
    BY <1>14, <2>1, <2>2, <2>3, <2>4 DEF SaveRoot, At
<1>15. CASE SaveNoTime
  BY <1>15 DEF SaveNoTime, At
<1>16. CASE PersistNotify
  BY <1>16 DEF PersistNotify, observer, At
<1>17. CASE PersistInterval
  BY <1>17 DEF PersistInterval, observer, At
<1>18. CASE Sleep
  BY <1>18 DEF Sleep, Goto, observer, At
<1>19. CASE Wake
  BY <1>19 DEF Wake, Reset, At
<1>20. ASSUME NEW q \in Requests, Setting(q)
       PROVE  CleanInv'
  BY <1>20 DEF Setting, Reset, At
<1>21. CASE PowerCycle
  BY <1>21 DEF PowerCycle, Reset
<1>22. ASSUME NEW v \in Intervals, AppSetsInterval(v)
       PROVE  CleanInv'
  BY <1>22 DEF AppSetsInterval, device
<1>23. ASSUME NEW n \in CloudNotify, AppSetsNotify(n)
       PROVE  CleanInv'
  BY <1>23 DEF AppSetsNotify, device
<1>24. CASE CalmDown
  BY <1>24 DEF CalmDown, device, observer
<1>25. CASE UNCHANGED vars
  BY <1>25 DEF vars, device, observer
<1> QED
  BY <1>1, <1>2, <1>3, <1>4, <1>5, <1>6, <1>7, <1>8, <1>9, <1>10, <1>11, <1>12, <1>13,
     <1>14, <1>15, <1>16, <1>17, <1>18, <1>19, <1>20, <1>21, <1>22, <1>23, <1>24, <1>25
     DEF Next, DeviceStep, Environment

(* A wake without a failure and without a write of the app ends in agreement *)
(* of EEPROM and cloud, whatever torn or stale settings it began with.       *)
THEOREM CleanWakeAlwaysSyncs == Spec => []CleanWakeSyncs
<1>1. Init => PersistInv /\ CleanInv
  BY DEF Init, PersistInv, CleanInv
<1>2. PersistInv /\ CleanInv => CleanWakeSyncs
  BY DEF PersistInv, CleanInv, CleanWakeSyncs, InSync, NotifyInSync
<1> QED
  BY <1>1, <1>2, PersistStep, CleanStep, TypeCorrect, PTL DEF Spec

-----------------------------------------------------------------------------
(* DutyCycle implements IntervalSync *)

(* Each step fetches, pushes, keeps, restarts, provisions or edits one of   *)
(* the three copies, or leaves them all alone.                              *)
LEMMA CopiesStep == TypeOK /\ [Next]_vars => [Copies!Next]_(Copies!vars)
<1> SUFFICES ASSUME TypeOK, [Next]_vars
             PROVE  [Copies!Next]_(Copies!vars)
  OBVIOUS
<1> USE DEF TypeOK, ChosenInterval, RamRecords, CloudRecords, FlashRecords, Copies!Next, Copies!vars
<1>1. CASE Boot
  BY <1>1 DEF Boot, Goto, observer, At, LoadInternalConfig, LoadInterval,
       Copies!Restart, Copies!OrDefault
<1>2. CASE JoinWifi
  BY <1>2 DEF JoinWifi, Goto, observer, At
<1>3. CASE OpenHotspot
  BY <1>3 DEF OpenHotspot, Goto, At
<1>4. ASSUME NEW reached \in BOOLEAN, CreateDevice(reached)
       PROVE  [Copies!Next]_(Copies!vars)
  BY <1>4 DEF CreateDevice, Goto, At,
       Copies!Edit
<1>5. CASE CreateNoTime
  BY <1>5 DEF CreateNoTime, Goto, At
<1>6. CASE LeaveSetup
  BY <1>6 DEF LeaveSetup, Reset, At, InitialRam,
       Copies!Restart
<1>7. CASE Sense
  BY <1>7 DEF Sense, Goto, observer, At
<1>8. CASE SenseFails
  BY <1>8 DEF SenseFails, At
<1>9. CASE MailHumid
  BY <1>9 DEF MailHumid, Goto, At
<1>10. CASE MailTemp
  BY <1>10 DEF MailTemp, Goto, At
<1>11. ASSUME NEW answered \in BOOLEAN, GetInterval(answered)
       PROVE  [Copies!Next]_(Copies!vars)
  BY <1>11 DEF GetInterval, Goto, At, FetchedInterval,
       Copies!Fetch, Copies!OrDefault
<1>12. ASSUME NEW answered \in BOOLEAN, GetNotify(answered)
       PROVE  [Copies!Next]_(Copies!vars)
  BY <1>12 DEF GetNotify, Goto, At
<1>13. ASSUME NEW reached \in BOOLEAN, NEW answered \in BOOLEAN, SaveHistory(reached, answered)
       PROVE  [Copies!Next]_(Copies!vars)
  BY <1>13 DEF SaveHistory, Goto, At,
       Copies!Push
<1>14. ASSUME NEW reached \in BOOLEAN, NEW answered \in BOOLEAN, SaveRoot(reached, answered)
       PROVE  [Copies!Next]_(Copies!vars)
  BY <1>14 DEF SaveRoot, At,
       Copies!Push
<1>15. CASE SaveNoTime
  BY <1>15 DEF SaveNoTime, At,
       Copies!Push
<1>16. CASE PersistNotify
  BY <1>16 DEF PersistNotify, observer, At
<1>17. CASE PersistInterval
  BY <1>17 DEF PersistInterval, observer, At,
       Copies!Keep
<1>18. CASE Sleep
  BY <1>18 DEF Sleep, Goto, observer, At
<1>19. CASE Wake
  BY <1>19 DEF Wake, Reset, At, InitialRam,
       Copies!Restart
<1>20. ASSUME NEW q \in Requests, Setting(q)
       PROVE  [Copies!Next]_(Copies!vars)
  <2>1. flash'.interval \in Intervals \cup {Absent}
    <3>1. flash' \in FlashRecords
      BY <1>20, AfterSettingType, RequestsAssumption DEF Setting
    <3> QED
      BY <3>1
  <2>2. ~ChosenInterval /\ ~ChosenInterval' /\ UNCHANGED cloud
    BY <1>20 DEF Setting, Reset, At
  <2>3. ram'.interval \in {DefaultInterval, LoadInterval(flash'.interval)}
    BY <1>20 DEF Setting, Reset, InitialRam, LoadInternalConfig
  <2> QED
    BY <2>1, <2>2, <2>3 DEF LoadInterval, Copies!Provision, Copies!OrDefault
<1>21. CASE PowerCycle
  BY <1>21 DEF PowerCycle, Reset, InitialRam,
       Copies!Restart
<1>22. ASSUME NEW v \in Intervals, AppSetsInterval(v)
       PROVE  [Copies!Next]_(Copies!vars)
  BY <1>22 DEF AppSetsInterval, device,
       Copies!Edit
<1>23. ASSUME NEW n \in CloudNotify, AppSetsNotify(n)
       PROVE  [Copies!Next]_(Copies!vars)
  BY <1>23 DEF AppSetsNotify, device
<1>24. CASE CalmDown
  BY <1>24 DEF CalmDown, device, observer
<1>25. CASE UNCHANGED vars
  BY <1>25 DEF vars, device, observer
<1> QED
  BY <1>1, <1>2, <1>3, <1>4, <1>5, <1>6, <1>7, <1>8, <1>9, <1>10, <1>11, <1>12, <1>13,
     <1>14, <1>15, <1>16, <1>17, <1>18, <1>19, <1>20, <1>21, <1>22, <1>23, <1>24, <1>25
     DEF Next, DeviceStep, Environment

(* The firmware keeps the promise of IntervalSync: what it writes into the  *)
(* cloud it fetched in the same wake.                                       *)
THEOREM PushesOnlyFetchedHolds == Spec => PushesOnlyFetched
<1>1. Init => Copies!Init
  BY DEF Init, FreshFlash, InitialRam, ChosenInterval, Copies!Init
<1> QED
  BY <1>1, CopiesStep, TypeCorrect, PTL DEF Spec, PushesOnlyFetched, Copies!Spec

-----------------------------------------------------------------------------
(* Mail *)

LEMMA MailStep == TypeOK /\ MailInv /\ [Next]_vars => MailInv'
<1> SUFFICES ASSUME TypeOK, MailInv, [Next]_vars
             PROVE  MailInv'
  OBVIOUS
<1> USE DEF TypeOK, MailInv, BeforeMail, RamRecords
<1>1. CASE Boot
  BY <1>1 DEF Boot, Goto, observer, At, LoadInternalConfig
<1>2. CASE JoinWifi
  BY <1>2 DEF JoinWifi, Goto, observer, At
<1>3. CASE OpenHotspot
  BY <1>3 DEF OpenHotspot, Goto, At
<1>4. ASSUME NEW reached \in BOOLEAN, CreateDevice(reached)
       PROVE  MailInv'
  BY <1>4 DEF CreateDevice, Goto, At
<1>5. CASE CreateNoTime
  BY <1>5 DEF CreateNoTime, Goto, At
<1>6. CASE LeaveSetup
  BY <1>6 DEF LeaveSetup, Reset, At
<1>7. CASE Sense
  <2>1. CASE ram.notify["isSend"] = On
    BY <1>7, <2>1 DEF Sense, Goto, observer, At
  <2>2. CASE ram.notify["isSend"] # On
    BY <1>7, <2>2 DEF Sense, Goto, observer, At
  <2> QED
    BY <2>1, <2>2
<1>8. CASE SenseFails
  BY <1>8 DEF SenseFails, At
<1>9. CASE MailHumid
  <2>1. mailed' \subseteq Out(reading, ram.notify)
    BY <1>9 DEF MailHumid, At, Out
  <2> QED
    BY <1>9, <2>1 DEF MailHumid, Goto, At
<1>10. CASE MailTemp
  <2>1. mailed' \subseteq Out(reading, ram.notify)
    BY <1>10 DEF MailTemp, At, Out
  <2> QED
    BY <1>10, <2>1 DEF MailTemp, Goto, At
<1>11. ASSUME NEW answered \in BOOLEAN, GetInterval(answered)
       PROVE  MailInv'
  BY <1>11 DEF GetInterval, Goto, At
<1>12. ASSUME NEW answered \in BOOLEAN, GetNotify(answered)
       PROVE  MailInv'
  BY <1>12 DEF GetNotify, Goto, At
<1>13. ASSUME NEW reached \in BOOLEAN, NEW answered \in BOOLEAN, SaveHistory(reached, answered)
       PROVE  MailInv'
  BY <1>13 DEF SaveHistory, Goto, At
<1>14. ASSUME NEW reached \in BOOLEAN, NEW answered \in BOOLEAN, SaveRoot(reached, answered)
       PROVE  MailInv'
  BY <1>14 DEF SaveRoot, At
<1>15. CASE SaveNoTime
  BY <1>15 DEF SaveNoTime, At
<1>16. CASE PersistNotify
  BY <1>16 DEF PersistNotify, observer, At
<1>17. CASE PersistInterval
  BY <1>17 DEF PersistInterval, observer, At
<1>18. CASE Sleep
  BY <1>18 DEF Sleep, Goto, observer, At
<1>19. CASE Wake
  BY <1>19 DEF Wake, Reset, At
<1>20. ASSUME NEW q \in Requests, Setting(q)
       PROVE  MailInv'
  <2>1. CASE q.creds # Absent
    BY <1>20, <2>1 DEF Setting, Reset, At
  <2>2. CASE q.creds = Absent
    <3>1. pc' = "hotspot" /\ pc = "hotspot" /\ mailed' = mailed
      BY <1>20, <2>2 DEF Setting, At
    <3>2. ram' = LoadInternalConfig(flash')
      BY <1>20, <2>2 DEF Setting
    <3>3. ram'.notify = LoadNotify(flash'.notify)
      BY <3>2 DEF LoadInternalConfig
    <3> QED
      BY <3>1, <3>3
  <2> QED
    BY <2>1, <2>2
<1>21. CASE PowerCycle
  BY <1>21 DEF PowerCycle, Reset
<1>22. ASSUME NEW v \in Intervals, AppSetsInterval(v)
       PROVE  MailInv'
  BY <1>22 DEF AppSetsInterval, device
<1>23. ASSUME NEW n \in CloudNotify, AppSetsNotify(n)
       PROVE  MailInv'
  BY <1>23 DEF AppSetsNotify, device
<1>24. CASE CalmDown
  BY <1>24 DEF CalmDown, device, observer
<1>25. CASE UNCHANGED vars
  BY <1>25 DEF vars, device, observer
<1> QED
  BY <1>1, <1>2, <1>3, <1>4, <1>5, <1>6, <1>7, <1>8, <1>9, <1>10, <1>11, <1>12, <1>13,
     <1>14, <1>15, <1>16, <1>17, <1>18, <1>19, <1>20, <1>21, <1>22, <1>23, <1>24, <1>25
     DEF Next, DeviceStep, Environment

(* Settings in agreement with the cloud load as the cloud's, the address     *)
(* apart, and mail is not decided on the address.                            *)
LEMMA SameDecision ==
    ASSUME TypeOK, NotifyInSync,
           NEW r \in Readings
    PROVE  Out(r, LoadNotify(flash.notify)) = Out(r, ReadNotify(cloud.notify))
<1>1. ReadNotify(cloud.notify) \in NotifyInRam
  BY CloudNodeType, ReadNotifyType DEF TypeOK
<1>2. ASSUME NEW f \in NotifyField, f # "email"
      PROVE  LoadNotify(flash.notify)[f] = ReadNotify(cloud.notify)[f]
  <2>1. flash.notify[f] = ReadNotify(cloud.notify)[f]
    BY <1>2 DEF NotifyInSync, Store
  <2>2. ReadNotify(cloud.notify)[f] \in FieldValues(f)
    BY <1>1 DEF NotifyInRam
  <2>3. ReadNotify(cloud.notify)[f] # Absent
    BY <2>2, AbsentAssumption, <1>2 DEF FieldValues, NotifyField
  <2> QED
    BY <2>1, <2>3 DEF LoadNotify
<1> QED
  BY <1>2 DEF Out, HumidOut, TempOut, NotifyField, NumericField

(* When the settings of the EEPROM are the cloud's, nothing is mailed that  *)
(* the cloud does not ask for.                                              *)
THEOREM MailAlwaysFollowsCloud == Spec => []MailFollowsCloud
<1>1. Init => MailInv
  BY DEF Init, MailInv, BeforeMail
<1>2. TypeOK /\ MailInv => MailFollowsCloud
  <2> SUFFICES ASSUME TypeOK, MailInv, pc = "getInterval", NotifyInSync
               PROVE  mailed \subseteq Out(reading, ReadNotify(cloud.notify))
    BY DEF MailFollowsCloud
  <2>1. reading \in Readings
    BY ReadingsAssumption, LevelsAssumption DEF TypeOK, InitialReading, Readings
  <2> QED
    BY <2>1, SameDecision DEF MailInv
<1> QED
  BY <1>1, <1>2, MailStep, TypeCorrect, PTL DEF Spec

-----------------------------------------------------------------------------
(* The EEPROM and SettingsStore *)

(* SettingsStore speaks of the same fields and operators as DutyCycle.       *)
LEMMA SameFields ==
    /\ Kept!NumericField = NumericField
    /\ Kept!NotifyField = NotifyField
    /\ \A f : Kept!FieldValues(f) = FieldValues(f)
    /\ \A f, v : Kept!Store(f, v) = Store(f, v)
<1>1. Kept!NumericField = NumericField
  BY DEF NumericField, Kept!NumericField
<1>2. Kept!NotifyField = NotifyField
  BY <1>1 DEF NotifyField, Kept!NotifyField
<1>3. \A f : Kept!FieldValues(f) = FieldValues(f)
  BY <1>1 DEF FieldValues, Kept!FieldValues
<1>4. \A f, v : Kept!Store(f, v) = Store(f, v)
  BY DEF Store, Kept!Store
<1> QED
  BY <1>1, <1>2, <1>3, <1>4

LEMMA SameFresh == Kept!FreshFlash = FreshFlash
<1>1. Kept!ErasedNotify = ErasedNotify
  BY SameFields DEF ErasedNotify, Kept!ErasedNotify
<1> QED
  BY <1>1 DEF FreshFlash, Kept!FreshFlash

LEMMA SameSetting == \A q, s : Kept!AfterSetting(q, s) = AfterSetting(q, s)
<1> SUFFICES ASSUME NEW q, NEW s
             PROVE  Kept!AfterSetting(q, s) = AfterSetting(q, s)
  OBVIOUS
<1>1. Kept!ErasedNotify = ErasedNotify
  BY SameFields DEF ErasedNotify, Kept!ErasedNotify
<1>2. \A n : Kept!ClearedNotify(n) = ClearedNotify(n)
  BY <1>1 DEF ClearedNotify, Kept!ClearedNotify
<1>3. \A n : Kept!UidOverNotify(n) = UidOverNotify(n)
  BY SameFields DEF UidOverNotify, Kept!UidOverNotify
<1>4. \A new, old : Kept!OrOld(new, old) = OrOld(new, old)
  BY DEF OrOld, Kept!OrOld
<1> QED
  BY <1>2, <1>3, <1>4 DEF AfterSetting, Kept!AfterSetting

LEMMA KeptStep == TypeOK /\ SetupInv /\ [Next]_vars => [Kept!Next]_flash
<1> SUFFICES ASSUME TypeOK, SetupInv, [Next]_vars
             PROVE  [Kept!Next]_flash
  OBVIOUS
<1>1. CASE LeaveSetup
  BY <1>1 DEF LeaveSetup, At, SetupInv, Kept!Next, Kept!LeaveSetup
<1>2. CASE PersistNotify
  <2>1. WriteOrder[step] \in NotifyField
    BY <1>2, WriteOrderIndex DEF PersistNotify, TypeOK
  <2>2. PICK f \in NotifyField : flash' = [flash EXCEPT !.notify = [@ EXCEPT ![f] = Store(f, ram.notify[f])]]
    BY <1>2, <2>1 DEF PersistNotify
  <2>3. ram.notify[f] \in FieldValues(f)
    BY <2>2 DEF TypeOK, RamRecords, NotifyInRam
  <2> QED
    BY <2>2, <2>3, SameFields DEF Kept!Next, Kept!KeepField
<1>3. CASE PersistInterval
  BY <1>3 DEF PersistInterval, TypeOK, RamRecords, Kept!Next, Kept!KeepInterval
<1>4. ASSUME NEW q \in Requests, Setting(q)
       PROVE  [Kept!Next]_flash
  BY <1>4, SameSetting DEF Setting, Kept!Next, Kept!Provision
<1>5. CASE UNCHANGED flash
  BY <1>5
<1> QED
  BY <1>1, <1>2, <1>3, <1>4, <1>5
     DEF Next, DeviceStep, Environment, Boot, JoinWifi, OpenHotspot, CreateDevice, CreateNoTime,
         Sense, SenseFails, MailHumid, MailTemp, GetInterval, GetNotify, SaveHistory, SaveRoot,
         SaveNoTime, Sleep, Wake, PowerCycle, AppSetsInterval, AppSetsNotify, CalmDown,
         observer, device, vars

(* The wake cycle does nothing to the EEPROM but what SettingsStore allows.  *)
THEOREM FlashAlwaysFollowsStore == Spec => FlashFollowsStore
<1>1. Init => Kept!Init
  BY SameFresh DEF Init, Kept!Init
<1>2. Init => SetupInv
  BY DEF Init, SetupInv
<1> QED
  BY <1>1, <1>2, KeptStep, SetupStep, TypeCorrect, PTL DEF Spec, FlashFollowsStore, Kept!Spec

=============================================================================
