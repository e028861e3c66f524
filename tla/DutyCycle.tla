----------------------------- MODULE DutyCycle -----------------------------
(***************************************************************************)
(* One sensor node, its EEPROM, its node in the cloud database and the app *)
(* that edits that node.  Everything the firmware does happens in setup(): *)
(* it wakes, loads its settings from the EEPROM, joins the Wi-Fi network   *)
(* (or opens a hotspot and waits to be provisioned), registers itself when *)
(* in setup mode, reads the sensor, mails, refreshes its settings from the *)
(* cloud, uploads the reading, writes the settings back to the EEPROM one  *)
(* field at a time and goes to deep sleep, which ends in a reset.          *)
(*                                                                         *)
(* pc is where setup() stands.  Between any two steps the app may write to *)
(* the cloud, the power may fail, and every call over the network may be   *)
(* lost, its request or its reply.  calm is the environment's promise that *)
(* none of this happens any more; it only serves the liveness properties.  *)
(***************************************************************************)
EXTENDS Settings

CONSTANTS
    Stamps,        \* values of gCurrentDateTimeString, the keys of the history
    CloudNotify,   \* the notification objects the app writes
    SensorReadings \* the readings the sensor gives

ASSUME AbsentIsNoValue == Absent \notin Intervals \cup Stamps
ASSUME CloudNotifyAssumption == \A n \in CloudNotify : IsNotifyNode(n)
ASSUME ReadingsAssumption == SensorReadings \subseteq Readings

VARIABLES
    pc,      \* where setup() stands
    step,    \* the next field writeLocalNotificationInfo writes
    ram,     \* the globals: mode, interval, notify, stamp
    reading, \* gHumidity, gTemperature
    flash,   \* the committed EEPROM: creds, mode, interval, notify
    cloud,   \* the device's node: id, interval, notify, history, updatedWhen
    calm     \* no more faults and no more writes of the app

(* What an observer remembers; no action's guard reads it. *)
VARIABLES
    wish,     \* the reading interval the app wrote last
    excused,  \* the wish met a failed read or a write-back under way
    clean,    \* this wake met no failure, and no write of the app since it began
    mailed,   \* the kinds of e-mail handed over in this wake
    enabled,  \* the app has switched notification on at some time
    reported  \* saveDataToCloudDatabase returned true in this wake

device   == <<pc, step, ram, reading>>
observer == <<wish, excused, clean, mailed, enabled, reported>>
vars     == <<device, flash, cloud, calm, observer>>

-----------------------------------------------------------------------------
(* The EEPROM *)

(* The initial values of the globals. *)
InitialRam ==
    [mode |-> "burst", interval |-> DefaultInterval,
     notify |-> [NotifyDefault EXCEPT !["email"] = NoEmail], stamp |-> Absent]
InitialReading == [humid |-> 0, temp |-> 0]

(* loadInternalConfig; the stamp is the initial "-". *)
LoadInternalConfig(stored) ==
    [mode |-> stored.mode, interval |-> LoadInterval(stored.interval),
     notify |-> LoadNotify(stored.notify), stamp |-> Absent]

-----------------------------------------------------------------------------
(* The first boot of a chip. *)
Init ==
    /\ flash \in FreshFlash
    /\ pc = "boot" /\ step = 1 /\ ram = InitialRam /\ reading = InitialReading
    /\ cloud = [id |-> FALSE, interval |-> Absent, notify |-> NoNotifyNode,
                history |-> {}, updatedWhen |-> Absent]
    /\ calm = FALSE
    /\ wish = Absent /\ excused = FALSE /\ clean = TRUE
    /\ mailed = {} /\ enabled = FALSE /\ reported = FALSE

At(label) == pc = label
Goto(label) == pc' = label /\ UNCHANGED step

(* A reset, by ESP.reset, by the wake-up timer or by the power: the RAM is  *)
(* initialised again, and a new wake begins.                                *)
Reset ==
    /\ pc' = "boot" /\ step' = 1 /\ ram' = InitialRam /\ reading' = InitialReading
    /\ clean' = TRUE /\ mailed' = {} /\ reported' = FALSE

(* A fault may strike. *)
Fault == ~calm

-----------------------------------------------------------------------------
(* setup() *)

(* loadInternalConfig, the first thing setup() does that matters. *)
Boot ==
    /\ At("boot") /\ Goto("wifi")
    /\ ram' = LoadInternalConfig(flash)
    /\ UNCHANGED <<reading, flash, cloud, calm, observer>>

(* A defect: every wake registers. *)
JoinWifiRegisters ==
    /\ At("wifi") /\ flash.creds = "home"
    /\ Goto("create")
    /\ UNCHANGED <<ram, reading, flash, cloud, calm, observer>>

(* testWifi succeeds: register first when in setup mode. *)
JoinWifi ==
    /\ At("wifi") /\ flash.creds = "home"
    /\ Goto(IF ram.mode = "setup" THEN "create" ELSE "sense")
    /\ UNCHANGED <<ram, reading, flash, cloud, calm, observer>>

(* Thirty attempts without a connection, or wrong credentials: setupAP.    *)
(* It drops the credentials the radio holds, so that the connection never  *)
(* comes back by itself.                                                   *)
OpenHotspot ==
    /\ At("wifi") /\ (Fault \/ flash.creds # "home")
    /\ Goto("hotspot")
    /\ clean' = FALSE
    /\ UNCHANGED <<ram, reading, flash, cloud, calm,
                   wish, excused, mailed, enabled, reported>>

(* A request to /setting in the hotspot; with credentials it ends in a     *)
(* reset, without it reloads the globals.                                  *)
Setting(q) ==
    /\ At("hotspot") /\ ~calm
    /\ q.creds # Absent \/ q.mode # Absent \/ q.interval # Absent \/ q.uid
    /\ flash' = AfterSetting(q, flash)
    /\ IF q.creds # Absent
       THEN Reset
       ELSE /\ ram' = LoadInternalConfig(flash')
            /\ UNCHANGED <<pc, step, reading, clean, mailed, reported>>
    /\ UNCHANGED <<cloud, calm, wish, excused, enabled>>

(* createDeviceDataToCloudDatabase: Firebase.set replaces the whole node.  *)
(* The firmware goes on in the same way whether the call succeeds or not.  *)
CreateDevice(reached) ==
    /\ At("create") /\ Goto("leaveSetup")
    /\ \E s \in Stamps : ram' = [ram EXCEPT !.stamp = s]
    /\ IF reached
       THEN /\ cloud' = [id |-> TRUE, interval |-> Absent, notify |-> NoNotifyNode,
                         history |-> {}, updatedWhen |-> Absent]
            /\ excused' = TRUE
       ELSE /\ Fault /\ UNCHANGED <<cloud, excused>>
    /\ UNCHANGED <<reading, flash, calm, wish, clean, mailed, enabled, reported>>

(* getCurrentDateTime returns false: it falls off its end without a value  *)
(* when the clock was not set at once.  Nothing is created, setup mode is  *)
(* kept and the measurement goes on.                                       *)
CreateNoTime ==
    /\ At("create") /\ Fault /\ Goto("sense")
    /\ \E s \in Stamps : ram' = [ram EXCEPT !.stamp = s]
    /\ clean' = FALSE
    /\ UNCHANGED <<reading, flash, cloud, calm, wish, excused, mailed, enabled, reported>>

(* A defect: the mode is changed in RAM only. *)
LeaveSetupUncommitted ==
    /\ At("leaveSetup") /\ Reset
    /\ UNCHANGED <<flash, cloud, calm, wish, excused, enabled>>

(* updateWorkingMode(BURST_MODE), then ESP.reset. *)
LeaveSetup ==
    /\ At("leaveSetup") /\ Reset
    /\ flash' = [flash EXCEPT !.mode = "burst"]
    /\ UNCHANGED <<cloud, calm, wish, excused, enabled>>

(* A defect: gIsSendNotify is not asked. *)
SenseAlwaysMails ==
    /\ At("sense")
    /\ reading' \in SensorReadings
    /\ Goto("mailHumid")
    /\ UNCHANGED <<ram, flash, cloud, calm, observer>>

(* readSensor succeeds. *)
Sense ==
    /\ At("sense")
    /\ reading' \in SensorReadings
    /\ Goto(IF ram.notify["isSend"] = On THEN "mailHumid" ELSE "getInterval")
    /\ UNCHANGED <<ram, flash, cloud, calm, observer>>

(* readSensor gives a NaN: nothing is refreshed or uploaded in this wake. *)
SenseFails ==
    /\ At("sense") /\ Fault
    /\ pc' = "persist" /\ step' = 1
    /\ clean' = FALSE
    /\ UNCHANGED <<ram, reading, flash, cloud, calm,
                   wish, excused, mailed, enabled, reported>>

(* processNotification, its two halves; a mail that cannot be sent is not  *)
(* sent again.                                                             *)
MailHumid ==
    /\ At("mailHumid") /\ Goto("mailTemp")
    /\ \/ /\ HumidOut(reading, ram.notify)
          /\ mailed' = mailed \cup {"humidity"}
       \/ /\ ~HumidOut(reading, ram.notify) \/ Fault
          /\ UNCHANGED mailed
    /\ UNCHANGED <<ram, reading, flash, cloud, calm, wish, excused, clean, enabled, reported>>

MailTemp ==
    /\ At("mailTemp") /\ Goto("getInterval")
    /\ \/ /\ TempOut(reading, ram.notify)
          /\ mailed' = mailed \cup {"temperature"}
       \/ /\ ~TempOut(reading, ram.notify) \/ Fault
          /\ UNCHANGED mailed
    /\ UNCHANGED <<ram, reading, flash, cloud, calm, wish, excused, clean, enabled, reported>>

(* A defect: a missing value is not replaced. *)
FetchedIntervalUnchecked(answered) ==
    IF answered THEN cloud.interval ELSE DefaultInterval

(* getDeviceReadingIntervalFromCloudDatabase answers its default when the  *)
(* call fails and when the value is missing.                               *)
FetchedInterval(answered) ==
    IF answered /\ cloud.interval # Absent THEN cloud.interval ELSE DefaultInterval

(* A defect: an interval longer than the one in use is not taken over. *)
GetIntervalShorter(answered) ==
    /\ At("getInterval") /\ (answered \/ Fault)
    /\ Goto("getNotify")
    /\ ram' = IF FetchedInterval(answered) < ram.interval
              THEN [ram EXCEPT !.interval = FetchedInterval(answered)] ELSE ram
    /\ clean' = (clean /\ answered)
    /\ excused' = (excused \/ ~answered)
    /\ UNCHANGED <<reading, flash, cloud, calm, wish, mailed, enabled, reported>>

GetInterval(answered) ==
    /\ At("getInterval") /\ (answered \/ Fault)
    /\ Goto("getNotify")
    /\ ram' = [ram EXCEPT !.interval = FetchedInterval(answered)]
    /\ clean' = (clean /\ answered)
    /\ excused' = (excused \/ ~answered)
    /\ UNCHANGED <<reading, flash, cloud, calm, wish, mailed, enabled, reported>>

(* A defect: without an object in the cloud the old settings stay. *)
GetNotifyIfThere(answered) ==
    /\ At("getNotify") /\ (answered \/ Fault)
    /\ Goto("saveHistory")
    /\ ram' = IF answered /\ cloud.notify # NoNotifyNode
              THEN [ram EXCEPT !.notify = ReadNotify(cloud.notify)] ELSE ram
    /\ clean' = (clean /\ answered)
    /\ UNCHANGED <<reading, flash, cloud, calm, wish, excused, mailed, enabled, reported>>

(* getNotificationInfoFromCloudDatabase keeps the globals when the call    *)
(* fails.  That there is no notification object is no failure: all six     *)
(* settings are replaced, notification is off.                             *)
GetNotify(answered) ==
    /\ At("getNotify") /\ (answered \/ Fault)
    /\ Goto("saveHistory")
    /\ ram' = IF answered THEN [ram EXCEPT !.notify = ReadNotify(cloud.notify)] ELSE ram
    /\ clean' = (clean /\ answered)
    /\ UNCHANGED <<reading, flash, cloud, calm, wish, excused, mailed, enabled, reported>>

(* A defect: the device node is updated even when the entry was refused. *)
SaveHistoryUnchecked(reached, answered) ==
    /\ At("saveHistory") /\ (answered => reached) /\ (answered \/ Fault)
    /\ \E s \in Stamps :
         /\ ram' = [ram EXCEPT !.stamp = s]
         /\ cloud' = IF reached THEN [cloud EXCEPT !.history = @ \cup {s}] ELSE cloud
    /\ Goto("saveRoot")
    /\ clean' = (clean /\ answered)
    /\ reported' = TRUE
    /\ UNCHANGED <<reading, flash, calm, wish, excused, mailed, enabled>>

(* saveDataToCloudDatabase: a new entry of the history under the current   *)
(* time.  The device node follows only when the call succeeds; the result  *)
(* is true even when it does not.                                          *)
SaveHistory(reached, answered) ==
    /\ At("saveHistory") /\ (answered => reached) /\ (answered \/ Fault)
    /\ \E s \in Stamps :
         /\ ram' = [ram EXCEPT !.stamp = s]
         /\ cloud' = IF reached THEN [cloud EXCEPT !.history = @ \cup {s}] ELSE cloud
    /\ IF answered THEN Goto("saveRoot") ELSE pc' = "persist" /\ step' = 1
    /\ clean' = (clean /\ answered)
    /\ reported' = TRUE
    /\ UNCHANGED <<reading, flash, calm, wish, excused, mailed, enabled>>

(* getCurrentDateTime returns false. *)
SaveNoTime ==
    /\ At("saveHistory") /\ Fault
    /\ \E s \in Stamps : ram' = [ram EXCEPT !.stamp = s]
    /\ pc' = "persist" /\ step' = 1
    /\ clean' = FALSE
    /\ UNCHANGED <<reading, flash, cloud, calm, wish, excused, mailed, enabled, reported>>

(* A defect, of earlier versions: set, which replaces the node, in place of *)
(* updateNode.                                                              *)
SaveRootBySet(reached, answered) ==
    /\ At("saveRoot") /\ (answered => reached) /\ (answered \/ Fault)
    /\ cloud' = IF reached
                THEN [id |-> TRUE, updatedWhen |-> ram.stamp, interval |-> ram.interval,
                      notify |-> NoNotifyNode, history |-> {}]
                ELSE cloud
    /\ pc' = "persist" /\ step' = 1
    /\ clean' = (clean /\ answered)
    /\ UNCHANGED <<ram, reading, flash, calm, wish, excused, mailed, enabled, reported>>

(* A defect: the interval comes from the EEPROM. *)
SaveRootFromEeprom(reached, answered) ==
    /\ At("saveRoot") /\ (answered => reached) /\ (answered \/ Fault)
    /\ cloud' = IF reached
                THEN [cloud EXCEPT !.id = TRUE, !.updatedWhen = ram.stamp,
                                   !.interval = LoadInterval(flash.interval)]
                ELSE cloud
    /\ pc' = "persist" /\ step' = 1
    /\ clean' = (clean /\ answered)
    /\ UNCHANGED <<ram, reading, flash, calm, wish, excused, mailed, enabled, reported>>

(* saveDeviceRootDataToCloudDatabase: updateNode writes the reading        *)
(* interval back along with the reading.                                   *)
SaveRoot(reached, answered) ==
    /\ At("saveRoot") /\ (answered => reached) /\ (answered \/ Fault)
    /\ cloud' = IF reached
                THEN [cloud EXCEPT !.id = TRUE, !.updatedWhen = ram.stamp,
                                   !.interval = ram.interval]
                ELSE cloud
    /\ pc' = "persist" /\ step' = 1
    /\ clean' = (clean /\ answered)
    /\ UNCHANGED <<ram, reading, flash, calm, wish, excused, mailed, enabled, reported>>

(* writeLocalNotificationInfo: one committed write per field. *)
PersistNotify ==
    /\ At("persist") /\ step <= Len(WriteOrder)
    /\ LET f == WriteOrder[step]
       IN  flash' = [flash EXCEPT !.notify = [@ EXCEPT ![f] = Store(f, ram.notify[f])]]
    /\ step' = step + 1
    /\ UNCHANGED <<pc, ram, reading, cloud, calm, observer>>

(* A defect: the reading interval is forgotten. *)
PersistNoInterval ==
    /\ At("persist") /\ step = Len(WriteOrder) + 1
    /\ pc' = "sleep" /\ step' = 1
    /\ UNCHANGED <<ram, reading, flash, cloud, calm, observer>>

(* ... and the reading interval last. *)
PersistInterval ==
    /\ At("persist") /\ step = Len(WriteOrder) + 1
    /\ flash' = [flash EXCEPT !.interval = ram.interval]
    /\ pc' = "sleep" /\ step' = 1
    /\ UNCHANGED <<ram, reading, cloud, calm, observer>>

(* processDeepSleep; the wake-up is a reset. *)
Sleep ==
    /\ At("sleep") /\ Goto("asleep")
    /\ UNCHANGED <<ram, reading, flash, cloud, calm, observer>>

Wake ==
    /\ At("asleep") /\ Reset
    /\ UNCHANGED <<flash, cloud, calm, wish, excused, enabled>>

-----------------------------------------------------------------------------
(* The environment *)

(* Power lost and back, at any moment; only committed writes survive. *)
PowerCycle ==
    /\ Fault /\ Reset
    /\ UNCHANGED <<flash, cloud, calm, wish, excused, enabled>>

(* The interval has been chosen and not yet written back. *)
ChosenInterval == pc \in {"getNotify", "saveHistory", "saveRoot"}

AppSetsInterval(v) ==
    /\ ~calm
    /\ cloud' = [cloud EXCEPT !.interval = v]
    /\ wish' = v /\ excused' = ChosenInterval
    /\ clean' = FALSE
    /\ UNCHANGED <<device, flash, calm, mailed, enabled, reported>>

AppSetsNotify(n) ==
    /\ ~calm
    /\ cloud' = [cloud EXCEPT !.notify = n]
    /\ enabled' = (enabled \/ ReadNotify(n)["isSend"] = On)
    /\ clean' = FALSE
    /\ UNCHANGED <<device, flash, calm, wish, excused, mailed, reported>>

CalmDown ==
    /\ ~calm /\ calm' = TRUE
    /\ UNCHANGED <<device, flash, cloud, observer>>

-----------------------------------------------------------------------------
DeviceStep ==
    \/ Boot \/ JoinWifi \/ OpenHotspot
    \/ \E reached \in BOOLEAN : CreateDevice(reached)
    \/ CreateNoTime \/ LeaveSetup
    \/ Sense \/ SenseFails \/ MailHumid \/ MailTemp
    \/ \E answered \in BOOLEAN : GetInterval(answered) \/ GetNotify(answered)
    \/ \E reached, answered \in BOOLEAN :
         SaveHistory(reached, answered) \/ SaveRoot(reached, answered)
    \/ SaveNoTime
    \/ PersistNotify \/ PersistInterval \/ Sleep \/ Wake

Environment ==
    \/ \E q \in Requests : Setting(q)
    \/ PowerCycle
    \/ \E v \in Intervals : AppSetsInterval(v)
    \/ \E n \in CloudNotify : AppSetsNotify(n)
    \/ CalmDown

Next == DeviceStep \/ Environment

Spec == Init /\ [][Next]_vars

(* The processor runs, and the wake-up timer fires. *)
FairSpec == Spec /\ WF_vars(DeviceStep)

-----------------------------------------------------------------------------
(* Properties *)

RamRecords ==
    [mode : Modes \cup {Absent}, interval : Intervals, notify : NotifyInRam,
     stamp : Stamps \cup {Absent}]
CloudRecords ==
    [id : BOOLEAN, interval : Intervals \cup {Absent},
     notify : CloudNotify \cup {NoNotifyNode}, history : SUBSET Stamps,
     updatedWhen : Stamps \cup {Absent}]
Labels ==
    {"boot", "wifi", "hotspot", "create", "leaveSetup", "sense", "mailHumid",
     "mailTemp", "getInterval", "getNotify", "saveHistory", "saveRoot",
     "persist", "sleep", "asleep"}

(* Every variable holds a value the program can give it. *)
TypeOK ==
    /\ pc \in Labels /\ step \in 1 .. Len(WriteOrder) + 1
    /\ ram \in RamRecords /\ reading \in SensorReadings \cup {InitialReading}
    /\ flash \in FlashRecords /\ cloud \in CloudRecords
    /\ calm \in BOOLEAN
    /\ wish \in Intervals \cup {Absent} /\ excused \in BOOLEAN /\ clean \in BOOLEAN
    /\ mailed \subseteq {"humidity", "temperature"}
    /\ enabled \in BOOLEAN /\ reported \in BOOLEAN

(* The device node never claims a reading the history does not hold: its    *)
(* updatedWhen names an entry of the history, whatever calls were lost and  *)
(* wherever the power failed (saveDataToCloudDatabase updates the node only *)
(* after the entry is confirmed, and registration replaces both).           *)
RootPointsIntoHistory ==
    cloud.updatedWhen # Absent => cloud.updatedWhen \in cloud.history

(* A device that does not stand in setup mode never removes an entry of its *)
(* history: only createDeviceDataToCloudDatabase may replace the node.      *)
HistoryKept ==
    [][flash.mode # "setup" => cloud.history \subseteq cloud'.history]_vars

(* What the device goes to sleep with is what it wakes up with: the seven   *)
(* commits of writeLocalNotificationInfo leave in the EEPROM exactly what   *)
(* loadInternalConfig reads back (an empty e-mail reads as the default).    *)
WakesWithWhatItSlept ==
    pc \in {"sleep", "asleep"} =>
        /\ LoadInterval(flash.interval) = ram.interval
        /\ \A f \in NotifyField :
             LoadNotify(flash.notify)[f] =
                IF f = "email" /\ ram.notify[f] = NoEmail THEN DefaultEmail ELSE ram.notify[f]

(* EEPROM, cloud and last reading agree.  Where the cloud has no            *)
(* notification object, the EEPROM holds thresholds that nothing exceeds,   *)
(* no address, and notification off.                                        *)
NotifyInSync ==
    \A f \in NotifyField : flash.notify[f] = Store(f, ReadNotify(cloud.notify)[f])
InSync ==
    /\ flash.interval = cloud.interval /\ NotifyInSync
    /\ cloud.id /\ cloud.updatedWhen = ram.stamp /\ ram.stamp \in cloud.history

(* A wake in which no call failed and during which the app wrote nothing    *)
(* ends with the settings in the EEPROM equal to those in the cloud and the *)
(* reading in the history and on the device node; with the object missing,  *)
(* as after a registration, settings of before do not survive the wake.     *)
CleanWakeSyncs == pc = "asleep" /\ clean => InSync

(* The interval the app asked for stays in the cloud, but for two ways to   *)
(* lose it: a read of it that failed, or a write-back that was under way    *)
(* when the app wrote; and a registration, which replaces the node.         *)
WishLostOnlyWithExcuse ==
    wish # Absent /\ ~excused => cloud.interval = wish

(* Mail is decided on the settings an earlier wake committed, before this   *)
(* one refreshes them.  While those are still the cloud's, which is what a  *)
(* clean wake leaves behind, only what the cloud asks for is mailed.        *)
Out(r, c) ==
    IF c["isSend"] = On
    THEN {k \in {"humidity", "temperature"} :
            IF k = "humidity" THEN HumidOut(r, c) ELSE TempOut(r, c)}
    ELSE {}
MailFollowsCloud ==
    pc = "getInterval" /\ NotifyInSync =>
        mailed \subseteq Out(reading, ReadNotify(cloud.notify))

(* Once the network, the power and the app are quiet the device settles:    *)
(* unless it is caught in the hotspot, from some time on whenever it sleeps *)
(* EEPROM and cloud agree ...                                               *)
Settles ==
    [](calm => <>[](pc = "hotspot" \/ (pc = "asleep" => InSync)))

(* ... and it goes on measuring: setup mode is left, no reset loops.        *)
KeepsMeasuring ==
    calm ~> (pc = "hotspot" \/ (pc = "asleep" /\ reported))

(* The interval in the cloud, in use and in the EEPROM keep the promise of  *)
(* IntervalSync: no copy that slept in the EEPROM is pushed into the cloud. *)
Copies ==
    INSTANCE IntervalSync WITH
        Default <- DefaultInterval, remote <- cloud.interval, held <- ram.interval,
        kept <- flash.interval, fresh <- ChosenInterval
PushesOnlyFetched == Copies!Spec

(* Whatever the wake cycle, the hotspot and the power do, the EEPROM only   *)
(* goes through the steps of SettingsStore.                                 *)
Kept == INSTANCE SettingsStore
FlashFollowsStore == Kept!Spec

-----------------------------------------------------------------------------
(* The inductive strengthenings of these properties. *)

(* The node is updated only with a stamp the history confirmed. *)
RootInv ==
    /\ RootPointsIntoHistory
    /\ pc = "saveRoot" => ram.stamp \in cloud.history

(* Only a device in setup mode stands where the node is replaced. *)
SetupInv ==
    /\ pc = "wifi" => ram.mode = flash.mode
    /\ pc \in {"create", "leaveSetup"} => flash.mode = "setup"

(* What is about to be written back is the wish. *)
WishInv ==
    /\ WishLostOnlyWithExcuse
    /\ ChosenInterval /\ wish # Absent /\ ~excused => ram.interval = wish

(* The fields before step are written, and after the last one all are.      *)
PersistInv ==
    /\ pc = "persist" =>
         \A j \in 1 .. Len(WriteOrder) :
            j < step => flash.notify[WriteOrder[j]] = Store(WriteOrder[j], ram.notify[WriteOrder[j]])
    /\ pc \in {"sleep", "asleep"} =>
         /\ flash.interval = ram.interval
         /\ \A f \in NotifyField : flash.notify[f] = Store(f, ram.notify[f])

(* Until the refresh the settings in RAM are those of the EEPROM, and mail  *)
(* was decided on them.                                                     *)
BeforeMail == {"boot", "wifi", "hotspot", "create", "leaveSetup", "sense", "mailHumid"}
MailInv ==
    /\ pc \in (BeforeMail \ {"boot"}) \cup {"mailTemp", "getInterval"}
         => ram.notify = LoadNotify(flash.notify)
    /\ pc \in BeforeMail => mailed = {}
    /\ pc \in {"mailHumid", "mailTemp"} => ram.notify["isSend"] = On
    /\ pc \in {"mailTemp", "getInterval"} => mailed \subseteq Out(reading, ram.notify)

(* How far a clean wake has come: the interval and then the notification    *)
(* settings fetched, the reading uploaded, the node updated.                *)
CleanInv ==
    clean =>
        /\ pc \in {"saveHistory", "saveRoot", "persist", "sleep", "asleep"}
             => ram.notify = ReadNotify(cloud.notify)
        /\ pc = "saveRoot" => ram.stamp \in cloud.history
        /\ pc \in {"persist", "sleep", "asleep"}
             => /\ cloud.interval = ram.interval /\ cloud.id
                /\ cloud.updatedWhen = ram.stamp /\ ram.stamp \in cloud.history

-----------------------------------------------------------------------------
(* What the source says of itself, and does not keep. *)

(* "[readingInterval] value has updated from cloud database": where the     *)
(* cloud has an interval, the one in use changes only to that.              *)
IntervalComesFromCloud ==
    [][pc = "getInterval" /\ cloud.interval # Absent /\ ram'.interval # ram.interval
         => ram'.interval = cloud.interval]_vars

(* DEFAULT_NOTIFY_IS_SEND_NOTIFY is false: no e-mail before the app has     *)
(* ever asked for one.                                                      *)
NoMailUnlessEnabled == mailed # {} => enabled
=============================================================================
