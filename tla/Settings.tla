------------------------------ MODULE Settings ------------------------------
(***************************************************************************)
(* What the EEPROM of a node holds, as a record of settings, and what each *)
(* operation of the firmware makes of it.  EepromLayout shows how the bytes *)
(* carry this record, and where they do not.                               *)
(*                                                                         *)
(* Database host and key, and the device name, are left out: no decision   *)
(* of the wake cycle depends on them.                                      *)
(***************************************************************************)
EXTENDS NotificationConfig

CONSTANTS
    Intervals,     \* reading intervals, as the numbers their text stands for
    Requests       \* the requests to /setting

(* DEFAULT_READING_INTERVAL *)
DefaultInterval == 10000

ASSUME IntervalsAssumption == Intervals \subseteq Int /\ DefaultInterval \in Intervals

(* SETUP_MODE, BURST_MODE, or a field that is empty: the firmware only asks *)
(* whether the mode is "setup".                                             *)
Modes == {"setup", "burst"}

FlashRecords ==
    [creds : {"home", "wrong", Absent}, mode : Modes \cup {Absent},
     interval : Intervals \cup {Absent}, notify : NotifyInEeprom]

(* A chip fresh from the factory: erased flash reads 0xFF, which is neither *)
(* empty nor "0" at isSendNotify; one cleared by an earlier firmware reads  *)
(* zero.  The other fields are cleared by the first request that brings     *)
(* credentials, before anything reads them.                                 *)
FreshFlash ==
    {[creds |-> Absent, mode |-> Absent, interval |-> Absent,
      notify |-> [ErasedNotify EXCEPT !["isSend"] = s]] : s \in {On, Absent}}

(* The order in which writeLocalNotificationInfo commits the fields, before *)
(* the reading interval.                                                    *)
WriteOrder == <<"humidLower", "humidHigher", "tempLower", "tempHigher", "email", "isSend">>

LoadInterval(stored) == IF stored = Absent THEN DefaultInterval ELSE stored

(* A user uid is written over the first three thresholds: its slices start  *)
(* with a letter and read as zero; the rest of the region is cleared.       *)
UidOverNotify(stored) ==
    [f \in NotifyField |->
        CASE f \in {"humidLower", "humidHigher", "tempLower"} -> 0
          [] f \in {"tempHigher", "email"}                    -> Absent
          [] f = "isSend"                                     -> stored[f]]

(* The loop that clears 0..397 stops before isSendNotify at 422. *)
ClearedNotify(stored) == [ErasedNotify EXCEPT !["isSend"] = stored["isSend"]]

(* The arguments of a request to /setting. *)
SettingRequests ==
    [creds : {"home", "wrong", Absent}, mode : {"setup", Absent},
     interval : Intervals \cup {Absent}, uid : BOOLEAN]

ASSUME RequestsAssumption == Requests \subseteq SettingRequests

OrOld(new, old) == IF new = Absent THEN old ELSE new

(* What the handler leaves in the EEPROM. *)
AfterSetting(q, stored) ==
    LET base == IF q.creds = Absent THEN stored
                ELSE [creds |-> q.creds, mode |-> Absent, interval |-> Absent,
                      notify |-> ClearedNotify(stored.notify)]
    IN  [creds    |-> base.creds,
         mode     |-> OrOld(q.mode, base.mode),
         interval |-> OrOld(q.interval, base.interval),
         notify   |-> IF q.uid THEN UidOverNotify(base.notify) ELSE base.notify]

=============================================================================
