------------------------- MODULE NotificationConfig -------------------------
(***************************************************************************)
(* The notification settings of one device and the three shapes they take: *)
(*                                                                         *)
(*   - in RAM, the globals gNotifyHumidLower ... gIsSendNotify;            *)
(*   - in the EEPROM, six text fields, any of which may be empty;          *)
(*   - in the cloud, the JSON object .../notification, any key of which    *)
(*     may be missing.                                                     *)
(*                                                                         *)
(* A threshold is an integer (the code's floats, restricted to values the  *)
(* two decimals of String(float) carry exactly); addresses, On and Off are *)
(* values of their own, so that one function holds all six settings.       *)
(* Absent stands for an erased field.                                      *)
(***************************************************************************)
EXTENDS Integers, Sequences

CONSTANTS
    Levels,        \* thresholds and readings
    Emails,        \* contents of notifyEmail, NoEmail included
    NoEmail,       \* the empty string
    DefaultEmail,  \* DEFAULT_NOTIFY_EMAIL
    NumberText,    \* the text of a number where an address was expected
    On, Off,       \* the values of isSendNotify
    Absent         \* an empty EEPROM field, a missing cloud value

(* DEFAULT_NOTIFY_HUMID_HIGHER and DEFAULT_NOTIFY_TEMP_HIGHER. *)
DefaultHigher == 999

ASSUME LevelsAssumption == Levels \subseteq Int /\ {0, DefaultHigher} \subseteq Levels
ASSUME EmailsAssumption == {NoEmail, DefaultEmail, NumberText} \subseteq Emails
ASSUME OnOffAssumption == On # Off
ASSUME AbsentAssumption == Absent \notin Levels \cup Emails \cup {On, Off}

NumericField == {"humidLower", "humidHigher", "tempLower", "tempHigher"}
NotifyField  == NumericField \cup {"email", "isSend"}

(* What a field can hold in RAM. *)
FieldValues(f) ==
    IF f \in NumericField THEN Levels ELSE IF f = "email" THEN Emails ELSE {On, Off}
AnyValue == Levels \cup Emails \cup {On, Off}

NotifyInRam ==
    {c \in [NotifyField -> AnyValue] : \A f \in NotifyField : c[f] \in FieldValues(f)}
NotifyInEeprom ==
    {c \in [NotifyField -> AnyValue \cup {Absent}] :
        \A f \in NotifyField : c[f] \in FieldValues(f) \cup {Absent}}

-----------------------------------------------------------------------------
(* EEPROM <-> RAM *)

(* The value loadInternalConfig gives a field it finds empty. *)
NotifyDefault ==
    [f \in NotifyField |->
        CASE f \in {"humidLower", "tempLower"}   -> 0
          [] f \in {"humidHigher", "tempHigher"} -> DefaultHigher
          [] f = "email"                         -> DefaultEmail
          [] f = "isSend"                        -> Off]

LoadNotify(stored) ==
    [f \in NotifyField |-> IF stored[f] = Absent THEN NotifyDefault[f] ELSE stored[f]]

(* writeLocalNotificationConfig clears the field and writes the text: only *)
(* an empty e-mail leaves the field empty.                                 *)
Store(f, v) == IF f = "email" /\ v = NoEmail THEN Absent ELSE v

ErasedNotify == [f \in NotifyField |-> Absent]

-----------------------------------------------------------------------------
(* cloud -> RAM *)

(* A notification object: some of the keys. *)
IsNotifyNode(n) ==
    /\ DOMAIN n \subseteq NotifyField
    /\ n \in [DOMAIN n -> AnyValue]
    /\ \A f \in DOMAIN n : n[f] \in FieldValues(f)

(* Where there is no object, the database answers null with success, and    *)
(* what is parsed is an object without keys.                                *)
NoNotifyNode == [f \in {} |-> Absent]

(* json.get(data, key) leaves data as it was when the key is missing, and  *)
(* one FirebaseJsonData serves all six keys in turn: a missing key takes   *)
(* what the key before it left.                                            *)
JsonGet(node, key, before) == IF key \in DOMAIN node THEN node[key] ELSE before

(* A higher threshold of zero means "none". *)
OrDefaultHigher(v) == IF v = 0 THEN DefaultHigher ELSE v

ReadNotify(node) ==
    LET hl == JsonGet(node, "humidLower", 0)
        hh == JsonGet(node, "humidHigher", hl)
        tl == JsonGet(node, "tempLower", hh)
        th == JsonGet(node, "tempHigher", tl)
        email == JsonGet(node, "email",
                         IF NumericField \cap DOMAIN node = {} THEN NoEmail ELSE NumberText)
        \* boolValue of an address is false, of a number "positive"
        send == JsonGet(node, "isSend",
                        IF "email" \notin DOMAIN node /\ th > 0 THEN On ELSE Off)
    IN  [f \in NotifyField |->
            CASE f = "humidLower"  -> hl
              [] f = "humidHigher" -> OrDefaultHigher(hh)
              [] f = "tempLower"   -> tl
              [] f = "tempHigher"  -> OrDefaultHigher(th)
              [] f = "email"       -> email
              [] f = "isSend"      -> send]

-----------------------------------------------------------------------------
(* The notification decision of processNotification. *)

(* A reading is a pair of levels. *)
Readings == [humid : Levels, temp : Levels]

HumidOut(r, c) == r.humid < c["humidLower"] \/ r.humid > c["humidHigher"]
TempOut(r, c)  == r.temp < c["tempLower"] \/ r.temp > c["tempHigher"]
=============================================================================
