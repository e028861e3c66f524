--------------------------- MODULE MCEepromLayout ---------------------------
(***************************************************************************)
(* An instance of EepromLayout for TLC: regions of one to four bytes.      *)
(***************************************************************************)
EXTENDS EepromLayout

CONSTANT Owner   \* the address the app's user enters

MCStart ==
    [f \in Fields |->
        CASE f = "ssid" -> 0     [] f = "pass" -> 2      [] f = "fbhost" -> 5
          [] f = "fbauth" -> 7   [] f = "mode" -> 9      [] f = "name" -> 12
          [] f = "interval" -> 14
          [] f = "humidLower" -> 17 [] f = "humidHigher" -> 19
          [] f = "tempLower" -> 21  [] f = "tempHigher" -> 23
          [] f = "email" -> 25      [] f = "isSend" -> 29]
MCSize ==
    [f \in Fields |->
        CASE f \in {"pass", "mode", "interval"} -> 3 [] f = "email" -> 4
          [] f = "isSend" -> 1 [] OTHER -> 2]

(* A text of its own for everything that is written, of a length below, at  *)
(* and above the size of its region.                                        *)
MCTexts ==
    {"home", "secret", "host", "key", "setup", "burst", "basement", "0.00", "999.00", "12345678.00",
     "10000", "60000", "long interval", "default@", "owner@", "long@", "1", "0", "uid", "long uid"}
MCLength ==
    [t \in MCTexts |->
        CASE t \in {"home", "host", "0.00", "1", "0"} -> 1
          [] t \in {"secret", "key", "setup", "burst", "999.00", "10000", "owner@"} -> 2
          [] t \in {"60000", "12345678.00"} -> 3
          [] t \in {"basement", "default@", "long interval"} -> 4
          [] t \in {"long@", "uid"} -> 5
          [] t = "long uid" -> 10]

MCLevels == {0, DefaultHigher, 12345678}
MCLevelText == [v \in MCLevels |-> CASE v = 0 -> "0.00" [] v = 999 -> "999.00" [] OTHER -> "12345678.00"]
MCIntervals == {DefaultInterval, 60000}
MCIntervalText == [v \in MCIntervals |-> IF v = 60000 THEN "60000" ELSE "10000"]
MCEmailText == [v \in Emails \ {NoEmail} |-> IF v = DefaultEmail THEN "default@" ELSE "owner@"]
MCSwitchText == [v \in {On, Off} |-> IF v = On THEN "1" ELSE "0"]

Nothing ==
    [ssid |-> NoText, pass |-> NoText, fbhost |-> NoText, fbauth |-> NoText,
     mode |-> NoText, name |-> NoText, interval |-> NoText, uid |-> NoText]
Install == [Nothing EXCEPT !.ssid = "home", !.pass = "secret", !.mode = "setup"]
MCProvisionings ==
    {[Install EXCEPT !.fbhost = "host", !.fbauth = "key", !.uid = "uid"],
     [Install EXCEPT !.interval = "60000"],
     [Nothing EXCEPT !.ssid = "home", !.name = "basement", !.uid = "long uid"]}

CloudText(low, high, address, switch, interval) ==
    [f \in KeptFields |->
        Spelled(CASE f \in {"humidLower", "tempLower"} -> low
                  [] f \in {"humidHigher", "tempHigher"} -> high
                  [] f = "email" -> address [] f = "isSend" -> switch [] f = "interval" -> interval)]
MCCloudTexts ==
    {[CloudText("999.00", "999.00", "0.00", "1", "60000") EXCEPT !["email"] = <<>>],
     CloudText("12345678.00", "12345678.00", "long@", "0", "long interval")}

(* What those requests are to Settings. *)
MCRequests == {AsRequest(q) : q \in MCProvisionings}
=============================================================================
