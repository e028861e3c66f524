--------------------------- MODULE SettingsStore ---------------------------
(***************************************************************************)
(* What may ever happen to the settings of a node: a request at the        *)
(* hotspot, the end of setup mode, and the commits with which a wake keeps *)
(* one setting.  The wake cycle implements this (DutyCycle), and so does   *)
(* the EEPROM byte by byte as long as every text fits (EepromLayout).      *)
(***************************************************************************)
EXTENDS Settings

VARIABLE flash

Init == flash \in FreshFlash

Provision(q) == flash' = AfterSetting(q, flash)

LeaveSetup == flash.mode = "setup" /\ flash' = [flash EXCEPT !.mode = "burst"]

KeepField(f, v) == flash' = [flash EXCEPT !.notify = [@ EXCEPT ![f] = Store(f, v)]]

KeepInterval(v) == flash' = [flash EXCEPT !.interval = v]

Next ==
    \/ \E q \in Requests : Provision(q)
    \/ LeaveSetup
    \/ \E f \in NotifyField : \E v \in FieldValues(f) : KeepField(f, v)
    \/ \E v \in Intervals : KeepInterval(v)

Spec == Init /\ [][Next]_flash
=============================================================================
