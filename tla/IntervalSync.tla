---------------------------- MODULE IntervalSync ----------------------------
(***************************************************************************)
(* What the firmware promises about the three copies of the reading        *)
(* interval, with everything else left out: the one in the cloud (remote), *)
(* the one in use (held) and the one that survives a reset (kept).         *)
(*                                                                         *)
(* The promise: the device writes into the cloud only an interval it       *)
(* fetched in the same wake, or the default it took for want of one; it    *)
(* never pushes the copy that slept in the EEPROM over the cloud's, and    *)
(* what it keeps is what it holds.                                         *)
(***************************************************************************)
CONSTANTS Intervals, Default, Absent

VARIABLES
    remote,  \* readingInterval in the cloud, or Absent
    held,    \* gDeviceReadingInterval
    kept,    \* the field in the EEPROM, or Absent
    fresh    \* held was fetched in this wake and may be written back

vars == <<remote, held, kept, fresh>>

OrDefault(v) == IF v = Absent THEN Default ELSE v

Init == remote = Absent /\ kept = Absent /\ held = Default /\ fresh = FALSE

(* The app writes an interval, or a registration replaces the node. *)
Edit ==
    /\ remote' \in Intervals \/ (~fresh /\ remote' = Absent)
    /\ UNCHANGED <<held, kept, fresh>>

Fetch ==
    /\ ~fresh /\ fresh' = TRUE
    /\ held' \in {OrDefault(remote), Default}
    /\ UNCHANGED <<remote, kept>>

(* Write back, or find that the write was lost; either way only once. *)
Push ==
    /\ fresh /\ fresh' = FALSE
    /\ remote' \in {remote, held}
    /\ UNCHANGED <<held, kept>>

Keep ==
    /\ ~fresh /\ kept' = held
    /\ UNCHANGED <<remote, held, fresh>>

(* A reset, and the load that follows it. *)
Restart ==
    /\ held' \in {Default, OrDefault(kept)} /\ fresh' = FALSE
    /\ UNCHANGED <<remote, kept>>

(* The user of the hotspot sets the copy in the EEPROM, or clears it. *)
Provision ==
    /\ ~fresh
    /\ kept' \in Intervals \cup {Absent}
    /\ held' \in {Default, OrDefault(kept')}
    /\ UNCHANGED <<remote, fresh>>

Next == Edit \/ Fetch \/ Push \/ Keep \/ Restart \/ Provision

Spec == Init /\ [][Next]_vars
=============================================================================
