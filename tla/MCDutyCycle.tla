---------------------------- MODULE MCDutyCycle ----------------------------
(***************************************************************************)
(* Instances of DutyCycle for TLC.                                         *)
(***************************************************************************)
EXTENDS DutyCycle

CONSTANT Owner   \* the address the app's user enters

MCLevels == {0, 20, 30, 50, DefaultHigher}
MCIntervals == {DefaultInterval, 60000}
OneInterval == {DefaultInterval}

(* A complete notification object, and one with two keys missing; after a   *)
(* registration there is none.                                             *)
FullNode ==
    [f \in NotifyField |->
        CASE f = "humidLower" -> 20 [] f = "humidHigher" -> DefaultHigher
          [] f = "tempLower" -> 0   [] f = "tempHigher" -> 30
          [] f = "email" -> Owner   [] f = "isSend" -> On]
PartialNode == [f \in NotifyField \ {"tempLower", "isSend"} |->
                    IF f = "email" THEN Owner ELSE IF f = "humidLower" THEN 0 ELSE 30]
BothNodes == {FullNode, PartialNode}
OneNode == {FullNode}

(* One limit only, for the runs over longer behaviours. *)
OneLimit == {[FullNode EXCEPT !["tempHigher"] = DefaultHigher]}

(* In range of FullNode, and out of it on both counts. *)
MCReadings == {[humid |-> 30, temp |-> 20], [humid |-> 0, temp |-> 50]}
InRange == {[humid |-> 30, temp |-> 20]}

(* Installation with a user uid, again without, with a wrong password, and  *)
(* a change of the interval alone.                                          *)
Install == [creds |-> "home", mode |-> "setup", interval |-> Absent, uid |-> TRUE]
MCRequests ==
    {Install,
     [creds |-> "home", mode |-> Absent, interval |-> 60000, uid |-> FALSE],
     [creds |-> "wrong", mode |-> "setup", interval |-> Absent, uid |-> FALSE],
     [creds |-> Absent, mode |-> Absent, interval |-> 60000, uid |-> FALSE]}
InstallOnly == {Install}
InstallWithoutUid == {[Install EXCEPT !.uid = FALSE]}
=============================================================================
