---------------------------- MODULE TimeKeeper ----------------------------
(***************************************************************************)
(* The clock of one wake: the Time library's software clock, which tries   *)
(* an NTP synchronisation when it is read and one is due, and              *)
(* getCurrentDateTime, which makes the key of a history entry out of       *)
(* separate readings of that clock.                                        *)
(*                                                                         *)
(* Time is counted in seconds, real since the epoch; a date has a year, a  *)
(* minute and a second, whose lengths are parameters.  The clock starts    *)
(* at the epoch, so its year shows whether it was ever set.  Seconds may   *)
(* pass between any two readings.                                          *)
(***************************************************************************)
EXTENDS Integers

CONSTANTS
    BootTime,      \* real time at boot, in a year after the first
    YearLength,    \* seconds in a year
    MinuteLength,  \* seconds in a minute
    SyncInterval,  \* setSyncInterval(300)
    MaxDepth,      \* calls of getCurrentDateTime the stack has room for
    MaxTime        \* bound on the seconds of one wake, less than a year

ASSUME LengthsAssumption ==
    /\ MinuteLength \in Nat \ {0} /\ YearLength \in Nat \ {0}
    /\ SyncInterval \in Nat \ {0} /\ MaxDepth \in Nat \ {0}
    /\ MaxTime \in Nat /\ MaxTime < YearLength
    /\ BootTime \in Nat /\ BootTime >= YearLength

Fields == {"year", "minute", "second"}

(* breakTime *)
FieldOf(f, t) ==
    CASE f = "year"   -> t \div YearLength
      [] f = "minute" -> (t % YearLength) \div MinuteLength
      [] f = "second" -> t % MinuteLength

None == -1

VARIABLES
    real,     \* the time it is
    sys,      \* sysTime, with the milliseconds since its last reading
    next,     \* nextSyncTime
    pc,       \* where setup() stands, as far as the clock is concerned
    depth,    \* active calls of getCurrentDateTime
    stamp,    \* the fields read into date_buf, in the innermost call
    result,   \* what the outermost call returned
    tried,    \* when synchronisation was last tried (observer)
    called    \* when the innermost call began to read (observer)

clock == <<sys, next, tried>>
vars  == <<real, clock, pc, depth, stamp, result, called>>

Blank == [f \in Fields |-> None]

Init ==
    /\ real = BootTime /\ sys = 0 /\ next = 0
    /\ pc = "boot" /\ depth = 0 /\ stamp = Blank /\ result = "none"
    /\ tried = None /\ called = None

Ended == pc \in {"returned", "reset"}

(* A second passes, for the world and, since now() counts the milliseconds *)
(* that went by, for the clock.                                            *)
Tick ==
    /\ ~Ended /\ real < BootTime + MaxTime
    /\ real' = real + 1 /\ sys' = sys + 1
    /\ UNCHANGED <<next, tried, pc, depth, stamp, result, called>>

-----------------------------------------------------------------------------
(* now() *)

(* A defect: the packet buffer is taken for a reply when none came. *)
SynchroniseUnanswered ==
    /\ tried' = real
    /\ \/ sys' = real /\ next' = real + SyncInterval
       \/ sys' = None /\ next' = None + SyncInterval

(* The provider getNtpTime answers, or gives up after 1.5 seconds. *)
Synchronise ==
    /\ tried' = real
    /\ \/ sys' = real /\ next' = real + SyncInterval
       \/ next' = sys + SyncInterval /\ UNCHANGED sys

(* A defect: after a failure the next reading tries again. *)
NowImpatient ==
    IF next <= sys
    THEN Synchronise \/ (tried' = real /\ UNCHANGED <<sys, next>>)
    ELSE UNCHANGED clock

(* What is read is sys', the clock once a synchronisation that was due has *)
(* been tried.                                                             *)
Now == IF next <= sys THEN Synchronise ELSE UNCHANGED clock

-----------------------------------------------------------------------------
(* setSyncProvider synchronises at once; setSyncInterval starts a full     *)
(* interval, whether that succeeded or not.                                *)
StartClock ==
    /\ pc = "boot" /\ pc' = "work"
    /\ tried' = real /\ sys' \in {sys, real} /\ next' = sys' + SyncInterval
    /\ UNCHANGED <<real, depth, stamp, result, called>>

(* getCurrentDateTime, and its call of itself. *)
Call ==
    /\ pc \in {"work", "again"} /\ depth < MaxDepth
    /\ pc' = "read" /\ depth' = depth + 1 /\ stamp' = Blank /\ called' = real
    /\ UNCHANGED <<real, clock, result>>

(* No room left on the stack: an exception resets the chip. *)
Overflow ==
    /\ pc = "again" /\ depth = MaxDepth
    /\ pc' = "reset"
    /\ UNCHANGED <<real, clock, depth, stamp, result, called>>

(* year(), month(), day(), hour(), minute(), second(): arguments of one    *)
(* call of sprintf, evaluated in an order the language leaves open.        *)
ReadField(f) ==
    /\ pc = "read" /\ stamp[f] = None
    /\ Now
    /\ stamp' = [stamp EXCEPT ![f] = FieldOf(f, sys')]
    /\ pc' = IF \A g \in Fields \ {f} : stamp[g] # None THEN "check" ELSE pc
    /\ UNCHANGED <<real, depth, result, called>>

(* A call that called itself has no return statement: its result is what   *)
(* the register happens to hold, or control runs on past its end.          *)
Return ==
    \/ pc' = "returned" /\ result' = "true"
    \/ depth > 1 /\ pc' = "returned" /\ result' = "false"
    \/ depth > 1 /\ pc' = "reset" /\ UNCHANGED result

(* A defect: the year is not checked after a second reading. *)
CheckYearOnce ==
    /\ pc = "check" /\ Now
    /\ IF FieldOf("year", sys') < 1 /\ depth = 1
       THEN pc' = "again" /\ UNCHANGED result
       ELSE Return
    /\ UNCHANGED <<real, depth, stamp, called>>

(* year() < 1971 reads the clock once more. *)
CheckYear ==
    /\ pc = "check" /\ Now
    /\ IF FieldOf("year", sys') < 1
       THEN pc' = "again" /\ UNCHANGED result
       ELSE Return
    /\ UNCHANGED <<real, depth, stamp, called>>

Next ==
    \/ Tick \/ StartClock \/ Call \/ Overflow
    \/ \E f \in Fields : ReadField(f)
    \/ CheckYear

Spec == Init /\ [][Next]_vars

-----------------------------------------------------------------------------
(* Properties *)

(* Every variable holds a value the program can give it; the clock is      *)
(* never before the epoch.                                                 *)
TypeOK ==
    /\ real \in BootTime .. BootTime + MaxTime
    /\ sys \in 0 .. BootTime + MaxTime
    /\ next \in 0 .. BootTime + MaxTime + SyncInterval
    /\ tried \in BootTime .. BootTime + MaxTime \/ tried = None
    /\ called \in BootTime .. BootTime + MaxTime \/ called = None
    /\ pc \in {"boot", "work", "again", "read", "check", "returned", "reset"}
    /\ depth \in 0 .. MaxDepth
    /\ stamp \in [Fields -> Nat \cup {None}]
    /\ result \in {"none", "true", "false"}

(* The firmware goes on to use a stamp only once the clock has been set,   *)
(* however many synchronisations failed before (getCurrentDateTime calls   *)
(* itself while the year is 1970).                                         *)
ReturnsWithClockSet == pc = "returned" => sys = real

(* Two synchronisations are at least an interval apart: a failure does not *)
(* make every reading of the clock wait for the network.                   *)
SyncsSpaced ==
    [][tried' # tried /\ tried # None => tried' - tried >= SyncInterval]_vars

(* A stamp of the year 1970 is accepted only when the synchronisation fell *)
(* between the readings of the call that made it; the other five fields    *)
(* are not looked at.                                                      *)
EpochOnlyAcrossSync ==
    pc = "returned" /\ stamp["year"] < 1 => tried >= called
=============================================================================
