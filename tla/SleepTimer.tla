---------------------------- MODULE SleepTimer ----------------------------
(***************************************************************************)
(* From the text of the reading interval to the sleep it gives:            *)
(* processDeepSleep reads the text with strtol, base 0, and multiplies the *)
(* milliseconds by a thousand in a machine word.                           *)
(*                                                                         *)
(* A text is a sign, an optional 0x and digits; what follows the last      *)
(* character strtol can use is left out, and a text that is no number at   *)
(* all has no digits.  The width of the word and the factor are            *)
(* parameters.                                                             *)
(***************************************************************************)
EXTENDS Integers, Sequences, SequencesExt

CONSTANTS
    Word,       \* 2^32, one more than the greatest unsigned long
    Factor,     \* 1000, microseconds in a millisecond
    Default,    \* DEFAULT_READING_INTERVAL_LONG
    Texts,      \* the texts the interval may have: from the cloud, from /setting
    Longest     \* 604800000, the milliseconds of a week

ASSUME WordAssumption == Word \in Nat /\ Word > 1 /\ Word % 2 = 0
ASSUME FactorAssumption == Factor \in Nat /\ Factor > 1
ASSUME DefaultAssumption == Default \in Nat \ {0} /\ Default * Factor < Word
ASSUME LongestAssumption == Longest \in Nat

Digit == 0 .. 15
AnyText == [neg : BOOLEAN, hex : BOOLEAN, digits : Seq(Digit)]

ASSUME TextsAssumption == Texts \subseteq AnyText

VARIABLES
    text,   \* gDeviceReadingInterval
    pc,
    sleep   \* the microseconds given to ESP.deepSleep

vars == <<text, pc, sleep>>

-----------------------------------------------------------------------------
LongMax == (Word \div 2) - 1

Least(a, b) == IF a < b THEN a ELSE b

(* The number a string of digits stands for in a base. *)
Numeral(digits, base) ==
    LET value[n \in 0 .. Len(digits)] ==
            IF n = 0 THEN 0 ELSE value[n - 1] * base + digits[n]
    IN  value[Len(digits)]

(* A defect: the base of the number is given as sixteen. *)
BaseSixteen(t) == 16

(* Base 0: 0x means sixteen, a leading zero eight, and ten otherwise. *)
BaseOf(t) ==
    IF t.hex THEN 16 ELSE IF t.digits # <<>> /\ t.digits[1] = 0 THEN 8 ELSE 10

(* The digits strtol can use: those before the first that is none. *)
Usable(t) ==
    LET stops == {i \in DOMAIN t.digits : t.digits[i] >= BaseOf(t)}
    IN  IF stops = {} THEN t.digits ELSE SubSeq(t.digits, 1, Min(stops) - 1)

(* strtol: what is too large becomes the greatest or the least long. *)
Strtol(t) ==
    LET n == Numeral(Usable(t), BaseOf(t))
    IN  IF t.neg THEN -Least(n, LongMax + 1) ELSE Least(n, LongMax)

(* A defect: zero is not replaced. *)
OrDefaultNever(n) == n

(* DEFAULT_READING_INTERVAL_LONG in place of zero. *)
OrDefault(n) == IF n = 0 THEN Default ELSE n

(* A defect: the product is not reduced. *)
MicrosecondsWide(n) == n * Factor

(* readingInterval * 1000, assigned to an unsigned long. *)
Microseconds(n) == (n * Factor) % Word

(* processDeepSleep. *)
Sleep ==
    /\ pc = "awake" /\ pc' = "asleep"
    /\ sleep' = Microseconds(OrDefault(Strtol(text)))
    /\ UNCHANGED text

(* Woken by the timer or by hand, the device finds another interval. *)
Wake ==
    /\ pc = "asleep" /\ pc' = "awake"
    /\ text' \in Texts /\ sleep' = 0

Init == text \in Texts /\ pc = "awake" /\ sleep = 0

Next == Sleep \/ Wake

Spec == Init /\ [][Next]_vars

-----------------------------------------------------------------------------
(* Properties *)

(* The sleep is a machine word. *)
TypeOK ==
    /\ text \in Texts /\ pc \in {"awake", "asleep"}
    /\ sleep \in 0 .. Word - 1

(* A person reads the text as a decimal number. *)
Plain(t) ==
    /\ ~t.neg /\ ~t.hex /\ t.digits # <<>> /\ t.digits[1] # 0
    /\ \A i \in DOMAIN t.digits : t.digits[i] < 10
AsWritten(t) == Numeral(t.digits, 10)

(* An interval written as a plain number whose microseconds fit the word is *)
(* slept exactly, whatever its length.                                      *)
SleepsAsWritten ==
    pc = "asleep" /\ Plain(text) /\ AsWritten(text) * Factor < Word
        => sleep = AsWritten(text) * Factor

(* A text without a number, or that says zero, does not put the device to   *)
(* sleep for ever, which is what a sleep of zero means: it sleeps for the   *)
(* default.                                                                 *)
NoNumberSleepsDefault ==
    pc = "asleep" /\ (Usable(text) = <<>> \/ \A i \in DOMAIN text.digits : text.digits[i] = 0)
        => sleep = Default * Factor

-----------------------------------------------------------------------------
(* What the source says of itself, and does not keep. *)

(* "reading interval size 10 characters. (1 week = 168 hours = 604,800,000  *)
(* milliseconds)": intervals up to a week are slept.                        *)
WeekFits ==
    pc = "asleep" /\ Plain(text) /\ AsWritten(text) <= Longest
        => sleep = AsWritten(text) * Factor
=============================================================================
