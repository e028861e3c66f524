-------------------------- MODULE SleepTimerProofs --------------------------
(***************************************************************************)
(* Proofs about SleepTimer, for texts of any length, any even word and any *)
(* factor.                                                                 *)
(***************************************************************************)
EXTENDS SleepTimer, LeastNumbers, SequenceTheorems

-----------------------------------------------------------------------------
(* Numerals *)

(* v holds the value of each prefix of the digits.                         *)
PrefixValues(v, digits, base) ==
    /\ DOMAIN v = 0 .. Len(digits)
    /\ v[0] = 0
    /\ \A i \in 1 .. Len(digits) : v[i] = v[i - 1] * base + digits[i]

(* The recursion of Numeral is well defined, by induction on the prefix.   *)
LEMMA NumeralIsPrefixValue ==
    ASSUME NEW digits, Len(digits) \in Nat, NEW base
    PROVE  \E v : PrefixValues(v, digits, base) /\ Numeral(digits, base) = v[Len(digits)]
  <1> DEFINE L == Len(digits)
             Unfolds(v, n) == v = [i \in 0 .. n |-> IF i = 0 THEN 0 ELSE v[i - 1] * base + digits[i]]
             S == {n \in Nat : \E v : Unfolds(v, n)}
  <1>1. 0 \in S
    <2>1. Unfolds([i \in 0 .. 0 |-> 0], 0)
      OBVIOUS
    <2> QED  BY <2>1
  <1>2. ASSUME NEW n \in Nat, n \in S PROVE n + 1 \in S
    <2>1. PICK v : Unfolds(v, n)
      BY <1>2
    <2> DEFINE w == [i \in 0 .. n + 1 |-> IF i = n + 1 THEN v[n] * base + digits[n + 1] ELSE v[i]]
    <2>2. \A i \in 0 .. n : v[i] = IF i = 0 THEN 0 ELSE v[i - 1] * base + digits[i]
      BY <2>1
    <2>3. \A i \in 0 .. n : w[i] = v[i]
      OBVIOUS
    <2>4. w[n + 1] = v[n] * base + digits[n + 1]
      OBVIOUS
    <2>5. w = [i \in 0 .. n + 1 |-> w[i]]
      OBVIOUS
    <2> HIDE DEF w
    <2>6. ASSUME NEW i \in 0 .. n + 1
          PROVE  w[i] = IF i = 0 THEN 0 ELSE w[i - 1] * base + digits[i]
      <3>1. CASE i = n + 1
        BY <2>3, <2>4, <3>1
      <3>2. CASE i # n + 1
        <4>1. i \in 0 .. n /\ (i # 0 => i - 1 \in 0 .. n)
          BY <3>2
        <4> QED  BY <2>2, <2>3, <4>1
      <3> QED  BY <3>1, <3>2
    <2>7. Unfolds(w, n + 1)
      BY <2>5, <2>6
    <2> HIDE DEF Unfolds
    <2> QED  BY <2>7
  <1>3. L \in S
    <2> HIDE DEF S
    <2> QED  BY <1>1, <1>2, SetInduction
  <1> DEFINE value[n \in 0 .. Len(digits)] ==
                IF n = 0 THEN 0 ELSE value[n - 1] * base + digits[n]
  <1>4. Unfolds(value, L)
    BY <1>3
  <1>5. Numeral(digits, base) = value[L]
    BY DEF Numeral
  <1> HIDE DEF value
  <1>6. PrefixValues(value, digits, base)
    BY <1>4 DEF PrefixValues
  <1> QED  BY <1>5, <1>6

LEMMA ProductType == \A a, b \in Nat : a * b \in Nat /\ (a > 0 /\ b > 0 => a * b > 0)
  OBVIOUS

LEMMA NumeralType ==
    ASSUME NEW digits \in Seq(Nat), NEW base \in Nat
    PROVE  Numeral(digits, base) \in Nat
  <1>1. PICK v : PrefixValues(v, digits, base) /\ Numeral(digits, base) = v[Len(digits)]
    BY NumeralIsPrefixValue
  <1> DEFINE S == {n \in Nat : n <= Len(digits) => v[n] \in Nat}
  <1>2. 0 \in S
    BY <1>1 DEF PrefixValues
  <1>3. ASSUME NEW n \in Nat, n \in S PROVE n + 1 \in S
    <2> SUFFICES ASSUME n + 1 \in 1 .. Len(digits) PROVE v[n + 1] \in Nat
      OBVIOUS
    <2>1. v[n] \in Nat /\ digits[n + 1] \in Nat /\ v[n + 1] = v[n] * base + digits[n + 1]
      BY <1>1, <1>3 DEF PrefixValues
    <2>2. v[n] * base \in Nat
      BY <2>1, ProductType
    <2> QED  BY <2>1, <2>2
  <1> HIDE DEF S
  <1>4. Len(digits) \in S
    BY <1>2, <1>3, SetInduction
  <1> QED  BY <1>1, <1>4 DEF S

LEMMA NumeralOfZeroes ==
    ASSUME NEW digits \in Seq(Nat), NEW base \in Nat, \A i \in DOMAIN digits : digits[i] = 0
    PROVE  Numeral(digits, base) = 0
  <1>1. PICK v : PrefixValues(v, digits, base) /\ Numeral(digits, base) = v[Len(digits)]
    BY NumeralIsPrefixValue
  <1> DEFINE S == {n \in Nat : n <= Len(digits) => v[n] = 0}
  <1>2. 0 \in S
    BY <1>1 DEF PrefixValues
  <1>3. ASSUME NEW n \in Nat, n \in S PROVE n + 1 \in S
    BY <1>1, <1>3 DEF PrefixValues
  <1> HIDE DEF S
  <1>4. Len(digits) \in S
    BY <1>2, <1>3, SetInduction
  <1> QED  BY <1>1, <1>4 DEF S

(* A number that does not begin with a zero is not zero.                   *)
LEMMA NumeralPositive ==
    ASSUME NEW digits \in Seq(Nat), NEW base \in Nat \ {0}, digits # <<>>, digits[1] # 0
    PROVE  Numeral(digits, base) > 0
  <1>1. PICK v : PrefixValues(v, digits, base) /\ Numeral(digits, base) = v[Len(digits)]
    BY NumeralIsPrefixValue
  <1> DEFINE S == {n \in Nat : n + 1 <= Len(digits) => v[n + 1] \in Nat /\ v[n + 1] > 0}
  <1>2. 0 \in S
    BY <1>1 DEF PrefixValues
  <1>3. ASSUME NEW n \in Nat, n \in S PROVE n + 1 \in S
    <2> SUFFICES ASSUME n + 2 \in 1 .. Len(digits) PROVE v[n + 2] \in Nat /\ v[n + 2] > 0
      OBVIOUS
    <2>1. v[n + 1] \in Nat /\ v[n + 1] > 0 /\ digits[n + 2] \in Nat
      BY <1>3
    <2>2. v[n + 2] = v[(n + 2) - 1] * base + digits[n + 2]
      BY <1>1 DEF PrefixValues
    <2>3. (n + 2) - 1 = n + 1
      OBVIOUS
    <2>4. v[n + 1] * base \in Nat /\ v[n + 1] * base > 0
      BY <2>1, ProductType
    <2> QED  BY <2>1, <2>2, <2>3, <2>4
  <1> HIDE DEF S
  <1>4. Len(digits) - 1 \in S
    <2>1. Len(digits) - 1 \in Nat
      OBVIOUS
    <2> QED  BY <2>1, <1>2, <1>3, SetInduction
  <1> QED  BY <1>1, <1>4 DEF S

-----------------------------------------------------------------------------
(* strtol *)

LEMMA BaseType == ASSUME NEW t \in AnyText PROVE BaseOf(t) \in {8, 10, 16}
  BY DEF BaseOf

(* What strtol uses is a beginning of the digits.                          *)
LEMMA UsableType ==
    ASSUME NEW t \in AnyText
    PROVE  /\ Usable(t) \in Seq(Nat)
           /\ \A i \in DOMAIN Usable(t) : i \in DOMAIN t.digits /\ Usable(t)[i] = t.digits[i]
           /\ (\A i \in DOMAIN t.digits : t.digits[i] < BaseOf(t)) => Usable(t) = t.digits
  <1> DEFINE stops == {i \in DOMAIN t.digits : t.digits[i] >= BaseOf(t)}
  <1>1. t.digits \in Seq(Nat) /\ \A i \in DOMAIN t.digits : t.digits[i] \in Nat
    BY DEF AnyText, Digit
  <1>2. CASE stops = {}
    <2>1. Usable(t) = t.digits
      BY <1>2 DEF Usable
    <2> QED  BY <1>1, <2>1
  <1>3. CASE stops # {}
    <2>1. Usable(t) = SubSeq(t.digits, 1, Min(stops) - 1)
      BY <1>3, Zenon DEF Usable
    <2>2. Min(stops) \in stops
      <3>1. stops \subseteq Nat
        BY <1>1
      <3> HIDE DEF stops
      <3> QED  BY <3>1, <1>3, MinProperties
    <2> DEFINE m == Min(stops) - 1
    <2>3. m \in Nat /\ m < Len(t.digits)
      BY <1>1, <2>2
    <2> HIDE DEF m
    <2>4. \A i \in 1 .. m : t.digits[i] \in Nat
      BY <1>1, <2>3
    <2>5. /\ SubSeq(t.digits, 1, m) \in Seq(Nat)
          /\ Len(SubSeq(t.digits, 1, m)) = m
          /\ \A i \in 1 .. m : SubSeq(t.digits, 1, m)[i] = t.digits[i]
      BY <1>1, <2>3, <2>4, SubSeqProperties
    <2>6. \E i \in DOMAIN t.digits : ~(t.digits[i] < BaseOf(t))
      BY <1>1, <1>3, BaseType
    <2>7. Usable(t) = SubSeq(t.digits, 1, m)
      BY <2>1 DEF m
    <2>8. ASSUME NEW i \in DOMAIN Usable(t)
          PROVE  i \in DOMAIN t.digits /\ Usable(t)[i] = t.digits[i]
      <3>1. i \in 1 .. m
        BY <2>5, <2>7
      <3> QED  BY <1>1, <2>3, <2>5, <2>7, <3>1
    <2> QED  BY <2>5, <2>6, <2>7, <2>8
  <1> QED  BY <1>2, <1>3

LEMMA LongMaxType == LongMax \in Nat /\ 2 * (LongMax + 1) = Word
  <1>1. \A w \in Nat : w > 1 /\ w % 2 = 0 => (w \div 2) - 1 \in Nat /\ 2 * (w \div 2) = w
    OBVIOUS
  <1> QED  BY <1>1, WordAssumption DEF LongMax

LEMMA StrtolType == ASSUME NEW t \in AnyText PROVE Strtol(t) \in Int
  <1>1. Numeral(Usable(t), BaseOf(t)) \in Nat
    BY UsableType, BaseType, NumeralType
  <1> QED  BY <1>1, LongMaxType DEF Strtol, Least

LEMMA MicrosecondsType == ASSUME NEW n \in Int PROVE Microseconds(n) \in 0 .. Word - 1
  <1>1. n * Factor \in Int
    BY FactorAssumption
  <1>2. \A a \in Int, w \in Nat : w > 1 => a % w \in 0 .. w - 1
    OBVIOUS
  <1> QED  BY <1>1, <1>2, WordAssumption DEF Microseconds

LEMMA MicrosecondsFit ==
    ASSUME NEW n \in Nat, n * Factor < Word
    PROVE  Microseconds(n) = n * Factor
  <1>1. n * Factor \in Nat
    BY FactorAssumption
  <1>2. \A a \in Nat, w \in Nat : w > 1 /\ a < w => a % w = a
    OBVIOUS
  <1> QED  BY <1>1, <1>2, WordAssumption DEF Microseconds

-----------------------------------------------------------------------------
(* The sleep *)

SleepInv ==
    /\ text \in Texts /\ pc \in {"awake", "asleep"}
    /\ sleep = IF pc = "asleep" THEN Microseconds(OrDefault(Strtol(text))) ELSE 0

LEMMA SleepAlways == Spec => []SleepInv
  <1>1. Init => SleepInv
    BY DEF Init, SleepInv
  <1>2. SleepInv /\ [Next]_vars => SleepInv'
    BY DEF SleepInv, Next, Sleep, Wake, vars
  <1> QED  BY <1>1, <1>2, PTL DEF Spec

LEMMA DefaultSleep == Default \in Nat /\ Microseconds(Default) = Default * Factor
  BY DefaultAssumption, MicrosecondsFit

(* Whatever the text, the sleep is a machine word.                         *)
THEOREM TypeCorrect == Spec => []TypeOK
  <1>1. SleepInv => TypeOK
    <2> SUFFICES ASSUME SleepInv PROVE sleep \in 0 .. Word - 1
      BY DEF SleepInv, TypeOK
    <2>1. OrDefault(Strtol(text)) \in Int
      BY StrtolType, DefaultAssumption, TextsAssumption DEF OrDefault, SleepInv
    <2> QED  BY <2>1, MicrosecondsType, WordAssumption DEF SleepInv
  <1> QED  BY <1>1, SleepAlways, PTL

(* A plain number whose product fits the word is not cut by strtol, is not  *)
(* replaced by the default, and is not reduced: it is slept as written,     *)
(* however many digits it has.                                             *)
THEOREM AlwaysSleepsAsWritten == Spec => []SleepsAsWritten
  <1>1. SleepInv => SleepsAsWritten
    <2> SUFFICES ASSUME SleepInv, pc = "asleep", Plain(text), AsWritten(text) * Factor < Word
                 PROVE  sleep = AsWritten(text) * Factor
      BY DEF SleepsAsWritten
    <2> DEFINE n == AsWritten(text)
    <2>1. text \in AnyText
      BY TextsAssumption DEF SleepInv
    <2>2. BaseOf(text) = 10 /\ Usable(text) = text.digits
      BY <2>1, UsableType DEF Plain, BaseOf
    <2>3. n \in Nat /\ n > 0 /\ n = Numeral(Usable(text), BaseOf(text))
      <3>1. text.digits \in Seq(Nat)
        BY <2>1 DEF AnyText, Digit
      <3>2. n = Numeral(text.digits, 10)
        BY DEF AsWritten
      <3>3. text.digits # <<>> /\ text.digits[1] # 0
        BY DEF Plain
      <3>4. n \in Nat
        BY <3>1, <3>2, NumeralType
      <3>5. Numeral(text.digits, 10) > 0
        BY <3>1, <3>3, NumeralPositive
      <3> QED  BY <3>2, <3>4, <3>5, <2>2
    <2> HIDE DEF n
    <2>4. n <= LongMax
      <3>1. \A a, b \in Nat : b > 1 => a * 2 <= a * b
        OBVIOUS
      <3>2. n * 2 <= n * Factor /\ n * Factor < Word
        BY <3>1, <2>3, FactorAssumption DEF n
      <3>3. n * Factor \in Nat
        BY <2>3, FactorAssumption
      <3> QED  BY <3>2, <3>3, <2>3, LongMaxType, WordAssumption
    <2>5. OrDefault(Strtol(text)) = n
      BY <2>3, <2>4, LongMaxType DEF OrDefault, Strtol, Least, Plain
    <2>6. Microseconds(n) = n * Factor
      BY <2>3, MicrosecondsFit DEF n
    <2> QED  BY <2>5, <2>6 DEF SleepInv, n
  <1> QED  BY <1>1, SleepAlways, PTL

(* A text without a number, or of zeroes only in whatever base and with     *)
(* whatever sign, gives the default, and never a sleep without an end.     *)
THEOREM NoNumberAlwaysSleepsDefault == Spec => []NoNumberSleepsDefault
  <1>1. SleepInv => NoNumberSleepsDefault
    <2> SUFFICES ASSUME SleepInv, pc = "asleep",
                        Usable(text) = <<>> \/ \A i \in DOMAIN text.digits : text.digits[i] = 0
                 PROVE  sleep = Default * Factor
      BY DEF NoNumberSleepsDefault
    <2>1. text \in AnyText
      BY TextsAssumption DEF SleepInv
    <2>2. Usable(text) \in Seq(Nat) /\ \A i \in DOMAIN Usable(text) : Usable(text)[i] = 0
      BY <2>1, UsableType
    <2>3. Numeral(Usable(text), BaseOf(text)) = 0
      BY <2>1, <2>2, BaseType, NumeralOfZeroes
    <2>4. Strtol(text) = 0
      <3>1. Least(0, LongMax) = 0 /\ Least(0, LongMax + 1) = 0
        BY LongMaxType DEF Least
      <3>2. -0 = 0
        <4>1. (\A x \in Int : -x = 0 - x) /\ 0 \in Int
          OBVIOUS
        <4>2. 0 - 0 = 0
          OBVIOUS
        <4> QED  BY <4>1, <4>2, Zenon
      <3> QED  BY <2>3, <3>1, <3>2 DEF Strtol
    <2>5. OrDefault(Strtol(text)) = Default
      BY <2>4 DEF OrDefault
    <2> QED  BY <2>5, DefaultSleep DEF SleepInv
  <1> QED  BY <1>1, SleepAlways, PTL
=============================================================================
