--------------------------- MODULE MCSleepTimer ---------------------------
(* SleepTimer with a word of twelve bits: milliseconds become microseconds  *)
(* by forty, so that, as with 1000 and 2^32, the product wraps long before  *)
(* the long is full, and some number (512 for 2^29) wraps to zero.          *)
EXTENDS SleepTimer

CONSTANT MaxDigits

MCDigits == {0, 1, 2, 4, 8, 10}

MCTexts ==
    [neg : BOOLEAN, hex : BOOLEAN,
     digits : UNION {[1 .. n -> MCDigits] : n \in 0 .. MaxDigits}]
=============================================================================
