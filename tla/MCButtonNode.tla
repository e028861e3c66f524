---------------------------- MODULE MCButtonNode ----------------------------
(***************************************************************************)
(* An instance of ButtonNode for TLC: seconds for milliseconds, and a      *)
(* counter of few bits.                                                    *)
(***************************************************************************)
EXTENDS ButtonNode

MCRequests == {[mode |-> "setup"], [mode |-> Absent]}
=============================================================================
