---------------------------- MODULE MCClockUtility ----------------------------
(***************************************************************************)
(* An instance of ClockUtility for TLC: seconds of four "nanoseconds",     *)
(* around the epoch, counted in five bits.                                 *)
(***************************************************************************)
EXTENDS ClockUtility

Before == -9
Least   == -16
Lengths == -20..20
=============================================================================
