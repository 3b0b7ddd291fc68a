------------------------------- MODULE MCError -------------------------------
(***************************************************************************)
(* Instances of Error, and of the Log below it, for TLC.                   *)
(***************************************************************************)
EXTENDS Error, TLC

CONSTANTS t1, t2,   \* threads
          std, no   \* a StdOutLog and a NoLog

SomeLevels   == {Trace, Off}
SomeMessages == {Trace}
=============================================================================
