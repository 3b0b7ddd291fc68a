------------------------------- MODULE MCThread -------------------------------
(***************************************************************************)
(* Instances of Thread for TLC.                                            *)
(***************************************************************************)
EXTENDS Thread, TLC

CONSTANTS u1, u2,      \* threads besides Main
          o1, o2, o3   \* objects

ObjectSymmetry == Permutations({o1, o2, o3}) \cup Permutations({u1, u2})

Nice(n)     == [rt |-> FALSE, prio |-> n]
RealTime(n) == [rt |-> TRUE, prio |-> n]

(* Configurations that do not inherit the creator's attributes: plain,     *)
(* nicer and ruder, a nice value out of range, real time, detached.        *)
Plain    == DefaultConfig(FALSE)
Nicer    == SetScheduler(Plain, Nice(5))
Ruder    == SetScheduler(Plain, Nice(-5))
TooNice  == SetScheduler(Plain, Nice(20))
Urgent   == SetScheduler(Plain, RealTime(10))
Detached == SetDetached(Urgent, TRUE)

PlainConfigs == {Plain}
SchedConfigs == {Plain, Nicer, Ruder, TooNice, Urgent}
MoveConfigs  == {Urgent, Detached}

OneLevel == {7}
=============================================================================
