----------------------------- MODULE ClockUtility -----------------------------
(***************************************************************************)
(* ClockUtility.hpp: the deadline of a timed call, a C++ time point, as    *)
(* the timespec the pthread calls take.  The module follows one clock, in  *)
(* nanoseconds.  std::chrono counts them in MinCount..MaxCount; a coarser  *)
(* duration or time point may lie beyond, and making nanoseconds of it     *)
(* overflows, which is undefined: any count may come out.                  *)
(***************************************************************************)
EXTENDS Integers

CONSTANTS
  NsPerSec,   \* 10^9; small for TLC
  Earliest,   \* bound: the clock's readings run from Earliest ...
  Latest,     \* ... to Latest; both may be negative, before the epoch
  MinCount,   \* -2^63
  MaxCount,   \* 2^63 - 1
  Durations,  \* those given to TryLockFor() and WaitFor(), in any unit
  TimePoints  \* those given to TryLockUntil() and WaitUntil(), in any unit

ASSUME NsPerSecAssumption == NsPerSec \in Nat \ {0}
ASSUME RangeAssumption ==
  /\ Earliest \in Int /\ Latest \in Int /\ MinCount \in Int /\ MaxCount \in Int
  /\ MinCount <= Earliest /\ Earliest <= Latest /\ Latest <= MaxCount
  /\ Durations \subseteq Int /\ TimePoints \subseteq Int

Counts == MinCount..MaxCount

(* duration_cast rounds towards zero.                                      *)
DurationCast(ns) == IF ns >= 0 THEN ns \div NsPerSec ELSE -((-ns) \div NsPerSec)

(* Variants: no care for negative nanoseconds; half of it.                 *)
TimespecNoFixUp(ns) ==
  [tv_sec |-> DurationCast(ns), tv_nsec |-> ns - DurationCast(ns) * NsPerSec]

TimespecHalfFixUp(ns) ==
  LET nsecs == ns - DurationCast(ns) * NsPerSec
  IN  [tv_sec |-> DurationCast(ns),
       tv_nsec |-> IF nsecs < 0 THEN nsecs + NsPerSec ELSE nsecs]

DurationToTimespec(ns) ==
  LET secs  == DurationCast(ns)
      nsecs == ns - secs * NsPerSec
  IN  IF nsecs < 0
        THEN [tv_sec |-> secs - 1, tv_nsec |-> nsecs + NsPerSec]
        ELSE [tv_sec |-> secs, tv_nsec |-> nsecs]

-----------------------------------------------------------------------------
VARIABLES
  now,    \* the clock's reading
  asked,  \* the deadline the last call was asked to keep
  over,   \* whether it overflowed on the way
  ts      \* what the call handed to pthread

vars == <<now, asked, over, ts>>

Start ==
  /\ now \in Earliest..Latest
  /\ asked = now /\ over = FALSE
  /\ ts = DurationToTimespec(asked)

Tick == now < Latest /\ now' = now + 1 /\ UNCHANGED <<asked, over, ts>>

Call(deadline, fits) ==
  /\ asked' = deadline /\ over' = ~fits
  /\ \E ns \in IF fits THEN {deadline} ELSE Counts : ts' = DurationToTimespec(ns)
  /\ UNCHANGED now

(* TryLockFor(duration), WaitFor(lock, duration): both are made counts.    *)
CallFor(duration) ==
  Call(now + duration, {duration, now + duration} \subseteq Counts)

(* TryLockUntil(timeoutTp), WaitUntil(lock, timeoutTp).                    *)
CallUntil(timeoutTp) == Call(timeoutTp, timeoutTp \in Counts)

Next ==
  \/ Tick
  \/ \E d \in Durations : CallFor(d)
  \/ \E timeoutTp \in TimePoints : CallUntil(timeoutTp)

Spec == Start /\ [][Next]_vars

-----------------------------------------------------------------------------
(* pthread accepts every timespec, and it is the deadline asked for to the *)
(* nanosecond, before the epoch too, unless that is out of range.          *)
Valid(spec) == spec.tv_nsec \in 0..(NsPerSec - 1)

Denotes(spec, ns) == Valid(spec) /\ spec.tv_sec * NsPerSec + spec.tv_nsec = ns

DeadlineKept == Valid(ts) /\ (over \/ Denotes(ts, asked))

(* The calls of pthread compare timespecs by seconds first: a call expires *)
(* when the clock has reached its deadline and not before.                 *)
NotBefore(a, b) ==
  \/ a.tv_sec > b.tv_sec
  \/ a.tv_sec = b.tv_sec /\ a.tv_nsec >= b.tv_nsec

ExpiresInTime == ~over => (NotBefore(DurationToTimespec(now), ts) <=> now >= asked)

(* However long a call is told to wait, it does not expire at once.        *)
NeverEarly == NotBefore(DurationToTimespec(now), ts) => now >= asked
=============================================================================
