-------------------------- MODULE ClockUtilityProofs --------------------------
(***************************************************************************)
(* The conversion of ClockUtility is exact, for every length of a second,  *)
(* every width of a count and every deadline that does not overflow.       *)
(***************************************************************************)
EXTENDS ClockUtility, TLAPS

USE NsPerSecAssumption, RangeAssumption

(* Division of a natural number.                                           *)
LEMMA DivNat ==
  ASSUME NEW a \in Nat
  PROVE  /\ a \div NsPerSec \in Nat
         /\ (a \div NsPerSec) * NsPerSec <= a
         /\ a < (a \div NsPerSec) * NsPerSec + NsPerSec
OBVIOUS

(* duration_cast leaves less than a second, with the sign of its argument. *)
LEMMA CastRest ==
  ASSUME NEW ns \in Int
  PROVE  /\ DurationCast(ns) \in Int
         /\ ns - DurationCast(ns) * NsPerSec < NsPerSec
         /\ -NsPerSec < ns - DurationCast(ns) * NsPerSec
<1>1. CASE ns >= 0
  <2>1. ns \in Nat /\ DurationCast(ns) = ns \div NsPerSec
    BY <1>1 DEF DurationCast
  <2> DEFINE q == ns \div NsPerSec
  <2>2. q \in Nat /\ q * NsPerSec <= ns /\ ns < q * NsPerSec + NsPerSec
    BY <2>1, DivNat
  <2> HIDE DEF q
  <2>3. QED
    BY <2>1, <2>2 DEF q
<1>2. CASE ns < 0
  <2>1. -ns \in Nat /\ DurationCast(ns) = -((-ns) \div NsPerSec)
    BY <1>2 DEF DurationCast
  <2> DEFINE q == (-ns) \div NsPerSec
  <2>2. q \in Nat /\ q * NsPerSec <= -ns /\ -ns < q * NsPerSec + NsPerSec
    BY <2>1, DivNat
  <2>3. DurationCast(ns) = -q
    BY <2>1
  <2> HIDE DEF q
  <2>4. (-q) * NsPerSec = -(q * NsPerSec)
    BY <2>2
  <2>5. q * NsPerSec \in Int
    BY <2>2
  <2>6. QED
    BY <2>2, <2>3, <2>4, <2>5
<1>3. QED
  BY <1>1, <1>2

(* The timespec of a deadline denotes it, whatever its sign.               *)
THEOREM TimespecDenotes ==
  ASSUME NEW ns \in Int
  PROVE  /\ DurationToTimespec(ns).tv_sec \in Int
         /\ Denotes(DurationToTimespec(ns), ns)
<1> DEFINE q == DurationCast(ns)
           n == ns - q * NsPerSec
<1>1. q \in Int /\ n \in Int /\ n < NsPerSec /\ -NsPerSec < n
  BY CastRest
<1>2. DurationToTimespec(ns) =
        IF n < 0 THEN [tv_sec |-> q - 1, tv_nsec |-> n + NsPerSec]
                 ELSE [tv_sec |-> q, tv_nsec |-> n]
  BY DEF DurationToTimespec
<1>3. q * NsPerSec + n = ns /\ q * NsPerSec \in Int
  BY <1>1
<1> HIDE DEF q, n
<1>4. (q - 1) * NsPerSec = q * NsPerSec - NsPerSec
  BY <1>1
<1>5. CASE n < 0
  BY <1>1, <1>2, <1>3, <1>4, <1>5 DEF Denotes, Valid
<1>6. CASE ~(n < 0)
  BY <1>1, <1>2, <1>3, <1>6 DEF Denotes, Valid
<1>7. QED
  BY <1>5, <1>6

(* Of two timespecs the later seconds, then the later nanoseconds, win     *)
(* just when the deadlines they denote are in that order.                  *)
LEMMA TimespecOrder ==
  ASSUME NEW a \in Int, NEW b \in Int
  PROVE  NotBefore(DurationToTimespec(a), DurationToTimespec(b)) <=> a >= b
<1> DEFINE p == DurationToTimespec(a).tv_sec
           x == DurationToTimespec(a).tv_nsec
           q == DurationToTimespec(b).tv_sec
           y == DurationToTimespec(b).tv_nsec
<1>1. /\ p \in Int /\ x \in 0..(NsPerSec - 1) /\ p * NsPerSec + x = a
      /\ q \in Int /\ y \in 0..(NsPerSec - 1) /\ q * NsPerSec + y = b
  BY TimespecDenotes DEF Denotes, Valid
<1>2. NotBefore(DurationToTimespec(a), DurationToTimespec(b))
        <=> p > q \/ (p = q /\ x >= y)
  BY DEF NotBefore
<1> HIDE DEF p, q, x, y
<1>3. \A i, j \in Int : i > j => i * NsPerSec >= j * NsPerSec + NsPerSec
  <2> TAKE i, j \in Int
  <2> HAVE i > j
  <2>1. (i - j) * NsPerSec >= NsPerSec
    <3> DEFINE d == i - j - 1
    <3>1. d \in Nat
      OBVIOUS
    <3> HIDE DEF d
    <3>2. d * NsPerSec \in Nat
      BY <3>1
    <3>3. (d + 1) * NsPerSec = d * NsPerSec + NsPerSec
      BY <3>1
    <3>4. i - j = d + 1
      BY DEF d
    <3>5. QED
      BY <3>2, <3>3, <3>4
  <2>2. (i - j) * NsPerSec = i * NsPerSec - j * NsPerSec
    OBVIOUS
  <2>3. i * NsPerSec \in Int /\ j * NsPerSec \in Int
    OBVIOUS
  <2>4. QED
    BY <2>1, <2>2, <2>3
<1>4. p * NsPerSec \in Int /\ q * NsPerSec \in Int
  BY <1>1
<1>5. CASE p > q
  <2>1. p * NsPerSec >= q * NsPerSec + NsPerSec
    BY <1>1, <1>3, <1>5
  <2>2. QED
    BY <1>1, <1>2, <1>4, <1>5, <2>1
<1>6. CASE q > p
  <2>1. q * NsPerSec >= p * NsPerSec + NsPerSec
    BY <1>1, <1>3, <1>6
  <2>2. QED
    BY <1>1, <1>2, <1>4, <1>6, <2>1
<1>7. CASE p = q
  BY <1>1, <1>2, <1>4, <1>7
<1>8. QED
  BY <1>1, <1>5, <1>6, <1>7

-----------------------------------------------------------------------------
(* The timespec is that of a count, and of the deadline if it is in range. *)
Timed ==
  /\ now \in Int /\ asked \in Int /\ over \in BOOLEAN
  /\ \E ns \in Int : ts = DurationToTimespec(ns)
  /\ ~over => ts = DurationToTimespec(asked)

LEMMA CallTimed ==
  ASSUME Timed, NEW deadline \in Int, NEW fits \in BOOLEAN, Call(deadline, fits)
  PROVE  Timed'
<1>1. now' \in Int /\ asked' = deadline /\ over' = ~fits
  BY DEF Timed, Call
<1>2. PICK ns \in IF fits THEN {deadline} ELSE Counts : ts' = DurationToTimespec(ns)
  BY DEF Call
<1>3. ns \in Int /\ (fits => ns = deadline)
  BY <1>2 DEF Counts
<1>4. QED
  BY <1>1, <1>2, <1>3 DEF Timed

LEMMA AlwaysTimed == Spec => []Timed
<1>1. Start => Timed
  <2> SUFFICES ASSUME Start PROVE Timed
    OBVIOUS
  <2>1. now \in Int /\ asked = now /\ over = FALSE /\ ts = DurationToTimespec(asked)
    BY DEF Start
  <2>2. QED
    BY <2>1 DEF Timed
<1>2. Timed /\ [Next]_vars => Timed'
  <2> SUFFICES ASSUME Timed, [Next]_vars PROVE Timed'
    OBVIOUS
  <2>1. CASE Tick
    BY <2>1 DEF Timed, Tick
  <2>2. ASSUME NEW d \in Durations, CallFor(d) PROVE Timed'
    <3>1. now + d \in Int
      BY DEF Timed
    <3> DEFINE fits == {d, now + d} \subseteq Counts
    <3>2. fits \in BOOLEAN /\ Call(now + d, fits)
      BY <2>2 DEF CallFor
    <3> HIDE DEF fits
    <3>3. QED
      BY <3>1, <3>2, CallTimed
  <2>3. ASSUME NEW timeoutTp \in TimePoints, CallUntil(timeoutTp) PROVE Timed'
    <3> DEFINE fits == timeoutTp \in Counts
    <3>1. fits \in BOOLEAN /\ timeoutTp \in Int /\ Call(timeoutTp, fits)
      BY <2>3 DEF CallUntil
    <3> HIDE DEF fits
    <3>2. QED
      BY <3>1, CallTimed
  <2>4. CASE UNCHANGED vars
    BY <2>4 DEF Timed, vars
  <2>5. QED
    BY <2>1, <2>2, <2>3, <2>4 DEF Next
<1>3. QED
  BY <1>1, <1>2, PTL DEF Spec

(* The timespec a call hands to pthread is valid, and is its deadline to   *)
(* the nanosecond if that can be counted.                                  *)
THEOREM DeadlineAlwaysKept == Spec => []DeadlineKept
<1>1. Timed => DeadlineKept
  BY TimespecDenotes DEF Timed, DeadlineKept, Denotes
<1>2. QED
  BY <1>1, AlwaysTimed, PTL

(* pthread finds a deadline passed just when the clock has reached it.     *)
THEOREM AlwaysExpiresInTime == Spec => []ExpiresInTime
<1>1. Timed => ExpiresInTime
  BY TimespecOrder DEF Timed, ExpiresInTime
<1>2. QED
  BY <1>1, AlwaysTimed, PTL
=============================================================================
