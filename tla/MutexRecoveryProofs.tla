------------------------- MODULE MutexRecoveryProofs -------------------------
(***************************************************************************)
(* The recovery of Axzl::Mutex from the death of an owner, for any number  *)
(* of threads, objects and configurations: LockFail() repairs the mutex    *)
(* before anybody can unlock it, and nobody owns the mutex without being   *)
(* told.                                                                   *)
(***************************************************************************)
EXTENDS MutexProofs

USE NoThreadAssumption, MaxCountAssumption, HandlesAssumption, ConfigsAssumption

-----------------------------------------------------------------------------
(* The programs the recovery works for: no configuration is robust, or a   *)
(* robust mutex is only ever locked with Lock(), through the object whose  *)
(* constructor made it.  TryLock() and TryLockUntil() walk away from a     *)
(* mutex they have acquired with EOWNERDEAD, and an object that OpenShm()  *)
(* made does not know that its mutex is robust.                            *)
NoOpeners == \A h \in Handles : Origin[h] # "open"

Recovers ==
  \/ \A c \in Configs : ~AttrsRobust(c)
  \/ Calls[TRUE] \subseteq {"Lock"} /\ NoOpeners

(* LockFail() of t holds a mutex it has to repair.                         *)
Pending(t) == pc[t] = "lockfail" /\ rc[t] = "EOWNERDEAD"

(* A running owner was told, once for each level, or is repairing.         *)
KnownOwner ==
  /\ \A t \in Threads :
       Running(t) /\ mtx.owner = t => held[t] = mtx.count \/ Pending(t)
  /\ mtx.owner # NoThread => mtx.count >= 1

(* Only a robust mutex notices a death, and while its owner has been told  *)
(* of one and has not repaired it the owner is in LockFail().              *)
DeathNoticed ==
  /\ mtx.health # "consistent" => mtx.robust
  /\ mtx.health # "notrecoverable"
  /\ mtx.health = "inconsistent" => \E t \in Threads : mtx.owner = t /\ Pending(t)
  /\ \A t \in Threads : Pending(t) => mtx.health = "inconsistent"

(* A call is a call of a living object, and a robust mutex has only calls  *)
(* of Lock(), of objects that know it is robust.                           *)
CallsFit ==
  /\ \A t \in Threads : pc[t] \notin {"idle", "dead"} => Live(HandleOf[t])
  /\ \A t \in Threads : pc[t] \in {"clocklock", "clocklockfail"} => ~mtx.robust
  /\ mtx.robust => \A h \in Handles : Live(h) => handle[h].mRobust

(* Without openers one object at most is alive, and it is the one of every *)
(* running owner; a destroyed mutex that somebody still owns is out of     *)
(* everybody's reach.                                                      *)
OneObject ==
  /\ NoOpeners => /\ \A g, h \in Handles : Live(g) /\ Live(h) => g = h
                  /\ \A t \in Threads : Running(t) /\ mtx.owner = t => Live(HandleOf[t])
  /\ mtx.life = "destroyed" /\ mtx.owner # NoThread => NoOpeners /\ \A h \in Handles : ~Live(h)

(* A disciplined caller relocks a recursive mutex only.                    *)
RelocksRecursive ==
  ~Misuse => \A t \in Threads :
               pc[t] \in {"lock", "clocklock"} => held[t] = 0 \/ mtx.type = "RECURSIVE"

RecoveryParts == KnownOwner /\ DeathNoticed /\ CallsFit /\ OneObject /\ RelocksRecursive
Recovery == Ownership /\ RecoveryParts

-----------------------------------------------------------------------------
(* A robust mutex belongs to a program of the second kind.                 *)
LEMMA RobustFits ==
  ASSUME Recovers, FromConfig, TypeOK, mtx.life # "raw", mtx.robust
  PROVE  Calls[mtx.robust] \subseteq {"Lock"} /\ NoOpeners
<1>1. mtx.robust = TRUE
  BY DEF TypeOK, PMutex
<1>2. ~\A c \in Configs : ~AttrsRobust(c)
  BY DEF FromConfig
<1>3. QED
  BY <1>1, <1>2 DEF Recovers

(* A step of a call of t that leaves the mutex and the objects alone.      *)
LEMMA StillStep ==
  ASSUME Recovery, NEW t \in Threads, UNCHANGED <<handle, mtx, held>>,
         \A u \in Threads \ {t} : pc'[u] = pc[u] /\ rc'[u] = rc[u],
         Running(t), ~Pending(t), pc'[t] # "dead",
         ~(pc'[t] = "lockfail" /\ rc'[t] = "EOWNERDEAD"),
         pc'[t] # "idle" => Live(HandleOf[t]),
         pc'[t] \in {"clocklock", "clocklockfail"} => ~mtx.robust,
         pc'[t] \in {"lock", "clocklock"} => MayWait(t)
  PROVE  RecoveryParts'
<1>1. /\ KnownOwner /\ DeathNoticed /\ CallsFit /\ OneObject /\ RelocksRecursive
  BY DEF Recovery, RecoveryParts
<1>2. \A u \in Threads : Running(u)' = Running(u) /\ Pending(u)' = Pending(u)
  BY DEF Running, Pending
<1>3. KnownOwner'
  BY <1>1, <1>2 DEF KnownOwner
<1>4. DeathNoticed'
  BY <1>1, <1>2 DEF DeathNoticed
<1>5. CallsFit'
  BY <1>1 DEF CallsFit, Live
<1>6. OneObject'
  BY <1>1, <1>2 DEF OneObject, Live
<1>7. RelocksRecursive'
  BY <1>1 DEF RelocksRecursive, MayWait
<1>8. QED
  BY <1>3, <1>4, <1>5, <1>6, <1>7 DEF RecoveryParts

(* A call that acquires the mutex tells its caller.                        *)
LEMMA TakeStep ==
  ASSUME Recovery, NEW t \in Threads, LockRet(mtx, t, "OK", mtx'), UNCHANGED handle,
         held' = [held EXCEPT ![t] = @ + 1],
         \A u \in Threads \ {t} : pc'[u] = pc[u] /\ rc'[u] = rc[u],
         Running(t), ~Pending(t), pc'[t] = "idle", Live(HandleOf[t])
  PROVE  RecoveryParts'
<1>1. /\ KnownOwner /\ DeathNoticed /\ CallsFit /\ OneObject /\ RelocksRecursive
      /\ HeldIsOwned /\ TypeOK /\ mtx \in PMutex /\ held \in [Threads -> Nat]
  BY DEF Recovery, RecoveryParts, Ownership, TypeOK
<1>2. /\ mtx'.life = "init" /\ SameAttrs(mtx, mtx')
      /\ mtx'.owner = t /\ mtx'.health = mtx.health
      /\ \/ mtx.owner = NoThread /\ mtx'.count = 1
         \/ mtx.owner = t /\ mtx'.count = mtx.count + 1
  BY <1>1, LockRetEffect, LockRetHealth
<1>3. mtx.count \in Nat /\ NoThread \notin Threads
  BY <1>1 DEF PMutex
<1>4. held'[t] = mtx'.count
  <2>1. mtx.owner = NoThread => held[t] = 0
    BY <1>1, <1>3 DEF HeldIsOwned
  <2>2. mtx.owner = t => held[t] = mtx.count
    BY <1>1 DEF KnownOwner
  <2>3. QED
    BY <1>1, <1>2, <2>1, <2>2
<1>5. KnownOwner'
  BY <1>2, <1>3, <1>4 DEF KnownOwner
<1>6. mtx.health # "inconsistent"
  BY <1>1, <1>2, <1>3 DEF DeathNoticed
<1>7. \A u \in Threads : ~Pending(u)'
  BY <1>1, <1>6 DEF Pending, DeathNoticed
<1>8. DeathNoticed'
  BY <1>1, <1>2, <1>6, <1>7 DEF DeathNoticed, SameAttrs
<1>9. CallsFit'
  BY <1>1, <1>2 DEF CallsFit, Live, SameAttrs
<1>10. OneObject'
  BY <1>1, <1>2 DEF OneObject, Live, Running
<1>11. RelocksRecursive'
  BY <1>1, <1>2 DEF RelocksRecursive, SameAttrs
<1>12. QED
  BY <1>5, <1>8, <1>9, <1>10, <1>11 DEF RecoveryParts

(* Lock() acquires a mutex whose owner died: LockFail() is called.         *)
LEMMA OwnerDeadStep ==
  ASSUME Recovery, NEW t \in Threads, LockRet(mtx, t, "EOWNERDEAD", mtx'),
         UNCHANGED <<handle, held>>,
         \A u \in Threads \ {t} : pc'[u] = pc[u] /\ rc'[u] = rc[u],
         pc[t] = "lock", pc'[t] = "lockfail", rc'[t] = "EOWNERDEAD"
  PROVE  RecoveryParts'
<1>1. /\ KnownOwner /\ DeathNoticed /\ CallsFit /\ OneObject /\ RelocksRecursive
      /\ TypeOK /\ mtx \in PMutex
  BY DEF Recovery, RecoveryParts, Ownership, TypeOK
<1>2. /\ mtx'.life = "init" /\ SameAttrs(mtx, mtx')
      /\ mtx'.owner = t /\ mtx'.count = 1
      /\ mtx.health = "ownerdead" /\ mtx'.health = "inconsistent"
  BY <1>1, LockRetEffect, LockRetHealth
<1>3. Pending(t)'
  BY DEF Pending
<1>4. KnownOwner'
  BY <1>2, <1>3 DEF KnownOwner
<1>5. mtx'.robust
  BY <1>1, <1>2 DEF DeathNoticed, SameAttrs
<1>6. DeathNoticed'
  BY <1>2, <1>3, <1>5 DEF DeathNoticed
<1>7. CallsFit'
  BY <1>1, <1>2 DEF CallsFit, Live, SameAttrs
<1>8. Live(HandleOf[t])
  BY <1>1 DEF CallsFit
<1>9. OneObject'
  BY <1>1, <1>2, <1>8 DEF OneObject, Live, Running
<1>10. RelocksRecursive'
  BY <1>1, <1>2 DEF RelocksRecursive, SameAttrs
<1>11. QED
  BY <1>4, <1>6, <1>7, <1>9, <1>10 DEF RecoveryParts

(* LockFail() repairs the mutex, and Lock() returns.                       *)
LEMMA RepairStep ==
  ASSUME Recovery, NEW t \in Threads, LockFailRepair(t)
  PROVE  RecoveryParts'
<1>1. /\ KnownOwner /\ DeathNoticed /\ CallsFit /\ OneObject /\ RelocksRecursive
      /\ Repairing /\ TypeOK /\ mtx \in PMutex /\ held \in [Threads -> Nat]
      /\ rc \in [Threads -> ReturnCodes]
      /\ pc \in [Threads -> {"idle", "lock", "clocklock", "lockfail", "clocklockfail", "dead"}]
  BY DEF Recovery, RecoveryParts, Ownership, TypeOK
<1>2. /\ ConsistentRet(mtx, "OK", mtx') /\ Repairs(t) /\ UNCHANGED handle
      /\ pc[t] \in {"lockfail", "clocklockfail"}
      /\ pc' = [pc EXCEPT ![t] = "idle"] /\ rc' = [rc EXCEPT ![t] = "OK"]
  BY DEF LockFailRepair, Goto
<1>3. /\ mtx.robust /\ mtx'.health = "consistent"
      /\ mtx'.life = mtx.life /\ SameAttrs(mtx, mtx')
      /\ mtx'.owner = mtx.owner /\ mtx'.count = mtx.count
  BY <1>1, <1>2, ConsistentRetEffect, ConsistentRetHealth
<1>4. pc[t] = "lockfail" /\ Pending(t)
  BY <1>1, <1>2, <1>3 DEF CallsFit, Repairs, Pending
<1>5. mtx.owner = t /\ mtx.count = 1 /\ held[t] = 0
  BY <1>1, <1>4 DEF Repairing, Pending
<1>6. held' = [held EXCEPT ![t] = @ + 1]
  BY <1>4 DEF LockFailRepair, Told
<1>7. KnownOwner'
  BY <1>1, <1>3, <1>5, <1>6 DEF KnownOwner
<1>8. \A u \in Threads : ~Pending(u)'
  BY <1>1, <1>2, <1>5 DEF Pending, Repairing
<1>9. DeathNoticed'
  BY <1>3, <1>8 DEF DeathNoticed
<1>10. CallsFit'
  BY <1>1, <1>2, <1>3 DEF CallsFit, Live, SameAttrs
<1>11. OneObject'
  BY <1>1, <1>2, <1>3 DEF OneObject, Live, Running
<1>12. RelocksRecursive'
  BY <1>1, <1>2, <1>3, <1>6 DEF RelocksRecursive, SameAttrs
<1>13. QED
  BY <1>7, <1>9, <1>10, <1>11, <1>12 DEF RecoveryParts

(* Unlock() of the owner gives up one of the levels it was told of.        *)
LEMMA OwnerUnlockStep ==
  ASSUME Recovery, NEW t \in Threads, Idle(t), mtx.owner = t,
         NEW r, UnlockRet(mtx, t, r, mtx'),
         held' = [held EXCEPT ![t] = IF @ > 0 THEN @ - 1 ELSE 0],
         UNCHANGED <<handle, pc, rc>>
  PROVE  RecoveryParts'
<1>1. /\ KnownOwner /\ DeathNoticed /\ CallsFit /\ OneObject /\ RelocksRecursive
      /\ RawUntouched /\ TypeOK /\ mtx \in PMutex /\ held \in [Threads -> Nat]
  BY DEF Recovery, RecoveryParts, Ownership, TypeOK
<1>2. mtx.life = "init"
  <2>1. Live(HandleOf[t]) /\ NoThread \notin Threads /\ HandleOf[t] \in Handles
    BY DEF Idle
  <2>2. mtx.life \notin {"raw", "destroyed", "freed"}
    BY <1>1, <2>1, UnlockRetEffect DEF RawUntouched, OneObject
  <2>3. QED
    BY <1>1, <2>2 DEF PMutex
<1>3. Running(t) /\ ~Pending(t)
  BY DEF Idle, Running, Pending
<1>4. held[t] = mtx.count /\ mtx.count >= 1 /\ mtx.count \in Nat
  BY <1>1, <1>3 DEF KnownOwner, PMutex
<1>5. mtx.health # "inconsistent"
  BY <1>1, <1>3 DEF DeathNoticed
<1>6. /\ mtx'.life = mtx.life /\ SameAttrs(mtx, mtx') /\ mtx'.health = mtx.health
      /\ \/ mtx.count > 1 /\ mtx'.owner = t /\ mtx'.count = mtx.count - 1
         \/ mtx'.owner = NoThread
  BY <1>1, <1>2, <1>5, UnlockRetEffect, UnlockRetHealth
<1>7. held'[t] = mtx.count - 1
  BY <1>1, <1>4
<1>8. KnownOwner'
  BY <1>4, <1>6, <1>7 DEF KnownOwner
<1>9. \A u \in Threads : ~Pending(u) /\ ~Pending(u)'
  BY <1>1, <1>5 DEF Pending, DeathNoticed
<1>10. DeathNoticed'
  BY <1>1, <1>5, <1>6, <1>9 DEF DeathNoticed, SameAttrs
<1>11. CallsFit'
  BY <1>1, <1>6 DEF CallsFit, Live, SameAttrs
<1>12. OneObject'
  BY <1>1, <1>2, <1>6 DEF OneObject, Live, Running
<1>13. RelocksRecursive'
  BY <1>1, <1>6 DEF RelocksRecursive, SameAttrs, Idle
<1>14. QED
  BY <1>8, <1>10, <1>11, <1>12, <1>13 DEF RecoveryParts

(* Threads that end leave the mutex to the next locker, or locked for      *)
(* ever; the others keep what they know and their objects.                 *)
LEMMA EndRecovery ==
  ASSUME Recovery, NEW dead, End(dead),
         \A h \in Handles : Live(h)' => /\ Live(h)
                                        /\ handle'[h].mRobust = handle[h].mRobust,
         \A u \in Threads \ dead : Live(HandleOf[u]) => Live(HandleOf[u])',
         \A h \in Handles : handle'[h].life = "unborn" => handle'[h] = handle[h]
  PROVE  RecoveryParts'
<1>1. /\ KnownOwner /\ DeathNoticed /\ CallsFit /\ OneObject /\ RelocksRecursive
      /\ Repairing /\ TypeOK /\ mtx \in PMutex /\ held \in [Threads -> Nat]
      /\ NoThread \notin Threads
  BY DEF Recovery, RecoveryParts, Ownership, TypeOK
<1>2. /\ mtx'.life = mtx.life /\ SameAttrs(mtx, mtx')
      /\ \/ mtx.robust /\ mtx.owner \in dead /\ mtx'.owner = NoThread
            /\ mtx'.health = "ownerdead"
         \/ ~(mtx.robust /\ mtx.owner \in dead) /\ mtx' = mtx
  BY <1>1, OwnersGoneEffect, OwnersGoneHealth DEF End
<1>3. \A u \in Threads : u \notin dead => pc'[u] = pc[u] /\ rc'[u] = rc[u] /\ held'[u] = held[u]
  BY DEF End
<1>4. \A u \in Threads : u \in dead => pc'[u] = "dead"
  BY DEF End
<1>5. \A u \in Threads : Pending(u)' => u \notin dead /\ Pending(u)
  BY <1>3, <1>4 DEF Pending
<1>6. KnownOwner'
  BY <1>1, <1>2, <1>3, <1>4 DEF KnownOwner, Running, Pending
<1>7. DeathNoticed'
  <2>1. CASE mtx.robust /\ mtx.owner \in dead /\ mtx'.health = "ownerdead"
    <3>1. \A u \in Threads : ~Pending(u)'
      BY <1>1, <1>5, <2>1 DEF Pending, Repairing
    <3>2. QED
      BY <1>2, <2>1, <3>1 DEF DeathNoticed, SameAttrs
  <2>2. CASE ~(mtx.robust /\ mtx.owner \in dead) /\ mtx' = mtx
    <3>1. mtx.health = "inconsistent" => \E u \in Threads : mtx.owner = u /\ Pending(u)'
      BY <1>1, <1>3, <2>2 DEF DeathNoticed, Pending
    <3>2. QED
      BY <1>1, <1>5, <2>2, <3>1 DEF DeathNoticed
  <2>3. QED
    BY <1>2, <2>1, <2>2
<1>8. CallsFit'
  BY <1>1, <1>2, <1>3, <1>4 DEF CallsFit, SameAttrs
<1>9. OneObject'
  BY <1>1, <1>2, <1>3, <1>4 DEF OneObject, Running
<1>10. RelocksRecursive'
  BY <1>1, <1>2, <1>3, <1>4 DEF RelocksRecursive, SameAttrs
<1>11. QED
  BY <1>6, <1>7, <1>8, <1>9, <1>10 DEF RecoveryParts

LEMMA ThreadStepRecovery ==
  ASSUME Recovers, CheckedOrDisciplined, Recovery, NEW t \in Threads, ThreadStep(t)
  PROVE  RecoveryParts'
<1> USE DEF Goto, Told
<1>1. /\ TypeOK /\ HeldIsOwned /\ RawUntouched /\ FromConfig /\ Repairing
      /\ KnownOwner /\ DeathNoticed /\ CallsFit /\ OneObject
  BY DEF Recovery, RecoveryParts, Ownership
<1>2. mtx \in PMutex /\ pc \in [Threads -> {"idle", "lock", "clocklock", "lockfail", "clocklockfail", "dead"}]
      /\ rc \in [Threads -> ReturnCodes] /\ held \in [Threads -> Nat]
  BY <1>1 DEF TypeOK
<1>3. mtx.life # "raw"
  <2>1. Idle(t) \/ pc[t] \notin {"idle", "dead"}
    BY DEF ThreadStep, CallStep, Lock, TryLockUntil, TryLock, Unlock, ThreadExit, LockSuccess,
           LockError, TryLockUntilReturn, TryLockUntilError, LockFailRepair, LockFailThrow
  <2>2. QED
    BY <1>1, <2>1, IdleNotRaw
<1>4. mtx.robust => Calls[mtx.robust] \subseteq {"Lock"}
  BY <1>1, <1>3, RobustFits
<1>5. pc[t] = "idle" => Running(t) /\ ~Pending(t)
  BY DEF Running, Pending
<1>6. CASE Lock(t) \/ TryLockUntil(t)
  BY <1>2, <1>4, <1>5, <1>6, StillStep DEF Lock, TryLockUntil, Idle
<1>7. CASE LockSuccess(t)
  BY <1>1, <1>2, <1>7, TakeStep DEF LockSuccess, CallsFit, Running, Pending
<1>8. CASE LockError(t)
  <2>1. PICK r \in ReturnCodes \ {"OK"} : LockRet(mtx, t, r, mtx') /\ rc' = [rc EXCEPT ![t] = r]
    BY <1>8 DEF LockError
  <2>2. pc[t] = "lock" /\ pc' = [pc EXCEPT ![t] = "lockfail"] /\ UNCHANGED <<handle, held>>
    BY <1>8 DEF LockError
  <2>3. rc'[t] = r /\ pc'[t] = "lockfail" /\ Live(HandleOf[t])
        /\ \A u \in Threads \ {t} : pc'[u] = pc[u] /\ rc'[u] = rc[u]
    BY <1>1, <1>2, <2>1, <2>2 DEF CallsFit
  <2>4. CASE r = "EOWNERDEAD"
    BY <2>1, <2>2, <2>3, <2>4, OwnerDeadStep
  <2>5. CASE r # "EOWNERDEAD"
    <3>1. mtx' = mtx
      BY <1>2, <2>1, <2>5, LockRetEffect
    <3>2. Running(t) /\ ~Pending(t)
      BY <2>2 DEF Running, Pending
    <3>3. QED
      BY <2>2, <2>3, <2>5, <3>1, <3>2, StillStep
  <2>6. QED
    BY <2>4, <2>5
<1>9. ASSUME pc[t] = "clocklock" \/ ~mtx.robust
      PROVE  ~mtx.robust /\ mtx.health = "consistent"
  BY <1>1, <1>9 DEF CallsFit, DeathNoticed
<1>10. CASE TryLockUntilReturn(t)
  <2>1. PICK r \in TimedAnswers :
          ClockLockRet(mtx, t, r, mtx') /\ IF TimedLocked(r) THEN Told(t) ELSE UNCHANGED held
    BY <1>10 DEF TryLockUntilReturn
  <2>2. /\ pc[t] = "clocklock" /\ pc' = [pc EXCEPT ![t] = "idle"] /\ UNCHANGED <<handle, rc>>
        /\ Running(t) /\ ~Pending(t) /\ Live(HandleOf[t])
    BY <1>1, <1>10 DEF TryLockUntilReturn, Running, Pending, CallsFit
  <2>3. CASE r = "OK"
    BY <1>2, <2>1, <2>2, <2>3, TakeStep DEF ClockLockRet, TimedLocked
  <2>4. CASE r = "ETIMEDOUT"
    <3>1. mtx' = mtx
      BY <1>2, <2>1, <2>4, LockRetEffect DEF ClockLockRet
    <3>2. QED
      BY <1>2, <2>1, <2>2, <2>4, <3>1, StillStep DEF TimedLocked
  <2>5. QED
    BY <2>1, <2>3, <2>4 DEF TimedAnswers
<1>11. CASE TryLockUntilError(t)
  <2>1. PICK r \in ReturnCodes \ TimedAnswers :
          ClockLockRet(mtx, t, r, mtx') /\ rc' = [rc EXCEPT ![t] = r]
    BY <1>11 DEF TryLockUntilError
  <2>2. /\ pc[t] = "clocklock" /\ pc' = [pc EXCEPT ![t] = "clocklockfail"]
        /\ UNCHANGED <<handle, held>>
        /\ Running(t) /\ ~Pending(t) /\ Live(HandleOf[t])
    BY <1>1, <1>11 DEF TryLockUntilError, Running, Pending, CallsFit
  <2>3. ~mtx.robust /\ mtx.health = "consistent"
    BY <1>9, <2>2
  <2>4. LockRet(mtx, t, r, mtx') /\ r \notin {"OK", "EOWNERDEAD"}
    BY <1>2, <2>1, <2>3, LockRetHealth DEF ClockLockRet, TimedAnswers
  <2>5. mtx' = mtx
    BY <1>2, <2>4, LockRetEffect
  <2>6. QED
    BY <1>2, <2>1, <2>2, <2>3, <2>5, StillStep
<1>12. CASE LockFailRepair(t)
  BY <1>12, RepairStep
<1>13. CASE LockFailThrow(t)
  <2>1. /\ pc[t] \in {"lockfail", "clocklockfail"} /\ pc' = [pc EXCEPT ![t] = "idle"]
        /\ rc' = [rc EXCEPT ![t] = "OK"] /\ UNCHANGED <<handle, mtx, held>>
        /\ Repairs(t) => ConsistentRet(mtx, "EINVAL", mtx)
    BY <1>13 DEF LockFailThrow
  <2>2. ~Pending(t)
    <3> SUFFICES ASSUME Pending(t) PROVE FALSE
      OBVIOUS
    <3>1. mtx.health = "inconsistent" /\ mtx.robust
      BY <1>1 DEF DeathNoticed
    <3>2. Repairs(t)
      BY <1>1, <3>1, HandlesAssumption DEF CallsFit, Repairs, Pending
    <3>3. QED
      BY <2>1, <3>1, <3>2 DEF ConsistentRet
  <2>3. QED
    BY <1>2, <2>1, <2>2, StillStep DEF Running
<1>14. CASE TryLock(t)
  <2>1. PICK r \in ReturnCodes :
          TryLockRet(mtx, t, r, mtx') /\ IF TryLocked(r) THEN Told(t) ELSE UNCHANGED held
    BY <1>14 DEF TryLock
  <2>2. /\ UNCHANGED <<handle, pc, rc>> /\ pc[t] = "idle" /\ Live(HandleOf[t])
        /\ "TryLock" \in Calls[mtx.robust]
    BY <1>14 DEF TryLock, Idle
  <2>3. ~mtx.robust /\ mtx.health = "consistent"
    BY <1>4, <1>9, <2>2
  <2>4. CASE r = "OK"
    BY <1>5, <2>1, <2>2, <2>4, TakeStep DEF TryLockRet, TryLocked
  <2>5. CASE r # "OK"
    <3>1. mtx' = mtx
      BY <1>2, <2>1, <2>3, <2>5, LockRetEffect, LockRetHealth DEF TryLockRet
    <3>2. QED
      BY <1>5, <2>1, <2>2, <2>5, <3>1, StillStep DEF TryLocked
  <2>6. QED
    BY <2>4, <2>5
<1>15. CASE Unlock(t)
  <2>1. PICK r \in ReturnCodes : UnlockRet(mtx, t, r, mtx')
    BY <1>15 DEF Unlock
  <2>2. /\ UNCHANGED <<handle, pc, rc>> /\ Idle(t) /\ (held[t] > 0 \/ Misuse)
        /\ held' = [held EXCEPT ![t] = IF @ > 0 THEN @ - 1 ELSE 0]
    BY <1>15 DEF Unlock
  <2>3. CASE mtx.owner = t
    BY <2>1, <2>2, <2>3, OwnerUnlockStep
  <2>4. CASE mtx.owner # t
    <3>1. held[t] = 0 /\ held' = held
      BY <1>1, <1>2, <2>2, <2>4 DEF HeldIsOwned
    <3>2. Checked(mtx)
      BY <1>1, <1>2, <1>3, <2>2, <3>1, MisuseIsChecked
    <3>3. mtx' = mtx
      BY <1>2, <2>1, <2>4, <3>2, UnlockRetEffect
    <3>4. pc[t] = "idle"
      BY <2>2 DEF Idle
    <3>5. QED
      BY <1>5, <2>2, <3>1, <3>3, <3>4, StillStep
  <2>5. QED
    BY <2>3, <2>4
<1>16. CASE ThreadExit(t)
  BY <1>16, EndRecovery DEF ThreadExit, Live
<1>17. QED
  BY <1>6, <1>7, <1>8, <1>10, <1>11, <1>12, <1>13, <1>14, <1>15, <1>16
  DEF ThreadStep, CallStep

LEMMA ConstructRecovery ==
  ASSUME Recovery, NEW h \in Handles, NEW c \in Configs, Construct(h, c)
  PROVE  RecoveryParts'
<1>1. /\ TypeOK /\ RawUntouched /\ OneObject
  BY DEF Recovery, RecoveryParts, Ownership
<1>2. /\ mtx.life = "raw" /\ handle' = [handle EXCEPT ![h] = Constructed(c)]
      /\ mtx' = InitMutex(c.mType, AttrsRobust(c), c.mProto)
      /\ UNCHANGED <<pc, rc, held>>
  BY DEF Construct
<1>3. /\ \A g \in Handles : ~Live(g)
      /\ \A t \in Threads : pc[t] = "idle" /\ held[t] = 0
  BY <1>1, <1>2 DEF RawUntouched
<1>4. /\ mtx'.life = "init" /\ mtx'.robust = AttrsRobust(c) /\ mtx'.owner = NoThread
      /\ mtx'.health = "consistent"
  BY <1>2 DEF InitMutex
<1>5. /\ handle'[h].life = "live" /\ handle'[h].mRobust = AttrsRobust(c)
      /\ \A g \in Handles \ {h} : handle'[g] = handle[g]
  BY <1>1, <1>2 DEF Constructed, TypeOK
<1>6. KnownOwner' /\ DeathNoticed'
  BY <1>2, <1>3, <1>4 DEF KnownOwner, DeathNoticed, Pending
<1>7. CallsFit'
  BY <1>2, <1>3, <1>4, <1>5 DEF CallsFit, Live
<1>8. OneObject'
  BY <1>1, <1>3, <1>4, <1>5 DEF OneObject, Live
<1>9. RelocksRecursive'
  BY <1>2, <1>3 DEF RelocksRecursive
<1>10. QED
  BY <1>6, <1>7, <1>8, <1>9 DEF RecoveryParts

(* The destructor leaves nobody behind who owns the mutex.                 *)
LEMMA DestructUnowned ==
  ASSUME Recovery, NoOpeners, NEW h \in Handles, Destruct(h), NEW t \in Threads, Running(t)
  PROVE  mtx.owner # t
<1> SUFFICES ASSUME mtx.owner = t PROVE FALSE
  OBVIOUS
<1>1. KnownOwner /\ OneObject /\ TypeOK /\ mtx.count \in Nat
  BY DEF Recovery, RecoveryParts, Ownership, TypeOK, PMutex
<1>2. Live(HandleOf[t]) /\ Live(h)
  BY <1>1 DEF OneObject, Destruct
<1>3. HandleOf[t] = h
  BY <1>1, <1>2 DEF OneObject
<1>4. pc[t] = "idle" /\ held[t] = 0
  BY <1>3 DEF Destruct, ThreadsOf
<1>5. held[t] = mtx.count /\ mtx.count >= 1
  BY <1>1, <1>4 DEF KnownOwner, Pending
<1>6. QED
  BY <1>1, <1>4, <1>5

LEMMA DestructRecovery ==
  ASSUME Recovers, Recovery, NEW h \in Handles, Destruct(h)
  PROVE  RecoveryParts'
<1>1. /\ KnownOwner /\ DeathNoticed /\ CallsFit /\ OneObject /\ RelocksRecursive
      /\ RawUntouched /\ FromConfig /\ TypeOK /\ mtx \in PMutex
  BY DEF Recovery, RecoveryParts, Ownership, TypeOK
<1>2. UNCHANGED <<pc, rc, held>> /\ Live(h) /\ mtx.life # "raw"
  BY <1>1 DEF Destruct, RawUntouched
<1>3. mtx' = mtx \/ mtx' = Destroyed(mtx) \/ mtx' = Freed(mtx)
  BY DEF Destruct
<1>4. /\ SameAttrs(mtx, mtx') /\ mtx'.owner = mtx.owner /\ mtx'.count = mtx.count
      /\ mtx'.health = mtx.health
      /\ mtx.owner # NoThread /\ ~mtx.robust => mtx' = mtx \/ mtx'.life = "freed"
  BY <1>1, <1>3, DestroyedEffect, DestroyedHealth, FreedEffect DEF SameAttrs
<1>5. /\ ~Live(h)' /\ handle'[h].life = "gone"
      /\ \A g \in Handles \ {h} : handle'[g] = handle[g]
  BY <1>1 DEF Destruct, Live, TypeOK, HandleState
<1>6. KnownOwner'
  BY <1>1, <1>2, <1>4 DEF KnownOwner, Running, Pending
<1>7. DeathNoticed'
  BY <1>1, <1>2, <1>4 DEF DeathNoticed, Pending, SameAttrs
<1>8. CallsFit'
  <2>1. \A t \in Threads : pc[t] \notin {"idle", "dead"} => HandleOf[t] # h
    BY DEF Destruct, ThreadsOf, Running
  <2>2. QED
    BY <1>1, <1>2, <1>4, <1>5, <2>1, HandlesAssumption DEF CallsFit, Live, SameAttrs
<1>9. OneObject'
  <2>1. NoOpeners => \A t \in Threads : Running(t) => mtx.owner # t
    BY DestructUnowned
  <2>2. mtx'.life = "destroyed" /\ mtx'.owner # NoThread =>
          NoOpeners /\ \A g \in Handles : ~Live(g)'
    <3> SUFFICES ASSUME mtx'.life = "destroyed", mtx'.owner # NoThread
                 PROVE  NoOpeners /\ \A g \in Handles : ~Live(g)'
      OBVIOUS
    <3>1. mtx.life # "destroyed"
      BY <1>1, <1>2, <1>4 DEF OneObject
    <3>2. mtx.robust
      BY <1>4, <3>1
    <3>3. NoOpeners
      BY <1>1, <1>2, <3>2, RobustFits
    <3>4. \A g \in Handles \ {h} : ~Live(g)
      BY <1>1, <1>2, <3>3 DEF OneObject
    <3>5. QED
      BY <1>5, <3>3, <3>4 DEF Live
  <2>3. QED
    BY <1>1, <1>2, <1>4, <1>5, <2>1, <2>2 DEF OneObject, Live, Running
<1>10. RelocksRecursive'
  BY <1>1, <1>2, <1>4 DEF RelocksRecursive, SameAttrs
<1>11. QED
  BY <1>6, <1>7, <1>8, <1>9, <1>10 DEF RecoveryParts

LEMMA HandleStepRecovery ==
  ASSUME Recovers, Recovery, NEW h \in Handles, HandleStep(h)
  PROVE  RecoveryParts'
<1>1. /\ KnownOwner /\ DeathNoticed /\ CallsFit /\ OneObject /\ RelocksRecursive
      /\ RawUntouched /\ FromConfig /\ TypeOK /\ mtx \in PMutex
  BY DEF Recovery, RecoveryParts, Ownership, TypeOK
<1>2. ASSUME NEW c \in Configs, Construct(h, c) PROVE RecoveryParts'
  BY <1>2, ConstructRecovery
<1>3. CASE ConstructThrows(h)
  <2>1. UNCHANGED <<mtx, pc, rc, held>> /\ mtx.life = "raw"
    BY <1>3 DEF ConstructThrows
  <2>2. /\ handle'[h].life = "failed"
        /\ \A g \in Handles \ {h} : handle'[g] = handle[g]
    BY <1>1, <1>3 DEF ConstructThrows, TypeOK, HandleState
  <2>3. /\ \A g \in Handles : ~Live(g) /\ ~Live(g)'
        /\ \A t \in Threads : pc[t] = "idle" /\ mtx.owner # t
    BY <1>1, <2>1, <2>2 DEF RawUntouched, Live
  <2>4. QED
    BY <1>1, <2>1, <2>2, <2>3
    DEF RecoveryParts, KnownOwner, DeathNoticed, CallsFit, OneObject, RelocksRecursive, Running, Pending
<1>4. CASE OpenShm(h)
  <2>1. UNCHANGED <<mtx, pc, rc, held>> /\ mtx.life # "raw" /\ ~NoOpeners
        /\ handle[h].life = "unborn"
    BY <1>4 DEF OpenShm, NoOpeners
  <2>2. ~mtx.robust
    BY <1>1, <2>1, RobustFits
  <2>3. /\ handle'[h].life = "live"
        /\ \A g \in Handles \ {h} : handle'[g] = handle[g]
    BY <1>1, <1>4 DEF OpenShm, TypeOK, HandleState
  <2>4. KnownOwner' /\ DeathNoticed' /\ RelocksRecursive'
    BY <1>1, <2>1 DEF KnownOwner, DeathNoticed, RelocksRecursive, Running, Pending
  <2>5. CallsFit'
    BY <1>1, <2>1, <2>2, <2>3, HandlesAssumption DEF CallsFit, Live
  <2>6. OneObject'
    BY <1>1, <2>1, <2>3 DEF OneObject, Live
  <2>7. QED
    BY <2>4, <2>5, <2>6 DEF RecoveryParts
<1>5. CASE Destruct(h)
  BY <1>5, DestructRecovery
<1>6. CASE ProcessCrash(h)
  <2>1. /\ handle'[h].life = "gone"
        /\ \A g \in Handles \ {h} : handle'[g] = handle[g]
    BY <1>1, <1>6 DEF ProcessCrash, TypeOK, HandleState
  <2>2. End(ThreadsOf(h))
    BY <1>6 DEF ProcessCrash
  <2>3. \A u \in Threads \ ThreadsOf(h) : HandleOf[u] # h /\ HandleOf[u] \in Handles
    BY HandlesAssumption DEF ThreadsOf
  <2>4. QED
    BY <2>1, <2>2, <2>3, EndRecovery DEF Live
<1>7. QED
  BY <1>2, <1>3, <1>4, <1>5, <1>6 DEF HandleStep

LEMMA RecoveryStep ==
  ASSUME Recovers, CheckedOrDisciplined, Recovery, [Next]_vars
  PROVE  Recovery'
<1>1. Ownership'
  BY OwnershipStep DEF Recovery
<1>2. RecoveryParts'
  <2>1. CASE UNCHANGED vars
    BY <2>1 DEF vars, Recovery, RecoveryParts, KnownOwner, DeathNoticed, CallsFit, OneObject,
                RelocksRecursive, Live, Running, Pending
  <2>2. CASE Next
    BY <2>2, ThreadStepRecovery, HandleStepRecovery DEF Next
  <2>3. QED
    BY <2>1, <2>2
<1>3. QED
  BY <1>1, <1>2 DEF Recovery

LEMMA StartRecovery == Start => Recovery
<1>1. Start => RecoveryParts
  BY DEF Start, RawMutex, Unborn, RecoveryParts, KnownOwner, DeathNoticed, CallsFit, OneObject,
         RelocksRecursive, Live, Running, Pending
<1>2. QED
  BY <1>1, StartOwnership DEF Recovery

(* The inductive invariant of the recovery: a mutex an owner died with is  *)
(* repaired by LockFail() (Mutex.cpp) inside the Lock() that acquires it.  *)
THEOREM RecoveryHolds ==
  ASSUME Recovers, CheckedOrDisciplined
  PROVE  Spec => []Recovery
<1>1. Recovery /\ [Next]_vars => Recovery'
  BY RecoveryStep
<1>2. QED
  BY <1>1, StartRecovery, PTL DEF Spec

(* Nobody owns the mutex without knowing: every thread outside a call that *)
(* owns it was told so by Lock(), TryLock() or TryLockUntil(), once for    *)
(* each level of a recursive mutex.                                        *)
THEOREM OwnersKnow ==
  ASSUME Recovers, CheckedOrDisciplined
  PROVE  Spec => []OwnerKnows
<1>1. Recovery => OwnerKnows
  BY DEF Recovery, RecoveryParts, KnownOwner, OwnerKnows, Running, Pending
<1>2. QED
  BY <1>1, RecoveryHolds, PTL

(* A caller that relocks only a recursive mutex never waits in Lock() for  *)
(* itself.                                                                 *)
THEOREM WaitsForOthers ==
  ASSUME Recovers, ~Misuse
  PROVE  Spec => []NoSelfDeadlock
<1>1. CheckedOrDisciplined
  BY DEF CheckedOrDisciplined
<1>2. Recovery => NoSelfDeadlock
  <2> SUFFICES ASSUME Recovery, NEW t \in Threads, pc[t] = "lock", MustWait(mtx, t), mtx.owner = t
               PROVE  FALSE
    BY DEF NoSelfDeadlock
  <2>1. KnownOwner /\ RelocksRecursive /\ mtx.count \in Nat /\ NoThread \notin Threads
    BY DEF Recovery, RecoveryParts, Ownership, TypeOK, PMutex
  <2>2. held[t] = mtx.count /\ mtx.count >= 1
    BY <2>1 DEF KnownOwner, Running, Pending
  <2>3. mtx.type = "RECURSIVE"
    BY <2>1, <2>2 DEF RelocksRecursive
  <2>4. QED
    BY <2>3 DEF MustWait
<1>3. QED
  BY <1>1, <1>2, RecoveryHolds, PTL

(* ~Mutex() destroys the pthread mutex or deletes its storage only when no *)
(* running thread owns it, in programs without OpenShm().                  *)
THEOREM UnownedReleases ==
  ASSUME Recovers, CheckedOrDisciplined, NoOpeners
  PROVE  Spec => ReleasedUnowned
<1>1. ASSUME Recovery, [Next]_vars
      PROVE  [(\E h \in Handles : Releases(h)) => ~\E t \in Threads : Running(t) /\ mtx.owner = t]_vars
  <2> SUFFICES ASSUME NEW h \in Handles, Releases(h), NEW t \in Threads, Running(t), mtx.owner = t
               PROVE  FALSE
    OBVIOUS
  <2>1. TypeOK /\ OneObject /\ mtx \in PMutex
    BY <1>1 DEF Recovery, RecoveryParts, Ownership, TypeOK
  <2>2. Live(h) /\ handle'[h].life = "gone"
        /\ mtx'.life # mtx.life
    BY DEF Releases
  <2>3. handle' # handle
    BY <2>2 DEF Live
  <2>4. ASSUME NEW g \in Handles, HandleStep(g)
        PROVE  Destruct(h)
    <3>1. g = h
      BY <2>1, <2>2, <2>4 DEF HandleStep, Construct, ConstructThrows, OpenShm, Destruct,
                              ProcessCrash, TypeOK, Live
    <3>2. CASE ProcessCrash(h)
      <4>1. mtx'.life = mtx.life
        BY <2>1, <3>2, OwnersGoneEffect DEF ProcessCrash, End
      <4>2. QED
        BY <2>2, <4>1
    <3>3. QED
      BY <2>2, <2>4, <3>1, <3>2 DEF HandleStep, Construct, ConstructThrows, OpenShm, Live
  <2>5. ASSUME NEW u \in Threads, ThreadStep(u)
        PROVE  handle' = handle
    BY <2>5 DEF ThreadStep, CallStep, Lock, TryLockUntil, TryLock, Unlock, ThreadExit, LockSuccess,
           LockError, TryLockUntilReturn, TryLockUntilError, LockFailRepair, LockFailThrow
  <2>6. Destruct(h)
    BY <1>1, <2>3, <2>4, <2>5 DEF Next, vars
  <2>7. QED
    BY <1>1, <2>6, DestructUnowned
<1>2. QED
  BY <1>1, RecoveryHolds, PTL DEF Spec, ReleasedUnowned

-----------------------------------------------------------------------------
(* Without misuse the mutex stays recoverable in every program, also where *)
(* the recovery fails: who acquired it with EOWNERDEAD and was not told    *)
(* unlocks it once less often than it locked it.                           *)
Unrepaired ==
  /\ mtx.health # "notrecoverable"
  /\ mtx.health = "inconsistent" => \E t \in Threads : mtx.owner = t /\ held[t] < mtx.count

(* A call that acquires the mutex, and tells its caller if it locked it as *)
(* usual.                                                                  *)
LEMMA TakeUnrepaired ==
  ASSUME TypeOK, HeldIsOwned, Unrepaired, NEW t \in Threads, NEW r, LockRet(mtx, t, r, mtx'),
         \/ r = "OK" /\ held' = [held EXCEPT ![t] = @ + 1]
         \/ r # "OK" /\ held' = held
  PROVE  Unrepaired'
<1>1. mtx \in PMutex /\ mtx.count \in Nat /\ held \in [Threads -> Nat] /\ NoThread \notin Threads
  BY DEF TypeOK, PMutex
<1>2. CASE r = "OK"
  <2>1. /\ mtx'.owner = t /\ mtx'.health = mtx.health
        /\ \/ mtx.owner = NoThread /\ mtx'.count = 1
           \/ mtx.owner = t /\ mtx'.count = mtx.count + 1
    BY <1>1, <1>2, LockRetEffect, LockRetHealth
  <2>2. mtx.health = "inconsistent" =>
          mtx.owner = t /\ held[t] < mtx.count /\ mtx'.count = mtx.count + 1
    BY <1>1, <2>1 DEF Unrepaired
  <2>3. held'[t] = held[t] + 1
    BY <1>1, <1>2
  <2>4. mtx.health = "inconsistent" => held'[t] < mtx'.count
    BY <1>1, <2>2, <2>3
  <2>5. QED
    BY <2>1, <2>4 DEF Unrepaired
<1>3. CASE r = "EOWNERDEAD"
  <2>1. /\ mtx.owner = NoThread /\ mtx'.owner = t /\ mtx'.count = 1
        /\ mtx'.health = "inconsistent"
    BY <1>1, <1>3, LockRetEffect, LockRetHealth
  <2>2. held'[t] = 0
    BY <1>1, <1>3, <2>1 DEF HeldIsOwned
  <2>3. QED
    BY <2>1, <2>2 DEF Unrepaired
<1>4. CASE r \notin {"OK", "EOWNERDEAD"}
  <2>1. mtx' = mtx /\ held' = held
    BY <1>1, <1>4, LockRetEffect
  <2>2. QED
    BY <2>1 DEF Unrepaired
<1>5. QED
  BY <1>2, <1>3, <1>4

LEMMA EndUnrepaired ==
  ASSUME TypeOK, Unrepaired, NEW dead, End(dead)
  PROVE  Unrepaired'
<1>1. mtx \in PMutex /\ held \in [Threads -> Nat]
  BY DEF TypeOK
<1>2. \/ mtx'.health = "ownerdead"
      \/ ~(mtx.robust /\ mtx.owner \in dead) /\ mtx' = mtx
  BY <1>1, OwnersGoneHealth DEF End
<1>3. \A t \in Threads : held'[t] = held[t] \/ (t \in dead /\ mtx.robust)
  BY DEF End
<1>4. QED
  BY <1>2, <1>3 DEF Unrepaired

LEMMA UnlockUnrepaired ==
  ASSUME ~Misuse, TypeOK, HeldIsOwned, Unrepaired, NEW t \in Threads, Unlock(t)
  PROVE  Unrepaired'
<1>1. mtx \in PMutex /\ mtx.count \in Nat /\ held \in [Threads -> Nat]
  BY DEF TypeOK, PMutex
<1>2. PICK r \in ReturnCodes : UnlockRet(mtx, t, r, mtx')
  BY DEF Unlock
<1>3. held[t] > 0 /\ held' = [held EXCEPT ![t] = IF @ > 0 THEN @ - 1 ELSE 0]
  BY DEF Unlock
<1>4. mtx.owner = t /\ held'[t] = held[t] - 1
  BY <1>1, <1>3 DEF HeldIsOwned
<1>5. CASE mtx.health = "inconsistent"
  <2>1. held[t] < mtx.count
    BY <1>4, <1>5 DEF Unrepaired
  <2>2. mtx.count > 1
    BY <1>1, <1>3, <2>1
  <2>3. /\ mtx'.health = mtx.health
        /\ mtx'.owner = t
        /\ mtx'.count = mtx.count - 1 \/ mtx'.count = mtx.count
    BY <1>1, <1>2, <1>4, <2>2, UnlockRetEffect, UnlockRetHealth
  <2>4. held'[t] < mtx'.count
    BY <1>1, <1>4, <2>1, <2>3
  <2>5. QED
    BY <1>5, <2>3, <2>4 DEF Unrepaired
<1>6. CASE mtx.health # "inconsistent"
  BY <1>1, <1>2, <1>6, UnlockRetHealth DEF Unrepaired
<1>7. QED
  BY <1>5, <1>6

LEMMA ThreadStepUnrepaired ==
  ASSUME ~Misuse, TypeOK, HeldIsOwned, Unrepaired, NEW t \in Threads, ThreadStep(t)
  PROVE  Unrepaired'
<1> USE DEF Told
<1>1. mtx \in PMutex
  BY DEF TypeOK
<1>2. ASSUME mtx' = mtx, held' = held PROVE Unrepaired'
  BY <1>2 DEF Unrepaired
<1>3. CASE Lock(t) \/ TryLockUntil(t) \/ LockFailThrow(t)
  BY <1>2, <1>3 DEF Lock, TryLockUntil, LockFailThrow
<1>4. CASE LockSuccess(t)
  BY <1>4, TakeUnrepaired DEF LockSuccess
<1>5. CASE LockError(t)
  <2>1. PICK r \in ReturnCodes \ {"OK"} : LockRet(mtx, t, r, mtx') /\ rc' = [rc EXCEPT ![t] = r]
    BY <1>5 DEF LockError
  <2>2. QED
    BY <1>5, <2>1, TakeUnrepaired DEF LockError
<1>6. CASE TryLockUntilReturn(t)
  <2>1. PICK r \in TimedAnswers :
          ClockLockRet(mtx, t, r, mtx') /\ IF TimedLocked(r) THEN Told(t) ELSE UNCHANGED held
    BY <1>6 DEF TryLockUntilReturn
  <2>2. CASE LockRet(mtx, t, r, mtx')
    BY <2>1, <2>2, TakeUnrepaired DEF TimedLocked
  <2>3. CASE r = "ETIMEDOUT" /\ mtx' = mtx
    BY <1>2, <2>1, <2>3 DEF TimedLocked
  <2>4. QED
    BY <2>1, <2>2, <2>3 DEF ClockLockRet
<1>7. CASE TryLockUntilError(t)
  <2>1. PICK r \in ReturnCodes \ TimedAnswers :
          ClockLockRet(mtx, t, r, mtx') /\ rc' = [rc EXCEPT ![t] = r]
    BY <1>7 DEF TryLockUntilError
  <2>2. LockRet(mtx, t, r, mtx') /\ r # "OK"
    BY <2>1 DEF ClockLockRet, TimedAnswers
  <2>3. QED
    BY <1>7, <2>2, TakeUnrepaired DEF TryLockUntilError
<1>8. CASE LockFailRepair(t)
  <2>1. mtx'.health = "consistent"
    BY <1>1, <1>8, ConsistentRetHealth DEF LockFailRepair
  <2>2. QED
    BY <2>1 DEF Unrepaired
<1>9. CASE TryLock(t)
  <2>1. PICK r \in ReturnCodes :
          TryLockRet(mtx, t, r, mtx') /\ IF TryLocked(r) THEN Told(t) ELSE UNCHANGED held
    BY <1>9 DEF TryLock
  <2>2. CASE LockRet(mtx, t, r, mtx')
    BY <2>1, <2>2, TakeUnrepaired DEF TryLocked
  <2>3. CASE r = "EBUSY" /\ mtx' = mtx
    BY <1>2, <2>1, <2>3 DEF TryLocked
  <2>4. QED
    BY <2>1, <2>2, <2>3 DEF TryLockRet
<1>10. CASE Unlock(t)
  BY <1>10, UnlockUnrepaired
<1>11. CASE ThreadExit(t)
  BY <1>11, EndUnrepaired DEF ThreadExit
<1>12. QED
  BY <1>3, <1>4, <1>5, <1>6, <1>7, <1>8, <1>9, <1>10, <1>11 DEF ThreadStep, CallStep

LEMMA HandleStepUnrepaired ==
  ASSUME TypeOK, Unrepaired, NEW h \in Handles, HandleStep(h)
  PROVE  Unrepaired'
<1>1. mtx \in PMutex
  BY DEF TypeOK
<1>2. ASSUME NEW c \in Configs, Construct(h, c) PROVE Unrepaired'
  BY <1>2 DEF Construct, InitMutex, Unrepaired
<1>3. CASE ConstructThrows(h) \/ OpenShm(h)
  BY <1>3 DEF ConstructThrows, OpenShm, Unrepaired
<1>4. CASE Destruct(h)
  <2>1. /\ mtx'.owner = mtx.owner /\ mtx'.count = mtx.count /\ mtx'.health = mtx.health
        /\ held' = held
    BY <1>1, <1>4, DestroyedEffect, DestroyedHealth, FreedEffect DEF Destruct
  <2>2. QED
    BY <2>1 DEF Unrepaired
<1>5. CASE ProcessCrash(h)
  BY <1>5, EndUnrepaired DEF ProcessCrash
<1>6. QED
  BY <1>2, <1>3, <1>4, <1>5 DEF HandleStep

(* Unlock() never makes a robust mutex unusable.  Where the recovery works *)
(* nobody unlocks before LockFail() has made the mutex consistent again;   *)
(* elsewhere it takes a caller that unlocks what it was not given.         *)
THEOREM NeverUnrecoverable ==
  ASSUME ~Misuse \/ (Recovers /\ CheckedOrDisciplined)
  PROVE  Spec => []StaysRecoverable
<1>1. ASSUME ~Misuse
      PROVE  Spec => []StaysRecoverable
  <2>1. CheckedOrDisciplined
    BY <1>1 DEF CheckedOrDisciplined
  <2>2. Start => Unrepaired
    BY DEF Start, RawMutex, Unrepaired
  <2>3. Ownership /\ Unrepaired /\ [Next]_vars => Unrepaired'
    <3> SUFFICES ASSUME Ownership, Unrepaired, [Next]_vars PROVE Unrepaired'
      OBVIOUS
    <3>1. TypeOK /\ HeldIsOwned
      BY DEF Ownership
    <3>2. CASE UNCHANGED vars
      BY <3>2 DEF vars, Unrepaired
    <3>3. CASE Next
      BY <1>1, <3>1, <3>3, ThreadStepUnrepaired, HandleStepUnrepaired DEF Next
    <3>4. QED
      BY <3>2, <3>3
  <2>4. Unrepaired => StaysRecoverable
    BY DEF Unrepaired, StaysRecoverable
  <2>5. QED
    BY <2>1, <2>2, <2>3, <2>4, OwnershipHolds, PTL DEF Spec
<1>2. ASSUME Recovers, CheckedOrDisciplined
      PROVE  Spec => []StaysRecoverable
  <2>1. Recovery => StaysRecoverable
    BY DEF Recovery, RecoveryParts, DeathNoticed, StaysRecoverable
  <2>2. QED
    BY <1>2, <2>1, RecoveryHolds, PTL
<1>3. QED
  BY <1>1, <1>2
=============================================================================
