----------------------------- MODULE MutexProofs -----------------------------
(***************************************************************************)
(* What holds of Axzl::Mutex for any number of threads, objects and        *)
(* configurations.                                                         *)
(***************************************************************************)
EXTENDS Mutex, PthreadMutexProofs, TLAPS

USE NoThreadAssumption, MaxCountAssumption, HandlesAssumption, ConfigsAssumption

-----------------------------------------------------------------------------
LEMMA InitMutexType ==
  ASSUME NEW c \in Configs
  PROVE  InitMutex(c.mType, AttrsRobust(c), c.mProto) \in PMutex
<1>1. c \in Config
  OBVIOUS
<1>2. c.mType \in MutexTypes /\ c.mProto \in Protocols
  BY <1>1 DEF Config
<1>3. AttrsRobust(c) \in BOOLEAN
  BY DEF AttrsRobust
<1>4. QED
  BY <1>2, <1>3, FieldValues DEF InitMutex, PMutex

(* What a constructor leaves in an object.                                 *)
LEMMA ConstructedType ==
  ASSUME NEW c \in Configs
  PROVE  Constructed(c) \in HandleState
<1>1. c \in Config
  OBVIOUS
<1>2. c.mSharedMemDestroy \in BOOLEAN
  BY <1>1 DEF Config
<1>3. AttrsRobust(c) \in BOOLEAN /\ (c.mShare = "SHARED") \in BOOLEAN
  BY DEF AttrsRobust
<1>4. QED
  BY <1>2, <1>3 DEF Constructed, HandleState

-----------------------------------------------------------------------------
(* Type correctness.                                                       *)
LEMMA HandleStepType ==
  ASSUME TypeOK, NEW h \in Handles, HandleStep(h)
  PROVE  TypeOK'
<1>1. ASSUME NEW c \in Configs, Construct(h, c)
      PROVE  TypeOK'
  BY <1>1, InitMutexType, ConstructedType DEF Construct, TypeOK
<1>2. CASE ConstructThrows(h)
  BY <1>2 DEF ConstructThrows, TypeOK, HandleState
<1>3. CASE OpenShm(h)
  BY <1>3 DEF OpenShm, TypeOK, HandleState
<1>4. CASE Destruct(h)
  <2>1. handle[h] \in HandleState
    BY DEF TypeOK
  <2>2. [handle[h] EXCEPT !.life = "gone"] \in HandleState
    BY <2>1 DEF HandleState
  <2>3. handle' = [handle EXCEPT ![h] = [handle[h] EXCEPT !.life = "gone"]]
    BY <1>4 DEF Destruct, TypeOK
  <2>4. handle' \in [Handles -> HandleState]
    BY <2>2, <2>3 DEF TypeOK
  <2>5. mtx' \in PMutex
    BY <1>4, DestroyedType, FreedType DEF Destruct, TypeOK
  <2>6. QED
    BY <1>4, <2>4, <2>5 DEF Destruct, TypeOK
<1>5. CASE ProcessCrash(h)
  <2>1. mtx' \in PMutex
    BY <1>5, OwnersGoneType DEF ProcessCrash, End, TypeOK
  <2>2. rc' \in [Threads -> ReturnCodes] /\ held' \in [Threads -> Nat]
    BY <1>5 DEF ProcessCrash, End, TypeOK, ReturnCodes
  <2>3. pc' \in [Threads ->
                   {"idle", "lock", "clocklock", "lockfail", "clocklockfail", "dead"}]
    BY <1>5 DEF ProcessCrash, End, TypeOK
  <2>4. handle' \in [Handles -> HandleState]
    BY <1>5 DEF ProcessCrash, TypeOK, HandleState
  <2>5. QED
    BY <2>1, <2>2, <2>3, <2>4 DEF TypeOK
<1>6. QED
  BY <1>1, <1>2, <1>3, <1>4, <1>5 DEF HandleStep

LEMMA ThreadStepType ==
  ASSUME TypeOK, NEW t \in Threads, ThreadStep(t)
  PROVE  TypeOK'
<1> USE DEF TypeOK, Goto, Told
<1>1. CASE Lock(t) \/ TryLockUntil(t)
  BY <1>1 DEF Lock, TryLockUntil
<1>2. CASE LockSuccess(t)
  BY <1>2, LockRetType DEF LockSuccess
<1>3. CASE LockError(t)
  BY <1>3, LockRetType DEF LockError
<1>4. CASE TryLockUntilReturn(t)
  BY <1>4, LockRetType DEF TryLockUntilReturn, ClockLockRet
<1>5. CASE TryLockUntilError(t)
  BY <1>5, LockRetType DEF TryLockUntilError, ClockLockRet
<1>6. CASE LockFailRepair(t)
  BY <1>6, ConsistentRetType DEF LockFailRepair, ReturnCodes
<1>7. CASE LockFailThrow(t)
  BY <1>7 DEF LockFailThrow, ReturnCodes
<1>8. CASE TryLock(t)
  BY <1>8, LockRetType DEF TryLock, TryLockRet
<1>9. CASE Unlock(t)
  BY <1>9, UnlockRetType DEF Unlock
<1>10. CASE ThreadExit(t)
  BY <1>10, OwnersGoneType DEF ThreadExit, End, ReturnCodes
<1>11. QED
  BY <1>1, <1>2, <1>3, <1>4, <1>5, <1>6, <1>7, <1>8, <1>9, <1>10
  DEF ThreadStep, CallStep

(* Every variable of Mutex keeps its type.                                 *)
THEOREM TypeCorrect == Spec => []TypeOK
<1>1. Start => TypeOK
  BY DEF Start, TypeOK, PMutex, RawMutex, Unborn, HandleState, Healths, MutexTypes, Protocols, ReturnCodes
<1>2. TypeOK /\ [Next]_vars => TypeOK'
  <2> SUFFICES ASSUME TypeOK, [Next]_vars PROVE TypeOK'
    OBVIOUS
  <2>1. CASE Next
    BY <2>1, HandleStepType, ThreadStepType DEF Next
  <2>2. CASE UNCHANGED vars
    BY <2>2 DEF vars, TypeOK
  <2>3. QED
    BY <2>1, <2>2
<1>3. QED
  BY <1>1, <1>2, PTL DEF Spec

-----------------------------------------------------------------------------
(* Ownership is inductive for the programs CheckedOrDisciplined describes. *)

(* FromConfig survives what keeps the attributes and does not bring raw    *)
(* storage to life.                                                        *)
LEMMA FromConfigKept ==
  ASSUME FromConfig, SameAttrs(mtx, mtx'), mtx.life = "raw" => mtx'.life = "raw"
  PROVE  FromConfig'
BY DEF FromConfig, SameAttrs

(* A caller has an object, so the mutex is not raw.                        *)
LEMMA IdleNotRaw ==
  ASSUME RawUntouched, TypeOK, NEW t \in Threads, Idle(t) \/ pc[t] \notin {"idle", "dead"}
  PROVE  mtx.life # "raw"
BY DEF RawUntouched, TypeOK, Idle

(* A step that leaves the mutex, the objects' life and held alone.         *)
LEMMA QuietStep ==
  ASSUME Ownership, mtx.life # "raw", UNCHANGED <<mtx, held>>,
         \A t \in Threads :
           pc'[t] \in {"lockfail", "clocklockfail"} /\ rc'[t] = "EOWNERDEAD" =>
             pc[t] \in {"lockfail", "clocklockfail"} /\ rc[t] = "EOWNERDEAD"
  PROVE  (HeldIsOwned /\ RawUntouched /\ FromConfig /\ Repairing)'
BY DEF Ownership, HeldIsOwned, RawUntouched, FromConfig, Repairing

(* A call by which t comes to own the mutex, once more than before; it is  *)
(* told now, or is about to repair the mutex.                              *)
Acquires(t, r) ==
  /\ mtx'.life = mtx.life /\ SameAttrs(mtx, mtx')
  /\ mtx'.owner = t
  /\ \/ mtx.owner = NoThread /\ mtx'.count = 1
     \/ r = "OK" /\ mtx.owner = t /\ mtx'.count = mtx.count + 1

LEMMA AcquireStep ==
  ASSUME Ownership, TypeOK', mtx.life # "raw",
         NEW t \in Threads, NEW r, Acquires(t, r),
         \/ held' = [held EXCEPT ![t] = @ + 1] /\ r = "OK"
         \/ held' = held,
         \A u \in Threads \ {t} : pc'[u] = pc[u] /\ rc'[u] = rc[u],
         pc'[t] = "idle" \/ (mtx.owner = NoThread /\ held' = held)
  PROVE  (HeldIsOwned /\ RawUntouched /\ FromConfig /\ Repairing)'
<1> USE DEF Acquires
<1>1. TypeOK /\ HeldIsOwned /\ FromConfig /\ Repairing
  BY DEF Ownership
<1>2. mtx.count \in Nat /\ held \in [Threads -> Nat] /\ NoThread \notin Threads
  BY <1>1 DEF TypeOK, PMutex
<1>3. \A u \in Threads \ {t} : held'[u] = held[u] /\ held[u] = 0
  BY <1>1, <1>2 DEF HeldIsOwned
<1>4. held'[t] <= mtx'.count
  <2>1. held[t] = 0 \/ (mtx.owner = t /\ held[t] <= mtx.count)
    BY <1>1, <1>2 DEF HeldIsOwned
  <2>2. mtx.owner = NoThread => held[t] = 0
    BY <2>1, <1>2
  <2>3. held'[t] = held[t] \/ held'[t] = held[t] + 1
    BY <1>2
  <2>4. QED
    BY <2>1, <2>2, <2>3, <1>2
<1>5. HeldIsOwned'
  BY <1>2, <1>3, <1>4 DEF HeldIsOwned
<1>6. RawUntouched'
  BY DEF RawUntouched
<1>7. FromConfig'
  BY <1>1, FromConfigKept
<1>8. Repairing'
  <2> SUFFICES ASSUME NEW u \in Threads, pc'[u] \in {"lockfail", "clocklockfail"},
                      rc'[u] = "EOWNERDEAD"
               PROVE  mtx'.owner = u /\ mtx'.count = 1 /\ held'[u] = 0
    BY DEF Repairing
  <2>1. CASE u = t
    BY <2>1, <1>1, <1>2 DEF HeldIsOwned
  <2>2. CASE u # t
    BY <2>2, <1>1, <1>2 DEF Repairing
  <2>3. QED
    BY <2>1, <2>2
<1>9. QED
  BY <1>5, <1>6, <1>7, <1>8

LEMMA SameAttrsChecked ==
  ASSUME NEW m, NEW n, SameAttrs(m, n)
  PROVE  Checked(n) = Checked(m)
BY DEF SameAttrs, Checked

(* A caller that may misuse the mutex cannot unlock it for another.        *)
LEMMA MisuseIsChecked ==
  ASSUME CheckedOrDisciplined, FromConfig, Misuse, mtx.life # "raw"
  PROVE  Checked(mtx)
BY DEF CheckedOrDisciplined, FromConfig, Checked, AttrsRobust

(* Threads that end take nothing from the others.                          *)
LEMMA EndStep ==
  ASSUME Ownership, mtx.life # "raw", NEW dead, End(dead)
  PROVE  (HeldIsOwned /\ RawUntouched /\ FromConfig /\ Repairing)'
<1>1. TypeOK /\ HeldIsOwned /\ FromConfig /\ Repairing /\ mtx \in PMutex
  BY DEF Ownership, TypeOK
<1>2. /\ mtx'.life = mtx.life /\ SameAttrs(mtx, mtx')
      /\ mtx' = mtx \/ mtx.owner \in dead
  BY <1>1, OwnersGoneEffect DEF End
<1>3. \A t \in Threads : held'[t] > 0 => /\ t \notin dead \/ mtx' = mtx
                                         /\ held'[t] = held[t]
  BY DEF End, OwnersGone
<1>4. HeldIsOwned'
  BY <1>1, <1>2, <1>3 DEF HeldIsOwned
<1>5. RawUntouched' /\ FromConfig'
  BY <1>1, <1>2, FromConfigKept DEF RawUntouched
<1>6. Repairing'
  BY <1>1, <1>2 DEF End, Repairing
<1>7. QED
  BY <1>4, <1>5, <1>6

LEMMA ThreadStepOwnership ==
  ASSUME CheckedOrDisciplined, Ownership, TypeOK', NEW t \in Threads, ThreadStep(t)
  PROVE  (HeldIsOwned /\ RawUntouched /\ FromConfig /\ Repairing)'
<1> USE DEF Goto, Told
<1>1. TypeOK /\ HeldIsOwned /\ RawUntouched /\ FromConfig /\ Repairing
  BY DEF Ownership
<1>2. mtx \in PMutex /\ pc \in [Threads -> {"idle", "lock", "clocklock", "lockfail", "clocklockfail", "dead"}]
      /\ rc \in [Threads -> ReturnCodes] /\ held \in [Threads -> Nat]
  BY <1>1 DEF TypeOK
<1>3. mtx.life # "raw"
  <2>1. Idle(t) \/ pc[t] \notin {"idle", "dead"}
    BY DEF ThreadStep, CallStep, Lock, TryLockUntil, TryLock, Unlock, ThreadExit, LockSuccess,
           LockError, TryLockUntilReturn, TryLockUntilError, LockFailRepair, LockFailThrow
  <2>2. QED
    BY <1>1, <2>1, IdleNotRaw
<1>4. CASE Lock(t) \/ TryLockUntil(t)
  BY <1>2, <1>3, <1>4, QuietStep DEF Lock, TryLockUntil
<1>5. CASE LockSuccess(t)
  <2>1. Acquires(t, "OK")
    BY <1>2, <1>5, LockRetEffect DEF LockSuccess, Acquires
  <2>2. QED
    BY <1>2, <1>3, <1>5, <2>1, AcquireStep DEF LockSuccess
<1>6. ASSUME NEW r \in ReturnCodes \ {"OK"}, LockRet(mtx, t, r, mtx'),
             rc' = [rc EXCEPT ![t] = r], UNCHANGED held,
             \A u \in Threads \ {t} : pc'[u] = pc[u]
      PROVE  (HeldIsOwned /\ RawUntouched /\ FromConfig /\ Repairing)'
  <2>1. \A u \in Threads \ {t} : pc'[u] = pc[u] /\ rc'[u] = rc[u]
    BY <1>2, <1>6
  <2>2. rc'[t] = r
    BY <1>2, <1>6
  <2>3. CASE r = "EOWNERDEAD"
    <3>1. Acquires(t, r) /\ mtx.owner = NoThread
      BY <1>2, <1>6, <2>3, LockRetEffect DEF Acquires
    <3>2. QED
      BY <1>3, <1>6, <2>1, <3>1, AcquireStep
  <2>4. CASE r # "EOWNERDEAD"
    <3>1. mtx' = mtx
      BY <1>2, <1>6, <2>4, LockRetEffect
    <3>2. QED
      BY <1>3, <1>6, <2>1, <2>2, <2>4, <3>1, QuietStep
  <2>5. QED
    BY <2>3, <2>4
<1>7. CASE LockError(t)
  BY <1>2, <1>6, <1>7 DEF LockError
<1>8. CASE TryLockUntilReturn(t)
  <2>1. PICK r \in TimedAnswers :
          ClockLockRet(mtx, t, r, mtx') /\ IF TimedLocked(r) THEN Told(t) ELSE UNCHANGED held
    BY <1>8 DEF TryLockUntilReturn
  <2>2. CASE LockRet(mtx, t, r, mtx') /\ r = "OK"
    <3>1. Acquires(t, r)
      BY <1>2, <2>2, LockRetEffect DEF Acquires
    <3>2. QED
      BY <1>2, <1>3, <1>8, <2>1, <2>2, <3>1, AcquireStep DEF TryLockUntilReturn, TimedLocked
  <2>3. CASE LockRet(mtx, t, r, mtx') /\ r # "OK"
    <3>1. r # "EOWNERDEAD"
      BY <2>1 DEF TimedAnswers
    <3>2. mtx' = mtx
      BY <1>2, <2>3, <3>1, LockRetEffect
    <3>3. QED
      BY <1>2, <1>3, <1>8, <2>1, <2>3, <3>2, QuietStep DEF TryLockUntilReturn, TimedLocked
  <2>4. CASE r = "ETIMEDOUT" /\ mtx' = mtx
    BY <1>2, <1>3, <1>8, <2>1, <2>4, QuietStep DEF TryLockUntilReturn, TimedLocked
  <2>5. QED
    BY <2>1, <2>2, <2>3, <2>4 DEF ClockLockRet
<1>9. CASE TryLockUntilError(t)
  <2>1. PICK r \in ReturnCodes \ TimedAnswers :
          ClockLockRet(mtx, t, r, mtx') /\ rc' = [rc EXCEPT ![t] = r]
    BY <1>9 DEF TryLockUntilError
  <2>2. LockRet(mtx, t, r, mtx') /\ r # "OK"
    BY <2>1 DEF ClockLockRet, TimedAnswers
  <2>3. QED
    BY <1>2, <1>6, <1>9, <2>1, <2>2 DEF TryLockUntilError
<1>10. CASE LockFailRepair(t)
  <2>1. mtx.owner = t /\ mtx.count = 1 /\ held[t] = 0
    BY <1>1, <1>10 DEF LockFailRepair, Repairs, Repairing
  <2>2. mtx'.owner = t /\ mtx'.count = 1 /\ mtx'.life = mtx.life /\ SameAttrs(mtx, mtx')
    BY <1>2, <1>10, <2>1, ConsistentRetEffect DEF LockFailRepair
  <2>3. \A u \in Threads \ {t} : held[u] = 0 /\ held'[u] = 0
    BY <1>1, <1>2, <1>10, <2>1 DEF LockFailRepair, HeldIsOwned
  <2>4. held'[t] <= 1
    BY <1>2, <1>10, <2>1 DEF LockFailRepair
  <2>5. HeldIsOwned'
    BY <2>2, <2>3, <2>4 DEF HeldIsOwned
  <2>6. RawUntouched' /\ FromConfig'
    BY <1>1, <1>3, <2>2, FromConfigKept DEF RawUntouched
  <2>7. Repairing'
    BY <1>1, <1>2, <1>10, <2>1, <2>2, <2>3 DEF LockFailRepair, Repairing
  <2>8. QED
    BY <2>5, <2>6, <2>7
<1>11. CASE LockFailThrow(t)
  BY <1>2, <1>3, <1>11, QuietStep DEF LockFailThrow
<1>12. CASE TryLock(t)
  <2>1. PICK r \in ReturnCodes :
          TryLockRet(mtx, t, r, mtx') /\ IF TryLocked(r) THEN Told(t) ELSE UNCHANGED held
    BY <1>12 DEF TryLock
  <2>2. UNCHANGED <<pc, rc>> /\ pc[t] = "idle"
    BY <1>12 DEF TryLock, Idle
  <2>3. CASE LockRet(mtx, t, r, mtx') /\ r \in {"OK", "EOWNERDEAD"}
    <3>1. Acquires(t, r)
      BY <1>2, <2>3, LockRetEffect DEF Acquires
    <3>2. QED
      BY <1>2, <1>3, <2>1, <2>2, <2>3, <3>1, AcquireStep DEF TryLocked
  <2>4. CASE mtx' = mtx /\ r # "OK"
    BY <1>3, <2>1, <2>2, <2>4, QuietStep DEF TryLocked
  <2>5. QED
    BY <1>2, <2>1, <2>3, <2>4, LockRetEffect DEF TryLockRet
<1>13. CASE Unlock(t)
  <2>1. PICK r \in ReturnCodes : UnlockRet(mtx, t, r, mtx')
    BY <1>13 DEF Unlock
  <2>2. mtx'.life = mtx.life /\ SameAttrs(mtx, mtx')
    BY <1>2, <2>1, UnlockRetEffect
  <2>3. UNCHANGED <<pc, rc>> /\ pc[t] = "idle" /\ (held[t] > 0 \/ Misuse)
    BY <1>13 DEF Unlock, Idle
  <2>4. held' = [held EXCEPT ![t] = IF held[t] > 0 THEN held[t] - 1 ELSE 0]
    BY <1>13 DEF Unlock
  <2>5. RawUntouched' /\ FromConfig'
    BY <1>1, <1>3, <2>2, FromConfigKept DEF RawUntouched
  <2>6. mtx.owner # t => mtx' = mtx
    <3>1. mtx.owner # t => held[t] = 0
      BY <1>1, <1>2 DEF HeldIsOwned
    <3>2. mtx.owner # t => Checked(mtx)
      BY <1>1, <1>3, <2>3, <3>1, MisuseIsChecked
    <3>3. QED
      BY <1>2, <2>1, <3>2, UnlockRetEffect
  <2>7. HeldIsOwned'
    <3>1. \A u \in Threads \ {t} : held'[u] = held[u] /\ (held[u] > 0 => mtx' = mtx)
      BY <1>1, <1>2, <2>4, <2>6 DEF HeldIsOwned
    <3>2. held'[t] > 0 => held[t] > 1 /\ held'[t] = held[t] - 1
      BY <1>2, <2>4
    <3>3. held[t] > 1 => mtx.owner = t /\ held[t] <= mtx.count
      BY <1>1, <1>2 DEF HeldIsOwned
    <3>4. mtx.owner = t => \/ mtx' = mtx
                           \/ mtx.count > 1 /\ mtx'.owner = t /\ mtx'.count = mtx.count - 1
                           \/ mtx.count <= 1 /\ mtx'.owner = NoThread
      BY <1>2, <2>1, UnlockRetEffect
    <3>5. mtx.count \in Nat /\ held[t] \in Nat
      BY <1>2 DEF PMutex
    <3>6. held'[t] > 0 => mtx'.owner = t /\ held'[t] <= mtx'.count
      BY <3>2, <3>3, <3>4, <3>5
    <3>7. QED
      BY <1>1, <3>1, <3>6 DEF HeldIsOwned
  <2>8. Repairing'
    BY <1>1, <1>2, <2>3, <2>4, <2>6 DEF Repairing
  <2>9. QED
    BY <2>5, <2>7, <2>8
<1>14. CASE ThreadExit(t)
  BY <1>3, <1>14, EndStep DEF ThreadExit
<1>15. QED
  BY <1>4, <1>5, <1>7, <1>8, <1>9, <1>10, <1>11, <1>12, <1>13, <1>14 DEF ThreadStep, CallStep

LEMMA HandleStepOwnership ==
  ASSUME Ownership, NEW h \in Handles, HandleStep(h)
  PROVE  (HeldIsOwned /\ RawUntouched /\ FromConfig /\ Repairing)'
<1>1. TypeOK /\ HeldIsOwned /\ RawUntouched /\ FromConfig /\ Repairing /\ mtx \in PMutex
  BY DEF Ownership, TypeOK
<1>2. Live(h) => mtx.life # "raw"
  BY <1>1 DEF RawUntouched
<1>3. ASSUME NEW c \in Configs, Construct(h, c)
      PROVE  (HeldIsOwned /\ RawUntouched /\ FromConfig /\ Repairing)'
  <2>1. mtx.life = "raw" /\ mtx' = InitMutex(c.mType, AttrsRobust(c), c.mProto)
        /\ UNCHANGED <<pc, rc, held>>
    BY <1>3 DEF Construct
  <2>2. \A t \in Threads : pc[t] = "idle" /\ held[t] = 0
    BY <1>1, <2>1 DEF RawUntouched
  <2>3. mtx'.life = "init" /\ mtx'.type = c.mType /\ mtx'.robust = AttrsRobust(c)
        /\ mtx'.proto = c.mProto
    BY <2>1 DEF InitMutex
  <2>4. QED
    BY <2>1, <2>2, <2>3 DEF HeldIsOwned, RawUntouched, FromConfig, Repairing
<1>4. CASE ConstructThrows(h)
  <2>1. handle' = [handle EXCEPT ![h].life = "failed"] /\ UNCHANGED <<mtx, pc, rc, held>>
    BY <1>4 DEF ConstructThrows
  <2>2. \A g \in Handles : ~Live(g) => ~Live(g)'
    BY <1>1, <2>1 DEF TypeOK, HandleState, Live
  <2>3. QED
    BY <1>1, <2>1, <2>2 DEF HeldIsOwned, RawUntouched, FromConfig, Repairing
<1>5. CASE OpenShm(h)
  BY <1>1, <1>5 DEF OpenShm, HeldIsOwned, RawUntouched, FromConfig, Repairing
<1>6. CASE Destruct(h)
  <2>1. mtx.life # "raw" /\ UNCHANGED <<pc, rc, held>>
    BY <1>2, <1>6 DEF Destruct
  <2>2. /\ SameAttrs(mtx, mtx') /\ mtx'.life # "raw"
        /\ mtx'.owner = mtx.owner /\ mtx'.count = mtx.count
    BY <1>1, <1>6, <2>1, DestroyedEffect, FreedEffect DEF Destruct, SameAttrs
  <2>3. FromConfig'
    BY <1>1, <2>1, <2>2, FromConfigKept
  <2>4. QED
    BY <1>1, <2>1, <2>2, <2>3 DEF HeldIsOwned, RawUntouched, Repairing
<1>7. CASE ProcessCrash(h)
  BY <1>2, <1>7, EndStep DEF ProcessCrash
<1>8. QED
  BY <1>3, <1>4, <1>5, <1>6, <1>7 DEF HandleStep

LEMMA OwnershipStep ==
  ASSUME CheckedOrDisciplined, Ownership, [Next]_vars
  PROVE  Ownership'
<1>1. TypeOK
  BY DEF Ownership
<1>2. CASE UNCHANGED vars
  BY <1>2 DEF vars, Ownership, TypeOK, HeldIsOwned, RawUntouched, FromConfig, Repairing, Live
<1>3. CASE Next
  <2>1. TypeOK'
    BY <1>1, <1>3, HandleStepType, ThreadStepType DEF Next
  <2>2. (HeldIsOwned /\ RawUntouched /\ FromConfig /\ Repairing)'
    BY <1>3, <2>1, HandleStepOwnership, ThreadStepOwnership DEF Next
  <2>3. QED
    BY <2>1, <2>2 DEF Ownership
<1>4. QED
  BY <1>2, <1>3

LEMMA StartOwnership == Start => Ownership
<1>1. Start => TypeOK
  BY DEF Start, TypeOK, PMutex, RawMutex, Unborn, HandleState, Healths, MutexTypes, Protocols, ReturnCodes
<1>2. Start => HeldIsOwned /\ RawUntouched /\ FromConfig /\ Repairing
  BY DEF Start, HeldIsOwned, RawUntouched, FromConfig, Repairing, RawMutex, Unborn, Live
<1>3. QED
  BY <1>1, <1>2 DEF Ownership

(* The inductive invariant, for any number of threads and processes.       *)
THEOREM OwnershipHolds ==
  ASSUME CheckedOrDisciplined
  PROVE  Spec => []Ownership
<1>1. Ownership /\ [Next]_vars => Ownership'
  BY OwnershipStep
<1>2. QED
  BY <1>1, StartOwnership, PTL DEF Spec

(* Whoever was told it holds the mutex owns it, whatever dies, whoever     *)
(* recovers the mutex and whoever destroys an object.                      *)
THEOREM HeldOwned ==
  ASSUME CheckedOrDisciplined
  PROVE  Spec => []HeldIsOwned
BY OwnershipHolds, PTL DEF Ownership

(* Never are two threads told that they hold the mutex at once.            *)
THEOREM Exclusive ==
  ASSUME CheckedOrDisciplined
  PROVE  Spec => []MutualExclusion
<1>1. HeldIsOwned => MutualExclusion
  BY DEF HeldIsOwned, MutualExclusion
<1>2. QED
  BY <1>1, HeldOwned, PTL

-----------------------------------------------------------------------------
(* Mutex implements AbstractLock: every step is one of the lock's, seen    *)
(* through held and pc, or changes nothing the lock's callers can see.     *)
ALMap == <<held, {t \in Threads : pc[t] \notin {"idle", "dead"}},
           {t \in Threads : pc[t] = "dead"}>>

Simulates == AL!Next \/ UNCHANGED ALMap

(* A call that succeeds is an Enter.                                       *)
LEMMA EnterStep ==
  ASSUME Ownership, Ownership', NEW t \in Threads,
         held' = [held EXCEPT ![t] = @ + 1],
         held[t] > 0 => mtx.type = "RECURSIVE",
         mtx.life # "raw",
         pc[t] # "dead", pc' = [pc EXCEPT ![t] = "idle"]
  PROVE  AL!Enter(t)
<1>1. /\ held \in [Threads -> Nat] /\ FromConfig /\ HeldIsOwned /\ HeldIsOwned'
      /\ pc \in [Threads -> {"idle", "lock", "clocklock", "lockfail", "clocklockfail", "dead"}]
  BY DEF Ownership, TypeOK
<1>2. held'[t] > 0
  BY <1>1
<1>3. \A u \in Threads \ {t} : held[u] = 0
  BY <1>1, <1>2 DEF HeldIsOwned
<1>4. held[t] = 0 \/ \E c \in Configs : c.mType = "RECURSIVE"
  BY <1>1 DEF FromConfig
<1>5. {u \in Threads : pc'[u] \notin {"idle", "dead"}}
        = {u \in Threads : pc[u] \notin {"idle", "dead"}} \ {t}
  BY <1>1
<1>6. {u \in Threads : pc'[u] = "dead"} = {u \in Threads : pc[u] = "dead"}
  BY <1>1
<1>7. t \notin {u \in Threads : pc[u] = "dead"}
  OBVIOUS
<1>8. QED
  BY <1>3, <1>4, <1>5, <1>6, <1>7 DEF AL!Enter, AL!OthersOut

(* A call that fails or gives up is a Refuse.                              *)
LEMMA RefuseStep ==
  ASSUME TypeOK, NEW t \in Threads, UNCHANGED held,
         pc[t] \notin {"idle", "dead"}, pc' = [pc EXCEPT ![t] = "idle"]
  PROVE  AL!Refuse(t)
<1>1. pc \in [Threads -> {"idle", "lock", "clocklock", "lockfail", "clocklockfail", "dead"}]
  BY DEF TypeOK
<1>2. {u \in Threads : pc'[u] \notin {"idle", "dead"}}
        = {u \in Threads : pc[u] \notin {"idle", "dead"}} \ {t}
  BY <1>1
<1>3. {u \in Threads : pc'[u] = "dead"} = {u \in Threads : pc[u] = "dead"}
  BY <1>1
<1>4. QED
  BY <1>2, <1>3 DEF AL!Refuse

(* Threads that end, end there too.                                        *)
LEMMA GoneStep ==
  ASSUME TypeOK, NEW dead \in SUBSET Threads, End(dead)
  PROVE  \E freed \in SUBSET dead : AL!End(dead, freed)
<1>1. pc \in [Threads -> {"idle", "lock", "clocklock", "lockfail", "clocklockfail", "dead"}]
  BY DEF TypeOK
<1>2. {u \in Threads : pc'[u] \notin {"idle", "dead"}}
        = {u \in Threads : pc[u] \notin {"idle", "dead"}} \ dead
  BY <1>1 DEF End
<1>3. {u \in Threads : pc'[u] = "dead"} = {u \in Threads : pc[u] = "dead"} \cup dead
  BY <1>1 DEF End
<1>4. ASSUME NEW freed \in SUBSET dead, freed = IF mtx.robust THEN dead ELSE {}
      PROVE  AL!End(dead, freed)
  <2>1. held' = [t \in Threads |-> IF t \in freed THEN 0 ELSE held[t]]
    BY <1>4 DEF End
  <2>2. QED
    BY <1>2, <1>3, <2>1 DEF AL!End
<1>5. (IF mtx.robust THEN dead ELSE {}) \in SUBSET dead
  OBVIOUS
<1>6. QED
  BY <1>4, <1>5

LEMMA ThreadStepSimulates ==
  ASSUME Ownership, Ownership', NEW t \in Threads, ThreadStep(t)
  PROVE  Simulates
<1> USE DEF Goto, Told
<1>1. TypeOK /\ TypeOK' /\ mtx \in PMutex /\ held \in [Threads -> Nat]
      /\ pc \in [Threads -> {"idle", "lock", "clocklock", "lockfail", "clocklockfail", "dead"}]
      /\ HeldIsOwned /\ RawUntouched /\ Repairing
  BY DEF Ownership, TypeOK
<1>2. Idle(t) \/ pc[t] \notin {"idle", "dead"} => mtx.life # "raw"
  BY <1>1, IdleNotRaw
<1>3. ASSUME NEW u \in Threads, AL!Enter(u) \/ AL!Refuse(u) \/ AL!Ask(u) \/ AL!Leave(u)
      PROVE  Simulates
  BY <1>3 DEF Simulates, AL!Next
<1>4. ASSUME NEW r, LockRet(mtx, t, r, mtx'), r = "OK"
      PROVE  held[t] > 0 => mtx.type = "RECURSIVE"
  BY <1>1, <1>4, LockRetEffect DEF HeldIsOwned
<1>5. CASE Lock(t) \/ TryLockUntil(t)
  <2>1. pc[t] = "idle" /\ UNCHANGED held /\ \E w \in {"lock", "clocklock"} : pc' = [pc EXCEPT ![t] = w]
    BY <1>5 DEF Lock, TryLockUntil, Idle
  <2>2. {u \in Threads : pc'[u] \notin {"idle", "dead"}}
          = {u \in Threads : pc[u] \notin {"idle", "dead"}} \cup {t}
    BY <1>1, <2>1
  <2>3. {u \in Threads : pc'[u] = "dead"} = {u \in Threads : pc[u] = "dead"}
    BY <1>1, <2>1
  <2>4. AL!Ask(t)
    BY <2>1, <2>2, <2>3 DEF AL!Ask
  <2>5. QED
    BY <1>3, <2>4
<1>6. CASE LockSuccess(t)
  BY <1>2, <1>3, <1>4, <1>6, EnterStep DEF LockSuccess
<1>7. CASE LockError(t) \/ TryLockUntilError(t)
  <2>1. pc[t] \notin {"idle", "dead"} /\ UNCHANGED held
        /\ \E w \in {"lockfail", "clocklockfail"} : pc' = [pc EXCEPT ![t] = w]
    BY <1>7 DEF LockError, TryLockUntilError
  <2>2. {u \in Threads : pc'[u] \notin {"idle", "dead"}}
          = {u \in Threads : pc[u] \notin {"idle", "dead"}}
    BY <1>1, <2>1
  <2>3. {u \in Threads : pc'[u] = "dead"} = {u \in Threads : pc[u] = "dead"}
    BY <1>1, <2>1
  <2>4. QED
    BY <2>1, <2>2, <2>3 DEF Simulates, ALMap
<1>8. CASE TryLockUntilReturn(t)
  <2>1. PICK r \in TimedAnswers :
          ClockLockRet(mtx, t, r, mtx') /\ IF TimedLocked(r) THEN Told(t) ELSE UNCHANGED held
    BY <1>8 DEF TryLockUntilReturn
  <2>2. CASE r = "OK"
    <3>1. LockRet(mtx, t, r, mtx')
      BY <2>1, <2>2 DEF ClockLockRet
    <3>2. QED
      BY <1>2, <1>3, <1>4, <1>8, <2>1, <2>2, <3>1, EnterStep DEF TryLockUntilReturn, TimedLocked
  <2>3. CASE r # "OK"
    BY <1>1, <1>3, <1>8, <2>1, <2>3, RefuseStep DEF TryLockUntilReturn, TimedLocked
  <2>4. QED
    BY <2>2, <2>3
<1>9. CASE LockFailRepair(t)
  <2>1. CASE pc[t] = "lockfail"
    <3>1. held[t] = 0
      BY <1>1, <1>9, <2>1 DEF LockFailRepair, Repairs, Repairing
    <3>2. ~(held[t] > 0) /\ pc[t] # "dead" /\ mtx.life # "raw"
      BY <1>2, <2>1, <3>1
    <3>3. held' = [held EXCEPT ![t] = @ + 1] /\ pc' = [pc EXCEPT ![t] = "idle"]
      BY <1>9, <2>1 DEF LockFailRepair
    <3>4. QED
      BY <1>3, <3>2, <3>3, EnterStep
  <2>2. CASE pc[t] # "lockfail"
    BY <1>1, <1>3, <1>9, <2>2, RefuseStep DEF LockFailRepair
  <2>3. QED
    BY <2>1, <2>2
<1>10. CASE LockFailThrow(t)
  BY <1>1, <1>3, <1>10, RefuseStep DEF LockFailThrow
<1>11. CASE TryLock(t)
  <2>1. PICK r \in ReturnCodes :
          TryLockRet(mtx, t, r, mtx') /\ IF TryLocked(r) THEN Told(t) ELSE UNCHANGED held
    BY <1>11 DEF TryLock
  <2>2. UNCHANGED pc /\ pc[t] = "idle" /\ Idle(t)
    BY <1>11 DEF TryLock, Idle
  <2>3. CASE r = "OK"
    <3>1. LockRet(mtx, t, r, mtx')
      BY <2>1, <2>3 DEF TryLockRet
    <3>2. pc' = [pc EXCEPT ![t] = "idle"]
      BY <1>1, <2>2
    <3>3. QED
      BY <1>2, <1>3, <1>4, <2>1, <2>2, <2>3, <3>1, <3>2, EnterStep DEF TryLocked
  <2>4. CASE r # "OK"
    BY <2>1, <2>2, <2>4 DEF TryLocked, Simulates, ALMap
  <2>5. QED
    BY <2>3, <2>4
<1>12. CASE Unlock(t)
  <2>1. UNCHANGED pc /\ pc[t] = "idle"
        /\ held' = [held EXCEPT ![t] = IF held[t] > 0 THEN held[t] - 1 ELSE 0]
    BY <1>12 DEF Unlock, Idle
  <2>2. CASE held[t] > 0
    <3>1. held' = [held EXCEPT ![t] = held[t] - 1]
      BY <2>1, <2>2
    <3>2. AL!Leave(t)
      BY <2>1, <2>2, <3>1 DEF AL!Leave
    <3>3. QED
      BY <1>3, <3>2
  <2>3. CASE ~(held[t] > 0)
    <3>1. held' = held
      BY <1>1, <2>1, <2>3
    <3>2. QED
      BY <2>1, <3>1 DEF Simulates, ALMap
  <2>4. QED
    BY <2>2, <2>3
<1>13. CASE ThreadExit(t)
  BY <1>1, <1>13, GoneStep DEF ThreadExit, Simulates, AL!Next
<1>14. QED
  BY <1>5, <1>6, <1>7, <1>8, <1>9, <1>10, <1>11, <1>12, <1>13 DEF ThreadStep, CallStep

LEMMA HandleStepSimulates ==
  ASSUME TypeOK, NEW h \in Handles, HandleStep(h)
  PROVE  Simulates
<1>1. CASE ProcessCrash(h)
  <2>1. ThreadsOf(h) \in SUBSET Threads
    BY DEF ThreadsOf
  <2>2. \E freed \in SUBSET ThreadsOf(h) : AL!End(ThreadsOf(h), freed)
    BY <1>1, <2>1, GoneStep DEF ProcessCrash
  <2>3. QED
    BY <2>1, <2>2 DEF Simulates, AL!Next
<1>2. CASE UNCHANGED <<pc, held>>
  BY <1>2 DEF Simulates, ALMap
<1>3. QED
  BY <1>1, <1>2 DEF HandleStep, Construct, ConstructThrows, OpenShm, Destruct

(* The safety half of the promise: Mutex implements AbstractLock.          *)
THEOREM ImplementsLock ==
  ASSUME CheckedOrDisciplined
  PROVE  Spec => SafePromise
<1>1. Start => AL!Init
  BY DEF Start, AL!Init
<1>2. Ownership /\ Ownership' /\ [Next]_vars => [AL!Next]_AL!vars
  <2> SUFFICES ASSUME Ownership, Ownership', [Next]_vars
               PROVE  AL!Next \/ UNCHANGED ALMap
    BY DEF ALMap, AL!vars
  <2>1. TypeOK
    BY DEF Ownership
  <2>2. CASE UNCHANGED vars
    BY <2>2 DEF vars, ALMap
  <2>3. CASE Next
    BY <2>1, <2>3, ThreadStepSimulates, HandleStepSimulates DEF Next, Simulates
  <2>4. QED
    BY <2>2, <2>3
<1>3. QED
  BY <1>1, <1>2, OwnershipHolds, PTL DEF Spec, SafePromise, AL!Spec
=============================================================================
