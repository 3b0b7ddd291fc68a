------------------------ MODULE ConditionVariableProofs ------------------------
(***************************************************************************)
(* What a wait tells its caller, for any number of threads that wait,      *)
(* publish and die.                                                        *)
(***************************************************************************)
EXTENDS ConditionVariable, PthreadMutexProofs, FiniteSetTheorems, TLAPS

USE NoThreadAssumption, MaxCountAssumption, HandlesAssumption, ConfigsAssumption

-----------------------------------------------------------------------------
(* The callers' mutex, and what each call does to it.                      *)
Plain(m) ==
  /\ m \in PMutex /\ m.life = "init" /\ m.type = "NORMAL" /\ m.robust = Robust
  /\ m.count <= 1

LEMMA Relocks ==
  ASSUME NEW m, Plain(m), NEW t \in Threads, NEW l, NEW n, LockRet(m, t, l, n)
  PROVE  /\ Plain(n) /\ m.owner = NoThread
         /\ \/ l = "OK" /\ m.health = "consistent" /\ n.owner = t /\ n.health = "consistent"
            \/ l = "EOWNERDEAD" /\ m.health = "ownerdead" /\ n.owner = t
            \/ l = "ENOTRECOVERABLE" /\ m.health = "notrecoverable" /\ n = m
<1> USE OwnedByFields DEF Plain
<1>1. n \in PMutex
  BY LockRetType
<1>2. CASE /\ m.owner = NoThread /\ l = "OK" /\ m.health = "consistent"
           /\ n = OwnedBy(m, t, 1, "consistent")
  BY <1>1, <1>2
<1>3. CASE /\ m.owner = NoThread /\ l = "EOWNERDEAD" /\ m.health = "ownerdead"
           /\ n = OwnedBy(m, t, 1, "inconsistent")
  BY <1>1, <1>3
<1>4. CASE /\ m.owner = NoThread /\ l = "ENOTRECOVERABLE" /\ m.health = "notrecoverable"
           /\ n = m
  BY <1>4
<1>5. QED
  BY <1>2, <1>3, <1>4 DEF LockRet

LEMMA Unlocks ==
  ASSUME NEW m, Plain(m), NEW t \in Threads, NEW r, NEW n, UnlockRet(m, t, r, n)
  PROVE  /\ Plain(n)
         /\ m.owner = t => n.owner = NoThread
         /\ m.owner # t => n = m \/ ~Robust
         /\ n.health = "consistent" <=> m.health = "consistent"
<1> USE OwnedByFields DEF Plain
<1>1. n \in PMutex
  BY UnlockRetType
<1>2. CASE m.owner # t /\ Checked(m) /\ n = m
  BY <1>2
<1>3. CASE m.owner # t /\ ~Checked(m) /\ n = OwnedBy(m, NoThread, 0, m.health)
  BY <1>1, <1>3 DEF Checked
<1>4. CASE /\ m.owner = t
           /\ n = OwnedBy(m, NoThread, 0,
                    IF m.health = "inconsistent" THEN "notrecoverable" ELSE m.health)
  BY <1>1, <1>4
<1>5. m.count \in Nat
  BY DEF PMutex
<1>6. QED
  BY <1>2, <1>3, <1>4, <1>5 DEF UnlockRet

LEMMA Locks ==
  ASSUME Plain(mtx), NEW t \in Threads
  PROVE  Plain(LockedBy(t)) /\ LockedBy(t).owner = t /\ LockedBy(t).health = "consistent"
<1>1. mtx \in PMutex
  BY DEF Plain
<1>2. OwnedBy(mtx, t, 1, "consistent") \in PMutex
  BY <1>1, OwnedByType, FieldValues
<1>3. QED
  BY <1>1, <1>2, OwnedByFields DEF Plain, LockedBy

LEMMA Outlived ==
  ASSUME NEW m, Plain(m), NEW t \in Threads
  PROVE  /\ Plain(OwnersGone(m, {t}))
         /\ \/ OwnersGone(m, {t}) = m
            \/ m.owner = t /\ OwnersGone(m, {t}).owner = NoThread
<1>1. m \in PMutex
  BY DEF Plain
<1>2. OwnersGone(m, {t}) \in PMutex
  BY <1>1, OwnersGoneType
<1>3. CASE m.owner = t /\ OwnersGone(m, {t}) = OwnedBy(m, NoThread, 0, "ownerdead")
  BY <1>1, <1>2, <1>3, OwnedByFields DEF Plain
<1>4. QED
  BY <1>3 DEF OwnersGone

-----------------------------------------------------------------------------
(* Type correctness.                                                       *)
Members == [life : {"unborn", "live", "failed", "gone"}, mValid : BOOLEAN,
            mShared : BOOLEAN, mSharedCleanup : BOOLEAN]

HandleType == [Handles -> Members]

CvType == [life : {"raw", "init", "destroyed", "freed"},
           waiting : SUBSET Threads, woken : SUBSET Threads]

Wheres == {"idle", "test", "blocked", "blockedOnce", "wake", "wakeOnce", "answered",
           "publishing", "published", "dead"}

Answers == {"none", "true", "false", "NoTimeout", "Timeout", "thrown", "failed"}

LEMMA HandleStepType ==
  ASSUME TypeOK, NEW h \in Handles, HandleStep(h)
  PROVE  handle' \in HandleType /\ cv' \in CvType
<1>1. handle \in HandleType /\ cv \in CvType
  BY DEF TypeOK, HandleType, Members, CvType
<1>2. \A l \in {"init", "destroyed", "freed"} : [cv EXCEPT !.life = l] \in CvType
  BY <1>1 DEF CvType
<1>3. \A c \in Configs : [handle EXCEPT ![h] = Constructed(c)] \in HandleType
  <2>1. ASSUME NEW c \in Configs PROVE c.mSharedMemDestroy \in BOOLEAN
    BY DEF Config
  <2>2. ASSUME NEW c \in Configs PROVE Constructed(c) \in Members
    BY <2>1 DEF Constructed, Members
  <2>3. QED
    BY <1>1, <2>2 DEF HandleType
<1>4. ASSUME NEW l \in {"failed", "live"} PROVE [handle EXCEPT ![h].life = l] \in HandleType
  <2>1. [handle[h] EXCEPT !.life = l] \in Members
    BY <1>1 DEF HandleType, Members
  <2>2. QED
    BY <1>1, <2>1 DEF HandleType
<1>5. [handle EXCEPT ![h].life = "gone"] \in HandleType
  <2>1. [handle[h] EXCEPT !.life = "gone"] \in Members
    BY <1>1 DEF HandleType, Members
  <2>2. QED
    BY <1>1, <2>1 DEF HandleType
<1>6. QED
  BY <1>1, <1>2, <1>3, <1>4, <1>5
     DEF HandleStep, Construct, ConstructThrows, OpenShm, Destruct

LEMMA CvMoves ==
  ASSUME cv \in CvType, NEW t \in Threads, NEW some \in SUBSET Threads
  PROVE  /\ [cv EXCEPT !.waiting = @ \cup {t}] \in CvType
         /\ [cv EXCEPT !.waiting = @ \ {t}, !.woken = @ \ {t}] \in CvType
         /\ [cv EXCEPT !.waiting = @ \ some, !.woken = @ \cup some] \in CvType
BY DEF CvType

(* The variables a step of a thread sets for that thread.                  *)
LEMMA GotoType ==
  ASSUME pc \in [Threads -> Wheres], NEW t \in Threads, NEW x \in Wheres, Goto(t, x)
  PROVE  /\ pc' \in [Threads -> Wheres] /\ pc'[t] = x
         /\ \A u \in Threads \ {t} : pc'[u] = pc[u]
BY DEF Goto

LEMMA AnswerType ==
  ASSUME pc \in [Threads -> Wheres], ret \in [Threads -> Answers],
         NEW t \in Threads, NEW a \in Answers, Answer(t, a)
  PROVE  /\ pc' \in [Threads -> Wheres] /\ ret' \in [Threads -> Answers]
         /\ pc'[t] = "answered" /\ ret'[t] = a
         /\ \A u \in Threads \ {t} : pc'[u] = pc[u] /\ ret'[u] = ret[u]
BY GotoType DEF Answer, Wheres

Types ==
  /\ handle \in HandleType /\ cv \in CvType /\ mtx \in PMutex
  /\ pc \in [Threads -> Wheres] /\ late \in [Threads -> BOOLEAN]
  /\ wrc \in [Threads -> {"OK", "ETIMEDOUT"}] /\ ret \in [Threads -> Answers]
  /\ ready \in 0..MaxCalls /\ calls \in 0..MaxCalls

LEMMA TypesAre == TypeOK <=> Types
BY DEF TypeOK, Types, HandleType, Members, CvType, Wheres, Answers

-----------------------------------------------------------------------------
(* Who has the mutex, what the deadline and the answers have to do with    *)
(* each other, and that only deaths make a wait fail.                      *)
MutexRight == Plain(mtx)

Failed(t) == pc[t] = "answered" /\ ret[t] \in {"thrown", "failed"}

Inside(t) ==
  \/ pc[t] \in {"test", "publishing"}
  \/ pc[t] = "answered" /\ (ret[t] \in {"thrown", "failed"} => ~Robust)

LockHeld == \A t \in Threads : Inside(t) => mtx.owner = t

Deaths ==
  /\ mtx.health # "consistent" => \E u \in Threads : pc[u] = "dead"
  /\ \A t \in Threads : Failed(t) => \E u \in Threads : pc[u] = "dead"
  /\ \A u \in Threads : pc[u] = "dead" => Robust

Expired ==
  \A t \in Threads :
    \/ pc[t] \in {"wake", "wakeOnce"} /\ wrc[t] = "ETIMEDOUT"
    \/ pc[t] = "answered" /\ ret[t] \in {"false", "Timeout"}
    => late[t]

Counted == ready <= calls

Inv == Types /\ MutexRight /\ LockHeld /\ Deaths /\ Expired /\ Counted /\ TrueMeansReady


LEMMA StartInv == Start => Inv
<1> SUFFICES ASSUME Start PROVE Inv
  OBVIOUS
<1>1. /\ \A t \in Threads : pc[t] = "idle" /\ ret[t] = "none" /\ wrc[t] = "OK"
      /\ mtx = InitMutex("NORMAL", Robust, "NONE") /\ ready = 0 /\ calls = 0
  BY DEF Start
<1>2. Plain(mtx) /\ mtx.health = "consistent"
  BY <1>1, FieldValues DEF InitMutex, Plain, PMutex, MutexTypes, Protocols
<1>3. TypeOK
  <2>1. handle \in [Handles -> [life : {"unborn", "live", "failed", "gone"},
                                mValid : BOOLEAN, mShared : BOOLEAN,
                                mSharedCleanup : BOOLEAN]]
    BY DEF Start, Unborn
  <2>2. cv \in [life : {"raw", "init", "destroyed", "freed"},
                waiting : SUBSET Threads, woken : SUBSET Threads]
    BY DEF Start
  <2>3. /\ pc \in [Threads -> {"idle"}] /\ late \in [Threads -> BOOLEAN]
        /\ wrc \in [Threads -> {"OK"}] /\ ret \in [Threads -> {"none"}]
    BY DEF Start
  <2>4. QED
    BY <1>1, <1>2, <2>1, <2>2, <2>3 DEF TypeOK, Plain
<1>4. QED
  BY <1>1, <1>2, <1>3, TypesAre
     DEF Inv, MutexRight, LockHeld, Inside, Deaths, Failed, Expired, Counted, TrueMeansReady

-----------------------------------------------------------------------------
(* A step about the objects only.                                          *)
LEMMA ObjectsInv ==
  ASSUME Inv, handle' \in HandleType, cv' \in CvType, UNCHANGED waits
  PROVE  Inv'
<1> USE DEF waits
<1>1. Types'
  BY DEF Inv, Types
<1>2. MutexRight' /\ LockHeld' /\ Deaths' /\ Expired' /\ Counted' /\ TrueMeansReady'
  BY DEF Inv, MutexRight, LockHeld, Inside, Deaths, Failed, Expired, Counted, TrueMeansReady
<1>3. QED
  BY <1>1, <1>2 DEF Inv

LEMMA HandleStepInv ==
  ASSUME Inv, NEW h \in Handles, HandleStep(h)
  PROVE  Inv'
<1>1. handle' \in HandleType /\ cv' \in CvType
  BY HandleStepType, TypesAre DEF Inv
<1>2. UNCHANGED waits
  BY DEF HandleStep, Construct, ConstructThrows, OpenShm, Destruct
<1>3. QED
  BY <1>1, <1>2, ObjectsInv

(* A call that begins with the mutex locked and goes on to x with it, or   *)
(* blocks, which gives it back.                                            *)
LEMMA CallingInv ==
  ASSUME Inv, NEW t \in Threads, Calling(t), NEW x \in {"test", "publishing", "blockedOnce"},
         Goto(t, x), Plain(mtx'), mtx'.health = "consistent",
         x # "blockedOnce" => mtx'.owner = t,
         late' \in [Threads -> BOOLEAN], \A u \in Threads \ {t} : late'[u] = late[u],
         ready' \in {ready, ready + 1}, cv' \in CvType, UNCHANGED <<handle, wrc, ret>>
  PROVE  Inv'
<1>1. /\ pc' \in [Threads -> Wheres] /\ pc'[t] = x
      /\ \A u \in Threads \ {t} : pc'[u] = pc[u]
  BY GotoType DEF Inv, Types, Wheres
<1>2. pc[t] = "idle" /\ calls' = calls + 1 /\ calls < MaxCalls /\ mtx.owner = NoThread
  BY DEF Calling
<1>3. Types'
  BY <1>1, <1>2 DEF Inv, Types, Counted, Plain
<1>4. \A u \in Threads : ~Inside(u)
  BY <1>2 DEF Inv, LockHeld
<1>5. LockHeld'
  BY <1>1, <1>4 DEF LockHeld, Inside
<1>6. MutexRight' /\ Counted'
  BY <1>2 DEF Inv, MutexRight, Counted, Types
<1>7. Deaths'
  BY <1>1, <1>2 DEF Inv, Deaths, Failed
<1>8. Expired'
  BY <1>1 DEF Inv, Expired
<1>9. TrueMeansReady'
  BY <1>1 DEF Inv, TrueMeansReady, Types
<1>10. QED
  BY <1>3, <1>5, <1>6, <1>7, <1>8, <1>9 DEF Inv

(* A step of t that leaves the mutex with whoever else has it.             *)
LEMMA StepInv ==
  ASSUME Inv, Types', NEW t \in Threads, pc[t] # "dead", pc'[t] # "dead",
         \A u \in Threads \ {t} : /\ pc'[u] = pc[u] /\ ret'[u] = ret[u]
                                  /\ wrc'[u] = wrc[u] /\ late'[u] = late[u],
         Plain(mtx'), mtx'.health # "consistent" => mtx.health # "consistent",
         \A u \in Threads \ {t} : mtx.owner = u => mtx'.owner = u,
         Inside(t)' => mtx'.owner = t,
         Failed(t)' => \E u \in Threads : pc[u] = "dead",
         \/ pc'[t] \in {"wake", "wakeOnce"} /\ wrc'[t] = "ETIMEDOUT"
         \/ pc'[t] = "answered" /\ ret'[t] \in {"false", "Timeout"}
         => late'[t],
         ready' <= calls',
         \A u \in Threads : pc'[u] = "answered" /\ ret'[u] = "true" => ready' > 0
  PROVE  Inv'
<1>1. \A u \in Threads : pc'[u] = "dead" <=> pc[u] = "dead"
  OBVIOUS
<1>2. LockHeld'
  BY DEF Inv, LockHeld, Inside
<1>3. Deaths'
  BY <1>1 DEF Inv, Deaths, Failed
<1>4. Expired'
  BY DEF Inv, Expired
<1>5. MutexRight' /\ Counted' /\ TrueMeansReady'
  BY DEF MutexRight, Counted, TrueMeansReady
<1>6. QED
  BY <1>2, <1>3, <1>4, <1>5 DEF Inv

-----------------------------------------------------------------------------
(* Each step of a thread.                                                  *)
LEMMA CallInv ==
  ASSUME Inv, NEW t \in Threads, WaitUntilPred(t) \/ WaitUntilStatus(t) \/ Publish(t)
  PROVE  Inv'
<1>1. /\ Plain(LockedBy(t)) /\ LockedBy(t).owner = t /\ LockedBy(t).health = "consistent"
  BY Locks DEF Inv, MutexRight
<1>2. Calling(t) /\ cv \in CvType /\ late \in [Threads -> BOOLEAN]
  BY DEF WaitUntilPred, WaitUntilStatus, Publish, Inv, Types
<1>3. CASE WaitUntilPred(t)
  <2>1. /\ Goto(t, "test") /\ mtx' = LockedBy(t) /\ late' = [late EXCEPT ![t] = FALSE]
        /\ UNCHANGED <<handle, cv, ready, wrc, ret>>
    BY <1>3 DEF WaitUntilPred
  <2>2. QED
    BY <1>1, <1>2, <2>1, CallingInv
<1>4. CASE Publish(t)
  <2>1. /\ Goto(t, "publishing") /\ mtx' = LockedBy(t) /\ ready' = ready + 1
        /\ UNCHANGED <<handle, cv, late, wrc, ret>>
    BY <1>4 DEF Publish
  <2>2. QED
    BY <1>1, <1>2, <2>1, CallingInv
<1>5. CASE WaitUntilStatus(t)
  <2>1. /\ Goto(t, "blockedOnce") /\ UnlockRet(LockedBy(t), t, "OK", mtx')
        /\ cv' = [cv EXCEPT !.waiting = @ \cup {t}]
        /\ late' = [late EXCEPT ![t] = FALSE]
        /\ UNCHANGED <<handle, ready, wrc, ret>>
    BY <1>5 DEF WaitUntilStatus, Block
  <2>2. PICK m : m = LockedBy(t)
    OBVIOUS
  <2>3. PICK n : n = mtx'
    OBVIOUS
  <2>4. Plain(n) /\ n.health = "consistent"
    BY <1>1, <2>1, <2>2, <2>3, Unlocks
  <2>5. cv' \in CvType
    BY <1>2, <2>1, CvMoves
  <2>6. QED
    BY <1>1, <1>2, <2>1, <2>3, <2>4, <2>5, CallingInv
<1>6. QED
  BY <1>3, <1>4, <1>5

LEMMA PredTrueInv == ASSUME Inv, NEW t \in Threads, PredTrue(t) PROVE Inv'
<1>1. /\ pc' \in [Threads -> Wheres] /\ ret' \in [Threads -> Answers]
      /\ pc'[t] = "answered" /\ ret'[t] = "true"
      /\ \A u \in Threads \ {t} : pc'[u] = pc[u] /\ ret'[u] = ret[u]
  BY AnswerType DEF PredTrue, Inv, Types, Answers
<1>2. /\ pc[t] = "test" /\ ready > 0
      /\ UNCHANGED <<handle, calls, cv, mtx, ready, late, wrc>>
  BY DEF PredTrue, objects
<1>3. mtx.owner = t
  BY <1>2 DEF Inv, LockHeld, Inside
<1>4. Types' /\ ready' <= calls' /\ Plain(mtx')
  BY <1>1, <1>2 DEF Inv, Types, Counted, MutexRight
<1>5. ~Failed(t)'
  BY <1>1 DEF Failed
<1>6. QED
  BY <1>1, <1>2, <1>3, <1>4, <1>5, StepInv

LEMMA PredFalseInv == ASSUME Inv, NEW t \in Threads, PredFalse(t) PROVE Inv'
<1>1. /\ pc[t] = "test" /\ UnlockRet(mtx, t, "OK", mtx') /\ Goto(t, "blocked")
      /\ cv' = [cv EXCEPT !.waiting = @ \cup {t}]
      /\ UNCHANGED <<handle, calls, ready, late, wrc, ret>>
  BY DEF PredFalse, Block, objects
<1>2. /\ pc' \in [Threads -> Wheres] /\ pc'[t] = "blocked"
      /\ \A u \in Threads \ {t} : pc'[u] = pc[u]
  BY <1>1, GotoType DEF Inv, Types, Wheres
<1>3. mtx.owner = t /\ Plain(mtx)
  BY <1>1 DEF Inv, LockHeld, Inside, MutexRight
<1>4. PICK n : n = mtx'
  OBVIOUS
<1>5. Plain(n) /\ (n.health = "consistent" <=> mtx.health = "consistent")
  BY <1>1, <1>3, <1>4, Unlocks
<1>6. cv' \in CvType
  BY <1>1, CvMoves DEF Inv, Types
<1>7. Types' /\ ready' <= calls'
  BY <1>1, <1>2, <1>4, <1>5, <1>6 DEF Inv, Types, Counted, Plain
<1>8. ~Inside(t)' /\ ~Failed(t)'
  BY <1>2 DEF Inside, Failed
<1>9. \A u \in Threads : pc'[u] = "answered" /\ ret'[u] = "true" => ready' > 0
  BY <1>1, <1>2 DEF Inv, TrueMeansReady
<1>10. \A u \in Threads \ {t} : mtx.owner # u
  BY <1>3
<1>11. QED
  BY <1>1, <1>2, <1>4, <1>5, <1>7, <1>8, <1>9, <1>10, StepInv

(* The end of the blocking, whatever ends it.                              *)
LEMMA AwakeInv ==
  ASSUME Inv, NEW t \in Threads, NEW code \in {"OK", "ETIMEDOUT"}, Awake(t, code),
         code = "ETIMEDOUT" => late[t]
  PROVE  Inv'
<1>1. PICK x \in {"wake", "wakeOnce"} : Goto(t, x)
  BY DEF Awake
<1>2. /\ pc[t] \in {"blocked", "blockedOnce"}
      /\ cv' = [cv EXCEPT !.waiting = @ \ {t}, !.woken = @ \ {t}]
      /\ wrc' = [wrc EXCEPT ![t] = code]
      /\ UNCHANGED <<handle, calls, mtx, ready, late, ret>>
  BY DEF Awake, objects
<1>3. /\ pc' \in [Threads -> Wheres] /\ pc'[t] = x
      /\ \A u \in Threads \ {t} : pc'[u] = pc[u]
  BY <1>1, GotoType DEF Inv, Types, Wheres
<1>4. cv' \in CvType
  BY <1>2, CvMoves DEF Inv, Types
<1>5. /\ wrc' \in [Threads -> {"OK", "ETIMEDOUT"}] /\ wrc'[t] = code
      /\ \A u \in Threads \ {t} : wrc'[u] = wrc[u]
  BY <1>2 DEF Inv, Types
<1>6. Types' /\ ready' <= calls' /\ Plain(mtx')
  BY <1>2, <1>3, <1>4, <1>5 DEF Inv, Types, Counted, MutexRight
<1>7. ~Inside(t)' /\ ~Failed(t)'
  BY <1>3 DEF Inside, Failed
<1>8. \A u \in Threads : pc'[u] = "answered" /\ ret'[u] = "true" => ready' > 0
  BY <1>2, <1>3 DEF Inv, TrueMeansReady
<1>9. QED
  BY <1>2, <1>3, <1>5, <1>6, <1>7, <1>8, StepInv

LEMMA DeadlinePassesInv == ASSUME Inv, NEW t \in Threads, DeadlinePasses(t) PROVE Inv'
<1>1. /\ late' = [late EXCEPT ![t] = TRUE]
      /\ UNCHANGED <<handle, calls, cv, mtx, ready, pc, wrc, ret>>
  BY DEF DeadlinePasses, objects
<1>2. /\ late' \in [Threads -> BOOLEAN] /\ late'[t]
      /\ \A u \in Threads \ {t} : late'[u] = late[u]
  BY <1>1 DEF Inv, Types
<1>3. Types'
  BY <1>1, <1>2 DEF Inv, Types
<1>4. Expired'
  BY <1>1, <1>2 DEF Inv, Expired
<1>5. MutexRight' /\ LockHeld' /\ Deaths' /\ Counted' /\ TrueMeansReady'
  BY <1>1 DEF Inv, MutexRight, LockHeld, Inside, Deaths, Failed, Counted, TrueMeansReady
<1>6. QED
  BY <1>3, <1>4, <1>5 DEF Inv

(* pthread_cond_clockwait comes back with the mutex, or with a failure     *)
(* only a death explains.                                                  *)
LEMMA ClockWaitRets ==
  ASSUME Inv, NEW t \in Threads, NEW r, ClockWaitRet(t, r)
  PROVE  /\ Plain(mtx') /\ mtx.owner = NoThread
         /\ mtx'.health # "consistent" => mtx.health # "consistent"
         /\ r = "ENOTRECOVERABLE" \/ mtx'.owner = t
         /\ \/ r = wrc[t]
            \/ /\ r \in {"EOWNERDEAD", "ENOTRECOVERABLE"}
               /\ \E u \in Threads : pc[u] = "dead"
<1>1. PICK l \in ReturnCodes : LockRet(mtx, t, l, mtx') /\ r = IF l = "OK" THEN wrc[t] ELSE l
  BY DEF ClockWaitRet
<1>2. PICK n : n = mtx'
  OBVIOUS
<1>3. /\ Plain(n) /\ mtx.owner = NoThread
      /\ \/ l = "OK" /\ mtx.health = "consistent" /\ n.owner = t /\ n.health = "consistent"
         \/ l = "EOWNERDEAD" /\ mtx.health = "ownerdead" /\ n.owner = t
         \/ l = "ENOTRECOVERABLE" /\ mtx.health = "notrecoverable" /\ n = mtx
  BY <1>1, <1>2, Relocks DEF Inv, MutexRight
<1>4. mtx.health # "consistent" => \E u \in Threads : pc[u] = "dead"
  BY DEF Inv, Deaths
<1>5. QED
  BY <1>1, <1>2, <1>3, <1>4

LEMMA WakesInv ==
  ASSUME Inv, NEW t \in Threads, WaitUntilPredWakes(t) \/ WaitUntilStatusWakes(t)
  PROVE  Inv'
<1>1. /\ pc[t] \in {"wake", "wakeOnce"}
      /\ UNCHANGED <<handle, calls, cv, ready, late, wrc>>
  BY DEF WaitUntilPredWakes, WaitUntilStatusWakes, objects
<1>2. PICK r \in ReturnCodes :
        /\ ClockWaitRet(t, r)
        /\ \/ r = "OK" /\ Goto(t, "test") /\ UNCHANGED ret
           \/ r = "ETIMEDOUT" /\ Answer(t, "false")
           \/ r \notin {"OK", "ETIMEDOUT"} /\ Answer(t, "thrown")
           \/ Answer(t, StatusOf(r))
  BY DEF WaitUntilPredWakes, WaitUntilStatusWakes, AfterWait
<1>3. /\ Plain(mtx') /\ mtx.owner = NoThread
      /\ mtx'.health # "consistent" => mtx.health # "consistent"
      /\ r = "ENOTRECOVERABLE" \/ mtx'.owner = t
      /\ \/ r = wrc[t]
         \/ /\ r \in {"EOWNERDEAD", "ENOTRECOVERABLE"}
            /\ \E u \in Threads : pc[u] = "dead"
  BY <1>2, ClockWaitRets
<1>4. /\ pc' \in [Threads -> Wheres] /\ ret' \in [Threads -> Answers]
      /\ \A u \in Threads \ {t} : pc'[u] = pc[u] /\ ret'[u] = ret[u]
      /\ \/ pc'[t] = "test" /\ r = "OK"
         \/ pc'[t] = "answered" /\ ret'[t] = "false" /\ r = "ETIMEDOUT"
         \/ pc'[t] = "answered" /\ ret'[t] = "thrown" /\ r \notin {"OK", "ETIMEDOUT"}
         \/ pc'[t] = "answered" /\ ret'[t] = "NoTimeout" /\ r = "OK"
         \/ pc'[t] = "answered" /\ ret'[t] = "Timeout" /\ r = "ETIMEDOUT"
         \/ pc'[t] = "answered" /\ ret'[t] = "failed" /\ r \notin {"OK", "ETIMEDOUT"}
  <2>1. pc \in [Threads -> Wheres] /\ ret \in [Threads -> Answers]
    BY DEF Inv, Types
  <2>2. CASE r = "OK" /\ Goto(t, "test") /\ UNCHANGED ret
    BY <2>1, <2>2, GotoType DEF Wheres
  <2>3. CASE r = "ETIMEDOUT" /\ Answer(t, "false")
    BY <2>1, <2>3, AnswerType DEF Answers
  <2>4. CASE r \notin {"OK", "ETIMEDOUT"} /\ Answer(t, "thrown")
    BY <2>1, <2>4, AnswerType DEF Answers
  <2>5. CASE Answer(t, StatusOf(r))
    <3>1. CASE r = "OK"
      BY <2>1, <2>5, <3>1, AnswerType DEF StatusOf, Answers
    <3>2. CASE r = "ETIMEDOUT"
      BY <2>1, <2>5, <3>2, AnswerType DEF StatusOf, Answers
    <3>3. CASE r \notin {"OK", "ETIMEDOUT"}
      BY <2>1, <2>5, <3>3, AnswerType DEF StatusOf, Answers
    <3>4. QED
      BY <3>1, <3>2, <3>3
  <2>6. QED
    BY <1>2, <2>2, <2>3, <2>4, <2>5
<1>5. Types' /\ ready' <= calls'
  BY <1>1, <1>3, <1>4 DEF Inv, Types, Counted, Plain
<1>6. wrc[t] \in {"OK", "ETIMEDOUT"} /\ NoThread # t
  BY DEF Inv, Types
<1>7. Failed(t)' => \E u \in Threads : pc[u] = "dead"
  BY <1>3, <1>4, <1>6 DEF Failed
<1>8. (pc'[t] = "answered" /\ ret'[t] \in {"false", "Timeout"}) => late'[t]
  BY <1>1, <1>3, <1>4, <1>6 DEF Inv, Expired
<1>9. Inside(t)' => mtx'.owner = t
  <2>1. (\E u \in Threads : pc[u] = "dead") => Robust
    BY DEF Inv, Deaths
  <2>2. QED
    BY <1>3, <1>4, <1>6, <2>1 DEF Inside
<1>10. \A u \in Threads : pc'[u] = "answered" /\ ret'[u] = "true" => ready' > 0
  BY <1>1, <1>4 DEF Inv, TrueMeansReady
<1>11. \A u \in Threads \ {t} : mtx.owner = u => mtx'.owner = u
  BY <1>3
<1>12. QED
  BY <1>1, <1>3, <1>4, <1>5, <1>7, <1>8, <1>9, <1>10, <1>11, StepInv

(* The unlock at the end of a call takes the mutex from nobody else.       *)
LEMMA UnlocksOwn ==
  ASSUME Inv, NEW t \in Threads, NEW r, UnlockRet(mtx, t, r, mtx'), Inside(t) \/ Failed(t)
  PROVE  /\ Plain(mtx') /\ (mtx'.health # "consistent" => mtx.health # "consistent")
         /\ \A u \in Threads \ {t} : mtx.owner = u => mtx'.owner = u
<1>1. PICK n : n = mtx'
  OBVIOUS
<1>2. /\ Plain(n)
      /\ mtx.owner # t => n = mtx \/ ~Robust
      /\ n.health = "consistent" <=> mtx.health = "consistent"
  BY <1>1, Unlocks DEF Inv, MutexRight
<1>3. mtx.owner = t \/ Robust
  BY DEF Inv, LockHeld, Deaths
<1>4. QED
  BY <1>1, <1>2, <1>3

LEMMA LeaveInv == ASSUME Inv, NEW t \in Threads, Leave(t) PROVE Inv'
<1>1. /\ pc[t] = "answered" /\ ready' = IF ret[t] = "true" THEN ready - 1 ELSE ready
      /\ Goto(t, "idle")
      /\ UNCHANGED <<handle, calls, cv, late, wrc, ret>>
  BY DEF Leave, objects
<1>2. PICK r \in ReturnCodes : UnlockRet(mtx, t, r, mtx')
  BY DEF Leave
<1>3. Inside(t) \/ Failed(t)
  BY <1>1 DEF Inside, Failed
<1>4. /\ Plain(mtx') /\ (mtx'.health # "consistent" => mtx.health # "consistent")
      /\ \A u \in Threads \ {t} : mtx.owner = u => mtx'.owner = u
  BY <1>2, <1>3, UnlocksOwn
<1>5. /\ pc' \in [Threads -> Wheres] /\ pc'[t] = "idle"
      /\ \A u \in Threads \ {t} : pc'[u] = pc[u]
  BY <1>1, GotoType DEF Inv, Types, Wheres
<1>6. ready' \in 0..MaxCalls /\ ready' <= ready
  BY <1>1 DEF Inv, Types, TrueMeansReady
<1>7. Types' /\ ready' <= calls'
  BY <1>1, <1>4, <1>5, <1>6 DEF Inv, Types, Counted, Plain
<1>8. ~Inside(t)' /\ ~Failed(t)'
  BY <1>5 DEF Inside, Failed
<1>9. \A u \in Threads : pc'[u] = "answered" /\ ret'[u] = "true" => ready' > 0
  <2>1. SUFFICES ASSUME NEW u \in Threads \ {t}, pc[u] = "answered", ret[u] = "true"
                 PROVE  ready' > 0
    BY <1>1, <1>5
  <2>2. mtx.owner = u /\ ready > 0
    BY <2>1 DEF Inv, LockHeld, Inside, TrueMeansReady
  <2>3. ret[t] # "true"
    BY <1>1, <2>1, <2>2 DEF Inv, LockHeld, Inside
  <2>4. QED
    BY <1>1, <2>2, <2>3
<1>10. QED
  BY <1>1, <1>4, <1>5, <1>7, <1>8, <1>9, StepInv

LEMMA PublishedInv == ASSUME Inv, NEW t \in Threads, Published(t) PROVE Inv'
<1>1. /\ pc[t] = "publishing" /\ UnlockRet(mtx, t, "OK", mtx') /\ Goto(t, "published")
      /\ UNCHANGED <<handle, calls, cv, ready, late, wrc, ret>>
  BY DEF Published, objects
<1>2. /\ Plain(mtx') /\ (mtx'.health # "consistent" => mtx.health # "consistent")
      /\ \A u \in Threads \ {t} : mtx.owner = u => mtx'.owner = u
  BY <1>1, UnlocksOwn DEF Inside
<1>3. /\ pc' \in [Threads -> Wheres] /\ pc'[t] = "published"
      /\ \A u \in Threads \ {t} : pc'[u] = pc[u]
  BY <1>1, GotoType DEF Inv, Types, Wheres
<1>4. Types' /\ ready' <= calls'
  BY <1>1, <1>2, <1>3 DEF Inv, Types, Counted, Plain
<1>5. ~Inside(t)' /\ ~Failed(t)'
  BY <1>3 DEF Inside, Failed
<1>6. \A u \in Threads : pc'[u] = "answered" /\ ret'[u] = "true" => ready' > 0
  BY <1>1, <1>3 DEF Inv, TrueMeansReady
<1>7. QED
  BY <1>1, <1>2, <1>3, <1>4, <1>5, <1>6, StepInv

LEMMA NotifyInv == ASSUME Inv, NEW t \in Threads, NotifyOne(t) \/ NotifyAll(t) PROVE Inv'
<1>1. /\ pc[t] = "published" /\ Goto(t, "idle")
      /\ UNCHANGED <<handle, calls, mtx, ready, late, wrc, ret>>
  BY DEF NotifyOne, NotifyAll, objects
<1>2. /\ pc' \in [Threads -> Wheres] /\ pc'[t] = "idle"
      /\ \A u \in Threads \ {t} : pc'[u] = pc[u]
  BY <1>1, GotoType DEF Inv, Types, Wheres
<1>3. cv \in CvType
  BY DEF Inv, Types
<1>4. PICK some \in SUBSET Threads : Wake(some)
  BY <1>3 DEF NotifyOne, NotifyAll, CvType
<1>5. cv' \in CvType
  BY <1>1, <1>3, <1>4, CvMoves DEF Wake
<1>6. Types' /\ ready' <= calls' /\ Plain(mtx')
  BY <1>1, <1>2, <1>5 DEF Inv, Types, Counted, MutexRight
<1>7. ~Inside(t)' /\ ~Failed(t)'
  BY <1>2 DEF Inside, Failed
<1>8. \A u \in Threads : pc'[u] = "answered" /\ ret'[u] = "true" => ready' > 0
  BY <1>1, <1>2 DEF Inv, TrueMeansReady
<1>9. QED
  BY <1>1, <1>2, <1>6, <1>7, <1>8, StepInv

LEMMA DiesInv == ASSUME Inv, NEW t \in Threads, Dies(t) PROVE Inv'
<1>1. /\ Robust /\ pc[t] # "dead" /\ mtx' = OwnersGone(mtx, {t})
      /\ cv' = [cv EXCEPT !.waiting = @ \ {t}, !.woken = @ \ {t}]
      /\ Goto(t, "dead")
      /\ UNCHANGED <<handle, calls, ready, late, wrc, ret>>
  BY DEF Dies, objects
<1>2. PICK n : n = mtx'
  OBVIOUS
<1>3. Plain(n) /\ (n = mtx \/ mtx.owner = t)
  BY <1>1, <1>2, Outlived DEF Inv, MutexRight
<1>4. /\ pc' \in [Threads -> Wheres] /\ pc'[t] = "dead"
      /\ \A u \in Threads \ {t} : pc'[u] = pc[u]
  BY <1>1, GotoType DEF Inv, Types, Wheres
<1>5. cv' \in CvType
  BY <1>1, CvMoves DEF Inv, Types
<1>6. Types' /\ MutexRight' /\ Counted'
  BY <1>1, <1>2, <1>3, <1>4, <1>5 DEF Inv, Types, Plain, MutexRight, Counted
<1>7. LockHeld'
  BY <1>1, <1>2, <1>3, <1>4 DEF Inv, LockHeld, Inside
<1>8. Deaths'
  BY <1>1, <1>4 DEF Deaths
<1>9. Expired' /\ TrueMeansReady'
  BY <1>1, <1>4 DEF Inv, Expired, TrueMeansReady
<1>10. QED
  BY <1>6, <1>7, <1>8, <1>9 DEF Inv

LEMMA ThreadStepInv == ASSUME Inv, NEW t \in Threads, ThreadStep(t) PROVE Inv'
<1>1. CASE Notified(t) \/ Spurious(t) \/ TimedOut(t)
  BY <1>1, AwakeInv DEF Notified, Spurious, TimedOut
<1>2. QED
  BY <1>1, CallInv, PredTrueInv, PredFalseInv, DeadlinePassesInv, WakesInv, LeaveInv,
     PublishedInv, NotifyInv, DiesInv DEF ThreadStep, CallStep

LEMMA StutterInv == ASSUME Inv, UNCHANGED vars PROVE Inv'
<1>1. handle' \in HandleType /\ cv' \in CvType
  BY DEF Inv, Types, vars
<1>2. QED
  BY <1>1, ObjectsInv DEF vars, waits

LEMMA NextInv == Inv /\ [Next]_vars => Inv'
BY HandleStepInv, ThreadStepInv, StutterInv DEF Next

LEMMA AlwaysInv == Spec => []Inv
BY StartInv, NextInv, PTL DEF Spec

(* Every variable of ConditionVariable has its type.                       *)
THEOREM TypeCorrect == Spec => []TypeOK
<1>1. Inv => TypeOK
  BY TypesAre DEF Inv
<1>2. QED
  BY <1>1, AlwaysInv, PTL

(* The predicate and the caller of WaitUntil() run with the lock locked,   *)
(* also when the thread that had the mutex has died meanwhile.             *)
THEOREM PredicateLocked == Spec => []RunsLocked
<1>1. Inv => RunsLocked
  BY DEF Inv, LockHeld, Inside, RunsLocked
<1>2. QED
  BY <1>1, AlwaysInv, PTL

(* WaitUntil(lock, timeoutTp, pred) answers true only with the predicate   *)
(* true, and nobody makes it false before the caller unlocks.              *)
THEOREM TrueIsTrue == Spec => []TrueMeansReady
<1>1. Inv => TrueMeansReady
  BY DEF Inv
<1>2. QED
  BY <1>1, AlwaysInv, PTL

-----------------------------------------------------------------------------
(* The refinement of AbstractWait.                                         *)
Asks  == [t \in Threads |-> Asking(t)]
Ghost == {t \in Threads : pc[t] = "dead"}

WaitMap == <<ready, Asks, late, Ghost>>

Waited == Wait!Next \/ UNCHANGED WaitMap

(* The map of a step of t, which does not die.                             *)
LEMMA StepMap ==
  ASSUME Types, NEW t \in Threads, pc' \in [Threads -> Wheres],
         pc[t] # "dead", pc'[t] # "dead",
         \A u \in Threads \ {t} : pc'[u] = pc[u] /\ ret'[u] = ret[u]
  PROVE  /\ Asks' = [Asks EXCEPT ![t] = Asking(t)'] /\ Asks[t] = Asking(t)
         /\ Ghost' = Ghost /\ t \notin Ghost
         /\ Asking(t)' = Asking(t) => Asks' = Asks
<1>1. \A u \in Threads \ {t} : Asking(u)' = Asking(u)
  BY DEF Asking
<1>2. QED
  BY <1>1 DEF Asks, Ghost

(* A call begins a wait, its deadline ahead.                               *)
LEMMA CallWaits ==
  ASSUME Inv, NEW t \in Threads, WaitUntilPred(t) \/ WaitUntilStatus(t)
  PROVE  Waited
<1>1. PICK x \in {"test", "blockedOnce"} :
        /\ Goto(t, x) /\ pc[t] = "idle"
        /\ late' = [late EXCEPT ![t] = FALSE] /\ UNCHANGED <<ready, ret>>
  BY DEF WaitUntilPred, WaitUntilStatus, Block, Calling
<1>2. /\ pc' \in [Threads -> Wheres] /\ pc'[t] = x
      /\ \A u \in Threads \ {t} : pc'[u] = pc[u]
  BY <1>1, GotoType DEF Inv, Types, Wheres
<1>3. /\ Asks' = [Asks EXCEPT ![t] = Asking(t)'] /\ Asks[t] = Asking(t)
      /\ Ghost' = Ghost /\ t \notin Ghost
  BY <1>1, <1>2, StepMap DEF Inv
<1>4. PICK k \in {"pred", "status"} : Asking(t)' = k
  BY <1>2 DEF Asking
<1>5. Asking(t) = "none"
  BY <1>1 DEF Asking
<1>6. Wait!Ask(t, k)
  BY <1>1, <1>3, <1>4, <1>5 DEF Wait!Ask, Asks, Ghost
<1>7. QED
  BY <1>6 DEF Waited, Wait!Next

LEMMA ExpiryWaits ==
  ASSUME Inv, NEW t \in Threads, DeadlinePasses(t)
  PROVE  Waited
<1>1. /\ InWait(t) /\ ~late[t] /\ late' = [late EXCEPT ![t] = TRUE]
      /\ UNCHANGED <<ready, pc, ret>>
  BY DEF DeadlinePasses
<1>2. Asks[t] # "none"
  BY <1>1 DEF Asks, Asking, InWait
<1>3. UNCHANGED <<Asks, Ghost>>
  BY <1>1 DEF Asks, Asking, Ghost
<1>4. Wait!Expire(t)
  BY <1>1, <1>2, <1>3 DEF Wait!Expire, Asks, Ghost
<1>5. QED
  BY <1>4 DEF Waited, Wait!Next

LEMMA PublishWaits ==
  ASSUME Inv, NEW t \in Threads, Publish(t)
  PROVE  Waited
<1>1. /\ pc[t] = "idle" /\ Goto(t, "publishing") /\ ready' = ready + 1
      /\ UNCHANGED <<late, ret>>
  BY DEF Publish, Calling
<1>2. /\ pc' \in [Threads -> Wheres] /\ pc'[t] = "publishing"
      /\ \A u \in Threads \ {t} : pc'[u] = pc[u]
  BY <1>1, GotoType DEF Inv, Types, Wheres
<1>3. Asking(t)' = Asking(t)
  BY <1>1, <1>2 DEF Asking
<1>4. UNCHANGED <<Asks, Ghost>>
  BY <1>1, <1>2, <1>3, StepMap DEF Inv
<1>5. Wait!Put
  BY <1>1, <1>4 DEF Wait!Put, Asks, Ghost
<1>6. QED
  BY <1>5 DEF Waited, Wait!Next

(* The answer decides how the wait ends.                                   *)
LEMMA LeaveWaits ==
  ASSUME Inv, NEW t \in Threads, Leave(t)
  PROVE  Waited
<1>1. /\ pc[t] = "answered" /\ Goto(t, "idle")
      /\ ready' = IF ret[t] = "true" THEN ready - 1 ELSE ready
      /\ UNCHANGED <<late, ret>>
  BY DEF Leave
<1>2. /\ pc' \in [Threads -> Wheres] /\ pc'[t] = "idle"
      /\ \A u \in Threads \ {t} : pc'[u] = pc[u]
  BY <1>1, GotoType DEF Inv, Types, Wheres
<1>3. Asking(t)' = "none"
  BY <1>2 DEF Asking
<1>4. /\ Asks' = [Asks EXCEPT ![t] = "none"] /\ Asks[t] = Asking(t) /\ Ghost' = Ghost
  BY <1>1, <1>2, <1>3, StepMap DEF Inv
<1>5. Asks[t] # "none" => Wait!Leave(t)
  BY <1>1, <1>4 DEF Wait!Leave, Asks, Ghost
<1>6. CASE ret[t] = "true"
  <2>1. Asks[t] = "pred"
    BY <1>1, <1>4, <1>6 DEF Asking
  <2>2. ready > 0 /\ ready' = ready - 1
    BY <1>1, <1>6 DEF Inv, TrueMeansReady
  <2>3. Wait!Take(t)
    BY <1>5, <2>1, <2>2 DEF Wait!Take, Asks
  <2>4. QED
    BY <2>3 DEF Waited, Wait!Next
<1>7. CASE ret[t] = "false"
  <2>1. Asks[t] = "pred" /\ late[t] /\ ready' = ready
    BY <1>1, <1>4, <1>7 DEF Asking, Inv, Expired
  <2>2. Wait!GiveUp(t)
    BY <1>5, <2>1 DEF Wait!GiveUp
  <2>3. QED
    BY <2>2 DEF Waited, Wait!Next
<1>8. CASE ret[t] = "thrown"
  <2>1. Asks[t] = "pred" /\ ready' = ready
    BY <1>1, <1>4, <1>8 DEF Asking
  <2>2. Ghost # {}
    BY <1>1, <1>8 DEF Inv, Deaths, Failed, Ghost
  <2>3. Wait!Fail(t)
    BY <1>5, <2>1, <2>2 DEF Wait!Fail, Ghost
  <2>4. QED
    BY <2>3 DEF Waited, Wait!Next
<1>9. CASE ret[t] \notin {"true", "false", "thrown"}
  <2>1. Asks[t] = "status" /\ ready' = ready
    BY <1>1, <1>4, <1>9 DEF Asking
  <2>2. Wait!Woken(t)
    BY <1>5, <2>1 DEF Wait!Woken, Asks
  <2>3. QED
    BY <2>2 DEF Waited, Wait!Next
<1>10. QED
  BY <1>6, <1>7, <1>8, <1>9

LEMMA DiesWaits ==
  ASSUME Inv, NEW t \in Threads, Dies(t)
  PROVE  Waited
<1>1. /\ pc[t] # "dead" /\ Goto(t, "dead") /\ UNCHANGED <<ready, late, ret>>
  BY DEF Dies
<1>2. /\ pc' \in [Threads -> Wheres] /\ pc'[t] = "dead"
      /\ \A u \in Threads \ {t} : pc'[u] = pc[u]
  BY <1>1, GotoType DEF Inv, Types, Wheres
<1>3. Asking(t)' = "none" /\ \A u \in Threads \ {t} : Asking(u)' = Asking(u)
  BY <1>1, <1>2 DEF Asking
<1>4. Asks' = [Asks EXCEPT ![t] = "none"]
  BY <1>3 DEF Asks
<1>5. t \notin Ghost /\ Ghost' = Ghost \cup {t}
  BY <1>1, <1>2 DEF Ghost
<1>6. Wait!Die(t)
  BY <1>1, <1>4, <1>5 DEF Wait!Die, Asks, Ghost
<1>7. QED
  BY <1>6 DEF Waited, Wait!Next

(* The steps inside a wait, and the notifications, are nobody's business.  *)
LEMMA QuietSteps ==
  ASSUME Inv, NEW t \in Threads,
         \/ PredTrue(t) \/ PredFalse(t) \/ Notified(t) \/ TimedOut(t) \/ Spurious(t)
         \/ WaitUntilPredWakes(t) \/ WaitUntilStatusWakes(t)
         \/ Published(t) \/ NotifyOne(t) \/ NotifyAll(t)
  PROVE  Waited
<1> USE DEF Wheres, Answers
<1>1. UNCHANGED <<ready, late>>
  BY DEF PredTrue, PredFalse, Notified, TimedOut, Spurious, Awake, WaitUntilPredWakes,
         WaitUntilStatusWakes, Published, NotifyOne, NotifyAll
<1>2. pc \in [Threads -> Wheres] /\ ret \in [Threads -> Answers]
  BY DEF Inv, Types
<1>3. /\ pc' \in [Threads -> Wheres] /\ pc[t] # "dead" /\ pc'[t] # "dead"
      /\ \A u \in Threads \ {t} : pc'[u] = pc[u] /\ ret'[u] = ret[u]
      /\ Asking(t)' = Asking(t)
  <2>1. CASE PredTrue(t)
    BY <1>2, <2>1, AnswerType DEF PredTrue, Asking
  <2>2. CASE PredFalse(t)
    <3>1. pc[t] = "test" /\ Goto(t, "blocked") /\ UNCHANGED ret
      BY <2>2 DEF PredFalse, Block
    <3>2. QED
      BY <1>2, <3>1, GotoType DEF Asking
  <2>3. CASE Notified(t) \/ TimedOut(t) \/ Spurious(t)
    <3>1. /\ pc[t] \in {"blocked", "blockedOnce"} /\ UNCHANGED ret
          /\ Goto(t, IF pc[t] = "blocked" THEN "wake" ELSE "wakeOnce")
      BY <2>3 DEF Notified, TimedOut, Spurious, Awake
    <3>2. QED
      BY <1>2, <3>1, GotoType DEF Asking
  <2>4. CASE WaitUntilPredWakes(t)
    <3>1. pc[t] = "wake" /\ \E r \in ReturnCodes : AfterWait(t, r)
      BY <2>4 DEF WaitUntilPredWakes
    <3>2. CASE Goto(t, "test") /\ UNCHANGED ret
      BY <1>2, <3>1, <3>2, GotoType DEF Asking
    <3>3. CASE \E a \in {"false", "thrown"} : Answer(t, a)
      BY <1>2, <3>1, <3>3, AnswerType DEF Asking
    <3>4. QED
      BY <3>1, <3>2, <3>3 DEF AfterWait
  <2>5. CASE WaitUntilStatusWakes(t)
    <3>1. pc[t] = "wakeOnce" /\ \E a \in {"NoTimeout", "Timeout", "failed"} : Answer(t, a)
      BY <2>5 DEF WaitUntilStatusWakes, StatusOf
    <3>2. QED
      BY <1>2, <3>1, AnswerType DEF Asking
  <2>6. CASE Published(t) \/ NotifyOne(t) \/ NotifyAll(t)
    <3>1. /\ pc[t] \in {"publishing", "published"} /\ UNCHANGED ret
          /\ \E x \in {"published", "idle"} : Goto(t, x)
      BY <2>6 DEF Published, NotifyOne, NotifyAll
    <3>2. QED
      BY <1>2, <3>1, GotoType DEF Asking
  <2>7. QED
    BY <2>1, <2>2, <2>3, <2>4, <2>5, <2>6
<1>4. UNCHANGED <<Asks, Ghost>>
  BY <1>3, StepMap DEF Inv
<1>5. QED
  BY <1>1, <1>4 DEF Waited, WaitMap

LEMMA ThreadStepWaits == ASSUME Inv, NEW t \in Threads, ThreadStep(t) PROVE Waited
BY CallWaits, ExpiryWaits, PublishWaits, LeaveWaits, DiesWaits, QuietSteps
   DEF ThreadStep, CallStep

(* ConditionVariable implements AbstractWait: whatever is notified, times  *)
(* out, barges in or dies in whatever order, a wait with a predicate ends  *)
(* with an item, no sooner than its deadline, or after a death.            *)
THEOREM ImplementsWait == Spec => SafeWait
<1>1. Start => Wait!Start
  BY DEF Start, Wait!Start, Asking
<1>2. Inv /\ [Next]_vars => [Wait!Next]_Wait!waitVars
  <2> SUFFICES ASSUME Inv, [Next]_vars PROVE Waited
    BY DEF Waited, WaitMap, Wait!waitVars, Asks, Ghost
  <2>1. CASE UNCHANGED waits \/ UNCHANGED vars
    BY <2>1 DEF vars, waits, Waited, WaitMap, Asks, Asking, Ghost
  <2>2. ASSUME NEW h \in Handles, HandleStep(h) PROVE UNCHANGED waits
    BY <2>2 DEF HandleStep, Construct, ConstructThrows, OpenShm, Destruct
  <2>3. QED
    BY <2>1, <2>2, ThreadStepWaits DEF Next
<1>3. QED
  BY <1>1, <1>2, AlwaysInv, PTL DEF Spec, SafeWait, Wait!Spec

-----------------------------------------------------------------------------
(* No lost wake-up, where nobody dies and every waiter has a predicate.    *)
Alive == ~Robust /\ "status" \notin Waits /\ IsFiniteSet(Threads)

(* Only a blocked thread is in the queue, and in one half of it.           *)
Queued(t) ==
  /\ pc[t] \notin {"blockedOnce", "wakeOnce"}
  /\ t \in cv.waiting \cup cv.woken => pc[t] = "blocked"
  /\ ~(t \in cv.waiting /\ t \in cv.woken)

Queue == \A t \in Threads : Queued(t)

Coming(t) ==
  \/ t \in cv.woken
  \/ pc[t] = "wake" /\ wrc[t] = "OK"
  \/ pc[t] \in {"test", "publishing", "published"}
  \/ pc[t] = "answered" /\ ret[t] = "true"

WaitInv == Inv /\ Queue /\ NoLostWakeup

LEMMA OnTheWayIs ==
  ASSUME IsFiniteSet(Threads)
  PROVE  /\ OnTheWay = {t \in Threads : Coming(t)}
         /\ IsFiniteSet(OnTheWay) /\ Cardinality(OnTheWay) \in Nat
<1>1. OnTheWay \in SUBSET Threads
  BY DEF OnTheWay
<1>2. QED
  BY <1>1, FS_Subset, FS_CardinalityType DEF OnTheWay, Coming

(* A step of t leaves the others where they are.                           *)
Apart(t) ==
  /\ cv' \in CvType
  /\ \A u \in Threads \ {t} :
       /\ pc'[u] = pc[u] /\ ret'[u] = ret[u] /\ wrc'[u] = wrc[u]
       /\ u \in cv'.waiting <=> u \in cv.waiting
       /\ u \in cv'.woken <=> u \in cv.woken

LEMMA OthersCome ==
  ASSUME NEW t \in Threads, Apart(t), Queue, Queued(t)'
  PROVE  /\ \A u \in Threads \ {t} : Coming(u)' <=> Coming(u)
         /\ Queue'
<1>1. \A u \in Threads \ {t} : (Coming(u)' <=> Coming(u)) /\ Queued(u)'
  BY DEF Apart, Coming, Queue, Queued
<1>2. QED
  BY <1>1 DEF Queue

(* A step that takes no item, adds none and takes nobody off the way.      *)
LEMMA KeepsComing ==
  ASSUME Alive, WaitInv, Inv', NEW t \in Threads, Apart(t), Queued(t)', ready' = ready,
         Coming(t) => Coming(t)', cv'.waiting \subseteq cv.waiting
  PROVE  WaitInv'
<1>1. Queue' /\ \A u \in Threads \ {t} : Coming(u)' <=> Coming(u)
  BY OthersCome DEF WaitInv
<1>2. IsFiniteSet(Threads)
  BY DEF Alive
<1>3. PICK S : S = OnTheWay
  OBVIOUS
<1>4. PICK N : N = OnTheWay'
  OBVIOUS
<1>5. N = {u \in Threads : Coming(u)'}
  BY <1>4 DEF OnTheWay, Coming
<1>6. IsFiniteSet(N)
  BY <1>2, <1>5, FS_Subset
<1>7. S \in SUBSET N
  BY <1>1, <1>2, <1>3, <1>5, OnTheWayIs
<1>8. Cardinality(S) <= Cardinality(N) /\ Cardinality(S) \in Nat /\ Cardinality(N) \in Nat
  BY <1>2, <1>3, <1>6, <1>7, FS_Subset, FS_CardinalityType, OnTheWayIs
<1>9. ready \in Nat
  BY DEF WaitInv, Inv, Types
<1>10. NoLostWakeup'
  <2>1. SUFFICES ASSUME cv'.waiting # {} PROVE ready' <= Cardinality(N)
    BY <1>4 DEF NoLostWakeup
  <2>2. ready <= Cardinality(S)
    BY <1>3, <2>1 DEF WaitInv, NoLostWakeup
  <2>3. QED
    BY <1>8, <1>9, <2>2
<1>11. QED
  BY <1>1, <1>10 DEF WaitInv

(* A step after which nobody sleeps, or nothing is left to sleep through.  *)
LEMMA NothingLost ==
  ASSUME Alive, Inv', Queue', cv'.waiting = {} \/ ready' = 0
  PROVE  WaitInv'
<1>1. PICK N : N = OnTheWay'
  OBVIOUS
<1>2. N \in SUBSET Threads /\ IsFiniteSet(Threads)
  BY <1>1 DEF OnTheWay, Alive
<1>3. Cardinality(N) \in Nat
  BY <1>2, FS_Subset, FS_CardinalityType
<1>4. NoLostWakeup'
  BY <1>1, <1>3 DEF NoLostWakeup
<1>5. QED
  BY <1>4 DEF WaitInv

(* The sets of the threads on the way before and after a step of t.        *)
LEMMA WayMoves ==
  ASSUME Alive, WaitInv, NEW t \in Threads, Apart(t), Queued(t)'
  PROVE  /\ Queue'
         /\ Coming(t)' => OnTheWay' = OnTheWay \cup {t}
         /\ ~Coming(t)' => OnTheWay' = OnTheWay \ {t}
         /\ t \in OnTheWay <=> Coming(t)
         /\ IsFiniteSet(OnTheWay) /\ Cardinality(OnTheWay) \in Nat
<1>1. Queue' /\ \A u \in Threads \ {t} : Coming(u)' <=> Coming(u)
  BY OthersCome DEF WaitInv
<1>2. OnTheWay = {u \in Threads : Coming(u)}
  BY DEF OnTheWay, Coming
<1>3. OnTheWay' = {u \in Threads : Coming(u)'}
  BY DEF OnTheWay, Coming
<1>4. QED
  BY <1>1, <1>2, <1>3, OnTheWayIs DEF Alive

(* The step of a thread after a goto.                                      *)
LEMMA GoesTo ==
  ASSUME Inv, NEW t \in Threads, NEW x \in Wheres, Goto(t, x),
         cv' \in CvType, UNCHANGED wrc, \A u \in Threads \ {t} : ret'[u] = ret[u],
         \A u \in Threads \ {t} : /\ u \in cv'.waiting <=> u \in cv.waiting
                                  /\ u \in cv'.woken <=> u \in cv.woken
  PROVE  Apart(t) /\ pc'[t] = x
BY GotoType DEF Inv, Types, Apart

LEMMA CallWayInv ==
  ASSUME Alive, WaitInv, Inv', NEW t \in Threads, WaitUntilPred(t) \/ PredTrue(t) \/ Published(t)
  PROVE  WaitInv'
<1> USE DEF Wheres, Answers
<1>1. /\ pc[t] \in {"idle", "test", "publishing"}
      /\ UNCHANGED <<cv, ready, wrc>>
  BY DEF WaitUntilPred, PredTrue, Published, Calling
<1>2. cv \in CvType /\ pc \in [Threads -> Wheres] /\ ret \in [Threads -> Answers]
  BY DEF WaitInv, Inv, Types
<1>3. Apart(t) /\ Coming(t)' /\ pc'[t] \in {"test", "answered", "published"}
  <2>1. CASE WaitUntilPred(t)
    <3>1. Goto(t, "test") /\ UNCHANGED ret
      BY <2>1 DEF WaitUntilPred
    <3>2. QED
      BY <1>1, <1>2, <3>1, GoesTo DEF WaitInv, Coming
  <2>2. CASE PredTrue(t)
    <3>1. Answer(t, "true")
      BY <2>2 DEF PredTrue
    <3>2. /\ pc'[t] = "answered" /\ ret'[t] = "true"
          /\ \A u \in Threads \ {t} : pc'[u] = pc[u] /\ ret'[u] = ret[u]
      BY <1>2, <3>1, AnswerType
    <3>3. QED
      BY <1>1, <1>2, <3>2 DEF Apart, Coming
  <2>3. CASE Published(t)
    <3>1. Goto(t, "published") /\ UNCHANGED ret
      BY <2>3 DEF Published
    <3>2. QED
      BY <1>1, <1>2, <3>1, GoesTo DEF WaitInv, Coming
  <2>4. QED
    BY <2>1, <2>2, <2>3
<1>4. Queued(t)'
  BY <1>1, <1>3 DEF WaitInv, Queue, Queued
<1>5. QED
  BY <1>1, <1>3, <1>4, KeepsComing

LEMMA PublishWayInv ==
  ASSUME Alive, WaitInv, Inv', NEW t \in Threads, Publish(t)
  PROVE  WaitInv'
<1>1. /\ pc[t] = "idle" /\ Goto(t, "publishing") /\ ready' = ready + 1
      /\ UNCHANGED <<cv, wrc, ret>>
  BY DEF Publish, Calling
<1>2. Apart(t) /\ pc'[t] = "publishing"
  BY <1>1, GoesTo DEF WaitInv, Inv, Types, Wheres
<1>3. Queued(t)' /\ Coming(t)' /\ ~Coming(t)
  BY <1>1, <1>2 DEF WaitInv, Queue, Queued, Coming
<1>4. PICK S : S = OnTheWay
  OBVIOUS
<1>5. /\ Queue' /\ OnTheWay' = S \cup {t} /\ t \notin S
      /\ IsFiniteSet(S) /\ Cardinality(S) \in Nat
  BY <1>2, <1>3, <1>4, WayMoves
<1>6. Cardinality(S \cup {t}) = Cardinality(S) + 1
  BY <1>5, FS_AddElement
<1>7. cv.waiting # {} => ready <= Cardinality(S)
  BY <1>4 DEF WaitInv, NoLostWakeup
<1>8. PICK N : N = S \cup {t}
  OBVIOUS
<1>9. ready \in Nat
  BY DEF WaitInv, Inv, Types
<1>10. cv'.waiting # {} => ready' <= Cardinality(N)
  BY <1>1, <1>5, <1>6, <1>7, <1>8, <1>9
<1>11. QED
  BY <1>5, <1>8, <1>10 DEF WaitInv, NoLostWakeup

LEMMA PredFalseWayInv ==
  ASSUME Alive, WaitInv, Inv', NEW t \in Threads, PredFalse(t)
  PROVE  WaitInv'
<1>1. /\ pc[t] = "test" /\ Goto(t, "blocked") /\ ready' = 0
      /\ cv' = [cv EXCEPT !.waiting = @ \cup {t}] /\ UNCHANGED <<wrc, ret>>
  BY DEF PredFalse, Block
<1>2. cv \in CvType /\ cv' \in CvType
  BY <1>1, CvMoves DEF WaitInv, Inv, Types
<1>3. cv'.waiting = cv.waiting \cup {t} /\ cv'.woken = cv.woken
  BY <1>1, <1>2 DEF CvType
<1>4. Apart(t) /\ pc'[t] = "blocked"
  BY <1>1, <1>2, <1>3, GoesTo DEF WaitInv, Wheres
<1>5. Queued(t)'
  BY <1>1, <1>3, <1>4 DEF WaitInv, Queue, Queued
<1>6. Queue'
  BY <1>4, <1>5, OthersCome DEF WaitInv
<1>7. QED
  BY <1>1, <1>6, NothingLost

LEMMA AwakeWayInv ==
  ASSUME Alive, WaitInv, Inv', NEW t \in Threads, Notified(t) \/ Spurious(t) \/ TimedOut(t)
  PROVE  WaitInv'
<1>1. PICK code \in {"OK", "ETIMEDOUT"} : Awake(t, code) /\ (code = "ETIMEDOUT" => t \in cv.waiting)
  BY DEF Notified, Spurious, TimedOut
<1>2. pc[t] = "blocked"
  BY <1>1 DEF Awake, WaitInv, Queue, Queued
<1>3. /\ Goto(t, "wake") /\ cv' = [cv EXCEPT !.waiting = @ \ {t}, !.woken = @ \ {t}]
      /\ wrc' = [wrc EXCEPT ![t] = code] /\ UNCHANGED <<ready, ret>>
  BY <1>1, <1>2 DEF Awake
<1>4. cv \in CvType /\ cv' \in CvType /\ wrc \in [Threads -> {"OK", "ETIMEDOUT"}]
  BY <1>3, CvMoves DEF WaitInv, Inv, Types
<1>5. cv'.waiting = cv.waiting \ {t} /\ cv'.woken = cv.woken \ {t}
  BY <1>3, <1>4 DEF CvType
<1>6. wrc'[t] = code /\ \A u \in Threads \ {t} : wrc'[u] = wrc[u]
  BY <1>3, <1>4
<1>7. pc'[t] = "wake" /\ \A u \in Threads \ {t} : pc'[u] = pc[u]
  BY <1>3, GotoType DEF WaitInv, Inv, Types, Wheres
<1>8. Apart(t)
  BY <1>3, <1>4, <1>5, <1>6, <1>7 DEF Apart
<1>9. Queued(t)'
  BY <1>5, <1>7 DEF Queued
<1>10. Coming(t) => Coming(t)'
  BY <1>1, <1>2, <1>6, <1>7 DEF Coming, WaitInv, Queue, Queued
<1>11. QED
  BY <1>3, <1>5, <1>8, <1>9, <1>10, KeepsComing

LEMMA WakesWayInv ==
  ASSUME Alive, WaitInv, Inv', NEW t \in Threads, WaitUntilPredWakes(t)
  PROVE  WaitInv'
<1>1. pc[t] = "wake" /\ UNCHANGED <<cv, ready, wrc>>
  BY DEF WaitUntilPredWakes
<1>2. PICK r \in ReturnCodes : ClockWaitRet(t, r) /\ AfterWait(t, r)
  BY DEF WaitUntilPredWakes
<1>3. /\ cv \in CvType /\ pc \in [Threads -> Wheres] /\ ret \in [Threads -> Answers]
      /\ wrc[t] \in {"OK", "ETIMEDOUT"}
  BY DEF WaitInv, Inv, Types
<1>4. r = wrc[t]
  BY <1>2, ClockWaitRets DEF WaitInv, Inv, Deaths, Alive
<1>5. /\ \A u \in Threads \ {t} : pc'[u] = pc[u] /\ ret'[u] = ret[u]
      /\ \/ wrc[t] = "OK" /\ pc'[t] = "test"
         \/ wrc[t] = "ETIMEDOUT" /\ pc'[t] = "answered"
  <2>1. CASE r = "OK" /\ Goto(t, "test") /\ UNCHANGED ret
    BY <1>3, <1>4, <2>1, GotoType DEF Wheres
  <2>2. CASE r = "ETIMEDOUT" /\ Answer(t, "false")
    BY <1>3, <1>4, <2>2, AnswerType DEF Answers
  <2>3. QED
    BY <1>2, <1>3, <1>4, <2>1, <2>2 DEF AfterWait
<1>6. Apart(t)
  BY <1>1, <1>3, <1>5 DEF Apart
<1>7. Queued(t)'
  BY <1>1, <1>5 DEF WaitInv, Queue, Queued
<1>8. Coming(t) => Coming(t)'
  BY <1>1, <1>5 DEF Coming, WaitInv, Queue, Queued
<1>9. QED
  BY <1>1, <1>6, <1>7, <1>8, KeepsComing

LEMMA LeaveWayInv ==
  ASSUME Alive, WaitInv, Inv', NEW t \in Threads, Leave(t)
  PROVE  WaitInv'
<1>1. /\ pc[t] = "answered" /\ Goto(t, "idle")
      /\ ready' = IF ret[t] = "true" THEN ready - 1 ELSE ready
      /\ UNCHANGED <<cv, wrc, ret>>
  BY DEF Leave
<1>2. Apart(t) /\ pc'[t] = "idle"
  BY <1>1, GoesTo DEF WaitInv, Inv, Types, Wheres
<1>3. Queued(t)' /\ ~Coming(t)' /\ (Coming(t) <=> ret[t] = "true")
  BY <1>1, <1>2 DEF WaitInv, Queue, Queued, Coming
<1>4. CASE ret[t] # "true"
  BY <1>1, <1>2, <1>3, <1>4, KeepsComing
<1>5. CASE ret[t] = "true"
  <2>1. PICK S : S = OnTheWay
    OBVIOUS
  <2>2. /\ Queue' /\ OnTheWay' = S \ {t} /\ t \in S
        /\ IsFiniteSet(S) /\ Cardinality(S) \in Nat
    BY <1>2, <1>3, <1>5, <2>1, WayMoves
  <2>3. Cardinality(S \ {t}) = Cardinality(S) - 1
    BY <2>2, FS_RemoveElement
  <2>4. cv.waiting # {} => ready <= Cardinality(S)
    BY <2>1 DEF WaitInv, NoLostWakeup
  <2>5. PICK N : N = S \ {t}
    OBVIOUS
  <2>6. ready \in Nat
    BY DEF WaitInv, Inv, Types
  <2>7. cv'.waiting # {} => ready' <= Cardinality(N)
    BY <1>1, <1>5, <2>2, <2>3, <2>4, <2>5, <2>6
  <2>8. QED
    BY <2>2, <2>5, <2>7 DEF WaitInv, NoLostWakeup
<1>6. QED
  BY <1>4, <1>5

(* Waking some threads of the queue keeps it one.                          *)
LEMMA WakeQueue ==
  ASSUME Alive, WaitInv, NEW t \in Threads, pc[t] = "published", Goto(t, "idle"),
         NEW some \in SUBSET cv.waiting, Wake(some), UNCHANGED <<wrc, ret>>
  PROVE  /\ cv'.waiting = cv.waiting \ some /\ cv'.woken = cv.woken \cup some
         /\ pc'[t] = "idle" /\ \A u \in Threads \ {t} : pc'[u] = pc[u]
         /\ t \notin cv.waiting \cup cv.woken
         /\ Queue'
<1>1. cv \in CvType /\ pc \in [Threads -> Wheres]
  BY DEF WaitInv, Inv, Types
<1>2. cv'.waiting = cv.waiting \ some /\ cv'.woken = cv.woken \cup some
  BY <1>1 DEF Wake, CvType
<1>3. pc'[t] = "idle" /\ \A u \in Threads \ {t} : pc'[u] = pc[u]
  BY <1>1, GotoType DEF Wheres
<1>4. t \notin cv.waiting \cup cv.woken
  BY DEF WaitInv, Queue, Queued
<1>5. \A u \in Threads : Queued(u)'
  BY <1>2, <1>3, <1>4 DEF WaitInv, Queue, Queued
<1>6. QED
  BY <1>2, <1>3, <1>4, <1>5 DEF Queue

LEMMA NotifyAllWayInv ==
  ASSUME Alive, WaitInv, Inv', NEW t \in Threads, NotifyAll(t)
  PROVE  WaitInv'
<1>1. pc[t] = "published" /\ Goto(t, "idle") /\ Wake(cv.waiting) /\ UNCHANGED <<wrc, ret>>
  BY DEF NotifyAll
<1>2. cv'.waiting = {} /\ Queue'
  BY <1>1, WakeQueue
<1>3. QED
  BY <1>2, NothingLost

(* pthread_cond_signal puts one waiter on the way in the notifier's place. *)
LEMMA NotifyOneWayInv ==
  ASSUME Alive, WaitInv, Inv', NEW t \in Threads, NotifyOne(t)
  PROVE  WaitInv'
<1>1. pc[t] = "published" /\ Goto(t, "idle") /\ UNCHANGED <<ready, wrc, ret>>
  BY DEF NotifyOne
<1>2. CASE cv.waiting = {}
  <2>1. Wake({})
    BY <1>2 DEF NotifyOne
  <2>2. cv'.waiting = {} /\ Queue'
    BY <1>1, <1>2, <2>1, WakeQueue
  <2>3. QED
    BY <2>2, NothingLost
<1>3. CASE cv.waiting # {}
  <2>1. PICK w \in cv.waiting : Wake({w})
    BY <1>3 DEF NotifyOne
  <2>2. /\ cv'.woken = cv.woken \cup {w}
        /\ pc'[t] = "idle" /\ \A u \in Threads \ {t} : pc'[u] = pc[u]
        /\ t \notin cv.waiting \cup cv.woken
        /\ Queue'
    BY <1>1, <2>1, WakeQueue
  <2>3. w \in Threads /\ w # t /\ pc[w] = "blocked" /\ w \notin cv.woken
    BY <2>1, <2>2 DEF WaitInv, Inv, Types, CvType, Queue, Queued
  <2>4. PICK S : S = OnTheWay
    OBVIOUS
  <2>5. S = {u \in Threads : Coming(u)} /\ IsFiniteSet(S) /\ Cardinality(S) \in Nat
    BY <2>4, OnTheWayIs DEF Alive
  <2>6. t \in S /\ w \notin S
    BY <1>1, <2>3, <2>5 DEF Coming
  <2>7. \A u \in Threads \ {t, w} : Coming(u)' <=> Coming(u)
    BY <1>1, <2>2 DEF Coming
  <2>8. ~Coming(t)' /\ Coming(w)'
    BY <2>2, <2>3 DEF Coming
  <2>9. OnTheWay' = {u \in Threads : Coming(u)'}
    BY DEF OnTheWay, Coming
  <2>10. OnTheWay' = (S \ {t}) \cup {w}
    BY <2>3, <2>5, <2>6, <2>7, <2>8, <2>9
  <2>11. IsFiniteSet(S \ {t}) /\ Cardinality(S \ {t}) = Cardinality(S) - 1
    BY <2>5, <2>6, FS_RemoveElement
  <2>12. Cardinality((S \ {t}) \cup {w}) = Cardinality(S)
    <3>1. PICK R : R = S \ {t}
      OBVIOUS
    <3>2. Cardinality(R \cup {w}) = Cardinality(R) + 1
      BY <2>6, <2>11, <3>1, FS_AddElement
    <3>3. QED
      BY <2>5, <2>11, <3>1, <3>2
  <2>13. ready <= Cardinality(S)
    BY <1>3, <2>4 DEF WaitInv, NoLostWakeup
  <2>14. PICK N : N = (S \ {t}) \cup {w}
    OBVIOUS
  <2>15. ready' <= Cardinality(N)
    BY <1>1, <2>12, <2>13, <2>14
  <2>16. QED
    BY <2>2, <2>10, <2>14, <2>15 DEF WaitInv, NoLostWakeup
<1>4. QED
  BY <1>2, <1>3

(* A step that only sets the members, the storage or the clock.            *)
LEMMA AsideWayInv ==
  ASSUME WaitInv, Inv', UNCHANGED <<ready, pc, wrc, ret>>,
         cv'.waiting = cv.waiting, cv'.woken = cv.woken
  PROVE  WaitInv'
<1>1. Queue'
  BY DEF WaitInv, Queue, Queued
<1>2. OnTheWay' = OnTheWay
  BY DEF OnTheWay
<1>3. NoLostWakeup'
  BY <1>2 DEF WaitInv, NoLostWakeup
<1>4. QED
  BY <1>1, <1>3 DEF WaitInv

LEMMA WayNext ==
  ASSUME Alive, WaitInv, [Next]_vars
  PROVE  WaitInv'
<1>1. Inv'
  BY NextInv DEF WaitInv
<1>2. CASE UNCHANGED vars
  BY <1>1, <1>2, AsideWayInv DEF vars
<1>3. ASSUME NEW h \in Handles, HandleStep(h) PROVE WaitInv'
  <2>1. UNCHANGED waits
    BY <1>3 DEF HandleStep, Construct, ConstructThrows, OpenShm, Destruct
  <2>2. cv \in CvType
    BY DEF WaitInv, Inv, Types
  <2>3. cv'.waiting = cv.waiting /\ cv'.woken = cv.woken
    BY <1>3, <2>2 DEF HandleStep, Construct, ConstructThrows, OpenShm, Destruct, CvType
  <2>4. QED
    BY <1>1, <2>1, <2>3, AsideWayInv DEF waits
<1>4. ASSUME NEW t \in Threads, ThreadStep(t) PROVE WaitInv'
  <2>1. CASE DeadlinePasses(t)
    BY <1>1, <2>1, AsideWayInv DEF DeadlinePasses
  <2>2. ~WaitUntilStatus(t) /\ ~WaitUntilStatusWakes(t) /\ ~Dies(t)
    BY DEF WaitUntilStatus, WaitUntilStatusWakes, Dies, Alive, WaitInv, Queue, Queued
  <2>3. QED
    BY <1>1, <1>4, <2>1, <2>2, CallWayInv, PublishWayInv, PredFalseWayInv, AwakeWayInv,
       WakesWayInv, LeaveWayInv, NotifyOneWayInv, NotifyAllWayInv DEF ThreadStep, CallStep
<1>5. QED
  BY <1>2, <1>3, <1>4 DEF Next

(* No thread sleeps through an item, whatever WaitUntil() and NotifyOne()  *)
(* or NotifyAll() interleave, where all waiters have a predicate and the   *)
(* publisher notifies after it has unlocked.                               *)
THEOREM WakeupsReachItems ==
  ASSUME ~Robust, "status" \notin Waits, IsFiniteSet(Threads)
  PROVE  Spec => []NoLostWakeup
<1>1. Start => WaitInv
  <2>1. SUFFICES ASSUME Start PROVE Queue /\ NoLostWakeup
    BY StartInv DEF WaitInv
  <2>2. cv.waiting = {} /\ cv.woken = {} /\ \A t \in Threads : pc[t] = "idle"
    BY <2>1 DEF Start
  <2>3. QED
    BY <2>2 DEF Queue, Queued, NoLostWakeup
<1>2. WaitInv /\ [Next]_vars => WaitInv'
  BY WayNext DEF Alive
<1>3. WaitInv => NoLostWakeup
  BY DEF WaitInv
<1>4. QED
  BY <1>1, <1>2, <1>3, PTL DEF Spec

=============================================================================
