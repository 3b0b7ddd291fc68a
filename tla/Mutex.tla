-------------------------------- MODULE Mutex --------------------------------
(***************************************************************************)
(* Axzl::Mutex (Mutex.hpp, Mutex.cpp): one pthread mutex, the Axzl::Mutex  *)
(* objects that refer to it (one on the heap of a process, or one per      *)
(* process that maps the shared memory) and the threads that call them.    *)
(*                                                                         *)
(* held[t] is what the calls have told t: the number of Lock(), TryLock()  *)
(* and TryLockUntil() calls that reported success and that t has not       *)
(* matched with an Unlock() yet.  mtx is what is really so.  A caller that *)
(* got an exception or false believes it does not hold the mutex, as       *)
(* std::lock_guard and std::unique_lock do.                                *)
(***************************************************************************)
EXTENDS PthreadMutex, Integers

CONSTANTS
  Handles,   \* the Axzl::Mutex objects, each in a process of its own
  Origin,    \* how each is constructed: "heap", "create" or "open"
  HandleOf,  \* the object each thread calls
  Configs,   \* the configurations a constructor may be given
  Calls,     \* the locking calls the program uses, by whether the mutex is robust
  Misuse     \* may a caller unlock what it does not hold, or relock?

ASSUME HandlesAssumption ==
  /\ Origin \in [Handles -> {"heap", "create", "open"}]
  /\ HandleOf \in [Threads -> Handles]
  /\ Calls \in [BOOLEAN -> SUBSET {"Lock", "TryLock", "TryLockUntil"}]
  /\ Misuse \in BOOLEAN

-----------------------------------------------------------------------------
(* Mutex::Config and its setters.                                          *)
Config == [mType : MutexTypes, mShare : {"PRIVATE", "SHARED"},
           mSharedMemDestroy : BOOLEAN, mRobust : {"STALLED", "ROBUST"},
           mProto : Protocols, mPrioCeiling : Int]

DefaultConfig == [mType |-> "NORMAL", mShare |-> "PRIVATE",
                  mSharedMemDestroy |-> FALSE, mRobust |-> "STALLED",
                  mProto |-> "NONE", mPrioCeiling |-> -1]

SetRecursive(c)        == [c EXCEPT !.mType = "RECURSIVE"]
SetErrorCheck(c)       == [c EXCEPT !.mType = "ERRORCHECK"]
SetRobust(c)           == [c EXCEPT !.mRobust = "ROBUST"]
SetPrioInherit(c)      == [c EXCEPT !.mProto = "INHERIT"]
SetSharedMem(c)        == [c EXCEPT !.mShare = "SHARED", !.mRobust = "ROBUST"]
SetSharedMemDestroy(c) == [c EXCEPT !.mShare = "SHARED", !.mRobust = "ROBUST",
                                    !.mSharedMemDestroy = TRUE]

ASSUME ConfigsAssumption == Configs \subseteq Config

-----------------------------------------------------------------------------
VARIABLES
  handle,   \* the members of each Axzl::Mutex
  mtx,      \* the pthread mutex mMutex points to
  pc,       \* where each thread is
  rc,       \* the failure code LockFail() was called with
  held      \* how often each thread knows it holds the mutex

vars == <<handle, mtx, pc, rc, held>>

Live(h) == handle[h].life = "live"
Running(t) == pc[t] # "dead"
Idle(t) == pc[t] = "idle" /\ Live(HandleOf[t])
ThreadsOf(h) == {t \in Threads : HandleOf[t] = h}
AttrsRobust(c) == c.mRobust = "ROBUST"

Unborn == [life |-> "unborn", mValid |-> FALSE, mRobust |-> FALSE,
           mShared |-> FALSE, mSharedCleanup |-> FALSE]

Start ==
  /\ handle = [h \in Handles |-> Unborn]
  /\ mtx = RawMutex
  /\ pc = [t \in Threads |-> "idle"]
  /\ rc = [t \in Threads |-> "OK"]
  /\ held = [t \in Threads |-> 0]

-----------------------------------------------------------------------------
(* Constructors.  Attributes() rejects a ceiling that is not a real-time   *)
(* priority (1..99); every other pthread call in it may fail too.          *)
AttributesReject(c) == c.mProto = "PROTECT" /\ c.mPrioCeiling \notin 1..99

(* The members Init() leaves.                                              *)
Constructed(c) ==
  [life |-> "live", mValid |-> TRUE, mRobust |-> AttrsRobust(c),
   mShared |-> c.mShare = "SHARED", mSharedCleanup |-> c.mSharedMemDestroy]

(* The constructors that call Init(): heap storage, or shared memory with  *)
(* create = true, which the program does to memory that is no mutex yet.   *)
Construct(h, c) ==
  /\ Origin[h] # "open" /\ handle[h].life = "unborn" /\ mtx.life = "raw"
  /\ ~AttributesReject(c)
  /\ mtx' = InitMutex(c.mType, AttrsRobust(c), c.mProto)
  /\ handle' = [handle EXCEPT ![h] = Constructed(c)]
  /\ UNCHANGED <<pc, rc, held>>

(* Init() throws: there is no object, its destructor never runs.           *)
ConstructThrows(h) ==
  /\ Origin[h] # "open" /\ handle[h].life = "unborn" /\ mtx.life = "raw"
  /\ handle' = [handle EXCEPT ![h].life = "failed"]
  /\ UNCHANGED <<mtx, pc, rc, held>>

(* OpenShm(): create = false skips Init(), so every flag keeps its default.*)
(* The opener knows the creator is done with it.                           *)
OpenShm(h) ==
  /\ Origin[h] = "open" /\ handle[h].life = "unborn" /\ mtx.life # "raw"
  /\ handle' = [handle EXCEPT ![h].life = "live"]
  /\ UNCHANGED <<mtx, pc, rc, held>>

(* ~Mutex(), once no running thread of the process is in a call or         *)
(* believes it holds the mutex.  An object that is not mShared deletes     *)
(* mMutex, an opened one the shared memory it was given: that takes the    *)
(* storage away from everybody, unless the C library notices and ends the  *)
(* process, as ProcessCrash does.                                          *)
Destruct(h) ==
  /\ Live(h)
  /\ \A t \in ThreadsOf(h) : Running(t) => pc[t] = "idle" /\ held[t] = 0
  /\ mtx' = IF ~handle[h].mShared THEN Freed(mtx)
            ELSE IF handle[h].mValid /\ handle[h].mSharedCleanup THEN Destroyed(mtx)
            ELSE mtx
  /\ handle' = [handle EXCEPT ![h].life = "gone"]
  /\ UNCHANGED <<pc, rc, held>>

-----------------------------------------------------------------------------
(* Locking.  A caller that already holds the mutex calls a waiting lock    *)
(* again only if it is recursive (or by misuse).                           *)
MayWait(t) == held[t] = 0 \/ mtx.type = "RECURSIVE" \/ Misuse

Goto(t, where) == pc' = [pc EXCEPT ![t] = where]
Told(t) == held' = [held EXCEPT ![t] = @ + 1]

(* Lock(): into pthread_mutex_lock.                                        *)
Lock(t) ==
  /\ Idle(t) /\ MayWait(t) /\ "Lock" \in Calls[mtx.robust]
  /\ Goto(t, "lock")
  /\ UNCHANGED <<handle, mtx, rc, held>>

LockSuccess(t) ==
  /\ pc[t] = "lock"
  /\ LockRet(mtx, t, "OK", mtx')
  /\ Goto(t, "idle") /\ Told(t)
  /\ UNCHANGED <<handle, rc>>

LockError(t) ==
  /\ pc[t] = "lock"
  /\ \E r \in ReturnCodes \ {"OK"} : LockRet(mtx, t, r, mtx') /\ rc' = [rc EXCEPT ![t] = r]
  /\ Goto(t, "lockfail")
  /\ UNCHANGED <<handle, held>>

(* TryLockUntil() and TryLockFor(): into pthread_mutex_clocklock.          *)
TryLockUntil(t) ==
  /\ Idle(t) /\ MayWait(t) /\ "TryLockUntil" \in Calls[mtx.robust]
  /\ Goto(t, "clocklock")
  /\ UNCHANGED <<handle, mtx, rc, held>>

(* Variants: a timeout counts as locked; success is never noted.           *)
TimedLockedLate(r)  == r \in {"OK", "ETIMEDOUT"}
TimedLockedNever(r) == FALSE

(* The codes TryLockUntil() answers itself, and what it answers.           *)
TimedAnswers == {"OK", "ETIMEDOUT"}
TimedLocked(r) == r = "OK"

TryLockUntilReturn(t) ==
  /\ pc[t] = "clocklock"
  /\ \E r \in TimedAnswers :
       /\ ClockLockRet(mtx, t, r, mtx')
       /\ IF TimedLocked(r) THEN Told(t) ELSE UNCHANGED held
  /\ Goto(t, "idle")
  /\ UNCHANGED <<handle, rc>>

TryLockUntilError(t) ==
  /\ pc[t] = "clocklock"
  /\ \E r \in ReturnCodes \ TimedAnswers :
       ClockLockRet(mtx, t, r, mtx') /\ rc' = [rc EXCEPT ![t] = r]
  /\ Goto(t, "clocklockfail")
  /\ UNCHANGED <<handle, held>>

(* Variant: EOWNERDEAD is a failure like any other.                        *)
RepairsNever(t) == FALSE

(* LockFail() repairs a mutex whose owner died, in objects that know it is *)
(* robust; when the repair fails it throws like for any other code.        *)
Repairs(t) == rc[t] = "EOWNERDEAD" /\ handle[HandleOf[t]].mRobust

(* Variant: Lock() returns without pthread_mutex_consistent.               *)
LockFailForgets(t) ==
  /\ pc[t] \in {"lockfail", "clocklockfail"}
  /\ Repairs(t)
  /\ IF pc[t] = "lockfail" THEN Told(t) ELSE UNCHANGED held
  /\ Goto(t, "idle") /\ rc' = [rc EXCEPT ![t] = "OK"]
  /\ UNCHANGED <<handle, mtx>>

(* Lock() returns after LockFail() did: the caller holds the mutex.        *)
(* TryLockUntil() returns locked, which is still false.                    *)
LockFailRepair(t) ==
  /\ pc[t] \in {"lockfail", "clocklockfail"}
  /\ Repairs(t) /\ ConsistentRet(mtx, "OK", mtx')
  /\ IF pc[t] = "lockfail" THEN Told(t) ELSE UNCHANGED held
  /\ Goto(t, "idle") /\ rc' = [rc EXCEPT ![t] = "OK"]
  /\ UNCHANGED handle

LockFailThrow(t) ==
  /\ pc[t] \in {"lockfail", "clocklockfail"}
  /\ Repairs(t) => ConsistentRet(mtx, "EINVAL", mtx)
  /\ Goto(t, "idle") /\ rc' = [rc EXCEPT ![t] = "OK"]
  /\ UNCHANGED <<handle, mtx, held>>

(* Variant: only EBUSY is false.                                           *)
TryLockedUnlessBusy(r) == r # "EBUSY"

(* TryLock(): any code but 0 is false.                                     *)
TryLocked(r) == r = "OK"

TryLock(t) ==
  /\ Idle(t) /\ "TryLock" \in Calls[mtx.robust]
  /\ \E r \in ReturnCodes :
       /\ TryLockRet(mtx, t, r, mtx')
       /\ IF TryLocked(r) THEN Told(t) ELSE UNCHANGED held
  /\ UNCHANGED <<handle, pc, rc>>

(* Variant: an Unlock() that matches nothing counts as well.               *)
UnlockUnmatched(t) ==
  /\ Idle(t) /\ (held[t] > 0 \/ Misuse)
  /\ \E r \in ReturnCodes : UnlockRet(mtx, t, r, mtx')
  /\ held' = [held EXCEPT ![t] = @ - 1]
  /\ UNCHANGED <<handle, pc, rc>>

(* Unlock().  Whether it returns or UnlockFail() throws, the caller is     *)
(* done with one acquisition.                                              *)
Unlock(t) ==
  /\ Idle(t) /\ (held[t] > 0 \/ Misuse)
  /\ \E r \in ReturnCodes : UnlockRet(mtx, t, r, mtx')
  /\ held' = [held EXCEPT ![t] = IF @ > 0 THEN @ - 1 ELSE 0]
  /\ UNCHANGED <<handle, pc, rc>>

-----------------------------------------------------------------------------
(* Threads end, with or without the mutex, and processes crash.  A thread  *)
(* that ends holding a mutex that is not robust holds it for ever.         *)
End(dead) ==
  /\ mtx' = OwnersGone(mtx, dead)
  /\ pc' = [t \in Threads |-> IF t \in dead THEN "dead" ELSE pc[t]]
  /\ rc' = [t \in Threads |-> IF t \in dead THEN "OK" ELSE rc[t]]
  /\ held' = [t \in Threads |-> IF t \in dead /\ mtx.robust THEN 0 ELSE held[t]]

ThreadExit(t) ==
  /\ Idle(t)
  /\ End({t})
  /\ UNCHANGED handle

(* A process of a shared mutex dies at any point of any call.  When the    *)
(* only process of a heap mutex dies nothing is left to model.             *)
ProcessCrash(h) ==
  /\ Origin[h] # "heap" /\ Live(h)
  /\ End(ThreadsOf(h))
  /\ handle' = [handle EXCEPT ![h].life = "gone"]

-----------------------------------------------------------------------------
HandleStep(h) ==
  \/ \E c \in Configs : Construct(h, c)
  \/ ConstructThrows(h)
  \/ OpenShm(h)
  \/ Destruct(h)
  \/ ProcessCrash(h)

(* The steps a call takes by itself once it has been made.                 *)
CallStep(t) ==
  \/ LockSuccess(t) \/ LockError(t)
  \/ TryLockUntilReturn(t) \/ TryLockUntilError(t)
  \/ LockFailRepair(t) \/ LockFailThrow(t)

ThreadStep(t) ==
  \/ Lock(t) \/ TryLockUntil(t) \/ TryLock(t) \/ Unlock(t)
  \/ CallStep(t)
  \/ ThreadExit(t)

Next == (\E h \in Handles : HandleStep(h)) \/ (\E t \in Threads : ThreadStep(t))

Spec == Start /\ [][Next]_vars

(* The scheduler runs every thread whose call can return, and callers      *)
(* leave their critical sections.                                          *)
Fairness == \A t \in Threads :
  WF_vars(CallStep(t)) /\ WF_vars(held[t] > 0 /\ Unlock(t))

FairSpec == Spec /\ Fairness

-----------------------------------------------------------------------------
HandleState == [life : {"unborn", "live", "failed", "gone"}, mValid : BOOLEAN,
                mRobust : BOOLEAN, mShared : BOOLEAN, mSharedCleanup : BOOLEAN]

(* The type of every variable.                                             *)
TypeOK ==
  /\ handle \in [Handles -> HandleState]
  /\ mtx \in PMutex
  /\ pc \in [Threads -> {"idle", "lock", "clocklock", "lockfail", "clocklockfail", "dead"}]
  /\ rc \in [Threads -> ReturnCodes]
  /\ held \in [Threads -> Nat]

(* Whoever was told it holds the mutex owns it, at least that often: the   *)
(* Unlock() it owes will not be refused, and nobody else was told so.      *)
HeldIsOwned ==
  \A t \in Threads : held[t] > 0 => mtx.owner = t /\ held[t] <= mtx.count

(* Lock(), TryLock() and TryLockUntil() never tell two threads at once     *)
(* that they hold the mutex, whatever dies and whoever recovers it.        *)
MutualExclusion ==
  \A t, u \in Threads : held[t] > 0 /\ held[u] > 0 => t = u

-----------------------------------------------------------------------------
(* Why HeldIsOwned holds: the parts of an inductive invariant.             *)

(* Before a constructor has made the mutex nothing can be in a call.       *)
RawUntouched ==
  mtx.life = "raw" =>
    /\ mtx.owner = NoThread
    /\ \A h \in Handles : ~Live(h)
    /\ \A t \in Threads : pc[t] = "idle" /\ held[t] = 0

(* The mutex has the type of a configuration, and when callers may unlock  *)
(* what they do not hold it is one whose unlock checks the caller.         *)
FromConfig ==
  mtx.life # "raw" =>
    \E c \in Configs : /\ mtx.type = c.mType
                       /\ mtx.robust = AttrsRobust(c)
                       /\ mtx.proto = c.mProto

(* LockFail() was given EOWNERDEAD: its caller owns the mutex already and  *)
(* has not been told so.                                                   *)
Repairing ==
  \A t \in Threads :
    pc[t] \in {"lockfail", "clocklockfail"} /\ rc[t] = "EOWNERDEAD" =>
      mtx.owner = t /\ mtx.count = 1 /\ held[t] = 0

Ownership == TypeOK /\ HeldIsOwned /\ RawUntouched /\ FromConfig /\ Repairing

(* The programs that keep HeldIsOwned: either no caller unlocks what it    *)
(* does not hold, or every configuration has a checking unlock.            *)
CheckedOrDisciplined ==
  ~Misuse \/ \A c \in Configs :
               c.mType # "NORMAL" \/ AttrsRobust(c) \/ c.mProto = "INHERIT"

-----------------------------------------------------------------------------
(* A running thread outside a call that owns the mutex was told so, once   *)
(* for each level: nobody owns the mutex without knowing, when a false or  *)
(* an exception made it walk away.                                         *)
OwnerKnows ==
  \A t \in Threads : pc[t] = "idle" /\ mtx.owner = t => held[t] = mtx.count

(* The recovery in LockFail() comes before every Unlock(): a robust mutex  *)
(* never ends in the state no call can leave.                              *)
StaysRecoverable == mtx.health # "notrecoverable"

(* A thread that waits in Lock() waits for another thread.                 *)
NoSelfDeadlock ==
  \A t \in Threads : pc[t] = "lock" /\ MustWait(mtx, t) => mtx.owner # t

(* The destructor releases the pthread mutex or its storage only when no   *)
(* running thread owns it.                                                 *)
Releases(h) == Live(h) /\ handle'[h].life = "gone" /\ mtx'.life # mtx.life

ReleasedUnowned ==
  [][(\E h \in Handles : Releases(h)) => ~\E t \in Threads : Running(t) /\ mtx.owner = t]_vars

(* A mutex in shared memory that its creator does not destroy stays one    *)
(* for the objects of all processes: SetSharedMem() promises "NO Destroy   *)
(* on destruction".                                                        *)
SharedOutlives == \A h \in Handles : Live(h) => mtx.life = "init"

(* What Mutex promises its callers: the lock of AbstractLock.              *)
AL == INSTANCE AbstractLock WITH
        depth  <- held,
        asking <- {t \in Threads : pc[t] \notin {"idle", "dead"}},
        gone   <- {t \in Threads : pc[t] = "dead"},
        Nests  <- \E c \in Configs : c.mType = "RECURSIVE"

(* Every step of the calls, the deaths and the destructors is a step of    *)
(* that lock or none of its business.                                      *)
SafePromise == AL!Spec

(* The same, and while threads are in a call of Lock() and nobody is told  *)
(* it holds the mutex, one of them gets an answer in the end.              *)
Promise == AL!FairSpec
=============================================================================
