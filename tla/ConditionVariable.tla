-------------------------- MODULE ConditionVariable --------------------------
(***************************************************************************)
(* Axzl::ConditionVariable (ConditionVariable.hpp, .cpp): one pthread      *)
(* condition variable, the objects that refer to it, and threads that wait *)
(* on it under one mutex for items other threads publish under that mutex. *)
(*                                                                         *)
(* The items stand for whatever a caller's predicate reads: pred() is      *)
(* ready > 0, and a caller whose wait was answered "true" takes one.       *)
(* The untimed Wait() hands &mCv, a pthread_cond_t**, to                   *)
(* pthread_cond_wait: no program that calls it compiles, so it has no      *)
(* steps here.                                                             *)
(***************************************************************************)
EXTENDS PthreadMutex, FiniteSets

CONSTANTS
  Handles,   \* the ConditionVariable objects, each in a process of its own
  Origin,    \* how each is constructed: "heap", "create" or "open"
  HandleOf,  \* the object each thread calls
  Configs,   \* the configurations a constructor may be given
  Waits,     \* the WaitUntil() overloads used: "pred" and "status"
  Robust,    \* is the mutex robust?  Then threads may die.
  MaxCalls   \* bound: how many calls the threads make in all

ASSUME HandlesAssumption ==
  /\ Origin \in [Handles -> {"heap", "create", "open"}]
  /\ HandleOf \in [Threads -> Handles]
  /\ Waits \subseteq {"pred", "status"}
  /\ Robust \in BOOLEAN
  /\ MaxCalls \in Nat

(* ConditionVariable::Config and its setters.                              *)
Config == [mShare : {"PRIVATE", "SHARED"}, mSharedMemDestroy : BOOLEAN]

DefaultConfig == [mShare |-> "PRIVATE", mSharedMemDestroy |-> FALSE]

SetSharedMem(c)        == [c EXCEPT !.mShare = "SHARED"]
SetSharedMemDestroy(c) == [c EXCEPT !.mShare = "SHARED", !.mSharedMemDestroy = TRUE]

ASSUME ConfigsAssumption == Configs \subseteq Config

-----------------------------------------------------------------------------
VARIABLES
  handle,   \* the members of each object
  cv,       \* the pthread condition variable mCv points to
  mtx,      \* the mutex of the callers' locks
  ready,    \* how many items are published and not taken
  pc,       \* where each thread is
  late,     \* has the deadline of the thread's wait passed?
  wrc,      \* what woke the thread in pthread_cond_clockwait
  ret,      \* what its last wait answered
  calls     \* how many calls were made

vars == <<handle, cv, mtx, ready, pc, late, wrc, ret, calls>>

objects == <<handle, calls>>

Live(h) == handle[h].life = "live"

(* A wait with a predicate is at "test" while it evaluates it; a wait is   *)
(* "blocked" in pthread_cond_clockwait, at "wake" on its way back into the *)
(* mutex and at "answered" when it has returned or thrown.                 *)
InWait(t) == pc[t] \in {"test", "blocked", "blockedOnce", "wake", "wakeOnce"}

Unborn == [life |-> "unborn", mValid |-> FALSE, mShared |-> FALSE,
           mSharedCleanup |-> FALSE]

Start ==
  /\ handle = [h \in Handles |-> Unborn]
  /\ cv = [life |-> "raw", waiting |-> {}, woken |-> {}]
  /\ mtx = InitMutex("NORMAL", Robust, "NONE")
  /\ ready = 0
  /\ pc = [t \in Threads |-> "idle"]
  /\ late = [t \in Threads |-> FALSE]
  /\ wrc = [t \in Threads |-> "OK"]
  /\ ret = [t \in Threads |-> "none"]
  /\ calls = 0

-----------------------------------------------------------------------------
(* Constructors and the destructor.                                        *)
Constructed(c) ==
  [life |-> "live", mValid |-> TRUE, mShared |-> c.mShare = "SHARED",
   mSharedCleanup |-> c.mSharedMemDestroy]

waits == <<mtx, ready, pc, late, wrc, ret, calls>>

Construct(h, c) ==
  /\ Origin[h] # "open" /\ handle[h].life = "unborn" /\ cv.life = "raw"
  /\ cv' = [cv EXCEPT !.life = "init"]
  /\ handle' = [handle EXCEPT ![h] = Constructed(c)]
  /\ UNCHANGED waits

ConstructThrows(h) ==
  /\ Origin[h] # "open" /\ handle[h].life = "unborn" /\ cv.life = "raw"
  /\ handle' = [handle EXCEPT ![h].life = "failed"]
  /\ UNCHANGED <<cv, waits>>

(* OpenShm(): create = false skips Init(), so every flag keeps its default.*)
OpenShm(h) ==
  /\ Origin[h] = "open" /\ handle[h].life = "unborn" /\ cv.life # "raw"
  /\ handle' = [handle EXCEPT ![h].life = "live"]
  /\ UNCHANGED <<cv, waits>>

(* Does ~ConditionVariable() call pthread_cond_destroy?                    *)
Destroys(m) == m.mValid /\ (~m.mShared \/ m.mSharedCleanup)

(* The condition variable has a life; what a call does with storage that   *)
(* was freed is undefined: it has no step.                                 *)
Usable == cv.life # "freed"

(* ~ConditionVariable(), once no thread of the process is in a call.  An   *)
(* object that is not mShared deletes mCv, an opened one the shared memory *)
(* it was given: that takes the storage away from everybody, unless the C  *)
(* library notices and ends the process there.                             *)
Destruct(h) ==
  /\ Live(h)
  /\ \A t \in Threads : HandleOf[t] = h => pc[t] \in {"idle", "dead"}
  /\ \/ /\ handle[h].mShared \/ Origin[h] # "heap"
        /\ cv' = IF Usable /\ Destroys(handle[h])
                  THEN [cv EXCEPT !.life = "destroyed"] ELSE cv
     \/ /\ ~handle[h].mShared
        /\ cv' = [cv EXCEPT !.life = "freed"]
  /\ handle' = [handle EXCEPT ![h].life = "gone"]
  /\ UNCHANGED waits

-----------------------------------------------------------------------------
(* The caller's side.  A thread makes a call with the mutex locked, as     *)
(* Axzl::Mutex::Lock() leaves it: consistent.                              *)
Calling(t) ==
  /\ pc[t] = "idle" /\ Live(HandleOf[t])
  /\ calls < MaxCalls /\ calls' = calls + 1
  /\ mtx.owner = NoThread /\ mtx.health # "notrecoverable"

LockedBy(t) == OwnedBy(mtx, t, 1, "consistent")

Goto(t, where) == pc' = [pc EXCEPT ![t] = where]
Answer(t, what) == ret' = [ret EXCEPT ![t] = what] /\ Goto(t, "answered")

(* pthread_cond_clockwait releases the mutex m and blocks, in one step.    *)
Block(t, m, where) ==
  /\ Usable
  /\ UnlockRet(m, t, "OK", mtx')
  /\ cv' = [cv EXCEPT !.waiting = @ \cup {t}]
  /\ Goto(t, where)

(* Variant: blocks before it evaluates the predicate.                      *)
WaitUntilPredBlocks(t) ==
  /\ "pred" \in Waits /\ Calling(t)
  /\ Block(t, LockedBy(t), "blocked")
  /\ late' = [late EXCEPT ![t] = FALSE]
  /\ UNCHANGED <<handle, ready, wrc, ret>>

(* WaitUntil(lock, timeoutTp, pred), WaitFor(lock, duration, pred).        *)
WaitUntilPred(t) ==
  /\ "pred" \in Waits /\ Calling(t)
  /\ mtx' = LockedBy(t)
  /\ Goto(t, "test")
  /\ late' = [late EXCEPT ![t] = FALSE]
  /\ UNCHANGED <<handle, cv, ready, wrc, ret>>

(* Variant: leaves the loop whatever the predicate says.                   *)
PredIgnored(t) ==
  /\ pc[t] = "test"
  /\ Answer(t, "true")
  /\ UNCHANGED <<objects, cv, mtx, ready, late, wrc>>

(* while ((predReturn = pred()) == false): true leaves the loop,           *)
PredTrue(t) ==
  /\ pc[t] = "test" /\ ready > 0
  /\ Answer(t, "true")
  /\ UNCHANGED <<objects, cv, mtx, ready, late, wrc>>

(* false blocks.                                                           *)
PredFalse(t) ==
  /\ pc[t] = "test" /\ ready = 0
  /\ Block(t, mtx, "blocked")
  /\ UNCHANGED <<objects, ready, late, wrc, ret>>

(* WaitUntil(lock, timeoutTp), WaitFor(lock, duration): blocks once.       *)
WaitUntilStatus(t) ==
  /\ "status" \in Waits /\ Calling(t)
  /\ Block(t, LockedBy(t), "blockedOnce")
  /\ late' = [late EXCEPT ![t] = FALSE]
  /\ UNCHANGED <<handle, ready, wrc, ret>>

(* Inside pthread_cond_clockwait: a notification, the deadline or nothing  *)
(* at all ends the blocking.                                               *)
Awake(t, code) ==
  /\ Usable
  /\ pc[t] \in {"blocked", "blockedOnce"}
  /\ Goto(t, IF pc[t] = "blocked" THEN "wake" ELSE "wakeOnce")
  /\ cv' = [cv EXCEPT !.waiting = @ \ {t}, !.woken = @ \ {t}]
  /\ wrc' = [wrc EXCEPT ![t] = code]
  /\ UNCHANGED <<objects, mtx, ready, late, ret>>

Notified(t) == t \in cv.woken /\ Awake(t, "OK")
Spurious(t) == t \in cv.waiting /\ Awake(t, "OK")
TimedOut(t) == t \in cv.waiting /\ late[t] /\ Awake(t, "ETIMEDOUT")

DeadlinePasses(t) ==
  /\ InWait(t) /\ ~late[t]
  /\ late' = [late EXCEPT ![t] = TRUE]
  /\ UNCHANGED <<objects, cv, mtx, ready, pc, wrc, ret>>

(* ... which returns the failure of locking the mutex again, if any.       *)
ClockWaitRet(t, r) ==
  \E l \in ReturnCodes :
    LockRet(mtx, t, l, mtx') /\ r = IF l = "OK" THEN wrc[t] ELSE l

(* Variants: an `if' where the `while' is; a loop that ETIMEDOUT does not  *)
(* break; failures taken for wake-ups; wake-ups taken for timeouts.        *)
AfterWaitOnce(t, r) ==
  \/ r = "OK" /\ Answer(t, "true")
  \/ r = "ETIMEDOUT" /\ Answer(t, "false")
  \/ r \notin {"OK", "ETIMEDOUT"} /\ Answer(t, "thrown")

AfterWaitAgain(t, r) ==
  \/ r \in {"OK", "ETIMEDOUT"} /\ Goto(t, "test") /\ UNCHANGED ret
  \/ r \notin {"OK", "ETIMEDOUT"} /\ Answer(t, "thrown")

AfterWaitNoThrow(t, r) ==
  \/ r # "ETIMEDOUT" /\ Goto(t, "test") /\ UNCHANGED ret
  \/ r = "ETIMEDOUT" /\ Answer(t, "false")

AfterWaitEarly(t, r) ==
  \/ r \in {"OK", "ETIMEDOUT"} /\ Answer(t, "false")
  \/ r \notin {"OK", "ETIMEDOUT"} /\ Answer(t, "thrown")

(* The loop: rc == 0 continues, ETIMEDOUT breaks with the predReturn that  *)
(* was read before the wait, anything else throws.                         *)
AfterWait(t, r) ==
  \/ r = "OK" /\ Goto(t, "test") /\ UNCHANGED ret
  \/ r = "ETIMEDOUT" /\ Answer(t, "false")
  \/ r \notin {"OK", "ETIMEDOUT"} /\ Answer(t, "thrown")

WaitUntilPredWakes(t) ==
  /\ pc[t] = "wake"
  /\ \E r \in ReturnCodes : ClockWaitRet(t, r) /\ AfterWait(t, r)
  /\ UNCHANGED <<objects, cv, ready, late, wrc>>

StatusOf(r) == IF r = "OK" THEN "NoTimeout" ELSE
               IF r = "ETIMEDOUT" THEN "Timeout" ELSE "failed"

WaitUntilStatusWakes(t) ==
  /\ pc[t] = "wakeOnce"
  /\ \E r \in ReturnCodes : ClockWaitRet(t, r) /\ Answer(t, StatusOf(r))
  /\ UNCHANGED <<objects, cv, ready, late, wrc>>

(* The caller takes an item if it was told there is one, and its lock      *)
(* unlocks the mutex.                                                      *)
Leave(t) ==
  /\ pc[t] = "answered"
  /\ ready' = IF ret[t] = "true" THEN ready - 1 ELSE ready
  /\ \E r \in ReturnCodes : UnlockRet(mtx, t, r, mtx')
  /\ Goto(t, "idle")
  /\ UNCHANGED <<objects, cv, late, wrc, ret>>

(* A publisher adds an item with the mutex locked, unlocks, and notifies.  *)
Publish(t) ==
  /\ Calling(t)
  /\ mtx' = LockedBy(t)
  /\ ready' = ready + 1
  /\ Goto(t, "publishing")
  /\ UNCHANGED <<handle, cv, late, wrc, ret>>

Published(t) ==
  /\ pc[t] = "publishing"
  /\ UnlockRet(mtx, t, "OK", mtx')
  /\ Goto(t, "published")
  /\ UNCHANGED <<objects, cv, ready, late, wrc, ret>>

Wake(some) == Usable /\ cv' = [cv EXCEPT !.waiting = @ \ some, !.woken = @ \cup some]

(* NotifyOne(): pthread_cond_signal wakes one blocked thread, if any.      *)
NotifyOne(t) ==
  /\ pc[t] = "published"
  /\ IF cv.waiting = {} THEN Wake({}) ELSE \E w \in cv.waiting : Wake({w})
  /\ Goto(t, "idle")
  /\ UNCHANGED <<objects, mtx, ready, late, wrc, ret>>

(* NotifyAll(): pthread_cond_broadcast wakes them all.                     *)
NotifyAll(t) ==
  /\ pc[t] = "published"
  /\ Wake(cv.waiting)
  /\ Goto(t, "idle")
  /\ UNCHANGED <<objects, mtx, ready, late, wrc, ret>>

(* A thread dies anywhere; the kernel hands its robust mutex on.           *)
Dies(t) ==
  /\ Robust /\ pc[t] # "dead" /\ Live(HandleOf[t])
  /\ mtx' = OwnersGone(mtx, {t})
  /\ cv' = [cv EXCEPT !.waiting = @ \ {t}, !.woken = @ \ {t}]
  /\ Goto(t, "dead")
  /\ UNCHANGED <<objects, ready, late, wrc, ret>>

-----------------------------------------------------------------------------
HandleStep(h) ==
  \/ \E c \in Configs : Construct(h, c)
  \/ ConstructThrows(h)
  \/ OpenShm(h)
  \/ Destruct(h)

(* What a call does once it was made.                                      *)
CallStep(t) ==
  \/ PredTrue(t) \/ PredFalse(t)
  \/ Notified(t) \/ TimedOut(t)
  \/ WaitUntilPredWakes(t) \/ WaitUntilStatusWakes(t)
  \/ Leave(t) \/ Published(t) \/ NotifyOne(t) \/ NotifyAll(t)

ThreadStep(t) ==
  \/ WaitUntilPred(t) \/ WaitUntilStatus(t) \/ Publish(t)
  \/ CallStep(t)
  \/ Spurious(t) \/ DeadlinePasses(t) \/ Dies(t)

Next == (\E h \in Handles : HandleStep(h)) \/ (\E t \in Threads : ThreadStep(t))

Spec == Start /\ [][Next]_vars

(* The scheduler runs every thread that can run, and time passes.  A       *)
(* thread that blocks again and again after its deadline does not wake     *)
(* spuriously every time: the kernel finds its timeout passed.             *)
Fairness == \A t \in Threads :
  WF_vars(CallStep(t)) /\ WF_vars(DeadlinePasses(t)) /\ SF_vars(TimedOut(t))

FairSpec == Spec /\ Fairness

-----------------------------------------------------------------------------
(* The type of every variable.                                             *)
TypeOK ==
  /\ handle \in [Handles -> [life : {"unborn", "live", "failed", "gone"},
                             mValid : BOOLEAN, mShared : BOOLEAN,
                             mSharedCleanup : BOOLEAN]]
  /\ cv \in [life : {"raw", "init", "destroyed", "freed"},
             waiting : SUBSET Threads, woken : SUBSET Threads]
  /\ mtx \in PMutex
  /\ ready \in 0..MaxCalls
  /\ pc \in [Threads -> {"idle", "test", "blocked", "blockedOnce", "wake", "wakeOnce",
                         "answered", "publishing", "published", "dead"}]
  /\ late \in [Threads -> BOOLEAN]
  /\ wrc \in [Threads -> {"OK", "ETIMEDOUT"}]
  /\ ret \in [Threads -> {"none", "true", "false", "NoTimeout", "Timeout",
                         "thrown", "failed"}]
  /\ calls \in 0..MaxCalls

(* The caller's code runs with its lock locked: the predicate whenever     *)
(* WaitUntil() evaluates it, and the caller itself once a wait returned,   *)
(* also when the owner of the mutex dies while threads wait.               *)
RunsLocked ==
  \A t \in Threads :
    pc[t] = "test" \/ (pc[t] = "answered" /\ ret[t] \notin {"thrown", "failed"}) => mtx.owner = t

(* A wait that answers true leaves its caller with the condition it waited *)
(* for, whoever was woken or barged in between.                            *)
TrueMeansReady ==
  \A t \in Threads : pc[t] = "answered" /\ ret[t] = "true" => ready > 0

(* A wait that answers false leaves its caller without it.                 *)
FalseMeansNotReady ==
  \A t \in Threads : pc[t] = "answered" /\ ret[t] = "false" => ready = 0

(* Nobody sleeps through an item: while a thread sleeps, there is a thread *)
(* on its way to each item, or about to notify one.                        *)
OnTheWay ==
  {t \in Threads : \/ t \in cv.woken
                   \/ pc[t] = "wake" /\ wrc[t] = "OK"
                   \/ pc[t] \in {"test", "publishing", "published"}
                   \/ pc[t] = "answered" /\ ret[t] = "true"}

NoLostWakeup == cv.waiting # {} => ready <= Cardinality(OnTheWay)

(* Every timed wait comes to an end, notified or not, as long as not for   *)
(* ever other threads get the mutex first.                                 *)
WaitsEnd == \A t \in Threads : InWait(t) ~> ~InWait(t)

(* ConditionVariable is AbstractWait to its callers: a thread waits from   *)
(* the call until it leaves with the answer.  Whatever is notified, timed  *)
(* out or dies in whatever order, a thread gets an item that is there, or  *)
(* "false" no sooner than its deadline, or an error no sooner than a death.*)
Asking(t) ==
  CASE pc[t] \in {"test", "blocked", "wake"}    -> "pred"
    [] pc[t] \in {"blockedOnce", "wakeOnce"}    -> "status"
    [] pc[t] = "answered"                       ->
         IF ret[t] \in {"true", "false", "thrown"} THEN "pred" ELSE "status"
    [] OTHER                                    -> "none"

Wait == INSTANCE AbstractWait
  WITH asking <- [t \in Threads |-> Asking(t)], gone <- {t \in Threads : pc[t] = "dead"}

SafeWait == Wait!Spec

(* A condition variable in shared memory that its creator does not destroy *)
(* stays one for the objects of all processes: SetSharedMem() promises "NO *)
(* Destroy on destruction".                                                *)
SharedOutlives == \A h \in Handles : Live(h) => cv.life = "init"
=============================================================================
