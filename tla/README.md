# libaxzl_core in TLA+

libaxzl_core wraps pthread mutexes, condition variables and threads in C++
classes (`src/libaxzl_core`). It is a library without a main loop: everything
that is hard about it happens in the programs that call it, between threads,
between processes that share memory, and when one of them dies. This directory
models its classes, checks them with TLC and proves with TLAPS what matters most
about the mutex, the condition variable, the threads, the error policy and the
clock conversion.

Paths below are relative to `src/libaxzl_core` (`include/` or `src/`).

## 1. Inventory

| Component | State it keeps | Operations | What must be right | Here |
|---|---|---|---|---|
| Mutex (`Mutex.hpp`, `Mutex.cpp`) | pointer to the pthread mutex; flags mValid, mRobust, mShared, mSharedCleanup | `Config` setters, heap and shared constructors, `OpenShm`, destructor, `Lock`, `TryLock`, `TryLockFor/Until`, `Unlock`, `LockFail` (repair), `UnlockFail` | what a call tells its caller agrees with who owns the mutex; owners that die do not take the mutex with them; destruction frees nothing that is owned | modelled, proved |
| ConditionVariable (`.hpp`, `.cpp`) | pointer to the pthread condition variable; the same flags but mRobust | constructors, destructor, `WaitFor/Until` with and without predicate, `NotifyOne`, `NotifyAll`, untimed `Wait` | true means the predicate holds, no item is slept through, waits end, callers run locked | modelled, proved |
| Thread (`Thread.hpp`, `Thread.cpp`) | mTid, mJoin, mSched, mLog, mName | `Config`, constructor, `ThreadEntry`/`PostThreadEntryInit`, `Join`, `Detach`, moves, destructor, `UpdatePriority` | each thread joined once or detached, no access to objects that are gone, own stack, the priority asked for | modelled but for names, affinity, guard size; proved |
| Scheduler (`Scheduler.hpp`) | none | `SchedulerParams`, `IsRt` | - | a record in Thread |
| ClockUtility (`ClockUtility.hpp`) | none | `DurationToTimespec`, `ClockId` | the timespec is the deadline, before the epoch too, and overflow does no more than move it | modelled, proved |
| Error (`Error.hpp`, `Error.cpp`) | three function-local static variables: what the environment said, whether it names a policy, the policy | `Throw`, `ThrowSystemError`, `ErrorPolicy`, `ErrorEnvPolicy`, `ErrorConfiguredPolicy` | the error is logged before anybody can catch it; all errors are answered alike and every one is answered, whichever threads meet the first at once; the policy asked for is used | modelled, proved |
| Log, StdOutLog, NoLog | level, mSkipAllLogging; the stream they share | `SetLevel`, level gate, `ExpandLogMsg`, `PushEntry`, `Drain` | what was logged before a `Drain` survives an abort; lines stay whole; off is silent | modelled but for the text, `Drain` proved |
| LogManager | - | declared, no bodies | - | nothing to model |
| Likely, StringView | - | compiler hints, an alias | - | nothing to model |

How they interact. Every class logs through a shared `Log` and reports errors
through `ThrowSystemError`, that is `Throw`, which writes to the log, looks the
policy up and by default throws in the calling thread. `Error` models that way
out; the modules of the other classes take an error as an exception that
reaches the caller (in a new thread it reaches nobody: `std::terminate`). ConditionVariable waits on the pthread
mutex inside the caller's `Mutex` directly, past `Mutex::Lock()` and its
repair. Mutex and ConditionVariable turn C++ deadlines into timespecs with
ClockUtility. A new POSIX thread calls back into the Thread object that made
it, through a pointer it was given when it was made.

What is hard: interleavings of callers inside blocking calls; threads and
processes that die owning a robust mutex, at any point of any call; timeouts
racing releases, notifications and deaths; objects of several processes on one
piece of shared memory, of which only one was given the configuration; objects
that move or go away while the threads they started are still on their way to
read them; threads that meet the first error of the process at once, while the
initialisation of the policy fails. `PROJECT.json` lists each such hazard with
its line.

## 2. Modules

| Module | What it is | Extends |
|---|---|---|
| `PthreadMutex` | the POSIX mutex as the library uses it: one relation per pthread call (external) | - |
| `AbstractLock` | what a caller of Mutex is promised, without saying how | - |
| `Mutex` | Axzl::Mutex, its objects, calling threads, deaths and crashes; implements `AbstractLock` | `PthreadMutex` |
| `PthreadMutexProofs` | what the pthread calls keep and change: lemmas the proofs below share | `PthreadMutex`, TLAPS |
| `MutexProofs` | types, exclusion and refinement of `Mutex` | `Mutex`, `PthreadMutexProofs` |
| `MutexRecoveryProofs` | its recovery from the death of an owner, and what its destructor releases | `MutexProofs` |
| `AbstractWait` | what a caller of a timed wait is promised | - |
| `ConditionVariable` | Axzl::ConditionVariable with waiting and publishing callers; implements `AbstractWait` | `PthreadMutex` |
| `ConditionVariableProofs` | the theorems about `ConditionVariable` | `ConditionVariable`, `PthreadMutexProofs` |
| `Thread` | Axzl::Thread objects and the POSIX threads they start | - |
| `ThreadProofs` | who joins which thread | `Thread` |
| `ThreadSetupProofs` | the types, the object a new thread reads and the priority it gets | `ThreadProofs` |
| `Log` | Log objects, the stream they share and what of it leaves the process | - |
| `Error`, `ErrorProofs` | Throw() and the policy, with threads that log, drain and fail; the theorems | `Log` |
| `ClockUtility`, `ClockUtilityProofs` | `DurationToTimespec` and the calls that use it; the theorems | - |
| `MC*` | instances for TLC; each `.cfg` picks from the settings named there | the module |

**PthreadMutex.** A mutex is a record (life, type, robust, proto, owner, count,
health). `LockRet(m, t, rc, n)` says that a lock by t of m may return rc and
leave n; a call that has to wait is a relation nothing satisfies yet.
`health` follows the POSIX robust protocol: consistent, ownerdead (the next
locker gets EOWNERDEAD), inconsistent (it was told and has not repaired),
notrecoverable. An unlock by a stranger is refused as glibc does it, that is,
by every mutex but the plain NORMAL one. `MaxCount` is the recursion limit.
`life` tells a mutex that was destroyed, on which calls fail, from storage that
was freed: what a call does there is undefined, and no step is taken.

**Mutex.** `handle[h]` holds the members of object h, `mtx` is the pthread
mutex they point to, `pc`/`rc` follow a thread through a blocking call and into
`LockFail`, and `held[t]` is what the calls have *told* t: how many
acquisitions it believes it has. Every property is about the gap between
`held` and `mtx`. A blocking call is two steps, entering the pthread call and
its return; a failure adds the step of `LockFail`, because the thread may die
between being given EOWNERDEAD and repairing. TryLock and Unlock are one.
`TimedLocked`, `TryLocked`, `Repairs` and `Constructed` name the one-line
decisions of the code. The destructor of an object that does not know it is
shared deletes the storage of the mutex (`Freed`); of an object of OpenShm()
that is the shared memory, and nobody gets anything out of that mutex any more.

**AbstractLock** keeps who is inside and how deep, who asks, who is gone.
`Enter` needs everybody else out. The mapping is `depth <- held`,
`asking <-` threads in a call, `gone <-` dead threads.

**ConditionVariable.** The callers are modelled with it: threads wait under one
mutex for items, others publish items under it and notify after they unlocked.
`ready` stands for what the predicate reads. `pthread_cond_clockwait` is three
steps: unlock and block (atomic, as POSIX says), be woken (by a notification,
the deadline, or spuriously), lock again and return. `cv.woken` are the threads
notified that have not run yet, so other threads barge in. With `Robust`,
threads die anywhere and the relock may return EOWNERDEAD or ENOTRECOVERABLE.
The destructor frees the storage as that of Mutex does, and nobody blocks on,
wakes from or notifies what was freed (`Usable`); of an opened object the C
library may also notice the wrong pointer and end the process, which leaves the
storage as it was. A thread that was notified does
not return ETIMEDOUT, as in glibc, where a signal that a timeout took is passed
on. NoLostWakeup rests on that; POSIX would let a timeout consume a signal.

**AbstractWait** has neither mutex nor sleepers: who waits, with a predicate or
without, whether its deadline has passed, who died, how many items there are.
A wait ends with an item (`Take`), by being woken, after the deadline
(`GiveUp`), or, once somebody died, by failing. The mapping keeps `ready` and
`late`; `asking` comes from `pc` and, when the wait has been answered and the
caller has not left with the answer yet, from the answer.

**Thread.** `obj` holds the members of each object, `os` the POSIX threads
("entry" until PostThreadEntryInit has run, "body" in its function), `call` the
join, destructor or move-assignment a thread is blocked in, `want` the priority
last asked for. Joining calls are entered, join (`PthreadJoin`) and return
(`CallReturns`) in steps of their own. Objects are made and used by Main and by the
threads themselves, each by the thread that constructed it. An inherited
attribute is what `pthread_getattr_np` returns for the creator, its detach
state and stack included. A nice value out of range is an error in
`Attributes()` but not for setpriority, which takes the nearest there is
(`Clamped`); a real-time priority out of range is one for
pthread_setschedprio. An UpdatePriority() that throws leaves everything as it
was, unless the object was moved from: it still has an mTid and no log, and
logging the failure through the null pointer ends the process
(`UpdatePriorityThrows`).

**ClockUtility.** A clock that ticks, the deadline of the last call and the
timespec it handed on. `DurationCast` rounds towards zero as C++ does. The
counts of std::chrono have a width (`MinCount`, `MaxCount`); a call whose
duration or deadline does not fit overflows, signed, so any count comes out
(`over` remembers it).

**Log.** A thread's entries go into the one stream of the process in four
insertions each (`pos` is the next). `stdout[t]` counts the parts t inserted,
`out[t]` those that left the process, `drained[t]` those there were when a
Drain() returned last; `Spill` is stdio writing its buffer when it likes, and
`Abort` leaves what is out. The text is left out.

**Error** adds Throw() to Log's steps. It is the entry of the error, then
`ErrorPolicyInit` by the one thread that gets the guard of the static variable
(`guard`), the outcomes of ErrorEnvPolicy(), and `ThrowActs`. A constructor of a
static that throws resets the guard, and the next thread tries again, as C++ has
it; `envRead`, the static inside ErrorEnvPolicy(), stays. `answers` is a history
of how errors were answered. Of the builds only the two that throw compile.

Operators whose comment says *Variant* are not part of the specification.
Each is a plausible slip in the definition it precedes, and is there to show
that a property notices it (`PROJECT.json`, `mutants`).

## 3. Runs

Run `tlc -config X.cfg M` for a row; three threads (in error two), since the
interesting races are of an owner (dying or leaving), a waiter and a third that
barges in or recovers; in Error they are of two threads, one that initialises
the policy or drains and one that waits or is half-way through an entry.

| Run | Setting | Properties | Shows |
|---|---|---|---|
| mutex_heap | one object, every configuration; all calls, of a robust mutex Lock(); threads that end with it; fair | HeldIsOwned, OwnerKnows, NoSelfDeadlock, StaysRecoverable, ReleasedUnowned, Promise | told and real ownership agree; the repair keeps a robust mutex usable; no Lock() waits for its own thread; the destructor releases nothing a running thread owns; it implements the abstract lock, liveness included |
| mutex_shm | creator and two openers, crashes anywhere, callers that unlock what they do not hold; every configuration is robust | TypeOK, MutualExclusion, SafePromise | still nobody is told wrongly that it holds the mutex, until an opener's destructor frees it (section 5) |
| cv_shared | creator with two threads, opener with one, one shared variable, predicate waits | TypeOK, TrueMeansReady, NoLostWakeup | predicate waits are right under barging, spurious wake-ups and timeouts, until an opener's destructor frees the variable (section 5) |
| cv_robust | one object, robust mutex, threads die anywhere, both overloads, fair | RunsLocked, SafeWait, WaitsEnd | callers run locked after a wait, every step is one of AbstractWait, and every wait ends, through spurious and stolen wake-ups on both sides of its deadline |
| thread_moves | moves, assignments, joins, detaches, updates; real-time threads, some made detached, none with inherited attributes | OneJoiner, JoinerLogs, JoinWaits | no thread leaked, none joined twice, joins wait |
| thread_setup | no moves or detaches; priorities legal and not; unprivileged process; fair | TypeOK, EntryReadsLive, PriorityApplied, CallsReturn | threads set up from live objects, with the priority of their configuration; joins return |
| clock | both sides of the epoch, durations and time points in and out of range | DeadlineKept, ExpiresInTime | the timespec is valid always and, unless something overflowed, denotes the deadline and expires with it |
| error | a StdOutLog and a NoLog, levels and environment changing, two threads that log, drain and fail, fair | TypeOK, DrainKeeps, LoggedFirst, OneAnswer, ThrowsEnd | errors are in the stream whole before anybody catches them; a drained entry is never lost; errors are answered alike, and all of them |
| mutex_open_lock | as mutex_shm, Lock() only, no misuse | OwnerKnows **violated** | finding, section 5 |
| mutex_try | one robust mutex, Lock() and TryLock() | OwnerKnows **violated** | finding |
| cv_stale | one object, predicate waits | FalseMeansNotReady **violated** | finding |
| thread_moved_from | moves allowed | EntryReadsLive **violated** | finding |

Bounds. `MaxCount` = 2 lets a recursive mutex be locked once, nested, and at
its limit. `MaxCalls` (3 or 4 calls in all) bounds the callers of the condition
variable: a waiter, a thief and a publisher with one call to spare. Three
Thread objects and three POSIX threads (Main and two) allow a move chain, an
assignment onto a joinable object, and a thread that makes and joins its own.
Levels has one value; the configurations have a nice value up, one down and one
out of range, and a real-time priority. Seconds of four nanoseconds with readings from -9 to 9
cover two seconds on each side of the epoch and each remainder; counts of five
bits (-16 to 15) and durations from -20 to 20 overflow at both ends, by
themselves and added to the reading. Two errors (`MaxThrows`) and two entries
(`MaxEntries`) let both threads be in Throw() at once, or one fail after the
other has changed the environment, with an entry of the other under way.
Symmetry sets are
used only in runs without liveness properties, over threads of the same object
or over objects and threads that play the same part.

Deadlock is not checked: threads end, objects go away, and a thread waiting for
a plain mutex whose owner is gone waits for ever, as POSIX has it. The
waiting that must end is stated as liveness (Promise, WaitsEnd, CallsReturn,
ThrowsEnd).

Fairness. It is stated only for steps that no program decides on: `CallStep` (a
pthread call that can return, returns; the code after it runs), `Proceeds`
(the same for Thread, and functions return), `PushEntry` and `PolicyStep` (the
same for Error), `DeadlinePasses` (time passes).
That is the scheduler's doing. Two are the callers': who holds a mutex unlocks
it (or dies), and a thread function destroys its objects. All but one are *weak*.
`TimedOut` is strongly fair: a wait whose predicate is false blocks again after
its deadline, and one that a spurious wake-up ended every time before the kernel
looks at the timeout, which has passed, would never return; no scheduler does
that for ever. How often it happens, and how often a notification comes first,
stays open. A POSIX mutex is not
fair, so Promise says only that *some* asking thread gets an answer, and
WaitsEnd relies on `MaxCalls`: with endlessly many competitors one waiter could
lose every race for the mutex. In the same way ThrowsEnd relies on `MaxThrows`
where threads compete for the guard of a static whose initialisation keeps
failing. Nothing is assumed about notifications.

## 4. Proofs

For every number of threads, processes, configurations and recursion depths
(`MutexProofs`):

- `TypeCorrect`: `Spec => []TypeOK`.
- `HeldOwned`: `Spec => []HeldIsOwned`, whoever was told it holds the mutex owns it at
  least that often.
- `Exclusive`: `Spec => []MutualExclusion`.
- `ImplementsLock`: `Spec => SafePromise`, every step of Mutex is a step of
  AbstractLock or a stutter.

The last three assume `CheckedOrDisciplined`: callers unlock only what they
hold, or no configuration is a plain NORMAL mutex. Without it the claims are
false, as glibc lets a stranger unlock a plain mutex.

The argument. HeldIsOwned is not inductive: it says nothing of a thread that
pthread_mutex_lock made the owner with EOWNERDEAD and that is in `LockFail`,
nor of the time before there is a mutex, nor of which mutex it is. `Ownership`
adds exactly these: `Repairing` (a thread given EOWNERDEAD owns the mutex
once and was not told so, so telling it after the repair is right),
`RawUntouched` (before the constructor nothing is held) and `FromConfig` (the
type, robustness and protocol of the mutex are those of a configuration, so
what the assumption says of configurations holds for the mutex).
`OwnershipStep` shows that each step keeps it, from one lemma per pthread call
(`LockRetEffect`, `UnlockRetEffect`, `OwnersGoneEffect`, ...) and three per
shape of a step: `QuietStep` (ownership untouched), `AcquireStep` (the caller
is told) and `EndStep` (threads die). Exclusive follows since a mutex has one
owner. For ImplementsLock, a call that tells its caller is an `Enter`, where
HeldIsOwned before and after the step gives that all others are out.

`MutexRecoveryProofs` is about the death of owners, with the same generality:

- `OwnersKnow`: `Spec => []OwnerKnows`, who owns the mutex outside a call was told so,
  once for each level.
- `NeverUnrecoverable`: `Spec => []StaysRecoverable`, also of every program without
  misuse, whatever calls and openers it has.
- `WaitsForOthers`: `Spec => []NoSelfDeadlock`, for callers that relock only a
  recursive mutex (`~Misuse`).
- `UnownedReleases`: `Spec => ReleasedUnowned`, without openers.

Apart from that they assume `Recovers`: no configuration is robust, or a robust
mutex is locked with Lock() only and through the object that made it. That is
what the code's repair covers. TryLock() and TryLockUntil() leave their caller with a mutex they
have been given with EOWNERDEAD, and Lock() through an object of OpenShm() does
too (section 5), and OwnerKnows, NoSelfDeadlock and ReleasedUnowned are false
with them. There the mutex stays recoverable all the same, as long as callers unlock
only what they were given: `Unrepaired` says that the owner of an inconsistent
mutex was told fewer levels than it has locked, so none of its unlocks is the
last. With misuse it takes the recovery. All but WaitsForOthers assume
`CheckedOrDisciplined`, which `~Misuse` implies.

The invariant `Recovery` is `Ownership` with five more parts. `KnownOwner` says that
a running owner was told exactly `count` times or is in LockFail() after
EOWNERDEAD (`Pending`): HeldIsOwned bounds `held` from one side only, and an owner
that was never told would satisfy it. `DeathNoticed` ties the health of the
mutex to the pending repair: it is inconsistent exactly while its owner is
pending, whence an unlock, which a pending thread cannot make, never finds it
so. `CallsFit` says that calls on a robust mutex are of objects with mRobust, since
`Repairs` asks that flag. `OneObject` (without openers the objects' lives do not
overlap, and the object of a running owner is alive) is for the destructor, which
runs when no running thread of its object is in a call or was told it holds the
mutex: a running owner would be a thread of that object, and by KnownOwner it was
told. Openers break the first half, as the owner may belong to another object.
`RelocksRecursive` gives NoSelfDeadlock.

`ConditionVariableProofs`, for any threads, objects, overloads and bounds:

- `TypeCorrect`, `PredicateLocked` (RunsLocked) and `TrueIsTrue` (TrueMeansReady), with
  robust mutexes and deaths too.
- `ImplementsWait`: `Spec => SafeWait`. The three ways out of a wait with a
  predicate rest on three parts of the invariant `Inv`: TrueMeansReady for an
  answer "true", `Expired` (whoever was told ETIMEDOUT, and answers "false", is
  past its deadline) for "false", and `Deaths` (an exception, and a mutex that
  is not consistent, come after a death) for the exception.
- `WakeupsReachItems`: `Spec => []NoLostWakeup` for finitely many threads that
  all wait with a predicate on a mutex that is not robust. It is not true
  without: a thread that waits once, or dies, takes the notification with it.

TrueMeansReady needs `LockHeld`: who evaluates the predicate, publishes or was
answered without a failure owns the mutex, so nobody takes the item that the
answer is about before the caller does. The caller of a failed wait need not
own it, and its unlock harms nobody, as only a robust mutex fails and a robust
one checks (`UnlocksOwn`). NoLostWakeup adds `Queue` (only blocked threads are
queued, and each once) and counts: a step keeps who is on the way
(`KeepsComing`), adds a publisher with its item, takes away a consumer with
its item, or puts a waiter in the place of its notifier. What the pthread calls
do is shared with MutexProofs (`PthreadMutexProofs`).

`ClockUtilityProofs`, for any NsPerSec, readings and durations:
`TimespecDenotes` (any deadline's timespec is valid and denotes it exactly),
`DeadlineAlwaysKept` and `AlwaysExpiresInTime`, through the division facts of
`DivNat` and `CastRest` and the order lemma `TimespecOrder`. The range of the
counts is arbitrary, and an overflowed call may have handed on any of them.

`ThreadProofs`, for any objects, threads, priorities and operations:

- `JoinersLog`, `JoinedOnce`: `Spec => []JoinerLogs`, `Spec => []OneJoiner`.
- `JoinsWait`: `Spec => JoinWaits`, a call comes past its join only when the
  thread has ended, whatever other threads do meanwhile.

They assume `DetachKnown`: every configuration that inherits its
creator's attributes says itself whether to detach, or the program has no
detached threads at all, so that there is nothing to inherit (`Undetached`, an
invariant of its own then). Without it the last two are false (section 5).
Inherited attributes hold the creator's stack too, and no theorem is about
stacks: that they are apart is false for whoever inherits, and holds for all
others by what pthread_create does. The invariant `Inv`
says of the objects that are to join (`Joiner`) that they have a log and that
they and the threads that must be joined (`MustJoin`) correspond one to one
(`JoinersRight`); OneJoiner counts them. It needs `CallsOwn`: the object of a
blocked call is live and belongs to its caller, who is not free to move or
detach it meanwhile. The steps come down to three changes of that
correspondence: an object takes over what another had (`MoveRight`), gives it
up (`UnjoinRight`), or ends with nothing to join (`EndRight`); the constructor adds
a pair when its belief about joining is right (`BeliefRight`, from DetachKnown). That
`OnlyJoinUnjoins` a call's object then gives JoinsWait.

`ThreadSetupProofs`, of what happens before a thread's function runs:

- `TypeCorrect`: `Spec => []TypeOK`, without any assumption. The part that is not about shapes
  is that a real-time thread has a priority of 1..99 and another a nice value
  of -20..19, both as set and as asked for.
- `SetupReadsLive`: `Spec => []EntryReadsLive`, for `Stays`: the program moves, assigns
  and detaches no object and asks for no detached thread. With any one of the
  four TLC finds a new thread that reads an object that is gone.
- `PriorityHolds`: `Spec => []PriorityApplied`, for `NoNice` (no nice value is asked
  for, and if UpdatePriority() is called all threads are real time) or for
  `Stays` without UpdatePriority(). Elsewhere it is false: an update of a thread
  that is not real time goes to the caller, and a nice value read from an object
  that is gone may be missed.

TypeOK is not inductive for the priorities: the nice value a new thread sets is
what it finds in an object, which may be gone, assigned to or updated by
then. `EntryFits` says that what is there is still of the kind the thread was
started with (objects are born once, and all later writes of mSched keep the
policy), and `TidsKnown` that an object's mTid is a thread, which makes
UpdatePriority() one of a thread that exists. `Attached` is the invariant of
SetupReadsLive: the object a new thread will read is alive, is to join it, and
will not stop being so before the thread has ended, as nobody else than
PthreadJoin clears its mJoin (`JoinerKept`). `StartedRight` and `SetUpRight` are the
two of PriorityHolds: what a thread has is what was asked, or it is on its way
to set what its object says, which is what was asked. `ThreadKept` gives, for each
step and thread, what the step leaves.

`ErrorProofs`, for any threads, logs, levels, environments and bounds:
`TypeCorrect`, `LoggedBeforeThrown` (LoggedFirst), `AnsweredAlike` (OneAnswer) and
`DrainedKept` (DrainKeeps). Beside types the invariant says that what a thread
inserted is its finished entries and the parts of the open one (`Inserted`),
that a thread is past its entry when it initialises the policy or has left
(`PastLog`), that the policy is the configured one once the guard is set
(`Settled`), that no error is answered before the environment was read, and all
in the way that follows from what was read (`ReadFirst`), and that what is drained is out (`Drained`).

Every invariant and action property of a passing run is stated by a theorem.
What is said of a shared mutex or condition variable holds in every behaviour
of the model, and those of the program end where storage that was freed is used.
Only model-checked: liveness (Promise, WaitsEnd, CallsReturn, ThrowsEnd), which
the prover does not handle under fairness; with Promise, that Mutex implements
the liveness of AbstractLock. The violated properties of section 5 are TLC's alone.

## 5. Where code and documents disagree

With a run and a finding:

- `Mutex.cpp:126`. An `OpenShm()` object has mRobust = false, so its Lock()
  throws on EOWNERDEAD and leaves its caller owning the mutex (mutex_open_lock).
- `Mutex.hpp:185`. TryLock() answers false on EOWNERDEAD although the caller owns
  the mutex then (mutex_try).
- `ConditionVariable.hpp:229`. After a timeout the answer is what the predicate
  said *before* the wait (cv_stale).
- `Thread.hpp:243`. A new thread reads the object it was constructed in, which
  may have been moved from and destroyed (thread_moved_from).

Seen in the models too; each shows with the change of a setting named here:

- `Error.cpp:29`. The test of the environment variable is inverted: unset, a
  std::logic_error replaces the caller's exception; set, it is ignored: AsAsked
  in error. `src/README.md:43` and `Error.cpp:21` say otherwise.
- `Error.cpp:89`. Throw() does not flush the log before it throws, as
  `src/README.md:39` says it does and its own TODO admits: FlushedFirst in error,
  with `Build` and `Environs` "logandthrow".
- `Mutex.hpp:218`. TryLockUntil() repairs the mutex of a dead owner, owns it and
  answers false: OwnerKnows in mutex_try, with TryLockUntil in place of TryLock.
- `Mutex.hpp:140`, `ConditionVariable.hpp:129`. The destructor of an opened
  object deletes the shared memory, which SetSharedMem() is to keep:
  SharedOutlives in mutex_open_lock (configurations without
  SetSharedMemDestroy()) or cv_shared.
- `Thread.cpp:109`. Inherited attributes include the creator's stack, and
  pthread_create runs the new thread on it; the constructors without a Config
  inherit: OwnStack in thread_setup, with the configuration `DefaultConfig(TRUE)`.
- `Thread.cpp:295`. UpdatePriority() of a thread that is not real time sets the
  nice value of its caller, and the thread may set its own later: PriorityApplied
  in thread_setup with "update". Of real-time threads it holds (`PriorityHolds`),
  but says no more than the assignment, so thread_moves does not check it.
- `Thread.hpp:113`. A thread made by a detached one inherits that state, is
  believed joinable, and its destructor does not wait: OneJoiner and JoinWaits
  in thread_moves, with the configurations `{Detached, DefaultConfig(TRUE)}`.
  Such a thread already runs on its creator's stack, so no run goes on from
  there.
- `Thread.cpp:216`. An object that was moved from keeps its mTid and loses its
  log: an UpdatePriority() of it that fails ends the process
  (`UpdatePriorityThrows`, a step of thread_moves).
- `Mutex.hpp:172`. An unlock by a stranger, which a plain NORMAL mutex does not
  refuse, ends exclusion: MutualExclusion in mutex_heap with `Misuse`. No text of
  the repository promises the contrary.
- A wait on a robust mutex whose owner died throws without the repair, and the
  unlock of the caller's lock then makes the mutex unusable for good; cv_robust
  goes through that state, and no text of the repository promises otherwise.
- `StdOutLog.cpp:23`. Lines of two threads mix: LinesWhole in error.
- `Log.hpp:136`. The gate compares levels the wrong way round, and a log that is
  off logs everything: OffIsSilent in error.
- `Mutex.hpp:199`, `ConditionVariable.hpp:180`. A wait of the longest durations
  overflows and may expire at once: NeverEarly in clock.

Read in code that has no state to model: `Error.cpp:96` throws a copy of type
std::exception, so that callers cannot catch the std::system_error they caused;
the untimed `ConditionVariable::Wait`, the AxzlTrace() ... macros of `Log.hpp`
and two of the policies `Error.cpp:55` may be built with do not compile.

## 6. What is left out

The text of log lines, names, thread affinity and guard size. Data races of two
threads on one Thread object: a Thread is called by the thread that constructed
it. Thread functions that throw. What a call does with storage that was freed,
and what threads do that run on one stack. A process that crashes in the middle of
`Init()` of a shared object, and pthread_cond_destroy with waiters (it would
wait): a destructor runs when its own process is in no call. ConditionVariable
has one mutex per variable, as POSIX requires, locked once by each caller, as
std::unique_lock does; its callers lock it consistent, as Mutex::Lock() returns
it. Shared memory is created and opened in that order. Changing the environment
while a thread is in Throw() (a data race of setenv and secure_getenv), logging
from an exception handler of std::terminate, and memory that runs out.

Not modelled at all, for lack of behaviour: LogManager (no operation has a
body), Likely and StringView (compiler hints, an alias), the test and build
files.

## 7. Plan

1. ConditionVariable over module Mutex and not only over the pthread mutex, so
   that a death during a wait meets the repair of the next Lock() step by step.
2. Proofs: JoinedOnce for configurations that inherit, where threads are
   detached but make no threads themselves; EntryReadsLive with moves from objects whose
   threads have set themselves up.
