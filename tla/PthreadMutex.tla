---------------------------- MODULE PthreadMutex ----------------------------
(***************************************************************************)
(* The POSIX mutex below Axzl::Mutex, as libaxzl_core uses it.  It is not  *)
(* part of the repository: each operator is one pthread call, written as a *)
(* relation between the mutex m before the call, the return code and the   *)
(* mutex n after it.  A call that blocks is a relation no step satisfies   *)
(* yet.                                                                    *)
(***************************************************************************)
EXTENDS Naturals

CONSTANTS
  Threads,    \* the threads that call the mutex
  NoThread,   \* "nobody", as the owner of an unlocked mutex
  MaxCount    \* bound: the largest recursion count (UINT_MAX in the C library)

ASSUME NoThreadAssumption == NoThread \notin Threads
ASSUME MaxCountAssumption == MaxCount \in Nat \ {0}

MutexTypes == {"NORMAL", "RECURSIVE", "ERRORCHECK"}
Protocols  == {"NONE", "INHERIT", "PROTECT"}

(* What the calls may return; ETIMEDOUT and EBUSY come from the callers    *)
(* that give up on a mutex somebody else holds.                            *)
ReturnCodes == {"OK", "EOWNERDEAD", "ENOTRECOVERABLE", "EAGAIN", "EDEADLK",
                "EPERM", "EINVAL", "EBUSY", "ETIMEDOUT"}

(* life: is the storage a mutex?  What a call does with storage that was   *)
(* freed is undefined: it has no step.                                     *)
(* health: has an owner died holding the mutex?                            *)
(*   consistent      - no                                                  *)
(*   ownerdead       - yes, and the next locker will be told               *)
(*   inconsistent    - yes, and the present owner has been told            *)
(*   notrecoverable  - it was unlocked without pthread_mutex_consistent    *)
Healths == {"consistent", "ownerdead", "inconsistent", "notrecoverable"}

PMutex == [life   : {"raw", "init", "destroyed", "freed"},
           type   : MutexTypes,
           robust : BOOLEAN,
           proto  : Protocols,
           owner  : Threads \cup {NoThread},
           count  : 0..MaxCount,
           health : Healths]

RawMutex == [life |-> "raw", type |-> "NORMAL", robust |-> FALSE, proto |-> "NONE",
             owner |-> NoThread, count |-> 0, health |-> "consistent"]

(* pthread_mutex_init with the attributes of a configuration.              *)
InitMutex(type, robust, proto) ==
  [life |-> "init", type |-> type, robust |-> robust, proto |-> proto,
   owner |-> NoThread, count |-> 0, health |-> "consistent"]

(* Does pthread_mutex_unlock check that its caller is the owner?  glibc    *)
(* leaves the check out for the plain NORMAL mutex.                        *)
Checked(m) == m.type # "NORMAL" \/ m.robust \/ m.proto = "INHERIT"

(* Mutex m with another owner, count and health.                           *)
OwnedBy(m, owner, count, health) ==
  [m EXCEPT !.owner = owner, !.count = count, !.health = health]

-----------------------------------------------------------------------------
(* pthread_mutex_lock: the outcomes that do not wait.  A thread that locks *)
(* a NORMAL mutex it already owns, or one another thread owns, waits.      *)
LockRet(m, t, rc, n) ==
  \/ m.life \in {"raw", "destroyed"} /\ rc = "EINVAL" /\ n = m
  \/ /\ m.life = "init"
     /\ \/ /\ m.owner = NoThread /\ m.health = "consistent"
           /\ rc = "OK"
           /\ n = OwnedBy(m, t, 1, "consistent")
        \/ /\ m.owner = NoThread /\ m.health = "ownerdead"
           /\ rc = "EOWNERDEAD"
           /\ n = OwnedBy(m, t, 1, "inconsistent")
        \/ /\ m.owner = NoThread /\ m.health = "notrecoverable"
           /\ rc = "ENOTRECOVERABLE" /\ n = m
        \/ /\ m.owner = t /\ m.type = "RECURSIVE" /\ m.count < MaxCount
           /\ rc = "OK"
           /\ n = OwnedBy(m, t, m.count + 1, m.health)
        \/ /\ m.owner = t /\ m.type = "RECURSIVE" /\ m.count = MaxCount
           /\ rc = "EAGAIN" /\ n = m
        \/ /\ m.owner = t /\ m.type = "ERRORCHECK"
           /\ rc = "EDEADLK" /\ n = m

(* The call of t has to wait for another thread, or for itself.            *)
MustWait(m, t) ==
  /\ m.life = "init"
  /\ m.owner # NoThread
  /\ m.owner = t => m.type = "NORMAL"

(* pthread_mutex_clocklock: like lock, but a wait may end in ETIMEDOUT.    *)
ClockLockRet(m, t, rc, n) ==
  \/ LockRet(m, t, rc, n)
  \/ MustWait(m, t) /\ rc = "ETIMEDOUT" /\ n = m

(* pthread_mutex_trylock: like lock, but EBUSY instead of a wait.          *)
TryLockRet(m, t, rc, n) ==
  \/ LockRet(m, t, rc, n)
  \/ MustWait(m, t) /\ rc = "EBUSY" /\ n = m

(* pthread_mutex_unlock.  An unlock that leaves an inconsistent mutex      *)
(* unowned makes it unusable for good; one that only lowers the count of   *)
(* such a mutex reports ENOTRECOVERABLE.                                   *)
UnlockRet(m, t, rc, n) ==
  \/ m.life \in {"raw", "destroyed"} /\ rc = "EINVAL" /\ n = m
  \/ /\ m.life = "init" /\ m.owner # t /\ Checked(m)
     /\ rc = "EPERM" /\ n = m
  \/ /\ m.life = "init" /\ m.owner # t /\ ~Checked(m)
     /\ rc = "OK"
     /\ n = OwnedBy(m, NoThread, 0, m.health)
  \/ /\ m.life = "init" /\ m.owner = t /\ m.count > 1
     /\ rc = IF m.health = "inconsistent" THEN "ENOTRECOVERABLE" ELSE "OK"
     /\ n = OwnedBy(m, t, m.count - 1, m.health)
  \/ /\ m.life = "init" /\ m.owner = t /\ m.count <= 1
     /\ rc = "OK"
     /\ n = OwnedBy(m, NoThread, 0,
            IF m.health = "inconsistent" THEN "notrecoverable" ELSE m.health)

(* pthread_mutex_consistent.                                               *)
ConsistentRet(m, rc, n) ==
  /\ m.life # "freed"
  /\ \/ m.robust /\ m.health = "inconsistent" /\ rc = "OK"
        /\ n = OwnedBy(m, m.owner, m.count, "consistent")
     \/ ~(m.robust /\ m.health = "inconsistent") /\ rc = "EINVAL" /\ n = m

(* pthread_mutex_destroy: a plain mutex in use is refused (EBUSY), which   *)
(* the destructor ignores; a robust one is destroyed all the same.  What   *)
(* was freed stays so.                                                     *)
Destroyed(m) ==
  IF m.life = "freed" \/ (m.owner # NoThread /\ ~m.robust)
    THEN m
    ELSE [m EXCEPT !.life = "destroyed"]

(* delete: the storage goes, whatever the mutex in it was.                 *)
Freed(m) == [m EXCEPT !.life = "freed"]

(* The kernel walks the robust list of threads that end; a mutex that is   *)
(* not robust stays locked for ever by a thread that is gone.              *)
OwnersGone(m, dead) ==
  IF m.robust /\ m.owner \in dead
    THEN OwnedBy(m, NoThread, 0, "ownerdead")
    ELSE m
=============================================================================
