------------------------------ MODULE MCMutex ------------------------------
(***************************************************************************)
(* Instances of Mutex for TLC.  Each .cfg picks one of the settings below. *)
(***************************************************************************)
EXTENDS Mutex, TLC

CONSTANTS t1, t2, t3,   \* threads
          h1, h2, h3    \* Axzl::Mutex objects

(* One heap mutex, three threads of one process.                           *)
OneHandle  == {h1}
HeapOrigin == (h1 :> "heap")
AllOnOne   == (t1 :> h1 @@ t2 :> h1 @@ t3 :> h1)

(* A shared mutex: its creator and two openers, a thread in each process.  *)
ThreeHandles == {h1, h2, h3}
ShmOrigin    == (h1 :> "create" @@ h2 :> "open" @@ h3 :> "open")
OneEach      == (t1 :> h1 @@ t2 :> h2 @@ t3 :> h3)

ProtectConfig == [DefaultConfig EXCEPT !.mProto = "PROTECT"]

(* What a program can build with the setters, without SetRobust; the last  *)
(* one is rejected, its ceiling is the default -1.                         *)
StalledConfigs ==
  {DefaultConfig, SetRecursive(DefaultConfig), SetErrorCheck(DefaultConfig),
   SetPrioInherit(DefaultConfig), ProtectConfig}
HeapConfigs == StalledConfigs \cup
  {SetRobust(DefaultConfig), SetRobust(SetRecursive(DefaultConfig)),
   SetErrorCheck(SetRobust(DefaultConfig))}
ShmConfigs ==
  {SetSharedMem(DefaultConfig), SetSharedMem(SetRecursive(DefaultConfig)),
   SetSharedMemDestroy(DefaultConfig)}

RobustConfig == {SetRobust(DefaultConfig)}

(* Every call; a robust mutex used through Lock() only; Lock() only, or    *)
(* with TryLock().                                                         *)
EveryCall    == [robust \in BOOLEAN |-> {"Lock", "TryLock", "TryLockUntil"}]
RobustByLock == [robust \in BOOLEAN |->
                   IF robust THEN {"Lock"} ELSE {"Lock", "TryLock", "TryLockUntil"}]
ByLock       == [robust \in BOOLEAN |-> {"Lock"}]
ByTryLock    == [robust \in BOOLEAN |-> {"Lock", "TryLock"}]
=============================================================================
