-------------------------------- MODULE Thread --------------------------------
(***************************************************************************)
(* Axzl::Thread (Thread.hpp, Thread.cpp): Thread objects, the POSIX        *)
(* threads they start, and what survives when objects move, join, detach   *)
(* and are destroyed while the threads start, run and end.                 *)
(*                                                                         *)
(* An object is called only by the thread that constructed it; its address *)
(* is not used again when it is gone.  A thread's function may do all the  *)
(* same, and returns when the objects it made are gone.                    *)
(***************************************************************************)
EXTENDS Integers, FiniteSets

CONSTANTS
  Objects,     \* Thread objects, by address
  Tids,        \* the POSIX threads
  Main,        \* the one that runs main()
  None,        \* no thread, object, setting or call
  Configs,     \* the configurations given to constructors
  Operations,  \* what the program does with the objects, besides the destructor
  Levels,      \* the priorities UpdatePriority() is given
  Privileged   \* may the process raise a thread's priority?

ASSUME ThreadAssumption ==
  /\ Main \in Tids /\ None \notin Tids \cup Objects
  /\ Operations \subseteq {"move", "assign", "join", "detach", "update"}
  /\ Levels \subseteq Int
  /\ Privileged \in BOOLEAN

(* SchedulerParams: a real-time priority, or a nice value.                 *)
Scheds == [rt : BOOLEAN, prio : Int]

(* Thread::Config.  stackOk: is mStackSize unset or PTHREAD_STACK_MIN or   *)
(* more?  Guard size and affinity have no bearing on the rest.             *)
Config == [mInherit : BOOLEAN, mSched : {None} \cup Scheds,
           mDetach : BOOLEAN \cup {None}, stackOk : BOOLEAN]

ASSUME ConfigsAssumption == Configs \subseteq Config

DefaultConfig(inherit) ==
  [mInherit |-> inherit, mSched |-> None, mDetach |-> None, stackOk |-> TRUE]

SetScheduler(c, params)  == [c EXCEPT !.mSched = params]
SetDetached(c, detached) == [c EXCEPT !.mDetach = detached]

-----------------------------------------------------------------------------
VARIABLES
  obj,     \* the members of each object and who calls it
  os,      \* the POSIX threads
  call,    \* the blocking call each thread is in
  want,    \* the priority each thread was last asked to have
  up       \* FALSE once an exception left a thread or the process crashed

vars == <<obj, os, call, want, up>>

NoCall == [op |-> "none", on |-> None, from |-> None]

Live(o) == obj[o].life = "live"
Owned(t, o) == Live(o) /\ obj[o].owner = t

(* Thread t may make a call now.                                           *)
Free(t) == up /\ os[t].state = "body" /\ call[t] = NoCall

Blank == [life |-> "unborn", owner |-> None, mJoin |-> FALSE, mTid |-> None,
          mSched |-> None, mLog |-> FALSE]

(* A thread's state: "entry" before PostThreadEntryInit() has run, "body"  *)
(* in its function.  reaped: joined, its resources given back.  This: the  *)
(* pointer in its Context.  stack: whose stack it runs on.                 *)
Absent == [state |-> "none", detached |-> FALSE, reaped |-> FALSE, This |-> None,
           stack |-> None, rt |-> FALSE, prio |-> 0]

Start ==
  /\ obj = [o \in Objects |-> Blank]
  /\ os = [t \in Tids |-> IF t = Main
                            THEN [Absent EXCEPT !.state = "body", !.stack = Main]
                            ELSE Absent]
  /\ call = [t \in Tids |-> NoCall]
  /\ want = [t \in Tids |-> 0]
  /\ up = TRUE

-----------------------------------------------------------------------------
(* Variant: the range of the priority is not validated.                    *)
AttributesRejectStack(c) == ~c.stackOk

(* Attributes(): an object's thread starts with the attributes of a Config *)
(* and, with mInherit, those pthread_getattr_np gives of the creator: its  *)
(* detach state and its stack among them.                                  *)
AttributesReject(c) ==
  \/ ~c.stackOk
  \/ c.mSched # None /\ c.mSched.prio \notin IF c.mSched.rt THEN 1..99 ELSE -20..19

AttrDetached(t, c) ==
  IF c.mDetach # None THEN c.mDetach ELSE c.mInherit /\ os[t].detached

(* A new stack u, or the one the creator runs on.                          *)
AttrStack(t, u, c) == IF c.mInherit THEN os[t].stack ELSE u

(* PTHREAD_EXPLICIT_SCHED with the policy and the real-time priority; the  *)
(* nice value is the creator's until the thread sets its own.              *)
AttrSched(t, c) ==
  IF c.mSched # None /\ c.mSched.rt THEN c.mSched
  ELSE [rt |-> c.mSched = None /\ os[t].rt,
        prio |-> IF c.mSched # None /\ os[t].rt THEN 0 ELSE os[t].prio]

Created(t, u, o, c) ==
  [state |-> "entry", detached |-> AttrDetached(t, c), reaped |-> FALSE, This |-> o,
   stack |-> AttrStack(t, u, c), rt |-> AttrSched(t, c).rt, prio |-> AttrSched(t, c).prio]

(* setpriority() takes the nearest nice value there is.                    *)
Clamped(n) == IF n < -20 THEN -20 ELSE IF n > 19 THEN 19 ELSE n

(* What the system lets a thread have: a higher priority takes a privilege.*)
MayNice(t, n) == Privileged \/ Clamped(n) >= IF os[t].rt THEN 0 ELSE os[t].prio
MayRealTime(u, n) == Privileged \/ (os[u].rt /\ n <= os[u].prio)

(* Variant: the constructor does not look at mDetach.                      *)
JoinsAlways(c) == TRUE

(* What the constructor believes about joining.                            *)
JoinsLater(c) == ~(c.mDetach # None /\ c.mDetach)

ThreadCtor(t, o, c, u) ==
  /\ Free(t) /\ obj[o].life = "unborn" /\ os[u].state = "none"
  /\ ~AttributesReject(c) /\ (AttrSched(t, c).rt => MayRealTime(t, AttrSched(t, c).prio))
  /\ os' = [os EXCEPT ![u] = Created(t, u, o, c)]
  /\ obj' = [obj EXCEPT ![o] = [life |-> "live", owner |-> t, mJoin |-> JoinsLater(c),
                                mTid |-> u, mSched |-> c.mSched, mLog |-> TRUE]]
  /\ want' = [want EXCEPT ![u] = IF c.mSched = None THEN os[t].prio ELSE c.mSched.prio]
  /\ UNCHANGED <<call, up>>

(* The attributes or pthread_create fail: no object, no thread.            *)
ThreadCtorThrows(t, o) ==
  /\ Free(t) /\ obj[o].life = "unborn"
  /\ obj' = [obj EXCEPT ![o].life = "failed"]
  /\ UNCHANGED <<os, call, want, up>>

-----------------------------------------------------------------------------
(* The new thread.  ThreadEntry() calls PostThreadEntryInit() through the  *)
(* This of its Context, which reads mSched there.  Of an object that is    *)
(* gone it may read what was there, or that there is no mSched.            *)
SchedRead(u) ==
  {obj[os[u].This].mSched} \cup IF Live(os[u].This) THEN {} ELSE {None}

(* Variant: the new thread does not set its nice value.                    *)
SetsNothing(s) == FALSE

SetsNice(s) == s # None /\ ~s.rt

PostThreadEntryInit(u) ==
  /\ up /\ os[u].state = "entry"
  /\ \E s \in SchedRead(u) :
       /\ SetsNice(s) => MayNice(u, s.prio)
       /\ os' = [os EXCEPT ![u].state = "body",
                           ![u].prio = IF SetsNice(s) THEN Clamped(s.prio) ELSE @]
  /\ UNCHANGED <<obj, call, want, up>>

(* setpriority() fails: the exception leaves the thread's entry point.     *)
PostThreadEntryInitThrows(u) ==
  /\ up /\ os[u].state = "entry"
  /\ \E s \in SchedRead(u) : SetsNice(s) /\ ~MayNice(u, s.prio)
  /\ up' = FALSE
  /\ UNCHANGED <<obj, os, call, want>>

ThreadReturns(u) ==
  /\ Free(u) /\ u # Main
  /\ ~\E o \in Objects : Owned(u, o)
  /\ os' = [os EXCEPT ![u].state = "exited"]
  /\ UNCHANGED <<obj, call, want, up>>

-----------------------------------------------------------------------------
(* Join(), the destructor and move-assignment all join first, if mJoin.    *)
Enter(t, op, o, p) ==
  /\ call' = [call EXCEPT ![t] = [op |-> op, on |-> o, from |-> p]]
  /\ UNCHANGED <<obj, os, want, up>>

Join(t, o) ==
  /\ "join" \in Operations /\ Free(t) /\ Owned(t, o) /\ obj[o].mJoin
  /\ Enter(t, "join", o, None)

Dtor(t, o) ==
  /\ Free(t) /\ Owned(t, o)
  /\ Enter(t, "dtor", o, None)

(* this != &from *)
MoveAssign(t, o, p) ==
  /\ "assign" \in Operations /\ Free(t) /\ Owned(t, o) /\ Owned(t, p) /\ o # p
  /\ Enter(t, "assign", o, p)

(* Variant: mJoin stays after the join.                                    *)
PthreadJoinStays(t) ==
  /\ up /\ call[t] # NoCall
  /\ LET o == call[t].on
         u == obj[o].mTid
     IN  /\ obj[o].mJoin /\ os[u].state = "exited"
         /\ os' = [os EXCEPT ![u].reaped = TRUE]
  /\ UNCHANGED <<obj, call, want, up>>

(* pthread_join waits for the thread to end; on a detached one it fails,   *)
(* which Join() logs.  Then mJoin = false in any case.                     *)
JoinRet(u) == os[u].detached \/ os[u].state = "exited"

PthreadJoin(t) ==
  /\ up /\ call[t] # NoCall
  /\ LET o == call[t].on
         u == obj[o].mTid
     IN  /\ obj[o].mJoin /\ JoinRet(u)
         /\ os' = [os EXCEPT ![u].reaped = @ \/ ~os[u].detached]
         /\ obj' = [obj EXCEPT ![o].mJoin = FALSE]
  /\ UNCHANGED <<call, want, up>>

(* Variant: move-assignment leaves mJoin of the object it moves from.      *)
MovedBoth(o, p) ==
  [obj EXCEPT ![o].mJoin = obj[p].mJoin, ![o].mTid = obj[p].mTid,
              ![o].mLog = obj[p].mLog,
              ![p].mLog = FALSE]

(* The members a move takes, and what it leaves.  mSched stays behind.     *)
Moved(o, p) ==
  [obj EXCEPT ![o].mJoin = obj[p].mJoin, ![o].mTid = obj[p].mTid,
              ![o].mLog = obj[p].mLog,
              ![p].mJoin = FALSE, ![p].mLog = FALSE]

(* Variant: the destructor does not wait for the join.                     *)
CallReturnsEarly(t) ==
  /\ up /\ call[t] # NoCall
  /\ \/ call[t].op = "join" /\ ~obj[call[t].on].mJoin /\ UNCHANGED obj
     \/ call[t].op = "dtor" /\ obj' = [obj EXCEPT ![call[t].on].life = "gone"]
  /\ call' = [call EXCEPT ![t] = NoCall]
  /\ UNCHANGED <<os, want, up>>

(* The rest of the three, when there is nothing (more) to join.            *)
CallReturns(t) ==
  /\ up /\ call[t] # NoCall
  /\ ~obj[call[t].on].mJoin
  /\ \/ call[t].op = "join" /\ UNCHANGED obj
     \/ call[t].op = "dtor" /\ obj' = [obj EXCEPT ![call[t].on].life = "gone"]
     \/ call[t].op = "assign" /\ obj' = Moved(call[t].on, call[t].from)
  /\ call' = [call EXCEPT ![t] = NoCall]
  /\ UNCHANGED <<os, want, up>>

(* Variant: the move constructor leaves mJoin of the object it moves from. *)
MoveCtorBoth(t, o, p) ==
  /\ "move" \in Operations /\ Free(t) /\ obj[o].life = "unborn" /\ Owned(t, p)
  /\ obj' = [obj EXCEPT ![o] = [life |-> "live", owner |-> t, mJoin |-> obj[p].mJoin,
                                mTid |-> obj[p].mTid, mSched |-> None, mLog |-> obj[p].mLog],
                        ![p].mLog = FALSE]
  /\ UNCHANGED <<os, call, want, up>>

(* Thread(Thread&& from)                                                   *)
MoveCtor(t, o, p) ==
  /\ "move" \in Operations /\ Free(t) /\ obj[o].life = "unborn" /\ Owned(t, p)
  /\ obj' = [obj EXCEPT ![o] = [life |-> "live", owner |-> t, mJoin |-> obj[p].mJoin,
                                mTid |-> obj[p].mTid, mSched |-> None, mLog |-> obj[p].mLog],
                        ![p].mJoin = FALSE, ![p].mLog = FALSE]
  /\ UNCHANGED <<os, call, want, up>>

(* Detach(): of a thread that is detached already pthread_detach fails,    *)
(* Detach() throws and mJoin stays.                                        *)
Detach(t, o) ==
  /\ "detach" \in Operations /\ Free(t) /\ Owned(t, o) /\ obj[o].mJoin
  /\ ~os[obj[o].mTid].detached
  /\ os' = [os EXCEPT ![obj[o].mTid].detached = TRUE]
  /\ obj' = [obj EXCEPT ![o].mJoin = FALSE]
  /\ UNCHANGED <<call, want, up>>

(* UpdatePriority(): pthread_setschedprio of the thread when it is real    *)
(* time, else setpriority of process 0, which is the calling thread.  It   *)
(* is called while there is a thread, which may not have come to its       *)
(* PostThreadEntryInit() yet.                                              *)
PrioTarget(t, u) == IF os[u].rt THEN u ELSE t

(* What a thread like u is given when it is asked to have prio.            *)
Given(u, prio) == IF os[u].rt THEN prio ELSE Clamped(prio)

(* A nice value has no effect on a caller that is real time.               *)
SetPrio(t, u, prio) ==
  IF os[t].rt /\ ~os[u].rt THEN os
  ELSE [os EXCEPT ![PrioTarget(t, u)].prio = Given(u, prio)]

Updatable(t, u, prio) ==
  /\ os[u].state \in {"entry", "body"}
  /\ IF os[u].rt THEN prio \in 1..99 /\ MayRealTime(u, prio) ELSE MayNice(t, prio)

UpdatePriority(t, o, prio) ==
  /\ "update" \in Operations /\ Free(t) /\ Owned(t, o)
  /\ LET u == obj[o].mTid
     IN  /\ Updatable(t, u, prio)
         /\ os' = SetPrio(t, u, prio)
         /\ want' = [want EXCEPT ![u] = Given(u, prio)]
  /\ obj' = [obj EXCEPT ![o].mSched =
               IF obj[o].mSched = None THEN None ELSE [rt |-> obj[o].mSched.rt, prio |-> prio]]
  /\ UNCHANGED <<call, up>>

(* The thread has ended, the priority is none or is not permitted: with    *)
(* the object's log Throw() throws, which the caller catches.  An object   *)
(* that was moved from has its mTid and no log: Throw() writes to a null   *)
(* log, and the process ends.                                              *)
UpdatePriorityThrows(t, o, prio) ==
  /\ "update" \in Operations /\ Free(t) /\ Owned(t, o)
  /\ ~Updatable(t, obj[o].mTid, prio)
  /\ up' = obj[o].mLog
  /\ UNCHANGED <<obj, os, call, want>>

-----------------------------------------------------------------------------
(* The steps of a thread that need nobody to decide on them.               *)
Proceeds(t) ==
  \/ PostThreadEntryInit(t) \/ PostThreadEntryInitThrows(t)
  \/ ThreadReturns(t) \/ PthreadJoin(t) \/ CallReturns(t)

ThreadStep(t) ==
  \/ \E o \in Objects, c \in Configs, u \in Tids : ThreadCtor(t, o, c, u)
  \/ \E o \in Objects : ThreadCtorThrows(t, o)
  \/ \E o \in Objects : Join(t, o) \/ Dtor(t, o) \/ Detach(t, o)
  \/ \E o, p \in Objects : MoveCtor(t, o, p) \/ MoveAssign(t, o, p)
  \/ \E o \in Objects, prio \in Levels :
       UpdatePriority(t, o, prio) \/ UpdatePriorityThrows(t, o, prio)
  \/ Proceeds(t)

Next == \E t \in Tids : ThreadStep(t)

Spec == Start /\ [][Next]_vars

(* The scheduler runs every thread, and functions return: also those that  *)
(* have to destroy their objects first.                                    *)
Fairness == \A t \in Tids :
  WF_vars(Proceeds(t)) /\ WF_vars(\E o \in Objects : Dtor(t, o))

FairSpec == Spec /\ Fairness

-----------------------------------------------------------------------------
(* The type of every variable.                                             *)
TypeOK ==
  /\ \A o \in Objects :
       /\ obj[o].life \in {"unborn", "live", "failed", "gone"}
       /\ {obj[o].mJoin, obj[o].mLog} \subseteq BOOLEAN
       /\ {obj[o].owner, obj[o].mTid} \subseteq Tids \cup {None}
       /\ obj[o].mSched # None => obj[o].mSched \in Scheds
  /\ os \in [Tids -> [state : {"none", "entry", "body", "exited"}, detached : BOOLEAN,
                      reaped : BOOLEAN, This : Objects \cup {None},
                      stack : Tids \cup {None}, rt : BOOLEAN, prio : Int]]
  /\ \A t \in Tids : {os[t].prio, want[t]} \subseteq IF os[t].rt THEN 1..99 ELSE -20..19
  /\ call \in [Tids -> [op : {"none", "join", "dtor", "assign"},
                        on : Objects \cup {None}, from : Objects \cup {None}]]
  /\ want \in [Tids -> Int]
  /\ up \in BOOLEAN

(* Through moves, joins, detaches and destructors every thread that has to *)
(* be joined has exactly one object that will, and no other thread has any:*)
(* none is leaked, none is joined twice.                                   *)
MustJoin(u) ==
  u # Main /\ os[u].state # "none" /\ ~os[u].detached /\ ~os[u].reaped

JoinersOf(u) == {o \in Objects : Live(o) /\ obj[o].mJoin /\ obj[o].mTid = u}

OneJoiner ==
  \A u \in Tids : Cardinality(JoinersOf(u)) = IF MustJoin(u) THEN 1 ELSE 0

(* An object that will join has the log Join() writes to.                  *)
JoinerLogs == \A o \in Objects : Live(o) /\ obj[o].mJoin => obj[o].mLog

(* Join(), the destructor and move-assignment wait until the thread of     *)
(* their object has ended.                                                 *)
Joins(t) ==
  call[t] # NoCall /\ obj[call[t].on].mJoin /\ ~obj'[call[t].on].mJoin

JoinWaits ==
  [][\A t \in Tids : Joins(t) => os[obj[call[t].on].mTid].state = "exited"]_vars

(* The object a new thread sets itself up from is still there.             *)
EntryReadsLive ==
  \A u \in Tids : os[u].state = "entry" => Live(os[u].This)

(* In its function a thread has the priority last asked for it, by its     *)
(* configuration or by UpdatePriority().                                   *)
PriorityApplied ==
  \A u \in Tids : os[u].state = "body" => os[u].prio = want[u]

(* No two threads run on the same stack, whoever created them.             *)
OwnStack ==
  \A u, v \in Tids :
    {os[u].state, os[v].state} \subseteq {"entry", "body"} /\ os[u].stack = os[v].stack
      => u = v

(* A call that joins returns, when the functions of the threads do.        *)
CallsReturn == \A t \in Tids : call[t] # NoCall ~> call[t] = NoCall \/ ~up
=============================================================================
