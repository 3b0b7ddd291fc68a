----------------------------- MODULE ThreadProofs -----------------------------
(***************************************************************************)
(* Who joins which thread, for any number of objects and threads, any      *)
(* priorities and any sequence of moves, assignments, joins, detaches and  *)
(* destructors.                                                            *)
(***************************************************************************)
EXTENDS Thread, FiniteSetTheorems, TLAPS

USE ThreadAssumption, ConfigsAssumption

(* A program without detached threads.                                     *)
NeverDetached ==
  /\ "detach" \notin Operations
  /\ \A c \in Configs : c.mDetach = None \/ ~c.mDetach

(* No thread inherits being detached, since every configuration that       *)
(* inherits says itself whether to detach, or since no thread ever is.     *)
(* Where one does inherit it the claims about joining are false: its       *)
(* object believes that it will join.                                      *)
DetachKnown == (\A c \in Configs : c.mInherit => c.mDetach # None) \/ NeverDetached

-----------------------------------------------------------------------------
(* The shapes of objects, threads and calls.                               *)
Object == [life : {"unborn", "live", "failed", "gone"}, owner : Tids \cup {None},
           mJoin : BOOLEAN, mTid : Tids \cup {None}, mSched : {None} \cup Scheds,
           mLog : BOOLEAN]

Posix == {r \in [state : {"none", "entry", "body", "exited"}, detached : BOOLEAN,
                 reaped : BOOLEAN, This : Objects \cup {None}, stack : Tids \cup {None},
                 rt : BOOLEAN, prio : Int] :
            r.state = "entry" => r.This \in Objects}

Blocked == [op : {"none", "join", "dtor", "assign"}, on : Objects \cup {None},
            from : Objects \cup {None}]

Shape == obj \in [Objects -> Object] /\ os \in [Tids -> Posix] /\ call \in [Tids -> Blocked]

(* A blocked call is on an object of its caller, and an assignment from    *)
(* another one.                                                            *)
CallsOwn ==
  \A t \in Tids : call[t] # NoCall =>
    /\ call[t].on \in Objects /\ Owned(t, call[t].on)
    /\ call[t].op \in {"join", "dtor", "assign"}
    /\ call[t].op = "assign" =>
         call[t].from \in Objects /\ Owned(t, call[t].from) /\ call[t].from # call[t].on

(* The joiners: those objects that are to join, and their threads.         *)
Joiner(o) == Live(o) /\ obj[o].mJoin

JoinersRight ==
  /\ \A o \in Objects : Joiner(o) => obj[o].mLog /\ obj[o].mTid \in Tids
  /\ \A o \in Objects, u \in Tids : Joiner(o) /\ obj[o].mTid = u => MustJoin(u)
  /\ \A o, p \in Objects : Joiner(o) /\ Joiner(p) /\ obj[o].mTid = obj[p].mTid => o = p
  /\ \A u \in Tids : MustJoin(u) => \E o \in Objects : Joiner(o) /\ obj[o].mTid = u

MainRuns == os[Main].state # "none"

Inv == Shape /\ CallsOwn /\ JoinersRight /\ MainRuns

-----------------------------------------------------------------------------
LEMMA StartInv == Start => Inv
<1> SUFFICES ASSUME Start PROVE Inv
  OBVIOUS
<1>1. \A o \in Objects : obj[o] = Blank
  BY DEF Start
<1>2. Blank \in Object /\ NoCall \in Blocked
  BY DEF Blank, Object, NoCall, Blocked
<1>3. Absent \in Posix
  BY SMT DEF Absent, Posix
<1>4. Shape
  <2>1. [Absent EXCEPT !.state = "body", !.stack = Main] \in Posix
    BY <1>3, ThreadAssumption DEF Posix
  <2>2. QED
    BY <1>2, <1>3, <2>1 DEF Start, Shape
<1>5. CallsOwn
  BY DEF Start, CallsOwn
<1>6. \A o \in Objects : ~Joiner(o)
  BY <1>1 DEF Joiner, Live, Blank
<1>7. \A u \in Tids : ~MustJoin(u)
  BY DEF Start, MustJoin, Absent
<1>8. MainRuns
  BY DEF Start, MainRuns, Absent
<1>9. QED
  BY <1>4, <1>5, <1>6, <1>7, <1>8 DEF Inv, JoinersRight

(* A step that changes no object, and of threads nothing that joining is   *)
(* about.                                                                  *)
LEMMA QuietStep ==
  ASSUME Inv, UNCHANGED obj, os' \in [Tids -> Posix],
         \A u \in Tids : /\ os'[u].detached = os[u].detached
                         /\ os'[u].reaped = os[u].reaped
                         /\ os'[u].state = "none" <=> os[u].state = "none"
  PROVE  JoinersRight' /\ MainRuns'
<1>1. \A u \in Tids : MustJoin(u)' = MustJoin(u)
  BY DEF MustJoin
<1>2. \A o \in Objects : Joiner(o)' = Joiner(o)
  BY DEF Joiner, Live
<1>3. QED
  BY <1>1, <1>2 DEF Inv, JoinersRight, MainRuns

(* A step that leaves the calls that are on alone and what is in them      *)
(* owned.                                                                  *)
LEMMA CallsStay ==
  ASSUME CallsOwn, UNCHANGED call,
         \A t \in Tids, o \in Objects : call[t] # NoCall /\ Owned(t, o) => Owned(t, o)'
  PROVE  CallsOwn'
BY DEF CallsOwn

-----------------------------------------------------------------------------
(* The constructor: what it believes about joining is what the system does.*)
Beliefs ==
  \A t \in Tids, c \in Configs :
    JoinsLater(c) \in BOOLEAN /\ AttrDetached(t, c) = ~JoinsLater(c)

Undetached == \A u \in Tids : ~os[u].detached

LEMMA BeliefRight ==
  ASSUME DetachKnown, NeverDetached => Undetached
  PROVE  Beliefs
<1> SUFFICES ASSUME NEW t \in Tids, NEW c \in Configs
             PROVE  JoinsLater(c) \in BOOLEAN /\ AttrDetached(t, c) = ~JoinsLater(c)
  BY DEF Beliefs
<1>1. c.mDetach \in BOOLEAN \cup {None} /\ c.mInherit \in BOOLEAN
  BY DEF Config
<1>2. CASE c.mDetach = None
  <2>1. ~(c.mInherit /\ os[t].detached)
    BY <1>2 DEF DetachKnown, Undetached
  <2>2. QED
    BY <1>2, <2>1 DEF JoinsLater, AttrDetached
<1>3. CASE c.mDetach # None
  BY <1>1, <1>3 DEF JoinsLater, AttrDetached
<1>4. QED
  BY <1>2, <1>3

LEMMA CreatedType ==
  ASSUME Shape, NEW t \in Tids, NEW u \in Tids, NEW o \in Objects, NEW c \in Configs
  PROVE  Created(t, u, o, c) \in Posix
<1>1. /\ c.mSched \in {None} \cup Scheds /\ c.mInherit \in BOOLEAN
      /\ c.mDetach \in BOOLEAN \cup {None}
  BY DEF Config
<1>2. os[t] \in Posix
  BY DEF Shape
<1>3. /\ os[t].rt \in BOOLEAN /\ os[t].detached \in BOOLEAN /\ os[t].prio \in Int
      /\ os[t].stack \in Tids \cup {None}
  BY <1>2 DEF Posix
<1>4. AttrSched(t, c).rt \in BOOLEAN /\ AttrSched(t, c).prio \in Int
  BY <1>1, <1>3 DEF AttrSched, Scheds
<1>5. AttrDetached(t, c) \in BOOLEAN
  BY <1>1, <1>3 DEF AttrDetached
<1>6. AttrStack(t, u, c) \in Tids \cup {None}
  BY <1>3 DEF AttrStack
<1>7. QED
  BY <1>4, <1>5, <1>6 DEF Created, Posix

LEMMA ThreadCtorStep ==
  ASSUME Beliefs, Inv,
         NEW t \in Tids, NEW o \in Objects, NEW c \in Configs, NEW u \in Tids,
         ThreadCtor(t, o, c, u)
  PROVE  Inv'
<1> DEFINE new == [life |-> "live", owner |-> t, mJoin |-> JoinsLater(c),
                   mTid |-> u, mSched |-> c.mSched, mLog |-> TRUE]
<1>1. /\ obj[o].life = "unborn" /\ os[u].state = "none" /\ call' = call
      /\ obj' = [obj EXCEPT ![o] = new] /\ os' = [os EXCEPT ![u] = Created(t, u, o, c)]
  BY DEF ThreadCtor
<1>2. /\ obj'[o] = new /\ \A q \in Objects \ {o} : obj'[q] = obj[q]
      /\ os'[u] = Created(t, u, o, c) /\ \A v \in Tids \ {u} : os'[v] = os[v]
  BY <1>1 DEF Inv, Shape
<1>3. JoinsLater(c) \in BOOLEAN /\ AttrDetached(t, c) = ~JoinsLater(c)
  BY DEF Beliefs
<1>4. Shape'
  <2>1. c.mSched \in {None} \cup Scheds
    BY DEF Config
  <2>2. new \in Object
    BY <1>3, <2>1 DEF Object
  <2> HIDE DEF new
  <2>3. QED
    BY <1>1, <2>2, CreatedType DEF Inv, Shape
<1>5. CallsOwn'
  BY <1>1, <1>2, CallsStay DEF Inv, Owned, Live
<1>6. u # Main
  BY <1>1 DEF Inv, MainRuns
<1>7. ~MustJoin(u) /\ ~Joiner(o)
  BY <1>1 DEF MustJoin, Joiner, Live
<1>8. MustJoin(u)' = JoinsLater(c)
  <2>1. /\ os'[u].state = "entry" /\ os'[u].detached = AttrDetached(t, c)
        /\ os'[u].reaped = FALSE
    BY <1>2 DEF Created
  <2>2. MustJoin(u)' = (u # Main /\ os'[u].state # "none" /\ ~os'[u].detached /\ ~os'[u].reaped)
    BY DEF MustJoin
  <2>3. QED
    BY <1>3, <1>6, <2>1, <2>2
<1>9. Joiner(o)' = JoinsLater(c) /\ obj'[o].mTid = u /\ obj'[o].mLog
  BY <1>2, <1>3 DEF Joiner, Live
<1>10. /\ \A v \in Tids \ {u} : MustJoin(v)' = MustJoin(v)
       /\ \A q \in Objects \ {o} : Joiner(q)' = Joiner(q)
  BY <1>2 DEF MustJoin, Joiner, Live
<1>11. JoinersRight'
  <2>1. \A q \in Objects : Joiner(q)' => obj'[q].mLog /\ obj'[q].mTid \in Tids
    BY <1>2, <1>9, <1>10 DEF Inv, JoinersRight
  <2>5. \A q \in Objects, v \in Tids : Joiner(q)' /\ obj'[q].mTid = v => MustJoin(v)'
    BY <1>2, <1>7, <1>8, <1>9, <1>10 DEF Inv, JoinersRight
  <2>2. \A q \in Objects \ {o} : Joiner(q)' => obj'[q].mTid # u
    BY <1>2, <1>7, <1>10 DEF Inv, JoinersRight
  <2>3. \A q, r \in Objects : Joiner(q)' /\ Joiner(r)' /\ obj'[q].mTid = obj'[r].mTid => q = r
    BY <1>2, <1>9, <1>10, <2>2 DEF Inv, JoinersRight
  <2>4. \A v \in Tids : MustJoin(v)' => \E q \in Objects : Joiner(q)' /\ obj'[q].mTid = v
    BY <1>2, <1>7, <1>8, <1>9, <1>10 DEF Inv, JoinersRight
  <2>6. QED
    BY <2>1, <2>3, <2>4, <2>5 DEF JoinersRight
<1>12. MainRuns'
  BY <1>2, <1>6 DEF Inv, MainRuns
<1>13. QED
  BY <1>4, <1>5, <1>11, <1>12 DEF Inv

-----------------------------------------------------------------------------
(* A move: object o takes over what p has to join.                         *)
LEMMA MoveRight ==
  ASSUME Inv, NEW o \in Objects, NEW p \in Objects, o # p, ~Joiner(o), Live(p), UNCHANGED os,
         obj'[o].life = "live", obj'[o].mJoin = obj[p].mJoin,
         obj'[o].mTid = obj[p].mTid, obj'[o].mLog = obj[p].mLog, ~obj'[p].mJoin,
         \A q \in Objects \ {o, p} : obj'[q] = obj[q]
  PROVE  JoinersRight' /\ MainRuns'
<1>1. \A v \in Tids : MustJoin(v)' = MustJoin(v)
  BY DEF MustJoin
<1>2. /\ Joiner(o)' = Joiner(p) /\ ~Joiner(p)'
      /\ \A q \in Objects \ {o, p} : Joiner(q)' = Joiner(q) /\ obj'[q] = obj[q]
  BY DEF Joiner, Live
<1>3. /\ \A q \in Objects : Joiner(q)' => obj'[q].mLog /\ obj'[q].mTid \in Tids
      /\ \A q \in Objects, v \in Tids : Joiner(q)' /\ obj'[q].mTid = v => MustJoin(v)'
  BY <1>1, <1>2 DEF Inv, JoinersRight
<1>4. \A q, r \in Objects : Joiner(q)' /\ Joiner(r)' /\ obj'[q].mTid = obj'[r].mTid => q = r
  <2>1. ASSUME NEW q \in Objects \ {o}, Joiner(q)', Joiner(o)', obj'[q].mTid = obj'[o].mTid
        PROVE  FALSE
    <3>1. q # p /\ Joiner(q) /\ Joiner(p) /\ obj[q].mTid = obj[p].mTid
      BY <1>2, <2>1
    <3>2. QED
      BY <3>1 DEF Inv, JoinersRight
  <2>2. QED
    BY <1>2, <2>1 DEF Inv, JoinersRight
<1>5. \A v \in Tids : MustJoin(v)' => \E q \in Objects : Joiner(q)' /\ obj'[q].mTid = v
  BY <1>1, <1>2 DEF Inv, JoinersRight
<1>6. QED
  BY <1>3, <1>4, <1>5 DEF Inv, JoinersRight, MainRuns

LEMMA MoveCtorStep ==
  ASSUME Inv, NEW t \in Tids, NEW o \in Objects, NEW p \in Objects, MoveCtor(t, o, p)
  PROVE  Inv'
<1> DEFINE new == [life |-> "live", owner |-> t, mJoin |-> obj[p].mJoin,
                   mTid |-> obj[p].mTid, mSched |-> None, mLog |-> obj[p].mLog]
<1>1. /\ obj[o].life = "unborn" /\ Owned(t, p) /\ o # p /\ UNCHANGED <<os, call>>
      /\ obj' = [obj EXCEPT ![o] = new, ![p].mJoin = FALSE, ![p].mLog = FALSE]
  BY DEF MoveCtor, Owned, Live
<1>2. /\ obj'[o] = new /\ obj'[p] = [obj[p] EXCEPT !.mJoin = FALSE, !.mLog = FALSE]
      /\ \A q \in Objects \ {o, p} : obj'[q] = obj[q]
  BY <1>1 DEF Inv, Shape
<1>3. obj[p] \in Object
  BY DEF Inv, Shape
<1>4. new \in Object /\ [obj[p] EXCEPT !.mJoin = FALSE, !.mLog = FALSE] \in Object
  BY <1>3 DEF Object
<1>5. /\ obj'[p].life = obj[p].life /\ obj'[p].owner = obj[p].owner /\ ~obj'[p].mJoin
  BY <1>2, <1>3 DEF Object
<1>6. Shape'
  <2> HIDE DEF new
  <2>1. QED
    BY <1>1, <1>4 DEF Inv, Shape
<1>7. CallsOwn'
  BY <1>1, <1>2, <1>5, CallsStay DEF Inv, Owned, Live
<1>8. JoinersRight' /\ MainRuns'
  <2>1. ~Joiner(o) /\ Live(p)
    BY <1>1 DEF Joiner, Live, Owned
  <2>2. /\ obj'[o].life = "live" /\ obj'[o].mJoin = obj[p].mJoin
        /\ obj'[o].mTid = obj[p].mTid /\ obj'[o].mLog = obj[p].mLog
    BY <1>2
  <2>3. UNCHANGED os
    BY <1>1
  <2> HIDE DEF new
  <2>4. QED
    BY <1>1, <1>2, <1>5, <2>1, <2>2, <2>3, MoveRight
<1>9. QED
  BY <1>6, <1>7, <1>8 DEF Inv

-----------------------------------------------------------------------------
(* Object o gives up the thread u it was to join, which need not be joined *)
(* any more.                                                               *)
LEMMA UnjoinRight ==
  ASSUME Inv, NEW o \in Objects, Joiner(o), NEW u \in Tids, obj[o].mTid = u,
         ~obj'[o].mJoin, \A q \in Objects \ {o} : obj'[q] = obj[q],
         ~MustJoin(u)', \A v \in Tids \ {u} : MustJoin(v)' = MustJoin(v),
         os'[Main].state = os[Main].state
  PROVE  JoinersRight' /\ MainRuns'
<1>1. ~Joiner(o)' /\ \A q \in Objects \ {o} : Joiner(q)' = Joiner(q) /\ obj'[q] = obj[q]
  BY DEF Joiner, Live
<1>2. \A q \in Objects \ {o} : Joiner(q) => obj[q].mTid # u
  BY DEF Inv, JoinersRight
<1>3. /\ \A q \in Objects : Joiner(q)' => obj'[q].mLog /\ obj'[q].mTid \in Tids
      /\ \A q \in Objects, v \in Tids : Joiner(q)' /\ obj'[q].mTid = v => MustJoin(v)'
  BY <1>1, <1>2 DEF Inv, JoinersRight
<1>4. \A q, r \in Objects : Joiner(q)' /\ Joiner(r)' /\ obj'[q].mTid = obj'[r].mTid => q = r
  BY <1>1 DEF Inv, JoinersRight
<1>5. \A v \in Tids : MustJoin(v)' => \E q \in Objects : Joiner(q)' /\ obj'[q].mTid = v
  BY <1>1 DEF Inv, JoinersRight
<1>6. QED
  BY <1>3, <1>4, <1>5 DEF Inv, JoinersRight, MainRuns

(* Object o, which has nothing to join, comes to its end.                  *)
LEMMA EndRight ==
  ASSUME Inv, NEW o \in Objects, ~Joiner(o), NEW l \in {"failed", "gone"},
         obj' = [obj EXCEPT ![o].life = l], UNCHANGED os
  PROVE  obj' \in [Objects -> Object] /\ JoinersRight' /\ MainRuns'
<1>1. obj[o] \in Object
  BY DEF Inv, Shape
<1>2. [obj[o] EXCEPT !.life = l] \in Object
  BY <1>1 DEF Object
<1>3. obj'[o] = [obj[o] EXCEPT !.life = l] /\ \A q \in Objects \ {o} : obj'[q] = obj[q]
  BY DEF Inv, Shape
<1>4. obj'[o].life = l
  BY <1>1, <1>3 DEF Object
<1>5. \A q \in Objects : Joiner(q)' = Joiner(q) /\ (Joiner(q) => obj'[q] = obj[q])
  BY <1>3, <1>4 DEF Joiner, Live
<1>6. \A v \in Tids : MustJoin(v)' = MustJoin(v)
  BY DEF MustJoin
<1>7. JoinersRight' /\ MainRuns'
  BY <1>5, <1>6 DEF Inv, JoinersRight, MainRuns
<1>8. QED
  BY <1>2, <1>7 DEF Inv, Shape

LEMMA DetachStep ==
  ASSUME Inv, NEW t \in Tids, NEW o \in Objects, Detach(t, o)
  PROVE  Inv'
<1>1. Owned(t, o) /\ Joiner(o) /\ call' = call /\ obj' = [obj EXCEPT ![o].mJoin = FALSE]
  BY DEF Detach, Owned, Joiner
<1>2. PICK u \in Tids : obj[o].mTid = u
  BY <1>1 DEF Inv, JoinersRight
<1>3. os' = [os EXCEPT ![u].detached = TRUE]
  BY <1>2 DEF Detach
<1>4. os[u] \in Posix /\ obj[o] \in Object
  BY <1>2 DEF Inv, Shape
<1>5. /\ os'[u] = [os[u] EXCEPT !.detached = TRUE]
      /\ \A v \in Tids \ {u} : os'[v] = os[v]
      /\ obj'[o] = [obj[o] EXCEPT !.mJoin = FALSE]
      /\ \A q \in Objects \ {o} : obj'[q] = obj[q]
  BY <1>1, <1>2, <1>3 DEF Inv, Shape
<1>6. /\ os'[u].detached = TRUE /\ os'[u].state = os[u].state /\ obj'[o].mJoin = FALSE
      /\ obj'[o].life = obj[o].life /\ obj'[o].owner = obj[o].owner
  BY <1>4, <1>5 DEF Posix, Object
<1>7. Shape'
  <2>1. [os[u] EXCEPT !.detached = TRUE] \in Posix /\ [obj[o] EXCEPT !.mJoin = FALSE] \in Object
    BY <1>4 DEF Posix, Object
  <2>2. QED
    BY <1>1, <1>2, <1>3, <2>1 DEF Inv, Shape
<1>8. CallsOwn'
  BY <1>1, <1>5, <1>6, CallsStay DEF Inv, Owned, Live
<1>9. JoinersRight' /\ MainRuns'
  <2>1. ~MustJoin(u)' /\ \A v \in Tids \ {u} : MustJoin(v)' = MustJoin(v)
    BY <1>5, <1>6 DEF MustJoin
  <2>2. os'[Main].state = os[Main].state
    BY <1>5, <1>6
  <2>3. QED
    BY <1>1, <1>2, <1>5, <1>6, <2>1, <2>2, UnjoinRight
<1>10. QED
  BY <1>7, <1>8, <1>9 DEF Inv

(* What pthread_join gives back is a thread that had to be joined and that *)
(* has ended.                                                              *)
LEMMA JoinsEnded ==
  ASSUME Inv, NEW t \in Tids, PthreadJoin(t)
  PROVE  /\ call[t].on \in Objects /\ Owned(t, call[t].on) /\ Joiner(call[t].on)
         /\ obj[call[t].on].mTid \in Tids
         /\ ~os[obj[call[t].on].mTid].detached
         /\ os[obj[call[t].on].mTid].state = "exited"
<1>1. call[t].on \in Objects /\ Owned(t, call[t].on)
  BY DEF PthreadJoin, Inv, CallsOwn
<1>2. PICK o \in Objects : o = call[t].on
  BY <1>1
<1>3. Joiner(o) /\ JoinRet(obj[o].mTid)
  BY <1>1, <1>2 DEF PthreadJoin, Joiner, Owned
<1>4. PICK u \in Tids : u = obj[o].mTid
  BY <1>3 DEF Inv, JoinersRight
<1>5. MustJoin(u)
  BY <1>3, <1>4 DEF Inv, JoinersRight
<1>6. ~os[u].detached /\ os[u].state = "exited"
  BY <1>3, <1>4, <1>5 DEF MustJoin, JoinRet
<1>7. QED
  BY <1>1, <1>2, <1>3, <1>4, <1>6

LEMMA PthreadJoinStep ==
  ASSUME Inv, NEW t \in Tids, PthreadJoin(t)
  PROVE  Inv'
<1>1. PICK o \in Objects, u \in Tids :
        o = call[t].on /\ obj[o].mTid = u /\ Joiner(o) /\ ~os[u].detached
  BY JoinsEnded
<1>2. call' = call /\ obj' = [obj EXCEPT ![o].mJoin = FALSE]
  BY <1>1 DEF PthreadJoin
<1>3. os[u] \in Posix /\ obj[o] \in Object
  BY <1>1 DEF Inv, Shape
<1>4. os' = [os EXCEPT ![u].reaped = TRUE]
  <2>1. os' = [os EXCEPT ![u].reaped = @ \/ ~os[u].detached]
    BY <1>1 DEF PthreadJoin
  <2>2. QED
    BY <1>1, <1>3, <2>1 DEF Posix
<1>5. /\ os'[u] = [os[u] EXCEPT !.reaped = TRUE]
      /\ \A v \in Tids \ {u} : os'[v] = os[v]
      /\ obj'[o] = [obj[o] EXCEPT !.mJoin = FALSE]
      /\ \A q \in Objects \ {o} : obj'[q] = obj[q]
  BY <1>1, <1>2, <1>4 DEF Inv, Shape
<1>6. /\ os'[u].reaped = TRUE /\ os'[u].state = os[u].state /\ obj'[o].mJoin = FALSE
      /\ obj'[o].life = obj[o].life /\ obj'[o].owner = obj[o].owner
  BY <1>3, <1>5 DEF Posix, Object
<1>7. Shape'
  <2>1. [os[u] EXCEPT !.reaped = TRUE] \in Posix /\ [obj[o] EXCEPT !.mJoin = FALSE] \in Object
    BY <1>3 DEF Posix, Object
  <2>2. QED
    BY <1>1, <1>2, <1>4, <2>1 DEF Inv, Shape
<1>8. CallsOwn'
  BY <1>2, <1>5, <1>6, CallsStay DEF Inv, Owned, Live
<1>9. JoinersRight' /\ MainRuns'
  <2>1. ~MustJoin(u)' /\ \A v \in Tids \ {u} : MustJoin(v)' = MustJoin(v)
    BY <1>5, <1>6 DEF MustJoin
  <2>2. os'[Main].state = os[Main].state
    BY <1>5, <1>6
  <2>3. QED
    BY <1>1, <1>5, <1>6, <2>1, <2>2, UnjoinRight
<1>10. QED
  BY <1>7, <1>8, <1>9 DEF Inv

-----------------------------------------------------------------------------
(* The rest of a blocking call.                                            *)
LEMMA ReturnedOwn ==
  ASSUME Inv, NEW t \in Tids, call' = [call EXCEPT ![t] = NoCall],
         \A u \in Tids \ {t}, o \in Objects : Owned(u, o) => Owned(u, o)'
  PROVE  CallsOwn' /\ call' \in [Tids -> Blocked]
<1>1. NoCall \in Blocked
  BY DEF NoCall, Blocked
<1>2. call'[t] = NoCall /\ \A u \in Tids \ {t} : call'[u] = call[u]
  BY DEF Inv, Shape
<1>3. QED
  BY <1>1, <1>2 DEF Inv, Shape, CallsOwn

LEMMA CallReturnsStep ==
  ASSUME Inv, NEW t \in Tids, CallReturns(t)
  PROVE  Inv'
<1>1. /\ call' = [call EXCEPT ![t] = NoCall] /\ UNCHANGED os
  BY DEF CallReturns
<1>2. PICK o \in Objects : o = call[t].on /\ Owned(t, o) /\ ~Joiner(o)
  BY DEF CallReturns, Inv, CallsOwn, Joiner
<1>3. CASE UNCHANGED obj
  <2>1. CallsOwn' /\ call' \in [Tids -> Blocked]
    BY <1>1, <1>3, ReturnedOwn DEF Owned, Live
  <2>2. QED
    BY <1>1, <1>3, <2>1, QuietStep DEF Inv, Shape
<1>4. CASE obj' = [obj EXCEPT ![o].life = "gone"]
  <2>1. obj' \in [Objects -> Object] /\ JoinersRight' /\ MainRuns'
    BY <1>1, <1>2, <1>4, EndRight
  <2>2. \A q \in Objects \ {o} : obj'[q] = obj[q]
    BY <1>4 DEF Inv, Shape
  <2>3. \A u \in Tids \ {t} : ~Owned(u, o)
    BY <1>2 DEF Owned
  <2>4. CallsOwn' /\ call' \in [Tids -> Blocked]
    BY <1>1, <2>2, <2>3, ReturnedOwn DEF Owned, Live
  <2>5. QED
    BY <1>1, <2>1, <2>4 DEF Inv, Shape
<1>5. ASSUME call[t].op = "assign", obj' = Moved(call[t].on, call[t].from) PROVE Inv'
  <2>1. PICK p \in Objects : p = call[t].from /\ Owned(t, p) /\ p # o
    BY <1>2, <1>5 DEF Inv, CallsOwn, NoCall, CallReturns
  <2>2. /\ obj[o] \in Object /\ obj[p] \in Object
        /\ obj' = [obj EXCEPT ![o].mJoin = obj[p].mJoin, ![o].mTid = obj[p].mTid,
                              ![o].mLog = obj[p].mLog,
                              ![p].mJoin = FALSE, ![p].mLog = FALSE]
    BY <1>2, <1>5, <2>1 DEF Inv, Shape, Moved
  <2> DEFINE onto == [obj[o] EXCEPT !.mJoin = obj[p].mJoin, !.mTid = obj[p].mTid,
                                    !.mLog = obj[p].mLog]
             rest == [obj[p] EXCEPT !.mJoin = FALSE, !.mLog = FALSE]
  <2>3. /\ obj'[o] = onto /\ obj'[p] = rest
        /\ \A q \in Objects \ {o, p} : obj'[q] = obj[q]
    BY <2>1, <2>2 DEF Inv, Shape
  <2>4. onto \in Object /\ rest \in Object
    BY <2>2 DEF Object
  <2>5. /\ onto.life = obj[o].life /\ onto.owner = obj[o].owner /\ onto.mJoin = obj[p].mJoin
        /\ onto.mTid = obj[p].mTid /\ onto.mLog = obj[p].mLog
        /\ rest.life = obj[p].life /\ rest.owner = obj[p].owner /\ rest.mJoin = FALSE
    BY <2>2 DEF Object
  <2> HIDE DEF onto, rest
  <2>6. obj' \in [Objects -> Object]
    <3>1. obj' = [q \in Objects |-> obj'[q]]
      BY <2>2 DEF Inv, Shape
    <3>2. \A q \in Objects : obj'[q] \in Object
      BY <2>3, <2>4 DEF Inv, Shape
    <3>3. QED
      BY <3>1, <3>2
  <2>7. \A u \in Tids, q \in Objects : Owned(u, q) => Owned(u, q)'
    BY <2>3, <2>5 DEF Owned, Live
  <2>8. CallsOwn' /\ call' \in [Tids -> Blocked]
    BY <1>1, <2>7, ReturnedOwn
  <2>9. JoinersRight' /\ MainRuns'
    <3>1. obj'[o].life = "live" /\ Live(p)
      BY <1>2, <2>1, <2>3, <2>5 DEF Owned, Live
    <3>2. /\ obj'[o].mJoin = obj[p].mJoin /\ obj'[o].mTid = obj[p].mTid
          /\ obj'[o].mLog = obj[p].mLog /\ ~obj'[p].mJoin
      BY <2>3, <2>5
    <3>3. QED
      BY <1>1, <1>2, <2>1, <2>3, <3>1, <3>2, MoveRight
  <2>10. QED
    BY <1>1, <2>6, <2>8, <2>9 DEF Inv, Shape
<1>6. QED
  BY <1>2, <1>3, <1>4, <1>5 DEF CallReturns

LEMMA EnterStep ==
  ASSUME Inv, NEW t \in Tids, NEW op \in {"join", "dtor", "assign"},
         NEW o \in Objects, NEW p \in Objects \cup {None}, Owned(t, o),
         op = "assign" => p \in Objects /\ Owned(t, p) /\ p # o,
         Enter(t, op, o, p)
  PROVE  Inv'
<1> DEFINE new == [op |-> op, on |-> o, from |-> p]
<1>1. call' = [call EXCEPT ![t] = new] /\ UNCHANGED <<obj, os>>
  BY DEF Enter
<1>2. new \in Blocked
  BY DEF Blocked
<1>3. new.op = op /\ new.on = o /\ new.from = p
  OBVIOUS
<1> HIDE DEF new
<1>4. call' \in [Tids -> Blocked]
  BY <1>1, <1>2 DEF Inv, Shape
<1>5. call'[t] = new /\ \A u \in Tids \ {t} : call'[u] = call[u]
  BY <1>1 DEF Inv, Shape
<1>6. \A u \in Tids, q \in Objects : Owned(u, q)' = Owned(u, q)
  BY <1>1 DEF Owned, Live
<1>7. CallsOwn'
  BY <1>3, <1>5, <1>6 DEF Inv, CallsOwn
<1>8. QED
  BY <1>1, <1>4, <1>7, QuietStep DEF Inv, Shape

LEMMA ThreadCtorThrowsStep ==
  ASSUME Inv, NEW t \in Tids, NEW o \in Objects, ThreadCtorThrows(t, o)
  PROVE  Inv'
<1>1. /\ obj[o].life = "unborn" /\ UNCHANGED <<os, call>>
      /\ obj' = [obj EXCEPT ![o].life = "failed"]
  BY DEF ThreadCtorThrows
<1>2. obj' \in [Objects -> Object] /\ JoinersRight' /\ MainRuns'
  <2>1. ~Joiner(o)
    BY <1>1 DEF Joiner, Live
  <2>2. QED
    BY <1>1, <2>1, EndRight
<1>3. \A q \in Objects \ {o} : obj'[q] = obj[q]
  BY <1>1 DEF Inv, Shape
<1>4. CallsOwn'
  BY <1>1, <1>3, CallsStay DEF Inv, Owned, Live
<1>5. QED
  BY <1>1, <1>2, <1>4 DEF Inv, Shape

-----------------------------------------------------------------------------
(* The steps of the new thread.                                            *)
LEMMA PostThreadEntryInitStep ==
  ASSUME Inv, NEW u \in Tids, PostThreadEntryInit(u)
  PROVE  Inv'
<1>1. PICK s \in SchedRead(u) :
        os' = [os EXCEPT ![u].state = "body", ![u].prio = IF SetsNice(s) THEN Clamped(s.prio) ELSE @]
  BY DEF PostThreadEntryInit
<1>2. os[u].state = "entry" /\ UNCHANGED <<obj, call>>
  BY DEF PostThreadEntryInit
<1>3. os[u] \in Posix
  BY DEF Inv, Shape
<1>4. obj[os[u].This].mSched \in {None} \cup Scheds
  <2>1. PICK o \in Objects : o = os[u].This
    BY <1>2, <1>3 DEF Posix
  <2>2. obj[o].mSched \in {None} \cup Scheds
    BY DEF Inv, Shape, Object
  <2>3. QED
    BY <2>1, <2>2
<1>5. s \in {None} \cup Scheds
  BY <1>1, <1>4 DEF SchedRead
<1>6. PICK n : n = IF SetsNice(s) THEN Clamped(s.prio) ELSE os[u].prio
  OBVIOUS
<1>7. n \in Int
  BY <1>3, <1>5, <1>6 DEF SetsNice, Clamped, Scheds, Posix
<1>8. os' = [os EXCEPT ![u] = [os[u] EXCEPT !.state = "body", !.prio = n]]
  BY <1>1, <1>3, <1>6 DEF Inv, Shape
<1>9. [os[u] EXCEPT !.state = "body", !.prio = n] \in Posix
  BY <1>3, <1>7 DEF Posix
<1>10. os' \in [Tids -> Posix]
  BY <1>8, <1>9 DEF Inv, Shape
<1>11. /\ os'[u].state = "body" /\ os'[u].detached = os[u].detached
       /\ os'[u].reaped = os[u].reaped
       /\ \A v \in Tids \ {u} : os'[v] = os[v]
  BY <1>3, <1>8 DEF Inv, Shape, Posix
<1>12. CallsOwn'
  BY <1>2, CallsStay DEF Inv, Owned, Live
<1>13. JoinersRight' /\ MainRuns'
  BY <1>2, <1>10, <1>11, QuietStep
<1>14. QED
  BY <1>2, <1>10, <1>12, <1>13 DEF Inv, Shape

LEMMA ThreadReturnsStep ==
  ASSUME Inv, NEW u \in Tids, ThreadReturns(u)
  PROVE  Inv'
<1>1. /\ os[u].state = "body" /\ UNCHANGED <<obj, call>>
      /\ os' = [os EXCEPT ![u].state = "exited"]
  BY DEF ThreadReturns, Free
<1>2. os[u] \in Posix
  BY DEF Inv, Shape
<1>3. [os[u] EXCEPT !.state = "exited"] \in Posix
  BY <1>2 DEF Posix
<1>4. os' \in [Tids -> Posix]
  BY <1>1, <1>3 DEF Inv, Shape
<1>5. /\ os'[u].state = "exited" /\ os'[u].detached = os[u].detached
      /\ os'[u].reaped = os[u].reaped
      /\ \A v \in Tids \ {u} : os'[v] = os[v]
  BY <1>1, <1>2 DEF Inv, Shape, Posix
<1>6. CallsOwn'
  BY <1>1, CallsStay DEF Inv, Owned, Live
<1>7. JoinersRight' /\ MainRuns'
  BY <1>1, <1>4, <1>5, QuietStep
<1>8. QED
  BY <1>1, <1>4, <1>6, <1>7 DEF Inv, Shape

(* UpdatePriority() writes priorities, and nothing that joining is about.  *)
LEMMA UpdatePriorityStep ==
  ASSUME Inv, NEW t \in Tids, NEW o \in Objects, NEW prio \in Levels,
         UpdatePriority(t, o, prio)
  PROVE  Inv'
<1>1. prio \in Int
  BY ThreadAssumption
<1>2. PICK s : s = IF obj[o].mSched = None THEN None
                   ELSE [rt |-> obj[o].mSched.rt, prio |-> prio]
  OBVIOUS
<1>3. obj' = [obj EXCEPT ![o].mSched = s] /\ call' = call
  BY <1>2 DEF UpdatePriority
<1>4. obj[o] \in Object
  BY DEF Inv, Shape
<1>5. s \in {None} \cup Scheds
  BY <1>1, <1>2, <1>4 DEF Object, Scheds
<1>6. [obj[o] EXCEPT !.mSched = s] \in Object
  BY <1>4, <1>5 DEF Object
<1>7. obj' \in [Objects -> Object]
  BY <1>3, <1>6 DEF Inv, Shape
<1>8. \A q \in Objects :
        /\ obj'[q].life = obj[q].life /\ obj'[q].owner = obj[q].owner
        /\ obj'[q].mJoin = obj[q].mJoin /\ obj'[q].mTid = obj[q].mTid
        /\ obj'[q].mLog = obj[q].mLog
  BY <1>3, <1>4 DEF Inv, Shape, Object
<1>9. PICK x, n : n \in Int /\ (os' = os \/ os' = [os EXCEPT ![x].prio = n])
  <2>1. PICK y, n : n = Given(obj[o].mTid, prio) /\ y = PrioTarget(t, obj[o].mTid)
    OBVIOUS
  <2>2. n \in Int
    BY <1>1, <2>1 DEF Given, Clamped
  <2>3. os' = os \/ os' = [os EXCEPT ![y].prio = n]
    BY <2>1 DEF UpdatePriority, SetPrio
  <2>4. QED
    BY <2>2, <2>3
<1>10. /\ os' \in [Tids -> Posix]
       /\ \A v \in Tids : /\ os'[v].state = os[v].state
                          /\ os'[v].detached = os[v].detached
                          /\ os'[v].reaped = os[v].reaped
  <2>1. CASE os' = os
    BY <2>1 DEF Inv, Shape
  <2>2. CASE os' = [os EXCEPT ![x].prio = n] /\ x \in Tids
    <3>1. os[x] \in Posix
      BY <2>2 DEF Inv, Shape
    <3>2. [os[x] EXCEPT !.prio = n] \in Posix
      BY <1>9, <3>1 DEF Posix
    <3>3. /\ os'[x] = [os[x] EXCEPT !.prio = n]
          /\ \A v \in Tids \ {x} : os'[v] = os[v]
      BY <2>2 DEF Inv, Shape
    <3>4. os' \in [Tids -> Posix]
      BY <2>2, <3>2 DEF Inv, Shape
    <3>5. QED
      BY <3>1, <3>3, <3>4 DEF Posix
  <2>3. CASE os' = [os EXCEPT ![x].prio = n] /\ x \notin Tids
    <3>1. os' = [v \in Tids |-> os[v]]
      BY <2>3 DEF Inv, Shape
    <3>2. QED
      BY <3>1 DEF Inv, Shape
  <2>4. QED
    BY <1>9, <2>1, <2>2, <2>3
<1>11. CallsOwn'
  BY <1>3, <1>8, CallsStay DEF Inv, Owned, Live
<1>12. /\ \A u \in Tids : MustJoin(u)' = MustJoin(u)
       /\ \A q \in Objects : Joiner(q)' = Joiner(q)
  BY <1>8, <1>10 DEF MustJoin, Joiner, Live
<1>13. JoinersRight'
  BY <1>8, <1>12 DEF Inv, JoinersRight
<1>14. MainRuns'
  BY <1>10 DEF Inv, MainRuns
<1>15. QED
  BY <1>3, <1>7, <1>10, <1>11, <1>13, <1>14 DEF Inv, Shape

-----------------------------------------------------------------------------
LEMMA StutterStep == Inv /\ UNCHANGED <<obj, os, call>> => Inv'
<1> SUFFICES ASSUME Inv, UNCHANGED <<obj, os, call>> PROVE Inv'
  OBVIOUS
<1>1. CallsOwn'
  BY CallsStay DEF Inv, Owned, Live
<1>2. JoinersRight' /\ MainRuns'
  BY QuietStep DEF Inv, Shape
<1>3. QED
  BY <1>1, <1>2 DEF Inv, Shape

LEMMA NextInv == Beliefs /\ Inv /\ [Next]_vars => Inv'
<1> SUFFICES ASSUME Beliefs, Inv, [Next]_vars PROVE Inv'
  OBVIOUS
<1>1. CASE UNCHANGED vars
  BY <1>1, StutterStep DEF vars
<1>2. CASE Next
  <2>1. PICK t \in Tids : ThreadStep(t)
    BY <1>2 DEF Next
  <2>2. CASE \E o \in Objects, c \in Configs, u \in Tids : ThreadCtor(t, o, c, u)
    BY <2>2, ThreadCtorStep
  <2>3. CASE \E o \in Objects : ThreadCtorThrows(t, o)
    BY <2>3, ThreadCtorThrowsStep
  <2>4. ASSUME NEW o \in Objects, Join(t, o) PROVE Inv'
    BY <2>4, EnterStep DEF Join
  <2>5. ASSUME NEW o \in Objects, Dtor(t, o) PROVE Inv'
    BY <2>5, EnterStep DEF Dtor
  <2>6. CASE \E o \in Objects : Detach(t, o)
    BY <2>6, DetachStep
  <2>7. CASE \E o, p \in Objects : MoveCtor(t, o, p)
    BY <2>7, MoveCtorStep
  <2>8. ASSUME NEW o \in Objects, NEW p \in Objects, MoveAssign(t, o, p) PROVE Inv'
    BY <2>8, EnterStep DEF MoveAssign
  <2>9. CASE \E o \in Objects, prio \in Levels : UpdatePriority(t, o, prio)
    BY <2>9, UpdatePriorityStep
  <2>10. CASE PostThreadEntryInit(t)
    BY <2>10, PostThreadEntryInitStep
  <2>11. CASE PostThreadEntryInitThrows(t)
    BY <2>11, StutterStep DEF PostThreadEntryInitThrows
  <2>12. CASE ThreadReturns(t)
    BY <2>12, ThreadReturnsStep
  <2>13. CASE PthreadJoin(t)
    BY <2>13, PthreadJoinStep
  <2>14. CASE CallReturns(t)
    BY <2>14, CallReturnsStep
  <2>15. CASE \E o \in Objects, prio \in Levels : UpdatePriorityThrows(t, o, prio)
    BY <2>15, StutterStep DEF UpdatePriorityThrows
  <2>16. QED
    BY <2>1, <2>2, <2>3, <2>4, <2>5, <2>6, <2>7, <2>8, <2>9, <2>10, <2>11, <2>12, <2>13, <2>14,
       <2>15
       DEF ThreadStep, Proceeds
<1>3. QED
  BY <1>1, <1>2

(* Only Detach() and the attributes detach threads.                        *)
LEMMA UndetachedStep ==
  ASSUME NeverDetached, Inv, Undetached, [Next]_vars
  PROVE  Undetached'
<1>1. CASE UNCHANGED os
  BY <1>1 DEF Undetached
<1>2. ASSUME NEW t \in Tids, NEW o \in Objects, NEW c \in Configs, NEW u \in Tids,
             ThreadCtor(t, o, c, u)
      PROVE  Undetached'
  <2>1. ~AttrDetached(t, c)
    BY DEF NeverDetached, Undetached, AttrDetached
  <2>2. ~os'[u].detached /\ \A v \in Tids \ {u} : os'[v] = os[v]
    BY <1>2, <2>1 DEF ThreadCtor, Created, Inv, Shape
  <2>3. QED
    BY <2>2 DEF Undetached
<1>3. ASSUME NEW t \in Tids, NEW o \in Objects, NEW prio \in Levels,
             UpdatePriority(t, o, prio)
      PROVE  Undetached'
  <2>1. PICK x, n : os' = os \/ os' = [os EXCEPT ![x].prio = n]
    BY <1>3 DEF UpdatePriority, SetPrio
  <2>2. QED
    BY <2>1 DEF Inv, Shape, Posix, Undetached
<1>4. ASSUME NEW t \in Tids, PostThreadEntryInit(t) PROVE Undetached'
  <2>1. PICK n : os' = [os EXCEPT ![t].state = "body", ![t].prio = n]
    BY <1>4 DEF PostThreadEntryInit
  <2>2. QED
    BY <2>1 DEF Inv, Shape, Posix, Undetached
<1>5. ASSUME NEW t \in Tids, ThreadReturns(t) PROVE Undetached'
  BY <1>5 DEF ThreadReturns, Inv, Shape, Posix, Undetached
<1>6. ASSUME NEW t \in Tids, PthreadJoin(t) PROVE Undetached'
  <2>1. PICK u, b : os' = [os EXCEPT ![u].reaped = b]
    BY <1>6 DEF PthreadJoin
  <2>2. QED
    BY <2>1 DEF Inv, Shape, Posix, Undetached
<1>7. ASSUME NEW t \in Tids, NEW o \in Objects, NEW p \in Objects,
             \/ ThreadCtorThrows(t, o) \/ Join(t, o) \/ Dtor(t, o)
             \/ MoveCtor(t, o, p) \/ MoveAssign(t, o, p)
      PROVE  UNCHANGED os
  BY <1>7 DEF ThreadCtorThrows, Join, Dtor, MoveCtor, MoveAssign, Enter
<1>8. ASSUME NEW t \in Tids, PostThreadEntryInitThrows(t) \/ CallReturns(t)
      PROVE  UNCHANGED os
  BY <1>8 DEF PostThreadEntryInitThrows, CallReturns
<1>9. ASSUME NEW t \in Tids, NEW o \in Objects PROVE ~Detach(t, o)
  BY DEF NeverDetached, Detach
<1>10. ASSUME NEW t \in Tids, NEW o \in Objects, NEW prio \in Levels,
              UpdatePriorityThrows(t, o, prio)
       PROVE  UNCHANGED os
  BY <1>10 DEF UpdatePriorityThrows
<1>11. QED
  BY <1>1, <1>2, <1>3, <1>4, <1>5, <1>6, <1>7, <1>8, <1>9, <1>10
     DEF Next, ThreadStep, Proceeds, vars

LEMMA Invariant ==
  ASSUME DetachKnown
  PROVE  Spec => []Inv
<1>1. CASE NeverDetached
  <2>1. Start => Undetached
    BY DEF Start, Undetached, Absent
  <2>2. Inv /\ Undetached /\ [Next]_vars => Inv' /\ Undetached'
    BY <1>1, BeliefRight, NextInv, UndetachedStep
  <2>3. QED
    BY <2>1, <2>2, StartInv, PTL DEF Spec
<1>2. CASE ~NeverDetached
  <2>1. Inv /\ [Next]_vars => Inv'
    BY <1>2, BeliefRight, NextInv
  <2>2. QED
    BY <2>1, StartInv, PTL DEF Spec
<1>3. QED
  BY <1>1, <1>2

(* An object that joins has the log Join() writes to, whatever it was      *)
(* moved from: Join() and the move operations.                             *)
THEOREM JoinersLog ==
  ASSUME DetachKnown
  PROVE  Spec => []JoinerLogs
<1>1. Inv => JoinerLogs
  BY DEF Inv, JoinersRight, JoinerLogs, Joiner
<1>2. QED
  BY <1>1, Invariant, PTL

(* No thread is leaked and none is joined twice: exactly one object will   *)
(* join a thread that has to be joined, and none any other.                *)
THEOREM JoinedOnce ==
  ASSUME DetachKnown
  PROVE  Spec => []OneJoiner
<1>1. Inv => OneJoiner
  <2> SUFFICES ASSUME Inv, NEW u \in Tids
               PROVE  Cardinality(JoinersOf(u)) = IF MustJoin(u) THEN 1 ELSE 0
    BY DEF OneJoiner
  <2>1. JoinersOf(u) = {o \in Objects : Joiner(o) /\ obj[o].mTid = u}
    BY DEF JoinersOf, Joiner
  <2>2. CASE MustJoin(u)
    <3>1. PICK o \in Objects : Joiner(o) /\ obj[o].mTid = u
      BY <2>2 DEF Inv, JoinersRight
    <3>2. \A p \in Objects : Joiner(p) /\ obj[p].mTid = u => p = o
      BY <3>1 DEF Inv, JoinersRight
    <3>3. JoinersOf(u) = {o}
      BY <2>1, <3>1, <3>2
    <3>4. QED
      BY <2>2, <3>3, FS_Singleton
  <2>3. CASE ~MustJoin(u)
    <3>1. JoinersOf(u) = {}
      BY <2>1, <2>3 DEF Inv, JoinersRight
    <3>2. QED
      BY <2>3, <3>1, FS_EmptySet
  <2>4. QED
    BY <2>2, <2>3
<1>2. QED
  BY <1>1, Invariant, PTL

-----------------------------------------------------------------------------
(* While thread t is in a call on object o only that call can make the     *)
(* object give up joining, and pthread_join has then waited.               *)
LEMMA OnlyJoinUnjoins ==
  ASSUME Inv, [Next]_vars, NEW t \in Tids, NEW o \in Objects,
         call[t] # NoCall, call[t].on = o, obj[o].mJoin, ~obj'[o].mJoin
  PROVE  os[obj[o].mTid].state = "exited"
<1>1. Owned(t, o)
  BY DEF Inv, CallsOwn
<1>2. obj[o] \in Object
  BY DEF Inv, Shape
<1>3. \A s \in Tids, q \in Objects : Free(s) /\ Owned(s, q) => q # o
  BY <1>1 DEF Free, Owned
<1>4. \A q \in Objects : obj[q].life = "unborn" => q # o
  BY <1>1 DEF Owned, Live
<1>5. obj'[o] # obj[o] /\ obj' # obj
  OBVIOUS
<1>6. PICK s \in Tids : ThreadStep(s)
  BY <1>5 DEF Next, vars
<1>7. ASSUME NEW q \in Objects, NEW c \in Configs, NEW u \in Tids, ThreadCtor(s, q, c, u)
      PROVE  FALSE
  BY <1>4, <1>5, <1>7 DEF ThreadCtor, Inv, Shape
<1>8. ASSUME NEW q \in Objects, ThreadCtorThrows(s, q) PROVE FALSE
  BY <1>4, <1>5, <1>8 DEF ThreadCtorThrows, Inv, Shape
<1>9. ASSUME NEW q \in Objects, Join(s, q) \/ Dtor(s, q) PROVE FALSE
  BY <1>5, <1>9 DEF Join, Dtor, Enter
<1>10. ASSUME NEW q \in Objects, Detach(s, q) PROVE FALSE
  BY <1>3, <1>5, <1>10 DEF Detach, Inv, Shape
<1>11. ASSUME NEW q \in Objects, NEW p \in Objects, MoveCtor(s, q, p) PROVE FALSE
  <2>1. q # o /\ p # o
    BY <1>3, <1>4, <1>11 DEF MoveCtor
  <2>2. QED
    BY <1>5, <1>11, <2>1 DEF MoveCtor, Inv, Shape
<1>12. ASSUME NEW q \in Objects, NEW p \in Objects, MoveAssign(s, q, p) PROVE FALSE
  BY <1>5, <1>12 DEF MoveAssign, Enter
<1>13. ASSUME NEW q \in Objects, NEW prio \in Levels, UpdatePriority(s, q, prio) PROVE FALSE
  <2>1. q # o
    BY <1>3, <1>13 DEF UpdatePriority
  <2>2. QED
    BY <1>5, <1>13, <2>1 DEF UpdatePriority, Inv, Shape
<1>14. ASSUME PostThreadEntryInit(s) \/ PostThreadEntryInitThrows(s) \/ ThreadReturns(s)
       PROVE  FALSE
  BY <1>5, <1>14 DEF PostThreadEntryInit, PostThreadEntryInitThrows, ThreadReturns
<1>15. ASSUME PthreadJoin(s) PROVE os[obj[o].mTid].state = "exited"
  <2>1. PICK q \in Objects : q = call[s].on
    BY <1>15, JoinsEnded
  <2>2. obj' = [obj EXCEPT ![q].mJoin = FALSE]
    BY <1>15, <2>1 DEF PthreadJoin
  <2>3. q = o
    BY <1>5, <2>2 DEF Inv, Shape
  <2>4. QED
    BY <1>15, <2>1, <2>3, JoinsEnded
<1>16. ASSUME CallReturns(s) PROVE FALSE
  <2>1. /\ call[s] # NoCall /\ ~obj[call[s].on].mJoin
        /\ call[s].on \in Objects /\ Owned(s, call[s].on)
    BY <1>16 DEF CallReturns, Inv, CallsOwn
  <2>2. s # t /\ call[s].on # o
    BY <2>1
  <2>3. PICK q \in Objects : q = call[s].on
    BY <2>1
  <2>4. CASE obj' = [obj EXCEPT ![q].life = "gone"]
    BY <1>5, <2>2, <2>3, <2>4 DEF Inv, Shape
  <2>5. ASSUME call[s].op = "assign", obj' = Moved(q, call[s].from) PROVE FALSE
    <3>1. PICK p \in Objects : p = call[s].from /\ Owned(s, p)
      BY <2>1, <2>5 DEF Inv, CallsOwn
    <3>2. p # o
      BY <1>1, <2>2, <3>1 DEF Owned
    <3>3. QED
      BY <1>5, <2>2, <2>3, <2>5, <3>1, <3>2 DEF Moved, Inv, Shape
  <2>6. QED
    BY <1>5, <1>16, <2>3, <2>4, <2>5 DEF CallReturns
<1>17. ASSUME NEW q \in Objects, NEW prio \in Levels, UpdatePriorityThrows(s, q, prio)
       PROVE  FALSE
  BY <1>5, <1>17 DEF UpdatePriorityThrows
<1>18. QED
  BY <1>6, <1>7, <1>8, <1>9, <1>10, <1>11, <1>12, <1>13, <1>14, <1>15, <1>16, <1>17
     DEF ThreadStep, Proceeds

(* Join(), the destructor and move-assignment do not come past their join  *)
(* before the thread has ended, whatever other threads do to their own     *)
(* objects in the meantime.                                                *)
THEOREM JoinsWait ==
  ASSUME DetachKnown
  PROVE  Spec => JoinWaits
<1>1. Inv /\ [Next]_vars
        => [\A t \in Tids : Joins(t) => os[obj[call[t].on].mTid].state = "exited"]_vars
  <2> SUFFICES ASSUME Inv, [Next]_vars, NEW t \in Tids, Joins(t)
               PROVE  os[obj[call[t].on].mTid].state = "exited"
    OBVIOUS
  <2>1. PICK o \in Objects : o = call[t].on
    BY DEF Joins, Inv, CallsOwn
  <2>2. call[t] # NoCall /\ obj[o].mJoin /\ ~obj'[o].mJoin
    BY <2>1 DEF Joins
  <2>3. QED
    BY <2>1, <2>2, OnlyJoinUnjoins
<1>2. QED
  BY <1>1, Invariant, PTL DEF Spec, JoinWaits

=============================================================================
