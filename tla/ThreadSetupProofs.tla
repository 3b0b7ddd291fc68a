--------------------------- MODULE ThreadSetupProofs ---------------------------
(***************************************************************************)
(* How Axzl::Thread sets a new thread up, for any number of objects and    *)
(* threads, any configurations and any priorities: the types, the object   *)
(* PostThreadEntryInit() reads and the priority it leaves.                 *)
(***************************************************************************)
EXTENDS ThreadProofs

USE ThreadAssumption, ConfigsAssumption

-----------------------------------------------------------------------------
(* The priorities a real-time and another thread may have.                 *)
PrioRange(rt) == IF rt THEN 1..99 ELSE -20..19

PriosFit ==
  \A u \in Tids : os[u].prio \in PrioRange(os[u].rt) /\ want[u] \in PrioRange(os[u].rt)

(* A thread that has not set itself up yet was started as the mSched of    *)
(* its object says, and the object has not been a younger one since.       *)
Born(o) == obj[o].life # "unborn"

EntryFits ==
  \A u \in Tids, o \in Objects : os[u].state = "entry" /\ os[u].This = o =>
    Born(o) /\ (obj[o].mSched = None \/ obj[o].mSched.rt = os[u].rt)

TidsKnown == \A o \in Objects : Live(o) => obj[o].mTid \in Tids

Setup ==
  /\ Shape /\ CallsOwn /\ want \in [Tids -> Int] /\ up \in BOOLEAN
  /\ PriosFit /\ EntryFits /\ TidsKnown

LEMMA StartSetup == Start => Setup
<1> SUFFICES ASSUME Start PROVE Setup
  OBVIOUS
<1>1. Shape /\ CallsOwn
  BY StartInv DEF Inv
<1>2. \A u \in Tids : ~os[u].rt /\ os[u].prio = 0 /\ want[u] = 0 /\ os[u].state # "entry"
  BY DEF Start, Absent
<1>3. \A o \in Objects : ~Live(o)
  BY DEF Start, Live, Blank
<1>4. want \in [Tids -> Int] /\ up \in BOOLEAN
  BY DEF Start
<1>5. QED
  BY <1>1, <1>2, <1>3, <1>4 DEF Setup, PriosFit, PrioRange, EntryFits, TidsKnown

(* A step that leaves the threads alone.                                   *)
LEMMA ObjectsSetup ==
  ASSUME Setup, UNCHANGED <<os, want>>, up' \in BOOLEAN, CallsOwn',
         obj' \in [Objects -> Object], call' \in [Tids -> Blocked],
         \A o \in Objects : Live(o)' => obj'[o].mTid \in Tids,
         \A o \in Objects : Born(o) => Born(o)' /\ obj'[o].mSched = obj[o].mSched
  PROVE  Setup'
<1>1. Shape'
  BY DEF Setup, Shape
<1>2. PriosFit' /\ TidsKnown'
  BY DEF Setup, PriosFit, TidsKnown
<1>3. EntryFits'
  BY DEF Setup, EntryFits
<1>4. QED
  BY <1>1, <1>2, <1>3 DEF Setup

(* A step that leaves calls, lives and owners alone; mSched may get        *)
(* another priority of the same kind.                                      *)
SameSched(s, r) == s = r \/ (s # None /\ s.rt = r.rt)

LEMMA ThreadsSetup ==
  ASSUME Setup, UNCHANGED <<call, up>>, os' \in [Tids -> Posix], want' \in [Tids -> Int],
         obj' \in [Objects -> Object],
         \A o \in Objects :
           /\ obj'[o].life = obj[o].life /\ obj'[o].owner = obj[o].owner
           /\ obj'[o].mTid = obj[o].mTid /\ SameSched(obj[o].mSched, obj'[o].mSched),
         \A u \in Tids :
           /\ os'[u].rt = os[u].rt
           /\ os'[u].state = "entry" => os[u].state = "entry" /\ os'[u].This = os[u].This
           /\ os'[u].prio \in PrioRange(os[u].rt) /\ want'[u] \in PrioRange(os[u].rt)
  PROVE  Setup'
<1>1. Shape'
  BY DEF Setup, Shape
<1>2. CallsOwn'
  BY CallsStay DEF Setup, Owned, Live
<1>3. PriosFit' /\ TidsKnown'
  BY DEF Setup, PriosFit, TidsKnown, Live
<1>4. EntryFits'
  BY DEF Setup, EntryFits, Born, SameSched
<1>5. QED
  BY <1>1, <1>2, <1>3, <1>4 DEF Setup

-----------------------------------------------------------------------------
(* The constructor.  The attributes fit each other for every configuration *)
(* that Attributes() lets pass, inherited or not.                          *)
LEMMA CreatedFits ==
  ASSUME Setup, NEW t \in Tids, NEW u \in Tids, NEW o \in Objects, NEW c \in Configs,
         ~AttributesReject(c)
  PROVE  /\ Created(t, u, o, c) \in Posix
         /\ AttrSched(t, c).prio \in PrioRange(AttrSched(t, c).rt)
         /\ c.mSched = None => AttrSched(t, c).prio = os[t].prio /\ AttrSched(t, c).rt = os[t].rt
         /\ c.mSched # None => /\ AttrSched(t, c).rt = c.mSched.rt
                               /\ c.mSched.prio \in PrioRange(c.mSched.rt)
                               /\ c.mSched.rt => AttrSched(t, c).prio = c.mSched.prio
<1>1. /\ c.mSched \in {None} \cup Scheds /\ c.mInherit \in BOOLEAN
      /\ c.mDetach \in BOOLEAN \cup {None}
  BY DEF Config
<1>2. os[t] \in Posix /\ os[t].prio \in PrioRange(os[t].rt)
  BY DEF Setup, Shape, PriosFit
<1>3. /\ os[t].rt \in BOOLEAN /\ os[t].detached \in BOOLEAN /\ os[t].prio \in Int
      /\ os[t].stack \in Tids \cup {None}
  BY <1>2 DEF Posix
<1>4. /\ AttrSched(t, c).prio \in PrioRange(AttrSched(t, c).rt)
      /\ AttrSched(t, c).rt \in BOOLEAN
      /\ c.mSched = None => AttrSched(t, c).prio = os[t].prio /\ AttrSched(t, c).rt = os[t].rt
      /\ c.mSched # None => /\ AttrSched(t, c).rt = c.mSched.rt
                            /\ c.mSched.prio \in PrioRange(c.mSched.rt)
                            /\ c.mSched.rt => AttrSched(t, c).prio = c.mSched.prio
  <2>1. CASE c.mSched = None
    BY <1>2, <1>3, <2>1 DEF AttrSched
  <2>2. CASE c.mSched # None /\ c.mSched.rt
    <3>1. AttrSched(t, c) = c.mSched /\ c.mSched.rt \in BOOLEAN
      BY <1>1, <2>2 DEF AttrSched, Scheds
    <3>2. c.mSched.prio \in 1..99
      BY <2>2 DEF AttributesReject
    <3>3. QED
      BY <2>2, <3>1, <3>2 DEF PrioRange
  <2>3. CASE c.mSched # None /\ ~c.mSched.rt
    <3>1. c.mSched.prio \in -20..19 /\ c.mSched.rt = FALSE
      BY <1>1, <2>3 DEF AttributesReject, Scheds
    <3>2. AttrSched(t, c).rt = FALSE /\ AttrSched(t, c).prio = IF os[t].rt THEN 0 ELSE os[t].prio
      BY <2>3 DEF AttrSched
    <3>3. AttrSched(t, c).prio \in -20..19
      BY <1>2, <1>3, <3>2 DEF PrioRange
    <3>4. QED
      BY <2>3, <3>1, <3>2, <3>3 DEF PrioRange
  <2>4. QED
    BY <2>1, <2>2, <2>3
<1>5. Created(t, u, o, c) \in Posix
  BY CreatedType DEF Setup
<1>6. QED
  BY <1>4, <1>5

LEMMA ThreadCtorSetup ==
  ASSUME Setup, NEW t \in Tids, NEW o \in Objects, NEW c \in Configs, NEW u \in Tids,
         ThreadCtor(t, o, c, u)
  PROVE  Setup'
<1> DEFINE new == [life |-> "live", owner |-> t, mJoin |-> JoinsLater(c),
                   mTid |-> u, mSched |-> c.mSched, mLog |-> TRUE]
           asked == IF c.mSched = None THEN os[t].prio ELSE c.mSched.prio
<1>1. /\ obj[o].life = "unborn" /\ os[u].state = "none" /\ UNCHANGED <<call, up>>
      /\ obj' = [obj EXCEPT ![o] = new] /\ os' = [os EXCEPT ![u] = Created(t, u, o, c)]
      /\ want' = [want EXCEPT ![u] = asked] /\ ~AttributesReject(c)
  BY DEF ThreadCtor
<1>2. /\ obj'[o] = new /\ \A q \in Objects \ {o} : obj'[q] = obj[q]
      /\ os'[u] = Created(t, u, o, c) /\ \A v \in Tids \ {u} : os'[v] = os[v]
      /\ want'[u] = asked /\ \A v \in Tids \ {u} : want'[v] = want[v]
  BY <1>1 DEF Setup, Shape
<1>3. c.mSched \in {None} \cup Scheds /\ c.mDetach \in BOOLEAN \cup {None}
  BY DEF Config
<1>4. JoinsLater(c) \in BOOLEAN
  BY <1>3 DEF JoinsLater
<1>5. new \in Object
  BY <1>3, <1>4 DEF Object
<1>6. asked \in Int /\ asked \in PrioRange(AttrSched(t, c).rt)
  <2>1. os[t].prio \in PrioRange(os[t].rt)
    BY DEF Setup, PriosFit
  <2>2. asked \in PrioRange(AttrSched(t, c).rt)
    BY <1>1, <2>1, CreatedFits
  <2> HIDE DEF asked
  <2>3. QED
    BY <2>2 DEF PrioRange
<1>7. /\ os'[u].rt = AttrSched(t, c).rt /\ os'[u].prio = AttrSched(t, c).prio
      /\ os'[u].This = o
  BY <1>2 DEF Created
<1>8. obj'[o].life = "live" /\ obj'[o].mTid = u /\ obj'[o].mSched = c.mSched
  BY <1>2
<1> HIDE DEF new, asked
<1>9. Shape' /\ want' \in [Tids -> Int]
  BY <1>1, <1>5, <1>6, CreatedFits DEF Setup, Shape
<1>10. CallsOwn'
  BY <1>1, <1>2, CallsStay DEF Setup, Owned, Live
<1>11. PriosFit'
  BY <1>1, <1>2, <1>6, <1>7, CreatedFits DEF Setup, PriosFit
<1>12. TidsKnown'
  BY <1>2, <1>8 DEF Setup, TidsKnown, Live
<1>13. EntryFits'
  <2> SUFFICES ASSUME NEW v \in Tids, NEW q \in Objects, os'[v].state = "entry", os'[v].This = q
               PROVE  Born(q)' /\ (obj'[q].mSched = None \/ obj'[q].mSched.rt = os'[v].rt)
    BY DEF EntryFits
  <2>1. CASE v = u
    BY <1>1, <1>7, <1>8, <2>1, CreatedFits DEF Born
  <2>2. CASE v # u
    BY <1>1, <1>2, <2>2 DEF Setup, EntryFits, Born
  <2>3. QED
    BY <2>1, <2>2
<1>14. QED
  BY <1>1, <1>9, <1>10, <1>11, <1>12, <1>13 DEF Setup

-----------------------------------------------------------------------------
(* Moves and the ends of objects.                                          *)
LEMMA MoveCtorSetup ==
  ASSUME Setup, NEW t \in Tids, NEW o \in Objects, NEW p \in Objects, MoveCtor(t, o, p)
  PROVE  Setup'
<1> DEFINE new == [life |-> "live", owner |-> t, mJoin |-> obj[p].mJoin,
                   mTid |-> obj[p].mTid, mSched |-> None, mLog |-> obj[p].mLog]
<1>1. /\ obj[o].life = "unborn" /\ Owned(t, p) /\ o # p /\ UNCHANGED <<os, call, want, up>>
      /\ obj' = [obj EXCEPT ![o] = new, ![p].mJoin = FALSE, ![p].mLog = FALSE]
  BY DEF MoveCtor, Owned, Live
<1>2. obj[p] \in Object /\ obj[p].mTid \in Tids
  BY <1>1 DEF Setup, Shape, TidsKnown, Owned
<1>3. /\ obj'[o] = new /\ obj'[p] = [obj[p] EXCEPT !.mJoin = FALSE, !.mLog = FALSE]
      /\ \A q \in Objects \ {o, p} : obj'[q] = obj[q]
  BY <1>1 DEF Setup, Shape
<1>4. new \in Object /\ [obj[p] EXCEPT !.mJoin = FALSE, !.mLog = FALSE] \in Object
  BY <1>2 DEF Object
<1>5. /\ obj'[p].life = obj[p].life /\ obj'[p].owner = obj[p].owner
      /\ obj'[p].mTid = obj[p].mTid /\ obj'[p].mSched = obj[p].mSched
      /\ obj'[o].mTid = obj[p].mTid
  BY <1>2, <1>3 DEF Object
<1> HIDE DEF new
<1>6. obj' \in [Objects -> Object] /\ call' \in [Tids -> Blocked] /\ up' \in BOOLEAN
  BY <1>1, <1>4 DEF Setup, Shape
<1>7. CallsOwn'
  BY <1>1, <1>3, <1>5, CallsStay DEF Setup, Owned, Live
<1>8. /\ \A q \in Objects : Live(q)' => obj'[q].mTid \in Tids
      /\ \A q \in Objects : Born(q) => Born(q)' /\ obj'[q].mSched = obj[q].mSched
  BY <1>1, <1>2, <1>3, <1>5 DEF Setup, TidsKnown, Live, Born
<1>9. QED
  BY <1>1, <1>6, <1>7, <1>8, ObjectsSetup

(* Object o comes to its end.                                              *)
LEMMA EndSetup ==
  ASSUME Setup, NEW o \in Objects, NEW l \in {"failed", "gone"},
         obj' = [obj EXCEPT ![o].life = l], UNCHANGED <<os, want, up>>,
         CallsOwn', call' \in [Tids -> Blocked]
  PROVE  Setup'
<1>1. obj[o] \in Object
  BY DEF Setup, Shape
<1>2. [obj[o] EXCEPT !.life = l] \in Object
  BY <1>1 DEF Object
<1>3. obj'[o] = [obj[o] EXCEPT !.life = l] /\ \A q \in Objects \ {o} : obj'[q] = obj[q]
  BY DEF Setup, Shape
<1>4. obj'[o].life = l /\ obj'[o].mSched = obj[o].mSched
  BY <1>1, <1>3 DEF Object
<1>5. obj' \in [Objects -> Object] /\ up' \in BOOLEAN
  BY <1>2 DEF Setup, Shape
<1>6. /\ \A q \in Objects : Live(q)' => obj'[q].mTid \in Tids
      /\ \A q \in Objects : Born(q) => Born(q)' /\ obj'[q].mSched = obj[q].mSched
  BY <1>3, <1>4 DEF Setup, TidsKnown, Live, Born
<1>7. QED
  BY <1>5, <1>6, ObjectsSetup

LEMMA ReturnedSetup ==
  ASSUME Setup, NEW t \in Tids, call' = [call EXCEPT ![t] = NoCall],
         \A u \in Tids \ {t}, o \in Objects : Owned(u, o) => Owned(u, o)'
  PROVE  CallsOwn' /\ call' \in [Tids -> Blocked]
<1>1. NoCall \in Blocked
  BY DEF NoCall, Blocked
<1>2. call'[t] = NoCall /\ \A u \in Tids \ {t} : call'[u] = call[u]
  BY DEF Setup, Shape
<1>3. QED
  BY <1>1, <1>2 DEF Setup, Shape, CallsOwn

LEMMA CallReturnsSetup ==
  ASSUME Setup, NEW t \in Tids, CallReturns(t)
  PROVE  Setup'
<1>1. /\ call' = [call EXCEPT ![t] = NoCall] /\ UNCHANGED <<os, want, up>>
  BY DEF CallReturns
<1>2. PICK o \in Objects : o = call[t].on /\ Owned(t, o)
  BY DEF CallReturns, Setup, CallsOwn
<1>3. up' \in BOOLEAN
  BY <1>1 DEF Setup
<1>4. CASE UNCHANGED obj
  <2>1. CallsOwn' /\ call' \in [Tids -> Blocked]
    BY <1>1, <1>4, ReturnedSetup DEF Owned, Live
  <2>2. QED
    BY <1>1, <1>3, <1>4, <2>1, ObjectsSetup DEF Setup, Shape, TidsKnown, Live, Born
<1>5. CASE obj' = [obj EXCEPT ![o].life = "gone"]
  <2>1. \A q \in Objects \ {o} : obj'[q] = obj[q]
    BY <1>5 DEF Setup, Shape
  <2>2. \A u \in Tids \ {t} : ~Owned(u, o)
    BY <1>2 DEF Owned
  <2>3. CallsOwn' /\ call' \in [Tids -> Blocked]
    BY <1>1, <2>1, <2>2, ReturnedSetup DEF Owned, Live
  <2>4. QED
    BY <1>1, <1>5, <2>3, EndSetup
<1>6. ASSUME call[t].op = "assign", obj' = Moved(call[t].on, call[t].from) PROVE Setup'
  <2>1. PICK p \in Objects : p = call[t].from /\ Owned(t, p) /\ p # o
    BY <1>2, <1>6 DEF Setup, CallsOwn, NoCall, CallReturns
  <2>2. /\ obj[o] \in Object /\ obj[p] \in Object /\ obj[p].mTid \in Tids
        /\ obj' = [obj EXCEPT ![o].mJoin = obj[p].mJoin, ![o].mTid = obj[p].mTid,
                              ![o].mLog = obj[p].mLog,
                              ![p].mJoin = FALSE, ![p].mLog = FALSE]
    BY <1>2, <1>6, <2>1 DEF Setup, Shape, TidsKnown, Owned, Moved
  <2> DEFINE onto == [obj[o] EXCEPT !.mJoin = obj[p].mJoin, !.mTid = obj[p].mTid,
                                    !.mLog = obj[p].mLog]
             rest == [obj[p] EXCEPT !.mJoin = FALSE, !.mLog = FALSE]
  <2>3. /\ obj'[o] = onto /\ obj'[p] = rest
        /\ \A q \in Objects \ {o, p} : obj'[q] = obj[q]
    BY <2>1, <2>2 DEF Setup, Shape
  <2>4. onto \in Object /\ rest \in Object
    BY <2>2 DEF Object
  <2>5. /\ onto.life = obj[o].life /\ onto.owner = obj[o].owner
        /\ onto.mTid = obj[p].mTid /\ onto.mSched = obj[o].mSched
        /\ rest.life = obj[p].life /\ rest.owner = obj[p].owner
        /\ rest.mTid = obj[p].mTid /\ rest.mSched = obj[p].mSched
    BY <2>2 DEF Object
  <2> HIDE DEF onto, rest
  <2>6. obj' \in [Objects -> Object]
    <3>1. obj' = [q \in Objects |-> obj'[q]]
      BY <2>2 DEF Setup, Shape
    <3>2. \A q \in Objects : obj'[q] \in Object
      BY <2>3, <2>4 DEF Setup, Shape
    <3>3. QED
      BY <3>1, <3>2
  <2>7. \A u \in Tids, q \in Objects : Owned(u, q) => Owned(u, q)'
    BY <2>3, <2>5 DEF Owned, Live
  <2>8. CallsOwn' /\ call' \in [Tids -> Blocked]
    BY <1>1, <2>7, ReturnedSetup
  <2>9. /\ \A q \in Objects : Live(q)' => obj'[q].mTid \in Tids
        /\ \A q \in Objects : Born(q) => Born(q)' /\ obj'[q].mSched = obj[q].mSched
    BY <2>2, <2>3, <2>5 DEF Setup, TidsKnown, Live, Born
  <2>10. QED
    BY <1>1, <1>3, <2>6, <2>8, <2>9, ObjectsSetup
<1>7. QED
  BY <1>2, <1>4, <1>5, <1>6 DEF CallReturns

LEMMA EnterSetup ==
  ASSUME Setup, NEW t \in Tids, NEW op \in {"join", "dtor", "assign"},
         NEW o \in Objects, NEW p \in Objects \cup {None}, Owned(t, o),
         op = "assign" => p \in Objects /\ Owned(t, p) /\ p # o,
         Enter(t, op, o, p)
  PROVE  Setup'
<1> DEFINE new == [op |-> op, on |-> o, from |-> p]
<1>1. call' = [call EXCEPT ![t] = new] /\ UNCHANGED <<obj, os, want, up>>
  BY DEF Enter
<1>2. new \in Blocked
  BY DEF Blocked
<1>3. new.op = op /\ new.on = o /\ new.from = p
  OBVIOUS
<1> HIDE DEF new
<1>4. call' \in [Tids -> Blocked]
  BY <1>1, <1>2 DEF Setup, Shape
<1>5. call'[t] = new /\ \A u \in Tids \ {t} : call'[u] = call[u]
  BY <1>1 DEF Setup, Shape
<1>6. \A u \in Tids, q \in Objects : Owned(u, q)' = Owned(u, q)
  BY <1>1 DEF Owned, Live
<1>7. CallsOwn'
  BY <1>3, <1>5, <1>6 DEF Setup, CallsOwn
<1>8. QED
  BY <1>1, <1>4, <1>7, ObjectsSetup DEF Setup, Shape, TidsKnown, Live, Born

LEMMA ThreadCtorThrowsSetup ==
  ASSUME Setup, NEW t \in Tids, NEW o \in Objects, ThreadCtorThrows(t, o)
  PROVE  Setup'
<1>1. /\ obj[o].life = "unborn" /\ UNCHANGED <<os, call, want, up>>
      /\ obj' = [obj EXCEPT ![o].life = "failed"]
  BY DEF ThreadCtorThrows
<1>2. \A q \in Objects \ {o} : obj'[q] = obj[q]
  BY <1>1 DEF Setup, Shape
<1>3. CallsOwn'
  BY <1>1, <1>2, CallsStay DEF Setup, Owned, Live
<1>4. QED
  BY <1>1, <1>3, EndSetup DEF Setup, Shape

-----------------------------------------------------------------------------
(* The steps that change threads.                                          *)

(* What a new thread reads of the object in its Context: nothing, or the   *)
(* kind of scheduling it was started with, also when the object is gone.   *)
LEMMA SchedReads ==
  ASSUME Setup, NEW u \in Tids, os[u].state = "entry", NEW s \in SchedRead(u)
  PROVE  /\ s = None \/ (s \in Scheds /\ s.rt = os[u].rt)
         /\ os[u].This \in Objects
         /\ Live(os[u].This) => s = obj[os[u].This].mSched
<1>1. os[u] \in Posix
  BY DEF Setup, Shape
<1>2. PICK o \in Objects : o = os[u].This
  BY <1>1 DEF Posix
<1>3. obj[o].mSched = None \/ (obj[o].mSched \in Scheds /\ obj[o].mSched.rt = os[u].rt)
  BY <1>2 DEF Setup, Shape, Object, EntryFits
<1>4. QED
  BY <1>2, <1>3 DEF SchedRead

LEMMA PostThreadEntryInitSetup ==
  ASSUME Setup, NEW u \in Tids, PostThreadEntryInit(u)
  PROVE  Setup'
<1>1. PICK s \in SchedRead(u) :
        os' = [os EXCEPT ![u].state = "body", ![u].prio = IF SetsNice(s) THEN Clamped(s.prio) ELSE @]
  BY DEF PostThreadEntryInit
<1>2. os[u].state = "entry" /\ UNCHANGED <<obj, call, want, up>>
  BY DEF PostThreadEntryInit
<1>3. os[u] \in Posix /\ os[u].prio \in PrioRange(os[u].rt)
  BY DEF Setup, Shape, PriosFit
<1>4. s = None \/ (s \in Scheds /\ s.rt = os[u].rt)
  BY <1>2, SchedReads
<1>5. PICK n : n = IF SetsNice(s) THEN Clamped(s.prio) ELSE os[u].prio
  OBVIOUS
<1>6. n \in PrioRange(os[u].rt)
  BY <1>3, <1>4, <1>5 DEF SetsNice, Clamped, PrioRange, Scheds
<1>7. n \in Int
  BY <1>6 DEF PrioRange
<1>8. os' = [os EXCEPT ![u] = [os[u] EXCEPT !.state = "body", !.prio = n]]
  BY <1>1, <1>3, <1>5 DEF Setup, Shape
<1>9. [os[u] EXCEPT !.state = "body", !.prio = n] \in Posix
  BY <1>3, <1>7 DEF Posix
<1>10. os' \in [Tids -> Posix]
  BY <1>8, <1>9 DEF Setup, Shape
<1>11. /\ os'[u].state = "body" /\ os'[u].rt = os[u].rt /\ os'[u].prio = n
       /\ \A v \in Tids \ {u} : os'[v] = os[v]
  BY <1>3, <1>8 DEF Setup, Shape, Posix
<1>12. \A o \in Objects : SameSched(obj[o].mSched, obj'[o].mSched)
  BY <1>2 DEF SameSched
<1>13. QED
  BY <1>2, <1>6, <1>10, <1>11, <1>12, ThreadsSetup DEF Setup, Shape, PriosFit

(* Of one thread u the state, the detached or the reaped flag changes.     *)
LEMMA FlagSetup ==
  ASSUME Setup, NEW u \in Tids, NEW r \in Posix, os' = [os EXCEPT ![u] = r],
         r.rt = os[u].rt, r.prio = os[u].prio, r.This = os[u].This,
         r.state = "entry" => os[u].state = "entry",
         UNCHANGED <<call, want, up>>,
         obj' = obj \/ \E o \in Objects : obj' = [obj EXCEPT ![o].mJoin = FALSE]
  PROVE  Setup'
<1>1. /\ os' \in [Tids -> Posix] /\ os'[u] = r
      /\ \A v \in Tids \ {u} : os'[v] = os[v]
  BY DEF Setup, Shape
<1>2. /\ obj' \in [Objects -> Object]
      /\ \A o \in Objects :
           /\ obj'[o].life = obj[o].life /\ obj'[o].owner = obj[o].owner
           /\ obj'[o].mTid = obj[o].mTid /\ obj'[o].mSched = obj[o].mSched
  <2>1. CASE obj' = obj
    BY <2>1 DEF Setup, Shape
  <2>2. ASSUME NEW o \in Objects, obj' = [obj EXCEPT ![o].mJoin = FALSE]
        PROVE  <1>2!1 /\ <1>2!2
    <3>1. obj[o] \in Object
      BY DEF Setup, Shape
    <3>2. [obj[o] EXCEPT !.mJoin = FALSE] \in Object
      BY <3>1 DEF Object
    <3>3. /\ obj'[o] = [obj[o] EXCEPT !.mJoin = FALSE]
          /\ \A q \in Objects \ {o} : obj'[q] = obj[q]
      BY <2>2 DEF Setup, Shape
    <3>4. obj' \in [Objects -> Object]
      BY <2>2, <3>2 DEF Setup, Shape
    <3>5. QED
      BY <3>1, <3>3, <3>4 DEF Object
  <2>3. QED
    BY <2>1, <2>2
<1>3. \A o \in Objects : SameSched(obj[o].mSched, obj'[o].mSched)
  BY <1>2 DEF SameSched
<1>4. QED
  BY <1>1, <1>2, <1>3, ThreadsSetup DEF Setup, Shape, PriosFit

LEMMA DetachSetup ==
  ASSUME Setup, NEW t \in Tids, NEW o \in Objects, Detach(t, o)
  PROVE  Setup'
<1>1. Live(o) /\ UNCHANGED <<call, want, up>> /\ obj' = [obj EXCEPT ![o].mJoin = FALSE]
  BY DEF Detach, Owned
<1>2. PICK u \in Tids : obj[o].mTid = u
  BY <1>1 DEF Setup, TidsKnown
<1>3. os[u] \in Posix
  BY DEF Setup, Shape
<1>4. PICK r : r = [os[u] EXCEPT !.detached = TRUE]
  OBVIOUS
<1>5. os' = [os EXCEPT ![u] = r]
  BY <1>2, <1>4 DEF Detach, Setup, Shape
<1>6. r \in Posix
  BY <1>3, <1>4 DEF Posix
<1>7. r.rt = os[u].rt /\ r.prio = os[u].prio /\ r.This = os[u].This /\ r.state = os[u].state
  BY <1>3, <1>4 DEF Posix
<1>8. QED
  BY <1>1, <1>5, <1>6, <1>7, FlagSetup

LEMMA PthreadJoinSetup ==
  ASSUME Setup, NEW t \in Tids, PthreadJoin(t)
  PROVE  Setup'
<1>1. PICK o \in Objects : o = call[t].on /\ Live(o)
  BY DEF PthreadJoin, Setup, CallsOwn, Owned
<1>2. PICK u \in Tids : obj[o].mTid = u
  BY <1>1 DEF Setup, TidsKnown
<1>3. UNCHANGED <<call, want, up>> /\ obj' = [obj EXCEPT ![o].mJoin = FALSE]
  BY <1>1 DEF PthreadJoin
<1>4. os[u] \in Posix
  BY DEF Setup, Shape
<1>5. PICK b : b = (os[u].reaped \/ ~os[u].detached)
  OBVIOUS
<1>6. PICK r : r = [os[u] EXCEPT !.reaped = b]
  OBVIOUS
<1>7. os' = [os EXCEPT ![u] = r]
  BY <1>1, <1>2, <1>5, <1>6 DEF PthreadJoin, Setup, Shape
<1>8. b \in BOOLEAN
  BY <1>5
<1>9. r \in Posix
  BY <1>4, <1>6, <1>8 DEF Posix
<1>10. r.rt = os[u].rt /\ r.prio = os[u].prio /\ r.This = os[u].This /\ r.state = os[u].state
  BY <1>4, <1>6 DEF Posix
<1>11. QED
  BY <1>3, <1>7, <1>9, <1>10, FlagSetup

LEMMA ThreadReturnsSetup ==
  ASSUME Setup, NEW u \in Tids, ThreadReturns(u)
  PROVE  Setup'
<1>1. UNCHANGED <<obj, call, want, up>> /\ os' = [os EXCEPT ![u].state = "exited"]
  BY DEF ThreadReturns
<1>2. os[u] \in Posix
  BY DEF Setup, Shape
<1>3. PICK r : r = [os[u] EXCEPT !.state = "exited"]
  OBVIOUS
<1>4. os' = [os EXCEPT ![u] = r]
  BY <1>1, <1>3 DEF Setup, Shape
<1>5. r \in Posix
  BY <1>2, <1>3 DEF Posix
<1>6. r.rt = os[u].rt /\ r.prio = os[u].prio /\ r.This = os[u].This /\ r.state = "exited"
  BY <1>2, <1>3 DEF Posix
<1>7. QED
  BY <1>1, <1>4, <1>5, <1>6, FlagSetup

(* UpdatePriority() leaves whoever it hits with a priority of its kind.    *)
LEMMA UpdatePrioritySetup ==
  ASSUME Setup, NEW t \in Tids, NEW o \in Objects, NEW prio \in Levels,
         UpdatePriority(t, o, prio)
  PROVE  Setup'
<1>1. prio \in Int
  BY ThreadAssumption
<1>2. Live(o) /\ UNCHANGED <<call, up>>
  BY DEF UpdatePriority, Owned
<1>3. PICK u \in Tids : obj[o].mTid = u
  BY <1>2 DEF Setup, TidsKnown
<1>4. os[u] \in Posix /\ os[t] \in Posix /\ obj[o] \in Object
  BY DEF Setup, Shape
<1>5. PICK n : n = Given(u, prio)
  OBVIOUS
<1>6. /\ os[u].rt => prio \in 1..99
      /\ os' = SetPrio(t, u, prio) /\ want' = [want EXCEPT ![u] = n]
  BY <1>3, <1>5 DEF UpdatePriority, Updatable
<1>7. n \in Int /\ n \in PrioRange(os[u].rt)
  BY <1>1, <1>5, <1>6 DEF Given, Clamped, PrioRange
<1>8. PICK s : s = IF obj[o].mSched = None THEN None ELSE [rt |-> obj[o].mSched.rt, prio |-> prio]
  OBVIOUS
<1>9. obj' = [obj EXCEPT ![o].mSched = s]
  BY <1>8 DEF UpdatePriority
<1>10. s \in {None} \cup Scheds /\ SameSched(obj[o].mSched, s)
  <2>1. CASE obj[o].mSched = None
    BY <1>8, <2>1 DEF SameSched
  <2>2. CASE obj[o].mSched # None
    <3>1. obj[o].mSched \in Scheds
      BY <1>4, <2>2 DEF Object
    <3>2. PICK b \in BOOLEAN : b = obj[o].mSched.rt
      BY <3>1 DEF Scheds
    <3>3. s = [rt |-> b, prio |-> prio]
      BY <1>8, <2>2, <3>2
    <3>4. s \in Scheds /\ s.rt = b
      BY <1>1, <3>3 DEF Scheds
    <3>5. QED
      BY <2>2, <3>2, <3>4 DEF SameSched
  <2>3. QED
    BY <2>1, <2>2
<1>11. [obj[o] EXCEPT !.mSched = s] \in Object
  BY <1>4, <1>10 DEF Object
<1>12. obj' \in [Objects -> Object]
  BY <1>9, <1>11 DEF Setup, Shape
<1>13. /\ obj'[o] = [obj[o] EXCEPT !.mSched = s]
       /\ \A q \in Objects \ {o} : obj'[q] = obj[q]
  BY <1>9 DEF Setup, Shape
<1>14. /\ obj'[o].life = obj[o].life /\ obj'[o].owner = obj[o].owner
       /\ obj'[o].mTid = obj[o].mTid /\ obj'[o].mSched = s
  BY <1>4, <1>13 DEF Object
<1>15. \A q \in Objects :
         /\ obj'[q].life = obj[q].life /\ obj'[q].owner = obj[q].owner
         /\ obj'[q].mTid = obj[q].mTid /\ SameSched(obj[q].mSched, obj'[q].mSched)
  BY <1>10, <1>13, <1>14 DEF SameSched
<1>16. /\ want' \in [Tids -> Int]
       /\ \A v \in Tids : want'[v] \in PrioRange(os[v].rt)
  BY <1>6, <1>7 DEF Setup, PriosFit
<1>17. /\ os' \in [Tids -> Posix]
       /\ \A v \in Tids :
            /\ os'[v].rt = os[v].rt /\ os'[v].state = os[v].state /\ os'[v].This = os[v].This
            /\ os'[v].prio \in PrioRange(os[v].rt)
  <2>1. CASE os' = os
    BY <2>1 DEF Setup, Shape, PriosFit
  <2>2. ASSUME NEW x \in Tids, os' = [os EXCEPT ![x].prio = n], os[x].rt = os[u].rt
        PROVE  <1>17!1 /\ <1>17!2
    <3>1. os[x] \in Posix
      BY DEF Setup, Shape
    <3>2. [os[x] EXCEPT !.prio = n] \in Posix
      BY <1>7, <3>1 DEF Posix
    <3>3. /\ os'[x] = [os[x] EXCEPT !.prio = n]
          /\ \A v \in Tids \ {x} : os'[v] = os[v]
      BY <2>2 DEF Setup, Shape
    <3>4. os' \in [Tids -> Posix]
      BY <2>2, <3>2 DEF Setup, Shape
    <3>5. /\ os'[x].rt = os[x].rt /\ os'[x].state = os[x].state
          /\ os'[x].This = os[x].This /\ os'[x].prio = n
      BY <3>1, <3>3 DEF Posix
    <3>6. QED
      BY <1>7, <2>2, <3>3, <3>4, <3>5 DEF Setup, PriosFit
  <2>3. CASE os[u].rt
    BY <1>5, <1>6, <2>2, <2>3 DEF SetPrio, PrioTarget
  <2>4. CASE ~os[u].rt /\ ~os[t].rt
    <3>1. os[t].rt = os[u].rt
      BY <1>4, <2>4 DEF Posix
    <3>2. os' = [os EXCEPT ![t].prio = n]
      BY <1>5, <1>6, <2>4 DEF SetPrio, PrioTarget
    <3>3. QED
      BY <2>2, <3>1, <3>2
  <2>5. CASE ~os[u].rt /\ os[t].rt
    BY <1>6, <2>1, <2>5 DEF SetPrio
  <2>6. QED
    BY <2>3, <2>4, <2>5
<1>18. QED
  BY <1>2, <1>12, <1>15, <1>16, <1>17, ThreadsSetup

LEMMA StillSetup ==
  ASSUME Setup, UNCHANGED <<obj, os, call, want>>, up' \in BOOLEAN
  PROVE  Setup'
<1>1. CallsOwn'
  BY CallsStay DEF Setup, Owned, Live
<1>2. QED
  BY <1>1, ObjectsSetup DEF Setup, Shape, TidsKnown, Live, Born

LEMMA NextSetup == Setup /\ [Next]_vars => Setup'
<1> SUFFICES ASSUME Setup, [Next]_vars PROVE Setup'
  OBVIOUS
<1>1. CASE UNCHANGED vars
  BY <1>1, StillSetup DEF vars, Setup
<1>2. CASE Next
  <2>1. PICK t \in Tids : ThreadStep(t)
    BY <1>2 DEF Next
  <2>2. CASE \E o \in Objects, c \in Configs, u \in Tids : ThreadCtor(t, o, c, u)
    BY <2>2, ThreadCtorSetup
  <2>3. CASE \E o \in Objects : ThreadCtorThrows(t, o)
    BY <2>3, ThreadCtorThrowsSetup
  <2>4. ASSUME NEW o \in Objects, Join(t, o) PROVE Setup'
    BY <2>4, EnterSetup DEF Join
  <2>5. ASSUME NEW o \in Objects, Dtor(t, o) PROVE Setup'
    BY <2>5, EnterSetup DEF Dtor
  <2>6. CASE \E o \in Objects : Detach(t, o)
    BY <2>6, DetachSetup
  <2>7. CASE \E o, p \in Objects : MoveCtor(t, o, p)
    BY <2>7, MoveCtorSetup
  <2>8. ASSUME NEW o \in Objects, NEW p \in Objects, MoveAssign(t, o, p) PROVE Setup'
    BY <2>8, EnterSetup DEF MoveAssign
  <2>9. CASE \E o \in Objects, prio \in Levels : UpdatePriority(t, o, prio)
    BY <2>9, UpdatePrioritySetup
  <2>10. CASE PostThreadEntryInit(t)
    BY <2>10, PostThreadEntryInitSetup
  <2>11. CASE PostThreadEntryInitThrows(t)
    BY <2>11, StillSetup DEF PostThreadEntryInitThrows
  <2>12. CASE ThreadReturns(t)
    BY <2>12, ThreadReturnsSetup
  <2>13. CASE PthreadJoin(t)
    BY <2>13, PthreadJoinSetup
  <2>14. CASE CallReturns(t)
    BY <2>14, CallReturnsSetup
  <2>15. ASSUME NEW o \in Objects, NEW prio \in Levels, UpdatePriorityThrows(t, o, prio)
         PROVE  Setup'
    <3>1. obj[o].mLog \in BOOLEAN
      BY DEF Setup, Shape, Object
    <3>2. QED
      BY <2>15, <3>1, StillSetup DEF UpdatePriorityThrows
  <2>16. QED
    BY <2>1, <2>2, <2>3, <2>4, <2>5, <2>6, <2>7, <2>8, <2>9, <2>10, <2>11, <2>12, <2>13, <2>14,
       <2>15
       DEF ThreadStep, Proceeds
<1>3. QED
  BY <1>1, <1>2

LEMMA SetupHolds == Spec => []Setup
<1>1. Setup /\ [Next]_vars => Setup'
  BY NextSetup
<1>2. QED
  BY <1>1, StartSetup, PTL DEF Spec

(* Every variable keeps its type, whatever the configurations and the      *)
(* priorities given: the validation in Attributes(), what is inherited of  *)
(* the creator, what PostThreadEntryInit() finds in an object that is gone *)
(* and UpdatePriority() never leave a real-time thread with a nice value,  *)
(* nor another one with a real-time priority.                              *)
THEOREM TypeCorrect == Spec => []TypeOK
<1>1. Setup => TypeOK
  <2> SUFFICES ASSUME Setup PROVE TypeOK
    OBVIOUS
  <2>1. /\ obj \in [Objects -> Object] /\ os \in [Tids -> Posix] /\ call \in [Tids -> Blocked]
        /\ want \in [Tids -> Int] /\ up \in BOOLEAN
    BY DEF Setup, Shape
  <2>2. \A o \in Objects :
          /\ obj[o].life \in {"unborn", "live", "failed", "gone"}
          /\ {obj[o].mJoin, obj[o].mLog} \subseteq BOOLEAN
          /\ {obj[o].owner, obj[o].mTid} \subseteq Tids \cup {None}
          /\ obj[o].mSched # None => obj[o].mSched \in Scheds
    BY <2>1 DEF Object
  <2>3. os \in [Tids -> [state : {"none", "entry", "body", "exited"}, detached : BOOLEAN,
                         reaped : BOOLEAN, This : Objects \cup {None},
                         stack : Tids \cup {None}, rt : BOOLEAN, prio : Int]]
    BY <2>1 DEF Posix
  <2>4. \A t \in Tids : {os[t].prio, want[t]} \subseteq IF os[t].rt THEN 1..99 ELSE -20..19
    BY DEF Setup, PriosFit, PrioRange
  <2>5. QED
    BY <2>1, <2>2, <2>3, <2>4 DEF TypeOK, Blocked
<1>2. QED
  BY <1>1, SetupHolds, PTL

-----------------------------------------------------------------------------
(* What a step leaves of a thread it does not start.  Nobody but           *)
(* UpdatePriority() and the thread's own PostThreadEntryInit() sets its    *)
(* priority, nobody but Detach() detaches it.                              *)
Updates(t) == \E o \in Objects, prio \in Levels : UpdatePriority(t, o, prio)

KeepsThread(t, u) ==
  /\ os'[u].This = os[u].This /\ os'[u].rt = os[u].rt
  /\ os'[u].state = "entry" => os[u].state = "entry"
  /\ os'[u].state = "none" <=> os[u].state = "none"
  /\ os'[u].state = "body" => os[u].state = "body" \/ PostThreadEntryInit(u)
  /\ "detach" \in Operations \/ os'[u].detached = os[u].detached
  /\ Updates(t) \/ want'[u] = want[u]
  /\ Updates(t) \/ PostThreadEntryInit(u) \/ os'[u].prio = os[u].prio

LEMMA ThreadKept ==
  ASSUME Setup, NEW t \in Tids, ThreadStep(t), NEW u \in Tids
  PROVE  (\E o \in Objects, c \in Configs : ThreadCtor(t, o, c, u)) \/ KeepsThread(t, u)
<1>1. os[u] \in Posix
  BY DEF Setup, Shape
<1>2. ASSUME os'[u] = os[u], want'[u] = want[u] PROVE KeepsThread(t, u)
  BY <1>2 DEF KeepsThread
<1>3. ASSUME NEW o \in Objects, NEW c \in Configs, NEW v \in Tids, ThreadCtor(t, o, c, v), v # u
      PROVE  KeepsThread(t, u)
  BY <1>2, <1>3 DEF ThreadCtor, Setup, Shape
<1>4. ASSUME NEW o \in Objects, NEW p \in Objects,
             \/ ThreadCtorThrows(t, o) \/ Join(t, o) \/ Dtor(t, o)
             \/ MoveCtor(t, o, p) \/ MoveAssign(t, o, p)
      PROVE  KeepsThread(t, u)
  BY <1>2, <1>4 DEF ThreadCtorThrows, Join, Dtor, MoveCtor, MoveAssign, Enter
<1>5. ASSUME PostThreadEntryInitThrows(t) \/ CallReturns(t) PROVE KeepsThread(t, u)
  BY <1>2, <1>5 DEF PostThreadEntryInitThrows, CallReturns
<1>6. ASSUME NEW o \in Objects, Detach(t, o) PROVE KeepsThread(t, u)
  <2>1. PICK v : os' = [os EXCEPT ![v].detached = TRUE]
    BY <1>6 DEF Detach
  <2>2. want' = want /\ "detach" \in Operations
    BY <1>6 DEF Detach
  <2>3. QED
    BY <1>1, <2>1, <2>2 DEF KeepsThread, Setup, Shape, Posix
<1>7. ASSUME NEW o \in Objects, NEW prio \in Levels, UpdatePriority(t, o, prio)
      PROVE  KeepsThread(t, u)
  <2>1. PICK x, n : os' = os \/ os' = [os EXCEPT ![x].prio = n]
    BY <1>7 DEF UpdatePriority, SetPrio
  <2>2. Updates(t)
    BY <1>7 DEF Updates
  <2>3. QED
    BY <1>1, <2>1, <2>2 DEF KeepsThread, Setup, Shape, Posix
<1>8. ASSUME PostThreadEntryInit(t) PROVE KeepsThread(t, u)
  <2>1. PICK n : os' = [os EXCEPT ![t].state = "body", ![t].prio = n]
    BY <1>8 DEF PostThreadEntryInit
  <2>2. os[t].state = "entry" /\ want' = want
    BY <1>8 DEF PostThreadEntryInit
  <2>3. CASE t = u
    BY <1>1, <1>8, <2>1, <2>2, <2>3 DEF KeepsThread, Setup, Shape, Posix
  <2>4. CASE t # u
    BY <1>2, <2>1, <2>2, <2>4 DEF Setup, Shape
  <2>5. QED
    BY <2>3, <2>4
<1>9. ASSUME ThreadReturns(t) PROVE KeepsThread(t, u)
  <2>1. os' = [os EXCEPT ![t].state = "exited"] /\ os[t].state = "body" /\ want' = want
    BY <1>9 DEF ThreadReturns, Free
  <2>2. QED
    BY <1>1, <2>1 DEF KeepsThread, Setup, Shape, Posix
<1>10. ASSUME PthreadJoin(t) PROVE KeepsThread(t, u)
  <2>1. PICK v, b : os' = [os EXCEPT ![v].reaped = b]
    BY <1>10 DEF PthreadJoin
  <2>2. want' = want
    BY <1>10 DEF PthreadJoin
  <2>3. QED
    BY <1>1, <2>1, <2>2 DEF KeepsThread, Setup, Shape, Posix
<1>11. ASSUME NEW o \in Objects, NEW prio \in Levels, UpdatePriorityThrows(t, o, prio)
       PROVE  KeepsThread(t, u)
  BY <1>2, <1>11 DEF UpdatePriorityThrows
<1>12. QED
  BY <1>3, <1>4, <1>5, <1>6, <1>7, <1>8, <1>9, <1>10, <1>11 DEF ThreadStep, Proceeds

-----------------------------------------------------------------------------
(* Objects that stay with their threads: the program does not move,        *)
(* assign or detach them, nor asks for detached threads.                   *)
Stays ==
  /\ Operations \cap {"move", "assign", "detach"} = {}
  /\ \A c \in Configs : c.mDetach = None \/ ~c.mDetach

(* Then no thread is detached, and the object a thread starts from is to   *)
(* join it: the destructor waits for the thread to end, the more so to     *)
(* set itself up.                                                          *)
Attached ==
  /\ Undetached
  /\ \A t \in Tids : call[t].op # "assign"
  /\ \A u \in Tids : os[u].state = "entry" => Joiner(os[u].This) /\ obj[os[u].This].mTid = u

LEMMA StartAttached == Start => Attached
BY DEF Start, Attached, Undetached, Absent, NoCall

LEMMA CallsAttached ==
  ASSUME Stays, Setup, Attached, NEW t \in Tids, ThreadStep(t), NEW u \in Tids
  PROVE  call'[u].op # "assign"
<1>1. call \in [Tids -> Blocked] /\ call[u].op # "assign" /\ NoCall.op # "assign"
  BY DEF Setup, Shape, Attached, NoCall
<1>2. ASSUME NEW o \in Objects, Join(t, o) \/ Dtor(t, o) PROVE call'[u].op # "assign"
  <2>1. PICK op \in {"join", "dtor"} : call' = [call EXCEPT ![t] = [op |-> op, on |-> o, from |-> None]]
    BY <1>2 DEF Join, Dtor, Enter
  <2>2. QED
    BY <1>1, <2>1
<1>3. ASSUME CallReturns(t) PROVE call'[u].op # "assign"
  BY <1>1, <1>3 DEF CallReturns
<1>4. ASSUME call' = call PROVE call'[u].op # "assign"
  BY <1>1, <1>4
<1>5. QED
  BY <1>2, <1>3, <1>4
     DEF Stays, ThreadStep, Proceeds, ThreadCtor, ThreadCtorThrows, MoveCtor, MoveAssign, Detach,
         UpdatePriority, UpdatePriorityThrows, PostThreadEntryInit, PostThreadEntryInitThrows,
         ThreadReturns, PthreadJoin

(* Object o joins thread u, which runs: o stays as it is.                  *)
LEMMA JoinerKept ==
  ASSUME Stays, Setup, Attached, NEW t \in Tids, ThreadStep(t),
         NEW o \in Objects, Joiner(o), NEW u \in Tids, obj[o].mTid = u, os[u].state # "exited"
  PROVE  /\ Joiner(o)' /\ obj'[o].mTid = u
         /\ Updates(t) \/ obj'[o].mSched = obj[o].mSched
<1> DEFINE Kept == /\ Joiner(o)' /\ obj'[o].mTid = u
                   /\ Updates(t) \/ obj'[o].mSched = obj[o].mSched
<1>1. obj[o] \in Object /\ obj[o].life = "live" /\ obj[o].mJoin
  BY DEF Setup, Shape, Joiner, Live
<1>2. ASSUME obj'[o] = obj[o] PROVE Kept
  BY <1>2 DEF Joiner, Live
<1>3. ASSUME NEW q \in Objects, NEW c \in Configs, NEW v \in Tids, ThreadCtor(t, q, c, v)
      PROVE  Kept
  <2>1. q # o
    BY <1>1, <1>3 DEF ThreadCtor
  <2>2. QED
    BY <1>2, <1>3, <2>1 DEF ThreadCtor, Setup, Shape
<1>4. ASSUME NEW q \in Objects, ThreadCtorThrows(t, q) PROVE Kept
  <2>1. q # o
    BY <1>1, <1>4 DEF ThreadCtorThrows
  <2>2. QED
    BY <1>2, <1>4, <2>1 DEF ThreadCtorThrows, Setup, Shape
<1>5. ASSUME NEW q \in Objects, Join(t, q) \/ Dtor(t, q) PROVE Kept
  BY <1>2, <1>5 DEF Join, Dtor, Enter
<1>6. ASSUME NEW q \in Objects, NEW prio \in Levels, UpdatePriority(t, q, prio) PROVE Kept
  <2>1. Updates(t)
    BY <1>6 DEF Updates
  <2>2. PICK s : obj' = [obj EXCEPT ![q].mSched = s]
    BY <1>6 DEF UpdatePriority
  <2>3. obj'[o].life = "live" /\ obj'[o].mJoin /\ obj'[o].mTid = u
    BY <1>1, <2>2 DEF Setup, Shape, Object
  <2>4. QED
    BY <2>1, <2>3 DEF Joiner, Live
<1>7. ASSUME PostThreadEntryInit(t) \/ PostThreadEntryInitThrows(t) \/ ThreadReturns(t)
      PROVE  Kept
  BY <1>2, <1>7 DEF PostThreadEntryInit, PostThreadEntryInitThrows, ThreadReturns
<1>8. ASSUME PthreadJoin(t) PROVE Kept
  <2>1. PICK q \in Objects : q = call[t].on /\ Live(q)
    BY <1>8 DEF PthreadJoin, Setup, CallsOwn, Owned
  <2>2. PICK v \in Tids : v = obj[q].mTid
    BY <2>1 DEF Setup, TidsKnown
  <2>3. os[v].state = "exited"
    BY <1>8, <2>1, <2>2 DEF PthreadJoin, JoinRet, Attached, Undetached
  <2>4. q # o
    BY <2>2, <2>3
  <2>5. QED
    BY <1>2, <1>8, <2>1, <2>4 DEF PthreadJoin, Setup, Shape
<1>9. ASSUME CallReturns(t) PROVE Kept
  <2>1. PICK q \in Objects : q = call[t].on /\ ~obj[q].mJoin
    BY <1>9 DEF CallReturns, Setup, CallsOwn
  <2>2. q # o /\ call[t].op # "assign"
    BY <1>1, <2>1 DEF Attached
  <2>3. obj' = obj \/ obj' = [obj EXCEPT ![q].life = "gone"]
    BY <1>9, <2>1, <2>2 DEF CallReturns
  <2>4. QED
    BY <1>2, <2>2, <2>3 DEF Setup, Shape
<1>10. ASSUME NEW q \in Objects, NEW prio \in Levels, UpdatePriorityThrows(t, q, prio)
       PROVE  Kept
  BY <1>2, <1>10 DEF UpdatePriorityThrows
<1> HIDE DEF Kept
<1>11. Kept
  BY <1>3, <1>4, <1>5, <1>6, <1>7, <1>8, <1>9, <1>10
     DEF Stays, ThreadStep, Proceeds, Detach, MoveCtor, MoveAssign
<1>12. QED
  BY <1>11 DEF Kept

(* A constructor's thread and object fit each other from the start.        *)
LEMMA CtorAttached ==
  ASSUME Stays, Setup, Attached, NEW t \in Tids, NEW o \in Objects, NEW c \in Configs,
         NEW u \in Tids, ThreadCtor(t, o, c, u)
  PROVE  /\ ~os'[u].detached /\ os'[u].This = o /\ Joiner(o)' /\ obj'[o].mTid = u
         /\ obj'[o].mSched = c.mSched
<1>1. os'[u] = Created(t, u, o, c)
  BY DEF ThreadCtor, Setup, Shape
<1>2. obj'[o] = [life |-> "live", owner |-> t, mJoin |-> JoinsLater(c),
                 mTid |-> u, mSched |-> c.mSched, mLog |-> TRUE]
  BY DEF ThreadCtor, Setup, Shape
<1>3. c.mDetach \in BOOLEAN \cup {None} /\ (c.mDetach = None \/ ~c.mDetach)
  BY DEF Stays, Config
<1>4. JoinsLater(c)
  BY <1>3 DEF JoinsLater
<1>5. ~AttrDetached(t, c)
  BY <1>3 DEF AttrDetached, Attached, Undetached
<1>6. QED
  BY <1>1, <1>2, <1>4, <1>5 DEF Created, Joiner, Live

LEMMA NextAttached == Stays /\ Setup /\ Attached /\ [Next]_vars => Attached'
<1> SUFFICES ASSUME Stays, Setup, Attached, [Next]_vars PROVE Attached'
  OBVIOUS
<1>1. CASE UNCHANGED vars
  BY <1>1 DEF vars, Attached, Undetached, Joiner, Live
<1>2. ASSUME NEW t \in Tids, ThreadStep(t) PROVE Attached'
  <2>1. ASSUME NEW u \in Tids PROVE ~os'[u].detached
    BY <1>2, <2>1, ThreadKept, CtorAttached DEF KeepsThread, Stays, Attached, Undetached
  <2>2. ASSUME NEW u \in Tids, os'[u].state = "entry"
        PROVE  \E o \in Objects : o = os'[u].This /\ Joiner(o)' /\ obj'[o].mTid = u
    <3>1. CASE \E o \in Objects, c \in Configs : ThreadCtor(t, o, c, u)
      BY <3>1, CtorAttached
    <3>2. CASE KeepsThread(t, u)
      <4>1. os[u].state = "entry" /\ os'[u].This = os[u].This
        BY <2>2, <3>2 DEF KeepsThread
      <4>2. PICK o \in Objects : o = os[u].This
        BY <4>1 DEF Setup, Shape, Posix
      <4>3. Joiner(o) /\ obj[o].mTid = u
        BY <4>1, <4>2 DEF Attached
      <4>4. QED
        BY <1>2, <4>1, <4>2, <4>3, JoinerKept
    <3>3. QED
      BY <1>2, <3>1, <3>2, ThreadKept
  <2>3. ASSUME NEW u \in Tids, os'[u].state = "entry"
        PROVE  Joiner(os[u].This)' /\ obj'[os'[u].This].mTid = u
    BY <2>2, <2>3 DEF Joiner, Live
  <2>4. QED
    BY <1>2, <2>1, <2>3, CallsAttached DEF Attached, Undetached
<1>3. QED
  BY <1>1, <1>2 DEF Next

LEMMA AttachedHolds ==
  ASSUME Stays
  PROVE  Spec => [](Setup /\ Attached)
<1>1. Setup /\ Attached /\ [Next]_vars => Setup' /\ Attached'
  BY NextSetup, NextAttached
<1>2. QED
  BY <1>1, StartSetup, StartAttached, PTL DEF Spec

(* ThreadEntry() goes through a This that is still there: in a program     *)
(* that does not move, assign or detach its objects nor asks for detached  *)
(* threads, the destructor keeps the object until the new thread is done   *)
(* with it, inherited attributes or not.  With any of the four it need not.*)
THEOREM SetupReadsLive ==
  ASSUME Stays
  PROVE  Spec => []EntryReadsLive
<1>1. Attached => EntryReadsLive
  BY DEF Attached, EntryReadsLive, Joiner
<1>2. QED
  BY <1>1, AttachedHolds, PTL

-----------------------------------------------------------------------------
(* The priority a thread ends up with.  First where none of them is given  *)
(* a nice value, and where UpdatePriority() is called all are real time:   *)
(* then PostThreadEntryInit() has nothing to set, whatever it reads.       *)
NotNice(s) == s = None \/ s.rt

NoNice ==
  /\ \A c \in Configs : NotNice(c.mSched)
  /\ "update" \in Operations => \A c \in Configs : c.mSched # None

StartedRight ==
  /\ MainRuns
  /\ \A o \in Objects : NotNice(obj[o].mSched) /\ (Live(o) => obj[o].mTid # Main)
  /\ \A u \in Tids : os[u].state # "none" =>
       /\ os[u].prio = want[u]
       /\ "update" \in Operations /\ u # Main => os[u].rt

LEMMA StartStartedRight == Start => StartedRight
<1> SUFFICES ASSUME Start PROVE StartedRight
  OBVIOUS
<1>1. MainRuns
  BY StartInv DEF Inv
<1>2. \A o \in Objects : obj[o].mSched = None /\ ~Live(o)
  BY DEF Start, Blank, Live
<1>3. \A u \in Tids : os[u].prio = 0 /\ want[u] = 0 /\ (u # Main => os[u].state = "none")
  BY DEF Start, Absent
<1>4. QED
  BY <1>1, <1>2, <1>3 DEF StartedRight, NotNice

(* No step gives an object a nice value, or Main for its thread.           *)
LEMMA ObjectsStartedRight ==
  ASSUME NoNice, Setup, StartedRight, NEW t \in Tids, ThreadStep(t), NEW o \in Objects
  PROVE  NotNice(obj'[o].mSched) /\ (Live(o)' => obj'[o].mTid # Main)
<1> DEFINE Right == NotNice(obj'[o].mSched) /\ (Live(o)' => obj'[o].mTid # Main)
<1>1. obj[o] \in Object /\ NotNice(obj[o].mSched) /\ (Live(o) => obj[o].mTid # Main)
  BY DEF Setup, Shape, StartedRight
<1>2. ASSUME obj'[o].mSched = obj[o].mSched, obj'[o].mTid = obj[o].mTid,
             obj'[o].life \in {obj[o].life, "failed", "gone"}
      PROVE  Right
  BY <1>1, <1>2 DEF Live
<1>3. ASSUME obj'[o] = obj[o] PROVE Right
  BY <1>2, <1>3
<1>4. ASSUME NEW q \in Objects, NEW c \in Configs, NEW u \in Tids, ThreadCtor(t, q, c, u)
      PROVE  Right
  <2>1. CASE q = o
    <3>1. obj'[o].mSched = c.mSched /\ obj'[o].mTid = u
      BY <1>4, <2>1 DEF ThreadCtor, Setup, Shape
    <3>2. u # Main
      BY <1>4 DEF ThreadCtor, StartedRight, MainRuns
    <3>3. QED
      BY <3>1, <3>2 DEF NoNice
  <2>2. CASE q # o
    BY <1>3, <1>4, <2>2 DEF ThreadCtor, Setup, Shape
  <2>3. QED
    BY <2>1, <2>2
<1>5. ASSUME NEW q \in Objects, ThreadCtorThrows(t, q) PROVE Right
  BY <1>1, <1>2, <1>5 DEF ThreadCtorThrows, Setup, Shape, Object
<1>6. ASSUME NEW q \in Objects, NEW p \in Objects, MoveCtor(t, q, p) PROVE Right
  <2>1. Owned(t, p) /\ q # p
    BY <1>6 DEF MoveCtor, Owned, Live
  <2>2. obj[p].mTid # Main
    BY <2>1 DEF StartedRight, Owned
  <2>3. CASE q = o
    <3>1. obj'[o].mSched = None /\ obj'[o].mTid = obj[p].mTid
      BY <1>6, <2>1, <2>3 DEF MoveCtor, Setup, Shape
    <3>2. QED
      BY <2>2, <3>1 DEF NotNice
  <2>4. CASE q # o
    BY <1>1, <1>2, <1>6, <2>1, <2>4 DEF MoveCtor, Setup, Shape, Object
  <2>5. QED
    BY <2>3, <2>4
<1>7. ASSUME NEW q \in Objects, NEW p \in Objects, Join(t, q) \/ Dtor(t, q) \/ MoveAssign(t, q, p)
      PROVE  Right
  BY <1>3, <1>7 DEF Join, Dtor, MoveAssign, Enter
<1>8. ASSUME NEW q \in Objects, Detach(t, q) PROVE Right
  BY <1>1, <1>2, <1>8 DEF Detach, Setup, Shape, Object
<1>9. ASSUME NEW q \in Objects, NEW prio \in Levels, UpdatePriority(t, q, prio) PROVE Right
  <2>1. PICK s : s = IF obj[q].mSched = None THEN None ELSE [rt |-> obj[q].mSched.rt, prio |-> prio]
    OBVIOUS
  <2>2. obj' = [obj EXCEPT ![q].mSched = s]
    BY <1>9, <2>1 DEF UpdatePriority
  <2>3. CASE q = o
    <3>1. obj'[o].mSched = s /\ obj'[o].life = obj[o].life /\ obj'[o].mTid = obj[o].mTid
      BY <1>1, <2>2, <2>3 DEF Setup, Shape, Object
    <3>2. NotNice(s)
      BY <1>1, <2>1, <2>3 DEF NotNice
    <3>3. QED
      BY <1>1, <3>1, <3>2 DEF Live
  <2>4. CASE q # o
    BY <1>3, <2>2, <2>4 DEF Setup, Shape
  <2>5. QED
    BY <2>3, <2>4
<1>10. ASSUME PostThreadEntryInit(t) \/ PostThreadEntryInitThrows(t) \/ ThreadReturns(t)
       PROVE  Right
  BY <1>3, <1>10 DEF PostThreadEntryInit, PostThreadEntryInitThrows, ThreadReturns
<1>11. ASSUME PthreadJoin(t) PROVE Right
  <2>1. PICK q : obj' = [obj EXCEPT ![q].mJoin = FALSE]
    BY <1>11 DEF PthreadJoin
  <2>2. QED
    BY <1>1, <1>2, <2>1 DEF Setup, Shape, Object
<1>12. ASSUME CallReturns(t) PROVE Right
  <2>1. PICK q \in Objects : q = call[t].on
    BY <1>12 DEF CallReturns, Setup, CallsOwn
  <2>2. ASSUME obj' = [obj EXCEPT ![q].life = "gone"] PROVE Right
    BY <1>1, <1>2, <2>2 DEF Setup, Shape, Object
  <2>3. ASSUME call[t].op = "assign", obj' = Moved(q, call[t].from) PROVE Right
    <3>1. PICK p \in Objects : p = call[t].from /\ Owned(t, p) /\ p # q
      BY <1>12, <2>1, <2>3 DEF Setup, CallsOwn, CallReturns
    <3>2. obj[p].mTid # Main
      BY <3>1 DEF StartedRight, Owned
    <3>3. obj' = [obj EXCEPT ![q].mJoin = obj[p].mJoin, ![q].mTid = obj[p].mTid,
                             ![q].mLog = obj[p].mLog,
                             ![p].mJoin = FALSE, ![p].mLog = FALSE]
      BY <2>3, <3>1 DEF Moved
    <3>4. CASE q = o
      <4>1. obj'[o].mSched = obj[o].mSched /\ obj'[o].mTid = obj[p].mTid
        BY <1>1, <3>1, <3>3, <3>4 DEF Setup, Shape, Object
      <4>2. QED
        BY <1>1, <3>2, <4>1
    <3>5. CASE q # o
      BY <1>1, <1>2, <3>1, <3>3, <3>5 DEF Setup, Shape, Object
    <3>6. QED
      BY <3>4, <3>5
  <2>4. QED
    BY <1>3, <1>12, <2>1, <2>2, <2>3 DEF CallReturns
<1>13. ASSUME NEW q \in Objects, NEW prio \in Levels, UpdatePriorityThrows(t, q, prio)
       PROVE  Right
  BY <1>3, <1>13 DEF UpdatePriorityThrows
<1> HIDE DEF Right
<1>14. Right
  BY <1>4, <1>5, <1>6, <1>7, <1>8, <1>9, <1>10, <1>11, <1>12, <1>13 DEF ThreadStep, Proceeds
<1>15. QED
  BY <1>14 DEF Right

(* UpdatePriority() sets both what a thread has and what was asked.        *)
LEMMA UpdateApplies ==
  ASSUME NoNice, Setup, StartedRight, NEW t \in Tids, NEW o \in Objects, NEW prio \in Levels,
         UpdatePriority(t, o, prio), NEW v \in Tids, os[v].prio = want[v]
  PROVE  os'[v].prio = want'[v]
<1>1. "update" \in Operations /\ Live(o)
  BY DEF UpdatePriority, Owned
<1>2. PICK u \in Tids : obj[o].mTid = u
  BY <1>1 DEF Setup, TidsKnown
<1>3. os[u].rt
  BY <1>1, <1>2 DEF StartedRight, UpdatePriority, Updatable
<1>4. os' = [os EXCEPT ![u].prio = prio] /\ want' = [want EXCEPT ![u] = prio]
  BY <1>2, <1>3 DEF UpdatePriority, SetPrio, Given, PrioTarget
<1>5. os[v] \in Posix
  BY DEF Setup, Shape
<1>6. QED
  BY <1>4, <1>5 DEF Setup, Shape, Posix

LEMMA NextStartedRight == NoNice /\ Setup /\ StartedRight /\ [Next]_vars => StartedRight'
<1> SUFFICES ASSUME NoNice, Setup, StartedRight, [Next]_vars PROVE StartedRight'
  OBVIOUS
<1>1. CASE UNCHANGED vars
  BY <1>1 DEF vars, StartedRight, MainRuns, Live
<1>2. ASSUME NEW t \in Tids, ThreadStep(t) PROVE StartedRight'
  <2>1. ASSUME NEW u \in Tids, os'[u].state # "none"
        PROVE  os'[u].prio = want'[u] /\ ("update" \in Operations /\ u # Main => os'[u].rt)
    <3>1. ASSUME NEW o \in Objects, NEW c \in Configs, ThreadCtor(t, o, c, u)
          PROVE  os'[u].prio = want'[u] /\ ("update" \in Operations => os'[u].rt)
      <4>1. /\ os'[u] = Created(t, u, o, c) /\ ~AttributesReject(c)
            /\ want'[u] = IF c.mSched = None THEN os[t].prio ELSE c.mSched.prio
        BY <3>1 DEF ThreadCtor, Setup, Shape
      <4>2. os'[u].prio = AttrSched(t, c).prio /\ os'[u].rt = AttrSched(t, c).rt
        BY <4>1 DEF Created
      <4>3. /\ c.mSched = None \/ c.mSched.rt
            /\ "update" \in Operations => c.mSched # None
        BY DEF NoNice, NotNice
      <4>4. CASE c.mSched = None
        BY <4>1, <4>2, <4>3, <4>4, CreatedFits
      <4>5. CASE c.mSched # None
        BY <4>1, <4>2, <4>3, <4>5, CreatedFits
      <4>6. QED
        BY <4>4, <4>5
    <3>2. CASE KeepsThread(t, u)
      <4>1. os[u].state # "none" /\ os'[u].rt = os[u].rt
        BY <2>1, <3>2 DEF KeepsThread
      <4>2. os[u].prio = want[u] /\ ("update" \in Operations /\ u # Main => os[u].rt)
        BY <4>1 DEF StartedRight
      <4>3. ASSUME Updates(t) PROVE os'[u].prio = want'[u]
        BY <4>2, <4>3, UpdateApplies DEF Updates
      <4>4. ASSUME PostThreadEntryInit(u) PROVE os'[u].prio = want'[u]
        <5>1. PICK s \in SchedRead(u) :
                os' = [os EXCEPT ![u].state = "body",
                                 ![u].prio = IF SetsNice(s) THEN Clamped(s.prio) ELSE @]
          BY <4>4 DEF PostThreadEntryInit
        <5>2. os[u].state = "entry" /\ want' = want
          BY <4>4 DEF PostThreadEntryInit
        <5>3. PICK o \in Objects : o = os[u].This
          BY <5>2, SchedReads
        <5>4. s = None \/ s = obj[o].mSched
          BY <5>3 DEF SchedRead
        <5>5. ~SetsNice(s)
          BY <5>4 DEF StartedRight, NotNice, SetsNice
        <5>6. os[u] \in Posix
          BY DEF Setup, Shape
        <5>7. os'[u].prio = os[u].prio
          BY <5>1, <5>5, <5>6 DEF Setup, Shape, Posix
        <5>8. QED
          BY <4>2, <5>2, <5>7
      <4>5. QED
        BY <3>2, <4>1, <4>2, <4>3, <4>4 DEF KeepsThread
    <3>3. QED
      BY <1>2, <3>1, <3>2, ThreadKept
  <2>2. MainRuns'
    <3>1. \A o \in Objects, c \in Configs : ~ThreadCtor(t, o, c, Main)
      BY DEF ThreadCtor, StartedRight, MainRuns
    <3>2. KeepsThread(t, Main)
      BY <1>2, <3>1, ThreadKept, ThreadAssumption
    <3>3. QED
      BY <3>2 DEF KeepsThread, StartedRight, MainRuns
  <2>3. QED
    BY <1>2, <2>1, <2>2, ObjectsStartedRight DEF StartedRight
<1>3. QED
  BY <1>1, <1>2 DEF Next

-----------------------------------------------------------------------------
(* Then where threads are given nice values too, their objects stay with   *)
(* them and UpdatePriority() is not called: a thread has the priority      *)
(* asked for from the time it has set itself up.                           *)
SetUpRight ==
  \A u \in Tids :
    /\ os[u].state = "entry" =>
         IF SetsNice(obj[os[u].This].mSched) THEN want[u] = obj[os[u].This].mSched.prio
         ELSE os[u].prio = want[u]
    /\ os[u].state = "body" => os[u].prio = want[u]

LEMMA StartSetUpRight == Start => SetUpRight
BY DEF Start, SetUpRight, Absent

LEMMA NextSetUpRight ==
  ASSUME Stays, "update" \notin Operations, Setup, Attached, SetUpRight, [Next]_vars
  PROVE  SetUpRight'
<1>1. CASE UNCHANGED vars
  BY <1>1 DEF vars, SetUpRight
<1>2. ASSUME NEW t \in Tids, ThreadStep(t), NEW u \in Tids
      PROVE  /\ os'[u].state = "entry" =>
                  IF SetsNice(obj'[os'[u].This].mSched)
                    THEN want'[u] = obj'[os'[u].This].mSched.prio
                    ELSE os'[u].prio = want'[u]
             /\ os'[u].state = "body" => os'[u].prio = want'[u]
  <2>1. ~Updates(t)
    BY DEF Updates, UpdatePriority
  <2>2. ASSUME NEW o \in Objects, NEW c \in Configs, ThreadCtor(t, o, c, u)
        PROVE  /\ os'[u].state = "entry" /\ os'[u].This = o /\ obj'[o].mSched = c.mSched
               /\ IF SetsNice(c.mSched) THEN want'[u] = c.mSched.prio
                  ELSE os'[u].prio = want'[u]
    <3>1. /\ os'[u] = Created(t, u, o, c) /\ ~AttributesReject(c)
          /\ want'[u] = IF c.mSched = None THEN os[t].prio ELSE c.mSched.prio
      BY <2>2 DEF ThreadCtor, Setup, Shape
    <3>2. os'[u].prio = AttrSched(t, c).prio /\ os'[u].state = "entry"
      BY <3>1 DEF Created
    <3>3. CASE c.mSched = None
      BY <2>2, <3>1, <3>2, <3>3, CreatedFits, CtorAttached DEF SetsNice
    <3>4. CASE c.mSched # None
      BY <2>2, <3>1, <3>2, <3>4, CreatedFits, CtorAttached DEF SetsNice
    <3>5. QED
      BY <3>3, <3>4
  <2>3. ASSUME KeepsThread(t, u), os'[u].state = "entry"
        PROVE  IF SetsNice(obj'[os'[u].This].mSched)
                 THEN want'[u] = obj'[os'[u].This].mSched.prio
                 ELSE os'[u].prio = want'[u]
    <3>1. os[u].state = "entry" /\ os'[u].This = os[u].This /\ want'[u] = want[u]
      BY <2>1, <2>3 DEF KeepsThread
    <3>2. ~PostThreadEntryInit(u)
      BY <2>3, <3>1 DEF PostThreadEntryInit, Setup, Shape, Posix
    <3>3. os'[u].prio = os[u].prio
      BY <2>1, <2>3, <3>2 DEF KeepsThread
    <3>4. PICK o \in Objects : o = os[u].This /\ Joiner(o) /\ obj[o].mTid = u
      BY <3>1 DEF Setup, Shape, Posix, Attached
    <3>5. obj'[o].mSched = obj[o].mSched
      BY <1>2, <2>1, <3>1, <3>4, JoinerKept
    <3>6. QED
      BY <3>1, <3>3, <3>4, <3>5 DEF SetUpRight
  <2>4. ASSUME PostThreadEntryInit(u) PROVE os'[u].state = "body" /\ os'[u].prio = want'[u]
    <3>1. PICK s \in SchedRead(u) :
            os' = [os EXCEPT ![u].state = "body",
                             ![u].prio = IF SetsNice(s) THEN Clamped(s.prio) ELSE @]
      BY <2>4 DEF PostThreadEntryInit
    <3>2. os[u].state = "entry" /\ want' = want
      BY <2>4 DEF PostThreadEntryInit
    <3>3. PICK o \in Objects : o = os[u].This
      BY <3>2, SchedReads
    <3>4. s = obj[o].mSched /\ (s # None => s.rt = os[u].rt)
      BY <3>2, <3>3, SchedReads DEF Attached, Joiner
    <3>5. os[u] \in Posix /\ want[u] \in PrioRange(os[u].rt)
      BY DEF Setup, Shape, PriosFit
    <3>6. IF SetsNice(s) THEN want[u] = s.prio ELSE os[u].prio = want[u]
      BY <3>2, <3>3, <3>4 DEF SetUpRight
    <3>7. /\ os'[u].state = "body"
          /\ os'[u].prio = IF SetsNice(s) THEN Clamped(s.prio) ELSE os[u].prio
      BY <3>1, <3>5 DEF Setup, Shape, Posix
    <3>8. ASSUME SetsNice(s) PROVE Clamped(s.prio) = want[u]
      <4>1. want[u] = s.prio /\ want[u] \in -20..19
        BY <3>4, <3>5, <3>6, <3>8 DEF SetsNice, PrioRange
      <4>2. QED
        BY <4>1 DEF Clamped
    <3>9. QED
      BY <3>2, <3>6, <3>7, <3>8
  <2>5. ASSUME KeepsThread(t, u), ~PostThreadEntryInit(u), os'[u].state = "body"
        PROVE  os'[u].prio = want'[u]
    <3>1. os'[u].prio = os[u].prio /\ want'[u] = want[u]
      BY <2>1, <2>5 DEF KeepsThread
    <3>2. os[u].state = "body"
      BY <2>5 DEF KeepsThread
    <3>3. QED
      BY <3>1, <3>2 DEF SetUpRight
  <2>6. QED
    BY <1>2, <2>2, <2>3, <2>4, <2>5, ThreadKept
<1>3. QED
  BY <1>1, <1>2 DEF Next, SetUpRight

(* A thread in its function has the priority last asked for it: set before *)
(* it runs by the real-time attributes, by itself in PostThreadEntryInit() *)
(* or by UpdatePriority().  Either no thread is given a nice value, and    *)
(* all are real time where UpdatePriority() is called (which of any other  *)
(* thread sets the caller's); or UpdatePriority() is not called and the    *)
(* objects stay with their threads until these have set themselves up.     *)
THEOREM PriorityHolds ==
  ASSUME NoNice \/ (Stays /\ "update" \notin Operations)
  PROVE  Spec => []PriorityApplied
<1>1. CASE NoNice
  <2>1. Setup /\ StartedRight /\ [Next]_vars => StartedRight'
    BY <1>1, NextStartedRight
  <2>2. StartedRight => PriorityApplied
    BY DEF StartedRight, PriorityApplied
  <2>3. QED
    BY <2>1, <2>2, StartStartedRight, SetupHolds, PTL DEF Spec
<1>2. CASE Stays /\ "update" \notin Operations
  <2>1. Setup /\ Attached /\ SetUpRight /\ [Next]_vars => SetUpRight'
    BY <1>2, NextSetUpRight
  <2>2. SetUpRight => PriorityApplied
    BY DEF SetUpRight, PriorityApplied
  <2>3. Spec => [](Setup /\ Attached)
    BY <1>2, AttachedHolds
  <2>4. QED
    BY <2>1, <2>2, <2>3, StartSetUpRight, PTL DEF Spec
<1>3. QED
  BY <1>1, <1>2
=============================================================================
