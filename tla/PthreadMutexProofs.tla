-------------------------- MODULE PthreadMutexProofs --------------------------
(***************************************************************************)
(* What the pthread calls of PthreadMutex keep and change: the lemmas the  *)
(* proofs about Mutex and ConditionVariable share.                         *)
(***************************************************************************)
EXTENDS PthreadMutex, Integers, TLAPS

USE NoThreadAssumption, MaxCountAssumption

-----------------------------------------------------------------------------
(* The pthread calls keep the mutex a mutex.                               *)
LEMMA OwnedByType ==
  ASSUME NEW m \in PMutex, NEW o \in Threads \cup {NoThread},
         NEW c \in 0..MaxCount, NEW h \in Healths
  PROVE  OwnedBy(m, o, c, h) \in PMutex
BY DEF OwnedBy, PMutex

(* The fields of OwnedBy.                                                  *)
LEMMA OwnedByFields ==
  ASSUME NEW m \in PMutex, NEW o, NEW c, NEW h
  PROVE  /\ OwnedBy(m, o, c, h).owner = o
         /\ OwnedBy(m, o, c, h).count = c
         /\ OwnedBy(m, o, c, h).health = h
         /\ OwnedBy(m, o, c, h).life = m.life
         /\ OwnedBy(m, o, c, h).type = m.type
         /\ OwnedBy(m, o, c, h).robust = m.robust
         /\ OwnedBy(m, o, c, h).proto = m.proto
BY DEF OwnedBy, PMutex

(* What the fields of a mutex are, without its record set.                 *)
LEMMA PMutexFields ==
  ASSUME NEW m \in PMutex
  PROVE  /\ m.life \in {"raw", "init", "destroyed", "freed"}
         /\ m.type \in MutexTypes
         /\ m.robust \in BOOLEAN
         /\ m.proto \in Protocols
         /\ m.owner \in Threads \cup {NoThread}
         /\ m.count \in 0..MaxCount
         /\ m.health \in Healths
BY DEF PMutex

LEMMA FieldValues ==
  /\ "consistent" \in Healths /\ "ownerdead" \in Healths
  /\ "inconsistent" \in Healths /\ "notrecoverable" \in Healths
  /\ 0 \in 0..MaxCount /\ 1 \in 0..MaxCount
  /\ \A c \in 0..MaxCount : c < MaxCount => c + 1 \in 0..MaxCount
  /\ \A c \in 0..MaxCount : c > 1 => c - 1 \in 0..MaxCount
BY DEF Healths

LEMMA LockRetType ==
  ASSUME NEW m \in PMutex, NEW t \in Threads, NEW r, NEW n, LockRet(m, t, r, n)
  PROVE  n \in PMutex
<1> USE FieldValues, PMutexFields, OwnedByType
<1>1. CASE n = OwnedBy(m, t, 1, "consistent") \/ n = OwnedBy(m, t, 1, "inconsistent")
  BY <1>1
<1>2. CASE m.count < MaxCount /\ n = OwnedBy(m, t, m.count + 1, m.health)
  BY <1>2
<1>3. CASE n = m
  BY <1>3
<1>4. QED
  BY <1>1, <1>2, <1>3 DEF LockRet

LEMMA UnlockRetType ==
  ASSUME NEW m \in PMutex, NEW t \in Threads, NEW r, NEW n, UnlockRet(m, t, r, n)
  PROVE  n \in PMutex
<1> USE FieldValues, PMutexFields, OwnedByType
<1>1. CASE \E h \in Healths : n = OwnedBy(m, NoThread, 0, h)
  BY <1>1
<1>2. CASE m.count > 1 /\ n = OwnedBy(m, t, m.count - 1, m.health)
  BY <1>2
<1>3. CASE n = m
  BY <1>3
<1>4. QED
  BY <1>1, <1>2, <1>3 DEF UnlockRet

LEMMA ConsistentRetType ==
  ASSUME NEW m \in PMutex, NEW r, NEW n, ConsistentRet(m, r, n)
  PROVE  n \in PMutex
<1>1. CASE n = OwnedBy(m, m.owner, m.count, "consistent")
  BY <1>1, FieldValues, PMutexFields, OwnedByType
<1>2. QED
  BY <1>1 DEF ConsistentRet

LEMMA DestroyedType ==
  ASSUME NEW m \in PMutex
  PROVE  Destroyed(m) \in PMutex
BY DEF Destroyed, PMutex

LEMMA FreedType ==
  ASSUME NEW m \in PMutex
  PROVE  Freed(m) \in PMutex
BY DEF Freed, PMutex

LEMMA OwnersGoneType ==
  ASSUME NEW m \in PMutex, NEW dead
  PROVE  OwnersGone(m, dead) \in PMutex
BY OwnedByType, PMutexFields DEF OwnersGone, Healths

-----------------------------------------------------------------------------
(* What each pthread call does to the owner, the count and the attributes. *)
SameAttrs(m, n) == n.type = m.type /\ n.robust = m.robust /\ n.proto = m.proto

LEMMA LockRetEffect ==
  ASSUME NEW m \in PMutex, NEW t \in Threads, NEW r, NEW n, LockRet(m, t, r, n)
  PROVE  /\ n.life = m.life /\ SameAttrs(m, n)
         /\ r = "OK" => /\ n.owner = t
                        /\ \/ m.owner = NoThread /\ n.count = 1
                           \/ /\ m.owner = t /\ m.type = "RECURSIVE"
                              /\ n.count = m.count + 1
         /\ r = "EOWNERDEAD" => m.owner = NoThread /\ n.owner = t /\ n.count = 1
         /\ r \notin {"OK", "EOWNERDEAD"} => n = m
<1> USE OwnedByFields DEF SameAttrs
<1>1. CASE m.owner = NoThread /\ r = "OK" /\ n = OwnedBy(m, t, 1, "consistent")
  BY <1>1
<1>2. CASE m.owner = NoThread /\ r = "EOWNERDEAD" /\ n = OwnedBy(m, t, 1, "inconsistent")
  BY <1>2
<1>3. CASE /\ m.owner = t /\ m.type = "RECURSIVE" /\ r = "OK" /\ m.count < MaxCount
           /\ n = OwnedBy(m, t, m.count + 1, m.health)
  BY <1>3
<1>4. CASE r \notin {"OK", "EOWNERDEAD"} /\ n = m
  BY <1>4
<1>5. QED
  BY <1>1, <1>2, <1>3, <1>4 DEF LockRet

LEMMA UnlockRetEffect ==
  ASSUME NEW m \in PMutex, NEW t \in Threads, NEW r, NEW n, UnlockRet(m, t, r, n)
  PROVE  /\ n.life = m.life /\ SameAttrs(m, n)
         /\ m.owner = t => \/ n = m
                           \/ m.count > 1 /\ n.owner = t /\ n.count = m.count - 1
                           \/ m.count <= 1 /\ n.owner = NoThread
         /\ m.owner # t => n = m \/ (m.life = "init" /\ ~Checked(m))
         /\ m.life # "freed"
<1>0. m.life # "freed"
  BY DEF UnlockRet
<1> USE <1>0, OwnedByFields DEF SameAttrs
<1>1. CASE n = m
  BY <1>1
<1>2. CASE /\ m.owner # t /\ m.life = "init" /\ ~Checked(m)
           /\ n = OwnedBy(m, NoThread, 0, m.health)
  BY <1>2
<1>3. CASE m.owner = t /\ m.count > 1 /\ n = OwnedBy(m, t, m.count - 1, m.health)
  BY <1>3
<1>4. CASE /\ m.owner = t /\ m.count <= 1
           /\ \E h \in Healths : n = OwnedBy(m, NoThread, 0, h)
  BY <1>4
<1>5. QED
  BY <1>1, <1>2, <1>3, <1>4 DEF UnlockRet

LEMMA ConsistentRetEffect ==
  ASSUME NEW m \in PMutex, NEW r, NEW n, ConsistentRet(m, r, n)
  PROVE  /\ n.life = m.life /\ SameAttrs(m, n)
         /\ n.owner = m.owner /\ n.count = m.count
<1>1. CASE n = OwnedBy(m, m.owner, m.count, "consistent")
  BY <1>1, OwnedByFields DEF SameAttrs
<1>2. QED
  BY <1>1 DEF ConsistentRet, SameAttrs

LEMMA DestroyedEffect ==
  ASSUME NEW m \in PMutex
  PROVE  /\ SameAttrs(m, Destroyed(m))
         /\ Destroyed(m).life \in {m.life, "destroyed"}
         /\ Destroyed(m).owner = m.owner /\ Destroyed(m).count = m.count
BY DEF Destroyed, PMutex, SameAttrs

LEMMA FreedEffect ==
  ASSUME NEW m \in PMutex
  PROVE  /\ SameAttrs(m, Freed(m)) /\ Freed(m).life = "freed"
         /\ Freed(m).owner = m.owner /\ Freed(m).count = m.count
         /\ Freed(m).health = m.health
BY DEF Freed, PMutex, SameAttrs

LEMMA OwnersGoneEffect ==
  ASSUME NEW m \in PMutex, NEW dead
  PROVE  /\ OwnersGone(m, dead).life = m.life /\ SameAttrs(m, OwnersGone(m, dead))
         /\ \/ OwnersGone(m, dead) = m
            \/ m.owner \in dead /\ OwnersGone(m, dead).owner = NoThread
BY OwnedByFields DEF OwnersGone, SameAttrs

-----------------------------------------------------------------------------
(* What each call does to the record of an owner's death.                  *)
LEMMA LockRetHealth ==
  ASSUME NEW m \in PMutex, NEW t \in Threads, NEW r, NEW n, LockRet(m, t, r, n)
  PROVE  /\ r \in {"OK", "EOWNERDEAD"} => m.life = "init"
         /\ r = "OK" => n.health = m.health
         /\ r = "EOWNERDEAD" => m.health = "ownerdead" /\ n.health = "inconsistent"
BY OwnedByFields DEF LockRet

LEMMA UnlockRetHealth ==
  ASSUME NEW m \in PMutex, NEW t \in Threads, NEW r, NEW n, UnlockRet(m, t, r, n)
  PROVE  /\ m.health # "inconsistent" => n.health = m.health
         /\ m.owner = t /\ m.count > 1 => n.health = m.health
         /\ m.life = "init" /\ m.owner = t =>
              \/ m.count > 1 /\ n.owner = t /\ n.count = m.count - 1
              \/ m.count <= 1 /\ n.owner = NoThread
<1> USE OwnedByFields
<1>1. CASE n = m /\ ~(m.life = "init" /\ m.owner = t)
  BY <1>1
<1>2. CASE m.owner # t /\ n = OwnedBy(m, NoThread, 0, m.health)
  BY <1>2
<1>3. CASE m.owner = t /\ m.count > 1 /\ n = OwnedBy(m, t, m.count - 1, m.health)
  BY <1>3
<1>4. CASE /\ m.owner = t /\ m.count <= 1
           /\ n = OwnedBy(m, NoThread, 0,
                  IF m.health = "inconsistent" THEN "notrecoverable" ELSE m.health)
  <2>1. ~(m.count > 1)
    BY <1>4, PMutexFields
  <2>2. QED
    BY <1>4, <2>1
<1>5. QED
  BY <1>1, <1>2, <1>3, <1>4 DEF UnlockRet

LEMMA ConsistentRetHealth ==
  ASSUME NEW m \in PMutex, NEW n, ConsistentRet(m, "OK", n)
  PROVE  m.robust /\ m.health = "inconsistent" /\ n.health = "consistent"
BY OwnedByFields DEF ConsistentRet

LEMMA DestroyedHealth ==
  ASSUME NEW m \in PMutex
  PROVE  /\ Destroyed(m).health = m.health
         /\ m.owner # NoThread /\ ~m.robust => Destroyed(m) = m
BY DEF Destroyed, PMutex

LEMMA OwnersGoneHealth ==
  ASSUME NEW m \in PMutex, NEW dead
  PROVE  \/ m.robust /\ m.owner \in dead /\ OwnersGone(m, dead).owner = NoThread
            /\ OwnersGone(m, dead).health = "ownerdead"
         \/ ~(m.robust /\ m.owner \in dead) /\ OwnersGone(m, dead) = m
BY OwnedByFields DEF OwnersGone
=============================================================================
