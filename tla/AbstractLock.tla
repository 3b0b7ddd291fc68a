----------------------------- MODULE AbstractLock -----------------------------
(***************************************************************************)
(* What Axzl::Mutex promises to the threads that call it, without saying   *)
(* how: a lock at most one of them is inside of.  A thread that ends       *)
(* inside either comes out that way or stays there for ever.               *)
(***************************************************************************)
EXTENDS Naturals

CONSTANTS
  Threads,
  Nests     \* may a thread that is inside go in again?

VARIABLES
  depth,    \* how often each thread has gone in and not come out
  asking,   \* the threads in a locking call
  gone      \* the threads that have ended

vars == <<depth, asking, gone>>

Init ==
  /\ depth = [t \in Threads |-> 0]
  /\ asking = {}
  /\ gone = {}

OthersOut(t) == \A u \in Threads \ {t} : depth[u] = 0

Ask(t) ==
  /\ t \notin asking \cup gone
  /\ asking' = asking \cup {t}
  /\ UNCHANGED <<depth, gone>>

(* A call lets its thread in; a call that does not wait need not ask.      *)
Enter(t) ==
  /\ t \notin gone
  /\ OthersOut(t)
  /\ depth[t] = 0 \/ Nests
  /\ depth' = [depth EXCEPT ![t] = @ + 1]
  /\ asking' = asking \ {t}
  /\ UNCHANGED gone

(* A call gives up: false, or an exception.                                *)
Refuse(t) ==
  /\ t \in asking
  /\ asking' = asking \ {t}
  /\ UNCHANGED <<depth, gone>>

Leave(t) ==
  /\ depth[t] > 0
  /\ t \notin asking
  /\ depth' = [depth EXCEPT ![t] = @ - 1]
  /\ UNCHANGED <<asking, gone>>

End(dead, freed) ==
  /\ gone' = gone \cup dead
  /\ asking' = asking \ dead
  /\ depth' = [t \in Threads |-> IF t \in freed THEN 0 ELSE depth[t]]

Next ==
  \/ \E t \in Threads : Ask(t) \/ Enter(t) \/ Refuse(t) \/ Leave(t)
  \/ \E dead \in SUBSET Threads : \E freed \in SUBSET dead : End(dead, freed)

Spec == Init /\ [][Next]_vars

(* While threads ask and nobody is inside, one of them gets an answer.     *)
Answer == \E t \in asking : OthersOut(t) /\ (Enter(t) \/ Refuse(t))

FairSpec == Spec /\ WF_vars(Answer)
=============================================================================
