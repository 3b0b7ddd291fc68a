----------------------------- MODULE AbstractWait -----------------------------
(***************************************************************************)
(* What the callers of ConditionVariable are promised, without a mutex, a  *)
(* queue of sleepers or notifications: a thread that waits with a          *)
(* predicate gets an item or, only once its deadline has passed, gives up; *)
(* one that waits without is woken at any time; and a wait fails only when *)
(* some thread has died.                                                   *)
(***************************************************************************)
EXTENDS Naturals

CONSTANT Threads

VARIABLES
  ready,   \* how many items there are
  asking,  \* the kind of wait each thread is in: "pred", "status" or "none"
  late,    \* whether its deadline has passed
  gone     \* the threads that died

waitVars == <<ready, asking, late, gone>>

Start ==
  /\ ready = 0
  /\ asking = [t \in Threads |-> "none"]
  /\ late = [t \in Threads |-> FALSE]
  /\ gone = {}

Put == ready' = ready + 1 /\ UNCHANGED <<asking, late, gone>>

Ask(t, kind) ==
  /\ asking[t] = "none" /\ t \notin gone
  /\ asking' = [asking EXCEPT ![t] = kind]
  /\ late' = [late EXCEPT ![t] = FALSE]
  /\ UNCHANGED <<ready, gone>>

Expire(t) ==
  /\ asking[t] # "none" /\ ~late[t]
  /\ late' = [late EXCEPT ![t] = TRUE]
  /\ UNCHANGED <<ready, asking, gone>>

Leave(t) ==
  /\ asking[t] # "none"
  /\ asking' = [asking EXCEPT ![t] = "none"]
  /\ UNCHANGED <<late, gone>>

Take(t)   == asking[t] = "pred" /\ ready > 0 /\ Leave(t) /\ ready' = ready - 1
Woken(t)  == asking[t] = "status" /\ Leave(t) /\ UNCHANGED ready
GiveUp(t) == late[t] /\ Leave(t) /\ UNCHANGED ready
Fail(t)   == gone # {} /\ Leave(t) /\ UNCHANGED ready

Die(t) ==
  /\ t \notin gone /\ gone' = gone \cup {t}
  /\ asking' = [asking EXCEPT ![t] = "none"]
  /\ UNCHANGED <<ready, late>>

Next ==
  \/ Put
  \/ \E t \in Threads : \/ \E kind \in {"pred", "status"} : Ask(t, kind)
                        \/ Expire(t) \/ Take(t) \/ Woken(t) \/ GiveUp(t) \/ Fail(t) \/ Die(t)

Spec == Start /\ [][Next]_waitVars
=============================================================================
