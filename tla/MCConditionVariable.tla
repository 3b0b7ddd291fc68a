------------------------- MODULE MCConditionVariable -------------------------
(***************************************************************************)
(* Instances of ConditionVariable for TLC.                                 *)
(***************************************************************************)
EXTENDS ConditionVariable, TLC

CONSTANTS t1, t2, t3,   \* threads
          h1, h2        \* ConditionVariable objects

(* One object on the heap, three threads of one process.                   *)
OneHandle  == {h1}
HeapOrigin == (h1 :> "heap")
AllOnOne   == (t1 :> h1 @@ t2 :> h1 @@ t3 :> h1)
HeapConfig == {DefaultConfig}

(* A creator of a shared condition variable with two threads that may be   *)
(* exchanged, and an opener with one.                                      *)
TwoHandles   == {h1, h2}
PairOrigin   == (h1 :> "create" @@ h2 :> "open")
TwoAndOne    == (t1 :> h1 @@ t2 :> h1 @@ t3 :> h2)
KeepConfig   == {SetSharedMem(DefaultConfig)}
PairSymmetry == Permutations({t1, t2})
=============================================================================
