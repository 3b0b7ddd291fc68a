----------------------------- MODULE ErrorProofs -----------------------------
(***************************************************************************)
(* What holds of Throw() and the log below it for any number of threads    *)
(* and logs, any environment, and any bounds.                              *)
(***************************************************************************)
EXTENDS Error, FiniteSetTheorems, TLAPS

USE LogAssumption, BuildAssumption, EnvironsAssumption, BoundsAssumption

-----------------------------------------------------------------------------
(* The steps of the log alone, with errorVars unchanged.                   *)
LogOnly ==
  /\ UNCHANGED errorVars
  /\ \/ \E t \in Threads, l \in Logs, m \in Messages : stage[t] = "no" /\ LogCall(t, l, m)
     \/ \E t \in Threads : (stage[t] = "no" /\ Drain(t)) \/ PushEntry(t)
     \/ \E l \in Logs, level \in Levels : SetLevel(l, level)
     \/ Spill \/ Abort

(* Every step is one of these.                                             *)
LEMMA StepCases ==
  ASSUME [Next]_vars
  PROVE  \/ LogOnly
         \/ \E t \in Threads, l \in Logs : Throw(t, l)
         \/ \E t \in Threads : \/ ErrorPolicyInit(t) \/ ErrorEnvPolicyThrows(t)
                               \/ ErrorEnvPolicyReturns(t) \/ ThrowActs(t) \/ Caught(t)
         \/ \E value \in Environs : SetEnv(value)
         \/ UNCHANGED vars
<1>1. ASSUME NEW t \in Threads, LogStep(t) PROVE LogOnly
  BY <1>1 DEF LogStep, LogOnly
<1>2. ASSUME NEW t \in Threads, ErrorEnvPolicyCrashes(t) \/ Uncaught(t) PROVE LogOnly
  BY <1>2 DEF ErrorEnvPolicyCrashes, Uncaught, LogOnly
<1>3. ASSUME NEW l \in Logs, NEW level \in Levels, SetLevel(l, level), UNCHANGED errorVars
      PROVE  LogOnly
  BY <1>3 DEF LogOnly
<1>4. ASSUME Spill, UNCHANGED errorVars PROVE LogOnly
  BY <1>4 DEF LogOnly
<1>5. QED
  BY <1>1, <1>2, <1>3, <1>4 DEF Next, PolicyStep

-----------------------------------------------------------------------------
(* Type correctness, of the log and of the rest.                           *)
LogType ==
  /\ mLevel \in [Logs -> Trace..Off]
  /\ stdout \in [Threads -> Nat] /\ out \in [Threads -> Nat] /\ drained \in [Threads -> Nat]
  /\ pos \in [Threads -> 0..Parts] /\ said \in [Threads -> Nat]
  /\ up \in BOOLEAN

ErrorType ==
  /\ env \in Environs /\ envRead \in Environs \cup {"unread"}
  /\ guard \in {"unset", "busy", "set"}
  /\ policy \in UnrecoverableErrorPolicy \cup {"unset"}
  /\ stage \in [Threads -> {"no", "policy", "init", "left"}]
  /\ crit \in [Threads -> BOOLEAN]
  /\ answers \subseteq {"exception", "logic_error", "handler", "abort"}
  /\ throws \in 0..MaxThrows

(* ErrorType is not inductive: what Throw() does is known only of a policy *)
(* that was found out, which is the one of the build.                      *)
Settled == guard = "set" => envRead \notin {"unread", "null"} /\ policy = Build

LEMMA BuildActs == ActsOn(Build) = {"exception"}
<1>1. Build \in {"throw", "logandthrow"}
  BY DEF BuildAssumption
<1>2. QED
  BY <1>1 DEF ActsOn

LEMMA TypeParts == TypeOK <=> LogType /\ ErrorType
BY DEF TypeOK, LogType, ErrorType

LEMMA AbortType ==
  ASSUME LogType, Abort
  PROVE  LogType'
BY DEF LogType, Abort

LEMMA ExpandType ==
  ASSUME LogType, NEW t \in Threads, ExpandLogMsg(t)
  PROVE  pos' \in [Threads -> 0..Parts] /\ said' \in [Threads -> Nat]
BY DEF LogType, ExpandLogMsg, Parts

LEMMA LogOnlyType ==
  ASSUME LogType, LogOnly
  PROVE  LogType'
<1>1. ASSUME NEW t \in Threads, NEW l \in Logs, NEW m \in Messages, LogCall(t, l, m)
      PROVE  LogType'
  BY <1>1, ExpandType DEF LogCall, LogType
<1>2. ASSUME NEW t \in Threads, Drain(t) PROVE LogType'
  BY <1>2 DEF Drain, LogType
<1>3. ASSUME NEW t \in Threads, PushEntry(t) PROVE LogType'
  <2>1. pos' \in [Threads -> 0..Parts] /\ stdout' \in [Threads -> Nat]
    BY <1>3 DEF PushEntry, LogType, Parts
  <2>2. QED
    BY <1>3, <2>1 DEF PushEntry, LogType
<1>4. ASSUME NEW l \in Logs, NEW level \in Levels, SetLevel(l, level) PROVE LogType'
  BY <1>4 DEF SetLevel, LogType
<1>5. CASE Spill
  BY <1>5 DEF Spill, LogType
<1>6. CASE Abort
  BY <1>6, AbortType
<1>7. QED
  BY <1>1, <1>2, <1>3, <1>4, <1>5, <1>6 DEF LogOnly

LEMMA TypeStep ==
  ASSUME LogType, ErrorType, Settled, [Next]_vars
  PROVE  LogType' /\ ErrorType'
<1>1. CASE LogOnly
  <2>1. ErrorType'
    BY <1>1 DEF LogOnly, errorVars, ErrorType
  <2>2. QED
    BY <1>1, <2>1, LogOnlyType
<1>2. ASSUME NEW t \in Threads, NEW l \in Logs, Throw(t, l) PROVE LogType' /\ ErrorType'
  <2>1. pos' \in [Threads -> 0..Parts] /\ said' \in [Threads -> Nat]
    BY <1>2, ExpandType DEF Throw, LogType
  <2>2. Passes(l, Critical) \in BOOLEAN
    BY DEF Passes
  <2>3. throws' \in 0..MaxThrows
    BY <1>2 DEF Throw, ErrorType
  <2>4. QED
    BY <1>2, <2>1, <2>2, <2>3 DEF Throw, LogType, ErrorType
<1>3. ASSUME NEW t \in Threads, ErrorPolicyInit(t) PROVE LogType' /\ ErrorType'
  BY <1>3 DEF ErrorPolicyInit, EnvReadOnce, logVars, LogType, ErrorType
<1>4. ASSUME NEW t \in Threads, ErrorEnvPolicyThrows(t) PROVE LogType' /\ ErrorType'
  BY <1>4 DEF ErrorEnvPolicyThrows, Leave, logVars, LogType, ErrorType
<1>5. ASSUME NEW t \in Threads, ErrorEnvPolicyReturns(t) PROVE LogType' /\ ErrorType'
  BY <1>5 DEF ErrorEnvPolicyReturns, logVars, LogType, ErrorType, UnrecoverableErrorPolicy
<1>6. ASSUME NEW t \in Threads, ThrowActs(t) PROVE LogType' /\ ErrorType'
  <2>1. PICK a \in ActsOn(policy) : Leave(t, a) /\ (UNCHANGED logVars \/ Abort)
    BY <1>6 DEF ThrowActs
  <2>2. LogType'
    BY <2>1, AbortType DEF logVars, LogType
  <2>3. a = "exception"
    BY <1>6, <2>1, BuildActs DEF ThrowActs, Settled
  <2>4. ErrorType'
    BY <1>6, <2>1, <2>3 DEF ThrowActs, Leave, ErrorType
  <2>5. QED
    BY <2>2, <2>4
<1>7. ASSUME NEW t \in Threads, Caught(t) PROVE LogType' /\ ErrorType'
  BY <1>7 DEF Caught, logVars, LogType, ErrorType
<1>8. ASSUME NEW value \in Environs, SetEnv(value) PROVE LogType' /\ ErrorType'
  BY <1>8 DEF SetEnv, logVars, LogType, ErrorType
<1>9. CASE UNCHANGED vars
  BY <1>9 DEF vars, logVars, errorVars, LogType, ErrorType
<1>10. QED
  BY <1>1, <1>2, <1>3, <1>4, <1>5, <1>6, <1>7, <1>8, <1>9, StepCases

-----------------------------------------------------------------------------
(* Why all errors are answered alike: nobody has an answer before the      *)
(* environment was read, which happens once, and what was read tells.      *)
ReadFirst ==
  /\ (\E t \in Threads : stage[t] = "init") => envRead # "unread"
  /\ answers # {} => envRead # "unread"
  /\ answers \subseteq IF envRead = "null" THEN {"logic_error"} ELSE {"exception"}

LEMMA ReadStep ==
  ASSUME LogType, ErrorType, Settled, ReadFirst, [Next]_vars
  PROVE  Settled' /\ ReadFirst'
<1>1. CASE LogOnly \/ UNCHANGED vars
  BY <1>1 DEF LogOnly, vars, errorVars, Settled, ReadFirst
<1>2. ASSUME NEW t \in Threads, NEW l \in Logs, Throw(t, l) PROVE Settled' /\ ReadFirst'
  BY <1>2 DEF Throw, Settled, ReadFirst, ErrorType
<1>3. ASSUME NEW t \in Threads, ErrorPolicyInit(t) PROVE Settled' /\ ReadFirst'
  <2>1. envRead' # "unread" /\ (envRead # "unread" => envRead' = envRead)
    BY <1>3 DEF ErrorPolicyInit, EnvReadOnce, ErrorType, UnrecoverableErrorPolicy
  <2>2. answers' = answers /\ guard' = "busy"
    BY <1>3 DEF ErrorPolicyInit
  <2>3. QED
    BY <2>1, <2>2 DEF Settled, ReadFirst
<1>4. ASSUME NEW t \in Threads, ErrorEnvPolicyThrows(t) PROVE Settled' /\ ReadFirst'
  <2>1. envRead = "null" /\ envRead' = "null" /\ guard' = "unset"
        /\ answers' = answers \cup {"logic_error"}
    BY <1>4 DEF ErrorEnvPolicyThrows, NullString, Leave
  <2>2. QED
    BY <2>1 DEF Settled, ReadFirst
<1>5. ASSUME NEW t \in Threads, ErrorEnvPolicyReturns(t) PROVE Settled' /\ ReadFirst'
  <2>1. envRead' = envRead /\ envRead \notin {"null", "unread"} /\ answers' = answers
        /\ policy' = Build
    BY <1>5 DEF ErrorEnvPolicyReturns, NullString, ReadFirst
  <2>2. QED
    BY <2>1 DEF Settled, ReadFirst
<1>6. ASSUME NEW t \in Threads, ThrowActs(t) PROVE Settled' /\ ReadFirst'
  <2>1. guard = "set" /\ envRead' = envRead /\ guard' = guard /\ policy' = policy
    BY <1>6 DEF ThrowActs
  <2>2. PICK a \in ActsOn(policy) : Leave(t, a)
    BY <1>6 DEF ThrowActs
  <2>3. answers' = answers \cup {"exception"}
    BY <2>1, <2>2, BuildActs DEF Leave, Settled
  <2>4. \A u \in Threads : stage'[u] = "init" => stage[u] = "init"
    BY <2>2 DEF Leave, ErrorType
  <2>5. QED
    BY <2>1, <2>3, <2>4 DEF Settled, ReadFirst
<1>7. ASSUME NEW t \in Threads, Caught(t) PROVE Settled' /\ ReadFirst'
  BY <1>7 DEF Caught, Settled, ReadFirst, ErrorType
<1>8. ASSUME NEW value \in Environs, SetEnv(value) PROVE Settled' /\ ReadFirst'
  BY <1>8 DEF SetEnv, Settled, ReadFirst
<1>9. QED
  BY <1>1, <1>2, <1>3, <1>4, <1>5, <1>6, <1>7, <1>8, StepCases

-----------------------------------------------------------------------------
(* Why an error is logged whole: a thread has inserted all the parts of    *)
(* its entries but the rest of the one it pushes, and it pushes none when  *)
(* it is past the log.  Until the process ends no part is lost that was    *)
(* not, and none that was drained ever.                                    *)
Inserted ==
  up => \A t \in Threads :
          IF pos[t] = 0 THEN stdout[t] = Parts * said[t]
          ELSE stdout[t] + (Parts + 1 - pos[t]) = Parts * said[t]

PastLog == \A t \in Threads : stage[t] \in {"init", "left"} => pos[t] = 0

Drained == \A t \in Threads : drained[t] <= out[t] /\ out[t] <= stdout[t]

(* An entry begun: the log grows by four parts to insert.                  *)
LEMMA ExpandInserts ==
  ASSUME LogType, Inserted, up, NEW t \in Threads, pos[t] = 0, ExpandLogMsg(t),
         UNCHANGED <<stdout, up>>
  PROVE  Inserted'
<1>1. /\ pos'[t] = 1 /\ said'[t] = said[t] + 1 /\ stdout'[t] = stdout[t]
      /\ stdout[t] = Parts * said[t] /\ said[t] \in Nat /\ stdout[t] \in Nat
  BY DEF ExpandLogMsg, LogType, Inserted
<1>2. \A u \in Threads \ {t} : pos'[u] = pos[u] /\ said'[u] = said[u] /\ stdout'[u] = stdout[u]
  BY DEF ExpandLogMsg, LogType
<1>3. stdout'[t] + (Parts + 1 - pos'[t]) = Parts * said'[t]
  BY <1>1 DEF Parts
<1>4. QED
  BY <1>1, <1>2, <1>3 DEF Inserted

LEMMA PushInserts ==
  ASSUME LogType, Inserted, NEW t \in Threads, PushEntry(t)
  PROVE  Inserted'
<1>1. /\ up /\ pos[t] \in 1..Parts /\ said'[t] = said[t] /\ stdout'[t] = stdout[t] + 1
      /\ pos'[t] = IF pos[t] = Parts THEN 0 ELSE pos[t] + 1
      /\ said[t] \in Nat /\ stdout[t] \in Nat
  BY DEF PushEntry, LogType, Parts
<1>2. stdout[t] + (Parts + 1 - pos[t]) = Parts * said[t]
  BY <1>1 DEF Inserted, Parts
<1>3. \A u \in Threads \ {t} : pos'[u] = pos[u] /\ said'[u] = said[u] /\ stdout'[u] = stdout[u]
  BY DEF PushEntry, LogType
<1>4. IF pos'[t] = 0 THEN stdout'[t] = Parts * said'[t]
      ELSE stdout'[t] + (Parts + 1 - pos'[t]) = Parts * said'[t]
  BY <1>1, <1>2 DEF Parts
<1>5. QED
  BY <1>1, <1>3, <1>4 DEF Inserted

LEMMA InsertedStep ==
  ASSUME LogType, Inserted, [Next]_vars
  PROVE  Inserted'
<1>1. ASSUME NEW t \in Threads, NEW l \in Logs, NEW m \in Messages, LogCall(t, l, m)
      PROVE  Inserted'
  BY <1>1, ExpandInserts DEF LogCall
<1>2. ASSUME NEW t \in Threads, NEW l \in Logs, Throw(t, l) PROVE Inserted'
  <2>1. CASE Passes(l, Critical)
    BY <1>2, <2>1, ExpandInserts DEF Throw
  <2>2. CASE ~Passes(l, Critical)
    BY <1>2, <2>2 DEF Throw, Inserted
  <2>3. QED
    BY <2>1, <2>2
<1>3. CASE Abort
  BY <1>3 DEF Abort, Inserted
<1>4. CASE UNCHANGED <<stdout, pos, said, up>>
  BY <1>4 DEF Inserted
<1>5. CASE LogOnly
  <2>1. ASSUME NEW t \in Threads, Drain(t) PROVE Inserted'
    BY <1>4, <2>1 DEF Drain
  <2>2. ASSUME NEW l \in Logs, NEW level \in Levels, SetLevel(l, level) PROVE Inserted'
    BY <1>4, <2>2 DEF SetLevel
  <2>3. CASE Spill
    BY <1>4, <2>3 DEF Spill
  <2>4. QED
    BY <1>1, <1>3, <1>5, <2>1, <2>2, <2>3, PushInserts DEF LogOnly
<1>6. ASSUME NEW t \in Threads, ThrowActs(t) PROVE Inserted'
  BY <1>3, <1>4, <1>6 DEF ThrowActs, logVars
<1>7. ASSUME NEW t \in Threads,
             \/ ErrorPolicyInit(t) \/ ErrorEnvPolicyThrows(t)
             \/ ErrorEnvPolicyReturns(t) \/ Caught(t)
      PROVE  Inserted'
  BY <1>4, <1>7 DEF ErrorPolicyInit, ErrorEnvPolicyThrows, ErrorEnvPolicyReturns, Caught, logVars
<1>8. ASSUME NEW value \in Environs, SetEnv(value) PROVE Inserted'
  BY <1>4, <1>8 DEF SetEnv, logVars
<1>9. CASE UNCHANGED vars
  BY <1>4, <1>9 DEF vars, logVars
<1>10. QED
  BY <1>2, <1>5, <1>6, <1>7, <1>8, <1>9, StepCases

LEMMA PastLogStep ==
  ASSUME LogType, ErrorType, PastLog, [Next]_vars
  PROVE  PastLog'
<1>1. ASSUME NEW t \in Threads, NEW l \in Logs, Throw(t, l) PROVE PastLog'
  <2>1. stage'[t] = "policy"
    BY <1>1 DEF Throw, ErrorType
  <2>2. \A u \in Threads \ {t} : stage'[u] = stage[u] /\ pos'[u] = pos[u]
    BY <1>1 DEF Throw, ExpandLogMsg, LogType, ErrorType
  <2>3. QED
    BY <2>1, <2>2 DEF PastLog
<1>2. CASE LogOnly
  <2>1. stage' = stage
    BY <1>2 DEF LogOnly, errorVars
  <2>2. ASSUME NEW t \in Threads, stage[t] \in {"init", "left"} PROVE pos'[t] = 0
    <3>1. pos[t] = 0
      BY <2>2 DEF PastLog
    <3>2. ASSUME NEW u \in Threads, NEW l \in Logs, NEW m \in Messages,
                 stage[u] = "no", LogCall(u, l, m)
          PROVE  pos'[t] = 0
      BY <2>2, <3>1, <3>2 DEF LogCall, ExpandLogMsg, LogType
    <3>3. ASSUME NEW u \in Threads, PushEntry(u) PROVE pos'[t] = 0
      BY <3>1, <3>3 DEF PushEntry, LogType
    <3>4. CASE UNCHANGED pos
      BY <3>1, <3>4
    <3>5. QED
      BY <1>2, <3>2, <3>3, <3>4 DEF LogOnly, Drain, SetLevel, Spill, Abort
  <2>3. QED
    BY <2>1, <2>2 DEF PastLog
<1>3. ASSUME UNCHANGED pos, NEW t \in Threads, pos[t] = 0,
             NEW where, stage' = [stage EXCEPT ![t] = where]
      PROVE  PastLog'
  BY <1>3 DEF PastLog, ErrorType
<1>4. ASSUME NEW t \in Threads, ThrowActs(t) PROVE PastLog'
  BY <1>3, <1>4 DEF ThrowActs, Leave, logVars, Abort
<1>5. ASSUME NEW t \in Threads,
             \/ ErrorPolicyInit(t) \/ ErrorEnvPolicyThrows(t) \/ Caught(t)
      PROVE  PastLog'
  <2>1. UNCHANGED pos /\ pos[t] = 0
    BY <1>5 DEF ErrorPolicyInit, ErrorEnvPolicyThrows, Caught, logVars, PastLog
  <2>2. QED
    BY <1>3, <1>5, <2>1 DEF ErrorPolicyInit, ErrorEnvPolicyThrows, Leave, Caught
<1>6. ASSUME NEW t \in Threads, ErrorEnvPolicyReturns(t) PROVE PastLog'
  <2>1. UNCHANGED pos /\ pos[t] = 0
    BY <1>6 DEF ErrorEnvPolicyReturns, logVars, PastLog
  <2>2. QED
    BY <1>3, <1>6, <2>1 DEF ErrorEnvPolicyReturns
<1>7. CASE UNCHANGED <<pos, stage>>
  BY <1>7 DEF PastLog
<1>8. QED
  BY <1>1, <1>2, <1>4, <1>5, <1>6, <1>7, StepCases DEF SetEnv, vars, logVars, errorVars

LEMMA DrainedStep ==
  ASSUME LogType, Drained, [Next]_vars
  PROVE  Drained'
<1>1. CASE UNCHANGED <<stdout, out, drained>>
  BY <1>1 DEF Drained
<1>2. CASE Abort
  BY <1>2 DEF Abort, Drained, LogType
<1>3. CASE LogOnly
  <2>1. ASSUME NEW t \in Threads, PushEntry(t) PROVE Drained'
    BY <2>1 DEF PushEntry, Drained, LogType
  <2>2. ASSUME NEW t \in Threads, Drain(t) PROVE Drained'
    BY <2>2 DEF Drain, Drained, LogType
  <2>3. CASE Spill
    BY <2>3 DEF Spill, Drained, LogType
  <2>4. QED
    BY <1>1, <1>2, <1>3, <2>1, <2>2, <2>3 DEF LogOnly, LogCall, SetLevel
<1>4. ASSUME NEW t \in Threads, ThrowActs(t) PROVE Drained'
  BY <1>1, <1>2, <1>4 DEF ThrowActs, logVars
<1>5. ASSUME NEW t \in Threads,
             \/ ErrorPolicyInit(t) \/ ErrorEnvPolicyThrows(t)
             \/ ErrorEnvPolicyReturns(t) \/ Caught(t)
      PROVE  Drained'
  BY <1>1, <1>5 DEF ErrorPolicyInit, ErrorEnvPolicyThrows, ErrorEnvPolicyReturns, Caught, logVars
<1>6. QED
  BY <1>1, <1>3, <1>4, <1>5, StepCases DEF Throw, SetEnv, vars, logVars

-----------------------------------------------------------------------------
Inv ==
  LogType /\ ErrorType /\ Settled /\ ReadFirst /\ Inserted /\ PastLog /\ Drained

LEMMA Invariance == Spec => []Inv
<1>1. Start => Inv
  <2> SUFFICES ASSUME Start PROVE Inv
    OBVIOUS
  <2>1. LogType /\ ErrorType
    BY DEF Start, LogStart, LogType, ErrorType, Trace, Off, Parts
  <2>2. Settled /\ ReadFirst /\ PastLog
    BY DEF Start, LogStart, Settled, ReadFirst, PastLog
  <2>3. Inserted /\ Drained
    BY DEF Start, LogStart, Inserted, Drained, Parts
  <2>4. QED
    BY <2>1, <2>2, <2>3 DEF Inv
<1>2. Inv /\ [Next]_vars => Inv'
  BY TypeStep, ReadStep, InsertedStep, PastLogStep, DrainedStep DEF Inv
<1>3. QED
  BY <1>1, <1>2, PTL DEF Spec

(* Every variable of Error and Log keeps its type.                         *)
THEOREM TypeCorrect == Spec => []TypeOK
<1>1. Inv => TypeOK
  BY TypeParts DEF Inv
<1>2. QED
  BY <1>1, Invariance, PTL

(* An exception leaves Throw() when the error is in the stream, whole.     *)
THEOREM LoggedBeforeThrown == Spec => []LoggedFirst
<1>1. Inv => LoggedFirst
  BY DEF Inv, Inserted, PastLog, LoggedFirst
<1>2. QED
  BY <1>1, Invariance, PTL

(* However many threads meet errors, and whenever the environment changes, *)
(* the errors of one process are answered in one way.                      *)
THEOREM AnsweredAlike == Spec => []OneAnswer
<1>1. Inv => OneAnswer
  <2> SUFFICES ASSUME Inv PROVE OneAnswer
    OBVIOUS
  <2>1. answers = {} \/ answers = {"logic_error"} \/ answers = {"exception"}
    BY DEF Inv, ReadFirst
  <2>2. Cardinality(answers) = 0 \/ Cardinality(answers) = 1
    BY <2>1, FS_EmptySet, FS_Singleton
  <2>3. QED
    BY <2>2 DEF OneAnswer
<1>2. QED
  BY <1>1, Invariance, PTL

(* What was logged before a Drain() survives every abort.                  *)
THEOREM DrainedKept == Spec => []DrainKeeps
<1>1. Inv => DrainKeeps
  <2> SUFFICES ASSUME Inv, NEW t \in Threads PROVE stdout[t] >= drained[t]
    BY DEF DrainKeeps
  <2>1. drained[t] \in Nat /\ out[t] \in Nat /\ stdout[t] \in Nat
    BY DEF Inv, LogType
  <2>2. drained[t] <= out[t] /\ out[t] <= stdout[t]
    BY DEF Inv, Drained
  <2>3. QED
    BY <2>1, <2>2
<1>2. QED
  BY <1>1, Invariance, PTL
=============================================================================
