-------------------------------- MODULE Error --------------------------------
(***************************************************************************)
(* Axzl::Throw and ErrorPolicy (Error.hpp, Error.cpp) over module Log:     *)
(* threads that meet an error log it, find out the policy, of which the    *)
(* static variables are initialised by the first of them, and act on it.   *)
(* AXZL_UNRECOVERABLE_ERROR_POLICY is in the environment or not.           *)
(***************************************************************************)
EXTENDS Log, FiniteSets, Functions

CONSTANTS
  Build,      \* ErrorConfiguredPolicy(): the policy compiled in
  Environs,   \* the values the variable may have, "null" for none
  MaxThrows   \* bound: how many errors there are

(* The builds with the other two policies do not compile: they name        *)
(* enumerators UnrecoverableErrorPolicy has not.                           *)
ASSUME BuildAssumption == Build \in {"throw", "logandthrow"}

UnrecoverableErrorPolicy == {"throw", "logandthrow", "logandcallhandler", "logandabort"}

ASSUME EnvironsAssumption == Environs \subseteq UnrecoverableErrorPolicy \cup {"null"}

ASSUME BoundsAssumption == MaxEntries \in Nat /\ MaxThrows \in Nat

VARIABLES
  env,      \* the environment
  envRead,  \* the static envPolicy: what secure_getenv() returned, once
  guard,    \* of the static axzlEnvPolicy: "unset", "busy" or "set"
  policy,   \* the static axzlErrorPolicy
  stage,    \* where in Throw() each thread is
  crit,     \* whether it has logged an entry there
  answers,  \* history: how the calls of Throw() have ended
  throws    \* how many there were

errorVars == <<env, envRead, guard, policy, stage, crit, answers, throws>>
vars == <<logVars, errorVars>>

Start ==
  /\ LogStart
  /\ env \in Environs
  /\ envRead = "unread" /\ guard = "unset" /\ policy = "unset"
  /\ stage = [t \in Threads |-> "no"]
  /\ crit = [t \in Threads |-> FALSE]
  /\ answers = {} /\ throws = 0

-----------------------------------------------------------------------------
(* The program changes its environment when no thread is in Throw().       *)
SetEnv(value) ==
  /\ up /\ \A t \in Threads : stage[t] = "no"
  /\ env' = value
  /\ UNCHANGED <<logVars, envRead, guard, policy, stage, crit, answers, throws>>

(* Throw(): log->Critical().                                               *)
Throw(t, l) ==
  /\ up /\ stage[t] = "no" /\ pos[t] = 0 /\ throws < MaxThrows
  /\ crit' = [crit EXCEPT ![t] = Passes(l, Critical)]
  /\ IF Passes(l, Critical) THEN ExpandLogMsg(t) ELSE UNCHANGED <<pos, said>>
  /\ stage' = [stage EXCEPT ![t] = "policy"] /\ throws' = throws + 1
  /\ UNCHANGED <<mLevel, stdout, out, drained, up, env, envRead, guard, policy, answers>>

(* Variant: the environment is read for each error.                        *)
EnvReadAgain(value) == env

(* static auto envPolicy { secure_getenv(...) }                            *)
EnvReadOnce(value) == IF value = "unread" THEN env ELSE value

(* ErrorPolicy(): the first thread initialises axzlEnvPolicy, the others   *)
(* wait for it; when it leaves by an exception the next one tries.         *)
ErrorPolicyInit(t) ==
  /\ up /\ stage[t] = "policy" /\ pos[t] = 0 /\ guard = "unset"
  /\ guard' = "busy" /\ envRead' = EnvReadOnce(envRead)
  /\ stage' = [stage EXCEPT ![t] = "init"]
  /\ UNCHANGED <<logVars, env, policy, crit, answers, throws>>

(* ErrorEnvPolicy() makes a string of the variable if there is none.       *)
NullString == envRead = "null"

(* How Throw() acts on a policy; NoThrowHandler is linked or null.         *)
ActsOn(p) ==
  CASE p \in {"throw", "logandthrow"} -> {"exception"}
    [] p = "logandcallhandler"        -> {"handler", "abort"}
    [] p = "logandabort"              -> {"abort"}

Leave(t, answer) ==
  /\ stage' = [stage EXCEPT ![t] = "left"]
  /\ answers' = answers \cup {answer}

(* Variant: a flag made by hand, not reset when the initialiser throws.    *)
ErrorEnvPolicyStuck(t) ==
  /\ up /\ stage[t] = "init" /\ NullString
  /\ Leave(t, "logic_error") /\ guard' = "busy"
  /\ UNCHANGED <<logVars, env, envRead, policy, crit, throws>>

(* std::string of a null pointer throws std::logic_error out of Throw() ...*)
ErrorEnvPolicyThrows(t) ==
  /\ up /\ stage[t] = "init" /\ NullString
  /\ Leave(t, "logic_error") /\ guard' = "unset"
  /\ UNCHANGED <<logVars, env, envRead, policy, crit, throws>>

(* ... or, in a library that does not check for it, crashes.               *)
ErrorEnvPolicyCrashes(t) ==
  /\ up /\ stage[t] = "init" /\ NullString
  /\ Abort
  /\ UNCHANGED errorVars

(* Else there is no policy from the environment, and axzlErrorPolicy gets  *)
(* the configured one.                                                     *)
ErrorEnvPolicyReturns(t) ==
  /\ up /\ stage[t] = "init" /\ ~NullString
  /\ guard' = "set" /\ policy' = Build
  /\ stage' = [stage EXCEPT ![t] = "policy"]
  /\ UNCHANGED <<logVars, env, envRead, crit, answers, throws>>

(* The switch.                                                             *)
ThrowActs(t) ==
  /\ up /\ stage[t] = "policy" /\ pos[t] = 0 /\ guard = "set"
  /\ \E a \in ActsOn(policy) :
       Leave(t, a) /\ IF a = "exception" THEN UNCHANGED logVars ELSE Abort
  /\ UNCHANGED <<env, envRead, guard, policy, crit, throws>>

(* The caller catches the exception; or nobody does: std::terminate().     *)
Caught(t) ==
  /\ up /\ stage[t] = "left" /\ pos[t] = 0
  /\ stage' = [stage EXCEPT ![t] = "no"] /\ crit' = [crit EXCEPT ![t] = FALSE]
  /\ UNCHANGED <<logVars, env, envRead, guard, policy, answers, throws>>

Uncaught(t) ==
  /\ up /\ stage[t] = "left"
  /\ Abort
  /\ UNCHANGED errorVars

-----------------------------------------------------------------------------
(* The bound MaxEntries.                                                   *)
MoreEntries == FoldFunction(+, 0, said) < MaxEntries

LogStep(t) ==
  /\ \/ \E l \in Logs, m \in Messages :
          stage[t] = "no" /\ MoreEntries /\ LogCall(t, l, m)
     \/ stage[t] = "no" /\ Drain(t)
     \/ PushEntry(t)
  /\ UNCHANGED errorVars

PolicyStep(t) ==
  \/ ErrorPolicyInit(t)
  \/ ErrorEnvPolicyThrows(t) \/ ErrorEnvPolicyCrashes(t) \/ ErrorEnvPolicyReturns(t)
  \/ ThrowActs(t)

Next ==
  \/ \E t \in Threads : LogStep(t) \/ PolicyStep(t) \/ Caught(t) \/ Uncaught(t)
  \/ \E t \in Threads, l \in Logs : (Passes(l, Critical) => MoreEntries) /\ Throw(t, l)
  \/ \E l \in Logs, level \in Levels : SetLevel(l, level) /\ UNCHANGED errorVars
  \/ \E value \in Environs : SetEnv(value)
  \/ Spill /\ UNCHANGED errorVars

Spec == Start /\ [][Next]_vars

(* The scheduler runs every thread.                                        *)
Fairness == \A t \in Threads : WF_vars(PushEntry(t) /\ UNCHANGED errorVars) /\ WF_vars(PolicyStep(t))

FairSpec == Spec /\ Fairness

-----------------------------------------------------------------------------
(* The type of every variable.                                             *)
TypeOK ==
  /\ mLevel \in [Logs -> Trace..Off]
  /\ stdout \in [Threads -> Nat] /\ out \in [Threads -> Nat] /\ drained \in [Threads -> Nat]
  /\ pos \in [Threads -> 0..Parts] /\ said \in [Threads -> Nat]
  /\ up \in BOOLEAN
  /\ env \in Environs /\ envRead \in Environs \cup {"unread"}
  /\ guard \in {"unset", "busy", "set"}
  /\ policy \in UnrecoverableErrorPolicy \cup {"unset"}
  /\ stage \in [Threads -> {"no", "policy", "init", "left"}]
  /\ crit \in [Threads -> BOOLEAN]
  /\ answers \subseteq {"exception", "logic_error", "handler", "abort"}
  /\ throws \in 0..MaxThrows

(* When Throw() is left by an exception the error is in the stream whole,  *)
(* whatever else is logged, and also when the policy cannot be found out.  *)
LoggedFirst ==
  \A t \in Threads : up /\ stage[t] = "left" /\ crit[t] => stdout[t] = Parts * said[t]

(* All errors of a process are treated alike, whichever threads meet the   *)
(* first of them at once, and whatever becomes of the environment.         *)
OneAnswer == Cardinality(answers) <= 1

(* Throw() comes to an end, also of a thread that waits for the policy     *)
(* while the one that initialises it fails.                                *)
ThrowsEnd ==
  \A t \in Threads : stage[t] \in {"policy", "init"} ~> stage[t] = "left" \/ ~up

(* Throw() acts on the policy of the environment, if it names one, else on *)
(* the configured one.                                                     *)
AsAsked ==
  [][answers' # answers =>
       answers' \subseteq answers \cup ActsOn(IF env = "null" THEN Build ELSE env)]_vars

(* The log is flushed before an exception leaves Throw(): the error is in  *)
(* the file and no later abort can lose it.                                *)
FlushedFirst ==
  \A t \in Threads : stage[t] = "left" /\ crit[t] => out[t] = Parts * said[t]
=============================================================================
