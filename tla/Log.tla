--------------------------------- MODULE Log ---------------------------------
(***************************************************************************)
(* Axzl::Log, StdOutLog and NoLog: threads log through Log objects, of     *)
(* which those that write share the standard output of the process.  An    *)
(* entry goes there in four parts, header, "...", message and newline; the *)
(* text of each is left out.  What is in the buffer of stdout and has not  *)
(* reached the file is lost when the process aborts.                       *)
(***************************************************************************)
EXTENDS Naturals

CONSTANTS
  Threads,
  Logs,       \* the Log objects
  NoLogs,     \* those of class NoLog: mSkipAllLogging
  Levels,     \* the levels the program sets
  Messages,   \* the levels it logs at
  MaxEntries  \* bound: how many entries it logs

Trace == 0
Critical == 5
Off == 6

ASSUME LogAssumption ==
  NoLogs \subseteq Logs /\ Levels \subseteq Trace..Off /\ Messages \subseteq Trace..Critical

-----------------------------------------------------------------------------
VARIABLES
  mLevel,   \* the level of each log
  stdout,   \* how many parts each thread has inserted into stdout
  out,      \* how many of them have left the process
  pos,      \* the part each thread inserts next; 0 when it does not push
  said,     \* how many entries each thread has begun to push
  drained,  \* how many there were when Drain() returned last
  up        \* FALSE once the process has ended

logVars == <<mLevel, stdout, out, pos, said, drained, up>>

Parts == 4

LogStart ==
  /\ mLevel = [l \in Logs |-> Off]
  /\ stdout = [t \in Threads |-> 0]
  /\ out = stdout /\ drained = stdout
  /\ pos = [t \in Threads |-> 0]
  /\ said = [t \in Threads |-> 0]
  /\ up = TRUE

-----------------------------------------------------------------------------
SetLevel(l, level) ==
  /\ up
  /\ mLevel' = [mLevel EXCEPT ![l] = level]
  /\ UNCHANGED <<stdout, out, pos, said, drained, up>>

(* GetLevel() >= Level::X, and ExpandLogMsg() does not skip.               *)
Passes(l, level) == mLevel[l] >= level /\ l \notin NoLogs

(* ExpandLogMsg(): thread t has made its entry and goes into PushEntry().  *)
ExpandLogMsg(t) ==
  /\ pos' = [pos EXCEPT ![t] = 1]
  /\ said' = [said EXCEPT ![t] = @ + 1]

(* Trace() ... Critical() of log l; one that does not pass does nothing.   *)
LogCall(t, l, level) ==
  /\ up /\ pos[t] = 0 /\ Passes(l, level)
  /\ ExpandLogMsg(t)
  /\ UNCHANGED <<mLevel, stdout, out, drained, up>>

(* Variant: the newline is left to the caller.                             *)
PushEntryOpen(t) ==
  /\ up /\ pos[t] > 0
  /\ stdout' = [stdout EXCEPT ![t] = @ + 1]
  /\ pos' = [pos EXCEPT ![t] = IF @ = Parts - 1 THEN 0 ELSE @ + 1]
  /\ UNCHANGED <<mLevel, out, said, drained, up>>

(* Variant: an insertion too many, behind the newline.                     *)
PushEntryFifth(t) ==
  /\ up /\ pos[t] > 0
  /\ stdout' = [stdout EXCEPT ![t] = @ + 1]
  /\ pos' = [pos EXCEPT ![t] = IF @ > Parts THEN 0 ELSE @ + 1]
  /\ UNCHANGED <<mLevel, out, said, drained, up>>

(* PushEntry(): std::cout, which is synchronised with stdio and has no     *)
(* buffer of its own, gets one part after the other.                       *)
PushEntry(t) ==
  /\ up /\ pos[t] > 0
  /\ stdout' = [stdout EXCEPT ![t] = @ + 1]
  /\ pos' = [pos EXCEPT ![t] = IF @ = Parts THEN 0 ELSE @ + 1]
  /\ UNCHANGED <<mLevel, out, said, drained, up>>

(* Variant: Drain() of Log, not overridden.                                *)
DrainNothing(t) ==
  /\ up /\ pos[t] = 0
  /\ drained' = stdout
  /\ UNCHANGED <<mLevel, stdout, out, pos, said, up>>

(* Drain(): fflush(stdout).                                                *)
Drain(t) ==
  /\ up /\ pos[t] = 0
  /\ out' = stdout /\ drained' = stdout
  /\ UNCHANGED <<mLevel, stdout, pos, said, up>>

(* stdio writes its buffer when it is full, to a terminal line by line.    *)
Spill ==
  /\ up /\ out' = stdout
  /\ UNCHANGED <<mLevel, stdout, pos, said, drained, up>>

(* abort(): nothing is flushed.                                            *)
Abort ==
  /\ up' = FALSE /\ stdout' = out
  /\ UNCHANGED <<mLevel, out, pos, said, drained>>

-----------------------------------------------------------------------------
(* What any thread logged before Drain() returned to some thread has left  *)
(* the process, and is in the file also when another thread aborts.        *)
DrainKeeps == \A t \in Threads : stdout[t] >= drained[t]

(* No line of the stream is broken up by another.                          *)
LinesWhole ==
  [][\A t, u \in Threads : t # u /\ pos[t] > 1 => stdout'[u] <= stdout[u]]_logVars

(* A log that is off logs nothing.                                         *)
OffIsSilent ==
  [][\A t \in Threads : said'[t] > said[t] => \E l \in Logs : mLevel[l] # Off]_logVars
=============================================================================
