---------------------------- MODULE CrashHandler ----------------------------
(***************************************************************************)
(* CrashHandler.java: the handler of uncaught exceptions, which writes a   *)
(* log named after the second of the crash, tells the user, and hands the  *)
(* exception to the handler it replaced, which ends the process.  Threads  *)
(* may crash together, and the process may start again with its old logs.  *)
(***************************************************************************)
EXTENDS Integers, FiniteSets, Functions

CONSTANTS
    Threads, Main,  \* the app's threads; the main one, which has a Looper
    MaxLogs,        \* MAX_LOGS
    Outcomes,       \* what saving a log may do: "saved", "notSaved" (IOException),
                    \* "exception" (any other Exception), "error" (an Error)
    MaxTime         \* bound: seconds

ASSUME CrashAssumption ==
    /\ Main \in Threads /\ MaxLogs \in Nat /\ MaxTime \in Nat \ {0}
    /\ Outcomes \subseteq {"saved", "notSaved", "exception", "error"} /\ Outcomes # {}

VARIABLES
    running,        \* the process runs
    appContext,     \* init has been here
    handler,        \* the default handler of uncaught exceptions
    defaultHandler, \* the one CrashHandler replaced
    pc,             \* what each thread is doing
    file,           \* the second each saving thread named its log after
    logs,           \* the log files: the second in their name, who wrote it, and if all of it
    now             \* the clock

process == <<running, appContext, handler, defaultHandler>>
vars == <<process, pc, file, logs, now>>

NoContext == "none"

Init ==
    /\ running = TRUE /\ appContext = NoContext
    /\ handler = "system" /\ defaultHandler = NoContext
    /\ pc = [t \in Threads |-> "runs"] /\ file = [t \in Threads |-> 0]
    /\ logs = << >> /\ now = 1

Goto(t, step) == pc' = [pc EXCEPT ![t] = step]

-----------------------------------------------------------------------------
(* Mutant of Kept: the oldest logs are kept. *)
OldestKept == {s \in DOMAIN logs : Cardinality({r \in DOMAIN logs : r < s}) < MaxLogs}
(* The logs cleanOldLogs leaves: the MAX_LOGS modified last. *)
Kept == {s \in DOMAIN logs : Cardinality({r \in DOMAIN logs : r > s}) < MaxLogs}

cleanOldLogs == logs' = Restrict(logs, Kept)

(* Mutant of Initialised: every activity installs the handler. *)
NeverInitialised == FALSE
Initialised == appContext # NoContext

(* init, called by MainActivity.onCreate and by Main.Start after it. *)
init ==
    /\ running /\ pc[Main] = "runs" /\ ~Initialised
    /\ appContext' = "app"
    /\ defaultHandler' = handler
    /\ cleanOldLogs
    /\ handler' = "CrashHandler"
    /\ UNCHANGED <<running, pc, file, now>>

-----------------------------------------------------------------------------
(* An exception nobody catches; the system's handler ends the process. *)
ProcessEnds ==
    /\ running' = FALSE
    /\ pc' = [t \in Threads |-> "ended"]

Crash(t) ==
    /\ running /\ pc[t] = "runs"
    /\ IF handler = "CrashHandler" THEN Goto(t, "save") /\ UNCHANGED running ELSE ProcessEnds
    /\ UNCHANGED <<appContext, handler, defaultHandler, file, logs, now>>

Stamp == now

(* The logs with r under the name s, whatever had that name. *)
Logged(s, r) == [x \in DOMAIN logs \cup {s} |-> IF x = s THEN r ELSE logs[x]]

(* saveCrashLog names and opens the file, which empties one of that name. *)
OpenLog(t) ==
    /\ running /\ pc[t] = "save" /\ "saved" \in Outcomes
    /\ logs' = Logged(Stamp, [by |-> t, whole |-> FALSE])
    /\ file' = [file EXCEPT ![t] = Stamp]
    /\ Goto(t, "write")
    /\ UNCHANGED <<process, now>>

(* Mutant of Target: the name is made again when the report is written. *)
TargetNow(t) == now
Target(t) == file[t]

WriteLog(t) ==
    /\ running /\ pc[t] = "write"
    /\ logs' = Logged(Target(t), [by |-> t, whole |-> TRUE])
    /\ Goto(t, "notify")
    /\ UNCHANGED <<process, file, now>>

(* Where handleException goes when no log is saved: an IOException is      *)
(* caught at once, another Exception by uncaughtException, an Error not.   *)
AfterFailure(outcome) ==
    CASE outcome = "notSaved"  -> "notify"
      [] outcome = "exception" -> "default"
      [] outcome = "error"     -> "ended"

FailToSave(t) ==
    /\ running /\ pc[t] = "save"
    /\ \E outcome \in Outcomes \ {"saved"} : Goto(t, AfterFailure(outcome))
    /\ UNCHANGED <<process, file, logs, now>>

(* showCrashNotification: a Toast needs a Looper. *)
Notify(t) ==
    /\ running /\ pc[t] = "notify"
    /\ Goto(t, IF t = Main THEN "sleep" ELSE "default")
    /\ UNCHANGED <<process, file, logs, now>>

Sleep(t) ==
    /\ running /\ pc[t] = "sleep"
    /\ Goto(t, "default")
    /\ UNCHANGED <<process, file, logs, now>>

(* defaultHandler.uncaughtException *)
CallDefault(t) ==
    /\ running /\ pc[t] = "default"
    /\ IF defaultHandler = "system" THEN ProcessEnds ELSE Goto(t, "save") /\ UNCHANGED running
    /\ UNCHANGED <<appContext, handler, defaultHandler, file, logs, now>>

-----------------------------------------------------------------------------
(* A signal or the system ends the process, also while a log is written.   *)
Killed ==
    /\ running /\ ProcessEnds
    /\ UNCHANGED <<appContext, handler, defaultHandler, file, logs, now>>

Restart ==
    /\ ~running
    /\ running' = TRUE /\ appContext' = NoContext
    /\ handler' = "system" /\ defaultHandler' = NoContext
    /\ pc' = [t \in Threads |-> "runs"] /\ file' = [t \in Threads |-> 0]
    /\ UNCHANGED <<logs, now>>

Tick ==
    /\ now < MaxTime /\ now' = now + 1
    /\ UNCHANGED <<process, pc, file, logs>>

Handle(t) ==
    \/ OpenLog(t) \/ WriteLog(t) \/ FailToSave(t)
    \/ Notify(t) \/ Sleep(t) \/ CallDefault(t)

Next == init \/ Killed \/ Restart \/ Tick \/ (\E t \in Threads : Crash(t) \/ Handle(t))

(* A crashing thread runs its handler. *)
Spec == Init /\ [][Next]_vars /\ \A t \in Threads : WF_vars(Handle(t))

-----------------------------------------------------------------------------
TypeOK ==
    /\ running \in BOOLEAN /\ appContext \in {NoContext, "app"}
    /\ handler \in {"system", "CrashHandler"}
    /\ defaultHandler \in {NoContext, "system", "CrashHandler"}
    /\ pc \in [Threads -> {"runs", "save", "write", "notify", "sleep", "default", "ended"}]
    /\ file \in [Threads -> 0 .. MaxTime] /\ now \in 1 .. MaxTime
    /\ DOMAIN logs \subseteq 1 .. MaxTime
    /\ \A s \in DOMAIN logs : logs[s] \in [by : Threads, whole : BOOLEAN]

Handling(t) == pc[t] \notin {"runs", "ended"}

(* A thread in the handler ends the process, whichever way saving its log  *)
(* and telling the user go, and however often init was called.             *)
CrashEnds == \A t \in Threads : (running /\ Handling(t)) ~> ~running

(* Cleaning keeps the newest logs and deletes only what is beyond MAX_LOGS *)
(* (CrashHandler.java:248).                                                *)
NewestKept ==
    [][\A s \in DOMAIN logs \ DOMAIN logs' :
         Cardinality({r \in DOMAIN logs' : r > s}) >= MaxLogs]_vars

(* When a crash is about to end the process, its log, if it could be       *)
(* opened, is there and whole, also beside one of an earlier process with  *)
(* the same name.  No other thread is crashing.                            *)
AloneLogged ==
    \A t \in Threads :
        (/\ pc[t] = "default" /\ file[t] # 0
         /\ \A u \in Threads \ {t} : pc[u] = "runs")
          => file[t] \in DOMAIN logs /\ logs[file[t]] = [by |-> t, whole |-> TRUE]

(* The same with other threads crashing: "Wait a bit for toast to show and *)
(* log to be saved" (CrashHandler.java:74) before the process ends.        *)
CrashLeavesLog ==
    [][running /\ ~running' /\ (\E t \in Threads : pc[t] = "default")
         => \E s \in DOMAIN logs : logs[s].whole]_vars

(* Logs of exceptions: every state is well typed, and a crash that is      *)
(* alone leaves its whole log.                                             *)
CrashInv == TypeOK /\ AloneLogged
=============================================================================
