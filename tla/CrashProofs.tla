---------------------------- MODULE CrashProofs -----------------------------
(***************************************************************************)
(* Proofs about the two crash loggers: the handler of uncaught exceptions, *)
(* for any threads, any number of logs kept, any ways in which saving can  *)
(* fail and any time; and the native one, for any threads, any signals and *)
(* reports of any length.                                                  *)
(***************************************************************************)
EXTENDS CrashHandler, NativeCrashLog, FiniteSetTheorems, SequenceTheorems,
        WellFoundedInduction, TLAPS

-----------------------------------------------------------------------------
(* The handler is installed once in a process, over the system's.          *)
HandlerOverSystem ==
    \/ appContext = NoContext /\ handler = "system" /\ defaultHandler = NoContext
    \/ appContext = "app" /\ handler = "CrashHandler" /\ defaultHandler = "system"

(* Only a process that installed the handler has threads in it. *)
HandlingIsInstalled == \A t \in Threads : Handling(t) => appContext = "app"

(* A thread has a log from the moment it opens one. *)
FileOfThread ==
    \A t \in Threads :
        /\ pc[t] \in {"runs", "save"} => file[t] = 0
        /\ pc[t] = "write" => file[t] # 0

(* What a thread wrote stays as it is while no other thread crashes. *)
WrittenAlone ==
    \A t \in Threads :
        (/\ pc[t] \in {"notify", "sleep", "default"} /\ file[t] # 0
         /\ \A u \in Threads \ {t} : pc[u] = "runs")
          => file[t] \in DOMAIN logs /\ logs[file[t]] = [by |-> t, whole |-> TRUE]

HandlerInv == TypeOK /\ HandlerOverSystem /\ HandlingIsInstalled /\ FileOfThread /\ WrittenAlone

LogsType == DOMAIN logs \subseteq 1 .. MaxTime
            /\ \A s \in DOMAIN logs : logs[s] \in [by : Threads, whole : BOOLEAN]

-----------------------------------------------------------------------------
(* Writing one log leaves the others. *)
LEMMA LogWritten ==
    ASSUME LogsType, NEW s \in 1 .. MaxTime, NEW r \in [by : Threads, whole : BOOLEAN],
           logs' = Logged(s, r)
    PROVE  LogsType' /\ s \in DOMAIN logs' /\ logs'[s] = r
<1>1. /\ DOMAIN logs' = {s} \cup DOMAIN logs
      /\ \A x \in DOMAIN logs' : logs'[x] = IF x = s THEN r ELSE logs[x]
  BY DEF Logged
<1> QED
  BY <1>1 DEF LogsType

(* A thread whose step leaves logs and processes alone. *)
LEMMA GotoInv ==
    ASSUME HandlerInv, NEW t \in Threads, NEW from, NEW to, pc[t] = from, Goto(t, to),
           UNCHANGED <<process, file, logs, now>>,
           \/ from \in {"notify", "sleep"} /\ to \in {"sleep", "default"}
           \/ from = "save" /\ to \in {"notify", "default", "ended"}
           \/ from = "runs" /\ to = "save" /\ handler = "CrashHandler"
    PROVE  HandlerInv'
<1> USE DEF HandlerInv, process, Goto
<1>1. pc \in [Threads -> {"runs", "save", "write", "notify", "sleep", "default", "ended"}]
  BY DEF TypeOK
<1>2. pc'[t] = to /\ \A u \in Threads \ {t} : pc'[u] = pc[u]
  BY <1>1
<1>3. TypeOK' /\ HandlerOverSystem'
  BY <1>1 DEF TypeOK, HandlerOverSystem
<1>4. HandlingIsInstalled'
  BY <1>2 DEF HandlingIsInstalled, Handling, HandlerOverSystem, NoContext
<1>5. FileOfThread'
  BY <1>2 DEF FileOfThread
<1>6. WrittenAlone'
  BY <1>2 DEF WrittenAlone, FileOfThread
<1> QED
  BY <1>3, <1>4, <1>5, <1>6

(* The process ends. *)
LEMMA EndInv ==
    ASSUME HandlerInv, ProcessEnds, UNCHANGED <<appContext, handler, defaultHandler, file, logs, now>>
    PROVE  HandlerInv'
  BY DEF HandlerInv, ProcessEnds, TypeOK, HandlerOverSystem, HandlingIsInstalled, Handling,
         FileOfThread, WrittenAlone

(* A log is opened, which empties one of the same name. *)
LEMMA OpenLogInv ==
    ASSUME HandlerInv, NEW t \in Threads, OpenLog(t)
    PROVE  HandlerInv'
<1> USE DEF HandlerInv, process, Goto, Stamp
<1>1. /\ pc' = [pc EXCEPT ![t] = "write"] /\ pc[t] = "save"
      /\ pc \in [Threads -> {"runs", "save", "write", "notify", "sleep", "default", "ended"}]
      /\ file' = [file EXCEPT ![t] = now] /\ file \in [Threads -> 0 .. MaxTime] /\ now \in 1 .. MaxTime
      /\ UNCHANGED <<running, appContext, handler, defaultHandler, now>>
  BY DEF OpenLog, TypeOK
<1>2. LogsType'
  <2>1. LogsType /\ [by |-> t, whole |-> FALSE] \in [by : Threads, whole : BOOLEAN]
    BY DEF TypeOK, LogsType
  <2>2. logs' = Logged(now, [by |-> t, whole |-> FALSE])
    BY DEF OpenLog
  <2> QED
    BY <1>1, <2>1, <2>2, LogWritten
<1>3. TypeOK' /\ HandlerOverSystem'
  BY <1>1, <1>2 DEF TypeOK, LogsType, HandlerOverSystem
<1>4. HandlingIsInstalled'
  BY <1>1 DEF HandlingIsInstalled, Handling
<1>5. FileOfThread'
  BY <1>1, CrashAssumption DEF FileOfThread
<1>6. WrittenAlone'
  BY <1>1 DEF WrittenAlone
<1> QED
  BY <1>3, <1>4, <1>5, <1>6

(* A log is written whole. *)
LEMMA WriteLogInv ==
    ASSUME HandlerInv, NEW t \in Threads, WriteLog(t)
    PROVE  HandlerInv'
<1> USE DEF HandlerInv, process, Goto, Target
<1>1. /\ pc' = [pc EXCEPT ![t] = "notify"] /\ pc[t] = "write"
      /\ pc \in [Threads -> {"runs", "save", "write", "notify", "sleep", "default", "ended"}]
      /\ file \in [Threads -> 0 .. MaxTime] /\ file[t] # 0
      /\ UNCHANGED <<running, appContext, handler, defaultHandler, file, now>>
  BY DEF WriteLog, TypeOK, FileOfThread
<1>2. file[t] \in 1 .. MaxTime
  BY <1>1, CrashAssumption
<1>3. LogsType' /\ file[t] \in DOMAIN logs' /\ logs'[file[t]] = [by |-> t, whole |-> TRUE]
  BY <1>2, LogWritten DEF WriteLog, TypeOK, LogsType
<1>4. TypeOK' /\ HandlerOverSystem'
  BY <1>1, <1>3 DEF TypeOK, LogsType, HandlerOverSystem
<1>5. HandlingIsInstalled'
  BY <1>1 DEF HandlingIsInstalled, Handling
<1>6. FileOfThread'
  BY <1>1 DEF FileOfThread
<1>7. WrittenAlone'
  BY <1>1, <1>3 DEF WrittenAlone
<1> QED
  BY <1>4, <1>5, <1>6, <1>7

(* The handler is installed, and old logs are deleted. *)
LEMMA InstallInv ==
    ASSUME HandlerInv, init
    PROVE  HandlerInv'
<1> USE DEF HandlerInv
<1>1. /\ appContext = NoContext /\ handler = "system"
      /\ appContext' = "app" /\ handler' = "CrashHandler" /\ defaultHandler' = "system"
      /\ UNCHANGED <<running, pc, file, now>>
  BY DEF init, HandlerOverSystem, Initialised, NoContext
<1>2. LogsType'
  BY DEF init, cleanOldLogs, Restrict, Kept, TypeOK, LogsType
<1>3. \A t \in Threads : ~Handling(t)
  BY <1>1 DEF HandlingIsInstalled, NoContext
<1> QED
  BY <1>1, <1>2, <1>3 DEF TypeOK, LogsType, HandlerOverSystem, HandlingIsInstalled, Handling,
     FileOfThread, WrittenAlone

-----------------------------------------------------------------------------
(* A process that starts with no logs is in order. *)
LEMMA HandlerInitInv == Init => HandlerInv
  BY CrashAssumption DEF Init, HandlerInv, TypeOK, HandlerOverSystem, HandlingIsInstalled, Handling,
     FileOfThread, WrittenAlone, NoContext

(* Every step of the threads, of the system and of the clock keeps it. *)
LEMMA HandlerNextInv == HandlerInv /\ [Next]_vars => HandlerInv'
<1> SUFFICES ASSUME HandlerInv, [Next]_vars PROVE HandlerInv'
  OBVIOUS
<1>1. CASE init
  BY <1>1, InstallInv
<1>2. CASE Killed
  BY <1>2, EndInv DEF Killed
<1>3. CASE Restart
  <2>1. TypeOK'
    <3>1. /\ running' \in BOOLEAN /\ appContext' \in {NoContext, "app"}
          /\ handler' \in {"system", "CrashHandler"}
          /\ defaultHandler' \in {NoContext, "system", "CrashHandler"}
      BY <1>3 DEF Restart
    <3>2. /\ pc' \in [Threads -> {"runs", "save", "write", "notify", "sleep", "default", "ended"}]
          /\ file' \in [Threads -> 0 .. MaxTime]
      BY <1>3, CrashAssumption DEF Restart
    <3> QED
      BY <1>3, <3>1, <3>2 DEF Restart, HandlerInv, TypeOK
  <2> QED
    BY <1>3, <2>1 DEF Restart, HandlerInv, HandlerOverSystem, HandlingIsInstalled, Handling,
       FileOfThread, WrittenAlone
<1>4. CASE Tick
  BY <1>4, CrashAssumption DEF Tick, process, HandlerInv, TypeOK, HandlerOverSystem, HandlingIsInstalled,
     Handling, FileOfThread, WrittenAlone
<1>5. ASSUME NEW t \in Threads, Crash(t) PROVE HandlerInv'
  <2>1. CASE handler = "CrashHandler"
    BY <1>5, <2>1, GotoInv DEF Crash, process
  <2>2. CASE handler # "CrashHandler"
    BY <1>5, <2>2, EndInv DEF Crash
  <2> QED
    BY <2>1, <2>2
<1>6. ASSUME NEW t \in Threads, Handle(t) PROVE HandlerInv'
  <2>1. CASE OpenLog(t)
    BY <2>1, OpenLogInv
  <2>2. CASE WriteLog(t)
    BY <2>2, WriteLogInv
  <2>3. CASE FailToSave(t)
    <3>1. PICK outcome \in {"notSaved", "exception", "error"} : Goto(t, AfterFailure(outcome))
      BY <2>3, CrashAssumption DEF FailToSave
    <3>2. AfterFailure(outcome) \in {"notify", "default", "ended"}
      BY <3>1 DEF AfterFailure
    <3> QED
      BY <2>3, <3>1, <3>2, GotoInv DEF FailToSave
  <2>4. CASE Notify(t)
    BY <2>4, GotoInv DEF Notify
  <2>5. CASE Sleep(t)
    BY <2>5, GotoInv DEF Sleep
  <2>6. CASE CallDefault(t)
    <3>1. defaultHandler = "system"
      BY <2>6 DEF CallDefault, HandlerInv, HandlerOverSystem, HandlingIsInstalled, Handling, NoContext
    <3> QED
      BY <2>6, <3>1, EndInv DEF CallDefault
  <2> QED
    BY <1>6, <2>1, <2>2, <2>3, <2>4, <2>5, <2>6 DEF Handle
<1>7. CASE UNCHANGED vars
  BY <1>7 DEF vars, process, HandlerInv, TypeOK, HandlerOverSystem, HandlingIsInstalled, Handling,
     FileOfThread, WrittenAlone
<1> QED
  BY <1>1, <1>2, <1>3, <1>4, <1>5, <1>6, <1>7 DEF Next

(***************************************************************************)
(* For any threads and any ways of failing: a crash that no other thread's *)
(* joins has its log, whole and under its own name, when it is about to    *)
(* end the process, if the log could be opened (CrashHandler.java:60-100). *)
(***************************************************************************)
THEOREM AloneIsLogged == Spec => []CrashInv
<1>1. HandlerInv => CrashInv
  BY DEF HandlerInv, WrittenAlone, AloneLogged, CrashInv
<1>2. Spec => []HandlerInv
  BY HandlerInitInv, HandlerNextInv, PTL DEF Spec
<1> QED
  BY <1>1, <1>2, PTL

(* A set of numbers that is not empty has a least one. *)
LEMMA LeastNat ==
    ASSUME NEW S, S \subseteq Nat, S # {}
    PROVE  \E m \in S : \A x \in S : m <= x
<1>1. \A x, y \in Nat : x < y => <<x, y>> \in OpToRel(<, Nat)
  <2> SUFFICES ASSUME NEW x \in Nat, NEW y \in Nat, x < y PROVE <<x, y>> \in OpToRel(<, Nat)
    OBVIOUS
  <2>1. <<x, y>> \in Nat \X Nat /\ <<x, y>>[1] < <<x, y>>[2]
    OBVIOUS
  <2> QED
    BY <2>1, Zenon DEF OpToRel
<1> DEFINE R == OpToRel(<, Nat)
<1>2. IsWellFoundedOn(R, Nat)
  BY NatLessThanWellFounded
<1> HIDE DEF R
<1>3. PICK m \in S : \A x \in S : ~(<<x, m>> \in R)
  BY <1>2, WFMin, Zenon
<1>4. \A x \in S : ~(x < m)
  BY <1>1, <1>3 DEF R
<1> QED
  BY <1>4

(* A set of seconds that is not empty has a last one. *)
LEMMA LastSecond ==
    ASSUME NEW T, T \subseteq 1 .. MaxTime, T # {}
    PROVE  \E m \in T : \A x \in T : x <= m
<1> DEFINE S == {y \in Nat : MaxTime - y \in T}
<1>1. \A x \in T : MaxTime - x \in S
  BY CrashAssumption
<1>2. S \subseteq Nat /\ S # {}
  BY <1>1
<1>3. PICK s \in S : \A y \in S : s <= y
  BY <1>2, LeastNat, Zenon
<1>4. \A x \in T : s <= MaxTime - x
  BY <1>1, <1>3
<1>5. MaxTime - s \in T /\ \A x \in T : x <= MaxTime - s
  BY <1>3, <1>4, CrashAssumption
<1> QED
  BY <1>5

(***************************************************************************)
(* For any number of logs kept: no step but init deletes a log, and init   *)
(* deletes one only if MAX_LOGS newer ones stay                            *)
(* (CrashHandler.java:249-266).                                            *)
(***************************************************************************)
THEOREM NewestLogsKept == Spec => NewestKept
<1>1. ASSUME TypeOK, [Next]_vars,
             NEW s \in DOMAIN logs \ DOMAIN logs'
      PROVE  Cardinality({r \in DOMAIN logs' : r > s}) >= MaxLogs
  <2>1. logs' = Restrict(logs, Kept)
    <3>1. \A x, r : DOMAIN logs \subseteq DOMAIN Logged(x, r)
      BY DEF Logged
    <3>2. ASSUME UNCHANGED logs PROVE FALSE
      BY <1>1, <3>2
    <3>3. ~Killed /\ ~Restart /\ ~Tick /\ ~UNCHANGED vars /\ ~(\E t \in Threads : Crash(t))
      BY <3>2 DEF Killed, Restart, Tick, vars, Crash
    <3>4. ~(\E t \in Threads : Handle(t))
      BY <1>1, <3>1, <3>2 DEF Handle, OpenLog, WriteLog, FailToSave, Notify, Sleep, CallDefault
    <3> QED
      BY <1>1, <3>3, <3>4 DEF Next, init, cleanOldLogs
  <2> DEFINE D == DOMAIN logs
             Newer(x) == {r \in D : r > x}
  <2>2. D \subseteq 1 .. MaxTime /\ IsFiniteSet(D)
      <3>1. D \subseteq 1 .. MaxTime
      BY <1>1 DEF TypeOK
    <3> QED
      BY <3>1, FS_Interval, FS_Subset, CrashAssumption, SMTT(60)
  <2>3. DOMAIN logs' = Kept /\ Kept \subseteq D
    BY <2>1 DEF Restrict, Kept
  <2>4. PICK m \in D \ Kept : \A x \in D \ Kept : x <= m
    <3> DEFINE T == D \ Kept
    <3>1. T \subseteq 1 .. MaxTime /\ T # {}
      BY <1>1, <2>2, <2>3
    <3> QED
      BY <3>1, LastSecond
  <2>5. Newer(m) \subseteq {r \in Kept : r > s}
    BY <1>1, <2>2, <2>3, <2>4
  <2>6. Cardinality(Newer(m)) >= MaxLogs
    <3>1. Cardinality(Newer(m)) \in Nat
      BY <2>2, FS_Subset, FS_CardinalityType
    <3> QED
      BY <2>4, <3>1, CrashAssumption DEF Kept
  <2>7. IsFiniteSet({r \in Kept : r > s})
    BY <2>2, <2>3, FS_Subset
  <2>8. Cardinality(Newer(m)) <= Cardinality({r \in Kept : r > s})
    BY <2>5, <2>7, FS_Subset
  <2>9. Cardinality(Newer(m)) \in Nat /\ Cardinality({r \in Kept : r > s}) \in Nat
    BY <2>2, <2>7, FS_Subset, FS_CardinalityType
  <2> QED
    BY <2>3, <2>6, <2>8, <2>9, CrashAssumption
<1>2. Spec => []HandlerInv
  BY HandlerInitInv, HandlerNextInv, PTL DEF Spec
<1>3. HandlerInv /\ [Next]_vars =>
        [\A s \in DOMAIN logs \ DOMAIN logs' :
           Cardinality({r \in DOMAIN logs' : r > s}) >= MaxLogs]_vars
  BY <1>1 DEF HandlerInv
<1> QED
  BY <1>2, <1>3, PTL DEF Spec, NewestKept

-----------------------------------------------------------------------------
Frames == [sig : Signals, fd : BOOLEAN, done : -1 .. Blocks + 1]
StacksType == stack \in [Faulting -> Seq(Frames)]

LogType == log \in Seq(Entries) /\ (Len(log) <= Blocks \/ log = [b \in 1 .. Blocks + 1 |-> Old])

(* Whoever has opened the log has made it shorter than a report. *)
OpenedIsShort ==
    \A t \in Faulting : InHandler(t) /\ Top(t).fd => Len(log) <= Blocks /\ Top(t).done >= 0

Written(f) == IF f.done > Blocks THEN Blocks ELSE f.done

(* A thread that is alone in the handler finds in the log what it wrote.   *)
OwnBlocks ==
    \A t \in Faulting :
        (InHandler(t) /\ Top(t).fd /\ \A u \in Faulting \ {t} : ~InHandler(u))
          => log = [b \in 1 .. Written(Top(t)) |-> <<t, Top(t).sig>>]

(* A process that has ended has no handler. *)
DeadIsEmpty == ~alive => \A t \in Faulting : stack[t] = << >>

NativeInv ==
    /\ alive \in BOOLEAN /\ disposition \in [Signals -> {"cl_handler", "SIG_DFL"}]
    /\ StacksType /\ LogType /\ OpenedIsShort /\ OwnBlocks /\ DeadIsEmpty

-----------------------------------------------------------------------------
(* The frame of a handler is put in place of the last one, or on top.      *)
LEMMA TopReplaced ==
    ASSUME NEW s \in Seq(Frames), s # << >>, NEW f \in Frames
    PROVE  /\ Append(Front(s), f) \in Seq(Frames) /\ Append(Front(s), f) # << >>
           /\ Last(Append(Front(s), f)) = f
           /\ Last(s) \in Frames
<1>1. Len(s) \in Nat \ {0}
  BY EmptySeq
<1>2. Front(s) \in Seq(Frames)
  <2>1. \A i \in 1 .. Len(s) - 1 : s[i] \in Frames
    BY <1>1, ElementOfSeq
  <2> QED
    BY <1>1, <2>1, SubSeqProperties DEF Front
<1>3. Last(s) \in Frames
  BY <1>1, ElementOfSeq DEF Last
<1> QED
  BY <1>2, <1>3, AppendProperties DEF Last

(* The same of a frame that comes on top. *)
LEMMA TopPushed ==
    ASSUME NEW s \in Seq(Frames), NEW f \in Frames
    PROVE  /\ Append(s, f) \in Seq(Frames) /\ Append(s, f) # << >>
           /\ Last(Append(s, f)) = f
  BY AppendProperties DEF Last

(* Where the stacks stand after one thread got a new top frame. *)
LEMMA TopMoves ==
    ASSUME StacksType, NEW t \in Faulting, NEW f \in Frames,
           \/ InHandler(t) /\ SetTop(t, f)
           \/ stack' = [stack EXCEPT ![t] = Append(@, f)]
    PROVE  /\ StacksType'
           /\ InHandler(t)' /\ Top(t)' = f
           /\ \A u \in Faulting \ {t} : (InHandler(u)' <=> InHandler(u)) /\ Top(u)' = Top(u)
<1> DEFINE s == IF InHandler(t) /\ SetTop(t, f) THEN Append(Front(stack[t]), f)
                                                ELSE Append(stack[t], f)
<1>1. stack' = [stack EXCEPT ![t] = s]
  BY DEF SetTop
<1>2. s \in Seq(Frames) /\ s # << >> /\ Last(s) = f
  BY TopReplaced, TopPushed DEF StacksType, InHandler
<1> HIDE DEF s
<1>3. StacksType' /\ stack'[t] = s
  BY <1>1, <1>2 DEF StacksType
<1>4. \A u \in Faulting \ {t} : stack'[u] = stack[u]
  BY <1>1 DEF StacksType
<1> QED
  BY <1>2, <1>3, <1>4 DEF InHandler, Top

(* A block at the end of the own blocks makes one more of them; elsewhere  *)
(* it leaves a log that is short.                                          *)
LEMMA BlockWritten ==
    ASSUME log \in Seq(Entries), Len(log) <= Blocks, NEW n \in 1 .. Blocks, NEW e \in Faulting \X Signals
    PROVE  /\ WriteAt(log, n, e) \in Seq(Entries) /\ Len(WriteAt(log, n, e)) <= Blocks
           /\ log = [b \in 1 .. n - 1 |-> e] => WriteAt(log, n, e) = [b \in 1 .. n |-> e]
<1> DEFINE m == IF n > Len(log) THEN n ELSE Len(log)
           v(b) == IF b = n THEN e ELSE IF b <= Len(log) THEN log[b] ELSE Hole
<1>1. Len(log) \in Nat /\ \A b \in 1 .. Len(log) : log[b] \in Entries
  BY ElementOfSeq
<1>2. m \in 0 .. Blocks
  BY <1>1, LogAssumption
<1>3. \A b \in 1 .. m : v(b) \in Entries
  BY <1>1 DEF Entries
<1>4. WriteAt(log, n, e) = [b \in 1 .. m |-> v(b)]
  BY DEF WriteAt
<1>5. ASSUME log = [b \in 1 .. n - 1 |-> e]
      PROVE  WriteAt(log, n, e) = [b \in 1 .. n |-> e]
  <2>1. Len(log) = n - 1
    BY <1>5
  <2>2. m = n /\ \A b \in 1 .. n : v(b) = e
    BY <1>5, <2>1
  <2> QED
    BY <1>4, <2>2
<1>6. WriteAt(log, n, e) \in Seq(Entries) /\ Len(WriteAt(log, n, e)) = m
  <2> HIDE DEF m, v
  <2> QED
    BY <1>2, <1>3, <1>4
<1> QED
  BY <1>2, <1>5, <1>6

-----------------------------------------------------------------------------
(* A thread moves on without touching the log. *)
LEMMA MovesInv ==
    ASSUME NativeInv, NEW t \in Faulting, NEW f \in Frames,
           \/ InHandler(t) /\ SetTop(t, f)
           \/ stack' = [stack EXCEPT ![t] = Append(@, f)],
           f.fd => /\ InHandler(t) /\ Top(t).fd /\ Top(t).sig = f.sig
                   /\ f.done >= 0 /\ Written(f) = Written(Top(t)),
           UNCHANGED log
    PROVE  StacksType' /\ LogType' /\ OpenedIsShort' /\ OwnBlocks'
<1>1. /\ StacksType'
      /\ InHandler(t)' /\ Top(t)' = f
      /\ \A u \in Faulting \ {t} : (InHandler(u)' <=> InHandler(u)) /\ Top(u)' = Top(u)
  BY TopMoves DEF NativeInv
<1>2. LogType'
  BY DEF NativeInv, LogType
<1>3. OpenedIsShort'
  BY <1>1 DEF NativeInv, OpenedIsShort
<1>4. OwnBlocks'
  <2> SUFFICES ASSUME NEW u \in Faulting, InHandler(u)', Top(u)'.fd,
                      \A w \in Faulting \ {u} : ~InHandler(w)'
               PROVE  log' = [b \in 1 .. Written(Top(u)') |-> <<u, Top(u)'.sig>>]
    BY DEF OwnBlocks, Written
  <2>1. u = t
    BY <1>1
  <2> QED
    BY <1>1, <2>1 DEF NativeInv, OwnBlocks
<1> QED
  BY <1>1, <1>2, <1>3, <1>4

(* The process ends, or starts again. *)
LEMMA EmptyInv ==
    ASSUME NativeInv, \A t \in Faulting : stack'[t] = << >>, stack' \in [Faulting -> Seq(Frames)], LogType'
    PROVE  StacksType' /\ OpenedIsShort' /\ OwnBlocks'
  BY DEF StacksType, OpenedIsShort, OwnBlocks, InHandler

(* The file is opened, and emptied. *)
LEMMA OpenNativeInv ==
    ASSUME NativeInv, NEW t \in Faulting, OpenNativeLog(t)
    PROVE  NativeInv'
<1> DEFINE f == [sig |-> Top(t).sig, fd |-> TRUE, done |-> 0]
<1>1. Top(t) \in Frames
  BY TopReplaced DEF OpenNativeLog, InHandler, Top, NativeInv, StacksType
<1>2. f \in Frames /\ f.fd /\ f.done = 0
  <2>1. 0 \in -1 .. Blocks + 1
    BY LogAssumption
  <2> QED
    BY <1>1, <2>1 DEF Frames
<1>3. log' = << >> /\ InHandler(t) /\ SetTop(t, f) /\ UNCHANGED <<alive, disposition>>
  BY DEF OpenNativeLog, Opened
<1> HIDE DEF f
<1>4. /\ StacksType' /\ InHandler(t)' /\ Top(t)' = f
      /\ \A u \in Faulting \ {t} : (InHandler(u)' <=> InHandler(u)) /\ Top(u)' = Top(u)
  BY <1>2, <1>3, TopMoves DEF NativeInv
<1>5. LogType' /\ Len(log') = 0
  BY <1>3, LogAssumption DEF LogType
<1>6. OpenedIsShort'
  BY <1>2, <1>4, <1>5, LogAssumption DEF NativeInv, OpenedIsShort
<1>7. OwnBlocks'
  <2> SUFFICES ASSUME NEW u \in Faulting, InHandler(u)', Top(u)'.fd,
                      \A w \in Faulting \ {u} : ~InHandler(w)'
               PROVE  log' = [b \in 1 .. Written(Top(u)') |-> <<u, Top(u)'.sig>>]
    BY DEF OwnBlocks, Written
  <2>1. u = t /\ Written(Top(u)') = 0
    BY <1>2, <1>4, LogAssumption DEF Written
  <2> QED
    BY <1>3, <2>1
<1> QED
  BY <1>3, <1>4, <1>5, <1>6, <1>7 DEF NativeInv, DeadIsEmpty, InHandler

(* A block is written. *)
LEMMA WriteBlockInv ==
    ASSUME NativeInv, NEW t \in Faulting, WriteBlock(t)
    PROVE  NativeInv'
<1> DEFINE f == [Top(t) EXCEPT !.done = @ + 1]
           n == Top(t).done + 1
           e == <<t, Top(t).sig>>
<1>1. Top(t) \in Frames /\ Top(t).done \in 0 .. Blocks - 1 /\ Top(t).fd
  BY TopReplaced DEF WriteBlock, BlocksLeft, InHandler, Top, NativeInv, StacksType
<1>2. f \in Frames /\ f.fd /\ f.done = n /\ f.sig = Top(t).sig /\ n \in 1 .. Blocks /\ e \in Faulting \X Signals
  BY <1>1, LogAssumption DEF Frames
<1>3. log' = WriteAt(log, n, e) /\ InHandler(t) /\ SetTop(t, f) /\ UNCHANGED <<alive, disposition>>
  BY DEF WriteBlock
<1>4. log \in Seq(Entries) /\ Len(log) <= Blocks
  BY <1>1, <1>3 DEF NativeInv, LogType, OpenedIsShort
<1>5. Written(Top(t)) = n - 1 /\ Written(f) = n
  BY <1>1, <1>2, LogAssumption DEF Written
<1> HIDE DEF f, n
<1>6. /\ StacksType' /\ InHandler(t)' /\ Top(t)' = f
      /\ \A u \in Faulting \ {t} : (InHandler(u)' <=> InHandler(u)) /\ Top(u)' = Top(u)
  BY <1>2, <1>3, TopMoves DEF NativeInv
<1>7. /\ log' \in Seq(Entries) /\ Len(log') <= Blocks
      /\ log = [b \in 1 .. n - 1 |-> e] => log' = [b \in 1 .. n |-> e]
  BY <1>2, <1>3, <1>4, BlockWritten
<1>8. LogType' /\ OpenedIsShort'
  <2>1. f.done >= 0
    BY <1>2
  <2>2. OpenedIsShort'
    BY <2>1, <1>6, <1>7 DEF NativeInv, OpenedIsShort
  <2> QED
    BY <1>7, <2>2 DEF LogType
<1>9. OwnBlocks'
  <2> SUFFICES ASSUME NEW u \in Faulting, InHandler(u)', Top(u)'.fd,
                      \A w \in Faulting \ {u} : ~InHandler(w)'
               PROVE  log' = [b \in 1 .. Written(Top(u)') |-> <<u, Top(u)'.sig>>]
    BY DEF OwnBlocks, Written
  <2>1. u = t /\ \A w \in Faulting \ {t} : ~InHandler(w)
    BY <1>6
  <2>2. log = [b \in 1 .. n - 1 |-> e]
    BY <1>1, <1>3, <1>5, <2>1 DEF NativeInv, OwnBlocks
  <2>3. Written(Top(t)') = n /\ Top(t)'.sig = Top(t).sig
    BY <1>2, <1>5, <1>6
  <2> QED
    BY <1>7, <2>1, <2>2, <2>3
<1> QED
  BY <1>3, <1>6, <1>8, <1>9 DEF NativeInv, DeadIsEmpty, InHandler

(* A fault, or the signal raised again, begins a handler or kills. *)
LEMMA FrameInv ==
    ASSUME NativeInv, alive, NEW t \in Faulting, NEW sig \in Signals, UNCHANGED <<disposition, log>>,
           \/ KilledBySignal
           \/ InHandler(t) /\ SetTop(t, Frame(sig)) /\ UNCHANGED alive
           \/ stack' = [stack EXCEPT ![t] = Append(@, Frame(sig))] /\ UNCHANGED alive
    PROVE  NativeInv'
<1>1. Frame(sig) \in Frames /\ ~Frame(sig).fd
  BY LogAssumption DEF Frame, Frames
<1>2. CASE KilledBySignal
  <2>1. alive' = FALSE /\ stack' = [u \in Faulting |-> << >>] /\ LogType'
    BY <1>2 DEF KilledBySignal, NativeInv, LogType
  <2>2. StacksType' /\ OpenedIsShort' /\ OwnBlocks'
    BY <2>1, EmptyInv
  <2> QED
    BY <2>1, <2>2 DEF NativeInv, DeadIsEmpty
<1>3. CASE ~KilledBySignal
  <2>1. StacksType' /\ LogType' /\ OpenedIsShort' /\ OwnBlocks'
    BY <1>1, <1>3, MovesInv
  <2> QED
    BY <1>3, <2>1 DEF NativeInv, DeadIsEmpty
<1> QED
  BY <1>2, <1>3

-----------------------------------------------------------------------------
(* Before any fault the log is empty, or that of an earlier process. *)
LEMMA NativeInitInv == NativeInit => NativeInv
<1> SUFFICES ASSUME NativeInit PROVE NativeInv
  OBVIOUS
<1>1. StacksType /\ \A t \in Faulting : ~InHandler(t)
  BY DEF NativeInit, StacksType, InHandler
<1>2. LogType
  <2>1. CASE log = << >>
    BY <2>1, LogAssumption DEF LogType
  <2>2. CASE log = [b \in 1 .. Blocks + 1 |-> Old]
    BY <2>2, LogAssumption DEF LogType, Entries
  <2> QED
    BY <2>1, <2>2 DEF NativeInit
<1> QED
  BY <1>1, <1>2 DEF NativeInit, NativeInv, OpenedIsShort, OwnBlocks, DeadIsEmpty, InHandler

(* Every step of a thread in the handler, and of the system, keeps it. *)
LEMMA NativeNextInv == NativeInv /\ [NativeNext]_nativeVars => NativeInv'
<1> SUFFICES ASSUME NativeInv, [NativeNext]_nativeVars PROVE NativeInv'
  OBVIOUS
<1>a. \A t \in Faulting : InHandler(t) => Top(t) \in Frames
  BY TopReplaced DEF InHandler, Top, NativeInv, StacksType
<1>1. ASSUME NEW t \in Faulting, NEW sig \in Signals, Fault(t, sig) PROVE NativeInv'
  BY <1>1, FrameInv DEF Fault
<1>2. ASSUME NEW t \in Faulting, cl_handler(t) PROVE NativeInv'
  <2>1. CASE OpenNativeLog(t)
    BY <2>1, OpenNativeInv
  <2>2. CASE OpenFails(t)
    <3> DEFINE f == [Top(t) EXCEPT !.done = Blocks]
    <3>1. InHandler(t) /\ Top(t) \in Frames /\ Top(t).done = -1 /\ ~Top(t).fd
      BY <1>a, <2>2 DEF OpenFails, NativeInv, OpenedIsShort
    <3>2. f \in Frames /\ ~f.fd
      BY <3>1, LogAssumption DEF Frames
    <3> HIDE DEF f
    <3>3. StacksType' /\ LogType' /\ OpenedIsShort' /\ OwnBlocks'
      <4>1. InHandler(t) /\ SetTop(t, f) /\ UNCHANGED log
        BY <2>2 DEF OpenFails, f
      <4> QED
        BY <3>2, <4>1, MovesInv
    <3> QED
      BY <2>2, <3>3 DEF OpenFails, NativeInv, DeadIsEmpty, InHandler
  <2>3. CASE WriteBlock(t)
    BY <2>3, WriteBlockInv
  <2>4. CASE ResetSignal(t)
    <3> DEFINE f == [Top(t) EXCEPT !.done = @ + 1]
    <3>1. InHandler(t) /\ Top(t) \in Frames /\ Top(t).done = Blocks
      BY <1>a, <2>4 DEF ResetSignal
    <3>2. /\ f \in Frames /\ f.fd = Top(t).fd /\ f.sig = Top(t).sig
          /\ f.done >= 0 /\ Written(f) = Written(Top(t))
      BY <3>1, LogAssumption DEF Frames, Written
    <3> HIDE DEF f
    <3>3. StacksType' /\ LogType' /\ OpenedIsShort' /\ OwnBlocks'
      <4>1. InHandler(t) /\ SetTop(t, f) /\ UNCHANGED log
        BY <2>4 DEF ResetSignal, f
      <4> QED
        BY <3>2, <4>1, MovesInv
    <3>4. disposition' \in [Signals -> {"cl_handler", "SIG_DFL"}] /\ alive' = alive
      BY <2>4 DEF ResetSignal, AfterReset, NativeInv
    <3> QED
      BY <3>1, <3>3, <3>4 DEF NativeInv, DeadIsEmpty, InHandler
  <2>5. CASE Raise(t)
    <3>1. Top(t).sig \in Signals /\ InHandler(t) /\ alive
      BY <1>a, <2>5 DEF Raise, Frames, NativeInv, DeadIsEmpty, InHandler
    <3> QED
      BY <2>5, <3>1, FrameInv DEF Raise
  <2> QED
    BY <1>2, <2>1, <2>2, <2>3, <2>4, <2>5 DEF cl_handler
<1>3. CASE RestartNative
  <2>1. LogType'
    <3>1. Len(log) \in Nat /\ log' = [b \in 1 .. Len(log) |-> Old]
      BY <1>3 DEF RestartNative, NativeInv, LogType
    <3>2. log' \in Seq(Entries) /\ Len(log') = Len(log)
      BY <3>1 DEF Entries
    <3>3. Len(log) <= Blocks \/ Len(log) = Blocks + 1
      BY LogAssumption DEF NativeInv, LogType
    <3> QED
      BY <3>1, <3>2, <3>3 DEF LogType
  <2>2. alive' = TRUE /\ disposition' = [s \in Signals |-> "cl_handler"] /\ stack' = stack
    BY <1>3 DEF RestartNative
  <2>3. QED
    <3>1. \A t \in Faulting : stack[t] = << >>
      BY <1>3 DEF RestartNative, NativeInv, DeadIsEmpty
    <3>2. StacksType' /\ OpenedIsShort' /\ OwnBlocks'
      BY <2>1, <2>2, <3>1, EmptyInv DEF NativeInv, StacksType
    <3> QED
      BY <2>1, <2>2, <3>2 DEF NativeInv, DeadIsEmpty
<1>4. CASE UNCHANGED nativeVars
  BY <1>4 DEF nativeVars, NativeInv, StacksType, LogType, OpenedIsShort, OwnBlocks, DeadIsEmpty, InHandler, Top
<1> QED
  BY <1>1, <1>2, <1>3, <1>4 DEF NativeNext

(* A report that is about to be followed by the signal is whole. *)
LEMMA NativeInvImplies == NativeInv => ReportInv
<1> SUFFICES ASSUME NativeInv PROVE ReportInv
  OBVIOUS
<1>1. NativeTypeOK
  <2>1. \A t \in Faulting : \A k \in 1 .. Len(stack[t]) : stack[t][k] \in Frames
    BY ElementOfSeq DEF NativeInv, StacksType
  <2> QED
    BY <2>1 DEF NativeInv, LogType, NativeTypeOK, Frames
<1>2. ReportWhole
  <2>1. \A f : f.done = Blocks + 1 => Written(f) = Blocks
    BY LogAssumption DEF Written
  <2> QED
    BY <2>1 DEF NativeInv, OwnBlocks, ReportWhole, Reported
<1> QED
  BY <1>1, <1>2 DEF ReportInv

(***************************************************************************)
(* For any threads, signals and length of a report: when a signal is about *)
(* to kill the process and no other thread has faulted, the log is the     *)
(* whole report and nothing else, also after faults inside the handler and *)
(* over the log of an earlier process (Main.cpp:330-411).                  *)
(***************************************************************************)
THEOREM ReportCorrect == NativeSpec => []ReportInv
<1>1. NativeSpec => []NativeInv
  BY NativeInitInv, NativeNextInv, PTL DEF NativeSpec
<1> QED
  BY <1>1, NativeInvImplies, PTL
=============================================================================
