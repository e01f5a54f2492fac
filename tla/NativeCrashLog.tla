--------------------------- MODULE NativeCrashLog ---------------------------
(***************************************************************************)
(* The native crash logger of Main.cpp: cl_install sets cl_handler for six *)
(* signals; the handler writes a report to one file and lets the signal    *)
(* kill the process.  Threads may fault at the same time, each with a file *)
(* descriptor and an offset of its own, and a handler may fault itself.    *)
(*                                                                         *)
(* A report is Blocks writes; in the file, an entry is the fault a block   *)
(* was written for, Old for one of an earlier process, or a Hole.          *)
(***************************************************************************)
EXTENDS Integers, Sequences, SequencesExt

CONSTANTS
    Faulting,   \* threads that may fault
    Signals,
    Blocks,     \* writes of a report
    Old, Hole

ASSUME LogAssumption ==
    Blocks \in Nat \ {0} /\ Old \notin Faulting \X Signals /\ Hole \notin Faulting \X Signals

VARIABLES
    alive,        \* the process runs
    disposition,  \* what each signal does
    stack,        \* the handlers running in each thread, innermost last
    log           \* native_crash.log

nativeVars == <<alive, disposition, stack, log>>

(* A run of the handler: its signal, whether the file could be opened, and *)
(* what it has done: -1 nothing, n blocks written, Blocks + 1 signal reset. *)
Frame(sig) == [sig |-> sig, fd |-> FALSE, done |-> -1]

NativeInit ==
    /\ alive = TRUE
    /\ disposition = [s \in Signals |-> "cl_handler"]
    /\ stack = [t \in Faulting |-> << >>]
    /\ log \in {<< >>, [b \in 1 .. Blocks + 1 |-> Old]}

Top(t)      == Last(stack[t])
InHandler(t) == stack[t] # << >>
SetTop(t, f) == stack' = [stack EXCEPT ![t] = Append(Front(@), f)]

KilledBySignal ==
    /\ alive' = FALSE /\ stack' = [t \in Faulting |-> << >>]

-----------------------------------------------------------------------------
(* A fault of thread t.  A signal whose handler runs in t is blocked there *)
(* and kills the process at once.                                          *)
Blocked(t, sig) == \E k \in 1 .. Len(stack[t]) : stack[t][k].sig = sig

Fault(t, sig) ==
    /\ alive
    /\ IF disposition[sig] = "cl_handler" /\ ~Blocked(t, sig)
       THEN stack' = [stack EXCEPT ![t] = Append(@, Frame(sig))] /\ UNCHANGED alive
       ELSE KilledBySignal
    /\ UNCHANGED <<disposition, log>>

(* Mutant of Opened: O_TRUNC is missing. *)
OpenedAsIs == log
Opened == << >>

OpenNativeLog(t) ==
    /\ InHandler(t) /\ Top(t).done = -1
    /\ log' = Opened
    /\ SetTop(t, [sig |-> Top(t).sig, fd |-> TRUE, done |-> 0])
    /\ UNCHANGED <<alive, disposition>>

OpenFails(t) ==
    /\ InHandler(t) /\ Top(t).done = -1
    /\ SetTop(t, [Top(t) EXCEPT !.done = Blocks])
    /\ UNCHANGED <<alive, disposition, log>>

(* A block goes to the offset of this descriptor, whatever the length of   *)
(* the file is by now.                                                     *)
WriteAt(l, n, e) ==
    [b \in 1 .. IF n > Len(l) THEN n ELSE Len(l) |->
        IF b = n THEN e ELSE IF b <= Len(l) THEN l[b] ELSE Hole]

BlocksLeft(f) == f.done \in 0 .. Blocks - 1

WriteBlock(t) ==
    /\ InHandler(t) /\ Top(t).fd /\ BlocksLeft(Top(t))
    /\ log' = WriteAt(log, Top(t).done + 1, <<t, Top(t).sig>>)
    /\ SetTop(t, [Top(t) EXCEPT !.done = @ + 1])
    /\ UNCHANGED <<alive, disposition>>

(* Mutant of AfterReset: the handler stays. *)
StillHandled == "cl_handler"
AfterReset == "SIG_DFL"

ResetSignal(t) ==
    /\ InHandler(t) /\ Top(t).done = Blocks
    /\ disposition' = [disposition EXCEPT ![Top(t).sig] = AfterReset]
    /\ SetTop(t, [Top(t) EXCEPT !.done = @ + 1])
    /\ UNCHANGED <<alive, log>>

(* raise: the signal is delivered when the handler returns. *)
Raise(t) ==
    /\ InHandler(t) /\ Top(t).done = Blocks + 1
    /\ IF disposition[Top(t).sig] = "SIG_DFL" THEN KilledBySignal
       ELSE SetTop(t, Frame(Top(t).sig)) /\ UNCHANGED alive
    /\ UNCHANGED <<disposition, log>>

(* The app starts again; cl_install does not touch the log. *)
RestartNative ==
    /\ ~alive /\ alive' = TRUE
    /\ disposition' = [s \in Signals |-> "cl_handler"]
    /\ log' = [b \in 1 .. Len(log) |-> Old]
    /\ UNCHANGED stack

cl_handler(t) ==
    OpenNativeLog(t) \/ OpenFails(t) \/ WriteBlock(t) \/ ResetSignal(t) \/ Raise(t)

NativeNext ==
    \/ \E t \in Faulting : cl_handler(t) \/ (\E sig \in Signals : Fault(t, sig))
    \/ RestartNative

(* A thread runs on in its handler. *)
NativeSpec ==
    NativeInit /\ [][NativeNext]_nativeVars /\ \A t \in Faulting : WF_nativeVars(cl_handler(t))

-----------------------------------------------------------------------------
Entries == (Faulting \X Signals) \cup {Old, Hole}

NativeTypeOK ==
    /\ alive \in BOOLEAN
    /\ disposition \in [Signals -> {"cl_handler", "SIG_DFL"}]
    /\ \A t \in Faulting : \A k \in 1 .. Len(stack[t]) :
         stack[t][k] \in [sig : Signals, fd : BOOLEAN, done : -1 .. Blocks + 1]
    /\ log \in Seq(Entries)
    /\ Len(log) <= Blocks \/ log = [b \in 1 .. Blocks + 1 |-> Old]

(***************************************************************************)
(* A fault that reaches the handler ends the process, also when the log    *)
(* cannot be opened, when another thread faults too, and when the handler  *)
(* faults ("so the process terminates normally", ARCHITECTURE.md:277).     *)
(***************************************************************************)
FaultKills == \A t \in Faulting : InHandler(t) ~> ~alive

(***************************************************************************)
(* When a signal is about to kill the process after its report, and no     *)
(* other thread has faulted, the log is that report, whole and nothing     *)
(* else, also after faults inside the handler and over a longer log of an  *)
(* earlier process ("so the faulting library can be pinned down",          *)
(* Main.cpp:351-352).                                                      *)
(***************************************************************************)
Reported(t) ==
    (InHandler(t) /\ Top(t).fd /\ Top(t).done = Blocks + 1)
      => log = [b \in 1 .. Blocks |-> <<t, Top(t).sig>>]

ReportWhole ==
    \A t \in Faulting : (\A u \in Faulting \ {t} : ~InHandler(u)) => Reported(t)

(* The same with other threads in the handler, which truncate the file and *)
(* write over it (the code does not keep this).                            *)
ReportWholeAmongFaults == \A t \in Faulting : Reported(t)

(* The log of faults: every state is well typed, and a fault that is       *)
(* alone leaves its whole report.                                          *)
ReportInv == NativeTypeOK /\ ReportWhole
=============================================================================
