------------------------------ MODULE MCCrash ------------------------------
(* The two crash handlers in one run: a behaviour is about uncaught        *)
(* exceptions, in which a signal only ends the process, or about signals.  *)
EXTENDS CrashHandler, NativeCrashLog

VARIABLE part
crashVars == <<part, vars, nativeVars>>

CrashInit == /\ Init /\ NativeInit
             /\ \/ part = "exceptions" /\ log = << >>
                \/ part = "signals"
CrashNext == /\ UNCHANGED part
             /\ \/ part = "exceptions" /\ Next /\ UNCHANGED nativeVars
                \/ part = "signals" /\ NativeNext /\ UNCHANGED vars
(* A thread runs on in its handler. *)
CrashSpec ==
    /\ CrashInit /\ [][CrashNext]_crashVars
    /\ \A t \in Threads : WF_crashVars(part = "exceptions" /\ Handle(t) /\ UNCHANGED <<part, nativeVars>>)
    /\ \A t \in Faulting : WF_crashVars(part = "signals" /\ cl_handler(t) /\ UNCHANGED <<part, vars>>)
=============================================================================
