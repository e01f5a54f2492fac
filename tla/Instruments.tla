----------------------------- MODULE Instruments -----------------------------
(***************************************************************************)
(* DobbyInstrumentWrapper of Macros.h (INST): switching the logging of a   *)
(* function's executions on and off.  hack_thread and Changes on the UI    *)
(* thread call it with no lock around detecting_functions; the game's      *)
(* threads read that map in Detector whenever they execute an instrumented *)
(* function.  An address stands for one that resolves; GameHooks says when *)
(* each thread calls.                                                      *)
(***************************************************************************)
EXTENDS Integers, FiniteSets

CONSTANTS
    Addresses,  \* addresses features instrument
    Callers,    \* threads that call INST
    Uses        \* the addresses each of them instruments

ASSUME UsesAssumption == Uses \in [Callers -> SUBSET Addresses]

VARIABLES
    detecting,     \* addresses with an entry in detecting_functions
    instrumented,  \* addresses that call Detector
    call           \* what each caller is doing: its step, address and boolean

instVars == <<detecting, instrumented, call>>

Idle == [step |-> "idle"]
At(s, a, apply) == [step |-> s, abs |-> a, apply |-> apply]
CallSteps == {"check", "destroy", "erase", "instrument", "insert"}

instInit ==
    /\ detecting = {} /\ instrumented = {}
    /\ call = [c \in Callers |-> Idle]

Goto(c, s) == call' = [call EXCEPT ![c] = At(s, call[c].abs, call[c].apply)]
Return(c)  == call' = [call EXCEPT ![c] = Idle]

-----------------------------------------------------------------------------
INST(c, a, apply) ==
    /\ call[c] = Idle /\ a \in Uses[c]
    /\ call' = [call EXCEPT ![c] = At("check", a, apply)]
    /\ UNCHANGED <<detecting, instrumented>>

(* What the call goes on to do once it has looked the address up. *)
Wanted(a, apply) ==
    IF a \in detecting THEN IF apply THEN "idle" ELSE "destroy"
                       ELSE IF apply THEN "instrument" ELSE "idle"

LookUp(c) ==
    /\ call[c].step = "check"
    /\ LET next == Wanted(call[c].abs, call[c].apply) IN
         IF next = "idle" THEN Return(c) ELSE Goto(c, next)
    /\ UNCHANGED <<detecting, instrumented>>

(* Dobby may refuse, and does not instrument an address twice. *)
Instrument(c) ==
    /\ call[c].step = "instrument" /\ call[c].abs \notin instrumented
    /\ instrumented' = instrumented \cup {call[c].abs}
    /\ Goto(c, "insert")
    /\ UNCHANGED detecting

(* The message of the failure reads detecting_functions[abs], which makes  *)
(* an entry (Macros.h:82).                                                 *)
InstrumentFails(c) ==
    /\ call[c].step = "instrument"
    /\ detecting' = detecting \cup {call[c].abs}
    /\ Return(c)
    /\ UNCHANGED instrumented

Key(c) == call[c].abs

Insert(c) ==
    /\ call[c].step = "insert"
    /\ detecting' = detecting \cup {Key(c)}
    /\ Return(c)
    /\ UNCHANGED instrumented

Destroy(c) ==
    /\ call[c].step = "destroy" /\ call[c].abs \in instrumented
    /\ instrumented' = instrumented \ {call[c].abs}
    /\ Goto(c, "erase")
    /\ UNCHANGED detecting

(* Mutant of KillFailed: the entry goes although the function still calls  *)
(* Detector.                                                               *)
KillFailedErases(c) == Goto(c, "erase")
KillFailed(c) == Return(c)

DestroyFails(c) ==
    /\ call[c].step = "destroy"
    /\ KillFailed(c)
    /\ UNCHANGED <<detecting, instrumented>>

Erase(c) ==
    /\ call[c].step = "erase"
    /\ detecting' = detecting \ {call[c].abs}
    /\ Return(c)
    /\ UNCHANGED instrumented

(* Detector: an execution of a is logged. *)
Logged(a) == a \in detecting

(* A caller goes on with its call. *)
Proceed(c) ==
    \/ LookUp(c)
    \/ Instrument(c) \/ InstrumentFails(c) \/ Insert(c)
    \/ Destroy(c) \/ DestroyFails(c) \/ Erase(c)

-----------------------------------------------------------------------------
instTypeOK ==
    /\ detecting \subseteq Addresses /\ instrumented \subseteq Addresses
    /\ call \in [Callers -> {Idle} \cup [step : CallSteps, abs : Addresses, apply : BOOLEAN]]

Settled(a) == \A c \in Callers : a \in Uses[c] => call[c] = Idle

(* No two threads instrument the same function. *)
Separate == \A c, d \in Callers : c # d => Uses[c] \cap Uses[d] = {}

(***************************************************************************)
(* Between calls, a function that calls Detector has its entry: its        *)
(* executions are logged, and switching it off finds it, also after Dobby  *)
(* refused to instrument or to destroy it.                                 *)
(***************************************************************************)
RunningIsRecorded ==
    Separate => \A a \in instrumented : Settled(a) => Logged(a)

(* What is recorded as detected is detected (the code does not keep this:  *)
(* an instrumentation that failed is recorded, and never tried again).     *)
RecordedIsRunning == \A a \in detecting : Settled(a) => a \in instrumented
=============================================================================
