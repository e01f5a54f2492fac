--------------------------- MODULE GameHooksProofs ---------------------------
(***************************************************************************)
(* Proofs about hack_thread, the game's Update and the instrumentation,    *)
(* for any addresses and any use of them by the two threads, whether or    *)
(* not the game exports the symbol.  Dobby may refuse at any call.         *)
(***************************************************************************)
EXTENDS GameHooks, TLAPS

(* How far hack_thread is says what is hooked, and that the library it     *)
(* waited for is there.                                                    *)
HookedSoFar ==
    /\ hackPc >= 0 => library # "absent"
    /\ hackPc >= 3 => "AddCoins" \in hooked
    /\ hackPc >= 4 => "AddScore" \in hooked
    /\ hackPc >= 5 => "Update" \in hooked
    /\ "Update" \in hooked => hackPc >= 5

(* A call is about an address of its caller. *)
OwnAddresses == \A c \in Callers : call[c] # Idle => call[c].abs \in Uses[c]

(* A function that calls Detector has an entry, or its entry is about to   *)
(* be made; an entry is taken away only from one that no longer calls it.  *)
EntriesFollow ==
    Separate =>
        /\ \A a \in instrumented :
             a \in detecting \/ \E c \in Callers : call[c].step = "insert" /\ call[c].abs = a
        /\ \A c \in Callers : call[c].step = "erase" => call[c].abs \notin instrumented

Inv == TypeOK /\ HookedSoFar /\ OwnAddresses /\ EntriesFollow

-----------------------------------------------------------------------------
(* A caller in the middle of a call has an address. *)
LEMMA CallType ==
    ASSUME instTypeOK, NEW c \in Callers, call[c].step \in CallSteps
    PROVE  call[c] \in [step : CallSteps, abs : Addresses, apply : BOOLEAN]
  BY DEF instTypeOK, CallSteps, Idle

(* A call that goes on keeps its address, and other callers are where they *)
(* were.                                                                   *)
LEMMA GotoMoves ==
    ASSUME instTypeOK, NEW c \in Callers, NEW s \in CallSteps, call[c].step \in CallSteps, Goto(c, s)
    PROVE  /\ call'[c] = [step |-> s, abs |-> call[c].abs, apply |-> call[c].apply]
           /\ \A d \in Callers : d # c => call'[d] = call[d]
           /\ call' \in [Callers -> {Idle} \cup [step : CallSteps, abs : Addresses, apply : BOOLEAN]]
<1>1. call[c].abs \in Addresses /\ call[c].apply \in BOOLEAN
  BY CallType
<1>2. call' = [call EXCEPT ![c] = [step |-> s, abs |-> call[c].abs, apply |-> call[c].apply]]
  BY DEF Goto, At
<1> QED
  BY <1>1, <1>2 DEF instTypeOK

(* A call that returns leaves the other callers where they were. *)
LEMMA ReturnMoves ==
    ASSUME instTypeOK, NEW c \in Callers, Return(c)
    PROVE  /\ call'[c] = Idle
           /\ \A d \in Callers : d # c => call'[d] = call[d]
           /\ call' \in [Callers -> {Idle} \cup [step : CallSteps, abs : Addresses, apply : BOOLEAN]]
  BY DEF Return, instTypeOK

(* The addresses of two callers differ if they instrument separately. *)
LEMMA OthersDiffer ==
    ASSUME OwnAddresses, Separate, NEW c \in Callers, NEW d \in Callers, c # d,
           call[c] # Idle, call[d] # Idle
    PROVE  call[c].abs # call[d].abs
  BY DEF OwnAddresses, Separate

InstInv == instTypeOK /\ OwnAddresses /\ EntriesFollow

(* A new call is about an address its caller uses and touches nothing yet. *)
LEMMA CallInv ==
    ASSUME InstInv, NEW c \in Callers, NEW a \in Addresses, NEW b \in BOOLEAN, INST(c, a, b)
    PROVE  InstInv'
<1>1. call' = [call EXCEPT ![c] = [step |-> "check", abs |-> a, apply |-> b]] /\ a \in Uses[c]
  BY DEF INST, At
<1>2. instTypeOK'
  BY <1>1 DEF InstInv, instTypeOK, INST, CallSteps
<1>3. OwnAddresses'
  BY <1>1 DEF InstInv, OwnAddresses, instTypeOK
<1>4. EntriesFollow'
  <2> SUFFICES ASSUME Separate PROVE EntriesFollow'
    BY DEF EntriesFollow, Separate
  <2>1. \A d \in Callers : call'[d].step \in {"insert", "erase"} => call'[d] = call[d]
    BY <1>1 DEF InstInv, instTypeOK
  <2>2. \A d \in Callers : call[d].step = "insert" => call'[d] = call[d]
    BY <1>1 DEF InstInv, instTypeOK, INST, Idle
  <2> QED
    BY <2>1, <2>2 DEF InstInv, EntriesFollow, INST
<1> QED
  BY <1>2, <1>3, <1>4 DEF InstInv

(* A caller that moves on to step s of its call: its address and those of  *)
(* the others stay their own.                                              *)
LEMMA GotoKeeps ==
    ASSUME instTypeOK, OwnAddresses, NEW c \in Callers, NEW s \in CallSteps, call[c].step \in CallSteps, Goto(c, s)
    PROVE  OwnAddresses'
<1>1. call[c] # Idle
  BY DEF Idle, CallSteps
<1>2. /\ call'[c] = [step |-> s, abs |-> call[c].abs, apply |-> call[c].apply]
      /\ \A d \in Callers : d # c => call'[d] = call[d]
  BY GotoMoves
<1>3. call'[c].abs = call[c].abs
  BY <1>2
<1> QED
  BY <1>1, <1>2, <1>3 DEF OwnAddresses

(* A caller that returns: the addresses of the others stay their own. *)
LEMMA ReturnKeeps ==
    ASSUME instTypeOK, OwnAddresses, NEW c \in Callers, Return(c)
    PROVE  OwnAddresses'
  BY ReturnMoves DEF OwnAddresses

(* Every step of a call keeps the entries in step with what is             *)
(* instrumented, whatever Dobby answers.                                   *)
LEMMA ProceedInv ==
    ASSUME InstInv, NEW c \in Callers, Proceed(c)
    PROVE  InstInv'
<1>a. instTypeOK /\ OwnAddresses /\ EntriesFollow
  BY DEF InstInv
<1>b. SUFFICES instTypeOK' /\ OwnAddresses' /\ EntriesFollow'
  BY DEF InstInv
<1>1. CASE LookUp(c)
  <2>1. call[c].step \in CallSteps
    BY <1>1 DEF LookUp, CallSteps
  <2>2. CASE Wanted(call[c].abs, call[c].apply) = "idle"
    <3>1. Return(c)
      BY <1>1, <2>2 DEF LookUp
    <3>2. instTypeOK' /\ OwnAddresses'
      BY <1>1, <1>a, <3>1, ReturnMoves, ReturnKeeps DEF LookUp, instTypeOK
    <3>3. EntriesFollow'
      BY <1>1, <1>a, <3>1, ReturnMoves DEF LookUp, EntriesFollow, Idle, Separate
    <3> QED
      BY <3>2, <3>3
  <2>3. CASE Wanted(call[c].abs, call[c].apply) # "idle"
    <3>1. PICK s \in {"destroy", "instrument"} : Goto(c, s)
      BY <1>1, <2>3 DEF LookUp, Wanted
    <3>2. /\ call'[c] = [step |-> s, abs |-> call[c].abs, apply |-> call[c].apply]
          /\ \A d \in Callers : d # c => call'[d] = call[d]
      BY <1>a, <2>1, <3>1, GotoMoves DEF CallSteps
    <3>3. instTypeOK' /\ OwnAddresses'
      BY <1>1, <1>a, <2>1, <3>1, GotoMoves, GotoKeeps DEF LookUp, instTypeOK, CallSteps
    <3>4. EntriesFollow'
      BY <1>1, <1>a, <3>2 DEF LookUp, EntriesFollow, Separate
    <3> QED
      BY <3>3, <3>4
  <2> QED
    BY <2>2, <2>3
<1>2. CASE Instrument(c)
  <2>1. call[c].step = "instrument" /\ Goto(c, "insert") /\ call[c].step \in CallSteps /\ call[c] # Idle
    BY <1>2 DEF Instrument, CallSteps, Idle
  <2>2. /\ call'[c] = [step |-> "insert", abs |-> call[c].abs, apply |-> call[c].apply]
        /\ \A d \in Callers : d # c => call'[d] = call[d]
    BY <1>a, <2>1, GotoMoves DEF CallSteps
  <2>3. instTypeOK' /\ OwnAddresses'
    BY <1>2, <1>a, <2>1, CallType, GotoMoves, GotoKeeps DEF Instrument, instTypeOK, CallSteps
  <2>4. ASSUME Separate, NEW d \in Callers, call'[d].step = "erase"
        PROVE  call'[d].abs \notin instrumented'
    <3>1. d # c /\ call[d].step = "erase" /\ call'[d] = call[d] /\ call[d] # Idle
      BY <2>2, <2>4 DEF Idle
    <3>2. call[d].abs # call[c].abs
      BY <1>a, <2>1, <2>4, <3>1, OthersDiffer
    <3> QED
      BY <1>2, <1>a, <2>4, <3>1, <3>2 DEF Instrument, EntriesFollow
  <2>5. ASSUME Separate, NEW a \in instrumented'
        PROVE  a \in detecting' \/ \E d \in Callers : call'[d].step = "insert" /\ call'[d].abs = a
    BY <1>2, <1>a, <2>1, <2>2, <2>5 DEF Instrument, EntriesFollow
  <2> QED
    BY <2>3, <2>4, <2>5 DEF EntriesFollow, Separate
<1>3. CASE InstrumentFails(c)
  <2>1. call[c].step = "instrument" /\ Return(c) /\ call[c].step \in CallSteps
    BY <1>3 DEF InstrumentFails, CallSteps
  <2>2. instTypeOK' /\ OwnAddresses'
    BY <1>3, <1>a, <2>1, CallType, ReturnMoves, ReturnKeeps DEF InstrumentFails, instTypeOK
  <2>3. EntriesFollow'
    BY <1>3, <1>a, <2>1, ReturnMoves DEF InstrumentFails, EntriesFollow, Idle, Separate
  <2> QED
    BY <2>2, <2>3
<1>4. CASE Insert(c)
  <2>1. call[c].step = "insert" /\ Return(c) /\ call[c].step \in CallSteps
    BY <1>4 DEF Insert, CallSteps
  <2>2. instTypeOK' /\ OwnAddresses'
    BY <1>4, <1>a, <2>1, CallType, ReturnMoves, ReturnKeeps DEF Insert, Key, instTypeOK
  <2>3. EntriesFollow'
    BY <1>4, <1>a, <2>1, ReturnMoves DEF Insert, Key, EntriesFollow, Idle, Separate
  <2> QED
    BY <2>2, <2>3
<1>5. CASE Destroy(c)
  <2>1. call[c].step = "destroy" /\ Goto(c, "erase") /\ call[c].step \in CallSteps
    BY <1>5 DEF Destroy, CallSteps
  <2>2. /\ call'[c] = [step |-> "erase", abs |-> call[c].abs, apply |-> call[c].apply]
        /\ \A d \in Callers : d # c => call'[d] = call[d]
    BY <1>a, <2>1, GotoMoves DEF CallSteps
  <2>3. instTypeOK' /\ OwnAddresses'
    BY <1>5, <1>a, <2>1, GotoMoves, GotoKeeps DEF Destroy, instTypeOK, CallSteps
  <2>4. EntriesFollow'
    BY <1>5, <1>a, <2>1, <2>2 DEF Destroy, EntriesFollow, Separate
  <2> QED
    BY <2>3, <2>4
<1>6. CASE DestroyFails(c)
  <2>1. call[c].step = "destroy" /\ Return(c)
    BY <1>6 DEF DestroyFails, KillFailed
  <2>2. instTypeOK' /\ OwnAddresses'
    BY <1>6, <1>a, <2>1, ReturnMoves, ReturnKeeps DEF DestroyFails, instTypeOK
  <2>3. EntriesFollow'
    BY <1>6, <1>a, <2>1, ReturnMoves DEF DestroyFails, EntriesFollow, Idle, Separate
  <2> QED
    BY <2>2, <2>3
<1>7. CASE Erase(c)
  <2>1. call[c].step = "erase" /\ Return(c)
    BY <1>7 DEF Erase
  <2>2. instTypeOK' /\ OwnAddresses'
    BY <1>7, <1>a, <2>1, ReturnMoves, ReturnKeeps DEF Erase, instTypeOK
  <2>3. EntriesFollow'
    BY <1>7, <1>a, <2>1, ReturnMoves DEF Erase, EntriesFollow, Idle, Separate
  <2> QED
    BY <2>2, <2>3
<1> QED
  BY <1>1, <1>2, <1>3, <1>4, <1>5, <1>6, <1>7 DEF Proceed

-----------------------------------------------------------------------------
(* hack_thread's progress and the hooks, whoever moves. *)
LEMMA HooksKept ==
    ASSUME TypeOK, HookedSoFar, Next
    PROVE  /\ library' \in {"absent", "linking", "linked"}
           /\ hackPc' \in -1 .. Len(Steps) + 1
           /\ StartInvcibility' \in {NULL, "byOffset", "bySymbol"}
           /\ hooked' \subseteq Hooks
           /\ HookedSoFar'
<1> USE DEF TypeOK, HookedSoFar
<1>1. Len(Steps) = 5 /\ Hooks = {"AddCoins", "AddScore", "Update"}
  BY DEF Steps, Hooks
<1>2. CASE MapLibrary \/ FinishLinking
  BY <1>1, <1>2 DEF MapLibrary, FinishLinking
<1>3. CASE LeaveLoop
  BY <1>1, <1>3 DEF LeaveLoop, isLibraryLoaded
<1>4. CASE AssignStart
  <2>1. hackPc + 1 \in {1, 2}
    BY <1>1, <1>4 DEF AssignStart, Steps, Hooks
  <2>2. Steps[hackPc + 1] \in {"byOffset", "bySymbol"}
    BY <2>1 DEF Steps
  <2> QED
    BY <1>1, <1>4, <2>1, <2>2 DEF AssignStart
<1>5. CASE InstallHook
  <2>1. library = "linked"
    BY <1>1, <1>5 DEF InstallHook, CanLookUp
  <2>2. Steps[hackPc + 1] # "bySymbol" /\ hackPc + 1 \in {3, 4, 5}
    BY <1>1, <1>5 DEF InstallHook, Steps, Hooks
  <2>3. hooked' = hooked \cup {Steps[hackPc + 1]}
    BY <1>5, <2>1, <2>2 DEF InstallHook, Found
  <2>4. Steps[3] = "AddCoins" /\ Steps[4] = "AddScore" /\ Steps[5] = "Update"
    BY DEF Steps
  <2>5. hackPc' = hackPc + 1 /\ UNCHANGED <<library, StartInvcibility>> /\ hackPc \in {2, 3, 4}
    BY <1>5, <2>2 DEF InstallHook
  <2>6. hackPc' \in {3, 4, 5} /\ hackPc' = hackPc + 1
    BY <2>5
  <2>7. hooked' \subseteq Hooks
    <3>1. Steps[hackPc + 1] \in Hooks
      BY <1>5 DEF InstallHook
    <3> QED
      BY <2>3, <3>1
  <2>8. HookedSoFar'
    <3>1. hackPc' >= 3 => "AddCoins" \in hooked'
      BY <2>3, <2>4, <2>5
    <3>2. hackPc' >= 4 => "AddScore" \in hooked'
      BY <2>3, <2>4, <2>5
    <3>3. hackPc' >= 5 <=> "Update" \in hooked'
      BY <2>3, <2>4, <2>5
    <3> QED
      BY <2>1, <2>5, <3>1, <3>2, <3>3
  <2> QED
    BY <1>1, <2>5, <2>6, <2>7, <2>8
<1>6. CASE InstrumentLast
  BY <1>1, <1>6 DEF InstrumentLast
<1>7. CASE PressButton \/ Update
  BY <1>7 DEF PressButton, Update, CheckButton, CallStart, ClearButton
<1>8. CASE \E a \in Addresses, b \in BOOLEAN : SwitchInstrument(a, b)
  BY <1>8 DEF SwitchInstrument
<1>9. CASE \E c \in Callers : DobbyInstrumentWrapper(c)
  BY <1>9 DEF DobbyInstrumentWrapper
<1> QED
  BY <1>2, <1>3, <1>4, <1>5, <1>6, <1>7, <1>8, <1>9 DEF Next, hack_thread

(* The instrumentation, whoever moves. *)
LEMMA InstrumentsKept ==
    ASSUME InstInv, Next
    PROVE  InstInv'
<1>1. CASE InstrumentLast
  <2>1. CASE UNCHANGED instVars
    BY <2>1 DEF InstInv, instTypeOK, OwnAddresses, EntriesFollow, Separate, instVars
  <2>2. CASE \E a \in Addresses : INST("hack_thread", a, TRUE)
    BY <2>2, CallInv, GameAssumption
  <2> QED
    BY <1>1, <2>1, <2>2 DEF InstrumentLast
<1>2. CASE \E a \in Addresses, b \in BOOLEAN : SwitchInstrument(a, b)
  BY <1>2, CallInv, GameAssumption DEF SwitchInstrument
<1>3. CASE \E c \in Callers : DobbyInstrumentWrapper(c)
  BY <1>3, ProceedInv DEF DobbyInstrumentWrapper
<1>4. CASE UNCHANGED instVars
  BY <1>4 DEF InstInv, instTypeOK, OwnAddresses, EntriesFollow, Separate, instVars
<1> QED
  BY <1>1, <1>2, <1>3, <1>4
     DEF Next, hack_thread, MapLibrary, FinishLinking, LeaveLoop, AssignStart, InstallHook,
         PressButton, Update, CheckButton, CallStart, ClearButton

(* Nothing is hooked or instrumented before hack_thread and the game run. *)
LEMMA InitInv == Init => Inv
<1> SUFFICES ASSUME Init PROVE Inv
  OBVIOUS
<1>1. instTypeOK
  BY DEF Init, instInit, instTypeOK
<1>2. TypeOK
  <2>1. hackPc \in -1 .. Len(Steps) + 1
    BY DEF Init, Steps
  <2> QED
    BY <1>1, <2>1 DEF Init, TypeOK
<1>4. HookedSoFar
  BY DEF Init, HookedSoFar
<1>3. OwnAddresses /\ EntriesFollow
  BY DEF Init, instInit, OwnAddresses, EntriesFollow, Idle
<1> QED
  BY <1>2, <1>3, <1>4 DEF Inv

(* Every step of hack_thread, the game, the menu and Dobby keeps it. *)
LEMMA NextInv == Inv /\ [Next]_vars => Inv'
<1>1. ASSUME Inv, Next
      PROVE  Inv'
  <2>1. InstInv'
    BY <1>1, InstrumentsKept DEF Inv, InstInv, TypeOK
  <2>2. btnPressed' \in BOOLEAN /\ running' \in BOOLEAN /\ owed' \in BOOLEAN /\ updatePc' \in {"out", "call", "clear"}
    BY <1>1
       DEF Inv, TypeOK, Next, hack_thread, MapLibrary, FinishLinking, LeaveLoop, AssignStart, InstallHook,
           InstrumentLast, SwitchInstrument, DobbyInstrumentWrapper, PressButton, Pressed,
           Update, CheckButton, CallStart, ClearButton, gameVars
  <2> QED
    BY <1>1, <2>1, <2>2, HooksKept DEF Inv, InstInv, TypeOK
<1>2. ASSUME Inv, UNCHANGED vars
      PROVE  Inv'
  BY <1>2 DEF Inv, vars, gameVars, instVars, TypeOK, instTypeOK, HookedSoFar, OwnAddresses, EntriesFollow, Separate
<1> QED
  BY <1>1, <1>2

(* A function that is instrumented while no thread is at work on it has    *)
(* its entry, and a thread that is past its hooks has installed them.      *)
LEMMA InvImplies == Inv => HooksInv
<1>1. Inv => HooksInstalled
  <2> SUFFICES ASSUME Inv, hackPc >= Len(Steps) PROVE hooked = Hooks
    BY DEF HooksInstalled
  <2>1. hackPc \in Int /\ hackPc >= 5
    BY DEF Steps, Inv, TypeOK
  <2>2. {"AddCoins", "AddScore", "Update"} \subseteq hooked
    BY <2>1 DEF Inv, HookedSoFar
  <2> QED
    BY <2>2 DEF Inv, TypeOK, Hooks
<1>2. Inv => RunningIsRecorded
  <2> SUFFICES ASSUME Inv, Separate, NEW a \in instrumented, Settled(a), a \notin detecting
               PROVE  FALSE
    BY DEF RunningIsRecorded, Logged
  <2>1. PICK c \in Callers : call[c].step = "insert" /\ call[c].abs = a
    BY DEF Inv, EntriesFollow
  <2>2. call[c] # Idle
    BY <2>1 DEF Idle
  <2> QED
    BY <2>1, <2>2 DEF Inv, OwnAddresses, Settled
<1> QED
  BY <1>1, <1>2 DEF Inv, HooksInv

-----------------------------------------------------------------------------
(***************************************************************************)
(* For any use of the instrumentation by the two threads and any answer of *)
(* Dobby: states are well typed, hack_thread ends with all its hooks in    *)
(* although it tries them once (Main.cpp:298-328), and, if the threads     *)
(* instrument different functions, what calls Detector is recorded         *)
(* (Macros.h:57-86).                                                       *)
(***************************************************************************)
THEOREM HooksCorrect == Spec => []HooksInv
<1>1. Spec => []Inv
  BY InitInv, NextInv, PTL DEF Spec
<1> QED
  BY <1>1, InvImplies, PTL

(* Once the game can call Update, the pointer that it calls stays what it  *)
(* is: both lookups come before the hook (Main.cpp:309-320).               *)
THEOREM PointerStays == Spec => PointerSettled
<1>1. ASSUME Inv, Next, "Update" \in hooked
      PROVE  UNCHANGED StartInvcibility
  <2>1. ~AssignStart
    <3>1. hackPc >= 5
      BY <1>1 DEF Inv, HookedSoFar
    <3> QED
      BY <1>1, <3>1 DEF AssignStart, Steps, Inv, TypeOK
  <2> QED
    BY <1>1, <2>1
       DEF Next, hack_thread, MapLibrary, FinishLinking, LeaveLoop, InstallHook, InstrumentLast,
           SwitchInstrument, DobbyInstrumentWrapper, PressButton, Update, CheckButton, CallStart, ClearButton
<1>2. Inv /\ [Next]_vars => ["Update" \in hooked => UNCHANGED StartInvcibility]_vars
  BY <1>1
<1>3. Spec => []Inv
  BY InitInv, NextInv, PTL DEF Spec
<1> QED
  BY <1>2, <1>3, PTL DEF Spec, PointerSettled
=============================================================================
