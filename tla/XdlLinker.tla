----------------------------- MODULE XdlLinker -----------------------------
(***************************************************************************)
(* How xDL reaches the dynamic linker: xdl_iterate_phdr under the lock of  *)
(* Android 5, the three initialisations that run once under a lock of      *)
(* their own (linker symbols, callers, liblzma), and                       *)
(* xdl_linker_force_dlopen through the namespaces of the callers.          *)
(*                                                                         *)
(* Threads run procedures that call one another, so each has a stack of    *)
(* frames [proc, at, arg].  The locks are not recursive, except the        *)
(* linker's own.  What a lookup of the linker's symbols needs from liblzma *)
(* closes the circle of calls.                                             *)
(***************************************************************************)
EXTENDS Naturals, FiniteSets, SequencesExt

CONSTANTS
    Threads,
    Libs,       \* libraries that can be loaded
    Opened,     \* those that threads ask xDL for
    Lzma,       \* the one of them that inflates .gnu_debugdata
    Callers,    \* libraries in the name of which dlopen may be called, in order: a sequence of ...
    Rank,       \* ... for each caller, the rank of a library in its match table, 0 if none matches
    Sees,       \* [Libs -> set of libraries whose namespace can open it]
    ApiLevels,  \* Android: "L" 5, "M" 6, "N" 7, "O" 8, "P" 9 and later
    LinkerTables, \* where the linker keeps its internal symbols: "symtab", "debugdata"
    None

ASSUME LinkerAssumption ==
    /\ None \notin Threads \cup Libs
    /\ Lzma \in Libs /\ Opened \subseteq Libs
    /\ Rank \in [DOMAIN Callers -> [Libs -> Nat]]
    /\ LinkerTables \subseteq {"symtab", "debugdata"}

VARIABLES
    api, table, \* of the device
    loaded,   \* the linker's list of libraries
    stack,    \* [Threads -> Seq of frames]
    ret,      \* what the last procedure of a thread returned
    owner,    \* [lock -> thread or None]; "dl" is the linker's own
    inited,   \* [once -> BOOLEAN]
    runs,     \* how often each body has run
    synced,   \* pairs <<t, n>>: t has taken the lock of n since n was initialised
    symbols,  \* xdl_linker_dlopen, xdl_linker_mutex and xdl_lzma_code that were found
    callers   \* the library found for each caller, or None

linkerVars == <<api, table, loaded, stack, ret, owner, inited, runs, synced, symbols, callers>>

Onces == {"symbols", "callers", "lzma"}
Locks == Onces \cup {"dl"}
Frame(p, x) == [proc |-> p, at |-> "start", arg |-> x]

LinkerTypeOK ==
    /\ api \in ApiLevels /\ table \in LinkerTables
    /\ ToSet(loaded) \subseteq Libs
    /\ owner \in [Locks -> Threads \cup {None}]
    /\ inited \in [Onces -> BOOLEAN]
    /\ symbols \subseteq {"dlopen", "mutex", "lzma"}
    /\ callers \in [DOMAIN Callers -> Libs \cup {None}]
    /\ \A t \in Threads : \A f \in ToSet(stack[t]) :
           f.proc \in {"open", "force", "iterate", "once", "dsym", "unlock"}

LinkerInit ==
    /\ api \in ApiLevels /\ table \in LinkerTables
    /\ loaded = <<>>
    /\ stack = [t \in Threads |-> <<>>]
    /\ ret = [t \in Threads |-> None]
    /\ owner = [l \in Locks |-> None]
    /\ inited = [n \in Onces |-> FALSE] /\ runs = [n \in Onces |-> 0]
    /\ synced = {} /\ symbols = {}
    /\ callers = [i \in DOMAIN Callers |-> None]

Top(t)     == Last(stack[t])
At(t, p, l) == stack[t] # <<>> /\ Top(t).proc = p /\ Top(t).at = l
Goto(t, l) == stack' = [stack EXCEPT ![t][Len(stack[t])].at = l]
Call(t, l, f) == stack' = [stack EXCEPT ![t] = Append(Front(@) \o <<[Last(@) EXCEPT !.at = l]>>, f)]
Return(t, v) == /\ stack' = [stack EXCEPT ![t] = Front(@)]
                /\ ret' = [ret EXCEPT ![t] = IF Len(stack[t]) > 1 THEN v ELSE None]

Device == <<api, table>>
Take(t, l) == owner[l] = None /\ owner' = [owner EXCEPT ![l] = t]
(* Mutant of Release: the early return of a body leaves its lock taken.    *)
ReleaseNever(l) == UNCHANGED owner
Release(l) == owner' = [owner EXCEPT ![l] = None]

(* A pointer stored before an unsynchronised flag: a thread that read the  *)
(* flag without taking the lock may find the pointer still null.           *)
Known(t, n, s) == IF <<t, n>> \in synced THEN {(s \in symbols)} ELSE {(s \in symbols), FALSE}

-----------------------------------------------------------------------------
(* if (!inited) { lock; if (!inited) { body; inited = true; } unlock; }    *)
OnceCheck(t) ==
    /\ At(t, "once", "start")
    /\ IF inited[Top(t).arg] THEN Return(t, None) ELSE Goto(t, "lock") /\ UNCHANGED ret
    /\ UNCHANGED <<Device, loaded, owner, inited, runs, synced, symbols, callers>>

AlreadyDone(n) == inited[n]

(* Mutant of TableOfLinker: .gnu_debugdata is always asked first. *)
TableZipped   == "debugdata"
TableOfLinker == table

(* The bodies: the linker's symbols come from its .symtab, which may be    *)
(* zipped (from .dynsym since Android 9, and none are needed on 6); the    *)
(* callers from an iteration; liblzma is opened with XDL_TRY_FORCE_LOAD.   *)
OnceLock(t) ==
    /\ At(t, "once", "lock") /\ owner[Top(t).arg] = None
    /\ LET n == Top(t).arg IN
         IF AlreadyDone(n)
         THEN Return(t, None) /\ synced' = synced \cup ({t} \X ({n} \ {"callers"})) /\ UNCHANGED <<runs, owner>>
         ELSE /\ owner' = [owner EXCEPT ![n] = t]
              /\ runs' = [runs EXCEPT ![n] = @ + 1]
              /\ CASE n = "symbols" /\ api \in {"L", "N", "O"} -> Call(t, "store", Frame("dsym", TableOfLinker))
                   [] n = "callers"                            -> Call(t, "store", Frame("iterate", "callers"))
                   [] n = "lzma"                               -> Call(t, "store", Frame("open", Lzma))
                   [] OTHER                                    -> Goto(t, "store")
              /\ UNCHANGED <<ret, synced>>
    /\ UNCHANGED <<Device, loaded, inited, symbols, callers>>

Found(t, n) ==
    CASE n = "symbols" /\ api = "L" -> IF ret[t] = None THEN {} ELSE {"mutex"}
      [] n = "symbols" /\ api = "N" -> IF ret[t] = None THEN {} ELSE {"dlopen"}
      [] n = "symbols" /\ api = "O" -> IF ret[t] = None THEN {} ELSE {"dlopen"}
      [] n = "symbols" /\ api = "P" -> {"dlopen"}
      [] n = "lzma"                 -> IF ret[t] = None THEN {} ELSE {"lzma"}
      [] OTHER                      -> {}

OnceStore(t) ==
    /\ At(t, "once", "store")
    /\ symbols' = symbols \cup Found(t, Top(t).arg)
    /\ inited' = [inited EXCEPT ![Top(t).arg] = TRUE]
    /\ Release(Top(t).arg)
    /\ synced' = synced \cup ({t} \X ({Top(t).arg} \ {"callers"}))
    /\ Return(t, None)
    /\ UNCHANGED <<Device, loaded, runs, callers>>

-----------------------------------------------------------------------------

(* xdl_linker_get_caller_addr_cb over the whole list: the cursor of a      *)
(* caller only goes down, so a library replaces one of a higher rank.      *)
BestCaller(i) ==
    LET best[k \in 0 .. Len(loaded)] ==
            IF k = 0 THEN None
            ELSE IF Rank[i][loaded[k]] # 0 /\ (best[k - 1] = None \/ Rank[i][loaded[k]] < Rank[i][best[k - 1]])
                 THEN loaded[k] ELSE best[k - 1]
    IN best[Len(loaded)]

(* xdl_iterate_phdr_impl: on Android 5 the caller has to take the linker's *)
(* lock, if its symbol was found; later dl_iterate_phdr does.              *)
IterateStart(t) ==
    /\ At(t, "iterate", "start") /\ api = "L"
    /\ Call(t, "lock", Frame("once", "symbols"))
    /\ UNCHANGED <<Device, loaded, ret, owner, inited, runs, synced, symbols, callers>>

IterateLock(t) ==
    /\ At(t, "iterate", "lock")
    /\ \E known \in Known(t, "symbols", "mutex") :
           IF known THEN Take(t, "dl") /\ Goto(t, "unlock") ELSE Goto(t, "walk") /\ UNCHANGED owner
    /\ UNCHANGED <<Device, loaded, ret, inited, runs, synced, symbols, callers>>

Walk(t, want) ==
    IF want = "callers" THEN callers' = [i \in DOMAIN Callers |-> BestCaller(i)] /\ Return(t, None)
    ELSE Return(t, IF want \in ToSet(loaded) THEN want ELSE None) /\ UNCHANGED callers

IterateWalk(t) ==
    /\ \/ At(t, "iterate", "walk")
       \/ At(t, "iterate", "start") /\ api # "L" /\ owner["dl"] = None
    /\ Walk(t, Top(t).arg)
    /\ UNCHANGED <<Device, loaded, owner, inited, runs, synced, symbols>>

IterateUnlock(t) ==
    /\ At(t, "iterate", "unlock")
    /\ Walk(t, Top(t).arg)
    /\ Release("dl")
    /\ UNCHANGED <<Device, loaded, inited, runs, synced, symbols>>

-----------------------------------------------------------------------------
(* xdl_dsym on a file whose .symtab is zipped goes through liblzma. *)
DsymStart(t) ==
    /\ At(t, "dsym", "start")
    /\ IF Top(t).arg = "debugdata" THEN Call(t, "read", Frame("once", "lzma")) /\ UNCHANGED ret
                                   ELSE Return(t, "symbol")
    /\ UNCHANGED <<Device, loaded, owner, inited, runs, synced, symbols, callers>>

DsymRead(t) ==
    /\ At(t, "dsym", "read")
    /\ \E known \in Known(t, "lzma", "lzma") : Return(t, IF known THEN "symbol" ELSE None)
    /\ UNCHANGED <<Device, loaded, owner, inited, runs, synced, symbols, callers>>

(* xdl_open with XDL_TRY_FORCE_LOAD: find, force, find again.              *)
OpenFind(t) ==
    /\ At(t, "open", "start")
    /\ Call(t, "found", Frame("iterate", Top(t).arg))
    /\ UNCHANGED <<Device, loaded, ret, owner, inited, runs, synced, symbols, callers>>

OpenFound(t) ==
    /\ At(t, "open", "found")
    /\ IF ret[t] # None THEN Return(t, ret[t])
                        ELSE Call(t, "forced", Frame("force", Top(t).arg)) /\ UNCHANGED ret
    /\ UNCHANGED <<Device, loaded, owner, inited, runs, synced, symbols, callers>>

OpenForced(t) ==
    /\ At(t, "open", "forced")
    /\ IF ret[t] = None
       THEN Return(t, None)
       ELSE /\ stack' = [stack EXCEPT ![t] = Append(Front(@), Frame("iterate", Top(t).arg))]
            /\ UNCHANGED ret
    /\ UNCHANGED <<Device, loaded, owner, inited, runs, synced, symbols, callers>>

(* xdl_linker_force_dlopen. *)
ForceStart(t) ==
    /\ At(t, "force", "start")
    /\ IF api \in {"L", "M"} THEN Goto(t, "dlopen") ELSE Call(t, "gate", Frame("once", "symbols"))
    /\ UNCHANGED <<Device, loaded, ret, owner, inited, runs, synced, symbols, callers>>

ForceGate(t) ==
    /\ At(t, "force", "gate")
    /\ \E known \in Known(t, "symbols", "dlopen") :
           IF known THEN Call(t, "dlopen", Frame("once", "callers")) /\ UNCHANGED ret ELSE Return(t, None)
    /\ UNCHANGED <<Device, loaded, owner, inited, runs, synced, symbols, callers>>

(* The callers a thread goes through, and whether one of them can open.    *)
Reached(lib) ==
    \/ api \in {"L", "M"}
    \/ \E i \in DOMAIN Callers : callers[i] # None /\ callers[i] \in Sees[lib]

(* The linker's dlopen holds its lock while it loads. *)
ForceDlopen(t) ==
    /\ At(t, "force", "dlopen") /\ owner["dl"] = None
    /\ LET lib == Top(t).arg IN
         IF Reached(lib) THEN /\ loaded' = IF lib \in ToSet(loaded) THEN loaded ELSE Append(loaded, lib)
                              /\ Return(t, lib)
                         ELSE Return(t, None) /\ UNCHANGED loaded
    /\ UNCHANGED <<Device, owner, inited, runs, synced, symbols, callers>>

(* A thread calls into xDL from outside. *)
Enter(t) ==
    /\ stack[t] = <<>>
    /\ \E f \in {Frame("dsym", "debugdata")} \cup {Frame("open", lib) : lib \in Opened} :
           stack' = [stack EXCEPT ![t] = <<f>>]
    /\ UNCHANGED <<Device, loaded, ret, owner, inited, runs, synced, symbols, callers>>

(* The game loads a library of its own. *)
LinkerGrows ==
    /\ owner["dl"] = None
    /\ \E lib \in Libs \ ToSet(loaded) : loaded' = Append(loaded, lib)
    /\ UNCHANGED <<Device, stack, ret, owner, inited, runs, synced, symbols, callers>>

Proceed(t) ==
    \/ OnceCheck(t) \/ OnceLock(t) \/ OnceStore(t)
    \/ IterateStart(t) \/ IterateLock(t) \/ IterateWalk(t) \/ IterateUnlock(t)
    \/ DsymStart(t) \/ DsymRead(t)
    \/ OpenFind(t) \/ OpenFound(t) \/ OpenForced(t)
    \/ ForceStart(t) \/ ForceGate(t) \/ ForceDlopen(t)

LinkerNext == LinkerGrows \/ \E t \in Threads : Enter(t) \/ Proceed(t)

(* A thread that can run again and again runs: the scheduler is fair, and  *)
(* a mutex that is free again and again is granted in the end.             *)
LinkerSpec == LinkerInit /\ [][LinkerNext]_linkerVars /\ \A t \in Threads : SF_linkerVars(Proceed(t))

-----------------------------------------------------------------------------
(* However many threads race into an initialisation, its body runs once    *)
(* (xdl_linker.c and xdl_lzma.c, the double-checked locks).                *)
RunsOnce == \A n \in Onces : runs[n] <= 1

WaitsFor(t) ==
    IF At(t, "once", "lock") THEN owner[Top(t).arg]
    ELSE IF At(t, "iterate", "lock") \/ At(t, "force", "dlopen") THEN owner["dl"]
    ELSE None

(* The symbols of the linker itself are in a zipped table, on a version    *)
(* where they are needed: their initialisation then needs liblzma, and     *)
(* opening liblzma may need the symbols of the linker.                     *)
ZippedLinker == table = "debugdata" /\ api \in {"L", "N", "O"}

(* No thread waits for itself or in a circle with others over the locks of *)
(* xDL and of the linker, unless the linker's own table is zipped.         *)
NoCircularWait ==
    ZippedLinker \/ \A C \in (SUBSET Threads) \ {{}} : \E t \in C : WaitsFor(t) \notin C

(* The library in whose name a namespace is entered is the first of the    *)
(* best rank among those that were loaded when the callers were collected  *)
(* (xdl_linker.c, xdl_linker_get_caller_addr_cb).                          *)
CallersBest ==
    inited["callers"] =>
        \E n \in 0 .. Len(loaded) : \A i \in DOMAIN Callers :
            LET fits == {k \in 1 .. n : Rank[i][loaded[k]] # 0}
            IN IF fits = {} THEN callers[i] = None
               ELSE \E k \in fits : /\ callers[i] = loaded[k]
                                     /\ \A m \in fits : \/ Rank[i][loaded[k]] < Rank[i][loaded[m]]
                                                        \/ Rank[i][loaded[k]] = Rank[i][loaded[m]] /\ k <= m

(* Every call into xDL returns, unless the linker's own table is zipped.   *)
CallsReturn == \A t \in Threads : ~ZippedLinker /\ stack[t] # <<>> ~> stack[t] = <<>>

(* The initialisations of xDL: well-typed states, each body runs once, no  *)
(* thread waits in a circle, and the callers collected are the best.       *)
LinkerInv == LinkerTypeOK /\ RunsOnce /\ NoCircularWait /\ CallersBest
=============================================================================
