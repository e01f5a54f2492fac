----------------------------- MODULE XdlHandles -----------------------------
(***************************************************************************)
(* Handles of xDL while the game loads and unloads libraries: xdl_find     *)
(* and the rules by which it compares names, xdl_open with its three       *)
(* flags, xdl_close, the cache of xdl_addr, what xdl_iterate_phdr reports, *)
(* and the table lib_links in which the application keeps the addresses of *)
(* libraries.  A walk over the linker's list is one step; the steps of an  *)
(* xdl_open that forces a library are separate.                            *)
(*                                                                         *)
(* A path is a sequence of the pieces that the comparisons can tell apart, *)
(* for example << "/", "app", "/", "lib", "il2cpp.so" >>.                  *)
(***************************************************************************)
EXTENDS Naturals, FiniteSets, SequencesExt

CONSTANTS
    Objects,   \* libraries that can be in the linker's list
    Linker,    \* the linker itself, known from the auxiliary vector
    Path,      \* the name under which the linker reports each
    Pages,     \* the addresses each occupies; those of different objects may overlap
    Zero,      \* those with a load bias of zero
    Filenames, \* names given to xdl_open
    Designates,\* the object dlopen loads for a name, or Nil
    LinkNames, \* those the application asks getLibraryAddress for
    Handles,   \* names for the handles that are open at a time
    MaxRefs,   \* bound on the references the game takes to one object
    Nil

(* A full path designates the library that the linker reports by it.       *)
ASSUME HandlesAssumption ==
    /\ Linker \in Objects /\ Nil \notin Objects /\ Zero \subseteq Objects
    /\ Designates \in [Filenames -> Objects \cup {Nil}]
    /\ \A f \in Filenames, o \in Objects :
          f[1] = "/" /\ Path[o] = f /\ Designates[f] # Nil => Designates[f] = o
    /\ IsFiniteSet(Handles) /\ MaxRefs \in Nat

VARIABLES
    linked,   \* the linker's list; the linker itself is in it from Android 8.1 on
    game,     \* references of the game to each object
    handle,   \* [Handles -> [at, name, object, holds]]
    returned, \* linker handles that xdl_close gave back and nobody closed yet
    cache,    \* the list behind xdl_addr's cache argument
    gone,     \* objects that were unloaded at some time
    links     \* lib_links

handlesVars == <<linked, game, handle, returned, cache, gone, links>>

Free      == [at |-> "free", name |-> <<>>, object |-> Nil, holds |-> Nil]
InList(o) == \E i \in DOMAIN linked : linked[i] = o
Held(o)   == Cardinality({h \in Handles : handle[h].holds = o})
             + Cardinality({h \in Handles : returned[h] = o})
Refs(o)   == game[o] + Held(o)

HandlesTypeOK ==
    /\ linked \in Seq(Objects) /\ IsInjective(linked)
    /\ game \in [Objects -> 0 .. MaxRefs]
    /\ \A h \in Handles : /\ handle[h].at \in {"free", "find", "force", "again", "open"}
                          /\ handle[h].object \in Objects \cup {Nil}
                          /\ handle[h].at = "open" <=> handle[h].object # Nil
                          /\ handle[h].holds \in Objects \cup {Nil}
                          /\ returned[h] \in Objects \cup {Nil}
    /\ cache \in Seq(Objects)

HandlesInit ==
    /\ linked \in {<<>>, <<Linker>>}
    /\ game = [o \in Objects |-> 0]
    /\ handle = [h \in Handles |-> Free] /\ returned = [h \in Handles |-> Nil]
    /\ cache = <<>> /\ gone = {}
    /\ links = [f \in {} |-> Nil]

-----------------------------------------------------------------------------
(* The members of sequence s that are in S, in their order. *)
Among(s, S) ==
    LET among[n \in 0 .. Len(s)] ==
            IF n = 0 THEN <<>> ELSE IF s[n] \in S THEN Append(among[n - 1], s[n]) ELSE among[n - 1]
    IN among[Len(s)]

(* The linker: an object stays in the list while somebody refers to it.    *)
Addresses == UNION {Pages[o] : o \in Objects}
Fits(o) == \A i \in DOMAIN linked : Pages[o] \cap Pages[linked[i]] = {}
Link(o) == linked' = IF InList(o) THEN linked ELSE Append(linked, o)
Drop(o) == IF Refs(o) > 1 THEN UNCHANGED <<linked, gone>>
           ELSE linked' = Among(linked, Objects \ {o}) /\ gone' = gone \cup {o}

GameLoads(o) ==
    /\ game[o] < MaxRefs /\ (InList(o) \/ Fits(o))
    /\ game' = [game EXCEPT ![o] = @ + 1] /\ Link(o)
    /\ UNCHANGED <<handle, returned, cache, gone, links>>

GameUnloads(o) ==
    /\ game[o] > 0
    /\ game' = [game EXCEPT ![o] = @ - 1] /\ Drop(o)
    /\ UNCHANGED <<handle, returned, cache, links>>

-----------------------------------------------------------------------------

(* What xdl_iterate_phdr calls back with: the linker first, from the       *)
(* auxiliary vector, then the list without it and without invalid ELFs.    *)
Reported == <<Linker>> \o Among(linked, {o \in Objects \ (Zero \cup {Linker}) : Path[o] # <<>>})

(* xdl_find_iterate_cb: the shorter spelling must end the longer one.      *)
NameMatches(f, p) ==
    IF f[1] = "[" \/ (f[1] = "/") = (p[1] = "/") THEN f = p
    ELSE IF f[1] = "/" THEN IsSuffix(p, f) ELSE IsSuffix(f, p)

(* xdl_find: the linker by its base name, or the first name that matches.  *)
xdl_find(f) ==
    IF IsSuffix(<<Last(Path[Linker])>>, f) THEN Linker
    ELSE LET i == SelectInSeq(Reported, LAMBDA o : o \notin Zero /\ NameMatches(f, Path[o]))
         IN IF i = 0 THEN Nil ELSE Reported[i]

OpenHandle(f, o, holds) == [at |-> "open", name |-> f, object |-> o, holds |-> holds]

(* xdl_open: without a flag, or with XDL_TRY_FORCE_LOAD, the name is       *)
(* looked for first; XDL_ALWAYS_FORCE_LOAD begins with dlopen.             *)
xdl_open(h, f, flags) ==
    /\ handle[h].at = "free" /\ returned[h] = Nil
    /\ IF flags # "always" /\ xdl_find(f) # Nil
       THEN handle' = [handle EXCEPT ![h] = OpenHandle(f, xdl_find(f), Nil)]
       ELSE /\ flags # "default"
            /\ handle' = [handle EXCEPT ![h] = [Free EXCEPT !.at = "force", !.name = f]]
    /\ UNCHANGED <<linked, game, returned, cache, gone, links>>

(* xdl_linker_force_dlopen; it may fail for reasons of its own.            *)
ForceLoad(h) ==
    /\ handle[h].at = "force"
    /\ LET o == Designates[handle[h].name] IN
         \/ /\ o # Nil /\ (InList(o) \/ Fits(o))
            /\ Link(o)
            /\ handle' = [handle EXCEPT ![h].at = "again", ![h].holds = o]
         \/ handle' = [handle EXCEPT ![h] = Free] /\ UNCHANGED linked
    /\ UNCHANGED <<game, returned, cache, gone, links>>

(* Mutant of NotFound: the library that dlopen gave is not closed again.   *)
NotFoundKept(h) ==
    handle' = [handle EXCEPT ![h] = Free] /\ UNCHANGED <<linked, gone, returned>>
NotFound(h) == handle' = [handle EXCEPT ![h] = Free] /\ Drop(handle[h].holds) /\ UNCHANGED returned

(* The second find decides whether the library is kept. *)
FindAgain(h) ==
    /\ handle[h].at = "again"
    /\ LET o == xdl_find(handle[h].name) IN
         IF o = Nil THEN NotFound(h)
         ELSE handle' = [handle EXCEPT ![h] = OpenHandle(@.name, o, @.holds)] /\ UNCHANGED <<linked, gone, returned>>
    /\ UNCHANGED <<game, cache, links>>

(* xdl_close hands back what dlopen returned, for the caller to close.     *)
xdl_close(h) ==
    /\ handle[h].at = "open"
    /\ handle' = [handle EXCEPT ![h] = Free]
    /\ returned' = [returned EXCEPT ![h] = handle[h].holds]
    /\ UNCHANGED <<linked, game, cache, gone, links>>

dlclose(h) ==
    /\ returned[h] # Nil
    /\ returned' = [returned EXCEPT ![h] = Nil] /\ Drop(returned[h])
    /\ UNCHANGED <<game, handle, cache, links>>

-----------------------------------------------------------------------------

(* xdl_elf_is_match along a list: the first object that holds address a.   *)
OwnerIn(s, a) == SelectInSeq(s, LAMBDA o : o \notin Zero /\ a \in Pages[o])

(* The library xdl_addr4 answers with: the cache is asked before the       *)
(* linker's list.                                                          *)
AddrAnswer(a) ==
    LET hit == OwnerIn(cache, a)  list == OwnerIn(Reported, a)
    IN IF hit # 0 THEN cache[hit] ELSE IF list # 0 THEN Reported[list] ELSE Nil

(* A library that the list answered with is remembered. *)
xdl_addr(a) ==
    /\ OwnerIn(cache, a) = 0 /\ AddrAnswer(a) # Nil
    /\ cache' = <<AddrAnswer(a)>> \o cache
    /\ UNCHANGED <<linked, game, handle, returned, gone, links>>

xdl_addr_clean ==
    /\ cache # <<>>
    /\ cache' = <<>>
    /\ UNCHANGED <<linked, game, handle, returned, gone, links>>

Remembered(f) == xdl_find(f) # Nil

(* getLibraryAddress: open, read the base, close, and keep the answer.     *)
getLibraryAddress(f) ==
    /\ f \notin DOMAIN links /\ Remembered(f)
    /\ links' = [g \in DOMAIN links \cup {f} |-> IF g = f THEN xdl_find(f) ELSE links[g]]
    /\ UNCHANGED <<linked, game, handle, returned, cache, gone>>

HandlesNext ==
    \/ \E o \in Objects \ {Linker} : GameLoads(o) \/ GameUnloads(o)
    \/ \E h \in Handles :
          \/ \E f \in Filenames, flags \in {"default", "try", "always"} : xdl_open(h, f, flags)
          \/ ForceLoad(h) \/ FindAgain(h) \/ xdl_close(h) \/ dlclose(h)
    \/ \E a \in Addresses : xdl_addr(a)
    \/ xdl_addr_clean
    \/ \E f \in LinkNames : getLibraryAddress(f)

-----------------------------------------------------------------------------
(* Whoever forced a library in can rely on it: an object that a handle, or *)
(* a linker handle not closed yet, refers to is in the linker's list; and  *)
(* a list entry that nobody refers to is not left behind (xdl.c,           *)
(* xdl_open_try_force, xdl_open_always_force, xdl_close).                  *)
HeldIsLinked == \A o \in Objects \ {Linker} : Refs(o) > 0 <=> InList(o)

(* A handle opened with force by a full path describes the library that it *)
(* keeps mapped; only a library the linker reports by a bare name that     *)
(* ends this path can be taken for it, and the linker itself.              *)
ForcedIsMapped ==
    \A h \in Handles :
        handle[h].at = "open" /\ handle[h].holds # Nil /\ handle[h].name[1] = "/" =>
            \/ handle[h].object = handle[h].holds /\ InList(handle[h].object)
            \/ IsStrictSuffix(Path[handle[h].object], handle[h].name)
            \/ handle[h].object = Linker

(* xdl_iterate_phdr reports every valid ELF once, the linker included.     *)
ReportedOnce ==
    /\ IsInjective(Reported)
    /\ ToSet(Reported) = {Linker} \cup {o \in ToSet(linked) \ Zero : Path[o] # <<>>}

(* xdl_addr answers with the reported library that holds the address now,  *)
(* as long as none in its cache was unloaded since it was put there.       *)
AddrAnswers ==
    ToSet(cache) \cap gone = {} =>
        \A a \in Addresses :
            LET holders == {o \in ToSet(Reported) : o \notin Zero /\ a \in Pages[o]}
            IN IF holders = {} THEN AddrAnswer(a) = Nil ELSE AddrAnswer(a) \in holders

(* What lib_links answers for a name is a library of that name, and it is  *)
(* loaded unless it was unloaded since (Utils.cpp, getLibraryAddress).     *)
LinksLoaded ==
    \A f \in DOMAIN links : /\ links[f] # Nil
                            /\ links[f] \in {Linker} \cup ToSet(linked) \cup gone

(* Handles and caches of xDL describe what the linker has loaded: what is  *)
(* held is linked, what was forced is mapped, a library is reported once,  *)
(* and the answers kept by address and in lib_links are about libraries    *)
(* that were there.                                                        *)
HandlesInv ==
    /\ HandlesTypeOK
    /\ HeldIsLinked
    /\ ForcedIsMapped
    /\ ReportedOnce
    /\ AddrAnswers
    /\ LinksLoaded
=============================================================================
