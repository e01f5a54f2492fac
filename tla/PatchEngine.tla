---------------------------- MODULE PatchEngine ----------------------------
(***************************************************************************)
(* The patch engine of Includes/Macros.h: the map pExpress, the wrapper    *)
(* DobbyPatchWrapper behind PATCH, RESTORE and PATCH_SWITCH, and the       *)
(* relative form PatchRelativeOffset behind rPATCH, rRESTORE and           *)
(* rPATCH_SWITCH, together with the address resolution of                  *)
(* Includes/Utils.cpp they call.                                           *)
(*                                                                         *)
(* The code of the target library is an array of instruction words.  A key *)
(* is the string "lib:offset" or "lib:symbol" that pExpress is indexed by; *)
(* what a key resolves to once the library is loaded is a constant.  The   *)
(* whole body of DobbyPatchWrapper runs under patch_mutex, so a call is    *)
(* one step.  A call that returns early without touching anything (null    *)
(* address, data that does not assemble) is not a step of the model.       *)
(***************************************************************************)
EXTENDS Integers, Sequences

CONSTANTS
    Keys,         \* "lib:spelling" strings given to the macros
    OffsetKeys,   \* those that str2offset reads as a non-zero offset
    Cells,        \* addresses of the instruction words of the library
    Words,        \* instruction words
    Stock,        \* the library's code as the linker mapped it
    Data,         \* hex or assembly texts given to the macros
    Code,         \* the words each text stands for; << >> if it does not assemble
    Resolve,      \* the address of a key in the loaded library, or NoAddr
    Spelling,     \* the key that the bytes of a word spell when read as a C string
    AddOffset,    \* what the relative macros add to a root: words, for each text
    NoAddr        \* the null pointer

ASSUME KeysAssumption     == OffsetKeys \subseteq Keys
ASSUME CellsAssumption    == Cells \subseteq Int /\ NoAddr \notin Cells
ASSUME StockAssumption    == Stock \in [Cells -> Words]
ASSUME CodeAssumption     == Code \in [Data -> Seq(Words)]
ASSUME ResolveAssumption  == /\ Resolve \in [Keys -> Cells \cup {NoAddr}]
                             /\ \A k \in OffsetKeys : Resolve[k] \in Cells
ASSUME SpellingAssumption == Spelling \in [Words -> Keys]

(***************************************************************************)
(* The cells that n words written at address a occupy, and the author's    *)
(* duty: the code of every patch lies inside the library.                  *)
(***************************************************************************)
Span(a, n) == a .. (a + n - 1)

ASSUME PatchFits == \A k \in Keys, d \in Data :
                        Resolve[k] # NoAddr => Span(Resolve[k], Len(Code[d])) \subseteq Cells

VARIABLES
    loaded,    \* the linker has the target library: xdl_open finds it
    mem,       \* the code of the library in memory
    express,   \* pExpress: the keys seen so far and their DobbyPatchInfo
    crashed    \* a wild pointer was read: the process is gone

vars == <<loaded, mem, express, crashed>>

DobbyPatchInfo ==
    [address : Cells, original_bytes : Seq(Words), patch_bytes : Seq(Words), applied : BOOLEAN]

TypeOK ==
    /\ loaded \in BOOLEAN
    /\ mem \in [Cells -> Words]
    /\ DOMAIN express \subseteq Keys
    /\ express \in [DOMAIN express -> DobbyPatchInfo]
    /\ crashed \in BOOLEAN

Init ==
    /\ loaded = FALSE
    /\ mem = Stock
    /\ express = [k \in {} |-> NoAddr]
    /\ crashed = FALSE

-----------------------------------------------------------------------------
(* Address resolution: null until the library is loaded. *)
getAbsoluteAddress(k) == IF loaded THEN Resolve[k] ELSE NoAddr

(* What DobbyCodePatch leaves in memory when it succeeds. *)
DobbyCodePatch(a, bytes) ==
    [c \in Cells |-> IF c \in Span(a, Len(bytes)) THEN bytes[c - a + 1] ELSE mem[c]]

(* A key is usable when it has an entry already, or when it resolves and   *)
(* the text given with it assembles; otherwise the wrapper returns.        *)
Usable(k, d) ==
    \/ k \in DOMAIN express
    \/ getAbsoluteAddress(k) # NoAddr /\ Len(Code[d]) > 0

(* A new entry records the bytes memory holds at this moment. *)
NewEntry(k, d) ==
    [address        |-> Resolve[k],
     original_bytes |-> [i \in 1 .. Len(Code[d]) |-> mem[Resolve[k] + i - 1]],
     patch_bytes    |-> Code[d],
     applied        |-> FALSE]

(* Mutants of EntryFor: the map is not looked up; the text of a later call *)
(* replaces the patch of the entry.                                        *)
EntryAlwaysNew(k, d) == NewEntry(k, d)
EntryRebound(k, d) ==
    IF k \in DOMAIN express THEN [express[k] EXCEPT !.patch_bytes = Code[d]] ELSE NewEntry(k, d)

(* The entry a call works on: the stored one, whatever text came with the  *)
(* call, or a new one.                                                     *)
EntryFor(k, d) == IF k \in DOMAIN express THEN express[k] ELSE NewEntry(k, d)

Store(k, e) ==
    express' = [x \in DOMAIN express \cup {k} |-> IF x = k THEN e ELSE express[x]]

(* apply = true and the code patch is written. *)
Apply(k, d) ==
    /\ Usable(k, d)
    /\ LET e == EntryFor(k, d) IN
         /\ ~e.applied
         /\ mem' = DobbyCodePatch(e.address, e.patch_bytes)
         /\ Store(k, [e EXCEPT !.applied = TRUE])
    /\ UNCHANGED <<loaded, crashed>>

(* Mutants of Restore: the flag is left set; the patch is written again. *)
RestoreKeepsFlag(k, d) ==
    /\ Usable(k, d)
    /\ LET e == EntryFor(k, d) IN
         /\ e.applied
         /\ mem' = DobbyCodePatch(e.address, e.original_bytes)
         /\ Store(k, e)
    /\ UNCHANGED <<loaded, crashed>>
RestoreWritesPatch(k, d) ==
    /\ Usable(k, d)
    /\ LET e == EntryFor(k, d) IN
         /\ e.applied
         /\ mem' = DobbyCodePatch(e.address, e.patch_bytes)
         /\ Store(k, [e EXCEPT !.applied = FALSE])
    /\ UNCHANGED <<loaded, crashed>>

(* apply = false and the original bytes are written back. *)
Restore(k, d) ==
    /\ Usable(k, d)
    /\ LET e == EntryFor(k, d) IN
         /\ e.applied
         /\ mem' = DobbyCodePatch(e.address, e.original_bytes)
         /\ Store(k, [e EXCEPT !.applied = FALSE])
    /\ UNCHANGED <<loaded, crashed>>

(* The call has nothing to write, or DobbyCodePatch reports an error: only *)
(* a new entry may remain of it.                                           *)
Record(k, d) ==
    /\ Usable(k, d)
    /\ Store(k, EntryFor(k, d))
    /\ UNCHANGED <<loaded, mem, crashed>>

(* Mutant of DobbyPatchWrapper: the entry is toggled, whatever the boolean. *)
WrapperToggles(k, d, apply) == Apply(k, d) \/ Restore(k, d) \/ Record(k, d)

DobbyPatchWrapper(k, d, apply) ==
    \/ apply /\ Apply(k, d)
    \/ ~apply /\ Restore(k, d)
    \/ Record(k, d)

(***************************************************************************)
(* The relative macros hand the wrapper an address where it expects a      *)
(* string.  For an offset root that is a pointer into the library's code,  *)
(* whose bytes become the name to look up.  For a symbol root it is        *)
(* symbol - base (or 0 - base when the symbol is missing), a wild pointer  *)
(* that building the key reads.                                            *)
(***************************************************************************)
RelativeToOffset(root, add, d, apply) ==
    /\ loaded
    /\ root \in OffsetKeys
    /\ Resolve[root] + AddOffset[add] \in Cells
    /\ DobbyPatchWrapper(Spelling[mem[Resolve[root] + AddOffset[add]]], d, apply)

RelativeToSymbol(root) ==
    /\ loaded
    /\ root \notin OffsetKeys
    /\ crashed' = TRUE
    /\ UNCHANGED <<loaded, mem, express>>

PatchRelativeOffset(root, add, d, apply) ==
    \/ RelativeToOffset(root, add, d, apply)
    \/ RelativeToSymbol(root)

-----------------------------------------------------------------------------
(* The linker maps the target library, once. *)
LoadLibrary ==
    /\ ~loaded
    /\ loaded' = TRUE
    /\ UNCHANGED <<mem, express, crashed>>

Next ==
    /\ ~crashed
    /\ \/ LoadLibrary
       \/ \E k \in Keys, d \in Data, apply \in BOOLEAN :
             \/ DobbyPatchWrapper(k, d, apply)
             \/ \E add \in DOMAIN AddOffset : PatchRelativeOffset(k, add, d, apply)

Spec == Init /\ [][Next]_vars
-----------------------------------------------------------------------------
(* No two keys patch a common cell, whatever text is used with them. *)
Separate ==
    \A k1, k2 \in Keys : \A d1, d2 \in Data :
        k1 # k2 /\ Resolve[k1] # NoAddr /\ Resolve[k2] # NoAddr =>
            Span(Resolve[k1], Len(Code[d1])) \cap Span(Resolve[k2], Len(Code[d2])) = {}

(***************************************************************************)
(* What DobbyPatchWrapper records as original_bytes (Macros.h:157-158) is  *)
(* the library's own code, so that RESTORE puts the game back as it was.   *)
(* The bytes are read from live memory at the first use of the key, which  *)
(* may be while other patches are applied or after some code patch failed. *)
(***************************************************************************)
OriginalIsStock ==
    \A k \in DOMAIN express : \A i \in 1 .. Len(express[k].original_bytes) :
        express[k].original_bytes[i] = Stock[express[k].address + i - 1]

(* The map of patches: well typed, and with the library's own code in it. *)
EngineInv == TypeOK /\ OriginalIsStock

(***************************************************************************)
(* The applied flags of pExpress are the truth about memory: an applied    *)
(* entry's patch is in place in full, and a cell no applied entry covers   *)
(* holds stock code, after any sequence of calls and failures.             *)
(***************************************************************************)
Covered(k) == Span(express[k].address, Len(express[k].patch_bytes))

PatchInPlace ==
    \A k \in DOMAIN express : express[k].applied =>
        \A i \in 1 .. Len(express[k].patch_bytes) :
            mem[express[k].address + i - 1] = express[k].patch_bytes[i]

RestIsStock ==
    \A c \in Cells :
        (\A k \in DOMAIN express : express[k].applied => c \notin Covered(k)) => mem[c] = Stock[c]

FlagsTellMemory == PatchInPlace /\ RestIsStock

(***************************************************************************)
(* Keys that do not share cells are independent switches: the engine       *)
(* implements PatchSwitch.                                                 *)
(***************************************************************************)
Switches == INSTANCE PatchSwitch WITH
                Patches <- {Code[d] : d \in Data},
                Address <- Resolve,
                patch   <- [k \in DOMAIN express |-> express[k].patch_bytes],
                on      <- {k \in DOMAIN express : express[k].applied},
                image   <- mem

ImplementsSwitches == Switches!SwitchSpec
=============================================================================
