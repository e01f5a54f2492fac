---------------------------- MODULE ProcessMemory ----------------------------
(***************************************************************************)
(* The memory of the process as KittyMemory changes it: memProtect,        *)
(* memRead and memWrite step by step, and the MemoryPatch and MemoryBackup *)
(* objects built on them.  Several threads patch at the same time; each    *)
(* object is used by one thread at a time.                                 *)
(***************************************************************************)
EXTENDS Integers, FiniteSets, SequencesExt

CONSTANTS
    PageCount, PageSize,
    Files,      \* [1 .. PageCount -> file or zygote area mapped there, Nil if nothing is]
    Perms,      \* [1 .. PageCount -> SUBSET {"r", "w", "x"}] when the process starts
    Patches,    \* MemoryPatch and MemoryBackup objects
    Site,       \* [Patches -> address]
    Code,       \* [Patches -> the new bytes]
    BackupOnly, \* those that are MemoryBackup objects: there is nothing to modify
    Unusual,    \* those whose hex or assembly may be rejected
    Threads,
    Nil

(* Bytes are numbers; a patch is not empty and lies in the address space;  *)
(* a page that can be written when the process starts can be read.         *)
ASSUME MemoryAssumption ==
    /\ PageCount \in Nat /\ PageSize \in Nat \ {0}
    /\ Perms \in [1 .. PageCount -> SUBSET {"r", "w", "x"}]
    /\ \A p \in 1 .. PageCount : "w" \in Perms[p] => "r" \in Perms[p]
    /\ Code \in [Patches -> Seq(Nat) \ {<<>>}] /\ Site \in [Patches -> Nat \ {0}]
    /\ \A x \in Patches : Site[x] + Len(Code[x]) - 1 <= PageCount * PageSize
    /\ Nil \notin Patches \cup Threads \cup {"created", "modified", "restored", "rejected"}

VARIABLES
    mem,     \* [Addresses -> byte]; 0 is what a fresh std::vector holds
    prot,    \* [Pages -> protection]
    patch,   \* [Patches -> [valid, orig, backed]]
    op,      \* [Threads -> the call in progress]
    fault,   \* threads killed by SIGSEGV; the process ends with the first
    refused  \* pages that an mprotect left writable because it failed

memoryVars == <<mem, prot, patch, op, fault, refused>>

Pages     == 1 .. PageCount
Addresses == 1 .. PageCount * PageSize
PageOf(a) == (a - 1) \div PageSize + 1
Mapped(p) == p \in Pages /\ Files[p] # Nil
RWX       == {"r", "w", "x"}
Extent(x)  == Site[x] .. Site[x] + Len(Code[x]) - 1
Idle      == [at |-> "idle", kind |-> Nil, patch |-> Nil, seen |-> {}, raced |-> FALSE, mixed |-> FALSE]
NoPatch   == [valid |-> FALSE, orig |-> <<>>, backed |-> FALSE, last |-> Nil]

MemoryTypeOK ==
    /\ prot \in [Pages -> SUBSET RWX]
    /\ \A x \in Patches : patch[x].valid => Len(patch[x].orig) = Len(Code[x])
    /\ \A t \in Threads : /\ op[t].at \in {"idle", "protect", "copy", "revert"}
                          /\ op[t].at # "idle" => op[t].patch \in Patches
    /\ fault \subseteq Threads

Start == [a \in Addresses |-> a]
MemoryInit ==
    /\ mem = Start /\ prot = Perms
    /\ patch = [x \in Patches |-> NoPatch]
    /\ op = [t \in Threads |-> Idle]
    /\ fault = {} /\ refused = {}

-----------------------------------------------------------------------------
(* /proc/self/maps: maximal runs of pages of one file with equal rights.   *)
Alike(p, q) == Files[p] = Files[q] /\ prot[p] = prot[q]
RunStarts   == {p \in Pages : Mapped(p) /\ (p = 1 \/ ~Alike(p - 1, p))}
RunEnd(i)   == CHOOSE j \in i .. PageCount : /\ \A p \in i .. j : Alike(p, i)
                                             /\ j = PageCount \/ ~Alike(j + 1, i)
MapAt(i)    == [first |-> i, last |-> RunEnd(i), file |-> Files[i], prot |-> prot[i]]
(* The elements of a set of numbers, in order.                             *)
Ascending(S) == CHOOSE s \in [1 .. Cardinality(S) -> S] : \A i, j \in DOMAIN s : i < j => s[i] < s[j]
MapsAt(S)   == LET starts == Ascending(S) IN [k \in DOMAIN starts |-> MapAt(starts[k])]
getAllMaps  == MapsAt(RunStarts)
StartOf(m) == (m.first - 1) * PageSize + 1
EndOf(m)   == m.last * PageSize + 1    \* the first address behind the map

(* KT_PAGE_START and KT_PAGE_LEN2: all pages that hold a byte of a range.  *)
PagesOf(a, n) == PageOf(a) .. PageOf(a + n - 1)

(* mprotect changes all pages or, if one is not mapped, fails; the kernel  *)
(* may refuse it for other reasons (SELinux, execmem).                     *)
memProtect(ps, rights) == prot' = [p \in Pages |-> IF p \in ps THEN rights ELSE prot[p]]
CanProtect(ps) == \A p \in ps : Mapped(p)

Touched(x)    == {PageOf(a) : a \in Extent(x)}
PatchPages(x) == PagesOf(Site[x], Len(Code[x]))
Read(x)       == [i \in DOMAIN Code[x] |-> mem[Site[x] + i - 1]]
Running(t)    == fault = {} /\ op[t].at # "idle"

(* Other calls in progress on pages whose protection t changed are marked. *)
Disturb(t, ps) ==
    [u \in Threads |-> IF u # t /\ op[u].at # "idle" /\ PatchPages(op[u].patch) \cap ps # {}
                       THEN [op[u] EXCEPT !.raced = TRUE] ELSE op[u]]

(* A created object is valid from now on, whatever memRead answered. *)
Finish(t) ==
    /\ op' = [op EXCEPT ![t] = Idle]
    /\ patch' = [patch EXCEPT ![op[t].patch].valid = TRUE]

(* getAddressMap: only the map of the first byte counts.  A call whose     *)
(* pages have different rights is marked.                                  *)
Lookup(t, k, x) ==
    LET seen == prot[PageOf(Site[x])] IN
    /\ fault = {} /\ op[t].at = "idle" /\ \A u \in Threads : op[u].patch # x
    /\ IF Mapped(PageOf(Site[x]))
       THEN op' = [op EXCEPT ![t] =
                [at |-> IF (IF k = "create" THEN "r" ELSE "w") \in seen THEN "copy" ELSE "protect",
                 kind |-> k, patch |-> x, seen |-> seen, raced |-> FALSE,
                 mixed |-> \E p \in Touched(x) : ~Mapped(p) \/ prot[p] # seen]]
       ELSE UNCHANGED op
    /\ UNCHANGED <<mem, prot, fault, refused>>

Sized(x) == [valid |-> FALSE, backed |-> FALSE, last |-> "created", orig |-> [i \in DOMAIN Code[x] |-> 0]]

(* createWithBytes, createWithHex, createWithAsm, createBackup: an object  *)
(* that was rejected is not valid; the answer of memRead is not looked at. *)
Create(t, x) ==
    /\ patch[x].last = Nil
    /\ \/ /\ Lookup(t, "create", x)
          /\ patch' = [patch EXCEPT ![x] = [Sized(x) EXCEPT !.valid = ~Mapped(PageOf(Site[x]))]]
       \/ /\ x \in Unusual /\ fault = {} /\ op[t].at = "idle"
          /\ patch' = [patch EXCEPT ![x].last = "rejected"]
          /\ UNCHANGED <<mem, prot, op, fault, refused>>

Modify(t, x)  == patch[x].valid /\ x \notin BackupOnly /\ Lookup(t, "modify", x) /\ UNCHANGED patch
Restore(t, x) == patch[x].valid /\ Lookup(t, "restore", x) /\ UNCHANGED patch

(* memRead adds the right to read, memWrite makes everything writable. *)
Protect(t) ==
    /\ Running(t) /\ op[t].at = "protect"
    /\ LET ps == PatchPages(op[t].patch) IN
         \/ /\ CanProtect(ps)
            /\ memProtect(ps, IF op[t].kind = "create" THEN op[t].seen \cup {"r"} ELSE RWX)
            /\ op' = [Disturb(t, ps) EXCEPT ![t].at = "copy"]
            /\ UNCHANGED patch
         \/ Finish(t) /\ UNCHANGED prot
    /\ UNCHANGED <<mem, fault, refused>>

Bytes(t) == IF op[t].kind = "modify" THEN Code[op[t].patch] ELSE patch[op[t].patch].orig

Need(t)    == IF op[t].kind = "create" THEN "r" ELSE "w"
Allowed(t) == \A p \in Touched(op[t].patch) : Mapped(p) /\ Need(t) \in prot[p]
Copied(t)  ==
    LET x == op[t].patch IN
    CASE op[t].kind = "create"  -> [patch[x] EXCEPT !.orig = Read(x), !.backed = TRUE]
      [] op[t].kind = "modify"  -> [patch[x] EXCEPT !.last = "modified"]
      [] op[t].kind = "restore" -> [patch[x] EXCEPT !.last = "restored"]

(* memcpy; afterwards either the call is over or the rights are reverted.  *)
Copy(t) ==
    /\ Running(t) /\ op[t].at = "copy"
    /\ LET x == op[t].patch  direct == Need(t) \in op[t].seen IN
         IF Allowed(t)
         THEN /\ mem' = IF op[t].kind = "create" THEN mem
                        ELSE [a \in Addresses |-> IF a \in Extent(x) THEN Bytes(t)[a - Site[x] + 1] ELSE mem[a]]
              /\ patch' = [patch EXCEPT ![x] = [Copied(t) EXCEPT !.valid = direct \/ @]]
              /\ op' = [op EXCEPT ![t] = IF direct THEN Idle ELSE [@ EXCEPT !.at = "revert"]]
              /\ UNCHANGED fault
         ELSE fault' = {t} /\ UNCHANGED <<mem, op, patch>>
    /\ UNCHANGED <<prot, refused>>

(* Mutant of Reverted: a write leaves the pages as it needed them. *)
RevertedNot(t) == IF op[t].kind = "create" THEN op[t].seen ELSE RWX

(* After a write the code is taken to be readable and executable.          *)
Reverted(t) == IF op[t].kind = "create" THEN op[t].seen ELSE {"r", "x"}

Revert(t) ==
    /\ Running(t) /\ op[t].at = "revert"
    /\ LET ps == PatchPages(op[t].patch) IN
         \/ /\ memProtect(ps, Reverted(t))
            /\ op' = [Disturb(t, ps) EXCEPT ![t] = Idle]
            /\ UNCHANGED refused
         \/ /\ op' = [op EXCEPT ![t] = Idle] /\ UNCHANGED prot
            /\ refused' = IF op[t].kind = "create" THEN refused ELSE refused \cup ps
    /\ patch' = [patch EXCEPT ![op[t].patch].valid = TRUE]
    /\ UNCHANGED <<mem, fault>>

Step(t) == Protect(t) \/ Copy(t) \/ Revert(t)

Calls(t, x) == Create(t, x) \/ Modify(t, x) \/ Restore(t, x)
MemoryNext  == \E t \in Threads : Step(t) \/ \E x \in Patches : Calls(t, x)

(* Somebody else grants or takes the right to read a page. *)
RightsChange ==
    /\ \E p \in Pages : Mapped(p) /\ memProtect({p}, IF "r" \in prot[p] THEN prot[p] \ {"r"} ELSE prot[p] \cup {"r"})
    /\ UNCHANGED <<mem, patch, op, fault, refused>>

-----------------------------------------------------------------------------
(* A thread faults in memRead or memWrite only if another call changed the *)
(* rights of one of its pages meanwhile, or if the pages it touches had    *)
(* different rights when it began (KittyMemory.cpp, memRead, memWrite).    *)
FaultsHaveCause == \A t \in fault : op[t].raced \/ op[t].mixed

(* Code that nobody is writing to is not writable, unless the kernel       *)
(* refused to take the right away again.                                   *)
CodeGuarded ==
    \A p \in Pages \ refused :
        "w" \in prot[p] /\ "w" \notin Perms[p] =>
            \E t \in Threads : op[t].kind \in {"modify", "restore"} /\ p \in PatchPages(op[t].patch)
                               /\ (op[t].at \in {"copy", "revert"} \/ t \in fault)

Overlaps(x) == \E y \in Patches \ {x} : Extent(x) \cap Extent(y) # {} /\ patch[y].last \notin {Nil, "rejected"}

(* As long as a patch whose backup was read does not overlap another, its  *)
(* bytes are in memory after Modify and the original ones after Restore,   *)
(* whatever other patches are doing on the same pages (MemoryPatch.hpp:77).*)
RestoreUndoes ==
    \A x \in Patches :
        patch[x].backed /\ ~Overlaps(x) =>
            Read(x) = IF patch[x].last = "modified" THEN Code[x] ELSE [i \in DOMAIN Code[x] |-> Start[Site[x] + i - 1]]

(* Patches of several threads: well-typed states, a fault has a cause      *)
(* outside of one call, code keeps its protection, and a restore undoes.   *)
MemoryInv == MemoryTypeOK /\ FaultsHaveCause /\ CodeGuarded /\ RestoreUndoes
=============================================================================
