---------------------------- MODULE MemoryCopies ----------------------------
(***************************************************************************)
(* Copies of whole ranges of memory: dumpMemToDisk and dumpMemFileToDisk,  *)
(* which work from a snapshot of the maps while other threads patch, and   *)
(* syscallMemOp, which copies through process_vm_readv and _writev.        *)
(***************************************************************************)
EXTENDS ProcessMemory

CONSTANTS
    DumpRanges,  \* pairs <<address, size>>
    DumpNames,   \* names given to dumpMemFileToDisk
    Empty,       \* the empty name
    CopyRanges   \* pairs <<address, len>> for syscallMemOp

(* syscallMemOp answers at once for no address or no length.               *)
ASSUME CopiesAssumption == DumpRanges \subseteq Nat \X Nat /\ CopyRanges \subseteq (Nat \ {0}) \X (Nat \ {0})

VARIABLES
    dump,  \* the dump in progress
    vm     \* the syscallMemOp in progress

copiesVars == <<dump, vm>>

NoDump == [at |-> "idle", address |-> 0, size |-> 0, todo |-> <<>>, maps |-> <<>>,
           out |-> <<>>, full |-> FALSE, named |-> FALSE, result |-> FALSE]
NoCopy == [at |-> "idle", need |-> "r", address |-> 0, len |-> 0, local |-> 0, remote |-> 0,
           remaining |-> 0, one |-> FALSE, done |-> 0, pairs |-> {}]

CopiesInit == dump = NoDump /\ vm = NoCopy

-----------------------------------------------------------------------------
Cells(m)   == [i \in 1 .. EndOf(m) - StartOf(m) |-> StartOf(m) + i - 1]

(* The maps a dump goes through: those that begin inside the range.        *)
MapsFrom(address, size) == MapsAt({p \in RunStarts : StartOf(MapAt(p)) \in address .. address + size - 1})

Dumping(address, size, named) ==
    /\ dump.at = "idle" /\ size > 0 /\ Mapped(PageOf(address))
    /\ LET ms == MapsFrom(address, size)
       IN dump' = [NoDump EXCEPT !.at = "next", !.address = address, !.size = size,
                                 !.todo = ms, !.maps = ms, !.named = named]
    /\ UNCHANGED <<vm, memoryVars>>

dumpMemToDisk(r) == Dumping(r[1], r[2], FALSE)

(* Maps of one file behind the first are joined as long as they follow it  *)
(* directly, if there are at least two of them.                            *)
Joined(ms, n) == \A k \in 2 .. n : ms[k].file = ms[1].file /\ StartOf(ms[k]) = EndOf(ms[k - 1])
FileEnd(ms) ==
    IF Len(ms) <= 2 THEN EndOf(ms[1])
    ELSE EndOf(ms[CHOOSE n \in DOMAIN ms : Joined(ms, n) /\ (n = Len(ms) \/ ~Joined(ms, n + 1))])

(* Only an empty name gets past the first check; every map ends with it.   *)
dumpMemFileToDisk(name) ==
    /\ name = Empty /\ getAllMaps # <<>>
    /\ LET first == getAllMaps[1] IN Dumping(StartOf(first), FileEnd(getAllMaps) - StartOf(first), TRUE)

Zeros(n)    == [i \in 1 .. n |-> 0]
Readable(a) == "r" \in prot[PageOf(a)]

(* KittyIOFile::Write of a map: up to the first byte that cannot be read.  *)
Written(m) ==
    LET cells == Cells(m)
        bad   == SelectInSeq(cells, LAMBDA a : ~Readable(a))
    IN [i \in 1 .. (IF bad = 0 THEN Len(cells) ELSE bad - 1) |-> mem[cells[i]]]

(* Mutant of Padded: what could not be read is left out of the file.       *)
PaddedNot(bytes, m) == bytes
Padded(bytes, m)    == bytes \o Zeros(Len(Cells(m)) - Len(bytes))

(* The file after more bytes; a disk that is full cuts them off.           *)
Appended(bytes) ==
    IF dump.full THEN {dump}
    ELSE {[dump EXCEPT !.out = @ \o bytes]}
         \cup {[dump EXCEPT !.out = @ \o SubSeq(bytes, 1, n), !.full = TRUE] : n \in {0, Len(bytes) - 1}}

(* The next map: one that cannot be read is made readable, or filled in    *)
(* with zeros if that is refused.                                          *)
DumpMap ==
    /\ dump.at = "next" /\ dump.todo # <<>> /\ fault = {}
    /\ LET m == Head(dump.todo) IN
         \/ /\ "r" \notin m.prot
            /\ memProtect(m.first .. m.last, m.prot \cup {"r"})
            /\ op' = Disturb(Nil, m.first .. m.last)
            /\ dump' = [dump EXCEPT !.at = "write"]
            /\ UNCHANGED <<mem, patch, fault, refused>>
         \/ /\ "r" \notin m.prot
            /\ \E d \in Appended(Zeros(Len(Cells(m)))) : dump' = [d EXCEPT !.todo = Tail(@)]
            /\ UNCHANGED memoryVars
         \/ "r" \in m.prot /\ dump' = [dump EXCEPT !.at = "write"] /\ UNCHANGED memoryVars
    /\ UNCHANGED vm

DumpWrite ==
    /\ dump.at = "write" /\ fault = {}
    /\ LET m == Head(dump.todo)
       IN \E d \in Appended(Padded(Written(m), m)) : dump' = [d EXCEPT !.at = "revert"]
    /\ UNCHANGED <<vm, memoryVars>>

Lifted(m) == "r" \notin m.prot

DumpRevert ==
    /\ dump.at = "revert" /\ fault = {}
    /\ LET m == Head(dump.todo) IN
         IF Lifted(m)
         THEN /\ memProtect(m.first .. m.last, m.prot)
              /\ op' = Disturb(Nil, m.first .. m.last)
              /\ UNCHANGED <<mem, patch, fault, refused>>
         ELSE UNCHANGED memoryVars
    /\ dump' = [dump EXCEPT !.at = "next", !.todo = Tail(@)]
    /\ UNCHANGED vm

DumpEnd ==
    /\ dump.at = "next" /\ dump.todo = <<>>
    /\ dump' = [dump EXCEPT !.at = "done", !.result = (Len(dump.out) = dump.size)]
    /\ UNCHANGED <<vm, memoryVars>>

-----------------------------------------------------------------------------
syscallMemOp(need, r) ==
    /\ vm.at = "idle"
    /\ vm' = [NoCopy EXCEPT !.at = "run", !.need = need, !.address = r[1], !.len = r[2],
                            !.remote = r[1], !.remaining = r[2]]
    /\ UNCHANGED <<dump, memoryVars>>

OnPage(a)    == PageSize - ((a - 1) % PageSize) \* KT_PAGE_LEN
Reachable(a) == Mapped(PageOf(a)) /\ vm.need \in prot[PageOf(a)]
Smaller(a, b) == IF a < b THEN a ELSE b
Wanted       == IF vm.one THEN Smaller(OnPage(vm.remote), vm.remaining) ELSE vm.remaining

(* What the kernel copies: all of it, or the part before the first page    *)
(* that it cannot reach, or it fails because there is such a page.         *)
Answers ==
    LET upto == {n \in 0 .. Wanted : \A i \in 0 .. n - 1 : Reachable(vm.remote + i)}
    IN IF Wanted \in upto THEN {Wanted} ELSE {0, Cardinality(upto) - 1}

(* Mutant of Skipped: the page still counts as remaining. *)
SkippedUncounted == [vm EXCEPT !.local = @ + Wanted, !.remote = @ + Wanted]
(* A page on its own that cannot be reached is skipped on both sides.      *)
Skipped == [vm EXCEPT !.remaining = @ - Wanted, !.local = @ + Wanted, !.remote = @ + Wanted]

OnePage(n) == n # Wanted

CopyStep ==
    /\ vm.at = "run"
    /\ \E n \in Answers :
         LET copied  == [vm EXCEPT !.remaining = @ - n, !.done = @ + n, !.local = @ + n, !.remote = @ + n,
                                   !.pairs = @ \cup {<<vm.local + i, vm.remote + i>> : i \in 0 .. n - 1}]
             moved   == IF n > 0 THEN copied ELSE IF vm.one THEN Skipped ELSE vm
         IN vm' = [moved EXCEPT !.one = OnePage(n), !.at = IF moved.remaining > 0 THEN "run" ELSE "done"]
    /\ UNCHANGED <<dump, memoryVars>>

DumpNext ==
    \/ \E r \in DumpRanges : dumpMemToDisk(r)
    \/ \E name \in DumpNames : dumpMemFileToDisk(name)
    \/ DumpMap \/ DumpWrite \/ DumpRevert \/ DumpEnd
SyscallNext == CopyStep \/ \E need \in {"r", "w"}, r \in CopyRanges : syscallMemOp(need, r)

-----------------------------------------------------------------------------
(* Seen from the maps of the moment the dump began, they follow one        *)
(* another from its first address.                                         *)
Contiguous ==
    /\ dump.maps # <<>> /\ StartOf(dump.maps[1]) = dump.address
    /\ \A i \in 1 .. Len(dump.maps) - 1 : EndOf(dump.maps[i]) = StartOf(dump.maps[i + 1])

(* What an address can hold: its original byte or one of a patch.          *)
Holds(a) == {Start[a], 0} \cup {Code[x][a - Site[x] + 1] : x \in {y \in Patches : a \in Extent(y)}}

(* Every byte of a dump of contiguous maps is at the offset of its         *)
(* address, whichever maps could not be read and whoever changed rights    *)
(* meanwhile; and while the disk is not full, success is reported just     *)
(* for ranges that end where a map ends (KittyMemory.cpp, dumpMemToDisk).  *)
DumpInPlace ==
    Contiguous =>
        /\ \A i \in DOMAIN dump.out : dump.out[i] \in Holds(dump.address + i - 1)
        /\ dump.at = "done" /\ ~dump.full =>
              (dump.result <=> EndOf(Last(dump.maps)) = dump.address + dump.size)

(* A dump that nobody disturbs leaves the rights of all pages as they were.*)
DumpReverts == dump.at = "done" /\ (\A x \in Patches : patch[x].last = Nil) => prot = Perms

(* A dump by name stays inside the mappings of one file, without a hole.   *)
DumpOfOneFile ==
    dump.named => \A a \in dump.address .. dump.address + dump.size - 1 :
                      Mapped(PageOf(a)) /\ Files[PageOf(a)] = Files[PageOf(dump.address)]

(* syscallMemOp copies every byte of the range that can be reached, each   *)
(* to the offset it has in the range, and counts it once.                  *)
CopiesReachable ==
    vm.at = "done" =>
        LET want == {i \in 0 .. vm.len - 1 : Reachable(vm.address + i)}
        IN vm.pairs = {<<i, vm.address + i>> : i \in want} /\ vm.done = Cardinality(want)

(* It ends: of two tries in a row the second one is on a single page if    *)
(* the first copied nothing, and that always brings the operation further. *)
CopyAdvances ==
    [][vm.at = "run" => vm'.remaining < vm.remaining \/ (~vm.one /\ vm'.one)]_vm

(* Dumps and copies over memory that is partly unreadable: bytes stay in   *)
(* place, rights are put back, a dump holds one file, and a copy stays     *)
(* with what is reachable.                                                 *)
CopiesInv == DumpInPlace /\ DumpReverts /\ DumpOfOneFile /\ CopiesReachable
=============================================================================
