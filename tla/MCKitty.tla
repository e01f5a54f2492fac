------------------------------- MODULE MCKitty -------------------------------
(***************************************************************************)
(* The tools of KittyMemory in one run.  A behaviour is about one topic:   *)
(* patches of several threads, a dump while a thread patches, a copy       *)
(* through system calls, checks of pointers, files, directories, searches  *)
(* for bytes, archives, images of libraries, the list of all images, or    *)
(* the linker's records.                                                   *)
(***************************************************************************)
EXTENDS MemoryCopies, PtrValidator, KittyScan, ZipIndex, ElfImage, ElfFinder, SoInfoScan

CONSTANTS libfile, one, two, out, t1, t2
VARIABLE topic
allVars == <<topic, memoryVars, copiesVars, validatorVars, fileVars, query, zip, elfVars, finderVars, scanVars>>
BesidesElf == <<memoryVars, copiesVars, validatorVars, fileVars, query, zip>>
Init ==
    /\ topic \in {"patch", "dump", "vm", "ptr", "io", "list", "scan", "zip", "elf", "all", "soinfo"}
    /\ MemoryInit /\ CopiesInit /\ ValidatorInit /\ FileInit /\ ScanInit /\ ZipInit
    /\ ElfInit /\ FinderInit /\ SoInfoInit
    /\ topic # "io" => source = 0
    /\ topic # "soinfo" => \A k \in Records : free[k] = 0
Tools ==
    \/ /\ UNCHANGED <<validatorVars, fileVars, query, zip>>
       /\ \/ topic = "patch" /\ MemoryNext /\ UNCHANGED copiesVars
          \/ topic = "dump" /\ DumpNext
          \/ topic = "dump" /\ UNCHANGED copiesVars /\ (Step(t1) \/ Calls(t1, one))
          \/ topic = "vm" /\ SyscallNext
          \/ topic = "vm" /\ vm.at = "idle" /\ UNCHANGED copiesVars /\ RightsChange
    \/ topic = "ptr" /\ ValidatorNext /\ UNCHANGED <<copiesVars, fileVars, query, zip>>
    \/ /\ UNCHANGED <<memoryVars, copiesVars, validatorVars>>
       /\ \/ topic = "io" /\ IONext /\ UNCHANGED <<query, zip>>
          \/ topic = "list" /\ WalkNext /\ UNCHANGED <<query, zip>>
          \/ topic = "scan" /\ ScanNext /\ UNCHANGED <<fileVars, zip>>
          \/ topic = "zip" /\ ReadArchive /\ UNCHANGED <<fileVars, query>>
Next ==
    /\ UNCHANGED topic
    /\ \/ Tools /\ UNCHANGED <<elfVars, finderVars, scanVars>>
       \/ /\ UNCHANGED BesidesElf
          /\ \/ topic = "elf" /\ ElfNext /\ UNCHANGED <<finderVars, scanVars>>
             \/ topic = "all" /\ FinderNext /\ UNCHANGED <<elfVars, scanVars>>
             \/ topic = "soinfo" /\ SoInfoNext /\ UNCHANGED <<elfVars, finderVars>>
Spec == Init /\ [][Next]_allVars

MCFiles == <<libfile, libfile, Nil, libfile>>
MCPerms == <<{"x"}, {"x"}, {}, {"r", "w"}>>
MCPatches == {one, two, out}
MCSite == [x \in MCPatches |-> CASE x = one -> 2 [] x = two -> 4 [] x = out -> 5]
MCCode == [x \in MCPatches |-> CASE x = one -> <<21, 22>> [] x = two -> <<23>> [] x = out -> <<24>>]
MCDumpRanges == {<<1, 4>>, <<1, 3>>, <<3, 4>>, <<1, 8>>}
MCCopyRanges == {<<1, 4>>, <<2, 5>>, <<4, 2>>, <<2, 7>>}

MCElsewhere == {-1, 0, 3}
CONSTANTS top, sub, f1, f2, f3
MCEntries == [d \in {top, sub} |->
    IF d = top THEN <<[kind |-> "file", name |-> f1, hidden |-> FALSE], [kind |-> "dir", name |-> sub, hidden |-> FALSE],
                      [kind |-> "dir", name |-> top, hidden |-> TRUE], [kind |-> "file", name |-> f3, hidden |-> FALSE]>>
    ELSE <<[kind |-> "link", name |-> top, hidden |-> FALSE], [kind |-> "file", name |-> f2, hidden |-> FALSE],
           [kind |-> "file", name |-> f1, hidden |-> TRUE]>>]

MCPlaces == 1 .. 3
Build(path, inode, build, area, machine, dynamic, segments, sound) ==
    [path |-> path, inode |-> inode, build |-> build, area |-> area, machine |-> machine,
     dynamic |-> dynamic, segments |-> segments, sound |-> sound]
Game == Build("game", 3, 1, "app", "own", TRUE, 2, TRUE)
Libc == Build("libc", 4, 1, "system", "own", TRUE, 1, TRUE)
MCBuilds ==
    {Game, Libc, Build("game", 3, 2, "app", "own", FALSE, 3, TRUE), Build("libc", 6, 1, "system", "other", TRUE, 3, TRUE),
     Build("font", 5, 1, "data", "own", FALSE, 1, FALSE), Build("dex", 7, 1, "app", "own", FALSE, 1, FALSE),
     Build("vdso", 0, 1, "none", "own", TRUE, 1, TRUE)}
MCLoaded0 == [p \in MCPlaces |-> CASE p = 1 -> Game [] p = 2 -> Libc [] OTHER -> NoLib]

MCLayout == <<"phdr", "phnum", "free", "base", "size", "dyn", "next", "free", "strtab", "symtab",
              "bias", "dyn", "bias", "strsz">>
MCRecords == 1 .. 4
MCLibraryOf == [k \in MCRecords |->
    [base |-> 100 * k, size |-> IF k = 1 THEN 61 ELSE 50 + k, phdr |-> 100 * k + 2, phnum |-> IF k = 4 THEN 9 ELSE 7 + k,
     dyn |-> 100 * k + 20, strtab |-> 100 * k + 5, symtab |-> 100 * k + 8, strsz |-> 20 + k,
     bias |-> IF k \in {2, 4} THEN 100 * k ELSE 100 * k - 10]]
=============================================================================
