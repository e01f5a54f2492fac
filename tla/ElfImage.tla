------------------------------ MODULE ElfImage ------------------------------
(***************************************************************************)
(* ElfScanner: the image of a loaded library, read from its header in      *)
(* memory or from the record that the linker keeps of it, and the symbols  *)
(* that are read from its file.  A library has a text segment with the     *)
(* header, and a data segment with the dynamic table and zeroed pages      *)
(* (.bss) behind it; other libraries are mapped on both sides.  A header   *)
(* or an entry of the dynamic table takes one cell.                        *)
(***************************************************************************)
EXTENDS Integers, FiniteSets, SequencesExt

CONSTANTS
    PageLen,    \* cells of a page
    ElfBase,    \* where the library is loaded: a multiple of PageLen
    LinkedAt,   \* where libraries may be linked: low, or where they are loaded
    MemSizes,   \* sizes of the data segment in memory, of which the file has 6
    SymbolNames \* names in the symbol table of a file

(* Libraries are mapped page by page, and what one of them points to before *)
(* it is loaded lies below its bias, by which the code tells such pointers. *)
ASSUME ImageAssumption ==
    /\ PageLen = 2 /\ ElfBase \in Nat /\ ElfBase % PageLen = 0 /\ ElfBase > 20
    /\ \A a \in LinkedAt : a \in Nat /\ a % PageLen = 0 /\ (a = ElfBase \/ 2 * a + 5 < ElfBase)
    /\ \A n \in MemSizes : n \in Nat /\ n >= 6

VARIABLES scans,  \* a library, the linker's record of it, and the scans of both
          debug   \* dsymbols: the file being read, and _dsymbolsMap

elfVars == <<scans, debug>>
NoImage == [at |-> "none"]
NoDebug == [at |-> "idle", init |-> FALSE, fd |-> FALSE, mapped |-> FALSE, read |-> FALSE, found |-> {}]
ElfInit == scans = NoImage /\ debug = NoDebug

KT_PAGE_START(x) == x - (x % PageLen)
KT_PAGE_END(x)   == KT_PAGE_START(x + PageLen - 1)

-----------------------------------------------------------------------------
(* What the loader makes of a library: its program headers, its maps and   *)
(* those of its neighbours, its dynamic table, and the linker's record.    *)
Programs(lib) ==
    <<[type |-> "load", vaddr |-> lib.min, filesz |-> 6, memsz |-> 6],
      [type |-> "load", vaddr |-> lib.min + 8, filesz |-> 6, memsz |-> lib.memsz],
      [type |-> "dynamic", vaddr |-> lib.min + 8, filesz |-> 6, memsz |-> 6]>>

Map(start, len, prot, inode, bss) ==
    [start |-> start, end |-> start + len, prot |-> prot, inode |-> inode, bss |-> bss]
MapsOf(lib) ==
    LET file == IF lib.backed THEN "lib" ELSE "anon"
        data == IF lib.dynReadable THEN {"r", "w"} ELSE {"w"}
        zero == KT_PAGE_END(lib.memsz) - 6
    IN <<Map(ElfBase - 4, 4, {"r"}, "before", FALSE),
         Map(ElfBase, 6, {"r", "x"}, file, FALSE), Map(ElfBase + 6, 2, {}, "anon", FALSE),
         Map(ElfBase + 8, 6, data, file, FALSE)>>
       \o (IF zero > 0 THEN <<Map(ElfBase + 14, zero, {"r", "w"}, "anon", lib.named)>> ELSE <<>>)
       \o <<Map(ElfBase + 14 + zero, 2, {"r"}, "behind", FALSE)>>

BiasOf(lib) == ElfBase - lib.min
Pointer(lib, cell) == lib.min + cell + (IF lib.absolute THEN BiasOf(lib) ELSE 0)
Dynamic(lib) ==
    LET entry(tag, value) == [tag |-> tag, value |-> value]
    IN <<entry("strtab", IF lib.damage = "table" THEN 19 ELSE Pointer(lib, 3)), entry("symtab", Pointer(lib, 4)),
         entry("strsz", 2)>>
       \o (IF "gnu" \in lib.hashes THEN <<entry("gnu", Pointer(lib, 5))>> ELSE <<>>)
       \o (IF "sysv" \in lib.hashes THEN <<entry("sysv", Pointer(lib, 2))>> ELSE <<>>)
       \o <<entry("null", 0), entry("strtab", 77)>>

(* infoFromSoInfo_ of a library; the fields can be wrong: an emulator's    *)
(* linker has no bias that can be used, a library being linked no table.   *)
SoInfo(lib) ==
    [base |-> IF lib.record = "linker" THEN 0 ELSE ElfBase, phdr |-> ElfBase + 1, phnum |-> 3,
     size |-> KT_PAGE_END(8 + lib.memsz),
     bias |-> CASE lib.record = "bias" -> ElfBase - 4 [] lib.record = "linker" -> BiasOf(lib) + lib.min
                [] OTHER -> BiasOf(lib),
     dyn |-> IF lib.record = "dyn" THEN ElfBase - 3 ELSE ElfBase + 8,
     strtab |-> ElfBase + 3, symtab |-> IF lib.record = "early" THEN 0 ELSE ElfBase + 4, strsz |-> 2]

-----------------------------------------------------------------------------
(* getAddressMap: NoMap if nothing is mapped there. *)
NoMap == Map(0, 0, {}, "none", FALSE)
MapOf(lib, a) ==
    LET maps == MapsOf(lib)
        i    == SelectInSeq(maps, LAMBDA m : m.start <= a /\ a < m.end)
    IN IF i = 0 THEN NoMap ELSE maps[i]
CanRead(lib, a) == "r" \in MapOf(lib, a).prot

NoScan == [base |-> 0, phdr |-> 0, bias |-> 0, size |-> 0, loads |-> 0, segments |-> <<>>, bss |-> <<>>,
           dynamic |-> 0, strtab |-> 0, symtab |-> 0, strsz |-> 0, gnu |-> 0, sysv |-> 0]
isValid(s) == s.base # 0 /\ s.size # 0 /\ s.phdr # 0 /\ s.bias # 0

SpanEnd(loads)   == KT_PAGE_END(Max({l.vaddr + l.memsz : l \in loads}))
SpanStart(loads) == KT_PAGE_START(Min({l.vaddr : l \in loads}))

InImage(m, s) == m.start >= s.base /\ m.end <= s.base + s.size

(* Those elements of a list that pass a test, in their order: the k-th of  *)
(* them has k - 1 before it.                                               *)
Pick(list, keep) ==
    [k \in 1 .. Cardinality(keep) |-> list[CHOOSE i \in keep : Cardinality({j \in keep : j < i}) = k - 1]]
Those(list, Test(_)) == Pick(list, {i \in DOMAIN list : Test(list[i])})

(* The maps that lie in the image, up to the first one that reaches its    *)
(* end.                                                                    *)
Segments(lib, s) ==
    LET maps == MapsOf(lib)
        past == SelectInSeq(maps, LAMBDA m : m.end >= s.base + s.size)
    IN Those(IF past = 0 THEN maps ELSE SubSeq(maps, 1, past), LAMBDA m : InImage(m, s))

Zeroed(load, bias) ==
    KT_PAGE_END(load.vaddr + bias + load.filesz) .. KT_PAGE_END(load.vaddr + bias + load.memsz) - 1

Bss(lib, s, last) ==
    Those(Segments(lib, s), LAMBDA m :
        /\ "r" \in m.prot /\ "x" \notin m.prot
        /\ \/ m.bss
           \/ MapOf(lib, s.base).inode # "anon" /\ m.inode = "anon"
           \/ m.start .. m.end - 1 \subseteq Zeroed(last, s.bias))

fix_table_address(lib, bias, a) ==
    LET fixed == IF a # 0 /\ a < bias THEN a + bias ELSE a
    IN IF CanRead(lib, fixed) THEN fixed ELSE 0

Table(lib) == SubSeq(Dynamic(lib), 1, SelectInSeq(Dynamic(lib), LAMBDA e : e.tag = "null") - 1)

(* The value of a tag: the last one counts, 0 if there is none. *)
ValueOf(table, tag) ==
    LET places == {i \in DOMAIN table : table[i].tag = tag}
    IN IF places = {} THEN 0 ELSE table[Max(places)].value

-----------------------------------------------------------------------------
(* ElfScanner(elfBase, maps): the header is checked; phdrs that cannot be  *)
(* read are left out.                                                      *)
HeaderSound(lib) ==
    LET m == MapOf(lib, ElfBase)
    IN /\ "r" \in m.prot /\ m.start = ElfBase
       /\ lib.damage \notin {"magic", "phoff"}   \* e_ident or e_type; e_phoff, e_phnum or e_phentsize
       /\ CanRead(lib, ElfBase + 1)

LoadsOf(lib, table, n) ==
    LET read == Those([i \in 1 .. n |-> i], LAMBDA i : CanRead(lib, table + i - 1))
    IN Those([k \in DOMAIN read |-> Programs(lib)[read[k]]], LAMBDA p : p.type = "load")

ScanLoads(lib) ==
    LET loads == LoadsOf(lib, ElfBase + 1, 3)
        span  == [NoScan EXCEPT !.base = ElfBase, !.phdr = ElfBase + 1, !.loads = Len(loads),
                                !.bias = ElfBase - SpanStart(ToSet(loads)),
                                !.size = SpanEnd(ToSet(loads)) - SpanStart(ToSet(loads))]
    IN [span EXCEPT !.segments = Segments(lib, span), !.bss = Bss(lib, span, Last(loads))]

ScanTables(lib, s) ==
    LET at    == s.bias + Programs(lib)[3].vaddr
        ok    == CanRead(lib, at) /\ CanRead(lib, at + Programs(lib)[3].memsz - 1)
        table == IF ok THEN Table(lib) ELSE <<>>
        fixed(tag) == fix_table_address(lib, s.bias, ValueOf(table, tag))
    IN [s EXCEPT !.dynamic = IF ok THEN at ELSE 0, !.strsz = ValueOf(table, "strsz"),
                 !.strtab = fixed("strtab"), !.symtab = fixed("symtab"), !.gnu = fixed("gnu"), !.sysv = fixed("sysv")]

FromBase(lib) == IF HeaderSound(lib) THEN ScanTables(lib, ScanLoads(lib)) ELSE NoScan

-----------------------------------------------------------------------------
(* ElfScanner(soinfo, maps): nothing is taken from the header in memory.   *)
(* For the linker, of which the record knows little, the base is looked    *)
(* for; the program headers it would need are never read.                  *)
Complete(lib, si) ==
    lib.record = "linker" \/ 0 \notin {si.base, si.size, si.bias, si.phdr, si.dyn, si.strtab, si.symtab}

SoBase(lib, si) ==
    IF si.base # 0 THEN si.base
    ELSE FoldLeft(LAMBDA b, a : IF b # 0 THEN b ELSE MapOf(lib, a).start, 0,
                  <<si.bias, si.phdr, si.dyn, si.symtab, si.strtab>>)

(* Phdr, dynamic table and bias have to lie in maps of the image; a bias   *)
(* that does not is computed again.                                        *)
MapInImage(m, base, size) == "r" \in m.prot /\ m.start >= base /\ m.end <= base + size
SoHeader(lib, si) ==
    LET base == SoBase(lib, si)
        m    == MapOf(lib, base)
    IN IF /\ "r" \in m.prot /\ base = m.start
          /\ MapInImage(MapOf(lib, si.phdr), base, si.size)
          /\ lib.record = "linker" \/ MapInImage(MapOf(lib, si.dyn), base, si.size)
       THEN [NoScan EXCEPT !.base = base, !.phdr = si.phdr, !.size = si.size,
                           !.bias = IF MapInImage(MapOf(lib, si.bias), base, si.size) THEN si.bias ELSE 0]
       ELSE NoScan

(* Mutant of SoBias: a bias that was refused stays 0.                      *)
SoBiasKept(s, loads) == s.bias
SoBias(s, loads) == IF s.bias = 0 THEN s.base - SpanStart(ToSet(loads)) ELSE s.bias

SoLoads(lib, si, s) ==
    LET loads == IF lib.record = "linker" THEN <<>> ELSE LoadsOf(lib, si.phdr, si.phnum)
        span  == [s EXCEPT !.loads = Len(loads), !.bias = SoBias(s, loads)]
    IN IF s = NoScan \/ loads = <<>> THEN NoScan
       ELSE [span EXCEPT !.segments = Segments(lib, span), !.bss = Bss(lib, span, Last(loads))]

(* Tables that the record has are kept, others come from the dynamic       *)
(* table; the address of the System V table is never made absolute.        *)
SoTables(lib, si, s) ==
    LET ok    == CanRead(lib, si.dyn) /\ CanRead(lib, si.dyn + Programs(lib)[3].memsz - 1)
        table == IF ok THEN Table(lib) ELSE <<>>
        own(value, tag) == IF value = 0 THEN ValueOf(table, tag) ELSE value
    IN [s EXCEPT !.dynamic = si.dyn, !.strsz = own(si.strsz, "strsz"), !.sysv = ValueOf(table, "sysv"),
                 !.gnu = fix_table_address(lib, s.bias, ValueOf(table, "gnu")),
                 !.strtab = fix_table_address(lib, s.bias, own(si.strtab, "strtab")),
                 !.symtab = fix_table_address(lib, s.bias, own(si.symtab, "symtab"))]

FromSoInfo(lib) ==
    LET si == SoInfo(lib)
        s  == IF Complete(lib, si) THEN SoLoads(lib, si, SoHeader(lib, si)) ELSE NoScan
    IN IF s = NoScan THEN NoScan ELSE SoTables(lib, si, s)

Layouts ==
    [min : LinkedAt, memsz : MemSizes, backed : BOOLEAN, named : BOOLEAN, absolute : BOOLEAN,
     hashes : SUBSET {"gnu", "sysv"}, dynReadable : BOOLEAN, damage : {"none", "magic", "phoff", "table"},
     record : {"honest", "bias", "dyn", "early", "linker"}]

Libraries == {lib \in Layouts : lib.backed \/ lib.named}  \* the kernel joins maps that nothing tells apart

Scan ==
    /\ scans = NoImage /\ debug = NoDebug
    /\ \E lib \in Libraries :
           scans' = [at |-> "scanned", lib |-> lib, base |-> FromBase(lib), so |-> FromSoInfo(lib)]
    /\ UNCHANGED debug

-----------------------------------------------------------------------------
(* dsymbols: the file is read once, whatever comes of it.                  *)
SymbolRecord == [name : SymbolNames, type : {"func", "object", "tls"}, value : {-1, 0, 3}, size : {0, 1}]

OpenDebug ==
    /\ scans = NoImage /\ debug.at = "idle" /\ ~debug.init
    /\ \/ debug' = [debug EXCEPT !.init = TRUE, !.at = "opened", !.fd = TRUE]
       \/ debug' = [debug EXCEPT !.init = TRUE]
    /\ UNCHANGED scans

(* fstat and mmap, each of which may fail; the descriptor is closed.       *)
MapDebug ==
    /\ debug.at = "opened"
    /\ \E ok \in BOOLEAN :
           debug' = [debug EXCEPT !.at = IF ok THEN "mapped" ELSE "idle", !.fd = FALSE, !.mapped = ok]
    /\ UNCHANGED scans

WantedSymbol(sym) == sym.value > 0 /\ sym.size > 0 /\ sym.type \in {"func", "object"}

Unmapped(d) == [d EXCEPT !.mapped = FALSE]

(* A file with a bad header has no symbols, nor has a section that is not  *)
(* inside the file.                                                        *)
SymbolTables == {<<>>} \cup {<<s, t>> : s \in SymbolRecord, t \in SymbolRecord}

(* Of two symbols of a name the later one stays. *)
FoundIn(syms) ==
    LET wanted == {i \in DOMAIN syms : WantedSymbol(syms[i])}
        last   == {i \in wanted : \A j \in wanted : syms[j].name = syms[i].name => j <= i}
    IN {[name |-> syms[i].name, value |-> syms[i].value, type |-> syms[i].type] : i \in last}

ReadDebug ==
    /\ debug.at = "mapped"
    /\ \E syms \in SymbolTables :
           debug' = [Unmapped(debug) EXCEPT !.at = "idle", !.read = TRUE, !.found = FoundIn(syms)]
    /\ UNCHANGED scans

ElfNext == Scan \/ OpenDebug \/ MapDebug \/ ReadDebug

-----------------------------------------------------------------------------
Own(lib) == {m \in ToSet(MapsOf(lib)) : m.inode \notin {"before", "behind"}}

(* The two constructors, written apart, see one library: whatever happened *)
(* to its header in memory after it was linked, and though the record has  *)
(* a bias that cannot be used, the record gives the image that the intact  *)
(* header would have given, but for the System V table.                    *)
ScansAgree ==
    scans.at = "scanned" =>
        LET intact == FromBase([scans.lib EXCEPT !.damage = IF @ = "table" THEN @ ELSE "none"])
        IN /\ scans.lib.record = "honest" /\ scans.lib.dynReadable => isValid(scans.so) = isValid(intact)
           /\ isValid(scans.so) => [scans.so EXCEPT !.sysv = 0, !.strtab = 0] = [intact EXCEPT !.sysv = 0, !.strtab = 0]
           /\ isValid(scans.so) /\ scans.lib.damage # "table" => scans.so.strtab = intact.strtab

(* A valid image is the whole library and nothing of its neighbours: its   *)
(* segments are the library's maps in order.                               *)
ImageIsWhole ==
    scans.at = "scanned" => \A s \in {scans.base, scans.so} :
        isValid(s) => /\ ToSet(s.segments) = Own(scans.lib) /\ s.segments[1].start = s.base
                      /\ \A i \in 2 .. Len(s.segments) : s.segments[i - 1].end = s.segments[i].start
                      /\ s.base + s.size = Last(s.segments).end

(* A table that a scan hands to the symbol look-ups can be read, whatever  *)
(* the dynamic table says, and lies in the image unless that is damaged.   *)
TablesReadable ==
    scans.at = "scanned" =>
        \A a \in {scans.base.strtab, scans.base.symtab, scans.base.gnu, scans.base.sysv,
                  scans.so.strtab, scans.so.symtab, scans.so.gnu} \ {0} :
            /\ CanRead(scans.lib, a)
            /\ scans.lib.damage # "table" => \E m \in Own(scans.lib) : m.start <= a /\ a < m.end

(* The zeroed pages are those that no page of the file lies under: all of  *)
(* them for a library from a file or with named pages, and never another.  *)
BssIsUnbacked ==
    scans.at = "scanned" => \A s \in {scans.base, scans.so} :
        isValid(s) => LET zero == {m \in Own(scans.lib) : m.start >= s.base + 14}
                      IN ToSet(s.bss) = zero

(* Reading symbols leaves neither a descriptor nor a mapping behind on any *)
(* path, and what it found are functions and objects, one per name.        *)
DebugSymbolsClean ==
    /\ debug.at = "idle" => ~debug.fd /\ ~debug.mapped
    /\ \A s, t \in debug.found : s.type \in {"func", "object"} /\ (s.name = t.name => s = t)

(* The scan of a library, by its base and by the linker's record: both     *)
(* agree, the image is whole, its tables can be read, its bss has no file  *)
(* behind it, and its debug symbols are read without a trace.              *)
ImageInv ==
    /\ ScansAgree
    /\ ImageIsWhole
    /\ TablesReadable
    /\ BssIsUnbacked
    /\ DebugSymbolsClean
=============================================================================
