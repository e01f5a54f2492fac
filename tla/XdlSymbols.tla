----------------------------- MODULE XdlSymbols -----------------------------
(***************************************************************************)
(* Looking up symbols of one ELF: xdl_sym and xdl_dsym by name, xdl_addr   *)
(* by address, the application's getSymAddress, and the second             *)
(* implementation of the hash lookups in KittyUtils that                   *)
(* ElfScanner::findSymbol uses.  The symbol tables of a handle are loaded  *)
(* at most once, the second through XdlSymtab.                             *)
(*                                                                         *)
(* A name is a sequence of characters, because the lookups compare         *)
(* prefixes.  The hash functions are arbitrary constants: the tables the   *)
(* static linker builds from them are right for every hash.                *)
(***************************************************************************)
EXTENDS XdlSymtab, FiniteSetsExt, SequencesExt

CONSTANTS
    Images,     \* the ELFs, as records [file, gnu, sysv, dynsym, symtab]
    Names,      \* names looked up
    Offsets,    \* addresses looked up, less the load bias
    SysvHash,   \* the two hash functions, [name -> Nat]
    GnuHash,
    NumBuckets, \* of either hash table
    ClassBits,  \* bits of a bloom word
    BloomCount, \* words of the bloom filter, a power of two
    BloomShift,
    Null,       \* the null pointer
    Thumb       \* bit 0 of a function's value is the instruction set, not part of its address

(* A symbol's type is "func" for all but thread-local and indirect ones;   *)
(* target is the function that an indirect one's resolver picks.           *)
SymbolRecords == [name : Seq(STRING), value : Nat, size : Nat, type : {"func", "tls", "ifunc"},
                  section : {"undef", "text", "reserved"}, target : Nat]

VARIABLES
    image,   \* the ELF of the handle
    dynsym,  \* "untried", "null" or "loaded"
    pending, \* the call that waits for .symtab, or Nothing
    answer   \* the last call with its result

symbolsVars == <<image, dynsym, pending, answer>>

Nothing  == <<>>
Calls    == [fn : {"xdl_sym", "xdl_dsym", "getSymAddress", "findSymbol"}, arg : Names]
                \cup [fn : {"xdl_addr"}, arg : Offsets]

SymbolsTypeOK ==
    /\ image \in Images
    /\ dynsym \in {"untried", "null", "loaded"}
    /\ pending \in Calls \cup {Nothing}

SymbolsInit ==
    /\ SymtabInit
    /\ image \in Images /\ elf = image.file
    /\ dynsym = "untried"
    /\ pending = Nothing /\ answer = Nothing

-----------------------------------------------------------------------------
(* The hash tables of the image, as the static linker writes them: in a    *)
(* .gnu.hash the symbols of a bucket are neighbours and the last one's     *)
(* hash has bit 0 set; in a .hash they are chained in order of their index *)
(* (counted from 1, as 0 is STN_UNDEF).                                    *)
Indices     == DOMAIN image.dynsym
SymOffset   == 1 + Cardinality({i \in Indices : image.dynsym[i].section = "undef"})
Hashed      == {i \in Indices : i >= SymOffset}
Hash(i)     == GnuHash[image.dynsym[i].name]
MinOrZero(S) == IF S = {} THEN 0 ELSE Min(S)
Bucket(b)   == MinOrZero({i \in Hashed : Hash(i) % NumBuckets = b})
ChainWord(i) == 2 * (Hash(i) \div 2)
                + IF i + 1 \in Hashed /\ Hash(i + 1) % NumBuckets = Hash(i) % NumBuckets THEN 0 ELSE 1
BloomBits(h) == {h % ClassBits, (h \div 2 ^ BloomShift) % ClassBits}
BloomWord(h) == (h \div ClassBits) % BloomCount
Bloom(w)     == UNION {BloomBits(Hash(i)) : i \in {j \in Hashed : BloomWord(Hash(j)) = w}}

SysvBucket(b) == MinOrZero({i \in Indices : SysvHash[image.dynsym[i].name] % NumBuckets = b})
SysvChain(i)  == MinOrZero({j \in Indices : /\ j > i
                                            /\ SysvHash[image.dynsym[j].name] % NumBuckets =
                                               SysvHash[image.dynsym[i].name] % NumBuckets})

(* What the static linker sees to: undefined symbols come first, the       *)
(* hashed ones bucket by bucket; an undefined symbol has no value and no   *)
(* namesake that is exported.                                              *)
ASSUME ImagesAssumption ==
    /\ Null \notin SymbolRecords /\ Names \subseteq Seq(STRING) \ {<<>>} /\ Offsets \subseteq Nat
    /\ SysvHash \in [Names -> Nat] /\ GnuHash \in [Names -> Nat] /\ NumBuckets \in Nat \ {0}
    /\ BloomCount \in {2 ^ k : k \in 0 .. 30}
    /\ \A img \in Images :
        /\ img.gnu \in BOOLEAN /\ img.sysv \in BOOLEAN /\ {img.dynsym, img.symtab} \subseteq Seq(SymbolRecords)
        /\ \A i \in DOMAIN img.dynsym :
               /\ img.dynsym[i].name \in Names
               /\ img.dynsym[i].section = "undef" => img.dynsym[i].value = 0
        /\ \A i, j \in DOMAIN img.dynsym :
               LET s == img.dynsym[i]  t == img.dynsym[j] IN
               /\ s.name = t.name => (s.section = "undef" <=> t.section = "undef")
               /\ img.gnu /\ i < j =>
                      \/ s.section = "undef"
                      \/ t.section # "undef" /\ GnuHash[s.name] % NumBuckets <= GnuHash[t.name] % NumBuckets

-----------------------------------------------------------------------------
(* xdl_dynsym_load: without a dynamic symbol table and one hash table      *)
(* nothing is found, now or later.                                         *)
Loaded == image.gnu \/ image.sysv

(* The index at which a chain that starts at i ends: the first odd word.   *)
ChainEnd(i) == Min({j \in Hashed : j >= i /\ ChainWord(j) % 2 = 1})

(* Mutant of xdl_gnu_find: the last symbol of a bucket is not compared.    *)
xdl_gnu_find_short(name) ==
    LET h == GnuHash[name]  first == Bucket(h % NumBuckets) IN
    IF first < SymOffset THEN 0
    ELSE MinOrZero({i \in first .. ChainEnd(first) - 1 : image.dynsym[i].name = name})

(* xdl_dynsym_find_symbol_use_gnu_hash: 0 if there is no such symbol. *)
xdl_gnu_find(name) ==
    LET h == GnuHash[name]  first == Bucket(h % NumBuckets) IN
    IF first < SymOffset \/ ~(BloomBits(h) \subseteq Bloom(BloomWord(h))) THEN 0
    ELSE MinOrZero({i \in first .. ChainEnd(first) :
                        h \div 2 = ChainWord(i) \div 2 /\ image.dynsym[i].name = name})

(* xdl_dynsym_find_symbol_use_sysv_hash from index i of a chain. *)
xdl_sysv_find(i, name) ==
    LET find[j \in 0 .. Len(image.dynsym)] ==
            IF j = 0 THEN 0 ELSE IF image.dynsym[j].name = name THEN j ELSE find[SysvChain(j)]
    IN find[i]

SysvFind(name) == xdl_sysv_find(SysvBucket(SysvHash[name] % NumBuckets), name)

(* xdl_resolve_symbol_address, less the load bias. *)
Resolved(s) ==
    IF s.type = "tls" THEN Null ELSE IF s.type = "ifunc" THEN s.target ELSE s.value

(* xdl_sym on a loaded table. *)
xdl_sym(name) ==
    LET g == IF image.gnu THEN xdl_gnu_find(name) ELSE 0
        i == IF g = 0 /\ image.sysv THEN SysvFind(name) ELSE g
    IN IF ~Loaded \/ i = 0 THEN Null
       ELSE IF image.dynsym[i].section = "undef" THEN Null ELSE Resolved(image.dynsym[i])

xdl_dsym_is_match(str, sym) ==
    /\ str # <<>> /\ IsPrefix(sym, str)
    /\ Len(str) > Len(sym) => str[Len(sym) + 1] \in {".", "$"}

(* The first match of .symtab; types are not looked at. *)
xdl_dsym(name) ==
    LET i == SelectInSeq(image.symtab, LAMBDA s : s.section = "text" /\ xdl_dsym_is_match(s.name, name))
    IN IF i = 0 THEN Null ELSE image.symtab[i].value

xdl_sym_is_match(s, offset) ==
    LET value == IF Thumb THEN s.value - (s.value % 2) ELSE s.value IN
    s.type # "tls" /\ offset >= value /\ offset < value + s.size

(* Every symbol of a chain, bucket by bucket; or all of .dynsym.           *)
ByAddress ==
    IF image.gnu
    THEN UNION {LET n == Bucket(b) IN IF n < SymOffset THEN {} ELSE n .. ChainEnd(n) : b \in 0 .. NumBuckets - 1}
    ELSE IF image.sysv THEN Indices ELSE {}

xdl_sym_by_addr(offset) ==
    MinOrZero({i \in ByAddress : /\ image.dynsym[i].section # "undef"
                                 /\ xdl_sym_is_match(image.dynsym[i], offset)})

xdl_dsym_by_addr(offset) ==
    SelectInSeq(image.symtab, LAMBDA s : s.section = "text" /\ xdl_sym_is_match(s, offset))

(* ElfScanner::findSymbol with the lookups of KittyUtils: they stop at an  *)
(* index outside the chains and refuse a filter that is no power of two;   *)
(* neither the section nor the type of a symbol is looked at.              *)
GnuLookupByName(name) == IF image.gnu /\ BloomCount \in {2 ^ k : k \in 0 .. 30} THEN xdl_gnu_find(name) ELSE 0

ElfLookupByName(name) ==
    LET i == SysvFind(name) IN IF image.sysv /\ i \in Indices THEN i ELSE 0

findSymbol(name) ==
    LET found == {i \in {GnuLookupByName(name), ElfLookupByName(name)} \ {0} : image.dynsym[i].value # 0}
    IN IF found = {} THEN Null
       ELSE image.dynsym[IF GnuLookupByName(name) \in found THEN GnuLookupByName(name) ELSE Min(found)].value

-----------------------------------------------------------------------------
Answer(c, found) == answer' = [fn |-> c.fn, arg |-> c.arg, result |-> found]
LoadDynsym == dynsym' = IF dynsym = "untried" THEN (IF Loaded THEN "loaded" ELSE "null") ELSE dynsym
SymtabLoaded == step = "return" /\ result = "ok"

(* Calls that .dynsym alone answers. *)
CallSym(c) ==
    /\ c.fn \in {"xdl_sym", "getSymAddress"}
    /\ c.fn = "getSymAddress" => xdl_sym(c.arg) # Null
    /\ LoadDynsym
    /\ Answer(c, xdl_sym(c.arg))
    /\ UNCHANGED pending

CallAddr(c) ==
    /\ c.fn = "xdl_addr" /\ Loaded /\ xdl_sym_by_addr(c.arg) # 0
    /\ LoadDynsym
    /\ Answer(c, image.dynsym[xdl_sym_by_addr(c.arg)])
    /\ UNCHANGED pending

(* ElfScanner works on the image and keeps nothing in the handle. *)
CallFindSymbol(c) ==
    /\ c.fn = "findSymbol"
    /\ Answer(c, findSymbol(c.arg))
    /\ UNCHANGED <<pending, dynsym>>

(* Calls that go on to .symtab: it is loaded first if no call tried yet.   *)
CallSymtab(c) ==
    /\ \/ c.fn = "xdl_dsym" /\ UNCHANGED dynsym
       \/ c.fn = "getSymAddress" /\ xdl_sym(c.arg) = Null /\ LoadDynsym
       \/ c.fn = "xdl_addr" /\ ~(Loaded /\ xdl_sym_by_addr(c.arg) # 0) /\ LoadDynsym
    /\ pending' = c /\ answer' = Nothing

StartCall ==
    /\ pending = Nothing
    /\ \E c \in Calls : CallSym(c) \/ CallAddr(c) \/ CallFindSymbol(c) \/ CallSymtab(c)
    /\ UNCHANGED <<image, symtabVars>>

Load == pending # Nothing /\ SymtabNext /\ UNCHANGED symbolsVars

SearchSymtab ==
    /\ pending # Nothing /\ step = "return"
    /\ Answer(pending,
              IF ~SymtabLoaded THEN Null
              ELSE IF pending.fn # "xdl_addr" THEN xdl_dsym(pending.arg)
              ELSE LET i == xdl_dsym_by_addr(pending.arg) IN IF i = 0 THEN Null ELSE image.symtab[i])
    /\ pending' = Nothing
    /\ UNCHANGED <<image, dynsym, symtabVars>>

SymbolsNext == StartCall \/ Load \/ SearchSymtab
SymbolsSpec == SymbolsInit /\ [][SymbolsNext]_<<symtabVars, symbolsVars>> /\ WF_<<symtabVars, symbolsVars>>(Load \/ SearchSymtab)

-----------------------------------------------------------------------------
Answered(fn) == answer # Nothing /\ answer.fn = fn
Exports(name) == {i \in Indices : image.dynsym[i].name = name /\ image.dynsym[i].section # "undef"}

(* xdl_sym finds the exported symbol of that very name whenever there is   *)
(* one, by either hash table, and nothing else; only a thread-local symbol *)
(* has no address (xdl.c, xdl_sym).                                        *)
SymFindsExport ==
    Answered("xdl_sym") =>
        answer.result = IF ~Loaded \/ Exports(answer.arg) = {} THEN Null
                        ELSE Resolved(image.dynsym[Min(Exports(answer.arg))])

(* The canonical forms of a name of .symtab, after the comment of          *)
(* xdl_dsym_is_match: the name itself, and what is left of it when the     *)
(* suffixes from some dot or dollar on are cut off.                        *)
CanonicalForms(str) == {str} \cup {SubSeq(str, 1, k - 1) : k \in {j \in DOMAIN str : str[j] \in {".", "$"}}}

(* xdl_dsym answers with a defined symbol that has the name asked for as a *)
(* canonical form, and answers NULL only if there is none or the table     *)
(* could not be loaded (xdl.c, xdl_dsym).                                  *)
DsymFindsCanonical ==
    Answered("xdl_dsym") =>
        LET Matches == {s \in ToSet(image.symtab) : s.section = "text" /\ answer.arg \in CanonicalForms(s.name)}
        IN IF ~SymtabLoaded \/ Matches = {} THEN answer.result = Null
           ELSE \E s \in Matches : answer.result = s.value

(* xdl_addr names a symbol whose code holds the address, the exported one  *)
(* first, and names none only if no symbol it has loaded does (xdl.c,      *)
(* xdl_addr4).                                                             *)
AddrInsideSymbol ==
    Answered("xdl_addr") =>
        LET Holds(s) == /\ s.type # "tls"
                        /\ LET code == s.value - (IF Thumb THEN s.value % 2 ELSE 0)
                           IN answer.arg \in code .. (code + s.size - 1)
            exported == IF Loaded THEN {s \in ToSet(image.dynsym) : s.section # "undef"} ELSE {}
            internal == IF SymtabLoaded THEN {s \in ToSet(image.symtab) : s.section = "text"} ELSE {}
        IN IF answer.result = Null THEN ~\E s \in exported \cup internal : Holds(s)
           ELSE /\ Holds(answer.result) /\ answer.result \in exported \cup internal
                /\ answer.result \in exported \/ ~\E s \in exported : Holds(s)

(* KittyUtils and xDL find the same symbol for every plain function that   *)
(* lies somewhere, and differ only where ElfScanner::findSymbol does not   *)
(* look at the type or takes the value 0 for none.                         *)
LookupsAgree ==
    /\ Answered("findSymbol")
    /\ \A i \in Exports(answer.arg) : image.dynsym[i].type = "func" /\ image.dynsym[i].value # 0
    => answer.result = xdl_sym(answer.arg)

(* A call that needs .symtab is answered in the end. *)
SymbolCallsReturn == pending # Nothing ~> pending = Nothing

(* Lookups answer what the ELF file says: by name in either hash table,    *)
(* by canonical name, by address, in xDL and in KittyUtils alike.          *)
LookupInv == SymbolsTypeOK /\ SymFindsExport /\ DsymFindsCanonical /\ AddrInsideSymbol /\ LookupsAgree
=============================================================================
