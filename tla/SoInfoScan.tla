------------------------------ MODULE SoInfoScan ------------------------------
(***************************************************************************)
(* LinkerScanner: where the fields of a soinfo are is learned by looking   *)
(* for known values in the words of the main program's record; the list of *)
(* records is then walked without the linker's lock, while libraries are   *)
(* loaded and unloaded.                                                    *)
(***************************************************************************)
EXTENDS Integers, FiniteSets, SequencesExt

CONSTANTS
    Layout,    \* the fields of a soinfo, word by word; a field can be there twice; "free" is none
    Records,   \* 1 .. n: record k lies behind record k - 1
    LibraryOf, \* [Records -> [base, size, phdr, phnum, dyn, strtab, symtab, strsz, bias]]
    FreeValues,\* what a word that is no field may hold
    ScanWords, \* words that are searched: KT_SOINFO_BUFFER_SZ
    SoMain,    \* the main program's record
    MaxLoads   \* bound on loads and unloads

VARIABLES
    solist,  \* the records in the list, the linker's own first
    free,    \* [Records -> the value of the words that are no fields]
    offsets, \* _soinfo_offsets once init succeeded
    listing,    \* allSoInfo in progress
    loads

scanVars == <<solist, free, offsets, listing, loads>>
(* The linker's heap. *)
Width   == Len(Layout)
Area    == 1000
RecordAt(k) == Area + (k - 1) * Width
InArea(a) == a >= Area /\ a < Area + Cardinality(Records) * Width
Fields  == {"base", "size", "phdr", "phnum", "dyn", "strtab", "symtab", "strsz", "bias"}
NoInfo  == [f \in Fields |-> 0]
NotLearned == [f \in Fields \cup {"next"} |-> 0]
NoListing  == [at |-> "idle", si |-> 0, readable |-> {}, out |-> <<>>, begun |-> <<>>, lost |-> FALSE]

(* What the search takes for granted of the linker's records: every field  *)
(* lies in them, the base before the bias; the list begins with the        *)
(* linker's own record and the program's; only the word for the next       *)
(* record leads to a record; the program's values differ, except that its  *)
(* bias may be its base, and no other library begins at one.               *)
ASSUME SoInfoAssumption ==
    /\ Layout \in Seq(Fields \cup {"next", "free"}) /\ Fields \cup {"next"} \subseteq ToSet(Layout)
    /\ Layout[1] # "strsz" /\ ScanWords \in Width .. 2 * Width
    /\ \A i, j \in DOMAIN Layout : Layout[i] = "base" /\ Layout[j] \in {"base", "bias"} => i <= j
    /\ SoMain = 2 /\ IsFiniteSet(Records) /\ Records = 1 .. Cardinality(Records) /\ 3 \in Records
    /\ LibraryOf \in [Records -> [Fields -> Nat \ {0}]] /\ FreeValues \subseteq Nat
    /\ \A v \in FreeValues \cup UNION {Range(LibraryOf[k]) : k \in Records}, w \in 0 .. ScanWords - 1 :
           ~InArea(v + w)
    /\ \A f, g \in Fields :
           LibraryOf[SoMain][f] = LibraryOf[SoMain][g] => f = g \/ {f, g} = {"base", "bias"}
    /\ \A f \in Fields, k \in Records :
           LibraryOf[SoMain][f] = LibraryOf[k].base => k = SoMain /\ f \in {"base", "bias"}
    /\ MaxLoads \in Nat

SoInfoInit ==
    /\ solist = <<1, 2, 3>> /\ free \in [Records -> FreeValues]
    /\ offsets = NotLearned /\ listing = NoListing /\ loads = 0

-----------------------------------------------------------------------------
(* The words of the heap; a record that was freed is wiped. *)
NextOf(k) == LET i == SelectInSeq(solist, LAMBDA x : x = k)
             IN IF i \in {0, Len(solist)} THEN 0 ELSE RecordAt(solist[i + 1])
Word(k, w) ==
    IF k \notin ToSet(solist) THEN 0
    ELSE CASE Layout[w + 1] = "free" -> free[k]
           [] Layout[w + 1] = "next" -> NextOf(k)
           [] OTHER                  -> LibraryOf[k][Layout[w + 1]]
Peek(a)   == IF InArea(a) THEN Word((a - Area) \div Width + 1, (a - Area) % Width) ELSE 0

(* A valid scan at an address: the image of a loaded library. *)
ElfsAt(a) == {k \in ToSet(solist) : LibraryOf[k].base = a}

WordsOf(k) == [i \in 0 .. ScanWords - 1 |-> Peek(RecordAt(k) + i)]

(* The search for the base, then one comparison of every word with the     *)
(* values of the image found there.                                        *)
BaseOffset ==
    LET hits == {i \in DOMAIN WordsOf(SoMain) : ElfsAt(WordsOf(SoMain)[i]) # {}}
    IN IF hits = {} THEN 0 ELSE Min(hits)

Order == <<"phnum", "size", "dyn", "strtab", "symtab", "bias", "strsz">>

Meaning(i, elf) ==
    LET hits == {n \in DOMAIN Order : /\ WordsOf(SoMain)[i] = LibraryOf[elf][Order[n]]
                                      /\ Order[n] = "bias" => i # BaseOffset}
    IN IF hits = {} THEN "none" ELSE Order[Min(hits)]

LastOffset(set) == IF set = {} THEN 0 ELSE Max(set)
Learned ==
    LET elf == CHOOSE k \in ElfsAt(WordsOf(SoMain)[BaseOffset]) : TRUE
        words == DOMAIN WordsOf(SoMain)
    IN [f \in Fields \cup {"next"} |->
           CASE f = "base" -> BaseOffset
             [] f = "next" -> 0
             [] f = "phdr" -> LastOffset({i \in words : WordsOf(SoMain)[i] = LibraryOf[elf].phdr})
             [] OTHER      -> LastOffset({i \in words : Meaning(i, elf) = f})]

(* The next record: the first word of the head that leads to the base and  *)
(* the size of an image.                                                   *)
LeadsOn(learned, p) ==
    \E k \in ElfsAt(Peek(p + learned.base)) : Peek(p + learned.size) = LibraryOf[k].size

NextOffset(learned) ==
    LET hits == {i \in DOMAIN WordsOf(solist[1]) : LeadsOn(learned, WordsOf(solist[1])[i])}
    IN IF hits = {} THEN 0 ELSE Min(hits)

Usable(learned) == \A f \in {"base", "size", "bias", "dyn", "symtab", "strtab"} : learned[f] # 0

init ==
    /\ offsets = NotLearned
    /\ BaseOffset # 0 /\ Usable(Learned) /\ NextOffset(Learned) # 0
    /\ offsets' = [Learned EXCEPT !.next = NextOffset(Learned)]
    /\ UNCHANGED <<solist, free, listing, loads>>

-----------------------------------------------------------------------------
infoFromSoInfo_(si) ==
    [f \in Fields |-> IF f = "strsz" /\ offsets.strsz = 0 THEN 0 ELSE Peek(si + offsets[f])]

(* allSoInfo: the maps are read once; the walk follows the records.        *)
StartWalkList ==
    /\ offsets.next # 0 /\ listing.at = "idle"
    /\ listing' = [NoListing EXCEPT !.at = "walk", !.si = RecordAt(solist[1]), !.readable = ToSet(solist), !.begun = solist]
    /\ UNCHANGED <<solist, free, offsets, loads>>

(* Mutant of Goes: a record without a successor is not reported.           *)
GoesBeforeLast == listing.si # 0 /\ Peek(listing.si + offsets.next) # 0
Goes == listing.si # 0 /\ \E k \in listing.readable : listing.si \in RecordAt(k) .. RecordAt(k) + Width - 1

VisitRecord ==
    /\ listing.at = "walk"
    /\ IF Goes
       THEN listing' = [listing EXCEPT !.out = Append(@, [ptr |-> listing.si, info |-> infoFromSoInfo_(listing.si)]),
                                 !.si = Peek(listing.si + offsets.next)]
       ELSE listing' = [listing EXCEPT !.at = "done"]
    /\ UNCHANGED <<solist, free, offsets, loads>>

ForgetWalk == listing.at = "done" /\ listing' = NoListing /\ UNCHANGED <<solist, free, offsets, loads>>

(* The linker: dlopen appends a record, dlclose removes and wipes one.     *)
LinkRecord(k) ==
    /\ k \notin ToSet(solist) /\ loads < MaxLoads
    /\ solist' = Append(solist, k) /\ loads' = loads + 1
    /\ UNCHANGED <<free, offsets, listing>>
UnlinkRecord(k) ==
    /\ k \notin {1, SoMain} /\ loads < MaxLoads
    /\ \E i \in DOMAIN solist : solist[i] = k /\ solist' = RemoveAt(solist, i)
    /\ loads' = loads + 1
    /\ listing' = [listing EXCEPT !.lost = TRUE]
    /\ UNCHANGED <<free, offsets>>

SoInfoNext ==
    \/ init \/ StartWalkList \/ VisitRecord \/ ForgetWalk
    \/ \E k \in Records : LinkRecord(k) \/ UnlinkRecord(k)

-----------------------------------------------------------------------------
(* What the walk reports of a record is what the linker put there, though  *)
(* no field's place was known: unless a word that is no field, or one of   *)
(* the record behind the main program's, holds a value of the program or   *)
(* is where a library begins, the places that were learned from one record *)
(* hold for all.                                                           *)
Coincidence ==
    \/ \E f, g \in Fields : \/ \E k \in Records : free[k] = LibraryOf[SoMain][f]
                            \/ LibraryOf[SoMain + 1][g] = LibraryOf[SoMain][f]
    \/ \E k, l \in Records : free[k] = LibraryOf[l].base
InfoIsTrue ==
    listing.out # <<>> /\ ~listing.lost /\ ~Coincidence =>
        \A i \in DOMAIN listing.out :
            \E k \in Records : listing.out[i] = [ptr |-> RecordAt(k), info |-> LibraryOf[k]]

(* Without an unload during the walk, every library that was there when it *)
(* began is reported, in the linker's order and once.                      *)
WalkIsWhole ==
    listing.at = "done" /\ ~listing.lost =>
        [i \in DOMAIN listing.out |-> listing.out[i].ptr] = [i \in DOMAIN listing.begun |-> RecordAt(listing.begun[i])]

(* What is read from the linker's records: each field is the linker's,     *)
(* and a walk over a list that is not changed meets every record.          *)
RecordsInv == InfoIsTrue /\ WalkIsWhole
=============================================================================
