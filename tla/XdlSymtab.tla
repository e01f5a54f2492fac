----------------------------- MODULE XdlSymtab -----------------------------
(***************************************************************************)
(* Loading .symtab and .strtab of an ELF from disk: xdl_symtab_load,       *)
(* xdl_symtab_load_from_debugdata and xdl_lzma_decompress of xDL.  The     *)
(* section headers of the file are searched for a .symtab; a               *)
(* .gnu_debugdata section is inflated and its own sections are searched.   *)
(*                                                                         *)
(* A file is abstracted to the kinds of its sections; what a table holds   *)
(* is left out, and every buffer is kept, in the order in which the code   *)
(* allocates, hands over and frees it.  Any allocation and any read of the *)
(* file may fail.                                                          *)
(***************************************************************************)
EXTENDS Naturals, Sequences

CONSTANT SymtabFiles  \* [sections, debug : sequences of kinds, damaged : BOOLEAN, output : Nat]

(* A .symtab with its .strtab; one whose link or bytes are out of range;   *)
(* a .gnu_debugdata (those of one file are alike).                         *)
SectionKinds == {"symtab", "badtab", "debugdata"}

ASSUME SymtabAssumption ==
    SymtabFiles \subseteq [sections : Seq(SectionKinds), debug : Seq(SectionKinds), damaged : BOOLEAN, output : Nat]

Temporaries == {"shdrs", "shstrtab", "zip", "debugdata", "dshdrs"}
Tables      == {"symtab", "strtab"}
Buffers     == Temporaries \cup Tables

VARIABLES
    elf,       \* the file being read
    step,      \* the statement of the loader that runs next
    cursor,    \* the section header looked at, and the one of the inflated ELF
    heap,      \* the state of every buffer
    fd,        \* the file is open
    refused,   \* an allocation or a read has failed, or a header is not valid
    cap, done, \* *dst_size and dst_offset of the decompression, in units of its input
    result     \* r

symtabVars == <<elf, step, cursor, heap, fd, refused, cap, done, result>>

SymtabTypeOK ==
    /\ elf \in SymtabFiles
    /\ step \in {"open", "header", "search", "table", "zip", "inflate", "inner", "innerEnd", "end", "return"}
    /\ cursor \in Seq(Nat) /\ Len(cursor) \in {1, 2}
    /\ heap \in [Buffers -> {"none", "live", "freed", "double", "lost"}]
    /\ fd \in BOOLEAN /\ refused \in BOOLEAN
    /\ cap \in Nat /\ done \in 0 .. cap
    /\ result \in {"fail", "ok"}

SymtabInit ==
    /\ elf \in SymtabFiles
    /\ step = "open" /\ cursor = <<1>>
    /\ heap = [b \in Buffers |-> "none"]
    /\ fd = FALSE /\ refused = FALSE
    /\ cap = 0 /\ done = 0
    /\ result = "fail"

(* The loop runs over the sections of the file, or of the inflated ELF.    *)
InDebug  == Len(cursor) = 2
Sections == IF InDebug THEN elf.debug ELSE elf.sections
Header   == cursor[Len(cursor)]
(* Mutant of Advance: the loop forgets to step past a table it cannot use. *)
AdvanceNone == cursor
Advance  == [cursor EXCEPT ![Len(cursor)] = @ + 1]
EndLabel == IF InDebug THEN "innerEnd" ELSE "end"

Alloc(B) == [b \in Buffers |-> IF b \in B THEN "live" ELSE heap[b]]
Freed(B) == [b \in Buffers |-> CASE b \in B /\ heap[b] = "live"  -> "freed"
                                 [] b \in B /\ heap[b] = "freed" -> "double"
                                 [] OTHER                        -> heap[b]]

-----------------------------------------------------------------------------
(* A file that cannot be opened ends the call. *)
OpenFile ==
    /\ step = "open"
    /\ \/ fd' = TRUE  /\ step' = "header" /\ UNCHANGED refused
       \/ fd' = FALSE /\ step' = "return" /\ refused' = TRUE
    /\ UNCHANGED <<elf, cursor, heap, cap, done, result>>

(* fstat and the ELF header, the section headers, their names. *)
ReadHeader ==
    /\ step = "header"
    /\ \/ /\ step' = "search" /\ heap' = Alloc({"shdrs", "shstrtab"}) /\ UNCHANGED refused
       \/ /\ step' = "end" /\ heap' \in {heap, Alloc({"shdrs"})} /\ refused' = TRUE
    /\ UNCHANGED <<elf, cursor, fd, cap, done, result>>

(* Bad tables are passed over, and a .gnu_debugdata of the inflated ELF.   *)
Passes == Sections[Header] = "badtab" \/ (Sections[Header] = "debugdata" /\ InDebug)

(* The loop over the section headers. *)
Search ==
    /\ step = "search"
    /\ IF Header <= Len(Sections) /\ Passes
       THEN cursor' = Advance /\ UNCHANGED step
       ELSE /\ step' = IF Header > Len(Sections) \/ Sections[Header] = "badtab" THEN EndLabel
                       ELSE IF Sections[Header] = "symtab" THEN "table" ELSE "zip"
            /\ UNCHANGED cursor
    /\ UNCHANGED <<elf, heap, fd, refused, cap, done, result>>

(* The heap after a string table could not be read. *)
WithoutStrtab == [heap EXCEPT !["symtab"] = "freed"]

(* Both tables are read, or none is kept and the loop goes on. *)
ReadTable ==
    /\ step = "table"
    /\ \/ /\ heap' = Alloc(Tables) /\ result' = "ok" /\ step' = EndLabel
          /\ UNCHANGED <<refused, cursor>>
       \/ /\ heap' \in {heap, WithoutStrtab} /\ refused' = TRUE
          /\ step' = "search" /\ cursor' = Advance
          /\ UNCHANGED result
    /\ UNCHANGED <<elf, fd, cap, done>>

(* The zipped section; *dst_size starts at twice its size, and the local   *)
(* pointers as NULL.                                                       *)
ReadZip ==
    /\ step = "zip"
    /\ \/ /\ heap' = [Alloc({"zip"}) EXCEPT !["debugdata"] = "none", !["dshdrs"] = "none"]
          /\ step' = "inflate" /\ cap' = 2 /\ done' = 0 /\ UNCHANGED <<refused, cursor>>
       \/ refused' = TRUE /\ step' = "search" /\ cursor' = Advance /\ UNCHANGED <<heap, cap, done>>
    /\ UNCHANGED <<elf, fd, result>>

(* CODER_STATUS_NOT_FINISHED: more output than the buffer of this round.   *)
NotFinished == elf.output > 2 * cap

Doubled == 2 * cap

(* One round of the loop: double the buffer and inflate what fits.  A      *)
(* stream that is damaged or cut short frees the buffer and fails, and the *)
(* caller still holds the pointer.                                         *)
InflateRound ==
    /\ step = "inflate"
    /\ cap' = Doubled
    /\ done' = IF elf.output <= 2 * cap THEN elf.output ELSE 2 * cap
    /\ \/ NotFinished  /\ heap' = Alloc({"debugdata"}) /\ UNCHANGED step
       \/ ~NotFinished /\ ~elf.damaged /\ heap' = Alloc({"debugdata"}) /\ step' = "inner"
       \/ elf.damaged /\ heap' = [heap EXCEPT !["debugdata"] = "freed"] /\ step' = "innerEnd"
    /\ UNCHANGED <<elf, cursor, fd, refused, result>>

(* No liblzma: nothing is allocated.  No memory: realloc returns NULL into *)
(* *dst and the old buffer is lost.                                        *)
InflateRefused ==
    /\ step = "inflate"
    /\ refused' = TRUE /\ step' = "innerEnd"
    /\ heap' = IF heap["debugdata"] = "live" THEN [heap EXCEPT !["debugdata"] = "lost"] ELSE heap
    /\ UNCHANGED <<elf, cursor, fd, cap, done, result>>

(* The headers of the inflated ELF; its section names are used in place.   *)
ReadInnerHeader ==
    /\ step = "inner"
    /\ \/ heap' = Alloc({"dshdrs"}) /\ step' = "search" /\ cursor' = Append(cursor, 1) /\ UNCHANGED refused
       \/ heap' \in {heap, Alloc({"dshdrs"})} /\ refused' = TRUE /\ step' = "innerEnd" /\ UNCHANGED cursor
    /\ UNCHANGED <<elf, fd, cap, done, result>>

(* Mutant of InnerTemporaries: the headers of the file itself go as well.  *)
InnerTemporariesTwice == {"zip", "debugdata", "dshdrs", "shdrs"}

(* The end label of xdl_symtab_load_from_debugdata frees these.            *)
InnerTemporaries == {"zip", "debugdata", "dshdrs"}

InnerEnd ==
    /\ step = "innerEnd"
    /\ heap' = Freed(InnerTemporaries)
    /\ IF result = "ok" THEN step' = "end" /\ UNCHANGED cursor
                        ELSE step' = "search" /\ cursor' = <<cursor[1] + 1>>
    /\ UNCHANGED <<elf, fd, refused, cap, done, result>>

(* The end label of xdl_symtab_load. *)
EndOfLoad ==
    /\ step = "end"
    /\ heap' = Freed({"shdrs", "shstrtab"}) /\ fd' = FALSE /\ step' = "return"
    /\ UNCHANGED <<elf, cursor, refused, cap, done, result>>

SymtabNext ==
    \/ OpenFile \/ ReadHeader \/ Search \/ ReadTable \/ ReadZip
    \/ InflateRound \/ InflateRefused \/ ReadInnerHeader \/ InnerEnd \/ EndOfLoad

-----------------------------------------------------------------------------
(* When the loader returns, xdl.c has closed the file and freed every      *)
(* temporary buffer, and both tables are there exactly if it succeeded.    *)
(* The one buffer it can lose is the old block of a realloc that failed.   *)
NothingLeaks ==
    step = "return" =>
        /\ ~fd
        /\ \A b \in Temporaries : heap[b] # "live"
        /\ \A b \in Tables : heap[b] = "live" <=> result = "ok"

(* No buffer is freed twice, except the inflated ELF of a damaged section: *)
(* xdl_lzma_decompress frees it, and xdl_symtab_load_from_debugdata frees  *)
(* the same pointer again at its end label.                                *)
FreedOnce ==
    \A b \in Buffers : heap[b] = "double" => b = "debugdata" /\ elf.damaged

(* If nothing was refused, the loader succeeds exactly when the file has a *)
(* symbol table, its own or one in an intact .gnu_debugdata, whatever bad  *)
(* sections come before it.                                                *)
HasKind(s, k) == \E i \in DOMAIN s : s[i] = k
TableFound ==
    step = "return" /\ ~refused =>
        (result = "ok" <=> \/ HasKind(elf.sections, "symtab")
                           \/ /\ HasKind(elf.sections, "debugdata") /\ ~elf.damaged
                              /\ HasKind(elf.debug, "symtab"))

(* The sections of an inflated ELF are looked at only when all of it has   *)
(* been inflated, into a buffer that holds it.                             *)
InflatedWhole == step = "inner" \/ InDebug => done = elf.output /\ done <= cap

(* Loading .symtab, whatever read, allocation or decompression fails:      *)
(* nothing leaks or is freed twice, a table that can be read is found,     *)
(* and what was compressed comes out whole.                                *)
SymtabInv == SymtabTypeOK /\ NothingLeaks /\ FreedOnce /\ TableFound /\ InflatedWhole
=============================================================================
