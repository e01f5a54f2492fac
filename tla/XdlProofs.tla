----------------------------- MODULE XdlProofs -----------------------------
(***************************************************************************)
(* Theorems about xDL, for any files, libraries and threads: loading       *)
(* .symtab keeps account of its buffers and finds the table that is there; *)
(* look-ups find the symbols that are there; handles and answers are about *)
(* libraries that are or were loaded; the initialisations run once, and    *)
(* their locks and the linker's are taken in one order.  And about the     *)
(* linker's records and the libraries' images, as KittyMemory's scanners   *)
(* read them.                                                              *)
(***************************************************************************)
EXTENDS XdlSymbols, XdlHandles, XdlLinker, SoInfoScan, ElfImage, FiniteSetTheorems, SequenceTheorems, WellFoundedInduction, TLAPS

SymtabSpec == SymtabInit /\ [][SymtabNext]_symtabVars

(* The part that works for one .gnu_debugdata: xdl_symtab_load_from_debugdata. *)
Inner == step \in {"inflate", "inner", "innerEnd"} \/ (InDebug /\ step \in {"search", "table"})

(* The file is open from its opening to the end label. *)
FileOpen == fd <=> step \notin {"open", "return"}

(* The section headers of the file and their names. *)
OuterBuffers ==
    \A b \in {"shdrs", "shstrtab"} :
        heap[b] \in CASE step \in {"open", "header"} -> {"none"}
                      [] step = "end"                -> {"none", "live"}
                      [] step = "return"             -> {"none", "freed"}
                      [] OTHER                       -> {"live"}

(* What the part for .gnu_debugdata holds, and what is left of it.         *)
InnerBuffers ==
    /\ heap["zip"] \in IF Inner THEN {"live"} ELSE {"none", "freed"}
    /\ heap["dshdrs"] \in IF ~Inner THEN {"none", "freed"}
                          ELSE IF step \in {"inflate", "inner"} THEN {"none"}
                          ELSE IF step = "innerEnd" THEN {"none", "live"} ELSE {"live"}
    /\ heap["debugdata"] \in IF ~Inner THEN {"none", "freed", "lost"} \cup {s \in {"double"} : elf.damaged}
                             ELSE IF step = "inflate" THEN {"none", "live"}
                             ELSE IF step = "innerEnd" THEN {"none", "live", "lost"} \cup {s \in {"freed"} : elf.damaged}
                             ELSE {"live"}

(* The tables are kept if the loader has found them, and then only. *)
TableBuffers ==
    /\ result = "ok" => step \in {"innerEnd", "end", "return"}
    /\ \A b \in Tables : heap[b] \in IF result = "ok" THEN {"live"} ELSE {"none", "freed"}

HasTable == \/ HasKind(elf.sections, "symtab")
            \/ HasKind(elf.sections, "debugdata") /\ ~elf.damaged /\ HasKind(elf.debug, "symtab")

(* A section that is of no use: nothing can be loaded from it. *)
Useless(j) == \/ elf.sections[j] = "badtab"
              \/ elf.sections[j] = "debugdata" /\ (elf.damaged \/ ~HasKind(elf.debug, "symtab"))

(* Where the two loops are. *)
LoopsInOrder ==
    /\ step \in {"open", "header", "zip", "inflate", "inner"} => ~InDebug
    /\ step \in {"end", "return"} /\ result = "fail" => ~InDebug
    /\ cursor[1] \in 1 .. Len(elf.sections) + 1
    /\ InDebug => ~elf.damaged /\ cursor[2] \in 1 .. Len(elf.debug) + 1
    /\ step \in {"zip"} \/ Inner => cursor[1] <= Len(elf.sections) /\ elf.sections[cursor[1]] = "debugdata"
    /\ step = "table" => Header <= Len(Sections) /\ Sections[Header] = "symtab"
    /\ step = "inner" => ~elf.damaged

(* What the loops have passed over was of no use, unless something was     *)
(* refused, and they end early only with a table.                          *)
PassedUseless ==
    /\ ~refused =>
          /\ \A j \in 1 .. cursor[1] - 1 : Useless(j)
          /\ InDebug => \A j \in 1 .. cursor[2] - 1 : elf.debug[j] # "symtab"
          /\ step = "innerEnd" /\ result = "fail" => elf.damaged \/ (InDebug /\ cursor[2] > Len(elf.debug))
          /\ step \in {"end", "return"} /\ result = "fail" => cursor[1] > Len(elf.sections)
    /\ result = "ok" => HasTable

SymtabIInv ==
    /\ SymtabTypeOK /\ FileOpen /\ OuterBuffers /\ InnerBuffers /\ TableBuffers
    /\ LoopsInOrder /\ PassedUseless /\ InflatedWhole

(* What the cursor points at. *)
CursorFacts ==
    /\ cursor[1] \in Nat /\ (InDebug => cursor[2] \in Nat)
    /\ Header = IF InDebug THEN cursor[2] ELSE cursor[1]
    /\ Sections = IF InDebug THEN elf.debug ELSE elf.sections
    /\ elf.sections \in Seq(SectionKinds) /\ elf.debug \in Seq(SectionKinds)
    /\ elf.damaged \in BOOLEAN /\ elf.output \in Nat

(* A cursor has one or two numbers. *)
LEMMA CursorShape ==
    ASSUME NEW c \in Seq(Nat), Len(c) \in {1, 2}
    PROVE  /\ c[1] \in Nat /\ (Len(c) = 2 => c[2] \in Nat) /\ DOMAIN c = 1 .. Len(c)
           /\ c[Len(c)] = IF Len(c) = 2 THEN c[2] ELSE c[1]
  OBVIOUS

(* A number more at the end. *)
LEMMA AppendShape ==
    ASSUME NEW c \in Seq(Nat), NEW e \in Nat
    PROVE  /\ Append(c, e) \in Seq(Nat) /\ Len(Append(c, e)) = Len(c) + 1
           /\ \A i \in 1 .. Len(c) : Append(c, e)[i] = c[i]
           /\ Append(c, e)[Len(c) + 1] = e
  BY AppendProperties

(* The facts follow from the types. *)
LEMMA CursorNow == SymtabTypeOK => CursorFacts
  BY CursorShape, SymtabAssumption DEF SymtabTypeOK, CursorFacts, Header, InDebug, Sections

(* They do so in the next state. *)
LEMMA CursorNext == SymtabTypeOK' => CursorFacts'
  BY CursorShape, SymtabAssumption DEF SymtabTypeOK, CursorFacts, Header, InDebug, Sections

(* The cursor after one section header was stepped over. *)
Stepped(c) ==
    /\ c \in Seq(Nat) /\ Len(c) = Len(cursor)
    /\ InDebug => c[1] = cursor[1] /\ c[2] = cursor[2] + 1
    /\ ~InDebug => c[1] = cursor[1] + 1

(* Advance steps over one. *)
LEMMA AdvanceShape == SymtabTypeOK => Stepped(Advance)
<1> SUFFICES ASSUME SymtabTypeOK PROVE Stepped(Advance)
  OBVIOUS
<1>1. cursor \in Seq(Nat) /\ Len(cursor) \in {1, 2} /\ DOMAIN cursor = 1 .. Len(cursor)
  BY DEF SymtabTypeOK
<1>2. Len(cursor) \in 1 .. Len(cursor) /\ cursor[Len(cursor)] + 1 \in Nat
  BY <1>1, CursorShape
<1>3. Advance = [cursor EXCEPT ![Len(cursor)] = cursor[Len(cursor)] + 1]
  BY DEF Advance
<1>4. /\ Advance \in Seq(Nat) /\ Len(Advance) = Len(cursor)
      /\ \A j \in 1 .. Len(cursor) : Advance[j] = IF j = Len(cursor) THEN cursor[Len(cursor)] + 1 ELSE cursor[j]
  BY <1>1, <1>2, <1>3, ExceptSeq
<1>5. CASE Len(cursor) = 1
  BY <1>4, <1>5 DEF Stepped, InDebug
<1>6. CASE Len(cursor) = 2
  BY <1>1, <1>4, <1>6 DEF Stepped, InDebug
<1> QED
  BY <1>1, <1>5, <1>6

(* OpenFile keeps the invariant. *)
LEMMA OpenFileInv == ASSUME SymtabIInv, OpenFile PROVE SymtabIInv'
<1>1. SymtabTypeOK'
  BY AdvanceShape, CursorNow, SymtabAssumption DEF SymtabIInv, OpenFile, SymtabTypeOK, InflatedWhole, Buffers, Temporaries, Tables, Stepped, CursorFacts
<1>2. CursorFacts /\ CursorFacts'
  BY <1>1, CursorNow, CursorNext DEF SymtabIInv
<1>3. (InDebug' <=> InDebug) /\ cursor'[1] = cursor[1] /\ cursor'[2] = cursor[2]
  BY <1>2 DEF SymtabIInv, SymtabTypeOK, InDebug, OpenFile
<1>4. FileOpen'
  BY DEF SymtabIInv, OpenFile, FileOpen, SymtabTypeOK
<1>5. OuterBuffers'
  BY DEF SymtabIInv, OpenFile, OuterBuffers, SymtabTypeOK, Buffers, Temporaries, Tables
<1>6. InnerBuffers'
  BY <1>2, <1>3 DEF SymtabIInv, OpenFile, InnerBuffers, Inner, SymtabTypeOK, LoopsInOrder, Buffers, Temporaries, Tables, CursorFacts
<1>7. TableBuffers'
  BY DEF SymtabIInv, OpenFile, TableBuffers, SymtabTypeOK, Buffers, Temporaries, Tables
<1>8. LoopsInOrder'
  BY <1>2, <1>3 DEF SymtabIInv, OpenFile, LoopsInOrder, Inner, SymtabTypeOK, TableBuffers, InflatedWhole, CursorFacts, SectionKinds
<1>9. PassedUseless'
  BY <1>2, <1>3 DEF SymtabIInv, OpenFile, PassedUseless, LoopsInOrder, Inner, SymtabTypeOK, TableBuffers, CursorFacts, SectionKinds,
     Useless, HasTable, HasKind
<1>10. InflatedWhole'
  BY <1>2, <1>3 DEF SymtabIInv, OpenFile, InflatedWhole, SymtabTypeOK, LoopsInOrder, CursorFacts
<1> QED
  BY <1>1, <1>4, <1>5, <1>6, <1>7, <1>8, <1>9, <1>10 DEF SymtabIInv

(* ReadHeader keeps the invariant. *)
LEMMA ReadHeaderInv == ASSUME SymtabIInv, ReadHeader PROVE SymtabIInv'
<1>1. SymtabTypeOK'
  BY AdvanceShape, CursorNow, SymtabAssumption DEF SymtabIInv, ReadHeader, Alloc, SymtabTypeOK, InflatedWhole, Buffers, Temporaries, Tables, Stepped, CursorFacts
<1>2. CursorFacts /\ CursorFacts'
  BY <1>1, CursorNow, CursorNext DEF SymtabIInv
<1>3. (InDebug' <=> InDebug) /\ cursor'[1] = cursor[1] /\ cursor'[2] = cursor[2]
  BY <1>2 DEF SymtabIInv, SymtabTypeOK, InDebug, ReadHeader
<1>4. FileOpen'
  BY DEF SymtabIInv, ReadHeader, Alloc, FileOpen, SymtabTypeOK
<1>5. OuterBuffers'
  BY DEF SymtabIInv, ReadHeader, Alloc, OuterBuffers, SymtabTypeOK, Buffers, Temporaries, Tables
<1>6. InnerBuffers'
  BY <1>2, <1>3 DEF SymtabIInv, ReadHeader, Alloc, InnerBuffers, Inner, SymtabTypeOK, LoopsInOrder, Buffers, Temporaries, Tables, CursorFacts
<1>7. TableBuffers'
  BY DEF SymtabIInv, ReadHeader, Alloc, TableBuffers, SymtabTypeOK, Buffers, Temporaries, Tables
<1>8. LoopsInOrder'
  BY <1>2, <1>3 DEF SymtabIInv, ReadHeader, Alloc, LoopsInOrder, Inner, SymtabTypeOK, TableBuffers, InflatedWhole, CursorFacts, SectionKinds
<1>9. PassedUseless'
  BY <1>2, <1>3 DEF SymtabIInv, ReadHeader, Alloc, PassedUseless, LoopsInOrder, Inner, SymtabTypeOK, TableBuffers, CursorFacts, SectionKinds,
     Useless, HasTable, HasKind
<1>10. InflatedWhole'
  BY <1>2, <1>3 DEF SymtabIInv, ReadHeader, Alloc, InflatedWhole, SymtabTypeOK, LoopsInOrder, CursorFacts
<1> QED
  BY <1>1, <1>4, <1>5, <1>6, <1>7, <1>8, <1>9, <1>10 DEF SymtabIInv

(* Search keeps the invariant. *)
LEMMA SearchInv == ASSUME SymtabIInv, Search PROVE SymtabIInv'
<1> DEFINE Same == (InDebug' <=> InDebug) /\ cursor'[1] = cursor[1] /\ cursor'[2] = cursor[2]
<1>1. SymtabTypeOK'
  BY AdvanceShape, CursorNow, SymtabAssumption DEF SymtabIInv, Search, Passes, EndLabel, SymtabTypeOK, Stepped
<1>2. CursorFacts /\ CursorFacts'
  BY <1>1, CursorNow, CursorNext DEF SymtabIInv
<1>3. /\ step = "search" /\ result = "fail" /\ UNCHANGED <<elf, heap, fd, refused, cap, done, result>>
      /\ \/ /\ Header <= Len(Sections) /\ Passes /\ step' = "search" /\ (InDebug' <=> InDebug)
            /\ (InDebug => cursor'[1] = cursor[1] /\ cursor'[2] = cursor[2] + 1)
            /\ (~InDebug => cursor'[1] = cursor[1] + 1)
         \/ Same /\ Header > Len(Sections) /\ step' = IF InDebug THEN "innerEnd" ELSE "end"
         \/ Same /\ Header <= Len(Sections) /\ Sections[Header] = "symtab" /\ step' = "table"
         \/ Same /\ Header <= Len(Sections) /\ Sections[Header] = "debugdata" /\ ~InDebug /\ step' = "zip"
  <2>1. Header \in Nat /\ (InDebug => Header \in Nat \ {0}) /\ Sections \in Seq(SectionKinds) /\ Header \in Nat \ {0}
    BY <1>2 DEF CursorFacts, SymtabIInv, LoopsInOrder
  <2>2. Header <= Len(Sections) => Sections[Header] \in SectionKinds
    BY <2>1
  <2>3. CASE Header <= Len(Sections) /\ Passes
    BY <2>3, AdvanceShape DEF SymtabIInv, SymtabTypeOK, TableBuffers, Search, InDebug, Stepped
  <2>4. CASE ~(Header <= Len(Sections) /\ Passes)
    BY <2>1, <2>2, <2>4 DEF SymtabIInv, SymtabTypeOK, TableBuffers, Search, InDebug, EndLabel, Passes, SectionKinds
  <2> QED
    BY <2>3, <2>4
<1>4. FileOpen' /\ OuterBuffers' /\ TableBuffers'
  BY <1>3 DEF SymtabIInv, FileOpen, OuterBuffers, TableBuffers
<1>5. InnerBuffers'
  BY <1>3 DEF SymtabIInv, InnerBuffers, Inner
<1>6. LoopsInOrder'
  <2>1. CASE InDebug
    <3>1. /\ Header = cursor[2] /\ Sections = elf.debug /\ cursor[2] \in Nat
          /\ InDebug' /\ Header' = cursor'[2] /\ Sections' = elf.debug /\ cursor'[1] = cursor[1]
      BY <1>2, <1>3, <2>1 DEF CursorFacts
    <3>2. cursor'[2] \in 1 .. Len(elf.debug) + 1
      BY <1>2, <1>3, <2>1, <3>1 DEF SymtabIInv, LoopsInOrder, CursorFacts
    <3> QED
      BY <1>3, <2>1, <3>1, <3>2 DEF SymtabIInv, LoopsInOrder, Inner
  <2>2. CASE ~InDebug
    BY <1>2, <1>3, <2>2 DEF SymtabIInv, LoopsInOrder, Inner, Passes, CursorFacts
  <2> QED
    BY <2>1, <2>2
<1>7. PassedUseless'
  <2>1. ~refused => \A j \in 1 .. cursor'[1] - 1 : Useless(j)
    <3>1. CASE cursor'[1] = cursor[1]
      BY <3>1 DEF SymtabIInv, PassedUseless
    <3>2. CASE ~InDebug /\ cursor'[1] = cursor[1] + 1 /\ elf.sections[cursor[1]] = "badtab"
      BY <1>2, <3>2, SMTT(60) DEF SymtabIInv, PassedUseless, CursorFacts, Useless
    <3> QED
      BY <1>2, <1>3, <3>1, <3>2 DEF Passes, CursorFacts
  <2>2. ~refused /\ InDebug => \A j \in 1 .. cursor'[2] - 1 : elf.debug[j] # "symtab"
    BY <1>2, <1>3 DEF SymtabIInv, PassedUseless, Passes, CursorFacts
  <2> QED
    BY <1>2, <1>3, <2>1, <2>2 DEF SymtabIInv, PassedUseless, CursorFacts, Useless, HasKind
<1>8. InflatedWhole'
  BY <1>3 DEF SymtabIInv, InflatedWhole
<1> QED
  BY <1>1, <1>4, <1>5, <1>6, <1>7, <1>8 DEF SymtabIInv

(* ReadTable keeps the invariant. *)
LEMMA ReadTableInv == ASSUME SymtabIInv, ReadTable PROVE SymtabIInv'
<1>1. SymtabTypeOK'
  BY AdvanceShape, CursorNow, SymtabAssumption DEF SymtabIInv, ReadTable, Alloc, WithoutStrtab, EndLabel, SymtabTypeOK, InflatedWhole, Buffers, Temporaries, Tables, Stepped, CursorFacts
<1>2. CursorFacts /\ CursorFacts'
  BY <1>1, CursorNow, CursorNext DEF SymtabIInv
<1>3. \/ cursor' = Advance /\ step' = "search" /\ (InDebug' <=> InDebug)
         /\ (InDebug => cursor'[1] = cursor[1] /\ cursor'[2] = cursor[2] + 1) /\ (~InDebug => cursor'[1] = cursor[1] + 1)
      \/ step' # "search" /\ (InDebug' <=> InDebug) /\ cursor'[1] = cursor[1] /\ cursor'[2] = cursor[2]
  BY AdvanceShape, <1>2 DEF SymtabIInv, SymtabTypeOK, InDebug, ReadTable, EndLabel, Stepped
<1>4. FileOpen'
  BY DEF SymtabIInv, ReadTable, Alloc, WithoutStrtab, EndLabel, FileOpen, SymtabTypeOK
<1>5. OuterBuffers'
  BY DEF SymtabIInv, ReadTable, Alloc, WithoutStrtab, EndLabel, OuterBuffers, SymtabTypeOK, Buffers, Temporaries, Tables
<1>6. InnerBuffers'
  BY <1>2, <1>3 DEF SymtabIInv, ReadTable, Alloc, WithoutStrtab, EndLabel, InnerBuffers, Inner, SymtabTypeOK, LoopsInOrder, Buffers, Temporaries, Tables, CursorFacts
<1>7. TableBuffers'
  BY DEF SymtabIInv, ReadTable, Alloc, WithoutStrtab, EndLabel, TableBuffers, SymtabTypeOK, Buffers, Temporaries, Tables
<1>8. LoopsInOrder'
  BY <1>2, <1>3, SMTT(60) DEF SymtabIInv, ReadTable, Alloc, WithoutStrtab, EndLabel, LoopsInOrder, Inner, SymtabTypeOK, TableBuffers, InflatedWhole, CursorFacts, SectionKinds
<1>9. PassedUseless'
  <2>1. CASE result' = "ok"
    <3>1. Header <= Len(Sections) /\ Sections[Header] = "symtab" /\ (InDebug' <=> InDebug)
          /\ step' = EndLabel /\ cursor' = cursor /\ elf' = elf /\ refused' = refused
      BY <1>3, <2>1 DEF SymtabIInv, ReadTable, LoopsInOrder, TableBuffers, InDebug
    <3>2. HasTable
      <4>1. CASE InDebug
        BY <1>2, <3>1, <4>1 DEF SymtabIInv, ReadTable, LoopsInOrder, Inner, CursorFacts, HasTable, HasKind
      <4>2. CASE ~InDebug
        BY <1>2, <3>1, <4>2 DEF SymtabIInv, LoopsInOrder, CursorFacts, HasTable, HasKind
      <4> QED
        BY <4>1, <4>2
    <3> QED
      BY <2>1, <3>1, <3>2 DEF SymtabIInv, PassedUseless, Useless, HasTable
  <2>2. CASE result' # "ok"
    BY <2>2 DEF SymtabIInv, ReadTable, PassedUseless, TableBuffers
  <2> QED
    BY <2>1, <2>2
<1>10. InflatedWhole'
  BY <1>2, <1>3 DEF SymtabIInv, ReadTable, Alloc, WithoutStrtab, EndLabel, InflatedWhole, SymtabTypeOK, LoopsInOrder, CursorFacts
<1> QED
  BY <1>1, <1>4, <1>5, <1>6, <1>7, <1>8, <1>9, <1>10 DEF SymtabIInv

(* ReadZip keeps the invariant. *)
LEMMA ReadZipInv == ASSUME SymtabIInv, ReadZip PROVE SymtabIInv'
<1>1. SymtabTypeOK'
  <2>1. CASE cap' = 2 /\ done' = 0 /\ cursor' = cursor
    <3>1. heap' \in [Buffers -> {"none", "live", "freed", "double", "lost"}]
      BY <2>1 DEF SymtabIInv, ReadZip, Alloc, SymtabTypeOK
    <3>2. cap' \in Nat /\ done' \in 0 .. cap'
      BY <2>1
    <3> QED
      BY <2>1, <3>1, <3>2 DEF SymtabIInv, ReadZip, SymtabTypeOK
  <2>2. CASE cursor' = Advance /\ UNCHANGED <<heap, cap, done>>
    BY <2>2, AdvanceShape DEF SymtabIInv, ReadZip, SymtabTypeOK, Stepped
  <2> QED
    BY <2>1, <2>2 DEF ReadZip
<1>2. CursorFacts /\ CursorFacts'
  BY <1>1, CursorNow, CursorNext DEF SymtabIInv
<1>3. \/ cursor' = Advance /\ step' = "search" /\ (InDebug' <=> InDebug)
         /\ (InDebug => cursor'[1] = cursor[1] /\ cursor'[2] = cursor[2] + 1) /\ (~InDebug => cursor'[1] = cursor[1] + 1)
      \/ step' # "search" /\ (InDebug' <=> InDebug) /\ cursor'[1] = cursor[1] /\ cursor'[2] = cursor[2]
  BY AdvanceShape, <1>2 DEF SymtabIInv, SymtabTypeOK, InDebug, ReadZip, Stepped
<1>4. FileOpen'
  BY DEF SymtabIInv, ReadZip, Alloc, FileOpen, SymtabTypeOK
<1>5. OuterBuffers'
  BY DEF SymtabIInv, ReadZip, Alloc, OuterBuffers, SymtabTypeOK, Buffers, Temporaries, Tables
<1>6. InnerBuffers'
  BY <1>2, <1>3 DEF SymtabIInv, ReadZip, Alloc, InnerBuffers, Inner, SymtabTypeOK, LoopsInOrder, Buffers, Temporaries, Tables, CursorFacts
<1>7. TableBuffers'
  BY DEF SymtabIInv, ReadZip, Alloc, TableBuffers, SymtabTypeOK, Buffers, Temporaries, Tables
<1>8. LoopsInOrder'
  BY <1>2, <1>3, SMTT(60) DEF SymtabIInv, ReadZip, Alloc, LoopsInOrder, Inner, SymtabTypeOK, TableBuffers, InflatedWhole, CursorFacts, SectionKinds
<1>9. PassedUseless'
  BY <1>2, <1>3 DEF SymtabIInv, ReadZip, Alloc, PassedUseless, LoopsInOrder, Inner, SymtabTypeOK, TableBuffers, CursorFacts, SectionKinds,
     Useless, HasTable, HasKind
<1>10. InflatedWhole'
  BY <1>2, <1>3 DEF SymtabIInv, ReadZip, Alloc, InflatedWhole, SymtabTypeOK, LoopsInOrder, CursorFacts
<1> QED
  BY <1>1, <1>4, <1>5, <1>6, <1>7, <1>8, <1>9, <1>10 DEF SymtabIInv

(* InflateRound keeps the invariant. *)
LEMMA InflateRoundInv == ASSUME SymtabIInv, InflateRound PROVE SymtabIInv'
<1>1. SymtabTypeOK'
  BY AdvanceShape, CursorNow, SymtabAssumption, SMTT(60) DEF SymtabIInv, InflateRound, Alloc, NotFinished, Doubled, SymtabTypeOK, InflatedWhole, Buffers, Temporaries, Tables, Stepped, CursorFacts
<1>2. CursorFacts /\ CursorFacts'
  BY <1>1, CursorNow, CursorNext DEF SymtabIInv
<1>3. (InDebug' <=> InDebug) /\ cursor'[1] = cursor[1] /\ cursor'[2] = cursor[2]
  BY <1>2 DEF SymtabIInv, SymtabTypeOK, InDebug, InflateRound
<1>4. FileOpen'
  BY DEF SymtabIInv, InflateRound, Alloc, NotFinished, Doubled, FileOpen, SymtabTypeOK
<1>5. OuterBuffers'
  BY DEF SymtabIInv, InflateRound, Alloc, NotFinished, Doubled, OuterBuffers, SymtabTypeOK, Buffers, Temporaries, Tables
<1>6. InnerBuffers'
  BY <1>2, <1>3 DEF SymtabIInv, InflateRound, Alloc, NotFinished, Doubled, InnerBuffers, Inner, SymtabTypeOK, LoopsInOrder, Buffers, Temporaries, Tables, CursorFacts
<1>7. TableBuffers'
  BY DEF SymtabIInv, InflateRound, Alloc, NotFinished, Doubled, TableBuffers, SymtabTypeOK, Buffers, Temporaries, Tables
<1>8. LoopsInOrder'
  BY <1>2, <1>3 DEF SymtabIInv, InflateRound, Alloc, NotFinished, Doubled, LoopsInOrder, Inner, SymtabTypeOK, TableBuffers, InflatedWhole, CursorFacts, SectionKinds
<1>9. PassedUseless'
  BY <1>2, <1>3 DEF SymtabIInv, InflateRound, Alloc, NotFinished, Doubled, PassedUseless, LoopsInOrder, Inner, SymtabTypeOK, TableBuffers, CursorFacts, SectionKinds,
     Useless, HasTable, HasKind
<1>10. InflatedWhole'
  BY <1>2, <1>3 DEF SymtabIInv, InflateRound, Alloc, NotFinished, Doubled, InflatedWhole, SymtabTypeOK, LoopsInOrder, CursorFacts
<1> QED
  BY <1>1, <1>4, <1>5, <1>6, <1>7, <1>8, <1>9, <1>10 DEF SymtabIInv

(* InflateRefused keeps the invariant. *)
LEMMA InflateRefusedInv == ASSUME SymtabIInv, InflateRefused PROVE SymtabIInv'
<1>1. SymtabTypeOK'
  BY AdvanceShape, CursorNow, SymtabAssumption DEF SymtabIInv, InflateRefused, SymtabTypeOK, InflatedWhole, Buffers, Temporaries, Tables, Stepped, CursorFacts
<1>2. CursorFacts /\ CursorFacts'
  BY <1>1, CursorNow, CursorNext DEF SymtabIInv
<1>3. (InDebug' <=> InDebug) /\ cursor'[1] = cursor[1] /\ cursor'[2] = cursor[2]
  BY <1>2 DEF SymtabIInv, SymtabTypeOK, InDebug, InflateRefused
<1>4. FileOpen'
  BY DEF SymtabIInv, InflateRefused, FileOpen, SymtabTypeOK
<1>5. OuterBuffers'
  BY DEF SymtabIInv, InflateRefused, OuterBuffers, SymtabTypeOK, Buffers, Temporaries, Tables
<1>6. InnerBuffers'
  BY <1>2, <1>3 DEF SymtabIInv, InflateRefused, InnerBuffers, Inner, SymtabTypeOK, LoopsInOrder, Buffers, Temporaries, Tables, CursorFacts
<1>7. TableBuffers'
  BY DEF SymtabIInv, InflateRefused, TableBuffers, SymtabTypeOK, Buffers, Temporaries, Tables
<1>8. LoopsInOrder'
  BY <1>2, <1>3 DEF SymtabIInv, InflateRefused, LoopsInOrder, Inner, SymtabTypeOK, TableBuffers, InflatedWhole, CursorFacts, SectionKinds
<1>9. PassedUseless'
  BY <1>2, <1>3 DEF SymtabIInv, InflateRefused, PassedUseless, LoopsInOrder, Inner, SymtabTypeOK, TableBuffers, CursorFacts, SectionKinds,
     Useless, HasTable, HasKind
<1>10. InflatedWhole'
  BY <1>2, <1>3 DEF SymtabIInv, InflateRefused, InflatedWhole, SymtabTypeOK, LoopsInOrder, CursorFacts
<1> QED
  BY <1>1, <1>4, <1>5, <1>6, <1>7, <1>8, <1>9, <1>10 DEF SymtabIInv

(* ReadInnerHeader keeps the invariant. *)
LEMMA ReadInnerHeaderInv == ASSUME SymtabIInv, ReadInnerHeader PROVE SymtabIInv'
<1>0. /\ step = "inner" /\ cursor \in Seq(Nat) /\ Len(cursor) = 1 /\ ~InDebug
      /\ heap["zip"] = "live" /\ heap["debugdata"] = "live" /\ heap["dshdrs"] = "none"
  BY DEF SymtabIInv, ReadInnerHeader, SymtabTypeOK, InDebug, LoopsInOrder, InnerBuffers, Inner
<1>3. /\ UNCHANGED <<elf, fd, cap, done, result>>
      /\ \/ /\ heap' = Alloc({"dshdrs"}) /\ step' = "search" /\ UNCHANGED refused
            /\ cursor' \in Seq(Nat) /\ Len(cursor') = 2 /\ cursor'[1] = cursor[1] /\ cursor'[2] = 1 /\ InDebug'
         \/ /\ heap' \in {heap, Alloc({"dshdrs"})} /\ refused' = TRUE /\ step' = "innerEnd"
            /\ cursor' = cursor /\ ~InDebug'
  <2>1. /\ Append(cursor, 1) \in Seq(Nat) /\ Len(Append(cursor, 1)) = 2
        /\ Append(cursor, 1)[1] = cursor[1] /\ Append(cursor, 1)[2] = 1
    <3>1. 1 \in Nat /\ 1 \in 1 .. 1 /\ 1 + 1 = 2
      OBVIOUS
    <3> DEFINE one == 1
               next == Append(cursor, one)
    <3>2. one \in Nat
      OBVIOUS
    <3> HIDE DEF one
    <3>3. /\ next \in Seq(Nat) /\ Len(next) = Len(cursor) + 1
          /\ \A i \in 1 .. Len(cursor) : next[i] = cursor[i]
          /\ next[Len(cursor) + 1] = one
      BY <1>0, <3>2, AppendShape, Zenon
    <3> HIDE DEF next
    <3>4. next \in Seq(Nat) /\ Len(next) = 2 /\ next[1] = cursor[1] /\ next[2] = one
      BY <1>0, <3>1, <3>3
    <3> QED
      BY <3>4 DEF one, next
  <2>2. /\ UNCHANGED <<elf, fd, cap, done, result>>
        /\ \/ /\ heap' = Alloc({"dshdrs"}) /\ step' = "search" /\ UNCHANGED refused /\ cursor' = Append(cursor, 1)
           \/ /\ heap' \in {heap, Alloc({"dshdrs"})} /\ refused' = TRUE /\ step' = "innerEnd" /\ cursor' = cursor
    BY DEF ReadInnerHeader
  <2>3. CASE cursor' = Append(cursor, 1)
    BY <1>0, <2>1, <2>2, <2>3 DEF InDebug
  <2>4. CASE cursor' = cursor
    BY <1>0, <2>1, <2>2, <2>4 DEF InDebug
  <2> QED
    BY <2>2, <2>3, <2>4
<1>1. SymtabTypeOK'
  BY <1>0, <1>3, ZenonT(60) DEF SymtabIInv, Alloc, SymtabTypeOK, Buffers, Temporaries, Tables
<1>2. CursorFacts /\ CursorFacts'
  BY <1>1, CursorNow, CursorNext DEF SymtabIInv
<1>4. FileOpen'
  BY DEF SymtabIInv, ReadInnerHeader, Alloc, FileOpen, SymtabTypeOK
<1>5. OuterBuffers'
  BY DEF SymtabIInv, ReadInnerHeader, Alloc, OuterBuffers, SymtabTypeOK, Buffers, Temporaries, Tables
<1>6. InnerBuffers'
  BY <1>0, <1>3 DEF SymtabIInv, Alloc, InnerBuffers, Inner, Buffers, Temporaries, Tables
<1>7. TableBuffers'
  BY DEF SymtabIInv, ReadInnerHeader, Alloc, TableBuffers, SymtabTypeOK, Buffers, Temporaries, Tables
<1>8. LoopsInOrder'
  BY <1>0, <1>2, <1>3, SMTT(60) DEF SymtabIInv, LoopsInOrder, Inner, CursorFacts
<1>9. PassedUseless'
  BY <1>2, <1>3, SMTT(60) DEF SymtabIInv, ReadInnerHeader, Alloc, PassedUseless, LoopsInOrder, Inner, SymtabTypeOK, TableBuffers, CursorFacts, SectionKinds,
     Useless, HasTable, HasKind
<1>10. InflatedWhole'
  BY <1>2, <1>3 DEF SymtabIInv, ReadInnerHeader, Alloc, InflatedWhole, SymtabTypeOK, LoopsInOrder, CursorFacts
<1> QED
  BY <1>1, <1>4, <1>5, <1>6, <1>7, <1>8, <1>9, <1>10 DEF SymtabIInv

(* InnerEnd keeps the invariant. *)
LEMMA InnerEndInv == ASSUME SymtabIInv, InnerEnd PROVE SymtabIInv'
<1>0. step = "innerEnd" /\ cursor[1] + 1 \in Nat /\ result \in {"ok", "fail"}
  BY CursorNow DEF SymtabIInv, InnerEnd, CursorFacts, SymtabTypeOK
<1>3. /\ UNCHANGED <<elf, fd, refused, cap, done, result>> /\ heap' = Freed(InnerTemporaries)
      /\ \/ result = "ok" /\ step' = "end" /\ cursor' = cursor /\ (InDebug' <=> InDebug)
         \/ /\ result = "fail" /\ step' = "search" /\ cursor' \in Seq(Nat) /\ Len(cursor') = 1
            /\ cursor'[1] = cursor[1] + 1 /\ ~InDebug'
  <2>1. CASE cursor' = cursor /\ result = "ok"
    BY <1>0, <2>1 DEF InnerEnd, InDebug
  <2>2. CASE cursor' = <<cursor[1] + 1>> /\ result = "fail"
    <3>1. cursor' \in Seq(Nat) /\ Len(cursor') = 1 /\ cursor'[1] = cursor[1] + 1
      BY <1>0, <2>2
    <3> QED
      BY <1>0, <2>2, <3>1 DEF InnerEnd, InDebug
  <2> QED
    BY <1>0, <2>1, <2>2 DEF InnerEnd
<1>1. SymtabTypeOK'
  BY <1>0, <1>3 DEF SymtabIInv, Freed, InnerTemporaries, SymtabTypeOK, Buffers, Temporaries, Tables
<1>2. CursorFacts /\ CursorFacts'
  BY <1>1, CursorNow, CursorNext DEF SymtabIInv
<1>4. FileOpen'
  BY DEF SymtabIInv, InnerEnd, Freed, InnerTemporaries, FileOpen, SymtabTypeOK
<1>5. OuterBuffers'
  BY DEF SymtabIInv, InnerEnd, Freed, InnerTemporaries, OuterBuffers, SymtabTypeOK, Buffers, Temporaries, Tables
<1>6. InnerBuffers'
  BY <1>2, <1>3, SMTT(60) DEF SymtabIInv, InnerEnd, Freed, InnerTemporaries, InnerBuffers, Inner, SymtabTypeOK, LoopsInOrder, Buffers, Temporaries, Tables, CursorFacts
<1>7. TableBuffers'
  BY DEF SymtabIInv, InnerEnd, Freed, InnerTemporaries, TableBuffers, SymtabTypeOK, Buffers, Temporaries, Tables
<1>8. LoopsInOrder'
  BY <1>0, <1>2, <1>3 DEF SymtabIInv, LoopsInOrder, Inner, CursorFacts, TableBuffers
<1>9. PassedUseless'
  <2>1. ~refused /\ result = "fail" => Useless(cursor[1])
    BY <1>0, <1>2 DEF SymtabIInv, PassedUseless, LoopsInOrder, Inner, CursorFacts, Useless, HasKind
  <2>2. CASE result = "ok"
    BY <1>0, <1>3, <2>2 DEF SymtabIInv, PassedUseless, Useless, HasTable, HasKind
  <2>3. CASE result = "fail"
    BY <1>0, <1>2, <1>3, <2>1, <2>3, SMTT(60) DEF SymtabIInv, PassedUseless, Useless, HasTable, CursorFacts
  <2> QED
    BY <1>0, <2>2, <2>3
<1>10. InflatedWhole'
  BY <1>2, <1>3 DEF SymtabIInv, InnerEnd, Freed, InnerTemporaries, InflatedWhole, SymtabTypeOK, LoopsInOrder, CursorFacts
<1> QED
  BY <1>1, <1>4, <1>5, <1>6, <1>7, <1>8, <1>9, <1>10 DEF SymtabIInv

(* EndOfLoad keeps the invariant. *)
LEMMA EndOfLoadInv == ASSUME SymtabIInv, EndOfLoad PROVE SymtabIInv'
<1>1. SymtabTypeOK'
  BY AdvanceShape, CursorNow, SymtabAssumption DEF SymtabIInv, EndOfLoad, Freed, SymtabTypeOK, InflatedWhole, Buffers, Temporaries, Tables, Stepped, CursorFacts
<1>2. CursorFacts /\ CursorFacts'
  BY <1>1, CursorNow, CursorNext DEF SymtabIInv
<1>3. (InDebug' <=> InDebug) /\ cursor'[1] = cursor[1] /\ cursor'[2] = cursor[2]
  BY <1>2 DEF SymtabIInv, SymtabTypeOK, InDebug, EndOfLoad
<1>4. FileOpen'
  BY DEF SymtabIInv, EndOfLoad, Freed, FileOpen, SymtabTypeOK
<1>5. OuterBuffers'
  BY DEF SymtabIInv, EndOfLoad, Freed, OuterBuffers, SymtabTypeOK, Buffers, Temporaries, Tables
<1>6. InnerBuffers'
  BY <1>2, <1>3 DEF SymtabIInv, EndOfLoad, Freed, InnerBuffers, Inner, SymtabTypeOK, LoopsInOrder, Buffers, Temporaries, Tables, CursorFacts
<1>7. TableBuffers'
  BY DEF SymtabIInv, EndOfLoad, Freed, TableBuffers, SymtabTypeOK, Buffers, Temporaries, Tables
<1>8. LoopsInOrder'
  BY <1>2, <1>3 DEF SymtabIInv, EndOfLoad, Freed, LoopsInOrder, Inner, SymtabTypeOK, TableBuffers, InflatedWhole, CursorFacts, SectionKinds
<1>9. PassedUseless'
  BY <1>2, <1>3 DEF SymtabIInv, EndOfLoad, Freed, PassedUseless, LoopsInOrder, Inner, SymtabTypeOK, TableBuffers, CursorFacts, SectionKinds,
     Useless, HasTable, HasKind
<1>10. InflatedWhole'
  BY <1>2, <1>3 DEF SymtabIInv, EndOfLoad, Freed, InflatedWhole, SymtabTypeOK, LoopsInOrder, CursorFacts
<1> QED
  BY <1>1, <1>4, <1>5, <1>6, <1>7, <1>8, <1>9, <1>10 DEF SymtabIInv

(* The loader starts in the invariant. *)
LEMMA SymtabInitInv == SymtabInit => SymtabIInv
<1> SUFFICES ASSUME SymtabInit PROVE SymtabIInv
  OBVIOUS
<1>1. cursor = <<1>> /\ cursor \in Seq(Nat) /\ Len(cursor) = 1 /\ ~InDebug
  BY DEF SymtabInit, InDebug
<1>2. SymtabTypeOK
  <2>1. heap \in [Buffers -> {"none", "live", "freed", "double", "lost"}]
    BY DEF SymtabInit
  <2>2. cap = 0 /\ done = 0 /\ cap \in Nat /\ done \in 0 .. cap
    BY DEF SymtabInit
  <2> QED
    BY <1>1, <2>1, <2>2 DEF SymtabInit, SymtabTypeOK
<1>3. FileOpen /\ OuterBuffers /\ InnerBuffers /\ TableBuffers
  BY <1>1 DEF SymtabInit, FileOpen, OuterBuffers, InnerBuffers, TableBuffers, Inner, Buffers, Temporaries, Tables
<1>4. LoopsInOrder /\ PassedUseless /\ InflatedWhole
  BY <1>1, <1>2, CursorNow DEF SymtabInit, LoopsInOrder, PassedUseless, InflatedWhole, Inner, CursorFacts
<1> QED
  BY <1>2, <1>3, <1>4 DEF SymtabIInv

(* What the loader promises follows from the invariant. *)
LEMMA SymtabInvHolds == SymtabIInv => SymtabInv
<1> SUFFICES ASSUME SymtabIInv PROVE SymtabInv
  OBVIOUS
<1>1. NothingLeaks
  <2> SUFFICES ASSUME step = "return" PROVE NothingLeaks
    BY DEF NothingLeaks
  <2>1. ~Inner /\ ~fd
    BY DEF SymtabIInv, FileOpen, Inner
  <2>2. \A b \in Temporaries : heap[b] # "live"
    BY <2>1 DEF SymtabIInv, OuterBuffers, InnerBuffers, Temporaries
  <2>3. \A b \in Tables : heap[b] = "live" <=> result = "ok"
    BY DEF SymtabIInv, TableBuffers
  <2> QED
    BY <2>1, <2>2, <2>3 DEF NothingLeaks
<1>2. FreedOnce
  BY DEF SymtabIInv, OuterBuffers, InnerBuffers, TableBuffers, FreedOnce, Buffers, Temporaries
<1>3. TableFound
  <2> SUFFICES ASSUME step = "return", ~refused PROVE result = "ok" <=> HasTable
    BY DEF TableFound, HasTable
  <2>1. result = "ok" => HasTable
    BY DEF SymtabIInv, PassedUseless
  <2>2. CASE result = "fail"
    <3>1. \A j \in 1 .. Len(elf.sections) : Useless(j)
      BY <2>2, CursorNow DEF SymtabIInv, PassedUseless, LoopsInOrder, CursorFacts
    <3> QED
      BY <2>2, <3>1, CursorNow DEF SymtabIInv, CursorFacts, Useless, HasTable, HasKind
  <2> QED
    BY <2>1, <2>2 DEF SymtabIInv, SymtabTypeOK
<1> QED
  BY <1>1, <1>2, <1>3 DEF SymtabIInv, SymtabInv

(* Whatever read, allocation or decompression fails, loading .symtab frees *)
(* and closes what it took, once, and finds the table that is there        *)
(* (xdl.c, xdl_symtab_load).                                               *)
THEOREM SymtabCorrect == SymtabSpec => []SymtabInv
<1>1. SymtabIInv /\ [SymtabNext]_symtabVars => SymtabIInv'
  <2> SUFFICES ASSUME SymtabIInv, [SymtabNext]_symtabVars PROVE SymtabIInv'
    OBVIOUS
  <2>1. CASE UNCHANGED symtabVars
    BY <2>1 DEF symtabVars, SymtabIInv, SymtabTypeOK, FileOpen, OuterBuffers, InnerBuffers, TableBuffers,
                LoopsInOrder, PassedUseless, InflatedWhole, Inner, InDebug, Header, Sections, Useless, HasTable
  <2> QED
    BY <2>1, OpenFileInv, ReadHeaderInv, SearchInv, ReadTableInv, ReadZipInv, InflateRoundInv, InflateRefusedInv,
       ReadInnerHeaderInv, InnerEndInv, EndOfLoadInv DEF SymtabNext
<1> QED
  BY <1>1, SymtabInitInv, SymtabInvHolds, PTL DEF SymtabSpec
-----------------------------------------------------------------------------
(* A set of numbers that is not empty has a least one. *)
LEMMA LeastNat ==
    ASSUME NEW S, S \subseteq Nat, S # {}
    PROVE  \E m \in S : \A x \in S : m <= x
<1>1. \A x, y \in Nat : x < y => <<x, y>> \in OpToRel(<, Nat)
  <2> SUFFICES ASSUME NEW x \in Nat, NEW y \in Nat, x < y PROVE <<x, y>> \in OpToRel(<, Nat)
    OBVIOUS
  <2>1. <<x, y>> \in Nat \X Nat /\ <<x, y>>[1] < <<x, y>>[2]
    OBVIOUS
  <2> QED
    BY <2>1, Zenon DEF OpToRel
<1> DEFINE R == OpToRel(<, Nat)
<1>2. IsWellFoundedOn(R, Nat)
  BY NatLessThanWellFounded
<1> HIDE DEF R
<1>3. PICK m \in S : \A x \in S : ~(<<x, m>> \in R)
  BY <1>2, WFMin, Zenon
<1>4. \A x \in S : ~(x < m)
  BY <1>1, <1>3 DEF R
<1> QED
  BY <1>4

(* The steps of Among along the first k members of a sequence. *)
Filters(f, s, S, k) ==
    f = [n \in 0 .. k |-> IF n = 0 THEN <<>> ELSE IF s[n] \in S THEN Append(f[n - 1], s[n]) ELSE f[n - 1]]

(* What such a function is at each step. *)
Filtered(f, s, S, k) ==
    /\ f[0] = <<>>
    /\ \A n \in 1 .. k : f[n] = IF s[n] \in S THEN Append(f[n - 1], s[n]) ELSE f[n - 1]

(* A function of these steps is such at each. *)
LEMMA FiltersUnfold ==
    ASSUME NEW f, NEW s, NEW S, NEW k \in Nat, Filters(f, s, S, k)
    PROVE  Filtered(f, s, S, k)
<1> DEFINE body(n) == IF n = 0 THEN <<>> ELSE IF s[n] \in S THEN Append(f[n - 1], s[n]) ELSE f[n - 1]
<1>1. f = [n \in 0 .. k |-> body(n)]
  BY Zenon DEF Filters
<1> HIDE DEF body
<1>2. \A n \in 0 .. k : f[n] = body(n)
  BY <1>1, Zenon
<1>3. 0 \in 0 .. k /\ \A n \in 1 .. k : n \in 0 .. k /\ n # 0
  OBVIOUS
<1>4. body(0) = <<>>
  BY DEF body
<1>5. \A n \in 1 .. k : body(n) = IF s[n] \in S THEN Append(f[n - 1], s[n]) ELSE f[n - 1]
  BY <1>3, Zenon DEF body
<1> QED
  BY <1>2, <1>3, <1>4, <1>5, Zenon DEF Filtered

(* Function f does m steps in X, one after another, from b.                *)
StepsOf(f, G, X, b, m) ==
    f \in [0 .. m -> X] /\ f[0] = b /\ \A n \in 1 .. m : f[n] = G[n][f[n - 1]]

(* There is such a function. *)
LEMMA StepsExist ==
    ASSUME NEW X, NEW b \in X, NEW m \in Nat, NEW G \in [1 .. m -> [X -> X]]
    PROVE  \E f : StepsOf(f, G, X, b, m)
<1> DEFINE Does(f, k) == f[0] = b /\ \A n \in 1 .. k : f[n] = G[n][f[n - 1]]
           Good(k) == \E f \in [0 .. k -> X] : Does(f, k)
           Bad == {k \in Nat : k <= m /\ ~Good(k)}
<1>1. Good(0)
  <2> DEFINE f == [n \in 0 .. 0 |-> b]
  <2>1. f \in [0 .. 0 -> X] /\ Does(f, 0)
    OBVIOUS
  <2> HIDE DEF f, Does
  <2> QED
    BY <2>1
<1>2. ASSUME NEW k \in Nat, k + 1 <= m, Good(k) PROVE Good(k + 1)
  <2> PICK f \in [0 .. k -> X] : Does(f, k)
    BY <1>2
  <2> DEFINE h == [n \in 0 .. k + 1 |-> IF n = k + 1 THEN G[k + 1][f[k]] ELSE f[n]]
  <2>1. k + 1 \in 1 .. m /\ k \in 0 .. k
    BY <1>2
  <2>2. G[k + 1] \in [X -> X] /\ f[k] \in X
    BY <2>1
  <2>3. h \in [0 .. k + 1 -> X]
    <3>1. \A n \in 0 .. k + 1 : n # k + 1 => n \in 0 .. k
      OBVIOUS
    <3> QED
      BY <2>2, <3>1
  <2>4. h[0] = b /\ h[k + 1] = G[k + 1][f[k]] /\ \A n \in 0 .. k : h[n] = f[n]
    OBVIOUS
  <2> HIDE DEF h
  <2>5. \A n \in 1 .. k + 1 : h[n] = G[n][h[n - 1]]
    <3> SUFFICES ASSUME NEW n \in 1 .. k + 1 PROVE h[n] = G[n][h[n - 1]]
      OBVIOUS
    <3>1. CASE n = k + 1
      <4>1. n - 1 = k /\ k \in 0 .. k
        BY <3>1
      <4> QED
        BY <2>4, <3>1, <4>1
    <3>2. CASE n # k + 1
      <4>1. n \in 1 .. k /\ n \in 0 .. k /\ n - 1 \in 0 .. k
        BY <3>2
      <4>2. f[n] = G[n][f[n - 1]]
        BY <4>1
      <4> QED
        BY <2>4, <4>1, <4>2
    <3> QED
      BY <3>1, <3>2
  <2> QED
    BY <2>3, <2>4, <2>5
<1> HIDE DEF Good
<1>3. Bad = {}
  <2> SUFFICES ASSUME Bad # {} PROVE FALSE
    OBVIOUS
  <2>1. PICK k \in Bad : \A x \in Bad : k <= x
    <3>1. Bad \subseteq Nat
      OBVIOUS
    <3> HIDE DEF Bad
    <3> QED
      BY <3>1, LeastNat, Zenon
  <2>2. k \in Nat /\ k <= m /\ ~Good(k) /\ k # 0
    BY <1>1
  <2> DEFINE j == k - 1
  <2>3. j \in Nat /\ j + 1 = k /\ j + 1 <= m /\ j <= m /\ ~(k <= j)
    BY <2>2
  <2> HIDE DEF j
  <2>4. Good(j)
    BY <2>1, <2>3
  <2> QED
    BY <1>2, <2>2, <2>3, <2>4
<1>4. Good(m)
  BY <1>3
<1> QED
  BY <1>4 DEF Good, StepsOf

(* There is a function that keeps the members in S. *)
LEMMA FilterExists ==
    ASSUME NEW T, NEW s \in Seq(T), NEW S
    PROVE  \E f : Filters(f, s, S, Len(s))
<1> DEFINE m == Len(s)  X == Seq(T)
           G == [n \in 1 .. m |-> [q \in X |-> IF s[n] \in S THEN Append(q, s[n]) ELSE q]]
<1>1. m \in Nat /\ <<>> \in X /\ G \in [1 .. m -> [X -> X]]
  OBVIOUS
<1>2. \A n \in 1 .. m, q \in X : G[n][q] = IF s[n] \in S THEN Append(q, s[n]) ELSE q
  OBVIOUS
<1> HIDE DEF m, X, G
<1>3. PICK f \in [0 .. m -> X] : f[0] = <<>> /\ \A n \in 1 .. m : f[n] = G[n][f[n - 1]]
  <2> DEFINE e == <<>>
  <2>1. e \in X
    BY <1>1
  <2>2. m \in Nat
    BY <1>1
  <2>3. G \in [1 .. m -> [X -> X]]
    BY <1>1
  <2> HIDE DEF e
  <2>4. PICK f : StepsOf(f, G, X, e, m)
    BY <2>1, <2>2, <2>3, StepsExist, Zenon
  <2> QED
    BY <2>4 DEF e, StepsOf
<1>4. \A n \in 0 .. m : f[n] = IF n = 0 THEN <<>> ELSE IF s[n] \in S THEN Append(f[n - 1], s[n]) ELSE f[n - 1]
  <2> SUFFICES ASSUME NEW n \in 0 .. m
               PROVE  f[n] = IF n = 0 THEN <<>> ELSE IF s[n] \in S THEN Append(f[n - 1], s[n]) ELSE f[n - 1]
    BY Zenon
  <2>1. CASE n = 0
    BY <1>3, <2>1
  <2>2. CASE n # 0
    <3>1. n \in 1 .. m /\ n - 1 \in 0 .. m
      BY <1>1, <2>2
    <3>2. f[n - 1] \in X
      BY <3>1
    <3>3. f[n] = IF s[n] \in S THEN Append(f[n - 1], s[n]) ELSE f[n - 1]
      BY <1>2, <1>3, <3>1, <3>2
    <3> QED
      BY <2>2, <3>3, Zenon
  <2> QED
    BY <2>1, <2>2
<1>5. f = [n \in 0 .. m |-> f[n]]
  OBVIOUS
<1>6. Filters(f, s, S, m)
  BY <1>4, <1>5 DEF Filters
<1> QED
  BY <1>6, Zenon DEF m

(* Among is the last of these steps. *)
LEMMA AmongSteps ==
    ASSUME NEW T, NEW s \in Seq(T), NEW S
    PROVE  \E f : Filtered(f, s, S, Len(s)) /\ Among(s, S) = f[Len(s)]
<1> DEFINE f == CHOOSE f : Filters(f, s, S, Len(s))
<1>1. Filters(f, s, S, Len(s))
  BY FilterExists, Zenon
<1>2. Among(s, S) = f[Len(s)]
  BY Zenon DEF Among, Filters
<1> HIDE DEF f
<1>3. Len(s) \in Nat
  OBVIOUS
<1>4. Filtered(f, s, S, Len(s))
  BY <1>1, <1>3, FiltersUnfold, Zenon
<1> QED
  BY <1>2, <1>4, Zenon

(* One more member at the end of a sequence. *)
LEMMA AppendFacts ==
    ASSUME NEW T, NEW q \in Seq(T), NEW x \in T
    PROVE  /\ Append(q, x) \in Seq(T)
           /\ ToSet(Append(q, x)) = ToSet(q) \cup {x}
           /\ IsInjective(q) /\ x \notin ToSet(q) => IsInjective(Append(q, x))
<1> DEFINE r == Append(q, x)
<1>1. r \in Seq(T) /\ Len(q) \in Nat /\ Len(r) = Len(q) + 1
  OBVIOUS
<1>2. DOMAIN q = 1 .. Len(q) /\ DOMAIN r = 1 .. Len(q) + 1
  OBVIOUS
<1>3. (\A i \in 1 .. Len(q) : r[i] = q[i]) /\ r[Len(q) + 1] = x
  OBVIOUS
<1> HIDE DEF r
<1>4. \A i \in 1 .. Len(q) + 1 : i \in 1 .. Len(q) \/ i = Len(q) + 1
  BY <1>1
<1>5. Len(q) + 1 \in 1 .. Len(q) + 1 /\ \A i \in 1 .. Len(q) : i \in 1 .. Len(q) + 1
  BY <1>1
<1>6. ToSet(r) = ToSet(q) \cup {x}
  <2>1. \A y \in ToSet(r) : y \in ToSet(q) \cup {x}
    BY <1>2, <1>3, <1>4, Zenon DEF ToSet
  <2>2. \A y \in ToSet(q) \cup {x} : y \in ToSet(r)
    BY <1>2, <1>3, <1>5, Zenon DEF ToSet
  <2> QED
    BY <2>1, <2>2, Zenon
<1>7. ASSUME IsInjective(q), x \notin ToSet(q) PROVE IsInjective(r)
  <2> SUFFICES ASSUME NEW i \in 1 .. Len(q) + 1, NEW j \in 1 .. Len(q) + 1, r[i] = r[j] PROVE i = j
    BY <1>2, Zenon DEF IsInjective
  <2>1. \A k \in 1 .. Len(q) : r[k] # x
    BY <1>2, <1>3, <1>7, Zenon DEF ToSet
  <2>2. CASE i \in 1 .. Len(q) /\ j \in 1 .. Len(q)
    BY <1>2, <1>3, <1>7, <2>2, Zenon DEF IsInjective
  <2>3. CASE i = Len(q) + 1 \/ j = Len(q) + 1
    BY <1>3, <1>4, <2>1, <2>3, Zenon
  <2> QED
    BY <1>4, <2>2, <2>3, Zenon
<1> QED
  BY <1>1, <1>6, <1>7, Zenon DEF r

(* The first k steps have kept the members in S among the first k. *)
Kept(f, s, S, T, k) ==
    /\ f[k] \in Seq(T)
    /\ ToSet(f[k]) = {s[i] : i \in 1 .. k} \cap S
    /\ IsInjective(s) => IsInjective(f[k])

(* One more step does so for one more member. *)
LEMMA KeptStep ==
    ASSUME NEW T, NEW s \in Seq(T), NEW S, NEW f, NEW k \in Nat, k + 1 <= Len(s),
           Kept(f, s, S, T, k),
           f[k + 1] = IF s[k + 1] \in S THEN Append(f[k], s[k + 1]) ELSE f[k]
    PROVE  Kept(f, s, S, T, k + 1)
<1> DEFINE q == f[k]  x == s[k + 1]  n == k + 1
<1>1. q \in Seq(T) /\ ToSet(q) = {s[i] : i \in 1 .. k} \cap S /\ (IsInjective(s) => IsInjective(q))
  BY DEF Kept
<1>2. x \in T /\ n \in DOMAIN s
  OBVIOUS
<1>3. \A i \in 1 .. k : i \in 1 .. n /\ i \in DOMAIN s /\ i # n
  OBVIOUS
<1>4. n \in 1 .. n /\ \A i \in 1 .. n : i \in 1 .. k \/ i = n
  OBVIOUS
<1>5. f[n] = IF x \in S THEN Append(q, x) ELSE q
  OBVIOUS
<1>6. x = s[n]
  OBVIOUS
<1> HIDE DEF q, x, n
<1>7. {s[i] : i \in 1 .. n} = {s[i] : i \in 1 .. k} \cup {x}
  BY <1>3, <1>4, <1>6, Zenon
<1>8. CASE x \in S
  <2>1. f[n] = Append(q, x)
    BY <1>5, <1>8, Zenon
  <2> q \in Seq(T) /\ x \in T
    BY <1>1, <1>2, Zenon
  <2>2. Append(q, x) \in Seq(T) /\ ToSet(Append(q, x)) = ToSet(q) \cup {x}
    BY AppendFacts
  <2>3. ToSet(q) \cup {x} = {s[i] : i \in 1 .. n} \cap S
    BY <1>1, <1>7, <1>8, Zenon
  <2>4. ASSUME IsInjective(s) PROVE IsInjective(Append(q, x))
    <3>1. \A i \in 1 .. k : s[i] # x
      BY <1>2, <1>3, <1>6, <2>4, Zenon DEF IsInjective
    <3>2. x \notin ToSet(q)
      BY <1>1, <3>1, Zenon
    <3> QED
      BY <1>1, <1>2, <2>4, <3>2, AppendFacts, Zenon
  <2>5. Kept(f, s, S, T, n)
    BY <2>1, <2>2, <2>3, <2>4, Zenon DEF Kept
  <2> QED
    BY <2>5, Zenon DEF n
<1>9. CASE x \notin S
  <2>1. f[n] = q
    BY <1>5, <1>9, Zenon
  <2>2. {s[i] : i \in 1 .. n} \cap S = {s[i] : i \in 1 .. k} \cap S
    BY <1>7, <1>9, Zenon
  <2>3. Kept(f, s, S, T, n)
    BY <1>1, <2>1, <2>2, Zenon DEF Kept
  <2> QED
    BY <2>3, Zenon DEF n
<1> QED
  BY <1>8, <1>9, Zenon

(* What Among keeps of a sequence. *)
LEMMA AmongFacts ==
    ASSUME NEW T, NEW s \in Seq(T), NEW S
    PROVE  /\ Among(s, S) \in Seq(T)
           /\ ToSet(Among(s, S)) = ToSet(s) \cap S
           /\ IsInjective(s) => IsInjective(Among(s, S))
<1>1. PICK f : Filtered(f, s, S, Len(s)) /\ Among(s, S) = f[Len(s)]
  BY AmongSteps, Zenon
<1>2. \A k \in Nat : k + 1 <= Len(s) => f[k + 1] = IF s[k + 1] \in S THEN Append(f[k], s[k + 1]) ELSE f[k]
  <2> SUFFICES ASSUME NEW k \in Nat, k + 1 <= Len(s)
               PROVE  f[k + 1] = IF s[k + 1] \in S THEN Append(f[k], s[k + 1]) ELSE f[k]
    BY Zenon
  <2> DEFINE n == k + 1
  <2>1. n \in 1 .. Len(s) /\ n - 1 = k
    OBVIOUS
  <2> HIDE DEF n
  <2>2. f[n] = IF s[n] \in S THEN Append(f[n - 1], s[n]) ELSE f[n - 1]
    BY <1>1, <2>1, Zenon DEF Filtered
  <2>3. f[n] = IF s[n] \in S THEN Append(f[k], s[n]) ELSE f[k]
    BY <2>1, <2>2, Zenon
  <2> QED
    BY <2>3, Zenon DEF n
<1>3. Kept(f, s, S, T, 0)
  <2>1. f[0] = <<>>
    BY <1>1, Zenon DEF Filtered
  <2>2. <<>> \in Seq(T) /\ ToSet(<<>>) = {} /\ IsInjective(<<>>)
    BY DEF ToSet, IsInjective
  <2>3. {s[i] : i \in 1 .. 0} = {}
    OBVIOUS
  <2> QED
    BY <2>1, <2>2, <2>3, Zenon DEF Kept
<1> DEFINE Bad == {k \in Nat : k <= Len(s) /\ ~Kept(f, s, S, T, k)}
<1>4. Bad = {}
  <2> SUFFICES ASSUME Bad # {} PROVE FALSE
    OBVIOUS
  <2>1. PICK m \in Bad : \A k \in Bad : m <= k
    <3>1. Bad \subseteq Nat
      OBVIOUS
    <3> HIDE DEF Bad
    <3> QED
      BY <3>1, LeastNat, Zenon
  <2>2. m \in Nat /\ m <= Len(s) /\ ~Kept(f, s, S, T, m)
    OBVIOUS
  <2> DEFINE k == m - 1
  <2>3. m # 0
    BY <1>3, <2>2
  <2>4. k \in Nat /\ k + 1 = m /\ k + 1 <= Len(s) /\ k <= Len(s) /\ ~(m <= k)
    BY <2>2, <2>3
  <2> HIDE DEF k
  <2>5. Kept(f, s, S, T, k)
    BY <2>1, <2>4
  <2>6. Kept(f, s, S, T, k + 1)
    <3>1. f[k + 1] = IF s[k + 1] \in S THEN Append(f[k], s[k + 1]) ELSE f[k]
      BY <1>2, <2>4, Zenon
    <3> HIDE DEF Bad
    <3> QED
      BY <2>4, <2>5, <3>1, KeptStep, Zenon
  <2> QED
    BY <2>2, <2>4, <2>6, Zenon
<1>5. Kept(f, s, S, T, Len(s))
  <2>1. Len(s) \in Nat /\ Len(s) <= Len(s)
    OBVIOUS
  <2> QED
    BY <1>4, <2>1
<1>6. ToSet(s) = {s[i] : i \in 1 .. Len(s)}
  BY DEF ToSet
<1> QED
  BY <1>1, <1>5, <1>6, Zenon DEF Kept

(* One more member at the front of a sequence. *)
LEMMA PrependFacts ==
    ASSUME NEW T, NEW q \in Seq(T), NEW x \in T
    PROVE  /\ <<x>> \o q \in Seq(T)
           /\ ToSet(<<x>> \o q) = {x} \cup ToSet(q)
           /\ IsInjective(q) /\ x \notin ToSet(q) => IsInjective(<<x>> \o q)
<1> DEFINE r == <<x>> \o q
<1>1. r \in Seq(T) /\ Len(q) \in Nat /\ Len(r) = Len(q) + 1
  OBVIOUS
<1>2. DOMAIN q = 1 .. Len(q) /\ DOMAIN r = 1 .. Len(q) + 1
  OBVIOUS
<1>3. r[1] = x /\ (\A i \in 1 .. Len(q) : r[i + 1] = q[i])
  OBVIOUS
<1> HIDE DEF r
<1>4. \A i \in 1 .. Len(q) + 1 : i = 1 \/ (i - 1 \in 1 .. Len(q) /\ i = (i - 1) + 1)
  BY <1>1
<1>5. 1 \in 1 .. Len(q) + 1 /\ \A i \in 1 .. Len(q) : i + 1 \in 1 .. Len(q) + 1
  BY <1>1
<1>6. ToSet(r) = {x} \cup ToSet(q)
  <2>1. \A y \in ToSet(r) : y \in {x} \cup ToSet(q)
    <3> SUFFICES ASSUME NEW i \in 1 .. Len(q) + 1 PROVE r[i] \in {x} \cup ToSet(q)
      BY <1>2, Zenon DEF ToSet
    <3>1. i = 1 \/ r[i] = q[i - 1]
      BY <1>3, <1>4
    <3> QED
      BY <1>2, <1>3, <1>4, <3>1, Zenon DEF ToSet
  <2>2. \A y \in {x} \cup ToSet(q) : y \in ToSet(r)
    BY <1>2, <1>3, <1>5, Zenon DEF ToSet
  <2> QED
    BY <2>1, <2>2, Zenon
<1>7. ASSUME IsInjective(q), x \notin ToSet(q) PROVE IsInjective(r)
  <2> SUFFICES ASSUME NEW i \in 1 .. Len(q) + 1, NEW j \in 1 .. Len(q) + 1, r[i] = r[j] PROVE i = j
    BY <1>2, Zenon DEF IsInjective
  <2>1. \A k \in 1 .. Len(q) : r[k + 1] # x
    BY <1>2, <1>3, <1>7, Zenon DEF ToSet
  <2>2. CASE i # 1 /\ j # 1
    <3>1. r[i] = q[i - 1] /\ r[j] = q[j - 1]
      BY <1>3, <1>4, <2>2
    <3>2. i - 1 = j - 1
      BY <1>2, <1>4, <1>7, <2>2, <3>1, Zenon DEF IsInjective
    <3> QED
      BY <1>4, <2>2, <3>2
  <2>3. CASE i = 1 \/ j = 1
    BY <1>3, <1>4, <2>1, <2>3, Zenon
  <2> QED
    BY <2>2, <2>3, Zenon
<1> QED
  BY <1>1, <1>6, <1>7, Zenon DEF r

-----------------------------------------------------------------------------
HandlesSpec == HandlesInit /\ [][HandlesNext]_handlesVars

(* Who refers to object o: the game, a handle, or a linker handle that was *)
(* given back.                                                             *)
Holders(o)   == {h \in Handles : handle[h].holds = o}
Returners(o) == {h \in Handles : returned[h] = o}
Used(o)      == game[o] > 0 \/ Holders(o) # {} \/ Returners(o) # {}

HandleRecords == [at : {"free", "find", "force", "again", "open"}, name : Filenames \cup {<<>>},
                  object : Objects \cup {Nil}, holds : Objects \cup {Nil}]

(* What a handle has got at each step of its xdl_open. *)
Progress(h) ==
    /\ handle[h].at \in {"free", "find", "force"} => handle[h].holds = Nil
    /\ handle[h].at \in {"force", "again", "open"} => handle[h].name \in Filenames /\ returned[h] = Nil
    /\ handle[h].at = "again" => handle[h].holds # Nil
    /\ handle[h].at = "open" <=> handle[h].object # Nil
    /\ handle[h].holds # Nil => handle[h].holds = Designates[handle[h].name]

(* Where the object came from that an open and forced handle describes. *)
Described(h) ==
    handle[h].at = "open" /\ handle[h].holds # Nil /\ handle[h].name[1] = "/" =>
        \/ handle[h].object = handle[h].holds
        \/ IsStrictSuffix(Path[handle[h].object], handle[h].name)
        \/ handle[h].object = Linker

TablesTyped ==
    /\ linked \in Seq(Objects) /\ IsInjective(linked)
    /\ game \in [Objects -> 0 .. MaxRefs]
    /\ handle \in [Handles -> HandleRecords]
    /\ returned \in [Handles -> Objects \cup {Nil}]
    /\ cache \in Seq(Objects)

UsedIsLinked == \A o \in Objects \ {Linker} : Used(o) <=> o \in ToSet(linked)

(* What was remembered by address was reported once. *)
CacheKnown ==
    \A o \in ToSet(cache) : \/ o = Linker
                            \/ o \notin Zero /\ Path[o] # <<>> /\ o \in ToSet(linked) \cup gone

HandlesIInv ==
    /\ TablesTyped
    /\ \A h \in Handles : Progress(h) /\ Described(h)
    /\ UsedIsLinked
    /\ CacheKnown
    /\ LinksLoaded

(* The members of a list. *)
LEMMA InListFacts == \A o : InList(o) <=> o \in ToSet(linked)
BY DEF InList, ToSet

(* Counting the references to an object. *)
LEMMA CountFacts ==
    ASSUME NEW g \in Nat, NEW A \in SUBSET Handles, NEW B \in SUBSET Handles
    PROVE  LET n == g + (Cardinality(A) + Cardinality(B)) IN
           /\ n > 0 <=> g > 0 \/ A # {} \/ B # {}
           /\ g > 0 => (n > 1 <=> g - 1 > 0 \/ A # {} \/ B # {})
           /\ \A h \in A : n > 1 <=> g > 0 \/ A \ {h} # {} \/ B # {}
           /\ \A h \in B : n > 1 <=> g > 0 \/ A # {} \/ B \ {h} # {}
<1> DEFINE a == Cardinality(A)  b == Cardinality(B)
<1>1. \A X \in SUBSET Handles : /\ IsFiniteSet(X) /\ Cardinality(X) \in Nat
                                /\ Cardinality(X) = 0 <=> X = {}
  BY HandlesAssumption, FS_Subset, FS_CardinalityType, FS_EmptySet
<1>2. \A X \in SUBSET Handles : \A h \in X : Cardinality(X) = Cardinality(X \ {h}) + 1
  <2> SUFFICES ASSUME NEW X \in SUBSET Handles, NEW h \in X PROVE Cardinality(X) = Cardinality(X \ {h}) + 1
    OBVIOUS
  <2>1. IsFiniteSet(X) /\ X \ {h} \in SUBSET Handles
    BY <1>1
  <2>2. Cardinality(X \ {h}) = Cardinality(X) - 1
    BY <2>1, FS_RemoveElement
  <2>3. Cardinality(X) \in Nat
    BY <1>1
  <2> QED
    BY <2>2, <2>3
<1>3. a \in Nat /\ b \in Nat /\ (a = 0 <=> A = {}) /\ (b = 0 <=> B = {})
  BY <1>1
<1>4. \A h \in A : Cardinality(A \ {h}) \in Nat /\ a = Cardinality(A \ {h}) + 1 /\ (Cardinality(A \ {h}) = 0 <=> A \ {h} = {})
  BY <1>1, <1>2
<1>5. \A h \in B : Cardinality(B \ {h}) \in Nat /\ b = Cardinality(B \ {h}) + 1 /\ (Cardinality(B \ {h}) = 0 <=> B \ {h} = {})
  BY <1>1, <1>2
<1> HIDE DEF a, b
<1>6. /\ g + (a + b) > 0 <=> g > 0 \/ A # {} \/ B # {}
      /\ g > 0 => (g + (a + b) > 1 <=> g - 1 > 0 \/ A # {} \/ B # {})
  BY <1>3
<1>7. \A h \in A : g + (a + b) > 1 <=> g > 0 \/ A \ {h} # {} \/ B # {}
  <2> SUFFICES ASSUME NEW h \in A PROVE g + (a + b) > 1 <=> g > 0 \/ A \ {h} # {} \/ B # {}
    OBVIOUS
  <2> DEFINE c == Cardinality(A \ {h})  C == A \ {h}
  <2>1. c \in Nat /\ a = c + 1 /\ (c = 0 <=> C = {})
    BY <1>4
  <2> HIDE DEF c, C
  <2>2. g + (a + b) > 1 <=> g > 0 \/ C # {} \/ B # {}
    BY <1>3, <2>1
  <2> QED
    BY <2>2 DEF C
<1>8. \A h \in B : g + (a + b) > 1 <=> g > 0 \/ A # {} \/ B \ {h} # {}
  <2> SUFFICES ASSUME NEW h \in B PROVE g + (a + b) > 1 <=> g > 0 \/ A # {} \/ B \ {h} # {}
    OBVIOUS
  <2> DEFINE c == Cardinality(B \ {h})  C == B \ {h}
  <2>1. c \in Nat /\ b = c + 1 /\ (c = 0 <=> C = {})
    BY <1>5
  <2> HIDE DEF c, C
  <2>2. g + (a + b) > 1 <=> g > 0 \/ C # {} \/ A # {}
    BY <1>3, <2>1
  <2> QED
    BY <2>2 DEF C
<1> QED
  BY <1>6, <1>7, <1>8 DEF a, b

(* What the number of references to an object says of who refers to it. *)
LEMMA RefsFacts ==
    ASSUME TablesTyped, NEW o \in Objects
    PROVE  /\ Refs(o) > 0 <=> Used(o)
           /\ game[o] > 0 => (Refs(o) > 1 <=> game[o] - 1 > 0 \/ Holders(o) # {} \/ Returners(o) # {})
           /\ \A h \in Holders(o) : Refs(o) > 1 <=> game[o] > 0 \/ Holders(o) \ {h} # {} \/ Returners(o) # {}
           /\ \A h \in Returners(o) : Refs(o) > 1 <=> game[o] > 0 \/ Holders(o) # {} \/ Returners(o) \ {h} # {}
<1> DEFINE g == game[o]  A == Holders(o)  B == Returners(o)
<1>1. g \in Nat
  BY HandlesAssumption DEF TablesTyped
<1>2. A \in SUBSET Handles /\ B \in SUBSET Handles
  BY DEF Holders, Returners
<1>3. Refs(o) = g + (Cardinality(A) + Cardinality(B))
  BY DEF Refs, Held, Holders, Returners
<1>4. Used(o) <=> g > 0 \/ A # {} \/ B # {}
  BY DEF Used
<1> HIDE DEF g, A, B
<1>5. LET n == g + (Cardinality(A) + Cardinality(B)) IN
           /\ n > 0 <=> g > 0 \/ A # {} \/ B # {}
           /\ g > 0 => (n > 1 <=> g - 1 > 0 \/ A # {} \/ B # {})
           /\ \A h \in A : n > 1 <=> g > 0 \/ A \ {h} # {} \/ B # {}
           /\ \A h \in B : n > 1 <=> g > 0 \/ A # {} \/ B \ {h} # {}
  BY <1>1, <1>2, CountFacts
<1> QED
  BY <1>3, <1>4, <1>5, Zenon DEF g, A, B

(* Unloading an object that nobody else refers to. *)
LEMMA DropFacts ==
    ASSUME TablesTyped, NEW o \in Objects, Drop(o)
    PROVE  /\ linked' \in Seq(Objects) /\ IsInjective(linked)'
           /\ Refs(o) > 1 => ToSet(linked') = ToSet(linked)
           /\ ~(Refs(o) > 1) => ToSet(linked') = ToSet(linked) \ {o}
           /\ ToSet(linked) \cup gone \subseteq ToSet(linked') \cup gone'
<1>1. CASE Refs(o) > 1
  BY <1>1 DEF Drop, TablesTyped
<1>2. CASE ~(Refs(o) > 1)
  <2>1. linked' = Among(linked, Objects \ {o}) /\ gone' = gone \cup {o}
    BY <1>2 DEF Drop
  <2>2. linked \in Seq(Objects) /\ IsInjective(linked)
    BY DEF TablesTyped
  <2>3. ToSet(linked) \subseteq Objects
    BY <2>2 DEF ToSet
  <2>4. /\ linked' \in Seq(Objects) /\ IsInjective(linked')
        /\ ToSet(linked') = ToSet(linked) \cap (Objects \ {o})
    BY <2>1, <2>2, AmongFacts, Zenon
  <2>5. ToSet(linked') = ToSet(linked) \ {o}
    BY <2>3, <2>4, Zenon
  <2>6. ToSet(linked) \cup gone \subseteq ToSet(linked') \cup gone'
    BY <2>1, <2>5, Zenon
  <2> QED
    BY <1>2, <2>4, <2>5, <2>6, Zenon
<1> QED
  BY <1>1, <1>2

(* Loading an object puts it into the list once. *)
LEMMA LinkFacts ==
    ASSUME TablesTyped, NEW o \in Objects, Link(o)
    PROVE  /\ linked' \in Seq(Objects) /\ IsInjective(linked)'
           /\ ToSet(linked') = ToSet(linked) \cup {o}
<1>1. CASE InList(o)
  <2>1. linked' = linked
    BY <1>1, Zenon DEF Link
  <2>2. o \in ToSet(linked)
    BY <1>1, InListFacts, Zenon
  <2> QED
    BY <2>1, <2>2, Zenon DEF TablesTyped
<1>2. CASE ~InList(o)
  <2>1. linked' = Append(linked, o)
    BY <1>2, Zenon DEF Link
  <2>2. o \notin ToSet(linked)
    BY <1>2, InListFacts, Zenon
  <2>3. linked \in Seq(Objects) /\ IsInjective(linked)
    BY DEF TablesTyped
  <2>4. /\ Append(linked, o) \in Seq(Objects)
        /\ ToSet(Append(linked, o)) = ToSet(linked) \cup {o}
        /\ IsInjective(Append(linked, o))
    BY <2>2, <2>3, AppendFacts, ZenonT(60)
  <2> QED
    BY <2>1, <2>4, Zenon
<1> QED
  BY <1>1, <1>2, Zenon

(* What xdl_iterate_phdr reports. *)
LEMMA ReportedFacts ==
    ASSUME TablesTyped
    PROVE  /\ Reported \in Seq(Objects) /\ IsInjective(Reported)
           /\ ToSet(Reported) = {Linker} \cup {o \in ToSet(linked) \ Zero : Path[o] # <<>>}
<1> DEFINE S == {o \in Objects \ (Zero \cup {Linker}) : Path[o] # <<>>}  q == Among(linked, S)
<1>1. linked \in Seq(Objects) /\ IsInjective(linked) /\ Linker \in Objects
  BY HandlesAssumption DEF TablesTyped
<1>2. \A o \in ToSet(linked) : o \in Objects
  BY <1>1 DEF ToSet
<1>3. q \in Seq(Objects) /\ ToSet(q) = ToSet(linked) \cap S /\ IsInjective(q)
  <2> HIDE DEF S
  <2> QED
    BY <1>1, AmongFacts, Zenon
<1>4. Linker \notin S /\ \A o \in Objects : o \in S <=> o \notin Zero /\ o # Linker /\ Path[o] # <<>>
  OBVIOUS
<1>5. Reported = <<Linker>> \o q
  BY DEF Reported
<1> HIDE DEF S, q
<1>6. /\ <<Linker>> \o q \in Seq(Objects)
      /\ ToSet(<<Linker>> \o q) = {Linker} \cup ToSet(q)
      /\ IsInjective(<<Linker>> \o q)
  BY <1>1, <1>3, <1>4, PrependFacts, Zenon
<1>7. {Linker} \cup ToSet(q) = {Linker} \cup {o \in ToSet(linked) \ Zero : Path[o] # <<>>}
  BY <1>2, <1>3, <1>4
<1> QED
  BY <1>5, <1>6, <1>7, Zenon

(* The first index of a set of indices is one of them. *)
LEMMA MinFacts == \A I \in SUBSET Nat : I # {} => Min(I) \in I
<1> SUFFICES ASSUME NEW I \in SUBSET Nat, I # {} PROVE Min(I) \in I
  OBVIOUS
<1>1. \E m \in I : \A x \in I : m <= x
  BY LeastNat
<1> QED
  BY <1>1, Zenon DEF Min

(* The first object of a list that holds an address. *)
LEMMA OwnerFacts ==
    ASSUME NEW s \in Seq(Objects), NEW a
    PROVE  /\ OwnerIn(s, a) = 0 => \A o \in ToSet(s) : ~(o \notin Zero /\ a \in Pages[o])
           /\ OwnerIn(s, a) # 0 => /\ s[OwnerIn(s, a)] \in ToSet(s)
                                   /\ s[OwnerIn(s, a)] \notin Zero
                                   /\ a \in Pages[s[OwnerIn(s, a)]]
<1> DEFINE I == {i \in 1 .. Len(s) : s[i] \notin Zero /\ a \in Pages[s[i]]}
<1>1. OwnerIn(s, a) = IF I # {} THEN Min(I) ELSE 0
  BY DEF OwnerIn, SelectInSeq
<1>2. I \in SUBSET Nat /\ DOMAIN s = 1 .. Len(s)
  OBVIOUS
<1>3. \A i \in I : i \in DOMAIN s /\ i # 0 /\ s[i] \notin Zero /\ a \in Pages[s[i]]
  OBVIOUS
<1>4. \A i \in DOMAIN s : i \in I <=> s[i] \notin Zero /\ a \in Pages[s[i]]
  OBVIOUS
<1> HIDE DEF I
<1>5. I # {} => OwnerIn(s, a) \in I
  BY <1>1, <1>2, MinFacts, Zenon
<1>6. CASE I = {}
  <2>1. OwnerIn(s, a) = 0
    BY <1>1, <1>6, Zenon
  <2>2. \A o \in ToSet(s) : ~(o \notin Zero /\ a \in Pages[o])
    BY <1>4, <1>6, Zenon DEF ToSet
  <2> QED
    BY <2>1, <2>2, Zenon
<1>7. CASE I # {}
  BY <1>3, <1>5, <1>7, Zenon DEF ToSet
<1> QED
  BY <1>6, <1>7, Zenon

(* What xdl_find answers with. *)
LEMMA FindFacts ==
    ASSUME TablesTyped, NEW f, xdl_find(f) # Nil
    PROVE  \/ xdl_find(f) = Linker
           \/ /\ xdl_find(f) \in ToSet(linked)
              /\ xdl_find(f) \notin Zero
              /\ NameMatches(f, Path[xdl_find(f)])
<1> DEFINE I == {i \in 1 .. Len(Reported) : Reported[i] \notin Zero /\ NameMatches(f, Path[Reported[i]])}
           j == IF I # {} THEN Min(I) ELSE 0
<1>1. xdl_find(f) = IF IsSuffix(<<Last(Path[Linker])>>, f) THEN Linker ELSE IF j = 0 THEN Nil ELSE Reported[j]
  BY DEF xdl_find, SelectInSeq
<1>2. I \in SUBSET Nat /\ \A i \in I : i # 0 /\ i \in 1 .. Len(Reported) /\ Reported[i] \notin Zero /\ NameMatches(f, Path[Reported[i]])
  OBVIOUS
<1>3. j # 0 => j \in I
  <2> HIDE DEF I
  <2> QED
    BY <1>2, MinFacts, Zenon
<1> HIDE DEF I, j
<1>4. DOMAIN Reported = 1 .. Len(Reported)
  BY ReportedFacts
<1>5. CASE xdl_find(f) # Linker
  <2>1. j # 0 /\ xdl_find(f) = Reported[j]
    BY <1>1, <1>5, Zenon
  <2>2. Reported[j] \in ToSet(Reported)
    BY <1>2, <1>3, <1>4, <2>1, Zenon DEF ToSet
  <2>3. Reported[j] = Linker \/ Reported[j] \in ToSet(linked)
    BY <2>2, ReportedFacts, Zenon
  <2> QED
    BY <1>2, <1>3, <1>5, <2>1, <2>3, Zenon
<1> QED
  BY <1>5, Zenon

(* So it answers with an object. *)
LEMMA FindTyped ==
    ASSUME TablesTyped, NEW f, xdl_find(f) # Nil
    PROVE  xdl_find(f) \in Objects /\ xdl_find(f) \in {Linker} \cup ToSet(linked)
<1>1. \A o \in ToSet(linked) : o \in Objects
  BY DEF TablesTyped, ToSet
<1> QED
  BY <1>1, FindFacts, HandlesAssumption, Zenon

-----------------------------------------------------------------------------
(* The states in which the machine starts. *)
LEMMA HandlesInitInv == HandlesInit => HandlesIInv
<1> SUFFICES ASSUME HandlesInit PROVE HandlesIInv
  OBVIOUS
<1>1. handle = [h \in Handles |-> Free] /\ returned = [h \in Handles |-> Nil] /\ game = [o \in Objects |-> 0]
      /\ cache = <<>> /\ links = [f \in {} |-> Nil]
  BY DEF HandlesInit
<1>2. Free \in HandleRecords /\ Free.at = "free" /\ Free.holds = Nil /\ Free.object = Nil
  BY DEF Free, HandleRecords
<1>3. linked = <<>> \/ linked = <<Linker>>
  BY DEF HandlesInit
<1>4. linked \in Seq(Objects) /\ IsInjective(linked) /\ ToSet(linked) \subseteq {Linker}
  <2>1. CASE linked = <<>>
    BY <2>1 DEF ToSet, IsInjective
  <2>2. CASE linked = <<Linker>>
    BY <2>2, HandlesAssumption DEF ToSet, IsInjective
  <2> QED
    BY <1>3, <2>1, <2>2
<1>5. TablesTyped
  <2>1. game \in [Objects -> 0 .. MaxRefs]
    BY <1>1, HandlesAssumption
  <2>2. cache \in Seq(Objects)
    BY <1>1
  <2>3. handle \in [Handles -> HandleRecords] /\ returned \in [Handles -> Objects \cup {Nil}]
    BY <1>1, <1>2, Zenon
  <2> QED
    BY <1>4, <2>1, <2>2, <2>3 DEF TablesTyped
<1>6. \A h \in Handles : Progress(h) /\ Described(h)
  <2> SUFFICES ASSUME NEW h \in Handles PROVE Progress(h) /\ Described(h)
    OBVIOUS
  <2>1. handle[h] = Free
    BY <1>1
  <2> QED
    BY <1>2, <2>1 DEF Progress, Described
<1>7. UsedIsLinked
  <2> SUFFICES ASSUME NEW o \in Objects \ {Linker} PROVE ~Used(o) /\ o \notin ToSet(linked)
    BY DEF UsedIsLinked
  <2>1. Nil # o /\ ~(game[o] > 0)
    BY <1>1, HandlesAssumption
  <2>2. \A h \in Handles : handle[h].holds = Nil /\ returned[h] = Nil
    BY <1>1, <1>2, Zenon
  <2>3. Holders(o) = {} /\ Returners(o) = {}
    BY <2>1, <2>2 DEF Holders, Returners
  <2> QED
    BY <1>4, <2>1, <2>3, Zenon DEF Used
<1>8. CacheKnown /\ LinksLoaded
  BY <1>1 DEF CacheKnown, LinksLoaded, ToSet
<1> QED
  BY <1>5, <1>6, <1>7, <1>8 DEF HandlesIInv

(* Changing one handle. *)
LEMMA HandleStep ==
    ASSUME HandlesIInv, NEW h \in Handles, NEW r \in HandleRecords,
           handle' = [handle EXCEPT ![h] = r],
           returned' = returned \/ (r.at = "free" /\ returned' = [returned EXCEPT ![h] = handle[h].holds]),
           /\ r.at \in {"free", "find", "force"} => r.holds = Nil
           /\ r.at \in {"force", "again", "open"} => r.name \in Filenames /\ returned[h] = Nil
           /\ r.at = "again" => r.holds # Nil
           /\ r.at = "open" <=> r.object # Nil
           /\ r.holds # Nil => r.holds = Designates[r.name],
           r.at = "open" /\ r.holds # Nil /\ r.name[1] = "/" =>
               r.object = r.holds \/ IsStrictSuffix(Path[r.object], r.name) \/ r.object = Linker
    PROVE  /\ handle' \in [Handles -> HandleRecords]
           /\ returned' \in [Handles -> Objects \cup {Nil}]
           /\ \A k \in Handles : Progress(k)' /\ Described(k)'
           /\ handle'[h] = r /\ \A k \in Handles \ {h} : handle'[k] = handle[k]
<1>1. handle \in [Handles -> HandleRecords] /\ returned \in [Handles -> Objects \cup {Nil}]
  BY DEF HandlesIInv, TablesTyped
<1>2. handle[h].holds \in Objects \cup {Nil}
  BY <1>1 DEF HandleRecords
<1>3. handle' \in [Handles -> HandleRecords] /\ returned' \in [Handles -> Objects \cup {Nil}]
  <2> HIDE DEF HandleRecords
  <2> QED
    BY <1>1, <1>2
<1>4. handle'[h] = r /\ \A k \in Handles \ {h} : handle'[k] = handle[k] /\ returned'[k] = returned[k]
  BY <1>1
<1>5. r.at = "free" \/ returned'[h] = returned[h]
  OBVIOUS
<1>6. \A k \in Handles \ {h} : Progress(k)' /\ Described(k)'
  BY <1>4 DEF HandlesIInv, Progress, Described
<1>7. Progress(h)'
  <2>1. r.at \in {"force", "again", "open"} => returned'[h] = Nil
    BY <1>5
  <2> QED
    BY <1>4, <2>1 DEF Progress
<1>8. Described(h)'
  BY <1>4 DEF Described
<1> QED
  BY <1>3, <1>4, <1>6, <1>7, <1>8

(* Who refers to an object after one handle has changed. *)
LEMMA HoldersStep ==
    ASSUME NEW h \in Handles, \A k \in Handles \ {h} : handle'[k] = handle[k]
    PROVE  \A p : /\ handle'[h].holds = p  => Holders(p)' = Holders(p) \cup {h}
                  /\ handle'[h].holds # p => Holders(p)' = Holders(p) \ {h}
                  /\ h \in Holders(p) <=> handle[h].holds = p
<1> SUFFICES ASSUME NEW p
             PROVE  /\ handle'[h].holds = p  => Holders(p)' = Holders(p) \cup {h}
                    /\ handle'[h].holds # p => Holders(p)' = Holders(p) \ {h}
                    /\ h \in Holders(p) <=> handle[h].holds = p
  OBVIOUS
<1>1. \A k \in Handles : /\ k \in Holders(p) <=> handle[k].holds = p
                         /\ k \in Holders(p)' <=> handle'[k].holds = p
  BY DEF Holders
<1>2. Holders(p) \subseteq Handles /\ Holders(p)' \subseteq Handles
  BY DEF Holders
<1>4. CASE handle'[h].holds = p
  <2>1. \A k \in Handles : k \in Holders(p)' <=> k \in Holders(p) \cup {h}
    BY <1>1, <1>4, Zenon
  <2>2. Holders(p)' = Holders(p) \cup {h}
    BY <1>2, <2>1
  <2> QED
    BY <1>1, <1>4, <2>2
<1>5. CASE handle'[h].holds # p
  <2>1. \A k \in Handles : k \in Holders(p)' <=> k \in Holders(p) \ {h}
    BY <1>1, <1>5, Zenon
  <2>2. Holders(p)' = Holders(p) \ {h}
    BY <1>2, <2>1
  <2> QED
    BY <1>1, <1>5, <2>2
<1> QED
  BY <1>4, <1>5, Zenon

(* Who has been given an object back after one was given back or closed.   *)
LEMMA ReturnersStep ==
    ASSUME NEW h \in Handles, \A k \in Handles \ {h} : returned'[k] = returned[k]
    PROVE  \A p : /\ returned'[h] = p  => Returners(p)' = Returners(p) \cup {h}
                  /\ returned'[h] # p => Returners(p)' = Returners(p) \ {h}
                  /\ h \in Returners(p) <=> returned[h] = p
<1> SUFFICES ASSUME NEW p
             PROVE  /\ returned'[h] = p  => Returners(p)' = Returners(p) \cup {h}
                    /\ returned'[h] # p => Returners(p)' = Returners(p) \ {h}
                    /\ h \in Returners(p) <=> returned[h] = p
  OBVIOUS
<1>1. \A k \in Handles : /\ k \in Returners(p) <=> returned[k] = p
                         /\ k \in Returners(p)' <=> returned'[k] = p
  BY DEF Returners
<1>2. Returners(p) \subseteq Handles /\ Returners(p)' \subseteq Handles
  BY DEF Returners
<1>4. CASE returned'[h] = p
  <2>1. \A k \in Handles : k \in Returners(p)' <=> k \in Returners(p) \cup {h}
    BY <1>1, <1>4, Zenon
  <2>2. Returners(p)' = Returners(p) \cup {h}
    BY <1>2, <2>1
  <2> QED
    BY <1>1, <1>4, <2>2
<1>5. CASE returned'[h] # p
  <2>1. \A k \in Handles : k \in Returners(p)' <=> k \in Returners(p) \ {h}
    BY <1>1, <1>5, Zenon
  <2>2. Returners(p)' = Returners(p) \ {h}
    BY <1>2, <2>1
  <2> QED
    BY <1>1, <1>5, <2>2
<1> QED
  BY <1>4, <1>5, Zenon

(* What is remembered stays known while nothing is forgotten. *)
LEMMA KnownStays ==
    ASSUME HandlesIInv, UNCHANGED <<cache, links>>, ToSet(linked) \cup gone \subseteq ToSet(linked') \cup gone'
    PROVE  CacheKnown' /\ LinksLoaded'
BY Zenon DEF HandlesIInv, CacheKnown, LinksLoaded

(* The game loads a library. *)
LEMMA GameLoadsInv ==
    ASSUME HandlesIInv, NEW o \in Objects, GameLoads(o)
    PROVE  HandlesIInv'
<1>1. TablesTyped
  BY DEF HandlesIInv
<1>2. game[o] < MaxRefs /\ game' = [game EXCEPT ![o] = @ + 1] /\ Link(o)
      /\ UNCHANGED <<handle, returned, cache, gone, links>>
  BY DEF GameLoads
<1>3. /\ linked' \in Seq(Objects) /\ IsInjective(linked)'
      /\ ToSet(linked') = ToSet(linked) \cup {o}
  BY <1>1, <1>2, LinkFacts, Zenon
<1>4. game' \in [Objects -> 0 .. MaxRefs] /\ game'[o] > 0 /\ \A p \in Objects \ {o} : game'[p] = game[p]
  BY <1>1, <1>2, HandlesAssumption DEF TablesTyped
<1>5. TablesTyped'
  BY <1>1, <1>2, <1>3, <1>4 DEF TablesTyped
<1>6. \A h \in Handles : Progress(h)' /\ Described(h)'
  BY <1>2 DEF HandlesIInv, Progress, Described
<1>7. UsedIsLinked'
  <2>1. \A p : Holders(p)' = Holders(p) /\ Returners(p)' = Returners(p)
    BY <1>2 DEF Holders, Returners
  <2>2. \A p \in Objects \ {o} : Used(p)' <=> Used(p)
    BY <1>4, <2>1 DEF Used
  <2>3. Used(o)'
    BY <1>4 DEF Used
  <2> QED
    BY <1>3, <2>2, <2>3, Zenon DEF HandlesIInv, UsedIsLinked
<1>8. CacheKnown' /\ LinksLoaded'
  <2>1. ToSet(linked) \cup gone \subseteq ToSet(linked') \cup gone' /\ UNCHANGED <<cache, links>>
    BY <1>2, <1>3
  <2> QED
    BY <2>1, KnownStays
<1> QED
  BY <1>5, <1>6, <1>7, <1>8 DEF HandlesIInv

(* The game lets a library go. *)
LEMMA GameUnloadsInv ==
    ASSUME HandlesIInv, NEW o \in Objects, GameUnloads(o)
    PROVE  HandlesIInv'
<1>1. TablesTyped
  BY DEF HandlesIInv
<1>2. game[o] > 0 /\ game' = [game EXCEPT ![o] = @ - 1] /\ Drop(o)
      /\ UNCHANGED <<handle, returned, cache, links>>
  BY DEF GameUnloads
<1>3. /\ linked' \in Seq(Objects) /\ IsInjective(linked)'
      /\ Refs(o) > 1 => ToSet(linked') = ToSet(linked)
      /\ ~(Refs(o) > 1) => ToSet(linked') = ToSet(linked) \ {o}
      /\ ToSet(linked) \cup gone \subseteq ToSet(linked') \cup gone'
  BY <1>1, <1>2, DropFacts, Zenon
<1>4. game' \in [Objects -> 0 .. MaxRefs] /\ game'[o] = game[o] - 1 /\ \A p \in Objects \ {o} : game'[p] = game[p]
  BY <1>1, <1>2, HandlesAssumption DEF TablesTyped
<1>5. TablesTyped'
  BY <1>1, <1>2, <1>3, <1>4 DEF TablesTyped
<1>6. \A h \in Handles : Progress(h)' /\ Described(h)'
  BY <1>2 DEF HandlesIInv, Progress, Described
<1>7. UsedIsLinked'
  <2>1. \A p : Holders(p)' = Holders(p) /\ Returners(p)' = Returners(p)
    BY <1>2 DEF Holders, Returners
  <2>2. \A p \in Objects \ {o} : Used(p)' <=> Used(p)
    BY <1>4, <2>1 DEF Used
  <2>3. Used(o)' <=> Refs(o) > 1
    <3>1. Refs(o) > 1 <=> game[o] - 1 > 0 \/ Holders(o) # {} \/ Returners(o) # {}
      BY <1>1, <1>2, RefsFacts, Zenon
    <3> QED
      BY <1>4, <2>1, <3>1, Zenon DEF Used
  <2>4. o # Linker /\ Used(o) => o \in ToSet(linked)
    BY DEF HandlesIInv, UsedIsLinked
  <2>5. Used(o)
    BY <1>2 DEF Used
  <2> QED
    BY <1>3, <2>2, <2>3, <2>4, <2>5, Zenon DEF HandlesIInv, UsedIsLinked
<1>8. CacheKnown' /\ LinksLoaded'
  BY <1>2, <1>3, KnownStays
<1> QED
  BY <1>5, <1>6, <1>7, <1>8 DEF HandlesIInv

(* A handle that changes without taking or giving up a library leaves the  *)
(* references as they are.                                                 *)
LEMMA SameReferences ==
    ASSUME HandlesIInv, NEW h \in Handles, \A k \in Handles \ {h} : handle'[k] = handle[k],
           handle'[h].holds = handle[h].holds, UNCHANGED <<linked, game, returned>>
    PROVE  UsedIsLinked'
<1>1. \A p : Holders(p)' = Holders(p)
  <2>1. \A k \in Handles : handle'[k].holds = handle[k].holds
    OBVIOUS
  <2> QED
    BY <2>1 DEF Holders
<1>2. \A p : Returners(p)' = Returners(p)
  BY DEF Returners
<1>3. \A p : Used(p)' <=> Used(p)
  BY <1>1, <1>2 DEF Used
<1> QED
  BY <1>3 DEF HandlesIInv, UsedIsLinked

(* A name is looked for, and a handle opened without force.                *)
LEMMA OpenInv ==
    ASSUME HandlesIInv, NEW h \in Handles, NEW f \in Filenames, NEW flags, xdl_open(h, f, flags)
    PROVE  HandlesIInv'
<1>1. TablesTyped /\ Progress(h)
  BY DEF HandlesIInv
<1>2. handle[h].at = "free" /\ returned[h] = Nil /\ UNCHANGED <<linked, game, returned, cache, gone, links>>
  BY DEF xdl_open
<1>3. handle[h].holds = Nil
  BY <1>1, <1>2 DEF Progress
<1>4. \E r \in HandleRecords :
         /\ handle' = [handle EXCEPT ![h] = r]
         /\ r.holds = Nil /\ r.name = f
         /\ (r.at = "force" /\ r.object = Nil) \/ (r.at = "open" /\ r.object # Nil)
  <2>1. CASE flags # "always" /\ xdl_find(f) # Nil
    <3> DEFINE r == OpenHandle(f, xdl_find(f), Nil)
    <3>1. xdl_find(f) \in Objects
      BY <1>1, <2>1, FindTyped
    <3>2. r \in HandleRecords /\ r.holds = Nil /\ r.name = f /\ r.at = "open" /\ r.object # Nil
      BY <2>1, <3>1 DEF OpenHandle, HandleRecords
    <3>3. handle' = [handle EXCEPT ![h] = r]
      BY <2>1 DEF xdl_open
    <3> HIDE DEF r
    <3> QED
      BY <3>2, <3>3
  <2>2. CASE ~(flags # "always" /\ xdl_find(f) # Nil)
    <3> DEFINE r == [Free EXCEPT !.at = "force", !.name = f]
    <3>1. r \in HandleRecords /\ r.holds = Nil /\ r.name = f /\ r.at = "force" /\ r.object = Nil
      BY DEF Free, HandleRecords
    <3>2. handle' = [handle EXCEPT ![h] = r]
      BY <2>2 DEF xdl_open
    <3> HIDE DEF r
    <3> QED
      BY <3>1, <3>2
  <2> QED
    BY <2>1, <2>2
<1>5. PICK r \in HandleRecords :
         /\ handle' = [handle EXCEPT ![h] = r]
         /\ r.holds = Nil /\ r.name = f
         /\ (r.at = "force" /\ r.object = Nil) \/ (r.at = "open" /\ r.object # Nil)
  BY <1>4, Zenon
<1>6. /\ handle' \in [Handles -> HandleRecords]
      /\ returned' \in [Handles -> Objects \cup {Nil}]
      /\ \A k \in Handles : Progress(k)' /\ Described(k)'
      /\ handle'[h] = r /\ \A k \in Handles \ {h} : handle'[k] = handle[k]
  BY <1>2, <1>5, HandleStep
<1>7. UsedIsLinked'
  BY <1>2, <1>3, <1>5, <1>6, SameReferences
<1>8. TablesTyped'
  BY <1>1, <1>2, <1>6 DEF TablesTyped
<1>9. CacheKnown' /\ LinksLoaded'
  BY <1>2, KnownStays
<1> QED
  BY <1>6, <1>7, <1>8, <1>9 DEF HandlesIInv

(* dlopen in the name of a caller. *)
LEMMA ForceLoadInv ==
    ASSUME HandlesIInv, NEW h \in Handles, ForceLoad(h)
    PROVE  HandlesIInv'
<1>1. TablesTyped /\ Progress(h)
  BY DEF HandlesIInv
<1>2. handle[h].at = "force" /\ UNCHANGED <<game, returned, cache, gone, links>>
  BY DEF ForceLoad
<1>3. handle[h].holds = Nil /\ handle[h].object = Nil /\ handle[h].name \in Filenames /\ returned[h] = Nil
  BY <1>1, <1>2 DEF Progress
<1>4. handle[h] \in HandleRecords /\ handle \in [Handles -> HandleRecords]
  BY <1>1 DEF TablesTyped
<1>5. CASE handle' = [handle EXCEPT ![h] = Free] /\ UNCHANGED linked
  <2>1. Free \in HandleRecords /\ Free.at = "free" /\ Free.holds = Nil /\ Free.object = Nil
    BY DEF Free, HandleRecords
  <2>2. /\ handle' \in [Handles -> HandleRecords]
        /\ returned' \in [Handles -> Objects \cup {Nil}]
        /\ \A k \in Handles : Progress(k)' /\ Described(k)'
        /\ handle'[h] = Free /\ \A k \in Handles \ {h} : handle'[k] = handle[k]
    BY <1>2, <1>5, <2>1, HandleStep
  <2>3. UsedIsLinked'
    BY <1>2, <1>3, <1>5, <2>1, <2>2, SameReferences
  <2>4. TablesTyped'
    BY <1>1, <1>2, <1>5, <2>2 DEF TablesTyped
  <2>5. CacheKnown' /\ LinksLoaded'
    BY <1>2, <1>5, KnownStays
  <2> QED
    BY <2>2, <2>3, <2>4, <2>5 DEF HandlesIInv
<1>6. ASSUME NEW o, o = Designates[handle[h].name], o # Nil, Link(o),
             handle' = [handle EXCEPT ![h].at = "again", ![h].holds = o]
      PROVE  HandlesIInv'
  <2>1. o \in Objects
    BY <1>3, <1>6, HandlesAssumption
  <2> DEFINE r == [at |-> "again", name |-> handle[h].name, object |-> Nil, holds |-> o]
  <2>2. r \in HandleRecords /\ r.at = "again" /\ r.name = handle[h].name /\ r.object = Nil /\ r.holds = o
    BY <1>3, <2>1 DEF HandleRecords
  <2>3. handle' = [handle EXCEPT ![h] = r]
    BY <1>3, <1>4, <1>6 DEF HandleRecords
  <2> HIDE DEF r
  <2>4. /\ handle' \in [Handles -> HandleRecords]
        /\ returned' \in [Handles -> Objects \cup {Nil}]
        /\ \A k \in Handles : Progress(k)' /\ Described(k)'
        /\ handle'[h] = r /\ \A k \in Handles \ {h} : handle'[k] = handle[k]
    BY <1>2, <1>3, <1>6, <2>2, <2>3, HandleStep, ZenonT(60)
  <2>5. /\ linked' \in Seq(Objects) /\ IsInjective(linked)'
        /\ ToSet(linked') = ToSet(linked) \cup {o}
    BY <1>1, <1>6, <2>1, LinkFacts, Zenon
  <2>6. UsedIsLinked'
    <3>1. Holders(o)' # {}
      <4>1. Holders(o)' = Holders(o) \cup {h}
        BY <2>2, <2>4, HoldersStep
      <4> QED
        BY <4>1
    <3>2. \A p \in Objects \ {o} : Holders(p)' = Holders(p)
      <4> SUFFICES ASSUME NEW p \in Objects \ {o} PROVE Holders(p)' = Holders(p)
        OBVIOUS
      <4>1. handle'[h].holds # p /\ handle[h].holds # p
        BY <1>3, <2>2, <2>4, HandlesAssumption
      <4>2. Holders(p)' = Holders(p) \ {h} /\ h \notin Holders(p)
        BY <2>4, <4>1, HoldersStep
      <4> QED
        BY <4>2
    <3>3. \A p : Returners(p)' = Returners(p)
      BY <1>2 DEF Returners
    <3>4. Used(o)' /\ \A p \in Objects \ {o} : Used(p)' <=> Used(p)
      BY <1>2, <3>1, <3>2, <3>3 DEF Used
    <3> QED
      BY <2>5, <3>4, Zenon DEF HandlesIInv, UsedIsLinked
  <2>7. TablesTyped'
    BY <1>1, <1>2, <2>4, <2>5 DEF TablesTyped
  <2>8. CacheKnown' /\ LinksLoaded'
    <3>1. ToSet(linked) \cup gone \subseteq ToSet(linked') \cup gone'
      BY <1>2, <2>5
    <3> QED
      BY <1>2, <3>1, KnownStays
  <2> QED
    BY <2>4, <2>6, <2>7, <2>8 DEF HandlesIInv
<1> QED
  BY <1>5, <1>6 DEF ForceLoad

(* A name looked for again by its full path is the one that was loaded.    *)
LEMMA FoundAgain ==
    ASSUME HandlesIInv, NEW f \in Filenames, f[1] = "/", Designates[f] # Nil, xdl_find(f) # Nil
    PROVE  \/ xdl_find(f) = Designates[f]
           \/ IsStrictSuffix(Path[xdl_find(f)], f)
           \/ xdl_find(f) = Linker
<1> DEFINE o == xdl_find(f)
<1>1. TablesTyped
  BY DEF HandlesIInv
<1>2. CASE o # Linker
  <2>1. NameMatches(f, Path[o]) /\ o \in Objects
    BY <1>1, <1>2, FindFacts, FindTyped
  <2> HIDE DEF o
  <2>2. CASE Path[o][1] = "/"
    <3>1. f = Path[o]
      BY <2>1, <2>2 DEF NameMatches
    <3>2. o = Designates[f]
      BY <2>1, <3>1, HandlesAssumption
    <3> QED
      BY <3>2 DEF o
  <2>3. CASE Path[o][1] # "/"
    <3>1. IsSuffix(Path[o], f)
      BY <2>1, <2>3 DEF NameMatches
    <3>2. Path[o] # f
      BY <2>3
    <3> QED
      BY <3>1, <3>2 DEF o, IsStrictSuffix
  <2> QED
    BY <2>2, <2>3
<1> QED
  BY <1>2

(* The second find. *)
LEMMA FindAgainInv ==
    ASSUME HandlesIInv, NEW h \in Handles, FindAgain(h)
    PROVE  HandlesIInv'
<1>1. TablesTyped /\ Progress(h)
  BY DEF HandlesIInv
<1> SUFFICES ASSUME NEW f, NEW d, f = handle[h].name, d = handle[h].holds PROVE HandlesIInv'
  OBVIOUS
<1>2. handle[h].at = "again" /\ UNCHANGED <<game, cache, links>>
  BY DEF FindAgain
<1>3. f \in Filenames /\ d = Designates[f] /\ d # Nil /\ d \in Objects /\ returned[h] = Nil
  BY <1>1, <1>2, HandlesAssumption DEF Progress
<1>4. handle[h] \in HandleRecords /\ handle \in [Handles -> HandleRecords]
  BY <1>1 DEF TablesTyped
<1>5. CASE xdl_find(f) = Nil
  <2>1. handle' = [handle EXCEPT ![h] = Free] /\ Drop(d) /\ UNCHANGED returned
    BY <1>5 DEF FindAgain, NotFound
  <2>2. Free \in HandleRecords /\ Free.at = "free" /\ Free.holds = Nil /\ Free.object = Nil
    BY DEF Free, HandleRecords
  <2>3. /\ handle' \in [Handles -> HandleRecords]
        /\ returned' \in [Handles -> Objects \cup {Nil}]
        /\ \A k \in Handles : Progress(k)' /\ Described(k)'
        /\ handle'[h] = Free /\ \A k \in Handles \ {h} : handle'[k] = handle[k]
    BY <2>1, <2>2, HandleStep
  <2>4. /\ linked' \in Seq(Objects) /\ IsInjective(linked)'
        /\ Refs(d) > 1 => ToSet(linked') = ToSet(linked)
        /\ ~(Refs(d) > 1) => ToSet(linked') = ToSet(linked) \ {d}
        /\ ToSet(linked) \cup gone \subseteq ToSet(linked') \cup gone'
    BY <1>1, <1>3, <2>1, DropFacts, Zenon
  <2>5. UsedIsLinked'
    <3>1. \A p : Returners(p)' = Returners(p)
      BY <2>1 DEF Returners
    <3>2. \A p \in Objects \ {d} : Holders(p)' = Holders(p)
      <4> SUFFICES ASSUME NEW p \in Objects \ {d} PROVE Holders(p)' = Holders(p)
        OBVIOUS
      <4>1. handle'[h].holds # p /\ handle[h].holds # p
        BY <2>2, <2>3, HandlesAssumption
      <4>2. Holders(p)' = Holders(p) \ {h} /\ h \notin Holders(p)
        BY <2>3, <4>1, HoldersStep
      <4> QED
        BY <4>2
    <3>3. Holders(d)' = Holders(d) \ {h} /\ h \in Holders(d)
      <4>1. handle'[h].holds # d /\ handle[h].holds = d
        BY <1>3, <2>2, <2>3
      <4> QED
        BY <2>3, <4>1, HoldersStep
    <3>4. \A p \in Objects \ {d} : Used(p)' <=> Used(p)
      BY <1>2, <3>1, <3>2 DEF Used
    <3>5. Used(d)' <=> Refs(d) > 1
      <4>1. Refs(d) > 1 <=> game[d] > 0 \/ Holders(d) \ {h} # {} \/ Returners(d) # {}
        BY <1>1, <1>3, <3>3, RefsFacts, Zenon
      <4>2. game' = game
        BY <1>2
      <4> QED
        BY <3>1, <3>3, <4>1, <4>2, Zenon DEF Used
    <3>6. Used(d)
      BY <3>3, Zenon DEF Used
    <3>7. d # Linker => d \in ToSet(linked)
      BY <1>3, <3>6 DEF HandlesIInv, UsedIsLinked
    <3> QED
      BY <2>4, <3>4, <3>5, <3>7, Zenon DEF HandlesIInv, UsedIsLinked
  <2>6. TablesTyped'
    BY <1>1, <1>2, <2>3, <2>4 DEF TablesTyped
  <2>7. CacheKnown' /\ LinksLoaded'
    BY <1>2, <2>4, KnownStays
  <2> QED
    BY <2>3, <2>5, <2>6, <2>7 DEF HandlesIInv
<1>6. CASE xdl_find(f) # Nil
  <2> DEFINE r == OpenHandle(f, xdl_find(f), d)
  <2>1. handle' = [handle EXCEPT ![h] = r] /\ UNCHANGED <<linked, gone, returned>>
    BY <1>4, <1>6 DEF FindAgain
  <2>2. xdl_find(f) \in Objects
    BY <1>1, <1>6, FindTyped
  <2>3. r \in HandleRecords /\ r.at = "open" /\ r.name = f /\ r.object = xdl_find(f) /\ r.holds = d
    BY <1>3, <2>2 DEF OpenHandle, HandleRecords
  <2>4. f[1] = "/" => \/ xdl_find(f) = d
                      \/ IsStrictSuffix(Path[xdl_find(f)], f)
                      \/ xdl_find(f) = Linker
    BY <1>3, <1>6, FoundAgain
  <2>9. handle[h].holds = d
    OBVIOUS
  <2> HIDE DEF r
  <2>5. /\ handle' \in [Handles -> HandleRecords]
        /\ returned' \in [Handles -> Objects \cup {Nil}]
        /\ \A k \in Handles : Progress(k)' /\ Described(k)'
        /\ handle'[h] = r /\ \A k \in Handles \ {h} : handle'[k] = handle[k]
    BY <1>3, <1>6, <2>1, <2>3, <2>4, HandleStep
  <2>6. UsedIsLinked'
    BY <1>2, <2>1, <2>3, <2>5, <2>9, SameReferences
  <2>7. TablesTyped'
    BY <1>1, <1>2, <2>1, <2>5 DEF TablesTyped
  <2>8. CacheKnown' /\ LinksLoaded'
    BY <1>2, <2>1, KnownStays
  <2> QED
    BY <2>5, <2>6, <2>7, <2>8 DEF HandlesIInv
<1> QED
  BY <1>5, <1>6

(* A handle is closed, and what dlopen had returned given back. *)
LEMMA CloseInv ==
    ASSUME HandlesIInv, NEW h \in Handles, xdl_close(h)
    PROVE  HandlesIInv'
<1> SUFFICES ASSUME NEW d, d = handle[h].holds PROVE HandlesIInv'
  OBVIOUS
<1>1. TablesTyped /\ Progress(h)
  BY DEF HandlesIInv
<1>2. /\ handle[h].at = "open" /\ UNCHANGED <<linked, game, cache, gone, links>>
      /\ handle' = [handle EXCEPT ![h] = Free] /\ returned' = [returned EXCEPT ![h] = handle[h].holds]
  BY DEF xdl_close
<1>3. returned[h] = Nil
  BY <1>1, <1>2 DEF Progress
<1>4. returned \in [Handles -> Objects \cup {Nil}]
  BY <1>1 DEF TablesTyped
<1>5. Free \in HandleRecords /\ Free.at = "free" /\ Free.holds = Nil /\ Free.object = Nil
  BY DEF Free, HandleRecords
<1>6. /\ handle' \in [Handles -> HandleRecords]
      /\ returned' \in [Handles -> Objects \cup {Nil}]
      /\ \A k \in Handles : Progress(k)' /\ Described(k)'
      /\ handle'[h] = Free /\ \A k \in Handles \ {h} : handle'[k] = handle[k]
  BY <1>2, <1>5, HandleStep
<1>7. returned'[h] = d /\ \A k \in Handles \ {h} : returned'[k] = returned[k]
  BY <1>2, <1>4
<1>8. UsedIsLinked'
  <2>1. \A p \in Objects \ {d} : Used(p)' <=> Used(p)
    <3> SUFFICES ASSUME NEW p \in Objects \ {d} PROVE Used(p)' <=> Used(p)
      OBVIOUS
    <3>1. handle'[h].holds # p /\ handle[h].holds # p /\ returned'[h] # p /\ returned[h] # p
      BY <1>3, <1>5, <1>6, <1>7, HandlesAssumption
    <3>2. Holders(p)' = Holders(p) \ {h} /\ h \notin Holders(p)
      BY <1>6, <3>1, HoldersStep
    <3>3. Returners(p)' = Returners(p) \ {h} /\ h \notin Returners(p)
      BY <1>7, <3>1, ReturnersStep
    <3> QED
      BY <1>2, <3>2, <3>3 DEF Used
  <2>2. d \in Objects => Used(d)' /\ Used(d)
    <3>1. Returners(d)' = Returners(d) \cup {h} /\ h \in Holders(d)
      BY <1>6, <1>7, HoldersStep, ReturnersStep
    <3>2. Returners(d)' # {} /\ Holders(d) # {}
      BY <3>1
    <3> QED
      BY <3>2 DEF Used
  <2>3. linked' = linked
    BY <1>2
  <2> QED
    BY <2>1, <2>2, <2>3, Zenon DEF HandlesIInv, UsedIsLinked
<1>9. TablesTyped'
  BY <1>1, <1>2, <1>6 DEF TablesTyped
<1>10. CacheKnown' /\ LinksLoaded'
  BY <1>2, KnownStays
<1> QED
  BY <1>6, <1>8, <1>9, <1>10 DEF HandlesIInv

(* The caller closes what it was given back. *)
LEMMA DlcloseInv ==
    ASSUME HandlesIInv, NEW h \in Handles, dlclose(h)
    PROVE  HandlesIInv'
<1> SUFFICES ASSUME NEW d, d = returned[h] PROVE HandlesIInv'
  OBVIOUS
<1>1. TablesTyped
  BY DEF HandlesIInv
<1>2. /\ d # Nil /\ UNCHANGED <<game, handle, cache, links>>
      /\ returned' = [returned EXCEPT ![h] = Nil] /\ Drop(d)
  BY DEF dlclose
<1>3. returned \in [Handles -> Objects \cup {Nil}] /\ d \in Objects
  BY <1>1, <1>2 DEF TablesTyped
<1>4. /\ returned' \in [Handles -> Objects \cup {Nil}]
      /\ returned'[h] = Nil /\ \A k \in Handles \ {h} : returned'[k] = returned[k]
  BY <1>2, <1>3
<1>5. \A k \in Handles : Progress(k)' /\ Described(k)'
  <2> SUFFICES ASSUME NEW k \in Handles PROVE Progress(k)' /\ Described(k)'
    OBVIOUS
  <2>1. Progress(k) /\ Described(k) /\ handle'[k] = handle[k]
    BY <1>2 DEF HandlesIInv
  <2>2. returned[k] = Nil => returned'[k] = Nil
    BY <1>4
  <2> QED
    BY <2>1, <2>2 DEF Progress, Described
<1>6. /\ linked' \in Seq(Objects) /\ IsInjective(linked)'
      /\ Refs(d) > 1 => ToSet(linked') = ToSet(linked)
      /\ ~(Refs(d) > 1) => ToSet(linked') = ToSet(linked) \ {d}
      /\ ToSet(linked) \cup gone \subseteq ToSet(linked') \cup gone'
  BY <1>1, <1>2, <1>3, DropFacts, Zenon
<1>7. UsedIsLinked'
  <2>1. \A p : Holders(p)' = Holders(p)
    BY <1>2 DEF Holders
  <2>2. \A p \in Objects \ {d} : Returners(p)' = Returners(p)
    <3> SUFFICES ASSUME NEW p \in Objects \ {d} PROVE Returners(p)' = Returners(p)
      OBVIOUS
    <3>1. returned'[h] # p /\ returned[h] # p
      BY <1>4, HandlesAssumption
    <3>2. Returners(p)' = Returners(p) \ {h} /\ h \notin Returners(p)
      BY <1>4, <3>1, ReturnersStep
    <3> QED
      BY <3>2
  <2>3. Returners(d)' = Returners(d) \ {h} /\ h \in Returners(d)
    <3>1. returned'[h] # d
      BY <1>2, <1>4
    <3> QED
      BY <1>4, <3>1, ReturnersStep
  <2>4. \A p \in Objects \ {d} : Used(p)' <=> Used(p)
    BY <1>2, <2>1, <2>2 DEF Used
  <2>5. Used(d)' <=> Refs(d) > 1
    <3>1. Refs(d) > 1 <=> game[d] > 0 \/ Holders(d) # {} \/ Returners(d) \ {h} # {}
      BY <1>1, <1>3, <2>3, RefsFacts, Zenon
    <3>2. game' = game
      BY <1>2
    <3> QED
      BY <2>1, <2>3, <3>1, <3>2, Zenon DEF Used
  <2>6. Used(d)
    BY <2>3, Zenon DEF Used
  <2>7. d # Linker => d \in ToSet(linked)
    BY <1>3, <2>6 DEF HandlesIInv, UsedIsLinked
  <2> QED
    BY <1>6, <2>4, <2>5, <2>7, Zenon DEF HandlesIInv, UsedIsLinked
<1>8. TablesTyped'
  BY <1>1, <1>2, <1>4, <1>6 DEF TablesTyped
<1>9. CacheKnown' /\ LinksLoaded'
  BY <1>2, <1>6, KnownStays
<1> QED
  BY <1>5, <1>7, <1>8, <1>9 DEF HandlesIInv

(* An address is looked up, its library remembered or all forgotten; a     *)
(* base address is kept in lib_links.                                      *)
LEMMA AnswersInv ==
    ASSUME HandlesIInv, (\E a \in Addresses : xdl_addr(a)) \/ xdl_addr_clean \/ \E f \in LinkNames : getLibraryAddress(f)
    PROVE  HandlesIInv'
<1>1. TablesTyped
  BY DEF HandlesIInv
<1>2. UNCHANGED <<linked, game, handle, returned, gone>>
  BY DEF xdl_addr, xdl_addr_clean, getLibraryAddress
<1>3. (\A h \in Handles : Progress(h)' /\ Described(h)') /\ UsedIsLinked'
  BY <1>2 DEF HandlesIInv, Progress, Described, UsedIsLinked, Used, Holders, Returners
<1>4. cache' \in Seq(Objects) /\ CacheKnown' /\ LinksLoaded'
  <2>1. CASE \E a \in Addresses : xdl_addr(a)
    <3> PICK a \in Addresses : xdl_addr(a)
      BY <2>1
    <3> SUFFICES ASSUME NEW o, o = AddrAnswer(a) PROVE cache' \in Seq(Objects) /\ CacheKnown' /\ LinksLoaded'
      OBVIOUS
    <3>1. OwnerIn(cache, a) = 0 /\ o # Nil /\ cache' = <<o>> \o cache /\ UNCHANGED <<linked, gone, links>>
      BY DEF xdl_addr
    <3>2. Reported \in Seq(Objects)
      BY <1>1, ReportedFacts
    <3>3. OwnerIn(Reported, a) # 0 /\ o = Reported[OwnerIn(Reported, a)]
      BY <3>1 DEF AddrAnswer
    <3>4. o \in ToSet(Reported) /\ o \notin Zero
      BY <3>2, <3>3, OwnerFacts
    <3>5. o = Linker \/ (o \notin Zero /\ Path[o] # <<>> /\ o \in ToSet(linked))
      BY <1>1, <3>4, ReportedFacts
    <3>6. o \in Objects /\ cache \in Seq(Objects)
      BY <1>1, <3>2, <3>4 DEF TablesTyped, ToSet
    <3>7. <<o>> \o cache \in Seq(Objects) /\ ToSet(<<o>> \o cache) = {o} \cup ToSet(cache)
      BY <3>6, PrependFacts, Zenon
    <3>8. cache' \in Seq(Objects) /\ ToSet(cache') = {o} \cup ToSet(cache)
      BY <3>1, <3>7
    <3>9. CacheKnown'
      BY <1>2, <3>5, <3>8 DEF HandlesIInv, CacheKnown
    <3>10. LinksLoaded'
      BY <1>2, <3>1 DEF HandlesIInv, LinksLoaded
    <3> QED
      BY <3>8, <3>9, <3>10
  <2>2. CASE xdl_addr_clean
    <3>1. cache' = <<>> /\ UNCHANGED links
      BY <2>2 DEF xdl_addr_clean
    <3>2. ToSet(cache') = {}
      BY <3>1 DEF ToSet
    <3> QED
      BY <1>2, <3>1, <3>2 DEF HandlesIInv, CacheKnown, LinksLoaded
  <2>3. CASE \E f \in LinkNames : getLibraryAddress(f)
    <3> PICK f \in LinkNames : getLibraryAddress(f)
      BY <2>3
    <3> SUFFICES ASSUME NEW o, o = xdl_find(f) PROVE cache' \in Seq(Objects) /\ CacheKnown' /\ LinksLoaded'
      OBVIOUS
    <3>1. o # Nil /\ links' = [g \in DOMAIN links \cup {f} |-> IF g = f THEN o ELSE links[g]] /\ UNCHANGED cache
      BY DEF getLibraryAddress, Remembered
    <3>2. o \in {Linker} \cup ToSet(linked)
      BY <1>1, <3>1, FindTyped
    <3>3. \A g \in DOMAIN links' : links'[g] = o \/ (g \in DOMAIN links /\ links'[g] = links[g])
      BY <3>1
    <3>4. LinksLoaded'
      BY <1>2, <3>1, <3>2, <3>3 DEF HandlesIInv, LinksLoaded
    <3> QED
      BY <1>1, <1>2, <3>1, <3>4 DEF TablesTyped, HandlesIInv, CacheKnown
  <2> QED
    BY <2>1, <2>2, <2>3
<1>5. TablesTyped'
  BY <1>1, <1>2, <1>4 DEF TablesTyped
<1> QED
  BY <1>3, <1>4, <1>5 DEF HandlesIInv

(* Every step of the machine. *)
LEMMA HandlesNextInv == HandlesIInv /\ [HandlesNext]_handlesVars => HandlesIInv'
<1> SUFFICES ASSUME HandlesIInv, [HandlesNext]_handlesVars PROVE HandlesIInv'
  OBVIOUS
<1>1. CASE UNCHANGED handlesVars
  BY <1>1 DEF handlesVars, HandlesIInv, TablesTyped, Progress, Described, UsedIsLinked, Used, Holders, Returners,
              CacheKnown, LinksLoaded
<1> QED
  BY <1>1, GameLoadsInv, GameUnloadsInv, OpenInv, ForceLoadInv, FindAgainInv, CloseInv, DlcloseInv, AnswersInv
     DEF HandlesNext

(* What the answers by address are worth. *)
LEMMA AnswersHold == ASSUME HandlesIInv PROVE AddrAnswers
<1> SUFFICES ASSUME ToSet(cache) \cap gone = {}, NEW a \in Addresses
             PROVE  LET holders == {o \in ToSet(Reported) : o \notin Zero /\ a \in Pages[o]}
                    IN IF holders = {} THEN AddrAnswer(a) = Nil ELSE AddrAnswer(a) \in holders
  BY DEF AddrAnswers
<1> DEFINE holders == {o \in ToSet(Reported) : o \notin Zero /\ a \in Pages[o]}
<1>1. TablesTyped /\ CacheKnown
  BY DEF HandlesIInv
<1>2. Reported \in Seq(Objects) /\ ToSet(Reported) = {Linker} \cup {o \in ToSet(linked) \ Zero : Path[o] # <<>>}
  BY <1>1, ReportedFacts
<1>3. ToSet(cache) \subseteq ToSet(Reported) \cup Zero
  BY <1>1, <1>2 DEF CacheKnown
<1>4. CASE OwnerIn(cache, a) # 0
  <2>1. AddrAnswer(a) = cache[OwnerIn(cache, a)]
    BY <1>4 DEF AddrAnswer
  <2>2. cache \in Seq(Objects)
    BY <1>1 DEF TablesTyped
  <2>3. AddrAnswer(a) \in ToSet(cache) /\ AddrAnswer(a) \notin Zero /\ a \in Pages[AddrAnswer(a)]
    BY <1>4, <2>1, <2>2, OwnerFacts
  <2> QED
    BY <1>3, <2>3
<1>5. CASE OwnerIn(cache, a) = 0 /\ OwnerIn(Reported, a) # 0
  <2>1. AddrAnswer(a) = Reported[OwnerIn(Reported, a)]
    BY <1>5 DEF AddrAnswer
  <2>2. AddrAnswer(a) \in ToSet(Reported) /\ AddrAnswer(a) \notin Zero /\ a \in Pages[AddrAnswer(a)]
    BY <1>2, <1>5, <2>1, OwnerFacts
  <2> QED
    BY <2>2
<1>6. CASE OwnerIn(cache, a) = 0 /\ OwnerIn(Reported, a) = 0
  <2>1. AddrAnswer(a) = Nil
    BY <1>6 DEF AddrAnswer
  <2>2. holders = {}
    BY <1>2, <1>6, OwnerFacts
  <2> QED
    BY <2>1, <2>2
<1> QED
  BY <1>4, <1>5, <1>6

(* The properties that the run checks follow. *)
LEMMA HandlesInvHolds == HandlesIInv => HandlesInv
<1> SUFFICES ASSUME HandlesIInv PROVE HandlesInv
  OBVIOUS
<1>1. TablesTyped /\ UsedIsLinked /\ \A h \in Handles : Progress(h) /\ Described(h)
  BY DEF HandlesIInv
<1>2. \A h \in Handles : handle[h] \in HandleRecords /\ returned[h] \in Objects \cup {Nil}
  BY <1>1 DEF TablesTyped
<1>3. HandlesTypeOK
  <2>1. \A h \in Handles : /\ handle[h].at \in {"free", "find", "force", "again", "open"}
                           /\ handle[h].object \in Objects \cup {Nil}
                           /\ handle[h].at = "open" <=> handle[h].object # Nil
                           /\ handle[h].holds \in Objects \cup {Nil}
                           /\ returned[h] \in Objects \cup {Nil}
    BY <1>1, <1>2 DEF HandleRecords, Progress
  <2> QED
    BY <1>1, <2>1 DEF HandlesTypeOK, TablesTyped
<1>4. HeldIsLinked
  <2> SUFFICES ASSUME NEW o \in Objects \ {Linker} PROVE Refs(o) > 0 <=> InList(o)
    BY DEF HeldIsLinked
  <2>1. Refs(o) > 0 <=> Used(o)
    BY <1>1, RefsFacts
  <2>2. Used(o) <=> o \in ToSet(linked)
    BY <1>1 DEF UsedIsLinked
  <2> QED
    BY <2>1, <2>2, InListFacts
<1>5. ForcedIsMapped
  <2> SUFFICES ASSUME NEW h \in Handles, handle[h].at = "open", handle[h].holds # Nil, handle[h].name[1] = "/",
                      handle[h].object # Linker, handle[h].object = handle[h].holds
               PROVE  InList(handle[h].object)
    BY <1>1 DEF ForcedIsMapped, Described
  <2> SUFFICES ASSUME NEW o, o = handle[h].object PROVE InList(o)
    OBVIOUS
  <2>1. o \in Objects \ {Linker}
    BY <1>2 DEF HandleRecords
  <2>2. h \in Holders(o)
    BY DEF Holders
  <2>3. Used(o)
    BY <2>2 DEF Used
  <2> QED
    BY <1>1, <2>1, <2>3, InListFacts DEF UsedIsLinked
<1>6. ReportedOnce
  BY <1>1, ReportedFacts DEF ReportedOnce
<1>7. AddrAnswers /\ LinksLoaded
  BY AnswersHold DEF HandlesIInv
<1> QED
  BY <1>3, <1>4, <1>5, <1>6, <1>7 DEF HandlesInv

(* However the game and the users of xDL load and let go libraries, a      *)
(* library is in the linker's list exactly while somebody refers to it, a  *)
(* forced handle describes the library it keeps mapped, each valid library *)
(* is reported once, and the answers by address and in lib_links are about *)
(* libraries that were loaded (xdl.c, xdl_iterate.c, Utils.cpp).           *)
THEOREM HandlesCorrect == HandlesSpec => []HandlesInv
<1> QED
  BY HandlesInitInv, HandlesNextInv, HandlesInvHolds, PTL DEF HandlesSpec

-----------------------------------------------------------------------------
(* The frames of the procedures. *)
Frames ==
    [proc : {"once"}, at : {"start", "lock", "store"}, arg : Onces]
    \cup [proc : {"dsym"}, at : {"start", "read"}, arg : {"symtab", "debugdata"}]
    \cup [proc : {"iterate"}, at : {"start", "lock", "walk", "unlock"}, arg : Libs \cup {"callers"}]
    \cup [proc : {"open"}, at : {"start", "found", "forced"}, arg : Libs]
    \cup [proc : {"force"}, at : {"start", "gate", "dlopen"}, arg : Libs]

(* The order of the locks, and the last of them that a procedure with its  *)
(* callees may wait for.                                                   *)
LockRank(l) == CASE l = "dl" -> 1 [] l = "symbols" -> 2 [] l = "callers" -> 3 [] l = "lzma" -> 4
Level(f) ==
    CASE f.proc = "once"    -> LockRank(f.arg)
      [] f.proc = "dsym"    -> IF f.arg = "debugdata" THEN 4 ELSE 0
      [] f.proc = "iterate" -> 2
      [] f.proc = "open"    -> 3
      [] f.proc = "force"   -> 3

(* A procedure calls others of its level or below, and below only while it *)
(* holds the lock of an initialisation.                                    *)
Descends(s) ==
    \A i, j \in 1 .. Len(s) : i < j => /\ Level(s[j]) <= Level(s[i])
                                       /\ s[i].proc = "once" => s[i].at = "store" /\ Level(s[j]) < Level(s[i])

(* A stack in which the body of an initialisation runs, and one at whose   *)
(* top an iteration holds the lock of the linker.                          *)
InBody(f, n)  == f.proc = "once" /\ f.at = "store" /\ f.arg = n
Within(s, n)  == \E i \in 1 .. Len(s) : InBody(s[i], n)
Iterating(s)  == s # <<>> /\ Last(s).proc = "iterate" /\ Last(s).at = "unlock"

(* The stacks, and what the holders of the locks are doing. *)
StackParts ==
    /\ stack \in [Threads -> Seq(Frames)]
    /\ ret \in [Threads -> Libs \cup {"symbol", None}]
    /\ ZippedLinker \/ \A t \in Threads : Descends(stack[t])
    /\ \A n \in Onces, t \in Threads : owner[n] = t => Within(stack[t], n)
    /\ \A t \in Threads : owner["dl"] = t => Iterating(stack[t])

LinkerTypes ==
    /\ api \in ApiLevels /\ table \in LinkerTables
    /\ loaded \in Seq(Libs)
    /\ owner \in [Locks -> Threads \cup {None}]
    /\ inited \in [Onces -> BOOLEAN]
    /\ runs \in [Onces -> Nat]
    /\ symbols \subseteq {"dlopen", "mutex", "lzma"}
    /\ callers \in [DOMAIN Callers -> Libs \cup {None}]

(* A body has not run while nobody is inside it and the flag is not set.   *)
NotYetRun == \A n \in Onces : runs[n] <= 1 /\ (~inited[n] /\ owner[n] = None => runs[n] = 0)

(* x is the first of the best rank R among the first k members of s.       *)
Fitting(R, s, k) == {j \in 1 .. k : R[s[j]] # 0}
Chosen(R, s, x, k) ==
    IF Fitting(R, s, k) = {} THEN x = None
    ELSE \E j \in Fitting(R, s, k) :
            /\ x = s[j]
            /\ \A m \in Fitting(R, s, k) : \/ R[s[j]] < R[s[m]]
                                           \/ R[s[j]] = R[s[m]] /\ j <= m

(* The callers are right for the list as it was at some time. *)
CallersKnown ==
    \E n \in 0 .. Len(loaded) : \A i \in DOMAIN Callers : Chosen(Rank[i], loaded, callers[i], n)

LinkerIInv ==
    /\ LinkerTypes
    /\ StackParts
    /\ NotYetRun
    /\ CallersKnown

(* The levels of the frames. *)
LEMMA LevelFacts ==
    \A f \in Frames : /\ Level(f) \in 0 .. 4
                      /\ f.proc = "once" => f.arg \in Onces /\ Level(f) = LockRank(f.arg)
                      /\ f.proc = "dsym" => Level(f) = IF f.arg = "debugdata" THEN 4 ELSE 0
                      /\ f.proc = "iterate" => Level(f) = 2
                      /\ f.proc \in {"open", "force"} => Level(f) = 3 /\ f.arg \in Libs
                      /\ f.proc \in {"once", "dsym", "iterate", "open", "force"}
<1> SUFFICES ASSUME NEW f \in Frames
             PROVE  /\ Level(f) \in 0 .. 4
                    /\ f.proc = "once" => f.arg \in Onces /\ Level(f) = LockRank(f.arg)
                    /\ f.proc = "dsym" => Level(f) = IF f.arg = "debugdata" THEN 4 ELSE 0
                    /\ f.proc = "iterate" => Level(f) = 2
                    /\ f.proc \in {"open", "force"} => Level(f) = 3 /\ f.arg \in Libs
                    /\ f.proc \in {"once", "dsym", "iterate", "open", "force"}
  OBVIOUS
<1>1. CASE f.proc = "once"
  BY <1>1 DEF Frames, Level, LockRank, Onces
<1>2. CASE f.proc = "dsym"
  BY <1>2 DEF Frames, Level
<1>3. CASE f.proc = "iterate"
  BY <1>3 DEF Frames, Level
<1>4. CASE f.proc = "open"
  BY <1>4 DEF Frames, Level
<1>5. CASE f.proc = "force"
  BY <1>5 DEF Frames, Level
<1> QED
  BY <1>1, <1>2, <1>3, <1>4, <1>5 DEF Frames

(* A stack without its last frame. *)
LEMMA FrontFacts ==
    ASSUME NEW T, NEW s \in Seq(T), s # <<>>
    PROVE  /\ Len(s) \in Nat /\ Len(s) >= 1 /\ Last(s) = s[Len(s)] /\ Last(s) \in T
           /\ Front(s) \in Seq(T) /\ Len(Front(s)) = Len(s) - 1
           /\ \A i \in 1 .. Len(s) - 1 : Front(s)[i] = s[i]
<1>1. Len(s) \in Nat /\ Len(s) >= 1
  OBVIOUS
<1>2. Last(s) = s[Len(s)] /\ Last(s) \in T
  BY <1>1 DEF Last
<1> DEFINE n == Len(s) - 1
<1>3. 1 \in 1 .. Len(s) + 1 /\ n \in 1 - 1 .. Len(s) /\ n - 1 + 1 = n /\ n \in Nat
  BY <1>1
<1>4. Front(s) = SubSeq(s, 1, n)
  BY DEF Front
<1> HIDE DEF n
<1>5. SubSeq(s, 1, n) \in Seq(T) /\ Len(SubSeq(s, 1, n)) = n /\ \A i \in 1 .. n : SubSeq(s, 1, n)[i] = s[i]
  BY <1>3, SubSeqProperties
<1> QED
  BY <1>1, <1>2, <1>4, <1>5 DEF n

(* The four things a procedure does to the stack, place by place: it       *)
(* returns, goes on, calls another, or makes way for another.              *)
Returned(s, r)    == Len(r) = Len(s) - 1 /\ \A i \in 1 .. Len(s) - 1 : r[i] = s[i]
Gone(s, r, g)     == Len(r) = Len(s) /\ r[Len(s)] = g /\ \A i \in 1 .. Len(s) - 1 : r[i] = s[i]
Called(s, r, g, f) == /\ Len(r) = Len(s) + 1 /\ r[Len(s)] = g /\ r[Len(s) + 1] = f
                      /\ \A i \in 1 .. Len(s) - 1 : r[i] = s[i]

(* Return. *)
LEMMA ReturnShape ==
    ASSUME NEW s \in Seq(Frames), s # <<>>
    PROVE  Front(s) \in Seq(Frames) /\ Returned(s, Front(s))
BY FrontFacts, Zenon DEF Returned

(* Goto. *)
LEMMA GotoShape ==
    ASSUME NEW s \in Seq(Frames), s # <<>>, NEW l, [Last(s) EXCEPT !.at = l] \in Frames
    PROVE  LET r == [s EXCEPT ![Len(s)].at = l]
           IN r \in Seq(Frames) /\ Gone(s, r, [Last(s) EXCEPT !.at = l])
<1>1. Len(s) \in Nat /\ Len(s) >= 1 /\ Last(s) = s[Len(s)]
  BY FrontFacts, Zenon
<1> DEFINE g == [Last(s) EXCEPT !.at = l]
<1>2. [s EXCEPT ![Len(s)].at = l] = [s EXCEPT ![Len(s)] = g]
  BY <1>1
<1> HIDE DEF g
<1>3. g \in Frames
  BY DEF g
<1>4. [s EXCEPT ![Len(s)] = g] \in Seq(Frames) /\ Gone(s, [s EXCEPT ![Len(s)] = g], g)
  BY <1>1, <1>3 DEF Gone
<1> QED
  BY <1>2, <1>4 DEF g

(* A frame in the place of the last. *)
LEMMA TailShape ==
    ASSUME NEW s \in Seq(Frames), s # <<>>, NEW f \in Frames
    PROVE  Append(Front(s), f) \in Seq(Frames) /\ Gone(s, Append(Front(s), f), f)
<1>1. Front(s) \in Seq(Frames) /\ Len(Front(s)) = Len(s) - 1 /\ Len(s) \in Nat /\ Len(s) >= 1
      /\ \A i \in 1 .. Len(s) - 1 : Front(s)[i] = s[i]
  BY FrontFacts, Zenon
<1> DEFINE q == Front(s)
<1> HIDE DEF q
<1>2. q \in Seq(Frames) /\ Len(q) = Len(s) - 1 /\ \A i \in 1 .. Len(s) - 1 : q[i] = s[i]
  BY <1>1 DEF q
<1>3. Append(q, f) \in Seq(Frames) /\ Gone(s, Append(q, f), f)
  BY <1>1, <1>2 DEF Gone
<1> QED
  BY <1>3 DEF q

(* Call. *)
LEMMA CallShape ==
    ASSUME NEW s \in Seq(Frames), s # <<>>, NEW g \in Frames, NEW f \in Frames
    PROVE  LET r == Append(Front(s) \o <<g>>, f)
           IN r \in Seq(Frames) /\ Called(s, r, g, f)
<1>1. Front(s) \in Seq(Frames) /\ Len(Front(s)) = Len(s) - 1 /\ Len(s) \in Nat /\ Len(s) >= 1
      /\ \A i \in 1 .. Len(s) - 1 : Front(s)[i] = s[i]
  BY FrontFacts, Zenon
<1> DEFINE q == Front(s)  p == q \o <<g>>
<1> HIDE DEF q
<1>2. q \in Seq(Frames) /\ Len(q) = Len(s) - 1 /\ \A i \in 1 .. Len(s) - 1 : q[i] = s[i]
  BY <1>1 DEF q
<1>3. p \in Seq(Frames) /\ Len(p) = Len(s) /\ p[Len(s)] = g /\ \A i \in 1 .. Len(s) - 1 : p[i] = s[i]
  BY <1>1, <1>2
<1> HIDE DEF p
<1>4. Append(p, f) \in Seq(Frames) /\ Called(s, Append(p, f), g, f)
  BY <1>1, <1>3 DEF Called
<1> QED
  BY <1>4 DEF p, q

(* What a return leaves of a stack. *)
LEMMA ReturnedKeeps ==
    ASSUME NEW s \in Seq(Frames), s # <<>>, NEW r \in Seq(Frames), Returned(s, r)
    PROVE  /\ Descends(s) => Descends(r)
           /\ \A n : Within(s, n) /\ ~InBody(Last(s), n) => Within(r, n)
<1>1. Len(s) \in Nat /\ Len(s) >= 1 /\ Last(s) = s[Len(s)]
  BY FrontFacts, Zenon
<1>2. Len(r) = Len(s) - 1 /\ \A i \in 1 .. Len(s) - 1 : r[i] = s[i] /\ i \in 1 .. Len(s)
  BY <1>1 DEF Returned
<1>3. Descends(s) => Descends(r)
  BY <1>1, <1>2 DEF Descends
<1>4. \A i \in 1 .. Len(s) : i = Len(s) \/ i \in 1 .. Len(s) - 1
  BY <1>1
<1>5. \A n : Within(s, n) /\ ~InBody(Last(s), n) => Within(r, n)
  BY <1>1, <1>2, <1>4, Zenon DEF Within
<1> QED
  BY <1>3, <1>5

(* What is left of it when another frame is in the place of the last. *)
LEMMA GoneKeeps ==
    ASSUME NEW s \in Seq(Frames), s # <<>>, NEW r \in Seq(Frames), NEW g \in Frames, Gone(s, r, g)
    PROVE  /\ Descends(s) /\ Level(g) <= Level(Last(s)) => Descends(r)
           /\ \A n : Within(s, n) /\ ~InBody(Last(s), n) => Within(r, n)
           /\ \A n : InBody(g, n) => Within(r, n)
           /\ r # <<>> /\ Last(r) = g
<1>1. Len(s) \in Nat /\ Len(s) >= 1 /\ Last(s) = s[Len(s)]
  BY FrontFacts, Zenon
<1>2. Len(r) = Len(s) /\ r[Len(s)] = g /\ \A i \in 1 .. Len(s) - 1 : r[i] = s[i] /\ i \in 1 .. Len(s)
  BY <1>1 DEF Gone
<1>3. \A i \in 1 .. Len(s) : i = Len(s) \/ i \in 1 .. Len(s) - 1
  BY <1>1
<1>4. ASSUME Descends(s), Level(g) <= Level(Last(s)) PROVE Descends(r)
  <2> SUFFICES ASSUME NEW i \in 1 .. Len(s), NEW j \in 1 .. Len(s), i < j
               PROVE  /\ Level(r[j]) <= Level(r[i])
                      /\ r[i].proc = "once" => r[i].at = "store" /\ Level(r[j]) < Level(r[i])
    BY <1>2 DEF Descends
  <2>1. r[i] = s[i]
    BY <1>1, <1>2
  <2>2. /\ Level(s[j]) <= Level(s[i])
        /\ s[i].proc = "once" => s[i].at = "store" /\ Level(s[j]) < Level(s[i])
    BY <1>4 DEF Descends
  <2>3. CASE j = Len(s)
    <3>1. s[i] \in Frames /\ s[j] = Last(s) /\ r[j] = g /\ Last(s) \in Frames
      BY <1>1, <1>2, <2>3
    <3>2. Level(s[i]) \in 0 .. 4 /\ Level(g) \in 0 .. 4 /\ Level(Last(s)) \in 0 .. 4
      BY <3>1, LevelFacts
    <3> HIDE DEF Level
    <3> QED
      BY <1>4, <2>1, <2>2, <3>1, <3>2
  <2>4. CASE j # Len(s)
    BY <1>2, <1>3, <2>1, <2>2, <2>4
  <2> QED
    BY <2>3, <2>4
<1>5. \A n : Within(s, n) /\ ~InBody(Last(s), n) => Within(r, n)
  BY <1>1, <1>2, <1>3, Zenon DEF Within
<1>6. \A n : InBody(g, n) => Within(r, n)
  <2>1. Len(s) \in 1 .. Len(r)
    BY <1>1, <1>2
  <2> QED
    BY <1>2, <2>1, Zenon DEF Within
<1>7. r # <<>> /\ Last(r) = g
  BY <1>1, <1>2 DEF Last
<1> QED
  BY <1>4, <1>5, <1>6, <1>7

(* What is left of it under a call. *)
LEMMA CalledKeeps ==
    ASSUME NEW s \in Seq(Frames), s # <<>>, NEW r \in Seq(Frames), NEW g \in Frames, NEW f \in Frames,
           Called(s, r, g, f), g.proc = Last(s).proc, g.arg = Last(s).arg
    PROVE  /\ Descends(s) /\ Level(f) <= Level(g) /\ (g.proc = "once" => g.at = "store" /\ Level(f) < Level(g))
                  => Descends(r)
           /\ \A n : Within(s, n) /\ ~InBody(Last(s), n) => Within(r, n)
           /\ \A n : InBody(g, n) => Within(r, n)
           /\ r # <<>> /\ Last(r) = f
<1>1. Len(s) \in Nat /\ Len(s) >= 1 /\ Last(s) = s[Len(s)] /\ Last(s) \in Frames
  BY FrontFacts, Zenon
<1>2. Len(r) = Len(s) + 1 /\ r[Len(s)] = g /\ r[Len(s) + 1] = f /\ \A i \in 1 .. Len(s) - 1 : r[i] = s[i] /\ i \in 1 .. Len(s)
  BY <1>1 DEF Called
<1>3. \A i \in 1 .. Len(s) : i = Len(s) \/ i \in 1 .. Len(s) - 1
  BY <1>1
<1>4. ASSUME Descends(s), Level(f) <= Level(g), g.proc = "once" => g.at = "store" /\ Level(f) < Level(g)
      PROVE  Descends(r)
  <2> SUFFICES ASSUME NEW i \in 1 .. Len(s) + 1, NEW j \in 1 .. Len(s) + 1, i < j
               PROVE  /\ Level(r[j]) <= Level(r[i])
                      /\ r[i].proc = "once" => r[i].at = "store" /\ Level(r[j]) < Level(r[i])
    BY <1>2 DEF Descends
  <2>1. Level(g) = Level(Last(s))
    BY DEF Level
  <2>2. \A k \in 1 .. Len(s) : /\ Level(r[k]) = Level(s[k]) /\ Level(s[k]) \in 0 .. 4
                               /\ k # Len(s) => r[k] = s[k]
    <3> SUFFICES ASSUME NEW k \in 1 .. Len(s)
                 PROVE  /\ Level(r[k]) = Level(s[k]) /\ Level(s[k]) \in 0 .. 4
                        /\ k # Len(s) => r[k] = s[k]
      OBVIOUS
    <3>1. s[k] \in Frames
      BY <1>1
    <3>2. k = Len(s) => r[k] = g /\ s[k] = Last(s)
      BY <1>1, <1>2
    <3>3. k # Len(s) => r[k] = s[k]
      BY <1>2, <1>3
    <3> QED
      BY <2>1, <3>1, <3>2, <3>3, LevelFacts
  <2>3. i \in 1 .. Len(s) /\ (j \in 1 .. Len(s) \/ j = Len(s) + 1)
    BY <1>1
  <2>4. CASE j \in 1 .. Len(s)
    <3>1. i # Len(s)
      BY <1>1, <2>4
    <3>2. /\ Level(s[j]) <= Level(s[i])
          /\ s[i].proc = "once" => s[i].at = "store" /\ Level(s[j]) < Level(s[i])
      BY <1>4, <2>3, <2>4 DEF Descends
    <3>3. Level(r[j]) = Level(s[j]) /\ r[i] = s[i]
      BY <2>2, <2>3, <2>4, <3>1, Zenon
    <3> QED
      BY <3>2, <3>3, Zenon
  <2>5. CASE j = Len(s) + 1
    <3>1. r[j] = f /\ Level(f) \in 0 .. 4 /\ Level(g) \in 0 .. 4
      BY <1>2, <2>5, LevelFacts
    <3>2. CASE i = Len(s)
      BY <1>2, <1>4, <3>1, <3>2
    <3>3. CASE i # Len(s)
      <4>1. /\ Level(Last(s)) <= Level(s[i])
            /\ s[i].proc = "once" => s[i].at = "store" /\ Level(Last(s)) < Level(s[i])
        <5>1. i < Len(s) /\ Len(s) \in 1 .. Len(s)
          BY <1>1, <2>3, <3>3
        <5> QED
          BY <1>1, <1>4, <2>3, <5>1 DEF Descends
      <4>2. r[i] = s[i] /\ Level(s[i]) \in 0 .. 4
        BY <2>2, <2>3, <3>3
      <4> HIDE DEF Level
      <4> QED
        BY <1>4, <2>1, <3>1, <4>1, <4>2
    <3> QED
      BY <3>2, <3>3
  <2> QED
    BY <2>3, <2>4, <2>5
<1>5. \A n : Within(s, n) /\ ~InBody(Last(s), n) => Within(r, n)
  <2>1. \A i \in 1 .. Len(s) - 1 : i \in 1 .. Len(r)
    BY <1>1, <1>2
  <2> QED
    BY <1>1, <1>2, <1>3, <2>1, Zenon DEF Within
<1>6. \A n : InBody(g, n) => Within(r, n)
  <2>1. Len(s) \in 1 .. Len(r)
    BY <1>1, <1>2
  <2> QED
    BY <1>2, <2>1, Zenon DEF Within
<1>7. r # <<>> /\ Last(r) = f
  BY <1>1, <1>2 DEF Last
<1> QED
  BY <1>4, <1>5, <1>6, <1>7

(* A thread may go over to stack r. *)
MayGo(t, r) ==
    /\ ZippedLinker \/ Descends(r)
    /\ \A n \in Onces : owner'[n] = t => Within(r, n)
    /\ owner'["dl"] = t => Iterating(r)
    /\ \A l \in Locks, u \in Threads \ {t} : owner'[l] = u => owner[l] = u

(* One thread has another stack, and some locks may have been released or  *)
(* taken by it.                                                            *)
LEMMA ThreadStep ==
    ASSUME StackParts, NEW t \in Threads, NEW r \in Seq(Frames),
           stack' = [stack EXCEPT ![t] = r], ret' \in [Threads -> Libs \cup {"symbol", None}], UNCHANGED <<api, table>>,
           MayGo(t, r)
    PROVE  StackParts'
<1>6. /\ ZippedLinker \/ Descends(r)
      /\ \A n \in Onces : owner'[n] = t => Within(r, n)
      /\ owner'["dl"] = t => Iterating(r)
      /\ \A l \in Locks, u \in Threads \ {t} : owner'[l] = u => owner[l] = u
  BY Zenon DEF MayGo
<1>1. stack' \in [Threads -> Seq(Frames)] /\ stack'[t] = r /\ \A u \in Threads \ {t} : stack'[u] = stack[u]
  BY DEF StackParts
<1>2. ZippedLinker' <=> ZippedLinker
  BY DEF ZippedLinker
<1>3. \A n \in Onces, u \in Threads : owner'[n] = u => Within(stack'[u], n)
  <2> SUFFICES ASSUME NEW n \in Onces, NEW u \in Threads, owner'[n] = u PROVE Within(stack'[u], n)
    OBVIOUS
  <2>1. CASE u = t
    BY <1>1, <1>6, <2>1
  <2>2. CASE u # t
    <3>1. owner[n] = u
      BY <1>6, <2>2 DEF Locks
    <3> QED
      BY <1>1, <2>2, <3>1 DEF StackParts
  <2> QED
    BY <2>1, <2>2
<1>4. \A u \in Threads : owner'["dl"] = u => Iterating(stack'[u])
  <2> SUFFICES ASSUME NEW u \in Threads, owner'["dl"] = u PROVE Iterating(stack'[u])
    OBVIOUS
  <2>1. CASE u = t
    BY <1>1, <1>6, <2>1
  <2>2. CASE u # t
    <3>1. owner["dl"] = u
      BY <1>6, <2>2 DEF Locks
    <3> QED
      BY <1>1, <2>2, <3>1 DEF StackParts
  <2> QED
    BY <2>1, <2>2
<1>5. ZippedLinker' \/ \A u \in Threads : Descends(stack'[u])
  BY <1>1, <1>2, <1>6 DEF StackParts
<1> HIDE DEF Iterating, Within, Descends
<1> QED
  BY <1>1, <1>3, <1>4, <1>5 DEF StackParts

(* The frame on top of a stack. *)
LEMMA TopFacts ==
    ASSUME StackParts, NEW t \in Threads, stack[t] # <<>>
    PROVE  stack[t] \in Seq(Frames) /\ Top(t) = Last(stack[t]) /\ Top(t) \in Frames
<1>1. stack[t] \in Seq(Frames)
  BY DEF StackParts
<1> QED
  BY <1>1, FrontFacts, Zenon DEF Top

(* The frames with which a procedure goes on and with which it begins. *)
LEMMA FrameGoes ==
    ASSUME NEW f \in Frames, NEW l,
           \/ f.proc = "once" /\ l \in {"lock", "store"}
           \/ f.proc = "dsym" /\ l = "read"
           \/ f.proc = "iterate" /\ l \in {"lock", "walk", "unlock"}
           \/ f.proc = "open" /\ l \in {"found", "forced"}
           \/ f.proc = "force" /\ l \in {"gate", "dlopen"}
    PROVE  LET g == [f EXCEPT !.at = l]
           IN g \in Frames /\ g.proc = f.proc /\ g.arg = f.arg /\ g.at = l /\ Level(g) = Level(f)
<1>1. CASE f.proc = "once"
  BY <1>1 DEF Frames, Level
<1>2. CASE f.proc = "dsym"
  BY <1>2 DEF Frames, Level
<1>3. CASE f.proc = "iterate"
  BY <1>3 DEF Frames, Level
<1>4. CASE f.proc = "open"
  BY <1>4 DEF Frames, Level
<1>5. CASE f.proc = "force"
  BY <1>5 DEF Frames, Level
<1> QED
  BY <1>1, <1>2, <1>3, <1>4, <1>5

(* The frames with which procedures begin. *)
LEMMA NewFrames ==
    /\ \A n \in Onces : Frame("once", n) \in Frames /\ Level(Frame("once", n)) = LockRank(n)
    /\ \A x \in {"symtab", "debugdata"} : /\ Frame("dsym", x) \in Frames
                                          /\ Level(Frame("dsym", x)) = IF x = "debugdata" THEN 4 ELSE 0
    /\ \A x \in Libs \cup {"callers"} : Frame("iterate", x) \in Frames /\ Level(Frame("iterate", x)) = 2
    /\ \A x \in Libs : Frame("open", x) \in Frames /\ Level(Frame("open", x)) = 3
    /\ \A x \in Libs : Frame("force", x) \in Frames /\ Level(Frame("force", x)) = 3
    /\ \A p, x : Frame(p, x).at = "start" /\ Frame(p, x).proc = p /\ Frame(p, x).arg = x
BY DEF Frame, Frames, Level

(* A procedure returns; if it held a lock it has released it. *)
LEMMA ReturnStep ==
    ASSUME LinkerTypes, StackParts, NEW t \in Threads, stack[t] # <<>>, NEW v \in Libs \cup {"symbol", None},
           Return(t, v), UNCHANGED <<api, table>>,
           \A l \in Locks, u \in Threads : owner'[l] = u => owner[l] = u,
           \A n \in Onces : InBody(Top(t), n) => owner'[n] # t,
           Iterating(stack[t]) => owner'["dl"] # t
    PROVE  StackParts'
<1> DEFINE s == stack[t]  r == Front(s)
<1>1. s \in Seq(Frames) /\ s # <<>> /\ Top(t) = Last(s)
  BY TopFacts
<1>2. stack' = [stack EXCEPT ![t] = r] /\ ret' \in [Threads -> Libs \cup {"symbol", None}]
  BY DEF Return, StackParts
<1>3. ZippedLinker \/ Descends(s)
  BY DEF StackParts
<1>4. \A n \in Onces : owner'[n] = t => Within(s, n) /\ ~InBody(Last(s), n)
  BY <1>1 DEF StackParts, Locks
<1>5. owner'["dl"] # t
  BY DEF StackParts, Locks
<1> SUFFICES ASSUME NEW s2, s2 = r PROVE StackParts'
  OBVIOUS
<1>6. /\ s2 \in Seq(Frames)
      /\ Descends(s) => Descends(s2)
      /\ \A n : Within(s, n) /\ ~InBody(Last(s), n) => Within(s2, n)
  BY <1>1, ReturnShape, ReturnedKeeps
<1>7. stack' = [stack EXCEPT ![t] = s2]
  BY <1>2
<1> HIDE DEF s, r
<1>8. MayGo(t, s2)
  BY <1>3, <1>4, <1>5, <1>6 DEF MayGo
<1> QED
  BY <1>2, <1>6, <1>7, <1>8, ThreadStep

(* A procedure goes on, perhaps with a lock taken. *)
LEMMA GotoStep ==
    ASSUME LinkerTypes, StackParts, NEW t \in Threads, stack[t] # <<>>, NEW l, NEW g,
           Goto(t, l), UNCHANGED <<api, table, ret>>,
           g = [Top(t) EXCEPT !.at = l], g \in Frames, Level(g) = Level(Top(t)),
           \A k \in Locks, u \in Threads \ {t} : owner'[k] = u => owner[k] = u,
           \A n \in Onces : owner'[n] = t => (owner[n] = t /\ ~InBody(Top(t), n)) \/ InBody(g, n),
           owner'["dl"] = t => g.proc = "iterate" /\ g.at = "unlock"
    PROVE  StackParts'
<1> DEFINE s == stack[t]  r == [s EXCEPT ![Len(s)].at = l]
<1>1. s \in Seq(Frames) /\ s # <<>> /\ Top(t) = Last(s) /\ Last(s) \in Frames
  BY TopFacts
<1>2. stack' = [stack EXCEPT ![t] = r]
  BY DEF Goto
<1>3. ret' \in [Threads -> Libs \cup {"symbol", None}] /\ (ZippedLinker \/ Descends(s))
  BY DEF StackParts
<1>4. \A n \in Onces : owner'[n] = t => (Within(s, n) /\ ~InBody(Last(s), n)) \/ InBody(g, n)
  BY <1>1 DEF StackParts
<1>5. Level(g) <= Level(Last(s))
  BY <1>1, LevelFacts
<1>6. r \in Seq(Frames) /\ Gone(s, r, g)
  <2> HIDE DEF s
  <2> QED
    BY <1>1, GotoShape
<1> SUFFICES ASSUME NEW s2, s2 = r PROVE StackParts'
  OBVIOUS
<1>7. stack' = [stack EXCEPT ![t] = s2] /\ s2 \in Seq(Frames) /\ Gone(s, s2, g)
  BY <1>2, <1>6
<1> HIDE DEF s, r
<1>8. /\ Descends(s) => Descends(s2)
      /\ \A n : Within(s, n) /\ ~InBody(Last(s), n) => Within(s2, n)
      /\ \A n : InBody(g, n) => Within(s2, n)
      /\ s2 # <<>> /\ Last(s2) = g
  BY <1>1, <1>5, <1>7, GoneKeeps
<1>9. owner'["dl"] = t => Iterating(s2)
  BY <1>8 DEF Iterating
<1> HIDE DEF Iterating
<1>10. \A n \in Onces : owner'[n] = t => Within(s2, n)
  BY <1>4, <1>8, Zenon
<1>11. ZippedLinker \/ Descends(s2)
  BY <1>1, <1>3, <1>5, <1>8, Zenon
<1>12. stack' = [stack EXCEPT ![t] = s2] /\ s2 \in Seq(Frames) /\ ret' \in [Threads -> Libs \cup {"symbol", None}]
  BY <1>3, <1>7
<1>13. MayGo(t, s2)
  BY <1>9, <1>10, <1>11 DEF MayGo
<1> QED
  BY <1>12, <1>13, ThreadStep

(* A procedure calls another, perhaps with a lock taken. *)
LEMMA CallStep ==
    ASSUME LinkerTypes, StackParts, NEW t \in Threads, stack[t] # <<>>, NEW l, NEW g, NEW f \in Frames,
           Call(t, l, f), UNCHANGED <<api, table, ret>>,
           g = [Top(t) EXCEPT !.at = l], g \in Frames, g.proc = Top(t).proc, g.arg = Top(t).arg,
           ZippedLinker \/ (Level(f) <= Level(g) /\ (g.proc = "once" => g.at = "store" /\ Level(f) < Level(g))),
           \A k \in Locks, u \in Threads \ {t} : owner'[k] = u => owner[k] = u,
           \A n \in Onces : owner'[n] = t => (owner[n] = t /\ ~InBody(Top(t), n)) \/ InBody(g, n),
           owner'["dl"] # t
    PROVE  StackParts'
<1> DEFINE s == stack[t]  r == Append(Front(s) \o <<g>>, f)
<1>1. s \in Seq(Frames) /\ s # <<>> /\ Top(t) = Last(s) /\ Last(s) \in Frames
  BY TopFacts
<1>2. stack' = [stack EXCEPT ![t] = r]
  BY <1>1 DEF Call
<1>3. ret' \in [Threads -> Libs \cup {"symbol", None}] /\ (ZippedLinker \/ Descends(s))
  BY DEF StackParts
<1>4. \A n \in Onces : owner'[n] = t => (Within(s, n) /\ ~InBody(Last(s), n)) \/ InBody(g, n)
  BY <1>1 DEF StackParts
<1>6. r \in Seq(Frames) /\ Called(s, r, g, f)
  <2> HIDE DEF s
  <2> QED
    BY <1>1, CallShape
<1> SUFFICES ASSUME NEW s2, s2 = r PROVE StackParts'
  OBVIOUS
<1>7. stack' = [stack EXCEPT ![t] = s2] /\ s2 \in Seq(Frames) /\ Called(s, s2, g, f)
  BY <1>2, <1>6
<1>8. g.proc = Last(s).proc /\ g.arg = Last(s).arg
  BY <1>1
<1> HIDE DEF s, r
<1>9. /\ Descends(s) /\ Level(f) <= Level(g) /\ (g.proc = "once" => g.at = "store" /\ Level(f) < Level(g))
            => Descends(s2)
      /\ \A n : Within(s, n) /\ ~InBody(Last(s), n) => Within(s2, n)
      /\ \A n : InBody(g, n) => Within(s2, n)
  BY <1>1, <1>7, <1>8, CalledKeeps
<1> HIDE DEF Iterating
<1>10. \A n \in Onces : owner'[n] = t => Within(s2, n)
  BY <1>4, <1>9, Zenon
<1>11. ZippedLinker \/ Descends(s2)
  BY <1>3, <1>9, Zenon
<1>12. stack' = [stack EXCEPT ![t] = s2] /\ s2 \in Seq(Frames) /\ ret' \in [Threads -> Libs \cup {"symbol", None}]
  BY <1>3, <1>7
<1>13. MayGo(t, s2)
  BY <1>10, <1>11 DEF MayGo
<1> QED
  BY <1>12, <1>13, ThreadStep

(* The other parts of the state stay. *)
LEMMA QuietStep ==
    ASSUME LinkerIInv, UNCHANGED <<api, table, loaded, inited, runs, symbols, callers>>,
           owner' \in [Locks -> Threads \cup {None}], \A n \in Onces : owner'[n] = owner[n]
    PROVE  LinkerTypes' /\ NotYetRun' /\ CallersKnown'
<1>1. LinkerTypes'
  BY DEF LinkerIInv, LinkerTypes
<1>2. NotYetRun'
  BY DEF LinkerIInv, NotYetRun
<1>3. CallersKnown'
  BY DEF LinkerIInv, CallersKnown
<1> QED
  BY <1>1, <1>2, <1>3

-----------------------------------------------------------------------------
(* A library takes the place of one of a higher rank, and of none. *)
Replaces(R, x, y) == R[y] # 0 /\ (x = None \/ R[y] < R[x])

(* One more library keeps the choice right. *)
LEMMA ChosenStep ==
    ASSUME NEW R \in [Libs -> Nat], NEW s \in Seq(Libs), NEW k \in 1 .. Len(s), NEW x, Chosen(R, s, x, k - 1)
    PROVE  Chosen(R, s, IF Replaces(R, x, s[k]) THEN s[k] ELSE x, k)
<1> DEFINE F == Fitting(R, s, k - 1)  G == Fitting(R, s, k)  y == s[k]
<1>1. y \in Libs /\ R[y] \in Nat /\ k \in Nat
  OBVIOUS
<1>2. \A j \in 1 .. k : s[j] \in Libs /\ R[s[j]] \in Nat /\ s[j] # None
  BY LinkerAssumption
<1>3. \A j : j \in F <=> j \in 1 .. k /\ j # k /\ R[s[j]] # 0
  BY DEF Fitting
<1>4. \A j : j \in G <=> j \in 1 .. k /\ R[s[j]] # 0
  BY DEF Fitting
<1>5. k \in 1 .. k
  OBVIOUS
<1>6. IF F = {} THEN x = None
      ELSE \E j \in F : x = s[j] /\ \A m \in F : R[s[j]] < R[s[m]] \/ (R[s[j]] = R[s[m]] /\ j <= m)
  BY Zenon DEF Chosen
<1>7. SUFFICES ASSUME NEW z, z = IF Replaces(R, x, y) THEN y ELSE x
               PROVE  Chosen(R, s, z, k)
  OBVIOUS
<1>11. SUFFICES IF G = {} THEN z = None
                ELSE \E j \in G : z = s[j] /\ \A m \in G : R[s[j]] < R[s[m]] \/ (R[s[j]] = R[s[m]] /\ j <= m)
  BY Zenon DEF Chosen
<1> HIDE DEF F, G
<1>8. CASE R[y] = 0
  <2>1. \A j : j \in F <=> j \in G
    BY <1>3, <1>4, <1>8 DEF y
  <2>2. F = G
    BY <2>1
  <2>3. z = x
    BY <1>7, <1>8 DEF Replaces
  <2> HIDE DEF y
  <2> QED
    BY <1>6, <2>2, <2>3, Zenon
<1>9. CASE R[y] # 0 /\ F = {}
  <2>1. z = y
    BY <1>6, <1>7, <1>9 DEF Replaces
  <2>2. G = {k}
    <3>1. k \in G
      BY <1>4, <1>5, <1>9 DEF y
    <3>2. \A j \in G : j = k
      BY <1>3, <1>4, <1>9
    <3> QED
      BY <3>1, <3>2
  <2>3. R[s[k]] = R[s[k]] /\ k <= k
    BY <1>1
  <2> QED
    BY <2>1, <2>2, <2>3 DEF y
<1>10. CASE R[y] # 0 /\ F # {}
  <2> PICK j \in F : x = s[j] /\ \A m \in F : R[s[j]] < R[s[m]] \/ (R[s[j]] = R[s[m]] /\ j <= m)
    BY <1>6, <1>10
  <2>1. j \in 1 .. k /\ j # k /\ R[x] \in Nat /\ x # None /\ j \in G /\ k \in G
    BY <1>2, <1>3, <1>4, <1>5, <1>10 DEF y
  <2>2. \A m \in G : m = k \/ m \in F
    BY <1>3, <1>4
  <2>3. \A m \in F : R[s[m]] \in Nat
    BY <1>2, <1>3
  <2>4. CASE R[y] < R[x]
    <3>1. z = y
      BY <1>7, <1>10, <2>4 DEF Replaces
    <3>2. \A m \in G : R[s[k]] < R[s[m]] \/ (R[s[k]] = R[s[m]] /\ k <= m)
      BY <1>1, <2>1, <2>2, <2>3, <2>4, SMTT(60) DEF y
    <3> QED
      BY <2>1, <3>1, <3>2 DEF y
  <2>5. CASE ~(R[y] < R[x])
    <3>1. z = x
      BY <1>7, <2>1, <2>5 DEF Replaces
    <3>2. \A m \in G : R[s[j]] < R[s[m]] \/ (R[s[j]] = R[s[m]] /\ j <= m)
      BY <1>1, <2>1, <2>2, <2>5 DEF y
    <3> QED
      BY <2>1, <3>1, <3>2
  <2> QED
    BY <2>4, <2>5
<1> QED
  BY <1>8, <1>9, <1>10

(* The steps of BestCaller. *)
Collects(f, R, s, k) ==
    f = [n \in 0 .. k |->
            IF n = 0 THEN None ELSE IF R[s[n]] # 0 /\ (f[n - 1] = None \/ R[s[n]] < R[f[n - 1]]) THEN s[n] ELSE f[n - 1]]

(* A function that does these steps exists, and each has chosen right.     *)
LEMMA CollectsRight ==
    ASSUME NEW R \in [Libs -> Nat], NEW s \in Seq(Libs)
    PROVE  /\ \E f : Collects(f, R, s, Len(s))
           /\ \A f : Collects(f, R, s, Len(s)) => f[Len(s)] \in Libs \cup {None} /\ Chosen(R, s, f[Len(s)], Len(s))
<1> DEFINE m == Len(s)  X == Libs \cup {None}
           G == [n \in 1 .. m |-> [x \in X |-> IF Replaces(R, x, s[n]) THEN s[n] ELSE x]]
<1>1. m \in Nat /\ (\A n \in 1 .. m : s[n] \in X) /\ None \in X
  OBVIOUS
<1>2. G \in [1 .. m -> [X -> X]]
  BY <1>1
<1>3. \A n \in 1 .. m, x \in X : G[n][x] = IF Replaces(R, x, s[n]) THEN s[n] ELSE x
  OBVIOUS
<1>4. m = Len(s)
  OBVIOUS
<1> HIDE DEF m, X, G
<1>5. PICK f : StepsOf(f, G, X, None, m)
  BY <1>1, <1>2, StepsExist, Zenon
<1>6. f \in [0 .. m -> X] /\ f[0] = None /\ \A n \in 1 .. m : f[n] = G[n][f[n - 1]]
  BY <1>5 DEF StepsOf
<1>7. \A n \in 0 .. m : f[n] = IF n = 0 THEN None
                               ELSE IF R[s[n]] # 0 /\ (f[n - 1] = None \/ R[s[n]] < R[f[n - 1]]) THEN s[n] ELSE f[n - 1]
  <2> SUFFICES ASSUME NEW n \in 0 .. m
               PROVE  f[n] = IF n = 0 THEN None
                             ELSE IF R[s[n]] # 0 /\ (f[n - 1] = None \/ R[s[n]] < R[f[n - 1]]) THEN s[n] ELSE f[n - 1]
    BY Zenon
  <2>1. CASE n = 0
    BY <1>6, <2>1
  <2>2. CASE n # 0
    <3>1. n \in 1 .. m /\ n - 1 \in 0 .. m
      BY <1>1, <2>2
    <3>2. f[n] = IF Replaces(R, f[n - 1], s[n]) THEN s[n] ELSE f[n - 1]
      BY <1>3, <1>6, <3>1
    <3> QED
      BY <2>2, <3>2, Zenon DEF Replaces
  <2> QED
    BY <2>1, <2>2
<1>8. f = [n \in 0 .. m |-> f[n]]
  BY <1>6
<1>9. Collects(f, R, s, m)
  BY <1>7, <1>8 DEF Collects
<1>10. ASSUME NEW g, Collects(g, R, s, m) PROVE g[m] \in X /\ Chosen(R, s, g[m], m)
  <2> DEFINE body(n) == IF n = 0 THEN None
                        ELSE IF R[s[n]] # 0 /\ (g[n - 1] = None \/ R[s[n]] < R[g[n - 1]]) THEN s[n] ELSE g[n - 1]
             Right(n) == g[n] \in X /\ Chosen(R, s, g[n], n)
             Bad == {n \in Nat : n <= m /\ ~Right(n)}
  <2>1. g = [n \in 0 .. m |-> body(n)]
    BY <1>10, Zenon DEF Collects
  <2>2. \A n \in 0 .. m : g[n] = body(n)
    <3> HIDE DEF body
    <3> QED
      BY <2>1, Zenon
  <2>3. Right(0)
    <3>1. g[0] = None
      BY <1>1, <2>2
    <3>2. Fitting(R, s, 0) = {}
      BY DEF Fitting
    <3> QED
      BY <1>1, <3>1, <3>2 DEF Chosen
  <2>4. ASSUME NEW n \in 1 .. m, Right(n - 1) PROVE Right(n)
    <3>1. n \in 0 .. m /\ n # 0 /\ n \in 1 .. Len(s)
      BY <1>1, <1>4
    <3>2. g[n] = IF Replaces(R, g[n - 1], s[n]) THEN s[n] ELSE g[n - 1]
      BY <2>2, <3>1, Zenon DEF Replaces
    <3> SUFFICES ASSUME NEW x, x = g[n - 1] PROVE Right(n)
      OBVIOUS
    <3>3. Chosen(R, s, IF Replaces(R, x, s[n]) THEN s[n] ELSE x, n)
      <4>1. Chosen(R, s, x, n - 1)
        BY <2>4
      <4> HIDE DEF Right
      <4> QED
        BY <3>1, <4>1, ChosenStep
    <3>4. g[n] \in X
      BY <1>1, <2>4, <3>2
    <3> QED
      BY <3>2, <3>3, <3>4
  <2>5. Bad = {}
    <3> SUFFICES ASSUME Bad # {} PROVE FALSE
      OBVIOUS
    <3> HIDE DEF Right
    <3>1. PICK k \in Bad : \A x \in Bad : k <= x
      <4>1. Bad \subseteq Nat
        OBVIOUS
      <4> HIDE DEF Bad
      <4> QED
        BY <4>1, LeastNat, Zenon
    <3>2. k \in Nat /\ k <= m /\ ~Right(k) /\ k # 0
      BY <2>3
    <3> DEFINE j == k - 1
    <3>3. j \in Nat /\ k \in 1 .. m /\ k - 1 = j /\ j <= m /\ ~(k <= j)
      BY <1>1, <3>2
    <3> HIDE DEF j
    <3>4. Right(j)
      BY <3>1, <3>3
    <3> QED
      BY <2>4, <3>2, <3>3, <3>4
  <2>6. Right(m)
    <3> HIDE DEF Right
    <3> QED
      BY <1>1, <2>5
  <2> QED
    BY <2>6
<1> QED
  BY <1>4, <1>9, <1>10, Zenon DEF X

(* What BestCaller answers with. *)
LEMMA BestFacts ==
    ASSUME loaded \in Seq(Libs), NEW i \in DOMAIN Callers
    PROVE  BestCaller(i) \in Libs \cup {None} /\ Chosen(Rank[i], loaded, BestCaller(i), Len(loaded))
<1> DEFINE f == CHOOSE f : Collects(f, Rank[i], loaded, Len(loaded))
<1>1. Rank[i] \in [Libs -> Nat]
  BY LinkerAssumption
<1>2. BestCaller(i) = f[Len(loaded)]
  BY Zenon DEF BestCaller, Collects
<1>3. Collects(f, Rank[i], loaded, Len(loaded))
  BY <1>1, CollectsRight, Zenon
<1> HIDE DEF f
<1> QED
  BY <1>1, <1>2, <1>3, CollectsRight, Zenon

(* The choice is about the members of the list, and it may grow. *)
LEMMA ChosenStays ==
    ASSUME NEW R, NEW s, NEW r, NEW x, NEW n, \A j \in 1 .. n : r[j] = s[j], Chosen(R, s, x, n)
    PROVE  Chosen(R, r, x, n)
<1>1. Fitting(R, s, n) = Fitting(R, r, n)
  BY DEF Fitting
<1>2. \A j \in Fitting(R, s, n) : r[j] = s[j]
  BY DEF Fitting
<1> QED
  BY <1>1, <1>2 DEF Chosen

-----------------------------------------------------------------------------
(* A procedure that holds no lock of its own frame returns, goes on, calls *)
(* another, or makes way for one.                                          *)
Lockless(f) == ~(f.proc = "once" /\ f.at = "store") /\ ~(f.proc = "iterate" /\ f.at = "unlock")

(* What a thread on such a frame does not own. *)
LEMMA LocklessFacts ==
    ASSUME StackParts, NEW t \in Threads, stack[t] # <<>>, Lockless(Top(t))
    PROVE  /\ \A n : ~InBody(Top(t), n)
           /\ ~Iterating(stack[t]) /\ owner["dl"] # t
<1>1. Top(t) = Last(stack[t])
  BY DEF Top
<1> QED
  BY <1>1 DEF StackParts, Lockless, InBody, Iterating

(* It returns. *)
LEMMA QuietReturn ==
    ASSUME LinkerTypes, StackParts, NEW t \in Threads, stack[t] # <<>>, Lockless(Top(t)),
           NEW v \in Libs \cup {"symbol", None}, Return(t, v), UNCHANGED <<api, table, owner>>
    PROVE  StackParts'
<1>1. \A l \in Locks, u \in Threads : owner'[l] = u => owner[l] = u
  OBVIOUS
<1>2. \A n \in Onces : InBody(Top(t), n) => owner'[n] # t
  BY LocklessFacts
<1>3. Iterating(stack[t]) => owner'["dl"] # t
  BY LocklessFacts
<1> QED
  BY <1>1, <1>2, <1>3, ReturnStep

(* It goes on. *)
LEMMA QuietGoto ==
    ASSUME LinkerTypes, StackParts, NEW t \in Threads, stack[t] # <<>>, Lockless(Top(t)), NEW l,
           Goto(t, l), UNCHANGED <<api, table, ret, owner>>,
           [Top(t) EXCEPT !.at = l] \in Frames, Level([Top(t) EXCEPT !.at = l]) = Level(Top(t))
    PROVE  StackParts'
<1> SUFFICES ASSUME NEW g, g = [Top(t) EXCEPT !.at = l] PROVE StackParts'
  OBVIOUS
<1>1. \A k \in Locks, u \in Threads \ {t} : owner'[k] = u => owner[k] = u
  OBVIOUS
<1>2. \A n \in Onces : owner'[n] = t => (owner[n] = t /\ ~InBody(Top(t), n)) \/ InBody(g, n)
  BY LocklessFacts
<1>3. owner'["dl"] = t => g.proc = "iterate" /\ g.at = "unlock"
  BY LocklessFacts
<1>4. g \in Frames /\ Level(g) = Level(Top(t)) /\ UNCHANGED <<api, table, ret>>
  OBVIOUS
<1> QED
  BY <1>1, <1>2, <1>3, <1>4, GotoStep

(* It calls. *)
LEMMA QuietCall ==
    ASSUME LinkerTypes, StackParts, NEW t \in Threads, stack[t] # <<>>, Lockless(Top(t)), NEW l, NEW f \in Frames,
           Call(t, l, f), UNCHANGED <<api, table, ret, owner>>,
           [Top(t) EXCEPT !.at = l] \in Frames, [Top(t) EXCEPT !.at = l].proc = Top(t).proc,
           [Top(t) EXCEPT !.at = l].arg = Top(t).arg,
           Top(t).proc # "once", Level(f) <= Level(Top(t)), Level([Top(t) EXCEPT !.at = l]) = Level(Top(t))
    PROVE  StackParts'
<1> SUFFICES ASSUME NEW g, g = [Top(t) EXCEPT !.at = l] PROVE StackParts'
  OBVIOUS
<1>1. \A k \in Locks, u \in Threads \ {t} : owner'[k] = u => owner[k] = u
  OBVIOUS
<1>2. \A n \in Onces : owner'[n] = t => (owner[n] = t /\ ~InBody(Top(t), n)) \/ InBody(g, n)
  BY LocklessFacts
<1>3. owner'["dl"] # t
  BY LocklessFacts
<1>4. g \in Frames /\ g.proc = Top(t).proc /\ g.arg = Top(t).arg /\ UNCHANGED <<api, table, ret>>
  OBVIOUS
<1>5. Level(f) <= Level(g) /\ (g.proc = "once" => g.at = "store" /\ Level(f) < Level(g))
  OBVIOUS
<1> QED
  BY <1>1, <1>2, <1>3, <1>4, <1>5, CallStep

(* It makes way. *)
LEMMA QuietTail ==
    ASSUME LinkerTypes, StackParts, NEW t \in Threads, stack[t] # <<>>, Lockless(Top(t)), NEW f \in Frames,
           stack' = [stack EXCEPT ![t] = Append(Front(@), f)], UNCHANGED <<api, table, ret, owner>>,
           Level(f) <= Level(Top(t))
    PROVE  StackParts'
<1> DEFINE s == stack[t]  r == Append(Front(s), f)
<1>1. s \in Seq(Frames) /\ s # <<>> /\ Top(t) = Last(s)
  BY TopFacts
<1>2. r \in Seq(Frames) /\ Gone(s, r, f)
  <2> HIDE DEF s
  <2> QED
    BY <1>1, TailShape
<1> SUFFICES ASSUME NEW s2, s2 = r PROVE StackParts'
  OBVIOUS
<1>3. stack' = [stack EXCEPT ![t] = s2] /\ ret' \in [Threads -> Libs \cup {"symbol", None}] /\ UNCHANGED <<api, table>>
  BY DEF StackParts
<1>4. ZippedLinker \/ Descends(s)
  BY DEF StackParts
<1>5. \A n \in Onces : owner'[n] = t => Within(s, n) /\ ~InBody(Last(s), n)
  BY <1>1, LocklessFacts DEF StackParts
<1>6. owner'["dl"] # t
  BY LocklessFacts
<1>7. \A l \in Locks, u \in Threads \ {t} : owner'[l] = u => owner[l] = u
  OBVIOUS
<1>8. s2 \in Seq(Frames) /\ Gone(s, s2, f) /\ Level(f) <= Level(Last(s))
  BY <1>1, <1>2
<1> HIDE DEF s, r
<1>9. /\ Descends(s) => Descends(s2)
      /\ \A n : Within(s, n) /\ ~InBody(Last(s), n) => Within(s2, n)
  BY <1>1, <1>8, GoneKeeps
<1>10. MayGo(t, s2)
  BY <1>4, <1>5, <1>6, <1>7, <1>9 DEF MayGo
<1> QED
  BY <1>3, <1>8, <1>10, ThreadStep

(* Where a thread is. *)
LEMMA AtFacts ==
    ASSUME LinkerIInv, NEW t \in Threads, NEW p, NEW l, At(t, p, l)
    PROVE  /\ LinkerTypes /\ StackParts /\ stack[t] # <<>>
           /\ Top(t) \in Frames /\ Top(t).proc = p /\ Top(t).at = l
BY TopFacts DEF LinkerIInv, At

(* The flag of an initialisation is read. *)
LEMMA OnceCheckInv == ASSUME LinkerIInv, NEW t \in Threads, OnceCheck(t) PROVE LinkerIInv'
<1>1. At(t, "once", "start") /\ UNCHANGED <<api, table, loaded, owner, inited, runs, synced, symbols, callers>>
  BY DEF OnceCheck, Device
<1>2. /\ LinkerTypes /\ StackParts /\ stack[t] # <<>>
      /\ Top(t) \in Frames /\ Top(t).proc = "once" /\ Top(t).at = "start"
  BY <1>1, AtFacts
<1>3. Lockless(Top(t))
  BY <1>2 DEF Lockless
<1>4. StackParts'
  <2>1. CASE inited[Top(t).arg]
    BY <1>1, <1>2, <1>3, <2>1, QuietReturn DEF OnceCheck
  <2>2. CASE ~inited[Top(t).arg]
    <3>1. [Top(t) EXCEPT !.at = "lock"] \in Frames /\ Level([Top(t) EXCEPT !.at = "lock"]) = Level(Top(t))
      BY <1>2, FrameGoes
    <3>2. Goto(t, "lock") /\ UNCHANGED ret
      BY <2>2 DEF OnceCheck
    <3> QED
      BY <1>1, <1>2, <1>3, <3>1, <3>2, QuietGoto
  <2> QED
    BY <2>1, <2>2
<1>5. owner' \in [Locks -> Threads \cup {None}] /\ \A n \in Onces : owner'[n] = owner[n]
  BY <1>1, <1>2 DEF LinkerTypes
<1>6. LinkerTypes' /\ NotYetRun' /\ CallersKnown'
  BY <1>1, <1>5, QuietStep
<1> QED
  BY <1>4, <1>6 DEF LinkerIInv

(* The linker's lock of Android 5. *)
LEMMA IterateStartInv == ASSUME LinkerIInv, NEW t \in Threads, IterateStart(t) PROVE LinkerIInv'
<1>1. At(t, "iterate", "start") /\ UNCHANGED <<api, table, loaded, ret, owner, inited, runs, synced, symbols, callers>>
      /\ Call(t, "lock", Frame("once", "symbols"))
  BY DEF IterateStart, Device
<1>2. /\ LinkerTypes /\ StackParts /\ stack[t] # <<>>
      /\ Top(t) \in Frames /\ Top(t).proc = "iterate" /\ Top(t).at = "start"
  BY <1>1, AtFacts
<1>3. Lockless(Top(t))
  BY <1>2 DEF Lockless
<1>4. StackParts'
  <2>1. /\ [Top(t) EXCEPT !.at = "lock"] \in Frames /\ Level([Top(t) EXCEPT !.at = "lock"]) = Level(Top(t))
        /\ [Top(t) EXCEPT !.at = "lock"].proc = Top(t).proc /\ [Top(t) EXCEPT !.at = "lock"].arg = Top(t).arg
    BY <1>2, FrameGoes
  <2>2. Frame("once", "symbols") \in Frames /\ Level(Frame("once", "symbols")) <= Level(Top(t))
    BY <1>2, NewFrames, LevelFacts DEF Onces, LockRank
  <2>3. Top(t).proc # "once"
    BY <1>2
  <2> QED
    BY <1>1, <1>2, <1>3, <2>1, <2>2, <2>3, QuietCall
<1>5. owner' \in [Locks -> Threads \cup {None}] /\ \A n \in Onces : owner'[n] = owner[n]
  BY <1>1, <1>2 DEF LinkerTypes
<1>6. LinkerTypes' /\ NotYetRun' /\ CallersKnown'
  BY <1>1, <1>5, QuietStep
<1> QED
  BY <1>4, <1>6 DEF LinkerIInv

(* It is taken, if its symbol is known. *)
LEMMA IterateLockInv == ASSUME LinkerIInv, NEW t \in Threads, IterateLock(t) PROVE LinkerIInv'
<1>1. At(t, "iterate", "lock") /\ UNCHANGED <<api, table, loaded, ret, inited, runs, synced, symbols, callers>>
  BY DEF IterateLock, Device
<1>2. /\ LinkerTypes /\ StackParts /\ stack[t] # <<>>
      /\ Top(t) \in Frames /\ Top(t).proc = "iterate" /\ Top(t).at = "lock"
  BY <1>1, AtFacts
<1>3. Lockless(Top(t))
  BY <1>2 DEF Lockless
<1>4. CASE Goto(t, "walk") /\ UNCHANGED owner
  <2>1. [Top(t) EXCEPT !.at = "walk"] \in Frames /\ Level([Top(t) EXCEPT !.at = "walk"]) = Level(Top(t))
    BY <1>2, FrameGoes
  <2>2. StackParts'
    BY <1>1, <1>2, <1>3, <1>4, <2>1, QuietGoto
  <2>3. owner' \in [Locks -> Threads \cup {None}] /\ \A n \in Onces : owner'[n] = owner[n]
    BY <1>2, <1>4 DEF LinkerTypes
  <2>4. LinkerTypes' /\ NotYetRun' /\ CallersKnown'
    BY <1>1, <2>3, QuietStep
  <2> QED
    BY <2>2, <2>4 DEF LinkerIInv
<1>5. CASE Take(t, "dl") /\ Goto(t, "unlock")
  <2>1. /\ owner["dl"] = None /\ owner' \in [Locks -> Threads \cup {None}]
        /\ \A n \in Onces : owner'[n] = owner[n]
        /\ \A k \in Locks, u \in Threads \ {t} : owner'[k] = u => owner[k] = u
    BY <1>2, <1>5 DEF Take, LinkerTypes, Locks, Onces
  <2>2. LinkerTypes' /\ NotYetRun' /\ CallersKnown'
    BY <1>1, <2>1, QuietStep
  <2>3. StackParts'
    <3> SUFFICES ASSUME NEW g, g = [Top(t) EXCEPT !.at = "unlock"] PROVE StackParts'
      OBVIOUS
    <3>1. g \in Frames /\ g.proc = "iterate" /\ g.at = "unlock" /\ Level(g) = Level(Top(t))
      BY <1>2, FrameGoes
    <3>2. \A n \in Onces : owner'[n] = t => (owner[n] = t /\ ~InBody(Top(t), n)) \/ InBody(g, n)
      BY <1>2, <1>3, <2>1, LocklessFacts
    <3>3. owner'["dl"] = t => g.proc = "iterate" /\ g.at = "unlock"
      BY <3>1
    <3>4. \A k \in Locks, u \in Threads \ {t} : owner'[k] = u => owner[k] = u
      BY <2>1
    <3>5. Goto(t, "unlock") /\ UNCHANGED <<api, table, ret>>
      BY <1>1, <1>5
    <3> QED
      BY <1>2, <3>1, <3>2, <3>3, <3>4, <3>5, GotoStep, ZenonT(60)
  <2> QED
    BY <2>2, <2>3 DEF LinkerIInv
<1> QED
  BY <1>4, <1>5 DEF IterateLock

(* A symbol is looked up. *)
LEMMA DsymInv == ASSUME LinkerIInv, NEW t \in Threads, DsymStart(t) \/ DsymRead(t) PROVE LinkerIInv'
<1>1. /\ At(t, "dsym", "start") \/ At(t, "dsym", "read")
      /\ UNCHANGED <<api, table, loaded, owner, inited, runs, synced, symbols, callers>>
  BY DEF DsymStart, DsymRead, Device
<1>2. /\ LinkerTypes /\ StackParts /\ stack[t] # <<>>
      /\ Top(t) \in Frames /\ Top(t).proc = "dsym"
  BY <1>1, AtFacts
<1>3. Lockless(Top(t))
  BY <1>2 DEF Lockless
<1>6. StackParts'
  <2>1. CASE \E v \in Libs \cup {"symbol", None} : Return(t, v)
    BY <1>1, <1>2, <1>3, <2>1, QuietReturn
  <2>2. CASE Top(t).arg = "debugdata" /\ Call(t, "read", Frame("once", "lzma")) /\ UNCHANGED ret
    <3>1. /\ [Top(t) EXCEPT !.at = "read"] \in Frames /\ Level([Top(t) EXCEPT !.at = "read"]) = Level(Top(t))
          /\ [Top(t) EXCEPT !.at = "read"].proc = Top(t).proc /\ [Top(t) EXCEPT !.at = "read"].arg = Top(t).arg
      BY <1>2, FrameGoes
    <3>2. Frame("once", "lzma") \in Frames /\ Level(Frame("once", "lzma")) <= Level(Top(t))
      BY <1>2, <2>2, NewFrames, LevelFacts DEF Onces, LockRank
    <3>3. Top(t).proc # "once"
      BY <1>2
    <3> QED
      BY <1>1, <1>2, <1>3, <2>2, <3>1, <3>2, <3>3, QuietCall
  <2> QED
    BY <2>1, <2>2 DEF DsymStart, DsymRead
<1>7. owner' \in [Locks -> Threads \cup {None}] /\ \A n \in Onces : owner'[n] = owner[n]
  BY <1>1, <1>2 DEF LinkerTypes
<1>8. LinkerTypes' /\ NotYetRun' /\ CallersKnown'
  BY <1>1, <1>7, QuietStep
<1> QED
  BY <1>6, <1>8 DEF LinkerIInv

(* xdl_open finds, forces and finds again. *)
LEMMA OpenStepsInv ==
    ASSUME LinkerIInv, NEW t \in Threads, OpenFind(t) \/ OpenFound(t) \/ OpenForced(t)
    PROVE  LinkerIInv'
<1>1. /\ At(t, "open", "start") \/ At(t, "open", "found") \/ At(t, "open", "forced")
      /\ UNCHANGED <<api, table, loaded, owner, inited, runs, synced, symbols, callers>>
  BY DEF OpenFind, OpenFound, OpenForced, Device
<1>2. /\ LinkerTypes /\ StackParts /\ stack[t] # <<>>
      /\ Top(t) \in Frames /\ Top(t).proc = "open"
  BY <1>1, AtFacts
<1>3. Lockless(Top(t)) /\ Top(t).proc # "once"
  BY <1>2 DEF Lockless
<1>4. Top(t).arg \in Libs /\ Level(Top(t)) = 3
  BY <1>2, LevelFacts
<1>5. \A l \in {"found", "forced"} :
         /\ [Top(t) EXCEPT !.at = l] \in Frames /\ Level([Top(t) EXCEPT !.at = l]) = Level(Top(t))
         /\ [Top(t) EXCEPT !.at = l].proc = Top(t).proc /\ [Top(t) EXCEPT !.at = l].arg = Top(t).arg
  BY <1>2, FrameGoes
<1>6. /\ Frame("iterate", Top(t).arg) \in Frames /\ Level(Frame("iterate", Top(t).arg)) <= Level(Top(t))
      /\ Frame("force", Top(t).arg) \in Frames /\ Level(Frame("force", Top(t).arg)) <= Level(Top(t))
  BY <1>4, NewFrames
<1>7. StackParts'
  <2>1. CASE \E v \in Libs \cup {"symbol", None} : Return(t, v)
    BY <1>1, <1>2, <1>3, <2>1, QuietReturn
  <2>2. CASE \E l \in {"found", "forced"}, f \in {Frame("iterate", Top(t).arg), Frame("force", Top(t).arg)} :
                Call(t, l, f) /\ UNCHANGED ret
    <3> PICK l \in {"found", "forced"}, f \in {Frame("iterate", Top(t).arg), Frame("force", Top(t).arg)} :
                Call(t, l, f) /\ UNCHANGED ret
      BY <2>2
    <3>1. /\ [Top(t) EXCEPT !.at = l] \in Frames /\ Level([Top(t) EXCEPT !.at = l]) = Level(Top(t))
          /\ [Top(t) EXCEPT !.at = l].proc = Top(t).proc /\ [Top(t) EXCEPT !.at = l].arg = Top(t).arg
      BY <1>5
    <3>2. f \in Frames /\ Level(f) <= Level(Top(t))
      BY <1>6
    <3> QED
      BY <1>1, <1>2, <1>3, <3>1, <3>2, QuietCall
  <2>3. CASE stack' = [stack EXCEPT ![t] = Append(Front(@), Frame("iterate", Top(t).arg))] /\ UNCHANGED ret
    BY <1>1, <1>2, <1>3, <1>6, <2>3, QuietTail
  <2>4. CASE OpenFind(t)
    BY <2>2, <2>4 DEF OpenFind
  <2>5. CASE OpenFound(t)
    <3>1. ret[t] \in Libs \cup {"symbol", None}
      BY <1>2 DEF StackParts
    <3> QED
      BY <2>1, <2>2, <2>5, <3>1 DEF OpenFound
  <2>6. CASE OpenForced(t)
    <3>1. \/ Return(t, None)
          \/ stack' = [stack EXCEPT ![t] = Append(Front(@), Frame("iterate", Top(t).arg))] /\ UNCHANGED ret
      BY <2>6 DEF OpenForced
    <3> QED
      BY <2>1, <2>3, <3>1
  <2> QED
    BY <2>4, <2>5, <2>6
<1>8. owner' \in [Locks -> Threads \cup {None}] /\ \A n \in Onces : owner'[n] = owner[n]
  BY <1>1, <1>2 DEF LinkerTypes
<1>9. LinkerTypes' /\ NotYetRun' /\ CallersKnown'
  BY <1>1, <1>8, QuietStep
<1> QED
  BY <1>7, <1>9 DEF LinkerIInv

(* xdl_linker_force_dlopen goes through its initialisations. *)
LEMMA ForceStepsInv ==
    ASSUME LinkerIInv, NEW t \in Threads, ForceStart(t) \/ ForceGate(t)
    PROVE  LinkerIInv'
<1>1. /\ At(t, "force", "start") \/ At(t, "force", "gate")
      /\ UNCHANGED <<api, table, loaded, owner, inited, runs, synced, symbols, callers>>
  BY DEF ForceStart, ForceGate, Device
<1>2. /\ LinkerTypes /\ StackParts /\ stack[t] # <<>>
      /\ Top(t) \in Frames /\ Top(t).proc = "force"
  BY <1>1, AtFacts
<1>3. Lockless(Top(t)) /\ Top(t).proc # "once"
  BY <1>2 DEF Lockless
<1>4. Level(Top(t)) = 3
  BY <1>2, LevelFacts
<1>5. \A l \in {"gate", "dlopen"} :
         /\ [Top(t) EXCEPT !.at = l] \in Frames /\ Level([Top(t) EXCEPT !.at = l]) = Level(Top(t))
         /\ [Top(t) EXCEPT !.at = l].proc = Top(t).proc /\ [Top(t) EXCEPT !.at = l].arg = Top(t).arg
  BY <1>2, FrameGoes
<1>6. /\ Frame("once", "symbols") \in Frames /\ Level(Frame("once", "symbols")) <= Level(Top(t))
      /\ Frame("once", "callers") \in Frames /\ Level(Frame("once", "callers")) <= Level(Top(t))
  BY <1>4, NewFrames DEF Onces, LockRank
<1>7. StackParts'
  <2>1. CASE Return(t, None)
    BY <1>1, <1>2, <1>3, <2>1, QuietReturn
  <2>2. CASE \E l \in {"gate", "dlopen"}, f \in {Frame("once", "symbols"), Frame("once", "callers")} :
                Call(t, l, f) /\ UNCHANGED ret
    <3> PICK l \in {"gate", "dlopen"}, f \in {Frame("once", "symbols"), Frame("once", "callers")} :
                Call(t, l, f) /\ UNCHANGED ret
      BY <2>2
    <3>1. /\ [Top(t) EXCEPT !.at = l] \in Frames /\ Level([Top(t) EXCEPT !.at = l]) = Level(Top(t))
          /\ [Top(t) EXCEPT !.at = l].proc = Top(t).proc /\ [Top(t) EXCEPT !.at = l].arg = Top(t).arg
      BY <1>5
    <3>2. f \in Frames /\ Level(f) <= Level(Top(t))
      BY <1>6
    <3> QED
      BY <1>1, <1>2, <1>3, <3>1, <3>2, QuietCall
  <2>3. CASE Goto(t, "dlopen") /\ UNCHANGED ret
    <3>1. [Top(t) EXCEPT !.at = "dlopen"] \in Frames /\ Level([Top(t) EXCEPT !.at = "dlopen"]) = Level(Top(t))
      BY <1>5
    <3> QED
      BY <1>1, <1>2, <1>3, <2>3, <3>1, QuietGoto
  <2> QED
    BY <2>1, <2>2, <2>3 DEF ForceStart, ForceGate
<1>8. owner' \in [Locks -> Threads \cup {None}] /\ \A n \in Onces : owner'[n] = owner[n]
  BY <1>1, <1>2 DEF LinkerTypes
<1>9. LinkerTypes' /\ NotYetRun' /\ CallersKnown'
  BY <1>1, <1>8, QuietStep
<1> QED
  BY <1>7, <1>9 DEF LinkerIInv

(* A longer list leaves the other parts of the state as they are. *)
LEMMA ListGrows ==
    ASSUME LinkerIInv, NEW lib \in Libs, loaded' = Append(loaded, lib),
           UNCHANGED <<api, table, owner, inited, runs, symbols, callers>>
    PROVE  LinkerTypes' /\ NotYetRun' /\ CallersKnown'
<1>1. loaded \in Seq(Libs)
  BY DEF LinkerIInv, LinkerTypes
<1>2. LinkerTypes'
  BY <1>1 DEF LinkerIInv, LinkerTypes
<1>3. NotYetRun'
  BY DEF LinkerIInv, NotYetRun
<1>4. CallersKnown'
  <2> PICK n \in 0 .. Len(loaded) : \A i \in DOMAIN Callers : Chosen(Rank[i], loaded, callers[i], n)
    BY DEF LinkerIInv, CallersKnown
  <2>1. n \in 0 .. Len(loaded') /\ \A j \in 1 .. n : loaded'[j] = loaded[j]
    BY <1>1
  <2>2. \A i \in DOMAIN Callers : Chosen(Rank[i], loaded', callers[i], n)
    BY <2>1, ChosenStays
  <2> QED
    BY <2>1, <2>2 DEF CallersKnown
<1> QED
  BY <1>2, <1>3, <1>4

(* The linker's dlopen. *)
LEMMA ForceDlopenInv == ASSUME LinkerIInv, NEW t \in Threads, ForceDlopen(t) PROVE LinkerIInv'
<1>1. /\ At(t, "force", "dlopen")
      /\ UNCHANGED <<api, table, owner, inited, runs, synced, symbols, callers>>
  BY DEF ForceDlopen, Device
<1>2. /\ LinkerTypes /\ StackParts /\ stack[t] # <<>>
      /\ Top(t) \in Frames /\ Top(t).proc = "force"
  BY <1>1, AtFacts
<1>3. Lockless(Top(t)) /\ Top(t).arg \in Libs
  BY <1>2, LevelFacts DEF Lockless
<1>4. StackParts'
  <2>1. \E v \in Libs \cup {"symbol", None} : Return(t, v)
    BY <1>3 DEF ForceDlopen
  <2> QED
    BY <1>1, <1>2, <1>3, <2>1, QuietReturn
<1>5. LinkerTypes' /\ NotYetRun' /\ CallersKnown'
  <2>1. CASE UNCHANGED loaded
    <3>1. owner' \in [Locks -> Threads \cup {None}] /\ \A n \in Onces : owner'[n] = owner[n]
      BY <1>1, <1>2 DEF LinkerTypes
    <3> QED
      BY <1>1, <2>1, <3>1, QuietStep
  <2>2. CASE loaded' = Append(loaded, Top(t).arg)
    BY <1>1, <1>3, <2>2, ListGrows
  <2> QED
    BY <2>1, <2>2 DEF ForceDlopen
<1> QED
  BY <1>4, <1>5 DEF LinkerIInv

(* The game loads a library. *)
LEMMA LinkerGrowsInv == ASSUME LinkerIInv, LinkerGrows PROVE LinkerIInv'
<1>1. UNCHANGED <<api, table, stack, ret, owner, inited, runs, synced, symbols, callers>>
  BY DEF LinkerGrows, Device
<1>2. PICK lib \in Libs : loaded' = Append(loaded, lib)
  BY DEF LinkerGrows
<1>3. LinkerTypes' /\ NotYetRun' /\ CallersKnown'
  BY <1>1, <1>2, ListGrows
<1>4. StackParts'
  BY <1>1 DEF LinkerIInv, StackParts, ZippedLinker, Iterating
<1> QED
  BY <1>3, <1>4 DEF LinkerIInv

(* An iteration: what it finds, and the callers it collects. *)
LEMMA WalkParts ==
    ASSUME LinkerIInv, NEW t \in Threads, Top(t) \in Frames, Top(t).proc = "iterate", Walk(t, Top(t).arg),
           UNCHANGED <<api, table, loaded, inited, runs, symbols>>,
           owner' \in [Locks -> Threads \cup {None}], \A n \in Onces : owner'[n] = owner[n]
    PROVE  /\ LinkerTypes' /\ NotYetRun' /\ CallersKnown'
           /\ \E v \in Libs \cup {"symbol", None} : Return(t, v)
<1>1. LinkerTypes /\ loaded \in Seq(Libs)
  BY DEF LinkerIInv, LinkerTypes
<1>2. CASE Top(t).arg = "callers"
  <2>1. callers' = [i \in DOMAIN Callers |-> BestCaller(i)] /\ Return(t, None)
    BY <1>2 DEF Walk
  <2>2. \A i \in DOMAIN Callers : /\ BestCaller(i) \in Libs \cup {None}
                                  /\ Chosen(Rank[i], loaded, BestCaller(i), Len(loaded))
    BY <1>1, BestFacts
  <2> HIDE DEF BestCaller, Chosen
  <2>3. LinkerTypes'
    BY <1>1, <2>1, <2>2 DEF LinkerTypes
  <2>4. \A i \in DOMAIN Callers : Chosen(Rank[i], loaded', callers'[i], Len(loaded'))
    BY <2>1, <2>2
  <2>5. Len(loaded') \in 0 .. Len(loaded')
    BY <1>1
  <2>6. CallersKnown'
    BY <2>4, <2>5 DEF CallersKnown
  <2>7. NotYetRun'
    BY DEF LinkerIInv, NotYetRun
  <2> QED
    BY <2>1, <2>3, <2>6, <2>7
<1>3. CASE Top(t).arg # "callers"
  <2>1. UNCHANGED callers /\ Return(t, IF Top(t).arg \in ToSet(loaded) THEN Top(t).arg ELSE None)
    BY <1>3 DEF Walk
  <2>2. Top(t).arg \in Libs
    BY <1>3 DEF Frames
  <2>3. LinkerTypes' /\ NotYetRun' /\ CallersKnown'
    BY <2>1, QuietStep
  <2> QED
    BY <2>1, <2>2, <2>3
<1> QED
  BY <1>2, <1>3

(* An iteration without the lock. *)
LEMMA IterateWalkInv == ASSUME LinkerIInv, NEW t \in Threads, IterateWalk(t) PROVE LinkerIInv'
<1>1. /\ At(t, "iterate", "walk") \/ At(t, "iterate", "start")
      /\ Walk(t, Top(t).arg) /\ UNCHANGED <<api, table, loaded, owner, inited, runs, synced, symbols>>
  BY DEF IterateWalk, Device
<1>2. /\ LinkerTypes /\ StackParts /\ stack[t] # <<>>
      /\ Top(t) \in Frames /\ Top(t).proc = "iterate" /\ Top(t).at # "unlock"
  BY <1>1, AtFacts
<1>3. Lockless(Top(t))
  BY <1>2 DEF Lockless
<1>4. owner' \in [Locks -> Threads \cup {None}] /\ \A n \in Onces : owner'[n] = owner[n]
  BY <1>1, <1>2 DEF LinkerTypes
<1>5. /\ LinkerTypes' /\ NotYetRun' /\ CallersKnown'
      /\ \E v \in Libs \cup {"symbol", None} : Return(t, v)
  BY <1>1, <1>2, <1>4, WalkParts
<1>6. StackParts'
  BY <1>1, <1>2, <1>3, <1>5, QuietReturn
<1> QED
  BY <1>5, <1>6 DEF LinkerIInv

(* An iteration that holds the lock gives it back. *)
LEMMA IterateUnlockInv == ASSUME LinkerIInv, NEW t \in Threads, IterateUnlock(t) PROVE LinkerIInv'
<1>1. /\ At(t, "iterate", "unlock")
      /\ Walk(t, Top(t).arg) /\ UNCHANGED <<api, table, loaded, inited, runs, synced, symbols>>
      /\ owner' = [owner EXCEPT !["dl"] = None]
  BY DEF IterateUnlock, Device, Release
<1>2. /\ LinkerTypes /\ StackParts /\ stack[t] # <<>>
      /\ Top(t) \in Frames /\ Top(t).proc = "iterate"
  BY <1>1, AtFacts
<1>3. None \notin Threads
  BY LinkerAssumption
<1>4. /\ owner' \in [Locks -> Threads \cup {None}] /\ \A n \in Onces : owner'[n] = owner[n]
      /\ owner'["dl"] = None
      /\ \A l \in Locks, u \in Threads : owner'[l] = u => owner[l] = u
  BY <1>1, <1>2, <1>3 DEF LinkerTypes, Locks, Onces
<1>5. /\ LinkerTypes' /\ NotYetRun' /\ CallersKnown'
      /\ \E v \in Libs \cup {"symbol", None} : Return(t, v)
  BY <1>1, <1>2, <1>4, WalkParts
<1>6. \A n \in Onces : InBody(Top(t), n) => owner'[n] # t
  BY <1>2 DEF InBody
<1>7. Iterating(stack[t]) => owner'["dl"] # t
  BY <1>3, <1>4
<1>8. StackParts'
  BY <1>1, <1>2, <1>4, <1>5, <1>6, <1>7, ReturnStep
<1> QED
  BY <1>5, <1>8 DEF LinkerIInv

(* A thread calls into xDL. *)
LEMMA EnterInv == ASSUME LinkerIInv, NEW t \in Threads, Enter(t) PROVE LinkerIInv'
<1>1. stack[t] = <<>> /\ UNCHANGED <<api, table, loaded, ret, owner, inited, runs, synced, symbols, callers>>
  BY DEF Enter, Device
<1>2. PICK f \in {Frame("dsym", "debugdata")} \cup {Frame("open", lib) : lib \in Opened} :
          stack' = [stack EXCEPT ![t] = <<f>>]
  BY DEF Enter
<1>3. f \in Frames
  BY NewFrames, LinkerAssumption
<1>4. LinkerTypes /\ StackParts
  BY DEF LinkerIInv
<1> SUFFICES ASSUME NEW r, r = <<f>> PROVE LinkerIInv'
  OBVIOUS
<1>5. r \in Seq(Frames) /\ Len(r) = 1
  BY <1>3
<1>6. Descends(r)
  BY <1>5 DEF Descends
<1>7. \A n \in Onces : owner[n] # t
  BY <1>1, <1>4 DEF StackParts, Within
<1>8. owner["dl"] # t
  BY <1>1, <1>4 DEF StackParts, Iterating
<1>9. MayGo(t, r)
  BY <1>1, <1>6, <1>7, <1>8 DEF MayGo
<1>10. stack' = [stack EXCEPT ![t] = r] /\ ret' \in [Threads -> Libs \cup {"symbol", None}] /\ UNCHANGED <<api, table>>
  BY <1>1, <1>2, <1>4 DEF StackParts
<1>11. StackParts'
  BY <1>4, <1>5, <1>9, <1>10, ThreadStep
<1>12. owner' \in [Locks -> Threads \cup {None}] /\ \A n \in Onces : owner'[n] = owner[n]
  BY <1>1, <1>4 DEF LinkerTypes
<1>13. LinkerTypes' /\ NotYetRun' /\ CallersKnown'
  BY <1>1, <1>12, QuietStep
<1> QED
  BY <1>11, <1>13 DEF LinkerIInv

(* The body of an initialisation: what it calls. *)
LEMMA BodyCalls ==
    ASSUME LinkerTypes, NEW n \in Onces,
           NEW f, \/ n = "symbols" /\ f = Frame("dsym", TableOfLinker) /\ api \in {"L", "N", "O"}
                  \/ n = "callers" /\ f = Frame("iterate", "callers")
                  \/ n = "lzma" /\ f = Frame("open", Lzma)
    PROVE  f \in Frames /\ (ZippedLinker \/ Level(f) < LockRank(n))
<1>1. CASE n = "symbols" /\ f = Frame("dsym", TableOfLinker) /\ api \in {"L", "N", "O"}
  <2>1. TableOfLinker \in {"symtab", "debugdata"}
    BY LinkerAssumption DEF TableOfLinker, LinkerTypes
  <2>2. LockRank(n) = 2
    BY <1>1 DEF LockRank
  <2> QED
    BY <1>1, <2>1, <2>2, NewFrames DEF ZippedLinker, TableOfLinker
<1>2. CASE n = "callers" /\ f = Frame("iterate", "callers")
  BY <1>2, NewFrames DEF LockRank
<1>3. CASE n = "lzma" /\ f = Frame("open", Lzma)
  BY <1>3, NewFrames, LinkerAssumption DEF LockRank
<1> QED
  BY <1>1, <1>2, <1>3

(* The lock of an initialisation is taken. *)
LEMMA OnceLockInv == ASSUME LinkerIInv, NEW t \in Threads, OnceLock(t) PROVE LinkerIInv'
<1> DEFINE n == Top(t).arg
<1>1. /\ At(t, "once", "lock") /\ owner[n] = None
      /\ UNCHANGED <<api, table, loaded, inited, symbols, callers>>
  BY DEF OnceLock, Device
<1>2. /\ LinkerTypes /\ StackParts /\ stack[t] # <<>>
      /\ Top(t) \in Frames /\ Top(t).proc = "once" /\ Top(t).at = "lock"
  BY <1>1, AtFacts
<1>3. Lockless(Top(t)) /\ n \in Onces /\ Level(Top(t)) = LockRank(n)
  BY <1>2, LevelFacts DEF Lockless
<1>4. CASE inited[n]
  <2>1. Return(t, None) /\ UNCHANGED <<runs, owner>>
    BY <1>4 DEF OnceLock, AlreadyDone
  <2>2. StackParts'
    BY <1>1, <1>2, <1>3, <2>1, QuietReturn
  <2>3. owner' \in [Locks -> Threads \cup {None}] /\ \A m \in Onces : owner'[m] = owner[m]
    BY <1>2, <2>1 DEF LinkerTypes
  <2>4. LinkerTypes' /\ NotYetRun' /\ CallersKnown'
    BY <1>1, <2>1, <2>3, QuietStep
  <2> QED
    BY <2>2, <2>4 DEF LinkerIInv
<1>5. CASE ~inited[n]
  <2>1. /\ owner' = [owner EXCEPT ![n] = t] /\ runs' = [runs EXCEPT ![n] = @ + 1]
        /\ UNCHANGED ret
        /\ \/ n = "symbols" /\ api \in {"L", "N", "O"} /\ Call(t, "store", Frame("dsym", TableOfLinker))
           \/ n = "callers" /\ Call(t, "store", Frame("iterate", "callers"))
           \/ n = "lzma" /\ Call(t, "store", Frame("open", Lzma))
           \/ Goto(t, "store")
    BY <1>5 DEF OnceLock, AlreadyDone
  <2> SUFFICES ASSUME NEW m, m = n PROVE LinkerIInv'
    OBVIOUS
  <2>2. /\ m \in Onces /\ owner[m] = None /\ ~inited[m]
        /\ owner' = [owner EXCEPT ![m] = t] /\ runs' = [runs EXCEPT ![m] = @ + 1]
    BY <1>1, <1>3, <1>5, <2>1
  <2>3. None \notin Threads /\ m \in Locks /\ m # "dl"
    BY <2>2, LinkerAssumption DEF Locks, Onces
  <2>4. runs[m] = 0
    BY <2>2 DEF LinkerIInv, NotYetRun
  <2>5. LinkerTypes'
    BY <1>1, <1>2, <2>2, <2>3 DEF LinkerTypes
  <2>6. NotYetRun'
    <3> SUFFICES ASSUME NEW k \in Onces
                 PROVE  runs'[k] <= 1 /\ (~inited'[k] /\ owner'[k] = None => runs'[k] = 0)
      BY DEF NotYetRun
    <3>1. CASE k = m
      BY <1>2, <2>2, <2>3, <2>4, <3>1 DEF LinkerTypes
    <3>2. CASE k # m
      <4>1. runs'[k] = runs[k] /\ owner'[k] = owner[k] /\ inited'[k] = inited[k]
        BY <1>1, <1>2, <2>2, <3>2 DEF LinkerTypes, Locks
      <4> QED
        BY <4>1 DEF LinkerIInv, NotYetRun
    <3> QED
      BY <3>1, <3>2
  <2>7. CallersKnown'
    BY <1>1 DEF LinkerIInv, CallersKnown
  <2>8. StackParts'
    <3> SUFFICES ASSUME NEW g, g = [Top(t) EXCEPT !.at = "store"] PROVE StackParts'
      OBVIOUS
    <3>1. g \in Frames /\ g.proc = "once" /\ g.arg = m /\ g.at = "store" /\ Level(g) = Level(Top(t))
      BY <1>2, FrameGoes
    <3>2. \A k \in Locks, u \in Threads \ {t} : owner'[k] = u => owner[k] = u
      BY <1>2, <2>2 DEF LinkerTypes
    <3>3. \A k \in Onces : owner'[k] = t => (owner[k] = t /\ ~InBody(Top(t), k)) \/ InBody(g, k)
      <4> SUFFICES ASSUME NEW k \in Onces, owner'[k] = t
                   PROVE  (owner[k] = t /\ ~InBody(Top(t), k)) \/ InBody(g, k)
        OBVIOUS
      <4>1. CASE k = m
        BY <3>1, <4>1 DEF InBody
      <4>2. CASE k # m
        <5>1. owner[k] = t
          BY <1>2, <2>2, <4>2 DEF LinkerTypes
        <5> QED
          BY <1>2, <1>3, <5>1, LocklessFacts
      <4> QED
        BY <4>1, <4>2
    <3>4. owner'["dl"] # t
      <4>1. owner'["dl"] = owner["dl"]
        BY <1>2, <2>2, <2>3 DEF LinkerTypes, Locks
      <4> QED
        BY <1>2, <1>3, <4>1, LocklessFacts
    <3>5. UNCHANGED <<api, table, ret>>
      BY <1>1, <2>1
    <3>6. CASE Goto(t, "store")
      <4>1. owner'["dl"] = t => g.proc = "iterate" /\ g.at = "unlock"
        BY <3>4
      <4>2. g \in Frames /\ Level(g) = Level(Top(t))
        BY <3>1
      <4> QED
        BY <1>2, <3>2, <3>3, <3>5, <3>6, <4>1, <4>2, GotoStep
    <3>7. ASSUME NEW f, Call(t, "store", f), f \in Frames, ZippedLinker \/ Level(f) < LockRank(m)
          PROVE  StackParts'
      <4>1. g.proc = Top(t).proc /\ g.arg = Top(t).arg /\ g \in Frames
        BY <1>2, <3>1
      <4>2. Level(f) \in 0 .. 4 /\ Level(g) \in 0 .. 4 /\ Level(g) = LockRank(m)
        BY <1>3, <3>1, <3>7, LevelFacts
      <4>3. ZippedLinker \/ (Level(f) <= Level(g) /\ (g.proc = "once" => g.at = "store" /\ Level(f) < Level(g)))
        <5> HIDE DEF Level, LockRank
        <5> QED
          BY <3>1, <3>7, <4>2
      <4> QED
        BY <1>2, <3>2, <3>3, <3>4, <3>5, <3>7, <4>1, <4>3, CallStep, ZenonT(60)
    <3>8. CASE n = "symbols" /\ api \in {"L", "N", "O"} /\ Call(t, "store", Frame("dsym", TableOfLinker))
      BY <1>2, <2>2, <3>7, <3>8, BodyCalls
    <3>9. CASE n = "callers" /\ Call(t, "store", Frame("iterate", "callers"))
      BY <1>2, <2>2, <3>7, <3>9, BodyCalls
    <3>10. CASE n = "lzma" /\ Call(t, "store", Frame("open", Lzma))
      BY <1>2, <2>2, <3>7, <3>10, BodyCalls
    <3> QED
      BY <2>1, <3>6, <3>8, <3>9, <3>10
  <2> QED
    BY <2>5, <2>6, <2>7, <2>8 DEF LinkerIInv
<1> QED
  BY <1>4, <1>5

(* An initialisation is done. *)
LEMMA OnceStoreInv == ASSUME LinkerIInv, NEW t \in Threads, OnceStore(t) PROVE LinkerIInv'
<1>1. /\ At(t, "once", "store") /\ UNCHANGED <<api, table, loaded, runs, callers>>
      /\ symbols' = symbols \cup Found(t, Top(t).arg)
      /\ inited' = [inited EXCEPT ![Top(t).arg] = TRUE] /\ owner' = [owner EXCEPT ![Top(t).arg] = None]
      /\ Return(t, None)
  BY DEF OnceStore, Device, Release
<1>2. /\ LinkerTypes /\ StackParts /\ stack[t] # <<>>
      /\ Top(t) \in Frames /\ Top(t).proc = "once" /\ Top(t).at = "store"
  BY <1>1, AtFacts
<1>3. Top(t).arg \in Onces /\ Found(t, Top(t).arg) \subseteq {"dlopen", "mutex", "lzma"}
  BY <1>2, LevelFacts DEF Found
<1> SUFFICES ASSUME NEW m, m = Top(t).arg PROVE LinkerIInv'
  OBVIOUS
<1>4. /\ m \in Onces /\ m \in Locks /\ None \notin Threads
      /\ inited' = [inited EXCEPT ![m] = TRUE] /\ owner' = [owner EXCEPT ![m] = None]
  BY <1>1, <1>3, LinkerAssumption DEF Locks
<1>5. LinkerTypes'
  BY <1>1, <1>2, <1>3, <1>4 DEF LinkerTypes
<1>6. NotYetRun'
  <2> SUFFICES ASSUME NEW k \in Onces
               PROVE  runs'[k] <= 1 /\ (~inited'[k] /\ owner'[k] = None => runs'[k] = 0)
    BY DEF NotYetRun
  <2>1. CASE k = m
    BY <1>1, <1>2, <1>4, <2>1 DEF LinkerIInv, LinkerTypes, NotYetRun
  <2>2. CASE k # m
    BY <1>1, <1>2, <1>4, <2>2 DEF LinkerIInv, LinkerTypes, NotYetRun, Locks
  <2> QED
    BY <2>1, <2>2
<1>7. CallersKnown'
  BY <1>1 DEF LinkerIInv, CallersKnown
<1>8. /\ owner'[m] = None
      /\ \A l \in Locks, u \in Threads : owner'[l] = u => owner[l] = u
  BY <1>2, <1>4 DEF LinkerTypes
<1>9. \A n \in Onces : InBody(Top(t), n) => owner'[n] # t
  BY <1>4, <1>8 DEF InBody
<1>10. Iterating(stack[t]) => owner'["dl"] # t
  BY <1>2 DEF Iterating, Top
<1>11. StackParts'
  BY <1>1, <1>2, <1>8, <1>9, <1>10, ReturnStep
<1> QED
  BY <1>5, <1>6, <1>7, <1>11 DEF LinkerIInv

(* The initial states. *)
LEMMA LinkerInitInv == LinkerInit => LinkerIInv
<1> SUFFICES ASSUME LinkerInit PROVE LinkerIInv
  OBVIOUS
<1>1. None \notin Threads
  BY LinkerAssumption
<1>2. LinkerTypes
  BY DEF LinkerInit, LinkerTypes, Onces
<1>3. StackParts
  <2>1. stack \in [Threads -> Seq(Frames)] /\ ret \in [Threads -> Libs \cup {"symbol", None}]
    BY DEF LinkerInit
  <2>2. \A t \in Threads : Descends(stack[t])
    BY DEF LinkerInit, Descends
  <2>3. \A l \in Locks, t \in Threads : owner[l] # t
    BY <1>1 DEF LinkerInit
  <2> QED
    BY <2>1, <2>2, <2>3 DEF StackParts, Locks
<1>4. NotYetRun
  BY DEF LinkerInit, NotYetRun
<1>5. CallersKnown
  <2>1. 0 \in 0 .. Len(loaded)
    BY <1>2 DEF LinkerTypes
  <2>2. \A i \in DOMAIN Callers : Chosen(Rank[i], loaded, callers[i], 0)
    BY DEF LinkerInit, Chosen, Fitting
  <2> QED
    BY <2>1, <2>2 DEF CallersKnown
<1> QED
  BY <1>2, <1>3, <1>4, <1>5 DEF LinkerIInv

(* Every step keeps the invariant. *)
LEMMA LinkerNextInv == LinkerIInv /\ [LinkerNext]_linkerVars => LinkerIInv'
<1> SUFFICES ASSUME LinkerIInv, [LinkerNext]_linkerVars PROVE LinkerIInv'
  OBVIOUS
<1>1. ASSUME NEW t \in Threads, Proceed(t) PROVE LinkerIInv'
  BY <1>1, OnceCheckInv, OnceLockInv, OnceStoreInv, IterateStartInv, IterateLockInv, IterateWalkInv, IterateUnlockInv,
     DsymInv, OpenStepsInv, ForceStepsInv, ForceDlopenInv DEF Proceed
<1>2. CASE UNCHANGED linkerVars
  <2>1. LinkerTypes' /\ NotYetRun' /\ CallersKnown'
    BY <1>2 DEF linkerVars, LinkerIInv, LinkerTypes, NotYetRun, CallersKnown
  <2>2. StackParts'
    BY <1>2 DEF linkerVars, LinkerIInv, StackParts, ZippedLinker, Iterating
  <2> QED
    BY <2>1, <2>2 DEF LinkerIInv
<1> QED
  BY <1>1, <1>2, LinkerGrowsInv, EnterInv DEF LinkerNext

(* The last lock that a waiting thread, and a thread that owns a lock, may *)
(* wait for: each lock comes after those that its owner may wait for.      *)
LEMMA WaitsBelow ==
    ASSUME LinkerIInv, ~ZippedLinker, NEW t \in Threads, NEW u \in Threads, WaitsFor(t) = u, WaitsFor(u) \in Threads
    PROVE  \E l, m \in Locks : /\ owner[l] = u /\ owner[m] = WaitsFor(u) /\ LockRank(m) < LockRank(l)
                               /\ l = IF Top(t).proc = "once" THEN Top(t).arg ELSE "dl"
                               /\ m = IF Top(u).proc = "once" THEN Top(u).arg ELSE "dl"
<1> DEFINE Wanted(x) == IF Top(x).proc = "once" THEN Top(x).arg ELSE "dl"
<1>1. None \notin Threads /\ StackParts
  BY LinkerAssumption DEF LinkerIInv
<1>2. \A x \in Threads : WaitsFor(x) \in Threads =>
          /\ stack[x] # <<>> /\ Wanted(x) \in Locks /\ owner[Wanted(x)] = WaitsFor(x)
          /\ Top(x).at \in {"lock", "dlopen"} /\ Top(x) \in Frames
          /\ LockRank(Wanted(x)) \in 1 .. 4 /\ LockRank(Wanted(x)) <= Level(Top(x))
  <2> SUFFICES ASSUME NEW x \in Threads, WaitsFor(x) \in Threads
               PROVE  /\ stack[x] # <<>> /\ Wanted(x) \in Locks /\ owner[Wanted(x)] = WaitsFor(x)
                      /\ Top(x).at \in {"lock", "dlopen"} /\ Top(x) \in Frames
                      /\ LockRank(Wanted(x)) \in 1 .. 4 /\ LockRank(Wanted(x)) <= Level(Top(x))
    OBVIOUS
  <2>1. CASE At(x, "once", "lock")
    <3>1. stack[x] # <<>> /\ Top(x) \in Frames /\ Top(x).proc = "once" /\ Top(x).at = "lock"
      BY <2>1, AtFacts
    <3>2. Top(x).arg \in Onces /\ Level(Top(x)) = LockRank(Top(x).arg)
      BY <3>1, LevelFacts
    <3>3. WaitsFor(x) = owner[Top(x).arg]
      BY <2>1 DEF WaitsFor
    <3>4. LockRank(Top(x).arg) \in 1 .. 4
      BY <3>2 DEF LockRank, Onces
    <3> QED
      BY <3>1, <3>2, <3>3, <3>4 DEF Locks
  <2>2. CASE ~At(x, "once", "lock")
    <3>1. At(x, "iterate", "lock") \/ At(x, "force", "dlopen")
      BY <1>1, <2>2 DEF WaitsFor
    <3>2. /\ stack[x] # <<>> /\ Top(x) \in Frames /\ Top(x).proc \in {"iterate", "force"}
          /\ Top(x).at \in {"lock", "dlopen"}
      BY <3>1, AtFacts
    <3>3. WaitsFor(x) = owner["dl"]
      BY <2>2, <3>1 DEF WaitsFor
    <3>4. Level(Top(x)) \in {2, 3}
      BY <3>2, LevelFacts
    <3>5. LockRank("dl") = 1 /\ "dl" \in Locks
      BY DEF LockRank, Locks
    <3> QED
      BY <3>2, <3>3, <3>4, <3>5
  <2> QED
    BY <2>1, <2>2
<1>3. /\ Wanted(t) \in Locks /\ owner[Wanted(t)] = u /\ LockRank(Wanted(t)) \in 1 .. 4
      /\ Wanted(u) \in Locks /\ owner[Wanted(u)] = WaitsFor(u) /\ LockRank(Wanted(u)) \in 1 .. 4
      /\ stack[u] # <<>> /\ Top(u) \in Frames /\ Top(u).at \in {"lock", "dlopen"}
      /\ LockRank(Wanted(u)) <= Level(Top(u))
  BY <1>2
<1> SUFFICES ASSUME NEW l, l = Wanted(t), NEW m, m = Wanted(u) PROVE LockRank(m) < LockRank(l)
  BY <1>3
<1>4. l # "dl"
  <2>1. Last(stack[u]) = Top(u)
    BY DEF Top
  <2> QED
    BY <1>1, <1>3, <2>1 DEF StackParts, Iterating
<1>5. l \in Onces
  BY <1>3, <1>4 DEF Locks
<1>6. Within(stack[u], l)
  BY <1>1, <1>3, <1>5 DEF StackParts
<1>7. PICK i \in 1 .. Len(stack[u]) : InBody(stack[u][i], l)
  BY <1>6 DEF Within
<1>8. stack[u] \in Seq(Frames) /\ Len(stack[u]) \in Nat /\ Len(stack[u]) >= 1 /\ Top(u) = stack[u][Len(stack[u])]
  BY <1>1, <1>3, TopFacts, FrontFacts
<1>9. i # Len(stack[u])
  BY <1>3, <1>7, <1>8 DEF InBody
<1>10. Level(Top(u)) < Level(stack[u][i])
  <2>1. i < Len(stack[u]) /\ Len(stack[u]) \in 1 .. Len(stack[u])
    BY <1>8, <1>9
  <2>2. Descends(stack[u])
    BY <1>1 DEF StackParts
  <2>3. stack[u][i].proc = "once"
    BY <1>7 DEF InBody
  <2> HIDE DEF Level
  <2> QED
    BY <1>8, <2>1, <2>2, <2>3 DEF Descends
<1>11. Level(stack[u][i]) = LockRank(l) /\ Level(Top(u)) \in 0 .. 4
  <2>1. stack[u][i] \in Frames
    BY <1>8
  <2> QED
    BY <1>3, <1>7, <2>1, LevelFacts DEF InBody
<1> HIDE DEF Level, LockRank, Wanted
<1> QED
  BY <1>3, <1>10, <1>11

(* The invariant is one of states that the threads can leave.              *)
LEMMA LinkerInvHolds == LinkerIInv => LinkerInv
<1> SUFFICES ASSUME LinkerIInv PROVE LinkerInv
  OBVIOUS
<1>1. LinkerTypes /\ StackParts
  BY DEF LinkerIInv
<1>2. LinkerTypeOK
  <2>1. ToSet(loaded) \subseteq Libs
    BY <1>1 DEF LinkerTypes, ToSet
  <2>2. ASSUME NEW t \in Threads, NEW f \in ToSet(stack[t])
        PROVE  f.proc \in {"open", "force", "iterate", "once", "dsym", "unlock"}
    <3>1. stack[t] \in Seq(Frames)
      BY <1>1 DEF StackParts
    <3>2. f \in Frames
      BY <2>2, <3>1 DEF ToSet
    <3> QED
      BY <3>2, LevelFacts
  <2> QED
    BY <1>1, <2>1, <2>2 DEF LinkerTypeOK, LinkerTypes
<1>3. RunsOnce
  BY DEF LinkerIInv, NotYetRun, RunsOnce
<1>4. NoCircularWait
  <2> SUFFICES ASSUME ~ZippedLinker, NEW C \in SUBSET Threads, C # {}, \A t \in C : WaitsFor(t) \in C PROVE FALSE
    BY DEF NoCircularWait
  <2> DEFINE W(x) == LockRank(IF Top(x).proc = "once" THEN Top(x).arg ELSE "dl")
  <2>1. ASSUME NEW t \in C
        PROVE  WaitsFor(t) \in C /\ W(t) \in 1 .. 4 /\ W(WaitsFor(t)) < W(t)
    <3>1. t \in Threads /\ WaitsFor(t) \in C /\ WaitsFor(t) \in Threads /\ WaitsFor(WaitsFor(t)) \in Threads
      BY <2>1
    <3> SUFFICES ASSUME NEW u \in Threads, u = WaitsFor(t) PROVE W(t) \in 1 .. 4 /\ W(u) < W(t)
      BY <3>1
    <3>2. PICK l, m \in Locks : /\ LockRank(m) < LockRank(l)
                                /\ l = IF Top(t).proc = "once" THEN Top(t).arg ELSE "dl"
                                /\ m = IF Top(u).proc = "once" THEN Top(u).arg ELSE "dl"
      BY <3>1, WaitsBelow
    <3>3. LockRank(l) \in 1 .. 4
      BY <3>2 DEF LockRank, Locks, Onces
    <3> HIDE DEF LockRank
    <3> QED
      BY <3>2, <3>3
  <2> HIDE DEF W
  <2>2. PICK a \in C : TRUE
    OBVIOUS
  <2>3. PICK b \in C : W(b) < W(a) /\ W(a) \in 1 .. 4 /\ W(b) \in 1 .. 4
    BY <2>1, <2>2
  <2>4. PICK c \in C : W(c) < W(b) /\ W(c) \in 1 .. 4
    BY <2>1
  <2>5. PICK d \in C : W(d) < W(c) /\ W(d) \in 1 .. 4
    BY <2>1
  <2>6. PICK e \in C : W(e) < W(d) /\ W(e) \in 1 .. 4
    BY <2>1
  <2> QED
    BY <2>3, <2>4, <2>5, <2>6
<1>5. CallersBest
  <2> SUFFICES ASSUME inited["callers"] PROVE CallersBest
    BY DEF CallersBest
  <2> PICK n \in 0 .. Len(loaded) : \A i \in DOMAIN Callers : Chosen(Rank[i], loaded, callers[i], n)
    BY DEF LinkerIInv, CallersKnown
  <2> QED
    BY DEF CallersBest, Chosen, Fitting
<1> QED
  BY <1>2, <1>3, <1>4, <1>5 DEF LinkerInv

(* Whatever the threads, the libraries, their match tables and the         *)
(* namespaces are: each initialisation of xDL runs once, the callers are   *)
(* the best of a list the linker had, and unless the linker's own table is *)
(* zipped no threads wait in a circle for the locks (xdl_linker.c,         *)
(* xdl_lzma.c, xdl_iterate.c).                                             *)
THEOREM LinkerCorrect == LinkerSpec => []LinkerInv
<1>1. LinkerInit /\ [][LinkerNext]_linkerVars => []LinkerInv
  BY LinkerInitInv, LinkerNextInv, LinkerInvHolds, PTL
<1> QED
  BY <1>1, PTL DEF LinkerSpec

-----------------------------------------------------------------------------
SymbolsMachine == SymbolsInit /\ [][SymbolsNext]_<<symtabVars, symbolsVars>>

(* The first of a set of numbers. *)
LEMMA LeastOf == ASSUME NEW S, S \subseteq Nat, S # {} PROVE Min(S) \in S /\ \A x \in S : Min(S) <= x
<1>1. \E m \in S : \A x \in S : m <= x
  BY LeastNat
<1> QED
  BY <1>1, Zenon DEF Min

(* A member of a set of numbers that is no greater than the others is the first. *)
LEMMA LeastIs == ASSUME NEW S, S \subseteq Nat, NEW m \in S, \A x \in S : m <= x PROVE Min(S) = m
<1>1. Min(S) \in S /\ Min(S) <= m
  BY LeastOf
<1>2. m <= Min(S) /\ Min(S) \in Nat /\ m \in Nat
  BY <1>1
<1> QED
  BY <1>1, <1>2

(* MinOrZero answers with a member, the first, or with 0 if there is none. *)
LEMMA FirstOrNone ==
    ASSUME NEW S, S \subseteq Nat \ {0}
    PROVE  /\ MinOrZero(S) \in S \cup {0} /\ (MinOrZero(S) = 0 <=> S = {})
           /\ S # {} => MinOrZero(S) = Min(S)
           /\ \A x \in S : MinOrZero(S) <= x
<1>1. CASE S = {}
  BY <1>1 DEF MinOrZero
<1>2. CASE S # {}
  <2>1. Min(S) \in S /\ \A x \in S : Min(S) <= x
    BY <1>2, LeastOf
  <2> QED
    BY <1>2, <2>1 DEF MinOrZero
<1> QED
  BY <1>1, <1>2

(* The symbols of an image. *)
LEMMA ImageFacts ==
    ASSUME image \in Images
    PROVE  /\ image.dynsym \in Seq(SymbolRecords) /\ image.symtab \in Seq(SymbolRecords)
           /\ Indices = 1 .. Len(image.dynsym) /\ Len(image.dynsym) \in Nat
           /\ \A i \in Indices : /\ image.dynsym[i] \in SymbolRecords /\ image.dynsym[i].name \in Names
                                 /\ Hash(i) \in Nat /\ Hash(i) % NumBuckets \in Nat
                                 /\ image.dynsym[i].section = "undef" => image.dynsym[i].value = 0
           /\ \A i, j \in Indices : /\ image.dynsym[i].name = image.dynsym[j].name =>
                                           (image.dynsym[i].section = "undef" <=> image.dynsym[j].section = "undef")
                                    /\ image.gnu /\ i < j =>
                                           \/ image.dynsym[i].section = "undef"
                                           \/ image.dynsym[j].section # "undef" /\ Hash(i) % NumBuckets <= Hash(j) % NumBuckets
<1>1. image.dynsym \in Seq(SymbolRecords) /\ image.symtab \in Seq(SymbolRecords)
  BY ImagesAssumption, Zenon
<1>2. Indices = 1 .. Len(image.dynsym) /\ Len(image.dynsym) \in Nat
  BY <1>1 DEF Indices
<1>3. ASSUME NEW i \in Indices
      PROVE  /\ image.dynsym[i] \in SymbolRecords /\ image.dynsym[i].name \in Names
             /\ image.dynsym[i].section = "undef" => image.dynsym[i].value = 0
  <2>1. image.dynsym[i] \in SymbolRecords
    BY <1>1, <1>2
  <2> QED
    BY <2>1, ImagesAssumption, Zenon DEF Indices
<1>4. ASSUME NEW i \in Indices PROVE Hash(i) \in Nat /\ Hash(i) % NumBuckets \in Nat
  <2>1. Hash(i) \in Nat
    BY <1>3, ImagesAssumption DEF Hash
  <2> QED
    BY <2>1, ImagesAssumption
<1>5. ASSUME NEW i \in Indices, NEW j \in Indices
      PROVE  /\ image.dynsym[i].name = image.dynsym[j].name =>
                    (image.dynsym[i].section = "undef" <=> image.dynsym[j].section = "undef")
             /\ image.gnu /\ i < j =>
                    \/ image.dynsym[i].section = "undef"
                    \/ image.dynsym[j].section # "undef" /\ Hash(i) % NumBuckets <= Hash(j) % NumBuckets
  BY ImagesAssumption, Zenon DEF Indices, Hash
<1> QED
  BY <1>1, <1>2, <1>3, <1>4, <1>5, Zenon

(* An initial part of the numbers from 1 on is told by its size. *)
LEMMA InitialPart ==
    ASSUME NEW n \in Nat, NEW S, S \subseteq 1 .. n, \A i \in S : \A k \in 1 .. i : k \in S
    PROVE  S = 1 .. Cardinality(S) /\ Cardinality(S) \in Nat
<1> DEFINE Out == {k \in Nat \ {0} : k \notin S}
<1>1. n + 1 \in Out
  OBVIOUS
<1>2. PICK m \in Out : \A k \in Out : m <= k
  BY <1>1, LeastNat
<1>3. S = 1 .. m - 1
  <2>1. \A k \in 1 .. m - 1 : k \in S
    BY <1>2
  <2>2. \A k \in S : k \in 1 .. m - 1
    <3> SUFFICES ASSUME NEW k \in S PROVE k < m
      BY <1>2
    <3>1. \A i \in 1 .. k : i \in S
      OBVIOUS
    <3>2. k \in Nat /\ m \in Nat /\ m >= 1 /\ m \notin S
      BY <1>2
    <3> QED
      BY <3>1, <3>2
  <2> QED
    BY <2>1, <2>2
<1>4. Cardinality(1 .. m - 1) = m - 1
  BY <1>2, FS_Interval
<1> QED
  BY <1>2, <1>3, <1>4

(* With a .gnu.hash, the symbols that can be looked up are the defined ones. *)
LEMMA HashedFacts ==
    ASSUME image \in Images, image.gnu
    PROVE  /\ SymOffset \in Nat \ {0}
           /\ Hashed = {i \in Indices : image.dynsym[i].section # "undef"}
           /\ Hashed = {i \in Indices : i >= SymOffset}
<1> DEFINE U == {i \in Indices : image.dynsym[i].section = "undef"}
<1>1. \A i \in U : \A k \in 1 .. i : k \in U
  <2> SUFFICES ASSUME NEW i \in U, NEW k \in 1 .. i, k # i PROVE k \in U
    OBVIOUS
  <2>1. Indices = 1 .. Len(image.dynsym) /\ Len(image.dynsym) \in Nat
    BY ImageFacts
  <2>2. i \in Indices /\ k \in Indices /\ k < i
    BY <2>1
  <2>3. image.dynsym[i].section = "undef"
    OBVIOUS
  <2> QED
    BY <2>2, <2>3, ImageFacts
<1>2. U \subseteq 1 .. Len(image.dynsym) /\ Len(image.dynsym) \in Nat
  BY ImageFacts
<1>3. U = 1 .. Cardinality(U) /\ Cardinality(U) \in Nat
  BY <1>1, <1>2, InitialPart
<1>4. SymOffset = 1 + Cardinality(U)
  BY DEF SymOffset
<1>5. Indices = 1 .. Len(image.dynsym)
  BY ImageFacts
<1>6. \A i \in Indices : i >= SymOffset <=> i \notin U
  <2> HIDE DEF U
  <2> QED
    BY <1>3, <1>4, <1>5
<1> QED
  BY <1>3, <1>4, <1>6 DEF Hashed

(* A word of a chain holds the symbol's hash but for bit 0, which says that the bucket ends. *)
LEMMA ChainWords ==
    ASSUME image \in Images, NEW i \in Hashed
    PROVE  /\ ChainWord(i) \div 2 = Hash(i) \div 2
           /\ ChainWord(i) % 2 = 1 <=> ~(i + 1 \in Hashed /\ Hash(i + 1) % NumBuckets = Hash(i) % NumBuckets)
<1>1. Hash(i) \in Nat
  BY ImageFacts DEF Hashed
<1>2. \A h \in Nat : /\ (2 * (h \div 2)) \div 2 = h \div 2 /\ (2 * (h \div 2)) % 2 = 0
                     /\ (2 * (h \div 2) + 1) \div 2 = h \div 2 /\ (2 * (h \div 2) + 1) % 2 = 1
  OBVIOUS
<1>3. CASE i + 1 \in Hashed /\ Hash(i + 1) % NumBuckets = Hash(i) % NumBuckets
  <2>1. ChainWord(i) = 2 * (Hash(i) \div 2) + 0
    BY <1>3 DEF ChainWord
  <2>2. 2 * (Hash(i) \div 2) + 0 = 2 * (Hash(i) \div 2)
    BY <1>1
  <2> QED
    BY <1>1, <1>2, <1>3, <2>1, <2>2
<1>4. CASE ~(i + 1 \in Hashed /\ Hash(i + 1) % NumBuckets = Hash(i) % NumBuckets)
  <2>1. ChainWord(i) = 2 * (Hash(i) \div 2) + 1
    BY <1>4 DEF ChainWord
  <2> QED
    BY <1>1, <1>2, <1>4, <2>1
<1> QED
  BY <1>3, <1>4

(* The symbols of a bucket of .gnu.hash. *)
InBucket(b) == {i \in Hashed : Hash(i) % NumBuckets = b}

(* A chain runs over its bucket and no further. *)
LEMMA ChainFacts ==
    ASSUME image \in Images, image.gnu, NEW b \in Nat
    PROVE  /\ Bucket(b) < SymOffset <=> InBucket(b) = {}
           /\ InBucket(b) # {} => Bucket(b) .. ChainEnd(Bucket(b)) = InBucket(b)
<1> DEFINE n == Len(image.dynsym)
           H(i) == Hash(i) % NumBuckets
<1>1. Hashed \subseteq 1 .. n /\ n \in Nat /\ SymOffset \in Nat \ {0}
  BY ImageFacts, HashedFacts DEF Hashed
<1>2. \A i \in Hashed : H(i) \in Nat
  BY ImageFacts DEF Hashed
<1>3. \A i, j \in Hashed : i < j => H(i) <= H(j)
  BY ImageFacts, HashedFacts
<1>4. \A i \in Hashed : \A j \in i .. n : j \in Hashed
  BY <1>1, ImageFacts, HashedFacts
<1>5. Bucket(b) = MinOrZero(InBucket(b))
  BY DEF Bucket, InBucket
<1> HIDE DEF n
<1>9. \A i \in Hashed : i \in Nat \ {0} /\ i <= n
  BY <1>1
<1>6. InBucket(b) \subseteq Nat \ {0} /\ InBucket(b) \subseteq Hashed
  <2>1. InBucket(b) \subseteq Hashed
    BY DEF InBucket
  <2> QED
    BY <1>9, <2>1
<1>7. CASE InBucket(b) = {}
  <2>1. Bucket(b) = 0
    BY <1>5, <1>7 DEF MinOrZero
  <2> QED
    BY <1>1, <1>7, <2>1
<1>8. CASE InBucket(b) # {}
  <2> DEFINE f == Bucket(b)
             Ends == {j \in Hashed : j >= f /\ ChainWord(j) % 2 = 1}
             e == ChainEnd(f)
  <2>1. f \in InBucket(b) /\ \A i \in InBucket(b) : f <= i
    BY <1>5, <1>6, <1>8, FirstOrNone
  <2>2. f \in Hashed /\ H(f) = b /\ f \in Nat
    BY <1>6, <2>1 DEF InBucket
  <2>3. f >= SymOffset
    BY <2>2, HashedFacts
  <2>4. n \in Ends
    <3>1. n \in Hashed /\ n >= f
      BY <1>1, <1>4, <2>2
    <3>2. n + 1 \notin Hashed
      BY <1>1
    <3>3. ChainWord(n) % 2 = 1
      BY <3>1, <3>2, ChainWords
    <3> QED
      BY <3>1, <3>3
  <2>5. e \in Ends /\ \A j \in Ends : e <= j
    <3>1. Ends \subseteq Nat /\ Ends # {}
      <4>1. \A j \in Ends : j \in Hashed
        OBVIOUS
      <4> QED
        BY <1>9, <2>4, <4>1
    <3>2. e = Min(Ends)
      BY DEF ChainEnd
    <3> QED
      BY <3>1, <3>2, LeastOf
  <2>6. e \in Hashed /\ f <= e /\ e \in Nat /\ e <= n /\ ChainWord(e) % 2 = 1
    <3>1. e \in Hashed /\ e >= f /\ ChainWord(e) % 2 = 1
      BY <2>5
    <3>2. e \in Nat /\ e <= n
      BY <1>9, <3>1
    <3> HIDE DEF e, f
    <3> QED
      BY <2>2, <3>1, <3>2
  <2>7. ~(e + 1 \in Hashed /\ H(e + 1) = H(e))
    BY <2>6, ChainWords
  <2>8. \A j \in f .. e : j \in Hashed /\ (j < e => j + 1 \in Hashed /\ H(j + 1) = H(j))
    <3> SUFFICES ASSUME NEW j \in f .. e PROVE j \in Hashed /\ (j < e => j + 1 \in Hashed /\ H(j + 1) = H(j))
      OBVIOUS
    <3>1. j \in Hashed /\ j \in Nat /\ j >= f
      <4>1. j \in Nat /\ j >= f /\ j <= n
        <5> HIDE DEF f, e
        <5> QED
          BY <1>1, <2>2, <2>6
      <4>2. j \in f .. n
        BY <1>1, <2>2, <4>1
      <4> QED
        BY <1>4, <2>2, <4>1, <4>2
    <3>2. ASSUME j < e PROVE j \notin Ends
      BY <2>5, <2>6, <3>1, <3>2
    <3>3. ASSUME j < e PROVE ChainWord(j) % 2 # 1
      BY <3>1, <3>2, <3>3
    <3> QED
      BY <3>1, <3>3, ChainWords
  <2> HIDE DEF f, Ends, e
  <2>9. \A j \in f .. e : H(j) = b
    <3> DEFINE Bad == {j \in f .. e : H(j) # b}
    <3> SUFFICES ASSUME Bad # {} PROVE FALSE
      OBVIOUS
    <3>1. PICK m \in Bad : \A j \in Bad : m <= j
      <4>1. Bad \subseteq Nat
        BY <2>2, <2>6
      <4> HIDE DEF Bad
      <4> QED
        BY <4>1, LeastNat
    <3>2. m # f /\ m \in f .. e /\ H(m) # b
      BY <2>2, <3>1
    <3>3. m - 1 \in f .. e /\ m - 1 < e /\ (m - 1) + 1 = m /\ ~(m <= m - 1)
      BY <2>2, <2>6, <3>2
    <3>4. m - 1 \notin Bad
      <4> HIDE DEF Bad
      <4> QED
        BY <3>1, <3>3
    <3>5. H(m - 1) = b
      BY <3>3, <3>4
    <3>6. H((m - 1) + 1) = H(m - 1)
      BY <2>8, <3>3
    <3> QED
      BY <3>2, <3>3, <3>5, <3>6
  <2>10. \A i \in InBucket(b) : i \in f .. e
    <3> SUFFICES ASSUME NEW i \in InBucket(b), ~(i \in f .. e) PROVE FALSE
      OBVIOUS
    <3>1. i \in Hashed /\ H(i) = b /\ i \in 1 .. n /\ f <= i
      BY <1>1, <2>1 DEF InBucket
    <3>2. i >= e + 1
      BY <2>2, <2>6, <3>1
    <3>3. e + 1 \in Hashed /\ e + 1 \in Nat
      <4>1. e + 1 \in e .. n
        BY <2>6, <3>1, <3>2, <1>1
      <4> QED
        BY <1>4, <2>6, <4>1
    <3>4. H(e) = b
      BY <2>9, <2>6, <2>2
    <3>5. b <= H(e + 1)
      BY <1>3, <2>6, <3>3, <3>4
    <3>6. H(e + 1) <= b
      <4>1. CASE i = e + 1
        BY <3>1, <4>1
      <4>2. CASE i # e + 1
        <5>1. e + 1 < i
          BY <2>6, <3>1, <3>2, <4>2
        <5> QED
          BY <1>3, <3>1, <3>3, <5>1
      <4> QED
        BY <4>1, <4>2
    <3>7. H(e + 1) = b
      BY <3>3, <3>5, <3>6, <1>2
    <3> QED
      BY <2>7, <3>3, <3>4, <3>7
  <2>11. f .. e = InBucket(b)
    <3>1. \A j \in f .. e : j \in InBucket(b)
      BY <2>8, <2>9 DEF InBucket
    <3> QED
      BY <2>10, <3>1
  <2> QED
    BY <1>1, <1>8, <2>2, <2>3, <2>11 DEF f, e
<1> QED
  BY <1>7, <1>8

(* A look-up in .gnu.hash finds the exported symbol of that name. *)
LEMMA GnuFinds ==
    ASSUME image \in Images, image.gnu, NEW name \in Names
    PROVE  xdl_gnu_find(name) = MinOrZero(Exports(name))
<1> DEFINE h == GnuHash[name]
           b == h % NumBuckets
           first == Bucket(b)
<1>1. h \in Nat /\ b \in Nat
  <2>1. h \in Nat
    BY ImagesAssumption
  <2> QED
    BY <2>1, ImagesAssumption
<1>2. Exports(name) = {i \in InBucket(b) : image.dynsym[i].name = name}
  BY HashedFacts DEF Exports, InBucket, Hash
<1>3. \A i \in Exports(name) : Hash(i) = h /\ i \in Hashed
  BY <1>2 DEF Hash, InBucket
<1> HIDE DEF h, b
<1>4. Bucket(b) < SymOffset <=> InBucket(b) = {}
  BY <1>1, ChainFacts
<1>5. CASE first < SymOffset
  <2>1. Exports(name) = {}
    BY <1>2, <1>4, <1>5
  <2>2. xdl_gnu_find(name) = 0
    BY <1>5 DEF xdl_gnu_find, h, b
  <2> QED
    BY <2>1, <2>2 DEF MinOrZero
<1>6. CASE ~(BloomBits(h) \subseteq Bloom(BloomWord(h)))
  <2>1. Exports(name) = {}
    <3> SUFFICES ASSUME NEW i \in Exports(name) PROVE FALSE
      OBVIOUS
    <3>1. Hash(i) = h /\ i \in {j \in Hashed : BloomWord(Hash(j)) = BloomWord(h)}
      BY <1>3
    <3>2. BloomBits(h) \subseteq Bloom(BloomWord(h))
      BY <3>1 DEF Bloom
    <3> QED
      BY <1>6, <3>2
  <2>2. xdl_gnu_find(name) = 0
    BY <1>6 DEF xdl_gnu_find, h
  <2> QED
    BY <2>1, <2>2 DEF MinOrZero
<1>7. CASE ~(first < SymOffset) /\ BloomBits(h) \subseteq Bloom(BloomWord(h))
  <2>1. first .. ChainEnd(first) = InBucket(b)
    BY <1>1, <1>4, <1>7, ChainFacts
  <2>2. \A i \in InBucket(b) : image.dynsym[i].name = name => h \div 2 = ChainWord(i) \div 2
    <3> SUFFICES ASSUME NEW i \in InBucket(b), image.dynsym[i].name = name PROVE h \div 2 = ChainWord(i) \div 2
      OBVIOUS
    <3>1. i \in Hashed /\ Hash(i) = h
      BY <1>2, <1>3
    <3> QED
      BY <3>1, ChainWords
  <2>3. xdl_gnu_find(name) = MinOrZero({i \in first .. ChainEnd(first) :
                                            h \div 2 = ChainWord(i) \div 2 /\ image.dynsym[i].name = name})
    BY <1>7 DEF xdl_gnu_find, h, b
  <2>4. {i \in first .. ChainEnd(first) : h \div 2 = ChainWord(i) \div 2 /\ image.dynsym[i].name = name} = Exports(name)
    BY <1>2, <2>1, <2>2
  <2> QED
    BY <2>3, <2>4
<1> QED
  BY <1>5, <1>6, <1>7

(* All symbols of a name, whether defined or not. *)
Namesakes(name) == {i \in Indices : image.dynsym[i].name = name}

SysvBucketOf(i) == SysvHash[image.dynsym[i].name] % NumBuckets

(* What the search along a chain of .hash computes from every index on. *)
FindStep(f, name) ==
    f = [j \in 0 .. Len(image.dynsym) |->
            IF j = 0 THEN 0 ELSE IF image.dynsym[j].name = name THEN j ELSE f[SysvChain(j)]]

(* Such a function answers with the first symbol of the name from there on. *)
FoundFrom(name) ==
    [j \in 0 .. Len(image.dynsym) |->
        IF j = 0 THEN 0
        ELSE MinOrZero({k \in Indices : k >= j /\ SysvBucketOf(k) = SysvBucketOf(j) /\ image.dynsym[k].name = name})]

(* A chain leads on to a later symbol, the next of its bucket. *)
LEMMA SysvChains ==
    ASSUME image \in Images, NEW j \in Indices
    PROVE  /\ SysvChain(j) \in 0 .. Len(image.dynsym)
           /\ SysvChain(j) # 0 => SysvChain(j) \in Indices /\ SysvChain(j) > j /\ SysvBucketOf(SysvChain(j)) = SysvBucketOf(j)
           /\ \A k \in Indices : k > j /\ SysvBucketOf(k) = SysvBucketOf(j) => SysvChain(j) # 0 /\ SysvChain(j) <= k
<1> DEFINE S == {k \in Indices : k > j /\ SysvBucketOf(k) = SysvBucketOf(j)}
<1>1. SysvChain(j) = MinOrZero(S)
  BY DEF SysvChain, SysvBucketOf
<1>2. Indices = 1 .. Len(image.dynsym) /\ Len(image.dynsym) \in Nat
  BY ImageFacts
<1>3. S \subseteq Nat \ {0}
  BY <1>2
<1>4. /\ SysvChain(j) \in S \cup {0} /\ (SysvChain(j) = 0 <=> S = {})
      /\ \A x \in S : SysvChain(j) <= x
  BY <1>1, <1>3, FirstOrNone
<1>5. SysvChain(j) # 0 => SysvChain(j) \in S
  BY <1>4
<1>6. SysvChain(j) \in 0 .. Len(image.dynsym)
  BY <1>2, <1>4
<1> QED
  BY <1>4, <1>5, <1>6

(* The search is such a function, *)
LEMMA FoundIsStep ==
    ASSUME image \in Images, NEW name \in Names
    PROVE  FindStep(FoundFrom(name), name)
<1> DEFINE F == FoundFrom(name)
           n == Len(image.dynsym)
           Ahead(j) == {k \in Indices : k >= j /\ SysvBucketOf(k) = SysvBucketOf(j) /\ image.dynsym[k].name = name}
<1>1. Indices = 1 .. n /\ n \in Nat
  BY ImageFacts
<1>2. \A j \in 0 .. n : F[j] = IF j = 0 THEN 0 ELSE MinOrZero(Ahead(j))
  BY DEF FoundFrom
<1>3. ASSUME NEW j \in 1 .. n, image.dynsym[j].name = name PROVE MinOrZero(Ahead(j)) = j
  <2>1. j \in Ahead(j) /\ (\A x \in Ahead(j) : j <= x) /\ Ahead(j) \subseteq Nat \ {0} /\ Ahead(j) \subseteq Nat
    BY <1>1, <1>3
  <2> HIDE DEF Ahead
  <2> QED
    BY <2>1, FirstOrNone, LeastIs
<1>4. ASSUME NEW j \in 1 .. n, image.dynsym[j].name # name PROVE MinOrZero(Ahead(j)) = F[SysvChain(j)]
  <2>1. /\ SysvChain(j) \in 0 .. n
        /\ SysvChain(j) # 0 => SysvChain(j) \in Indices /\ SysvChain(j) > j /\ SysvBucketOf(SysvChain(j)) = SysvBucketOf(j)
        /\ \A k \in Indices : k > j /\ SysvBucketOf(k) = SysvBucketOf(j) => SysvChain(j) # 0 /\ SysvChain(j) <= k
    BY <1>1, SysvChains
  <2>2. CASE SysvChain(j) = 0
    <3>1. Ahead(j) = {}
      BY <1>1, <1>4, <2>1, <2>2
    <3>2. F[SysvChain(j)] = 0
      BY <1>2, <2>1, <2>2
    <3> QED
      BY <3>1, <3>2 DEF MinOrZero
  <2>3. CASE SysvChain(j) # 0
    <3>1. \A k \in Ahead(j) : k > j /\ SysvChain(j) <= k /\ k \in Indices
      BY <1>1, <1>4, <2>1
    <3>2. Ahead(j) = Ahead(SysvChain(j))
      <4>1. \A k \in Ahead(j) : k \in Ahead(SysvChain(j))
        BY <2>1, <2>3, <3>1
      <4>2. \A k \in Ahead(SysvChain(j)) : k \in Ahead(j)
        BY <1>1, <2>1, <2>3
      <4> QED
        BY <4>1, <4>2
    <3>3. F[SysvChain(j)] = MinOrZero(Ahead(SysvChain(j)))
      BY <1>2, <2>1, <2>3
    <3> QED
      BY <3>2, <3>3
  <2> QED
    BY <2>2, <2>3
<1>5. \A j \in 0 .. n : F[j] = IF j = 0 THEN 0 ELSE IF image.dynsym[j].name = name THEN j ELSE F[SysvChain(j)]
  <2> SUFFICES ASSUME NEW j \in 0 .. n
               PROVE  F[j] = IF j = 0 THEN 0 ELSE IF image.dynsym[j].name = name THEN j ELSE F[SysvChain(j)]
    OBVIOUS
  <2>1. j # 0 => j \in 1 .. n
    BY <1>1
  <2> HIDE DEF F, Ahead
  <2> QED
    BY <1>2, <1>3, <1>4, <2>1
<1>6. F = [j \in 0 .. n |-> F[j]]
  BY DEF FoundFrom
<1> HIDE DEF F
<1>7. F = [j \in 0 .. n |-> IF j = 0 THEN 0 ELSE IF image.dynsym[j].name = name THEN j ELSE F[SysvChain(j)]]
  BY <1>5, <1>6
<1> QED
  BY <1>7 DEF FindStep, F

(* and the only one. *)
LEMMA StepIsFound ==
    ASSUME image \in Images, NEW name \in Names, NEW f, FindStep(f, name)
    PROVE  f = FoundFrom(name)
<1> DEFINE n == Len(image.dynsym)
           g == FoundFrom(name)
<1>1. FindStep(g, name)
  BY FoundIsStep
<1>2. /\ f = [j \in 0 .. n |-> f[j]] /\ g = [j \in 0 .. n |-> g[j]]
      /\ \A j \in 0 .. n : /\ f[j] = IF j = 0 THEN 0 ELSE IF image.dynsym[j].name = name THEN j ELSE f[SysvChain(j)]
                           /\ g[j] = IF j = 0 THEN 0 ELSE IF image.dynsym[j].name = name THEN j ELSE g[SysvChain(j)]
  <2> HIDE DEF g
  <2> QED
    BY <1>1 DEF FindStep
<1>3. Indices = 1 .. n /\ n \in Nat
  BY ImageFacts
<1> HIDE DEF g
<1>4. \A j \in 0 .. n : f[j] = g[j]
  <2> DEFINE Left == {d \in 0 .. n : f[n - d] # g[n - d]}
  <2> SUFFICES ASSUME Left # {} PROVE FALSE
    <3> SUFFICES ASSUME NEW j \in 0 .. n, f[j] # g[j] PROVE Left # {}
      OBVIOUS
    <3>1. n - j \in 0 .. n /\ n - (n - j) = j
      BY <1>3
    <3> QED
      BY <3>1
  <2>1. PICK d \in Left : \A x \in Left : d <= x
    <3>1. Left \subseteq Nat
      BY <1>3
    <3> HIDE DEF Left
    <3> QED
      BY <3>1, LeastNat
  <2> DEFINE j == n - d
             c == SysvChain(j)
  <2>2. j \in 0 .. n /\ f[j] # g[j] /\ d = n - j /\ d \in 0 .. n
    BY <1>3, <2>1
  <2>3. j # 0 /\ f[j] = f[c] /\ g[j] = g[c]
    BY <1>2, <2>2
  <2>4. c \in 0 .. n /\ (c # 0 => c > j)
    BY <1>3, <2>2, <2>3, SysvChains
  <2>5. c # 0
    BY <1>2, <2>2, <2>3, <2>4
  <2>6. n - c \in 0 .. n /\ n - (n - c) = c /\ ~(d <= n - c)
    <3> HIDE DEF c, j
    <3> QED
      BY <1>3, <2>2, <2>4, <2>5
  <2>7. f[c] # g[c]
    BY <2>2, <2>3
  <2> HIDE DEF c, j
  <2> QED
    BY <2>1, <2>6, <2>7
<1> QED
  BY <1>2, <1>4 DEF g

(* A look-up in .hash finds the first symbol of that name. *)
LEMMA SysvFinds ==
    ASSUME image \in Images, NEW name \in Names
    PROVE  SysvFind(name) = MinOrZero(Namesakes(name))
<1> DEFINE n == Len(image.dynsym)
           b == SysvHash[name] % NumBuckets
           S == {i \in Indices : SysvBucketOf(i) = b}
           first == SysvBucket(b)
<1>1. Indices = 1 .. n /\ n \in Nat
  BY ImageFacts
<1>2. first = MinOrZero(S)
  BY DEF SysvBucket, SysvBucketOf
<1>3. S \subseteq Nat \ {0}
  BY <1>1
<1>4. first \in S \cup {0} /\ (first = 0 <=> S = {}) /\ \A x \in S : first <= x
  <2> HIDE DEF S, first
  <2> QED
    BY <1>2, <1>3, FirstOrNone
<1>5. \A i \in Namesakes(name) : i \in S
  BY DEF Namesakes, SysvBucketOf
<1>6. first \in 0 .. n
  BY <1>1, <1>4
<1>7. xdl_sysv_find(first, name) = (CHOOSE f : FindStep(f, name))[first]
  BY DEF xdl_sysv_find, FindStep
<1>8. (CHOOSE f : FindStep(f, name)) = FoundFrom(name)
  <2>1. FindStep(CHOOSE f : FindStep(f, name), name)
    <3> HIDE DEF first
    <3> QED
      BY FoundIsStep, Zenon
  <2> QED
    BY <2>1, StepIsFound
<1>9. SysvFind(name) = FoundFrom(name)[first]
  BY <1>7, <1>8 DEF SysvFind
<1>10. CASE first = 0
  <2>1. Namesakes(name) = {}
    BY <1>4, <1>5, <1>10
  <2>2. FoundFrom(name)[first] = 0
    BY <1>6, <1>10 DEF FoundFrom
  <2> QED
    BY <1>9, <2>1, <2>2 DEF MinOrZero
<1>11. CASE first # 0
  <2>1. first \in S /\ first \in Indices /\ SysvBucketOf(first) = b
    BY <1>4, <1>11
  <2>2. FoundFrom(name)[first] =
           MinOrZero({k \in Indices : k >= first /\ SysvBucketOf(k) = SysvBucketOf(first) /\ image.dynsym[k].name = name})
    <3> HIDE DEF first
    <3> QED
      BY <1>6, <1>11 DEF FoundFrom
  <2>3. {k \in Indices : k >= first /\ SysvBucketOf(k) = SysvBucketOf(first) /\ image.dynsym[k].name = name} = Namesakes(name)
    <3>1. \A k \in Namesakes(name) : k \in Indices /\ k >= first /\ SysvBucketOf(k) = SysvBucketOf(first) /\ image.dynsym[k].name = name
      <4> SUFFICES ASSUME NEW k \in Namesakes(name) PROVE k \in Indices /\ k >= first /\ SysvBucketOf(k) = b /\ image.dynsym[k].name = name
        BY <2>1
      <4>1. k \in S /\ k \in Indices /\ image.dynsym[k].name = name
        BY <1>5 DEF Namesakes
      <4>2. first <= k /\ SysvBucketOf(k) = b
        BY <1>4, <4>1
      <4>3. k \in Nat /\ first \in Nat
        BY <1>1, <1>6, <4>1
      <4> QED
        BY <4>1, <4>2, <4>3
    <3> QED
      BY <3>1 DEF Namesakes
  <2> QED
    BY <1>9, <2>2, <2>3
<1> QED
  BY <1>10, <1>11

(* The symbol of a name that an image exports, 0 if there is none. *)
Exported(name) == MinOrZero(Exports(name))

(* What the exported symbols of a name have to do with all of them. *)
LEMMA ExportsFacts ==
    ASSUME image \in Images, NEW name \in Names
    PROVE  /\ Exports(name) \subseteq Namesakes(name) /\ Namesakes(name) \subseteq Nat \ {0} /\ Namesakes(name) \subseteq Indices
           /\ Exports(name) = {} \/ Exports(name) = Namesakes(name)
           /\ Exports(name) = {} => \A i \in Namesakes(name) : image.dynsym[i].section = "undef" /\ image.dynsym[i].value = 0
<1>1. Indices = 1 .. Len(image.dynsym) /\ Len(image.dynsym) \in Nat
  BY ImageFacts
<1>2. Namesakes(name) \subseteq Indices /\ Exports(name) \subseteq Namesakes(name)
  BY DEF Exports, Namesakes
<1>3. \A i \in Namesakes(name) : i \notin Exports(name) => image.dynsym[i].section = "undef" /\ image.dynsym[i].value = 0
  BY ImageFacts DEF Exports, Namesakes
<1>4. ASSUME NEW i \in Exports(name), NEW k \in Namesakes(name) PROVE k \in Exports(name)
  <2>1. i \in Indices /\ k \in Indices /\ image.dynsym[i].name = image.dynsym[k].name /\ image.dynsym[i].section # "undef"
    BY DEF Exports, Namesakes
  <2>2. image.dynsym[k].section # "undef"
    BY <2>1, ImageFacts
  <2> QED
    BY <2>2 DEF Exports, Namesakes
<1>5. Namesakes(name) \subseteq Nat \ {0}
  BY <1>1, <1>2
<1>6. Exports(name) = {} \/ Exports(name) = Namesakes(name)
  BY <1>2, <1>4, Zenon
<1> QED
  BY <1>2, <1>3, <1>5, <1>6, Zenon

(* xdl_sym answers with the exported symbol of the name. *)
LEMMA SymAnswers ==
    ASSUME image \in Images, NEW name \in Names
    PROVE  xdl_sym(name) = IF ~Loaded \/ Exports(name) = {} THEN Null ELSE Resolved(image.dynsym[Min(Exports(name))])
<1> DEFINE g == IF image.gnu THEN xdl_gnu_find(name) ELSE 0
           i == IF g = 0 /\ image.sysv THEN SysvFind(name) ELSE g
<1>1. xdl_sym(name) = IF ~Loaded \/ i = 0 THEN Null
                      ELSE IF image.dynsym[i].section = "undef" THEN Null ELSE Resolved(image.dynsym[i])
  BY Zenon DEF xdl_sym
<1>2. g = IF image.gnu THEN MinOrZero(Exports(name)) ELSE 0
  BY GnuFinds
<1>3. i = IF g = 0 /\ image.sysv THEN MinOrZero(Namesakes(name)) ELSE g
  BY SysvFinds
<1> HIDE DEF g, i
<1>4. /\ Exports(name) \subseteq Namesakes(name) /\ Namesakes(name) \subseteq Nat \ {0}
      /\ Exports(name) = {} \/ Exports(name) = Namesakes(name)
      /\ Exports(name) = {} => \A k \in Namesakes(name) : image.dynsym[k].section = "undef"
  BY ExportsFacts
<1>5. CASE ~Loaded
  BY <1>1, <1>5
<1>6. CASE Loaded /\ Exports(name) = {}
  <2>1. g = 0
    BY <1>2, <1>6 DEF MinOrZero
  <2>2. i = 0 \/ i \in Namesakes(name)
    BY <1>3, <1>4, <2>1, FirstOrNone
  <2> QED
    BY <1>1, <1>4, <1>6, <2>2
<1>7. CASE Loaded /\ Exports(name) # {}
  <2>1. MinOrZero(Exports(name)) = Min(Exports(name)) /\ Min(Exports(name)) \in Exports(name) /\ Min(Exports(name)) # 0
    <3>1. Exports(name) \subseteq Nat \ {0} /\ Exports(name) \subseteq Nat
      BY <1>4
    <3>2. MinOrZero(Exports(name)) = Min(Exports(name))
      BY <1>7, <3>1, FirstOrNone
    <3>3. Min(Exports(name)) \in Exports(name)
      BY <1>7, <3>1, LeastOf
    <3> QED
      BY <3>1, <3>2, <3>3
  <2>2. Namesakes(name) = Exports(name)
    BY <1>4, <1>7
  <2>3. i = Min(Exports(name))
    BY <1>2, <1>3, <1>7, <2>1, <2>2 DEF Loaded
  <2>4. image.dynsym[i].section # "undef"
    BY <2>1, <2>3 DEF Exports
  <2> QED
    BY <1>1, <1>7, <2>1, <2>3, <2>4
<1> QED
  BY <1>5, <1>6, <1>7

(* findSymbol answers with its value. *)
LEMMA FindSymbolAnswers ==
    ASSUME image \in Images, NEW name \in Names,
           \A i \in Exports(name) : image.dynsym[i].type = "func" /\ image.dynsym[i].value # 0
    PROVE  findSymbol(name) = xdl_sym(name)
<1> DEFINE g == GnuLookupByName(name)
           e == ElfLookupByName(name)
           found == {i \in {g, e} \ {0} : image.dynsym[i].value # 0}
<1>1. /\ Exports(name) \subseteq Namesakes(name) /\ Namesakes(name) \subseteq Nat \ {0} /\ Namesakes(name) \subseteq Indices
      /\ Exports(name) = {} \/ Exports(name) = Namesakes(name)
      /\ Exports(name) = {} => \A k \in Namesakes(name) : image.dynsym[k].value = 0
  BY ExportsFacts
<1>2. g = IF image.gnu THEN MinOrZero(Exports(name)) ELSE 0
  BY GnuFinds, ImagesAssumption DEF GnuLookupByName
<1>3. e = IF image.sysv THEN MinOrZero(Namesakes(name)) ELSE 0
  <2>1. MinOrZero(Namesakes(name)) \in Namesakes(name) \cup {0}
    BY <1>1, FirstOrNone
  <2>2. MinOrZero(Namesakes(name)) \in Indices \cup {0}
    BY <1>1, <2>1
  <2>3. e = IF image.sysv /\ SysvFind(name) \in Indices THEN SysvFind(name) ELSE 0
    BY DEF ElfLookupByName
  <2> QED
    BY <2>2, <2>3, SysvFinds
<1>4. findSymbol(name) = IF found = {} THEN Null ELSE image.dynsym[IF g \in found THEN g ELSE Min(found)].value
  BY Zenon DEF findSymbol
<1> HIDE DEF g, e
<1>5. CASE Exports(name) = {}
  <2>1. g = 0
    BY <1>2, <1>5 DEF MinOrZero
  <2>2. e = 0 \/ e \in Namesakes(name)
    BY <1>1, <1>3, FirstOrNone
  <2>3. found = {}
    BY <1>1, <1>5, <2>1, <2>2
  <2> QED
    BY <1>4, <1>5, <2>3, SymAnswers
<1>6. CASE ~Loaded
  <2>1. g = 0 /\ e = 0
    BY <1>2, <1>3, <1>6 DEF Loaded
  <2>2. found = {}
    BY <2>1
  <2> QED
    BY <1>4, <1>6, <2>2, SymAnswers
<1>7. CASE Loaded /\ Exports(name) # {}
  <2> DEFINE m == Min(Exports(name))
  <2>1. MinOrZero(Exports(name)) = m /\ m \in Exports(name) /\ m # 0
    <3>1. Exports(name) \subseteq Nat \ {0} /\ Exports(name) \subseteq Nat
      BY <1>1
    <3>2. MinOrZero(Exports(name)) = Min(Exports(name))
      BY <1>7, <3>1, FirstOrNone
    <3>3. Min(Exports(name)) \in Exports(name)
      BY <1>7, <3>1, LeastOf
    <3> QED
      BY <3>1, <3>2, <3>3
  <2>2. Namesakes(name) = Exports(name)
    BY <1>1, <1>7
  <2>3. image.dynsym[m].type = "func" /\ image.dynsym[m].value # 0
    BY <2>1
  <2>4. xdl_sym(name) = image.dynsym[m].value
    BY <1>7, <2>3, SymAnswers DEF Resolved
  <2> HIDE DEF m
  <2>5. g \in {0, m} /\ e \in {0, m} /\ (g = m \/ e = m)
    BY <1>2, <1>3, <1>7, <2>1, <2>2 DEF Loaded
  <2>6. found = {m}
    BY <2>1, <2>3, <2>5
  <2>7. m \in Nat
    BY <1>1, <2>1
  <2>8. Min({m}) = m
    BY <2>7, LeastIs
  <2> QED
    BY <1>4, <2>4, <2>6, <2>8
<1> QED
  BY <1>5, <1>6, <1>7

(* A name matches exactly if it is a canonical form. *)
LEMMA MatchIsCanonical ==
    ASSUME NEW str \in Seq(STRING), NEW sym \in Seq(STRING) \ {<<>>}
    PROVE  xdl_dsym_is_match(str, sym) <=> sym \in CanonicalForms(str)
<1> DEFINE Marks == {".", "$"}
<1>1. Len(str) \in Nat /\ Len(sym) \in Nat /\ DOMAIN str = 1 .. Len(str) /\ sym # <<>>
  OBVIOUS
<1>2. SubSeq(sym, 1, Len(sym)) = sym /\ SubSeq(str, 1, Len(str)) = str
  OBVIOUS
<1>3. ASSUME xdl_dsym_is_match(str, sym) PROVE sym \in CanonicalForms(str)
  <2>1. Len(sym) <= Len(str) /\ sym = SubSeq(str, 1, Len(sym)) /\ (Len(str) > Len(sym) => str[Len(sym) + 1] \in Marks)
    BY <1>2, <1>3 DEF xdl_dsym_is_match, IsPrefix
  <2>2. CASE Len(sym) = Len(str)
    BY <1>2, <2>1, <2>2 DEF CanonicalForms
  <2>3. CASE Len(sym) # Len(str)
    <3> DEFINE k == Len(sym) + 1
    <3>1. k \in DOMAIN str /\ str[k] \in Marks /\ k - 1 = Len(sym)
      <4>1. Len(sym) < Len(str)
        <5>1. Len(sym) <= Len(str)
          BY <2>1, Zenon
        <5>2. \A x, y \in Nat : x <= y /\ x # y => x < y
          OBVIOUS
        <5> QED
          BY <1>1, <2>3, <5>1, <5>2, Zenon
      <4>2. k \in 1 .. Len(str) /\ k - 1 = Len(sym)
        BY <1>1, <4>1
      <4> HIDE DEF Marks
      <4> QED
        BY <1>1, <2>1, <4>1, <4>2
    <3>2. sym = SubSeq(str, 1, k - 1)
      BY <2>1, <3>1
    <3> HIDE DEF k
    <3> QED
      BY <3>1, <3>2 DEF CanonicalForms
  <2> QED
    BY <2>2, <2>3
<1>4. ASSUME sym \in CanonicalForms(str) PROVE xdl_dsym_is_match(str, sym)
  <2>1. CASE sym = str
    <3>1. IsPrefix(sym, str)
      BY <1>1, <2>1 DEF IsPrefix
    <3> QED
      BY <1>1, <2>1, <3>1 DEF xdl_dsym_is_match
  <2>2. CASE sym # str
    <3>1. PICK k \in DOMAIN str : str[k] \in Marks /\ sym = SubSeq(str, 1, k - 1)
      BY <1>4, <2>2 DEF CanonicalForms
    <3>2. k \in 1 .. Len(str) /\ Len(SubSeq(str, 1, k - 1)) = k - 1
      BY <1>1, <3>1
    <3>3. Len(sym) = k - 1 /\ Len(sym) + 1 = k /\ Len(sym) <= Len(str) /\ str # <<>>
      BY <1>1, <3>1, <3>2
    <3>4. IsPrefix(sym, str)
      BY <1>2, <3>1, <3>3 DEF IsPrefix
    <3> QED
      BY <3>1, <3>3, <3>4 DEF xdl_dsym_is_match
  <2> QED
    BY <2>1, <2>2
<1> QED
  BY <1>3, <1>4

(* xdl_dsym answers with a symbol of that canonical name. *)
LEMMA DsymAnswers ==
    ASSUME image \in Images, NEW name \in Names
    PROVE  LET Matches == {s \in ToSet(image.symtab) : s.section = "text" /\ name \in CanonicalForms(s.name)}
           IN IF Matches = {} THEN xdl_dsym(name) = Null ELSE \E s \in Matches : xdl_dsym(name) = s.value
<1> DEFINE Matches == {s \in ToSet(image.symtab) : s.section = "text" /\ name \in CanonicalForms(s.name)}
           I == {i \in 1 .. Len(image.symtab) : image.symtab[i].section = "text" /\ xdl_dsym_is_match(image.symtab[i].name, name)}
           i == IF I # {} THEN Min(I) ELSE 0
<1>1. image.symtab \in Seq(SymbolRecords) /\ Len(image.symtab) \in Nat /\ DOMAIN image.symtab = 1 .. Len(image.symtab)
  BY ImageFacts
<1>2. xdl_dsym(name) = IF i = 0 THEN Null ELSE image.symtab[i].value
  BY DEF xdl_dsym, SelectInSeq
<1>3. name \in Seq(STRING) \ {<<>>}
  BY ImagesAssumption
<1>4. \A k \in 1 .. Len(image.symtab) : k \in I <=> image.symtab[k] \in Matches
  <2> SUFFICES ASSUME NEW k \in 1 .. Len(image.symtab) PROVE k \in I <=> image.symtab[k] \in Matches
    OBVIOUS
  <2>1. image.symtab[k] \in SymbolRecords
    BY <1>1
  <2>2. image.symtab[k].name \in Seq(STRING)
    BY <2>1 DEF SymbolRecords
  <2>3. image.symtab[k] \in ToSet(image.symtab)
    BY <1>1 DEF ToSet
  <2> QED
    BY <1>3, <2>2, <2>3, MatchIsCanonical
<1>5. \A s \in Matches : \E k \in 1 .. Len(image.symtab) : s = image.symtab[k]
  BY <1>1 DEF ToSet
<1> HIDE DEF Matches
<1>6. CASE I = {}
  <2>1. Matches = {}
    BY <1>4, <1>5, <1>6
  <2>2. xdl_dsym(name) = Null
    BY <1>2, <1>6
  <2> QED
    BY <2>1, <2>2 DEF Matches
<1>7. CASE I # {}
  <2>1. Min(I) \in I
    <3>1. I \subseteq Nat
      BY <1>1
    <3> HIDE DEF I
    <3> QED
      BY <1>7, <3>1, LeastOf
  <2>2. i = Min(I) /\ i \in 1 .. Len(image.symtab) /\ i # 0
    BY <1>1, <1>7, <2>1
  <2>3. image.symtab[i] \in Matches
    BY <1>4, <2>1, <2>2
  <2>4. xdl_dsym(name) = image.symtab[i].value
    BY <1>2, <2>2
  <2> HIDE DEF i
  <2> QED
    BY <2>3, <2>4 DEF Matches
<1> QED
  BY <1>6, <1>7

(* The code of a symbol holds an address. *)
HoldsAt(s, offset) ==
    /\ s.type # "tls"
    /\ LET code == s.value - (IF Thumb THEN s.value % 2 ELSE 0) IN offset \in code .. (code + s.size - 1)

(* The symbols that xdl_addr may answer with. *)
Exporteds == IF Loaded THEN {s \in ToSet(image.dynsym) : s.section # "undef"} ELSE {}
Internals == {s \in ToSet(image.symtab) : s.section = "text"}

(* xdl_sym_is_match looks for just that. *)
LEMMA MatchHolds ==
    ASSUME NEW s \in SymbolRecords, NEW offset \in Nat
    PROVE  xdl_sym_is_match(s, offset) <=> HoldsAt(s, offset)
<1>1. s.value \in Nat /\ s.size \in Nat /\ s.value % 2 \in Nat
  BY DEF SymbolRecords
<1>2. CASE Thumb
  BY <1>1, <1>2 DEF xdl_sym_is_match, HoldsAt
<1>3. CASE ~Thumb
  BY <1>1, <1>3 DEF xdl_sym_is_match, HoldsAt
<1> QED
  BY <1>2, <1>3

(* Going through the chains, or through all of .dynsym, passes all exported symbols. *)
LEMMA AllPassed ==
    ASSUME image \in Images, Loaded
    PROVE  ByAddress \subseteq Indices /\ \A i \in Indices : image.dynsym[i].section # "undef" => i \in ByAddress
<1>1. CASE image.gnu
  <2> DEFINE C(b) == LET n == Bucket(b) IN IF n < SymOffset THEN {} ELSE n .. ChainEnd(n)
  <2>1. ByAddress = UNION {C(b) : b \in 0 .. NumBuckets - 1}
    BY <1>1 DEF ByAddress
  <2>2. \A b \in Nat : C(b) = InBucket(b)
    BY <1>1, ChainFacts
  <2>3. NumBuckets \in Nat \ {0}
    BY ImagesAssumption
  <2> HIDE DEF C
  <2>4. \A i \in Hashed : i \in ByAddress
    <3> SUFFICES ASSUME NEW i \in Hashed PROVE i \in ByAddress
      OBVIOUS
    <3> DEFINE b == Hash(i) % NumBuckets
    <3>1. Hash(i) \in Nat
      BY ImageFacts DEF Hashed
    <3>2. b \in 0 .. NumBuckets - 1 /\ b \in Nat
      BY <2>3, <3>1
    <3>3. i \in InBucket(b)
      BY DEF InBucket
    <3> HIDE DEF b
    <3> QED
      BY <2>1, <2>2, <3>2, <3>3
  <2>5. \A i \in ByAddress : i \in Hashed
    <3> SUFFICES ASSUME NEW i \in ByAddress PROVE i \in Hashed
      OBVIOUS
    <3>1. PICK b \in 0 .. NumBuckets - 1 : i \in C(b)
      BY <2>1
    <3>2. b \in Nat
      BY <2>3
    <3> QED
      BY <2>2, <3>1, <3>2 DEF InBucket
  <2> QED
    BY <1>1, <2>4, <2>5, HashedFacts
<1>2. CASE ~image.gnu
  BY <1>2 DEF ByAddress, Loaded
<1> QED
  BY <1>1, <1>2

(* xdl_sym_by_addr finds an exported symbol at the address if there is one. *)
LEMMA SymByAddr ==
    ASSUME image \in Images, Loaded, NEW offset \in Nat
    PROVE  LET i == xdl_sym_by_addr(offset)
           IN IF i = 0 THEN ~\E s \in Exporteds : HoldsAt(s, offset)
              ELSE image.dynsym[i] \in Exporteds /\ HoldsAt(image.dynsym[i], offset) /\ image.dynsym[i] \in SymbolRecords
<1> DEFINE S == {i \in ByAddress : image.dynsym[i].section # "undef" /\ xdl_sym_is_match(image.dynsym[i], offset)}
<1>1. xdl_sym_by_addr(offset) = MinOrZero(S)
  BY DEF xdl_sym_by_addr
<1>2. ByAddress \subseteq Indices /\ \A i \in Indices : image.dynsym[i].section # "undef" => i \in ByAddress
  BY AllPassed
<1>3. Indices = 1 .. Len(image.dynsym) /\ Len(image.dynsym) \in Nat /\ \A i \in Indices : image.dynsym[i] \in SymbolRecords
  BY ImageFacts
<1>4. S \subseteq Nat \ {0}
  <2>1. S \subseteq Indices
    BY <1>2
  <2> HIDE DEF S
  <2> QED
    BY <1>3, <2>1
<1>5. \A i \in S : image.dynsym[i] \in Exporteds /\ HoldsAt(image.dynsym[i], offset) /\ image.dynsym[i] \in SymbolRecords
  <2> SUFFICES ASSUME NEW i \in S
               PROVE  image.dynsym[i] \in Exporteds /\ HoldsAt(image.dynsym[i], offset) /\ image.dynsym[i] \in SymbolRecords
    OBVIOUS
  <2>1. i \in Indices /\ image.dynsym[i].section # "undef" /\ xdl_sym_is_match(image.dynsym[i], offset)
    BY <1>2
  <2>2. image.dynsym[i] \in SymbolRecords
    BY <1>3, <2>1
  <2>3. image.dynsym[i] \in ToSet(image.dynsym)
    BY <2>1 DEF ToSet, Indices
  <2> QED
    BY <2>1, <2>2, <2>3, MatchHolds DEF Exporteds
<1>6. ASSUME S = {}, NEW s \in Exporteds, HoldsAt(s, offset) PROVE FALSE
  <2>1. PICK i \in Indices : s = image.dynsym[i] /\ s.section # "undef"
    BY <1>6 DEF Exporteds, ToSet, Indices
  <2>2. xdl_sym_is_match(s, offset)
    BY <1>3, <1>6, <2>1, MatchHolds
  <2>3. i \in S
    BY <1>2, <2>1, <2>2
  <2> QED
    BY <1>6, <2>3
<1> HIDE DEF S
<1> DEFINE i == xdl_sym_by_addr(offset)
<1>7. i \in S \cup {0} /\ (i = 0 <=> S = {})
  BY <1>1, <1>4, FirstOrNone
<1> HIDE DEF i
<1>8. IF i = 0 THEN ~\E s \in Exporteds : HoldsAt(s, offset)
      ELSE image.dynsym[i] \in Exporteds /\ HoldsAt(image.dynsym[i], offset) /\ image.dynsym[i] \in SymbolRecords
  BY <1>5, <1>6, <1>7
<1> QED
  BY <1>8 DEF i

(* xdl_dsym_by_addr finds a symbol of .symtab at the address if there is one. *)
LEMMA DsymByAddr ==
    ASSUME image \in Images, NEW offset \in Nat
    PROVE  LET i == xdl_dsym_by_addr(offset)
           IN IF i = 0 THEN ~\E s \in Internals : HoldsAt(s, offset)
              ELSE image.symtab[i] \in Internals /\ HoldsAt(image.symtab[i], offset) /\ image.symtab[i] \in SymbolRecords
<1> DEFINE n == Len(image.symtab)
           I == {i \in 1 .. n : image.symtab[i].section = "text" /\ xdl_sym_is_match(image.symtab[i], offset)}
<1>1. xdl_dsym_by_addr(offset) = IF I # {} THEN Min(I) ELSE 0
  BY DEF xdl_dsym_by_addr, SelectInSeq
<1>2. n \in Nat /\ DOMAIN image.symtab = 1 .. n /\ \A i \in 1 .. n : image.symtab[i] \in SymbolRecords
  <2>1. image.symtab \in Seq(SymbolRecords)
    BY ImageFacts
  <2> QED
    BY <2>1
<1>3. \A i \in I : image.symtab[i] \in Internals /\ HoldsAt(image.symtab[i], offset) /\ image.symtab[i] \in SymbolRecords
  BY <1>2, MatchHolds DEF Internals, ToSet
<1>4. ASSUME I = {}, NEW s \in Internals, HoldsAt(s, offset) PROVE FALSE
  <2>1. PICK i \in 1 .. n : s = image.symtab[i] /\ s.section = "text"
    BY <1>2 DEF Internals, ToSet
  <2>2. xdl_sym_is_match(s, offset)
    BY <1>2, <1>4, <2>1, MatchHolds
  <2> QED
    BY <1>4, <2>1, <2>2
<1>5. I \subseteq Nat /\ 0 \notin I
  BY <1>2
<1> HIDE DEF I
<1> DEFINE i == xdl_dsym_by_addr(offset)
<1>6. i \in I \cup {0} /\ (i = 0 <=> I = {})
  BY <1>1, <1>5, LeastOf
<1> HIDE DEF i
<1>7. IF i = 0 THEN ~\E s \in Internals : HoldsAt(s, offset)
      ELSE image.symtab[i] \in Internals /\ HoldsAt(image.symtab[i], offset) /\ image.symtab[i] \in SymbolRecords
  BY <1>3, <1>4, <1>6
<1> QED
  BY <1>7 DEF i

(* A call that waits for .symtab is one that may ask for it, and one by    *)
(* address has found no exported symbol there.                             *)
WaitsRightly ==
    pending # Nothing =>
        /\ answer = Nothing /\ pending.fn \in {"xdl_dsym", "getSymAddress", "xdl_addr"}
        /\ pending.fn = "xdl_addr" => ~\E s \in Exporteds : HoldsAt(s, pending.arg)

(* findSymbol was asked for a name. *)
NamesAsked == Answered("findSymbol") => answer.arg \in Names

SymbolsIInv == WaitsRightly /\ NamesAsked /\ LookupInv

(* A call has a name or an address. *)
LEMMA CallFacts ==
    ASSUME NEW c \in Calls
    PROVE  /\ c.fn \in {"xdl_sym", "xdl_dsym", "getSymAddress", "findSymbol", "xdl_addr"}
           /\ c.fn = "xdl_addr" => c.arg \in Nat
           /\ c.fn # "xdl_addr" => c.arg \in Names
  BY ImagesAssumption DEF Calls

(* An answer to no call is right in every respect. *)
LEMMA NoAnswerRight ==
    ASSUME SymbolsTypeOK', answer' = Nothing PROVE LookupInv' /\ NamesAsked'
  BY Zenon DEF LookupInv, NamesAsked, SymFindsExport, DsymFindsCanonical, AddrInsideSymbol, LookupsAgree, Answered

(* The image of a handle and the loaded table stay, *)
LEMMA SameImage ==
    ASSUME image' = image, step' = step, result' = result
    PROVE  /\ Exporteds' = Exporteds /\ Internals' = Internals /\ SymtabLoaded' = SymtabLoaded
           /\ Loaded' = Loaded
  BY DEF Exporteds, Internals, SymtabLoaded, Loaded, ToSet

(* What xdl_sym would say of the name in the last answer. *)
AnsweredByExport ==
    xdl_sym(answer.arg) = IF ~Loaded \/ Exports(answer.arg) = {} THEN Null
                          ELSE Resolved(image.dynsym[Min(Exports(answer.arg))])

(* It says this in every state. *)
LEMMA AnswerOfSym == image \in Images /\ answer.arg \in Names => AnsweredByExport
  BY SymAnswers DEF AnsweredByExport

(* so that an answer is right in the next state if it is now. *)
LEMMA AnswerStays ==
    ASSUME SymbolsTypeOK, SymbolsTypeOK', image' = image, step' = step, result' = result,
           NEW c \in Calls, NEW r, Answer(c, r),
           c.fn = "xdl_sym" => r = xdl_sym(c.arg),
           c.fn = "xdl_dsym" => r = IF SymtabLoaded THEN xdl_dsym(c.arg) ELSE Null,
           c.fn = "xdl_addr" =>
               IF r = Null THEN ~\E s \in Exporteds \cup (IF SymtabLoaded THEN Internals ELSE {}) : HoldsAt(s, c.arg)
               ELSE /\ HoldsAt(r, c.arg) /\ r \in Exporteds \cup (IF SymtabLoaded THEN Internals ELSE {})
                    /\ r \in Exporteds \/ ~\E s \in Exporteds : HoldsAt(s, c.arg),
           c.fn = "findSymbol" => r = findSymbol(c.arg)
    PROVE  LookupInv' /\ NamesAsked'
<1>1. answer' = [fn |-> c.fn, arg |-> c.arg, result |-> r]
  BY DEF Answer
<1>2. answer'.fn = c.fn /\ answer'.arg = c.arg /\ answer'.result = r
  BY <1>1
<1>3. image \in Images
  BY DEF SymbolsTypeOK
<1>4. /\ Exporteds' = Exporteds /\ Internals' = Internals /\ SymtabLoaded' = SymtabLoaded /\ Loaded' = Loaded
  BY SameImage
<1>5. SymFindsExport'
  <2> SUFFICES ASSUME Answered("xdl_sym")' PROVE SymFindsExport'
    BY DEF SymFindsExport
  <2>1. c.fn = "xdl_sym" /\ c.arg \in Names
    BY <1>2, CallFacts DEF Answered
  <2>2. r = IF ~Loaded \/ Exports(c.arg) = {} THEN Null ELSE Resolved(image.dynsym[Min(Exports(c.arg))])
    BY <1>3, <2>1, SymAnswers
  <2>3. Exports(answer.arg)' = Exports(c.arg)
    BY <1>2 DEF Exports, Indices
  <2>4. answer'.result = IF ~Loaded' \/ Exports(answer.arg)' = {} THEN Null ELSE Resolved(image'.dynsym[Min(Exports(answer.arg)')])
    BY <1>2, <1>4, <2>2, <2>3
  <2> QED
    BY <2>4, Zenon DEF SymFindsExport
<1>6. DsymFindsCanonical'
  <2> SUFFICES ASSUME Answered("xdl_dsym")' PROVE DsymFindsCanonical'
    BY DEF DsymFindsCanonical
  <2> DEFINE M == {s \in ToSet(image.symtab) : s.section = "text" /\ c.arg \in CanonicalForms(s.name)}
             N == {s \in ToSet(image'.symtab) : s.section = "text" /\ answer'.arg \in CanonicalForms(s.name)}
  <2>1. c.fn = "xdl_dsym" /\ c.arg \in Names
    BY <1>2, CallFacts DEF Answered
  <2>2. IF M = {} THEN xdl_dsym(c.arg) = Null ELSE \E s \in M : xdl_dsym(c.arg) = s.value
    BY <1>3, <2>1, DsymAnswers
  <2>3. N = M
    BY <1>2
  <2> HIDE DEF M, N
  <2>4. IF ~SymtabLoaded' \/ N = {} THEN answer'.result = Null ELSE \E s \in N : answer'.result = s.value
    BY <1>2, <1>4, <2>1, <2>2, <2>3
  <2> QED
    BY <2>4, Zenon DEF DsymFindsCanonical, N
<1>7. AddrInsideSymbol'
  <2> SUFFICES ASSUME Answered("xdl_addr")' PROVE AddrInsideSymbol'
    BY DEF AddrInsideSymbol
  <2>1. c.fn = "xdl_addr"
    BY <1>2 DEF Answered
  <2> DEFINE exported == Exporteds'
             internal == IF SymtabLoaded' THEN Internals' ELSE {}
  <2>2. IF answer'.result = Null THEN ~\E s \in exported \cup internal : HoldsAt(s, answer'.arg)
        ELSE /\ HoldsAt(answer'.result, answer'.arg) /\ answer'.result \in exported \cup internal
             /\ answer'.result \in exported \/ ~\E s \in exported : HoldsAt(s, answer'.arg)
    BY <1>2, <1>4, <2>1, Zenon
  <2>3. /\ exported = IF Loaded' THEN {s \in ToSet(image'.dynsym) : s.section # "undef"} ELSE {}
        /\ internal = IF SymtabLoaded' THEN {s \in ToSet(image'.symtab) : s.section = "text"} ELSE {}
    BY DEF Exporteds, Internals
  <2> HIDE DEF exported, internal
  <2> QED
    BY <2>2, <2>3, Zenon DEF AddrInsideSymbol, HoldsAt
<1>8. LookupsAgree'
  <2> SUFFICES ASSUME Answered("findSymbol")',
                      \A i \in Exports(answer.arg)' : image'.dynsym[i].type = "func" /\ image'.dynsym[i].value # 0
               PROVE  answer'.result = xdl_sym(answer.arg)'
    BY DEF LookupsAgree
  <2>1. c.fn = "findSymbol" /\ c.arg \in Names
    BY <1>2, CallFacts DEF Answered
  <2>2. Exports(answer.arg)' = Exports(c.arg)
    BY <1>2 DEF Exports, Indices
  <2>3. r = xdl_sym(c.arg)
    BY <1>3, <2>1, <2>2, FindSymbolAnswers
  <2>4. xdl_sym(answer.arg)' = xdl_sym(c.arg)
    <3>1. image' \in Images /\ answer'.arg \in Names
      BY <1>2, <1>3, <2>1
    <3>2. (image \in Images /\ answer.arg \in Names => AnsweredByExport)'
      BY AnswerOfSym, PTL
    <3>3. xdl_sym(answer.arg)' = IF ~Loaded' \/ Exports(answer.arg)' = {} THEN Null
                                 ELSE Resolved(image'.dynsym[Min(Exports(answer.arg)')])
      BY <3>1, <3>2, Zenon DEF AnsweredByExport
    <3>4. xdl_sym(c.arg) = IF ~Loaded \/ Exports(c.arg) = {} THEN Null ELSE Resolved(image.dynsym[Min(Exports(c.arg))])
      BY <1>3, <2>1, SymAnswers
    <3> QED
      BY <1>4, <2>2, <3>3, <3>4
  <2> QED
    BY <1>2, <2>3, <2>4
<1>9. NamesAsked'
  BY <1>2, CallFacts DEF NamesAsked, Answered
<1> QED
  BY <1>5, <1>6, <1>7, <1>8, <1>9 DEF LookupInv

(* A call asks its question of .dynsym. *)
LEMMA StartCallInv == ASSUME SymbolsIInv, StartCall PROVE SymbolsIInv'
<1>1. SymbolsTypeOK /\ image \in Images
  BY DEF SymbolsIInv, LookupInv, SymbolsTypeOK
<1>2. image' = image /\ step' = step /\ result' = result /\ pending = Nothing
  BY DEF StartCall, symtabVars
<1>3. PICK c \in Calls : CallSym(c) \/ CallAddr(c) \/ CallFindSymbol(c) \/ CallSymtab(c)
  BY DEF StartCall
<1>4. LoadDynsym => dynsym' \in {"untried", "null", "loaded"}
  BY <1>1 DEF LoadDynsym, SymbolsTypeOK
<1>5. CASE CallSym(c)
  <2>1. SymbolsTypeOK'
    BY <1>1, <1>2, <1>4, <1>5 DEF CallSym, SymbolsTypeOK
  <2>2. Answer(c, xdl_sym(c.arg)) /\ c.fn \in {"xdl_sym", "getSymAddress"} /\ pending' = Nothing
    BY <1>2, <1>5 DEF CallSym
  <2>3. LookupInv' /\ NamesAsked'
    BY <1>1, <1>2, <2>1, <2>2, AnswerStays
  <2> QED
    BY <2>2, <2>3 DEF SymbolsIInv, WaitsRightly
<1>6. CASE CallAddr(c)
  <2>1. SymbolsTypeOK'
    BY <1>1, <1>2, <1>4, <1>6 DEF CallAddr, SymbolsTypeOK
  <2> DEFINE r == image.dynsym[xdl_sym_by_addr(c.arg)]
  <2>2. Answer(c, r) /\ c.fn = "xdl_addr" /\ Loaded /\ xdl_sym_by_addr(c.arg) # 0 /\ pending' = Nothing
    BY <1>2, <1>6 DEF CallAddr
  <2>3. c.arg \in Nat
    BY <2>2, CallFacts
  <2>4. r \in Exporteds /\ HoldsAt(r, c.arg) /\ r \in SymbolRecords
    BY <1>1, <2>2, <2>3, SymByAddr
  <2>5. r # Null
    BY <2>4, ImagesAssumption
  <2> HIDE DEF r
  <2>6. LookupInv' /\ NamesAsked'
    BY <1>1, <1>2, <2>1, <2>2, <2>4, <2>5, AnswerStays
  <2> QED
    BY <2>2, <2>6 DEF SymbolsIInv, WaitsRightly
<1>7. CASE CallFindSymbol(c)
  <2>1. SymbolsTypeOK'
    BY <1>1, <1>2, <1>7 DEF CallFindSymbol, SymbolsTypeOK
  <2>2. Answer(c, findSymbol(c.arg)) /\ c.fn = "findSymbol" /\ pending' = Nothing
    BY <1>2, <1>7 DEF CallFindSymbol
  <2>3. LookupInv' /\ NamesAsked'
    BY <1>1, <1>2, <2>1, <2>2, AnswerStays
  <2> QED
    BY <2>2, <2>3 DEF SymbolsIInv, WaitsRightly
<1>8. CASE CallSymtab(c)
  <2>1. SymbolsTypeOK'
    BY <1>1, <1>2, <1>4, <1>8 DEF CallSymtab, SymbolsTypeOK
  <2>2. pending' = c /\ answer' = Nothing /\ c.fn \in {"xdl_dsym", "getSymAddress", "xdl_addr"}
        /\ (c.fn = "xdl_addr" => ~(Loaded /\ xdl_sym_by_addr(c.arg) # 0))
    BY <1>8 DEF CallSymtab
  <2>3. LookupInv' /\ NamesAsked'
    BY <2>1, <2>2, NoAnswerRight
  <2>4. ASSUME c.fn = "xdl_addr" PROVE ~\E s \in Exporteds : HoldsAt(s, c.arg)
    <3>1. CASE ~Loaded
      BY <3>1 DEF Exporteds
    <3>2. CASE Loaded
      <4>1. c.arg \in Nat /\ xdl_sym_by_addr(c.arg) = 0
        BY <2>2, <2>4, <3>2, CallFacts
      <4> QED
        BY <1>1, <3>2, <4>1, SymByAddr
    <3> QED
      BY <3>1, <3>2
  <2>5. Exporteds' = Exporteds
    BY <1>2, SameImage
  <2>6. WaitsRightly'
    BY <2>2, <2>4, <2>5, Zenon DEF WaitsRightly, HoldsAt
  <2> QED
    BY <2>3, <2>6 DEF SymbolsIInv
<1> QED
  BY <1>3, <1>5, <1>6, <1>7, <1>8

(* .symtab is loaded. *)
LEMMA LoadInv == ASSUME SymbolsIInv, Load PROVE SymbolsIInv'
<1>1. SymbolsTypeOK /\ pending # Nothing /\ image' = image /\ dynsym' = dynsym /\ pending' = pending /\ answer' = answer
  BY DEF SymbolsIInv, LookupInv, Load, symbolsVars
<1>2. SymbolsTypeOK' /\ answer' = Nothing
  BY <1>1 DEF SymbolsTypeOK, SymbolsIInv, WaitsRightly
<1>3. Exporteds' = Exporteds
  BY <1>1 DEF Exporteds, Loaded, ToSet
<1>4. WaitsRightly'
  <2>1. WaitsRightly
    BY DEF SymbolsIInv
  <2> QED
    BY <1>1, <1>3, <2>1, Zenon DEF WaitsRightly, HoldsAt
<1> QED
  BY <1>2, <1>4, NoAnswerRight DEF SymbolsIInv

(* What waited for .symtab is answered. *)
LEMMA SearchSymtabInv == ASSUME SymbolsIInv, SearchSymtab PROVE SymbolsIInv'
<1> DEFINE c == pending
           i == xdl_dsym_by_addr(c.arg)
           r == IF ~SymtabLoaded THEN Null
                ELSE IF c.fn # "xdl_addr" THEN xdl_dsym(c.arg) ELSE IF i = 0 THEN Null ELSE image.symtab[i]
<1>1. SymbolsTypeOK /\ image \in Images /\ WaitsRightly
  BY DEF SymbolsIInv, LookupInv, SymbolsTypeOK
<1>2. image' = image /\ dynsym' = dynsym /\ step' = step /\ result' = result /\ pending' = Nothing /\ pending # Nothing
  BY DEF SearchSymtab, symtabVars
<1>3. Answer(c, r)
  BY DEF SearchSymtab
<1>4. c \in Calls /\ c.fn \in {"xdl_dsym", "getSymAddress", "xdl_addr"}
      /\ (c.fn = "xdl_addr" => ~\E s \in Exporteds : HoldsAt(s, c.arg))
  BY <1>1, <1>2, Zenon DEF SymbolsTypeOK, WaitsRightly
<1>5. SymbolsTypeOK'
  BY <1>1, <1>2 DEF SymbolsTypeOK
<1>6. ASSUME c.fn = "xdl_addr"
      PROVE  IF r = Null THEN ~\E s \in Exporteds \cup (IF SymtabLoaded THEN Internals ELSE {}) : HoldsAt(s, c.arg)
             ELSE /\ HoldsAt(r, c.arg) /\ r \in Exporteds \cup (IF SymtabLoaded THEN Internals ELSE {})
                  /\ r \in Exporteds \/ ~\E s \in Exporteds : HoldsAt(s, c.arg)
  <2>1. c.arg \in Nat
    BY <1>4, <1>6, CallFacts
  <2>2. IF i = 0 THEN ~\E s \in Internals : HoldsAt(s, c.arg)
        ELSE image.symtab[i] \in Internals /\ HoldsAt(image.symtab[i], c.arg) /\ image.symtab[i] \in SymbolRecords
    BY <1>1, <2>1, DsymByAddr
  <2>3. i # 0 => image.symtab[i] # Null
    BY <2>2, ImagesAssumption
  <2>4. r = IF ~SymtabLoaded \/ i = 0 THEN Null ELSE image.symtab[i]
    BY <1>6
  <2> HIDE DEF c, i, r
  <2> QED
    BY <1>4, <1>6, <2>2, <2>3, <2>4
<1>7. c.fn = "xdl_dsym" => r = IF SymtabLoaded THEN xdl_dsym(c.arg) ELSE Null
  OBVIOUS
<1> HIDE DEF c, r
<1>8. LookupInv' /\ NamesAsked'
  BY <1>1, <1>2, <1>3, <1>4, <1>5, <1>6, <1>7, AnswerStays
<1> QED
  BY <1>2, <1>8 DEF SymbolsIInv, WaitsRightly

(* Nothing changes if nothing does. *)
LEMMA StutterInv == ASSUME SymbolsIInv, UNCHANGED <<symtabVars, symbolsVars>> PROVE SymbolsIInv'
<1>1. /\ image' = image /\ dynsym' = dynsym /\ pending' = pending /\ answer' = answer
      /\ step' = step /\ result' = result
  BY DEF symtabVars, symbolsVars
<1>2. /\ Exporteds' = Exporteds /\ Internals' = Internals /\ SymtabLoaded' = SymtabLoaded /\ Loaded' = Loaded
  BY <1>1, SameImage
<1>3. SymbolsTypeOK /\ image \in Images
  BY DEF SymbolsIInv, LookupInv, SymbolsTypeOK
<1>4. WaitsRightly'
  <2>1. WaitsRightly
    BY DEF SymbolsIInv
  <2> QED
    BY <1>1, <1>2, <2>1, Zenon DEF WaitsRightly, HoldsAt
<1>5. SymbolsTypeOK' /\ NamesAsked'
  BY <1>1, <1>3 DEF SymbolsTypeOK, NamesAsked, SymbolsIInv, Answered
<1>6. Exports(answer.arg)' = Exports(answer.arg)
  BY <1>1 DEF Exports, Indices
<1>7. SymFindsExport'
  <2>1. SymFindsExport
    BY DEF SymbolsIInv, LookupInv
  <2> QED
    BY <1>1, <1>2, <1>6, <2>1 DEF SymFindsExport, Answered, Resolved
<1>8. DsymFindsCanonical'
  <2>1. DsymFindsCanonical
    BY DEF SymbolsIInv, LookupInv
  <2> QED
    BY <1>1, <1>2, <2>1, Zenon DEF DsymFindsCanonical, Answered, CanonicalForms, ToSet
<1>9. AddrInsideSymbol'
  <2>1. AddrInsideSymbol
    BY DEF SymbolsIInv, LookupInv
  <2> QED
    BY <1>1, <2>1 DEF AddrInsideSymbol, Answered, ToSet, Loaded, SymtabLoaded
<1>10. LookupsAgree'
  <2> SUFFICES ASSUME Answered("findSymbol")',
                      \A i \in Exports(answer.arg)' : image'.dynsym[i].type = "func" /\ image'.dynsym[i].value # 0
               PROVE  answer'.result = xdl_sym(answer.arg)'
    BY DEF LookupsAgree
  <2>1. Answered("findSymbol") /\ answer.arg \in Names
    BY <1>1 DEF Answered, SymbolsIInv, NamesAsked
  <2>2. answer.result = xdl_sym(answer.arg)
    BY <1>1, <1>6, <2>1 DEF SymbolsIInv, LookupInv, LookupsAgree
  <2>3. AnsweredByExport
    BY <1>3, <2>1, AnswerOfSym
  <2>4. AnsweredByExport'
    <3>1. (image \in Images /\ answer.arg \in Names => AnsweredByExport)'
      BY AnswerOfSym, PTL
    <3> QED
      BY <1>1, <1>3, <2>1, <3>1
  <2>5. xdl_sym(answer.arg)' = xdl_sym(answer.arg)
    BY <1>1, <1>2, <1>6, <2>3, <2>4 DEF AnsweredByExport, Resolved
  <2> QED
    BY <1>1, <2>2, <2>5
<1> QED
  BY <1>4, <1>5, <1>7, <1>8, <1>9, <1>10 DEF SymbolsIInv, LookupInv

(* For any images, names, addresses and hash functions: xdl_sym finds the  *)
(* exported symbol of the very name by either hash table, xdl_dsym one of  *)
(* that canonical name, xdl_addr a symbol whose code holds the address,    *)
(* and none only if there is none; KittyUtils finds what xDL finds.        *)
THEOREM LookupsCorrect == SymbolsMachine => []LookupInv
<1>1. SymbolsInit => SymbolsIInv
  <2> SUFFICES ASSUME SymbolsInit PROVE SymbolsIInv
    OBVIOUS
  <2>1. SymbolsTypeOK /\ answer = Nothing /\ pending = Nothing
    BY DEF SymbolsInit, SymbolsTypeOK
  <2>2. ~Answered("xdl_sym") /\ ~Answered("xdl_dsym") /\ ~Answered("xdl_addr") /\ ~Answered("findSymbol")
    BY <2>1 DEF Answered
  <2>3. LookupInv /\ NamesAsked
    BY <2>1, <2>2, Zenon DEF LookupInv, NamesAsked, SymFindsExport, DsymFindsCanonical, AddrInsideSymbol, LookupsAgree
  <2> QED
    BY <2>1, <2>3 DEF SymbolsIInv, WaitsRightly
<1>2. SymbolsIInv /\ [SymbolsNext]_<<symtabVars, symbolsVars>> => SymbolsIInv'
  <2> SUFFICES ASSUME SymbolsIInv, [SymbolsNext]_<<symtabVars, symbolsVars>> PROVE SymbolsIInv'
    OBVIOUS
  <2>1. CASE StartCall
    BY <2>1, StartCallInv
  <2>2. CASE Load
    BY <2>2, LoadInv
  <2>3. CASE SearchSymtab
    BY <2>3, SearchSymtabInv
  <2>4. CASE UNCHANGED <<symtabVars, symbolsVars>>
    BY <2>4, StutterInv
  <2> QED
    BY <2>1, <2>2, <2>3, <2>4 DEF SymbolsNext
<1>3. SymbolsIInv => LookupInv
  BY DEF SymbolsIInv
<1> QED
  BY <1>1, <1>2, <1>3, PTL DEF SymbolsMachine

-----------------------------------------------------------------------------
(***************************************************************************)
(* The linker's records: the fields are where the search puts them, and    *)
(* the walk follows the list as it was when it began.                      *)
(***************************************************************************)
SoInfoSpec == SoInfoInit /\ [][SoInfoNext]_scanVars

Infos == [ptr : Nat, info : [Fields -> Nat]]
Listings ==
    [at : {"idle", "walk", "done"}, si : Nat, readable : SUBSET Records, out : Seq(Infos),
     begun : Seq(Records), lost : BOOLEAN]

ScanTypes ==
    /\ solist \in Seq(Records) /\ free \in [Records -> FreeValues]
    /\ offsets \in [Fields \cup {"next"} -> 0 .. ScanWords - 1] /\ listing \in Listings /\ loads \in Nat

(* The linker's record and the program's stay at the head of the list.     *)
ListInOrder ==
    /\ Len(solist) >= 2 /\ solist[1] = 1 /\ solist[2] = SoMain
    /\ \A i, j \in 1 .. Len(solist) : solist[i] = solist[j] => i = j

(* Word o of a record is field f. *)
IsField(o, f) == o \in 0 .. Width - 1 /\ Layout[o + 1] = f

(* What was learned of one record is where the fields are in each of them. *)
OffsetsRight ==
    offsets.next # 0 =>
        /\ IsField(offsets.next, "next")
        /\ ~Coincidence => /\ \A f \in Fields : IsField(offsets[f], f)
                           /\ offsets.strsz # 0

(* While nothing is unloaded the walk is inside the list it began with,    *)
(* or beyond it at a record whose pages it does not know.                  *)
WalkedSoFar ==
    listing.at # "idle" /\ ~listing.lost =>
        /\ Len(listing.begun) <= Len(solist)
        /\ \A i \in 1 .. Len(listing.begun) : listing.begun[i] = solist[i]
        /\ listing.readable = ToSet(listing.begun) /\ Len(listing.out) <= Len(listing.begun)
        /\ \A i \in 1 .. Len(listing.out) :
              /\ listing.out[i].ptr = RecordAt(listing.begun[i])
              /\ ~Coincidence => listing.out[i].info = LibraryOf[listing.begun[i]]
        /\ listing.at = "done" => Len(listing.out) = Len(listing.begun)
        /\ listing.at = "walk" =>
              IF Len(listing.out) < Len(listing.begun)
              THEN listing.si = RecordAt(listing.begun[Len(listing.out) + 1])
              ELSE listing.si = 0 \/ \E k \in Records \ listing.readable : listing.si = RecordAt(k)

SoInfoIInv ==
    /\ ScanTypes /\ ListInOrder /\ OffsetsRight /\ WalkedSoFar
    /\ listing.at = "idle" => listing.out = <<>>
    /\ listing.at # "idle" => offsets.next # 0

-----------------------------------------------------------------------------
(* A set of numbers with a bound has a greatest one. *)
LEMMA GreatestOf ==
    ASSUME NEW n \in Nat, NEW S, S \subseteq 0 .. n, S # {}
    PROVE  Max(S) \in S /\ \A x \in S : Max(S) >= x
<1> DEFINE U == {u \in Nat : \A x \in S : x <= u}
<1>1. n \in U
  OBVIOUS
<1>2. PICK m \in U : \A u \in U : m <= u
  BY <1>1, LeastNat
<1>3. m \in S
  <2> SUFFICES ASSUME m \notin S PROVE FALSE
    OBVIOUS
  <2>1. PICK x \in S : TRUE
    OBVIOUS
  <2>2. m - 1 \in Nat /\ \A y \in S : y <= m - 1
    BY <1>2, <2>1
  <2>3. m - 1 \in U
    BY <2>2
  <2> QED
    BY <1>2, <2>2, <2>3
<1>4. \E x \in S : \A y \in S : x >= y
  BY <1>2, <1>3
<1> QED
  BY <1>4, Zenon DEF Max

(* The constants of the linker's heap. *)
LEMMA HeapShape ==
    /\ Width \in Nat \ {0} /\ DOMAIN Layout = 1 .. Width /\ ScanWords \in Nat \ {0} /\ ScanWords >= Width
    /\ Cardinality(Records) \in Nat /\ Records = 1 .. Cardinality(Records) /\ SoMain \in Records /\ 1 \in Records /\ 3 \in Records
    /\ SoMain = 2 /\ ScanWords <= 2 * Width
    /\ \A i \in 1 .. Width : Layout[i] \in Fields \cup {"next", "free"}
<1>1. Layout \in Seq(Fields \cup {"next", "free"}) /\ "next" \in ToSet(Layout)
  BY SoInfoAssumption
<1>2. Len(Layout) \in Nat /\ DOMAIN Layout = 1 .. Len(Layout) /\ \A i \in 1 .. Len(Layout) : Layout[i] \in Fields \cup {"next", "free"}
  BY <1>1, LenProperties, ElementOfSeq
<1>3. Len(Layout) # 0
  BY <1>1, <1>2 DEF ToSet
<1>4. ScanWords \in Len(Layout) .. 2 * Len(Layout)
  BY SoInfoAssumption DEF Width
<1>5. Cardinality(Records) \in Nat /\ Records = 1 .. Cardinality(Records) /\ 3 \in Records /\ SoMain = 2
  BY SoInfoAssumption, FS_CardinalityType
<1> QED
  BY <1>2, <1>3, <1>4, <1>5 DEF Width

(* Words of records do not meet. *)
LEMMA RecordArithmetic ==
    ASSUME NEW W \in Nat \ {0}, NEW q \in Nat, NEW w \in 0 .. W - 1, NEW N \in Nat, q < N
    PROVE  /\ (q * W + w) \div W = q /\ (q * W + w) % W = w
           /\ q * W \in Nat /\ q * W + w < N * W
<1>1. q * W \in Nat /\ N * W \in Nat /\ (q + 1) * W = q * W + W
  OBVIOUS
<1>2. (q + 1) * W <= N * W
  <2>1. \A a, b \in Nat : a <= b => a * W <= b * W
    OBVIOUS
  <2> QED
    BY <2>1
<1>3. (q * W + w) \div W = q /\ (q * W + w) % W = w
  OBVIOUS
<1> QED
  BY <1>1, <1>2, <1>3

(* A word of a record is read where it lies. *)
LEMMA PeekWord ==
    ASSUME NEW k \in Records, NEW w \in 0 .. Width - 1
    PROVE  /\ RecordAt(k) \in Nat \ {0} /\ InArea(RecordAt(k) + w) /\ Peek(RecordAt(k) + w) = Word(k, w)
<1> DEFINE W == Width   N == Cardinality(Records)   q == k - 1
<1>1. W \in Nat \ {0} /\ N \in Nat /\ q \in Nat /\ q < N /\ w \in 0 .. W - 1
  BY HeapShape
<1>2. (q * W + w) \div W = q /\ (q * W + w) % W = w /\ q * W \in Nat /\ q * W + w < N * W
  <2> HIDE DEF W, N, q
  <2> QED
    BY <1>1, RecordArithmetic
<1>3. RecordAt(k) = 1000 + q * W /\ (RecordAt(k) + w) - Area = q * W + w
  <2> HIDE DEF W
  <2>1. RecordAt(k) = 1000 + q * W
    BY DEF RecordAt, Area, W
  <2> HIDE DEF q
  <2>2. w \in Nat
    BY <1>1
  <2> QED
    BY <1>2, <2>1, <2>2 DEF Area
<1>4. InArea(RecordAt(k) + w)
  <2> HIDE DEF W, N, q
  <2>1. RecordAt(k) + w >= 1000 /\ RecordAt(k) + w < 1000 + N * W
    <3>1. w \in Nat /\ N * W \in Nat
      BY <1>1
    <3> QED
      BY <1>2, <1>3, <3>1
  <2> QED
    BY <2>1 DEF InArea, Area, W, N
<1>5. Peek(RecordAt(k) + w) = Word(q + 1, w)
  <2> DEFINE a == RecordAt(k) + w   d == a - Area
  <2>1. Peek(a) = Word(d \div W + 1, d % W)
    BY <1>4, Zenon DEF Peek
  <2>2. d = q * W + w
    <3> HIDE DEF q, W
    <3> QED
      BY <1>3, Zenon
  <2>3. d \div W = q /\ d % W = w
    <3> HIDE DEF d, q, W
    <3> QED
      BY <1>2, <2>2, Zenon
  <2> HIDE DEF d, q, W
  <2> QED
    BY <2>1, <2>3, Zenon
<1>6. q + 1 = k
  BY HeapShape
<1> QED
  BY <1>2, <1>3, <1>4, <1>5, <1>6 DEF RecordAt

(* An address is in one record. *)
LEMMA RecordOwn ==
    ASSUME NEW j \in Records, NEW k \in Records
    PROVE  RecordAt(j) \in RecordAt(k) .. RecordAt(k) + Width - 1 <=> j = k
<1> DEFINE W == Width
<1>1. W \in Nat \ {0} /\ j - 1 \in Nat /\ k - 1 \in Nat /\ j \in Nat /\ k \in Nat
  BY HeapShape
<1>2. RecordAt(j) = 1000 + (j - 1) * W /\ RecordAt(k) = 1000 + (k - 1) * W
  BY DEF RecordAt, Area
<1>3. \A a, b \in Nat : a < b => a * W + W <= b * W
  <2> HIDE DEF W
  <2> SUFFICES ASSUME NEW a \in Nat, NEW b \in Nat, a < b PROVE a * W + W <= b * W
    OBVIOUS
  <2>1. \A x, y \in Nat : x <= y => x * W <= y * W
    BY <1>1
  <2>2. (a + 1) * W <= b * W /\ (a + 1) * W = a * W + W
    BY <1>1, <2>1
  <2> QED
    BY <2>2
<1>4. (j - 1) * W \in Nat /\ (k - 1) * W \in Nat
  BY <1>1
<1>5. CASE j < k
  BY <1>1, <1>2, <1>3, <1>4, <1>5
<1>6. CASE k < j
  BY <1>1, <1>2, <1>3, <1>4, <1>6
<1>7. CASE j = k
  BY <1>1, <1>2, <1>4, <1>7
<1> QED
  BY <1>1, <1>5, <1>6, <1>7

(* The values of a library are no addresses in the heap, nor shortly       *)
(* before it; the same of words that are no field.                         *)
LEMMA ValuesShape ==
    /\ \A k \in Records, f \in Fields : LibraryOf[k][f] \in Nat \ {0}
    /\ \A k \in Records, f \in Fields, w \in 0 .. ScanWords - 1 : ~InArea(LibraryOf[k][f] + w)
    /\ \A v \in FreeValues, w \in 0 .. ScanWords - 1 : v \in Nat /\ ~InArea(v + w)
<1>1. LibraryOf \in [Records -> [Fields -> Nat \ {0}]] /\ FreeValues \subseteq Nat
  BY SoInfoAssumption
<1>2. \A k \in Records : LibraryOf[k] \in [Fields -> Nat \ {0}]
  BY <1>1
<1>3. \A k \in Records, f \in Fields : LibraryOf[k][f] \in UNION {Range(LibraryOf[x]) : x \in Records}
  <2> SUFFICES ASSUME NEW k \in Records, NEW f \in Fields PROVE LibraryOf[k][f] \in Range(LibraryOf[k])
    OBVIOUS
  <2>1. f \in DOMAIN LibraryOf[k]
    BY <1>2
  <2> QED
    BY <2>1 DEF Range
<1>4. \A v \in FreeValues \cup UNION {Range(LibraryOf[k]) : k \in Records}, w \in 0 .. ScanWords - 1 : ~InArea(v + w)
  BY SoInfoAssumption, Zenon
<1>5. \A k \in Records, f \in Fields, w \in 0 .. ScanWords - 1 : ~InArea(LibraryOf[k][f] + w)
  BY <1>3, <1>4, Zenon
<1>6. \A v \in FreeValues, w \in 0 .. ScanWords - 1 : ~InArea(v + w)
  BY <1>4, Zenon
<1>7. \A k \in Records, f \in Fields : LibraryOf[k][f] \in Nat \ {0}
  BY <1>2
<1>8. \A v \in FreeValues : v \in Nat
  BY <1>1
<1> QED
  BY <1>5, <1>6, <1>7, <1>8, Zenon

(* The list as a sequence without repetitions. *)
LEMMA ListShape ==
    ASSUME ScanTypes, ListInOrder
    PROVE  /\ Len(solist) \in Nat /\ Len(solist) >= 2 /\ DOMAIN solist = 1 .. Len(solist)
           /\ \A i \in 1 .. Len(solist) : solist[i] \in Records
           /\ ToSet(solist) \subseteq Records /\ \A k : k \in ToSet(solist) <=> \E i \in 1 .. Len(solist) : k = solist[i]
           /\ 1 \in ToSet(solist) /\ SoMain \in ToSet(solist)
<1>1. solist \in Seq(Records) /\ Len(solist) >= 2 /\ solist[1] = 1 /\ solist[2] = SoMain
  BY DEF ScanTypes, ListInOrder
<1>2. Len(solist) \in Nat /\ DOMAIN solist = 1 .. Len(solist) /\ \A i \in 1 .. Len(solist) : solist[i] \in Records
  BY <1>1, LenProperties, ElementOfSeq
<1>3. \A k : k \in ToSet(solist) <=> \E i \in 1 .. Len(solist) : k = solist[i]
  BY <1>2 DEF ToSet
<1>4. 1 \in 1 .. Len(solist) /\ 2 \in 1 .. Len(solist)
  BY <1>1, <1>2
<1> QED
  BY <1>1, <1>2, <1>3, <1>4

(* The successor of a record is the one that follows it in the list. *)
LEMMA NextOfShape ==
    ASSUME ScanTypes, ListInOrder, NEW n \in 1 .. Len(solist)
    PROVE  NextOf(solist[n]) = IF n = Len(solist) THEN 0 ELSE RecordAt(solist[n + 1])
<1> DEFINE I == {i \in 1 .. Len(solist) : solist[i] = solist[n]}
<1>1. I = {n}
  BY DEF ListInOrder
<1>2. Min(I) = n
  <2>1. Len(solist) \in Nat
    BY ListShape
  <2>2. I \subseteq Nat /\ I # {}
    BY <1>1, <2>1
  <2>3. Min(I) \in I
    <3> HIDE DEF I
    <3> QED
      BY <2>2, LeastOf
  <2> QED
    BY <1>1, <2>3
<1>3. SelectInSeq(solist, LAMBDA x : x = solist[n]) = n
  <2>1. SelectInSeq(solist, LAMBDA x : x = solist[n]) = IF I # {} THEN Min(I) ELSE 0
    BY DEF SelectInSeq
  <2> HIDE DEF I
  <2> QED
    BY <1>1, <1>2, <2>1, Zenon
<1>4. n # 0
  BY ListShape
<1> QED
  BY <1>3, <1>4, Zenon DEF NextOf

(* It is an address of the heap, or there is none. *)
LEMMA NextOfAddress ==
    ASSUME ScanTypes, ListInOrder, NEW k \in ToSet(solist)
    PROVE  NextOf(k) = 0 \/ \E j \in ToSet(solist) : NextOf(k) = RecordAt(j)
<1>1. PICK n \in 1 .. Len(solist) : k = solist[n]
  BY ListShape
<1>2. NextOf(k) = IF n = Len(solist) THEN 0 ELSE RecordAt(solist[n + 1])
  BY <1>1, NextOfShape
<1>3. n # Len(solist) => solist[n + 1] \in ToSet(solist)
  <2>1. Len(solist) \in Nat
    BY ListShape
  <2>2. n # Len(solist) => n + 1 \in 1 .. Len(solist)
    BY <2>1
  <2> QED
    BY <2>2, ListShape
<1> QED
  BY <1>2, <1>3

(* What the words of a record in the list hold. *)
LEMMA WordShape ==
    ASSUME ScanTypes, ListInOrder, NEW k \in ToSet(solist), NEW w \in 0 .. Width - 1
    PROVE  /\ Layout[w + 1] \in Fields \cup {"next", "free"}
           /\ Layout[w + 1] = "free" => Word(k, w) = free[k] /\ Word(k, w) \in FreeValues
           /\ Layout[w + 1] = "next" => Word(k, w) = NextOf(k)
           /\ Layout[w + 1] \in Fields => Word(k, w) = LibraryOf[k][Layout[w + 1]]
<1>1. w + 1 \in 1 .. Width /\ Layout[w + 1] \in Fields \cup {"next", "free"}
  BY HeapShape
<1>2. "next" \notin Fields /\ "free" \notin Fields
  BY DEF Fields
<1>3. k \in Records /\ free[k] \in FreeValues
  BY ListShape DEF ScanTypes
<1> QED
  BY <1>1, <1>2, <1>3, Zenon DEF Word

(* The words of a record are numbers. *)
LEMMA WordNat ==
    ASSUME ScanTypes, ListInOrder, NEW k, NEW w \in 0 .. Width - 1
    PROVE  Word(k, w) \in Nat
<1>1. CASE k \notin ToSet(solist)
  BY <1>1 DEF Word
<1>2. CASE k \in ToSet(solist)
  <2>1. k \in Records
    BY <1>2, ListShape
  <2>2. NextOf(k) \in Nat
    <3>1. \A j \in ToSet(solist) : RecordAt(j) \in Nat
      <4> SUFFICES ASSUME NEW j \in ToSet(solist) PROVE RecordAt(j) \in Nat
        OBVIOUS
      <4>1. j \in Records /\ 0 \in 0 .. Width - 1
        BY ListShape, HeapShape
      <4> QED
        BY <4>1, PeekWord
    <3> QED
      BY <1>2, <3>1, NextOfAddress
  <2>3. \A f \in Fields : LibraryOf[k][f] \in Nat
    BY <2>1, ValuesShape
  <2>4. \A v \in FreeValues : v \in Nat
    BY SoInfoAssumption
  <2> QED
    BY <1>2, <2>2, <2>3, <2>4, WordShape
<1> QED
  BY <1>1, <1>2

(* What is read anywhere is a number. *)
LEMMA PeekNat ==
    ASSUME ScanTypes, ListInOrder, NEW a \in Nat
    PROVE  Peek(a) \in Nat
<1>1. CASE ~InArea(a)
  BY <1>1 DEF Peek
<1>2. CASE InArea(a)
  <2>1. a - Area \in Nat
    BY <1>2 DEF InArea, Area
  <2>2. Width \in Nat \ {0}
    BY HeapShape
  <2>3. (a - Area) % Width \in 0 .. Width - 1
    <3> DEFINE d == a - Area
               W == Width
    <3> HIDE DEF d, W
    <3>1. d % W \in 0 .. W - 1
      <4>1. d \in Nat /\ W \in Nat \ {0}
        BY <2>1, <2>2 DEF d, W
      <4> QED
        BY <4>1
    <3> QED
      BY <3>1, Zenon DEF d, W
  <2>4. Word((a - Area) \div Width + 1, (a - Area) % Width) \in Nat
    BY <2>3, WordNat
  <2> QED
    BY <1>2, <2>4, Zenon DEF Peek
<1> QED
  BY <1>1, <1>2

(* The words that are searched: those of the record, then of the one that  *)
(* lies behind it.                                                         *)
LEMMA WordsShape ==
    ASSUME NEW k \in Records, NEW i \in 0 .. ScanWords - 1
    PROVE  /\ DOMAIN WordsOf(k) = 0 .. ScanWords - 1 /\ WordsOf(k)[i] = Peek(RecordAt(k) + i)
           /\ i < Width => i \in 0 .. Width - 1 /\ WordsOf(k)[i] = Word(k, i)
           /\ i >= Width /\ k + 1 \in Records => i - Width \in 0 .. Width - 1 /\ WordsOf(k)[i] = Word(k + 1, i - Width)
<1>1. DOMAIN WordsOf(k) = 0 .. ScanWords - 1 /\ WordsOf(k)[i] = Peek(RecordAt(k) + i)
  BY DEF WordsOf
<1> DEFINE W == Width
<1>2. W \in Nat \ {0} /\ ScanWords \in Nat /\ ScanWords <= 2 * W /\ k \in Nat \ {0}
  BY HeapShape
<1>3. ASSUME i < W PROVE i \in 0 .. W - 1 /\ WordsOf(k)[i] = Word(k, i)
  <2>1. i \in 0 .. W - 1
    <3> HIDE DEF W
    <3> QED
      BY <1>2, <1>3
  <2> QED
    BY <1>1, <2>1, PeekWord
<1>4. ASSUME i >= W, k + 1 \in Records PROVE i - W \in 0 .. W - 1 /\ WordsOf(k)[i] = Word(k + 1, i - W)
  <2>1. i - W \in 0 .. W - 1
    <3> HIDE DEF W
    <3> QED
      BY <1>2, <1>4
  <2>2. RecordAt(k + 1) + (i - W) = RecordAt(k) + i
    <3>1. (k + 1) - 1 = k /\ k - 1 \in Nat /\ i \in Nat
      BY <1>2
    <3>2. RecordAt(k + 1) = 1000 + k * W /\ RecordAt(k) = 1000 + (k - 1) * W
      BY <3>1 DEF RecordAt, Area
    <3> HIDE DEF W
    <3>3. k * W = (k - 1) * W + W /\ (k - 1) * W \in Nat
      BY <1>2, <3>1
    <3> QED
      BY <1>2, <3>1, <3>2, <3>3
  <2>3. Peek(RecordAt(k + 1) + (i - W)) = Word(k + 1, i - W)
    BY <1>4, <2>1, PeekWord
  <2> QED
    BY <1>1, <2>1, <2>2, <2>3
<1> QED
  BY <1>1, <1>3, <1>4

(* No library is found at a value that is no base, nor at zero. *)
LEMMA ElfsShape ==
    ASSUME ScanTypes, ListInOrder
    PROVE  /\ ElfsAt(0) = {}
           /\ \A a : \A k \in ElfsAt(a) : k \in ToSet(solist) /\ k \in Records /\ LibraryOf[k].base = a
<1>1. "base" \in Fields
  BY DEF Fields
<1>2. \A k \in ToSet(solist) : k \in Records /\ LibraryOf[k].base # 0
  BY <1>1, ListShape, ValuesShape
<1> QED
  BY <1>2 DEF ElfsAt

(* The last of a set of places is one of them. *)
LEMMA LastOffsetShape ==
    ASSUME NEW S, S \subseteq 0 .. ScanWords - 1
    PROVE  LastOffset(S) \in 0 .. ScanWords - 1 /\ (S # {} => LastOffset(S) \in S) /\ (S = {} => LastOffset(S) = 0)
<1>1. ScanWords \in Nat \ {0}
  BY HeapShape
<1>2. CASE S = {}
  BY <1>1, <1>2 DEF LastOffset
<1>3. CASE S # {}
  <2>1. ScanWords - 1 \in Nat
    BY <1>1
  <2>2. Max(S) \in S
    BY <1>3, <2>1, GreatestOf
  <2> QED
    BY <1>3, <2>2 DEF LastOffset
<1> QED
  BY <1>2, <1>3

(* The place of the base holds where a library begins. *)
LEMMA BaseShape ==
    /\ BaseOffset \in 0 .. ScanWords - 1
    /\ BaseOffset # 0 => ElfsAt(WordsOf(SoMain)[BaseOffset]) # {}
    /\ \A i \in 0 .. ScanWords - 1 : ElfsAt(WordsOf(SoMain)[i]) # {} =>
          BaseOffset <= i /\ ElfsAt(WordsOf(SoMain)[BaseOffset]) # {}
<1> DEFINE hits == {i \in 0 .. ScanWords - 1 : ElfsAt(WordsOf(SoMain)[i]) # {}}
<1>1. ScanWords \in Nat \ {0} /\ SoMain \in Records
  BY HeapShape
<1>2. BaseOffset = IF hits = {} THEN 0 ELSE Min(hits)
  <2>1. 0 \in 0 .. ScanWords - 1
    BY <1>1
  <2>2. DOMAIN WordsOf(SoMain) = 0 .. ScanWords - 1
    BY <1>1, <2>1, WordsShape
  <2> QED
    BY <2>2 DEF BaseOffset
<1>3. hits # {} => Min(hits) \in hits /\ \A i \in hits : Min(hits) <= i
  <2>1. hits \subseteq Nat
    BY <1>1
  <2> HIDE DEF hits
  <2> QED
    BY <2>1, LeastOf
<1>4. hits = {} => 0 \in 0 .. ScanWords - 1
  BY <1>1
<1> QED
  BY <1>2, <1>3, <1>4, Zenon

(* A word that means a field holds that field of the library. *)
LEMMA MeaningShape ==
    ASSUME NEW i, NEW lib, Meaning(i, lib) # "none"
    PROVE  /\ Meaning(i, lib) \in Fields \ {"base", "phdr"} /\ WordsOf(SoMain)[i] = LibraryOf[lib][Meaning(i, lib)]
           /\ Meaning(i, lib) = "bias" => i # BaseOffset
<1> DEFINE hits == {n \in DOMAIN Order : /\ WordsOf(SoMain)[i] = LibraryOf[lib][Order[n]]
                                         /\ Order[n] = "bias" => i # BaseOffset}
<1>1. Meaning(i, lib) = IF hits = {} THEN "none" ELSE Order[Min(hits)]
  BY DEF Meaning
<1>2. DOMAIN Order = 1 .. 7 /\ \A n \in 1 .. 7 : Order[n] \in Fields \ {"base", "phdr"}
  BY DEF Order, Fields
<1>3. hits # {} /\ hits \subseteq Nat
  BY <1>1, <1>2
<1>4. Min(hits) \in hits
  <2> HIDE DEF hits
  <2> QED
    BY <1>3, LeastOf
<1>5. Meaning(i, lib) = Order[Min(hits)]
  BY <1>1, <1>3, Zenon
<1> HIDE DEF Meaning
<1> QED
  BY <1>2, <1>4, <1>5

(* A word that can mean one field only, means it. *)
LEMMA MeaningFound ==
    ASSUME NEW i, NEW lib, NEW f \in Fields \ {"base", "phdr"}, WordsOf(SoMain)[i] = LibraryOf[lib][f],
           f = "bias" => i # BaseOffset,
           \A g \in Fields \ {"base", "phdr"} : WordsOf(SoMain)[i] = LibraryOf[lib][g] => g = f
    PROVE  Meaning(i, lib) = f
<1> DEFINE hits == {n \in DOMAIN Order : /\ WordsOf(SoMain)[i] = LibraryOf[lib][Order[n]]
                                         /\ Order[n] = "bias" => i # BaseOffset}
<1>1. Meaning(i, lib) = IF hits = {} THEN "none" ELSE Order[Min(hits)]
  BY DEF Meaning
<1>2. /\ DOMAIN Order = 1 .. 7 /\ \A n \in 1 .. 7 : Order[n] \in Fields \ {"base", "phdr"}
      /\ \E n \in 1 .. 7 : Order[n] = f
  BY DEF Order, Fields
<1>3. hits # {} /\ hits \subseteq Nat
  BY <1>2
<1>4. Min(hits) \in hits
  <2> HIDE DEF hits
  <2> QED
    BY <1>3, LeastOf
<1>5. Order[Min(hits)] = f
  BY <1>2, <1>4
<1> HIDE DEF hits
<1> QED
  BY <1>1, <1>3, <1>5

(* The library that the search compares with. *)
ElfFound == CHOOSE k \in ElfsAt(WordsOf(SoMain)[BaseOffset]) : TRUE
PlacesOf(f) ==
    IF f = "phdr" THEN {i \in 0 .. ScanWords - 1 : WordsOf(SoMain)[i] = LibraryOf[ElfFound].phdr}
    ELSE {i \in 0 .. ScanWords - 1 : Meaning(i, ElfFound) = f}

(* What is learned is the place of the base and, of each other field, the  *)
(* last word that means it.                                                *)
LEMMA LearnedShape ==
    /\ Learned \in [Fields \cup {"next"} -> 0 .. ScanWords - 1]
    /\ Learned.base = BaseOffset /\ Learned.next = 0
    /\ \A f \in Fields \ {"base"} : Learned[f] = LastOffset(PlacesOf(f))
    /\ \A f \in Fields : PlacesOf(f) \subseteq 0 .. ScanWords - 1
<1>1. ScanWords \in Nat \ {0} /\ SoMain \in Records
  BY HeapShape
<1>2. DOMAIN WordsOf(SoMain) = 0 .. ScanWords - 1
  BY <1>1, WordsShape
<1>3. Learned = [f \in Fields \cup {"next"} |->
                    CASE f = "base" -> BaseOffset
                      [] f = "next" -> 0
                      [] f = "phdr" -> LastOffset({i \in 0 .. ScanWords - 1 : WordsOf(SoMain)[i] = LibraryOf[ElfFound].phdr})
                      [] OTHER      -> LastOffset({i \in 0 .. ScanWords - 1 : Meaning(i, ElfFound) = f})]
  BY <1>2, Zenon DEF Learned, ElfFound
<1>4. "next" \notin Fields /\ "base" \in Fields /\ "phdr" \in Fields
  BY DEF Fields
<1>5. \A f \in Fields : PlacesOf(f) \subseteq 0 .. ScanWords - 1
  BY DEF PlacesOf
<1>6. \A f \in Fields \ {"base"} : Learned[f] = LastOffset(PlacesOf(f))
  <2> SUFFICES ASSUME NEW f \in Fields \ {"base"} PROVE Learned[f] = LastOffset(PlacesOf(f))
    OBVIOUS
  <2>1. CASE f = "phdr"
    BY <1>3, <1>4, <2>1 DEF PlacesOf
  <2>2. CASE f # "phdr"
    BY <1>3, <1>4, <2>2 DEF PlacesOf
  <2> QED
    BY <2>1, <2>2
<1>7. Learned.base = BaseOffset /\ Learned.next = 0
  BY <1>3, <1>4
<1>8. \A f \in Fields \cup {"next"} : Learned[f] \in 0 .. ScanWords - 1
  <2> SUFFICES ASSUME NEW f \in Fields \cup {"next"} PROVE Learned[f] \in 0 .. ScanWords - 1
    OBVIOUS
  <2>1. 0 \in 0 .. ScanWords - 1
    BY <1>1
  <2>2. CASE f = "base"
    BY <1>7, <2>2, BaseShape
  <2>3. CASE f = "next"
    BY <1>7, <2>1, <2>3
  <2>4. CASE f \in Fields \ {"base"}
    BY <1>5, <1>6, <2>4, LastOffsetShape
  <2> QED
    BY <2>2, <2>3, <2>4
<1>9. DOMAIN Learned = Fields \cup {"next"} /\ Learned = [f \in DOMAIN Learned |-> Learned[f]]
  BY <1>3
<1> HIDE DEF Learned
<1>10. Learned \in [Fields \cup {"next"} -> 0 .. ScanWords - 1]
  BY <1>8, <1>9
<1> QED
  BY <1>5, <1>6, <1>7, <1>10, Zenon

(* Whatever was taken for the base and the size: the program's own record  *)
(* has them, so the word behind which the list goes on is found, and no    *)
(* word before it can be taken for it.                                     *)
LEMMA NextFound ==
    ASSUME ScanTypes, ListInOrder, BaseOffset # 0, Usable(Learned)
    PROVE  IsField(NextOffset(Learned), "next")
<1> DEFINE hits == {i \in 0 .. ScanWords - 1 : LeadsOn(Learned, WordsOf(1)[i])}
<1>1. ScanWords \in Nat \ {0} /\ SoMain \in Records /\ 1 \in Records /\ Width \in Nat \ {0} /\ Width <= ScanWords /\ 0 \in 0 .. ScanWords - 1
  BY HeapShape
<1>2. solist[1] = 1 /\ solist[2] = SoMain /\ 1 \in 1 .. Len(solist) /\ Len(solist) # 1 /\ SoMain \in ToSet(solist) /\ 1 \in ToSet(solist)
  BY ListShape DEF ListInOrder
<1>3. DOMAIN WordsOf(1) = 0 .. ScanWords - 1
  BY <1>1, WordsShape
<1>4. NextOffset(Learned) = IF hits = {} THEN 0 ELSE Min(hits)
  BY <1>2, <1>3 DEF NextOffset
<1>5. Learned.size # 0 /\ Learned.size \in 0 .. ScanWords - 1 /\ Learned.base = BaseOffset /\ BaseOffset \in 0 .. ScanWords - 1
  <2>1. "size" \in Fields /\ Learned.size # 0
    BY DEF Usable, Fields
  <2>2. Learned \in [Fields \cup {"next"} -> 0 .. ScanWords - 1] /\ Learned.base = BaseOffset
    BY LearnedShape
  <2>3. Learned["size"] \in 0 .. ScanWords - 1
    BY <2>1, <2>2, Zenon
  <2> QED
    BY <2>1, <2>2, <2>3, BaseShape
<1>6. ElfFound \in ElfsAt(WordsOf(SoMain)[BaseOffset])
  BY BaseShape DEF ElfFound
<1>7. WordsOf(SoMain)[Learned.size] = LibraryOf[ElfFound].size
  <2>1. "size" \in Fields \ {"base"} /\ "size" # "phdr"
    BY DEF Fields
  <2>2. Learned.size = LastOffset(PlacesOf("size")) /\ PlacesOf("size") \subseteq 0 .. ScanWords - 1
    BY <2>1, LearnedShape
  <2>3. Learned.size \in PlacesOf("size")
    BY <1>5, <2>2, LastOffsetShape
  <2>4. Meaning(Learned.size, ElfFound) = "size"
    BY <2>1, <2>3 DEF PlacesOf
  <2>5. "size" # "none"
    OBVIOUS
  <2> QED
    BY <2>4, <2>5, MeaningShape
<1>8. LeadsOn(Learned, RecordAt(SoMain))
  <2>1. WordsOf(SoMain)[BaseOffset] = Peek(RecordAt(SoMain) + Learned.base)
    BY <1>1, <1>5, WordsShape
  <2>2. WordsOf(SoMain)[Learned.size] = Peek(RecordAt(SoMain) + Learned.size)
    BY <1>1, <1>5, WordsShape
  <2> QED
    BY <1>6, <1>7, <2>1, <2>2 DEF LeadsOn
<1>9. PICK n \in 1 .. Width : Layout[n] = "next"
  <2>1. "next" \in ToSet(Layout)
    BY SoInfoAssumption
  <2> QED
    BY <2>1, HeapShape DEF ToSet
<1>10. n - 1 \in hits /\ n - 1 < Width
  <2>1. n - 1 \in 0 .. Width - 1 /\ n - 1 \in 0 .. ScanWords - 1 /\ n - 1 < Width /\ (n - 1) + 1 = n
    BY <1>1
  <2>2. WordsOf(1)[n - 1] = Word(1, n - 1)
    BY <1>1, <2>1, WordsShape
  <2>3. Word(1, n - 1) = NextOf(1)
    BY <1>2, <1>9, <2>1, WordShape
  <2>4. NextOf(1) = RecordAt(SoMain)
    <3>1. NextOf(solist[1]) = IF 1 = Len(solist) THEN 0 ELSE RecordAt(solist[1 + 1])
      BY <1>2, NextOfShape
    <3> QED
      BY <1>2, <3>1
  <2> QED
    BY <1>8, <2>1, <2>2, <2>3, <2>4
<1>11. Min(hits) \in hits /\ Min(hits) <= n - 1
  <2>1. hits \subseteq Nat /\ hits # {}
    BY <1>1, <1>10
  <2> HIDE DEF hits
  <2> QED
    BY <1>10, <2>1, LeastOf
<1> SUFFICES ASSUME NEW m, m = Min(hits) PROVE IsField(m, "next")
  BY <1>4, <1>10
<1>12. m \in 0 .. Width - 1 /\ m \in 0 .. ScanWords - 1 /\ m < Width /\ LeadsOn(Learned, WordsOf(1)[m])
  <2>1. m \in hits /\ m <= n - 1
    BY <1>11
  <2>2. n - 1 < Width /\ n \in Nat
    BY <1>1, <1>10
  <2> QED
    BY <1>1, <2>1, <2>2
<1>13. WordsOf(1)[m] = Word(1, m)
  BY <1>1, <1>12, WordsShape
<1>14. ASSUME NEW v \in Nat, \A w \in 0 .. ScanWords - 1 : ~InArea(v + w) PROVE ~LeadsOn(Learned, v)
  <2>1. Peek(v + BaseOffset) = 0
    BY <1>5, <1>14 DEF Peek
  <2> QED
    BY <1>5, <2>1, ElfsShape DEF LeadsOn
<1>15. CASE Layout[m + 1] = "free"
  <2>1. Word(1, m) \in FreeValues
    BY <1>2, <1>12, <1>15, WordShape
  <2> QED
    BY <1>12, <1>13, <1>14, <2>1, ValuesShape
<1>16. CASE Layout[m + 1] \in Fields
  <2>1. Word(1, m) = LibraryOf[1][Layout[m + 1]]
    BY <1>2, <1>12, <1>16, WordShape
  <2>2. LibraryOf[1][Layout[m + 1]] \in Nat
    BY <1>1, <1>16, ValuesShape
  <2>3. \A w \in 0 .. ScanWords - 1 : ~InArea(LibraryOf[1][Layout[m + 1]] + w)
    BY <1>1, <1>16, ValuesShape
  <2> QED
    BY <1>12, <1>13, <1>14, <2>1, <2>2, <2>3
<1>17. Layout[m + 1] \in Fields \cup {"next", "free"}
  BY <1>2, <1>12, WordShape
<1> QED
  BY <1>12, <1>15, <1>16, <1>17 DEF IsField

(* Without a coincidence, the words that hold a value of the program are   *)
(* its fields.                                                             *)
LEMMA FieldWords ==
    ASSUME ScanTypes, ListInOrder, ~Coincidence, NEW i \in 0 .. ScanWords - 1
    PROVE  /\ \A f \in Fields : WordsOf(SoMain)[i] = LibraryOf[SoMain][f] =>
                 /\ i \in 0 .. Width - 1 /\ Layout[i + 1] \in Fields
                 /\ LibraryOf[SoMain][Layout[i + 1]] = LibraryOf[SoMain][f]
           /\ i \in 0 .. Width - 1 /\ Layout[i + 1] \in Fields => WordsOf(SoMain)[i] = LibraryOf[SoMain][Layout[i + 1]]
<1>1. SoMain \in Records /\ SoMain + 1 \in Records /\ SoMain \in ToSet(solist) /\ Width \in Nat /\ ScanWords \in Nat \ {0}
  BY HeapShape, ListShape
<1>2. ASSUME i \in 0 .. Width - 1, Layout[i + 1] \in Fields PROVE WordsOf(SoMain)[i] = LibraryOf[SoMain][Layout[i + 1]]
  <2>1. i < Width
    BY <1>1, <1>2
  <2> QED
    BY <1>1, <1>2, <2>1, WordsShape, WordShape
<1>3. ASSUME NEW f \in Fields, WordsOf(SoMain)[i] = LibraryOf[SoMain][f]
      PROVE  /\ i \in 0 .. Width - 1 /\ Layout[i + 1] \in Fields
             /\ LibraryOf[SoMain][Layout[i + 1]] = LibraryOf[SoMain][f]
  <2> DEFINE v == LibraryOf[SoMain][f]
  <2>1. v \in Nat \ {0} /\ ~InArea(v)
    <3>1. v \in Nat \ {0}
      BY <1>1, ValuesShape
    <3>2. 0 \in 0 .. ScanWords - 1
      BY <1>1
    <3>3. ~InArea(v + 0)
      BY <1>1, <3>2, ValuesShape
    <3>4. v + 0 = v
      BY <3>1
    <3> QED
      BY <3>1, <3>3, <3>4
  <2>2. ASSUME NEW k \in ToSet(solist) PROVE NextOf(k) # v
    <3>1. ASSUME NEW j \in ToSet(solist) PROVE InArea(RecordAt(j))
      <4>1. j \in Records /\ 0 \in 0 .. Width - 1
        BY ListShape, HeapShape
      <4>2. InArea(RecordAt(j) + 0) /\ RecordAt(j) \in Nat
        BY <4>1, PeekWord
      <4>3. RecordAt(j) + 0 = RecordAt(j)
        BY <4>2
      <4> QED
        BY <4>2, <4>3
    <3> QED
      BY <2>1, <2>2, <3>1, NextOfAddress
  <2>3. ASSUME NEW k \in Records PROVE free[k] # v
    BY <2>3 DEF Coincidence
  <2> HIDE DEF v
  <2>4. ASSUME NEW k \in ToSet(solist), NEW w \in 0 .. Width - 1, Word(k, w) = v
        PROVE  Layout[w + 1] \in Fields /\ LibraryOf[k][Layout[w + 1]] = v
    <3>1. k \in Records
      BY ListShape
    <3> QED
      BY <2>2, <2>3, <2>4, <3>1, WordShape
  <2>5. CASE i < Width
    <3>1. i \in 0 .. Width - 1 /\ WordsOf(SoMain)[i] = Word(SoMain, i)
      BY <1>1, <2>5, WordsShape
    <3>2. Word(SoMain, i) = v
      BY <1>3, <3>1 DEF v
    <3>3. Layout[i + 1] \in Fields /\ LibraryOf[SoMain][Layout[i + 1]] = v
      BY <1>1, <2>4, <3>1, <3>2
    <3> QED
      BY <3>1, <3>3 DEF v
  <2>6. CASE i >= Width
    <3>1. i - Width \in 0 .. Width - 1 /\ WordsOf(SoMain)[i] = Word(SoMain + 1, i - Width)
      BY <1>1, <2>6, WordsShape
    <3>2. Word(SoMain + 1, i - Width) = v
      BY <1>3, <3>1 DEF v
    <3>3. CASE SoMain + 1 \notin ToSet(solist)
      BY <2>1, <3>2, <3>3 DEF Word
    <3>4. CASE SoMain + 1 \in ToSet(solist)
      <4>1. Layout[(i - Width) + 1] \in Fields /\ LibraryOf[SoMain + 1][Layout[(i - Width) + 1]] = v
        BY <2>4, <3>1, <3>2, <3>4
      <4> QED
        BY <4>1 DEF Coincidence, v
    <3> QED
      BY <3>3, <3>4
  <2> QED
    BY <1>1, <2>5, <2>6
<1> QED
  BY <1>2, <1>3

(* So the base is found where it is. *)
LEMMA BaseFound ==
    ASSUME ScanTypes, ListInOrder, ~Coincidence
    PROVE  /\ IsField(BaseOffset, "base") /\ WordsOf(SoMain)[BaseOffset] = LibraryOf[SoMain].base
           /\ ElfsAt(LibraryOf[SoMain].base) = {SoMain}
           /\ \A i \in 0 .. Width - 1 : Layout[i + 1] = "base" => i = BaseOffset
<1>1. /\ SoMain \in Records /\ SoMain \in ToSet(solist) /\ Width \in Nat /\ ScanWords \in Nat \ {0} /\ Width <= ScanWords
      /\ DOMAIN Layout = 1 .. Width
  BY HeapShape, ListShape
<1>2. "base" \in Fields
  BY DEF Fields
<1>3. PICK b \in 1 .. Width : Layout[b] = "base"
  <2>1. "base" \in ToSet(Layout)
    BY <1>2, SoInfoAssumption
  <2> QED
    BY <1>1, <2>1 DEF ToSet
<1>4. \A j \in 1 .. Width : Layout[j] \in {"base", "bias"} => b <= j
  BY <1>1, <1>3, SoInfoAssumption, Zenon
<1>5. \A j \in 1 .. Width : Layout[j] = "base" => j = b
  <2>1. \A j \in 1 .. Width : Layout[j] = "base" => j <= b
    <3>1. Layout[b] \in {"base", "bias"}
      BY <1>3
    <3> QED
      BY <1>1, <1>3, <3>1, SoInfoAssumption, Zenon
  <2> QED
    BY <1>4, <2>1
<1>6. b - 1 \in 0 .. Width - 1 /\ b - 1 \in 0 .. ScanWords - 1 /\ (b - 1) + 1 = b
  BY <1>1, <1>3
<1>7. WordsOf(SoMain)[b - 1] = LibraryOf[SoMain].base
  BY <1>2, <1>3, <1>6, FieldWords
<1>8. \A f \in Fields, k \in Records : LibraryOf[SoMain][f] = LibraryOf[k].base => k = SoMain /\ f \in {"base", "bias"}
  BY SoInfoAssumption, Zenon
<1>9. ElfsAt(LibraryOf[SoMain].base) = {SoMain}
  BY <1>1, <1>2, <1>8, ListShape DEF ElfsAt
<1>10. BaseOffset \in 0 .. ScanWords - 1 /\ BaseOffset <= b - 1 /\ ElfsAt(WordsOf(SoMain)[BaseOffset]) # {}
  BY <1>6, <1>7, <1>9, BaseShape
<1> SUFFICES ASSUME NEW o, o = BaseOffset PROVE o = b - 1
  <2>1. BaseOffset = b - 1
    OBVIOUS
  <2>2. IsField(b - 1, "base")
    BY <1>3, <1>6, Zenon DEF IsField
  <2>3. \A i \in 0 .. Width - 1 : Layout[i + 1] = "base" => i = b - 1
    BY <1>1, <1>5
  <2> QED
    BY <1>7, <1>9, <2>1, <2>2, <2>3, Zenon
<1>11. o \in 0 .. ScanWords - 1 /\ o <= b - 1 /\ o < Width /\ o \in 0 .. Width - 1
  BY <1>1, <1>6, <1>10
<1>12. PICK k \in ToSet(solist) : k \in Records /\ LibraryOf[k].base = WordsOf(SoMain)[o]
  BY <1>10, ElfsShape
<1>13. WordsOf(SoMain)[o] = Word(SoMain, o)
  BY <1>1, <1>11, WordsShape
<1>14. CASE Layout[o + 1] = "free"
  <2>1. Word(SoMain, o) = free[SoMain]
    BY <1>1, <1>11, <1>14, WordShape
  <2> QED
    BY <1>1, <1>12, <1>13, <2>1 DEF Coincidence
<1>15. CASE Layout[o + 1] = "next"
  <2>1. Word(SoMain, o) = NextOf(SoMain)
    BY <1>1, <1>11, <1>15, WordShape
  <2>2. LibraryOf[k].base \in Nat \ {0} /\ ~InArea(LibraryOf[k].base + 0) /\ LibraryOf[k].base + 0 = LibraryOf[k].base
    <3>1. 0 \in 0 .. ScanWords - 1
      BY <1>1
    <3> QED
      BY <1>2, <1>12, <3>1, ValuesShape
  <2>3. ASSUME NEW j \in ToSet(solist) PROVE InArea(RecordAt(j))
    <3>1. j \in Records /\ 0 \in 0 .. Width - 1
      BY ListShape, HeapShape
    <3>2. InArea(RecordAt(j) + 0) /\ RecordAt(j) \in Nat
      BY <3>1, PeekWord
    <3>3. RecordAt(j) + 0 = RecordAt(j)
      BY <3>2
    <3> QED
      BY <3>2, <3>3
  <2> QED
    BY <1>1, <1>12, <1>13, <2>1, <2>2, <2>3, NextOfAddress
<1>16. CASE Layout[o + 1] \in Fields
  <2>1. Word(SoMain, o) = LibraryOf[SoMain][Layout[o + 1]]
    BY <1>1, <1>11, <1>16, WordShape
  <2>2. Layout[o + 1] \in {"base", "bias"}
    BY <1>8, <1>12, <1>13, <1>16, <2>1
  <2>3. b <= o + 1
    <3>1. o + 1 \in 1 .. Width
      BY <1>1, <1>11
    <3> QED
      BY <1>4, <2>2, <3>1
  <2> QED
    BY <1>3, <1>11, <2>3
<1>17. Layout[o + 1] \in Fields \cup {"next", "free"}
  BY <1>1, <1>11, WordShape
<1> QED
  BY <1>14, <1>15, <1>16, <1>17

(* And every other field. *)
LEMMA FieldsFound ==
    ASSUME ScanTypes, ListInOrder, ~Coincidence, NEW f \in Fields \ {"base"}
    PROVE  IsField(Learned[f], f)
<1>1. SoMain \in Records /\ Width \in Nat /\ ScanWords \in Nat \ {0} /\ Width <= ScanWords /\ DOMAIN Layout = 1 .. Width
  BY HeapShape
<1>2. ElfFound = SoMain
  <2>1. ElfsAt(WordsOf(SoMain)[BaseOffset]) = {SoMain}
    BY BaseFound
  <2> QED
    BY <2>1 DEF ElfFound
<1>3. \A g, h \in Fields : LibraryOf[SoMain][g] = LibraryOf[SoMain][h] => g = h \/ {g, h} = {"base", "bias"}
  BY SoInfoAssumption, Zenon
<1>4. ASSUME NEW i \in PlacesOf(f) PROVE IsField(i, f)
  <2>1. i \in 0 .. ScanWords - 1 /\ WordsOf(SoMain)[i] = LibraryOf[SoMain][f] /\ (f = "bias" => i # BaseOffset)
    <3>1. CASE f = "phdr"
      BY <1>2, <1>4, <3>1 DEF PlacesOf
    <3>2. CASE f # "phdr"
      <4>1. i \in 0 .. ScanWords - 1 /\ Meaning(i, ElfFound) = f
        BY <1>4, <3>2 DEF PlacesOf
      <4>2. f # "none"
        BY DEF Fields
      <4> QED
        BY <1>2, <4>1, <4>2, MeaningShape
    <3> QED
      BY <3>1, <3>2
  <2>2. i \in 0 .. Width - 1 /\ Layout[i + 1] \in Fields /\ LibraryOf[SoMain][Layout[i + 1]] = LibraryOf[SoMain][f]
    BY <2>1, FieldWords
  <2>3. Layout[i + 1] = f \/ {Layout[i + 1], f} = {"base", "bias"}
    BY <1>3, <2>2
  <2>4. CASE Layout[i + 1] # f
    <3>1. Layout[i + 1] = "base" /\ f = "bias"
      BY <2>3, <2>4
    <3> QED
      BY <2>1, <2>2, <3>1, BaseFound
  <2> QED
    BY <2>2, <2>4 DEF IsField
<1>5. PlacesOf(f) # {}
  <2>1. PICK p \in 1 .. Width : Layout[p] = f
    <3>1. f \in ToSet(Layout)
      BY SoInfoAssumption
    <3> QED
      BY <1>1, <3>1 DEF ToSet
  <2>2. p - 1 \in 0 .. Width - 1 /\ p - 1 \in 0 .. ScanWords - 1 /\ (p - 1) + 1 = p
    BY <1>1
  <2>3. WordsOf(SoMain)[p - 1] = LibraryOf[SoMain][f]
    BY <2>1, <2>2, FieldWords
  <2>4. CASE f = "phdr"
    BY <1>2, <2>2, <2>3, <2>4 DEF PlacesOf
  <2>5. CASE f # "phdr"
    <3>1. p - 1 # BaseOffset
      BY <2>1, <2>2, BaseFound DEF IsField
    <3>2. ASSUME NEW g \in Fields \ {"base", "phdr"}, WordsOf(SoMain)[p - 1] = LibraryOf[SoMain][g] PROVE g = f
      <4>1. g = f \/ {g, f} = {"base", "bias"}
        BY <1>3, <2>3, <3>2
      <4> QED
        BY <4>1
    <3>3. Meaning(p - 1, SoMain) = f
      <4>1. f \in Fields \ {"base", "phdr"}
        BY <2>5
      <4>2. \A g \in Fields \ {"base", "phdr"} : WordsOf(SoMain)[p - 1] = LibraryOf[SoMain][g] => g = f
        BY <3>2, Zenon
      <4> QED
        BY <2>3, <3>1, <4>1, <4>2, MeaningFound, Zenon
    <3> QED
      BY <1>2, <2>2, <2>5, <3>3 DEF PlacesOf
  <2> QED
    BY <2>4, <2>5
<1>6. Learned[f] = LastOffset(PlacesOf(f)) /\ PlacesOf(f) \subseteq 0 .. ScanWords - 1
  BY LearnedShape
<1>7. LastOffset(PlacesOf(f)) \in PlacesOf(f)
  BY <1>5, <1>6, LastOffsetShape
<1> QED
  BY <1>4, <1>6, <1>7

-----------------------------------------------------------------------------
(* Each step keeps the invariant: the search for the fields. *)
LEMMA LearnInv == ASSUME SoInfoIInv, init PROVE SoInfoIInv'
<1>1. ScanTypes /\ ListInOrder
  BY DEF SoInfoIInv
<1>2. /\ offsets = NotLearned /\ BaseOffset # 0 /\ Usable(Learned) /\ NextOffset(Learned) # 0
      /\ offsets' = [Learned EXCEPT !.next = NextOffset(Learned)]
      /\ solist' = solist /\ free' = free /\ listing' = listing /\ loads' = loads
  BY DEF init
<1> SUFFICES ASSUME NEW l, l = Learned, NEW n, n = NextOffset(Learned) PROVE SoInfoIInv'
  OBVIOUS
<1>3. IsField(n, "next")
  BY <1>1, <1>2, NextFound
<1>4. n \in 0 .. ScanWords - 1
  BY <1>3, HeapShape DEF IsField
<1>5. l \in [Fields \cup {"next"} -> 0 .. ScanWords - 1] /\ l.base = BaseOffset
  BY LearnedShape
<1>6. offsets' = [l EXCEPT !["next"] = n] /\ "next" \notin Fields
  BY <1>2 DEF Fields
<1>7. offsets' \in [Fields \cup {"next"} -> 0 .. ScanWords - 1] /\ offsets'["next"] = n /\ \A f \in Fields : offsets'[f] = l[f]
  BY <1>4, <1>5, <1>6
<1>8. ScanTypes' /\ ListInOrder'
  BY <1>1, <1>2, <1>7 DEF ScanTypes, ListInOrder
<1>9. listing.at = "idle"
  <2>1. "next" \in Fields \cup {"next"}
    OBVIOUS
  <2>2. offsets.next = 0
    BY <1>2, <2>1 DEF NotLearned
  <2> QED
    BY <2>2 DEF SoInfoIInv
<1>10. OffsetsRight'
  <2>1. Coincidence' = Coincidence
    BY <1>2 DEF Coincidence
  <2>2. ASSUME ~Coincidence, NEW f \in Fields PROVE IsField(l[f], f)
    <3>1. CASE f = "base"
      BY <1>1, <1>5, <2>2, <3>1, BaseFound
    <3>2. CASE f # "base"
      BY <1>1, <2>2, <3>2, FieldsFound
    <3> QED
      BY <3>1, <3>2
  <2>3. ASSUME NEW o, IsField(o, "strsz") PROVE o # 0
    <3>1. Layout[0 + 1] # "strsz"
      BY SoInfoAssumption
    <3> QED
      BY <2>3, <3>1 DEF IsField
  <2>4. "strsz" \in Fields
    BY DEF Fields
  <2>5. ASSUME ~Coincidence, NEW f \in Fields PROVE IsField(offsets'[f], f)
    BY <1>7, <2>2, <2>5
  <2>6. ~Coincidence => offsets'["strsz"] # 0
    BY <2>3, <2>4, <2>5
  <2>7. IsField(offsets'["next"], "next")
    BY <1>3, <1>7
  <2> QED
    BY <2>1, <2>5, <2>6, <2>7 DEF OffsetsRight, IsField
<1>11. WalkedSoFar' /\ (listing.at = "idle" => listing.out = <<>>)' /\ (listing.at # "idle" => offsets.next # 0)'
  BY <1>2, <1>9 DEF SoInfoIInv, WalkedSoFar
<1> QED
  BY <1>8, <1>10, <1>11 DEF SoInfoIInv

(* What is unchanged of the records and what was learned of them. *)
LEMMA LearnedStays ==
    ASSUME OffsetsRight, offsets' = offsets, free' = free
    PROVE  OffsetsRight' /\ Coincidence' = Coincidence
<1>1. Coincidence' = Coincidence
  BY DEF Coincidence
<1>2. ASSUME NEW o, NEW f PROVE IsField(o, f)' = IsField(o, f)
  BY DEF IsField
<1> QED
  BY <1>1, <1>2 DEF OffsetsRight, IsField

(* The walk begins at the first record. *)
LEMMA StartListInv == ASSUME SoInfoIInv, StartWalkList PROVE SoInfoIInv'
<1>1. /\ ScanTypes /\ ListInOrder /\ offsets.next # 0 /\ UNCHANGED <<solist, free, offsets, loads>>
      /\ listing' = [NoListing EXCEPT !.at = "walk", !.si = RecordAt(solist[1]), !.readable = ToSet(solist), !.begun = solist]
  BY DEF SoInfoIInv, StartWalkList
<1>2. listing' = [at |-> "walk", si |-> RecordAt(solist[1]), readable |-> ToSet(solist), out |-> <<>>, begun |-> solist,
                  lost |-> FALSE]
  BY <1>1 DEF NoListing
<1>3. RecordAt(solist[1]) \in Nat /\ ToSet(solist) \in SUBSET Records /\ solist \in Seq(Records) /\ Len(solist) \in Nat
      /\ Len(solist) >= 2
  <2>1. solist[1] \in Records /\ 0 \in 0 .. Width - 1
    BY <1>1, HeapShape DEF ListInOrder
  <2> QED
    BY <1>1, <2>1, PeekWord, ListShape DEF ScanTypes
<1>4. <<>> \in Seq(Infos) /\ Len(<<>>) = 0
  BY EmptySeq
<1>5. listing' \in Listings
  BY <1>2, <1>3, <1>4 DEF Listings
<1>6. ScanTypes' /\ ListInOrder'
  BY <1>1, <1>5 DEF ScanTypes, ListInOrder
<1>7. OffsetsRight'
  BY <1>1, LearnedStays DEF SoInfoIInv
<1>8. WalkedSoFar'
  <2>1. /\ listing'.at = "walk" /\ listing'.si = RecordAt(solist[1]) /\ listing'.readable = ToSet(solist)
        /\ listing'.out = <<>> /\ listing'.begun = solist /\ Len(listing'.out) = 0 /\ solist' = solist
    <3>1. listing'.at = "walk" /\ listing'.si = RecordAt(solist[1]) /\ listing'.readable = ToSet(solist)
      BY <1>2
    <3>2. listing'.out = <<>> /\ listing'.begun = solist
      BY <1>2
    <3> QED
      BY <1>1, <1>4, <3>1, <3>2
  <2>2. Len(listing'.out) < Len(listing'.begun) /\ Len(listing'.begun) \in Nat /\ Len(listing'.out) + 1 = 1
    BY <1>3, <2>1
  <2>3. 1 .. Len(listing'.out) = {}
    BY <2>1
  <2> QED
    BY <1>3, <2>1, <2>2, <2>3 DEF WalkedSoFar, RecordAt
<1> QED
  BY <1>1, <1>2, <1>6, <1>7, <1>8 DEF SoInfoIInv

(* A record that is read is told from the linker's words. *)
LEMMA InfoOfRecord ==
    ASSUME SoInfoIInv, offsets.next # 0, NEW k \in ToSet(solist)
    PROVE  /\ ~Coincidence => infoFromSoInfo_(RecordAt(k)) = LibraryOf[k]
           /\ Peek(RecordAt(k) + offsets.next) = NextOf(k)
<1>1. ScanTypes /\ ListInOrder /\ k \in Records /\ OffsetsRight
  BY ListShape DEF SoInfoIInv
<1>2. Peek(RecordAt(k) + offsets.next) = NextOf(k)
  <2>1. offsets.next \in 0 .. Width - 1 /\ Layout[offsets.next + 1] = "next"
    BY <1>1 DEF OffsetsRight, IsField
  <2> QED
    BY <1>1, <2>1, PeekWord, WordShape
<1>3. ASSUME ~Coincidence PROVE infoFromSoInfo_(RecordAt(k)) = LibraryOf[k]
  <2>1. ASSUME NEW f \in Fields PROVE Peek(RecordAt(k) + offsets[f]) = LibraryOf[k][f]
    <3>1. offsets[f] \in 0 .. Width - 1 /\ Layout[offsets[f] + 1] = f
      BY <1>1, <1>3 DEF OffsetsRight, IsField
    <3> QED
      BY <1>1, <3>1, PeekWord, WordShape
  <2>2. offsets.strsz # 0
    BY <1>1, <1>3 DEF OffsetsRight
  <2>3. LibraryOf[k] \in [Fields -> Nat \ {0}]
    BY <1>1, SoInfoAssumption
  <2>4. infoFromSoInfo_(RecordAt(k)) = [f \in Fields |-> LibraryOf[k][f]]
    BY <2>1, <2>2 DEF infoFromSoInfo_
  <2> QED
    BY <2>3, <2>4
<1> QED
  BY <1>2, <1>3

(* The walk goes on as long as a record of the list it began with is left. *)
LEMMA GoesOn ==
    ASSUME SoInfoIInv, listing.at = "walk", ~listing.lost
    PROVE  Goes <=> Len(listing.out) < Len(listing.begun)
<1>1. ScanTypes /\ ListInOrder /\ WalkedSoFar
  BY DEF SoInfoIInv
<1> DEFINE n == Len(listing.out)   m == Len(listing.begun)
<1>2. listing.out \in Seq(Infos) /\ listing.begun \in Seq(Records) /\ listing.readable \in SUBSET Records
  BY <1>1 DEF ScanTypes, Listings
<1>3. n \in Nat /\ m \in Nat /\ DOMAIN listing.begun = 1 .. m /\ \A i \in 1 .. m : listing.begun[i] \in Records
  BY <1>2, LenProperties, ElementOfSeq
<1>4. /\ listing.readable = ToSet(listing.begun)
      /\ IF n < m THEN listing.si = RecordAt(listing.begun[n + 1])
         ELSE listing.si = 0 \/ \E k \in Records \ listing.readable : listing.si = RecordAt(k)
  BY <1>1 DEF WalkedSoFar
<1>5. \A j, k \in Records : RecordAt(j) \in RecordAt(k) .. RecordAt(k) + Width - 1 <=> j = k
  BY RecordOwn
<1>6. CASE n < m
  <2>1. n + 1 \in 1 .. m /\ listing.begun[n + 1] \in Records /\ listing.begun[n + 1] \in listing.readable
    BY <1>3, <1>4, <1>6 DEF ToSet
  <2>2. RecordAt(listing.begun[n + 1]) # 0
    <3>1. 0 \in 0 .. Width - 1
      BY HeapShape
    <3> QED
      BY <2>1, <3>1, PeekWord
  <2> QED
    BY <1>4, <1>5, <1>6, <2>1, <2>2 DEF Goes
<1>7. CASE ~(n < m)
  BY <1>2, <1>4, <1>5, <1>7 DEF Goes
<1> QED
  BY <1>6, <1>7

(* A step of the walk. *)
LEMMA VisitRecordInv == ASSUME SoInfoIInv, VisitRecord PROVE SoInfoIInv'
<1>1. ScanTypes /\ ListInOrder /\ OffsetsRight /\ WalkedSoFar /\ listing.at = "walk" /\ offsets.next # 0
      /\ solist' = solist /\ free' = free /\ offsets' = offsets /\ loads' = loads
  BY DEF SoInfoIInv, VisitRecord
<1>2. listing \in Listings /\ listing.out \in Seq(Infos) /\ listing.begun \in Seq(Records) /\ listing.si \in Nat
  BY <1>1 DEF ScanTypes, Listings
<1>3. OffsetsRight' /\ Coincidence' = Coincidence /\ ListInOrder'
  BY <1>1, LearnedStays DEF ListInOrder
<1> DEFINE info == infoFromSoInfo_(listing.si)
           next == Peek(listing.si + offsets.next)
           rec  == [ptr |-> listing.si, info |-> info]
<1>4. CASE Goes
  <2>1. listing' = [listing EXCEPT !.out = Append(@, rec), !.si = next]
    BY <1>4 DEF VisitRecord
  <2>2. info \in [Fields -> Nat] /\ next \in Nat
    <3>1. \A o \in Nat : Peek(listing.si + o) \in Nat
      <4> SUFFICES ASSUME NEW o \in Nat PROVE Peek(listing.si + o) \in Nat
        OBVIOUS
      <4>1. listing.si + o \in Nat
        BY <1>2
      <4> QED
        BY <1>1, <4>1, PeekNat
    <3>2. \A f \in Fields \cup {"next"} : offsets[f] \in Nat
      BY <1>1 DEF ScanTypes
    <3>3. info = [f \in Fields |-> IF f = "strsz" /\ offsets.strsz = 0 THEN 0 ELSE Peek(listing.si + offsets[f])]
      BY DEF infoFromSoInfo_
    <3> QED
      BY <3>1, <3>2, <3>3
  <2> HIDE DEF info, next
  <2>3. rec \in Infos
    BY <1>2, <2>2 DEF Infos
  <2> HIDE DEF rec
  <2>4. Append(listing.out, rec) \in Seq(Infos)
    BY <1>2, <2>3, AppendProperties
  <2>5. /\ listing'.at = "walk" /\ listing'.si = next /\ listing'.out = Append(listing.out, rec) /\ listing'.begun = listing.begun
        /\ listing'.readable = listing.readable /\ listing'.lost = listing.lost /\ listing' \in Listings
    BY <1>1, <1>2, <2>1, <2>2, <2>4 DEF Listings
  <2>6. ScanTypes'
    BY <1>1, <2>5 DEF ScanTypes
  <2>7. ASSUME ~listing.lost PROVE WalkedSoFar'
    <3> DEFINE n == Len(listing.out)   m == Len(listing.begun)   L == Len(solist)
    <3>1. n < m
      BY <1>1, <1>4, <2>7, GoesOn
    <3>2. n \in Nat /\ m \in Nat /\ L \in Nat /\ m <= L /\ DOMAIN listing.begun = 1 .. m
      BY <1>1, <1>2, <2>7, LenProperties, ListShape DEF WalkedSoFar
    <3>3. \A i \in 1 .. m : listing.begun[i] = solist[i]
      BY <1>1, <2>7 DEF WalkedSoFar
    <3>4. listing.si = RecordAt(listing.begun[n + 1])
      BY <1>1, <2>7, <3>1 DEF WalkedSoFar
    <3>5. n + 1 \in 1 .. m /\ n + 1 \in 1 .. L /\ listing.begun[n + 1] = solist[n + 1] /\ solist[n + 1] \in ToSet(solist)
      <4>1. n + 1 \in 1 .. m /\ n + 1 \in 1 .. L
        BY <3>1, <3>2
      <4> QED
        BY <1>1, <3>3, <4>1, ListShape
    <3>6. ~Coincidence => info = LibraryOf[listing.begun[n + 1]]
      BY <1>1, <3>4, <3>5, InfoOfRecord DEF info
    <3>7. next = NextOf(solist[n + 1])
      BY <1>1, <3>4, <3>5, InfoOfRecord DEF next
    <3>8. next = IF n + 1 = L THEN 0 ELSE RecordAt(solist[(n + 1) + 1])
      BY <1>1, <3>5, <3>7, NextOfShape
    <3>9. Len(listing'.out) = n + 1 /\ listing'.out[n + 1] = rec /\ \A i \in 1 .. n : listing'.out[i] = listing.out[i]
      BY <1>2, <2>3, <2>5, AppendProperties
    <3>10. ASSUME NEW i \in 1 .. n + 1
           PROVE  /\ listing'.out[i].ptr = RecordAt(listing.begun[i])
                  /\ ~Coincidence => listing'.out[i].info = LibraryOf[listing.begun[i]]
      <4>1. CASE i \in 1 .. n
        BY <1>1, <2>7, <3>9, <4>1 DEF WalkedSoFar
      <4>2. CASE i = n + 1
        BY <3>4, <3>6, <3>9, <4>2 DEF rec
      <4> QED
        BY <3>2, <4>1, <4>2
    <3>11. CASE n + 1 < m
      <4>1. next = RecordAt(listing.begun[(n + 1) + 1])
        <5>1. n + 1 # L /\ (n + 1) + 1 \in 1 .. m
          BY <3>2, <3>11
        <5> QED
          BY <3>3, <3>8, <5>1
      <4> QED
        BY <1>1, <1>3, <2>5, <2>7, <3>2, <3>3, <3>9, <3>10, <3>11, <4>1 DEF WalkedSoFar, RecordAt
    <3>12. CASE n + 1 = m
      <4>1. next = 0 \/ \E k \in Records \ listing.readable : next = RecordAt(k)
        <5>1. CASE n + 1 = L
          BY <3>8, <5>1
        <5>2. CASE n + 1 # L
          <6>1. (n + 1) + 1 \in 1 .. L /\ \A i \in 1 .. m : i \in 1 .. L /\ i # (n + 1) + 1
            BY <3>2, <3>5, <3>12, <5>2
          <6>2. solist[(n + 1) + 1] \in Records
            BY <1>1, <6>1, ListShape
          <6>3. \A i \in 1 .. m : listing.begun[i] # solist[(n + 1) + 1]
            BY <1>1, <3>3, <6>1 DEF ListInOrder
          <6>4. solist[(n + 1) + 1] \notin listing.readable
            BY <1>1, <2>7, <3>2, <6>3 DEF WalkedSoFar, ToSet
          <6> QED
            BY <3>8, <5>2, <6>2, <6>4
        <5> QED
          BY <5>1, <5>2
      <4> QED
        BY <1>1, <1>3, <2>5, <2>7, <3>2, <3>3, <3>9, <3>10, <3>12, <4>1 DEF WalkedSoFar, RecordAt
    <3> QED
      BY <3>1, <3>2, <3>11, <3>12
  <2>8. ASSUME listing.lost PROVE WalkedSoFar'
    <3>1. (listing.lost)'
      BY <2>5, <2>8
    <3> QED
      BY <3>1, Zenon DEF WalkedSoFar
  <2> QED
    BY <1>1, <1>3, <2>5, <2>6, <2>7, <2>8 DEF SoInfoIInv
<1>5. CASE ~Goes
  <2>1. listing' = [listing EXCEPT !.at = "done"]
    BY <1>5 DEF VisitRecord
  <2>2. /\ listing'.at = "done" /\ listing'.si = listing.si /\ listing'.out = listing.out /\ listing'.begun = listing.begun
        /\ listing'.readable = listing.readable /\ listing'.lost = listing.lost /\ listing' \in Listings
    BY <1>2, <2>1 DEF Listings
  <2>3. ScanTypes'
    BY <1>1, <2>2 DEF ScanTypes
  <2>4. ASSUME ~listing.lost PROVE WalkedSoFar'
    <3>1. ~(Len(listing.out) < Len(listing.begun)) /\ Len(listing.out) <= Len(listing.begun)
      BY <1>1, <1>5, <2>4, GoesOn DEF WalkedSoFar
    <3>2. Len(listing.out) = Len(listing.begun)
      BY <1>2, <3>1, LenProperties
    <3> QED
      BY <1>1, <1>3, <2>2, <2>4, <3>2 DEF WalkedSoFar, RecordAt
  <2>5. ASSUME listing.lost PROVE WalkedSoFar'
    <3>1. (listing.lost)'
      BY <2>2, <2>5
    <3> QED
      BY <3>1, Zenon DEF WalkedSoFar
  <2> QED
    BY <1>1, <1>3, <2>2, <2>3, <2>4, <2>5 DEF SoInfoIInv
<1> QED
  BY <1>4, <1>5

(* The linker adds a record at the end of its list. *)
LEMMA LinkInv == ASSUME SoInfoIInv, NEW k \in Records, LinkRecord(k) PROVE SoInfoIInv'
<1>1. /\ ScanTypes /\ ListInOrder /\ WalkedSoFar /\ k \notin ToSet(solist) /\ solist' = Append(solist, k)
      /\ loads' = loads + 1 /\ free' = free /\ offsets' = offsets /\ listing' = listing
  BY DEF SoInfoIInv, LinkRecord
<1> DEFINE L == Len(solist)
<1>2. solist \in Seq(Records) /\ L \in Nat /\ L >= 2 /\ \A i \in 1 .. L : solist[i] # k /\ solist[i] \in Records
  BY <1>1, ListShape DEF ScanTypes
<1>3. /\ solist' \in Seq(Records) /\ Len(solist') = L + 1 /\ solist'[L + 1] = k
      /\ \A i \in 1 .. L : solist'[i] = solist[i]
  BY <1>1, <1>2, AppendProperties
<1>4. ScanTypes'
  BY <1>1, <1>3 DEF ScanTypes
<1>5. ListInOrder'
  <2>1. Len(solist') >= 2 /\ solist'[1] = 1 /\ solist'[2] = SoMain
    BY <1>1, <1>2, <1>3 DEF ListInOrder
  <2>2. ASSUME NEW i \in 1 .. L + 1, NEW j \in 1 .. L + 1, solist'[i] = solist'[j] PROVE i = j
    <3>1. (i \in 1 .. L \/ i = L + 1) /\ (j \in 1 .. L \/ j = L + 1)
      BY <1>2
    <3> QED
      BY <1>1, <1>2, <1>3, <2>2, <3>1 DEF ListInOrder
  <2> QED
    BY <1>3, <2>1, <2>2 DEF ListInOrder
<1>6. OffsetsRight' /\ Coincidence' = Coincidence
  BY <1>1, LearnedStays DEF SoInfoIInv
<1>7. WalkedSoFar'
  <2> SUFFICES ASSUME listing.at # "idle", ~listing.lost PROVE WalkedSoFar'
    BY <1>1 DEF WalkedSoFar
  <2>1. listing.begun \in Seq(Records) /\ Len(listing.begun) \in Nat /\ Len(listing.begun) <= L
    BY <1>1, LenProperties DEF WalkedSoFar, ScanTypes, Listings
  <2>2. Len(listing.begun) <= Len(solist') /\ \A i \in 1 .. Len(listing.begun) : i \in 1 .. L
    BY <1>2, <1>3, <2>1
  <2>3. \A i \in 1 .. Len(listing.begun) : listing.begun[i] = solist'[i]
    BY <1>1, <1>3, <2>2 DEF WalkedSoFar
  <2> QED
    BY <1>1, <1>6, <2>2, <2>3 DEF WalkedSoFar, RecordAt
<1> QED
  BY <1>1, <1>4, <1>5, <1>6, <1>7 DEF SoInfoIInv

(* A sequence of which one member is left out. *)
LEMMA RemovedShape ==
    ASSUME NEW S, NEW s \in Seq(S), NEW n \in 1 .. Len(s)
    PROVE  /\ RemoveAt(s, n) \in Seq(S) /\ Len(RemoveAt(s, n)) = Len(s) - 1
           /\ \A i \in 1 .. Len(s) - 1 : RemoveAt(s, n)[i] = IF i < n THEN s[i] ELSE s[i + 1]
<1>1. Len(s) \in Nat /\ \A i \in 1 .. Len(s) : s[i] \in S
  BY LenProperties, ElementOfSeq
<1> DEFINE a == SubSeq(s, 1, n - 1)   b == SubSeq(s, n + 1, Len(s))   l == Len(s)
<1>2. n - 1 \in Int /\ n + 1 \in Int /\ l \in Int /\ (\A i \in 1 .. n - 1 : s[i] \in S) /\ (\A i \in n + 1 .. l : s[i] \in S)
  BY <1>1
<1>3. a \in Seq(S) /\ Len(a) = (IF 1 <= n - 1 THEN (n - 1) - 1 + 1 ELSE 0) /\ \A i \in 1 .. (n - 1) - 1 + 1 : a[i] = s[1 + i - 1]
  BY <1>2, SubSeqProperties
<1>4. b \in Seq(S) /\ Len(b) = (IF n + 1 <= l THEN l - (n + 1) + 1 ELSE 0) /\ \A i \in 1 .. l - (n + 1) + 1 : b[i] = s[(n + 1) + i - 1]
  BY <1>2, SubSeqProperties
<1>5. Len(a) = n - 1 /\ Len(b) = l - n /\ (\A i \in 1 .. n - 1 : a[i] = s[i]) /\ (\A i \in 1 .. l - n : b[i] = s[n + i])
  <2> HIDE DEF a, b, l
  <2>1. l \in Nat /\ n \in 1 .. l
    BY <1>1 DEF l
  <2>2. Len(a) = n - 1 /\ Len(b) = l - n
    BY <1>3, <1>4, <2>1
  <2>3. ASSUME NEW i \in 1 .. n - 1 PROVE a[i] = s[i]
    BY <1>3, <2>1
  <2>4. ASSUME NEW i \in 1 .. l - n PROVE b[i] = s[n + i]
    <3>1. (n + 1) + i - 1 = n + i /\ i \in 1 .. l - (n + 1) + 1
      BY <2>1
    <3> QED
      BY <1>4, <3>1
  <2> QED
    BY <2>2, <2>3, <2>4
<1>6. RemoveAt(s, n) = a \o b
  BY DEF RemoveAt
<1> HIDE DEF a, b
<1>7. /\ a \o b \in Seq(S) /\ Len(a \o b) = Len(a) + Len(b)
      /\ \A i \in 1 .. Len(a) + Len(b) : (a \o b)[i] = IF i <= Len(a) THEN a[i] ELSE b[i - Len(a)]
  BY <1>3, <1>4, ConcatProperties
<1>8. Len(a) + Len(b) = l - 1 /\ l \in Nat /\ n \in 1 .. l
  BY <1>1, <1>5
<1>9. ASSUME NEW i \in 1 .. l - 1 PROVE (a \o b)[i] = IF i < n THEN s[i] ELSE s[i + 1]
  <2>1. (a \o b)[i] = IF i <= n - 1 THEN a[i] ELSE b[i - (n - 1)]
    BY <1>5, <1>7, <1>8
  <2>2. CASE i < n
    BY <1>5, <1>8, <2>1, <2>2
  <2>3. CASE ~(i < n)
    <3>1. ~(i <= n - 1) /\ i - (n - 1) \in 1 .. l - n /\ n + (i - (n - 1)) = i + 1
      BY <1>8, <2>3
    <3>2. b[i - (n - 1)] = s[n + (i - (n - 1))]
      BY <1>5, <3>1
    <3> QED
      BY <2>1, <2>3, <3>1, <3>2
  <2> QED
    BY <2>2, <2>3
<1> QED
  BY <1>6, <1>7, <1>8, <1>9

(* The linker takes a record out: a walk in progress promises nothing more. *)
LEMMA UnlinkInv == ASSUME SoInfoIInv, NEW k \in Records, UnlinkRecord(k) PROVE SoInfoIInv'
<1>1. /\ ScanTypes /\ ListInOrder /\ k # 1 /\ k # SoMain /\ loads' = loads + 1 /\ free' = free /\ offsets' = offsets
      /\ listing' = [listing EXCEPT !.lost = TRUE]
  BY DEF SoInfoIInv, UnlinkRecord
<1> DEFINE L == Len(solist)
<1>2. solist \in Seq(Records) /\ L \in Nat /\ L >= 2 /\ DOMAIN solist = 1 .. L
  BY <1>1, ListShape DEF ScanTypes
<1>3. PICK n \in 1 .. L : solist[n] = k /\ solist' = RemoveAt(solist, n)
  BY <1>2 DEF UnlinkRecord
<1>4. n \in Nat /\ n > 2
  BY <1>1, <1>2, <1>3 DEF ListInOrder
<1>5. /\ solist' \in Seq(Records) /\ Len(solist') = L - 1
      /\ \A i \in 1 .. L - 1 : solist'[i] = IF i < n THEN solist[i] ELSE solist[i + 1]
  BY <1>2, <1>3, RemovedShape
<1>6. listing \in Listings /\ listing' \in Listings /\ listing'.lost /\ listing'.out = listing.out /\ listing'.at = listing.at
  BY <1>1 DEF ScanTypes, Listings
<1>7. ScanTypes'
  BY <1>1, <1>5, <1>6 DEF ScanTypes
<1>8. ListInOrder'
  <2>1. Len(solist') >= 2 /\ 1 \in 1 .. L - 1 /\ 2 \in 1 .. L - 1
    BY <1>2, <1>4, <1>5
  <2>2. solist'[1] = 1 /\ solist'[2] = SoMain
    BY <1>1, <1>4, <1>5, <2>1 DEF ListInOrder
  <2>3. ASSUME NEW i \in 1 .. L - 1, NEW j \in 1 .. L - 1, solist'[i] = solist'[j] PROVE i = j
    <3> DEFINE from(x) == IF x < n THEN x ELSE x + 1
    <3>1. \A x \in 1 .. L - 1 : from(x) \in 1 .. L /\ solist'[x] = solist[from(x)]
      BY <1>2, <1>4, <1>5
    <3>2. from(i) = from(j)
      <4> HIDE DEF from
      <4> QED
        BY <1>1, <2>3, <3>1 DEF ListInOrder
    <3> QED
      BY <1>2, <1>4, <3>2
  <2> QED
    BY <1>5, <2>1, <2>2, <2>3 DEF ListInOrder
<1>9. OffsetsRight'
  BY <1>1, LearnedStays DEF SoInfoIInv
<1>10. WalkedSoFar'
  <2>1. (listing.lost)'
    BY <1>6
  <2> QED
    BY <2>1, Zenon DEF WalkedSoFar
<1> QED
  BY <1>1, <1>6, <1>7, <1>8, <1>9, <1>10 DEF SoInfoIInv

(* The state in which nothing was learned yet. *)
LEMMA SoInfoInitInv == ASSUME SoInfoInit PROVE SoInfoIInv
<1>1. solist = <<1, 2, 3>> /\ free \in [Records -> FreeValues] /\ offsets = NotLearned /\ listing = NoListing /\ loads = 0
  BY DEF SoInfoInit
<1>2. 1 \in Records /\ 2 \in Records /\ 3 \in Records /\ SoMain = 2 /\ 0 \in 0 .. ScanWords - 1
  BY HeapShape
<1>3. solist \in Seq(Records) /\ ListInOrder
  BY <1>1, <1>2 DEF ListInOrder
<1>4. offsets \in [Fields \cup {"next"} -> 0 .. ScanWords - 1] /\ offsets.next = 0
  BY <1>1, <1>2 DEF NotLearned
<1>5. <<>> \in Seq(Infos) /\ <<>> \in Seq(Records)
  BY EmptySeq
<1>6. listing \in Listings /\ listing.at = "idle" /\ listing.out = <<>>
  BY <1>1, <1>5 DEF NoListing, Listings
<1>7. ScanTypes
  BY <1>1, <1>3, <1>4, <1>6 DEF ScanTypes
<1>8. OffsetsRight /\ WalkedSoFar
  BY <1>4, <1>6 DEF OffsetsRight, WalkedSoFar
<1> QED
  BY <1>3, <1>6, <1>7, <1>8 DEF SoInfoIInv

(* A finished walk is forgotten. *)
LEMMA ForgetWalkInv == ASSUME SoInfoIInv, ForgetWalk PROVE SoInfoIInv'
<1>1. ScanTypes /\ ListInOrder /\ listing' = NoListing /\ solist' = solist /\ free' = free /\ offsets' = offsets /\ loads' = loads
  BY DEF SoInfoIInv, ForgetWalk
<1>2. <<>> \in Seq(Infos) /\ <<>> \in Seq(Records)
  BY EmptySeq
<1>3. listing' \in Listings /\ listing'.at = "idle" /\ listing'.out = <<>>
  BY <1>1, <1>2 DEF NoListing, Listings
<1>4. ScanTypes' /\ ListInOrder'
  BY <1>1, <1>3 DEF ScanTypes, ListInOrder
<1>5. OffsetsRight' /\ WalkedSoFar'
  BY <1>1, <1>3, LearnedStays DEF SoInfoIInv, WalkedSoFar
<1> QED
  BY <1>3, <1>4, <1>5 DEF SoInfoIInv

(* The invariant is more than what the records promise. *)
LEMMA RecordsGood == ASSUME SoInfoIInv PROVE RecordsInv
<1>1. ScanTypes /\ WalkedSoFar
  BY DEF SoInfoIInv
<1>2. listing.out \in Seq(Infos) /\ listing.begun \in Seq(Records)
  BY <1>1 DEF ScanTypes, Listings
<1>3. /\ Len(listing.out) \in Nat /\ DOMAIN listing.out = 1 .. Len(listing.out) /\ DOMAIN listing.begun = 1 .. Len(listing.begun)
      /\ Len(listing.begun) \in Nat
  BY <1>2, LenProperties
<1>4. InfoIsTrue
  <2> SUFFICES ASSUME listing.out # <<>>, ~listing.lost, ~Coincidence, NEW i \in DOMAIN listing.out
               PROVE  \E k \in Records : listing.out[i] = [ptr |-> RecordAt(k), info |-> LibraryOf[k]]
    BY DEF InfoIsTrue
  <2>1. listing.at # "idle"
    BY DEF SoInfoIInv
  <2>2. i \in 1 .. Len(listing.out) /\ i \in 1 .. Len(listing.begun)
    BY <1>1, <1>3, <2>1 DEF WalkedSoFar
  <2>3. listing.out[i] \in Infos /\ listing.begun[i] \in Records
    BY <1>2, <2>2, ElementOfSeq
  <2>4. listing.out[i].ptr = RecordAt(listing.begun[i]) /\ listing.out[i].info = LibraryOf[listing.begun[i]]
    BY <1>1, <2>1, <2>2 DEF WalkedSoFar
  <2>5. listing.out[i] = [ptr |-> RecordAt(listing.begun[i]), info |-> LibraryOf[listing.begun[i]]]
    BY <2>3, <2>4 DEF Infos
  <2> QED
    BY <2>3, <2>5
<1>5. WalkIsWhole
  <2> SUFFICES ASSUME listing.at = "done", ~listing.lost
               PROVE  [i \in DOMAIN listing.out |-> listing.out[i].ptr] = [i \in DOMAIN listing.begun |-> RecordAt(listing.begun[i])]
    BY DEF WalkIsWhole
  <2>1. Len(listing.out) = Len(listing.begun) /\ \A i \in 1 .. Len(listing.out) : listing.out[i].ptr = RecordAt(listing.begun[i])
    BY <1>1 DEF WalkedSoFar
  <2> QED
    BY <1>3, <2>1
<1> QED
  BY <1>4, <1>5 DEF RecordsInv

(* What is read from the linker's list: each field of each record as the   *)
(* linker has it, and without an unload every record once, in order; for   *)
(* any layout, number of records and of words searched.                    *)
THEOREM RecordsCorrect == SoInfoSpec => []RecordsInv
<1>1. SoInfoInit => SoInfoIInv
  BY SoInfoInitInv
<1>2. SoInfoIInv /\ [SoInfoNext]_scanVars => SoInfoIInv'
  <2> SUFFICES ASSUME SoInfoIInv, [SoInfoNext]_scanVars PROVE SoInfoIInv'
    OBVIOUS
  <2>1. CASE init
    BY <2>1, LearnInv
  <2>2. CASE StartWalkList
    BY <2>2, StartListInv
  <2>3. CASE VisitRecord
    BY <2>3, VisitRecordInv
  <2>4. CASE ForgetWalk
    BY <2>4, ForgetWalkInv
  <2>5. CASE \E k \in Records : LinkRecord(k) \/ UnlinkRecord(k)
    BY <2>5, LinkInv, UnlinkInv
  <2>6. CASE UNCHANGED scanVars
    <3>1. solist' = solist /\ free' = free /\ offsets' = offsets /\ listing' = listing /\ loads' = loads
      BY <2>6 DEF scanVars
    <3>2. OffsetsRight' /\ Coincidence' = Coincidence
      BY <3>1, LearnedStays DEF SoInfoIInv
    <3> QED
      BY <3>1, <3>2 DEF SoInfoIInv, ScanTypes, ListInOrder, WalkedSoFar, RecordAt
  <2> QED
    BY <2>1, <2>2, <2>3, <2>4, <2>5, <2>6 DEF SoInfoNext
<1>3. SoInfoIInv => RecordsInv
  BY RecordsGood
<1> QED
  BY <1>1, <1>2, <1>3, PTL DEF SoInfoSpec

(* The maps of a library, one by one. *)
ZeroLen(lib)   == KT_PAGE_END(lib.memsz) - 6
FileOf(lib)    == IF lib.backed THEN "lib" ELSE "anon"
BeforeMap      == Map(ElfBase - 4, 4, {"r"}, "before", FALSE)
TextMap(lib)   == Map(ElfBase, 6, {"r", "x"}, FileOf(lib), FALSE)
GapMap         == Map(ElfBase + 6, 2, {}, "anon", FALSE)
DataMap(lib)   == Map(ElfBase + 8, 6, IF lib.dynReadable THEN {"r", "w"} ELSE {"w"}, FileOf(lib), FALSE)
ZeroMap(lib)   == Map(ElfBase + 14, ZeroLen(lib), {"r", "w"}, "anon", lib.named)
BehindMap(lib) == Map(ElfBase + 14 + ZeroLen(lib), 2, {"r"}, "behind", FALSE)

(* An even distance does not move the end of a page. *)
LEMMA PagesApart ==
    ASSUME NEW x \in Nat, NEW y \in Nat, y % PageLen = 0
    PROVE  KT_PAGE_END(x + y) = KT_PAGE_END(x) + y /\ KT_PAGE_START(y) = y /\ KT_PAGE_END(x) >= x /\ KT_PAGE_END(x) \in Nat
<1>1. PageLen = 2
  BY ImageAssumption
<1>2. \A n : KT_PAGE_END(n) = (n + 1) - ((n + 1) % 2)
  BY <1>1 DEF KT_PAGE_END, KT_PAGE_START
<1>3. y % 2 = 0
  BY <1>1
<1>4. (x + y + 1) - ((x + y + 1) % 2) = (x + 1) - ((x + 1) % 2) + y
  BY <1>3
<1>5. (x + 1) - ((x + 1) % 2) >= x /\ (x + 1) - ((x + 1) % 2) \in Nat
  OBVIOUS
<1> QED
  BY <1>1, <1>2, <1>3, <1>4, <1>5 DEF KT_PAGE_START

(* Where the segments of a library end. *)
LEMMA LibraryEnds ==
    ASSUME NEW lib \in Libraries
    PROVE  /\ lib.min \in Nat /\ (lib.min = ElfBase \/ 2 * lib.min + 5 < ElfBase) /\ lib.memsz \in Nat /\ lib.memsz >= 6
           /\ ZeroLen(lib) \in Nat /\ KT_PAGE_END(8 + lib.memsz) = 14 + ZeroLen(lib)
           /\ KT_PAGE_END(lib.min + 8 + lib.memsz) = lib.min + 14 + ZeroLen(lib) /\ KT_PAGE_START(lib.min) = lib.min
<1>1. /\ lib.min \in Nat /\ lib.min % PageLen = 0 /\ (lib.min = ElfBase \/ 2 * lib.min + 5 < ElfBase)
      /\ lib.memsz \in Nat /\ lib.memsz >= 6
  BY ImageAssumption DEF Libraries, Layouts
<1>2. 8 \in Nat /\ 8 % PageLen = 0 /\ lib.min + 8 \in Nat /\ (lib.min + 8) % PageLen = 0
  <2>1. PageLen = 2
    BY ImageAssumption
  <2> QED
    BY <1>1, <2>1
<1>3. /\ KT_PAGE_END(lib.memsz + 8) = KT_PAGE_END(lib.memsz) + 8 /\ KT_PAGE_END(lib.memsz) >= lib.memsz
      /\ KT_PAGE_END(lib.memsz) \in Nat
  BY <1>1, <1>2, PagesApart
<1>4. KT_PAGE_END(lib.memsz + (lib.min + 8)) = KT_PAGE_END(lib.memsz) + (lib.min + 8)
  BY <1>1, <1>2, PagesApart
<1>5. KT_PAGE_START(lib.min) = lib.min
  BY <1>1, PagesApart
<1>6. lib.memsz + 8 = 8 + lib.memsz /\ lib.memsz + (lib.min + 8) = lib.min + 8 + lib.memsz
  BY <1>1
<1>7. KT_PAGE_END(8 + lib.memsz) = KT_PAGE_END(lib.memsz) + 8
  BY <1>3, <1>6
<1>8. KT_PAGE_END(lib.min + 8 + lib.memsz) = KT_PAGE_END(lib.memsz) + (lib.min + 8)
  BY <1>4, <1>6
<1> QED
  BY <1>1, <1>3, <1>5, <1>7, <1>8 DEF ZeroLen

(* List t is list s with one more element behind. *)
Extends(t, s, x, S) ==
    /\ t \in Seq(S) /\ Len(t) = Len(s) + 1 /\ t[Len(s) + 1] = x /\ \A i \in 1 .. Len(s) : t[i] = s[i]

(* That is what concatenation makes. *)
LEMMA OneBehind == ASSUME NEW S, NEW s \in Seq(S), NEW x \in S PROVE Extends(s \o <<x>>, s, x, S)
<1>1. s \o <<x>> = Append(s, x)
  BY AppendIsConcat
<1> QED
  BY <1>1, AppendProperties DEF Extends

(* A list of four, with one or two behind them. *)
LEMMA FiveOrSix ==
    ASSUME NEW a, NEW b, NEW c, NEW d, NEW e, NEW z
    PROVE  /\ (<<a, b, c, d>> \o <<z>>) \o <<e>> = <<a, b, c, d, z, e>>
           /\ (<<a, b, c, d>> \o <<>>) \o <<e>> = <<a, b, c, d, e>>
<1> DEFINE S == {a, b, c, d, e, z}
           p == <<a, b, c, d>>
           q == p \o <<z>>
           r == p \o <<e>>
           t == q \o <<e>>
<1>1. p \in Seq(S) /\ Len(p) = 4 /\ p[1] = a /\ p[2] = b /\ p[3] = c /\ p[4] = d /\ z \in S /\ e \in S
  OBVIOUS
<1>2. <<a, b, c, d, e>> \in Seq(S) /\ <<a, b, c, d, z, e>> \in Seq(S)
  OBVIOUS
<1>3. p \o <<>> = p
  BY <1>1, ConcatEmptySeq
<1> HIDE DEF p, S
<1>4. q \in Seq(S) /\ Len(q) = 5 /\ q[5] = z /\ \A i \in 1 .. 4 : q[i] = p[i]
  <2>1. Extends(q, p, z, S)
    BY <1>1, OneBehind
  <2> HIDE DEF q
  <2> QED
    BY <1>1, <2>1 DEF Extends
<1>5. r \in Seq(S) /\ Len(r) = 5 /\ r[5] = e /\ \A i \in 1 .. 4 : r[i] = p[i]
  <2>1. Extends(r, p, e, S)
    BY <1>1, OneBehind
  <2> HIDE DEF r
  <2> QED
    BY <1>1, <2>1 DEF Extends
<1> HIDE DEF q, r
<1>6. t \in Seq(S) /\ Len(t) = 6 /\ t[6] = e /\ \A i \in 1 .. 5 : t[i] = q[i]
  <2>1. Extends(t, q, e, S)
    BY <1>1, <1>4, OneBehind
  <2> HIDE DEF t
  <2> QED
    BY <1>1, <1>4, <2>1 DEF Extends
<1> HIDE DEF t
<1>7. r = <<a, b, c, d, e>>
  <2>1. ASSUME NEW i \in 1 .. 5 PROVE r[i] = <<a, b, c, d, e>>[i]
    BY <1>1, <1>5
  <2> QED
    BY <1>2, <1>5, <2>1, SeqEqual
<1>8. t = <<a, b, c, d, z, e>>
  <2>1. ASSUME NEW i \in 1 .. 6 PROVE t[i] = <<a, b, c, d, z, e>>[i]
    BY <1>1, <1>4, <1>6
  <2> QED
    BY <1>2, <1>6, <2>1, SeqEqual
<1> QED
  BY <1>3, <1>7, <1>8 DEF p, q, r, t

(* The maps of a library in order. *)
LEMMA MapsShape ==
    ASSUME NEW lib \in Libraries
    PROVE  MapsOf(lib) = IF ZeroLen(lib) > 0
                         THEN <<BeforeMap, TextMap(lib), GapMap, DataMap(lib), ZeroMap(lib), BehindMap(lib)>>
                         ELSE <<BeforeMap, TextMap(lib), GapMap, DataMap(lib), BehindMap(lib)>>
<1>1. MapsOf(lib) = (<<BeforeMap, TextMap(lib), GapMap, DataMap(lib)>>
                     \o (IF ZeroLen(lib) > 0 THEN <<ZeroMap(lib)>> ELSE <<>>)) \o <<BehindMap(lib)>>
  BY Zenon DEF MapsOf, BeforeMap, TextMap, GapMap, DataMap, ZeroMap, BehindMap, FileOf, ZeroLen
<1>2. CASE ZeroLen(lib) > 0
  BY <1>1, <1>2, FiveOrSix
<1>3. CASE ~(ZeroLen(lib) > 0)
  BY <1>1, <1>3, FiveOrSix
<1> QED
  BY <1>2, <1>3

(* Where the maps of a library lie. *)
LEMMA MapPlaces ==
    ASSUME NEW lib \in Libraries
    PROVE  /\ Len(MapsOf(lib)) = (IF ZeroLen(lib) > 0 THEN 6 ELSE 5)
           /\ MapsOf(lib)[1] = BeforeMap /\ MapsOf(lib)[2] = TextMap(lib) /\ MapsOf(lib)[3] = GapMap
           /\ MapsOf(lib)[4] = DataMap(lib)
           /\ IF ZeroLen(lib) > 0 THEN MapsOf(lib)[5] = ZeroMap(lib) /\ MapsOf(lib)[6] = BehindMap(lib)
                                  ELSE MapsOf(lib)[5] = BehindMap(lib)
<1>1. CASE ZeroLen(lib) > 0
  BY <1>1, MapsShape
<1>2. CASE ~(ZeroLen(lib) > 0)
  BY <1>2, MapsShape
<1> QED
  BY <1>1, <1>2

(* From where to where each of them reaches. *)
LEMMA MapBounds ==
    ASSUME NEW lib \in Libraries
    PROVE  /\ ElfBase \in Nat /\ ElfBase > 20 /\ ZeroLen(lib) \in Nat
           /\ BeforeMap.start = ElfBase - 4 /\ BeforeMap.end = ElfBase
           /\ TextMap(lib).start = ElfBase /\ TextMap(lib).end = ElfBase + 6
           /\ GapMap.start = ElfBase + 6 /\ GapMap.end = ElfBase + 8
           /\ DataMap(lib).start = ElfBase + 8 /\ DataMap(lib).end = ElfBase + 14
           /\ ZeroMap(lib).start = ElfBase + 14 /\ ZeroMap(lib).end = ElfBase + 14 + ZeroLen(lib)
           /\ BehindMap(lib).start = ElfBase + 14 + ZeroLen(lib) /\ BehindMap(lib).end = ElfBase + 16 + ZeroLen(lib)
<1>1. ElfBase \in Nat /\ ElfBase > 20 /\ ZeroLen(lib) \in Nat
  BY ImageAssumption, LibraryEnds
<1> QED
  BY <1>1 DEF Map, BeforeMap, TextMap, GapMap, DataMap, ZeroMap, BehindMap

(* A map covers a place. *)
Covers(m, a) == m.start <= a /\ a < m.end

(* The map that is found covers the place; none is found where none does.  *)
LEMMA MapFound ==
    ASSUME NEW lib \in Libraries, NEW a \in Int
    PROVE  \/ MapOf(lib, a) = NoMap /\ \A i \in 1 .. Len(MapsOf(lib)) : ~Covers(MapsOf(lib)[i], a)
           \/ \E k \in 1 .. Len(MapsOf(lib)) : MapOf(lib, a) = MapsOf(lib)[k] /\ Covers(MapsOf(lib)[k], a)
<1> DEFINE maps == MapsOf(lib)
           I == {i \in 1 .. Len(maps) : Covers(maps[i], a)}
<1>1. MapOf(lib, a) = IF (IF I # {} THEN Min(I) ELSE 0) = 0 THEN NoMap ELSE maps[IF I # {} THEN Min(I) ELSE 0]
  BY Zenon DEF MapOf, SelectInSeq, Covers
<1>2. CASE I = {}
  BY <1>1, <1>2, Zenon
<1>3. CASE I # {}
  <2>1. I \subseteq Nat
    OBVIOUS
  <2>2. Min(I) \in I
    BY <1>3, <2>1, LeastOf, Zenon
  <2>3. Min(I) # 0
    BY <2>1, <2>2
  <2>4. MapOf(lib, a) = maps[Min(I)]
    BY <1>1, <1>3, <2>3, Zenon
  <2> QED
    BY <2>2, <2>4, Zenon
<1> QED
  BY <1>2, <1>3

(* Which of its maps each one is. *)
LEMMA MapKinds ==
    ASSUME NEW lib \in Libraries, NEW i \in 1 .. Len(MapsOf(lib))
    PROVE  \/ i = 1 /\ MapsOf(lib)[i] = BeforeMap
           \/ i = 2 /\ MapsOf(lib)[i] = TextMap(lib)
           \/ i = 3 /\ MapsOf(lib)[i] = GapMap
           \/ i = 4 /\ MapsOf(lib)[i] = DataMap(lib)
           \/ i = 5 /\ ZeroLen(lib) > 0 /\ MapsOf(lib)[i] = ZeroMap(lib)
           \/ i = Len(MapsOf(lib)) /\ i = (IF ZeroLen(lib) > 0 THEN 6 ELSE 5) /\ MapsOf(lib)[i] = BehindMap(lib)
<1>1. CASE ZeroLen(lib) > 0
  <2>1. Len(MapsOf(lib)) = 6
    BY <1>1, MapPlaces
  <2>2. i \in {1, 2, 3, 4, 5, 6}
    BY <2>1
  <2> QED
    BY <1>1, <2>1, <2>2, MapPlaces
<1>2. CASE ~(ZeroLen(lib) > 0)
  <2>1. Len(MapsOf(lib)) = 5
    BY <1>2, MapPlaces
  <2>2. i \in {1, 2, 3, 4, 5}
    BY <2>1
  <2> QED
    BY <1>2, <2>1, <2>2, MapPlaces
<1> QED
  BY <1>1, <1>2

(* Where each one lies, by its kind. *)
Spans(i, m, lib, z) ==
    \/ i = 1 /\ m = BeforeMap /\ m.start = ElfBase - 4 /\ m.end = ElfBase
    \/ i = 2 /\ m = TextMap(lib) /\ m.start = ElfBase /\ m.end = ElfBase + 6
    \/ i = 3 /\ m = GapMap /\ m.start = ElfBase + 6 /\ m.end = ElfBase + 8
    \/ i = 4 /\ m = DataMap(lib) /\ m.start = ElfBase + 8 /\ m.end = ElfBase + 14
    \/ i = 5 /\ z > 0 /\ m = ZeroMap(lib) /\ m.start = ElfBase + 14 /\ m.end = ElfBase + 14 + z
    \/ i = (IF z > 0 THEN 6 ELSE 5) /\ m = BehindMap(lib) /\ m.start = ElfBase + 14 + z /\ m.end = ElfBase + 16 + z

(* That is where each one lies. *)
LEMMA MapSpans ==
    ASSUME NEW lib \in Libraries, NEW i \in 1 .. Len(MapsOf(lib))
    PROVE  Spans(i, MapsOf(lib)[i], lib, ZeroLen(lib)) /\ ElfBase \in Nat /\ ElfBase > 20 /\ ZeroLen(lib) \in Nat
<1> DEFINE m == MapsOf(lib)[i]
           z == ZeroLen(lib)
<1>1. ElfBase \in Nat /\ ElfBase > 20 /\ ZeroLen(lib) \in Nat
  BY MapBounds
<1>2. CASE i = 1 /\ m = BeforeMap
  BY <1>2, MapBounds DEF Spans
<1>3. CASE i = 2 /\ m = TextMap(lib)
  BY <1>3, MapBounds DEF Spans
<1>4. CASE i = 3 /\ m = GapMap
  BY <1>4, MapBounds DEF Spans
<1>5. CASE i = 4 /\ m = DataMap(lib)
  BY <1>5, MapBounds DEF Spans
<1>6. CASE i = 5 /\ z > 0 /\ m = ZeroMap(lib)
  BY <1>6, MapBounds DEF Spans
<1>7. CASE i = (IF z > 0 THEN 6 ELSE 5) /\ m = BehindMap(lib)
  BY <1>7, MapBounds DEF Spans
<1> QED
  BY <1>1, <1>2, <1>3, <1>4, <1>5, <1>6, <1>7, MapKinds

(* Its maps are among its maps. *)
LEMMA FirstMaps ==
    ASSUME NEW lib \in Libraries
    PROVE  \A i \in 1 .. 4 : i \in 1 .. Len(MapsOf(lib))
<1> DEFINE n == Len(MapsOf(lib))
<1>1. n = 5 \/ n = 6
  BY MapPlaces
<1> HIDE DEF n
<1>2. \A i \in 1 .. 4 : i \in 1 .. n
  BY <1>1
<1> QED
  BY <1>2 DEF n

(* What is mapped in the text and in the file's part of the data.          *)
LEMMA MapAtPlace ==
    ASSUME NEW lib \in Libraries, NEW a \in Int
    PROVE  /\ a \in ElfBase .. ElfBase + 5 => MapOf(lib, a) = TextMap(lib)
           /\ a \in ElfBase + 8 .. ElfBase + 13 => MapOf(lib, a) = DataMap(lib)
<1> DEFINE maps == MapsOf(lib)
<1>1. ASSUME a \in ElfBase .. ElfBase + 5 PROVE MapOf(lib, a) = TextMap(lib)
  <2>1. Covers(maps[2], a)
    BY <1>1, MapPlaces, MapBounds DEF Covers
  <2>2. PICK k \in 1 .. Len(maps) : MapOf(lib, a) = maps[k] /\ Covers(maps[k], a)
    <3>1. 2 \in 1 .. Len(maps)
      BY FirstMaps
    <3> QED
      BY <2>1, <3>1, MapFound, Zenon
  <2>3. maps[k].start <= a /\ a < maps[k].end
    BY <2>2, Zenon DEF Covers
  <2> DEFINE m == maps[k]
             z == ZeroLen(lib)
  <2>4. Spans(k, m, lib, z) /\ ElfBase \in Nat /\ ElfBase > 20 /\ z \in Nat
    BY MapSpans
  <2>5. m.start <= a /\ a < m.end
    BY <2>3
  <2> HIDE DEF m, z
  <2>6. m = TextMap(lib)
    BY <1>1, <2>4, <2>5 DEF Spans
  <2> QED
    BY <2>2, <2>6 DEF m
<1>2. ASSUME a \in ElfBase + 8 .. ElfBase + 13 PROVE MapOf(lib, a) = DataMap(lib)
  <2>1. Covers(maps[4], a)
    BY <1>2, MapPlaces, MapBounds DEF Covers
  <2>2. PICK k \in 1 .. Len(maps) : MapOf(lib, a) = maps[k] /\ Covers(maps[k], a)
    <3>1. 4 \in 1 .. Len(maps)
      BY FirstMaps
    <3> QED
      BY <2>1, <3>1, MapFound, Zenon
  <2>3. maps[k].start <= a /\ a < maps[k].end
    BY <2>2, Zenon DEF Covers
  <2> DEFINE m == maps[k]
             z == ZeroLen(lib)
  <2>4. Spans(k, m, lib, z) /\ ElfBase \in Nat /\ ElfBase > 20 /\ z \in Nat
    BY MapSpans
  <2>5. m.start <= a /\ a < m.end
    BY <2>3
  <2> HIDE DEF m, z
  <2>6. m = DataMap(lib)
    BY <1>2, <2>4, <2>5 DEF Spans
  <2> QED
    BY <2>2, <2>6 DEF m
<1> QED
  BY <1>1, <1>2

(* No map that lies in the image is found before it. *)
LEMMA NotBefore ==
    ASSUME NEW lib \in Libraries, NEW a \in Int, a < ElfBase, NEW size
    PROVE  ~MapInImage(MapOf(lib, a), ElfBase, size)
<1>1. CASE MapOf(lib, a) = NoMap
  BY <1>1 DEF MapInImage, NoMap, Map
<1>2. CASE \E k \in 1 .. Len(MapsOf(lib)) : MapOf(lib, a) = MapsOf(lib)[k] /\ Covers(MapsOf(lib)[k], a)
  <2>1. PICK k \in 1 .. Len(MapsOf(lib)) : MapOf(lib, a) = MapsOf(lib)[k] /\ MapsOf(lib)[k].start <= a
    BY <1>2, Zenon DEF Covers
  <2>2. MapsOf(lib)[k].start \in Int /\ ElfBase \in Int
    <3>1. Spans(k, MapsOf(lib)[k], lib, ZeroLen(lib)) /\ ElfBase \in Nat /\ ZeroLen(lib) \in Nat
      BY MapSpans
    <3> QED
      BY <3>1 DEF Spans
  <2>3. ~(MapsOf(lib)[k].start >= ElfBase)
    BY <2>1, <2>2
  <2> QED
    BY <2>1, <2>3, Zenon DEF MapInImage
<1> QED
  BY <1>1, <1>2, MapFound, Zenon

(* Those elements of a list that stand from one place to another. *)
LEMMA PickInterval ==
    ASSUME NEW list, NEW p \in Nat, NEW q \in Nat, p >= 1, p <= q + 1
    PROVE  Pick(list, p .. q) = [k \in 1 .. q - p + 1 |-> list[p + k - 1]]
<1>1. Cardinality(p .. q) = q - p + 1
  <2>1. Cardinality(p .. q) = IF p > q THEN 0 ELSE q - p + 1
    BY FS_Interval
  <2> QED
    BY <2>1
<1>2. ASSUME NEW k \in 1 .. q - p + 1
      PROVE  (CHOOSE i \in p .. q : Cardinality({j \in p .. q : j < i}) = k - 1) = p + k - 1
  <2>1. ASSUME NEW i \in p .. q PROVE Cardinality({j \in p .. q : j < i}) = i - p
    <3>1. {j \in p .. q : j < i} = p .. i - 1
      OBVIOUS
    <3>2. Cardinality(p .. i - 1) = IF p > i - 1 THEN 0 ELSE (i - 1) - p + 1
      BY FS_Interval
    <3>3. Cardinality({j \in p .. q : j < i}) = Cardinality(p .. i - 1)
      BY <3>1, Zenon
    <3>4. Cardinality(p .. i - 1) = i - p
      BY <3>2
    <3> QED
      BY <3>3, <3>4, Zenon
  <2>2. p + k - 1 \in p .. q /\ (p + k - 1) - p = k - 1
    OBVIOUS
  <2>3. \A i \in p .. q : Cardinality({j \in p .. q : j < i}) = k - 1 <=> i = p + k - 1
    BY <2>1, <2>2
  <2> QED
    BY <2>2, <2>3, Zenon
<1> DEFINE at(k) == CHOOSE i \in p .. q : Cardinality({j \in p .. q : j < i}) = k - 1
<1>3. Pick(list, p .. q) = [k \in 1 .. q - p + 1 |-> list[at(k)]]
  BY <1>1, Zenon DEF Pick
<1>4. \A k \in 1 .. q - p + 1 : at(k) = p + k - 1
  BY <1>2, Zenon
<1> HIDE DEF at
<1> QED
  BY <1>3, <1>4

(* Five or six things in a list. *)
LEMMA TuplesOf ==
    ASSUME NEW a, NEW b, NEW c, NEW d, NEW e, NEW z
    PROVE  <<a, b, c, d, z, e>> \in Seq({a, b, c, d, e, z}) /\ <<a, b, c, d, e>> \in Seq({a, b, c, d, e, z})
OBVIOUS

(* The part of the maps up to one of them. *)
LEMMA MapsUpTo ==
    ASSUME NEW lib \in Libraries, NEW n \in 1 .. Len(MapsOf(lib))
    PROVE  /\ DOMAIN SubSeq(MapsOf(lib), 1, n) = 1 .. n
           /\ \A i \in 1 .. n : SubSeq(MapsOf(lib), 1, n)[i] = MapsOf(lib)[i]
<1> DEFINE S == {BeforeMap, TextMap(lib), GapMap, DataMap(lib), BehindMap(lib), ZeroMap(lib)}
           maps == MapsOf(lib)
           sub == SubSeq(maps, 1, n)
<1>1. maps \in Seq(S)
  <2>1. /\ <<BeforeMap, TextMap(lib), GapMap, DataMap(lib), ZeroMap(lib), BehindMap(lib)>>
              \in Seq({BeforeMap, TextMap(lib), GapMap, DataMap(lib), BehindMap(lib), ZeroMap(lib)})
        /\ <<BeforeMap, TextMap(lib), GapMap, DataMap(lib), BehindMap(lib)>>
              \in Seq({BeforeMap, TextMap(lib), GapMap, DataMap(lib), BehindMap(lib), ZeroMap(lib)})
    BY TuplesOf
  <2> QED
    BY <2>1, MapsShape, Zenon
<1> HIDE DEF S, maps
<1>2. sub \in Seq(S) /\ Len(sub) = n /\ \A i \in 1 .. n : sub[i] = maps[i]
  <2>1. n \in 1 .. Len(maps) /\ Len(maps) \in Nat
    BY <1>1 DEF maps
  <2>2. 1 \in 1 .. Len(maps) + 1 /\ n \in 0 .. Len(maps)
    BY <2>1
  <2>3. /\ sub \in Seq(S) /\ Len(sub) = (IF 1 <= n THEN n - 1 + 1 ELSE 0)
        /\ \A i \in 1 .. n - 1 + 1 : sub[i] = maps[1 + i - 1]
    BY <1>1, <2>2, SubSeqProperties
  <2> QED
    BY <2>1, <2>3
<1>3. DOMAIN sub = 1 .. n
  BY <1>2
<1> QED
  BY <1>2, <1>3 DEF maps

(* What is known of an image: where it begins, and how long it is. *)
Whole(lib, s) == s.base = ElfBase /\ s.size = 14 + ZeroLen(lib)

(* The last of its own maps. *)
LastOwn(lib) == IF ZeroLen(lib) > 0 THEN 5 ELSE 4

(* The first map that reaches the end of an image. *)
PastOf(lib, s) == SelectInSeq(MapsOf(lib), LAMBDA m : m.end >= s.base + s.size)

(* It is the first one that reaches the end of the image. *)
LEMMA PastIs ==
    ASSUME NEW lib \in Libraries, NEW s, Whole(lib, s)
    PROVE  /\ PastOf(lib, s) = LastOwn(lib)
           /\ LastOwn(lib) \in 1 .. Len(MapsOf(lib))
<1> DEFINE maps == MapsOf(lib)
           z == ZeroLen(lib)
           e == s.base + s.size
           I == {i \in 1 .. Len(maps) : maps[i].end >= e}
<1>1. LastOwn(lib) \in 1 .. Len(maps)
  BY MapPlaces DEF LastOwn
<1>2. ElfBase \in Nat /\ z \in Nat /\ e = ElfBase + (14 + z)
  BY MapBounds, Zenon DEF Whole
<1>3. maps[LastOwn(lib)].end >= e
  <2>1. Spans(LastOwn(lib), maps[LastOwn(lib)], lib, z)
    BY <1>1, MapSpans
  <2> HIDE DEF maps, z, e
  <2> QED
    BY <1>2, <2>1 DEF Spans, LastOwn, z
<1>4. ASSUME NEW i \in I PROVE LastOwn(lib) <= i
  <2>1. i \in 1 .. Len(maps) /\ maps[i].end >= e
    OBVIOUS
  <2>2. Spans(i, maps[i], lib, z)
    BY <2>1, MapSpans
  <2> HIDE DEF maps, z, I, e
  <2> QED
    BY <1>2, <2>1, <2>2 DEF Spans, LastOwn, z
<1>5. Min(I) = LastOwn(lib)
  <2>1. LastOwn(lib) \in I /\ I \subseteq Nat
    BY <1>1, <1>3
  <2> HIDE DEF I
  <2> QED
    BY <1>4, <2>1, LeastIs
<1>6. PastOf(lib, s) = IF I # {} THEN Min(I) ELSE 0
  BY Zenon DEF PastOf, SelectInSeq
<1>7. I # {}
  BY <1>1, <1>3
<1> HIDE DEF I
<1> QED
  BY <1>1, <1>5, <1>6, <1>7, Zenon

(* The maps that lie in the image are the library's own. *)
LEMMA InImageOwn ==
    ASSUME NEW lib \in Libraries, NEW s, Whole(lib, s), NEW i \in 1 .. Len(MapsOf(lib))
    PROVE  InImage(MapsOf(lib)[i], s) <=> i \in 2 .. LastOwn(lib)
<1> DEFINE m == MapsOf(lib)[i]
           z == ZeroLen(lib)
<1>1. Spans(i, m, lib, z) /\ ElfBase \in Nat /\ z \in Nat
  BY MapSpans
<1>2. InImage(m, s) <=> m.start >= ElfBase /\ m.end <= ElfBase + (14 + z)
  BY Zenon DEF InImage, Whole
<1>3. i \in Nat
  OBVIOUS
<1>4. InImage(m, s) <=> i \in 2 .. LastOwn(lib)
  <2> HIDE DEF m, z
  <2> QED
    BY <1>1, <1>2, <1>3 DEF Spans, LastOwn, z
<1> QED
  BY <1>4

(* The segments of the whole image. *)
OwnMaps(lib) == [k \in 1 .. LastOwn(lib) - 1 |-> MapsOf(lib)[k + 1]]

(* They are what is found. *)
LEMMA SegmentsAre ==
    ASSUME NEW lib \in Libraries, NEW s, Whole(lib, s)
    PROVE  Segments(lib, s) = OwnMaps(lib)
<1> DEFINE maps == MapsOf(lib)
           n == LastOwn(lib)
           sub == SubSeq(maps, 1, n)
           keep == {i \in DOMAIN sub : InImage(sub[i], s)}
<1>1. n \in 1 .. Len(maps) /\ n \in {4, 5}
  BY PastIs DEF LastOwn
<1>2. PastOf(lib, s) = n
  BY PastIs, Zenon
<1> DEFINE past == PastOf(lib, s)
           list == IF past = 0 THEN maps ELSE SubSeq(maps, 1, past)
<1>3. Segments(lib, s) = Pick(list, {i \in DOMAIN list : InImage(list[i], s)})
  BY Zenon DEF Segments, Those, PastOf
<1>4. n # 0
  BY <1>1
<1>5. Segments(lib, s) = Pick(sub, keep)
  <2>1. list = sub
    BY <1>2, <1>4, Zenon
  <2> HIDE DEF list, sub
  <2> QED
    BY <1>3, <2>1, Zenon
<1>6. DOMAIN sub = 1 .. n /\ \A i \in 1 .. n : sub[i] = maps[i]
  BY <1>1, MapsUpTo
<1>7. \A i \in 1 .. n : InImage(sub[i], s) <=> i \in 2 .. n
  <2> SUFFICES ASSUME NEW i \in 1 .. n PROVE InImage(sub[i], s) <=> i \in 2 .. n
    OBVIOUS
  <2>1. i \in 1 .. Len(maps)
    BY <1>1
  <2>2. InImage(maps[i], s) <=> i \in 2 .. n
    BY <2>1, InImageOwn
  <2> QED
    BY <1>6, <2>2, Zenon
<1> HIDE DEF sub
<1>8. keep = 2 .. n
  BY <1>1, <1>6, <1>7
<1> HIDE DEF keep
<1>9. Pick(sub, 2 .. n) = [k \in 1 .. n - 2 + 1 |-> sub[2 + k - 1]]
  BY <1>1, PickInterval
<1>10. \A k \in 1 .. n - 2 + 1 : 2 + k - 1 = k + 1 /\ k + 1 \in 1 .. n
  BY <1>1
<1>11. n - 2 + 1 = n - 1
  BY <1>1
<1> HIDE DEF n
<1>12. [k \in 1 .. n - 2 + 1 |-> sub[2 + k - 1]] = [k \in 1 .. n - 1 |-> maps[k + 1]]
  BY <1>6, <1>10, <1>11
<1> QED
  BY <1>5, <1>8, <1>9, <1>12, Zenon DEF OwnMaps, n

(* One element of a list, or none. *)
LEMMA PickFew ==
    ASSUME NEW list
    PROVE  /\ \A p \in Nat : p >= 1 => Pick(list, p .. p) = [k \in 1 .. 1 |-> list[p]]
           /\ \A x : Pick(list, {}) = [k \in 1 .. 0 |-> x]
<1>1. ASSUME NEW p \in Nat, p >= 1 PROVE Pick(list, p .. p) = [k \in 1 .. 1 |-> list[p]]
  <2>1. p - p + 1 = 1 /\ p <= p + 1
    OBVIOUS
  <2>2. Pick(list, p .. p) = [k \in 1 .. p - p + 1 |-> list[p + k - 1]]
    BY <1>1, <2>1, PickInterval, Zenon
  <2>3. [k \in 1 .. p - p + 1 |-> list[p + k - 1]] = [k \in 1 .. 1 |-> list[p]]
    BY <2>1
  <2> QED
    BY <2>2, <2>3, Zenon
<1>2. ASSUME NEW x PROVE Pick(list, {}) = [k \in 1 .. 0 |-> x]
  <2>1. 1 .. 0 = {} /\ Cardinality({}) = 0
    BY FS_EmptySet
  <2> QED
    BY <2>1 DEF Pick
<1> QED
  BY <1>1, <1>2

(* The first elements of a list. *)
LEMMA PickFirst == ASSUME NEW list, NEW n \in Nat PROVE Pick(list, 1 .. n) = [k \in 1 .. n |-> list[k]]
<1>0. PICK p \in Nat : p = 1
  OBVIOUS
<1>1. p >= 1 /\ p <= n + 1
  BY <1>0
<1>2. n - p + 1 = n /\ \A k \in 1 .. n : p + k - 1 = k
  BY <1>0
<1>3. Pick(list, p .. n) = [k \in 1 .. n - p + 1 |-> list[p + k - 1]]
  BY <1>1, PickInterval, SMTT(60)
<1>4. [k \in 1 .. n - p + 1 |-> list[p + k - 1]] = [k \in 1 .. n |-> list[k]]
  BY <1>2
<1> QED
  BY <1>0, <1>3, <1>4, Zenon

(* A library's maps are a list. *)
LEMMA MapsListed == ASSUME NEW lib \in Libraries PROVE DOMAIN MapsOf(lib) = 1 .. Len(MapsOf(lib))
<1>1. /\ <<BeforeMap, TextMap(lib), GapMap, DataMap(lib), ZeroMap(lib), BehindMap(lib)>>
            \in Seq({BeforeMap, TextMap(lib), GapMap, DataMap(lib), BehindMap(lib), ZeroMap(lib)})
      /\ <<BeforeMap, TextMap(lib), GapMap, DataMap(lib), BehindMap(lib)>>
            \in Seq({BeforeMap, TextMap(lib), GapMap, DataMap(lib), BehindMap(lib), ZeroMap(lib)})
  BY TuplesOf
<1>2. MapsOf(lib) \in Seq({BeforeMap, TextMap(lib), GapMap, DataMap(lib), BehindMap(lib), ZeroMap(lib)})
  BY <1>1, MapsShape, Zenon
<1> QED
  BY <1>2

(* Who may use each map, and what is mapped there. *)
LEMMA MapAttributes ==
    ASSUME NEW lib \in Libraries
    PROVE  /\ BeforeMap.inode = "before" /\ BehindMap(lib).inode = "behind"
           /\ TextMap(lib).inode = FileOf(lib) /\ TextMap(lib).prot = {"r", "x"}
           /\ GapMap.inode = "anon" /\ GapMap.prot = {}
           /\ DataMap(lib).inode = FileOf(lib) /\ ~DataMap(lib).bss
           /\ DataMap(lib).prot = (IF lib.dynReadable THEN {"r", "w"} ELSE {"w"})
           /\ ZeroMap(lib).inode = "anon" /\ ZeroMap(lib).prot = {"r", "w"} /\ ZeroMap(lib).bss = lib.named
BY DEF BeforeMap, TextMap, GapMap, DataMap, ZeroMap, BehindMap, Map

(* The library's own maps are those that are not its neighbours'. *)
LEMMA OwnPlaces ==
    ASSUME NEW lib \in Libraries, NEW i \in 1 .. Len(MapsOf(lib))
    PROVE  MapsOf(lib)[i].inode \notin {"before", "behind"} <=> i \in 2 .. LastOwn(lib)
<1> DEFINE m == MapsOf(lib)[i]
<1>1. FileOf(lib) \in {"lib", "anon"}
  BY DEF FileOf
<1>2. m.inode \notin {"before", "behind"} <=> ~(m = BeforeMap) /\ ~(m = BehindMap(lib))
  <2>1. m \in {BeforeMap, TextMap(lib), GapMap, DataMap(lib), ZeroMap(lib), BehindMap(lib)}
    BY MapKinds
  <2> HIDE DEF m
  <2>2. TextMap(lib).inode \notin {"before", "behind"} /\ DataMap(lib).inode \notin {"before", "behind"}
    BY <1>1, MapAttributes
  <2>3. GapMap.inode = "anon" /\ ZeroMap(lib).inode = "anon" /\ BeforeMap.inode = "before" /\ BehindMap(lib).inode = "behind"
    BY MapAttributes
  <2>4. m.inode \notin {"before", "behind"} => ~(m = BeforeMap) /\ ~(m = BehindMap(lib))
    BY <2>3
  <2>5. m \in {TextMap(lib), GapMap, DataMap(lib), ZeroMap(lib)} => m.inode \notin {"before", "behind"}
    BY <2>2, <2>3
  <2> QED
    BY <2>1, <2>4, <2>5
<1>3. Spans(i, m, lib, ZeroLen(lib)) /\ ElfBase \in Nat /\ ElfBase > 20 /\ ZeroLen(lib) \in Nat
  BY MapSpans
<1>4. BeforeMap.start = ElfBase - 4 /\ BehindMap(lib).start = ElfBase + 14 + ZeroLen(lib)
  BY MapBounds
<1>5. ~(m = BeforeMap) /\ ~(m = BehindMap(lib)) <=> i \in 2 .. LastOwn(lib)
  <2>1. i \in Nat
    OBVIOUS
  <2> HIDE DEF m
  <2> QED
    BY <1>3, <1>4, <2>1 DEF Spans, LastOwn
<1> QED
  BY <1>2, <1>5, Zenon

(* They are its segments. *)
LEMMA OwnAre ==
    ASSUME NEW lib \in Libraries
    PROVE  /\ LastOwn(lib) \in {4, 5} /\ DOMAIN OwnMaps(lib) = 1 .. LastOwn(lib) - 1 /\ Len(OwnMaps(lib)) = LastOwn(lib) - 1
           /\ Own(lib) = {MapsOf(lib)[i] : i \in 2 .. LastOwn(lib)} /\ ToSet(OwnMaps(lib)) = Own(lib)
<1> DEFINE maps == MapsOf(lib)
           n == LastOwn(lib)
<1>1. n \in {4, 5} /\ n <= Len(maps) /\ Len(maps) \in Nat
  BY MapPlaces DEF LastOwn
<1>2. DOMAIN OwnMaps(lib) = 1 .. n - 1
  BY DEF OwnMaps
<1>3. Len(OwnMaps(lib)) = n - 1
  BY <1>1 DEF OwnMaps
<1>4. Own(lib) = {maps[i] : i \in 2 .. n}
  <2>1. Own(lib) = {x \in {maps[i] : i \in 1 .. Len(maps)} : x.inode \notin {"before", "behind"}}
    BY MapsListed, Zenon DEF Own, ToSet
  <2>2. \A i \in 1 .. Len(maps) : maps[i].inode \notin {"before", "behind"} <=> i \in 2 .. n
    BY OwnPlaces
  <2>3. \A i \in 2 .. n : i \in 1 .. Len(maps)
    BY <1>1
  <2> HIDE DEF maps, n
  <2> QED
    BY <2>1, <2>2, <2>3
<1>5. ToSet(OwnMaps(lib)) = {maps[i] : i \in 2 .. n}
  <2>1. ToSet(OwnMaps(lib)) = {OwnMaps(lib)[k] : k \in 1 .. n - 1}
    BY <1>2, Zenon DEF ToSet
  <2>2. \A k \in 1 .. n - 1 : OwnMaps(lib)[k] = maps[k + 1] /\ k + 1 \in 2 .. n
    BY <1>1 DEF OwnMaps
  <2>3. \A i \in 2 .. n : i - 1 \in 1 .. n - 1 /\ (i - 1) + 1 = i
    BY <1>1
  <2> HIDE DEF maps, n
  <2> QED
    BY <2>1, <2>2, <2>3
<1> QED
  BY <1>1, <1>2, <1>3, <1>4, <1>5

(* A map is taken to be zeroed pages. *)
IsBss(lib, s, last, m) ==
    /\ "r" \in m.prot /\ "x" \notin m.prot
    /\ \/ m.bss
       \/ MapOf(lib, s.base).inode # "anon" /\ m.inode = "anon"
       \/ m.start .. m.end - 1 \subseteq Zeroed(last, s.bias)

(* The file's part of the data is not; the pages behind it are. *)
LEMMA BssKinds ==
    ASSUME NEW lib \in Libraries, NEW s, Whole(lib, s), NEW last,
           last.vaddr = lib.min + 8, last.filesz = 6, s.bias = ElfBase - lib.min
    PROVE  /\ ~IsBss(lib, s, last, TextMap(lib)) /\ ~IsBss(lib, s, last, GapMap) /\ ~IsBss(lib, s, last, DataMap(lib))
           /\ IsBss(lib, s, last, ZeroMap(lib))
<1>1. ElfBase \in Nat /\ ElfBase % 2 = 0 /\ PageLen = 2 /\ lib.min \in Nat
  BY ImageAssumption, LibraryEnds
<1>2. MapOf(lib, s.base) = TextMap(lib)
  BY <1>1, MapAtPlace DEF Whole
<1>3. ~IsBss(lib, s, last, TextMap(lib)) /\ ~IsBss(lib, s, last, GapMap)
  BY MapAttributes DEF IsBss
<1>4. IsBss(lib, s, last, ZeroMap(lib))
  <2>1. lib.backed \/ lib.named
    BY DEF Libraries
  <2>2. CASE lib.named
    BY <2>2, MapAttributes DEF IsBss
  <2>3. CASE lib.backed
    BY <1>2, <2>3, MapAttributes DEF IsBss, FileOf
  <2> QED
    BY <2>1, <2>2, <2>3
<1>5. ~(DataMap(lib).start .. DataMap(lib).end - 1 \subseteq Zeroed(last, s.bias))
  <2>1. last.vaddr + s.bias + last.filesz = ElfBase + 14
    BY <1>1
  <2>2. KT_PAGE_END(ElfBase + 14) = ElfBase + 14
    BY <1>1 DEF KT_PAGE_END, KT_PAGE_START
  <2>3. KT_PAGE_END(last.vaddr + s.bias + last.filesz) = ElfBase + 14
    BY <2>1, <2>2, Zenon
  <2>4. \A x : ElfBase + 8 \notin ElfBase + 14 .. x
    BY <1>1
  <2>5. ElfBase + 8 \notin Zeroed(last, s.bias)
    BY <2>3, <2>4, Zenon DEF Zeroed
  <2>6. DataMap(lib).start = ElfBase + 8 /\ DataMap(lib).end = ElfBase + 14
    BY MapBounds
  <2>7. ElfBase + 8 \in DataMap(lib).start .. DataMap(lib).end - 1
    BY <1>1, <2>6
  <2> QED
    BY <2>5, <2>7, Zenon
<1>6. ~(MapOf(lib, s.base).inode # "anon" /\ DataMap(lib).inode = "anon") /\ ~DataMap(lib).bss
  BY <1>2, MapAttributes
<1>7. ~IsBss(lib, s, last, DataMap(lib))
  BY <1>5, <1>6, Zenon DEF IsBss
<1> QED
  BY <1>3, <1>4, <1>7

(* What is found of the zeroed pages. *)
ZeroMaps(lib) == IF ZeroLen(lib) > 0 THEN [k \in 1 .. 1 |-> ZeroMap(lib)] ELSE [k \in 1 .. 0 |-> ZeroMap(lib)]

(* That is all of them. *)
LEMMA BssAre ==
    ASSUME NEW lib \in Libraries, NEW s, Whole(lib, s), NEW last,
           last.vaddr = lib.min + 8, last.filesz = 6, s.bias = ElfBase - lib.min
    PROVE  Bss(lib, s, last) = ZeroMaps(lib)
<1> DEFINE segs == OwnMaps(lib)
           keep == {i \in DOMAIN segs : IsBss(lib, s, last, segs[i])}
<1>1. Bss(lib, s, last) = Pick(segs, keep)
  <2>1. Segments(lib, s) = segs
    BY SegmentsAre
  <2>2. Bss(lib, s, last) = Pick(Segments(lib, s), {i \in DOMAIN Segments(lib, s) : IsBss(lib, s, last, Segments(lib, s)[i])})
    BY Zenon DEF Bss, Those, IsBss
  <2> HIDE DEF segs
  <2> QED
    BY <2>1, <2>2, Zenon
<1>2. /\ DOMAIN segs = 1 .. LastOwn(lib) - 1 /\ segs[1] = TextMap(lib) /\ segs[2] = GapMap /\ segs[3] = DataMap(lib)
      /\ ZeroLen(lib) > 0 => segs[4] = ZeroMap(lib)
  BY MapPlaces DEF OwnMaps, LastOwn
<1>3. /\ ~IsBss(lib, s, last, TextMap(lib)) /\ ~IsBss(lib, s, last, GapMap) /\ ~IsBss(lib, s, last, DataMap(lib))
      /\ IsBss(lib, s, last, ZeroMap(lib))
  BY BssKinds
<1>4. CASE ZeroLen(lib) > 0
  <2>1. \A i \in 1 .. 4 : IsBss(lib, s, last, segs[i]) <=> i = 4
    <3>1. \A i \in 1 .. 4 : i = 1 \/ i = 2 \/ i = 3 \/ i = 4
      OBVIOUS
    <3> HIDE DEF segs
    <3> QED
      BY <1>2, <1>3, <1>4, <3>1
  <2>2. DOMAIN segs = 1 .. 4
    BY <1>2, <1>4 DEF LastOwn
  <2> HIDE DEF segs
  <2>3. keep = 4 .. 4
    BY <2>1, <2>2
  <2> HIDE DEF keep
  <2>4. Pick(segs, 4 .. 4) = [k \in 1 .. 1 |-> segs[4]]
    <3>1. \A p \in Nat : p >= 1 => Pick(segs, p .. p) = [k \in 1 .. 1 |-> segs[p]]
      BY PickFew, Zenon
    <3>2. PICK p \in Nat : p = 4 /\ p >= 1
      OBVIOUS
    <3> QED
      BY <3>1, <3>2, Zenon
  <2> QED
    BY <1>1, <1>2, <1>4, <2>3, <2>4, Zenon DEF ZeroMaps
<1>5. CASE ~(ZeroLen(lib) > 0)
  <2>1. \A i \in 1 .. 3 : ~IsBss(lib, s, last, segs[i])
    <3>1. \A i \in 1 .. 3 : i = 1 \/ i = 2 \/ i = 3
      OBVIOUS
    <3> HIDE DEF segs
    <3> QED
      BY <1>2, <1>3, <3>1
  <2>2. DOMAIN segs = 1 .. 3
    BY <1>2, <1>5 DEF LastOwn
  <2> HIDE DEF segs
  <2>3. keep = {}
    BY <2>1, <2>2
  <2> HIDE DEF keep
  <2> QED
    BY <1>1, <1>5, <2>3, PickFew, Zenon DEF ZeroMaps
<1> QED
  BY <1>4, <1>5

(* A member of a set of numbers that none exceeds is the greatest. *)
LEMMA GreatestIs == ASSUME NEW S, S \subseteq Nat, NEW m \in S, \A x \in S : x <= m PROVE Max(S) = m
<1>1. \E x \in S : \A y \in S : x >= y
  OBVIOUS
<1>2. Max(S) \in S /\ \A y \in S : Max(S) >= y
  BY <1>1, Zenon DEF Max
<1>3. Max(S) >= m /\ Max(S) <= m /\ Max(S) \in Nat /\ m \in Nat
  BY <1>2
<1> QED
  BY <1>3

(* The three program headers. *)
LEMMA ThreePrograms ==
    ASSUME NEW lib
    PROVE  /\ Programs(lib)[1].type = "load" /\ Programs(lib)[1].vaddr = lib.min /\ Programs(lib)[1].memsz = 6
           /\ Programs(lib)[2].type = "load" /\ Programs(lib)[2].vaddr = lib.min + 8
           /\ Programs(lib)[2].filesz = 6 /\ Programs(lib)[2].memsz = lib.memsz
           /\ Programs(lib)[3].type = "dynamic" /\ Programs(lib)[3].vaddr = lib.min + 8 /\ Programs(lib)[3].memsz = 6
BY DEF Programs

(* The segments that are loaded. *)
TwoLoads(lib) == [k \in 1 .. 2 |-> Programs(lib)[k]]

(* They are the ones that the headers in memory tell of. *)
LEMMA LoadsAre ==
    ASSUME NEW lib \in Libraries
    PROVE  LoadsOf(lib, ElfBase + 1, 3) = TwoLoads(lib)
<1> DEFINE L == [i \in 1 .. 3 |-> i]
           readable == {i \in DOMAIN L : CanRead(lib, ElfBase + 1 + L[i] - 1)}
           read == Pick(L, readable)
           P == [k \in DOMAIN read |-> Programs(lib)[read[k]]]
           heads == {k \in DOMAIN P : P[k].type = "load"}
<1>1. LoadsOf(lib, ElfBase + 1, 3) = Pick(P, heads)
  BY Zenon DEF LoadsOf, Those
<1>2. readable = 1 .. 3
  <2>1. DOMAIN L = 1 .. 3 /\ \A i \in 1 .. 3 : L[i] = i
    OBVIOUS
  <2>2. \A i \in 1 .. 3 : CanRead(lib, ElfBase + 1 + i - 1)
    <3> SUFFICES ASSUME NEW i \in 1 .. 3 PROVE CanRead(lib, ElfBase + 1 + i - 1)
      OBVIOUS
    <3>1. ElfBase + 1 + i - 1 \in ElfBase .. ElfBase + 5 /\ ElfBase + 1 + i - 1 \in Int
      BY ImageAssumption
    <3>2. MapOf(lib, ElfBase + 1 + i - 1) = TextMap(lib)
      BY <3>1, MapAtPlace, Zenon
    <3> QED
      BY <3>2, MapAttributes DEF CanRead
  <2> HIDE DEF L
  <2> QED
    BY <2>1, <2>2
<1> HIDE DEF readable
<1>3. read = [k \in 1 .. 3 |-> k]
  <2>1. PICK n \in Nat : n = 3
    OBVIOUS
  <2>2. \A k \in 1 .. 3 : L[k] = k
    OBVIOUS
  <2> HIDE DEF L
  <2>3. Pick(L, 1 .. n) = [k \in 1 .. n |-> L[k]]
    BY PickFirst
  <2>4. [k \in 1 .. n |-> L[k]] = [k \in 1 .. 3 |-> k]
    BY <2>1, <2>2
  <2> QED
    BY <1>2, <2>1, <2>3, <2>4, Zenon
<1> HIDE DEF read
<1>4. P = [k \in 1 .. 3 |-> Programs(lib)[k]]
  BY <1>3
<1>5. DOMAIN P = 1 .. 3 /\ P[1].type = "load" /\ P[2].type = "load" /\ P[3].type = "dynamic"
  <2>1. P[1] = Programs(lib)[1] /\ P[2] = Programs(lib)[2] /\ P[3] = Programs(lib)[3] /\ DOMAIN P = 1 .. 3
    BY <1>4
  <2> HIDE DEF P
  <2> QED
    BY <2>1, ThreePrograms, Zenon
<1>6. \A k \in 1 .. 2 : P[k] = Programs(lib)[k]
  BY <1>4
<1> HIDE DEF P
<1>7. heads = 1 .. 2
  <2>1. \A k \in 1 .. 3 : k = 1 \/ k = 2 \/ k = 3
    OBVIOUS
  <2> QED
    BY <1>5, <2>1
<1> HIDE DEF heads
<1>8. Pick(P, heads) = [k \in 1 .. 2 |-> Programs(lib)[k]]
  <2>1. PICK n \in Nat : n = 2
    OBVIOUS
  <2>2. Pick(P, 1 .. n) = [k \in 1 .. n |-> P[k]]
    BY PickFirst
  <2>3. [k \in 1 .. n |-> P[k]] = [k \in 1 .. 2 |-> Programs(lib)[k]]
    BY <1>6, <2>1
  <2> QED
    BY <1>7, <2>1, <2>2, <2>3, Zenon
<1> QED
  BY <1>1, <1>8, Zenon DEF TwoLoads

(* What they span. *)
LEMMA LoadsSpan ==
    ASSUME NEW lib \in Libraries
    PROVE  /\ Len(TwoLoads(lib)) = 2 /\ Last(TwoLoads(lib)) = Programs(lib)[2] /\ TwoLoads(lib) # <<>>
           /\ SpanStart(ToSet(TwoLoads(lib))) = lib.min
           /\ SpanEnd(ToSet(TwoLoads(lib))) = lib.min + 14 + ZeroLen(lib)
<1> DEFINE heads == TwoLoads(lib)
           all == ToSet(heads)
<1>1. Len(heads) = 2 /\ heads[1] = Programs(lib)[1] /\ heads[2] = Programs(lib)[2] /\ DOMAIN heads = 1 .. 2
  BY DEF TwoLoads
<1>2. all = {Programs(lib)[1], Programs(lib)[2]}
  <2>1. 1 .. 2 = {1, 2}
    OBVIOUS
  <2>2. all = {heads[i] : i \in {1, 2}}
    BY <1>1, <2>1, Zenon DEF ToSet
  <2> HIDE DEF all
  <2> QED
    BY <1>1, <2>2
<1> HIDE DEF heads, all
<1>3. lib.min \in Nat /\ lib.memsz \in Nat /\ lib.memsz >= 6
  BY LibraryEnds
<1>4. {l.vaddr : l \in all} = {lib.min, lib.min + 8} /\ {l.vaddr + l.memsz : l \in all} = {lib.min + 6, lib.min + 8 + lib.memsz}
  <2>1. /\ Programs(lib)[1].vaddr = lib.min /\ Programs(lib)[2].vaddr = lib.min + 8
        /\ Programs(lib)[1].memsz = 6 /\ Programs(lib)[2].memsz = lib.memsz
    BY ThreePrograms
  <2> QED
    BY <1>2, <2>1
<1>5. Min({lib.min, lib.min + 8}) = lib.min
  <2> DEFINE S == {lib.min, lib.min + 8}
  <2>1. S \subseteq Nat /\ lib.min \in S /\ \A x \in S : lib.min <= x
    BY <1>3
  <2> HIDE DEF S
  <2>2. Min(S) = lib.min
    BY <2>1, LeastIs
  <2> QED
    BY <2>2 DEF S
<1>6. Max({lib.min + 6, lib.min + 8 + lib.memsz}) = lib.min + 8 + lib.memsz
  <2> DEFINE S == {lib.min + 6, lib.min + 8 + lib.memsz}
             m == lib.min + 8 + lib.memsz
  <2>1. S \subseteq Nat /\ m \in S /\ \A x \in S : x <= m
    BY <1>3
  <2> HIDE DEF S, m
  <2>2. Max(S) = m
    BY <2>1, GreatestIs
  <2> QED
    BY <2>2 DEF S, m
<1>7. SpanStart(all) = lib.min
  BY <1>4, <1>5, LibraryEnds, Zenon DEF SpanStart
<1>8. SpanEnd(all) = lib.min + 14 + ZeroLen(lib)
  BY <1>4, <1>6, LibraryEnds, Zenon DEF SpanEnd
<1>9. heads # <<>>
  BY <1>1
<1>10. Last(heads) = Programs(lib)[2]
  BY <1>1 DEF Last
<1> QED
  BY <1>1, <1>7, <1>8, <1>9, <1>10 DEF heads, all

(* The image that a library has, without its tables. *)
ImageOf(lib) ==
    [base |-> ElfBase, phdr |-> ElfBase + 1, bias |-> ElfBase - lib.min, size |-> 14 + ZeroLen(lib), loads |-> 2,
     segments |-> OwnMaps(lib), bss |-> ZeroMaps(lib), dynamic |-> 0, strtab |-> 0, symtab |-> 0, strsz |-> 0,
     gnu |-> 0, sysv |-> 0]

(* Where an image begins, how long it is and how far it was moved say the rest. *)
LEMMA SpanSuffices ==
    ASSUME NEW lib \in Libraries, NEW s, s.base = ElfBase, s.size = 14 + ZeroLen(lib), s.bias = ElfBase - lib.min
    PROVE  Segments(lib, s) = OwnMaps(lib) /\ Bss(lib, s, Last(TwoLoads(lib))) = ZeroMaps(lib)
<1>1. Whole(lib, s)
  BY DEF Whole
<1>2. Last(TwoLoads(lib)).vaddr = lib.min + 8 /\ Last(TwoLoads(lib)).filesz = 6
  BY LoadsSpan, ThreePrograms
<1> QED
  BY <1>1, <1>2, SegmentsAre, BssAre, Zenon

(* A scan with the image's measures only. *)
Measured(base, phdr, heads, bias, size) ==
    [base |-> base, phdr |-> phdr, bias |-> bias, size |-> size, loads |-> heads, segments |-> <<>>, bss |-> <<>>,
     dynamic |-> 0, strtab |-> 0, symtab |-> 0, strsz |-> 0, gnu |-> 0, sysv |-> 0]

(* That is what a scan begins with. *)
LEMMA MeasuredAre ==
    ASSUME NEW b, NEW p, NEW n, NEW d, NEW e
    PROVE  [NoScan EXCEPT !.base = b, !.phdr = p, !.loads = n, !.bias = d, !.size = e] = Measured(b, p, n, d, e)
<1> DEFINE r1 == [NoScan EXCEPT !.base = b]
           r2 == [r1 EXCEPT !.phdr = p]
           r3 == [r2 EXCEPT !.loads = n]
           r4 == [r3 EXCEPT !.bias = d]
           r5 == [r4 EXCEPT !.size = e]
<1>1. [NoScan EXCEPT !.base = b, !.phdr = p, !.loads = n, !.bias = d, !.size = e] = r5
  OBVIOUS
<1>2. r1 = Measured(b, 0, 0, 0, 0)
  BY DEF NoScan, Measured
<1> HIDE DEF r1
<1>3. r2 = Measured(b, p, 0, 0, 0)
  BY <1>2 DEF Measured
<1> HIDE DEF r2
<1>4. r3 = Measured(b, p, n, 0, 0)
  BY <1>3 DEF Measured
<1> HIDE DEF r3
<1>5. r4 = Measured(b, p, n, d, 0)
  BY <1>4 DEF Measured
<1> HIDE DEF r4
<1>6. r5 = Measured(b, p, n, d, e)
  BY <1>5 DEF Measured
<1> HIDE DEF r5
<1> QED
  BY <1>1, <1>6, Zenon

(* The headers in memory give that image. *)
LEMMA ScanLoadsAre == ASSUME NEW lib \in Libraries PROVE ScanLoads(lib) = ImageOf(lib)
<1> DEFINE heads == LoadsOf(lib, ElfBase + 1, 3)
           span == [NoScan EXCEPT !.base = ElfBase, !.phdr = ElfBase + 1, !.loads = Len(heads),
                                  !.bias = ElfBase - SpanStart(ToSet(heads)),
                                  !.size = SpanEnd(ToSet(heads)) - SpanStart(ToSet(heads))]
<1>1. ScanLoads(lib) = [span EXCEPT !.segments = Segments(lib, span), !.bss = Bss(lib, span, Last(heads))]
  BY Zenon DEF ScanLoads
<1>2. heads = TwoLoads(lib)
  BY LoadsAre
<1>3. /\ Len(heads) = 2 /\ SpanStart(ToSet(heads)) = lib.min /\ SpanEnd(ToSet(heads)) = lib.min + 14 + ZeroLen(lib)
  BY <1>2, LoadsSpan, Zenon
<1>4. (lib.min + 14 + ZeroLen(lib)) - lib.min = 14 + ZeroLen(lib)
  BY LibraryEnds
<1> HIDE DEF heads
<1>5. span = Measured(ElfBase, ElfBase + 1, 2, ElfBase - lib.min, 14 + ZeroLen(lib))
  <2>1. span = Measured(ElfBase, ElfBase + 1, Len(heads), ElfBase - SpanStart(ToSet(heads)),
                        SpanEnd(ToSet(heads)) - SpanStart(ToSet(heads)))
    BY MeasuredAre
  <2> QED
    BY <1>3, <1>4, <2>1, Zenon
<1> HIDE DEF span
<1>6. span.base = ElfBase /\ span.size = 14 + ZeroLen(lib) /\ span.bias = ElfBase - lib.min
  BY <1>5 DEF Measured
<1>7. Segments(lib, span) = OwnMaps(lib) /\ Bss(lib, span, Last(heads)) = ZeroMaps(lib)
  BY <1>2, <1>6, SpanSuffices, Zenon
<1> QED
  BY <1>1, <1>5, <1>7 DEF ImageOf, Measured

(* An entry of the dynamic table, and the parts that the table has. *)
Entry(tag, value) == [tag |-> tag, value |-> value]
StrtabValue(lib)  == IF lib.damage = "table" THEN 19 ELSE Pointer(lib, 3)
FirstEntries(lib) == <<Entry("strtab", StrtabValue(lib)), Entry("symtab", Pointer(lib, 4)), Entry("strsz", 2)>>
GnuEntry(lib)     == IF "gnu" \in lib.hashes THEN <<Entry("gnu", Pointer(lib, 5))>> ELSE <<>>
SysvEntry(lib)    == IF "sysv" \in lib.hashes THEN <<Entry("sysv", Pointer(lib, 2))>> ELSE <<>>
LastEntries       == <<Entry("null", 0), Entry("strtab", 77)>>
Gnus(lib)  == IF "gnu" \in lib.hashes THEN 1 ELSE 0
Sysvs(lib) == IF "sysv" \in lib.hashes THEN 1 ELSE 0

(* Where the elements of two lists are when one follows the other. *)
Follow(t, a, b, S) ==
    /\ t \in Seq(S) /\ Len(t) = Len(a) + Len(b)
    /\ (\A i \in 1 .. Len(a) : t[i] = a[i]) /\ (\A i \in 1 .. Len(b) : t[Len(a) + i] = b[i])

(* That is what concatenation makes. *)
LEMMA Concatenated == ASSUME NEW S, NEW a \in Seq(S), NEW b \in Seq(S) PROVE Follow(a \o b, a, b, S)
<1>1. /\ a \o b \in Seq(S) /\ Len(a \o b) = Len(a) + Len(b)
      /\ \A i \in 1 .. Len(a) + Len(b) : (a \o b)[i] = IF i <= Len(a) THEN a[i] ELSE b[i - Len(a)]
  BY ConcatProperties
<1>2. Len(a) \in Nat /\ Len(b) \in Nat
  BY LenProperties
<1> DEFINE t == a \o b
<1> HIDE DEF t
<1>3. \A i \in 1 .. Len(a) : t[i] = a[i]
  BY <1>1, <1>2 DEF t
<1>4. \A i \in 1 .. Len(b) : t[Len(a) + i] = b[i]
  <2> SUFFICES ASSUME NEW i \in 1 .. Len(b) PROVE t[Len(a) + i] = b[i]
    OBVIOUS
  <2>1. Len(a) + i \in 1 .. Len(a) + Len(b) /\ ~(Len(a) + i <= Len(a)) /\ (Len(a) + i) - Len(a) = i
    BY <1>2
  <2> QED
    BY <1>1, <2>1 DEF t
<1> QED
  BY <1>1, <1>3, <1>4 DEF Follow, t

(* A list of one element or none. *)
LEMMA OneOrNone ==
    ASSUME NEW S, NEW e \in S, NEW c
    PROVE  /\ (IF c THEN <<e>> ELSE <<>>) \in Seq(S) /\ Len(IF c THEN <<e>> ELSE <<>>) = (IF c THEN 1 ELSE 0)
           /\ (IF c THEN 1 ELSE 0) = 1 => (IF c THEN <<e>> ELSE <<>>)[1] = e
<1>1. CASE c
  BY <1>1
<1>2. CASE ~c
  BY <1>2
<1> QED
  BY <1>1, <1>2

(* What stands where in the dynamic table. *)
EntriesAt(D, lib, x, y) ==
    /\ Len(D) = 5 + x + y /\ D \in Seq({D[i] : i \in 1 .. Len(D)})
    /\ D[1] = Entry("strtab", StrtabValue(lib)) /\ D[2] = Entry("symtab", Pointer(lib, 4)) /\ D[3] = Entry("strsz", 2)
    /\ x = 1 => D[4] = Entry("gnu", Pointer(lib, 5))
    /\ y = 1 => D[4 + x] = Entry("sysv", Pointer(lib, 2))
    /\ D[4 + x + y] = Entry("null", 0)

(* The parts of the table. *)
LEMMA DynamicParts == \A lib : Dynamic(lib) = ((FirstEntries(lib) \o GnuEntry(lib)) \o SysvEntry(lib)) \o LastEntries
BY Zenon DEF Dynamic, Entry, FirstEntries, GnuEntry, SysvEntry, LastEntries, StrtabValue

(* That is how the loader fills it. *)
LEMMA DynamicShape == ASSUME NEW lib PROVE EntriesAt(Dynamic(lib), lib, Gnus(lib), Sysvs(lib))
<1> DEFINE S == {Entry("strtab", StrtabValue(lib)), Entry("symtab", Pointer(lib, 4)), Entry("strsz", 2),
                 Entry("gnu", Pointer(lib, 5)), Entry("sysv", Pointer(lib, 2)), Entry("null", 0), Entry("strtab", 77)}
           a == FirstEntries(lib)
           g == GnuEntry(lib)
           s == SysvEntry(lib)
           n == LastEntries
           x == Gnus(lib)
           y == Sysvs(lib)
           p == a \o g
           q == p \o s
           D == q \o n
<1>1. Dynamic(lib) = D
  BY DynamicParts
<1>2. /\ a \in Seq(S) /\ Len(a) = 3 /\ a[1] = Entry("strtab", StrtabValue(lib)) /\ a[2] = Entry("symtab", Pointer(lib, 4))
      /\ a[3] = Entry("strsz", 2)
  BY DEF FirstEntries
<1>3. g \in Seq(S) /\ Len(g) = x /\ (x = 1 => g[1] = Entry("gnu", Pointer(lib, 5)))
  <2>1. Entry("gnu", Pointer(lib, 5)) \in S
    OBVIOUS
  <2> HIDE DEF S
  <2> QED
    BY <2>1, OneOrNone, Zenon DEF GnuEntry, Gnus
<1>4. s \in Seq(S) /\ Len(s) = y /\ (y = 1 => s[1] = Entry("sysv", Pointer(lib, 2)))
  <2>1. Entry("sysv", Pointer(lib, 2)) \in S
    OBVIOUS
  <2> HIDE DEF S
  <2> QED
    BY <2>1, OneOrNone, Zenon DEF SysvEntry, Sysvs
<1>5. n \in Seq(S) /\ Len(n) = 2 /\ n[1] = Entry("null", 0)
  BY DEF LastEntries
<1>6. x \in {0, 1} /\ y \in {0, 1}
  BY DEF Gnus, Sysvs
<1> HIDE DEF S, a, g, s, n, x, y
<1>7. Follow(p, a, g, S)
  BY <1>2, <1>3, Concatenated
<1>8. p \in Seq(S)
  BY <1>7 DEF Follow
<1> HIDE DEF p
<1>9. Follow(q, p, s, S)
  BY <1>4, <1>8, Concatenated
<1>10. q \in Seq(S)
  BY <1>9 DEF Follow
<1> HIDE DEF q
<1>11. Follow(D, q, n, S)
  BY <1>5, <1>10, Concatenated
<1> HIDE DEF D
<1>12. Len(p) = 3 + x /\ p[1] = a[1] /\ p[2] = a[2] /\ p[3] = a[3] /\ (x = 1 => p[4] = g[1])
  BY <1>2, <1>3, <1>6, <1>7 DEF Follow
<1>13. Len(q) = 3 + x + y /\ (\A i \in 1 .. 3 + x : q[i] = p[i]) /\ (y = 1 => q[4 + x] = s[1])
  BY <1>4, <1>6, <1>9, <1>12 DEF Follow
<1>14. Len(D) = 5 + x + y /\ (\A i \in 1 .. 3 + x + y : D[i] = q[i]) /\ D[4 + x + y] = n[1] /\ D \in Seq(S)
  BY <1>5, <1>6, <1>11, <1>13 DEF Follow
<1>15. D \in Seq({D[i] : i \in 1 .. Len(D)})
  BY <1>14
<1>16. D[1] = a[1] /\ D[2] = a[2] /\ D[3] = a[3] /\ (x = 1 => D[4] = g[1]) /\ (y = 1 => D[4 + x] = s[1])
  BY <1>6, <1>12, <1>13, <1>14
<1>17. EntriesAt(D, lib, x, y)
  BY <1>2, <1>3, <1>4, <1>5, <1>14, <1>15, <1>16 DEF EntriesAt
<1> QED
  BY <1>1, <1>17 DEF x, y

(* The first entry that ends the table. *)
NullAt(D) == SelectInSeq(D, LAMBDA e : e.tag = "null")

(* It stands behind the others. *)
LEMMA NullIs ==
    ASSUME NEW lib, NEW D, NEW x \in {0, 1}, NEW y \in {0, 1}, EntriesAt(D, lib, x, y)
    PROVE  NullAt(D) = 4 + x + y
<1> DEFINE I == {i \in 1 .. Len(D) : D[i].tag = "null"}
<1>1. NullAt(D) = IF I # {} THEN Min(I) ELSE 0
  BY Zenon DEF NullAt, SelectInSeq
<1>2. /\ D[1].tag = "strtab" /\ D[2].tag = "symtab" /\ D[3].tag = "strsz" /\ (x = 1 => D[4].tag = "gnu")
      /\ (y = 1 => D[4 + x].tag = "sysv") /\ D[4 + x + y].tag = "null" /\ Len(D) = 5 + x + y
  BY DEF EntriesAt, Entry
<1>3. 4 + x + y \in I /\ I \subseteq Nat
  BY <1>2
<1>4. ASSUME NEW i \in I PROVE 4 + x + y <= i
  <2>1. SUFFICES ASSUME i < 4 + x + y PROVE FALSE
    BY <1>3
  <2>2. i = 1 \/ i = 2 \/ i = 3 \/ (i = 4 /\ x = 1) \/ (i = 4 + x /\ y = 1)
    BY <1>3, <2>1
  <2>3. D[i].tag = "null"
    OBVIOUS
  <2> HIDE DEF I
  <2> QED
    BY <1>2, <2>2, <2>3
<1> HIDE DEF I
<1>5. Min(I) = 4 + x + y
  BY <1>3, <1>4, LeastIs
<1> QED
  BY <1>1, <1>3, <1>5

(* What stands where in the part of it that counts. *)
TableAt(T, lib, x, y) ==
    /\ DOMAIN T = 1 .. 3 + x + y
    /\ T[1] = Entry("strtab", StrtabValue(lib)) /\ T[2] = Entry("symtab", Pointer(lib, 4)) /\ T[3] = Entry("strsz", 2)
    /\ x = 1 => T[4] = Entry("gnu", Pointer(lib, 5))
    /\ y = 1 => T[4 + x] = Entry("sysv", Pointer(lib, 2))

(* The table ends before its null entry. *)
LEMMA TableShape == ASSUME NEW lib PROVE TableAt(Table(lib), lib, Gnus(lib), Sysvs(lib))
<1> DEFINE D == Dynamic(lib)
           x == Gnus(lib)
           y == Sysvs(lib)
           S == {D[i] : i \in 1 .. Len(D)}
           T == SubSeq(D, 1, NullAt(D) - 1)
<1>1. Table(lib) = T
  BY Zenon DEF Table, NullAt
<1>2. x \in {0, 1} /\ y \in {0, 1}
  BY DEF Gnus, Sysvs
<1>3. EntriesAt(D, lib, x, y)
  BY DynamicShape
<1> HIDE DEF D, x, y
<1>4. NullAt(D) = 4 + x + y
  BY <1>2, <1>3, NullIs
<1>5. Len(D) = 5 + x + y /\ D \in Seq(S)
  BY <1>3 DEF EntriesAt
<1> HIDE DEF S
<1>6. PICK m \in Nat : m = 3 + x + y
  BY <1>2
<1>7. NullAt(D) - 1 = m /\ 1 \in 1 .. Len(D) + 1 /\ m \in 0 .. Len(D) /\ 1 <= m
  BY <1>2, <1>4, <1>5, <1>6
<1>8. T = SubSeq(D, 1, m)
  BY <1>7
<1> HIDE DEF T
<1>9. T \in Seq(S) /\ Len(T) = (IF 1 <= m THEN m - 1 + 1 ELSE 0) /\ \A i \in 1 .. m - 1 + 1 : T[i] = D[1 + i - 1]
  BY <1>5, <1>7, <1>8, SubSeqProperties
<1>10. m - 1 + 1 = m /\ \A i \in 1 .. m : 1 + i - 1 = i
  OBVIOUS
<1>11. DOMAIN T = 1 .. m /\ \A i \in 1 .. m : T[i] = D[i]
  BY <1>7, <1>9, <1>10
<1>12. T[1] = D[1] /\ T[2] = D[2] /\ T[3] = D[3] /\ (x = 1 => T[4] = D[4]) /\ (y = 1 => T[4 + x] = D[4 + x])
  BY <1>2, <1>6, <1>11
<1>13. TableAt(T, lib, x, y)
  BY <1>3, <1>6, <1>11, <1>12 DEF TableAt, EntriesAt
<1> QED
  BY <1>1, <1>13 DEF x, y

(* The value of a tag that stands in one place, or in none. *)
LEMMA ValueAt ==
    ASSUME NEW T, NEW tag
    PROVE  /\ \A k \in Nat : k \in DOMAIN T /\ (\A i \in DOMAIN T : T[i].tag = tag <=> i = k) => ValueOf(T, tag) = T[k].value
           /\ (\A i \in DOMAIN T : T[i].tag # tag) => ValueOf(T, tag) = 0
<1> DEFINE places == {i \in DOMAIN T : T[i].tag = tag}
<1>1. ValueOf(T, tag) = IF places = {} THEN 0 ELSE T[Max(places)].value
  BY Zenon DEF ValueOf
<1>2. ASSUME NEW k \in Nat, k \in DOMAIN T, \A i \in DOMAIN T : T[i].tag = tag <=> i = k PROVE ValueOf(T, tag) = T[k].value
  <2>1. places = {k}
    BY <1>2
  <2>2. {k} \subseteq Nat /\ k \in {k} /\ \A z \in {k} : z <= k
    OBVIOUS
  <2>3. Max({k}) = k
    BY <2>2, GreatestIs
  <2>4. places # {}
    BY <2>1
  <2> HIDE DEF places
  <2> QED
    BY <1>1, <2>1, <2>3, <2>4, Zenon
<1>3. ASSUME \A i \in DOMAIN T : T[i].tag # tag PROVE ValueOf(T, tag) = 0
  BY <1>1, <1>3, Zenon
<1> QED
  BY <1>2, <1>3

(* What the table says. *)
LEMMA Values ==
    ASSUME NEW lib
    PROVE  /\ ValueOf(Table(lib), "strtab") = StrtabValue(lib) /\ ValueOf(Table(lib), "symtab") = Pointer(lib, 4)
           /\ ValueOf(Table(lib), "strsz") = 2
           /\ ValueOf(Table(lib), "gnu") = (IF "gnu" \in lib.hashes THEN Pointer(lib, 5) ELSE 0)
           /\ ValueOf(Table(lib), "sysv") = (IF "sysv" \in lib.hashes THEN Pointer(lib, 2) ELSE 0)
<1> DEFINE T == Table(lib)
           x == Gnus(lib)
           y == Sysvs(lib)
<1>1. TableAt(T, lib, x, y)
  BY TableShape
<1>2. x \in {0, 1} /\ y \in {0, 1} /\ (x = 1 <=> "gnu" \in lib.hashes) /\ (y = 1 <=> "sysv" \in lib.hashes)
  BY DEF Gnus, Sysvs
<1> HIDE DEF T, x, y
<1>3. /\ DOMAIN T = 1 .. 3 + x + y /\ T[1].tag = "strtab" /\ T[2].tag = "symtab" /\ T[3].tag = "strsz"
      /\ (x = 1 => T[4].tag = "gnu") /\ (y = 1 => T[4 + x].tag = "sysv")
  BY <1>1 DEF TableAt, Entry
<1>4. /\ T[1].value = StrtabValue(lib) /\ T[2].value = Pointer(lib, 4) /\ T[3].value = 2
      /\ (x = 1 => T[4].value = Pointer(lib, 5)) /\ (y = 1 => T[4 + x].value = Pointer(lib, 2))
  BY <1>1 DEF TableAt, Entry
<1>5. \A i \in DOMAIN T : i \in Nat /\ (i = 1 \/ i = 2 \/ i = 3 \/ (i = 4 /\ x = 1) \/ (i = 4 + x /\ y = 1 /\ i # 1 /\ i # 2 /\ i # 3))
  BY <1>2, <1>3
<1>6. 1 \in DOMAIN T /\ 2 \in DOMAIN T /\ 3 \in DOMAIN T /\ (x = 1 => 4 \in DOMAIN T) /\ (y = 1 => 4 + x \in DOMAIN T /\ 4 + x \in Nat)
  BY <1>2, <1>3
<1>7. \A i \in DOMAIN T : T[i].tag = "strtab" <=> i = 1
  BY <1>3, <1>5
<1>8. \A i \in DOMAIN T : T[i].tag = "symtab" <=> i = 2
  BY <1>3, <1>5
<1>9. \A i \in DOMAIN T : T[i].tag = "strsz" <=> i = 3
  BY <1>3, <1>5
<1>10. \A i \in DOMAIN T : T[i].tag = "gnu" <=> i = 4 /\ x = 1
  BY <1>2, <1>3, <1>5
<1>11. \A i \in DOMAIN T : T[i].tag = "sysv" <=> i = 4 + x /\ y = 1
  BY <1>2, <1>3, <1>5
<1>12. ValueOf(T, "strtab") = StrtabValue(lib)
  BY <1>4, <1>6, <1>7, ValueAt
<1>13. ValueOf(T, "symtab") = Pointer(lib, 4)
  BY <1>4, <1>6, <1>8, ValueAt
<1>14. ValueOf(T, "strsz") = 2
  BY <1>4, <1>6, <1>9, ValueAt
<1>15. x = 1 => ValueOf(T, "gnu") = Pointer(lib, 5)
  BY <1>4, <1>6, <1>10, ValueAt
<1>16. x # 1 => ValueOf(T, "gnu") = 0
  BY <1>10, ValueAt
<1>17. y = 1 => ValueOf(T, "sysv") = Pointer(lib, 2)
  BY <1>4, <1>6, <1>11, ValueAt
<1>18. y # 1 => ValueOf(T, "sysv") = 0
  BY <1>11, ValueAt
<1> QED
  BY <1>2, <1>12, <1>13, <1>14, <1>15, <1>16, <1>17, <1>18 DEF T

(* A table address that a scan keeps can be read, or there is none. *)
LEMMA FixedReadable ==
    ASSUME NEW lib, NEW bias, NEW a
    PROVE  /\ fix_table_address(lib, bias, a) # 0 => CanRead(lib, fix_table_address(lib, bias, a))
           /\ fix_table_address(lib, bias, 0) = 0
<1> DEFINE fixed(x) == IF x # 0 /\ x < bias THEN x + bias ELSE x
<1>1. \A x : fix_table_address(lib, bias, x) = IF CanRead(lib, fixed(x)) THEN fixed(x) ELSE 0
  BY Zenon DEF fix_table_address
<1>2. fixed(0) = 0
  OBVIOUS
<1> HIDE DEF fixed
<1> QED
  BY <1>1, <1>2, Zenon

(* The text of a library can be read, and the data if it was made readable. *)
LEMMA Readable ==
    ASSUME NEW lib \in Libraries, NEW c \in Nat
    PROVE  /\ c <= 5 => CanRead(lib, ElfBase + c) /\ MapOf(lib, ElfBase + c) = TextMap(lib)
           /\ c \in 8 .. 13 => (CanRead(lib, ElfBase + c) <=> lib.dynReadable) /\ MapOf(lib, ElfBase + c) = DataMap(lib)
<1>1. ElfBase \in Nat
  BY ImageAssumption
<1>2. ASSUME c <= 5 PROVE CanRead(lib, ElfBase + c) /\ MapOf(lib, ElfBase + c) = TextMap(lib)
  <2>1. ElfBase + c \in Int /\ ElfBase + c \in ElfBase .. ElfBase + 5
    BY <1>1, <1>2
  <2>2. MapOf(lib, ElfBase + c) = TextMap(lib)
    BY <2>1, MapAtPlace, Zenon
  <2>3. "r" \in TextMap(lib).prot
    BY MapAttributes
  <2> QED
    BY <2>2, <2>3, Zenon DEF CanRead
<1>3. ASSUME c \in 8 .. 13
      PROVE  (CanRead(lib, ElfBase + c) <=> lib.dynReadable) /\ MapOf(lib, ElfBase + c) = DataMap(lib)
  <2>1. ElfBase + c \in Int /\ ElfBase + c \in ElfBase + 8 .. ElfBase + 13
    BY <1>1, <1>3
  <2>2. MapOf(lib, ElfBase + c) = DataMap(lib)
    BY <2>1, MapAtPlace, Zenon
  <2>3. "r" \in DataMap(lib).prot <=> lib.dynReadable
    BY MapAttributes
  <2> QED
    BY <2>2, <2>3, Zenon DEF CanRead
<1> QED
  BY <1>2, <1>3

(* Pointers into the text end at the text, wherever they were linked. *)
LEMMA PointersFixed ==
    ASSUME NEW lib \in Libraries, NEW c \in 2 .. 5
    PROVE  /\ fix_table_address(lib, ElfBase - lib.min, Pointer(lib, c)) = ElfBase + c
           /\ fix_table_address(lib, ElfBase - lib.min, ElfBase + c) = ElfBase + c
<1> DEFINE bias == ElfBase - lib.min
           fixed(x) == IF x # 0 /\ x < bias THEN x + bias ELSE x
<1>1. \A x : fix_table_address(lib, bias, x) = IF CanRead(lib, fixed(x)) THEN fixed(x) ELSE 0
  BY Zenon DEF fix_table_address
<1>2. lib.min \in Nat /\ (lib.min = ElfBase \/ 2 * lib.min + 5 < ElfBase) /\ ElfBase \in Nat /\ ElfBase > 20
  BY ImageAssumption, LibraryEnds
<1>3. Pointer(lib, c) = ElfBase + c \/ (Pointer(lib, c) = lib.min + c /\ lib.min # ElfBase)
  BY <1>2 DEF Pointer, BiasOf
<1>4. fixed(ElfBase + c) = ElfBase + c
  BY <1>2
<1>5. lib.min # ElfBase => fixed(lib.min + c) = ElfBase + c
  BY <1>2
<1> HIDE DEF fixed, bias
<1>6. fixed(Pointer(lib, c)) = ElfBase + c
  BY <1>3, <1>4, <1>5, Zenon
<1>7. CanRead(lib, ElfBase + c)
  BY Readable
<1> QED
  BY <1>1, <1>4, <1>6, <1>7, Zenon DEF bias

(* The image with its tables. *)
TabledImage(lib, dynamic, strsz, strtab, symtab, gnu, sysv) ==
    [base |-> ElfBase, phdr |-> ElfBase + 1, bias |-> ElfBase - lib.min, size |-> 14 + ZeroLen(lib), loads |-> 2,
     segments |-> OwnMaps(lib), bss |-> ZeroMaps(lib), dynamic |-> dynamic, strtab |-> strtab, symtab |-> symtab,
     strsz |-> strsz, gnu |-> gnu, sysv |-> sysv]

(* The two orders in which the scans fill it in. *)
BaseFills(lib, d, n, t, s, g, v) ==
    [ImageOf(lib) EXCEPT !.dynamic = d, !.strsz = n, !.strtab = t, !.symtab = s, !.gnu = g, !.sysv = v]
RecordFills(lib, d, n, t, s, g, v) ==
    [ImageOf(lib) EXCEPT !.dynamic = d, !.strsz = n, !.sysv = v, !.gnu = g, !.strtab = t, !.symtab = s]

(* Both give the same. *)
LEMMA TabledAre ==
    ASSUME NEW lib, NEW d, NEW n, NEW t, NEW s, NEW g, NEW v
    PROVE  /\ BaseFills(lib, d, n, t, s, g, v) = TabledImage(lib, d, n, t, s, g, v)
           /\ RecordFills(lib, d, n, t, s, g, v) = TabledImage(lib, d, n, t, s, g, v)
<1> DEFINE r1 == [ImageOf(lib) EXCEPT !.dynamic = d]
           r2 == [r1 EXCEPT !.strsz = n]
           a3 == [r2 EXCEPT !.strtab = t]
           a4 == [a3 EXCEPT !.symtab = s]
           a5 == [a4 EXCEPT !.gnu = g]
           a6 == [a5 EXCEPT !.sysv = v]
           b3 == [r2 EXCEPT !.sysv = v]
           b4 == [b3 EXCEPT !.gnu = g]
           b5 == [b4 EXCEPT !.strtab = t]
           b6 == [b5 EXCEPT !.symtab = s]
<1>1. BaseFills(lib, d, n, t, s, g, v) = a6
  BY DEF BaseFills
<1>2. RecordFills(lib, d, n, t, s, g, v) = b6
  BY DEF RecordFills
<1>3. r1 = TabledImage(lib, d, 0, 0, 0, 0, 0)
  BY DEF ImageOf, TabledImage
<1> HIDE DEF r1
<1>4. r2 = TabledImage(lib, d, n, 0, 0, 0, 0)
  BY <1>3 DEF TabledImage
<1> HIDE DEF r2
<1>5. a3 = TabledImage(lib, d, n, t, 0, 0, 0)
  BY <1>4 DEF TabledImage
<1> HIDE DEF a3
<1>6. a4 = TabledImage(lib, d, n, t, s, 0, 0)
  BY <1>5 DEF TabledImage
<1> HIDE DEF a4
<1>7. a5 = TabledImage(lib, d, n, t, s, g, 0)
  BY <1>6 DEF TabledImage
<1> HIDE DEF a5
<1>8. a6 = TabledImage(lib, d, n, t, s, g, v)
  BY <1>7 DEF TabledImage
<1> HIDE DEF a6
<1>9. b3 = TabledImage(lib, d, n, 0, 0, 0, v)
  BY <1>4 DEF TabledImage
<1> HIDE DEF b3
<1>10. b4 = TabledImage(lib, d, n, 0, 0, g, v)
  BY <1>9 DEF TabledImage
<1> HIDE DEF b4
<1>11. b5 = TabledImage(lib, d, n, t, 0, g, v)
  BY <1>10 DEF TabledImage
<1> HIDE DEF b5
<1>12. b6 = TabledImage(lib, d, n, t, s, g, v)
  BY <1>11 DEF TabledImage
<1> HIDE DEF b6
<1> QED
  BY <1>1, <1>2, <1>8, <1>12, Zenon

(* The table of the scan of the header in memory. *)
BaseTable(lib) == IF lib.dynReadable THEN Table(lib) ELSE <<>>
Fixed(lib, list, tag) == fix_table_address(lib, ElfBase - lib.min, ValueOf(list, tag))

(* What the scan of the header in memory gives. *)
LEMMA FromBaseIs ==
    ASSUME NEW lib \in Libraries
    PROVE  FromBase(lib) = IF lib.damage \in {"magic", "phoff"} THEN NoScan
                           ELSE TabledImage(lib, IF lib.dynReadable THEN ElfBase + 8 ELSE 0, ValueOf(BaseTable(lib), "strsz"),
                                            Fixed(lib, BaseTable(lib), "strtab"), Fixed(lib, BaseTable(lib), "symtab"),
                                            Fixed(lib, BaseTable(lib), "gnu"), Fixed(lib, BaseTable(lib), "sysv"))
<1>1. ElfBase \in Nat /\ lib.min \in Nat
  BY ImageAssumption, LibraryEnds
<1>2. HeaderSound(lib) <=> lib.damage \notin {"magic", "phoff"}
  <2>1. ElfBase + 0 = ElfBase
    BY <1>1
  <2>2. MapOf(lib, ElfBase) = TextMap(lib) /\ CanRead(lib, ElfBase + 1)
    BY <2>1, Readable
  <2>3. "r" \in TextMap(lib).prot /\ TextMap(lib).start = ElfBase
    BY MapAttributes, MapBounds
  <2> QED
    BY <2>2, <2>3, Zenon DEF HeaderSound
<1> DEFINE s == ImageOf(lib)
           at == s.bias + Programs(lib)[3].vaddr
           ok == CanRead(lib, at) /\ CanRead(lib, at + Programs(lib)[3].memsz - 1)
           list == IF ok THEN Table(lib) ELSE <<>>
<1>3. at = ElfBase + 8 /\ at + Programs(lib)[3].memsz - 1 = ElfBase + 13
  <2>1. s.bias = ElfBase - lib.min
    BY DEF ImageOf
  <2>2. Programs(lib)[3].vaddr = lib.min + 8 /\ Programs(lib)[3].memsz = 6
    BY ThreePrograms
  <2> QED
    BY <1>1, <2>1, <2>2
<1>4. ok <=> lib.dynReadable
  <2>1. (CanRead(lib, ElfBase + 8) <=> lib.dynReadable) /\ (CanRead(lib, ElfBase + 13) <=> lib.dynReadable)
    BY Readable
  <2> QED
    BY <1>3, <2>1, Zenon
<1>5. list = BaseTable(lib)
  BY <1>4, Zenon DEF BaseTable
<1>6. s.bias = ElfBase - lib.min
  BY DEF ImageOf
<1>7. ScanTables(lib, s) = [s EXCEPT !.dynamic = IF ok THEN at ELSE 0, !.strsz = ValueOf(list, "strsz"),
                 !.strtab = fix_table_address(lib, s.bias, ValueOf(list, "strtab")),
                 !.symtab = fix_table_address(lib, s.bias, ValueOf(list, "symtab")),
                 !.gnu = fix_table_address(lib, s.bias, ValueOf(list, "gnu")),
                 !.sysv = fix_table_address(lib, s.bias, ValueOf(list, "sysv"))]
  BY Zenon DEF ScanTables
<1>8. (IF ok THEN at ELSE 0) = IF lib.dynReadable THEN ElfBase + 8 ELSE 0
  BY <1>3, <1>4
<1>9. ScanTables(lib, s) =
          TabledImage(lib, IF lib.dynReadable THEN ElfBase + 8 ELSE 0, ValueOf(BaseTable(lib), "strsz"),
                      Fixed(lib, BaseTable(lib), "strtab"), Fixed(lib, BaseTable(lib), "symtab"),
                      Fixed(lib, BaseTable(lib), "gnu"), Fixed(lib, BaseTable(lib), "sysv"))
  <2> DEFINE dynamic == IF lib.dynReadable THEN ElfBase + 8 ELSE 0
             strsz == ValueOf(BaseTable(lib), "strsz")
             strtab == Fixed(lib, BaseTable(lib), "strtab")
             symtab == Fixed(lib, BaseTable(lib), "symtab")
             gnu == Fixed(lib, BaseTable(lib), "gnu")
             sysv == Fixed(lib, BaseTable(lib), "sysv")
  <2>1. ScanTables(lib, s) = BaseFills(lib, dynamic, strsz, strtab, symtab, gnu, sysv)
    <3> HIDE DEF ok, at, list
    <3> QED
      BY <1>5, <1>6, <1>7, <1>8, Zenon DEF Fixed, BaseFills
  <2> HIDE DEF dynamic, strsz, strtab, symtab, gnu, sysv
  <2>2. ScanTables(lib, s) = TabledImage(lib, dynamic, strsz, strtab, symtab, gnu, sysv)
    BY <2>1, TabledAre, Zenon
  <2> QED
    BY <2>2 DEF dynamic, strsz, strtab, symtab, gnu, sysv
<1>10. FromBase(lib) = IF HeaderSound(lib) THEN ScanTables(lib, s) ELSE NoScan
  BY ScanLoadsAre, Zenon DEF FromBase
<1> QED
  BY <1>2, <1>9, <1>10, Zenon

(* What the linker's record holds. *)
LEMMA RecordHolds ==
    ASSUME NEW lib \in Libraries
    PROVE  /\ lib.record # "linker" => SoInfo(lib).base = ElfBase
           /\ SoInfo(lib).phdr = ElfBase + 1 /\ SoInfo(lib).phnum = 3 /\ SoInfo(lib).size = 14 + ZeroLen(lib)
           /\ lib.record = "bias" => SoInfo(lib).bias = ElfBase - 4
           /\ lib.record = "honest" => SoInfo(lib).bias = ElfBase - lib.min
           /\ SoInfo(lib).dyn = (IF lib.record = "dyn" THEN ElfBase - 3 ELSE ElfBase + 8)
           /\ SoInfo(lib).strtab = ElfBase + 3 /\ SoInfo(lib).strsz = 2
           /\ SoInfo(lib).symtab = (IF lib.record = "early" THEN 0 ELSE ElfBase + 4)
<1>1. KT_PAGE_END(8 + lib.memsz) = 14 + ZeroLen(lib)
  BY LibraryEnds
<1>2. /\ lib.record # "linker" => SoInfo(lib).base = ElfBase
      /\ SoInfo(lib).phdr = ElfBase + 1 /\ SoInfo(lib).phnum = 3 /\ SoInfo(lib).size = KT_PAGE_END(8 + lib.memsz)
  BY DEF SoInfo
<1>3. /\ lib.record = "bias" => SoInfo(lib).bias = ElfBase - 4
      /\ lib.record = "honest" => SoInfo(lib).bias = BiasOf(lib)
  BY DEF SoInfo
<1>4. /\ SoInfo(lib).dyn = (IF lib.record = "dyn" THEN ElfBase - 3 ELSE ElfBase + 8)
      /\ SoInfo(lib).strtab = ElfBase + 3 /\ SoInfo(lib).strsz = 2
      /\ SoInfo(lib).symtab = (IF lib.record = "early" THEN 0 ELSE ElfBase + 4)
  BY DEF SoInfo
<1> QED
  BY <1>1, <1>2, <1>3, <1>4 DEF BiasOf

(* A record that tells of its program headers and of its tables, and whose *)
(* dynamic table can be read.                                              *)
Useful(lib) == lib.record \in {"honest", "bias"} /\ lib.dynReadable

(* Its header is accepted; no other record's loads are. *)
HeaderWith(lib, bias) ==
    [NoScan EXCEPT !.base = ElfBase, !.phdr = ElfBase + 1, !.size = 14 + ZeroLen(lib), !.bias = bias]

(* What is taken from the record first. *)
LEMMA SoHeaderIs ==
    ASSUME NEW lib \in Libraries, lib.record \in {"honest", "bias", "dyn"}
    PROVE  /\ ~Useful(lib) => SoHeader(lib, SoInfo(lib)) = NoScan
           /\ Useful(lib) /\ lib.record = "bias" => SoHeader(lib, SoInfo(lib)) = HeaderWith(lib, 0)
           /\ Useful(lib) /\ lib.record = "honest" =>
                  \E bias \in {0, ElfBase - lib.min} : SoHeader(lib, SoInfo(lib)) = HeaderWith(lib, bias)
<1> DEFINE si == SoInfo(lib)
           base == SoBase(lib, si)
           m == MapOf(lib, base)
           sound == /\ "r" \in m.prot /\ base = m.start
                    /\ MapInImage(MapOf(lib, si.phdr), base, si.size)
                    /\ lib.record = "linker" \/ MapInImage(MapOf(lib, si.dyn), base, si.size)
           bias == IF MapInImage(MapOf(lib, si.bias), base, si.size) THEN si.bias ELSE 0
<1>1. SoHeader(lib, si) = IF sound THEN [NoScan EXCEPT !.base = base, !.phdr = si.phdr, !.size = si.size, !.bias = bias]
                          ELSE NoScan
  BY Zenon DEF SoHeader
<1>2. ElfBase \in Nat /\ ElfBase > 20 /\ ZeroLen(lib) \in Nat
  BY MapBounds
<1>3. /\ si.base = ElfBase /\ si.phdr = ElfBase + 1 /\ si.size = 14 + ZeroLen(lib)
      /\ si.dyn = (IF lib.record = "dyn" THEN ElfBase - 3 ELSE ElfBase + 8)
  BY RecordHolds
<1>4. base = ElfBase
  <2>1. si.base # 0
    BY <1>2, <1>3
  <2> QED
    BY <1>3, <2>1, Zenon DEF SoBase
<1>5. MapOf(lib, ElfBase) = TextMap(lib) /\ MapOf(lib, ElfBase + 1) = TextMap(lib) /\ MapOf(lib, ElfBase + 8) = DataMap(lib)
  <2>1. ElfBase + 0 = ElfBase
    BY <1>2
  <2> QED
    BY <2>1, Readable
<1>6. /\ "r" \in TextMap(lib).prot /\ ("r" \in DataMap(lib).prot <=> lib.dynReadable)
      /\ TextMap(lib).start = ElfBase /\ TextMap(lib).end = ElfBase + 6
      /\ DataMap(lib).start = ElfBase + 8 /\ DataMap(lib).end = ElfBase + 14
  BY MapAttributes, MapBounds
<1>7. MapInImage(TextMap(lib), ElfBase, 14 + ZeroLen(lib)) /\ (MapInImage(DataMap(lib), ElfBase, 14 + ZeroLen(lib)) <=> lib.dynReadable)
  BY <1>2, <1>6 DEF MapInImage
<1>8. ~MapInImage(MapOf(lib, ElfBase - 3), ElfBase, si.size) /\ ~MapInImage(MapOf(lib, ElfBase - 4), ElfBase, si.size)
  <2>1. ElfBase - 3 \in Int /\ ElfBase - 3 < ElfBase /\ ElfBase - 4 \in Int /\ ElfBase - 4 < ElfBase
    BY <1>2
  <2> QED
    BY <2>1, NotBefore, Zenon
<1>9. MapInImage(MapOf(lib, si.dyn), base, si.size) <=> Useful(lib)
  <2>1. CASE lib.record = "dyn"
    BY <1>3, <1>4, <1>8, <2>1 DEF Useful
  <2>2. CASE lib.record # "dyn"
    BY <1>3, <1>4, <1>5, <1>7, <2>2 DEF Useful
  <2> QED
    BY <2>1, <2>2
<1>10. sound <=> Useful(lib)
  <2>1. "r" \in m.prot /\ base = m.start
    BY <1>4, <1>5, <1>6, Zenon
  <2>2. MapInImage(MapOf(lib, si.phdr), base, si.size)
    BY <1>3, <1>4, <1>5, <1>7, Zenon
  <2>3. lib.record # "linker"
    OBVIOUS
  <2> QED
    BY <1>9, <2>1, <2>2, <2>3, Zenon
<1> HIDE DEF sound
<1>11. Useful(lib) => SoHeader(lib, si) = HeaderWith(lib, bias)
  BY <1>1, <1>3, <1>4, <1>10, Zenon DEF HeaderWith
<1>12. lib.record = "bias" => bias = 0
  BY <1>4, <1>8, RecordHolds
<1>13. lib.record = "honest" => bias \in {0, ElfBase - lib.min}
  BY RecordHolds
<1> HIDE DEF bias
<1> QED
  BY <1>1, <1>10, <1>11, <1>12, <1>13

(* With the loads its bias is right, however wrong the record has it. *)
LEMMA SpanIs ==
    ASSUME NEW lib \in Libraries, NEW bias \in {0, ElfBase - lib.min}
    PROVE  /\ HeaderWith(lib, bias) # NoScan
           /\ [HeaderWith(lib, bias) EXCEPT !.loads = 2, !.bias = SoBias(HeaderWith(lib, bias), TwoLoads(lib))]
              = Measured(ElfBase, ElfBase + 1, 2, ElfBase - lib.min, 14 + ZeroLen(lib))
<1> DEFINE r1 == [NoScan EXCEPT !.base = ElfBase]
           r2 == [r1 EXCEPT !.phdr = ElfBase + 1]
           r3 == [r2 EXCEPT !.size = 14 + ZeroLen(lib)]
           r4 == [r3 EXCEPT !.bias = bias]
           r5 == [r4 EXCEPT !.loads = 2]
           r6 == [r5 EXCEPT !.bias = ElfBase - lib.min]
<1>1. HeaderWith(lib, bias) = r4
  BY DEF HeaderWith
<1>2. r1 = Measured(ElfBase, 0, 0, 0, 0)
  BY DEF NoScan, Measured
<1> HIDE DEF r1
<1>3. r2 = Measured(ElfBase, ElfBase + 1, 0, 0, 0)
  BY <1>2 DEF Measured
<1> HIDE DEF r2
<1>4. r3 = Measured(ElfBase, ElfBase + 1, 0, 0, 14 + ZeroLen(lib))
  BY <1>3 DEF Measured
<1> HIDE DEF r3
<1>5. r4 = Measured(ElfBase, ElfBase + 1, 0, bias, 14 + ZeroLen(lib))
  BY <1>4 DEF Measured
<1>6. r4.bias = bias /\ r4.base = ElfBase
  BY <1>5 DEF Measured
<1> HIDE DEF r4
<1>7. r5 = Measured(ElfBase, ElfBase + 1, 2, bias, 14 + ZeroLen(lib))
  BY <1>5 DEF Measured
<1> HIDE DEF r5
<1>8. r6 = Measured(ElfBase, ElfBase + 1, 2, ElfBase - lib.min, 14 + ZeroLen(lib))
  BY <1>7 DEF Measured
<1>9. SoBias(r4, TwoLoads(lib)) = ElfBase - lib.min
  <2>1. SpanStart(ToSet(TwoLoads(lib))) = lib.min
    BY LoadsSpan
  <2> QED
    BY <1>6, <2>1 DEF SoBias
<1>10. [r4 EXCEPT !.loads = 2, !.bias = ElfBase - lib.min] = r6
  BY DEF r5
<1>11. r4 # NoScan
  <2>1. ElfBase # 0
    BY ImageAssumption
  <2>2. NoScan.base = 0
    BY DEF NoScan
  <2> QED
    BY <1>6, <2>1, <2>2
<1> HIDE DEF r6
<1> QED
  BY <1>1, <1>8, <1>9, <1>10, <1>11, Zenon

(* The measures and the maps are an image. *)
LEMMA MeasuredImage ==
    ASSUME NEW lib
    PROVE  [Measured(ElfBase, ElfBase + 1, 2, ElfBase - lib.min, 14 + ZeroLen(lib))
               EXCEPT !.segments = OwnMaps(lib), !.bss = ZeroMaps(lib)] = ImageOf(lib)
<1> DEFINE r1 == [Measured(ElfBase, ElfBase + 1, 2, ElfBase - lib.min, 14 + ZeroLen(lib)) EXCEPT !.segments = OwnMaps(lib)]
<1>1. r1 = [base |-> ElfBase, phdr |-> ElfBase + 1, bias |-> ElfBase - lib.min, size |-> 14 + ZeroLen(lib), loads |-> 2,
            segments |-> OwnMaps(lib), bss |-> <<>>, dynamic |-> 0, strtab |-> 0, symtab |-> 0, strsz |-> 0, gnu |-> 0,
            sysv |-> 0]
  BY DEF Measured
<1>2. [r1 EXCEPT !.bss = ZeroMaps(lib)] = ImageOf(lib)
  <2> HIDE DEF r1
  <2> QED
    BY <1>1 DEF ImageOf
<1> QED
  BY <1>2

(* The record gives the image that the headers in memory give, or none. *)
LEMMA SoLoadsAre ==
    ASSUME NEW lib \in Libraries, lib.record \in {"honest", "bias", "dyn"}
    PROVE  SoLoads(lib, SoInfo(lib), SoHeader(lib, SoInfo(lib))) = IF Useful(lib) THEN ImageOf(lib) ELSE NoScan
<1> DEFINE si == SoInfo(lib)
           s == SoHeader(lib, si)
           heads == IF lib.record = "linker" THEN <<>> ELSE LoadsOf(lib, si.phdr, si.phnum)
           span == [s EXCEPT !.loads = Len(heads), !.bias = SoBias(s, heads)]
<1>1. SoLoads(lib, si, s) = IF s = NoScan \/ heads = <<>> THEN NoScan
                            ELSE [span EXCEPT !.segments = Segments(lib, span), !.bss = Bss(lib, span, Last(heads))]
  BY Zenon DEF SoLoads
<1>2. CASE ~Useful(lib)
  BY <1>1, <1>2, SoHeaderIs, Zenon
<1>3. CASE Useful(lib)
  <2>1. PICK bias \in {0, ElfBase - lib.min} : s = HeaderWith(lib, bias)
    <3>1. lib.record = "bias" \/ lib.record = "honest"
      BY <1>3 DEF Useful
    <3> HIDE DEF s
    <3>2. Useful(lib) /\ lib.record = "bias" => s = HeaderWith(lib, 0)
      BY SoHeaderIs DEF s
    <3>3. Useful(lib) /\ lib.record = "honest" => \E bias \in {0, ElfBase - lib.min} : s = HeaderWith(lib, bias)
      BY SoHeaderIs DEF s
    <3> QED
      BY <1>3, <3>1, <3>2, <3>3
  <2>2. heads = TwoLoads(lib)
    <3>1. lib.record # "linker"
      OBVIOUS
    <3>2. si.phdr = ElfBase + 1 /\ si.phnum = 3
      BY RecordHolds
    <3> QED
      BY <3>1, <3>2, LoadsAre, Zenon
  <2>3. Len(heads) = 2 /\ heads # <<>>
    BY <2>2, LoadsSpan, Zenon
  <2>4. span = Measured(ElfBase, ElfBase + 1, 2, ElfBase - lib.min, 14 + ZeroLen(lib)) /\ s # NoScan
    <3> HIDE DEF s, heads
    <3> QED
      BY <2>1, <2>2, <2>3, SpanIs, Zenon
  <2> HIDE DEF span, s, heads
  <2>5. span.base = ElfBase /\ span.size = 14 + ZeroLen(lib) /\ span.bias = ElfBase - lib.min
    BY <2>4 DEF Measured
  <2>6. Segments(lib, span) = OwnMaps(lib) /\ Bss(lib, span, Last(heads)) = ZeroMaps(lib)
    BY <2>2, <2>5, SpanSuffices, Zenon
  <2>7. [span EXCEPT !.segments = OwnMaps(lib), !.bss = ZeroMaps(lib)] = ImageOf(lib)
    BY <2>4, MeasuredImage, Zenon
  <2>8. SoLoads(lib, si, s) = ImageOf(lib)
    BY <1>1, <2>3, <2>4, <2>6, <2>7, Zenon
  <2> QED
    BY <1>3, <2>8, Zenon DEF s
<1> QED
  BY <1>2, <1>3

(* The image with the tables that the record tells of. *)
SoImage(lib) == TabledImage(lib, ElfBase + 8, 2, ElfBase + 3, ElfBase + 4, Fixed(lib, Table(lib), "gnu"), ValueOf(Table(lib), "sysv"))

(* What the record gives. *)
LEMMA FromSoInfoIs ==
    ASSUME NEW lib \in Libraries
    PROVE  /\ FromSoInfo(lib) = NoScan \/ (Useful(lib) /\ FromSoInfo(lib) = SoImage(lib))
           /\ Useful(lib) /\ lib.record = "honest" /\ lib.min # ElfBase => FromSoInfo(lib) = SoImage(lib)
<1> DEFINE si == SoInfo(lib)
           inMemory == SoLoads(lib, si, SoHeader(lib, si))
           s == IF Complete(lib, si) THEN inMemory ELSE NoScan
<1>1. FromSoInfo(lib) = IF s = NoScan THEN NoScan ELSE SoTables(lib, si, s)
  BY Zenon DEF FromSoInfo
<1>2. lib.record \in {"honest", "bias", "dyn", "early", "linker"}
  BY DEF Libraries, Layouts
<1>3. lib.record = "early" => ~Complete(lib, si)
  BY RecordHolds DEF Complete
<1>4. lib.record = "linker" => inMemory = NoScan
  BY Zenon DEF SoLoads
<1>5. lib.record \in {"honest", "bias", "dyn"} => inMemory = IF Useful(lib) THEN ImageOf(lib) ELSE NoScan
  BY SoLoadsAre
<1>6. s = NoScan \/ (Useful(lib) /\ s = ImageOf(lib))
  <2> HIDE DEF inMemory, si
  <2> QED
    BY <1>2, <1>3, <1>4, <1>5
<1>7. ImageOf(lib) # NoScan
  <2>1. ElfBase # 0
    BY ImageAssumption
  <2>2. NoScan.base = 0 /\ ImageOf(lib).base = ElfBase
    BY DEF NoScan, ImageOf
  <2> QED
    BY <2>1, <2>2
<1>8. Useful(lib) /\ lib.record = "honest" /\ lib.min # ElfBase => s = ImageOf(lib)
  <2> SUFFICES ASSUME Useful(lib), lib.record = "honest", lib.min # ElfBase PROVE s = ImageOf(lib)
    OBVIOUS
  <2>1. /\ si.base = ElfBase /\ si.size = 14 + ZeroLen(lib) /\ si.bias = ElfBase - lib.min /\ si.phdr = ElfBase + 1
        /\ si.dyn = ElfBase + 8 /\ si.strtab = ElfBase + 3 /\ si.symtab = ElfBase + 4
    BY RecordHolds
  <2>2. ElfBase \in Nat /\ ElfBase > 20 /\ lib.min \in Nat /\ ZeroLen(lib) \in Nat
    BY ImageAssumption, LibraryEnds
  <2> HIDE DEF si
  <2>3. 0 \notin {si.base, si.size, si.bias, si.phdr, si.dyn, si.strtab, si.symtab}
    BY <2>1, <2>2
  <2>4. Complete(lib, si)
    BY <2>3, Zenon DEF Complete
  <2> QED
    BY <1>5, <2>4 DEF si
<1>9. Useful(lib) => SoTables(lib, si, ImageOf(lib)) = SoImage(lib)
  <2> SUFFICES ASSUME Useful(lib) PROVE SoTables(lib, si, ImageOf(lib)) = SoImage(lib)
    OBVIOUS
  <2> DEFINE ok == CanRead(lib, si.dyn) /\ CanRead(lib, si.dyn + Programs(lib)[3].memsz - 1)
             list == IF ok THEN Table(lib) ELSE <<>>
             own(value, tag) == IF value = 0 THEN ValueOf(list, tag) ELSE value
             b == ImageOf(lib).bias
  <2>1. /\ si.dyn = ElfBase + 8 /\ si.strtab = ElfBase + 3 /\ si.symtab = ElfBase + 4 /\ si.strsz = 2
    BY RecordHolds DEF Useful
  <2>2. b = ElfBase - lib.min
    BY DEF ImageOf
  <2>3. ok
    <3>1. CanRead(lib, ElfBase + 8) /\ CanRead(lib, ElfBase + 13)
      BY Readable DEF Useful
    <3>2. si.dyn + Programs(lib)[3].memsz - 1 = ElfBase + 13
      <4>1. Programs(lib)[3].memsz = 6 /\ ElfBase \in Nat
        BY ThreePrograms, ImageAssumption
      <4> QED
        BY <2>1, <4>1
    <3> QED
      BY <2>1, <3>1, <3>2, Zenon
  <2>4. list = Table(lib)
    BY <2>3, Zenon
  <2>5. own(si.strsz, "strsz") = 2 /\ own(si.strtab, "strtab") = ElfBase + 3 /\ own(si.symtab, "symtab") = ElfBase + 4
    BY <2>1, ImageAssumption
  <2>6. SoTables(lib, si, ImageOf(lib)) =
            RecordFills(lib, si.dyn, own(si.strsz, "strsz"), fix_table_address(lib, b, own(si.strtab, "strtab")),
                        fix_table_address(lib, b, own(si.symtab, "symtab")), fix_table_address(lib, b, ValueOf(list, "gnu")),
                        ValueOf(list, "sysv"))
    BY Zenon DEF SoTables, RecordFills
  <2>7. fix_table_address(lib, ElfBase - lib.min, ElfBase + 3) = ElfBase + 3 /\ fix_table_address(lib, ElfBase - lib.min, ElfBase + 4) = ElfBase + 4
    BY PointersFixed
  <2> HIDE DEF ok, list, own, b, si
  <2>8. SoTables(lib, si, ImageOf(lib)) =
            RecordFills(lib, ElfBase + 8, 2, ElfBase + 3, ElfBase + 4, Fixed(lib, Table(lib), "gnu"), ValueOf(Table(lib), "sysv"))
    BY <2>1, <2>2, <2>4, <2>5, <2>6, <2>7, Zenon DEF Fixed
  <2> QED
    BY <2>8, TabledAre, Zenon DEF SoImage
<1> HIDE DEF s
<1> QED
  BY <1>1, <1>6, <1>7, <1>8, <1>9, Zenon

(* A library whose header was damaged in memory, as it was before. *)
Intact(lib) == [lib EXCEPT !.damage = IF @ = "table" THEN @ ELSE "none"]

(* It is a library like it. *)
LEMMA IntactIs ==
    ASSUME NEW lib \in Libraries
    PROVE  /\ Intact(lib) \in Libraries /\ Intact(lib).damage \notin {"magic", "phoff"}
           /\ Intact(lib).damage = "table" <=> lib.damage = "table"
           /\ Intact(lib).min = lib.min /\ Intact(lib).memsz = lib.memsz /\ Intact(lib).backed = lib.backed
           /\ Intact(lib).named = lib.named /\ Intact(lib).absolute = lib.absolute /\ Intact(lib).hashes = lib.hashes
           /\ Intact(lib).dynReadable = lib.dynReadable /\ Intact(lib).record = lib.record
<1>1. lib \in Layouts /\ (lib.backed \/ lib.named)
  BY DEF Libraries
<1>2. Intact(lib) \in Layouts
  BY <1>1 DEF Layouts, Intact
<1>3. /\ Intact(lib).min = lib.min /\ Intact(lib).memsz = lib.memsz /\ Intact(lib).backed = lib.backed
      /\ Intact(lib).named = lib.named /\ Intact(lib).absolute = lib.absolute /\ Intact(lib).hashes = lib.hashes
      /\ Intact(lib).dynReadable = lib.dynReadable /\ Intact(lib).record = lib.record
  BY <1>1 DEF Layouts, Intact
<1>4. Intact(lib).damage = IF lib.damage = "table" THEN "table" ELSE "none"
  BY <1>1 DEF Layouts, Intact
<1> QED
  BY <1>1, <1>2, <1>3, <1>4 DEF Libraries

(* Nothing but the header in memory tells them apart. *)
LEMMA IntactSame ==
    ASSUME NEW lib \in Libraries
    PROVE  /\ MapsOf(Intact(lib)) = MapsOf(lib) /\ ZeroLen(Intact(lib)) = ZeroLen(lib)
           /\ \A a : CanRead(Intact(lib), a) <=> CanRead(lib, a)
           /\ Table(Intact(lib)) = Table(lib)
           /\ \A d, n, t, s, g, v : TabledImage(Intact(lib), d, n, t, s, g, v) = TabledImage(lib, d, n, t, s, g, v)
<1> DEFINE lib2 == Intact(lib)
<1>1. /\ (lib2.damage = "table" <=> lib.damage = "table") /\ lib2.min = lib.min /\ lib2.memsz = lib.memsz /\ lib2.backed = lib.backed
      /\ lib2.named = lib.named /\ lib2.absolute = lib.absolute /\ lib2.hashes = lib.hashes /\ lib2.dynReadable = lib.dynReadable
  BY IntactIs
<1> HIDE DEF lib2
<1>2. ZeroLen(lib2) = ZeroLen(lib)
  BY <1>1, Zenon DEF ZeroLen
<1>3. MapsOf(lib2) = MapsOf(lib)
  BY <1>1, Zenon DEF MapsOf
<1>4. \A a : MapOf(lib2, a) = MapOf(lib, a)
  BY <1>3, Zenon DEF MapOf
<1>5. \A a : CanRead(lib2, a) <=> CanRead(lib, a)
  BY <1>4, Zenon DEF CanRead
<1>6. \A c : Pointer(lib2, c) = Pointer(lib, c)
  BY <1>1, Zenon DEF Pointer, BiasOf
<1>7. Dynamic(lib2) = Dynamic(lib)
  <2>1. StrtabValue(lib2) = StrtabValue(lib)
    <3>1. CASE lib.damage = "table"
      BY <1>1, <3>1, Zenon DEF StrtabValue
    <3>2. CASE lib.damage # "table"
      BY <1>1, <1>6, <3>2, Zenon DEF StrtabValue
    <3> QED
      BY <3>1, <3>2
  <2>2. FirstEntries(lib2) = FirstEntries(lib)
    BY <1>6, <2>1, Zenon DEF FirstEntries
  <2>3. GnuEntry(lib2) = GnuEntry(lib)
    BY <1>1, <1>6, Zenon DEF GnuEntry
  <2>4. SysvEntry(lib2) = SysvEntry(lib)
    BY <1>1, <1>6, Zenon DEF SysvEntry
  <2> QED
    BY <2>2, <2>3, <2>4, DynamicParts, Zenon
<1>8. Table(lib2) = Table(lib)
  BY <1>7, Zenon DEF Table
<1>9. OwnMaps(lib2) = OwnMaps(lib)
  BY <1>2, <1>3, Zenon DEF OwnMaps, LastOwn
<1>10. ZeroMaps(lib2) = ZeroMaps(lib)
  BY <1>1, <1>2, Zenon DEF ZeroMaps, ZeroMap
<1>11. \A d, n, t, s, g, v : TabledImage(lib2, d, n, t, s, g, v) = TabledImage(lib, d, n, t, s, g, v)
  BY <1>1, <1>2, <1>9, <1>10, Zenon DEF TabledImage
<1> QED
  BY <1>2, <1>3, <1>5, <1>8, <1>11 DEF lib2

(* Which images are valid: those of libraries that were moved. *)
LEMMA ValidImages ==
    ASSUME NEW lib \in Libraries, NEW d, NEW n, NEW t, NEW s, NEW g, NEW v
    PROVE  ~isValid(NoScan) /\ (isValid(TabledImage(lib, d, n, t, s, g, v)) <=> lib.min # ElfBase)
<1>1. ElfBase \in Nat /\ ElfBase > 20 /\ lib.min \in Nat /\ ZeroLen(lib) \in Nat
  BY ImageAssumption, LibraryEnds
<1>2. ~isValid(NoScan)
  BY DEF isValid, NoScan
<1> DEFINE r == TabledImage(lib, d, n, t, s, g, v)
<1>3. r.base = ElfBase /\ r.size = 14 + ZeroLen(lib) /\ r.phdr = ElfBase + 1 /\ r.bias = ElfBase - lib.min
  BY DEF TabledImage
<1> HIDE DEF r
<1>4. isValid(r) <=> lib.min # ElfBase
  BY <1>1, <1>3 DEF isValid
<1> QED
  BY <1>2, <1>4 DEF r

(* What the intact header gives. *)
LEMMA FromIntact ==
    ASSUME NEW lib \in Libraries
    PROVE  FromBase(Intact(lib)) =
               TabledImage(lib, IF lib.dynReadable THEN ElfBase + 8 ELSE 0, ValueOf(BaseTable(lib), "strsz"),
                           Fixed(lib, BaseTable(lib), "strtab"), Fixed(lib, BaseTable(lib), "symtab"),
                           Fixed(lib, BaseTable(lib), "gnu"), Fixed(lib, BaseTable(lib), "sysv"))
<1> DEFINE lib2 == Intact(lib)
<1>1. lib2 \in Libraries /\ lib2.damage \notin {"magic", "phoff"} /\ lib2.dynReadable = lib.dynReadable /\ lib2.min = lib.min
  BY IntactIs
<1>2. FromBase(lib2) =
          TabledImage(lib2, IF lib2.dynReadable THEN ElfBase + 8 ELSE 0, ValueOf(BaseTable(lib2), "strsz"),
                      Fixed(lib2, BaseTable(lib2), "strtab"), Fixed(lib2, BaseTable(lib2), "symtab"),
                      Fixed(lib2, BaseTable(lib2), "gnu"), Fixed(lib2, BaseTable(lib2), "sysv"))
  <2> HIDE DEF lib2
  <2> QED
    BY <1>1, FromBaseIs, Zenon
<1>3. BaseTable(lib2) = BaseTable(lib)
  BY <1>1, IntactSame, Zenon DEF BaseTable
<1>4. \A b, a : fix_table_address(lib2, b, a) = fix_table_address(lib, b, a)
  <2> SUFFICES ASSUME NEW b, NEW a PROVE fix_table_address(lib2, b, a) = fix_table_address(lib, b, a)
    OBVIOUS
  <2> DEFINE fixed == IF a # 0 /\ a < b THEN a + b ELSE a
  <2>1. \A l : fix_table_address(l, b, a) = IF CanRead(l, fixed) THEN fixed ELSE 0
    BY Zenon DEF fix_table_address
  <2>2. CanRead(lib2, fixed) <=> CanRead(lib, fixed)
    BY IntactSame, Zenon
  <2> HIDE DEF fixed, lib2
  <2> QED
    BY <2>1, <2>2, Zenon
<1>5. \A list, tag : Fixed(lib2, list, tag) = Fixed(lib, list, tag)
  BY <1>1, <1>4, Zenon DEF Fixed
<1>6. \A d, n, t, s, g, v : TabledImage(lib2, d, n, t, s, g, v) = TabledImage(lib, d, n, t, s, g, v)
  BY IntactSame, Zenon
<1> HIDE DEF lib2
<1>7. FromBase(lib2) =
          TabledImage(lib, IF lib.dynReadable THEN ElfBase + 8 ELSE 0, ValueOf(BaseTable(lib), "strsz"),
                      Fixed(lib, BaseTable(lib), "strtab"), Fixed(lib, BaseTable(lib), "symtab"),
                      Fixed(lib, BaseTable(lib), "gnu"), Fixed(lib, BaseTable(lib), "sysv"))
  <2> DEFINE d == IF lib.dynReadable THEN ElfBase + 8 ELSE 0
             n == ValueOf(BaseTable(lib), "strsz")
             t == Fixed(lib, BaseTable(lib), "strtab")
             s == Fixed(lib, BaseTable(lib), "symtab")
             g == Fixed(lib, BaseTable(lib), "gnu")
             v == Fixed(lib, BaseTable(lib), "sysv")
  <2>1. \A tag : Fixed(lib2, BaseTable(lib2), tag) = Fixed(lib, BaseTable(lib), tag)
    BY <1>3, <1>5, Zenon
  <2>2. FromBase(lib2) = TabledImage(lib2, d, n, t, s, g, v)
    <3>1. (IF lib2.dynReadable THEN ElfBase + 8 ELSE 0) = d
      BY <1>1, Zenon
    <3>2. ValueOf(BaseTable(lib2), "strsz") = n
      BY <1>3, Zenon
    <3>3. Fixed(lib2, BaseTable(lib2), "strtab") = t /\ Fixed(lib2, BaseTable(lib2), "symtab") = s
      BY <2>1, Zenon
    <3>4. Fixed(lib2, BaseTable(lib2), "gnu") = g /\ Fixed(lib2, BaseTable(lib2), "sysv") = v
      BY <2>1, Zenon
    <3> HIDE DEF d, n, t, s, g, v
    <3> QED
      BY <1>2, <3>1, <3>2, <3>3, <3>4
  <2> HIDE DEF d, n, t, s, g, v
  <2>3. FromBase(lib2) = TabledImage(lib, d, n, t, s, g, v)
    BY <1>6, <2>2, Zenon
  <2> QED
    BY <2>3 DEF d, n, t, s, g, v
<1> QED
  BY <1>7 DEF lib2

(* A scan but for the tables that the scans may have otherwise. *)
Blank(s) == [s EXCEPT !.sysv = 0, !.strtab = 0]

(* Two images that differ in their string table and System V table only.   *)
LEMMA AlikeBut ==
    ASSUME NEW lib, NEW d, NEW n, NEW t, NEW s, NEW g, NEW v
    PROVE  /\ Blank(TabledImage(lib, d, n, t, s, g, v)) = TabledImage(lib, d, n, 0, s, g, 0)
           /\ TabledImage(lib, d, n, t, s, g, v).strtab = t
<1> DEFINE r1 == [TabledImage(lib, d, n, t, s, g, v) EXCEPT !.sysv = 0]
<1>1. r1 = TabledImage(lib, d, n, t, s, g, 0)
  BY DEF TabledImage
<1>2. Blank(TabledImage(lib, d, n, t, s, g, v)) = [r1 EXCEPT !.strtab = 0]
  BY DEF Blank
<1> HIDE DEF r1
<1>3. [r1 EXCEPT !.strtab = 0] = TabledImage(lib, d, n, 0, s, g, 0)
  BY <1>1 DEF TabledImage
<1>4. TabledImage(lib, d, n, t, s, g, v).strtab = t
  BY DEF TabledImage
<1> QED
  BY <1>2, <1>3, <1>4, Zenon

(* The two scans of a library agree. *)
ScansAgreeOf(lib, so) ==
    LET intact == FromBase([lib EXCEPT !.damage = IF @ = "table" THEN @ ELSE "none"])
    IN /\ lib.record = "honest" /\ lib.dynReadable => isValid(so) = isValid(intact)
       /\ isValid(so) => [so EXCEPT !.sysv = 0, !.strtab = 0] = [intact EXCEPT !.sysv = 0, !.strtab = 0]
       /\ isValid(so) /\ lib.damage # "table" => so.strtab = intact.strtab

(* They do, for every library. *)
LEMMA Agree == ASSUME NEW lib \in Libraries PROVE ScansAgreeOf(lib, FromSoInfo(lib))
<1> DEFINE so == FromSoInfo(lib)
           intact == FromBase(Intact(lib))
           d == IF lib.dynReadable THEN ElfBase + 8 ELSE 0
           n == ValueOf(BaseTable(lib), "strsz")
           t == Fixed(lib, BaseTable(lib), "strtab")
           s == Fixed(lib, BaseTable(lib), "symtab")
           g == Fixed(lib, BaseTable(lib), "gnu")
           v == Fixed(lib, BaseTable(lib), "sysv")
<1>1. intact = TabledImage(lib, d, n, t, s, g, v)
  BY FromIntact
<1>2. so = NoScan \/ (Useful(lib) /\ so = SoImage(lib))
  BY FromSoInfoIs
<1>3. Useful(lib) /\ lib.record = "honest" /\ lib.min # ElfBase => so = SoImage(lib)
  BY FromSoInfoIs
<1>4. isValid(intact) <=> lib.min # ElfBase
  BY <1>1, ValidImages, Zenon
<1>5. ~isValid(NoScan) /\ (isValid(SoImage(lib)) <=> lib.min # ElfBase)
  BY ValidImages, Zenon DEF SoImage
<1>6. lib.record = "honest" /\ lib.dynReadable => (isValid(so) <=> isValid(intact))
  <2> HIDE DEF so, intact
  <2> QED
    BY <1>2, <1>3, <1>4, <1>5, Zenon DEF Useful
<1>7. ASSUME isValid(so) PROVE Useful(lib) /\ so = SoImage(lib)
  BY <1>2, <1>5, <1>7, Zenon
<1>8. ASSUME Useful(lib)
      PROVE  d = ElfBase + 8 /\ n = 2 /\ s = ElfBase + 4 /\ g = Fixed(lib, Table(lib), "gnu")
             /\ (lib.damage # "table" => t = ElfBase + 3)
  <2>1. BaseTable(lib) = Table(lib) /\ d = ElfBase + 8
    BY <1>8, Zenon DEF Useful, BaseTable
  <2>2. n = 2
    BY <2>1, Values, Zenon
  <2>3. s = ElfBase + 4
    <3>1. fix_table_address(lib, ElfBase - lib.min, Pointer(lib, 4)) = ElfBase + 4
      BY PointersFixed
    <3>2. ValueOf(Table(lib), "symtab") = Pointer(lib, 4)
      BY Values, Zenon
    <3> QED
      BY <2>1, <3>1, <3>2, Zenon DEF Fixed
  <2>4. lib.damage # "table" => t = ElfBase + 3
    <3>1. fix_table_address(lib, ElfBase - lib.min, Pointer(lib, 3)) = ElfBase + 3
      BY PointersFixed
    <3>2. ValueOf(Table(lib), "strtab") = StrtabValue(lib)
      BY Values, Zenon
    <3> QED
      BY <2>1, <3>1, <3>2, Zenon DEF Fixed, StrtabValue
  <2> QED
    BY <2>1, <2>2, <2>3, <2>4, Zenon
<1> HIDE DEF d, n, t, s, g, v
<1>9. ASSUME isValid(so)
      PROVE  /\ Blank(so) = Blank(intact)
             /\ lib.damage # "table" => so.strtab = intact.strtab
  <2>1. so = SoImage(lib) /\ d = ElfBase + 8 /\ n = 2 /\ s = ElfBase + 4 /\ g = Fixed(lib, Table(lib), "gnu")
        /\ (lib.damage # "table" => t = ElfBase + 3)
    BY <1>7, <1>8, <1>9, Zenon
  <2>2. so = TabledImage(lib, d, n, ElfBase + 3, s, g, ValueOf(Table(lib), "sysv"))
    BY <2>1, Zenon DEF SoImage
  <2> DEFINE w == ValueOf(Table(lib), "sysv")
  <2> HIDE DEF w, so, intact
  <2>3. Blank(so) = TabledImage(lib, d, n, 0, s, g, 0) /\ so.strtab = ElfBase + 3
    BY <2>2, AlikeBut DEF w
  <2>4. Blank(intact) = TabledImage(lib, d, n, 0, s, g, 0) /\ intact.strtab = t
    BY <1>1, AlikeBut
  <2> QED
    BY <2>1, <2>3, <2>4, Zenon
<1>10. ScansAgreeOf(lib, so) <=>
       /\ lib.record = "honest" /\ lib.dynReadable => isValid(so) = isValid(intact)
       /\ isValid(so) => Blank(so) = Blank(intact)
       /\ isValid(so) /\ lib.damage # "table" => so.strtab = intact.strtab
  BY Zenon DEF ScansAgreeOf, Intact, Blank
<1>11. (isValid(so) <=> isValid(intact)) => isValid(so) = isValid(intact)
  BY Zenon DEF isValid
<1> HIDE DEF so, intact
<1>12. ScansAgreeOf(lib, so)
  BY <1>6, <1>9, <1>10, <1>11, Zenon
<1> QED
  BY <1>12 DEF so

(* A valid scan is the library's image with some tables. *)
ImageWith(lib, r) == \E d, n, t, s, g, v : r = TabledImage(lib, d, n, t, s, g, v)

(* Both scans are, if they are valid. *)
LEMMA ValidScans ==
    ASSUME NEW lib \in Libraries, NEW r \in {FromBase(lib), FromSoInfo(lib)}, isValid(r)
    PROVE  ImageWith(lib, r)
<1>1. ~isValid(NoScan)
  BY DEF isValid, NoScan
<1>2. FromBase(lib) = NoScan \/ ImageWith(lib, FromBase(lib))
  BY FromBaseIs, Zenon DEF ImageWith
<1>3. FromSoInfo(lib) = NoScan \/ ImageWith(lib, FromSoInfo(lib))
  BY FromSoInfoIs, Zenon DEF ImageWith, SoImage
<1> QED
  BY <1>1, <1>2, <1>3

(* Such an image is the whole library. *)
LEMMA WholeImage ==
    ASSUME NEW lib \in Libraries, NEW r, ImageWith(lib, r)
    PROVE  /\ ToSet(r.segments) = Own(lib) /\ r.segments[1].start = r.base
           /\ \A i \in 2 .. Len(r.segments) : r.segments[i - 1].end = r.segments[i].start
           /\ r.base + r.size = Last(r.segments).end
<1> DEFINE maps == MapsOf(lib)
           z == ZeroLen(lib)
           n == LastOwn(lib)
           segs == OwnMaps(lib)
<1>1. r.segments = segs /\ r.base = ElfBase /\ r.size = 14 + z
  BY DEF ImageWith, TabledImage
<1>2. n \in {4, 5} /\ DOMAIN segs = 1 .. n - 1 /\ Len(segs) = n - 1 /\ ToSet(segs) = Own(lib)
  BY OwnAre
<1>3. \A i \in 1 .. n - 1 : segs[i] = maps[i + 1]
  BY DEF OwnMaps
<1>4. \A i \in 2 .. n : Spans(i, maps[i], lib, z)
  <2> SUFFICES ASSUME NEW i \in 2 .. n PROVE Spans(i, maps[i], lib, z)
    OBVIOUS
  <2>1. n \in 1 .. Len(maps) /\ Len(maps) \in Nat
    BY MapPlaces DEF LastOwn
  <2>2. i \in 1 .. Len(maps)
    BY <1>2, <2>1
  <2> QED
    BY <2>2, MapSpans
<1>5. ElfBase \in Nat /\ z \in Nat /\ (n = IF z > 0 THEN 5 ELSE 4)
  BY MapBounds DEF LastOwn
<1> HIDE DEF maps, z, n, segs
<1>6. /\ maps[2].start = ElfBase /\ maps[2].end = maps[3].start /\ maps[3].end = maps[4].start
      /\ (n = 5 => maps[4].end = maps[5].start) /\ maps[n].end = ElfBase + (14 + z)
  <2>1. maps[2].start = ElfBase /\ maps[2].end = ElfBase + 6
    BY <1>2, <1>4, <1>5 DEF Spans
  <2>2. maps[3].start = ElfBase + 6 /\ maps[3].end = ElfBase + 8
    BY <1>2, <1>4, <1>5 DEF Spans
  <2>3. maps[4].start = ElfBase + 8 /\ maps[4].end = ElfBase + 14
    BY <1>2, <1>4, <1>5 DEF Spans
  <2>4. n = 5 => maps[5].start = ElfBase + 14 /\ maps[5].end = ElfBase + 14 + z
    BY <1>2, <1>4, <1>5 DEF Spans
  <2> QED
    BY <1>2, <1>5, <2>1, <2>2, <2>3, <2>4
<1>7. segs[1].start = ElfBase
  <2>1. segs[1] = maps[2]
    BY <1>2, <1>3
  <2> QED
    BY <1>6, <2>1
<1>8. \A i \in 2 .. n - 1 : segs[i - 1].end = segs[i].start
  <2> SUFFICES ASSUME NEW i \in 2 .. n - 1 PROVE segs[i - 1].end = segs[i].start
    OBVIOUS
  <2>1. segs[i - 1] = maps[i] /\ segs[i] = maps[i + 1]
    <3>1. i - 1 \in 1 .. n - 1 /\ (i - 1) + 1 = i /\ i \in 1 .. n - 1
      BY <1>2
    <3> QED
      BY <1>3, <3>1
  <2>2. i = 2 \/ i = 3 \/ (i = 4 /\ n = 5)
    BY <1>2
  <2> QED
    BY <1>6, <2>1, <2>2
<1>9. Last(segs).end = ElfBase + (14 + z)
  <2>1. Last(segs) = segs[n - 1]
    BY <1>2 DEF Last
  <2>2. n - 1 \in 1 .. n - 1 /\ (n - 1) + 1 = n
    BY <1>2
  <2>3. Last(segs) = maps[n]
    BY <1>3, <2>1, <2>2
  <2> QED
    BY <1>6, <2>3
<1> QED
  BY <1>1, <1>2, <1>7, <1>8, <1>9, Zenon

(* Its zeroed pages are those behind the file's part of the data. *)
LEMMA ZeroIsBehind ==
    ASSUME NEW lib \in Libraries, NEW r, ImageWith(lib, r)
    PROVE  ToSet(r.bss) = {m \in Own(lib) : m.start >= r.base + 14}
<1> DEFINE maps == MapsOf(lib)
           z == ZeroLen(lib)
           n == LastOwn(lib)
<1>1. r.bss = ZeroMaps(lib) /\ r.base = ElfBase
  BY DEF ImageWith, TabledImage
<1>2. n \in {4, 5} /\ Own(lib) = {maps[i] : i \in 2 .. n}
  BY OwnAre
<1>3. ElfBase \in Nat /\ z \in Nat /\ (n = IF z > 0 THEN 5 ELSE 4)
  BY MapBounds DEF LastOwn
<1>4. \A i \in 2 .. n : Spans(i, maps[i], lib, z)
  <2> SUFFICES ASSUME NEW i \in 2 .. n PROVE Spans(i, maps[i], lib, z)
    OBVIOUS
  <2>1. n \in 1 .. Len(maps) /\ Len(maps) \in Nat
    BY MapPlaces DEF LastOwn
  <2>2. i \in 1 .. Len(maps)
    BY <1>2, <2>1
  <2> QED
    BY <2>2, MapSpans
<1>5. ToSet(ZeroMaps(lib)) = IF z > 0 THEN {ZeroMap(lib)} ELSE {}
  <2>1. CASE z > 0
    <3>1. ZeroMaps(lib) = [k \in 1 .. 1 |-> ZeroMap(lib)]
      BY <2>1 DEF ZeroMaps
    <3> QED
      BY <2>1, <3>1 DEF ToSet
  <2>2. CASE ~(z > 0)
    <3>1. ZeroMaps(lib) = [k \in 1 .. 0 |-> ZeroMap(lib)]
      BY <2>2 DEF ZeroMaps
    <3> QED
      BY <2>2, <3>1 DEF ToSet
  <2> QED
    BY <2>1, <2>2
<1> HIDE DEF maps, z, n
<1>6. \A i \in 2 .. n : maps[i].start >= ElfBase + 14 <=> i = 5
  BY <1>2, <1>3, <1>4 DEF Spans
<1>7. n = 5 => maps[5] = ZeroMap(lib)
  BY <1>2, <1>3, <1>4 DEF Spans
<1>8. CASE n = 5
  <2>1. {m \in Own(lib) : m.start >= ElfBase + 14} = {maps[5]}
    BY <1>2, <1>6, <1>8
  <2> QED
    BY <1>1, <1>3, <1>5, <1>7, <1>8, <2>1
<1>9. CASE n = 4
  <2>1. {m \in Own(lib) : m.start >= ElfBase + 14} = {}
    BY <1>2, <1>6, <1>9
  <2> QED
    BY <1>1, <1>3, <1>5, <1>9, <2>1
<1> QED
  BY <1>2, <1>8, <1>9

(* An address that the symbol look-ups may use. *)
TableOk(lib, a) ==
    /\ CanRead(lib, a)
    /\ lib.damage # "table" => \E m \in Own(lib) : m.start <= a /\ a < m.end

(* An address in the text is one. *)
LEMMA TextOk == ASSUME NEW lib \in Libraries, NEW c \in 2 .. 5 PROVE TableOk(lib, ElfBase + c)
<1>1. CanRead(lib, ElfBase + c)
  BY Readable
<1>2. MapsOf(lib)[2] \in Own(lib) /\ MapsOf(lib)[2] = TextMap(lib)
  <2>1. Own(lib) = {MapsOf(lib)[i] : i \in 2 .. LastOwn(lib)} /\ LastOwn(lib) \in {4, 5}
    BY OwnAre
  <2>2. 2 \in 2 .. LastOwn(lib)
    BY <2>1
  <2> QED
    BY <2>1, <2>2, MapPlaces, Zenon
<1>3. ElfBase \in Nat /\ TextMap(lib).start = ElfBase /\ TextMap(lib).end = ElfBase + 6
  BY MapBounds
<1>4. TextMap(lib).start <= ElfBase + c /\ ElfBase + c < TextMap(lib).end
  BY <1>3
<1> QED
  BY <1>1, <1>2, <1>4, Zenon DEF TableOk

(* What the dynamic table says leads to such addresses, or to none. *)
LEMMA FixedOk ==
    ASSUME NEW lib \in Libraries, NEW tag \in {"strtab", "symtab", "gnu", "sysv"}, Fixed(lib, BaseTable(lib), tag) # 0
    PROVE  TableOk(lib, Fixed(lib, BaseTable(lib), tag))
<1> DEFINE a == Fixed(lib, BaseTable(lib), tag)
           bias == ElfBase - lib.min
<1>1. CanRead(lib, a)
  BY FixedReadable, Zenon DEF Fixed
<1>2. BaseTable(lib) = Table(lib)
  <2>1. SUFFICES ASSUME ~lib.dynReadable PROVE FALSE
    BY Zenon DEF BaseTable
  <2>2. BaseTable(lib) = <<>>
    BY <2>1, Zenon DEF BaseTable
  <2>3. ValueOf(<<>>, tag) = 0
    <3>1. \A i \in DOMAIN <<>> : <<>>[i].tag # tag
      OBVIOUS
    <3> QED
      BY <3>1, ValueAt, Zenon
  <2>4. a = fix_table_address(lib, bias, 0)
    BY <2>2, <2>3, Zenon DEF Fixed
  <2> QED
    BY <2>4, FixedReadable, Zenon
<1>3. CASE lib.damage = "table" /\ tag = "strtab"
  BY <1>1, <1>3, Zenon DEF TableOk
<1>4. CASE ~(lib.damage = "table" /\ tag = "strtab")
  <2>1. ValueOf(Table(lib), tag) = 0 \/ \E c \in 2 .. 5 : ValueOf(Table(lib), tag) = Pointer(lib, c)
    <3>1. 2 \in 2 .. 5 /\ 3 \in 2 .. 5 /\ 4 \in 2 .. 5 /\ 5 \in 2 .. 5
      OBVIOUS
    <3>2. CASE tag = "strtab"
      BY <1>4, <3>1, <3>2, Values, Zenon DEF StrtabValue
    <3>3. CASE tag = "symtab"
      BY <3>1, <3>3, Values, Zenon
    <3>4. CASE tag = "gnu"
      BY <3>1, <3>4, Values, Zenon
    <3>5. CASE tag = "sysv"
      BY <3>1, <3>5, Values, Zenon
    <3> QED
      BY <3>2, <3>3, <3>4, <3>5
  <2>2. a = fix_table_address(lib, bias, ValueOf(Table(lib), tag))
    BY <1>2, Zenon DEF Fixed
  <2>3. ValueOf(Table(lib), tag) # 0
    BY <2>2, FixedReadable, Zenon
  <2>4. PICK c \in 2 .. 5 : ValueOf(Table(lib), tag) = Pointer(lib, c)
    BY <2>1, <2>3, Zenon
  <2>5. a = ElfBase + c
    BY <2>2, <2>4, PointersFixed, Zenon
  <2> QED
    BY <2>5, TextOk, Zenon
<1> QED
  BY <1>3, <1>4

(* No scan hands out another address. *)
LEMMA TablesOk ==
    ASSUME NEW lib \in Libraries,
           NEW a \in {FromBase(lib).strtab, FromBase(lib).symtab, FromBase(lib).gnu, FromBase(lib).sysv,
                      FromSoInfo(lib).strtab, FromSoInfo(lib).symtab, FromSoInfo(lib).gnu} \ {0}
    PROVE  TableOk(lib, a)
<1> DEFINE fixed(tag) == Fixed(lib, BaseTable(lib), tag)
<1>1. \A d, n, t, s, g, v : LET r == TabledImage(lib, d, n, t, s, g, v)
                            IN r.strtab = t /\ r.symtab = s /\ r.gnu = g /\ r.sysv = v
  BY DEF TabledImage
<1>2. NoScan.strtab = 0 /\ NoScan.symtab = 0 /\ NoScan.gnu = 0 /\ NoScan.sysv = 0
  BY DEF NoScan
<1>3. FromBase(lib) = NoScan \/ \E d, n : FromBase(lib) = TabledImage(lib, d, n, fixed("strtab"), fixed("symtab"), fixed("gnu"), fixed("sysv"))
  BY FromBaseIs, Zenon
<1>4. \/ FromSoInfo(lib) = NoScan
      \/ \E d, n, v : FromSoInfo(lib) = TabledImage(lib, d, n, ElfBase + 3, ElfBase + 4, fixed("gnu"), v)
  <2>1. Useful(lib) => BaseTable(lib) = Table(lib)
    BY Zenon DEF Useful, BaseTable
  <2> QED
    BY <2>1, FromSoInfoIs, Zenon DEF SoImage
<1> HIDE DEF fixed
<1>5. /\ FromBase(lib).strtab \in {0, fixed("strtab")} /\ FromBase(lib).symtab \in {0, fixed("symtab")}
      /\ FromBase(lib).gnu \in {0, fixed("gnu")} /\ FromBase(lib).sysv \in {0, fixed("sysv")}
  <2>1. CASE FromBase(lib) = NoScan
    BY <1>2, <2>1
  <2>2. CASE FromBase(lib) # NoScan
    <3>1. PICK d, n : FromBase(lib) = TabledImage(lib, d, n, fixed("strtab"), fixed("symtab"), fixed("gnu"), fixed("sysv"))
      BY <1>3, <2>2, Zenon
    <3> QED
      BY <1>1, <3>1
  <2> QED
    BY <2>1, <2>2
<1>6. /\ FromSoInfo(lib).strtab \in {0, ElfBase + 3} /\ FromSoInfo(lib).symtab \in {0, ElfBase + 4}
      /\ FromSoInfo(lib).gnu \in {0, fixed("gnu")}
  <2>1. CASE FromSoInfo(lib) = NoScan
    BY <1>2, <2>1
  <2>2. CASE FromSoInfo(lib) # NoScan
    <3>1. PICK d, n, v : FromSoInfo(lib) = TabledImage(lib, d, n, ElfBase + 3, ElfBase + 4, fixed("gnu"), v)
      BY <1>4, <2>2, Zenon
    <3> QED
      BY <1>1, <3>1
  <2> QED
    BY <2>1, <2>2
<1>7. a \in {fixed("strtab"), fixed("symtab"), fixed("gnu"), fixed("sysv"), ElfBase + 3, ElfBase + 4} /\ a # 0
  BY <1>5, <1>6
<1>8. \A tag \in {"strtab", "symtab", "gnu", "sysv"} : fixed(tag) # 0 => TableOk(lib, fixed(tag))
  BY FixedOk DEF fixed
<1>9. TableOk(lib, ElfBase + 3) /\ TableOk(lib, ElfBase + 4)
  BY TextOk
<1> QED
  BY <1>7, <1>8, <1>9

ElfSpec == ElfInit /\ [][ElfNext]_elfVars

(* What was scanned is a library. *)
ScannedLibrary ==
    \/ scans = NoImage
    \/ \E lib \in Libraries : scans = [at |-> "scanned", lib |-> lib, base |-> FromBase(lib), so |-> FromSoInfo(lib)]

(* The descriptor is open and the file is mapped while it is read, and what *)
(* was found in it is told apart by its names.                             *)
DebugInOrder ==
    /\ debug \in [at : {"idle", "opened", "mapped"}, init : BOOLEAN, fd : BOOLEAN, mapped : BOOLEAN, read : BOOLEAN,
                  found : SUBSET [name : SymbolNames, value : {-1, 0, 3}, type : {"func", "object"}]]
    /\ (debug.at = "opened" <=> debug.fd) /\ (debug.at = "mapped" <=> debug.mapped)
    /\ \A s, t \in debug.found : s.name = t.name => s = t

(* Both are inductive. *)
ImageIInv == ScannedLibrary /\ DebugInOrder

(* Nothing was scanned or read at first. *)
LEMMA ImageStarts == ElfInit => ImageIInv
<1> SUFFICES ASSUME ElfInit PROVE ImageIInv
  OBVIOUS
<1>1. scans = NoImage /\ debug = NoDebug
  BY DEF ElfInit
<1>2. DebugInOrder
  BY <1>1 DEF DebugInOrder, NoDebug
<1> QED
  BY <1>1, <1>2 DEF ImageIInv, ScannedLibrary

(* What a file can be found to hold. *)
DebugSymbols == [name : SymbolNames, value : {-1, 0, 3}, type : {"func", "object"}]
DebugRecords == [at : {"idle", "opened", "mapped"}, init : BOOLEAN, fd : BOOLEAN, mapped : BOOLEAN, read : BOOLEAN,
                 found : SUBSET DebugSymbols]

(* Of the wanted symbols of a file the last of each name stays. *)
LEMMA FoundSymbols ==
    ASSUME NEW syms \in SymbolTables
    PROVE  FoundIn(syms) \in SUBSET DebugSymbols /\ \A s, t \in FoundIn(syms) : s.name = t.name => s = t
<1> DEFINE wanted == {i \in DOMAIN syms : WantedSymbol(syms[i])}
           last   == {i \in wanted : \A j \in wanted : syms[j].name = syms[i].name => j <= i}
           found  == {[name |-> syms[i].name, value |-> syms[i].value, type |-> syms[i].type] : i \in last}
<1>1. FoundIn(syms) = found
  BY DEF FoundIn
<1>2. \A i \in DOMAIN syms : i \in Nat /\ syms[i] \in SymbolRecord
  <2>1. CASE syms = <<>>
    BY <2>1
  <2>2. CASE syms \in {<<s, t>> : s \in SymbolRecord, t \in SymbolRecord}
    <3>1. PICK s \in SymbolRecord, t \in SymbolRecord : syms = <<s, t>>
      BY <2>2
    <3> QED
      BY <3>1
  <2> QED
    BY <2>1, <2>2 DEF SymbolTables
<1>3. \A i \in last : syms[i] \in SymbolRecord /\ WantedSymbol(syms[i])
  BY <1>2
<1>4. \A i, j \in last : syms[i].name = syms[j].name => i = j
  BY <1>2
<1> HIDE DEF wanted, last
<1>5. found \in SUBSET DebugSymbols
  BY <1>3 DEF SymbolRecord, WantedSymbol, DebugSymbols
<1>6. \A s, t \in found : s.name = t.name => s = t
  BY <1>4
<1> HIDE DEF found
<1> QED
  BY <1>1, <1>5, <1>6

(* A file that was read is not mapped any more. *)
LEMMA ReadKeepsOrder == ASSUME DebugInOrder, ReadDebug PROVE DebugInOrder'
<1>1. debug \in DebugRecords /\ debug.at = "mapped" /\ ~debug.fd
  BY DEF DebugInOrder, ReadDebug, DebugRecords, DebugSymbols
<1>2. PICK syms \in SymbolTables :
          debug' = [Unmapped(debug) EXCEPT !.at = "idle", !.read = TRUE, !.found = FoundIn(syms)]
  BY DEF ReadDebug
<1>3. FoundIn(syms) \in SUBSET DebugSymbols /\ \A s, t \in FoundIn(syms) : s.name = t.name => s = t
  BY FoundSymbols
<1> DEFINE F == SUBSET DebugSymbols
           found == FoundIn(syms)
           R == [at : {"idle", "opened", "mapped"}, init : BOOLEAN, fd : BOOLEAN, mapped : BOOLEAN, read : BOOLEAN, found : F]
           d1 == [debug EXCEPT !.mapped = FALSE]
           d2 == [d1 EXCEPT !.at = "idle"]
           d3 == [d2 EXCEPT !.read = TRUE]
           d4 == [d3 EXCEPT !.found = found]
<1>4. debug' = d4
  BY <1>2 DEF Unmapped
<1>5. debug \in R /\ found \in F
  BY <1>1, <1>3 DEF DebugRecords
<1> HIDE DEF F, found
<1>6. d1 \in R
  BY <1>5, Zenon
<1>7. d1.mapped = FALSE /\ d1.fd = debug.fd
  BY <1>5
<1> HIDE DEF d1
<1>8. d2 \in R
  BY <1>6
<1>9. d2.mapped = FALSE /\ d2.fd = debug.fd /\ d2.at = "idle"
  BY <1>6, <1>7
<1> HIDE DEF d2
<1>10. d3 \in R
  BY <1>8, Zenon
<1>11. d3.mapped = FALSE /\ d3.fd = debug.fd /\ d3.at = "idle"
  BY <1>8, <1>9
<1> HIDE DEF d3
<1>12. d4 \in R
  BY <1>5, <1>10
<1>13. d4.mapped = FALSE /\ d4.fd = debug.fd /\ d4.at = "idle" /\ d4.found = found
  BY <1>10, <1>11
<1> HIDE DEF d4
<1> QED
  BY <1>1, <1>3, <1>4, <1>12, <1>13 DEF DebugInOrder, DebugRecords, DebugSymbols, F, found

(* Every step keeps both. *)
LEMMA ImageStep == ASSUME ImageIInv, [ElfNext]_elfVars PROVE ImageIInv'
<1> USE DEF ImageIInv
<1>1. CASE Scan
  <2>1. debug' = debug /\ \E lib \in Libraries :
            scans' = [at |-> "scanned", lib |-> lib, base |-> FromBase(lib), so |-> FromSoInfo(lib)]
    BY <1>1, Zenon DEF Scan
  <2>2. ScannedLibrary'
    BY <2>1, Zenon DEF ScannedLibrary
  <2> QED
    BY <2>1, <2>2 DEF DebugInOrder
<1>2. CASE OpenDebug
  <2>1. /\ scans' = scans /\ debug.at = "idle"
        /\ \/ debug' = [debug EXCEPT !.init = TRUE, !.at = "opened", !.fd = TRUE]
           \/ debug' = [debug EXCEPT !.init = TRUE]
    BY <1>2 DEF OpenDebug
  <2>2. DebugInOrder'
    BY <2>1 DEF DebugInOrder
  <2> QED
    BY <2>1, <2>2 DEF ScannedLibrary
<1>3. CASE MapDebug
  <2>1. scans' = scans /\ debug.at = "opened"
    BY <1>3 DEF MapDebug
  <2>2. PICK ok \in BOOLEAN : debug' = [debug EXCEPT !.at = IF ok THEN "mapped" ELSE "idle", !.fd = FALSE, !.mapped = ok]
    BY <1>3 DEF MapDebug
  <2>3. DebugInOrder'
    BY <2>1, <2>2 DEF DebugInOrder
  <2> QED
    BY <2>1, <2>3 DEF ScannedLibrary
<1>4. CASE ReadDebug
  <2>1. scans' = scans
    BY <1>4 DEF ReadDebug
  <2> QED
    BY <1>4, <2>1, ReadKeepsOrder DEF ScannedLibrary
<1>5. CASE UNCHANGED elfVars
  BY <1>5 DEF elfVars, ScannedLibrary, DebugInOrder
<1> QED
  BY <1>1, <1>2, <1>3, <1>4, <1>5 DEF ElfNext

(* They say what the scans promise. *)
LEMMA ImageFollows == ImageIInv => ImageInv
<1> SUFFICES ASSUME ImageIInv PROVE ImageInv
  OBVIOUS
<1>1. DebugSymbolsClean
  BY DEF ImageIInv, DebugInOrder, DebugSymbolsClean
<1>2. CASE scans = NoImage
  <2>1. scans.at # "scanned"
    BY <1>2 DEF NoImage
  <2> QED
    BY <1>1, <2>1, Zenon DEF ImageInv, ScansAgree, ImageIsWhole, TablesReadable, BssIsUnbacked
<1>3. CASE scans # NoImage
  <2>1. PICK lib \in Libraries : scans = [at |-> "scanned", lib |-> lib, base |-> FromBase(lib), so |-> FromSoInfo(lib)]
    BY <1>3, Zenon DEF ImageIInv, ScannedLibrary
  <2>2. scans.lib = lib /\ scans.base = FromBase(lib) /\ scans.so = FromSoInfo(lib)
    BY <2>1
  <2>3. ScansAgree
    <3>1. ScansAgreeOf(scans.lib, scans.so)
      BY <2>2, Agree, Zenon
    <3> QED
      BY <3>1, Zenon DEF ScansAgree, ScansAgreeOf
  <2>4. ASSUME NEW s \in {scans.base, scans.so}, isValid(s) PROVE ImageWith(lib, s)
    BY <2>2, <2>4, ValidScans, Zenon
  <2>5. ImageIsWhole
    <3> SUFFICES ASSUME NEW s \in {scans.base, scans.so}, isValid(s)
                 PROVE  /\ ToSet(s.segments) = Own(lib) /\ s.segments[1].start = s.base
                        /\ \A i \in 2 .. Len(s.segments) : s.segments[i - 1].end = s.segments[i].start
                        /\ s.base + s.size = Last(s.segments).end
      BY <2>2, Zenon DEF ImageIsWhole
    <3> QED
      BY <2>4, WholeImage, Zenon
  <2>6. BssIsUnbacked
    <3> SUFFICES ASSUME NEW s \in {scans.base, scans.so}, isValid(s)
                 PROVE  ToSet(s.bss) = {m \in Own(lib) : m.start >= s.base + 14}
      BY <2>2, Zenon DEF BssIsUnbacked
    <3> QED
      BY <2>4, ZeroIsBehind, Zenon
  <2>7. TablesReadable
    <3> SUFFICES ASSUME NEW a \in {scans.base.strtab, scans.base.symtab, scans.base.gnu, scans.base.sysv,
                                   scans.so.strtab, scans.so.symtab, scans.so.gnu} \ {0}
                 PROVE  TableOk(lib, a)
      BY <2>2, Zenon DEF TablesReadable, TableOk
    <3> QED
      BY <2>2, TablesOk
  <2> QED
    BY <1>1, <2>3, <2>5, <2>6, <2>7 DEF ImageInv
<1> QED
  BY <1>2, <1>3

(* Whatever library is scanned, of whatever size and wherever it is linked *)
(* and loaded, its header in memory and the linker's record give the same  *)
(* image, which is the whole library and no more; its tables can be read,  *)
(* its zeroed pages are those that no file backs, and reading the symbols  *)
(* of its file leaves nothing open.                                        *)
THEOREM ImageCorrect == ElfSpec => []ImageInv
<1>1. ImageIInv /\ [ElfNext]_elfVars => ImageIInv'
  BY ImageStep
<1> QED
  BY <1>1, ImageStarts, ImageFollows, PTL DEF ElfSpec

=============================================================================
