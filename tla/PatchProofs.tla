---------------------------- MODULE PatchProofs ----------------------------
(***************************************************************************)
(* Proofs about the patch engine, for any library, any keys and any patch  *)
(* texts.  Type correctness needs no more than the assumptions of          *)
(* PatchEngine; the others about the engine suppose Separate, that no two  *)
(* keys patch a common cell.  Those about switching features suppose what  *)
(* WellBehavedFeatures and OffHandlersPassFalse ask of the handlers.       *)
(***************************************************************************)
EXTENDS FeatureChanges, TLAPS

(* The entries of pExpress are what their keys and texts say. *)
EntriesFromCalls ==
    \A k \in DOMAIN express :
        /\ Resolve[k] # NoAddr
        /\ express[k].address = Resolve[k]
        /\ \E d \in Data : express[k].patch_bytes = Code[d]
        /\ Len(express[k].original_bytes) = Len(express[k].patch_bytes)

Inv == TypeOK /\ EntriesFromCalls /\ OriginalIsStock /\ PatchInPlace /\ RestIsStock

-----------------------------------------------------------------------------
(* The i-th word written at address a goes to cell a + i - 1. *)
LEMMA SpanIndex ==
    ASSUME NEW a \in Int, NEW n \in Nat
    PROVE  /\ \A i \in 1 .. n : a + i - 1 \in Span(a, n)
           /\ \A c \in Span(a, n) : c \in Int /\ c - a + 1 \in 1 .. n /\ a + (c - a + 1) - 1 = c
  BY DEF Span

(* The bytes DobbyCodePatch leaves in memory are instruction words. *)
LEMMA CodePatchType ==
    ASSUME TypeOK, NEW a \in Cells, NEW bytes \in Seq(Words)
    PROVE  DobbyCodePatch(a, bytes) \in [Cells -> Words]
<1>1. ASSUME NEW c \in Cells
      PROVE  (IF c \in Span(a, Len(bytes)) THEN bytes[c - a + 1] ELSE mem[c]) \in Words
  <2>1. CASE c \in Span(a, Len(bytes))
    <3>1. c - a + 1 \in 1 .. Len(bytes)
      BY <2>1, CellsAssumption, SpanIndex
    <3> QED
      BY <2>1, <3>1
  <2>2. CASE c \notin Span(a, Len(bytes))
    BY <2>2 DEF TypeOK
  <2> QED
    BY <2>1, <2>2
<1> QED
  BY <1>1 DEF DobbyCodePatch

(* The entry a call works on is well formed. *)
LEMMA EntryForType ==
    ASSUME TypeOK, NEW k \in Keys, NEW d \in Data, Usable(k, d)
    PROVE  EntryFor(k, d) \in DobbyPatchInfo
<1>1. CASE k \in DOMAIN express
  BY <1>1 DEF TypeOK, EntryFor, NewEntry
<1>2. CASE k \notin DOMAIN express
  <2>1. Resolve[k] \in Cells /\ Code[d] \in Seq(Words)
    BY <1>2, ResolveAssumption, CodeAssumption DEF Usable, getAbsoluteAddress
  <2>2. [i \in 1 .. Len(Code[d]) |-> mem[Resolve[k] + i - 1]] \in Seq(Words)
    <3>1. Span(Resolve[k], Len(Code[d])) \subseteq Cells
      BY <2>1, PatchFits, CellsAssumption
    <3>2. \A i \in 1 .. Len(Code[d]) : Resolve[k] + i - 1 \in Span(Resolve[k], Len(Code[d]))
      <4>1. Resolve[k] \in Int
        BY <2>1, CellsAssumption
      <4>2. Len(Code[d]) \in Nat
        BY <2>1
      <4> QED
        BY <4>1, <4>2, SpanIndex
    <3>3. \A i \in 1 .. Len(Code[d]) : mem[Resolve[k] + i - 1] \in Words
      BY <3>1, <3>2 DEF TypeOK
    <3> QED
      BY <2>1, <3>3
  <2> QED
    BY <1>2, <2>1, <2>2 DEF EntryFor, NewEntry, DobbyPatchInfo
<1> QED
  BY <1>1, <1>2

(* Storing a well formed entry keeps pExpress well formed. *)
LEMMA StoreType ==
    ASSUME TypeOK, NEW k \in Keys, NEW e \in DobbyPatchInfo, Store(k, e)
    PROVE  DOMAIN express' \subseteq Keys /\ express' \in [DOMAIN express' -> DobbyPatchInfo]
  BY DEF TypeOK, Store

(* Every outcome of DobbyPatchWrapper keeps the state well typed. *)
LEMMA WrapperType ==
    ASSUME TypeOK, NEW k \in Keys, NEW d \in Data, NEW apply \in BOOLEAN,
           DobbyPatchWrapper(k, d, apply)
    PROVE  TypeOK'
<1> DEFINE e == EntryFor(k, d)
<1>0. Usable(k, d)
  BY DEF DobbyPatchWrapper, Apply, Restore, Record
<1>1. e \in DobbyPatchInfo
  BY <1>0, EntryForType
<1>2. CASE Apply(k, d)
  <2>1. [e EXCEPT !.applied = TRUE] \in DobbyPatchInfo
    BY <1>1 DEF DobbyPatchInfo
  <2>2. DobbyCodePatch(e.address, e.patch_bytes) \in [Cells -> Words]
    BY <1>1, CodePatchType DEF DobbyPatchInfo
  <2> QED
    BY <1>2, <2>1, <2>2, StoreType DEF Apply, TypeOK
<1>3. CASE Restore(k, d)
  <2>1. [e EXCEPT !.applied = FALSE] \in DobbyPatchInfo
    BY <1>1 DEF DobbyPatchInfo
  <2>2. DobbyCodePatch(e.address, e.original_bytes) \in [Cells -> Words]
    BY <1>1, CodePatchType DEF DobbyPatchInfo
  <2> QED
    BY <1>3, <2>1, <2>2, StoreType DEF Restore, TypeOK
<1>4. CASE Record(k, d)
  BY <1>1, <1>4, StoreType DEF Record, TypeOK
<1> QED
  BY <1>2, <1>3, <1>4 DEF DobbyPatchWrapper

-----------------------------------------------------------------------------
(* Every reachable state of the engine is well typed: the entries of       *)
(* pExpress hold addresses inside the library and whole instruction words. *)
THEOREM TypeCorrect == Spec => []TypeOK
<1>1. Init => TypeOK
  BY StockAssumption DEF Init, TypeOK
<1>2. TypeOK /\ [Next]_vars => TypeOK'
  <2> SUFFICES ASSUME TypeOK, [Next]_vars
               PROVE  TypeOK'
    OBVIOUS
  <2>1. CASE UNCHANGED vars
    BY <2>1 DEF vars, TypeOK
  <2>2. CASE LoadLibrary
    BY <2>2 DEF LoadLibrary, TypeOK
  <2>3. ASSUME NEW k \in Keys, NEW d \in Data, NEW apply \in BOOLEAN,
               DobbyPatchWrapper(k, d, apply)
        PROVE  TypeOK'
    BY <2>3, WrapperType
  <2>4. ASSUME NEW k \in Keys, NEW add \in DOMAIN AddOffset, NEW d \in Data, NEW apply \in BOOLEAN,
               PatchRelativeOffset(k, add, d, apply)
        PROVE  TypeOK'
    <3>1. CASE RelativeToOffset(k, add, d, apply)
      <4>1. Spelling[mem[Resolve[k] + AddOffset[add]]] \in Keys
        BY <3>1, SpellingAssumption DEF RelativeToOffset, TypeOK
      <4> QED
        BY <3>1, <4>1, WrapperType DEF RelativeToOffset
    <3>2. CASE RelativeToSymbol(k)
      BY <3>2 DEF RelativeToSymbol, TypeOK
    <3> QED
      BY <2>4, <3>1, <3>2 DEF PatchRelativeOffset
  <2> QED
    BY <2>1, <2>2, <2>3, <2>4 DEF Next
<1> QED
  BY <1>1, <1>2, PTL DEF Spec

-----------------------------------------------------------------------------
(* What an entry of pExpress is, given its key. *)
GoodEntry(k, e) ==
    /\ e \in DobbyPatchInfo
    /\ Resolve[k] # NoAddr
    /\ e.address = Resolve[k]
    /\ \E d \in Data : e.patch_bytes = Code[d]
    /\ Len(e.original_bytes) = Len(e.patch_bytes)
    /\ \A i \in 1 .. Len(e.original_bytes) : e.original_bytes[i] = Stock[e.address + i - 1]

(* What Inv says of one entry of pExpress. *)
LEMMA InvGivesGood ==
    ASSUME Inv
    PROVE  \A k \in DOMAIN express : GoodEntry(k, express[k])
  BY DEF Inv, TypeOK, EntriesFromCalls, OriginalIsStock, GoodEntry

(* Good entries of distinct keys write to different cells. *)
LEMMA GoodApart ==
    ASSUME Separate, NEW k1 \in Keys, NEW k2 \in Keys, k1 # k2,
           NEW e1, NEW e2, GoodEntry(k1, e1), GoodEntry(k2, e2)
    PROVE  Span(e1.address, Len(e1.patch_bytes)) \cap Span(e2.address, Len(e2.patch_bytes)) = {}
<1>1. PICK d1 \in Data : e1.patch_bytes = Code[d1]
  BY DEF GoodEntry
<1>2. PICK d2 \in Data : e2.patch_bytes = Code[d2]
  BY DEF GoodEntry
<1>3. Span(Resolve[k1], Len(Code[d1])) \cap Span(Resolve[k2], Len(Code[d2])) = {}
  BY DEF Separate, GoodEntry
<1> QED
  BY <1>1, <1>2, <1>3 DEF GoodEntry

(* The cells of a good entry lie in the library, and its words are found there. *)
LEMMA GoodSpan ==
    ASSUME NEW k \in Keys, NEW e, GoodEntry(k, e)
    PROVE  /\ e.address \in Int
           /\ Len(e.patch_bytes) \in Nat
           /\ Span(e.address, Len(e.patch_bytes)) \subseteq Cells
<1>1. PICK d \in Data : e.patch_bytes = Code[d]
  BY DEF GoodEntry
<1>2. e.address \in Cells /\ e.patch_bytes \in Seq(Words)
  BY DEF GoodEntry, DobbyPatchInfo
<1>3. e.address \in Int
  BY <1>2, CellsAssumption
<1>4. Len(e.patch_bytes) \in Nat
  BY <1>2
<1>5. Span(Resolve[k], Len(Code[d])) \subseteq Cells
  BY PatchFits DEF GoodEntry
<1> QED
  BY <1>1, <1>3, <1>4, <1>5 DEF GoodEntry

(* The entry a call works on is good: a new one reads stock code. *)
LEMMA EntryForGood ==
    ASSUME Inv, Separate, NEW k \in Keys, NEW d \in Data, Usable(k, d)
    PROVE  GoodEntry(k, EntryFor(k, d))
<1>1. CASE k \in DOMAIN express
  BY <1>1, InvGivesGood DEF EntryFor, NewEntry
<1>2. CASE k \notin DOMAIN express
  <2> DEFINE e == EntryFor(k, d)
  <2>1. e \in DobbyPatchInfo
    BY EntryForType DEF Inv
  <2>2. /\ Resolve[k] # NoAddr
        /\ e.address = Resolve[k]
        /\ e.patch_bytes = Code[d]
    BY <1>2 DEF Usable, getAbsoluteAddress, EntryFor, NewEntry
  <2>3. Len(Code[d]) \in Nat
    BY CodeAssumption
  <2>4. e.original_bytes = [i \in 1 .. Len(Code[d]) |-> mem[Resolve[k] + i - 1]]
    BY <1>2 DEF EntryFor, NewEntry
  <2>5. Len(e.original_bytes) = Len(Code[d])
    <3>1. e.original_bytes \in Seq(Words)
      BY <2>1 DEF DobbyPatchInfo
    <3>2. DOMAIN e.original_bytes = 1 .. Len(Code[d])
      BY <2>4
    <3> QED
      BY <2>3, <3>1, <3>2
  <2>6. \A c \in Span(Resolve[k], Len(Code[d])) : mem[c] = Stock[c]
    <3> SUFFICES ASSUME NEW c \in Span(Resolve[k], Len(Code[d]))
                 PROVE  mem[c] = Stock[c]
      OBVIOUS
    <3>1. c \in Cells
      BY <2>2, PatchFits
    <3>2. ASSUME NEW x \in DOMAIN express, express[x].applied
          PROVE  c \notin Covered(x)
      <4>1. x \in Keys /\ GoodEntry(x, express[x])
        BY InvGivesGood DEF Inv, TypeOK
      <4>2. PICK dx \in Data : express[x].patch_bytes = Code[dx]
        BY <4>1 DEF GoodEntry
      <4>3. x # k /\ Resolve[x] # NoAddr /\ express[x].address = Resolve[x]
        BY <1>2, <4>1 DEF GoodEntry
      <4>4. Span(Resolve[x], Len(Code[dx])) \cap Span(Resolve[k], Len(Code[d])) = {}
        BY <2>2, <4>1, <4>3 DEF Separate
      <4> QED
        BY <4>2, <4>3, <4>4 DEF Covered
    <3> QED
      BY <3>1, <3>2 DEF Inv, RestIsStock
  <2>7. \A i \in 1 .. Len(e.original_bytes) : e.original_bytes[i] = Stock[e.address + i - 1]
    <3>1. Resolve[k] \in Int
      BY <2>2, ResolveAssumption, CellsAssumption
    <3>2. \A i \in 1 .. Len(Code[d]) : Resolve[k] + i - 1 \in Span(Resolve[k], Len(Code[d]))
      BY <2>3, <3>1, SpanIndex
    <3>3. \A i \in 1 .. Len(Code[d]) : mem[Resolve[k] + i - 1] = Stock[Resolve[k] + i - 1]
      BY <2>6, <3>2
    <3> QED
      BY <2>2, <2>4, <2>5, <3>3
  <2> QED
    BY <2>1, <2>2, <2>5, <2>7 DEF GoodEntry
<1> QED
  BY <1>1, <1>2

(* Storing a good entry, whatever its flag, keeps every entry good. *)
LEMMA StoreGood ==
    ASSUME Inv, NEW k \in Keys, NEW e, GoodEntry(k, e), Store(k, e)
    PROVE  /\ EntriesFromCalls'
           /\ OriginalIsStock'
           /\ k \in DOMAIN express' /\ express'[k] = e
           /\ \A x \in DOMAIN express' :
                 x # k => x \in DOMAIN express /\ express'[x] = express[x]
           /\ DOMAIN express \subseteq DOMAIN express'
<1>1. /\ k \in DOMAIN express' /\ express'[k] = e
      /\ \A x \in DOMAIN express' : x # k => x \in DOMAIN express /\ express'[x] = express[x]
      /\ DOMAIN express \subseteq DOMAIN express'
  BY DEF Store
<1>2. ASSUME NEW x \in DOMAIN express'
      PROVE  GoodEntry(x, express'[x])
  BY <1>1, InvGivesGood
<1> QED
  BY <1>1, <1>2 DEF GoodEntry, EntriesFromCalls, OriginalIsStock

(* Changing the flag of an entry does not make it bad. *)
LEMMA FlagKeepsGood ==
    ASSUME NEW k \in Keys, NEW e, GoodEntry(k, e), NEW b \in BOOLEAN
    PROVE  /\ GoodEntry(k, [e EXCEPT !.applied = b])
           /\ [e EXCEPT !.applied = b].applied = b
           /\ [e EXCEPT !.applied = b].address = e.address
           /\ [e EXCEPT !.applied = b].patch_bytes = e.patch_bytes
           /\ [e EXCEPT !.applied = b].original_bytes = e.original_bytes
  BY DEF GoodEntry, DobbyPatchInfo

(* Writing n words at a changes those cells and no other. *)
LEMMA CodePatchEffect ==
    ASSUME NEW a, NEW bytes, NEW c \in Cells
    PROVE  /\ c \in Span(a, Len(bytes)) => DobbyCodePatch(a, bytes)[c] = bytes[c - a + 1]
           /\ c \notin Span(a, Len(bytes)) => DobbyCodePatch(a, bytes)[c] = mem[c]
  BY DEF DobbyCodePatch

(* An applied entry of another key survives a write to the cells of e. *)
LEMMA OthersStay ==
    ASSUME Inv, Separate, NEW k \in Keys, NEW e, GoodEntry(k, e),
           NEW bytes, Len(bytes) = Len(e.patch_bytes),
           NEW x \in DOMAIN express, x # k, express[x].applied,
           NEW i \in 1 .. Len(express[x].patch_bytes)
    PROVE  DobbyCodePatch(e.address, bytes)[express[x].address + i - 1]
             = express[x].patch_bytes[i]
<1> DEFINE c == express[x].address + i - 1
<1>1. x \in Keys /\ GoodEntry(x, express[x])
  BY InvGivesGood DEF Inv, TypeOK
<1>2. c \in Span(express[x].address, Len(express[x].patch_bytes))
  BY <1>1, GoodSpan, SpanIndex
<1>3. c \in Cells
  BY <1>1, <1>2, GoodSpan
<1>4. c \notin Span(e.address, Len(e.patch_bytes))
  BY <1>1, <1>2, GoodApart
<1>5. mem[c] = express[x].patch_bytes[i]
  BY DEF Inv, PatchInPlace
<1> QED
  BY <1>3, <1>4, <1>5, CodePatchEffect

(* Applying a patch keeps Inv: it changes only its own cells. *)
LEMMA ApplyKeepsInv ==
    ASSUME Inv, Separate, NEW k \in Keys, NEW d \in Data, Apply(k, d)
    PROVE  PatchInPlace' /\ RestIsStock'
<1> DEFINE e == EntryFor(k, d)
           f == [e EXCEPT !.applied = TRUE]
<1>1. GoodEntry(k, e)
  BY EntryForGood DEF Apply
<1>2. GoodEntry(k, f) /\ f.applied /\ f.address = e.address /\ f.patch_bytes = e.patch_bytes
  BY <1>1, FlagKeepsGood
<1>3. mem' = DobbyCodePatch(e.address, e.patch_bytes) /\ Store(k, f)
  BY DEF Apply
<1>4. /\ express'[k] = f /\ k \in DOMAIN express'
      /\ \A x \in DOMAIN express' : x # k => x \in DOMAIN express /\ express'[x] = express[x]
      /\ DOMAIN express \subseteq DOMAIN express'
  <2> HIDE DEF f
  <2> QED
    BY <1>2, <1>3, StoreGood
<1>5. k \in DOMAIN express => ~express[k].applied
  BY DEF Apply, EntryFor, NewEntry
<1>6. PatchInPlace'
  <2> SUFFICES ASSUME NEW x \in DOMAIN express', express'[x].applied,
                      NEW i \in 1 .. Len(express'[x].patch_bytes)
               PROVE  mem'[express'[x].address + i - 1] = express'[x].patch_bytes[i]
    BY DEF PatchInPlace
  <2>1. CASE x = k
    <3>1. e.address \in Int
      BY <1>1, GoodSpan
    <3>2. i \in 1 .. Len(e.patch_bytes) /\ Len(e.patch_bytes) \in Nat
      BY <1>1, <1>2, <1>4, <2>1, GoodSpan
    <3>3. e.address + i - 1 \in Span(e.address, Len(e.patch_bytes))
      BY <3>1, <3>2, SpanIndex
    <3>4. e.address + i - 1 \in Cells
      BY <1>1, <3>3, GoodSpan
    <3>5. (e.address + i - 1) - e.address + 1 = i
      BY <3>1, <3>2
    <3>6. mem'[e.address + i - 1] = e.patch_bytes[i]
      BY <1>3, <3>3, <3>4, <3>5, CodePatchEffect
    <3> QED
      BY <1>2, <1>4, <2>1, <3>6
  <2>2. CASE x # k
    <3>1. x \in DOMAIN express /\ express'[x] = express[x]
      BY <1>4, <2>2
    <3>2. express[x].applied /\ i \in 1 .. Len(express[x].patch_bytes)
      BY <3>1
    <3>3. DobbyCodePatch(e.address, e.patch_bytes)[express[x].address + i - 1]
            = express[x].patch_bytes[i]
      <4> HIDE DEF e
      <4>1. Len(e.patch_bytes) = Len(e.patch_bytes)
        OBVIOUS
      <4> QED
        BY ONLY Inv, Separate, <1>1, <2>2, <3>1, <3>2, <4>1, OthersStay, SMTT(60)
    <3> QED
      BY <1>3, <3>1, <3>3
  <2> QED
    BY <2>1, <2>2
<1>7. RestIsStock'
  <2> SUFFICES ASSUME NEW c \in Cells,
                      \A x \in DOMAIN express' : express'[x].applied => c \notin Covered(x)'
               PROVE  mem'[c] = Stock[c]
    BY DEF RestIsStock
  <2>1. c \notin Span(e.address, Len(e.patch_bytes))
    BY <1>2, <1>4 DEF Covered
  <2>2. ASSUME NEW x \in DOMAIN express, express[x].applied
        PROVE  c \notin Covered(x)
    BY <1>4, <1>5, <2>2 DEF Covered
  <2>3. mem[c] = Stock[c]
    BY <2>2 DEF Inv, RestIsStock
  <2> QED
    BY <1>3, <2>1, <2>3, CodePatchEffect
<1> QED
  BY <1>6, <1>7

(* Restoring keeps Inv: the bytes written back are stock code. *)
LEMMA RestoreKeepsInv ==
    ASSUME Inv, Separate, NEW k \in Keys, NEW d \in Data, Restore(k, d)
    PROVE  PatchInPlace' /\ RestIsStock'
<1> DEFINE e == EntryFor(k, d)
           f == [e EXCEPT !.applied = FALSE]
<1>1. GoodEntry(k, e)
  BY EntryForGood DEF Restore
<1>2. GoodEntry(k, f) /\ ~f.applied
  BY <1>1, FlagKeepsGood
<1>3. mem' = DobbyCodePatch(e.address, e.original_bytes) /\ Store(k, f) /\ e.applied
  BY DEF Restore
<1>4. /\ express'[k] = f
      /\ \A x \in DOMAIN express' : x # k => x \in DOMAIN express /\ express'[x] = express[x]
      /\ DOMAIN express \subseteq DOMAIN express'
  <2> HIDE DEF f
  <2> QED
    BY <1>2, <1>3, StoreGood
<1>5. Len(e.original_bytes) = Len(e.patch_bytes)
  BY <1>1 DEF GoodEntry
<1>6. PatchInPlace'
  <2> SUFFICES ASSUME NEW x \in DOMAIN express', express'[x].applied,
                      NEW i \in 1 .. Len(express'[x].patch_bytes)
               PROVE  mem'[express'[x].address + i - 1] = express'[x].patch_bytes[i]
    BY DEF PatchInPlace
  <2>1. x # k
    BY <1>2, <1>4
  <2> QED
    BY <1>1, <1>3, <1>4, <1>5, <2>1, OthersStay
<1>7. RestIsStock'
  <2> SUFFICES ASSUME NEW c \in Cells,
                      \A x \in DOMAIN express' : express'[x].applied => c \notin Covered(x)'
               PROVE  mem'[c] = Stock[c]
    BY DEF RestIsStock
  <2>1. CASE c \in Span(e.address, Len(e.patch_bytes))
    <3>1. mem'[c] = e.original_bytes[c - e.address + 1]
      BY <1>3, <1>5, <2>1, CodePatchEffect
    <3>2. c - e.address + 1 \in 1 .. Len(e.patch_bytes) /\ e.address + (c - e.address + 1) - 1 = c
      BY <1>1, <2>1, GoodSpan, SpanIndex
    <3> QED
      BY <1>1, <1>5, <3>1, <3>2 DEF GoodEntry
  <2>2. CASE c \notin Span(e.address, Len(e.patch_bytes))
    <3>1. ASSUME NEW x \in DOMAIN express, express[x].applied
          PROVE  c \notin Covered(x)
      <4>1. CASE x = k
        BY <2>2, <3>1, <4>1 DEF Covered, EntryFor, NewEntry
      <4>2. CASE x # k
        BY <1>4, <3>1, <4>2 DEF Covered
      <4> QED
        BY <4>1, <4>2
    <3>2. mem[c] = Stock[c]
      BY <3>1 DEF Inv, RestIsStock
    <3> QED
      BY <1>3, <1>5, <2>2, <3>2, CodePatchEffect
  <2> QED
    BY <2>1, <2>2
<1> QED
  BY <1>6, <1>7

(* A call that only leaves a new entry keeps Inv. *)
LEMMA RecordKeepsInv ==
    ASSUME Inv, Separate, NEW k \in Keys, NEW d \in Data, Record(k, d)
    PROVE  PatchInPlace' /\ RestIsStock'
<1> DEFINE e == EntryFor(k, d)
<1>1. GoodEntry(k, e)
  BY EntryForGood DEF Record
<1>2. mem' = mem /\ Store(k, e)
  BY DEF Record
<1>3. /\ express'[k] = e
      /\ \A x \in DOMAIN express' : x # k => x \in DOMAIN express /\ express'[x] = express[x]
      /\ DOMAIN express \subseteq DOMAIN express'
  BY <1>1, <1>2, StoreGood
<1>4. \A x \in DOMAIN express' :
         express'[x].applied => x \in DOMAIN express /\ express'[x] = express[x]
  BY <1>3 DEF EntryFor, NewEntry
<1>5. \A x \in DOMAIN express : x \in DOMAIN express' /\ express'[x] = express[x]
  BY <1>3 DEF EntryFor, NewEntry
<1>6. PatchInPlace'
  BY <1>2, <1>4 DEF Inv, PatchInPlace
<1>7. RestIsStock'
  BY <1>2, <1>5 DEF Inv, RestIsStock, Covered
<1> QED
  BY <1>6, <1>7

(* Every outcome of DobbyPatchWrapper keeps Inv. *)
LEMMA WrapperKeepsInv ==
    ASSUME Inv, Separate, NEW k \in Keys, NEW d \in Data, NEW apply \in BOOLEAN,
           DobbyPatchWrapper(k, d, apply)
    PROVE  Inv'
<1> DEFINE e == EntryFor(k, d)
<1>1. TypeOK'
  BY WrapperType DEF Inv
<1>2. GoodEntry(k, e)
  BY EntryForGood DEF DobbyPatchWrapper, Apply, Restore, Record
<1>3. \E f : GoodEntry(k, f) /\ Store(k, f)
  <2>1. CASE Apply(k, d)
    BY <1>2, <2>1, FlagKeepsGood DEF Apply
  <2>2. CASE Restore(k, d)
    BY <1>2, <2>2, FlagKeepsGood DEF Restore
  <2>3. CASE Record(k, d)
    BY <1>2, <2>3 DEF Record
  <2> QED
    BY <2>1, <2>2, <2>3 DEF DobbyPatchWrapper
<1>4. EntriesFromCalls' /\ OriginalIsStock'
  BY <1>3, StoreGood
<1>5. PatchInPlace' /\ RestIsStock'
  BY ApplyKeepsInv, RestoreKeepsInv, RecordKeepsInv DEF DobbyPatchWrapper
<1> QED
  BY <1>1, <1>4, <1>5 DEF Inv

-----------------------------------------------------------------------------
(* When keys are separate, Inv is an invariant of the engine. *)
LEMMA InvInvariant == ASSUME Separate PROVE Spec => []Inv
<1>1. Init => Inv
  <2> SUFFICES ASSUME Init PROVE Inv
    OBVIOUS
  <2>1. TypeOK
    BY StockAssumption DEF Init, TypeOK
  <2> QED
    BY <2>1 DEF Init, Inv, EntriesFromCalls, OriginalIsStock, PatchInPlace, RestIsStock
<1>2. Inv /\ [Next]_vars => Inv'
  <2> SUFFICES ASSUME Inv, [Next]_vars
               PROVE  Inv'
    OBVIOUS
  <2>1. CASE UNCHANGED <<mem, express>> /\ TypeOK'
    BY <2>1 DEF Inv, EntriesFromCalls, OriginalIsStock, PatchInPlace, RestIsStock, Covered
  <2>2. CASE UNCHANGED vars
    BY <2>1, <2>2 DEF vars, Inv, TypeOK
  <2>3. CASE LoadLibrary
    BY <2>1, <2>3 DEF LoadLibrary, Inv, TypeOK
  <2>4. ASSUME NEW k \in Keys, NEW d \in Data, NEW apply \in BOOLEAN,
               DobbyPatchWrapper(k, d, apply)
        PROVE  Inv'
    BY <2>4, WrapperKeepsInv
  <2>5. ASSUME NEW k \in Keys, NEW add \in DOMAIN AddOffset, NEW d \in Data, NEW apply \in BOOLEAN,
               PatchRelativeOffset(k, add, d, apply)
        PROVE  Inv'
    <3>1. CASE RelativeToOffset(k, add, d, apply)
      <4>1. Spelling[mem[Resolve[k] + AddOffset[add]]] \in Keys
        BY <3>1, SpellingAssumption DEF RelativeToOffset, Inv, TypeOK
      <4> QED
        BY <3>1, <4>1, WrapperKeepsInv DEF RelativeToOffset
    <3>2. CASE RelativeToSymbol(k)
      BY <2>1, <3>2 DEF RelativeToSymbol, Inv, TypeOK
    <3> QED
      BY <2>5, <3>1, <3>2 DEF PatchRelativeOffset
  <2> QED
    BY <2>2, <2>3, <2>4, <2>5 DEF Next
<1> QED
  BY <1>1, <1>2, PTL DEF Spec

(* Whatever calls are made in whatever order, and whichever code patches   *)
(* fail, the bytes kept for RESTORE are the library's own.                 *)
THEOREM RestoreHasStock == ASSUME Separate PROVE Spec => []EngineInv
<1>1. Inv => EngineInv
  BY DEF Inv, EngineInv
<1> QED
  BY <1>1, InvInvariant, PTL

(* The applied flags describe the game's code exactly. *)
THEOREM FlagsAreTrue == ASSUME Separate PROVE Spec => []FlagsTellMemory
<1>1. Inv => FlagsTellMemory
  BY DEF Inv, FlagsTellMemory
<1> QED
  BY <1>1, InvInvariant, PTL

-----------------------------------------------------------------------------
(* The memory the flags describe is the memory the switches call for. *)
ShowsSwitches ==
    Switches!Shows(mem, [k \in DOMAIN express |-> express[k].patch_bytes],
                   {k \in DOMAIN express : express[k].applied})

(* In a state of Inv, memory is what the switch positions call for. *)
LEMMA InvShows == Inv => ShowsSwitches
<1> DEFINE p == [k \in DOMAIN express |-> express[k].patch_bytes]
           s == {k \in DOMAIN express : express[k].applied}
<1> SUFFICES ASSUME Inv, NEW c \in Cells
             PROVE  /\ \A k \in s : c \in Switches!Covers(p, k) =>
                          mem[c] = p[k][c - Resolve[k] + 1]
                    /\ (\A k \in s : c \notin Switches!Covers(p, k)) => mem[c] = Stock[c]
  BY DEF ShowsSwitches, Switches!Shows
<1>1. ASSUME NEW k \in s
      PROVE  Switches!Covers(p, k) = Covered(k) /\ p[k] = express[k].patch_bytes
                /\ express[k].address = Resolve[k]
  BY DEF Inv, EntriesFromCalls, Switches!Covers, Covered, Span
<1>2. ASSUME NEW k \in s, c \in Switches!Covers(p, k)
      PROVE  mem[c] = p[k][c - Resolve[k] + 1]
  <2>1. k \in Keys /\ GoodEntry(k, express[k])
    BY InvGivesGood DEF Inv, TypeOK
  <2>2. c \in Span(express[k].address, Len(express[k].patch_bytes))
    BY <1>1, <1>2 DEF Covered
  <2>3. /\ c - express[k].address + 1 \in 1 .. Len(express[k].patch_bytes)
        /\ express[k].address + (c - express[k].address + 1) - 1 = c
    BY <2>1, <2>2, GoodSpan, SpanIndex
  <2>4. mem[express[k].address + (c - express[k].address + 1) - 1]
          = express[k].patch_bytes[c - express[k].address + 1]
    BY <2>3 DEF Inv, PatchInPlace
  <2> QED
    BY <1>1, <2>3, <2>4
<1>3. (\A k \in s : c \notin Switches!Covers(p, k)) => mem[c] = Stock[c]
  BY <1>1, ZenonT(60) DEF Inv, RestIsStock
<1> QED
  BY <1>2, <1>3

(* A call on key k moves the switch of k and no other. *)
LEMMA WrapperSwitches ==
    ASSUME Inv, Inv', ShowsSwitches', NEW k \in Keys, NEW d \in Data, NEW apply \in BOOLEAN,
           DobbyPatchWrapper(k, d, apply)
    PROVE  Switches!Switch(k)
<1> DEFINE p == [x \in DOMAIN express |-> express[x].patch_bytes]
           s == {x \in DOMAIN express : express[x].applied}
           e == EntryFor(k, d)
<1>1. PICK f : /\ Store(k, f)
               /\ f.patch_bytes = e.patch_bytes
               /\ f \in DobbyPatchInfo
  <2>1. e \in DobbyPatchInfo
    BY EntryForType DEF Inv, DobbyPatchWrapper, Apply, Restore, Record
  <2>2. ASSUME NEW b \in BOOLEAN
        PROVE  [e EXCEPT !.applied = b].patch_bytes = e.patch_bytes
                  /\ [e EXCEPT !.applied = b] \in DobbyPatchInfo
    BY <2>1 DEF DobbyPatchInfo
  <2>3. Store(k, [e EXCEPT !.applied = TRUE]) \/ Store(k, [e EXCEPT !.applied = FALSE]) \/ Store(k, e)
    BY DEF DobbyPatchWrapper, Apply, Restore, Record
  <2> QED
    BY <2>1, <2>2, <2>3
<1>2. /\ DOMAIN express' = DOMAIN express \cup {k}
      /\ express'[k] = f
      /\ \A x \in DOMAIN express : x # k => express'[x] = express[x]
  BY <1>1 DEF Store
<1>3. Switches!Bound(k)
  <2>1. CASE k \in DOMAIN express
    <3>1. f.patch_bytes = express[k].patch_bytes
      BY <1>1, <2>1 DEF EntryFor, NewEntry
    <3>2. DOMAIN express' = DOMAIN express
      BY <1>2, <2>1
    <3>3. \A x \in DOMAIN express : express'[x].patch_bytes = express[x].patch_bytes
      BY <1>2, <3>1
    <3>4. p' = p
      BY <3>2, <3>3
    <3> QED
      BY <2>1, <3>4 DEF Switches!Bound
  <2>2. CASE k \notin DOMAIN express
    <3>1. f.patch_bytes = Code[d]
      BY <1>1, <2>2 DEF EntryFor, NewEntry
    <3>2. p' = [x \in DOMAIN p \cup {k} |-> IF x = k THEN Code[d] ELSE p[x]]
      BY <1>2, <3>1
    <3> QED
      BY <2>2, <3>2 DEF Switches!Bound
  <2> QED
    BY <2>1, <2>2
<1>4. s' \in {s, s \cup {k}, s \ {k}}
  <2>1. \A x : x # k => (x \in s' <=> x \in s)
    BY <1>2
  <2>2. CASE k \in s'
    <3>1. s' = s \cup {k}
      BY <2>1, <2>2
    <3> QED
      BY <3>1
  <2>3. CASE k \notin s'
    <3>1. s' = s \ {k}
      BY <2>1, <2>3
    <3> QED
      BY <3>1
  <2> QED
    BY <2>2, <2>3
<1>5. mem' \in [Cells -> Words]
  BY DEF Inv, TypeOK
<1>6. Switches!Shows(mem', p', s')
  BY DEF ShowsSwitches, Switches!Shows, Switches!Covers
<1> QED
  BY <1>3, <1>4, <1>5, <1>6 DEF Switches!Switch

(***************************************************************************)
(* The engine is a set of independent switches: no call, failed call or    *)
(* library load makes memory differ from what the switch positions say.    *)
(***************************************************************************)
THEOREM EngineImplementsSwitches == ASSUME Separate PROVE Spec => ImplementsSwitches
<1> DEFINE switches == <<[k \in DOMAIN express |-> express[k].patch_bytes],
                         {k \in DOMAIN express : express[k].applied}, mem>>
<1>1. Init => Switches!SwitchInit
  BY DEF Init, Switches!SwitchInit
<1>2. Inv /\ Inv' /\ ShowsSwitches' /\ [Next]_vars => [\E k \in Keys : Switches!Switch(k)]_switches
  <2> SUFFICES ASSUME Inv, Inv', ShowsSwitches', [Next]_vars
               PROVE  (\E k \in Keys : Switches!Switch(k)) \/ UNCHANGED switches
    OBVIOUS
  <2>1. CASE UNCHANGED <<mem, express>>
    BY <2>1
  <2>2. ASSUME NEW k \in Keys, NEW d \in Data, NEW apply \in BOOLEAN,
               DobbyPatchWrapper(k, d, apply)
        PROVE  \E x \in Keys : Switches!Switch(x)
    BY <2>2, WrapperSwitches
  <2>3. ASSUME NEW k \in Keys, NEW add \in DOMAIN AddOffset, NEW d \in Data, NEW apply \in BOOLEAN,
               RelativeToOffset(k, add, d, apply)
        PROVE  \E x \in Keys : Switches!Switch(x)
    <3>1. Spelling[mem[Resolve[k] + AddOffset[add]]] \in Keys
      BY <2>3, SpellingAssumption DEF RelativeToOffset, Inv, TypeOK
    <3> QED
      BY <2>3, <3>1, WrapperSwitches DEF RelativeToOffset
  <2> QED
    BY <2>1, <2>2, <2>3 DEF Next, vars, LoadLibrary, PatchRelativeOffset, RelativeToSymbol
<1> QED
  BY <1>1, <1>2, InvInvariant, InvShows, PTL
     DEF Spec, ImplementsSwitches, Switches!SwitchSpec, Switches!switchVars

-----------------------------------------------------------------------------
(* The handlers of Changes.  What the current handler has still to run is  *)
(* the end of it.                                                          *)
Running(f) == Handler[<<f, on[f]>>]

RestOfHandler ==
    /\ todo \in Seq(Macros)
    /\ Len(todo) <= Len(Running(current))
    /\ \A i \in 1 .. Len(todo) : todo[i] = Running(current)[Len(Running(current)) - Len(todo) + i]

(* How many macros of its handler a feature has run since it was called. *)
Ran(f) == IF f = current THEN Len(Running(f)) - Len(todo) ELSE Len(Running(f))

(* A feature whose macros all took hold has its keys as its boolean says. *)
TookHold ==
    \A f \in Features : clean[f] =>
        \A i \in 1 .. Ran(f) : Running(f)[i].kind = "patch" =>
            (Applied(express, Running(f)[i].key) <=> on[f])

(* An entry of pExpress comes from a macro of a handler. *)
FromHandlers ==
    \A k \in DOMAIN express : \E f \in Features, b \in BOOLEAN : \E c \in PatchMacros(f, b) :
        c.key = k /\ express[k].patch_bytes = Code[c.data] /\ Len(Code[c.data]) > 0

SwitchTypes ==
    on \in [Features -> BOOLEAN] /\ clean \in [Features -> BOOLEAN] /\ current \in Features

SwitchInv == Inv /\ SwitchTypes /\ RestOfHandler /\ TookHold /\ FromHandlers

(* A handler is a sequence of macros, its patch macros among PatchMacros. *)
LEMMA HandlerType ==
    ASSUME NEW f \in Features, NEW b \in BOOLEAN
    PROVE  /\ Handler[<<f, b>>] \in Seq(Macros)
           /\ Len(Handler[<<f, b>>]) \in Nat
           /\ \A i \in 1 .. Len(Handler[<<f, b>>]) :
                 /\ Handler[<<f, b>>][i] \in Macros
                 /\ Handler[<<f, b>>][i].kind = "patch" => Handler[<<f, b>>][i] \in PatchMacros(f, b)
<1>1. <<f, b>> \in Features \X BOOLEAN
  OBVIOUS
<1>2. Handler[<<f, b>>] \in Seq(Macros)
  BY <1>1, HandlerAssumption
<1> QED
  BY <1>2 DEF PatchMacros, MacrosOf

(* A patch macro is one of the macros of its handler. *)
LEMMA PatchMacroIndex ==
    ASSUME NEW f \in Features, NEW b \in BOOLEAN, NEW c \in PatchMacros(f, b)
    PROVE  \E i \in 1 .. Len(Handler[<<f, b>>]) : c = Handler[<<f, b>>][i] /\ c.kind = "patch"
  BY DEF PatchMacros, MacrosOf

(* The key and the text of a patch macro. *)
LEMMA PatchMacroType ==
    ASSUME NEW f \in Features, NEW b \in BOOLEAN, NEW c \in PatchMacros(f, b)
    PROVE  /\ c.key \in Keys /\ c.data \in Data /\ c.apply \in BOOLEAN
           /\ Code[c.data] \in Seq(Words) /\ Len(Code[c.data]) \in Nat
<1>1. PICK i \in 1 .. Len(Handler[<<f, b>>]) : c = Handler[<<f, b>>][i]
  BY PatchMacroIndex
<1>2. c \in Macros
  BY <1>1, HandlerType
<1>3. c.key \in Keys /\ c.data \in Data /\ c.apply \in BOOLEAN
  BY <1>2 DEF Macros
<1>4. Code[c.data] \in Seq(Words)
  BY <1>3, CodeAssumption
<1> QED
  BY <1>3, <1>4

(* A well behaved feature uses the same keys for on and for off. *)
LEMMA KeyOnAndOff ==
    ASSUME WellBehavedFeatures, NEW f \in Features, NEW b \in BOOLEAN, NEW c \in PatchMacros(f, b),
           NEW v \in BOOLEAN
    PROVE  \E m \in PatchMacros(f, v) : m.key = c.key
<1>1. {m.key : m \in PatchMacros(f, TRUE)} = {m.key : m \in PatchMacros(f, FALSE)}
  BY DEF WellBehavedFeatures, FollowsBoolean
<1>2. {m.key : m \in PatchMacros(f, b)} = {m.key : m \in PatchMacros(f, v)}
  BY <1>1
<1>3. c.key \in {m.key : m \in PatchMacros(f, v)}
  BY <1>2
<1> QED
  BY <1>3

(* A key is one feature's, and two texts for it that assemble are one. *)
LEMMA OneTextPerKey ==
    ASSUME WellBehavedFeatures, NEW f1 \in Features, NEW f2 \in Features,
           NEW b1 \in BOOLEAN, NEW b2 \in BOOLEAN,
           NEW c1 \in PatchMacros(f1, b1), NEW c2 \in PatchMacros(f2, b2), c1.key = c2.key,
           Len(Code[c1.data]) > 0, Len(Code[c2.data]) > 0
    PROVE  f1 = f2 /\ Code[c1.data] = Code[c2.data]
<1>1. Len(Code[c1.data]) # 0 /\ Len(Code[c2.data]) # 0
  BY PatchMacroType
<1>2. /\ f1 = f2
      /\ Code[c1.data] = Code[c2.data] \/ Len(Code[c1.data]) = 0 \/ Len(Code[c2.data]) = 0
  BY DEF WellBehavedFeatures, OwnKeys
<1> QED
  BY <1>1, <1>2

(* A call stores one entry, that of its key, and keeps its patch. *)
LEMMA WrapperStores ==
    ASSUME TypeOK, NEW k \in Keys, NEW d \in Data, NEW apply \in BOOLEAN,
           DobbyPatchWrapper(k, d, apply)
    PROVE  \E e : /\ DOMAIN express' = DOMAIN express \cup {k}
                  /\ \A x \in DOMAIN express' : express'[x] = IF x = k THEN e ELSE express[x]
                  /\ k \in DOMAIN express => e.patch_bytes = express[k].patch_bytes
                  /\ k \notin DOMAIN express => e.patch_bytes = Code[d] /\ Len(Code[d]) > 0
<1> DEFINE e == EntryFor(k, d)
<1>1. Usable(k, d)
  BY DEF DobbyPatchWrapper, Apply, Restore, Record
<1>2. e \in DobbyPatchInfo
  BY <1>1, EntryForType
<1>3. ASSUME NEW b \in BOOLEAN
      PROVE  /\ [e EXCEPT !.applied = b].patch_bytes = e.patch_bytes
             /\ [e EXCEPT !.applied = b].applied = b
  BY <1>2 DEF DobbyPatchInfo
<1>4. PICK f : /\ Store(k, f)
               /\ f.patch_bytes = e.patch_bytes
  <2>1. CASE apply /\ Apply(k, d)
    BY <1>3, <2>1 DEF Apply
  <2>2. CASE ~apply /\ Restore(k, d)
    BY <1>3, <2>2 DEF Restore
  <2>3. CASE Record(k, d)
    BY <2>3 DEF Record
  <2> QED
    BY <2>1, <2>2, <2>3 DEF DobbyPatchWrapper
<1>5. /\ DOMAIN express' = DOMAIN express \cup {k}
      /\ \A x \in DOMAIN express' : express'[x] = IF x = k THEN f ELSE express[x]
  BY <1>4 DEF Store
<1>6. /\ k \in DOMAIN express => e = express[k]
      /\ k \notin DOMAIN express => e.patch_bytes = Code[d] /\ Len(Code[d]) > 0
  BY <1>1 DEF EntryFor, NewEntry, Usable
<1> HIDE DEF e
<1>7. /\ k \in DOMAIN express => f.patch_bytes = express[k].patch_bytes
      /\ k \notin DOMAIN express => f.patch_bytes = Code[d] /\ Len(Code[d]) > 0
  BY <1>4, <1>6 DEF Applied
<1> WITNESS f
<1> QED
  BY <1>5, <1>7

(* A call switches its own key and no other. *)
LEMMA WrapperApplies ==
    ASSUME TypeOK, NEW k \in Keys, NEW d \in Data, NEW apply \in BOOLEAN,
           DobbyPatchWrapper(k, d, apply)
    PROVE  \A x : x # k => (Applied(express', x) <=> Applied(express, x))
<1>1. PICK e :
          /\ DOMAIN express' = DOMAIN express \cup {k}
          /\ \A x \in DOMAIN express' : express'[x] = IF x = k THEN e ELSE express[x]
          /\ k \in DOMAIN express => e.patch_bytes = express[k].patch_bytes
          /\ k \notin DOMAIN express => e.patch_bytes = Code[d] /\ Len(Code[d]) > 0
  BY WrapperStores, Zenon
<1> QED
  BY <1>1 DEF Applied

(* The entry a macro leaves is the macro's, or was there before. *)
LEMMA WrapperFromHandlers ==
    ASSUME TypeOK, FromHandlers, NEW f \in Features, NEW b \in BOOLEAN, NEW c \in PatchMacros(f, b),
           c.key \in Keys, c.data \in Data, NEW apply \in BOOLEAN,
           DobbyPatchWrapper(c.key, c.data, apply)
    PROVE  FromHandlers'
<1> SUFFICES ASSUME NEW k \in DOMAIN express'
             PROVE  \E g \in Features, v \in BOOLEAN : \E m \in PatchMacros(g, v) :
                      m.key = k /\ express'[k].patch_bytes = Code[m.data] /\ Len(Code[m.data]) > 0
  BY DEF FromHandlers
<1> DEFINE x == c.key
           d == c.data
<1>1. x \in Keys /\ d \in Data /\ DobbyPatchWrapper(x, d, apply)
  OBVIOUS
<1> HIDE DEF x, d
<1>2. PICK e :
         /\ DOMAIN express' = DOMAIN express \cup {x}
         /\ \A y \in DOMAIN express' : express'[y] = IF y = x THEN e ELSE express[y]
         /\ x \in DOMAIN express => e.patch_bytes = express[x].patch_bytes
         /\ x \notin DOMAIN express => e.patch_bytes = Code[d] /\ Len(Code[d]) > 0
  BY <1>1, WrapperStores, Zenon
<1>3. CASE k \in DOMAIN express
  <2>1. express'[k].patch_bytes = express[k].patch_bytes
    BY <1>2, <1>3
  <2> QED
    BY <1>3, <2>1 DEF FromHandlers
<1>4. CASE k \notin DOMAIN express
  BY <1>2, <1>4 DEF x, d
<1> QED
  BY <1>3, <1>4

(* Machine code read as text is no usable key: the relative macros patch   *)
(* nothing.                                                                *)
LEMMA RelativeIdle ==
    ASSUME WellBehavedFeatures, Inv, NEW root \in Keys, NEW add, NEW d, NEW apply
    PROVE  ~RelativeToOffset(root, add, d, apply)
<1> SUFFICES ASSUME RelativeToOffset(root, add, d, apply)
             PROVE  FALSE
  OBVIOUS
<1> DEFINE k == Spelling[mem[Resolve[root] + AddOffset[add]]]
<1>1. mem[Resolve[root] + AddOffset[add]] \in Words
  BY DEF RelativeToOffset, Inv, TypeOK
<1>2. Resolve[k] = NoAddr
  BY <1>1 DEF WellBehavedFeatures
<1>3. k \notin DOMAIN express
  BY <1>2 DEF Inv, EntriesFromCalls
<1>4. ~Usable(k, d)
  BY <1>2, <1>3 DEF Usable, getAbsoluteAddress
<1> QED
  BY <1>4 DEF RelativeToOffset, DobbyPatchWrapper, Apply, Restore, Record

-----------------------------------------------------------------------------
(* A step of the UI thread that runs no macro keeps what the handlers did. *)
LEMMA OtherStepsKeep ==
    ASSUME SwitchInv, UNCHANGED <<express, on, current, todo, clean>>, Inv'
    PROVE  SwitchInv'
<1>1. SwitchTypes' /\ RestOfHandler'
  BY DEF SwitchInv, SwitchTypes, RestOfHandler, Running
<1>2. TookHold'
  BY DEF SwitchInv, TookHold, Ran, Running, Applied
<1>3. FromHandlers'
  BY DEF SwitchInv, FromHandlers
<1> QED
  BY <1>1, <1>2, <1>3 DEF SwitchInv

(* Calling a feature starts its handler; no macro of it has run. *)
LEMMA ChangesKeeps ==
    ASSUME SwitchInv, NEW f \in Features, NEW b \in BOOLEAN, Changes(f, b)
    PROVE  SwitchInv'
<1>1. Inv'
  BY DEF Changes, vars, SwitchInv, Inv, TypeOK, EntriesFromCalls, OriginalIsStock, PatchInPlace,
         RestIsStock, Covered
<1>2. /\ on' = [on EXCEPT ![f] = b] /\ current' = f /\ todo' = Handler[<<f, b>>]
      /\ clean' = [clean EXCEPT ![f] = TRUE] /\ express' = express /\ todo = << >>
  BY DEF Changes, vars
<1>3. SwitchTypes'
  BY <1>2 DEF SwitchInv, SwitchTypes
<1>4. Running(f)' = Handler[<<f, b>>]
  BY <1>2 DEF Running, SwitchInv, SwitchTypes
<1>5. RestOfHandler'
  BY <1>2, <1>4, HandlerType DEF RestOfHandler
<1>6. TookHold'
  <2> SUFFICES ASSUME NEW g \in Features, clean'[g], NEW i \in 1 .. Ran(g)',
                      Running(g)'[i].kind = "patch"
               PROVE  Applied(express', Running(g)'[i].key) <=> on'[g]
    BY DEF TookHold
  <2>1. CASE g = f
    <3>1. Ran(f)' = Len(Handler[<<f, b>>]) - Len(Handler[<<f, b>>])
      BY <1>2, <1>4 DEF Ran
    <3>2. Ran(f)' = 0
      BY <3>1, HandlerType
    <3> QED
      BY <2>1, <3>2
  <2>2. CASE g # f
    <3>1. Running(g)' = Running(g) /\ clean'[g] = clean[g] /\ on'[g] = on[g]
      BY <1>2, <2>2 DEF Running, SwitchInv, SwitchTypes
    <3>2. Ran(g)' = Len(Running(g))
      BY <1>2, <2>2, <3>1 DEF Ran
    <3>3. Ran(g) = Len(Running(g))
      <4>1. Len(todo) = 0 /\ Len(Running(g)) \in Nat
        BY <1>2, HandlerType DEF Running, SwitchInv, SwitchTypes
      <4> QED
        BY <4>1 DEF Ran
    <3> QED
      BY <1>2, <3>1, <3>2, <3>3 DEF SwitchInv, TookHold
  <2> QED
    BY <2>1, <2>2
<1>7. FromHandlers'
  BY <1>2 DEF SwitchInv, FromHandlers
<1> QED
  BY <1>1, <1>3, <1>5, <1>6, <1>7 DEF SwitchInv

(* The macro at the head of todo, and where it stands in its handler. *)
LEMMA NextMacro ==
    ASSUME SwitchTypes, RestOfHandler, todo # << >>
    PROVE  /\ Head(todo) \in Macros
           /\ Tail(todo) \in Seq(Macros)
           /\ Len(Tail(todo)) = Len(todo) - 1
           /\ \A i \in 1 .. Len(Tail(todo)) : Tail(todo)[i] = todo[i + 1]
           /\ Ran(current) \in Nat
           /\ Ran(current) + 1 \in 1 .. Len(Running(current))
           /\ Head(todo) = Running(current)[Ran(current) + 1]
           /\ Len(Running(current)) \in Nat
           /\ Len(todo) \in Nat /\ Len(todo) > 0
<1>1. /\ todo \in Seq(Macros) /\ Len(todo) <= Len(Running(current))
      /\ Len(todo) \in Nat /\ Len(todo) > 0
  BY DEF RestOfHandler
<1>2. Len(Running(current)) \in Nat
  BY HandlerType DEF Running, SwitchTypes
<1>3. Ran(current) = Len(Running(current)) - Len(todo)
  BY DEF Ran
<1>4. Head(todo) = todo[1]
  BY <1>1
<1>5. todo[1] = Running(current)[Len(Running(current)) - Len(todo) + 1]
  BY <1>1 DEF RestOfHandler
<1> QED
  BY <1>1, <1>2, <1>3, <1>4, <1>5

(* The rest of the handler once its next macro has run. *)
LEMMA AdvanceKeepsRest ==
    ASSUME SwitchTypes, RestOfHandler, todo # << >>, todo' = Tail(todo), UNCHANGED <<on, current>>
    PROVE  /\ RestOfHandler'
           /\ Ran(current)' = Ran(current) + 1
           /\ \A f \in Features : f # current => Ran(f)' = Ran(f)
           /\ \A f : Running(f)' = Running(f)
<1>1. \A f : Running(f)' = Running(f)
  BY DEF Running
<1>2. /\ Len(todo') = Len(todo) - 1 /\ todo' \in Seq(Macros)
      /\ \A i \in 1 .. Len(todo') : todo'[i] = todo[i + 1]
      /\ Len(Running(current)) \in Nat /\ Len(todo) \in Nat /\ Len(todo) > 0
  BY NextMacro
<1>3. Len(todo) <= Len(Running(current))
  BY DEF RestOfHandler
<1>4. ASSUME NEW i \in 1 .. Len(todo')
      PROVE  todo'[i] = Running(current)[Len(Running(current)) - Len(todo') + i]
  <2>1. i + 1 \in 1 .. Len(todo)
    BY <1>2
  <2>2. todo[i + 1] = Running(current)[Len(Running(current)) - Len(todo) + (i + 1)]
    BY <2>1 DEF RestOfHandler
  <2>3. Len(Running(current)) - Len(todo) + (i + 1) = Len(Running(current)) - Len(todo') + i
    BY <1>2
  <2> QED
    BY <1>2, <2>2, <2>3
<1>5. RestOfHandler'
  BY <1>1, <1>2, <1>3, <1>4 DEF RestOfHandler
<1>6. Ran(current)' = Ran(current) + 1
  BY <1>1, <1>2 DEF Ran
<1>7. \A f \in Features : f # current => Ran(f)' = Ran(f)
  BY <1>1 DEF Ran
<1> QED
  BY <1>1, <1>5, <1>6, <1>7

(* A patch macro that ran, the wrapper's early return included, leaves its *)
(* key as it was asked to, or the feature is no longer clean.              *)
LEMMA RunPatchKeeps ==
    ASSUME WellBehavedFeatures, SwitchInv, Inv', todo # << >>, RunPatch(Head(todo)),
           todo' = Tail(todo), UNCHANGED <<on, current>>
    PROVE  SwitchInv'
<1> DEFINE c == Head(todo)
           h == Running(current)
           n == Ran(current) + 1
<1>0. SwitchTypes /\ RestOfHandler
  BY DEF SwitchInv
<1>1. /\ c \in Macros /\ c = h[n] /\ n \in 1 .. Len(h) /\ c.kind = "patch"
      /\ current \in Features /\ on[current] \in BOOLEAN
  BY <1>0, NextMacro DEF RunPatch, SwitchInv, SwitchTypes
<1>2. c.key \in Keys /\ c.data \in Data /\ c.apply \in BOOLEAN
  BY <1>1 DEF Macros
<1>3. c \in PatchMacros(current, on[current])
  BY <1>1, HandlerType DEF Running
<1>4. c.apply = on[current]
  BY <1>1, <1>3 DEF WellBehavedFeatures, FollowsBoolean
<1>5. TypeOK
  BY DEF SwitchInv, Inv
<1>6. \A x : x # c.key => (Applied(express', x) <=> Applied(express, x))
  <2>1. CASE DobbyPatchWrapper(c.key, c.data, c.apply)
    BY <1>2, <1>5, <2>1, WrapperApplies
  <2>2. CASE UNCHANGED vars
    BY <2>2 DEF vars
  <2> QED
    BY <2>1, <2>2 DEF RunPatch
<1>7. clean' = [clean EXCEPT ![current] = @ /\ (Applied(express', c.key) <=> c.apply)]
  BY DEF RunPatch
<1>8. /\ RestOfHandler' /\ Ran(current)' = n
      /\ \A f \in Features : f # current => Ran(f)' = Ran(f)
      /\ \A f : Running(f)' = Running(f)
  BY <1>0, AdvanceKeepsRest
<1>9. SwitchTypes'
  BY <1>7 DEF SwitchInv, SwitchTypes
<1>10. TookHold'
  <2> SUFFICES ASSUME NEW f \in Features, clean'[f], NEW i \in 1 .. Ran(f)',
                      Running(f)[i].kind = "patch"
               PROVE  Applied(express', Running(f)[i].key) <=> on[f]
    BY <1>8 DEF TookHold
  <2>1. clean \in [Features -> BOOLEAN] /\ on[f] \in BOOLEAN
    BY DEF SwitchInv, SwitchTypes
  <2>2. clean[f]
    BY <1>7, <2>1
  <2>3. CASE f = current
    <3>1. Applied(express', c.key) <=> on[current]
      BY <1>1, <1>4, <1>7, <2>1, <2>3
    <3>2. CASE h[i].key = c.key
      BY <2>3, <3>1, <3>2
    <3>3. CASE h[i].key # c.key
      <4>1. i # n
        BY <1>1, <3>3
      <4>2. i \in 1 .. n
        BY <1>8, <2>3
      <4>3. i \in 1 .. Ran(current)
        BY <1>0, <4>1, <4>2, NextMacro
      <4>4. Applied(express, h[i].key) <=> on[current]
        BY <2>2, <2>3, <4>3 DEF SwitchInv, TookHold
      <4> QED
        BY <1>6, <2>3, <3>3, <4>4
    <3> QED
      BY <3>2, <3>3
  <2>4. CASE f # current
    <3>1. i \in 1 .. Ran(f) /\ Ran(f) = Len(Running(f))
      BY <1>8, <2>4 DEF Ran
    <3>2. Running(f)[i] \in PatchMacros(f, on[f])
      BY <2>1, <3>1, HandlerType DEF Running
    <3>3. Running(f)[i].key # c.key
      BY <1>1, <1>3, <2>1, <2>4, <3>2 DEF WellBehavedFeatures, OwnKeys
    <3> QED
      BY <1>6, <2>2, <3>1, <3>3 DEF SwitchInv, TookHold
  <2> QED
    BY <2>3, <2>4
<1>11. FromHandlers'
  <2>1. CASE UNCHANGED express
    BY <2>1 DEF SwitchInv, FromHandlers
  <2>2. CASE DobbyPatchWrapper(c.key, c.data, c.apply)
    BY <1>1, <1>2, <1>3, <1>5, <2>2, WrapperFromHandlers DEF SwitchInv
  <2> QED
    BY <2>1, <2>2 DEF RunPatch, vars
<1> QED
  BY <1>8, <1>9, <1>10, <1>11 DEF SwitchInv

(* A relative macro changes no entry; the handler moves on. *)
LEMMA RunRelativeKeeps ==
    ASSUME WellBehavedFeatures, SwitchInv, todo # << >>, RunRelative(Head(todo)),
           todo' = Tail(todo), UNCHANGED <<on, current>>
    PROVE  SwitchInv'
<1> DEFINE c == Head(todo)
<1>0. SwitchTypes /\ RestOfHandler
  BY DEF SwitchInv
<1>1. /\ c \in Macros /\ c = Running(current)[Ran(current) + 1] /\ c.kind = "relative"
      /\ c.key \in Keys
  BY <1>0, NextMacro DEF RunRelative, Macros
<1>2. ~RelativeToOffset(c.key, c.add, c.data, c.apply)
  BY <1>1, RelativeIdle DEF SwitchInv
<1>3. UNCHANGED <<mem, express, clean, loaded>> /\ crashed' \in {TRUE, crashed}
  BY <1>2 DEF RunRelative, PatchRelativeOffset, RelativeToSymbol, vars
<1>4. Inv'
  BY <1>3, ZenonT(60) DEF SwitchInv, Inv, TypeOK, EntriesFromCalls, OriginalIsStock, PatchInPlace, RestIsStock,
         Covered
<1>5. /\ RestOfHandler' /\ Ran(current)' = Ran(current) + 1
      /\ \A f \in Features : f # current => Ran(f)' = Ran(f)
      /\ \A f : Running(f)' = Running(f)
  BY <1>0, AdvanceKeepsRest
<1>6. SwitchTypes'
  BY <1>3 DEF SwitchInv, SwitchTypes
<1>7. TookHold'
  <2> SUFFICES ASSUME NEW f \in Features, clean[f], NEW i \in 1 .. Ran(f)',
                      Running(f)[i].kind = "patch"
               PROVE  Applied(express, Running(f)[i].key) <=> on[f]
    BY <1>3, <1>5 DEF TookHold
  <2>1. i \in 1 .. Ran(f)
    <3>1. CASE f = current
      <4>1. i # Ran(current) + 1 /\ i \in 1 .. Ran(current) + 1
        BY <1>1, <1>5, <3>1
      <4> QED
        BY <1>0, <3>1, <4>1, NextMacro
    <3>2. CASE f # current
      BY <1>5, <3>2
    <3> QED
      BY <3>1, <3>2
  <2> QED
    BY <2>1 DEF SwitchInv, TookHold
<1>8. FromHandlers'
  BY <1>3 DEF SwitchInv, FromHandlers
<1> QED
  BY <1>4, <1>5, <1>6, <1>7, <1>8 DEF SwitchInv

-----------------------------------------------------------------------------
(* When features are well behaved, SwitchInv is an invariant of Changes. *)
LEMMA SwitchInvariant == ASSUME WellBehavedFeatures PROVE fcSpec => []SwitchInv
<1>1. fcInit => SwitchInv
  <2> SUFFICES ASSUME fcInit PROVE SwitchInv
    OBVIOUS
  <2>1. Inv
    <3>1. TypeOK
      BY StockAssumption DEF fcInit, Init, TypeOK
    <3> QED
      BY <3>1 DEF fcInit, Init, Inv, EntriesFromCalls, OriginalIsStock, PatchInPlace, RestIsStock
  <2>2. SwitchTypes
    BY DEF fcInit, SwitchTypes
  <2>3. RestOfHandler
    <3>1. Len(Running(current)) \in Nat
      BY HandlerType DEF Running, fcInit
    <3> QED
      BY <3>1 DEF RestOfHandler, fcInit
  <2>4. TookHold
    <3>1. \A k : ~Applied(express, k)
      BY DEF fcInit, Init, Applied
    <3>2. \A f \in Features : on[f] = FALSE
      BY DEF fcInit
    <3> QED
      BY <3>1, <3>2 DEF TookHold
  <2>5. FromHandlers
    BY DEF fcInit, Init, FromHandlers
  <2> QED
    BY <2>1, <2>2, <2>3, <2>4, <2>5 DEF SwitchInv
<1>2. SwitchInv /\ [fcNext]_fcVars => SwitchInv'
  <2> SUFFICES ASSUME SwitchInv, [fcNext]_fcVars
               PROVE  SwitchInv'
    OBVIOUS
  <2>1. ASSUME UNCHANGED <<mem, express, crashed>>, loaded' \in BOOLEAN
        PROVE  Inv'
    BY <2>1 DEF SwitchInv, Inv, TypeOK, EntriesFromCalls, OriginalIsStock, PatchInPlace, RestIsStock,
           Covered
  <2>2. CASE UNCHANGED fcVars
    <3>1. loaded' \in BOOLEAN
      BY <2>2 DEF fcVars, SwitchInv, Inv, TypeOK
    <3> QED
      BY <2>1, <2>2, <3>1, OtherStepsKeep DEF fcVars
  <2>3. CASE LoadLibrary /\ UNCHANGED <<on, current, todo, clean>>
    BY <2>1, <2>3, OtherStepsKeep DEF LoadLibrary
  <2>4. ASSUME NEW f \in Features, NEW b \in BOOLEAN, Changes(f, b)
        PROVE  SwitchInv'
    BY <2>4, ChangesKeeps
  <2>5. CASE RunMacro
    <3>1. todo # << >> /\ todo' = Tail(todo) /\ UNCHANGED <<on, current>>
      BY <2>5 DEF RunMacro
    <3>2. CASE RunPatch(Head(todo))
      <4>1. Head(todo).key \in Keys /\ Head(todo).data \in Data /\ Head(todo).apply \in BOOLEAN
        BY <3>1, NextMacro DEF Macros, SwitchInv
      <4>2. Inv'
        <5>1. CASE DobbyPatchWrapper(Head(todo).key, Head(todo).data, Head(todo).apply)
          BY <4>1, <5>1, WrapperKeepsInv DEF SwitchInv, WellBehavedFeatures
        <5>2. CASE UNCHANGED vars
          <6>1. loaded' \in BOOLEAN
            BY <5>2 DEF vars, SwitchInv, Inv, TypeOK
          <6> QED
            BY <2>1, <5>2, <6>1 DEF vars
        <5> QED
          BY <3>2, <5>1, <5>2 DEF RunPatch
      <4> QED
        BY <3>1, <3>2, <4>2, RunPatchKeeps
    <3>3. CASE RunRelative(Head(todo))
      BY <3>1, <3>3, RunRelativeKeeps
    <3> QED
      BY <2>5, <3>2, <3>3 DEF RunMacro
  <2> QED
    BY <2>2, <2>3, <2>4, <2>5 DEF fcNext
<1> QED
  BY <1>1, <1>2, PTL DEF fcSpec

(***************************************************************************)
(* Switching works for any library and any well behaved features: off puts *)
(* the game back and on takes effect, in whatever order the features are   *)
(* called, whenever the library is linked and whichever code patches fail. *)
(***************************************************************************)
THEOREM SwitchesAlwaysWork == ASSUME WellBehavedFeatures PROVE fcSpec => []SwitchesWork
<1>1. SwitchInv => SwitchesWork
  <2> SUFFICES ASSUME SwitchInv
               PROVE  SwitchesWork
    OBVIOUS
  <2>1. fcTypeOK
    BY DEF SwitchInv, SwitchTypes, RestOfHandler, Running, Inv, fcTypeOK
  <2>2. ASSUME todo = << >>, NEW f \in Features, clean[f], NEW c \in PatchMacros(f, on[f])
        PROVE  Applied(express, c.key) <=> on[f]
    <3>1. on[f] \in BOOLEAN
      BY DEF SwitchInv, SwitchTypes
    <3>2. PICK i \in 1 .. Len(Running(f)) : c = Running(f)[i] /\ c.kind = "patch"
      BY <3>1, PatchMacroIndex DEF Running
    <3>3. Ran(f) = Len(Running(f))
      BY <2>2, <3>1, HandlerType DEF Ran, Running
    <3> QED
      BY <2>2, <3>2, <3>3 DEF SwitchInv, TookHold
  <2>3. OffPutsBack
    <3> SUFFICES ASSUME todo = << >>, NEW x \in Cells,
                        \A f \in Features : x \in Targets(f) => ~on[f] /\ clean[f]
                 PROVE  mem[x] = Stock[x]
      BY DEF OffPutsBack, Idle
    <3> SUFFICES ASSUME NEW k \in DOMAIN express, express[k].applied
                 PROVE  x \notin Covered(k)
      BY DEF SwitchInv, Inv, RestIsStock
    <3> SUFFICES ASSUME x \in Covered(k)
                 PROVE  FALSE
      OBVIOUS
    <3>1. PICK f \in Features, b \in BOOLEAN : \E c \in PatchMacros(f, b) :
                  c.key = k /\ express[k].patch_bytes = Code[c.data] /\ Len(Code[c.data]) > 0
      BY DEF SwitchInv, FromHandlers
    <3>2. PICK c \in PatchMacros(f, b) :
                  c.key = k /\ express[k].patch_bytes = Code[c.data] /\ Len(Code[c.data]) > 0
      BY <3>1
    <3>3. PICK m \in PatchMacros(f, TRUE) : m.key = k
      BY <3>2, KeyOnAndOff
    <3>4. Code[m.data] = Code[c.data]
      <4>1. Len(Code[m.data]) > 0
        BY <3>3 DEF WellBehavedFeatures, PatchesForReal
      <4>2. PICK v \in BOOLEAN : m \in PatchMacros(f, v)
        OBVIOUS
      <4> QED
        BY <3>2, <3>3, <4>1, <4>2, OneTextPerKey
    <3>5. x \in Targets(f)
      <4>1. Resolve[m.key] # NoAddr /\ express[k].address = Resolve[m.key]
        BY <3>3 DEF SwitchInv, Inv, EntriesFromCalls
      <4> QED
        BY <3>2, <3>3, <3>4, <4>1 DEF Targets, PatchMacros, Covered
    <3>6. ~on[f] /\ clean[f]
      BY <3>5
    <3>7. PICK o \in PatchMacros(f, FALSE) : o.key = k
      BY <3>3, KeyOnAndOff
    <3>8. on[f] = FALSE
      BY <3>6 DEF SwitchInv, SwitchTypes
    <3>9. ~Applied(express, k)
      BY <2>2, <3>6, <3>7, <3>8
    <3> QED
      BY <3>9 DEF Applied
  <2>4. OnTakesEffect
    <3> SUFFICES ASSUME todo = << >>, NEW f \in Features, on[f], clean[f], NEW x \in Targets(f)
                 PROVE  mem[x] # Stock[x]
      BY DEF OnTakesEffect, Idle
    <3>1. PICK m \in PatchMacros(f, TRUE) :
                  Resolve[m.key] # NoAddr /\ x \in Span(Resolve[m.key], Len(Code[m.data]))
      BY DEF Targets, PatchMacros
    <3> DEFINE k == m.key
               n == Len(Code[m.data])
               i == x - Resolve[k] + 1
    <3>2. k \in Keys /\ Code[m.data] \in Seq(Words) /\ n \in Nat /\ Resolve[k] \in Int
      BY <3>1, PatchMacroType, ResolveAssumption, CellsAssumption
    <3>3. i \in 1 .. n /\ Resolve[k] + i - 1 = x
      BY <3>1, <3>2, SpanIndex
    <3>4. Applied(express, k)
      <4>1. on[f] = TRUE
        BY DEF SwitchInv, SwitchTypes
      <4> QED
        BY <2>2, <4>1
    <3>5. express[k].patch_bytes = Code[m.data]
      <4>1. PICK g \in Features, b \in BOOLEAN : \E c \in PatchMacros(g, b) :
                    c.key = k /\ express[k].patch_bytes = Code[c.data] /\ Len(Code[c.data]) > 0
        BY <3>4 DEF Applied, SwitchInv, FromHandlers
      <4>2. PICK c \in PatchMacros(g, b) :
                    c.key = k /\ express[k].patch_bytes = Code[c.data] /\ Len(Code[c.data]) > 0
        BY <4>1
      <4>3. n > 0
        BY DEF WellBehavedFeatures, PatchesForReal
      <4>4. PICK v \in BOOLEAN : m \in PatchMacros(f, v)
        OBVIOUS
      <4> QED
        BY <4>2, <4>3, <4>4, OneTextPerKey
    <3>6. express[k].address = Resolve[k]
      BY <3>4 DEF Applied, SwitchInv, Inv, EntriesFromCalls
    <3>7. mem[Resolve[k] + i - 1] = Code[m.data][i]
      BY <3>3, <3>4, <3>5, <3>6 DEF Applied, SwitchInv, Inv, PatchInPlace
    <3>8. Code[m.data][i] # Stock[Resolve[k] + i - 1]
      BY <3>1, <3>3 DEF WellBehavedFeatures, PatchesForReal
    <3> QED
      BY <3>3, <3>7, <3>8
  <2> QED
    BY <2>1, <2>3, <2>4 DEF SwitchesWork
<1> QED
  BY <1>1, SwitchInvariant, PTL

-----------------------------------------------------------------------------
(* What holds of Changes whatever the handlers are. *)
HandlerInv == TypeOK /\ SwitchTypes /\ RestOfHandler

(* A call with false applies no patch. *)
LEMMA WrapperOff ==
    ASSUME TypeOK, NEW k \in Keys, NEW d \in Data, DobbyPatchWrapper(k, d, FALSE)
    PROVE  \A x : Applied(express', x) => Applied(express, x)
<1> DEFINE e == EntryFor(k, d)
<1>1. Usable(k, d)
  BY DEF DobbyPatchWrapper, Restore, Record
<1>2. e \in DobbyPatchInfo
  BY <1>1, EntryForType
<1>3. e.applied => Applied(express, k)
  BY DEF EntryFor, NewEntry, Applied
<1>4. [e EXCEPT !.applied = FALSE].applied = FALSE
  BY <1>2 DEF DobbyPatchInfo
<1>5. PICK f : Store(k, f) /\ (f.applied => e.applied)
  BY <1>4 DEF DobbyPatchWrapper, Restore, Record
<1> HIDE DEF e
<1> QED
  BY <1>3, <1>5 DEF Store, Applied

(* A macro that is not asked to apply applies no patch. *)
LEMMA RunMacroOff ==
    ASSUME OffHandlersPassFalse, HandlerInv, RunMacro, ~on[current]
    PROVE  \A x : Applied(express', x) => Applied(express, x)
<1> DEFINE c == Head(todo)
<1>1. todo # << >> /\ (RunPatch(c) \/ RunRelative(c))
  BY DEF RunMacro
<1>2. /\ c \in Macros /\ c = Running(current)[Ran(current) + 1]
      /\ Ran(current) + 1 \in 1 .. Len(Running(current))
      /\ current \in Features /\ on[current] = FALSE
  BY <1>1, NextMacro DEF HandlerInv, SwitchTypes
<1>3. c.key \in Keys /\ c.data \in Data /\ c.kind \in {"patch", "relative"} /\ c.apply \in BOOLEAN
  BY <1>2 DEF Macros
<1>4. c \in MacrosOf(current, FALSE, c.kind)
  BY <1>2 DEF MacrosOf, Running
<1>5. c.apply = FALSE
  BY <1>2, <1>3, <1>4 DEF OffHandlersPassFalse
<1>6. ASSUME NEW k \in Keys, DobbyPatchWrapper(k, c.data, c.apply)
      PROVE  \A x : Applied(express', x) => Applied(express, x)
  <2>1. PICK d \in Data : d = c.data /\ DobbyPatchWrapper(k, d, FALSE)
    BY <1>3, <1>5, <1>6
  <2> QED
    BY <2>1, WrapperOff DEF HandlerInv
<1>7. CASE UNCHANGED express
  BY <1>7
<1>8. CASE RunPatch(c)
  BY <1>3, <1>6, <1>7, <1>8 DEF RunPatch, vars
<1>9. CASE RunRelative(c)
  <2>1. CASE RelativeToOffset(c.key, c.add, c.data, c.apply)
    <3>1. Spelling[mem[Resolve[c.key] + AddOffset[c.add]]] \in Keys
      BY <2>1, SpellingAssumption DEF RelativeToOffset, HandlerInv, TypeOK
    <3> QED
      BY <1>6, <2>1, <3>1 DEF RelativeToOffset
  <2> QED
    BY <1>7, <1>9, <2>1 DEF RunRelative, PatchRelativeOffset, RelativeToSymbol, vars
<1> QED
  BY <1>1, <1>8, <1>9

(* HandlerInv is an invariant of Changes for any handlers. *)
LEMMA HandlerInvariant == fcSpec => []HandlerInv
<1>1. fcInit => HandlerInv
  <2> SUFFICES ASSUME fcInit PROVE HandlerInv
    OBVIOUS
  <2>1. TypeOK
    BY StockAssumption DEF fcInit, Init, TypeOK
  <2>2. SwitchTypes
    BY DEF fcInit, SwitchTypes
  <2>3. Len(Running(current)) \in Nat
    BY HandlerType DEF Running, fcInit
  <2> QED
    BY <2>1, <2>2, <2>3 DEF HandlerInv, RestOfHandler, fcInit
<1>2. HandlerInv /\ [fcNext]_fcVars => HandlerInv'
  <2> SUFFICES ASSUME HandlerInv, [fcNext]_fcVars
               PROVE  HandlerInv'
    OBVIOUS
  <2>1. ASSUME UNCHANGED <<mem, express, crashed>>, loaded' \in BOOLEAN
        PROVE  TypeOK'
    BY <2>1 DEF HandlerInv, TypeOK
  <2>2. loaded \in BOOLEAN
    BY DEF HandlerInv, TypeOK
  <2>3. CASE UNCHANGED fcVars
    BY <2>1, <2>2, <2>3 DEF fcVars, HandlerInv, SwitchTypes, RestOfHandler, Running
  <2>4. CASE LoadLibrary /\ UNCHANGED <<on, current, todo, clean>>
    BY <2>1, <2>4 DEF LoadLibrary, HandlerInv, SwitchTypes, RestOfHandler, Running
  <2>5. ASSUME NEW f \in Features, NEW b \in BOOLEAN, Changes(f, b)
        PROVE  HandlerInv'
    <3>1. TypeOK'
      BY <2>1, <2>2, <2>5 DEF Changes, vars
    <3>2. SwitchTypes'
      BY <2>5 DEF Changes, HandlerInv, SwitchTypes
    <3>3. Running(current)' = Handler[<<f, b>>] /\ todo' = Handler[<<f, b>>]
      BY <2>5 DEF Changes, Running, HandlerInv, SwitchTypes
    <3>4. RestOfHandler'
      BY <3>3, HandlerType DEF RestOfHandler
    <3> QED
      BY <3>1, <3>2, <3>4 DEF HandlerInv
  <2>6. CASE RunMacro
    <3> DEFINE c == Head(todo)
    <3>1. todo # << >> /\ todo' = Tail(todo) /\ UNCHANGED <<on, current>>
          /\ (RunPatch(c) \/ RunRelative(c))
      BY <2>6 DEF RunMacro
    <3>2. RestOfHandler'
      BY <3>1, AdvanceKeepsRest DEF HandlerInv
    <3>3. SwitchTypes'
      BY <3>1 DEF RunPatch, RunRelative, HandlerInv, SwitchTypes
    <3>4. c.key \in Keys /\ c.data \in Data /\ c.apply \in BOOLEAN
      BY <3>1, NextMacro DEF Macros, HandlerInv
    <3> SUFFICES TypeOK'
      BY <3>2, <3>3 DEF HandlerInv
    <3>5. CASE UNCHANGED vars
      BY <2>1, <2>2, <3>5 DEF vars
    <3>6. ASSUME NEW k \in Keys, DobbyPatchWrapper(k, c.data, c.apply)
          PROVE  TypeOK'
      BY <3>4, <3>6, WrapperType DEF HandlerInv
    <3>7. CASE RunPatch(c)
      BY <3>4, <3>5, <3>6, <3>7 DEF RunPatch
    <3>8. CASE RunRelative(c)
      <4>1. CASE RelativeToOffset(c.key, c.add, c.data, c.apply)
        <5>1. Spelling[mem[Resolve[c.key] + AddOffset[c.add]]] \in Keys
          BY <4>1, SpellingAssumption DEF RelativeToOffset, HandlerInv, TypeOK
        <5> QED
          BY <3>6, <4>1, <5>1 DEF RelativeToOffset
      <4>2. CASE RelativeToSymbol(c.key)
        BY <4>2 DEF RelativeToSymbol, HandlerInv, TypeOK
      <4> QED
        BY <3>5, <3>8, <4>1, <4>2 DEF RunRelative, PatchRelativeOffset
    <3> QED
      BY <3>1, <3>7, <3>8
  <2> QED
    BY <2>3, <2>4, <2>5, <2>6 DEF fcNext
<1> QED
  BY <1>1, <1>2, PTL DEF fcSpec

(* Switching a feature off never applies a patch, at any of its macros, as *)
(* long as its off-handler passes false: neither the entries of pExpress   *)
(* nor a failed or relative patch can turn a restore into an apply.        *)
THEOREM OffAppliesNothing == ASSUME OffHandlersPassFalse PROVE fcSpec => OffNeverApplies
<1>1. ASSUME HandlerInv, [fcNext]_fcVars
      PROVE  [todo # << >> /\ ~on[current] =>
                 \A k \in Keys : Applied(express', k) => Applied(express, k)]_fcVars
  <2>1. CASE UNCHANGED express
    BY <2>1
  <2>2. CASE RunMacro
    BY <1>1, <2>2, RunMacroOff
  <2> QED
    BY <1>1, <2>1, <2>2 DEF fcNext, fcVars, Changes, vars, LoadLibrary
<1> QED
  BY <1>1, HandlerInvariant, PTL DEF fcSpec, OffNeverApplies
=============================================================================
