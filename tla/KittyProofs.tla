----------------------------- MODULE KittyProofs -----------------------------
(***************************************************************************)
(* Proofs about KittyMemory: patches made by any number of threads, dumps  *)
(* and copies through system calls, on pages of any number, size and       *)
(* rights; the list of images; the cache of regions that tells good        *)
(* pointers; files that are read and written in pieces, trees of           *)
(* directories that are walked over, libraries found in archives; searches *)
(* for bytes.                                                              *)
(***************************************************************************)
EXTENDS MemoryCopies, KittyScan, ZipIndex, ElfFinder, PtrValidator,
        FiniteSetTheorems, SequenceTheorems, WellFoundedInduction, TLAPS

(* Patches of any number of threads. *)
MemorySpec == MemoryInit /\ [][MemoryNext]_memoryVars

-----------------------------------------------------------------------------
Kinds == {"create", "modify", "restore"}
Lasts == {Nil, "created", "modified", "restored", "rejected"}

OpRecords ==
    [at : {"idle", "protect", "copy", "revert"}, kind : Kinds \cup {Nil}, patch : Patches \cup {Nil},
     seen : SUBSET RWX, raced : BOOLEAN, mixed : BOOLEAN]
PatchRecords == [valid : BOOLEAN, orig : Seq(Nat), backed : BOOLEAN, last : Lasts]

MemoryTypes ==
    /\ mem \in [Addresses -> Nat] /\ prot \in [Pages -> SUBSET RWX]
    /\ patch \in [Patches -> PatchRecords] /\ op \in [Threads -> OpRecords]
    /\ fault \subseteq Threads

Begun(x) == patch[x].last \notin {Nil, "rejected"}
Busy(t)  == op[t].at # "idle"

(* A patch has its size from the moment it is made. *)
PatchesSized ==
    \A x \in Patches : /\ Begun(x) => Len(patch[x].orig) = Len(Code[x])
                       /\ patch[x].valid \/ patch[x].backed => Begun(x)

(* A call is on a patch that was made, alone; it changes rights only if    *)
(* those it saw are not enough.                                            *)
CallsInOrder ==
    \A t \in Threads : Busy(t) =>
        /\ op[t].patch \in Patches /\ op[t].kind \in Kinds /\ Begun(op[t].patch)
        /\ op[t].kind = "create" => patch[op[t].patch].last = "created"
        /\ op[t].at # "copy" => Need(t) \notin op[t].seen
        /\ "w" \in op[t].seen => "r" \in op[t].seen
        /\ \A u \in Threads \ {t} : Busy(u) => op[u].patch # op[t].patch

(* What can be written can be read. *)
NoWriteOnly == \A p \in Pages : "w" \in prot[p] => "r" \in prot[p]

(* A call that nobody disturbs, on pages of equal rights, knows them.      *)
RightsKnown ==
    \A t \in Threads : Busy(t) /\ ~op[t].raced /\ ~op[t].mixed =>
        \A p \in Touched(op[t].patch) :
            /\ Mapped(p)
            /\ op[t].at = "protect" => prot[p] = op[t].seen
            /\ op[t].at = "copy" => Need(t) \in prot[p]

(* A page is writable for a call that made it so and will revert it.       *)
Writes(t) ==
    /\ op[t].kind \in {"modify", "restore"} /\ op[t].at \in {"copy", "revert"}
    /\ Need(t) \notin op[t].seen
WritersRevert ==
    \A p \in Pages \ refused :
        "w" \in prot[p] /\ "w" \notin Perms[p] =>
            \E t \in Threads : Writes(t) /\ p \in PatchPages(op[t].patch)

StartBytes(x) == [i \in DOMAIN Code[x] |-> Start[Site[x] + i - 1]]

(* Where no other patch was made, the bytes are those of the process until *)
(* the patch is applied, and the backup holds them.                        *)
BytesKept ==
    \A x \in Patches : ~Overlaps(x) =>
        /\ patch[x].last \in {Nil, "rejected", "created"} => Read(x) = StartBytes(x)
        /\ patch[x].backed =>
              /\ patch[x].orig = StartBytes(x)
              /\ Read(x) = IF patch[x].last = "modified" THEN Code[x] ELSE StartBytes(x)

MemoryIInv ==
    /\ MemoryTypes /\ PatchesSized /\ CallsInOrder /\ NoWriteOnly
    /\ RightsKnown /\ WritersRevert /\ BytesKept /\ FaultsHaveCause

-----------------------------------------------------------------------------
(* A later address is not on an earlier page. *)
LEMMA PagesInOrder ==
    ASSUME NEW a \in Nat \ {0}, NEW b \in Nat \ {0}, a <= b
    PROVE  PageOf(a) \in Nat /\ PageOf(b) \in Nat /\ PageOf(a) <= PageOf(b)
<1>1. PageSize \in Nat \ {0} /\ a - 1 \in Nat /\ b - 1 \in Nat /\ a - 1 <= b - 1
  BY MemoryAssumption
<1>2. \A k \in Nat \ {0} : \A x, y \in Nat : x <= y => x \div k <= y \div k /\ x \div k \in Nat /\ y \div k \in Nat
  OBVIOUS
<1> QED
  BY <1>1, <1>2 DEF PageOf

(* The bytes of a patch are where its bytes are. *)
LEMMA CodeShape ==
    ASSUME NEW x \in Patches
    PROVE  /\ Code[x] \in Seq(Nat) /\ Len(Code[x]) \in Nat \ {0} /\ DOMAIN Code[x] = 1 .. Len(Code[x])
           /\ Site[x] \in Nat \ {0} /\ Extent(x) \subseteq Addresses
           /\ \A i \in DOMAIN Code[x] : Site[x] + i - 1 \in Extent(x)
<1>1. Code[x] \in Seq(Nat) /\ Code[x] # <<>> /\ Site[x] \in Nat \ {0}
  BY MemoryAssumption
<1>2. Len(Code[x]) \in Nat \ {0} /\ DOMAIN Code[x] = 1 .. Len(Code[x])
  BY <1>1, EmptySeq, LenProperties
<1>3. PageCount * PageSize \in Nat /\ Site[x] + Len(Code[x]) - 1 <= PageCount * PageSize
  BY MemoryAssumption
<1> QED
  BY <1>1, <1>2, <1>3, SMTT(60) DEF Extent, Addresses

(* The pages whose rights a call changes hold all bytes of its patch. *)
LEMMA TouchedPages ==
    ASSUME NEW x \in Patches
    PROVE  Touched(x) \subseteq PatchPages(x)
<1> SUFFICES ASSUME NEW a \in Extent(x) PROVE PageOf(a) \in PatchPages(x)
  BY DEF Touched
<1>1. Site[x] \in Nat \ {0} /\ Len(Code[x]) \in Nat \ {0}
  BY CodeShape
<1> DEFINE z == Site[x] + Len(Code[x]) - 1
<1>2. a \in Nat \ {0} /\ z \in Nat \ {0} /\ Site[x] <= a /\ a <= z
  BY <1>1 DEF Extent
<1>3. PageOf(Site[x]) <= PageOf(a) /\ PageOf(a) <= PageOf(z)
  BY <1>1, <1>2, PagesInOrder
<1>4. PageOf(Site[x]) \in Nat /\ PageOf(a) \in Nat /\ PageOf(z) \in Nat
  BY <1>1, <1>2, PagesInOrder
<1>5. PatchPages(x) = PageOf(Site[x]) .. PageOf(z)
  BY DEF PatchPages, PagesOf
<1> QED
  BY <1>3, <1>4, <1>5

(* Only threads with the pages of their patch among those whose rights     *)
(* changed are marked.                                                     *)
LEMMA Disturbed ==
    ASSUME MemoryTypes, NEW t, NEW ps, NEW u \in Threads \ {t}
    PROVE  /\ Disturb(t, ps)[u] \in OpRecords
           /\ Disturb(t, ps)[u].at = op[u].at /\ Disturb(t, ps)[u].kind = op[u].kind
           /\ Disturb(t, ps)[u].patch = op[u].patch /\ Disturb(t, ps)[u].seen = op[u].seen
           /\ Disturb(t, ps)[u].mixed = op[u].mixed
           /\ ~Disturb(t, ps)[u].raced =>
                 ~op[u].raced /\ (Busy(u) => PatchPages(op[u].patch) \cap ps = {})
  BY DEF MemoryTypes, OpRecords, Disturb, Busy

-----------------------------------------------------------------------------
(* Patches that nobody is making or applying stay as they are; a thread    *)
(* that begins a call sees rights that hold.                               *)
LEMMA LookupInv ==
    ASSUME MemoryIInv, NEW t \in Threads, NEW x \in Patches, NEW k \in Kinds, Lookup(t, k, x),
           patch' \in [Patches -> PatchRecords], PatchesSized', BytesKept',
           \A y \in Patches \ {x} : patch'[y] = patch[y],
           Begun(x)', k = "create" => patch'[x].last = "created"
    PROVE  MemoryIInv'
<1>1. CASE op' = op
  <2>1. MemoryTypes'
    BY <1>1 DEF Lookup, MemoryIInv, MemoryTypes
  <2>2. fault = {} /\ \A u \in Threads : op[u].patch # x
    BY DEF Lookup
  <2>3. CallsInOrder'
    BY <1>1, <2>2 DEF MemoryIInv, CallsInOrder, Busy, Begun, Need
  <2>4. NoWriteOnly' /\ RightsKnown' /\ WritersRevert' /\ FaultsHaveCause'
    BY <1>1 DEF Lookup, MemoryIInv, NoWriteOnly, RightsKnown, WritersRevert, FaultsHaveCause, Busy, Need, Writes
  <2> QED
    BY <2>1, <2>3, <2>4 DEF MemoryIInv
<1>2. CASE op' # op
  <2> DEFINE seen == prot[PageOf(Site[x])]
             r == [at |-> IF (IF k = "create" THEN "r" ELSE "w") \in seen THEN "copy" ELSE "protect",
                   kind |-> k, patch |-> x, seen |-> seen, raced |-> FALSE,
                   mixed |-> \E p \in Touched(x) : ~Mapped(p) \/ prot[p] # seen]
  <2>1. /\ Mapped(PageOf(Site[x])) /\ op' = [op EXCEPT ![t] = r]
        /\ fault = {} /\ op[t].at = "idle" /\ (\A u \in Threads : op[u].patch # x)
        /\ UNCHANGED <<mem, prot, fault, refused>>
    BY <1>2 DEF Lookup
  <2>2. seen \in SUBSET RWX /\ ("w" \in seen => "r" \in seen) /\ prot \in [Pages -> SUBSET RWX]
    BY <2>1 DEF Mapped, MemoryIInv, MemoryTypes, NoWriteOnly
  <2>3. r \in OpRecords
    BY <2>2 DEF OpRecords
  <2>4. op \in [Threads -> OpRecords] /\ op'[t] = r /\ \A u \in Threads \ {t} : op'[u] = op[u]
    BY <2>1 DEF MemoryIInv, MemoryTypes
  <2>5. /\ r.at \in {"copy", "protect"} /\ r.kind = k /\ r.patch = x /\ r.seen = seen /\ ~r.raced
        /\ r.at = "copy" <=> (IF k = "create" THEN "r" ELSE "w") \in seen
        /\ ~r.mixed => \A p \in Touched(x) : Mapped(p) /\ prot[p] = seen
    OBVIOUS
  <2> HIDE DEF r
  <2>6. MemoryTypes'
    BY <2>1, <2>3, <2>4 DEF MemoryIInv, MemoryTypes
  <2>7. CallsInOrder'
    <3>1. ASSUME NEW u \in Threads, Busy(u)', u # t
          PROVE  /\ op'[u] = op[u] /\ Busy(u) /\ op[u].patch # x /\ op[u].patch \in Patches \ {x}
                 /\ patch'[op[u].patch] = patch[op[u].patch]
      BY <2>1, <2>4, <3>1 DEF MemoryIInv, CallsInOrder, Busy
    <3>2. ASSUME NEW u \in Threads, Busy(u)'
          PROVE  /\ op'[u].patch \in Patches /\ op'[u].kind \in Kinds /\ Begun(op[u].patch)'
                 /\ op'[u].kind = "create" => patch'[op'[u].patch].last = "created"
                 /\ op'[u].at # "copy" => Need(u)' \notin op'[u].seen
                 /\ "w" \in op'[u].seen => "r" \in op'[u].seen
      <4>1. CASE u = t
        BY <4>1, <2>2, <2>4, <2>5 DEF Need, Kinds
      <4>2. CASE u # t
        BY <4>2, <3>2, <3>1 DEF MemoryIInv, CallsInOrder, Need, Begun
      <4> QED
        BY <4>1, <4>2
    <3>3. ASSUME NEW u \in Threads, Busy(u)', NEW v \in Threads \ {u}, Busy(v)'
          PROVE  op'[v].patch # op'[u].patch
      BY <3>1, <3>3, <2>4, <2>5 DEF MemoryIInv, CallsInOrder
    <3> QED
      BY <3>2, <3>3 DEF CallsInOrder
  <2>8. NoWriteOnly'
    BY <2>1 DEF MemoryIInv, NoWriteOnly
  <2>9. RightsKnown'
    BY <2>1, <2>4, <2>5 DEF MemoryIInv, RightsKnown, Busy, Need, Mapped, Touched
  <2>10. WritersRevert'
    <3>1. \A u \in Threads : Writes(u) => Writes(u)' /\ op'[u].patch = op[u].patch
      BY <2>1, <2>4 DEF Writes, Need
    <3> QED
      BY <2>1, <3>1 DEF MemoryIInv, WritersRevert
  <2>11. FaultsHaveCause'
    BY <2>1 DEF FaultsHaveCause
  <2> QED
    BY <2>6, <2>7, <2>8, <2>9, <2>10, <2>11 DEF MemoryIInv
<1> QED
  BY <1>1, <1>2

(* A patch that overlaps no other one now did not before. *)
LEMMA OverlapsStay ==
    ASSUME \A y \in Patches : Begun(y) => Begun(y)', NEW x \in Patches, ~Overlaps(x)'
    PROVE  ~Overlaps(x) /\ \A y \in Patches \ {x} : Begun(y)' => Extent(x) \cap Extent(y) = {}
  BY DEF Overlaps, Begun, Extent

(* A patch or a backup is made, or rejected. *)
LEMMA CreateInv ==
    ASSUME MemoryIInv, NEW t \in Threads, NEW x \in Patches, Create(t, x)
    PROVE  MemoryIInv'
<1>1. /\ patch \in [Patches -> PatchRecords] /\ ~Begun(x) /\ ~patch[x].valid /\ ~patch[x].backed
      /\ mem' = mem
  BY DEF Create, Lookup, MemoryIInv, MemoryTypes, PatchesSized, Begun
<1>2. CASE Lookup(t, "create", x) /\ patch' = [patch EXCEPT ![x] = [Sized(x) EXCEPT !.valid = ~Mapped(PageOf(Site[x]))]]
  <2> DEFINE r == [Sized(x) EXCEPT !.valid = ~Mapped(PageOf(Site[x]))]
  <2>1. Sized(x).orig \in Seq(Nat) /\ Len(Sized(x).orig) = Len(Code[x])
    BY CodeShape DEF Sized
  <2>2. r \in PatchRecords /\ r.last = "created" /\ ~r.backed /\ Len(r.orig) = Len(Code[x])
    BY <2>1 DEF Sized, PatchRecords, Lasts, Mapped
  <2> HIDE DEF r
  <2>3. /\ patch' \in [Patches -> PatchRecords] /\ patch'[x] = r
        /\ \A y \in Patches \ {x} : patch'[y] = patch[y]
    BY <1>1, <1>2, <2>2 DEF r
  <2>4. PatchesSized' /\ Begun(x)'
    BY <2>2, <2>3, MemoryAssumption DEF MemoryIInv, PatchesSized, Begun
  <2>5. BytesKept'
    <3>1. \A y \in Patches : Begun(y) => Begun(y)'
      BY <2>3, <2>4 DEF Begun
    <3>2. ASSUME NEW z \in Patches, ~Overlaps(z)' PROVE ~Overlaps(z) /\ Read(z)' = Read(z) /\ StartBytes(z)' = StartBytes(z)
      BY <1>1, <3>1, <3>2, OverlapsStay DEF Read, StartBytes
    <3> QED
      BY <1>1, <2>2, <2>3, <3>2, MemoryAssumption DEF MemoryIInv, BytesKept, Begun
  <2> QED
    BY <1>2, <2>2, <2>3, <2>4, <2>5, LookupInv DEF Kinds
<1>3. CASE patch' = [patch EXCEPT ![x].last = "rejected"] /\ UNCHANGED <<mem, prot, op, fault, refused>>
  <2>1. /\ patch' \in [Patches -> PatchRecords] /\ patch'[x] = [patch[x] EXCEPT !.last = "rejected"]
        /\ \A y \in Patches \ {x} : patch'[y] = patch[y]
    BY <1>1, <1>3 DEF PatchRecords, Lasts
  <2>2. patch'[x].last = "rejected" /\ ~patch'[x].valid /\ ~patch'[x].backed
    BY <1>1, <2>1 DEF PatchRecords
  <2>3. MemoryTypes' /\ PatchesSized'
    BY <1>3, <2>1, <2>2 DEF MemoryIInv, MemoryTypes, PatchesSized, Begun
  <2>4. CallsInOrder'
    <3>1. \A u \in Threads : Busy(u) => op[u].patch \in Patches \ {x}
      BY <1>1 DEF MemoryIInv, CallsInOrder
    <3> QED
      BY <1>3, <2>1, <3>1 DEF MemoryIInv, CallsInOrder, Busy, Begun, Need
  <2>5. NoWriteOnly' /\ RightsKnown' /\ WritersRevert' /\ FaultsHaveCause'
    BY <1>3 DEF MemoryIInv, NoWriteOnly, RightsKnown, WritersRevert, FaultsHaveCause, Busy, Need, Writes
  <2>6. BytesKept'
    <3>1. \A y \in Patches : Begun(y) => Begun(y)'
      BY <1>1, <2>1 DEF Begun
    <3>2. ASSUME NEW z \in Patches, ~Overlaps(z)' PROVE ~Overlaps(z) /\ Read(z)' = Read(z) /\ StartBytes(z)' = StartBytes(z)
      BY <1>1, <3>1, <3>2, OverlapsStay DEF Read, StartBytes
    <3>3. patch[x].last = Nil
      BY DEF Create
    <3> QED
      BY ZenonT(60), <1>1, <2>1, <2>2, <3>2, <3>3, MemoryAssumption DEF MemoryIInv, BytesKept, Begun
  <2> QED
    BY <2>3, <2>4, <2>5, <2>6 DEF MemoryIInv
<1> QED
  BY <1>2, <1>3 DEF Create

(* A patch is applied or taken back. *)
LEMMA CallInv ==
    ASSUME MemoryIInv, NEW t \in Threads, NEW x \in Patches, Modify(t, x) \/ Restore(t, x)
    PROVE  MemoryIInv'
<1>1. /\ patch' = patch /\ mem' = mem /\ Begun(x)
      /\ \E k \in {"modify", "restore"} : Lookup(t, k, x)
  BY DEF Modify, Restore, Lookup, MemoryIInv, PatchesSized
<1>2. PatchesSized' /\ BytesKept' /\ Begun(x)' /\ patch' \in [Patches -> PatchRecords]
  BY <1>1 DEF MemoryIInv, MemoryTypes, PatchesSized, BytesKept, Begun, Overlaps, Read
<1> QED
  BY <1>1, <1>2, LookupInv DEF Kinds

-----------------------------------------------------------------------------
(* Bytes and backups that nobody writes. *)
LEMMA BytesStay ==
    ASSUME BytesKept, mem' = mem,
           \A y \in Patches : /\ patch'[y].orig = patch[y].orig /\ patch'[y].backed = patch[y].backed
                              /\ patch'[y].last = patch[y].last
    PROVE  BytesKept'
<1>1. \A y \in Patches : Overlaps(y)' = Overlaps(y) /\ Read(y)' = Read(y) /\ StartBytes(y)' = StartBytes(y)
  BY DEF Overlaps, Extent, Read, StartBytes
<1> QED
  BY <1>1 DEF BytesKept

(* Calls that go on, or end, on patches that stay made. *)
LEMMA OrderStays ==
    ASSUME MemoryIInv,
           \A u \in Threads : Busy(u)' =>
               /\ Busy(u) /\ op'[u].kind = op[u].kind /\ op'[u].patch = op[u].patch /\ op'[u].seen = op[u].seen
               /\ op'[u].at # "copy" => Need(u) \notin op[u].seen
               /\ Begun(op[u].patch)'
               /\ op[u].kind = "create" => patch'[op[u].patch].last = "created"
    PROVE  CallsInOrder'
<1>1. ASSUME NEW u \in Threads, Busy(u)'
      PROVE  /\ op'[u].patch \in Patches /\ op'[u].kind \in Kinds /\ Begun(op[u].patch)'
             /\ op'[u].kind = "create" => patch'[op'[u].patch].last = "created"
             /\ op'[u].at # "copy" => Need(u)' \notin op'[u].seen
             /\ "w" \in op'[u].seen => "r" \in op'[u].seen
             /\ \A v \in Threads \ {u} : Busy(v)' => op'[v].patch # op'[u].patch
  <2>1. Need(u)' = Need(u)
    BY <1>1 DEF Need
  <2> QED
    BY <1>1, <2>1 DEF MemoryIInv, CallsInOrder
<1> QED
  BY <1>1 DEF CallsInOrder, Begun

(* The rights a call needs are given to its pages, or it ends.             *)
LEMMA ProtectInv ==
    ASSUME MemoryIInv, NEW t \in Threads, Protect(t)
    PROVE  MemoryIInv'
<1> DEFINE x == op[t].patch
           ps == PatchPages(x)
           rights == IF op[t].kind = "create" THEN op[t].seen \cup {"r"} ELSE RWX
<1>1. /\ fault = {} /\ op[t].at = "protect" /\ UNCHANGED <<mem, fault, refused>>
      /\ op \in [Threads -> OpRecords] /\ patch \in [Patches -> PatchRecords] /\ prot \in [Pages -> SUBSET RWX]
      /\ x \in Patches /\ Begun(x) /\ op[t].kind \in Kinds
      /\ Need(t) \notin op[t].seen /\ op[t].seen \in SUBSET RWX
  BY DEF Protect, Running, MemoryIInv, MemoryTypes, CallsInOrder, Busy, OpRecords
<1>2. CASE CanProtect(ps) /\ memProtect(ps, rights) /\ op' = [Disturb(t, ps) EXCEPT ![t].at = "copy"] /\ patch' = patch
  <2>1. /\ op'[t] = [op[t] EXCEPT !.at = "copy"] /\ op' \in [Threads -> OpRecords]
        /\ \A u \in Threads \ {t} : op'[u] = Disturb(t, ps)[u]
    <3>1. Disturb(t, ps) \in [Threads -> OpRecords] /\ Disturb(t, ps)[t] = op[t]
      BY ZenonT(60), <1>1 DEF Disturb, OpRecords
    <3>2. [op[t] EXCEPT !.at = "copy"] \in OpRecords
      BY <1>1 DEF OpRecords
    <3> QED
      BY <1>2, <3>1, <3>2
  <2>2. /\ op'[t].at = "copy" /\ op'[t].kind = op[t].kind /\ op'[t].patch = x /\ op'[t].seen = op[t].seen
        /\ op'[t].raced = op[t].raced /\ op'[t].mixed = op[t].mixed
    BY <1>1, <2>1 DEF OpRecords
  <2>3. \A u \in Threads \ {t} :
           /\ op'[u].at = op[u].at /\ op'[u].kind = op[u].kind /\ op'[u].patch = op[u].patch
           /\ op'[u].seen = op[u].seen /\ op'[u].mixed = op[u].mixed
           /\ ~op'[u].raced => ~op[u].raced /\ (Busy(u) => PatchPages(op[u].patch) \cap ps = {})
    BY <2>1, Disturbed DEF MemoryIInv
  <2>4. rights \in SUBSET RWX /\ "r" \in rights /\ Need(t) \in rights
    BY <1>1 DEF RWX, Need
  <2>5. /\ prot' \in [Pages -> SUBSET RWX]
        /\ \A p \in Pages : prot'[p] = IF p \in ps THEN rights ELSE prot[p]
    BY <1>1, <1>2, <2>4 DEF memProtect
  <2> HIDE DEF rights, ps
  <2>6. MemoryTypes' /\ PatchesSized' /\ BytesKept' /\ FaultsHaveCause'
    <3>1. MemoryTypes'
      BY <1>1, <1>2, <2>1, <2>5 DEF MemoryIInv, MemoryTypes
    <3>2. PatchesSized' /\ FaultsHaveCause'
      BY <1>1, <1>2 DEF MemoryIInv, PatchesSized, FaultsHaveCause, Begun
    <3>3. BytesKept'
      BY <1>1, <1>2, BytesStay DEF MemoryIInv
    <3> QED
      BY <3>1, <3>2, <3>3
  <2>7. CallsInOrder'
    <3>1. \A u \in Threads : Busy(u) => Begun(op[u].patch) /\ (op[u].kind = "create" => patch[op[u].patch].last = "created")
      BY DEF MemoryIInv, CallsInOrder
    <3>2. \A u \in Threads : Busy(u) /\ op[u].at # "copy" => Need(u) \notin op[u].seen
      BY DEF MemoryIInv, CallsInOrder
    <3> QED
      BY <1>1, <1>2, <2>2, <2>3, <3>1, <3>2, OrderStays DEF Busy, Begun
  <2>8. NoWriteOnly'
    BY <2>4, <2>5 DEF MemoryIInv, NoWriteOnly
  <2>9. RightsKnown'
    <3> SUFFICES ASSUME NEW u \in Threads, Busy(u)', ~op'[u].raced, ~op'[u].mixed, NEW p \in Touched(op'[u].patch)
                 PROVE  /\ Mapped(p)
                        /\ op'[u].at = "protect" => prot'[p] = op'[u].seen
                        /\ op'[u].at = "copy" => Need(u)' \in prot'[p]
      BY DEF RightsKnown, Mapped, Touched
    <3>1. CASE u = t
      <4>1. p \in ps
        BY <1>1, <2>2, <3>1, TouchedPages DEF ps
      <4>2. Mapped(p)
        BY <1>2, <4>1 DEF CanProtect, ps
      <4> QED
        BY <2>2, <2>4, <2>5, <3>1, <4>1, <4>2 DEF Mapped, Need
    <3>2. CASE u # t
      <4>1. Busy(u) /\ op[u].patch \in Patches /\ op'[u].patch = op[u].patch /\ ~op[u].raced /\ ~op[u].mixed
        BY <2>3, <3>2 DEF MemoryIInv, CallsInOrder, Busy
      <4>2. p \notin ps
        BY <2>3, <3>2, <4>1, TouchedPages
      <4>3. Mapped(p) /\ (op[u].at = "protect" => prot[p] = op[u].seen) /\ (op[u].at = "copy" => Need(u) \in prot[p])
        BY <4>1 DEF MemoryIInv, RightsKnown
      <4> QED
        BY <2>3, <2>5, <3>2, <4>2, <4>3 DEF Mapped, Need
    <3> QED
      BY <3>1, <3>2
  <2>10. WritersRevert'
    <3> SUFFICES ASSUME NEW p \in Pages \ refused, "w" \in prot'[p], "w" \notin Perms[p]
                 PROVE  \E u \in Threads : Writes(u)' /\ p \in PatchPages(op'[u].patch)
      BY <1>1 DEF WritersRevert, PatchPages
    <3>1. CASE p \in ps
      <4>1. op[t].kind # "create"
        BY <1>1, <2>5, <3>1 DEF rights, Need, MemoryIInv, CallsInOrder, Busy
      <4>2. Writes(t)'
        BY <1>1, <2>2, <4>1 DEF Writes, Need, Kinds
      <4> QED
        BY <2>2, <3>1, <4>2 DEF ps
    <3>2. CASE p \notin ps
      <4>1. PICK u \in Threads : Writes(u) /\ p \in PatchPages(op[u].patch)
        BY <2>5, <3>2 DEF MemoryIInv, WritersRevert
      <4>2. u # t
        BY <1>1, <4>1 DEF Writes
      <4> QED
        BY <2>3, <4>1, <4>2 DEF Writes, Need
    <3> QED
      BY <3>1, <3>2
  <2> QED
    BY <2>6, <2>7, <2>8, <2>9, <2>10 DEF MemoryIInv
<1>3. CASE Finish(t) /\ prot' = prot
  <2>1. /\ op'[t] = Idle /\ op' \in [Threads -> OpRecords] /\ \A u \in Threads \ {t} : op'[u] = op[u]
    <3>1. Idle \in OpRecords
      BY DEF Idle, OpRecords, RWX
    <3> QED
      BY <1>1, <1>3, <3>1 DEF Finish
  <2>2. /\ patch' \in [Patches -> PatchRecords]
        /\ \A y \in Patches : /\ patch'[y].orig = patch[y].orig /\ patch'[y].backed = patch[y].backed
                              /\ patch'[y].last = patch[y].last
                              /\ patch'[y].valid => patch[y].valid \/ y = x
    BY <1>1, <1>3 DEF Finish, PatchRecords
  <2>3. op'[t].at = "idle" /\ op'[t].kind = Nil
    BY <2>1 DEF Idle
  <2>4. MemoryTypes' /\ PatchesSized' /\ BytesKept' /\ FaultsHaveCause'
    <3>1. MemoryTypes'
      BY <1>1, <1>3, <2>1, <2>2 DEF MemoryIInv, MemoryTypes
    <3>2. PatchesSized' /\ FaultsHaveCause'
      BY <1>1, <2>2 DEF MemoryIInv, PatchesSized, FaultsHaveCause, Begun
    <3>3. BytesKept'
      BY <1>1, <2>2, BytesStay DEF MemoryIInv
    <3> QED
      BY <3>1, <3>2, <3>3
  <2>5. CallsInOrder'
    <3>1. \A u \in Threads : Busy(u) => /\ Begun(op[u].patch) /\ op[u].patch \in Patches
                                        /\ op[u].kind = "create" => patch[op[u].patch].last = "created"
                                        /\ op[u].at # "copy" => Need(u) \notin op[u].seen
      BY DEF MemoryIInv, CallsInOrder
    <3>2. \A u \in Threads : Busy(u)' => op'[u] = op[u] /\ Busy(u)
      BY <2>1, <2>3 DEF Busy
    <3>3. \A y \in Patches : (Begun(y) => Begun(y)') /\ patch'[y].last = patch[y].last
      BY <2>2 DEF Begun
    <3>4. \A u \in Threads : Busy(u)' =>
             Begun(op[u].patch)' /\ (op[u].kind = "create" => patch'[op[u].patch].last = "created")
      BY <3>1, <3>2, <3>3 DEF Begun
    <3> QED
      BY <3>1, <3>2, <3>4, OrderStays
  <2>6. NoWriteOnly' /\ RightsKnown'
    BY <1>3, <2>1, <2>3 DEF MemoryIInv, NoWriteOnly, RightsKnown, Busy, Need, Mapped, Touched
  <2>7. WritersRevert'
    <3>1. \A u \in Threads : Writes(u) => Writes(u)' /\ op'[u].patch = op[u].patch
      BY <1>1, <2>1 DEF Writes, Need
    <3> QED
      BY <1>1, <1>3, <3>1 DEF MemoryIInv, WritersRevert
  <2> QED
    BY <2>4, <2>5, <2>6, <2>7 DEF MemoryIInv
<1> QED
  BY <1>2, <1>3 DEF Protect

(* What a call writes is as long as its patch. *)
LEMMA BytesFit ==
    ASSUME MemoryIInv, NEW t \in Threads, Busy(t)
    PROVE  Bytes(t) \in Seq(Nat) /\ Len(Bytes(t)) = Len(Code[op[t].patch])
<1>1. op[t].patch \in Patches /\ Begun(op[t].patch) /\ patch[op[t].patch] \in PatchRecords
  BY DEF MemoryIInv, CallsInOrder, MemoryTypes
<1> QED
  BY <1>1, CodeShape DEF Bytes, MemoryIInv, PatchesSized, PatchRecords

(* The bytes are copied, one after another, to where the patch is. *)
LEMMA BytesCopied ==
    ASSUME MemoryTypes, NEW x \in Patches, NEW b \in Seq(Nat), Len(b) = Len(Code[x]),
           mem' = [a \in Addresses |-> IF a \in Extent(x) THEN b[a - Site[x] + 1] ELSE mem[a]]
    PROVE  /\ mem' \in [Addresses -> Nat] /\ Read(x)' = b
           /\ \A y \in Patches : Extent(x) \cap Extent(y) = {} => Read(y)' = Read(y)
<1>1. \A a \in Extent(x) : a - Site[x] + 1 \in 1 .. Len(b)
  BY CodeShape, SMTT(60) DEF Extent
<1>2. mem' \in [Addresses -> Nat]
  BY <1>1, ElementOfSeq DEF MemoryTypes
<1>3. Read(x)' = b
  <2>1. \A i \in 1 .. Len(b) : /\ Site[x] + i - 1 \in Extent(x) /\ Site[x] + i - 1 \in Addresses
                               /\ (Site[x] + i - 1) - Site[x] + 1 = i
    <3>1. /\ Site[x] \in Nat /\ Extent(x) \subseteq Addresses
          /\ \A i \in 1 .. Len(b) : Site[x] + i - 1 \in Extent(x)
      BY CodeShape
    <3>2. \A i \in 1 .. Len(b) : (Site[x] + i - 1) - Site[x] + 1 = i
      BY <3>1
    <3> QED
      BY <3>1, <3>2
  <2>2. Read(x)' = [i \in 1 .. Len(b) |-> mem'[Site[x] + i - 1]]
    BY CodeShape DEF Read
  <2>3. \A i \in 1 .. Len(b) : mem'[Site[x] + i - 1] = b[i]
    BY <2>1
  <2>4. b = [i \in 1 .. Len(b) |-> b[i]]
    BY LenProperties
  <2> QED
    BY <2>2, <2>3, <2>4
<1>4. ASSUME NEW y \in Patches, Extent(x) \cap Extent(y) = {} PROVE Read(y)' = Read(y)
  <2>1. \A i \in DOMAIN Code[y] : Site[y] + i - 1 \in Extent(y) /\ Site[y] + i - 1 \in Addresses
    BY CodeShape
  <2>2. \A i \in DOMAIN Code[y] : mem'[Site[y] + i - 1] = mem[Site[y] + i - 1]
    BY <1>4, <2>1
  <2> QED
    BY <2>2 DEF Read
<1> QED
  BY <1>2, <1>3, <1>4

(* What the patch of a call is after memcpy. *)
LEMMA PatchCopied ==
    ASSUME MemoryIInv, NEW t \in Threads, Busy(t), NEW direct \in BOOLEAN
    PROVE  LET c == [Copied(t) EXCEPT !.valid = direct \/ @] IN
           /\ c \in PatchRecords /\ Len(c.orig) = Len(Code[op[t].patch])
           /\ op[t].kind = "create" => c.last = "created" /\ c.orig = Read(op[t].patch)
           /\ op[t].kind = "modify" =>
                 c.last = "modified" /\ c.orig = patch[op[t].patch].orig /\ c.backed = patch[op[t].patch].backed
           /\ op[t].kind = "restore" =>
                 c.last = "restored" /\ c.orig = patch[op[t].patch].orig /\ c.backed = patch[op[t].patch].backed
<1> DEFINE x == op[t].patch
<1>1. /\ x \in Patches /\ Begun(x) /\ patch[x] \in PatchRecords /\ op[t].kind \in Kinds
      /\ op[t].kind = "create" => patch[x].last = "created"
      /\ Len(patch[x].orig) = Len(Code[x])
  BY DEF MemoryIInv, CallsInOrder, MemoryTypes, PatchesSized
<1>2. Read(x) \in Seq(Nat) /\ Len(Read(x)) = Len(Code[x])
  <2>1. \A i \in DOMAIN Code[x] : mem[Site[x] + i - 1] \in Nat
    BY <1>1, CodeShape DEF MemoryIInv, MemoryTypes
  <2>2. Len(Code[x]) \in Nat /\ DOMAIN Code[x] = 1 .. Len(Code[x])
    BY <1>1, CodeShape
  <2> DEFINE n == Len(Code[x])
             v(i) == mem[Site[x] + i - 1]
  <2>3. Read(x) = [i \in 1 .. n |-> v(i)] /\ n \in Nat /\ \A i \in 1 .. n : v(i) \in Nat
    BY <2>1, <2>2 DEF Read
  <2> HIDE DEF n, v
  <2>4. Read(x) \in Seq(Nat) /\ Len(Read(x)) = n
    BY <2>3
  <2> QED
    BY <2>4 DEF n
<1>3. CASE op[t].kind = "create"
  BY <1>1, <1>2, <1>3 DEF Copied, PatchRecords
<1>4. CASE op[t].kind = "modify"
  BY <1>1, <1>4 DEF Copied, PatchRecords, Lasts
<1>5. CASE op[t].kind = "restore"
  BY <1>1, <1>5 DEF Copied, PatchRecords, Lasts
<1> QED
  BY <1>1, <1>3, <1>4, <1>5 DEF Kinds

(* memcpy. *)
LEMMA CopyInv ==
    ASSUME MemoryIInv, NEW t \in Threads, Copy(t)
    PROVE  MemoryIInv'
<1>0. PICK x \in Patches : x = op[t].patch
  BY DEF Copy, Running, MemoryIInv, CallsInOrder, Busy
<1> DEFINE direct == Need(t) \in op[t].seen
<1>1. /\ fault = {} /\ op[t].at = "copy" /\ Busy(t) /\ UNCHANGED <<prot, refused>>
      /\ op \in [Threads -> OpRecords] /\ patch \in [Patches -> PatchRecords]
      /\ op[t].patch = x /\ Begun(x) /\ op[t].kind \in Kinds /\ op[t] \in OpRecords
  BY <1>0 DEF Copy, Running, MemoryIInv, MemoryTypes, CallsInOrder, Busy
<1>2. CASE ~Allowed(t)
  <2>1. fault' = {t} /\ UNCHANGED <<mem, op, patch>>
    BY <1>2 DEF Copy
  <2>2. op[t].raced \/ op[t].mixed
    BY <1>1, <1>2 DEF MemoryIInv, RightsKnown, Allowed
  <2>3. MemoryTypes' /\ PatchesSized' /\ CallsInOrder' /\ NoWriteOnly'
    BY <1>1, <2>1 DEF MemoryIInv, MemoryTypes, PatchesSized, CallsInOrder, NoWriteOnly, Begun, Busy, Need
  <2>4. RightsKnown' /\ WritersRevert' /\ BytesKept' /\ FaultsHaveCause'
    <3>1. BytesKept'
      BY <2>1, BytesStay DEF MemoryIInv
    <3>2. RightsKnown'
      BY <1>1, <2>1 DEF MemoryIInv, RightsKnown, Busy, Need, Mapped, Touched
    <3>3. WritersRevert'
      BY <1>1, <2>1 DEF MemoryIInv, WritersRevert, Writes, Need, PatchPages
    <3> QED
      BY <2>1, <2>2, <3>1, <3>2, <3>3 DEF FaultsHaveCause
  <2> QED
    BY <2>3, <2>4 DEF MemoryIInv
<1>3. CASE Allowed(t)
  <2> DEFINE c == [Copied(t) EXCEPT !.valid = direct \/ @]
             r == IF direct THEN Idle ELSE [op[t] EXCEPT !.at = "revert"]
  <2>1. /\ mem' = IF op[t].kind = "create" THEN mem
                  ELSE [a \in Addresses |-> IF a \in Extent(x) THEN Bytes(t)[a - Site[x] + 1] ELSE mem[a]]
        /\ patch' = [patch EXCEPT ![x] = c] /\ op' = [op EXCEPT ![t] = r] /\ fault' = fault
    BY <1>1, <1>3 DEF Copy
  <2>2. /\ c \in PatchRecords /\ Len(c.orig) = Len(Code[x])
        /\ op[t].kind = "create" => c.last = "created" /\ c.orig = Read(x)
        /\ op[t].kind = "modify" => c.last = "modified" /\ c.orig = patch[x].orig /\ c.backed = patch[x].backed
        /\ op[t].kind = "restore" => c.last = "restored" /\ c.orig = patch[x].orig /\ c.backed = patch[x].backed
    BY <1>1, PatchCopied
  <2> HIDE DEF c
  <2>3. patch'[x] = c /\ patch' \in [Patches -> PatchRecords] /\ \A y \in Patches \ {x} : patch'[y] = patch[y]
    BY <1>1, <2>1, <2>2
  <2>4. Begun(x)' /\ \A y \in Patches : Begun(y) => Begun(y)'
    BY <1>1, <2>2, <2>3, MemoryAssumption DEF Begun, Kinds
  <2>5. /\ r \in OpRecords /\ op'[t] = r /\ op' \in [Threads -> OpRecords]
        /\ \A u \in Threads \ {t} : op'[u] = op[u]
    <3>1. r \in OpRecords
      BY <1>1 DEF Idle, OpRecords, RWX
    <3> QED
      BY <1>1, <2>1, <3>1
  <2>6. \/ direct /\ r.at = "idle" /\ r.kind = Nil
        \/ /\ ~direct /\ r.at = "revert" /\ r.kind = op[t].kind /\ r.patch = x /\ r.seen = op[t].seen
           /\ r.raced = op[t].raced /\ r.mixed = op[t].mixed
    BY <1>1 DEF Idle, OpRecords
  <2> HIDE DEF r
  <2>7. Bytes(t) \in Seq(Nat) /\ Len(Bytes(t)) = Len(Code[x])
    BY <1>1, BytesFit
  <2>8. mem' \in [Addresses -> Nat]
    BY <1>1, <2>1, <2>7, BytesCopied DEF MemoryIInv, MemoryTypes
  <2>9. MemoryTypes' /\ PatchesSized' /\ NoWriteOnly' /\ FaultsHaveCause'
    <3>1. MemoryTypes'
      BY <1>1, <2>1, <2>3, <2>5, <2>8 DEF MemoryIInv, MemoryTypes
    <3>2. PatchesSized'
      BY <2>2, <2>3, <2>4 DEF MemoryIInv, PatchesSized, Begun
    <3>3. NoWriteOnly' /\ FaultsHaveCause'
      BY <1>1, <2>1 DEF MemoryIInv, NoWriteOnly, FaultsHaveCause
    <3> QED
      BY <3>1, <3>2, <3>3
  <2>10. CallsInOrder'
    <3>1. ASSUME NEW u \in Threads, Busy(u)'
          PROVE  /\ Busy(u) /\ op'[u].kind = op[u].kind /\ op'[u].patch = op[u].patch /\ op'[u].seen = op[u].seen
                 /\ op'[u].at # "copy" => Need(u) \notin op[u].seen
                 /\ Begun(op[u].patch)'
                 /\ op[u].kind = "create" => patch'[op[u].patch].last = "created"
      <4>1. CASE u = t
        BY <1>1, <2>2, <2>3, <2>4, <2>5, <2>6, <3>1, <4>1 DEF Busy
      <4>2. CASE u # t
        <5>1. Busy(u) /\ op'[u] = op[u]
          BY <2>5, <3>1, <4>2 DEF Busy
        <5>2. /\ op[u].patch \in Patches \ {x} /\ Begun(op[u].patch)
              /\ op[u].at # "copy" => Need(u) \notin op[u].seen
              /\ op[u].kind = "create" => patch[op[u].patch].last = "created"
          BY <1>1, <4>2, <5>1 DEF MemoryIInv, CallsInOrder
        <5> QED
          BY <2>3, <2>4, <5>1, <5>2
      <4> QED
        BY <4>1, <4>2
    <3> QED
      BY <3>1, OrderStays
  <2>11. RightsKnown'
    <3>1. \A u \in Threads : Busy(u)' => Busy(u) /\ op'[u].patch = op[u].patch /\ op'[u].raced = op[u].raced
                                         /\ op'[u].mixed = op[u].mixed /\ (u = t => op'[u].at = "revert")
      BY <1>1, <2>5, <2>6 DEF Busy
    <3> QED
      BY <1>1, <2>5, <3>1 DEF MemoryIInv, RightsKnown, Need, Mapped, Touched
  <2>12. WritersRevert'
    <3>1. \A u \in Threads : Writes(u) => Writes(u)' /\ op'[u].patch = op[u].patch
      BY <1>1, <2>5, <2>6 DEF Writes, Need
    <3> QED
      BY <1>1, <3>1 DEF MemoryIInv, WritersRevert, PatchPages
  <2>13. BytesKept'
    <3> SUFFICES ASSUME NEW z \in Patches, ~Overlaps(z)'
                 PROVE  /\ patch'[z].last \in {Nil, "rejected", "created"} => Read(z)' = StartBytes(z)
                        /\ patch'[z].backed =>
                              /\ patch'[z].orig = StartBytes(z)
                              /\ Read(z)' = IF patch'[z].last = "modified" THEN Code[z] ELSE StartBytes(z)
      BY DEF BytesKept, StartBytes
    <3>1. ~Overlaps(z) /\ \A y \in Patches \ {z} : Begun(y)' => Extent(z) \cap Extent(y) = {}
      BY <2>4, OverlapsStay
    <3>2. /\ patch[z].last \in {Nil, "rejected", "created"} => Read(z) = StartBytes(z)
          /\ patch[z].backed =>
                /\ patch[z].orig = StartBytes(z)
                /\ Read(z) = IF patch[z].last = "modified" THEN Code[z] ELSE StartBytes(z)
      BY <3>1 DEF MemoryIInv, BytesKept
    <3>3. CASE z # x
      <4>1. Extent(x) \cap Extent(z) = {}
        BY <1>1, <2>4, <3>1, <3>3
      <4>2. Read(z)' = Read(z)
        <5>1. CASE op[t].kind = "create"
          BY <2>1, <5>1 DEF Read
        <5>2. CASE op[t].kind # "create"
          BY <1>1, <2>1, <2>7, <4>1, <5>2, BytesCopied DEF MemoryIInv
        <5> QED
          BY <5>1, <5>2
      <4> QED
        BY <2>3, <3>2, <3>3, <4>2
    <3>4. CASE z = x
      <4>1. CASE op[t].kind = "create"
        <5>1. Read(x)' = Read(x)
          BY <2>1, <4>1 DEF Read
        <5>2. patch[x].last = "created"
          BY <1>1, <4>1 DEF MemoryIInv, CallsInOrder
        <5> QED
          BY <2>2, <2>3, <3>2, <3>4, <4>1, <5>1, <5>2
      <4>2. CASE op[t].kind = "modify"
        <5>1. Read(x)' = Code[x]
          <6>1. Bytes(t) = Code[x]
            BY <1>1, <4>2 DEF Bytes
          <6> QED
            BY <1>1, <2>1, <2>7, <4>2, <6>1, BytesCopied DEF MemoryIInv
        <5> QED
          BY <2>2, <2>3, <3>2, <3>4, <4>2, <5>1, MemoryAssumption
      <4>3. CASE op[t].kind = "restore"
        <5>1. Read(x)' = patch[x].orig
          <6>1. Bytes(t) = patch[x].orig
            BY <1>1, <4>3 DEF Bytes
          <6> QED
            BY <1>1, <2>1, <2>7, <4>3, <6>1, BytesCopied DEF MemoryIInv
        <5> QED
          BY <2>2, <2>3, <3>2, <3>4, <4>3, <5>1, MemoryAssumption
      <4> QED
        BY <1>1, <4>1, <4>2, <4>3 DEF Kinds
    <3> QED
      BY <3>3, <3>4
  <2> QED
    BY <2>9, <2>10, <2>11, <2>12, <2>13 DEF MemoryIInv
<1> QED
  BY <1>2, <1>3

(* The rights are reverted, or the kernel refuses. *)
LEMMA RevertInv ==
    ASSUME MemoryIInv, NEW t \in Threads, Revert(t)
    PROVE  MemoryIInv'
<1>0. PICK x \in Patches : x = op[t].patch
  BY DEF Revert, Running, MemoryIInv, CallsInOrder, Busy
<1> DEFINE ps == PatchPages(x)
           rights == Reverted(t)
<1>1. /\ fault = {} /\ op[t].at = "revert" /\ Busy(t) /\ UNCHANGED <<mem, fault>>
      /\ op \in [Threads -> OpRecords] /\ patch \in [Patches -> PatchRecords] /\ prot \in [Pages -> SUBSET RWX]
      /\ op[t].patch = x /\ Begun(x) /\ op[t].kind \in Kinds /\ op[t] \in OpRecords
      /\ Need(t) \notin op[t].seen /\ ("w" \in op[t].seen => "r" \in op[t].seen)
      /\ patch' = [patch EXCEPT ![x].valid = TRUE]
  BY <1>0 DEF Revert, Running, MemoryIInv, MemoryTypes, CallsInOrder, Busy
<1>2. rights \in SUBSET RWX /\ "w" \notin rights
  BY <1>1 DEF Reverted, OpRecords, RWX, Need
<1>3. \/ memProtect(ps, rights) /\ op' = [Disturb(t, ps) EXCEPT ![t] = Idle] /\ UNCHANGED refused
      \/ /\ op' = [op EXCEPT ![t] = Idle] /\ UNCHANGED prot
         /\ refused' = IF op[t].kind = "create" THEN refused ELSE refused \cup ps
  BY <1>1 DEF Revert
<1> HIDE DEF rights
<1>4. Idle \in OpRecords /\ Idle.at = "idle"
  BY DEF Idle, OpRecords, RWX
<1>5. /\ op' \in [Threads -> OpRecords] /\ op'[t] = Idle
      /\ \A u \in Threads \ {t} :
           /\ op'[u].at = op[u].at /\ op'[u].kind = op[u].kind /\ op'[u].patch = op[u].patch
           /\ op'[u].seen = op[u].seen /\ op'[u].mixed = op[u].mixed
           /\ ~op'[u].raced => ~op[u].raced /\ (Busy(u) => PatchPages(op[u].patch) \cap ps = {} \/ prot' = prot)
  <2>1. CASE op' = [Disturb(t, ps) EXCEPT ![t] = Idle]
    <3>1. Disturb(t, ps) \in [Threads -> OpRecords]
      BY <1>1 DEF Disturb, OpRecords
    <3>2. op' \in [Threads -> OpRecords] /\ op'[t] = Idle /\ \A u \in Threads \ {t} : op'[u] = Disturb(t, ps)[u]
      BY <1>4, <2>1, <3>1
    <3> QED
      BY <3>2, Disturbed DEF MemoryIInv
  <2>2. CASE op' = [op EXCEPT ![t] = Idle] /\ UNCHANGED prot
    BY <1>1, <1>4, <2>2
  <2> QED
    BY <1>3, <2>1, <2>2
<1>6. /\ prot' \in [Pages -> SUBSET RWX]
      /\ \A p \in Pages \ ps : prot'[p] = prot[p]
      /\ \A p \in Pages : prot'[p] = prot[p] \/ prot'[p] = rights
      /\ refused \subseteq refused'
      /\ \/ prot' = prot /\ (op[t].kind # "create" => ps \subseteq refused')
         \/ \A p \in Pages \cap ps : prot'[p] = rights
  BY <1>1, <1>2, <1>3 DEF memProtect
<1> HIDE DEF ps
<1>7. /\ patch' \in [Patches -> PatchRecords]
      /\ \A y \in Patches : /\ patch'[y].orig = patch[y].orig /\ patch'[y].backed = patch[y].backed
                            /\ patch'[y].last = patch[y].last
                            /\ patch'[y].valid => patch[y].valid \/ y = x
  BY <1>1, ZenonT(60) DEF PatchRecords
<1>8. MemoryTypes' /\ PatchesSized' /\ BytesKept' /\ FaultsHaveCause'
  <2>1. MemoryTypes'
    BY <1>1, <1>5, <1>6, <1>7 DEF MemoryIInv, MemoryTypes
  <2>2. PatchesSized' /\ FaultsHaveCause'
    BY <1>1, <1>7 DEF MemoryIInv, PatchesSized, FaultsHaveCause, Begun
  <2>3. BytesKept'
    BY <1>1, <1>7, BytesStay DEF MemoryIInv
  <2> QED
    BY <2>1, <2>2, <2>3
<1>9. CallsInOrder'
  <2>1. \A u \in Threads : Busy(u) => /\ Begun(op[u].patch) /\ op[u].patch \in Patches
                                      /\ op[u].kind = "create" => patch[op[u].patch].last = "created"
                                      /\ op[u].at # "copy" => Need(u) \notin op[u].seen
    BY DEF MemoryIInv, CallsInOrder
  <2>2. \A u \in Threads : Busy(u)' => Busy(u) /\ u # t
    BY <1>4, <1>5 DEF Busy
  <2>3. \A y \in Patches : (Begun(y) => Begun(y)') /\ patch'[y].last = patch[y].last
    BY <1>7 DEF Begun
  <2>4. \A u \in Threads : Busy(u)' =>
           Begun(op[u].patch)' /\ (op[u].kind = "create" => patch'[op[u].patch].last = "created")
    BY <1>5, <2>1, <2>2, <2>3 DEF Begun
  <2> QED
    BY <1>5, <2>1, <2>2, <2>4, OrderStays
<1>10. NoWriteOnly'
  BY <1>2, <1>6 DEF MemoryIInv, NoWriteOnly
<1>11. RightsKnown'
  <2> SUFFICES ASSUME NEW u \in Threads, Busy(u)', ~op'[u].raced, ~op'[u].mixed, NEW p \in Touched(op'[u].patch)
               PROVE  /\ Mapped(p)
                      /\ op'[u].at = "protect" => prot'[p] = op'[u].seen
                      /\ op'[u].at = "copy" => Need(u)' \in prot'[p]
    BY DEF RightsKnown, Mapped, Touched
  <2>1. u # t
    BY <1>4, <1>5 DEF Busy
  <2>2. Busy(u) /\ op[u].patch \in Patches /\ op'[u].patch = op[u].patch /\ ~op[u].raced /\ ~op[u].mixed
    BY <1>5, <2>1 DEF MemoryIInv, CallsInOrder, Busy
  <2>3. Mapped(p) /\ (op[u].at = "protect" => prot[p] = op[u].seen) /\ (op[u].at = "copy" => Need(u) \in prot[p])
    BY <2>2 DEF MemoryIInv, RightsKnown
  <2>4. p \notin ps \/ prot' = prot
    BY <1>5, <2>1, <2>2, TouchedPages
  <2>5. prot'[p] = prot[p]
    BY <1>6, <2>3, <2>4 DEF Mapped
  <2> QED
    BY <1>5, <2>1, <2>3, <2>5 DEF Need
<1>12. WritersRevert'
  <2> SUFFICES ASSUME NEW p \in Pages \ refused', "w" \in prot'[p], "w" \notin Perms[p]
               PROVE  \E u \in Threads : Writes(u)' /\ p \in PatchPages(op'[u].patch)
    BY DEF WritersRevert, PatchPages
  <2>1. prot'[p] = prot[p] /\ p \notin refused
    BY <1>2, <1>6
  <2>2. PICK u \in Threads : Writes(u) /\ p \in PatchPages(op[u].patch)
    BY <2>1 DEF MemoryIInv, WritersRevert
  <2>3. u # t
    <3>1. CASE op[t].kind = "create"
      BY <2>2, <3>1 DEF Writes
    <3>2. CASE op[t].kind # "create"
      BY <1>1, <1>2, <1>6, <2>2, <3>2 DEF ps
    <3> QED
      BY <3>1, <3>2
  <2> QED
    BY <1>5, <2>2, <2>3 DEF Writes, Need
<1> QED
  BY <1>8, <1>9, <1>10, <1>11, <1>12 DEF MemoryIInv

-----------------------------------------------------------------------------
(* Before the first patch. *)
LEMMA MemoryInitInv == MemoryInit => MemoryIInv
<1> SUFFICES ASSUME MemoryInit PROVE MemoryIInv
  OBVIOUS
<1>1. \A t \in Threads : op[t] = Idle /\ op[t].at = "idle"
  BY DEF MemoryInit, Idle
<1>2. \A x \in Patches : patch[x] = NoPatch /\ patch[x].last = Nil /\ ~patch[x].valid /\ ~patch[x].backed
  BY DEF MemoryInit, NoPatch
<1>3. MemoryTypes
  <2>1. Idle \in OpRecords /\ NoPatch \in PatchRecords
    BY EmptySeq DEF Idle, OpRecords, NoPatch, PatchRecords, Lasts
  <2>2. prot \in [Pages -> SUBSET RWX]
    BY MemoryAssumption DEF MemoryInit, Pages, RWX
  <2>3. mem \in [Addresses -> Nat]
    BY DEF MemoryInit, Start, Addresses
  <2> QED
    BY <2>1, <2>2, <2>3 DEF MemoryInit, MemoryTypes
<1>4. PatchesSized /\ CallsInOrder /\ RightsKnown /\ FaultsHaveCause
  BY <1>1, <1>2 DEF MemoryInit, PatchesSized, CallsInOrder, RightsKnown, FaultsHaveCause, Begun, Busy
<1>5. NoWriteOnly /\ WritersRevert
  BY MemoryAssumption DEF MemoryInit, NoWriteOnly, WritersRevert, Pages
<1>6. BytesKept
  <2>1. \A x \in Patches : Read(x) = StartBytes(x)
    BY DEF MemoryInit, Read, StartBytes
  <2> QED
    BY <1>2, <2>1 DEF BytesKept
<1> QED
  BY <1>3, <1>4, <1>5, <1>6 DEF MemoryIInv

(* Every step of every thread. *)
LEMMA MemoryNextInv == MemoryIInv /\ [MemoryNext]_memoryVars => MemoryIInv'
<1> SUFFICES ASSUME MemoryIInv, [MemoryNext]_memoryVars PROVE MemoryIInv'
  OBVIOUS
<1>1. ASSUME NEW t \in Threads, Step(t) PROVE MemoryIInv'
  BY <1>1, ProtectInv, CopyInv, RevertInv DEF Step
<1>2. ASSUME NEW t \in Threads, NEW x \in Patches, Calls(t, x) PROVE MemoryIInv'
  BY <1>2, CreateInv, CallInv DEF Calls
<1>3. CASE UNCHANGED memoryVars
  <2>1. MemoryTypes' /\ PatchesSized' /\ CallsInOrder' /\ NoWriteOnly' /\ FaultsHaveCause'
    BY <1>3 DEF memoryVars, MemoryIInv, MemoryTypes, PatchesSized, CallsInOrder, NoWriteOnly,
                FaultsHaveCause, Begun, Busy, Need
  <2>2. RightsKnown' /\ WritersRevert' /\ BytesKept'
    BY <1>3, BytesStay DEF memoryVars, MemoryIInv, RightsKnown, WritersRevert, Busy, Need, Writes, PatchPages, Mapped, Touched
  <2> QED
    BY <2>1, <2>2 DEF MemoryIInv
<1> QED
  BY <1>1, <1>2, <1>3 DEF MemoryNext

(* What patches promise follows from what is known of them. *)
LEMMA MemoryGood == MemoryIInv => MemoryInv
<1> SUFFICES ASSUME MemoryIInv PROVE MemoryInv
  OBVIOUS
<1>1. MemoryTypeOK
  <2>1. \A t \in Threads : op[t].at \in {"idle", "protect", "copy", "revert"} /\ (op[t].at # "idle" => op[t].patch \in Patches)
    BY DEF MemoryIInv, MemoryTypes, CallsInOrder, Busy, OpRecords
  <2> QED
    BY <2>1 DEF MemoryIInv, MemoryTypes, PatchesSized, Begun, MemoryTypeOK
<1>2. CodeGuarded
  BY DEF MemoryIInv, WritersRevert, Writes, CodeGuarded
<1>3. RestoreUndoes
  BY DEF MemoryIInv, BytesKept, RestoreUndoes, StartBytes
<1> QED
  BY <1>1, <1>2, <1>3 DEF MemoryIInv, MemoryInv

(***************************************************************************)
(* For any threads, patches, pages and rights, if no page is writable but  *)
(* not readable when the process starts: a thread faults in memRead or     *)
(* memWrite only for a cause outside of its call; code that nobody writes  *)
(* to is not writable, unless the kernel refused; and a patch that no      *)
(* other overlaps is in memory after Modify and gone after Restore         *)
(* (KittyMemory.cpp, memRead and memWrite; MemoryPatch.cpp).               *)
(***************************************************************************)
THEOREM PatchesCorrect == MemorySpec => []MemoryInv
BY MemoryGood, MemoryInitInv, MemoryNextInv, PTL DEF MemorySpec

-----------------------------------------------------------------------------
(* A copy through system calls, before which others change rights. *)
SyscallStep == SyscallNext \/ (vm.at = "idle" /\ UNCHANGED copiesVars /\ RightsChange)
SyscallSpec == MemoryInit /\ CopiesInit /\ [][SyscallStep]_<<memoryVars, copiesVars>>

VmRecords ==
    [at : {"idle", "run", "done"}, need : {"r", "w"}, address : Nat, len : Nat, local : Nat, remote : Nat,
     remaining : Nat, one : BOOLEAN, done : Nat, pairs : SUBSET (Nat \X Nat)]

(* The reachable ones of the first n bytes of the range. *)
Reached(n) == {i \in 0 .. n - 1 : Reachable(vm.address + i)}

(* What is behind the copy has been copied as far as it could be reached.  *)
CopyIInv ==
    /\ vm \in VmRecords
    /\ vm.at # "idle" =>
          /\ vm.address > 0 /\ vm.remote = vm.address + vm.local /\ vm.local + vm.remaining = vm.len
          /\ vm.at = "run" <=> vm.remaining > 0
          /\ vm.pairs = {<<i, vm.address + i>> : i \in Reached(vm.local)}
          /\ vm.done = Cardinality(Reached(vm.local))

(* A set of numbers that is not empty has a least one. *)
LEMMA LeastNat ==
    ASSUME NEW S, S \subseteq Nat, S # {}
    PROVE  \E m \in S : \A x \in S : m <= x
<1>1. \A x, y \in Nat : x < y => <<x, y>> \in OpToRel(<, Nat)
  <2> SUFFICES ASSUME NEW x \in Nat, NEW y \in Nat, x < y PROVE <<x, y>> \in OpToRel(<, Nat)
    OBVIOUS
  <2>1. <<x, y>> \in Nat \X Nat /\ <<x, y>>[1] < <<x, y>>[2]
    OBVIOUS
  <2> QED
    BY <2>1, Zenon DEF OpToRel
<1> DEFINE R == OpToRel(<, Nat)
<1>2. IsWellFoundedOn(R, Nat)
  BY NatLessThanWellFounded
<1> HIDE DEF R
<1>3. PICK m \in S : \A x \in S : ~(<<x, m>> \in R)
  BY <1>2, WFMin, Zenon
<1>4. \A x \in S : ~(x < m)
  BY <1>1, <1>3 DEF R
<1> QED
  BY <1>4

(* Numbers without a gap are as many as the first that is missing. *)
LEMMA PrefixCounted ==
    ASSUME NEW W \in Nat, NEW U \in SUBSET (0 .. W), 0 \in U, W \notin U,
           \A n \in U : 0 .. n \subseteq U
    PROVE  Cardinality(U) - 1 \in U
<1> DEFINE S == {j \in Nat : j \notin U}
<1>1. W \in S /\ S \subseteq Nat
  OBVIOUS
<1>2. PICK m \in S : \A j \in S : m <= j
  BY <1>1, LeastNat, Zenon
<1>3. m \in Nat \ {0} /\ m \notin U
  BY <1>2
<1>4. U = 0 .. m - 1
  <2>1. \A j \in 0 .. m - 1 : j \in U
    BY <1>2, <1>3
  <2>2. \A n \in U : n \in Nat /\ (m <= n => m \in 0 .. n)
    BY <1>3
  <2>3. \A n \in U : n < m
    BY <1>3, <2>2
  <2>4. \A n \in U : n \in 0 .. m - 1
    BY <1>3, <2>2, <2>3
  <2> HIDE DEF S
  <2> QED
    BY <2>1, <2>4
<1>5. Cardinality(U) = m
  BY <1>3, <1>4, FS_Interval
<1> QED
  BY <1>3, <1>4, <1>5

(* Bytes up to the end of a page are on that page. *)
LEMMA SamePage ==
    ASSUME NEW a \in Nat \ {0}, NEW i \in 0 .. OnPage(a) - 1
    PROVE  PageOf(a + i) = PageOf(a)
<1>1. PageSize \in Nat \ {0} /\ a - 1 \in Nat
  BY MemoryAssumption
<1> DEFINE q == (a - 1) \div PageSize
           r == (a - 1) % PageSize
<1>2. a - 1 = PageSize * q + r /\ q \in Nat /\ r \in 0 .. PageSize - 1
  BY <1>1
<1>3. i \in Nat /\ r + i \in 0 .. PageSize - 1
  BY <1>1, <1>2 DEF OnPage
<1> HIDE DEF q, r
<1>4. (a + i) - 1 = PageSize * q + (r + i)
  BY <1>1, <1>2, <1>3
<1>5. \A k \in Nat \ {0} : \A x \in Nat : \A y \in 0 .. k - 1 : (k * x + y) \div k = x
  OBVIOUS
<1>6. ((a + i) - 1) \div PageSize = q
  BY <1>1, <1>2, <1>3, <1>4, <1>5
<1> QED
  BY <1>6 DEF PageOf, q

(* There is something left on a page. *)
LEMMA OnPagePositive ==
    ASSUME NEW a \in Nat \ {0}
    PROVE  OnPage(a) \in Nat \ {0}
  BY MemoryAssumption DEF OnPage

(* What the kernel answers: a part of what is wanted, all of it reachable; *)
(* if it is a page and the answer is nothing, none of it is.               *)
LEMMA AnswersReachable ==
    ASSUME CopyIInv, vm.at = "run", NEW n \in Answers
    PROVE  /\ Wanted \in 1 .. vm.remaining /\ n \in 0 .. Wanted
           /\ \A i \in 0 .. n - 1 : Reachable(vm.remote + i)
           /\ vm.one /\ n = 0 => \A i \in 0 .. Wanted - 1 : ~Reachable(vm.remote + i)
<1> DEFINE U == {m \in 0 .. Wanted : \A i \in 0 .. m - 1 : Reachable(vm.remote + i)}
<1>1. /\ vm.remaining \in Nat \ {0} /\ vm.remote \in Nat \ {0} /\ vm.one \in BOOLEAN
  BY DEF CopyIInv, VmRecords
<1>2. Wanted \in 1 .. vm.remaining /\ (vm.one => Wanted <= OnPage(vm.remote))
  BY <1>1, OnPagePositive DEF Wanted, Smaller
<1>3. U \in SUBSET (0 .. Wanted) /\ 0 \in U /\ \A m \in U : 0 .. m \subseteq U
  BY <1>1, <1>2
<1>4. n \in IF Wanted \in U THEN {Wanted} ELSE {0, Cardinality(U) - 1}
  BY DEF Answers
<1>5. n \in U /\ (Wanted \in U => n = Wanted)
  <2>1. CASE Wanted \in U
    BY <1>4, <2>1
  <2>2. CASE Wanted \notin U
    <3>1. Cardinality(U) - 1 \in U
      <4> HIDE DEF U
      <4> QED
        BY <1>1, <1>2, <1>3, <2>2, PrefixCounted
    <3> QED
      BY <1>3, <1>4, <2>2, <3>1
  <2> QED
    BY <2>1, <2>2
<1>6. ASSUME vm.one, n = 0, NEW i \in 0 .. Wanted - 1 PROVE ~Reachable(vm.remote + i)
  <2>1. Wanted \notin U
    BY <1>2, <1>5, <1>6
  <2>2. PICK j \in 0 .. Wanted - 1 : ~Reachable(vm.remote + j)
    BY <1>1, <1>2, <2>1
  <2>3. i \in 0 .. OnPage(vm.remote) - 1 /\ j \in 0 .. OnPage(vm.remote) - 1
    BY <1>1, <1>2, <1>6, <2>2, OnPagePositive
  <2>4. PageOf(vm.remote + i) = PageOf(vm.remote + j)
    BY <1>1, <2>3, SamePage
  <2> QED
    BY <2>2, <2>4 DEF Reachable
<1> QED
  BY <1>2, <1>5, <1>6

(* More bytes of which all, or none, can be reached. *)
LEMMA ReachedMore ==
    ASSUME vm \in VmRecords, NEW l \in Nat, NEW n \in Nat
    PROVE  /\ IsFiniteSet(Reached(l)) /\ Cardinality(Reached(l)) \in Nat
           /\ (\A i \in 0 .. n - 1 : Reachable(vm.address + l + i)) =>
                 /\ Reached(l + n) = Reached(l) \cup (l .. l + n - 1)
                 /\ Cardinality(Reached(l + n)) = Cardinality(Reached(l)) + n
           /\ (\A i \in 0 .. n - 1 : ~Reachable(vm.address + l + i)) => Reached(l + n) = Reached(l)
<1>1. vm.address \in Nat
  BY DEF VmRecords
<1>2. IsFiniteSet(Reached(l)) /\ Cardinality(Reached(l)) \in Nat
  <2>1. Reached(l) \in SUBSET (0 .. l - 1)
    BY DEF Reached
  <2>2. IsFiniteSet(0 .. l - 1)
    BY FS_Interval
  <2> QED
    BY <2>1, <2>2, FS_Subset, FS_CardinalityType
<1>3. \A k \in l .. l + n - 1 : k - l \in 0 .. n - 1 /\ vm.address + l + (k - l) = vm.address + k
  BY <1>1
<1>4. 0 .. l + n - 1 = (0 .. l - 1) \cup (l .. l + n - 1)
  OBVIOUS
<1>5. ASSUME \A i \in 0 .. n - 1 : Reachable(vm.address + l + i)
      PROVE  /\ Reached(l + n) = Reached(l) \cup (l .. l + n - 1)
             /\ Cardinality(Reached(l + n)) = Cardinality(Reached(l)) + n
  <2>1. \A k \in l .. l + n - 1 : Reachable(vm.address + k)
    <3> TAKE k \in l .. l + n - 1
    <3>1. Reachable(vm.address + l + (k - l))
      BY <1>3, <1>5
    <3> QED
      BY <1>3, <3>1
  <2>2. Reached(l + n) = Reached(l) \cup (l .. l + n - 1)
    BY <1>4, <2>1 DEF Reached
  <2>3. Reached(l) \cap (l .. l + n - 1) = {}
    BY DEF Reached
  <2>4. IsFiniteSet(l .. l + n - 1) /\ Cardinality(l .. l + n - 1) = n
    BY FS_Interval
  <2>5. Cardinality(Reached(l) \cap (l .. l + n - 1)) = 0
    BY <2>3, FS_EmptySet
  <2> DEFINE more == l .. l + n - 1
  <2>6. Cardinality(Reached(l) \cup more) = Cardinality(Reached(l)) + Cardinality(more) - Cardinality(Reached(l) \cap more)
    BY <1>2, <2>4, FS_Union, Zenon
  <2>7. Cardinality(Reached(l + n)) = Cardinality(Reached(l)) + n - 0
    BY <2>2, <2>4, <2>5, <2>6
  <2> QED
    BY <1>2, <2>2, <2>7
<1>6. ASSUME \A i \in 0 .. n - 1 : ~Reachable(vm.address + l + i)
      PROVE  Reached(l + n) = Reached(l)
  <2>1. \A k \in l .. l + n - 1 : ~Reachable(vm.address + k)
    <3> TAKE k \in l .. l + n - 1
    <3>1. ~Reachable(vm.address + l + (k - l))
      BY <1>3, <1>6
    <3> QED
      BY <1>3, <3>1
  <2> QED
    BY <1>4, <2>1 DEF Reached
<1> QED
  BY <1>2, <1>5, <1>6

(* Reachable bytes stay reachable while no rights change. *)
LEMMA ReachedStays ==
    ASSUME prot' = prot, vm'.need = vm.need, vm'.address = vm.address, NEW n
    PROVE  Reached(n)' = Reached(n)
  BY DEF Reached, Reachable, Mapped

(* One answer of the kernel brings the copy further, or makes it go on     *)
(* page by page.                                                           *)
LEMMA CopyStepInv ==
    ASSUME CopyIInv, CopyStep
    PROVE  /\ CopyIInv'
           /\ vm'.remaining < vm.remaining \/ (~vm.one /\ vm'.one)
<1> DEFINE copied(n) == [vm EXCEPT !.remaining = @ - n, !.done = @ + n, !.local = @ + n, !.remote = @ + n,
                                   !.pairs = @ \cup {<<vm.local + i, vm.remote + i>> : i \in 0 .. n - 1}]
           moved(n)  == IF n > 0 THEN copied(n) ELSE IF vm.one THEN Skipped ELSE vm
<1>1. PICK n \in Answers :
         vm' = [moved(n) EXCEPT !.one = OnePage(n), !.at = IF moved(n).remaining > 0 THEN "run" ELSE "done"]
  BY DEF CopyStep
<1>2. /\ vm.at = "run" /\ vm \in VmRecords /\ prot' = prot
      /\ vm.address \in Nat \ {0} /\ vm.local \in Nat /\ vm.remaining \in Nat \ {0} /\ vm.one \in BOOLEAN
      /\ vm.remote = vm.address + vm.local /\ vm.local + vm.remaining = vm.len
      /\ vm.done = Cardinality(Reached(vm.local)) /\ vm.pairs = {<<i, vm.address + i>> : i \in Reached(vm.local)}
  BY DEF CopyStep, CopyIInv, VmRecords, memoryVars
<1>3. /\ Wanted \in 1 .. vm.remaining /\ n \in 0 .. Wanted
      /\ \A i \in 0 .. n - 1 : Reachable(vm.remote + i)
      /\ vm.one /\ n = 0 => \A i \in 0 .. Wanted - 1 : ~Reachable(vm.remote + i)
  BY <1>2, AnswersReachable
<1>4. n \in Nat /\ n <= vm.remaining /\ OnePage(n) \in BOOLEAN /\ (n = 0 => OnePage(n))
  BY <1>2, <1>3 DEF OnePage
<1>5. CASE n > 0
  <2> DEFINE new == vm.pairs \cup {<<vm.local + i, vm.remote + i>> : i \in 0 .. n - 1}
  <2>7. moved(n) = [vm EXCEPT !.remaining = @ - n, !.done = @ + n, !.local = @ + n, !.remote = @ + n, !.pairs = new]
    BY <1>5
  <2>8. new \in SUBSET (Nat \X Nat)
    BY <1>2, <1>4 DEF VmRecords
  <2> HIDE DEF new, moved
  <2>9. moved(n) = [at |-> vm.at, need |-> vm.need, address |-> vm.address, len |-> vm.len, local |-> vm.local + n,
                    remote |-> vm.remote + n, remaining |-> vm.remaining - n, one |-> vm.one,
                    done |-> vm.done + n, pairs |-> new]
    BY <1>2, <2>7 DEF VmRecords
  <2>10. vm' = [at |-> IF vm.remaining - n > 0 THEN "run" ELSE "done", need |-> vm.need, address |-> vm.address,
                len |-> vm.len, local |-> vm.local + n, remote |-> vm.remote + n, remaining |-> vm.remaining - n,
                one |-> OnePage(n), done |-> vm.done + n, pairs |-> new]
    <3>1. moved(n).remaining = vm.remaining - n
      BY <2>9
    <3>2. vm' = [moved(n) EXCEPT !.one = OnePage(n), !.at = IF vm.remaining - n > 0 THEN "run" ELSE "done"]
      BY <1>1, <3>1
    <3> DEFINE next == moved(n)
    <3>3. next = [at |-> vm.at, need |-> vm.need, address |-> vm.address, len |-> vm.len, local |-> vm.local + n,
                  remote |-> vm.remote + n, remaining |-> vm.remaining - n, one |-> vm.one,
                  done |-> vm.done + n, pairs |-> new]
      BY <2>9
    <3>4. vm' = [next EXCEPT !.one = OnePage(n), !.at = IF vm.remaining - n > 0 THEN "run" ELSE "done"]
      BY <3>2
    <3> HIDE DEF next
    <3> QED
      BY <3>3, <3>4
  <2>1. /\ vm'.at = IF vm'.remaining > 0 THEN "run" ELSE "done"
        /\ vm'.need = vm.need /\ vm'.address = vm.address /\ vm'.len = vm.len /\ vm'.local = vm.local + n
        /\ vm'.remote = vm.remote + n /\ vm'.remaining = vm.remaining - n /\ vm'.done = vm.done + n
        /\ vm'.pairs = vm.pairs \cup {<<vm.local + i, vm.remote + i>> : i \in 0 .. n - 1}
    BY <2>10 DEF new
  <2>2. vm' \in VmRecords
    BY <1>2, <1>4, <2>8, <2>10 DEF VmRecords
  <2>3. /\ Reached(vm.local + n) = Reached(vm.local) \cup (vm.local .. vm.local + n - 1)
        /\ Cardinality(Reached(vm.local + n)) = Cardinality(Reached(vm.local)) + n
    BY <1>2, <1>3, <1>4, ReachedMore
  <2>4. Reached(vm.local)' = Reached(vm.local + n)
    BY <1>2, <2>1 DEF Reached, Reachable, Mapped
  <2>5. {<<vm.local + i, vm.remote + i>> : i \in 0 .. n - 1} = {<<i, vm.address + i>> : i \in vm.local .. vm.local + n - 1}
    <3>1. \A i \in 0 .. n - 1 : vm.local + i \in vm.local .. vm.local + n - 1 /\ vm.remote + i = vm.address + (vm.local + i)
      BY <1>2, <1>4
    <3>2. \A i \in vm.local .. vm.local + n - 1 : /\ i - vm.local \in 0 .. n - 1 /\ vm.local + (i - vm.local) = i
                                                  /\ vm.remote + (i - vm.local) = vm.address + i
      BY <1>2, <1>4
    <3> QED
      BY <3>1, <3>2
  <2>6. vm'.pairs = {<<i, vm.address + i>> : i \in Reached(vm.local + n)}
    BY <1>2, <2>1, <2>3, <2>5
  <2> QED
    BY <1>2, <1>4, <1>5, <2>1, <2>2, <2>3, <2>4, <2>6 DEF CopyIInv
<1>6. CASE n = 0 /\ vm.one
  <2> DEFINE w == Wanted
  <2>1. w \in 1 .. vm.remaining
    BY <1>3
  <2>2. vm' = [Skipped EXCEPT !.one = OnePage(n), !.at = IF Skipped.remaining > 0 THEN "run" ELSE "done"]
    BY <1>1, <1>6
  <2>3. Skipped = [at |-> vm.at, need |-> vm.need, address |-> vm.address, len |-> vm.len, local |-> vm.local + w,
                   remote |-> vm.remote + w, remaining |-> vm.remaining - w, one |-> vm.one,
                   done |-> vm.done, pairs |-> vm.pairs]
    <3>1. vm = [at |-> vm.at, need |-> vm.need, address |-> vm.address, len |-> vm.len, local |-> vm.local,
                remote |-> vm.remote, remaining |-> vm.remaining, one |-> vm.one, done |-> vm.done, pairs |-> vm.pairs]
      BY <1>2 DEF VmRecords
    <3>2. Skipped = [vm EXCEPT !.remaining = @ - w, !.local = @ + w, !.remote = @ + w]
      BY DEF Skipped
    <3> HIDE DEF w
    <3> QED
      BY <3>1, <3>2
  <2> HIDE DEF w
  <2>8. vm' = [at |-> IF vm.remaining - w > 0 THEN "run" ELSE "done", need |-> vm.need, address |-> vm.address,
               len |-> vm.len, local |-> vm.local + w, remote |-> vm.remote + w, remaining |-> vm.remaining - w,
               one |-> OnePage(n), done |-> vm.done, pairs |-> vm.pairs]
    BY <2>2, <2>3
  <2>4. /\ vm'.at = IF vm'.remaining > 0 THEN "run" ELSE "done"
        /\ vm'.need = vm.need /\ vm'.address = vm.address /\ vm'.len = vm.len /\ vm'.local = vm.local + w
        /\ vm'.remote = vm.remote + w /\ vm'.remaining = vm.remaining - w /\ vm'.done = vm.done
        /\ vm'.pairs = vm.pairs
    BY <2>8
  <2>5. vm' \in VmRecords
    BY <1>2, <1>4, <2>1, <2>8 DEF VmRecords
  <2>6. Reached(vm.local + w) = Reached(vm.local)
    BY <1>2, <1>3, <1>6, <2>1, ReachedMore DEF w
  <2>7. Reached(vm.local)' = Reached(vm.local + w)
    BY <1>2, <2>4 DEF Reached, Reachable, Mapped
  <2> QED
    BY <1>2, <2>1, <2>4, <2>5, <2>6, <2>7 DEF CopyIInv
<1>7. CASE n = 0 /\ ~vm.one
  <2>4. moved(n) = vm
    BY <1>7
  <2> HIDE DEF moved
  <2>1. vm' = [vm EXCEPT !.one = OnePage(n), !.at = "run"]
    <3>1. vm' = [vm EXCEPT !.one = OnePage(n), !.at = IF vm.remaining > 0 THEN "run" ELSE "done"]
      BY <1>1, <2>4
    <3>2. vm.remaining > 0
      BY <1>2
    <3> QED
      BY <3>1, <3>2
  <2>2. /\ vm'.at = "run" /\ vm'.one /\ vm'.need = vm.need /\ vm'.address = vm.address /\ vm'.len = vm.len
        /\ vm'.local = vm.local /\ vm'.remote = vm.remote /\ vm'.remaining = vm.remaining
        /\ vm'.done = vm.done /\ vm'.pairs = vm.pairs /\ vm' \in VmRecords
    BY <1>2, <1>4, <1>7, <2>1 DEF VmRecords
  <2>3. Reached(vm.local)' = Reached(vm.local)
    BY <1>2, <2>2 DEF Reached, Reachable, Mapped
  <2> QED
    BY <1>2, <1>7, <2>2, <2>3 DEF CopyIInv
<1> QED
  BY <1>4, <1>5, <1>6, <1>7

(* Every step of a copy keeps the invariant; nothing else matters to it.   *)
LEMMA CopyNextInv ==
    ASSUME CopyIInv, [SyscallStep]_<<memoryVars, copiesVars>>
    PROVE  CopyIInv'
<1>1. CASE CopyStep
  BY <1>1, CopyStepInv
<1>2. ASSUME NEW need \in {"r", "w"}, NEW r \in CopyRanges, syscallMemOp(need, r) PROVE CopyIInv'
  <2>1. r[1] \in Nat \ {0} /\ r[2] \in Nat \ {0}
    BY CopiesAssumption
  <2>2. vm' = [at |-> "run", need |-> need, address |-> r[1], len |-> r[2], local |-> 0, remote |-> r[1],
               remaining |-> r[2], one |-> FALSE, done |-> 0, pairs |-> {}]
    BY <1>2 DEF syscallMemOp, NoCopy
  <2>3. vm' \in VmRecords
    BY <2>1, <2>2 DEF VmRecords
  <2>4. Reached(vm.local)' = {}
    BY <2>2 DEF Reached
  <2>5. Cardinality(Reached(vm.local)') = 0
    BY <2>4, FS_EmptySet
  <2>6. vm'.pairs = {<<i, vm'.address + i>> : i \in Reached(vm.local)'}
    BY <2>2, <2>4
  <2> QED
    BY <2>1, <2>2, <2>3, <2>5, <2>6 DEF CopyIInv
<1>3. CASE vm.at = "idle" /\ UNCHANGED copiesVars
  BY <1>3 DEF CopyIInv, copiesVars
<1>4. CASE UNCHANGED <<memoryVars, copiesVars>>
  BY <1>4 DEF CopyIInv, Reached, Reachable, Mapped, memoryVars, copiesVars
<1> QED
  BY <1>1, <1>2, <1>3, <1>4 DEF SyscallNext, SyscallStep

(* Whatever the kernel answers, syscallMemOp copies every byte that can be *)
(* reached to its offset and counts it once, and of two tries in a row one *)
(* brings it further (KittyMemory.cpp, syscallMemOp).                      *)
THEOREM CopiesComplete == SyscallSpec => []CopiesReachable /\ CopyAdvances
<1>1. MemoryInit /\ CopiesInit => CopyIInv
  BY DEF CopiesInit, NoCopy, CopyIInv, VmRecords
<1>2. CopyIInv => CopiesReachable
  <2> SUFFICES ASSUME CopyIInv, vm.at = "done" PROVE CopiesReachable
    BY DEF CopiesReachable
  <2>1. vm.local = vm.len
    BY DEF CopyIInv, VmRecords
  <2> QED
    BY <2>1 DEF CopyIInv, CopiesReachable, Reached
<1>3. CopyIInv /\ [SyscallStep]_<<memoryVars, copiesVars>> => CopyIInv'
  BY CopyNextInv
<1>4. CopyIInv /\ [SyscallStep]_<<memoryVars, copiesVars>>
        => [vm.at = "run" => vm'.remaining < vm.remaining \/ (~vm.one /\ vm'.one)]_vm
  <2> SUFFICES ASSUME CopyIInv, vm.at = "run", vm' # vm, [SyscallStep]_<<memoryVars, copiesVars>>
               PROVE  vm'.remaining < vm.remaining \/ (~vm.one /\ vm'.one)
    OBVIOUS
  <2>1. CopyStep
    BY DEF SyscallNext, SyscallStep, syscallMemOp, copiesVars
  <2> QED
    BY <2>1, CopyStepInv
<1> QED
  BY <1>1, <1>2, <1>3, <1>4, PTL DEF SyscallSpec, CopyAdvances

-----------------------------------------------------------------------------
(* Files of any length, read and copied with a buffer of any size.         *)
IORecords ==
    [op : {"none", "string", "copy", "fd"}, at : {"idle", "read", "use", "send", "done"}, size : Int, left : Int,
     offset : Nat, got : Seq(Nat), out : Seq(Nat), failed : BOOLEAN, result : BOOLEAN]
IOTypes == source \in Nat /\ io \in IORecords

(* A run of bytes of the file, from the one behind position pos on. *)
RunFrom(bytes, pos) == \A i \in DOMAIN bytes : bytes[i] = pos + i

(* While a call reads, what it has handed on is the file up to its offset, *)
(* and what it holds is the piece from there on.                           *)
ReadSoFar ==
    io.at \in {"read", "use"} =>
        /\ io.op # "none" /\ RunFrom(io.got, io.offset)
        /\ RunFrom(io.out, 0) /\ Len(io.out) = io.offset
        /\ AsWhole => io.offset = 0 /\ Len(io.got) <= io.size
        /\ io.op = "copy" => io.left = io.size - io.offset
        /\ io.at = "read" => Len(io.got) < Want

(* While writeToFd sends, it holds the file, as long as stat said.         *)
SentSoFar ==
    io.at = "send" =>
        /\ io.op = "fd" /\ RunFrom(io.got, 0) /\ RunFrom(io.out, 0) /\ Len(io.out) <= Len(io.got)
        /\ io.size > 0 => Len(io.got) = io.size

IOIInv == IOTypes /\ ReadSoFar /\ SentSoFar /\ ArrivesInOrder /\ SuccessIsWhole

(* A call that is done has a beginning of the file, and zeros only if a    *)
(* read as a whole failed.                                                 *)
Arrived(call, n) ==
    /\ n \in 0 .. Len(call.out)
    /\ \A i \in 1 .. n : call.out[i] = i
    /\ \A i \in n + 1 .. Len(call.out) : call.out[i] = 0
    /\ n = Len(call.out) \/ (call.op # "copy" /\ call.size > 0 /\ ~call.result)
    /\ call.result /\ call.size > 0 => IF call.op = "copy" THEN n >= call.size ELSE n = call.size

(* The bytes from 1 to n. *)
LEMMA UptoShape ==
    ASSUME NEW n \in Nat
    PROVE  Upto(n) \in Seq(Nat) /\ Len(Upto(n)) = n /\ \A i \in 1 .. n : Upto(n)[i] = i
BY DEF Upto

(* A sequence whose two parts are known is their concatenation. *)
LEMMA TwoParts ==
    ASSUME NEW s \in Seq(Nat), NEW u \in Seq(Nat), NEW z \in Seq(Nat), Len(s) = Len(u) + Len(z),
           \A i \in 1 .. Len(u) : s[i] = u[i], \A i \in 1 .. Len(z) : s[Len(u) + i] = z[i]
    PROVE  s = u \o z
<1>1. u \o z \in Seq(Nat) /\ Len(u \o z) = Len(s)
  OBVIOUS
<1>2. \A i \in 1 .. Len(s) : s[i] = (u \o z)[i]
  <2> SUFFICES ASSUME NEW i \in 1 .. Len(s) PROVE s[i] = (u \o z)[i]
    OBVIOUS
  <2>1. CASE i <= Len(u)
    BY <2>1
  <2>2. CASE i > Len(u)
    <3>1. PICK k \in 1 .. Len(z) : i = Len(u) + k
      <4>1. i - Len(u) \in 1 .. Len(z) /\ i = Len(u) + (i - Len(u))
        BY <2>2
      <4> QED
        BY <4>1
    <3>2. (u \o z)[i] = z[k]
      BY <3>1
    <3> QED
      BY <3>1, <3>2
  <2> QED
    BY <2>1, <2>2
<1> QED
  BY <1>1, <1>2, SeqEqual

(* A sequence that counts up to n and is zero behind it. *)
LEMMA BytesThenZeros ==
    ASSUME NEW s \in Seq(Nat), NEW n \in 0 .. Len(s),
           \A i \in 1 .. n : s[i] = i, \A i \in n + 1 .. Len(s) : s[i] = 0
    PROVE  s = Upto(n) \o [i \in 1 .. Len(s) - n |-> 0]
<1>1. n \in Nat /\ Len(s) \in Nat /\ Len(s) - n \in Nat
  OBVIOUS
<1>2. Upto(n) \in Seq(Nat) /\ Len(Upto(n)) = n /\ \A i \in 1 .. n : Upto(n)[i] = i
  BY <1>1, UptoShape
<1> DEFINE z == [i \in 1 .. Len(s) - n |-> 0]
<1>3. z \in Seq(Nat) /\ Len(z) = Len(s) - n /\ \A i \in 1 .. Len(z) : z[i] = 0
  BY <1>1
<1> HIDE DEF z
<1>4. Len(s) = Len(Upto(n)) + Len(z)
  BY <1>1, <1>2, <1>3
<1>5. \A i \in 1 .. Len(Upto(n)) : s[i] = Upto(n)[i]
  BY <1>2
<1>6. \A i \in 1 .. Len(z) : s[Len(Upto(n)) + i] = z[i]
  <2> SUFFICES ASSUME NEW i \in 1 .. Len(z) PROVE s[n + i] = 0
    BY <1>2, <1>3
  <2>1. n + i \in n + 1 .. Len(s)
    BY <1>1, <1>3
  <2> QED
    BY <2>1
<1>7. s = Upto(n) \o z
  BY <1>2, <1>3, <1>4, <1>5, <1>6, TwoParts
<1> QED
  BY <1>7 DEF z

(* A step that ends a call leaves it with what has arrived. *)
LEMMA DoneInv ==
    ASSUME source' \in Nat, NEW call \in IORecords, io' = call, call.at = "done", NEW n \in Nat, Arrived(call, n)
    PROVE  IOIInv'
<1>1. IOTypes' /\ ReadSoFar' /\ SentSoFar'
  BY DEF IOTypes, ReadSoFar, SentSoFar
<1>2. call.out \in Seq(Nat)
  BY DEF IORecords
<1> SUFFICES ASSUME NEW s, s = call.out PROVE IOIInv'
  OBVIOUS
<1>3. s \in Seq(Nat) /\ n \in 0 .. Len(s) /\ (\A i \in 1 .. n : s[i] = i) /\ (\A i \in n + 1 .. Len(s) : s[i] = 0)
  BY <1>2 DEF Arrived
<1>4. s = Upto(n) \o [i \in 1 .. Len(s) - n |-> 0]
  BY <1>3, BytesThenZeros
<1>5. ArrivesInOrder'
  BY <1>3, <1>4 DEF ArrivesInOrder, Arrived, AsWhole
<1>6. SuccessIsWhole'
  <2> SUFFICES ASSUME call.result, call.size > 0
               PROVE  IF call.op = "copy" THEN Len(s) >= call.size ELSE s = Upto(call.size)
    BY DEF SuccessIsWhole
  <2>1. call.size \in Int
    BY DEF IORecords
  <2>2. IF call.op = "copy" THEN n >= call.size ELSE n = call.size
    BY DEF Arrived
  <2>3. CASE call.op = "copy"
    BY <1>3, <2>1, <2>2, <2>3
  <2>4. CASE call.op # "copy"
    <3>1. n = Len(s) /\ n = call.size
      BY <2>2, <2>4 DEF Arrived
    <3>2. \A i \in 1 .. n : s[i] = i
      BY <1>3
    <3>3. Upto(n) \in Seq(Nat) /\ Len(Upto(n)) = n /\ \A i \in 1 .. n : Upto(n)[i] = i
      BY UptoShape
    <3>4. s = Upto(n)
      BY ZenonT(60), <1>3, <3>1, <3>2, <3>3, SeqEqual
    <3> QED
      BY <2>4, <3>1, <3>4
  <2> QED
    BY <2>3, <2>4
<1> QED
  BY <1>1, <1>5, <1>6 DEF IOIInv

(* Appending a piece of the file to what is there. *)
LEMMA RunsJoin ==
    ASSUME NEW s \in Seq(Nat), NEW t \in Seq(Nat), NEW pos \in Nat, RunFrom(s, pos), RunFrom(t, pos + Len(s))
    PROVE  s \o t \in Seq(Nat) /\ RunFrom(s \o t, pos) /\ Len(s \o t) = Len(s) + Len(t)
<1>1. s \o t \in Seq(Nat) /\ Len(s \o t) = Len(s) + Len(t)
  OBVIOUS
<1>2. \A i \in 1 .. Len(s) + Len(t) : (s \o t)[i] = pos + i
  <2> SUFFICES ASSUME NEW i \in 1 .. Len(s) + Len(t) PROVE (s \o t)[i] = pos + i
    OBVIOUS
  <2>1. CASE i <= Len(s)
    BY <2>1 DEF RunFrom
  <2>2. CASE i > Len(s)
    <3>1. (s \o t)[i] = t[i - Len(s)] /\ i - Len(s) \in 1 .. Len(t)
      BY <2>2
    <3>2. t[i - Len(s)] = pos + Len(s) + (i - Len(s))
      BY <3>1 DEF RunFrom
    <3> QED
      BY <3>1, <3>2
  <2> QED
    BY <2>1, <2>2
<1>3. DOMAIN (s \o t) = 1 .. Len(s) + Len(t)
  BY <1>1
<1> QED
  BY <1>1, <1>2, <1>3 DEF RunFrom

(* A beginning of a piece of the file is a piece of the file. *)
LEMMA RunsCut ==
    ASSUME NEW g \in Seq(Nat), NEW pos \in Nat, RunFrom(g, pos), NEW n \in Nat, n <= Len(g)
    PROVE  SubSeq(g, 1, n) \in Seq(Nat) /\ Len(SubSeq(g, 1, n)) = n /\ RunFrom(SubSeq(g, 1, n), pos)
<1> SUFFICES ASSUME NEW t, t = SubSeq(g, 1, n) PROVE t \in Seq(Nat) /\ Len(t) = n /\ RunFrom(t, pos)
  OBVIOUS
<1>1. t \in Seq(Nat) /\ Len(t) = n /\ \A i \in 1 .. n : t[i] = g[i]
  OBVIOUS
<1>2. DOMAIN t = 1 .. n /\ 1 .. n \subseteq DOMAIN g
  BY <1>1
<1>3. \A i \in 1 .. n : g[i] = pos + i
  BY <1>2 DEF RunFrom
<1> QED
  BY <1>1, <1>2, <1>3 DEF RunFrom

(* What is left of a file of the size that stat gave. *)
LEMMA LeftOver ==
    ASSUME NEW size \in Int, NEW offset \in Int, NEW left, left = size - offset, NEW length, length >= offset,
           length \in Int, NEW ok, ok => size = 0 \/ left <= 0
    PROVE  ok /\ size > 0 => length >= size
OBVIOUS

(* The call that has handed on its piece of n bytes. *)
HandedOn(n, left) ==
    [io EXCEPT !.out = io.out \o io.got, !.left = left, !.offset = io.offset + n, !.got = <<>>, !.at = "read"]

(* A piece handed on: the next one is read from behind it. *)
LEMMA HandOn ==
    ASSUME IOIInv, source' \in Nat, io.at = "use", ~AsWhole,
           NEW n, n = Len(io.got), NEW left \in Int, io.op = "copy" => left = io.left - n,
           NEW call, call = HandedOn(n, left)
    PROVE  /\ call \in IORecords /\ call.op = io.op /\ call.size = io.size
           /\ RunFrom(call.out, 0) /\ Len(call.out) = call.offset
           /\ call.op = "copy" => call.left = call.size - call.offset
           /\ io' = call => IOIInv'
<1>1. io \in IORecords /\ RunFrom(io.got, io.offset) /\ RunFrom(io.out, 0) /\ Len(io.out) = io.offset
  BY DEF IOIInv, IOTypes, ReadSoFar
<1>2. io.got \in Seq(Nat) /\ io.out \in Seq(Nat) /\ io.offset \in Nat /\ n \in Nat /\ io.size \in Int /\ io.left \in Int
  BY <1>1 DEF IORecords
<1>3. io.out \o io.got \in Seq(Nat) /\ RunFrom(io.out \o io.got, 0) /\ Len(io.out \o io.got) = io.offset + n
  <2> SUFFICES ASSUME NEW s \in Seq(Nat), s = io.out, NEW t \in Seq(Nat), t = io.got
               PROVE  s \o t \in Seq(Nat) /\ RunFrom(s \o t, 0) /\ Len(s \o t) = io.offset + n
    BY <1>2
  <2>1. 0 + Len(s) = io.offset /\ 0 \in Nat
    BY <1>1, <1>2
  <2>2. RunFrom(s, 0) /\ RunFrom(t, 0 + Len(s))
    BY <1>1, <2>1
  <2>3. s \o t \in Seq(Nat) /\ RunFrom(s \o t, 0) /\ Len(s \o t) = Len(s) + Len(t)
    BY <2>1, <2>2, RunsJoin
  <2> QED
    BY <1>1, <2>3
<1>4. /\ call.out = io.out \o io.got /\ call.left = left /\ call.offset = io.offset + n /\ call.got = <<>>
      /\ call.at = "read" /\ call.op = io.op /\ call.size = io.size
  BY <1>1 DEF IORecords, HandedOn
<1>5. call \in IORecords
  <2>1. <<>> \in Seq(Nat) /\ io.offset + n \in Nat
    BY <1>2
  <2> QED
    BY <1>1, <1>3, <2>1 DEF IORecords, HandedOn
<1>6. call.op = "copy" => call.left = call.size - call.offset
  BY <1>2, <1>4 DEF IOIInv, ReadSoFar
<1>7. ASSUME io' = call PROVE IOIInv'
  <2>1. RunFrom(<<>>, io.offset + n) /\ Len(<<>>) = 0
    BY DEF RunFrom
  <2>2. ~AsWhole' /\ Want' = Buffer
    BY <1>4, <1>7 DEF AsWhole, Want
  <2>3. ReadSoFar'
    <3>1. Len(<<>>) < Buffer /\ io.op # "none"
      BY <2>1, FileAssumption DEF IOIInv, ReadSoFar
    <3> QED
      BY <1>3, <1>4, <1>6, <1>7, <2>1, <2>2, <3>1 DEF ReadSoFar
  <2>4. SentSoFar' /\ ArrivesInOrder' /\ SuccessIsWhole'
    BY <1>4, <1>7 DEF SentSoFar, ArrivesInOrder, SuccessIsWhole
  <2> QED
    BY <1>5, <1>7, <2>3, <2>4 DEF IOIInv, IOTypes
<1> QED
  BY <1>3, <1>4, <1>5, <1>6, <1>7

(* One read. *)
LEMMA ReadInv ==
    ASSUME IOIInv, ReadSome
    PROVE  IOIInv'
<1>1. /\ io \in IORecords /\ source' = source /\ source \in Nat
      /\ io.op # "none" /\ RunFrom(io.got, io.offset) /\ RunFrom(io.out, 0) /\ Len(io.out) = io.offset
      /\ AsWhole => io.offset = 0 /\ Len(io.got) <= io.size
      /\ io.op = "copy" => io.left = io.size - io.offset
      /\ Len(io.got) < Want
  BY DEF IOIInv, IOTypes, ReadSoFar, ReadSome
<1>2. io.got \in Seq(Nat) /\ io.out \in Seq(Nat) /\ io.offset \in Nat /\ io.size \in Int /\ Want \in Int
  BY <1>1, FileAssumption DEF IORecords, Want
<1>3. CASE io' = [io EXCEPT !.at = "use"] \/ io' = [io EXCEPT !.at = "use", !.failed = TRUE]
  <2>1. /\ io' \in IORecords /\ io'.at = "use" /\ io'.op = io.op /\ io'.size = io.size /\ io'.left = io.left
        /\ io'.got = io.got /\ io'.out = io.out /\ io'.offset = io.offset
    BY <1>1, <1>3 DEF IORecords
  <2>2. ReadSoFar' /\ SentSoFar' /\ ArrivesInOrder' /\ SuccessIsWhole'
    BY <1>1, <2>1 DEF ReadSoFar, SentSoFar, ArrivesInOrder, SuccessIsWhole, AsWhole
  <2> QED
    BY <1>1, <2>1, <2>2 DEF IOIInv, IOTypes
<1>4. ASSUME NEW pos, pos = io.offset + Len(io.got), NEW most, most = Min2(Want - Len(io.got), source - pos),
             NEW n \in 1 .. most, NEW at, at = IF Len(io.got) + n = Want THEN "use" ELSE "read",
             io' = [io EXCEPT !.got = io.got \o [i \in 1 .. n |-> pos + i], !.at = at]
      PROVE  IOIInv'
  <2>1. pos \in Nat /\ n \in Nat /\ n <= Want - Len(io.got)
    BY <1>1, <1>2, <1>4 DEF Min2
  <2> DEFINE piece == [i \in 1 .. n |-> pos + i]
  <2>2. piece \in Seq(Nat) /\ Len(piece) = n /\ RunFrom(piece, io.offset + Len(io.got))
    BY <1>4, <2>1 DEF RunFrom
  <2> HIDE DEF piece
  <2>3. /\ io.got \o piece \in Seq(Nat) /\ RunFrom(io.got \o piece, io.offset)
        /\ Len(io.got \o piece) = Len(io.got) + n
    BY <1>1, <1>2, <2>2, RunsJoin
  <2>4. io' = [io EXCEPT !.got = io.got \o piece, !.at = at]
    BY <1>4 DEF piece
  <2>5. /\ io' \in IORecords /\ io'.at = at /\ io'.op = io.op /\ io'.size = io.size /\ io'.left = io.left
        /\ io'.got = io.got \o piece /\ io'.out = io.out /\ io'.offset = io.offset
    BY <1>1, <1>4, <2>3, <2>4 DEF IORecords
  <2>6. Want' = Want /\ (AsWhole' <=> AsWhole) /\ (AsWhole => Want = io.size)
    BY <2>5 DEF Want, AsWhole
  <2>7. /\ Len(io.got \o piece) <= Want
        /\ at = "read" => Len(io.got \o piece) < Want
    BY SMTT(60), <1>2, <1>4, <2>1, <2>3
  <2>8. ReadSoFar'
    BY <1>1, <2>3, <2>5, <2>6, <2>7 DEF ReadSoFar
  <2>9. SentSoFar' /\ ArrivesInOrder' /\ SuccessIsWhole'
    BY <1>4, <2>5 DEF SentSoFar, ArrivesInOrder, SuccessIsWhole
  <2> QED
    BY <1>1, <2>5, <2>8, <2>9 DEF IOIInv, IOTypes
<1> DEFINE pos  == io.offset + Len(io.got)
           most == Min2(Want - Len(io.got), source - pos)
<1>5. \/ io' = [io EXCEPT !.at = "use"] \/ io' = [io EXCEPT !.at = "use", !.failed = TRUE]
      \/ \E n \in 1 .. most :
            io' = [io EXCEPT !.got = io.got \o [i \in 1 .. n |-> pos + i],
                             !.at = IF Len(io.got) + n = Want THEN "use" ELSE "read"]
  BY Zenon DEF ReadSome
<1>6. ASSUME NEW n \in 1 .. most,
             io' = [io EXCEPT !.got = io.got \o [i \in 1 .. n |-> pos + i],
                              !.at = IF Len(io.got) + n = Want THEN "use" ELSE "read"]
      PROVE  IOIInv'
  <2> SUFFICES ASSUME NEW at, at = IF Len(io.got) + n = Want THEN "use" ELSE "read",
                      NEW p, p = pos, NEW m, m = most
               PROVE IOIInv'
    OBVIOUS
  <2>1. io' = [io EXCEPT !.got = io.got \o [i \in 1 .. n |-> p + i], !.at = at]
    BY <1>6
  <2>2. n \in 1 .. m /\ m = Min2(Want - Len(io.got), source - p)
    OBVIOUS
  <2> HIDE DEF most
  <2> QED
    BY ZenonT(60), <1>4, <2>1, <2>2
<1> QED
  BY <1>3, <1>5, <1>6

(* What was read of a file is used, or handed to writeToFd. *)
LEMMA ReadDoneInv ==
    ASSUME IOIInv, io.at = "use", io.op # "copy", source' \in Nat, NEW bytes \in Seq(Nat), NEW ok \in BOOLEAN,
           NEW n \in 0 .. Len(bytes), \A i \in 1 .. n : bytes[i] = i, \A i \in n + 1 .. Len(bytes) : bytes[i] = 0,
           n = Len(bytes) \/ (io.size > 0 /\ ~ok), ok /\ io.size > 0 => n = io.size,
           io' = ReadDone(bytes, ok)
    PROVE  IOIInv'
<1>1. io \in IORecords /\ io.op # "none"
  BY DEF IOIInv, IOTypes, ReadSoFar
<1>2. CASE io.op = "fd" /\ ok /\ bytes # <<>>
  <2>1. io' = [io EXCEPT !.at = "send", !.got = bytes, !.out = <<>>]
    BY <1>2 DEF ReadDone
  <2>2. io' \in IORecords /\ io'.at = "send" /\ io'.op = "fd" /\ io'.got = bytes /\ io'.out = <<>> /\ io'.size = io.size
    <3>1. <<>> \in Seq(Nat)
      OBVIOUS
    <3> QED
      BY <1>1, <1>2, <2>1, <3>1 DEF IORecords
  <2>3. RunFrom(bytes, 0) /\ RunFrom(<<>>, 0) /\ Len(<<>>) <= Len(bytes) /\ (io.size > 0 => Len(bytes) = io.size)
    BY <1>2 DEF RunFrom
  <2>4. SentSoFar' /\ ReadSoFar' /\ ArrivesInOrder' /\ SuccessIsWhole'
    BY <2>2, <2>3 DEF SentSoFar, ReadSoFar, ArrivesInOrder, SuccessIsWhole
  <2> QED
    BY <2>2, <2>4 DEF IOIInv, IOTypes
<1>3. CASE ~(io.op = "fd" /\ ok /\ bytes # <<>>)
  <2> SUFFICES ASSUME NEW call, call = [io EXCEPT !.out = bytes, !.at = "done", !.result = (ok /\ io.op # "fd")]
               PROVE  IOIInv'
    OBVIOUS
  <2>1. io' = call
    BY <1>1, <1>3 DEF ReadDone, Ends, IORecords
  <2>2. (ok /\ io.op # "fd") \in BOOLEAN
    OBVIOUS
  <2>3. /\ call \in IORecords /\ call.at = "done" /\ call.out = bytes /\ call.op = io.op /\ call.size = io.size
        /\ call.result = (ok /\ io.op # "fd")
    BY <1>1, <2>2 DEF IORecords
  <2>4. Arrived(call, n)
    BY <2>3 DEF Arrived
  <2>5. n \in Nat
    OBVIOUS
  <2> QED
    BY <2>1, <2>3, <2>4, <2>5, DoneInv
<1> QED
  BY <1>2, <1>3

(* A file of known size, read as a whole: what is missing is zero. *)
LEMMA UseWholeInv ==
    ASSUME IOIInv, UseWhole
    PROVE  IOIInv'
<1>1. /\ io \in IORecords /\ io.at = "use" /\ io.op # "copy" /\ io.size > 0 /\ source' \in Nat
      /\ RunFrom(io.got, 0) /\ Len(io.got) <= io.size
      /\ io' = ReadDone(io.got \o [i \in 1 .. io.size - Len(io.got) |-> 0], Len(io.got) = io.size)
  BY DEF IOIInv, IOTypes, ReadSoFar, UseWhole, AsWhole, Whole
<1>2. io.got \in Seq(Nat) /\ io.size \in Nat
  BY <1>1 DEF IORecords
<1> SUFFICES ASSUME NEW n, n = Len(io.got), NEW m, m = io.size PROVE IOIInv'
  OBVIOUS
<1> DEFINE z == [i \in 1 .. m - n |-> 0]
<1>3. n \in Nat /\ m \in Nat /\ n <= m
  BY <1>1, <1>2
<1>4. z \in Seq(Nat) /\ Len(z) = m - n /\ \A i \in 1 .. m - n : z[i] = 0
  BY <1>3
<1>5. io' = ReadDone(io.got \o z, n = m)
  BY <1>1
<1> HIDE DEF z
<1> SUFFICES ASSUME NEW bytes, bytes = io.got \o z PROVE IOIInv'
  OBVIOUS
<1>6. bytes \in Seq(Nat) /\ Len(bytes) = m
  <2>1. io.got \o z \in Seq(Nat) /\ Len(io.got \o z) = Len(io.got) + Len(z)
    BY <1>2, <1>4, ConcatProperties
  <2> QED
    BY <1>3, <1>4, <2>1
<1>7. \A i \in 1 .. n : bytes[i] = i
  BY <1>1, <1>2, <1>3, <1>4 DEF RunFrom
<1>8. \A i \in n + 1 .. Len(bytes) : bytes[i] = 0
  <2> SUFFICES ASSUME NEW i \in n + 1 .. m PROVE bytes[i] = 0
    BY <1>6
  <2>1. i - n \in 1 .. m - n /\ bytes[i] = z[i - n]
    BY SMTT(60), <1>2, <1>3, <1>4
  <2> QED
    BY <1>4, <2>1
<1>9. n \in 0 .. Len(bytes) /\ (n = Len(bytes) \/ ~(n = m))
  BY <1>3, <1>6
<1> QED
  BY <1>1, <1>5, <1>6, <1>7, <1>8, <1>9, ReadDoneInv

(* A file without a size, read piece by piece. *)
LEMMA UsePieceInv ==
    ASSUME IOIInv, UsePiece
    PROVE  IOIInv'
<1>1. /\ io \in IORecords /\ io.at = "use" /\ io.op # "copy" /\ ~AsWhole /\ source' \in Nat
      /\ RunFrom(io.out, 0)
      /\ io' = IF io.got = <<>> THEN ReadDone(io.out, TRUE)
               ELSE Advanced([io EXCEPT !.out = io.out \o io.got], Len(io.got))
  BY DEF IOIInv, IOTypes, ReadSoFar, UsePiece
<1>2. io.out \in Seq(Nat) /\ io.got \in Seq(Nat) /\ io.left \in Int /\ ~(io.size > 0)
  BY <1>1 DEF IORecords, AsWhole
<1>3. CASE io.got = <<>>
  <2> SUFFICES ASSUME NEW bytes \in Seq(Nat), bytes = io.out, NEW n, n = Len(bytes) PROVE IOIInv'
    BY <1>2
  <2>1. n \in 0 .. Len(bytes) /\ \A i \in n + 1 .. Len(bytes) : bytes[i] = 0
    OBVIOUS
  <2>2. \A i \in 1 .. n : bytes[i] = i
    BY <1>1 DEF RunFrom
  <2>3. io' = ReadDone(bytes, TRUE)
    BY <1>1, <1>3
  <2> QED
    BY <1>1, <1>2, <2>1, <2>2, <2>3, ReadDoneInv
<1>4. CASE io.got # <<>>
  <2> SUFFICES ASSUME NEW n, n = Len(io.got), NEW left, left = io.left,
                      NEW call, call = HandedOn(n, left)
               PROVE  IOIInv'
    OBVIOUS
  <2>1. io' = call
    BY <1>1, <1>4 DEF Advanced, IORecords, HandedOn
  <2> QED
    BY <1>1, <1>2, <2>1, HandOn
<1> QED
  BY <1>3, <1>4

(* A copy: the piece is written, in part or as a whole. *)
LEMMA CopyPieceInv ==
    ASSUME IOIInv, CopyPiece
    PROVE  IOIInv'
<1>1. /\ io \in IORecords /\ io.at = "use" /\ io.op = "copy" /\ ~AsWhole /\ source' \in Nat
      /\ RunFrom(io.out, 0) /\ Len(io.out) = io.offset /\ RunFrom(io.got, io.offset)
      /\ io.left = io.size - io.offset
  BY DEF IOIInv, IOTypes, ReadSoFar, CopyPiece, AsWhole
<1>2. /\ io.out \in Seq(Nat) /\ io.got \in Seq(Nat) /\ io.left \in Int /\ io.size \in Int /\ io.offset \in Nat
      /\ Len(io.got) \in Nat
  BY <1>1 DEF IORecords
<1>3. ASSUME NEW bytes \in Seq(Nat), RunFrom(bytes, 0), NEW ok \in BOOLEAN, ok /\ io.size > 0 => Len(bytes) >= io.size,
             NEW call, call \in IORecords, call.out = bytes, call.at = "done", call.result = ok, call.op = "copy",
             call.size = io.size, io' = call
      PROVE  IOIInv'
  <2> SUFFICES ASSUME NEW n, n = Len(bytes) PROVE IOIInv'
    OBVIOUS
  <2>1. n \in Nat /\ n \in 0 .. Len(bytes) /\ \A i \in n + 1 .. Len(bytes) : bytes[i] = 0
    OBVIOUS
  <2>2. \A i \in 1 .. n : bytes[i] = i
    BY <1>3 DEF RunFrom
  <2>3. Arrived(call, n)
    BY <1>3, <2>1, <2>2 DEF Arrived
  <2> QED
    BY <1>1, <1>3, <2>1, <2>3, DoneInv
<1>4. CASE io.got = <<>>
  <2> SUFFICES ASSUME NEW call, call = [io EXCEPT !.at = "done", !.result = (io.size = 0 \/ io.left <= 0)]
               PROVE  IOIInv'
    OBVIOUS
  <2>1. io' = call
    BY <1>4 DEF CopyPiece, Ends, Satisfied
  <2> SUFFICES ASSUME NEW ok \in BOOLEAN, ok = (io.size = 0 \/ io.left <= 0), NEW bytes \in Seq(Nat), bytes = io.out
               PROVE  IOIInv'
    BY <1>2
  <2>2. ok /\ io.size > 0 => Len(bytes) >= io.size
    <3>1. Len(bytes) >= io.offset /\ Len(bytes) \in Int
      BY <1>1, <1>2
    <3>2. ok => io.size = 0 \/ io.left <= 0
      OBVIOUS
    <3> QED
      BY <1>1, <1>2, <3>1, <3>2, LeftOver
  <2>3. /\ call \in IORecords /\ call.out = bytes /\ call.at = "done" /\ call.result = ok /\ call.op = "copy"
        /\ call.size = io.size
    BY <1>1 DEF IORecords
  <2> QED
    BY <1>1, <1>3, <2>1, <2>2, <2>3
<1>5. CASE io.got # <<>> /\ \E n \in 0 .. Len(io.got) - 1 :
               io' = Ends([io EXCEPT !.out = io.out \o SubSeq(io.got, 1, n)], io.size # 0 /\ Satisfied(io.left))
  <2>1. PICK n \in 0 .. Len(io.got) - 1 :
               io' = Ends([io EXCEPT !.out = io.out \o SubSeq(io.got, 1, n)], io.size # 0 /\ Satisfied(io.left))
    BY <1>5
  <2> SUFFICES ASSUME NEW s \in Seq(Nat), s = io.out, NEW g \in Seq(Nat), g = io.got, NEW t, t = SubSeq(g, 1, n)
               PROVE  IOIInv'
    BY <1>2
  <2>2. t \in Seq(Nat) /\ Len(t) = n /\ RunFrom(t, io.offset)
    <3>1. RunFrom(g, io.offset) /\ Len(g) \in Nat /\ n \in 0 .. Len(g) - 1
      BY <1>1, <1>2, <2>1
    <3>2. n \in Nat /\ n <= Len(g)
      BY <3>1
    <3> QED
      BY <1>2, <3>1, <3>2, RunsCut
  <2>3. RunFrom(t, 0 + Len(s)) /\ RunFrom(s, 0)
    <3>1. 0 + Len(s) = io.offset
      BY <1>1, <1>2
    <3> QED
      BY <1>1, <2>2, <3>1
  <2>4. s \o t \in Seq(Nat) /\ RunFrom(s \o t, 0) /\ Len(s \o t) = Len(s) + Len(t)
    BY <2>2, <2>3, RunsJoin
  <2> SUFFICES ASSUME NEW ok \in BOOLEAN, ok = (io.size # 0 /\ io.left <= 0), NEW bytes \in Seq(Nat), bytes = s \o t,
                      NEW call, call = [io EXCEPT !.out = bytes, !.at = "done", !.result = ok]
               PROVE  IOIInv'
    BY <2>4
  <2>5. io' = call
    BY <1>1, <2>1 DEF Ends, Satisfied, IORecords
  <2>6. ok /\ io.size > 0 => Len(bytes) >= io.size
    <3>1. Len(bytes) = Len(s) + Len(t) /\ Len(s) = io.offset /\ Len(t) = n /\ n \in Nat
      BY <1>1, <1>2, <2>1, <2>2, <2>4
    <3>2. Len(bytes) >= io.offset /\ Len(bytes) \in Int
      BY SMTT(60), <1>2, <3>1
    <3>3. ok => io.size = 0 \/ io.left <= 0
      OBVIOUS
    <3> QED
      BY <1>1, <1>2, <3>2, <3>3, LeftOver
  <2>7. /\ call \in IORecords /\ call.out = bytes /\ call.at = "done" /\ call.result = ok /\ call.op = "copy"
        /\ call.size = io.size
    BY <1>1 DEF IORecords
  <2> QED
    BY <1>3, <2>4, <2>5, <2>6, <2>7
<1>6. ASSUME io.got # <<>>,
             ~\E n \in 0 .. Len(io.got) - 1 :
               io' = Ends([io EXCEPT !.out = io.out \o SubSeq(io.got, 1, n)], io.size # 0 /\ Satisfied(io.left)),
             NEW n, n = Len(io.got), NEW left, left = io.left - n,
             NEW call, call = HandedOn(n, left)
      PROVE  IOIInv'
  <2>1. io' = IF io.size # 0 /\ left = 0 THEN Ends(call, TRUE) ELSE call
    <3>1. call = Advanced([io EXCEPT !.out = io.out \o io.got, !.left = io.left - Len(io.got)], Len(io.got))
      BY <1>1, <1>6 DEF Advanced, IORecords, HandedOn
    <3>2. call.left = left
      BY <1>1, <1>6 DEF IORecords, HandedOn
    <3> QED
      BY <1>6, <3>1, <3>2 DEF CopyPiece
  <2>2. left \in Int
    BY <1>2, <1>6
  <2>3. /\ call \in IORecords /\ call.op = io.op /\ call.size = io.size
        /\ RunFrom(call.out, 0) /\ Len(call.out) = call.offset
        /\ call.left = call.size - call.offset
        /\ io' = call => IOIInv'
    <3>1. (io.op = "copy" => left = io.left - n) /\ n = Len(io.got) /\ call = HandedOn(n, left)
      BY <1>6
    <3>2. /\ call \in IORecords /\ call.op = io.op /\ call.size = io.size
          /\ RunFrom(call.out, 0) /\ Len(call.out) = call.offset
          /\ call.op = "copy" => call.left = call.size - call.offset
          /\ io' = call => IOIInv'
      BY <1>1, <2>2, <3>1, HandOn
    <3> QED
      BY <1>1, <3>2
  <2>4. CASE io.size # 0 /\ left = 0
    <3> SUFFICES ASSUME NEW done, done = [call EXCEPT !.at = "done", !.result = TRUE], NEW bytes, bytes = call.out
                 PROVE  IOIInv'
      OBVIOUS
    <3>1. call.left = left
      BY <1>1, <1>6 DEF IORecords, HandedOn
    <3>2. /\ done \in IORecords /\ done.out = bytes /\ done.at = "done" /\ done.result = TRUE /\ done.op = "copy"
          /\ done.size = io.size /\ bytes \in Seq(Nat) /\ call.offset \in Nat
      BY <1>1, <2>3 DEF IORecords
    <3>3. io' = done
      BY <2>1, <2>4 DEF Ends
    <3>4. Len(bytes) >= io.size
      BY <1>2, <2>3, <2>4, <3>1, <3>2
    <3> QED
      BY <1>3, <2>3, <3>2, <3>3, <3>4
  <2> QED
    BY <2>1, <2>3, <2>4
<1> QED
  BY <1>4, <1>5, <1>6

(* writeToFd sends what it has read. *)
LEMMA SendInv ==
    ASSUME IOIInv, SendSome
    PROVE  IOIInv'
<1>1. /\ io \in IORecords /\ io.at = "send" /\ source' \in Nat /\ io.op = "fd"
      /\ RunFrom(io.got, 0) /\ RunFrom(io.out, 0) /\ Len(io.out) <= Len(io.got)
      /\ io.size > 0 => Len(io.got) = io.size
  BY DEF IOIInv, IOTypes, SentSoFar, SendSome
<1>2. io.out \in Seq(Nat) /\ io.got \in Seq(Nat) /\ io.size \in Int
  BY <1>1 DEF IORecords
<1>3. ASSUME NEW bytes \in Seq(Nat), RunFrom(bytes, 0), NEW ok \in BOOLEAN, ok => bytes = io.got,
             io' = [io EXCEPT !.out = bytes, !.at = "done", !.result = ok]
      PROVE  IOIInv'
  <2> SUFFICES ASSUME NEW n, n = Len(bytes), NEW call, call = [io EXCEPT !.out = bytes, !.at = "done", !.result = ok]
               PROVE  IOIInv'
    OBVIOUS
  <2>1. n \in Nat /\ n \in 0 .. Len(bytes) /\ \A i \in n + 1 .. Len(bytes) : bytes[i] = 0
    OBVIOUS
  <2>2. \A i \in 1 .. n : bytes[i] = i
    BY <1>3 DEF RunFrom
  <2>3. /\ call \in IORecords /\ call.out = bytes /\ call.at = "done" /\ call.result = ok /\ call.op = "fd"
        /\ call.size = io.size
    BY <1>1 DEF IORecords
  <2>4. Arrived(call, n)
    BY <1>1, <1>3, <2>1, <2>2, <2>3 DEF Arrived
  <2> QED
    BY <1>1, <1>3, <2>1, <2>3, <2>4, DoneInv
<1>4. CASE io' = Ends(io, FALSE)
  <2>1. io' = [io EXCEPT !.out = io.out, !.at = "done", !.result = FALSE]
    BY <1>1, <1>4 DEF Ends, IORecords
  <2> QED
    BY <1>1, <1>2, <1>3, <2>1
<1>5. ASSUME NEW n \in 1 .. Len(io.got) - Len(io.out), NEW sent, sent = SubSeq(io.got, 1, Len(io.out) + n),
             io' = IF sent = io.got THEN Ends([io EXCEPT !.out = sent], TRUE) ELSE [io EXCEPT !.out = sent]
      PROVE  IOIInv'
  <2> SUFFICES ASSUME NEW g \in Seq(Nat), g = io.got, NEW m, m = Len(io.out) + n PROVE IOIInv'
    BY <1>2
  <2>1. m \in Nat /\ m <= Len(g)
    <3> SUFFICES ASSUME NEW a, a = Len(io.out), NEW b, b = Len(g) PROVE m \in Nat /\ m <= b
      OBVIOUS
    <3>1. a \in Nat /\ b \in Nat
      BY <1>2
    <3>2. n \in 1 .. b - a /\ m = a + n
      OBVIOUS
    <3> QED
      BY <3>1, <3>2
  <2>2. sent = SubSeq(g, 1, m)
    BY <1>5
  <2>3. sent \in Seq(Nat) /\ Len(sent) = m /\ RunFrom(sent, 0)
    <3>1. RunFrom(g, 0) /\ 0 \in Nat
      BY <1>1
    <3> QED
      BY <2>1, <2>2, <3>1, RunsCut
  <2>4. RunFrom(sent, 0)
    BY <2>3
  <2>5. CASE sent = io.got
    <3>1. io' = [io EXCEPT !.out = sent, !.at = "done", !.result = TRUE]
      BY <1>1, <1>5, <2>5 DEF Ends, IORecords
    <3> QED
      BY <1>3, <2>3, <2>4, <2>5, <3>1
  <2>6. CASE sent # io.got
    <3>1. io' \in IORecords /\ io'.at = "send" /\ io'.op = "fd" /\ io'.out = sent /\ io'.got = g /\ io'.size = io.size
      BY <1>1, <1>5, <2>3, <2>6 DEF IORecords
    <3>2. SentSoFar' /\ ReadSoFar' /\ ArrivesInOrder' /\ SuccessIsWhole'
      BY <1>1, <2>1, <2>3, <2>4, <3>1 DEF SentSoFar, ReadSoFar, ArrivesInOrder, SuccessIsWhole
    <3> QED
      BY <1>1, <3>1, <3>2 DEF IOIInv, IOTypes
  <2> QED
    BY <2>5, <2>6
<1> QED
  BY <1>4, <1>5 DEF SendSome

(* At first there is no call. *)
LEMMA IOStarts == FileInit => IOIInv
<1> SUFFICES ASSUME FileInit PROVE IOIInv
  OBVIOUS
<1>1. source \in Nat /\ io = NoIO
  BY FileAssumption DEF FileInit
<1>2. <<>> \in Seq(Nat)
  OBVIOUS
<1>3. NoIO \in IORecords /\ NoIO.at = "idle"
  BY <1>2 DEF NoIO, IORecords
<1> QED
  BY <1>1, <1>3 DEF IOIInv, IOTypes, ReadSoFar, SentSoFar, ArrivesInOrder, SuccessIsWhole

(* Only the length of the file changes. *)
LEMMA IOStays == ASSUME IOIInv, io' = io, source' \in Nat PROVE IOIInv'
BY DEF IOIInv, IOTypes, ReadSoFar, SentSoFar, ArrivesInOrder, SuccessIsWhole, AsWhole, Want

(* Steps of a call, and of others that write to the file. *)
LEMMA IOKeeps == ASSUME IOIInv, IONext PROVE IOIInv'
<1>1. CASE Grow \/ Shrink
  <2>1. source' \in Nat /\ io' = io
    BY <1>1 DEF Grow, Shrink, IOIInv, IOTypes
  <2> QED
    BY <2>1, IOStays
<1>2. ASSUME NEW kind \in {"string", "copy", "fd"}, Begin(kind) PROVE IOIInv'
  <2>1. PICK size \in {source} \cup Elsewhere :
          io' = [NoIO EXCEPT !.op = kind, !.at = "read", !.size = size, !.left = size]
    BY <1>2 DEF Begin
  <2>2. size \in Int /\ source' = source /\ source \in Nat
    BY <1>2, <2>1, FileAssumption DEF IOIInv, IOTypes, Begin
  <2>3. io' = [op |-> kind, at |-> "read", size |-> size, left |-> size, offset |-> 0, got |-> <<>>, out |-> <<>>,
               failed |-> FALSE, result |-> FALSE]
    BY <2>1 DEF NoIO
  <2>4. <<>> \in Seq(Nat) /\ RunFrom(<<>>, 0) /\ Len(<<>>) = 0
    BY DEF RunFrom
  <2>5. io' \in IORecords
    BY <1>2, <2>2, <2>3, <2>4 DEF IORecords
  <2>6. Len(<<>>) < Want'
    BY <2>2, <2>3, <2>4, FileAssumption DEF Want, AsWhole
  <2>7. ReadSoFar'
    BY <1>2, <2>2, <2>3, <2>4, <2>6 DEF ReadSoFar, AsWhole
  <2>8. SentSoFar' /\ ArrivesInOrder' /\ SuccessIsWhole'
    BY <2>3 DEF SentSoFar, ArrivesInOrder, SuccessIsWhole
  <2> QED
    BY <2>2, <2>5, <2>7, <2>8 DEF IOIInv, IOTypes
<1> QED
  BY <1>1, <1>2, ReadInv, UseWholeInv, UsePieceInv, CopyPieceInv, SendInv DEF IONext

-----------------------------------------------------------------------------
(* The list of all images, in any number of places.                        *)
FinderSpec == FinderInit /\ [][FinderNext]_finderVars

AnswerRecords == [place : Places, elf : LibraryRecords]
SearchRecords ==
    [at : {"idle", "visit", "done", "fault"}, maps : {<<>>} \cup [Places -> MappedLibraries], i : 1 .. Cardinality(Places) + 1, last : Nat,
     type : {"any", "native", "emulated"}, filter : {"any", "app", "system"}, out : Seq(AnswerRecords)]

FinderTypes ==
    /\ loaded \in [Places -> MappedLibraries] /\ cached \in [Places -> LibraryRecords]
    /\ search \in SearchRecords /\ gone \subseteq Places /\ unseen \subseteq Places
    /\ search.at = "idle" => search.out = <<>>
    /\ search.at # "idle" => search.maps \in [Places -> MappedLibraries]
    /\ search.at = "done" => search.i = Cardinality(Places) + 1

(* A place whose library went is known to have been emptied, and to have   *)
(* been filled again if there is one now.                                  *)
PlacesWatched ==
    /\ \A p \in Places : cached[p] # NoLib /\ loaded[p] = NoLib => p \in gone
    /\ \A p \in Places : p \in gone /\ loaded[p] # NoLib => p \in unseen
    /\ search.at # "idle" =>
         \A p \in Places : search.maps[p] # NoLib /\ loaded[p] = NoLib => p \in gone

(* Where no library took the place of another unseen, snapshot and cache   *)
(* are what is mapped now.                                                 *)
Fresh(p) == p \notin unseen /\ loaded[p] # NoLib
FreshAgree ==
    \A p \in Places : Fresh(p) =>
        /\ cached[p] # NoLib => cached[p] = loaded[p]
        /\ search.at # "idle" /\ search.maps[p] # NoLib => search.maps[p] = loaded[p]

ScansSound ==
    /\ \A p \in Places : cached[p] # NoLib => cached[p].segments > 0
    /\ \A k \in DOMAIN search.out : search.out[k].elf.segments > 0

(* An answer is of a place already visited.                                *)
AnswersBehind ==
    \A k \in DOMAIN search.out :
        /\ search.out[k].place < search.i
        /\ loaded[search.out[k].place] = NoLib => search.out[k].place \in gone

(* As long as nothing of the snapshot went, the images wanted so far are   *)
(* in the answer, and the last file seen is one of those visited.          *)
Undisturbed == \A p \in Places : search.maps[p] # NoLib => p \notin gone /\ p \notin unseen
AskedFor(p) ==
    LET lib == search.maps[p]
    IN /\ lib # NoLib /\ lib.sound /\ lib.area # "data"
       /\ FilterPasses(search.filter, lib) /\ eMachineCheck(search.type, lib)
       /\ \A q \in Places \ {p} : search.maps[q] = NoLib \/ search.maps[q].inode # lib.inode
FoundSoFar ==
    search.at \in {"visit", "done"} /\ Undisturbed =>
        /\ search.last # 0 =>
             \E q \in Places : q < search.i /\ search.maps[q] # NoLib /\ search.last = search.maps[q].inode
        /\ \A p \in Places : p < search.i /\ AskedFor(p) =>
             \E k \in DOMAIN search.out : search.out[k] = [place |-> p, elf |-> search.maps[p]]

FinderIInv ==
    /\ FinderTypes /\ PlacesWatched /\ FreshAgree /\ ScansSound /\ AnswersBehind /\ FoundSoFar
    /\ AnswersWereMapped /\ AnswersCurrent

(* A snapshot of the maps has an entry for each place. *)
LEMMA SnapshotLength ==
    ASSUME NEW m \in [Places -> MappedLibraries]
    PROVE  Cardinality(Places) \in Nat /\ Len(m) = Cardinality(Places)
<1>1. Cardinality(Places) \in Nat
  BY FinderAssumption, FS_CardinalityType
<1> DEFINE n == Cardinality(Places)
<1>2. Places = 1 .. n
  BY FinderAssumption
<1> HIDE DEF n
<1>3. m \in [1 .. n -> MappedLibraries] /\ n \in Nat
  BY <1>1, <1>2 DEF n
<1>4. Len(m) = n
  BY <1>3
<1> QED
  BY <1>1, <1>4 DEF n

(* What is mapped is a library record; nothing being mapped is one, too.   *)
LEMMA MappedRecords ==
    /\ NoLib \in LibraryRecords /\ ~NoLib.sound
    /\ \A b \in MappedLibraries : b \in LibraryRecords /\ (b.sound => b # NoLib /\ b.segments > 0)
<1>1. NoLib \in LibraryRecords /\ ~NoLib.sound
  <2>1. NoLib \in MappedLibraries
    BY DEF MappedLibraries
  <2> QED
    BY <2>1 DEF NoLib, LibraryRecords
<1> QED
  BY <1>1, FinderAssumption DEF MappedLibraries

(* Other threads load and unload. *)
LEMMA ChangeInv ==
    ASSUME FinderIInv, NEW x \in Places, ChangeLibrary(x)
    PROVE  FinderIInv'
<1>1. PICK b \in MappedLibraries :
        /\ loaded' = [loaded EXCEPT ![x] = b]
        /\ loaded[x] # NoLib => b = NoLib
  BY DEF ChangeLibrary, MappedLibraries
<1>2. /\ search' = search /\ cached' = cached
      /\ gone' = gone \cup (IF loaded[x] = NoLib THEN {} ELSE {x})
      /\ unseen' = unseen \cup (IF loaded[x] = NoLib THEN {x} \cap gone ELSE {})
  BY DEF ChangeLibrary
<1>3. FinderTypes
  BY DEF FinderIInv
<1>4. /\ loaded'[x] = b /\ \A p \in Places \ {x} : loaded'[p] = loaded[p]
      /\ \A p \in Places \ {x} : (p \in gone' <=> p \in gone) /\ (p \in unseen' <=> p \in unseen)
      /\ gone \subseteq gone' /\ unseen \subseteq unseen'
      /\ loaded[x] # NoLib => b = NoLib /\ x \in gone'
      /\ loaded[x] = NoLib /\ x \in gone => x \in gone' /\ x \in unseen'
  BY <1>1, <1>2, <1>3 DEF FinderTypes
<1>5. FinderTypes'
  BY <1>1, <1>2, <1>3 DEF FinderTypes
<1>6. PlacesWatched'
  <2>1. PlacesWatched
    BY DEF FinderIInv
  <2> SUFFICES ASSUME NEW p \in Places
               PROVE  /\ cached[p] # NoLib /\ loaded'[p] = NoLib => p \in gone'
                      /\ p \in gone' /\ loaded'[p] # NoLib => p \in unseen'
                      /\ search.at # "idle" /\ search.maps[p] # NoLib /\ loaded'[p] = NoLib => p \in gone'
    BY <1>2 DEF PlacesWatched
  <2>2. CASE p # x
    BY <1>4, <2>1, <2>2 DEF PlacesWatched
  <2>3. CASE p = x /\ loaded[x] # NoLib
    BY <1>4, <2>3
  <2>4. CASE p = x /\ loaded[x] = NoLib
    BY <1>2, <1>4, <2>1, <2>4 DEF PlacesWatched
  <2> QED
    BY <2>2, <2>3, <2>4
<1>7. \A p \in Places : Fresh(p)' /\ (p # x \/ loaded[x] # NoLib \/ x \in gone) => Fresh(p) /\ loaded'[p] = loaded[p]
  BY <1>4 DEF Fresh
<1>8. FreshAgree'
  <2>1. FreshAgree /\ PlacesWatched
    BY DEF FinderIInv
  <2> SUFFICES ASSUME NEW p \in Places, Fresh(p)'
               PROVE  /\ cached[p] # NoLib => cached[p] = loaded'[p]
                      /\ search.at # "idle" /\ search.maps[p] # NoLib => search.maps[p] = loaded'[p]
    BY <1>2 DEF FreshAgree
  <2>2. CASE p # x \/ loaded[x] # NoLib \/ x \in gone
    BY <1>7, <2>1, <2>2 DEF FreshAgree
  <2>3. CASE p = x /\ loaded[x] = NoLib /\ x \notin gone
    BY <2>1, <2>3 DEF PlacesWatched
  <2> QED
    BY <2>2, <2>3
<1>9. ScansSound'
  BY <1>2 DEF FinderIInv, ScansSound
<1>10. \A k \in DOMAIN search.out : search.out[k].place \in Places
  <2>1. search.out \in Seq(AnswerRecords)
    BY <1>3 DEF FinderTypes, SearchRecords
  <2>2. \A k \in DOMAIN search.out : search.out[k] \in AnswerRecords
    BY <2>1, ElementOfSeq
  <2> QED
    BY <2>2 DEF AnswerRecords
<1>11. AnswersBehind'
  <2>1. AnswersBehind
    BY DEF FinderIInv
  <2> SUFFICES ASSUME NEW k \in DOMAIN search.out
               PROVE  /\ search.out[k].place < search.i
                      /\ loaded'[search.out[k].place] = NoLib => search.out[k].place \in gone'
    BY <1>2 DEF AnswersBehind
  <2> DEFINE p == search.out[k].place
  <2>2. p < search.i /\ (loaded[p] = NoLib => p \in gone) /\ p \in Places
    BY <1>10, <2>1 DEF AnswersBehind
  <2> HIDE DEF p
  <2>3. loaded'[p] = NoLib => p \in gone'
    <3>1. CASE p # x
      BY <1>4, <2>2, <3>1
    <3>2. CASE p = x /\ loaded[x] # NoLib
      BY <1>4, <3>2
    <3>3. CASE p = x /\ loaded[x] = NoLib
      BY <1>4, <2>2, <3>3
    <3> QED
      BY <3>1, <3>2, <3>3
  <2> QED
    BY <2>2, <2>3 DEF p
<1>12. FoundSoFar'
  <2>1. Undisturbed' => Undisturbed
    BY <1>2, <1>4 DEF Undisturbed
  <2> QED
    BY <1>2, <2>1 DEF FinderIInv, FoundSoFar, AskedFor
<1>13. AnswersWereMapped'
  BY <1>2 DEF FinderIInv, AnswersWereMapped
<1>14. AnswersCurrent'
  <2>1. AnswersBehind /\ AnswersCurrent
    BY DEF FinderIInv
  <2> SUFFICES ASSUME NEW k \in DOMAIN search.out,
                      search.out[k].place \notin unseen', loaded'[search.out[k].place] # NoLib
               PROVE  search.out[k].elf = loaded'[search.out[k].place]
    BY <1>2 DEF AnswersCurrent
  <2>2. PICK p \in Places : p = search.out[k].place /\ (loaded[p] = NoLib => p \in gone)
    BY <1>10, <2>1 DEF AnswersBehind
  <2>3. p \notin unseen' /\ loaded'[p] # NoLib
    BY <2>2
  <2>4. p \notin unseen /\ loaded[p] # NoLib => search.out[k].elf = loaded[p]
    BY <2>1, <2>2 DEF AnswersCurrent
  <2>5. Fresh(p) /\ loaded'[p] = loaded[p]
    BY <1>7, <2>2, <2>3 DEF Fresh
  <2> QED
    BY <2>2, <2>4, <2>5 DEF Fresh
<1> QED
  BY <1>5, <1>6, <1>8, <1>9, <1>11, <1>12, <1>13, <1>14 DEF FinderIInv

(* A call takes its snapshot and drops cached scans of what is gone. *)
LEMMA StartInv ==
    ASSUME FinderIInv, StartSearch
    PROVE  FinderIInv'
<1>1. PICK type \in {"any", "native", "emulated"}, filter \in {"any", "app", "system"} :
        search' = [NoCall EXCEPT !.at = "visit", !.maps = loaded, !.type = type, !.filter = filter]
  BY DEF StartSearch
<1>2. /\ loaded' = loaded /\ cached' = Forgotten /\ gone' = {} /\ unseen' = {p \in unseen : loaded[p] # NoLib}
  BY DEF StartSearch
<1>3. FinderTypes
  BY DEF FinderIInv
<1>4. Cardinality(Places) \in Nat
  BY FinderAssumption, FS_CardinalityType
<1>5. search' = [at |-> "visit", maps |-> loaded, i |-> 1, last |-> 0, type |-> type, filter |-> filter, out |-> <<>>]
  BY <1>1 DEF NoCall
<1>6. Forgotten \in [Places -> LibraryRecords]
  BY <1>3, MappedRecords DEF Forgotten, FinderTypes
<1>7. FinderTypes'
  BY <1>2, <1>3, <1>4, <1>5, <1>6 DEF FinderTypes, SearchRecords
<1>8. PlacesWatched'
  BY <1>2, <1>5 DEF PlacesWatched, Forgotten
<1>9. FreshAgree'
  BY <1>2, <1>5 DEF FinderIInv, FreshAgree, Fresh, Forgotten
<1>10. ScansSound'
  BY <1>2, <1>5 DEF FinderIInv, ScansSound, Forgotten
<1>11. AnswersBehind' /\ AnswersWereMapped' /\ AnswersCurrent'
  BY <1>5 DEF AnswersBehind, AnswersWereMapped, AnswersCurrent
<1>12. \A p \in Places : ~(p < 1)
  BY <1>4, FinderAssumption
<1>13. FoundSoFar'
  <2>1. search'.last = 0 /\ \A p \in Places : ~(p < search'.i)
    BY <1>5, <1>12
  <2> QED
    BY <2>1 DEF FoundSoFar
<1> QED
  BY <1>7, <1>8, <1>9, <1>10, <1>11, <1>13 DEF FinderIInv

-----------------------------------------------------------------------------
(* What a look at one map can come to. *)
Passes(p) ==
    /\ search' = [search EXCEPT !.i = p + 1]
    /\ cached' = cached \/ cached' = [cached EXCEPT ![p] = NoLib]
    /\ \/ SkipMap(search.maps[p])
       \/ search.maps[p].area = "data"
       \/ loaded[p] # NoLib /\ ~loaded[p].sound
Gives(p, e) ==
    /\ search' = [Answer(search, e) EXCEPT !.i = p + 1]
    /\ cached' = [cached EXCEPT ![p] = e]
    /\ ~SkipMap(search.maps[p]) /\ e.path = search.maps[p].path /\ e.segments > 0
    /\ loaded[p] = NoLib => p \in gone
    /\ Fresh(p) => e = loaded[p]

(* A map is passed over, faults, or gives an image that is the one mapped  *)
(* there now, unless another took the place unseen.                        *)
LEMMA VisitCases ==
    ASSUME FinderIInv, VisitMap
    PROVE  /\ search.at = "visit" /\ search.i \in Places /\ UNCHANGED <<loaded, gone, unseen>>
           /\ \/ Passes(search.i)
              \/ search' = [search EXCEPT !.at = "fault"] /\ cached' = cached
              \/ \E e \in LibraryRecords : Gives(search.i, e)
<1>1. search.at = "visit" /\ search.i <= Len(search.maps) /\ UNCHANGED <<loaded, gone, unseen>>
  BY DEF VisitMap
<1>2. FinderTypes
  BY DEF FinderIInv
<1>3. search.maps \in [Places -> MappedLibraries] /\ search.i \in 1 .. Cardinality(Places) + 1
  BY <1>1, <1>2 DEF FinderTypes, SearchRecords
<1>4. search.i \in Places
  BY <1>1, <1>3, SnapshotLength, FinderAssumption
<1> SUFFICES ASSUME NEW p \in Places, p = search.i
             PROVE  \/ Passes(p)
                    \/ search' = [search EXCEPT !.at = "fault"] /\ cached' = cached
                    \/ \E e \in LibraryRecords : Gives(p, e)
  BY <1>1, <1>4
<1> SUFFICES ASSUME NEW lib \in MappedLibraries, lib = search.maps[p]
             PROVE  \/ Passes(p)
                    \/ search' = [search EXCEPT !.at = "fault"] /\ cached' = cached
                    \/ \E e \in LibraryRecords : Gives(p, e)
  BY <1>3
<1> SUFFICES ASSUME NEW elf, elf = [loaded[p] EXCEPT !.path = lib.path, !.inode = lib.inode, !.area = lib.area]
             PROVE  \/ Passes(p)
                    \/ search' = [search EXCEPT !.at = "fault"] /\ cached' = cached
                    \/ \E e \in LibraryRecords : Gives(p, e)
  OBVIOUS
<1>5. loaded[p] \in MappedLibraries /\ loaded[p] \in LibraryRecords /\ lib \in LibraryRecords /\ cached[p] \in LibraryRecords
  BY <1>2, MappedRecords DEF FinderTypes
<1>6. /\ elf \in LibraryRecords /\ elf.path = lib.path /\ elf.sound = loaded[p].sound /\ elf.segments = loaded[p].segments
      /\ loaded[p] = lib => elf = loaded[p]
  BY <1>5 DEF LibraryRecords
<1>7. \/ SkipMap(lib) /\ search' = [search EXCEPT !.i = p + 1] /\ cached' = cached
      \/ /\ ~SkipMap(lib) /\ CacheHit(p, lib)
         /\ search' = [Answer(search, cached[p]) EXCEPT !.i = p + 1] /\ cached' = cached
      \/ search' = [search EXCEPT !.at = "fault"] /\ cached' = cached
      \/ /\ lib.area = "data" \/ (loaded[p] # NoLib /\ ~elf.sound)
         /\ search' = [search EXCEPT !.i = p + 1] /\ cached' = [cached EXCEPT ![p] = NoLib]
      \/ /\ ~SkipMap(lib) /\ loaded[p] # NoLib /\ elf.sound
         /\ search' = [Answer(search, elf) EXCEPT !.i = p + 1] /\ cached' = [cached EXCEPT ![p] = elf]
  BY DEF VisitMap
<1>8. CASE SkipMap(lib) /\ search' = [search EXCEPT !.i = p + 1] /\ cached' = cached
  BY <1>8 DEF Passes
<1>9. CASE /\ ~SkipMap(lib) /\ CacheHit(p, lib)
           /\ search' = [Answer(search, cached[p]) EXCEPT !.i = p + 1] /\ cached' = cached
  <2>1. cached[p] # NoLib /\ cached[p].path = lib.path
    BY <1>9 DEF CacheHit
  <2>2. cached[p].segments > 0 /\ (loaded[p] = NoLib => p \in gone) /\ (Fresh(p) => cached[p] = loaded[p])
    BY <2>1 DEF FinderIInv, ScansSound, PlacesWatched, FreshAgree
  <2>3. cached' = [cached EXCEPT ![p] = cached[p]]
    BY <1>2, <1>9 DEF FinderTypes
  <2>4. Gives(p, cached[p])
    BY <1>9, <2>1, <2>2, <2>3 DEF Gives
  <2> QED
    BY <1>5, <2>4
<1>10. CASE /\ lib.area = "data" \/ (loaded[p] # NoLib /\ ~elf.sound)
            /\ search' = [search EXCEPT !.i = p + 1] /\ cached' = [cached EXCEPT ![p] = NoLib]
  BY <1>6, <1>10 DEF Passes
<1>11. CASE /\ ~SkipMap(lib) /\ loaded[p] # NoLib /\ elf.sound
            /\ search' = [Answer(search, elf) EXCEPT !.i = p + 1] /\ cached' = [cached EXCEPT ![p] = elf]
  <2>1. elf.segments > 0 /\ lib # NoLib
    BY <1>5, <1>6, <1>11, MappedRecords DEF SkipMap
  <2>2. Fresh(p) => lib = loaded[p]
    BY <1>1, <2>1 DEF FinderIInv, FreshAgree
  <2>3. Gives(p, elf)
    BY <1>6, <1>11, <2>1, <2>2 DEF Gives
  <2> QED
    BY <1>6, <2>3
<1> QED
  BY <1>7, <1>8, <1>9, <1>10, <1>11

(* A look that gives no image. *)
LEMMA PassInv ==
    ASSUME FinderIInv, search.at = "visit", search.i \in Places, UNCHANGED <<loaded, gone, unseen>>,
           NEW p \in Places, p = search.i, Passes(p)
    PROVE  FinderIInv'
<1>1. FinderTypes
  BY DEF FinderIInv
<1>2. /\ search \in SearchRecords /\ search' = [search EXCEPT !.i = p + 1]
      /\ search.maps \in [Places -> MappedLibraries] /\ Places = 1 .. Cardinality(Places)
      /\ Cardinality(Places) \in Nat
  BY <1>1, FinderAssumption, FS_CardinalityType DEF Passes, FinderTypes
<1>3. /\ search' \in SearchRecords /\ search'.at = "visit" /\ search'.i = p + 1 /\ search'.maps = search.maps
      /\ search'.out = search.out /\ search'.last = search.last /\ search'.type = search.type
      /\ search'.filter = search.filter
  BY <1>2 DEF SearchRecords
<1>4. /\ cached' \in [Places -> LibraryRecords]
      /\ \A q \in Places : cached'[q] # NoLib => cached'[q] = cached[q]
  BY <1>1, MappedRecords DEF Passes, FinderTypes
<1>5. FinderTypes'
  BY <1>1, <1>2, <1>3, <1>4 DEF FinderTypes
<1>6. PlacesWatched' /\ FreshAgree' /\ ScansSound'
  <2>1. PlacesWatched'
    BY <1>3, <1>4 DEF FinderIInv, PlacesWatched
  <2>2. FreshAgree'
    BY <1>3, <1>4 DEF FinderIInv, FreshAgree, Fresh
  <2>3. ScansSound'
    BY <1>3, <1>4 DEF FinderIInv, ScansSound
  <2> QED
    BY <2>1, <2>2, <2>3
<1>7. \A k \in DOMAIN search.out : search.out[k].place \in Places
  <2>1. \A k \in DOMAIN search.out : search.out[k] \in AnswerRecords
    BY <1>2, ElementOfSeq DEF SearchRecords
  <2> QED
    BY <2>1 DEF AnswerRecords
<1>8. AnswersBehind'
  <2> SUFFICES ASSUME NEW k \in DOMAIN search.out
               PROVE  /\ search.out[k].place < p + 1
                      /\ loaded[search.out[k].place] = NoLib => search.out[k].place \in gone
    BY <1>3 DEF AnswersBehind
  <2>1. /\ search.out[k].place < p
        /\ loaded[search.out[k].place] = NoLib => search.out[k].place \in gone
    BY DEF FinderIInv, AnswersBehind
  <2>2. search.out[k].place \in Nat /\ p \in Nat
    BY <1>2, <1>7
  <2> QED
    BY <2>1, <2>2
<1>9. AnswersWereMapped' /\ AnswersCurrent'
  BY <1>3 DEF FinderIInv, AnswersWereMapped, AnswersCurrent
<1>10. \A q \in Places : q < search'.i => q < p \/ q = p
  BY <1>2, <1>3
<1>11. FoundSoFar'
  <2> SUFFICES ASSUME Undisturbed
               PROVE  /\ search.last # 0 =>
                           \E q \in Places : q < search'.i /\ search.maps[q] # NoLib /\ search.last = search.maps[q].inode
                      /\ \A q \in Places : q < search'.i /\ AskedFor(q) =>
                           \E k \in DOMAIN search.out : search.out[k] = [place |-> q, elf |-> search.maps[q]]
    BY <1>3 DEF FoundSoFar, Undisturbed, AskedFor
  <2>1. /\ search.last # 0 =>
             \E q \in Places : q < p /\ search.maps[q] # NoLib /\ search.last = search.maps[q].inode
        /\ \A q \in Places : q < p /\ AskedFor(q) =>
             \E k \in DOMAIN search.out : search.out[k] = [place |-> q, elf |-> search.maps[q]]
    BY DEF FinderIInv, FoundSoFar
  <2>2. \A q \in Places : q < p => q < search'.i
    BY <1>2, <1>3
  <2>3. ~AskedFor(p)
    <3> SUFFICES ASSUME AskedFor(p) PROVE FALSE
      OBVIOUS
    <3> SUFFICES ASSUME NEW lib \in MappedLibraries, lib = search.maps[p] PROVE FALSE
      BY <1>2
    <3>1. /\ lib # NoLib /\ lib.sound /\ lib.area # "data" /\ FilterPasses(search.filter, lib)
          /\ \A q \in Places \ {p} : search.maps[q] = NoLib \/ search.maps[q].inode # lib.inode
      BY DEF AskedFor
    <3>2. loaded[p] # NoLib /\ p \notin unseen
      BY <3>1 DEF Undisturbed, FinderIInv, PlacesWatched
    <3>3. lib = loaded[p]
      BY <3>1, <3>2 DEF FinderIInv, FreshAgree, Fresh
    <3>4. SkipMap(lib)
      BY <3>1, <3>3 DEF Passes
    <3>5. lib.inode # 0 /\ lib.inode = search.last
      BY <3>1, <3>4 DEF SkipMap
    <3>6. PICK q \in Places : q < p /\ search.maps[q] # NoLib /\ search.last = search.maps[q].inode
      BY <2>1, <3>5
    <3>7. q # p
      BY <1>2, <3>6
    <3> QED
      BY <3>1, <3>5, <3>6, <3>7
  <2> QED
    BY <1>10, <2>1, <2>2, <2>3
<1> QED
  BY <1>5, <1>6, <1>8, <1>9, <1>11 DEF FinderIInv

(* A look that gives an image, from the cache or a scan. *)
LEMMA AnswerInv ==
    ASSUME FinderIInv, search.at = "visit", UNCHANGED <<loaded, gone, unseen>>,
           NEW p \in Places, p = search.i, NEW e \in LibraryRecords, Gives(p, e)
    PROVE  FinderIInv'
<1>1. FinderTypes
  BY DEF FinderIInv
<1>2. /\ search \in SearchRecords /\ search.maps \in [Places -> MappedLibraries]
      /\ Places = 1 .. Cardinality(Places) /\ Cardinality(Places) \in Nat
  BY <1>1, FinderAssumption, FS_CardinalityType DEF FinderTypes
<1> DEFINE r    == [place |-> p, elf |-> e]
           asks == eMachineCheck(search.type, e)
<1>3. /\ search'.at = "visit" /\ search'.i = p + 1 /\ search'.maps = search.maps /\ search'.last = e.inode
      /\ search'.type = search.type /\ search'.filter = search.filter
      /\ search'.out = IF asks THEN Append(search.out, r) ELSE search.out
      /\ search' = [at |-> "visit", maps |-> search.maps, i |-> p + 1, last |-> e.inode, type |-> search.type,
                    filter |-> search.filter, out |-> search'.out]
  BY <1>2 DEF Gives, Answer, SearchRecords
<1>4. search.out \in Seq(AnswerRecords) /\ r \in AnswerRecords
  BY <1>2 DEF SearchRecords, AnswerRecords
<1> SUFFICES ASSUME NEW c, c = (search'.out) PROVE FinderIInv'
  OBVIOUS
<1>5. c \in Seq(AnswerRecords)
  BY <1>3, <1>4
<1>6. /\ \A k \in DOMAIN search.out : k \in DOMAIN c /\ c[k] = search.out[k]
      /\ \A k \in DOMAIN c : \/ k \in DOMAIN search.out /\ c[k] = search.out[k]
                             \/ asks /\ k = Len(search.out) + 1 /\ c[k] = r
      /\ asks => Len(search.out) + 1 \in DOMAIN c /\ c[Len(search.out) + 1] = r
      /\ \A k \in DOMAIN c : k \in Nat \ {0}
      /\ DOMAIN search.out = 1 .. Len(search.out) /\ Len(search.out) \in Nat
  <2> HIDE DEF r, asks
  <2>1. CASE asks
    BY <1>3, <1>4, <2>1
  <2>2. CASE ~asks
    BY <1>3, <1>4, <2>2
  <2> QED
    BY <2>1, <2>2
<1>7. /\ cached' \in [Places -> LibraryRecords] /\ cached'[p] = e
      /\ \A q \in Places \ {p} : cached'[q] = cached[q]
  BY <1>1 DEF Gives, FinderTypes
<1>8. ~SkipMap(search.maps[p]) /\ e.path = search.maps[p].path /\ e.segments > 0
      /\ (loaded[p] = NoLib => p \in gone) /\ (Fresh(p) => e = loaded[p])
  BY DEF Gives
<1>9. FinderTypes'
  <2>1. e.inode \in Nat /\ p + 1 \in 1 .. Cardinality(Places) + 1
    BY <1>2 DEF LibraryRecords
  <2>2. search.type \in {"any", "native", "emulated"} /\ search.filter \in {"any", "app", "system"}
    BY <1>2 DEF SearchRecords
  <2>3. [at |-> "visit", maps |-> search.maps, i |-> p + 1, last |-> e.inode, type |-> search.type,
         filter |-> search.filter, out |-> c] \in SearchRecords
    BY <1>2, <1>5, <2>1, <2>2 DEF SearchRecords
  <2>4. search' \in SearchRecords
    BY <1>3, <2>3
  <2> QED
    BY <1>1, <1>2, <1>3, <1>7, <2>4 DEF FinderTypes
<1>10. PlacesWatched' /\ FreshAgree'
  <2>1. PlacesWatched'
    BY <1>3, <1>7, <1>8 DEF FinderIInv, PlacesWatched
  <2>2. FreshAgree'
    BY <1>3, <1>7, <1>8 DEF FinderIInv, FreshAgree, Fresh
  <2> QED
    BY <2>1, <2>2
<1>11. \A k \in DOMAIN search.out : search.out[k].place \in Places
  <2>1. \A k \in DOMAIN search.out : search.out[k] \in AnswerRecords
    BY <1>4, ElementOfSeq
  <2> QED
    BY <2>1 DEF AnswerRecords
<1>12. ScansSound'
  BY <1>3, <1>6, <1>7, <1>8 DEF FinderIInv, ScansSound
<1>13. AnswersBehind'
  <2> SUFFICES ASSUME NEW k \in DOMAIN c
               PROVE  c[k].place < p + 1 /\ (loaded[c[k].place] = NoLib => c[k].place \in gone)
    BY <1>3 DEF AnswersBehind
  <2>1. p \in Nat
    BY <1>2
  <2>2. CASE k \in DOMAIN search.out /\ c[k] = search.out[k]
    <3>1. /\ search.out[k].place < p
          /\ loaded[search.out[k].place] = NoLib => search.out[k].place \in gone
      BY <2>2 DEF FinderIInv, AnswersBehind
    <3>2. search.out[k].place \in Nat
      BY <1>2, <1>11, <2>2
    <3> QED
      BY <2>1, <2>2, <3>1, <3>2
  <2>3. CASE c[k] = r
    BY <1>8, <2>1, <2>3
  <2> QED
    BY <1>6, <2>2, <2>3
<1>14. AnswersWereMapped'
  <2>1. AnswersWereMapped /\ AnswersBehind
    BY DEF FinderIInv
  <2> SUFFICES ASSUME NEW k \in DOMAIN c
               PROVE  /\ search.maps[c[k].place] # NoLib /\ search.maps[c[k].place].path = c[k].elf.path
                      /\ eMachineCheck(search.type, c[k].elf)
                      /\ FilterPasses(search.filter, search.maps[c[k].place])
                      /\ \A j \in 1 .. k - 1 : c[j].place < c[k].place
    BY <1>3 DEF AnswersWereMapped
  <2>2. CASE k \in DOMAIN search.out /\ c[k] = search.out[k]
    <3>1. \A j \in 1 .. k - 1 : c[j] = search.out[j]
      BY <1>6, <2>2
    <3> QED
      BY <2>1, <2>2, <3>1 DEF AnswersWereMapped
  <2>3. CASE asks /\ k = Len(search.out) + 1 /\ c[k] = r
    <3>1. \A j \in 1 .. k - 1 : c[j].place < p
      BY <1>6, <2>1, <2>3 DEF AnswersBehind
    <3>2. search.maps[p] # NoLib /\ FilterPasses(search.filter, search.maps[p])
      BY <1>8 DEF SkipMap
    <3> QED
      BY <1>8, <2>3, <3>1, <3>2
  <2> QED
    BY <1>6, <2>2, <2>3
<1>15. AnswersCurrent'
  <2>1. AnswersCurrent
    BY DEF FinderIInv
  <2> SUFFICES ASSUME NEW k \in DOMAIN c, c[k].place \notin unseen, loaded[c[k].place] # NoLib
               PROVE  c[k].elf = loaded[c[k].place]
    BY <1>3 DEF AnswersCurrent
  <2>2. CASE k \in DOMAIN search.out /\ c[k] = search.out[k]
    BY <2>1, <2>2 DEF AnswersCurrent
  <2>3. CASE c[k] = r
    BY <1>8, <2>3 DEF Fresh
  <2> QED
    BY <1>6, <2>2, <2>3
<1>16. FoundSoFar'
  <2> SUFFICES ASSUME Undisturbed
               PROVE  /\ e.inode # 0 =>
                           \E q \in Places : q < p + 1 /\ search.maps[q] # NoLib /\ e.inode = search.maps[q].inode
                      /\ \A q \in Places : q < p + 1 /\ AskedFor(q) =>
                           \E k \in DOMAIN c : c[k] = [place |-> q, elf |-> search.maps[q]]
    BY <1>3 DEF FoundSoFar, Undisturbed, AskedFor
  <2>1. \A q \in Places : q < p /\ AskedFor(q) =>
             \E k \in DOMAIN search.out : search.out[k] = [place |-> q, elf |-> search.maps[q]]
    BY DEF FinderIInv, FoundSoFar
  <2>2. p < p + 1 /\ \A q \in Places : q < p + 1 => q < p \/ q = p
    BY <1>2
  <2>3. search.maps[p] # NoLib
    BY <1>8 DEF SkipMap
  <2>4. Fresh(p)
    BY <1>8, <2>3 DEF Undisturbed, FinderIInv, PlacesWatched, Fresh
  <2>5. e = search.maps[p]
    BY <1>8, <2>3, <2>4 DEF FinderIInv, FreshAgree
  <2>6. AskedFor(p) => \E k \in DOMAIN c : c[k] = [place |-> p, elf |-> search.maps[p]]
    <3>1. AskedFor(p) => asks
      BY <2>5 DEF AskedFor
    <3> QED
      BY <1>6, <2>5, <3>1
  <2>7. \A q \in Places : q < p /\ AskedFor(q) => \E k \in DOMAIN c : c[k] = [place |-> q, elf |-> search.maps[q]]
    BY <1>6, <2>1
  <2> QED
    BY <2>2, <2>3, <2>5, <2>6, <2>7
<1> QED
  BY <1>9, <1>10, <1>12, <1>13, <1>14, <1>15, <1>16 DEF FinderIInv

(* A call ends, or the process dies. *)
LEMMA FinderStopInv ==
    ASSUME FinderIInv, search.at = "visit", UNCHANGED <<loaded, cached, gone, unseen>>,
           \/ search' = [search EXCEPT !.at = "fault"]
           \/ search' = [search EXCEPT !.at = "done"] /\ search.i > Len(search.maps)
    PROVE  FinderIInv'
<1>1. FinderTypes
  BY DEF FinderIInv
<1>2. /\ search \in SearchRecords /\ search.maps \in [Places -> MappedLibraries] /\ Cardinality(Places) \in Nat
      /\ Len(search.maps) = Cardinality(Places)
  BY <1>1, SnapshotLength DEF FinderTypes
<1>3. /\ search' \in SearchRecords /\ search'.i = search.i /\ search'.maps = search.maps
      /\ search'.out = search.out /\ search'.last = search.last /\ search'.type = search.type
      /\ search'.filter = search.filter /\ search'.at \in {"fault", "done"}
      /\ search'.at = "done" => search.i > Len(search.maps)
  BY <1>2 DEF SearchRecords
<1>4. FinderTypes'
  <2>1. search'.at = "done" => search'.i = Cardinality(Places) + 1
    BY <1>2, <1>3 DEF SearchRecords
  <2> QED
    BY <1>1, <1>2, <1>3, <2>1 DEF FinderTypes
<1>5. PlacesWatched' /\ ScansSound' /\ AnswersBehind'
  BY <1>3 DEF FinderIInv, PlacesWatched, ScansSound, AnswersBehind
<1>6. FreshAgree'
  BY <1>3 DEF FinderIInv, FreshAgree, Fresh
<1>7. AnswersWereMapped' /\ AnswersCurrent'
  BY <1>3 DEF FinderIInv, AnswersWereMapped, AnswersCurrent
<1>8. FoundSoFar'
  BY <1>3 DEF FinderIInv, FoundSoFar, Undisturbed, AskedFor
<1> QED
  BY <1>4, <1>5, <1>6, <1>7, <1>8 DEF FinderIInv

(* The invariant holds of the first state and in every step. *)
LEMMA FinderNextInv ==
    /\ FinderInit => FinderIInv
    /\ FinderIInv /\ [FinderNext]_finderVars => FinderIInv'
<1>1. ASSUME FinderInit PROVE FinderIInv
  <2>1. Cardinality(Places) \in Nat
    BY FinderAssumption, FS_CardinalityType
  <2>2. /\ search = NoCall /\ loaded = Loaded0 /\ gone = {} /\ unseen = {}
        /\ cached \in [Places -> LibraryRecords] /\ \A p \in Places : cached[p] = NoLib
    BY <1>1, MappedRecords DEF FinderInit
  <2>3. NoCall \in SearchRecords /\ NoCall.at = "idle" /\ NoCall.out = <<>>
    BY <2>1 DEF NoCall, SearchRecords
  <2>4. FinderTypes
    BY <2>2, <2>3, FinderAssumption DEF FinderTypes
  <2>5. PlacesWatched /\ FreshAgree /\ ScansSound /\ AnswersBehind
    BY <2>2, <2>3 DEF PlacesWatched, FreshAgree, ScansSound, AnswersBehind
  <2>6. FoundSoFar /\ AnswersWereMapped /\ AnswersCurrent
    BY <2>2, <2>3 DEF FoundSoFar, AnswersWereMapped, AnswersCurrent
  <2> QED
    BY <2>4, <2>5, <2>6 DEF FinderIInv
<1>2. ASSUME FinderIInv, [FinderNext]_finderVars PROVE FinderIInv'
  <2>1. CASE StartSearch
    BY <1>2, <2>1, StartInv
  <2>2. CASE VisitMap
    <3>1. search.at = "visit" /\ search.i \in Places /\ UNCHANGED <<loaded, gone, unseen>>
      BY <1>2, <2>2, VisitCases
    <3>2. CASE Passes(search.i)
      BY <1>2, <3>1, <3>2, PassInv
    <3>3. CASE search' = [search EXCEPT !.at = "fault"] /\ cached' = cached
      BY <1>2, <3>1, <3>3, FinderStopInv
    <3>4. CASE \E e \in LibraryRecords : Gives(search.i, e)
      <4>1. PICK e \in LibraryRecords : Gives(search.i, e)
        BY <3>4
      <4> QED
        BY <1>2, <3>1, <4>1, AnswerInv
    <3> QED
      BY <1>2, <2>2, <3>2, <3>3, <3>4, VisitCases
  <2>3. CASE EndSearch
    BY <1>2, <2>3, FinderStopInv DEF EndSearch
  <2>4. CASE \E p \in Places : ChangeLibrary(p)
    BY <1>2, <2>4, ChangeInv
  <2>5. CASE UNCHANGED finderVars
    BY SMTT(60), <1>2, <2>5 DEF finderVars, FinderIInv, FinderTypes, PlacesWatched, FreshAgree, Fresh, ScansSound, AnswersBehind,
       FoundSoFar, Undisturbed, AskedFor, AnswersWereMapped, AnswersCurrent
  <2> QED
    BY <1>2, <2>1, <2>2, <2>3, <2>4, <2>5 DEF FinderNext
<1> QED
  BY <1>1, <1>2

-----------------------------------------------------------------------------
(* At the end of an undisturbed call, every image asked for was found. *)
LEMMA AllFound == ASSUME FinderIInv PROVE AllImagesFound
<1> SUFFICES ASSUME search.at = "done", search.maps = loaded, unseen = {}, NEW p \in Places,
                    loaded[p] # NoLib, loaded[p].sound, loaded[p].area # "data",
                    FilterPasses(search.filter, loaded[p]), eMachineCheck(search.type, loaded[p]),
                    \A q \in Places \ {p} : loaded[q] = NoLib \/ loaded[q].inode # loaded[p].inode
             PROVE  \E k \in DOMAIN search.out : search.out[k] = [place |-> p, elf |-> loaded[p]]
  BY DEF AllImagesFound
<1>1. Undisturbed
  BY DEF FinderIInv, PlacesWatched, Undisturbed
<1>2. AskedFor(p)
  BY DEF AskedFor
<1>3. p < search.i
  <2>1. search.i = Cardinality(Places) + 1 /\ Cardinality(Places) \in Nat /\ Places = 1 .. Cardinality(Places)
    BY FinderAssumption, FS_CardinalityType DEF FinderIInv, FinderTypes
  <2> QED
    BY <2>1
<1> QED
  BY <1>1, <1>2, <1>3 DEF FinderIInv, FoundSoFar

(* Of the members of a set of positions, one has the most, whatever is     *)
(* counted, and of those with the most there is a first.                   *)
LEMMA FirstWithMost ==
    ASSUME NEW N \in Nat, NEW S \in SUBSET (1 .. N), S # {}, NEW f, \A k \in S : f[k] \in Nat
    PROVE  \E i \in S : /\ \A k \in S : f[k] <= f[i]
                       /\ \A j \in S : (\A k \in S : f[k] <= f[j]) => i <= j
<1> DEFINE most == {i \in S : \A k \in S : f[k] <= f[i]}
<1> DEFINE Without == {n \in Nat : S \cap (1 .. n) # {} /\ ~\E i \in S \cap (1 .. n) : \A k \in S \cap (1 .. n) : f[k] <= f[i]}
<1>2. Without = {}
  <2> SUFFICES ASSUME Without # {} PROVE FALSE
    OBVIOUS
  <2>1. PICK n \in Without : \A m \in Without : n <= m
    <3>1. Without \in SUBSET Nat
      OBVIOUS
    <3> HIDE DEF Without
    <3> QED
      BY <3>1, LeastNat, Zenon
  <2>2. n \in Nat /\ S \cap (1 .. n) # {} /\ ~\E i \in S \cap (1 .. n) : \A k \in S \cap (1 .. n) : f[k] <= f[i]
    BY <2>1
  <2>3. n # 0
    BY <2>2
  <2>4. n - 1 \in Nat /\ n - 1 \notin Without
    <3>1. n - 1 \in Nat /\ ~(n <= n - 1)
      BY <2>2, <2>3
    <3> HIDE DEF Without
    <3> QED
      BY <2>1, <3>1
  <2>5. CASE S \cap (1 .. n - 1) = {}
    <3>1. S \cap (1 .. n) = {n}
      BY <2>2, <2>5
    <3> QED
      BY <2>2, <3>1
  <2>6. CASE S \cap (1 .. n - 1) # {}
    <3>1. PICK i \in S \cap (1 .. n - 1) : \A k \in S \cap (1 .. n - 1) : f[k] <= f[i]
      BY <2>4, <2>6
    <3>2. i \in S \cap (1 .. n) /\ \A k \in S \cap (1 .. n) : k = n \/ k \in S \cap (1 .. n - 1)
      BY <2>2, <3>1
    <3>3. CASE n \notin S \/ f[n] <= f[i]
      BY <2>2, <3>1, <3>2, <3>3
    <3>4. CASE n \in S /\ ~(f[n] <= f[i])
      <4>1. \A k \in S \cap (1 .. n) : f[k] <= f[n]
        BY <3>1, <3>2, <3>4
      <4> QED
        BY <2>2, <2>3, <3>4, <4>1
    <3> QED
      BY <3>3, <3>4
  <2> QED
    BY <2>5, <2>6
<1>3. S \cap (1 .. N) = S
  OBVIOUS
<1>4. most # {}
  BY <1>2, <1>3
<1>5. most \in SUBSET Nat
  <2>1. most \subseteq S
    OBVIOUS
  <2>2. S \subseteq Nat
    OBVIOUS
  <2> QED
    BY <2>1, <2>2
<1>6. \E i \in most : \A k \in most : i <= k
  <2> HIDE DEF Without, most
  <2> QED
    BY <1>4, <1>5, LeastNat, Zenon
<1> HIDE DEF Without
<1> QED
  BY <1>6

(* findElf gives one of the images it chooses among, if there is one. *)
LEMMA FoundIsChoice ==
    ASSUME FinderIInv, NEW path, Candidates(path) # {}
    PROVE  \E i \in Candidates(path) : findElf(path) = search.out[i].elf
<1> DEFINE choices == Candidates(path)
           f       == [k \in choices |-> search.out[k].elf.segments]
           most    == {i \in choices : \A k \in choices : f[k] <= f[i]}
<1>1. search.out \in Seq(AnswerRecords)
  BY DEF FinderIInv, FinderTypes, SearchRecords
<1>2. DOMAIN search.out = 1 .. Len(search.out) /\ Len(search.out) \in Nat
  BY <1>1
<1>3. choices \subseteq DOMAIN search.out
  BY DEF Candidates
<1>4. \A k \in choices : f[k] = search.out[k].elf.segments /\ f[k] \in Nat /\ f[k] > 0
  <2> SUFFICES ASSUME NEW k \in choices PROVE search.out[k].elf.segments \in Nat /\ search.out[k].elf.segments > 0
    OBVIOUS
  <2>1. search.out[k] \in AnswerRecords
    BY <1>1, <1>2, <1>3, ElementOfSeq
  <2> QED
    BY <1>3, <2>1 DEF AnswerRecords, LibraryRecords, FinderIInv, ScansSound
<1>5. ~\A i \in choices : search.out[i].elf.segments = 0
  <2>1. choices # {}
    OBVIOUS
  <2> HIDE DEF choices
  <2> QED
    BY <1>4, <2>1
<1>6. most = {i \in choices : \A k \in choices : search.out[k].elf.segments <= search.out[i].elf.segments}
  BY <1>4
<1>7. findElf(path) = search.out[CHOOSE i \in most : \A k \in most : i <= k].elf
  <2> HIDE DEF most
  <2> QED
    BY <1>5, <1>6 DEF findElf
<1>8. (CHOOSE i \in most : \A k \in most : i <= k) \in most
  <2> SUFFICES ASSUME NEW S, S = choices, NEW g, g = f, NEW m, m = most,
                      NEW n, n = Len(search.out)
               PROVE  \E i \in m : \A k \in m : i <= k
    BY Zenon
  <2>1. n \in Nat /\ S \in SUBSET (1 .. n) /\ S # {} /\ \A k \in S : g[k] \in Nat
    BY <1>2, <1>3, <1>4
  <2>2. m = {i \in S : \A k \in S : g[k] <= g[i]}
    OBVIOUS
  <2> HIDE DEF choices, f, most
  <2>3. \E i \in S : /\ \A k \in S : g[k] <= g[i]
                   /\ \A j \in S : (\A k \in S : g[k] <= g[j]) => i <= j
    BY <2>1, FirstWithMost
  <2> QED
    BY <2>2, <2>3
<1>9. most \subseteq choices
  OBVIOUS
<1> HIDE DEF most
<1> QED
  BY <1>7, <1>8, <1>9

(* If an image of a path is in the answer, one of that path is given, with *)
(* dynamic tags if there is such.                                          *)
LEMMA UsableFound == ASSUME FinderIInv PROVE FindsUsable
<1> SUFFICES ASSUME NEW k \in DOMAIN search.out, NEW r, r = search.out[k].elf
             PROVE  findElf(r.path).path = r.path /\ (r.dynamic => findElf(r.path).dynamic)
  BY DEF FindsUsable
<1>1. k \in {i \in DOMAIN search.out : search.out[i].elf.path = r.path}
  OBVIOUS
<1>2. Candidates(r.path) # {} /\ \A i \in Candidates(r.path) : search.out[i].elf.path = r.path
  BY <1>1 DEF Candidates
<1>3. r.dynamic => \A i \in Candidates(r.path) : search.out[i].elf.dynamic
  BY <1>1 DEF Candidates
<1>4. PICK i \in Candidates(r.path) : findElf(r.path) = search.out[i].elf
  BY <1>2, FoundIsChoice
<1> QED
  BY <1>2, <1>3, <1>4

(* However libraries come and go at any places, and whatever was scanned   *)
(* before: answers were mapped, are what is mapped now unless another      *)
(* library took the place unseen, leave no image out of an undisturbed     *)
(* call, and findElf gives the best of a path (KittyScanner.cpp,           *)
(* getAllELFs and findElf).                                                *)
THEOREM ImagesCorrect == FinderSpec => []FinderInv
<1>1. FinderIInv => FinderInv
  BY AllFound, UsableFound DEF FinderInv, FinderIInv
<1> QED
  BY <1>1, FinderNextInv, PTL DEF FinderSpec

-----------------------------------------------------------------------------
(* Dumps while any threads patch. *)
DumpStep == DumpNext \/ (MemoryNext /\ UNCHANGED copiesVars)
DumpSpec == MemoryInit /\ CopiesInit /\ [][DumpStep]_<<memoryVars, copiesVars>>

MapRecords == [first : Pages, last : Pages, file : {Files[p] : p \in Pages}, prot : SUBSET RWX]
DumpRecords ==
    [at : {"idle", "next", "write", "revert", "done"}, address : Nat, size : Int, todo : Seq(MapRecords),
     maps : Seq(MapRecords), out : Seq(Nat), full : BOOLEAN, named : BOOLEAN, result : BOOLEAN]

PagesIn(m) == m.first .. m.last

(* A map is of mapped pages of one file.                                   *)
MapSound(m) ==
    /\ m \in MapRecords /\ m.first <= m.last
    /\ "w" \in m.prot => "r" \in m.prot
    /\ \A p \in PagesIn(m) : Mapped(p) /\ Files[p] = m.file

(* What is left to do is an end of the maps of the dump.                   *)
MapsBehind == Len(dump.maps) - Len(dump.todo)
DumpShape ==
    /\ dump \in DumpRecords /\ vm = NoCopy
    /\ \A i \in DOMAIN dump.maps : MapSound(dump.maps[i])
    /\ MapsBehind >= 0 /\ \A i \in DOMAIN dump.todo : dump.todo[i] = dump.maps[MapsBehind + i]
    /\ dump.at \in {"write", "revert"} => dump.todo # <<>>
    /\ dump.at = "done" => dump.todo = <<>> /\ dump.result = (Len(dump.out) = dump.size)

(* The bytes that are out are those of the maps that are out.              *)
MapsOut == IF dump.at = "revert" THEN MapsBehind + 1 ELSE MapsBehind
OutTo   == IF MapsOut = 0 THEN dump.address ELSE EndOf(dump.maps[MapsOut])
OutSoFar ==
    Contiguous =>
        /\ \A i \in DOMAIN dump.out : dump.out[i] \in Holds(dump.address + i - 1)
        /\ ~dump.full => dump.address + Len(dump.out) = OutTo

(* Memory and backups hold original bytes and those of patches.            *)
BytesPossible ==
    /\ \A a \in Addresses : mem[a] \in Holds(a)
    /\ \A x \in Patches : Begun(x) => \A i \in DOMAIN Code[x] : patch[x].orig[i] \in Holds(Site[x] + i - 1)

(* As long as no patch was made, rights differ from the first ones only    *)
(* where the dump has made a map readable.                                 *)
NonePatched == \A x \in Patches : patch[x].last = Nil
MadeReadable(p) == dump.at \in {"write", "revert"} /\ Lifted(dump.todo[1]) /\ p \in PagesIn(dump.todo[1])
RightsKept ==
    NonePatched =>
        /\ \A i \in DOMAIN dump.maps : \A p \in PagesIn(dump.maps[i]) : dump.maps[i].prot = Perms[p]
        /\ \A p \in Pages : prot[p] = IF MadeReadable(p) THEN Perms[p] \cup {"r"} ELSE Perms[p]

DumpIInv ==
    MemoryIInv /\ DumpShape /\ OutSoFar /\ BytesPossible /\ RightsKept /\ DumpOfOneFile

-----------------------------------------------------------------------------
(* The elements of a finite set of numbers can be put in order. *)
LEMMA OrderedExists ==
    ASSUME NEW S \in SUBSET Nat, IsFiniteSet(S)
    PROVE  \E s \in [1 .. Cardinality(S) -> S] : \A i, j \in DOMAIN s : i < j => s[i] < s[j]
<1> DEFINE Ordered(s, n) == \A i, j \in 1 .. n : i < j => s[i] < s[j]
           Good(U, n) == \E s \in [1 .. n -> U] : Ordered(s, n)
           Bad(n) == \E U \in SUBSET Nat : IsFiniteSet(U) /\ Cardinality(U) = n /\ ~Good(U, n)
           bad == {n \in Nat : Bad(n)}
<1>1. ASSUME NEW n \in bad, \A k \in bad : n <= k PROVE FALSE
  <2>1. n \in Nat /\ Bad(n)
    BY <1>1
  <2>2. PICK U \in SUBSET Nat : IsFiniteSet(U) /\ Cardinality(U) = n /\ ~Good(U, n)
    BY <2>1
  <2>3. CASE n = 0
    <3>1. [i \in 1 .. n |-> 0] \in [1 .. n -> U] /\ Ordered([i \in 1 .. n |-> 0], n)
      BY <2>3
    <3> QED
      BY <2>2, <3>1
  <2>4. CASE n # 0
    <3>1. U # {} /\ U \subseteq Nat
      BY <2>2, <2>4, FS_EmptySet
    <3>2. PICK least \in U : \A x \in U : least <= x
      BY <3>1, LeastNat
    <3>3. IsFiniteSet(U \ {least}) /\ Cardinality(U \ {least}) = n - 1 /\ n - 1 \in Nat /\ U \ {least} \in SUBSET Nat
      BY <2>1, <2>2, <2>4, <3>2, FS_RemoveElement
    <3>4. Good(U \ {least}, n - 1)
      <4>1. n - 1 \notin bad
        BY <1>1, <2>1, <3>3
      <4>2. ~Bad(n - 1)
        BY <3>3, <4>1
      <4> QED
        BY <3>3, <4>2
    <3>5. PICK r \in [1 .. n - 1 -> U \ {least}] : Ordered(r, n - 1)
      BY <3>4
    <3> DEFINE s == [i \in 1 .. n |-> IF i = 1 THEN least ELSE r[i - 1]]
    <3>6. \A i \in 1 .. n : i # 1 => i - 1 \in 1 .. n - 1 /\ r[i - 1] \in U \ {least}
      BY <2>1, <3>5
    <3>7. s \in [1 .. n -> U]
      BY <3>2, <3>6
    <3>8. ASSUME NEW i \in 1 .. n, NEW j \in 1 .. n, i < j PROVE s[i] < s[j]
      <4>1. j # 1 /\ s[j] = r[j - 1] /\ s[j] \in U \ {least} /\ s[j] \in Nat /\ least \in Nat
        <5>1. j # 1
          BY <2>1, <3>8
        <5>2. s[j] = r[j - 1]
          BY <5>1
        <5> HIDE DEF s
        <5> QED
          BY <3>1, <3>6, <5>1, <5>2
      <4>2. CASE i = 1
        <5>1. s[i] = least /\ least <= s[j] /\ least # s[j]
          BY <3>2, <4>1, <4>2
        <5> QED
          BY <4>1, <5>1
      <4>3. CASE i # 1
        <5>1. i - 1 \in 1 .. n - 1 /\ j - 1 \in 1 .. n - 1 /\ i - 1 < j - 1
          BY <3>6, <3>8, <4>1, <4>3
        <5>2. r[i - 1] < r[j - 1]
          BY <3>5, <5>1
        <5> QED
          BY <4>1, <4>3, <5>2
      <4> QED
        BY <4>2, <4>3
    <3>9. Ordered(s, n)
      BY <3>8
    <3> HIDE DEF s
    <3> QED
      BY <2>2, <3>7, <3>9
  <2> QED
    BY <2>3, <2>4
<1>2. bad = {}
  <2>1. bad \subseteq Nat
    OBVIOUS
  <2> HIDE DEF bad
  <2> QED
    BY <1>1, <2>1, LeastNat
<1>3. Cardinality(S) \in Nat
  BY FS_CardinalityType
<1>4. Good(S, Cardinality(S))
  BY <1>2, <1>3
<1>5. \E s \in [1 .. Cardinality(S) -> S] : \A i, j \in DOMAIN s : i < j => s[i] < s[j]
  <2>1. PICK s \in [1 .. Cardinality(S) -> S] : Ordered(s, Cardinality(S))
    BY <1>4
  <2>2. DOMAIN s = 1 .. Cardinality(S)
    OBVIOUS
  <2> QED
    BY <2>1, <2>2
<1> QED
  BY <1>5

(* Ascending is such an order. *)
LEMMA AscendingShape ==
    ASSUME NEW S \in SUBSET Nat, IsFiniteSet(S)
    PROVE  Ascending(S) \in [1 .. Cardinality(S) -> S]
  BY OrderedExists, Zenon DEF Ascending

(* There is a page at which a run ends. *)
LEMMA RunEndExists ==
    ASSUME NEW i \in Pages
    PROVE  \E j \in i .. PageCount : (\A p \in i .. j : Alike(p, i)) /\ (j = PageCount \/ ~Alike(j + 1, i))
<1>1. i \in Nat /\ PageCount \in Nat /\ i <= PageCount /\ Alike(i, i)
  BY MemoryAssumption DEF Pages, Alike
<1>2. \E j \in i .. PageCount : /\ \A p \in i .. j : Alike(p, i)
                                /\ j = PageCount \/ ~Alike(j + 1, i)
  <2> DEFINE unlike == {p \in i .. PageCount : ~Alike(p, i)}
  <2>1. CASE unlike = {}
    <3>1. \A p \in i .. PageCount : Alike(p, i)
      BY <2>1
    <3>2. PageCount \in i .. PageCount
      BY <1>1
    <3> QED
      BY <3>1, <3>2
  <2>2. CASE unlike # {}
    <3>1. unlike \subseteq Nat
      BY <1>1
    <3>2. PICK k \in unlike : \A p \in unlike : k <= p
      BY <2>2, <3>1, LeastNat
    <3>3. k \in Nat /\ k \in i .. PageCount /\ ~Alike(k, i) /\ k # i
      BY <1>1, <3>1
    <3>4. k - 1 \in i .. PageCount /\ (k - 1) + 1 = k
      BY <1>1, <3>3
    <3>5. ASSUME NEW p \in i .. k - 1 PROVE Alike(p, i)
      <4>1. p \in i .. PageCount /\ ~(k <= p)
        BY <1>1, <3>3
      <4> QED
        BY <3>2, <4>1
    <3> HIDE DEF unlike
    <3> QED
      BY <3>3, <3>4, <3>5
  <2> QED
    BY <2>1, <2>2
<1> QED
  BY <1>2

(* A run ends at a page, and all its pages are alike. *)
LEMMA RunEndShape ==
    ASSUME NEW i \in Pages
    PROVE  RunEnd(i) \in i .. PageCount /\ \A p \in i .. RunEnd(i) : Alike(p, i)
  BY RunEndExists, Zenon DEF RunEnd

(* The page behind a run is not alike. *)
LEMMA RunEndStops ==
    ASSUME NEW i \in Pages
    PROVE  RunEnd(i) = PageCount \/ ~Alike(RunEnd(i) + 1, i)
  BY RunEndExists, Zenon DEF RunEnd

(* What /proc/self/maps shows of a run of pages. *)
LEMMA MapAtSound ==
    ASSUME MemoryIInv, NEW i \in RunStarts
    PROVE  MapSound(MapAt(i)) /\ \A p \in PagesIn(MapAt(i)) : prot[p] = MapAt(i).prot
<1>1. i \in Pages /\ Mapped(i) /\ i \in Nat
  BY DEF RunStarts, Pages
<1> SUFFICES ASSUME NEW j, j = RunEnd(i), NEW m, m = MapAt(i)
             PROVE  MapSound(m) /\ \A p \in PagesIn(m) : prot[p] = m.prot
  OBVIOUS
<1>2. j \in i .. PageCount /\ \A p \in i .. j : Alike(p, i)
  BY <1>1, RunEndShape
<1>3. i .. j \subseteq Pages /\ j \in Pages /\ i <= j
  BY <1>1, <1>2, MemoryAssumption DEF Pages
<1>4. m.first = i /\ m.last = j /\ m.file = Files[i] /\ m.prot = prot[i] /\ PagesIn(m) = i .. j
  BY DEF MapAt, PagesIn
<1>5. prot[i] \in SUBSET RWX /\ ("w" \in prot[i] => "r" \in prot[i])
  BY <1>1 DEF MemoryIInv, MemoryTypes, NoWriteOnly
<1>6. m \in MapRecords
  <2>1. m = [first |-> i, last |-> j, file |-> Files[i], prot |-> prot[i]]
    BY DEF MapAt
  <2> QED
    BY <1>1, <1>3, <1>5, <2>1 DEF MapRecords
<1>7. \A p \in i .. j : Mapped(p) /\ Files[p] = Files[i] /\ prot[p] = prot[i]
  BY <1>1, <1>2, <1>3 DEF Alike, Mapped
<1> QED
  BY <1>3, <1>4, <1>5, <1>6, <1>7 DEF MapSound

(* The same of any of them, in order. *)
LEMMA MapsSound ==
    ASSUME MemoryIInv, NEW S \in SUBSET RunStarts
    PROVE  /\ MapsAt(S) \in Seq(MapRecords)
           /\ \A k \in DOMAIN MapsAt(S) : \E i \in RunStarts : MapsAt(S)[k] = MapAt(i)
<1>1. RunStarts \subseteq Pages /\ Pages \subseteq Nat
  BY DEF RunStarts, Pages
<1>2. S \in SUBSET Nat /\ IsFiniteSet(S)
  <2>1. IsFiniteSet(Pages)
    BY MemoryAssumption, FS_Interval DEF Pages
  <2> QED
    BY <1>1, <2>1, FS_Subset
<1> SUFFICES ASSUME NEW s, s = Ascending(S), NEW n, n = Cardinality(S), NEW ms, ms = MapsAt(S)
             PROVE  ms \in Seq(MapRecords) /\ \A k \in DOMAIN ms : \E i \in RunStarts : ms[k] = MapAt(i)
  OBVIOUS
<1>3. s \in [1 .. n -> S] /\ n \in Nat
  BY <1>2, AscendingShape, FS_CardinalityType
<1>4. ms = [k \in 1 .. n |-> MapAt(s[k])]
  BY <1>3 DEF MapsAt
<1>5. \A k \in 1 .. n : s[k] \in RunStarts /\ MapAt(s[k]) \in MapRecords
  <2> SUFFICES ASSUME NEW k \in 1 .. n PROVE s[k] \in RunStarts /\ MapAt(s[k]) \in MapRecords
    OBVIOUS
  <2>1. s[k] \in RunStarts
    BY <1>3
  <2>2. \A i \in RunStarts : MapSound(MapAt(i))
    BY MapAtSound
  <2>3. MapSound(MapAt(s[k]))
    BY <2>1, <2>2
  <2> QED
    BY <2>1, <2>3 DEF MapSound
<1> QED
  BY <1>3, <1>4, <1>5

(* The addresses of a map are on its pages, and in the memory. *)
LEMMA MapAddresses ==
    ASSUME NEW m, MapSound(m), NEW a \in StartOf(m) .. EndOf(m) - 1
    PROVE  PageOf(a) \in PagesIn(m) /\ a \in Addresses /\ a \in Nat \ {0}
<1>1. /\ m.first \in Nat \ {0} /\ m.last \in Nat /\ m.first <= m.last /\ m.last <= PageCount
      /\ PageCount \in Nat /\ PageSize \in Nat \ {0}
  BY MemoryAssumption DEF MapSound, MapRecords, Pages
<1>2. \A k \in Nat \ {0} : \A x, y \in Nat : x <= y => x * k <= y * k /\ x * k \in Nat /\ y * k \in Nat
  OBVIOUS
<1>3. /\ (m.first - 1) * PageSize \in Nat /\ m.last * PageSize \in Nat /\ PageCount * PageSize \in Nat
      /\ m.last * PageSize <= PageCount * PageSize
  <2>1. m.first - 1 \in Nat /\ m.first - 1 <= m.last
    BY <1>1
  <2> QED
    BY <1>1, <1>2, <2>1
<1> SUFFICES ASSUME NEW f, f = m.first - 1, NEW l, l = m.last, NEW k, k = PageSize, NEW b, b = a - 1
             PROVE  PageOf(a) \in PagesIn(m) /\ a \in Addresses /\ a \in Nat \ {0}
  OBVIOUS
<1>4. f * k <= b /\ b < l * k /\ b \in Nat /\ f * k \in Nat /\ l * k \in Nat /\ f \in Nat /\ l \in Nat /\ k \in Nat \ {0}
  BY <1>1, <1>3 DEF StartOf, EndOf
<1>5. a \in Addresses /\ a \in Nat \ {0}
  BY <1>1, <1>3, <1>4 DEF Addresses
<1>6. \A x, y \in Nat : \A z \in Nat \ {0} : x * z <= y => x <= y \div z
  OBVIOUS
<1>7. \A x, y \in Nat : \A z \in Nat \ {0} : y < x * z => y \div z < x
  OBVIOUS
<1>8. f <= b \div k /\ b \div k < l /\ b \div k \in Nat
  BY <1>4, <1>6, <1>7, SMTT(60)
<1>9. PageOf(a) \in PagesIn(m)
  <2>1. PagesIn(m) = f + 1 .. l
    BY <1>1 DEF PagesIn
  <2>2. PageOf(a) = b \div k + 1
    BY DEF PageOf
  <2> QED
    BY <1>4, <1>8, <2>1, <2>2, SMTT(60)
<1> QED
  BY <1>5, <1>9

(* A map has addresses. *)
LEMMA MapNotEmpty ==
    ASSUME NEW m, MapSound(m)
    PROVE  StartOf(m) \in Nat \ {0} /\ EndOf(m) \in Nat /\ StartOf(m) < EndOf(m)
<1>1. m.first \in Nat \ {0} /\ m.last \in Nat /\ m.first <= m.last /\ PageSize \in Nat \ {0}
  BY MemoryAssumption DEF MapSound, MapRecords, Pages
<1> SUFFICES ASSUME NEW f, f = m.first - 1, NEW l, l = m.last, NEW k, k = PageSize
             PROVE  StartOf(m) \in Nat \ {0} /\ EndOf(m) \in Nat /\ StartOf(m) < EndOf(m)
  OBVIOUS
<1>2. \A x, y \in Nat : \A z \in Nat \ {0} : x < y => x * z < y * z /\ x * z \in Nat /\ y * z \in Nat
  OBVIOUS
<1>3. f \in Nat /\ l \in Nat /\ k \in Nat \ {0} /\ f < l
  BY <1>1
<1>4. f * k \in Nat /\ l * k \in Nat /\ f * k < l * k
  BY <1>2, <1>3
<1>5. StartOf(m) = f * k + 1 /\ EndOf(m) = l * k + 1
  BY DEF StartOf, EndOf
<1> QED
  BY <1>4, <1>5

(* Maps that follow one another have no hole. *)
LEMMA JoinedRange ==
    ASSUME NEW ms \in Seq(MapRecords), \A i \in DOMAIN ms : MapSound(ms[i]), NEW n \in DOMAIN ms, Joined(ms, n),
           NEW a \in StartOf(ms[1]) .. EndOf(ms[n]) - 1
    PROVE  Mapped(PageOf(a)) /\ Files[PageOf(a)] = ms[1].file
<1>1. n \in Nat /\ 1 .. n \subseteq DOMAIN ms /\ n >= 1
  OBVIOUS
<1>2. \A k \in 1 .. n : StartOf(ms[k]) \in Nat /\ EndOf(ms[k]) \in Nat
  <2> SUFFICES ASSUME NEW k \in 1 .. n PROVE StartOf(ms[k]) \in Nat /\ EndOf(ms[k]) \in Nat
    OBVIOUS
  <2>1. MapSound(ms[k])
    BY <1>1
  <2> QED
    BY <2>1, MapNotEmpty
<1> DEFINE over == {k \in 1 .. n : a < EndOf(ms[k])}
<1>3. a \in Nat /\ StartOf(ms[1]) <= a /\ a < EndOf(ms[n])
  BY <1>1, <1>2
<1>4. over \subseteq Nat /\ n \in over
  BY <1>1, <1>3
<1>5. PICK k \in over : \A i \in over : k <= i
  BY <1>4, LeastNat
<1>6. k \in 1 .. n /\ a < EndOf(ms[k]) /\ k \in Nat
  BY <1>1, <1>5
<1>7. StartOf(ms[k]) <= a
  <2>1. CASE k = 1
    BY <1>3, <2>1
  <2>2. CASE k # 1
    <3>1. k \in 2 .. n /\ k - 1 \in 1 .. n /\ ~(k <= k - 1)
      BY <1>1, <1>6, <2>2
    <3>2. k - 1 \notin over
      BY <1>5, <3>1
    <3>3. ~(a < EndOf(ms[k - 1])) /\ StartOf(ms[k]) = EndOf(ms[k - 1])
      BY <3>1, <3>2 DEF Joined
    <3> QED
      BY <1>2, <1>3, <3>1, <3>3
  <2> QED
    BY <2>1, <2>2
<1>8. MapSound(ms[k]) /\ a \in StartOf(ms[k]) .. EndOf(ms[k]) - 1
  BY <1>1, <1>2, <1>3, <1>6, <1>7
<1>9. PageOf(a) \in PagesIn(ms[k])
  BY <1>8, MapAddresses
<1>10. ms[k].file = ms[1].file
  <2>1. k = 1 \/ k \in 2 .. n
    BY <1>6
  <2> QED
    BY <2>1 DEF Joined
<1> QED
  BY <1>8, <1>9, <1>10 DEF MapSound

-----------------------------------------------------------------------------
(* Pages lose the right to be written, or none, while calls go on. *)
LEMMA RightsGiven ==
    ASSUME MemoryIInv, NEW ps \in SUBSET Pages, NEW rights \in SUBSET RWX, "w" \notin rights,
           memProtect(ps, rights), op' = Disturb(Nil, ps), UNCHANGED <<mem, patch, fault, refused>>
    PROVE  MemoryIInv'
<1>1. /\ op \in [Threads -> OpRecords] /\ prot \in [Pages -> SUBSET RWX] /\ Nil \notin Threads
      /\ mem' = mem /\ patch' = patch /\ fault' = fault /\ refused' = refused
  BY MemoryAssumption DEF MemoryIInv, MemoryTypes
<1>2. \A u \in Threads : /\ op'[u] \in OpRecords
                         /\ op'[u].at = op[u].at /\ op'[u].kind = op[u].kind /\ op'[u].patch = op[u].patch
                         /\ op'[u].seen = op[u].seen /\ op'[u].mixed = op[u].mixed
                         /\ ~op'[u].raced => ~op[u].raced /\ (Busy(u) => PatchPages(op[u].patch) \cap ps = {})
  <2> SUFFICES ASSUME NEW u \in Threads
               PROVE  /\ op'[u] \in OpRecords
                      /\ op'[u].at = op[u].at /\ op'[u].kind = op[u].kind /\ op'[u].patch = op[u].patch
                      /\ op'[u].seen = op[u].seen /\ op'[u].mixed = op[u].mixed
                      /\ ~op'[u].raced => ~op[u].raced /\ (Busy(u) => PatchPages(op[u].patch) \cap ps = {})
    OBVIOUS
  <2>1. u \in Threads \ {Nil}
    BY <1>1
  <2> QED
    BY <2>1, Disturbed DEF MemoryIInv
<1>3. op' \in [Threads -> OpRecords]
  BY <1>2 DEF Disturb
<1>4. prot' \in [Pages -> SUBSET RWX] /\ \A p \in Pages : prot'[p] = IF p \in ps THEN rights ELSE prot[p]
  BY <1>1 DEF memProtect
<1>5. MemoryTypes' /\ PatchesSized' /\ BytesKept' /\ FaultsHaveCause'
  <2>1. MemoryTypes'
    BY <1>1, <1>3, <1>4 DEF MemoryIInv, MemoryTypes
  <2>2. PatchesSized'
    BY <1>1 DEF MemoryIInv, PatchesSized, Begun
  <2>3. FaultsHaveCause'
    <3>1. fault \subseteq Threads /\ \A u \in fault : op[u].raced \/ op[u].mixed
      BY DEF MemoryIInv, MemoryTypes, FaultsHaveCause
    <3> QED
      BY <1>1, <1>2, <3>1 DEF FaultsHaveCause
  <2>4. BytesKept'
    BY <1>1, BytesStay DEF MemoryIInv
  <2> QED
    BY <2>1, <2>2, <2>3, <2>4
<1>6. CallsInOrder'
  <2>1. \A u \in Threads : Busy(u) => /\ Begun(op[u].patch)
                                      /\ op[u].kind = "create" => patch[op[u].patch].last = "created"
                                      /\ op[u].at # "copy" => Need(u) \notin op[u].seen
    BY DEF MemoryIInv, CallsInOrder
  <2> QED
    BY <1>1, <1>2, <2>1, OrderStays DEF Busy, Begun
<1>7. NoWriteOnly'
  BY <1>4 DEF MemoryIInv, NoWriteOnly
<1>8. RightsKnown'
  <2> SUFFICES ASSUME NEW u \in Threads, Busy(u)', ~op'[u].raced, ~op'[u].mixed, NEW p \in Touched(op'[u].patch)
               PROVE  /\ Mapped(p)
                      /\ op'[u].at = "protect" => prot'[p] = op'[u].seen
                      /\ op'[u].at = "copy" => Need(u)' \in prot'[p]
    BY DEF RightsKnown, Mapped, Touched
  <2>1. Busy(u) /\ op[u].patch \in Patches /\ op'[u].patch = op[u].patch /\ ~op[u].raced /\ ~op[u].mixed
    BY <1>2 DEF MemoryIInv, CallsInOrder, Busy
  <2>2. p \notin ps
    BY <1>2, <2>1, TouchedPages
  <2>3. Mapped(p) /\ (op[u].at = "protect" => prot[p] = op[u].seen) /\ (op[u].at = "copy" => Need(u) \in prot[p])
    BY <2>1 DEF MemoryIInv, RightsKnown
  <2> QED
    BY <1>2, <1>4, <2>2, <2>3 DEF Mapped, Need
<1>9. WritersRevert'
  <2> SUFFICES ASSUME NEW p \in Pages \ refused, "w" \in prot'[p], "w" \notin Perms[p]
               PROVE  \E u \in Threads : Writes(u)' /\ p \in PatchPages(op'[u].patch)
    BY <1>1 DEF WritersRevert, PatchPages
  <2>1. p \notin ps /\ "w" \in prot[p]
    BY <1>4
  <2>2. PICK u \in Threads : Writes(u) /\ p \in PatchPages(op[u].patch)
    BY <2>1 DEF MemoryIInv, WritersRevert
  <2> QED
    BY <1>2, <2>2 DEF Writes, Need
<1> QED
  BY <1>5, <1>6, <1>7, <1>8, <1>9 DEF MemoryIInv

(* Whoever calls or goes on with a call has a patch that was made, or makes *)
(* one.                                                                     *)
LEMMA PatchedNow ==
    ASSUME MemoryIInv, MemoryNext
    PROVE  ~NonePatched'
<1>1. patch \in [Patches -> PatchRecords] /\ Nil \notin {"created", "modified", "restored", "rejected"}
  BY MemoryAssumption DEF MemoryIInv, MemoryTypes
<1>2. ASSUME NEW t \in Threads, Step(t) PROVE ~NonePatched'
  <2> SUFFICES ASSUME NEW x, x = op[t].patch PROVE ~NonePatched'
    OBVIOUS
  <2>1. Busy(t) /\ x \in Patches /\ patch[x].last # Nil /\ op[t].kind \in Kinds
    BY <1>2 DEF Step, Protect, Copy, Revert, Running, Busy, MemoryIInv, CallsInOrder, Begun
  <2>2. CASE patch' = patch \/ patch' = [patch EXCEPT ![x].valid = TRUE]
    <3>1. patch'[x].last = patch[x].last
      BY <1>1, <2>1, <2>2 DEF PatchRecords
    <3> QED
      BY <2>1, <3>1 DEF NonePatched
  <2>3. ASSUME NEW direct \in BOOLEAN, patch' = [patch EXCEPT ![x] = [Copied(t) EXCEPT !.valid = direct \/ @]]
        PROVE  ~NonePatched'
    <3> DEFINE c == [Copied(t) EXCEPT !.valid = direct \/ @]
    <3>1. /\ c \in PatchRecords
          /\ op[t].kind = "create" => c.last = "created"
          /\ op[t].kind = "modify" => c.last = "modified"
          /\ op[t].kind = "restore" => c.last = "restored"
      BY <2>1, PatchCopied
    <3> HIDE DEF c
    <3>2. patch'[x] = c
      BY <1>1, <2>1, <2>3 DEF c
    <3>3. patch'[x].last # Nil
      BY <1>1, <2>1, <3>1, <3>2 DEF Kinds
    <3> QED
      BY <2>1, <3>3 DEF NonePatched
  <2>4. (Need(t) \in op[t].seen) \in BOOLEAN
    OBVIOUS
  <2>5. \/ patch' = patch \/ patch' = [patch EXCEPT ![x].valid = TRUE]
        \/ patch' = [patch EXCEPT ![x] = [Copied(t) EXCEPT !.valid = (Need(t) \in op[t].seen) \/ @]]
    BY <1>2 DEF Step, Protect, Copy, Revert, Finish
  <2> QED
    BY <2>2, <2>3, <2>4, <2>5
<1>3. ASSUME NEW t \in Threads, NEW x \in Patches, Calls(t, x) PROVE ~NonePatched'
  <2>1. CASE Create(t, x)
    <3>1. patch'[x].last = "created" \/ patch'[x].last = "rejected"
      BY <1>1, <2>1 DEF Create, Sized, PatchRecords
    <3> QED
      BY <1>1, <3>1 DEF NonePatched
  <2>2. CASE Modify(t, x) \/ Restore(t, x)
    <3>1. patch' = patch /\ patch[x].valid /\ Begun(x)
      BY <2>2 DEF Modify, Restore, MemoryIInv, PatchesSized
    <3> QED
      BY <1>1, <3>1 DEF NonePatched, Begun
  <2> QED
    BY <1>3, <2>1, <2>2 DEF Calls
<1> QED
  BY <1>2, <1>3 DEF MemoryNext

(* Memory and backups that nobody writes. *)
LEMMA BytesPossibleStay ==
    ASSUME BytesPossible, mem' = mem,
           \A y \in Patches : Begun(y)' => Begun(y) /\ patch'[y].orig = patch[y].orig
    PROVE  BytesPossible'
<1>1. \A a : Holds(a)' = Holds(a)
  BY DEF Holds, Start, Addresses, Extent
<1> QED
  BY <1>1 DEF BytesPossible

(* Where an address is in a range. *)
LEMMA OffsetInRange ==
    ASSUME NEW s \in Nat, NEW n \in Nat, NEW a \in s .. s + n - 1
    PROVE  a - s + 1 \in 1 .. n /\ s + (a - s + 1) - 1 = a
OBVIOUS

(* A patch writes its bytes or those it read before. *)
LEMMA MemoryBytes ==
    ASSUME MemoryIInv, BytesPossible, MemoryNext
    PROVE  BytesPossible'
<1>1. patch \in [Patches -> PatchRecords]
  BY DEF MemoryIInv, MemoryTypes
<1>2. ASSUME NEW t \in Threads, Protect(t) \/ Revert(t) PROVE BytesPossible'
  <2>1. op[t].patch \in Patches /\ mem' = mem /\ (patch' = patch \/ patch' = [patch EXCEPT ![op[t].patch].valid = TRUE])
    BY <1>2 DEF Protect, Revert, Finish, Running, MemoryIInv, CallsInOrder, Busy
  <2>2. \A y \in Patches : patch'[y].orig = patch[y].orig /\ patch'[y].last = patch[y].last
    <3> SUFFICES ASSUME NEW x \in Patches, x = op[t].patch, patch' = [patch EXCEPT ![x].valid = TRUE]
                 PROVE  \A y \in Patches : patch'[y].orig = patch[y].orig /\ patch'[y].last = patch[y].last
      BY <2>1
    <3> QED
      BY <1>1 DEF PatchRecords
  <2> QED
    BY <2>1, <2>2, BytesPossibleStay DEF Begun
<1>3. ASSUME NEW t \in Threads, NEW x \in Patches, Modify(t, x) \/ Restore(t, x) PROVE BytesPossible'
  <2>1. mem' = mem /\ patch' = patch
    BY <1>3 DEF Modify, Restore, Lookup
  <2> QED
    BY <2>1, BytesPossibleStay DEF Begun
<1>4. ASSUME NEW t \in Threads, NEW x \in Patches, Create(t, x) PROVE BytesPossible'
  <2>1. mem' = mem
    BY <1>4 DEF Create, Lookup
  <2>2. CASE patch' = [patch EXCEPT ![x].last = "rejected"]
    <3>1. \A y \in Patches : Begun(y)' => Begun(y) /\ patch'[y].orig = patch[y].orig
      BY <1>1, <2>2 DEF Begun, PatchRecords
    <3> QED
      BY <2>1, <3>1, BytesPossibleStay
  <2>3. CASE patch' = [patch EXCEPT ![x] = [Sized(x) EXCEPT !.valid = ~Mapped(PageOf(Site[x]))]]
    <3>1. patch'[x].orig = [i \in DOMAIN Code[x] |-> 0] /\ \A y \in Patches \ {x} : patch'[y] = patch[y]
      BY <1>1, <2>3 DEF Sized
    <3>2. \A a : Holds(a)' = Holds(a) /\ 0 \in Holds(a)
      BY DEF Holds, Start, Addresses, Extent
    <3>3. ASSUME NEW y \in Patches, Begun(y)', NEW i \in DOMAIN Code[y]
          PROVE  patch'[y].orig[i] \in Holds(Site[y] + i - 1)
      <4>1. CASE y = x
        BY <3>1, <3>2, <4>1
      <4>2. CASE y # x
        BY <3>1, <3>3, <4>2 DEF BytesPossible, Begun
      <4> QED
        BY <4>1, <4>2
    <3> QED
      BY <2>1, <3>2, <3>3 DEF BytesPossible
  <2> QED
    BY <1>4, <2>2, <2>3 DEF Create
<1>5. ASSUME NEW t \in Threads, Copy(t) PROVE BytesPossible'
  <2> SUFFICES ASSUME NEW x, x = op[t].patch PROVE BytesPossible'
    OBVIOUS
  <2>1. Busy(t) /\ x \in Patches /\ Begun(x) /\ op[t].kind \in Kinds
    BY <1>5 DEF Copy, Running, Busy, MemoryIInv, CallsInOrder
  <2>2. CASE UNCHANGED <<mem, patch>>
    BY <2>2, BytesPossibleStay DEF Begun
  <2>3. ASSUME NEW direct \in BOOLEAN, patch' = [patch EXCEPT ![x] = [Copied(t) EXCEPT !.valid = direct \/ @]],
               mem' = IF op[t].kind = "create" THEN mem
                      ELSE [a \in Addresses |-> IF a \in Extent(x) THEN Bytes(t)[a - Site[x] + 1] ELSE mem[a]]
        PROVE  BytesPossible'
    <3> DEFINE c == [Copied(t) EXCEPT !.valid = direct \/ @]
    <3>1. /\ c \in PatchRecords
          /\ op[t].kind = "create" => c.orig = Read(x)
          /\ op[t].kind \in {"modify", "restore"} => c.orig = patch[x].orig
      BY <2>1, PatchCopied
    <3> HIDE DEF c
    <3>2. patch'[x] = c /\ \A y \in Patches \ {x} : patch'[y] = patch[y]
      BY <1>1, <2>1, <2>3 DEF c
    <3>3. \A a : Holds(a)' = Holds(a)
      BY DEF Holds, Start, Addresses, Extent
    <3>4. \A i \in DOMAIN Code[x] : /\ Site[x] + i - 1 \in Addresses
                                    /\ Read(x)[i] = mem[Site[x] + i - 1]
                                    /\ patch[x].orig[i] \in Holds(Site[x] + i - 1)
      BY <2>1, CodeShape DEF Read, BytesPossible
    <3>5. \A i \in DOMAIN Code[x] : c.orig[i] \in Holds(Site[x] + i - 1)
      BY <2>1, <3>1, <3>4 DEF BytesPossible, Kinds
    <3>6. ASSUME NEW y \in Patches, Begun(y)', NEW i \in DOMAIN Code[y]
          PROVE  patch'[y].orig[i] \in Holds(Site[y] + i - 1)
      BY <3>2, <3>5, <3>6 DEF BytesPossible, Begun
    <3>7. ASSUME NEW a \in Addresses PROVE mem'[a] \in Holds(a)
      <4>1. CASE op[t].kind = "create" \/ a \notin Extent(x)
        BY <2>3, <4>1 DEF BytesPossible
      <4>2. CASE op[t].kind # "create" /\ a \in Extent(x)
        <5> SUFFICES ASSUME NEW i, i = a - Site[x] + 1 PROVE mem'[a] \in Holds(a)
          OBVIOUS
        <5>1. i \in DOMAIN Code[x] /\ Site[x] + i - 1 = a
          <6>1. Site[x] \in Nat /\ Len(Code[x]) \in Nat /\ DOMAIN Code[x] = 1 .. Len(Code[x])
            BY <2>1, CodeShape
          <6>2. a \in Site[x] .. Site[x] + Len(Code[x]) - 1
            BY <4>2 DEF Extent
          <6> QED
            BY <6>1, <6>2, OffsetInRange
        <5>2. mem'[a] = Bytes(t)[i]
          BY <2>3, <4>2
        <5>3. CASE op[t].kind = "modify"
          <6>1. Bytes(t)[i] = Code[x][i]
            BY <5>3 DEF Bytes
          <6>2. Code[x][a - Site[x] + 1] \in Holds(a)
            BY <2>1, <4>2 DEF Holds
          <6> QED
            BY <5>2, <6>1, <6>2
        <5>4. CASE op[t].kind # "modify"
          BY <3>4, <5>1, <5>2, <5>4 DEF Bytes
        <5> QED
          BY <5>3, <5>4
      <4> QED
        BY <4>1, <4>2
    <3> QED
      BY <3>3, <3>6, <3>7 DEF BytesPossible
  <2>4. (Need(t) \in op[t].seen) \in BOOLEAN
    OBVIOUS
  <2>5. \/ UNCHANGED <<mem, patch>>
        \/ /\ patch' = [patch EXCEPT ![x] = [Copied(t) EXCEPT !.valid = (Need(t) \in op[t].seen) \/ @]]
           /\ mem' = IF op[t].kind = "create" THEN mem
                     ELSE [a \in Addresses |-> IF a \in Extent(x) THEN Bytes(t)[a - Site[x] + 1] ELSE mem[a]]
    BY <1>5 DEF Copy
  <2> QED
    BY <2>2, <2>3, <2>4, <2>5
<1> QED
  BY <1>2, <1>3, <1>4, <1>5 DEF MemoryNext, Step, Calls

-----------------------------------------------------------------------------
(* Where no rights and no patches change, a dump only changes its own.     *)
LEMMA MemoryUnchanged ==
    ASSUME MemoryIInv, BytesPossible, UNCHANGED memoryVars
    PROVE  MemoryIInv' /\ BytesPossible' /\ (NonePatched' => NonePatched) /\ prot' = prot
<1>1. MemoryIInv'
  BY MemoryNextInv
<1>2. BytesPossible'
  BY BytesPossibleStay DEF memoryVars, Begun
<1> QED
  BY <1>1, <1>2 DEF memoryVars, NonePatched

(* A dump begins with the maps of the range, in which no rights differ.    *)
LEMMA DumpingInv ==
    ASSUME DumpIInv, NEW address, NEW size \in Int, NEW named \in BOOLEAN, Dumping(address, size, named),
           named => \A a \in address .. address + size - 1 :
                       Mapped(PageOf(a)) /\ Files[PageOf(a)] = Files[PageOf(address)],
           address \in Nat
    PROVE  DumpIInv'
<1>1. MemoryIInv' /\ BytesPossible' /\ (NonePatched' => NonePatched) /\ prot' = prot /\ dump.at = "idle" /\ vm' = vm
  BY MemoryUnchanged DEF Dumping, DumpIInv
<1>2. \E ms \in Seq(MapRecords) :
         /\ dump' = [NoDump EXCEPT !.at = "next", !.address = address, !.size = size,
                                   !.todo = ms, !.maps = ms, !.named = named]
         /\ \A k \in DOMAIN ms : \E i \in RunStarts : ms[k] = MapAt(i)
  <2>1. {p \in RunStarts : StartOf(MapAt(p)) \in address .. address + size - 1} \in SUBSET RunStarts
    OBVIOUS
  <2>2. /\ MapsFrom(address, size) \in Seq(MapRecords)
        /\ \A k \in DOMAIN MapsFrom(address, size) : \E i \in RunStarts : MapsFrom(address, size)[k] = MapAt(i)
    BY <2>1, MapsSound DEF MapsFrom, DumpIInv
  <2> QED
    BY <2>2 DEF Dumping
<1>3. PICK ms \in Seq(MapRecords) :
         /\ dump' = [NoDump EXCEPT !.at = "next", !.address = address, !.size = size,
                                   !.todo = ms, !.maps = ms, !.named = named]
         /\ \A k \in DOMAIN ms : \E i \in RunStarts : ms[k] = MapAt(i)
  BY <1>2
<1>4. dump' = [at |-> "next", address |-> address, size |-> size, todo |-> ms, maps |-> ms,
               out |-> <<>>, full |-> FALSE, named |-> named, result |-> FALSE]
  BY <1>3 DEF NoDump
<1>5. \A k \in DOMAIN ms : MapSound(ms[k]) /\ \A p \in PagesIn(ms[k]) : prot[p] = ms[k].prot
  BY <1>3, MapAtSound DEF DumpIInv
<1>6. DumpShape'
  <2>1. dump' \in DumpRecords
    <3>1. <<>> \in Seq(Nat)
      OBVIOUS
    <3> QED
      BY <1>4, <3>1 DEF DumpRecords
  <2>2. MapsBehind' = 0
    BY <1>4 DEF MapsBehind
  <2>3. \A i \in DOMAIN ms : MapSound(ms[i])'
    BY <1>5 DEF MapSound, PagesIn, MapRecords, Pages, Mapped, RWX
  <2> QED
    BY <1>1, <1>4, <2>1, <2>2, <2>3 DEF DumpShape, DumpIInv
<1>7. OutSoFar'
  <2>1. MapsBehind' = 0 /\ MapsOut' = 0 /\ OutTo' = address
    BY <1>4 DEF MapsBehind, MapsOut, OutTo
  <2> QED
    BY <1>4, <2>1 DEF OutSoFar
<1>8. RightsKept'
  <2> SUFFICES ASSUME NonePatched'
               PROVE  /\ \A i \in DOMAIN ms : \A p \in PagesIn(ms[i]) : ms[i].prot = Perms[p]
                      /\ \A p \in Pages : prot[p] = Perms[p]
    BY <1>1, <1>4 DEF RightsKept, MadeReadable, PagesIn, Pages
  <2>1. \A p \in Pages : prot[p] = Perms[p]
    BY <1>1 DEF DumpIInv, RightsKept, MadeReadable
  <2>2. ASSUME NEW i \in DOMAIN ms, NEW p \in PagesIn(ms[i]) PROVE ms[i].prot = Perms[p]
    <3>1. p \in Pages /\ prot[p] = ms[i].prot
      BY <1>5 DEF MapSound, Mapped
    <3> QED
      BY <2>1, <3>1
  <2> QED
    BY <2>1, <2>2
<1>9. DumpOfOneFile'
  BY <1>4 DEF DumpOfOneFile, Mapped, Pages, PageOf
<1> QED
  BY <1>1, <1>6, <1>7, <1>8, <1>9 DEF DumpIInv

(* A dump by name begins with the first map and ends with the last that is *)
(* joined to it.                                                           *)
LEMMA NamedRange ==
    ASSUME MemoryIInv, getAllMaps # <<>>
    PROVE  LET address == StartOf(getAllMaps[1])  size == FileEnd(getAllMaps) - address IN
           /\ address \in Nat /\ size \in Int
           /\ \A a \in address .. address + size - 1 :
                 Mapped(PageOf(a)) /\ Files[PageOf(a)] = Files[PageOf(address)]
<1> SUFFICES ASSUME NEW ms, ms = getAllMaps, NEW address, address = StartOf(ms[1])
             PROVE  LET size == FileEnd(ms) - address IN
                    /\ address \in Nat /\ size \in Int
                    /\ \A a \in address .. address + size - 1 :
                          Mapped(PageOf(a)) /\ Files[PageOf(a)] = Files[PageOf(address)]
  OBVIOUS
<1>1. ms \in Seq(MapRecords) /\ \A k \in DOMAIN ms : MapSound(ms[k])
  <2>1. \A k \in DOMAIN ms : \E i \in RunStarts : ms[k] = MapAt(i)
    BY MapsSound DEF getAllMaps
  <2>2. \A i \in RunStarts : MapSound(MapAt(i))
    BY MapAtSound
  <2>3. ms \in Seq(MapRecords)
    BY MapsSound DEF getAllMaps
  <2> QED
    BY <2>1, <2>2, <2>3
<1>2. 1 \in DOMAIN ms /\ Len(ms) \in Nat /\ DOMAIN ms = 1 .. Len(ms)
  BY <1>1
<1>3. \E n \in DOMAIN ms : Joined(ms, n) /\ FileEnd(ms) = EndOf(ms[n])
  <2>1. Joined(ms, 1)
    BY DEF Joined
  <2>2. CASE Len(ms) <= 2
    BY <1>2, <2>1, <2>2 DEF FileEnd
  <2>3. CASE ~(Len(ms) <= 2)
    <3>1. \E n \in DOMAIN ms : Joined(ms, n) /\ (n = Len(ms) \/ ~Joined(ms, n + 1))
      <4> DEFINE apart == {k \in 1 .. Len(ms) : ~Joined(ms, k)}
      <4>1. CASE apart = {}
        <5>1. Len(ms) \in DOMAIN ms /\ Joined(ms, Len(ms))
          BY <1>2, <4>1
        <5> QED
          BY <5>1
      <4>2. CASE apart # {}
        <5>1. apart \subseteq Nat
          OBVIOUS
        <5>2. PICK k \in apart : \A i \in apart : k <= i
          BY <4>2, <5>1, LeastNat
        <5>3. k \in 1 .. Len(ms) /\ ~Joined(ms, k) /\ k # 1
          BY <2>1
        <5>4. k - 1 \in 1 .. Len(ms) /\ (k - 1) + 1 = k /\ ~(k <= k - 1)
          BY <5>3
        <5>5. Joined(ms, k - 1)
          BY <5>2, <5>4
        <5> HIDE DEF apart
        <5> QED
          BY <1>2, <5>3, <5>4, <5>5
      <4> QED
        BY <4>1, <4>2
    <3> DEFINE n == CHOOSE n \in DOMAIN ms : Joined(ms, n) /\ (n = Len(ms) \/ ~Joined(ms, n + 1))
    <3>2. n \in DOMAIN ms /\ Joined(ms, n)
      BY <3>1, Zenon
    <3>3. FileEnd(ms) = EndOf(ms[n])
      BY <2>3 DEF FileEnd
    <3> HIDE DEF n
    <3> QED
      BY <3>2, <3>3
  <2> QED
    BY <2>2, <2>3
<1>4. PICK n \in DOMAIN ms : Joined(ms, n) /\ FileEnd(ms) = EndOf(ms[n])
  BY <1>3
<1>5. /\ address \in Nat \ {0} /\ EndOf(ms[1]) \in Nat /\ address < EndOf(ms[1])
      /\ EndOf(ms[n]) \in Nat
  BY <1>1, <1>2, MapNotEmpty
<1>6. address \in StartOf(ms[1]) .. EndOf(ms[1]) - 1
  BY <1>5
<1>7. Files[PageOf(address)] = ms[1].file
  BY <1>1, <1>2, <1>6, MapAddresses DEF MapSound
<1>8. \A a \in StartOf(ms[1]) .. EndOf(ms[n]) - 1 : Mapped(PageOf(a)) /\ Files[PageOf(a)] = ms[1].file
  BY <1>1, <1>4, JoinedRange
<1>9. address + (FileEnd(ms) - address) - 1 = EndOf(ms[n]) - 1 /\ FileEnd(ms) - address \in Int
  BY <1>4, <1>5
<1> QED
  BY <1>5, <1>7, <1>8, <1>9

-----------------------------------------------------------------------------
(* What is left of some things is behind those that are done. *)
LEMMA DoneBefore ==
    ASSUME NEW all \in Nat, NEW left \in Nat, NEW done, done = all - left, done >= 0, left # 0
    PROVE  done \in Nat /\ done + 1 \in 1 .. all /\ (done # 0 => done \in 1 .. all - 1) /\ all - (left - 1) = done + 1
OBVIOUS

(* The map a dump is at. *)
LEMMA CurrentMap ==
    ASSUME DumpShape, dump.todo # <<>>
    PROVE  /\ Head(dump.todo) = dump.todo[1] /\ MapSound(dump.todo[1])
           /\ MapsBehind \in Nat /\ MapsBehind + 1 \in DOMAIN dump.maps
           /\ dump.todo[1] = dump.maps[MapsBehind + 1]
           /\ Contiguous => StartOf(dump.todo[1]) = (IF MapsBehind = 0 THEN dump.address ELSE EndOf(dump.maps[MapsBehind]))
<1>1. dump.todo \in Seq(MapRecords) /\ dump.maps \in Seq(MapRecords)
  BY DEF DumpShape, DumpRecords
<1> SUFFICES ASSUME NEW todo, todo = dump.todo, NEW maps, maps = dump.maps, NEW k, k = MapsBehind
             PROVE  /\ Head(todo) = todo[1] /\ MapSound(todo[1]) /\ k \in Nat /\ k + 1 \in DOMAIN maps
                    /\ todo[1] = maps[k + 1]
                    /\ Contiguous => StartOf(todo[1]) = (IF k = 0 THEN dump.address ELSE EndOf(maps[k]))
  OBVIOUS
<1>2. /\ Len(todo) \in Nat /\ Len(todo) # 0 /\ Len(maps) \in Nat /\ 1 \in DOMAIN todo /\ Head(todo) = todo[1]
      /\ DOMAIN maps = 1 .. Len(maps)
  BY <1>1
<1>3. k = Len(maps) - Len(todo) /\ k >= 0 /\ todo[1] = maps[k + 1]
  BY <1>2 DEF DumpShape, MapsBehind
<1>4. k \in Nat /\ k + 1 \in 1 .. Len(maps) /\ (k # 0 => k \in 1 .. Len(maps) - 1)
  BY <1>2, <1>3, DoneBefore
<1>5. MapSound(maps[k + 1])
  BY <1>2, <1>4 DEF DumpShape
<1>6. ASSUME Contiguous PROVE StartOf(todo[1]) = (IF k = 0 THEN dump.address ELSE EndOf(maps[k]))
  <2>1. CASE k = 0
    <3>1. StartOf(maps[1]) = dump.address
      BY <1>6 DEF Contiguous
    <3>2. k + 1 = 1
      BY <2>1
    <3>3. todo[1] = maps[1]
      BY <1>3, <3>2
    <3> QED
      BY <2>1, <3>1, <3>3
  <2>2. CASE k # 0
    <3>1. k \in 1 .. Len(maps) - 1
      BY <1>4, <2>2
    <3>2. EndOf(maps[k]) = StartOf(maps[k + 1])
      BY <1>6, <3>1 DEF Contiguous
    <3> QED
      BY <1>3, <2>2, <3>2
  <2> QED
    BY <2>1, <2>2
<1> QED
  BY <1>2, <1>3, <1>4, <1>5, <1>6

(* The rest of the maps, when one is done. *)
LEMMA NextMap ==
    ASSUME DumpShape, dump.todo # <<>>, NEW rest, rest = Tail(dump.todo)
    PROVE  /\ rest \in Seq(MapRecords) /\ Len(dump.maps) - Len(rest) = MapsBehind + 1
           /\ \A i \in DOMAIN rest : rest[i] = dump.maps[(MapsBehind + 1) + i]
<1>1. dump.todo \in Seq(MapRecords) /\ dump.maps \in Seq(MapRecords)
  BY DEF DumpShape, DumpRecords
<1> SUFFICES ASSUME NEW todo, todo = dump.todo, NEW maps, maps = dump.maps, NEW k, k = MapsBehind
             PROVE  /\ rest \in Seq(MapRecords) /\ Len(maps) - Len(rest) = k + 1
                    /\ \A i \in DOMAIN rest : rest[i] = maps[(k + 1) + i]
  OBVIOUS
<1>2. rest \in Seq(MapRecords) /\ Len(rest) = Len(todo) - 1 /\ \A i \in 1 .. Len(rest) : rest[i] = todo[i + 1]
  BY <1>1, HeadTailProperties, Zenon
<1>3. Len(todo) \in Nat /\ Len(todo) # 0 /\ Len(maps) \in Nat /\ DOMAIN todo = 1 .. Len(todo) /\ DOMAIN rest = 1 .. Len(rest)
  BY <1>1, <1>2
<1>4. k = Len(maps) - Len(todo) /\ k >= 0
  BY DEF DumpShape, MapsBehind
<1>5. k \in Nat /\ Len(maps) - (Len(todo) - 1) = k + 1
  BY <1>3, <1>4, DoneBefore
<1>6. \A i \in DOMAIN todo : todo[i] = maps[k + i]
  BY DEF DumpShape
<1>7. \A i \in DOMAIN rest : rest[i] = maps[(k + 1) + i]
  <2> SUFFICES ASSUME NEW i \in DOMAIN rest PROVE rest[i] = maps[(k + 1) + i]
    OBVIOUS
  <2>1. i \in 1 .. Len(rest) /\ i \in Nat
    BY <1>3
  <2>2. i + 1 \in DOMAIN todo
    BY <1>2, <1>3, <2>1
  <2>3. k + (i + 1) = (k + 1) + i
    BY <1>5, <2>1
  <2>4. todo[i + 1] = maps[k + (i + 1)]
    BY <1>6, <2>2
  <2> QED
    BY <1>2, <2>1, <2>3, <2>4
<1> QED
  BY <1>2, <1>5, <1>7

(* The file after more bytes, or as many as fit on the disk. *)
LEMMA AppendedShape ==
    ASSUME DumpShape, NEW bytes \in Seq(Nat), Len(bytes) > 0, NEW d \in Appended(bytes)
    PROVE  /\ d \in DumpRecords /\ d.at = dump.at /\ d.address = dump.address /\ d.size = dump.size
           /\ d.todo = dump.todo /\ d.maps = dump.maps /\ d.named = dump.named
           /\ ~d.full => ~dump.full /\ Len(d.out) = Len(dump.out) + Len(bytes)
           /\ dump.full => d = dump
           /\ \A i \in DOMAIN d.out : \/ i \in DOMAIN dump.out /\ d.out[i] = dump.out[i]
                                      \/ \E k \in DOMAIN bytes : i = Len(dump.out) + k /\ d.out[i] = bytes[k]
<1>1. dump \in DumpRecords /\ dump.out \in Seq(Nat) /\ dump.full \in BOOLEAN
  BY DEF DumpShape, DumpRecords
<1>2. CASE dump.full
  <2>1. d = dump
    BY <1>2 DEF Appended
  <2> QED
    BY <1>1, <1>2, <2>1
<1>3. ASSUME ~dump.full, NEW piece \in Seq(Nat), NEW full \in BOOLEAN, ~full => piece = bytes,
             \A k \in DOMAIN piece : k \in DOMAIN bytes /\ piece[k] = bytes[k],
             d = [dump EXCEPT !.out = dump.out \o piece, !.full = full]
      PROVE  /\ d \in DumpRecords /\ d.at = dump.at /\ d.address = dump.address /\ d.size = dump.size
             /\ d.todo = dump.todo /\ d.maps = dump.maps /\ d.named = dump.named
             /\ ~d.full => ~dump.full /\ Len(d.out) = Len(dump.out) + Len(bytes)
             /\ dump.full => d = dump
             /\ \A i \in DOMAIN d.out : \/ i \in DOMAIN dump.out /\ d.out[i] = dump.out[i]
                                        \/ \E k \in DOMAIN bytes : i = Len(dump.out) + k /\ d.out[i] = bytes[k]
  <2> SUFFICES ASSUME NEW o \in Seq(Nat), o = dump.out, NEW e, e = o \o piece
               PROVE  /\ d \in DumpRecords /\ d.at = dump.at /\ d.address = dump.address /\ d.size = dump.size
                      /\ d.todo = dump.todo /\ d.maps = dump.maps /\ d.named = dump.named
                      /\ ~d.full => ~dump.full /\ Len(d.out) = Len(o) + Len(bytes)
                      /\ dump.full => d = dump
                      /\ \A i \in DOMAIN d.out : \/ i \in DOMAIN o /\ d.out[i] = o[i]
                                                 \/ \E k \in DOMAIN bytes : i = Len(o) + k /\ d.out[i] = bytes[k]
    BY <1>1
  <2>1. e \in Seq(Nat) /\ Len(e) = Len(o) + Len(piece)
    BY <1>3
  <2>2. /\ d \in DumpRecords /\ d.at = dump.at /\ d.address = dump.address /\ d.size = dump.size
        /\ d.todo = dump.todo /\ d.maps = dump.maps /\ d.named = dump.named /\ d.out = e /\ d.full = full
    BY <1>1, <1>3, <2>1 DEF DumpRecords
  <2>3. ASSUME NEW i \in DOMAIN e
        PROVE  \/ i \in DOMAIN o /\ e[i] = o[i]
               \/ \E k \in DOMAIN bytes : i = Len(o) + k /\ e[i] = bytes[k]
    <3>1. i \in 1 .. Len(o) + Len(piece) /\ Len(o) \in Nat /\ Len(piece) \in Nat
      BY <1>3, <2>1
    <3>2. CASE i <= Len(o)
      BY <1>3, <3>1, <3>2
    <3>3. CASE ~(i <= Len(o))
      <4> SUFFICES ASSUME NEW a, a = Len(o), NEW b, b = Len(piece)
                   PROVE  \E k \in DOMAIN bytes : i = Len(o) + k /\ e[i] = bytes[k]
        OBVIOUS
      <4>1. i - Len(o) \in 1 .. Len(piece) /\ i = Len(o) + (i - Len(o))
        <5>1. a \in Nat /\ b \in Nat /\ i \in 1 .. a + b /\ ~(i <= a)
          BY <3>1, <3>3
        <5>2. i - a \in 1 .. b /\ i = a + (i - a)
          BY <5>1
        <5> QED
          BY <5>2
      <4>2. e[i] = piece[i - Len(o)]
        BY <1>3, <3>1, <3>3
      <4>3. i - Len(o) \in DOMAIN piece
        BY <1>3, <4>1
      <4> QED
        BY <1>3, <4>1, <4>2, <4>3
    <3> QED
      BY <3>2, <3>3
  <2>4. ~d.full => ~dump.full /\ Len(d.out) = Len(o) + Len(bytes)
    <3>1. ~d.full => piece = bytes
      BY <1>3, <2>2
    <3> QED
      BY <1>3, <2>1, <2>2, <3>1
  <2>5. \A i \in DOMAIN d.out : \/ i \in DOMAIN o /\ d.out[i] = o[i]
                                \/ \E k \in DOMAIN bytes : i = Len(o) + k /\ d.out[i] = bytes[k]
    <3>1. d.out = e
      BY <2>2
    <3> QED
      BY <2>3, <3>1, Zenon
  <2> QED
    BY <1>3, <2>2, <2>4, <2>5
<1>4. CASE ~dump.full /\ d = [dump EXCEPT !.out = dump.out \o bytes]
  <2>1. d = [dump EXCEPT !.out = dump.out \o bytes, !.full = FALSE]
    BY <1>1, <1>4 DEF DumpRecords
  <2> QED
    BY <1>3, <1>4, <2>1
<1>5. ASSUME ~dump.full, NEW n \in {0, Len(bytes) - 1}, d = [dump EXCEPT !.out = dump.out \o SubSeq(bytes, 1, n), !.full = TRUE]
      PROVE  /\ d \in DumpRecords /\ d.at = dump.at /\ d.address = dump.address /\ d.size = dump.size
             /\ d.todo = dump.todo /\ d.maps = dump.maps /\ d.named = dump.named
             /\ ~d.full => ~dump.full /\ Len(d.out) = Len(dump.out) + Len(bytes)
             /\ dump.full => d = dump
             /\ \A i \in DOMAIN d.out : \/ i \in DOMAIN dump.out /\ d.out[i] = dump.out[i]
                                        \/ \E k \in DOMAIN bytes : i = Len(dump.out) + k /\ d.out[i] = bytes[k]
  <2>1. n \in Nat /\ n <= Len(bytes) /\ Len(bytes) \in Nat
    BY <1>5
  <2> SUFFICES ASSUME NEW piece, piece = SubSeq(bytes, 1, n)
               PROVE  /\ d \in DumpRecords /\ d.at = dump.at /\ d.address = dump.address /\ d.size = dump.size
                      /\ d.todo = dump.todo /\ d.maps = dump.maps /\ d.named = dump.named
                      /\ ~d.full => ~dump.full /\ Len(d.out) = Len(dump.out) + Len(bytes)
                      /\ dump.full => d = dump
                      /\ \A i \in DOMAIN d.out : \/ i \in DOMAIN dump.out /\ d.out[i] = dump.out[i]
                                                 \/ \E k \in DOMAIN bytes : i = Len(dump.out) + k /\ d.out[i] = bytes[k]
    OBVIOUS
  <2>2. piece \in Seq(Nat) /\ \A k \in DOMAIN piece : k \in DOMAIN bytes /\ piece[k] = bytes[k]
    <3>1. piece \in Seq(Nat) /\ Len(piece) = n /\ \A k \in 1 .. n : piece[k] = bytes[k]
      BY <2>1
    <3>2. 1 .. n \subseteq DOMAIN bytes
      BY <2>1
    <3> QED
      BY <3>1, <3>2
  <2>3. d = [dump EXCEPT !.out = dump.out \o piece, !.full = TRUE]
    BY <1>5
  <2> QED
    BY <1>3, <1>5, <2>2, <2>3
<1> QED
  BY <1>2, <1>4, <1>5 DEF Appended

-----------------------------------------------------------------------------
(* What an address can hold is a byte. *)
LEMMA HoldsBytes ==
    ASSUME NEW a \in Addresses
    PROVE  Holds(a) \subseteq Nat /\ 0 \in Holds(a)
<1>1. a \in Nat /\ Start[a] = a
  BY DEF Addresses, Start
<1>2. ASSUME NEW x \in Patches, a \in Extent(x) PROVE Code[x][a - Site[x] + 1] \in Nat
  <2>1. Code[x] \in Seq(Nat) /\ Site[x] \in Nat /\ Len(Code[x]) \in Nat /\ DOMAIN Code[x] = 1 .. Len(Code[x])
    BY CodeShape
  <2>2. a \in Site[x] .. Site[x] + Len(Code[x]) - 1
    BY <1>2 DEF Extent
  <2>3. a - Site[x] + 1 \in 1 .. Len(Code[x])
    BY <2>1, <2>2, OffsetInRange
  <2> QED
    BY <2>1, <2>3
<1> QED
  BY <1>1, <1>2 DEF Holds

(* The addresses of a map, in order. *)
LEMMA CellsShape ==
    ASSUME NEW m, MapSound(m)
    PROVE  /\ Cells(m) \in Seq(Nat) /\ Len(Cells(m)) \in Nat \ {0} /\ StartOf(m) \in Nat
           /\ StartOf(m) + Len(Cells(m)) = EndOf(m) /\ DOMAIN Cells(m) = 1 .. Len(Cells(m))
           /\ \A k \in 1 .. Len(Cells(m)) : Cells(m)[k] = StartOf(m) + k - 1 /\ Cells(m)[k] \in Addresses
<1> SUFFICES ASSUME NEW s, s = StartOf(m), NEW e, e = EndOf(m), NEW cells, cells = Cells(m), NEW n, n = e - s
             PROVE  /\ cells \in Seq(Nat) /\ Len(cells) \in Nat \ {0} /\ s \in Nat
                    /\ s + Len(cells) = e /\ DOMAIN cells = 1 .. Len(cells)
                    /\ \A k \in 1 .. Len(cells) : cells[k] = s + k - 1 /\ cells[k] \in Addresses
  OBVIOUS
<1>1. s \in Nat \ {0} /\ e \in Nat /\ s < e
  BY MapNotEmpty
<1>2. n \in Nat \ {0} /\ s + n = e
  BY <1>1
<1>3. cells = [i \in 1 .. n |-> s + i - 1]
  BY DEF Cells
<1>4. \A k \in 1 .. n : s + k - 1 \in s .. e - 1 /\ s + k - 1 \in Nat
  BY <1>1, <1>2
<1>5. cells \in Seq(Nat) /\ Len(cells) = n /\ DOMAIN cells = 1 .. n
  BY <1>2, <1>3, <1>4
<1>6. ASSUME NEW k \in 1 .. n PROVE cells[k] = s + k - 1 /\ cells[k] \in Addresses
  <2>1. cells[k] = s + k - 1
    BY <1>3
  <2>2. s + k - 1 \in Addresses
    BY <1>4, MapAddresses
  <2> QED
    BY <2>1, <2>2
<1> QED
  BY <1>1, <1>2, <1>5, <1>6

(* What is written of a map before it is padded: a beginning of its bytes. *)
LEMMA WrittenShape ==
    ASSUME NEW m, MapSound(m)
    PROVE  \E n \in 0 .. Len(Cells(m)) : Written(m) = [i \in 1 .. n |-> mem[Cells(m)[i]]]
<1> SUFFICES ASSUME NEW cells, cells = Cells(m)
             PROVE  \E n \in 0 .. Len(cells) : Written(m) = [i \in 1 .. n |-> mem[cells[i]]]
  OBVIOUS
<1>1. Len(cells) \in Nat
  BY CellsShape
<1> DEFINE I == {i \in 1 .. Len(cells) : ~Readable(cells[i])}
           bad == IF I # {} THEN Min(I) ELSE 0
<1>2. Written(m) = [i \in 1 .. (IF bad = 0 THEN Len(cells) ELSE bad - 1) |-> mem[cells[i]]]
  BY DEF Written, SelectInSeq
<1>3. bad \in 0 .. Len(cells)
  <2>1. CASE I = {}
    BY <1>1, <2>1
  <2>2. CASE I # {}
    <3>1. I \subseteq Nat
      BY <1>1
    <3>2. \E x \in I : \A y \in I : x <= y
      BY <2>2, <3>1, LeastNat
    <3>3. Min(I) \in I
      BY <3>2, Zenon DEF Min
    <3> QED
      BY <1>1, <2>2, <3>3
  <2> QED
    BY <2>1, <2>2
<1>4. (IF bad = 0 THEN Len(cells) ELSE bad - 1) \in 0 .. Len(cells)
  <2> HIDE DEF bad
  <2> QED
    BY <1>1, <1>3
<1> HIDE DEF bad
<1> QED
  BY <1>2, <1>4

(* The bytes of a map in a dump are as many as it has addresses, each what *)
(* its address can hold.                                                   *)
BytesOf(m, bytes) ==
    /\ bytes \in Seq(Nat) /\ Len(bytes) > 0 /\ StartOf(m) + Len(bytes) = EndOf(m)
    /\ \A k \in DOMAIN bytes : bytes[k] \in Holds(StartOf(m) + k - 1)

(* A table over the first numbers is a sequence. *)
LEMMA TableSeq == ASSUME NEW S, NEW n \in Nat, NEW p \in [1 .. n -> S] PROVE p \in Seq(S) /\ Len(p) = n
BY LenProperties

(* Bytes of memory, with zeros behind them, are bytes of the map. *)
LEMMA FilledShape ==
    ASSUME BytesPossible, NEW m, MapSound(m), NEW n \in 0 .. Len(Cells(m)), NEW piece,
           piece = [i \in 1 .. n |-> mem[Cells(m)[i]]]
    PROVE  BytesOf(m, piece \o Zeros(Len(Cells(m)) - Len(piece)))
<1> SUFFICES ASSUME NEW s, s = StartOf(m), NEW l, l = Len(Cells(m)), NEW z, z = Zeros(l - n), NEW e, e = piece \o z
             PROVE  Len(piece) = n /\ e \in Seq(Nat) /\ Len(e) > 0 /\ s + Len(e) = EndOf(m)
                    /\ \A k \in DOMAIN e : e[k] \in Holds(s + k - 1)
  BY DEF BytesOf
<1>1. l \in Nat \ {0} /\ n \in 0 .. l /\ s \in Nat /\ s + l = EndOf(m)
  BY CellsShape
<1>2. \A k \in 1 .. l : Cells(m)[k] = s + k - 1 /\ s + k - 1 \in Addresses
  BY CellsShape
<1>3. \A k \in 1 .. l : /\ mem[Cells(m)[k]] \in Holds(s + k - 1) /\ mem[Cells(m)[k]] \in Nat
                        /\ 0 \in Holds(s + k - 1)
  BY <1>2, HoldsBytes DEF BytesPossible
<1>4. n \in Nat /\ l - n \in Nat /\ n + (l - n) = l /\ 1 .. n \subseteq 1 .. l
  BY <1>1
<1>5. piece \in Seq(Nat) /\ Len(piece) = n /\ \A k \in 1 .. n : piece[k] \in Holds(s + k - 1)
  <2>1. piece \in [1 .. n -> Nat] /\ \A k \in 1 .. n : piece[k] \in Holds(s + k - 1)
    BY <1>3, <1>4
  <2>2. piece \in Seq(Nat) /\ Len(piece) = n
    BY <1>4, <2>1, TableSeq
  <2> QED
    BY <2>1, <2>2
<1>6. z \in Seq(Nat) /\ Len(z) = l - n /\ \A k \in 1 .. l - n : z[k] = 0
  <2> SUFFICES ASSUME NEW r \in Nat, r = l - n PROVE z \in Seq(Nat) /\ Len(z) = r /\ \A k \in 1 .. r : z[k] = 0
    BY <1>4
  <2>1. z = [i \in 1 .. r |-> 0]
    BY DEF Zeros
  <2> QED
    BY <2>1
<1>7. e \in Seq(Nat) /\ Len(e) = l /\ DOMAIN e = 1 .. l
  BY <1>4, <1>5, <1>6
<1>8. ASSUME NEW k \in 1 .. l PROVE e[k] \in Holds(s + k - 1)
  <2>1. CASE k <= n
    <3>1. k \in 1 .. n
      BY <1>1, <1>4, <2>1
    <3>2. e[k] = piece[k]
      BY <1>4, <1>5, <1>6, <3>1
    <3> QED
      BY <1>5, <3>1, <3>2
  <2>2. CASE ~(k <= n)
    <3>1. k - n \in 1 .. l - n /\ k \in n + 1 .. n + (l - n)
      BY <1>1, <1>4, <2>2, SMTT(60)
    <3>2. e[k] = z[k - n]
      BY <1>4, <1>5, <1>6, <3>1, SMTT(60)
    <3> QED
      BY <1>3, <1>6, <3>1, <3>2
  <2> QED
    BY <2>1, <2>2
<1> QED
  BY <1>1, <1>5, <1>7, <1>8, SMTT(60)

(* What is written of a map that can be read, and of one that cannot.      *)
LEMMA PaddedShape ==
    ASSUME BytesPossible, NEW m, MapSound(m)
    PROVE  BytesOf(m, Padded(Written(m), m)) /\ BytesOf(m, Zeros(Len(Cells(m))))
<1>1. Len(Cells(m)) \in Nat
  BY CellsShape
<1>2. BytesOf(m, Padded(Written(m), m))
  <2>1. PICK n \in 0 .. Len(Cells(m)) : Written(m) = [i \in 1 .. n |-> mem[Cells(m)[i]]]
    BY WrittenShape
  <2> QED
    BY <2>1, FilledShape DEF Padded
<1>3. BytesOf(m, Zeros(Len(Cells(m))))
  <2> SUFFICES ASSUME NEW piece, piece = [i \in 1 .. 0 |-> mem[Cells(m)[i]]], NEW l \in Nat, l = Len(Cells(m))
               PROVE  BytesOf(m, Zeros(l))
    BY <1>1
  <2>1. BytesOf(m, piece \o Zeros(l - Len(piece)))
    <3>1. 0 \in 0 .. Len(Cells(m))
      BY <1>1
    <3>2. BytesOf(m, piece \o Zeros(Len(Cells(m)) - Len(piece)))
      BY <3>1, FilledShape
    <3> QED
      BY <3>2
  <2>2. piece = <<>> /\ Len(piece) = 0
    OBVIOUS
  <2>3. Zeros(l) \in Seq(Nat)
    BY DEF Zeros
  <2>4. piece \o Zeros(l - Len(piece)) = Zeros(l)
    BY <2>2, <2>3
  <2> QED
    BY <2>1, <2>4
<1> QED
  BY <1>2, <1>3

-----------------------------------------------------------------------------
(* A dump goes on with the same maps, or with the next one. *)
LEMMA DumpMoves ==
    ASSUME DumpShape, dump.todo # <<>>, dump' \in DumpRecords, dump'.maps = dump.maps, vm' = vm,
           \/ dump'.todo = dump.todo /\ dump'.at \in {"write", "revert"}
           \/ dump'.todo = Tail(dump.todo) /\ dump'.at = "next"
    PROVE  DumpShape' /\ MapsBehind' = (IF dump'.at = "next" THEN MapsBehind + 1 ELSE MapsBehind)
<1>1. MapsBehind \in Nat /\ vm = NoCopy
  BY CurrentMap DEF DumpShape
<1>2. \A i \in DOMAIN dump'.maps : MapSound(dump.maps[i])'
  BY DEF DumpShape, MapSound, PagesIn, MapRecords, Pages, Mapped, RWX
<1>3. dump'.at \notin {"idle", "done"}
  OBVIOUS
<1>4. CASE dump'.todo = dump.todo /\ dump'.at \in {"write", "revert"}
  <2>1. MapsBehind' = MapsBehind
    BY <1>4 DEF MapsBehind
  <2> QED
    BY <1>1, <1>2, <1>3, <1>4, <2>1 DEF DumpShape
<1>5. CASE dump'.todo = Tail(dump.todo) /\ dump'.at = "next"
  <2>1. MapsBehind' = MapsBehind + 1 /\ \A i \in DOMAIN dump'.todo : dump'.todo[i] = dump.maps[(MapsBehind + 1) + i]
    <3>1. /\ Len(dump.maps) - Len(Tail(dump.todo)) = MapsBehind + 1
          /\ \A i \in DOMAIN Tail(dump.todo) : Tail(dump.todo)[i] = dump.maps[(MapsBehind + 1) + i]
      BY NextMap
    <3>2. MapsBehind' = Len(dump'.maps) - Len(dump'.todo)
      BY DEF MapsBehind
    <3>3. dump'.todo = Tail(dump.todo)
      BY <1>5
    <3> QED
      BY <3>1, <3>2, <3>3, Zenon
  <2>2. MapsBehind + 1 >= 0
    BY <1>1
  <2>3. \A i \in DOMAIN dump'.todo : dump'.todo[i] = dump'.maps[MapsBehind' + i]
    BY <2>1
  <2> QED
    BY <1>1, <1>2, <1>3, <1>5, <2>1, <2>2, <2>3 DEF DumpShape
<1> QED
  BY <1>4, <1>5

(* Whether the maps follow one another does not change while it runs. *)
LEMMA ContiguousStays ==
    ASSUME dump'.maps = dump.maps, dump'.address = dump.address
    PROVE  Contiguous' <=> Contiguous
BY DEF Contiguous, StartOf, EndOf

(* What the file of a dump must hold after a step. *)
LEMMA OutThen ==
    ASSUME NEW address, address = dump'.address, NEW out, out = dump'.out, NEW to, to = OutTo',
           Contiguous' => /\ \A i \in DOMAIN out : out[i] \in Holds(address + i - 1)
                          /\ ~dump'.full => address + Len(out) = to
    PROVE  OutSoFar'
BY ZenonT(60) DEF OutSoFar, Holds, Start, Addresses, Extent

(* Places in a file, counted from the address of its first byte. *)
LEMMA InFile == \A a, l, j \in Nat : (a + l) + j = a + (l + j) /\ (a + l) + j - 1 = a + (l + j) - 1
OBVIOUS

(* The bytes of one more map are out. *)
LEMMA OutGrows ==
    ASSUME DumpShape, OutSoFar, dump.todo # <<>>, dump.at \in {"next", "write"},
           NEW bytes, BytesOf(dump.todo[1], bytes), NEW d \in Appended(bytes),
           dump'.maps = dump.maps, dump'.address = dump.address, dump'.out = d.out, dump'.full = d.full,
           MapsOut' = MapsBehind + 1
    PROVE  OutSoFar'
<1> SUFFICES ASSUME NEW address \in Nat, address = dump.address, NEW m, m = dump.todo[1], NEW maps, maps = dump.maps,
                    NEW k \in Nat, k = MapsBehind, NEW l \in Nat, l = Len(dump.out), Contiguous
             PROVE  /\ \A i \in DOMAIN d.out : d.out[i] \in Holds(address + i - 1)
                    /\ ~d.full => address + Len(d.out) = EndOf(maps[k + 1])
  <2>1. dump.address \in Nat /\ MapsBehind \in Nat /\ Len(dump.out) \in Nat /\ (Contiguous' <=> Contiguous)
    BY CurrentMap, ContiguousStays DEF DumpShape, DumpRecords
  <2>2. MapsBehind + 1 # 0
    BY <2>1
  <2>3. OutTo' = EndOf(dump.maps[MapsBehind + 1])
    BY <2>2 DEF OutTo, EndOf
  <2>4. Contiguous => /\ \A i \in DOMAIN d.out : d.out[i] \in Holds(dump.address + i - 1)
                      /\ ~d.full => dump.address + Len(d.out) = EndOf(dump.maps[MapsBehind + 1])
    BY <2>1
  <2> QED
    BY <2>1, <2>3, <2>4, OutThen
<1>1. /\ MapSound(m) /\ m = maps[k + 1]
      /\ StartOf(m) = (IF k = 0 THEN address ELSE EndOf(maps[k]))
  BY CurrentMap
<1>2. OutTo = StartOf(m)
  BY <1>1 DEF OutTo, MapsOut
<1>3. /\ \A i \in DOMAIN dump.out : dump.out[i] \in Holds(address + i - 1)
      /\ ~dump.full => address + l = StartOf(m)
  BY <1>2 DEF OutSoFar
<1>4. /\ bytes \in Seq(Nat) /\ Len(bytes) > 0 /\ StartOf(m) + Len(bytes) = EndOf(m)
      /\ \A j \in DOMAIN bytes : bytes[j] \in Holds(StartOf(m) + j - 1)
  BY DEF BytesOf
<1>5. /\ ~d.full => ~dump.full /\ Len(d.out) = l + Len(bytes)
      /\ dump.full => d = dump
      /\ \A i \in DOMAIN d.out : \/ i \in DOMAIN dump.out /\ d.out[i] = dump.out[i]
                                 \/ \E j \in DOMAIN bytes : i = l + j /\ d.out[i] = bytes[j]
  BY <1>4, AppendedShape
<1>6. dump.out \in Seq(Nat) /\ dump.full \in BOOLEAN
  BY DEF DumpShape, DumpRecords
<1>7. CASE dump.full
  <2>1. d = dump
    BY <1>5, <1>7
  <2> QED
    BY <1>3, <1>7, <2>1
<1>8. CASE ~dump.full
  <2> DEFINE old == dump.out
             out == d.out
             start == StartOf(m)
             end == EndOf(m)
  <2>1. /\ old \in Seq(Nat) /\ \A i \in DOMAIN old : old[i] \in Holds(address + i - 1)
        /\ address + Len(old) = start
    BY <1>3, <1>6, <1>8
  <2>2. /\ bytes \in Seq(Nat) /\ start + Len(bytes) = end
        /\ \A j \in DOMAIN bytes : bytes[j] \in Holds(start + j - 1)
    BY <1>4
  <2>3. \A i \in DOMAIN out : \/ i \in DOMAIN old /\ out[i] = old[i]
                              \/ \E j \in DOMAIN bytes : i = Len(old) + j /\ out[i] = bytes[j]
    BY <1>5
  <2>4. ~d.full => Len(out) = Len(old) + Len(bytes)
    BY <1>5
  <2>5. end = EndOf(maps[k + 1])
    BY <1>1
  <2> HIDE DEF old, out, start, end
  <2> DEFINE n == Len(old)
  <2>6. n \in Nat /\ address + n = start /\ Len(bytes) \in Nat /\ \A j \in DOMAIN bytes : j \in Nat
    BY <2>1, <2>2, SMTT(60)
  <2> HIDE DEF n
  <2>7. ~d.full => address + Len(out) = end
    <3>1. (address + n) + Len(bytes) = address + (n + Len(bytes))
      BY <2>6, InFile
    <3>2. Len(out) = Len(old) + Len(bytes) => address + Len(out) = end
      BY <2>2, <2>6, <3>1, Zenon DEF n
    <3> QED
      BY <2>4, <3>2, Zenon
  <2>8. ASSUME NEW i \in DOMAIN out, NEW j \in DOMAIN bytes, i = Len(old) + j, out[i] = bytes[j]
        PROVE  out[i] \in Holds(address + i - 1)
    <3>1. (address + n) + j - 1 = address + (n + j) - 1
      BY <2>6, InFile
    <3>2. start + j - 1 = address + i - 1
      BY <2>6, <2>8, <3>1, Zenon DEF n
    <3>3. bytes[j] \in Holds(start + j - 1)
      BY <2>2
    <3> QED
      BY <2>8, <3>2, <3>3, Zenon
  <2>9. \A i \in DOMAIN out : out[i] \in Holds(address + i - 1)
    BY <2>1, <2>3, <2>8, Zenon
  <2> QED
    BY <2>5, <2>7, <2>9, Zenon DEF out
<1> QED
  BY <1>7, <1>8

(* No bytes are out yet that were not. *)
LEMMA OutStays ==
    ASSUME OutSoFar, dump'.maps = dump.maps, dump'.address = dump.address, dump'.out = dump.out,
           dump'.full = dump.full, MapsOut' = MapsOut
    PROVE  OutSoFar'
<1>1. Contiguous' <=> Contiguous
  BY ContiguousStays
<1>2. OutTo' = OutTo
  BY DEF OutTo, EndOf
<1>3. Contiguous => /\ \A i \in DOMAIN dump.out : dump.out[i] \in Holds(dump.address + i - 1)
                    /\ ~dump.full => dump.address + Len(dump.out) = OutTo
  BY DEF OutSoFar
<1> QED
  BY <1>1, <1>2, <1>3, OutThen

(* The range of a dump stays. *)
LEMMA RangeStays ==
    ASSUME DumpOfOneFile, dump'.named = dump.named, dump'.address = dump.address, dump'.size = dump.size
    PROVE  DumpOfOneFile'
BY DEF DumpOfOneFile, Mapped, Pages, PageOf

-----------------------------------------------------------------------------
(* The rights after a step, if no patch has been made. *)
LEMMA RightsThen ==
    ASSUME RightsKept, dump'.maps = dump.maps, NonePatched' => NonePatched,
           NonePatched => \A p \in Pages : prot'[p] = IF MadeReadable(p)' THEN Perms[p] \cup {"r"} ELSE Perms[p]
    PROVE  RightsKept'
<1>1. ASSUME NonePatched
      PROVE  \A i \in DOMAIN dump'.maps : \A p \in (PagesIn(dump.maps[i]))' : dump'.maps[i].prot = Perms[p]
  BY <1>1 DEF RightsKept, PagesIn
<1> QED
  BY <1>1 DEF RightsKept, PagesIn, Pages

(* The pages a dump has made readable are those of its map, if it could    *)
(* not be read, until the map is done.                                     *)
LEMMA ReadableThen ==
    ASSUME dump'.at \in {"next", "write", "revert"}, NEW m, dump'.at = "next" \/ dump'.todo[1] = m
    PROVE  \A p \in Pages : MadeReadable(p)' <=> dump'.at # "next" /\ "r" \notin m.prot /\ p \in PagesIn(m)
BY DEF MadeReadable, Lifted, PagesIn

(* A dump changes the rights of its map. *)
LEMMA RightsFromMap ==
    ASSUME DumpIInv, dump.todo # <<>>, NEW m, m = dump.todo[1], NEW rights \in {m.prot, m.prot \cup {"r"}},
           "r" \notin m.prot, memProtect(PagesIn(m), rights), op' = Disturb(Nil, PagesIn(m)),
           UNCHANGED <<mem, patch, fault, refused>>
    PROVE  /\ MemoryIInv' /\ BytesPossible' /\ (NonePatched' => NonePatched)
           /\ \A p \in Pages : prot'[p] = IF p \in PagesIn(m) THEN rights ELSE prot[p]
<1>1. MapSound(m)
  BY CurrentMap DEF DumpIInv
<1>2. /\ PagesIn(m) \in SUBSET Pages /\ rights \in SUBSET RWX /\ "w" \notin rights
  BY <1>1 DEF MapSound, MapRecords, Mapped, RWX
<1>3. MemoryIInv'
  BY <1>2, RightsGiven DEF DumpIInv
<1>4. BytesPossible'
  BY BytesPossibleStay DEF DumpIInv, Begun
<1> QED
  BY <1>3, <1>4 DEF NonePatched, memProtect

(* As long as no patch was made, the map has the rights of its pages. *)
LEMMA MapRights ==
    ASSUME DumpIInv, dump.todo # <<>>, NonePatched, NEW p \in PagesIn(dump.todo[1])
    PROVE  dump.todo[1].prot = Perms[p] /\ p \in Pages
<1>1. /\ MapSound(dump.todo[1]) /\ MapsBehind + 1 \in DOMAIN dump.maps
      /\ dump.todo[1] = dump.maps[MapsBehind + 1]
  BY CurrentMap DEF DumpIInv
<1>2. p \in PagesIn(dump.maps[MapsBehind + 1])
  BY <1>1
<1>3. dump.maps[MapsBehind + 1].prot = Perms[p]
  BY <1>1, <1>2 DEF DumpIInv, RightsKept
<1> QED
  BY <1>1, <1>3 DEF MapSound, Mapped

(* Before a map is done, and after it, the rights are the first ones. *)
LEMMA RightsBefore ==
    ASSUME DumpIInv, NonePatched, dump.at = "next", NEW p \in Pages
    PROVE  prot[p] = Perms[p]
BY DEF DumpIInv, RightsKept, MadeReadable

(* A dump goes on to write its map. *)
LEMMA MapBegun ==
    ASSUME DumpIInv, dump.at = "next", dump.todo # <<>>, dump' = [dump EXCEPT !.at = "write"], vm' = vm
    PROVE  DumpShape' /\ OutSoFar' /\ DumpOfOneFile' /\ dump'.maps = dump.maps /\ dump'.todo = dump.todo /\ dump'.at = "write"
<1>1. DumpShape /\ OutSoFar /\ DumpOfOneFile /\ dump \in DumpRecords
  BY DEF DumpIInv, DumpShape
<1>2. /\ dump' \in DumpRecords /\ dump'.at = "write" /\ dump'.maps = dump.maps /\ dump'.todo = dump.todo
      /\ dump'.address = dump.address /\ dump'.out = dump.out /\ dump'.full = dump.full
      /\ dump'.named = dump.named /\ dump'.size = dump.size
  BY <1>1 DEF DumpRecords
<1>3. DumpShape' /\ MapsBehind' = MapsBehind
  BY <1>1, <1>2, DumpMoves
<1>4. MapsOut' = MapsOut
  BY <1>2, <1>3 DEF MapsOut
<1> QED
  BY <1>1, <1>2, <1>3, <1>4, OutStays, RangeStays

(* A map that cannot be read is made readable, or filled in, or a map that *)
(* can be read is next.                                                    *)
LEMMA DumpMapInv == ASSUME DumpIInv, DumpMap PROVE DumpIInv'
<1> SUFFICES ASSUME NEW m, m = dump.todo[1] PROVE DumpIInv'
  OBVIOUS
<1>1. /\ dump.at = "next" /\ dump.todo # <<>> /\ Head(dump.todo) = m /\ vm' = vm /\ MapSound(m)
      /\ DumpShape /\ OutSoFar /\ BytesPossible /\ DumpOfOneFile /\ RightsKept /\ MemoryIInv /\ dump \in DumpRecords
  BY CurrentMap DEF DumpMap, DumpIInv, DumpShape
<1>2. CASE /\ "r" \notin m.prot /\ memProtect(PagesIn(m), m.prot \cup {"r"}) /\ op' = Disturb(Nil, PagesIn(m))
           /\ dump' = [dump EXCEPT !.at = "write"] /\ UNCHANGED <<mem, patch, fault, refused>>
  <2>1. /\ MemoryIInv' /\ BytesPossible' /\ (NonePatched' => NonePatched)
        /\ \A p \in Pages : prot'[p] = IF p \in PagesIn(m) THEN m.prot \cup {"r"} ELSE prot[p]
    BY <1>1, <1>2, RightsFromMap
  <2>2. DumpShape' /\ OutSoFar' /\ DumpOfOneFile' /\ dump'.maps = dump.maps /\ dump'.todo = dump.todo /\ dump'.at = "write"
    BY <1>1, <1>2, MapBegun
  <2>3. \A p \in Pages : MadeReadable(p)' <=> p \in PagesIn(m)
    BY <1>2, <2>2, ReadableThen
  <2>4. ASSUME NonePatched, NEW p \in Pages
        PROVE  prot'[p] = IF MadeReadable(p)' THEN Perms[p] \cup {"r"} ELSE Perms[p]
    <3>1. prot[p] = Perms[p]
      BY <1>1, <2>4, RightsBefore
    <3>2. p \in PagesIn(m) => m.prot = Perms[p]
      BY <1>1, <2>4, MapRights
    <3> QED
      BY <2>1, <2>3, <3>1, <3>2
  <2>5. RightsKept'
    BY <1>1, <2>1, <2>2, <2>4, RightsThen
  <2> QED
    BY <2>1, <2>2, <2>5 DEF DumpIInv
<1>3. ASSUME NEW d \in Appended(Zeros(Len(Cells(m)))), dump' = [d EXCEPT !.todo = Tail(@)], UNCHANGED memoryVars
      PROVE  DumpIInv'
  <2>1. MemoryIInv' /\ BytesPossible' /\ (NonePatched' => NonePatched) /\ prot' = prot
    BY <1>1, <1>3, MemoryUnchanged
  <2>2. BytesOf(m, Zeros(Len(Cells(m))))
    BY <1>1, PaddedShape
  <2>3. /\ d \in DumpRecords /\ d.at = dump.at /\ d.address = dump.address /\ d.size = dump.size
        /\ d.todo = dump.todo /\ d.maps = dump.maps /\ d.named = dump.named
    BY <1>1, <1>3, <2>2, AppendedShape DEF BytesOf
  <2>4. Tail(dump.todo) \in Seq(MapRecords)
    BY <1>1, NextMap
  <2>5. /\ dump' \in DumpRecords /\ dump'.at = "next" /\ dump'.maps = dump.maps /\ dump'.todo = Tail(dump.todo)
        /\ dump'.address = dump.address /\ dump'.out = d.out /\ dump'.full = d.full
        /\ dump'.named = dump.named /\ dump'.size = dump.size
    BY <1>1, <1>3, <2>3, <2>4 DEF DumpRecords
  <2>6. DumpShape' /\ MapsBehind' = MapsBehind + 1
    BY <1>1, <2>5, DumpMoves
  <2>7. MapsOut' = MapsBehind + 1
    BY <2>5, <2>6 DEF MapsOut
  <2>8. OutSoFar' /\ DumpOfOneFile'
    BY <1>1, <1>3, <2>2, <2>5, <2>7, OutGrows, RangeStays
  <2>9. \A p \in Pages : ~MadeReadable(p)'
    BY <2>5, ReadableThen
  <2>10. RightsKept'
    BY <1>1, <2>1, <2>5, <2>9, RightsBefore, RightsThen
  <2> QED
    BY <2>1, <2>6, <2>8, <2>10 DEF DumpIInv
<1>4. CASE "r" \in m.prot /\ dump' = [dump EXCEPT !.at = "write"] /\ UNCHANGED memoryVars
  <2>1. MemoryIInv' /\ BytesPossible' /\ (NonePatched' => NonePatched) /\ prot' = prot
    BY <1>1, <1>4, MemoryUnchanged
  <2>2. DumpShape' /\ OutSoFar' /\ DumpOfOneFile' /\ dump'.maps = dump.maps /\ dump'.todo = dump.todo /\ dump'.at = "write"
    BY <1>1, <1>4, MapBegun
  <2>3. \A p \in Pages : ~MadeReadable(p)'
    BY <1>4, <2>2, ReadableThen
  <2>4. RightsKept'
    BY <1>1, <2>1, <2>2, <2>3, RightsBefore, RightsThen
  <2> QED
    BY <2>1, <2>2, <2>4 DEF DumpIInv
<1> QED
  BY <1>1, <1>2, <1>3, <1>4 DEF DumpMap, PagesIn

(* The bytes of a map are written. *)
LEMMA DumpWriteInv == ASSUME DumpIInv, DumpWrite PROVE DumpIInv'
<1> SUFFICES ASSUME NEW m, m = dump.todo[1] PROVE DumpIInv'
  OBVIOUS
<1>1. /\ dump.at = "write" /\ dump.todo # <<>> /\ Head(dump.todo) = m /\ vm' = vm /\ MapSound(m) /\ UNCHANGED memoryVars
      /\ DumpShape /\ OutSoFar /\ BytesPossible /\ DumpOfOneFile /\ RightsKept /\ MemoryIInv /\ dump \in DumpRecords
  BY CurrentMap DEF DumpWrite, DumpIInv, DumpShape
<1>2. PICK d \in Appended(Padded(Written(m), m)) : dump' = [d EXCEPT !.at = "revert"]
  BY <1>1 DEF DumpWrite
<1>3. MemoryIInv' /\ BytesPossible' /\ (NonePatched' => NonePatched) /\ prot' = prot
  BY <1>1, MemoryUnchanged
<1>4. BytesOf(m, Padded(Written(m), m))
  BY <1>1, PaddedShape
<1>5. /\ d \in DumpRecords /\ d.at = dump.at /\ d.address = dump.address /\ d.size = dump.size
      /\ d.todo = dump.todo /\ d.maps = dump.maps /\ d.named = dump.named
  BY <1>1, <1>2, <1>4, AppendedShape DEF BytesOf
<1>6. /\ dump' \in DumpRecords /\ dump'.at = "revert" /\ dump'.maps = dump.maps /\ dump'.todo = dump.todo
      /\ dump'.address = dump.address /\ dump'.out = d.out /\ dump'.full = d.full
      /\ dump'.named = dump.named /\ dump'.size = dump.size
  BY <1>2, <1>5 DEF DumpRecords
<1>7. DumpShape' /\ MapsBehind' = MapsBehind
  BY <1>1, <1>6, DumpMoves
<1>8. MapsOut' = MapsBehind + 1
  BY <1>6, <1>7 DEF MapsOut
<1>9. OutSoFar' /\ DumpOfOneFile'
  BY <1>1, <1>2, <1>4, <1>6, <1>8, OutGrows, RangeStays
<1>10. \A p \in Pages : MadeReadable(p)' <=> MadeReadable(p)
  BY <1>1, <1>6 DEF MadeReadable, Lifted, PagesIn
<1>11. RightsKept'
  <2>1. NonePatched => \A p \in Pages : prot'[p] = IF MadeReadable(p)' THEN Perms[p] \cup {"r"} ELSE Perms[p]
    BY <1>1, <1>3, <1>10 DEF RightsKept
  <2> QED
    BY <1>1, <1>3, <1>6, <2>1, RightsThen
<1> QED
  BY <1>3, <1>7, <1>9, <1>11 DEF DumpIInv

(* A map is done: its rights are taken back if they were given. *)
LEMMA DumpRevertInv == ASSUME DumpIInv, DumpRevert PROVE DumpIInv'
<1> SUFFICES ASSUME NEW m, m = dump.todo[1] PROVE DumpIInv'
  OBVIOUS
<1>1. /\ dump.at = "revert" /\ dump.todo # <<>> /\ Head(dump.todo) = m /\ vm' = vm /\ MapSound(m)
      /\ DumpShape /\ OutSoFar /\ BytesPossible /\ DumpOfOneFile /\ RightsKept /\ MemoryIInv /\ dump \in DumpRecords
      /\ dump' = [dump EXCEPT !.at = "next", !.todo = Tail(@)]
  BY CurrentMap DEF DumpRevert, DumpIInv, DumpShape
<1>2. Tail(dump.todo) \in Seq(MapRecords)
  BY <1>1, NextMap
<1>3. /\ dump' \in DumpRecords /\ dump'.at = "next" /\ dump'.maps = dump.maps /\ dump'.todo = Tail(dump.todo)
      /\ dump'.address = dump.address /\ dump'.out = dump.out /\ dump'.full = dump.full
      /\ dump'.named = dump.named /\ dump'.size = dump.size
  BY <1>1, <1>2 DEF DumpRecords
<1>4. DumpShape' /\ MapsBehind' = MapsBehind + 1
  BY <1>1, <1>3, DumpMoves
<1>5. MapsOut' = MapsOut
  BY <1>1, <1>3, <1>4 DEF MapsOut
<1>6. OutSoFar' /\ DumpOfOneFile'
  BY <1>1, <1>3, <1>5, OutStays, RangeStays
<1>7. \A p \in Pages : MadeReadable(p) <=> "r" \notin m.prot /\ p \in PagesIn(m)
  BY <1>1 DEF MadeReadable, Lifted
<1>8. /\ MemoryIInv' /\ BytesPossible' /\ (NonePatched' => NonePatched)
      /\ \A p \in Pages : prot'[p] = IF "r" \notin m.prot /\ p \in PagesIn(m) THEN m.prot ELSE prot[p]
  <2>1. CASE Lifted(m)
    <3>1. /\ "r" \notin m.prot /\ memProtect(PagesIn(m), m.prot) /\ op' = Disturb(Nil, PagesIn(m))
          /\ UNCHANGED <<mem, patch, fault, refused>>
      BY <1>1, <2>1 DEF DumpRevert, Lifted, PagesIn
    <3> QED
      BY <1>1, <3>1, RightsFromMap
  <2>2. CASE ~Lifted(m)
    <3>1. "r" \in m.prot /\ UNCHANGED memoryVars
      BY <1>1, <2>2 DEF DumpRevert, Lifted
    <3>2. MemoryIInv' /\ BytesPossible' /\ (NonePatched' => NonePatched) /\ prot' = prot
      BY <1>1, <3>1, MemoryUnchanged
    <3> QED
      BY <3>1, <3>2
  <2> QED
    BY <2>1, <2>2
<1>9. RightsKept'
  <2>1. \A p \in Pages : ~MadeReadable(p)'
    BY <1>3, ReadableThen
  <2>2. ASSUME NonePatched, NEW p \in Pages PROVE prot'[p] = Perms[p]
    <3>1. prot[p] = IF MadeReadable(p) THEN Perms[p] \cup {"r"} ELSE Perms[p]
      BY <1>1, <2>2 DEF RightsKept
    <3>2. p \in PagesIn(m) => m.prot = Perms[p]
      BY <1>1, <2>2, MapRights
    <3> QED
      BY <1>7, <1>8, <3>1, <3>2
  <2> QED
    BY <1>1, <1>3, <1>8, <2>1, <2>2, RightsThen
<1> QED
  BY <1>4, <1>6, <1>8, <1>9 DEF DumpIInv

-----------------------------------------------------------------------------
(* A dump ends behind its last map. *)
LEMMA DumpEndInv == ASSUME DumpIInv, DumpEnd PROVE DumpIInv'
<1>1. /\ dump.at = "next" /\ dump.todo = <<>> /\ vm' = vm /\ UNCHANGED memoryVars
      /\ DumpShape /\ OutSoFar /\ DumpOfOneFile /\ RightsKept /\ dump \in DumpRecords
      /\ dump' = [dump EXCEPT !.at = "done", !.result = (Len(dump.out) = dump.size)]
  BY DEF DumpEnd, DumpIInv, DumpShape
<1>2. MemoryIInv' /\ BytesPossible' /\ (NonePatched' => NonePatched) /\ prot' = prot
  BY <1>1, MemoryUnchanged DEF DumpIInv
<1>3. /\ dump' \in DumpRecords /\ dump'.at = "done" /\ dump'.maps = dump.maps /\ dump'.todo = dump.todo
      /\ dump'.address = dump.address /\ dump'.out = dump.out /\ dump'.full = dump.full
      /\ dump'.named = dump.named /\ dump'.size = dump.size /\ dump'.result = (Len(dump'.out) = dump'.size)
  BY <1>1 DEF DumpRecords
<1>4. MapsBehind' = MapsBehind /\ MapsOut' = MapsOut
  <2>1. MapsBehind' = MapsBehind
    BY <1>3 DEF MapsBehind
  <2> QED
    BY <1>1, <1>3, <2>1 DEF MapsOut
<1>5. DumpShape'
  <2>1. \A i \in DOMAIN dump'.maps : MapSound(dump.maps[i])'
    BY <1>1, <1>3 DEF DumpShape, MapSound, PagesIn, MapRecords, Pages, Mapped, RWX
  <2> QED
    BY <1>1, <1>3, <1>4, <2>1 DEF DumpShape
<1>6. OutSoFar' /\ DumpOfOneFile'
  BY <1>1, <1>3, <1>4, OutStays, RangeStays
<1>7. \A p \in Pages : ~MadeReadable(p)'
  BY <1>3 DEF MadeReadable
<1>8. RightsKept'
  <2>1. NonePatched => \A p \in Pages : prot'[p] = Perms[p]
    BY <1>1, <1>2, RightsBefore
  <2> QED
    BY <1>1, <1>2, <1>3, <1>7, <2>1, RightsThen
<1> QED
  BY <1>2, <1>5, <1>6, <1>8 DEF DumpIInv

(* Patches disturb no dump. *)
LEMMA PatchesInv ==
    ASSUME DumpIInv, UNCHANGED copiesVars, MemoryNext \/ UNCHANGED memoryVars
    PROVE  DumpIInv'
<1>1. dump' = dump /\ vm' = vm /\ MemoryIInv /\ BytesPossible
  BY DEF copiesVars, DumpIInv
<1>2. DumpShape'
  BY <1>1 DEF DumpIInv, DumpShape, MapsBehind, MapSound, PagesIn, MapRecords, Pages, Mapped, RWX
<1>3. OutSoFar'
  <2>1. MapsOut' = MapsOut
    BY <1>1 DEF MapsOut, MapsBehind
  <2> QED
    BY <1>1, <2>1, OutStays DEF DumpIInv
<1>4. DumpOfOneFile'
  BY <1>1, RangeStays DEF DumpIInv
<1>5. MemoryIInv'
  BY <1>1, MemoryNextInv
<1>6. CASE MemoryNext
  <2>1. BytesPossible'
    BY <1>1, <1>6, MemoryBytes
  <2>2. RightsKept'
    BY <1>1, <1>6, PatchedNow DEF RightsKept
  <2> QED
    BY <1>2, <1>3, <1>4, <1>5, <2>1, <2>2 DEF DumpIInv
<1>7. CASE UNCHANGED memoryVars
  <2>1. BytesPossible' /\ (NonePatched' => NonePatched) /\ prot' = prot
    BY <1>1, <1>7, MemoryUnchanged
  <2>2. \A p \in Pages : MadeReadable(p)' <=> MadeReadable(p)
    BY <1>1 DEF MadeReadable, Lifted, PagesIn
  <2>3. NonePatched => \A p \in Pages : prot'[p] = IF MadeReadable(p)' THEN Perms[p] \cup {"r"} ELSE Perms[p]
    BY <2>1, <2>2 DEF DumpIInv, RightsKept
  <2>4. RightsKept'
    BY <1>1, <2>1, <2>3, RightsThen DEF DumpIInv
  <2> QED
    BY <1>2, <1>3, <1>4, <1>5, <2>1, <2>4 DEF DumpIInv
<1> QED
  BY <1>6, <1>7

(* Every step of a dump and of the patches beside it. *)
LEMMA DumpStepInv == DumpIInv /\ [DumpStep]_<<memoryVars, copiesVars>> => DumpIInv'
<1> SUFFICES ASSUME DumpIInv, [DumpStep]_<<memoryVars, copiesVars>> PROVE DumpIInv'
  OBVIOUS
<1>1. ASSUME NEW r \in DumpRanges, dumpMemToDisk(r) PROVE DumpIInv'
  <2>1. r[1] \in Nat /\ r[2] \in Int
    BY CopiesAssumption
  <2>2. Dumping(r[1], r[2], FALSE)
    BY <1>1 DEF dumpMemToDisk
  <2> QED
    BY <2>1, <2>2, DumpingInv
<1>2. ASSUME NEW name \in DumpNames, dumpMemFileToDisk(name) PROVE DumpIInv'
  <2> SUFFICES ASSUME NEW address, address = StartOf(getAllMaps[1]), NEW size, size = FileEnd(getAllMaps) - address
               PROVE  DumpIInv'
    OBVIOUS
  <2>1. getAllMaps # <<>> /\ Dumping(address, size, TRUE)
    BY <1>2 DEF dumpMemFileToDisk
  <2>2. /\ address \in Nat /\ size \in Int
        /\ \A a \in address .. address + size - 1 :
              Mapped(PageOf(a)) /\ Files[PageOf(a)] = Files[PageOf(address)]
    BY <2>1, NamedRange DEF DumpIInv
  <2> QED
    BY <2>1, <2>2, DumpingInv
<1>3. CASE DumpMap \/ DumpWrite \/ DumpRevert \/ DumpEnd
  BY <1>3, DumpMapInv, DumpWriteInv, DumpRevertInv, DumpEndInv
<1>4. CASE (MemoryNext /\ UNCHANGED copiesVars) \/ UNCHANGED <<memoryVars, copiesVars>>
  BY <1>4, PatchesInv
<1> QED
  BY <1>1, <1>2, <1>3, <1>4 DEF DumpStep, DumpNext

(* At first there is no dump and no patch. *)
LEMMA DumpInitInv == MemoryInit /\ CopiesInit => DumpIInv
<1> SUFFICES ASSUME MemoryInit, CopiesInit PROVE DumpIInv
  OBVIOUS
<1>1. /\ dump = [at |-> "idle", address |-> 0, size |-> 0, todo |-> <<>>, maps |-> <<>>,
                 out |-> <<>>, full |-> FALSE, named |-> FALSE, result |-> FALSE]
      /\ vm = NoCopy
  BY DEF CopiesInit, NoDump
<1>2. MemoryIInv
  BY MemoryInitInv
<1>3. DumpShape
  <2>1. <<>> \in Seq(MapRecords) /\ <<>> \in Seq(Nat)
    OBVIOUS
  <2>2. dump \in DumpRecords
    BY <1>1, <2>1 DEF DumpRecords
  <2>3. MapsBehind = 0
    BY <1>1 DEF MapsBehind
  <2> QED
    BY <1>1, <2>2, <2>3 DEF DumpShape
<1>4. OutSoFar
  BY <1>1 DEF OutSoFar, Contiguous
<1>5. BytesPossible
  <2>1. \A a \in Addresses : mem[a] \in Holds(a)
    BY DEF MemoryInit, Holds, Start
  <2>2. \A x \in Patches : ~Begun(x)
    BY DEF MemoryInit, NoPatch, Begun
  <2> QED
    BY <2>1, <2>2 DEF BytesPossible
<1>6. RightsKept
  <2>1. \A p \in Pages : ~MadeReadable(p)
    BY <1>1 DEF MadeReadable
  <2> QED
    BY <1>1, <2>1 DEF RightsKept, MemoryInit
<1>7. DumpOfOneFile
  BY <1>1 DEF DumpOfOneFile
<1> QED
  BY <1>2, <1>3, <1>4, <1>5, <1>6, <1>7 DEF DumpIInv

(* Dumps and the patches beside them give what CopiesInv promises. *)
LEMMA DumpsGood == DumpIInv => CopiesInv
<1> SUFFICES ASSUME DumpIInv PROVE CopiesInv
  OBVIOUS
<1>1. DumpShape /\ dump \in DumpRecords /\ vm.at = "idle"
  BY DEF DumpIInv, DumpShape, NoCopy
<1>2. ASSUME Contiguous
      PROVE  /\ \A i \in DOMAIN dump.out : dump.out[i] \in Holds(dump.address + i - 1)
             /\ dump.at = "done" /\ ~dump.full =>
                   (dump.result <=> EndOf(Last(dump.maps)) = dump.address + dump.size)
  <2>1. /\ \A i \in DOMAIN dump.out : dump.out[i] \in Holds(dump.address + i - 1)
        /\ ~dump.full => dump.address + Len(dump.out) = OutTo
    BY <1>2 DEF DumpIInv, OutSoFar
  <2>2. ASSUME dump.at = "done", ~dump.full
        PROVE  dump.result <=> EndOf(Last(dump.maps)) = dump.address + dump.size
    <3>1. dump.todo = <<>> /\ dump.result = (Len(dump.out) = dump.size) /\ dump.maps # <<>>
      BY <1>1, <1>2, <2>2 DEF DumpShape, Contiguous
    <3>2. Len(dump.maps) \in Nat /\ Len(dump.maps) # 0
      BY <1>1, <3>1 DEF DumpRecords
    <3>3. MapsOut = Len(dump.maps)
      BY <2>2, <3>1, <3>2 DEF MapsOut, MapsBehind
    <3>4. OutTo = EndOf(Last(dump.maps))
      BY <3>2, <3>3 DEF OutTo, Last
    <3>5. dump.address \in Nat /\ dump.size \in Int /\ Len(dump.out) \in Nat
      BY <1>1 DEF DumpRecords
    <3>6. dump.address + Len(dump.out) = EndOf(Last(dump.maps))
      BY <2>1, <2>2, <3>4
    <3> QED
      <4> SUFFICES ASSUME NEW a \in Nat, a = dump.address, NEW s \in Int, s = dump.size, NEW l \in Nat, l = Len(dump.out),
                          NEW e, e = EndOf(Last(dump.maps)), NEW result, result = dump.result
                   PROVE  result <=> e = a + s
        BY <3>5
      <4>1. result = (l = s) /\ a + l = e
        BY <3>1, <3>6
      <4>2. e = a + s <=> l = s
        BY <4>1
      <4> QED
        BY <4>1, <4>2
  <2> QED
    BY <2>1, <2>2
<1>3. DumpReverts
  <2> SUFFICES ASSUME dump.at = "done", NonePatched PROVE prot = Perms
    BY DEF DumpReverts, NonePatched
  <2>1. \A p \in Pages : prot[p] = Perms[p]
    BY DEF DumpIInv, RightsKept, MadeReadable
  <2>2. prot \in [Pages -> SUBSET RWX] /\ Perms \in [Pages -> SUBSET RWX]
    BY MemoryAssumption DEF DumpIInv, MemoryIInv, MemoryTypes, Pages, RWX
  <2> QED
    BY <2>1, <2>2
<1>4. CopiesReachable
  BY <1>1 DEF CopiesReachable
<1> QED
  BY <1>2, <1>3, <1>4 DEF CopiesInv, DumpInPlace, DumpIInv

(* Dumps of ranges and of a file, while any number of threads patch any    *)
(* memory: every byte of a dump is at the offset of its address, the       *)
(* rights are put back, a dump by name stays in one file without a hole,   *)
(* and success is reported just when the range ends where a map ends.  The *)
(* rights that dumps change do not break what patches promise.             *)
THEOREM DumpsCorrect == DumpSpec => [](CopiesInv /\ MemoryInv)
<1>1. DumpSpec => []DumpIInv
  BY DumpInitInv, DumpStepInv, PTL DEF DumpSpec
<1>2. DumpIInv => CopiesInv /\ MemoryInv
  BY DumpsGood, MemoryGood DEF DumpIInv
<1> QED
  BY <1>1, <1>2, PTL

-----------------------------------------------------------------------------
(* Numbers in order are all the numbers of their set. *)
LEMMA AscendingOrder ==
    ASSUME NEW S \in SUBSET Nat, IsFiniteSet(S), NEW s, s = Ascending(S), NEW n, n = Cardinality(S)
    PROVE  /\ s \in [1 .. n -> S] /\ n \in Nat
           /\ \A i, j \in 1 .. n : i < j => s[i] < s[j]
           /\ \A x \in S : \E i \in 1 .. n : s[i] = x
<1>1. n \in Nat /\ s \in [1 .. n -> S] /\ DOMAIN s = 1 .. n
  BY AscendingShape, FS_CardinalityType
<1>2. \A i, j \in DOMAIN s : i < j => s[i] < s[j]
  <2>1. \E f \in [1 .. Cardinality(S) -> S] : \A i, j \in DOMAIN f : i < j => f[i] < f[j]
    BY OrderedExists
  <2> QED
    BY <2>1, Zenon DEF Ascending
<1>3. s \in Injection(1 .. n, S)
  <2> SUFFICES ASSUME NEW i \in 1 .. n, NEW j \in 1 .. n, s[i] = s[j], i # j PROVE FALSE
    BY <1>1 DEF Injection, IsInjective
  <2>1. s[i] \in Nat /\ s[j] \in Nat
    BY <1>1
  <2>2. i < j \/ j < i
    BY <1>1
  <2> QED
    BY <1>1, <1>2, <2>1, <2>2
<1>4. Cardinality(1 .. n) = n
  BY <1>1, FS_Interval
<1>5. s \in Surjection(1 .. n, S)
  BY <1>3, <1>4, FS_Injection
<1> QED
  BY <1>1, <1>2, <1>5 DEF Surjection

(* A run ends before the next one starts, and every mapped page is in one. *)
LEMMA RunsApart ==
    /\ \A i, j \in RunStarts : i < j => RunEnd(i) < j
    /\ \A p \in Pages : Mapped(p) => \E i \in RunStarts : i <= p /\ p <= RunEnd(i)
<1>1. Pages = 1 .. PageCount /\ PageCount \in Nat
  BY MemoryAssumption DEF Pages
<1>2. RunStarts \subseteq Pages
  BY DEF RunStarts
<1>3. \A i \in Pages : RunEnd(i) \in i .. PageCount /\ (\A p \in i .. RunEnd(i) : Alike(p, i))
  BY RunEndShape
<1>4. \A i \in Pages : RunEnd(i) = PageCount \/ ~Alike(RunEnd(i) + 1, i)
  BY RunEndStops
<1>5. ASSUME NEW i \in RunStarts, NEW j \in RunStarts, i < j PROVE RunEnd(i) < j
  <2> SUFFICES ASSUME j <= RunEnd(i) PROVE FALSE
    BY <1>1, <1>2, <1>3
  <2>1. i \in Nat \ {0} /\ j \in Nat \ {0} /\ i \in Pages /\ j # 1
    BY <1>1, <1>2, <1>5
  <2>2. j - 1 \in i .. RunEnd(i) /\ j \in i .. RunEnd(i)
    BY <1>1, <1>3, <1>5, <2>1
  <2>3. Alike(j - 1, j)
    BY <1>3, <2>1, <2>2 DEF Alike
  <2> QED
    BY <2>1, <2>3 DEF RunStarts
<1>6. ASSUME NEW p \in Pages, Mapped(p) PROVE \E i \in RunStarts : i <= p /\ p <= RunEnd(i)
  <2> DEFINE Starts == {i \in 1 .. p : \A q \in i .. p : Alike(q, p)}
  <2>1. p \in Starts /\ Starts \subseteq Nat
    BY <1>1 DEF Alike
  <2>2. PICK i \in Starts : \A k \in Starts : i <= k
    <3> HIDE DEF Starts
    <3> QED
      BY <2>1, LeastNat
  <2>3. i \in 1 .. p /\ (\A q \in i .. p : Alike(q, p)) /\ i \in Pages /\ i \in Nat
    BY <1>1, <2>2
  <2>4. Alike(i, p) /\ Mapped(i)
    BY <1>6, <2>3 DEF Alike, Mapped
  <2>5. i = 1 \/ ~Alike(i - 1, i)
    <3> SUFFICES ASSUME i # 1, Alike(i - 1, i) PROVE FALSE
      OBVIOUS
    <3>1. i - 1 \in 1 .. p /\ ~(i <= i - 1)
      BY <1>1, <2>3
    <3>2. \A q \in i - 1 .. p : q = i - 1 \/ q \in i .. p
      BY <1>1, <2>3
    <3>3. \A q \in i - 1 .. p : Alike(q, p)
      BY <2>3, <2>4, <3>2 DEF Alike
    <3>4. i - 1 \in Starts
      BY <3>1, <3>3
    <3> HIDE DEF Starts
    <3> QED
      BY <2>2, <3>1, <3>4
  <2>6. i \in RunStarts
    BY <2>3, <2>4, <2>5 DEF RunStarts
  <2>7. p <= RunEnd(i)
    <3> SUFFICES ASSUME RunEnd(i) < p PROVE FALSE
      BY <1>1, <1>3, <2>3
    <3>1. RunEnd(i) + 1 \in i .. p /\ RunEnd(i) # PageCount
      BY <1>1, <1>3, <2>3
    <3>2. Alike(RunEnd(i) + 1, i)
      BY <2>3, <2>4, <3>1 DEF Alike
    <3> QED
      BY <1>4, <2>3, <3>1, <3>2
  <2> QED
    BY <1>1, <2>3, <2>6, <2>7
<1> QED
  BY <1>5, <1>6

(* The addresses of a range of pages. *)
LEMMA PageBounds ==
    ASSUME NEW f \in Nat \ {0}, NEW l \in Nat, f <= l, l <= PageCount
    PROVE  /\ (f - 1) * PageSize + 1 \in Nat \ {0} /\ l * PageSize + 1 \in Nat
           /\ (f - 1) * PageSize + 1 < l * PageSize + 1
           /\ \A a \in Nat : (f - 1) * PageSize + 1 <= a /\ a < l * PageSize + 1 <=> a \in Addresses /\ PageOf(a) \in f .. l
<1>1. PageCount \in Nat /\ PageSize \in Nat \ {0}
  BY MemoryAssumption
<1> SUFFICES ASSUME NEW e, e = f - 1, NEW k, k = PageSize, NEW c, c = PageCount
             PROVE  /\ e * k + 1 \in Nat \ {0} /\ l * k + 1 \in Nat
                    /\ e * k + 1 < l * k + 1
                    /\ \A a \in Nat : e * k + 1 <= a /\ a < l * k + 1 <=> a \in Addresses /\ PageOf(a) \in f .. l
  OBVIOUS
<1>2. e \in Nat /\ k \in Nat \ {0} /\ c \in Nat /\ e < l /\ l <= c
  BY <1>1
<1>3. \A z \in Nat \ {0} : \A x, y \in Nat : x < y => x * z < y * z /\ x * z \in Nat /\ y * z \in Nat
  OBVIOUS
<1>4. e * k \in Nat /\ l * k \in Nat /\ e * k < l * k
  BY <1>2, <1>3
<1>5. l * k <= c * k /\ c * k \in Nat
  <2>1. CASE l = c
    BY <1>4, <2>1
  <2>2. CASE l < c
    BY <1>2, <1>3, <2>2
  <2> QED
    BY <1>2, <2>1, <2>2
<1>6. \A x, y \in Nat : \A z \in Nat \ {0} : x * z <= y <=> x <= y \div z
  OBVIOUS
<1>7. \A x, y \in Nat : \A z \in Nat \ {0} : y < x * z <=> y \div z < x
  OBVIOUS
<1>8. ASSUME NEW a \in Nat PROVE e * k + 1 <= a /\ a < l * k + 1 <=> a \in Addresses /\ PageOf(a) \in f .. l
  <2>1. CASE a = 0
    BY <1>4, <2>1 DEF Addresses
  <2>2. CASE a # 0
    <3> SUFFICES ASSUME NEW b, b = a - 1 PROVE e * k + 1 <= a /\ a < l * k + 1 <=> a \in Addresses /\ PageOf(a) \in f .. l
      OBVIOUS
    <3>1. b \in Nat /\ a = b + 1
      BY <2>2
    <3>2. b \div k \in Nat
      BY <1>2, <3>1
    <3>3. PageOf(a) = b \div k + 1
      BY DEF PageOf
    <3>4. a \in Addresses <=> b < c * k
      BY <1>5, <3>1 DEF Addresses
    <3>5. (e * k <= b <=> e <= b \div k) /\ (b < l * k <=> b \div k < l)
      BY <1>2, <1>6, <1>7, <3>1
    <3>6. PageOf(a) \in f .. l <=> e <= b \div k /\ b \div k < l
      BY <1>2, <3>2, <3>3
    <3>7. e * k + 1 <= a /\ a < l * k + 1 <=> e * k <= b /\ b < l * k
      BY <1>4, <3>1
    <3>8. b < l * k => b < c * k
      BY <1>4, <1>5, <3>1
    <3> QED
      BY <3>4, <3>5, <3>6, <3>7, <3>8
  <2> QED
    BY <2>1, <2>2
<1> QED
  BY <1>4, <1>8

(* Ranges of pages that follow one another. *)
LEMMA PagesApart ==
    ASSUME NEW l \in Nat, NEW f \in Nat \ {0}, l < f
    PROVE  l * PageSize + 1 <= (f - 1) * PageSize + 1
<1>1. PageSize \in Nat \ {0}
  BY MemoryAssumption
<1> SUFFICES ASSUME NEW e, e = f - 1, NEW k, k = PageSize PROVE l * k + 1 <= e * k + 1
  OBVIOUS
<1>2. \A z \in Nat \ {0} : \A x, y \in Nat : x <= y => x * z <= y * z /\ x * z \in Nat /\ y * z \in Nat
  OBVIOUS
<1>3. e \in Nat /\ l <= e /\ k \in Nat \ {0}
  BY <1>1
<1> QED
  BY <1>2, <1>3

RegionRecords == [start : Nat, end : Nat, prot : SUBSET RWX]
InOrder(s) ==
    /\ \A i \in DOMAIN s : s[i].start < s[i].end
    /\ \A i, j \in DOMAIN s : i < j => s[i].end <= s[j].start
TrueRegions(s) ==
    \A i \in DOMAIN s, a \in Nat :
        Inside(s[i], a) => a \in Addresses /\ Mapped(PageOf(a)) /\ prot[PageOf(a)] = s[i].prot
CoverFrom(s, e) == \A a \in Addresses : e <= a /\ Mapped(PageOf(a)) => \E i \in DOMAIN s : Inside(s[i], a)
RightsTyped == prot \in [Pages -> SUBSET RWX]

(* Lines are the runs of pages, in order. *)
LEMMA LinesAreRuns ==
    ASSUME NEW s, s = Ascending(RunStarts), NEW n, n = Cardinality(RunStarts)
    PROVE  /\ n \in Nat /\ s \in [1 .. n -> RunStarts] /\ Lines = [k \in 1 .. n |-> Region(MapAt(s[k]))]
           /\ \A i, j \in 1 .. n : i < j => s[i] < s[j]
           /\ \A x \in RunStarts : \E i \in 1 .. n : s[i] = x
<1>1. RunStarts \in SUBSET Nat /\ IsFiniteSet(RunStarts)
  <2>1. RunStarts \subseteq Pages /\ Pages \subseteq Nat
    BY DEF RunStarts, Pages
  <2>2. IsFiniteSet(Pages)
    BY MemoryAssumption, FS_Interval DEF Pages
  <2> QED
    BY <2>1, <2>2, FS_Subset
<1>2. n \in Nat /\ s \in [1 .. n -> RunStarts]
  BY <1>1, AscendingOrder
<1>3. DOMAIN s = 1 .. n
  BY <1>2
<1>4. getAllMaps = [k \in 1 .. n |-> MapAt(s[k])]
  BY <1>3 DEF getAllMaps, MapsAt
<1> SUFFICES ASSUME NEW ms, ms = getAllMaps
             PROVE  /\ Lines = [k \in 1 .. n |-> Region(MapAt(s[k]))]
                    /\ \A i, j \in 1 .. n : i < j => s[i] < s[j]
                    /\ \A x \in RunStarts : \E i \in 1 .. n : s[i] = x
  BY <1>2
<1>5. Lines = [k \in DOMAIN ms |-> Region(ms[k])]
  BY DEF Lines
<1>6. DOMAIN ms = 1 .. n /\ \A k \in 1 .. n : ms[k] = MapAt(s[k])
  BY <1>4
<1>7. Lines = [k \in 1 .. n |-> Region(MapAt(s[k]))]
  BY <1>5, <1>6
<1> QED
  BY <1>1, <1>7, AscendingOrder

(* One line, and the addresses in it. *)
LEMMA LineOfRun ==
    ASSUME RightsTyped, NEW i \in RunStarts, NEW r, r = Region(MapAt(i)), NEW j, j = RunEnd(i)
    PROVE  /\ r \in RegionRecords /\ r.start < r.end
           /\ r.start = (i - 1) * PageSize + 1 /\ r.end = j * PageSize + 1 /\ r.prot = prot[i]
           /\ i \in Nat \ {0} /\ j \in Nat /\ i <= j /\ j <= PageCount
           /\ \A a \in Nat : Inside(r, a) <=> a \in Addresses /\ PageOf(a) \in i .. j
           /\ \A a \in Nat : Inside(r, a) => Mapped(PageOf(a)) /\ prot[PageOf(a)] = r.prot /\ Alike(PageOf(a), i)
<1>1. i \in Pages /\ Mapped(i) /\ PageCount \in Nat /\ Pages = 1 .. PageCount
  BY MemoryAssumption DEF RunStarts, Pages
<1>2. j \in i .. PageCount /\ \A p \in i .. j : Alike(p, i)
  BY <1>1, RunEndShape
<1>3. i \in Nat \ {0} /\ j \in Nat /\ i <= j /\ j <= PageCount /\ i .. j \subseteq Pages
  BY <1>1, <1>2
<1>4. r.start = (i - 1) * PageSize + 1 /\ r.end = j * PageSize + 1 /\ r.prot = prot[i]
  BY DEF Region, MapAt, StartOf, EndOf
<1>5. /\ r.start \in Nat \ {0} /\ r.end \in Nat /\ r.start < r.end
      /\ \A a \in Nat : r.start <= a /\ a < r.end <=> a \in Addresses /\ PageOf(a) \in i .. j
  BY <1>3, <1>4, PageBounds
<1>6. \A a \in Nat : Inside(r, a) <=> a \in Addresses /\ PageOf(a) \in i .. j
  BY <1>5 DEF Inside
<1>7. prot[i] \in SUBSET RWX
  BY <1>1 DEF RightsTyped
<1>8. r \in RegionRecords
  <2>1. r = [start |-> StartOf(MapAt(i)), end |-> EndOf(MapAt(i)), prot |-> MapAt(i).prot]
    BY DEF Region
  <2>2. r = [start |-> r.start, end |-> r.end, prot |-> r.prot]
    BY <2>1
  <2> QED
    BY <1>4, <1>5, <1>7, <2>2 DEF RegionRecords
<1>9. \A p \in i .. j : Mapped(p) /\ prot[p] = r.prot /\ Alike(p, i)
  BY <1>1, <1>2, <1>3, <1>4 DEF Alike, Mapped
<1> QED
  BY <1>3, <1>4, <1>5, <1>6, <1>8, <1>9, Zenon

(* What the maps file shows: lines in order, true and without a mapped     *)
(* page left out; a line does not go on beyond a change of pages.          *)
LEMMA LinesShape ==
    ASSUME RightsTyped, NEW l, l = Lines
    PROVE  /\ l \in Seq(RegionRecords) /\ InOrder(l) /\ TrueRegions(l) /\ CoverFrom(l, 0)
           /\ \A i \in DOMAIN l, a, b \in Nat : Inside(l[i], a) /\ Inside(l[i], b) => Alike(PageOf(a), PageOf(b))
           /\ \A i \in DOMAIN l : /\ l[i].end - 1 \in Addresses
                                  /\ l[i].end \in Addresses => ~Alike(PageOf(l[i].end - 1), PageOf(l[i].end))
<1> DEFINE s == Ascending(RunStarts)
           n == Cardinality(RunStarts)
<1>1. /\ n \in Nat /\ s \in [1 .. n -> RunStarts] /\ l = [k \in 1 .. n |-> Region(MapAt(s[k]))]
      /\ \A i, j \in 1 .. n : i < j => s[i] < s[j]
      /\ \A x \in RunStarts : \E i \in 1 .. n : s[i] = x
  BY LinesAreRuns
<1> HIDE DEF s, n
<1>2. DOMAIN l = 1 .. n /\ (\A k \in 1 .. n : l[k] = Region(MapAt(s[k])) /\ s[k] \in RunStarts)
  BY <1>1
<1>3. \A k \in 1 .. n :
         /\ l[k] \in RegionRecords /\ l[k].start < l[k].end
         /\ l[k].start = (s[k] - 1) * PageSize + 1 /\ l[k].end = RunEnd(s[k]) * PageSize + 1
         /\ s[k] \in Nat \ {0} /\ RunEnd(s[k]) \in Nat /\ s[k] <= RunEnd(s[k]) /\ RunEnd(s[k]) <= PageCount
         /\ \A a \in Nat : Inside(l[k], a) <=> a \in Addresses /\ PageOf(a) \in s[k] .. RunEnd(s[k])
         /\ \A a \in Nat : Inside(l[k], a) => Mapped(PageOf(a)) /\ prot[PageOf(a)] = l[k].prot /\ Alike(PageOf(a), s[k])
  BY <1>2, LineOfRun
<1>4. l \in Seq(RegionRecords)
  <2>1. l \in [1 .. n -> RegionRecords]
    BY <1>1, <1>2, <1>3
  <2> QED
    BY <1>1, <2>1, SeqDef
<1>5. InOrder(l)
  <2>1. ASSUME NEW i \in 1 .. n, NEW j \in 1 .. n, i < j PROVE l[i].end <= l[j].start
    <3>1. s[i] \in RunStarts /\ s[j] \in RunStarts /\ s[i] < s[j]
      BY <1>1, <1>2, <2>1
    <3>2. RunEnd(s[i]) < s[j]
      BY <3>1, RunsApart
    <3> QED
      BY <1>3, <3>2, PagesApart
  <2> QED
    BY <1>2, <1>3, <2>1 DEF InOrder
<1>6. TrueRegions(l)
  BY <1>2, <1>3, Zenon DEF TrueRegions
<1>7. CoverFrom(l, 0)
  <2> SUFFICES ASSUME NEW a \in Addresses, Mapped(PageOf(a)) PROVE \E i \in 1 .. n : Inside(l[i], a)
    BY <1>2 DEF CoverFrom
  <2>1. a \in Nat /\ PageOf(a) \in Pages
    BY DEF Addresses, Mapped
  <2>2. PICK x \in RunStarts : x <= PageOf(a) /\ PageOf(a) <= RunEnd(x)
    BY <2>1, RunsApart
  <2>3. PICK i \in 1 .. n : s[i] = x
    BY <1>1
  <2>4. PageOf(a) \in s[i] .. RunEnd(s[i])
    BY <1>3, <2>1, <2>2, <2>3 DEF Pages
  <2> QED
    BY <1>3, <2>1, <2>4
<1>8. ASSUME NEW i \in 1 .. n, NEW a \in Nat, NEW b \in Nat, Inside(l[i], a), Inside(l[i], b)
      PROVE  Alike(PageOf(a), PageOf(b))
  <2>1. Alike(PageOf(a), s[i]) /\ Alike(PageOf(b), s[i])
    BY <1>3, <1>8
  <2> QED
    BY <2>1 DEF Alike
<1>9. ASSUME NEW i \in 1 .. n
      PROVE  l[i].end - 1 \in Addresses /\ (l[i].end \in Addresses => ~Alike(PageOf(l[i].end - 1), PageOf(l[i].end)))
  <2> DEFINE e == l[i].end
             p == RunEnd(s[i])
  <2>1. e \in Nat /\ l[i].start \in Nat /\ l[i].start < e
    BY <1>3 DEF RegionRecords
  <2>2. e - 1 \in Nat /\ Inside(l[i], e - 1)
    BY <2>1 DEF Inside
  <2>3. e - 1 \in Addresses /\ PageOf(e - 1) \in s[i] .. p /\ Alike(PageOf(e - 1), s[i])
    BY <1>3, <2>2
  <2>4. ASSUME e \in Addresses PROVE PageOf(e) = p + 1 /\ p # PageCount
    <3>1. e = p * PageSize + 1 /\ p \in Nat /\ PageSize \in Nat \ {0} /\ PageCount \in Nat /\ p <= PageCount
      BY <1>3, MemoryAssumption
    <3>2. \A k \in Nat \ {0} : \A x \in Nat : (x * k) \div k = x /\ x * k \in Nat
      OBVIOUS
    <3>3. (p * PageSize) \div PageSize = p /\ p * PageSize \in Nat
      <4> HIDE DEF p
      <4> QED
        BY <3>1, <3>2
    <3>4. e - 1 = p * PageSize
      <4> HIDE DEF p, e
      <4> QED
        BY <3>1, <3>3
    <3>5. PageOf(e) = p + 1
      <4> HIDE DEF p, e
      <4> QED
        BY <3>3, <3>4 DEF PageOf
    <3>6. e <= PageCount * PageSize
      BY <2>4 DEF Addresses
    <3>7. p # PageCount
      <4> HIDE DEF p, e
      <4> QED
        BY <3>1, <3>3, <3>6
    <3> QED
      BY <3>5, <3>7
  <2>5. e \in Addresses => ~Alike(PageOf(e - 1), PageOf(e))
    <3> SUFFICES ASSUME e \in Addresses, Alike(PageOf(e - 1), PageOf(e)) PROVE FALSE
      OBVIOUS
    <3>1. PageOf(e) = p + 1 /\ p # PageCount
      BY <2>4
    <3>2. Alike(p + 1, s[i])
      BY <2>3, <3>1 DEF Alike
    <3>3. s[i] \in Pages
      BY <1>2 DEF RunStarts
    <3> QED
      BY <3>1, <3>2, <3>3, RunEndStops
  <2> QED
    BY <2>3, <2>5
<1> QED
  BY <1>2, <1>4, <1>5, <1>6, <1>7, <1>8, <1>9, Zenon

(* What the binary search computes is a function of its two bounds. *)
Bounds == (0 .. Len(regions)) \X (0 .. Len(regions))
SearchStep(f, a) ==
    f = [w \in Bounds |->
            LET mid == w[1] + (w[2] - w[1]) \div 2
            IN IF w[1] >= w[2] THEN w[2]
               ELSE IF regions[mid + 1].end <= a THEN f[<<mid + 1, w[2]>>] ELSE f[<<w[1], mid>>]]

(* The first region between two bounds that ends behind an address. *)
IsFirst(a, lo, hi, i) ==
    /\ i \in lo .. hi /\ (i = hi \/ regions[i + 1].end > a)
    /\ \A k \in lo .. i - 1 : regions[k + 1].end <= a
FirstFrom(a, lo, hi) == CHOOSE i : IsFirst(a, lo, hi, i)
FirstBehind(a) == [w \in Bounds |-> IF w[1] >= w[2] THEN w[2] ELSE FirstFrom(a, w[1], w[2])]
RegionsKept == regions \in Seq(RegionRecords) /\ InOrder(regions)

(* The numbers in a list of regions. *)
LEMMA RegionSeq ==
    ASSUME NEW s \in Seq(RegionRecords)
    PROVE  /\ Len(s) \in Nat /\ DOMAIN s = 1 .. Len(s)
           /\ \A i \in 1 .. Len(s) : s[i] \in RegionRecords /\ s[i].start \in Nat /\ s[i].end \in Nat
<1>1. Len(s) \in Nat /\ DOMAIN s = 1 .. Len(s) /\ \A i \in 1 .. Len(s) : s[i] \in RegionRecords
  BY LenProperties, ElementOfSeq
<1>2. \A r \in RegionRecords : r.start \in Nat /\ r.end \in Nat
  BY DEF RegionRecords
<1> QED
  BY <1>1, <1>2

(* There is such a region, *)
LEMMA FirstExists ==
    ASSUME RegionsKept, NEW a \in Nat, NEW lo \in 0 .. Len(regions), NEW hi \in 0 .. Len(regions), lo <= hi
    PROVE  \E i \in Nat : IsFirst(a, lo, hi, i)
<1>1. Len(regions) \in Nat /\ \A i \in 1 .. Len(regions) : regions[i].end \in Nat
  BY RegionSeq DEF RegionsKept
<1> DEFINE S == {i \in lo .. hi : i = hi \/ regions[i + 1].end > a}
<1>2. hi \in S /\ S \subseteq Nat
  BY <1>1
<1>3. PICK i \in S : \A k \in S : i <= k
  <2> HIDE DEF S
  <2> QED
    BY <1>2, LeastNat
<1>4. i \in lo .. hi /\ i \in Nat /\ (i = hi \/ regions[i + 1].end > a)
  BY <1>1, <1>3
<1>5. ASSUME NEW k \in lo .. i - 1 PROVE regions[k + 1].end <= a
  <2>1. k \in lo .. hi /\ ~(i <= k) /\ k + 1 \in 1 .. Len(regions)
    BY <1>1, <1>4
  <2>2. k \notin S
    BY <1>3, <2>1
  <2> QED
    BY <1>1, <2>1, <2>2
<1> QED
  BY <1>4, <1>5 DEF IsFirst

(* and only one. *)
LEMMA FirstUnique ==
    ASSUME RegionsKept, NEW a \in Nat, NEW lo \in 0 .. Len(regions), NEW hi \in 0 .. Len(regions),
           NEW i, NEW j, IsFirst(a, lo, hi, i), IsFirst(a, lo, hi, j)
    PROVE  i = j
<1>1. Len(regions) \in Nat /\ \A k \in 1 .. Len(regions) : regions[k].end \in Nat
  BY RegionSeq DEF RegionsKept
<1>2. i \in lo .. hi /\ j \in lo .. hi /\ lo \in Nat /\ hi \in Nat /\ hi <= Len(regions)
  BY <1>1 DEF IsFirst
<1>3. ASSUME NEW x \in lo .. hi, NEW y \in lo .. hi, x < y, IsFirst(a, lo, hi, x), IsFirst(a, lo, hi, y) PROVE FALSE
  <2>1. x \in lo .. y - 1 /\ x # hi /\ x + 1 \in 1 .. Len(regions)
    BY <1>2, <1>3
  <2>2. regions[x + 1].end <= a /\ regions[x + 1].end > a /\ regions[x + 1].end \in Nat
    BY <1>1, <1>3, <2>1 DEF IsFirst
  <2> QED
    BY <2>2
<1>4. ~(i < j) /\ ~(j < i)
  BY <1>2, <1>3
<1> QED
  BY <1>2, <1>4

(* The search finds it: what it computes is one step of the search, *)
LEMMA FirstIsStep ==
    ASSUME RegionsKept, NEW a \in Nat
    PROVE  /\ SearchStep(FirstBehind(a), a)
           /\ \A lo, hi \in 0 .. Len(regions) : lo <= hi => IsFirst(a, lo, hi, FirstBehind(a)[<<lo, hi>>])
<1> DEFINE n == Len(regions)
           F == FirstBehind(a)
<1>1. n \in Nat /\ DOMAIN regions = 1 .. n /\ \A i \in 1 .. n : regions[i].start \in Nat /\ regions[i].end \in Nat
  BY RegionSeq DEF RegionsKept
<1>2. /\ \A i \in 1 .. n : regions[i].start < regions[i].end
      /\ \A i, j \in 1 .. n : i < j => regions[i].end <= regions[j].start
  BY <1>1 DEF RegionsKept, InOrder
<1>3. \A i, j \in 1 .. n : i <= j => regions[i].end <= regions[j].end
  <2> SUFFICES ASSUME NEW i \in 1 .. n, NEW j \in 1 .. n, i < j PROVE regions[i].end <= regions[j].end
    BY <1>1
  <2> QED
    BY <1>1, <1>2
<1>4. \A lo, hi \in 0 .. n : F[<<lo, hi>>] = IF lo >= hi THEN hi ELSE FirstFrom(a, lo, hi)
  BY DEF FirstBehind, Bounds
<1> HIDE DEF n, F
<1>5. ASSUME NEW lo \in 0 .. n, NEW hi \in 0 .. n, lo <= hi PROVE IsFirst(a, lo, hi, F[<<lo, hi>>])
  <2>1. CASE lo = hi
    <3>1. F[<<lo, hi>>] = hi
      BY <1>1, <1>4, <2>1
    <3> QED
      BY <1>1, <2>1, <3>1 DEF IsFirst
  <2>2. CASE lo # hi
    <3>1. F[<<lo, hi>>] = FirstFrom(a, lo, hi)
      BY <1>1, <1>4, <1>5, <2>2
    <3>2. \E i : IsFirst(a, lo, hi, i)
      BY <1>5, FirstExists DEF n
    <3> QED
      BY <3>1, <3>2, Zenon DEF FirstFrom
  <2> QED
    BY <2>1, <2>2
<1>6. ASSUME NEW lo \in 0 .. n, NEW hi \in 0 .. n, lo < hi, NEW mid, mid = lo + (hi - lo) \div 2
      PROVE  /\ mid \in 0 .. n /\ mid + 1 \in 0 .. n /\ lo <= mid /\ mid < hi
             /\ F[<<lo, hi>>] = IF regions[mid + 1].end <= a THEN F[<<mid + 1, hi>>] ELSE F[<<lo, mid>>]
  <2>1. lo \in Nat /\ hi \in Nat /\ lo <= mid /\ mid < hi /\ mid \in 0 .. n /\ mid + 1 \in 0 .. n /\ mid + 1 \in 1 .. n
    <3>1. \A d \in Nat \ {0} : d \div 2 \in Nat /\ d \div 2 < d
      OBVIOUS
    <3>2. hi - lo \in Nat \ {0}
      BY <1>1, <1>6
    <3>3. (hi - lo) \div 2 \in Nat /\ (hi - lo) \div 2 < hi - lo
      BY <3>1, <3>2
    <3> QED
      BY <1>1, <1>6, <3>3
  <2>2. CASE regions[mid + 1].end <= a
    <3>1. IsFirst(a, mid + 1, hi, F[<<mid + 1, hi>>])
      BY <1>5, <2>1
    <3> SUFFICES ASSUME NEW x, x = F[<<mid + 1, hi>>] PROVE F[<<lo, hi>>] = x
      BY <2>1, <2>2
    <3>2. IsFirst(a, lo, hi, x)
      <4>1. x \in mid + 1 .. hi /\ (x = hi \/ regions[x + 1].end > a)
        BY <3>1 DEF IsFirst
      <4>2. ASSUME NEW k \in lo .. x - 1 PROVE regions[k + 1].end <= a
        <5>1. CASE k <= mid
          <6>1. k + 1 \in 1 .. n /\ k + 1 <= mid + 1
            BY <1>1, <2>1, <4>1, <5>1
          <6>2. regions[k + 1].end <= regions[mid + 1].end
            BY <1>3, <2>1, <6>1
          <6> QED
            BY <1>1, <2>1, <2>2, <6>1, <6>2
        <5>2. CASE k > mid
          <6>1. k \in mid + 1 .. x - 1
            BY <2>1, <4>1, <5>2
          <6> QED
            BY <3>1, <6>1 DEF IsFirst
        <5> QED
          BY <2>1, <4>1, <5>1, <5>2
      <4>3. x \in lo .. hi
        BY <2>1, <4>1
      <4> QED
        BY <4>1, <4>2, <4>3 DEF IsFirst
    <3>3. IsFirst(a, lo, hi, F[<<lo, hi>>])
      BY <1>5, <1>6, <2>1
    <3> QED
      BY <3>2, <3>3, FirstUnique DEF n
  <2>3. CASE ~(regions[mid + 1].end <= a)
    <3>1. IsFirst(a, lo, mid, F[<<lo, mid>>])
      BY <1>5, <2>1
    <3> SUFFICES ASSUME NEW x, x = F[<<lo, mid>>] PROVE F[<<lo, hi>>] = x
      BY <2>1, <2>3
    <3>2. IsFirst(a, lo, hi, x)
      <4>1. x \in lo .. mid /\ (x = mid \/ regions[x + 1].end > a) /\ \A k \in lo .. x - 1 : regions[k + 1].end <= a
        BY <3>1 DEF IsFirst
      <4>2. x \in lo .. hi /\ regions[x + 1].end > a
        BY <1>1, <2>1, <2>3, <4>1
      <4> QED
        BY <4>1, <4>2 DEF IsFirst
    <3>3. IsFirst(a, lo, hi, F[<<lo, hi>>])
      BY <1>5, <1>6, <2>1
    <3> QED
      BY <3>2, <3>3, FirstUnique DEF n
  <2> QED
    BY <2>1, <2>2, <2>3
<1> DEFINE H(w) == LET mid == w[1] + (w[2] - w[1]) \div 2
                   IN IF w[1] >= w[2] THEN w[2]
                      ELSE IF regions[mid + 1].end <= a THEN F[<<mid + 1, w[2]>>] ELSE F[<<w[1], mid>>]
<1>7. ASSUME NEW w \in Bounds PROVE F[w] = H(w)
  <2>1. PICK lo \in 0 .. n, hi \in 0 .. n : w = <<lo, hi>>
    BY DEF Bounds, n
  <2>2. w[1] = lo /\ w[2] = hi
    BY <2>1
  <2>3. CASE lo >= hi
    BY <1>4, <2>1, <2>2, <2>3
  <2>4. CASE ~(lo >= hi)
    <3> DEFINE mid == lo + (hi - lo) \div 2
    <3>1. lo < hi
      BY <1>1, <2>4
    <3>2. F[<<lo, hi>>] = IF regions[mid + 1].end <= a THEN F[<<mid + 1, hi>>] ELSE F[<<lo, mid>>]
      <4> HIDE DEF H
      <4> QED
        BY <1>6, <3>1
    <3> QED
      BY <2>1, <2>2, <2>4, <3>2
  <2> QED
    BY <2>3, <2>4
<1>8. F = [w \in Bounds |-> F[w]]
  BY DEF F, FirstBehind
<1>9. F = [w \in Bounds |-> H(w)]
  <2> HIDE DEF H
  <2> QED
    BY <1>7, <1>8
<1> QED
  BY <1>5, <1>9 DEF SearchStep, F, n

(* and the only one. *)
LEMMA SearchFinds ==
    ASSUME RegionsKept, NEW a \in Nat
    PROVE  IsFirst(a, 0, Len(regions), Search(a))
<1> DEFINE n == Len(regions)
           f == CHOOSE g : SearchStep(g, a)
           F == FirstBehind(a)
<1>1. Search(a) = f[<<0, n>>]
  BY DEF Search, SearchStep, Bounds
<1>2. SearchStep(f, a) /\ SearchStep(F, a)
  <2>1. SearchStep(F, a)
    BY FirstIsStep
  <2> QED
    BY <2>1, Zenon
<1>3. n \in Nat
  BY LenProperties DEF RegionsKept
<1>4. IsFirst(a, 0, n, F[<<0, n>>])
  BY <1>3, FirstIsStep
<1> HIDE DEF f, F
<1> DEFINE Next1(g, lo, hi) == LET mid == lo + (hi - lo) \div 2
                               IN IF lo >= hi THEN hi
                                  ELSE IF regions[mid + 1].end <= a THEN g[<<mid + 1, hi>>] ELSE g[<<lo, mid>>]
<1>5. \A lo, hi \in 0 .. n : f[<<lo, hi>>] = Next1(f, lo, hi) /\ F[<<lo, hi>>] = Next1(F, lo, hi)
  <2>1. ASSUME NEW g, SearchStep(g, a), NEW lo \in 0 .. n, NEW hi \in 0 .. n PROVE g[<<lo, hi>>] = Next1(g, lo, hi)
    <3>1. <<lo, hi>> \in Bounds /\ <<lo, hi>>[1] = lo /\ <<lo, hi>>[2] = hi
      BY DEF Bounds
    <3> DEFINE H(w) == LET mid == w[1] + (w[2] - w[1]) \div 2
                       IN IF w[1] >= w[2] THEN w[2]
                          ELSE IF regions[mid + 1].end <= a THEN g[<<mid + 1, w[2]>>] ELSE g[<<w[1], mid>>]
    <3>2. g = [w \in Bounds |-> H(w)]
      BY <2>1 DEF SearchStep
    <3>3. g[<<lo, hi>>] = H(<<lo, hi>>)
      <4> HIDE DEF H
      <4> QED
        BY <3>1, <3>2
    <3> QED
      BY <3>1, <3>3
  <2> QED
    BY <1>2, <2>1
<1>6. \A lo, hi \in 0 .. n : f[<<lo, hi>>] = F[<<lo, hi>>]
  <2> DEFINE Left == {d \in 0 .. n : \E lo, hi \in 0 .. n : hi - lo = d /\ f[<<lo, hi>>] # F[<<lo, hi>>]}
  <2>1. ASSUME NEW lo \in 0 .. n, NEW hi \in 0 .. n, f[<<lo, hi>>] # F[<<lo, hi>>] PROVE hi - lo \in Left
    <3>1. ~(lo >= hi)
      BY <1>5, <2>1
    <3>2. hi - lo \in 0 .. n
      <4> HIDE DEF n, Left
      <4> QED
        BY <1>3, <3>1
    <3> QED
      BY <2>1, <3>2
  <2> SUFFICES ASSUME Left # {} PROVE FALSE
    BY <2>1
  <2>2. PICK d \in Left : \A x \in Left : d <= x
    <3>1. Left \subseteq Nat
      BY <1>3
    <3> HIDE DEF Left
    <3> QED
      BY <3>1, LeastNat
  <2>3. PICK lo \in 0 .. n, hi \in 0 .. n : hi - lo = d /\ f[<<lo, hi>>] # F[<<lo, hi>>]
    BY <2>2
  <2> DEFINE mid == lo + (hi - lo) \div 2
  <2>4. ~(lo >= hi)
    BY <1>5, <2>3
  <2>5. lo <= mid /\ mid < hi /\ mid \in 0 .. n /\ mid + 1 \in 0 .. n /\ lo \in Nat /\ hi \in Nat
    <3>1. \A e \in Nat \ {0} : e \div 2 \in Nat /\ e \div 2 < e
      OBVIOUS
    <3>2. hi - lo \in Nat \ {0} /\ lo \in Nat /\ hi \in Nat
      BY <1>3, <2>4
    <3>3. (hi - lo) \div 2 \in Nat /\ (hi - lo) \div 2 < hi - lo
      BY <3>1, <3>2
    <3> HIDE DEF n, Left
    <3> SUFFICES ASSUME NEW half, half = (hi - lo) \div 2
                 PROVE  lo <= lo + half /\ lo + half < hi /\ lo + half \in 0 .. n /\ lo + half + 1 \in 0 .. n /\ lo \in Nat /\ hi \in Nat
      OBVIOUS
    <3> QED
      BY <1>3, <3>2, <3>3
  <2>6. /\ f[<<lo, hi>>] = IF regions[mid + 1].end <= a THEN f[<<mid + 1, hi>>] ELSE f[<<lo, mid>>]
        /\ F[<<lo, hi>>] = IF regions[mid + 1].end <= a THEN F[<<mid + 1, hi>>] ELSE F[<<lo, mid>>]
    BY <1>5, <2>4
  <2>7. f[<<mid + 1, hi>>] # F[<<mid + 1, hi>>] \/ f[<<lo, mid>>] # F[<<lo, mid>>]
    <3> HIDE DEF mid
    <3> QED
      BY <2>3, <2>6
  <2>8. hi - (mid + 1) \in Left \/ mid - lo \in Left
    <3> HIDE DEF mid, Left
    <3> QED
      BY <2>1, <2>5, <2>7
  <2>9. d \in Nat /\ hi - (mid + 1) < d /\ mid - lo < d /\ hi - (mid + 1) \in Int /\ mid - lo \in Int
    <3> HIDE DEF mid, Left
    <3> QED
      BY <2>3, <2>5
  <2> HIDE DEF mid, Left
  <2> QED
    BY <2>2, <2>8, <2>9
<1> QED
  BY <1>1, <1>3, <1>4, <1>6

(* So the cache answers as a search through all regions would. *)
LEMMA LinearSearch ==
    ASSUME RegionsKept, lastIndex \in Nat
    PROVE  /\ SearchIsLinear
           /\ \A a \in Nat : /\ FindCached(a) \in Nat /\ FindCached(a) <= Len(regions)
                             /\ FindCached(a) < Len(regions) => Inside(regions[FindCached(a) + 1], a)
                             /\ FindCached(a) = Len(regions) => \A i \in DOMAIN regions : ~Inside(regions[i], a)
<1> DEFINE n == Len(regions)
<1>1. n \in Nat /\ DOMAIN regions = 1 .. n /\ \A i \in 1 .. n : regions[i].start \in Nat /\ regions[i].end \in Nat
  BY RegionSeq DEF RegionsKept
<1>2. /\ \A i \in 1 .. n : regions[i].start < regions[i].end
      /\ \A i, j \in 1 .. n : i < j => regions[i].end <= regions[j].start
  BY <1>1 DEF RegionsKept, InOrder
<1> HIDE DEF n
<1>3. ASSUME NEW a \in Nat, NEW i \in 1 .. n, NEW j \in 1 .. n, Inside(regions[i], a), Inside(regions[j], a) PROVE i = j
  <2>1. ~(i < j) /\ ~(j < i)
    BY <1>1, <1>2, <1>3 DEF Inside
  <2> QED
    BY <1>1, <2>1
<1>4. ASSUME NEW a \in Nat
      PROVE  /\ FindCached(a) \in Nat /\ FindCached(a) <= n
             /\ FindCached(a) < n => Inside(regions[FindCached(a) + 1], a)
             /\ FindCached(a) = n => \A i \in 1 .. n : ~Inside(regions[i], a)
  <2>1. CASE Shortcut(a)
    <3>1. FindCached(a) = lastIndex /\ lastIndex < n /\ Inside(regions[lastIndex + 1], a)
      BY <2>1 DEF FindCached, Shortcut, n
    <3> QED
      BY <1>1, <3>1
  <2>2. CASE ~Shortcut(a)
    <3> SUFFICES ASSUME NEW best, best = Search(a)
                 PROVE  /\ FindCached(a) \in Nat /\ FindCached(a) <= n
                        /\ FindCached(a) < n => Inside(regions[FindCached(a) + 1], a)
                        /\ FindCached(a) = n => \A i \in 1 .. n : ~Inside(regions[i], a)
      OBVIOUS
    <3>1. best \in 0 .. n /\ (best = n \/ regions[best + 1].end > a) /\ \A k \in 0 .. best - 1 : regions[k + 1].end <= a
      BY SearchFinds DEF IsFirst, n
    <3>2. FindCached(a) = IF best < n /\ Inside(regions[best + 1], a) THEN best ELSE n
      BY <2>2 DEF FindCached, n
    <3>3. ASSUME NEW i \in 1 .. n, Inside(regions[i], a) PROVE best < n /\ Inside(regions[best + 1], a)
      <4>1. ~(i <= best)
        <5> SUFFICES ASSUME i <= best PROVE FALSE
          OBVIOUS
        <5>1. i - 1 \in 0 .. best - 1 /\ (i - 1) + 1 = i
          BY <1>1, <3>1
        <5>2. regions[i].end <= a
          BY <3>1, <5>1
        <5> QED
          BY <1>1, <3>3, <5>2 DEF Inside
      <4>2. best < n /\ best + 1 \in 1 .. n /\ best + 1 <= i
        BY <1>1, <3>1, <4>1
      <4>3. regions[best + 1].end > a
        BY <1>1, <3>1, <4>2
      <4>4. best + 1 = i
        <5> SUFFICES ASSUME best + 1 < i PROVE FALSE
          BY <1>1, <3>1, <4>2
        <5>1. regions[best + 1].end <= regions[i].start
          BY <1>2, <4>2
        <5> QED
          BY <1>1, <3>3, <4>2, <4>3, <5>1 DEF Inside
      <4> QED
        BY <3>3, <4>2, <4>4
    <3> QED
      BY <1>1, <3>1, <3>2, <3>3
  <2> QED
    BY <2>1, <2>2
<1>5. SearchIsLinear
  <2> SUFFICES ASSUME NEW a \in Addresses
               PROVE  LET holders == {i \in DOMAIN regions : Inside(regions[i], a)}
                      IN IF holders = {} THEN FindCached(a) = Len(regions) ELSE holders = {FindCached(a) + 1}
    BY DEF SearchIsLinear
  <2> DEFINE holders == {i \in 1 .. n : Inside(regions[i], a)}
  <2>1. a \in Nat
    BY DEF Addresses
  <2> SUFFICES ASSUME NEW found, found = FindCached(a)
               PROVE  IF holders = {} THEN found = n ELSE holders = {found + 1}
    BY <1>1 DEF n
  <2>2. /\ found \in Nat /\ found <= n
        /\ found < n => Inside(regions[found + 1], a)
        /\ found = n => \A i \in 1 .. n : ~Inside(regions[i], a)
    BY <1>4, <2>1
  <2>3. CASE found = n
    <3>1. holders = {}
      BY <2>2, <2>3
    <3> QED
      BY <2>3, <3>1
  <2>4. CASE found # n
    <3>1. found + 1 \in 1 .. n /\ Inside(regions[found + 1], a)
      BY <1>1, <2>2, <2>4
    <3>2. \A i \in holders : i = found + 1
      BY <1>3, <2>1, <3>1
    <3>3. found + 1 \in holders
      BY <3>1
    <3> HIDE DEF holders
    <3>4. holders = {found + 1}
      BY <3>2, <3>3
    <3> QED
      BY <3>4
  <2> QED
    BY <2>3, <2>4
<1> QED
  BY <1>1, <1>4, <1>5 DEF n

(* Function f does m steps in X, one after another, from b.                *)
StepsOf(f, G, X, b, m) ==
    f \in [0 .. m -> X] /\ f[0] = b /\ \A n \in 1 .. m : f[n] = G[n][f[n - 1]]

(* There is such a function. *)
LEMMA StepsExist ==
    ASSUME NEW X, NEW b \in X, NEW m \in Nat, NEW G \in [1 .. m -> [X -> X]]
    PROVE  \E f : StepsOf(f, G, X, b, m)
<1> DEFINE Does(f, k) == f[0] = b /\ \A n \in 1 .. k : f[n] = G[n][f[n - 1]]
           Good(k) == \E f \in [0 .. k -> X] : Does(f, k)
           Bad == {k \in Nat : k <= m /\ ~Good(k)}
<1>1. Good(0)
  <2> DEFINE f == [n \in 0 .. 0 |-> b]
  <2>1. f \in [0 .. 0 -> X] /\ Does(f, 0)
    OBVIOUS
  <2> HIDE DEF f, Does
  <2> QED
    BY <2>1
<1>2. ASSUME NEW k \in Nat, k + 1 <= m, Good(k) PROVE Good(k + 1)
  <2> PICK f \in [0 .. k -> X] : Does(f, k)
    BY <1>2
  <2> DEFINE h == [n \in 0 .. k + 1 |-> IF n = k + 1 THEN G[k + 1][f[k]] ELSE f[n]]
  <2>1. k + 1 \in 1 .. m /\ k \in 0 .. k
    BY <1>2
  <2>2. G[k + 1] \in [X -> X] /\ f[k] \in X
    BY <2>1
  <2>3. h \in [0 .. k + 1 -> X]
    <3>1. \A n \in 0 .. k + 1 : n # k + 1 => n \in 0 .. k
      OBVIOUS
    <3> QED
      BY <2>2, <3>1
  <2>4. h[0] = b /\ h[k + 1] = G[k + 1][f[k]] /\ \A n \in 0 .. k : h[n] = f[n]
    OBVIOUS
  <2> HIDE DEF h
  <2>5. \A n \in 1 .. k + 1 : h[n] = G[n][h[n - 1]]
    <3> SUFFICES ASSUME NEW n \in 1 .. k + 1 PROVE h[n] = G[n][h[n - 1]]
      OBVIOUS
    <3>1. CASE n = k + 1
      <4>1. n - 1 = k /\ k \in 0 .. k
        BY <3>1
      <4> QED
        BY <2>4, <3>1, <4>1
    <3>2. CASE n # k + 1
      <4>1. n \in 1 .. k /\ n \in 0 .. k /\ n - 1 \in 0 .. k
        BY <3>2
      <4>2. f[n] = G[n][f[n - 1]]
        BY <4>1
      <4> QED
        BY <2>4, <4>1, <4>2
    <3> QED
      BY <3>1, <3>2
  <2> QED
    BY <2>3, <2>4, <2>5
<1> HIDE DEF Good
<1>3. Bad = {}
  <2> SUFFICES ASSUME Bad # {} PROVE FALSE
    OBVIOUS
  <2>1. PICK k \in Bad : \A x \in Bad : k <= x
    <3>1. Bad \subseteq Nat
      OBVIOUS
    <3> HIDE DEF Bad
    <3> QED
      BY <3>1, LeastNat, Zenon
  <2>2. k \in Nat /\ k <= m /\ ~Good(k) /\ k # 0
    BY <1>1
  <2> DEFINE j == k - 1
  <2>3. j \in Nat /\ j + 1 = k /\ j + 1 <= m /\ j <= m /\ ~(k <= j)
    BY <2>2
  <2> HIDE DEF j
  <2>4. Good(j)
    BY <2>1, <2>3
  <2> QED
    BY <1>2, <2>2, <2>3, <2>4
<1>4. Good(m)
  BY <1>3
<1> QED
  BY <1>4 DEF Good, StepsOf

(* What one more line makes of the regions so far. *)
NextParse(s, r) ==
    IF s # <<>> /\ canMergeWith(Last(s), r) THEN [s EXCEPT ![Len(s)].end = r.end] ELSE Append(s, r)
ParseSteps(p, lines) ==
    p = [n \in 0 .. Len(lines) |->
            IF n = 0 THEN <<>>
            ELSE IF p[n - 1] # <<>> /\ canMergeWith(Last(p[n - 1]), lines[n])
            THEN [p[n - 1] EXCEPT ![Len(p[n - 1])].end = lines[n].end]
            ELSE Append(p[n - 1], lines[n])]
Unmerged(s) == \A i \in 1 .. Len(s) - 1 : ~canMergeWith(s[i], s[i + 1])

(* The regions after n of the lines: in order, none left that could be     *)
(* merged, with the addresses and rights of the lines.                     *)
ParsedSoFar(s, lines, n) ==
    /\ s \in Seq(RegionRecords) /\ InOrder(s) /\ Unmerged(s)
    /\ IF n = 0 THEN s = <<>> ELSE s # <<>> /\ s[Len(s)].end = lines[n].end
    /\ \A i \in DOMAIN s, a \in Nat : Inside(s[i], a) => \E j \in 1 .. n : Inside(lines[j], a) /\ lines[j].prot = s[i].prot
    /\ \A j \in 1 .. n, a \in Nat : Inside(lines[j], a) => \E i \in DOMAIN s : Inside(s[i], a)

(* The last region grows by one line, or there is a new last one. *)
LEMMA NextParsed ==
    ASSUME NEW s \in Seq(RegionRecords), NEW r \in RegionRecords, NEW t, t = NextParse(s, r)
    PROVE  /\ t \in Seq(RegionRecords)
           /\ IF s # <<>> /\ canMergeWith(s[Len(s)], r)
              THEN /\ Len(t) = Len(s) /\ (\A i \in 1 .. Len(s) : i # Len(s) => t[i] = s[i])
                   /\ t[Len(s)] = [start |-> s[Len(s)].start, end |-> r.end, prot |-> s[Len(s)].prot]
              ELSE Len(t) = Len(s) + 1 /\ (\A i \in 1 .. Len(s) : t[i] = s[i]) /\ t[Len(s) + 1] = r
<1>1. Len(s) \in Nat /\ DOMAIN s = 1 .. Len(s) /\ \A i \in 1 .. Len(s) : s[i] \in RegionRecords
  BY RegionSeq
<1>2. Last(s) = s[Len(s)]
  BY DEF Last
<1>3. CASE s # <<>> /\ canMergeWith(s[Len(s)], r)
  <2> DEFINE m == Len(s)
             e == [s[m] EXCEPT !.end = r.end]
  <2>1. m \in 1 .. m
    BY <1>1, <1>3, EmptySeq
  <2>2. s[m] \in RegionRecords
    BY <1>1, <2>1
  <2>3. e = [start |-> s[m].start, end |-> r.end, prot |-> s[m].prot] /\ e \in RegionRecords
    BY <2>2 DEF RegionRecords
  <2>4. t = [s EXCEPT ![m] = e]
    BY <1>2, <1>3 DEF NextParse
  <2> HIDE DEF e, m
  <2>5. t \in Seq(RegionRecords) /\ Len(t) = Len(s) /\ \A j \in 1 .. Len(s) : t[j] = IF j = m THEN e ELSE s[j]
    <3>1. m \in 1 .. Len(s)
      BY <2>1 DEF m
    <3> QED
      BY <2>3, <2>4, <3>1, ExceptSeq
  <2>6. t[m] = e /\ \A i \in 1 .. Len(s) : i # m => t[i] = s[i]
    BY <2>1, <2>5 DEF m
  <2> QED
    BY <1>3, <2>3, <2>5, <2>6 DEF m
<1>4. CASE ~(s # <<>> /\ canMergeWith(s[Len(s)], r))
  <2>1. t = Append(s, r)
    BY <1>2, <1>4 DEF NextParse
  <2> QED
    BY <1>4, <2>1, AppendProperties
<1> QED
  BY <1>3, <1>4

(* One more line keeps what is promised of the regions. *)
LEMMA ParseStepKeeps ==
    ASSUME NEW lines \in Seq(RegionRecords), InOrder(lines), NEW n \in 1 .. Len(lines),
           NEW s, ParsedSoFar(s, lines, n - 1), NEW t, t = NextParse(s, lines[n])
    PROVE  ParsedSoFar(t, lines, n)
<1> DEFINE r == lines[n]
           m == Len(s)
<1>1. Len(lines) \in Nat /\ DOMAIN lines = 1 .. Len(lines) /\ (\A i \in 1 .. Len(lines) : lines[i] \in RegionRecords /\ lines[i].start \in Nat /\ lines[i].end \in Nat)
  BY RegionSeq
<1>2. r \in RegionRecords /\ r.start \in Nat /\ r.end \in Nat /\ r.start < r.end /\ n \in Nat
  BY <1>1 DEF InOrder
<1>3. s \in Seq(RegionRecords)
  BY DEF ParsedSoFar
<1>4. m \in Nat /\ DOMAIN s = 1 .. m /\ \A i \in 1 .. m : s[i] \in RegionRecords /\ s[i].start \in Nat /\ s[i].end \in Nat
  BY <1>3, RegionSeq
<1>5. m = 0 <=> s = <<>>
  BY <1>3, EmptySeq
<1>6. m # 0 => n # 1 /\ s[m].end = lines[n - 1].end /\ s[m].end <= r.start
  <2> SUFFICES ASSUME m # 0 PROVE n # 1 /\ s[m].end = lines[n - 1].end /\ s[m].end <= r.start
    OBVIOUS
  <2>1. n - 1 # 0 /\ s[m].end = lines[n - 1].end
    BY <1>5 DEF ParsedSoFar
  <2>2. n - 1 \in 1 .. Len(lines) /\ n \in 1 .. Len(lines) /\ n - 1 < n
    BY <1>1, <1>2, <2>1
  <2>3. lines[n - 1].end <= lines[n].start
    BY <1>1, <2>2 DEF InOrder
  <2> QED
    BY <2>1, <2>3
<1>7. m = 0 => n = 1
  BY <1>2, <1>5 DEF ParsedSoFar
<1>8. /\ \A i \in 1 .. m : s[i].start < s[i].end
      /\ \A i, j \in 1 .. m : i < j => s[i].end <= s[j].start
      /\ \A i \in 1 .. m - 1 : ~canMergeWith(s[i], s[i + 1])
      /\ \A i \in 1 .. m, a \in Nat : Inside(s[i], a) => \E j \in 1 .. n - 1 : Inside(lines[j], a) /\ lines[j].prot = s[i].prot
      /\ \A j \in 1 .. n - 1, a \in Nat : Inside(lines[j], a) => \E i \in 1 .. m : Inside(s[i], a)
  BY <1>4, Zenon DEF ParsedSoFar, InOrder, Unmerged
<1>9. /\ t \in Seq(RegionRecords)
      /\ IF s # <<>> /\ canMergeWith(s[m], r)
         THEN /\ Len(t) = m /\ (\A i \in 1 .. m : i # m => t[i] = s[i])
              /\ t[m] = [start |-> s[m].start, end |-> r.end, prot |-> s[m].prot]
         ELSE Len(t) = m + 1 /\ (\A i \in 1 .. m : t[i] = s[i]) /\ t[m + 1] = r
  BY <1>2, <1>3, NextParsed
<1>10. DOMAIN t = 1 .. Len(t)
  BY <1>9, RegionSeq
<1>11. \A j \in 1 .. n : j = n \/ j \in 1 .. n - 1
  BY <1>2
<1>12. (\A j \in 1 .. n - 1 : j \in 1 .. n) /\ n \in 1 .. n
  BY <1>2
<1> HIDE DEF m, r
<1>13. CASE s # <<>> /\ canMergeWith(s[m], r)
  <2>1. /\ Len(t) = m /\ m \in 1 .. m /\ m # 0 /\ (\A i \in 1 .. m : i # m => t[i] = s[i])
        /\ t[m].start = s[m].start /\ t[m].end = r.end /\ t[m].prot = s[m].prot
        /\ s[m].end = r.start /\ s[m].prot = r.prot
    BY <1>4, <1>5, <1>9, <1>13 DEF canMergeWith
  <2>2. \A i \in 1 .. m : t[i].start = s[i].start /\ s[i].end <= t[i].end /\ t[i].prot = s[i].prot /\ t[i].end \in Nat
    BY <1>2, <1>4, <2>1, SMTT(60)
  <2>3. InOrder(t)
    <3>1. ASSUME NEW i \in 1 .. m PROVE t[i].start < t[i].end
      <4>1. s[i].start < s[i].end /\ s[i].start \in Nat /\ s[i].end \in Nat
        BY <1>4, <1>8
      <4>2. t[i].start = s[i].start /\ s[i].end <= t[i].end /\ t[i].end \in Nat
        BY <2>2
      <4> QED
        BY <4>1, <4>2
    <3>2. ASSUME NEW i \in 1 .. m, NEW j \in 1 .. m, i < j PROVE t[i].end <= t[j].start
      <4>1. i # m
        BY <1>4, <3>2
      <4> QED
        BY <1>8, <2>1, <2>2, <3>2, <4>1
    <3> QED
      BY <1>10, <2>1, <3>1, <3>2 DEF InOrder
  <2>4. Unmerged(t)
    <3>1. ASSUME NEW i \in 1 .. m - 1 PROVE ~canMergeWith(t[i], t[i + 1])
      <4>1. i \in 1 .. m /\ i # m /\ i + 1 \in 1 .. m
        BY <1>4
      <4>2. t[i] = s[i] /\ t[i + 1].start = s[i + 1].start /\ t[i + 1].prot = s[i + 1].prot
        BY <2>1, <2>2, <4>1
      <4> QED
        BY <1>8, <4>2 DEF canMergeWith
    <3> QED
      BY <2>1, <3>1 DEF Unmerged
  <2>5. ASSUME NEW i \in 1 .. m, NEW a \in Nat, Inside(t[i], a)
        PROVE  \E j \in 1 .. n : Inside(lines[j], a) /\ lines[j].prot = t[i].prot
    <3>1. CASE Inside(s[i], a)
      <4>1. PICK j \in 1 .. n - 1 : Inside(lines[j], a) /\ lines[j].prot = s[i].prot
        BY <1>8, <3>1
      <4> QED
        BY <1>12, <2>2, <4>1
    <3>2. CASE ~Inside(s[i], a)
      <4>1. i = m
        BY <2>1, <2>5, <3>2
      <4>2. s[m].start <= a /\ a < r.end /\ ~(a < s[m].end)
        BY <2>1, <2>5, <3>2, <4>1 DEF Inside
      <4>3. Inside(lines[n], a) /\ lines[n].prot = t[i].prot
        BY <1>4, <2>1, <4>1, <4>2 DEF Inside, r
      <4> QED
        BY <1>12, <4>3
    <3> QED
      BY <3>1, <3>2
  <2>6. ASSUME NEW j \in 1 .. n, NEW a \in Nat, Inside(lines[j], a)
        PROVE  \E i \in 1 .. m : Inside(t[i], a)
    <3>1. CASE j = n
      <4>1. r.start <= a /\ a < r.end
        BY <2>6, <3>1 DEF Inside, r
      <4>2. s[m].start < s[m].end
        BY <1>8, <2>1
      <4>3. s[m].start <= a
        BY <1>2, <1>4, <2>1, <4>1, <4>2
      <4>4. Inside(t[m], a)
        BY <2>1, <4>1, <4>3 DEF Inside
      <4> QED
        BY <2>1, <4>4
    <3>2. CASE j # n
      <4>1. PICK i \in 1 .. m : Inside(s[i], a)
        BY <1>8, <1>11, <2>6, <3>2
      <4>2. s[i].start <= a /\ a < s[i].end
        BY <4>1 DEF Inside
      <4>3. Inside(t[i], a)
        BY <1>4, <2>2, <4>2 DEF Inside
      <4> QED
        BY <4>3
    <3> QED
      BY <3>1, <3>2
  <2>7. t # <<>> /\ t[Len(t)].end = lines[n].end /\ n # 0
    BY <1>2, <1>9, <2>1, EmptySeq DEF r
  <2> QED
    BY <1>9, <1>10, <2>1, <2>3, <2>4, <2>5, <2>6, <2>7 DEF ParsedSoFar
<1>14. CASE ~(s # <<>> /\ canMergeWith(s[m], r))
  <2>1. Len(t) = m + 1 /\ (\A i \in 1 .. m : t[i] = s[i]) /\ t[m + 1] = r
    BY <1>9, <1>14
  <2>2. \A i \in 1 .. m + 1 : i = m + 1 \/ i \in 1 .. m
    BY <1>4
  <2>3. InOrder(t)
    <3>1. ASSUME NEW i \in 1 .. m + 1 PROVE t[i].start < t[i].end
      BY <1>2, <1>8, <2>1, <2>2
    <3>2. ASSUME NEW i \in 1 .. m + 1, NEW j \in 1 .. m + 1, i < j PROVE t[i].end <= t[j].start
      <4>1. i \in 1 .. m /\ m # 0 /\ m \in 1 .. m
        BY <1>4, <3>2
      <4>2. CASE j = m + 1
        <5>1. s[i].end <= s[m].end
          <6>1. CASE i = m
            BY <1>4, <4>1, <6>1
          <6>2. CASE i # m
            <7>1. i < m
              BY <1>4, <4>1, <6>2
            <7>2. s[i].end <= s[m].start /\ s[m].start < s[m].end
              BY <1>8, <4>1, <7>1
            <7> QED
              BY <1>4, <4>1, <7>2
          <6> QED
            BY <6>1, <6>2
        <5>2. s[m].end <= r.start
          BY <1>6, <4>1 DEF m, r
        <5>3. s[i].end <= r.start
          BY <1>2, <1>4, <4>1, <5>1, <5>2
        <5> QED
          BY <2>1, <4>1, <4>2, <5>3
      <4>3. CASE j # m + 1
        BY <1>8, <2>1, <2>2, <3>2, <4>1, <4>3
      <4> QED
        BY <4>2, <4>3
    <3> QED
      BY <1>10, <2>1, <3>1, <3>2 DEF InOrder
  <2>4. Unmerged(t)
    <3>1. ASSUME NEW i \in 1 .. m PROVE ~canMergeWith(t[i], t[i + 1])
      <4>1. CASE i = m
        <5>1. s # <<>>
          BY <1>4, <1>5, <4>1
        <5>2. t[i] = s[m] /\ t[i + 1] = r
          BY <2>1, <4>1
        <5> QED
          BY <1>14, <5>1, <5>2
      <4>2. CASE i # m
        <5>1. i \in 1 .. m - 1 /\ i + 1 \in 1 .. m
          BY <1>4, <4>2
        <5> QED
          BY <1>8, <2>1, <5>1
      <4> QED
        BY <4>1, <4>2
    <3>2. Len(t) - 1 = m
      BY <1>4, <2>1
    <3> QED
      BY <3>1, <3>2 DEF Unmerged
  <2>5. ASSUME NEW i \in 1 .. m + 1, NEW a \in Nat, Inside(t[i], a)
        PROVE  \E j \in 1 .. n : Inside(lines[j], a) /\ lines[j].prot = t[i].prot
    <3>1. CASE i = m + 1
      BY <1>12, <2>1, <2>5, <3>1 DEF r
    <3>2. CASE i # m + 1
      <4>1. PICK j \in 1 .. n - 1 : Inside(lines[j], a) /\ lines[j].prot = s[i].prot
        BY <1>8, <2>1, <2>2, <2>5, <3>2
      <4> QED
        BY <1>12, <2>1, <2>2, <3>2, <4>1
    <3> QED
      BY <3>1, <3>2
  <2>6. ASSUME NEW j \in 1 .. n, NEW a \in Nat, Inside(lines[j], a)
        PROVE  \E i \in 1 .. m + 1 : Inside(t[i], a)
    <3>1. CASE j = n
      <4>1. Inside(t[m + 1], a) /\ m + 1 \in 1 .. m + 1
        BY <1>4, <2>1, <2>6, <3>1 DEF r
      <4> QED
        BY <4>1
    <3>2. CASE j # n
      <4>1. PICK i \in 1 .. m : Inside(s[i], a)
        BY <1>8, <1>11, <2>6, <3>2
      <4>2. i \in 1 .. m + 1 /\ t[i] = s[i]
        BY <1>4, <2>1
      <4> QED
        BY <4>1, <4>2
    <3> QED
      BY <3>1, <3>2
  <2>7. t # <<>> /\ t[Len(t)].end = lines[n].end /\ n # 0
    <3>1. Len(t) # 0
      BY <1>4, <2>1
    <3> QED
      BY <1>2, <2>1, <3>1, EmptySeq DEF r
  <2> QED
    BY <1>9, <1>10, <2>1, <2>3, <2>4, <2>5, <2>6, <2>7 DEF ParsedSoFar
<1> QED
  BY <1>13, <1>14

(* Parsing can be done line by line. *)
LEMMA ParseExists ==
    ASSUME NEW lines \in Seq(RegionRecords)
    PROVE  \E p : ParseSteps(p, lines)
<1> DEFINE m == Len(lines)  X == Seq(RegionRecords)
           G == [n \in 1 .. m |-> [q \in X |-> NextParse(q, lines[n])]]
           e == <<>>
<1>1. m \in Nat /\ e \in X /\ \A n \in 1 .. m : lines[n] \in RegionRecords
  BY RegionSeq, EmptySeq
<1>2. \A n \in 1 .. m, q \in X : G[n][q] = NextParse(q, lines[n]) /\ NextParse(q, lines[n]) \in X
  BY <1>1, NextParsed
<1>3. G \in [1 .. m -> [X -> X]]
  BY <1>2
<1> HIDE DEF m, X, G, e
<1>4. PICK p : StepsOf(p, G, X, e, m)
  BY <1>1, <1>3, StepsExist, Zenon
<1> DEFINE body(n) == IF n = 0 THEN <<>>
                      ELSE IF p[n - 1] # <<>> /\ canMergeWith(Last(p[n - 1]), lines[n])
                      THEN [p[n - 1] EXCEPT ![Len(p[n - 1])].end = lines[n].end]
                      ELSE Append(p[n - 1], lines[n])
<1>5. ASSUME NEW n \in 0 .. m PROVE p[n] = body(n)
  <2>1. CASE n = 0
    <3>1. p[0] = e
      BY <1>4 DEF StepsOf
    <3> QED
      BY <2>1, <3>1 DEF e
  <2>2. CASE n # 0
    <3>1. n \in 1 .. m /\ n - 1 \in 0 .. m
      BY <1>1, <2>2
    <3>2. p[n - 1] \in X /\ p[n] = G[n][p[n - 1]]
      BY <1>4, <3>1 DEF StepsOf
    <3>3. p[n] = NextParse(p[n - 1], lines[n])
      BY <1>2, <3>1, <3>2
    <3>4. body(n) = NextParse(p[n - 1], lines[n])
      BY <2>2, Zenon DEF NextParse
    <3> QED
      BY <3>3, <3>4
  <2> QED
    BY <2>1, <2>2
<1>6. p = [n \in 0 .. m |-> p[n]]
  BY <1>4 DEF StepsOf
<1>7. p = [n \in 0 .. m |-> body(n)]
  <2> HIDE DEF body
  <2> QED
    BY <1>5, <1>6
<1> QED
  BY <1>7, Zenon DEF ParseSteps, m

(* What is parsed are the lines, in as few regions as can be. *)
LEMMA ParseShape ==
    ASSUME NEW lines \in Seq(RegionRecords), InOrder(lines)
    PROVE  ParsedSoFar(Parse(lines), lines, Len(lines))
<1> DEFINE p == CHOOSE q : ParseSteps(q, lines)
           m == Len(lines)
<1>1. Parse(lines) = p[m]
  BY DEF Parse, ParseSteps
<1>2. ParseSteps(p, lines)
  BY ParseExists, Zenon
<1>3. m \in Nat
  BY RegionSeq
<1> HIDE DEF p
<1> DEFINE body(n) == IF n = 0 THEN <<>>
                      ELSE IF p[n - 1] # <<>> /\ canMergeWith(Last(p[n - 1]), lines[n])
                      THEN [p[n - 1] EXCEPT ![Len(p[n - 1])].end = lines[n].end]
                      ELSE Append(p[n - 1], lines[n])
<1>4. p = [n \in 0 .. m |-> body(n)]
  BY <1>2, Zenon DEF ParseSteps
<1>5. p[0] = <<>> /\ \A n \in 1 .. m : p[n] = NextParse(p[n - 1], lines[n])
  <2>1. \A n \in 0 .. m : p[n] = body(n)
    <3> HIDE DEF body
    <3> QED
      BY <1>4
  <2>2. body(0) = <<>>
    OBVIOUS
  <2>3. ASSUME NEW n \in 1 .. m PROVE body(n) = NextParse(p[n - 1], lines[n]) /\ n \in 0 .. m
    <3>1. n # 0 /\ n \in 0 .. m
      BY <1>3
    <3> QED
      BY <3>1, Zenon DEF NextParse
  <2>4. 0 \in 0 .. m
    BY <1>3
  <2> HIDE DEF body
  <2> QED
    BY <2>1, <2>2, <2>3, <2>4
<1> HIDE DEF m
<1>6. ParsedSoFar(p[0], lines, 0)
  <2> SUFFICES ASSUME NEW s, s = <<>> PROVE ParsedSoFar(s, lines, 0)
    BY <1>5
  <2>1. s \in Seq(RegionRecords) /\ Len(s) = 0 /\ DOMAIN s = {}
    OBVIOUS
  <2> QED
    BY <2>1 DEF ParsedSoFar, InOrder, Unmerged
<1>7. \A n \in 0 .. m : ParsedSoFar(p[n], lines, n)
  <2> DEFINE Bad == {n \in 0 .. m : ~ParsedSoFar(p[n], lines, n)}
  <2> SUFFICES ASSUME Bad # {} PROVE FALSE
    OBVIOUS
  <2>1. PICK n \in Bad : \A x \in Bad : n <= x
    <3>1. Bad \subseteq Nat
      BY <1>3
    <3> HIDE DEF Bad
    <3> QED
      BY <3>1, LeastNat
  <2>2. n \in 0 .. m /\ ~ParsedSoFar(p[n], lines, n) /\ n # 0
    BY <1>6, <2>1
  <2>3. n \in 1 .. m /\ n - 1 \in 0 .. m /\ ~(n <= n - 1)
    BY <1>3, <2>2
  <2>4. ParsedSoFar(p[n - 1], lines, n - 1)
    BY <2>1, <2>3
  <2>5. ParsedSoFar(p[n], lines, n)
    <3>1. n \in 1 .. Len(lines) /\ p[n] = NextParse(p[n - 1], lines[n])
      BY <1>5, <2>3 DEF m
    <3> QED
      BY <2>4, <3>1, ParseStepKeeps
  <2> QED
    BY <2>2, <2>5
<1>8. m \in 0 .. m
  BY <1>3
<1> QED
  BY <1>1, <1>7, <1>8 DEF m

(* So what is true of the lines is true of the regions. *)
LEMMA ParseTrue ==
    ASSUME NEW lines \in Seq(RegionRecords), InOrder(lines), NEW s, s = Parse(lines)
    PROVE  /\ s \in Seq(RegionRecords) /\ InOrder(s) /\ Unmerged(s)
           /\ TrueRegions(lines) => TrueRegions(s)
           /\ CoverFrom(lines, 0) => CoverFrom(s, 0)
<1>1. Len(lines) \in Nat /\ DOMAIN lines = 1 .. Len(lines)
  BY RegionSeq
<1>2. /\ s \in Seq(RegionRecords) /\ InOrder(s) /\ Unmerged(s)
      /\ \A i \in DOMAIN s, a \in Nat : Inside(s[i], a) => \E j \in 1 .. Len(lines) : Inside(lines[j], a) /\ lines[j].prot = s[i].prot
      /\ \A j \in 1 .. Len(lines), a \in Nat : Inside(lines[j], a) => \E i \in DOMAIN s : Inside(s[i], a)
  BY ParseShape, Zenon DEF ParsedSoFar
<1>3. ASSUME TrueRegions(lines) PROVE TrueRegions(s)
  <2> SUFFICES ASSUME NEW i \in DOMAIN s, NEW a \in Nat, Inside(s[i], a)
               PROVE  a \in Addresses /\ Mapped(PageOf(a)) /\ prot[PageOf(a)] = s[i].prot
    BY DEF TrueRegions
  <2>1. PICK j \in 1 .. Len(lines) : Inside(lines[j], a) /\ lines[j].prot = s[i].prot
    BY <1>2
  <2> QED
    BY <1>1, <1>3, <2>1 DEF TrueRegions
<1>4. ASSUME CoverFrom(lines, 0) PROVE CoverFrom(s, 0)
  <2> SUFFICES ASSUME NEW a \in Addresses, 0 <= a, Mapped(PageOf(a)) PROVE \E i \in DOMAIN s : Inside(s[i], a)
    BY DEF CoverFrom
  <2>1. a \in Nat
    BY DEF Addresses
  <2>2. PICK j \in 1 .. Len(lines) : Inside(lines[j], a)
    BY <1>1, <1>4 DEF CoverFrom
  <2> QED
    BY <1>2, <2>1, <2>2
<1> QED
  BY <1>2, <1>3, <1>4

(* Which regions a buffer of lines, and then the cache, may hold.          *)
CoverTo(s, e) == \A a \in Addresses : a < e /\ Mapped(PageOf(a)) => \E i \in DOMAIN s : Inside(s[i], a)
EndsRun(e)    == e - 1 \in Addresses /\ (e \in Addresses => ~Alike(PageOf(e - 1), PageOf(e)))
BufferKept ==
    buffer # Nil =>
        /\ buffer \in Seq(RegionRecords) /\ buffer # <<>> /\ InOrder(buffer)
        /\ fresh => LET e == buffer[Len(buffer)].end
                    IN TrueRegions(buffer) /\ CoverTo(buffer, e) /\ EndsRun(e)
CacheTrue ==
    fresh => /\ useCache \in BOOLEAN /\ TrueRegions(regions)
             /\ buffer = Nil /\ regions # <<>> => CoverFrom(regions, 0) /\ Unmerged(regions)
ValidatorIInv == RightsTyped /\ lastIndex \in Nat /\ RegionsKept /\ BufferKept /\ CacheTrue

(* Numbers that are there with all smaller ones are counted by the last. *)
LEMMA DownwardCounted ==
    ASSUME NEW n \in Nat, NEW S \in SUBSET (1 .. n), \A i \in S : \A j \in 1 .. n : j <= i => j \in S
    PROVE  Cardinality(S) \in 0 .. n /\ S = 1 .. Cardinality(S)
<1> DEFINE T == {k \in 0 .. n : k + 1 \notin S}
<1>1. T # {} /\ T \subseteq Nat
  <2>1. n \in 0 .. n /\ n + 1 \notin S
    OBVIOUS
  <2> QED
    BY <2>1
<1>2. PICK k \in T : \A x \in T : k <= x
  <2> HIDE DEF T
  <2> QED
    BY <1>1, LeastNat
<1>3. k \in 0 .. n /\ k + 1 \notin S /\ k \in Nat
  BY <1>2
<1>4. ASSUME NEW j \in 1 .. k PROVE j \in S
  <2>1. j - 1 \in 0 .. n /\ ~(k <= j - 1) /\ (j - 1) + 1 = j
    BY <1>3
  <2>2. j - 1 \notin T
    BY <1>2, <2>1
  <2> QED
    BY <2>1, <2>2
<1>5. ASSUME NEW i \in S PROVE i \in 1 .. k
  <2> SUFFICES ASSUME ~(i <= k) PROVE FALSE
    BY <1>3
  <2>1. k + 1 \in 1 .. n /\ k + 1 <= i
    BY <1>3
  <2> QED
    BY <1>3, <2>1
<1>6. S = 1 .. k
  BY <1>4, <1>5
<1>7. Cardinality(S) = k
  BY <1>3, <1>6, FS_Interval
<1> QED
  BY <1>3, <1>6, <1>7

(* The last region of a list ends behind all others. *)
LEMMA LastEnds ==
    ASSUME NEW s \in Seq(RegionRecords), InOrder(s), NEW n \in DOMAIN s, NEW i \in DOMAIN s, i <= n
    PROVE  s[i].end <= s[n].end
<1>1. DOMAIN s = 1 .. Len(s) /\ Len(s) \in Nat /\ \A k \in 1 .. Len(s) : s[k].start \in Nat /\ s[k].end \in Nat
  BY RegionSeq
<1>2. CASE i = n
  BY <1>1, <1>2
<1>3. CASE i # n
  <2>1. i < n
    BY <1>1, <1>3
  <2>2. s[i].end <= s[n].start /\ s[n].start < s[n].end
    BY <2>1 DEF InOrder
  <2> QED
    BY <1>1, <2>2
<1> QED
  BY <1>2, <1>3

(* A first piece of the maps: its lines are true, and leave nothing out up *)
(* to where it ends.                                                       *)
LEMMA FirstPiece ==
    ASSUME RightsTyped, NEW n \in DOMAIN Lines, NEW b, b = SubSeq(Lines, 1, n), NEW e, e = b[Len(b)].end
    PROVE  /\ b \in Seq(RegionRecords) /\ b # <<>> /\ InOrder(b)
           /\ TrueRegions(b) /\ CoverTo(b, e) /\ EndsRun(e)
<1> SUFFICES ASSUME NEW l, l = Lines, n \in DOMAIN l, b = SubSeq(l, 1, n)
             PROVE  /\ b \in Seq(RegionRecords) /\ b # <<>> /\ InOrder(b)
                    /\ TrueRegions(b) /\ CoverTo(b, e) /\ EndsRun(e)
  OBVIOUS
<1>1. /\ l \in Seq(RegionRecords) /\ InOrder(l) /\ TrueRegions(l) /\ CoverFrom(l, 0)
      /\ \A i \in DOMAIN l : /\ l[i].end - 1 \in Addresses
                             /\ l[i].end \in Addresses => ~Alike(PageOf(l[i].end - 1), PageOf(l[i].end))
  BY LinesShape
<1>2. Len(l) \in Nat /\ DOMAIN l = 1 .. Len(l) /\ \A i \in 1 .. Len(l) : l[i] \in RegionRecords /\ l[i].start \in Nat /\ l[i].end \in Nat
  BY <1>1, RegionSeq
<1>3. n \in 1 .. Len(l) /\ n \in Nat
  BY <1>2
<1>4. b \in Seq(RegionRecords) /\ Len(b) = n /\ \A i \in 1 .. n : b[i] = l[i]
  <2>1. 1 \in Int /\ n \in Int /\ \A i \in 1 .. n : l[i] \in RegionRecords
    BY <1>2, <1>3
  <2>2. /\ SubSeq(l, 1, n) \in Seq(RegionRecords)
        /\ Len(SubSeq(l, 1, n)) = IF 1 <= n THEN n - 1 + 1 ELSE 0
        /\ \A i \in 1 .. n - 1 + 1 : SubSeq(l, 1, n)[i] = l[1 + i - 1]
    BY <2>1, SubSeqProperties
  <2>3. n - 1 + 1 = n /\ 1 <= n /\ \A i \in 1 .. n : 1 + i - 1 = i
    BY <1>3
  <2> QED
    BY <2>2, <2>3
<1>5. DOMAIN b = 1 .. n /\ b # <<>> /\ e = l[n].end
  <2>1. DOMAIN b = 1 .. Len(b)
    BY <1>4, RegionSeq
  <2>2. n # 0 /\ n \in 1 .. n
    BY <1>3
  <2> QED
    BY <1>4, <2>1, <2>2, EmptySeq
<1>6. \A i \in 1 .. n : i \in 1 .. Len(l)
  BY <1>3, <1>2
<1>7. InOrder(b)
  BY <1>1, <1>2, <1>4, <1>5, <1>6 DEF InOrder
<1>8. TrueRegions(b)
  BY <1>1, <1>2, <1>4, <1>5, <1>6 DEF TrueRegions
<1>9. CoverTo(b, e)
  <2> SUFFICES ASSUME NEW a \in Addresses, a < e, Mapped(PageOf(a)) PROVE \E i \in 1 .. n : Inside(b[i], a)
    BY <1>5 DEF CoverTo
  <2>1. a \in Nat /\ 0 <= a
    BY DEF Addresses
  <2>2. PICK i \in 1 .. Len(l) : Inside(l[i], a)
    BY <1>1, <1>2, <2>1 DEF CoverFrom
  <2>3. i <= n
    <3> SUFFICES ASSUME n < i PROVE FALSE
      BY <1>3
    <3>1. l[n].end <= l[i].start
      BY <1>1, <1>2, <1>3 DEF InOrder
    <3> QED
      BY <1>2, <1>3, <1>5, <2>1, <2>2, <3>1 DEF Inside
  <2>4. i \in 1 .. n
    BY <1>3, <2>3
  <2> QED
    BY <1>4, <2>2, <2>4
<1>10. EndsRun(e)
  BY <1>1, <1>2, <1>3, <1>5 DEF EndsRun
<1> QED
  BY <1>4, <1>5, <1>7, <1>8, <1>9, <1>10

(* The whole is list b, of m members, and then what l, of k, has behind    *)
(* its first c members.                                                    *)
Continues(whole, b, m, l, k, c) ==
    /\ whole \in Seq(RegionRecords) /\ DOMAIN whole = 1 .. m + (k - c)
    /\ \A i \in 1 .. m : i \in DOMAIN whole /\ whole[i] = b[i]
    /\ \A i \in c + 1 .. k : m + (i - c) \in DOMAIN whole /\ whole[m + (i - c)] = l[i]
    /\ \A x \in DOMAIN whole : IF x <= m THEN x \in 1 .. m /\ whole[x] = b[x]
                               ELSE (x - m) + c \in c + 1 .. k /\ whole[x] = l[(x - m) + c]

(* So it is if the two are put together. *)
LEMMA ContinuedList ==
    ASSUME NEW b \in Seq(RegionRecords), NEW l \in Seq(RegionRecords), NEW c \in 0 .. Len(l)
    PROVE  Continues(b \o SubSeq(l, c + 1, Len(l)), b, Len(b), l, Len(l), c)
<1> SUFFICES ASSUME NEW m, m = Len(b), NEW k, k = Len(l), NEW whole, whole = b \o SubSeq(l, c + 1, Len(l))
             PROVE  Continues(whole, b, m, l, k, c)
  OBVIOUS
<1>1. m \in Nat /\ k \in Nat /\ c \in Nat /\ c <= k /\ \A i \in 1 .. k : l[i] \in RegionRecords
  BY RegionSeq
<1> DEFINE rest == SubSeq(l, c + 1, k)
<1>2. rest \in Seq(RegionRecords) /\ Len(rest) = k - c /\ \A i \in 1 .. k - c : rest[i] = l[c + i]
  <2>1. c + 1 \in Int /\ k \in Int /\ \A i \in c + 1 .. k : l[i] \in RegionRecords
    BY <1>1
  <2>2. /\ rest \in Seq(RegionRecords)
        /\ Len(rest) = IF c + 1 <= k THEN k - (c + 1) + 1 ELSE 0
        /\ \A i \in 1 .. k - (c + 1) + 1 : rest[i] = l[(c + 1) + i - 1]
    BY <2>1, SubSeqProperties
  <2> HIDE DEF rest
  <2>3. k - (c + 1) + 1 = k - c /\ (~(c + 1 <= k) => k - c = 0)
    BY <1>1
  <2>4. \A i \in 1 .. k - c : (c + 1) + i - 1 = c + i
    BY <1>1
  <2>5. \A i \in 1 .. k - c : rest[i] = l[c + i]
    BY <2>2, <2>3, <2>4
  <2> QED
    BY <2>2, <2>3, <2>5
<1>3. whole = b \o rest
  OBVIOUS
<1> HIDE DEF rest
<1>4. /\ whole \in Seq(RegionRecords) /\ Len(whole) = m + (k - c)
      /\ \A i \in 1 .. m + (k - c) : whole[i] = IF i <= m THEN b[i] ELSE rest[i - m]
  <2>1. /\ b \o rest \in Seq(RegionRecords) /\ Len(b \o rest) = Len(b) + Len(rest)
        /\ \A i \in 1 .. Len(b) + Len(rest) : (b \o rest)[i] = IF i <= Len(b) THEN b[i] ELSE rest[i - Len(b)]
    BY <1>2, ConcatProperties
  <2> QED
    BY <1>2, <1>3, <2>1
<1>5. DOMAIN whole = 1 .. m + (k - c)
  BY <1>4, RegionSeq
<1>6. ASSUME NEW i \in 1 .. m PROVE i \in 1 .. m + (k - c) /\ whole[i] = b[i]
  <2>1. i \in 1 .. m + (k - c) /\ i <= m
    BY <1>1
  <2> QED
    BY <1>4, <2>1
<1>7. ASSUME NEW x \in 1 .. m + (k - c), ~(x <= m) PROVE (x - m) + c \in c + 1 .. k /\ whole[x] = l[(x - m) + c]
  <2>1. x - m \in 1 .. k - c /\ (x - m) + c \in c + 1 .. k /\ c + (x - m) = (x - m) + c
    BY <1>1, <1>7
  <2>2. whole[x] = rest[x - m]
    BY <1>4, <1>7
  <2>3. rest[x - m] = l[c + (x - m)]
    BY <1>2, <2>1
  <2> QED
    BY <2>1, <2>2, <2>3
<1>8. ASSUME NEW i \in c + 1 .. k PROVE m + (i - c) \in 1 .. m + (k - c) /\ whole[m + (i - c)] = l[i]
  <2>1. m + (i - c) \in 1 .. m + (k - c) /\ ~(m + (i - c) <= m) /\ ((m + (i - c)) - m) + c = i
    BY <1>1
  <2> QED
    BY <1>7, <2>1
<1>9. ASSUME NEW x \in 1 .. m + (k - c), x <= m PROVE x \in 1 .. m
  BY <1>1, <1>9
<1> QED
  BY <1>4, <1>5, <1>6, <1>7, <1>8, <1>9 DEF Continues

(* Two lists in order are one, if the second goes on where the first ends. *)
LEMMA ContinuedOrder ==
    ASSUME NEW b \in Seq(RegionRecords), NEW l \in Seq(RegionRecords), NEW c \in 0 .. Len(l), NEW whole,
           Continues(whole, b, Len(b), l, Len(l), c), InOrder(b), InOrder(l),
           \A i \in 1 .. Len(b), j \in c + 1 .. Len(l) : b[i].end <= l[j].start
    PROVE  InOrder(whole)
<1> DEFINE m == Len(b)  k == Len(l)
<1>1. m \in Nat /\ k \in Nat /\ c \in Nat /\ c <= k /\ DOMAIN b = 1 .. m /\ DOMAIN l = 1 .. k
  BY RegionSeq
<1> HIDE DEF m, k
<1>2. /\ DOMAIN whole = 1 .. m + (k - c)
      /\ \A x \in DOMAIN whole : IF x <= m THEN x \in 1 .. m /\ whole[x] = b[x]
                                 ELSE (x - m) + c \in c + 1 .. k /\ whole[x] = l[(x - m) + c]
  <2>1. Continues(whole, b, m, l, k, c)
    BY DEF m, k
  <2> QED
    BY <2>1 DEF Continues
<1>3. \A i \in 1 .. m, j \in c + 1 .. k : b[i].end <= l[j].start
  BY DEF m, k
<1>4. c + 1 .. k \subseteq 1 .. k
  BY <1>1
<1>5. ASSUME NEW x \in DOMAIN whole PROVE whole[x].start < whole[x].end
  BY <1>1, <1>2, <1>4 DEF InOrder
<1>6. ASSUME NEW x \in DOMAIN whole, NEW y \in DOMAIN whole, x < y PROVE whole[x].end <= whole[y].start
  <2>1. x \in Nat /\ y \in Nat
    BY <1>1, <1>2
  <2>2. CASE y <= m
    <3>1. x <= m
      BY <1>1, <1>6, <2>1, <2>2
    <3>2. x \in 1 .. m /\ y \in 1 .. m /\ whole[x] = b[x] /\ whole[y] = b[y]
      BY <1>2, <2>2, <3>1
    <3> QED
      BY <1>1, <1>6, <3>2 DEF InOrder
  <2>3. CASE ~(y <= m) /\ x <= m
    <3>1. x \in 1 .. m /\ (y - m) + c \in c + 1 .. k /\ whole[x] = b[x] /\ whole[y] = l[(y - m) + c]
      BY <1>2, <2>3
    <3> QED
      BY <1>3, <3>1
  <2>4. CASE ~(y <= m) /\ ~(x <= m)
    <3>1. (x - m) + c \in c + 1 .. k /\ (y - m) + c \in c + 1 .. k /\ whole[x] = l[(x - m) + c] /\ whole[y] = l[(y - m) + c]
      BY <1>2, <2>4
    <3>2. (x - m) + c < (y - m) + c
      BY <1>1, <1>6, <2>1
    <3> QED
      BY <1>1, <1>4, <3>1, <3>2 DEF InOrder
  <2> QED
    BY <2>2, <2>3, <2>4
<1> QED
  BY <1>5, <1>6 DEF InOrder

(* The lines that start before an address are the first ones. *)
CutAt(l, e, c) ==
    /\ c \in 0 .. Len(l)
    /\ \A i \in 1 .. c : l[i].start < e
    /\ \A i \in c + 1 .. Len(l) : e <= l[i].start

(* They are the first ones, as the lines are in order. *)
LEMMA LinesBefore ==
    ASSUME NEW l \in Seq(RegionRecords), InOrder(l), NEW e \in Nat
    PROVE  CutAt(l, e, Cardinality({i \in DOMAIN l : l[i].start < e}))
<1> SUFFICES ASSUME NEW before, before = {i \in DOMAIN l : l[i].start < e}, NEW c, c = Cardinality(before)
             PROVE  CutAt(l, e, c)
  OBVIOUS
<1> DEFINE k == Len(l)
<1>1. k \in Nat /\ DOMAIN l = 1 .. k /\ \A i \in 1 .. k : l[i].start \in Nat /\ l[i].end \in Nat
  BY RegionSeq
<1>2. /\ \A i \in 1 .. k : l[i].start < l[i].end
      /\ \A i, j \in 1 .. k : i < j => l[i].end <= l[j].start
  BY <1>1 DEF InOrder
<1> HIDE DEF k
<1>3. before \in SUBSET (1 .. k)
  BY <1>1
<1>4. ASSUME NEW i \in before, NEW j \in 1 .. k, j <= i PROVE j \in before
  <2>1. i \in 1 .. k /\ l[i].start < e
    BY <1>1
  <2>2. CASE j = i
    BY <1>4, <2>2
  <2>3. CASE j # i
    <3>1. j < i
      BY <1>1, <1>4, <2>1, <2>3
    <3>2. l[j].end <= l[i].start /\ l[j].start < l[j].end
      BY <1>2, <2>1, <3>1
    <3>3. l[j].start < e
      BY <1>1, <2>1, <3>2
    <3> QED
      BY <1>1, <3>3
  <2> QED
    BY <2>2, <2>3
<1>5. c \in 0 .. k /\ before = 1 .. c
  BY <1>1, <1>3, <1>4, DownwardCounted
<1>6. ASSUME NEW i \in c + 1 .. k PROVE e <= l[i].start
  <2>1. i \notin 1 .. c /\ i \in 1 .. k
    BY <1>1, <1>5
  <2>2. ~(l[i].start < e)
    BY <1>1, <1>5, <2>1
  <2> QED
    BY <1>1, <2>1, <2>2
<1> QED
  BY <1>1, <1>5, <1>6 DEF k, CutAt

(* All lines that are parsed, if b is the first piece. *)
WholeOf(b) ==
    LET before == {i \in DOMAIN Lines : Lines[i].start < b[Len(b)].end}
    IN b \o SubSeq(Lines, Cardinality(before) + 1, Len(Lines))
WholeRight(b, whole) ==
    /\ whole \in Seq(RegionRecords) /\ InOrder(whole)
    /\ TrueRegions(b) => TrueRegions(whole)
    /\ CoverTo(b, b[Len(b)].end) /\ EndsRun(b[Len(b)].end) => CoverFrom(whole, 0)

(* A region that starts before e and ends behind an address that does not. *)
LEMMA Between ==
    ASSUME NEW x \in Nat, NEW y \in Nat, NEW e \in Nat, NEW a \in Nat, x < e, a < y, e <= a
    PROVE  x <= e - 1 /\ e - 1 < y /\ x <= e /\ e < y /\ e - 1 \in Nat
OBVIOUS

(* The second piece goes on behind the first, whatever changed meanwhile;  *)
(* if nothing did, the two are all there is.                               *)
LEMMA BothPieces ==
    ASSUME RightsTyped, NEW b \in Seq(RegionRecords), b # <<>>, InOrder(b)
    PROVE  WholeRight(b, WholeOf(b))
<1> SUFFICES ASSUME NEW e, e = b[Len(b)].end, NEW l, l = Lines,
                    NEW c, c = Cardinality({i \in DOMAIN l : l[i].start < e}),
                    NEW whole, whole = b \o SubSeq(l, c + 1, Len(l))
             PROVE  WholeRight(b, whole)
  BY DEF WholeOf
<1> DEFINE m == Len(b)  k == Len(l)
<1>1. /\ l \in Seq(RegionRecords) /\ InOrder(l) /\ TrueRegions(l) /\ CoverFrom(l, 0)
      /\ \A i \in DOMAIN l, x, y \in Nat : Inside(l[i], x) /\ Inside(l[i], y) => Alike(PageOf(x), PageOf(y))
  BY LinesShape
<1>2. k \in Nat /\ DOMAIN l = 1 .. k /\ \A i \in 1 .. k : l[i].start \in Nat /\ l[i].end \in Nat
  BY <1>1, RegionSeq
<1>3. m \in Nat /\ DOMAIN b = 1 .. m /\ m \in 1 .. m /\ \A i \in 1 .. m : b[i].start \in Nat /\ b[i].end \in Nat
  <2>1. m \in Nat /\ DOMAIN b = 1 .. m /\ \A i \in 1 .. m : b[i].start \in Nat /\ b[i].end \in Nat
    BY RegionSeq
  <2>2. m # 0
    BY EmptySeq
  <2> QED
    BY <2>1, <2>2
<1>4. e \in Nat
  BY <1>3
<1>5. c \in 0 .. k /\ (\A i \in 1 .. c : l[i].start < e) /\ \A i \in c + 1 .. k : e <= l[i].start
  <2>1. CutAt(l, e, c)
    BY <1>1, <1>4, LinesBefore
  <2> QED
    BY <2>1 DEF CutAt
<1>6. \A i \in 1 .. m : b[i].end <= e
  <2>1. \A i \in 1 .. m : i \in DOMAIN b /\ m \in DOMAIN b /\ i <= m
    BY <1>3
  <2> QED
    BY <2>1, LastEnds
<1>7. \A i \in 1 .. m, j \in c + 1 .. k : b[i].end <= l[j].start
  <2> SUFFICES ASSUME NEW i \in 1 .. m, NEW j \in c + 1 .. k PROVE b[i].end <= l[j].start
    OBVIOUS
  <2>1. b[i].end <= e /\ e <= l[j].start /\ b[i].end \in Nat
    BY <1>3, <1>5, <1>6
  <2>2. j \in 1 .. k
    BY <1>2, <1>5
  <2> QED
    BY <1>2, <1>4, <2>1, <2>2
<1>8. InOrder(whole)
  <2>1. l \in Seq(RegionRecords) /\ InOrder(l) /\ c \in 0 .. Len(l)
    BY <1>1, <1>5
  <2>2. Continues(whole, b, Len(b), l, Len(l), c)
    BY <2>1, ContinuedList
  <2>3. \A i \in 1 .. Len(b), j \in c + 1 .. Len(l) : b[i].end <= l[j].start
    BY <1>7
  <2> QED
    BY <2>1, <2>2, <2>3, ContinuedOrder
<1>9. /\ whole \in Seq(RegionRecords)
      /\ \A i \in 1 .. m : i \in DOMAIN whole /\ whole[i] = b[i]
      /\ \A i \in c + 1 .. k : m + (i - c) \in DOMAIN whole /\ whole[m + (i - c)] = l[i]
      /\ \A x \in DOMAIN whole : IF x <= m THEN x \in 1 .. m /\ whole[x] = b[x]
                                 ELSE (x - m) + c \in c + 1 .. k /\ whole[x] = l[(x - m) + c]
  <2>1. l \in Seq(RegionRecords) /\ c \in 0 .. k
    BY <1>1, <1>5
  <2>2. Continues(whole, b, m, l, k, c)
    BY <2>1, ContinuedList
  <2> HIDE DEF m, k
  <2> QED
    BY <2>2 DEF Continues
<1>10. \A i \in c + 1 .. k : i \in 1 .. k
  BY <1>2, <1>5
<1> HIDE DEF m, k
<1>11. ASSUME TrueRegions(b) PROVE TrueRegions(whole)
  <2> SUFFICES ASSUME NEW x \in DOMAIN whole, NEW a \in Nat, Inside(whole[x], a)
               PROVE  a \in Addresses /\ Mapped(PageOf(a)) /\ prot[PageOf(a)] = whole[x].prot
    BY DEF TrueRegions
  <2>1. CASE x <= m
    <3>1. x \in 1 .. m /\ whole[x] = b[x]
      BY <1>9, <2>1
    <3>2. x \in DOMAIN b
      BY <1>3, <3>1
    <3> QED
      BY <1>11, <3>1, <3>2 DEF TrueRegions
  <2>2. CASE ~(x <= m)
    <3> DEFINE i == (x - m) + c
    <3>1. whole[x] = l[i] /\ i \in DOMAIN l
      BY <1>2, <1>9, <1>10, <2>2
    <3> HIDE DEF i
    <3> QED
      BY <1>1, <3>1 DEF TrueRegions
  <2> QED
    BY <2>1, <2>2
<1>12. ASSUME CoverTo(b, e), EndsRun(e) PROVE CoverFrom(whole, 0)
  <2> SUFFICES ASSUME NEW a \in Addresses, Mapped(PageOf(a)) PROVE \E x \in DOMAIN whole : Inside(whole[x], a)
    BY DEF CoverFrom
  <2>1. a \in Nat /\ 0 <= a
    BY DEF Addresses
  <2>2. CASE a < e
    <3>1. PICK i \in 1 .. m : Inside(b[i], a)
      BY <1>3, <1>12, <2>2 DEF CoverTo
    <3> QED
      BY <1>9, <3>1
  <2>3. CASE ~(a < e)
    <3>1. PICK i \in 1 .. k : Inside(l[i], a)
      BY <1>1, <1>2, <2>1 DEF CoverFrom
    <3>2. ~(l[i].start < e)
      <4> SUFFICES ASSUME l[i].start < e PROVE FALSE
        OBVIOUS
      <4>1. l[i].start <= e - 1 /\ e - 1 < l[i].end /\ l[i].start <= e /\ e < l[i].end /\ e - 1 \in Nat
        <5>1. l[i].start \in Nat /\ l[i].end \in Nat /\ l[i].start < e /\ a < l[i].end /\ e <= a
          BY <1>2, <1>4, <2>1, <2>3, <3>1 DEF Inside
        <5>2. a \in Nat
          BY <2>1
        <5> QED
          BY <1>4, <5>1, <5>2, Between, SMTT(60)
      <4>2. Inside(l[i], e - 1) /\ Inside(l[i], e)
        BY <4>1 DEF Inside
      <4>3. Alike(PageOf(e - 1), PageOf(e))
        BY <1>1, <1>2, <1>4, <4>1, <4>2
      <4>4. e \in Addresses
        BY <1>1, <1>2, <1>4, <4>2 DEF TrueRegions
      <4> QED
        BY <1>12, <4>3, <4>4 DEF EndsRun
    <3>3. i \notin 1 .. c
      BY <1>5, <3>2
    <3>4. i \in c + 1 .. k
      BY <1>2, <1>5, <3>3
    <3> QED
      BY <1>9, <3>1, <3>4
  <2> QED
    BY <2>2, <2>3
<1> QED
  BY <1>8, <1>9, <1>11, <1>12 DEF WholeRight

(* A region of the right kind has what is asked for, byte by byte. *)
LEMMA RegionHolds ==
    ASSUME NEW s \in Seq(RegionRecords), TrueRegions(s), NEW i \in DOMAIN s, NEW a \in Addresses, NEW n \in Lengths,
           Inside(s[i], a), a + n <= s[i].end, NEW right, right \in s[i].prot
    PROVE  Has(right, a, n)
<1>1. n \in Nat /\ a \in Nat /\ s[i].start \in Nat /\ s[i].end \in Nat
  BY LengthsAssumption, RegionSeq DEF Addresses
<1> SUFFICES ASSUME NEW k \in 0 .. n - 1
             PROVE  a + k \in Addresses /\ Mapped(PageOf(a + k)) /\ right \in prot[PageOf(a + k)]
  BY DEF Has
<1>2. a + k \in Nat /\ Inside(s[i], a + k)
  BY <1>1 DEF Inside
<1> QED
  BY <1>2 DEF TrueRegions

(* A range of one right lies in one region, if no region was left out and  *)
(* none could be merged.                                                   *)
LEMMA RegionWhole ==
    ASSUME NEW s \in Seq(RegionRecords), InOrder(s), TrueRegions(s), CoverFrom(s, 0), Unmerged(s),
           NEW i \in DOMAIN s, NEW a \in Addresses, NEW n \in Lengths, Inside(s[i], a),
           NEW right, Has(right, a, n), OneRight(a, n)
    PROVE  a + n <= s[i].end /\ right \in s[i].prot
<1> DEFINE m == Len(s)  e == s[i].end
<1>1. /\ m \in Nat /\ DOMAIN s = 1 .. m /\ n \in Nat /\ n > 0 /\ a \in Nat
      /\ \A j \in 1 .. m : s[j].start \in Nat /\ s[j].end \in Nat
  BY LengthsAssumption, RegionSeq DEF Addresses
<1>2. e \in Nat /\ s[i].start <= a /\ a < e
  BY <1>1 DEF Inside
<1>3. prot[PageOf(a)] = s[i].prot
  BY <1>1 DEF TrueRegions
<1>4. right \in s[i].prot
  <2>1. 0 \in 0 .. n - 1 /\ a + 0 = a
    BY <1>1
  <2>2. right \in prot[PageOf(a + 0)]
    BY <2>1 DEF Has
  <2> QED
    BY <1>3, <2>1, <2>2
<1> HIDE DEF m
<1>5. a + n <= e
  <2> HIDE DEF e
  <2> SUFFICES ASSUME ~(a + n <= e) PROVE FALSE
    OBVIOUS
  <2>1. e - a \in 0 .. n - 1 /\ a + (e - a) = e
    BY <1>1, <1>2
  <2>2. e \in Addresses /\ Mapped(PageOf(e))
    <3>1. a + (e - a) \in Addresses /\ Mapped(PageOf(a + (e - a)))
      BY <2>1 DEF Has
    <3> QED
      BY <2>1, <3>1
  <2>3. prot[PageOf(e)] = prot[PageOf(a)]
    <3>1. prot[PageOf(a + (e - a))] = prot[PageOf(a)]
      BY <2>1 DEF OneRight
    <3> QED
      BY <2>1, <3>1
  <2>4. PICK j \in 1 .. m : Inside(s[j], e)
    BY <1>1, <1>2, <2>2 DEF CoverFrom
  <2>5. s[j].prot = s[i].prot
    BY <1>1, <1>2, <1>3, <2>3, <2>4 DEF TrueRegions
  <2>6. s[j].start <= e /\ e < s[j].end
    BY <2>4 DEF Inside
  <2>7. i \in 1 .. m /\ s[i].end = e
    BY <1>1 DEF e
  <2>8. i < j
    <3>1. i # j
      BY <1>1, <1>2, <2>6, <2>7
    <3>2. ~(j < i)
      <4> SUFFICES ASSUME j < i PROVE FALSE
        OBVIOUS
      <4>1. s[j].end <= s[i].start
        BY <1>1, <2>7 DEF InOrder
      <4> QED
        BY <1>1, <1>2, <2>6, <2>7, <4>1
    <3> QED
      BY <1>1, <2>7, <3>1, <3>2
  <2>9. e <= s[j].start /\ s[j].start = e
    <3>1. s[i].end <= s[j].start
      BY <1>1, <2>7, <2>8 DEF InOrder
    <3> QED
      BY <1>1, <1>2, <2>6, <2>7, <3>1
  <2>10. j = i + 1
    <3> SUFFICES ASSUME i + 1 < j PROVE FALSE
      BY <1>1, <2>7, <2>8
    <3>1. i + 1 \in 1 .. m /\ i < i + 1
      BY <1>1, <2>7
    <3>2. s[i].end <= s[i + 1].start /\ s[i + 1].start < s[i + 1].end /\ s[i + 1].end <= s[j].start
      BY <1>1, <2>7, <3>1 DEF InOrder
    <3> QED
      BY <1>1, <1>2, <2>7, <2>9, <3>1, <3>2
  <2>11. canMergeWith(s[i], s[i + 1])
    BY <2>5, <2>7, <2>9, <2>10 DEF canMergeWith
  <2>12. i \in 1 .. m - 1
    BY <1>1, <2>7, <2>10
  <2> QED
    BY <2>11, <2>12 DEF Unmerged, m
<1> QED
  BY <1>4, <1>5

(* Pointers are told true from the invariant. *)
LEMMA PointersTold == ASSUME ValidatorIInv PROVE PointersTrue
<1>1. RightsTyped /\ lastIndex \in Nat /\ RegionsKept /\ CacheTrue
  BY DEF ValidatorIInv
<1> SUFFICES ASSUME buffer = Nil, fresh \/ useCache = FALSE, NEW a \in Addresses, NEW found, found = RegionOf(a),
                    NEW right \in RWX, NEW n \in Lengths
             PROVE  /\ IsPtr(found, right, a, n) => Has(right, a, n)
                    /\ useCache /\ regions # <<>> /\ Has(right, a, n) /\ OneRight(a, n) => IsPtr(found, right, a, n)
  BY DEF PointersTrue
<1>2. a \in Nat
  BY DEF Addresses
<1>3. CASE useCache = FALSE
  <2> SUFFICES ASSUME IsPtr(found, right, a, n) PROVE Has(right, a, n)
    BY <1>3
  <2>1. found # <<>> /\ right \in found[1].prot /\ a + n <= found[1].end
    BY DEF IsPtr
  <2> SUFFICES ASSUME NEW l, l = Lines PROVE Has(right, a, n)
    OBVIOUS
  <2>2. found = IF l # <<>> /\ Inside(l[1], a) THEN <<l[1]>> ELSE <<>>
    BY <1>3 DEF RegionOf
  <2>3. l # <<>> /\ Inside(l[1], a) /\ found[1] = l[1]
    BY <2>1, <2>2
  <2>4. l \in Seq(RegionRecords) /\ TrueRegions(l)
    BY <1>1, LinesShape
  <2>5. 1 \in DOMAIN l
    <3>1. Len(l) \in Nat \ {0} /\ DOMAIN l = 1 .. Len(l)
      BY <2>3, <2>4, EmptySeq, RegionSeq
    <3> QED
      BY <3>1
  <2> QED
    BY <2>1, <2>3, <2>4, <2>5, RegionHolds
<1>4. CASE useCache = TRUE /\ fresh
  <2> SUFFICES ASSUME NEW k, k = FindCached(a)
               PROVE  /\ IsPtr(found, right, a, n) => Has(right, a, n)
                      /\ regions # <<>> /\ Has(right, a, n) /\ OneRight(a, n) => IsPtr(found, right, a, n)
    BY <1>4
  <2>1. /\ k \in Nat /\ k <= Len(regions)
        /\ k < Len(regions) => Inside(regions[k + 1], a)
        /\ k = Len(regions) => \A i \in DOMAIN regions : ~Inside(regions[i], a)
    BY <1>1, <1>2, LinearSearch
  <2>2. found = IF k < Len(regions) THEN <<regions[k + 1]>> ELSE <<>>
    BY <1>4 DEF RegionOf
  <2>3. /\ regions \in Seq(RegionRecords) /\ InOrder(regions) /\ TrueRegions(regions)
        /\ regions # <<>> => CoverFrom(regions, 0) /\ Unmerged(regions)
    BY <1>1, <1>4 DEF RegionsKept, CacheTrue
  <2>4. Len(regions) \in Nat /\ DOMAIN regions = 1 .. Len(regions)
    BY <2>3, RegionSeq
  <2>5. CASE k < Len(regions)
    <3>1. k + 1 \in DOMAIN regions /\ found # <<>> /\ found[1] = regions[k + 1] /\ Inside(regions[k + 1], a)
      BY <2>1, <2>2, <2>4, <2>5
    <3>2. ASSUME IsPtr(found, right, a, n) PROVE Has(right, a, n)
      <4>1. right \in regions[k + 1].prot /\ a + n <= regions[k + 1].end
        BY <3>1, <3>2 DEF IsPtr
      <4> QED
        BY <2>3, <3>1, <4>1, RegionHolds
    <3>3. ASSUME regions # <<>>, Has(right, a, n), OneRight(a, n) PROVE IsPtr(found, right, a, n)
      <4>1. a + n <= regions[k + 1].end /\ right \in regions[k + 1].prot
        BY <2>3, <3>1, <3>3, RegionWhole
      <4> QED
        BY <3>1, <4>1 DEF IsPtr
    <3> QED
      BY <3>2, <3>3
  <2>6. CASE ~(k < Len(regions))
    <3>1. found = <<>> /\ \A i \in DOMAIN regions : ~Inside(regions[i], a)
      BY <2>1, <2>2, <2>4, <2>6
    <3>2. ASSUME regions # <<>>, Has(right, a, n) PROVE FALSE
      <4>1. 0 \in 0 .. n - 1 /\ a + 0 = a
        BY <1>2, LengthsAssumption
      <4>2. Mapped(PageOf(a + 0))
        BY <3>2, <4>1 DEF Has
      <4>3. \E i \in DOMAIN regions : Inside(regions[i], a)
        BY <1>2, <2>3, <3>2, <4>1, <4>2 DEF CoverFrom
      <4> QED
        BY <3>1, <4>3
    <3>3. ~IsPtr(found, right, a, n)
      BY <3>1 DEF IsPtr
    <3> QED
      BY <3>2, <3>3
  <2> QED
    BY <2>5, <2>6
<1>5. fresh => useCache \in BOOLEAN
  BY <1>1 DEF CacheTrue
<1> QED
  BY <1>3, <1>4, <1>5

(* The first piece is read. *)
LEMMA StartReadingInv == ASSUME ValidatorIInv, StartReading, UNCHANGED memoryVars PROVE ValidatorIInv'
<1>1. /\ RightsTyped /\ lastIndex \in Nat /\ prot' = prot /\ lastIndex' = lastIndex
      /\ useCache' = TRUE /\ regions' = <<>> /\ fresh' = TRUE
  BY DEF ValidatorIInv, StartReading, memoryVars
<1>2. PICK n \in DOMAIN Lines : buffer' = SubSeq(Lines, 1, n)
  BY DEF StartReading
<1> SUFFICES ASSUME NEW b, b = SubSeq(Lines, 1, n), NEW e, e = b[Len(b)].end PROVE ValidatorIInv'
  OBVIOUS
<1>3. /\ b \in Seq(RegionRecords) /\ b # <<>> /\ InOrder(b)
      /\ TrueRegions(b) /\ CoverTo(b, e) /\ EndsRun(e)
  BY <1>1, <1>2, FirstPiece
<1>4. buffer' = b
  BY <1>2
<1>5. BufferKept'
  BY <1>1, <1>3, <1>4 DEF BufferKept, TrueRegions, CoverTo, EndsRun, Alike, InOrder, Inside, RegionRecords
<1>6. RegionsKept'
  <2>1. <<>> \in Seq(RegionRecords) /\ DOMAIN <<>> = {}
    BY EmptySeq
  <2> QED
    BY <1>1, <2>1 DEF RegionsKept, InOrder, RegionRecords
<1>7. CacheTrue'
  <2>1. DOMAIN <<>> = {}
    OBVIOUS
  <2> QED
    BY <1>1, <2>1 DEF CacheTrue, TrueRegions
<1>8. RightsTyped' /\ lastIndex' \in Nat
  BY <1>1 DEF RightsTyped
<1> QED
  BY <1>5, <1>6, <1>7, <1>8 DEF ValidatorIInv

(* A cache keeps its promises if it is filled with regions that do. *)
LEMMA CacheFilled ==
    ASSUME NEW s, regions' = s, prot' = prot, useCache' = useCache, fresh' = fresh,
           s \in Seq(RegionRecords), InOrder(s), Unmerged(s),
           fresh => TrueRegions(s) /\ CoverFrom(s, 0) /\ useCache \in BOOLEAN
    PROVE  RegionsKept' /\ CacheTrue'
<1>1. RegionsKept'
  BY DEF RegionsKept, InOrder, RegionRecords
<1>2. TrueRegions(s) => TrueRegions(regions)'
  BY DEF TrueRegions
<1>3. CoverFrom(s, 0) => CoverFrom(regions, 0)'
  BY DEF CoverFrom
<1>4. Unmerged(regions)'
  BY DEF Unmerged
<1> QED
  BY <1>1, <1>2, <1>3, <1>4 DEF CacheTrue

(* The cache is filled from both pieces. *)
LEMMA EndReadingInv == ASSUME ValidatorIInv, EndReading, UNCHANGED memoryVars PROVE ValidatorIInv'
<1>1. /\ RightsTyped /\ prot' = prot /\ lastIndex' = 0 /\ buffer # Nil /\ buffer' = Nil
      /\ useCache' = useCache /\ fresh' = fresh
  BY DEF ValidatorIInv, EndReading, memoryVars
<1>2. /\ buffer \in Seq(RegionRecords) /\ buffer # <<>> /\ InOrder(buffer)
      /\ fresh => TrueRegions(buffer) /\ CoverTo(buffer, buffer[Len(buffer)].end) /\ EndsRun(buffer[Len(buffer)].end)
  BY <1>1 DEF ValidatorIInv, BufferKept
<1>3. regions' = Parse(WholeOf(buffer))
  BY DEF EndReading, WholeOf, Last
<1> SUFFICES ASSUME NEW whole, whole = WholeOf(buffer), NEW s, s = Parse(whole) PROVE ValidatorIInv'
  OBVIOUS
<1>4. WholeRight(buffer, whole)
  BY <1>1, <1>2, BothPieces
<1>5. /\ s \in Seq(RegionRecords) /\ InOrder(s) /\ Unmerged(s)
      /\ TrueRegions(whole) => TrueRegions(s)
      /\ CoverFrom(whole, 0) => CoverFrom(s, 0)
  <2>1. whole \in Seq(RegionRecords) /\ InOrder(whole)
    BY <1>4 DEF WholeRight
  <2> QED
    BY <2>1, ParseTrue
<1>6. regions' = s
  BY <1>3
<1>7. fresh => TrueRegions(s) /\ CoverFrom(s, 0) /\ useCache \in BOOLEAN
  BY <1>2, <1>4, <1>5 DEF ValidatorIInv, CacheTrue, WholeRight
<1>8. RegionsKept' /\ CacheTrue'
  BY <1>1, <1>5, <1>6, <1>7, CacheFilled
<1>9. BufferKept'
  BY <1>1 DEF BufferKept
<1>10. RightsTyped' /\ lastIndex' \in Nat
  BY <1>1 DEF RightsTyped
<1> QED
  BY <1>8, <1>9, <1>10 DEF ValidatorIInv

(* The cache is emptied. *)
LEMMA ClearCacheInv == ASSUME ValidatorIInv, clearCache, UNCHANGED memoryVars PROVE ValidatorIInv'
<1>1. /\ RightsTyped /\ prot' = prot /\ lastIndex' = 0 /\ buffer = Nil /\ buffer' = buffer
      /\ regions' = <<>> /\ fresh' = fresh /\ useCache' \in {useCache, FALSE}
  BY DEF ValidatorIInv, clearCache, memoryVars
<1>2. <<>> \in Seq(RegionRecords) /\ DOMAIN <<>> = {}
  BY EmptySeq
<1>3. RegionsKept'
  BY <1>1, <1>2 DEF RegionsKept, InOrder, RegionRecords
<1>4. fresh => useCache' \in BOOLEAN
  BY <1>1 DEF ValidatorIInv, CacheTrue
<1>5. CacheTrue'
  BY <1>1, <1>2, <1>4 DEF CacheTrue, TrueRegions
<1>6. BufferKept'
  BY <1>1 DEF BufferKept
<1>7. RightsTyped' /\ lastIndex' \in Nat
  BY <1>1 DEF RightsTyped
<1> QED
  BY <1>3, <1>5, <1>6, <1>7 DEF ValidatorIInv

(* Nothing that the promises are about changes. *)
LEMMA PromisesStay ==
    ASSUME ValidatorIInv, prot' = prot, useCache' = useCache, regions' = regions, buffer' = buffer, fresh' = fresh,
           lastIndex' \in Nat
    PROVE  ValidatorIInv'
<1>1. RightsTyped' /\ RegionsKept'
  BY DEF ValidatorIInv, RightsTyped, RegionsKept, InOrder, RegionRecords
<1>2. BufferKept'
  <2>1. BufferKept
    BY DEF ValidatorIInv
  <2> QED
    BY <2>1 DEF BufferKept, TrueRegions, CoverTo, EndsRun, Alike, InOrder, Inside, RegionRecords
<1>3. CacheTrue'
  <2>1. CacheTrue
    BY DEF ValidatorIInv
  <2> QED
    BY <2>1 DEF CacheTrue, TrueRegions, CoverFrom, Unmerged, Inside, canMergeWith
<1> QED
  BY <1>1, <1>2, <1>3 DEF ValidatorIInv

(* A question changes which region is tried first. *)
LEMMA AskInv == ASSUME ValidatorIInv, NEW a \in Addresses, Ask(a), UNCHANGED memoryVars PROVE ValidatorIInv'
<1>1. a \in Nat /\ RegionsKept /\ lastIndex \in Nat
  BY DEF Addresses, ValidatorIInv
<1>2. FindCached(a) \in Nat
  BY <1>1, LinearSearch
<1>3. /\ prot' = prot /\ useCache' = useCache /\ regions' = regions /\ buffer' = buffer /\ fresh' = fresh
      /\ lastIndex' \in Nat
  BY <1>2 DEF Ask, memoryVars
<1> QED
  BY <1>3, PromisesStay

(* A right changes: what was read may be outdated. *)
LEMMA RightsChangeInv ==
    ASSUME ValidatorIInv, RightsChange, fresh' = FALSE, UNCHANGED <<useCache, regions, lastIndex, buffer>>
    PROVE  ValidatorIInv'
<1>1. PICK p \in Pages : memProtect({p}, IF "r" \in prot[p] THEN prot[p] \ {"r"} ELSE prot[p] \cup {"r"})
  BY DEF RightsChange
<1>2. prot \in [Pages -> SUBSET RWX] /\ lastIndex \in Nat /\ RegionsKept /\ BufferKept
  BY DEF ValidatorIInv, RightsTyped
<1>3. RightsTyped'
  <2> DEFINE rights == IF "r" \in prot[p] THEN prot[p] \ {"r"} ELSE prot[p] \cup {"r"}
  <2>1. rights \in SUBSET RWX
    <3>1. prot[p] \in SUBSET RWX
      BY <1>2
    <3> QED
      BY <3>1 DEF RWX
  <2>2. prot' = [q \in Pages |-> IF q \in {p} THEN rights ELSE prot[q]]
    BY <1>1 DEF memProtect
  <2> HIDE DEF rights
  <2> QED
    BY <1>2, <2>1, <2>2 DEF RightsTyped
<1>4. RegionsKept' /\ BufferKept' /\ CacheTrue' /\ lastIndex' \in Nat
  BY <1>2 DEF RegionsKept, BufferKept, CacheTrue, InOrder, RegionRecords
<1> QED
  BY <1>3, <1>4 DEF ValidatorIInv

(* The machine that reads the maps and answers, while rights change. *)
ValidatorSpec == MemoryInit /\ ValidatorInit /\ [][ValidatorNext]_<<memoryVars, validatorVars>>

(* The cached validator finds what a search through all regions would, and *)
(* tells the truth about every byte of a pointer while rights do not       *)
(* change; for any pages, rights and lengths.                              *)
THEOREM ValidatorCorrect == ValidatorSpec => []ValidatorInv
<1>1. MemoryInit /\ ValidatorInit => ValidatorIInv
  <2> SUFFICES ASSUME MemoryInit, ValidatorInit PROVE ValidatorIInv
    OBVIOUS
  <2>1. prot = Perms /\ regions = <<>> /\ lastIndex = 0 /\ buffer = Nil /\ fresh = FALSE
    BY DEF MemoryInit, ValidatorInit
  <2>2. RightsTyped
    BY <2>1, MemoryAssumption DEF RightsTyped, Pages, RWX
  <2>3. <<>> \in Seq(RegionRecords) /\ DOMAIN <<>> = {}
    BY EmptySeq
  <2>4. RegionsKept
    BY <2>1, <2>3 DEF RegionsKept, InOrder
  <2> QED
    BY <2>1, <2>2, <2>4 DEF ValidatorIInv, BufferKept, CacheTrue
<1>2. ValidatorIInv /\ [ValidatorNext]_<<memoryVars, validatorVars>> => ValidatorIInv'
  <2> SUFFICES ASSUME ValidatorIInv, [ValidatorNext]_<<memoryVars, validatorVars>> PROVE ValidatorIInv'
    OBVIOUS
  <2>1. CASE StartReading /\ UNCHANGED memoryVars
    BY <2>1, StartReadingInv
  <2>2. CASE EndReading /\ UNCHANGED memoryVars
    BY <2>2, EndReadingInv
  <2>3. CASE clearCache /\ UNCHANGED memoryVars
    BY <2>3, ClearCacheInv
  <2>4. CASE \E a \in Addresses : Ask(a) /\ UNCHANGED memoryVars
    BY <2>4, AskInv
  <2>5. CASE RightsChange /\ fresh' = FALSE /\ UNCHANGED <<useCache, regions, lastIndex, buffer>>
    BY <2>5, RightsChangeInv
  <2>6. CASE UNCHANGED <<memoryVars, validatorVars>>
    <3>1. /\ prot' = prot /\ useCache' = useCache /\ regions' = regions /\ buffer' = buffer /\ fresh' = fresh
          /\ lastIndex' = lastIndex
      BY <2>6 DEF memoryVars, validatorVars
    <3>2. lastIndex \in Nat
      BY DEF ValidatorIInv
    <3> QED
      BY <3>1, <3>2, PromisesStay
  <2> QED
    BY <2>1, <2>2, <2>3, <2>4, <2>5, <2>6 DEF ValidatorNext
<1>3. ValidatorIInv => ValidatorInv
  BY LinearSearch, PointersTold DEF ValidatorIInv, ValidatorInv
<1> QED
  BY <1>1, <1>2, <1>3, PTL DEF ValidatorSpec

-----------------------------------------------------------------------------
(* What the entries of a directory lead to, if g says it of directories. *)
BelowAll(g, d) ==
    UNION {IF Entries[d][i].kind = "dir" THEN g[Entries[d][i].name] ELSE {Entries[d][i].name} : i \in Shown(d)}
EntryNames == UNION {{Entries[d][i].name : i \in DOMAIN Entries[d]} : d \in DOMAIN Entries}
HoldsBelow(g) == \A d \in DOMAIN Entries : BelowAll(g, d) \subseteq g[d]
Least == [d \in DOMAIN Entries |-> {x \in EntryNames : \A g \in [DOMAIN Entries -> SUBSET EntryNames] : HoldsBelow(g) => x \in g[d]}]

(* Members of what a directory leads to. *)
LEMMA BelowAllMember ==
    ASSUME NEW g, NEW d, NEW x
    PROVE  x \in BelowAll(g, d) <=> \E i \in Shown(d) : IF Entries[d][i].kind = "dir" THEN x \in g[Entries[d][i].name] ELSE x = Entries[d][i].name
BY DEF BelowAll

(* There are such sets: the least that are closed. *)
LEMMA RegularExists == \E g : g = [d \in DOMAIN Entries |-> BelowAll(g, d)]
<1> DEFINE D == DOMAIN Entries  G == [D -> SUBSET EntryNames]
<1>1. \A d \in D : \A i \in Shown(d) :
          /\ Entries[d][i].name \in EntryNames
          /\ Entries[d][i].kind = "dir" => Entries[d][i].name \in D
  BY EntriesAssumption DEF EntryNames, Shown
<1>2. Least \in G
  BY DEF Least
<1>3. \A d \in D, x \in EntryNames : x \in Least[d] <=> \A g \in G : HoldsBelow(g) => x \in g[d]
  BY DEF Least
<1>4. \A d \in D : \A x \in Least[d] : x \in EntryNames
  BY <1>2
<1>5. ASSUME NEW d \in D, NEW x \in BelowAll(Least, d) PROVE x \in Least[d]
  <2>1. PICK i \in Shown(d) : IF Entries[d][i].kind = "dir" THEN x \in Least[Entries[d][i].name] ELSE x = Entries[d][i].name
    BY BelowAllMember
  <2> SUFFICES ASSUME NEW n, n = Entries[d][i].name PROVE x \in Least[d]
    OBVIOUS
  <2>0. n \in EntryNames /\ (Entries[d][i].kind = "dir" => n \in D)
    BY <1>1
  <2>2. x \in EntryNames
    <3>1. CASE Entries[d][i].kind = "dir"
      <4>1. n \in D /\ x \in Least[n]
        BY <2>0, <2>1, <3>1
      <4> QED
        BY <1>4, <4>1
    <3>2. CASE Entries[d][i].kind # "dir"
      BY <2>0, <2>1, <3>2
    <3> QED
      BY <3>1, <3>2
  <2>3. ASSUME NEW g \in G, HoldsBelow(g) PROVE x \in g[d]
    <3>1. IF Entries[d][i].kind = "dir" THEN x \in g[Entries[d][i].name] ELSE x = Entries[d][i].name
      <4>1. CASE Entries[d][i].kind = "dir"
        <5>1. n \in D /\ x \in Least[n]
          BY <2>0, <2>1, <4>1
        <5>2. x \in g[n]
          BY <1>3, <2>2, <2>3, <5>1
        <5> QED
          BY <4>1, <5>2
      <4>2. CASE Entries[d][i].kind # "dir"
        BY <2>1, <4>2
      <4> QED
        BY <4>1, <4>2
    <3>2. x \in BelowAll(g, d)
      BY <3>1, BelowAllMember
    <3> QED
      BY <2>3, <3>2 DEF HoldsBelow
  <2> QED
    BY <1>3, <2>2, <2>3
<1>6. ASSUME NEW d \in D, NEW x \in Least[d] PROVE x \in BelowAll(Least, d)
  <2> DEFINE h == [c \in D |-> BelowAll(Least, c)]
  <2>1. h \in G
    <3> SUFFICES ASSUME NEW c \in D, NEW y \in BelowAll(Least, c) PROVE y \in EntryNames
      OBVIOUS
    <3> QED
      BY <1>4, <1>5
  <2>2. \A c \in D : h[c] = BelowAll(Least, c)
    OBVIOUS
  <2> HIDE DEF h
  <2>3. HoldsBelow(h)
    <3> SUFFICES ASSUME NEW c \in D, NEW y \in BelowAll(h, c) PROVE y \in h[c]
      BY DEF HoldsBelow
    <3>1. PICK i \in Shown(c) : IF Entries[c][i].kind = "dir" THEN y \in h[Entries[c][i].name] ELSE y = Entries[c][i].name
      BY BelowAllMember
    <3>2. IF Entries[c][i].kind = "dir" THEN y \in Least[Entries[c][i].name] ELSE y = Entries[c][i].name
      <4>1. CASE Entries[c][i].kind = "dir"
        <5> SUFFICES ASSUME NEW n, n = Entries[c][i].name PROVE y \in Least[n]
          BY <4>1
        <5>1. n \in D
          BY <1>1, <4>1
        <5>2. y \in h[n]
          BY <3>1, <4>1
        <5>3. y \in BelowAll(Least, n)
          BY <2>2, <5>1, <5>2
        <5> QED
          BY <1>5, <5>1, <5>3
      <4>2. CASE Entries[c][i].kind # "dir"
        BY <3>1, <4>2
      <4> QED
        BY <4>1, <4>2
    <3>3. y \in BelowAll(Least, c)
      BY <3>2, BelowAllMember
    <3> QED
      BY <2>2, <3>3
  <2>4. x \in h[d]
    BY <1>3, <1>4, <1>6, <2>1, <2>3
  <2> QED
    BY <2>2, <2>4
<1>7. \A d \in D : Least[d] = BelowAll(Least, d)
  BY <1>5, <1>6
<1>8. Least = [d \in D |-> BelowAll(Least, d)]
  <2>1. Least = [d \in D |-> Least[d]]
    BY <1>2
  <2> QED
    BY <1>7, <2>1
<1> QED
  BY <1>8

(* The files below a directory are those below its entries. *)
LEMMA RegularIs ==
    /\ \A d \in DOMAIN Entries : \A i \in Shown(d) : Below(Entries[d][i]) \subseteq Regular[d]
    /\ \A d \in DOMAIN Entries : \A x \in Regular[d] : \E i \in Shown(d) : x \in Below(Entries[d][i])
<1>1. Regular = CHOOSE g : g = [d \in DOMAIN Entries |-> BelowAll(g, d)]
  BY DEF Regular, BelowAll
<1>2. Regular = [d \in DOMAIN Entries |-> BelowAll(Regular, d)]
  BY <1>1, RegularExists, Zenon
<1>3. \A d \in DOMAIN Entries : Regular[d] = BelowAll(Regular, d)
  BY <1>2, Zenon
<1>4. \A d, x : x \in BelowAll(Regular, d) <=> \E i \in Shown(d) : x \in Below(Entries[d][i])
  <2> SUFFICES ASSUME NEW d, NEW x PROVE x \in BelowAll(Regular, d) <=> \E i \in Shown(d) : x \in Below(Entries[d][i])
    OBVIOUS
  <2>1. \A i \in Shown(d) : x \in Below(Entries[d][i]) <=>
            IF Entries[d][i].kind = "dir" THEN x \in Regular[Entries[d][i].name] ELSE x = Entries[d][i].name
    BY DEF Below
  <2> QED
    BY <2>1, BelowAllMember
<1> QED
  BY <1>3, <1>4

(* A frame of the walk, and the files that it will still come to.          *)
Frames == [dir : DOMAIN Entries, next : Nat \ {0}]
Ahead(f) == UNION {Below(Entries[f.dir][i]) : i \in {j \in Shown(f.dir) : f.next <= j}}

(* No file is ahead in two frames, or ahead and seen.                      *)
Clear(s, seen) ==
    /\ \A k \in DOMAIN s : Ahead(s[k]) \subseteq Regular[Root] /\ Ahead(s[k]) \cap seen = {}
    /\ \A k, l \in DOMAIN s : k # l => Ahead(s[k]) \cap Ahead(s[l]) = {}
Apart(s, files, seen) ==
    /\ files \subseteq Regular[Root] /\ files \cap seen = {}
    /\ \A k \in DOMAIN s : files \cap Ahead(s[k]) = {}

Walks == [stack : Seq(Frames), open : Int, seen : Seq(Regular[Root]), stops : Int, started : BOOLEAN]
WalkIInv ==
    /\ walk \in Walks /\ Clear(walk.stack, ToSet(walk.seen)) /\ ListsOnce
    /\ ~walk.started => walk.stack = <<>> /\ walk.seen = <<>> /\ walk.stops = 0 /\ walk.open = 0

(* What is ahead in a frame that goes on by one entry. *)
LEMMA AheadNext ==
    ASSUME NEW d \in DOMAIN Entries, NEW n \in Nat \ {0}, NEW f, f = [dir |-> d, next |-> n],
           NEW g, g = [dir |-> d, next |-> n + 1]
    PROVE  /\ Ahead(g) \subseteq Ahead(f)
           /\ n \in Shown(d) => Below(Entries[d][n]) \subseteq Ahead(f) /\ Below(Entries[d][n]) \cap Ahead(g) = {}
<1>1. Shown(d) \subseteq Nat
  <2>1. Entries[d] \in Seq(ToSet(Entries[d]))
    BY EntriesAssumption
  <2>2. DOMAIN Entries[d] = 1 .. Len(Entries[d]) /\ Len(Entries[d]) \in Nat
    BY <2>1, LenProperties
  <2> QED
    BY <2>2 DEF Shown
<1>2. \A x : x \in Ahead(f) <=> \E j \in Shown(d) : n <= j /\ x \in Below(Entries[d][j])
  BY DEF Ahead
<1>3. \A x : x \in Ahead(g) <=> \E j \in Shown(d) : n + 1 <= j /\ x \in Below(Entries[d][j])
  BY DEF Ahead
<1>4. Ahead(g) \subseteq Ahead(f)
  <2> SUFFICES ASSUME NEW x \in Ahead(g) PROVE x \in Ahead(f)
    OBVIOUS
  <2>1. PICK j \in Shown(d) : n + 1 <= j /\ x \in Below(Entries[d][j])
    BY <1>3
  <2>2. n <= j
    BY <1>1, <2>1
  <2> QED
    BY <1>2, <2>1, <2>2
<1>5. ASSUME n \in Shown(d) PROVE Below(Entries[d][n]) \subseteq Ahead(f) /\ Below(Entries[d][n]) \cap Ahead(g) = {}
  <2>1. n <= n
    OBVIOUS
  <2>2. Below(Entries[d][n]) \subseteq Ahead(f)
    BY <1>2, <1>5, <2>1
  <2>3. ASSUME NEW x \in Below(Entries[d][n]), x \in Ahead(g) PROVE FALSE
    <3>1. PICK j \in Shown(d) : n + 1 <= j /\ x \in Below(Entries[d][j])
      BY <1>3, <2>3
    <3>2. j # n
      BY <1>1, <3>1
    <3>3. Below(Entries[d][n]) \cap Below(Entries[d][j]) = {}
      BY <1>5, <3>2, EntriesAssumption
    <3> QED
      BY <2>3, <3>1, <3>3
  <2> QED
    BY <2>2, <2>3
<1> QED
  BY <1>4, <1>5

(* All that is below a directory is ahead when it is entered. *)
LEMMA AheadFirst ==
    ASSUME NEW d \in DOMAIN Entries, NEW f, f = [dir |-> d, next |-> 1]
    PROVE  Ahead(f) = Regular[d]
<1>1. Shown(d) \subseteq Nat \ {0}
  <2>1. Entries[d] \in Seq(ToSet(Entries[d]))
    BY EntriesAssumption
  <2>2. DOMAIN Entries[d] = 1 .. Len(Entries[d]) /\ Len(Entries[d]) \in Nat
    BY <2>1, LenProperties
  <2> QED
    BY <2>2 DEF Shown
<1>2. \A x : x \in Ahead(f) <=> \E j \in Shown(d) : 1 <= j /\ x \in Below(Entries[d][j])
  BY DEF Ahead
<1>3. \A j \in Shown(d) : 1 <= j
  BY <1>1
<1>4. ASSUME NEW x \in Ahead(f) PROVE x \in Regular[d]
  BY <1>2, <1>4, RegularIs
<1>5. ASSUME NEW x \in Regular[d] PROVE x \in Ahead(f)
  BY <1>2, <1>3, <1>5, RegularIs
<1> QED
  BY <1>4, <1>5

(* The walk goes on by one entry in its last frame. *)
NextFrame(s, t) ==
    /\ t \in Seq(Frames) /\ DOMAIN t = DOMAIN s /\ Len(t) = Len(s) /\ t # <<>> /\ Len(s) \in DOMAIN s
    /\ t[Len(s)] = [dir |-> s[Len(s)].dir, next |-> s[Len(s)].next + 1]
    /\ \A k \in DOMAIN s : k # Len(s) => t[k] = s[k]

(* Its stack afterwards. *)
LEMMA FrameGoesOn ==
    ASSUME NEW s \in Seq(Frames), s # <<>>
    PROVE  NextFrame(s, [s EXCEPT ![Len(s)].next = s[Len(s)].next + 1])
<1> DEFINE n == Len(s)  e == [dir |-> s[n].dir, next |-> s[n].next + 1]
<1>1. n \in Nat /\ DOMAIN s = 1 .. n /\ \A k \in 1 .. n : s[k] \in Frames
  BY LenProperties, ElementOfSeq
<1>2. n \in 1 .. n
  <2>1. n # 0
    BY EmptySeq
  <2> QED
    BY <1>1, <2>1
<1>3. s[n] \in Frames /\ e \in Frames
  BY <1>1, <1>2 DEF Frames
<1>4. [s EXCEPT ![n].next = s[n].next + 1] = [s EXCEPT ![n] = e]
  <2>1. [s[n] EXCEPT !.next = s[n].next + 1] = e
    BY <1>3 DEF Frames
  <2>2. [s EXCEPT ![n].next = s[n].next + 1] = [s EXCEPT ![n] = [s[n] EXCEPT !.next = s[n].next + 1]]
    OBVIOUS
  <2> QED
    BY <2>1, <2>2
<1> SUFFICES ASSUME NEW t, t = [s EXCEPT ![n] = e] PROVE NextFrame(s, t)
  BY <1>4
<1>5. t \in Seq(Frames) /\ Len(t) = n /\ \A j \in 1 .. n : t[j] = IF j = n THEN e ELSE s[j]
  <2> HIDE DEF n, e
  <2>1. n = Len(s)
    BY DEF n
  <2> QED
    BY <1>2, <1>3, <2>1, ExceptSeq
<1>6. DOMAIN t = 1 .. n
  BY <1>5, LenProperties
<1>7. t # <<>>
  BY <1>2, <1>6
<1> QED
  BY <1>1, <1>2, <1>5, <1>6, <1>7 DEF NextFrame

(* Then the entry it has left is clear of all that is ahead. *)
LEMMA ClearNext ==
    ASSUME NEW s \in Seq(Frames), NEW t, NextFrame(s, t), NEW seen, Clear(s, seen),
           NEW d, d = s[Len(s)].dir, NEW n, n = s[Len(s)].next
    PROVE  /\ Clear(t, seen) /\ d \in DOMAIN Entries
           /\ n \in Shown(d) => Apart(t, Below(Entries[d][n]), seen)
<1> SUFFICES ASSUME NEW m, m = Len(s)
             PROVE  /\ Clear(t, seen) /\ d \in DOMAIN Entries
                    /\ n \in Shown(d) => Apart(t, Below(Entries[d][n]), seen)
  OBVIOUS
<1>1. m \in DOMAIN s /\ DOMAIN t = DOMAIN s /\ t[m] = [dir |-> d, next |-> n + 1] /\ \A k \in DOMAIN s : k # m => t[k] = s[k]
  BY DEF NextFrame
<1>2. s[m] \in Frames
  BY <1>1, LenProperties, ElementOfSeq
<1>3. d \in DOMAIN Entries /\ n \in Nat \ {0} /\ s[m] = [dir |-> d, next |-> n]
  BY <1>2 DEF Frames
<1>4. /\ Ahead(t[m]) \subseteq Ahead(s[m])
      /\ n \in Shown(d) => Below(Entries[d][n]) \subseteq Ahead(s[m]) /\ Below(Entries[d][n]) \cap Ahead(t[m]) = {}
  BY <1>1, <1>3, AheadNext
<1>5. \A k \in DOMAIN s : Ahead(t[k]) \subseteq Ahead(s[k])
  BY <1>1, <1>4
<1>6. Clear(t, seen)
  <2>1. \A k \in DOMAIN s : Ahead(s[k]) \subseteq Regular[Root] /\ Ahead(s[k]) \cap seen = {}
    BY DEF Clear
  <2>2. \A k, l \in DOMAIN s : k # l => Ahead(s[k]) \cap Ahead(s[l]) = {}
    BY DEF Clear
  <2>3. \A k \in DOMAIN t : Ahead(t[k]) \subseteq Regular[Root] /\ Ahead(t[k]) \cap seen = {}
    BY <1>1, <1>5, <2>1
  <2>4. \A k, l \in DOMAIN t : k # l => Ahead(t[k]) \cap Ahead(t[l]) = {}
    BY <1>1, <1>5, <2>2
  <2> QED
    BY <2>3, <2>4 DEF Clear
<1>7. ASSUME n \in Shown(d) PROVE Apart(t, Below(Entries[d][n]), seen)
  <2> SUFFICES ASSUME NEW b, b = Below(Entries[d][n]) PROVE Apart(t, b, seen)
    OBVIOUS
  <2>1. b \subseteq Ahead(s[m]) /\ b \cap Ahead(t[m]) = {}
    BY <1>4, <1>7
  <2>2. b \subseteq Regular[Root] /\ b \cap seen = {}
    BY <1>1, <2>1 DEF Clear
  <2>3. \A k \in DOMAIN s : k # m => b \cap Ahead(s[k]) = {}
    BY <1>1, <2>1 DEF Clear
  <2> QED
    BY <1>1, <2>1, <2>2, <2>3 DEF Apart
<1> QED
  BY <1>3, <1>6, <1>7

(* A directory is entered. *)
LEMMA ClearEntered ==
    ASSUME NEW s \in Seq(Frames), NEW seen, Clear(s, seen), NEW d \in DOMAIN Entries, Apart(s, Regular[d], seen),
           NEW t, t = Append(s, [dir |-> d, next |-> 1])
    PROVE  t \in Seq(Frames) /\ Len(t) = Len(s) + 1 /\ Clear(t, seen)
<1> DEFINE f == [dir |-> d, next |-> 1]
<1>1. f \in Frames /\ Ahead(f) = Regular[d]
  BY AheadFirst DEF Frames
<1> HIDE DEF f
<1>2. t = Append(s, f)
  BY DEF f
<1> SUFFICES ASSUME NEW m, m = Len(s) PROVE t \in Seq(Frames) /\ Len(t) = m + 1 /\ Clear(t, seen)
  OBVIOUS
<1>3. t \in Seq(Frames) /\ Len(t) = m + 1 /\ (\A i \in 1 .. m : t[i] = s[i]) /\ t[m + 1] = f
  BY <1>1, <1>2, AppendProperties
<1>4. m \in Nat /\ DOMAIN s = 1 .. m
  BY LenProperties
<1>5. DOMAIN t = 1 .. m + 1
  BY <1>3, LenProperties
<1>6. \A k \in DOMAIN t : (k \in DOMAIN s /\ t[k] = s[k]) \/ (k = m + 1 /\ t[k] = f)
  BY <1>3, <1>4, <1>5
<1>7. \A k \in DOMAIN s : Ahead(s[k]) \subseteq Regular[Root] /\ Ahead(s[k]) \cap seen = {} /\ Ahead(f) \cap Ahead(s[k]) = {}
  BY <1>1 DEF Clear, Apart
<1>8. Ahead(f) \subseteq Regular[Root] /\ Ahead(f) \cap seen = {}
  BY <1>1 DEF Apart
<1>9. \A k \in DOMAIN t : Ahead(t[k]) \subseteq Regular[Root] /\ Ahead(t[k]) \cap seen = {}
  BY <1>6, <1>7, <1>8
<1>10. \A k, l \in DOMAIN t : k # l => Ahead(t[k]) \cap Ahead(t[l]) = {}
  <2>1. \A k, l \in DOMAIN s : k # l => Ahead(s[k]) \cap Ahead(s[l]) = {}
    BY DEF Clear
  <2> QED
    BY <1>6, <1>7, <2>1
<1> QED
  BY <1>3, <1>9, <1>10 DEF Clear

(* A file is seen that was ahead in no frame. *)
LEMMA ClearSeen ==
    ASSUME NEW s, NEW seen, Clear(s, seen), NEW x, Apart(s, {x}, seen)
    PROVE  Clear(s, seen \cup {x})
BY DEF Clear, Apart

(* A frame is left. *)
LEMMA ClearLeft ==
    ASSUME NEW s \in Seq(Frames), s # <<>>, NEW seen, Clear(s, seen), NEW t, t = Front(s)
    PROVE  t \in Seq(Frames) /\ Len(t) = Len(s) - 1 /\ Clear(t, seen)
<1> SUFFICES ASSUME NEW m, m = Len(s) PROVE t \in Seq(Frames) /\ Len(t) = m - 1 /\ Clear(t, seen)
  OBVIOUS
<1>1. m \in Nat /\ DOMAIN s = 1 .. m /\ m # 0
  BY LenProperties, EmptySeq
<1>2. t = SubSeq(s, 1, m - 1)
  BY DEF Front
<1>3. t \in Seq(Frames) /\ Len(t) = m - 1 /\ \A i \in 1 .. m - 1 : t[i] = s[i]
  BY <1>1, <1>2
<1>4. DOMAIN t = 1 .. m - 1
  BY <1>3, LenProperties
<1>5. \A k \in DOMAIN t : k \in DOMAIN s /\ t[k] = s[k]
  BY <1>1, <1>3, <1>4
<1> QED
  BY <1>3, <1>5 DEF Clear

(* A file joins those that were seen. *)
SeenNow(now, seen, x, S) == now \in Seq(S) /\ IsInjective(now) /\ ToSet(now) = ToSet(seen) \cup {x}

(* It is in the list just once. *)
LEMMA SeenOnce ==
    ASSUME NEW S, NEW seen \in Seq(S), IsInjective(seen), NEW x \in S, x \notin ToSet(seen)
    PROVE  SeenNow(Append(seen, x), seen, x, S)
<1> SUFFICES ASSUME NEW now, now = Append(seen, x), NEW m, m = Len(seen)
             PROVE  now \in Seq(S) /\ IsInjective(now) /\ ToSet(now) = ToSet(seen) \cup {x}
  BY DEF SeenNow
<1>1. now \in Seq(S) /\ Len(now) = m + 1 /\ (\A i \in 1 .. m : now[i] = seen[i]) /\ now[m + 1] = x
  BY AppendProperties
<1>2. m \in Nat /\ DOMAIN seen = 1 .. m /\ DOMAIN now = 1 .. m + 1
  BY <1>1, LenProperties
<1>3. \A k \in DOMAIN now : (k \in DOMAIN seen /\ now[k] = seen[k]) \/ (k = m + 1 /\ now[k] = x)
  BY <1>1, <1>2
<1>4. \A k \in DOMAIN seen : k \in DOMAIN now /\ now[k] = seen[k] /\ seen[k] # x
  BY <1>1, <1>2 DEF ToSet
<1>5. IsInjective(now)
  <2>1. \A k, l \in DOMAIN seen : seen[k] = seen[l] => k = l
    BY DEF IsInjective
  <2> QED
    BY <1>3, <1>4, <2>1 DEF IsInjective
<1>6. m + 1 \in DOMAIN now
  BY <1>2
<1>7. ToSet(now) = ToSet(seen) \cup {x}
  BY <1>1, <1>3, <1>4, <1>6 DEF ToSet
<1> QED
  BY <1>1, <1>5, <1>7

(* What keeps the invariant of the walk, said of the walk that follows.    *)
WalkGood(w) ==
    /\ w \in Walks /\ Clear(w.stack, ToSet(w.seen)) /\ IsInjective(w.seen) /\ w.open = Len(w.stack) + w.stops
    /\ w.started = TRUE

(* Everything seen is below the root. *)
LEMMA WalkGoodInv == ASSUME WalkGood(walk') PROVE WalkIInv'
<1>1. ToSet(walk'.seen) \subseteq Regular[Root]
  BY ElementOfSeq DEF ToSet, WalkGood, Walks
<1> QED
  BY <1>1 DEF WalkGood, WalkIInv, ListsOnce

(* A directory is entered, if it can be read. *)
LEMMA EnterGood ==
    ASSUME NEW w, WalkGood(w), NEW d \in DOMAIN Entries, Apart(w.stack, Regular[d], ToSet(w.seen)),
           NEW v \in Enter(w, d)
    PROVE  WalkGood(v)
<1>1. w \in Walks /\ Clear(w.stack, ToSet(w.seen)) /\ IsInjective(w.seen) /\ w.open = Len(w.stack) + w.stops /\ w.started = TRUE
  BY DEF WalkGood
<1> SUFFICES ASSUME v = [w EXCEPT !.stack = Append(w.stack, [dir |-> d, next |-> 1]), !.open = w.open + 1] PROVE WalkGood(v)
  BY DEF Enter
<1> SUFFICES ASSUME NEW s, s = w.stack, NEW t, t = Append(s, [dir |-> d, next |-> 1]) PROVE WalkGood(v)
  OBVIOUS
<1>2. s \in Seq(Frames) /\ Clear(s, ToSet(w.seen)) /\ Apart(s, Regular[d], ToSet(w.seen))
  BY <1>1 DEF Walks
<1>3. t \in Seq(Frames) /\ Len(t) = Len(s) + 1 /\ Clear(t, ToSet(w.seen))
  BY <1>2, ClearEntered
<1>4. Len(s) \in Nat /\ w.open \in Int /\ w.stops \in Int /\ w.open + 1 \in Int
  BY <1>1, <1>2, LenProperties DEF Walks
<1>5. /\ v \in Walks /\ v.stack = t /\ v.seen = w.seen /\ v.open = w.open + 1 /\ v.stops = w.stops /\ v.started = TRUE
  BY <1>1, <1>3, <1>4 DEF Walks
<1>6. v.open = Len(t) + v.stops
  BY <1>1, <1>3, <1>4, <1>5
<1> QED
  BY <1>1, <1>3, <1>5, <1>6 DEF WalkGood

(* A frame is left, with or without its directory being closed. *)
LEMMA LeaveGood ==
    ASSUME NEW w, WalkGood(w), w.stack # <<>>, NEW open \in Int, NEW stops \in Int, open - stops = w.open - w.stops - 1,
           NEW v, v = [w EXCEPT !.stack = Front(w.stack), !.open = open, !.stops = stops]
    PROVE  WalkGood(v)
<1>1. w \in Walks /\ Clear(w.stack, ToSet(w.seen)) /\ IsInjective(w.seen) /\ w.open = Len(w.stack) + w.stops /\ w.started = TRUE
  BY DEF WalkGood
<1> SUFFICES ASSUME NEW s, s = w.stack, NEW t, t = Front(s) PROVE WalkGood(v)
  OBVIOUS
<1>2. s \in Seq(Frames) /\ Clear(s, ToSet(w.seen)) /\ s # <<>>
  BY <1>1 DEF Walks
<1>3. t \in Seq(Frames) /\ Len(t) = Len(s) - 1 /\ Clear(t, ToSet(w.seen))
  BY <1>2, ClearLeft
<1>4. /\ v \in Walks /\ v.stack = t /\ v.seen = w.seen /\ v.open = open /\ v.stops = stops /\ v.started = TRUE
  BY <1>1, <1>3 DEF Walks
<1>5. Len(s) \in Nat /\ w.open \in Int /\ w.stops \in Int
  BY <1>1, <1>2, LenProperties DEF Walks
<1>6. v.open = Len(t) + v.stops
  BY <1>1, <1>3, <1>4, <1>5
<1> QED
  BY <1>1, <1>3, <1>4, <1>6 DEF WalkGood

(* A file is seen. *)
LEMMA SeeGood ==
    ASSUME NEW w, WalkGood(w), NEW x, Apart(w.stack, {x}, ToSet(w.seen)),
           NEW v, v = [w EXCEPT !.seen = Append(w.seen, x)]
    PROVE  WalkGood(v)
<1>1. w \in Walks /\ Clear(w.stack, ToSet(w.seen)) /\ IsInjective(w.seen) /\ w.open = Len(w.stack) + w.stops /\ w.started = TRUE
  BY DEF WalkGood
<1>2. w.seen \in Seq(Regular[Root]) /\ x \in Regular[Root] /\ x \notin ToSet(w.seen)
  BY <1>1 DEF Walks, Apart
<1> SUFFICES ASSUME NEW R, R = Regular[Root], NEW seen, seen = w.seen, NEW now, now = Append(seen, x) PROVE WalkGood(v)
  OBVIOUS
<1>3. now \in Seq(R) /\ IsInjective(now) /\ ToSet(now) = ToSet(seen) \cup {x}
  <2>1. seen \in Seq(R) /\ IsInjective(seen) /\ x \in R /\ x \notin ToSet(seen)
    BY <1>1, <1>2
  <2>2. SeenNow(Append(seen, x), seen, x, R)
    BY <2>1, SeenOnce
  <2> QED
    BY <2>2 DEF SeenNow
<1>4. Clear(w.stack, ToSet(now))
  <2>1. Clear(w.stack, ToSet(w.seen) \cup {x})
    BY <1>1, ClearSeen
  <2> QED
    BY <1>3, <2>1
<1>5. v \in Walks /\ v.stack = w.stack /\ v.seen = now /\ v.open = w.open /\ v.stops = w.stops /\ v.started = TRUE
  BY <1>1, <1>3 DEF Walks
<1> QED
  BY <1>1, <1>3, <1>4, <1>5 DEF WalkGood

(* Taking one more away is taking away and then one. *)
LEMMA StopsAdd == \A a \in Int, b \in Int : b + 1 \in Int /\ a - (b + 1) = a - b - 1
OBVIOUS

(* One entry of a directory. *)
LEMMA WalkStepInv == ASSUME WalkIInv, WalkStep PROVE WalkIInv'
<1>1. WalkGood(walk) /\ walk \in Walks /\ walk.stack # <<>>
  <2>1. walk \in Walks /\ walk.stack # <<>> /\ walk.started \in BOOLEAN
    BY DEF WalkIInv, WalkStep, Walks
  <2>2. walk.started = TRUE
    BY <2>1 DEF WalkIInv
  <2> QED
    BY <2>1, <2>2 DEF WalkIInv, ListsOnce, WalkGood
<1> SUFFICES WalkGood(walk')
  BY WalkGoodInv
<1> SUFFICES ASSUME NEW s, s = walk.stack, NEW t, t = [s EXCEPT ![Len(s)].next = s[Len(s)].next + 1],
                    NEW d, d = s[Len(s)].dir, NEW n, n = s[Len(s)].next, NEW seen, seen = ToSet(walk.seen),
                    NEW on, on = [walk EXCEPT !.stack = t]
             PROVE  WalkGood(walk')
  OBVIOUS
<1>2. s \in Seq(Frames) /\ s # <<>> /\ Clear(s, seen)
  BY <1>1 DEF WalkGood, Walks
<1>3. NextFrame(s, t)
  BY <1>2, FrameGoesOn
<1>4. /\ Clear(t, seen) /\ d \in DOMAIN Entries
      /\ n \in Shown(d) => Apart(t, Below(Entries[d][n]), seen)
  BY <1>2, <1>3, ClearNext
<1>5. t \in Seq(Frames) /\ Len(t) = Len(s) /\ t # <<>>
  BY <1>3 DEF NextFrame
<1>6. /\ on \in Walks /\ on.stack = t /\ on.seen = walk.seen /\ on.open = walk.open /\ on.stops = walk.stops
      /\ on.started = walk.started
  BY <1>1, <1>5 DEF Walks
<1>7. WalkGood(on)
  BY <1>1, <1>4, <1>5, <1>6 DEF WalkGood
<1>8. n \in Nat \ {0}
  <2>1. Len(s) \in DOMAIN s
    BY <1>3 DEF NextFrame
  <2>2. s[Len(s)] \in Frames
    BY <1>2, <2>1, LenProperties, ElementOfSeq
  <2> QED
    BY <2>2 DEF Frames
<1> DEFINE e == Entries[d][n]
<1>9. IF n > Len(Entries[d]) THEN walk' = Closed(walk)
      ELSE CASE e.hidden -> walk' = on
             [] ~e.hidden /\ e.kind = "dir"  -> walk' \in Enter(on, e.name)
             [] ~e.hidden /\ e.kind = "file" ->
                  \/ walk' = [on EXCEPT !.seen = Append(@, e.name)]
                  \/ walk' = [on EXCEPT !.seen = Append(@, e.name), !.stack = Front(@), !.stops = @ + 1]
             [] OTHER -> walk' = on
  <2>1. on = [walk EXCEPT !.stack[Len(walk.stack)].next = n + 1]
    OBVIOUS
  <2>2. Last(walk.stack) = s[Len(s)]
    BY DEF Last
  <2> QED
    BY <2>1, <2>2 DEF WalkStep
<1>10. walk.open \in Int /\ walk.stops \in Int
  BY <1>1 DEF Walks
<1>11. CASE n > Len(Entries[d])
  <2>1. walk' = [walk EXCEPT !.stack = Front(walk.stack), !.open = walk.open - 1, !.stops = walk.stops]
    BY <1>1, <1>9, <1>11 DEF Closed, Walks
  <2>2. walk.open - 1 \in Int /\ (walk.open - 1) - walk.stops = walk.open - walk.stops - 1
    BY <1>10
  <2> QED
    BY <1>1, <1>10, <2>1, <2>2, LeaveGood
<1>12. CASE ~(n > Len(Entries[d])) /\ e.hidden
  BY <1>7, <1>9, <1>12
<1>13. CASE ~(n > Len(Entries[d])) /\ ~e.hidden /\ e.kind \notin {"dir", "file"}
  BY <1>7, <1>9, <1>13
<1>14. ASSUME ~(n > Len(Entries[d])), ~e.hidden, e.kind \in {"dir", "file"}
       PROVE  n \in Shown(d) /\ Apart(on.stack, Below(e), ToSet(on.seen))
  <2>1. Entries[d] \in Seq(ToSet(Entries[d]))
    BY <1>4, EntriesAssumption
  <2>2. DOMAIN Entries[d] = 1 .. Len(Entries[d]) /\ Len(Entries[d]) \in Nat
    BY <2>1, LenProperties
  <2>3. n \in DOMAIN Entries[d]
    <3> HIDE DEF e
    <3> QED
      BY <1>8, <1>14, <2>2
  <2>4. n \in Shown(d)
    BY <1>14, <2>3, Zenon DEF Shown
  <2> QED
    BY <1>4, <1>6, <2>4
<1>15. CASE ~(n > Len(Entries[d])) /\ ~e.hidden /\ e.kind = "dir"
  <2>1. n \in Shown(d) /\ Apart(on.stack, Below(e), ToSet(on.seen))
    BY <1>14, <1>15
  <2>2. Apart(on.stack, Regular[e.name], ToSet(on.seen))
    BY <1>15, <2>1 DEF Below
  <2>3. e.name \in DOMAIN Entries
    BY <1>4, <1>15, <2>1, EntriesAssumption
  <2>4. walk' \in Enter(on, e.name)
    BY <1>9, <1>15
  <2> HIDE DEF e
  <2> QED
    BY <1>7, <2>2, <2>3, <2>4, EnterGood
<1>16. CASE ~(n > Len(Entries[d])) /\ ~e.hidden /\ e.kind = "file"
  <2>1. Apart(on.stack, Below(e), ToSet(on.seen))
    BY <1>14, <1>16
  <2> SUFFICES ASSUME NEW x, x = e.name PROVE WalkGood(walk')
    OBVIOUS
  <2>2. Apart(on.stack, {x}, ToSet(on.seen))
    BY <1>16, <2>1 DEF Below
  <2> SUFFICES ASSUME NEW v, v = [on EXCEPT !.seen = Append(on.seen, x)] PROVE WalkGood(walk')
    OBVIOUS
  <2>3. WalkGood(v)
    BY <1>7, <2>2, SeeGood
  <2>4. v \in Walks /\ v.stack = t /\ v.open = walk.open /\ v.stops = walk.stops
    BY <1>6, <2>3 DEF WalkGood, Walks
  <2>5. walk' = v \/ walk' = [on EXCEPT !.seen = Append(@, x), !.stack = Front(@), !.stops = @ + 1]
    BY <1>9, <1>16
  <2>6. CASE walk' = [on EXCEPT !.seen = Append(@, x), !.stack = Front(@), !.stops = @ + 1]
    <3>1. walk' = [v EXCEPT !.stack = Front(v.stack), !.open = v.open, !.stops = v.stops + 1]
      BY <1>6, <2>4, <2>6 DEF Walks
    <3>2. v.open \in Int /\ v.stops + 1 \in Int /\ v.open - (v.stops + 1) = v.open - v.stops - 1 /\ v.stack # <<>>
      <4>1. v.open \in Int /\ v.stops \in Int /\ v.stack # <<>>
        BY <1>5, <1>10, <2>4
      <4>2. \A a \in Int, b \in Int : b + 1 \in Int /\ a - (b + 1) = a - b - 1
        BY StopsAdd
      <4> QED
        BY <4>1, <4>2, Zenon
    <3> QED
      BY <2>3, <3>1, <3>2, LeaveGood
  <2> QED
    BY <2>3, <2>5, <2>6
<1> QED
  BY <1>11, <1>12, <1>13, <1>15, <1>16

(* A listing begins. *)
LEMMA StartWalkInv == ASSUME WalkIInv, StartWalk PROVE WalkIInv'
<1> SUFFICES ASSUME NEW w, w = [walk EXCEPT !.started = TRUE] PROVE WalkGood(walk')
  BY WalkGoodInv
<1>1. /\ walk \in Walks /\ Clear(walk.stack, ToSet(walk.seen)) /\ IsInjective(walk.seen)
      /\ walk.open = Len(walk.stack) + walk.stops /\ walk.stack = <<>> /\ walk.seen = <<>>
  BY DEF WalkIInv, ListsOnce, StartWalk
<1>2. w \in Walks /\ w.stack = <<>> /\ w.seen = <<>> /\ w.open = walk.open /\ w.stops = walk.stops /\ w.started = TRUE
  BY <1>1 DEF Walks
<1>3. WalkGood(w)
  BY <1>1, <1>2 DEF WalkGood
<1>4. ToSet(<<>>) = {} /\ DOMAIN <<>> = {}
  BY DEF ToSet
<1>5. Apart(w.stack, Regular[Root], ToSet(w.seen))
  BY <1>2, <1>4 DEF Apart
<1>6. walk' \in Enter(w, Root) /\ Root \in DOMAIN Entries
  BY EntriesAssumption DEF StartWalk
<1> QED
  BY <1>3, <1>5, <1>6, EnterGood

(* No listing has begun. *)
LEMMA WalkInit == ASSUME walk = NoWalk PROVE WalkIInv
<1>1. DOMAIN <<>> = {} /\ Len(<<>>) = 0 /\ <<>> \in Seq(Frames) /\ <<>> \in Seq(Regular[Root])
  OBVIOUS
<1>2. walk \in Walks /\ walk.stack = <<>> /\ walk.seen = <<>> /\ walk.open = 0 /\ walk.stops = 0 /\ ~walk.started
  BY <1>1 DEF NoWalk, Walks
<1>3. ToSet(<<>>) = {} /\ IsInjective(<<>>)
  BY <1>1 DEF ToSet, IsInjective
<1>4. Clear(<<>>, {})
  BY <1>1 DEF Clear
<1> QED
  BY <1>1, <1>2, <1>3, <1>4 DEF WalkIInv, ListsOnce

(* Nothing of the listing changes. *)
LEMMA WalkStays == ASSUME WalkIInv, walk' = walk PROVE WalkIInv'
BY DEF WalkIInv, ListsOnce

(* The sizes and places in an archive are numbers. *)
LEMMA LocalSizes ==
    ASSUME NEW e \in Entry
    PROVE  /\ LocalSize(e) \in Nat /\ e.nameLen \in Nat /\ e.localExtra \in Nat
           /\ LocalSize(e) >= Header + e.nameLen + e.localExtra
<1>1. e.nameLen \in Lengths4Zip /\ e.localExtra \in Lengths4Zip /\ e.compressed \in Lengths4Zip \cup {0}
  BY DEF Entry
<1>2. \A n \in Lengths4Zip : n \in Nat
  BY ZipAssumption
<1>3. e.nameLen \in Nat /\ e.localExtra \in Nat /\ e.compressed \in Nat
  BY <1>1, <1>2
<1> QED
  BY <1>3 DEF LocalSize, Header

(* Where the local parts of the first k entries end. *)
EndSteps(f, entries) ==
    f = [k \in 0 .. Len(entries) |-> IF k = 0 THEN 0 ELSE f[k - 1] + LocalSize(entries[k])]

(* There is such a function, of numbers. *)
LEMMA EndsExist ==
    ASSUME NEW entries \in Seq(Entry)
    PROVE  \E f : EndSteps(f, entries)
<1> DEFINE m == Len(entries)
           G == [n \in 1 .. m |-> [q \in Nat |-> q + LocalSize(entries[n])]]
<1>1. m \in Nat /\ \A n \in 1 .. m : LocalSize(entries[n]) \in Nat
  BY LenProperties, ElementOfSeq, LocalSizes
<1>2. \A n \in 1 .. m, q \in Nat : G[n][q] = q + LocalSize(entries[n]) /\ q + LocalSize(entries[n]) \in Nat
  BY <1>1
<1>3. G \in [1 .. m -> [Nat -> Nat]]
  BY <1>2
<1> HIDE DEF m, G
<1>4. PICK p : StepsOf(p, G, Nat, 0, m)
  <2>1. 0 \in Nat
    OBVIOUS
  <2> QED
    BY <1>1, <1>3, <2>1, StepsExist, Zenon
<1> DEFINE body(k) == IF k = 0 THEN 0 ELSE p[k - 1] + LocalSize(entries[k])
<1>5. ASSUME NEW k \in 0 .. m PROVE p[k] = body(k)
  <2>1. CASE k = 0
    BY <1>4, <2>1 DEF StepsOf
  <2>2. CASE k # 0
    <3>1. k \in 1 .. m /\ k - 1 \in 0 .. m
      BY <1>1, <2>2
    <3>2. p[k - 1] \in Nat /\ p[k] = G[k][p[k - 1]]
      BY <1>4, <3>1 DEF StepsOf
    <3> QED
      BY <1>2, <2>2, <3>1, <3>2
  <2> QED
    BY <2>1, <2>2
<1>6. p = [k \in 0 .. m |-> p[k]]
  BY <1>4 DEF StepsOf
<1>7. p = [k \in 0 .. m |-> body(k)]
  <2> HIDE DEF body
  <2> QED
    BY <1>5, <1>6
<1> QED
  BY <1>7, Zenon DEF EndSteps, m

(* Data that begins within its own local part begins before that of a      *)
(* later one.                                                              *)
LEMMA DataBefore ==
    ASSUME NEW a \in Nat, NEW z \in Nat, NEW b \in Nat, a + z <= b,
           NEW c \in Nat, NEW d \in Nat, z >= Header + c + d, NEW g \in Nat, NEW h \in Nat
    PROVE  a + Header + c + d < b + Header + g + h
BY DEF Header

(* The data of each entry begins behind that of the entries before it. *)
LEMMA DataInOrder ==
    ASSUME NEW entries \in Seq(Entry)
    PROVE  \A i \in 1 .. Len(entries) :
               DataAt(entries, i) \in Nat /\ \A j \in 1 .. Len(entries) : i < j => DataAt(entries, i) < DataAt(entries, j)
<1> DEFINE f == CHOOSE q : EndSteps(q, entries)
           m == Len(entries)
<1>1. \A i : LocalAt(entries, i) = f[i - 1]
  BY DEF LocalAt, EndSteps
<1>2. EndSteps(f, entries)
  BY EndsExist, Zenon
<1>3. m \in Nat /\ \A n \in 1 .. m : entries[n] \in Entry
  BY LenProperties, ElementOfSeq
<1> HIDE DEF f
<1> SUFFICES ASSUME NEW size, size = [n \in 1 .. m |-> LocalSize(entries[n])]
             PROVE  \A i \in 1 .. m : /\ DataAt(entries, i) \in Nat
                                     /\ \A j \in 1 .. m : i < j => DataAt(entries, i) < DataAt(entries, j)
  OBVIOUS
<1>4. \A n \in 1 .. m : size[n] \in Nat /\ size[n] = LocalSize(entries[n])
  BY <1>3, LocalSizes
<1>5. f[0] = 0 /\ \A k \in 1 .. m : f[k] = f[k - 1] + size[k]
  <2>1. \A k \in 0 .. m : f[k] = IF k = 0 THEN 0 ELSE f[k - 1] + LocalSize(entries[k])
    BY <1>2 DEF EndSteps
  <2>2. \A k \in 1 .. m : k # 0 /\ k \in 0 .. m
    BY <1>3
  <2>3. 0 \in 0 .. m
    BY <1>3
  <2> QED
    BY <1>4, <2>1, <2>2, <2>3
<1> HIDE DEF m
<1>6. ASSUME NEW i \in 0 .. m PROVE f[i] \in Nat /\ \A k \in i .. m : f[k] \in Nat /\ f[i] <= f[k]
  <2>1. \A k \in 0 .. m : f[k] \in Nat
    <3> DEFINE Bad == {k \in 0 .. m : f[k] \notin Nat}
    <3> SUFFICES ASSUME Bad # {} PROVE FALSE
      OBVIOUS
    <3>1. PICK k \in Bad : \A x \in Bad : k <= x
      <4>1. Bad \subseteq Nat
        OBVIOUS
      <4> HIDE DEF Bad
      <4> QED
        BY <4>1, LeastNat
    <3>2. k \in 1 .. m /\ k - 1 \in 0 .. m /\ ~(k <= k - 1) /\ f[k] \notin Nat
      BY <1>3, <1>5, <3>1
    <3>3. f[k - 1] \in Nat
      BY <3>1, <3>2
    <3> QED
      BY <1>4, <1>5, <3>2, <3>3
  <2>2. \A k \in i .. m : f[i] <= f[k]
    <3> DEFINE Bad == {k \in i .. m : ~(f[i] <= f[k])}
    <3> SUFFICES ASSUME Bad # {} PROVE FALSE
      OBVIOUS
    <3>1. PICK k \in Bad : \A x \in Bad : k <= x
      <4>1. Bad \subseteq Nat
        OBVIOUS
      <4> HIDE DEF Bad
      <4> QED
        BY <4>1, LeastNat
    <3>2. k \in i .. m /\ ~(f[i] <= f[k]) /\ k # i
      BY <2>1
    <3>3. k \in 1 .. m /\ k - 1 \in i .. m /\ k - 1 \in 0 .. m /\ ~(k <= k - 1)
      BY <1>3, <3>2
    <3>4. f[i] <= f[k - 1]
      BY <3>1, <3>3
    <3>5. f[k] = f[k - 1] + size[k] /\ size[k] \in Nat /\ f[k - 1] \in Nat /\ f[i] \in Nat /\ f[k] \in Nat
      BY <1>3, <1>4, <1>5, <2>1, <3>3
    <3> QED
      BY <3>2, <3>4, <3>5
  <2> QED
    BY <1>3, <2>1, <2>2
<1>7. ASSUME NEW i \in 1 .. m, NEW j \in 1 .. m, i < j PROVE DataAt(entries, i) < DataAt(entries, j)
  <2> SUFFICES ASSUME NEW x, x = entries[i], NEW y, y = entries[j]
               PROVE  DataAt(entries, i) < DataAt(entries, j)
    OBVIOUS
  <2>1. /\ x.nameLen \in Nat /\ x.localExtra \in Nat /\ y.nameLen \in Nat /\ y.localExtra \in Nat
        /\ size[i] >= Header + x.nameLen + x.localExtra /\ size[i] \in Nat
    BY <1>3, <1>4, <1>7, LocalSizes
  <2>2. f[i] = f[i - 1] + size[i] /\ i \in 0 .. m /\ i - 1 \in 0 .. m /\ j - 1 \in i .. m
    BY <1>3, <1>5, <1>7
  <2>3. f[i] \in Nat /\ f[i - 1] \in Nat /\ f[j - 1] \in Nat /\ f[i] <= f[j - 1]
    BY <1>6, <2>2
  <2>4. /\ DataAt(entries, i) = f[i - 1] + Header + x.nameLen + x.localExtra
        /\ DataAt(entries, j) = f[j - 1] + Header + y.nameLen + y.localExtra
    BY <1>1 DEF DataAt
  <2>5. f[i - 1] + Header + x.nameLen + x.localExtra < f[j - 1] + Header + y.nameLen + y.localExtra
    <3>1. f[i - 1] + size[i] <= f[j - 1]
      BY <2>2, <2>3
    <3> QED
      BY <2>1, <2>3, <3>1, DataBefore
  <2> QED
    BY <2>4, <2>5
<1>8. ASSUME NEW i \in 1 .. m PROVE DataAt(entries, i) \in Nat
  <2>1. f[i - 1] \in Nat /\ entries[i].nameLen \in Nat /\ entries[i].localExtra \in Nat
    <3>1. i - 1 \in 0 .. m
      BY <1>3
    <3> QED
      BY <1>3, <1>6, <3>1, LocalSizes
  <2>2. DataAt(entries, i) = f[i - 1] + Header + entries[i].nameLen + entries[i].localExtra
    BY <1>1 DEF DataAt
  <2> SUFFICES ASSUME NEW a \in Nat, NEW b \in Nat, NEW c \in Nat PROVE a + Header + b + c \in Nat
    BY <2>1, <2>2
  <2> QED
    BY DEF Header
<1> QED
  BY <1>7, <1>8 DEF m

(* An archive that was read is one that an archiver can have made. *)
ZipIInv ==
    \/ zip = NoArchive
    \/ \E entries \in Seq(Entry), comment \in Comments, zip64 \in BOOLEAN :
           zip = [made |-> TRUE, entries |-> entries, comment |-> comment, zip64 |-> zip64]

(* In such an archive the data tells the entry. *)
LEMMA FoundInArchive == ASSUME ZipIInv PROVE FoundByOffset
<1> SUFFICES ASSUME zip.made PROVE FoundByOffset
  BY DEF FoundByOffset
<1>1. zip # NoArchive
  BY DEF NoArchive
<1>2. PICK entries \in Seq(Entry), comment \in Comments, zip64 \in BOOLEAN :
          zip = [made |-> TRUE, entries |-> entries, comment |-> comment, zip64 |-> zip64]
  BY <1>1 DEF ZipIInv
<1>3. zip.entries = entries /\ zip.comment = comment /\ zip.zip64 = zip64
  BY <1>2
<1>4. Len(entries) \in Nat /\ DOMAIN entries = 1 .. Len(entries)
  BY LenProperties
<1> SUFFICES ASSUME NEW i \in DOMAIN entries, NEW info, info = GetFileInfoByDataOffset(zip, DataAt(entries, i))
             PROVE  /\ info # <<>> => info[1].name = entries[i].name /\ info[1].size = entries[i].compressed
                    /\ ~zip64 /\ comment # "record" /\ entries[i].name # LongName => info # <<>>
  BY <1>3 DEF FoundByOffset
<1> DEFINE fits == {j \in listFilesInZip(zip) : ZipFileInfo(zip, j).data = DataAt(entries, i)}
<1>5. \A j : /\ ZipFileInfo(zip, j).data = DataAt(entries, j)
             /\ ZipFileInfo(zip, j).name = entries[j].name /\ ZipFileInfo(zip, j).size = entries[j].compressed
  BY <1>3 DEF ZipFileInfo, DataAt, LocalExtra
<1>6. listFilesInZip(zip) \subseteq DOMAIN entries
  BY <1>3 DEF listFilesInZip
<1>7. fits \subseteq {i}
  <2> SUFFICES ASSUME NEW j \in DOMAIN entries, DataAt(entries, j) = DataAt(entries, i), j # i PROVE FALSE
    BY <1>5, <1>6
  <2>1. i \in 1 .. Len(entries) /\ j \in 1 .. Len(entries) /\ (i < j \/ j < i)
    BY <1>4
  <2>2. DataAt(entries, i) < DataAt(entries, j) \/ DataAt(entries, j) < DataAt(entries, i)
    BY <2>1, DataInOrder
  <2>3. DataAt(entries, i) < DataAt(entries, i)
    BY <2>2
  <2>4. DataAt(entries, i) \in Int
    BY <2>1, DataInOrder
  <2> QED
    BY <2>3, <2>4
<1>8. info = IF fits = {} THEN <<>> ELSE <<ZipFileInfo(zip, Min(fits))>>
  BY DEF GetFileInfoByDataOffset
<1> HIDE DEF fits
<1>9. CASE fits = {}
  <2>1. info = <<>>
    BY <1>8, <1>9
  <2>2. ASSUME ~zip64, comment # "record", entries[i].name # LongName PROVE FALSE
    <3>1. Marks(zip) = <<>> \o <<"end">> \o <<>>
      BY <1>3, <2>2 DEF Marks
    <3>2. EndRecord(Marks(zip)) = "end"
      BY <3>1 DEF EndRecord, Last
    <3>3. TotalEntries(zip) = Len(entries)
      BY <1>3, <2>2, <3>2 DEF TotalEntries
    <3>4. TotalEntries(zip) # -1
      BY <1>4, <3>3
    <3>5. i \in listFilesInZip(zip)
      BY <1>3, <2>2, <3>4 DEF listFilesInZip
    <3> QED
      BY <1>5, <1>9, <3>5 DEF fits
  <2> QED
    BY <2>1, <2>2
<1>10. CASE fits # {}
  <2>1. fits = {i}
    BY <1>7, <1>10
  <2>2. Min(fits) = i
    <3>1. i \in Int
      BY <1>4
    <3> QED
      BY <2>1, <3>1 DEF Min
  <2>3. info = <<ZipFileInfo(zip, i)>> /\ info # <<>>
    BY <1>8, <1>10, <2>2
  <2>4. info[1] = ZipFileInfo(zip, i)
    BY <2>3
  <2> QED
    BY <1>5, <2>3, <2>4
<1> QED
  BY <1>9, <1>10

(* An archive is read. *)
LEMMA ReadArchiveInv == ASSUME ReadArchive PROVE ZipIInv'
<1>1. PICK n \in 1 .. MaxEntries : \E entries \in [1 .. n -> Entry], comment \in Comments, zip64 \in BOOLEAN :
           zip' = [made |-> TRUE, entries |-> entries, comment |-> comment, zip64 |-> zip64]
  BY DEF ReadArchive
<1>2. PICK entries \in [1 .. n -> Entry], comment \in Comments, zip64 \in BOOLEAN :
           zip' = [made |-> TRUE, entries |-> entries, comment |-> comment, zip64 |-> zip64]
  BY <1>1
<1>3. n \in Nat
  BY ZipAssumption
<1>4. entries \in Seq(Entry)
  BY <1>3
<1> QED
  BY <1>2, <1>4 DEF ZipIInv

(* The machines that read and write files, walk over directories and read  *)
(* archives, side by side.                                                 *)
FilesNext ==
    \/ (IONext \/ WalkNext) /\ UNCHANGED zip
    \/ ReadArchive /\ UNCHANGED fileVars
FilesSpec == FileInit /\ ZipInit /\ [][FilesNext]_<<fileVars, zip>>

(* Whatever stat answers, however reads and writes are cut and the file    *)
(* changes length, what has arrived is a beginning of the file and success *)
(* means all that was promised; a walk lists each file of the tree at most *)
(* once and no other, and leaves just those directories open in which a    *)
(* callback said to stop; and a library in an archive is known by the      *)
(* offset of its data.                                                     *)
THEOREM FilesCorrect == FilesSpec => []FilesInv
<1> DEFINE Inv == IOIInv /\ WalkIInv /\ ZipIInv
<1>1. FileInit /\ ZipInit => Inv
  <2> SUFFICES ASSUME FileInit, ZipInit PROVE Inv
    OBVIOUS
  <2>1. WalkIInv
    BY WalkInit DEF FileInit
  <2>2. IOIInv
    BY IOStarts
  <2> QED
    BY <2>1, <2>2 DEF ZipInit, ZipIInv
<1>2. Inv /\ [FilesNext]_<<fileVars, zip>> => Inv'
  <2> SUFFICES ASSUME Inv, [FilesNext]_<<fileVars, zip>> PROVE Inv'
    OBVIOUS
  <2>1. ASSUME zip' = zip PROVE ZipIInv'
    BY <2>1 DEF ZipIInv, NoArchive
  <2>2. source \in Nat
    BY DEF IOIInv, IOTypes
  <2>3. CASE IONext /\ UNCHANGED zip
    <3>1. walk' = walk
      BY <2>3 DEF IONext, Grow, Shrink, Begin, ReadSome, UseWhole, UsePiece, CopyPiece, SendSome
    <3> QED
      BY <2>1, <2>3, <3>1, IOKeeps, WalkStays
  <2>4. CASE WalkNext /\ UNCHANGED zip
    <3>1. source' = source /\ io' = io
      BY <2>4 DEF WalkNext, StartWalk, WalkStep
    <3>2. IOIInv'
      BY <2>2, <3>1, IOStays
    <3> QED
      BY <2>1, <2>4, <3>2, StartWalkInv, WalkStepInv DEF WalkNext
  <2>5. CASE ReadArchive /\ UNCHANGED fileVars
    <3>1. source' = source /\ io' = io /\ walk' = walk
      BY <2>5 DEF fileVars
    <3> QED
      BY <2>2, <2>5, <3>1, IOStays, WalkStays, ReadArchiveInv
  <2>6. CASE UNCHANGED <<fileVars, zip>>
    <3>1. source' = source /\ io' = io /\ walk' = walk /\ zip' = zip
      BY <2>6 DEF fileVars
    <3> QED
      BY <2>1, <2>2, <3>1, IOStays, WalkStays
  <2> QED
    BY <2>3, <2>4, <2>5, <2>6 DEF FilesNext
<1>3. Inv => FilesInv
  BY FoundInArchive DEF IOIInv, WalkIInv, FilesInv, FileInv
<1> QED
  BY <1>1, <1>2, <1>3, PTL DEF FilesSpec

-----------------------------------------------------------------------------
(* What holds at a place if it holds at all behind it holds everywhere.    *)
LEMMA Downward ==
    ASSUME NEW lo \in Nat, NEW hi \in Nat, NEW T, \A at \in lo .. hi : at + 1 .. hi \subseteq T => at \in T
    PROVE  lo .. hi \subseteq T
<1> DEFINE Bad == {d \in Nat : d <= hi - lo /\ hi - d \notin T}
<1>1. CASE Bad = {}
  <2> SUFFICES ASSUME NEW at \in lo .. hi PROVE at \in T
    OBVIOUS
  <2>1. hi - at \in Nat /\ hi - at <= hi - lo /\ hi - (hi - at) = at
    OBVIOUS
  <2> QED
    BY <1>1, <2>1
<1>2. CASE Bad # {}
  <2>1. PICK d \in Bad : \A x \in Bad : d <= x
    <3>1. Bad \subseteq Nat
      OBVIOUS
    <3> HIDE DEF Bad
    <3> QED
      BY <1>2, <3>1, LeastNat
  <2>2. d \in Nat /\ d <= hi - lo /\ hi - d \notin T /\ hi - d \in lo .. hi
    BY <2>1
  <2>3. ASSUME NEW x \in (hi - d) + 1 .. hi PROVE x \in T
    <3>1. hi - x \in Nat /\ hi - x < d /\ hi - x <= hi - lo /\ hi - (hi - x) = x
      BY <2>2
    <3>2. hi - x \notin Bad
      BY <2>1, <2>2, <3>1
    <3> QED
      BY <3>1, <3>2
  <2>4. hi - d \in T
    BY <2>2, <2>3
  <2> QED
    BY <2>2, <2>4
<1> QED
  BY <1>1, <1>2

(* Function f is built from its end: B says what stands at a place, given  *)
(* all that stands behind it.                                              *)
Behind(f, at, hi) == [x \in at + 1 .. hi |-> f[x]]
BuiltBack(f, B, lo, hi, S) == f \in [lo .. hi -> S] /\ \A at \in lo .. hi : f[at] = B[at][Behind(f, at, hi)]

(* There is such a function. *)
LEMMA BuildExists ==
    ASSUME NEW S, NEW lo \in Nat, NEW hi \in Nat, lo <= hi, NEW B,
           \A at \in lo .. hi : B[at] \in [[at + 1 .. hi -> S] -> S]
    PROVE  \E f : BuiltBack(f, B, lo, hi, S)
<1> DEFINE T == {k \in lo .. hi : \E f : BuiltBack(f, B, k, hi, S)}
<1>1. ASSUME NEW k \in lo .. hi, k + 1 .. hi \subseteq T PROVE \E f : BuiltBack(f, B, k, hi, S)
  <2>1. \E g : g \in [k + 1 .. hi -> S] /\ \A at \in k + 1 .. hi : g[at] = B[at][Behind(g, at, hi)]
    <3>1. CASE k = hi
      <4> DEFINE g == [x \in k + 1 .. hi |-> x]
      <4>1. k + 1 .. hi = {}
        BY <3>1
      <4>2. g \in [k + 1 .. hi -> S]
        BY <4>1
      <4> QED
        BY <4>1, <4>2
    <3>2. CASE k # hi
      <4>1. k + 1 \in k + 1 .. hi
        BY <3>2
      <4>2. k + 1 \in T
        BY <1>1, <4>1
      <4> QED
        BY <4>2 DEF BuiltBack
    <3> QED
      BY <3>1, <3>2
  <2>2. PICK g : g \in [k + 1 .. hi -> S] /\ \A at \in k + 1 .. hi : g[at] = B[at][Behind(g, at, hi)]
    BY <2>1
  <2>3. B[k][g] \in S
    BY <2>2
  <2> DEFINE f == [x \in k .. hi |-> IF x = k THEN B[k][g] ELSE g[x]]
  <2>4. f \in [k .. hi -> S]
    <3> SUFFICES ASSUME NEW x \in k .. hi PROVE f[x] \in S
      OBVIOUS
    <3>1. x = k \/ x \in k + 1 .. hi
      OBVIOUS
    <3> QED
      BY <2>2, <2>3, <3>1
  <2>5. f[k] = B[k][g] /\ \A x \in k + 1 .. hi : f[x] = g[x]
    OBVIOUS
  <2> HIDE DEF f
  <2>6. Behind(f, k, hi) = g
    <3>1. g = [x \in k + 1 .. hi |-> g[x]]
      BY <2>2
    <3> QED
      BY <2>5, <3>1 DEF Behind
  <2>7. ASSUME NEW at \in k + 1 .. hi PROVE f[at] = B[at][Behind(f, at, hi)]
    <3>1. \A x \in at + 1 .. hi : x \in k + 1 .. hi
      OBVIOUS
    <3>2. Behind(f, at, hi) = Behind(g, at, hi)
      BY <2>5, <3>1 DEF Behind
    <3> QED
      BY <2>2, <2>5, <3>2
  <2>8. ASSUME NEW at \in k .. hi PROVE f[at] = B[at][Behind(f, at, hi)]
    <3>1. at = k \/ at \in k + 1 .. hi
      OBVIOUS
    <3> QED
      BY <2>5, <2>6, <2>7, <3>1
  <2> QED
    BY <2>4, <2>8 DEF BuiltBack
<1>2. \A k \in lo .. hi : k + 1 .. hi \subseteq T => k \in T
  BY <1>1
<1> HIDE DEF T
<1>3. lo .. hi \subseteq T
  BY <1>2, Downward
<1>4. lo \in T
  BY <1>3
<1> QED
  BY <1>4 DEF T

(* The matches from a place on. *)
Hits(image, at, end, pattern) == {a \in at .. end - Len(pattern) : compare(image, a, pattern)}
IsLeftmost(x, hits) == IF hits = {} THEN x = 0 ELSE x \in hits /\ \A a \in hits : x <= a

(* What findInRange computes from each place on. *)
FindSteps(f, image, start, end, pattern) ==
    f = [at \in start .. end |->
            IF pattern = <<>> \/ ~Fits(at, Len(pattern), end) THEN 0
            ELSE IF compare(image, at, pattern) THEN at ELSE f[at + 1]]

(* There is such a function. *)
LEMMA FindExists ==
    ASSUME NEW image, NEW start \in Nat, NEW end \in Nat, start <= end, NEW pattern, Len(pattern) \in Nat \ {0}
    PROVE  \E f : FindSteps(f, image, start, end, pattern)
<1> DEFINE body(at, g) ==
               IF pattern = <<>> \/ ~Fits(at, Len(pattern), end) THEN 0
               ELSE IF compare(image, at, pattern) THEN at ELSE g[at + 1]
           B == [at \in start .. end |-> [g \in [at + 1 .. end -> Nat] |-> body(at, g)]]
<1>1. ASSUME NEW at \in start .. end PROVE Fits(at, Len(pattern), end) => at + 1 \in at + 1 .. end
  BY DEF Fits
<1>2. ASSUME NEW at \in start .. end, NEW g \in [at + 1 .. end -> Nat] PROVE body(at, g) \in Nat
  <2>1. Fits(at, Len(pattern), end) => g[at + 1] \in Nat
    BY <1>1
  <2> QED
    BY <2>1
<1>3. \A at \in start .. end : \A g : body(at, g) = body(at, Behind(g, at, end))
  BY <1>1 DEF Behind
<1> HIDE DEF body
<1>4. \A at \in start .. end : B[at] \in [[at + 1 .. end -> Nat] -> Nat]
  BY <1>2
<1> HIDE DEF B
<1>5. PICK f : BuiltBack(f, B, start, end, Nat)
  BY <1>4, BuildExists
<1>6. ASSUME NEW at \in start .. end PROVE f[at] = body(at, f)
  <2>1. Behind(f, at, end) \in [at + 1 .. end -> Nat]
    <3>1. \A x \in at + 1 .. end : x \in start .. end
      OBVIOUS
    <3> QED
      BY <1>5, <3>1 DEF BuiltBack, Behind
  <2>2. f[at] = B[at][Behind(f, at, end)]
    BY <1>5 DEF BuiltBack
  <2>3. f[at] = body(at, Behind(f, at, end))
    BY <2>1, <2>2 DEF B
  <2> QED
    BY <1>3, <2>3
<1>7. f = [at \in start .. end |-> f[at]]
  BY <1>5 DEF BuiltBack
<1>8. f = [at \in start .. end |-> body(at, f)]
  BY <1>6, <1>7
<1> QED
  BY <1>8, Zenon DEF FindSteps, body

(* It answers with the leftmost match. *)
LEMMA FindLeftmost ==
    ASSUME NEW image, NEW start \in Nat, NEW end \in Nat, start <= end, NEW pattern, Len(pattern) \in Nat \ {0}
    PROVE  IsLeftmost(findInRange(image, start, end, pattern), Hits(image, start, end, pattern))
<1> DEFINE f == CHOOSE q : FindSteps(q, image, start, end, pattern)
           T == {at \in start .. end : IsLeftmost(f[at], Hits(image, at, end, pattern))}
<1>1. findInRange(image, start, end, pattern) = f[start]
  BY DEF findInRange, FindSteps
<1>2. FindSteps(f, image, start, end, pattern)
  BY FindExists, Zenon
<1> HIDE DEF f
<1>3. pattern # <<>>
  BY EmptySeq
<1>4. \A at \in start .. end : f[at] = IF ~Fits(at, Len(pattern), end) THEN 0
                                       ELSE IF compare(image, at, pattern) THEN at ELSE f[at + 1]
  BY <1>2, <1>3 DEF FindSteps
<1>5. ASSUME NEW at \in start .. end, at + 1 .. end \subseteq T PROVE IsLeftmost(f[at], Hits(image, at, end, pattern))
  <2> SUFFICES ASSUME NEW n \in Nat \ {0}, n = Len(pattern), NEW C, C = {a \in Nat : compare(image, a, pattern)}
               PROVE  IsLeftmost(f[at], {a \in at .. end - n : a \in C})
    <3>1. \A a \in at .. end - Len(pattern) : a \in Nat
      OBVIOUS
    <3>2. Hits(image, at, end, pattern)
            = {a \in at .. end - Len(pattern) : a \in {b \in Nat : compare(image, b, pattern)}}
      BY <3>1, Zenon DEF Hits
    <3> QED
      BY <3>2
  <2>1. f[at] = IF ~(at + n <= end) THEN 0 ELSE IF at \in C THEN at ELSE f[at + 1]
    BY <1>4 DEF Fits
  <2>2. CASE ~(at + n <= end)
    <3>1. at .. end - n = {}
      BY <2>2
    <3> QED
      BY <2>1, <2>2, <3>1 DEF IsLeftmost
  <2>3. CASE at + n <= end /\ at \in C
    <3>1. at \in at .. end - n /\ \A a \in at .. end - n : at <= a
      BY <2>3
    <3> QED
      BY <2>1, <2>3, <3>1 DEF IsLeftmost
  <2>4. CASE at + n <= end /\ at \notin C
    <3>1. at + 1 \in at + 1 .. end
      BY <2>4
    <3>2. IsLeftmost(f[at + 1], Hits(image, at + 1, end, pattern))
      BY <1>5, <3>1
    <3>3. \A a \in at + 1 .. end - n : a \in Nat
      OBVIOUS
    <3>4. Hits(image, at + 1, end, pattern) = {a \in at + 1 .. end - n : a \in C}
      BY <3>3 DEF Hits
    <3>5. {a \in at .. end - n : a \in C} = {a \in at + 1 .. end - n : a \in C}
      BY <2>4
    <3> QED
      BY <2>1, <2>4, <3>2, <3>4, <3>5
  <2> QED
    BY <2>2, <2>3, <2>4
<1>6. \A at \in start .. end : at + 1 .. end \subseteq T => at \in T
  BY <1>5
<1> HIDE DEF T
<1>7. start .. end \subseteq T
  BY <1>6, Downward
<1>8. start \in T
  BY <1>7
<1> QED
  BY <1>1, <1>8 DEF T

(* A sequence with one element in front. *)
Fronted(t, x, s, S) ==
    /\ t \in Seq(S) /\ Len(t) = Len(s) + 1 /\ t[1] = x /\ \A i \in 1 .. Len(s) : t[i + 1] = s[i]
    /\ ToSet(t) = {x} \cup ToSet(s)

(* That is what concatenation makes. *)
LEMMA Fronts ==
    ASSUME NEW S, NEW x \in S, NEW s \in Seq(S)
    PROVE  Fronted(<<x>> \o s, x, s, S)
<1> SUFFICES ASSUME NEW t, t = <<x>> \o s, NEW m, m = Len(s) PROVE Fronted(t, x, s, S)
  OBVIOUS
<1>1. <<x>> \in Seq(S) /\ Len(<<x>>) = 1
  OBVIOUS
<1>2. t \in Seq(S) /\ Len(t) = 1 + m
  BY <1>1, ConcatProperties
<1>3. m \in Nat /\ DOMAIN s = 1 .. m /\ DOMAIN t = 1 .. m + 1
  BY <1>2, LenProperties
<1>4. t[1] = x /\ \A i \in 1 .. m : t[i + 1] = s[i]
  <2>1. \A i \in 1 .. 1 + m : t[i] = IF i <= 1 THEN <<x>>[i] ELSE s[i - 1]
    BY <1>1, ConcatProperties
  <2>2. \A i \in 1 .. m : i + 1 \in 1 .. 1 + m /\ ~(i + 1 <= 1) /\ (i + 1) - 1 = i
    BY <1>3
  <2>3. 1 \in 1 .. 1 + m
    BY <1>3
  <2> QED
    BY <2>1, <2>2, <2>3
<1>5. ToSet(t) = {x} \cup ToSet(s)
  <2>1. ASSUME NEW i \in DOMAIN t PROVE t[i] \in {x} \cup ToSet(s)
    <3>1. i = 1 \/ (i - 1 \in 1 .. m /\ (i - 1) + 1 = i)
      BY <1>3
    <3> QED
      BY <1>3, <1>4, <3>1 DEF ToSet
  <2>2. ASSUME NEW i \in DOMAIN s PROVE s[i] \in ToSet(t)
    <3>1. i + 1 \in DOMAIN t /\ t[i + 1] = s[i]
      BY <1>3, <1>4
    <3> QED
      BY <3>1 DEF ToSet
  <2>3. x \in ToSet(t)
    <3>1. 1 \in DOMAIN t
      BY <1>3
    <3> QED
      BY <1>4, <3>1 DEF ToSet
  <2>4. ASSUME NEW y \in ToSet(t) PROVE y \in {x} \cup ToSet(s)
    <3>1. PICK i \in DOMAIN t : y = t[i]
      BY DEF ToSet
    <3> QED
      BY <2>1, <3>1
  <2>5. ASSUME NEW y \in ToSet(s) PROVE y \in ToSet(t)
    <3>1. PICK i \in DOMAIN s : y = s[i]
      BY DEF ToSet
    <3> QED
      BY <2>2, <3>1
  <2> QED
    BY <2>3, <2>4, <2>5
<1> QED
  BY <1>2, <1>3, <1>4, <1>5 DEF Fronted

(* Places of a list are matches, in order and apart, and every match is    *)
(* met by one of them.                                                     *)
Covers(list, hits, n) ==
    /\ ToSet(list) \subseteq hits
    /\ \A i \in 1 .. Len(list) - 1 : list[i] + n <= list[i + 1]
    /\ \A a \in hits : \E b \in ToSet(list) : b <= a /\ a < b + n

(* A list that covers what lies behind a match, with this match in front.  *)
LEMMA CoversFront ==
    ASSUME NEW n \in Nat \ {0}, NEW hits, hits \subseteq Nat, NEW x \in hits, \A a \in hits : x <= a,
           NEW s \in Seq(Nat), Covers(s, {a \in hits : x + n <= a}, n), NEW t, Fronted(t, x, s, Nat)
    PROVE  Covers(t, hits, n)
<1> SUFFICES ASSUME NEW m, m = Len(s) PROVE Covers(t, hits, n)
  OBVIOUS
<1>1. /\ Len(t) = m + 1 /\ t[1] = x /\ (\A i \in 1 .. m : t[i + 1] = s[i])
      /\ ToSet(t) = {x} \cup ToSet(s)
  BY DEF Fronted
<1>2. m \in Nat /\ DOMAIN s = 1 .. m
  BY LenProperties
<1>3. /\ ToSet(s) \subseteq {a \in hits : x + n <= a}
      /\ \A i \in 1 .. m - 1 : s[i] + n <= s[i + 1]
      /\ \A a \in {c \in hits : x + n <= c} : \E b \in ToSet(s) : b <= a /\ a < b + n
  BY DEF Covers
<1>4. ASSUME NEW i \in 1 .. Len(t) - 1 PROVE t[i] + n <= t[i + 1]
  <2>1. CASE i = 1
    <3>1. 1 \in 1 .. m
      BY <1>1, <1>2, <2>1
    <3>2. s[1] \in ToSet(s) /\ t[2] = s[1]
      BY <1>1, <1>2, <3>1 DEF ToSet
    <3> QED
      BY <1>1, <1>3, <2>1, <3>2
  <2>2. CASE i # 1
    <3>1. i - 1 \in 1 .. m - 1 /\ i - 1 \in 1 .. m /\ i \in 1 .. m /\ (i - 1) + 1 = i
      BY <1>1, <1>2, <2>2
    <3>2. t[i] = s[i - 1] /\ t[i + 1] = s[i]
      BY <1>1, <3>1
    <3>3. s[i - 1] + n <= s[i]
      BY <1>3, <3>1
    <3> QED
      BY <3>2, <3>3
  <2> QED
    BY <2>1, <2>2
<1>5. ASSUME NEW a \in hits PROVE \E b \in ToSet(t) : b <= a /\ a < b + n
  <2>1. CASE x + n <= a
    BY <1>1, <1>3, <2>1
  <2>2. CASE ~(x + n <= a)
    <3>1. x \in Nat /\ a \in Nat /\ x <= a /\ a < x + n
      BY <2>2
    <3> QED
      BY <1>1, <3>1
  <2> QED
    BY <2>1, <2>2
<1>6. ToSet(t) \subseteq hits
  BY <1>1, <1>3
<1> QED
  BY <1>4, <1>5, <1>6 DEF Covers

(* What findBytesAll computes from each place on. *)
AllSteps(f, image, start, end, pattern) ==
    f = [at \in start .. end |->
            IF findInRange(image, at, end, pattern) = 0 THEN <<>>
            ELSE <<findInRange(image, at, end, pattern)>> \o f[Onward(findInRange(image, at, end, pattern), pattern)]]

(* The match that is found from a place on, and where the search goes on.  *)
LEMMA FoundAhead ==
    ASSUME NEW image, NEW start \in Nat \ {0}, NEW end \in Nat, NEW pattern, Len(pattern) \in Nat \ {0},
           NEW at \in start .. end, NEW found, found = findInRange(image, at, end, pattern)
    PROVE  /\ found = 0 => Hits(image, at, end, pattern) = {}
           /\ found # 0 => /\ found \in Hits(image, at, end, pattern) /\ found \in Nat
                           /\ \A a \in Hits(image, at, end, pattern) : found <= a
                           /\ Onward(found, pattern) \in at + 1 .. end
<1>1. at \in Nat /\ at # 0 /\ at <= end
  OBVIOUS
<1>2. IsLeftmost(found, Hits(image, at, end, pattern))
  BY <1>1, FindLeftmost
<1>3. \A a \in Hits(image, at, end, pattern) : a \in Nat /\ a # 0 /\ at <= a /\ a + Len(pattern) <= end
  <2>1. \A a \in Hits(image, at, end, pattern) : a \in at .. end - Len(pattern)
    BY DEF Hits
  <2> QED
    BY <1>1, <2>1
<1>4. CASE Hits(image, at, end, pattern) = {}
  BY <1>2, <1>4 DEF IsLeftmost
<1>5. CASE Hits(image, at, end, pattern) # {}
  <2>1. found \in Hits(image, at, end, pattern) /\ \A a \in Hits(image, at, end, pattern) : found <= a
    BY <1>2, <1>5 DEF IsLeftmost
  <2>2. Onward(found, pattern) \in at + 1 .. end
    BY <1>1, <1>3, <2>1 DEF Onward
  <2> QED
    BY <1>3, <2>1, <2>2
<1> QED
  BY <1>4, <1>5

(* There is such a function. *)
LEMMA AllExists ==
    ASSUME NEW image, NEW start \in Nat \ {0}, NEW end \in Nat, start <= end, NEW pattern, Len(pattern) \in Nat \ {0}
    PROVE  \E f : AllSteps(f, image, start, end, pattern) /\ f \in [start .. end -> Seq(Nat)]
<1> DEFINE found(at) == findInRange(image, at, end, pattern)
           body(at, g) == IF found(at) = 0 THEN <<>> ELSE <<found(at)>> \o g[Onward(found(at), pattern)]
           B == [at \in start .. end |-> [g \in [at + 1 .. end -> Seq(Nat)] |-> body(at, g)]]
<1>1. ASSUME NEW at \in start .. end, found(at) # 0 PROVE Onward(found(at), pattern) \in at + 1 .. end /\ found(at) \in Nat
  BY <1>1, FoundAhead
<1> HIDE DEF found
<1>2. ASSUME NEW at \in start .. end, NEW g \in [at + 1 .. end -> Seq(Nat)] PROVE body(at, g) \in Seq(Nat)
  <2>1. CASE found(at) = 0
    BY <2>1, EmptySeq
  <2>2. CASE found(at) # 0
    <3>1. found(at) \in Nat /\ g[Onward(found(at), pattern)] \in Seq(Nat)
      BY <1>1, <2>2
    <3>2. <<found(at)>> \o g[Onward(found(at), pattern)] \in Seq(Nat)
      BY <3>1, Fronts DEF Fronted
    <3> QED
      BY <2>2, <3>2
  <2> QED
    BY <2>1, <2>2
<1>3. \A at \in start .. end : \A g : body(at, g) = body(at, Behind(g, at, end))
  BY <1>1 DEF Behind
<1> HIDE DEF body
<1>4. \A at \in start .. end : B[at] \in [[at + 1 .. end -> Seq(Nat)] -> Seq(Nat)]
  BY <1>2
<1> HIDE DEF B
<1>5. PICK f : BuiltBack(f, B, start, end, Seq(Nat))
  BY <1>4, BuildExists
<1>6. ASSUME NEW at \in start .. end PROVE f[at] = body(at, f)
  <2>1. Behind(f, at, end) \in [at + 1 .. end -> Seq(Nat)]
    <3>1. \A x \in at + 1 .. end : x \in start .. end
      OBVIOUS
    <3> QED
      BY <1>5, <3>1 DEF BuiltBack, Behind
  <2>2. f[at] = B[at][Behind(f, at, end)]
    BY <1>5 DEF BuiltBack
  <2>3. f[at] = body(at, Behind(f, at, end))
    BY <2>1, <2>2 DEF B
  <2> QED
    BY <1>3, <2>3
<1>7. f = [at \in start .. end |-> f[at]] /\ f \in [start .. end -> Seq(Nat)]
  BY <1>5 DEF BuiltBack
<1>8. f = [at \in start .. end |-> body(at, f)]
  BY <1>6, <1>7
<1>9. AllSteps(f, image, start, end, pattern)
  BY <1>8, Zenon DEF AllSteps, body, found
<1> QED
  BY <1>7, <1>9

(* The matches behind a place are those from there on. *)
LEMMA HitsBehind ==
    ASSUME NEW image, NEW end \in Nat, NEW pattern, Len(pattern) \in Nat, NEW at \in Nat, NEW next \in Nat, at <= next
    PROVE  Hits(image, next, end, pattern) = {a \in Hits(image, at, end, pattern) : next <= a}
<1> SUFFICES ASSUME NEW m \in Int, m = end - Len(pattern)
             PROVE  {a \in next .. m : compare(image, a, pattern)}
                    = {a \in {b \in at .. m : compare(image, b, pattern)} : next <= a}
  BY DEF Hits
<1> HIDE DEF compare
<1>1. \A a : a \in next .. m <=> a \in at .. m /\ next <= a
  OBVIOUS
<1> QED
  BY <1>1

(* The matches that are found one behind the other meet them all.          *)
LEMMA AllCovers ==
    ASSUME NEW image, NEW start \in Nat \ {0}, NEW end \in Nat, start < end, NEW pattern, Len(pattern) \in Nat \ {0}
    PROVE  Covers(findBytesAll(image, start, end, pattern), Hits(image, start, end, pattern), Len(pattern))
<1> DEFINE f == CHOOSE q : AllSteps(q, image, start, end, pattern)
           good(at, s) == s \in Seq(Nat) /\ Covers(s, Hits(image, at, end, pattern), Len(pattern))
           T == {at \in start .. end : good(at, f[at])}
<1>1. pattern # <<>> /\ ~(start >= end)
  BY EmptySeq
<1>2. findBytesAll(image, start, end, pattern) = f[start]
  BY <1>1 DEF findBytesAll, AllSteps
<1>3. AllSteps(f, image, start, end, pattern)
  <2>1. start <= end
    OBVIOUS
  <2>2. \E q : AllSteps(q, image, start, end, pattern)
    BY <2>1, AllExists
  <2> QED
    BY <2>2, Zenon
<1> HIDE DEF f
<1>4. \A at \in start .. end :
         f[at] = IF findInRange(image, at, end, pattern) = 0 THEN <<>>
                 ELSE <<findInRange(image, at, end, pattern)>> \o f[Onward(findInRange(image, at, end, pattern), pattern)]
  BY <1>3 DEF AllSteps
<1>5. ASSUME NEW at \in start .. end, at + 1 .. end \subseteq T PROVE good(at, f[at])
  <2> SUFFICES ASSUME NEW found, found = findInRange(image, at, end, pattern),
                      NEW hits, hits = Hits(image, at, end, pattern), NEW n \in Nat \ {0}, n = Len(pattern)
               PROVE  good(at, f[at])
    OBVIOUS
  <2>1. /\ found = 0 => hits = {}
        /\ found # 0 => /\ found \in hits /\ found \in Nat /\ (\A a \in hits : found <= a)
                        /\ Onward(found, pattern) \in at + 1 .. end
    BY FoundAhead
  <2>2. f[at] = IF found = 0 THEN <<>> ELSE <<found>> \o f[Onward(found, pattern)]
    BY <1>4
  <2>3. CASE found = 0
    <3>1. <<>> \in Seq(Nat) /\ Len(<<>>) = 0 /\ ToSet(<<>>) = {}
      BY DEF ToSet
    <3>2. Covers(<<>>, hits, n)
      BY <2>1, <2>3, <3>1 DEF Covers
    <3> QED
      BY <2>2, <2>3, <3>1, <3>2
  <2>4. CASE found # 0
    <3> SUFFICES ASSUME NEW next, next = Onward(found, pattern), NEW s, s = f[next] PROVE good(at, f[at])
      OBVIOUS
    <3>1. next \in T
      BY <1>5, <2>1, <2>4
    <3>2. s \in Seq(Nat) /\ Covers(s, Hits(image, next, end, pattern), n)
      BY <3>1
    <3>3. hits \subseteq Nat
      BY DEF Hits
    <3>4. Hits(image, next, end, pattern) = {a \in hits : found + n <= a}
      <4>1. next = found + n /\ found \in Nat /\ next \in at + 1 .. end
        BY <2>1, <2>4 DEF Onward
      <4> QED
        BY <4>1, HitsBehind
    <3>5. Fronted(f[at], found, s, Nat)
      BY <2>1, <2>2, <2>4, <3>2, Fronts
    <3>6. Covers(f[at], hits, n)
      BY <2>1, <2>4, <3>2, <3>3, <3>4, <3>5, CoversFront
    <3> QED
      BY <3>5, <3>6 DEF Fronted
  <2> QED
    BY <2>3, <2>4
<1>6. \A at \in start .. end : at + 1 .. end \subseteq T => at \in T
  BY <1>5
<1> HIDE DEF T
<1>7. start .. end \subseteq T
  BY <1>6, Downward
<1>8. start \in T
  BY <1>7
<1> QED
  BY <1>2, <1>8 DEF T

(* A search for bytes answers with the leftmost match and with all. *)
LEMMA BytesFound == ASSUME FindBytes PROVE FirstIsLeftmost' /\ AllCoverMatches'
<1>1. ImageSize \in Nat /\ MaxPattern \in Nat
  BY ScanAssumption
<1>2. PICK image \in Image, start \in 1 .. ImageSize, end \in 1 .. ImageSize + 1, n \in 1 .. MaxPattern :
      \E pattern \in [1 .. n -> {<<"0", "1">>, <<"1", "0">>, Wild}] :
          query' = [kind |-> "bytes", image |-> image, start |-> start, end |-> end, pattern |-> pattern,
                    first |-> findBytesFirst(image, start, end, pattern),
                    all |-> findBytesAll(image, start, end, pattern)]
  BY DEF FindBytes
<1>3. PICK pattern \in [1 .. n -> {<<"0", "1">>, <<"1", "0">>, Wild}] :
          query' = [kind |-> "bytes", image |-> image, start |-> start, end |-> end, pattern |-> pattern,
                    first |-> findBytesFirst(image, start, end, pattern),
                    all |-> findBytesAll(image, start, end, pattern)]
  BY <1>2
<1>4. /\ query'.kind = "bytes" /\ query'.image = image /\ query'.start = start /\ query'.end = end
      /\ query'.pattern = pattern /\ query'.first = findBytesFirst(image, start, end, pattern)
      /\ query'.all = findBytesAll(image, start, end, pattern)
  BY <1>3
<1>5. start \in Nat \ {0} /\ end \in Nat /\ n \in Nat \ {0}
  BY <1>1
<1>6. Len(pattern) = n /\ pattern # <<>>
  <2>1. pattern \in Seq({<<"0", "1">>, <<"1", "0">>, Wild})
    BY <1>5
  <2> QED
    BY <1>5, <2>1, LenProperties, EmptySeq
<1> DEFINE hits == Hits(image, start, end, pattern)
<1>7. Matches(query') = hits
  BY <1>4 DEF Matches, Hits
<1>8. IsLeftmost(query'.first, hits)
  <2>1. CASE start >= end
    <3>1. query'.first = 0
      BY <1>4, <2>1 DEF findBytesFirst
    <3>2. hits = {}
      BY <1>5, <1>6, <2>1 DEF Hits
    <3> QED
      BY <3>1, <3>2 DEF IsLeftmost
  <2>2. CASE ~(start >= end)
    <3>1. query'.first = findInRange(image, start, end, pattern)
      BY <1>4, <1>6, <2>2 DEF findBytesFirst
    <3>2. start <= end
      BY <1>5, <2>2
    <3> QED
      BY <1>5, <1>6, <3>1, <3>2, FindLeftmost
  <2> QED
    BY <2>1, <2>2
<1>9. Covers(query'.all, hits, n)
  <2>1. CASE start >= end
    <3>1. query'.all = <<>>
      BY <1>4, <2>1 DEF findBytesAll
    <3>2. hits = {}
      BY <1>5, <1>6, <2>1 DEF Hits
    <3>3. Len(<<>>) = 0 /\ ToSet(<<>>) = {}
      BY DEF ToSet
    <3> QED
      BY <3>1, <3>2, <3>3 DEF Covers
  <2>2. CASE ~(start >= end)
    <3>1. start < end
      BY <1>5, <2>2
    <3> QED
      BY <1>4, <1>5, <1>6, <3>1, AllCovers
  <2> QED
    BY <2>1, <2>2
<1>10. FirstIsLeftmost'
  BY <1>7, <1>8 DEF FirstIsLeftmost, IsLeftmost, Matches
<1>11. AllCoverMatches'
  BY <1>4, <1>6, <1>7, <1>9 DEF AllCoverMatches, Covers, Matches, ToSet
<1> QED
  BY <1>10, <1>11

(* The first element of a sequence that is in a set; 0 if there is none.   *)
FirstIn(x, s, S) == IF \E i \in DOMAIN s : s[i] \in S
                    THEN x \in DOMAIN s /\ s[x] \in S /\ \A i \in DOMAIN s : s[i] \in S => x <= i
                    ELSE x = 0

(* A set of places has a least one. *)
LEMMA LeastPlace ==
    ASSUME NEW I, I \subseteq Nat, I # {}
    PROVE  Min(I) \in I /\ \A i \in I : Min(I) <= i
<1>1. \E m \in I : \A x \in I : m <= x
  BY LeastNat
<1> QED
  BY <1>1, Zenon DEF Min

(* What SelectInSeq makes of the indices it takes. *)
LEMMA FirstSelected ==
    ASSUME NEW S, NEW s, NEW m \in Nat, DOMAIN s = 1 .. m, NEW I, I = {i \in 1 .. m : s[i] \in S},
           NEW x, x = IF I # {} THEN Min(I) ELSE 0
    PROVE  FirstIn(x, s, S)
<1>1. CASE I = {}
  BY <1>1 DEF FirstIn
<1>2. CASE I # {}
  <2>1. I \subseteq Nat
    OBVIOUS
  <2>2. x \in I /\ \A i \in I : x <= i
    BY <1>2, <2>1, LeastPlace
  <2> QED
    BY <2>2 DEF FirstIn
<1> QED
  BY <1>1, <1>2

(* The first string that reads as the name. *)
LEMMA NameFirst ==
    ASSUME NEW m \in Nat, NEW X, NEW strings \in [1 .. m -> X]
    PROVE  FirstIn(FirstName(strings), strings, {NameText, LongerText})
<1> DEFINE I == {i \in 1 .. Len(strings) : strings[i] \in {NameText, LongerText}}
<1>1. Len(strings) = m /\ DOMAIN strings = 1 .. m
  BY LenProperties
<1>2. FirstName(strings) = IF I # {} THEN Min(I) ELSE 0
  BY DEF FirstName, SelectInSeq
<1> QED
  BY <1>1, <1>2, FirstSelected

(* The first word that points to it. *)
FirstWord(words, name) == SelectInSeq(words, LAMBDA w : w = name)

(* It is the first of its kind. *)
LEMMA WordFirst ==
    ASSUME NEW m \in Nat, NEW X, NEW words \in [1 .. m -> X], NEW name
    PROVE  FirstIn(FirstWord(words, name), words, {name})
<1> DEFINE I == {i \in 1 .. Len(words) : words[i] \in {name}}
<1>1. Len(words) = m /\ DOMAIN words = 1 .. m
  BY LenProperties
<1>2. FirstWord(words, name) = IF I # {} THEN Min(I) ELSE 0
  <2>1. I = {i \in 1 .. Len(words) : words[i] = name}
    OBVIOUS
  <2> HIDE DEF I
  <2> QED
    BY <2>1 DEF FirstWord, SelectInSeq
<1> QED
  BY <1>1, <1>2, FirstSelected

(* A set of one number has this number only. *)
LEMMA OneOnly ==
    ASSUME NEW m \in Nat, NEW S, S \subseteq 1 .. m, Cardinality(S) = 1
    PROVE  \E x : S = {x}
<1>1. IsFiniteSet(1 .. m)
  BY FS_Interval
<1>2. IsFiniteSet(S)
  BY <1>1, FS_Subset
<1> QED
  BY <1>2, FS_Singleton

(* What NativeFound says of one search. *)
Named(strings, words) == {i \in 1 .. 3 : words[i] # 0 /\ strings[words[i]] = NameText}
Right(strings, words) == {i \in Named(strings, words) : words[i + 1] # 0 /\ strings[words[i + 1]] = SignatureText}
NamedOnce(strings)    == Cardinality({s \in 1 .. Strings : strings[s] \in {NameText, LongerText}}) = 1
NativeGood(strings, words, found) ==
    /\ found # 0 => found \in Right(strings, words)
    /\ NamedOnce(strings) /\ Named(strings, words) = Right(strings, words) /\ Cardinality(Named(strings, words)) = 1
         => found \in Right(strings, words)

(* Name and signature are found where they are. *)
LEMMA NativeIsGood ==
    ASSUME NEW strings \in [1 .. Strings -> {NameText, SignatureText, LongerText}], NEW words \in [1 .. 4 -> 0 .. Strings]
    PROVE  NativeGood(strings, words, findRegisterNativeFn(strings, words))
<1>1. Strings \in Nat /\ NameText # LongerText
  BY ScanAssumption
<1> SUFFICES ASSUME NEW found, found = findRegisterNativeFn(strings, words),
                    NEW name, name = FirstName(strings), NEW first, first = FirstWord(words, name),
                    NEW named, named = Named(strings, words), NEW right, right = Right(strings, words)
             PROVE  /\ found # 0 => found \in right
                    /\ NamedOnce(strings) /\ named = right /\ Cardinality(named) = 1 => found \in right
  BY DEF NativeGood
<1>2. /\ named = {i \in 1 .. 3 : words[i] # 0 /\ strings[words[i]] = NameText}
      /\ right = {i \in named : words[i + 1] # 0 /\ strings[words[i + 1]] = SignatureText}
  BY DEF Named, Right
<1>3. FirstIn(name, strings, {NameText, LongerText}) /\ FirstIn(first, words, {name})
  <2>1. FirstIn(name, strings, {NameText, LongerText})
    BY <1>1, NameFirst
  <2>2. FirstIn(first, words, {name})
    <3>1. 4 \in Nat
      OBVIOUS
    <3> QED
      BY <3>1, WordFirst
  <2> QED
    BY <2>1, <2>2
<1>4. Len(words) = 4 /\ DOMAIN words = 1 .. 4 /\ DOMAIN strings = 1 .. Strings
  BY LenProperties
<1> DEFINE xref == IF name = 0 \/ strings[name] = LongerText THEN 0 ELSE first
           sign == IF xref \in {0, 4} THEN 0 ELSE words[xref + 1]
<1>5. found = IF sign # 0 /\ strings[sign] = SignatureText THEN xref ELSE 0
  BY <1>4 DEF findRegisterNativeFn, FirstWord
<1>6. ASSUME found # 0 PROVE found \in right
  <2>1. /\ name # 0 /\ strings[name] # LongerText /\ found = first /\ first \notin {0, 4}
        /\ words[first + 1] # 0 /\ strings[words[first + 1]] = SignatureText
    BY <1>5, <1>6
  <2>2. first \in 1 .. 4 /\ words[first] = name
    BY <1>3, <1>4, <2>1 DEF FirstIn
  <2>3. name \in 1 .. Strings /\ strings[name] = NameText
    BY <1>3, <1>4, <2>1 DEF FirstIn
  <2>4. first \in 1 .. 3
    BY <2>1, <2>2
  <2> QED
    BY <1>2, <2>1, <2>2, <2>3, <2>4
<1>7. ASSUME NamedOnce(strings), named = right, Cardinality(named) = 1
      PROVE  found \in right
  <2>1. PICK only : {s \in 1 .. Strings : strings[s] \in {NameText, LongerText}} = {only}
    <3>1. {s \in 1 .. Strings : strings[s] \in {NameText, LongerText}} \subseteq 1 .. Strings
      OBVIOUS
    <3> QED
      BY <1>1, <1>7, <3>1, OneOnly DEF NamedOnce
  <2>2. PICK i : named = {i}
    <3>1. named \subseteq 1 .. 3 /\ 3 \in Nat
      BY <1>2
    <3> QED
      BY <1>7, <3>1, OneOnly
  <2>3. /\ i \in 1 .. 3 /\ words[i] # 0 /\ strings[words[i]] = NameText
        /\ words[i + 1] # 0 /\ strings[words[i + 1]] = SignatureText
    BY <1>2, <1>7, <2>2
  <2>4. words[i] \in 1 .. Strings
    BY <1>1, <2>3
  <2>5. words[i] = only
    BY <2>1, <2>3, <2>4
  <2>6. name = only /\ strings[name] = NameText
    <3>1. \E s \in DOMAIN strings : strings[s] \in {NameText, LongerText}
      BY <1>4, <2>3, <2>4
    <3>2. name \in 1 .. Strings /\ strings[name] \in {NameText, LongerText}
      BY <1>3, <1>4, <3>1 DEF FirstIn
    <3> QED
      BY <2>1, <2>3, <2>5, <3>2
  <2>7. first \in 1 .. 4 /\ words[first] = name /\ first <= i
    <3>1. i \in DOMAIN words /\ words[i] \in {name}
      BY <1>4, <2>3, <2>5, <2>6
    <3> QED
      BY <1>3, <1>4, <3>1 DEF FirstIn
  <2>8. first \in 1 .. 3
    BY <2>3, <2>7
  <2>9. first = i
    <3>1. first \in named
      BY <1>2, <2>3, <2>5, <2>6, <2>7, <2>8
    <3> QED
      BY <2>2, <3>1
  <2>10. xref = i
    <3>1. name # 0 /\ strings[name] # LongerText
      BY <1>1, <2>3, <2>5, <2>6
    <3> QED
      BY <2>9, <3>1
  <2>11. sign = words[i + 1]
    <3>1. i \notin {0, 4}
      BY <2>3
    <3> QED
      BY <2>10, <3>1
  <2>12. found = i
    BY <1>5, <2>3, <2>10, <2>11
  <2> QED
    BY <1>7, <2>2, <2>12
<1> QED
  BY <1>6, <1>7

(* A native method is found by its name and signature. *)
LEMMA NativeIsFound == ASSUME FindNative PROVE NativeFound'
<1>1. PICK strings \in [1 .. Strings -> {NameText, SignatureText, LongerText}], words \in [1 .. 4 -> 0 .. Strings] :
        query' = [kind |-> "native", strings |-> strings, words |-> words,
                  found |-> findRegisterNativeFn(strings, words)]
  BY DEF FindNative
<1>2. NativeGood(strings, words, findRegisterNativeFn(strings, words))
  BY NativeIsGood
<1>3. query'.strings = strings /\ query'.words = words /\ query'.found = findRegisterNativeFn(strings, words)
  BY <1>1
<1> SUFFICES ASSUME NEW found, found = findRegisterNativeFn(strings, words) PROVE NativeFound'
  OBVIOUS
<1>4. NativeGood(query'.strings, query'.words, query'.found)
  BY <1>2, <1>3
<1> HIDE <1>1, <1>2, <1>3
<1> QED
  BY <1>4 DEF NativeFound, NativeGood, Named, Right, NamedOnce

(* What Trim makes of a text from each place on. *)
TrimSteps(f, text) ==
    f = [i \in 1 .. Len(text) + 1 |->
            IF i > Len(text) THEN <<>>
            ELSE IF text[i] = Space THEN f[i + 1]
            ELSE <<text[i]>> \o f[i + 1]]

(* There is such a function. *)
LEMMA TrimExists ==
    ASSUME NEW C, NEW text \in Seq(C)
    PROVE  \E f : TrimSteps(f, text) /\ f \in [1 .. Len(text) + 1 -> Seq(C)]
<1> DEFINE m == Len(text)
           body(i, g) == IF i > m THEN <<>> ELSE IF text[i] = Space THEN g[i + 1] ELSE <<text[i]>> \o g[i + 1]
           B == [i \in 1 .. m + 1 |-> [g \in [i + 1 .. m + 1 -> Seq(C)] |-> body(i, g)]]
<1>1. m \in Nat /\ \A i \in 1 .. m : text[i] \in C
  BY LenProperties, ElementOfSeq
<1> HIDE DEF m
<1>2. \A i \in 1 .. m + 1 : ~(i > m) => i \in 1 .. m /\ i + 1 \in i + 1 .. m + 1
  BY <1>1
<1>3. ASSUME NEW i \in 1 .. m + 1, NEW g \in [i + 1 .. m + 1 -> Seq(C)] PROVE body(i, g) \in Seq(C)
  <2>1. CASE i > m
    BY <2>1, EmptySeq
  <2>2. CASE ~(i > m)
    <3>1. text[i] \in C /\ g[i + 1] \in Seq(C)
      BY <1>1, <1>2, <2>2
    <3>2. <<text[i]>> \o g[i + 1] \in Seq(C)
      BY <3>1, Fronts DEF Fronted
    <3> QED
      BY <2>2, <3>1, <3>2
  <2> QED
    BY <2>1, <2>2
<1>4. \A i \in 1 .. m + 1 : \A g : body(i, g) = body(i, Behind(g, i, m + 1))
  BY <1>2 DEF Behind
<1> HIDE DEF body
<1>5. \A i \in 1 .. m + 1 : B[i] \in [[i + 1 .. m + 1 -> Seq(C)] -> Seq(C)]
  BY <1>3
<1> HIDE DEF B
<1>6. PICK f : BuiltBack(f, B, 1, m + 1, Seq(C))
  <2>1. 1 \in Nat /\ m + 1 \in Nat /\ 1 <= m + 1
    BY <1>1
  <2> QED
    BY <1>5, <2>1, BuildExists
<1>7. ASSUME NEW i \in 1 .. m + 1 PROVE f[i] = body(i, f)
  <2>1. Behind(f, i, m + 1) \in [i + 1 .. m + 1 -> Seq(C)]
    <3>1. \A x \in i + 1 .. m + 1 : x \in 1 .. m + 1
      BY <1>1
    <3> QED
      BY <1>6, <3>1 DEF BuiltBack, Behind
  <2>2. f[i] = B[i][Behind(f, i, m + 1)]
    BY <1>6 DEF BuiltBack
  <2>3. f[i] = body(i, Behind(f, i, m + 1))
    BY <2>1, <2>2 DEF B
  <2> QED
    BY <1>4, <2>3
<1>8. f = [i \in 1 .. m + 1 |-> f[i]] /\ f \in [1 .. m + 1 -> Seq(C)]
  BY <1>6 DEF BuiltBack
<1>9. f = [i \in 1 .. m + 1 |-> body(i, f)]
  BY <1>7, <1>8
<1>10. TrimSteps(f, text)
  BY <1>9, Zenon DEF TrimSteps, body, m
<1> QED
  BY <1>8, <1>10 DEF m

(* What IdaPattern reads from each place on. *)
DigitAt(text, i) == i <= Len(text) /\ text[i] \in Digits
IdaSteps(f, text) ==
    f = [i \in 1 .. Len(text) + 2 |->
            IF i > Len(text) THEN <<>>
            ELSE IF text[i] = "?" THEN <<Wild>> \o f[i + 1]
            ELSE IF DigitAt(text, i) /\ DigitAt(text, i + 1) THEN <<<<text[i], text[i + 1]>>>> \o f[i + 2]
            ELSE f[i + 1]]

(* There is such a function. *)
LEMMA IdaExists ==
    ASSUME NEW C, NEW text \in Seq(C), NEW P, P = (C \cup {"?"}) \X (C \cup {"?"})
    PROVE  \E f : IdaSteps(f, text) /\ f \in [1 .. Len(text) + 2 -> Seq(P)]
<1> DEFINE m == Len(text)
           body(i, g) == IF i > m THEN <<>>
                         ELSE IF text[i] = "?" THEN <<Wild>> \o g[i + 1]
                         ELSE IF DigitAt(text, i) /\ DigitAt(text, i + 1) THEN <<<<text[i], text[i + 1]>>>> \o g[i + 2]
                         ELSE g[i + 1]
           B == [i \in 1 .. m + 2 |-> [g \in [i + 1 .. m + 2 -> Seq(P)] |-> body(i, g)]]
<1>1. m \in Nat /\ \A i \in 1 .. m : text[i] \in C
  BY LenProperties, ElementOfSeq
<1>2. \A i : DigitAt(text, i + 1) => i + 1 <= m
  BY DEF DigitAt
<1> HIDE DEF m
<1>3. \A i \in 1 .. m + 2 : /\ ~(i > m) => i \in 1 .. m /\ i + 1 \in i + 1 .. m + 2
                            /\ i + 1 <= m => i + 1 \in 1 .. m /\ i + 2 \in i + 1 .. m + 2
  BY <1>1
<1>4. ASSUME NEW i \in 1 .. m + 2, NEW g \in [i + 1 .. m + 2 -> Seq(P)] PROVE body(i, g) \in Seq(P)
  <2>1. CASE i > m
    BY <2>1, EmptySeq
  <2>2. CASE ~(i > m)
    <3>1. g[i + 1] \in Seq(P) /\ text[i] \in C
      BY <1>1, <1>3, <2>2
    <3>2. <<Wild>> \o g[i + 1] \in Seq(P)
      <4>1. Wild \in P
        BY DEF Wild
      <4> QED
        BY <3>1, <4>1, Fronts DEF Fronted
    <3>3. ASSUME DigitAt(text, i + 1) PROVE <<<<text[i], text[i + 1]>>>> \o g[i + 2] \in Seq(P)
      <4>1. text[i + 1] \in C /\ g[i + 2] \in Seq(P)
        BY <1>1, <1>2, <1>3, <3>3
      <4>2. <<text[i], text[i + 1]>> \in P
        BY <3>1, <4>1
      <4> QED
        BY <4>1, <4>2, Fronts DEF Fronted
    <3> QED
      BY <2>2, <3>1, <3>2, <3>3
  <2> QED
    BY <2>1, <2>2
<1>5. \A i \in 1 .. m + 2 : \A g : body(i, g) = body(i, Behind(g, i, m + 2))
  BY <1>2, <1>3 DEF Behind
<1> HIDE DEF body
<1>6. \A i \in 1 .. m + 2 : B[i] \in [[i + 1 .. m + 2 -> Seq(P)] -> Seq(P)]
  BY <1>4
<1> HIDE DEF B
<1>7. PICK f : BuiltBack(f, B, 1, m + 2, Seq(P))
  <2>1. 1 \in Nat /\ m + 2 \in Nat /\ 1 <= m + 2
    BY <1>1
  <2> QED
    BY <1>6, <2>1, BuildExists
<1>8. ASSUME NEW i \in 1 .. m + 2 PROVE f[i] = body(i, f)
  <2>1. Behind(f, i, m + 2) \in [i + 1 .. m + 2 -> Seq(P)]
    <3>1. \A x \in i + 1 .. m + 2 : x \in 1 .. m + 2
      BY <1>1
    <3> QED
      BY <1>7, <3>1 DEF BuiltBack, Behind
  <2>2. f[i] = B[i][Behind(f, i, m + 2)]
    BY <1>7 DEF BuiltBack
  <2>3. f[i] = body(i, Behind(f, i, m + 2))
    BY <2>1, <2>2 DEF B
  <2> QED
    BY <1>5, <2>3
<1>9. f = [i \in 1 .. m + 2 |-> f[i]] /\ f \in [1 .. m + 2 -> Seq(P)]
  BY <1>7 DEF BuiltBack
<1>10. f = [i \in 1 .. m + 2 |-> body(i, f)]
  BY <1>8, <1>9
<1>11. IdaSteps(f, text)
  BY <1>10, Zenon DEF IdaSteps, body, m
<1> QED
  BY <1>9, <1>11 DEF m

(* The first q bytes that a text of digits stands for. *)
PairsOf(q, s) == [i \in 1 .. q |-> <<s[2 * i - 1], s[2 * i]>>]

(* They are a sequence of pairs. *)
LEMMA BytesType ==
    ASSUME NEW C, NEW q \in Nat, NEW s, \A j \in 1 .. 2 * q : s[j] \in C
    PROVE  PairsOf(q, s) \in Seq(C \X C) /\ Len(PairsOf(q, s)) = q
<1>1. \A i \in 1 .. q : 2 * i - 1 \in 1 .. 2 * q /\ 2 * i \in 1 .. 2 * q
  OBVIOUS
<1>2. PairsOf(q, s) \in [1 .. q -> C \X C]
  BY <1>1 DEF PairsOf
<1> SUFFICES ASSUME NEW P, NEW h \in [1 .. q -> P] PROVE h \in Seq(P) /\ Len(h) = q
  BY <1>2
<1> QED
  BY LenProperties

(* A text of digits, with two more in front. *)
PairFronted(t, x, y, s, q, C) ==
    /\ \A j \in 1 .. 2 * q : s[j] \in C
    /\ t[1] = x /\ t[2] = y /\ \A j \in 1 .. 2 * q : t[j + 2] = s[j]

(* Two digits in front are one byte in front. *)
LEMMA BytesFront ==
    ASSUME NEW C, NEW x \in C, NEW y \in C, NEW q \in Nat, NEW s, NEW t, PairFronted(t, x, y, s, q, C)
    PROVE  PairsOf(q + 1, t) = <<<<x, y>>>> \o PairsOf(q, s)
<1> DEFINE h == PairsOf(q, s)
           w == <<<<x, y>>>> \o h
           P == C \X C
<1>1. h \in Seq(P) /\ Len(h) = q
  BY BytesType DEF PairFronted
<1>2. <<x, y>> \in P
  OBVIOUS
<1>3. ASSUME NEW i \in 1 .. q + 1, i # 1 PROVE i - 1 \in 1 .. q /\ (i - 1) + 1 = i
  BY <1>3
<1>4. ASSUME NEW j \in 1 .. q
      PROVE  /\ 2 * j - 1 \in 1 .. 2 * q /\ 2 * j \in 1 .. 2 * q
             /\ 2 * (j + 1) - 1 = (2 * j - 1) + 2 /\ 2 * (j + 1) = 2 * j + 2
  OBVIOUS
<1>5. \A j \in 1 .. q : h[j] = <<s[2 * j - 1], s[2 * j]>>
  BY DEF PairsOf
<1> HIDE DEF P, h
<1>6. Fronted(w, <<x, y>>, h, P)
  BY <1>1, <1>2, Fronts
<1> HIDE DEF w
<1>7. w \in Seq(P) /\ Len(w) = q + 1 /\ w[1] = <<x, y>> /\ \A i \in 1 .. q : w[i + 1] = h[i]
  BY <1>1, <1>6 DEF Fronted
<1>8. w = [i \in 1 .. q + 1 |-> w[i]]
  BY <1>7, LenProperties
<1>9. ASSUME NEW j \in 1 .. q PROVE w[j + 1] = <<t[2 * (j + 1) - 1], t[2 * (j + 1)]>>
  <2>1. w[j + 1] = <<s[2 * j - 1], s[2 * j]>>
    BY <1>5, <1>7
  <2>2. t[(2 * j - 1) + 2] = s[2 * j - 1] /\ t[2 * j + 2] = s[2 * j]
    BY <1>4 DEF PairFronted
  <2> QED
    BY <1>4, <2>1, <2>2
<1>10. ASSUME NEW i \in 1 .. q + 1 PROVE w[i] = <<t[2 * i - 1], t[2 * i]>>
  <2>1. CASE i = 1
    <3>1. 2 * 1 - 1 = 1 /\ 2 * 1 = 2
      OBVIOUS
    <3> QED
      BY <1>7, <2>1, <3>1 DEF PairFronted
  <2>2. CASE i # 1
    <3>1. i - 1 \in 1 .. q /\ (i - 1) + 1 = i
      BY <1>3, <2>2
    <3>2. w[(i - 1) + 1] = <<t[2 * ((i - 1) + 1) - 1], t[2 * ((i - 1) + 1)]>>
      BY <1>9, <3>1
    <3> QED
      BY <3>1, <3>2
  <2> QED
    BY <2>1, <2>2
<1>11. w = PairsOf(q + 1, t)
  BY <1>8, <1>10 DEF PairsOf
<1> QED
  BY <1>11 DEF w, h

(* Even numbers. *)
IsEven(n) == n % 2 = 0

(* Zero is even, two more is as even, and every other number is not. *)
LEMMA EvenSteps ==
    /\ IsEven(0) /\ ~IsEven(1)
    /\ \A n \in Nat : (IsEven(n + 2) <=> IsEven(n)) /\ (IsEven(n) => ~IsEven(n + 1))
BY DEF IsEven

(* A text of an even length with two digits in front. *)
LEMMA HexFront ==
    ASSUME NEW C, NEW x \in C, NEW y \in C, NEW s \in Seq(C), IsEven(Len(s)),
           NEW r, Fronted(r, y, s, C), NEW t, Fronted(t, x, r, C)
    PROVE  dataFromHex(t) = <<<<x, y>>>> \o dataFromHex(s)
<1>1. PICK q \in Nat : Len(s) = 2 * q
  <2>1. Len(s) \in Nat
    BY LenProperties
  <2> SUFFICES ASSUME NEW m \in Nat, m % 2 = 0 PROVE \E q \in Nat : m = 2 * q
    BY <2>1 DEF IsEven
  <2>2. m = 2 * (m \div 2) /\ m \div 2 \in Nat
    OBVIOUS
  <2> QED
    BY <2>2
<1>2. Len(r) = 2 * q + 1 /\ r[1] = y /\ \A i \in 1 .. 2 * q : r[i + 1] = s[i]
  BY <1>1 DEF Fronted
<1>3. Len(t) = 2 * q + 2 /\ t[1] = x /\ \A i \in 1 .. 2 * q + 1 : t[i + 1] = r[i]
  BY <1>2 DEF Fronted
<1>4. \A j \in 1 .. 2 * q : s[j] \in C
  BY <1>1, ElementOfSeq
<1>5. Len(s) \div 2 = q /\ Len(t) \div 2 = q + 1
  BY <1>1, <1>3
<1>6. t[2] = y /\ \A j \in 1 .. 2 * q : t[j + 2] = s[j]
  <2>1. 1 \in 1 .. 2 * q + 1 /\ 1 + 1 = 2
    OBVIOUS
  <2>2. t[1 + 1] = r[1]
    BY <1>3, <2>1
  <2>3. ASSUME NEW j \in 1 .. 2 * q PROVE t[j + 2] = s[j]
    <3>1. j + 1 \in 1 .. 2 * q + 1 /\ (j + 1) + 1 = j + 2
      OBVIOUS
    <3>2. t[(j + 1) + 1] = r[j + 1] /\ r[j + 1] = s[j]
      BY <1>2, <1>3, <3>1
    <3> QED
      BY <3>1, <3>2
  <2> QED
    BY <1>2, <2>1, <2>2, <2>3
<1>7. dataFromHex(t) = PairsOf(q + 1, t) /\ dataFromHex(s) = PairsOf(q, s)
  BY <1>5 DEF dataFromHex, PairsOf
<1>8. PairsOf(q + 1, t) = <<<<x, y>>>> \o PairsOf(q, s)
  <2>1. PairFronted(t, x, y, s, q, C)
    BY <1>3, <1>4, <1>6 DEF PairFronted
  <2> QED
    BY <2>1, BytesFront
<1> QED
  BY <1>7, <1>8

(* The digits up to a place of a text. *)
DigitsUpto(text, i) == Cardinality({k \in 1 .. i : text[k] \in Digits})

(* There is one more at each digit. *)
LEMMA OneMoreDigit ==
    ASSUME NEW text, NEW i \in Nat \ {0}
    PROVE  /\ DigitsUpto(text, i - 1) \in Nat
           /\ DigitsUpto(text, i) = IF text[i] \in Digits THEN DigitsUpto(text, i - 1) + 1 ELSE DigitsUpto(text, i - 1)
<1> DEFINE U(n) == {k \in 1 .. n : text[k] \in Digits}
<1>1. IsFiniteSet(U(i - 1))
  <2>1. IsFiniteSet(1 .. i - 1)
    BY FS_Interval
  <2> QED
    BY <2>1, FS_Subset
<1>2. Cardinality(U(i - 1)) \in Nat
  BY <1>1, FS_CardinalityType
<1>3. i \notin U(i - 1)
  OBVIOUS
<1>4. CASE text[i] \in Digits
  <2>1. U(i) = U(i - 1) \cup {i}
    <3>1. \A k : k \in 1 .. i <=> k \in 1 .. i - 1 \/ k = i
      OBVIOUS
    <3> QED
      BY <1>4, <3>1
  <2>2. Cardinality(U(i)) = Cardinality(U(i - 1)) + 1
    BY <1>1, <1>3, <2>1, FS_AddElement
  <2> QED
    BY <1>2, <1>4, <2>2 DEF DigitsUpto
<1>5. CASE text[i] \notin Digits
  <2>1. U(i) = U(i - 1)
    <3>1. \A k : k \in 1 .. i <=> k \in 1 .. i - 1 \/ k = i
      OBVIOUS
    <3> QED
      BY <1>5, <3>1
  <2> QED
    BY <1>2, <1>5, <2>1 DEF DigitsUpto
<1> QED
  BY <1>4, <1>5

(* Text of pairs of digits with spaces only between bytes, and what Trim   *)
(* and IdaPattern make of it from each place on.                           *)
Plain(text) ==
    /\ ToSet(text) \subseteq Digits \cup {Space}
    /\ \A i \in DOMAIN text : text[i] = Space => IsEven(DigitsUpto(text, i))
Reads(C, m, text, t, f) ==
    /\ \A i \in 1 .. m : text[i] \in C
    /\ \A i \in 1 .. m : text[i] \in Digits \/ (text[i] = Space /\ IsEven(DigitsUpto(text, i)))
    /\ \A i \in 1 .. m + 1 : t[i] \in Seq(C)
    /\ t[m + 1] = <<>> /\ f[m + 1] = <<>>
    /\ \A i \in 1 .. m : t[i] = IF text[i] = Space THEN t[i + 1] ELSE <<text[i]>> \o t[i + 1]
    /\ \A i \in 1 .. m : text[i] = Space => f[i] = f[i + 1]
    /\ \A i \in 1 .. m - 1 : text[i] \in Digits /\ text[i + 1] \in Digits
                               => f[i] = <<<<text[i], text[i + 1]>>>> \o f[i + 2]

(* That is what they make of it. *)
LEMMA PlainReads ==
    ASSUME NEW C, NEW text \in Seq(C), Plain(text), NEW t \in [1 .. Len(text) + 1 -> Seq(C)], TrimSteps(t, text),
           NEW f, IdaSteps(f, text)
    PROVE  Reads(C, Len(text), text, t, f)
<1> SUFFICES ASSUME NEW m, m = Len(text) PROVE Reads(C, m, text, t, f)
  OBVIOUS
<1>1. m \in Nat /\ DOMAIN text = 1 .. m /\ \A i \in 1 .. m : text[i] \in C
  BY LenProperties, ElementOfSeq
<1>2. \A i \in 1 .. m : text[i] \in Digits \/ (text[i] = Space /\ IsEven(DigitsUpto(text, i)))
  BY <1>1 DEF Plain, ToSet
<1>3. \A i \in 1 .. m + 1 : t[i] = IF i > m THEN <<>> ELSE IF text[i] = Space THEN t[i + 1] ELSE <<text[i]>> \o t[i + 1]
  BY DEF TrimSteps
<1>4. \A i \in 1 .. m + 2 : f[i] = IF i > m THEN <<>>
                                   ELSE IF text[i] = "?" THEN <<Wild>> \o f[i + 1]
                                   ELSE IF DigitAt(text, i) /\ DigitAt(text, i + 1)
                                        THEN <<<<text[i], text[i + 1]>>>> \o f[i + 2]
                                   ELSE f[i + 1]
  BY DEF IdaSteps
<1>5. Space \notin Digits /\ "?" \notin Digits /\ Space # "?"
  BY DEF Digits, Space
<1>6. m + 1 \in 1 .. m + 1 /\ m + 1 \in 1 .. m + 2 /\ m + 1 > m
  BY <1>1
<1>7. \A i \in 1 .. m : i \in 1 .. m + 1 /\ i \in 1 .. m + 2 /\ ~(i > m)
  BY <1>1
<1>8. t[m + 1] = <<>> /\ f[m + 1] = <<>>
  BY <1>3, <1>4, <1>6
<1>9. \A i \in 1 .. m : t[i] = IF text[i] = Space THEN t[i + 1] ELSE <<text[i]>> \o t[i + 1]
  BY <1>3, <1>7
<1>10. ASSUME NEW i \in 1 .. m, text[i] = Space PROVE f[i] = f[i + 1]
  <2>1. ~DigitAt(text, i) /\ text[i] # "?"
    BY <1>5, <1>10 DEF DigitAt
  <2> QED
    BY <1>4, <1>7, <2>1
<1>11. ASSUME NEW i \in 1 .. m - 1, text[i] \in Digits, text[i + 1] \in Digits
       PROVE  f[i] = <<<<text[i], text[i + 1]>>>> \o f[i + 2]
  <2>1. i \in 1 .. m /\ i <= m /\ i + 1 <= m
    BY <1>1
  <2>2. DigitAt(text, i) /\ DigitAt(text, i + 1) /\ text[i] # "?"
    BY <1>5, <1>11, <2>1 DEF DigitAt
  <2> QED
    BY <1>4, <1>7, <2>1, <2>2
<1>12. \A i \in 1 .. m + 1 : t[i] \in Seq(C)
  OBVIOUS
<1> QED
  BY <1>1, <1>2, <1>8, <1>9, <1>10, <1>11, <1>12 DEF Reads

(* Between bytes, with an even number of digits to come.                   *)
BetweenBytes(text, t, i) == IsEven(DigitsUpto(text, i - 1)) /\ IsEven(Len(t[i]))

(* A digit between bytes is followed by another one, and then by the rest. *)
LEMMA PairFollows ==
    ASSUME NEW C, NEW m \in Nat, NEW text, NEW t, NEW f, Reads(C, m, text, t, f),
           NEW i \in 1 .. m, text[i] # Space, BetweenBytes(text, t, i)
    PROVE  /\ i + 2 \in i + 1 .. m + 1 /\ text[i] \in C /\ text[i + 1] \in C
           /\ text[i] \in Digits /\ text[i + 1] \in Digits /\ t[i + 2] \in Seq(C)
           /\ Fronted(t[i], text[i], t[i + 1], C) /\ Fronted(t[i + 1], text[i + 1], t[i + 2], C)
           /\ BetweenBytes(text, t, i + 2)
<1>1. text[i] \in C /\ text[i] \in Digits /\ t[i] = <<text[i]>> \o t[i + 1]
  BY DEF Reads
<1>2. i + 1 \in 1 .. m + 1 /\ i \in Nat \ {0} /\ i + 1 \in Nat \ {0} /\ (i + 1) - 1 = i /\ (i + 2) - 1 = i + 1
  OBVIOUS
<1>3. t[i + 1] \in Seq(C)
  BY <1>2 DEF Reads
<1>4. Fronted(t[i], text[i], t[i + 1], C)
  BY <1>1, <1>3, Fronts
<1>5. Len(t[i]) = Len(t[i + 1]) + 1 /\ Len(t[i + 1]) \in Nat
  BY <1>3, <1>4, LenProperties DEF Fronted
<1>6. i + 1 \in 1 .. m
  <2> SUFFICES ASSUME i + 1 = m + 1 PROVE FALSE
    BY <1>2
  <2>1. t[i + 1] = <<>>
    BY DEF Reads
  <2>2. Len(t[i]) = 1
    BY <1>5, <2>1
  <2> QED
    BY <2>2, EvenSteps DEF BetweenBytes
<1>7. /\ DigitsUpto(text, i - 1) \in Nat /\ DigitsUpto(text, i) = DigitsUpto(text, i - 1) + 1
  BY <1>1, <1>2, OneMoreDigit
<1>8. DigitsUpto(text, i + 1) = IF text[i + 1] \in Digits THEN DigitsUpto(text, i) + 1 ELSE DigitsUpto(text, i)
  <2>1. DigitsUpto(text, i + 1)
          = IF text[i + 1] \in Digits THEN DigitsUpto(text, (i + 1) - 1) + 1 ELSE DigitsUpto(text, (i + 1) - 1)
    BY <1>2, OneMoreDigit, Zenon
  <2> QED
    BY <1>2, <2>1
<1>9. text[i + 1] \in Digits
  <2> SUFFICES ASSUME text[i + 1] \notin Digits PROVE FALSE
    OBVIOUS
  <2>1. IsEven(DigitsUpto(text, i + 1))
    BY <1>6 DEF Reads
  <2>2. IsEven(DigitsUpto(text, i - 1))
    BY DEF BetweenBytes
  <2>3. IsEven(DigitsUpto(text, i - 1) + 1)
    BY <1>7, <1>8, <2>1
  <2> QED
    BY <1>7, <2>2, <2>3, EvenSteps
<1>10. text[i + 1] # Space
  BY <1>9 DEF Digits, Space
<1>11. i + 2 \in i + 1 .. m + 1 /\ i + 2 \in 1 .. m + 1 /\ (i + 1) + 1 = i + 2
  BY <1>6
<1>12. text[i + 1] \in C /\ t[i + 2] \in Seq(C)
  BY <1>6, <1>11 DEF Reads
<1>13. t[i + 1] = <<text[i + 1]>> \o t[i + 2]
  <2>1. t[i + 1] = <<text[i + 1]>> \o t[(i + 1) + 1]
    BY <1>6, <1>10 DEF Reads
  <2> QED
    BY <1>11, <2>1
<1>14. Fronted(t[i + 1], text[i + 1], t[i + 2], C)
  BY <1>12, <1>13, Fronts
<1>15. BetweenBytes(text, t, i + 2)
  <2>1. DigitsUpto(text, (i + 2) - 1) = DigitsUpto(text, i - 1) + 2
    BY <1>2, <1>7, <1>8, <1>9
  <2>2. Len(t[i + 2]) \in Nat /\ Len(t[i]) = Len(t[i + 2]) + 2
    BY <1>5, <1>12, <1>14, LenProperties DEF Fronted
  <2>3. IsEven(DigitsUpto(text, i - 1) + 2) /\ IsEven(Len(t[i + 2]))
    <3>1. IsEven(DigitsUpto(text, i - 1)) /\ IsEven(Len(t[i + 2]) + 2)
      BY <2>2 DEF BetweenBytes
    <3> SUFFICES ASSUME NEW a \in Nat, IsEven(a), NEW b \in Nat, IsEven(b + 2) PROVE IsEven(a + 2) /\ IsEven(b)
      BY <1>7, <2>2, <3>1
    <3> QED
      BY EvenSteps
  <2> QED
    BY <2>1, <2>3 DEF BetweenBytes
<1> QED
  BY <1>1, <1>4, <1>9, <1>11, <1>12, <1>14, <1>15

(* Between bytes both notations read on alike. *)
LEMMA ReadAlike ==
    ASSUME NEW C, NEW m \in Nat, NEW text, NEW t, NEW f, Reads(C, m, text, t, f), IsEven(Len(t[1]))
    PROVE  f[1] = dataFromHex(t[1])
<1> DEFINE T == {i \in 1 .. m + 1 : BetweenBytes(text, t, i) => f[i] = dataFromHex(t[i])}
<1>1. ASSUME NEW i \in 1 .. m + 1, i + 1 .. m + 1 \subseteq T, BetweenBytes(text, t, i) PROVE f[i] = dataFromHex(t[i])
  <2>1. CASE i = m + 1
    <3>1. f[i] = <<>> /\ t[i] = <<>>
      BY <2>1 DEF Reads
    <3>2. dataFromHex(<<>>) = <<>>
      <4>1. Len(<<>>) = 0 /\ 0 \div 2 = 0 /\ 1 .. 0 = {}
        OBVIOUS
      <4> QED
        BY <4>1 DEF dataFromHex
    <3> QED
      BY <3>1, <3>2
  <2>2. CASE i # m + 1 /\ text[i] = Space
    <3>1. i \in 1 .. m /\ i + 1 \in i + 1 .. m + 1 /\ (i + 1) - 1 = i
      BY <2>2
    <3>2. f[i] = f[i + 1] /\ t[i] = t[i + 1]
      BY <2>2, <3>1 DEF Reads
    <3>3. IsEven(DigitsUpto(text, i))
      <4>1. Space \notin Digits
        BY DEF Digits, Space
      <4> QED
        BY <2>2, <3>1, <4>1 DEF Reads
    <3>4. BetweenBytes(text, t, i + 1)
      BY <1>1, <3>1, <3>2, <3>3 DEF BetweenBytes
    <3>5. i + 1 \in T
      BY <1>1, <3>1
    <3> QED
      BY <3>2, <3>4, <3>5
  <2>3. CASE i # m + 1 /\ text[i] # Space
    <3>1. i \in 1 .. m
      BY <2>3
    <3>2. /\ i + 2 \in i + 1 .. m + 1 /\ text[i] \in C /\ text[i + 1] \in C
          /\ text[i] \in Digits /\ text[i + 1] \in Digits /\ t[i + 2] \in Seq(C)
          /\ Fronted(t[i], text[i], t[i + 1], C) /\ Fronted(t[i + 1], text[i + 1], t[i + 2], C)
          /\ BetweenBytes(text, t, i + 2)
      BY <1>1, <2>3, <3>1, PairFollows
    <3>3. f[i + 2] = dataFromHex(t[i + 2])
      BY <1>1, <3>2
    <3>4. f[i] = <<<<text[i], text[i + 1]>>>> \o f[i + 2]
      <4>1. i \in 1 .. m - 1
        BY <3>1, <3>2
      <4> QED
        BY <3>2, <4>1 DEF Reads
    <3>5. dataFromHex(t[i]) = <<<<text[i], text[i + 1]>>>> \o dataFromHex(t[i + 2])
      BY <3>2, HexFront DEF BetweenBytes
    <3> QED
      BY <3>3, <3>4, <3>5
  <2> QED
    BY <2>1, <2>2, <2>3
<1>2. \A i \in 1 .. m + 1 : i + 1 .. m + 1 \subseteq T => i \in T
  BY <1>1
<1>3. 1 \in T
  <2> HIDE DEF T
  <2>1. 1 \in Nat /\ m + 1 \in Nat /\ 1 \in 1 .. m + 1
    OBVIOUS
  <2>2. 1 .. m + 1 \subseteq T
    BY <1>2, <2>1, Downward
  <2> QED
    BY <2>1, <2>2
<1>4. BetweenBytes(text, t, 1)
  <2>1. {k \in 1 .. 1 - 1 : text[k] \in Digits} = {}
    OBVIOUS
  <2>2. DigitsUpto(text, 1 - 1) = 0
    BY <2>1, FS_EmptySet DEF DigitsUpto
  <2> QED
    BY <2>2, EvenSteps DEF BetweenBytes
<1> QED
  BY <1>3, <1>4

(* All that Trim makes of a text is text. *)
LEMMA TrimTyped ==
    ASSUME NEW C, NEW text \in Seq(C), NEW t, TrimSteps(t, text)
    PROVE  t \in [1 .. Len(text) + 1 -> Seq(C)]
<1> SUFFICES ASSUME NEW m, m = Len(text) PROVE t \in [1 .. m + 1 -> Seq(C)]
  OBVIOUS
<1> DEFINE T == {i \in 1 .. m + 1 : t[i] \in Seq(C)}
<1>1. m \in Nat /\ \A i \in 1 .. m : text[i] \in C
  BY LenProperties, ElementOfSeq
<1>2. t = [i \in 1 .. m + 1 |-> t[i]]
  BY DEF TrimSteps
<1>3. \A i \in 1 .. m + 1 : t[i] = IF i > m THEN <<>> ELSE IF text[i] = Space THEN t[i + 1] ELSE <<text[i]>> \o t[i + 1]
  BY DEF TrimSteps
<1>4. ASSUME NEW i \in 1 .. m + 1, i + 1 .. m + 1 \subseteq T PROVE t[i] \in Seq(C)
  <2>1. CASE i > m
    <3>1. t[i] = <<>>
      BY <1>3, <2>1
    <3> QED
      BY <3>1, EmptySeq
  <2>2. CASE ~(i > m)
    <3>1. i \in 1 .. m /\ i + 1 \in i + 1 .. m + 1
      BY <1>1, <2>2
    <3>2. text[i] \in C /\ t[i + 1] \in Seq(C)
      BY <1>1, <1>4, <3>1
    <3>3. <<text[i]>> \o t[i + 1] \in Seq(C)
      BY <3>2, Fronts DEF Fronted
    <3>4. t[i] = IF text[i] = Space THEN t[i + 1] ELSE <<text[i]>> \o t[i + 1]
      BY <1>3, <2>2
    <3> QED
      BY <3>2, <3>3, <3>4
  <2> QED
    BY <2>1, <2>2
<1>5. \A i \in 1 .. m + 1 : i + 1 .. m + 1 \subseteq T => i \in T
  BY <1>4
<1>6. \A i \in 1 .. m + 1 : t[i] \in Seq(C)
  <2> HIDE DEF T
  <2>1. 1 \in Nat /\ m + 1 \in Nat
    BY <1>1
  <2>2. 1 .. m + 1 \subseteq T
    BY <1>5, <2>1, Downward
  <2> QED
    BY <2>2 DEF T
<1> QED
  BY <1>2, <1>6

(* A text of digits and spaces does not begin with 0x. *)
LEMMA NoHexPrefix ==
    ASSUME NEW C, NEW text \in Seq(C), Plain(text)
    PROVE  ~IsPrefix(<<"0", "x">>, text)
<1> SUFFICES ASSUME IsPrefix(<<"0", "x">>, text) PROVE FALSE
  OBVIOUS
<1>1. 2 <= Len(text) /\ text[2] = "x"
  BY DEF IsPrefix
<1>2. 2 \in DOMAIN text
  BY <1>1, LenProperties
<1>3. "x" \in Digits \cup {Space}
  BY <1>1, <1>2 DEF Plain, ToSet
<1> QED
  BY <1>3 DEF Digits, Space

(* What a pattern of hexadecimal digits and its full mask mean.            *)
LEMMA HexRead ==
    ASSUME NEW text \in Seq({"0", "1", "x", Space}), Plain(text), NEW n \in Nat, NEW mask \in [1 .. n -> {"x", "?"}],
           ToSet(mask) = {"x"}, HexPattern(text, mask) # <<>>
    PROVE  HexPattern(text, mask) = IdaPattern(text)
<1> DEFINE C == {"0", "1", "x", Space}
           t == CHOOSE g : TrimSteps(g, text)
           f == CHOOSE g : IdaSteps(g, text)
           data == dataFromHex(ValidateHex(text))
<1>1. TrimSteps(t, text)
  <2>1. \E g : TrimSteps(g, text)
    BY TrimExists
  <2> QED
    BY <2>1, Zenon
<1>2. IdaSteps(f, text)
  <2>1. \E g : IdaSteps(g, text)
    BY IdaExists
  <2> QED
    BY <2>1, Zenon
<1>3. Trim(text) = t[1]
  BY DEF Trim, TrimSteps
<1>4. IdaPattern(text) = f[1]
  BY DEF IdaPattern, IdaSteps, DigitAt
<1> HIDE DEF t, f
<1>5. t \in [1 .. Len(text) + 1 -> Seq(C)]
  BY <1>1, TrimTyped
<1>6. ValidateHex(text) = IF Len(t[1]) >= 2 /\ Len(t[1]) % 2 = 0 /\ ToSet(t[1]) \subseteq Digits THEN t[1] ELSE <<>>
  <2>1. ~IsPrefix(<<"0", "x">>, text)
    BY NoHexPrefix
  <2> QED
    BY <1>3, <2>1 DEF ValidateHex
<1>7. Len(data) = Len(mask) /\ HexPattern(text, mask) = [i \in DOMAIN data |-> IF mask[i] = "x" THEN data[i] ELSE Wild]
  BY DEF HexPattern
<1>8. Len(mask) = n /\ DOMAIN mask = 1 .. n /\ \A i \in 1 .. n : mask[i] = "x"
  BY LenProperties DEF ToSet
<1>9. data = [i \in 1 .. Len(ValidateHex(text)) \div 2 |-> data[i]]
  BY DEF dataFromHex
<1>10. Len(ValidateHex(text)) \in Nat
  <2>1. 1 \in 1 .. Len(text) + 1
    BY LenProperties
  <2>2. t[1] \in Seq(C)
    BY <1>5, <2>1
  <2>3. Len(t[1]) \in Nat /\ Len(<<>>) \in Nat
    BY <2>2, LenProperties
  <2> QED
    BY <1>6, <2>3
<1> SUFFICES ASSUME NEW v, v = ValidateHex(text), NEW d, d = data PROVE HexPattern(text, mask) = IdaPattern(text)
  OBVIOUS
<1> HIDE DEF data
<1>11. DOMAIN d = 1 .. n /\ d = [i \in 1 .. n |-> d[i]]
  <2> SUFFICES ASSUME NEW h \in Nat, d = [i \in 1 .. h |-> d[i]] PROVE h = n
    <3>1. Len(v) \div 2 \in Nat
      BY <1>10
    <3> QED
      BY <1>9, <3>1
  <2>1. Len(d) = h
    OBVIOUS
  <2> QED
    BY <1>7, <1>8, <2>1
<1>12. HexPattern(text, mask) = d
  BY <1>7, <1>8, <1>11
<1>13. v = t[1] /\ Len(t[1]) % 2 = 0
  <2> SUFFICES ASSUME v = <<>> PROVE FALSE
    BY <1>6
  <2>1. Len(<<>>) \div 2 = 0 /\ 1 .. 0 = {}
    OBVIOUS
  <2>2. d = <<>>
    BY <1>9, <2>1 DEF data
  <2> QED
    BY <1>12, <2>2
<1>14. d = dataFromHex(t[1])
  BY <1>13 DEF data
<1>15. Reads(C, Len(text), text, t, f)
  BY <1>1, <1>2, <1>5, PlainReads
<1>16. Len(text) \in Nat /\ IsEven(Len(t[1]))
  BY <1>13, LenProperties DEF IsEven
<1>17. f[1] = dataFromHex(t[1])
  BY <1>15, <1>16, ReadAlike
<1> QED
  BY <1>4, <1>12, <1>14, <1>17

(* Hexadecimal text is read as an IDA pattern is. *)
LEMMA HexAgrees == ASSUME FindHex PROVE NotationsAgree'
<1>1. MaxText \in Nat
  BY ScanAssumption
<1>2. PICK text \in TextOf({"0", "1", "x", Space}), n \in 1 .. MaxText \div 2 :
        \E mask \in [1 .. n -> {"x", "?"}] :
          query' = [kind |-> "hex", text |-> text, mask |-> mask, pattern |-> HexPattern(text, mask)]
  BY DEF FindHex
<1>3. PICK mask \in [1 .. n -> {"x", "?"}] :
          query' = [kind |-> "hex", text |-> text, mask |-> mask, pattern |-> HexPattern(text, mask)]
  BY <1>2
<1>4. query'.text = text /\ query'.mask = mask /\ query'.pattern = HexPattern(text, mask)
  BY <1>3
<1>5. text \in Seq({"0", "1", "x", Space}) /\ n \in Nat
  <2>1. PICK k \in 1 .. MaxText : text \in [1 .. k -> {"0", "1", "x", Space}]
    BY DEF TextOf
  <2>2. k \in Nat /\ n \in Nat
    BY <1>1
  <2> QED
    BY <2>1, <2>2
<1>6. ASSUME Plain(text), ToSet(mask) = {"x"}, HexPattern(text, mask) # <<>>
      PROVE  HexPattern(text, mask) = IdaPattern(text)
  BY <1>5, <1>6, HexRead
<1>7. Plain(text) <=> /\ ToSet(text) \subseteq Digits \cup {Space}
                      /\ \A i \in DOMAIN text : text[i] = Space =>
                             Cardinality({k \in 1 .. i : text[k] \in Digits}) % 2 = 0
  BY DEF Plain, IsEven, DigitsUpto
<1> QED
  BY <1>4, <1>6, <1>7 DEF NotationsAgree, ToSet

ScanSpec == ScanInit /\ [][ScanNext]_query

(* Of any image, range and pattern the first match is the leftmost one and *)
(* the list of all meets every match without overlaps; the two notations   *)
(* of a pattern agree on any text; and a native method is found by name    *)
(* and signature, whatever strings and words there are.                    *)
THEOREM SearchesCorrect == ScanSpec => []SearchInv
<1>1. ScanInit => SearchInv
  BY DEF ScanInit, NoQuery, SearchInv, FirstIsLeftmost, AllCoverMatches, NotationsAgree, NativeFound
<1>2. SearchInv /\ [ScanNext]_query => SearchInv'
  <2> SUFFICES ASSUME SearchInv, [ScanNext]_query PROVE SearchInv'
    OBVIOUS
  <2>1. CASE FindBytes
    <3>1. query'.kind = "bytes"
      BY <2>1 DEF FindBytes
    <3> QED
      BY <2>1, <3>1, BytesFound DEF SearchInv, NotationsAgree, NativeFound
  <2>2. CASE FindHex
    <3>1. query'.kind = "hex"
      BY <2>2 DEF FindHex
    <3> QED
      BY <2>2, <3>1, HexAgrees DEF SearchInv, FirstIsLeftmost, AllCoverMatches, NativeFound
  <2>3. CASE FindIda
    <3>1. query'.kind = "ida"
      BY <2>3 DEF FindIda
    <3> QED
      BY <3>1 DEF SearchInv, FirstIsLeftmost, AllCoverMatches, NotationsAgree, NativeFound
  <2>4. CASE FindNative
    <3>1. query'.kind = "native"
      BY <2>4 DEF FindNative
    <3> QED
      BY <2>4, <3>1, NativeIsFound DEF SearchInv, FirstIsLeftmost, AllCoverMatches, NotationsAgree
  <2>5. CASE UNCHANGED query
    BY <2>5 DEF SearchInv, FirstIsLeftmost, AllCoverMatches, NotationsAgree, NativeFound, Matches
  <2> QED
    BY <2>1, <2>2, <2>3, <2>4, <2>5 DEF ScanNext
<1> QED
  BY <1>1, <1>2, PTL DEF ScanSpec
=============================================================================
