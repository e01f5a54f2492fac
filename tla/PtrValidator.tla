---------------------------- MODULE PtrValidator ----------------------------
(***************************************************************************)
(* KittyPtrValidator: a cache of the regions of memory that is read from   *)
(* /proc/<pid>/maps in two pieces while others change rights, and pointers *)
(* that are looked up in it by a binary search with a shortcut for the     *)
(* region that answered last.                                              *)
(***************************************************************************)
EXTENDS ProcessMemory

CONSTANTS Lengths   \* lengths of the ranges that are asked about

ASSUME LengthsAssumption == Lengths \subseteq Nat \ {0}

VARIABLES
    useCache, regions, lastIndex,  \* use_cache_ (Nil before the constructor), cachedRegions_, last_region_index_
    buffer,   \* lines of the maps file read so far, Nil when none is being read
    fresh     \* the file was read in one piece, and no right changed since

validatorVars == <<useCache, regions, lastIndex, buffer, fresh>>

ValidatorInit ==
    /\ useCache = Nil /\ regions = <<>> /\ lastIndex = 0
    /\ buffer = Nil /\ fresh = FALSE

Region(m) == [start |-> StartOf(m), end |-> EndOf(m), prot |-> m.prot]
Lines     == LET maps == getAllMaps IN [i \in DOMAIN maps |-> Region(maps[i])]

canMergeWith(a, b) == a.end = b.start /\ a.prot = b.prot

(* _parseMapsFromBuffer: a line extends the region before it, or adds one. *)
(* The sort that follows moves nothing, as the lines are in order.         *)
Parse(lines) ==
    LET parsed[n \in 0 .. Len(lines)] ==
            IF n = 0 THEN <<>>
            ELSE IF parsed[n - 1] # <<>> /\ canMergeWith(Last(parsed[n - 1]), lines[n])
            THEN [parsed[n - 1] EXCEPT ![Len(parsed[n - 1])].end = lines[n].end]
            ELSE Append(parsed[n - 1], lines[n])
    IN parsed[Len(lines)]

(* refreshRegionCache, called by the constructor, setUseCache, setPID and  *)
(* the user: the cache is dropped before the first piece is read ...       *)
StartReading ==
    /\ buffer = Nil
    /\ \E n \in DOMAIN Lines : buffer' = SubSeq(Lines, 1, n)
    /\ useCache' = TRUE /\ regions' = <<>> /\ fresh' = TRUE
    /\ UNCHANGED lastIndex

(* ... and filled when the rest has been read, from the line that follows  *)
(* the last one at this time.                                              *)
EndReading ==
    /\ buffer # Nil
    /\ LET before == {i \in DOMAIN Lines : Lines[i].start < Last(buffer).end}
       IN regions' = Parse(buffer \o SubSeq(Lines, Cardinality(before) + 1, Len(Lines)))
    /\ buffer' = Nil /\ lastIndex' = 0
    /\ UNCHANGED <<useCache, fresh>>

(* The constructor without a cache, setUseCache(false), clearCache. *)
clearCache ==
    /\ buffer = Nil
    /\ regions' = <<>> /\ lastIndex' = 0
    /\ useCache' \in {useCache, FALSE} \ {Nil}
    /\ UNCHANGED <<buffer, fresh>>

Inside(r, a) == r.start <= a /\ a < r.end

(* The binary search: the first region that ends behind the address.       *)
Search(a) ==
    LET bounds == (0 .. Len(regions)) \X (0 .. Len(regions))
        from[w \in bounds] ==
            LET mid == w[1] + (w[2] - w[1]) \div 2
            IN IF w[1] >= w[2] THEN w[2]
               ELSE IF regions[mid + 1].end <= a THEN from[<<mid + 1, w[2]>>] ELSE from[<<w[1], mid>>]
    IN from[<<0, Len(regions)>>]

(* Mutant of Shortcut: the region used last is not compared with the       *)
(* address from below.                                                     *)
ShortcutBelow(a) == lastIndex < Len(regions) /\ a < regions[lastIndex + 1].end
Shortcut(a)      == lastIndex < Len(regions) /\ Inside(regions[lastIndex + 1], a)

(* _findRegion: index of the region counted from 0, or Len(regions).       *)
FindCached(a) ==
    IF Shortcut(a) THEN lastIndex
    ELSE LET best == Search(a)
         IN IF best < Len(regions) /\ Inside(regions[best + 1], a) THEN best ELSE Len(regions)

(* Without a cache the first line of the file decides.                     *)
RegionOf(a) ==
    IF useCache
    THEN IF FindCached(a) < Len(regions) THEN <<regions[FindCached(a) + 1]>> ELSE <<>>
    ELSE IF Lines # <<>> /\ Inside(Lines[1], a) THEN <<Lines[1]>> ELSE <<>>

(* isPtrReadable, isPtrWritable, isPtrExecutable; isPtrInAddressSpace      *)
(* checks neither a right nor a length.                                    *)
IsPtr(found, right, a, n) == found # <<>> /\ right \in found[1].prot /\ a + n <= found[1].end

(* A question leaves the index of the region that answered it.             *)
Ask(a) ==
    /\ useCache = TRUE /\ buffer = Nil /\ FindCached(a) < Len(regions)
    /\ lastIndex' = FindCached(a)
    /\ UNCHANGED <<useCache, regions, buffer, fresh>>

ValidatorNext ==
    \/ (StartReading \/ EndReading \/ clearCache \/ \E a \in Addresses : Ask(a)) /\ UNCHANGED memoryVars
    \/ RightsChange /\ fresh' = FALSE /\ UNCHANGED <<useCache, regions, lastIndex, buffer>>

-----------------------------------------------------------------------------
(* Whatever was asked before and however the file was read, the shortcut   *)
(* and the binary search find the region that a search through all of them *)
(* finds: regions are in order and do not overlap (_findRegion).           *)
SearchIsLinear ==
    \A a \in Addresses :
        LET holders == {i \in DOMAIN regions : Inside(regions[i], a)}
        IN IF holders = {} THEN FindCached(a) = Len(regions) ELSE holders = {FindCached(a) + 1}

Has(right, a, n) ==
    \A i \in 0 .. n - 1 : a + i \in Addresses /\ Mapped(PageOf(a + i)) /\ right \in prot[PageOf(a + i)]
OneRight(a, n) == \A i \in 0 .. n - 1 : prot[PageOf(a + i)] = prot[PageOf(a)]

(* A pointer that is declared good is good for all its bytes, and with a   *)
(* cache one that is good is declared so, unless its range crosses into    *)
(* other rights; for as long as no right changes.                          *)
PointersTrue ==
    buffer = Nil /\ (fresh \/ useCache = FALSE) =>
        \A a \in Addresses :
            LET found == RegionOf(a) IN
            \A right \in RWX, n \in Lengths :
                /\ IsPtr(found, right, a, n) => Has(right, a, n)
                /\ useCache /\ regions # <<>> /\ Has(right, a, n) /\ OneRight(a, n) => IsPtr(found, right, a, n)

(* The cached validator answers as a search through the maps would, and    *)
(* truly while they do not change.                                         *)
ValidatorInv == SearchIsLinear /\ PointersTrue
=============================================================================
