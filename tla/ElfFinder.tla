------------------------------ MODULE ElfFinder ------------------------------
(***************************************************************************)
(* ElfScanner::getAllELFs and findElf: the libraries of the process are    *)
(* looked up in a snapshot of its maps, with a cache of scans that lives   *)
(* as long as the process, while other threads load and unload libraries.  *)
(* A place is where a library can be loaded; a library is its path, its    *)
(* build, and what a scan shows of it.                                     *)
(***************************************************************************)
EXTENDS Integers, FiniteSets, Sequences

CONSTANTS
    Places,      \* 1 .. n, in the order of addresses
    Builds,      \* [path, inode, build, area, machine, dynamic, segments, sound]
    Loaded0,     \* [Places -> Builds or NoLib]
    MaxChanges   \* bound on loads and unloads

VARIABLES
    loaded,   \* [Places -> what is mapped there now]
    cached,   \* [Places -> scan]: cached_elfs
    search,   \* the call in progress
    changes,
    gone,     \* places that were emptied since the last call began
    unseen    \* those that were emptied and filled again before a call saw them empty

finderVars == <<loaded, cached, search, changes, gone, unseen>>
NoLib  == [path |-> "none", inode |-> 0, build |-> 0, area |-> "none", machine |-> "none", dynamic |-> FALSE,
           segments |-> 0, sound |-> FALSE]
NoCall == [at |-> "idle", maps |-> <<>>, i |-> 1, last |-> 0, type |-> "any", filter |-> "any", out |-> <<>>]

MappedLibraries == Builds \cup {NoLib}
LibraryRecords ==
    [path : {b.path : b \in MappedLibraries}, inode : Nat, build : Nat, area : {b.area : b \in MappedLibraries},
     machine : {b.machine : b \in MappedLibraries}, dynamic : BOOLEAN, segments : Nat, sound : BOOLEAN]

(* What is loaded is an image, and one that scans well has a segment.      *)
ASSUME FinderAssumption ==
    /\ IsFiniteSet(Places) /\ Places = 1 .. Cardinality(Places)
    /\ Builds \subseteq LibraryRecords /\ \A b \in Builds : b # NoLib /\ (b.sound => b.segments > 0)
    /\ Loaded0 \in [Places -> MappedLibraries]

FinderInit ==
    /\ loaded = Loaded0 /\ cached = [p \in Places |-> NoLib]
    /\ search = NoCall /\ changes = 0 /\ gone = {} /\ unseen = {}

-----------------------------------------------------------------------------
(* Other threads: dlopen and dlclose. *)
ChangeLibrary(p) ==
    /\ search.at # "fault" /\ changes < MaxChanges
    /\ changes' = changes + 1
    /\ \E b \in IF loaded[p] = NoLib THEN Builds \ {loaded[q] : q \in Places} ELSE {NoLib} :
           loaded' = [loaded EXCEPT ![p] = b]
    /\ gone' = gone \cup (IF loaded[p] = NoLib THEN {} ELSE {p})
    /\ unseen' = unseen \cup (IF loaded[p] = NoLib THEN {p} \cap gone ELSE {})
    /\ UNCHANGED <<cached, search>>

Forgotten == [p \in Places |-> IF loaded[p] = NoLib THEN NoLib ELSE cached[p]]

(* getAllELFs begins, under its mutex: the maps are read, and cached scans *)
(* at places that cannot be read any more are dropped.                     *)
StartSearch ==
    /\ search.at \in {"idle", "done"}
    /\ \E type \in {"any", "native", "emulated"}, filter \in {"any", "app", "system"} :
           search' = [NoCall EXCEPT !.at = "visit", !.maps = loaded, !.type = type, !.filter = filter]
    /\ cached' = Forgotten
    /\ gone' = {} /\ unseen' = {p \in unseen : loaded[p] # NoLib}
    /\ UNCHANGED <<loaded, changes>>

eMachineCheck(type, b) == type = "any" \/ (type = "native") = (b.machine = "own")
FilterPasses(filter, lib) == filter = "any" \/ lib.area = filter

(* Mutant of CacheHit: the path of a cached scan is not compared.          *)
CacheHitAny(p, lib) == cached[p] # NoLib
CacheHit(p, lib) == cached[p] # NoLib /\ cached[p].path = lib.path

(* Further maps of the file of the last image are passed over, and those   *)
(* that are not asked for.                                                 *)
SkipMap(lib) ==
    \/ lib = NoLib \/ ~FilterPasses(search.filter, lib)
    \/ lib.inode # 0 /\ lib.inode = search.last

Answer(s, elf) ==
    [s EXCEPT !.out = IF eMachineCheck(s.type, elf) THEN Append(@, [place |-> s.i, elf |-> elf]) ELSE @,
              !.last = elf.inode]

(* One map of the snapshot.  A scan reads the memory as it is now, though  *)
(* under the path of the snapshot: if nothing is there any more, the       *)
(* process dies.                                                           *)
VisitMap ==
    /\ search.at = "visit" /\ search.i <= Len(search.maps)
    /\ LET p    == search.i
           lib  == search.maps[p]
           next == [search EXCEPT !.i = p + 1]
           elf  == [loaded[p] EXCEPT !.path = lib.path, !.inode = lib.inode, !.area = lib.area]
       IN \/ SkipMap(lib) /\ search' = next /\ UNCHANGED cached
          \/ /\ ~SkipMap(lib) /\ CacheHit(p, lib)
             /\ search' = [Answer(search, cached[p]) EXCEPT !.i = p + 1]
             /\ UNCHANGED cached
          \/ /\ ~SkipMap(lib) /\ ~CacheHit(p, lib) /\ lib.area # "data"
             /\ loaded[p] = NoLib
             /\ search' = [search EXCEPT !.at = "fault"] /\ UNCHANGED cached
          \/ /\ ~SkipMap(lib) /\ ~CacheHit(p, lib)
             /\ lib.area = "data" \/ (loaded[p] # NoLib /\ ~elf.sound)
             /\ search' = next /\ cached' = [cached EXCEPT ![p] = NoLib]
          \/ /\ ~SkipMap(lib) /\ ~CacheHit(p, lib) /\ lib.area # "data"
             /\ loaded[p] # NoLib /\ elf.sound
             /\ search' = [Answer(search, elf) EXCEPT !.i = p + 1]
             /\ cached' = [cached EXCEPT ![p] = elf]
    /\ UNCHANGED <<loaded, changes, gone, unseen>>

EndSearch ==
    /\ search.at = "visit" /\ search.i > Len(search.maps)
    /\ search' = [search EXCEPT !.at = "done"]
    /\ UNCHANGED <<loaded, cached, changes, gone, unseen>>

FinderNext == StartSearch \/ VisitMap \/ EndSearch \/ \E p \in Places : ChangeLibrary(p)

(* findElf: the images of a path, only those with dynamic tags if there    *)
(* are any, as their places in the answer.                                 *)
Candidates(path) ==
    LET named   == {i \in DOMAIN search.out : search.out[i].elf.path = path}
        dynamic == {i \in named : search.out[i].elf.dynamic}
    IN IF dynamic # {} THEN dynamic ELSE named

(* The first with the most segments, which of several must have one.       *)
findElf(path) ==
    LET choices     == Candidates(path)
        segments(i) == search.out[i].elf.segments
        most        == {i \in choices : \A k \in choices : segments(k) <= segments(i)}
    IN IF choices = {} \/ ((\E i, k \in choices : i # k) /\ \A i \in choices : segments(i) = 0) THEN NoLib
       ELSE search.out[CHOOSE i \in most : \A k \in most : i <= k].elf

-----------------------------------------------------------------------------
(* Every image in an answer was mapped where the answer says, under its    *)
(* path and with the machine asked for, when the call took its snapshot,   *)
(* though the scan may be years old; places come in order and once.        *)
AnswersWereMapped ==
    \A i \in DOMAIN search.out :
        LET r == search.out[i]
        IN /\ search.maps[r.place] # NoLib /\ search.maps[r.place].path = r.elf.path
           /\ eMachineCheck(search.type, r.elf) /\ FilterPasses(search.filter, search.maps[r.place])
           /\ \A k \in 1 .. i - 1 : search.out[k].place < r.place

(* The cache does not show: an answer is what is mapped now, unless a      *)
(* library took the place of another between two looks at that place.      *)
AnswersCurrent ==
    \A i \in DOMAIN search.out :
        LET r == search.out[i]
        IN r.place \notin unseen /\ loaded[r.place] # NoLib => r.elf = loaded[r.place]

(* When nothing changed since the snapshot and no library took the place   *)
(* of another unseen, every image that is mapped and asked for is in the   *)
(* answer, if its file holds no other.                                     *)
AllImagesFound ==
    search.at = "done" /\ search.maps = loaded /\ unseen = {} =>
        \A p \in Places :
            LET lib == loaded[p]
            IN /\ lib # NoLib /\ lib.sound /\ lib.area # "data"
               /\ FilterPasses(search.filter, lib) /\ eMachineCheck(search.type, lib)
               /\ \A q \in Places \ {p} : loaded[q] = NoLib \/ loaded[q].inode # lib.inode
               => \E i \in DOMAIN search.out : search.out[i] = [place |-> p, elf |-> lib]

(* findElf gives an image if one of the path is in the answer, and one     *)
(* that symbols can be looked up in, if there is one.                      *)
FindsUsable ==
    search.at = "done" => \A i \in DOMAIN search.out :
        LET r == search.out[i].elf
        IN findElf(r.path).path = r.path /\ (r.dynamic => findElf(r.path).dynamic)

(* The list of all images while libraries come and go: answers were        *)
(* mapped, are not those of a library that is gone, leave no image out,    *)
(* and the best of several is given.                                       *)
FinderInv == AnswersWereMapped /\ AnswersCurrent /\ AllImagesFound /\ FindsUsable
=============================================================================
