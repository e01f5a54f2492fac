------------------------------ MODULE KittyFile ------------------------------
(***************************************************************************)
(* KittyIOFile: readToString and readToBuffer, writeToFile and copy, and   *)
(* writeToFd on a file that others lengthen and shorten meanwhile, with    *)
(* short reads, short writes and a disk that may be full; and              *)
(* listFilesCallback over a tree of directories.                           *)
(*                                                                         *)
(* Byte i of the source is i, whatever its length; stat goes by the path,  *)
(* where another file may be by now, or none.                              *)
(***************************************************************************)
EXTENDS Integers, FiniteSets, SequencesExt

CONSTANTS
    MaxSize,   \* bound on the length of the source
    Buffer,    \* KT_IO_BUFFER_MAX_SIZE
    Elsewhere, \* what st_size may be when the path names another file, or none
    Root,      \* directory whose files are listed
    Entries    \* [directories -> sequence of [kind, name, hidden]]

ASSUME FileAssumption == MaxSize \in Nat /\ Buffer \in Nat \ {0} /\ Elsewhere \subseteq Int

VARIABLES
    source,  \* length of the opened file
    io,      \* the call in progress
    walk     \* the listing in progress

fileVars == <<source, io, walk>>

NoIO   == [op |-> "none", at |-> "idle", size |-> 0, left |-> 0, offset |-> 0,
           got |-> <<>>, out |-> <<>>, failed |-> FALSE, result |-> FALSE]
NoWalk == [stack |-> <<>>, open |-> 0, seen |-> <<>>, stops |-> 0, started |-> FALSE]

FileInit == source \in 0 .. MaxSize /\ io = NoIO /\ walk = NoWalk

Min2(a, b) == IF a < b THEN a ELSE b
Ends(call, ok) == [call EXCEPT !.at = "done", !.result = ok]

-----------------------------------------------------------------------------
Grow   == source < MaxSize /\ source' = source + 1 /\ UNCHANGED <<io, walk>>
Shrink == source > 0 /\ source' = source - 1 /\ UNCHANGED <<io, walk>>

(* readToString, writeToFile(path) after Delete and Open, writeToFd: Stat. *)
Begin(op) ==
    /\ io.at = "idle"
    /\ \E size \in {source} \cup Elsewhere :
           io' = [NoIO EXCEPT !.op = op, !.at = "read", !.size = size, !.left = size]
    /\ UNCHANGED <<source, walk>>

(* A file of known size is read as a whole into memory, and in pieces when *)
(* it is copied or when stat gave no size.                                 *)
AsWhole == io.op # "copy" /\ io.size > 0
Want    == IF AsWhole THEN io.size ELSE Buffer

(* One read(2) of the loop in Read: some bytes, none at the end, an error. *)
ReadSome ==
    /\ io.at = "read"
    /\ LET pos == io.offset + Len(io.got)  most == Min2(Want - Len(io.got), source - pos) IN
         \/ \E n \in 1 .. most :
               io' = [io EXCEPT !.got = @ \o [i \in 1 .. n |-> pos + i],
                                !.at = IF Len(io.got) + n = Want THEN "use" ELSE "read"]
         \/ most <= 0 /\ io' = [io EXCEPT !.at = "use"]
         \/ io' = [io EXCEPT !.at = "use", !.failed = TRUE]
    /\ UNCHANGED <<source, walk>>

Whole(n)      == n = io.size

(* What was read is complete: writeToFd goes on with it.                   *)
ReadDone(bytes, ok) ==
    IF io.op = "fd" /\ ok /\ bytes # <<>>
    THEN [io EXCEPT !.at = "send", !.got = bytes, !.out = <<>>]
    ELSE Ends([io EXCEPT !.out = bytes], ok /\ io.op # "fd")

UseWhole ==
    /\ io.at = "use" /\ AsWhole
    /\ io' = ReadDone(io.got \o [i \in 1 .. io.size - Len(io.got) |-> 0], Whole(Len(io.got)))
    /\ UNCHANGED <<source, walk>>

Advanced(call, n) == [call EXCEPT !.offset = @ + n, !.got = <<>>, !.at = "read"]

(* The loop for a file without a size: an empty piece ends it; Read never  *)
(* answers -1, so that an error is not told from the end.                  *)
UsePiece ==
    /\ io.at = "use" /\ ~AsWhole /\ io.op # "copy"
    /\ io' = IF io.got = <<>> THEN ReadDone(io.out, TRUE)
             ELSE Advanced([io EXCEPT !.out = @ \o io.got], Len(io.got))
    /\ UNCHANGED <<source, walk>>

(* Mutant of Satisfied: whatever is left is an unsigned number. *)
SatisfiedUnsigned(left) == left >= 0
Satisfied(left) == left <= 0

(* writeToFile: with a size its loop ends at zero bytes left and succeeds  *)
(* if no more than that are left; without one only a write can fail.       *)
CopyPiece ==
    /\ io.at = "use" /\ io.op = "copy"
    /\ IF io.got = <<>> THEN io' = Ends(io, io.size = 0 \/ Satisfied(io.left))
       ELSE \/ LET n    == Len(io.got)
                   next == Advanced([io EXCEPT !.out = @ \o io.got, !.left = @ - n], n)
               IN io' = IF io.size # 0 /\ next.left = 0 THEN Ends(next, TRUE) ELSE next
            \/ \E n \in 0 .. Len(io.got) - 1 :
                   io' = Ends([io EXCEPT !.out = @ \o SubSeq(io.got, 1, n)], io.size # 0 /\ Satisfied(io.left))
    /\ UNCHANGED <<source, walk>>

(* The loop of write(2) in writeToFd. *)
SendSome ==
    /\ io.at = "send"
    /\ \/ \E n \in 1 .. Len(io.got) - Len(io.out) :
             LET sent == SubSeq(io.got, 1, Len(io.out) + n)
             IN io' = IF sent = io.got THEN Ends([io EXCEPT !.out = sent], TRUE) ELSE [io EXCEPT !.out = sent]
       \/ io' = Ends(io, FALSE)
    /\ UNCHANGED <<source, walk>>

-----------------------------------------------------------------------------
(* listFilesCallback on a directory that may not be readable.              *)
Enter(w, d) == {w, [w EXCEPT !.stack = Append(@, [dir |-> d, next |-> 1]), !.open = @ + 1]}

StartWalk ==
    /\ ~walk.started
    /\ walk' \in Enter([walk EXCEPT !.started = TRUE], Root)
    /\ UNCHANGED <<source, io>>

Closed(w) == [w EXCEPT !.stack = Front(@), !.open = @ - 1]

(* readdir: a callback that answers true ends only the directory it was    *)
(* called in, and leaves it open.                                          *)
WalkStep ==
    /\ walk.stack # <<>>
    /\ LET f == Last(walk.stack)
           on == [walk EXCEPT !.stack[Len(walk.stack)].next = f.next + 1]
       IN IF f.next > Len(Entries[f.dir]) THEN walk' = Closed(walk)
          ELSE LET e == Entries[f.dir][f.next] IN
               CASE e.hidden -> walk' = on
                 [] ~e.hidden /\ e.kind = "dir"  -> walk' \in Enter(on, e.name)
                 [] ~e.hidden /\ e.kind = "file" ->
                      \/ walk' = [on EXCEPT !.seen = Append(@, e.name)]
                      \/ walk' = [on EXCEPT !.seen = Append(@, e.name), !.stack = Front(@), !.stops = @ + 1]
                 [] OTHER -> walk' = on
    /\ UNCHANGED <<source, io>>

IONext   == \/ Grow \/ Shrink
            \/ \E op \in {"string", "copy", "fd"} : Begin(op)
            \/ ReadSome \/ UseWhole \/ UsePiece \/ CopyPiece \/ SendSome
WalkNext == StartWalk \/ WalkStep

-----------------------------------------------------------------------------
Upto(n) == [i \in 1 .. n |-> i]

(* However reads are cut and the file changes length, what has arrived is  *)
(* a beginning of the file without a gap or a repetition; only a read that *)
(* failed may end in zeros.                                                *)
ArrivesInOrder ==
    io.at = "done" => \E n \in 0 .. Len(io.out) :
                         /\ io.out = Upto(n) \o [i \in 1 .. Len(io.out) - n |-> 0]
                         /\ n = Len(io.out) \/ (AsWhole /\ ~io.result)

(* A read that succeeds has all the bytes that stat had promised, a copy   *)
(* at least these, whether the file grew or shrank in between; writeToFd   *)
(* has sent as many.                                                       *)
SuccessIsWhole ==
    io.at = "done" /\ io.result /\ io.size > 0 =>
        IF io.op = "copy" THEN Len(io.out) >= io.size ELSE io.out = Upto(io.size)

(* Regular: the files below a directory, as far as names are not hidden.   *)
Shown(d) == {i \in DOMAIN Entries[d] : ~Entries[d][i].hidden /\ Entries[d][i].kind \in {"dir", "file"}}
Regular[d \in DOMAIN Entries] ==
    UNION {IF Entries[d][i].kind = "dir" THEN Regular[Entries[d][i].name] ELSE {Entries[d][i].name} : i \in Shown(d)}
Below(e) == IF e.kind = "dir" THEN Regular[e.name] ELSE {e.name}

(* Directories make a tree: names are paths, and links are not followed.   *)
ASSUME EntriesAssumption ==
    /\ Root \in DOMAIN Entries
    /\ \A d \in DOMAIN Entries :
           /\ Entries[d] \in Seq(ToSet(Entries[d]))
           /\ \A i \in Shown(d) : Entries[d][i].kind = "dir" => Entries[d][i].name \in DOMAIN Entries
           /\ \A i, j \in Shown(d) : i # j => Below(Entries[d][i]) \cap Below(Entries[d][j]) = {}

(* A listing calls back once for each file, never for a hidden one; every  *)
(* directory is closed again but those in which a callback said to stop.   *)
ListsOnce ==
    /\ IsInjective(walk.seen) /\ ToSet(walk.seen) \subseteq Regular[Root]
    /\ walk.open = Len(walk.stack) + walk.stops

(* Files and directories: bytes arrive in order, success means all of      *)
(* them, and a walk lists each file once.                                  *)
FileInv == ArrivesInOrder /\ SuccessIsWhole /\ ListsOnce
=============================================================================
