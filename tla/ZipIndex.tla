------------------------------ MODULE ZipIndex ------------------------------
(***************************************************************************)
(* KittyUtils::Zip: the central directory of an archive, from which the    *)
(* library that is mapped straight out of an .apk is recognised by the     *)
(* offset of its data.  An archive is laid out as an archiver and zipalign *)
(* do it: a local header may carry other extra fields than the central     *)
(* one, so that the data begins where it should.                           *)
(***************************************************************************)
EXTENDS KittyFile

CONSTANTS
    MaxEntries, Names, LongName,   \* LongName: one longer than KT_MAX_NAME_LEN
    Lengths4Zip,                   \* lengths of names, of fields and of data
    Comments                       \* what can follow the end record: "none", "text", "record"

ASSUME ZipAssumption == MaxEntries \in Nat /\ Lengths4Zip \subseteq Nat

VARIABLES zip   \* the archive and what was read from it

Header    == 30   \* bytes of a local header
NoArchive == [made |-> FALSE]
ZipInit   == zip = NoArchive

(* Where the parts of an archive lie. *)
LocalSize(e) == Header + e.nameLen + e.localExtra + e.compressed
LocalAt(entries, i) ==
    LET ends[k \in 0 .. Len(entries)] == IF k = 0 THEN 0 ELSE ends[k - 1] + LocalSize(entries[k])
    IN ends[i - 1]
DataAt(entries, i) == LocalAt(entries, i) + Header + entries[i].nameLen + entries[i].localExtra

(* GetCentralDirInfo: going back from the end of the file, the first mark  *)
(* decides; a comment may contain one.  The end record of Zip64 and its    *)
(* locator lie in front of the plain one, which is therefore always taken. *)
EndRecord(marks) == Last(marks)

Marks(a) ==
    (IF a.zip64 THEN <<"locator">> ELSE <<>>) \o <<"end">>
    \o (IF a.comment = "record" THEN <<"comment">> ELSE <<>>)

(* The number of entries it gives; -1 if the record is not one, or refers  *)
(* to Zip64.                                                               *)
TotalEntries(a) ==
    IF EndRecord(Marks(a)) = "end" /\ ~a.zip64 THEN Len(a.entries) ELSE -1

LocalExtra(e) == e.localExtra

(* listFilesInZip: a name that is too long is passed over. *)
listFilesInZip(a) ==
    IF TotalEntries(a) = -1 THEN {} ELSE {i \in DOMAIN a.entries : a.entries[i].name # LongName}

ZipFileInfo(a, i) ==
    LET e == a.entries[i]
    IN [name |-> e.name, size |-> e.compressed, data |-> LocalAt(a.entries, i) + Header + e.nameLen + LocalExtra(e)]

(* GetFileInfoByDataOffset, MMapFileByDataOffset: the first that fits.     *)
GetFileInfoByDataOffset(a, offset) ==
    LET fits == {i \in listFilesInZip(a) : ZipFileInfo(a, i).data = offset}
    IN IF fits = {} THEN <<>> ELSE <<ZipFileInfo(a, Min(fits))>>

Entry == [name : Names \cup {LongName}, nameLen : Lengths4Zip, extra : Lengths4Zip, localExtra : Lengths4Zip,
          compressed : Lengths4Zip \cup {0}]

ReadArchive ==
    /\ ~zip.made
    /\ \E n \in 1 .. MaxEntries : \E entries \in [1 .. n -> Entry], comment \in Comments, zip64 \in BOOLEAN :
           zip' = [made |-> TRUE, entries |-> entries, comment |-> comment, zip64 |-> zip64]

-----------------------------------------------------------------------------
(* The entry that is answered for an offset is the one whose data begins   *)
(* there and, unless its name is too long, every entry is found by its     *)
(* offset, in an archive that is not Zip64 and has no end record in its    *)
(* comment (GetFileInfoByDataOffset).                                      *)
FoundByOffset ==
    zip.made =>
        \A i \in DOMAIN zip.entries :
            LET e == zip.entries[i]  info == GetFileInfoByDataOffset(zip, DataAt(zip.entries, i)) IN
            /\ info # <<>> => info[1].name = e.name /\ info[1].size = e.compressed
            /\ ~zip.zip64 /\ zip.comment # "record" /\ e.name # LongName => info # <<>>

(* Files, directories and archives: bytes arrive in order, success means   *)
(* all of them, a walk lists each file once, and a library in an archive   *)
(* is known by its offset.                                                 *)
FilesInv == FileInv /\ FoundByOffset
=============================================================================
