SPECIFICATION Spec
CONSTANTS
 PageCount = 4 PageSize = 2
 libfile = libfile one = one two = two out = out t1 = t1 t2 = t2
 Files <- MCFiles Perms <- MCPerms Patches <- MCPatches Site <- MCSite Code <- MCCode
 BackupOnly = {out} Unusual = {out}
 Threads = {t1, t2} Nil = Nil
 DumpRanges <- MCDumpRanges CopyRanges <- MCCopyRanges
 Lengths = {1, 2, 3}
 top = top sub = sub f1 = f1 f2 = f2 f3 = f3
 MaxSize = 4 Buffer = 2 Elsewhere <- MCElsewhere Root = top Entries <- MCEntries
 ImageSize = 4 MaxPattern = 2 MaxText = 5 Strings = 3
 NameText = name SignatureText = sig LongerText = longer
 MaxEntries = 2 Names = {n1, n2} LongName = long Lengths4Zip = {1, 2} Comments = {"none", "text", "record"}
 DumpNames = {empty, libfile} Empty = empty
 PageLen = 2 ElfBase = 40 LinkedAt = {0, 4, 40} MemSizes = {6, 7, 9, 10} SymbolNames = {s1, s2}
 Places <- MCPlaces Builds <- MCBuilds Loaded0 <- MCLoaded0 MaxChanges = 3
 Layout <- MCLayout Records <- MCRecords LibraryOf <- MCLibraryOf FreeValues = {0, 9} ScanWords = 18 SoMain = 2 MaxLoads = 3
INVARIANTS   ValidatorInv FilesInv SearchInv ImageInv FinderInv RecordsInv
PROPERTIES CopyAdvances
CHECK_DEADLOCK FALSE
