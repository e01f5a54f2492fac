SPECIFICATION Spec
CONSTANTS
  t1 = t1 t2 = t2 egl = egl vendor = vendor
  None = None
  Threads <- MCThreads
  Libs <- MCLibs
  Opened <- MCOpened
  Lzma = vendor
  Callers <- MCCallers
  Rank <- MCRank
  Sees <- MCSees
  ApiLevels = {"L", "N", "P"}
  LinkerTables = {"symtab", "debugdata"}
  linker = linker il2cpp = il2cpp bare = bare mod = mod exe = exe
  Objects <- MCObjects
  Linker = linker
  Path <- MCPath
  Pages <- MCPages
  Zero = {exe}
  Filenames <- MCFilenames
  Designates <- MCDesignates
  LinkNames <- MCLinkNames
  Handles = {h1}
  MaxRefs = 1
  Nil = Nil
INVARIANTS  HandlesInv
 
CHECK_DEADLOCK FALSE
