\* A list is built once, and a frame; nothing is left to do.
CHECK_DEADLOCK FALSE
SPECIFICATION MCSpec
CONSTANTS
 Lists <- MCLists Unnumbered = Unnumbered
 Fingers <- MCFingers TouchSlop = 1 Home <- MCHome FirstPlace <- MCFirstPlace
 Numbers = {0, 1} IntMax = 3 LongMax = 5 TextCount = 1 Versions <- MCVersions
 Sources <- MCSources Configs <- MCConfigs Canvases <- MCCanvases Crowds <- MCCrowds
INVARIANTS ListInv TouchInv InputsInv FrameInv
