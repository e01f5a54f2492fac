SPECIFICATION Spec
CONSTANTS
  Toggles = {"patch"}
  PatchToggles = {"patch"}
  DefaultOn <- MCDefaultOn
  Sliders = {"coins"}
  SliderMin <- MCMin
  SliderMax <- MCMax
  Spinners = {"origin"}
  Positions = {0, 1}
  NativeInit <- MCNativeInit
  Unset = Unset
  MaxWrites = 2
INVARIANTS SavedInv 
PROPERTIES MenuAppears
