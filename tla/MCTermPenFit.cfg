CONSTANTS
  Unset = Unset
  TiColours = 8
  Reduced <- AsEight
  AppPens <- SomePens
SPECIFICATION Spec
INVARIANTS
  ParamsFit
