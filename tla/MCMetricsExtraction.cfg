SPECIFICATION FacadeSpec
CONSTANTS
  NotFinite = NotFinite
  ZeroSample = ZeroSample
  LibPsf = TRUE
  Inputs <- MCInputs
  Later <- MCLater
INVARIANTS
  TypeOK
  OkIsComplete
  SweepIsOfWholeSamples
  UgbwIsFirstCrossing
  MarginIsOfTheCrossing
  SettlingTimeIsLeast
  ExtractedIsReadOnDemand
