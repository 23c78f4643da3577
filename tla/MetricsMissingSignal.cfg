SPECIFICATION FacadeSpec
CONSTANTS
  NotFinite = NotFinite
  ZeroSample = ZeroSample
  LibPsf = FALSE
  Inputs <- MCInputs
  Later <- MCLater
INVARIANTS
  MissingSignalsAreReported
