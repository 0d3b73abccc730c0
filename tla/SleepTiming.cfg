SPECIFICATION Spec
CONSTANTS
  MinutesPerDay = 25
  Specs <- Specifications
INVARIANTS TypeOK Punctual LateByInterval WindowIsItsPeriods DisplayIsExact
