SPECIFICATION SearchSpec
CONSTANTS
  Offers <- SomeModes
  FilmRates <- SomeRates
  MaxModes = 3
INVARIANT ModesAreRight
CHECK_DEADLOCK FALSE
