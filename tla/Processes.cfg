SPECIFICATION Spec
CONSTANTS
  Apps = {"old app", "new app"}
  Helpers = {"h1", "h2"}
  Versions = {"1.0", "1.1"}
  VersionOf <- TheVersionOf
  Setups <- TheSetups
  Dumps = {"d1", "d2"}
  MaxUploads = 0
  Cookies = {1, 2}
  MaxTroubles = 2
INVARIANTS
  OneOfEach
  DumpsAreRight
  ScreensaverAsAsked
PROPERTIES
  StopsForGood
  HelperServes
  DumpsGo
