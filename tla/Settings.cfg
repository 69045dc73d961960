SPECIFICATION SettingsSpec
CONSTANTS
  Description <- MCDescription
  Platform = "linux"
  Version = 4
  Installs <- MCInstalls
  NewSections = {"web"}
  NewKeys = {"k", "index"}
  NewValue = "x"
  Inputs <- MCInputs
  Cycled <- MCCycled
  CommandLines <- MCCommandLines
  RoleSets = {{}, {"plexpass"}}
  None = None
INVARIANTS
  StoredIsRight
  ShownIsCurrent
 
