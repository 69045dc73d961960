SPECIFICATION SettingsSpec
CONSTANTS
  Description <- MCDescription
  Platform = "linux"
  Version = 4
  Installs <- OldInstall
  NewSections = {"web"}
  NewKeys = {"k", "index"}
  NewValue = "x"
  Inputs <- MCInputs
  Cycled <- MCCycled
  CommandLines <- MCCommandLines
  RoleSets = {{}, {"plexpass"}}
  None = None
PROPERTY InterfaceIsKept
