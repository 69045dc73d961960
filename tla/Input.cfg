SPECIFICATION Spec
CONSTANTS
  Pads = {"p1", "p2"}
  CecKeys <- TheCecKeys
  CecMap <- TheCecMap
  DeckKeys = {"KEY_STOP"}
  HatKeys = {"UP"}
  MaxQueue = 1
  Bundled <- TheBundled
  UserFiles <- TheUser
  Sources <- TheSources
  Setups <- TheSetups
  KbKeys = {"Esc", "Media Play"}
  TextKeys = {"Esc"}
  WhiteListed = {"Media Play"}
  NetKeys = {"Ok", "Menu"}
  MaxOffers = 1
INVARIANTS
  NothingStaysPressed
  FollowsFilesAndSettings
PROPERTIES
  HoldIsAnswered
  AdapterComesBack
