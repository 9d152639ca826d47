SPECIFICATION FairSpec
CONSTANTS
  Panel = {a, b}
  NoPanel = NoPanel
  Handle = {h1, h2}
  NoHandle = NoHandle
  NoLink = NoLink
  MaxLinks = 3
INVARIANTS
  SessionIsTrustedPanels
  TrustIsStored
PROPERTIES
  NoReopenUntold
  TrustWasInvited
  LossIsTold
  AdvertisesAgain
