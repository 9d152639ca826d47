SPECIFICATION Spec
CONSTANTS
  Panel = {a}
  NoPanel = NoPanel
  Handle = {h1}
  NoHandle = NoHandle
  NoLink = NoLink
  MaxLinks = 2
INVARIANTS
  FaultClosesLink
