CONSTANTS
  Table <- Buttons
  ComboButtons <- Combos
  Key <- Keys
  NoKey = NoKey
  Keymaps <- Maps
  Capacity = 4
SPECIFICATION DeliverySpec
INVARIANTS
  Balanced
  NoStuckKey
  HeldKeysSeen
PROPERTIES
  ModifierServesOnce
CONSTRAINT OnlyClean
