CONSTANTS
  Table <- Buttons
  ComboButtons <- Combos
  Key <- Keys
  NoKey = NoKey
  Keymaps <- Maps
SPECIFICATION Spec
INVARIANTS
  TypeOK
  Balanced
PROPERTIES
  ModifierServesOnce
