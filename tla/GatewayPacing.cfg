\* The reconnect loop and the heartbeat against the clock.
SPECIFICATION Spec
CONSTANTS
  Width = 5
  DelayMin = 1
  DelayMax = 6
  MinInterval = 2
  Cooldown = 8
  Stable = 4
  MaxRejoin = 5
  Hints <- MCHints
  HbInterval = 2
  BudgetWindow = 6
INVARIANTS
  TypeOK
  WithinBudget
  BacksOff
  SilenceNoticed
