SPECIFICATION MCSpec
CONSTANTS
  Scenes = {"shares", "debts", "admin"}
  LPs = {l1, l2} Traders = {t1, t2} Assets = {a1}
  NoeSupply = 30
  RECOVERY_TIMELOCK_SECS = 2
  InitialConfig <- BaseConfig
  DepositAmounts = {5, 10} NoeAmounts = {3, 4}
  Profits = {6} Losses = {3} Fees = {2} Inflows = {3} Gifts = {2} Payouts = {2}
  Marks <- AllMarks Sizes = {2}
  RecoveryAmounts = {3} FeeBps = {0} Caps = {4} Cooldowns = {2} Bps = {10000}
  MaxCash = 17 MaxDeposited = 10 MaxCum = 6 MaxTime = 3
INVARIANTS TypeOK SharesCounted Solvent DebtBooked
PROPERTIES NoDilution PayoutOrder RecoveryAfterNotice
SYMMETRY VaultSymmetry
