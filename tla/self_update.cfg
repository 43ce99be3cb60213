SPECIFICATION Spec
CONSTANTS
  osdk = osdk
  shim = shim
  Binaries <- MCBinaries
  Release <- MCRelease
  Updater = {u1}
  Missing = Missing
  Torn = Torn
  MaxUpgrades = 3
  MaxKills = 1
  MaxErrors = 2
INVARIANTS OldIsRecoverable
PROPERTIES AllOrNothing
CHECK_DEADLOCK FALSE
