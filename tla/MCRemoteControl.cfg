SPECIFICATION FairSpec
CONSTANTS
  Watcher = {"arm_safety", "system_health"}
  Condition = {"permission", "link"}
INVARIANTS
  RemoteTypeOK
  ArmingNeedsReleasedSwitch
PROPERTIES
  LossIsFinal
  PilotPrevails
  OnlyPilotArms
