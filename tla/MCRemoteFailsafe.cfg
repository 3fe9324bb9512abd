SPECIFICATION Spec
CONSTANTS
  Watcher = {"arm_safety", "system_health"}
  Condition = {"permission", "link"}
PROPERTY FailsafeIsLatched
