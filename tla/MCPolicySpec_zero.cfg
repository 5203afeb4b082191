SPECIFICATION Spec
CONSTANTS
  Cooldowns = {0, 60}
  Percents = {20}
  Counts = {2}
INVARIANT SettingsAsDocumented
