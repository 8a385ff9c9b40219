SPECIFICATION Spec
CONSTANTS
  MaxChanges = 3
  Offered = {"openai", "mistral", "custom"}
  Models = {"large"}
  Urls = {"here"}
  Keys = {"key1", "key2"}
  AtOnce = 1
  Operators <- MCOperators
  Categories = 2
  SkillNames = {"focus", "weather"}
  Shipped = {"weather"}
  Bodies = {"b1"}
  Roles = {"chef", "coach"}
  Tools = {"get_time", "show_map"}
INVARIANTS
  RestartKeepsChoice GivenKeyIsUsed SkillsReachable BuiltinsStand
CHECK_DEADLOCK FALSE
