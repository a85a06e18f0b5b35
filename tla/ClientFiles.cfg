\* install and uninstall of two versions over the owner's edits, with a crash anywhere.
SPECIFICATION ClientSpec
CONSTANTS
  config = config
  settings = settings
  project = project
  mcp = mcp
  shared = shared
  codex = codex
  rules = rules
  hook = hook
  skill = skill
  agents = agents
  refs = refs
  Files = {config, settings, project, mcp, shared, codex, rules, hook, skill, agents, refs}
  Kind <- MCKind
  Selections <- Alone
  Dedicated = {mcp}
  Tomls = {config, codex}
  Nothing = Nothing
  Torn = Torn
  MaxRuns = 4
  MaxEdits = 3
  MaxKills = 2
INVARIANTS ClientTypeOK UserContentKept
PROPERTIES InstallRefreshes UninstallClears
CHECK_DEADLOCK FALSE
