SPECIFICATION LauncherSpec
CONSTANTS
  Envs <- MCEnvs
  Docs <- MCDocs
  GitKeys <- MCGitKeys
  MaxPort = 3
  AppPort = 1
  MaxBoots = 2
  MaxEdits = 3
INVARIANTS
  ManagedSettings
  RewriteSettles
  StartsWholeFiles
PROPERTY
  OnlyExamplesReplaced
CHECK_DEADLOCK FALSE
