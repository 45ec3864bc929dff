SPECIFICATION Spec
CONSTANTS
  Contexts <- MCContexts
  Enabled <- MCEnabled
  MaxCalls = 2
INVARIANTS SettingsAreRegistered BuildRestores VsCountCovers
PROPERTIES AcceptedKeepsOthers RefusedChangesNothing
