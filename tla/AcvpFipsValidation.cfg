SPECIFICATION Spec
CONSTANTS
  Files <- TheFiles
  VendorsMax = 2
  ModulesMax = 2
  OesMax = 2
  DependenciesMax = 2
  ApiIds = {1}
  MaxIngests = 2
  MaxCalls = 3
  MaxFaults = 1
  VendorEntries <- TheVendors
  ModuleEntries <- TheModules
  DependencyEntries <- TheDependencies
  OeEntries <- TheOes
  PageMax = 2
  MaxPages = 2
  LinkName = "next"
INVARIANTS
  OwnVendor
  DependencyUrlIsItsOwn
  FoundIfListed
  VendorUrlsAgree
  EveryDependencySent
  OeUrlIsItsOwn
PROPERTY VerifyReturns
CHECK_DEADLOCK FALSE
