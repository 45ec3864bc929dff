SPECIFICATION Spec
CONSTANTS
  Files <- OneFile
  VendorsMax = 2
  ModulesMax = 2
  OesMax = 2
  DependenciesMax = 3
  ApiIds = {1, 3}
  MaxIngests = 1
  MaxCalls = 4
  MaxFaults = 0
  VendorEntries <- TheVendors
  ModuleEntries <- TheModules
  DependencyEntries <- TheDependencies
  OeEntries <- TheOes
  PageMax = 2
  MaxPages = 1
  LinkName = "next"
INVARIANT OeCreatedIfMissing
CHECK_DEADLOCK FALSE
