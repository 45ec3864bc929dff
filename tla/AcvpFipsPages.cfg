SPECIFICATION Spec
CONSTANTS
  Files <- TheFiles
  VendorsMax = 2
  ModulesMax = 2
  OesMax = 2
  DependenciesMax = 3
  ApiIds = {1}
  MaxIngests = 2
  MaxCalls = 2
  MaxFaults = 1
  VendorEntries <- TheVendors
  ModuleEntries <- TheModules
  DependencyEntries <- TheDependencies
  OeEntries <- TheOes
  PageMax = 2
  MaxPages = 2
  LinkName = "next"
PROPERTY AllPagesRead
CHECK_DEADLOCK FALSE
